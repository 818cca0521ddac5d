SPECIFICATION FairSpec
CONSTANTS
  Calls = {o1, k1, s1}
  Official = {o1}
  Streams = {s1}
  Slots = 1
CHECK_DEADLOCK FALSE
INVARIANTS SlotsBalanced DispatchHonest StatusAgreesWithAnswer JournalFollowsCall
PROPERTIES CallsEnd
