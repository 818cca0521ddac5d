SPECIFICATION ParametersSpec
CONSTANTS
  Groups <- MCGroups
  Layers <- MCLayers
  CallKinds <- MCCallKinds
  BudgetLimit = 3
  GatewayLimit = 1
  PresetLimit = 2
INVARIANTS CeilingKept PrecedenceKept ExplicitNeverDropped AdvertisedServed
CHECK_DEADLOCK FALSE
