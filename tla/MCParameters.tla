---------------------------- MODULE MCParameters ----------------------------
(***************************************************************************)
(* Parameters with everything that can be said about thinking, about       *)
(* budgets and about sampling varied in all three layers at once.          *)
(***************************************************************************)
EXTENDS Parameters, FiniteSetsExt

MCGroups ==
  { {"thinking", "enable_thinking", "reasoning_effort"},
    {"max_tokens", "max_completion_tokens", "max_output_tokens", "thinking"},
    {"temperature", "top_p", "thinking"},
    {"presence_penalty", "frequency_penalty", "enable_thinking"} }

\* All that these names can be set to.
MCLayers(names) ==
  {f \in FoldSet(LAMBDA name, layers :
                   layers \cup {Put(f, [x \in {name} |-> v]) : f \in layers, v \in Values[name]},
                 {Empty}, names) : Valid(f)}

\* A user, a stream with a model key, and calls that quote a revision.
MCCallKinds ==
  { [format |-> "text", stream |-> FALSE, user |-> TRUE, quoted |-> FALSE],
    [format |-> "text", stream |-> TRUE, user |-> FALSE, quoted |-> FALSE],
    [format |-> "json_object", stream |-> FALSE, user |-> TRUE, quoted |-> TRUE],
    [format |-> "json_schema", stream |-> FALSE, user |-> FALSE, quoted |-> TRUE] }
=============================================================================
