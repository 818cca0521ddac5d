---------------------------- MODULE Parameters -----------------------------
(***************************************************************************)
(* The parameters a model call is sent with: src/app/model_parameters.py,  *)
(* src/app/model_presets.py and the part of gateway.completions that uses  *)
(* them.  A route is saved, its capabilities are published, and a client   *)
(* calls it: the provider's defaults, the request and the route's          *)
(* overrides are merged in this order and fitted to the preset.            *)
(*                                                                         *)
(* Parameters are a function from the names that are set to their values.  *)
(* thinking, {"type": "enabled" | "disabled"} in the code, is "on" or      *)
(* "off"; temperature is counted in units, top_p in hundredths.            *)
(*                                                                         *)
(* The specification bears the module's name, for GatewayProofs extends    *)
(* this module beside Gateway.                                             *)
(***************************************************************************)
EXTENDS Naturals, FiniteSets, Functions

CONSTANTS
  Groups,       \* parameters to vary together
  Layers(_),    \* what a configuration or a request of a group may set
  CallKinds,    \* the remaining features of a call, records of Features
  BudgetLimit,  \* 131072: largest budget that validates
  GatewayLimit, \* 16384: largest output budget of a bounded call
  PresetLimit   \* 32768: largest output budget of the OpenAI preset

BudgetOrder == <<"max_tokens", "max_completion_tokens", "max_output_tokens">>
Budgets == {BudgetOrder[i] : i \in 1..3}

Values ==
  [max_tokens |-> 1..BudgetLimit, max_completion_tokens |-> 1..BudgetLimit, max_output_tokens |-> 1..BudgetLimit,
   thinking |-> {"on", "off"}, enable_thinking |-> {"on", "off"},
   reasoning_effort |-> {"none", "medium", "high"},
   temperature |-> {1, 2}, top_p |-> {90, 95},
   presence_penalty |-> {1}, frequency_penalty |-> {1}]

Formats == {"text", "json_object", "json_schema"}
Features == [format : Formats, stream : BOOLEAN, user : BOOLEAN, quoted : BOOLEAN]

VARIABLES
  route,       \* ModelRoute with the parameter_defaults of its Provider
  advertised,  \* capabilitiesV2 of the route, as a client has read them
  call         \* the request made and what became of it

parametersVars == <<route, advertised, call>>

-----------------------------------------------------------------------------
(* model_parameters.py                                                     *)

Empty == [x \in {} |-> 0]

\* f.update(g)
Put(f, g) == [x \in DOMAIN f \cup DOMAIN g |-> IF x \in DOMAIN g THEN g[x] ELSE f[x]]
Drop(f, names) == Restrict(f, DOMAIN f \ names)
Has(f, name, values) == name \in DOMAIN f /\ f[name] \in values

\* ModelParameters.compatible
Valid(f) ==
  /\ Cardinality(DOMAIN f \cap Budgets) <= 1
  /\ Has(f, "thinking", {"off"}) \/ Has(f, "enable_thinking", {"off"})
       => ~Has(f, "reasoning_effort", {"medium", "high"})
  /\ {"thinking", "enable_thinking"} \subseteq DOMAIN f => f.thinking = f.enable_thinking

\* A budget replaces a budget of another name.
Merge(f, layer) ==
  Put(IF DOMAIN layer \cap Budgets = {} THEN f ELSE Drop(f, Budgets), layer)

\* ModelParameters: what may be saved, or sent in a request.
Layer(f) ==
  /\ DOMAIN f \subseteq DOMAIN Values
  /\ \A name \in DOMAIN f : f[name] \in Values[name]
  /\ Valid(f)

ASSUME ParametersAssumption ==
  /\ \A group \in Groups : \A f \in Layers(group) : Layer(f)
  /\ CallKinds \subseteq Features
  /\ BudgetLimit \in Nat
  /\ GatewayLimit \in Nat \ {0}
  /\ PresetLimit \in Nat

-----------------------------------------------------------------------------
(* PRESETS and resolve_parameters                                          *)

Custom == "custom"
Qwen == "qwen-chat-v1"
OpenAI == "openai-gpt41-v1"
DeepSeek == "deepseek-chat-v1"

PresetDefaults(preset) ==
  IF preset \in {Qwen, DeepSeek} THEN [thinking |-> "off"] ELSE Empty
TokenField(preset) == IF preset = OpenAI THEN "max_completion_tokens" ELSE "max_tokens"
PresetFormats(preset) ==
  IF preset = OpenAI THEN Formats ELSE {"text", "json_object"}

\* The first of the budget names that f has.
BudgetOf(f) ==
  BudgetOrder[CHOOSE i \in 1..3 :
    BudgetOrder[i] \in DOMAIN f /\ \A j \in 1..(i - 1) : BudgetOrder[j] \notin DOMAIN f]

HasBudget(f) == DOMAIN f \cap Budgets # {}

\* Mutant: a budget is capped by a request under the same name only.
CappedByName(f, request) ==
  IF /\ HasBudget(f)
     /\ BudgetOf(f) \in DOMAIN request
     /\ f[BudgetOf(f)] > request[BudgetOf(f)]
    THEN [f EXCEPT ![BudgetOf(f)] = request[BudgetOf(f)]]
    ELSE f

\* preserve_output_ceiling
Capped(f, request) ==
  IF /\ HasBudget(f)
     /\ HasBudget(request)
     /\ f[BudgetOf(f)] > request[BudgetOf(request)]
    THEN [f EXCEPT ![BudgetOf(f)] = request[BudgetOf(request)]]
    ELSE f

\* Mutant: an effort alone says nothing about thinking.
WithoutAliasOnly(layer) ==
  IF "enable_thinking" \in DOMAIN layer
    THEN Put(Drop(layer, {"enable_thinking"}), [thinking |-> layer.enable_thinking])
    ELSE layer

\* One way to say whether the model thinks; an effort says it too.
Canonical(layer) ==
  LET f == IF "enable_thinking" \in DOMAIN layer
             THEN Put(Drop(layer, {"enable_thinking"}), [thinking |-> layer.enable_thinking])
             ELSE layer
  IN IF "reasoning_effort" \in DOMAIN f /\ "thinking" \notin DOMAIN f
       THEN Put(f, [thinking |-> IF f.reasoning_effort = "none" THEN "off" ELSE "on"])
       ELSE f

\* A layer that switches thinking replaces the effort of the layers below.
MergeCanonical(f, layer) ==
  LET g == Canonical(layer)
      switches == "thinking" \in DOMAIN g /\ "reasoning_effort" \notin DOMAIN g
  IN Merge(IF switches THEN Drop(f, {"reasoning_effort"}) ELSE f, g)

Thinks(f) == Has(f, "thinking", {"on"})

\* Parameters of the configuration that DeepSeek would ignore or clamp.
IgnoredByDeepSeek(f) ==
  DOMAIN f \cap
    ((IF Thinks(f) THEN {"temperature", "presence_penalty", "frequency_penalty"} ELSE {})
     \cup (IF Thinks(f) /\ ~Has(f, "top_p", {90}) THEN {} ELSE {"top_p"}))

\* Mutant: an explicit parameter is omitted like a configured one.
NeverUnsupported(preset, f, request) == ~(Thinks(f) /\ Has(f, "reasoning_effort", {"none"}))

\* What the preset can take, of the merged parameters f.
Supported(preset, f, request) ==
  /\ ~(Thinks(f) /\ Has(f, "reasoning_effort", {"none"}))
  /\ preset = Qwen =>
       /\ Thinks(f) => "max_completion_tokens" \notin DOMAIN f \cup DOMAIN request
       /\ ~Has(f, "reasoning_effort", {"medium", "high"})
       /\ ~Has(f, "temperature", {2})
       /\ "frequency_penalty" \notin DOMAIN f
  /\ preset = OpenAI =>
       /\ ~Thinks(f)
       /\ ~Has(f, "reasoning_effort", {"medium", "high"})
       /\ HasBudget(f) => f[BudgetOf(f)] <= PresetLimit
  /\ preset = DeepSeek =>
       /\ ~Has(f, "reasoning_effort", {"medium"})
       /\ IgnoredByDeepSeek(f) \cap DOMAIN request = {}

\* The preset's own names.
Adapted(preset, f) ==
  LET g == IF HasBudget(f)
             THEN Put(Drop(f, Budgets), [x \in {TokenField(preset)} |-> f[BudgetOf(f)]])
             ELSE f
  IN CASE preset = Qwen ->
            Put(Drop(g, {"thinking", "reasoning_effort"}),
                [enable_thinking |-> IF Thinks(g) THEN "on" ELSE "off"])
       [] preset = OpenAI -> Drop(g, {"thinking", "reasoning_effort"})
       [] preset = DeepSeek -> Drop(g, IgnoredByDeepSeek(g))

Refused == [ok |-> FALSE]
Accepted(f) == [ok |-> TRUE, parameters |-> f]

ResolveChat(r, request) ==
  LET plain == Capped(Merge(Merge(r.defaults, request), r.overrides), request)
      layered == Capped(MergeCanonical(MergeCanonical(MergeCanonical(
                   PresetDefaults(r.preset), r.defaults), request), r.overrides), request)
  IN IF \E layer \in {r.defaults, request, r.overrides} : "max_output_tokens" \in DOMAIN layer
       THEN Refused
     ELSE IF r.preset = Custom
       THEN IF Valid(plain) THEN Accepted(plain) ELSE Refused
     ELSE IF Supported(r.preset, layered, request)
       THEN Accepted(Adapted(r.preset, layered)) ELSE Refused

-----------------------------------------------------------------------------
(* resolve_route_parameters for Responses                                  *)

TotalOutput(r) == r.preset = OpenAI \/ r.semantics = "total_output"

ForResponses(layer) ==
  IF "max_completion_tokens" \in DOMAIN layer
    THEN Put(Drop(layer, {"max_completion_tokens"}), [max_output_tokens |-> layer.max_completion_tokens])
    ELSE layer

FitsResponses(r, layer) ==
  /\ "max_completion_tokens" \in DOMAIN layer => TotalOutput(r)
  /\ DOMAIN ForResponses(layer) \subseteq {"max_output_tokens", "temperature", "top_p", "reasoning_effort"}
  /\ r.preset = OpenAI => "reasoning_effort" \notin DOMAIN layer

ResolveResponses(r, request) ==
  IF \A layer \in {r.defaults, request, r.overrides} : FitsResponses(r, layer)
    THEN Accepted(Capped(Merge(Merge(ForResponses(r.defaults), ForResponses(request)),
                               ForResponses(r.overrides)), request))
    ELSE Refused

\* resolve_route_parameters
Resolve(r, request) ==
  IF r.protocol = "responses" THEN ResolveResponses(r, request) ELSE ResolveChat(r, request)

-----------------------------------------------------------------------------
(* route_capabilities_v2                                                   *)

DeclaredFormats(r) ==
  IF r.preset # Custom THEN PresetFormats(r.preset)
  ELSE CASE r.structured = "json_schema" -> Formats
         [] r.structured = "json_object" -> {"text", "json_object"}
         [] OTHER -> {"text"}

\* Mutant: formats are advertised as declared, whatever the defaults.
DeclaredModes(r, parameters) == DeclaredFormats(r) \ {"text"}

OutputModes(r, parameters) ==
  IF r.preset = Qwen /\ Has(parameters, "enable_thinking", {"on"})
    THEN {} ELSE DeclaredFormats(r) \ {"text"}

OutputField(r, parameters) ==
  CASE r.protocol = "responses" -> "max_output_tokens"
    [] r.protocol # "responses" /\ r.preset # Custom -> TokenField(r.preset)
    [] OTHER -> IF "max_completion_tokens" \in DOMAIN parameters
                  THEN "max_completion_tokens" ELSE "max_tokens"

AtMost(n, limit) == IF n <= limit THEN n ELSE limit

\* defaultOutputTokens; the configured budget may be larger.
Capabilities(r) ==
  LET p == Resolve(r, Empty).parameters
      field == OutputField(r, p)
  IN [modes |-> OutputModes(r, p), field |-> field,
      default |-> IF field \in DOMAIN p THEN AtMost(p[field], GatewayLimit) ELSE GatewayLimit]

-----------------------------------------------------------------------------
(* gateway.completions                                                     *)

\* validate_request_capabilities, for chat.
FormatTaken(r, f, kind) ==
  r.preset # Custom =>
    /\ kind.format \in PresetFormats(r.preset)
    /\ ~(r.preset = Qwen /\ Has(f, "enable_thinking", {"on"}) /\ (kind.format # "text" \/ ~kind.stream))

\* OUTPUT_CAPABILITY_UNKNOWN
FormatDeclared(r, kind) ==
  \/ r.protocol # "responses" /\ ~kind.quoted
  \/ kind.format = "text"
  \/ kind.format \in Capabilities(r).modes

Bounded(r, kind) == kind.user \/ kind.quoted \/ r.protocol = "responses"

\* What is sent upstream, if anything is.
Sent(r, request, kind) ==
  LET resolved == Resolve(r, request)
      p == resolved.parameters
      field == OutputField(r, p)
      budget == IF field \in DOMAIN p THEN p[field] ELSE GatewayLimit
  IN IF ~resolved.ok THEN Refused
     ELSE IF ~(r.protocol = "responses" \/ FormatTaken(r, p, kind)) \/ ~FormatDeclared(r, kind)
       THEN Refused
     ELSE IF ~Bounded(r, kind) THEN Accepted(p)
     ELSE IF budget \notin 1..GatewayLimit THEN Refused
     ELSE Accepted(Put(Drop(p, {"max_tokens", "max_completion_tokens"}), [x \in {field} |-> budget]))

-----------------------------------------------------------------------------
NotCalled == [made |-> FALSE]
Unread == [read |-> FALSE]

\* A saved route: save_route has resolved its parameters without a request.
ParametersInit ==
  /\ \E group \in Groups :
       route \in [group : {group}, preset : {Custom, Qwen, OpenAI, DeepSeek},
                  protocol : {"chat_completions", "responses"},
                  structured : {"unknown", "json_object", "json_schema"},
                  semantics : {"unknown", "total_output"},
                  defaults : Layers(group), overrides : Layers(group)]
  /\ route.protocol = "responses" => route.preset \in {Custom, OpenAI}
  \* Settings without effect are left at their defaults.
  /\ route.preset # Custom => route.structured = "unknown"
  /\ route.protocol # "responses" \/ route.preset # Custom => route.semantics = "unknown"
  /\ Resolve(route, Empty).ok
  /\ advertised = Unread
  /\ call = NotCalled

Advertise ==
  /\ advertised = Unread
  /\ advertised' = Capabilities(route)
  /\ UNCHANGED <<route, call>>

\* Responses are not streamed and name their effort in another field.
Call(request, kind) ==
  /\ call = NotCalled
  /\ advertised # Unread
  /\ kind.user => ~kind.stream
  /\ route.protocol = "responses" =>
       /\ ~kind.stream
       /\ DOMAIN request \subseteq {"max_output_tokens", "temperature", "top_p", "reasoning_effort"}
  /\ call' = [made |-> TRUE, request |-> request, kind |-> kind, sent |-> Sent(route, request, kind)]
  /\ UNCHANGED <<route, advertised>>

ParametersNext ==
  \/ Advertise
  \/ \E request \in Layers(route.group), kind \in CallKinds : Call(request, kind)

ParametersSpec == ParametersInit /\ [][ParametersNext]_parametersVars

-----------------------------------------------------------------------------
(* Properties.  They speak of calls that were sent.                        *)

WasSent == call.made /\ call.sent.ok
Parameter(name) == call.sent.parameters[name]
Given(name) == name \in DOMAIN call.sent.parameters

\* "Configuration may lower, but never raise, an explicit caller budget",
\* whatever the names under which caller, provider, route and preset put it
\* (preserve_output_ceiling).
CeilingKept ==
  WasSent /\ HasBudget(call.request) =>
    /\ Cardinality(DOMAIN call.sent.parameters \cap Budgets) = 1
    /\ Parameter(BudgetOf(call.sent.parameters)) <= call.request[BudgetOf(call.request)]

\* What a layer says about thinking, under any of its names.
Says(layer, mode) ==
  \/ Has(layer, "thinking", {mode})
  \/ Has(layer, "enable_thinking", {mode})
  \/ /\ {"thinking", "enable_thinking"} \cap DOMAIN layer = {}
     /\ Has(layer, "reasoning_effort", IF mode = "off" THEN {"none"} ELSE {"medium", "high"})

\* "aliases cannot defeat precedence" (resolve_parameters): a model with a
\* preset thinks exactly if the uppermost layer that says so, under whatever
\* name, wants it to.
PrecedenceKept ==
  WasSent /\ route.preset \in {Qwen, DeepSeek} =>
    LET layers == <<PresetDefaults(route.preset), route.defaults, call.request, route.overrides>>
        Decides(i, mode) == Says(layers[i], mode)
                              /\ \A j \in (i + 1)..4 : ~Says(layers[j], "on") /\ ~Says(layers[j], "off")
    IN \A mode \in {"on", "off"} :
         (\E i \in 1..4 : Decides(i, mode)) <=>
           (Has(call.sent.parameters, "thinking", {mode})
              \/ Has(call.sent.parameters, "enable_thinking", {mode}))

\* A sampling parameter that the caller set is sent, with the caller's value
\* or the route's, or the call is refused; it is never silently left out.
ExplicitNeverDropped ==
  WasSent =>
    \A name \in {"temperature", "top_p", "presence_penalty", "frequency_penalty"}
                  \cap DOMAIN call.request :
      /\ Given(name)
      /\ Parameter(name) = IF name \in DOMAIN route.overrides
                             THEN route.overrides[name] ELSE call.request[name]

\* "Never advertise unverified capabilities" (route_capabilities), for a call
\* that quotes the capabilities, adds no parameter and asks for an advertised
\* format: it is sent with the advertised budget under the advertised name if
\* the route's own budget, when it has one, keeps to the gateway's limit.  If it
\* does not, the limit is advertised all the same and every such call is refused
\* (OUTPUT_LIMIT).
AdvertisedServed ==
  call.made /\ call.kind.quoted /\ call.request = Empty /\ call.kind.format \in advertised.modes =>
    LET configured == Resolve(route, Empty).parameters
        within == HasBudget(configured) => configured[BudgetOf(configured)] <= GatewayLimit
    IN IF within
         THEN WasSent /\ Given(advertised.field) /\ Parameter(advertised.field) = advertised.default
         ELSE ~WasSent

=============================================================================
