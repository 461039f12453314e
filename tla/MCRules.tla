------------------------------ MODULE MCRules -------------------------------
(***************************************************************************)
(* Small instances for TLC of parts of the code that share no state.      *)
(* A behaviour is about one of them, its topic; the others do not move.    *)
(***************************************************************************)
EXTENDS RateLimiter, UsageStream, PolicyMerge, ToolNames, TokenSaver,
        Schema, Pricing, McpTrip, PolicyDesk, AuditWalk, SaverSummary, LogLines,
        OidcLogin, UsagePages, DeviceBinding

CONSTANTS a1, a2, g1, g2, g3, t1, t2, p1, x1, x2, x3

VARIABLE topic

vars == <<topic, rateVars, streamVars, mergeVars, nameVars, saverVars,
          schemaVars, priceVars, tripVars, deskVars, walkVars, summaryVars, lineVars,
          loginVars, pageVars, bindingVars>>

MCTextLength == [text \in {"blank", "word", "line"} |->
  IF text = "blank" THEN 0 ELSE IF text = "word" THEN 2 ELSE 12]

\* Contents, by their lines; an "e" stands for escape codes.
MCLine(l) ==
  [text   |-> IF l \in {"", "e"} THEN "blank" ELSE IF l = "word" THEN "word" ELSE "line",
   escape |-> l \in {"e", "eline"},
   count  |-> 1]
MCMessage(role, lines) ==
  [role |-> role, content |-> [i \in DOMAIN lines |-> MCLine(lines[i])]]

MCMessages == {
  MCMessage("system", <<"line">>),
  MCMessage("user", <<"line">>),
  MCMessage("user", <<"word">>),
  MCMessage("user", <<"line", "line", "word", "line">>),
  MCMessage("assistant", <<"eline", "line">>),
  MCMessage("assistant", <<"e">>),
  MCMessage("assistant", <<"">>)}

MCDialogues(n) == UNION {[1..m -> MCMessages] : m \in 1..n}
MCBodies ==
  [messages : MCDialogues(3), emptyTools : {FALSE}] \cup
    [messages : MCDialogues(2), emptyTools : {TRUE}]

MCSwitchedOff ==
  [enabled |-> FALSE, collapse |-> FALSE, strip |-> FALSE, budget |-> NoBudget]
MCConfigs ==
  {MCSwitchedOff} \cup
    [enabled : {TRUE}, collapse : BOOLEAN, strip : BOOLEAN, budget : {NoBudget, 3, 7}]

MCNames == {"name", "token"}
MCUpTo(n, S) == UNION {[1..m -> S] : m \in 0..n}
MCFields(values) == [key : MCNames, value : values]
MCLeaves == {Text, Number}
MCNested(n, values) ==
  {Object(fields) : fields \in MCUpTo(n, MCFields(values))} \cup
    {Array(items) : items \in MCUpTo(n, values)}
MCValues == MCLeaves \cup MCNested(2, MCLeaves)
MCEvents ==
  {Object(fields) : fields \in
     MCUpTo(1, MCFields(MCNested(1, MCValues))) \cup MCUpTo(2, MCFields(MCValues))}

MCGroupsClaim == [u \in Persons |-> IF u = a1 THEN {g1, g2} ELSE {}]
MCRolesClaim == [u \in Persons |-> IF u = a1 THEN {g2, g3} ELSE {}]
MCLifetimes == {[number |-> -1, unit |-> "m"], [number |-> 2, unit |-> "h"],
                [number |-> 1, unit |-> "y"]}

MCIssuedBy == [c \in {t1, t2, p1} |-> IF c = t2 THEN a2 ELSE a1]

Init ==
  /\ topic \in {"rate", "stream", "merge", "names", "saver", "schema", "pricing",
               "trip", "desk", "walk", "summary", "line", "login", "pages", "binding"}
  /\ IF topic = "merge"   THEN TRUE ELSE row = <<>>
  /\ IF topic = "schema"  THEN TRUE ELSE database = "relay" /\ recorded = {}
  /\ IF topic = "pricing" THEN TRUE ELSE
       /\ configured = NoPrice /\ enabled = {}
       /\ catalog = [v \in Vendors |-> CHOOSE entry \in Entries : TRUE]
  /\ IF topic = "walk"    THEN TRUE ELSE now = 1
  /\ IF topic = "summary" THEN TRUE ELSE settings = <<>>
  /\ IF topic = "line"    THEN LineInit ELSE event = Object(<<>>) /\ stderr = <<>>
  /\ IF topic = "trip"    THEN TRUE ELSE
       /\ granted = {}
       /\ trip = [at |-> "agent", doc |-> NoRequest("scalar"), endpoint |-> Hub, headers |-> {}]
  /\ IF topic = "login"   THEN TRUE ELSE carries = {}
  /\ IF topic = "pages"   THEN TRUE ELSE quotaOf = [b \in Bands |-> NoQuota]
  /\ IF topic = "binding" THEN BindingInit /\ disk["device"].key = t1 ELSE
       /\ disk = [m \in {"device", "central"} |-> FilesOf(CHOOSE c \in CertsOf(m) : TRUE)]
       /\ program = [p \in {"central", "relay", "login"} |-> NewProcess]
       /\ token = {} /\ replaced = 0
  /\ RateInit /\ StreamInit /\ MergeInit /\ NamesInit /\ SaverInit
  /\ SchemaInit /\ PricingInit /\ TripInit
  /\ DeskInit /\ WalkInit /\ SummaryInit /\ LoginInit /\ PageInit

\* Addresses are alike, and so are calls of administrators: these are the ones
\* that come first.
FirstAddress == admitted'[a2] # <<>> => admitted'[a1] # <<>>
InTurn ==
  /\ change'[x2].at # "idle" => change'[x1].at # "idle"
  /\ change'[x3].at # "idle" => change'[x2].at # "idle"

Next ==
  /\ UNCHANGED topic
  /\ IF topic = "rate"    THEN RateNext /\ FirstAddress ELSE UNCHANGED rateVars
  /\ IF topic = "stream"  THEN StreamNext  ELSE UNCHANGED streamVars
  /\ IF topic = "merge"   THEN MergeNext   ELSE UNCHANGED mergeVars
  /\ IF topic = "names"   THEN NamesNext   ELSE UNCHANGED nameVars
  /\ IF topic = "saver"   THEN SaverNext   ELSE UNCHANGED saverVars
  /\ IF topic = "schema"  THEN SchemaNext  ELSE UNCHANGED schemaVars
  /\ IF topic = "pricing" THEN PricingNext ELSE UNCHANGED priceVars
  /\ IF topic = "trip"    THEN TripNext    ELSE UNCHANGED tripVars
  /\ IF topic = "desk"    THEN DeskNext /\ InTurn ELSE UNCHANGED deskVars
  /\ IF topic = "walk"    THEN WalkNext    ELSE UNCHANGED walkVars
  /\ IF topic = "summary" THEN SummaryNext ELSE UNCHANGED summaryVars
  /\ IF topic = "line"    THEN LineNext    ELSE UNCHANGED lineVars
  /\ IF topic = "login"   THEN LoginNext   ELSE UNCHANGED loginVars
  /\ IF topic = "pages"   THEN PageNext    ELSE UNCHANGED pageVars
  /\ IF topic = "binding" THEN BindingNext ELSE UNCHANGED bindingVars

Spec == Init /\ [][Next]_vars
=============================================================================
