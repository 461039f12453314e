----------------------------- MODULE ToolNames ------------------------------
(***************************************************************************)
(* The names of tools in the combined hub (crates/mcp/src/hub.rs): a tool  *)
(* of a server is listed under the id of the server, the separator "__"    *)
(* and its own name, and the name in a call is split at the first          *)
(* separator.  Names are sequences of Letters and "_".                     *)
(***************************************************************************)
EXTENDS FiniteSets, Naturals, Sequences

CONSTANTS
  Letters,
  MaxName,    \* bound on the length of ids and of names of tools
  MaxListed   \* bound on the tools of a listing

Underscore == "_"

ASSUME LetterAssumption == Underscore \notin Letters

VARIABLE listed   \* tools in the answer of tools/list: <<server, tool>>

nameVars == <<listed>>

Names == UNION {[1..n -> Letters \cup {Underscore}] : n \in 1..MaxName}

Separator == <<Underscore, Underscore>>
SeparatorsIn(name) ==
  {i \in 1..(Len(name) - 1) : SubSeq(name, i, i + 1) = Separator}

JoinToolName(server, tool) == server \o Separator \o tool

SplitBehind(name, i) == <<SubSeq(name, 1, i - 1), SubSeq(name, i + 2, Len(name))>>

\* Deliberately wrong: the name is split at the last separator.
SplitAtLast(name) ==
  SplitBehind(name, CHOOSE i \in SeparatorsIn(name) :
                      \A j \in SeparatorsIn(name) : j <= i)

\* Of a name that holds a separator.
SplitToolName(name) ==
  SplitBehind(name, CHOOSE i \in SeparatorsIn(name) :
                      \A j \in SeparatorsIn(name) : i <= j)

\* McpServerInput::validate.
Validate(id) == SeparatorsIn(id) = {}

\* A server may give its tools any names.
ListTool(server, tool) ==
  /\ Validate(server)
  /\ Cardinality(listed) < MaxListed
  /\ listed' = listed \cup {<<server, tool>>}

NamesInit == listed = {}
NamesNext == \E server, tool \in Names : ListTool(server, tool)

NamesSpec == NamesInit /\ [][NamesNext]_nameVars

-----------------------------------------------------------------------------
(***************************************************************************)
(* A call by the name under which a tool was listed goes to the server and *)
(* the tool it was listed for, and to no other, whatever underscores the   *)
(* names hold, provided that no id of a server ends in one: validate       *)
(* allows "a_", and "a___b" is then a tool of "a" (hub.rs, join_tool_name  *)
(* and split_tool_name; mcp.rs, McpServerInput::validate).                 *)
(***************************************************************************)
CallReachesListedTool ==
  \A entry \in listed :
    LET server == entry[1]  tool == entry[2]  name == JoinToolName(server, tool) IN
    server[Len(server)] # Underscore =>
      /\ SplitToolName(name) = <<server, tool>>
      /\ \A other \in listed :
           /\ other # entry /\ other[1][Len(other[1])] # Underscore
           => JoinToolName(other[1], other[2]) # name
=============================================================================
