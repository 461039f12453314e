----------------------------- MODULE McpGateway -----------------------------
(***************************************************************************)
(* The MCP side of the central proxy: the registry of MCP servers          *)
(* (mcp.rs), the tool policies of groups (policy.rs), the admin calls that *)
(* change both (admin.rs), and the requests of users at /mcp/{server}      *)
(* (proxy/mcp_permissions.rs, proxy/mcp_forward.rs) and at the combined    *)
(* hub /mcp (proxy/mcp_hub.rs).                                            *)
(*                                                                         *)
(* Every SQL statement and every call of an MCP server is an action,       *)
(* together with the code up to the next await.  Slots of Calls and        *)
(* Requests are used once.                                                 *)
(*                                                                         *)
(* The key of a tool in a policy is the string "server:tool".  A string is *)
(* the sequence of what stands between its colons, so that an id or a name *)
(* without a colon has one part.                                           *)
(*                                                                         *)
(* Abstracted: bodies, headers other than the configured one, and the      *)
(* tools a server offers, which are all of Tools.  That the hub splits the *)
(* name that it lists into server and tool again is ToolNames' business.   *)
(***************************************************************************)
EXTENDS Integers, FiniteSets, Sequences

CONSTANTS
  Servers,     \* identifiers; list_servers sorts by them
  Tools,
  Parts,       \* what stands between two colons
  Spelling,    \* id of a server or name of a tool -> its parts
  Groups,
  Urls,
  Headers,     \* auth headers
  Calls,       \* calls of administrators
  Requests,    \* requests of users
  ToolLists,   \* allowed_tools that administrators set
  UserGroups,  \* groups of users
  None,
  All,         \* NULL in allowed_tools
  MaxActors    \* bound on the calls and requests of a behaviour

\* The key of a tool, format!("{server}:{tool}"), and whether a key starts
\* with "{server}:".  Different tools may have the same key.
Key(s, t) == Spelling[s] \o Spelling[t]
Entries == {Key(s, t) : s \in Servers, t \in Tools}
StartsWith(e, s) ==
  Len(Spelling[s]) < Len(e) /\ SubSeq(e, 1, Len(Spelling[s])) = Spelling[s]

\* McpServerInput::validate lets a colon through.
WithoutColon(s) == Len(Spelling[s]) = 1

ASSUME SpellingAssumption ==
  /\ \A x \in Servers \cup Tools : Spelling[x] \in Seq(Parts) \ {<<>>}
  /\ \A s, u \in Servers : Spelling[s] = Spelling[u] => s = u
ASSUME ToolsAssumption == Tools # {}
ASSUME ServersAssumption == Servers \subseteq Int
ASSUME OrderAssumption ==
  \A some \in SUBSET Servers : some # {} => \E s \in some : \A u \in some : s <= u
ASSUME ListsAssumption ==
  /\ ToolLists \subseteq {All} \cup SUBSET Entries
  /\ UserGroups \subseteq SUBSET Groups
ASSUME NoneAssumption ==
  /\ None # All
  /\ None \notin Servers \cup Tools \cup Headers \cup Urls
  /\ \A list \in SUBSET Entries : None # list /\ All # list
ASSUME MaxActorsAssumption == MaxActors \in Nat

VARIABLES
  server,      \* server -> its row in mcp_servers, or None
  policy,      \* group -> its row in mcp_server_policies, or None
  call,        \* the calls of administrators
  request,     \* the requests of users
  \* History: no guard of an action reads the variables below.
  supplied,    \* server -> the header supplied last since its row exists
  permitted    \* request -> keys its groups allowed at some time during it

historyVars == <<supplied, permitted>>
vars == <<server, policy, call, request, supplied, permitted>>

ServerRows == [url : Urls, enabled : BOOLEAN, header : Headers \cup {None}]

ASSUME NoneIsNoRow == None \notin ServerRows

-----------------------------------------------------------------------------
(***************************************************************************)
(* Calls of administrators.                                                *)
(***************************************************************************)
CallStates ==
  [at : {"new", "findServer", "insertServer", "updateServer", "deleteServer",
         "findPolicy", "insertPolicy", "updatePolicy", "deletePolicy",
         "audit", "done"},
   server : Servers \cup {None}, row : ServerRows \cup {None},
   seen : ServerRows \cup {None},
   group : Groups \cup {None}, list : {None, All} \cup SUBSET Entries]

NewCall ==
  [at |-> "new", server |-> None, row |-> None, seen |-> None,
   group |-> None, list |-> None]

Running(t) == call[t].at \notin {"new", "done"}
Continue(t, c) == call' = [call EXCEPT ![t] = c]
MoveTo(t, place) == Continue(t, [call[t] EXCEPT !.at = place])

\* A call begins; it may interfere with every request.
Start(t, c) ==
  /\ call[t].at = "new"
  /\ Continue(t, c)
  /\ request' = [r \in Requests |-> [request[r] EXCEPT !.quiet = FALSE]]
  /\ UNCHANGED <<server, policy, historyVars>>

\* create_mcp_server and upsert_mcp_server; a header of None was not supplied.
StoreServer(t, s, row) ==
  Start(t, [NewCall EXCEPT !.at = "findServer", !.server = s, !.row = row])

FindServer(t) ==
  LET c == call[t] IN
  /\ c.at = "findServer"
  /\ Continue(t, [c EXCEPT !.seen = server[c.server],
       !.at = IF server[c.server] = None THEN "insertServer" ELSE "updateServer"])
  /\ UNCHANGED <<server, policy, request, historyVars>>

\* The INSERT fails if another call has registered the server meanwhile.
InsertServer(t) ==
  LET c == call[t] IN
  /\ c.at = "insertServer"
  /\ \/ /\ server[c.server] = None
        /\ server' = [server EXCEPT ![c.server] = c.row]
        /\ supplied' = [supplied EXCEPT ![c.server] = c.row.header]
        /\ MoveTo(t, "audit")
     \/ /\ server[c.server] # None
        /\ MoveTo(t, "done")
        /\ UNCHANGED <<server, supplied>>
  /\ UNCHANGED <<policy, request, permitted>>

\* Deliberately wrong: the row is written as a whole, with the header that
\* was read.
Rewritten(c, row) ==
  [c.row EXCEPT !.header = IF c.row.header = None THEN c.seen.header ELSE @]

\* The columns of the UPDATE: the header only if one was supplied.
Updated(c, row) ==
  [c.row EXCEPT !.header = IF c.row.header = None THEN row.header ELSE @]

\* The UPDATE fails if another call has deleted the server meanwhile.
UpdateServer(t) ==
  LET c == call[t]
      row == server[c.server] IN
  /\ c.at = "updateServer"
  /\ \/ /\ row # None
        /\ server' = [server EXCEPT ![c.server] = Updated(c, row)]
        /\ supplied' = IF c.row.header = None THEN supplied
                       ELSE [supplied EXCEPT ![c.server] = c.row.header]
        /\ MoveTo(t, "audit")
     \/ /\ row = None
        /\ MoveTo(t, "done")
        /\ UNCHANGED <<server, supplied>>
  /\ UNCHANGED <<policy, request, permitted>>

DeleteServer(t, s) == Start(t, [NewCall EXCEPT !.at = "deleteServer", !.server = s])

ExecDeleteServer(t) ==
  /\ call[t].at = "deleteServer"
  /\ server' = [server EXCEPT ![call[t].server] = None]
  /\ supplied' = [supplied EXCEPT ![call[t].server] = None]
  /\ MoveTo(t, "audit")
  /\ UNCHANGED <<policy, request, permitted>>

-----------------------------------------------------------------------------
(***************************************************************************)
(* Policies.  AllowedTools is resolve_mcp_allowed_tools: one SELECT of the *)
(* rows of all the groups of a user.                                       *)
(***************************************************************************)
RowsOf(groups) == {policy[g] : g \in {h \in groups : policy[h] # None}}

\* Deliberately wrong: an empty list counts as no list at all.
UnionOrAll(groups) ==
  LET rows == RowsOf(groups) IN
  IF rows = {} THEN {}
  ELSE IF All \in rows \/ {} \in rows THEN All ELSE UNION rows

AllowedTools(groups) ==
  LET rows == RowsOf(groups) IN IF All \in rows THEN All ELSE UNION rows

\* resolve_mcp_tool_allowed, resolve_mcp_has_any_tool and
\* resolve_mcp_allowed_servers, for what AllowedTools found.  The last takes
\* what stands before the first colon of a key for the server.
Allows(allowed, s, t) == IF allowed = All THEN TRUE ELSE Key(s, t) \in allowed
HasAnyTool(allowed, s) ==
  IF allowed = All THEN TRUE ELSE \E e \in allowed : StartsWith(e, s)
ReachableServers(allowed) ==
  IF allowed = All THEN Servers
  ELSE {s \in Servers : \E e \in allowed : Spelling[s] = <<Head(e)>>}

\* For the history: the keys that policies p grant the groups.
Grants(p, groups) ==
  UNION {IF p[g] = All THEN Entries ELSE p[g] : g \in {h \in groups : p[h] # None}}

SetPolicy(t, g, list) ==
  Start(t, [NewCall EXCEPT !.at = "findPolicy", !.group = g, !.list = list])

FindPolicy(t) ==
  /\ call[t].at = "findPolicy"
  /\ MoveTo(t, IF policy[call[t].group] = None THEN "insertPolicy"
                                               ELSE "updatePolicy")
  /\ UNCHANGED <<server, policy, request, historyVars>>

\* The INSERT fails if there is a row, the UPDATE if there is none.
WritePolicy(t) ==
  LET c == call[t] IN
  /\ \/ c.at = "insertPolicy" /\ policy[c.group] = None
     \/ c.at = "updatePolicy" /\ policy[c.group] # None
  /\ policy' = [policy EXCEPT ![c.group] = c.list]
  /\ permitted' = [r \in Requests |->
       permitted[r] \cup Grants(policy', request[r].groups)]
  /\ MoveTo(t, "audit")
  /\ UNCHANGED <<server, request, supplied>>

FailPolicy(t) ==
  LET c == call[t] IN
  /\ \/ c.at = "insertPolicy" /\ policy[c.group] # None
     \/ c.at = "updatePolicy" /\ policy[c.group] = None
  /\ MoveTo(t, "done")
  /\ UNCHANGED <<server, policy, request, historyVars>>

DeletePolicy(t, g) == Start(t, [NewCall EXCEPT !.at = "deletePolicy", !.group = g])

ExecDeletePolicy(t) ==
  /\ call[t].at = "deletePolicy"
  /\ policy' = [policy EXCEPT ![call[t].group] = None]
  /\ MoveTo(t, "audit")
  /\ UNCHANGED <<server, request, historyVars>>

\* record_admin_audit and the answer.
Answer(t) ==
  /\ call[t].at = "audit"
  /\ MoveTo(t, "done")
  /\ UNCHANGED <<server, policy, request, historyVars>>

\* A statement fails, or the administrator goes away.
Abort(t) ==
  /\ Running(t)
  /\ MoveTo(t, "done")
  /\ UNCHANGED <<server, policy, request, historyVars>>

-----------------------------------------------------------------------------
(***************************************************************************)
(* Requests of users.  "todo" holds the servers a fan-out has still to     *)
(* visit.  History: the tools that were listed, the servers that were sent *)
(* something and those whose answer was of no use, the audit entry, and    *)
(* whether administrators were quiet since the request came in.            *)
(***************************************************************************)
Methods == {"call", "list", "initialize", "ping", "notification", "unknown",
            "malformed", "unreadable"}
RequestPlaces == {"new", "reach", "again", "policy", "servers", "resolve",
                  "forward", "deny", "audit", "done", "gone"}

RequestStates ==
  [at : RequestPlaces, endpoint : {"server", "hub"}, method : Methods,
   groups : SUBSET Groups, server : Servers \cup {None}, tool : Tools \cup {None},
   allowed : {All} \cup SUBSET Entries, todo : SUBSET Servers,
   row : ServerRows \cup {None}, listed : SUBSET (Servers \X Tools), sent : SUBSET Servers,
   skipped : SUBSET Servers, entry : {"none", "allowed", "denied", "lost"},
   quiet : BOOLEAN]

NewRequest ==
  [at |-> "new", endpoint |-> "hub", method |-> "ping", groups |-> {},
   server |-> None, tool |-> None, allowed |-> {}, todo |-> {}, row |-> None,
   listed |-> {}, sent |-> {}, skipped |-> {}, entry |-> "none", quiet |-> TRUE]

Proceed(r, q) ==
  /\ request' = [request EXCEPT ![r] = q]
  /\ UNCHANGED <<server, policy, call, historyVars>>

Arrive(r, q) ==
  /\ request[r].at = "new"
  /\ request' = [request EXCEPT ![r] = [q EXCEPT !.quiet = \A t \in Calls : ~Running(t)]]
  /\ permitted' = [permitted EXCEPT ![r] = Grants(policy, q.groups)]
  /\ UNCHANGED <<server, policy, call, supplied>>

\* POST /mcp/{server}: extract_tool_call tells the client requests, whose
\* policy is checked, from notifications and methods that it does not know,
\* which pass, and from the bodies that are refused.
ArriveAtServer(r, groups, s, method, t) ==
  Arrive(r, [NewRequest EXCEPT
    !.endpoint = "server", !.groups = groups, !.server = s, !.method = method,
    !.tool = IF method = "call" THEN t ELSE None,
    !.at = IF method \in {"malformed", "unreadable"} THEN "deny"
           ELSE IF method \in {"notification", "unknown"} THEN "resolve"
           ELSE "policy"])

\* POST /mcp: split_tool_name gives the server of a tool.  A body that is no
\* JSON-RPC request is answered at once.
ArriveAtHub(r, groups, s, method, t) ==
  Arrive(r, [NewRequest EXCEPT
    !.groups = groups, !.method = method,
    !.at = IF method = "unreadable" THEN "done" ELSE "reach",
    !.server = IF method = "call" THEN s ELSE None,
    !.tool = IF method = "call" THEN t ELSE None])

\* What the hub does once it has the servers its caller may reach.
AfterReach(method) ==
  IF method \in {"call", "list"} THEN "policy"
  ELSE IF method = "initialize" THEN "servers"
  ELSE IF method = "notification" THEN "again"
  ELSE IF method = "malformed" THEN "deny" ELSE "audit"

\* resolve_mcp_allowed_servers; a notification asks twice.  If the SELECT
\* fails the request is refused.
Reach(r) ==
  LET q == request[r]
      reachable == ReachableServers(AllowedTools(q.groups)) IN
  \/ /\ q.at = "reach"
     /\ \/ Proceed(r, [q EXCEPT !.todo = reachable, !.at = AfterReach(q.method)])
        \/ Proceed(r, [q EXCEPT !.at = "deny"])
  \/ /\ q.at = "again"
     /\ \/ Proceed(r, [q EXCEPT !.todo = reachable, !.at = "servers"])
        \/ Proceed(r, [q EXCEPT !.at = "done"])

\* resolve_mcp_tool_allowed and resolve_mcp_has_any_tool.
CheckPolicy(r) ==
  LET q == request[r]
      allowed == AllowedTools(q.groups)
      passes == IF q.method = "call" THEN Allows(allowed, q.server, q.tool)
                                     ELSE HasAnyTool(allowed, q.server) IN
  /\ q.at = "policy"
  /\ q.endpoint = "server" \/ q.method = "call"
  /\ \/ passes /\ Proceed(r, [q EXCEPT !.at = "resolve"])
     \/ Proceed(r, [q EXCEPT !.at = "deny"])   \* refused, or the SELECT fails

\* resolve_mcp_allowed_tools of handle_tools_list.  The servers that may be
\* reached are still those of the SELECT before.
ReadTools(r) ==
  LET q == request[r] IN
  /\ q.at = "policy"
  /\ q.endpoint = "hub" /\ q.method = "list"
  /\ \/ Proceed(r, [q EXCEPT !.at = "servers", !.allowed = AllowedTools(q.groups)])
     \/ Proceed(r, [q EXCEPT !.at = "done"])

Least(S) == CHOOSE s \in S : \A u \in S : s <= u

\* A fan-out goes on with the servers in todo, or ends.
Visit(q, todo) ==
  [q EXCEPT !.todo = todo,
            !.server = IF todo = {} THEN None ELSE Least(todo),
            !.at = IF todo # {} THEN "resolve"
                   ELSE IF q.method = "list" THEN "audit" ELSE "done"]

Enabled(s) == server[s] # None /\ server[s].enabled

\* list_enabled_servers.
ListServers(r) ==
  LET q == request[r] IN
  /\ q.at = "servers"
  /\ \/ Proceed(r, Visit(q, {s \in q.todo : Enabled(s)}))
     \/ Proceed(r, [q EXCEPT !.at = "done"])

FanOut(q) == q.endpoint = "hub" /\ q.method # "call"

\* A fan-out skips a server it cannot use.
Skip(q) == Visit([q EXCEPT !.skipped = @ \cup {q.server}], q.todo \ {q.server})

\* Deliberately wrong: a server that is gone is called like any other.
ResolveUnchecked(r) ==
  LET q == request[r] IN
  /\ q.at = "resolve"
  /\ \/ Proceed(r, [q EXCEPT !.at = "forward", !.row = server[q.server]])
     \/ FanOut(q) /\ Proceed(r, Skip(q))
     \/ ~FanOut(q) /\ Proceed(r, [q EXCEPT !.at = "audit"])

\* resolve_server: the row with its decrypted header, unless it is disabled.
\* At /mcp/{server} a server that is not there is not audited, but an error is.
Resolve(r) ==
  LET q == request[r] IN
  /\ q.at = "resolve"
  /\ \/ Enabled(q.server)
         /\ Proceed(r, [q EXCEPT !.at = "forward", !.row = server[q.server]])
     \/ FanOut(q) /\ Proceed(r, Skip(q))
     \/ q.endpoint = "server" /\ ~Enabled(q.server)
         /\ Proceed(r, [q EXCEPT !.at = "done"])
     \/ q.endpoint = "server" /\ Proceed(r, [q EXCEPT !.at = "audit"])
     \/ q.endpoint = "hub" /\ q.method = "call" /\ Proceed(r, [q EXCEPT !.at = "deny"])

\* Deliberately wrong: a policy that allows everything lists nothing.
ListedByEntry(q) ==
  {<<q.server, t>> : t \in {u \in Tools : q.allowed # All /\ Allows(q.allowed, q.server, u)}}

\* The tools of the answer that the policy allows.
Listed(q) == {<<q.server, t>> : t \in {u \in Tools : Allows(q.allowed, q.server, u)}}

\* Deliberately wrong: a failed call of the MCP server is not audited.
ForwardAuditingSuccess(r) ==
  LET sent == [request[r] EXCEPT !.sent = @ \cup {request[r].server}] IN
  /\ request[r].at = "forward"
  /\ \/ Proceed(r, [sent EXCEPT !.at = "audit"])
     \/ Proceed(r, [sent EXCEPT !.at = "done"])

\* call_upstream.  An answer of use ends an initialize, and adds to a list;
\* any answer, and any failure, goes to the client of a single server.
Forward(r) ==
  LET q == request[r]
      sent == [q EXCEPT !.sent = @ \cup {q.server}, !.row = None] IN
  /\ q.at = "forward"
  /\ IF ~FanOut(q) THEN Proceed(r, [sent EXCEPT !.at = "audit"])
     ELSE \/ Proceed(r, Skip(sent))
          \/ q.method = "initialize" /\ Proceed(r, [sent EXCEPT !.at = "done"])
          \/ q.method = "list" /\ Proceed(r, Visit(
                [sent EXCEPT !.listed = @ \cup Listed(q)], q.todo \ {q.server}))

\* record_mcp_audit: a failure to write the entry is only logged.
WriteEntry(r, entry) ==
  \E e \in {entry, "lost"} : Proceed(r, [request[r] EXCEPT !.at = "done", !.entry = e])

Deny(r) == request[r].at = "deny" /\ WriteEntry(r, "denied")
Audit(r) == request[r].at = "audit" /\ WriteEntry(r, "allowed")

\* The client goes away and the handler's future is dropped.
Disconnect(r) ==
  /\ request[r].at \notin {"new", "done", "gone"}
  /\ Proceed(r, [request[r] EXCEPT !.at = "gone"])

-----------------------------------------------------------------------------
\* The decrypted header is there for the call of the MCP server.
TypeOK ==
  /\ server \in [Servers -> ServerRows \cup {None}]
  /\ policy \in [Groups -> {None, All} \cup SUBSET Entries]
  /\ call \in [Calls -> CallStates]
  /\ request \in [Requests -> RequestStates]
  /\ \A r \in Requests : request[r].at = "forward" => request[r].row # None
  /\ supplied \in [Servers -> Headers \cup {None}]
  /\ permitted \in [Requests -> SUBSET Entries]

\* Any registry and any policies that calls may have left behind.
Init ==
  /\ server \in [Servers -> ServerRows \cup {None}]
  /\ policy \in [Groups -> {None} \cup ToolLists]
  /\ call = [t \in Calls |-> NewCall]
  /\ request = [r \in Requests |-> NewRequest]
  /\ supplied = [s \in Servers |-> IF server[s] = None THEN None ELSE server[s].header]
  /\ permitted = [r \in Requests |-> {}]

SpareActor ==
  Cardinality({t \in Calls : call[t].at # "new"}) +
    Cardinality({r \in Requests : request[r].at # "new"}) < MaxActors

Begin(t) ==
  \/ \E s \in Servers, row \in ServerRows : StoreServer(t, s, row)
  \/ \E s \in Servers : DeleteServer(t, s)
  \/ \E g \in Groups, list \in ToolLists : SetPolicy(t, g, list)
  \/ \E g \in Groups : DeletePolicy(t, g)

Handle(t) ==
  \/ FindServer(t) \/ InsertServer(t) \/ UpdateServer(t) \/ ExecDeleteServer(t)
  \/ FindPolicy(t) \/ WritePolicy(t) \/ FailPolicy(t) \/ ExecDeletePolicy(t)
  \/ Answer(t)

Ask(r) ==
  \E groups \in UserGroups, s \in Servers, t \in Tools, method \in Methods :
    \/ ArriveAtServer(r, groups, s, method, t)
    \/ ArriveAtHub(r, groups, s, method, t)

Serve(r) ==
  \/ Reach(r) \/ CheckPolicy(r) \/ ReadTools(r) \/ ListServers(r)
  \/ Resolve(r) \/ Forward(r) \/ Deny(r) \/ Audit(r) \/ Disconnect(r)

Next ==
  \/ SpareActor /\ \E t \in Calls : Begin(t)
  \/ \E t \in Calls : Handle(t) \/ Abort(t)
  \/ SpareActor /\ \E r \in Requests : Ask(r)
  \/ \E r \in Requests : Serve(r)

Spec == Init /\ [][Next]_vars

-----------------------------------------------------------------------------
(***************************************************************************)
(* The header of a server is the one that was supplied last: an update     *)
(* that supplies none keeps it, even if it read the row before another     *)
(* administrator rotated the header (upsert_server).                       *)
(***************************************************************************)
HeaderIsLastSupplied ==
  \A s \in Servers : server[s] # None => server[s].header = supplied[s]

(***************************************************************************)
(* A tool call that reaches an MCP server, and every tool that is listed,  *)
(* has a key that was granted to one of the user's groups at some time     *)
(* since the request came in, however administrators change policies in    *)
(* between; and a list visits only servers with such a key                 *)
(* (mcp_permissions_middleware and mcp_hub_handler, which check and act in *)
(* separate steps).                                                        *)
(***************************************************************************)
OnlyPermitted ==
  \A r \in Requests :
    LET q == request[r] IN
    /\ q.at = "forward" /\ q.method = "call" => Key(q.server, q.tool) \in permitted[r]
    /\ q.at = "forward" /\ q.method = "list" =>
         \E e \in permitted[r] : StartsWith(e, q.server)
    /\ \A e \in q.listed : Key(e[1], e[2]) \in permitted[r]

\* The tools with a granted key whose servers the hub can reach: a server with
\* a colon in its id only by a policy that allows everything.
Shown(p, groups) ==
  {e \in Servers \X Tools :
     /\ Key(e[1], e[2]) \in Grants(p, groups)
     /\ WithoutColon(e[1]) \/ \E g \in groups : p[g] = All}

\* A list of the hub that is about to be answered, and that no administrator
\* has disturbed.
UndisturbedList(q) == q.at = "audit" /\ FanOut(q) /\ q.method = "list" /\ q.quiet

(***************************************************************************)
(* While administrators are quiet, the hub lists exactly the tools that    *)
(* the user may call, on every enabled server that answered, but for those *)
(* of servers with a colon in their ids, which it lists only under a       *)
(* policy that allows everything (handle_tools_list against                *)
(* handle_tools_call).                                                     *)
(***************************************************************************)
ListsWhatMayBeCalled ==
  \A r \in Requests :
    LET q == request[r] IN
    UndisturbedList(q) =>
      q.listed = {e \in Shown(policy, q.groups) :
                    Enabled(e[1]) /\ e[1] \notin q.skipped}

(***************************************************************************)
(* What a user is granted he gets, and nothing else.                       *)
(***************************************************************************)
GrantedIsGiven == OnlyPermitted /\ ListsWhatMayBeCalled

(***************************************************************************)
(* The audit log tells the truth: a request with a denied entry has sent   *)
(* nothing to an MCP server, and an answered request that did send         *)
(* something has an allowed entry, unless the log could not be written     *)
(* (record_mcp_audit).  The hub keeps no entry of initialize and of        *)
(* notifications.                                                          *)
(***************************************************************************)
AuditTellsTruth ==
  \A r \in Requests :
    LET q == request[r] IN
    /\ q.entry = "denied" => q.sent = {}
    /\ /\ q.at = "done" /\ q.sent # {}
       /\ q.endpoint = "server" \/ q.method \in {"call", "list"}
       => q.entry \in {"allowed", "lost"}
=============================================================================
