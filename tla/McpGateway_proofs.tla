------------------------- MODULE McpGateway_proofs --------------------------
(***************************************************************************)
(* The properties of MCP servers and requests, for any number of servers,  *)
(* tools, groups, administrators and requests.                             *)
(***************************************************************************)
EXTENDS McpGateway, SequenceTheorems, TLAPS

\* What a call holds while it works on a server.
CallInv ==
  \A t \in Calls :
    /\ call[t] \in CallStates
    /\ call[t].at \in {"findServer", "insertServer", "updateServer"}
         => call[t].server \in Servers /\ call[t].row \in ServerRows
    /\ call[t].at = "deleteServer" => call[t].server \in Servers

RowsInv ==
  /\ server \in [Servers -> ServerRows \cup {None}]
  /\ supplied \in [Servers -> Headers \cup {None}]

HeaderInv ==
  /\ call \in [Calls -> CallStates]
  /\ CallInv
  /\ RowsInv
  /\ HeaderIsLastSupplied

-----------------------------------------------------------------------------
\* What each kind of step does to a call.

LEMMA NewCallOK == NewCall \in CallStates /\ NewCall.at = "new"
BY DEF NewCall, CallStates

LEMMA MoveToOK ==
  ASSUME NEW t \in Calls, HeaderInv,
         NEW place \in {"insertServer", "updateServer", "insertPolicy",
                        "updatePolicy", "audit", "done"},
         place \in {"insertServer", "updateServer"} => call[t].at = "findServer",
         MoveTo(t, place)
  PROVE  (call \in [Calls -> CallStates])' /\ CallInv'
<1>1. call' = [call EXCEPT ![t] = [call[t] EXCEPT !.at = place]]
  BY DEF MoveTo, Continue
<1>2. call[t] \in CallStates /\ call \in [Calls -> CallStates]
  BY DEF HeaderInv
<1>3. /\ [call[t] EXCEPT !.at = place] \in CallStates
      /\ [call[t] EXCEPT !.at = place].at = place
      /\ [call[t] EXCEPT !.at = place].server = call[t].server
      /\ [call[t] EXCEPT !.at = place].row = call[t].row
  BY <1>2 DEF CallStates
<1>. QED
  BY <1>1, <1>2, <1>3 DEF HeaderInv, CallInv

LEMMA StartOK ==
  ASSUME NEW t \in Calls, HeaderInv, NEW c \in CallStates, Start(t, c),
         c.at \in {"findServer", "insertServer", "updateServer"}
           => c.server \in Servers /\ c.row \in ServerRows,
         c.at = "deleteServer" => c.server \in Servers
  PROVE  HeaderInv'
<1>1. call' = [call EXCEPT ![t] = c] /\ server' = server /\ supplied' = supplied
  BY DEF Start, Continue, historyVars
<1>. QED
  BY <1>1 DEF HeaderInv, CallInv, RowsInv, HeaderIsLastSupplied

LEMMA RowsUnchanged ==
  ASSUME HeaderInv, UNCHANGED <<server, supplied>>
  PROVE  RowsInv' /\ HeaderIsLastSupplied'
BY DEF HeaderInv, RowsInv, HeaderIsLastSupplied

-----------------------------------------------------------------------------
LEMMA InitHeader == Init => HeaderInv
<1>. SUFFICES ASSUME Init PROVE HeaderInv
  OBVIOUS
<1>1. call \in [Calls -> CallStates] /\ CallInv
  BY NewCallOK DEF Init, CallInv
<1>2. \A s \in Servers : server[s] # None => server[s].header \in Headers \cup {None}
  BY DEF Init, ServerRows
<1>. QED
  BY <1>1, <1>2 DEF Init, HeaderInv, RowsInv, HeaderIsLastSupplied

LEMMA BeginHeader ==
  ASSUME HeaderInv, NEW t \in Calls, Begin(t)
  PROVE  HeaderInv'
<1>1. ASSUME NEW s \in Servers, NEW row \in ServerRows, StoreServer(t, s, row)
      PROVE  HeaderInv'
  <2>. DEFINE c == [NewCall EXCEPT !.at = "findServer", !.server = s, !.row = row]
  <2>1. c \in CallStates /\ c.at = "findServer" /\ c.server = s /\ c.row = row
    BY DEF NewCall, CallStates
  <2>2. Start(t, c)
    BY <1>1 DEF StoreServer
  <2>. HIDE DEF c
  <2>. QED
    BY <2>1, <2>2, StartOK
<1>2. ASSUME NEW s \in Servers, DeleteServer(t, s)
      PROVE  HeaderInv'
  <2>. DEFINE c == [NewCall EXCEPT !.at = "deleteServer", !.server = s]
  <2>1. c \in CallStates /\ c.at = "deleteServer" /\ c.server = s
    BY DEF NewCall, CallStates
  <2>2. Start(t, c)
    BY <1>2 DEF DeleteServer
  <2>. HIDE DEF c
  <2>. QED
    BY <2>1, <2>2, StartOK
<1>3. ASSUME NEW g \in Groups, NEW list \in ToolLists, SetPolicy(t, g, list)
      PROVE  HeaderInv'
  <2>. DEFINE c == [NewCall EXCEPT !.at = "findPolicy", !.group = g, !.list = list]
  <2>1. c \in CallStates /\ c.at = "findPolicy"
    BY ListsAssumption DEF NewCall, CallStates
  <2>2. Start(t, c)
    BY <1>3 DEF SetPolicy
  <2>. HIDE DEF c
  <2>. QED
    BY <2>1, <2>2, StartOK
<1>4. ASSUME NEW g \in Groups, DeletePolicy(t, g)
      PROVE  HeaderInv'
  <2>. DEFINE c == [NewCall EXCEPT !.at = "deletePolicy", !.group = g]
  <2>1. c \in CallStates /\ c.at = "deletePolicy"
    BY DEF NewCall, CallStates
  <2>2. Start(t, c)
    BY <1>4 DEF DeletePolicy
  <2>. HIDE DEF c
  <2>. QED
    BY <2>1, <2>2, StartOK
<1>. QED
  BY <1>1, <1>2, <1>3, <1>4 DEF Begin

LEMMA FindServerHeader ==
  ASSUME HeaderInv, NEW t \in Calls, FindServer(t)
  PROVE  HeaderInv'
<1>. DEFINE place == IF server[call[t].server] = None THEN "insertServer" ELSE "updateServer"
            c == [call[t] EXCEPT !.seen = server[call[t].server], !.at = place]
<1>1. /\ call[t] \in CallStates /\ call[t].server \in Servers
      /\ call[t].row \in ServerRows
      /\ server[call[t].server] \in ServerRows \cup {None}
  BY DEF FindServer, HeaderInv, CallInv, RowsInv
<1>2. /\ c \in CallStates /\ c.server = call[t].server /\ c.row = call[t].row
      /\ c.at \in {"insertServer", "updateServer"}
  BY <1>1 DEF CallStates
<1>3. call' = [call EXCEPT ![t] = c] /\ UNCHANGED <<server, supplied>>
  BY DEF FindServer, Continue, historyVars
<1>. HIDE DEF c
<1>4. (call \in [Calls -> CallStates])' /\ CallInv'
  BY <1>1, <1>2, <1>3 DEF HeaderInv, CallInv
<1>. QED
  BY <1>3, <1>4, RowsUnchanged DEF HeaderInv

LEMMA InsertServerHeader ==
  ASSUME HeaderInv, NEW t \in Calls, InsertServer(t)
  PROVE  HeaderInv'
<1>. DEFINE c == call[t]
<1>1. c.server \in Servers /\ c.row \in ServerRows /\ c.row.header \in Headers \cup {None}
  BY DEF InsertServer, HeaderInv, CallInv, ServerRows
<1>2. (call \in [Calls -> CallStates])' /\ CallInv'
  BY MoveToOK DEF InsertServer
<1>3. ASSUME server' = [server EXCEPT ![c.server] = c.row],
             supplied' = [supplied EXCEPT ![c.server] = c.row.header]
      PROVE  RowsInv' /\ HeaderIsLastSupplied'
  BY <1>1, <1>3 DEF HeaderInv, RowsInv, HeaderIsLastSupplied
<1>. QED
  BY <1>2, <1>3, RowsUnchanged DEF InsertServer, HeaderInv

LEMMA UpdatedHeader ==
  ASSUME NEW c, c.row \in ServerRows, NEW row \in ServerRows
  PROVE  /\ Updated(c, row) \in ServerRows
         /\ Updated(c, row).header = IF c.row.header = None THEN row.header
                                     ELSE c.row.header
<1>1. /\ c.row.header \in Headers \cup {None} /\ row.header \in Headers \cup {None}
      /\ c.row = [url |-> c.row.url, enabled |-> c.row.enabled, header |-> c.row.header]
      /\ c.row.url \in Urls /\ c.row.enabled \in BOOLEAN
  BY DEF ServerRows
<1>. QED
  BY <1>1 DEF Updated, ServerRows

LEMMA UpdateServerHeader ==
  ASSUME HeaderInv, NEW t \in Calls, UpdateServer(t)
  PROVE  HeaderInv'
<1>. DEFINE c == call[t]
            row == server[c.server]
<1>1. c.server \in Servers /\ c.row \in ServerRows /\ c.row.header \in Headers \cup {None}
  BY DEF UpdateServer, HeaderInv, CallInv, ServerRows
<1>2. (call \in [Calls -> CallStates])' /\ CallInv'
  BY MoveToOK DEF UpdateServer
<1>3. ASSUME row # None,
             server' = [server EXCEPT ![c.server] = Updated(c, row)],
             supplied' = IF c.row.header = None THEN supplied
                         ELSE [supplied EXCEPT ![c.server] = c.row.header]
      PROVE  RowsInv' /\ HeaderIsLastSupplied'
  <2>1. row \in ServerRows /\ row.header = supplied[c.server]
    BY <1>1, <1>3 DEF HeaderInv, RowsInv, HeaderIsLastSupplied
  <2>2. /\ Updated(c, row) \in ServerRows
        /\ Updated(c, row).header = IF c.row.header = None THEN row.header
                                    ELSE c.row.header
    BY <1>1, <2>1, UpdatedHeader
  <2>. DEFINE new == Updated(c, row)
  <2>. HIDE DEF new
  <2>3. /\ server' \in [Servers -> ServerRows \cup {None}]
        /\ server'[c.server] = new
        /\ \A s \in Servers : s # c.server => server'[s] = server[s]
    BY <1>1, <1>3, <2>2 DEF HeaderInv, RowsInv, new
  <2>4. /\ supplied' \in [Servers -> Headers \cup {None}]
        /\ supplied'[c.server] = new.header
        /\ \A s \in Servers : s # c.server => supplied'[s] = supplied[s]
    BY <1>1, <1>3, <2>1, <2>2 DEF HeaderInv, RowsInv, new
  <2>. QED
    BY <2>3, <2>4 DEF HeaderInv, RowsInv, HeaderIsLastSupplied
<1>. QED
  BY <1>2, <1>3, RowsUnchanged DEF UpdateServer, HeaderInv

LEMMA ExecDeleteServerHeader ==
  ASSUME HeaderInv, NEW t \in Calls, ExecDeleteServer(t)
  PROVE  HeaderInv'
<1>1. call[t].server \in Servers
  BY DEF ExecDeleteServer, HeaderInv, CallInv
<1>2. (call \in [Calls -> CallStates])' /\ CallInv'
  BY MoveToOK DEF ExecDeleteServer
<1>3. RowsInv' /\ HeaderIsLastSupplied'
  BY <1>1 DEF ExecDeleteServer, HeaderInv, RowsInv, HeaderIsLastSupplied
<1>. QED
  BY <1>2, <1>3 DEF HeaderInv

LEMMA OtherStatementsHeader ==
  ASSUME HeaderInv, NEW t \in Calls,
         FindPolicy(t) \/ WritePolicy(t) \/ FailPolicy(t) \/ ExecDeletePolicy(t)
           \/ Answer(t) \/ Abort(t)
  PROVE  HeaderInv'
<1>1. UNCHANGED <<server, supplied>>
  BY DEF FindPolicy, WritePolicy, FailPolicy, ExecDeletePolicy, Answer, Abort, historyVars
<1>2. (call \in [Calls -> CallStates])' /\ CallInv'
  BY MoveToOK
  DEF FindPolicy, WritePolicy, FailPolicy, ExecDeletePolicy, Answer, Abort
<1>. QED
  BY <1>1, <1>2, RowsUnchanged DEF HeaderInv

\* Requests read the rows and change none.
LEMMA RequestHeader ==
  ASSUME HeaderInv, NEW r \in Requests, Ask(r) \/ Serve(r)
  PROVE  HeaderInv'
<1>1. ASSUME NEW q, Proceed(r, q) \/ Arrive(r, q)
      PROVE  UNCHANGED <<server, supplied, call>>
  BY <1>1 DEF Proceed, Arrive, historyVars
<1>2. ASSUME Ask(r)
      PROVE  UNCHANGED <<server, supplied, call>>
  BY <1>1, <1>2 DEF Ask, ArriveAtServer, ArriveAtHub
<1>3. ASSUME Serve(r)
      PROVE  UNCHANGED <<server, supplied, call>>
  <2>1. Reach(r) \/ CheckPolicy(r) \/ ReadTools(r) \/ ListServers(r)
          => UNCHANGED <<server, supplied, call>>
    BY <1>1 DEF Reach, CheckPolicy, ReadTools, ListServers
  <2>2. Resolve(r) \/ Forward(r) => UNCHANGED <<server, supplied, call>>
    BY <1>1 DEF Resolve, Forward
  <2>3. Deny(r) \/ Audit(r) \/ Disconnect(r) => UNCHANGED <<server, supplied, call>>
    BY <1>1 DEF Deny, Audit, WriteEntry, Disconnect
  <2>. QED
    BY <1>3, <2>1, <2>2, <2>3 DEF Serve
<1>. QED
  BY <1>2, <1>3, RowsUnchanged DEF HeaderInv, CallInv

LEMMA StutterHeader == HeaderInv /\ UNCHANGED vars => HeaderInv'
BY DEF vars, HeaderInv, CallInv, RowsInv, HeaderIsLastSupplied


-----------------------------------------------------------------------------
(***************************************************************************)
(* What a request holds between two SELECTs.                               *)
(***************************************************************************)
Chosen == {"resolve", "forward"}

\* A request at one server has it from the start, a fan-out from its todo.
Shape(q) ==
  /\ ~FanOut(q) => q.server \in Servers
  /\ q.at \in Chosen => q.server \in Servers
  /\ FanOut(q) /\ q.at \in Chosen => q.server \in q.todo
  /\ FanOut(q) /\ q.at \in Chosen => q.method \in {"list", "initialize", "notification"}
  /\ q.method = "call" => q.tool \in Tools
  /\ q.at = "forward" => q.row # None
  /\ q.at = "new" => q.method = "ping"
  /\ q.at \in {"reach", "again", "servers"} => q.endpoint = "hub"
  /\ q.at = "again" => q.method = "notification"
  /\ q.at = "servers" => q.method \in {"list", "initialize", "notification"}

\* Nothing is sent before a server is chosen, and once at one server.
SentOnce(q) ==
  /\ q.at \notin Chosen \cup {"audit", "done", "gone"} => q.sent = {}
  /\ ~FanOut(q) /\ q.at \in Chosen => q.sent = {}
  /\ q.at # "done" => q.entry = "none"
  /\ q.entry = "denied" => q.sent = {}
  /\ (q.at = "done" /\ q.sent # {} /\ (~FanOut(q) \/ q.method = "list"))
       => q.entry \in {"allowed", "lost"}

\* All it goes by was granted, where granted is the history of the request.
Within(q, granted) ==
  /\ \A s \in q.todo : \E e \in granted : StartsWith(e, s)
  /\ \A s \in Servers, t \in Tools : Allows(q.allowed, s, t) => Key(s, t) \in granted
  /\ q.at \in Chosen /\ q.method = "call" => Key(q.server, q.tool) \in granted
  /\ q.at \in Chosen /\ q.method = "list" => \E e \in granted : StartsWith(e, q.server)
  /\ \A e \in q.listed : Key(e[1], e[2]) \in granted

\* A listing that nobody disturbs; keys are what its groups are granted, now
\* the tools that the hub can show of them, on the servers that are enabled.
Undisturbed(q, keys, now, on) ==
  /\ q.at \in {"reach", "policy", "servers"} => q.listed = {} /\ q.skipped = {}
  /\ q.at \in {"policy", "servers"} => \A e \in now : e[1] \in q.todo
  /\ q.at = "policy" =>
       \A s \in q.todo, t \in Tools : Key(s, t) \in keys <=> <<s, t>> \in now
  /\ q.at \in {"servers"} \cup Chosen =>
       \A s \in q.todo, t \in Tools : Allows(q.allowed, s, t) <=> <<s, t>> \in now
  /\ q.at \in Chosen \cup {"audit"} =>
       /\ q.todo \subseteq on /\ q.todo \cap q.skipped = {}
       /\ q.listed = {e \in now : e[1] \in on /\ e[1] \notin q.skipped /\ e[1] \notin q.todo}
  /\ q.at = "audit" => q.todo = {}

Listing(q) == q.quiet /\ q.endpoint = "hub" /\ q.method = "list"
On == {s \in Servers : Enabled(s)}

Good(q, granted, policies, on) ==
  /\ q \in RequestStates
  /\ Shape(q)
  /\ SentOnce(q)
  /\ Within(q, granted)
  /\ Listing(q) => Undisturbed(q, Grants(policies, q.groups), Shown(policies, q.groups), on)

RequestInv ==
  \A r \in Requests :
    /\ Good(request[r], permitted[r], policy, On)
    /\ request[r].at # "new" =>
         /\ Grants(policy, request[r].groups) \subseteq permitted[r]
         /\ request[r].quiet => \A t \in Calls : ~Running(t)

McpInv ==
  /\ HeaderInv
  /\ policy \in [Groups -> {None, All} \cup SUBSET Entries]
  /\ request \in [Requests -> RequestStates]
  /\ permitted \in [Requests -> SUBSET Entries]
  /\ RequestInv

-----------------------------------------------------------------------------
(***************************************************************************)
(* What the SELECT of the policies finds is what they grant.               *)
(***************************************************************************)
LEMMA AllowedOrAll ==
  ASSUME policy \in [Groups -> {None, All} \cup SUBSET Entries],
         NEW groups \in SUBSET Groups
  PROVE  /\ Grants(policy, groups) \in SUBSET Entries
         /\ \/ /\ AllowedTools(groups) = All /\ Grants(policy, groups) = Entries
               /\ \E g \in groups : policy[g] = All
            \/ /\ AllowedTools(groups) = Grants(policy, groups)
               /\ AllowedTools(groups) # All
               /\ ~\E g \in groups : policy[g] = All
<1>. DEFINE rows == RowsOf(groups)
            keys == Grants(policy, groups)
<1>1. \A list : list \in rows <=> \E g \in groups : policy[g] = list /\ list # None
  BY DEF RowsOf
<1>2. \A list \in rows : list = All \/ list \in SUBSET Entries
  BY <1>1
<1>3. \A e : e \in keys <=> \E list \in rows : e \in (IF list = All THEN Entries ELSE list)
  BY <1>1 DEF Grants
<1>4. All \in rows <=> \E g \in groups : policy[g] = All
  BY <1>1, NoneAssumption
<1>. HIDE DEF rows, keys
<1>5. keys \in SUBSET Entries
  BY <1>2, <1>3
<1>6. CASE All \in rows
  <2>1. AllowedTools(groups) = All
    BY <1>6 DEF AllowedTools, rows
  <2>2. keys = Entries
    BY <1>3, <1>5, <1>6
  <2>. QED
    BY <1>4, <1>5, <1>6, <2>1, <2>2 DEF keys
<1>7. CASE All \notin rows
  <2>1. AllowedTools(groups) = UNION rows
    BY <1>7 DEF AllowedTools, rows
  <2>2. keys = UNION rows
    BY <1>3, <1>7
  <2>3. keys # All
    BY <1>5, NoneAssumption
  <2>. QED
    BY <1>4, <1>5, <1>7, <2>1, <2>2, <2>3 DEF keys
<1>. QED
  BY <1>6, <1>7

LEMMA AllowedIsGranted ==
  ASSUME policy \in [Groups -> {None, All} \cup SUBSET Entries],
         NEW groups \in SUBSET Groups, NEW s \in Servers, NEW t \in Tools
  PROVE  Allows(AllowedTools(groups), s, t) <=> Key(s, t) \in Grants(policy, groups)
<1>1. Key(s, t) \in Entries
  BY DEF Entries
<1>. QED
  BY <1>1, AllowedOrAll DEF Allows

\* A key starts with its server, which is what stands before the first colon
\* if it has none itself.
LEMMA KeyStarts ==
  ASSUME NEW s \in Servers, NEW t \in Tools
  PROVE  /\ StartsWith(Key(s, t), s)
         /\ WithoutColon(s) => Spelling[s] = <<Head(Key(s, t))>>
<1>. DEFINE x == Spelling[s]
            y == Spelling[t]
<1>1. x \in Seq(Parts) /\ y \in Seq(Parts) /\ x # <<>> /\ y # <<>>
  BY SpellingAssumption
<1>. HIDE DEF x, y
<1>2. Len(x) \in Nat /\ Len(x) > 0 /\ Len(y) \in Nat /\ Len(y) > 0
  BY <1>1, EmptySeq, LenProperties
<1>3. /\ x \o y \in Seq(Parts) /\ Len(x \o y) = Len(x) + Len(y)
      /\ \A i \in 1 .. Len(x) : (x \o y)[i] = x[i]
  BY <1>1, <1>2, ConcatProperties
<1>. DEFINE e == x \o y
<1>. HIDE DEF e
<1>4. SubSeq(e, 1, Len(x)) = x
  <2>1. /\ SubSeq(e, 1, Len(x)) \in Seq(Parts) /\ Len(SubSeq(e, 1, Len(x))) = Len(x)
        /\ \A i \in 1 .. Len(x) : SubSeq(e, 1, Len(x))[i] = e[i]
    BY <1>2, <1>3, SubSeqProperties DEF e
  <2>. QED
    BY <1>1, <1>2, <1>3, <2>1, SeqEqual DEF e
<1>5. Len(x) = 1 => x = <<Head(e)>>
  <2>1. Head(e) = e[1]
    BY <1>2, <1>3 DEF e
  <2>. QED
    BY <1>1, <1>2, <1>3, <2>1 DEF e
<1>6. Key(s, t) = e /\ Spelling[s] = x
  BY DEF Key, x, y, e
<1>7. Len(x) < Len(e)
  BY <1>2, <1>3 DEF e
<1>. QED
  BY <1>4, <1>5, <1>6, <1>7 DEF StartsWith, WithoutColon

LEMMA HeadStarts ==
  ASSUME NEW e \in Entries, NEW s \in Servers, Spelling[s] = <<Head(e)>>
  PROVE  StartsWith(e, s) /\ WithoutColon(s)
<1>1. PICK u \in Servers, t \in Tools : e = Key(u, t)
  BY DEF Entries
<1>. DEFINE x == Spelling[u]
            y == Spelling[t]
<1>2. x \in Seq(Parts) /\ y \in Seq(Parts) /\ x # <<>> /\ y # <<>> /\ e = x \o y
  BY <1>1, SpellingAssumption DEF Key
<1>. HIDE DEF x, y
<1>3. e \in Seq(Parts) /\ Len(e) > 1 /\ e # <<>>
  BY <1>2, EmptySeq, LenProperties, ConcatProperties
<1>4. Len(Spelling[s]) = 1
  OBVIOUS
<1>5. SubSeq(e, 1, 1) = <<Head(e)>>
  <2>. DEFINE first == SubSeq(e, 1, 1)
  <2>1. first \in Seq(Parts) /\ Len(first) = 1 /\ first[1] = e[1]
    BY <1>3, SubSeqProperties
  <2>2. Head(e) = e[1]
    BY <1>3
  <2>. HIDE DEF first
  <2>3. first = <<Head(e)>>
    BY <2>1, <2>2
  <2>. QED
    BY <2>3 DEF first
<1>. QED
  BY <1>3, <1>4, <1>5 DEF StartsWith, WithoutColon

\* Which servers a caller has some tool of, and which the hub can reach.
LEMMA ReachFacts ==
  ASSUME policy \in [Groups -> {None, All} \cup SUBSET Entries],
         NEW groups \in SUBSET Groups
  PROVE  LET keys == Grants(policy, groups)
             now == Shown(policy, groups)
             allowed == AllowedTools(groups) IN
         /\ \A s \in Servers : HasAnyTool(allowed, s) => \E e \in keys : StartsWith(e, s)
         /\ ReachableServers(allowed) \in SUBSET Servers
         /\ \A s \in ReachableServers(allowed) : \E e \in keys : StartsWith(e, s)
         /\ \A e \in now : e[1] \in ReachableServers(allowed)
         /\ \A s \in ReachableServers(allowed), t \in Tools :
              Key(s, t) \in keys <=> <<s, t>> \in now
<1>. DEFINE keys == Grants(policy, groups)
            now == Shown(policy, groups)
            allowed == AllowedTools(groups)
            all == \E g \in groups : policy[g] = All
<1>1. /\ keys \in SUBSET Entries
      /\ \/ allowed = All /\ keys = Entries /\ all
         \/ allowed = keys /\ allowed # All /\ ~all
  BY AllowedOrAll
<1>2. \A e : e \in now <=>
        \E s \in Servers, t \in Tools :
          e = <<s, t>> /\ Key(s, t) \in keys /\ (WithoutColon(s) \/ all)
  BY DEF Shown
<1>3. \A s \in Servers, t \in Tools :
        <<s, t>> \in now <=> Key(s, t) \in keys /\ (WithoutColon(s) \/ all)
  BY <1>2
<1>4. \A s \in Servers : \E t \in Tools : Key(s, t) \in Entries /\ StartsWith(Key(s, t), s)
  BY KeyStarts, ToolsAssumption DEF Entries
<1>. HIDE DEF keys, now, allowed, all
<1>5. CASE allowed = All /\ keys = Entries /\ all
  <2>1. ReachableServers(allowed) = Servers
    BY <1>5 DEF ReachableServers
  <2>2. \A s \in Servers : \E e \in keys : StartsWith(e, s)
    BY <1>4, <1>5
  <2>3. \A e \in now : e[1] \in Servers
    BY <1>2
  <2>. QED
    BY <1>3, <1>5, <2>1, <2>2, <2>3 DEF keys, now, allowed
<1>6. CASE allowed = keys /\ allowed # All /\ ~all
  <2>. DEFINE reachable == ReachableServers(allowed)
  <2>1. reachable = {s \in Servers : \E e \in keys : Spelling[s] = <<Head(e)>>}
    BY <1>6 DEF ReachableServers
  <2>. HIDE DEF reachable
  <2>2. \A s \in Servers : HasAnyTool(allowed, s) => \E e \in keys : StartsWith(e, s)
    BY <1>6 DEF HasAnyTool
  <2>3. \A s \in reachable : s \in Servers /\ WithoutColon(s)
                             /\ \E e \in keys : StartsWith(e, s)
    BY <1>1, <2>1, HeadStarts
  <2>4. \A s \in Servers, t \in Tools :
          Key(s, t) \in keys /\ WithoutColon(s) => s \in reachable
    BY <2>1, KeyStarts
  <2>5. \A e \in now : e[1] \in reachable
    BY <1>2, <1>6, <2>4
  <2>6. \A s \in reachable, t \in Tools : Key(s, t) \in keys <=> <<s, t>> \in now
    BY <1>3, <2>3
  <2>. QED
    BY <2>2, <2>3, <2>5, <2>6 DEF keys, now, allowed, reachable
<1>. QED
  BY <1>1, <1>5, <1>6

LEMMA AllowedType ==
  ASSUME policy \in [Groups -> {None, All} \cup SUBSET Entries],
         NEW groups \in SUBSET Groups
  PROVE  AllowedTools(groups) \in {All} \cup SUBSET Entries
<1>1. \A list \in RowsOf(groups) : list = All \/ list \in SUBSET Entries
  BY DEF RowsOf
<1>. QED
  BY <1>1 DEF AllowedTools

LEMMA LeastIsOne ==
  ASSUME NEW todo \in SUBSET Servers, todo # {}
  PROVE  Least(todo) \in todo
<1>1. \E s \in todo : \A u \in todo : s <= u
  BY OrderAssumption
<1>. QED
  BY <1>1 DEF Least

-----------------------------------------------------------------------------
(***************************************************************************)
(* The changes of a request, field by field.                               *)
(***************************************************************************)
Fixed(p, q) ==
  /\ p.endpoint = q.endpoint /\ p.method = q.method /\ p.groups = q.groups
  /\ p.tool = q.tool /\ p.quiet = q.quiet

LEMMA Moved ==
  ASSUME NEW q \in RequestStates, NEW place \in RequestPlaces
  PROVE  LET p == [q EXCEPT !.at = place] IN
         /\ p \in RequestStates /\ Fixed(p, q) /\ p.at = place
         /\ p.server = q.server /\ p.allowed = q.allowed /\ p.todo = q.todo
         /\ p.row = q.row /\ p.listed = q.listed /\ p.sent = q.sent
         /\ p.skipped = q.skipped /\ p.entry = q.entry
BY DEF RequestStates, Fixed

LEMMA Entered ==
  ASSUME NEW q \in RequestStates, NEW e \in {"allowed", "denied", "lost"}
  PROVE  LET p == [q EXCEPT !.at = "done", !.entry = e] IN
         /\ p \in RequestStates /\ Fixed(p, q) /\ p.at = "done" /\ p.entry = e
         /\ p.server = q.server /\ p.allowed = q.allowed /\ p.todo = q.todo
         /\ p.row = q.row /\ p.listed = q.listed /\ p.sent = q.sent
         /\ p.skipped = q.skipped
BY ZenonT(40) DEF RequestStates, RequestPlaces, Fixed

LEMMA Permits ==
  ASSUME NEW q \in RequestStates, NEW allowed \in {All} \cup SUBSET Entries
  PROVE  LET p == [q EXCEPT !.at = "servers", !.allowed = allowed] IN
         /\ p \in RequestStates /\ Fixed(p, q) /\ p.at = "servers" /\ p.todo = q.todo
         /\ p.server = q.server /\ p.allowed = allowed
         /\ p.row = q.row /\ p.listed = q.listed /\ p.sent = q.sent
         /\ p.skipped = q.skipped /\ p.entry = q.entry
BY DEF RequestStates, RequestPlaces, Fixed

LEMMA Visited ==
  ASSUME NEW q \in RequestStates, NEW todo \in SUBSET Servers
  PROVE  LET p == Visit(q, todo) IN
         /\ p \in RequestStates /\ Fixed(p, q) /\ p.todo = todo
         /\ todo # {} => p.at = "resolve" /\ p.server \in todo
         /\ todo = {} => p.at = IF q.method = "list" THEN "audit" ELSE "done"
         /\ p.allowed = q.allowed
         /\ p.row = q.row /\ p.listed = q.listed /\ p.sent = q.sent
         /\ p.skipped = q.skipped /\ p.entry = q.entry
<1>. DEFINE one == IF todo = {} THEN None ELSE Least(todo)
            place == IF todo # {} THEN "resolve"
                     ELSE IF q.method = "list" THEN "audit" ELSE "done"
<1>1. one \in Servers \cup {None} /\ (todo # {} => one \in todo)
  BY LeastIsOne
<1>2. place \in RequestPlaces
  BY DEF RequestPlaces
<1>3. Visit(q, todo) = [q EXCEPT !.todo = todo, !.server = one, !.at = place]
  BY DEF Visit
<1>. HIDE DEF one
<1>4. /\ Visit(q, todo) \in RequestStates /\ Fixed(Visit(q, todo), q)
      /\ Visit(q, todo).todo = todo /\ Visit(q, todo).server = one
      /\ Visit(q, todo).at = place
      /\ Visit(q, todo).allowed = q.allowed /\ Visit(q, todo).row = q.row
      /\ Visit(q, todo).listed = q.listed /\ Visit(q, todo).sent = q.sent
      /\ Visit(q, todo).skipped = q.skipped /\ Visit(q, todo).entry = q.entry
  BY <1>1, <1>2, <1>3 DEF RequestStates, Fixed
<1>. QED
  BY <1>1, <1>4

LEMMA Resolved ==
  ASSUME NEW q \in RequestStates, NEW row \in ServerRows
  PROVE  LET p == [q EXCEPT !.at = "forward", !.row = row] IN
         /\ p \in RequestStates /\ Fixed(p, q) /\ p.at = "forward" /\ p.todo = q.todo
         /\ p.server = q.server /\ p.allowed = q.allowed
         /\ p.row = row /\ p.listed = q.listed /\ p.sent = q.sent
         /\ p.skipped = q.skipped /\ p.entry = q.entry
BY DEF RequestStates, RequestPlaces, Fixed

Delivered(q) == [q EXCEPT !.sent = @ \cup {q.server}, !.row = None]

LEMMA DeliveredFields ==
  ASSUME NEW q \in RequestStates, q.server \in Servers
  PROVE  LET p == Delivered(q) IN
         /\ p \in RequestStates /\ Fixed(p, q) /\ p.at = q.at /\ p.todo = q.todo
         /\ p.server = q.server /\ p.allowed = q.allowed
         /\ p.row = None /\ p.listed = q.listed /\ p.sent = q.sent \cup {q.server}
         /\ p.skipped = q.skipped /\ p.entry = q.entry
BY DEF RequestStates, Fixed, Delivered

LEMMA Skipped ==
  ASSUME NEW q \in RequestStates, q.server \in Servers
  PROVE  LET p == [q EXCEPT !.skipped = @ \cup {q.server}] IN
         /\ p \in RequestStates /\ Fixed(p, q) /\ p.at = q.at /\ p.todo = q.todo
         /\ p.server = q.server /\ p.allowed = q.allowed
         /\ p.row = q.row /\ p.listed = q.listed /\ p.sent = q.sent
         /\ p.skipped = q.skipped \cup {q.server} /\ p.entry = q.entry
BY DEF RequestStates, Fixed

LEMMA ListedMore ==
  ASSUME NEW q \in RequestStates, NEW more \in SUBSET (Servers \X Tools)
  PROVE  LET p == [q EXCEPT !.listed = @ \cup more] IN
         /\ p \in RequestStates /\ Fixed(p, q) /\ p.at = q.at /\ p.todo = q.todo
         /\ p.server = q.server /\ p.allowed = q.allowed
         /\ p.row = q.row /\ p.listed = q.listed \cup more /\ p.sent = q.sent
         /\ p.skipped = q.skipped /\ p.entry = q.entry
BY DEF RequestStates, Fixed

-----------------------------------------------------------------------------
(***************************************************************************)
(* One lemma for every kind of step: of a request that goes on or comes    *)
(* in, of a call that goes on, and of one that begins.                     *)
(***************************************************************************)
LEMMA OnUnchanged == UNCHANGED server => On' = On
BY DEF On, Enabled

LEMMA ProceedOK ==
  ASSUME McpInv, NEW r \in Requests, NEW p, Proceed(r, p),
         request[r].at # "new", p.at # "new", Fixed(p, request[r]),
         Good(p, permitted[r], policy, On)
  PROVE  McpInv'
<1>1. /\ request' = [request EXCEPT ![r] = p]
      /\ UNCHANGED <<server, policy, call, supplied, permitted>>
  BY DEF Proceed, historyVars
<1>2. HeaderInv'
  BY <1>1 DEF McpInv, HeaderInv, CallInv, RowsInv, HeaderIsLastSupplied
<1>3. p \in RequestStates
  BY DEF Good
<1>4. /\ request' \in [Requests -> RequestStates] /\ request'[r] = p
      /\ \A s \in Requests : s # r => request'[s] = request[s]
  BY <1>1, <1>3 DEF McpInv
<1>5. On' = On
  BY <1>1, OnUnchanged
<1>6. \A t \in Calls : Running(t)' <=> Running(t)
  BY <1>1 DEF Running
<1>7. /\ Grants(policy, p.groups) \subseteq permitted[r]
      /\ p.quiet => \A t \in Calls : ~Running(t)
  BY DEF McpInv, RequestInv, Fixed
<1>8. RequestInv'
  BY <1>1, <1>4, <1>5, <1>6, <1>7 DEF McpInv, RequestInv
<1>. QED
  BY <1>1, <1>2, <1>4, <1>8 DEF McpInv

LEMMA ArriveOK ==
  ASSUME McpInv, NEW r \in Requests, NEW q \in RequestStates, Arrive(r, q),
         q.at \in {"deny", "resolve", "policy", "reach", "done"}, Shape(q),
         q.at = "resolve" => q.endpoint = "server" /\ q.method \notin {"call", "list"},
         q.at = "policy" => q.endpoint = "server",
         q.todo = {}, q.listed = {}, q.sent = {}, q.skipped = {},
         q.allowed = {}, q.entry = "none"
  PROVE  McpInv'
<1>. DEFINE quiet == \A t \in Calls : ~Running(t)
            p == [q EXCEPT !.quiet = quiet]
            now == Grants(policy, q.groups)
<1>1. /\ request' = [request EXCEPT ![r] = p]
      /\ permitted' = [permitted EXCEPT ![r] = now]
      /\ UNCHANGED <<server, policy, call, supplied>>
  BY DEF Arrive
<1>2. HeaderInv'
  BY <1>1 DEF McpInv, HeaderInv, CallInv, RowsInv, HeaderIsLastSupplied
<1>3. quiet \in BOOLEAN
  OBVIOUS
<1>. HIDE DEF quiet
<1>4. /\ p \in RequestStates /\ p.quiet = quiet
      /\ p.at = q.at /\ p.endpoint = q.endpoint /\ p.method = q.method
      /\ p.groups = q.groups /\ p.server = q.server /\ p.tool = q.tool
      /\ p.todo = {} /\ p.listed = {} /\ p.sent = {} /\ p.skipped = {}
      /\ p.allowed = {} /\ p.entry = "none" /\ p.row = q.row
  BY <1>3 DEF RequestStates
<1>. HIDE DEF p
<1>5. now \in SUBSET Entries
  BY <1>4, AllowedOrAll DEF McpInv, RequestStates
<1>. HIDE DEF now
<1>6. Shape(p) /\ SentOnce(p)
  BY <1>4 DEF Shape, SentOnce, FanOut, Chosen
<1>7. Within(p, now)
  <2>1. \A s \in Servers, t \in Tools : ~Allows(p.allowed, s, t)
    BY <1>4, ListsAssumption, NoneAssumption DEF Allows
  <2>. QED
    BY <1>4, <2>1 DEF Within, Chosen
<1>8. Listing(p) => Undisturbed(p, now, Shown(policy, q.groups), On)
  BY <1>4 DEF Listing, Undisturbed, Chosen
<1>9. Good(p, now, policy, On)
  BY <1>4, <1>6, <1>7, <1>8 DEF Good, now
<1>10. /\ request' \in [Requests -> RequestStates] /\ request'[r] = p
       /\ permitted' \in [Requests -> SUBSET Entries] /\ permitted'[r] = now
       /\ \A s \in Requests : s # r => request'[s] = request[s] /\ permitted'[s] = permitted[s]
  BY <1>1, <1>4, <1>5 DEF McpInv
<1>11. On' = On
  BY <1>1, OnUnchanged
<1>12. \A t \in Calls : Running(t)' <=> Running(t)
  BY <1>1 DEF Running
<1>13. RequestInv'
  BY <1>1, <1>4, <1>9, <1>10, <1>11, <1>12 DEF McpInv, RequestInv, now, quiet
<1>. QED
  BY <1>1, <1>2, <1>10, <1>13 DEF McpInv

\* Whoever is new or not quiet does not see what a running call does.
LEMMA UnseenOK ==
  ASSUME NEW q, NEW granted, NEW p1, NEW on1, NEW p2, NEW on2,
         Good(q, granted, p1, on1), ~q.quiet \/ q.at = "new",
         NEW more, granted \subseteq more
  PROVE  Good(q, more, p2, on2)
<1>1. ~Listing(q)
  BY DEF Good, Shape, Listing
<1>2. Within(q, more)
  BY DEF Good, Within
<1>. QED
  BY <1>1, <1>2 DEF Good

LEMMA CallOK ==
  ASSUME McpInv, HeaderInv', NEW t \in Calls, Running(t), UNCHANGED request,
         policy' \in [Groups -> {None, All} \cup SUBSET Entries],
         permitted' \in [Requests -> SUBSET Entries],
         \A r \in Requests :
           permitted[r] \cup (Grants(policy', request[r].groups)
                                \ Grants(policy, request[r].groups)) \subseteq permitted'[r]
  PROVE  McpInv'
<1>1. \A r \in Requests : ~request[r].quiet \/ request[r].at = "new"
  BY DEF McpInv, RequestInv
<1>2. \A r \in Requests : Good(request[r], permitted[r], policy, On)
  BY DEF McpInv, RequestInv
<1>3. \A r \in Requests : permitted[r] \subseteq permitted'[r]
  OBVIOUS
<1>4. \A r \in Requests : Good(request[r], permitted'[r], policy', On')
  BY <1>1, <1>2, <1>3, UnseenOK
<1>5. \A r \in Requests : request[r].at # "new" =>
        Grants(policy', request[r].groups) \subseteq permitted'[r]
  BY DEF McpInv, RequestInv
<1>6. RequestInv'
  BY <1>1, <1>4, <1>5 DEF RequestInv
<1>. QED
  BY <1>6 DEF McpInv

LEMMA StartAllOK ==
  ASSUME McpInv, HeaderInv', NEW t \in Calls, NEW c, Start(t, c)
  PROVE  McpInv'
<1>1. /\ request' = [r \in Requests |-> [request[r] EXCEPT !.quiet = FALSE]]
      /\ UNCHANGED <<server, policy, permitted>>
  BY DEF Start, historyVars
<1>2. ASSUME NEW q \in RequestStates
      PROVE  LET p == [q EXCEPT !.quiet = FALSE] IN
             /\ p \in RequestStates /\ p.quiet = FALSE
             /\ p.at = q.at /\ p.endpoint = q.endpoint /\ p.method = q.method
             /\ p.groups = q.groups /\ p.server = q.server /\ p.tool = q.tool
             /\ p.todo = q.todo /\ p.listed = q.listed /\ p.sent = q.sent
             /\ p.skipped = q.skipped /\ p.allowed = q.allowed
             /\ p.entry = q.entry /\ p.row = q.row
  BY DEF RequestStates
<1>3. ASSUME NEW r \in Requests
      PROVE  /\ Good(request'[r], permitted[r], policy, On)
             /\ request'[r] \in RequestStates /\ request'[r].quiet = FALSE
             /\ request'[r].at = request[r].at /\ request'[r].groups = request[r].groups
  <2>. DEFINE q == request[r]
              p == [q EXCEPT !.quiet = FALSE]
  <2>1. Good(q, permitted[r], policy, On) /\ q \in RequestStates
    BY DEF McpInv, RequestInv
  <2>2. request'[r] = p
    BY <1>1
  <2>3. /\ p \in RequestStates /\ p.quiet = FALSE
        /\ p.at = q.at /\ p.endpoint = q.endpoint /\ p.method = q.method
        /\ p.groups = q.groups /\ p.server = q.server /\ p.tool = q.tool
        /\ p.todo = q.todo /\ p.listed = q.listed /\ p.sent = q.sent
        /\ p.skipped = q.skipped /\ p.allowed = q.allowed
        /\ p.entry = q.entry /\ p.row = q.row
    BY <1>2, <2>1
  <2>. HIDE DEF p, q
  <2>4. Shape(p) /\ SentOnce(p) /\ Within(p, permitted[r]) /\ ~Listing(p)
    BY <2>1, <2>3 DEF Good, Shape, SentOnce, Within, Listing, FanOut
  <2>5. Good(p, permitted[r], policy, On)
    BY <2>3, <2>4 DEF Good
  <2>. QED
    BY <2>2, <2>3, <2>5 DEF q
<1>4. request' \in [Requests -> RequestStates]
  BY <1>1, <1>3
<1>5. On' = On
  BY <1>1, OnUnchanged
<1>6. RequestInv'
  BY <1>1, <1>3, <1>5 DEF McpInv, RequestInv
<1>. QED
  BY <1>1, <1>4, <1>6 DEF McpInv

-----------------------------------------------------------------------------
(***************************************************************************)
(* The steps of a request, one by one.                                     *)
(***************************************************************************)

\* The state of a request that is about to make a step.
LEMMA RequestFacts ==
  ASSUME McpInv, NEW r \in Requests
  PROVE  /\ Good(request[r], permitted[r], policy, On)
         /\ request[r] \in RequestStates
         /\ request[r].groups \in SUBSET Groups
         /\ request[r].method \in Methods
         /\ request[r].at # "new" =>
              Grants(policy, request[r].groups) \subseteq permitted[r]
         /\ \A s \in Servers, t \in Tools :
              Allows(AllowedTools(request[r].groups), s, t)
                <=> Key(s, t) \in Grants(policy, request[r].groups)
<1>1. request[r] \in RequestStates /\ policy \in [Groups -> {None, All} \cup SUBSET Entries]
  BY DEF McpInv
<1>2. request[r].groups \in SUBSET Groups /\ request[r].method \in Methods
  BY <1>1 DEF RequestStates
<1>. QED
  BY <1>1, <1>2, AllowedIsGranted DEF McpInv, RequestInv

LEMMA ReachOK ==
  ASSUME McpInv, NEW r \in Requests, Reach(r)
  PROVE  McpInv'
<1>. DEFINE q == request[r]
            keys == Grants(policy, q.groups)
            now == Shown(policy, q.groups)
            reachable == ReachableServers(AllowedTools(q.groups))
<1>1. /\ Good(q, permitted[r], policy, On) /\ q \in RequestStates
      /\ q.at \in {"reach", "again"} /\ keys \subseteq permitted[r]
      /\ q.method \in Methods /\ q.groups \in SUBSET Groups
  BY RequestFacts DEF Reach
<1>2. /\ reachable \in SUBSET Servers
      /\ \A s \in reachable : \E e \in keys : StartsWith(e, s)
  BY <1>1, ReachFacts DEF McpInv
<1>3. /\ \A e \in now : e[1] \in reachable
      /\ \A s \in reachable, t \in Tools : Key(s, t) \in keys <=> <<s, t>> \in now
  BY <1>1, ReachFacts DEF McpInv
<1>. HIDE DEF reachable, keys, now
<1>4. ASSUME NEW place \in {"deny", "done"}, Proceed(r, [q EXCEPT !.at = place])
      PROVE  McpInv'
  <2>. DEFINE p == [q EXCEPT !.at = place]
  <2>1. place \in RequestPlaces
    BY DEF RequestPlaces
  <2>2. /\ p \in RequestStates /\ Fixed(p, q) /\ p.at = place
        /\ p.server = q.server /\ p.allowed = q.allowed /\ p.todo = q.todo
        /\ p.row = q.row /\ p.listed = q.listed /\ p.sent = q.sent
        /\ p.skipped = q.skipped /\ p.entry = q.entry
    BY <1>1, <2>1, Moved
  <2>. HIDE DEF p
  <2>3. Good(p, permitted[r], policy, On)
    BY <1>1, <2>2 DEF Good, Shape, SentOnce, Within, Listing, Undisturbed, FanOut,
       Fixed, Chosen
  <2>. QED
    BY <1>1, <1>4, <2>2, <2>3, ProceedOK DEF p
<1>5. ASSUME NEW todo \in SUBSET Servers, todo = reachable,
             NEW place \in {"policy", "servers", "again", "deny", "audit"},
             q.method = "list" => place = "policy",
             place = "servers" => q.method \in {"initialize", "notification"},
             place = "again" => q.method = "notification",
             Proceed(r, [q EXCEPT !.todo = todo, !.at = place])
      PROVE  McpInv'
  <2>. DEFINE p == [q EXCEPT !.todo = todo, !.at = place]
  <2>1. place \in RequestPlaces
    BY DEF RequestPlaces
  <2>2. /\ p \in RequestStates /\ Fixed(p, q) /\ p.at = place /\ p.todo = todo
        /\ p.server = q.server /\ p.allowed = q.allowed
        /\ p.row = q.row /\ p.listed = q.listed /\ p.sent = q.sent
        /\ p.skipped = q.skipped /\ p.entry = q.entry
    BY <1>1, <2>1 DEF RequestStates, Fixed
  <2>. HIDE DEF p
  <2>3. Shape(p) /\ SentOnce(p)
    BY <1>1, <1>5, <2>2 DEF Good, Shape, SentOnce, FanOut, Fixed, Chosen
  <2>4. Within(p, permitted[r])
    BY <1>1, <1>2, <1>5, <2>2 DEF Good, Within, Fixed, Chosen
  <2>5. ASSUME Listing(p) PROVE Undisturbed(p, Grants(policy, p.groups), Shown(policy, p.groups), On)
    <3>1. q.method = "list" /\ p.at = "policy" /\ q.at = "reach"
          /\ Undisturbed(q, keys, now, On)
      BY <1>1, <1>5, <2>2, <2>5 DEF Listing, Fixed, Good, Shape, keys, now
    <3>2. Undisturbed(p, keys, now, On)
      BY <1>3, <1>5, <2>2, <3>1 DEF Undisturbed, Chosen
    <3>. QED
      BY <2>2, <3>2 DEF Fixed, keys, now
  <2>. QED
    BY <1>1, <1>5, <2>2, <2>3, <2>4, <2>5, ProceedOK DEF Good, p
<1>6. CASE q.at = "reach"
  <2>1. /\ AfterReach(q.method) \in {"policy", "servers", "again", "deny", "audit"}
        /\ q.method = "list" => AfterReach(q.method) = "policy"
        /\ AfterReach(q.method) = "servers" => q.method \in {"initialize", "notification"}
        /\ AfterReach(q.method) = "again" => q.method = "notification"
    BY DEF AfterReach
  <2>. QED
    BY <1>1, <1>2, <1>4, <1>5, <1>6, <2>1 DEF Reach, reachable
<1>7. CASE q.at = "again"
  BY <1>1, <1>2, <1>4, <1>5, <1>7 DEF Reach, reachable, Good, Shape
<1>. QED
  BY <1>1, <1>6, <1>7

\* A request that only moves on, to where it sends and lists nothing more.
LEMMA MoveOK ==
  ASSUME McpInv, NEW r \in Requests, request[r].at # "new",
         NEW place \in {"deny", "audit", "done", "gone"},
         request[r].at # "done",
         place = "deny" => request[r].sent = {},
         place = "audit" => ~FanOut(request[r]),
         place = "done" => request[r].sent = {},
         Proceed(r, [request[r] EXCEPT !.at = place])
  PROVE  McpInv'
<1>. DEFINE q == request[r]
            p == [q EXCEPT !.at = place]
<1>1. Good(q, permitted[r], policy, On) /\ q \in RequestStates
  BY RequestFacts
<1>2. place \in RequestPlaces
  BY DEF RequestPlaces
<1>3. /\ p \in RequestStates /\ Fixed(p, q) /\ p.at = place
      /\ p.server = q.server /\ p.allowed = q.allowed /\ p.todo = q.todo
      /\ p.row = q.row /\ p.listed = q.listed /\ p.sent = q.sent
      /\ p.skipped = q.skipped /\ p.entry = q.entry
  BY <1>1, <1>2, Moved
<1>. HIDE DEF p
<1>4. Shape(p) /\ SentOnce(p) /\ Within(p, permitted[r])
  BY <1>1, <1>3 DEF Good, Shape, SentOnce, Within, FanOut, Fixed, Chosen
<1>5. Listing(p) => Undisturbed(p, Grants(policy, p.groups), Shown(policy, p.groups), On)
  BY <1>3 DEF Listing, Undisturbed, FanOut, Fixed, Chosen
<1>. QED
  BY <1>1, <1>3, <1>4, <1>5, ProceedOK DEF Good, p

LEMMA CheckPolicyOK ==
  ASSUME McpInv, NEW r \in Requests, CheckPolicy(r)
  PROVE  McpInv'
<1>. DEFINE q == request[r]
            keys == Grants(policy, q.groups)
            now == Shown(policy, q.groups)
<1>1. /\ Good(q, permitted[r], policy, On) /\ q \in RequestStates
      /\ q.at = "policy" /\ ~FanOut(q) /\ keys \subseteq permitted[r]
      /\ q.sent = {} /\ q.server \in Servers /\ (q.method = "call" => q.tool \in Tools)
      /\ \A s \in Servers, t \in Tools :
           Allows(AllowedTools(q.groups), s, t) <=> Key(s, t) \in keys
  BY RequestFacts DEF CheckPolicy, FanOut, Good, Shape, SentOnce, Chosen
<1>2. ASSUME Proceed(r, [q EXCEPT !.at = "resolve"]),
             IF q.method = "call" THEN Allows(AllowedTools(q.groups), q.server, q.tool)
             ELSE HasAnyTool(AllowedTools(q.groups), q.server)
      PROVE  McpInv'
  <2>. DEFINE p == [q EXCEPT !.at = "resolve"]
  <2>1. /\ q.method = "call" => Key(q.server, q.tool) \in permitted[r]
        /\ q.method # "call" => \E e \in permitted[r] : StartsWith(e, q.server)
    <3>1. HasAnyTool(AllowedTools(q.groups), q.server)
            => \E e \in keys : StartsWith(e, q.server)
      BY <1>1, RequestFacts, ReachFacts DEF McpInv
    <3>. HIDE DEF keys
    <3>. QED
      BY <1>1, <1>2, <3>1
  <2>2. /\ p \in RequestStates /\ Fixed(p, q) /\ p.at = "resolve"
        /\ p.server = q.server /\ p.allowed = q.allowed /\ p.todo = q.todo
        /\ p.row = q.row /\ p.listed = q.listed /\ p.sent = q.sent
        /\ p.skipped = q.skipped /\ p.entry = q.entry
    BY <1>1, Moved DEF RequestPlaces
  <2>. HIDE DEF p
  <2>3. Shape(p) /\ SentOnce(p)
    BY <1>1, <2>2 DEF Good, Shape, SentOnce, FanOut, Fixed, Chosen
  <2>4. Within(p, permitted[r])
    BY <1>1, <2>1, <2>2 DEF Good, Within, Fixed, Chosen
  <2>5. ~Listing(p)
    BY <1>1, <2>2 DEF Listing, FanOut, Fixed
  <2>. QED
    BY <1>1, <1>2, <2>2, <2>3, <2>4, <2>5, ProceedOK DEF Good, p
<1>3. Proceed(r, [q EXCEPT !.at = "deny"]) => McpInv'
  BY <1>1, MoveOK
<1>. QED
  BY <1>2, <1>3 DEF CheckPolicy

LEMMA ReadToolsOK ==
  ASSUME McpInv, NEW r \in Requests, ReadTools(r)
  PROVE  McpInv'
<1>. DEFINE q == request[r]
            keys == Grants(policy, q.groups)
            now == Shown(policy, q.groups)
            allowed == AllowedTools(q.groups)
            p == [q EXCEPT !.at = "servers", !.allowed = allowed]
<1>1. /\ Good(q, permitted[r], policy, On) /\ q \in RequestStates
      /\ q.at = "policy" /\ q.endpoint = "hub" /\ q.method = "list"
      /\ keys \subseteq permitted[r] /\ q.sent = {} /\ q.todo \in SUBSET Servers
      /\ \A s \in Servers, t \in Tools : Allows(allowed, s, t) <=> Key(s, t) \in keys
  BY RequestFacts DEF ReadTools, Good, SentOnce, Chosen, RequestStates
<1>2. ASSUME Proceed(r, p) PROVE McpInv'
  <2>1. allowed \in {All} \cup SUBSET Entries
    BY AllowedType, RequestFacts DEF McpInv
  <2>2. /\ p \in RequestStates /\ Fixed(p, q) /\ p.at = "servers" /\ p.todo = q.todo
        /\ p.server = q.server /\ p.allowed = allowed
        /\ p.row = q.row /\ p.listed = q.listed /\ p.sent = q.sent
        /\ p.skipped = q.skipped /\ p.entry = q.entry
    BY <1>1, <2>1, Permits
  <2>. HIDE DEF p, allowed
  <2>3. Shape(p) /\ SentOnce(p)
    BY <1>1, <2>2 DEF Good, Shape, SentOnce, FanOut, Fixed, Chosen
  <2>4. Within(p, permitted[r])
    BY <1>1, <2>2 DEF Good, Within, Fixed, Chosen
  <2>5. ASSUME Listing(p) PROVE Undisturbed(p, Grants(policy, p.groups), Shown(policy, p.groups), On)
    <3>1. Undisturbed(q, keys, now, On)
      BY <1>1, <2>2, <2>5 DEF Listing, Fixed, Good
    <3>. HIDE DEF keys, now
    <3>2. Undisturbed(p, keys, now, On)
      BY <1>1, <2>2, <3>1 DEF Undisturbed, Chosen
    <3>. QED
      BY <2>2, <3>2 DEF Fixed, keys, now
  <2>. QED
    BY <1>1, <1>2, <2>2, <2>3, <2>4, <2>5, ProceedOK DEF Good
<1>3. Proceed(r, [q EXCEPT !.at = "done"]) => McpInv'
  BY <1>1, MoveOK
<1>. QED
  BY <1>2, <1>3 DEF ReadTools

\* A fan-out goes on with todo.
LEMMA VisitOK ==
  ASSUME McpInv, NEW r \in Requests, request[r].at # "new",
         NEW b \in RequestStates, Fixed(b, request[r]), FanOut(b),
         b.method \in {"list", "initialize", "notification"}, b.entry = "none",
         NEW todo \in SUBSET Servers,
         \A s \in todo : \E e \in permitted[r] : StartsWith(e, s),
         \A s \in Servers, t \in Tools : Allows(b.allowed, s, t) => Key(s, t) \in permitted[r],
         \A e \in b.listed : Key(e[1], e[2]) \in permitted[r],
         Listing(b) =>
           /\ \A s \in todo, t \in Tools :
                Allows(b.allowed, s, t) <=> <<s, t>> \in Shown(policy, b.groups)
           /\ todo \subseteq On /\ todo \cap b.skipped = {}
           /\ b.listed = {e \in Shown(policy, b.groups) :
                            e[1] \in On /\ e[1] \notin b.skipped /\ e[1] \notin todo},
         Proceed(r, Visit(b, todo))
  PROVE  McpInv'
<1>. DEFINE p == Visit(b, todo)
<1>1. /\ p \in RequestStates /\ Fixed(p, b) /\ p.todo = todo
      /\ todo # {} => p.at = "resolve" /\ p.server \in todo
      /\ todo = {} => p.at = IF b.method = "list" THEN "audit" ELSE "done"
      /\ p.allowed = b.allowed
      /\ p.row = b.row /\ p.listed = b.listed /\ p.sent = b.sent
      /\ p.skipped = b.skipped /\ p.entry = b.entry
  BY Visited
<1>. HIDE DEF p
<1>2. p.at \in {"resolve", "audit", "done"}
  BY <1>1
<1>3. Shape(p)
  BY <1>1, <1>2 DEF Shape, FanOut, Fixed, Chosen
<1>4. SentOnce(p)
  BY <1>1, <1>2 DEF SentOnce, FanOut, Fixed, Chosen
<1>5. Within(p, permitted[r])
  BY <1>1, <1>2 DEF Within, Fixed, Chosen
<1>6. ASSUME Listing(p) PROVE Undisturbed(p, Grants(policy, p.groups), Shown(policy, p.groups), On)
  <2>1. Listing(b) /\ p.groups = b.groups
    BY <1>1, <1>6 DEF Listing, Fixed
  <2>. DEFINE keys == Grants(policy, b.groups)
              now == Shown(policy, b.groups)
  <2>. HIDE DEF keys, now
  <2>2. /\ \A s \in p.todo, t \in Tools : Allows(p.allowed, s, t) <=> <<s, t>> \in now
        /\ p.todo \subseteq On /\ p.todo \cap p.skipped = {}
        /\ p.listed = {e \in now : e[1] \in On /\ e[1] \notin p.skipped /\ e[1] \notin p.todo}
    BY <1>1, <2>1 DEF now
  <2>3. p.at = "audit" => p.todo = {}
    BY <1>1
  <2>4. Undisturbed(p, keys, now, On)
    BY <1>2, <2>2, <2>3 DEF Undisturbed, Chosen
  <2>. QED
    BY <2>1, <2>4 DEF keys, now
<1>7. Fixed(p, request[r]) /\ p.at # "new"
  BY <1>1, <1>2 DEF Fixed
<1>8. Good(p, permitted[r], policy, On)
  BY <1>1, <1>3, <1>4, <1>5, <1>6 DEF Good
<1>. QED
  BY <1>7, <1>8, ProceedOK DEF p

LEMMA ListServersOK ==
  ASSUME McpInv, NEW r \in Requests, ListServers(r)
  PROVE  McpInv'
<1>. DEFINE q == request[r]
            keys == Grants(policy, q.groups)
            now == Shown(policy, q.groups)
            todo == {s \in q.todo : Enabled(s)}
<1>1. /\ Good(q, permitted[r], policy, On) /\ q \in RequestStates
      /\ q.at = "servers" /\ keys \subseteq permitted[r]
  BY RequestFacts DEF ListServers
<1>2. /\ FanOut(q) /\ q.method \in {"list", "initialize", "notification"}
      /\ q.entry = "none" /\ q.sent = {} /\ q.todo \in SUBSET Servers
      /\ Fixed(q, q)
  BY <1>1 DEF Good, Shape, SentOnce, FanOut, Chosen, RequestStates, Fixed
<1>3. todo \in SUBSET Servers /\ todo \subseteq On
  BY <1>2 DEF On
<1>4. /\ \A s \in todo : \E e \in permitted[r] : StartsWith(e, s)
      /\ \A s \in Servers, t \in Tools : Allows(q.allowed, s, t) => Key(s, t) \in permitted[r]
      /\ \A e \in q.listed : Key(e[1], e[2]) \in permitted[r]
  BY <1>1 DEF Good, Within
<1>5. ASSUME Listing(q)
      PROVE  /\ \A s \in todo, t \in Tools : Allows(q.allowed, s, t) <=> <<s, t>> \in now
             /\ todo \cap q.skipped = {}
             /\ q.listed = {e \in now : e[1] \in On /\ e[1] \notin q.skipped /\ e[1] \notin todo}
  <2>1. Undisturbed(q, keys, now, On)
    BY <1>1, <1>5 DEF Good
  <2>. HIDE DEF keys, now
  <2>2. /\ q.listed = {} /\ q.skipped = {} /\ \A e \in now : e[1] \in q.todo
        /\ \A s \in q.todo, t \in Tools : Allows(q.allowed, s, t) <=> <<s, t>> \in now
    BY <1>1, <2>1 DEF Undisturbed
  <2>. QED
    BY <2>2 DEF On
<1>6. Proceed(r, Visit(q, todo)) => McpInv'
  BY <1>1, <1>2, <1>3, <1>4, <1>5, VisitOK, SMTT(20)
<1>7. Proceed(r, [q EXCEPT !.at = "done"]) => McpInv'
  BY <1>1, <1>2, MoveOK
<1>. QED
  BY <1>6, <1>7 DEF ListServers

\* b is the request, or the request after its server was sent something.
LEMMA SkipOK ==
  ASSUME McpInv, NEW r \in Requests, request[r].at \in Chosen, FanOut(request[r]),
         NEW b \in RequestStates, b = request[r] \/ b = Delivered(request[r]),
         Proceed(r, Skip(b))
  PROVE  McpInv'
<1>. DEFINE q == request[r]
            keys == Grants(policy, q.groups)
            now == Shown(policy, q.groups)
            c == [b EXCEPT !.skipped = @ \cup {b.server}]
            todo == b.todo \ {b.server}
<1>1. /\ Good(q, permitted[r], policy, On) /\ q \in RequestStates /\ q.at # "new"
      /\ q.server \in Servers /\ q.server \in q.todo /\ q.todo \in SUBSET Servers
      /\ q.entry = "none" /\ q.method # "call"
  BY RequestFacts DEF Good, Shape, SentOnce, FanOut, Chosen, RequestStates
<1>2. /\ Fixed(b, q) /\ b.server = q.server /\ b.todo = q.todo
      /\ b.allowed = q.allowed /\ b.listed = q.listed /\ b.skipped = q.skipped
      /\ b.entry = q.entry
  BY <1>1, DeliveredFields DEF Fixed
<1>3. /\ c \in RequestStates /\ Fixed(c, b) /\ c.allowed = b.allowed
      /\ c.listed = b.listed /\ c.skipped = b.skipped \cup {b.server}
      /\ c.entry = b.entry
  BY <1>1, <1>2, Skipped
<1>. HIDE DEF c
<1>4. Fixed(c, q) /\ FanOut(c) /\ c.entry = "none"
  BY <1>1, <1>2, <1>3 DEF Fixed, FanOut
<1>5. c.method \in {"list", "initialize", "notification"}
  BY <1>1, <1>4 DEF Fixed, Good, Shape, Chosen
<1>6. todo \in SUBSET Servers
  BY <1>1, <1>2
<1>7. /\ \A s \in todo : \E e \in permitted[r] : StartsWith(e, s)
      /\ \A s \in Servers, t \in Tools : Allows(c.allowed, s, t) => Key(s, t) \in permitted[r]
      /\ \A e \in c.listed : Key(e[1], e[2]) \in permitted[r]
  BY <1>1, <1>2, <1>3 DEF Good, Within
<1>8. ASSUME Listing(c)
      PROVE  /\ \A s \in todo, t \in Tools : Allows(c.allowed, s, t) <=> <<s, t>> \in now
             /\ todo \subseteq On /\ todo \cap c.skipped = {}
             /\ c.listed = {e \in now : e[1] \in On /\ e[1] \notin c.skipped /\ e[1] \notin todo}
  <2>1. Undisturbed(q, keys, now, On)
    BY <1>1, <1>4, <1>8 DEF Good, Listing, Fixed
  <2>. HIDE DEF keys, now
  <2>2. /\ q.todo \subseteq On /\ q.todo \cap q.skipped = {}
        /\ q.listed = {e \in now : e[1] \in On /\ e[1] \notin q.skipped /\ e[1] \notin q.todo}
        /\ \A s \in q.todo, t \in Tools : Allows(q.allowed, s, t) <=> <<s, t>> \in now
    BY <2>1 DEF Undisturbed
  <2>. QED
    BY <1>1, <1>2, <1>3, <2>2
<1>9. now = Shown(policy, c.groups) /\ Proceed(r, Visit(c, todo))
  BY <1>4 DEF Fixed, Skip, c
<1>. HIDE DEF now, todo
<1>. QED
  BY <1>1, <1>3, <1>4, <1>5, <1>6, <1>7, <1>8, <1>9, VisitOK

LEMMA ResolveOK ==
  ASSUME McpInv, NEW r \in Requests, Resolve(r)
  PROVE  McpInv'
<1>. DEFINE q == request[r]
            row == server[q.server]
            p == [q EXCEPT !.at = "forward", !.row = row]
<1>1. /\ Good(q, permitted[r], policy, On) /\ q \in RequestStates
      /\ q.at = "resolve" /\ q.server \in Servers
      /\ ~FanOut(q) => q.sent = {}
  BY RequestFacts DEF Resolve, Good, Shape, SentOnce, Chosen
<1>2. ASSUME Enabled(q.server), Proceed(r, p) PROVE McpInv'
  <2>1. row \in ServerRows /\ row # None
    BY <1>1, <1>2 DEF Enabled, McpInv, HeaderInv, RowsInv
  <2>2. /\ p \in RequestStates /\ Fixed(p, q) /\ p.at = "forward" /\ p.todo = q.todo
        /\ p.server = q.server /\ p.allowed = q.allowed
        /\ p.row = row /\ p.listed = q.listed /\ p.sent = q.sent
        /\ p.skipped = q.skipped /\ p.entry = q.entry
    BY <1>1, <2>1, Resolved
  <2>. HIDE DEF p, row
  <2>3. Shape(p) /\ SentOnce(p)
    BY <1>1, <2>1, <2>2 DEF Good, Shape, SentOnce, FanOut, Fixed, Chosen
  <2>4. Within(p, permitted[r])
    BY <1>1, <2>2 DEF Good, Within, Fixed, Chosen
  <2>5. ASSUME Listing(p) PROVE Undisturbed(p, Grants(policy, p.groups), Shown(policy, p.groups), On)
    <3>. DEFINE keys == Grants(policy, q.groups)
            now == Shown(policy, q.groups)
    <3>1. Undisturbed(q, keys, now, On)
      BY <1>1, <2>2, <2>5 DEF Listing, Fixed, Good
    <3>. HIDE DEF keys, now
    <3>2. Undisturbed(p, keys, now, On)
      BY <1>1, <2>2, <3>1 DEF Undisturbed, Chosen
    <3>. QED
      BY <2>2, <3>2 DEF Fixed, keys, now
  <2>. QED
    BY <1>1, <1>2, <2>2, <2>3, <2>4, <2>5, ProceedOK DEF Good
<1>3. FanOut(q) /\ Proceed(r, Skip(q)) => McpInv'
  BY <1>1, SkipOK DEF Chosen
<1>4. ~FanOut(q) /\ Proceed(r, [q EXCEPT !.at = "done"]) => McpInv'
  BY <1>1, MoveOK
<1>5. ~FanOut(q) /\ Proceed(r, [q EXCEPT !.at = "audit"]) => McpInv'
  BY <1>1, MoveOK
<1>6. ~FanOut(q) /\ Proceed(r, [q EXCEPT !.at = "deny"]) => McpInv'
  BY <1>1, MoveOK
<1>. QED
  BY <1>2, <1>3, <1>4, <1>5, <1>6 DEF Resolve, FanOut

LEMMA ForwardOK ==
  ASSUME McpInv, NEW r \in Requests, Forward(r)
  PROVE  McpInv'
<1>. DEFINE q == request[r]
            d == Delivered(q)
            keys == Grants(policy, q.groups)
            now == Shown(policy, q.groups)
<1>1. /\ Good(q, permitted[r], policy, On) /\ q \in RequestStates
      /\ q.at = "forward" /\ q.server \in Servers /\ q.entry = "none"
      /\ q.todo \in SUBSET Servers
  BY RequestFacts DEF Forward, Good, Shape, SentOnce, Chosen, RequestStates
<1>2. /\ d \in RequestStates /\ Fixed(d, q) /\ d.at = q.at /\ d.todo = q.todo
      /\ d.server = q.server /\ d.allowed = q.allowed
      /\ d.row = None /\ d.listed = q.listed /\ d.sent = q.sent \cup {q.server}
      /\ d.skipped = q.skipped /\ d.entry = q.entry
  BY <1>1, DeliveredFields
<1>. HIDE DEF d
<1>3. ASSUME NEW place \in {"audit", "done"}, place = "audit" => ~FanOut(q),
             place = "done" => FanOut(q) /\ q.method = "initialize",
             Proceed(r, [d EXCEPT !.at = place])
      PROVE  McpInv'
  <2>. DEFINE p == [d EXCEPT !.at = place]
  <2>1. place \in RequestPlaces
    BY DEF RequestPlaces
  <2>2. /\ p \in RequestStates /\ Fixed(p, d) /\ p.at = place
        /\ p.server = d.server /\ p.allowed = d.allowed /\ p.todo = d.todo
        /\ p.row = d.row /\ p.listed = d.listed /\ p.sent = d.sent
        /\ p.skipped = d.skipped /\ p.entry = d.entry
    BY <1>2, <2>1, Moved
  <2>. HIDE DEF p
  <2>3. Shape(p) /\ SentOnce(p) /\ Within(p, permitted[r])
    BY <1>1, <1>2, <1>3, <2>2 DEF Good, Shape, SentOnce, Within, FanOut, Fixed, Chosen
  <2>4. ~Listing(p)
    BY <1>2, <1>3, <2>2 DEF Listing, FanOut, Fixed
  <2>5. Fixed(p, q)
    BY <1>2, <2>2 DEF Fixed
  <2>. QED
    BY <1>1, <1>3, <2>2, <2>3, <2>4, <2>5, ProceedOK DEF Good, p
<1>4. ASSUME FanOut(q), Proceed(r, Skip(d)) PROVE McpInv'
  BY <1>1, <1>2, <1>4, SkipOK DEF Chosen, d
<1>5. ASSUME FanOut(q), q.method = "list",
             Proceed(r, Visit([d EXCEPT !.listed = @ \cup Listed(q)], q.todo \ {q.server}))
      PROVE  McpInv'
  <2>. DEFINE more == Listed(q)
              b == [d EXCEPT !.listed = @ \cup more]
              todo == q.todo \ {q.server}
  <2>1. more = {<<q.server, t>> : t \in {u \in Tools : Allows(q.allowed, q.server, u)}}
    BY DEF Listed
  <2>2. more \in SUBSET (Servers \X Tools)
    BY <1>1, <2>1
  <2>. HIDE DEF more
  <2>3. /\ b \in RequestStates /\ Fixed(b, d) /\ b.at = d.at /\ b.todo = d.todo
        /\ b.server = d.server /\ b.allowed = d.allowed
        /\ b.row = d.row /\ b.listed = d.listed \cup more /\ b.sent = d.sent
        /\ b.skipped = d.skipped /\ b.entry = d.entry
    BY <1>2, <2>2, ListedMore
  <2>. HIDE DEF b
  <2>4. Fixed(b, q) /\ FanOut(b) /\ b.method = "list" /\ b.entry = "none"
    BY <1>1, <1>2, <1>5, <2>3 DEF Fixed, FanOut
  <2>5. /\ \A s \in todo : \E e \in permitted[r] : StartsWith(e, s)
        /\ \A s \in Servers, t \in Tools : Allows(b.allowed, s, t) => Key(s, t) \in permitted[r]
        /\ \A e \in b.listed : Key(e[1], e[2]) \in permitted[r]
    BY <1>1, <1>2, <2>1, <2>3 DEF Good, Within
  <2>6. ASSUME Listing(b)
        PROVE  /\ \A s \in todo, t \in Tools : Allows(b.allowed, s, t) <=> <<s, t>> \in now
               /\ todo \subseteq On /\ todo \cap b.skipped = {}
               /\ b.listed = {e \in now : e[1] \in On /\ e[1] \notin b.skipped /\ e[1] \notin todo}
    <3>1. Undisturbed(q, keys, now, On)
      BY <1>1, <2>4, <2>6 DEF Good, Listing, Fixed
    <3>2. \A e \in now : \E s \in Servers, t \in Tools : e = <<s, t>>
      BY DEF Shown
    <3>. HIDE DEF keys, now
    <3>3. /\ q.todo \subseteq On /\ q.todo \cap q.skipped = {}
          /\ q.listed = {e \in now : e[1] \in On /\ e[1] \notin q.skipped /\ e[1] \notin q.todo}
          /\ \A s \in q.todo, t \in Tools : Allows(q.allowed, s, t) <=> <<s, t>> \in now
      BY <1>1, <3>1 DEF Undisturbed, Chosen
    <3>4. q.server \in q.todo
      BY <1>1, <1>5 DEF Good, Shape, Chosen
    <3>5. more = {e \in now : e[1] = q.server}
      BY <1>1, <2>1, <3>2, <3>3, <3>4
    <3>6. q.listed \cup more
            = {e \in now : e[1] \in On /\ e[1] \notin q.skipped /\ e[1] \notin todo}
      BY <3>3, <3>4, <3>5
    <3>. QED
      BY <1>2, <2>3, <3>3, <3>6
  <2>7. todo \in SUBSET Servers /\ now = Shown(policy, b.groups) /\ Proceed(r, Visit(b, todo))
    BY <1>1, <1>5, <2>4 DEF Fixed, b, more
  <2>. HIDE DEF todo, now
  <2>. QED
    BY <1>1, <2>3, <2>4, <2>5, <2>6, <2>7, VisitOK
<1>. QED
  BY <1>3, <1>4, <1>5 DEF Forward, Delivered, d

LEMMA WriteEntryOK ==
  ASSUME McpInv, NEW r \in Requests, Deny(r) \/ Audit(r)
  PROVE  McpInv'
<1>. DEFINE q == request[r]
<1>1. /\ Good(q, permitted[r], policy, On) /\ q \in RequestStates
      /\ q.at \in {"deny", "audit"} /\ (q.at = "deny" => q.sent = {})
  BY RequestFacts DEF Deny, Audit, Good, SentOnce, Chosen
<1>2. PICK e \in {"allowed", "denied", "lost"} :
        /\ Proceed(r, [q EXCEPT !.at = "done", !.entry = e])
        /\ q.at = "audit" => e # "denied"
  BY DEF Deny, Audit, WriteEntry
<1>. DEFINE p == [q EXCEPT !.at = "done", !.entry = e]
<1>3. /\ p \in RequestStates /\ Fixed(p, q) /\ p.at = "done" /\ p.entry = e
      /\ p.server = q.server /\ p.allowed = q.allowed /\ p.todo = q.todo
      /\ p.row = q.row /\ p.listed = q.listed /\ p.sent = q.sent
      /\ p.skipped = q.skipped
  BY <1>1, Entered
<1>. HIDE DEF p
<1>4. Shape(p) /\ SentOnce(p) /\ Within(p, permitted[r])
  BY <1>1, <1>2, <1>3 DEF Good, Shape, SentOnce, Within, FanOut, Fixed, Chosen
<1>5. Undisturbed(p, Grants(policy, p.groups), Shown(policy, p.groups), On)
  BY <1>3 DEF Undisturbed, Chosen
<1>. QED
  BY <1>1, <1>2, <1>3, <1>4, <1>5, ProceedOK DEF Good, p

LEMMA DisconnectOK ==
  ASSUME McpInv, NEW r \in Requests, Disconnect(r)
  PROVE  McpInv'
BY MoveOK DEF Disconnect

LEMMA NewRequestFields ==
  /\ NewRequest \in RequestStates /\ NewRequest.at = "new"
  /\ NewRequest.endpoint = "hub" /\ NewRequest.method = "ping"
  /\ NewRequest.todo = {} /\ NewRequest.listed = {} /\ NewRequest.sent = {}
  /\ NewRequest.skipped = {} /\ NewRequest.allowed = {} /\ NewRequest.entry = "none"
BY DEF NewRequest, RequestStates, RequestPlaces, Methods

LEMMA AskOK ==
  ASSUME McpInv, NEW r \in Requests, Ask(r)
  PROVE  McpInv'
<1>1. PICK groups \in UserGroups, s \in Servers, t \in Tools, method \in Methods :
        ArriveAtServer(r, groups, s, method, t) \/ ArriveAtHub(r, groups, s, method, t)
  BY DEF Ask
<1>2. groups \in SUBSET Groups
  BY ListsAssumption
<1>. DEFINE tool == IF method = "call" THEN t ELSE None
            one == IF method = "call" THEN s ELSE None
<1>3. tool \in Tools \cup {None} /\ one \in Servers \cup {None}
  OBVIOUS
<1>4. ASSUME ArriveAtServer(r, groups, s, method, t) PROVE McpInv'
  <2>. DEFINE place == IF method \in {"malformed", "unreadable"} THEN "deny"
                       ELSE IF method \in {"notification", "unknown"} THEN "resolve"
                       ELSE "policy"
              q == [NewRequest EXCEPT
                      !.endpoint = "server", !.groups = groups, !.server = s,
                      !.method = method, !.tool = tool, !.at = place]
  <2>1. Arrive(r, q)
    BY <1>4 DEF ArriveAtServer
  <2>2. place \in RequestPlaces /\ place \in {"deny", "resolve", "policy"}
    BY DEF RequestPlaces
  <2>. HIDE DEF place, tool
  <2>5. /\ q \in RequestStates
        /\ q.at = place /\ q.endpoint = "server" /\ q.method = method /\ q.server = s
        /\ q.tool = tool /\ q.todo = {} /\ q.listed = {} /\ q.sent = {}
        /\ q.skipped = {} /\ q.allowed = {} /\ q.entry = "none"
    BY <1>2, <1>3, <2>2, NewRequestFields DEF RequestStates
  <2>. HIDE DEF q
  <2>6. Shape(q)
    BY <2>2, <2>5 DEF Shape, FanOut, Chosen, tool, place
  <2>. QED
    BY <2>1, <2>2, <2>5, <2>6, ArriveOK DEF place
<1>5. ASSUME ArriveAtHub(r, groups, s, method, t) PROVE McpInv'
  <2>. DEFINE place == IF method = "unreadable" THEN "done" ELSE "reach"
              q == [NewRequest EXCEPT !.groups = groups, !.method = method,
                      !.at = place, !.server = one, !.tool = tool]
  <2>1. Arrive(r, q)
    BY <1>5 DEF ArriveAtHub
  <2>2. place \in RequestPlaces /\ place \in {"done", "reach"}
    BY DEF RequestPlaces
  <2>. HIDE DEF place, tool, one
  <2>5. /\ q \in RequestStates
        /\ q.at = place /\ q.endpoint = "hub" /\ q.method = method /\ q.server = one
        /\ q.tool = tool /\ q.todo = {} /\ q.listed = {} /\ q.sent = {}
        /\ q.skipped = {} /\ q.allowed = {} /\ q.entry = "none"
    BY <1>2, <1>3, <2>2, NewRequestFields DEF RequestStates
  <2>. HIDE DEF q
  <2>6. Shape(q)
    BY <2>2, <2>5 DEF Shape, FanOut, Chosen, tool, one
  <2>. QED
    BY <2>1, <2>2, <2>5, <2>6, ArriveOK DEF place
<1>. QED
  BY <1>1, <1>4, <1>5

LEMMA ServeOK ==
  ASSUME McpInv, NEW r \in Requests, Serve(r)
  PROVE  McpInv'
BY ReachOK, CheckPolicyOK, ReadToolsOK, ListServersOK, ResolveOK, ForwardOK,
   WriteEntryOK, DisconnectOK DEF Serve

-----------------------------------------------------------------------------
(***************************************************************************)
(* The steps of administrators.                                            *)
(***************************************************************************)
LEMMA BeginMcp ==
  ASSUME McpInv, NEW t \in Calls, Begin(t)
  PROVE  McpInv'
<1>1. HeaderInv'
  BY BeginHeader DEF McpInv
<1>2. PICK c : Start(t, c)
  BY DEF Begin, StoreServer, DeleteServer, SetPolicy, DeletePolicy
<1>. QED
  BY <1>1, <1>2, StartAllOK

LEMMA RunningPlaces ==
  ASSUME NEW t \in Calls, call[t].at \notin {"new", "done"}
  PROVE  Running(t)
BY DEF Running

LEMMA HandleMcp ==
  ASSUME McpInv, NEW t \in Calls, Handle(t) \/ Abort(t)
  PROVE  McpInv'
<1>1. HeaderInv'
  BY FindServerHeader, InsertServerHeader, UpdateServerHeader,
     ExecDeleteServerHeader, OtherStatementsHeader DEF Handle, McpInv
<1>2. Running(t)
  BY DEF Handle, Abort, Running, FindServer, InsertServer, UpdateServer,
     ExecDeleteServer, FindPolicy, WritePolicy, FailPolicy, ExecDeletePolicy, Answer
<1>3. ASSUME FindServer(t) \/ InsertServer(t) \/ UpdateServer(t) \/ ExecDeleteServer(t)
               \/ FindPolicy(t) \/ FailPolicy(t) \/ Answer(t) \/ Abort(t)
      PROVE  McpInv'
  <2>1. UNCHANGED <<policy, request, permitted>>
    BY <1>3 DEF FindServer, InsertServer, UpdateServer, ExecDeleteServer,
       FindPolicy, FailPolicy, Answer, Abort, historyVars
  <2>. QED
    BY <1>1, <1>2, <2>1, CallOK DEF McpInv
<1>4. ASSUME WritePolicy(t) PROVE McpInv'
  <2>. DEFINE c == call[t]
  <2>1. c.list \in {None, All} \cup SUBSET Entries
    BY DEF McpInv, HeaderInv, CallInv, CallStates
  <2>2. /\ policy' = [policy EXCEPT ![c.group] = c.list]
        /\ permitted' = [r \in Requests |->
             permitted[r] \cup Grants(policy', request[r].groups)]
        /\ UNCHANGED request
    BY <1>4 DEF WritePolicy
  <2>3. policy' \in [Groups -> {None, All} \cup SUBSET Entries]
    BY <2>1, <2>2 DEF McpInv
  <2>4. \A r \in Requests : Grants(policy', request[r].groups) \in SUBSET Entries
    <3>1. \A r \in Requests : request[r].groups \in SUBSET Groups
      BY RequestFacts
    <3>. QED
      BY <2>3, <3>1 DEF Grants
  <2>5. permitted' \in [Requests -> SUBSET Entries]
    BY <2>2, <2>4 DEF McpInv
  <2>6. \A r \in Requests :
           permitted[r] \cup (Grants(policy', request[r].groups)
                                \ Grants(policy, request[r].groups)) \subseteq permitted'[r]
    BY <2>2
  <2>. QED
    BY <1>1, <1>2, <2>2, <2>3, <2>5, <2>6, CallOK
<1>5. ASSUME ExecDeletePolicy(t) PROVE McpInv'
  <2>1. /\ policy' = [policy EXCEPT ![call[t].group] = None]
        /\ UNCHANGED <<permitted, request>>
    BY <1>5 DEF ExecDeletePolicy, historyVars
  <2>2. policy' \in [Groups -> {None, All} \cup SUBSET Entries]
    BY <2>1 DEF McpInv
  <2>3. \A g \in Groups : policy'[g] # None => policy'[g] = policy[g]
    BY <2>1 DEF McpInv
  <2>4. \A r \in Requests : request[r].groups \in SUBSET Groups
    BY RequestFacts
  <2>5. \A r \in Requests :
          Grants(policy', request[r].groups) \subseteq Grants(policy, request[r].groups)
    BY <2>3, <2>4 DEF Grants
  <2>. QED
    BY <1>1, <1>2, <2>1, <2>2, <2>5, CallOK DEF McpInv
<1>. QED
  BY <1>3, <1>4, <1>5 DEF Handle

-----------------------------------------------------------------------------
LEMMA InitMcp == Init => McpInv
<1>. SUFFICES ASSUME Init PROVE McpInv
  OBVIOUS
<1>1. /\ HeaderInv
      /\ policy \in [Groups -> {None, All} \cup SUBSET Entries]
      /\ permitted \in [Requests -> SUBSET Entries]
  BY InitHeader, ListsAssumption DEF Init
<1>3. \A r \in Requests : request[r] = NewRequest /\ permitted[r] = {}
  BY DEF Init
<1>. DEFINE q == NewRequest
<1>. HIDE DEF q
<1>4. \A s \in Servers, t \in Tools : ~Allows({}, s, t)
  BY ListsAssumption, NoneAssumption DEF Allows
<1>5. Good(q, {}, policy, On)
  BY NewRequestFields, <1>4 DEF Good, Shape, SentOnce, Within, Listing, FanOut, Chosen, q
<1>. QED
  BY <1>1, <1>3, <1>5, NewRequestFields DEF Init, McpInv, RequestInv, q

(***************************************************************************)
(* What calls of the admin API hold of a server between two statements,    *)
(* and requests of grants and servers between two SELECTs, is invariant    *)
(* (mcp.rs, upsert_server; mcp_permissions_middleware; mcp_hub_handler).   *)
(***************************************************************************)
THEOREM McpInvariant == Spec => []McpInv
<1>1. Init => McpInv
  BY InitMcp
<1>2. McpInv /\ [Next]_vars => McpInv'
  <2>1. ASSUME McpInv, UNCHANGED vars PROVE McpInv'
    <3>1. HeaderInv'
      BY <2>1, StutterHeader DEF McpInv
    <3>2. UNCHANGED <<server, policy, call, request, supplied, permitted>>
      BY <2>1 DEF vars
    <3>3. On' = On /\ \A t \in Calls : Running(t)' <=> Running(t)
      BY <3>2, OnUnchanged DEF Running
    <3>. QED
      BY <2>1, <3>1, <3>2, <3>3 DEF McpInv, RequestInv
  <2>2. ASSUME McpInv, Next PROVE McpInv'
    BY <2>2, BeginMcp, HandleMcp, AskOK, ServeOK DEF Next
  <2>. QED
    BY <2>1, <2>2
<1>. QED
  BY <1>1, <1>2, PTL DEF Spec

(***************************************************************************)
(* Every variable has its type, and a request that calls an MCP server has *)
(* the row with the header (resolve_server).                               *)
(***************************************************************************)
THEOREM TypeCorrect == Spec => []TypeOK
<1>1. McpInv => TypeOK
  BY DEF McpInv, HeaderInv, RowsInv, RequestInv, Good, Shape, TypeOK
<1>. QED
  BY <1>1, McpInvariant, PTL

(***************************************************************************)
(* However many administrators register, update and delete servers at the  *)
(* same time, a server's header is the last one supplied since it is there *)
(* (mcp.rs, upsert_server, whose UPDATE leaves out what was not supplied). *)
(***************************************************************************)
THEOREM HeaderCorrect == Spec => []HeaderIsLastSupplied
<1>1. McpInv => HeaderIsLastSupplied
  BY DEF McpInv, HeaderInv
<1>. QED
  BY <1>1, McpInvariant, PTL

(***************************************************************************)
(* Whatever administrators change while requests check and act, a tool     *)
(* that is called or listed was granted to the caller, and an undisturbed  *)
(* listing is complete (mcp_permissions_middleware, handle_tools_list).    *)
(***************************************************************************)
THEOREM GrantedCorrect == Spec => []GrantedIsGiven
<1>1. ASSUME McpInv, NEW r \in Requests
      PROVE  LET q == request[r] IN
             /\ q.at = "forward" /\ q.method = "call" => Key(q.server, q.tool) \in permitted[r]
             /\ q.at = "forward" /\ q.method = "list" =>
                  \E e \in permitted[r] : StartsWith(e, q.server)
             /\ \A e \in q.listed : Key(e[1], e[2]) \in permitted[r]
  BY <1>1, RequestFacts DEF Good, Within, Chosen
<1>2. ASSUME McpInv, NEW r \in Requests, UndisturbedList(request[r])
      PROVE  request[r].listed =
               {e \in Shown(policy, request[r].groups) :
                  Enabled(e[1]) /\ e[1] \notin request[r].skipped}
  <2>. DEFINE q == request[r]
              now == Shown(policy, q.groups)
  <2>1. q \in RequestStates /\ Good(q, permitted[r], policy, On) /\ q.at = "audit"
    BY <1>2, RequestFacts DEF UndisturbedList
  <2>2. Listing(q)
    BY <1>2, <2>1 DEF FanOut, RequestStates, Listing, UndisturbedList
  <2>3. q.todo = {} /\ q.listed = {e \in now : e[1] \in On /\ e[1] \notin q.skipped
                                               /\ e[1] \notin q.todo}
    BY <2>1, <2>2 DEF Good, Undisturbed
  <2>4. \A e \in now : e[1] \in On <=> Enabled(e[1])
    BY DEF Shown, On
  <2>. HIDE DEF now
  <2>5. q.listed = {e \in now : Enabled(e[1]) /\ e[1] \notin q.skipped}
    BY <2>3, <2>4
  <2>. QED
    BY <2>5 DEF now
<1>3. McpInv => GrantedIsGiven
  BY <1>1, <1>2 DEF GrantedIsGiven, OnlyPermitted, ListsWhatMayBeCalled
<1>. QED
  BY <1>3, McpInvariant, PTL

(***************************************************************************)
(* The audit log tells of every request what it did, at one server and     *)
(* through the fan-out of the hub (record_mcp_audit).                      *)
(***************************************************************************)
THEOREM AuditCorrect == Spec => []AuditTellsTruth
<1>1. ASSUME McpInv, NEW r \in Requests
      PROVE  LET q == request[r] IN
             /\ q.entry = "denied" => q.sent = {}
             /\ /\ q.at = "done" /\ q.sent # {}
                /\ q.endpoint = "server" \/ q.method \in {"call", "list"}
                => q.entry \in {"allowed", "lost"}
  BY <1>1, RequestFacts DEF Good, SentOnce, FanOut, RequestStates
<1>2. McpInv => AuditTellsTruth
  BY <1>1 DEF AuditTellsTruth
<1>. QED
  BY <1>2, McpInvariant, PTL
=============================================================================
