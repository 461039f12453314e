------------------------ MODULE ProviderStore_proofs ------------------------
(***************************************************************************)
(* ProviderStore for any providers, keys, groups, calls and requests: what *)
(* a call of an administrator that runs alone leaves behind, and what the  *)
(* fallback of a request from key to key finds.                            *)
(***************************************************************************)
EXTENDS ProviderStore, WellFoundedInduction, TLAPS

\* The tables, with what the last lone call settled.
RowsInv ==
  /\ provider \in [Providers -> ProviderRows \cup {None}]
  /\ key \in [Keys -> KeyRows \cup {None}]
  /\ access \in [Keys -> SUBSET Groups]
  /\ added \in SUBSET Keys
  /\ settled \in [Keys -> {None} \cup SUBSET Groups]
  /\ granted \in [Keys -> SUBSET SUBSET Groups]
  /\ \A k \in Keys : IF key[k] = None THEN access[k] = {}
                     ELSE provider[key[k].provider] # None
  /\ ListsAsSettled

\* What the place of a call tells about the rest of it.
KeyPlaces == {"load", "findKey", "updateKey", "deleteKey", "wipe", "grant"}

CallOK(c) ==
  /\ c \in CallStates
  /\ c.at # "new" /\ c.op = "upsert" => c.row \in ProviderRows
  /\ c.at # "new" /\ c.op \in {"addKey", "updateKey"} => c.priority \in Priorities
  /\ c.at \in {"insert", "update"} => c.op = "upsert"
  /\ c.at \in {"others", "clear"} => SetsDefault(c)
  /\ c.at = "mark" => c.op = "setDefault"
  /\ c.at = "delete" => c.op = "delete"
  /\ c.at = "addKey" => c.op = "addKey"
  /\ c.at \in {"findKey", "updateKey"} => c.op = "updateKey"
  /\ c.at \in KeyPlaces => c.key \in Keys /\ ~SetsDefault(c)
  /\ c.at = "grant" => c.grants \subseteq c.list

DefaultsIn(rows) == {p \in Providers : rows[p] # None /\ rows[p].isDefault}

\* What a call that runs alone knows of the tables.
Lone(c, rows, keys, lists) ==
  LET p == c.provider IN
  /\ c.at = "others" /\ c.op = "upsert" => p \in DefaultsIn(rows)
  /\ c.at = "clear" => /\ c.todo = DefaultsIn(rows) \ {p}
                       /\ c.op = "upsert" => p \in DefaultsIn(rows)
  /\ c.at = "mark" => DefaultsIn(rows) \subseteq {p}
  /\ c.at = "audit" /\ SetsDefault(c) => DefaultsIn(rows) = {p}
  /\ c.at = "grant" /\ keys[c.key] # None => lists[c.key] = c.list \ c.grants

CallsInv ==
  /\ call \in [Calls -> CallStates]
  /\ \A t \in Calls :
       /\ CallOK(call[t])
       /\ call[t].alone /\ Running(t) =>
            /\ \A u \in Calls : Running(u) => u = t
            /\ Lone(call[t], provider, key, access)

\* What a request knows, and what it knows of the tables while it is quiet.
RequestOK(q) ==
  /\ q \in RequestStates
  /\ q.at = "resolve" => q.model \in Models
  /\ q.at \in {"keys", "access", "sent", "exhausted"} => q.provider \in Providers
  /\ q.at = "sent" => q.key \in Keys
  /\ \A k \in Keys : q.sends[k] = IF k \in q.excluded THEN 1 ELSE 0
  /\ q.at = "access" => \A f \in q.found : f[1] \notin q.excluded

UsableIn(keys, p) ==
  {k \in Keys : keys[k] # None /\ keys[k].provider = p /\ keys[k].enabled}

UntriedIn(q, keys, lists) ==
  {k \in UsableIn(keys, q.provider) : k \notin q.excluded /\ Admits(lists[k], q.groups)}

Exact(q, keys, lists) ==
  /\ q.at = "access" =>
       /\ \A f \in q.found : /\ f[1] \in UsableIn(keys, q.provider)
                             /\ f[2] = keys[f[1]].priority
       /\ \A k \in UntriedIn(q, keys, lists) : <<k, keys[k].priority>> \in q.found
  /\ q.at = "exhausted" => UntriedIn(q, keys, lists) = {}
  /\ q.at = "sent" =>
       /\ q.key \in UsableIn(keys, q.provider)
       /\ \A k \in UntriedIn(q, keys, lists) : keys[q.key].priority <= keys[k].priority

RequestsInv ==
  /\ request \in [Requests -> RequestStates]
  /\ \A r \in Requests :
       /\ RequestOK(request[r])
       /\ request[r].quiet => /\ \A t \in Calls : ~Running(t)
                              /\ Exact(request[r], key, access)

ProviderInv == RowsInv /\ CallsInv /\ RequestsInv

-----------------------------------------------------------------------------
(***************************************************************************)
(* How calls go on.                                                        *)
(***************************************************************************)
\* Another place, and what does not change with it.
LEMMA Moved ==
  ASSUME NEW c \in CallStates, NEW place \in CallPlaces
  PROVE  LET d == [c EXCEPT !.at = place] IN
         /\ d \in CallStates /\ d.at = place
         /\ d.op = c.op /\ d.provider = c.provider /\ d.row = c.row
         /\ d.key = c.key /\ d.priority = c.priority /\ d.enabled = c.enabled
         /\ d.todo = c.todo /\ d.list = c.list /\ d.grants = c.grants
         /\ d.alone = c.alone
BY DEF CallStates

LEMMA CallFields ==
  ASSUME NEW c \in CallStates
  PROVE  /\ c.at \in CallPlaces /\ c.provider \in Providers
         /\ c.row \in ProviderRows \cup {None} /\ c.key \in Keys \cup {None}
         /\ c.priority \in Priorities \cup {None} /\ c.enabled \in BOOLEAN
         /\ c.todo \subseteq Providers /\ c.list \subseteq Groups
         /\ c.grants \subseteq Groups /\ c.alone \in BOOLEAN
BY DEF CallStates

LEMMA RunningOK ==
  ASSUME ProviderInv, NEW t \in Calls
  PROVE  /\ call[t] \in CallStates /\ CallOK(call[t])
         /\ call \in [Calls -> CallStates]
BY DEF ProviderInv, CallsInv, CallOK

LEMMA RowsSame == RowsInv /\ UNCHANGED <<storeVars, historyVars>> => RowsInv'
BY DEF RowsInv, storeVars, historyVars, ListsAsSettled

\* Only the running calls have changed the tables: no request is quiet.
LEMMA NobodyQuiet ==
  ASSUME ProviderInv, NEW t \in Calls, Running(t)
  PROVE  \A r \in Requests : ~request[r].quiet
BY DEF ProviderInv, RequestsInv

\* A call goes on, and keeps what the others know.
LEMMA CallStep ==
  ASSUME ProviderInv, NEW t \in Calls, Running(t),
         NEW c, CallOK(c), c.at # "new", c.alone = call[t].alone,
         c.alone /\ c.at # "done" => Lone(c, provider', key', access'),
         Continue(t, c), request' = request, RowsInv'
  PROVE  ProviderInv'
<1>1. c \in CallStates /\ call \in [Calls -> CallStates]
  BY RunningOK DEF CallOK
<1>2. /\ call'[t] = c
      /\ \A u \in Calls \ {t} : call'[u] = call[u]
      /\ call' \in [Calls -> CallStates]
  BY <1>1 DEF Continue
<1>3. RequestsInv'
  BY NobodyQuiet DEF ProviderInv, RequestsInv
<1>4. \A u \in Calls : Running(u)' => Running(u)
  BY <1>2 DEF Running
<1>5. ASSUME NEW u \in Calls
      PROVE  /\ CallOK(call'[u])
             /\ call'[u].alone /\ Running(u)' =>
                  /\ \A v \in Calls : Running(v)' => v = u
                  /\ Lone(call'[u], provider', key', access')
  <2>1. CASE u = t
    <3>1. CallOK(call'[u])
      BY <1>2, <2>1
    <3>2. ASSUME call'[u].alone, Running(u)'
          PROVE  /\ \A v \in Calls : Running(v)' => v = u
                 /\ Lone(call'[u], provider', key', access')
      <4>1. c.alone /\ c.at # "done" /\ call[t].alone
        BY <1>2, <2>1, <3>2 DEF Running
      <4>2. \A v \in Calls : Running(v) => v = t
        BY <4>1 DEF ProviderInv, CallsInv
      <4>. QED
        BY <1>2, <1>4, <2>1, <4>1, <4>2
    <3>. QED
      BY <3>1, <3>2
  <2>2. CASE u # t
    <3>1. call'[u] = call[u] /\ Running(u)' = Running(u)
      BY <1>2, <2>2 DEF Running
    <3>2. CallOK(call'[u])
      BY <3>1 DEF ProviderInv, CallsInv
    <3>3. ~(call[u].alone /\ Running(u))
      BY <2>2 DEF ProviderInv, CallsInv
    <3>. QED
      BY <3>1, <3>2, <3>3
  <2>. QED
    BY <2>1, <2>2
<1>6. CallsInv'
  BY <1>2, <1>5 DEF CallsInv
<1>. QED
  BY <1>3, <1>6 DEF ProviderInv

\* A call goes to another place, without touching the tables.
LEMMA MoveStep ==
  ASSUME ProviderInv, NEW t \in Calls, Running(t), NEW place \in CallPlaces,
         MoveTo(t, place), place # "new",
         CallOK([call[t] EXCEPT !.at = place]),
         call[t].alone /\ place # "done"
           => Lone([call[t] EXCEPT !.at = place], provider, key, access),
         UNCHANGED <<storeVars, request, historyVars>>
  PROVE  ProviderInv'
<1>. DEFINE c == [call[t] EXCEPT !.at = place]
<1>1. c.at = place /\ c.alone = call[t].alone
  BY RunningOK, Moved
<1>2. Continue(t, c) /\ RowsInv' /\ UNCHANGED <<provider, key, access, request>>
  BY RowsSame DEF MoveTo, ProviderInv, storeVars
<1>3. CallOK(c) /\ (c.alone /\ c.at # "done" => Lone(c, provider', key', access'))
  BY <1>1, <1>2
<1>. HIDE DEF c
<1>. QED
  BY <1>1, <1>2, <1>3, CallStep

\* The end of a call, whatever it was.
LEMMA EndOK ==
  ASSUME ProviderInv, NEW t \in Calls, Running(t)
  PROVE  CallOK([call[t] EXCEPT !.at = "done"])
<1>. DEFINE c == [call[t] EXCEPT !.at = "done"]
<1>1. call[t] \in CallStates /\ CallOK(call[t]) /\ call[t].at # "new"
  BY RunningOK DEF Running
<1>2. /\ c \in CallStates /\ c.at = "done" /\ c.op = call[t].op
      /\ c.row = call[t].row /\ c.priority = call[t].priority
  BY <1>1, Moved DEF CallPlaces
<1>. HIDE DEF c
<1>3. CallOK(c)
  BY <1>1, <1>2 DEF CallOK, KeyPlaces
<1>. QED
  BY <1>3 DEF c

LEMMA EndStep ==
  ASSUME ProviderInv, NEW t \in Calls, Running(t), MoveTo(t, "done"),
         UNCHANGED <<storeVars, request, historyVars>>
  PROVE  ProviderInv'
BY EndOK, MoveStep DEF CallPlaces

-----------------------------------------------------------------------------
(***************************************************************************)
(* Calls begin, fail or are logged.                                        *)
(***************************************************************************)
LEMMA StartStep ==
  ASSUME ProviderInv, NEW t \in Calls, NEW c, CallOK(c), Start(t, c),
         c.at \in {"get", "delete", "findKey", "deleteKey"}
  PROVE  ProviderInv'
<1>. DEFINE free == \A v \in Calls : ~Running(v)
            d == [c EXCEPT !.alone = free]
<1>1. /\ call \in [Calls -> CallStates] /\ ~Running(t)
      /\ c \in CallStates /\ RowsInv'
  BY RunningOK, RowsSame DEF Start, ProviderInv, CallOK, Running
<1>2. /\ d \in CallStates /\ d.at = c.at /\ d.op = c.op /\ d.provider = c.provider
      /\ d.row = c.row /\ d.key = c.key /\ d.priority = c.priority
      /\ d.grants = c.grants /\ d.list = c.list /\ d.alone = free
  BY <1>1 DEF CallStates
<1>. HIDE DEF d
<1>3. CallOK(d) /\ Lone(d, provider', key', access')
  BY <1>2 DEF CallOK, SetsDefault, Lone, KeyPlaces
<1>4. ASSUME NEW u \in Calls
      PROVE  /\ [call[u] EXCEPT !.alone = FALSE] \in CallStates
             /\ Running(u) => CallOK([call[u] EXCEPT !.alone = FALSE])
             /\ [call[u] EXCEPT !.alone = FALSE].at = call[u].at
             /\ [call[u] EXCEPT !.alone = FALSE].alone = FALSE
  <2>. DEFINE e == [call[u] EXCEPT !.alone = FALSE]
  <2>1. call[u] \in CallStates /\ CallOK(call[u])
    BY RunningOK
  <2>2. /\ e \in CallStates /\ e.at = call[u].at /\ e.op = call[u].op
        /\ e.provider = call[u].provider /\ e.row = call[u].row /\ e.key = call[u].key
        /\ e.priority = call[u].priority /\ e.grants = call[u].grants
        /\ e.list = call[u].list /\ e.alone = FALSE
    BY <2>1 DEF CallStates
  <2>. HIDE DEF e
  <2>3. CallOK(e)
    BY <2>1, <2>2 DEF CallOK, SetsDefault
  <2>. QED
    BY <2>2, <2>3 DEF e
<1>5. call' = [u \in Calls |-> IF u = t THEN d
                 ELSE IF Running(u) THEN [call[u] EXCEPT !.alone = FALSE]
                 ELSE call[u]]
  BY DEF Start, d
<1>6. call' \in [Calls -> CallStates]
  BY <1>1, <1>2, <1>4, <1>5
<1>7. \A u \in Calls : Running(u)' <=> u = t \/ Running(u)
  BY <1>1, <1>2, <1>4, <1>5 DEF Running
<1>8. ASSUME NEW u \in Calls
      PROVE  /\ CallOK(call'[u])
             /\ call'[u].alone /\ Running(u)' =>
                  /\ \A v \in Calls : Running(v)' => v = u
                  /\ Lone(call'[u], provider', key', access')
  <2>1. CASE u = t
    BY <1>2, <1>3, <1>5, <1>7, <2>1
  <2>2. CASE u # t /\ Running(u)
    BY <1>4, <1>5, <2>2
  <2>3. CASE u # t /\ ~Running(u)
    BY <1>5, <1>7, <2>3, RunningOK
  <2>. QED
    BY <2>1, <2>2, <2>3
<1>9. ASSUME NEW r \in Requests
      PROVE  /\ request'[r] \in RequestStates /\ RequestOK(request'[r])
             /\ request'[r].quiet = FALSE
  <2>. DEFINE q == request[r]
              s == [q EXCEPT !.quiet = FALSE]
  <2>1. q \in RequestStates /\ RequestOK(q) /\ request'[r] = s
    BY DEF Start, ProviderInv, RequestsInv
  <2>2. /\ s \in RequestStates /\ s.at = q.at /\ s.model = q.model
        /\ s.provider = q.provider /\ s.key = q.key /\ s.sends = q.sends
        /\ s.excluded = q.excluded /\ s.found = q.found /\ s.quiet = FALSE
    BY <2>1 DEF RequestStates
  <2>. HIDE DEF s
  <2>3. RequestOK(s)
    BY <2>1, <2>2 DEF RequestOK
  <2>. QED
    BY <2>1, <2>2, <2>3
<1>10. DOMAIN request' = Requests /\ request' = [r \in Requests |-> request'[r]]
  BY DEF Start
<1>. QED
  BY <1>1, <1>6, <1>8, <1>9, <1>10 DEF ProviderInv, CallsInv, RequestsInv

LEMMA NewCallFields ==
  ASSUME NEW p \in Providers
  PROVE  NewCall(p) \in CallStates /\ NewCall(p).at = "new"
BY DEF NewCall, CallStates, CallPlaces

LEMMA BeginOK ==
  ASSUME ProviderInv, NEW t \in Calls, Begin(t)
  PROVE  ProviderInv'
<1>1. ASSUME NEW p \in Providers, NEW row \in ProviderInputs, UpsertProvider(t, p, row)
      PROVE  ProviderInv'
  <2>. DEFINE c == [NewCall(p) EXCEPT !.at = "get", !.op = "upsert", !.row = row]
  <2>1. row \in ProviderRows
    BY InputsAssumption
  <2>2. c \in CallStates /\ c.at = "get" /\ c.op = "upsert" /\ c.row = row
    BY <2>1 DEF NewCall, CallStates, CallPlaces
  <2>. HIDE DEF c
  <2>3. CallOK(c)
    BY <2>1, <2>2 DEF CallOK, KeyPlaces
  <2>. QED
    BY <1>1, <2>2, <2>3, StartStep DEF UpsertProvider, c
<1>2. ASSUME NEW p \in Providers, SetDefault(t, p)
      PROVE  ProviderInv'
  <2>. DEFINE c == [NewCall(p) EXCEPT !.at = "get", !.op = "setDefault"]
  <2>1. c \in CallStates /\ c.at = "get" /\ c.op = "setDefault"
    BY DEF NewCall, CallStates, CallPlaces
  <2>. HIDE DEF c
  <2>2. CallOK(c)
    BY <2>1 DEF CallOK, KeyPlaces
  <2>. QED
    BY <1>2, <2>1, <2>2, StartStep DEF SetDefault, c
<1>3. ASSUME NEW p \in Providers, DeleteProvider(t, p)
      PROVE  ProviderInv'
  <2>. DEFINE c == [NewCall(p) EXCEPT !.at = "delete", !.op = "delete"]
  <2>1. c \in CallStates /\ c.at = "delete" /\ c.op = "delete"
    BY DEF NewCall, CallStates, CallPlaces
  <2>. HIDE DEF c
  <2>2. CallOK(c)
    BY <2>1 DEF CallOK, KeyPlaces
  <2>. QED
    BY <1>3, <2>1, <2>2, StartStep DEF DeleteProvider, c
<1>4. ASSUME NEW p \in Providers, NEW priority \in Priorities, NEW list \in Lists,
             AddKey(t, p, priority, list)
      PROVE  ProviderInv'
  <2>. DEFINE c == [NewCall(p) EXCEPT !.at = "get", !.op = "addKey",
                      !.priority = priority, !.list = list]
  <2>1. list \in SUBSET Groups
    BY GroupsAssumption
  <2>2. c \in CallStates /\ c.at = "get" /\ c.op = "addKey" /\ c.priority = priority
    BY <2>1 DEF NewCall, CallStates, CallPlaces
  <2>. HIDE DEF c
  <2>3. CallOK(c)
    BY <2>2 DEF CallOK, KeyPlaces
  <2>. QED
    BY <1>4, <2>2, <2>3, StartStep DEF AddKey, c
<1>5. ASSUME NEW p \in Providers, NEW k \in added, NEW enabled \in BOOLEAN,
             NEW priority \in Priorities, NEW list \in Lists,
             UpdateKey(t, p, k, enabled, priority, list)
      PROVE  ProviderInv'
  <2>. DEFINE c == [NewCall(p) EXCEPT !.at = "findKey", !.op = "updateKey", !.key = k,
                      !.enabled = enabled, !.priority = priority, !.list = list]
  <2>1. list \in SUBSET Groups /\ k \in Keys
    BY GroupsAssumption DEF ProviderInv, RowsInv
  <2>2. /\ c \in CallStates /\ c.at = "findKey" /\ c.op = "updateKey"
        /\ c.priority = priority /\ c.key = k
    BY <2>1 DEF NewCall, CallStates, CallPlaces
  <2>. HIDE DEF c
  <2>3. CallOK(c)
    BY <2>1, <2>2 DEF CallOK, KeyPlaces, SetsDefault
  <2>. QED
    BY <1>5, <2>2, <2>3, StartStep DEF UpdateKey, c
<1>6. ASSUME NEW p \in Providers, NEW k \in added, DeleteKey(t, p, k)
      PROVE  ProviderInv'
  <2>. DEFINE c == [NewCall(p) EXCEPT !.at = "deleteKey", !.op = "deleteKey", !.key = k]
  <2>1. k \in Keys
    BY DEF ProviderInv, RowsInv
  <2>2. c \in CallStates /\ c.at = "deleteKey" /\ c.op = "deleteKey" /\ c.key = k
    BY <2>1 DEF NewCall, CallStates, CallPlaces
  <2>. HIDE DEF c
  <2>3. CallOK(c)
    BY <2>1, <2>2 DEF CallOK, KeyPlaces, SetsDefault
  <2>. QED
    BY <1>6, <2>2, <2>3, StartStep DEF DeleteKey, c
<1>. QED
  BY <1>1, <1>2, <1>3, <1>4, <1>5, <1>6 DEF Begin

-----------------------------------------------------------------------------
(***************************************************************************)
(* The statements of upsert_provider and set_default_provider.             *)
(***************************************************************************)
\* A call that moves on has the fields that it had.
LEMMA MovedCall ==
  ASSUME ProviderInv, NEW t \in Calls, Running(t), NEW place \in CallPlaces,
         NEW c, c = [call[t] EXCEPT !.at = place]
  PROVE  /\ c \in CallStates /\ c.at = place
         /\ c.op = call[t].op /\ c.provider = call[t].provider
         /\ c.row = call[t].row /\ c.key = call[t].key
         /\ c.priority = call[t].priority /\ c.todo = call[t].todo
         /\ c.list = call[t].list /\ c.grants = call[t].grants
         /\ c.alone = call[t].alone
         /\ SetsDefault(c) <=> SetsDefault(call[t])
         /\ c.op = "upsert" => c.row \in ProviderRows
         /\ c.op \in {"addKey", "updateKey"} => c.priority \in Priorities
<1>1. call[t] \in CallStates /\ CallOK(call[t]) /\ call[t].at # "new"
  BY RunningOK DEF Running
<1>. QED
  BY <1>1, Moved DEF CallOK, SetsDefault

LEMMA GetProviderOK ==
  ASSUME ProviderInv, NEW t \in Calls, GetProvider(t)
  PROVE  ProviderInv'
<1>. DEFINE place == IF provider[call[t].provider] = None THEN "insert" ELSE "update"
            c == [call[t] EXCEPT !.at = place]
<1>1. Running(t) /\ place \in CallPlaces /\ place \in {"insert", "update"}
      /\ call[t].op = "upsert"
  BY DEF GetProvider, Running, CallPlaces
<1>2. CallOK(c) /\ Lone(c, provider, key, access)
  BY <1>1, MovedCall DEF CallOK, Lone, KeyPlaces
<1>. QED
  BY <1>1, <1>2, MoveStep DEF GetProvider

\* The row of a provider is written, and it was there or is made.
LEMMA RowWritten ==
  ASSUME RowsInv, NEW p \in Providers, NEW row \in ProviderRows,
         provider' = [provider EXCEPT ![p] = row],
         UNCHANGED <<key, access, historyVars>>
  PROVE  RowsInv' /\ provider'[p] = row
BY InputsAssumption DEF RowsInv, ListsAsSettled, historyVars, KeyRows

LEMMA WriteProviderOK ==
  ASSUME ProviderInv, NEW t \in Calls, call[t].at \in {"insert", "update"},
         WriteProvider(t), UNCHANGED <<key, access, request, historyVars>>
  PROVE  ProviderInv'
<1>. DEFINE place == AfterWrite(call[t])
            c == [call[t] EXCEPT !.at = place]
            p == call[t].provider
<1>1. /\ Running(t) /\ place \in CallPlaces /\ place \in {"others", "audit"}
      /\ call[t].op = "upsert" /\ call[t].row \in ProviderRows
      /\ call[t].row.isDefault \in BOOLEAN
      /\ place = "others" <=> call[t].row.isDefault
      /\ p \in Providers
  BY RunningOK DEF Running, CallPlaces, AfterWrite, CallOK, CallStates, ProviderRows
<1>2. RowsInv' /\ provider'[p] = call[t].row
  BY <1>1, RowWritten DEF WriteProvider, ProviderInv
<1>. HIDE DEF p, place
<1>3. CallOK(c)
  BY <1>1, MovedCall DEF CallOK, SetsDefault, KeyPlaces
<1>4. Lone(c, provider', key', access')
  BY <1>1, <1>2, MovedCall, InputsAssumption DEF Lone, SetsDefault, DefaultsIn, p
<1>5. Continue(t, c) /\ c.alone = call[t].alone /\ c.at # "new"
  BY <1>1, MovedCall DEF WriteProvider, MoveTo, place
<1>. HIDE DEF c
<1>. QED
  BY <1>1, <1>2, <1>3, <1>4, <1>5, CallStep

LEMMA InsertProviderOK ==
  ASSUME ProviderInv, NEW t \in Calls, InsertProvider(t)
  PROVE  ProviderInv'
BY WriteProviderOK, EndStep DEF InsertProvider, Running, storeVars

LEMMA UpdateProviderOK ==
  ASSUME ProviderInv, NEW t \in Calls, UpdateProvider(t)
  PROVE  ProviderInv'
BY WriteProviderOK, EndStep DEF UpdateProvider, Running, storeVars

LEMMA GetForDefaultOK ==
  ASSUME ProviderInv, NEW t \in Calls, GetForDefault(t)
  PROVE  ProviderInv'
<1>1. Running(t) /\ call[t].op = "setDefault"
  BY DEF GetForDefault, Running
<1>2. CASE MoveTo(t, "others")
  <2>. DEFINE c == [call[t] EXCEPT !.at = "others"]
  <2>1. CallOK(c) /\ Lone(c, provider, key, access)
    BY <1>1, MovedCall DEF CallPlaces, CallOK, SetsDefault, Lone, KeyPlaces
  <2>. QED
    BY <1>1, <1>2, <2>1, MoveStep DEF GetForDefault, CallPlaces
<1>3. CASE MoveTo(t, "done")
  BY <1>1, <1>3, EndStep DEF GetForDefault
<1>. QED
  BY <1>2, <1>3 DEF GetForDefault

\* What is next when no default is left to be cleared.
LEMMA AfterClearOK ==
  ASSUME NEW c, CallOK(c), SetsDefault(c),
         c.at = AfterClear(c), NEW rows, NEW keys, NEW lists,
         DefaultsIn(rows) \subseteq {c.provider},
         c.op = "upsert" => c.provider \in DefaultsIn(rows)
  PROVE  Lone(c, rows, keys, lists)
BY DEF AfterClear, SetsDefault, Lone

LEMMA FindOthersOK ==
  ASSUME ProviderInv, NEW t \in Calls, FindOthers(t)
  PROVE  ProviderInv'
<1>. DEFINE others == Defaults \ {call[t].provider}
            place == IF others = {} THEN AfterClear(call[t]) ELSE "clear"
            c == [call[t] EXCEPT !.todo = others, !.at = place]
<1>1. /\ Running(t) /\ call[t] \in CallStates /\ CallOK(call[t])
      /\ SetsDefault(call[t]) /\ others \subseteq Providers
  BY RunningOK DEF FindOthers, Running, CallOK, Defaults
<1>2. place \in {"clear", "mark", "audit"} /\ (place = "mark" => call[t].op = "setDefault")
  BY <1>1 DEF AfterClear, SetsDefault
<1>. HIDE DEF others
<1>3. /\ c \in CallStates /\ c.at = place /\ c.todo = others
      /\ c.op = call[t].op /\ c.provider = call[t].provider /\ c.row = call[t].row
      /\ c.alone = call[t].alone
  BY <1>1, <1>2, ZenonT(40) DEF CallStates, CallPlaces
<1>4. Continue(t, c) /\ UNCHANGED <<storeVars, request, historyVars>>
  BY DEF FindOthers, others
<1>5. others = DefaultsIn(provider) \ {c.provider}
  BY <1>3 DEF others, Defaults, DefaultsIn
<1>6. c.at = IF others = {} THEN AfterClear(c) ELSE "clear"
  BY <1>3 DEF AfterClear
<1>. HIDE DEF c, place
<1>7. CallOK(c) /\ SetsDefault(c)
  BY <1>1, <1>2, <1>3 DEF CallOK, SetsDefault, KeyPlaces, FindOthers
<1>8. ASSUME c.alone
      PROVE  Lone(c, provider, key, access)
  <2>1. Lone(call[t], provider, key, access)
    BY <1>1, <1>3, <1>8 DEF ProviderInv, CallsInv
  <2>2. c.op = "upsert" => c.provider \in DefaultsIn(provider)
    BY <1>3, <2>1 DEF Lone, FindOthers
  <2>3. CASE others = {}
    BY <1>5, <1>6, <1>7, <2>2, <2>3, AfterClearOK
  <2>4. CASE others # {}
    BY <1>3, <1>5, <1>6, <2>2, <2>4 DEF Lone
  <2>. QED
    BY <2>3, <2>4
<1>9. RowsInv' /\ UNCHANGED <<provider, key, access, request>>
  BY <1>4, RowsSame DEF ProviderInv, storeVars
<1>. QED
  BY <1>1, <1>2, <1>3, <1>4, <1>7, <1>8, <1>9, CallStep

\* The row of a provider that is there gets another mark.
LEMMA MarkWritten ==
  ASSUME RowsInv, NEW p \in Providers, provider[p] # None, NEW mark \in BOOLEAN,
         provider' = [provider EXCEPT ![p].isDefault = mark],
         UNCHANGED <<key, access, historyVars>>
  PROVE  /\ RowsInv'
         /\ DefaultsIn(provider') = IF mark THEN DefaultsIn(provider) \cup {p}
                                    ELSE DefaultsIn(provider) \ {p}
<1>1. provider[p] \in ProviderRows /\ provider \in [Providers -> ProviderRows \cup {None}]
  BY DEF RowsInv
<1>2. /\ [provider[p] EXCEPT !.isDefault = mark] \in ProviderRows
      /\ [provider[p] EXCEPT !.isDefault = mark].isDefault = mark
  BY <1>1 DEF ProviderRows
<1>3. provider' = [provider EXCEPT ![p] = [provider[p] EXCEPT !.isDefault = mark]]
  BY <1>1
<1>4. RowsInv' /\ provider'[p] = [provider[p] EXCEPT !.isDefault = mark]
  BY <1>2, <1>3, RowWritten
<1>5. \A q \in Providers \ {p} : provider'[q] = provider[q]
  BY <1>1, <1>3
<1>. QED
  BY <1>2, <1>4, <1>5, InputsAssumption DEF DefaultsIn

LEMMA ClearOK ==
  ASSUME ProviderInv, NEW t \in Calls, Clear(t)
  PROVE  ProviderInv'
<1>1. /\ Running(t) /\ call[t] \in CallStates /\ CallOK(call[t])
      /\ SetsDefault(call[t]) /\ call[t].todo \subseteq Providers
  BY RunningOK, CallFields DEF Clear, Running, CallOK
<1>2. ASSUME NEW p \in call[t].todo, provider[p] # None,
             provider' = [provider EXCEPT ![p].isDefault = FALSE],
             Continue(t, [call[t] EXCEPT !.todo = @ \ {p},
               !.at = IF call[t].todo = {p} THEN AfterClear(call[t]) ELSE "clear"])
      PROVE  ProviderInv'
  <2>. DEFINE todo == call[t].todo \ {p}
              place == IF call[t].todo = {p} THEN AfterClear(call[t]) ELSE "clear"
              c == [call[t] EXCEPT !.todo = todo, !.at = place]
  <2>1. place \in {"clear", "mark", "audit"}
        /\ (place = "mark" => call[t].op = "setDefault")
    BY <1>1 DEF AfterClear, SetsDefault
  <2>2. todo \subseteq Providers /\ p \in Providers
    BY <1>1
  <2>3. /\ c \in CallStates /\ c.at = place /\ c.todo = todo
        /\ c.op = call[t].op /\ c.provider = call[t].provider /\ c.row = call[t].row
        /\ c.alone = call[t].alone
    BY <1>1, <2>1, <2>2, ZenonT(40) DEF CallStates, CallPlaces
  <2>4. Continue(t, c) /\ UNCHANGED <<key, access, request, historyVars>>
    BY <1>2 DEF Clear
  <2>5. c.at = IF todo = {} THEN AfterClear(c) ELSE "clear"
    BY <2>3, <1>2 DEF AfterClear
  <2>. HIDE DEF c, place
  <2>6. CallOK(c) /\ SetsDefault(c)
    BY <1>1, <2>1, <2>3 DEF CallOK, SetsDefault, KeyPlaces, Clear
  <2>7. RowsInv' /\ DefaultsIn(provider') = DefaultsIn(provider) \ {p}
    BY <1>2, <2>2, <2>4, MarkWritten DEF ProviderInv
  <2>8. ASSUME c.alone
        PROVE  Lone(c, provider', key', access')
    <3>1. Lone(call[t], provider, key, access) /\ call[t].at = "clear"
      BY <1>1, <2>3, <2>8 DEF ProviderInv, CallsInv, Clear
    <3>2. todo = DefaultsIn(provider') \ {c.provider}
      BY <2>3, <2>7, <3>1 DEF Lone
    <3>3. p # c.provider
      BY <1>2, <2>3, <3>1 DEF Lone
    <3>4. c.op = "upsert" => c.provider \in DefaultsIn(provider')
      BY <2>3, <2>7, <3>1, <3>3 DEF Lone
    <3>. HIDE DEF todo
    <3>5. CASE todo = {}
      BY <2>5, <2>6, <3>2, <3>4, <3>5, AfterClearOK
    <3>6. CASE todo # {}
      BY <2>3, <2>5, <3>2, <3>4, <3>6 DEF Lone
    <3>. QED
      BY <3>5, <3>6
  <2>. QED
    BY <1>1, <2>1, <2>3, <2>4, <2>6, <2>7, <2>8, CallStep
<1>3. ASSUME MoveTo(t, "done"), UNCHANGED provider
      PROVE  ProviderInv'
  BY <1>1, <1>3, EndStep DEF Clear, storeVars
<1>. QED
  BY <1>2, <1>3 DEF Clear

LEMMA MarkOK ==
  ASSUME ProviderInv, NEW t \in Calls, Mark(t)
  PROVE  ProviderInv'
<1>. DEFINE p == call[t].provider
            c == [call[t] EXCEPT !.at = "audit"]
<1>1. /\ Running(t) /\ call[t] \in CallStates /\ CallOK(call[t]) /\ p \in Providers
      /\ call[t].op = "setDefault" /\ call[t].at = "mark"
  BY RunningOK, CallFields DEF Mark, Running, CallOK
<1>2. ASSUME provider[p] # None, provider' = [provider EXCEPT ![p].isDefault = TRUE],
             MoveTo(t, "audit")
      PROVE  ProviderInv'
  <2>1. /\ c \in CallStates /\ c.at = "audit" /\ c.alone = call[t].alone
        /\ c.provider = p /\ c.op = "setDefault" /\ Continue(t, c)
    BY <1>1, <1>2, Moved, ZenonT(40) DEF MoveTo, CallPlaces
  <2>2. RowsInv' /\ DefaultsIn(provider') = DefaultsIn(provider) \cup {p}
    BY <1>1, <1>2, MarkWritten DEF ProviderInv, Mark
  <2>. HIDE DEF p, c
  <2>3. CallOK(c)
    BY <2>1 DEF CallOK, KeyPlaces
  <2>4. ASSUME c.alone PROVE Lone(c, provider', key', access')
    <3>1. Lone(call[t], provider, key, access)
      BY <1>1, <2>1, <2>4 DEF ProviderInv, CallsInv
    <3>. QED
      BY <1>1, <2>1, <2>2, <3>1 DEF Lone, p
  <2>. QED
    BY <1>1, <2>1, <2>2, <2>3, <2>4, CallStep DEF Mark
<1>. QED
  BY <1>1, <1>2, EndStep DEF Mark, storeVars

-----------------------------------------------------------------------------
(***************************************************************************)
(* The statements that delete providers and keys.                          *)
(***************************************************************************)
LEMMA KeysDropped ==
  ASSUME RowsInv, NEW gone \in SUBSET Keys, DropKeys(gone),
         UNCHANGED <<provider, historyVars>>
  PROVE  RowsInv'
BY DEF DropKeys, RowsInv, ListsAsSettled, historyVars

LEMMA ProviderDropped ==
  ASSUME RowsInv, NEW p \in Providers, provider' = [provider EXCEPT ![p] = None],
         DropKeys(KeysOf(p)), UNCHANGED historyVars
  PROVE  RowsInv'
<1>1. /\ provider \in [Providers -> ProviderRows \cup {None}]
      /\ key \in [Keys -> KeyRows \cup {None}]
      /\ \A k \in Keys : IF key[k] = None THEN access[k] = {}
                         ELSE provider[key[k].provider] # None
  BY DEF RowsInv
<1>2. \A k \in Keys : key'[k] = IF k \in KeysOf(p) THEN None ELSE key[k]
  BY DEF DropKeys
<1>3. \A k \in Keys : key'[k] # None => key[k].provider \in Providers \ {p}
  BY <1>1, <1>2 DEF KeysOf, KeyRows
<1>4. provider' \in [Providers -> ProviderRows \cup {None}]
  BY <1>1
<1>5. \A k \in Keys : IF key'[k] = None THEN access'[k] = {}
                      ELSE provider'[key'[k].provider] # None
  BY <1>1, <1>2, <1>3 DEF DropKeys
<1>. QED
  BY <1>4, <1>5 DEF RowsInv, DropKeys, ListsAsSettled, historyVars

\* A call that is left with its log entry, and sets no default.
LEMMA LoggedStep ==
  ASSUME ProviderInv, NEW t \in Calls, Running(t), ~SetsDefault(call[t]),
         MoveTo(t, "audit"), request' = request, RowsInv'
  PROVE  ProviderInv'
<1>. DEFINE c == [call[t] EXCEPT !.at = "audit"]
<1>1. Continue(t, c) /\ c.alone = call[t].alone /\ c.at = "audit" /\ ~SetsDefault(c)
  BY MovedCall DEF MoveTo, CallPlaces
<1>2. CallOK(c)
  BY MovedCall DEF CallPlaces, CallOK, KeyPlaces
<1>. HIDE DEF c
<1>3. Lone(c, provider', key', access')
  BY <1>1 DEF Lone
<1>. QED
  BY <1>1, <1>2, <1>3, CallStep

\* A call that ends although it has changed the tables.
LEMMA EndedStep ==
  ASSUME ProviderInv, NEW t \in Calls, Running(t), MoveTo(t, "done"),
         request' = request, RowsInv'
  PROVE  ProviderInv'
<1>. DEFINE c == [call[t] EXCEPT !.at = "done"]
<1>1. Continue(t, c) /\ c.alone = call[t].alone /\ c.at = "done" /\ CallOK(c)
  BY MovedCall, EndOK DEF MoveTo, CallPlaces
<1>. HIDE DEF c
<1>. QED
  BY <1>1, CallStep

LEMMA ExecDeleteProviderOK ==
  ASSUME ProviderInv, NEW t \in Calls, ExecDeleteProvider(t)
  PROVE  ProviderInv'
<1>1. /\ Running(t) /\ call[t].provider \in Providers /\ ~SetsDefault(call[t])
  BY RunningOK, CallFields DEF ExecDeleteProvider, Running, CallOK, SetsDefault
<1>2. RowsInv'
  BY <1>1, ProviderDropped DEF ExecDeleteProvider, ProviderInv
<1>. QED
  BY <1>1, <1>2, LoggedStep, EndedStep DEF ExecDeleteProvider

LEMMA ExecDeleteKeyOK ==
  ASSUME ProviderInv, NEW t \in Calls, ExecDeleteKey(t)
  PROVE  ProviderInv'
<1>1. Running(t) /\ ~SetsDefault(call[t])
  BY RunningOK DEF ExecDeleteKey, Running, CallOK, KeyPlaces
<1>2. KeysOf(call[t].provider) \subseteq Keys
  BY DEF KeysOf
<1>3. RowsInv'
  BY <1>2, KeysDropped DEF ExecDeleteKey, ProviderInv
<1>. QED
  BY <1>1, <1>3, LoggedStep, EndedStep DEF ExecDeleteKey

-----------------------------------------------------------------------------
(***************************************************************************)
(* The statements of add_key, update_key and replace_access.               *)
(***************************************************************************)
LEMMA GetForAddOK ==
  ASSUME ProviderInv, NEW t \in Calls, GetForAdd(t)
  PROVE  ProviderInv'
<1>1. Running(t) /\ call[t].op = "addKey"
  BY DEF GetForAdd, Running
<1>2. CASE MoveTo(t, "addKey")
  <2>. DEFINE c == [call[t] EXCEPT !.at = "addKey"]
  <2>1. CallOK(c) /\ Lone(c, provider, key, access)
    BY <1>1, MovedCall DEF CallPlaces, CallOK, Lone, KeyPlaces
  <2>. QED
    BY <1>1, <1>2, <2>1, MoveStep DEF GetForAdd, CallPlaces
<1>. QED
  BY <1>1, <1>2, EndStep DEF GetForAdd

LEMMA InsertKeyOK ==
  ASSUME ProviderInv, NEW t \in Calls, InsertKey(t)
  PROVE  ProviderInv'
<1>. DEFINE p == call[t].provider
<1>1. /\ Running(t) /\ call[t] \in CallStates /\ CallOK(call[t]) /\ p \in Providers
      /\ call[t].op = "addKey" /\ call[t].priority \in Priorities
      /\ call[t].list \in SUBSET Groups
  BY RunningOK, CallFields DEF InsertKey, Running, CallOK
<1>2. ASSUME provider[p] # None, NEW k \in Keys \ added,
             key' = [key EXCEPT ![k] = [provider |-> p, enabled |-> TRUE,
                                        priority |-> call[t].priority]],
             added' = added \cup {k}, settled' = [settled EXCEPT ![k] = None],
             granted' = [granted EXCEPT ![k] = {call[t].list}],
             Continue(t, [call[t] EXCEPT !.at = "load", !.key = k])
      PROVE  ProviderInv'
  <2>. DEFINE c == [call[t] EXCEPT !.at = "load", !.key = k]
              row == [provider |-> p, enabled |-> TRUE, priority |-> call[t].priority]
  <2>1. /\ c \in CallStates /\ c.at = "load" /\ c.key = k /\ c.op = "addKey"
        /\ c.priority = call[t].priority /\ c.alone = call[t].alone
    BY <1>1 DEF CallStates, CallPlaces
  <2>2. Continue(t, c)
    BY <1>2
  <2>. HIDE DEF c
  <2>3. CallOK(c)
    <3>1. ~SetsDefault(c)
      BY <2>1 DEF SetsDefault
    <3>. QED
      BY <1>1, <2>1, <3>1 DEF CallOK, KeyPlaces
  <2>7. Lone(c, provider', key', access')
    BY <2>1 DEF Lone
  <2>4. row \in KeyRows /\ row.provider = p /\ row # None
    <3>1. p \in Providers /\ call[t].priority \in Priorities
      BY <1>1
    <3>. HIDE DEF p
    <3>2. row \in KeyRows /\ row.provider = p
      BY <3>1 DEF KeyRows
    <3>. QED
      BY <3>2, InputsAssumption
  <2>5. UNCHANGED <<provider, access, request>> /\ key' = [key EXCEPT ![k] = row]
    BY <1>2 DEF InsertKey
  <2>. HIDE DEF row
  <2>6. RowsInv'
    BY <1>1, <1>2, <2>4, <2>5 DEF RowsInv, ListsAsSettled, ProviderInv
  <2>. QED
    BY <1>1, <2>1, <2>2, <2>3, <2>7, <2>5, <2>6, CallStep
<1>. QED
  BY <1>1, <1>2, EndStep DEF InsertKey, storeVars

LEMMA LoadKeyOK ==
  ASSUME ProviderInv, NEW t \in Calls, LoadKey(t)
  PROVE  ProviderInv'
<1>1. Running(t) /\ call[t].key \in Keys /\ ~SetsDefault(call[t])
  BY RunningOK DEF LoadKey, Running, CallOK, KeyPlaces
<1>2. CASE MoveTo(t, "wipe")
  <2>. DEFINE c == [call[t] EXCEPT !.at = "wipe"]
  <2>1. CallOK(c) /\ Lone(c, provider, key, access)
    BY <1>1, MovedCall DEF CallPlaces, CallOK, Lone, KeyPlaces
  <2>. QED
    BY <1>1, <1>2, <2>1, MoveStep DEF LoadKey, CallPlaces
<1>. QED
  BY <1>1, <1>2, EndStep DEF LoadKey

LEMMA FindKeyOK ==
  ASSUME ProviderInv, NEW t \in Calls, FindKey(t)
  PROVE  ProviderInv'
<1>1. Running(t) /\ call[t].key \in Keys /\ ~SetsDefault(call[t]) /\ call[t].at = "findKey"
  BY RunningOK DEF FindKey, Running, CallOK, KeyPlaces
<1>2. call[t].op = "updateKey"
  BY <1>1, RunningOK DEF CallOK
<1>3. CASE MoveTo(t, "updateKey")
  <2>. DEFINE c == [call[t] EXCEPT !.at = "updateKey"]
  <2>1. CallOK(c) /\ Lone(c, provider, key, access)
    BY <1>1, <1>2, MovedCall DEF CallPlaces, CallOK, Lone, KeyPlaces
  <2>. QED
    BY <1>1, <1>3, <2>1, MoveStep DEF FindKey, CallPlaces
<1>. QED
  BY <1>1, <1>3, EndStep DEF FindKey

LEMMA WriteKeyOK ==
  ASSUME ProviderInv, NEW t \in Calls, WriteKey(t)
  PROVE  ProviderInv'
<1>. DEFINE k == call[t].key
            c == [call[t] EXCEPT !.at = "wipe"]
<1>1. /\ Running(t) /\ k \in Keys /\ ~SetsDefault(call[t]) /\ call[t].op = "updateKey"
      /\ call[t].enabled \in BOOLEAN /\ call[t].priority \in Priorities
  BY RunningOK, CallFields DEF WriteKey, Running, CallOK, KeyPlaces
<1>2. ASSUME key[k] # None,
             key' = [key EXCEPT ![k].enabled = call[t].enabled,
                                ![k].priority = call[t].priority],
             MoveTo(t, "wipe")
      PROVE  ProviderInv'
  <2>. DEFINE row == [key[k] EXCEPT !.enabled = call[t].enabled,
                                    !.priority = call[t].priority]
  <2>1. key[k] \in KeyRows /\ key \in [Keys -> KeyRows \cup {None}]
    BY <1>1, <1>2 DEF ProviderInv, RowsInv
  <2>2. row \in KeyRows /\ row.provider = key[k].provider /\ row # None
    BY <1>1, <2>1, InputsAssumption DEF KeyRows
  <2>3. key' = [key EXCEPT ![k] = row]
    BY <1>1, <1>2, <2>1
  <2>4. UNCHANGED <<provider, access, request, historyVars>>
    BY DEF WriteKey
  <2>. HIDE DEF row
  <2>5. RowsInv'
    BY <1>1, <1>2, <2>1, <2>2, <2>3, <2>4, SMTT(20)
    DEF RowsInv, ListsAsSettled, ProviderInv, historyVars
  <2>6. /\ CallOK(c) /\ Lone(c, provider', key', access') /\ c.at = "wipe"
        /\ c.alone = call[t].alone /\ Continue(t, c)
    BY <1>1, <1>2, MovedCall, SMTT(20) DEF CallPlaces, CallOK, Lone, KeyPlaces, MoveTo
  <2>. HIDE DEF c
  <2>. QED
    BY <1>1, <2>4, <2>5, <2>6, CallStep
<1>. QED
  BY <1>1, <1>2, EndStep DEF WriteKey, storeVars

\* The list of a key is changed by a call, and settled or not.
LEMMA ListWritten ==
  ASSUME RowsInv, NEW t \in Calls, NEW c \in CallStates, c.key \in Keys, Granted(t, c),
         NEW list \in SUBSET Groups, access' = [access EXCEPT ![c.key] = list],
         key[c.key] = None => list = {},
         c.grants = {} /\ c.alone /\ key[c.key] # None => list = c.list,
         granted' \in [Keys -> SUBSET SUBSET Groups],
         UNCHANGED <<provider, key, added>>
  PROVE  RowsInv'
<1>1. c.list \in SUBSET Groups
  BY CallFields
<1>2. settled' = [settled EXCEPT ![c.key] =
                    IF c.grants = {} /\ c.alone /\ key[c.key] # None THEN c.list ELSE None]
  BY DEF Granted
<1>3. settled' \in [Keys -> {None} \cup SUBSET Groups]
  BY <1>1, <1>2 DEF RowsInv
<1>4. access' \in [Keys -> SUBSET Groups]
  BY DEF RowsInv
<1>5. \A k \in Keys : /\ IF key[k] = None THEN access'[k] = {}
                         ELSE provider[key[k].provider] # None
                      /\ key[k] # None /\ settled'[k] # None => access'[k] = settled'[k]
  BY <1>2 DEF RowsInv, ListsAsSettled
<1>. QED
  BY <1>3, <1>4, <1>5 DEF RowsInv, ListsAsSettled

LEMMA WipeOK ==
  ASSUME ProviderInv, NEW t \in Calls, Wipe(t)
  PROVE  ProviderInv'
<1>. DEFINE list == call[t].list
            place == IF list = {} THEN "audit" ELSE "grant"
            c == [call[t] EXCEPT !.grants = list, !.at = place]
            k == call[t].key
<1>1. /\ Running(t) /\ k \in Keys /\ ~SetsDefault(call[t]) /\ call[t] \in CallStates
      /\ CallOK(call[t]) /\ list \in SUBSET Groups /\ call[t].at = "wipe"
  BY RunningOK, CallFields DEF Wipe, Running, CallOK, KeyPlaces
<1>. HIDE DEF list
<1>2. /\ c \in CallStates /\ c.at = place /\ c.grants = list /\ c.list = list
      /\ c.key = k /\ c.op = call[t].op /\ c.row = call[t].row
      /\ c.priority = call[t].priority /\ c.alone = call[t].alone
  BY <1>1 DEF CallStates, CallPlaces, list
<1>3. /\ Granted(t, c) /\ access' = [access EXCEPT ![k] = {}]
      /\ granted' = [granted EXCEPT ![k] = granted[k] \cup {list}]
      /\ UNCHANGED <<provider, key, request, added>>
  BY DEF Wipe, list
<1>. HIDE DEF c, place, k
<1>4. CallOK(c) /\ ~SetsDefault(c) /\ c.at \in {"audit", "grant"}
  BY <1>1, <1>2 DEF CallOK, SetsDefault, KeyPlaces, place
<1>5. granted' \in [Keys -> SUBSET SUBSET Groups]
  BY <1>1, <1>3 DEF ProviderInv, RowsInv
<1>6. RowsInv'
  <2>1. access' = [access EXCEPT ![c.key] = {}] /\ {} \in SUBSET Groups
    BY <1>2, <1>3
  <2>2. c.key \in Keys /\ (c.grants = {} => c.list = {})
    BY <1>1, <1>2
  <2>3. UNCHANGED <<provider, key, added>> /\ Granted(t, c)
    BY <1>3
  <2>. QED
    BY <1>2, <1>5, <2>1, <2>2, <2>3, ListWritten DEF ProviderInv
<1>7. access'[k] = {}
  BY <1>1, <1>3 DEF ProviderInv, RowsInv
<1>8. Lone(c, provider', key', access')
  BY <1>2, <1>4, <1>7 DEF Lone
<1>9. Continue(t, c)
  BY <1>3 DEF Granted
<1>. QED
  BY <1>1, <1>2, <1>3, <1>4, <1>6, <1>8, <1>9, CallStep

LEMMA GrantOK ==
  ASSUME ProviderInv, NEW t \in Calls, Grant(t)
  PROVE  ProviderInv'
<1>. DEFINE k == call[t].key
<1>1. /\ Running(t) /\ k \in Keys /\ ~SetsDefault(call[t]) /\ call[t] \in CallStates
      /\ CallOK(call[t]) /\ call[t].list \in SUBSET Groups /\ call[t].at = "grant"
      /\ call[t].grants \subseteq call[t].list
  BY RunningOK, CallFields DEF Grant, Running, CallOK, KeyPlaces
<1>2. ASSUME NEW g \in call[t].grants, key[k] # None,
             access' = [access EXCEPT ![k] = access[k] \cup {g}],
             Granted(t, [call[t] EXCEPT !.grants = call[t].grants \ {g},
                           !.at = IF call[t].grants = {g} THEN "audit" ELSE "grant"])
      PROVE  ProviderInv'
  <2>. DEFINE left == call[t].grants \ {g}
              place == IF call[t].grants = {g} THEN "audit" ELSE "grant"
              c == [call[t] EXCEPT !.grants = left, !.at = place]
  <2>1. left \subseteq call[t].list /\ left \in SUBSET Groups
    BY <1>1
  <2>. HIDE DEF left
  <2>2. /\ c \in CallStates /\ c.at = place /\ c.grants = left
        /\ c.list = call[t].list /\ c.key = k /\ c.op = call[t].op
        /\ c.row = call[t].row /\ c.priority = call[t].priority
        /\ c.alone = call[t].alone
    BY <1>1, <2>1 DEF CallStates, CallPlaces
  <2>3. Granted(t, c) /\ UNCHANGED <<provider, key, request, added, granted>>
    BY <1>2 DEF Grant, left
  <2>. HIDE DEF c, place, k
  <2>4. CallOK(c) /\ ~SetsDefault(c) /\ c.at \in {"audit", "grant"}
    BY <1>1, <2>1, <2>2 DEF CallOK, SetsDefault, KeyPlaces, place
  <2>5. access[k] \in SUBSET Groups /\ g \in Groups
        /\ granted' \in [Keys -> SUBSET SUBSET Groups]
        /\ access'[k] = access[k] \cup {g}
    BY <1>1, <1>2, <2>3 DEF ProviderInv, RowsInv
  <2>6. c.alone => access'[k] = c.list \ c.grants
    <3>1. ASSUME c.alone PROVE access[k] = call[t].list \ call[t].grants
      BY <1>1, <1>2, <2>2, <3>1 DEF ProviderInv, CallsInv, Lone, k
    <3>. QED
      BY <1>1, <2>2, <2>5, <3>1 DEF left
  <2>7. RowsInv'
    <3>. DEFINE list == access[k] \cup {g}
    <3>1. list \in SUBSET Groups /\ access' = [access EXCEPT ![c.key] = list]
      BY <1>2, <2>2, <2>5 DEF k
    <3>2. c.key \in Keys /\ key[c.key] # None
      BY <1>1, <1>2, <2>2 DEF k
    <3>3. c.grants = {} /\ c.alone => list = c.list
      BY <1>1, <2>1, <2>2, <2>5, <2>6
    <3>. HIDE DEF list
    <3>4. UNCHANGED <<provider, key, added>> /\ Granted(t, c)
      BY <2>3
    <3>. QED
      BY <2>2, <2>5, <3>1, <3>2, <3>3, <3>4, ListWritten DEF ProviderInv
  <2>8. c.alone => Lone(c, provider', key', access')
    BY <2>2, <2>4, <2>6 DEF Lone
  <2>9. Continue(t, c)
    BY <2>3 DEF Granted
  <2>. QED
    BY <1>1, <2>2, <2>3, <2>4, <2>7, <2>8, <2>9, CallStep
<1>3. ASSUME MoveTo(t, "done"), UNCHANGED <<access, settled>>
      PROVE  ProviderInv'
  BY <1>1, <1>3, EndStep DEF Grant, storeVars, historyVars
<1>. QED
  BY <1>2, <1>3 DEF Grant

LEMMA AuditOK ==
  ASSUME ProviderInv, NEW t \in Calls, Audit(t) \/ Abort(t)
  PROVE  ProviderInv'
BY EndStep DEF Audit, Abort, Running

LEMMA HandleOK ==
  ASSUME ProviderInv, NEW t \in Calls, Handle(t) \/ Abort(t)
  PROVE  ProviderInv'
BY GetProviderOK, InsertProviderOK, UpdateProviderOK, GetForDefaultOK, FindOthersOK,
   ClearOK, MarkOK, ExecDeleteProviderOK, ExecDeleteKeyOK, GetForAddOK, InsertKeyOK,
   LoadKeyOK, FindKeyOK, WriteKeyOK, WipeOK, GrantOK, AuditOK DEF Handle

-----------------------------------------------------------------------------
(***************************************************************************)
(* Requests.                                                               *)
(***************************************************************************)
\* Numbers that are not none have a least one, so that a provider is picked.
LEMMA LeastNumber ==
  ASSUME NEW S \in SUBSET Nat, S # {}
  PROVE  \E m \in S : \A n \in S : m <= n
<1>1. \E R : IsWellFoundedOn(R, Nat) /\ \A m, n \in Nat : m < n => <<m, n>> \in R
  <2>1. \A m, n \in Nat : m < n => <<m, n>> \in OpToRel(<, Nat)
    BY Zenon DEF OpToRel
  <2>2. IsWellFoundedOn(OpToRel(<, Nat), Nat)
    BY NatLessThanWellFounded, Zenon
  <2>. QED
    BY <2>1, <2>2, Zenon
<1>2. PICK R : IsWellFoundedOn(R, Nat) /\ \A m, n \in Nat : m < n => <<m, n>> \in R
  BY <1>1, Zenon
<1>3. IsWellFoundedOn(R, Nat)
  BY <1>2, Zenon
<1>4. \E m \in S : \A n \in S : ~(<<n, m>> \in R)
  BY <1>3, WFMin, Zenon
<1>5. \A m, n \in S : m < n => <<m, n>> \in R
  BY <1>2, Zenon
<1>6. \E m \in S : \A n \in S : ~(n < m)
  BY <1>4, <1>5, Zenon
<1>7. \A m, n \in S : ~(n < m) => m <= n
  BY SMT
<1>. QED
  BY <1>6, <1>7, Zenon

LEMMA LeastProvider ==
  ASSUME NEW S \in SUBSET Providers, S # {}
  PROVE  Least(S) \in Providers
<1>1. S \in SUBSET Nat
  BY OrderedAssumption
<1>2. \E m \in S : \A n \in S : m <= n
  BY <1>1, LeastNumber
<1>. QED
  BY <1>2 DEF Least

LEMMA ProviderForOK ==
  ASSUME NEW model
  PROVE  ProviderFor(model) \in Providers \cup {None}
<1>. DEFINE Enabled == {p \in Providers : provider[p] # None /\ provider[p].enabled}
            Listing == {p \in Enabled : /\ provider[p].models # None
                                        /\ model \in provider[p].models}
            Fallback == {p \in Enabled : provider[p].isDefault}
<1>1. ProviderFor(model) = IF Listing # {} THEN Least(Listing)
                           ELSE IF Fallback # {} THEN Least(Fallback) ELSE None
  BY Zenon DEF ProviderFor
<1>2. Listing \in SUBSET Providers /\ Fallback \in SUBSET Providers
  OBVIOUS
<1>. HIDE DEF Listing, Fallback
<1>. QED
  BY <1>1, <1>2, LeastProvider

LEMMA RequestFields ==
  ASSUME NEW q \in RequestStates
  PROVE  /\ q.at \in RequestPlaces /\ q.model \in {None} \cup Models
         /\ q.groups \subseteq Groups /\ q.provider \in Providers \cup {None}
         /\ q.found \in SUBSET (Keys \X Priorities) /\ q.excluded \subseteq Keys
         /\ q.key \in Keys \cup {None} /\ q.sends \in [Keys -> Nat]
         /\ q.quiet \in BOOLEAN
BY DEF RequestStates

LEMMA AskedOK ==
  ASSUME ProviderInv, NEW r \in Requests
  PROVE  /\ request[r] \in RequestStates /\ RequestOK(request[r])
         /\ request \in [Requests -> RequestStates]
         /\ request[r].quiet => Exact(request[r], key, access)
BY DEF ProviderInv, RequestsInv

\* A request goes on, and no other request or call notices.
LEMMA RequestStep ==
  ASSUME ProviderInv, NEW r \in Requests, NEW q, RequestOK(q),
         q.quiet => (\A t \in Calls : ~Running(t)) /\ Exact(q, key, access),
         Proceed(r, q), UNCHANGED <<storeVars, call, historyVars>>
  PROVE  ProviderInv'
<1>1. q \in RequestStates /\ request \in [Requests -> RequestStates]
  BY AskedOK DEF RequestOK
<1>2. /\ request' \in [Requests -> RequestStates] /\ request'[r] = q
      /\ \A s \in Requests \ {r} : request'[s] = request[s]
  BY <1>1 DEF Proceed
<1>3. RowsInv' /\ UNCHANGED <<provider, key, access, call>>
  BY RowsSame DEF ProviderInv, storeVars
<1>4. CallsInv'
  BY <1>3 DEF ProviderInv, CallsInv, Running
<1>5. \A t \in Calls : Running(t)' = Running(t)
  BY <1>3 DEF Running
<1>6. ASSUME NEW s \in Requests
      PROVE  /\ RequestOK(request'[s])
             /\ request'[s].quiet => /\ \A t \in Calls : ~Running(t)'
                                     /\ Exact(request'[s], key', access')
  <2>1. CASE s = r
    BY <1>2, <1>3, <1>5, <2>1
  <2>2. CASE s # r
    BY <1>2, <1>3, <1>5, <2>2 DEF ProviderInv, RequestsInv
  <2>. QED
    BY <2>1, <2>2
<1>7. RequestsInv'
  BY <1>2, <1>6 DEF RequestsInv
<1>. QED
  BY <1>3, <1>4, <1>7 DEF ProviderInv

LEMMA AskOK ==
  ASSUME ProviderInv, NEW r \in Requests, NEW model \in Models,
         NEW groups \in UserGroups, Ask(r, model, groups)
  PROVE  ProviderInv'
<1>. DEFINE q == [NewRequest EXCEPT !.at = "resolve", !.model = model,
                                    !.groups = groups]
<1>1. groups \in SUBSET Groups
  BY GroupsAssumption
<1>2. /\ q \in RequestStates /\ q.at = "resolve" /\ q.model = model
      /\ q.sends = [k \in Keys |-> 0] /\ q.excluded = {} /\ q.quiet = FALSE
  BY <1>1 DEF NewRequest, RequestStates, RequestPlaces
<1>3. Proceed(r, q) /\ UNCHANGED <<storeVars, call, historyVars>>
  BY DEF Ask
<1>. HIDE DEF q
<1>4. RequestOK(q)
  BY <1>2 DEF RequestOK
<1>. QED
  BY <1>2, <1>3, <1>4, RequestStep

LEMMA ResolveProviderOK ==
  ASSUME ProviderInv, NEW r \in Requests, ResolveProvider(r)
  PROVE  ProviderInv'
<1>. DEFINE p == ProviderFor(request[r].model)
            place == IF p = None THEN "done" ELSE "keys"
            q == [request[r] EXCEPT !.provider = p, !.at = place]
<1>1. Proceed(r, q) /\ UNCHANGED <<storeVars, call, historyVars>>
      /\ request[r].at = "resolve"
  BY DEF ResolveProvider
<1>2. p \in Providers \cup {None}
  BY ProviderForOK
<1>3. request[r] \in RequestStates /\ RequestOK(request[r])
      /\ (request[r].quiet => \A t \in Calls : ~Running(t))
  BY DEF ProviderInv, RequestsInv
<1>. HIDE DEF p
<1>4. /\ q \in RequestStates /\ q.at = place /\ q.provider = p
      /\ q.model = request[r].model /\ q.sends = request[r].sends
      /\ q.excluded = request[r].excluded /\ q.quiet = request[r].quiet
  BY <1>2, <1>3 DEF RequestStates, RequestPlaces
<1>. HIDE DEF q
<1>5. RequestOK(q)
  BY <1>2, <1>3, <1>4 DEF RequestOK
<1>6. Exact(q, key, access)
  BY <1>4 DEF Exact
<1>. QED
  BY <1>1, <1>3, <1>4, <1>5, <1>6, RequestStep

LEMMA SelectKeysOK ==
  ASSUME ProviderInv, NEW r \in Requests, SelectKeys(r)
  PROVE  ProviderInv'
<1>. DEFINE old == request[r]
            calm == \A t \in Calls : ~Running(t)
            found == {<<k, key[k].priority>> : k \in Usable(old.provider) \ old.excluded}
            place == IF found = {} THEN "exhausted" ELSE "access"
            q == LookAt([old EXCEPT !.quiet = calm], found)
<1>1. Proceed(r, q) /\ UNCHANGED <<storeVars, call, historyVars>> /\ old.at = "keys"
  BY DEF SelectKeys
<1>2. old \in RequestStates /\ RequestOK(old)
  BY AskedOK
<1>3. Usable(old.provider) = UsableIn(key, old.provider)
  BY DEF Usable, KeysOf, UsableIn
<1>4. \A f \in found : /\ f[1] \in UsableIn(key, old.provider) \ old.excluded
                       /\ f[2] = key[f[1]].priority /\ f = <<f[1], f[2]>>
  BY <1>3
<1>5. \A k \in UsableIn(key, old.provider) \ old.excluded :
        <<k, key[k].priority>> \in found
  BY <1>3
<1>6. \A k \in UsableIn(key, old.provider) : k \in Keys /\ key[k].priority \in Priorities
  BY DEF UsableIn, ProviderInv, RowsInv, KeyRows
<1>7. found \in SUBSET (Keys \X Priorities)
  BY <1>4, <1>6
<1>. HIDE DEF found
<1>8. /\ q \in RequestStates /\ q.at = place /\ q.found = found
      /\ q.provider = old.provider /\ q.groups = old.groups /\ q.sends = old.sends
      /\ q.excluded = old.excluded /\ q.quiet = calm
  BY <1>2, <1>7 DEF LookAt, RequestStates, RequestPlaces
<1>. HIDE DEF q, calm, old
<1>9. RequestOK(q)
  BY <1>1, <1>2, <1>4, <1>8 DEF RequestOK
<1>10. Exact(q, key, access)
  BY <1>4, <1>5, <1>8 DEF Exact, UntriedIn
<1>. QED
  BY <1>1, <1>8, <1>9, <1>10, RequestStep DEF calm

LEMMA MayUseAdmits ==
  ASSUME NEW groups, NEW list
  PROVE  MayUse(groups, list) <=> Admits(list, groups)
BY DEF MayUse, Admits

\* The best key that was found is sent.
LEMMA SendOK ==
  ASSUME ProviderInv, NEW r \in Requests, request[r].at = "access",
         NEW f \in First(request[r].found), Send(r, f[1]),
         UNCHANGED <<storeVars, call, historyVars>>
  PROVE  ProviderInv'
<1>. DEFINE old == request[r]
            k == f[1]
            tried == old.excluded \cup {k}
            sends == [old.sends EXCEPT ![k] = old.sends[k] + 1]
            q == [old EXCEPT !.at = "sent", !.key = k, !.found = {},
                             !.excluded = tried, !.sends = sends]
<1>1. old \in RequestStates /\ RequestOK(old) /\ f \in old.found
      /\ \A e \in old.found : f[2] <= e[2]
  BY AskedOK DEF First
<1>2. k \in Keys /\ k \notin old.excluded
  BY <1>1, RequestFields DEF RequestOK
<1>3. Proceed(r, q)
  BY <1>1 DEF Send, RequestStates
<1>4. /\ sends \in [Keys -> Nat] /\ tried \subseteq Keys
      /\ \A l \in Keys : sends[l] = IF l \in tried THEN 1 ELSE 0
  BY <1>1, <1>2, RequestFields DEF RequestOK
<1>. HIDE DEF sends, tried, k
<1>5. /\ q \in RequestStates /\ q.at = "sent" /\ q.key = k /\ q.model = old.model
      /\ q.provider = old.provider /\ q.groups = old.groups /\ q.sends = sends
      /\ q.excluded = tried /\ q.quiet = old.quiet
  BY <1>1, <1>2, <1>4 DEF RequestStates, RequestPlaces
<1>. HIDE DEF q
<1>6. RequestOK(q) /\ old.excluded \subseteq tried
  BY <1>1, <1>2, <1>4, <1>5 DEF RequestOK, tried
<1>7. ASSUME old.quiet
      PROVE  (\A t \in Calls : ~Running(t)) /\ Exact(q, key, access)
  <2>1. (\A t \in Calls : ~Running(t)) /\ Exact(old, key, access)
    BY <1>7 DEF ProviderInv, RequestsInv
  <2>2. k \in UsableIn(key, q.provider) /\ f[2] = key[k].priority
    BY <1>1, <1>5, <2>1 DEF Exact, k
  <2>3. ASSUME NEW l \in UntriedIn(q, key, access)
        PROVE  key[k].priority <= key[l].priority
    <3>1. l \in UntriedIn(old, key, access)
      BY <1>5, <1>6 DEF UntriedIn
    <3>2. <<l, key[l].priority>> \in old.found
      BY <2>1, <3>1 DEF Exact
    <3>. QED
      BY <1>1, <2>2, <3>2
  <2>. QED
    BY <1>5, <2>1, <2>2, <2>3 DEF Exact
<1>. QED
  BY <1>3, <1>5, <1>6, <1>7, RequestStep

\* The best key that was found is not for this user.
LEMMA SkipOK ==
  ASSUME ProviderInv, NEW r \in Requests, request[r].at = "access",
         NEW f \in First(request[r].found),
         ~MayUse(request[r].groups, access[f[1]]),
         Proceed(r, LookAt(request[r], request[r].found \ {f})),
         UNCHANGED <<storeVars, call, historyVars>>
  PROVE  ProviderInv'
<1>. DEFINE old == request[r]
            found == old.found \ {f}
            place == IF found = {} THEN "exhausted" ELSE "access"
            q == LookAt(old, found)
<1>1. old \in RequestStates /\ RequestOK(old) /\ f \in old.found
      /\ old.provider \in Providers
  BY AskedOK DEF First, RequestOK
<1>2. found \in SUBSET (Keys \X Priorities) /\ found \subseteq old.found
  BY <1>1, RequestFields
<1>3. \A e \in old.found : e # f => e \in found
  OBVIOUS
<1>4. Proceed(r, q)
  OBVIOUS
<1>. HIDE DEF found
<1>5. /\ q \in RequestStates /\ q.at = place /\ q.found = found
      /\ q.model = old.model /\ q.provider = old.provider /\ q.groups = old.groups
      /\ q.sends = old.sends /\ q.excluded = old.excluded /\ q.quiet = old.quiet
  BY <1>1, <1>2 DEF LookAt, RequestStates, RequestPlaces
<1>. HIDE DEF q
<1>6. RequestOK(q)
  BY <1>1, <1>2, <1>5 DEF RequestOK
<1>7. ASSUME old.quiet
      PROVE  (\A t \in Calls : ~Running(t)) /\ Exact(q, key, access)
  <2>1. (\A t \in Calls : ~Running(t)) /\ Exact(old, key, access)
    BY <1>7 DEF ProviderInv, RequestsInv
  <2>2. \A e \in found : /\ e[1] \in UsableIn(key, q.provider)
                         /\ e[2] = key[e[1]].priority
    BY <1>2, <1>5, <2>1 DEF Exact
  <2>3. ASSUME NEW l \in UntriedIn(q, key, access)
        PROVE  <<l, key[l].priority>> \in found
    <3>1. l \in UntriedIn(old, key, access) /\ Admits(access[l], old.groups)
      BY <1>5 DEF UntriedIn
    <3>2. <<l, key[l].priority>> \in old.found
      BY <2>1, <3>1 DEF Exact
    <3>3. ~Admits(access[f[1]], old.groups)
      BY MayUseAdmits
    <3>4. l # f[1]
      BY <3>1, <3>3
    <3>5. <<l, key[l].priority>>[1] = l
      OBVIOUS
    <3>. QED
      BY <1>3, <3>2, <3>4, <3>5
  <2>. QED
    BY <1>5, <2>1, <2>2, <2>3 DEF Exact
<1>. QED
  BY <1>4, <1>5, <1>6, <1>7, RequestStep

LEMMA ReadAccessOK ==
  ASSUME ProviderInv, NEW r \in Requests, ReadAccess(r)
  PROVE  ProviderInv'
BY SendOK, SkipOK DEF ReadAccess

\* Another place of a request, at which nothing is known any more.
LEMMA RefusedOK ==
  ASSUME ProviderInv, NEW r \in Requests, NEW place \in {"keys", "done"},
         Proceed(r, [request[r] EXCEPT !.at = place]),
         place = "keys" => request[r].at = "sent",
         UNCHANGED <<storeVars, call, historyVars>>
  PROVE  ProviderInv'
<1>. DEFINE old == request[r]
            q == [old EXCEPT !.at = place]
<1>1. old \in RequestStates /\ RequestOK(old)
      /\ (old.quiet => \A t \in Calls : ~Running(t))
  BY DEF ProviderInv, RequestsInv
<1>2. /\ q \in RequestStates /\ q.at = place /\ q.provider = old.provider
      /\ q.sends = old.sends /\ q.excluded = old.excluded /\ q.quiet = old.quiet
  BY <1>1 DEF RequestStates, RequestPlaces
<1>3. Proceed(r, q)
  OBVIOUS
<1>. HIDE DEF q
<1>4. RequestOK(q)
  BY <1>1, <1>2 DEF RequestOK
<1>5. Exact(q, key, access)
  BY <1>2 DEF Exact
<1>. QED
  BY <1>1, <1>2, <1>3, <1>4, <1>5, RequestStep

LEMMA ServeOK ==
  ASSUME ProviderInv, NEW r \in Requests, Serve(r)
  PROVE  ProviderInv'
BY ResolveProviderOK, SelectKeysOK, ReadAccessOK, RefusedOK
DEF Serve, Refused, Finish

-----------------------------------------------------------------------------
(***************************************************************************)
(* The invariant holds, and what follows from it.                          *)
(***************************************************************************)
LEMMA InitOK == Init => ProviderInv
<1>. SUFFICES ASSUME Init PROVE ProviderInv
  OBVIOUS
<1>1. PICK p \in Providers : call = [t \in Calls |-> NewCall(p)]
  BY DEF Init
<1>2. RowsInv
  BY DEF Init, RowsInv, ListsAsSettled
<1>3. ASSUME NEW t \in Calls
      PROVE  CallOK(call[t]) /\ ~Running(t)
  <2>1. call[t] \in CallStates /\ call[t].at = "new"
    BY <1>1, NewCallFields
  <2>. QED
    BY <2>1 DEF CallOK, Running, KeyPlaces
<1>4. call \in [Calls -> CallStates]
  BY <1>1, NewCallFields
<1>5. /\ NewRequest \in RequestStates /\ NewRequest.at = "new"
      /\ NewRequest.sends = [k \in Keys |-> 0] /\ NewRequest.excluded = {}
      /\ NewRequest.quiet = FALSE
  BY DEF NewRequest, RequestStates, RequestPlaces
<1>6. RequestOK(NewRequest)
  BY <1>5 DEF RequestOK
<1>7. RequestsInv
  BY <1>5, <1>6 DEF Init, RequestsInv
<1>. QED
  BY <1>2, <1>3, <1>4, <1>7 DEF ProviderInv, CallsInv

LEMMA NextOK == ProviderInv /\ [Next]_vars => ProviderInv'
<1>. SUFFICES ASSUME ProviderInv, [Next]_vars PROVE ProviderInv'
  OBVIOUS
<1>1. CASE UNCHANGED vars
  BY <1>1 DEF vars, ProviderInv, RowsInv, CallsInv, RequestsInv, ListsAsSettled, Running
<1>2. CASE Next
  BY <1>2, BeginOK, HandleOK, AskOK, ServeOK DEF Next
<1>. QED
  BY <1>1, <1>2

(***************************************************************************)
(* The invariant that the rest follows from: the rows and what the last    *)
(* lone call settled, what a call that runs alone knows at each of its     *)
(* statements, and what a request knows of the keys it found, as long as   *)
(* no call has run since (provider.rs, resolve_key).                       *)
(***************************************************************************)
THEOREM ProviderInvariant == Spec => []ProviderInv
<1>. QED
  BY InitOK, NextOK, PTL DEF Spec

(***************************************************************************)
(* Rows, calls and requests keep their shape; no key is left without its   *)
(* provider, and no access list without its key (the foreign keys of the   *)
(* tables, under any calls and requests that run concurrently).            *)
(***************************************************************************)
THEOREM TypeCorrect == Spec => []TypeOK
<1>1. ProviderInv => TypeOK
  BY DEF ProviderInv, RowsInv, CallsInv, RequestsInv, TypeOK
<1>. QED
  BY <1>1, ProviderInvariant, PTL

(***************************************************************************)
(* A call that ran alone leaves what it asked for: exactly its own default *)
(* (upsert_provider, set_default_provider) and exactly its own access list *)
(* (add_key and update_key with replace_access), whatever the database,    *)
(* earlier races and failures had left behind.                             *)
(***************************************************************************)
THEOREM LoneCallsSettled == Spec => []LoneCallsSettle
<1>1. ProviderInv => OneDefault
  <2>. SUFFICES ASSUME ProviderInv, NEW t \in Calls, call[t].at = "audit",
                       SetsDefault(call[t]), call[t].alone
                PROVE  Defaults = {call[t].provider}
    BY DEF OneDefault
  <2>1. Lone(call[t], provider, key, access)
    BY DEF ProviderInv, CallsInv, Running
  <2>. QED
    BY <2>1 DEF Lone, Defaults, DefaultsIn
<1>2. ProviderInv => ListsAsSettled
  BY DEF ProviderInv, RowsInv
<1>3. ProviderInv => LoneCallsSettle
  BY <1>1, <1>2 DEF LoneCallsSettle
<1>. QED
  BY <1>3, ProviderInvariant, PTL

(***************************************************************************)
(* No request sends a key twice, however administrators change the keys    *)
(* between its attempts; and while no administrator interferes, the key    *)
(* that is sent is one of the best that are left, and a request gives up   *)
(* only when none is left (forward_request with resolve_key).              *)
(***************************************************************************)
THEOREM FallbackExact == Spec => []FallbackIsExact
<1>1. ProviderInv => NoKeyTwice
  <2>. SUFFICES ASSUME ProviderInv, NEW r \in Requests, NEW k \in Keys
                PROVE  request[r].sends[k] <= 1
    BY DEF NoKeyTwice
  <2>1. request[r].sends[k] = 1 \/ request[r].sends[k] = 0
    BY AskedOK DEF RequestOK
  <2>. QED
    BY <2>1
<1>2. ProviderInv => ExactFallback
  <2>. SUFFICES ASSUME ProviderInv, NEW r \in Requests, request[r].quiet
                PROVE  LET q == request[r] IN
                       /\ q.at = "exhausted" => Untried(q) = {}
                       /\ q.at = "sent" => \A k \in Untried(q) :
                            /\ q.key \in KeysOf(q.provider)
                            /\ key[q.key].priority <= key[k].priority
    BY Zenon DEF ExactFallback
  <2>. DEFINE q == request[r]
  <2>1. RequestOK(q) /\ Exact(q, key, access)
    BY AskedOK
  <2>2. Usable(q.provider) = UsableIn(key, q.provider)
    BY DEF Usable, KeysOf, UsableIn
  <2>3. \A k \in Untried(q) : k \in UntriedIn(q, key, access)
    BY <2>1, <2>2 DEF Untried, UntriedIn, UsableIn, RequestOK
  <2>4. UsableIn(key, q.provider) \subseteq KeysOf(q.provider)
    BY DEF UsableIn, KeysOf
  <2>. QED
    BY <2>1, <2>3, <2>4 DEF Exact
<1>3. ProviderInv => FallbackIsExact
  BY <1>1, <1>2 DEF FallbackIsExact
<1>. QED
  BY <1>3, ProviderInvariant, PTL

(***************************************************************************)
(* A request uses a key only if the settled access list of the key admits  *)
(* one of its groups, unless that list is just being replaced or the key   *)
(* is gone (resolve_key, which reads the list after the key).              *)
(***************************************************************************)
THEOREM OnlySettledKeysUsed == Spec => UsesOnlySettledKeys
<1>. DEFINE Step == \A r \in Requests :
              request'[r].at = "sent" /\ request[r].at = "access"
                => LET k == request'[r].key IN
                   \/ key[k] = None
                   \/ settled[k] = None
                   \/ Admits(settled[k], request[r].groups)
<1>1. ProviderInv /\ [Next]_vars => [Step]_vars
  <2>. SUFFICES ASSUME ProviderInv, Next, NEW r \in Requests,
                       request'[r].at = "sent", request[r].at = "access",
                       key[request'[r].key] # None, settled[request'[r].key] # None
                PROVE  Admits(settled[request'[r].key], request[r].groups)
    OBVIOUS
  <2>. DEFINE old == request[r]
  <2>1. request \in [Requests -> RequestStates] /\ old \in RequestStates
    BY AskedOK
  <2>2. ASSUME NEW f \in First(old.found), MayUse(old.groups, access[f[1]]), Send(r, f[1])
        PROVE  Admits(settled[request'[r].key], old.groups)
    <3>1. f[1] \in Keys
      BY <2>1, RequestFields DEF First
    <3>2. request'[r].key = f[1]
      <4>. DEFINE k == f[1]
                  tried == old.excluded \cup {k}
                  sends == [old.sends EXCEPT ![k] = old.sends[k] + 1]
                  q == [old EXCEPT !.at = "sent", !.key = k, !.found = {},
                                   !.excluded = tried, !.sends = sends]
      <4>1. request' = [request EXCEPT ![r] = q]
        BY <2>1, <2>2 DEF Send, Proceed, RequestStates
      <4>. HIDE DEF k, tried, sends
      <4>2. q.key = k
        BY <2>1 DEF RequestStates
      <4>3. request'[r] = q
        BY <2>1, <4>1
      <4>. QED
        BY <4>2, <4>3 DEF k
    <3>3. access[f[1]] = settled[f[1]]
      BY <3>1, <3>2 DEF ProviderInv, RowsInv, ListsAsSettled
    <3>. QED
      BY <2>2, <3>2, <3>3, MayUseAdmits
  <2>3. ASSUME NEW t \in Calls, NEW c, Start(t, c)
        PROVE  FALSE
    <3>1. request'[r] = [old EXCEPT !.quiet = FALSE]
      BY <2>3 DEF Start
    <3>2. request'[r].at = old.at
      BY <2>1, <3>1 DEF RequestStates
    <3>. QED
      BY <3>2
  <2>4. ASSUME request' = request
        PROVE  FALSE
    BY <2>4
  <2>5. ASSUME NEW s \in Requests, NEW q, Proceed(s, q), q.at # "sent" \/ s # r
        PROVE  FALSE
    BY <2>1, <2>5 DEF Proceed
  <2>6. ASSUME NEW t \in Calls, Begin(t)
        PROVE  FALSE
    BY <2>3, <2>6 DEF Begin, UpsertProvider, SetDefault, DeleteProvider, AddKey,
       UpdateKey, DeleteKey
  <2>7. ASSUME NEW t \in Calls, Handle(t) \/ Abort(t)
        PROVE  FALSE
    BY <2>4, <2>7 DEF Handle, Abort, GetProvider, InsertProvider, UpdateProvider,
       GetForDefault, FindOthers, Clear, Mark, ExecDeleteProvider, ExecDeleteKey,
       GetForAdd, InsertKey, LoadKey, FindKey, WriteKey, Wipe, Grant, Audit
  <2>8. ASSUME NEW s \in Requests, NEW model, NEW groups, Ask(s, model, groups)
        PROVE  FALSE
    <3>1. s # r
      BY <2>8 DEF Ask
    <3>. QED
      BY <2>5, <2>8, <3>1 DEF Ask
  <2>9. ASSUME NEW s \in Requests, s # r, Serve(s)
        PROVE  FALSE
    BY <2>5, <2>9 DEF Serve, ResolveProvider, SelectKeys, ReadAccess, Send, Refused, Finish
  <2>10. ASSUME Serve(r)
         PROVE  Admits(settled[request'[r].key], old.groups)
    <3>1. ~(ResolveProvider(r) \/ SelectKeys(r) \/ Refused(r))
      BY DEF ResolveProvider, SelectKeys, Refused
    <3>2. ~Finish(r)
      BY <2>1 DEF Finish, Proceed, RequestStates
    <3>3. ASSUME NEW found, Proceed(r, LookAt(old, found))
          PROVE  FALSE
      BY <2>1, <3>3 DEF Proceed, LookAt, RequestStates
    <3>. QED
      BY <2>2, <2>10, <3>1, <3>2, <3>3 DEF Serve, ReadAccess
  <2>. QED
    BY <2>6, <2>7, <2>8, <2>9, <2>10 DEF Next
<1>2. UsesOnlySettledKeys <=> [][Step]_vars
  BY DEF UsesOnlySettledKeys
<1>. HIDE DEF Step
<1>. QED
  BY <1>1, <1>2, ProviderInvariant, PTL DEF Spec
=============================================================================
