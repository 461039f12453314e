--------------------------- MODULE ProviderStore ---------------------------
(***************************************************************************)
(* Providers, their API keys and the groups that may use a key             *)
(* (provider.rs), the calls of the admin API that change them (admin.rs)   *)
(* and the loop of forward_request that picks a provider and tries its     *)
(* keys (proxy/forward.rs).                                                *)
(*                                                                         *)
(* Every SQL statement is an action, together with the code up to the next *)
(* await.  A slot of Calls or Requests is used once: a behaviour starts    *)
(* from any database that calls may have left behind, and then any calls   *)
(* and requests run concurrently.                                          *)
(*                                                                         *)
(* Abstracted: names, URLs and secrets; the time order of keys of the same *)
(* priority, which is any; a first SELECT of a handler that can only       *)
(* answer 404, which Abort covers.                                         *)
(***************************************************************************)
EXTENDS Integers, FiniteSets

CONSTANTS
  Providers,   \* numbered in the order of list_providers, which sorts by id
  Keys,        \* identifiers of provider keys, never used twice
  Groups,
  Models,      \* models asked for; no model is one that no provider lists
  Priorities,
  ProviderInputs,  \* rows that administrators write
  Lists,           \* access lists that they ask for
  UserGroups,      \* the groups of users
  Calls,       \* calls of administrators
  Requests,    \* requests of users
  None,
  MaxActors    \* bound on the calls and requests of a behaviour

ASSUME OrderedAssumption == Providers \subseteq Nat /\ Priorities \subseteq Int
ASSUME GroupsAssumption == Lists \cup UserGroups \subseteq SUBSET Groups
ASSUME NoneAssumption ==
  /\ None \notin Providers \cup Keys \cup Priorities
  /\ \A list \in (SUBSET Models) \cup (SUBSET Groups) : None # list
ASSUME MaxActorsAssumption == MaxActors \in Nat

VARIABLES
  provider,    \* provider -> its row, or None
  key,         \* key -> its row, or None
  access,      \* key -> groups in provider_key_access; none: unrestricted
  call,        \* the calls of administrators
  request,     \* the requests of users
  \* History: no guard of an action reads the variables below.
  added,       \* keys that were ever inserted
  settled,     \* key -> the list its last call asked for, if undisturbed
  granted      \* key -> the lists that were ever asked for

storeVars == <<provider, key, access>>
historyVars == <<added, settled, granted>>
vars == <<provider, key, access, call, request, added, settled, granted>>

ProviderRows ==
  [enabled : BOOLEAN, isDefault : BOOLEAN, models : {None} \cup SUBSET Models]
KeyRows == [provider : Providers, enabled : BOOLEAN, priority : Priorities]

ASSUME InputsAssumption ==
  /\ ProviderInputs \subseteq ProviderRows
  /\ None \notin ProviderRows \cup KeyRows

-----------------------------------------------------------------------------
(***************************************************************************)
(* Calls of administrators.  "todo" holds the defaults that are still to   *)
(* be cleared, "grants" the groups that are still to be inserted.          *)
(* "alone" is history: no other call ran while this one did.               *)
(***************************************************************************)
CallPlaces == {"new", "get", "insert", "update", "others", "clear", "mark",
               "delete", "addKey", "load", "findKey", "updateKey",
               "deleteKey", "wipe", "grant", "audit", "done"}

CallStates ==
  [at : CallPlaces, op : {"upsert", "setDefault", "delete", "addKey",
                          "updateKey", "deleteKey"},
   provider : Providers, row : ProviderRows \cup {None}, todo : SUBSET Providers,
   key : Keys \cup {None}, priority : Priorities \cup {None}, enabled : BOOLEAN,
   list : SUBSET Groups, grants : SUBSET Groups, alone : BOOLEAN]

NewCall(p) ==
  [at |-> "new", op |-> "upsert", provider |-> p, row |-> None, todo |-> {},
   key |-> None, priority |-> None, enabled |-> TRUE,
   list |-> {}, grants |-> {}, alone |-> TRUE]

Running(t) == call[t].at \notin {"new", "done"}

\* The call t goes on as c.
Continue(t, c) == call' = [call EXCEPT ![t] = c]
MoveTo(t, place) == Continue(t, [call[t] EXCEPT !.at = place])

\* A call begins: from here on no call in progress is alone any more.
Start(t, c) ==
  /\ call[t].at = "new"
  /\ call' = [u \in Calls |->
       IF u = t THEN [c EXCEPT !.alone = \A v \in Calls : ~Running(v)]
       ELSE IF Running(u) THEN [call[u] EXCEPT !.alone = FALSE]
       ELSE call[u]]
  /\ request' = [r \in Requests |-> [request[r] EXCEPT !.quiet = FALSE]]
  /\ UNCHANGED <<storeVars, historyVars>>

-----------------------------------------------------------------------------
(***************************************************************************)
(* create_provider and update_provider: upsert_provider.                   *)
(***************************************************************************)
UpsertProvider(t, p, row) ==
  Start(t, [NewCall(p) EXCEPT !.at = "get", !.op = "upsert", !.row = row])

\* get_provider decides between UPDATE and INSERT.
GetProvider(t) ==
  LET c == call[t] IN
  /\ c.at = "get"
  /\ c.op = "upsert"
  /\ MoveTo(t, IF provider[c.provider] = None THEN "insert" ELSE "update")
  /\ UNCHANGED <<storeVars, request, historyVars>>

AfterWrite(c) == IF c.row.isDefault THEN "others" ELSE "audit"

WriteProvider(t) ==
  LET c == call[t] IN
  /\ provider' = [provider EXCEPT ![c.provider] = c.row]
  /\ MoveTo(t, AfterWrite(c))

\* The INSERT fails if another call has created the provider meanwhile.
InsertProvider(t) ==
  /\ call[t].at = "insert"
  /\ \/ provider[call[t].provider] = None /\ WriteProvider(t)
     \/ /\ provider[call[t].provider] # None
        /\ MoveTo(t, "done")
        /\ UNCHANGED provider
  /\ UNCHANGED <<key, access, request, historyVars>>

\* The UPDATE fails if another call has deleted the provider meanwhile.
UpdateProvider(t) ==
  /\ call[t].at = "update"
  /\ \/ provider[call[t].provider] # None /\ WriteProvider(t)
     \/ /\ provider[call[t].provider] = None
        /\ MoveTo(t, "done")
        /\ UNCHANGED provider
  /\ UNCHANGED <<key, access, request, historyVars>>

-----------------------------------------------------------------------------
(***************************************************************************)
(* set_default_provider, and clear_other_defaults of both operations.      *)
(***************************************************************************)
SetDefault(t, p) ==
  Start(t, [NewCall(p) EXCEPT !.at = "get", !.op = "setDefault"])

GetForDefault(t) ==
  LET row == provider[call[t].provider] IN
  /\ call[t].at = "get"
  /\ call[t].op = "setDefault"
  /\ MoveTo(t, IF row # None /\ row.enabled THEN "others" ELSE "done")
  /\ UNCHANGED <<storeVars, request, historyVars>>

AfterClear(c) == IF c.op = "setDefault" THEN "mark" ELSE "audit"

Defaults == {p \in Providers : provider[p] # None /\ provider[p].isDefault}

\* Deliberately wrong: the new default is found, too.
FindAll(t) ==
  LET c == call[t] IN
  /\ c.at = "others"
  /\ Continue(t, [c EXCEPT !.todo = Defaults,
                    !.at = IF Defaults = {} THEN AfterClear(c) ELSE "clear"])
  /\ UNCHANGED <<storeVars, request, historyVars>>

\* The SELECT of clear_other_defaults.
FindOthers(t) ==
  LET c == call[t]
      others == Defaults \ {c.provider} IN
  /\ c.at = "others"
  /\ Continue(t, [c EXCEPT !.todo = others,
                    !.at = IF others = {} THEN AfterClear(c) ELSE "clear"])
  /\ UNCHANGED <<storeVars, request, historyVars>>

\* One UPDATE per default that was found; it fails if that one has vanished.
Clear(t) ==
  LET c == call[t] IN
  /\ c.at = "clear"
  /\ \E p \in c.todo :
       \/ /\ provider[p] # None
          /\ provider' = [provider EXCEPT ![p].isDefault = FALSE]
          /\ Continue(t, [c EXCEPT !.todo = @ \ {p},
                            !.at = IF c.todo = {p} THEN AfterClear(c) ELSE "clear"])
       \/ provider[p] = None /\ MoveTo(t, "done") /\ UNCHANGED provider
  /\ UNCHANGED <<key, access, request, historyVars>>

\* The UPDATE that marks the new default.
Mark(t) ==
  LET p == call[t].provider IN
  /\ call[t].at = "mark"
  /\ \/ /\ provider[p] # None
        /\ provider' = [provider EXCEPT ![p].isDefault = TRUE]
        /\ MoveTo(t, "audit")
     \/ provider[p] = None /\ MoveTo(t, "done") /\ UNCHANGED provider
  /\ UNCHANGED <<key, access, request, historyVars>>

-----------------------------------------------------------------------------
(***************************************************************************)
(* delete_provider and delete_key.  Foreign keys delete the keys of a      *)
(* provider and the access list of a key in the same statement.            *)
(***************************************************************************)
KeysOf(p) == {k \in Keys : key[k] # None /\ key[k].provider = p}

\* Deliberately wrong: the access lists of the keys stay behind.
DropKeysAlone(gone) ==
  /\ key' = [k \in Keys |-> IF k \in gone THEN None ELSE key[k]]
  /\ UNCHANGED access

DropKeys(gone) ==
  /\ key' = [k \in Keys |-> IF k \in gone THEN None ELSE key[k]]
  /\ access' = [k \in Keys |-> IF k \in gone THEN {} ELSE access[k]]

DeleteProvider(t, p) == Start(t, [NewCall(p) EXCEPT !.at = "delete", !.op = "delete"])

ExecDeleteProvider(t) ==
  LET p == call[t].provider IN
  /\ call[t].at = "delete"
  /\ MoveTo(t, IF provider[p] = None THEN "done" ELSE "audit")
  /\ provider' = [provider EXCEPT ![p] = None]
  /\ DropKeys(KeysOf(p))
  /\ UNCHANGED <<request, historyVars>>

DeleteKey(t, p, k) ==
  Start(t, [NewCall(p) EXCEPT !.at = "deleteKey", !.op = "deleteKey", !.key = k])

\* DELETE by the key and the provider of the URL.
ExecDeleteKey(t) ==
  LET c == call[t]
      gone == {c.key} \cap KeysOf(c.provider) IN
  /\ c.at = "deleteKey"
  /\ MoveTo(t, IF gone = {} THEN "done" ELSE "audit")
  /\ DropKeys(gone)
  /\ UNCHANGED <<provider, request, historyVars>>

-----------------------------------------------------------------------------
(***************************************************************************)
(* add_key and update_key, which both end in replace_access.               *)
(***************************************************************************)
AddKey(t, p, priority, list) ==
  Start(t, [NewCall(p) EXCEPT !.at = "get", !.op = "addKey",
                              !.priority = priority, !.list = list])

GetForAdd(t) ==
  /\ call[t].at = "get"
  /\ call[t].op = "addKey"
  /\ MoveTo(t, IF provider[call[t].provider] = None THEN "done" ELSE "addKey")
  /\ UNCHANGED <<storeVars, request, historyVars>>

\* The row comes first, enabled and with no access list: unrestricted.
InsertKey(t) ==
  LET c == call[t] IN
  /\ c.at = "addKey"
  /\ \/ /\ provider[c.provider] # None
        /\ \E k \in Keys \ added :
             /\ key' = [key EXCEPT ![k] = [provider |-> c.provider,
                          enabled |-> TRUE, priority |-> c.priority]]
             /\ added' = added \cup {k}
             /\ settled' = [settled EXCEPT ![k] = None]
             /\ granted' = [granted EXCEPT ![k] = {c.list}]
             /\ Continue(t, [c EXCEPT !.at = "load", !.key = k])
     \/ /\ provider[c.provider] = None
        /\ MoveTo(t, "done")
        /\ UNCHANGED <<key, historyVars>>
  /\ UNCHANGED <<provider, access, request>>

LoadKey(t) ==
  /\ call[t].at = "load"
  /\ MoveTo(t, IF key[call[t].key] = None THEN "done" ELSE "wipe")
  /\ UNCHANGED <<storeVars, request, historyVars>>

UpdateKey(t, p, k, enabled, priority, list) ==
  Start(t, [NewCall(p) EXCEPT !.at = "findKey", !.op = "updateKey", !.key = k,
              !.enabled = enabled, !.priority = priority, !.list = list])

FindKey(t) ==
  LET c == call[t] IN
  /\ c.at = "findKey"
  /\ MoveTo(t, IF c.key \in KeysOf(c.provider) THEN "updateKey" ELSE "done")
  /\ UNCHANGED <<storeVars, request, historyVars>>

WriteKey(t) ==
  LET c == call[t] IN
  /\ c.at = "updateKey"
  /\ \/ /\ key[c.key] # None
        /\ key' = [key EXCEPT ![c.key].enabled = c.enabled,
                              ![c.key].priority = c.priority]
        /\ MoveTo(t, "wipe")
     \/ key[c.key] = None /\ MoveTo(t, "done") /\ UNCHANGED key
  /\ UNCHANGED <<provider, access, request, historyVars>>

\* After the last group the list is settled, unless another call interfered.
Granted(t, c) ==
  /\ Continue(t, c)
  /\ settled' = IF c.grants = {} /\ c.alone /\ key[c.key] # None
                  THEN [settled EXCEPT ![c.key] = c.list]
                  ELSE [settled EXCEPT ![c.key] = None]

\* Deliberately wrong: the groups are added to those of the old list.
WipeNothing(t) ==
  LET c == call[t] IN
  /\ c.at = "wipe"
  /\ granted' = [granted EXCEPT ![c.key] = @ \cup {c.list}]
  /\ Granted(t, [c EXCEPT !.grants = c.list,
                          !.at = IF c.list = {} THEN "audit" ELSE "grant"])
  /\ UNCHANGED <<storeVars, request, added>>

\* replace_access: first the whole list is deleted ...
Wipe(t) ==
  LET c == call[t] IN
  /\ c.at = "wipe"
  /\ access' = [access EXCEPT ![c.key] = {}]
  /\ granted' = [granted EXCEPT ![c.key] = @ \cup {c.list}]
  /\ Granted(t, [c EXCEPT !.grants = c.list,
                          !.at = IF c.list = {} THEN "audit" ELSE "grant"])
  /\ UNCHANGED <<provider, key, request, added>>

\* ... then the groups are inserted one by one.  An INSERT fails if the key
\* has vanished or if another call has inserted that group.
Grant(t) ==
  LET c == call[t] IN
  /\ c.at = "grant"
  /\ \E g \in c.grants :
       \/ /\ key[c.key] # None
          /\ g \notin access[c.key]
          /\ access' = [access EXCEPT ![c.key] = @ \cup {g}]
          /\ Granted(t, [c EXCEPT !.grants = @ \ {g},
                           !.at = IF c.grants = {g} THEN "audit" ELSE "grant"])
       \/ /\ key[c.key] = None \/ g \in access[c.key]
          /\ MoveTo(t, "done")
          /\ UNCHANGED <<access, settled>>
  /\ UNCHANGED <<provider, key, request, added, granted>>

-----------------------------------------------------------------------------
\* record_admin_audit, whose failure is only logged; then the answer.
Audit(t) ==
  /\ call[t].at = "audit"
  /\ MoveTo(t, "done")
  /\ UNCHANGED <<storeVars, request, historyVars>>

\* A statement fails and its error is answered, or the administrator goes
\* away and the handler's future is dropped.
Abort(t) ==
  /\ Running(t)
  /\ MoveTo(t, "done")
  /\ UNCHANGED <<storeVars, request, historyVars>>

-----------------------------------------------------------------------------
(***************************************************************************)
(* A request: forward_request with resolve_provider_for_model and          *)
(* resolve_key.  "found" holds the keys, with their priorities, that       *)
(* resolve_key still has to look at, "excluded" those that were tried.     *)
(* History: "sends" counts how often each key was sent, and "quiet" says   *)
(* that no call has run since the last SELECT of keys.                     *)
(***************************************************************************)
RequestPlaces == {"new", "resolve", "keys", "access", "sent", "exhausted", "done"}

RequestStates ==
  [at : RequestPlaces, model : {None} \cup Models, groups : SUBSET Groups,
   provider : Providers \cup {None}, found : SUBSET (Keys \X Priorities),
   excluded : SUBSET Keys, key : Keys \cup {None}, sends : [Keys -> Nat],
   quiet : BOOLEAN]

NewRequest ==
  [at |-> "new", model |-> None, groups |-> {}, provider |-> None, found |-> {},
   excluded |-> {}, key |-> None, sends |-> [k \in Keys |-> 0], quiet |-> FALSE]

Proceed(r, q) == request' = [request EXCEPT ![r] = q]

Ask(r, model, groups) ==
  /\ request[r].at = "new"
  /\ Proceed(r, [NewRequest EXCEPT !.at = "resolve", !.model = model,
                                   !.groups = groups])
  /\ UNCHANGED <<storeVars, call, historyVars>>

Least(S) == CHOOSE p \in S : \A q \in S : p <= q

\* resolve_provider_for_model over the rows of one SELECT: the first enabled
\* provider that lists the model, else the first enabled default.
ProviderFor(model) ==
  LET Enabled == {p \in Providers : provider[p] # None /\ provider[p].enabled}
      Listing == {p \in Enabled : /\ provider[p].models # None
                                  /\ model \in provider[p].models}
      Fallback == {p \in Enabled : provider[p].isDefault} IN
  IF Listing # {} THEN Least(Listing)
  ELSE IF Fallback # {} THEN Least(Fallback)
  ELSE None

ResolveProvider(r) ==
  LET p == ProviderFor(request[r].model) IN
  /\ request[r].at = "resolve"
  /\ Proceed(r, [request[r] EXCEPT !.provider = p,
                   !.at = IF p = None THEN "done" ELSE "keys"])
  /\ UNCHANGED <<storeVars, call, historyVars>>

\* resolve_key looks at the next key that was found, if there is one.
LookAt(q, found) ==
  [q EXCEPT !.found = found, !.at = IF found = {} THEN "exhausted" ELSE "access"]

Usable(p) == {k \in KeysOf(p) : key[k].enabled}

\* The SELECT of resolve_key; keys that were tried are skipped.
SelectKeys(r) ==
  LET q == request[r] IN
  /\ q.at = "keys"
  /\ Proceed(r, LookAt([q EXCEPT !.quiet = \A t \in Calls : ~Running(t)],
                {<<k, key[k].priority>> : k \in Usable(q.provider) \ q.excluded}))
  /\ UNCHANGED <<storeVars, call, historyVars>>

\* Deliberately wrong: the keys are not sorted.
FirstFound(found) == found

\* The keys that may come first in ORDER BY priority, created_at.
First(found) == {f \in found : \A e \in found : f[2] <= e[2]}

\* Deliberately wrong: the access list is not looked at.
MayUseAny(groups, list) == TRUE

\* An empty list means unrestricted.
MayUse(groups, list) == list = {} \/ list \cap groups # {}

\* Deliberately wrong: only the last key that was tried is excluded.
SendExcludingLast(r, k) ==
  Proceed(r, [request[r] EXCEPT !.at = "sent", !.key = k, !.found = {},
                                !.excluded = {k}, !.sends[k] = @ + 1])

\* The key is used: from now on this request excludes it.
Send(r, k) ==
  Proceed(r, [request[r] EXCEPT !.at = "sent", !.key = k, !.found = {},
                                !.excluded = @ \cup {k}, !.sends[k] = @ + 1])

\* key_access_groups of the next key, read after the SELECT of the keys.
ReadAccess(r) ==
  LET q == request[r] IN
  /\ q.at = "access"
  /\ \E f \in First(q.found) :
       \/ MayUse(q.groups, access[f[1]]) /\ Send(r, f[1])
       \/ /\ ~MayUse(q.groups, access[f[1]])
          /\ Proceed(r, LookAt(q, q.found \ {f}))
  /\ UNCHANGED <<storeVars, call, historyVars>>

\* The backend answers 401 or 429: on to the next key, if there is one.
Refused(r) ==
  /\ request[r].at = "sent"
  /\ Proceed(r, [request[r] EXCEPT !.at = "keys"])
  /\ UNCHANGED <<storeVars, call, historyVars>>

\* Any other answer; or a failure, or a client that goes away, at any point.
Finish(r) ==
  /\ request[r].at \notin {"new", "exhausted", "done"}
  /\ Proceed(r, [request[r] EXCEPT !.at = "done"])
  /\ UNCHANGED <<storeVars, call, historyVars>>

-----------------------------------------------------------------------------
TypeOK ==
  /\ provider \in [Providers -> ProviderRows \cup {None}]
  /\ key \in [Keys -> KeyRows \cup {None}]
  /\ access \in [Keys -> SUBSET Groups]
  /\ call \in [Calls -> CallStates]
  /\ request \in [Requests -> RequestStates]
  /\ added \in SUBSET Keys
  /\ settled \in [Keys -> {None} \cup SUBSET Groups]
  /\ granted \in [Keys -> SUBSET SUBSET Groups]
  \* The foreign keys of the tables.
  /\ \A k \in Keys : IF key[k] = None THEN access[k] = {}
                     ELSE provider[key[k].provider] # None

\* Any database that complete calls may have left behind.
Init ==
  /\ provider \in [Providers -> ProviderRows \cup {None}]
  /\ key \in [Keys -> KeyRows \cup {None}]
  /\ \A k \in Keys : key[k] # None => provider[key[k].provider] # None
  /\ access \in [Keys -> SUBSET Groups]
  /\ \A k \in Keys : key[k] = None => access[k] = {}
  /\ \E p \in Providers : call = [t \in Calls |-> NewCall(p)]
  /\ request = [r \in Requests |-> NewRequest]
  /\ added = {k \in Keys : key[k] # None}
  /\ settled = [k \in Keys |-> IF key[k] = None THEN None ELSE access[k]]
  /\ granted = [k \in Keys |-> IF key[k] = None THEN {} ELSE {access[k]}]

Begin(t) ==
  \/ \E p \in Providers, row \in ProviderInputs : UpsertProvider(t, p, row)
  \/ \E p \in Providers : SetDefault(t, p) \/ DeleteProvider(t, p)
  \/ \E p \in Providers, priority \in Priorities, list \in Lists :
       AddKey(t, p, priority, list)
  \/ \E p \in Providers, k \in added, enabled \in BOOLEAN,
        priority \in Priorities, list \in Lists :
       UpdateKey(t, p, k, enabled, priority, list)
  \/ \E p \in Providers, k \in added : DeleteKey(t, p, k)

Handle(t) ==
  \/ GetProvider(t) \/ InsertProvider(t) \/ UpdateProvider(t)
  \/ GetForDefault(t) \/ FindOthers(t) \/ Clear(t) \/ Mark(t)
  \/ ExecDeleteProvider(t) \/ ExecDeleteKey(t)
  \/ GetForAdd(t) \/ InsertKey(t) \/ LoadKey(t)
  \/ FindKey(t) \/ WriteKey(t) \/ Wipe(t) \/ Grant(t)
  \/ Audit(t)

Serve(r) ==
  \/ ResolveProvider(r) \/ SelectKeys(r) \/ ReadAccess(r) \/ Refused(r)
  \/ Finish(r)

SpareActor ==
  Cardinality({t \in Calls : call[t].at # "new"}) +
    Cardinality({r \in Requests : request[r].at # "new"}) < MaxActors

Next ==
  \/ SpareActor /\ \E t \in Calls : Begin(t)
  \/ \E t \in Calls : Handle(t) \/ Abort(t)
  \/ SpareActor /\ \E r \in Requests, model \in Models, groups \in UserGroups :
       Ask(r, model, groups)
  \/ \E r \in Requests : Serve(r)

Spec == Init /\ [][Next]_vars

-----------------------------------------------------------------------------
(***************************************************************************)
(* A default that was acknowledged is the only one: whatever defaults      *)
(* earlier races and failures left behind, a call that sets a default and  *)
(* ran alone leaves exactly its own (set_default_provider and              *)
(* upsert_provider with clear_other_defaults).                             *)
(***************************************************************************)
SetsDefault(c) ==
  c.op = "setDefault" \/ (c.op = "upsert" /\ c.row.isDefault)

OneDefault ==
  \A t \in Calls :
    call[t].at = "audit" /\ SetsDefault(call[t]) /\ call[t].alone
      => Defaults = {call[t].provider}

(***************************************************************************)
(* A key whose last call ran alone has exactly the access list that call   *)
(* asked for, whatever list it had before and whatever happens to other    *)
(* keys (add_key and update_key with replace_access).                      *)
(***************************************************************************)
ListsAsSettled ==
  \A k \in Keys : key[k] # None /\ settled[k] # None => access[k] = settled[k]

(***************************************************************************)
(* A call that ran alone leaves what it asked for.                         *)
(***************************************************************************)
LoneCallsSettle == OneDefault /\ ListsAsSettled

(***************************************************************************)
(* A request uses a key only if the settled access list of the key admits  *)
(* one of its groups, unless the list is just being replaced (or was left  *)
(* half replaced) or the key has been deleted since it was found           *)
(* (resolve_key, which reads the list after the key).                      *)
(***************************************************************************)
Admits(list, groups) == list = {} \/ \E g \in groups : g \in list

UsesOnlySettledKeys ==
  [][\A r \in Requests :
       request'[r].at = "sent" /\ request[r].at = "access"
         => LET k == request'[r].key IN
            \/ key[k] = None
            \/ settled[k] = None
            \/ Admits(settled[k], request[r].groups)]_vars

(***************************************************************************)
(* No request sends a key twice, even if administrators reorder, disable,  *)
(* enable and add keys between its attempts (forward_request with          *)
(* excluded_key_ids); with finitely many keys its loop ends.               *)
(***************************************************************************)
NoKeyTwice == \A r \in Requests, k \in Keys : request[r].sends[k] <= 1

(***************************************************************************)
(* While no administrator interferes, the fallback is exact: the key that  *)
(* is sent is one of the best of those not yet tried, and a request gives  *)
(* up only when no key that its groups may use is left (resolve_key).      *)
(***************************************************************************)
Untried(q) ==
  {k \in Usable(q.provider) :
     q.sends[k] = 0 /\ Admits(access[k], q.groups)}

ExactFallback ==
  \A r \in Requests :
    LET q == request[r] IN
    q.quiet =>
      /\ q.at = "exhausted" => Untried(q) = {}
      /\ q.at = "sent" => \A k \in Untried(q) :
           q.key \in KeysOf(q.provider) /\ key[q.key].priority <= key[k].priority

(***************************************************************************)
(* The fallback from key to key is exact, and it ends.                     *)
(***************************************************************************)
FallbackIsExact == NoKeyTwice /\ ExactFallback

(***************************************************************************)
(* "An empty allowed_groups list permits any authenticated user; otherwise *)
(* at least one group must match" (admin-api.md): a request uses a key     *)
(* only if some list that was ever asked for the key admits it.  The code  *)
(* breaks it: the list is empty for a moment while it is replaced, and     *)
(* reads as empty when the key is deleted between the two SELECTs.         *)
(***************************************************************************)
OnlyGrantedKeys ==
  \A r \in Requests :
    request[r].at = "sent"
      => \E list \in granted[request[r].key] : Admits(list, request[r].groups)
=============================================================================
