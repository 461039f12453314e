--------------------------- MODULE RequestPipeline ---------------------------
(***************************************************************************)
(* The life of a /v1 request inside the central proxy: the middleware      *)
(* chain auth -> rate_limit -> permissions and the forward handler, run by *)
(* one task per request, many requests at a time, over shared database     *)
(* rows (tokens, devices, group policies, usage counters, audit log).      *)
(*                                                                         *)
(* Every await is a point where other requests, the administrators and the *)
(* clock may act, so each store operation is an action of its own and      *)
(* everything the code does up to the next await is part of that action.   *)
(*                                                                         *)
(* Abstracted: a policy is the RESULT of resolve_policy for the groups of  *)
(* a subject; a target stands for an (endpoint, model) pair; the rate      *)
(* limiter, the provider and key choice and the optimiser are              *)
(* nondeterministic here; time is counted in days, the unit of the quotas. *)
(***************************************************************************)
EXTENDS UsageTracker, Sequences

CONSTANTS
  Requests,   \* request slots; each is used for at most one request
  Tokens,     \* bearer tokens, all minted on day 0
  Devices,    \* device ids: the identity_id of a token, or its subject
  TokenOf,    \* the bearer token a request carries
  SubjectOf,  \* the subject of a token's row
  DeviceOf,   \* the device id of a token's row
  Targets,    \* (endpoint, model) pairs a request may ask for
  Policies,   \* effective policies the administrators may put in force
  NoLimit,    \* None in an optional field of a policy
  MaxSpend,   \* bound on total_tokens of one response, for model checking
  Events      \* what may happen around the requests, see EventsAssumption

ASSUME RequestsAssumption == IsFiniteSet(Requests)
ASSUME NoLimitAssumption == NoLimit \notin Int
ASSUME MaxSpendAssumption == MaxSpend \in Nat
\* A failing store call, a client that closes its connection, a restart of
\* the server, the end of a token, the revocation of a device.
ASSUME EventsAssumption == Events \subseteq {"db", "disconnect", "restart", "token", "device"}
ASSUME TokenAssumption ==
  /\ TokenOf \in [Requests -> Tokens]
  /\ SubjectOf \in [Tokens -> Subjects]
  /\ DeviceOf \in [Tokens -> Devices]
ASSUME PolicyAssumption ==
  \A p \in Policies : /\ p.requestQuota \in Int \cup {NoLimit}
                      /\ p.tokenQuota \in Int \cup {NoLimit}
                      /\ p.maxAge \in Int \cup {NoLimit}
                      /\ p.targets \subseteq Targets

Subject(r) == SubjectOf[TokenOf[r]]
Device(r) == DeviceOf[TokenOf[r]]

VARIABLES
  policy,       \* subject -> the policy resolve_policy would return now
  liveTokens,   \* tokens that still have a row in the tokens table
  deviceRows,   \* device id -> the state of its rows, oldest row first
  pc,           \* where the task of each request is
  target,       \* what the request asks for
  pol,          \* the policy the permissions middleware resolved for it
  allowed,      \* requests with PermissionDecision "allowed" attached
  streamed,     \* requests whose accounting runs in a spawned task
  spent,        \* total_tokens extracted from the response so far
  audit,        \* the audit row written for the request, if any
  reservedOn,   \* Never: request_reserved is false; else the day it was set
  \* History: no guard of an action reads the variables below.
  releasedOn,   \* the day its release took 1 off a row
  recordedOn,   \* the day its outcome was added to a row
  arrivedOn,    \* the day it arrived
  seenSpent,    \* the subject's token_count on arrival, Never if no row
  checkedOn,    \* the day its token quota was checked
  revoked,      \* device ids an administrator revoked and did not reinstate
  cleared       \* its device has not been revoked at some time since arrival

storeVars == <<policy, liveTokens, deviceRows>>
taskVars == <<target, pol, allowed, streamed, spent, audit>>
ledgerVars == <<reservedOn, releasedOn, recordedOn>>
arrivalVars == <<arrivedOn, seenSpent, checkedOn, revoked, cleared>>
vars == <<usageVars, storeVars, pc, taskVars, ledgerVars, arrivalVars>>

Never == -1
Moments == Days \cup {Never}

\* Control points, in the order the request passes them.
MiddlewareSteps == {"rateLimit", "policy", "stale", "device", "register",
                    "insert", "tokenQuota", "requestQuota", "deny"}
ForwardSteps == {"forward", "release", "stream", "audit", "count"}
Ended == {"rejected", "denied", "failed", "done", "aborted"}
Steps == {"new"} \cup MiddlewareSteps \cup ForwardSteps \cup Ended

NoPolicy == [requestQuota |-> NoLimit, tokenQuota |-> NoLimit,
             maxAge |-> NoLimit, targets |-> {}]

\* The revoked column of a device's row.
RowStates == {"active", "revoked"}

TypeOK ==
  /\ UsageTypeOK
  /\ policy \in [Subjects -> Policies]
  /\ liveTokens \in SUBSET Tokens
  /\ deviceRows \in [Devices -> Seq(RowStates)]
  /\ pc \in [Requests -> Steps]
  /\ target \in [Requests -> Targets]
  /\ pol \in [Requests -> Policies \cup {NoPolicy}]
  /\ allowed \in SUBSET Requests
  /\ streamed \in SUBSET Requests
  /\ spent \in [Requests -> 0 .. MaxSpend]
  /\ audit \in [Requests -> {"none", "denied", "allowed", "lost"}]
  /\ reservedOn \in [Requests -> Moments]
  /\ releasedOn \in [Requests -> Moments]
  /\ recordedOn \in [Requests -> Moments]
  /\ arrivedOn \in [Requests -> Moments]
  /\ seenSpent \in [Requests -> Nat \cup {Never}]
  /\ checkedOn \in [Requests -> Moments]
  /\ revoked \in SUBSET Devices
  /\ cleared \in SUBSET Requests

Init ==
  /\ UsageInit
  /\ policy \in [Subjects -> Policies]
  /\ liveTokens = Tokens
  /\ deviceRows = [v \in Devices |-> <<>>]
  /\ pc = [r \in Requests |-> "new"]
  /\ target \in [Requests -> Targets]
  /\ pol = [r \in Requests |-> NoPolicy]
  /\ allowed = {}
  /\ streamed = {}
  /\ spent = [r \in Requests |-> 0]
  /\ audit = [r \in Requests |-> "none"]
  /\ reservedOn = [r \in Requests |-> Never]
  /\ releasedOn = [r \in Requests |-> Never]
  /\ recordedOn = [r \in Requests |-> Never]
  /\ arrivedOn = [r \in Requests |-> Never]
  /\ seenSpent = [r \in Requests |-> Never]
  /\ checkedOn = [r \in Requests |-> Never]
  /\ revoked = {}
  /\ cleared = {}

Goto(r, from, to) ==
  /\ pc[r] = from
  /\ pc' = [pc EXCEPT ![r] = to]

-----------------------------------------------------------------------------
(***************************************************************************)
(* auth_middleware and rate_limit_middleware.  The token row is read once; *)
(* what happens to it later does not stop the request.  A live token may   *)
(* be refused too: its device binding is not modelled.                     *)
(***************************************************************************)
Arrive(r) ==
  /\ \/ TokenOf[r] \in liveTokens /\ Goto(r, "new", "rateLimit")
     \/ Goto(r, "new", "rejected")
  /\ arrivedOn' = [arrivedOn EXCEPT ![r] = today]
  /\ seenSpent' = [seenSpent EXCEPT ![r] =
       IF <<Subject(r), today>> \in rowExists
         THEN tokenCount[Subject(r)][today] ELSE Never]
  /\ cleared' = IF Device(r) \in revoked THEN cleared ELSE cleared \cup {r}
  /\ UNCHANGED <<usageVars, storeVars, taskVars, ledgerVars, checkedOn, revoked>>

RateLimit(r) ==
  /\ \/ Goto(r, "rateLimit", "policy")
     \/ Goto(r, "rateLimit", "rejected")
  /\ UNCHANGED <<usageVars, storeVars, taskVars, ledgerVars, arrivalVars>>

-----------------------------------------------------------------------------
(***************************************************************************)
(* permissions_middleware.                                                 *)
(***************************************************************************)
\* check_backstop: strictly older than the cap; tokens are minted on day 0.
BackstopExceeded(p) ==
  /\ p.maxAge # NoLimit
  /\ today > p.maxAge

ResolvePolicy(r) ==
  LET p == policy[Subject(r)] IN
  /\ IF BackstopExceeded(p) THEN Goto(r, "policy", "stale")
                            ELSE Goto(r, "policy", "device")
  /\ pol' = [pol EXCEPT ![r] = p]
  /\ UNCHANGED <<usageVars, storeVars, target, allowed, streamed, spent,
                 audit, ledgerVars, arrivalVars>>

\* revoke_by_token_id; its error is logged and the request denied anyway.
DeleteStaleToken(r) ==
  /\ Goto(r, "stale", "deny")
  /\ \/ liveTokens' = liveTokens \ {TokenOf[r]}
     \/ "db" \in Events /\ UNCHANGED liveTokens
  /\ UNCHANGED <<usageVars, policy, deviceRows, taskVars, ledgerVars,
                 arrivalVars>>

IsRevokedByNewestRow(v) ==
  /\ deviceRows[v] # <<>>
  /\ deviceRows[v][Len(deviceRows[v])] = "revoked"

\* is_revoked reads one row and names no order: the table has no index on
\* the fingerprint, so SQLite's scan returns the oldest row.  No row is None.
IsRevoked(v) ==
  /\ deviceRows[v] # <<>>
  /\ deviceRows[v][1] = "revoked"

CheckDevice(r) ==
  /\ IF IsRevoked(Device(r)) THEN Goto(r, "device", "deny")
                             ELSE Goto(r, "device", "register")
  /\ UNCHANGED <<usageVars, storeVars, taskVars, ledgerVars, arrivalVars>>

\* The endpoint and model checks, on the policy the task already holds.
AfterDevice(r) ==
  IF target[r] \in pol[r].targets THEN "tokenQuota" ELSE "deny"

\* upsert_device, the read.  A device that has a row gets a new last_seen_at;
\* an error of either statement is logged and ignored.
LookupDevice(r) ==
  /\ \/ deviceRows[Device(r)] = <<>> /\ Goto(r, "register", "insert")
     \/ /\ deviceRows[Device(r)] # <<>> \/ "db" \in Events
        /\ Goto(r, "register", AfterDevice(r))
  /\ UNCHANGED <<usageVars, storeVars, taskVars, ledgerVars, arrivalVars>>

\* upsert_device, the INSERT: another request may have inserted meanwhile,
\* and the table accepts a second row for the fingerprint.
InsertDevice(r) ==
  /\ Goto(r, "insert", AfterDevice(r))
  /\ \/ deviceRows' = [deviceRows EXCEPT ![Device(r)] = Append(@, "active")]
     \/ "db" \in Events /\ UNCHANGED deviceRows
  /\ UNCHANGED <<usageVars, policy, liveTokens, taskVars, ledgerVars,
                 arrivalVars>>

TokenQuotaSpent(r) ==
  /\ pol[r].tokenQuota # NoLimit
  /\ TokensSpent(Subject(r), pol[r].tokenQuota)

CheckTokenQuotaNever(r) ==
  /\ Goto(r, "tokenQuota", "requestQuota")
  /\ checkedOn' = [checkedOn EXCEPT ![r] = today]
  /\ UNCHANGED <<usageVars, storeVars, taskVars, ledgerVars, arrivedOn,
                 seenSpent, revoked, cleared>>

CheckTokenQuota(r) ==
  /\ IF TokenQuotaSpent(r) THEN Goto(r, "tokenQuota", "deny")
                           ELSE Goto(r, "tokenQuota", "requestQuota")
  /\ checkedOn' = [checkedOn EXCEPT ![r] = today]
  /\ UNCHANGED <<usageVars, storeVars, taskVars, ledgerVars, arrivedOn,
                 seenSpent, revoked, cleared>>

\* No request quota: the decision is attached with request_reserved = false.
AllowUnreserved(r) ==
  /\ pol[r].requestQuota = NoLimit
  /\ Goto(r, "requestQuota", "forward")
  /\ allowed' = allowed \cup {r}
  /\ UNCHANGED <<usageVars, storeVars, target, pol, streamed, spent, audit,
                 ledgerVars, arrivalVars>>

ReserveRequestUnmarked(r) ==
  /\ pol[r].requestQuota # NoLimit
  /\ HasRoom(Subject(r), pol[r].requestQuota)
  /\ Goto(r, "requestQuota", "forward")
  /\ ReserveOne(Subject(r))
  /\ allowed' = allowed \cup {r}
  /\ UNCHANGED <<storeVars, target, pol, streamed, spent, audit, ledgerVars,
                 arrivalVars>>

ReserveRequest(r) ==
  /\ pol[r].requestQuota # NoLimit
  /\ HasRoom(Subject(r), pol[r].requestQuota)
  /\ Goto(r, "requestQuota", "forward")
  /\ ReserveOne(Subject(r))
  /\ reservedOn' = [reservedOn EXCEPT ![r] = today]
  /\ allowed' = allowed \cup {r}
  /\ UNCHANGED <<storeVars, target, pol, streamed, spent, audit, releasedOn,
                 recordedOn, arrivalVars>>

RefuseRequest(r) ==
  /\ pol[r].requestQuota # NoLimit
  /\ ~HasRoom(Subject(r), pol[r].requestQuota)
  /\ Goto(r, "requestQuota", "deny")
  /\ UNCHANGED <<usageVars, storeVars, taskVars, ledgerVars, arrivalVars>>

\* deny: one audit row; a failed insert is only logged.
Deny(r) ==
  /\ Goto(r, "deny", "denied")
  /\ \/ audit' = [audit EXCEPT ![r] = "denied"]
     \/ "db" \in Events /\ audit' = [audit EXCEPT ![r] = "lost"]
  /\ UNCHANGED <<usageVars, storeVars, target, pol, allowed, streamed, spent,
                 ledgerVars, arrivalVars>>

\* A store error in verify_token answers 500; in resolve_policy, is_revoked,
\* get_usage and try_reserve_request 503; a body that cannot be read before
\* the quota checks 400.  No error lets a request through.
AnswerError(r) ==
  /\ \/ "db" \in Events /\ pc[r] \in {"new", "policy", "device"}
     \/ "db" \in Events /\ pc[r] = "requestQuota" /\ pol[r].requestQuota # NoLimit
     \/ pc[r] = "tokenQuota"
  /\ pc' = [pc EXCEPT ![r] = "rejected"]
  /\ UNCHANGED <<usageVars, storeVars, taskVars, ledgerVars, arrivalVars>>

-----------------------------------------------------------------------------
(***************************************************************************)
(* proxy_handler and forward_request.  ForwardFails is every Err: no       *)
(* provider or key, a transport error, the 300 s client timeout, a body    *)
(* that breaks off.  An upstream response of ANY status is an outcome.     *)
(***************************************************************************)
ForwardFailsKeepingUnit(r) ==
  /\ Goto(r, "forward", "failed")
  /\ UNCHANGED <<usageVars, storeVars, taskVars, ledgerVars, arrivalVars>>

ForwardFails(r) ==
  /\ Goto(r, "forward", "release")
  /\ UNCHANGED <<usageVars, storeVars, taskVars, ledgerVars, arrivalVars>>

ForwardBuffered(r) ==
  /\ Goto(r, "forward", "audit")
  /\ \E t \in 0 .. MaxSpend : spent' = [spent EXCEPT ![r] = t]
  /\ UNCHANGED <<usageVars, storeVars, target, pol, allowed, streamed, audit,
                 ledgerVars, arrivalVars>>

ForwardStreams(r) ==
  /\ Goto(r, "forward", "stream")
  /\ streamed' = streamed \cup {r}
  /\ UNCHANGED <<usageVars, storeVars, target, pol, allowed, spent, audit,
                 ledgerVars, arrivalVars>>

\* A chunk completes an SSE line with usage; the last one found counts.
StreamUsage(r) ==
  /\ pc[r] = "stream"
  /\ \E t \in 0 .. MaxSpend : spent' = [spent EXCEPT ![r] = t]
  /\ UNCHANGED <<usageVars, storeVars, pc, target, pol, allowed, streamed,
                 audit, ledgerVars, arrivalVars>>

\* The stream ends, breaks, or is dropped with the client's connection: in
\* all three cases the spawned task goes on to record the outcome.
EndStream(r) ==
  /\ Goto(r, "stream", "audit")
  /\ UNCHANGED <<usageVars, storeVars, taskVars, ledgerVars, arrivalVars>>

ReleaseUnreserved(r) ==
  /\ Goto(r, "release", "failed")
  /\ \/ /\ CanRelease(Subject(r))
        /\ ReleaseOne(Subject(r))
        /\ releasedOn' = [releasedOn EXCEPT ![r] = today]
     \/ /\ ~CanRelease(Subject(r))
        /\ UNCHANGED <<usageVars, releasedOn>>
  /\ UNCHANGED <<storeVars, taskVars, reservedOn, recordedOn, arrivalVars>>

\* The Err branch: release_request runs only for a reserved request.
Release(r) ==
  /\ Goto(r, "release", "failed")
  /\ \/ /\ reservedOn[r] # Never
        /\ CanRelease(Subject(r))
        /\ ReleaseOne(Subject(r))
        /\ releasedOn' = [releasedOn EXCEPT ![r] = today]
     \/ /\ \/ reservedOn[r] = Never
           \/ ~CanRelease(Subject(r))
           \/ "db" \in Events
        /\ UNCHANGED <<usageVars, releasedOn>>
  /\ UNCHANGED <<storeVars, taskVars, reservedOn, recordedOn, arrivalVars>>

AuditBufferedOnly(r) ==
  /\ Goto(r, "audit", "count")
  /\ audit' = IF r \in streamed THEN audit ELSE [audit EXCEPT ![r] = "allowed"]
  /\ UNCHANGED <<usageVars, storeVars, target, pol, allowed, streamed, spent,
                 ledgerVars, arrivalVars>>

\* record_request_outcome, first half; a failed insert is only logged.
Audit(r) ==
  /\ Goto(r, "audit", "count")
  /\ \/ audit' = [audit EXCEPT ![r] = "allowed"]
     \/ "db" \in Events /\ audit' = [audit EXCEPT ![r] = "lost"]
  /\ UNCHANGED <<usageVars, storeVars, target, pol, allowed, streamed, spent,
                 ledgerVars, arrivalVars>>

\* record_request_outcome, second half: always a delta of 1 request, also
\* when the request already took one by reserving it.
Count(r) ==
  /\ Goto(r, "count", "done")
  /\ \/ /\ Increment(Subject(r), 1, spent[r])
        /\ recordedOn' = [recordedOn EXCEPT ![r] = today]
     \/ /\ "db" \in Events
        /\ UNCHANGED <<usageVars, recordedOn>>
  /\ UNCHANGED <<storeVars, taskVars, reservedOn, releasedOn, arrivalVars>>

-----------------------------------------------------------------------------
(***************************************************************************)
(* Faults.  When the client's connection closes the server drops the       *)
(* handler's future at the await it is suspended in; the spawned           *)
(* accounting task of a stream is not affected.  A restart ends every      *)
(* task, the spawned ones included, and keeps the database: on SIGTERM the *)
(* production server calls shutdown() on its handle, which closes the      *)
(* connections without waiting for them.                                   *)
(***************************************************************************)
InHandler(r) ==
  \/ pc[r] \in MiddlewareSteps \cup {"forward", "release"}
  \/ pc[r] \in {"audit", "count"} /\ r \notin streamed

Disconnect(r) ==
  /\ "disconnect" \in Events
  /\ InHandler(r)
  /\ pc' = [pc EXCEPT ![r] = "aborted"]
  /\ UNCHANGED <<usageVars, storeVars, taskVars, ledgerVars, arrivalVars>>

InProgress(r) == pc[r] \in MiddlewareSteps \cup ForwardSteps

Restart ==
  /\ "restart" \in Events
  /\ \E r \in Requests : InProgress(r)
  /\ pc' = [r \in Requests |-> IF InProgress(r) THEN "aborted" ELSE pc[r]]
  /\ UNCHANGED <<usageVars, storeVars, taskVars, ledgerVars, arrivalVars>>

-----------------------------------------------------------------------------
(***************************************************************************)
(* The administrators, the owners of the tokens, and the clock.            *)
(***************************************************************************)
SetPolicy(s, p) ==
  /\ policy' = [policy EXCEPT ![s] = p]
  /\ UNCHANGED <<usageVars, liveTokens, deviceRows, pc, taskVars, ledgerVars,
                 arrivalVars>>

\* set_revoked updates every row of the fingerprint and answers 404 if there
\* is none.
SetRevoked(v, state) ==
  /\ "device" \in Events
  /\ deviceRows[v] # <<>>
  /\ deviceRows' = [deviceRows EXCEPT ![v] = [i \in DOMAIN @ |-> state]]
  /\ UNCHANGED <<usageVars, policy, liveTokens, pc, taskVars, ledgerVars,
                 arrivedOn, seenSpent, checkedOn>>

RevokeDevice(v) ==
  /\ SetRevoked(v, "revoked")
  /\ revoked' = revoked \cup {v}
  /\ UNCHANGED cleared

ReinstateDevice(v) ==
  /\ SetRevoked(v, "active")
  /\ revoked' = revoked \ {v}
  /\ cleared' = cleared \cup {r \in Requests : Device(r) = v /\ pc[r] # "new"}

\* The row is deleted: its owner revokes the token, or the token expires and
\* the next lookup deletes it.
RevokeToken(k) ==
  /\ "token" \in Events
  /\ k \in liveTokens
  /\ liveTokens' = liveTokens \ {k}
  /\ UNCHANGED <<usageVars, policy, deviceRows, pc, taskVars, ledgerVars,
                 arrivalVars>>

NextDay ==
  /\ Midnight
  /\ UNCHANGED <<storeVars, pc, taskVars, ledgerVars, arrivalVars>>

-----------------------------------------------------------------------------
Handle(r) ==
  \/ Arrive(r) \/ RateLimit(r) \/ ResolvePolicy(r) \/ DeleteStaleToken(r)
  \/ CheckDevice(r) \/ LookupDevice(r) \/ InsertDevice(r) \/ CheckTokenQuota(r)
  \/ AllowUnreserved(r) \/ ReserveRequest(r) \/ RefuseRequest(r) \/ Deny(r)
  \/ ForwardFails(r) \/ ForwardBuffered(r) \/ ForwardStreams(r)
  \/ StreamUsage(r) \/ EndStream(r) \/ Release(r) \/ Audit(r) \/ Count(r)

Fault(r) == AnswerError(r) \/ Disconnect(r)

Environment ==
  \/ \E s \in Subjects, p \in Policies : SetPolicy(s, p)
  \/ \E v \in Devices : RevokeDevice(v) \/ ReinstateDevice(v)
  \/ \E k \in Tokens : RevokeToken(k)
  \/ NextDay
  \/ Restart

Next ==
  \/ \E r \in Requests : Handle(r) \/ Fault(r)
  \/ Environment

Spec == Init /\ [][Next]_vars

\* A task that has started is polled until it ends: store calls return, and
\* the upstream call ends in an answer or in the client's total timeout,
\* which covers the body as well (forward.rs, build_client).  Nothing makes a
\* request arrive, an administrator act or a fault happen.
Progress(r) ==
  \/ RateLimit(r) \/ ResolvePolicy(r) \/ DeleteStaleToken(r)
  \/ CheckDevice(r) \/ LookupDevice(r) \/ InsertDevice(r) \/ CheckTokenQuota(r)
  \/ AllowUnreserved(r) \/ ReserveRequest(r) \/ RefuseRequest(r) \/ Deny(r)
  \/ ForwardFails(r) \/ ForwardBuffered(r) \/ ForwardStreams(r)
  \/ EndStream(r) \/ Release(r) \/ Audit(r) \/ Count(r)

FairSpec == Spec /\ \A r \in Requests : WF_vars(Progress(r))

=============================================================================
