----------------------------- MODULE TokenStore -----------------------------
(***************************************************************************)
(* The token store of the central proxy (token_store.rs), the token API    *)
(* (proxy/tokens.rs) and what auth_middleware and the age limit of         *)
(* permissions_middleware make of a verified token.                        *)
(*                                                                         *)
(* A call is one HTTP request.  Every SQL statement is an action, together *)
(* with what the code does after it up to the next await.  Slots of calls  *)
(* are used again, so a behaviour is any sequence of concurrent calls.     *)
(* A restart has no action of its own: it is the end of all calls.         *)
(*                                                                         *)
(* Abstracted: the hash of a token is the token; what a verified list or   *)
(* admin call does afterwards; the groups of a subject and their policies. *)
(***************************************************************************)
EXTENDS Integers

CONSTANTS
  Tokens,     \* tokens, and at the same time the ids of their rows
  Calls,      \* slots of calls in progress
  Subjects,
  Ttls,       \* lifetimes that may be requested, in seconds
  Caps,       \* age limits that may be in force, in seconds
  None,       \* absent: no row, no limit, no bearer
  MaxTime     \* bound on the clock, for model checking

ASSUME NoneAssumption == None \notin Tokens \cup Subjects \cup Int
\* The API refuses a lifetime or an age limit below one second.
ASSUME SecondsAssumption == Ttls \cup Caps \subseteq {n \in Int : n > 0}
ASSUME MaxTimeAssumption == MaxTime \in Nat

\* The clock ticks twice a second; a stored timestamp is cut to a second.
Second == 2
Times == 0 .. MaxTime
Stored(time) == time - (time % Second)

Limits == Caps \cup {None}

VARIABLES
  now,           \* the wall clock
  rows,          \* token -> its row in the tokens table, or None
  minted,        \* tokens whose row was inserted at some time
  known,         \* tokens whose plaintext was handed out
  call,          \* the calls in progress
  \* History: no guard of an action reads the variables below.
  acknowledged,  \* tokens whose owner was told that they are revoked
  mintCap        \* token -> the age limit it was minted under

vars == <<now, rows, minted, known, call, acknowledged, mintCap>>
historyVars == <<acknowledged, mintCap>>

Rows == [subject : Subjects, created : Int, expires : Int \cup {None}]

ASSUME NoneIsNoRow == None \notin Rows

\* Control points.  At "reply" the answer holds a new token; any other answer
\* changes nothing and ends the call at once.
Places == {"idle", "select", "sweep", "touch", "resolve", "stale", "insert",
           "find", "delete", "reply"}
Operations == {"serve", "mint", "revokeCurrent", "revokeById"}

CallStates ==
  [at : Places, op : Operations, bearer : Tokens \cup {None},
   target : Tokens \cup {None}, ttl : Ttls \cup {None}, started : Int,
   seen : Rows \cup {None}, subject : Subjects \cup {None},
   cap : Limits, resolved : Int, expires : Int \cup {None}]

Idle ==
  [at |-> "idle", op |-> "serve", bearer |-> None, target |-> None,
   ttl |-> None, started |-> 0, seen |-> None, subject |-> None, cap |-> None,
   resolved |-> 0, expires |-> None]

TypeOK ==
  /\ now \in Times
  /\ rows \in [Tokens -> Rows \cup {None}]
  /\ minted \in SUBSET Tokens
  /\ known \in SUBSET minted
  /\ call \in [Calls -> CallStates]
  /\ acknowledged \in SUBSET Tokens
  /\ mintCap \in [Tokens -> Limits]

Init ==
  /\ now = 0
  /\ rows = [k \in Tokens |-> None]
  /\ minted = {}
  /\ known = {}
  /\ call = [t \in Calls |-> Idle]
  /\ acknowledged = {}
  /\ mintCap = [k \in Tokens |-> None]

\* The call t goes on as c.
Continue(t, c) == call' = [call EXCEPT ![t] = c]

DeleteRow(k) == rows' = [rows EXCEPT ![k] = None]

-----------------------------------------------------------------------------
(***************************************************************************)
(* The beginning of a call.  verify_token reads the clock before it asks   *)
(* the database.                                                           *)
(***************************************************************************)
BeginVerify(t, c) ==
  /\ call[t].at = "idle"
  /\ Continue(t, [c EXCEPT !.at = "select", !.started = now])
  /\ UNCHANGED <<now, rows, minted, known, historyVars>>

\* A /v1 request.
Serve(t, k) == BeginVerify(t, [Idle EXCEPT !.op = "serve", !.bearer = k])

\* POST /v1/tokens with a bearer token.
MintMore(t, k, ttl) ==
  BeginVerify(t, [Idle EXCEPT !.op = "mint", !.bearer = k, !.ttl = ttl])

\* DELETE /v1/tokens/{id}.
RevokeById(t, k, target) ==
  BeginVerify(t, [Idle EXCEPT !.op = "revokeById", !.bearer = k,
                              !.target = target])

\* POST /v1/tokens without a bearer token, the login of a subject.
Login(t, s, ttl) ==
  /\ call[t].at = "idle"
  /\ Continue(t, [Idle EXCEPT !.at = "resolve", !.op = "mint", !.subject = s,
                              !.ttl = ttl])
  /\ UNCHANGED <<now, rows, minted, known, historyVars>>

\* DELETE /v1/tokens/current.
RevokeCurrent(t, k) ==
  /\ call[t].at = "idle"
  /\ Continue(t, [Idle EXCEPT !.at = "find", !.op = "revokeCurrent",
                          !.bearer = k, !.target = k])
  /\ UNCHANGED <<now, rows, minted, known, historyVars>>

-----------------------------------------------------------------------------
(***************************************************************************)
(* verify_token.                                                           *)
(***************************************************************************)
Expired(row, time) == row.expires # None /\ row.expires <= time

\* The SELECT by hash: expiry is judged by the clock at the start of the call.
Select(t) ==
  LET c == call[t]
      row == rows[c.bearer] IN
  /\ c.at = "select"
  /\ \/ row = None /\ Continue(t, Idle)
     \/ /\ row # None
        /\ Expired(row, c.started)
        /\ Continue(t, [c EXCEPT !.at = "sweep", !.started = 0])
     \/ /\ row # None
        /\ ~Expired(row, c.started)
        /\ Continue(t, [c EXCEPT !.at = "touch", !.started = 0,
                                 !.seen = row, !.subject = row.subject])
  /\ UNCHANGED <<now, rows, minted, known, historyVars>>

\* The expired row is deleted; an error is only logged.
Sweep(t) ==
  /\ call[t].at = "sweep"
  /\ Continue(t, Idle)
  /\ \/ DeleteRow(call[t].bearer)
     \/ UNCHANGED rows
  /\ UNCHANGED <<now, minted, known, historyVars>>

AfterVerify(c) ==
  [c EXCEPT !.at = IF c.op = "revokeById" THEN "delete" ELSE "resolve",
            !.seen = IF c.op = "serve" THEN c.seen ELSE None]

\* Deliberately wrong: the row that was read is written back as a whole.
TouchBySaving(t) ==
  /\ call[t].at = "touch"
  /\ Continue(t, AfterVerify(call[t]))
  /\ rows' = [rows EXCEPT ![call[t].bearer] = call[t].seen]
  /\ UNCHANGED <<now, minted, known, historyVars>>

\* touch_last_used: an UPDATE of a column nothing depends on.  It finds no
\* row if the token was revoked meanwhile; the call goes on all the same.
Touch(t) ==
  /\ call[t].at = "touch"
  /\ Continue(t, AfterVerify(call[t]))
  /\ UNCHANGED <<now, rows, minted, known, historyVars>>

-----------------------------------------------------------------------------
(***************************************************************************)
(* resolve_policy, for a request and for a new token.  Administrators      *)
(* change the policies at any moment, so the age limit it finds is any.    *)
(***************************************************************************)
\* check_backstop, by the clock after resolve_policy.
TooOld(row, limit) ==
  /\ limit # None
  /\ now - row.created > limit * Second

ResolveForServe(t) ==
  /\ call[t].at = "resolve"
  /\ call[t].op = "serve"
  /\ \E limit \in Limits :
       Continue(t, IF TooOld(call[t].seen, limit)
                     THEN [call[t] EXCEPT !.at = "stale", !.cap = limit]
                     ELSE Idle)
  /\ UNCHANGED <<now, rows, minted, known, historyVars>>

\* revoke_by_token_id for a token over the age limit; an error is only logged.
DeleteStale(t) ==
  /\ call[t].at = "stale"
  /\ Continue(t, Idle)
  /\ \/ DeleteRow(call[t].bearer)
     \/ UNCHANGED rows
  /\ UNCHANGED <<now, minted, known, historyVars>>

\* Deliberately wrong: a requested lifetime is not limited.
ClampRequestedFirst(ttl, limit) == IF ttl # None THEN ttl ELSE limit

\* effective_ttl of mint_token_handler: the lesser one, if there are both.
Clamp(ttl, limit) ==
  IF ttl = None \/ (limit # None /\ limit < ttl) THEN limit ELSE ttl

\* expires_at is computed right after the policy is resolved.
ResolveForMint(t) ==
  /\ call[t].at = "resolve"
  /\ call[t].op = "mint"
  /\ \E limit \in Limits :
       LET ttl == Clamp(call[t].ttl, limit) IN
       Continue(t, [call[t] EXCEPT !.at = "insert", !.cap = limit,
                      !.ttl = None, !.resolved = Stored(now),
                      !.expires = IF ttl = None THEN None
                                  ELSE Stored(now + ttl * Second)])
  /\ UNCHANGED <<now, rows, minted, known, historyVars>>

\* Deliberately wrong: created_at is the time at which the call began.
InsertAsOfArrival(t) ==
  LET c == call[t] IN
  /\ c.at = "insert"
  /\ \E k \in Tokens \ minted, time \in 0 .. now :
       /\ Continue(t, [Idle EXCEPT !.at = "reply", !.target = k])
       /\ rows' = [rows EXCEPT ![k] =
            [subject |-> c.subject, created |-> Stored(time), expires |-> c.expires]]
       /\ minted' = minted \cup {k}
       /\ mintCap' = [mintCap EXCEPT ![k] = c.cap]
  /\ UNCHANGED <<now, known, acknowledged>>

\* mint_token: a fresh token; created_at was read at some time since then.
Insert(t) ==
  LET c == call[t] IN
  /\ c.at = "insert"
  /\ \E k \in Tokens \ minted, time \in c.resolved .. now :
       /\ Continue(t, [Idle EXCEPT !.at = "reply", !.target = k])
       /\ rows' = [rows EXCEPT ![k] =
            [subject |-> c.subject, created |-> Stored(time), expires |-> c.expires]]
       /\ minted' = minted \cup {k}
       /\ mintCap' = [mintCap EXCEPT ![k] = c.cap]
  /\ UNCHANGED <<now, known, acknowledged>>

-----------------------------------------------------------------------------
(***************************************************************************)
(* Revocation.                                                             *)
(***************************************************************************)
\* revoke_by_token, the SELECT: it finds expired rows too.
Find(t) ==
  LET c == call[t] IN
  /\ c.at = "find"
  /\ Continue(t, IF rows[c.target] = None THEN Idle
                                          ELSE [c EXCEPT !.at = "delete"])
  /\ UNCHANGED <<now, rows, minted, known, historyVars>>

Acknowledge(t) ==
  /\ Continue(t, Idle)
  /\ acknowledged' = acknowledged \cup {call[t].target}

\* delete_by_id: true also when another call has deleted the row meanwhile.
DeleteCurrent(t) ==
  /\ call[t].at = "delete"
  /\ call[t].op = "revokeCurrent"
  /\ Acknowledge(t)
  /\ DeleteRow(call[t].target)
  /\ UNCHANGED <<now, minted, known, mintCap>>

\* Deliberately wrong: the DELETE does not compare the subject.
OwnedAlways(c) == rows[c.target] # None

\* The WHERE of revoke_by_token_id_for_subject.
Owned(c) ==
  /\ rows[c.target] # None
  /\ rows[c.target].subject = c.subject

\* Deliberately wrong: the DELETE compares nothing but the subject.
DeleteAllOwned(t) ==
  LET c == call[t] IN
  /\ c.at = "delete"
  /\ c.op = "revokeById"
  /\ \/ /\ Owned(c)
        /\ Acknowledge(t)
        /\ rows' = [k \in Tokens |->
             IF rows[k] # None /\ rows[k].subject = c.subject
               THEN None ELSE rows[k]]
     \/ /\ ~Owned(c)
        /\ Continue(t, Idle)
        /\ UNCHANGED <<rows, acknowledged>>
  /\ UNCHANGED <<now, minted, known, mintCap>>

DeleteOwned(t) ==
  /\ call[t].at = "delete"
  /\ call[t].op = "revokeById"
  /\ \/ /\ Owned(call[t])
        /\ Acknowledge(t)
        /\ DeleteRow(call[t].target)
     \/ /\ ~Owned(call[t])
        /\ Continue(t, Idle)
        /\ UNCHANGED <<rows, acknowledged>>
  /\ UNCHANGED <<now, minted, known, mintCap>>

-----------------------------------------------------------------------------
\* Deliberately wrong: the token of the request is handed out again.
AnswerWithBearer(t) ==
  /\ call[t].at = "reply"
  /\ Continue(t, Idle)
  /\ known' = known \cup {call[t].bearer}
  /\ UNCHANGED <<now, rows, minted, historyVars>>

\* The answer reaches the client, and with it the plaintext of a new token.
Answer(t) ==
  /\ call[t].at = "reply"
  /\ Continue(t, Idle)
  /\ known' = known \cup {call[t].target}
  /\ UNCHANGED <<now, rows, minted, historyVars>>

\* A statement fails and its error is answered, or the device binding of
\* auth_middleware refuses the request, or the client goes away and the
\* handler's future is dropped.
Abort(t) ==
  /\ call[t].at # "idle"
  /\ Continue(t, Idle)
  /\ UNCHANGED <<now, rows, minted, known, historyVars>>

Tick ==
  /\ now < MaxTime
  /\ now' = now + 1
  /\ UNCHANGED <<rows, minted, known, call, historyVars>>

-----------------------------------------------------------------------------
\* The bound on the number of tokens: no call begins to mint beyond it.
SpareToken == minted # Tokens

Begin(t) ==
  \/ \E k \in known : Serve(t, k)
  \/ \E k \in known, ttl \in Ttls \cup {None} : SpareToken /\ MintMore(t, k, ttl)
  \/ \E s \in Subjects, ttl \in Ttls \cup {None} : SpareToken /\ Login(t, s, ttl)
  \/ \E k \in known : RevokeCurrent(t, k)
  \/ \E k \in known, target \in minted : RevokeById(t, k, target)

Handle(t) ==
  \/ Select(t) \/ Sweep(t) \/ Touch(t)
  \/ ResolveForServe(t) \/ DeleteStale(t) \/ ResolveForMint(t) \/ Insert(t)
  \/ Find(t) \/ DeleteCurrent(t) \/ DeleteOwned(t)
  \/ Answer(t)

Next ==
  \/ \E t \in Calls : Begin(t) \/ Handle(t) \/ Abort(t)
  \/ Tick

Spec == Init /\ [][Next]_vars

-----------------------------------------------------------------------------
(***************************************************************************)
(* A revocation that was acknowledged is final: whatever calls with that   *)
(* token are on their way, and whatever they write, its row never comes    *)
(* back (token_store.rs, revoke_by_token against touch_last_used).         *)
(***************************************************************************)
RevocationFinal == \A k \in acknowledged : rows[k] = None

(***************************************************************************)
(* Nobody loses a token by the doing of another user: a row disappears     *)
(* only in a step of a call that presented that very token, or that was    *)
(* verified as a token of the same subject (tokens.rs,                     *)
(* revoke_by_id_handler).                                                  *)
(***************************************************************************)
OwnDoing(k) ==
  \E t \in Calls :
    /\ call'[t] # call[t]
    /\ call[t].bearer = k \/ call[t].subject = rows[k].subject

OwnTokensOnly ==
  [][\A k \in Tokens : rows[k] # None /\ rows'[k] = None => OwnDoing(k)]_vars

(***************************************************************************)
(* The age limit and the expiry of a token agree: a request is refused for *)
(* the age of its token only if the limit was lowered after the token was  *)
(* minted, or if the token expired while the request was on its way.  So   *)
(* the clamp of mint_token_handler, the three clock readings and the       *)
(* cutting of stored timestamps never let a valid token be deleted         *)
(* (tokens.rs, effective_ttl; token_store.rs, check_backstop).             *)
(***************************************************************************)
Lowered(k, limit) == mintCap[k] = None \/ limit < mintCap[k]

AgeLimitOnlyTightens ==
  \A t \in Calls :
    call[t].at = "stale"
      => \/ Lowered(call[t].bearer, call[t].cap)
         \/ Expired(call[t].seen, now)

(***************************************************************************)
(* The store implements TokenLife: a token is live while it has a row, and *)
(* a call has the identity of its bearer from the SELECT on.               *)
(***************************************************************************)
StatusOf(k) ==
  IF rows[k] # None THEN "live" ELSE IF k \in minted THEN "dead" ELSE "unborn"

HeldBy(t) == IF call[t].subject # None THEN call[t].bearer ELSE None

Life == INSTANCE TokenLife WITH
          status <- [k \in Tokens |-> StatusOf(k)],
          holds <- [t \in Calls |-> HeldBy(t)]

ImplementsTokenLife == Life!Spec
=============================================================================
