-------------------------- MODULE TokenStore_proofs --------------------------
(***************************************************************************)
(* Machine-checked proofs, for every value of the constants, that the      *)
(* token store keeps its safety properties and implements TokenLife.       *)
(***************************************************************************)
EXTENDS TokenStoreInv, TLAPS

-----------------------------------------------------------------------------
(***************************************************************************)
(* Lemmas about the clock and about age limits.                            *)
(***************************************************************************)
\* Cutting a time to the second loses less than a second and commutes with
\* adding whole seconds.
LEMMA StoredFacts ==
  ASSUME NEW x \in Int
  PROVE  /\ Stored(x) \in Int
         /\ Stored(x) <= x
         /\ Stored(Stored(x)) = Stored(x)
         /\ \A n \in Int : Stored(x + n * Second) = Stored(x) + n * Second
         /\ \A y \in Int : x <= y => Stored(x) <= Stored(y)
BY DEF Stored, Second

LEMMA ConstantFacts ==
  /\ None \notin Tokens /\ None \notin Subjects /\ None \notin Int
  /\ None \notin Rows
  /\ Caps \subseteq Int /\ Ttls \subseteq Int
  /\ Limits = Caps \cup {None}
  /\ \A k \in Tokens : k # None
BY NoneAssumption, NoneIsNoRow, SecondsAssumption DEF Limits

\* The lifetime that mint_token_handler computes respects the limit.
LEMMA ClampWithin ==
  ASSUME NEW ttl \in Ttls \cup {None}, NEW limit \in Limits, NEW time \in Int,
         NEW e,
         e = IF Clamp(ttl, limit) = None THEN None
             ELSE Stored(time + Clamp(ttl, limit) * Second)
  PROVE  /\ e \in Int \cup {None}
         /\ Within(Stored(time), e, limit)
<1>1. Clamp(ttl, limit) \in Int \cup {None}
  BY ConstantFacts DEF Clamp
<1>2. CASE Clamp(ttl, limit) = None
  <2>1. limit = None
    BY <1>2, ConstantFacts DEF Clamp
  <2> QED
    BY <1>2, <2>1 DEF Within
<1>3. CASE Clamp(ttl, limit) # None
  <2> DEFINE n == Clamp(ttl, limit)
  <2>1. n \in Int
    BY <1>1, <1>3
  <2>2. e = Stored(time) + n * Second
    BY <1>3, <2>1, StoredFacts
  <2>3. limit # None => limit \in Int /\ n <= limit
    BY <1>3, ConstantFacts DEF Clamp
  <2>4. Stored(time) \in Int
    BY StoredFacts
  <2> HIDE DEF n
  <2> QED
    BY <2>1, <2>2, <2>3, <2>4, ConstantFacts DEF Within, Second
<1> QED
  BY <1>2, <1>3

-----------------------------------------------------------------------------
(***************************************************************************)
(* The frame of a step: what is minted stays minted under the same limit,  *)
(* and the clock does not go back.                                         *)
(***************************************************************************)
Grows ==
  /\ minted \subseteq minted'
  /\ now <= now'
  /\ \A k \in minted : mintCap'[k] = mintCap[k]

\* What a call knows stays true while others act.
LEMMA CallStays ==
  ASSUME StoreInv, TypeOK', Grows, NEW t \in Calls, call'[t] = call[t]
  PROVE  CallOK(call[t])'
<1> DEFINE c == call[t]
<1>1. c \in CallStates /\ CallOK(c) /\ now \in Int /\ now' \in Int
  BY DEF StoreInv, TypeOK, CallPhase, Times
<1>2. c.seen \in Rows /\ TooOld(c.seen, c.cap) => TooOld(c.seen, c.cap)'
  <2>1. c.cap \in Int \cup {None}
    BY <1>1, ConstantFacts DEF CallStates
  <2> QED
    BY <1>1, <2>1 DEF TooOld, Grows, Rows, Second
<1> QED
  BY <1>1, <1>2 DEF CallOK, HoldsRow, Grows

LEMMA PhaseStep ==
  ASSUME StoreInv, TypeOK', Grows, NEW t \in Calls,
         \A u \in Calls : u # t => call'[u] = call[u],
         CallOK(call[t])'
  PROVE  CallPhase'
BY CallStays DEF CallPhase

\* A step that mints nothing: rows stay or disappear, and only a token
\* without a row is acknowledged.
LEMMA TableStep ==
  ASSUME StoreInv, UNCHANGED <<minted, mintCap>>,
         \A k \in Tokens : rows'[k] = rows[k] \/ rows'[k] = None,
         \A k \in acknowledged' :
           k \in acknowledged \/ (k \in minted /\ rows'[k] = None)
  PROVE  RowPhase' /\ acknowledged' \subseteq minted' /\ RevocationFinal'
BY DEF StoreInv, TypeOK, RowPhase, RevocationFinal, Within

-----------------------------------------------------------------------------
(***************************************************************************)
(* Type correctness is preserved, given what the calls know.               *)
(***************************************************************************)
LEMMA ContinueWrites ==
  ASSUME TypeOK, NEW t \in Calls, NEW c, Continue(t, c)
  PROVE  /\ call'[t] = c
         /\ \A u \in Calls : u # t => call'[u] = call[u]
BY DEF TypeOK, Continue

\* An updated call is a call.
LEMMA ContinueType ==
  ASSUME TypeOK, NEW t \in Calls, NEW c \in CallStates, Continue(t, c)
  PROVE  /\ call' \in [Calls -> CallStates]
         /\ call'[t] = c
         /\ \A u \in Calls : u # t => call'[u] = call[u]
BY DEF TypeOK, Continue

LEMMA IdleType == Idle \in CallStates
BY DEF Idle, CallStates, Places, Operations, Limits

\* The calls that the SELECT of verify_token makes.
LEMMA SelectType ==
  ASSUME NEW c \in CallStates
  PROVE  /\ [c EXCEPT !.at = "sweep", !.started = 0] \in CallStates
         /\ \A row \in Rows :
              [c EXCEPT !.at = "touch", !.started = 0, !.seen = row,
                        !.subject = row.subject] \in CallStates
<1>1. {"sweep", "touch"} \subseteq Places /\ 0 \in Int
  BY DEF Places
<1>2. \A row \in Rows : row.subject \in Subjects
  BY DEF Rows
<1>3. [c EXCEPT !.at = "sweep", !.started = 0] \in CallStates
  BY <1>1 DEF CallStates
<1> QED
  BY <1>1, <1>2, <1>3 DEF CallStates

LEMMA DeleteType ==
  ASSUME TypeOK, NEW k \in Tokens, DeleteRow(k)
  PROVE  /\ rows' \in [Tokens -> Rows \cup {None}]
         /\ rows'[k] = None
         /\ \A j \in Tokens : j # k => rows'[j] = rows[j]
BY DEF TypeOK, DeleteRow

-----------------------------------------------------------------------------
(***************************************************************************)
(* The invariant is inductive.                                             *)
(***************************************************************************)
\* A step that only moves one call on.
LEMMA QuietStep ==
  ASSUME StoreInv, NEW t \in Calls, NEW c \in CallStates, Continue(t, c),
         CallOK(c),
         UNCHANGED <<now, rows, minted, known, historyVars>>
  PROVE  StoreInv'
<1> USE DEF historyVars
<1>1. TypeOK'
  BY ContinueType DEF StoreInv, TypeOK
<1>2. call'[t] = c /\ \A u \in Calls : u # t => call'[u] = call[u]
  BY ContinueType DEF StoreInv
<1>3. Grows
  BY <1>1 DEF Grows, StoreInv, TypeOK, Times
<1>4. CallOK(call[t])'
  BY <1>2 DEF CallOK, TooOld, HoldsRow
<1>5. CallPhase'
  BY <1>1, <1>2, <1>3, <1>4, PhaseStep
<1>6. RowPhase' /\ acknowledged' \subseteq minted' /\ RevocationFinal'
  BY TableStep
<1> QED
  BY <1>1, <1>5, <1>6 DEF StoreInv

\* A step that deletes at most the row of k, and may acknowledge that.
LEMMA DeleteStep ==
  ASSUME StoreInv, NEW t \in Calls, Continue(t, Idle), NEW k \in minted,
         DeleteRow(k) \/ UNCHANGED rows,
         \/ UNCHANGED acknowledged
         \/ DeleteRow(k) /\ acknowledged' = acknowledged \cup {k},
         UNCHANGED <<now, minted, known, mintCap>>
  PROVE  StoreInv'
<1>1. k \in Tokens
  BY DEF StoreInv, TypeOK
<1>2. TypeOK'
  BY <1>1, ContinueType, IdleType, DeleteType DEF StoreInv, TypeOK
<1>3. call'[t] = Idle /\ \A u \in Calls : u # t => call'[u] = call[u]
  BY ContinueType, IdleType DEF StoreInv
<1>4. Grows
  BY <1>2 DEF Grows, StoreInv, TypeOK, Times
<1>5. CallOK(call[t])'
  BY <1>3 DEF CallOK, HoldsRow, Idle
<1>6. CallPhase'
  BY <1>2, <1>3, <1>4, <1>5, PhaseStep
<1>7. \A j \in Tokens : rows'[j] = rows[j] \/ rows'[j] = None
  BY <1>1, DeleteType DEF StoreInv
<1>8. \A j \in acknowledged' :
        j \in acknowledged \/ (j \in minted /\ rows'[j] = None)
  BY <1>1, DeleteType DEF StoreInv
<1>9. RowPhase' /\ acknowledged' \subseteq minted' /\ RevocationFinal'
  BY <1>7, <1>8, TableStep
<1> QED
  BY <1>2, <1>6, <1>9 DEF StoreInv

\* The beginning of a call.
LEMMA BeginStep ==
  ASSUME StoreInv, NEW t \in Calls, Begin(t)
  PROVE  StoreInv'
<1> USE DEF Idle, CallStates, Places, Operations, CallOK, HoldsRow
<1>1. now \in Int /\ known \subseteq minted /\ minted \subseteq Tokens
  BY DEF StoreInv, TypeOK, Times
<1>2. ASSUME NEW k \in known, Serve(t, k)
      PROVE  StoreInv'
  <2> DEFINE c == [Idle EXCEPT !.op = "serve", !.bearer = k,
                               !.at = "select", !.started = now]
  <2>1. c \in CallStates /\ CallOK(c)
    BY <1>1, IdleType
  <2> QED
    BY <1>2, <2>1, QuietStep DEF Serve, BeginVerify
<1>3. ASSUME NEW k \in known, NEW ttl \in Ttls \cup {None}, MintMore(t, k, ttl)
      PROVE  StoreInv'
  <2> DEFINE c == [Idle EXCEPT !.op = "mint", !.bearer = k, !.ttl = ttl,
                               !.at = "select", !.started = now]
  <2>1. c \in CallStates /\ CallOK(c)
    BY <1>1, IdleType
  <2> QED
    BY <1>3, <2>1, QuietStep DEF MintMore, BeginVerify
<1>4. ASSUME NEW k \in known, NEW target \in minted, RevokeById(t, k, target)
      PROVE  StoreInv'
  <2> DEFINE c == [Idle EXCEPT !.op = "revokeById", !.bearer = k,
                     !.target = target, !.at = "select", !.started = now]
  <2>1. c \in CallStates /\ CallOK(c)
    BY <1>1, IdleType
  <2> QED
    BY <1>4, <2>1, QuietStep DEF RevokeById, BeginVerify
<1>5. ASSUME NEW s \in Subjects, NEW ttl \in Ttls \cup {None}, Login(t, s, ttl)
      PROVE  StoreInv'
  <2> DEFINE c == [Idle EXCEPT !.at = "resolve", !.op = "mint", !.subject = s,
                               !.ttl = ttl]
  <2>1. c \in CallStates /\ CallOK(c)
    BY IdleType
  <2> QED
    BY <1>5, <2>1, QuietStep DEF Login
<1>6. ASSUME NEW k \in known, RevokeCurrent(t, k)
      PROVE  StoreInv'
  <2> DEFINE c == [Idle EXCEPT !.at = "find", !.op = "revokeCurrent",
                               !.bearer = k, !.target = k]
  <2>1. c \in CallStates /\ CallOK(c)
    BY <1>1, IdleType
  <2> QED
    BY <1>6, <2>1, QuietStep DEF RevokeCurrent
<1> QED
  BY <1>2, <1>3, <1>4, <1>5, <1>6 DEF Begin

LEMMA IdleOK == CallOK(Idle)
BY DEF CallOK, Idle, HoldsRow

\* The statements of verify_token.
LEMMA VerifyStep ==
  ASSUME StoreInv, NEW t \in Calls, Select(t) \/ Sweep(t) \/ Touch(t)
  PROVE  StoreInv'
<1>1. call[t] \in CallStates /\ CallOK(call[t])
  BY DEF StoreInv, TypeOK, CallPhase
<1>2. CASE Select(t)
  <2> DEFINE c == call[t]
             row == rows[c.bearer]
             swept == [c EXCEPT !.at = "sweep", !.started = 0]
             touched == [c EXCEPT !.at = "touch", !.started = 0,
                                  !.seen = row, !.subject = row.subject]
  <2>1. c.at = "select" /\ c.bearer \in minted /\ c.bearer \in Tokens
    BY <1>1, <1>2 DEF Select, CallOK, StoreInv, TypeOK
  <2>2. swept \in CallStates /\ CallOK(swept)
    <3>1. swept \in CallStates
      BY <1>1, SelectType
    <3>2. /\ swept.at = "sweep" /\ swept.op = c.op
          /\ swept.bearer = c.bearer /\ swept.target = c.target
          /\ swept.subject = c.subject
      BY <1>1 DEF CallStates
    <3> HIDE DEF swept
    <3>3. CallOK(swept)
      BY <1>1, <2>1, <3>2 DEF CallOK, HoldsRow
    <3> QED
      BY <3>1, <3>3
  <2>3. row # None => /\ row \in Rows /\ row.subject \in Subjects
                      /\ Within(row.created, row.expires, mintCap[c.bearer])
    BY <2>1 DEF StoreInv, TypeOK, RowPhase, Rows
  <2>4. row # None => touched \in CallStates /\ CallOK(touched)
    <3> SUFFICES ASSUME row # None
                 PROVE  touched \in CallStates /\ CallOK(touched)
      OBVIOUS
    <3>1. touched \in CallStates
      BY <1>1, <2>3, SelectType
    <3>2. /\ touched.at = "touch" /\ touched.op = c.op
          /\ touched.bearer = c.bearer /\ touched.target = c.target
          /\ touched.subject = row.subject /\ touched.seen = row
      BY <1>1 DEF CallStates
    <3> HIDE DEF touched
    <3>3. CallOK(touched)
      BY <1>1, <2>1, <2>3, <3>2 DEF CallOK, HoldsRow
    <3> QED
      BY <3>1, <3>3
  <2>5. \/ Continue(t, Idle)
        \/ Continue(t, swept)
        \/ row # None /\ Continue(t, touched)
    BY <1>2 DEF Select
  <2> QED
    BY <1>2, <2>2, <2>4, <2>5, IdleType, IdleOK, QuietStep DEF Select
<1>3. CASE Sweep(t)
  <2>1. call[t].bearer \in minted
    BY <1>1, <1>3 DEF Sweep, CallOK
  <2> QED
    BY <1>3, <2>1, DeleteStep DEF Sweep, historyVars
<1>4. CASE Touch(t)
  <2> DEFINE c == AfterVerify(call[t])
  <2>1. c \in CallStates
    <3>1. /\ (IF call[t].op = "revokeById" THEN "delete" ELSE "resolve") \in Places
          /\ (IF call[t].op = "serve" THEN call[t].seen ELSE None)
               \in Rows \cup {None}
      BY <1>1 DEF CallStates, Places
    <3> QED
      BY <1>1, <3>1 DEF AfterVerify, CallStates
  <2>2. CallOK(c)
    BY <1>1, <1>4 DEF Touch, AfterVerify, CallStates, CallOK, HoldsRow
  <2> QED
    BY <1>4, <2>1, <2>2, QuietStep DEF Touch
<1> QED
  BY <1>2, <1>3, <1>4

\* What follows the resolution of the policy.
LEMMA ResolveStep ==
  ASSUME StoreInv, NEW t \in Calls,
         ResolveForServe(t) \/ DeleteStale(t) \/ ResolveForMint(t)
  PROVE  StoreInv'
<1>1. call[t] \in CallStates /\ CallOK(call[t])
  BY DEF StoreInv, TypeOK, CallPhase
<1>2. CASE ResolveForServe(t)
  <2>1. PICK limit \in Limits :
          Continue(t, IF TooOld(call[t].seen, limit)
                        THEN [call[t] EXCEPT !.at = "stale", !.cap = limit]
                        ELSE Idle)
    BY <1>2 DEF ResolveForServe
  <2> DEFINE c == [call[t] EXCEPT !.at = "stale", !.cap = limit]
  <2>2. c \in CallStates
    BY <1>1 DEF CallStates, Places
  <2>3. TooOld(call[t].seen, limit) => CallOK(c)
    BY <1>1, <1>2 DEF ResolveForServe, CallStates, CallOK, HoldsRow
  <2> QED
    BY <1>2, <2>1, <2>2, <2>3, IdleType, IdleOK, QuietStep
    DEF ResolveForServe
<1>3. CASE DeleteStale(t)
  <2>1. call[t].bearer \in minted
    BY <1>1, <1>3 DEF DeleteStale, CallOK, HoldsRow
  <2> QED
    BY <1>3, <2>1, DeleteStep DEF DeleteStale, historyVars
<1>4. CASE ResolveForMint(t)
  <2>1. PICK limit \in Limits :
          LET ttl == Clamp(call[t].ttl, limit) IN
          Continue(t, [call[t] EXCEPT !.at = "insert", !.cap = limit,
                         !.ttl = None, !.resolved = Stored(now),
                         !.expires = IF ttl = None THEN None
                                     ELSE Stored(now + ttl * Second)])
    BY <1>4 DEF ResolveForMint
  <2> DEFINE e == IF Clamp(call[t].ttl, limit) = None THEN None
                  ELSE Stored(now + Clamp(call[t].ttl, limit) * Second)
             c == [call[t] EXCEPT !.at = "insert", !.cap = limit, !.ttl = None,
                                  !.resolved = Stored(now), !.expires = e]
  <2>2. call[t].ttl \in Ttls \cup {None} /\ now \in Int
    BY <1>1 DEF CallStates, StoreInv, TypeOK, Times
  <2>3. e \in Int \cup {None} /\ Within(Stored(now), e, limit)
    BY <2>2, ClampWithin
  <2>4. Stored(now) \in Int /\ Stored(Stored(now)) = Stored(now)
    BY <2>2, StoredFacts
  <2>5. Continue(t, c)
    BY <2>1
  <2> HIDE DEF e
  <2>6. c \in CallStates
    BY <1>1, <2>3, <2>4 DEF CallStates, Places
  <2>7. CallOK(c)
    BY <1>1, <1>4, <2>3, <2>4 DEF ResolveForMint, CallStates, CallOK, HoldsRow
  <2> QED
    BY <1>4, <2>5, <2>6, <2>7, QuietStep DEF ResolveForMint
<1> QED
  BY <1>2, <1>3, <1>4

\* The INSERT of mint_token.
LEMMA InsertStep ==
  ASSUME StoreInv, NEW t \in Calls, Insert(t)
  PROVE  StoreInv'
<1> DEFINE c == call[t]
<1>1. c \in CallStates /\ CallOK(c) /\ c.at = "insert" /\ now \in Int
  BY DEF StoreInv, TypeOK, CallPhase, Insert, Times
<1>2. PICK k \in Tokens \ minted, time \in c.resolved .. now :
        /\ Continue(t, [Idle EXCEPT !.at = "reply", !.target = k])
        /\ rows' = [rows EXCEPT ![k] = [subject |-> c.subject,
                      created |-> Stored(time), expires |-> c.expires]]
        /\ minted' = minted \cup {k}
        /\ mintCap' = [mintCap EXCEPT ![k] = c.cap]
  BY DEF Insert
<1> DEFINE d == [Idle EXCEPT !.at = "reply", !.target = k]
           row == [subject |-> c.subject, created |-> Stored(time),
                   expires |-> c.expires]
<1>3. time \in Int /\ c.resolved \in Int /\ c.resolved <= time
  BY <1>1 DEF CallStates
<1>4. Stored(time) \in Int /\ c.resolved <= Stored(time)
  BY <1>1, <1>3, StoredFacts DEF CallOK
<1>5. row \in Rows
  BY <1>1, <1>4 DEF Rows, CallStates, CallOK
<1>6. Within(row.created, row.expires, c.cap)
  <2>1. c.cap \in Int \cup {None} /\ c.expires \in Int \cup {None}
    BY <1>1, ConstantFacts DEF CallStates
  <2> QED
    BY <1>1, <1>3, <1>4, <2>1, ConstantFacts DEF CallOK, Within, Second
<1>7. d \in CallStates
  BY <1>2, IdleType DEF CallStates, Places
<1>8. rows' \in [Tokens -> Rows \cup {None}] /\ rows'[k] = row
      /\ \A j \in Tokens : j # k => rows'[j] = rows[j]
  BY <1>2, <1>5 DEF StoreInv, TypeOK
<1>9. mintCap' \in [Tokens -> Limits] /\ mintCap'[k] = c.cap
      /\ \A j \in Tokens : j # k => mintCap'[j] = mintCap[j]
  BY <1>1, <1>2 DEF StoreInv, TypeOK, CallStates
<1>10. TypeOK'
  BY <1>2, <1>7, <1>8, <1>9, ContinueType DEF StoreInv, TypeOK, Insert
<1>11. call'[t] = d /\ \A u \in Calls : u # t => call'[u] = call[u]
  BY <1>2, <1>7, ContinueType DEF StoreInv
<1>12. Grows
  BY <1>1, <1>2, <1>9 DEF Grows, Insert, StoreInv, TypeOK
<1>13. CallOK(call[t])'
  BY <1>2, <1>11 DEF CallOK, HoldsRow, Idle
<1>14. CallPhase'
  BY <1>10, <1>11, <1>12, <1>13, PhaseStep
<1>15. RowPhase'
  BY <1>2, <1>6, <1>8, <1>9 DEF StoreInv, RowPhase, Within
<1>16. acknowledged' \subseteq minted' /\ RevocationFinal'
  BY <1>2, <1>8 DEF Insert, StoreInv, TypeOK, RevocationFinal
<1> QED
  BY <1>10, <1>14, <1>15, <1>16 DEF StoreInv

\* The statements of a revocation.
LEMMA RevokeStep ==
  ASSUME StoreInv, NEW t \in Calls,
         Find(t) \/ DeleteCurrent(t) \/ DeleteOwned(t)
  PROVE  StoreInv'
<1>1. call[t] \in CallStates /\ CallOK(call[t])
  BY DEF StoreInv, TypeOK, CallPhase
<1>2. CASE Find(t)
  <2> DEFINE c == [call[t] EXCEPT !.at = "delete"]
  <2>1. c \in CallStates /\ CallOK(c)
    BY <1>1, <1>2 DEF Find, CallStates, Places, CallOK, HoldsRow
  <2>2. Continue(t, Idle) \/ Continue(t, c)
    BY <1>2 DEF Find
  <2> QED
    BY <1>2, <2>1, <2>2, IdleType, IdleOK, QuietStep DEF Find
<1>3. CASE DeleteCurrent(t)
  <2>1. call[t].target \in minted
    BY <1>1, <1>3 DEF DeleteCurrent, CallOK
  <2> QED
    BY <1>3, <2>1, DeleteStep DEF DeleteCurrent, Acknowledge
<1>4. CASE DeleteOwned(t)
  <2>1. call[t].target \in minted
    BY <1>1, <1>4 DEF DeleteOwned, CallOK
  <2> QED
    BY <1>4, <2>1, DeleteStep DEF DeleteOwned, Acknowledge
<1> QED
  BY <1>2, <1>3, <1>4

\* The end of a call.
LEMMA EndStep ==
  ASSUME StoreInv, NEW t \in Calls, Answer(t) \/ Abort(t)
  PROVE  StoreInv'
<1>1. CASE Abort(t)
  BY <1>1, IdleType, IdleOK, QuietStep DEF Abort
<1>2. CASE Answer(t)
  <2>1. call[t].target \in minted
    BY <1>2 DEF Answer, StoreInv, CallPhase, CallOK
  <2>2. call' \in [Calls -> CallStates] /\ call'[t] = Idle
        /\ \A u \in Calls : u # t => call'[u] = call[u]
    BY <1>2, ContinueType, IdleType DEF Answer, StoreInv
  <2>3. TypeOK'
    BY <1>2, <2>1, <2>2 DEF Answer, StoreInv, TypeOK, historyVars
  <2>4. Grows
    BY <1>2 DEF Answer, Grows, StoreInv, TypeOK, Times, historyVars
  <2>5. CallOK(call[t])'
    BY <2>2 DEF CallOK, HoldsRow, Idle
  <2>6. CallPhase'
    BY <2>2, <2>3, <2>4, <2>5, PhaseStep
  <2>7. RowPhase' /\ acknowledged' \subseteq minted' /\ RevocationFinal'
    BY <1>2, TableStep DEF Answer, historyVars
  <2> QED
    BY <2>3, <2>6, <2>7 DEF StoreInv
<1> QED
  BY <1>1, <1>2

LEMMA TickStep ==
  ASSUME StoreInv, Tick
  PROVE  StoreInv'
<1>1. TypeOK'
  BY MaxTimeAssumption DEF StoreInv, TypeOK, Tick, Times, historyVars
<1>2. Grows
  BY DEF StoreInv, TypeOK, Tick, Times, historyVars, Grows
<1>3. CallPhase'
  BY <1>1, <1>2, CallStays DEF Tick, CallPhase
<1>4. RowPhase' /\ acknowledged' \subseteq minted' /\ RevocationFinal'
  BY TableStep DEF Tick, historyVars
<1> QED
  BY <1>1, <1>3, <1>4 DEF StoreInv

LEMMA StoreInvInit == Init => StoreInv
<1> SUFFICES ASSUME Init PROVE StoreInv
  OBVIOUS
<1>1. TypeOK
  BY IdleType, MaxTimeAssumption DEF Init, TypeOK, Times, Limits
<1> QED
  BY <1>1, IdleOK DEF Init, StoreInv, CallPhase, RowPhase, RevocationFinal

LEMMA StoreInvNext == StoreInv /\ [Next]_vars => StoreInv'
<1> SUFFICES ASSUME StoreInv, [Next]_vars PROVE StoreInv'
  OBVIOUS
<1>1. ASSUME NEW t \in Calls, Begin(t) \/ Handle(t) \/ Abort(t)
      PROVE  StoreInv'
  BY <1>1, BeginStep, VerifyStep, ResolveStep, InsertStep, RevokeStep, EndStep
  DEF Handle
<1>2. CASE UNCHANGED vars
  BY <1>2
  DEF vars, StoreInv, TypeOK, CallPhase, CallOK, TooOld, RowPhase,
      RevocationFinal
<1> QED
  BY <1>1, <1>2, TickStep DEF Next

(***************************************************************************)
(* StoreInv is an invariant of the token store.                            *)
(***************************************************************************)
THEOREM StoreInvariant == Spec => []StoreInv
BY StoreInvInit, StoreInvNext, PTL DEF Spec

(***************************************************************************)
(* The variables keep their types.                                         *)
(***************************************************************************)
THEOREM TypeCorrect == Spec => []TypeOK
<1>1. StoreInv => TypeOK
  BY DEF StoreInv
<1> QED
  BY <1>1, StoreInvariant, PTL

(***************************************************************************)
(* For any number of calls and tokens, whatever verifications are on their *)
(* way, the row of a token whose revocation was acknowledged never comes   *)
(* back (revoke_by_token and touch_last_used).                             *)
(***************************************************************************)
THEOREM RevocationIsFinal == Spec => []RevocationFinal
<1>1. StoreInv => RevocationFinal
  BY DEF StoreInv
<1> QED
  BY <1>1, StoreInvariant, PTL

(***************************************************************************)
(* For all lifetimes and limits: a token is found too old only after its   *)
(* limit was lowered, or when it has expired as well (check_backstop       *)
(* against effective_ttl).                                                 *)
(***************************************************************************)
THEOREM AgeLimitAgrees == Spec => []AgeLimitOnlyTightens
<1>1. ASSUME StoreInv, NEW t \in Calls, call[t].at = "stale",
             ~Lowered(call[t].bearer, call[t].cap)
      PROVE  Expired(call[t].seen, now)
  <2> DEFINE c == call[t]
             m == mintCap[c.bearer]
  <2>1. c \in CallStates /\ CallOK(c) /\ now \in Int
    BY <1>1 DEF StoreInv, TypeOK, CallPhase, Times
  <2>2. /\ c.bearer \in Tokens
        /\ c.seen \in Rows
        /\ Within(c.seen.created, c.seen.expires, m)
        /\ TooOld(c.seen, c.cap)
    BY <1>1, <2>1 DEF CallOK, HoldsRow, StoreInv, TypeOK
  <2>3. c.cap \in Int /\ m \in Int /\ m <= c.cap
    <3>1. c.cap \in Int \cup {None} /\ m \in Int \cup {None}
      BY <1>1, <2>1, <2>2, ConstantFacts DEF CallStates, StoreInv, TypeOK
    <3>2. c.cap # None /\ m # None /\ ~(c.cap < m)
      BY <1>1, <2>2 DEF TooOld, Lowered
    <3> HIDE DEF m
    <3> QED
      BY <3>1, <3>2
  <2>4. c.seen.created \in Int /\ c.seen.expires \in Int \cup {None}
    BY <2>2 DEF Rows
  <2> HIDE DEF m
  <2> QED
    BY <2>1, <2>2, <2>3, <2>4, ConstantFacts
    DEF Within, TooOld, Expired, Second
<1>2. StoreInv => AgeLimitOnlyTightens
  BY <1>1 DEF AgeLimitOnlyTightens
<1> QED
  BY <1>2, StoreInvariant, PTL

-----------------------------------------------------------------------------
(***************************************************************************)
(* Users lose tokens only by their own doing.                              *)
(***************************************************************************)
\* A call that goes on has changed.
LEMMA Moves ==
  ASSUME StoreInv, NEW t \in Calls, Continue(t, Idle), call[t].at # "idle"
  PROVE  call'[t] # call[t]
<1>1. call'[t] = Idle
  BY ContinueType, IdleType DEF StoreInv
<1> QED
  BY <1>1 DEF Idle

LEMMA OwnDoingStep ==
  ASSUME StoreInv, [Next]_vars, NEW k \in Tokens,
         rows[k] # None, rows'[k] = None
  PROVE  OwnDoing(k)
<1>1. k \in minted
  BY DEF StoreInv, RowPhase
<1>2. ~ UNCHANGED rows
  OBVIOUS
<1>3. ASSUME NEW t \in Calls, NEW j \in Tokens, DeleteRow(j), j = call[t].bearer,
             Continue(t, Idle), call[t].at # "idle"
      PROVE  OwnDoing(k)
  <2>1. j = k
    BY <1>3, DeleteType DEF StoreInv
  <2> QED
    BY <1>3, <2>1, Moves DEF OwnDoing
<1>4. ASSUME NEW t \in Calls, Sweep(t) \/ DeleteStale(t) \/ DeleteCurrent(t)
      PROVE  OwnDoing(k)
  <2>1. CallOK(call[t])
    BY DEF StoreInv, CallPhase
  <2>2. call[t].bearer \in Tokens
    BY <1>4, <2>1
    DEF Sweep, DeleteStale, DeleteCurrent, CallOK, HoldsRow, StoreInv, TypeOK
  <2>3. DeleteRow(call[t].bearer)
    BY <1>2, <1>4, <2>1 DEF Sweep, DeleteStale, DeleteCurrent, CallOK
  <2> QED
    BY <1>3, <1>4, <2>2, <2>3 DEF Sweep, DeleteStale, DeleteCurrent, Acknowledge
<1>5. ASSUME NEW t \in Calls, DeleteOwned(t)
      PROVE  OwnDoing(k)
  <2>1. call[t].target \in Tokens
    BY <1>5 DEF DeleteOwned, StoreInv, TypeOK, CallPhase, CallOK
  <2>2. Owned(call[t]) /\ DeleteRow(call[t].target) /\ Continue(t, Idle)
    BY <1>2, <1>5 DEF DeleteOwned, Acknowledge
  <2>3. call[t].target = k
    BY <2>1, <2>2, DeleteType DEF StoreInv
  <2> QED
    BY <1>5, <2>2, <2>3, Moves DEF DeleteOwned, Owned, OwnDoing
<1>6. ASSUME NEW t \in Calls, Insert(t)
      PROVE  FALSE
  BY <1>1, <1>6 DEF Insert, StoreInv, TypeOK
<1>7. ASSUME NEW t \in Calls,
             \/ Begin(t) \/ Abort(t) \/ Answer(t)
             \/ Select(t) \/ Touch(t) \/ ResolveForServe(t) \/ ResolveForMint(t)
             \/ Find(t)
      PROVE  FALSE
  BY <1>2, <1>7
  DEF Begin, Serve, MintMore, RevokeById, BeginVerify, Login, RevokeCurrent,
      Abort, Answer, Select, Touch, ResolveForServe, ResolveForMint, Find
<1> QED
  BY <1>2, <1>4, <1>5, <1>6, <1>7 DEF Next, Handle, Tick, vars

(***************************************************************************)
(* For any number of users, tokens and calls: a row disappears only by a   *)
(* call that presented this token or was verified as a token of the same   *)
(* subject (revoke_by_id_handler).                                         *)
(***************************************************************************)
THEOREM UsersLoseOwnTokensOnly == Spec => OwnTokensOnly
<1>1. StoreInv /\ [Next]_vars
        => [\A k \in Tokens :
              rows[k] # None /\ rows'[k] = None => OwnDoing(k)]_vars
  BY OwnDoingStep
<1> QED
  BY <1>1, StoreInvariant, PTL DEF Spec, OwnTokensOnly

-----------------------------------------------------------------------------
(***************************************************************************)
(* The store implements TokenLife.                                         *)
(***************************************************************************)
StatusMap == [k \in Tokens |-> StatusOf(k)]
HoldsMap == [t \in Calls |-> HeldBy(t)]

LEMMA StatusStays ==
  ASSUME UNCHANGED <<rows, minted>>
  PROVE  UNCHANGED StatusMap
BY DEF StatusMap, StatusOf

\* Deleting a row ends the life of a token, if it still lives.
LEMMA StatusDies ==
  ASSUME StoreInv, NEW k \in minted, DeleteRow(k) \/ UNCHANGED rows,
         UNCHANGED minted
  PROVE  \/ UNCHANGED StatusMap
         \/ /\ StatusMap[k] = "live"
            /\ StatusMap' = [StatusMap EXCEPT ![k] = "dead"]
<1>1. k \in Tokens
  BY DEF StoreInv, TypeOK
<1>2. CASE UNCHANGED rows \/ rows[k] = None
  <2>1. \A j \in Tokens : rows'[j] = rows[j]
    BY <1>1, <1>2, DeleteType DEF StoreInv
  <2>2. \A j \in Tokens : StatusOf(j)' = StatusOf(j)
    BY <2>1 DEF StatusOf
  <2> QED
    BY <2>2 DEF StatusMap
<1>3. CASE DeleteRow(k) /\ rows[k] # None
  <2>1. rows'[k] = None /\ \A j \in Tokens : j # k => rows'[j] = rows[j]
    BY <1>1, <1>3, DeleteType DEF StoreInv
  <2>2. StatusOf(k) = "live" /\ StatusOf(k)' = "dead"
    BY <1>3, <2>1 DEF StatusOf
  <2>3. \A j \in Tokens : j # k => StatusOf(j)' = StatusOf(j)
    BY <2>1 DEF StatusOf
  <2> QED
    BY <1>1, <2>2, <2>3 DEF StatusMap
<1> QED
  BY <1>2, <1>3

\* The identity that one call holds decides how the holdings change.
LEMMA HoldsStep ==
  ASSUME StoreInv, NEW t \in Calls,
         \A u \in Calls : u # t => call'[u] = call[u]
  PROVE  HoldsMap' = [HoldsMap EXCEPT ![t] = HeldBy(t)']
<1>1. \A u \in Calls : u # t => HeldBy(u)' = HeldBy(u)
  BY DEF HeldBy
<1> QED
  BY <1>1 DEF HoldsMap

LEMMA IdleHolds ==
  ASSUME StoreInv, NEW t \in Calls, Continue(t, Idle)
  PROVE  HoldsMap' = [HoldsMap EXCEPT ![t] = None]
<1>1. call'[t] = Idle /\ \A u \in Calls : u # t => call'[u] = call[u]
  BY ContinueType, IdleType DEF StoreInv
<1>2. HeldBy(t)' = None
  BY <1>1 DEF HeldBy, Idle
<1> QED
  BY <1>1, <1>2, HoldsStep

LifeNext == [Life!Next]_(Life!lifeVars)

\* The kinds of steps, in the terms of TokenLife.
LEMMA LifeStutters ==
  ASSUME UNCHANGED StatusMap, UNCHANGED HoldsMap
  PROVE  LifeNext
BY DEF LifeNext, Life!lifeVars, StatusMap, HoldsMap

LEMMA LifeFinishes ==
  ASSUME NEW t \in Calls, HoldsMap' = [HoldsMap EXCEPT ![t] = None],
         UNCHANGED StatusMap
  PROVE  LifeNext
BY DEF LifeNext, Life!Next, Life!Finish, StatusMap, HoldsMap

LEMMA LifeAccepts ==
  ASSUME NEW t \in Calls, NEW k \in Tokens, HoldsMap[t] = None,
         StatusMap[k] = "live", HoldsMap' = [HoldsMap EXCEPT ![t] = k],
         UNCHANGED StatusMap
  PROVE  LifeNext
BY DEF LifeNext, Life!Next, Life!Accept, StatusMap, HoldsMap

LEMMA LifeBegins ==
  ASSUME NEW t \in Calls, NEW k \in Tokens, StatusMap[k] = "unborn",
         StatusMap' = [StatusMap EXCEPT ![k] = "live"],
         HoldsMap' = [HoldsMap EXCEPT ![t] = None]
  PROVE  LifeNext
BY DEF LifeNext, Life!Next, Life!Become, Life!Finish, StatusMap, HoldsMap

LEMMA LifeEnds ==
  ASSUME NEW t \in Calls, NEW k \in Tokens, StatusMap[k] = "live",
         StatusMap' = [StatusMap EXCEPT ![k] = "dead"],
         HoldsMap' = [HoldsMap EXCEPT ![t] = None]
  PROVE  LifeNext
BY DEF LifeNext, Life!Next, Life!Become, Life!Finish, StatusMap, HoldsMap

\* A call that keeps the identity it holds changes nothing.
LEMMA KeepsHolding ==
  ASSUME StoreInv, NEW t \in Calls, NEW c \in CallStates, Continue(t, c),
         \/ c.bearer = call[t].bearer /\ c.subject = call[t].subject
         \/ HeldBy(t) = None /\ (c.subject = None \/ c.bearer = None),
         UNCHANGED <<rows, minted>>
  PROVE  LifeNext
<1>1. call'[t] = c /\ \A u \in Calls : u # t => call'[u] = call[u]
  BY ContinueType DEF StoreInv
<1>2. HeldBy(t)' = HeldBy(t)
  BY <1>1 DEF HeldBy
<1>3. UNCHANGED HoldsMap
  BY <1>1, <1>2, HoldsStep DEF HoldsMap
<1> QED
  BY <1>3, StatusStays, LifeStutters

\* The step of a call that ends, and with which at most its own token dies.
LEMMA EndsWithToken ==
  ASSUME StoreInv, NEW t \in Calls, Continue(t, Idle), NEW k \in minted,
         DeleteRow(k) \/ UNCHANGED rows, UNCHANGED minted
  PROVE  LifeNext
<1>1. k \in Tokens
  BY DEF StoreInv, TypeOK
<1>2. HoldsMap' = [HoldsMap EXCEPT ![t] = None]
  BY IdleHolds
<1> QED
  BY <1>1, <1>2, StatusDies, LifeFinishes, LifeEnds

LEMMA LifeVerify ==
  ASSUME StoreInv, NEW t \in Calls, Select(t) \/ Sweep(t) \/ Touch(t)
  PROVE  LifeNext
<1>1. call[t] \in CallStates /\ CallOK(call[t])
  BY DEF StoreInv, TypeOK, CallPhase
<1>2. CASE Select(t)
  <2> DEFINE c == call[t]
             row == rows[c.bearer]
             swept == [c EXCEPT !.at = "sweep", !.started = 0]
             touched == [c EXCEPT !.at = "touch", !.started = 0,
                                  !.seen = row, !.subject = row.subject]
  <2>1. c.bearer \in Tokens /\ c.bearer # None /\ c.subject = None
    BY <1>1, <1>2, ConstantFacts DEF Select, CallOK, StoreInv, TypeOK
  <2>2. UNCHANGED StatusMap
    BY <1>2, StatusStays DEF Select
  <2>3. CASE Continue(t, Idle)
    BY <2>2, <2>3, IdleHolds, LifeFinishes
  <2>4. CASE Continue(t, swept)
    <3>1. swept \in CallStates
      BY <1>1, SelectType
    <3>2. swept.bearer = c.bearer /\ swept.subject = c.subject
      BY <1>1 DEF CallStates
    <3> QED
      BY <1>2, <2>4, <3>1, <3>2, KeepsHolding DEF Select
  <2>5. CASE row # None /\ Continue(t, touched)
    <3>1. row \in Rows /\ row.subject \in Subjects
      BY <2>1, <2>5 DEF StoreInv, TypeOK, Rows
    <3>2. touched \in CallStates
      BY <1>1, <3>1, SelectType
    <3>3. call'[t] = touched /\ \A u \in Calls : u # t => call'[u] = call[u]
      BY <2>5, <3>2, ContinueType DEF StoreInv
    <3>4. touched.bearer = c.bearer /\ touched.subject = row.subject
      BY <1>1 DEF CallStates
    <3>5. HeldBy(t)' = c.bearer
      BY <3>1, <3>3, <3>4, ConstantFacts DEF HeldBy
    <3>6. HoldsMap' = [HoldsMap EXCEPT ![t] = c.bearer]
      BY <3>3, <3>5, HoldsStep
    <3>7. HoldsMap[t] = None /\ StatusMap[c.bearer] = "live"
      BY <2>1, <2>5 DEF HoldsMap, HeldBy, StatusMap, StatusOf
    <3> QED
      BY <2>1, <2>2, <3>6, <3>7, LifeAccepts
  <2> QED
    BY <1>2, <2>3, <2>4, <2>5 DEF Select
<1>3. CASE Sweep(t)
  <2>1. call[t].bearer \in minted
    BY <1>1, <1>3 DEF Sweep, CallOK
  <2> QED
    BY <1>3, <2>1, EndsWithToken DEF Sweep
<1>4. CASE Touch(t)
  <2>1. AfterVerify(call[t]) \in CallStates
    <3>1. /\ (IF call[t].op = "revokeById" THEN "delete" ELSE "resolve") \in Places
          /\ (IF call[t].op = "serve" THEN call[t].seen ELSE None)
               \in Rows \cup {None}
      BY <1>1 DEF CallStates, Places
    <3> QED
      BY <1>1, <3>1, ZenonT(40) DEF AfterVerify, CallStates
  <2>2. /\ AfterVerify(call[t]).bearer = call[t].bearer
        /\ AfterVerify(call[t]).subject = call[t].subject
    BY <1>1 DEF AfterVerify, CallStates
  <2> QED
    BY <1>4, <2>1, <2>2, KeepsHolding DEF Touch
<1> QED
  BY <1>2, <1>3, <1>4

LEMMA LifeResolve ==
  ASSUME StoreInv, NEW t \in Calls,
         ResolveForServe(t) \/ DeleteStale(t) \/ ResolveForMint(t)
  PROVE  LifeNext
<1>1. call[t] \in CallStates /\ CallOK(call[t])
  BY DEF StoreInv, TypeOK, CallPhase
<1>2. CASE ResolveForServe(t)
  <2>1. PICK limit \in Limits :
          Continue(t, IF TooOld(call[t].seen, limit)
                        THEN [call[t] EXCEPT !.at = "stale", !.cap = limit]
                        ELSE Idle)
    BY <1>2 DEF ResolveForServe
  <2> DEFINE c == [call[t] EXCEPT !.at = "stale", !.cap = limit]
  <2>2. c \in CallStates /\ c.bearer = call[t].bearer
        /\ c.subject = call[t].subject
    BY <1>1 DEF CallStates, Places
  <2>3. CASE Continue(t, c)
    BY <1>2, <2>2, <2>3, KeepsHolding DEF ResolveForServe
  <2>4. CASE Continue(t, Idle)
    BY <1>2, <2>4, StatusStays, IdleHolds, LifeFinishes DEF ResolveForServe
  <2> QED
    BY <2>1, <2>3, <2>4
<1>3. CASE DeleteStale(t)
  <2>1. call[t].bearer \in minted
    BY <1>1, <1>3 DEF DeleteStale, CallOK, HoldsRow
  <2> QED
    BY <1>3, <2>1, EndsWithToken DEF DeleteStale
<1>4. CASE ResolveForMint(t)
  <2>1. /\ \A u \in Calls : u # t => call'[u] = call[u]
        /\ call'[t].bearer = call[t].bearer
        /\ call'[t].subject = call[t].subject
    <3>1. PICK limit \in Limits :
            LET ttl == Clamp(call[t].ttl, limit) IN
            Continue(t, [call[t] EXCEPT !.at = "insert", !.cap = limit,
                           !.ttl = None, !.resolved = Stored(now),
                           !.expires = IF ttl = None THEN None
                                       ELSE Stored(now + ttl * Second)])
      BY <1>4 DEF ResolveForMint
    <3> DEFINE e == IF Clamp(call[t].ttl, limit) = None THEN None
                    ELSE Stored(now + Clamp(call[t].ttl, limit) * Second)
               c == [call[t] EXCEPT !.at = "insert", !.cap = limit,
                       !.ttl = None, !.resolved = Stored(now), !.expires = e]
    <3>2. Continue(t, c)
      BY <3>1
    <3> HIDE DEF e
    <3>3. c.bearer = call[t].bearer /\ c.subject = call[t].subject
      BY <1>1 DEF CallStates
    <3> HIDE DEF c
    <3> QED
      BY <3>2, <3>3, ContinueWrites DEF StoreInv
  <2>2. HeldBy(t)' = HeldBy(t)
    BY <2>1 DEF HeldBy
  <2>3. UNCHANGED HoldsMap
    BY <2>1, <2>2, HoldsStep DEF HoldsMap
  <2> QED
    BY <1>4, <2>3, StatusStays, LifeStutters DEF ResolveForMint
<1> QED
  BY <1>2, <1>3, <1>4

LEMMA LifeInsert ==
  ASSUME StoreInv, NEW t \in Calls, Insert(t)
  PROVE  LifeNext
<1>1. PICK k \in Tokens \ minted, time \in call[t].resolved .. now :
        /\ Continue(t, [Idle EXCEPT !.at = "reply", !.target = k])
        /\ rows' = [rows EXCEPT ![k] = [subject |-> call[t].subject,
                      created |-> Stored(time), expires |-> call[t].expires]]
        /\ minted' = minted \cup {k}
  BY DEF Insert
<1> DEFINE row == [subject |-> call[t].subject, created |-> Stored(time),
                   expires |-> call[t].expires]
           c == [Idle EXCEPT !.at = "reply", !.target = k]
<1>2. StoreInv'
  BY InsertStep
<1>3. rows'[k] = row /\ \A j \in Tokens : j # k => rows'[j] = rows[j]
  BY <1>1 DEF StoreInv, TypeOK
<1>4. row # None
  <2>1. call[t] \in CallStates /\ CallOK(call[t]) /\ call[t].at = "insert"
    BY DEF StoreInv, TypeOK, CallPhase, Insert
  <2>2. Stored(time) \in Int
    BY <2>1, StoredFacts DEF CallStates
  <2>3. row \in Rows
    BY <2>1, <2>2 DEF Rows, CallStates, CallOK
  <2> QED
    BY <2>3, ConstantFacts
<1>5. StatusOf(k) = "unborn" /\ StatusOf(k)' = "live"
  BY <1>1, <1>3, <1>4 DEF StatusOf, StoreInv, RowPhase
<1>6. \A j \in Tokens : j # k => StatusOf(j)' = StatusOf(j)
  BY <1>1, <1>3 DEF StatusOf
<1>7. StatusMap[k] = "unborn" /\ StatusMap' = [StatusMap EXCEPT ![k] = "live"]
  BY <1>1, <1>5, <1>6 DEF StatusMap
<1>8. c \in CallStates /\ c.subject = None
  BY <1>1, IdleType DEF CallStates, Places, Idle
<1>9. call'[t] = c /\ \A u \in Calls : u # t => call'[u] = call[u]
  BY <1>1, <1>8, ContinueType DEF StoreInv
<1>10. HeldBy(t)' = None
  BY <1>8, <1>9 DEF HeldBy
<1>11. HoldsMap' = [HoldsMap EXCEPT ![t] = None]
  BY <1>9, <1>10, HoldsStep
<1> QED
  BY <1>1, <1>7, <1>11, LifeBegins

LEMMA LifeRevoke ==
  ASSUME StoreInv, NEW t \in Calls,
         Find(t) \/ DeleteCurrent(t) \/ DeleteOwned(t)
  PROVE  LifeNext
<1>1. call[t] \in CallStates /\ CallOK(call[t])
  BY DEF StoreInv, TypeOK, CallPhase
<1>2. CASE Find(t)
  <2> DEFINE c == [call[t] EXCEPT !.at = "delete"]
  <2>1. c \in CallStates /\ c.bearer = call[t].bearer
        /\ c.subject = call[t].subject
    BY <1>1 DEF CallStates, Places
  <2>2. CASE Continue(t, c)
    BY <1>2, <2>1, <2>2, KeepsHolding DEF Find
  <2>3. CASE Continue(t, Idle)
    BY <1>2, <2>3, StatusStays, IdleHolds, LifeFinishes DEF Find
  <2> QED
    BY <1>2, <2>2, <2>3 DEF Find
<1>3. CASE DeleteCurrent(t) \/ DeleteOwned(t)
  <2>1. call[t].target \in minted
    BY <1>1, <1>3 DEF DeleteCurrent, DeleteOwned, CallOK
  <2> QED
    BY <1>3, <2>1, EndsWithToken DEF DeleteCurrent, DeleteOwned, Acknowledge
<1> QED
  BY <1>2, <1>3

\* Ending a call without a deletion.
LEMMA LifeEnd ==
  ASSUME StoreInv, NEW t \in Calls, Answer(t) \/ Abort(t)
  PROVE  LifeNext
BY StatusStays, IdleHolds, LifeFinishes DEF Answer, Abort

\* A call that begins holds nothing yet.
LEMMA LifeBegin ==
  ASSUME StoreInv, NEW t \in Calls, Begin(t)
  PROVE  LifeNext
<1>1. call[t].at = "idle" /\ UNCHANGED <<rows, minted>>
  BY DEF Begin, Serve, MintMore, RevokeById, BeginVerify, Login, RevokeCurrent
<1>2. call[t] = Idle
  BY <1>1 DEF StoreInv, CallPhase, CallOK
<1>3. HeldBy(t) = None
  BY <1>2 DEF HeldBy, Idle
<1>4. /\ \A u \in Calls : u # t => call'[u] = call[u]
      /\ call'[t].subject = None \/ call'[t].bearer = None
  <2>1. ASSUME NEW c, Continue(t, c), c.subject = None \/ c.bearer = None
        PROVE  /\ \A u \in Calls : u # t => call'[u] = call[u]
               /\ call'[t].subject = None \/ call'[t].bearer = None
    BY <2>1, ContinueWrites DEF StoreInv
  <2> DEFINE Goal == /\ \A u \in Calls : u # t => call'[u] = call[u]
                     /\ call'[t].subject = None \/ call'[t].bearer = None
  <2> HIDE DEF Goal
  <2>2. ASSUME NEW c, BeginVerify(t, c), c \in CallStates, c.subject = None
        PROVE  Goal
    <3> DEFINE d == [c EXCEPT !.at = "select", !.started = now]
    <3>1. Continue(t, d)
      BY <2>2 DEF BeginVerify
    <3>2. d.subject = None
      BY <2>2 DEF CallStates
    <3> HIDE DEF d
    <3> QED
      BY <2>1, <3>1, <3>2 DEF Goal
  <2> USE DEF Idle, CallStates, Operations
  <2>3. known \subseteq minted /\ minted \subseteq Tokens
    BY DEF StoreInv, TypeOK
  <2>4. ASSUME NEW k \in known, Serve(t, k) PROVE Goal
    <3> DEFINE c == [Idle EXCEPT !.op = "serve", !.bearer = k]
    <3>1. c \in CallStates /\ c.subject = None
      BY <2>3, IdleType
    <3> QED
      BY <2>2, <2>4, <3>1 DEF Serve
  <2>5. ASSUME NEW k \in known, NEW ttl \in Ttls \cup {None}, MintMore(t, k, ttl)
        PROVE  Goal
    <3> DEFINE c == [Idle EXCEPT !.op = "mint", !.bearer = k, !.ttl = ttl]
    <3>1. c \in CallStates /\ c.subject = None
      BY <2>3, IdleType
    <3> QED
      BY <2>2, <2>5, <3>1 DEF MintMore
  <2>6. ASSUME NEW k \in known, NEW target \in minted, RevokeById(t, k, target)
        PROVE  Goal
    <3> DEFINE c == [Idle EXCEPT !.op = "revokeById", !.bearer = k,
                                 !.target = target]
    <3>1. c \in CallStates /\ c.subject = None
      BY <2>3, IdleType
    <3> QED
      BY <2>2, <2>6, <3>1 DEF RevokeById
  <2>7. ASSUME NEW s \in Subjects, NEW ttl \in Ttls \cup {None}, Login(t, s, ttl)
        PROVE  Goal
    <3> DEFINE c == [Idle EXCEPT !.at = "resolve", !.op = "mint",
                                 !.subject = s, !.ttl = ttl]
    <3>1. c.bearer = None
      OBVIOUS
    <3> QED
      BY <2>1, <2>7, <3>1 DEF Login, Goal
  <2>8. ASSUME NEW k \in known, RevokeCurrent(t, k) PROVE Goal
    <3> DEFINE c == [Idle EXCEPT !.at = "find", !.op = "revokeCurrent",
                                 !.bearer = k, !.target = k]
    <3>1. c.subject = None
      OBVIOUS
    <3> QED
      BY <2>1, <2>8, <3>1 DEF RevokeCurrent, Goal
  <2> QED
    BY <2>4, <2>5, <2>6, <2>7, <2>8 DEF Begin, Goal
<1>5. HeldBy(t)' = HeldBy(t)
  BY <1>3, <1>4 DEF HeldBy
<1>6. UNCHANGED HoldsMap
  BY <1>4, <1>5, HoldsStep DEF HoldsMap
<1> QED
  BY <1>1, <1>6, StatusStays, LifeStutters

LEMMA LifeStep == StoreInv /\ [Next]_vars => LifeNext
<1> SUFFICES ASSUME StoreInv, [Next]_vars PROVE LifeNext
  OBVIOUS
<1>1. ASSUME NEW t \in Calls, Begin(t) \/ Handle(t) \/ Abort(t)
      PROVE  LifeNext
  BY <1>1, LifeBegin, LifeVerify, LifeResolve, LifeInsert, LifeRevoke, LifeEnd
  DEF Handle
<1>2. CASE Tick \/ UNCHANGED vars
  <2>1. UNCHANGED <<rows, minted, call>>
    BY <1>2 DEF Tick, vars
  <2>2. UNCHANGED HoldsMap
    BY <2>1 DEF HoldsMap, HeldBy
  <2> QED
    BY <2>1, <2>2, StatusStays, LifeStutters
<1> QED
  BY <1>1, <1>2 DEF Next

(***************************************************************************)
(* The store implements TokenLife: a token lives once, and a call is given *)
(* the identity of a token only while that lives, for any number of calls, *)
(* tokens and interleaved statements (verify_token, mint_token, revoke).   *)
(***************************************************************************)
THEOREM StoreImplementsTokenLife == Spec => ImplementsTokenLife
<1>1. Init => Life!Init
  BY DEF Init, Life!Init, StatusOf, HeldBy, Idle
<1>2. StoreInv /\ [Next]_vars => [Life!Next]_(Life!lifeVars)
  BY LifeStep DEF LifeNext
<1> QED
  BY <1>1, <1>2, StoreInvariant, PTL DEF Spec, ImplementsTokenLife, Life!Spec
=============================================================================
