----------------------- MODULE RequestPipeline_proofs -----------------------
(***************************************************************************)
(* Machine-checked proofs, for every value of the constants, that the      *)
(* request pipeline is type correct and satisfies its safety properties.   *)
(***************************************************************************)
EXTENDS RequestPipelineInv, FiniteSetTheorems, TLAPS

-----------------------------------------------------------------------------
(***************************************************************************)
(* Type correctness.                                                       *)
(***************************************************************************)
LEMMA SubjectType ==
  \A r \in Requests : Subject(r) \in Subjects /\ Device(r) \in Devices
BY TokenAssumption DEF Subject, Device

\* Writing one counter of one row keeps the type of the counters.
LEMMA RowUpdate ==
  ASSUME NEW f \in [Subjects -> [Days -> Nat]],
         NEW s \in Subjects, NEW d \in Days, NEW n \in Nat
  PROVE  [f EXCEPT ![s][d] = n] \in [Subjects -> [Days -> Nat]]
OBVIOUS

\* Adding to one counter lowers none.
LEMMA CounterGrows ==
  ASSUME NEW f \in [Subjects -> [Days -> Nat]], NEW s \in Subjects,
         NEW d \in Days, NEW n \in Nat, NEW q \in Subjects
  PROVE  /\ f[q][d] <= [f EXCEPT ![s][d] = @ + n][q][d]
         /\ f[q][d] \in Nat
         /\ [f EXCEPT ![s][d] = @ + n][q][d] \in Nat
<1>1. [f EXCEPT ![s][d] = @ + n][q][d] = f[q][d]
      \/ [f EXCEPT ![s][d] = @ + n][q][d] = f[q][d] + n
  OBVIOUS
<1>2. f[q][d] \in Nat
  OBVIOUS
<1> QED
  BY <1>1, <1>2

\* The statements on the usage row keep the types of its counters.
LEMMA UsageTypeStep ==
  ASSUME UsageTypeOK, NEW s \in Subjects, NEW t \in Nat,
         \/ Increment(s, 1, t)
         \/ ReserveOne(s)
         \/ CanRelease(s) /\ ReleaseOne(s)
         \/ Midnight
  PROVE  UsageTypeOK'
<1> USE MaxDayAssumption DEF UsageTypeOK
<1>1. CASE Increment(s, 1, t)
  <2>1. requestCount[s][today] + 1 \in Nat /\ tokenCount[s][today] + t \in Nat
    OBVIOUS
  <2>2. requestCount' \in [Subjects -> [Days -> Nat]]
    BY <1>1, <2>1, RowUpdate DEF Increment
  <2>3. tokenCount' \in [Subjects -> [Days -> Nat]]
    BY <1>1, <2>1, RowUpdate DEF Increment
  <2> QED
    BY <1>1, <2>2, <2>3 DEF Increment
<1>2. CASE ReserveOne(s)
  <2>1. requestCount[s][today] + 1 \in Nat
    OBVIOUS
  <2>2. requestCount' \in [Subjects -> [Days -> Nat]]
    BY <1>2, <2>1, RowUpdate DEF ReserveOne
  <2> QED
    BY <1>2, <2>2 DEF ReserveOne
<1>3. CASE CanRelease(s) /\ ReleaseOne(s)
  <2>1. requestCount[s][today] - 1 \in Nat
    BY <1>3 DEF CanRelease
  <2>2. requestCount' \in [Subjects -> [Days -> Nat]]
    BY <1>3, <2>1, RowUpdate DEF ReleaseOne
  <2> QED
    BY <1>3, <2>2 DEF ReleaseOne
<1>4. CASE Midnight
  BY <1>4 DEF Midnight, Days
<1> QED
  BY <1>1, <1>2, <1>3, <1>4

LEMMA TypeInit == Init => TypeOK
BY MaxDayAssumption, MaxSpendAssumption
DEF Init, TypeOK, UsageInit, UsageTypeOK, Days, Steps, Moments, Never

\* One step of the task of a request.
LEMMA TypeHandle ==
  ASSUME TypeOK, NEW r \in Requests, Handle(r)
  PROVE  TypeOK'
<1> USE SubjectType DEF TypeOK, Goto, Moments, usageVars, storeVars, taskVars,
        ledgerVars, arrivalVars, Steps, MiddlewareSteps, ForwardSteps, Ended
<1>1. CASE Arrive(r)
  <2>1. (IF <<Subject(r), today>> \in rowExists
           THEN tokenCount[Subject(r)][today] ELSE Never) \in Nat \cup {Never}
    BY DEF UsageTypeOK
  <2> QED
    BY <1>1, <2>1 DEF Arrive, UsageTypeOK
<1>2. CASE InsertDevice(r)
  <2>1. Append(deviceRows[Device(r)], "active") \in Seq(RowStates)
    BY DEF RowStates
  <2>2. deviceRows' \in [Devices -> Seq(RowStates)]
    BY <1>2, <2>1 DEF InsertDevice
  <2>3. AfterDevice(r) \in Steps /\ pc' = [pc EXCEPT ![r] = AfterDevice(r)]
    BY <1>2 DEF InsertDevice, AfterDevice
  <2>4. pc' \in [Requests -> Steps]
    BY <2>3
  <2>5. UNCHANGED <<usageVars, policy, liveTokens, taskVars, ledgerVars,
                    arrivalVars>>
    BY <1>2 DEF InsertDevice
  <2>6. UsageTypeOK'
    BY <2>5 DEF UsageTypeOK
  <2> QED
    BY <2>2, <2>4, <2>5, <2>6
<1>3. CASE RateLimit(r)
  BY <1>3 DEF RateLimit, UsageTypeOK
<1>4. CASE ResolvePolicy(r)
  BY <1>4 DEF ResolvePolicy, UsageTypeOK
<1>5. CASE DeleteStaleToken(r)
  BY <1>5 DEF DeleteStaleToken, UsageTypeOK
<1>6. CASE CheckDevice(r)
  BY <1>6 DEF CheckDevice, UsageTypeOK
<1>7. CASE LookupDevice(r)
  BY <1>7 DEF LookupDevice, AfterDevice, UsageTypeOK
<1>8. CASE CheckTokenQuota(r)
  BY <1>8 DEF CheckTokenQuota, UsageTypeOK
<1>9. CASE AllowUnreserved(r)
  BY <1>9 DEF AllowUnreserved, UsageTypeOK
<1>10. CASE RefuseRequest(r)
  BY <1>10 DEF RefuseRequest, UsageTypeOK
<1>11. CASE Deny(r)
  BY <1>11 DEF Deny, UsageTypeOK
<1>12. CASE ForwardFails(r)
  BY <1>12 DEF ForwardFails, UsageTypeOK
<1>13. CASE ForwardBuffered(r)
  BY <1>13 DEF ForwardBuffered, UsageTypeOK
<1>14. CASE ForwardStreams(r)
  BY <1>14 DEF ForwardStreams, UsageTypeOK
<1>15. CASE StreamUsage(r)
  BY <1>15 DEF StreamUsage, UsageTypeOK
<1>16. CASE EndStream(r)
  BY <1>16 DEF EndStream, UsageTypeOK
<1>17. CASE Audit(r)
  BY <1>17 DEF Audit, UsageTypeOK
<1>18. CASE ReserveRequest(r)
  <2>1. UsageTypeOK'
    BY <1>18, UsageTypeStep DEF ReserveRequest
  <2>2. today \in Moments
    BY DEF UsageTypeOK
  <2> QED
    BY <1>18, <2>1, <2>2 DEF ReserveRequest, ReserveOne
<1>19. CASE Release(r)
  <2>1. \/ UNCHANGED usageVars
        \/ CanRelease(Subject(r)) /\ ReleaseOne(Subject(r))
    BY <1>19 DEF Release
  <2>2. UsageTypeOK'
    BY <2>1, UsageTypeStep DEF UsageTypeOK
  <2>3. today \in Moments
    BY DEF UsageTypeOK
  <2>4. \/ UNCHANGED releasedOn
        \/ releasedOn' = [releasedOn EXCEPT ![r] = today]
    BY <1>19 DEF Release
  <2>5. releasedOn' \in [Requests -> Moments]
    BY <2>3, <2>4, ZenonT(40)
  <2>6. pc' = [pc EXCEPT ![r] = "failed"]
    BY <1>19 DEF Release
  <2>7. pc' \in [Requests -> Steps]
    BY <2>6
  <2>8. UNCHANGED <<storeVars, taskVars, reservedOn, recordedOn, arrivalVars>>
    BY <1>19 DEF Release
  <2> QED
    BY <2>2, <2>5, <2>7, <2>8
<1>20. CASE Count(r)
  <2>1. CASE UNCHANGED <<usageVars, recordedOn>>
    BY <1>20, <2>1 DEF Count, UsageTypeOK
  <2>2. CASE /\ Increment(Subject(r), 1, spent[r])
             /\ recordedOn' = [recordedOn EXCEPT ![r] = today]
    <3>1. spent[r] \in Nat
      BY MaxSpendAssumption
    <3>2. UsageTypeOK'
      BY <2>2, <3>1, UsageTypeStep
    <3>3. today \in Moments
      BY DEF UsageTypeOK
    <3> QED
      BY <1>20, <2>2, <3>2, <3>3 DEF Count
  <2> QED
    BY <1>20, <2>1, <2>2 DEF Count
<1> QED
  BY <1>1, <1>2, <1>3, <1>4, <1>5, <1>6, <1>7, <1>8, <1>9, <1>10, <1>11, <1>12, <1>13, <1>14, <1>15, <1>16, <1>17, <1>18, <1>19, <1>20 DEF Handle

\* Faults and the environment.
LEMMA TypeOther ==
  ASSUME TypeOK,
         (\E r \in Requests : Fault(r)) \/ Environment
  PROVE  TypeOK'
<1> USE DEF TypeOK, usageVars, storeVars, taskVars, ledgerVars, arrivalVars,
        Steps, MiddlewareSteps, ForwardSteps, Ended
<1>1. ASSUME NEW r \in Requests, AnswerError(r) PROVE TypeOK'
  BY <1>1 DEF AnswerError, UsageTypeOK
<1>2. ASSUME NEW r \in Requests, Disconnect(r) PROVE TypeOK'
  BY <1>2 DEF Disconnect, UsageTypeOK
<1>3. ASSUME NEW s \in Subjects, NEW p \in Policies, SetPolicy(s, p) PROVE TypeOK'
  BY <1>3 DEF SetPolicy, UsageTypeOK
<1>4. ASSUME NEW v \in Devices, RevokeDevice(v) PROVE TypeOK'
  <2>1. [i \in DOMAIN deviceRows[v] |-> "revoked"] \in Seq(RowStates)
    BY DEF RowStates
  <2>2. deviceRows' \in [Devices -> Seq(RowStates)]
    BY <1>4, <2>1 DEF RevokeDevice, SetRevoked
  <2> QED
    BY <1>4, <2>2 DEF RevokeDevice, SetRevoked, UsageTypeOK
<1>5. ASSUME NEW v \in Devices, ReinstateDevice(v) PROVE TypeOK'
  <2>1. [i \in DOMAIN deviceRows[v] |-> "active"] \in Seq(RowStates)
    BY DEF RowStates
  <2>2. deviceRows' \in [Devices -> Seq(RowStates)]
    BY <1>5, <2>1 DEF ReinstateDevice, SetRevoked
  <2> QED
    BY <1>5, <2>2 DEF ReinstateDevice, SetRevoked, UsageTypeOK
<1>6. ASSUME NEW k \in Tokens, RevokeToken(k) PROVE TypeOK'
  BY <1>6 DEF RevokeToken, UsageTypeOK
<1>7. CASE NextDay
  <2>1. UsageTypeOK'
    BY <1>7, MaxDayAssumption DEF NextDay, Midnight, UsageTypeOK, Days
  <2> QED
    BY <1>7, <2>1 DEF NextDay
<1>8. CASE Restart
  BY <1>8 DEF Restart, UsageTypeOK
<1> QED
  BY <1>1, <1>2, <1>3, <1>4, <1>5, <1>6, <1>7, <1>8 DEF Fault, Environment

(***************************************************************************)
(* Every reachable state is type correct; in particular no counter of any  *)
(* day becomes negative, whatever the order of reservations, outcomes and  *)
(* releases (usage.rs).                                                    *)
(***************************************************************************)
THEOREM TypeCorrect == Spec => []TypeOK
<1>1. TypeOK /\ [Next]_vars => TypeOK'
  <2> SUFFICES ASSUME TypeOK, [Next]_vars PROVE TypeOK'
    OBVIOUS
  <2>1. CASE Next
    BY <2>1, TypeHandle, TypeOther DEF Next
  <2>2. CASE UNCHANGED vars
    BY <2>2 DEF vars, TypeOK, UsageTypeOK, usageVars, storeVars, taskVars,
       ledgerVars, arrivalVars
  <2> QED
    BY <2>1, <2>2
<1> QED
  BY TypeInit, <1>1, PTL DEF Spec

-----------------------------------------------------------------------------
(***************************************************************************)
(* Where reservations, releases and recorded outcomes can come from.       *)
(***************************************************************************)
LEMMA LedgerPhaseInit == Init => LedgerPhase
BY DEF Init, LedgerPhase, LedgerPhaseOf, Forwarded, ForwardSteps, Never

\* A task that is not allowed yet moves within the middleware.
LEMMA LedgerWaits ==
  ASSUME TypeOK, LedgerPhase, NEW r \in Requests, r \notin allowed, NEW p,
         p \notin ForwardSteps \cup {"failed", "done"},
         pc' = [pc EXCEPT ![r] = p],
         UNCHANGED <<today, pol, allowed, ledgerVars>>
  PROVE  LedgerPhase'
<1>1. pc'[r] = p /\ \A q \in Requests : q # r => pc'[q] = pc[q]
  BY DEF TypeOK
<1>2. LedgerPhaseOf(r)'
  BY <1>1 DEF LedgerPhase, LedgerPhaseOf, ledgerVars
<1>3. ASSUME NEW q \in Requests, q # r PROVE LedgerPhaseOf(q)'
  BY <1>1, <1>3 DEF LedgerPhase, LedgerPhaseOf, ledgerVars
<1> QED
  BY <1>2, <1>3 DEF LedgerPhase

LEMMA LedgerPhaseHandle ==
  ASSUME TypeOK, LedgerPhase, NEW r \in Requests, Handle(r)
  PROVE  LedgerPhase'
<1> USE MaxDayAssumption, SubjectType DEF TypeOK, UsageTypeOK, Goto, LedgerPhase, LedgerPhaseOf, usageVars, storeVars, taskVars, ledgerVars,
        arrivalVars, Forwarded, MiddlewareSteps, ForwardSteps, Ended, Steps,
        Never, Moments, Days
<1>1. CASE Arrive(r)
  BY <1>1, ZenonT(40) DEF Arrive
<1>2. CASE RateLimit(r)
  BY <1>2 DEF RateLimit
<1>3. CASE ResolvePolicy(r)
  BY <1>3, ZenonT(40) DEF ResolvePolicy
<1>4. CASE DeleteStaleToken(r)
  BY <1>4 DEF DeleteStaleToken
<1>5. CASE CheckDevice(r)
  BY <1>5 DEF CheckDevice
<1>6. CASE LookupDevice(r)
  <2>1. r \notin allowed
    BY <1>6 DEF LookupDevice
  <2>2. AfterDevice(r) \in {"tokenQuota", "deny"}
    BY DEF AfterDevice
  <2>3. PICK p \in {"insert", "tokenQuota", "deny"} : pc' = [pc EXCEPT ![r] = p]
    BY <1>6, <2>2 DEF LookupDevice
  <2> QED
    BY <1>6, <2>1, <2>3, LedgerWaits DEF LookupDevice
<1>7. CASE InsertDevice(r)
  <2>1. r \notin allowed
    BY <1>7 DEF InsertDevice
  <2>2. AfterDevice(r) \in {"tokenQuota", "deny"}
    BY DEF AfterDevice
  <2>3. pc' = [pc EXCEPT ![r] = AfterDevice(r)]
    BY <1>7 DEF InsertDevice
  <2> QED
    BY <1>7, <2>1, <2>2, <2>3, LedgerWaits DEF InsertDevice
<1>8. CASE CheckTokenQuota(r)
  BY <1>8, ZenonT(40) DEF CheckTokenQuota
<1>9. CASE AllowUnreserved(r)
  BY <1>9 DEF AllowUnreserved
<1>10. CASE ReserveRequest(r)
  <2>1. today' = today
    BY <1>10 DEF ReserveRequest, ReserveOne
  <2>2. LedgerPhaseOf(r)'
    BY <1>10, <2>1 DEF ReserveRequest
  <2>3. ASSUME NEW q \in Requests \ {r} PROVE LedgerPhaseOf(q)'
    BY <1>10, <2>1 DEF ReserveRequest
  <2> QED
    BY <2>2, <2>3
<1>11. CASE RefuseRequest(r)
  BY <1>11 DEF RefuseRequest
<1>12. CASE Deny(r)
  BY <1>12 DEF Deny
<1>13. CASE ForwardFails(r)
  BY <1>13 DEF ForwardFails
<1>14. CASE ForwardBuffered(r)
  BY <1>14 DEF ForwardBuffered
<1>15. CASE ForwardStreams(r)
  BY <1>15 DEF ForwardStreams
<1>16. CASE StreamUsage(r)
  BY <1>16 DEF StreamUsage
<1>17. CASE EndStream(r)
  BY <1>17 DEF EndStream
<1>18. CASE Release(r)
  <2>1. today' = today
    BY <1>18 DEF Release, ReleaseOne
  <2>2. pc[r] = "release" /\ r \in allowed
    BY <1>18 DEF Release
  <2>3. CASE UNCHANGED releasedOn
    BY <1>18, <2>1, <2>2, <2>3 DEF Release
  <2>4. CASE reservedOn[r] # Never /\ releasedOn' = [releasedOn EXCEPT ![r] = today]
    <3>1. /\ pc' = [pc EXCEPT ![r] = "failed"]
          /\ UNCHANGED <<allowed, pol, reservedOn, recordedOn>>
      BY <1>18 DEF Release
    <3>2. reservedOn[r] <= today /\ today # Never
      BY <2>4
    <3>3. /\ pc'[r] = "failed" /\ releasedOn'[r] = today
          /\ \A q \in Requests \ {r} : pc'[q] = pc[q] /\ releasedOn'[q] = releasedOn[q]
      BY <2>4, <3>1
    <3>4. LedgerPhaseOf(r)'
      BY <2>1, <2>2, <2>4, <3>1, <3>2, <3>3
    <3>5. ASSUME NEW q \in Requests \ {r} PROVE LedgerPhaseOf(q)'
      BY <2>1, <3>1, <3>3
    <3> QED
      BY <3>4, <3>5
  <2> QED
    BY <1>18, <2>3, <2>4 DEF Release
<1>19. CASE Audit(r)
  BY <1>19 DEF Audit
<1>20. CASE Count(r)
  <2>1. today' = today
    BY <1>20 DEF Count, Increment
  <2> QED
    BY <1>20, <2>1, SMTT(20) DEF Count
<1> QED
  BY <1>1, <1>2, <1>3, <1>4, <1>5, <1>6, <1>7, <1>8, <1>9, <1>10, <1>11, <1>12, <1>13, <1>14, <1>15, <1>16, <1>17, <1>18, <1>19, <1>20 DEF Handle

LEMMA LedgerPhaseOther ==
  ASSUME TypeOK, LedgerPhase, (\E r \in Requests : Fault(r)) \/ Environment
  PROVE  LedgerPhase'
<1> USE MaxDayAssumption, SubjectType DEF TypeOK, UsageTypeOK, LedgerPhase, LedgerPhaseOf, usageVars, storeVars, taskVars, ledgerVars,
        arrivalVars, Forwarded, MiddlewareSteps, ForwardSteps, Ended, Steps,
        Never, Moments, Days
<1>1. ASSUME NEW r \in Requests, AnswerError(r) PROVE LedgerPhase'
  BY <1>1 DEF AnswerError
<1>2. ASSUME NEW r \in Requests, Disconnect(r) PROVE LedgerPhase'
  BY <1>2 DEF Disconnect, InHandler
<1>3. ASSUME NEW s \in Subjects, NEW p \in Policies, SetPolicy(s, p) PROVE LedgerPhase'
  BY <1>3 DEF SetPolicy
<1>4. ASSUME NEW v \in Devices, RevokeDevice(v) PROVE LedgerPhase'
  BY <1>4 DEF RevokeDevice, SetRevoked
<1>5. ASSUME NEW v \in Devices, ReinstateDevice(v) PROVE LedgerPhase'
  BY <1>5 DEF ReinstateDevice, SetRevoked
<1>6. ASSUME NEW k \in Tokens, RevokeToken(k) PROVE LedgerPhase'
  BY <1>6 DEF RevokeToken
<1>7. CASE NextDay
  BY <1>7, SMTT(20) DEF NextDay, Midnight
<1>8. CASE Restart
  BY <1>8 DEF Restart, InProgress
<1> QED
  BY <1>1, <1>2, <1>3, <1>4, <1>5, <1>6, <1>7, <1>8 DEF Fault, Environment

-----------------------------------------------------------------------------
(***************************************************************************)
(* Counting.                                                               *)
(***************************************************************************)
LEMMA OnFinite ==
  ASSUME NEW f, NEW s, NEW d
  PROVE  /\ IsFiniteSet(On(f, s, d))
         /\ Cardinality(On(f, s, d)) \in Nat
BY RequestsAssumption, FS_Subset, FS_CardinalityType DEF On

\* History g is f with request r dated to a day.
Dated(f, g, r, day) == g = [f EXCEPT ![r] = day]

\* Dating a request that had no date adds it to one day of one subject.
LEMMA Stamp ==
  ASSUME NEW f \in [Requests -> Moments], NEW r \in Requests, f[r] = Never,
         NEW day \in Days, NEW s, NEW d \in Days,
         NEW g, Dated(f, g, r, day)
  PROVE  Cardinality(On(g, s, d)) =
           IF s = Subject(r) /\ d = day THEN Cardinality(On(f, s, d)) + 1
                                       ELSE Cardinality(On(f, s, d))
<1>1. day # Never /\ d # Never
  BY MaxDayAssumption DEF Days, Never
<1>2. CASE s = Subject(r) /\ d = day
  <2>1. On(g, s, d) = On(f, s, d) \cup {r} /\ r \notin On(f, s, d)
    BY <1>1, <1>2 DEF On, Dated
  <2>2. IsFiniteSet(On(f, s, d))
    BY OnFinite
  <2>3. Cardinality(On(f, s, d) \cup {r}) = Cardinality(On(f, s, d)) + 1
    BY <2>1, <2>2, FS_AddElement
  <2> QED
    BY <1>2, <2>1, <2>3
<1>3. CASE ~(s = Subject(r) /\ d = day)
  <2>1. On(g, s, d) = On(f, s, d)
    BY <1>1, <1>3 DEF On, Dated
  <2> QED
    BY <1>3, <2>1
<1> QED
  BY <1>2, <1>3

LEMMA LedgerInit == Init => LedgerBalanced
<1> SUFFICES ASSUME Init, NEW s \in Subjects, NEW d \in Days
             PROVE  requestCount[s][d] + Cardinality(ReleasedOn(s, d))
                      = Cardinality(ReservedOn(s, d)) + Cardinality(RecordedOn(s, d))
  BY DEF LedgerBalanced
<1>1. d # Never
  BY MaxDayAssumption DEF Days, Never
<1>2. ReleasedOn(s, d) = {} /\ ReservedOn(s, d) = {} /\ RecordedOn(s, d) = {}
  BY <1>1 DEF Init, ReleasedOn, ReservedOn, RecordedOn, On
<1> QED
  BY <1>2, FS_EmptySet DEF Init, UsageInit

\* The three steps that write the request counters; all others leave them
\* and the histories of the ledger alone.
LEMMA LedgerSteps ==
  ASSUME Next
  PROVE  \/ UNCHANGED <<requestCount, ledgerVars>>
         \/ \E r \in Requests : ReserveRequest(r)
         \/ \E r \in Requests : Release(r) /\ ReleaseOne(Subject(r))
                                /\ releasedOn' = [releasedOn EXCEPT ![r] = today]
         \/ \E r \in Requests : Count(r) /\ Increment(Subject(r), 1, spent[r])
                                /\ recordedOn' = [recordedOn EXCEPT ![r] = today]
<1> USE DEF usageVars, ledgerVars
<1>1. ASSUME NEW r \in Requests, Handle(r), ~ReserveRequest(r), ~Release(r), ~Count(r)
      PROVE  UNCHANGED <<requestCount, ledgerVars>>
  BY <1>1 DEF Handle, Arrive, RateLimit, ResolvePolicy, DeleteStaleToken,
     CheckDevice, LookupDevice, InsertDevice, CheckTokenQuota, AllowUnreserved,
     RefuseRequest, Deny, ForwardFails, ForwardBuffered, ForwardStreams,
     StreamUsage, EndStream, Audit
<1>2. ASSUME NEW r \in Requests, Release(r)
      PROVE  \/ UNCHANGED <<requestCount, ledgerVars>>
             \/ ReleaseOne(Subject(r)) /\ releasedOn' = [releasedOn EXCEPT ![r] = today]
  BY <1>2 DEF Release
<1>3. ASSUME NEW r \in Requests, Count(r)
      PROVE  \/ UNCHANGED <<requestCount, ledgerVars>>
             \/ /\ Increment(Subject(r), 1, spent[r])
                /\ recordedOn' = [recordedOn EXCEPT ![r] = today]
  BY <1>3 DEF Count
<1>4. ASSUME NEW r \in Requests, Fault(r)
      PROVE  UNCHANGED <<requestCount, ledgerVars>>
  BY <1>4 DEF Fault, AnswerError, Disconnect
<1>5. ASSUME Environment PROVE UNCHANGED <<requestCount, ledgerVars>>
  BY <1>5 DEF Environment, SetPolicy, RevokeDevice, ReinstateDevice, SetRevoked,
     RevokeToken, NextDay, Midnight, Restart
<1> QED
  BY <1>1, <1>2, <1>3, <1>4, <1>5 DEF Next

LEMMA LedgerStep ==
  ASSUME TypeOK, LedgerPhase, LedgerBalanced, Next
  PROVE  LedgerBalanced'
<1> SUFFICES ASSUME NEW s \in Subjects, NEW d \in Days
             PROVE  requestCount'[s][d] + Cardinality(On(releasedOn', s, d))
                      = Cardinality(On(reservedOn', s, d))
                          + Cardinality(On(recordedOn', s, d))
  BY DEF LedgerBalanced, ReservedOn, ReleasedOn, RecordedOn, On
<1>0. requestCount[s][d] + Cardinality(On(releasedOn, s, d))
        = Cardinality(On(reservedOn, s, d)) + Cardinality(On(recordedOn, s, d))
  BY DEF LedgerBalanced, ReservedOn, ReleasedOn, RecordedOn
<1>t. /\ requestCount \in [Subjects -> [Days -> Nat]]
      /\ today \in Days
      /\ reservedOn \in [Requests -> Moments]
      /\ releasedOn \in [Requests -> Moments]
      /\ recordedOn \in [Requests -> Moments]
  BY DEF TypeOK, UsageTypeOK
<1>c. /\ Cardinality(On(releasedOn, s, d)) \in Nat
      /\ Cardinality(On(reservedOn, s, d)) \in Nat
      /\ Cardinality(On(recordedOn, s, d)) \in Nat
      /\ requestCount[s][d] \in Nat
  BY <1>t, OnFinite
<1>1. CASE UNCHANGED <<requestCount, ledgerVars>>
  BY <1>1, <1>0 DEF ledgerVars
<1>2. ASSUME NEW r \in Requests, ReserveRequest(r)
      PROVE  requestCount'[s][d] + Cardinality(On(releasedOn', s, d))
               = Cardinality(On(reservedOn', s, d)) + Cardinality(On(recordedOn', s, d))
  <2>1. reservedOn[r] = Never
    BY <1>2 DEF ReserveRequest, Goto, LedgerPhase, LedgerPhaseOf, Forwarded, ForwardSteps
  <2>2. requestCount'[s][d] = IF s = Subject(r) /\ d = today
                                THEN requestCount[s][d] + 1 ELSE requestCount[s][d]
    BY <1>2, <1>t, SubjectType DEF ReserveRequest, ReserveOne
  <2>3. Cardinality(On(reservedOn', s, d)) =
           IF s = Subject(r) /\ d = today THEN Cardinality(On(reservedOn, s, d)) + 1
                                         ELSE Cardinality(On(reservedOn, s, d))
    <3>1. Dated(reservedOn, reservedOn', r, today)
      BY <1>2 DEF ReserveRequest, Dated
    <3> QED
      BY <1>t, <2>1, <3>1, Stamp
  <2>4. UNCHANGED <<releasedOn, recordedOn>>
    BY <1>2 DEF ReserveRequest
  <2> QED
    BY <1>0, <1>c, <2>2, <2>3, <2>4
<1>3. ASSUME NEW r \in Requests, Release(r), ReleaseOne(Subject(r)),
             releasedOn' = [releasedOn EXCEPT ![r] = today]
      PROVE  requestCount'[s][d] + Cardinality(On(releasedOn', s, d))
               = Cardinality(On(reservedOn', s, d)) + Cardinality(On(recordedOn', s, d))
  <2>1. releasedOn[r] = Never
    BY <1>3 DEF Release, Goto, LedgerPhase, LedgerPhaseOf
  <2>2. requestCount'[s][d] = IF s = Subject(r) /\ d = today
                                THEN requestCount[s][d] - 1 ELSE requestCount[s][d]
    BY <1>3, <1>t, SubjectType DEF ReleaseOne
  <2>3. Cardinality(On(releasedOn', s, d)) =
           IF s = Subject(r) /\ d = today THEN Cardinality(On(releasedOn, s, d)) + 1
                                         ELSE Cardinality(On(releasedOn, s, d))
    <3>1. Dated(releasedOn, releasedOn', r, today)
      BY <1>3 DEF Dated
    <3> QED
      BY <1>t, <2>1, <3>1, Stamp
  <2>4. UNCHANGED <<reservedOn, recordedOn>>
    BY <1>3 DEF Release
  <2>5. CASE s = Subject(r) /\ d = today
    <3>1. /\ requestCount'[s][d] \in Int
          /\ requestCount'[s][d] + 1 = requestCount[s][d]
          /\ Cardinality(On(releasedOn', s, d)) = Cardinality(On(releasedOn, s, d)) + 1
      BY <1>c, <2>2, <2>3, <2>5
    <3> QED
      BY <1>0, <1>c, <2>4, <3>1
  <2>6. CASE ~(s = Subject(r) /\ d = today)
    BY <1>0, <1>c, <2>2, <2>3, <2>4, <2>6
  <2> QED
    BY <2>5, <2>6
<1>4. ASSUME NEW r \in Requests, Count(r), Increment(Subject(r), 1, spent[r]),
             recordedOn' = [recordedOn EXCEPT ![r] = today]
      PROVE  requestCount'[s][d] + Cardinality(On(releasedOn', s, d))
               = Cardinality(On(reservedOn', s, d)) + Cardinality(On(recordedOn', s, d))
  <2>1. recordedOn[r] = Never
    BY <1>4 DEF Count, Goto, LedgerPhase, LedgerPhaseOf
  <2>2. requestCount'[s][d] = IF s = Subject(r) /\ d = today
                                THEN requestCount[s][d] + 1 ELSE requestCount[s][d]
    BY <1>4, <1>t, SubjectType DEF Increment
  <2>3. Cardinality(On(recordedOn', s, d)) =
           IF s = Subject(r) /\ d = today THEN Cardinality(On(recordedOn, s, d)) + 1
                                         ELSE Cardinality(On(recordedOn, s, d))
    <3>1. Dated(recordedOn, recordedOn', r, today)
      BY <1>4 DEF Dated
    <3> QED
      BY <1>t, <2>1, <3>1, Stamp
  <2>4. UNCHANGED <<reservedOn, releasedOn>>
    BY <1>4 DEF Count
  <2> QED
    BY <1>0, <1>c, <2>2, <2>3, <2>4
<1> QED
  BY <1>1, <1>2, <1>3, <1>4, LedgerSteps

-----------------------------------------------------------------------------
(***************************************************************************)
(* The request quota.  A reservation sees all units that are in use: the   *)
(* ledger balances, so the counter it reads is at least the number of the  *)
(* requests admitted so far.                                               *)
(***************************************************************************)
\* What the checks of an allowed request saw does not change any more.
LEMMA AllowedKept ==
  ASSUME TypeOK, LedgerPhase, Next, NEW q \in allowed
  PROVE  /\ q \in Requests
         /\ pol'[q] = pol[q] /\ checkedOn'[q] = checkedOn[q]
         /\ arrivedOn'[q] = arrivedOn[q] /\ seenSpent'[q] = seenSpent[q]
<1> USE DEF taskVars, arrivalVars
<1>0. q \in Requests /\ pc[q] \in Forwarded
  BY DEF TypeOK, LedgerPhase, LedgerPhaseOf
<1>1. ASSUME NEW r \in Requests, Handle(r), ~ResolvePolicy(r), ~Arrive(r), ~CheckTokenQuota(r)
      PROVE  UNCHANGED <<pol, checkedOn, arrivedOn, seenSpent>>
  BY <1>1 DEF Handle, RateLimit, DeleteStaleToken, CheckDevice,
     LookupDevice, InsertDevice, AllowUnreserved, ReserveRequest,
     RefuseRequest, Deny, ForwardFails, ForwardBuffered, ForwardStreams,
     StreamUsage, EndStream, Release, Audit, Count
<1>2. ASSUME NEW r \in Requests, ResolvePolicy(r) \/ Arrive(r) \/ CheckTokenQuota(r)
      PROVE  /\ pol'[q] = pol[q] /\ checkedOn'[q] = checkedOn[q]
             /\ arrivedOn'[q] = arrivedOn[q] /\ seenSpent'[q] = seenSpent[q]
  <2>1. r # q
    BY <1>0, <1>2 DEF ResolvePolicy, Arrive, CheckTokenQuota, Goto, Forwarded, ForwardSteps
  <2> QED
    BY <1>0, <1>2, <2>1 DEF ResolvePolicy, Arrive, CheckTokenQuota, TypeOK
<1>3. ASSUME NEW r \in Requests, Fault(r)
      PROVE  UNCHANGED <<pol, checkedOn, arrivedOn, seenSpent>>
  BY <1>3 DEF Fault, AnswerError, Disconnect
<1>4. ASSUME Environment PROVE UNCHANGED <<pol, checkedOn, arrivedOn, seenSpent>>
  BY <1>4 DEF Environment, SetPolicy, RevokeDevice, ReinstateDevice, SetRevoked,
     RevokeToken, NextDay, Restart
<1> QED
  BY <1>0, <1>1, <1>2, <1>3, <1>4 DEF Next

\* A request becomes allowed at its last check and in no other way.
LEMMA AllowedSteps ==
  ASSUME Next, NEW q \in allowed'
  PROVE  \/ q \in allowed
         \/ q \in Requests /\ (AllowUnreserved(q) \/ ReserveRequest(q))
<1> USE DEF taskVars
<1>1. ASSUME NEW r \in Requests, Handle(r), ~AllowUnreserved(r), ~ReserveRequest(r)
      PROVE  UNCHANGED allowed
  BY <1>1 DEF Handle, Arrive, RateLimit, ResolvePolicy, DeleteStaleToken,
     CheckDevice, LookupDevice, InsertDevice, CheckTokenQuota, RefuseRequest,
     Deny, ForwardFails, ForwardBuffered, ForwardStreams, StreamUsage,
     EndStream, Release, Audit, Count
<1>2. ASSUME NEW r \in Requests, AllowUnreserved(r) \/ ReserveRequest(r)
      PROVE  allowed' = allowed \cup {r}
  BY <1>2 DEF AllowUnreserved, ReserveRequest
<1>3. ASSUME NEW r \in Requests, Fault(r) PROVE UNCHANGED allowed
  BY <1>3 DEF Fault, AnswerError, Disconnect
<1>4. ASSUME Environment PROVE UNCHANGED allowed
  BY <1>4 DEF Environment, SetPolicy, RevokeDevice, ReinstateDevice, SetRevoked,
     RevokeToken, NextDay, Restart
<1> QED
  BY <1>1, <1>2, <1>3, <1>4 DEF Next

LEMMA QuotaType ==
  ASSUME TypeOK, NEW r \in Requests
  PROVE  /\ pol[r].requestQuota \in Int \cup {NoLimit}
         /\ pol[r].tokenQuota \in Int \cup {NoLimit}
BY PolicyAssumption DEF TypeOK, NoPolicy

\* On a day with no late release, the counter covers the admitted requests.
LEMMA AdmittedCounted ==
  ASSUME TypeOK, LedgerPhase, LedgerBalanced,
         NEW s \in Subjects, NEW d \in Days, ~LateRelease(s, d)
  PROVE  Cardinality(Admitted(s, d)) <= requestCount[s][d]
<1> DEFINE Res == On(reservedOn, s, d)
           Rel == On(releasedOn, s, d)
           Rec == On(recordedOn, s, d)
           Adm == Admitted(s, d)
<1>1. /\ IsFiniteSet(Res) /\ Cardinality(Res) \in Nat
      /\ IsFiniteSet(Rel) /\ Cardinality(Rel) \in Nat
      /\ Cardinality(Rec) \in Nat
  BY OnFinite
<1>2. Rel \subseteq Res
  <2> SUFFICES ASSUME NEW q \in Rel PROVE q \in Res
    OBVIOUS
  <2>1. q \in Requests /\ Subject(q) = s /\ releasedOn[q] = d
    BY DEF On
  <2>2. d # Never
    BY MaxDayAssumption DEF Days, Never
  <2>3. reservedOn[q] # Never /\ reservedOn[q] <= d
    BY <2>1, <2>2 DEF LedgerPhase, LedgerPhaseOf
  <2>4. reservedOn[q] \notin 0 .. d - 1
    BY DEF LateRelease, ReleasedOn
  <2>5. reservedOn[q] \in 0 .. MaxDay
    BY <2>1, <2>3 DEF TypeOK, Moments, Days
  <2>6. reservedOn[q] = d
    BY <2>3, <2>4, <2>5, MaxDayAssumption DEF Days
  <2> QED
    BY <2>1, <2>6 DEF On
<1>3. Adm \subseteq Res \ Rel
  <2>1. d # Never
    BY MaxDayAssumption DEF Days, Never
  <2> QED
    BY <2>1 DEF Admitted, ReservedOn, On
<1>4. /\ IsFiniteSet(Res \ Rel)
      /\ Cardinality(Res \ Rel) = Cardinality(Res) - Cardinality(Rel)
  <2>1. Res \cap Rel = Rel
    BY <1>2
  <2> QED
    BY <1>1, <2>1, FS_Difference
<1>5. Cardinality(Adm) \in Nat /\ Cardinality(Adm) <= Cardinality(Res \ Rel)
  BY <1>3, <1>4, FS_Subset, FS_CardinalityType
<1>6. /\ requestCount[s][d] \in Nat
      /\ requestCount[s][d] + Cardinality(Rel) = Cardinality(Res) + Cardinality(Rec)
  BY DEF LedgerBalanced, ReservedOn, ReleasedOn, RecordedOn, TypeOK, UsageTypeOK
<1> HIDE DEF Res, Rel, Rec, Adm
<1>7. Cardinality(Adm) <= requestCount[s][d]
  BY <1>1, <1>4, <1>5, <1>6
<1> QED
  BY <1>7 DEF Adm

LEMMA QuotaInit == Init => QuotaHonoured
<1> SUFFICES ASSUME Init, NEW s \in Subjects, NEW d \in Days PROVE Admitted(s, d) = {}
  BY DEF QuotaHonoured
<1>1. d # Never
  BY MaxDayAssumption DEF Days, Never
<1> QED
  BY <1>1 DEF Init, Admitted, ReservedOn, On

LEMMA QuotaStep ==
  ASSUME TypeOK, TypeOK', LedgerPhase, LedgerPhase', LedgerBalanced,
         QuotaHonoured, Next
  PROVE  QuotaHonoured'
<1> SUFFICES ASSUME NEW s \in Subjects, NEW d \in Days
             PROVE  LET Adm1 == {q \in On(reservedOn', s, d) : releasedOn'[q] = Never} IN
                    /\ ~\E q \in On(releasedOn', s, d) : reservedOn'[q] \in 0 .. d - 1
                    /\ Adm1 # {}
                    => \E q \in On(reservedOn', s, d) :
                         Cardinality(Adm1) <= pol'[q].requestQuota
  BY DEF QuotaHonoured, LateRelease, Admitted, ReservedOn, ReleasedOn, On
<1> DEFINE Res == On(reservedOn, s, d)
           Rel == On(releasedOn, s, d)
           Adm == {q \in Res : releasedOn[q] = Never}
           Res1 == On(reservedOn', s, d)
           Rel1 == On(releasedOn', s, d)
           Adm1 == {q \in Res1 : releasedOn'[q] = Never}
           Late == \E q \in Rel : reservedOn[q] \in 0 .. d - 1
           Late1 == \E q \in Rel1 : reservedOn'[q] \in 0 .. d - 1
           Held == \E q \in Res : Cardinality(Adm) <= pol[q].requestQuota
           Held1 == \E q \in Res1 : Cardinality(Adm1) <= pol'[q].requestQuota
<1> SUFFICES ASSUME ~Late1, Adm1 # {} PROVE Held1
  OBVIOUS
<1>d. d \in Int /\ d # Never
  BY MaxDayAssumption DEF Days, Never
<1>h. ~Late /\ Adm # {} => Held
  BY DEF QuotaHonoured, LateRelease, Admitted, ReservedOn, ReleasedOn
<1>1. ASSUME Res \subseteq Res1, Adm1 \subseteq Adm, Late => Late1
      PROVE  Held1
  <2>1. PICK q \in Res : Cardinality(Adm) <= pol[q].requestQuota
    BY <1>1, <1>h
  <2>2. q \in Requests /\ reservedOn[q] # Never
    BY <1>d DEF On
  <2>3. pol'[q] = pol[q] /\ pol[q].requestQuota \in Int
    BY <2>2, AllowedKept, QuotaType DEF LedgerPhase, LedgerPhaseOf
  <2>4. IsFiniteSet(Adm)
    BY OnFinite, FS_Subset
  <2>5. /\ Cardinality(Adm1) <= Cardinality(Adm)
        /\ Cardinality(Adm1) \in Nat /\ Cardinality(Adm) \in Nat
    BY <1>1, <2>4, FS_Subset, FS_CardinalityType
  <2>6. Cardinality(Adm1) <= pol'[q].requestQuota
    <3> HIDE DEF Adm, Adm1
    <3> QED
      BY <2>1, <2>3, <2>5
  <2> QED
    BY <1>1, <2>6
<1>2. CASE UNCHANGED <<requestCount, ledgerVars>>
  BY <1>1, <1>2 DEF ledgerVars
<1>3. ASSUME NEW r \in Requests, ReserveRequest(r)
      PROVE  Held1
  <2>1. /\ reservedOn[r] = Never /\ releasedOn[r] = Never
        /\ r \notin allowed
    BY <1>3 DEF ReserveRequest, Goto, LedgerPhase, LedgerPhaseOf, Forwarded, ForwardSteps
  <2>2. /\ releasedOn' = releasedOn /\ pol' = pol
        /\ reservedOn' = [reservedOn EXCEPT ![r] = today]
    BY <1>3 DEF ReserveRequest
  <2>3. /\ reservedOn'[r] = today
        /\ \A q \in Requests \ {r} : reservedOn'[q] = reservedOn[q]
    BY <2>2 DEF TypeOK
  <2>4. Rel1 = Rel /\ r \notin Rel
    BY <1>d, <2>1, <2>2 DEF On
  <2>5. ~Late
    BY <2>3, <2>4 DEF On
  <2>6. CASE s = Subject(r) /\ d = today
    <3>1. Adm1 = Adm \cup {r} /\ r \notin Adm
      BY <1>d, <2>1, <2>2, <2>3, <2>6 DEF On
    <3>2. IsFiniteSet(Adm)
      BY OnFinite, FS_Subset
    <3>3. Cardinality(Adm1) = Cardinality(Adm) + 1 /\ Cardinality(Adm) \in Nat
      BY <3>1, <3>2, FS_AddElement, FS_CardinalityType
    <3>4. Cardinality(Adm) <= requestCount[s][d]
      BY <2>5, AdmittedCounted DEF LateRelease, ReleasedOn, Admitted, ReservedOn
    <3>5. /\ requestCount[s][d] < pol[r].requestQuota
          /\ requestCount[s][d] \in Nat
          /\ pol[r].requestQuota \in Int
      BY <1>3, <2>6, QuotaType DEF ReserveRequest, HasRoom, TypeOK, UsageTypeOK
    <3>6. Cardinality(Adm1) <= pol'[r].requestQuota
      <4> HIDE DEF Adm, Adm1
      <4> QED
        BY <2>2, <3>3, <3>4, <3>5
    <3>7. r \in Res1
      BY <2>3, <2>6 DEF On
    <3> QED
      BY <3>6, <3>7
  <2>7. CASE ~(s = Subject(r) /\ d = today)
    <3>1. Res1 = Res
      BY <1>d, <2>1, <2>3, <2>7 DEF On
    <3>2. Adm1 = Adm
      BY <2>2, <3>1
    <3> QED
      BY <1>1, <2>5, <3>1, <3>2
  <2> QED
    BY <2>6, <2>7
<1>4. ASSUME NEW r \in Requests, Release(r),
             releasedOn' = [releasedOn EXCEPT ![r] = today]
      PROVE  Held1
  <2>1. releasedOn[r] = Never /\ reservedOn' = reservedOn
    BY <1>4 DEF Release, Goto, LedgerPhase, LedgerPhaseOf
  <2>2. /\ releasedOn'[r] = today
        /\ \A q \in Requests \ {r} : releasedOn'[q] = releasedOn[q]
    BY <1>4 DEF TypeOK
  <2>3. today # Never
    BY MaxDayAssumption DEF TypeOK, UsageTypeOK, Days, Never
  <2>4. Rel \subseteq Rel1
    BY <1>d, <2>1, <2>2 DEF On
  <2>5. Adm1 \subseteq Adm
    BY <2>1, <2>2, <2>3 DEF On
  <2> QED
    BY <1>1, <2>1, <2>4, <2>5
<1>5. ASSUME NEW r \in Requests, Count(r) PROVE Held1
  <2>1. UNCHANGED <<reservedOn, releasedOn>>
    BY <1>5 DEF Count
  <2> QED
    BY <1>1, <2>1
<1> QED
  BY <1>2, <1>3, <1>4, <1>5, LedgerSteps

-----------------------------------------------------------------------------
(***************************************************************************)
(* Device revocation.                                                      *)
(***************************************************************************)
\* A device gets its new row behind the one that is_revoked reads.
LEMMA AppendKeepsFirst ==
  ASSUME NEW rows \in Seq(RowStates), rows # <<>>, NEW row \in RowStates
  PROVE  /\ Append(rows, row) # <<>>
         /\ Append(rows, row)[1] = rows[1]
<1>1. Len(rows) \in Nat /\ Len(rows) # 0
  OBVIOUS
<1> QED
  BY <1>1

LEMMA DevicePhaseInit == Init => DevicePhase
BY DEF Init, DevicePhase, InProgress, Admissible, MiddlewareSteps, ForwardSteps

LEMMA DevicePhaseHandle ==
  ASSUME TypeOK, DevicePhase, NEW r \in Requests, Handle(r)
  PROVE  DevicePhase'
<1> USE SubjectType DEF TypeOK, UsageTypeOK, Goto, DevicePhase, IsRevoked, InProgress, usageVars, storeVars,
        taskVars, ledgerVars, arrivalVars, Admissible, MiddlewareSteps,
        ForwardSteps, Ended
<1>1. CASE Arrive(r)
  BY <1>1 DEF Arrive
<1>2. CASE RateLimit(r)
  BY <1>2 DEF RateLimit
<1>3. CASE ResolvePolicy(r)
  BY <1>3 DEF ResolvePolicy
<1>4. CASE DeleteStaleToken(r)
  BY <1>4 DEF DeleteStaleToken
<1>5. CASE CheckDevice(r)
  <2>1. ~IsRevoked(Device(r)) => r \in cleared
    BY <1>5, SubjectType DEF CheckDevice
  <2> QED
    BY <1>5, <2>1 DEF CheckDevice, IsRevoked
<1>6. CASE LookupDevice(r)
  BY <1>6 DEF LookupDevice, AfterDevice
<1>7. CASE InsertDevice(r)
  <2>1. \A v \in revoked : IsRevoked(v)'
    <3> SUFFICES ASSUME NEW v \in revoked PROVE IsRevoked(v)'
      BY <1>7 DEF InsertDevice
    <3>1. deviceRows[v] \in Seq(RowStates) /\ IsRevoked(v)
      OBVIOUS
    <3>2. \/ deviceRows'[v] = deviceRows[v]
          \/ deviceRows'[v] = Append(deviceRows[v], "active")
      BY <1>7 DEF InsertDevice
    <3>3. deviceRows[v] # <<>> /\ deviceRows[v][1] = "revoked"
      BY <3>1
    <3>4. deviceRows'[v] # <<>> /\ deviceRows'[v][1] = "revoked"
      <4> DEFINE rows == deviceRows[v]
      <4>1. rows \in Seq(RowStates) /\ rows # <<>> /\ "active" \in RowStates
        BY <3>1, <3>3 DEF RowStates
      <4>2. Append(rows, "active") # <<>> /\ Append(rows, "active")[1] = rows[1]
        <5> HIDE DEF rows
        <5> QED
          BY <4>1, AppendKeepsFirst
      <4> QED
        BY <3>2, <3>3, <4>2
    <3> QED
      BY <3>4
  <2> QED
    BY <1>7, <2>1 DEF InsertDevice, AfterDevice
<1>8. CASE CheckTokenQuota(r)
  BY <1>8 DEF CheckTokenQuota
<1>9. CASE AllowUnreserved(r)
  BY <1>9 DEF AllowUnreserved
<1>10. CASE ReserveRequest(r)
  BY <1>10 DEF ReserveRequest
<1>11. CASE RefuseRequest(r)
  BY <1>11 DEF RefuseRequest
<1>12. CASE Deny(r)
  BY <1>12 DEF Deny
<1>13. CASE ForwardFails(r)
  BY <1>13 DEF ForwardFails
<1>14. CASE ForwardBuffered(r)
  BY <1>14 DEF ForwardBuffered
<1>15. CASE ForwardStreams(r)
  BY <1>15 DEF ForwardStreams
<1>16. CASE StreamUsage(r)
  BY <1>16 DEF StreamUsage
<1>17. CASE EndStream(r)
  BY <1>17 DEF EndStream
<1>18. CASE Release(r)
  BY <1>18 DEF Release
<1>19. CASE Audit(r)
  BY <1>19 DEF Audit
<1>20. CASE Count(r)
  BY <1>20 DEF Count
<1> QED
  BY <1>1, <1>2, <1>3, <1>4, <1>5, <1>6, <1>7, <1>8, <1>9, <1>10, <1>11, <1>12, <1>13, <1>14, <1>15, <1>16, <1>17, <1>18, <1>19, <1>20 DEF Handle

LEMMA DevicePhaseOther ==
  ASSUME TypeOK, DevicePhase, (\E r \in Requests : Fault(r)) \/ Environment
  PROVE  DevicePhase'
<1> USE SubjectType DEF TypeOK, UsageTypeOK, DevicePhase, IsRevoked, InProgress, usageVars, storeVars,
        taskVars, ledgerVars, arrivalVars, Admissible, MiddlewareSteps,
        ForwardSteps, Ended
<1>1. ASSUME NEW r \in Requests, AnswerError(r) PROVE DevicePhase'
  BY <1>1 DEF AnswerError
<1>2. ASSUME NEW r \in Requests, Disconnect(r) PROVE DevicePhase'
  BY <1>2 DEF Disconnect, InHandler
<1>3. ASSUME NEW s \in Subjects, NEW p \in Policies, SetPolicy(s, p) PROVE DevicePhase'
  BY <1>3 DEF SetPolicy
<1>4. ASSUME NEW v \in Devices, RevokeDevice(v) PROVE DevicePhase'
  <2>1. ASSUME NEW w \in revoked' PROVE IsRevoked(w)'
    <3>1. CASE w = v
      <4>1. deviceRows[v] \in Seq(RowStates) /\ deviceRows[v] # <<>>
        BY <1>4 DEF RevokeDevice, SetRevoked
      <4>2. deviceRows'[v] = [i \in DOMAIN deviceRows[v] |-> "revoked"]
        BY <1>4 DEF RevokeDevice, SetRevoked
      <4>3. 1 \in DOMAIN deviceRows[v]
        BY <4>1
      <4> QED
        BY <3>1, <4>1, <4>2, <4>3 DEF IsRevoked
    <3>2. CASE w # v
      <4>1. w \in revoked /\ deviceRows'[w] = deviceRows[w]
        BY <1>4, <3>2 DEF RevokeDevice, SetRevoked
      <4> QED
        BY <4>1 DEF IsRevoked
    <3> QED
      BY <3>1, <3>2
  <2> QED
    BY <1>4, <2>1 DEF RevokeDevice, SetRevoked
<1>5. ASSUME NEW v \in Devices, ReinstateDevice(v) PROVE DevicePhase'
  <2>1. ASSUME NEW w \in revoked' PROVE IsRevoked(w)'
    <3>1. w \in revoked /\ deviceRows'[w] = deviceRows[w]
      BY <1>5 DEF ReinstateDevice, SetRevoked
    <3> QED
      BY <3>1 DEF IsRevoked
  <2>2. ASSUME NEW q \in Requests, InProgress(q), Device(q) \notin revoked'
        PROVE  q \in cleared'
    BY <1>5, <2>2 DEF ReinstateDevice
  <2> QED
    BY <1>5, <2>1, <2>2 DEF ReinstateDevice, SetRevoked
<1>6. ASSUME NEW k \in Tokens, RevokeToken(k) PROVE DevicePhase'
  BY <1>6 DEF RevokeToken
<1>7. CASE NextDay
  BY <1>7 DEF NextDay, Midnight
<1>8. CASE Restart
  BY <1>8 DEF Restart, InProgress
<1> QED
  BY <1>1, <1>2, <1>3, <1>4, <1>5, <1>6, <1>7, <1>8 DEF Fault, Environment

\* An allowed request had passed the device check.
LEMMA NotServedStep ==
  ASSUME TypeOK, DevicePhase, DevicePhase', LedgerPhase, LedgerPhase',
         RevokedDeviceNotServed, Next
  PROVE  RevokedDeviceNotServed'
<1> SUFFICES ASSUME NEW q \in allowed' PROVE q \in cleared'
  BY DEF RevokedDeviceNotServed
<1>1. CASE q \in allowed
  <2>1. cleared \subseteq cleared'
    BY DEF Next, Handle, Arrive, RateLimit, ResolvePolicy, DeleteStaleToken,
       CheckDevice, LookupDevice, InsertDevice, CheckTokenQuota,
       AllowUnreserved, ReserveRequest, RefuseRequest, Deny, ForwardFails,
       ForwardBuffered, ForwardStreams, StreamUsage, EndStream, Release, Audit,
       Count, Fault, AnswerError, Disconnect, Environment, SetPolicy,
       RevokeDevice, ReinstateDevice, SetRevoked, RevokeToken, NextDay, Restart,
       arrivalVars
  <2> QED
    BY <1>1, <2>1 DEF RevokedDeviceNotServed
<1>2. CASE q \in Requests /\ (AllowUnreserved(q) \/ ReserveRequest(q))
  BY <1>2 DEF AllowUnreserved, ReserveRequest, Goto, DevicePhase, Admissible,
     arrivalVars
<1> QED
  BY <1>1, <1>2, AllowedSteps

-----------------------------------------------------------------------------
(***************************************************************************)
(* The token quota.                                                        *)
(***************************************************************************)
LEMMA TokenPhaseInit == Init => TokenPhase
BY DEF Init, UsageInit, TokenPhase, TokenPhaseOf, BeforeCheck, Never

LEMMA TokenPhaseHandle ==
  ASSUME TypeOK, TokenPhase, NEW r \in Requests, Handle(r)
  PROVE  TokenPhase'
<1> USE SubjectType, MaxDayAssumption DEF TypeOK, UsageTypeOK, Goto, TokenPhase, TokenPhaseOf, SeenBelowQuota, BeforeCheck,
        Days, Moments, Never, usageVars, storeVars, taskVars, ledgerVars, arrivalVars
<1>1. CASE Arrive(r)
  <2>1. UNCHANGED usageVars
    BY <1>1 DEF Arrive
  <2>2. ASSUME NEW q \in Requests \ {r} PROVE TokenPhaseOf(q)'
    BY <1>1, <2>1 DEF Arrive
  <2>3. TokenPhaseOf(r)'
    <3>1. arrivedOn'[r] = today /\ pc'[r] # "requestQuota"
      BY <1>1 DEF Arrive
    <3>2. seenSpent'[r] = IF <<Subject(r), today>> \in rowExists
                            THEN tokenCount[Subject(r)][today] ELSE Never
      BY <1>1 DEF Arrive
    <3>3. tokenCount[Subject(r)][today] \in Nat
      OBVIOUS
    <3> QED
      BY <2>1, <3>1, <3>2, <3>3
  <2> QED
    BY <2>2, <2>3
<1>2. CASE RateLimit(r)
  BY <1>2 DEF RateLimit
<1>3. CASE ResolvePolicy(r)
  BY <1>3 DEF ResolvePolicy
<1>4. CASE DeleteStaleToken(r)
  BY <1>4 DEF DeleteStaleToken
<1>5. CASE CheckDevice(r)
  BY <1>5 DEF CheckDevice
<1>6. CASE LookupDevice(r)
  BY <1>6 DEF LookupDevice, AfterDevice
<1>7. CASE InsertDevice(r)
  BY <1>7 DEF InsertDevice, AfterDevice
<1>8. CASE CheckTokenQuota(r)
  <2>1. UNCHANGED <<usageVars, pol, arrivedOn, seenSpent>>
    BY <1>8 DEF CheckTokenQuota
  <2>2. ASSUME NEW q \in Requests \ {r} PROVE TokenPhaseOf(q)'
    BY <1>8, <2>1 DEF CheckTokenQuota
  <2>3. CASE TokenQuotaSpent(r)
    BY <1>8, <2>1, <2>2, <2>3 DEF CheckTokenQuota
  <2>4. CASE ~TokenQuotaSpent(r)
    <3> DEFINE n == tokenCount[Subject(r)][today]
               quota == pol[r].tokenQuota
    <3>1. n \in Nat /\ quota \in Int \cup {NoLimit}
      <4>1. n \in Nat
        OBVIOUS
      <4>2. quota \in Int \cup {NoLimit}
        BY QuotaType, r \in Requests
      <4> QED
        BY <4>1, <4>2
    <3>2. quota = NoLimit \/ <<Subject(r), today>> \notin rowExists \/ ~(n >= quota)
      BY <2>4 DEF TokenQuotaSpent, TokensSpent
    <3>3. pc[r] \in BeforeCheck /\ arrivedOn[r] <= today
      BY <1>8 DEF CheckTokenQuota
    <3>4. arrivedOn[r] = today /\ seenSpent[r] # Never
            => /\ <<Subject(r), today>> \in rowExists
               /\ seenSpent[r] \in Nat
               /\ seenSpent[r] <= n
      BY <3>3
    <3>5. quota # NoLimit /\ arrivedOn[r] = today /\ seenSpent[r] # Never
            => seenSpent[r] < quota
      <4> HIDE DEF n, quota
      <4> QED
        BY <3>1, <3>2, <3>4
    <3>6. SeenBelowQuota(r)'
      <4>1. checkedOn'[r] = today
        BY <1>8 DEF CheckTokenQuota
      <4> QED
        BY <2>1, <3>5, <4>1
    <3>7. pc'[r] = "requestQuota"
      BY <1>8, <2>4 DEF CheckTokenQuota
    <3> QED
      BY <2>1, <2>2, <3>3, <3>6, <3>7
  <2> QED
    BY <2>3, <2>4
<1>9. CASE AllowUnreserved(r)
  BY <1>9 DEF AllowUnreserved
<1>10. CASE ReserveRequest(r)
  BY <1>10 DEF ReserveRequest, ReserveOne
<1>11. CASE RefuseRequest(r)
  BY <1>11 DEF RefuseRequest
<1>12. CASE Deny(r)
  BY <1>12 DEF Deny
<1>13. CASE ForwardFails(r)
  BY <1>13 DEF ForwardFails
<1>14. CASE ForwardBuffered(r)
  BY <1>14 DEF ForwardBuffered
<1>15. CASE ForwardStreams(r)
  BY <1>15 DEF ForwardStreams
<1>16. CASE StreamUsage(r)
  BY <1>16 DEF StreamUsage
<1>17. CASE EndStream(r)
  BY <1>17 DEF EndStream
<1>18. CASE Release(r)
  BY <1>18 DEF Release, ReleaseOne
<1>19. CASE Audit(r)
  BY <1>19 DEF Audit
<1>20. CASE Count(r)
  <2>1. CASE UNCHANGED usageVars
    BY <1>20, <2>1 DEF Count
  <2>2. CASE Increment(Subject(r), 1, spent[r])
    <3>1. /\ today' = today /\ rowExists \subseteq rowExists'
          /\ tokenCount' = [tokenCount EXCEPT ![Subject(r)][today] = @ + spent[r]]
          /\ spent[r] \in Nat
      BY <2>2, MaxSpendAssumption DEF Increment
    <3>2. /\ pc' = [pc EXCEPT ![r] = "done"]
          /\ UNCHANGED <<pol, arrivedOn, seenSpent, checkedOn>>
      BY <1>20 DEF Count
    <3> SUFFICES ASSUME NEW q \in Requests PROVE TokenPhaseOf(q)'
      OBVIOUS
    <3>3. /\ tokenCount[Subject(q)][today] <= tokenCount'[Subject(q)][today]
          /\ tokenCount[Subject(q)][today] \in Nat
          /\ tokenCount'[Subject(q)][today] \in Nat
      <4>1. /\ tokenCount \in [Subjects -> [Days -> Nat]] /\ today \in Days
            /\ Subject(q) \in Subjects /\ Subject(r) \in Subjects
        OBVIOUS
      <4> QED
        BY <3>1, <4>1, CounterGrows
    <3>4. TokenPhaseOf(q)
      OBVIOUS
    <3>5. seenSpent[q] \in Nat \cup {Never}
      OBVIOUS
    <3>6. pc'[q] \in BeforeCheck => pc'[q] = pc[q]
      BY <3>2
    <3>7. pc'[q] = "requestQuota" => pc[q] = "requestQuota"
      BY <3>2
    <3>8. pc'[q] \in BeforeCheck /\ arrivedOn'[q] = today' /\ seenSpent'[q] # Never
            => /\ <<Subject(q), today>> \in rowExists'
               /\ seenSpent'[q] <= tokenCount'[Subject(q)][today]
      <4>1. SUFFICES ASSUME pc[q] \in BeforeCheck, arrivedOn[q] = today, seenSpent[q] # Never
                     PROVE  /\ <<Subject(q), today>> \in rowExists'
                            /\ seenSpent[q] <= tokenCount'[Subject(q)][today]
        BY <3>1, <3>2, <3>6
      <4>2. /\ <<Subject(q), today>> \in rowExists
            /\ seenSpent[q] <= tokenCount[Subject(q)][today]
        BY <3>4, <4>1
      <4>3. seenSpent[q] \in Nat
        BY <3>5, <4>1
      <4> QED
        BY <3>1, <3>3, <4>2, <4>3
    <3> QED
      BY <3>1, <3>2, <3>4, <3>7, <3>8
  <2> QED
    BY <1>20, <2>1, <2>2 DEF Count
<1> QED
  BY <1>1, <1>2, <1>3, <1>4, <1>5, <1>6, <1>7, <1>8, <1>9, <1>10, <1>11, <1>12, <1>13, <1>14, <1>15, <1>16, <1>17, <1>18, <1>19, <1>20 DEF Handle

LEMMA TokenPhaseOther ==
  ASSUME TypeOK, TokenPhase, (\E r \in Requests : Fault(r)) \/ Environment
  PROVE  TokenPhase'
<1> USE SubjectType, MaxDayAssumption DEF TypeOK, UsageTypeOK, TokenPhase, TokenPhaseOf, SeenBelowQuota, BeforeCheck,
        Days, Moments, Never, usageVars, storeVars, taskVars, ledgerVars, arrivalVars
<1>1. ASSUME NEW r \in Requests, AnswerError(r) PROVE TokenPhase'
  BY <1>1 DEF AnswerError
<1>2. ASSUME NEW r \in Requests, Disconnect(r) PROVE TokenPhase'
  BY <1>2 DEF Disconnect, InHandler
<1>3. ASSUME NEW s \in Subjects, NEW p \in Policies, SetPolicy(s, p) PROVE TokenPhase'
  BY <1>3 DEF SetPolicy
<1>4. ASSUME NEW v \in Devices, RevokeDevice(v) PROVE TokenPhase'
  BY <1>4 DEF RevokeDevice, SetRevoked
<1>5. ASSUME NEW v \in Devices, ReinstateDevice(v) PROVE TokenPhase'
  BY <1>5 DEF ReinstateDevice, SetRevoked
<1>6. ASSUME NEW k \in Tokens, RevokeToken(k) PROVE TokenPhase'
  BY <1>6 DEF RevokeToken
<1>7. CASE NextDay
  <2>1. /\ today' = today + 1
        /\ UNCHANGED <<pc, pol, arrivedOn, seenSpent, checkedOn>>
    BY <1>7 DEF NextDay, Midnight
  <2> SUFFICES ASSUME NEW q \in Requests PROVE TokenPhaseOf(q)'
    OBVIOUS
  <2>2. TokenPhaseOf(q) /\ arrivedOn[q] \in Int /\ today \in Int
    OBVIOUS
  <2>3. arrivedOn[q] <= today' /\ arrivedOn[q] # today'
    BY <2>1, <2>2
  <2> QED
    BY <2>1, <2>2, <2>3
<1>8. CASE Restart
  BY <1>8 DEF Restart, InProgress
<1> QED
  BY <1>1, <1>2, <1>3, <1>4, <1>5, <1>6, <1>7, <1>8 DEF Fault, Environment

\* The token check precedes the decision, and nothing changes what it saw.
LEMMA SpentQuotaInit == Init => SpentQuotaStaysClosed
BY DEF Init, SpentQuotaStaysClosed

LEMMA SpentQuotaStep ==
  ASSUME TypeOK, LedgerPhase, TokenPhase, SpentQuotaStaysClosed, Next
  PROVE  SpentQuotaStaysClosed'
<1> SUFFICES ASSUME NEW q \in allowed' PROVE SeenBelowQuota(q)'
  BY DEF SpentQuotaStaysClosed, SeenBelowQuota
<1>1. CASE q \in allowed
  BY <1>1, AllowedKept DEF SpentQuotaStaysClosed, SeenBelowQuota
<1>2. CASE q \in Requests /\ (AllowUnreserved(q) \/ ReserveRequest(q))
  <2>1. SeenBelowQuota(q)
    BY <1>2 DEF AllowUnreserved, ReserveRequest, Goto, TokenPhase, TokenPhaseOf
  <2>2. UNCHANGED <<pol, checkedOn, arrivedOn, seenSpent>>
    BY <1>2 DEF AllowUnreserved, ReserveRequest, arrivalVars
  <2> QED
    BY <2>1, <2>2 DEF SeenBelowQuota
<1> QED
  BY <1>1, <1>2, AllowedSteps

-----------------------------------------------------------------------------
(***************************************************************************)
(* The audit row and the charge.                                           *)
(***************************************************************************)
LEMMA AuditInit == Init => AuditPhase /\ ChargedOnlyIfAudited
BY DEF Init, AuditPhase, ChargedOnlyIfAudited

LEMMA AuditHandle ==
  ASSUME TypeOK, AuditPhase, ChargedOnlyIfAudited, NEW r \in Requests, Handle(r)
  PROVE  (AuditPhase /\ ChargedOnlyIfAudited)'
<1> USE DEF TypeOK, UsageTypeOK, Goto, AuditPhase, ChargedOnlyIfAudited,
        MiddlewareSteps, ForwardSteps, usageVars, storeVars, taskVars, ledgerVars, arrivalVars
<1>1. CASE Arrive(r)
  BY <1>1 DEF Arrive
<1>2. CASE RateLimit(r)
  BY <1>2 DEF RateLimit
<1>3. CASE ResolvePolicy(r)
  BY <1>3 DEF ResolvePolicy
<1>4. CASE DeleteStaleToken(r)
  BY <1>4 DEF DeleteStaleToken
<1>5. CASE CheckDevice(r)
  BY <1>5 DEF CheckDevice
<1>6. CASE LookupDevice(r)
  BY <1>6 DEF LookupDevice, AfterDevice
<1>7. CASE InsertDevice(r)
  BY <1>7 DEF InsertDevice, AfterDevice
<1>8. CASE CheckTokenQuota(r)
  BY <1>8 DEF CheckTokenQuota
<1>9. CASE AllowUnreserved(r)
  BY <1>9 DEF AllowUnreserved
<1>10. CASE ReserveRequest(r)
  BY <1>10 DEF ReserveRequest
<1>11. CASE RefuseRequest(r)
  BY <1>11 DEF RefuseRequest
<1>12. CASE Deny(r)
  BY <1>12 DEF Deny
<1>13. CASE ForwardFails(r)
  BY <1>13 DEF ForwardFails
<1>14. CASE ForwardBuffered(r)
  BY <1>14 DEF ForwardBuffered
<1>15. CASE ForwardStreams(r)
  BY <1>15 DEF ForwardStreams
<1>16. CASE StreamUsage(r)
  BY <1>16 DEF StreamUsage
<1>17. CASE EndStream(r)
  BY <1>17 DEF EndStream
<1>18. CASE Release(r)
  BY <1>18 DEF Release
<1>19. CASE Audit(r)
  BY <1>19 DEF Audit
<1>20. CASE Count(r)
  BY <1>20 DEF Count
<1> QED
  BY <1>1, <1>2, <1>3, <1>4, <1>5, <1>6, <1>7, <1>8, <1>9, <1>10, <1>11, <1>12, <1>13, <1>14, <1>15, <1>16, <1>17, <1>18, <1>19, <1>20 DEF Handle

LEMMA AuditOther ==
  ASSUME TypeOK, AuditPhase, ChargedOnlyIfAudited, (\E r \in Requests : Fault(r)) \/ Environment
  PROVE  (AuditPhase /\ ChargedOnlyIfAudited)'
<1> USE DEF TypeOK, UsageTypeOK, AuditPhase, ChargedOnlyIfAudited,
        MiddlewareSteps, ForwardSteps, usageVars, storeVars, taskVars, ledgerVars, arrivalVars
<1>1. ASSUME NEW r \in Requests, AnswerError(r) PROVE (AuditPhase /\ ChargedOnlyIfAudited)'
  BY <1>1 DEF AnswerError
<1>2. ASSUME NEW r \in Requests, Disconnect(r) PROVE (AuditPhase /\ ChargedOnlyIfAudited)'
  BY <1>2 DEF Disconnect, InHandler
<1>3. ASSUME NEW s \in Subjects, NEW p \in Policies, SetPolicy(s, p) PROVE (AuditPhase /\ ChargedOnlyIfAudited)'
  BY <1>3 DEF SetPolicy
<1>4. ASSUME NEW v \in Devices, RevokeDevice(v) PROVE (AuditPhase /\ ChargedOnlyIfAudited)'
  BY <1>4 DEF RevokeDevice, SetRevoked
<1>5. ASSUME NEW v \in Devices, ReinstateDevice(v) PROVE (AuditPhase /\ ChargedOnlyIfAudited)'
  BY <1>5 DEF ReinstateDevice, SetRevoked
<1>6. ASSUME NEW k \in Tokens, RevokeToken(k) PROVE (AuditPhase /\ ChargedOnlyIfAudited)'
  BY <1>6 DEF RevokeToken
<1>7. CASE NextDay
  BY <1>7 DEF NextDay, Midnight
<1>8. CASE Restart
  BY <1>8 DEF Restart, InProgress
<1> QED
  BY <1>1, <1>2, <1>3, <1>4, <1>5, <1>6, <1>7, <1>8 DEF Fault, Environment

-----------------------------------------------------------------------------
(***************************************************************************)
(* The inductive invariant and what follows from it.                       *)
(***************************************************************************)
LEMMA InvInit == Init => PipelineInv
BY LedgerPhaseInit, LedgerInit, QuotaInit, DevicePhaseInit, TokenPhaseInit,
   SpentQuotaInit, AuditInit
DEF PipelineInv, RevokedDeviceNotServed, Init

LEMMA InvStep ==
  ASSUME TypeOK, TypeOK', PipelineInv, Next
  PROVE  PipelineInv'
<1> USE DEF PipelineInv
<1>1. LedgerPhase'
  BY LedgerPhaseHandle, LedgerPhaseOther DEF Next
<1>2. LedgerBalanced'
  BY LedgerStep
<1>3. QuotaHonoured'
  BY <1>1, QuotaStep
<1>4. DevicePhase'
  BY DevicePhaseHandle, DevicePhaseOther DEF Next
<1>5. RevokedDeviceNotServed'
  BY <1>1, <1>4, NotServedStep
<1>6. TokenPhase'
  BY TokenPhaseHandle, TokenPhaseOther DEF Next
<1>7. SpentQuotaStaysClosed'
  BY SpentQuotaStep
<1>8. AuditPhase' /\ ChargedOnlyIfAudited'
  BY AuditHandle, AuditOther DEF Next
<1> QED
  BY <1>1, <1>2, <1>3, <1>4, <1>5, <1>6, <1>7, <1>8

LEMMA InvStutter ==
  ASSUME PipelineInv, UNCHANGED vars
  PROVE  PipelineInv'
<1> USE DEF vars, usageVars, storeVars, taskVars, ledgerVars, arrivalVars
<1>1. LedgerPhase' /\ AuditPhase' /\ ChargedOnlyIfAudited'
  BY DEF PipelineInv, LedgerPhase, LedgerPhaseOf, AuditPhase, ChargedOnlyIfAudited
<1>2. LedgerBalanced' /\ QuotaHonoured'
  <2>1. UNCHANGED <<requestCount, pol, reservedOn, releasedOn, recordedOn>>
    OBVIOUS
  <2>2. ASSUME NEW s \in Subjects, NEW d \in Days
        PROVE  /\ On(reservedOn', s, d) = On(reservedOn, s, d)
               /\ On(releasedOn', s, d) = On(releasedOn, s, d)
               /\ On(recordedOn', s, d) = On(recordedOn, s, d)
               /\ {r \in On(reservedOn', s, d) : releasedOn'[r] = Never}
                    = {r \in On(reservedOn, s, d) : releasedOn[r] = Never}
    BY <2>1
  <2>3. LedgerBalanced'
    <3> SUFFICES ASSUME NEW s \in Subjects, NEW d \in Days
                 PROVE  requestCount'[s][d] + Cardinality(On(releasedOn', s, d))
                          = Cardinality(On(reservedOn', s, d))
                              + Cardinality(On(recordedOn', s, d))
      BY DEF LedgerBalanced, ReservedOn, ReleasedOn, RecordedOn, On
    <3> QED
      BY <2>1, <2>2 DEF PipelineInv, LedgerBalanced, ReservedOn, ReleasedOn, RecordedOn
  <2>4. QuotaHonoured'
    <3> SUFFICES ASSUME NEW s \in Subjects, NEW d \in Days
                 PROVE  LET Adm1 == {q \in On(reservedOn', s, d) : releasedOn'[q] = Never} IN
                        /\ ~\E q \in On(releasedOn', s, d) : reservedOn'[q] \in 0 .. d - 1
                        /\ Adm1 # {}
                        => \E q \in On(reservedOn', s, d) :
                             Cardinality(Adm1) <= pol'[q].requestQuota
      BY DEF QuotaHonoured, LateRelease, Admitted, ReservedOn, ReleasedOn, On
    <3> QED
      BY <2>1, <2>2 DEF PipelineInv, QuotaHonoured, LateRelease, Admitted,
         ReservedOn, ReleasedOn
  <2> QED
    BY <2>3, <2>4
<1>3. DevicePhase' /\ RevokedDeviceNotServed'
  BY DEF PipelineInv, DevicePhase, IsRevoked, InProgress, RevokedDeviceNotServed
<1>4. TokenPhase' /\ SpentQuotaStaysClosed'
  BY DEF PipelineInv, TokenPhase, TokenPhaseOf, SeenBelowQuota, SpentQuotaStaysClosed
<1> QED
  BY <1>1, <1>2, <1>3, <1>4 DEF PipelineInv

(***************************************************************************)
(* The invariant behind the theorems below holds in every reachable state. *)
(***************************************************************************)
THEOREM PipelineInvariant == Spec => []PipelineInv
<1>1. TypeOK /\ TypeOK' /\ PipelineInv /\ [Next]_vars => PipelineInv'
  BY InvStep, InvStutter
<1> QED
  BY InvInit, TypeCorrect, <1>1, PTL DEF Spec

(***************************************************************************)
(* For any number of requests, subjects, days and policies, and with every *)
(* disconnect, restart and store error, the request counters account for   *)
(* exactly the units that were reserved, recorded and released.            *)
(***************************************************************************)
THEOREM LedgerAlwaysBalanced == Spec => []LedgerBalanced
<1>1. PipelineInv => LedgerBalanced
  BY DEF PipelineInv
<1> QED
  BY PipelineInvariant, <1>1, PTL

(***************************************************************************)
(* No interleaving of any number of requests admits more of them on a day  *)
(* than a quota in force for one of them, unless a release crosses         *)
(* midnight.                                                               *)
(***************************************************************************)
THEOREM QuotaAlwaysHonoured == Spec => []QuotaHonoured
<1>1. PipelineInv => QuotaHonoured
  BY DEF PipelineInv
<1> QED
  BY PipelineInvariant, <1>1, PTL

(***************************************************************************)
(* A request is never allowed if the token quota it is held to had been    *)
(* used up when it arrived and it was checked on the same day.             *)
(***************************************************************************)
THEOREM SpentQuotaAlwaysClosed == Spec => []SpentQuotaStaysClosed
<1>1. PipelineInv => SpentQuotaStaysClosed
  BY DEF PipelineInv
<1> QED
  BY PipelineInvariant, <1>1, PTL

(***************************************************************************)
(* A request whose device was revoked from its arrival on is never         *)
(* allowed, whatever rows concurrent registrations insert for the device.  *)
(***************************************************************************)
THEOREM RevokedDeviceNeverServed == Spec => []RevokedDeviceNotServed
<1>1. PipelineInv => RevokedDeviceNotServed
  BY DEF PipelineInv
<1> QED
  BY PipelineInvariant, <1>1, PTL

(***************************************************************************)
(* No disconnect, restart or store error leaves a charge in the counters   *)
(* for which no audit row was written before.                              *)
(***************************************************************************)
THEOREM AlwaysAuditedBeforeCharged == Spec => []ChargedOnlyIfAudited
<1>1. PipelineInv => ChargedOnlyIfAudited
  BY DEF PipelineInv
<1> QED
  BY PipelineInvariant, <1>1, PTL

(***************************************************************************)
(* The flag request_reserved of a forwarded request says whether it holds  *)
(* a unit of the quota, and a request that was turned away holds none.     *)
(***************************************************************************)
THEOREM ReservedAlwaysIffAdmitted == Spec => []ReservedIffAdmitted
<1>1. PipelineInv => ReservedIffAdmitted
  BY DEF PipelineInv, LedgerPhase, LedgerPhaseOf, ReservedIffAdmitted,
     Forwarded, ForwardSteps
<1> QED
  BY PipelineInvariant, <1>1, PTL
=============================================================================
