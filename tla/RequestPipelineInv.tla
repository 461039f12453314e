------------------------- MODULE RequestPipelineInv -------------------------
(***************************************************************************)
(* The inductive invariant behind the safety properties of the pipeline:   *)
(* each property is strengthened by what the tasks on their way to it, or  *)
(* past it, know about the shared rows.                                    *)
(***************************************************************************)
EXTENDS RequestPipelineProps

BeforeCheck == {"rateLimit", "policy", "device", "register", "insert",
                "tokenQuota"}
Admissible == {"register", "insert", "tokenQuota", "requestQuota"}
Forwarded == ForwardSteps \cup {"failed", "done", "aborted"}

\* A reservation belongs to an allowed request and is never made later than
\* now; it is given back or recorded only by the last step of the task.
LedgerPhaseOf(r) ==
  /\ r \in allowed => pc[r] \in Forwarded
  /\ pc[r] \in ForwardSteps \cup {"failed", "done"} => r \in allowed
  /\ reservedOn[r] # Never => r \in allowed /\ reservedOn[r] <= today
  /\ r \in allowed => (reservedOn[r] # Never <=> pol[r].requestQuota # NoLimit)
  /\ releasedOn[r] # Never =>
       /\ pc[r] = "failed"
       /\ reservedOn[r] # Never
       /\ reservedOn[r] <= releasedOn[r]
       /\ releasedOn[r] <= today
  /\ recordedOn[r] # Never => pc[r] = "done" /\ recordedOn[r] <= today

LedgerPhase == \A r \in Requests : LedgerPhaseOf(r)

\* The row of a device that is_revoked reads tells what the administrators
\* decided last, and a task past the check belongs to a cleared request.
DevicePhase ==
  /\ \A v \in revoked : IsRevoked(v)
  /\ \A r \in Requests :
       /\ InProgress(r) /\ Device(r) \notin revoked => r \in cleared
       /\ pc[r] \in Admissible \cup ForwardSteps => r \in cleared

\* Until its own check, a request of today finds at least the tokens it
\* found when it arrived; after it, those were below the quota.
SeenBelowQuota(r) ==
  /\ pol[r].tokenQuota # NoLimit
  /\ checkedOn[r] = arrivedOn[r]
  /\ seenSpent[r] # Never
  => seenSpent[r] < pol[r].tokenQuota

TokenPhaseOf(r) ==
  /\ arrivedOn[r] <= today
  /\ pc[r] \in BeforeCheck /\ arrivedOn[r] = today /\ seenSpent[r] # Never
       => /\ <<Subject(r), today>> \in rowExists
          /\ seenSpent[r] <= tokenCount[Subject(r)][today]
  /\ pc[r] = "requestQuota" => SeenBelowQuota(r)

TokenPhase == \A r \in Requests : TokenPhaseOf(r)

AuditPhase ==
  \A r \in Requests :
    /\ pc[r] = "count" => audit[r] \in {"allowed", "lost"}
    /\ recordedOn[r] # Never => pc[r] = "done"

(***************************************************************************)
(* The inductive invariant.                                                *)
(***************************************************************************)
PipelineInv ==
  /\ LedgerPhase /\ LedgerBalanced /\ QuotaHonoured
  /\ DevicePhase /\ RevokedDeviceNotServed
  /\ TokenPhase /\ SpentQuotaStaysClosed
  /\ AuditPhase /\ ChargedOnlyIfAudited
=============================================================================
