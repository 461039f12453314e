----------------------------- MODULE PolicyDesk -----------------------------
(***************************************************************************)
(* Administrators change the policy of one group: the handlers of the      *)
(* admin API (admin.rs) and the statements of the policy store (policy.rs) *)
(* that they await, one action each.  A call may be dropped at every await.*)
(*                                                                         *)
(* A policy is abstracted to groups of its columns; what a call sends for  *)
(* a column is known by the call, and a column that is not sent is reset.  *)
(***************************************************************************)
CONSTANTS
  Changes,       \* calls of administrators, each used once
  PolicyColumns,
  NoRow

ASSUME NoRowAssumption ==
  /\ NoRow \notin Changes
  /\ PolicyColumns # {}

VARIABLES
  policyRow,     \* the row of the group, with the call that inserted it as id
  change,        \* the calls: how far they are, what they send and have read
  adminLog,      \* the calls in admin_audit_log
  settledBefore  \* history: the calls answered when a call began

deskVars == <<policyRow, change, adminLog, settledBefore>>

-----------------------------------------------------------------------------
DeskInit ==
  /\ policyRow = NoRow
  /\ change = [c \in Changes |-> [at |-> "idle", sends |-> {}, existing |-> NoRow]]
  /\ adminLog = {}
  /\ settledBefore = [c \in Changes |-> {}]

Answered(c) == change[c].at \in {"done", "refused"}

Begins(c) ==
  settledBefore' = [settledBefore EXCEPT ![c] = {d \in Changes : Answered(d)}]

Continue(c, place) == change' = [change EXCEPT ![c].at = place]

\* A PUT is refused if a budget or a lifetime in it is not positive.
UpsertPolicy(c) ==
  /\ change[c].at = "idle"
  /\ \E sends \in SUBSET PolicyColumns, place \in {"find", "refused"} :
       change' = [change EXCEPT ![c].at = place, ![c].sends = sends]
  /\ Begins(c)
  /\ UNCHANGED <<policyRow, adminLog>>

\* get_policy; every statement may fail.
FindPolicy(c) ==
  /\ change[c].at = "find"
  /\ \/ change' = [change EXCEPT ![c].at = "write", ![c].existing = policyRow]
     \/ Continue(c, "refused")
  /\ UNCHANGED <<policyRow, adminLog, settledBefore>>

\* Deliberately wrong: a column that is not sent keeps the value that was read.
KeepUnsent(c) ==
  [f \in PolicyColumns |->
     IF f \in change[c].sends \/ change[c].existing = NoRow
     THEN [by |-> c, sent |-> f \in change[c].sends]
     ELSE change[c].existing.columns[f]]

PolicyValues(c) == [f \in PolicyColumns |-> [by |-> c, sent |-> f \in change[c].sends]]

\* WHERE id: the row may be gone, and the call goes on.
UpdatePolicy(c) ==
  /\ change[c].at = "write" /\ change[c].existing # NoRow
  /\ \/ /\ IF policyRow # NoRow /\ policyRow.id = change[c].existing.id
           THEN policyRow' = [policyRow EXCEPT !.columns = PolicyValues(c)]
           ELSE UNCHANGED policyRow
        /\ Continue(c, "log")
     \/ Continue(c, "refused") /\ UNCHANGED policyRow
  /\ UNCHANGED <<adminLog, settledBefore>>

\* The name of a group is unique.
InsertPolicy(c) ==
  /\ change[c].at = "write" /\ change[c].existing = NoRow
  /\ \/ /\ policyRow = NoRow
        /\ policyRow' = [id |-> c, columns |-> PolicyValues(c)]
        /\ Continue(c, "log")
     \/ Continue(c, "refused") /\ UNCHANGED policyRow
  /\ UNCHANGED <<adminLog, settledBefore>>

DeletePolicy(c) ==
  /\ change[c].at = "idle"
  /\ Begins(c)
  /\ \/ policyRow # NoRow /\ policyRow' = NoRow /\ Continue(c, "log")
     \/ Continue(c, "refused") /\ UNCHANGED policyRow
  /\ UNCHANGED adminLog

\* Best effort; then the call is answered.
RecordAdminAudit(c) ==
  /\ change[c].at = "log"
  /\ adminLog' \in {adminLog, adminLog \cup {c}}
  /\ Continue(c, "done")
  /\ UNCHANGED <<policyRow, settledBefore>>

\* The administrator disconnects.
DropCall(c) ==
  /\ change[c].at \in {"find", "write", "log"}
  /\ Continue(c, "dropped")
  /\ UNCHANGED <<policyRow, adminLog, settledBefore>>

DeskNext ==
  \E c \in Changes :
    \/ UpsertPolicy(c) \/ FindPolicy(c) \/ UpdatePolicy(c) \/ InsertPolicy(c)
    \/ DeletePolicy(c) \/ RecordAdminAudit(c) \/ DropCall(c)

DeskSpec == DeskInit /\ [][DeskNext]_deskVars

-----------------------------------------------------------------------------
(* However calls overlap, the policy is that of one PUT as a whole, and of *)
(* none that was answered before a later change, a PUT or a DELETE that    *)
(* succeeded, began (upsert_policy_full reads, then writes every column).  *)
PolicyIsALatePut ==
  policyRow # NoRow =>
    \E author \in Changes :
      /\ \A f \in PolicyColumns : policyRow.columns[f].by = author
      /\ \A c \in Changes : change[c].at = "done" => author \notin settledBefore[c]
=============================================================================
