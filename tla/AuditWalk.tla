------------------------------ MODULE AuditWalk ------------------------------
(***************************************************************************)
(* The audit log (audit.rs), and a reader of the admin API that pages      *)
(* through it by offset, newest entries first (query_audit of admin.rs),   *)
(* while requests go on being logged.                                      *)
(*                                                                         *)
(* An entry keeps only what the query looks at: the second in which it was *)
(* written, its random id, which is a number here, and the user.           *)
(***************************************************************************)
EXTENDS Integers, Sequences, FiniteSets, SequencesExt, FiniteSetsExt

CONSTANTS
  MaxEntries,  \* ids are 1..MaxEntries: bounds the log
  Seconds,     \* what the clock may show
  Users,
  Anyone,      \* no filter in the query
  MaxLimit     \* 1000 in the code

ASSUME SecondsAssumption == Seconds \subseteq Nat
ASSUME LimitsAssumption == MaxEntries \in Nat /\ MaxLimit \in Nat \ {0}
ASSUME AnyoneIsNobody == Anyone \notin Users

VARIABLES
  now,         \* the clock of the machine
  auditLog,    \* the rows of audit_log
  walk         \* the reader: what it asks for, how far it is, what it has got

walkVars == <<now, auditLog, walk>>

-----------------------------------------------------------------------------
WalkInit ==
  /\ now \in Seconds
  /\ auditLog = {}
  /\ walk = [at |-> "idle", subject |-> Anyone, limit |-> 1, offset |-> 0,
             got |-> {}, due |-> {}]

\* The ids are random: the next may be below or above those before it.
RecordEntry ==
  /\ \E id \in 1..MaxEntries \ {e.id : e \in auditLog}, user \in Users :
       auditLog' = auditLog \cup {[id |-> id, second |-> now, user |-> user]}
  /\ UNCHANGED <<now, walk>>

\* Forward, or back when it is set.
ClockMoves ==
  /\ now' \in Seconds \ {now}
  /\ UNCHANGED <<auditLog, walk>>

Matching(subject) == {e \in auditLog : subject \in {Anyone, e.user}}

\* Deliberately wrong: the order of entries of one second is left open.
LaterSecond(d, e) == d.second > e.second

Newer(d, e) ==
  \/ d.second > e.second
  \/ d.second = e.second /\ d.id > e.id

\* The answers that the database may give to ORDER BY.
Listings(rows) ==
  {list \in SetToSeqs(rows) :
     \A i, j \in 1..Len(list) : i < j => ~Newer(list[j], list[i])}

\* The reader begins: everything that is in the log is due.  limit may be
\* more than the API gives at once.
StartWalk ==
  /\ walk.at = "idle"
  /\ \E subject \in Users \cup {Anyone}, limit \in 1..MaxLimit + 1 :
       walk' = [walk EXCEPT !.at = "reading", !.subject = subject, !.limit = limit,
                            !.due = Matching(subject)]
  /\ UNCHANGED <<now, auditLog>>

\* One page.  The reader goes on behind the entries it got, up to an empty page.
QueryAudit ==
  /\ walk.at = "reading"
  /\ \E list \in Listings(Matching(walk.subject)) :
       LET limit == Min({walk.limit, MaxLimit})
           page  == SubSeq(list, walk.offset + 1, Min({walk.offset + limit, Len(list)}))
       IN walk' = [walk EXCEPT
            !.at     = IF page = <<>> THEN "done" ELSE "reading",
            !.offset = @ + Len(page),
            !.got    = @ \cup ToSet(page)]
  /\ UNCHANGED <<now, auditLog>>

WalkNext == RecordEntry \/ ClockMoves \/ StartWalk \/ QueryAudit

WalkSpec == WalkInit /\ [][WalkNext]_walkVars

-----------------------------------------------------------------------------
(* A reader that pages to the end has seen every entry of its user that    *)
(* was in the log when it began, whatever is logged between two pages, in  *)
(* the same second or with the clock set back (query_audit orders by       *)
(* created_at and id, both descending, and the log only grows).            *)
WalkMissesNothing ==
  walk.at = "done" => walk.due \subseteq walk.got
=============================================================================
