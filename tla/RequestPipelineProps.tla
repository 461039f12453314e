------------------------ MODULE RequestPipelineProps ------------------------
(***************************************************************************)
(* What the request pipeline promises: properties of RequestPipeline.      *)
(***************************************************************************)
EXTENDS RequestPipeline

\* The requests of subject s that history f dates to day d.
On(f, s, d) == {r \in Requests : Subject(r) = s /\ f[r] = d}

ReservedOn(s, d) == On(reservedOn, s, d)
ReleasedOn(s, d) == On(releasedOn, s, d)
RecordedOn(s, d) == On(recordedOn, s, d)

\* The requests that used up a unit of the day's quota and were not given
\* it back.
Admitted(s, d) == {r \in ReservedOn(s, d) : releasedOn[r] = Never}

-----------------------------------------------------------------------------
(***************************************************************************)
(* The request counter of every subject and day is exactly what the        *)
(* reservations added, plus what the recorded outcomes added, less what    *)
(* the releases took: no interleaving of the three SQL statements, no      *)
(* disconnect, restart or store error loses or invents a unit, and the     *)
(* counter never goes below zero (usage.rs).                               *)
(***************************************************************************)
LedgerBalanced ==
  \A s \in Subjects, d \in Days :
    requestCount[s][d] + Cardinality(ReleasedOn(s, d))
      = Cardinality(ReservedOn(s, d)) + Cardinality(RecordedOn(s, d))

(***************************************************************************)
(* The daily request quota holds against any concurrency: on no day are    *)
(* more requests of a subject admitted than the largest quota under which  *)
(* one of them reserved, as long as no release takes back on that day a    *)
(* reservation of an earlier day (usage.rs, try_reserve_request and        *)
(* release_request; permissions.rs, the order of the checks).              *)
(***************************************************************************)
LateRelease(s, d) == \E r \in ReleasedOn(s, d) : reservedOn[r] \in 0 .. d - 1

QuotaHonoured ==
  \A s \in Subjects, d \in Days :
    ~LateRelease(s, d) /\ Admitted(s, d) # {}
      => \E r \in ReservedOn(s, d) :
           Cardinality(Admitted(s, d)) <= pol[r].requestQuota

(***************************************************************************)
(* Tokens that are spent stay spent for the day: a request that arrives    *)
(* when its subject's row has reached the token quota it will be held to,  *)
(* and whose quota is checked on the same day, is never allowed, whatever  *)
(* other requests do between its arrival and the check (permissions.rs).   *)
(***************************************************************************)
SpentQuotaStaysClosed ==
  \A r \in allowed :
    /\ pol[r].tokenQuota # NoLimit
    /\ checkedOn[r] = arrivedOn[r]
    /\ seenSpent[r] # Never
    => seenSpent[r] < pol[r].tokenQuota

(***************************************************************************)
(* A request whose device was revoked when it arrived and was not          *)
(* reinstated while it was on its way is never allowed, also when a        *)
(* concurrent registration has given the device a second row, which is not *)
(* marked revoked (permissions.rs; device_store.rs, upsert_device).        *)
(***************************************************************************)
RevokedDeviceNotServed == allowed \subseteq cleared

(***************************************************************************)
(* Nothing is charged without a trace: whenever an outcome has been added  *)
(* to the counters, its audit row has been written (or its insert failed   *)
(* and was logged).  A disconnect or restart between the two statements    *)
(* may lose the charge but never leaves a charge without its audit row     *)
(* (forward.rs, record_request_outcome).                                   *)
(***************************************************************************)
ChargedOnlyIfAudited ==
  \A r \in Requests : recordedOn[r] # Never => audit[r] \in {"allowed", "lost"}

(***************************************************************************)
(* The request_reserved flag tells the truth when the handler reads it:    *)
(* a request that went on to the forward handler under a request quota     *)
(* holds a reservation, one without a request quota holds none, and a      *)
(* request that any check or store error turned away never took one        *)
(* (permissions.rs, the reservation is the last check).                    *)
(***************************************************************************)
ReservedIffAdmitted ==
  \A r \in Requests :
    /\ r \in allowed => (reservedOn[r] # Never <=> pol[r].requestQuota # NoLimit)
    /\ pc[r] \in {"rejected", "denied"} => reservedOn[r] = Never

(***************************************************************************)
(* Every reservation settles: it is given back, or its outcome is          *)
(* recorded, or its day ends, or its day's counter is at zero already.     *)
(* The last case is real: a release of the day before, run after midnight, *)
(* takes the unit of this request, whose own release then finds nothing to *)
(* take (forward.rs, proxy_handler; usage.rs, release_request).            *)
(***************************************************************************)
ReservationSettles ==
  \A r \in Requests :
    reservedOn[r] # Never
      ~> \/ releasedOn[r] # Never
         \/ recordedOn[r] # Never
         \/ today > reservedOn[r]
         \/ requestCount[Subject(r)][today] = 0

-----------------------------------------------------------------------------
(***************************************************************************)
(* What the comments claim and the code does not do.                       *)
(***************************************************************************)

(***************************************************************************)
(* permissions.rs says of request_reserved that the forward handler uses   *)
(* it to avoid counting the request twice: then no counter could exceed    *)
(* the number of requests that reserved or recorded on its day.            *)
(***************************************************************************)
CountedOnce ==
  \A s \in Subjects, d \in Days :
    requestCount[s][d] <= Cardinality(ReservedOn(s, d) \cup RecordedOn(s, d))

(***************************************************************************)
(* usage.rs says of the reservation that concurrent requests cannot all    *)
(* observe the same remaining capacity: then no more requests of one day   *)
(* could be admitted at a time than a quota allows, also when a release    *)
(* runs after midnight.                                                    *)
(***************************************************************************)
QuotaHonouredAcrossMidnight ==
  \A s \in Subjects, d \in Days :
    Admitted(s, d) # {}
      => \E r \in ReservedOn(s, d) :
           Cardinality(Admitted(s, d)) <= pol[r].requestQuota

(***************************************************************************)
(* usage.rs says that callers must call release_request when a request     *)
(* cannot be forwarded at all: then a request that ended before it had an  *)
(* outcome would not keep its unit of the current day.                     *)
(***************************************************************************)
AbortedGivesBack ==
  \A r \in Requests :
    pc[r] = "aborted" /\ audit[r] = "none" /\ reservedOn[r] = today
      => releasedOn[r] # Never
=============================================================================
