----------------------------- MODULE UsagePages -----------------------------
(***************************************************************************)
(* What the admin API shows of usage and quotas (admin.rs, query_usage and *)
(* get_quota; usage.rs, get_usage and get_all_usage), while requests are   *)
(* counted and given back, policies change and the day ends.               *)
(*                                                                         *)
(* The requests are those of RequestPipeline, reduced to the statements    *)
(* that write the counters.  Tokens and cost are counted and shown like    *)
(* requests, and are left out.                                             *)
(***************************************************************************)
EXTENDS Integers, FiniteSets, FiniteSetsExt

CONSTANTS
  Staff,       \* users
  Bands,       \* groups
  Quotas,      \* daily request quotas
  NoQuota,     \* a NULL quota, or a group without a policy
  NoCounter,
  Calls,       \* requests, each used once
  LastDate     \* bounds the days

ASSUME QuotasAssumption == Quotas \subseteq Int /\ NoQuota \notin Quotas
ASSUME BandsAssumption == IsFiniteSet(Bands)
ASSUME NoCounterAssumption ==
  /\ NoCounter \notin [bands : SUBSET Bands, requests : Nat]
  /\ NoCounter \notin [who : Staff, bands : SUBSET Bands, open : BOOLEAN, reserved : BOOLEAN]
ASSUME LastDateAssumption == LastDate \in Nat

VARIABLES
  date,        \* today_date()
  counter,     \* user, day -> the row of usage_counters, or NoCounter
  quotaOf,     \* group -> the quota in its policy
  call,
  page,        \* what the admin API has read for one query
  came         \* history: user, day and groups of what was counted

pageVars == <<date, counter, quotaOf, call, page, came>>

Dates == 0..LastDate
NoPage == [at |-> "new"]

PageInit ==
  /\ date = 0
  /\ counter = [s \in Staff |-> [d \in Dates |-> NoCounter]]
  /\ quotaOf \in [Bands -> Quotas \cup {NoQuota}]
  /\ call = [c \in Calls |-> NoCounter]
  /\ page = NoPage
  /\ came = {}

-----------------------------------------------------------------------------
\* resolve_policy: the largest of the quotas (PolicyMerge).
ResolveQuota(bands) ==
  LET numbers == {quotaOf[b] : b \in bands} \ {NoQuota}
  IN IF numbers = {} THEN NoQuota ELSE Max(numbers)

RequestCount(s, d) == IF counter[s][d] = NoCounter THEN 0 ELSE counter[s][d].requests

\* try_reserve_request.
HasRoomFor(s, quota) == quota > 0 /\ RequestCount(s, date) < quota

\* One request more; the groups of the one counted last are those of the row.
CountOne(s, bands) ==
  /\ counter' = [counter EXCEPT ![s][date] =
       [bands |-> bands, requests |-> RequestCount(s, date) + 1]]
  /\ came' = came \cup {<<s, date, bands>>}

\* One request less on the row of today, if it has any: this need not be the
\* row that the reservation was counted on.
ReleaseRequest(s) ==
  IF RequestCount(s, date) > 0
    THEN counter' = [counter EXCEPT ![s][date].requests = @ - 1]
    ELSE UNCHANGED counter

\* What an open query has read may have changed; an answered one is over.
Disturb == page' = IF page.at = "read" THEN [page EXCEPT !.quiet = FALSE] ELSE NoPage

Admit(c, s, bands) ==
  LET quota == ResolveQuota(bands) IN
  /\ call[c] = NoCounter
  /\ call' = [call EXCEPT ![c] =
       [who |-> s, bands |-> bands, open |-> TRUE, reserved |-> quota # NoQuota]]
  /\ IF quota = NoQuota THEN UNCHANGED <<counter, came>>
     ELSE HasRoomFor(s, quota) /\ CountOne(s, bands)
  /\ Disturb
  /\ UNCHANGED <<date, quotaOf>>

EndCall(c) ==
  /\ call[c] # NoCounter /\ call[c].open
  /\ call' = [call EXCEPT ![c].open = FALSE]
  /\ Disturb
  /\ UNCHANGED <<date, quotaOf>>

\* The statement that also adds the tokens: it counts the request, whether it
\* holds a reservation or not.
Complete(c) == EndCall(c) /\ CountOne(call[c].who, call[c].bands)

\* Nothing was forwarded.
FailForwarding(c) ==
  /\ EndCall(c)
  /\ IF call[c].reserved THEN ReleaseRequest(call[c].who) ELSE UNCHANGED counter
  /\ UNCHANGED came

\* The agent has gone, or the store fails: nothing is counted or given back.
LeaveUncounted(c) == EndCall(c) /\ UNCHANGED <<counter, came>>

SetQuota(b, quota) ==
  /\ quotaOf[b] # quota
  /\ quotaOf' = [quotaOf EXCEPT ![b] = quota]
  /\ Disturb
  /\ UNCHANGED <<date, counter, call, came>>

NextDay ==
  /\ date < LastDate
  /\ date' = date + 1
  /\ Disturb
  /\ UNCHANGED <<counter, quotaOf, call, came>>

-----------------------------------------------------------------------------
\* Deliberately wrong: the row of the last day that has one.
LastUsage(asked) ==
  LET days(s) == {d \in 0..date : counter[s][d] # NoCounter}
  IN [s \in {s \in asked : days(s) # {}} |-> counter[s][Max(days(s))]]

\* get_usage of one user, get_all_usage of all: the rows of today.
GetUsage(asked) ==
  [s \in {s \in asked : counter[s][date] # NoCounter} |-> counter[s][date]]

QueryUsage(asked) ==
  /\ page.at = "new"
  /\ page' = [at |-> "usage", asked |-> asked, date |-> date,
              rows |-> GetUsage(asked), quota |-> NoQuota, quiet |-> TRUE]
  /\ UNCHANGED <<date, counter, quotaOf, call, came>>

\* get_quota reads the row, and then the policies of the groups in it.
GetQuota(s) ==
  /\ page.at = "new"
  /\ page' = [at |-> "read", asked |-> {s}, date |-> date,
              rows |-> GetUsage({s}), quota |-> NoQuota, quiet |-> TRUE]
  /\ UNCHANGED <<date, counter, quotaOf, call, came>>

ResolveForQuota ==
  /\ page.at = "read"
  /\ page' = [page EXCEPT
       !.at = "quota",
       !.quota = ResolveQuota(UNION {page.rows[s].bands : s \in DOMAIN page.rows})]
  /\ UNCHANGED <<date, counter, quotaOf, call, came>>

PageNext ==
  \/ \E c \in Calls :
       \/ Complete(c) \/ FailForwarding(c) \/ LeaveUncounted(c)
       \/ \E s \in Staff, bands \in SUBSET Bands : Admit(c, s, bands)
  \/ \E b \in Bands, quota \in Quotas \cup {NoQuota} : SetQuota(b, quota)
  \/ NextDay
  \/ QueryUsage(Staff)
  \/ \E s \in Staff : QueryUsage({s}) \/ GetQuota(s)
  \/ ResolveForQuota

PageSpec == PageInit /\ [][PageNext]_pageVars

-----------------------------------------------------------------------------
(***************************************************************************)
(* A page shows no row of another day or of groups the user did not come   *)
(* with; and if nothing happened while it was made, it lists whoever was   *)
(* counted, and a quota page foretells the next request of the user with   *)
(* the groups it shows: it is refused for the quota exactly if the count   *)
(* has reached the quota ("the same quotas the permissions middleware      *)
(* enforces", admin.rs, get_quota).                                        *)
(***************************************************************************)
PagesForetell ==
  page.at # "new" =>
    /\ \A s \in DOMAIN page.rows : <<s, page.date, page.rows[s].bands>> \in came
    /\ page.quiet =>
         /\ \A s \in page.asked :
              s \in DOMAIN page.rows <=> \E w \in came : w[1] = s /\ w[2] = date
         /\ page.at = "quota" => \A s \in DOMAIN page.rows :
              LET quota == ResolveQuota(page.rows[s].bands) IN
              (quota # NoQuota /\ ~HasRoomFor(s, quota)) <=>
                (page.quota # NoQuota /\ page.rows[s].requests >= page.quota)
=============================================================================
