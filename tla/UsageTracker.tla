---------------------------- MODULE UsageTracker ----------------------------
(***************************************************************************)
(* The daily usage counters of the central proxy                           *)
(* (crates/central/src/usage.rs): one row of the usage_counters table per  *)
(* subject and UTC day, written by three SQL statements that the database  *)
(* executes atomically.  Every statement computes today_date() itself, so  *)
(* it works on the row of the day it RUNS on.                              *)
(*                                                                         *)
(* The cost column is not modelled: no decision of the proxy reads it.     *)
(***************************************************************************)
EXTENDS Integers, FiniteSets

CONSTANTS
  Subjects,   \* user subjects: the first component of the row's key
  MaxDay      \* bound on the number of midnights, for model checking

ASSUME MaxDayAssumption == MaxDay \in Nat

Days == 0 .. MaxDay

VARIABLES
  today,          \* the UTC date of the server's clock
  rowExists,      \* the keys (subject, day) that have a row
  requestCount,   \* request_count, 0 where there is no row
  tokenCount      \* token_count, 0 where there is no row

usageVars == <<today, rowExists, requestCount, tokenCount>>

UsageTypeOK ==
  /\ today \in Days
  /\ rowExists \in SUBSET (Subjects \X Days)
  /\ requestCount \in [Subjects -> [Days -> Nat]]
  /\ tokenCount \in [Subjects -> [Days -> Nat]]

UsageInit ==
  /\ today = 0
  /\ rowExists = {}
  /\ requestCount = [s \in Subjects |-> [d \in Days |-> 0]]
  /\ tokenCount = [s \in Subjects |-> [d \in Days |-> 0]]

-----------------------------------------------------------------------------
\* Deliberately wrong variants, to show that the properties notice them.

IncrementTokensOnly(s, n, t) ==
  /\ rowExists' = rowExists \cup {<<s, today>>}
  /\ tokenCount' = [tokenCount EXCEPT ![s][today] = @ + t]
  /\ UNCHANGED <<today, requestCount>>

HasRoomOffByOne(s, quota) ==
  /\ quota > 0
  /\ requestCount[s][today] <= quota

-----------------------------------------------------------------------------
\* increment: UPSERT that adds the deltas to today's row.
Increment(s, n, t) ==
  /\ rowExists' = rowExists \cup {<<s, today>>}
  /\ requestCount' = [requestCount EXCEPT ![s][today] = @ + n]
  /\ tokenCount' = [tokenCount EXCEPT ![s][today] = @ + t]
  /\ UNCHANGED today

\* The condition of try_reserve_request: the early return on quota <= 0 and
\* the WHERE request_count < quota of the UPSERT (a missing row counts 0).
HasRoom(s, quota) ==
  /\ quota > 0
  /\ requestCount[s][today] < quota

\* try_reserve_request, the branch that returns true.
ReserveOne(s) ==
  /\ rowExists' = rowExists \cup {<<s, today>>}
  /\ requestCount' = [requestCount EXCEPT ![s][today] = @ + 1]
  /\ UNCHANGED <<today, tokenCount>>

\* The condition of release_request: AND request_count > 0.
CanRelease(s) == requestCount[s][today] > 0

\* release_request on a row that satisfies the condition.
ReleaseOne(s) ==
  /\ requestCount' = [requestCount EXCEPT ![s][today] = @ - 1]
  /\ UNCHANGED <<today, rowExists, tokenCount>>

\* get_usage answers Some(row) with token_count >= quota.  A missing row is
\* answered with None, which the caller takes as "nothing spent".
TokensSpent(s, quota) ==
  /\ <<s, today>> \in rowExists
  /\ tokenCount[s][today] >= quota

\* The clock of today_date() passes midnight UTC.
Midnight ==
  /\ today < MaxDay
  /\ today' = today + 1
  /\ UNCHANGED <<rowExists, requestCount, tokenCount>>
=============================================================================
