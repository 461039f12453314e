---------------------------- MODULE RateLimiter -----------------------------
(***************************************************************************)
(* The token buckets of the central proxy, one per client address          *)
(* (proxy/rate_limit.rs).  try_take reads the clock, waits for the lock and *)
(* holds it to its answer.  A call is one step, under the lock, with the   *)
(* time it read: of calls that wait at once, any may be the next.          *)
(*                                                                         *)
(* A bucket is refilled by Capacity tokens per Window seconds.  Levels are *)
(* counted in 1/Window of a token, so that they are integers here; in the  *)
(* code they are floating-point numbers.                                   *)
(***************************************************************************)
EXTENDS FiniteSetsExt, Functions, Naturals, Sequences

CONSTANTS
  Ips,
  Capacity,            \* tokens of a full bucket
  Window,              \* seconds in which an empty bucket fills
  EvictAfterWindows,
  EvictEveryNCalls,
  MaxWait,             \* bound on the seconds that calls of an address wait
  MaxClock             \* bound on the seconds of a behaviour

\* The code has 10 windows; one is the least for which a bucket that was idle
\* so long is full again.
ASSUME RateAssumption ==
  /\ {Capacity, Window, EvictAfterWindows, EvictEveryNCalls} \subseteq Nat \ {0}
  /\ {MaxWait, MaxClock} \subseteq Nat

VARIABLES
  clock,
  bucket,     \* tracked address -> the level and the time it was set
  callCount,  \* modulo EvictEveryNCalls
  \* History: no guard of an action reads the variables below.
  waited,     \* address -> the seconds its calls have waited for the lock
  admitted,   \* address -> when requests were let through, and waited before
  promised    \* address -> the times a refused client was told to come back

rateVars == <<clock, bucket, callCount, waited, admitted, promised>>

FullLevel == Capacity * Window

\* Instant::duration_since, which is zero if the earlier time is the later one.
Since(now, earlier) == IF earlier <= now THEN now - earlier ELSE 0

\* A bucket that is not tracked is full.
Level(buckets, ip, now) ==
  IF ip \in DOMAIN buckets
    THEN Min({FullLevel,
              buckets[ip].level + Capacity * Since(now, buckets[ip].lastUpdate)})
    ELSE FullLevel

\* Deliberately wrong: seconds are compared with a number of windows.
StaleSeconds(ip, now) == Since(now, bucket[ip].lastUpdate) >= EvictAfterWindows

Stale(ip, now) == Since(now, bucket[ip].lastUpdate) >= EvictAfterWindows * Window

\* What the table holds when a call has swept it, or not: every N-th does.
Swept(now) ==
  IF (callCount + 1) % EvictEveryNCalls = 0
    THEN Restrict(bucket, {ip \in DOMAIN bucket : ~Stale(ip, now)})
    ELSE bucket

\* Deliberately wrong: the quotient is rounded down.
RetryAfterFloor(level) == Max({1, (Window - level) \div Capacity})

\* Seconds until one token has been refilled, rounded up.
RetryAfter(level) == Max({1, (Window - level + Capacity - 1) \div Capacity})

\* A late call sets lastUpdate back, to the time it read.
TryTake(ip, now) ==
  LET buckets == Swept(now)
      level == Level(buckets, ip, now)
      Keep(l) == bucket' = [i \in DOMAIN buckets \cup {ip} |->
                   IF i = ip THEN [level |-> l, lastUpdate |-> now] ELSE buckets[i]] IN
  /\ callCount' = (callCount + 1) % EvictEveryNCalls
  /\ waited' = [waited EXCEPT ![ip] = @ + clock - now]
  /\ \/ /\ level >= Window
        /\ Keep(level - Window)
        /\ admitted' = [admitted EXCEPT ![ip] =
             Append(@, [at |-> clock, waited |-> waited[ip]])]
        /\ promised' = [promised EXCEPT ![ip] = {}]
     \/ /\ level < Window
        /\ Keep(level)
        /\ promised' = [promised EXCEPT ![ip] = @ \cup {clock + RetryAfter(level)}]
        /\ UNCHANGED admitted
  /\ UNCHANGED clock

Tick ==
  /\ clock < MaxClock
  /\ clock' = clock + 1
  /\ UNCHANGED <<bucket, callCount, waited, admitted, promised>>

RateInit ==
  /\ clock = 0
  /\ bucket = <<>>
  /\ callCount = 0
  /\ waited = [ip \in Ips |-> 0]
  /\ admitted = [ip \in Ips |-> <<>>]
  /\ promised = [ip \in Ips |-> {}]

RateNext ==
  \/ Tick
  \/ \E ip \in Ips, now \in 0..clock :
       waited[ip] + clock - now <= MaxWait /\ TryTake(ip, now)

RateSpec == RateInit /\ [][RateNext]_rateVars

-----------------------------------------------------------------------------
(***************************************************************************)
(* In an interval of d seconds, no address gets more than Capacity         *)
(* requests and those that are refilled in d seconds, although the sweep   *)
(* forgets buckets and other addresses trigger it (rate_limit.rs,          *)
(* try_take and evict_stale_locked): but for what is refilled in the       *)
(* seconds that its calls waited for the lock in that interval, which      *)
(* count again, since a late call sets the time of the last update back.   *)
(***************************************************************************)
NeverAboveRate ==
  \A ip \in Ips : \A j \in DOMAIN admitted[ip] : \A i \in 1..j :
    LET first == admitted[ip][i]
        last == admitted[ip][j] IN
    (j - i + 1) * Window
      <= Capacity * (Window + (last.at - first.at) + (last.waited - first.waited))

(***************************************************************************)
(* A client that was refused and comes back at the time it was told finds  *)
(* a token, unless its address has had one in the meantime, whatever it    *)
(* and others asked for in between, and in whichever order they got the    *)
(* lock (rate_limit.rs, try_take; the comment of                           *)
(* too_many_requests_response).                                            *)
(***************************************************************************)
RetryAfterSuffices ==
  \A ip \in Ips : \A t \in promised[ip] : \A now \in t..clock :
    Level(bucket, ip, now) >= Window

(***************************************************************************)
(* The limiter holds its rate without turning away whoever waited as told. *)
(***************************************************************************)
RateHolds == NeverAboveRate /\ RetryAfterSuffices
=============================================================================
