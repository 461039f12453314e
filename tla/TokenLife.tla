----------------------------- MODULE TokenLife -----------------------------
(***************************************************************************)
(* What the token store of the central proxy promises to its callers: a    *)
(* token is born once, lives, and dies for good; a call is given the       *)
(* identity of a token only at a moment at which that token lives.  How    *)
(* tokens are stored, expire, are revoked and are looked up in several     *)
(* statements is the business of TokenStore, which implements this.        *)
(***************************************************************************)
CONSTANTS Tokens, Calls, None

VARIABLES
  status,   \* of each token: "unborn", "live" or "dead"
  holds     \* of each call: the token whose identity it was given, or None

lifeVars == <<status, holds>>

Init ==
  /\ status = [k \in Tokens |-> "unborn"]
  /\ holds = [t \in Calls |-> None]

Finish(t) == holds' = [holds EXCEPT ![t] = None]

\* A token is born or dies, possibly by a call that ends with it.
Become(k, from, to) ==
  /\ status[k] = from
  /\ status' = [status EXCEPT ![k] = to]
  /\ UNCHANGED holds \/ \E t \in Calls : Finish(t)

Accept(t, k) ==
  /\ holds[t] = None
  /\ status[k] = "live"
  /\ holds' = [holds EXCEPT ![t] = k]
  /\ UNCHANGED status

Next ==
  \/ \E k \in Tokens : Become(k, "unborn", "live") \/ Become(k, "live", "dead")
  \/ \E t \in Calls, k \in Tokens : Accept(t, k)
  \/ \E t \in Calls : Finish(t) /\ UNCHANGED status

Spec == Init /\ [][Next]_lifeVars
=============================================================================
