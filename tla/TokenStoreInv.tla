---------------------------- MODULE TokenStoreInv ----------------------------
(***************************************************************************)
(* The inductive invariant of TokenStore: what a call knows of its token   *)
(* and of the table while it is between two statements.                    *)
(***************************************************************************)
EXTENDS TokenStore

\* A lifetime that began at created respects the age limit.
Within(created, expires, limit) ==
  limit # None => /\ expires # None
                  /\ expires <= created + limit * Second

\* A call that holds a verified row.
HoldsRow(c) ==
  \/ c.at \in {"touch", "stale"}
  \/ c.at = "resolve" /\ c.op = "serve"

CallOK(c) ==
  /\ c.at = "idle" => c = Idle
  /\ c.at \in {"select", "sweep", "touch"}
       => /\ c.op \in {"serve", "mint", "revokeById"}
          /\ c.bearer \in minted
  /\ c.at \in {"select", "sweep", "find", "reply"} => c.subject = None
  /\ c.at \in {"touch", "resolve", "insert"} => c.subject \in Subjects
  /\ c.op = "revokeCurrent"
       => /\ c.at \in {"find", "delete"}
          /\ c.subject = None
          /\ c.bearer = c.target
  /\ c.at \in {"find", "reply", "delete"} \/ c.op = "revokeById"
       => c.target \in minted
  /\ HoldsRow(c)
       => /\ c.bearer \in minted
          /\ c.seen \in Rows
          /\ Within(c.seen.created, c.seen.expires, mintCap[c.bearer])
  /\ c.at = "stale" => TooOld(c.seen, c.cap)
  /\ c.at = "insert" => /\ Within(c.resolved, c.expires, c.cap)
                        /\ Stored(c.resolved) = c.resolved

CallPhase == \A t \in Calls : CallOK(call[t])

RowPhase ==
  \A k \in Tokens :
    rows[k] # None
      => /\ k \in minted
         /\ Within(rows[k].created, rows[k].expires, mintCap[k])

(***************************************************************************)
(* The invariant of the proofs: what a call holds is what its last         *)
(* statement found, a row belongs to a token that was minted once, within  *)
(* the age limit of that moment, and an acknowledged revocation is final.  *)
(***************************************************************************)
StoreInv ==
  /\ TypeOK
  /\ CallPhase
  /\ RowPhase
  /\ acknowledged \subseteq minted
  /\ RevocationFinal
=============================================================================
