------------------------- MODULE MCRequestPipeline -------------------------
(***************************************************************************)
(* Small instances of RequestPipeline for TLC.  The cfg files choose the   *)
(* requests, the faults and one of the sets of policies below.             *)
(***************************************************************************)
EXTENDS RequestPipelineInv, TLC

CONSTANTS
  r1, r2, r3,   \* request slots
  t1,           \* the token all requests carry
  u1,           \* its subject
  v1,           \* the device it was minted from
  chat          \* the only target a policy of these instances may allow

MCTwoRequests == {r1, r2}
MCThreeRequests == {r1, r2, r3}
MCTokens == {t1}
MCTokenOf == [r \in Requests |-> t1]
MCSubjectOf == [k \in Tokens |-> u1]
MCDeviceOf == [k \in Tokens |-> v1]

Limits(requests, tokens, age, targets) ==
  [requestQuota |-> requests, tokenQuota |-> tokens, maxAge |-> age,
   targets |-> targets]

\* One policy that never changes.
MCRequestQuotaOne == {Limits(1, NoLimit, NoLimit, {chat})}
MCRequestQuotaTwo == {Limits(2, NoLimit, NoLimit, {chat})}
MCBothQuotas == {Limits(2, 1, NoLimit, {chat})}

\* The administrators impose and lift a request quota, age the tokens out
\* and forbid the target.
MCPolicyChanges == {Limits(1, 1, NoLimit, {chat}),
                    Limits(NoLimit, 1, 0, {chat}),
                    Limits(1, NoLimit, NoLimit, {})}

Symmetric == Permutations(Requests)
=============================================================================
