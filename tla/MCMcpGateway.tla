---------------------------- MODULE MCMcpGateway ----------------------------
(***************************************************************************)
(* A small instance of McpGateway for TLC.                                 *)
(***************************************************************************)
EXTENDS McpGateway, TLC

CONSTANTS a, b, g1, g2, h1, h2, u

\* The servers x and x:y, the tools a and y:a; b of x and a of x:y share a key.
MCParts == {"x", "y", "a"}
MCSpelling == (1 :> <<"x">>) @@ (2 :> <<"x", "y">>) @@ (a :> <<"a">>) @@ (b :> <<"y", "a">>)

MCToolLists == {All, {}, {Key(1, a)}, {Key(1, b), Key(2, b)}}
MCUserGroups == {{g1, g2}}

\* The registries and policies that behaviours begin with.
MCInit ==
  /\ Init
  /\ server[1] = [url |-> u, enabled |-> TRUE, header |-> h1]
  /\ server[2] \in {None, [server[1] EXCEPT !.enabled = FALSE],
                    [server[1] EXCEPT !.header = None]}

MCSpec == MCInit /\ [][Next]_vars

Symmetric == Permutations(Calls)
=============================================================================
