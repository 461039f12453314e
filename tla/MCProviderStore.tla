-------------------------- MODULE MCProviderStore --------------------------
(***************************************************************************)
(* A small instance of ProviderStore for TLC.                              *)
(***************************************************************************)
EXTENDS ProviderStore, TLC

CONSTANTS k1, k2, g1, g2, m

Plain == [enabled |-> TRUE, isDefault |-> FALSE, models |-> None]
Fallback == [Plain EXCEPT !.isDefault = TRUE]
Listing == [Plain EXCEPT !.models = {m}]

MCProviderInputs == {Fallback, Listing, [Fallback EXCEPT !.enabled = FALSE]}
MCLists == {{}, {g1}, {g1, g2}}
MCUserGroups == {{g2}}

\* The databases that behaviours begin with.
MCInit ==
  /\ Init
  /\ provider[1] = Fallback
  /\ provider[2] \in {None, Plain, Fallback, Listing}
  /\ key[k1] = [provider |-> 1, enabled |-> TRUE, priority |-> 1]
  /\ key[k2] \in {None, [provider |-> 1, enabled |-> TRUE, priority |-> 2]}
  /\ access[k2] = {}

MCSpec == MCInit /\ [][Next]_vars

Symmetric == Permutations(Calls)
=============================================================================
