---------------------------- MODULE PolicyMerge -----------------------------
(***************************************************************************)
(* One policy from the rows of a user's groups (policy.rs, resolve_policy; *)
(* most permissive wins, except for the lifetime of tokens).  The SELECT   *)
(* has no ORDER BY, so the rows come in any order.                         *)
(*                                                                         *)
(* allowed_models stands for allowed_endpoints too, daily_request_quota    *)
(* for daily_token_quota, and token_saver_enabled for the other switches:  *)
(* the code treats them alike.                                             *)
(***************************************************************************)
EXTENDS Integers

CONSTANTS
  Groups,     \* of the user
  Models,
  Numbers,    \* that a limit may be
  Unlimited   \* a NULL in a row, and None in the result

ASSUME NumbersAssumption == Numbers \subseteq Int
ASSUME UnlimitedAssumption ==
  /\ Unlimited \notin Numbers
  /\ \A list \in SUBSET Models : Unlimited # list

VARIABLES
  row,        \* group -> its row; a group without a row is not in the domain
  pending,    \* groups whose row is still to be merged
  merged      \* the result so far

mergeVars == <<row, pending, merged>>

Limits == Numbers \cup {Unlimited}
Allowlists == {Unlimited} \cup SUBSET Models

\* A NULL list allows every model.
Row == [models : Allowlists, quota : Limits, saver : BOOLEAN,
        budget : Limits, tokenTtl : Limits]

\* What an empty list of groups, or one without a row, resolves to: all allowed.
DefaultPolicy ==
  [models |-> Unlimited, quota |-> Unlimited, saver |-> FALSE,
   budget |-> Unlimited, tokenTtl |-> Unlimited]

\* What the loop starts from.
EmptyMerge == [DefaultPolicy EXCEPT !.models = {}]

Larger(a, b) == IF a >= b THEN a ELSE b
Smaller(a, b) == IF a <= b THEN a ELSE b

\* Deliberately wrong: a row with no list adds no models.
MergeListsOnly(acc, models) ==
  IF models = Unlimited \/ acc = Unlimited THEN acc ELSE acc \cup models

MergeModels(acc, models) ==
  IF models = Unlimited \/ acc = Unlimited THEN Unlimited ELSE acc \cup models

\* Only numbers compete, for the largest.
MergeQuota(acc, quota) ==
  IF quota = Unlimited THEN acc
  ELSE IF acc = Unlimited THEN quota ELSE Larger(acc, quota)

\* A row without a budget takes the budget away.
MergeBudget(acc, budget) ==
  IF budget = Unlimited THEN Unlimited
  ELSE IF acc = Unlimited THEN budget ELSE Larger(acc, budget)

\* Only numbers compete, for the smallest.
MergeTokenTtl(acc, ttl) ==
  IF ttl = Unlimited THEN acc
  ELSE IF acc = Unlimited THEN ttl ELSE Smaller(acc, ttl)

MergeRow(g) ==
  LET r == row[g] IN
  /\ g \in pending
  /\ pending' = pending \ {g}
  /\ merged' = [models   |-> MergeModels(merged.models, r.models),
                quota    |-> MergeQuota(merged.quota, r.quota),
                saver    |-> merged.saver \/ r.saver,
                budget   |-> MergeBudget(merged.budget, r.budget),
                tokenTtl |-> MergeTokenTtl(merged.tokenTtl, r.tokenTtl)]
  /\ UNCHANGED row

MergeInit ==
  /\ \E some \in SUBSET Groups : row \in [some -> Row]
  /\ pending = DOMAIN row
  /\ merged = IF DOMAIN row = {} THEN DefaultPolicy ELSE EmptyMerge

MergeNext == \E g \in Groups : MergeRow(g)
MergeSpec == MergeInit /\ [][MergeNext]_mergeVars

-----------------------------------------------------------------------------
Seen == DOMAIN row \ pending

\* v is the numbers of a column, for which Best(a, b) says that a wins over b.
IsBest(v, numbers, Best(_, _)) ==
  IF numbers = {} THEN v = Unlimited
  ELSE v \in numbers /\ \A n \in numbers : Best(v, n)

AtLeast(a, b) == a >= b
AtMost(a, b) == a <= b

ModelsMerged ==
  Seen # {} =>
    merged.models = IF \E g \in Seen : row[g].models = Unlimited THEN Unlimited
                    ELSE UNION {row[g].models : g \in Seen}

QuotaMerged ==
  IsBest(merged.quota, {row[g].quota : g \in Seen} \ {Unlimited}, AtLeast)

SaverMerged == merged.saver <=> \E g \in Seen : row[g].saver

\* The order of the rows decides about the budget if some have none: it is one
\* of theirs, or there is none.
BudgetMerged ==
  LET budgets == {row[g].budget : g \in Seen} IN
  /\ merged.budget \in budgets \cup {Unlimited}
  /\ Unlimited \notin budgets =>
       IsBest(merged.budget, budgets, AtLeast)

TokenTtlMerged ==
  IsBest(merged.tokenTtl, {row[g].tokenTtl : g \in Seen} \ {Unlimited}, AtMost)

(***************************************************************************)
(* After any number of rows, in whatever order they came, the result is    *)
(* that of the set of rows: what one group allows is allowed, the largest  *)
(* quota and the smallest lifetime hold, and no limit is invented or lost. *)
(* Only the token budget may depend on the order (policy.rs,               *)
(* resolve_policy).                                                        *)
(***************************************************************************)
MergeIsOfTheSet ==
  /\ ModelsMerged
  /\ QuotaMerged
  /\ SaverMerged
  /\ BudgetMerged
  /\ TokenTtlMerged
=============================================================================
