---------------------------- MODULE Admin_proofs ----------------------------
(***************************************************************************)
(* What administrators set and read: the policies of groups and how those  *)
(* of a user are merged (PolicyDesk, PolicyMerge), prices (Pricing), usage *)
(* and quotas (UsagePages), the audit log (AuditWalk), what was saved by   *)
(* the token saver (SaverSummary), that saver (TokenSaver), and what the   *)
(* log on stderr shows (LogLines), for any groups, models, limits,         *)
(* providers, calls, days, entries, messages and events.                   *)
(***************************************************************************)
EXTENDS PolicyMerge, PolicyDesk, Pricing, UsagePages, AuditWalk, SaverSummary, TokenSaver,
        LogLines, FiniteSetTheorems, SequenceTheorems, WellFoundedInduction, TLAPS

-----------------------------------------------------------------------------
(* PolicyMerge *)

\* What the loop knows between two rows, with MergeIsOfTheSet; the last part
\* tells the first row from a merge that began with an unlimited list.
MergeInv ==
  /\ row \in [DOMAIN row -> Row]
  /\ DOMAIN row \subseteq Groups
  /\ pending \subseteq DOMAIN row
  /\ (Seen = {} /\ pending # {}) => merged.models = {}
  /\ MergeIsOfTheSet

\* The best of some numbers and one more is the better one of the two.
LEMMA LargestOfMore ==
  ASSUME NEW numbers \in SUBSET Numbers, NEW v, NEW q \in Limits,
         IsBest(v, numbers, AtLeast)
  PROVE  IsBest(MergeQuota(v, q), (numbers \cup {q}) \ {Unlimited}, AtLeast)
<1>1. v \in Limits /\ Unlimited \notin numbers /\ numbers \subseteq Int
  BY NumbersAssumption, UnlimitedAssumption DEF IsBest, Limits
<1>2. ASSUME q = Unlimited
      PROVE  MergeQuota(v, q) = v /\ (numbers \cup {q}) \ {Unlimited} = numbers
  BY <1>1, <1>2 DEF MergeQuota
<1>3. ASSUME q # Unlimited, numbers = {}
      PROVE  MergeQuota(v, q) = q /\ (numbers \cup {q}) \ {Unlimited} = {q} /\ q \in Int
  BY <1>3, NumbersAssumption DEF MergeQuota, IsBest, Limits
<1>4. ASSUME q # Unlimited, numbers # {}
      PROVE  /\ MergeQuota(v, q) = Larger(v, q)
             /\ (numbers \cup {q}) \ {Unlimited} = numbers \cup {q}
             /\ v \in numbers /\ v \in Int /\ q \in Int /\ \A n \in numbers : AtLeast(v, n)
  BY <1>1, <1>4, NumbersAssumption DEF MergeQuota, IsBest, Limits
<1>5. ASSUME q # Unlimited, numbers # {}
      PROVE  /\ Larger(v, q) \in numbers \cup {q}
             /\ \A n \in numbers \cup {q} : AtLeast(Larger(v, q), n)
  BY <1>1, <1>4, <1>5 DEF IsBest, Larger, AtLeast
<1>. QED
  BY <1>2, <1>3, <1>4, <1>5 DEF IsBest, AtLeast

LEMMA SmallestOfMore ==
  ASSUME NEW numbers \in SUBSET Numbers, NEW v, NEW t \in Limits,
         IsBest(v, numbers, AtMost)
  PROVE  IsBest(MergeTokenTtl(v, t), (numbers \cup {t}) \ {Unlimited}, AtMost)
<1>1. v \in Limits /\ Unlimited \notin numbers /\ numbers \subseteq Int
  BY NumbersAssumption, UnlimitedAssumption DEF IsBest, Limits
<1>2. ASSUME t = Unlimited
      PROVE  MergeTokenTtl(v, t) = v /\ (numbers \cup {t}) \ {Unlimited} = numbers
  BY <1>1, <1>2 DEF MergeTokenTtl
<1>3. ASSUME t # Unlimited, numbers = {}
      PROVE  MergeTokenTtl(v, t) = t /\ (numbers \cup {t}) \ {Unlimited} = {t} /\ t \in Int
  BY <1>3, NumbersAssumption DEF MergeTokenTtl, IsBest, Limits
<1>4. ASSUME t # Unlimited, numbers # {}
      PROVE  /\ MergeTokenTtl(v, t) = Smaller(v, t)
             /\ (numbers \cup {t}) \ {Unlimited} = numbers \cup {t}
             /\ v \in numbers /\ v \in Int /\ t \in Int /\ \A n \in numbers : AtMost(v, n)
  BY <1>1, <1>4, NumbersAssumption DEF MergeTokenTtl, IsBest, Limits
<1>5. ASSUME t # Unlimited, numbers # {}
      PROVE  /\ Smaller(v, t) \in numbers \cup {t}
             /\ \A n \in numbers \cup {t} : AtMost(Smaller(v, t), n)
  BY <1>1, <1>4, <1>5 DEF IsBest, Smaller, AtMost
<1>. QED
  BY <1>2, <1>3, <1>4, <1>5 DEF IsBest, AtMost

LEMMA InitIsOfTheSet == MergeInit => MergeInv
<1>. SUFFICES ASSUME MergeInit PROVE MergeInv
  OBVIOUS
<1>1. PICK some \in SUBSET Groups : row \in [some -> Row]
  BY DEF MergeInit
<1>2. DOMAIN row = some /\ row \in [DOMAIN row -> Row]
  BY <1>1
<1>3. pending = DOMAIN row /\ Seen = {}
  BY DEF MergeInit, Seen
<1>4. /\ merged.quota = Unlimited /\ merged.tokenTtl = Unlimited
      /\ merged.budget = Unlimited /\ merged.saver = FALSE
  BY DEF MergeInit, DefaultPolicy, EmptyMerge
<1>5. pending # {} => merged.models = {}
  BY <1>3 DEF MergeInit, DefaultPolicy, EmptyMerge
<1>. QED
  BY <1>2, <1>3, <1>4, <1>5
  DEF MergeInv, MergeIsOfTheSet, ModelsMerged, QuotaMerged, SaverMerged,
      BudgetMerged, TokenTtlMerged, IsBest

LEMMA RowIsOfTheSet ==
  ASSUME MergeInv, NEW g \in Groups, MergeRow(g)
  PROVE  MergeInv'
<1>. DEFINE r == row[g]
<1>1. g \in pending /\ g \in DOMAIN row /\ row' = row
  BY DEF MergeRow, MergeInv
<1>2. Seen' = Seen \cup {g} /\ pending' \subseteq DOMAIN row
  BY <1>1 DEF MergeRow, Seen, MergeInv
<1>3. /\ merged'.models = MergeModels(merged.models, r.models)
      /\ merged'.quota = MergeQuota(merged.quota, r.quota)
      /\ merged'.saver = (merged.saver \/ r.saver)
      /\ merged'.budget = MergeBudget(merged.budget, r.budget)
      /\ merged'.tokenTtl = MergeTokenTtl(merged.tokenTtl, r.tokenTtl)
  BY DEF MergeRow
<1>4. \A h \in Seen \cup {g} : row[h] \in Row
  BY <1>1 DEF MergeInv, Seen
<1>5. \A h \in Seen \cup {g} :
        /\ row[h].models \in Allowlists /\ row[h].quota \in Limits
        /\ row[h].saver \in BOOLEAN /\ row[h].budget \in Limits
        /\ row[h].tokenTtl \in Limits
  BY <1>4 DEF Row
<1>6. ModelsMerged'
  <2>1. Seen = {} => merged.models = {}
    BY <1>1 DEF MergeInv
  <2>2. Seen # {} =>
          merged.models = IF \E h \in Seen : row[h].models = Unlimited THEN Unlimited
                          ELSE UNION {row[h].models : h \in Seen}
    BY DEF MergeInv, MergeIsOfTheSet, ModelsMerged
  <2>. DEFINE Lists(S) == {row[h].models : h \in S}
  <2>3. UNION Lists(Seen \cup {g}) = (UNION Lists(Seen)) \cup r.models
    OBVIOUS
  <2>4. (\E h \in Seen : row[h].models = Unlimited) => merged.models = Unlimited
    BY <2>2
  <2>5. ~(\E h \in Seen : row[h].models = Unlimited) =>
           merged.models = UNION Lists(Seen) /\ merged.models \in SUBSET Models
    BY <2>1, <2>2, <1>5 DEF Allowlists
  <2>6. \A list \in SUBSET Models : Unlimited # list
    BY UnlimitedAssumption
  <2>7. merged'.models =
          IF \E h \in Seen \cup {g} : row[h].models = Unlimited THEN Unlimited
          ELSE UNION Lists(Seen \cup {g})
    BY <1>3, <2>3, <2>4, <2>5, <2>6 DEF MergeModels
  <2>. QED
    BY <1>1, <1>2, <2>7 DEF ModelsMerged
<1>7. QuotaMerged'
  <2>. DEFINE numbers == {row[h].quota : h \in Seen} \ {Unlimited}
  <2>1. numbers \in SUBSET Numbers
    BY <1>5 DEF Limits
  <2>2. IsBest(merged.quota, numbers, AtLeast)
    BY DEF MergeInv, MergeIsOfTheSet, QuotaMerged
  <2>3. r.quota \in Limits
    BY <1>5
  <2>4. IsBest(MergeQuota(merged.quota, r.quota),
               (numbers \cup {r.quota}) \ {Unlimited}, AtLeast)
    BY <2>1, <2>2, <2>3, LargestOfMore
  <2>5. (numbers \cup {r.quota}) \ {Unlimited}
          = {row'[h].quota : h \in Seen'} \ {Unlimited}
    BY <1>1, <1>2
  <2>. QED
    BY <1>3, <2>4, <2>5 DEF QuotaMerged
<1>8. TokenTtlMerged'
  <2>. DEFINE numbers == {row[h].tokenTtl : h \in Seen} \ {Unlimited}
  <2>1. numbers \in SUBSET Numbers
    BY <1>5 DEF Limits
  <2>2. IsBest(merged.tokenTtl, numbers, AtMost)
    BY DEF MergeInv, MergeIsOfTheSet, TokenTtlMerged
  <2>3. r.tokenTtl \in Limits
    BY <1>5
  <2>4. IsBest(MergeTokenTtl(merged.tokenTtl, r.tokenTtl),
               (numbers \cup {r.tokenTtl}) \ {Unlimited}, AtMost)
    BY <2>1, <2>2, <2>3, SmallestOfMore
  <2>5. (numbers \cup {r.tokenTtl}) \ {Unlimited}
          = {row'[h].tokenTtl : h \in Seen'} \ {Unlimited}
    BY <1>1, <1>2
  <2>. QED
    BY <1>3, <2>4, <2>5 DEF TokenTtlMerged
<1>9. BudgetMerged'
  <2>. DEFINE budgets == {row[h].budget : h \in Seen}
  <2>1. {row'[h].budget : h \in Seen'} = budgets \cup {r.budget}
    BY <1>1, <1>2
  <2>2. budgets \subseteq Limits /\ r.budget \in Limits
    BY <1>5
  <2>3. /\ merged.budget \in budgets \cup {Unlimited}
        /\ Unlimited \notin budgets => IsBest(merged.budget, budgets, AtLeast)
    BY DEF MergeInv, MergeIsOfTheSet, BudgetMerged
  <2>4. MergeBudget(merged.budget, r.budget) \in budgets \cup {r.budget, Unlimited}
    BY <2>3 DEF MergeBudget, Larger
  <2>5. ASSUME Unlimited \notin budgets \cup {r.budget}
        PROVE  IsBest(MergeBudget(merged.budget, r.budget),
                      budgets \cup {r.budget}, AtLeast)
    <3>1. MergeBudget(merged.budget, r.budget) = MergeQuota(merged.budget, r.budget)
      BY <2>5 DEF MergeBudget, MergeQuota
    <3>2. budgets \in SUBSET Numbers
      BY <2>2, <2>5 DEF Limits
    <3>3. IsBest(MergeQuota(merged.budget, r.budget),
                 (budgets \cup {r.budget}) \ {Unlimited}, AtLeast)
      BY <2>2, <2>3, <2>5, <3>2, LargestOfMore
    <3>. QED
      BY <2>5, <3>1, <3>3
  <2>. QED
    BY <1>3, <2>1, <2>4, <2>5 DEF BudgetMerged
<1>10. SaverMerged'
  BY <1>1, <1>2, <1>3, <1>5 DEF SaverMerged, MergeInv, MergeIsOfTheSet
<1>11. /\ (row \in [DOMAIN row -> Row])' /\ (DOMAIN row \subseteq Groups)'
       /\ (pending \subseteq DOMAIN row)' /\ Seen' # {}
  BY <1>1, <1>2 DEF MergeInv
<1>. QED
  BY <1>6, <1>7, <1>8, <1>9, <1>10, <1>11 DEF MergeInv, MergeIsOfTheSet

LEMMA StutterKeeps == MergeInv /\ UNCHANGED mergeVars => MergeInv'
BY DEF MergeInv, mergeVars, MergeIsOfTheSet, ModelsMerged, QuotaMerged,
       SaverMerged, BudgetMerged, TokenTtlMerged, Seen

(***************************************************************************)
(* However many groups a user has and in whatever order the database       *)
(* returns their rows, the merged policy is that of their set              *)
(* (policy.rs, resolve_policy).                                            *)
(***************************************************************************)
THEOREM MergeCorrect == MergeSpec => []MergeIsOfTheSet
<1>1. MergeInit => MergeInv
  BY InitIsOfTheSet
<1>2. MergeInv /\ [MergeNext]_mergeVars => MergeInv'
  BY RowIsOfTheSet, StutterKeeps DEF MergeNext
<1>3. MergeInv => MergeIsOfTheSet
  BY DEF MergeInv
<1>. QED
  BY <1>1, <1>2, <1>3, PTL DEF MergeSpec

-----------------------------------------------------------------------------
(* PolicyDesk *)

Rows == [id : Changes, columns : [PolicyColumns -> [by : Changes, sent : BOOLEAN]]]
DeskPlaces == {"idle", "find", "write", "log", "done", "refused", "dropped"}

DeskTypeOK ==
  /\ policyRow \in Rows \cup {NoRow}
  /\ change \in [Changes -> [at : DeskPlaces, sends : SUBSET PolicyColumns,
                             existing : Rows \cup {NoRow}]]
  /\ settledBefore \in [Changes -> SUBSET Changes]

\* Call c has changed the row, or will not: the row it has read is gone.
Past(c) ==
  \/ change[c].at \in {"log", "done"}
  \/ /\ change[c].at = "write" /\ change[c].existing # NoRow
     /\ change[c].existing.id # policyRow.id

\* Who wrote the row was not answered when such a call began.
DeskInv ==
  /\ DeskTypeOK
  /\ \A c, d \in Changes : d \in settledBefore[c] => Answered(d)
  /\ policyRow # NoRow =>
       \E author \in Changes :
         /\ \A f \in PolicyColumns : policyRow.columns[f].by = author
         /\ \A c \in Changes : Past(c) => author \notin settledBefore[c]

LEMMA DeskInitOK == DeskInit => DeskInv
BY DEF DeskInit, DeskInv, DeskTypeOK, DeskPlaces

\* A call of which nothing but the place changes, and no row.
LEMMA StepAside ==
  ASSUME DeskInv, NEW c \in Changes, NEW place \in {"refused", "done", "dropped"},
         ~Answered(c), Continue(c, place), UNCHANGED <<policyRow, settledBefore>>,
         place = "done" => change[c].at = "log"
  PROVE  DeskInv'
<1>1. /\ change' \in [Changes -> [at : DeskPlaces, sends : SUBSET PolicyColumns,
                                  existing : Rows \cup {NoRow}]]
      /\ change'[c].at = place
      /\ \A d \in Changes \ {c} : change'[d] = change[d]
  BY DEF Continue, DeskInv, DeskTypeOK, DeskPlaces
<1>2. \A d \in Changes : Answered(d) => Answered(d)'
  BY <1>1 DEF Answered
<1>3. \A d \in Changes : Past(d)' => Past(d)
  BY <1>1 DEF Past
<1>. QED
  BY <1>1, <1>2, <1>3 DEF DeskInv, DeskTypeOK

\* A call that begins, with or without deleting the row.
LEMMA BeginOK ==
  ASSUME DeskInv, NEW c \in Changes, change[c].at = "idle", Begins(c),
         NEW sends \in SUBSET PolicyColumns, NEW place \in {"find", "refused", "log"},
         change' = [change EXCEPT ![c].at = place, ![c].sends = sends],
         place = "log" => policyRow' = NoRow,
         place # "log" => UNCHANGED policyRow
  PROVE  DeskInv'
<1>1. /\ change' \in [Changes -> [at : DeskPlaces, sends : SUBSET PolicyColumns,
                                  existing : Rows \cup {NoRow}]]
      /\ change'[c].at = place
      /\ \A d \in Changes \ {c} : change'[d] = change[d]
  BY DEF DeskInv, DeskTypeOK, DeskPlaces
<1>2. /\ settledBefore' \in [Changes -> SUBSET Changes]
      /\ settledBefore'[c] = {d \in Changes : Answered(d)}
      /\ \A d \in Changes \ {c} : settledBefore'[d] = settledBefore[d]
  BY DEF Begins, DeskInv, DeskTypeOK
<1>3. \A d \in Changes : Answered(d) => Answered(d)'
  BY <1>1 DEF Answered
<1>4. place # "log" => \A d \in Changes : Past(d)' => d # c /\ Past(d)
  BY <1>1 DEF Past
<1>. QED
  BY <1>1, <1>2, <1>3, <1>4, SMTT(20) DEF DeskInv, DeskTypeOK

\* A call that writes the row becomes its author.
LEMMA WriteOK ==
  ASSUME DeskInv, NEW c \in Changes, change[c].at = "write", Continue(c, "log"),
         policyRow' \in Rows, policyRow'.columns = PolicyValues(c),
         UNCHANGED settledBefore
  PROVE  DeskInv'
<1>1. /\ change' \in [Changes -> [at : DeskPlaces, sends : SUBSET PolicyColumns,
                                  existing : Rows \cup {NoRow}]]
      /\ change'[c].at = "log"
      /\ \A d \in Changes \ {c} : change'[d] = change[d]
  BY DEF Continue, DeskInv, DeskTypeOK, DeskPlaces
<1>2. \A d \in Changes : c \notin settledBefore[d]
  BY DEF DeskInv, Answered
<1>3. \A d \in Changes : Answered(d) => Answered(d)'
  BY <1>1 DEF Answered
<1>4. \A f \in PolicyColumns : policyRow'.columns[f].by = c
  BY DEF PolicyValues
<1>. QED
  BY <1>1, <1>2, <1>3, <1>4 DEF DeskInv, DeskTypeOK

LEMMA PolicyValuesOK ==
  ASSUME NEW c \in Changes
  PROVE  PolicyValues(c) \in [PolicyColumns -> [by : Changes, sent : BOOLEAN]]
BY DEF PolicyValues

LEMMA UpsertPolicyOK ==
  ASSUME DeskInv, NEW c \in Changes, UpsertPolicy(c)
  PROVE  DeskInv'
BY BeginOK DEF UpsertPolicy

LEMMA FindPolicyOK ==
  ASSUME DeskInv, NEW c \in Changes, FindPolicy(c)
  PROVE  DeskInv'
<1>1. ASSUME change' = [change EXCEPT ![c].at = "write", ![c].existing = policyRow]
      PROVE  DeskInv'
  <2>1. UNCHANGED <<policyRow, settledBefore>> /\ change[c].at = "find"
    BY DEF FindPolicy
  <2>2. /\ change' \in [Changes -> [at : DeskPlaces, sends : SUBSET PolicyColumns,
                                    existing : Rows \cup {NoRow}]]
        /\ change'[c].at = "write" /\ change'[c].existing = policyRow
        /\ \A d \in Changes \ {c} : change'[d] = change[d]
    BY <1>1, ZenonT(40) DEF DeskInv, DeskTypeOK, DeskPlaces
  <2>3. \A d \in Changes : Answered(d) => Answered(d)'
    BY <2>1, <2>2 DEF Answered
  <2>4. \A d \in Changes : Past(d)' => Past(d)
    BY <2>1, <2>2 DEF Past
  <2>. QED
    BY <2>1, <2>2, <2>3, <2>4 DEF DeskInv, DeskTypeOK
<1>2. ASSUME Continue(c, "refused") PROVE DeskInv'
  BY <1>2, StepAside DEF FindPolicy, Answered
<1>. QED
  BY <1>1, <1>2 DEF FindPolicy

LEMMA UpdatePolicyOK ==
  ASSUME DeskInv, NEW c \in Changes, UpdatePolicy(c)
  PROVE  DeskInv'
<1>. DEFINE Hits == policyRow # NoRow /\ policyRow.id = change[c].existing.id
<1>1. change[c].at = "write" /\ change[c].existing # NoRow /\ UNCHANGED settledBefore
  BY DEF UpdatePolicy
<1>2. ASSUME Hits, policyRow' = [policyRow EXCEPT !.columns = PolicyValues(c)],
             Continue(c, "log")
      PROVE  DeskInv'
  <2>1. policyRow \in Rows
    BY <1>2 DEF DeskInv, DeskTypeOK
  <2>2. policyRow' \in Rows /\ policyRow'.columns = PolicyValues(c)
    BY <1>2, <2>1, PolicyValuesOK DEF Rows
  <2>. QED
    BY <1>1, <1>2, <2>2, WriteOK
<1>3. ASSUME ~Hits, UNCHANGED policyRow, Continue(c, "log")
      PROVE  DeskInv'
  <2>1. /\ change' \in [Changes -> [at : DeskPlaces, sends : SUBSET PolicyColumns,
                                    existing : Rows \cup {NoRow}]]
        /\ change'[c].at = "log"
        /\ \A d \in Changes \ {c} : change'[d] = change[d]
    BY <1>3 DEF Continue, DeskInv, DeskTypeOK, DeskPlaces
  <2>2. \A d \in Changes : Answered(d) => Answered(d)'
    BY <1>1, <2>1 DEF Answered
  <2>3. policyRow # NoRow => \A d \in Changes : Past(d)' => Past(d)
    BY <1>1, <1>3, <2>1 DEF Past
  <2>. QED
    BY <1>1, <1>3, <2>1, <2>2, <2>3 DEF DeskInv, DeskTypeOK
<1>4. ASSUME Continue(c, "refused"), UNCHANGED policyRow
      PROVE  DeskInv'
  BY <1>1, <1>4, StepAside DEF Answered
<1>. QED
  BY <1>2, <1>3, <1>4 DEF UpdatePolicy

LEMMA InsertPolicyOK ==
  ASSUME DeskInv, NEW c \in Changes, InsertPolicy(c)
  PROVE  DeskInv'
<1>1. change[c].at = "write" /\ UNCHANGED settledBefore
  BY DEF InsertPolicy
<1>2. ASSUME policyRow' = [id |-> c, columns |-> PolicyValues(c)], Continue(c, "log")
      PROVE  DeskInv'
  <2>1. policyRow' \in Rows /\ policyRow'.columns = PolicyValues(c)
    BY <1>2, PolicyValuesOK DEF Rows
  <2>. QED
    BY <1>1, <1>2, <2>1, WriteOK
<1>3. ASSUME Continue(c, "refused"), UNCHANGED policyRow
      PROVE  DeskInv'
  BY <1>1, <1>3, StepAside DEF Answered
<1>. QED
  BY <1>2, <1>3 DEF InsertPolicy

LEMMA DeletePolicyOK ==
  ASSUME DeskInv, NEW c \in Changes, DeletePolicy(c)
  PROVE  DeskInv'
<1>1. change[c] \in [at : DeskPlaces, sends : SUBSET PolicyColumns,
                     existing : Rows \cup {NoRow}]
  BY DEF DeskInv, DeskTypeOK
<1>2. \A place : Continue(c, place) =>
        change' = [change EXCEPT ![c].at = place, ![c].sends = change[c].sends]
  BY <1>1 DEF Continue, DeskInv, DeskTypeOK
<1>. QED
  BY <1>1, <1>2, BeginOK DEF DeletePolicy

LEMMA DeskStutter == DeskInv /\ UNCHANGED deskVars => DeskInv'
BY DEF deskVars, DeskInv, DeskTypeOK, Past, Answered

(***************************************************************************)
(* However many administrators write and delete the policy of a group at   *)
(* the same time, what is stored is one PUT as a whole, and none that was  *)
(* answered before a later change began (policy.rs, upsert_policy_full:    *)
(* the UPDATE writes every column of the row that was read, by its id).    *)
(***************************************************************************)
THEOREM DeskCorrect == DeskSpec => []PolicyIsALatePut
<1>1. DeskInit => DeskInv
  BY DeskInitOK
<1>2. DeskInv /\ [DeskNext]_deskVars => DeskInv'
  <2>. SUFFICES ASSUME DeskInv, NEW c \in Changes,
                       \/ UpsertPolicy(c) \/ FindPolicy(c) \/ UpdatePolicy(c)
                       \/ InsertPolicy(c) \/ DeletePolicy(c)
                       \/ RecordAdminAudit(c) \/ DropCall(c)
                PROVE  DeskInv'
    BY DeskStutter DEF DeskNext
  <2>1. RecordAdminAudit(c) => DeskInv'
    BY StepAside DEF RecordAdminAudit, Answered
  <2>2. DropCall(c) => DeskInv'
    BY StepAside DEF DropCall, Answered
  <2>. QED
    BY <2>1, <2>2, UpsertPolicyOK, FindPolicyOK, UpdatePolicyOK, InsertPolicyOK,
       DeletePolicyOK
<1>3. DeskInv => PolicyIsALatePut
  BY DEF DeskInv, Past, PolicyIsALatePut
<1>. QED
  BY <1>1, <1>2, <1>3, PTL DEF DeskSpec

-----------------------------------------------------------------------------
(* Pricing *)

\* Whom the running cycle has asked, if it is undisturbed: all of them come
\* before those it has yet to ask, and the last one with a price sets it.
Asked == enabled \ toAsk

SetByLast ==
  \A v \in Asked \cap Listing :
    \E last \in Asked \cap Listing :
      /\ \A w \in Asked \cap Listing : w <= last
      /\ priced = Fetched(ParseModels(catalog[last]))

PricingInv ==
  /\ enabled \subseteq Vendors /\ toAsk \subseteq Vendors
  /\ configured # NoPrice => priced = Override(configured)
  /\ configured = NoPrice => priced.source # "override"
  /\ undisturbed =>
       /\ \A v \in Asked, w \in toAsk : v < w
       /\ toAsk \subseteq enabled
       /\ configured = NoPrice => SetByLast

LEMMA SourcesOfPrices ==
  ASSUME NEW price
  PROVE  /\ Unpriced.source = "none" /\ Override(price).source = "override"
         /\ Fetched(price).source = "fetched"
         /\ Override(price).price = price /\ Fetched(price).price = price
BY DEF Unpriced, Override, Fetched

LEMMA CycleBegins ==
  ASSUME PricingInv, RefreshProviderPricesOnce
  PROVE  PricingInv'
<1>1. /\ UNCHANGED <<configured, priced, enabled, catalog>> /\ toAsk' \subseteq Vendors
      /\ undisturbed' => toAsk' = enabled
  BY DEF RefreshProviderPricesOnce, PricingInv
<1>2. undisturbed' => Asked' = {}
  BY <1>1 DEF Asked
<1>. QED
  BY <1>1, <1>2 DEF PricingInv, SetByLast

LEMMA ProviderAsked ==
  ASSUME PricingInv, NEW v \in Vendors, FetchFromBackend(v)
  PROVE  PricingInv'
<1>. DEFINE price == ParseModels(catalog[v])
<1>1. /\ v \in toAsk /\ \A w \in toAsk : v <= w
      /\ toAsk' = toAsk \ {v} /\ UNCHANGED <<configured, enabled, catalog>>
      /\ priced' \in {priced, Merged(price)}
      /\ undisturbed' => undisturbed /\ priced' = Merged(price)
  BY DEF FetchFromBackend
<1>2. /\ configured # NoPrice => priced' = Override(configured)
      /\ configured = NoPrice => priced'.source # "override"
  BY <1>1, SourcesOfPrices DEF PricingInv, Merged
<1>3. Listing' = Listing
  BY <1>1 DEF Listing, ParseModels
<1>4. ASSUME undisturbed'
      PROVE  /\ \A x \in Asked', w \in toAsk' : x < w
             /\ toAsk' \subseteq enabled
             /\ configured = NoPrice => SetByLast'
  <2>1. /\ undisturbed /\ toAsk \subseteq enabled /\ priced' = Merged(price)
        /\ \A x \in Asked, w \in toAsk : x < w
    BY <1>1, <1>4 DEF PricingInv
  <2>2. Asked' = Asked \cup {v} /\ v \notin Asked
    BY <1>1, <2>1 DEF Asked
  <2>3. enabled \subseteq Nat /\ toAsk \subseteq Nat /\ Asked \subseteq Nat /\ v \in Nat
    BY VendorsAreNumbered DEF PricingInv, Asked
  <2>4. \A w \in toAsk' : v < w
    BY <1>1, <2>3
  <2>5. ASSUME configured = NoPrice
        PROVE  SetByLast'
    <3>1. priced.source # "override"
      BY <2>5 DEF PricingInv
    <3>2. CASE v \in Listing
      <4>1. price # NoPrice
        BY <3>2 DEF Listing
      <4>2. priced' = Fetched(price)
        BY <2>1, <3>1, <4>1 DEF Merged
      <4>3. \A w \in Asked' \cap Listing : w <= v
        BY <1>1, <2>1, <2>2, <2>3
      <4>4. v \in Asked' \cap Listing
        BY <2>2, <3>2
      <4>5. ParseModels(catalog[v])' = price
        BY <1>1 DEF ParseModels
      <4>. QED
        BY <1>3, <4>2, <4>3, <4>4, <4>5 DEF SetByLast, Fetched
    <3>3. CASE v \notin Listing
      <4>1. price = NoPrice
        BY <1>1, <2>1, <3>3 DEF Listing
      <4>2. priced' = priced
        BY <2>1, <4>1 DEF Merged
      <4>3. Asked' \cap Listing' = Asked \cap Listing
        BY <1>3, <2>2, <3>3
      <4>4. SetByLast
        BY <2>1, <2>5 DEF PricingInv
      <4>5. \A w : ParseModels(catalog[w])' = ParseModels(catalog[w])
        BY <1>1 DEF ParseModels
      <4>. QED
        BY <4>2, <4>3, <4>4, <4>5 DEF SetByLast, Fetched
    <3>. QED
      BY <3>2, <3>3
  <2>. QED
    BY <1>1, <2>1, <2>2, <2>4, <2>5
<1>. QED
  BY <1>1, <1>2, <1>4 DEF PricingInv

\* A change of a provider leaves the price as it is, and the cycle is disturbed.
LEMMA ProviderChanged ==
  ASSUME PricingInv, UNCHANGED <<configured, priced, toAsk>>, undisturbed' = FALSE,
         enabled' \subseteq Vendors
  PROVE  PricingInv'
BY DEF PricingInv

\* A price of the configuration stays, and any other is that of the last of the
\* enabled providers that list the model, once a cycle has asked them all
\* undisturbed (pricing.rs, refresh_provider_prices_once).
THEOREM PricesFollowListing == PricingSpec => []PricesAsListed
<1>1. PricingInit => PricingInv
  <2>. SUFFICES ASSUME PricingInit PROVE PricingInv
    OBVIOUS
  <2>. QED
    BY SourcesOfPrices DEF PricingInit, PricingInv
<1>2. PricingInv /\ [PricingNext]_priceVars => PricingInv'
  <2>. SUFFICES ASSUME PricingInv, [PricingNext]_priceVars PROVE PricingInv'
    OBVIOUS
  <2>1. CASE RefreshProviderPricesOnce
    BY <2>1, CycleBegins
  <2>2. ASSUME NEW v \in Vendors, FetchFromBackend(v) PROVE PricingInv'
    BY <2>2, ProviderAsked
  <2>3. ASSUME NEW v \in Vendors, SwitchProvider(v) PROVE PricingInv'
    <3>1. enabled' \subseteq Vendors
      BY <2>3 DEF SwitchProvider, PricingInv
    <3>. QED
      BY <2>3, <3>1, ProviderChanged DEF SwitchProvider
  <2>4. ASSUME NEW v \in Vendors, ChangeCatalog(v) PROVE PricingInv'
    <3>1. enabled' \subseteq Vendors
      BY <2>4 DEF ChangeCatalog, PricingInv
    <3>. QED
      BY <2>4, <3>1, ProviderChanged DEF ChangeCatalog
  <2>5. CASE UNCHANGED priceVars
    BY <2>5 DEF priceVars, PricingInv, SetByLast, Asked, Listing, ParseModels, Fetched, Override
  <2>. QED
    BY <2>1, <2>2, <2>3, <2>4, <2>5 DEF PricingNext
<1>3. PricingInv => PricesAsListed
  <2>. SUFFICES ASSUME PricingInv PROVE PricesAsListed
    OBVIOUS
  <2>1. ASSUME configured # NoPrice PROVE ComputeCost = configured
    BY <2>1, SourcesOfPrices DEF PricingInv, ComputeCost
  <2>2. ASSUME toAsk = {}, undisturbed, configured = NoPrice, Listing # {}
        PROVE  \E last \in Listing :
                 (\A v \in Listing : v <= last) /\ ComputeCost = ParseModels(catalog[last])
    <3>1. Asked \cap Listing = Listing
      BY <2>2 DEF Asked, Listing
    <3>2. PICK last \in Listing :
            (\A w \in Listing : w <= last) /\ priced = Fetched(ParseModels(catalog[last]))
      BY <2>2, <3>1 DEF PricingInv, SetByLast
    <3>3. ComputeCost = ParseModels(catalog[last])
      BY <3>2, SourcesOfPrices DEF ComputeCost
    <3>. QED
      BY <3>2, <3>3
  <2>. QED
    BY <2>1, <2>2 DEF PricesAsListed
<1>. QED
  BY <1>1, <1>2, <1>3, PTL DEF PricingSpec

-----------------------------------------------------------------------------
(* UsagePages *)

\* Numbers that are not none have a least one.
LEMMA LeastNumber ==
  ASSUME NEW S \in SUBSET Nat, S # {}
  PROVE  \E m \in S : \A n \in S : m <= n
<1>1. \E R : IsWellFoundedOn(R, Nat) /\ \A m, n \in Nat : m < n => <<m, n>> \in R
  <2>1. \A m, n \in Nat : m < n => <<m, n>> \in OpToRel(<, Nat)
    BY Zenon DEF OpToRel
  <2>2. IsWellFoundedOn(OpToRel(<, Nat), Nat)
    BY NatLessThanWellFounded, Zenon
  <2>. QED
    BY <2>1, <2>2, Zenon
<1>2. PICK R : IsWellFoundedOn(R, Nat) /\ \A m, n \in Nat : m < n => <<m, n>> \in R
  BY <1>1, Zenon
<1>3. IsWellFoundedOn(R, Nat)
  BY <1>2, Zenon
<1>4. \E m \in S : \A n \in S : ~(<<n, m>> \in R)
  BY <1>3, WFMin, Zenon
<1>5. \A m, n \in S : m < n => <<m, n>> \in R
  BY <1>2, Zenon
<1>6. \E m \in S : \A n \in S : ~(n < m)
  BY <1>4, <1>5, Zenon
<1>7. \A m, n \in S : ~(n < m) => m <= n
  BY SMT
<1>. QED
  BY <1>6, <1>7, Zenon

\* A finite set of integers has a largest one: the one that the fewest reach.
LEMMA LargestOfFinite ==
  ASSUME NEW S \in SUBSET Int, IsFiniteSet(S), S # {}
  PROVE  Max(S) \in S /\ \A n \in S : Max(S) >= n
<1>. DEFINE Above(x) == {y \in S : y >= x}
            counts == {Cardinality(Above(x)) : x \in S}
<1>1. \A x \in S : Above(x) \in SUBSET S /\ IsFiniteSet(Above(x)) /\ Cardinality(Above(x)) \in Nat
  BY FS_Subset, FS_CardinalityType
<1>2. counts \in SUBSET Nat /\ counts # {}
  BY <1>1
<1>3. \E m \in counts : \A n \in counts : m <= n
  BY <1>2, LeastNumber
<1>4. PICK x \in S : \A y \in S : Cardinality(Above(x)) <= Cardinality(Above(y))
  BY <1>3
<1>5. \A n \in S : x >= n
  <2>. SUFFICES ASSUME NEW n \in S, n > x PROVE FALSE
    OBVIOUS
  <2>0. n \in Int /\ x \in Int /\ \A y \in S : y \in Int
    OBVIOUS
  <2>1. Above(n) \subseteq Above(x) /\ x \in Above(x) /\ x \notin Above(n)
    <3>1. \A y \in S : y >= n => y >= x
      BY <2>0
    <3>2. x >= x /\ ~(x >= n)
      BY <2>0
    <3>. QED
      BY <3>1, <3>2
  <2>2. /\ IsFiniteSet(Above(x)) /\ Cardinality(Above(x)) \in Nat
        /\ IsFiniteSet(Above(n)) /\ Cardinality(Above(n)) \in Nat
    BY <1>1
  <2>3. Cardinality(Above(x)) <= Cardinality(Above(n))
    BY <1>4
  <2>. HIDE DEF Above
  <2>4. /\ Cardinality(Above(n)) <= Cardinality(Above(x))
        /\ Cardinality(Above(x)) = Cardinality(Above(n)) => Above(x) = Above(n)
    BY <2>1, <2>2, FS_Subset
  <2>5. Cardinality(Above(x)) = Cardinality(Above(n))
    BY <2>2, <2>3, <2>4
  <2>. QED
    BY <2>1, <2>4, <2>5
<1>. QED
  BY <1>5 DEF Max

PageRows == [bands : SUBSET Bands, requests : Nat]
PageCalls == [who : Staff, bands : SUBSET Bands, open : BOOLEAN, reserved : BOOLEAN]
PageFields == {"at", "asked", "date", "rows", "quota", "quiet"}

\* What a query has read, and while nothing happens is still so.
PageOK ==
  page.at # "new" =>
    /\ page.at \in {"usage", "read", "quota"} /\ DOMAIN page = PageFields
    /\ page.asked \subseteq Staff /\ DOMAIN page.rows \subseteq page.asked
    /\ page.at # "usage" => \E s \in Staff : page.asked = {s}
    /\ \A s \in DOMAIN page.rows : <<s, page.date, page.rows[s].bands>> \in came
    /\ page.quiet =>
         /\ page.date = date /\ page.rows = GetUsage(page.asked)
         /\ page.at = "quota" =>
              page.quota = ResolveQuota(UNION {page.rows[s].bands : s \in DOMAIN page.rows})

\* The history is that of the rows.
RowsCame ==
  /\ \A s \in Staff, d \in Dates :
       counter[s][d] # NoCounter => <<s, d, counter[s][d].bands>> \in came
  /\ \A w \in came : w[1] \in Staff /\ w[2] \in Dates /\ counter[w[1]][w[2]] # NoCounter

PageInv ==
  /\ date \in Dates
  /\ quotaOf \in [Bands -> Quotas \cup {NoQuota}]
  /\ counter \in [Staff -> [Dates -> PageRows \cup {NoCounter}]]
  /\ call \in [Calls -> PageCalls \cup {NoCounter}]
  /\ RowsCame
  /\ PageOK

LEMMA DatesAreNumbers == Dates \subseteq Nat
BY LastDateAssumption DEF Dates

LEMMA QuotaIsNumber ==
  ASSUME PageInv, NEW bands \in SUBSET Bands
  PROVE  ResolveQuota(bands) \in Quotas \cup {NoQuota}
<1>. DEFINE all == {quotaOf[b] : b \in bands}  numbers == all \ {NoQuota}
<1>1. \A b \in bands : quotaOf[b] \in Quotas \cup {NoQuota}
  BY DEF PageInv
<1>2. numbers \subseteq Quotas /\ numbers \subseteq Int
  BY <1>1, QuotasAssumption
<1>3. IsFiniteSet(bands)
  BY BandsAssumption, FS_Subset
<1>4. IsFiniteSet(all)
  <2>. DEFINE f == [b \in bands |-> quotaOf[b]]
  <2>1. f \in Surjection(bands, all)
    BY DEF Surjection
  <2>. QED
    BY <1>3, <2>1, FS_Surjection
<1>5. IsFiniteSet(numbers)
  BY <1>4, FS_Subset
<1>. HIDE DEF numbers
<1>6. numbers # {} => Max(numbers) \in numbers
  BY <1>2, <1>5, LargestOfFinite
<1>7. ResolveQuota(bands) = IF numbers = {} THEN NoQuota ELSE Max(numbers)
  BY DEF ResolveQuota, numbers
<1>. QED
  BY <1>2, <1>6, <1>7

LEMMA CountIsNumber ==
  ASSUME PageInv, NEW s \in Staff, NEW d \in Dates
  PROVE  /\ RequestCount(s, d) \in Nat
         /\ counter[s][d] # NoCounter =>
              counter[s][d] \in PageRows /\ RequestCount(s, d) = counter[s][d].requests
BY DEF PageInv, RequestCount, PageRows

\* A disturbed query no longer promises anything but its rows.
LEMMA Disturbed ==
  ASSUME PageInv, Disturb, came \subseteq came'
  PROVE  PageOK'
<1>1. CASE page.at = "read"
  <2>1. page' = [page EXCEPT !.quiet = FALSE] /\ DOMAIN page = PageFields
    BY <1>1 DEF Disturb, PageInv, PageOK
  <2>2. /\ DOMAIN page' = PageFields /\ page'.at = "read" /\ page'.asked = page.asked
        /\ page'.rows = page.rows /\ page'.date = page.date /\ page'.quiet = FALSE
    BY <1>1, <2>1 DEF PageFields
  <2>. QED
    BY <1>1, <2>2 DEF PageInv, PageOK
<1>2. CASE page.at # "read"
  <2>1. page'.at = "new"
    BY <1>2 DEF Disturb, NoPage
  <2>. QED
    BY <2>1 DEF PageOK
<1>. QED
  BY <1>1, <1>2

\* A counter is written, and the history with it.
LEMMA CountKeeps ==
  ASSUME PageInv, NEW s \in Staff, NEW bands \in SUBSET Bands, CountOne(s, bands)
  PROVE  /\ counter' \in [Staff -> [Dates -> PageRows \cup {NoCounter}]]
         /\ RowsCame' /\ came \subseteq came'
<1>. DEFINE r == [bands |-> bands, requests |-> RequestCount(s, date) + 1]
            days == [counter[s] EXCEPT ![date] = r]
<1>1. /\ date \in Dates /\ counter \in [Staff -> [Dates -> PageRows \cup {NoCounter}]]
      /\ counter' = [counter EXCEPT ![s] = days] /\ came' = came \cup {<<s, date, bands>>}
  BY DEF CountOne, PageInv
<1>2. r \in PageRows /\ r.bands = bands
  BY <1>1, CountIsNumber DEF PageRows
<1>3. r # NoCounter
  BY <1>2, NoCounterAssumption DEF PageRows
<1>. HIDE DEF r
<1>4. days \in [Dates -> PageRows \cup {NoCounter}]
      /\ \A d \in Dates : days[d] = IF d = date THEN r ELSE counter[s][d]
  BY <1>1, <1>2
<1>. HIDE DEF days
<1>5. /\ counter' \in [Staff -> [Dates -> PageRows \cup {NoCounter}]]
      /\ \A q \in Staff : counter'[q] = IF q = s THEN days ELSE counter[q]
  BY <1>1, <1>4
<1>6. \A q \in Staff, d \in Dates :
        counter'[q][d] = IF q = s /\ d = date THEN r ELSE counter[q][d]
  BY <1>4, <1>5
<1>7. ASSUME NEW q \in Staff, NEW d \in Dates, counter'[q][d] # NoCounter
      PROVE  <<q, d, counter'[q][d].bands>> \in came'
  <2>1. CASE q = s /\ d = date
    BY <1>1, <1>2, <1>6, <2>1
  <2>2. CASE ~(q = s /\ d = date)
    <3>1. counter'[q][d] = counter[q][d]
      BY <1>6, <2>2
    <3>. QED
      BY <1>1, <1>7, <3>1 DEF PageInv, RowsCame
  <2>. QED
    BY <2>1, <2>2
<1>8. ASSUME NEW w \in came'
      PROVE  w[1] \in Staff /\ w[2] \in Dates /\ counter'[w[1]][w[2]] # NoCounter
  <2>1. CASE w = <<s, date, bands>>
    BY <1>1, <1>3, <1>6, <2>1
  <2>2. CASE w \in came
    <3>1. w[1] \in Staff /\ w[2] \in Dates /\ counter[w[1]][w[2]] # NoCounter
      BY <2>2 DEF PageInv, RowsCame
    <3>. QED
      BY <1>3, <1>6, <3>1
  <2>. QED
    BY <1>1, <2>1, <2>2
<1>9. RowsCame'
  BY <1>7, <1>8 DEF RowsCame, Dates
<1>. QED
  BY <1>1, <1>5, <1>9

LEMMA AdmitKeeps ==
  ASSUME PageInv, NEW c \in Calls, NEW s \in Staff, NEW bands \in SUBSET Bands,
         Admit(c, s, bands)
  PROVE  PageInv'
<1>. DEFINE quota == ResolveQuota(bands)
            k == [who |-> s, bands |-> bands, open |-> TRUE, reserved |-> quota # NoQuota]
<1>1. UNCHANGED <<date, quotaOf>> /\ Disturb /\ call' = [call EXCEPT ![c] = k]
  BY DEF Admit
<1>2. k \in PageCalls
  BY DEF PageCalls
<1>. HIDE DEF k
<1>3. call' \in [Calls -> PageCalls \cup {NoCounter}]
  BY <1>1, <1>2 DEF PageInv
<1>4. CountOne(s, bands) \/ UNCHANGED <<counter, came>>
  BY DEF Admit
<1>5. /\ counter' \in [Staff -> [Dates -> PageRows \cup {NoCounter}]]
      /\ RowsCame' /\ came \subseteq came'
  <2>1. CASE CountOne(s, bands)
    BY <2>1, CountKeeps
  <2>2. CASE UNCHANGED <<counter, came>>
    BY <2>2 DEF PageInv, RowsCame, Dates
  <2>. QED
    BY <1>4, <2>1, <2>2
<1>6. PageOK'
  BY <1>1, <1>5, Disturbed
<1>. QED
  BY <1>1, <1>3, <1>5, <1>6 DEF PageInv, Dates

\* A unit is taken off a row that has one.
LEMMA ReleaseKeeps ==
  ASSUME PageInv, NEW s \in Staff, ReleaseRequest(s), UNCHANGED came
  PROVE  /\ counter' \in [Staff -> [Dates -> PageRows \cup {NoCounter}]]
         /\ RowsCame'
<1>1. CASE RequestCount(s, date) > 0
  <2>. DEFINE old == counter[s][date]
              r == [old EXCEPT !.requests = @ - 1]
              days == [counter[s] EXCEPT ![date] = r]
  <2>1. /\ date \in Dates /\ counter \in [Staff -> [Dates -> PageRows \cup {NoCounter}]]
        /\ counter' = [counter EXCEPT ![s] = days]
    BY <1>1 DEF ReleaseRequest, PageInv
  <2>2. old # NoCounter
    BY <1>1 DEF RequestCount
  <2>3. old \in PageRows /\ old.requests > 0
    BY <1>1, <2>1, <2>2, CountIsNumber
  <2>4. r \in PageRows /\ r.bands = old.bands
    BY <2>3 DEF PageRows
  <2>5. r # NoCounter
    BY <2>4, NoCounterAssumption DEF PageRows
  <2>. HIDE DEF r
  <2>6. days \in [Dates -> PageRows \cup {NoCounter}]
        /\ \A d \in Dates : days[d] = IF d = date THEN r ELSE counter[s][d]
    BY <2>1, <2>4
  <2>. HIDE DEF days
  <2>7. /\ counter' \in [Staff -> [Dates -> PageRows \cup {NoCounter}]]
        /\ \A q \in Staff : counter'[q] = IF q = s THEN days ELSE counter[q]
    BY <2>1, <2>6
  <2>8. \A q \in Staff, d \in Dates :
          counter'[q][d] = IF q = s /\ d = date THEN r ELSE counter[q][d]
    BY <2>6, <2>7
  <2>9. ASSUME NEW q \in Staff, NEW d \in Dates
        PROVE  /\ counter'[q][d] # NoCounter <=> counter[q][d] # NoCounter
               /\ counter'[q][d] # NoCounter => counter'[q][d].bands = counter[q][d].bands
    BY <2>2, <2>4, <2>5, <2>8
  <2>10. RowsCame'
    BY <2>9 DEF PageInv, RowsCame, Dates
  <2>. QED
    BY <2>7, <2>10
<1>2. CASE ~(RequestCount(s, date) > 0)
  BY <1>2 DEF ReleaseRequest, PageInv, RowsCame, Dates
<1>. QED
  BY <1>1, <1>2

\* A request ends, counted, given back or neither.
LEMMA EndKeeps ==
  ASSUME PageInv, NEW c \in Calls, Complete(c) \/ FailForwarding(c) \/ LeaveUncounted(c)
  PROVE  PageInv'
<1>. DEFINE k == [call[c] EXCEPT !.open = FALSE]
<1>1. EndCall(c)
  BY DEF Complete, FailForwarding, LeaveUncounted
<1>2. call[c] \in PageCalls /\ call \in [Calls -> PageCalls \cup {NoCounter}]
  BY <1>1 DEF EndCall, PageInv
<1>3. UNCHANGED <<date, quotaOf>> /\ Disturb /\ call' = [call EXCEPT ![c] = k]
  BY <1>1, <1>2 DEF EndCall
<1>4. k \in PageCalls
  BY <1>2 DEF PageCalls
<1>. HIDE DEF k
<1>5. call' \in [Calls -> PageCalls \cup {NoCounter}]
  BY <1>2, <1>3, <1>4
<1>6. call[c].who \in Staff /\ call[c].bands \in SUBSET Bands
  BY <1>2 DEF PageCalls
<1>7. /\ counter' \in [Staff -> [Dates -> PageRows \cup {NoCounter}]]
      /\ RowsCame' /\ came \subseteq came'
  <2>1. CASE CountOne(call[c].who, call[c].bands)
    BY <1>6, <2>1, CountKeeps
  <2>2. CASE ReleaseRequest(call[c].who) /\ UNCHANGED came
    BY <1>6, <2>2, ReleaseKeeps
  <2>3. CASE UNCHANGED <<counter, came>>
    BY <2>3 DEF PageInv, RowsCame, Dates
  <2>. QED
    BY <2>1, <2>2, <2>3 DEF Complete, FailForwarding, LeaveUncounted
<1>8. PageOK'
  BY <1>3, <1>7, Disturbed
<1>. QED
  BY <1>3, <1>5, <1>7, <1>8 DEF PageInv, Dates

\* A step that only disturbs.
LEMMA OthersKeep ==
  ASSUME PageInv, Disturb, UNCHANGED <<counter, call, came>>, date' \in Dates,
         quotaOf' \in [Bands -> Quotas \cup {NoQuota}]
  PROVE  PageInv'
<1>1. PageOK'
  BY Disturbed
<1>. QED
  BY <1>1 DEF PageInv, RowsCame, Dates

\* What a query reads is what is there.
LEMMA ReadsKeep ==
  ASSUME PageInv, NEW asked \in SUBSET Staff, NEW place \in {"usage", "read"},
         place = "read" => \E s \in Staff : asked = {s},
         page' = [at |-> place, asked |-> asked, date |-> date,
                  rows |-> GetUsage(asked), quota |-> NoQuota, quiet |-> TRUE],
         UNCHANGED <<date, counter, quotaOf, call, came>>
  PROVE  PageInv'
<1>1. /\ page'.at = place /\ page'.asked = asked /\ page'.date = date
      /\ page'.rows = GetUsage(asked) /\ page'.quiet = TRUE /\ DOMAIN page' = PageFields
  BY DEF PageFields
<1>2. /\ DOMAIN GetUsage(asked) \subseteq asked
      /\ \A s \in DOMAIN GetUsage(asked) :
           GetUsage(asked)[s] = counter[s][date] /\ counter[s][date] # NoCounter
  BY DEF GetUsage
<1>3. \A s \in DOMAIN GetUsage(asked) : <<s, date, GetUsage(asked)[s].bands>> \in came
  BY <1>2 DEF PageInv, RowsCame
<1>4. GetUsage(asked)' = GetUsage(asked)
  BY DEF GetUsage
<1>5. PageOK'
  <2>1. /\ page'.at \in {"usage", "read", "quota"} /\ page'.asked \subseteq Staff
        /\ DOMAIN page'.rows \subseteq page'.asked
        /\ page'.at # "usage" => \E s \in Staff : page'.asked = {s}
    BY <1>1, <1>2
  <2>2. \A s \in DOMAIN page'.rows : <<s, page'.date, page'.rows[s].bands>> \in came'
    BY <1>1, <1>3
  <2>3. page'.date = date' /\ (page.rows = GetUsage(page.asked))' /\ page'.at # "quota"
    BY <1>1, <1>4 DEF GetUsage
  <2>. QED
    BY <1>1, <2>1, <2>2, <2>3 DEF PageOK
<1>. QED
  BY <1>5 DEF PageInv, RowsCame, Dates

LEMMA ResolveKeeps ==
  ASSUME PageInv, ResolveForQuota
  PROVE  PageInv'
<1>. DEFINE quota == ResolveQuota(UNION {page.rows[s].bands : s \in DOMAIN page.rows})
<1>1. /\ page.at = "read" /\ UNCHANGED <<date, counter, quotaOf, call, came>>
      /\ page' = [page EXCEPT !.at = "quota", !.quota = quota]
  BY DEF ResolveForQuota
<1>2. DOMAIN page = PageFields
  BY <1>1 DEF PageInv, PageOK
<1>. HIDE DEF quota
<1>3. /\ DOMAIN page' = PageFields /\ page'.at = "quota" /\ page'.asked = page.asked
      /\ page'.rows = page.rows /\ page'.date = page.date /\ page'.quiet = page.quiet
      /\ page'.quota = quota
  BY <1>1, <1>2 DEF PageFields
<1>4. \A asked : GetUsage(asked)' = GetUsage(asked)
  BY <1>1 DEF GetUsage
<1>5. \A bands : ResolveQuota(bands)' = ResolveQuota(bands)
  BY <1>1 DEF ResolveQuota
<1>6. page.quiet => page'.date = date' /\ page'.rows = GetUsage(page.asked)
  BY <1>1, <1>3 DEF PageInv, PageOK
<1>7. (page.quota = ResolveQuota(UNION {page.rows[s].bands : s \in DOMAIN page.rows}))'
  BY <1>1, <1>3 DEF quota, ResolveQuota
<1>8. page.quiet => (page.rows = GetUsage(page.asked))'
  BY <1>1, <1>3, <1>6 DEF GetUsage
<1>9. /\ page'.asked \subseteq Staff /\ DOMAIN page'.rows \subseteq page'.asked
      /\ \E s \in Staff : page'.asked = {s}
      /\ \A s \in DOMAIN page'.rows : <<s, page'.date, page'.rows[s].bands>> \in came'
  BY <1>1, <1>3 DEF PageInv, PageOK
<1>10. PageOK'
  BY <1>3, <1>6, <1>7, <1>8, <1>9 DEF PageOK
<1>. QED
  BY <1>1, <1>10 DEF PageInv, RowsCame, Dates


\* UsagePages: every step keeps the rows, the history of what was counted,
\* and what an open page holds.
THEOREM PageInvariant == PageSpec => []PageInv
<1>1. PageInit => PageInv
  <2>. SUFFICES ASSUME PageInit PROVE PageInv
    OBVIOUS
  <2>1. date \in Dates
    BY LastDateAssumption DEF PageInit, Dates
  <2>2. RowsCame
    BY DEF PageInit, RowsCame
  <2>3. PageOK
    BY DEF PageInit, NoPage, PageOK
  <2>4. /\ counter \in [Staff -> [Dates -> PageRows \cup {NoCounter}]]
        /\ call \in [Calls -> PageCalls \cup {NoCounter}]
    BY DEF PageInit
  <2>. QED
    BY <2>1, <2>2, <2>3, <2>4 DEF PageInit, PageInv
<1>2. PageInv /\ [PageNext]_pageVars => PageInv'
  <2>. SUFFICES ASSUME PageInv, [PageNext]_pageVars PROVE PageInv'
    OBVIOUS
  <2>1. CASE \E c \in Calls :
               \/ Complete(c) \/ FailForwarding(c) \/ LeaveUncounted(c)
               \/ \E s \in Staff, bands \in SUBSET Bands : Admit(c, s, bands)
    BY <2>1, AdmitKeeps, EndKeeps
  <2>2. CASE \E b \in Bands, quota \in Quotas \cup {NoQuota} : SetQuota(b, quota)
    <3>1. PICK b \in Bands, quota \in Quotas \cup {NoQuota} : SetQuota(b, quota)
      BY <2>2
    <3>2. /\ Disturb /\ UNCHANGED <<date, counter, call, came>>
          /\ quotaOf' = [quotaOf EXCEPT ![b] = quota]
      BY <3>1 DEF SetQuota
    <3>3. date' \in Dates /\ quotaOf' \in [Bands -> Quotas \cup {NoQuota}]
      BY <3>2 DEF PageInv
    <3>. QED
      BY <3>2, <3>3, OthersKeep
  <2>3. CASE NextDay
    <3>1. Disturb /\ UNCHANGED <<counter, call, came>>
      BY <2>3 DEF NextDay
    <3>2. date' \in Dates /\ quotaOf' \in [Bands -> Quotas \cup {NoQuota}]
      BY <2>3, LastDateAssumption DEF NextDay, PageInv, Dates
    <3>. QED
      BY <3>1, <3>2, OthersKeep
  <2>4. CASE QueryUsage(Staff)
    BY <2>4, ReadsKeep DEF QueryUsage
  <2>5. CASE \E s \in Staff : QueryUsage({s}) \/ GetQuota(s)
    <3>1. PICK s \in Staff : QueryUsage({s}) \/ GetQuota(s)
      BY <2>5
    <3>2. {s} \in SUBSET Staff /\ \E z \in Staff : {s} = {z}
      OBVIOUS
    <3>3. CASE QueryUsage({s})
      BY <3>2, <3>3, ReadsKeep DEF QueryUsage
    <3>4. CASE GetQuota(s)
      BY <3>2, <3>4, ReadsKeep DEF GetQuota
    <3>. QED
      BY <3>1, <3>3, <3>4
  <2>6. CASE ResolveForQuota
    BY <2>6, ResolveKeeps
  <2>7. CASE UNCHANGED pageVars
    <3>1. UNCHANGED <<date, counter, quotaOf, call, page, came>>
      BY <2>7 DEF pageVars
    <3>2. RowsCame'
      BY <3>1 DEF PageInv, RowsCame, Dates
    <3>3. PageOK'
      <4>1. (page.rows = GetUsage(page.asked))' = (page.rows = GetUsage(page.asked))
        BY <3>1, Zenon DEF GetUsage
      <4>2. (page.quota = ResolveQuota(UNION {page.rows[s].bands : s \in DOMAIN page.rows}))'
            <=> page.quota = ResolveQuota(UNION {page.rows[s].bands : s \in DOMAIN page.rows})
        BY <3>1 DEF ResolveQuota
      <4>. QED
        BY <3>1, <4>1, <4>2 DEF PageInv, PageOK
    <3>. QED
      BY <3>1, <3>2, <3>3 DEF PageInv, Dates
  <2>. QED
    BY <2>1, <2>2, <2>3, <2>4, <2>5, <2>6, <2>7 DEF PageNext
<1>. QED
  BY <1>1, <1>2, PTL DEF PageSpec

\* The pages of the admin API (query_usage and get_quota) show rows of the day
\* and groups that were counted, list all of them when nothing happened
\* meanwhile, and then a quota page foretells whether the next request is
\* refused: for any users, groups, quotas, calls and days.
THEOREM PagesForetellUsage == PageSpec => []PagesForetell
<1>1. PageInv => PagesForetell
  <2>. SUFFICES ASSUME PageInv, page.at # "new" PROVE PagesForetell
    BY DEF PagesForetell
  <2>1. /\ page.asked \subseteq Staff /\ date \in Dates
        /\ \A s \in DOMAIN page.rows : <<s, page.date, page.rows[s].bands>> \in came
    BY DEF PageInv, PageOK
  <2>2. ASSUME page.quiet, NEW s \in page.asked
        PROVE  s \in DOMAIN page.rows <=> \E w \in came : w[1] = s /\ w[2] = date
    <3>1. s \in DOMAIN page.rows <=> counter[s][date] # NoCounter
      BY <2>2 DEF PageInv, PageOK, GetUsage
    <3>2. counter[s][date] # NoCounter => <<s, date, counter[s][date].bands>> \in came
      BY <2>1, <2>2 DEF PageInv, RowsCame
    <3>3. (\E w \in came : w[1] = s /\ w[2] = date) => counter[s][date] # NoCounter
      BY DEF PageInv, RowsCame
    <3>. QED
      BY <3>1, <3>2, <3>3
  <2>3. ASSUME page.quiet, page.at = "quota", NEW s \in DOMAIN page.rows
        PROVE  LET quota == ResolveQuota(page.rows[s].bands) IN
                 (quota # NoQuota /\ ~HasRoomFor(s, quota)) <=>
                   (page.quota # NoQuota /\ page.rows[s].requests >= page.quota)
    <3>1. PICK z \in Staff : page.asked = {z}
      BY <2>3 DEF PageInv, PageOK
    <3>2. DOMAIN page.rows = {s} /\ s \in Staff
      BY <2>3, <3>1 DEF PageInv, PageOK
    <3>3. page.rows[s] = counter[s][date] /\ counter[s][date] # NoCounter
      BY <2>3 DEF PageInv, PageOK, GetUsage
    <3>4. /\ page.rows[s] \in PageRows /\ RequestCount(s, date) = page.rows[s].requests
          /\ page.rows[s].bands \in SUBSET Bands /\ page.rows[s].requests \in Nat
      BY <2>1, <3>2, <3>3, CountIsNumber DEF PageRows
    <3>5. UNION {page.rows[q].bands : q \in DOMAIN page.rows} = page.rows[s].bands
      BY <3>2
    <3>6. page.quota = ResolveQuota(page.rows[s].bands)
      BY <2>3, <3>5 DEF PageInv, PageOK
    <3>7. page.quota \in Quotas \cup {NoQuota}
      BY <3>4, <3>6, QuotaIsNumber
    <3>8. page.quota # NoQuota => page.quota \in Int
      BY <3>7, QuotasAssumption
    <3>. QED
      BY <3>4, <3>6, <3>8 DEF HasRoomFor
  <2>. QED
    BY <2>1, <2>2, <2>3 DEF PagesForetell
<1>. QED
  BY <1>1, PageInvariant, PTL

-----------------------------------------------------------------------------
(* AuditWalk *)

WalkFields == {"at", "subject", "limit", "offset", "got", "due"}
LogRows == [id : 1..MaxEntries, second : Seconds, user : Users]

\* The entries of one id are one entry.
LogOK ==
  /\ auditLog \subseteq LogRows /\ IsFiniteSet(auditLog)
  /\ \A d, e \in auditLog : d.id = e.id => d = e

\* The entries that a query lists before e.
Ahead(subject, e) == {d \in Matching(subject) : Newer(d, e)}

\* Nothing that is due lies before the offset, except what the reader got.
WalkInv ==
  /\ now \in Seconds
  /\ LogOK
  /\ walk.at \in {"idle", "reading", "done"} /\ DOMAIN walk = WalkFields
  /\ walk.limit \in Nat \ {0} /\ walk.offset \in Nat
  /\ walk.at = "idle" => walk.offset = 0
  /\ walk.at # "idle" =>
       /\ walk.due \subseteq Matching(walk.subject)
       /\ \A e \in walk.due \ walk.got : Cardinality(Ahead(walk.subject, e)) >= walk.offset
  /\ WalkMissesNothing

LEMMA LesserOfTwo ==
  ASSUME NEW a \in Int, NEW b \in Int
  PROVE  Min({a, b}) = IF a <= b THEN a ELSE b
BY DEF Min

\* The order of the query is total, on the rows of the log.
LEMMA NewerIsTotal ==
  ASSUME LogOK, NEW d \in auditLog, NEW e \in auditLog
  PROVE  /\ d # e => Newer(d, e) \/ Newer(e, d)
         /\ ~(Newer(d, e) /\ Newer(e, d))
<1>1. /\ d.second \in Nat /\ e.second \in Nat /\ d.id \in Int /\ e.id \in Int
      /\ (d.id = e.id => d = e)
  <2>1. d \in LogRows /\ e \in LogRows /\ (d.id = e.id => d = e)
    BY DEF LogOK
  <2>2. \A r \in LogRows : r.second \in Seconds /\ r.id \in 1..MaxEntries
    BY DEF LogRows
  <2>3. \A r \in LogRows : r.second \in Nat
    BY <2>2, SecondsAssumption
  <2>4. \A r \in LogRows : r.id \in Int
    BY <2>2, LimitsAssumption
  <2>. QED
    BY <2>1, <2>3, <2>4
<1>. QED
  BY <1>1 DEF Newer

\* In a listing of the rows, as many come before a row as are newer.
LEMMA PlaceInListing ==
  ASSUME LogOK, NEW rows \in SUBSET auditLog, NEW list \in Listings(rows)
  PROVE  /\ list \in Seq(rows) /\ Len(list) \in Nat
         /\ \A e \in rows : \E k \in 1..Len(list) :
              list[k] = e /\ Cardinality({d \in rows : Newer(d, e)}) = k - 1
<1>. DEFINE n == Cardinality(rows)
<1>1. IsFiniteSet(rows) /\ n \in Nat
  BY FS_Subset, FS_CardinalityType DEF LogOK
<1>2. list \in [1..n -> rows] /\ \A i, j \in 1..n : i # j => list[i] # list[j]
  BY DEF Listings, SetToSeqs
<1>. HIDE DEF n
<1>3. list \in Seq(rows) /\ Len(list) = n
  BY <1>1, <1>2
<1>4. \A i, j \in 1..n : i < j => ~Newer(list[j], list[i])
  BY <1>3 DEF Listings
<1>5. list \in Injection(1..n, rows)
  BY <1>2 DEF Injection, IsInjective
<1>6. Cardinality(1..n) = n
  BY <1>1, FS_Interval
<1>7. list \in Surjection(1..n, rows)
  BY <1>1, <1>5, <1>6, FS_Injection DEF n
<1>8. ASSUME NEW e \in rows
      PROVE  \E k \in 1..n : list[k] = e /\ Cardinality({d \in rows : Newer(d, e)}) = k - 1
  <2>. DEFINE newer == {d \in rows : Newer(d, e)}
  <2>1. PICK k \in 1..n : list[k] = e
    BY <1>7 DEF Surjection
  <2>. DEFINE place == [i \in 1..(k - 1) |-> list[i]]
  <2>2. 1..(k - 1) \subseteq 1..n /\ k \in Nat /\ k - 1 \in Nat
    BY <1>1, <2>1
  <2>3. \A i, j \in 1..n : list[i] \in auditLog /\ (i # j => list[i] # list[j])
    BY <1>2
  <2>4. ASSUME NEW i \in 1..(k - 1) PROVE list[i] \in newer
    <3>1. i \in 1..n /\ i < k /\ i # k
      BY <1>1, <2>1, <2>4
    <3>2. ~Newer(list[k], list[i]) /\ list[i] # list[k]
      BY <1>4, <2>1, <2>3, <3>1
    <3>. QED
      BY <1>2, <2>1, <2>3, <3>1, <3>2, NewerIsTotal
  <2>5. ASSUME NEW d \in newer PROVE \E i \in 1..(k - 1) : list[i] = d
    <3>1. d \in rows /\ Newer(d, e) /\ d \in auditLog /\ e \in auditLog
      OBVIOUS
    <3>2. PICK i \in 1..n : list[i] = d
      BY <1>7, <3>1 DEF Surjection
    <3>3. i # k
      BY <2>1, <3>1, <3>2, NewerIsTotal
    <3>4. ~(k < i)
      BY <1>4, <2>1, <3>1, <3>2
    <3>5. i \in 1..(k - 1)
      BY <1>1, <2>1, <3>3, <3>4
    <3>. QED
      BY <3>2, <3>5
  <2>. HIDE DEF newer
  <2>6. place \in Bijection(1..(k - 1), newer)
    <3>1. place \in [1..(k - 1) -> newer]
      BY <2>4
    <3>2. \A i, j \in 1..(k - 1) : place[i] = place[j] => i = j
      BY <2>2, <2>3
    <3>3. \A d \in newer : \E i \in 1..(k - 1) : place[i] = d
      BY <2>5
    <3>. QED
      BY <3>1, <3>2, <3>3 DEF Bijection, Injection, Surjection, IsInjective
  <2>7. IsFiniteSet(1..(k - 1)) /\ Cardinality(1..(k - 1)) = k - 1
    BY <2>2, FS_Interval
  <2>8. Cardinality(newer) = k - 1
    <3>1. ExistsBijection(1..(k - 1), newer)
      BY <2>6, Zenon DEF ExistsBijection
    <3>. HIDE DEF place
    <3>2. Cardinality(newer) = Cardinality(1..(k - 1))
      BY <2>7, <3>1, FS_Bijection, Zenon
    <3>. QED
      BY <2>7, <3>2, Zenon
  <2>. QED
    BY <2>1, <2>8 DEF newer
<1>. QED
  BY <1>1, <1>3, <1>8

LEMMA RecordKeeps ==
  ASSUME WalkInv, RecordEntry
  PROVE  WalkInv'
<1>1. PICK id \in 1..MaxEntries \ {e.id : e \in auditLog}, user \in Users :
        auditLog' = auditLog \cup {[id |-> id, second |-> now, user |-> user]}
  BY DEF RecordEntry
<1>. DEFINE r == [id |-> id, second |-> now, user |-> user]
<1>2. UNCHANGED <<now, walk>>
  BY DEF RecordEntry
<1>3. r \in LogRows /\ r.id = id /\ \A e \in auditLog : e.id # id
  BY <1>1 DEF LogRows, WalkInv
<1>4. auditLog' = auditLog \cup {r}
  BY <1>1
<1>. HIDE DEF r
<1>5. LogOK'
  <2>1. IsFiniteSet(auditLog')
    BY <1>4, FS_AddElement DEF WalkInv, LogOK
  <2>2. auditLog' \subseteq LogRows
    BY <1>3, <1>4 DEF WalkInv, LogOK
  <2>3. \A d, e \in auditLog' : d.id = e.id => d = e
    BY <1>3, <1>4 DEF WalkInv, LogOK
  <2>. QED
    BY <2>1, <2>2, <2>3 DEF LogOK, LogRows
<1>6. Matching(walk.subject) \subseteq Matching(walk.subject)'
  BY <1>2, <1>4 DEF Matching
<1>7. ASSUME walk.at # "idle", NEW e \in walk.due \ walk.got
      PROVE  (Cardinality(Ahead(walk.subject, e)) >= walk.offset)'
  <2>. DEFINE old == Ahead(walk.subject, e)
              new == {d \in Matching(walk.subject)' : Newer(d, e)}
  <2>1. old \in SUBSET new
    BY <1>2, <1>6 DEF Ahead
  <2>2. new \subseteq auditLog' /\ IsFiniteSet(auditLog')
    BY <1>2, <1>5 DEF LogOK, Matching
  <2>3. IsFiniteSet(new)
    BY <2>2, FS_Subset
  <2>4. Ahead(walk.subject, e)' = new
    BY <1>2 DEF Ahead
  <2>. HIDE DEF new, old
  <2>5. /\ Cardinality(old) \in Nat /\ Cardinality(new) \in Nat
        /\ Cardinality(old) <= Cardinality(new)
    BY <2>1, <2>3, FS_Subset, FS_CardinalityType
  <2>6. Cardinality(old) >= walk.offset /\ walk.offset \in Nat
    BY <1>7 DEF WalkInv, old
  <2>7. Cardinality(new) >= walk.offset
    BY <2>5, <2>6
  <2>. QED
    BY <1>2, <2>4, <2>7
<1>8. walk.at # "idle" => (walk.due \subseteq Matching(walk.subject))'
  BY <1>2, <1>4 DEF WalkInv, Matching
<1>9. (walk.at # "idle" =>
         \A e \in walk.due \ walk.got : Cardinality(Ahead(walk.subject, e)) >= walk.offset)'
  BY <1>2, <1>7
<1>. QED
  BY <1>2, <1>5, <1>8, <1>9 DEF WalkInv, WalkMissesNothing

LEMMA StartKeeps ==
  ASSUME WalkInv, StartWalk
  PROVE  WalkInv'
<1>1. PICK subject \in Users \cup {Anyone}, limit \in 1..MaxLimit + 1 :
        walk' = [walk EXCEPT !.at = "reading", !.subject = subject, !.limit = limit,
                             !.due = Matching(subject)]
  BY DEF StartWalk
<1>2. DOMAIN walk = WalkFields /\ walk.at = "idle" /\ UNCHANGED <<now, auditLog>>
  BY DEF StartWalk, WalkInv
<1>3. /\ DOMAIN walk' = WalkFields /\ walk'.at = "reading" /\ walk'.subject = subject
      /\ walk'.limit = limit /\ walk'.due = Matching(subject)
      /\ walk'.offset = 0 /\ walk'.got = walk.got
  BY <1>1, <1>2 DEF WalkFields, WalkInv
<1>4. limit \in Nat \ {0}
  BY LimitsAssumption
<1>5. \A e : Cardinality({d \in Matching(subject) : Newer(d, e)}) >= 0
  <2>. SUFFICES ASSUME NEW e PROVE Cardinality({d \in Matching(subject) : Newer(d, e)}) \in Nat
    OBVIOUS
  <2>1. {d \in Matching(subject) : Newer(d, e)} \in SUBSET auditLog
    BY DEF Matching
  <2>. QED
    BY <2>1, FS_Subset, FS_CardinalityType DEF WalkInv, LogOK
<1>6. LogOK'
  BY <1>2 DEF WalkInv, LogOK, LogRows
<1>7. (walk.due \subseteq Matching(walk.subject))'
  BY <1>2, <1>3 DEF Matching
<1>8. (\A e \in walk.due \ walk.got : Cardinality(Ahead(walk.subject, e)) >= walk.offset)'
  BY <1>2, <1>3, <1>5 DEF Ahead, Matching
<1>. QED
  BY <1>2, <1>3, <1>4, <1>6, <1>7, <1>8 DEF WalkInv, WalkMissesNothing

\* A page holds what lies behind the offset, up to its limit.
LEMMA QueryKeeps ==
  ASSUME WalkInv, QueryAudit
  PROVE  WalkInv'
<1>. DEFINE rows == Matching(walk.subject)
            limit == Min({walk.limit, MaxLimit})
            last(list) == Min({walk.offset + limit, Len(list)})
            shown(list) == SubSeq(list, walk.offset + 1, last(list))
<1>1. /\ walk.at = "reading" /\ UNCHANGED <<now, auditLog>>
      /\ DOMAIN walk = WalkFields /\ walk.offset \in Nat /\ walk.limit \in Nat \ {0}
      /\ walk.due \subseteq rows
      /\ \A e \in walk.due \ walk.got : Cardinality(Ahead(walk.subject, e)) >= walk.offset
  BY DEF QueryAudit, WalkInv
<1>2. PICK list \in Listings(rows) :
        walk' = [walk EXCEPT !.at     = IF shown(list) = <<>> THEN "done" ELSE "reading",
                             !.offset = @ + Len(shown(list)),
                             !.got    = @ \cup ToSet(shown(list))]
  BY DEF QueryAudit
<1>. DEFINE m == last(list)  pg == shown(list)  o == walk.offset
<1>3. LogOK /\ rows \in SUBSET auditLog
  BY DEF WalkInv, Matching
<1>. HIDE DEF rows
<1>4. /\ list \in Seq(rows) /\ Len(list) \in Nat
      /\ \A e \in rows : \E k \in 1..Len(list) :
           list[k] = e /\ Cardinality({d \in rows : Newer(d, e)}) = k - 1
  BY <1>3, PlaceInListing
<1>5. limit \in Nat \ {0}
  <2>1. Min({walk.limit, MaxLimit}) = IF walk.limit <= MaxLimit THEN walk.limit ELSE MaxLimit
    BY <1>1, LimitsAssumption, LesserOfTwo
  <2>. QED
    BY <1>1, <2>1, LimitsAssumption
<1>. HIDE DEF limit
<1>6. m \in Nat /\ m <= Len(list) /\ (m = o + limit \/ m = Len(list)) /\ o \in Nat
  <2>1. m = IF o + limit <= Len(list) THEN o + limit ELSE Len(list)
    BY <1>1, <1>4, <1>5, LesserOfTwo
  <2>. QED
    BY <1>1, <1>4, <1>5, <2>1
<1>. HIDE DEF last
<1>7. /\ Len(pg) = IF o + 1 <= m THEN m - (o + 1) + 1 ELSE 0
      /\ pg \in Seq(rows)
      /\ \A i \in 1 .. m - (o + 1) + 1 : pg[i] = list[o + 1 + i - 1]
  <2>1. o + 1 \in Int /\ m \in Int /\ \A i \in (o + 1)..m : list[i] \in rows
    <3>1. \A i \in (o + 1)..m : i \in 1..Len(list)
      BY <1>4, <1>6
    <3>2. \A i \in 1..Len(list) : list[i] \in rows
      BY <1>4
    <3>. QED
      BY <1>6, <3>1, <3>2
  <2>. QED
    BY <2>1, SubSeqProperties
<1>. HIDE DEF m, pg, shown
<1>8. /\ DOMAIN walk' = WalkFields /\ walk'.at = IF pg = <<>> THEN "done" ELSE "reading"
      /\ walk'.offset = o + Len(pg) /\ walk'.got = walk.got \cup ToSet(pg)
      /\ walk'.subject = walk.subject /\ walk'.due = walk.due /\ walk'.limit = walk.limit
  <2>1. walk' = [walk EXCEPT !.at = IF pg = <<>> THEN "done" ELSE "reading",
                             !.offset = @ + Len(pg), !.got = @ \cup ToSet(pg)]
    BY <1>2 DEF pg
  <2>. QED
    BY <1>1, <2>1 DEF WalkFields
<1>9. o + Len(pg) \in Nat /\ o + Len(pg) = IF o <= m THEN m ELSE o
  <2>. DEFINE k == Len(pg)
  <2>1. k = IF o + 1 <= m THEN m - (o + 1) + 1 ELSE 0
    BY <1>7
  <2>2. m \in Nat /\ o \in Nat
    BY <1>6
  <2>. HIDE DEF k
  <2>3. o + k \in Nat /\ o + k = IF o <= m THEN m ELSE o
    BY <2>1, <2>2
  <2>. QED
    BY <2>3 DEF k
<1>10. ASSUME NEW e \in walk.due, e \notin walk'.got
       PROVE  \E k \in 1..Len(list) :
                k > m /\ k > o /\ Cardinality(Ahead(walk.subject, e)) = k - 1
  <2>1. e \in rows /\ e \notin walk.got /\ e \notin ToSet(pg)
    BY <1>1, <1>8, <1>10
  <2>2. PICK k \in 1..Len(list) :
          list[k] = e /\ Cardinality({d \in rows : Newer(d, e)}) = k - 1
    BY <1>4, <2>1
  <2>3. Cardinality(Ahead(walk.subject, e)) = k - 1
    BY <2>2 DEF Ahead, rows
  <2>4. k - 1 >= o
    BY <1>1, <2>1, <2>3, <1>10
  <2>5. k > m
    <3>. SUFFICES ASSUME k <= m PROVE FALSE
      BY <1>4, <1>6
    <3>1. k - o \in 1 .. m - (o + 1) + 1 /\ o + 1 <= m /\ k - o \in 1..Len(pg)
      BY <1>4, <1>6, <1>7, <2>4, SMTT(20)
    <3>2. pg[k - o] = list[o + 1 + (k - o) - 1]
      BY <1>7, <3>1
    <3>3. o + 1 + (k - o) - 1 = k
      BY <1>4, <1>6
    <3>4. pg[k - o] = e
      BY <2>2, <3>2, <3>3
    <3>5. k - o \in DOMAIN pg
      BY <1>7, <3>1
    <3>6. e \in ToSet(pg)
      BY <3>4, <3>5, Zenon DEF ToSet
    <3>. QED
      BY <2>1, <3>6
  <2>. QED
    BY <1>4, <1>6, <2>2, <2>3, <2>4, <2>5
<1>11. \A e \in walk.due \ walk'.got : Cardinality(Ahead(walk.subject, e)) >= o + Len(pg)
  BY <1>6, <1>9, <1>10
<1>12. pg = <<>> => walk.due \subseteq walk'.got
  <2>. SUFFICES ASSUME pg = <<>>, NEW e \in walk.due, e \notin walk'.got PROVE FALSE
    OBVIOUS
  <2>1. Len(pg) = 0
    OBVIOUS
  <2>2. m <= o
    BY <1>6, <1>7, <2>1
  <2>3. m = Len(list)
    BY <1>5, <1>6, <2>2
  <2>. QED
    BY <1>4, <1>10, <2>3
<1>13. LogOK'
  BY <1>1 DEF WalkInv, LogOK, LogRows
<1>14. (walk.due \subseteq Matching(walk.subject))'
  BY <1>1, <1>8 DEF Matching, rows
<1>15. (\A e \in walk.due \ walk.got : Cardinality(Ahead(walk.subject, e)) >= walk.offset)'
  BY <1>1, <1>8, <1>11 DEF Ahead, Matching
<1>16. walk'.limit \in Nat \ {0} /\ walk'.offset \in Nat
  BY <1>1, <1>8, <1>9
<1>17. WalkMissesNothing'
  BY <1>8, <1>12 DEF WalkMissesNothing
<1>. QED
  BY <1>1, <1>8, <1>13, <1>14, <1>15, <1>16, <1>17 DEF WalkInv

\* AuditWalk: every step keeps the log, and what the reader still lacks lies
\* behind its offset.
THEOREM WalkInvariant == WalkSpec => []WalkInv
<1>1. WalkInit => WalkInv
  <2>. SUFFICES ASSUME WalkInit PROVE WalkInv
    OBVIOUS
  <2>1. LogOK
    BY FS_EmptySet DEF WalkInit, LogOK
  <2>. QED
    BY <2>1 DEF WalkInit, WalkInv, WalkFields, WalkMissesNothing
<1>2. WalkInv /\ [WalkNext]_walkVars => WalkInv'
  <2>. SUFFICES ASSUME WalkInv, [WalkNext]_walkVars PROVE WalkInv'
    OBVIOUS
  <2>1. ASSUME UNCHANGED <<auditLog, walk>>, now' \in Seconds PROVE WalkInv'
    <3>1. LogOK'
      BY <2>1 DEF WalkInv, LogOK, LogRows
    <3>2. \A subject : Matching(subject)' = Matching(subject)
      BY <2>1 DEF Matching
    <3>3. (walk.due \subseteq Matching(walk.subject))' = (walk.due \subseteq Matching(walk.subject))
      BY <2>1, Zenon DEF Matching
    <3>4. (\A e \in walk.due \ walk.got : Cardinality(Ahead(walk.subject, e)) >= walk.offset)'
          <=> \A e \in walk.due \ walk.got : Cardinality(Ahead(walk.subject, e)) >= walk.offset
      BY <2>1 DEF Ahead, Matching
    <3>. QED
      BY <2>1, <3>1, <3>3, <3>4 DEF WalkInv, WalkMissesNothing
  <2>2. CASE ClockMoves
    BY <2>1, <2>2 DEF ClockMoves
  <2>3. CASE UNCHANGED walkVars
    BY <2>1, <2>3 DEF walkVars, WalkInv
  <2>. QED
    BY <2>2, <2>3, RecordKeeps, StartKeeps, QueryKeeps DEF WalkNext
<1>. QED
  BY <1>1, <1>2, PTL DEF WalkSpec

\* A reader that pages through the audit log by offset to an empty page has
\* got every entry that was there when it began (query_audit of admin.rs),
\* for logs, limits and clocks of any size.
THEOREM WalkIsComplete == WalkSpec => []WalkMissesNothing
<1>1. WalkInv => WalkMissesNothing
  BY DEF WalkInv
<1>. QED
  BY <1>1, WalkInvariant, PTL
-----------------------------------------------------------------------------
(* Sums over the domain of a function *)

Pick(s) == CHOOSE x \in s : TRUE

\* The sums of f over the subsets of its domain, as SumFunction has them.
SumsOf(f) ==
  CHOOSE sum : sum = [s \in SUBSET DOMAIN f |->
    IF s = {} THEN 0 ELSE f[Pick(s)] + sum[s \ {Pick(s)}]]

LEMMA SumIsOfAll ==
  ASSUME NEW f
  PROVE  SumFunction(f) = SumsOf(f)[DOMAIN f]
BY DEF SumFunction, SumFunctionOnSet, FoldFunctionOnSet, MapThenFoldSet, SumsOf, Pick

\* Among some finite sets there is one none of whose immediate subsets is of them.
LEMMA SmallestSet ==
  ASSUME NEW D, IsFiniteSet(D), NEW Some \in SUBSET (SUBSET D), Some # {}
  PROVE  \E s \in Some : \A x \in s : s \ {x} \notin Some
<1>. DEFINE sizes == {Cardinality(s) : s \in Some}
<1>1. \A s \in Some : IsFiniteSet(s) /\ Cardinality(s) \in Nat
  BY FS_Subset, FS_CardinalityType
<1>2. sizes \in SUBSET Nat /\ sizes # {}
  BY <1>1
<1>3. \E m \in sizes : \A n \in sizes : m <= n
  BY <1>2, LeastNumber
<1>4. PICK s \in Some : \A t \in Some : Cardinality(s) <= Cardinality(t)
  BY <1>3
<1>5. ASSUME NEW x \in s, s \ {x} \in Some
      PROVE  FALSE
  <2>1. Cardinality(s \ {x}) = Cardinality(s) - 1
    BY <1>1, FS_RemoveElement
  <2>. QED BY <2>1, <1>1, <1>4, <1>5
<1>. QED BY <1>4, <1>5

\* The recursion of SumsOf has a solution: it is built size by size.
LEMMA SumsExist ==
  ASSUME NEW f, IsFiniteSet(DOMAIN f)
  PROVE  SumsOf(f) = [s \in SUBSET DOMAIN f |->
           IF s = {} THEN 0 ELSE f[Pick(s)] + SumsOf(f)[s \ {Pick(s)}]]
<1>. DEFINE Upto(n) == {s \in SUBSET DOMAIN f : Cardinality(s) <= n}
            Solves(g, n) == g = [s \in Upto(n) |->
                              IF s = {} THEN 0 ELSE f[Pick(s)] + g[s \ {Pick(s)}]]
            missing == {n \in Nat : ~\E g : Solves(g, n)}
<1>1. \A s \in SUBSET DOMAIN f : IsFiniteSet(s) /\ Cardinality(s) \in Nat
  BY FS_Subset, FS_CardinalityType
<1>2. \A s : s # {} => Pick(s) \in s
  BY DEF Pick
<1>3. 0 \notin missing
  <2>1. Upto(0) = {{}}
    BY <1>1, FS_EmptySet
  <2>2. Solves([s \in Upto(0) |-> 0], 0)
    BY <2>1
  <2>. QED BY <2>2
<1>4. ASSUME NEW n \in Nat, n \notin missing
      PROVE  n + 1 \notin missing
  <2>1. PICK g : Solves(g, n)
    BY <1>4
  <2>. DEFINE h == [s \in Upto(n + 1) |->
                IF s = {} THEN 0 ELSE f[Pick(s)] + g[s \ {Pick(s)}]]
  <2>2. ASSUME NEW s \in Upto(n)
        PROVE  s \in Upto(n + 1) /\ h[s] = g[s]
    <3>1. s \in Upto(n + 1)
      BY <1>1, <1>4
    <3>2. g[s] = IF s = {} THEN 0 ELSE f[Pick(s)] + g[s \ {Pick(s)}]
      BY <2>1
    <3>. HIDE DEF Upto
    <3>. QED BY <3>1, <3>2
  <2>3. ASSUME NEW s \in Upto(n + 1), s # {}
        PROVE  s \ {Pick(s)} \in Upto(n)
    <3>1. Cardinality(s \ {Pick(s)}) = Cardinality(s) - 1
      BY <1>1, <1>2, <2>3, FS_RemoveElement
    <3>. QED BY <3>1, <2>3, <1>1
  <2>. HIDE DEF Upto
  <2>4. h = [s \in Upto(n + 1) |-> IF s = {} THEN 0 ELSE f[Pick(s)] + h[s \ {Pick(s)}]]
    BY <2>2, <2>3
  <2>5. Solves(h, n + 1)
    BY <2>4
  <2>. HIDE DEF h, Solves
  <2>. QED BY <2>5
<1>. HIDE DEF Solves
<1>5. missing = {}
  <2>1. SUFFICES ASSUME missing # {} PROVE FALSE
    OBVIOUS
  <2>2. missing \in SUBSET Nat
    OBVIOUS
  <2>. HIDE DEF missing
  <2>3. PICK m \in missing : \A n \in missing : m <= n
    BY <2>1, <2>2, LeastNumber
  <2>4. m \in Nat /\ m # 0
    BY <2>2, <1>3
  <2>5. m - 1 \in Nat /\ m - 1 \notin missing /\ (m - 1) + 1 = m
    BY <2>2, <2>3, <2>4
  <2>. QED BY <2>3, <2>5, <1>4
<1>6. \E g : Solves(g, Cardinality(DOMAIN f))
  BY <1>1, <1>5
<1>7. Upto(Cardinality(DOMAIN f)) = SUBSET DOMAIN f
  BY <1>1, FS_Subset
<1>8. \E g : g = [s \in SUBSET DOMAIN f |->
                    IF s = {} THEN 0 ELSE f[Pick(s)] + g[s \ {Pick(s)}]]
  BY <1>6, <1>7 DEF Solves
<1>. QED BY <1>8 DEF SumsOf

\* One turn of the recursion.
LEMMA SumTurn ==
  ASSUME NEW f, IsFiniteSet(DOMAIN f), NEW s \in SUBSET DOMAIN f
  PROVE  /\ s = {} => SumsOf(f)[s] = 0
         /\ s # {} => /\ Pick(s) \in s
                      /\ SumsOf(f)[s] = f[Pick(s)] + SumsOf(f)[s \ {Pick(s)}]
<1>1. SumsOf(f)[s] = IF s = {} THEN 0 ELSE f[Pick(s)] + SumsOf(f)[s \ {Pick(s)}]
  BY SumsExist
<1>2. s # {} => Pick(s) \in s
  BY DEF Pick
<1>. QED BY <1>1, <1>2

LEMMA SumIsNumber ==
  ASSUME NEW D, IsFiniteSet(D), NEW f \in [D -> Int], NEW s \in SUBSET D
  PROVE  SumsOf(f)[s] \in Int
<1>. DEFINE bad == {t \in SUBSET D : SumsOf(f)[t] \notin Int}
<1>1. bad = {}
  <2>1. SUFFICES ASSUME bad # {} PROVE FALSE
    OBVIOUS
  <2>2. PICK t \in bad : \A x \in t : t \ {x} \notin bad
    BY <2>1, SmallestSet
  <2>3. CASE t = {}
    <3>1. IsFiniteSet(DOMAIN f) /\ t \in SUBSET DOMAIN f
      OBVIOUS
    <3>2. SumsOf(f)[t] = 0
      BY <2>3, <3>1, SumTurn
    <3>. QED BY <3>2
  <2>4. CASE t # {}
    <3>1. Pick(t) \in t /\ SumsOf(f)[t] = f[Pick(t)] + SumsOf(f)[t \ {Pick(t)}]
      BY <2>4, SumTurn
    <3>2. SumsOf(f)[t \ {Pick(t)}] \in Int
      BY <3>1, <2>2
    <3>3. f[Pick(t)] \in Int
      BY <3>1
    <3>. QED BY <3>1, <3>2, <3>3
  <2>. QED BY <2>3, <2>4
<1>. QED BY <1>1

\* Any element may be taken out first.
LEMMA SumTakesAny ==
  ASSUME NEW D, IsFiniteSet(D), NEW f \in [D -> Int], NEW s \in SUBSET D, NEW x \in s
  PROVE  SumsOf(f)[s] = f[x] + SumsOf(f)[s \ {x}]
<1>. DEFINE bad == {t \in SUBSET D : \E y \in t : SumsOf(f)[t] # f[y] + SumsOf(f)[t \ {y}]}
<1>1. bad = {}
  <2>1. SUFFICES ASSUME bad # {} PROVE FALSE
    OBVIOUS
  <2>2. PICK t \in bad : \A y \in t : t \ {y} \notin bad
    BY <2>1, SmallestSet
  <2>3. PICK y \in t : SumsOf(f)[t] # f[y] + SumsOf(f)[t \ {y}]
    BY <2>2
  <2>4. PICK c \in t : SumsOf(f)[t] = f[c] + SumsOf(f)[t \ {c}]
    BY SumTurn
  <2>5. c # y
    BY <2>3, <2>4
  <2>6. c \in t \ {y} /\ y \in t \ {c} /\ t \ {y} \in SUBSET D /\ t \ {c} \in SUBSET D
    BY <2>4, <2>5
  <2>. DEFINE rest == (t \ {c}) \ {y}
  <2>7. ASSUME NEW z \in t, NEW v \in t \ {z}
        PROVE  SumsOf(f)[t \ {z}] = f[v] + SumsOf(f)[(t \ {z}) \ {v}]
    <3>1. t \ {z} \notin bad /\ t \ {z} \in SUBSET D
      BY <2>2
    <3>. QED BY <3>1, <2>7
  <2>8. SumsOf(f)[t \ {y}] = f[c] + SumsOf(f)[(t \ {y}) \ {c}]
    BY <2>6, <2>7
  <2>9. (t \ {y}) \ {c} = rest
    OBVIOUS
  <2>10. f[c] \in Int /\ f[y] \in Int /\ SumsOf(f)[rest] \in Int
    BY <2>6, SumIsNumber
  <2>. HIDE DEF rest
  <2>11. SumsOf(f)[t] = f[c] + (f[y] + SumsOf(f)[rest])
    BY <2>4, <2>6, <2>7 DEF rest
  <2>12. f[y] + SumsOf(f)[t \ {y}] = f[y] + (f[c] + SumsOf(f)[rest])
    BY <2>8, <2>9
  <2>13. f[c] + (f[y] + SumsOf(f)[rest]) = f[y] + (f[c] + SumsOf(f)[rest])
    BY <2>10
  <2>. QED BY <2>3, <2>11, <2>12, <2>13
<1>. QED BY <1>1

\* What two functions have in common adds up to the same; where the second one
\* has more it is zero.
LEMMA SumOfBoth ==
  ASSUME NEW D, IsFiniteSet(D), NEW f \in [D -> Int],
         NEW E, IsFiniteSet(E), NEW g \in [E -> Int],
         NEW s \in SUBSET E, \A x \in s : IF x \in D THEN g[x] = f[x] ELSE g[x] = 0
  PROVE  SumsOf(g)[s] = SumsOf(f)[s \cap D]
<1>. DEFINE bad == {t \in SUBSET s : SumsOf(g)[t] # SumsOf(f)[t \cap D]}
<1>0. IsFiniteSet(s)
  BY FS_Subset
<1>1. bad = {}
  <2>1. SUFFICES ASSUME bad # {} PROVE FALSE
    OBVIOUS
  <2>2. PICK t \in bad : \A y \in t : t \ {y} \notin bad
    BY <1>0, <2>1, SmallestSet
  <2>3. CASE t = {}
    <3>1. SumsOf(g)[t] = 0 /\ t \cap D = {} /\ SumsOf(f)[{}] = 0
      BY <2>3, SumTurn
    <3>. QED BY <3>1
  <2>4. CASE t # {}
    <3>1. PICK y \in t : TRUE
      BY <2>4
    <3>2. SumsOf(g)[t] = g[y] + SumsOf(g)[t \ {y}]
      BY <3>1, SumTakesAny
    <3>3. SumsOf(g)[t \ {y}] = SumsOf(f)[(t \ {y}) \cap D]
      BY <2>2, <3>1
    <3>4. SumsOf(f)[(t \ {y}) \cap D] \in Int
      BY SumIsNumber
    <3>5. CASE y \in D
      <4>1. y \in t \cap D /\ (t \cap D) \ {y} = (t \ {y}) \cap D /\ g[y] = f[y]
        BY <3>1, <3>5
      <4>2. SumsOf(f)[t \cap D] = f[y] + SumsOf(f)[(t \cap D) \ {y}]
        <5>. DEFINE both == t \cap D
        <5>1. both \in SUBSET D /\ y \in both
          BY <4>1
        <5>. HIDE DEF both
        <5>2. SumsOf(f)[both] = f[y] + SumsOf(f)[both \ {y}]
          BY <5>1, SumTakesAny
        <5>. QED BY <5>2 DEF both
      <4>. QED BY <4>1, <4>2, <3>2, <3>3
    <3>6. CASE y \notin D
      <4>1. t \cap D = (t \ {y}) \cap D /\ g[y] = 0
        BY <3>1, <3>6
      <4>2. SumsOf(g)[t] = 0 + SumsOf(f)[t \cap D]
        BY <4>1, <3>2, <3>3
      <4>. QED BY <4>1, <4>2, <3>4
    <3>. QED BY <3>5, <3>6
  <2>. QED BY <2>3, <2>4
<1>. QED BY <1>1

\* What one more value, or a larger one, does to the sum.
LEMMA SumGrows ==
  ASSUME NEW D, IsFiniteSet(D), NEW f \in [D -> Int],
         NEW x, NEW g \in [D \cup {x} -> Int], NEW d \in Int,
         \A y \in D \ {x} : g[y] = f[y],
         g[x] = (IF x \in D THEN f[x] ELSE 0) + d
  PROVE  SumFunction(g) = SumFunction(f) + d
<1>. DEFINE E == D \cup {x}
            others == D \ {x}
<1>1. IsFiniteSet(E) /\ DOMAIN g = E /\ DOMAIN f = D /\ E \ {x} = others
      /\ others \in SUBSET E /\ others \in SUBSET D /\ others \cap D = others
  BY FS_AddElement
<1>2. SumFunction(g) = g[x] + SumsOf(g)[others]
  BY <1>1, SumIsOfAll, SumTakesAny, SMTT(30)
<1>3. SumsOf(g)[others] = SumsOf(f)[others]
  <2>1. \A y \in others : IF y \in D THEN g[y] = f[y] ELSE g[y] = 0
    OBVIOUS
  <2>. HIDE DEF others, E
  <2>2. g \in [E -> Int]
    BY DEF E
  <2>3. others \in SUBSET E /\ IsFiniteSet(E)
    BY <1>1
  <2>4. SumsOf(g)[others] = SumsOf(f)[others \cap D]
    BY <2>1, <2>2, <2>3, SumOfBoth, SMTT(30)
  <2>. QED BY <2>4, <1>1
<1>4. SumsOf(f)[others] \in Int
  BY <1>1, SumIsNumber
<1>5. SumFunction(f) = SumsOf(f)[D]
  BY <1>1, SumIsOfAll
<1>6. CASE x \in D
  <2>1. SumsOf(f)[D] = f[x] + SumsOf(f)[others] /\ f[x] \in Int /\ g[x] = f[x] + d
    BY <1>6, SumTakesAny, SMTT(30)
  <2>. HIDE DEF others
  <2>. QED BY <2>1, <1>2, <1>3, <1>4, <1>5
<1>7. CASE x \notin D
  <2>1. others = D /\ g[x] = 0 + d
    BY <1>7
  <2>. HIDE DEF others
  <2>. QED BY <2>1, <1>2, <1>3, <1>4, <1>5
<1>. QED BY <1>6, <1>7

-----------------------------------------------------------------------------
(* SaverSummary *)

SummaryRows == [enabled : BOOLEAN, requests : Nat, saved : Nat]
SummaryGroups == Teams \cup {Unknown}
Summaries ==
  [of : UNION {[S -> SummaryRows] : S \in SUBSET SummaryGroups}, requests : Nat, saved : Nat]
LoggedRows == [team : SummaryGroups, applied : BOOLEAN, saved : Nat]
Policies == UNION {[S -> BOOLEAN] : S \in {S \in SUBSET Teams : IsFiniteSet(S)}}

RequestsIn(r) == [t \in DOMAIN r.of |-> r.of[t].requests]
SavedIn(r) == [t \in DOMAIN r.of |-> r.of[t].saved]

\* The totals of a report are those of its groups.
AddsUp(r) ==
  /\ IsFiniteSet(DOMAIN r.of)
  /\ r.requests = SumFunction(RequestsIn(r))
  /\ r.saved = SumFunction(SavedIn(r))

SummaryInv ==
  /\ settings \in Policies
  /\ entries \in Seq(LoggedRows)
  /\ view \in [at : {"asked", "listed", "read", "answered"}, policies : Policies,
               since : Nat, rows : SUBSET Nat, report : Summaries]
  /\ AddsUp(view.report)
  /\ view.rows \subseteq Optimized
  /\ view.at # "asked" => view.since <= Cardinality(Optimized)
  /\ view.at \in {"asked", "listed"} => view.report = NoReport /\ view.rows = {}
  /\ view.at \in {"read", "answered"} =>
       view.report.requests + Cardinality(view.rows) \in view.since..Cardinality(Optimized)
  /\ view.at = "read" => \A t \in DOMAIN view.report.of : ~view.report.of[t].enabled
  /\ view.at = "answered" =>
       /\ view.rows = {}
       /\ \A t \in DOMAIN view.policies :
            t \in DOMAIN view.report.of /\ view.report.of[t].enabled = view.policies[t]
       /\ \A t \in DOMAIN view.report.of \ DOMAIN view.policies : ~view.report.of[t].enabled

LEMMA SummaryIs ==
  ASSUME NEW r \in Summaries
  PROVE  /\ r.of \in [DOMAIN r.of -> SummaryRows] /\ DOMAIN r.of \subseteq SummaryGroups
         /\ r.requests \in Nat /\ r.saved \in Nat
         /\ RequestsIn(r) \in [DOMAIN r.of -> Int] /\ SavedIn(r) \in [DOMAIN r.of -> Int]
<1>1. /\ r.of \in UNION {[S -> SummaryRows] : S \in SUBSET SummaryGroups}
      /\ r.requests \in Nat /\ r.saved \in Nat
  BY DEF Summaries
<1>2. PICK S \in SUBSET SummaryGroups : r.of \in [S -> SummaryRows]
  BY <1>1
<1>3. \A t \in DOMAIN r.of : r.of[t].requests \in Nat /\ r.of[t].saved \in Nat
  BY <1>2 DEF SummaryRows
<1>. QED BY <1>1, <1>2, <1>3 DEF RequestsIn, SavedIn

LEMMA EmptySummary == NoReport \in Summaries /\ AddsUp(NoReport)
<1>1. NoReport.of = <<>> /\ NoReport.requests = 0 /\ NoReport.saved = 0
  BY DEF NoReport
<1>2. DOMAIN NoReport.of = {} /\ NoReport.of \in [{} -> SummaryRows]
  BY <1>1
<1>3. NoReport \in Summaries
  <2>1. {} \in SUBSET SummaryGroups
    OBVIOUS
  <2>2. NoReport.of \in UNION {[S -> SummaryRows] : S \in SUBSET SummaryGroups}
    BY <1>2, <2>1
  <2>. QED BY <2>2 DEF NoReport, Summaries
<1>4. IsFiniteSet({})
  BY FS_EmptySet
<1>5. ASSUME NEW f, DOMAIN f = {}
      PROVE  SumFunction(f) = 0
  <2>1. SumFunction(f) = SumsOf(f)[{}] /\ IsFiniteSet(DOMAIN f) /\ {} \in SUBSET DOMAIN f
    BY <1>4, <1>5, SumIsOfAll
  <2>. QED BY <2>1, SumTurn
<1>6. DOMAIN RequestsIn(NoReport) = {} /\ DOMAIN SavedIn(NoReport) = {}
  BY <1>2 DEF RequestsIn, SavedIn
<1>. QED BY <1>1, <1>2, <1>3, <1>4, <1>5, <1>6 DEF AddsUp

\* What an entry adds to a report.
LEMMA CountedIs ==
  ASSUME NEW r \in Summaries, NEW e \in LoggedRows
  PROVE  /\ Counted(r, e) \in Summaries
         /\ Counted(r, e).requests = r.requests + 1
         /\ Counted(r, e).saved = r.saved + e.saved
         /\ DOMAIN Counted(r, e).of = DOMAIN r.of \cup {e.team}
         /\ \A t \in DOMAIN r.of \ {e.team} : Counted(r, e).of[t] = r.of[t]
         /\ Counted(r, e).of[e.team].requests = RowOf(r, e.team).requests + 1
         /\ Counted(r, e).of[e.team].saved = RowOf(r, e.team).saved + e.saved
         /\ Counted(r, e).of[e.team].enabled = RowOf(r, e.team).enabled
<1>. DEFINE c == Counted(r, e)
            old == RowOf(r, e.team)
            new == [old EXCEPT !.requests = @ + 1, !.saved = @ + e.saved]
<1>1. e.team \in SummaryGroups /\ e.saved \in Nat
  BY DEF LoggedRows
<1>2. old \in SummaryRows
  BY SummaryIs DEF RowOf, SummaryRows
<1>3. /\ new.requests = old.requests + 1 /\ new.saved = old.saved + e.saved
      /\ new.enabled = old.enabled /\ new \in SummaryRows
  <2>1. old.requests \in Nat /\ old.saved \in Nat /\ old.requests + 1 \in Nat
        /\ old.saved + e.saved \in Nat
    BY <1>1, <1>2 DEF SummaryRows
  <2>. HIDE DEF old
  <2>2. new = [old EXCEPT !.requests = old.requests + 1, !.saved = old.saved + e.saved]
    OBVIOUS
  <2>. QED BY <1>2, <2>1, <2>2, ZenonT(30) DEF SummaryRows
<1>. HIDE DEF old
<1>4. c = [[r EXCEPT !.of = [t \in DOMAIN r.of \cup {e.team} |->
                              IF t = e.team THEN new ELSE r.of[t]]]
             EXCEPT !.requests = @ + 1, !.saved = @ + e.saved]
  BY DEF Counted, WithRow, old
<1>. HIDE DEF new, c
<1>. DEFINE of == [t \in DOMAIN r.of \cup {e.team} |-> IF t = e.team THEN new ELSE r.of[t]]
<1>5. /\ c.of = of /\ c.requests = r.requests + 1 /\ c.saved = r.saved + e.saved
      /\ c = [of |-> c.of, requests |-> c.requests, saved |-> c.saved]
  BY <1>4 DEF Summaries
<1>6. of \in [DOMAIN r.of \cup {e.team} -> SummaryRows]
  BY <1>3, SummaryIs
<1>7. DOMAIN r.of \cup {e.team} \in SUBSET SummaryGroups
  BY <1>1, SummaryIs
<1>8. c \in Summaries
  <2>1. c.of \in UNION {[S -> SummaryRows] : S \in SUBSET SummaryGroups}
    BY <1>5, <1>6, <1>7
  <2>2. c.requests \in Nat /\ c.saved \in Nat
    BY <1>1, <1>5, SummaryIs
  <2>. QED BY <2>1, <2>2, <1>5 DEF Summaries
<1>9. /\ DOMAIN c.of = DOMAIN r.of \cup {e.team}
      /\ \A t \in DOMAIN r.of \ {e.team} : c.of[t] = r.of[t]
      /\ c.of[e.team] = new
  BY <1>5
<1>. QED BY <1>3, <1>5, <1>8, <1>9 DEF c, old

LEMMA CountedAddsUp ==
  ASSUME NEW r \in Summaries, AddsUp(r), NEW e \in LoggedRows
  PROVE  AddsUp(Counted(r, e))
<1>. DEFINE c == Counted(r, e)
            x == e.team
            D == DOMAIN r.of
<1>1. /\ c \in Summaries
      /\ c.requests = r.requests + 1 /\ c.saved = r.saved + e.saved
      /\ DOMAIN c.of = D \cup {x}
      /\ \A t \in D \ {x} : c.of[t] = r.of[t]
      /\ c.of[x].requests = RowOf(r, x).requests + 1
      /\ c.of[x].saved = RowOf(r, x).saved + e.saved
  BY CountedIs
<1>. HIDE DEF c
<1>2. /\ RequestsIn(c) \in [D \cup {x} -> Int] /\ SavedIn(c) \in [D \cup {x} -> Int]
      /\ RequestsIn(r) \in [D -> Int] /\ SavedIn(r) \in [D -> Int]
  BY <1>1, SummaryIs
<1>3. IsFiniteSet(D) /\ IsFiniteSet(D \cup {x}) /\ e.saved \in Int
  BY FS_AddElement DEF AddsUp, LoggedRows
<1>4. /\ \A t \in D \ {x} : RequestsIn(c)[t] = RequestsIn(r)[t]
      /\ \A t \in D \ {x} : SavedIn(c)[t] = SavedIn(r)[t]
  BY <1>1 DEF RequestsIn, SavedIn
<1>5. RequestsIn(c)[x] = (IF x \in D THEN RequestsIn(r)[x] ELSE 0) + 1
  <2>1. RequestsIn(c)[x] = c.of[x].requests
    BY <1>1 DEF RequestsIn
  <2>2. RowOf(r, x).requests = IF x \in D THEN RequestsIn(r)[x] ELSE 0
    BY DEF RowOf, RequestsIn
  <2>. QED BY <2>1, <2>2, <1>1
<1>6. SavedIn(c)[x] = (IF x \in D THEN SavedIn(r)[x] ELSE 0) + e.saved
  <2>1. SavedIn(c)[x] = c.of[x].saved
    BY <1>1 DEF SavedIn
  <2>2. RowOf(r, x).saved = IF x \in D THEN SavedIn(r)[x] ELSE 0
    BY DEF RowOf, SavedIn
  <2>. QED BY <2>1, <2>2, <1>1
<1>. HIDE DEF x, D
<1>7. SumFunction(RequestsIn(c)) = SumFunction(RequestsIn(r)) + 1
  BY <1>2, <1>3, <1>4, <1>5, SumGrows
<1>8. SumFunction(SavedIn(c)) = SumFunction(SavedIn(r)) + e.saved
  BY <1>2, <1>3, <1>4, <1>6, SumGrows
<1>. QED BY <1>1, <1>3, <1>7, <1>8 DEF AddsUp, c

\* The settings change no sum: a group without requests has a row of zeros.
LEMMA OverlayIs ==
  ASSUME NEW r \in Summaries, AddsUp(r), NEW p \in Policies
  PROVE  /\ Overlay(r, p) \in Summaries /\ AddsUp(Overlay(r, p))
         /\ Overlay(r, p).requests = r.requests
         /\ DOMAIN Overlay(r, p).of = DOMAIN r.of \cup DOMAIN p
         /\ \A t \in DOMAIN p : Overlay(r, p).of[t].enabled = p[t]
         /\ \A t \in DOMAIN r.of \ DOMAIN p : Overlay(r, p).of[t] = r.of[t]
<1>. DEFINE o == Overlay(r, p)
            D == DOMAIN r.of
            E == D \cup DOMAIN p
            over(t) == [RowOf(r, t) EXCEPT !.enabled = p[t]]
            of == [t \in E |-> IF t \in DOMAIN p THEN over(t) ELSE r.of[t]]
<1>1. DOMAIN p \subseteq Teams /\ IsFiniteSet(DOMAIN p) /\ \A t \in DOMAIN p : p[t] \in BOOLEAN
  BY DEF Policies
<1>2. \A t : RowOf(r, t) \in SummaryRows
  BY SummaryIs DEF RowOf, SummaryRows
<1>3. ASSUME NEW t \in DOMAIN p
      PROVE  /\ over(t) \in SummaryRows /\ over(t).enabled = p[t]
             /\ over(t).requests = RowOf(r, t).requests /\ over(t).saved = RowOf(r, t).saved
  <2>1. RowOf(r, t) \in SummaryRows /\ p[t] \in BOOLEAN
    BY <1>1, <1>2
  <2>. QED BY <2>1, ZenonT(30) DEF SummaryRows
<1>4. o = [r EXCEPT !.of = of]
  BY DEF Overlay
<1>. HIDE DEF over, o
<1>5. /\ o.of = of /\ o.requests = r.requests /\ o.saved = r.saved
      /\ o = [of |-> o.of, requests |-> o.requests, saved |-> o.saved]
  BY <1>4 DEF Summaries
<1>6. of \in [E -> SummaryRows]
  BY <1>3, SummaryIs
<1>7. E \in SUBSET SummaryGroups
  BY <1>1, SummaryIs DEF SummaryGroups
<1>8. o \in Summaries
  <2>1. o.of \in UNION {[S -> SummaryRows] : S \in SUBSET SummaryGroups}
    BY <1>5, <1>6, <1>7
  <2>. QED BY <2>1, <1>5, SummaryIs DEF Summaries
<1>9. /\ DOMAIN o.of = E
      /\ \A t \in DOMAIN p : o.of[t] = over(t)
      /\ \A t \in D \ DOMAIN p : o.of[t] = r.of[t]
  BY <1>5
<1>10. IsFiniteSet(D) /\ IsFiniteSet(E)
  BY <1>1, FS_Union DEF AddsUp
<1>11. /\ RequestsIn(o) \in [E -> Int] /\ SavedIn(o) \in [E -> Int]
       /\ RequestsIn(r) \in [D -> Int] /\ SavedIn(r) \in [D -> Int]
  BY <1>8, <1>9, SummaryIs
<1>12. ASSUME NEW t \in E
       PROVE  /\ IF t \in D THEN RequestsIn(o)[t] = RequestsIn(r)[t] ELSE RequestsIn(o)[t] = 0
              /\ IF t \in D THEN SavedIn(o)[t] = SavedIn(r)[t] ELSE SavedIn(o)[t] = 0
  <2>1. RequestsIn(o)[t] = o.of[t].requests /\ SavedIn(o)[t] = o.of[t].saved
    BY <1>9 DEF RequestsIn, SavedIn
  <2>2. t \in D => RequestsIn(r)[t] = r.of[t].requests /\ SavedIn(r)[t] = r.of[t].saved
    BY DEF RequestsIn, SavedIn
  <2>3. /\ t \in D => RowOf(r, t) = r.of[t]
        /\ t \notin D => RowOf(r, t).requests = 0 /\ RowOf(r, t).saved = 0
    BY DEF RowOf
  <2>4. CASE t \in DOMAIN p
    BY <2>1, <2>2, <2>3, <2>4, <1>3, <1>9
  <2>5. CASE t \notin DOMAIN p
    BY <2>1, <2>2, <2>5, <1>9
  <2>. QED BY <2>4, <2>5
<1>13. ASSUME NEW f \in [D -> Int], NEW g \in [E -> Int],
              \A t \in E : IF t \in D THEN g[t] = f[t] ELSE g[t] = 0
       PROVE  SumFunction(g) = SumFunction(f)
  <2>1. E \cap D = D /\ DOMAIN f = D /\ DOMAIN g = E /\ E \in SUBSET E
    OBVIOUS
  <2>. HIDE DEF D, E
  <2>2. SumsOf(g)[E] = SumsOf(f)[E \cap D]
    BY <2>1, <1>10, <1>13, SumOfBoth
  <2>. QED BY <2>1, <2>2, SumIsOfAll
<1>. HIDE DEF D, E
<1>14. AddsUp(o)
  <2>1. /\ SumFunction(RequestsIn(o)) = SumFunction(RequestsIn(r))
        /\ SumFunction(SavedIn(o)) = SumFunction(SavedIn(r))
    BY <1>11, <1>12, <1>13
  <2>. QED BY <2>1, <1>5, <1>9, <1>10 DEF AddsUp
<1>. QED BY <1>3, <1>5, <1>8, <1>9, <1>14 DEF o, D, E

\* What is logged stays found, and the found rows are as many as there are.
LEMMA OptimizedIs ==
  ASSUME entries \in Seq(LoggedRows)
  PROVE  /\ IsFiniteSet(Optimized) /\ Cardinality(Optimized) \in Nat
         /\ Optimized \subseteq Nat
         /\ \A S \in SUBSET Optimized : IsFiniteSet(S) /\ Cardinality(S) \in Nat
         /\ \A n \in Optimized : entries[n] \in LoggedRows
<1>1. Len(entries) \in Nat /\ DOMAIN entries = 1..Len(entries)
  OBVIOUS
<1>2. Optimized \in SUBSET (1..Len(entries))
  BY <1>1 DEF Optimized
<1>3. IsFiniteSet(1..Len(entries))
  BY <1>1, FS_Interval
<1>4. IsFiniteSet(Optimized)
  BY <1>2, <1>3, FS_Subset
<1>5. \A S \in SUBSET Optimized : IsFiniteSet(S) /\ Cardinality(S) \in Nat
  BY <1>4, FS_Subset, FS_CardinalityType
<1>6. \A n \in 1..Len(entries) : entries[n] \in LoggedRows
  BY <1>1
<1>. QED BY <1>2, <1>4, <1>5, <1>6, FS_CardinalityType

\* The report adds up after every turn of the loop, not only at the end
\* (admin.rs, query_token_saver_summary).
THEOREM SummaryInvariant == SummarySpec => []SummaryInv
<1>1. SummaryInit => SummaryInv
  <2>1. SUFFICES ASSUME SummaryInit PROVE SummaryInv
    OBVIOUS
  <2>2. /\ settings \in Policies /\ entries = <<>>
        /\ view = [at |-> "asked", policies |-> <<>>, since |-> 0, rows |-> {},
                   report |-> NoReport]
    BY <2>1 DEF SummaryInit, Policies
  <2>3. <<>> \in Policies
    <3>1. <<>> \in [{} -> BOOLEAN] /\ {} \in {S \in SUBSET Teams : IsFiniteSet(S)}
      BY FS_EmptySet
    <3>. QED BY <3>1 DEF Policies
  <2>4. entries \in Seq(LoggedRows)
    BY <2>2
  <2>. QED BY <2>2, <2>3, <2>4, EmptySummary DEF SummaryInv
<1>2. SummaryInv /\ [SummaryNext]_summaryVars => SummaryInv'
  <2>. SUFFICES ASSUME SummaryInv, [SummaryNext]_summaryVars PROVE SummaryInv'
    OBVIOUS
  <2>. DEFINE Views == [at : {"asked", "listed", "read", "answered"}, policies : Policies,
                        since : Nat, rows : SUBSET Nat, report : Summaries]
  <2>0. /\ settings \in Policies /\ entries \in Seq(LoggedRows) /\ view \in Views
        /\ view.at \in {"asked", "listed", "read", "answered"} /\ view.policies \in Policies
        /\ view.since \in Nat /\ view.rows \in SUBSET Nat /\ view.report \in Summaries
        /\ AddsUp(view.report) /\ view.rows \subseteq Optimized
    BY DEF SummaryInv
  <2>1. /\ IsFiniteSet(Optimized) /\ Cardinality(Optimized) \in Nat
        /\ Optimized \subseteq Nat
        /\ \A S \in SUBSET Optimized : IsFiniteSet(S) /\ Cardinality(S) \in Nat
        /\ \A n \in Optimized : entries[n] \in LoggedRows
    BY <2>0, OptimizedIs
  <2>2. view.report.requests \in Nat
    BY <2>0, SummaryIs
  <2>3. CASE LogRequest
    <3>1. PICK e : /\ e \in LoggedRows /\ entries' = Append(entries, e)
                   /\ UNCHANGED <<settings, view>>
      BY <2>3 DEF LogRequest, LoggedRows, SummaryGroups
    <3>2. /\ entries' \in Seq(LoggedRows)
          /\ DOMAIN entries \subseteq DOMAIN entries'
          /\ \A n \in DOMAIN entries : entries'[n] = entries[n]
      BY <3>1, <2>0, AppendProperties
    <3>3. Optimized \in SUBSET Optimized'
      BY <3>2 DEF Optimized
    <3>4. IsFiniteSet(Optimized') /\ Cardinality(Optimized') \in Nat
      <4>1. (entries \in Seq(LoggedRows) => IsFiniteSet(Optimized))'
        BY <3>2, OptimizedIs, PTL
      <4>. QED BY <4>1, <3>2, FS_CardinalityType
    <3>5. Cardinality(Optimized) <= Cardinality(Optimized')
      BY <3>3, <3>4, FS_Subset
    <3>. HIDE DEF Views
    <3>6. view'.at # "asked" => view'.since <= Cardinality(Optimized')
      BY <3>1, <3>4, <3>5, <2>0, <2>1 DEF SummaryInv
    <3>7. view'.at \in {"read", "answered"} =>
            view'.report.requests + Cardinality(view'.rows)
              \in view'.since..Cardinality(Optimized')
      <4>1. Cardinality(view.rows) \in Nat
        BY <2>0, <2>1
      <4>2. view.at \in {"read", "answered"} =>
              view.report.requests + Cardinality(view.rows)
                \in view.since..Cardinality(Optimized)
        BY DEF SummaryInv
      <4>. QED BY <4>1, <4>2, <3>1, <3>4, <3>5, <2>0, <2>1, <2>2
    <3>. QED BY <3>1, <3>2, <3>3, <3>6, <3>7, <2>0 DEF SummaryInv
  <2>4. CASE ChangePolicy
    <3>1. settings' \in Policies /\ UNCHANGED <<entries, view>>
      <4>1. PICK team \in Teams :
              settings' \in {[t \in DOMAIN settings \ {team} |-> settings[t]]} \cup
                            {[t \in DOMAIN settings \cup {team} |->
                                IF t = team THEN on ELSE settings[t]] : on \in BOOLEAN}
        BY <2>4 DEF ChangePolicy
      <4>2. PICK S \in SUBSET Teams : IsFiniteSet(S) /\ settings \in [S -> BOOLEAN]
        BY <2>0 DEF Policies
      <4>3. /\ IsFiniteSet(S \ {team}) /\ S \ {team} \in SUBSET Teams
            /\ IsFiniteSet(S \cup {team}) /\ S \cup {team} \in SUBSET Teams
        BY <4>2, FS_AddElement, FS_RemoveElement
      <4>4. settings' \in [S \ {team} -> BOOLEAN] \/ settings' \in [S \cup {team} -> BOOLEAN]
        BY <4>1, <4>2
      <4>. QED BY <2>4, <4>3, <4>4 DEF ChangePolicy, Policies
    <3>2. Optimized' = Optimized
      BY <3>1 DEF Optimized
    <3>. QED BY <3>1, <3>2 DEF SummaryInv
  <2>5. CASE ListPolicies
    <3>1. /\ view.at = "asked" /\ UNCHANGED <<settings, entries>>
          /\ view' = [view EXCEPT !.at = "listed", !.policies = settings,
                                  !.since = Cardinality(Optimized)]
      BY <2>5 DEF ListPolicies
    <3>2. /\ view'.at = "listed" /\ view'.policies = settings
          /\ view'.since = Cardinality(Optimized)
          /\ view'.rows = view.rows /\ view'.report = view.report
      BY <3>1, <2>0
    <3>3. view' \in Views
      BY <3>1, <2>0, <2>1, ZenonT(30)
    <3>4. Optimized' = Optimized
      BY <3>1 DEF Optimized
    <3>5. view.report = NoReport /\ view.rows = {}
      BY <3>1 DEF SummaryInv
    <3>6. Cardinality(Optimized) <= Cardinality(Optimized)
      BY <2>1
    <3>. QED BY <3>1, <3>2, <3>3, <3>4, <3>5, <3>6, <2>0 DEF SummaryInv
  <2>6. CASE ReadEntries
    <3>1. /\ view.at = "listed" /\ UNCHANGED <<settings, entries>>
          /\ view' = [view EXCEPT !.at = "read", !.rows = Optimized]
      BY <2>6 DEF ReadEntries
    <3>2. /\ view'.at = "read" /\ view'.policies = view.policies /\ view'.since = view.since
          /\ view'.rows = Optimized /\ view'.report = view.report
      BY <3>1, <2>0
    <3>3. view' \in Views
      BY <3>1, <2>0, <2>1, ZenonT(30)
    <3>4. Optimized' = Optimized
      BY <3>1 DEF Optimized
    <3>5. view.report = NoReport /\ view.since <= Cardinality(Optimized)
      BY <3>1 DEF SummaryInv
    <3>6. NoReport.requests = 0 /\ DOMAIN NoReport.of = {}
      BY DEF NoReport
    <3>7. 0 + Cardinality(Optimized) \in view.since..Cardinality(Optimized)
      BY <2>0, <2>1, <3>5
    <3>. QED BY <3>1, <3>2, <3>3, <3>4, <3>5, <3>6, <3>7, <2>0 DEF SummaryInv
  <2>7. CASE AddEntry
    <3>1. view.at = "read" /\ UNCHANGED <<settings, entries>>
      BY <2>7 DEF AddEntry
    <3>2. PICK n \in view.rows :
            view' = [view EXCEPT !.rows = view.rows \ {n},
                                 !.report = Counted(view.report, entries[n])]
      BY <2>7 DEF AddEntry
    <3>. DEFINE c == Counted(view.report, entries[n])
    <3>3. entries[n] \in LoggedRows
      BY <3>2, <2>0, <2>1
    <3>4. /\ c \in Summaries /\ AddsUp(c) /\ c.requests = view.report.requests + 1
          /\ DOMAIN c.of = DOMAIN view.report.of \cup {entries[n].team}
          /\ \A t \in DOMAIN view.report.of \ {entries[n].team} : c.of[t] = view.report.of[t]
          /\ c.of[entries[n].team].enabled = RowOf(view.report, entries[n].team).enabled
      BY <3>3, <2>0, CountedIs, CountedAddsUp
    <3>. HIDE DEF c
    <3>5. /\ view'.at = "read" /\ view'.policies = view.policies /\ view'.since = view.since
          /\ view'.rows = view.rows \ {n} /\ view'.report = c
      BY <3>1, <3>2, <2>0 DEF c
    <3>6. view' \in Views
      <4>1. view.rows \ {n} \in SUBSET Nat
        BY <2>0
      <4>2. view' = [view EXCEPT !.rows = view.rows \ {n}, !.report = c]
        BY <3>2 DEF c
      <4>. QED BY <4>1, <4>2, <3>4, <2>0, ZenonT(30)
    <3>7. Optimized' = Optimized
      BY <3>1 DEF Optimized
    <3>8. c.requests + Cardinality(view.rows \ {n}) \in view.since..Cardinality(Optimized)
      <4>1. Cardinality(view.rows \ {n}) = Cardinality(view.rows) - 1
        <5>1. IsFiniteSet(view.rows) /\ n \in view.rows
          BY <2>0, <2>1, <3>2
        <5>. DEFINE rows == view.rows
        <5>. HIDE DEF rows
        <5>2. IsFiniteSet(rows) /\ n \in rows
          BY <5>1 DEF rows
        <5>3. Cardinality(rows \ {n}) = Cardinality(rows) - 1
          BY <5>2, FS_RemoveElement
        <5>. QED
          BY <5>3 DEF rows
      <4>2. view.report.requests + Cardinality(view.rows) \in view.since..Cardinality(Optimized)
        BY <3>1 DEF SummaryInv
      <4>3. Cardinality(view.rows) \in Nat
        BY <2>0, <2>1
      <4>. QED BY <4>1, <4>2, <4>3, <3>4, <2>0, <2>1, <2>2
    <3>9. \A t \in DOMAIN c.of : ~c.of[t].enabled
      <4>1. \A t \in DOMAIN view.report.of : ~view.report.of[t].enabled
        BY <3>1 DEF SummaryInv
      <4>2. ~RowOf(view.report, entries[n].team).enabled
        BY <4>1 DEF RowOf
      <4>. QED BY <4>1, <4>2, <3>4
    <3>. QED BY <3>1, <3>4, <3>5, <3>6, <3>7, <3>8, <3>9, <2>0 DEF SummaryInv
  <2>8. CASE Answer
    <3>1. /\ view.at = "read" /\ view.rows = {} /\ UNCHANGED <<settings, entries>>
          /\ view' = [view EXCEPT !.at = "answered",
                                  !.report = Overlay(view.report, view.policies)]
      BY <2>8 DEF Answer
    <3>. DEFINE o == Overlay(view.report, view.policies)
    <3>2. /\ o \in Summaries /\ AddsUp(o) /\ o.requests = view.report.requests
          /\ DOMAIN o.of = DOMAIN view.report.of \cup DOMAIN view.policies
          /\ \A t \in DOMAIN view.policies : o.of[t].enabled = view.policies[t]
          /\ \A t \in DOMAIN view.report.of \ DOMAIN view.policies :
               o.of[t] = view.report.of[t]
      BY <2>0, OverlayIs
    <3>3. view' = [view EXCEPT !.at = "answered", !.report = o]
      BY <3>1
    <3>. HIDE DEF o
    <3>4. /\ view'.at = "answered" /\ view'.policies = view.policies
          /\ view'.since = view.since /\ view'.rows = {} /\ view'.report = o
      BY <3>1, <3>3, <2>0
    <3>5. view' \in Views
      BY <3>2, <3>3, <2>0, ZenonT(30)
    <3>6. Optimized' = Optimized
      BY <3>1 DEF Optimized
    <3>7. o.requests + Cardinality({}) \in view.since..Cardinality(Optimized)
      BY <3>1, <3>2 DEF SummaryInv
    <3>8. \A t \in DOMAIN view.report.of : ~view.report.of[t].enabled
      BY <3>1 DEF SummaryInv
    <3>9. /\ \A t \in DOMAIN view.policies :
               t \in DOMAIN o.of /\ o.of[t].enabled = view.policies[t]
          /\ \A t \in DOMAIN o.of \ DOMAIN view.policies : ~o.of[t].enabled
      BY <3>2, <3>8
    <3>10. view.since <= Cardinality(Optimized)
      BY <3>1 DEF SummaryInv
    <3>. QED BY <3>1, <3>2, <3>4, <3>5, <3>6, <3>7, <3>9, <3>10, <2>0 DEF SummaryInv
  <2>9. CASE UNCHANGED summaryVars
    <3>1. UNCHANGED <<settings, entries, view>>
      BY <2>9 DEF summaryVars
    <3>2. Optimized' = Optimized
      BY <3>1 DEF Optimized
    <3>. QED BY <3>1, <3>2 DEF SummaryInv
  <2>. QED BY <2>3, <2>4, <2>5, <2>6, <2>7, <2>8, <2>9 DEF SummaryNext
<1>. QED BY <1>1, <1>2, PTL DEF SummarySpec

(***************************************************************************)
(* The report on the token saver holds together for any groups, policies   *)
(* and log, although policies and log change between its two queries: its  *)
(* totals are the sums over its groups, no request logged before it began  *)
(* is missing, and it shows the settings it read (admin.rs,                *)
(* query_token_saver_summary).                                             *)
(***************************************************************************)
THEOREM ReportAddsUp == SummarySpec => []SummaryAddsUp
<1>1. SummaryInv => SummaryAddsUp
  <2>1. SUFFICES ASSUME SummaryInv, view.at = "answered" PROVE SummaryAddsUp
    BY DEF SummaryAddsUp
  <2>2. /\ view.report.requests = SumFunction(RequestsIn(view.report))
        /\ view.report.saved = SumFunction(SavedIn(view.report))
    BY <2>1 DEF SummaryInv, AddsUp
  <2>3. view.report.requests \in view.since..Cardinality(Optimized)
    <3>1. /\ view.report.requests + Cardinality({}) \in view.since..Cardinality(Optimized)
          /\ view.report \in Summaries
      BY <2>1 DEF SummaryInv
    <3>2. Cardinality({}) = 0 /\ view.report.requests \in Nat
      BY <3>1, FS_EmptySet, SummaryIs
    <3>. QED BY <3>1, <3>2
  <2>4. /\ \A t \in DOMAIN view.policies :
             t \in DOMAIN view.report.of /\ view.report.of[t].enabled = view.policies[t]
        /\ \A t \in DOMAIN view.report.of \ DOMAIN view.policies : ~view.report.of[t].enabled
    BY <2>1 DEF SummaryInv
  <2>. QED BY <2>2, <2>3, <2>4 DEF SummaryAddsUp, RequestsIn, SavedIn
<1>. QED BY <1>1, SummaryInvariant, PTL
-----------------------------------------------------------------------------
(* Recursion over the places of a sequence *)

LEMMA NumberByNumber ==
  ASSUME NEW N \in Nat, NEW T, 0 \in T,
         \A n \in Nat : (n < N /\ n \in T) => n + 1 \in T
  PROVE  \A n \in 0..N : n \in T
<1>. DEFINE missing == {n \in 0..N : n \notin T}
<1>1. missing = {}
  <2>1. SUFFICES ASSUME missing # {} PROVE FALSE
    OBVIOUS
  <2>2. missing \in SUBSET Nat
    OBVIOUS
  <2>3. \A n \in missing : n \in 0..N /\ n \notin T
    OBVIOUS
  <2>4. \A n \in 0..N : n \notin missing => n \in T
    OBVIOUS
  <2>. HIDE DEF missing
  <2>5. PICK m \in missing : \A n \in missing : m <= n
    BY <2>1, <2>2, LeastNumber
  <2>6. m \in 0..N /\ m # 0 /\ m \notin T
    BY <2>3
  <2>7. m - 1 \in 0..N /\ m - 1 \in Nat /\ m - 1 < N /\ (m - 1) + 1 = m /\ ~(m <= m - 1)
    BY <2>6
  <2>8. m - 1 \notin missing
    BY <2>5, <2>7
  <2>. QED
    BY <2>4, <2>6, <2>7, <2>8
<1>. QED
  BY <1>1

Walks(f, N, V, base, step) ==
  f \in [0..N -> V] /\ f[0] = base /\ \A n \in 1..N : f[n] = step[n][f[n - 1]]

\* A step for every place can be taken from the first place to the last.
LEMMA StepsCanBeTaken ==
  ASSUME NEW N \in Nat, NEW V, NEW base \in V, NEW step \in [1..N -> [V -> V]]
  PROVE  \E f : Walks(f, N, V, base, step)
<1>. DEFINE Solves(f, n) ==
              f \in [0..n -> V] /\ f[0] = base /\ \A i \in 1..n : f[i] = step[i][f[i - 1]]
            T == {n \in Nat : \E f : Solves(f, n)}
<1>1. 0 \in T
  <2>1. Solves([i \in 0..0 |-> base], 0)
    OBVIOUS
  <2>. QED
    BY <2>1
<1>2. ASSUME NEW n \in Nat, n < N, n \in T
      PROVE  n + 1 \in T
  <2>1. PICK f : Solves(f, n)
    BY <1>2
  <2>. DEFINE g == [i \in 0..(n + 1) |-> IF i = n + 1 THEN step[n + 1][f[n]] ELSE f[i]]
  <2>2. \A i \in 0..n : g[i] = f[i] /\ i \in 0..(n + 1)
    OBVIOUS
  <2>3. n + 1 \in 1..N /\ f[n] \in V
    BY <1>2, <2>1
  <2>4. step[n + 1][f[n]] \in V
    BY <2>3
  <2>5. g \in [0..(n + 1) -> V]
    BY <2>1, <2>4
  <2>6. g[0] = base
    BY <2>1, <2>2
  <2>7. g[n + 1] = step[n + 1][f[n]] /\ g[n] = f[n]
    OBVIOUS
  <2>. HIDE DEF g
  <2>8. ASSUME NEW i \in 1..(n + 1)
        PROVE  g[i] = step[i][g[i - 1]]
    <3>1. CASE i = n + 1
      <4>1. i - 1 = n
        BY <3>1
      <4>. QED
        BY <3>1, <4>1, <2>7
    <3>2. CASE i \in 1..n
      <4>1. i - 1 \in 0..n /\ i \in 0..n
        BY <3>2
      <4>2. f[i] = step[i][f[i - 1]]
        BY <2>1, <3>2
      <4>. QED
        BY <4>1, <4>2, <2>2
    <3>3. i = n + 1 \/ i \in 1..n
      OBVIOUS
    <3>. QED
      BY <3>1, <3>2, <3>3
  <2>9. Solves(g, n + 1)
    BY <2>5, <2>6, <2>8
  <2>. HIDE DEF Solves
  <2>. QED
    BY <2>9
<1>. HIDE DEF Solves
<1>3. N \in T
  <2>. HIDE DEF T
  <2>1. \A n \in Nat : (n < N /\ n \in T) => n + 1 \in T
    BY <1>2
  <2>2. \A n \in 0..N : n \in T
    BY <1>1, <2>1, NumberByNumber
  <2>. QED
    BY <2>2
<1>4. \E f : Solves(f, N)
  BY <1>3
<1>. QED
  BY <1>4 DEF Solves, Walks

\* The recursion of At.
Collects(f, S, seq, places) ==
  /\ f \in [0..Len(seq) -> Seq(S)]
  /\ f[0] = <<>> /\ f[Len(seq)] = At(seq, places)
  /\ \A n \in 1..Len(seq) :
       f[n] = IF n \in places THEN Append(f[n - 1], seq[n]) ELSE f[n - 1]

LEMMA AtTurns ==
  ASSUME NEW S, NEW seq \in Seq(S), NEW places
  PROVE  \E f : Collects(f, S, seq, places)
<1>. DEFINE N == Len(seq)
            Turn(v, n) == IF n \in places THEN Append(v, seq[n]) ELSE v
            Solves(h) == h = [n \in 0..N |-> IF n = 0 THEN <<>> ELSE Turn(h[n - 1], n)]
            step == [n \in 1..N |-> [v \in Seq(S) |-> Turn(v, n)]]
            f == CHOOSE h : Solves(h)
<1>1. N \in Nat /\ <<>> \in Seq(S)
  OBVIOUS
<1>2. \A n \in 1..N : \A v \in Seq(S) : Turn(v, n) \in Seq(S)
  OBVIOUS
<1>3. At(seq, places) = f[N]
  BY DEF At
<1>. HIDE DEF Turn, N
<1>4. step \in [1..N -> [Seq(S) -> Seq(S)]]
  BY <1>2
<1>5. \A n \in 1..N : \A v \in Seq(S) : step[n][v] = Turn(v, n)
  OBVIOUS
<1>. HIDE DEF step
<1>6. PICK g : Walks(g, N, Seq(S), <<>>, step)
  BY <1>1, <1>4, StepsCanBeTaken, Zenon
<1>7. g \in [0..N -> Seq(S)] /\ g[0] = <<>> /\ \A n \in 1..N : g[n] = step[n][g[n - 1]]
  BY <1>6 DEF Walks
<1>8. \A n \in 0..N : n # 0 => n \in 1..N /\ n - 1 \in 0..N
  BY <1>1
<1>9. \A n \in 0..N : g[n] = IF n = 0 THEN <<>> ELSE Turn(g[n - 1], n)
  BY <1>5, <1>7, <1>8
<1>10. Solves(g)
  BY <1>7, <1>9
<1>11. Solves(f)
  BY <1>10
<1>. HIDE DEF f
<1>12. f = [n \in 0..N |-> IF n = 0 THEN <<>> ELSE Turn(f[n - 1], n)]
  BY <1>11
<1>. HIDE DEF Solves
<1>13. f[0] = <<>> /\ \A n \in 1..N : f[n] = Turn(f[n - 1], n)
  BY <1>1, <1>12
<1>14. \A n \in 0..N : f[n] \in Seq(S)
  <2>. DEFINE T == {n \in Nat : f[n] \in Seq(S)}
  <2>1. 0 \in T
    BY <1>1, <1>13, Zenon
  <2>2. ASSUME NEW n \in Nat, n < N, n \in T
        PROVE  n + 1 \in T
    <3>1. n + 1 \in 1..N /\ (n + 1) - 1 = n /\ f[n] \in Seq(S)
      BY <1>1, <2>2
    <3>2. f[n + 1] = Turn(f[n], n + 1)
      BY <1>13, <3>1
    <3>. QED
      BY <3>1, <3>2, <1>2
  <2>3. \A n \in 0..N : n \in T
    <3>. HIDE DEF T
    <3>. QED
      BY <1>1, <2>1, <2>2, NumberByNumber
  <2>. QED
    BY <2>3
<1>15. f \in [0..N -> Seq(S)]
  BY <1>12, <1>14
<1>. QED
  BY <1>3, <1>13, <1>15 DEF N, Turn, Collects

\* What At makes of an interval of places is as long, and the same throughout.
Interval(seq, places, lo, hi) ==
  /\ lo \in 0..Len(seq) /\ hi \in lo..Len(seq)
  /\ \A n \in 1..Len(seq) : n \in places <=> (lo < n /\ n <= hi)

Stretch(r, S, seq, lo, hi) ==
  /\ r \in Seq(S) /\ Len(r) = hi - lo
  /\ \A k \in 1..(hi - lo) : r[k] = seq[lo + k]

LEMMA AtInterval ==
  ASSUME NEW S, NEW seq \in Seq(S), NEW places, NEW lo, NEW hi, Interval(seq, places, lo, hi)
  PROVE  Stretch(At(seq, places), S, seq, lo, hi)
<1>. DEFINE N == Len(seq)
            upto(n) == IF n <= lo THEN 0 ELSE IF n <= hi THEN n - lo ELSE hi - lo
<1>1. /\ lo \in 0..Len(seq) /\ hi \in lo..Len(seq)
      /\ \A n \in 1..Len(seq) : n \in places <=> (lo < n /\ n <= hi)
  BY DEF Interval
<1>2. N \in Nat /\ lo \in Nat /\ hi \in Nat /\ lo <= hi /\ hi <= N
  BY <1>1
<1>3. PICK f : Collects(f, S, seq, places)
  BY AtTurns, Zenon
<1>4. /\ f \in [0..N -> Seq(S)] /\ f[0] = <<>> /\ f[N] = At(seq, places)
      /\ \A n \in 1..N : f[n] = IF n \in places THEN Append(f[n - 1], seq[n]) ELSE f[n - 1]
  BY <1>3 DEF Collects
<1>. DEFINE T == {n \in 0..N : Len(f[n]) = upto(n) /\ \A k \in 1..upto(n) : f[n][k] = seq[lo + k]}
<1>5. 0 \in T
  BY <1>2, <1>4
<1>6. ASSUME NEW n \in Nat, n < N, n \in T
      PROVE  n + 1 \in T
  <2>1. n + 1 \in 1..N /\ n + 1 \in 0..N /\ (n + 1) - 1 = n /\ n \in 0..N
    BY <1>2, <1>6
  <2>2. f[n] \in Seq(S) /\ seq[n + 1] \in S
    BY <1>4, <2>1
  <2>3. Len(f[n]) = upto(n) /\ \A k \in 1..upto(n) : f[n][k] = seq[lo + k]
    BY <1>6
  <2>4. f[n + 1] = IF n + 1 \in places THEN Append(f[n], seq[n + 1]) ELSE f[n]
    BY <1>4, <2>1
  <2>5. CASE n + 1 \in places
    <3>1. lo < n + 1 /\ n + 1 <= hi
      BY <1>1, <2>1, <2>5
    <3>2. upto(n) = n - lo /\ upto(n + 1) = n - lo + 1 /\ n - lo \in Nat
      BY <1>2, <3>1
    <3>3. f[n + 1] = Append(f[n], seq[n + 1])
      BY <2>4, <2>5
    <3>. HIDE DEF upto
    <3>4. /\ Len(f[n + 1]) = n - lo + 1 /\ f[n + 1][n - lo + 1] = seq[n + 1]
          /\ \A k \in 1..(n - lo) : f[n + 1][k] = f[n][k]
      <4>1. Len(f[n]) = n - lo
        BY <2>3, <3>2
      <4>2. /\ Len(f[n + 1]) = Len(f[n]) + 1 /\ f[n + 1][Len(f[n]) + 1] = seq[n + 1]
            /\ \A k \in 1..Len(f[n]) : f[n + 1][k] = f[n][k]
        BY <2>2, <3>3, AppendProperties
      <4>. QED
        BY <4>1, <4>2, Zenon
    <3>5. ASSUME NEW k \in 1..(n - lo + 1)
          PROVE  f[n + 1][k] = seq[lo + k]
      <4>1. CASE k = n - lo + 1
        <5>1. lo + k = n + 1
          BY <1>2, <4>1
        <5>. QED
          BY <3>4, <4>1, <5>1
      <4>2. CASE k # n - lo + 1
        <5>1. k \in 1..(n - lo)
          BY <1>2, <3>2, <4>2
        <5>. QED
          BY <2>3, <3>2, <3>4, <5>1
      <4>. QED
        BY <4>1, <4>2
    <3>. QED
      BY <2>1, <3>2, <3>4, <3>5
  <2>6. CASE n + 1 \notin places
    <3>1. ~(lo < n + 1 /\ n + 1 <= hi)
      BY <1>1, <2>1, <2>6
    <3>2. upto(n + 1) = upto(n)
      BY <1>2, <3>1
    <3>3. f[n + 1] = f[n]
      BY <2>4, <2>6
    <3>. HIDE DEF upto
    <3>. QED
      BY <2>1, <2>3, <3>2, <3>3
  <2>. QED
    BY <2>5, <2>6
<1>7. \A n \in 0..N : n \in T
  <2>. HIDE DEF T
  <2>. QED
    BY <1>2, <1>5, <1>6, NumberByNumber
<1>8. N \in T /\ upto(N) = hi - lo
  BY <1>2, <1>7
<1>. QED
  BY <1>2, <1>4, <1>8 DEF Stretch

\* It takes the members at the places, and no others.
Picks(r, S, seq, places) ==
  /\ r \in Seq(S)
  /\ \A k \in DOMAIN r : \E i \in DOMAIN seq : i \in places /\ r[k] = seq[i]
  /\ \A i \in DOMAIN seq : i \in places => \E k \in DOMAIN r : r[k] = seq[i]

LEMMA AtMembers ==
  ASSUME NEW S, NEW seq \in Seq(S), NEW places
  PROVE  Picks(At(seq, places), S, seq, places)
<1>. DEFINE N == Len(seq)
<1>1. N \in Nat /\ DOMAIN seq = 1..N
  OBVIOUS
<1>2. PICK f : Collects(f, S, seq, places)
  BY AtTurns, Zenon
<1>3. /\ f \in [0..N -> Seq(S)] /\ f[0] = <<>> /\ f[N] = At(seq, places)
      /\ \A n \in 1..N : f[n] = IF n \in places THEN Append(f[n - 1], seq[n]) ELSE f[n - 1]
  BY <1>2 DEF Collects
<1>. DEFINE T == {n \in 0..N :
                    /\ \A k \in 1..Len(f[n]) : \E i \in 1..n : i \in places /\ f[n][k] = seq[i]
                    /\ \A i \in 1..n : i \in places => \E k \in 1..Len(f[n]) : f[n][k] = seq[i]}
<1>4. 0 \in T
  BY <1>1, <1>3
<1>5. ASSUME NEW n \in Nat, n < N, n \in T
      PROVE  n + 1 \in T
  <2>1. n + 1 \in 1..N /\ n + 1 \in 0..N /\ (n + 1) - 1 = n /\ n \in 0..N
    BY <1>1, <1>5
  <2>2. f[n] \in Seq(S) /\ seq[n + 1] \in S /\ Len(f[n]) \in Nat
    BY <1>3, <2>1
  <2>3. /\ \A k \in 1..Len(f[n]) : \E i \in 1..n : i \in places /\ f[n][k] = seq[i]
        /\ \A i \in 1..n : i \in places => \E k \in 1..Len(f[n]) : f[n][k] = seq[i]
    BY <1>5
  <2>4. f[n + 1] = IF n + 1 \in places THEN Append(f[n], seq[n + 1]) ELSE f[n]
    BY <1>3, <2>1
  <2>5. \A i : i \in 1..(n + 1) <=> (i \in 1..n \/ i = n + 1)
    BY <1>5
  <2>6. CASE n + 1 \in places
    <3>1. f[n + 1] = Append(f[n], seq[n + 1])
      BY <2>4, <2>6
    <3>2. /\ Len(f[n + 1]) = Len(f[n]) + 1 /\ f[n + 1][Len(f[n]) + 1] = seq[n + 1]
          /\ \A k \in 1..Len(f[n]) : f[n + 1][k] = f[n][k]
      BY <2>2, <3>1, AppendProperties
    <3>3. \A k : k \in 1..Len(f[n + 1]) <=> (k \in 1..Len(f[n]) \/ k = Len(f[n]) + 1)
      BY <2>2, <3>2
    <3>4. \A k \in 1..Len(f[n + 1]) : \E i \in 1..(n + 1) : i \in places /\ f[n + 1][k] = seq[i]
      <4>. SUFFICES ASSUME NEW k \in 1..Len(f[n + 1])
                    PROVE  \E i \in 1..(n + 1) : i \in places /\ f[n + 1][k] = seq[i]
        OBVIOUS
      <4>1. CASE k \in 1..Len(f[n])
        <5>1. PICK i \in 1..n : i \in places /\ f[n][k] = seq[i]
          BY <2>3, <4>1
        <5>2. i \in 1..(n + 1) /\ f[n + 1][k] = seq[i]
          BY <2>5, <3>2, <4>1, <5>1
        <5>. QED
          BY <5>1, <5>2
      <4>2. CASE k = Len(f[n]) + 1
        <5>1. n + 1 \in 1..(n + 1) /\ f[n + 1][k] = seq[n + 1]
          BY <2>5, <3>2, <4>2
        <5>. QED
          BY <2>6, <5>1
      <4>. QED
        BY <3>3, <4>1, <4>2
    <3>5. \A i \in 1..(n + 1) :
            i \in places => \E k \in 1..Len(f[n + 1]) : f[n + 1][k] = seq[i]
      BY <2>3, <2>5, <3>2, <3>3, Zenon
    <3>. QED
      BY <2>1, <3>4, <3>5
  <2>7. CASE n + 1 \notin places
    <3>1. f[n + 1] = f[n]
      BY <2>4, <2>7
    <3>2. /\ \A k \in 1..Len(f[n]) : \E i \in 1..(n + 1) : i \in places /\ f[n][k] = seq[i]
          /\ \A i \in 1..(n + 1) : i \in places => \E k \in 1..Len(f[n]) : f[n][k] = seq[i]
      BY <2>3, <2>5, <2>7, Zenon
    <3>. QED
      BY <2>1, <3>1, <3>2
  <2>. QED
    BY <2>6, <2>7
<1>6. \A n \in 0..N : n \in T
  <2>. HIDE DEF T
  <2>. QED
    BY <1>1, <1>4, <1>5, NumberByNumber
<1>7. N \in T
  <2>. HIDE DEF T, N
  <2>. QED
    BY <1>1, <1>6
<1>8. f[N] \in Seq(S) /\ DOMAIN f[N] = 1..Len(f[N])
  BY <1>1, <1>3
<1>. QED
  BY <1>1, <1>3, <1>7, <1>8 DEF Picks

\* Each member is at some places or at the others.
LEMMA AtBoth ==
  ASSUME NEW S, NEW seq \in Seq(S), NEW these, NEW those,
         \A n \in 1..Len(seq) : n \in these <=> n \notin those
  PROVE  Len(At(seq, these)) + Len(At(seq, those)) = Len(seq)
<1>. DEFINE N == Len(seq)
<1>1. N \in Nat
  OBVIOUS
<1>2. PICK f : Collects(f, S, seq, these)
  BY AtTurns, Zenon
<1>3. /\ f \in [0..N -> Seq(S)] /\ f[0] = <<>> /\ f[N] = At(seq, these)
      /\ \A n \in 1..N : f[n] = IF n \in these THEN Append(f[n - 1], seq[n]) ELSE f[n - 1]
  BY <1>2 DEF Collects
<1>4. PICK g : Collects(g, S, seq, those)
  BY AtTurns, Zenon
<1>5. /\ g \in [0..N -> Seq(S)] /\ g[0] = <<>> /\ g[N] = At(seq, those)
      /\ \A n \in 1..N : g[n] = IF n \in those THEN Append(g[n - 1], seq[n]) ELSE g[n - 1]
  BY <1>4 DEF Collects
<1>. DEFINE T == {n \in 0..N : Len(f[n]) + Len(g[n]) = n}
<1>6. 0 \in T
  BY <1>1, <1>3, <1>5
<1>7. ASSUME NEW n \in Nat, n < N, n \in T
      PROVE  n + 1 \in T
  <2>1. n + 1 \in 1..N /\ n + 1 \in 0..N /\ (n + 1) - 1 = n /\ n \in 0..N
    BY <1>1, <1>7
  <2>2. f[n] \in Seq(S) /\ g[n] \in Seq(S) /\ seq[n + 1] \in S
    BY <1>3, <1>5, <2>1
  <2>3. Len(Append(f[n], seq[n + 1])) = Len(f[n]) + 1 /\ Len(f[n]) \in Nat
    BY <2>2, AppendProperties
  <2>4. Len(Append(g[n], seq[n + 1])) = Len(g[n]) + 1 /\ Len(g[n]) \in Nat
    BY <2>2, AppendProperties
  <2>5. /\ f[n + 1] = IF n + 1 \in these THEN Append(f[n], seq[n + 1]) ELSE f[n]
        /\ g[n + 1] = IF n + 1 \in those THEN Append(g[n], seq[n + 1]) ELSE g[n]
    BY <1>3, <1>5, <2>1
  <2>6. Len(f[n + 1]) + Len(g[n + 1]) = n + 1
    <3>1. n + 1 \in these <=> n + 1 \notin those
      BY <2>1
    <3>2. Len(f[n]) + Len(g[n]) = n
      BY <1>7
    <3>3. CASE n + 1 \in these
      <4>1. Len(f[n + 1]) = Len(f[n]) + 1 /\ Len(g[n + 1]) = Len(g[n])
        BY <2>3, <2>5, <3>1, <3>3
      <4>. DEFINE a == Len(f[n])
                  b == Len(g[n])
                  c == Len(f[n + 1])
                  d == Len(g[n + 1])
      <4>2. a \in Nat /\ b \in Nat /\ a + b = n
        BY <2>3, <2>4, <3>2
      <4>3. c = a + 1 /\ d = b
        BY <4>1
      <4>. HIDE DEF a, b, c, d
      <4>4. c + d = n + 1
        BY <4>2, <4>3
      <4>. QED
        BY <4>4 DEF c, d
    <3>4. CASE n + 1 \in those
      <4>1. Len(f[n + 1]) = Len(f[n]) /\ Len(g[n + 1]) = Len(g[n]) + 1
        BY <2>4, <2>5, <3>1, <3>4
      <4>. DEFINE a == Len(f[n])
                  b == Len(g[n])
                  c == Len(f[n + 1])
                  d == Len(g[n + 1])
      <4>2. a \in Nat /\ b \in Nat /\ a + b = n
        BY <2>3, <2>4, <3>2
      <4>3. c = a /\ d = b + 1
        BY <4>1
      <4>. HIDE DEF a, b, c, d
      <4>4. c + d = n + 1
        BY <4>2, <4>3
      <4>. QED
        BY <4>4 DEF c, d
    <3>. QED
      BY <3>1, <3>3, <3>4
  <2>. QED
    BY <2>1, <2>6
<1>8. \A n \in 0..N : n \in T
  <2>. HIDE DEF T
  <2>. QED
    BY <1>1, <1>6, <1>7, NumberByNumber
<1>9. N \in 0..N
  BY <1>1
<1>10. N \in T
  BY <1>8, <1>9, Zenon
<1>. QED
  BY <1>3, <1>5, <1>10

\* The recursion of FlattenSeq.
Joins(f, S, seqs) ==
  /\ f \in [0..Len(seqs) -> Seq(S)]
  /\ f[0] = <<>> /\ f[Len(seqs)] = FlattenSeq(seqs)
  /\ \A n \in 1..Len(seqs) : f[n] = f[n - 1] \o seqs[n]

LEMMA FlattenTurns ==
  ASSUME NEW S, NEW seqs \in Seq(Seq(S))
  PROVE  \E f : Joins(f, S, seqs)
<1>. DEFINE N == Len(seqs)
            step == [n \in 1..N |-> [v \in Seq(S) |-> v \o seqs[n]]]
            Solves(h) == h = [i \in 1..N |-> IF i = 1 THEN seqs[i] ELSE h[i - 1] \o seqs[i]]
            h == CHOOSE h : Solves(h)
<1>1. N \in Nat /\ <<>> \in Seq(S) /\ \A n \in 1..N : seqs[n] \in Seq(S)
  BY EmptySeq, ElementOfSeq
<1>2. FlattenSeq(seqs) = IF N = 0 THEN seqs ELSE h[N]
  BY DEF FlattenSeq
<1>3. N = 0 => seqs = <<>>
  BY EmptySeq
<1>4. \A n \in 1..N : \A v \in Seq(S) : v \o seqs[n] \in Seq(S)
  BY <1>1, ConcatProperties
<1>. HIDE DEF N
<1>5. step \in [1..N -> [Seq(S) -> Seq(S)]]
  BY <1>4
<1>6. \A n \in 1..N : \A v \in Seq(S) : step[n][v] = v \o seqs[n]
  OBVIOUS
<1>. HIDE DEF step
<1>7. PICK g : Walks(g, N, Seq(S), <<>>, step)
  BY <1>1, <1>5, StepsCanBeTaken, Zenon
<1>8. \A n \in 1..N : n - 1 \in 0..N /\ n \in 0..N /\ (n # 1 => n - 1 \in 1..N)
  BY <1>1
<1>9. g \in [0..N -> Seq(S)] /\ g[0] = <<>> /\ \A n \in 1..N : g[n] = g[n - 1] \o seqs[n]
  BY <1>6, <1>7, <1>8 DEF Walks
<1>10. \A n \in 1..N : g[n] = IF n = 1 THEN seqs[n] ELSE g[n - 1] \o seqs[n]
  <2>. SUFFICES ASSUME NEW n \in 1..N
                PROVE  g[n] = IF n = 1 THEN seqs[n] ELSE g[n - 1] \o seqs[n]
    OBVIOUS
  <2>1. CASE n = 1
    <3>1. n - 1 = 0 /\ seqs[n] \in Seq(S)
      BY <1>1, <2>1
    <3>2. <<>> \o seqs[n] = seqs[n]
      BY <3>1, ConcatEmptySeq
    <3>. QED
      BY <1>9, <2>1, <3>1, <3>2
  <2>2. CASE n # 1
    BY <1>9, <2>2
  <2>. QED
    BY <2>1, <2>2
<1>11. Solves([i \in 1..N |-> g[i]])
  BY <1>8, <1>10
<1>12. Solves(h)
  BY <1>11
<1>. HIDE DEF h
<1>13. \A i \in 1..N : h[i] = IF i = 1 THEN seqs[i] ELSE h[i - 1] \o seqs[i]
  BY <1>12
<1>. HIDE DEF Solves
<1>14. \A n \in 0..N : n # 0 => h[n] = g[n]
  <2>. DEFINE T == {n \in 0..N : n # 0 => h[n] = g[n]}
  <2>1. 0 \in T
    BY <1>1
  <2>2. ASSUME NEW n \in Nat, n < N, n \in T
        PROVE  n + 1 \in T
    <3>1. n + 1 \in 1..N /\ n + 1 \in 0..N /\ (n + 1) - 1 = n /\ (n + 1 = 1 <=> n = 0)
      BY <1>1, <2>2
    <3>2. h[n + 1] = IF n + 1 = 1 THEN seqs[n + 1] ELSE h[n] \o seqs[n + 1]
      BY <1>13, <3>1
    <3>3. g[n + 1] = IF n + 1 = 1 THEN seqs[n + 1] ELSE g[n] \o seqs[n + 1]
      BY <1>10, <3>1
    <3>4. n # 0 => h[n] = g[n]
      BY <2>2
    <3>5. h[n + 1] = g[n + 1]
      BY <3>1, <3>2, <3>3, <3>4, Zenon
    <3>. QED
      BY <3>1, <3>5
  <2>3. \A n \in 0..N : n \in T
    <3>. HIDE DEF T
    <3>. QED
      BY <1>1, <2>1, <2>2, NumberByNumber
  <2>. QED
    BY <2>3
<1>15. g[N] = FlattenSeq(seqs)
  <2>1. N \in 0..N
    BY <1>1
  <2>2. CASE N = 0
    BY <1>2, <1>3, <1>9, <2>2
  <2>3. CASE N # 0
    BY <1>2, <1>14, <2>1, <2>3
  <2>. QED
    BY <2>2, <2>3
<1>. QED
  BY <1>9, <1>15 DEF N, Joins

-----------------------------------------------------------------------------
(* TokenSaver: sizes *)

LEMMA SumIsAtLeast ==
  ASSUME NEW D, IsFiniteSet(D), NEW f \in [D -> Nat]
  PROVE  SumFunction(f) \in Nat /\ \A x \in D : f[x] <= SumFunction(f)
<1>. DEFINE bad == {t \in SUBSET D : SumsOf(f)[t] \notin Nat}
<1>1. f \in [D -> Int] /\ DOMAIN f = D
  OBVIOUS
<1>2. bad = {}
  <2>1. SUFFICES ASSUME bad # {} PROVE FALSE
    OBVIOUS
  <2>2. PICK t \in bad : \A x \in t : t \ {x} \notin bad
    BY <2>1, SmallestSet
  <2>3. CASE t = {}
    <3>1. SumsOf(f)[t] = 0
      BY <1>1, <2>3, SumTurn
    <3>. QED
      BY <3>1
  <2>4. CASE t # {}
    <3>1. PICK x : x \in t
      BY <2>4
    <3>2. SumsOf(f)[t] = f[x] + SumsOf(f)[t \ {x}]
      BY <1>1, <3>1, SumTakesAny
    <3>3. SumsOf(f)[t \ {x}] \in Nat /\ f[x] \in Nat
      BY <2>2, <3>1
    <3>. QED
      BY <3>2, <3>3
  <2>. QED
    BY <2>3, <2>4
<1>3. \A t \in SUBSET D : SumsOf(f)[t] \in Nat
  BY <1>2
<1>. HIDE DEF bad
<1>4. SumFunction(f) = SumsOf(f)[D]
  BY <1>1, SumIsOfAll
<1>5. ASSUME NEW x \in D
      PROVE  f[x] <= SumsOf(f)[D]
  <2>1. SumsOf(f)[D] = f[x] + SumsOf(f)[D \ {x}]
    BY <1>1, SumTakesAny
  <2>2. SumsOf(f)[D \ {x}] \in Nat /\ f[x] \in Nat
    BY <1>3
  <2>. QED
    BY <2>1, <2>2
<1>. QED
  BY <1>3, <1>4, <1>5

LEMMA LineHasLength ==
  ASSUME NEW l \in Line
  PROVE  LineLength(l) \in Nat /\ (LineLength(l) = 0 => l.text = "blank")
<1>1. l.text \in DOMAIN TextLength
  BY DEF Line
<1>2. TextLength[l.text] \in Nat /\ (l.text # "blank" => TextLength[l.text] > 0)
  BY <1>1, TextsHaveLength
<1>. QED
  BY <1>2, LengthsAreNumbers DEF LineLength

LEMMA ContentHasLength ==
  ASSUME NEW c \in Seq(Line)
  PROVE  /\ ContentLength(c) \in Nat
         /\ ~(ContentLength(c) > 0) => \A i \in DOMAIN c : c[i].text = "blank"
<1>. DEFINE f == [i \in DOMAIN c |-> LineLength(c[i])]
<1>1. Len(c) \in Nat /\ DOMAIN c = 1..Len(c) /\ \A i \in DOMAIN c : c[i] \in Line
  BY ElementOfSeq
<1>2. f \in [DOMAIN c -> Nat]
  BY <1>1, LineHasLength
<1>3. IsFiniteSet(DOMAIN c)
  BY <1>1, FS_Interval
<1>4. \A i \in DOMAIN c : f[i] = LineLength(c[i])
  OBVIOUS
<1>5. ContentLength(c) = IF c = <<>> THEN 0 ELSE SumFunction(f) + Len(c) - 1
  BY DEF ContentLength
<1>. HIDE DEF f
<1>6. SumFunction(f) \in Nat /\ \A i \in DOMAIN c : f[i] <= SumFunction(f)
  BY <1>2, <1>3, SumIsAtLeast
<1>7. c # <<>> => Len(c) > 0
  BY <1>1, EmptySeq
<1>8. ContentLength(c) \in Nat
  BY <1>1, <1>5, <1>6, <1>7
<1>9. ASSUME ~(ContentLength(c) > 0), NEW i \in DOMAIN c
      PROVE  c[i].text = "blank"
  <2>1. c # <<>>
    BY <1>1
  <2>2. SumFunction(f) = 0
    BY <1>1, <1>5, <1>6, <1>7, <1>9, <2>1
  <2>3. LineLength(c[i]) = 0
    BY <1>1, <1>2, <1>4, <1>6, <2>2
  <2>. QED
    BY <1>1, <2>3, LineHasLength
<1>. QED
  BY <1>8, <1>9

LEMMA TokensAreNumbers ==
  ASSUME NEW m \in Message
  PROVE  TokensOf(m) \in Nat
<1>1. m.content \in Seq(Line)
  BY DEF Message
<1>2. ContentLength(m.content) \in Nat
  BY <1>1, ContentHasLength
<1>. QED
  BY <1>2 DEF TokensOf, Estimate

LEMMA TokensAreCounted ==
  ASSUME NEW ms \in Seq(Message)
  PROVE  TokensIn(ms) \in Nat
<1>. DEFINE f == [i \in DOMAIN ms |-> TokensOf(ms[i])]
<1>1. DOMAIN ms = 1..Len(ms) /\ Len(ms) \in Nat /\ IsFiniteSet(DOMAIN ms)
  BY FS_Interval
<1>2. f \in [DOMAIN ms -> Nat]
  BY <1>1, TokensAreNumbers, ElementOfSeq
<1>3. TokensIn(ms) = SumFunction(f)
  BY DEF TokensIn
<1>. HIDE DEF f
<1>. QED
  BY <1>1, <1>2, <1>3, SumIsAtLeast

LEMMA NoTokens == TokensIn(<<>>) = 0
<1>. DEFINE e == [i \in DOMAIN <<>> |-> TokensOf(<<>>[i])]
<1>1. DOMAIN e = {} /\ IsFiniteSet({})
  BY FS_EmptySet
<1>2. TokensIn(<<>>) = SumFunction(e)
  BY DEF TokensIn
<1>. HIDE DEF e
<1>. QED
  BY <1>1, <1>2, SumIsOfAll, SumTurn

\* One place more, which holds d.
GrowsBy(f, g, D, x, d) ==
  /\ IsFiniteSet(D) /\ x \notin D /\ d \in Int
  /\ f \in [D -> Int] /\ g \in [D \cup {x} -> Int]
  /\ \A y \in D : g[y] = f[y]
  /\ g[x] = d

LEMMA SumOfOneMore ==
  ASSUME NEW f, NEW g, NEW D, NEW x, NEW d, GrowsBy(f, g, D, x, d)
  PROVE  SumFunction(g) = SumFunction(f) + d
<1>. DEFINE E == D \cup {x}
<1>1. /\ IsFiniteSet(D) /\ IsFiniteSet(E) /\ d \in Int /\ f \in [D -> Int] /\ g \in [E -> Int]
      /\ DOMAIN f = D /\ DOMAIN g = E /\ x \in E /\ E \ {x} = D /\ D \in SUBSET E /\ g[x] = d
      /\ E \in SUBSET E /\ D \in SUBSET D /\ D \cap D = D
  BY FS_AddElement DEF GrowsBy
<1>2. \A y \in D : IF y \in D THEN g[y] = f[y] ELSE g[y] = 0
  BY DEF GrowsBy
<1>. HIDE DEF E
<1>3. SumFunction(g) = SumsOf(g)[E] /\ SumFunction(f) = SumsOf(f)[D]
  BY <1>1, SumIsOfAll
<1>4. SumsOf(g)[E] = g[x] + SumsOf(g)[E \ {x}]
  BY <1>1, SumTakesAny
<1>5. SumsOf(g)[D] = SumsOf(f)[D \cap D]
  BY <1>1, <1>2, SumOfBoth
<1>6. SumsOf(f)[D] \in Int
  BY <1>1, SumIsNumber
<1>7. SumsOf(g)[E] = d + SumsOf(f)[D]
  BY <1>1, <1>4, <1>5, Zenon
<1>8. d + SumsOf(f)[D] = SumsOf(f)[D] + d
  <2>1. d \in Int
    BY <1>1
  <2>. QED
    BY <1>6, <2>1
<1>. QED
  BY <1>3, <1>7, <1>8, Zenon

\* The tokens of one message more.
LEMMA TokensInMore ==
  ASSUME NEW ms \in Seq(Message), NEW m \in Message
  PROVE  TokensIn(Append(ms, m)) = TokensIn(ms) + TokensOf(m)
<1>. DEFINE n == Len(ms)
            D == 1..n
            x == n + 1
            more == Append(ms, m)
            f == [i \in DOMAIN ms |-> TokensOf(ms[i])]
            g == [i \in DOMAIN more |-> TokensOf(more[i])]
<1>1. n \in Nat /\ DOMAIN ms = D /\ IsFiniteSet(D)
  BY FS_Interval
<1>2. /\ more \in Seq(Message) /\ DOMAIN more = 1..(n + 1)
      /\ more[n + 1] = m /\ \A i \in 1..n : more[i] = ms[i]
  BY AppendProperties
<1>3. DOMAIN more = D \cup {x} /\ x \notin D
  BY <1>1, <1>2
<1>4. f \in [D -> Int]
  BY <1>1, TokensAreNumbers, ElementOfSeq
<1>5. g \in [D \cup {x} -> Int]
  <2>1. \A i \in DOMAIN more : g[i] \in Int
    BY <1>2, TokensAreNumbers, ElementOfSeq
  <2>. QED
    BY <1>3, <2>1
<1>6. \A i \in D : g[i] = f[i]
  BY <1>1, <1>2, <1>3
<1>7. g[x] = TokensOf(m) /\ TokensOf(m) \in Int
  BY <1>1, <1>2, TokensAreNumbers
<1>8. TokensIn(ms) = SumFunction(f) /\ TokensIn(more) = SumFunction(g)
  BY DEF TokensIn
<1>. HIDE DEF n, D, x, more, f, g
<1>9. GrowsBy(f, g, D, x, TokensOf(m))
  BY <1>1, <1>3, <1>4, <1>5, <1>6, <1>7 DEF GrowsBy
<1>10. SumFunction(g) = SumFunction(f) + TokensOf(m)
  BY <1>9, SumOfOneMore, Zenon
<1>. QED
  BY <1>8, <1>10 DEF more

LEMMA TokensInBoth ==
  ASSUME NEW a \in Seq(Message), NEW b \in Seq(Message)
  PROVE  TokensIn(a \o b) = TokensIn(a) + TokensIn(b)
<1>. DEFINE N == Len(b)
            T == {n \in 0..N : TokensIn(a \o SubSeq(b, 1, n)) = TokensIn(a) + TokensIn(SubSeq(b, 1, n))}
<1>1. N \in Nat /\ \A i \in 1..N : b[i] \in Message
  BY ElementOfSeq
<1>2. 0 \in T
  <2>1. SubSeq(b, 1, 0) = <<>> /\ a \o <<>> = a
    BY SubSeqEmpty, ConcatEmptySeq
  <2>2. TokensIn(a) \in Nat /\ TokensIn(<<>>) = 0
    BY TokensAreCounted, NoTokens
  <2>3. TokensIn(a \o SubSeq(b, 1, 0)) = TokensIn(a) /\ TokensIn(SubSeq(b, 1, 0)) = 0
    BY <2>1, <2>2, Zenon
  <2>4. 0 \in 0..N
    BY <1>1
  <2>5. TokensIn(a) + 0 = TokensIn(a)
    BY <2>2
  <2>. QED
    BY <2>3, <2>4, <2>5, Zenon
<1>3. ASSUME NEW n \in Nat, n < N, n \in T
      PROVE  n + 1 \in T
  <2>. DEFINE p == SubSeq(b, 1, n)
              m == b[n + 1]
  <2>1. n + 1 \in 0..N /\ m \in Message /\ p \in Seq(Message) /\ a \o p \in Seq(Message)
    <3>1. n + 1 \in 0..N /\ n + 1 \in 1..N /\ \A i \in 1..n : i \in 1..N
      BY <1>1, <1>3
    <3>2. p \in Seq(Message)
      BY <1>1, <3>1, SubSeqProperties
    <3>. QED
      BY <1>1, <3>1, <3>2, ConcatProperties
  <2>2. SubSeq(b, 1, n + 1) = Append(p, m)
    <3>1. 1 \in 1..Len(b) /\ n + 1 \in 1..Len(b) /\ (n + 1) - 1 = n
      BY <1>1, <1>3
    <3>2. SubSeq(b, 1, n + 1) = p \o <<m>>
      BY <3>1, SubSeqRecursiveSecond
    <3>. QED
      BY <2>1, <3>2, AppendIsConcat
  <2>3. TokensIn(a \o p) = TokensIn(a) + TokensIn(p)
    BY <1>3
  <2>. HIDE DEF p, m, N
  <2>4. a \o Append(p, m) = Append(a \o p, m)
    <3>1. <<m>> \in Seq(Message)
      BY <2>1
    <3>. QED
      BY <2>1, <3>1, AppendIsConcat, ConcatAssociative
  <2>5. /\ TokensIn(Append(p, m)) = TokensIn(p) + TokensOf(m)
        /\ TokensIn(Append(a \o p, m)) = TokensIn(a \o p) + TokensOf(m)
    BY <2>1, TokensInMore
  <2>6. TokensIn(a) \in Nat /\ TokensIn(p) \in Nat /\ TokensOf(m) \in Nat
    BY <2>1, TokensAreCounted, TokensAreNumbers
  <2>7. TokensIn(a \o Append(p, m)) = TokensIn(a) + TokensIn(Append(p, m))
    BY <2>3, <2>4, <2>5, <2>6
  <2>. QED
    BY <2>1, <2>2, <2>7
<1>4. \A n \in 0..N : n \in T
  <2>. HIDE DEF T
  <2>. QED
    BY <1>1, <1>2, <1>3, NumberByNumber
<1>5. N \in T
  BY <1>1, <1>4
<1>. QED
  BY <1>5, SubSeqFull

-----------------------------------------------------------------------------
(* TokenSaver: what contents tell *)

Texts == DOMAIN TextLength
Told(c) == FlattenSeq([i \in DOMAIN c |-> Expanded(c[i])])
TextsTo(c, n) == [i \in 1..n |-> c[i].text]

LEMMA LineTells ==
  ASSUME NEW l \in Line
  PROVE  /\ l.text \in Texts /\ l.count \in Nat /\ l.count > 0
         /\ Len(Expanded(l)) = l.count
         /\ \A i \in 1..l.count : Expanded(l)[i] = l.text
         /\ \A T : l.text \in T => Expanded(l) \in Seq(T)
BY DEF Line, Texts, Expanded

\* The recursion of what a content tells.
Tells(f, T, c) ==
  /\ f \in [0..Len(c) -> Seq(T)]
  /\ f[0] = <<>> /\ f[Len(c)] = Told(c)
  /\ \A n \in 1..Len(c) : f[n] = f[n - 1] \o Expanded(c[n])

LEMMA ToldTurns ==
  ASSUME NEW c \in Seq(Line), NEW T, \A i \in 1..Len(c) : c[i].text \in T
  PROVE  \E f : Tells(f, T, c)
<1>. DEFINE seqs == [i \in DOMAIN c |-> Expanded(c[i])]
<1>1. Len(c) \in Nat /\ DOMAIN c = 1..Len(c) /\ \A i \in 1..Len(c) : c[i] \in Line
  BY ElementOfSeq
<1>2. \A i \in 1..Len(c) : seqs[i] = Expanded(c[i]) /\ Expanded(c[i]) \in Seq(T)
  BY <1>1, LineTells
<1>3. seqs \in Seq(Seq(T)) /\ Len(seqs) = Len(c)
  BY <1>1, <1>2
<1>4. Told(c) = FlattenSeq(seqs)
  BY DEF Told
<1>. HIDE DEF seqs
<1>5. PICK f : Joins(f, T, seqs)
  BY <1>3, FlattenTurns, Zenon
<1>6. Tells(f, T, c)
  BY <1>2, <1>3, <1>4, <1>5 DEF Joins, Tells
<1>. QED
  BY <1>6

LEMMA ToldIsText ==
  ASSUME NEW c \in Seq(Line)
  PROVE  Told(c) \in Seq(Texts)
<1>1. Len(c) \in Nat /\ \A i \in 1..Len(c) : c[i].text \in Texts
  BY ElementOfSeq, LineTells
<1>2. PICK f : Tells(f, Texts, c)
  BY <1>1, ToldTurns, Zenon
<1>3. Len(c) \in 0..Len(c)
  BY <1>1
<1>. QED
  BY <1>2, <1>3 DEF Tells

\* Blank lines tell nothing.
LEMMA BlankTellsNothing ==
  ASSUME NEW c \in Seq(Line), \A i \in DOMAIN c : c[i].text = "blank"
  PROVE  \A k \in DOMAIN Told(c) : Told(c)[k] = "blank"
<1>1. Len(c) \in Nat /\ \A i \in 1..Len(c) : c[i].text \in {"blank"}
  OBVIOUS
<1>2. PICK f : Tells(f, {"blank"}, c)
  BY <1>1, ToldTurns, Zenon
<1>3. Len(c) \in 0..Len(c)
  BY <1>1
<1>4. Told(c) \in Seq({"blank"})
  BY <1>2, <1>3 DEF Tells
<1>. QED
  BY <1>4

LEMMA NothingTold == Told(<<>>) = <<>>
<1>. DEFINE seqs == [i \in DOMAIN <<>> |-> Expanded(<<>>[i])]
<1>1. Len(seqs) = 0 /\ seqs = <<>>
  OBVIOUS
<1>2. Told(<<>>) = FlattenSeq(seqs)
  BY DEF Told
<1>. HIDE DEF seqs
<1>. QED
  BY <1>1, <1>2 DEF FlattenSeq

\* One line more.
LEMMA ToldMore ==
  ASSUME NEW c \in Seq(Line), NEW l \in Line
  PROVE  Told(Append(c, l)) = Told(c) \o Expanded(l)
<1>. DEFINE N == Len(c)
            more == Append(c, l)
<1>1. N \in Nat /\ \A i \in 1..N : c[i].text \in Texts
  BY ElementOfSeq, LineTells
<1>2. /\ more \in Seq(Line) /\ Len(more) = N + 1
      /\ more[N + 1] = l /\ \A i \in 1..N : more[i] = c[i]
  BY AppendProperties
<1>3. \A i \in 1..Len(more) : more[i].text \in Texts
  BY <1>2, ElementOfSeq, LineTells
<1>4. PICK f : Tells(f, Texts, c)
  BY <1>1, ToldTurns, Zenon
<1>5. PICK g : Tells(g, Texts, more)
  BY <1>2, <1>3, ToldTurns, Zenon
<1>6. f[0] = <<>> /\ f[N] = Told(c) /\ \A n \in 1..N : f[n] = f[n - 1] \o Expanded(c[n])
  BY <1>4 DEF Tells
<1>7. /\ g[0] = <<>> /\ g[N + 1] = Told(more)
      /\ \A n \in 1..(N + 1) : g[n] = g[n - 1] \o Expanded(more[n])
  BY <1>2, <1>5 DEF Tells
<1>. HIDE DEF N, more
<1>. DEFINE T == {n \in 0..N : f[n] = g[n]}
<1>8. 0 \in T
  BY <1>1, <1>6, <1>7
<1>9. ASSUME NEW n \in Nat, n < N, n \in T
      PROVE  n + 1 \in T
  <2>1. n + 1 \in 1..N /\ n + 1 \in 1..(N + 1) /\ n + 1 \in 0..N /\ (n + 1) - 1 = n
    BY <1>1, <1>9
  <2>2. f[n + 1] = f[n] \o Expanded(c[n + 1]) /\ g[n + 1] = g[n] \o Expanded(more[n + 1])
    BY <1>6, <1>7, <2>1
  <2>3. f[n] = g[n] /\ more[n + 1] = c[n + 1]
    BY <1>2, <1>9, <2>1
  <2>. QED
    BY <2>1, <2>2, <2>3
<1>10. \A n \in 0..N : n \in T
  <2>. HIDE DEF T
  <2>. QED
    BY <1>1, <1>8, <1>9, NumberByNumber
<1>11. N \in 0..N /\ N + 1 \in 1..(N + 1) /\ (N + 1) - 1 = N
  BY <1>1
<1>12. f[N] = g[N]
  BY <1>10, <1>11
<1>13. g[N + 1] = g[N] \o Expanded(more[N + 1])
  BY <1>7, <1>11
<1>. QED
  BY <1>2, <1>6, <1>7, <1>12, <1>13 DEF more

\* A line that stands for the lines after the first n, up to e.
LEMMA TextsMore ==
  ASSUME NEW c \in Seq(Line), NEW n \in 0..Len(c), NEW e \in n..Len(c), NEW l \in Line,
         l.count = e - n, \A k \in (n + 1)..e : c[k].text = l.text
  PROVE  TextsTo(c, n) \o Expanded(l) = TextsTo(c, e)
<1>1. Len(c) \in Nat /\ n \in Nat /\ e \in Nat /\ n <= e /\ e <= Len(c)
  OBVIOUS
<1>2. \A i \in 1..Len(c) : c[i].text \in Texts
  BY ElementOfSeq, LineTells
<1>3. \A k \in 0..Len(c) : TextsTo(c, k) \in Seq(Texts) /\ Len(TextsTo(c, k)) = k
                            /\ \A i \in 1..k : TextsTo(c, k)[i] = c[i].text
  <2>. SUFFICES ASSUME NEW k \in 0..Len(c)
                PROVE  /\ TextsTo(c, k) \in Seq(Texts) /\ Len(TextsTo(c, k)) = k
                       /\ \A i \in 1..k : TextsTo(c, k)[i] = c[i].text
    OBVIOUS
  <2>1. k \in Nat /\ \A i \in 1..k : i \in 1..Len(c)
    BY <1>1
  <2>. QED
    BY <1>2, <2>1 DEF TextsTo
<1>4. /\ Expanded(l) \in Seq(Texts) /\ Len(Expanded(l)) = e - n
      /\ \A i \in 1..(e - n) : Expanded(l)[i] = l.text
  BY LineTells
<1>. DEFINE a == TextsTo(c, n)
            b == Expanded(l)
            r == TextsTo(c, e)
<1>5. /\ a \in Seq(Texts) /\ Len(a) = n /\ \A i \in 1..n : a[i] = c[i].text
      /\ r \in Seq(Texts) /\ Len(r) = e /\ \A i \in 1..e : r[i] = c[i].text
  BY <1>1, <1>3
<1>6. b \in Seq(Texts) /\ Len(b) = e - n /\ \A i \in 1..(e - n) : b[i] = l.text
  BY <1>4
<1>. HIDE DEF a, b, r
<1>7. /\ a \o b \in Seq(Texts) /\ Len(a \o b) = e
      /\ \A i \in 1..e : (a \o b)[i] = IF i <= n THEN a[i] ELSE b[i - n]
  <2>1. Len(a) + Len(b) = e
    BY <1>1, <1>5, <1>6
  <2>2. /\ a \o b \in Seq(Texts) /\ Len(a \o b) = Len(a) + Len(b)
        /\ \A i \in 1..(Len(a) + Len(b)) :
             (a \o b)[i] = IF i <= Len(a) THEN a[i] ELSE b[i - Len(a)]
    BY <1>5, <1>6, ConcatProperties
  <2>3. Len(a) = n
    BY <1>5
  <2>. QED
    BY <2>1, <2>2, <2>3, Zenon
<1>8. ASSUME NEW i \in 1..e
      PROVE  (a \o b)[i] = r[i]
  <2>1. CASE i <= n
    BY <1>1, <1>5, <1>7, <2>1
  <2>2. CASE n < i
    <3>1. i \in (n + 1)..e /\ i - n \in 1..(e - n) /\ ~(i <= n)
      BY <1>1, <2>2
    <3>. QED
      BY <1>5, <1>6, <1>7, <3>1
  <2>. QED
    <3>1. i \in Int /\ n \in Int
      BY <1>1
    <3>2. i <= n \/ n < i
      BY <3>1
    <3>. QED
      BY <2>1, <2>2, <3>2
<1>9. a \o b = r
  BY <1>5, <1>7, <1>8, SeqEqual
<1>. QED
  BY <1>9 DEF a, b, r

\* A content in which nothing is folded.
AsSent(c) == \A k \in DOMAIN c : c[k].count = 1

LEMMA ToldAsSent ==
  ASSUME NEW c \in Seq(Line), AsSent(c)
  PROVE  Told(c) = TextsTo(c, Len(c))
<1>. DEFINE N == Len(c)
<1>1. N \in Nat /\ \A i \in 1..N : c[i] \in Line /\ c[i].text \in Texts /\ c[i].count = 1
  BY ElementOfSeq, LineTells DEF AsSent
<1>2. PICK f : Tells(f, Texts, c)
  BY <1>1, ToldTurns, Zenon
<1>3. f[0] = <<>> /\ f[N] = Told(c) /\ \A n \in 1..N : f[n] = f[n - 1] \o Expanded(c[n])
  BY <1>2 DEF Tells
<1>. DEFINE D == {n \in 0..N : f[n] = TextsTo(c, n)}
<1>4. 0 \in D
  BY <1>1, <1>3 DEF TextsTo
<1>5. ASSUME NEW n \in Nat, n < N, n \in D
      PROVE  n + 1 \in D
  <2>1. /\ n + 1 \in 1..N /\ n + 1 \in 0..N /\ (n + 1) - 1 = n /\ n \in 0..N
        /\ n + 1 \in n..N /\ (n + 1) - n = 1 /\ \A k \in (n + 1)..(n + 1) : k = n + 1
    BY <1>1, <1>5
  <2>2. TextsTo(c, n) \o Expanded(c[n + 1]) = TextsTo(c, n + 1)
    <3>1. /\ c[n + 1] \in Line /\ c[n + 1].count = (n + 1) - n
          /\ \A k \in (n + 1)..(n + 1) : c[k].text = c[n + 1].text
      BY <1>1, <2>1
    <3>. QED
      BY <2>1, <3>1, TextsMore
  <2>. QED
    BY <1>3, <1>5, <2>1, <2>2
<1>6. \A n \in 0..N : n \in D
  <2>. HIDE DEF D
  <2>. QED
    BY <1>1, <1>4, <1>5, NumberByNumber
<1>7. N \in 0..N
  BY <1>1
<1>. QED
  BY <1>3, <1>6, <1>7

\* The lines of a run have the run in common.
LEMMA RunIsShared ==
  ASSUME NEW c \in Seq(Line), NEW i \in 1..Len(c), NEW j \in Run(c, i)
  PROVE  /\ j \in 1..Len(c) /\ c[j] = c[i] /\ i \in Run(c, i)
         /\ Run(c, j) = Run(c, i) /\ Folds(c, j) = Folds(c, i)
<1>1. Len(c) \in Nat /\ DOMAIN c = 1..Len(c)
  OBVIOUS
<1>2. \A n \in 1..Len(c) : \A k \in 1..Len(c) :
        k \in Run(c, n) <=> \A x \in (n..k) \cup (k..n) : c[x] = c[n]
  BY <1>1 DEF Run
<1>3. j \in 1..Len(c) /\ \A x \in (i..j) \cup (j..i) : c[x] = c[i]
  BY <1>1 DEF Run
<1>4. c[j] = c[i]
  BY <1>1, <1>3
<1>5. ASSUME NEW k \in 1..Len(c)
      PROVE  k \in Run(c, j) <=> k \in Run(c, i)
  <2>1. ASSUME \A x \in (j..k) \cup (k..j) : c[x] = c[j], NEW x \in (i..k) \cup (k..i)
        PROVE  c[x] = c[i]
    <3>1. x \in (i..j) \cup (j..i) \/ x \in (j..k) \cup (k..j)
      BY <1>1, <1>3
    <3>. QED
      BY <1>3, <1>4, <2>1, <3>1
  <2>2. ASSUME \A x \in (i..k) \cup (k..i) : c[x] = c[i], NEW x \in (j..k) \cup (k..j)
        PROVE  c[x] = c[j]
    <3>1. x \in (i..j) \cup (j..i) \/ x \in (i..k) \cup (k..i)
      BY <1>1, <1>3
    <3>. QED
      BY <1>3, <1>4, <2>2, <3>1
  <2>. QED
    BY <1>2, <1>3, <2>1, <2>2
<1>6. \A n \in 1..Len(c) : Run(c, n) \subseteq 1..Len(c)
  BY <1>1 DEF Run
<1>7. Run(c, j) = Run(c, i)
  BY <1>3, <1>5, <1>6
<1>8. i \in Run(c, i)
  BY <1>1, <1>2
<1>9. Folds(c, j) = Folds(c, i)
  BY <1>4, <1>7, Zenon DEF Folds
<1>. QED
  BY <1>3, <1>4, <1>7, <1>8, <1>9

\* Where a run ends.
Ends(c, i, e) ==
  /\ e \in i..Len(c) /\ e \in Run(c, i)
  /\ e = Len(c) \/ c[e + 1] # c[i]

LEMMA RunEnds ==
  ASSUME NEW c \in Seq(Line), NEW i \in 1..Len(c)
  PROVE  \E e : Ends(c, i, e)
<1>1. Len(c) \in Nat /\ DOMAIN c = 1..Len(c)
  OBVIOUS
<1>2. i \in Run(c, i) /\ Run(c, i) \in SUBSET (1..Len(c))
  BY <1>1 DEF Run
<1>3. IsFiniteSet(Run(c, i)) /\ Run(c, i) \in SUBSET Int /\ Run(c, i) # {}
  <2>1. IsFiniteSet(1..Len(c))
    BY <1>1, FS_Interval
  <2>. QED
    BY <1>1, <1>2, <2>1, FS_Subset
<1>4. PICK e \in Run(c, i) : \A n \in Run(c, i) : e >= n
  BY <1>3, LargestOfFinite
<1>5. e \in i..Len(c)
  BY <1>1, <1>2, <1>4
<1>6. ASSUME e # Len(c), c[e + 1] = c[i]
      PROVE  FALSE
  <2>1. e + 1 \in 1..Len(c) /\ ~(e >= e + 1)
    <3>1. e # Len(c)
      BY <1>6
    <3>2. e \in Int /\ Len(c) \in Int /\ i \in Int /\ 1 <= i /\ i <= e /\ e <= Len(c)
      BY <1>1, <1>5
    <3>. QED
      BY <3>1, <3>2
  <2>2. \A k \in (i..e) \cup (e..i) : c[k] = c[i]
    BY <1>1, <1>4 DEF Run
  <2>3. \A k \in (i..(e + 1)) \cup ((e + 1)..i) : k \in i..e \/ k = e + 1
    BY <1>1, <1>5
  <2>4. e + 1 \in Run(c, i)
    BY <1>1, <1>6, <2>1, <2>2, <2>3 DEF Run
  <2>. QED
    BY <1>4, <2>1, <2>4
<1>. QED
  BY <1>4, <1>5, <1>6 DEF Ends

\* A run from its first line.
LEMMA RunFromFirst ==
  ASSUME NEW c \in Seq(Line), NEW i \in 1..Len(c), i = 1 \/ c[i - 1] # c[i],
         NEW e, Ends(c, i, e)
  PROVE  Cardinality(Run(c, i)) = e - (i - 1) /\ \A k \in i..e : c[k] = c[i]
<1>1. Len(c) \in Nat /\ DOMAIN c = 1..Len(c) /\ e \in i..Len(c) /\ e \in Int /\ i <= e
  BY DEF Ends
<1>2. \A k \in i..e : c[k] = c[i]
  BY DEF Ends, Run
<1>3. ASSUME NEW j \in i..e
      PROVE  j \in Run(c, i)
  <2>1. j \in 1..Len(c) /\ \A k \in (i..j) \cup (j..i) : k \in i..e
    BY <1>1
  <2>. QED
    BY <1>1, <1>2, <2>1 DEF Run
<1>4. ASSUME NEW j \in Run(c, i), j \notin i..e
      PROVE  FALSE
  <2>1. j \in 1..Len(c) /\ \A k \in (i..j) \cup (j..i) : c[k] = c[i]
    BY <1>1 DEF Run
  <2>2. CASE j < i
    <3>1. i - 1 \in j..i /\ i # 1
      BY <1>1, <2>1, <2>2
    <3>. QED
      BY <2>1, <3>1
  <2>3. CASE j > e
    <3>1. e + 1 \in (i..j) \cup (j..i) /\ e # Len(c)
      <4>1. j \in Int /\ i \in Int /\ Len(c) \in Int /\ j <= Len(c)
        BY <1>1, <2>1
      <4>2. e \in Int /\ i <= e
        BY <1>1
      <4>. QED
        BY <2>3, <4>1, <4>2
    <3>2. c[e + 1] = c[i]
      BY <2>1, <3>1
    <3>. QED
      BY <3>1, <3>2 DEF Ends
  <2>. QED
    BY <1>1, <1>4, <2>1, <2>2, <2>3
<1>5. Run(c, i) = i..e
  BY <1>3, <1>4
<1>6. Cardinality(i..e) = e - i + 1
  BY <1>1, FS_Interval
<1>. QED
  BY <1>1, <1>2, <1>5, <1>6

\* Collapsing lines does not change what they tell.
LEMMA CollapseTells ==
  ASSUME NEW c \in Seq(Line), AsSent(c)
  PROVE  /\ CollapseRepeatedLines(c) \in Seq(Line)
         /\ Told(CollapseRepeatedLines(c)) = Told(c)
<1>. DEFINE N == Len(c)
            Folded(i) == [c[i] EXCEPT !.count = Cardinality(Run(c, i))]
            d == [i \in DOMAIN c |-> IF Folds(c, i) THEN Folded(i) ELSE c[i]]
            Stays(i) == Folds(c, i) => i = 1 \/ c[i - 1] # c[i]
            places == {i \in DOMAIN c : Stays(i)}
            \* Up to which line the first n lines tell.
            Till(n, e) ==
              /\ e \in n..N
              /\ n = 0 => e = 0
              /\ n # 0 => IF Folds(c, n) THEN Ends(c, n, e) ELSE e = n
<1>1. /\ N \in Nat /\ DOMAIN c = 1..N
      /\ \A i \in 1..N : c[i] \in Line /\ c[i].count = 1
  BY ElementOfSeq DEF AsSent
<1>2. ASSUME NEW i \in 1..N
      PROVE  Folded(i) \in Line /\ Folded(i).text = c[i].text
             /\ Folded(i).count = Cardinality(Run(c, i))
  <2>1. IsFiniteSet(Run(c, i)) /\ i \in Run(c, i)
    <3>1. Run(c, i) \in SUBSET (1..N) /\ IsFiniteSet(1..N)
      BY <1>1, FS_Interval DEF Run
    <3>2. i \in Run(c, i)
      BY <1>1 DEF Run
    <3>. QED
      BY <3>1, <3>2, FS_Subset
  <2>2. Cardinality(Run(c, i)) \in Nat \ {0}
    BY <2>1, FS_CardinalityType, FS_EmptySet
  <2>3. c[i] \in Line
    BY <1>1
  <2>. QED
    BY <2>2, <2>3 DEF Line
<1>3. d \in Seq(Line) /\ Len(d) = N /\ \A i \in 1..N : d[i] = IF Folds(c, i) THEN Folded(i) ELSE c[i]
  BY <1>1, <1>2
<1>4. CollapseRepeatedLines(c) = At(d, places)
  BY DEF CollapseRepeatedLines
<1>. HIDE DEF d, N
<1>5. PICK f : Collects(f, Line, d, places)
  BY <1>3, AtTurns, Zenon
<1>6. /\ f \in [0..N -> Seq(Line)] /\ f[0] = <<>> /\ f[N] = At(d, places)
      /\ \A n \in 1..N : f[n] = IF n \in places THEN Append(f[n - 1], d[n]) ELSE f[n - 1]
  BY <1>3, <1>5 DEF Collects
<1>7. \A n \in 1..N : n \in places <=> Stays(n)
  BY <1>1
<1>. HIDE DEF places
<1>. DEFINE T == {n \in 0..N : \E e : Till(n, e) /\ Told(f[n]) = TextsTo(c, e)}
<1>8. 0 \in T
  <2>1. Till(0, 0) /\ TextsTo(c, 0) = <<>>
    BY <1>1 DEF TextsTo
  <2>2. Told(f[0]) = <<>>
    BY <1>6, NothingTold
  <2>. QED
    BY <1>1, <2>1, <2>2
<1>9. ASSUME NEW n \in Nat, n < N, n \in T
      PROVE  n + 1 \in T
  <2>. DEFINE m == n + 1
  <2>1. m \in 1..N /\ m \in 0..N /\ m - 1 = n /\ n \in 0..N /\ n < m /\ (n # 0 => n \in 1..N)
    BY <1>1, <1>9
  <2>2. PICK e : Till(n, e) /\ Told(f[n]) = TextsTo(c, e)
    BY <1>9
  <2>3. f[m] = IF m \in places THEN Append(f[n], d[m]) ELSE f[n]
    BY <1>6, <2>1
  <2>4. f[n] \in Seq(Line) /\ d[m] \in Line
    BY <1>3, <1>6, <2>1, ElementOfSeq
  <2>5. \E x : Till(m, x) /\ Told(f[m]) = TextsTo(c, x)
    \* A line in the middle of a folded run.
    <3>1. CASE m \notin places
      <4>1. Folds(c, m) /\ m # 1 /\ c[n] = c[m]
        BY <1>7, <2>1, <3>1
      <4>2. n \in 1..N /\ n \in Run(c, m)
        BY <1>1, <2>1, <4>1 DEF Run
      <4>3. Folds(c, n) /\ Run(c, n) = Run(c, m)
        BY <2>1, <4>1, <4>2, RunIsShared DEF N
      <4>4. Ends(c, n, e)
        BY <2>1, <2>2, <4>2, <4>3
      <4>5. e # n
        <5>1. n # Len(c) /\ n + 1 = m
          BY <1>1, <1>9 DEF N
        <5>. QED
          BY <4>1, <4>4, <5>1 DEF Ends
      <4>6. e \in m..N
        BY <1>1, <2>1, <4>4, <4>5 DEF Ends, N
      <4>7. Ends(c, m, e)
        BY <4>1, <4>3, <4>4, <4>6 DEF Ends, N
      <4>8. Till(m, e)
        BY <2>1, <4>1, <4>6, <4>7
      <4>. QED
        BY <2>2, <2>3, <3>1, <4>8
    \* The line after what was told.
    <3>2. CASE m \in places
      <4>1. e = n
        <5>1. CASE n = 0
          BY <2>2, <5>1
        <5>2. CASE n # 0 /\ ~Folds(c, n)
          BY <2>2, <5>2
        <5>3. CASE n # 0 /\ Folds(c, n)
          <6>1. Ends(c, n, e) /\ n \in 1..N
            BY <2>1, <2>2, <5>3
          <6>. SUFFICES ASSUME e # n PROVE FALSE
            OBVIOUS
          <6>2. m \in Run(c, n) /\ c[n] = c[m]
            <7>1. e \in 1..N /\ \A k \in (n..e) \cup (e..n) : c[k] = c[n]
              BY <1>1, <6>1 DEF Ends, Run
            <7>2. e \in n..N
              BY <6>1 DEF Ends, N
            <7>3. m \in n..e /\ m \in 1..N /\ \A k \in (n..m) \cup (m..n) : k \in n..e
              BY <1>1, <2>1, <6>1, <7>2
            <7>. QED
              BY <1>1, <7>1, <7>3 DEF Run
          <6>3. Folds(c, m)
            BY <5>3, <6>1, <6>2, RunIsShared DEF N
          <6>. QED
            BY <1>7, <2>1, <3>2, <6>1, <6>2, <6>3
        <5>. QED
          BY <5>1, <5>2, <5>3
      <4>2. Told(f[m]) = TextsTo(c, n) \o Expanded(d[m])
        BY <2>2, <2>3, <2>4, <3>2, <4>1, ToldMore
      <4>3. PICK x \in m..N : /\ IF Folds(c, m) THEN Ends(c, m, x) ELSE x = m
                              /\ d[m].count = x - n
                              /\ \A k \in (n + 1)..x : c[k].text = d[m].text
        <5>1. CASE Folds(c, m)
          <6>1. PICK x : Ends(c, m, x)
            BY <2>1, RunEnds DEF N
          <6>2. m = 1 \/ c[m - 1] # c[m]
            BY <1>7, <2>1, <3>2, <5>1
          <6>3. Cardinality(Run(c, m)) = x - (m - 1) /\ \A k \in m..x : c[k] = c[m]
            BY <2>1, <6>1, <6>2, RunFromFirst DEF N
          <6>4. d[m].count = x - n /\ d[m].text = c[m].text
            BY <1>2, <1>3, <2>1, <5>1, <6>3
          <6>5. x \in m..N
            BY <6>1 DEF Ends, N
          <6>. QED
            BY <5>1, <6>1, <6>3, <6>4, <6>5
        <5>2. CASE ~Folds(c, m)
          <6>1. d[m] = c[m] /\ c[m].count = 1
            BY <1>1, <1>3, <2>1, <5>2
          <6>2. m \in m..N /\ m - n = 1 /\ \A k \in (n + 1)..m : k = m
            BY <1>1, <2>1
          <6>. QED
            BY <5>2, <6>1, <6>2
        <5>. QED
          BY <5>1, <5>2
      <4>4. TextsTo(c, n) \o Expanded(d[m]) = TextsTo(c, x)
        <5>1. n \in 0..Len(c) /\ x \in n..Len(c)
          BY <1>1, <2>1 DEF N
        <5>. QED
          BY <2>4, <4>3, <5>1, TextsMore
      <4>5. Till(m, x)
        BY <2>1, <4>3
      <4>. QED
        BY <4>2, <4>4, <4>5
    <3>. QED
      BY <3>1, <3>2
  <2>. HIDE DEF Till
  <2>. QED
    BY <2>1, <2>5
<1>10. \A n \in 0..N : n \in T
  <2>. HIDE DEF T
  <2>. QED
    BY <1>1, <1>8, <1>9, NumberByNumber
<1>11. PICK e : Till(N, e) /\ Told(f[N]) = TextsTo(c, e)
  <2>1. N \in 0..N
    BY <1>1
  <2>2. N \in T
    BY <1>10, <2>1, Zenon
  <2>. HIDE DEF Till
  <2>. QED
    BY <2>2
<1>12. e = N
  BY <1>1, <1>11
<1>13. f[N] \in Seq(Line)
  BY <1>1, <1>6
<1>. QED
  BY <1>4, <1>6, <1>11, <1>12, <1>13, ToldAsSent DEF N

-----------------------------------------------------------------------------
(* TokenSaver: what messages mean *)

LEMMA MeaningTells ==
  ASSUME NEW m
  PROVE  Meaning(m) = [role |-> m.role, lines |-> Told(m.content)]
BY DEF Meaning, Told

LEMMA SameMeanings ==
  ASSUME NEW a, NEW b,
         \A i \in DOMAIN a : Says(Meaning(a[i])) => \E k \in DOMAIN b : Meaning(b[k]) = Meaning(a[i]),
         \A i \in DOMAIN b : Says(Meaning(b[i])) => \E k \in DOMAIN a : Meaning(a[k]) = Meaning(b[i])
  PROVE  Meanings(a) = Meanings(b)
<1>1. ASSUME NEW x \in Meanings(a)
      PROVE  x \in Meanings(b)
  BY <1>1 DEF Meanings
<1>2. ASSUME NEW x \in Meanings(b)
      PROVE  x \in Meanings(a)
  BY <1>2 DEF Meanings
<1>. QED
  BY <1>1, <1>2

\* Blank lines say nothing.
LEMMA BlankSaysNothing ==
  ASSUME NEW m \in Message, \A i \in DOMAIN m.content : m.content[i].text = "blank"
  PROVE  ~Says(Meaning(m))
<1>1. m.content \in Seq(Line)
  BY DEF Message
<1>2. \A k \in DOMAIN Told(m.content) : Told(m.content)[k] = "blank"
  BY <1>1, BlankTellsNothing
<1>. QED
  BY <1>2, MeaningTells DEF Says

AllAsSent(ms) == \A i \in DOMAIN ms : AsSent(ms[i].content)

Retained(ms, i) ==
  ~IsBlank(ms[i].content) /\ \A j \in 1..(i - 1) : ms[j] # ms[i]

LEMMA DedupKeeps ==
  ASSUME NEW ms \in Seq(Message), AllAsSent(ms),
         NEW r, r = At(ms, {i \in DOMAIN ms : Retained(ms, i)})
  PROVE  r \in Seq(Message) /\ AllAsSent(r) /\ Meanings(r) = Meanings(ms)
<1>. DEFINE places == {i \in DOMAIN ms : Retained(ms, i)}
<1>1. Len(ms) \in Nat /\ DOMAIN ms = 1..Len(ms) /\ \A i \in DOMAIN ms : ms[i] \in Message
  BY ElementOfSeq
<1>2. /\ r \in Seq(Message)
      /\ \A k \in DOMAIN r : \E i \in DOMAIN ms : r[k] = ms[i]
      /\ \A i \in DOMAIN ms : Retained(ms, i) => \E k \in DOMAIN r : r[k] = ms[i]
  <2>1. Picks(At(ms, places), Message, ms, places)
    BY AtMembers, Zenon
  <2>2. \A i \in DOMAIN ms : i \in places <=> Retained(ms, i)
    OBVIOUS
  <2>3. r = At(ms, places)
    OBVIOUS
  <2>. HIDE DEF places
  <2>. QED
    BY <2>1, <2>2, <2>3 DEF Picks
<1>3. AllAsSent(r)
  BY <1>2 DEF AllAsSent
<1>4. ASSUME NEW i \in DOMAIN ms, Says(Meaning(ms[i]))
      PROVE  \E k \in DOMAIN r : Meaning(r[k]) = Meaning(ms[i])
  <2>. DEFINE same == {j \in 1..Len(ms) : ms[j] = ms[i]}
  <2>1. same \in SUBSET Nat /\ i \in same
    BY <1>1
  <2>2. PICK j \in same : \A n \in same : j <= n
    BY <2>1, LeastNumber
  <2>3. j \in DOMAIN ms /\ ms[j] = ms[i]
    BY <1>1, <2>2
  <2>4. \A k \in 1..(j - 1) : ms[k] # ms[j]
    BY <1>1, <2>2, <2>3
  <2>5. ~IsBlank(ms[j].content)
    <3>1. ms[i] \in Message
      BY <1>1
    <3>. QED
      BY <1>4, <2>3, <3>1, BlankSaysNothing DEF IsBlank
  <2>6. Retained(ms, j)
    BY <2>4, <2>5 DEF Retained
  <2>. QED
    BY <1>2, <2>3, <2>6
<1>5. ASSUME NEW k \in DOMAIN r
      PROVE  \E i \in DOMAIN ms : Meaning(ms[i]) = Meaning(r[k])
  BY <1>2
<1>6. Meanings(r) = Meanings(ms)
  BY <1>4, <1>5, SameMeanings
<1>. QED
  BY <1>2, <1>3, <1>6

LEMMA CollapseKeeps ==
  ASSUME NEW ms \in Seq(Message), AllAsSent(ms),
         NEW r, r = [i \in DOMAIN ms |->
                       [ms[i] EXCEPT !.content = CollapseRepeatedLines(ms[i].content)]]
  PROVE  r \in Seq(Message) /\ Meanings(r) = Meanings(ms)
<1>1. Len(ms) \in Nat /\ DOMAIN ms = 1..Len(ms) /\ \A i \in DOMAIN ms : ms[i] \in Message
  BY ElementOfSeq
<1>2. ASSUME NEW i \in DOMAIN ms
      PROVE  r[i] \in Message /\ Meaning(r[i]) = Meaning(ms[i])
  <2>1. ms[i] \in Message /\ ms[i].content \in Seq(Line) /\ AsSent(ms[i].content)
    BY <1>1 DEF Message, AllAsSent
  <2>. DEFINE new == CollapseRepeatedLines(ms[i].content)
  <2>2. new \in Seq(Line) /\ Told(new) = Told(ms[i].content)
    BY <2>1, CollapseTells
  <2>3. r[i] = [ms[i] EXCEPT !.content = new]
    OBVIOUS
  <2>. HIDE DEF new
  <2>4. r[i] \in Message /\ r[i].role = ms[i].role /\ r[i].content = new
    BY <2>1, <2>2, <2>3 DEF Message
  <2>. QED
    BY <2>2, <2>4, MeaningTells
<1>3. DOMAIN r = DOMAIN ms
  OBVIOUS
<1>4. r \in Seq(Message)
  BY <1>1, <1>2
<1>5. Meanings(r) = Meanings(ms)
  BY <1>2, <1>3, SameMeanings
<1>. QED
  BY <1>4, <1>5

LEMMA StripTells ==
  ASSUME NEW m \in Message, NEW n, n = [m EXCEPT !.content = StripAnsiEscapes(m.content)]
  PROVE  n \in Message /\ Meaning(n) = Meaning(m)
<1>. DEFINE c == m.content
            d == StripAnsiEscapes(c)
<1>1. c \in Seq(Line) /\ Len(c) \in Nat /\ DOMAIN c = 1..Len(c) /\ \A i \in DOMAIN c : c[i] \in Line
  BY ElementOfSeq DEF Message
<1>2. ASSUME NEW i \in DOMAIN c
      PROVE  d[i] \in Line /\ d[i].text = c[i].text /\ d[i].count = c[i].count
  BY <1>1 DEF StripAnsiEscapes, Line
<1>3. DOMAIN d = DOMAIN c
  BY DEF StripAnsiEscapes
<1>4. d \in Seq(Line)
  <2>1. d = [i \in 1..Len(c) |-> [c[i] EXCEPT !.escape = FALSE]]
    BY <1>1 DEF StripAnsiEscapes
  <2>2. \A i \in 1..Len(c) : [c[i] EXCEPT !.escape = FALSE] \in Line
    BY <1>1 DEF Line
  <2>. HIDE DEF d
  <2>. QED
    BY <1>1, <2>1, <2>2
<1>5. Told(d) = Told(c)
  <2>. DEFINE s == [i \in DOMAIN c |-> Expanded(c[i])]
              t == [i \in DOMAIN d |-> Expanded(d[i])]
  <2>1. s = t
    BY <1>2, <1>3 DEF Expanded
  <2>2. Told(c) = FlattenSeq(s) /\ Told(d) = FlattenSeq(t)
    BY DEF Told
  <2>. HIDE DEF s, t
  <2>. QED
    BY <2>1, <2>2
<1>. HIDE DEF d
<1>6. n = [m EXCEPT !.content = d] /\ n \in Message /\ n.role = m.role /\ n.content = d
  BY <1>4 DEF d, Message
<1>. QED
  BY <1>5, <1>6, MeaningTells

StrippedOf(m) == [m EXCEPT !.content = StripAnsiEscapes(m.content)]
RemainsOf(m) == StrippedOf(m) = m \/ ContentLength(StrippedOf(m).content) > 0

LEMMA StripKeeps ==
  ASSUME NEW ms \in Seq(Message),
         NEW kept, kept = At(ms, {i \in DOMAIN ms : RemainsOf(ms[i])}),
         NEW r, r = [i \in DOMAIN kept |-> StrippedOf(kept[i])]
  PROVE  r \in Seq(Message) /\ Meanings(r) = Meanings(ms)
<1>. DEFINE places == {i \in DOMAIN ms : RemainsOf(ms[i])}
<1>1. Len(ms) \in Nat /\ DOMAIN ms = 1..Len(ms) /\ \A i \in DOMAIN ms : ms[i] \in Message
  BY ElementOfSeq
<1>2. /\ kept \in Seq(Message)
      /\ \A k \in DOMAIN kept : \E i \in DOMAIN ms : kept[k] = ms[i]
      /\ \A i \in DOMAIN ms : RemainsOf(ms[i]) => \E k \in DOMAIN kept : kept[k] = ms[i]
  <2>1. Picks(At(ms, places), Message, ms, places)
    BY AtMembers, Zenon
  <2>2. \A i \in DOMAIN ms : i \in places <=> RemainsOf(ms[i])
    OBVIOUS
  <2>3. kept = At(ms, places)
    OBVIOUS
  <2>. HIDE DEF places
  <2>. QED
    BY <2>1, <2>2, <2>3 DEF Picks
<1>3. \A m \in Message : StrippedOf(m) \in Message /\ Meaning(StrippedOf(m)) = Meaning(m)
  <2>. SUFFICES ASSUME NEW m \in Message
                PROVE  StrippedOf(m) \in Message /\ Meaning(StrippedOf(m)) = Meaning(m)
    OBVIOUS
  <2>1. StrippedOf(m) = [m EXCEPT !.content = StripAnsiEscapes(m.content)]
    BY DEF StrippedOf
  <2>. QED
    BY <2>1, StripTells
<1>4. /\ Len(kept) \in Nat /\ DOMAIN kept = 1..Len(kept) /\ DOMAIN r = DOMAIN kept
      /\ \A k \in DOMAIN kept : kept[k] \in Message /\ r[k] = StrippedOf(kept[k])
  BY <1>2, ElementOfSeq
<1>5. r \in Seq(Message)
  <2>1. r = [k \in 1..Len(kept) |-> StrippedOf(kept[k])]
    BY <1>4
  <2>2. \A k \in 1..Len(kept) : StrippedOf(kept[k]) \in Message
    BY <1>3, <1>4
  <2>. QED
    BY <1>4, <2>1, <2>2
<1>6. ASSUME NEW i \in DOMAIN ms, Says(Meaning(ms[i]))
      PROVE  \E k \in DOMAIN r : Meaning(r[k]) = Meaning(ms[i])
  <2>. DEFINE m == ms[i]
              n == StrippedOf(m)
  <2>1. m \in Message /\ n \in Message /\ Meaning(n) = Meaning(m)
    BY <1>1, <1>3
  <2>2. n.content \in Seq(Line)
    BY <2>1 DEF Message
  <2>3. ContentLength(n.content) > 0
    <3>. SUFFICES ASSUME ~(ContentLength(n.content) > 0) PROVE FALSE
      OBVIOUS
    <3>1. \A j \in DOMAIN n.content : n.content[j].text = "blank"
      BY <2>2, ContentHasLength
    <3>2. ~Says(Meaning(n))
      BY <2>1, <3>1, BlankSaysNothing
    <3>. QED
      BY <1>6, <2>1, <3>2
  <2>4. RemainsOf(m)
    BY <2>3 DEF RemainsOf
  <2>5. PICK k \in DOMAIN kept : kept[k] = m
    BY <1>2, <2>4
  <2>. QED
    BY <1>4, <2>1, <2>5
<1>7. ASSUME NEW k \in DOMAIN r
      PROVE  \E i \in DOMAIN ms : Meaning(ms[i]) = Meaning(r[k])
  <2>1. PICK i \in DOMAIN ms : kept[k] = ms[i]
    BY <1>2, <1>4
  <2>. QED
    BY <1>3, <1>4, <2>1
<1>8. Meanings(r) = Meanings(ms)
  BY <1>6, <1>7, SameMeanings
<1>. QED
  BY <1>5, <1>8

-----------------------------------------------------------------------------
(* TokenSaver: the budget *)

\* The recursion of NewestThatFit.
FitsNext(v, m, tokens, budget) ==
  tokens + TokensIn(v) + TokensOf(m) <= budget \/ v = <<>>

Keeps(f, S, turns, tokens, budget) ==
  /\ f \in [0..Len(turns) -> Seq(S)]
  /\ f[0] = <<>> /\ f[Len(turns)] = NewestThatFit(turns, tokens, budget)
  /\ \A n \in 1..Len(turns) :
       f[n] = IF FitsNext(f[n - 1], turns[Len(turns) + 1 - n], tokens, budget)
                THEN <<turns[Len(turns) + 1 - n]>> \o f[n - 1] ELSE f[n - 1]

LEMMA NewestTurns ==
  ASSUME NEW S, NEW turns \in Seq(S), NEW tokens, NEW budget
  PROVE  \E f : Keeps(f, S, turns, tokens, budget)
<1>. DEFINE N == Len(turns)
            Turn(v, n) ==
              IF FitsNext(v, turns[N + 1 - n], tokens, budget)
                THEN <<turns[N + 1 - n]>> \o v ELSE v
            Solves(h) == h = [n \in 0..N |-> IF n = 0 THEN <<>> ELSE Turn(h[n - 1], n)]
            step == [n \in 1..N |-> [v \in Seq(S) |-> Turn(v, n)]]
            f == CHOOSE h : Solves(h)
<1>1. N \in Nat /\ <<>> \in Seq(S)
  OBVIOUS
<1>2. \A n \in 1..N : \A v \in Seq(S) : Turn(v, n) \in Seq(S)
  <2>. SUFFICES ASSUME NEW n \in 1..N, NEW v \in Seq(S)
                PROVE  Turn(v, n) \in Seq(S)
    OBVIOUS
  <2>1. N + 1 - n \in 1..N
    BY <1>1
  <2>2. <<turns[N + 1 - n]>> \in Seq(S)
    BY <2>1, ElementOfSeq
  <2>3. <<turns[N + 1 - n]>> \o v \in Seq(S)
    BY <2>2, ConcatProperties
  <2>. QED
    BY <2>3
<1>3. NewestThatFit(turns, tokens, budget) = f[N]
  BY DEF NewestThatFit, FitsNext
<1>. HIDE DEF Turn, N
<1>4. step \in [1..N -> [Seq(S) -> Seq(S)]]
  BY <1>2
<1>5. \A n \in 1..N : \A v \in Seq(S) : step[n][v] = Turn(v, n)
  OBVIOUS
<1>. HIDE DEF step
<1>6. PICK g : Walks(g, N, Seq(S), <<>>, step)
  BY <1>1, <1>4, StepsCanBeTaken, Zenon
<1>7. g \in [0..N -> Seq(S)] /\ g[0] = <<>> /\ \A n \in 1..N : g[n] = step[n][g[n - 1]]
  BY <1>6 DEF Walks
<1>8. \A n \in 0..N : n # 0 => n \in 1..N /\ n - 1 \in 0..N
  BY <1>1
<1>9. \A n \in 0..N : g[n] = IF n = 0 THEN <<>> ELSE Turn(g[n - 1], n)
  BY <1>5, <1>7, <1>8
<1>10. Solves(g)
  BY <1>7, <1>9
<1>11. Solves(f)
  BY <1>10
<1>. HIDE DEF f
<1>12. f = [n \in 0..N |-> IF n = 0 THEN <<>> ELSE Turn(f[n - 1], n)]
  BY <1>11
<1>. HIDE DEF Solves
<1>13. f[0] = <<>> /\ \A n \in 1..N : f[n] = Turn(f[n - 1], n)
  BY <1>1, <1>12
<1>14. \A n \in 0..N : f[n] \in Seq(S)
  <2>. DEFINE T == {n \in Nat : f[n] \in Seq(S)}
  <2>1. 0 \in T
    BY <1>1, <1>13, Zenon
  <2>2. ASSUME NEW n \in Nat, n < N, n \in T
        PROVE  n + 1 \in T
    <3>1. n + 1 \in 1..N /\ (n + 1) - 1 = n /\ f[n] \in Seq(S)
      BY <1>1, <2>2
    <3>2. f[n + 1] = Turn(f[n], n + 1)
      BY <1>13, <3>1
    <3>. QED
      BY <3>1, <3>2, <1>2
  <2>3. \A n \in 0..N : n \in T
    <3>. HIDE DEF T
    <3>. QED
      BY <1>1, <2>1, <2>2, NumberByNumber
  <2>. QED
    BY <2>3
<1>15. f \in [0..N -> Seq(S)]
  BY <1>12, <1>14
<1>. QED
  BY <1>3, <1>13, <1>15 DEF N, Turn, Keeps

\* What is kept of the turns: the last one in any case, and all that is kept fits
\* besides; if as many as there were, then all of them.
LEMMA NewestKept ==
  ASSUME NEW S \in SUBSET Message, NEW turns \in Seq(S), NEW tokens \in Nat, NEW budget \in Nat,
         NEW r, r = NewestThatFit(turns, tokens, budget)
  PROVE  /\ r \in Seq(S)
         /\ turns # <<>> => r # <<>> /\ Last(r) = Last(turns)
         /\ Len(r) > 1 => tokens + TokensIn(r) <= budget
         /\ Len(r) <= Len(turns)
         /\ Len(r) = Len(turns) => r = turns
<1>. DEFINE N == Len(turns)
            Good(n, v) ==
              /\ v \in Seq(S) /\ Len(v) <= n
              /\ n > 0 => Len(v) > 0 /\ v[Len(v)] = turns[N]
              /\ Len(v) > 1 => tokens + TokensIn(v) <= budget
              /\ Len(v) = n => \A k \in 1..n : v[k] = turns[N - n + k]
<1>1. N \in Nat /\ \A i \in 1..N : turns[i] \in S
  BY ElementOfSeq
<1>2. PICK f : Keeps(f, S, turns, tokens, budget)
  BY NewestTurns, Zenon
<1>3. /\ f[0] = <<>> /\ f[N] = r
      /\ \A n \in 1..N :
           f[n] = IF FitsNext(f[n - 1], turns[N + 1 - n], tokens, budget)
                    THEN <<turns[N + 1 - n]>> \o f[n - 1] ELSE f[n - 1]
  BY <1>2 DEF Keeps
<1>. DEFINE T == {n \in 0..N : Good(n, f[n])}
<1>. HIDE DEF N
<1>4. 0 \in T
  <2>1. <<>> \in Seq(S) /\ Len(<<>>) = 0 /\ 0 \in 0..N
    BY <1>1
  <2>2. Good(0, <<>>)
    BY <2>1
  <2>. HIDE DEF Good
  <2>. QED
    BY <1>3, <2>1, <2>2
<1>5. ASSUME NEW n \in Nat, n < N, n \in T
      PROVE  n + 1 \in T
  <2>. DEFINE p == n + 1
              v == f[n]
              m == turns[N - n]
  <2>1. p \in 1..N /\ p \in 0..N /\ p - 1 = n /\ N + 1 - p = N - n /\ N - n \in 1..N
    BY <1>1, <1>5
  <2>2. f[p] = IF FitsNext(v, m, tokens, budget) THEN <<m>> \o v ELSE v
    <3>1. f[p] = IF FitsNext(f[p - 1], turns[N + 1 - p], tokens, budget)
                   THEN <<turns[N + 1 - p]>> \o f[p - 1] ELSE f[p - 1]
      BY <1>3, <2>1
    <3>2. f[p - 1] = v /\ turns[N + 1 - p] = m
      BY <2>1
    <3>. HIDE DEF p, v, m
    <3>. QED
      BY <3>1, <3>2
  <2>3. v \in Seq(S) /\ m \in S /\ Len(v) \in Nat /\ Len(v) <= n
    BY <1>1, <1>5, <2>1
  <2>4. n > 0 => Len(v) > 0 /\ v[Len(v)] = turns[N]
    BY <1>5
  <2>5. Len(v) > 1 => tokens + TokensIn(v) <= budget
    BY <1>5
  <2>6. Len(v) = n => \A k \in 1..n : v[k] = turns[N - n + k]
    BY <1>5
  <2>7. Good(p, f[p])
    <3>. DEFINE w == <<m>> \o v
    <3>1. CASE FitsNext(v, m, tokens, budget)
      <4>1. <<m>> \in Seq(S) /\ Len(<<m>>) = 1 /\ <<m>>[1] = m
        BY <2>3
      <4>. HIDE DEF v, m
      <4>2. /\ w \in Seq(S) /\ Len(w) = 1 + Len(v)
            /\ \A k \in 1..(1 + Len(v)) : w[k] = IF k <= 1 THEN <<m>>[k] ELSE v[k - 1]
        <5>1. /\ w \in Seq(S) /\ Len(w) = Len(<<m>>) + Len(v)
              /\ \A k \in 1..(Len(<<m>>) + Len(v)) :
                   w[k] = IF k <= Len(<<m>>) THEN <<m>>[k] ELSE v[k - Len(<<m>>)]
          BY <2>3, <4>1, ConcatProperties
        <5>. HIDE DEF w
        <5>. QED
          BY <4>1, <5>1
      <4>3. w[1] = m /\ \A k \in 1..Len(v) : w[k + 1] = v[k]
        <5>. HIDE DEF w
        <5>1. 1 \in 1..(1 + Len(v)) /\ 1 <= 1
          BY <2>3
        <5>2. \A k \in 1..Len(v) : k + 1 \in 1..(1 + Len(v)) /\ ~(k + 1 <= 1) /\ (k + 1) - 1 = k
          BY <2>3
        <5>. QED
          BY <4>1, <4>2, <5>1, <5>2
      <4>4. w[Len(w)] = turns[N]
        <5>. HIDE DEF w
        <5>1. CASE n = 0
          <6>1. Len(w) = 1 /\ N - n = N
            BY <1>1, <2>3, <4>2, <5>1
          <6>. QED
            BY <4>3, <6>1 DEF m
        <5>2. CASE n > 0
          <6>1. Len(v) \in 1..Len(v) /\ Len(w) = Len(v) + 1
            BY <2>3, <2>4, <4>2, <5>2
          <6>. QED
            BY <2>4, <4>3, <5>2, <6>1
        <5>. QED
          BY <5>1, <5>2
      <4>5. Len(w) > 1 => tokens + TokensIn(w) <= budget
        <5>1. TokensIn(w) = TokensOf(m) + TokensIn(v)
          <6>1. v \in Seq(Message) /\ m \in Message /\ <<m>> \in Seq(Message) /\ <<>> \in Seq(Message)
            BY <2>3, <4>1, SeqMonotonic
          <6>2. TokensIn(w) = TokensIn(<<m>>) + TokensIn(v)
            BY <6>1, TokensInBoth
          <6>3. Append(<<>>, m) = <<m>>
            BY <6>1
          <6>4. TokensIn(<<m>>) = 0 + TokensOf(m)
            BY <6>1, <6>3, TokensInMore, NoTokens
          <6>5. TokensOf(m) \in Nat
            BY <6>1, TokensAreNumbers
          <6>. QED
            BY <6>2, <6>4, <6>5
        <5>2. TokensIn(v) \in Nat /\ TokensOf(m) \in Nat
          <6>1. v \in Seq(Message) /\ m \in Message
            BY <2>3, SeqMonotonic
          <6>. QED
            BY <6>1, TokensAreCounted, TokensAreNumbers
        <5>3. Len(w) > 1 => v # <<>>
          <6>. SUFFICES ASSUME v = <<>> PROVE ~(Len(w) > 1)
            OBVIOUS
          <6>1. Len(v) = 0
            BY <2>3
          <6>. HIDE DEF w
          <6>. QED
            BY <4>2, <6>1
        <5>4. v # <<>> => tokens + TokensIn(v) + TokensOf(m) <= budget
          BY <3>1 DEF FitsNext
        <5>. HIDE DEF w
        <5>. QED
          BY <5>1, <5>2, <5>3, <5>4
      <4>6. ASSUME Len(w) = p, NEW k \in 1..p
            PROVE  w[k] = turns[N - p + k]
        <5>. HIDE DEF w
        <5>1. Len(v) = n
          BY <2>3, <4>2, <4>6
        <5>2. CASE k = 1
          <6>1. N - p + k = N - n
            BY <1>1, <5>2
          <6>. QED
            BY <4>3, <5>2, <6>1 DEF m
        <5>3. CASE k # 1
          <6>1. k - 1 \in 1..n /\ (k - 1) + 1 = k /\ N - n + (k - 1) = N - p + k
            BY <1>1, <5>3
          <6>. QED
            BY <2>6, <4>3, <5>1, <6>1
        <5>. QED
          BY <5>2, <5>3
      <4>7. Len(w) <= p /\ Len(w) > 0
        <5>. HIDE DEF w
        <5>. QED
          BY <2>3, <4>2
      <4>8. f[p] = w
        BY <2>2, <3>1
      <4>9. Good(p, w)
        <5>. HIDE DEF w, p
        <5>. QED
          BY <4>2, <4>4, <4>5, <4>6, <4>7
      <4>. HIDE DEF Good, w
      <4>. QED
        BY <4>8, <4>9
    <3>2. CASE ~FitsNext(v, m, tokens, budget)
      <4>1. f[p] = v
        BY <2>2, <3>2
      <4>2. v # <<>>
        BY <3>2 DEF FitsNext
      <4>. HIDE DEF v, m
      <4>3. n > 0
        <5>. SUFFICES ASSUME ~(n > 0) PROVE FALSE
          OBVIOUS
        <5>1. Len(v) = 0
          BY <2>3
        <5>. QED
          BY <2>3, <4>2, <5>1, EmptySeq
      <4>4. Len(v) <= p /\ Len(v) # p
        BY <2>3
      <4>5. Good(p, v)
        <5>. HIDE DEF p
        <5>. QED
          BY <2>3, <2>4, <2>5, <4>3, <4>4
      <4>. HIDE DEF Good
      <4>. QED
        BY <4>1, <4>5
    <3>. QED
      BY <3>1, <3>2
  <2>. HIDE DEF Good
  <2>. QED
    BY <2>1, <2>7
<1>6. \A n \in 0..N : n \in T
  <2>. HIDE DEF T
  <2>. QED
    BY <1>1, <1>4, <1>5, NumberByNumber
<1>7. Good(N, r)
  <2>1. N \in 0..N
    BY <1>1
  <2>2. N \in T
    BY <1>6, <2>1, Zenon
  <2>. HIDE DEF Good
  <2>. QED
    BY <1>3, <2>2
<1>8. turns # <<>> => N > 0
  BY <1>1, EmptySeq DEF N
<1>9. Len(r) = N => r = turns
  <2>. SUFFICES ASSUME Len(r) = N PROVE r = turns
    OBVIOUS
  <2>1. r \in Seq(S) /\ \A k \in 1..N : r[k] = turns[N - N + k]
    BY <1>7
  <2>2. \A k \in 1..N : N - N + k = k
    BY <1>1
  <2>. QED
    BY <2>1, <2>2, SeqEqual DEF N
<1>10. r \in Seq(S) /\ Len(r) <= N /\ (Len(r) > 1 => tokens + TokensIn(r) <= budget)
  BY <1>7
<1>11. turns # <<>> => r # <<>> /\ Last(r) = Last(turns)
  <2>. SUFFICES ASSUME turns # <<>> PROVE r # <<>> /\ Last(r) = Last(turns)
    OBVIOUS
  <2>1. Len(r) > 0 /\ r[Len(r)] = turns[N]
    BY <1>7, <1>8
  <2>. QED
    BY <1>10, <2>1 DEF Last, N
<1>. QED
  BY <1>9, <1>10, <1>11 DEF N

SystemMessages == {m \in Message : m.role = "system"}
TurnMessages == {m \in Message : m.role # "system"}

\* System prompts and turns are all messages.
LEMMA Parted ==
  ASSUME NEW ms \in Seq(Message)
  PROVE  /\ Systems(ms) \in Seq(SystemMessages) /\ Turns(ms) \in Seq(TurnMessages)
         /\ Len(Systems(ms)) + Len(Turns(ms)) = Len(ms)
         /\ \A i \in DOMAIN ms : \/ \E k \in DOMAIN Systems(ms) : Systems(ms)[k] = ms[i]
                                 \/ \E k \in DOMAIN Turns(ms) : Turns(ms)[k] = ms[i]
         /\ \A k \in DOMAIN Systems(ms) : \E i \in DOMAIN ms : Systems(ms)[k] = ms[i]
         /\ \A k \in DOMAIN Turns(ms) : \E i \in DOMAIN ms : Turns(ms)[k] = ms[i]
<1>. DEFINE these == {i \in DOMAIN ms : ms[i].role = "system"}
            those == {i \in DOMAIN ms : ms[i].role # "system"}
            a == Systems(ms)
            b == Turns(ms)
<1>1. DOMAIN ms = 1..Len(ms)
  OBVIOUS
<1>2. a = At(ms, these) /\ b = At(ms, those)
  BY DEF Systems, Turns
<1>3. /\ \A i \in DOMAIN ms : i \in these <=> ms[i].role = "system"
      /\ \A i \in DOMAIN ms : i \in those <=> ms[i].role # "system"
  OBVIOUS
<1>. HIDE DEF these, those, a, b
<1>4. Picks(a, Message, ms, these) /\ Picks(b, Message, ms, those)
  BY <1>2, AtMembers
<1>5. /\ a \in Seq(Message) /\ b \in Seq(Message)
      /\ \A k \in DOMAIN a : \E i \in DOMAIN ms : a[k] = ms[i] /\ ms[i].role = "system"
      /\ \A k \in DOMAIN b : \E i \in DOMAIN ms : b[k] = ms[i] /\ ms[i].role # "system"
      /\ \A i \in DOMAIN ms : ms[i].role = "system" => \E k \in DOMAIN a : a[k] = ms[i]
      /\ \A i \in DOMAIN ms : ms[i].role # "system" => \E k \in DOMAIN b : b[k] = ms[i]
  BY <1>3, <1>4 DEF Picks
<1>6. Len(a) + Len(b) = Len(ms)
  <2>1. \A n \in 1..Len(ms) : n \in these <=> n \notin those
    BY <1>1, <1>3
  <2>. QED
    BY <1>2, <2>1, AtBoth
<1>7. a \in Seq(SystemMessages)
  <2>1. Len(a) \in Nat /\ DOMAIN a = 1..Len(a) /\ a = [k \in 1..Len(a) |-> a[k]]
        /\ \A k \in 1..Len(a) : a[k] \in Message
    BY <1>5, LenProperties
  <2>2. \A k \in 1..Len(a) : a[k] \in SystemMessages
    BY <1>5, <2>1 DEF SystemMessages
  <2>. QED
    BY <2>1, <2>2
<1>8. b \in Seq(TurnMessages)
  <2>1. Len(b) \in Nat /\ DOMAIN b = 1..Len(b) /\ b = [k \in 1..Len(b) |-> b[k]]
        /\ \A k \in 1..Len(b) : b[k] \in Message
    BY <1>5, LenProperties
  <2>2. \A k \in 1..Len(b) : b[k] \in TurnMessages
    BY <1>5, <2>1 DEF TurnMessages
  <2>. QED
    BY <2>1, <2>2
<1>9. \A i \in DOMAIN ms : (\E k \in DOMAIN a : a[k] = ms[i]) \/ (\E k \in DOMAIN b : b[k] = ms[i])
  BY <1>5
<1>10. /\ \A k \in DOMAIN a : \E i \in DOMAIN ms : a[k] = ms[i]
       /\ \A k \in DOMAIN b : \E i \in DOMAIN ms : b[k] = ms[i]
  BY <1>5
<1>. QED
  BY <1>6, <1>7, <1>8, <1>9, <1>10 DEF a, b

LEMMA Rejoined ==
  ASSUME NEW a \in Seq(SystemMessages), NEW b \in Seq(TurnMessages)
  PROVE  Systems(a \o b) = a /\ Turns(a \o b) = b
<1>. DEFINE r == a \o b
            these == {i \in DOMAIN r : r[i].role = "system"}
            those == {i \in DOMAIN r : r[i].role # "system"}
<1>1. SystemMessages \subseteq Message /\ TurnMessages \subseteq Message
  BY DEF SystemMessages, TurnMessages
<1>2. a \in Seq(Message) /\ b \in Seq(Message) /\ Len(a) \in Nat /\ Len(b) \in Nat
  BY <1>1, SeqMonotonic
<1>3. /\ r \in Seq(Message) /\ Len(r) = Len(a) + Len(b)
      /\ \A i \in 1..(Len(a) + Len(b)) : r[i] = IF i <= Len(a) THEN a[i] ELSE b[i - Len(a)]
  BY <1>2, ConcatProperties
<1>4. Systems(r) = At(r, these) /\ Turns(r) = At(r, those)
  BY DEF Systems, Turns
<1>5. /\ \A i \in DOMAIN r : i \in these <=> r[i].role = "system"
      /\ \A i \in DOMAIN r : i \in those <=> r[i].role # "system"
      /\ DOMAIN r = 1..Len(r)
  BY <1>3
<1>. HIDE DEF r, these, those
<1>6. ASSUME NEW i \in 1..Len(r)
      PROVE  r[i].role = "system" <=> i <= Len(a)
  <2>1. CASE i <= Len(a)
    <3>1. i \in 1..Len(a)
      BY <1>2, <1>3, <2>1
    <3>2. a[i] \in SystemMessages /\ r[i] = a[i]
      BY <1>3, <2>1, <3>1, ElementOfSeq
    <3>. QED
      BY <2>1, <3>2 DEF SystemMessages
  <2>2. CASE ~(i <= Len(a))
    <3>1. i - Len(a) \in 1..Len(b)
      BY <1>2, <1>3, <2>2
    <3>2. b[i - Len(a)] \in TurnMessages /\ r[i] = b[i - Len(a)]
      BY <1>3, <2>2, <3>1, ElementOfSeq
    <3>. QED
      BY <2>2, <3>2 DEF TurnMessages
  <2>. QED
    BY <2>1, <2>2
<1>7. Systems(r) = a
  <2>1. /\ 0 \in 0..Len(r) /\ Len(a) \in 0..Len(r) /\ Len(a) - 0 = Len(a)
        /\ \A n \in 1..Len(r) : n \in these <=> (0 < n /\ n <= Len(a))
    BY <1>2, <1>3, <1>5, <1>6
  <2>2. /\ At(r, these) \in Seq(Message) /\ Len(At(r, these)) = Len(a) - 0
        /\ \A k \in 1..(Len(a) - 0) : At(r, these)[k] = r[0 + k]
    <3>1. Interval(r, these, 0, Len(a))
      BY <2>1 DEF Interval
    <3>2. Stretch(At(r, these), Message, r, 0, Len(a))
      BY <1>3, <3>1, AtInterval, Zenon
    <3>. QED
      BY <3>2 DEF Stretch
  <2>3. \A k \in 1..Len(a) : 0 + k = k /\ r[k] = a[k]
    BY <1>2, <1>3
  <2>. QED
    BY <1>2, <1>4, <2>1, <2>2, <2>3, SeqEqual
<1>8. Turns(r) = b
  <2>1. /\ Len(a) \in 0..Len(r) /\ Len(r) \in Len(a)..Len(r) /\ Len(r) - Len(a) = Len(b)
        /\ \A n \in 1..Len(r) : n \in those <=> (Len(a) < n /\ n <= Len(r))
    BY <1>2, <1>3, <1>5, <1>6
  <2>2. /\ At(r, those) \in Seq(Message) /\ Len(At(r, those)) = Len(r) - Len(a)
        /\ \A k \in 1..(Len(r) - Len(a)) : At(r, those)[k] = r[Len(a) + k]
    <3>1. Interval(r, those, Len(a), Len(r))
      BY <2>1 DEF Interval
    <3>2. Stretch(At(r, those), Message, r, Len(a), Len(r))
      BY <1>3, <3>1, AtInterval, Zenon
    <3>. QED
      BY <3>2 DEF Stretch
  <2>3. \A k \in 1..Len(b) : r[Len(a) + k] = b[k]
    <3>. SUFFICES ASSUME NEW k \in 1..Len(b) PROVE r[Len(a) + k] = b[k]
      OBVIOUS
    <3>1. Len(a) + k \in 1..(Len(a) + Len(b)) /\ ~(Len(a) + k <= Len(a)) /\ (Len(a) + k) - Len(a) = k
      BY <1>2
    <3>. QED
      BY <1>3, <3>1
  <2>. QED
    BY <1>2, <1>4, <2>1, <2>2, <2>3, SeqEqual
<1>. QED
  BY <1>7, <1>8 DEF r

\* What the budget makes of messages.
TrimOf(ms, budget) ==
  Systems(ms) \o NewestThatFit(Turns(ms), TokensIn(Systems(ms)), budget)

LEMMA TrimKeeps ==
  ASSUME NEW ms \in Seq(Message), NEW budget \in Nat, NEW r, r = TrimOf(ms, budget)
  PROVE  /\ r \in Seq(Message)
         /\ ms # <<>> => r # <<>>
         /\ Systems(r) = Systems(ms)
         /\ Turns(ms) # <<>> => Turns(r) # <<>> /\ Last(Turns(r)) = Last(Turns(ms))
         /\ Len(Turns(r)) > 1 => TokensIn(r) <= budget
         /\ Len(r) = Len(ms) => Meanings(r) = Meanings(ms)
<1>. DEFINE a == Systems(ms)
            t == Turns(ms)
            tokens == TokensIn(a)
            b == NewestThatFit(t, tokens, budget)
<1>1. SystemMessages \subseteq Message /\ TurnMessages \subseteq Message
  BY DEF SystemMessages, TurnMessages
<1>2. /\ a \in Seq(SystemMessages) /\ t \in Seq(TurnMessages) /\ Len(a) + Len(t) = Len(ms)
      /\ \A i \in DOMAIN ms : (\E k \in DOMAIN a : a[k] = ms[i]) \/ (\E k \in DOMAIN t : t[k] = ms[i])
      /\ \A k \in DOMAIN a : \E i \in DOMAIN ms : a[k] = ms[i]
      /\ \A k \in DOMAIN t : \E i \in DOMAIN ms : t[k] = ms[i]
  BY Parted, Zenon
<1>3. r = a \o b
  BY DEF TrimOf
<1>. HIDE DEF a, t
<1>4. tokens \in Nat
  BY <1>1, <1>2, SeqMonotonic, TokensAreCounted
<1>. HIDE DEF tokens
<1>5. /\ b \in Seq(TurnMessages)
      /\ t # <<>> => b # <<>> /\ Last(b) = Last(t)
      /\ Len(b) > 1 => tokens + TokensIn(b) <= budget
      /\ Len(b) <= Len(t)
      /\ Len(b) = Len(t) => b = t
  BY <1>1, <1>2, <1>4, NewestKept
<1>. HIDE DEF b
<1>6. Systems(r) = a /\ Turns(r) = b
  BY <1>2, <1>3, <1>5, Rejoined
<1>7. /\ a \in Seq(Message) /\ b \in Seq(Message) /\ Len(a) \in Nat /\ Len(b) \in Nat
      /\ t \in Seq(Message) /\ Len(t) \in Nat
  BY <1>1, <1>2, <1>5, SeqMonotonic
<1>8. /\ r \in Seq(Message) /\ Len(r) = Len(a) + Len(b)
      /\ \A i \in 1..(Len(a) + Len(b)) : r[i] = IF i <= Len(a) THEN a[i] ELSE b[i - Len(a)]
  BY <1>3, <1>7, ConcatProperties
<1>9. TokensIn(r) = tokens + TokensIn(b)
  BY <1>3, <1>7, TokensInBoth DEF tokens
<1>10. ms # <<>> => r # <<>>
  <2>. SUFFICES ASSUME ms # <<>>, r = <<>> PROVE FALSE
    OBVIOUS
  <2>1. Len(ms) > 0
    BY EmptySeq
  <2>2. Len(r) = 0
    OBVIOUS
  <2>3. Len(a) = 0 /\ Len(b) = 0
    BY <1>7, <1>8, <2>2
  <2>4. b = <<>>
    BY <1>7, <2>3, EmptySeq
  <2>5. Len(t) = 0
    BY <1>5, <2>4
  <2>. QED
    BY <1>2, <2>1, <2>3, <2>5
<1>11. ASSUME Len(r) = Len(ms)
       PROVE  Meanings(r) = Meanings(ms)
  <2>1. b = t
    <3>1. Len(b) = Len(t)
      <4>. DEFINE la == Len(a)
                  lb == Len(b)
                  lt == Len(t)
      <4>1. la \in Nat /\ lb \in Nat /\ lt \in Nat /\ la + lb = la + lt
        BY <1>2, <1>7, <1>8, <1>11
      <4>. HIDE DEF la, lb, lt
      <4>2. lb = lt
        BY <4>1
      <4>. QED
        BY <4>2 DEF lb, lt
    <3>. QED
      BY <1>5, <3>1
  <2>2. DOMAIN r = 1..(Len(a) + Len(t)) /\ DOMAIN a = 1..Len(a) /\ DOMAIN t = 1..Len(t)
    BY <1>7, <1>8, <2>1
  <2>3. ASSUME NEW i \in DOMAIN r
        PROVE  \E k \in DOMAIN ms : ms[k] = r[i]
    <3>1. CASE i <= Len(a)
      <4>1. i \in DOMAIN a /\ r[i] = a[i]
        BY <1>7, <1>8, <2>1, <2>2, <3>1
      <4>. QED
        BY <1>2, <4>1
    <3>2. CASE ~(i <= Len(a))
      <4>1. i - Len(a) \in DOMAIN t
        BY <1>7, <2>2, <3>2
      <4>2. r[i] = t[i - Len(a)]
        BY <1>8, <2>1, <2>2, <3>2
      <4>. QED
        BY <1>2, <4>1, <4>2
    <3>. QED
      BY <3>1, <3>2
  <2>4. ASSUME NEW i \in DOMAIN ms
        PROVE  \E k \in DOMAIN r : r[k] = ms[i]
    <3>1. CASE \E k \in DOMAIN a : a[k] = ms[i]
      <4>1. PICK k \in DOMAIN a : a[k] = ms[i]
        BY <3>1
      <4>2. k \in DOMAIN r /\ k <= Len(a)
        BY <1>7, <2>2
      <4>3. r[k] = a[k]
        BY <1>8, <2>1, <2>2, <4>2
      <4>. QED
        BY <4>1, <4>2, <4>3
    <3>2. CASE \E k \in DOMAIN t : t[k] = ms[i]
      <4>1. PICK k \in DOMAIN t : t[k] = ms[i]
        BY <3>2
      <4>2. Len(a) + k \in DOMAIN r /\ ~(Len(a) + k <= Len(a)) /\ (Len(a) + k) - Len(a) = k
        BY <1>7, <2>2
      <4>3. r[Len(a) + k] = t[k]
        BY <1>8, <2>1, <2>2, <4>2
      <4>. QED
        BY <4>1, <4>2, <4>3
    <3>. QED
      BY <1>2, <3>1, <3>2
  <2>5. /\ \A i \in DOMAIN r : Says(Meaning(r[i])) => \E k \in DOMAIN ms : Meaning(ms[k]) = Meaning(r[i])
        /\ \A i \in DOMAIN ms : Says(Meaning(ms[i])) => \E k \in DOMAIN r : Meaning(r[k]) = Meaning(ms[i])
    BY <2>3, <2>4
  <2>. QED
    BY <2>5, SameMeanings
<1>. QED
  BY <1>5, <1>6, <1>8, <1>9, <1>10, <1>11 DEF a, t

-----------------------------------------------------------------------------
(* TokenSaver: the invariant *)

\* Messages that say what the body said.
Carries(ms, b) == ms \in Seq(Message) /\ Meanings(ms) = Meanings(b.messages)

\* What the budget made of those that survived.
Decides(survived, ms, b, c) ==
  /\ Carries(survived, b) /\ survived # <<>>
  /\ ms = survived \/ (c.budget \in Nat /\ ms = TrimOf(survived, c.budget))

\* What each pass may rely on.
SaverInv ==
  /\ stage \in {"idle", "dedup", "collapse", "strip", "trim", "decide", "sent"}
  /\ stage # "idle" => body \in Bodies /\ config \in Configs
  /\ stage = "dedup" => messages = body.messages
  /\ stage = "collapse" => AllAsSent(messages)
  /\ stage \in {"collapse", "strip", "trim"} => Carries(messages, body)
  /\ stage = "decide" => Decides(surviving, messages, body, config)
  /\ stage = "sent" =>
       \/ sent = body.messages
       \/ sent = messages /\ Decides(surviving, messages, body, config)

LEMMA BodiesAreAsSent ==
  ASSUME NEW b \in Bodies
  PROVE  b.messages \in Seq(Message) /\ AllAsSent(b.messages)
BY BodiesAreBodies DEF AllAsSent, AsSent

LEMMA ReceiveKeeps ==
  ASSUME SaverInv, NEW b \in Bodies, NEW c \in Configs, Receive(b, c)
  PROVE  SaverInv'
<1>1. stage' = "dedup" /\ body' = b /\ config' = c /\ messages' = b.messages
  BY DEF Receive
<1>. QED
  BY <1>1 DEF SaverInv

LEMMA DedupStep ==
  ASSUME SaverInv, DropBlankAndRepeated
  PROVE  SaverInv'
<1>1. /\ stage = "dedup" /\ stage' = "collapse" /\ body' = body /\ config' = config
      /\ messages' = At(messages, {i \in DOMAIN messages : Retained(messages, i)})
  BY DEF DropBlankAndRepeated, Proceed, Retained
<1>2. body \in Bodies /\ config \in Configs /\ messages = body.messages
  BY <1>1 DEF SaverInv
<1>3. messages \in Seq(Message) /\ AllAsSent(messages)
  BY <1>2, BodiesAreAsSent
<1>4. /\ messages' \in Seq(Message) /\ AllAsSent(messages')
      /\ Meanings(messages') = Meanings(messages)
  BY <1>1, <1>3, DedupKeeps
<1>5. Carries(messages', body')
  BY <1>1, <1>2, <1>4 DEF Carries
<1>. QED
  BY <1>1, <1>2, <1>4, <1>5 DEF SaverInv

LEMMA CollapseStep ==
  ASSUME SaverInv, Collapse
  PROVE  SaverInv'
<1>. DEFINE folded == [i \in DOMAIN messages |->
                         [messages[i] EXCEPT !.content = CollapseRepeatedLines(messages[i].content)]]
<1>1. /\ stage = "collapse" /\ stage' = "strip" /\ body' = body /\ config' = config
      /\ messages' = IF config.collapse THEN folded ELSE messages
  BY DEF Collapse, Proceed
<1>2. /\ body \in Bodies /\ config \in Configs
      /\ Carries(messages, body) /\ AllAsSent(messages)
  BY <1>1 DEF SaverInv
<1>3. folded \in Seq(Message) /\ Meanings(folded) = Meanings(messages)
  BY <1>2, CollapseKeeps DEF Carries
<1>. HIDE DEF folded
<1>4. Carries(messages', body')
  BY <1>1, <1>2, <1>3 DEF Carries
<1>. QED
  BY <1>1, <1>2, <1>4 DEF SaverInv

LEMMA StripStep ==
  ASSUME SaverInv, Strip
  PROVE  SaverInv'
<1>. DEFINE kept == At(messages, {i \in DOMAIN messages : RemainsOf(messages[i])})
            stripped == [i \in DOMAIN kept |-> StrippedOf(kept[i])]
<1>1. /\ stage = "strip" /\ stage' = "trim" /\ body' = body /\ config' = config
      /\ messages' = IF config.strip THEN stripped ELSE messages
  BY DEF Strip, Proceed, RemainsOf, StrippedOf
<1>2. body \in Bodies /\ config \in Configs /\ Carries(messages, body)
  BY <1>1 DEF SaverInv
<1>3. stripped \in Seq(Message) /\ Meanings(stripped) = Meanings(messages)
  BY <1>2, StripKeeps DEF Carries
<1>. HIDE DEF stripped
<1>4. Carries(messages', body')
  BY <1>1, <1>2, <1>3 DEF Carries
<1>. QED
  BY <1>1, <1>2, <1>4 DEF SaverInv

LEMMA TrimStep ==
  ASSUME SaverInv, Trim
  PROVE  SaverInv'
<1>1. /\ stage = "trim" /\ messages # <<>> /\ stage' = "decide"
      /\ body' = body /\ config' = config /\ surviving' = messages
      /\ \/ messages' = messages
         \/ config.budget # NoBudget /\ messages' = TrimOf(messages, config.budget)
  BY DEF Trim, Trimmed, TrimOf
<1>2. body \in Bodies /\ config \in Configs /\ Carries(messages, body)
  BY <1>1 DEF SaverInv
<1>3. config.budget # NoBudget => config.budget \in Nat
  BY <1>2, BudgetsAreNumbers
<1>4. Decides(surviving', messages', body', config')
  BY <1>1, <1>2, <1>3 DEF Decides
<1>. QED
  BY <1>1, <1>2, <1>4 DEF SaverInv

LEMMA SendStep ==
  ASSUME SaverInv, SendAsReceived \/ SendOptimized
  PROVE  SaverInv'
<1>1. /\ stage # "idle" /\ stage' = "sent" /\ UNCHANGED <<body, config, messages, surviving>>
      /\ sent' = body.messages \/ (stage = "decide" /\ sent' = messages)
  BY DEF SendAsReceived, SendOptimized, Send
<1>2. body \in Bodies /\ config \in Configs
  BY <1>1 DEF SaverInv
<1>3. stage = "decide" => Decides(surviving, messages, body, config)
  BY DEF SaverInv
<1>. QED
  BY <1>1, <1>2, <1>3 DEF SaverInv

LEMMA SaverStutters == SaverInv /\ UNCHANGED saverVars => SaverInv'
BY DEF SaverInv, saverVars

(***************************************************************************)
(* Each pass of the optimizer relies on the passes before it: lines are    *)
(* folded only where none is folded yet, and what remains before the       *)
(* budget still says what the request said (optimize_prompt).              *)
(***************************************************************************)
THEOREM SaverInvariant == SaverSpec => []SaverInv
<1>1. SaverInit => SaverInv
  BY DEF SaverInit, SaverInv
<1>2. SaverInv /\ [SaverNext]_saverVars => SaverInv'
  <2>. SUFFICES ASSUME SaverInv, [SaverNext]_saverVars PROVE SaverInv'
    OBVIOUS
  <2>1. ASSUME NEW b \in Bodies, NEW c \in Configs, Receive(b, c) PROVE SaverInv'
    BY <2>1, ReceiveKeeps
  <2>2. CASE DropBlankAndRepeated
    BY <2>2, DedupStep
  <2>3. CASE Collapse
    BY <2>3, CollapseStep
  <2>4. CASE Strip
    BY <2>4, StripStep
  <2>5. CASE Trim
    BY <2>5, TrimStep
  <2>6. CASE SendAsReceived \/ SendOptimized
    BY <2>6, SendStep
  <2>7. CASE UNCHANGED saverVars
    BY <2>7, SaverStutters
  <2>. QED
    BY <2>1, <2>2, <2>3, <2>4, <2>5, <2>6, <2>7 DEF SaverNext
<1>. QED
  BY <1>1, <1>2, PTL DEF SaverSpec

LEMMA SaverInvIsSafe == SaverInv => SavesSafely
<1>. SUFFICES ASSUME SaverInv, stage = "sent", sent # body.messages
              PROVE  LosesOnlyRepeats /\ TrimKeepsTheTask
  BY DEF SavesSafely, LosesOnlyRepeats, TrimKeepsTheTask
<1>1. sent = messages /\ Decides(surviving, messages, body, config)
  BY DEF SaverInv
<1>2. /\ surviving \in Seq(Message) /\ Meanings(surviving) = Meanings(body.messages)
      /\ surviving # <<>>
  BY <1>1 DEF Decides, Carries
<1>3. CASE messages = surviving
  <2>1. sent = surviving /\ ~(Len(sent) < Len(surviving)) /\ sent # <<>>
    BY <1>1, <1>2, <1>3
  <2>2. Turns(sent) = Turns(surviving) /\ Systems(sent) = Systems(surviving)
    BY <2>1
  <2>. QED
    BY <1>2, <2>1, <2>2 DEF LosesOnlyRepeats, TrimKeepsTheTask
<1>4. CASE config.budget \in Nat /\ messages = TrimOf(surviving, config.budget)
  <2>1. /\ messages # <<>> /\ Systems(messages) = Systems(surviving)
        /\ Turns(surviving) # <<>> =>
             Turns(messages) # <<>> /\ Last(Turns(messages)) = Last(Turns(surviving))
        /\ Len(Turns(messages)) > 1 => TokensIn(messages) <= config.budget
        /\ Len(messages) = Len(surviving) => Meanings(messages) = Meanings(surviving)
    BY <1>2, <1>4, TrimKeeps
  <2>. QED
    BY <1>1, <1>2, <2>1 DEF LosesOnlyRepeats, TrimKeepsTheTask
<1>. QED
  BY <1>1, <1>3, <1>4 DEF Decides

(***************************************************************************)
(* Whatever is asked, under whatever policies, sizes and budgets, the      *)
(* token saver loses nothing but repetitions unless a budget cuts turns,   *)
(* and then keeps the system prompts and the last turn (optimize_prompt,   *)
(* the safe set of optimizer.rs).                                          *)
(***************************************************************************)
THEOREM SaverIsSafe == SaverSpec => []SavesSafely
BY SaverInvariant, SaverInvIsSafe, PTL

-----------------------------------------------------------------------------
(* LogLines *)
\* The values, level by level.
LEMMA JsonLevels ==
  \A n \in 0..MaxNesting : Json[n] = IF n = 0 THEN Scalars ELSE Scalars \cup Nested(Json[n - 1])
<1>. DEFINE Level(n, h) == IF n = 0 THEN Scalars ELSE Scalars \cup Nested(h[n - 1])
            Solves(h, m) == h = [n \in 0..m |-> Level(n, h)]
            T == {m \in Nat : \E h : Solves(h, m)}
<1>0. MaxNesting \in Nat
  BY NestingIsBounded
<1>1. 0 \in T
  <2>. DEFINE h == [n \in 0..0 |-> Scalars]
  <2>1. \A n \in 0..0 : h[n] = Level(n, h)
    OBVIOUS
  <2>. HIDE DEF Level
  <2>2. Solves(h, 0)
    BY <2>1
  <2>. QED
    BY <2>2
<1>2. ASSUME NEW m \in Nat, m \in T
      PROVE  m + 1 \in T
  <2>1. PICK f : Solves(f, m)
    BY <1>2
  <2>. DEFINE g == [n \in 0..(m + 1) |-> IF n = m + 1 THEN Level(m + 1, f) ELSE f[n]]
  <2>2. \A n \in 0..m : g[n] = f[n] /\ n \in 0..(m + 1)
    OBVIOUS
  <2>3. g[m + 1] = Level(m + 1, f) /\ (m + 1) - 1 = m /\ m \in 0..m
    OBVIOUS
  <2>. HIDE DEF g
  <2>4. ASSUME NEW n \in 0..(m + 1)
        PROVE  g[n] = Level(n, g)
    <3>1. CASE n = m + 1
      <4>1. g[n - 1] = f[n - 1] /\ g[n] = Level(n, f)
        BY <3>1, <2>2, <2>3
      <4>. QED
        BY <4>1, <3>1
    <3>2. CASE n = 0
      <4>1. n \in 0..m /\ f[n] = Level(n, f)
        BY <3>2, <2>1
      <4>. QED
        BY <4>1, <3>2, <2>2
    <3>3. CASE n # m + 1 /\ n # 0
      <4>1. n \in 0..m /\ n - 1 \in 0..m
        BY <3>3
      <4>2. g[n - 1] = f[n - 1] /\ g[n] = f[n] /\ f[n] = Level(n, f)
        BY <4>1, <2>1, <2>2
      <4>. QED
        BY <4>2, <3>3
    <3>. QED
      BY <3>1, <3>2, <3>3
  <2>5. g = [n \in 0..(m + 1) |-> Level(n, g)]
    <3>. HIDE DEF Level
    <3>1. g = [n \in 0..(m + 1) |-> g[n]]
      BY DEF g
    <3>. QED
      BY <2>4, <3>1
  <2>. HIDE DEF Level
  <2>. QED
    BY <2>5
<1>. HIDE DEF Level, Solves
<1>3. MaxNesting \in T
  <2>. HIDE DEF T
  <2>1. \A n \in 0..MaxNesting : n \in T
    BY <1>0, <1>1, <1>2, NumberByNumber
  <2>. QED
    BY <1>0, <2>1
<1>4. \E h : Solves(h, MaxNesting)
  BY <1>3
<1>. DEFINE Whole(h) == h = [n \in 0..MaxNesting |-> Level(n, h)]
<1>5. \E h : Whole(h)
  BY <1>4 DEF Solves
<1>6. Json = CHOOSE h : Whole(h)
  BY DEF Json, Level
<1>7. Whole(Json)
  BY <1>5, <1>6
<1>. QED
  BY <1>7 DEF Level

\* Their texts.
LEMMA FormattedLevels ==
  \A n \in 0..MaxNesting :
    Formatted[n] = IF n = 0 THEN [value \in Json[n] |-> Format(value, <<>>)]
             ELSE [value \in Json[n] |-> Format(value, Formatted[n - 1])]
<1>. DEFINE Level(n, h) == IF n = 0 THEN [value \in Json[n] |-> Format(value, <<>>)]
                           ELSE [value \in Json[n] |-> Format(value, h[n - 1])]
            Solves(h, m) == h = [n \in 0..m |-> Level(n, h)]
            T == {m \in Nat : \E h : Solves(h, m)}
<1>0. MaxNesting \in Nat
  BY NestingIsBounded
<1>1. 0 \in T
  <2>. DEFINE h == [n \in 0..0 |-> [value \in Json[n] |-> Format(value, <<>>)]]
  <2>1. \A n \in 0..0 : h[n] = Level(n, h)
    OBVIOUS
  <2>. HIDE DEF Level
  <2>2. Solves(h, 0)
    BY <2>1
  <2>. QED
    BY <2>2
<1>2. ASSUME NEW m \in Nat, m \in T
      PROVE  m + 1 \in T
  <2>1. PICK f : Solves(f, m)
    BY <1>2
  <2>. DEFINE g == [n \in 0..(m + 1) |-> IF n = m + 1 THEN Level(m + 1, f) ELSE f[n]]
  <2>2. \A n \in 0..m : g[n] = f[n] /\ n \in 0..(m + 1)
    OBVIOUS
  <2>3. g[m + 1] = Level(m + 1, f) /\ (m + 1) - 1 = m /\ m \in 0..m
    OBVIOUS
  <2>. HIDE DEF g
  <2>4. ASSUME NEW n \in 0..(m + 1)
        PROVE  g[n] = Level(n, g)
    <3>1. CASE n = m + 1
      <4>1. g[n - 1] = f[n - 1] /\ g[n] = Level(n, f)
        BY <3>1, <2>2, <2>3
      <4>. QED
        BY <4>1, <3>1
    <3>2. CASE n = 0
      <4>1. n \in 0..m /\ f[n] = Level(n, f)
        BY <3>2, <2>1
      <4>. QED
        BY <4>1, <3>2, <2>2
    <3>3. CASE n # m + 1 /\ n # 0
      <4>1. n \in 0..m /\ n - 1 \in 0..m
        BY <3>3
      <4>2. g[n - 1] = f[n - 1] /\ g[n] = f[n] /\ f[n] = Level(n, f)
        BY <4>1, <2>1, <2>2
      <4>. QED
        BY <4>2, <3>3
    <3>. QED
      BY <3>1, <3>2, <3>3
  <2>5. g = [n \in 0..(m + 1) |-> Level(n, g)]
    <3>. HIDE DEF Level
    <3>1. g = [n \in 0..(m + 1) |-> g[n]]
      BY DEF g
    <3>. QED
      BY <2>4, <3>1
  <2>. HIDE DEF Level
  <2>. QED
    BY <2>5
<1>. HIDE DEF Level, Solves
<1>3. MaxNesting \in T
  <2>. HIDE DEF T
  <2>1. \A n \in 0..MaxNesting : n \in T
    BY <1>0, <1>1, <1>2, NumberByNumber
  <2>. QED
    BY <1>0, <2>1
<1>4. \E h : Solves(h, MaxNesting)
  BY <1>3
<1>. DEFINE Whole(h) == h = [n \in 0..MaxNesting |-> Level(n, h)]
<1>5. \E h : Whole(h)
  BY <1>4 DEF Solves
<1>6. Formatted = CHOOSE h : Whole(h)
  BY DEF Formatted, Level
<1>7. Whole(Formatted)
  BY <1>5, <1>6
<1>. QED
  BY <1>7 DEF Level

\* What is left of them.
LEMMA RedactionLevels ==
  \A n \in 0..MaxNesting :
    Redaction[n] = IF n = 0 THEN [value \in Json[n] |-> Redact(value, <<>>)]
             ELSE [value \in Json[n] |-> Redact(value, Redaction[n - 1])]
<1>. DEFINE Level(n, h) == IF n = 0 THEN [value \in Json[n] |-> Redact(value, <<>>)]
                           ELSE [value \in Json[n] |-> Redact(value, h[n - 1])]
            Solves(h, m) == h = [n \in 0..m |-> Level(n, h)]
            T == {m \in Nat : \E h : Solves(h, m)}
<1>0. MaxNesting \in Nat
  BY NestingIsBounded
<1>1. 0 \in T
  <2>. DEFINE h == [n \in 0..0 |-> [value \in Json[n] |-> Redact(value, <<>>)]]
  <2>1. \A n \in 0..0 : h[n] = Level(n, h)
    OBVIOUS
  <2>. HIDE DEF Level
  <2>2. Solves(h, 0)
    BY <2>1
  <2>. QED
    BY <2>2
<1>2. ASSUME NEW m \in Nat, m \in T
      PROVE  m + 1 \in T
  <2>1. PICK f : Solves(f, m)
    BY <1>2
  <2>. DEFINE g == [n \in 0..(m + 1) |-> IF n = m + 1 THEN Level(m + 1, f) ELSE f[n]]
  <2>2. \A n \in 0..m : g[n] = f[n] /\ n \in 0..(m + 1)
    OBVIOUS
  <2>3. g[m + 1] = Level(m + 1, f) /\ (m + 1) - 1 = m /\ m \in 0..m
    OBVIOUS
  <2>. HIDE DEF g
  <2>4. ASSUME NEW n \in 0..(m + 1)
        PROVE  g[n] = Level(n, g)
    <3>1. CASE n = m + 1
      <4>1. g[n - 1] = f[n - 1] /\ g[n] = Level(n, f)
        BY <3>1, <2>2, <2>3
      <4>. QED
        BY <4>1, <3>1
    <3>2. CASE n = 0
      <4>1. n \in 0..m /\ f[n] = Level(n, f)
        BY <3>2, <2>1
      <4>. QED
        BY <4>1, <3>2, <2>2
    <3>3. CASE n # m + 1 /\ n # 0
      <4>1. n \in 0..m /\ n - 1 \in 0..m
        BY <3>3
      <4>2. g[n - 1] = f[n - 1] /\ g[n] = f[n] /\ f[n] = Level(n, f)
        BY <4>1, <2>1, <2>2
      <4>. QED
        BY <4>2, <3>3
    <3>. QED
      BY <3>1, <3>2, <3>3
  <2>5. g = [n \in 0..(m + 1) |-> Level(n, g)]
    <3>. HIDE DEF Level
    <3>1. g = [n \in 0..(m + 1) |-> g[n]]
      BY DEF g
    <3>. QED
      BY <2>4, <3>1
  <2>. HIDE DEF Level
  <2>. QED
    BY <2>5
<1>. HIDE DEF Level, Solves
<1>3. MaxNesting \in T
  <2>. HIDE DEF T
  <2>1. \A n \in 0..MaxNesting : n \in T
    BY <1>0, <1>1, <1>2, NumberByNumber
  <2>. QED
    BY <1>0, <2>1
<1>4. \E h : Solves(h, MaxNesting)
  BY <1>3
<1>. DEFINE Whole(h) == h = [n \in 0..MaxNesting |-> Level(n, h)]
<1>5. \E h : Whole(h)
  BY <1>4 DEF Solves
<1>6. Redaction = CHOOSE h : Whole(h)
  BY DEF Redaction, Level
<1>7. Whole(Redaction)
  BY <1>5, <1>6
<1>. QED
  BY <1>7 DEF Level

\* The parts of a text, one after another.
LEMMA CommasTurns ==
  ASSUME NEW parts, Len(parts) \in Nat
  PROVE  \E f : /\ f[0] = <<>> /\ f[Len(parts)] = Commas(parts)
                /\ \A n \in 1..Len(parts) :
                     f[n] = WithPart(f[n - 1], n, parts[n])
<1>. DEFINE Level(n, h) == IF n = 0 THEN <<>> ELSE WithPart(h[n - 1], n, parts[n])
            Solves(h, m) == h = [n \in 0..m |-> Level(n, h)]
            T == {m \in Nat : \E h : Solves(h, m)}
<1>0. Len(parts) \in Nat
  OBVIOUS
<1>1. 0 \in T
  <2>. DEFINE h == [n \in 0..0 |-> <<>>]
  <2>1. \A n \in 0..0 : h[n] = Level(n, h)
    OBVIOUS
  <2>. HIDE DEF Level
  <2>2. Solves(h, 0)
    BY <2>1
  <2>. QED
    BY <2>2
<1>2. ASSUME NEW m \in Nat, m \in T
      PROVE  m + 1 \in T
  <2>1. PICK f : Solves(f, m)
    BY <1>2
  <2>. DEFINE g == [n \in 0..(m + 1) |-> IF n = m + 1 THEN Level(m + 1, f) ELSE f[n]]
  <2>2. \A n \in 0..m : g[n] = f[n] /\ n \in 0..(m + 1)
    OBVIOUS
  <2>3. g[m + 1] = Level(m + 1, f) /\ (m + 1) - 1 = m /\ m \in 0..m
    OBVIOUS
  <2>. HIDE DEF g
  <2>4. ASSUME NEW n \in 0..(m + 1)
        PROVE  g[n] = Level(n, g)
    <3>1. CASE n = m + 1
      <4>1. g[n - 1] = f[n - 1] /\ g[n] = Level(n, f)
        BY <3>1, <2>2, <2>3
      <4>. QED
        BY <4>1, <3>1
    <3>2. CASE n = 0
      <4>1. n \in 0..m /\ f[n] = Level(n, f)
        BY <3>2, <2>1
      <4>. QED
        BY <4>1, <3>2, <2>2
    <3>3. CASE n # m + 1 /\ n # 0
      <4>1. n \in 0..m /\ n - 1 \in 0..m
        BY <3>3
      <4>2. g[n - 1] = f[n - 1] /\ g[n] = f[n] /\ f[n] = Level(n, f)
        BY <4>1, <2>1, <2>2
      <4>. QED
        BY <4>2, <3>3
    <3>. QED
      BY <3>1, <3>2, <3>3
  <2>5. g = [n \in 0..(m + 1) |-> Level(n, g)]
    <3>. HIDE DEF Level
    <3>1. g = [n \in 0..(m + 1) |-> g[n]]
      BY DEF g
    <3>. QED
      BY <2>4, <3>1
  <2>. HIDE DEF Level
  <2>. QED
    BY <2>5
<1>. HIDE DEF Level, Solves
<1>3. Len(parts) \in T
  <2>. HIDE DEF T
  <2>1. \A n \in 0..Len(parts) : n \in T
    BY <1>0, <1>1, <1>2, NumberByNumber
  <2>. QED
    BY <1>0, <2>1
<1>4. \E h : Solves(h, Len(parts))
  BY <1>3
<1>. DEFINE Whole(h) == h = [n \in 0..Len(parts) |-> Level(n, h)]
            f == CHOOSE h : Whole(h)
<1>5. \E h : Whole(h)
  BY <1>4 DEF Solves
<1>6. Commas(parts) = f[Len(parts)]
  BY DEF Commas, Level
<1>7. Whole(f)
  BY <1>5
<1>. HIDE DEF f
<1>8. \A n \in 0..Len(parts) : f[n] = Level(n, f)
  BY <1>7
<1>9. f[0] = <<>>
  BY <1>0, <1>8 DEF Level
<1>10. \A n \in 1..Len(parts) : f[n] = WithPart(f[n - 1], n, parts[n])
  BY <1>0, <1>8 DEF Level
<1>. QED
  BY <1>6, <1>9, <1>10

\* The turns of the scanner.
LEMMA ReadTurns ==
  ASSUME NEW line, Len(line) \in Nat
  PROVE  \E f : /\ f[0] = [place |-> 1, out |-> <<>>]
                /\ RedactJsonFields(line) = f[Len(line)].out
                /\ \A n \in 1..Len(line) : f[n] = ReadOn(line, f[n - 1])
<1>. DEFINE Level(n, h) == IF n = 0 THEN [place |-> 1, out |-> <<>>] ELSE ReadOn(line, h[n - 1])
            Solves(h, m) == h = [n \in 0..m |-> Level(n, h)]
            T == {m \in Nat : \E h : Solves(h, m)}
<1>0. Len(line) \in Nat
  OBVIOUS
<1>1. 0 \in T
  <2>. DEFINE h == [n \in 0..0 |-> [place |-> 1, out |-> <<>>]]
  <2>1. \A n \in 0..0 : h[n] = Level(n, h)
    OBVIOUS
  <2>. HIDE DEF Level
  <2>2. Solves(h, 0)
    BY <2>1
  <2>. QED
    BY <2>2
<1>2. ASSUME NEW m \in Nat, m \in T
      PROVE  m + 1 \in T
  <2>1. PICK f : Solves(f, m)
    BY <1>2
  <2>. DEFINE g == [n \in 0..(m + 1) |-> IF n = m + 1 THEN Level(m + 1, f) ELSE f[n]]
  <2>2. \A n \in 0..m : g[n] = f[n] /\ n \in 0..(m + 1)
    OBVIOUS
  <2>3. g[m + 1] = Level(m + 1, f) /\ (m + 1) - 1 = m /\ m \in 0..m
    OBVIOUS
  <2>. HIDE DEF g
  <2>4. ASSUME NEW n \in 0..(m + 1)
        PROVE  g[n] = Level(n, g)
    <3>1. CASE n = m + 1
      <4>1. g[n - 1] = f[n - 1] /\ g[n] = Level(n, f)
        BY <3>1, <2>2, <2>3
      <4>. QED
        BY <4>1, <3>1
    <3>2. CASE n = 0
      <4>1. n \in 0..m /\ f[n] = Level(n, f)
        BY <3>2, <2>1
      <4>. QED
        BY <4>1, <3>2, <2>2
    <3>3. CASE n # m + 1 /\ n # 0
      <4>1. n \in 0..m /\ n - 1 \in 0..m
        BY <3>3
      <4>2. g[n - 1] = f[n - 1] /\ g[n] = f[n] /\ f[n] = Level(n, f)
        BY <4>1, <2>1, <2>2
      <4>. QED
        BY <4>2, <3>3
    <3>. QED
      BY <3>1, <3>2, <3>3
  <2>5. g = [n \in 0..(m + 1) |-> Level(n, g)]
    <3>. HIDE DEF Level
    <3>1. g = [n \in 0..(m + 1) |-> g[n]]
      BY DEF g
    <3>. QED
      BY <2>4, <3>1
  <2>. HIDE DEF Level
  <2>. QED
    BY <2>5
<1>. HIDE DEF Level, Solves
<1>3. Len(line) \in T
  <2>. HIDE DEF T
  <2>1. \A n \in 0..Len(line) : n \in T
    BY <1>0, <1>1, <1>2, NumberByNumber
  <2>. QED
    BY <1>0, <2>1
<1>4. \E h : Solves(h, Len(line))
  BY <1>3
<1>. DEFINE Whole(h) == h = [n \in 0..Len(line) |-> Level(n, h)]
            f == CHOOSE h : Whole(h)
<1>5. \E h : Whole(h)
  BY <1>4 DEF Solves
<1>6. RedactJsonFields(line) = f[Len(line)].out
  BY DEF RedactJsonFields, Level
<1>7. Whole(f)
  BY <1>5
<1>. HIDE DEF f
<1>8. \A n \in 0..Len(line) : f[n] = Level(n, f)
  BY <1>7
<1>9. f[0] = [place |-> 1, out |-> <<>>]
  BY <1>0, <1>8 DEF Level
<1>10. \A n \in 1..Len(line) : f[n] = ReadOn(line, f[n - 1])
  BY <1>0, <1>8 DEF Level
<1>. QED
  BY <1>6, <1>9, <1>10

-----------------------------------------------------------------------------
\* The types of texts and of values

LineTokens == FieldNames \cup Punctuation \cup {"text", "literal", "redaction"}
Lines == Seq(LineTokens)

LEMMA CommasIsLine ==
  ASSUME NEW parts \in Seq(Lines)
  PROVE  Commas(parts) \in Lines
<1>1. Len(parts) \in Nat /\ \A n \in 1..Len(parts) : parts[n] \in Lines
  OBVIOUS
<1>2. PICK f :
        /\ f[0] = <<>> /\ f[Len(parts)] = Commas(parts)
        /\ \A n \in 1..Len(parts) :
             f[n] = WithPart(f[n - 1], n, parts[n])
  BY <1>1, CommasTurns
<1>3. <<>> \in Lines /\ <<"comma">> \in Lines /\ \A a, b \in Lines : a \o b \in Lines
  BY DEF Lines, LineTokens, Punctuation
<1>. DEFINE T == {n \in Nat : f[n] \in Lines}
<1>4. 0 \in T
  BY <1>2, <1>3
<1>5. ASSUME NEW n \in Nat, n < Len(parts), n \in T
      PROVE  n + 1 \in T
  <2>1. n + 1 \in 1..Len(parts) /\ (n + 1) - 1 = n /\ f[n] \in Lines
    BY <1>1, <1>5
  <2>2. f[n + 1] = WithPart(f[n], n + 1, parts[n + 1])
    BY <1>2, <2>1
  <2>3. parts[n + 1] \in Lines
    BY <1>1, <2>1
  <2>. DEFINE comma == IF n + 1 = 1 THEN <<>> ELSE <<"comma">>
  <2>4. comma \in Lines
    BY <1>3
  <2>5. f[n + 1] = f[n] \o comma \o parts[n + 1]
    BY <2>2 DEF WithPart
  <2>. HIDE DEF comma
  <2>6. f[n] \o comma \in Lines
    BY <1>3, <2>1, <2>4
  <2>7. f[n + 1] \in Lines
    BY <1>3, <2>3, <2>5, <2>6, Zenon
  <2>. QED
    BY <2>7
<1>6. \A n \in 0..Len(parts) : n \in T
  <2>. HIDE DEF T
  <2>. QED
    BY <1>1, <1>4, <1>5, NumberByNumber
<1>. QED
  BY <1>1, <1>2, <1>6

\* A value is a scalar, or has fields or items that are less nested.
IsObject(v, values) ==
  v = Object(v.fields) /\ v.kind = "object" /\ v.fields \in Seq(Fields(values))
IsArray(v, values) ==
  v = Array(v.items) /\ v.kind = "array" /\ v.items \in Seq(values)

LEMMA JsonIs ==
  ASSUME NEW n \in 0..MaxNesting
  PROVE  /\ n = 0 => Json[n] = Scalars
         /\ n # 0 => /\ Json[n] = Scalars \cup Nested(Json[n - 1])
                     /\ n > 0 /\ n - 1 \in 0..MaxNesting
<1>1. Json[n] = IF n = 0 THEN Scalars ELSE Scalars \cup Nested(Json[n - 1])
  BY JsonLevels, Zenon
<1>2. n = 0 => Json[n] = Scalars
  BY <1>1, Zenon
<1>3. n # 0 => Json[n] = Scalars \cup Nested(Json[n - 1])
  BY <1>1, Zenon
<1>4. n # 0 => n > 0 /\ n - 1 \in 0..MaxNesting
  BY NestingIsBounded
<1>. QED
  BY <1>2, <1>3, <1>4, Zenon

LEMMA ValueIs ==
  ASSUME NEW n \in 0..MaxNesting, NEW v \in Json[n]
  PROVE  \/ v \in Scalars
         \/ n > 0 /\ (IsObject(v, Json[n - 1]) \/ IsArray(v, Json[n - 1]))
<1>1. CASE n = 0
  <2>1. Json[n] = Scalars /\ ~(n > 0)
    <3>1. Json[n] = Scalars
      BY <1>1, JsonIs, Zenon
    <3>. QED
      BY <1>1, <3>1
  <2>. QED
    BY <2>1, Zenon
<1>2. CASE n # 0
  <2>1. Json[n] = Scalars \cup Nested(Json[n - 1]) /\ n > 0
    BY <1>2, JsonIs, Zenon
  <2>2. v \in Scalars \/ v \in Nested(Json[n - 1])
    BY <2>1
  <2>. QED
    BY <2>1, <2>2 DEF Nested, IsObject, IsArray, Object, Array
<1>. QED
  BY <1>1, <1>2

LEMMA ValuesInside ==
  ASSUME NEW n \in 0..MaxNesting
  PROVE  /\ Scalars \subseteq Json[n]
         /\ n > 0 => /\ \A s \in Seq(Fields(Json[n - 1])) : Object(s) \in Json[n]
                     /\ \A s \in Seq(Json[n - 1]) : Array(s) \in Json[n]
<1>1. CASE n = 0
  <2>1. Json[n] = Scalars /\ ~(n > 0)
    <3>1. Json[n] = Scalars
      BY <1>1, JsonIs, Zenon
    <3>. QED
      BY <1>1, <3>1
  <2>. QED
    BY <2>1, Zenon
<1>2. CASE n # 0
  <2>1. Json[n] = Scalars \cup Nested(Json[n - 1]) /\ n > 0
    BY <1>2, JsonIs, Zenon
  <2>. QED
    BY <2>1 DEF Nested, Object, Array
<1>. QED
  BY <1>1, <1>2

\* The texts between the brackets of a value.
FieldTexts(s, texts) == [i \in DOMAIN s |-> <<s[i].key, "colon">> \o texts[s[i].value]]
ItemTexts(s, texts) == [i \in DOMAIN s |-> texts[s[i]]]

ScalarText(v) ==
  IF v.kind = "text" THEN "text" ELSE IF v.kind = "number" THEN "literal" ELSE "redaction"

LEMMA FormatIs ==
  ASSUME NEW v, NEW texts
  PROVE  /\ v \in Scalars => Format(v, texts) = <<ScalarText(v)>>
         /\ v.kind = "object" =>
              Format(v, texts) = <<"lbrace">> \o Commas(FieldTexts(v.fields, texts)) \o <<"rbrace">>
         /\ v.kind = "array" =>
              Format(v, texts) = <<"lbracket">> \o Commas(ItemTexts(v.items, texts)) \o <<"rbracket">>
<1>1. v \in Scalars => Format(v, texts) = <<ScalarText(v)>>
  BY DEF Scalars, Text, Number, Redacted, Format, ScalarText
<1>2. v.kind = "object" =>
        Format(v, texts) = <<"lbrace">> \o Commas(FieldTexts(v.fields, texts)) \o <<"rbrace">>
  BY DEF Format, FieldTexts
<1>3. v.kind = "array" =>
        Format(v, texts) = <<"lbracket">> \o Commas(ItemTexts(v.items, texts)) \o <<"rbracket">>
  BY DEF Format, ItemTexts
<1>. QED
  BY <1>1, <1>2, <1>3

LEMMA PartsAreLines ==
  ASSUME NEW values, NEW texts \in [values -> Lines]
  PROVE  /\ \A s \in Seq(Fields(values)) : FieldTexts(s, texts) \in Seq(Lines)
         /\ \A s \in Seq(values) : ItemTexts(s, texts) \in Seq(Lines)
<1>1. ASSUME NEW s \in Seq(Fields(values))
      PROVE  FieldTexts(s, texts) \in Seq(Lines)
  <2>0. \A i \in DOMAIN s : s[i] \in Fields(values)
    OBVIOUS
  <2>1. \A i \in DOMAIN s : s[i].key \in FieldNames /\ s[i].value \in values
    BY <2>0 DEF Fields
  <2>2. \A i \in DOMAIN s : <<s[i].key, "colon">> \in Lines /\ texts[s[i].value] \in Lines
    BY <2>1 DEF Lines, LineTokens, Punctuation
  <2>3. \A a, b \in Lines : a \o b \in Lines
    BY DEF Lines
  <2>4. \A i \in DOMAIN s : <<s[i].key, "colon">> \o texts[s[i].value] \in Lines
    BY <2>2, <2>3
  <2>5. DOMAIN s = 1..Len(s) /\ Len(s) \in Nat
    OBVIOUS
  <2>. QED
    BY <2>4, <2>5 DEF FieldTexts
<1>2. ASSUME NEW s \in Seq(values)
      PROVE  ItemTexts(s, texts) \in Seq(Lines)
  <2>1. \A i \in DOMAIN s : texts[s[i]] \in Lines
    OBVIOUS
  <2>2. DOMAIN s = 1..Len(s) /\ Len(s) \in Nat
    OBVIOUS
  <2>. QED
    BY <2>1, <2>2 DEF ItemTexts
<1>. QED
  BY <1>1, <1>2

LEMMA TextsAreLines ==
  \A n \in 0..MaxNesting : Formatted[n] \in [Json[n] -> Lines]
<1>. DEFINE T == {n \in Nat : Formatted[n] \in [Json[n] -> Lines]}
<1>1. \A v \in Scalars : <<ScalarText(v)>> \in Lines
  BY DEF ScalarText, Lines, LineTokens
<1>2. 0 \in T
  <2>0. 0 \in 0..MaxNesting
    BY NestingIsBounded
  <2>1. Formatted[0] = [v \in Json[0] |-> Format(v, <<>>)] /\ Json[0] = Scalars
    BY <2>0, FormattedLevels, JsonIs
  <2>. QED
    BY <1>1, <2>1, FormatIs
<1>3. ASSUME NEW n \in Nat, n < MaxNesting, n \in T
      PROVE  n + 1 \in T
  <2>1. n + 1 \in 0..MaxNesting /\ n + 1 # 0 /\ (n + 1) - 1 = n
    BY <1>3, NestingIsBounded
  <2>2. Formatted[n + 1] = [v \in Json[n + 1] |-> Format(v, Formatted[n])]
    BY <2>1, FormattedLevels
  <2>3. Formatted[n] \in [Json[n] -> Lines]
    BY <1>3
  <2>4. ASSUME NEW v \in Json[n + 1]
        PROVE  Format(v, Formatted[n]) \in Lines
    <3>1. \A a, b \in Lines : a \o b \in Lines
      BY DEF Lines
    <3>2. \A b \in Brackets : <<b>> \in Lines
      BY DEF Lines, LineTokens, Punctuation
    <3>3. CASE v \in Scalars
      BY <1>1, <3>3, FormatIs
    <3>4. CASE IsObject(v, Json[n])
      <4>1. Commas(FieldTexts(v.fields, Formatted[n])) \in Lines
        BY <2>3, <3>4, PartsAreLines, CommasIsLine DEF IsObject
      <4>2. Format(v, Formatted[n]) = <<"lbrace">> \o Commas(FieldTexts(v.fields, Formatted[n])) \o <<"rbrace">>
        BY <3>4, FormatIs DEF IsObject
      <4>3. <<"lbrace">> \in Lines /\ <<"rbrace">> \in Lines
        BY <3>2 DEF Brackets
      <4>. QED
        BY <3>1, <4>1, <4>2, <4>3
    <3>5. CASE IsArray(v, Json[n])
      <4>1. Commas(ItemTexts(v.items, Formatted[n])) \in Lines
        BY <2>3, <3>5, PartsAreLines, CommasIsLine DEF IsArray
      <4>2. Format(v, Formatted[n]) = <<"lbracket">> \o Commas(ItemTexts(v.items, Formatted[n])) \o <<"rbracket">>
        BY <3>5, FormatIs DEF IsArray
      <4>3. <<"lbracket">> \in Lines /\ <<"rbracket">> \in Lines
        BY <3>2 DEF Brackets
      <4>. QED
        BY <3>1, <4>1, <4>2, <4>3
    <3>. QED
      BY <2>1, <3>3, <3>4, <3>5, ValueIs
  <2>. QED
    BY <2>2, <2>4
<1>4. \A n \in 0..MaxNesting : n \in T
  <2>. HIDE DEF T
  <2>. QED
    BY <1>2, <1>3, NestingIsBounded, NumberByNumber
<1>. QED
  BY <1>4

\* A value on level n, its text, and what redaction makes of it.
CleanFields(s, inner) ==
  [i \in DOMAIN s |-> [key   |-> s[i].key,
                       value |-> IF s[i].key \in SENSITIVE_FIELDS THEN Redacted
                                 ELSE inner[s[i].value]]]
CleanItems(s, inner) == [i \in DOMAIN s |-> inner[s[i]]]

LEMMA RedactIs ==
  ASSUME NEW v, NEW inner
  PROVE  /\ v \in Scalars => Redact(v, inner) = v
         /\ v.kind = "object" => Redact(v, inner) = Object(CleanFields(v.fields, inner))
         /\ v.kind = "array" => Redact(v, inner) = Array(CleanItems(v.items, inner))
<1>1. v \in Scalars => Redact(v, inner) = v
  BY DEF Scalars, Text, Number, Redacted, Redact
<1>2. v.kind = "object" => Redact(v, inner) = Object(CleanFields(v.fields, inner))
  BY DEF Redact, CleanFields
<1>3. v.kind = "array" => Redact(v, inner) = Array(CleanItems(v.items, inner))
  BY DEF Redact, CleanItems
<1>. QED
  BY <1>1, <1>2, <1>3

LEMMA CleanIsJson ==
  ASSUME NEW values, NEW inner \in [values -> values], Redacted \in values
  PROVE  /\ \A s \in Seq(Fields(values)) : CleanFields(s, inner) \in Seq(Fields(values))
         /\ \A s \in Seq(values) : CleanItems(s, inner) \in Seq(values)
<1>1. ASSUME NEW s \in Seq(Fields(values))
      PROVE  CleanFields(s, inner) \in Seq(Fields(values))
  <2>0. DOMAIN s = 1..Len(s) /\ Len(s) \in Nat /\ \A i \in DOMAIN s : s[i] \in Fields(values)
    OBVIOUS
  <2>1. \A i \in DOMAIN s : s[i].key \in FieldNames /\ inner[s[i].value] \in values
    BY <2>0 DEF Fields
  <2>2. \A i \in DOMAIN s : CleanFields(s, inner)[i] \in Fields(values)
    BY <2>1 DEF CleanFields, Fields
  <2>3. DOMAIN CleanFields(s, inner) = 1..Len(s)
    BY <2>0 DEF CleanFields
  <2>4. CleanFields(s, inner) = [i \in 1..Len(s) |-> CleanFields(s, inner)[i]]
    BY <2>0 DEF CleanFields
  <2>. QED
    BY <2>0, <2>2, <2>4
<1>2. ASSUME NEW s \in Seq(values)
      PROVE  CleanItems(s, inner) \in Seq(values)
  <2>1. DOMAIN s = 1..Len(s) /\ Len(s) \in Nat /\ \A i \in DOMAIN s : inner[s[i]] \in values
    OBVIOUS
  <2>. QED
    BY <2>1 DEF CleanItems
<1>. QED
  BY <1>1, <1>2

LEMMA CleanIsOnLevel ==
  \A n \in 0..MaxNesting : Redaction[n] \in [Json[n] -> Json[n]]
<1>. DEFINE T == {n \in Nat : Redaction[n] \in [Json[n] -> Json[n]]}
<1>2. 0 \in T
  <2>0. 0 \in 0..MaxNesting
    BY NestingIsBounded
  <2>1. Redaction[0] = [v \in Json[0] |-> Redact(v, <<>>)] /\ Json[0] = Scalars
    BY <2>0, RedactionLevels, JsonIs
  <2>. QED
    BY <2>1, RedactIs
<1>3. ASSUME NEW n \in Nat, n < MaxNesting, n \in T
      PROVE  n + 1 \in T
  <2>1. n + 1 \in 0..MaxNesting /\ n + 1 # 0 /\ (n + 1) - 1 = n /\ n + 1 > 0 /\ n \in 0..MaxNesting
    BY <1>3, NestingIsBounded
  <2>2. Redaction[n + 1] = [v \in Json[n + 1] |-> Redact(v, Redaction[n])]
    BY <2>1, RedactionLevels
  <2>3. Redaction[n] \in [Json[n] -> Json[n]]
    BY <1>3
  <2>4. Redacted \in Json[n]
    BY <2>1, ValuesInside DEF Scalars
  <2>5. ASSUME NEW v \in Json[n + 1]
        PROVE  Redact(v, Redaction[n]) \in Json[n + 1]
    <3>3. CASE v \in Scalars
      BY <3>3, RedactIs
    <3>4. CASE IsObject(v, Json[n])
      <4>1. CleanFields(v.fields, Redaction[n]) \in Seq(Fields(Json[n]))
        BY <2>3, <2>4, <3>4, CleanIsJson DEF IsObject
      <4>2. Redact(v, Redaction[n]) = Object(CleanFields(v.fields, Redaction[n]))
        BY <3>4, RedactIs DEF IsObject
      <4>. QED
        BY <2>1, <4>1, <4>2, ValuesInside
    <3>5. CASE IsArray(v, Json[n])
      <4>1. CleanItems(v.items, Redaction[n]) \in Seq(Json[n])
        BY <2>3, <2>4, <3>5, CleanIsJson DEF IsArray
      <4>2. Redact(v, Redaction[n]) = Array(CleanItems(v.items, Redaction[n]))
        BY <3>5, RedactIs DEF IsArray
      <4>. QED
        BY <2>1, <4>1, <4>2, ValuesInside
    <3>. QED
      BY <2>1, <3>3, <3>4, <3>5, ValueIs
  <2>. QED
    BY <2>2, <2>5
<1>4. \A n \in 0..MaxNesting : n \in T
  <2>. HIDE DEF T
  <2>. QED
    BY <1>2, <1>3, NestingIsBounded, NumberByNumber
<1>. QED
  BY <1>4

\* What is known of a value on level n.
IsScalar(n, v) ==
  /\ v \in Scalars
  /\ Formatted[n][v] = <<ScalarText(v)>> /\ Redaction[n][v] = v
IsFields(n, v) ==
  /\ n > 0 /\ n - 1 \in 0..MaxNesting
  /\ IsObject(v, Json[n - 1])
  /\ Formatted[n][v] =
       <<"lbrace">> \o Commas(FieldTexts(v.fields, Formatted[n - 1])) \o <<"rbrace">>
  /\ LET clean == CleanFields(v.fields, Redaction[n - 1]) IN
       /\ clean \in Seq(Fields(Json[n - 1])) /\ Redaction[n][v] = Object(clean)
       /\ Formatted[n][Redaction[n][v]] =
            <<"lbrace">> \o Commas(FieldTexts(clean, Formatted[n - 1])) \o <<"rbrace">>
IsItems(n, v) ==
  /\ n > 0 /\ n - 1 \in 0..MaxNesting
  /\ IsArray(v, Json[n - 1])
  /\ Formatted[n][v] =
       <<"lbracket">> \o Commas(ItemTexts(v.items, Formatted[n - 1])) \o <<"rbracket">>
  /\ LET clean == CleanItems(v.items, Redaction[n - 1]) IN
       /\ clean \in Seq(Json[n - 1]) /\ Redaction[n][v] = Array(clean)
       /\ Formatted[n][Redaction[n][v]] =
            <<"lbracket">> \o Commas(ItemTexts(clean, Formatted[n - 1])) \o <<"rbracket">>

LEMMA TextIs ==
  ASSUME NEW n \in 0..MaxNesting, NEW v \in Json[n]
  PROVE  IsScalar(n, v) \/ IsFields(n, v) \/ IsItems(n, v)
<1>. DEFINE texts == IF n = 0 THEN <<>> ELSE Formatted[n - 1]
            inner == IF n = 0 THEN <<>> ELSE Redaction[n - 1]
<1>1. \A w \in Json[n] : Formatted[n][w] = Format(w, texts)
  BY FormattedLevels
<1>2. Redaction[n][v] = Redact(v, inner)
  BY RedactionLevels
<1>3. Redaction[n][v] \in Json[n]
  BY CleanIsOnLevel
<1>4. CASE v \in Scalars
  <2>1. Formatted[n][v] = <<ScalarText(v)>> /\ Redaction[n][v] = v
    BY <1>1, <1>2, <1>4, FormatIs, RedactIs
  <2>. QED
    BY <1>4, <2>1 DEF IsScalar
<1>5. CASE n > 0 /\ IsObject(v, Json[n - 1])
  <2>1. n - 1 \in 0..MaxNesting /\ texts = Formatted[n - 1] /\ inner = Redaction[n - 1]
    BY <1>5, NestingIsBounded
  <2>. DEFINE clean == CleanFields(v.fields, Redaction[n - 1])
  <2>2. v.kind = "object" /\ v.fields \in Seq(Fields(Json[n - 1]))
    BY <1>5 DEF IsObject
  <2>3. Redacted \in Json[n - 1]
    BY <2>1, ValuesInside DEF Scalars
  <2>4. clean \in Seq(Fields(Json[n - 1]))
    BY <2>1, <2>2, <2>3, CleanIsOnLevel, CleanIsJson
  <2>5. Redaction[n][v] = Object(clean)
    BY <1>2, <2>1, <2>2, RedactIs
  <2>. HIDE DEF clean
  <2>6. Object(clean).kind = "object" /\ Object(clean).fields = clean
    BY DEF Object
  <2>7. Formatted[n][Object(clean)] =
          <<"lbrace">> \o Commas(FieldTexts(clean, Formatted[n - 1])) \o <<"rbrace">>
    <3>. DEFINE w == Object(clean)
    <3>1. w \in Json[n] /\ w.kind = "object" /\ w.fields = clean
      BY <1>3, <2>5, <2>6
    <3>. HIDE DEF w
    <3>2. Formatted[n][w] = Format(w, Formatted[n - 1])
      BY <1>1, <2>1, <3>1
    <3>3. Format(w, Formatted[n - 1]) =
            <<"lbrace">> \o Commas(FieldTexts(w.fields, Formatted[n - 1])) \o <<"rbrace">>
      BY <3>1, FormatIs, Zenon
    <3>. QED
      BY <3>1, <3>2, <3>3, Zenon DEF w
  <2>8. Formatted[n][v] =
          <<"lbrace">> \o Commas(FieldTexts(v.fields, Formatted[n - 1])) \o <<"rbrace">>
    BY <1>1, <2>1, <2>2, FormatIs
  <2>. QED
    BY <1>5, <2>1, <2>4, <2>5, <2>7, <2>8 DEF IsFields, clean
<1>6. CASE n > 0 /\ IsArray(v, Json[n - 1])
  <2>1. n - 1 \in 0..MaxNesting /\ texts = Formatted[n - 1] /\ inner = Redaction[n - 1]
    BY <1>6, NestingIsBounded
  <2>. DEFINE clean == CleanItems(v.items, Redaction[n - 1])
  <2>2. v.kind = "array" /\ v.items \in Seq(Json[n - 1])
    BY <1>6 DEF IsArray
  <2>3. Redacted \in Json[n - 1]
    BY <2>1, ValuesInside DEF Scalars
  <2>4. clean \in Seq(Json[n - 1])
    BY <2>1, <2>2, <2>3, CleanIsOnLevel, CleanIsJson
  <2>5. Redaction[n][v] = Array(clean)
    BY <1>2, <2>1, <2>2, RedactIs
  <2>. HIDE DEF clean
  <2>6. Array(clean).kind = "array" /\ Array(clean).items = clean
    BY DEF Array
  <2>7. Formatted[n][Array(clean)] =
          <<"lbracket">> \o Commas(ItemTexts(clean, Formatted[n - 1])) \o <<"rbracket">>
    <3>. DEFINE w == Array(clean)
    <3>1. w \in Json[n] /\ w.kind = "array" /\ w.items = clean
      BY <1>3, <2>5, <2>6
    <3>. HIDE DEF w
    <3>2. Formatted[n][w] = Format(w, Formatted[n - 1])
      BY <1>1, <2>1, <3>1
    <3>3. Format(w, Formatted[n - 1]) =
            <<"lbracket">> \o Commas(ItemTexts(w.items, Formatted[n - 1])) \o <<"rbracket">>
      BY <3>1, FormatIs, Zenon
    <3>. QED
      BY <3>1, <3>2, <3>3, Zenon DEF w
  <2>8. Formatted[n][v] =
          <<"lbracket">> \o Commas(ItemTexts(v.items, Formatted[n - 1])) \o <<"rbracket">>
    BY <1>1, <2>1, <2>2, FormatIs
  <2>. QED
    BY <1>6, <2>1, <2>4, <2>5, <2>7, <2>8 DEF IsItems, clean
<1>. QED
  BY <1>4, <1>5, <1>6, ValueIs

-----------------------------------------------------------------------------
\* Texts in a line

\* The text s stands in the line, from place i on.
Holds(line, i, s) ==
  /\ line \in Lines /\ s \in Lines /\ i \in Nat /\ i > 0
  /\ i + Len(s) - 1 <= Len(line)
  /\ \A j \in 1..Len(s) : line[i + j - 1] = s[j]

IsBoth(s, a, b) == a \in Lines /\ b \in Lines /\ s = a \o b
HoldsInTurn(line, i, s, a, b) ==
  /\ Holds(line, i, a) /\ Holds(line, i + Len(a), b)
  /\ Len(s) = Len(a) + Len(b) /\ Len(a) \in Nat /\ Len(b) \in Nat

LEMMA HoldsBoth ==
  ASSUME NEW line, NEW i, NEW s, NEW a, NEW b, IsBoth(s, a, b), Holds(line, i, s)
  PROVE  HoldsInTurn(line, i, s, a, b)
<1>0. a \in Lines /\ b \in Lines /\ s = a \o b
  BY DEF IsBoth
<1>1. /\ Len(a) \in Nat /\ Len(b) \in Nat /\ Len(s) = Len(a) + Len(b)
      /\ \A j \in 1..Len(a) : s[j] = a[j]
      /\ \A j \in 1..Len(b) : s[Len(a) + j] = b[j]
  BY <1>0 DEF Lines
<1>2. /\ line \in Lines /\ i \in Nat /\ i > 0 /\ Len(line) \in Nat
      /\ i + Len(s) - 1 <= Len(line)
      /\ \A j \in 1..Len(s) : line[i + j - 1] = s[j]
  BY DEF Holds, Lines
<1>3. \A j \in 1..Len(a) : j \in 1..Len(s)
  BY <1>1
<1>4. Holds(line, i, a)
  BY <1>0, <1>1, <1>2, <1>3 DEF Holds
<1>5. ASSUME NEW j \in 1..Len(b)
      PROVE  line[i + Len(a) + j - 1] = b[j]
  <2>1. Len(a) + j \in 1..Len(s) /\ i + (Len(a) + j) - 1 = i + Len(a) + j - 1
    BY <1>1, <1>2
  <2>2. line[i + (Len(a) + j) - 1] = s[Len(a) + j]
    BY <1>2, <2>1
  <2>. QED
    BY <1>1, <2>1, <2>2
<1>6. Holds(line, i + Len(a), b)
  BY <1>0, <1>1, <1>2, <1>5 DEF Holds
<1>. QED
  BY <1>1, <1>4, <1>6 DEF HoldsInTurn

LEMMA HoldsOne ==
  ASSUME NEW line, NEW i, NEW t, Holds(line, i, <<t>>)
  PROVE  i \in 1..Len(line) /\ line[i] = t /\ Len(line) \in Nat /\ Len(<<t>>) = 1
<1>1. Len(<<t>>) = 1 /\ <<t>>[1] = t
  OBVIOUS
<1>2. /\ line \in Lines /\ i \in Nat /\ i > 0
      /\ i + 1 - 1 <= Len(line) /\ \A j \in 1..1 : line[i + j - 1] = <<t>>[j]
  BY <1>1 DEF Holds
<1>3. Len(line) \in Nat /\ 1 \in 1..1 /\ i + 1 - 1 = i
  BY <1>2 DEF Lines
<1>. QED
  BY <1>1, <1>2, <1>3

\* A text between brackets.
Between(line, i, s, l, c, r) == s = <<l>> \o c \o <<r>> /\ Holds(line, i, s)
HoldsAll(line, i, s, l, c, r) ==
  /\ i \in 1..Len(line) /\ line[i] = l
  /\ Holds(line, i + 1, c) /\ Len(c) \in Nat
  /\ i + Len(c) + 1 \in 1..Len(line) /\ line[i + Len(c) + 1] = r
  /\ Len(s) = Len(c) + 2

LEMMA HoldsWrapped ==
  ASSUME NEW line, NEW i, NEW s, NEW l \in LineTokens, NEW r \in LineTokens, NEW c \in Lines,
         Between(line, i, s, l, c, r)
  PROVE  HoldsAll(line, i, s, l, c, r)
<1>. DEFINE first == <<l>>
            last == <<r>>
            most == first \o c
            all == most \o last
<1>1. first \in Lines /\ last \in Lines /\ most \in Lines /\ Len(first) = 1 /\ Len(last) = 1
  BY DEF Lines
<1>0. s = all /\ Holds(line, i, all) /\ IsBoth(most, first, c) /\ IsBoth(all, most, last)
  BY <1>1 DEF Between, IsBoth
<1>. HIDE DEF first, last, most, all
<1>2. /\ Holds(line, i, most) /\ Holds(line, i + Len(most), last)
      /\ Len(all) = Len(most) + Len(last)
  <2>1. HoldsInTurn(line, i, all, most, last)
    BY <1>0, HoldsBoth, Zenon
  <2>. QED
    BY <2>1 DEF HoldsInTurn
<1>3. /\ Holds(line, i, first) /\ Holds(line, i + Len(first), c)
      /\ Len(most) = Len(first) + Len(c) /\ Len(c) \in Nat
  <2>1. HoldsInTurn(line, i, most, first, c)
    BY <1>0, <1>2, HoldsBoth, Zenon
  <2>. QED
    BY <2>1 DEF HoldsInTurn
<1>4. i \in Nat
  BY <1>2 DEF Holds
<1>5. i \in 1..Len(line) /\ line[i] = l
  BY <1>3, HoldsOne DEF first
<1>6. i + Len(most) \in 1..Len(line) /\ line[i + Len(most)] = r
  BY <1>2, HoldsOne DEF last
<1>7. i + Len(most) = i + Len(c) + 1 /\ Len(all) = Len(c) + 2 /\ Holds(line, i + 1, c)
  BY <1>1, <1>2, <1>3, <1>4
<1>. QED
  BY <1>0, <1>3, <1>5, <1>6, <1>7 DEF HoldsAll

\* Parts with commas between them: where each begins and ends.
Laid(line, i, parts, from, upTo) ==
  /\ upTo[0] = i /\ upTo[Len(parts)] = i + Len(Commas(parts))
  /\ upTo \in [0..Len(parts) -> Nat]
  /\ \A m \in 1..Len(parts) :
       /\ from[m] = IF m = 1 THEN upTo[m - 1] ELSE upTo[m - 1] + 1
       /\ m # 1 => upTo[m - 1] \in 1..Len(line) /\ line[upTo[m - 1]] = "comma"
       /\ Holds(line, from[m], parts[m])
       /\ upTo[m] = from[m] + Len(parts[m])

LEMMA HoldsCommas ==
  ASSUME NEW line, NEW i, NEW parts \in Seq(Lines), Holds(line, i, Commas(parts))
  PROVE  \E from, upTo : Laid(line, i, parts, from, upTo)
<1>. DEFINE M == Len(parts)
<1>1. M \in Nat /\ \A m \in 1..M : parts[m] \in Lines
  OBVIOUS
<1>2. PICK f :
        /\ f[0] = <<>> /\ f[M] = Commas(parts)
        /\ \A m \in 1..M : f[m] = WithPart(f[m - 1], m, parts[m])
  BY <1>1, CommasTurns
<1>3. <<>> \in Lines /\ <<"comma">> \in Lines /\ \A a, b \in Lines : a \o b \in Lines
  BY DEF Lines, LineTokens, Punctuation
<1>. HIDE DEF M
<1>4. \A m \in 0..M : f[m] \in Lines
  <2>. DEFINE T == {m \in Nat : f[m] \in Lines}
  <2>1. 0 \in T
    BY <1>2, <1>3
  <2>2. ASSUME NEW m \in Nat, m < M, m \in T
        PROVE  m + 1 \in T
    <3>1. m + 1 \in 1..M /\ (m + 1) - 1 = m /\ f[m] \in Lines
      BY <1>1, <2>2
    <3>2. f[m + 1] = WithPart(f[m], m + 1, parts[m + 1]) /\ parts[m + 1] \in Lines
      BY <1>1, <1>2, <3>1
    <3>. DEFINE comma == IF m + 1 = 1 THEN <<>> ELSE <<"comma">>
    <3>3. comma \in Lines
      BY <1>3
    <3>4. f[m + 1] = f[m] \o comma \o parts[m + 1]
      BY <3>2 DEF WithPart
    <3>. HIDE DEF comma
    <3>5. f[m] \o comma \in Lines
      BY <1>3, <3>1, <3>3
    <3>6. f[m + 1] \in Lines
      BY <1>3, <3>2, <3>4, <3>5, Zenon
    <3>. QED
      BY <3>6
  <2>3. \A m \in 0..M : m \in T
    <3>. HIDE DEF T
    <3>. QED
      BY <1>1, <2>1, <2>2, NumberByNumber
  <2>. QED
    BY <2>3
\* What stands before part m, and the part.
<1>5. ASSUME NEW m \in 1..M, Holds(line, i, f[m])
      PROVE  LET before == IF m = 1 THEN <<>> ELSE <<"comma">>
                 here == i + Len(f[m - 1]) IN
             /\ Holds(line, i, f[m - 1])
             /\ Holds(line, here, before) /\ Holds(line, here + Len(before), parts[m])
             /\ i + Len(f[m]) = here + Len(before) + Len(parts[m])
  <2>. DEFINE before == IF m = 1 THEN <<>> ELSE <<"comma">>
  <2>1. before \in Lines
    BY <1>3
  <2>2. f[m] = f[m - 1] \o before \o parts[m]
    BY <1>2 DEF WithPart
  <2>. HIDE DEF before
  <2>3. m - 1 \in 0..M
    BY <1>1
  <2>4. f[m - 1] \in Lines /\ f[m - 1] \o before \in Lines /\ parts[m] \in Lines
    BY <1>1, <1>3, <1>4, <2>1, <2>3
  <2>. DEFINE old == f[m - 1]
              new == f[m]
              part == parts[m]
              more == old \o before
  <2>0. Holds(line, i, new) /\ IsBoth(new, more, part) /\ IsBoth(more, old, before)
    BY <1>5, <2>1, <2>2, <2>4, Zenon DEF IsBoth
  <2>. HIDE DEF old, new, part, more
  <2>5. /\ Holds(line, i, more) /\ Holds(line, i + Len(more), part)
        /\ Len(new) = Len(more) + Len(part) /\ Len(part) \in Nat
    <3>1. HoldsInTurn(line, i, new, more, part)
      BY <2>0, HoldsBoth, Zenon
    <3>. QED
      BY <3>1 DEF HoldsInTurn
  <2>6. /\ Holds(line, i, old) /\ Holds(line, i + Len(old), before)
        /\ Len(more) = Len(old) + Len(before) /\ Len(old) \in Nat /\ Len(before) \in Nat
    <3>1. HoldsInTurn(line, i, more, old, before)
      BY <2>0, <2>5, HoldsBoth, Zenon
    <3>. QED
      BY <3>1 DEF HoldsInTurn
  <2>7. i \in Nat
    BY <2>6 DEF Holds
  <2>8. i + Len(more) = i + Len(old) + Len(before)
    BY <2>6, <2>7
  <2>9. i + Len(new) = i + Len(old) + Len(before) + Len(part)
    BY <2>5, <2>6, <2>7
  <2>. QED
    BY <2>5, <2>6, <2>8, <2>9 DEF before, old, new, part
<1>6. \A m \in 0..M : Holds(line, i, f[m])
  <2>. DEFINE T == {k \in Nat : k <= M => Holds(line, i, f[M - k])}
  <2>1. 0 \in T
    BY <1>1, <1>2
  <2>2. ASSUME NEW k \in Nat, k < M, k \in T
        PROVE  k + 1 \in T
    <3>1. M - k \in 1..M /\ (M - k) - 1 = M - (k + 1) /\ Holds(line, i, f[M - k])
      BY <1>1, <2>2
    <3>2. Holds(line, i, f[(M - k) - 1])
      BY <1>5, <3>1
    <3>. QED
      BY <3>1, <3>2
  <2>3. \A k \in 0..M : k \in T
    <3>. HIDE DEF T
    <3>. QED
      BY <1>1, <2>1, <2>2, NumberByNumber
  <2>4. ASSUME NEW m \in 0..M
        PROVE  Holds(line, i, f[m])
    <3>1. M - m \in 0..M /\ M - (M - m) = m /\ M - m \in Nat /\ M - m <= M
      BY <1>1
    <3>. QED
      BY <2>3, <3>1
  <2>. QED
    BY <2>4
<1>. DEFINE upTo == [m \in 0..M |-> i + Len(f[m])]
            from == [m \in 1..M |-> IF m = 1 THEN upTo[m - 1] ELSE upTo[m - 1] + 1]
<1>7. i \in Nat
  BY DEF Holds
<1>8. \A m \in 0..M : Len(f[m]) \in Nat
  BY <1>4 DEF Lines
<1>9. upTo \in [0..M -> Nat] /\ upTo[0] = i /\ upTo[M] = i + Len(Commas(parts))
  <2>1. \A m \in 0..M : i + Len(f[m]) \in Nat
    BY <1>7, <1>8
  <2>2. upTo \in [0..M -> Nat]
    BY <2>1
  <2>3. 0 \in 0..M /\ M \in 0..M
    BY <1>1
  <2>4. upTo[0] = i + Len(f[0]) /\ upTo[M] = i + Len(f[M])
    BY <2>3
  <2>5. i + Len(f[0]) = i
    BY <1>2, <1>7
  <2>. HIDE DEF upTo
  <2>. QED
    BY <1>2, <2>2, <2>4, <2>5
<1>10. ASSUME NEW m \in 1..M
       PROVE  /\ from[m] = IF m = 1 THEN upTo[m - 1] ELSE upTo[m - 1] + 1
              /\ m # 1 => upTo[m - 1] \in 1..Len(line) /\ line[upTo[m - 1]] = "comma"
              /\ Holds(line, from[m], parts[m])
              /\ upTo[m] = from[m] + Len(parts[m])
  <2>1. m - 1 \in 0..M /\ m \in 0..M
    BY <1>1
  <2>2. upTo[m - 1] = i + Len(f[m - 1]) /\ upTo[m] = i + Len(f[m])
    BY <2>1
  <2>3. from[m] = IF m = 1 THEN upTo[m - 1] ELSE upTo[m - 1] + 1
    OBVIOUS
  <2>. HIDE DEF from, upTo
  <2>4. CASE m = 1
    <3>1. /\ Holds(line, upTo[m - 1] + Len(<<>>), parts[m])
          /\ upTo[m] = upTo[m - 1] + Len(<<>>) + Len(parts[m])
      BY <1>5, <1>6, <2>1, <2>2, <2>4
    <3>2. upTo[m - 1] + Len(<<>>) = upTo[m - 1]
      BY <1>7, <1>8, <2>1, <2>2
    <3>. QED
      BY <2>3, <2>4, <3>1, <3>2
  <2>5. CASE m # 1
    <3>1. /\ Holds(line, upTo[m - 1], <<"comma">>)
          /\ Holds(line, upTo[m - 1] + Len(<<"comma">>), parts[m])
          /\ upTo[m] = upTo[m - 1] + Len(<<"comma">>) + Len(parts[m])
      BY <1>5, <1>6, <2>1, <2>2, <2>5
    <3>2. Len(<<"comma">>) = 1
      OBVIOUS
    <3>. QED
      BY <2>3, <2>5, <3>1, <3>2, HoldsOne
  <2>. QED
    BY <2>4, <2>5
<1>. HIDE DEF from, upTo
<1>11. Laid(line, i, parts, from, upTo)
  BY <1>9, <1>10 DEF Laid, M
<1>. QED
  BY <1>11

-----------------------------------------------------------------------------
\* Brackets

LEMMA NextAtIs ==
  ASSUME NEW line \in Lines, NEW from \in Nat, NEW places, NEW p \in from..(Len(line) + 1),
         p = Len(line) + 1 \/ p \in places,
         \A x \in from..(p - 1) : x \notin places
  PROVE  NextAt(line, from, places) = p
<1>. DEFINE S == {x \in from..Len(line) : x \in places} \cup {Len(line) + 1}
            Least(x) == x \in S /\ \A y \in S : x <= y
<1>1. Len(line) \in Nat
  BY DEF Lines
<1>2. p \in S
  BY <1>1
<1>3. \A y \in S : p <= y
  BY <1>1
<1>4. \A y \in S : y \in Nat
  BY <1>1
<1>. HIDE DEF S
<1>5. \A x \in S : (\A y \in S : x <= y) => x = p
  <2>. SUFFICES ASSUME NEW x \in S, \A y \in S : x <= y
                PROVE  x = p
    OBVIOUS
  <2>1. x <= p /\ p <= x /\ x \in Nat /\ p \in Nat
    BY <1>2, <1>3, <1>4
  <2>. QED
    BY <2>1
<1>6. Min(S) = p
  <2>1. Min(S) = CHOOSE x \in S : \A y \in S : x <= y
    BY DEF Min
  <2>. QED
    BY <1>2, <1>3, <1>5, <2>1
<1>. QED
  BY <1>6 DEF NextAt, S

LEMMA OftenBoth ==
  ASSUME NEW line, NEW t, NEW i \in Nat, NEW j \in Int, NEW m \in (i - 1)..j
  PROVE  /\ Often(line, t, i, j) = Often(line, t, i, m) + Often(line, t, m + 1, j)
         /\ Often(line, t, i, j) \in Nat /\ Often(line, t, i, m) \in Nat
         /\ Often(line, t, m + 1, j) \in Nat
<1>. DEFINE S(a, b) == {k \in a..b : line[k] = t}
<1>1. IsFiniteSet(S(i, m)) /\ IsFiniteSet(S(m + 1, j)) /\ IsFiniteSet(S(i, j))
  <2>1. \A a, b \in Int : IsFiniteSet(a..b)
    BY FS_Interval
  <2>2. IsFiniteSet(i..m) /\ IsFiniteSet((m + 1)..j) /\ IsFiniteSet(i..j)
    BY <2>1
  <2>3. S(i, m) \subseteq i..m /\ S(m + 1, j) \subseteq (m + 1)..j /\ S(i, j) \subseteq i..j
    OBVIOUS
  <2>. HIDE DEF S
  <2>. QED
    BY <2>2, <2>3, FS_Subset
<1>2. S(i, j) = S(i, m) \cup S(m + 1, j) /\ S(i, m) \cap S(m + 1, j) = {}
  <2>1. \A k : k \in i..j <=> (k \in i..m \/ k \in (m + 1)..j)
    OBVIOUS
  <2>2. \A k : ~(k \in i..m /\ k \in (m + 1)..j)
    OBVIOUS
  <2>. QED
    BY <2>1, <2>2
<1>. HIDE DEF S
<1>3. Cardinality(S(i, m) \cup S(m + 1, j)) =
        Cardinality(S(i, m)) + Cardinality(S(m + 1, j)) - Cardinality({})
  BY <1>1, <1>2, FS_Union
<1>4. Cardinality({}) = 0
  BY FS_EmptySet
<1>5. /\ Cardinality(S(i, m)) \in Nat /\ Cardinality(S(m + 1, j)) \in Nat
      /\ Cardinality(S(i, j)) \in Nat
  BY <1>1, FS_CardinalityType
<1>6. Cardinality(S(i, j)) = Cardinality(S(i, m)) + Cardinality(S(m + 1, j))
  BY <1>2, <1>3, <1>4, <1>5
<1>. QED
  BY <1>5, <1>6 DEF S, Often

LEMMA OftenOne ==
  ASSUME NEW line, NEW t, NEW i \in Nat
  PROVE  /\ Often(line, t, i, i - 1) = 0
         /\ Often(line, t, i, i) = IF line[i] = t THEN 1 ELSE 0
<1>. DEFINE S(a, b) == {k \in a..b : line[k] = t}
<1>1. S(i, i - 1) = {}
  OBVIOUS
<1>2. S(i, i) = IF line[i] = t THEN {i} ELSE {}
  OBVIOUS
<1>3. Cardinality({}) = 0 /\ Cardinality({i}) = 1
  BY FS_EmptySet, FS_Singleton
<1>. QED
  BY <1>1, <1>2, <1>3 DEF Often

\* By how much a stretch of a line is inside of brackets of a kind at its end.
Level(line, b, i, j) == Often(line, b, i, j) - Often(line, Closing(b), i, j)

Opening == {"lbrace", "lbracket"}

LEMMA LevelBoth ==
  ASSUME NEW line, NEW b, NEW i \in Nat, NEW j \in Int, NEW m \in (i - 1)..j
  PROVE  /\ Level(line, b, i, j) = Level(line, b, i, m) + Level(line, b, m + 1, j)
         /\ Level(line, b, i, j) \in Int /\ Level(line, b, i, m) \in Int
         /\ Level(line, b, m + 1, j) \in Int
<1>1. \A t : /\ Often(line, t, i, j) = Often(line, t, i, m) + Often(line, t, m + 1, j)
             /\ Often(line, t, i, j) \in Nat /\ Often(line, t, i, m) \in Nat
             /\ Often(line, t, m + 1, j) \in Nat
  BY OftenBoth
<1>. QED
  BY <1>1 DEF Level

LEMMA LevelOne ==
  ASSUME NEW line, NEW b \in Opening, NEW i \in Nat
  PROVE  /\ Level(line, b, i, i - 1) = 0
         /\ line[i] = b => Level(line, b, i, i) = 1
         /\ line[i] = Closing(b) => Level(line, b, i, i) = -1
         /\ (line[i] # b /\ line[i] # Closing(b)) => Level(line, b, i, i) = 0
<1>1. \A t : /\ Often(line, t, i, i - 1) = 0
             /\ Often(line, t, i, i) = IF line[i] = t THEN 1 ELSE 0
  BY OftenOne
<1>2. b # Closing(b)
  BY DEF Opening, Closing
<1>. QED
  BY <1>1, <1>2 DEF Level

\* A stretch in which every bracket is closed after it was opened.
Balanced(line, i, j) ==
  /\ i \in Nat /\ j \in Int /\ i - 1 <= j
  /\ \A b \in Opening :
       /\ Level(line, b, i, j) = 0
       /\ \A m \in (i - 1)..j : Level(line, b, i, m) >= 0

LEMMA BalancedNone ==
  ASSUME NEW line, NEW i \in Nat
  PROVE  Balanced(line, i, i - 1)
<1>1. \A b \in Opening : Level(line, b, i, i - 1) = 0
  BY LevelOne
<1>2. \A m \in (i - 1)..(i - 1) : m = i - 1
  OBVIOUS
<1>. QED
  BY <1>1, <1>2 DEF Balanced

LEMMA BalancedOne ==
  ASSUME NEW line, NEW i \in Nat, line[i] \notin Brackets
  PROVE  Balanced(line, i, i)
<1>1. \A b \in Opening : line[i] # b /\ line[i] # Closing(b)
  BY DEF Opening, Closing, Brackets
<1>2. \A b \in Opening : Level(line, b, i, i - 1) = 0 /\ Level(line, b, i, i) = 0
  BY <1>1, LevelOne
<1>3. \A m \in (i - 1)..i : m = i - 1 \/ m = i
  OBVIOUS
<1>. QED
  BY <1>2, <1>3 DEF Balanced

LEMMA BalancedBoth ==
  ASSUME NEW line, NEW i, NEW j, NEW k, Balanced(line, i, j), Balanced(line, j + 1, k)
  PROVE  Balanced(line, i, k)
<1>1. i \in Nat /\ j \in Int /\ k \in Int /\ i - 1 <= j /\ j <= k /\ j + 1 \in Nat
  BY DEF Balanced
<1>2. ASSUME NEW b \in Opening
      PROVE  /\ Level(line, b, i, k) = 0
             /\ \A m \in (i - 1)..k : Level(line, b, i, m) >= 0
  <2>1. /\ Level(line, b, i, j) = 0 /\ Level(line, b, j + 1, k) = 0
        /\ \A m \in (i - 1)..j : Level(line, b, i, m) >= 0
        /\ \A m \in j..k : Level(line, b, j + 1, m) >= 0
    BY <1>1, <1>2 DEF Balanced
  <2>2. \A m \in j..k : Level(line, b, i, m) = Level(line, b, i, j) + Level(line, b, j + 1, m)
    <3>. SUFFICES ASSUME NEW m \in j..k
                  PROVE  Level(line, b, i, m) = Level(line, b, i, j) + Level(line, b, j + 1, m)
      OBVIOUS
    <3>1. m \in Int /\ j \in (i - 1)..m
      BY <1>1
    <3>. QED
      BY <1>1, <3>1, LevelBoth
  <2>3. \A m \in j..k : Level(line, b, j + 1, m) \in Int
    <3>. SUFFICES ASSUME NEW m \in j..k
                  PROVE  Level(line, b, j + 1, m) \in Int
      OBVIOUS
    <3>1. m \in Int /\ j \in (i - 1)..m
      BY <1>1
    <3>. QED
      BY <1>1, <3>1, LevelBoth
  <2>4. \A m \in j..k : Level(line, b, i, m) = Level(line, b, j + 1, m)
    BY <2>1, <2>2, <2>3
  <2>5. k \in j..k
    BY <1>1
  <2>6. \A m \in (i - 1)..k : m \in (i - 1)..j \/ m \in j..k
    BY <1>1
  <2>. QED
    BY <2>1, <2>4, <2>5, <2>6
<1>. QED
  BY <1>1, <1>2 DEF Balanced

LEMMA BalancedWrapped ==
  ASSUME NEW line, NEW o \in Opening, NEW i \in Nat, NEW j \in Nat, i < j,
         line[i] = o, line[j] = Closing(o), Balanced(line, i + 1, j - 1)
  PROVE  /\ Balanced(line, i, j)
         /\ \A m \in i..(j - 1) : Level(line, o, i, m) > 0
<1>1. ASSUME NEW b \in Opening
      PROVE  /\ Level(line, b, i, i - 1) = 0
             /\ Level(line, b, i, i) = IF b = o THEN 1 ELSE 0
             /\ Level(line, b, j, j) = IF b = o THEN -1 ELSE 0
             /\ Level(line, b, i + 1, j - 1) = 0
             /\ \A m \in i..(j - 1) : Level(line, b, i + 1, m) >= 0
  <2>1. /\ b # o => line[i] # b /\ line[i] # Closing(b) /\ line[j] # b /\ line[j] # Closing(b)
        /\ b = o => line[i] = b /\ line[j] = Closing(b)
    BY DEF Opening, Closing
  <2>2. /\ Level(line, b, i, i - 1) = 0
        /\ Level(line, b, i, i) = IF b = o THEN 1 ELSE 0
        /\ Level(line, b, j, j) = IF b = o THEN -1 ELSE 0
    BY <2>1, LevelOne
  <2>3. (i + 1) - 1 = i
    OBVIOUS
  <2>4. /\ Level(line, b, i + 1, j - 1) = 0
        /\ \A m \in i..(j - 1) : Level(line, b, i + 1, m) >= 0
    BY <2>3 DEF Balanced
  <2>. QED
    BY <2>2, <2>4
<1>2. ASSUME NEW b \in Opening, NEW m \in i..(j - 1)
      PROVE  Level(line, b, i, m) = Level(line, b, i, i) + Level(line, b, i + 1, m)
             /\ Level(line, b, i + 1, m) \in Int /\ Level(line, b, i, m) \in Int
  <2>1. i \in (i - 1)..m /\ m \in Int
    OBVIOUS
  <2>2. /\ Level(line, b, i, m) = Level(line, b, i, i) + Level(line, b, i + 1, m)
        /\ Level(line, b, i, m) \in Int /\ Level(line, b, i, i) \in Int
        /\ Level(line, b, i + 1, m) \in Int
    BY <2>1, LevelBoth, Zenon
  <2>. QED
    BY <2>2
<1>3. ASSUME NEW b \in Opening
      PROVE  Level(line, b, i, j) = Level(line, b, i, j - 1) + Level(line, b, j, j)
  <2>. DEFINE m == j - 1
  <2>0. m + 1 = j
    OBVIOUS
  <2>1. m \in (i - 1)..j /\ j \in Int
    OBVIOUS
  <2>. HIDE DEF m
  <2>2. /\ Level(line, b, i, j) = Level(line, b, i, m) + Level(line, b, m + 1, j)
        /\ Level(line, b, i, j) \in Int /\ Level(line, b, i, m) \in Int
        /\ Level(line, b, m + 1, j) \in Int
    BY <2>1, LevelBoth
  <2>. QED
    BY <2>0, <2>2 DEF m
<1>4. ASSUME NEW b \in Opening
      PROVE  /\ Level(line, b, i, j) = 0
             /\ \A m \in (i - 1)..j : Level(line, b, i, m) >= 0
  <2>0. j - 1 \in i..(j - 1)
    OBVIOUS
  <2>1. Level(line, b, i, j - 1) = Level(line, b, i, i) + 0
    BY <1>1, <1>2, <2>0
  <2>2. Level(line, b, i, j) = 0
    BY <1>1, <1>3, <2>1
  <2>3. \A m \in i..(j - 1) : Level(line, b, i, m) >= 0
    <3>. SUFFICES ASSUME NEW m \in i..(j - 1)
                  PROVE  Level(line, b, i, m) >= 0
      OBVIOUS
    <3>1. /\ Level(line, b, i, m) = Level(line, b, i, i) + Level(line, b, i + 1, m)
          /\ Level(line, b, i + 1, m) \in Int
      BY <1>2
    <3>2. Level(line, b, i + 1, m) >= 0 /\ (Level(line, b, i, i) = 1 \/ Level(line, b, i, i) = 0)
      BY <1>1
    <3>. QED
      BY <3>1, <3>2
  <2>4. \A m \in (i - 1)..j : m = i - 1 \/ m \in i..(j - 1) \/ m = j
    OBVIOUS
  <2>5. Level(line, b, i, i - 1) = 0
    BY <1>1
  <2>. QED
    BY <2>2, <2>3, <2>4, <2>5
<1>5. ASSUME NEW m \in i..(j - 1)
      PROVE  Level(line, o, i, m) > 0
  <2>1. /\ Level(line, o, i, m) = Level(line, o, i, i) + Level(line, o, i + 1, m)
        /\ Level(line, o, i + 1, m) \in Int
    BY <1>2
  <2>2. Level(line, o, i + 1, m) >= 0 /\ Level(line, o, i, i) = 1
    BY <1>1
  <2>. QED
    BY <2>1, <2>2
<1>. QED
  BY <1>4, <1>5 DEF Balanced

LEMMA MatchingIs ==
  ASSUME NEW line \in Lines, NEW o \in Opening, NEW i \in Nat, NEW j \in 1..Len(line),
         i > 0, i < j,
         line[i] = o, line[j] = Closing(o), Balanced(line, i + 1, j - 1)
  PROVE  MatchingBracket(line, i) = j
<1>. DEFINE places == {x \in DOMAIN line : Often(line, line[i], i, x)
                                            = Often(line, Closing(line[i]), i, x)}
<1>1. Len(line) \in Nat /\ DOMAIN line = 1..Len(line)
  BY DEF Lines
<1>2. Balanced(line, i, j) /\ \A m \in i..(j - 1) : Level(line, o, i, m) > 0
  BY <1>1, BalancedWrapped
<1>3. ASSUME NEW x \in i..j
      PROVE  Often(line, o, i, x) \in Nat /\ Often(line, Closing(o), i, x) \in Nat
  <2>1. x \in (i - 1)..x /\ x \in Int
    BY <1>1
  <2>. QED
    BY <2>1, OftenBoth
<1>4. j \in places
  <2>1. Level(line, o, i, j) = 0
    BY <1>2 DEF Balanced
  <2>2. j \in i..j
    BY <1>1
  <2>. QED
    BY <1>1, <1>3, <2>1, <2>2 DEF Level
<1>5. \A x \in i..(j - 1) : x \notin places
  <2>. SUFFICES ASSUME NEW x \in i..(j - 1), x \in places
                PROVE  FALSE
    OBVIOUS
  <2>1. Level(line, o, i, x) > 0 /\ x \in i..j
    BY <1>1, <1>2
  <2>2. Often(line, o, i, x) = Often(line, Closing(o), i, x)
    OBVIOUS
  <2>. QED
    BY <1>3, <2>1, <2>2 DEF Level
<1>. HIDE DEF places
<1>6. j \in i..(Len(line) + 1)
  BY <1>1
<1>7. NextAt(line, i, places) = j
  BY <1>4, <1>5, <1>6, NextAtIs
<1>. QED
  BY <1>7 DEF MatchingBracket, places

-----------------------------------------------------------------------------
\* Where the text of a value ends

\* A name, a colon and the text behind them.
FieldAt(line, i, s, x, t) == s = <<x, "colon">> \o t /\ Holds(line, i, s)
HoldsEach(line, i, s, x, t) ==
  /\ i \in 1..Len(line) /\ line[i] = x
  /\ i + 1 \in 1..Len(line) /\ line[i + 1] = "colon"
  /\ Holds(line, i + 2, t) /\ Len(t) \in Nat
  /\ Len(s) = Len(t) + 2

LEMMA HoldsField ==
  ASSUME NEW line, NEW i, NEW s, NEW x \in FieldNames, NEW t \in Lines,
         FieldAt(line, i, s, x, t)
  PROVE  HoldsEach(line, i, s, x, t)
<1>. DEFINE pair == <<x, "colon">>
            all == pair \o t
<1>1. pair \in Lines /\ Len(pair) = 2 /\ pair[1] = x /\ pair[2] = "colon"
  BY DEF Lines, LineTokens, Punctuation
<1>2. s = all /\ Holds(line, i, all) /\ IsBoth(all, pair, t)
  BY <1>1 DEF FieldAt, IsBoth
<1>. HIDE DEF pair, all
<1>3. HoldsInTurn(line, i, all, pair, t)
  BY <1>2, HoldsBoth, Zenon
<1>4. /\ Holds(line, i, pair) /\ Holds(line, i + 2, t) /\ Len(t) \in Nat
      /\ Len(all) = Len(t) + 2
  BY <1>1, <1>3 DEF HoldsInTurn
<1>5. /\ line \in Lines /\ i \in Nat /\ i > 0 /\ i + 2 - 1 <= Len(line)
      /\ \A j \in 1..2 : line[i + j - 1] = pair[j]
  BY <1>1, <1>4 DEF Holds
<1>6. Len(line) \in Nat /\ 1 \in 1..2 /\ 2 \in 1..2 /\ i + 1 - 1 = i /\ i + 2 - 1 = i + 1
  BY <1>5 DEF Lines
<1>7. line[i] = x /\ line[i + 1] = "colon"
  BY <1>1, <1>5, <1>6
<1>. QED
  BY <1>2, <1>4, <1>5, <1>6, <1>7 DEF HoldsEach

\* A text without an open bracket, wherever it stands in the line.
Closed(line, s) ==
  \A k : Holds(line, k, s) => Balanced(line, k, k + Len(s) - 1)

LEMMA ClosedCommas ==
  ASSUME NEW line, NEW parts \in Seq(Lines), \A m \in 1..Len(parts) : Closed(line, parts[m])
  PROVE  Closed(line, Commas(parts))
<1>. SUFFICES ASSUME NEW i, Holds(line, i, Commas(parts))
              PROVE  Balanced(line, i, i + Len(Commas(parts)) - 1)
  BY DEF Closed
<1>1. PICK from, upTo : Laid(line, i, parts, from, upTo)
  BY HoldsCommas
<1>2. /\ upTo[0] = i /\ upTo[Len(parts)] = i + Len(Commas(parts))
      /\ upTo \in [0..Len(parts) -> Nat]
      /\ \A m \in 1..Len(parts) :
           /\ from[m] = IF m = 1 THEN upTo[m - 1] ELSE upTo[m - 1] + 1
           /\ m # 1 => upTo[m - 1] \in 1..Len(line) /\ line[upTo[m - 1]] = "comma"
           /\ Holds(line, from[m], parts[m])
           /\ upTo[m] = from[m] + Len(parts[m])
  BY <1>1 DEF Laid
<1>3. Len(parts) \in Nat /\ i \in Nat
  BY DEF Holds
<1>. DEFINE T == {m \in Nat : Balanced(line, i, upTo[m] - 1)}
<1>4. 0 \in T
  BY <1>2, <1>3, BalancedNone
<1>5. ASSUME NEW m \in Nat, m < Len(parts), m \in T
      PROVE  m + 1 \in T
  <2>1. m + 1 \in 1..Len(parts) /\ (m + 1) - 1 = m /\ m \in 0..Len(parts)
    BY <1>3, <1>5
  <2>2. upTo[m] \in Nat /\ upTo[m + 1] \in Nat
    <3>1. upTo \in [0..Len(parts) -> Nat]
      BY <1>2
    <3>2. m + 1 \in 0..Len(parts)
      BY <1>3, <1>5
    <3>. QED
      BY <2>1, <3>1, <3>2
  <2>3. Balanced(line, i, upTo[m] - 1)
    BY <1>5
  <2>4. Balanced(line, i, from[m + 1] - 1)
    <3>1. CASE m = 0
      BY <1>2, <2>1, <2>3, <3>1
    <3>2. CASE m # 0
      <4>1. line[upTo[m]] = "comma" /\ from[m + 1] = upTo[m] + 1
        BY <1>2, <2>1, <3>2
      <4>2. line[upTo[m]] \notin Brackets
        BY <4>1 DEF Brackets
      <4>3. Balanced(line, upTo[m], upTo[m])
        BY <2>2, <4>2, BalancedOne
      <4>4. (upTo[m] - 1) + 1 = upTo[m] /\ from[m + 1] - 1 = upTo[m]
        BY <2>2, <4>1
      <4>. QED
        BY <2>3, <4>3, <4>4, BalancedBoth
    <3>. QED
      BY <3>1, <3>2
  <2>5. Holds(line, from[m + 1], parts[m + 1]) /\ upTo[m + 1] = from[m + 1] + Len(parts[m + 1])
    BY <1>2, <2>1
  <2>6. Balanced(line, from[m + 1], upTo[m + 1] - 1)
    <3>1. Closed(line, parts[m + 1])
      BY <2>1
    <3>2. Balanced(line, from[m + 1], from[m + 1] + Len(parts[m + 1]) - 1)
      BY <2>5, <3>1, Zenon DEF Closed
    <3>3. upTo[m + 1] - 1 = from[m + 1] + Len(parts[m + 1]) - 1
      <4>1. from[m + 1] \in Nat /\ parts[m + 1] \in Seq(LineTokens)
        BY <2>5 DEF Holds, Lines
      <4>. QED
        BY <2>2, <2>5, <4>1
    <3>. QED
      BY <3>2, <3>3, Zenon
  <2>7. from[m + 1] \in Nat /\ (from[m + 1] - 1) + 1 = from[m + 1]
    BY <2>5 DEF Holds
  <2>8. Balanced(line, i, upTo[m + 1] - 1)
    BY <2>4, <2>6, <2>7, BalancedBoth
  <2>. QED
    BY <2>8
<1>6. \A m \in 0..Len(parts) : m \in T
  <2>. HIDE DEF T
  <2>. QED
    BY <1>3, <1>4, <1>5, NumberByNumber
<1>. QED
  BY <1>2, <1>3, <1>6

\* No name is another token.
LEMMA NamesApart ==
  /\ \A x \in FieldNames : x \notin Punctuation \cup {"text", "literal", "redaction"}
  /\ \A x \in SENSITIVE_FIELDS : x \in FieldNames
  /\ \A v : ScalarText(v) \in {"text", "literal", "redaction"}
BY NamesAreNames DEF ScalarText

LEMMA ClosedWrapped ==
  ASSUME NEW line, NEW o \in Opening, NEW c \in Lines, Closed(line, c),
         NEW i, NEW s, Between(line, i, s, o, c, Closing(o))
  PROVE  /\ Balanced(line, i, i + Len(s) - 1)
         /\ FindValueEnd(line, i) = i + Len(s)
<1>1. o \in LineTokens /\ Closing(o) \in LineTokens
  BY DEF Opening, Closing, LineTokens, Punctuation, Brackets
<1>2. /\ i \in 1..Len(line) /\ line[i] = o
      /\ Holds(line, i + 1, c) /\ Len(c) \in Nat
      /\ i + Len(c) + 1 \in 1..Len(line) /\ line[i + Len(c) + 1] = Closing(o)
      /\ Len(s) = Len(c) + 2
  <2>1. HoldsAll(line, i, s, o, c, Closing(o))
    BY <1>1, HoldsWrapped, Zenon
  <2>. QED
    BY <2>1 DEF HoldsAll
<1>3. line \in Lines /\ Len(line) \in Nat
  BY <1>2 DEF Holds, Lines
<1>. DEFINE j == i + Len(c) + 1
<1>4. j \in Nat /\ i \in Nat /\ i > 0 /\ i < j /\ j \in 1..Len(line) /\ line[j] = Closing(o)
  BY <1>2, <1>3
<1>5. Balanced(line, i + 1, j - 1)
  <2>1. (i + 1) + Len(c) - 1 = j - 1
    BY <1>2, <1>3
  <2>. QED
    BY <1>2, <2>1 DEF Closed
<1>. HIDE DEF j
<1>6. Balanced(line, i, j)
  BY <1>2, <1>4, <1>5, BalancedWrapped
<1>7. MatchingBracket(line, i) = j
  BY <1>2, <1>3, <1>4, <1>5, MatchingIs
<1>8. FindValueEnd(line, i) = j + 1
  BY <1>2, <1>7 DEF FindValueEnd, Opening
<1>9. j = i + Len(s) - 1 /\ j + 1 = i + Len(s)
  BY <1>2, <1>3 DEF j
<1>. QED
  BY <1>6, <1>8, <1>9

\* The texts of the values of a level are closed, and so are their parts.
LEMMA ClosedParts ==
  ASSUME NEW line, NEW values, NEW texts \in [values -> Lines],
         \A v \in values : Closed(line, texts[v])
  PROVE  /\ \A s \in Seq(Fields(values)) : Closed(line, Commas(FieldTexts(s, texts)))
         /\ \A s \in Seq(values) : Closed(line, Commas(ItemTexts(s, texts)))
<1>1. ASSUME NEW s \in Seq(Fields(values))
      PROVE  Closed(line, Commas(FieldTexts(s, texts)))
  <2>1. FieldTexts(s, texts) \in Seq(Lines)
    BY PartsAreLines
  <2>2. Len(FieldTexts(s, texts)) = Len(s) /\ DOMAIN s = 1..Len(s)
    BY DEF FieldTexts
  <2>3. ASSUME NEW m \in 1..Len(s)
        PROVE  Closed(line, FieldTexts(s, texts)[m])
    <3>1. s[m] \in Fields(values)
      BY <2>2
    <3>2. s[m].key \in FieldNames /\ s[m].value \in values
      BY <3>1 DEF Fields
    <3>. DEFINE x == s[m].key
                t == texts[s[m].value]
    <3>3. t \in Lines /\ x \in FieldNames /\ Closed(line, t)
      BY <3>2
    <3>4. FieldTexts(s, texts)[m] = <<x, "colon">> \o t
      BY <2>2 DEF FieldTexts
    <3>. HIDE DEF x, t
    <3>. DEFINE part == FieldTexts(s, texts)[m]
    <3>. HIDE DEF part
    <3>5. ASSUME NEW k, Holds(line, k, part)
          PROVE  Balanced(line, k, k + Len(part) - 1)
      <4>1. FieldAt(line, k, part, x, t)
        BY <3>4, <3>5 DEF FieldAt, part
      <4>2. HoldsEach(line, k, part, x, t)
        BY <3>3, <4>1, HoldsField, Zenon
      <4>3. /\ k \in 1..Len(line) /\ line[k] = x /\ line[k + 1] = "colon"
            /\ Holds(line, k + 2, t) /\ Len(t) \in Nat
            /\ Len(part) = Len(t) + 2
        BY <4>2 DEF HoldsEach
      <4>4. k \in Nat /\ k + 1 \in Nat
        BY <3>5 DEF Holds
      <4>5. x \notin Brackets /\ "colon" \notin Brackets
        BY <3>3, NamesApart DEF Punctuation, Brackets
      <4>6. Balanced(line, k, k) /\ Balanced(line, k + 1, k + 1)
        BY <4>3, <4>4, <4>5, BalancedOne
      <4>7. Balanced(line, k, k + 1)
        BY <4>6, BalancedBoth
      <4>8. Balanced(line, k + 2, (k + 2) + Len(t) - 1)
        BY <3>3, <4>3 DEF Closed
      <4>9. (k + 1) + 1 = k + 2 /\ (k + 2) + Len(t) - 1 = k + (Len(t) + 2) - 1
        BY <4>3, <4>4
      <4>10. Balanced(line, k, k + (Len(t) + 2) - 1)
        BY <4>7, <4>8, <4>9, BalancedBoth
      <4>. QED
        BY <4>3, <4>10
    <3>. QED
      BY <3>5 DEF Closed, part
  <2>. QED
    BY <2>1, <2>2, <2>3, ClosedCommas
<1>2. ASSUME NEW s \in Seq(values)
      PROVE  Closed(line, Commas(ItemTexts(s, texts)))
  <2>1. ItemTexts(s, texts) \in Seq(Lines)
    BY PartsAreLines
  <2>2. Len(ItemTexts(s, texts)) = Len(s) /\ DOMAIN s = 1..Len(s)
    BY DEF ItemTexts
  <2>3. \A m \in 1..Len(s) : Closed(line, ItemTexts(s, texts)[m])
    BY <2>2 DEF ItemTexts
  <2>. QED
    BY <2>1, <2>2, <2>3, ClosedCommas
<1>. QED
  BY <1>1, <1>2

LEMMA TextsAreClosed ==
  ASSUME NEW line
  PROVE  \A n \in 0..MaxNesting : \A v \in Json[n] : Closed(line, Formatted[n][v])
<1>. DEFINE T == {n \in Nat : \A v \in Json[n] : Closed(line, Formatted[n][v])}
<1>1. \A n \in 0..MaxNesting :
        \A v \in Json[n] : IsScalar(n, v) => Closed(line, Formatted[n][v])
  <2>. SUFFICES ASSUME NEW n \in 0..MaxNesting, NEW v \in Json[n], IsScalar(n, v),
                       NEW k, Holds(line, k, Formatted[n][v])
                PROVE  Balanced(line, k, k + Len(Formatted[n][v]) - 1)
    BY DEF Closed
  <2>1. Formatted[n][v] = <<ScalarText(v)>>
    BY DEF IsScalar
  <2>2. k \in Nat
    BY DEF Holds
  <2>3. line[k] = ScalarText(v) /\ Len(Formatted[n][v]) = 1
    BY <2>1, HoldsOne
  <2>4. line[k] \notin Brackets
    BY <2>3, NamesApart DEF Brackets
  <2>5. Balanced(line, k, k) /\ k + 1 - 1 = k
    BY <2>2, <2>4, BalancedOne
  <2>. QED
    BY <2>3, <2>5
<1>2. 0 \in T
  <2>1. 0 \in 0..MaxNesting
    BY NestingIsBounded
  <2>2. \A v \in Json[0] : IsScalar(0, v)
    <3>1. ASSUME NEW v \in Json[0]
          PROVE  IsScalar(0, v)
      <4>1. ~(0 > 0)
        OBVIOUS
      <4>2. ~IsFields(0, v) /\ ~IsItems(0, v)
        BY <4>1 DEF IsFields, IsItems
      <4>. QED
        BY <2>1, <4>2, TextIs
    <3>. QED
      BY <3>1
  <2>. QED
    BY <1>1, <2>1, <2>2
<1>3. ASSUME NEW n \in Nat, n < MaxNesting, n \in T
      PROVE  n + 1 \in T
  <2>1. n + 1 \in 0..MaxNesting /\ (n + 1) - 1 = n /\ n \in 0..MaxNesting
    BY <1>3, NestingIsBounded
  <2>2. /\ Formatted[n] \in [Json[n] -> Lines]
        /\ \A v \in Json[n] : Closed(line, Formatted[n][v])
    BY <1>3, <2>1, TextsAreLines
  <2>3. ASSUME NEW v \in Json[n + 1]
        PROVE  Closed(line, Formatted[n + 1][v])
    <3>1. CASE IsScalar(n + 1, v)
      BY <1>1, <2>1, <3>1
    <3>2. CASE IsFields(n + 1, v)
      <4>. DEFINE c == Commas(FieldTexts(v.fields, Formatted[n]))
      <4>1. v.fields \in Seq(Fields(Json[n]))
        BY <2>1, <3>2 DEF IsFields, IsObject
      <4>2. c \in Lines /\ Closed(line, c)
        BY <2>2, <4>1, PartsAreLines, CommasIsLine, ClosedParts
      <4>3. Formatted[n + 1][v] = <<"lbrace">> \o c \o <<"rbrace">>
        BY <2>1, <3>2 DEF IsFields
      <4>4. "lbrace" \in Opening /\ Closing("lbrace") = "rbrace"
        BY DEF Opening, Closing
      <4>. HIDE DEF c
      <4>5. ASSUME NEW k, Holds(line, k, Formatted[n + 1][v])
            PROVE  Balanced(line, k, k + Len(Formatted[n + 1][v]) - 1)
        <5>1. Between(line, k, Formatted[n + 1][v], "lbrace", c, Closing("lbrace"))
          BY <4>3, <4>4, <4>5 DEF Between
        <5>. QED
          BY <4>2, <4>4, <5>1, ClosedWrapped, Zenon
      <4>. QED
        BY <4>5 DEF Closed
    <3>3. CASE IsItems(n + 1, v)
      <4>. DEFINE c == Commas(ItemTexts(v.items, Formatted[n]))
      <4>1. v.items \in Seq(Json[n])
        BY <2>1, <3>3 DEF IsItems, IsArray
      <4>2. c \in Lines /\ Closed(line, c)
        BY <2>2, <4>1, PartsAreLines, CommasIsLine, ClosedParts
      <4>3. Formatted[n + 1][v] = <<"lbracket">> \o c \o <<"rbracket">>
        BY <2>1, <3>3 DEF IsItems
      <4>4. "lbracket" \in Opening /\ Closing("lbracket") = "rbracket"
        BY DEF Opening, Closing
      <4>. HIDE DEF c
      <4>5. ASSUME NEW k, Holds(line, k, Formatted[n + 1][v])
            PROVE  Balanced(line, k, k + Len(Formatted[n + 1][v]) - 1)
        <5>1. Between(line, k, Formatted[n + 1][v], "lbracket", c, Closing("lbracket"))
          BY <4>3, <4>4, <4>5 DEF Between
        <5>. QED
          BY <4>2, <4>4, <5>1, ClosedWrapped, Zenon
      <4>. QED
        BY <4>5 DEF Closed
    <3>. QED
      BY <2>1, <3>1, <3>2, <3>3, TextIs
  <2>. QED
    BY <2>3
<1>4. \A n \in 0..MaxNesting : n \in T
  <2>. HIDE DEF T
  <2>. QED
    BY <1>2, <1>3, NestingIsBounded, NumberByNumber
<1>. QED
  BY <1>4

-----------------------------------------------------------------------------
\* What redact_json_fields does at a value

\* Behind this place comes what can only be behind a value.
Follows(line, i) == i \in 1..Len(line) /\ line[i] \in {"comma", "rbrace", "rbracket"}

\* The text of a value with others in it, as a text in brackets.
InBrackets(n, v, o, c) ==
  /\ o \in Opening /\ c \in Lines /\ \A line : Closed(line, c)
  /\ Formatted[n][v] = <<o>> \o c \o <<Closing(o)>>

LEMMA NestedText ==
  ASSUME NEW n \in 0..MaxNesting, NEW v \in Json[n], IsFields(n, v) \/ IsItems(n, v)
  PROVE  \E o, c : InBrackets(n, v, o, c)
<1>1. CASE IsFields(n, v)
  <2>. DEFINE c == Commas(FieldTexts(v.fields, Formatted[n - 1]))
  <2>1. n - 1 \in 0..MaxNesting /\ v.fields \in Seq(Fields(Json[n - 1]))
    BY <1>1 DEF IsFields, IsObject
  <2>2. Formatted[n - 1] \in [Json[n - 1] -> Lines]
    BY <2>1, TextsAreLines
  <2>3. c \in Lines
    BY <2>1, <2>2, PartsAreLines, CommasIsLine
  <2>4. ASSUME NEW line
        PROVE  Closed(line, c)
    <3>1. \A w \in Json[n - 1] : Closed(line, Formatted[n - 1][w])
      BY <2>1, TextsAreClosed
    <3>. QED
      BY <2>1, <2>2, <3>1, ClosedParts
  <2>5. Formatted[n][v] = <<"lbrace">> \o c \o <<"rbrace">>
    BY <1>1 DEF IsFields
  <2>. HIDE DEF c
  <2>6. InBrackets(n, v, "lbrace", c)
    BY <2>3, <2>4, <2>5 DEF InBrackets, Opening, Closing
  <2>. QED
    BY <2>6
<1>2. CASE IsItems(n, v)
  <2>. DEFINE c == Commas(ItemTexts(v.items, Formatted[n - 1]))
  <2>1. n - 1 \in 0..MaxNesting /\ v.items \in Seq(Json[n - 1])
    BY <1>2 DEF IsItems, IsArray
  <2>2. Formatted[n - 1] \in [Json[n - 1] -> Lines]
    BY <2>1, TextsAreLines
  <2>3. c \in Lines
    BY <2>1, <2>2, PartsAreLines, CommasIsLine
  <2>4. ASSUME NEW line
        PROVE  Closed(line, c)
    <3>1. \A w \in Json[n - 1] : Closed(line, Formatted[n - 1][w])
      BY <2>1, TextsAreClosed
    <3>. QED
      BY <2>1, <2>2, <3>1, ClosedParts
  <2>5. Formatted[n][v] = <<"lbracket">> \o c \o <<"rbracket">>
    BY <1>2 DEF IsItems
  <2>. HIDE DEF c
  <2>6. InBrackets(n, v, "lbracket", c)
    BY <2>3, <2>4, <2>5 DEF InBrackets, Opening, Closing
  <2>. QED
    BY <2>6
<1>. QED
  BY <1>1, <1>2

\* The end of a value is found.
ValueStands(line, i, n, v) ==
  /\ n \in 0..MaxNesting /\ v \in Json[n]
  /\ Holds(line, i, Formatted[n][v])
  /\ Follows(line, i + Len(Formatted[n][v]))

LEMMA ValueEnds ==
  ASSUME NEW line, NEW i, NEW n, NEW v, ValueStands(line, i, n, v)
  PROVE  /\ FindValueEnd(line, i) = i + Len(Formatted[n][v])
         /\ i \in 1..Len(line) /\ line[i] # "colon"
         /\ Len(Formatted[n][v]) \in Nat /\ Len(Formatted[n][v]) > 0
<1>0. /\ n \in 0..MaxNesting /\ v \in Json[n]
      /\ Holds(line, i, Formatted[n][v])
      /\ Follows(line, i + Len(Formatted[n][v]))
  BY DEF ValueStands
<1>1. line \in Lines /\ Len(line) \in Nat /\ DOMAIN line = 1..Len(line)
  BY <1>0 DEF Holds, Lines
<1>2. CASE IsScalar(n, v)
  <2>1. Formatted[n][v] = <<ScalarText(v)>> /\ ScalarText(v) \in {"text", "literal", "redaction"}
    BY <1>2, NamesApart DEF IsScalar
  <2>2. i \in 1..Len(line) /\ line[i] = ScalarText(v) /\ Len(Formatted[n][v]) = 1
    BY <1>0, <2>1, HoldsOne
  <2>3. i \in Nat /\ Follows(line, i + 1)
    BY <1>0, <1>1, <2>2
  <2>4. CASE line[i] = "literal"
    <3>. DEFINE places == {j \in DOMAIN line : line[j] \in {"comma", "rbrace", "rbracket"}}
    <3>1. i + 1 \in places
      BY <1>1, <2>3 DEF Follows
    <3>2. i \notin places
      BY <2>4
    <3>3. FindValueEnd(line, i) = NextAt(line, i, places)
      BY <2>4 DEF FindValueEnd
    <3>. HIDE DEF places
    <3>4. \A x \in i..((i + 1) - 1) : x = i
      BY <2>3
    <3>5. i + 1 \in i..(Len(line) + 1)
      BY <1>1, <2>2, <2>3
    <3>6. NextAt(line, i, places) = i + 1
      BY <1>1, <2>3, <3>1, <3>2, <3>4, <3>5, NextAtIs
    <3>. QED
      BY <2>2, <2>4, <3>3, <3>6
  <2>5. CASE line[i] # "literal"
    <3>1. line[i] \in {"text", "redaction"}
      BY <2>1, <2>2, <2>5
    <3>2. FindValueEnd(line, i) = i + 1
      BY <3>1 DEF FindValueEnd, Punctuation, Brackets
    <3>. QED
      BY <2>2, <3>1, <3>2
  <2>. QED
    BY <2>4, <2>5
<1>3. CASE IsFields(n, v) \/ IsItems(n, v)
  <2>. DEFINE s == Formatted[n][v]
  <2>1. PICK o, c : InBrackets(n, v, o, c)
    BY <1>0, <1>3, NestedText
  <2>2. o \in Opening /\ c \in Lines /\ Closed(line, c) /\ Between(line, i, s, o, c, Closing(o))
    BY <1>0, <2>1 DEF InBrackets, Between
  <2>. HIDE DEF s
  <2>3. FindValueEnd(line, i) = i + Len(s)
    BY <2>2, ClosedWrapped
  <2>4. o \in LineTokens /\ Closing(o) \in LineTokens
    BY <2>2 DEF Opening, Closing, LineTokens, Punctuation, Brackets
  <2>5. HoldsAll(line, i, s, o, c, Closing(o))
    BY <2>2, <2>4, HoldsWrapped, Zenon
  <2>6. /\ i \in 1..Len(line) /\ line[i] = o /\ o # "colon"
        /\ Len(s) \in Nat /\ Len(s) > 0
    BY <2>2, <2>5 DEF HoldsAll, Opening
  <2>. QED
    BY <2>3, <2>6 DEF s
<1>. QED
  BY <1>0, <1>2, <1>3, TextIs

\* A line and the turns of the loop on it.
LoopTurns(line, f) ==
  /\ line \in Lines
  /\ f[0] = [place |-> 1, out |-> <<>>]
  /\ \A n \in 1..Len(line) : f[n] = ReadOn(line, f[n - 1])

\* The loop comes to place i with o written.
Reaches(line, f, i, o) ==
  /\ o \in Lines /\ i \in 1..(Len(line) + 1)
  /\ \E k \in 0..(i - 1) : f[k] = [place |-> i, out |-> o]

LEMMA LinesJoin ==
  \A a, b, c \in Lines : (a \o b) \o c = a \o (b \o c)
BY ConcatAssociative DEF Lines

LEMMA TakeTurn ==
  ASSUME NEW line, NEW f, LoopTurns(line, f), NEW i \in 1..Len(line), NEW o, Reaches(line, f, i, o),
         NEW e \in (i + 1)..(Len(line) + 1), NEW more \in Lines,
         ReadOn(line, [place |-> i, out |-> o]) = [place |-> e, out |-> o \o more]
  PROVE  Reaches(line, f, e, o \o more)
<1>1. line \in Lines /\ Len(line) \in Nat /\ o \in Lines
  BY DEF LoopTurns, Reaches, Lines
<1>2. PICK k \in 0..(i - 1) : f[k] = [place |-> i, out |-> o]
  BY DEF Reaches
<1>3. k + 1 \in 1..Len(line) /\ (k + 1) - 1 = k /\ k + 1 \in 0..(e - 1)
  BY <1>1
<1>4. f[k + 1] = ReadOn(line, f[k])
  BY <1>3 DEF LoopTurns
<1>5. f[k + 1] = [place |-> e, out |-> o \o more]
  BY <1>2, <1>4, Zenon
<1>6. o \o more \in Lines
  BY <1>1 DEF Lines
<1>7. e \in 1..(Len(line) + 1)
  BY <1>1
<1>. QED
  BY <1>3, <1>5, <1>6, <1>7 DEF Reaches

LEMMA ReadPlain ==
  ASSUME NEW line, NEW f, LoopTurns(line, f), NEW i \in 1..Len(line), NEW o, Reaches(line, f, i, o),
         line[i] \notin SENSITIVE_FIELDS
  PROVE  Reaches(line, f, i + 1, o \o <<line[i]>>)
<1>1. line \in Lines /\ Len(line) \in Nat /\ o \in Lines /\ line[i] \in LineTokens
  BY DEF LoopTurns, Reaches, Lines
<1>. DEFINE done == [place |-> i, out |-> o]
<1>2. ReadOn(line, done) = [place |-> i + 1, out |-> Append(o, line[i])]
  <2>1. ~(i > Len(line)) /\ i <= Len(line)
    BY <1>1
  <2>2. done.place = i /\ done.out = o
    OBVIOUS
  <2>. HIDE DEF done
  <2>. QED
    BY <2>1, <2>2 DEF ReadOn
<1>3. Append(o, line[i]) = o \o <<line[i]>>
  BY <1>1, AppendIsConcat DEF Lines
<1>4. <<line[i]>> \in Lines /\ i + 1 \in (i + 1)..(Len(line) + 1)
  BY <1>1 DEF Lines
<1>. QED
  BY <1>2, <1>3, <1>4, TakeTurn

\* A sensitive key at i: the value behind it is left out.
LEMMA ReadSensitive ==
  ASSUME NEW line, NEW f, LoopTurns(line, f), NEW i \in 1..Len(line), NEW o, Reaches(line, f, i, o),
         line[i] \in SENSITIVE_FIELDS, i + 2 \in 1..Len(line),
         line[i + 1] = "colon", line[i + 2] # "colon",
         NEW e \in (i + 3)..(Len(line) + 1), FindValueEnd(line, i + 2) = e
  PROVE  Reaches(line, f, e, o \o (<<line[i], "colon">> \o <<"redaction">>))
<1>1. line \in Lines /\ Len(line) \in Nat /\ o \in Lines /\ DOMAIN line = 1..Len(line)
      /\ line[i] \in LineTokens
  BY DEF LoopTurns, Reaches, Lines
<1>. DEFINE done == [place |-> i, out |-> o]
            places == {j \in DOMAIN line : line[j] # "colon"}
            key == <<line[i], "colon">>
<1>2. NextAt(line, i + 1, places) = i + 2
  <2>1. i + 2 \in places /\ i + 1 \notin places
    BY <1>1
  <2>. HIDE DEF places
  <2>2. \A x \in (i + 1)..((i + 2) - 1) : x = i + 1
    OBVIOUS
  <2>3. i + 2 \in (i + 1)..(Len(line) + 1) /\ i + 1 \in Nat
    BY <1>1
  <2>. QED
    BY <1>1, <2>1, <2>2, <2>3, NextAtIs
<1>3. SubSeq(line, i, (i + 2) - 1) = key
  <2>1. (i + 2) - 1 = i + 1
    OBVIOUS
  <2>2. SubSeq(line, i, i + 1) = <<line[i], line[i + 1]>>
    <3>. DEFINE two == SubSeq(line, i, i + 1)
    <3>1. /\ two \in Seq(LineTokens) /\ i <= i + 1 /\ (i + 1) - i + 1 = 2
          /\ Len(two) = IF i <= i + 1 THEN (i + 1) - i + 1 ELSE 0
          /\ \A j \in 1..((i + 1) - i + 1) : two[j] = line[i + j - 1]
      <4>1. i \in Int /\ i + 1 \in Int /\ \A j \in i..(i + 1) : line[j] \in LineTokens
        BY <1>1 DEF Lines
      <4>2. i <= i + 1 /\ (i + 1) - i + 1 = 2
        OBVIOUS
      <4>. QED
        BY <4>1, <4>2, SubSeqProperties
    <3>2. 1 \in 1..2 /\ 2 \in 1..2 /\ i + 1 - 1 = i /\ i + 2 - 1 = i + 1
      OBVIOUS
    <3>. HIDE DEF two
    <3>3. Len(two) = 2 /\ two[1] = line[i] /\ two[2] = line[i + 1]
      BY <3>1, <3>2
    <3>. DEFINE pair == <<line[i], line[i + 1]>>
    <3>4. /\ pair \in Seq(LineTokens) /\ Len(pair) = 2
          /\ pair[1] = line[i] /\ pair[2] = line[i + 1]
      BY <1>1 DEF LineTokens, Punctuation
    <3>. HIDE DEF pair
    <3>5. \A j \in 1..Len(two) : j = 1 \/ j = 2
      BY <3>3
    <3>6. \A j \in 1..Len(two) : two[j] = pair[j]
      BY <3>3, <3>4, <3>5
    <3>7. two = pair
      BY <3>1, <3>3, <3>4, <3>6, SeqEqual
    <3>. QED
      BY <3>7 DEF two, pair
  <2>. QED
    BY <2>1, <2>2
<1>4. ReadOn(line, done) = [place |-> e, out |-> o \o key \o <<"redaction">>]
  <2>1. ~(i > Len(line)) /\ i <= Len(line) /\ ~(i + 2 > Len(line)) /\ i + 2 <= Len(line)
    BY <1>1
  <2>2. done.place = i /\ done.out = o
    OBVIOUS
  <2>. HIDE DEF done, key
  <2>3. ReadOn(line, done) =
          [place |-> FindValueEnd(line, i + 2),
           out   |-> o \o SubSeq(line, i, (i + 2) - 1) \o <<"redaction">>]
    BY <1>2, <2>1, <2>2 DEF ReadOn
  <2>. QED
    BY <1>3, <2>3
<1>5. key \in Lines /\ <<"redaction">> \in Lines
  BY <1>1 DEF Lines, LineTokens, Punctuation
<1>. HIDE DEF key, done
<1>6. (o \o key) \o <<"redaction">> = o \o (key \o <<"redaction">>)
  BY <1>1, <1>5, LinesJoin
<1>7. key \o <<"redaction">> \in Lines /\ e \in (i + 1)..(Len(line) + 1)
  BY <1>1, <1>5 DEF Lines
<1>8. ReadOn(line, done) = [place |-> e, out |-> o \o (key \o <<"redaction">>)]
  BY <1>4, <1>6
<1>9. Reaches(line, f, e, o \o (key \o <<"redaction">>))
  BY <1>7, <1>8, TakeTurn DEF done
<1>. QED
  BY <1>9 DEF key

-----------------------------------------------------------------------------
\* The loop over the text of a value

\* At place i, the text s is read and t is written for it.
Reads(line, f, i, s, t) ==
  /\ s \in Lines /\ t \in Lines
  /\ \A o : Reaches(line, f, i, o) => Reaches(line, f, i + Len(s), o \o t)

LEMMA ReadBoth ==
  ASSUME NEW line, NEW f, NEW i \in Nat, NEW s, NEW t, NEW a, NEW b, NEW x, NEW y,
         IsBoth(s, a, b), IsBoth(t, x, y),
         Reads(line, f, i, a, x), Reads(line, f, i + Len(a), b, y)
  PROVE  Reads(line, f, i, s, t)
<1>1. /\ a \in Lines /\ b \in Lines /\ s = a \o b
      /\ x \in Lines /\ y \in Lines /\ t = x \o y
  BY DEF IsBoth
<1>2. /\ s \in Lines /\ t \in Lines /\ Len(s) = Len(a) + Len(b)
      /\ Len(a) \in Nat /\ Len(b) \in Nat
  BY <1>1 DEF Lines
<1>3. ASSUME NEW o, Reaches(line, f, i, o)
      PROVE  Reaches(line, f, i + Len(s), o \o t)
  <2>1. Reaches(line, f, i + Len(a), o \o x)
    BY <1>3 DEF Reads
  <2>2. Reaches(line, f, (i + Len(a)) + Len(b), (o \o x) \o y)
    BY <2>1 DEF Reads
  <2>3. (i + Len(a)) + Len(b) = i + Len(s)
    BY <1>2
  <2>4. o \in Lines
    BY <1>3 DEF Reaches
  <2>5. (o \o x) \o y = o \o t
    BY <1>1, <2>4, LinesJoin
  <2>. QED
    BY <2>2, <2>3, <2>5, Zenon
<1>. QED
  BY <1>2, <1>3 DEF Reads

\* One token that is no sensitive key is copied.
LEMMA ReadOne ==
  ASSUME NEW line, NEW f, LoopTurns(line, f), NEW i \in 1..Len(line), NEW x \in LineTokens,
         line[i] = x, x \notin SENSITIVE_FIELDS
  PROVE  Reads(line, f, i, <<x>>, <<x>>)
<1>1. <<x>> \in Lines /\ Len(<<x>>) = 1
  BY DEF Lines
<1>2. ASSUME NEW o, Reaches(line, f, i, o)
      PROVE  Reaches(line, f, i + 1, o \o <<x>>)
  BY <1>2, ReadPlain
<1>. QED
  BY <1>1, <1>2 DEF Reads

LEMMA ReadBetween ==
  ASSUME NEW line, NEW f, LoopTurns(line, f), NEW i, NEW s, NEW t, NEW l \in Brackets, NEW r \in Brackets,
         NEW c \in Lines, NEW d \in Lines,
         Between(line, i, s, l, c, r), t = <<l>> \o d \o <<r>>,
         Reads(line, f, i + 1, c, d)
  PROVE  Reads(line, f, i, s, t)
<1>1. /\ l \in LineTokens /\ r \in LineTokens
      /\ l \notin SENSITIVE_FIELDS /\ r \notin SENSITIVE_FIELDS
  BY NamesApart DEF LineTokens, Punctuation
<1>2. HoldsAll(line, i, s, l, c, r)
  BY <1>1, HoldsWrapped, Zenon
<1>3. /\ i \in 1..Len(line) /\ line[i] = l /\ Len(c) \in Nat
      /\ i + Len(c) + 1 \in 1..Len(line) /\ line[i + Len(c) + 1] = r
  BY <1>2 DEF HoldsAll
<1>. DEFINE first == <<l>>
            last == <<r>>
<1>4. first \in Lines /\ last \in Lines /\ Len(first) = 1
  BY <1>1 DEF Lines
<1>5. Reads(line, f, i, first, first)
  BY <1>1, <1>3, ReadOne
<1>6. Reads(line, f, i + Len(c) + 1, last, last)
  BY <1>1, <1>3, ReadOne
<1>7. s = (first \o c) \o last /\ t = (first \o d) \o last
  BY DEF Between
<1>. DEFINE p == first \o c
            q == first \o d
<1>8. IsBoth(p, first, c) /\ IsBoth(q, first, d) /\ p \in Lines /\ q \in Lines
      /\ Len(p) = 1 + Len(c)
  BY <1>4 DEF IsBoth, Lines
<1>9. IsBoth(s, p, last) /\ IsBoth(t, q, last)
  BY <1>4, <1>7, <1>8 DEF IsBoth
<1>. HIDE DEF first, last, p, q
<1>10. i \in Nat /\ i + Len(p) = i + Len(c) + 1 /\ i + Len(first) = i + 1
  BY <1>3, <1>4, <1>8
<1>11. Reads(line, f, i, p, q)
  BY <1>5, <1>8, <1>10, ReadBoth
<1>. QED
  BY <1>6, <1>9, <1>10, <1>11, ReadBoth

\* Parts one after another.
LEMMA ReadCommas ==
  ASSUME NEW line, NEW f, LoopTurns(line, f), NEW i,
         NEW parts \in Seq(Lines), NEW clean \in Seq(Lines), Len(clean) = Len(parts),
         NEW from, NEW upTo, Laid(line, i, parts, from, upTo),
         \A m \in 1..Len(parts) : Reads(line, f, from[m], parts[m], clean[m])
  PROVE  Reads(line, f, i, Commas(parts), Commas(clean))
<1>. DEFINE M == Len(parts)
<1>1. M \in Nat /\ \A m \in 1..M : parts[m] \in Lines /\ clean[m] \in Lines
  OBVIOUS
<1>2. PICK g :
        /\ g[0] = <<>> /\ g[M] = Commas(clean)
        /\ \A m \in 1..M : g[m] = WithPart(g[m - 1], m, clean[m])
  BY CommasTurns
<1>3. Commas(parts) \in Lines /\ Commas(clean) \in Lines
  BY CommasIsLine
<1>4. /\ upTo[0] = i /\ upTo[M] = i + Len(Commas(parts))
      /\ upTo \in [0..M -> Nat]
      /\ \A m \in 1..M :
           /\ from[m] = IF m = 1 THEN upTo[m - 1] ELSE upTo[m - 1] + 1
           /\ m # 1 => upTo[m - 1] \in 1..Len(line) /\ line[upTo[m - 1]] = "comma"
           /\ Holds(line, from[m], parts[m])
           /\ upTo[m] = from[m] + Len(parts[m])
  BY DEF Laid
<1>. HIDE DEF M
<1>5. ASSUME NEW o, Reaches(line, f, i, o)
      PROVE  Reaches(line, f, i + Len(Commas(parts)), o \o Commas(clean))
  <2>. DEFINE T == {m \in Nat : g[m] \in Lines /\ Reaches(line, f, upTo[m], o \o g[m])}
  <2>1. o \in Lines /\ <<>> \in Lines /\ <<"comma">> \in Lines /\ o \o <<>> = o
    BY <1>5 DEF Reaches, Lines, LineTokens, Punctuation
  <2>2. 0 \in T
    <3>1. g[0] \in Lines /\ o \o g[0] = o
      BY <1>2, <2>1
    <3>2. Reaches(line, f, upTo[0], o)
      BY <1>4, <1>5, Zenon
    <3>3. Reaches(line, f, upTo[0], o \o g[0])
      BY <3>1, <3>2, Zenon
    <3>. QED
      BY <3>1, <3>3
  <2>3. ASSUME NEW m \in Nat, m < M, m \in T
        PROVE  m + 1 \in T
    <3>1. m + 1 \in 1..M /\ (m + 1) - 1 = m
      BY <1>1, <2>3
    <3>2. g[m] \in Lines /\ Reaches(line, f, upTo[m], o \o g[m])
      BY <2>3
    <3>3. Reads(line, f, from[m + 1], parts[m + 1], clean[m + 1])
      BY <3>1 DEF M
    <3>. DEFINE c == IF m + 1 = 1 THEN <<>> ELSE <<"comma">>
    <3>4. c \in Lines
      BY <2>1
    <3>5. g[m + 1] = (g[m] \o c) \o clean[m + 1]
      BY <1>2, <3>1 DEF WithPart
    <3>6. Reaches(line, f, from[m + 1], (o \o g[m]) \o c)
      <4>1. CASE m = 0
        <5>1. from[m + 1] = upTo[m] /\ c = <<>>
          BY <1>4, <3>1, <4>1
        <5>2. o \o g[m] \in Lines
          BY <3>2 DEF Reaches
        <5>3. (o \o g[m]) \o <<>> = o \o g[m]
          BY <5>2 DEF Lines
        <5>. QED
          BY <3>2, <5>1, <5>3
      <4>2. CASE m # 0
        <5>1. /\ from[m + 1] = upTo[m] + 1 /\ c = <<"comma">>
              /\ upTo[m] \in 1..Len(line) /\ line[upTo[m]] = "comma"
          BY <1>4, <3>1, <4>2
        <5>2. "comma" \notin SENSITIVE_FIELDS
          BY NamesApart DEF Punctuation
        <5>3. Reaches(line, f, upTo[m] + 1, (o \o g[m]) \o <<line[upTo[m]]>>)
          BY <3>2, <5>1, <5>2, ReadPlain
        <5>. QED
          BY <5>1, <5>3
      <4>. QED
        BY <4>1, <4>2
    <3>. HIDE DEF c
    <3>7. Reaches(line, f, from[m + 1] + Len(parts[m + 1]), ((o \o g[m]) \o c) \o clean[m + 1])
      BY <3>3, <3>6, Zenon DEF Reads
    <3>8. ((o \o g[m]) \o c) \o clean[m + 1] = o \o g[m + 1] /\ g[m + 1] \in Lines
      <4>1. clean[m + 1] \in Lines
        BY <1>1, <3>1
      <4>2. g[m] \o c \in Lines
        BY <3>2, <3>4 DEF Lines
      <4>3. o \in Lines
        BY <2>1
      <4>4. g[m] \in Lines
        BY <3>2
      <4>5. (o \o g[m]) \o c = o \o (g[m] \o c)
        BY <3>4, <4>3, <4>4, LinesJoin, Zenon
      <4>6. (o \o (g[m] \o c)) \o clean[m + 1] = o \o ((g[m] \o c) \o clean[m + 1])
        BY <4>1, <4>2, <4>3, LinesJoin, Zenon
      <4>7. (g[m] \o c) \o clean[m + 1] \in Lines
        BY <4>1, <4>2 DEF Lines
      <4>. QED
        BY <3>5, <4>5, <4>6, <4>7, Zenon
    <3>9. upTo[m + 1] = from[m + 1] + Len(parts[m + 1])
      BY <1>4, <3>1
    <3>10. Reaches(line, f, upTo[m + 1], o \o g[m + 1])
      BY <3>7, <3>8, <3>9, Zenon
    <3>. QED
      BY <3>8, <3>10
  <2>4. \A m \in 0..M : m \in T
    <3>. HIDE DEF T
    <3>. QED
      BY <1>1, <2>2, <2>3, NumberByNumber
  <2>5. M \in T
    <3>. HIDE DEF T
    <3>. QED
      BY <1>1, <2>4
  <2>. QED
    BY <1>2, <1>4, <2>5, Zenon
<1>. QED
  BY <1>3, <1>5 DEF Reads

\* Every value of level n is read as what is left of it.
ReadsValues(line, f, n) ==
  \A v \in Json[n] : \A j :
    Holds(line, j, Formatted[n][v]) =>
      Reads(line, f, j, Formatted[n][v], Formatted[n][Redaction[n][v]])

LEMMA PartsFollowed ==
  ASSUME NEW line, NEW i, NEW parts \in Seq(Lines), NEW from, NEW upTo,
         Laid(line, i, parts, from, upTo), Follows(line, i + Len(Commas(parts)))
  PROVE  \A m \in 1..Len(parts) : Follows(line, from[m] + Len(parts[m]))
<1>1. /\ upTo[Len(parts)] = i + Len(Commas(parts))
      /\ \A m \in 1..Len(parts) :
           /\ m # 1 => upTo[m - 1] \in 1..Len(line) /\ line[upTo[m - 1]] = "comma"
           /\ upTo[m] = from[m] + Len(parts[m])
  BY DEF Laid
<1>2. ASSUME NEW m \in 1..Len(parts)
      PROVE  Follows(line, upTo[m])
  <2>1. CASE m = Len(parts)
    BY <1>1, <2>1
  <2>2. CASE m # Len(parts)
    <3>1. m + 1 \in 1..Len(parts) /\ m + 1 # 1 /\ (m + 1) - 1 = m
      BY <2>2
    <3>2. upTo[m] \in 1..Len(line) /\ line[upTo[m]] = "comma"
      BY <1>1, <3>1
    <3>. QED
      BY <3>2 DEF Follows
  <2>. QED
    BY <2>1, <2>2
<1>. QED
  BY <1>1, <1>2

LEMMA ReadField ==
  ASSUME NEW line, NEW f, LoopTurns(line, f), NEW i,
         NEW n \in 0..MaxNesting, ReadsValues(line, f, n),
         NEW x \in FieldNames, NEW v \in Json[n],
         Holds(line, i, <<x, "colon">> \o Formatted[n][v]),
         Follows(line, i + Len(<<x, "colon">> \o Formatted[n][v]))
  PROVE  Reads(line, f, i, <<x, "colon">> \o Formatted[n][v],
               <<x, "colon">> \o Formatted[n][IF x \in SENSITIVE_FIELDS THEN Redacted
                                               ELSE Redaction[n][v]])
<1>. DEFINE key == <<x, "colon">>
            t == Formatted[n][v]
            s == key \o t
<1>1. t \in Lines /\ key \in Lines /\ s \in Lines /\ Len(key) = 2
  <2>1. t \in Lines
    BY TextsAreLines
  <2>. HIDE DEF t
  <2>. QED
    BY <2>1 DEF Lines, LineTokens, Punctuation
<1>2. /\ i \in 1..Len(line) /\ line[i] = x
      /\ i + 1 \in 1..Len(line) /\ line[i + 1] = "colon"
      /\ Holds(line, i + 2, t) /\ Len(t) \in Nat /\ Len(s) = Len(t) + 2
  <2>1. FieldAt(line, i, s, x, t)
    BY Zenon DEF FieldAt
  <2>. HIDE DEF s, t
  <2>2. HoldsEach(line, i, s, x, t)
    BY <1>1, <2>1, HoldsField, Zenon
  <2>. QED
    BY <2>2 DEF HoldsEach
<1>3. line \in Lines /\ Len(line) \in Nat /\ i \in Nat
  BY <1>2 DEF Holds, Lines
<1>4. CASE x \notin SENSITIVE_FIELDS
  <2>. DEFINE t2 == Formatted[n][Redaction[n][v]]
              a == <<x>>
              b == <<"colon">>
  <2>1. Reads(line, f, i + 2, t, t2)
    BY <1>2 DEF ReadsValues
  <2>2. "colon" \notin SENSITIVE_FIELDS /\ x \in LineTokens /\ "colon" \in LineTokens
    BY NamesApart DEF LineTokens, Punctuation
  <2>3. Reads(line, f, i, a, a) /\ Reads(line, f, i + 1, b, b)
    BY <1>2, <1>4, <2>2, ReadOne
  <2>4. IsBoth(key, a, b) /\ Len(a) = 1
    BY <2>2 DEF IsBoth, Lines
  <2>. HIDE DEF a, b, key, t, t2
  <2>5. Reads(line, f, i, key, key)
    BY <1>3, <2>3, <2>4, ReadBoth
  <2>6. t2 \in Lines
    BY <2>1 DEF Reads
  <2>. DEFINE u == key \o t2
  <2>7. IsBoth(s, key, t) /\ IsBoth(u, key, t2)
    BY <1>1, <2>6 DEF IsBoth
  <2>. HIDE DEF s, u
  <2>8. Reads(line, f, i, s, u)
    BY <1>1, <1>3, <2>1, <2>5, <2>7, ReadBoth
  <2>. QED
    BY <1>4, <2>8 DEF s, u, key, t, t2
<1>5. CASE x \in SENSITIVE_FIELDS
  <2>1. Formatted[n][Redacted] = <<"redaction">>
    <3>1. Redacted \in Json[n] /\ Redacted.kind = "redacted"
      BY ValuesInside DEF Scalars, Redacted
    <3>2. IsScalar(n, Redacted)
      BY <3>1, TextIs DEF IsFields, IsItems, IsObject, IsArray
    <3>. QED
      BY <3>1, <3>2 DEF IsScalar, ScalarText
  <2>. DEFINE e == i + Len(s)
  <2>2. (i + 2) + Len(t) = e
    <3>. HIDE DEF s, t
    <3>. QED
      BY <1>2, <1>3
  <2>3. Follows(line, e)
    OBVIOUS
  <2>. HIDE DEF e
  <2>4. ValueStands(line, i + 2, n, v)
    BY <1>2, <2>2, <2>3 DEF ValueStands
  <2>5. /\ FindValueEnd(line, i + 2) = e
        /\ i + 2 \in 1..Len(line) /\ line[i + 2] # "colon"
        /\ Len(t) > 0
    BY <2>2, <2>4, ValueEnds
  <2>6. e \in (i + 3)..(Len(line) + 1)
    <3>1. e \in 1..Len(line)
      BY <2>3 DEF Follows
    <3>. HIDE DEF t, s
    <3>. QED
      BY <1>2, <1>3, <2>2, <2>5, <3>1
  <2>. DEFINE u == <<x, "colon">> \o <<"redaction">>
  <2>7. u \in Lines
    BY <1>1 DEF Lines, LineTokens
  <2>. HIDE DEF s, t
  <2>8. ASSUME NEW o, Reaches(line, f, i, o)
        PROVE  Reaches(line, f, i + Len(s), o \o u)
    <3>1. Reaches(line, f, e, o \o (<<line[i], "colon">> \o <<"redaction">>))
      BY <1>2, <1>5, <2>5, <2>6, <2>8, ReadSensitive
    <3>. QED
      BY <1>2, <3>1 DEF e
  <2>. HIDE DEF u
  <2>9. Reads(line, f, i, s, u)
    BY <1>1, <2>7, <2>8 DEF Reads
  <2>. QED
    BY <1>5, <2>1, <2>9 DEF s, t, u
<1>. QED
  BY <1>4, <1>5

\* A text in brackets is read part by part.
LEMMA ReadNested ==
  ASSUME NEW line, NEW f, LoopTurns(line, f), NEW i, NEW s, NEW t,
         NEW l \in Brackets, NEW r \in {"rbrace", "rbracket"},
         NEW parts \in Seq(Lines), NEW clean \in Seq(Lines), Len(clean) = Len(parts),
         Between(line, i, s, l, Commas(parts), r), t = <<l>> \o Commas(clean) \o <<r>>,
         \A m \in 1..Len(parts) : \A j :
           (Holds(line, j, parts[m]) /\ Follows(line, j + Len(parts[m]))) =>
             Reads(line, f, j, parts[m], clean[m])
  PROVE  Reads(line, f, i, s, t)
<1>. DEFINE c == Commas(parts)
            d == Commas(clean)
<1>1. c \in Lines /\ d \in Lines
  BY CommasIsLine
<1>2. r \in Brackets /\ l \in LineTokens /\ r \in LineTokens
  BY DEF Brackets, LineTokens, Punctuation
<1>3. HoldsAll(line, i, s, l, c, r)
  BY <1>1, <1>2, HoldsWrapped, Zenon
<1>4. Holds(line, i + 1, c) /\ Follows(line, (i + 1) + Len(c))
  <2>1. /\ i \in 1..Len(line) /\ Holds(line, i + 1, c) /\ Len(c) \in Nat
        /\ i + Len(c) + 1 \in 1..Len(line) /\ line[i + Len(c) + 1] = r
    BY <1>3 DEF HoldsAll
  <2>. HIDE DEF c
  <2>2. (i + 1) + Len(c) = i + Len(c) + 1
    BY <2>1
  <2>3. Follows(line, i + Len(c) + 1)
    BY <2>1 DEF Follows
  <2>. QED
    BY <2>1, <2>2, <2>3, Zenon
<1>5. PICK from, upTo : Laid(line, i + 1, parts, from, upTo)
  BY <1>4, HoldsCommas
<1>6. \A m \in 1..Len(parts) : Follows(line, from[m] + Len(parts[m]))
  BY <1>4, <1>5, PartsFollowed
<1>7. \A m \in 1..Len(parts) : Holds(line, from[m], parts[m])
  BY <1>5 DEF Laid
<1>8. \A m \in 1..Len(parts) : Reads(line, f, from[m], parts[m], clean[m])
  BY <1>6, <1>7
<1>9. Reads(line, f, i + 1, c, d)
  BY <1>5, <1>8, ReadCommas
<1>. HIDE DEF c, d
<1>10. Between(line, i, s, l, c, r) /\ t = <<l>> \o d \o <<r>>
  BY DEF c, d
<1>. QED
  BY <1>1, <1>2, <1>9, <1>10, ReadBetween

LEMMA ReadObject ==
  ASSUME NEW line, NEW f, LoopTurns(line, f), NEW i,
         NEW n \in 0..MaxNesting, NEW v \in Json[n], IsFields(n, v),
         ReadsValues(line, f, n - 1), Holds(line, i, Formatted[n][v])
  PROVE  Reads(line, f, i, Formatted[n][v], Formatted[n][Redaction[n][v]])
<1>. DEFINE texts == Formatted[n - 1]
            fields == v.fields
            left == CleanFields(fields, Redaction[n - 1])
            parts == FieldTexts(fields, texts)
            clean == FieldTexts(left, texts)
            s == Formatted[n][v]
            t == Formatted[n][Redaction[n][v]]
<1>1. /\ n - 1 \in 0..MaxNesting
      /\ fields \in Seq(Fields(Json[n - 1])) /\ left \in Seq(Fields(Json[n - 1]))
      /\ s = <<"lbrace">> \o Commas(parts) \o <<"rbrace">>
      /\ t = <<"lbrace">> \o Commas(clean) \o <<"rbrace">>
  BY DEF IsFields, IsObject
<1>2. texts \in [Json[n - 1] -> Lines]
  BY <1>1, TextsAreLines
<1>3. parts \in Seq(Lines) /\ clean \in Seq(Lines)
  BY <1>1, <1>2, PartsAreLines
<1>4. DOMAIN fields = 1..Len(fields) /\ Len(fields) \in Nat
  BY <1>1
<1>5. DOMAIN left = DOMAIN fields /\ DOMAIN parts = DOMAIN fields /\ DOMAIN clean = DOMAIN fields
  BY DEF CleanFields, FieldTexts
<1>6. Len(parts) = Len(fields) /\ Len(clean) = Len(parts)
  BY <1>3, <1>4, <1>5
<1>7. ASSUME NEW m \in 1..Len(parts), NEW j,
             Holds(line, j, parts[m]), Follows(line, j + Len(parts[m]))
      PROVE  Reads(line, f, j, parts[m], clean[m])
  <2>. DEFINE x == fields[m].key
              w == fields[m].value
              y == IF x \in SENSITIVE_FIELDS THEN Redacted ELSE Redaction[n - 1][w]
  <2>1. m \in DOMAIN fields
    BY <1>4, <1>6
  <2>2. fields[m] \in Fields(Json[n - 1])
    BY <1>1, <2>1
  <2>3. x \in FieldNames /\ w \in Json[n - 1]
    BY <2>2 DEF Fields
  <2>4. parts[m] = <<x, "colon">> \o texts[w]
    BY <2>1, Zenon DEF FieldTexts
  <2>5. left[m].key = x /\ left[m].value = y
    BY <2>1 DEF CleanFields
  <2>6. clean[m] = <<x, "colon">> \o texts[y]
    BY <1>5, <2>1, <2>5, Zenon DEF FieldTexts
  <2>. HIDE DEF parts, clean, left, fields, x, w
  <2>7. /\ Holds(line, j, <<x, "colon">> \o Formatted[n - 1][w])
        /\ Follows(line, j + Len(<<x, "colon">> \o Formatted[n - 1][w]))
    BY <1>7, <2>4
  <2>8. Reads(line, f, j, <<x, "colon">> \o Formatted[n - 1][w],
              <<x, "colon">> \o Formatted[n - 1][IF x \in SENSITIVE_FIELDS THEN Redacted
                                                  ELSE Redaction[n - 1][w]])
    BY <1>1, <2>3, <2>7, ReadField
  <2>. QED
    BY <2>4, <2>6, <2>8
<1>. HIDE DEF parts, clean, s, t
<1>8. Between(line, i, s, "lbrace", Commas(parts), "rbrace")
  BY <1>1 DEF Between, s
<1>9. "lbrace" \in Brackets /\ "rbrace" \in {"rbrace", "rbracket"}
  BY DEF Brackets
<1>10. Reads(line, f, i, s, t)
  BY <1>1, <1>3, <1>6, <1>7, <1>8, <1>9, ReadNested
<1>. QED
  BY <1>10 DEF s, t

LEMMA ReadArray ==
  ASSUME NEW line, NEW f, LoopTurns(line, f), NEW i,
         NEW n \in 0..MaxNesting, NEW v \in Json[n], IsItems(n, v),
         ReadsValues(line, f, n - 1), Holds(line, i, Formatted[n][v])
  PROVE  Reads(line, f, i, Formatted[n][v], Formatted[n][Redaction[n][v]])
<1>. DEFINE texts == Formatted[n - 1]
            items == v.items
            left == CleanItems(items, Redaction[n - 1])
            parts == ItemTexts(items, texts)
            clean == ItemTexts(left, texts)
            s == Formatted[n][v]
            t == Formatted[n][Redaction[n][v]]
<1>1. /\ n - 1 \in 0..MaxNesting
      /\ items \in Seq(Json[n - 1]) /\ left \in Seq(Json[n - 1])
      /\ s = <<"lbracket">> \o Commas(parts) \o <<"rbracket">>
      /\ t = <<"lbracket">> \o Commas(clean) \o <<"rbracket">>
  BY DEF IsItems, IsArray
<1>2. texts \in [Json[n - 1] -> Lines]
  BY <1>1, TextsAreLines
<1>3. parts \in Seq(Lines) /\ clean \in Seq(Lines)
  BY <1>1, <1>2, PartsAreLines
<1>4. DOMAIN items = 1..Len(items) /\ Len(items) \in Nat
  BY <1>1
<1>5. DOMAIN left = DOMAIN items /\ DOMAIN parts = DOMAIN items /\ DOMAIN clean = DOMAIN items
  BY DEF CleanItems, ItemTexts
<1>6. Len(parts) = Len(items) /\ Len(clean) = Len(parts)
  BY <1>3, <1>4, <1>5
<1>7. ASSUME NEW m \in 1..Len(parts), NEW j,
             Holds(line, j, parts[m]), Follows(line, j + Len(parts[m]))
      PROVE  Reads(line, f, j, parts[m], clean[m])
  <2>. DEFINE w == items[m]
  <2>1. m \in DOMAIN items
    BY <1>4, <1>6
  <2>2. w \in Json[n - 1]
    BY <1>1, <2>1
  <2>3. parts[m] = texts[w] /\ left[m] = Redaction[n - 1][w]
    BY <2>1 DEF ItemTexts, CleanItems
  <2>4. clean[m] = texts[Redaction[n - 1][w]]
    BY <1>5, <2>1, <2>3 DEF ItemTexts
  <2>. HIDE DEF parts, clean, left, items, w
  <2>. QED
    BY <1>7, <2>2, <2>3, <2>4 DEF ReadsValues
<1>. HIDE DEF parts, clean, s, t
<1>8. Between(line, i, s, "lbracket", Commas(parts), "rbracket")
  BY <1>1 DEF Between, s
<1>9. "lbracket" \in Brackets /\ "rbracket" \in {"rbrace", "rbracket"}
  BY DEF Brackets
<1>10. Reads(line, f, i, s, t)
  BY <1>1, <1>3, <1>6, <1>7, <1>8, <1>9, ReadNested
<1>. QED
  BY <1>10 DEF s, t

LEMMA ReadScalar ==
  ASSUME NEW line, NEW f, LoopTurns(line, f), NEW i,
         NEW n \in 0..MaxNesting, NEW v \in Json[n], IsScalar(n, v),
         Holds(line, i, Formatted[n][v])
  PROVE  Reads(line, f, i, Formatted[n][v], Formatted[n][Redaction[n][v]])
<1>. DEFINE x == ScalarText(v)
<1>1. Formatted[n][v] = <<x>> /\ Redaction[n][v] = v
  BY DEF IsScalar
<1>2. x \in LineTokens /\ x \notin SENSITIVE_FIELDS
  BY NamesApart DEF LineTokens
<1>. HIDE DEF x
<1>3. i \in 1..Len(line) /\ line[i] = x
  BY <1>1, HoldsOne
<1>4. Reads(line, f, i, <<x>>, <<x>>)
  BY <1>2, <1>3, ReadOne
<1>. QED
  BY <1>1, <1>4

LEMMA AllAreRead ==
  ASSUME NEW line, NEW f, LoopTurns(line, f)
  PROVE  \A n \in 0..MaxNesting : ReadsValues(line, f, n)
<1>. DEFINE T == {n \in Nat : ReadsValues(line, f, n)}
<1>1. 0 \in T
  <2>1. 0 \in 0..MaxNesting
    BY NestingIsBounded
  <2>2. ASSUME NEW v \in Json[0], NEW j, Holds(line, j, Formatted[0][v])
        PROVE  Reads(line, f, j, Formatted[0][v], Formatted[0][Redaction[0][v]])
    <3>1. ~(0 > 0)
      OBVIOUS
    <3>2. ~IsFields(0, v) /\ ~IsItems(0, v)
      BY <3>1 DEF IsFields, IsItems
    <3>3. IsScalar(0, v)
      BY <2>1, <3>2, TextIs
    <3>. QED
      BY <2>1, <2>2, <3>3, ReadScalar
  <2>. QED
    BY <2>2 DEF ReadsValues
<1>2. ASSUME NEW n \in Nat, n < MaxNesting, n \in T
      PROVE  n + 1 \in T
  <2>1. n + 1 \in 0..MaxNesting /\ (n + 1) - 1 = n
    BY <1>2, NestingIsBounded
  <2>2. ReadsValues(line, f, (n + 1) - 1)
    BY <1>2, <2>1
  <2>. DEFINE m == n + 1
  <2>. HIDE DEF m
  <2>3. m \in 0..MaxNesting /\ ReadsValues(line, f, m - 1)
    BY <2>1, <2>2 DEF m
  <2>4. ASSUME NEW v \in Json[m], NEW j, Holds(line, j, Formatted[m][v])
        PROVE  Reads(line, f, j, Formatted[m][v], Formatted[m][Redaction[m][v]])
    <3>1. CASE IsScalar(m, v)
      BY <2>3, <2>4, <3>1, ReadScalar
    <3>2. CASE IsFields(m, v)
      BY <2>3, <2>4, <3>2, ReadObject
    <3>3. CASE IsItems(m, v)
      BY <2>3, <2>4, <3>3, ReadArray
    <3>. QED
      BY <2>3, <3>1, <3>2, <3>3, TextIs
  <2>5. ReadsValues(line, f, m)
    BY <2>4 DEF ReadsValues
  <2>. QED
    BY <2>5 DEF m
<1>3. \A n \in 0..MaxNesting : n \in T
  <2>. HIDE DEF T
  <2>. QED
    BY <1>1, <1>2, NestingIsBounded, NumberByNumber
<1>. QED
  BY <1>3

\* The line of a value, redacted, is the line of the redacted value.
LEMMA LineIsRedacted ==
  ASSUME NEW v \in Json[MaxNesting]
  PROVE  RedactJsonFields(Serialize(v)) = Serialize(RedactSensitiveValues(v))
<1>. DEFINE line == Serialize(v)
            goal == Serialize(RedactSensitiveValues(v))
<1>0. MaxNesting \in 0..MaxNesting
  BY NestingIsBounded
<1>1. line = Formatted[MaxNesting][v] /\ goal = Formatted[MaxNesting][Redaction[MaxNesting][v]]
  BY DEF Serialize, RedactSensitiveValues
<1>2. line \in Lines
  BY <1>0, <1>1, TextsAreLines
<1>. HIDE DEF line, goal
<1>3. Len(line) \in Nat
  BY <1>2 DEF Lines
<1>4. PICK f : /\ f[0] = [place |-> 1, out |-> <<>>]
               /\ RedactJsonFields(line) = f[Len(line)].out
               /\ \A n \in 1..Len(line) : f[n] = ReadOn(line, f[n - 1])
  BY <1>3, ReadTurns
<1>5. LoopTurns(line, f)
  BY <1>2, <1>4 DEF LoopTurns
<1>6. Holds(line, 1, line)
  <2>1. \A j \in 1..Len(line) : 1 + j - 1 = j
    BY <1>3
  <2>2. 1 + Len(line) - 1 <= Len(line)
    BY <1>3
  <2>. QED
    BY <1>2, <2>1, <2>2 DEF Holds
<1>7. ReadsValues(line, f, MaxNesting)
  BY <1>0, <1>5, AllAreRead
<1>8. Reads(line, f, 1, line, goal)
  BY <1>1, <1>6, <1>7 DEF ReadsValues
<1>9. Reaches(line, f, 1, <<>>)
  <2>1. 0 \in 0..(1 - 1) /\ 1 \in 1..(Len(line) + 1)
    BY <1>3
  <2>. QED
    BY <1>4, <2>1 DEF Reaches, Lines
<1>10. goal \in Lines
  BY <1>8 DEF Reads
<1>11. Reaches(line, f, Len(line) + 1, goal)
  <2>1. Reaches(line, f, 1 + Len(line), <<>> \o goal)
    BY <1>8, <1>9 DEF Reads
  <2>2. 1 + Len(line) = Len(line) + 1
    BY <1>3
  <2>3. <<>> \o goal = goal
    BY <1>10, ConcatEmptySeq DEF Lines
  <2>. QED
    BY <2>1, <2>2, <2>3, Zenon
<1>. DEFINE end == [place |-> Len(line) + 1, out |-> goal]
<1>12. PICK k \in 0..Len(line) : f[k] = end
  <2>1. (Len(line) + 1) - 1 = Len(line)
    BY <1>3
  <2>2. \E k \in 0..((Len(line) + 1) - 1) : f[k] = end
    BY <1>11 DEF Reaches
  <2>. QED
    BY <2>1, <2>2
<1>13. ReadOn(line, end) = end
  <2>1. end.place > Len(line) /\ end.place = Len(line) + 1
    BY <1>3
  <2>2. ~(end.place <= Len(line))
    BY <1>3
  <2>. HIDE DEF end
  <2>. QED
    BY <2>1, <2>2 DEF ReadOn
<1>. HIDE DEF end
<1>14. \A m \in 0..(Len(line) - k) : f[k + m] = end
  <2>. DEFINE T == {m \in Nat : f[k + m] = end}
  <2>1. 0 \in T
    BY <1>3, <1>12
  <2>2. ASSUME NEW m \in Nat, m < Len(line) - k, m \in T
        PROVE  m + 1 \in T
    <3>1. k + (m + 1) \in 1..Len(line) /\ (k + (m + 1)) - 1 = k + m
      BY <1>3, <2>2
    <3>2. f[k + (m + 1)] = ReadOn(line, f[k + m])
      BY <1>4, <3>1
    <3>. QED
      BY <1>13, <2>2, <3>2
  <2>3. Len(line) - k \in Nat
    BY <1>3
  <2>4. \A m \in 0..(Len(line) - k) : m \in T
    <3>. HIDE DEF T
    <3>. QED
      BY <2>1, <2>2, <2>3, NumberByNumber
  <2>. QED
    BY <2>4
<1>15. f[Len(line)] = end
  <2>1. Len(line) - k \in 0..(Len(line) - k) /\ k + (Len(line) - k) = Len(line)
    BY <1>3
  <2>. QED
    BY <1>14, <2>1
<1>16. end.out = goal
  BY DEF end
<1>17. RedactJsonFields(line) = goal
  BY <1>4, <1>15, <1>16
<1>. QED
  BY <1>17 DEF line, goal

-----------------------------------------------------------------------------
LineInv == event \in Events /\ LinesAreRedactedEvents

\* What is logged stays what it was, and its line is the line of the event with
\* everything sensitive in it replaced: LinesAreRedactedEvents, and what it needs
\* (redact_json_fields against redact_sensitive_values).
THEOREM LineInvariant == LineSpec => []LineInv
<1>1. LineInit => LineInv
  BY DEF LineInit, LineInv, LinesAreRedactedEvents
<1>2. LineInv /\ [LineNext]_lineVars => LineInv'
  <2>. SUFFICES ASSUME LineInv, [LineNext]_lineVars
                PROVE  LineInv'
    OBVIOUS
  <2>1. CASE UNCHANGED lineVars
    BY <2>1 DEF LineInv, LinesAreRedactedEvents, lineVars
  <2>2. CASE DropWriter
    <3>. DEFINE clean == RedactJsonFields(Serialize(event))
    <3>1. event \in Json[MaxNesting]
      BY EventsAreJson DEF LineInv
    <3>2. clean = Serialize(RedactSensitiveValues(event))
      BY <3>1, LineIsRedacted
    <3>. HIDE DEF clean
    <3>3. event' = event /\ stderr' = Append(<<>>, clean)
      BY <2>2 DEF DropWriter, clean
    <3>4. DOMAIN stderr' = {1} /\ stderr'[1] = clean
      BY <3>3
    <3>. QED
      BY <3>2, <3>3, <3>4 DEF LineInv, LinesAreRedactedEvents
  <2>. QED
    BY <2>1, <2>2 DEF LineNext
<1>. QED
  BY <1>1, <1>2, PTL DEF LineSpec

\* Redacting the text of any event's line is redacting the event: at any depth
\* every value of a sensitive key is hidden as a whole, nothing else is.
THEOREM LinesAreRedacted == LineSpec => []LinesAreRedactedEvents
BY LineInvariant, PTL DEF LineInv
=============================================================================
