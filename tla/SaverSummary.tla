---------------------------- MODULE SaverSummary ----------------------------
(***************************************************************************)
(* The report of the admin API on the token saver (admin.rs,               *)
(* query_token_saver_summary): it reads the policies, then the audit log,  *)
(* adds up what was saved for each group and lays the settings over it,    *)
(* while requests are logged and policies change.                          *)
(*                                                                         *)
(* Of an entry the report uses the first group of the user, whether the    *)
(* saver applied, and a number; the messages dropped are added up like the *)
(* tokens saved.                                                           *)
(***************************************************************************)
EXTENDS Integers, Sequences, FiniteSets, Functions

CONSTANTS
  Teams,       \* groups
  Unknown,     \* the group of an entry whose groups cannot be read
  MaxLogged    \* bounds the log

ASSUME UnknownIsNoTeam == Unknown \notin Teams

VARIABLES
  settings,    \* group with a policy -> whether its saver is on
  entries,     \* the rows of the audit log
  view         \* the report: how far it is, and what it has

summaryVars == <<settings, entries, view>>

-----------------------------------------------------------------------------
NoReport == [of |-> <<>>, requests |-> 0, saved |-> 0]

SummaryInit ==
  /\ settings \in UNION {[some -> BOOLEAN] : some \in {S \in SUBSET Teams : IsFiniteSet(S)}}
  /\ entries = <<>>
  /\ view = [at |-> "asked", policies |-> <<>>, since |-> 0, rows |-> {}, report |-> NoReport]

\* What the query finds.
Optimized == {n \in DOMAIN entries : entries[n].applied}

LogRequest ==
  /\ Len(entries) < MaxLogged
  /\ \E team \in Teams \cup {Unknown}, applied \in BOOLEAN, saved \in 0..2 :
       /\ applied \/ saved = 0
       /\ entries' = Append(entries, [team |-> team, applied |-> applied, saved |-> saved])
  /\ UNCHANGED <<settings, view>>

\* An administrator sets or deletes a policy.
ChangePolicy ==
  /\ \E team \in Teams :
       settings' \in {[t \in DOMAIN settings \ {team} |-> settings[t]]} \cup
                     {[t \in DOMAIN settings \cup {team} |->
                         IF t = team THEN on ELSE settings[t]] : on \in BOOLEAN}
  /\ UNCHANGED <<entries, view>>

ListPolicies ==
  /\ view.at = "asked"
  /\ view' = [view EXCEPT !.at = "listed", !.policies = settings, !.since = Cardinality(Optimized)]
  /\ UNCHANGED <<settings, entries>>

\* The row of a group, which is made when it is first needed.
RowOf(report, team) ==
  IF team \in DOMAIN report.of THEN report.of[team]
  ELSE [enabled |-> FALSE, requests |-> 0, saved |-> 0]

WithRow(report, team, row) ==
  [report EXCEPT !.of = [t \in DOMAIN report.of \cup {team} |->
                           IF t = team THEN row ELSE report.of[t]]]

Counted(report, e) ==
  LET row == RowOf(report, e.team)
  IN [WithRow(report, e.team, [row EXCEPT !.requests = @ + 1, !.saved = @ + e.saved])
        EXCEPT !.requests = @ + 1, !.saved = @ + e.saved]

ReadEntries ==
  /\ view.at = "listed"
  /\ view' = [view EXCEPT !.at = "read", !.rows = Optimized]
  /\ UNCHANGED <<settings, entries>>

\* A turn of the loop over the rows, which the query returns in any order.
AddEntry ==
  /\ view.at = "read"
  /\ \E n \in view.rows :
       view' = [view EXCEPT !.rows = @ \ {n}, !.report = Counted(@, entries[n])]
  /\ UNCHANGED <<settings, entries>>

\* Deliberately wrong: the group of a policy gets a row of its own.
FreshOverlay(report, policies) ==
  [report EXCEPT !.of = [t \in DOMAIN report.of \cup DOMAIN policies |->
     IF t \in DOMAIN policies THEN [enabled |-> policies[t], requests |-> 0, saved |-> 0]
     ELSE report.of[t]]]

Overlay(report, policies) ==
  [report EXCEPT !.of = [t \in DOMAIN report.of \cup DOMAIN policies |->
     IF t \in DOMAIN policies THEN [RowOf(report, t) EXCEPT !.enabled = policies[t]]
     ELSE report.of[t]]]

Answer ==
  /\ view.at = "read" /\ view.rows = {}
  /\ view' = [view EXCEPT !.at = "answered", !.report = Overlay(@, view.policies)]
  /\ UNCHANGED <<settings, entries>>

SummaryNext == LogRequest \/ ChangePolicy \/ ListPolicies \/ ReadEntries \/ AddEntry \/ Answer

SummarySpec == SummaryInit /\ [][SummaryNext]_summaryVars

-----------------------------------------------------------------------------
(* The report holds together although it reads twice: its totals are those *)
(* of its groups, it leaves out no request that the saver had touched when *)
(* the policies were read, and it lists each group of a policy with the    *)
(* setting that was read, and no other group as switched on (the totals    *)
(* and per_group of query_token_saver_summary).                            *)
SummaryAddsUp ==
  LET report == view.report
  IN view.at = "answered" =>
       /\ report.requests = SumFunction([t \in DOMAIN report.of |-> report.of[t].requests])
       /\ report.saved = SumFunction([t \in DOMAIN report.of |-> report.of[t].saved])
       /\ report.requests \in view.since..Cardinality(Optimized)
       /\ \A team \in DOMAIN view.policies :
            team \in DOMAIN report.of /\ report.of[team].enabled = view.policies[team]
       /\ \A team \in DOMAIN report.of \ DOMAIN view.policies : ~report.of[team].enabled
=============================================================================
