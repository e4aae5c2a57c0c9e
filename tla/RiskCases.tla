------------------------------ MODULE RiskCases ------------------------------
(***************************************************************************)
(* Risk cases: filed by hand or from the alerts of the correlation engine, *)
(* routed to a role, reviewed, decided, snoozed and closed.                *)
(*                                                                         *)
(* The functions of the first release lock the case they change and are    *)
(* one step.  The functions of the triage screens and of the nightly jobs  *)
(* read the case, check what they read and then update the row by its id:  *)
(* two steps.  Every write is subject to the constraints of the tables,    *)
(* and a write they refuse rolls the whole call back.  The jobs run as     *)
(* user 0, whom no row of the user table stands for: such a user holds no  *)
(* permission and cannot be written into a reference to a user.            *)
(***************************************************************************)
CONSTANTS
    Case,        \* possible risk_case rows
    Call         \* requests and jobs that may be at work at the same time

NoCase == "no case"
ASSUME CaseAssumption == NoCase \notin Case

VARIABLES
    case,        \* the rows
    alert,       \* the correlation a case may come from: its tier, while it is new
    call         \* what a request is doing and for which case

vars == <<case, alert, call>>

Status  == {"none", "open", "in_review", "approved", "rejected", "accept_risk",
            "snoozed", "closed"}
Role    == {"nobody", "executive", "team"}
Outcome == {"none", "accepted", "no_action", "other"}

Unlocked == {"promote", "dismiss", "reassign", "unsnooze", "auto_dismiss", "auto_escalate"}
NoCall == [fn |-> "none", of |-> NoCase]

\* tier2: the marker of the executive's queue; told: tier2EscalatedAt is set;
\* old: created longer ago than the jobs wait.
Row == [status: Status, role: Role, user: BOOLEAN, tier2: BOOLEAN, told: BOOLEAN,
        old: BOOLEAN, escalated: BOOLEAN, outcome: Outcome]
NoRow == [status |-> "none", role |-> "nobody", user |-> FALSE, tier2 |-> FALSE,
          told |-> FALSE, old |-> FALSE, escalated |-> FALSE, outcome |-> "none"]

TypeOK ==
    /\ case \in [Case -> Row]
    /\ alert \in [Case -> {"none", "tier 1", "tier 2"}]
    /\ call \in [Call -> [fn: Unlocked, of: Case] \cup {NoCall}]

Init ==
    /\ case = [c \in Case |-> NoRow]
    /\ alert = [c \in Case |-> "none"]
    /\ call = [k \in Call |-> NoCall]

-----------------------------------------------------------------------------
(* The constraints of risk_case, risk_case_event and their references. *)

EventTypes == {"created", "assigned", "status_changed", "escalated", "accepted_risk",
               "snoozed", "closed", "reopened", "tier2_auto_escalated"}

Accepts(row, event, actor) ==
    /\ row.status = "open" => row.role # "nobody"
    /\ event \in EventTypes
    /\ actor # "user 0"

-----------------------------------------------------------------------------
(* Filing. *)

\* fn_risk_case_classify_and_route, once the routing rules have or have not
\* matched a case: a case that has a role is left alone.
Routed(row, matched) ==
    IF row.role # "nobody" THEN row
    ELSE IF matched THEN [row EXCEPT !.role = "team", !.status = "open"]
                    ELSE [row EXCEPT !.status = "in_review", !.tier2 = TRUE]

\* A row is inserted, and routed if the table takes it.
File(c, row, matched) ==
    /\ case[c].status = "none"
    /\ Accepts(row, "created", "nobody")
    /\ case' = [case EXCEPT ![c] = Routed(row, matched)]

\* fn_risk_case_create: the form may name a role, and a user who holds it.  It
\* inserts before it routes, so that a form without a role is refused.
Create(c) ==
    /\ alert[c] = "none"
    /\ \E role \in {"nobody", "executive", "team"}, user, matched \in BOOLEAN :
         File(c, [NoRow EXCEPT !.status = "open", !.role = role, !.user = user], matched)
    /\ UNCHANGED <<alert, call>>

\* The correlation engine files an alert and announces it.
Raise(c) ==
    /\ case[c].status = "none" /\ alert[c] = "none"
    /\ \E tier \in {"tier 1", "tier 2"} : alert' = [alert EXCEPT ![c] = tier]
    /\ UNCHANGED <<case, call>>

\* fn_risk_case_auto_create_from_correlation: a correlation that is sure and
\* material enough is opened for the team that the routing will name, any
\* other goes to the executive.
Filed(tier) ==
    IF tier = "tier 1"
    THEN [NoRow EXCEPT !.status = "open"]
    ELSE [NoRow EXCEPT !.status = "in_review", !.role = "executive", !.tier2 = TRUE]

AutoCreate(c) ==
    /\ alert[c] # "none"
    /\ \E matched \in BOOLEAN : File(c, Filed(alert[c]), matched)
    /\ UNCHANGED <<alert, call>>

-----------------------------------------------------------------------------
(* The functions that lock the case. *)

Change(c, row, event) ==
    /\ Accepts(row, event, "person")
    /\ case' = [case EXCEPT ![c] = row]
    /\ UNCHANGED <<alert, call>>

Filled(c) == case[c].status # "none"

\* fn_risk_case_status_transition.
Transition(c, to) ==
    /\ \/ case[c].status = "open" /\ to = "in_review"
       \/ case[c].status = "in_review" /\ to \in {"approved", "rejected"}
    /\ Change(c, [case[c] EXCEPT !.status = to], "status_changed")

\* Mutant: the refusal covers rejected cases only.
OngoingOrClosed(c) == Filled(c) /\ case[c].status # "rejected"

\* What assign, accept_risk and snooze ask of the case.
Ongoing(c) == Filled(c) /\ case[c].status \notin {"closed", "rejected"}

Assign(c) ==
    /\ Ongoing(c)
    /\ \E role \in {case[c].role, "executive", "team"}, user \in {case[c].user, TRUE} :
         Change(c, [case[c] EXCEPT !.role = role, !.user = user], "assigned")

AcceptRisk(c) ==
    /\ Ongoing(c)
    /\ Change(c, [case[c] EXCEPT !.status = "accept_risk", !.outcome = "accepted"],
              "accepted_risk")

Snooze(c) ==
    /\ Ongoing(c)
    /\ Change(c, [case[c] EXCEPT !.status = "snoozed"], "snoozed")

\* What fn_risk_case_escalate and the sweep for overdue cases ask of the case.
Escalable(row) ==
    row.status \notin {"none", "closed", "rejected", "approved", "accept_risk"}

\* fn_risk_case_escalate marks the case and leaves its status.
Escalate(c) ==
    /\ Escalable(case[c])
    /\ Change(c, [case[c] EXCEPT !.escalated = TRUE], "escalated")

\* fn_risk_case_close; the outcome is one of four, of which two appear below.
Close(c) ==
    /\ case[c].status \in {"approved", "rejected", "accept_risk"}
    /\ \E outcome \in Outcome \ {"none"} :
         Change(c, [case[c] EXCEPT !.status = "closed", !.outcome = outcome], "closed")

\* The first dispatch of an advisory closes the case it was drafted for.
AdvisoryClose(c) ==
    /\ case[c].status \in {"open", "in_review", "approved"}
    /\ Change(c, [case[c] EXCEPT !.status = "closed", !.outcome = "other"], "closed")

-----------------------------------------------------------------------------
(* The functions that do not lock the case. *)

Live(row) == row.status \in {"open", "in_review"}

\* What each of them asks of the row it reads.
Admits(fn, row) ==
    CASE fn = "promote"       -> row.status # "none"
      [] fn = "dismiss"       -> row.status \notin {"none", "closed"}
      [] fn = "reassign"      -> row.status = "open"
      [] fn = "unsnooze"      -> row.status = "snoozed"
      [] fn = "auto_dismiss"  -> Live(row) /\ ~row.user /\ row.old
      [] fn = "auto_escalate" -> Escalable(row)

\* Mutant: the routing's role is kept, as it was before migration 649.
PromotedAsRouted(row, matched) ==
    [Routed([row EXCEPT !.role = "nobody", !.status = "in_review", !.tier2 = FALSE],
            matched) EXCEPT !.user = TRUE]

\* fn_risk_review_promote takes the case out of the executive's hands, routes
\* it and then gives it to the user it names and to that user's role.
Promoted(row, matched) ==
    [Routed([row EXCEPT !.role = "nobody", !.status = "in_review", !.tier2 = FALSE],
            matched) EXCEPT !.role = "team", !.user = TRUE]

\* Mutant: noise is closed without an outcome.
ShutSilently(row) == [row EXCEPT !.status = "closed"]

Shut(row) == [row EXCEPT !.status = "closed", !.outcome = "no_action"]

\* The rows each of them may write over the row as it is by then, with the
\* event it logs and the user it acts for.
Written(fn, row) ==
    CASE fn = "promote"       -> {Promoted(row, matched) : matched \in BOOLEAN}
      [] fn = "dismiss"       -> {Shut(row)}
      [] fn = "reassign"      -> {[row EXCEPT !.role = "team", !.user = TRUE]}
      [] fn = "unsnooze"      -> {[row EXCEPT !.status = "open"]}
      [] fn = "auto_dismiss"  -> {Shut(row)}
      [] fn = "auto_escalate" -> {[row EXCEPT !.escalated = TRUE]}

Event(fn) ==
    CASE fn = "promote"       -> "status_changed"
      [] fn \in {"dismiss", "auto_dismiss"} -> "closed"
      [] fn = "reassign"      -> "assigned"
      [] fn = "unsnooze"      -> "unsnoozed"
      [] fn = "auto_escalate" -> "escalated"

Actor(fn) == IF fn \in {"auto_dismiss", "auto_escalate"} THEN "user 0" ELSE "person"

Read(k, fn, c) ==
    /\ call[k] = NoCall
    /\ Admits(fn, case[c])
    /\ call' = [call EXCEPT ![k] = [fn |-> fn, of |-> c]]
    /\ UNCHANGED <<case, alert>>

\* The update by id, kept if the tables take it and rolled back otherwise.
Write(k) ==
    LET fn == call[k].fn
        c  == call[k].of
    IN  /\ fn \in Unlocked
        /\ \E row \in Written(fn, case[c]) :
             case' = IF Accepts(row, Event(fn), Actor(fn))
                     THEN [case EXCEPT ![c] = row] ELSE case
        /\ call' = [call EXCEPT ![k] = NoCall]
        /\ UNCHANGED alert

-----------------------------------------------------------------------------
(* Time, and the daily look at the executive's queue. *)

GrowOld(c) ==
    /\ Filled(c) /\ ~case[c].old
    /\ case' = [case EXCEPT ![c].old = TRUE]
    /\ UNCHANGED <<alert, call>>

\* Mutant: the queue is taken to be the cases without a role, as the header
\* of the function describes it.
UnreportedUnrouted(row) ==
    row.status = "in_review" /\ row.role = "nobody" /\ row.old /\ ~row.told

Unreported(row) == Live(row) /\ row.tier2 /\ row.old /\ ~row.told

\* fn_risk_triage_auto_escalate, once for each case.  Its update touches the
\* marker alone, so that the read before it needs no step of its own.
Tell(c) ==
    /\ Unreported(case[c])
    /\ Accepts(case[c], "tier2_auto_escalated", "nobody")
    /\ case' = [case EXCEPT ![c].told = TRUE]
    /\ UNCHANGED <<alert, call>>

-----------------------------------------------------------------------------
Next ==
    \/ \E c \in Case :
         \/ Create(c) \/ Raise(c) \/ AutoCreate(c)
         \/ \E to \in Status : Transition(c, to)
         \/ Assign(c) \/ AcceptRisk(c) \/ Snooze(c) \/ Escalate(c) \/ Close(c)
         \/ AdvisoryClose(c)
         \/ \E k \in Call, fn \in Unlocked : Read(k, fn, c)
         \/ GrowOld(c) \/ Tell(c)
    \/ \E k \in Call : Write(k)

Spec == Init /\ [][Next]_vars

\* The daily job runs.
FairSpec == Spec /\ \A c \in Case : WF_vars(Tell(c))

-----------------------------------------------------------------------------
(* Properties. *)

\* Every case is in somebody's inbox, through every order of routing, promotion,
\* reassignment and assignment (the aim of migration 645).
CaseHasRole ==
    \A c \in Case : Filled(c) => case[c].role # "nobody"

\* A closed case says how it ended, whoever overwrote it in between.
ClosedHasOutcome ==
    \A c \in Case : case[c].status = "closed" => case[c].outcome # "none"

\* Nothing but a promotion takes a case out of "closed", neither a decision
\* nor the late write of a call that read the case before it was closed.
ClosedIsLeftByPromotion ==
    [][\A c \in Case :
         case[c].status = "closed" /\ case'[c].status # "closed"
            => \E k \in Call : call[k] = [fn |-> "promote", of |-> c]]_vars

\* No case of the executive's queue rots silently: what nobody has acted on is
\* reported in the end (647, lines 16-18).
RottingIsTold ==
    \A c \in Case :
        LET rotting == Live(case[c]) /\ case[c].tier2 /\ case[c].old
        IN  rotting ~> case[c].told \/ ~rotting
=============================================================================
