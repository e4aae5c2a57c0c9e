--------------------------- MODULE RiskCases_proofs ---------------------------
(* What TLAPS proves of the risk cases, for any number of cases and of calls *)
(* that overlap.                                                             *)
EXTENDS RiskCases, TLAPS

\* A row that may stand in the table.
Sound(row) ==
    /\ row \in Row
    /\ row.status # "none" => row.role # "nobody"
    /\ row.status = "closed" => row.outcome # "none"

\* A call has read a row, and rows stay.
CallsAreFiled == \A k \in Call : call[k] # NoCall => Filled(call[k].of)

IInv == TypeOK /\ CaseHasRole /\ ClosedHasOutcome /\ CallsAreFiled

-----------------------------------------------------------------------------
(* Rows. *)

\* The invariant row by row.
LEMMA RowsAreSound ==
    TypeOK => (CaseHasRole /\ ClosedHasOutcome <=> \A c \in Case : Sound(case[c]))
BY DEF TypeOK, CaseHasRole, ClosedHasOutcome, Filled, Sound

\* Routing gives a role or leaves the case in review, and makes no row unsound
\* that the constraints take.
LEMMA RoutedType ==
    ASSUME NEW row \in Row, NEW matched \in BOOLEAN
    PROVE  /\ Routed(row, matched) \in Row
           /\ row.status # "none" => Routed(row, matched).status # "none"
           /\ row.role # "nobody" => Routed(row, matched) = row
           /\ row.role = "nobody" => Routed(row, matched).status \in {"open", "in_review"}
           /\ Routed(row, matched).outcome = row.outcome
BY DEF Routed, Row, Status, Role

\* Whatever an unlocked function writes over a sound row is sound, and is a row
\* that is still filed.
LEMMA WrittenIsSound ==
    ASSUME NEW fn \in Unlocked, NEW row, Sound(row), row.status # "none",
           NEW new \in Written(fn, row)
    PROVE  Sound(new) /\ new.status # "none"
<1>1. CASE fn = "promote"
  <2>1. PICK matched \in BOOLEAN : new = Promoted(row, matched)
    BY <1>1 DEF Written
  <2> DEFINE cleared == [row EXCEPT !.role = "nobody", !.status = "in_review",
                                    !.tier2 = FALSE]
  <2>2. /\ cleared \in Row
        /\ cleared.status = "in_review" /\ cleared.role = "nobody"
    BY DEF Sound, Row, Status, Role
  <2>3. /\ Routed(cleared, matched) \in Row
        /\ Routed(cleared, matched).status \in {"open", "in_review"}
    BY <2>2, RoutedType
  <2>4. new = [Routed(cleared, matched) EXCEPT !.role = "team", !.user = TRUE]
    BY <2>1 DEF Promoted
  <2> HIDE DEF cleared
  <2> QED  BY <2>3, <2>4 DEF Sound, Row, Role
<1>2. CASE fn \in {"dismiss", "auto_dismiss"}
  <2>1. new = [row EXCEPT !.status = "closed", !.outcome = "no_action"]
    BY <1>2 DEF Written, Shut
  <2> QED  BY <2>1 DEF Sound, Row, Status, Outcome
<1>3. CASE fn = "reassign"
  <2>1. new = [row EXCEPT !.role = "team", !.user = TRUE]
    BY <1>3 DEF Written
  <2> QED  BY <2>1 DEF Sound, Row, Role
<1>4. CASE fn = "unsnooze"
  <2>1. new = [row EXCEPT !.status = "open"]
    BY <1>4 DEF Written
  <2> QED  BY <2>1 DEF Sound, Row, Status
<1>5. CASE fn = "auto_escalate"
  <2>1. new = [row EXCEPT !.escalated = TRUE]
    BY <1>5 DEF Written
  <2> QED  BY <2>1 DEF Sound, Row
<1> QED  BY <1>1, <1>2, <1>3, <1>4, <1>5 DEF Unlocked

-----------------------------------------------------------------------------
(* The invariant. *)

\* It holds while nothing is filed.
LEMMA InitIInv == Init => IInv
BY CaseAssumption
DEF Init, IInv, TypeOK, CaseHasRole, ClosedHasOutcome, CallsAreFiled, NoRow, Row,
    Status, Role, Outcome, Filled

\* A step that writes one sound, filed row and changes no call keeps it.
LEMMA OneRow ==
    ASSUME IInv, NEW c \in Case, NEW row,
           Sound(row), row.status # "none",
           case' = [case EXCEPT ![c] = row],
           alert' \in [Case -> {"none", "tier 1", "tier 2"}],
           \A k \in Call : call'[k] \in {call[k], NoCall},
           call' \in [Call -> [fn: Unlocked, of: Case] \cup {NoCall}]
    PROVE  IInv'
<1>1. TypeOK'
  BY DEF IInv, TypeOK, Sound
<1>2. \A d \in Case : Sound(case'[d])
  BY RowsAreSound DEF IInv, TypeOK
<1>3. CaseHasRole' /\ ClosedHasOutcome'
  BY <1>1, <1>2 DEF TypeOK, CaseHasRole, ClosedHasOutcome, Filled, Sound
<1>4. CallsAreFiled'
  <2> SUFFICES ASSUME NEW k \in Call, call'[k] # NoCall
               PROVE  case'[call'[k].of].status # "none"
    BY DEF CallsAreFiled, Filled
  <2>1. call'[k] = call[k] /\ case[call[k].of].status # "none"
    BY DEF IInv, CallsAreFiled, Filled
  <2>2. call[k].of \in Case
    BY <2>1 DEF IInv, TypeOK
  <2> QED  BY <2>1, <2>2 DEF IInv, TypeOK
<1> QED  BY <1>1, <1>3, <1>4 DEF IInv

\* A row that a filing leaves is sound.
LEMMA FileIsSound ==
    ASSUME IInv, NEW c \in Case, NEW row \in Row, NEW matched \in BOOLEAN,
           row.status \in {"open", "in_review"},
           row.status = "in_review" => row.role # "nobody",
           File(c, row, matched), UNCHANGED <<alert, call>>
    PROVE  IInv'
<1>1. row.role # "nobody" /\ Routed(row, matched) = row
  BY RoutedType DEF File, Accepts
<1>2. Sound(row) /\ row.status # "none"
  BY <1>1 DEF Sound
<1>3. case' = [case EXCEPT ![c] = row]
  BY <1>1 DEF File
<1> QED  BY <1>2, <1>3, OneRow DEF IInv, TypeOK

\* A change under the lock of the case, of a row that is filed.
LEMMA ChangeIsSound ==
    ASSUME IInv, NEW c \in Case, NEW row, NEW event,
           Sound(row), row.status # "none", Change(c, row, event)
    PROVE  IInv'
BY OneRow DEF Change, IInv, TypeOK

\* Every operation keeps the invariant.
LEMMA NextIInv == IInv /\ [Next]_vars => IInv'
<1> SUFFICES ASSUME IInv, [Next]_vars PROVE IInv'
  OBVIOUS
<1>0. TypeOK /\ \A c \in Case : Sound(case[c])
  BY RowsAreSound DEF IInv
<1>1. ASSUME NEW c \in Case, Create(c) PROVE IInv'
  <2>1. PICK role \in {"nobody", "executive", "team"}, user \in BOOLEAN,
             matched \in BOOLEAN :
               File(c, [NoRow EXCEPT !.status = "open", !.role = role, !.user = user],
                    matched)
    BY <1>1 DEF Create
  <2> DEFINE row == [NoRow EXCEPT !.status = "open", !.role = role, !.user = user]
  <2>2. row \in Row /\ row.status = "open"
    BY DEF NoRow, Row, Status, Role, Outcome
  <2>3. File(c, row, matched) /\ UNCHANGED <<alert, call>>
    BY <1>1, <2>1 DEF Create
  <2> HIDE DEF row
  <2> QED  BY <2>2, <2>3, FileIsSound
<1>2. ASSUME NEW c \in Case, Raise(c) PROVE IInv'
  BY <1>2 DEF Raise, IInv, TypeOK, CaseHasRole, ClosedHasOutcome, CallsAreFiled, Filled
<1>3. ASSUME NEW c \in Case, AutoCreate(c) PROVE IInv'
  <2>1. PICK matched \in BOOLEAN : File(c, Filed(alert[c]), matched)
    BY <1>3 DEF AutoCreate
  <2>2. /\ Filed(alert[c]) \in Row
        /\ Filed(alert[c]).status \in {"open", "in_review"}
        /\ Filed(alert[c]).status = "in_review" => Filed(alert[c]).role # "nobody"
    BY DEF Filed, NoRow, Row, Status, Role, Outcome
  <2> QED  BY <1>3, <2>1, <2>2, FileIsSound DEF AutoCreate
<1>4. ASSUME NEW c \in Case, NEW to \in Status, Transition(c, to) PROVE IInv'
  <2> DEFINE row == [case[c] EXCEPT !.status = to]
  <2>1. Sound(row) /\ row.status # "none"
    BY <1>0, <1>4 DEF Transition, Sound, Row
  <2>2. Change(c, row, "status_changed")
    BY <1>4 DEF Transition
  <2> HIDE DEF row
  <2> QED  BY <2>1, <2>2, ChangeIsSound
<1>5. ASSUME NEW c \in Case, Assign(c) PROVE IInv'
  <2>1. PICK role \in {case[c].role, "executive", "team"}, user \in {case[c].user, TRUE} :
             Change(c, [case[c] EXCEPT !.role = role, !.user = user], "assigned")
    BY <1>5 DEF Assign
  <2> DEFINE row == [case[c] EXCEPT !.role = role, !.user = user]
  <2>2. Sound(row) /\ row.status # "none"
    BY <1>0, <1>5 DEF Assign, Ongoing, Filled, Sound, Row, Role
  <2>3. Change(c, row, "assigned")
    BY <2>1
  <2> HIDE DEF row
  <2> QED  BY <2>2, <2>3, ChangeIsSound
<1>6. ASSUME NEW c \in Case, AcceptRisk(c) PROVE IInv'
  <2> DEFINE row == [case[c] EXCEPT !.status = "accept_risk", !.outcome = "accepted"]
  <2>1. Sound(row) /\ row.status # "none"
    BY <1>0, <1>6 DEF AcceptRisk, Ongoing, Filled, Sound, Row, Status, Outcome
  <2>2. Change(c, row, "accepted_risk")
    BY <1>6 DEF AcceptRisk
  <2> HIDE DEF row
  <2> QED  BY <2>1, <2>2, ChangeIsSound
<1>7. ASSUME NEW c \in Case, Snooze(c) PROVE IInv'
  <2> DEFINE row == [case[c] EXCEPT !.status = "snoozed"]
  <2>1. Sound(row) /\ row.status # "none"
    BY <1>0, <1>7 DEF Snooze, Ongoing, Filled, Sound, Row, Status
  <2>2. Change(c, row, "snoozed")
    BY <1>7 DEF Snooze
  <2> HIDE DEF row
  <2> QED  BY <2>1, <2>2, ChangeIsSound
<1>8. ASSUME NEW c \in Case, Escalate(c) PROVE IInv'
  <2> DEFINE row == [case[c] EXCEPT !.escalated = TRUE]
  <2>1. Sound(row) /\ row.status # "none"
    BY <1>0, <1>8 DEF Escalate, Escalable, Sound, Row
  <2>2. Change(c, row, "escalated")
    BY <1>8 DEF Escalate
  <2> HIDE DEF row
  <2> QED  BY <2>1, <2>2, ChangeIsSound
<1>9. ASSUME NEW c \in Case, Close(c) PROVE IInv'
  <2>1. PICK outcome \in Outcome \ {"none"} :
             Change(c, [case[c] EXCEPT !.status = "closed", !.outcome = outcome], "closed")
    BY <1>9 DEF Close
  <2> DEFINE row == [case[c] EXCEPT !.status = "closed", !.outcome = outcome]
  <2>2. Sound(row) /\ row.status # "none"
    BY <1>0, <1>9 DEF Close, Sound, Row, Status
  <2>3. Change(c, row, "closed")
    BY <2>1
  <2> HIDE DEF row
  <2> QED  BY <2>2, <2>3, ChangeIsSound
<1>10. ASSUME NEW c \in Case, AdvisoryClose(c) PROVE IInv'
  <2> DEFINE row == [case[c] EXCEPT !.status = "closed", !.outcome = "other"]
  <2>1. Sound(row) /\ row.status # "none"
    BY <1>0, <1>10 DEF AdvisoryClose, Sound, Row, Status, Outcome
  <2>2. Change(c, row, "closed")
    BY <1>10 DEF AdvisoryClose
  <2> HIDE DEF row
  <2> QED  BY <2>1, <2>2, ChangeIsSound
<1>11. ASSUME NEW k \in Call, NEW fn \in Unlocked, NEW c \in Case, Read(k, fn, c)
       PROVE  IInv'
  <2>1. case[c].status # "none"
    BY <1>11 DEF Read, Admits, Live, Escalable, Unlocked
  <2> QED  BY <1>11, <2>1
  DEF Read, IInv, TypeOK, CaseHasRole, ClosedHasOutcome, CallsAreFiled, Filled
<1>12. ASSUME NEW c \in Case, GrowOld(c) PROVE IInv'
  <2> DEFINE row == [case[c] EXCEPT !.old = TRUE]
  <2>1. Sound(row) /\ row.status # "none"
    BY <1>0, <1>12 DEF GrowOld, Filled, Sound, Row
  <2>2. case' = [case EXCEPT ![c] = row]
    BY <1>0, <1>12 DEF GrowOld, TypeOK, Row
  <2> HIDE DEF row
  <2> QED  BY <1>12, <2>1, <2>2, OneRow DEF GrowOld, IInv, TypeOK
<1>13. ASSUME NEW c \in Case, Tell(c) PROVE IInv'
  <2> DEFINE row == [case[c] EXCEPT !.told = TRUE]
  <2>1. Sound(row) /\ row.status # "none"
    BY <1>0, <1>13 DEF Tell, Unreported, Live, Sound, Row
  <2>2. case' = [case EXCEPT ![c] = row]
    BY <1>0, <1>13 DEF Tell, TypeOK, Row
  <2> HIDE DEF row
  <2> QED  BY <1>13, <2>1, <2>2, OneRow DEF Tell, IInv, TypeOK
<1>14. ASSUME NEW k \in Call, Write(k) PROVE IInv'
  <2> DEFINE fn == call[k].fn
             c  == call[k].of
  <2>1. call[k] # NoCall /\ fn \in Unlocked
    BY <1>14 DEF Write, NoCall, Unlocked
  <2>2. c \in Case /\ case[c].status # "none"
    BY <1>0, <2>1 DEF TypeOK, IInv, CallsAreFiled, Filled
  <2>3. /\ call' \in [Call -> [fn: Unlocked, of: Case] \cup {NoCall}]
        /\ \A j \in Call : call'[j] \in {call[j], NoCall}
        /\ alert' = alert
    BY <1>0, <1>14 DEF Write, TypeOK
  <2>4. PICK row \in Written(fn, case[c]) :
             case' \in {case, [case EXCEPT ![c] = row]}
    BY <1>14 DEF Write
  <2>5. Sound(row) /\ row.status # "none"
    BY <1>0, <2>1, <2>2, <2>4, WrittenIsSound
  <2> HIDE DEF fn, c
  <2>6. CASE case' = [case EXCEPT ![c] = row]
    BY <1>0, <2>2, <2>3, <2>5, <2>6, OneRow DEF TypeOK
  <2>7. CASE case' = case
    BY <2>3, <2>7
    DEF IInv, TypeOK, CaseHasRole, ClosedHasOutcome, CallsAreFiled, Filled
  <2> QED  BY <2>4, <2>6, <2>7
<1>15. CASE UNCHANGED vars
  BY <1>15 DEF vars, IInv, TypeOK, CaseHasRole, ClosedHasOutcome, CallsAreFiled, Filled
<1> QED
  BY <1>1, <1>2, <1>3, <1>4, <1>5, <1>6, <1>7, <1>8, <1>9, <1>10, <1>11, <1>12,
     <1>13, <1>14, <1>15 DEF Next

-----------------------------------------------------------------------------
(* Leaving "closed". *)

\* A promotion of the case is under way.
Promoting(c) == \E k \in Call : call[k] = [fn |-> "promote", of |-> c]

\* A step that writes one row of another case, or a row of the same status,
\* or no row that was closed, takes no case out of "closed".
LEMMA StaysClosed ==
    ASSUME TypeOK, NEW c \in Case, NEW row,
           case' = [case EXCEPT ![c] = row],
           case[c].status = "closed" => row.status = "closed"
    PROVE  \A d \in Case : case[d].status = "closed" => case'[d].status = "closed"
BY DEF TypeOK

\* The unlocked writes: the one of fn_risk_case_unsnooze is refused, since no
\* event may be called "unsnoozed".
LEMMA WriteLeavesClosed ==
    ASSUME TypeOK, NEW k \in Call, Write(k), NEW d \in Case,
           case[d].status = "closed", case'[d].status # "closed"
    PROVE  Promoting(d)
<1> DEFINE fn == call[k].fn
           c  == call[k].of
<1>1. call[k] # NoCall /\ fn \in Unlocked
  BY DEF Write, NoCall, Unlocked
<1>2. c \in Case /\ call[k] \in [fn: Unlocked, of: Case]
  BY <1>1 DEF TypeOK
<1>3. PICK row \in Written(fn, case[c]) :
           case' = IF Accepts(row, Event(fn), Actor(fn))
                   THEN [case EXCEPT ![c] = row] ELSE case
  BY DEF Write
<1> HIDE DEF fn, c
<1>4. /\ Accepts(row, Event(fn), Actor(fn))
      /\ c = d /\ case'[d] = row
  BY <1>2, <1>3 DEF TypeOK
<1>5. fn = "promote"
  <2>1. case[c] \in Row /\ row.status # "closed" /\ case[c].status = "closed"
    BY <1>2, <1>4 DEF TypeOK
  <2>2. CASE fn \in {"dismiss", "auto_dismiss"}
    BY <1>3, <2>1, <2>2 DEF Written, Shut, Row
  <2>3. CASE fn = "reassign"
    <3>1. row = [case[c] EXCEPT !.role = "team", !.user = TRUE]
      BY <1>3, <2>3 DEF Written
    <3> QED  BY <2>1, <3>1 DEF Row
  <2>4. CASE fn = "unsnooze"
    BY <1>4, <2>4 DEF Accepts, Event, EventTypes
  <2>5. CASE fn = "auto_escalate"
    <3>1. row = [case[c] EXCEPT !.escalated = TRUE]
      BY <1>3, <2>5 DEF Written
    <3> QED  BY <2>1, <3>1 DEF Row
  <2> QED  BY <1>1, <2>2, <2>3, <2>4, <2>5 DEF Unlocked, fn
<1>6. call[k] = [fn |-> "promote", of |-> d]
  BY <1>2, <1>4, <1>5 DEF fn, c
<1> QED  BY <1>6 DEF Promoting

\* No operation but a promotion under way takes a case out of "closed".
LEMMA NextLeavesClosed ==
    ASSUME TypeOK, [Next]_vars, NEW d \in Case,
           case[d].status = "closed", case'[d].status # "closed"
    PROVE  Promoting(d)
<1>0. \A c \in Case : case[c] \in Row
  BY DEF TypeOK
<1>1. ASSUME NEW c \in Case, NEW row \in Row, NEW matched \in BOOLEAN,
             File(c, row, matched)
      PROVE  FALSE
  <2>1. case[c].status = "none" /\ case' = [case EXCEPT ![c] = Routed(row, matched)]
    BY <1>1 DEF File
  <2> QED  BY <2>1 DEF TypeOK
<1>2. ASSUME NEW c \in Case, Create(c) PROVE FALSE
  <2>1. PICK role \in {"nobody", "executive", "team"}, user \in BOOLEAN,
             matched \in BOOLEAN :
               File(c, [NoRow EXCEPT !.status = "open", !.role = role, !.user = user],
                    matched)
    BY <1>2 DEF Create
  <2>2. [NoRow EXCEPT !.status = "open", !.role = role, !.user = user] \in Row
    BY DEF NoRow, Row, Status, Role, Outcome
  <2> QED  BY <1>1, <2>1, <2>2
<1>3. ASSUME NEW c \in Case, AutoCreate(c) PROVE FALSE
  <2>1. Filed(alert[c]) \in Row
    BY DEF Filed, NoRow, Row, Status, Role, Outcome
  <2> QED  BY <1>1, <1>3, <2>1 DEF AutoCreate
<1>4. ASSUME NEW c \in Case, NEW row, NEW event, Change(c, row, event),
             case[c].status = "closed" => row.status = "closed"
      PROVE  FALSE
  BY <1>4, StaysClosed DEF Change
<1>5. ASSUME NEW c \in Case, NEW to \in Status, Transition(c, to) PROVE FALSE
  BY <1>4, <1>5 DEF Transition
<1>6. ASSUME NEW c \in Case, Assign(c) PROVE FALSE
  BY <1>4, <1>6 DEF Assign, Ongoing
<1>7. ASSUME NEW c \in Case, AcceptRisk(c) \/ Snooze(c) PROVE FALSE
  BY <1>4, <1>7 DEF AcceptRisk, Snooze, Ongoing
<1>8. ASSUME NEW c \in Case, Escalate(c) PROVE FALSE
  BY <1>4, <1>8 DEF Escalate, Escalable
<1>9. ASSUME NEW c \in Case, Close(c) \/ AdvisoryClose(c) PROVE FALSE
  BY <1>4, <1>9 DEF Close, AdvisoryClose
<1>10. ASSUME NEW c \in Case, GrowOld(c) PROVE FALSE
  BY <1>0, <1>10 DEF GrowOld, TypeOK, Row
<1>11. ASSUME NEW c \in Case, Tell(c) PROVE FALSE
  BY <1>0, <1>11 DEF Tell, TypeOK, Row
<1>12. ASSUME NEW k \in Call, Write(k) PROVE Promoting(d)
  BY <1>12, WriteLeavesClosed
<1>13. ASSUME UNCHANGED case PROVE FALSE
  BY <1>13
<1>14. ASSUME NEW c \in Case, NEW k \in Call, NEW fn \in Unlocked, Read(k, fn, c)
       PROVE  FALSE
  BY <1>13, <1>14 DEF Read
<1>15. ASSUME NEW c \in Case, Raise(c) PROVE FALSE
  BY <1>13, <1>15 DEF Raise
<1>16. CASE UNCHANGED vars
  BY <1>13, <1>16 DEF vars
<1> QED
  BY <1>2, <1>3, <1>5, <1>6, <1>7, <1>8, <1>9, <1>10, <1>11, <1>12, <1>14, <1>15,
     <1>16 DEF Next

-----------------------------------------------------------------------------
(* Theorems. *)

\* The rows, the alerts and the calls keep their types.
THEOREM TypeCorrect == Spec => []TypeOK
<1>1. Init => IInv
  BY InitIInv
<1>2. IInv /\ [Next]_vars => IInv'
  BY NextIInv
<1>3. IInv => TypeOK
  BY DEF IInv
<1> QED  BY <1>1, <1>2, <1>3, PTL DEF Spec

\* Every case that is filed has a role, for any number of calls that overlap.
THEOREM CaseAlwaysHasRole == Spec => []CaseHasRole
<1>1. Init => IInv
  BY InitIInv
<1>2. IInv /\ [Next]_vars => IInv'
  BY NextIInv
<1>3. IInv => CaseHasRole
  BY DEF IInv
<1> QED  BY <1>1, <1>2, <1>3, PTL DEF Spec

\* Every case that is closed has an outcome.
THEOREM ClosedAlwaysHasOutcome == Spec => []ClosedHasOutcome
<1>1. Init => IInv
  BY InitIInv
<1>2. IInv /\ [Next]_vars => IInv'
  BY NextIInv
<1>3. IInv => ClosedHasOutcome
  BY DEF IInv
<1> QED  BY <1>1, <1>2, <1>3, PTL DEF Spec

\* Only a promotion takes a case out of "closed".
THEOREM ClosedOnlyLeftByPromotion == Spec => ClosedIsLeftByPromotion
<1>1. Init => IInv
  BY InitIInv
<1>2. IInv /\ [Next]_vars => IInv'
  BY NextIInv
<1>3. IInv /\ [Next]_vars
        => [\A c \in Case :
              case[c].status = "closed" /\ case'[c].status # "closed"
                => \E k \in Call : call[k] = [fn |-> "promote", of |-> c]]_vars
  BY NextLeavesClosed DEF IInv, Promoting
<1> QED  BY <1>1, <1>2, <1>3, PTL DEF Spec, ClosedIsLeftByPromotion
=============================================================================
