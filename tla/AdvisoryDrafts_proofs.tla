------------------------ MODULE AdvisoryDrafts_proofs ------------------------
(* What TLAPS proves of the advisory drafts and of their mail, for any       *)
(* number of drafts, of calls that overlap and of ticks of the worker.       *)
EXTENDS AdvisoryDrafts, TLAPS

\* What a call has read still holds when it writes: an approval is final.
CallsStand ==
    \A k \in Call :
        /\ call[k].fn = "send_after_review" => draft[call[k].of].status = "approved"
        /\ call[k].fn = "mail" => draft[call[k].of].dispatched

\* A tick holds mails that were queued, and remembers what the server said.
JobsStand ==
    \A t \in Tick, d \in Draft :
        /\ job[t][d] # "none" => mail[d].status # "none"
        /\ job[t][d] = "accepted" => mailed[d]

IInv == TypeOK /\ MailedIsApproved /\ SentWasAccepted /\ CallsStand /\ JobsStand

DraftRow == [status: Status, reviewer: Reviewer, dispatched: BOOLEAN]
MailRow  == [status: MailStatus, tries: 0..MaxRetry, due: BOOLEAN]

\* The invariant holds before a draft is generated.
LEMMA InitIInv == Init => IInv
<1> SUFFICES ASSUME Init PROVE IInv
  OBVIOUS
<1>1. 0 \in 0..MaxRetry /\ 0 \in 0..Slips
  BY RetryAssumption
<1>2. TypeOK
  BY <1>1 DEF Init, TypeOK, Status, Reviewer, MailStatus
<1>3. MailedIsApproved /\ SentWasAccepted /\ CallsStand /\ JobsStand
  BY DEF Init, MailedIsApproved, SentWasAccepted, CallsStand, JobsStand, NoCall
<1> QED  BY <1>2, <1>3 DEF IInv

-----------------------------------------------------------------------------
(* Rows. *)

\* A write of an unlocked function keeps the approval that a dispatch needs.
LEMMA WrittenStands ==
    ASSUME NEW fn \in Unlocked, NEW r \in DraftRow,
           r.dispatched => r.status = "approved",
           fn = "send_after_review" => r.status = "approved"
    PROVE  /\ Written(fn, r) \in DraftRow
           /\ r.dispatched => Written(fn, r).dispatched
           /\ r.status = "approved" => Written(fn, r).status = "approved"
           /\ Written(fn, r).dispatched => Written(fn, r).status = "approved"
<1>1. CASE fn = "send_directly"
  BY <1>1 DEF Written, DraftRow, Status, Reviewer
<1>2. CASE fn = "route_for_review"
  <2>1. Written(fn, r) = [r EXCEPT !.reviewer = "executive"]
    BY <1>2 DEF Written
  <2> QED  BY <2>1 DEF DraftRow, Reviewer
<1>3. CASE fn \in {"exec_approve", "exec_modify"}
  <2>1. Written(fn, r) = [r EXCEPT !.status = "approved", !.reviewer = "legal_counsel"]
    BY <1>3 DEF Written
  <2> QED  BY <2>1 DEF DraftRow, Reviewer, Status
<1>4. CASE fn = "send_after_review"
  <2>1. Written(fn, r) = [r EXCEPT !.dispatched = TRUE]
    BY <1>4 DEF Written
  <2> QED  BY <1>4, <2>1 DEF DraftRow
<1> QED  BY <1>1, <1>2, <1>3, <1>4 DEF Unlocked

\* What a tick records of a queued mail is a row of a queued mail.
LEMMA OutcomeType ==
    ASSUME TypeOK, NEW t \in Tick, NEW d \in Draft
    PROVE  /\ Outcome(t, d) \in MailRow
           /\ Outcome(t, d).status \in {"sent", "pending_retry", "final_failed"}
           /\ Outcome(t, d).status = "sent" => job[t][d] = "accepted"
<1>1. mail[d] \in MailRow
  BY DEF TypeOK, MailRow
<1>2. Failed(mail[d]) \in MailRow
      /\ Failed(mail[d]).status \in {"pending_retry", "final_failed"}
  <2>1. MaxRetry \in Nat /\ mail[d].tries \in Nat /\ mail[d].tries <= MaxRetry
    BY <1>1, RetryAssumption DEF MailRow
  <2>2. CASE mail[d].tries + 1 >= MaxRetry
    BY <1>1, <2>1, <2>2 DEF Failed, MailRow, MailStatus
  <2>3. CASE ~(mail[d].tries + 1 >= MaxRetry)
    <3>1. mail[d].tries + 1 \in 0..MaxRetry
      BY <2>1, <2>3
    <3>2. Failed(mail[d]) = [status |-> "pending_retry", tries |-> mail[d].tries + 1,
                             due |-> FALSE]
      BY <2>3 DEF Failed
    <3> QED  BY <3>1, <3>2 DEF MailRow, MailStatus
  <2> QED  BY <2>2, <2>3
<1>3. CASE job[t][d] = "accepted"
  <2>1. Outcome(t, d) = [mail[d] EXCEPT !.status = "sent"]
    BY <1>3 DEF Outcome
  <2> QED  BY <1>1, <1>3, <2>1 DEF MailRow, MailStatus
<1>4. CASE job[t][d] # "accepted"
  BY <1>2, <1>4 DEF Outcome
<1> QED  BY <1>3, <1>4

-----------------------------------------------------------------------------
(* The steps. *)

\* A step of a draft that neither loses a dispatch nor an approval, leaves the
\* queue as it is and starts no call that it cannot stand for.
LEMMA DraftStep ==
    ASSUME IInv, NEW d \in Draft, NEW r \in DraftRow,
           draft' = [draft EXCEPT ![d] = r],
           draft[d].dispatched => r.dispatched,
           draft[d].status = "approved" => r.status = "approved",
           r.dispatched => r.status = "approved",
           call' \in [Call -> [fn: Unlocked \cup {"mail"}, of: Draft] \cup {NoCall}],
           \A k \in Call : call'[k] \in {call[k], NoCall},
           UNCHANGED <<mail, mailed, job, slips, crashed>>
    PROVE  IInv'
<1>1. TypeOK'
  BY DEF IInv, TypeOK, DraftRow
<1>2. MailedIsApproved'
  BY DEF IInv, TypeOK, MailedIsApproved, DraftRow
<1>3. SentWasAccepted' /\ JobsStand'
  BY DEF IInv, SentWasAccepted, JobsStand
<1>4. CallsStand'
  <2> SUFFICES ASSUME NEW k \in Call, call'[k] = call[k],
                      call[k] \in [fn: Unlocked \cup {"mail"}, of: Draft]
               PROVE  /\ call[k].fn = "send_after_review"
                            => draft'[call[k].of].status = "approved"
                      /\ call[k].fn = "mail" => draft'[call[k].of].dispatched
    BY DEF CallsStand, IInv, TypeOK, NoCall
  <2> QED  BY DEF IInv, TypeOK, CallsStand
<1> QED  BY <1>1, <1>2, <1>3, <1>4 DEF IInv

\* A decision is taken of a draft that is neither approved nor dispatched.
LEMMA DecideStep ==
    ASSUME IInv, NEW d \in Draft, NEW s \in {"approved", "rejected", "modified"},
           Decide(d, s)
    PROVE  IInv'
<1> DEFINE r == [draft[d] EXCEPT !.status = s]
<1>1. draft[d] \in DraftRow /\ draft[d].status # "approved" /\ ~draft[d].dispatched
  BY DEF IInv, TypeOK, MailedIsApproved, Decide, Undecided, DraftRow
<1>2. r \in DraftRow /\ ~r.dispatched
  BY <1>1 DEF DraftRow, Status
<1>3. draft' = [draft EXCEPT ![d] = r]
  BY DEF Decide, IInv, TypeOK
<1>4. UNCHANGED <<call, mail, mailed, job, slips, crashed>>
  BY DEF Decide, queue
<1> HIDE DEF r
<1> QED  BY <1>1, <1>2, <1>3, <1>4, DraftStep DEF IInv, TypeOK

\* Every operation keeps the invariant.
LEMMA NextIInv == IInv /\ [Next]_vars => IInv'
<1> SUFFICES ASSUME IInv, [Next]_vars PROVE IInv'
  OBVIOUS
<1>0. /\ TypeOK /\ MailedIsApproved /\ SentWasAccepted /\ CallsStand /\ JobsStand
      /\ \A d \in Draft : draft[d] \in DraftRow
      /\ \A d \in Draft : mail[d] \in MailRow
  BY DEF IInv, TypeOK, DraftRow, MailRow
<1>1. ASSUME NEW d \in Draft, NEW reviewer \in Reviewer, Generate(d, reviewer)
      PROVE  IInv'
  <2> DEFINE r == [draft[d] EXCEPT !.status = "unapproved", !.reviewer = reviewer]
  <2>1. draft[d].status # "approved" /\ ~draft[d].dispatched
    BY <1>0, <1>1 DEF Generate, MailedIsApproved
  <2>2. r \in DraftRow /\ ~r.dispatched
    BY <1>0, <2>1 DEF DraftRow, Status
  <2>3. draft' = [draft EXCEPT ![d] = r]
    BY <1>0, <1>1 DEF Generate, TypeOK
  <2>4. UNCHANGED <<call, mail, mailed, job, slips, crashed>>
    BY <1>1 DEF Generate, queue
  <2> HIDE DEF r
  <2> QED  BY <1>0, <2>1, <2>2, <2>3, <2>4, DraftStep DEF TypeOK
<1>2. ASSUME NEW d \in Draft, Approve(d) \/ Reject(d) \/ Modify(d) PROVE IInv'
  BY <1>2, DecideStep DEF Approve, Reject, Modify
<1>3. ASSUME NEW k \in Call, NEW d \in Draft, Dispatch(k, d) PROVE IInv'
  <2>1. PICK row \in Queued : mail' = [mail EXCEPT ![d] = row]
    BY <1>3 DEF Dispatch
  <2>2. row \in MailRow /\ row.status \notin {"none", "sent"}
    <3>1. 0 \in 0..MaxRetry
      BY RetryAssumption
    <3>2. [status |-> "suppressed_by_preference", tries |-> 0, due |-> FALSE] \in MailRow
      BY <3>1 DEF MailRow, MailStatus
    <3>3. [status |-> "pending_retry", tries |-> 0, due |-> TRUE] \in MailRow
      BY <3>1 DEF MailRow, MailStatus
    <3>4. CASE row = [status |-> "suppressed_by_preference", tries |-> 0, due |-> FALSE]
      BY <3>2, <3>4
    <3>5. CASE row = [status |-> "pending_retry", tries |-> 0, due |-> TRUE]
      BY <3>3, <3>5
    <3> QED  BY <2>1, <3>4, <3>5 DEF Queued
  <2>3. /\ draft' = [draft EXCEPT ![d].dispatched = TRUE]
        /\ call' = [call EXCEPT ![k] = [fn |-> "mail", of |-> d]]
        /\ draft[d].status = "approved"
        /\ UNCHANGED <<mailed, job, slips, crashed>>
    BY <1>3 DEF Dispatch
  <2>4. TypeOK'
    BY <1>0, <2>1, <2>2, <2>3 DEF TypeOK, MailRow, DraftRow
  <2>5. MailedIsApproved'
    BY <1>0, <2>1, <2>2, <2>3 DEF MailedIsApproved, TypeOK, DraftRow
  <2>6. SentWasAccepted' /\ JobsStand'
    BY <1>0, <2>1, <2>2, <2>3 DEF SentWasAccepted, JobsStand, TypeOK
  <2>7. CallsStand'
    <3>1. ASSUME NEW j \in Call, call'[j].fn \in {"send_after_review", "mail"}
          PROVE  /\ call'[j].fn = "send_after_review"
                       => draft'[call'[j].of].status = "approved"
                 /\ call'[j].fn = "mail" => draft'[call'[j].of].dispatched
      <4>1. CASE j = k
        BY <1>0, <2>3, <4>1 DEF TypeOK, DraftRow
      <4>2. CASE j # k
        <5>1. call'[j] = call[j] /\ call[j] \in [fn: Unlocked \cup {"mail"}, of: Draft]
          BY <1>0, <2>3, <3>1, <4>2 DEF TypeOK, NoCall
        <5> QED  BY <1>0, <2>3, <5>1 DEF CallsStand, TypeOK, DraftRow
      <4> QED  BY <4>1, <4>2
    <3> QED  BY <3>1 DEF CallsStand
  <2> QED  BY <2>4, <2>5, <2>6, <2>7 DEF IInv
<1>4. ASSUME NEW k \in Call, SendFirst(k) PROVE IInv'
  <2>1. call[k].of \in Draft /\ draft[call[k].of].dispatched
    BY <1>0, <1>4 DEF SendFirst, TypeOK, NoCall, CallsStand
  <2>2. /\ mailed' \in {mailed, [mailed EXCEPT ![call[k].of] = TRUE]}
        /\ call' = [call EXCEPT ![k] = NoCall]
        /\ UNCHANGED <<draft, mail, job, slips, crashed>>
    BY <1>4 DEF SendFirst
  <2>3. TypeOK'
    BY <1>0, <2>1, <2>2 DEF TypeOK
  <2>4. MailedIsApproved' /\ SentWasAccepted' /\ JobsStand'
    BY <1>0, <2>1, <2>2 DEF TypeOK, MailedIsApproved, SentWasAccepted, JobsStand
  <2>5. CallsStand'
    BY <1>0, <2>2 DEF CallsStand, NoCall, TypeOK
  <2> QED  BY <2>3, <2>4, <2>5 DEF IInv
<1>5. ASSUME NEW k \in Call, NEW fn \in Unlocked, NEW d \in Draft, Read(k, fn, d)
      PROVE  IInv'
  <2>1. fn = "send_after_review" => draft[d].status = "approved"
    BY <1>5 DEF Read, Admits, Unlocked
  <2>2. /\ call' = [call EXCEPT ![k] = [fn |-> fn, of |-> d]]
        /\ UNCHANGED <<draft, mail, mailed, job, slips, crashed>>
        /\ fn # "mail"
    BY <1>5 DEF Read, queue, Unlocked
  <2>3. TypeOK'
    BY <1>0, <2>2 DEF TypeOK
  <2>4. MailedIsApproved' /\ SentWasAccepted' /\ JobsStand'
    BY <1>0, <2>2 DEF MailedIsApproved, SentWasAccepted, JobsStand
  <2>5. CallsStand'
    BY <1>0, <2>1, <2>2 DEF CallsStand, TypeOK
  <2> QED  BY <2>3, <2>4, <2>5 DEF IInv
<1>6. ASSUME NEW k \in Call, Write(k) PROVE IInv'
  <2> DEFINE d == call[k].of
             r == Written(call[k].fn, draft[d])
  <2>1. d \in Draft /\ call[k].fn \in Unlocked
    BY <1>0, <1>6 DEF Write, TypeOK, NoCall, Unlocked
  <2>2. /\ draft[d] \in DraftRow
        /\ draft[d].dispatched => draft[d].status = "approved"
        /\ call[k].fn = "send_after_review" => draft[d].status = "approved"
    BY <1>0, <2>1 DEF MailedIsApproved, CallsStand
  <2>3. /\ r \in DraftRow
        /\ draft[d].dispatched => r.dispatched
        /\ draft[d].status = "approved" => r.status = "approved"
        /\ r.dispatched => r.status = "approved"
    BY <2>1, <2>2, WrittenStands
  <2>4. /\ draft' = [draft EXCEPT ![d] = r]
        /\ call' = [call EXCEPT ![k] = NoCall]
        /\ UNCHANGED <<mail, mailed, job, slips, crashed>>
    BY <1>0, <1>6, <2>1 DEF Write, queue, TypeOK
  <2>5. /\ call' \in [Call -> [fn: Unlocked \cup {"mail"}, of: Draft] \cup {NoCall}]
        /\ \A j \in Call : call'[j] \in {call[j], NoCall}
    BY <1>0, <2>4 DEF TypeOK
  <2> HIDE DEF d, r
  <2> QED  BY <2>1, <2>3, <2>4, <2>5, DraftStep
<1>7. ASSUME NEW d \in Draft, BecomeDue(d) PROVE IInv'
  <2>1. /\ mail' = [mail EXCEPT ![d].due = TRUE]
        /\ UNCHANGED <<draft, call, mailed, job, slips, crashed>>
    BY <1>7 DEF BecomeDue, drafts
  <2>2. \A e \in Draft : mail'[e] \in MailRow /\ mail'[e].status = mail[e].status
    BY <1>0, <2>1 DEF TypeOK, MailRow
  <2>3. TypeOK'
    BY <1>0, <2>1, <2>2 DEF TypeOK, MailRow
  <2> QED  BY <1>0, <2>1, <2>2, <2>3
  DEF IInv, MailedIsApproved, SentWasAccepted, CallsStand, JobsStand
<1>8. ASSUME NEW t \in Tick, Fetch(t) PROVE IInv'
  <2>1. /\ job' = [job EXCEPT ![t] =
                     [d \in Draft |-> IF d \in Due THEN "fetched" ELSE "none"]]
        /\ UNCHANGED <<draft, call, mail, mailed, slips, crashed>>
    BY <1>8 DEF Fetch, drafts
  <2>2. TypeOK'
    BY <1>0, <2>1 DEF TypeOK
  <2>3. JobsStand'
    BY <1>0, <2>1 DEF JobsStand, Due, TypeOK
  <2> QED  BY <1>0, <2>1, <2>2, <2>3
  DEF IInv, MailedIsApproved, SentWasAccepted, CallsStand
<1>9. ASSUME NEW t \in Tick, NEW d \in Draft, Send(t, d) PROVE IInv'
  <2>1. /\ UNCHANGED <<draft, call, mail, slips, crashed>>
        /\ job[t][d] = "fetched"
        /\ \/ mailed' = [mailed EXCEPT ![d] = TRUE]
              /\ job' = [job EXCEPT ![t][d] = "accepted"]
           \/ mailed' = mailed /\ job' = [job EXCEPT ![t][d] = "refused"]
    BY <1>9 DEF Send, drafts
  <2>2. draft[d].dispatched
    BY <1>0, <2>1 DEF JobsStand, MailedIsApproved
  <2>3. job' \in [Tick -> [Draft -> {"none", "fetched", "accepted", "refused"}]]
    <3>1. ASSUME NEW state \in {"accepted", "refused"}, job' = [job EXCEPT ![t][d] = state]
          PROVE  job' \in [Tick -> [Draft -> {"none", "fetched", "accepted", "refused"}]]
      BY <1>0, <3>1 DEF TypeOK
    <3> QED  BY <2>1, <3>1
  <2>4. mailed' \in [Draft -> BOOLEAN]
    BY <1>0, <2>1 DEF TypeOK
  <2>5. TypeOK'
    BY <1>0, <2>1, <2>3, <2>4 DEF TypeOK
  <2>6. MailedIsApproved'
    BY <1>0, <2>1, <2>2 DEF MailedIsApproved, TypeOK
  <2>7. SentWasAccepted'
    BY <1>0, <2>1 DEF SentWasAccepted, TypeOK
  <2>8. JobsStand'
    <3>1. CASE mailed' = mailed /\ job' = [job EXCEPT ![t][d] = "refused"]
      BY <1>0, <2>1, <3>1 DEF JobsStand, TypeOK
    <3>2. CASE /\ mailed' = [mailed EXCEPT ![d] = TRUE]
               /\ job' = [job EXCEPT ![t][d] = "accepted"]
      BY <1>0, <2>1, <3>2 DEF JobsStand, TypeOK
    <3> QED  BY <2>1, <3>1, <3>2
  <2>9. CallsStand'
    BY <1>0, <2>1 DEF CallsStand
  <2> QED  BY <2>5, <2>6, <2>7, <2>8, <2>9 DEF IInv
<1>10. ASSUME NEW t \in Tick, NEW d \in Draft, Record(t, d) PROVE IInv'
  <2>1. /\ mail' = [mail EXCEPT ![d] = Outcome(t, d)]
        /\ job' = [job EXCEPT ![t][d] = "none"]
        /\ UNCHANGED <<draft, call, mailed, slips, crashed>>
        /\ job[t][d] # "none"
    BY <1>10 DEF Record, Finish, drafts
  <2>2. /\ Outcome(t, d) \in MailRow
        /\ Outcome(t, d).status # "none"
        /\ Outcome(t, d).status = "sent" => mailed[d]
    BY <1>0, OutcomeType DEF JobsStand
  <2>3. TypeOK'
    BY <1>0, <2>1, <2>2 DEF TypeOK, MailRow
  <2>4. MailedIsApproved' /\ SentWasAccepted' /\ JobsStand'
    BY <1>0, <2>1, <2>2 DEF MailedIsApproved, SentWasAccepted, JobsStand, TypeOK
  <2>5. CallsStand'
    BY <1>0, <2>1 DEF CallsStand
  <2> QED  BY <2>3, <2>4, <2>5 DEF IInv
<1>11. ASSUME NEW t \in Tick, NEW d \in Draft, Slip(t, d) PROVE IInv'
  <2>1. /\ job' = [job EXCEPT ![t][d] = "none"]
        /\ slips < Slips /\ slips' = slips + 1
        /\ UNCHANGED <<draft, call, mail, mailed, crashed>>
    BY <1>11 DEF Slip, Finish, drafts
  <2>2. slips' \in 0..Slips
    BY <1>0, <2>1, RetryAssumption DEF TypeOK
  <2>3. TypeOK'
    BY <1>0, <2>1, <2>2 DEF TypeOK
  <2>4. JobsStand'
    BY <1>0, <2>1 DEF TypeOK, JobsStand
  <2> QED  BY <1>0, <2>1, <2>3, <2>4
  DEF IInv, MailedIsApproved, SentWasAccepted, CallsStand
<1>12. CASE Crash
  BY <1>0, <1>12
  DEF Crash, IInv, TypeOK, MailedIsApproved, SentWasAccepted, CallsStand, JobsStand, NoCall
<1>13. CASE UNCHANGED vars
  BY <1>0, <1>13
  DEF vars, IInv, TypeOK, MailedIsApproved, SentWasAccepted, CallsStand, JobsStand, Due
<1> QED
  BY <1>1, <1>2, <1>3, <1>4, <1>5, <1>6, <1>7, <1>8, <1>9, <1>10, <1>11, <1>12, <1>13
  DEF Next, Handle

-----------------------------------------------------------------------------
(* Theorems. *)

\* Drafts, calls, mails and ticks keep their types.
THEOREM TypeCorrect == Spec => []TypeOK
<1>1. Init => IInv
  BY InitIInv
<1>2. IInv /\ [Next]_vars => IInv'
  BY NextIInv
<1>3. IInv => TypeOK
  BY DEF IInv
<1> QED  BY <1>1, <1>2, <1>3, PTL DEF Spec

\* What leaves the house was approved, and stays approved.
THEOREM MailIsApproved == Spec => []MailedIsApproved
<1>1. Init => IInv
  BY InitIInv
<1>2. IInv /\ [Next]_vars => IInv'
  BY NextIInv
<1>3. IInv => MailedIsApproved
  BY DEF IInv
<1> QED  BY <1>1, <1>2, <1>3, PTL DEF Spec

\* A mail that the queue calls sent was taken by the mail server.
THEOREM SentMeansAccepted == Spec => []SentWasAccepted
<1>1. Init => IInv
  BY InitIInv
<1>2. IInv /\ [Next]_vars => IInv'
  BY NextIInv
<1>3. IInv => SentWasAccepted
  BY DEF IInv
<1> QED  BY <1>1, <1>2, <1>3, PTL DEF Spec
=============================================================================
