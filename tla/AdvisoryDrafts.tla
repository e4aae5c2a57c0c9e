--------------------------- MODULE AdvisoryDrafts ---------------------------
(***************************************************************************)
(* Advisory drafts from generation to delivery: review by legal counsel or *)
(* by an executive, dispatch, and the queue of outgoing mail with its      *)
(* retry worker.                                                           *)
(*                                                                         *)
(* The older functions lock the draft and are one step.  Those of the      *)
(* executive path read the draft without a lock, check what they read and  *)
(* then update the row by its id: a call of them is two steps, and what it *)
(* read may be out of date when it writes.  The dispatch of a draft queues *)
(* its mail in the transaction and then sends it once itself; the retry    *)
(* worker sends what is due in the queue, once a minute, in ticks that may *)
(* overlap.  One recipient stands for all of a draft's.                    *)
(***************************************************************************)
EXTENDS Naturals

CONSTANTS
    Draft,       \* advisory_draft rows
    Call,        \* requests that may be at work at the same time
    Tick,        \* ticks of the retry worker that may overlap
    MaxRetry,    \* recorded failures after which a mail is given up
    Slips        \* bounds the outcomes that are never recorded

ASSUME RetryAssumption == MaxRetry \in Nat \ {0} /\ Slips \in Nat

NoDraft == "no draft"
ASSUME DraftAssumption == NoDraft \notin Draft

VARIABLES
    draft,       \* approval_status, template_context.currentReviewer, dispatched_at
    call,        \* what a request is doing and for which draft
    mail,        \* notification_dispatch_log.status, retry_count and next_retry_at
    mailed,      \* the mail server has accepted the mail of the draft
    job,         \* what a tick has done for a mail
    slips,       \* outcomes that were not recorded so far
    crashed      \* the server was restarted

vars == <<draft, call, mail, mailed, job, slips, crashed>>
drafts == <<draft, call>>
queue  == <<mail, mailed, job, slips>>

Status   == {"none", "unapproved", "modified", "approved", "rejected"}
Reviewer == {"nobody", "executive", "legal_counsel"}
MailStatus == {"none", "suppressed_by_preference", "pending_retry", "sent", "final_failed"}

\* The functions that read without a lock, and the mail that follows a dispatch.
Unlocked == {"send_directly", "route_for_review", "exec_approve", "exec_modify",
             "send_after_review"}
NoCall == [fn |-> "none", of |-> NoDraft]

TypeOK ==
    /\ draft \in [Draft -> [status: Status, reviewer: Reviewer, dispatched: BOOLEAN]]
    /\ call \in [Call -> [fn: Unlocked \cup {"mail"}, of: Draft] \cup {NoCall}]
    /\ mail \in [Draft -> [status: MailStatus, tries: 0..MaxRetry, due: BOOLEAN]]
    /\ mailed \in [Draft -> BOOLEAN]
    /\ job \in [Tick -> [Draft -> {"none", "fetched", "accepted", "refused"}]]
    /\ slips \in 0..Slips
    /\ crashed \in BOOLEAN

Init ==
    /\ draft = [d \in Draft |->
                  [status |-> "none", reviewer |-> "nobody", dispatched |-> FALSE]]
    /\ call = [k \in Call |-> NoCall]
    /\ mail = [d \in Draft |-> [status |-> "none", tries |-> 0, due |-> FALSE]]
    /\ mailed = [d \in Draft |-> FALSE]
    /\ job = [t \in Tick |-> [d \in Draft |-> "none"]]
    /\ slips = 0
    /\ crashed = FALSE

-----------------------------------------------------------------------------
(* Generation, and the functions that lock the draft. *)

\* generateAdvisoryDraft writes the text of the model, or the template if the
\* model fails; a draft made from a risk case may name its reviewer at once.
Generate(d, reviewer) ==
    /\ draft[d].status = "none"
    /\ draft' = [draft EXCEPT ![d].status = "unapproved", ![d].reviewer = reviewer]
    /\ UNCHANGED <<call, queue, crashed>>

Undecided(d) == draft[d].status \in {"unapproved", "modified"}

\* fn_advisory_draft_approve, _reject and _modify.
Decide(d, status) ==
    /\ Undecided(d)
    /\ draft' = [draft EXCEPT ![d].status = status]
    /\ UNCHANGED <<call, queue, crashed>>

Approve(d) == Decide(d, "approved")
Reject(d)  == Decide(d, "rejected")
Modify(d)  == Decide(d, "modified")

\* fn_notification_send: a recipient who has switched the kind off gets a row
\* and no retry; any other mail is due at once.
Queued ==
    {[status |-> "suppressed_by_preference", tries |-> 0, due |-> FALSE],
     [status |-> "pending_retry", tries |-> 0, due |-> TRUE]}

\* fn_advisory_dispatch; the request then goes on to send the mail.
Dispatch(k, d) ==
    /\ call[k] = NoCall
    /\ draft[d].status = "approved" /\ ~draft[d].dispatched
    /\ draft' = [draft EXCEPT ![d].dispatched = TRUE]
    /\ \E row \in Queued : mail' = [mail EXCEPT ![d] = row]
    /\ call' = [call EXCEPT ![k] = [fn |-> "mail", of |-> d]]
    /\ UNCHANGED <<mailed, job, slips, crashed>>

\* dispatchAdvisoryDraft hands the mail to the server, and leaves the row of
\* the queue as it is whether the server takes it or not.
SendFirst(k) ==
    /\ call[k].fn = "mail"
    /\ mailed' \in {mailed, [mailed EXCEPT ![call[k].of] = TRUE]}
    /\ call' = [call EXCEPT ![k] = NoCall]
    /\ UNCHANGED <<draft, mail, job, slips, crashed>>

-----------------------------------------------------------------------------
(* The functions that do not lock the draft. *)

\* What each of them asks of the draft it reads.
Admits(fn, d) ==
    LET r == draft[d] IN
    CASE fn = "send_directly"     -> r.status = "unapproved" /\ r.reviewer # "executive"
      [] fn = "route_for_review"  -> r.status = "unapproved"
      [] fn = "exec_approve"      -> r.status = "unapproved" /\ r.reviewer = "executive"
      [] fn = "exec_modify"       -> r.status # "none" /\ r.reviewer = "executive"
      [] fn = "send_after_review" ->
            r.status = "approved" /\ ~r.dispatched /\ r.reviewer = "legal_counsel"

Read(k, fn, d) ==
    /\ call[k] = NoCall
    /\ Admits(fn, d)
    /\ call' = [call EXCEPT ![k] = [fn |-> fn, of |-> d]]
    /\ UNCHANGED <<draft, queue, crashed>>

\* Mutant: a direct sending stamps the dispatch and leaves the status.
WrittenUnapproved(fn, r) ==
    CASE fn = "send_directly" ->
            [r EXCEPT !.reviewer = "legal_counsel", !.dispatched = TRUE]
      [] fn = "route_for_review" -> [r EXCEPT !.reviewer = "executive"]
      [] fn \in {"exec_approve", "exec_modify"} ->
            [r EXCEPT !.status = "approved", !.reviewer = "legal_counsel"]
      [] fn = "send_after_review" -> [r EXCEPT !.dispatched = TRUE]

\* What each of them writes over the row as it is by then.  Both sendings log
\* the mail as captured: nothing is queued.
Written(fn, r) ==
    CASE fn = "send_directly" ->
            [status |-> "approved", reviewer |-> "legal_counsel", dispatched |-> TRUE]
      [] fn = "route_for_review" -> [r EXCEPT !.reviewer = "executive"]
      [] fn \in {"exec_approve", "exec_modify"} ->
            [r EXCEPT !.status = "approved", !.reviewer = "legal_counsel"]
      [] fn = "send_after_review" -> [r EXCEPT !.dispatched = TRUE]

Write(k) ==
    /\ call[k].fn \in Unlocked
    /\ draft' = [draft EXCEPT ![call[k].of] = Written(call[k].fn, @)]
    /\ call' = [call EXCEPT ![k] = NoCall]
    /\ UNCHANGED <<queue, crashed>>

-----------------------------------------------------------------------------
(* The retry worker. *)

\* next_retry_at passes.
BecomeDue(d) ==
    /\ mail[d].status = "pending_retry" /\ ~mail[d].due
    /\ mail' = [mail EXCEPT ![d].due = TRUE]
    /\ UNCHANGED <<drafts, mailed, job, slips, crashed>>

\* Mutant: only rows that were never tried are read.
DueFresh == {d \in Draft : mail[d].status = "pending_retry" /\ mail[d].tries = 0}

Due == {d \in Draft : mail[d].status = "pending_retry" /\ mail[d].due}

\* processBatch reads what is due.  The rows are locked while they are read
\* and not marked, so that another tick may read them too.
Fetch(t) ==
    /\ \A d \in Draft : job[t][d] = "none"
    /\ Due # {}
    /\ job' = [job EXCEPT ![t] = [d \in Draft |-> IF d \in Due THEN "fetched" ELSE "none"]]
    /\ UNCHANGED <<drafts, mail, mailed, slips, crashed>>

\* retryNotification: sendMail succeeds or throws.
Send(t, d) ==
    /\ job[t][d] = "fetched"
    /\ \/ /\ mailed' = [mailed EXCEPT ![d] = TRUE]
          /\ job' = [job EXCEPT ![t][d] = "accepted"]
       \/ /\ job' = [job EXCEPT ![t][d] = "refused"]
          /\ UNCHANGED mailed
    /\ UNCHANGED <<drafts, mail, slips, crashed>>

\* A failure, with the count of the row as it is now (counted to MaxRetry here,
\* in the code beyond).
Failed(m) ==
    IF m.tries + 1 >= MaxRetry
    THEN [status |-> "final_failed", tries |-> MaxRetry, due |-> m.due]
    ELSE [status |-> "pending_retry", tries |-> m.tries + 1, due |-> FALSE]

\* Mutant: success is recorded whatever the mail server said.
OutcomeSent(t, d) == [mail[d] EXCEPT !.status = "sent"]

\* fn_notification_dispatch_update_retry_outcome, whatever became of the row
\* since it was read.
Outcome(t, d) ==
    IF job[t][d] = "accepted" THEN [mail[d] EXCEPT !.status = "sent"]
                              ELSE Failed(mail[d])

Finish(t, d) == job' = [job EXCEPT ![t][d] = "none"]

Record(t, d) ==
    /\ job[t][d] \in {"accepted", "refused"}
    /\ mail' = [mail EXCEPT ![d] = Outcome(t, d)]
    /\ Finish(t, d)
    /\ UNCHANGED <<drafts, mailed, slips, crashed>>

\* The database refuses the record; the worker logs it and goes on.
Slip(t, d) ==
    /\ job[t][d] \in {"accepted", "refused"}
    /\ slips < Slips
    /\ slips' = slips + 1
    /\ Finish(t, d)
    /\ UNCHANGED <<drafts, mail, mailed, crashed>>

\* The server stops; at most once in a behaviour.  Transactions under way are
\* rolled back, the mail that was not sent yet is not sent by the request.
Crash ==
    /\ ~crashed /\ crashed' = TRUE
    /\ call' = [k \in Call |-> NoCall]
    /\ job' = [t \in Tick |-> [d \in Draft |-> "none"]]
    /\ UNCHANGED <<draft, mail, mailed, slips>>

-----------------------------------------------------------------------------
Handle(t) == Fetch(t) \/ \E d \in Draft : Send(t, d) \/ Record(t, d)

Next ==
    \/ \E d \in Draft :
         \/ \E reviewer \in Reviewer : Generate(d, reviewer)
         \/ Approve(d) \/ Reject(d) \/ Modify(d) \/ BecomeDue(d)
         \/ \E k \in Call : Dispatch(k, d) \/ \E fn \in Unlocked : Read(k, fn, d)
         \/ \E t \in Tick : Slip(t, d)
    \/ \E k \in Call : SendFirst(k) \/ Write(k)
    \/ \E t \in Tick : Handle(t)
    \/ Crash

Spec == Init /\ [][Next]_vars

\* Time passes, and the worker runs every minute and ends its ticks.
FairSpec ==
    /\ Spec
    /\ \A d \in Draft : WF_vars(BecomeDue(d))
    /\ \A t \in Tick : WF_vars(Handle(t))

-----------------------------------------------------------------------------
(* Properties. *)

\* Mail leaves only for drafts that are dispatched and approved, and none of
\* the calls that overlap takes the approval of a dispatched draft back: the
\* refusals of fn_advisory_draft_reject and _modify against the writes of the
\* calls that read before them.
MailedIsApproved ==
    \A d \in Draft :
        /\ mailed[d] => draft[d].dispatched
        /\ mail[d].status # "none" => draft[d].dispatched
        /\ draft[d].dispatched => draft[d].status = "approved"

\* A mail that the queue calls sent was taken by the mail server, over every
\* overlap of ticks and every lost record.
SentWasAccepted ==
    \A d \in Draft : mail[d].status = "sent" => mailed[d]

\* Whatever is queued is sent or given up in the end: a crash between the
\* dispatch and the first sending, lost records and overlapping ticks included.
MailSettles ==
    \A d \in Draft :
        mail[d].status = "pending_retry" ~> mail[d].status \in {"sent", "final_failed"}
=============================================================================
