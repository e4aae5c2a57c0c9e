----------------------------- MODULE ReportRuns -----------------------------
(***************************************************************************)
(* Report runs: the request that inserts a run and renders it at once, and *)
(* the worker that polls for pending runs every ten seconds.               *)
(*                                                                         *)
(* The request renders without claiming the row it has inserted, so that a *)
(* tick of the worker may claim it meanwhile and render it too: whichever  *)
(* records its outcome first decides the run.  Each execution uploads to a *)
(* path of its own.  A run that is claimed and then left stays generating: *)
(* nothing claims it again.                                                *)
(*                                                                         *)
(* The scheduler never inserts a run (its arguments are in another order   *)
(* than the function's), so that scheduled runs and the notification of    *)
(* their recipients are not part of the model.  The limit of two runs at a *)
(* time within a tick is left out: it only removes interleavings.          *)
(***************************************************************************)
EXTENDS Naturals, FiniteSets

CONSTANTS
    Run,       \* report_run rows, numbered in the order of created_at
    Tick,      \* ticks of the worker that may overlap
    Batch,     \* runs that a tick claims at most
    Inline,    \* the request that has triggered a run
    Hand,      \* the endpoint that completes a run from outside
    Nobody,    \* no execution has completed the run
    Slips      \* bounds the outcomes that the database fails to record

ASSUME RunAssumption == Run \subseteq Nat /\ Batch \in Nat \ {0} /\ Slips \in Nat

Executor == Tick \cup {Inline}

ASSUME NameAssumption ==
    Inline \notin Tick /\ Hand # Nobody /\ {Hand, Nobody} \cap Executor = {}

VARIABLES
    run,       \* report_run.status, and whose execution output_uri names
    job,       \* how far an executor is with a run
    file,      \* executions whose output is in the bucket
    answer,    \* what the request was told
    left,      \* runs whose claim was given up
    enabled,   \* the tenant's reports module
    slips,     \* outcomes that were not recorded so far
    crashed    \* the server was restarted

vars == <<run, job, file, answer, left, enabled, slips, crashed>>

Terminal == {"complete", "failed"}
Stage == {"none", "claimed", "render", "upload", "record", "fail"}

TypeOK ==
    /\ run \in [Run -> [status: {"none", "pending", "generating"} \cup Terminal,
                        by: Executor \cup {Hand, Nobody}]]
    /\ job \in [Executor -> [Run -> Stage]]
    /\ file \in [Run -> SUBSET Executor]
    /\ answer \in [Run -> {"none"} \cup Terminal]
    /\ left \subseteq Run
    /\ enabled \in BOOLEAN
    /\ slips \in 0..Slips
    /\ crashed \in BOOLEAN

Idle == [r \in Run |-> "none"]

Init ==
    /\ run = [r \in Run |-> [status |-> "none", by |-> Nobody]]
    /\ job = [e \in Executor |-> Idle]
    /\ file = [r \in Run |-> {}]
    /\ answer = [r \in Run |-> "none"]
    /\ left = {}
    /\ enabled = TRUE
    /\ slips = 0
    /\ crashed = FALSE

-----------------------------------------------------------------------------
(* Triggering and claiming. *)

\* triggerRun: the row is pending, and the request goes on to render it.
Trigger(r) ==
    /\ run[r].status = "none"
    /\ \A s \in Run : s < r => run[s].status # "none"
    /\ run' = [run EXCEPT ![r].status = "pending"]
    /\ job' = [job EXCEPT ![Inline][r] = "render"]
    /\ UNCHANGED <<file, answer, left, enabled, slips, crashed>>

Pending == {r \in Run : run[r].status = "pending"}

\* fn_report_run_pending_get: the oldest pending runs ...
Oldest == {r \in Pending : Cardinality({s \in Pending : s < r}) < Batch}

\* Mutant: the runs are read and not marked.
NotMarked(R) == run

\* ... which it marks in the same statement.
Marked(R) ==
    [r \in Run |-> IF r \in R THEN [run[r] EXCEPT !.status = "generating"] ELSE run[r]]

\* processBatch of the worker.
Poll(t) ==
    /\ job[t] = Idle
    /\ Pending # {}
    /\ run' = Marked(Oldest)
    /\ job' = [job EXCEPT ![t] = [r \in Run |-> IF r \in Oldest THEN "claimed" ELSE "none"]]
    /\ UNCHANGED <<file, answer, left, enabled, slips, crashed>>

\* pendingRuns claims runs for a caller outside, who may never complete them.
PollByHand ==
    /\ Pending # {}
    /\ run' = Marked(Oldest)
    /\ left' = left \cup Oldest
    /\ UNCHANGED <<job, file, answer, enabled, slips, crashed>>

\* processRun asks for the module; a check that fails counts as enabled.
Guard(t, r) ==
    /\ job[t][r] = "claimed"
    /\ \/ /\ job' = [job EXCEPT ![t][r] = "render"]
          /\ UNCHANGED left
       \/ /\ ~enabled
          /\ job' = [job EXCEPT ![t][r] = "none"]
          /\ left' = left \cup {r}
    /\ UNCHANGED <<run, file, answer, enabled, slips, crashed>>

-----------------------------------------------------------------------------
(* executeReportRunRow. *)

\* Mutant: a failed rendering returns without recording it.
RenderSilent(e, r) ==
    /\ job[e][r] = "render"
    /\ \E stage \in {"upload", "none"} : job' = [job EXCEPT ![e][r] = stage]
    /\ UNCHANGED <<run, file, answer, left, enabled, slips, crashed>>

\* The template, the data and the rendering, any of which may fail.
Render(e, r) ==
    /\ job[e][r] = "render"
    /\ \E stage \in {"upload", "fail"} : job' = [job EXCEPT ![e][r] = stage]
    /\ UNCHANGED <<run, file, answer, left, enabled, slips, crashed>>

\* Mutant: a failed upload is not told from a good one.
UploadUnchecked(e, r) ==
    /\ job[e][r] = "upload"
    /\ job' = [job EXCEPT ![e][r] = "record"]
    /\ file' \in {file, [file EXCEPT ![r] = @ \cup {e}]}
    /\ UNCHANGED <<run, answer, left, enabled, slips, crashed>>

Upload(e, r) ==
    /\ job[e][r] = "upload"
    /\ \/ /\ job' = [job EXCEPT ![e][r] = "record"]
          /\ file' = [file EXCEPT ![r] = @ \cup {e}]
       \/ /\ job' = [job EXCEPT ![e][r] = "fail"]
          /\ UNCHANGED file
    /\ UNCHANGED <<run, answer, left, enabled, slips, crashed>>

\* Mutant: the function does not look at the status it replaces.
Anyhow(r) == run[r].status # "none"

\* fn_report_run_complete refuses a run that has ended, and takes a pending one.
Completable(r) == run[r].status \in {"pending", "generating"}

\* The executor is done with the run; the request answers.
Return(e, r, outcome) ==
    /\ job' = [job EXCEPT ![e][r] = "none"]
    /\ answer' = IF e = Inline THEN [answer EXCEPT ![r] = outcome] ELSE answer

\* The outcome is recorded.  A failure is answered as one whether it could be
\* recorded or not.
Complete(e, r) ==
    /\ job[e][r] = "record" /\ Completable(r)
    /\ run' = [run EXCEPT ![r] = [status |-> "complete", by |-> e]]
    /\ Return(e, r, "complete")
    /\ UNCHANGED <<file, left, enabled, slips, crashed>>

MarkFailed(e, r) ==
    /\ job[e][r] = "fail" /\ Completable(r)
    /\ run' = [run EXCEPT ![r].status = "failed"]
    /\ Return(e, r, "failed")
    /\ UNCHANGED <<file, left, enabled, slips, crashed>>

\* Another execution has recorded its outcome before.
TooLate(e, r) ==
    /\ job[e][r] \in {"record", "fail"} /\ ~Completable(r)
    /\ Return(e, r, "failed")
    /\ UNCHANGED <<run, file, left, enabled, slips, crashed>>

\* The database fails.
Slip(e, r) ==
    /\ job[e][r] \in {"record", "fail"}
    /\ slips < Slips
    /\ slips' = slips + 1
    /\ Return(e, r, "failed")
    /\ left' = IF e = Inline THEN left ELSE left \cup {r}
    /\ UNCHANGED <<run, file, enabled, crashed>>

-----------------------------------------------------------------------------
(* The rest. *)

\* completeRun: a caller of the endpoint names the outcome and the file.
CompleteByHand(r, status) ==
    /\ Completable(r)
    /\ run' = [run EXCEPT ![r] =
                 [status |-> status, by |-> IF status = "complete" THEN Hand ELSE @.by]]
    /\ UNCHANGED <<job, file, answer, left, enabled, slips, crashed>>

\* The tenant's administrator turns the module off, or on again.
Toggle ==
    /\ enabled' = ~enabled
    /\ UNCHANGED <<run, job, file, answer, left, slips, crashed>>

\* The server stops; at most once in a behaviour.
Crash ==
    /\ ~crashed /\ crashed' = TRUE
    /\ job' = [e \in Executor |-> Idle]
    /\ left' = left \cup {r \in Run : \E t \in Tick : job[t][r] # "none"}
    /\ UNCHANGED <<run, file, answer, enabled, slips>>

Execute(e, r) ==
    Render(e, r) \/ Upload(e, r) \/ Complete(e, r) \/ MarkFailed(e, r) \/ TooLate(e, r)

Work(t) == Poll(t) \/ \E r \in Run : Guard(t, r) \/ Execute(t, r)

Next ==
    \/ \E r \in Run :
         \/ Trigger(r) \/ Execute(Inline, r)
         \/ \E e \in Executor : Slip(e, r)
         \/ \E status \in Terminal : CompleteByHand(r, status)
    \/ \E t \in Tick : Work(t)
    \/ PollByHand \/ Toggle \/ Crash

Spec == Init /\ [][Next]_vars

\* The worker is enabled and its ticks end.  Nothing is asked of the requests.
FairSpec == Spec /\ \A t \in Tick : WF_vars(Work(t))

-----------------------------------------------------------------------------
(* Properties. *)

\* What getRunById signs a URL for.
Offered(r) == run[r].status = "complete" /\ run[r].by # Hand

\* A run that an execution has completed has that execution's output in the
\* bucket, over every overlap of the request with the worker.
OutputExists == \A r \in Run : Offered(r) => run[r].by \in file[r]

\* A caller told of success finds the run complete with what this request
\* rendered, now and ever after; a caller told of a failure may find it
\* complete, and then somebody else has completed it.
AnswerHolds ==
    \A r \in Run :
        /\ answer[r] = "complete" => run[r] = [status |-> "complete", by |-> Inline]
        /\ answer[r] = "failed" => run[r].by # Inline

\* A run that is generating is in the hands of exactly one tick, unless its
\* claim was given up: by a module turned off, a claim from outside, a crash
\* or a lost record.
ClaimIsHeld ==
    \A r \in Run :
        /\ Cardinality({t \in Tick : job[t][r] # "none"}) <= 1
        /\ run[r].status = "generating" =>
              r \in left \/ \E t \in Tick : job[t][r] # "none"

\* A run ends, also when the request that has triggered it dies, unless its
\* claim was given up.
RunsEnd ==
    \A r \in Run :
        run[r].status = "pending" ~> run[r].status \in Terminal \/ r \in left
=============================================================================
