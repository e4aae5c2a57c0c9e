-------------------------- MODULE DocumentPipeline --------------------------
(***************************************************************************)
(* Contract versions on their way from a file to clauses: the ingestion    *)
(* worker, the queue of pages for human review, the clause extraction      *)
(* worker and the review of clauses.                                       *)
(*                                                                         *)
(* Both workers wake every thirty seconds whether or not the last sweep    *)
(* has ended, and what they read claims nothing: a sweep locks the rows it *)
(* reads only for the statement that reads them.  A row leaves the pending *)
(* state at the first call for it, and the answer of that call is ignored, *)
(* so that two sweeps may work on one version.  The region stands for all  *)
(* of a version's regions, and the low page for all of its low pages.      *)
(*                                                                         *)
(* The obligations that clauses give rise to are left out.                 *)
(***************************************************************************)
EXTENDS Naturals, FiniteSets

CONSTANTS
    Version,     \* contract_version rows, numbered by id
    Sweep,       \* sweeps of the ingestion worker that may overlap
    Tick,        \* ticks of the clause extraction worker that may overlap
    Window,      \* versions that a sweep reads at most
    Reach,       \* versions that a tick reads at most
    MaxAttempts, \* attempts after which a version is not read
    Muted,       \* versions of tenants without the module
    Faults       \* bounds failed database calls and crashes together

ASSUME PipelineAssumption ==
    /\ Version \subseteq Nat /\ Muted \subseteq Version
    /\ {Window, Reach, MaxAttempts} \subseteq Nat \ {0} /\ Faults \in Nat

VARIABLES
    ver,        \* ingestion_status, ingestion_attempt_count, extracted_text_uri
    sweep,      \* how far a sweep is with a version
    page,       \* ingestion_review_queue.review_status of the low page
    reading,    \* versions whose clauses a tick is extracting
    clause,     \* contract_clause_extracted.review_status of the region: open for
                \* auto and pending_review, decided for reviewed and rejected
    marker,     \* versions with the row of an extraction request
    left,       \* versions that were set extracting and given up
    enabled,    \* the module of the clause extraction worker
    faults      \* failed calls and crashes so far

ingestion == <<ver, sweep, page, left>>
clauses   == <<reading, clause, marker>>
vars == <<ingestion, clauses, enabled, faults>>

Stage == {"none", "fetched", "extract", "store", "store low", "review", "fail"}

TypeOK ==
    /\ ver \in [Version -> [status: {"none", "pending", "extracting", "complete", "failed"},
                            attempts: 0..MaxAttempts, text: BOOLEAN]]
    /\ sweep \in [Sweep -> [Version -> Stage]]
    /\ page \in [Version -> {"none", "pending", "resolved"}]
    /\ reading \in [Tick -> SUBSET Version]
    /\ clause \in [Version -> {"none", "open", "decided"}]
    /\ marker \subseteq Version /\ left \subseteq Version
    /\ enabled \in BOOLEAN /\ faults \in 0..Faults

Idle == [v \in Version |-> "none"]

Init ==
    /\ ver = [v \in Version |-> [status |-> "none", attempts |-> 0, text |-> FALSE]]
    /\ sweep = [s \in Sweep |-> Idle]
    /\ page = [v \in Version |-> "none"]
    /\ reading = [t \in Tick |-> {}]
    /\ clause = [v \in Version |-> "none"]
    /\ marker = {} /\ left = {} /\ enabled \in BOOLEAN /\ faults = 0

Step(s, v, stage) == sweep' = [sweep EXCEPT ![s][v] = stage]
Status(v, status) == ver' = [ver EXCEPT ![v].status = status]

\* The n smallest of a set of versions.
First(n, V) == {v \in V : Cardinality({w \in V : w < v}) < n}

-----------------------------------------------------------------------------
(* The ingestion worker. *)

\* A contract gets a version; the column's default is pending.
Create(v) ==
    /\ ver[v].status = "none"
    /\ Status(v, "pending")
    /\ UNCHANGED <<sweep, page, left, clauses, enabled, faults>>

\* Mutant: the attempts are compared the wrong way round.
DueLater == {v \in Version : ver[v].status = "pending" /\ ver[v].attempts >= MaxAttempts}

Due == {v \in Version : ver[v].status = "pending" /\ ver[v].attempts < MaxAttempts}

\* fetchPendingJobs.
Fetch(s) ==
    /\ sweep[s] = Idle
    /\ Due # {}
    /\ sweep' = [sweep EXCEPT ![s] =
                   [v \in Version |-> IF v \in First(Window, Due) THEN "fetched" ELSE "none"]]
    /\ UNCHANGED <<ver, page, left, clauses, enabled, faults>>

Fault == faults < Faults /\ faults' = faults + 1

\* processJob leaves the version of a tenant without the module as it is.
Skip(s, v) ==
    /\ sweep[s][v] = "fetched" /\ v \in Muted
    /\ Step(s, v, "none")
    /\ UNCHANGED <<ver, page, left, clauses, enabled, faults>>

\* Mutant: the text of an earlier attempt is forgotten.
IngestedClears(v) ==
    IF ver[v].status \in {"extracting", "complete"} THEN ver[v]
    ELSE [status |-> "extracting", text |-> FALSE,
          attempts |-> IF ver[v].attempts = MaxAttempts THEN MaxAttempts
                       ELSE ver[v].attempts + 1]

\* fn_contract_version_ingest does nothing for a version that is extracting
\* or complete.
Ingested(v) ==
    IF ver[v].status \in {"extracting", "complete"} THEN ver[v]
    ELSE [ver[v] EXCEPT !.status = "extracting",
                        !.attempts = IF @ = MaxAttempts THEN @ ELSE @ + 1]

Ingest(s, v) ==
    /\ sweep[s][v] = "fetched" /\ v \notin Muted
    /\ ver' = [ver EXCEPT ![v] = Ingested(v)]
    /\ Step(s, v, "extract")
    /\ UNCHANGED <<page, left, clauses, enabled, faults>>

\* A check for the module that fails counts as enabled.
IngestUnchecked(s, v) ==
    /\ sweep[s][v] = "fetched" /\ v \in Muted
    /\ Fault
    /\ ver' = [ver EXCEPT ![v] = Ingested(v)]
    /\ Step(s, v, "extract")
    /\ UNCHANGED <<page, left, clauses, enabled>>

\* The contract has no file, or extractDocument throws: the download, the text
\* recognition, the vision model or the upload of the text.
NoText(s, v) ==
    /\ sweep[s][v] = "extract"
    /\ Step(s, v, "fail")
    /\ UNCHANGED <<ver, page, left, clauses, enabled, faults>>

\* extractDocument uploads the text, with or without pages of low confidence.
Extract(s, v) ==
    /\ sweep[s][v] = "extract"
    /\ \E stage \in {"store", "store low"} : Step(s, v, stage)
    /\ UNCHANGED <<ver, page, left, clauses, enabled, faults>>

\* fn_contract_version_ingestion_complete, whatever the status is by now.
Complete(s, v) ==
    /\ sweep[s][v] \in {"store", "store low"}
    /\ ver' = [ver EXCEPT ![v].status = "complete", ![v].text = TRUE]
    /\ Step(s, v, IF sweep[s][v] = "store" THEN "none" ELSE "review")
    /\ UNCHANGED <<page, left, clauses, enabled, faults>>

\* fn_ingestion_review_queue_record; an old row of the page is pending again.
RecordPage(s, v) ==
    /\ sweep[s][v] = "review"
    /\ page' = [page EXCEPT ![v] = "pending"]
    /\ Step(s, v, "none")
    /\ UNCHANGED <<ver, left, clauses, enabled, faults>>

\* Mutant: the error is logged and the version is left extracting.
FailSilently(s, v) ==
    /\ sweep[s][v] = "fail"
    /\ Step(s, v, "none")
    /\ UNCHANGED <<ver, page, left, clauses, enabled, faults>>

\* failJob: fn_contract_version_ingestion_fail, whatever the status is by now.
Fail(s, v) ==
    /\ sweep[s][v] = "fail"
    /\ Status(v, "failed")
    /\ Step(s, v, "none")
    /\ UNCHANGED <<page, left, clauses, enabled, faults>>

\* A call fails: before the version is taken up, when it is completed (it is
\* then failed), or when the page or the failure itself is recorded.
Slip(s, v) ==
    /\ sweep[s][v] \in {"fetched", "store", "store low", "review", "fail"}
    /\ Fault
    /\ Step(s, v, IF sweep[s][v] \in {"store", "store low"} THEN "fail" ELSE "none")
    /\ left' = IF sweep[s][v] = "fail" THEN left \cup {v} ELSE left
    /\ UNCHANGED <<ver, page, clauses, enabled>>

\* manualIngest calls the same function, and nobody takes up what it has set
\* extracting.
ManualIngest(v) ==
    /\ ver[v].status \in {"pending", "failed"}
    /\ ver' = [ver EXCEPT ![v] = Ingested(v)]
    /\ left' = left \cup {v}
    /\ UNCHANGED <<sweep, page, clauses, enabled, faults>>

\* fn_ingestion_review_resolve.
ResolvePage(v) ==
    /\ page[v] = "pending"
    /\ page' = [page EXCEPT ![v] = "resolved"]
    /\ UNCHANGED <<ver, sweep, left, clauses, enabled, faults>>

-----------------------------------------------------------------------------
(* The clause extraction worker. *)

HasClauses(v) == v \in marker \/ clause[v] # "none"

\* Mutant: versions whose pages await a review are not read.
CandidatesReviewed ==
    {v \in Version : /\ ver[v].status = "complete" /\ ver[v].text
                     /\ page[v] # "pending" /\ ~HasClauses(v)}

Candidates ==
    {v \in Version : ver[v].status = "complete" /\ ver[v].text /\ ~HasClauses(v)}

\* fetchPendingExtractions.
Reads(t) ==
    /\ reading[t] = {}
    /\ Candidates # {}
    /\ reading' = [reading EXCEPT ![t] = First(Reach, Candidates)]
    /\ UNCHANGED <<ingestion, clause, marker, enabled>>

\* A tick with the module disabled returns.  Nothing else depends on the
\* module, so the check is one step with the read that follows it.
TakeUp(t) == enabled /\ Reads(t) /\ UNCHANGED faults

\* A check that fails counts as enabled.
TakeUpUnchecked(t) == ~enabled /\ Fault /\ Reads(t)

Finish(t, v) == reading' = [reading EXCEPT ![t] = @ \ {v}]

\* extractClausesForVersion: fn_clause_upsert with what the model has said of
\* the region, over any row that is there ...
Upsert(t, v) ==
    /\ v \in reading[t]
    /\ clause' = [clause EXCEPT ![v] = "open"]
    /\ Finish(t, v)
    /\ UNCHANGED <<ingestion, marker, enabled, faults>>

\* ... or nothing: the text is too short, the region is no clause, or a call
\* throws.
NoClause(t, v) ==
    /\ v \in reading[t]
    /\ Finish(t, v)
    /\ UNCHANGED <<ingestion, clause, marker, enabled, faults>>

\* fn_clause_extraction_request: the row that asks for an extraction.
Request(v) ==
    /\ ver[v].status # "none" /\ v \notin marker
    /\ marker' = marker \cup {v}
    /\ UNCHANGED <<ingestion, reading, clause, enabled, faults>>

\* fn_clause_review_resolve.
Review(v) ==
    /\ clause[v] = "open"
    /\ clause' = [clause EXCEPT ![v] = "decided"]
    /\ UNCHANGED <<ingestion, reading, marker, enabled, faults>>

\* The tenant's administrator turns the module off, or on again.
Toggle ==
    /\ enabled' = ~enabled
    /\ UNCHANGED <<ingestion, clauses, faults>>

\* The server stops.
Crash ==
    /\ Fault
    /\ sweep' = [s \in Sweep |-> Idle]
    /\ reading' = [t \in Tick |-> {}]
    /\ left' = left \cup {v \in Version : ver[v].status = "extracting"}
    /\ UNCHANGED <<ver, page, clause, marker, enabled>>

-----------------------------------------------------------------------------
Work(s) ==
    \/ Fetch(s)
    \/ \E v \in Version :
         \/ Skip(s, v) \/ Ingest(s, v) \/ NoText(s, v) \/ Extract(s, v)
         \/ Complete(s, v) \/ RecordPage(s, v) \/ Fail(s, v)

Read(t) == TakeUp(t) \/ \E v \in Version : Upsert(t, v) \/ NoClause(t, v)

Next ==
    \/ \E s \in Sweep : Work(s) \/ \E v \in Version : Slip(s, v) \/ IngestUnchecked(s, v)
    \/ \E t \in Tick : Read(t) \/ TakeUpUnchecked(t)
    \/ \E v \in Version :
         \/ Create(v) \/ ManualIngest(v) \/ ResolvePage(v) \/ Request(v) \/ Review(v)
    \/ Toggle \/ Crash

Spec == Init /\ [][Next]_vars

\* Both workers are enabled, and their sweeps end.
FairSpec ==
    /\ Spec
    /\ \A s \in Sweep : WF_vars(Work(s))
    /\ \A t \in Tick : WF_vars(Read(t))

-----------------------------------------------------------------------------
(* Properties. *)

\* A version that is extracting is in the hands of a sweep, unless it was set
\* extracting by hand, in a crash or before a failure that could not be
\* recorded: a sweep ends with every version it has taken up, whatever a
\* sweep that overlaps it does.
ExtractingIsHeld ==
    \A v \in Version :
        ver[v].status = "extracting" =>
            v \in left \/ \E s \in Sweep : sweep[s][v] # "none"

\* The text a sweep has stored is never lost, and clauses are only extracted
\* from a text, also when an overlapping sweep fails the version after all.
ClausesHaveText ==
    \A v \in Version :
        clause[v] # "none" \/ (\E t \in Tick : v \in reading[t]) => ver[v].text

\* A pending version of a tenant with the module is completed or failed or
\* given up, beside the versions that stay pending for want of the module, as
\* long as fewer versions are pending before it than a sweep reads.
Pending == {v \in Version : ver[v].status = "pending"}
VersionsSettle ==
    \A v \in Version \ Muted :
        v \in First(Window, Pending) ~>
            \/ ver[v].status \in {"complete", "failed"} \/ v \in left
            \/ v \in Pending \ First(Window, Pending)

\* A complete version without clauses is taken up by the extraction worker, as
\* long as nobody asks for it, the module stays enabled and fewer versions wait
\* before it than a tick reads: those that turn out to have no clauses wait on.
Waiting == {v \in Version : ver[v].status = "complete" /\ ~HasClauses(v)}
CompleteIsTakenUp ==
    \A v \in Version :
        enabled /\ v \in First(Reach, Waiting) ~>
            \/ ~enabled \/ v \notin First(Reach, Waiting)
            \/ \E t \in Tick : v \in reading[t]
=============================================================================
