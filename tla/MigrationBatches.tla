-------------------------- MODULE MigrationBatches --------------------------
(***************************************************************************)
(* The import of a Google Drive folder: batches queued by an               *)
(* administrator, the worker that sweeps them every ten seconds, the steps *)
(* of processBatch for every file of the folder, rollback and purge.       *)
(*                                                                         *)
(* A run is one call of processBatch.  The sweep reads the queued batches  *)
(* without a claim and no guard keeps two sweeps apart, so two runs may    *)
(* work on one batch.  Each database call of a run is a transaction of its *)
(* own and a step here; a crash of the server ends all runs where they     *)
(* are.  The connection to Drive may be cut or refuse a call at any time.  *)
(***************************************************************************)
EXTENDS FiniteSets, Naturals

CONSTANTS
    Batch,       \* migration_batch rows, numbered as they are inserted
    Run,         \* calls of processBatch, numbered as they are made
    File,        \* the files of the connected folder, numbered as Drive lists them
    Copies,      \* pairs of files with the same bytes
    Alike,       \* pairs whose contracts have close parties, values and dates
    Confident,   \* files whose text is extracted above the confidence threshold
    MaxFaults    \* bound: calls that fail, in all

ASSUME FileAssumption ==
    /\ File \subseteq Nat \ {0} /\ File # {} /\ IsFiniteSet(File)
    /\ Copies \subseteq File \X File /\ Alike \subseteq File \X File
    /\ Confident \subseteq File

\* A run without a batch, a run between two files, a record without a contract.
NoBatch    == 0
NoFile     == 0
NoContract == <<>>

ASSUME FaultAssumption == MaxFaults \in Nat

ASSUME SerialAssumption ==
    Batch \subseteq Nat \ {0} /\ Run \subseteq Nat /\ IsFiniteSet(Run)

VARIABLES
    worker,      \* MIGRATION_SYNC_WORKER_ENABLED
    batch,       \* migration_batch.status; "none" before, "purged" after the row
    totals,      \* files_imported, files_review, files_failed, files_skipped_duplicate
    rec,         \* migration_record.status of a batch and a file
    link,        \* migration_record.contract_id
    hashed,      \* records with source_file_sha256
    contract,    \* the contract that a run created for a file
    pc,          \* what the run does next
    of,          \* the batch of the run
    todo,        \* the files the run has still to process
    cur,         \* the file it is at
    tally,       \* what it counted so far
    crashed,     \* the server was restarted
    faults       \* calls that failed so far

run == <<pc, of, todo, cur, tally>>
vars == <<worker, batch, totals, rec, link, hashed, contract,
          pc, of, todo, cur, tally, crashed, faults>>

BatchStatus == {"queued", "in_progress", "completed",
                "completed_with_errors", "rolled_back", "failed"}
Skipped     == {"skipped_duplicate_id", "skipped_duplicate_hash"}
RecordStatus == {"discovered", "downloading", "ingesting", "imported",
                 "needs_review", "failed", "flagged_logical_duplicate"}
                    \cup Skipped
\* Mutant: the index covers only the records that are still in work.
InactiveImported == Skipped \cup {"failed", "imported", "needs_review"}
\* What uq_migration_record_active_source_file_per_conn leaves out.
Inactive == Skipped \cup {"failed"}
\* A contract is live and without a batch until it is linked.
ContractState == {"none", "loose", "tagged", "inactive"}
Outcome == {"imported", "review", "failed", "skipped"}
Nothing == [o \in Outcome |-> 0]
\* A run that could not even say that its batch failed is lost.
Idle  == {"idle", "done", "lost"}
\* Where a call made for a file may throw out of processSingleFile.
FilePoint == {"skip_id", "claim", "download", "compare", "skip_hash", "ingest",
              "stage", "extract", "settle"}
\* Where an error reaches the catch around the whole of processBatch.
Caught == FilePoint \cup {"load", "list", "register", "next", "count", "sync"}
Point  == Idle \cup Caught \cup {"flag"}

TypeOK ==
    /\ worker \in BOOLEAN /\ crashed \in BOOLEAN /\ faults \in 0..MaxFaults
    /\ batch \in [Batch -> BatchStatus \cup {"none", "purged"}]
    /\ totals \in [Batch -> [Outcome -> 0..Cardinality(File)]]
    /\ rec \in [Batch \X File -> RecordStatus \cup {"none"}]
    /\ link \in [Batch \X File -> (Run \X File) \cup {NoContract}]
    /\ hashed \subseteq Batch \X File
    /\ contract \in [Run \X File -> ContractState]
    /\ pc \in [Run -> Point]
    /\ of \in [Run -> Batch \cup {NoBatch}]
    /\ todo \in [Run -> SUBSET File]
    /\ cur \in [Run -> File \cup {NoFile}]
    /\ tally \in [Run -> [Outcome -> 0..Cardinality(File)]]

Init ==
    /\ worker \in BOOLEAN
    /\ batch = [b \in Batch |-> "none"]
    /\ totals = [b \in Batch |-> Nothing]
    /\ rec = [x \in Batch \X File |-> "none"]
    /\ link = [x \in Batch \X File |-> NoContract]
    /\ hashed = {}
    /\ contract = [x \in Run \X File |-> "none"]
    /\ pc = [r \in Run |-> "idle"]
    /\ of = [r \in Run |-> NoBatch]
    /\ todo = [r \in Run |-> {}]
    /\ cur = [r \in Run |-> NoFile]
    /\ tally = [r \in Run |-> Nothing]
    /\ crashed = FALSE /\ faults = 0

-----------------------------------------------------------------------------
(* Reads and writes of the tables. *)

Own(r)    == <<of[r], cur[r]>>
Exists(b) == batch[b] \notin {"none", "purged"}
Active(x) == rec[x] \notin Inactive \cup {"none"}

\* The unique index refuses a second active record of a file.
Conflicts(x) == \E y \in Batch \X File : y # x /\ y[2] = x[2] /\ Active(y)

\* fn_migration_record_check_duplicates: the record of the same source file,
\* before any record with the same bytes.
SameFile(f)  == {y \in Batch \X File : y[2] = f /\ Active(y)}
SameBytes(f) == {y \in hashed : Active(y) /\ (y[2] = f \/ <<f, y[2]>> \in Copies)}

\* Rows and calls are numbered, and files taken in the order of the listing.
First(S) == {x \in S : \A y \in S : x <= y}
NextRun  == First({r \in Run : pc[r] = "idle"})

\* A call to Drive, to storage or to the database fails.
Fault == faults < MaxFaults /\ faults' = faults + 1

Goto(r, p) == pc' = [pc EXCEPT ![r] = p]

\* The callbacks onImported, onReview, onFailed and onSkipped.
Bump(r, o) == tally' = [tally EXCEPT ![r][o] = @ + 1]

\* processBatch returns or throws: its locals are gone.
End(r, p) ==
    /\ Goto(r, p)
    /\ todo' = [todo EXCEPT ![r] = {}]
    /\ cur' = [cur EXCEPT ![r] = NoFile]
    /\ tally' = [tally EXCEPT ![r] = Nothing]
    /\ UNCHANGED of

Return(r) == End(r, "done")

\* fn_migration_record_update_status: no row, no effect.
SetRecord(r, s) ==
    rec' = IF rec[Own(r)] = "none" THEN rec ELSE [rec EXCEPT ![Own(r)] = s]

\* fn_migration_batch_set_status, whatever the status was.
SetBatch(r, s) ==
    batch' = IF Exists(of[r]) THEN [batch EXCEPT ![of[r]] = s] ELSE batch

-----------------------------------------------------------------------------
(* The administrator and the worker. *)

\* migrationController.createBatch and triggerSync; without the worker the
\* handler starts the run itself.
CreateBatch(b) ==
    /\ b \in First({a \in Batch : batch[a] = "none"})
    /\ batch' = [batch EXCEPT ![b] = "queued"]
    /\ IF worker
       THEN UNCHANGED run
       ELSE \E r \in NextRun :
              /\ Goto(r, "load")
              /\ of' = [of EXCEPT ![r] = b]
              /\ UNCHANGED <<todo, cur, tally>>
    /\ UNCHANGED <<worker, totals, rec, link, hashed, contract, crashed, faults>>

\* fetchQueuedBatches: the batch stays queued until the run has loaded it.
Fetch(r, b) ==
    /\ worker /\ r \in NextRun /\ batch[b] = "queued"
    /\ Goto(r, "load")
    /\ of' = [of EXCEPT ![r] = b]
    /\ UNCHANGED <<worker, batch, totals, rec, link, hashed,
                   contract, todo, cur, tally, crashed, faults>>

\* loadBatchContext: without tokens (the connection was cut) or without the
\* row it throws, and the batch stays as it is.
Load(r) ==
    /\ pc[r] = "load"
    /\ \/ /\ Exists(of[r])
          /\ SetBatch(r, "in_progress") /\ Goto(r, "list")
          /\ UNCHANGED <<of, todo, cur, tally>>
       \/ UNCHANGED batch /\ Return(r)
    /\ UNCHANGED <<worker, totals, rec, link, hashed, contract, crashed, faults>>

\* The folder is listed.
List(r) ==
    /\ pc[r] = "list"
    /\ todo' = [todo EXCEPT ![r] = File]
    /\ Goto(r, "register")
    /\ UNCHANGED <<worker, batch, totals, rec, link, hashed, contract,
                   of, cur, tally, crashed, faults>>

\* Mutant: the record is inserted without a look at its batch.
RegistrableAnyBatch(x) == rec[x] = "none" => ~Conflicts(x)

\* fn_migration_record_create: an upsert per batch and file, which the index
\* on the active files of the connection may refuse.
Registrable(x) == Exists(x[1]) /\ (rec[x] = "none" => ~Conflicts(x))

Register(r) ==
    /\ pc[r] = "register"
    /\ \E f \in First(todo[r]) :
         /\ Registrable(<<of[r], f>>)
         /\ rec' = [rec EXCEPT ![<<of[r], f>>] = IF @ = "none" THEN "discovered" ELSE @]
         /\ IF todo[r] = {f}
            THEN todo' = [todo EXCEPT ![r] = File] /\ Goto(r, "next")
            ELSE todo' = [todo EXCEPT ![r] = @ \ {f}] /\ UNCHANGED pc
    /\ UNCHANGED <<worker, batch, totals, link, hashed, contract,
                   of, cur, tally, crashed, faults>>

\* An error: the index or the batch's status refuses a record, or a call fails.
Refused(r) ==
    pc[r] = "register" /\ \E f \in First(todo[r]) : ~Registrable(<<of[r], f>>)

Throws(r) ==
    pc[r] \in Caught /\ IF Refused(r) THEN UNCHANGED faults ELSE Fault

\* Mutant: the error is thrown on without a word to the batch.
AbortSilent(r) ==
    /\ Throws(r)
    /\ Return(r)
    /\ UNCHANGED <<worker, batch, totals, rec, link, hashed, contract, crashed>>

\* Drive or the database refuses a call outside the handling of a file, or the
\* note that a file has failed: the batch has failed, whatever its status was.
Abort(r) ==
    /\ Throws(r)
    /\ SetBatch(r, "failed")
    /\ Return(r)
    /\ UNCHANGED <<worker, totals, rec, link, hashed, contract, crashed>>

\* The database refuses that write of the status too.
AbortLost(r) ==
    /\ pc[r] \in Caught /\ Fault
    /\ End(r, "lost")
    /\ UNCHANGED <<worker, batch, totals, rec, link, hashed, contract, crashed>>

-----------------------------------------------------------------------------
(* One file: processSingleFile. *)

\* What no step on the current file changes.
FileKept == UNCHANGED <<worker, batch, totals, of, todo, cur, crashed>>
FileStep == FileKept /\ UNCHANGED faults

\* Mutant: the failure is recorded and not counted.
FileFailsUncounted(r) == SetRecord(r, "failed") /\ UNCHANGED tally /\ Goto(r, "count")

\* The handler of an error in processBatch, and the failure of an extraction:
\* the record has failed, whatever was done for it.
FileFails(r) ==
    /\ SetRecord(r, "failed")
    /\ Bump(r, "failed")
    /\ Goto(r, "count")

\* Drive, storage or the database refuses a call made for the file.
FileError(r) ==
    /\ pc[r] \in FilePoint /\ Fault
    /\ FileFails(r)
    /\ FileKept /\ UNCHANGED <<link, hashed, contract>>

\* A write of an active status must pass the index.
Enter(r, s, p) ==
    IF Conflicts(Own(r)) THEN FileFails(r)
    ELSE SetRecord(r, s) /\ Goto(r, p) /\ UNCHANGED tally

\* The first duplicate check: a match that is not the record itself.
Check(r) ==
    /\ pc[r] = "next"
    /\ \E f \in First(todo[r]) :
         /\ cur' = [cur EXCEPT ![r] = f]
         /\ todo' = [todo EXCEPT ![r] = @ \ {f}]
         /\ Goto(r, IF SameFile(f) \subseteq {<<of[r], f>>}
                    THEN "claim" ELSE "skip_id")
    /\ UNCHANGED <<worker, batch, totals, rec, link, hashed,
                   contract, of, tally, crashed, faults>>

\* fn_migration_record_mark_duplicate.
Skip(r) ==
    /\ pc[r] \in {"skip_id", "skip_hash"}
    /\ SetRecord(r, IF pc[r] = "skip_id" THEN "skipped_duplicate_id"
                                        ELSE "skipped_duplicate_hash")
    /\ Bump(r, "skipped")
    /\ Goto(r, "count")
    /\ FileStep /\ UNCHANGED <<link, hashed, contract>>

Claim(r) ==
    /\ pc[r] = "claim"
    /\ Enter(r, "downloading", "download")
    /\ FileStep /\ UNCHANGED <<link, hashed, contract>>

\* The download, and its hash.
Download(r) ==
    /\ pc[r] = "download"
    /\ Goto(r, "compare")
    /\ hashed' = hashed \cup {x \in {Own(r)} : rec[x] # "none"}
    /\ FileStep /\ UNCHANGED <<rec, tally, link, contract>>

\* The second duplicate check: the match of the source file comes first.
Compare(r) ==
    /\ pc[r] = "compare"
    /\ Goto(r, IF SameFile(cur[r]) = {} /\ SameBytes(cur[r]) # {}
               THEN "skip_hash" ELSE "ingest")
    /\ FileStep /\ UNCHANGED <<rec, tally, link, hashed, contract>>

Ingest(r) ==
    /\ pc[r] = "ingest"
    /\ Enter(r, "ingesting", "stage")
    /\ FileStep /\ UNCHANGED <<link, hashed, contract>>

\* The file is staged in storage, and a draft contract with its first version
\* inserted in one statement.
Stage(r) ==
    /\ pc[r] = "stage"
    /\ Goto(r, "extract")
    /\ contract' = [contract EXCEPT ![<<r, cur[r]>>] = "loose"]
    /\ FileStep /\ UNCHANGED <<rec, tally, link, hashed>>

\* extractDocument, the fields read from the text, and
\* fn_migration_record_link_contract, which ties record, contract and batch; a
\* failure before it leaves a contract that belongs to no batch.
Link(r) ==
    /\ pc[r] = "extract"
    /\ Goto(r, "flag")
    /\ IF rec[Own(r)] = "none"
       THEN UNCHANGED <<link, contract>>
       ELSE /\ link' = [link EXCEPT ![Own(r)] = <<r, cur[r]>>]
            /\ contract' = [contract EXCEPT ![<<r, cur[r]>>] = "tagged"]
    /\ FileStep /\ UNCHANGED <<rec, tally, hashed>>

\* fn_migration_logical_duplicate_flag looks for another live contract on the
\* same terms; its failure is ignored.
LooksAlike(r) ==
    \E y \in Run \X File :
        /\ y # <<r, cur[r]>> /\ contract[y] \in {"loose", "tagged"}
        /\ y[2] = cur[r] \/ <<cur[r], y[2]>> \in Alike

Flag(r) ==
    /\ pc[r] = "flag"
    /\ \/ /\ LooksAlike(r) /\ link[Own(r)] # NoContract /\ ~Conflicts(Own(r))
          /\ SetRecord(r, "flagged_logical_duplicate")
       \/ UNCHANGED rec
    /\ Goto(r, "settle")
    /\ FileStep /\ UNCHANGED <<tally, link, hashed, contract>>

\* The final status, whatever the flag was: by the extraction's confidence.
Settle(r) ==
    /\ pc[r] = "settle"
    /\ IF Conflicts(Own(r)) THEN FileFails(r)
       ELSE /\ IF cur[r] \in Confident
               THEN SetRecord(r, "imported") /\ Bump(r, "imported")
               ELSE SetRecord(r, "needs_review") /\ Bump(r, "review")
            /\ Goto(r, "count")
    /\ FileStep /\ UNCHANGED <<link, hashed, contract>>

\* fn_migration_batch_update_counts writes the totals of this run.
Count(r) ==
    /\ pc[r] = "count"
    /\ totals' = IF Exists(of[r]) THEN [totals EXCEPT ![of[r]] = tally[r]] ELSE totals
    /\ cur' = [cur EXCEPT ![r] = NoFile]
    /\ Goto(r, "next")
    /\ UNCHANGED <<worker, batch, rec, link, hashed, contract, of,
                   todo, tally, crashed, faults>>

\* Every file is done.
Finish(r) ==
    /\ pc[r] = "next" /\ todo[r] = {}
    /\ SetBatch(r, IF tally[r]["failed"] > 0 THEN "completed_with_errors"
                                            ELSE "completed")
    /\ Goto(r, "sync")
    /\ UNCHANGED <<worker, totals, rec, link, hashed, contract, of, todo, cur,
                   tally, crashed, faults>>

\* external_connection.last_synced_at, in the same try.
Synced(r) ==
    /\ pc[r] = "sync"
    /\ Return(r)
    /\ UNCHANGED <<worker, batch, totals, rec, link, hashed, contract, crashed, faults>>

-----------------------------------------------------------------------------
(* The administrator's corrections, and the server. *)

\* Mutant: any batch can be rolled back.
RollbackAnyStatus(b) ==
    /\ Exists(b)
    /\ batch' = [batch EXCEPT ![b] = "rolled_back"]
    /\ contract' = [x \in Run \X File |->
                      IF contract[x] = "tagged" /\ of[x[1]] = b
                      THEN "inactive" ELSE contract[x]]
    /\ UNCHANGED <<worker, totals, rec, link, hashed, run, crashed, faults>>

\* fn_migration_batch_rollback.
Rollback(b) ==
    /\ batch[b] \in {"completed", "completed_with_errors", "failed"}
    /\ batch' = [batch EXCEPT ![b] = "rolled_back"]
    /\ contract' = [x \in Run \X File |->
                      IF contract[x] = "tagged" /\ of[x[1]] = b
                      THEN "inactive" ELSE contract[x]]
    /\ UNCHANGED <<worker, totals, rec, link, hashed, run, crashed, faults>>

\* fn_migration_purge_all removes the records, the batches and the contracts
\* that are tied to them.
Purge ==
    /\ \E b \in Batch : Exists(b)
    /\ batch' = [b \in Batch |-> IF batch[b] = "none" THEN "none" ELSE "purged"]
    /\ totals' = [b \in Batch |-> Nothing]
    /\ rec' = [x \in Batch \X File |-> "none"]
    /\ link' = [x \in Batch \X File |-> NoContract]
    /\ hashed' = {}
    /\ contract' = [x \in Run \X File |->
                      IF contract[x] = "loose" THEN "loose" ELSE "none"]
    /\ UNCHANGED <<worker, run, crashed, faults>>

\* The server stops; at most once in a behaviour.
Crash ==
    /\ ~crashed
    /\ crashed' = TRUE
    /\ pc' = [r \in Run |-> IF pc[r] = "idle" THEN "idle" ELSE "done"]
    /\ todo' = [r \in Run |-> {}]
    /\ cur' = [r \in Run |-> NoFile]
    /\ tally' = [r \in Run |-> Nothing]
    /\ UNCHANGED <<worker, batch, totals, rec, link, hashed, contract, of, faults>>

Step(r) ==
    \/ Load(r) \/ List(r) \/ Register(r) \/ Abort(r) \/ AbortLost(r)
    \/ Check(r) \/ Skip(r) \/ Claim(r) \/ Download(r) \/ Compare(r)
    \/ Ingest(r) \/ Stage(r) \/ Link(r) \/ Flag(r) \/ Settle(r)
    \/ FileError(r) \/ Count(r) \/ Finish(r) \/ Synced(r)

Next ==
    \/ \E b \in Batch : CreateBatch(b) \/ Rollback(b)
    \/ \E r \in Run : Step(r) \/ \E b \in Batch : Fetch(r, b)
    \/ Purge \/ Crash

Spec == Init /\ [][Next]_vars

\* A call of processBatch ends: every await of it returns or throws.
FairSpec == Spec /\ \A r \in Run : WF_vars(Step(r))

-----------------------------------------------------------------------------
(* Properties. *)

\* No second run ever took the batch.
Alone(b) == Cardinality({r \in Run : of[r] = b}) <= 1

\* The totals a completed batch reports are the statuses of its records, when
\* one run worked on it (processBatch counts what processSingleFile wrote).
With(b, statuses) == Cardinality({f \in File : rec[<<b, f>>] \in statuses})
TotalsAgree ==
    \A b \in Batch :
        batch[b] \in {"completed", "completed_with_errors"} /\ Alone(b) =>
            /\ totals[b]["imported"] = With(b, {"imported"})
            /\ totals[b]["review"] = With(b, {"needs_review"})
            /\ totals[b]["failed"] = With(b, {"failed"})
            /\ totals[b]["skipped"] = With(b, Skipped)
            /\ (totals[b]["failed"] > 0) = (batch[b] = "completed_with_errors")

\* fn_migration_batch_rollback locks the batch "to prevent worker race": once
\* rolled back, a batch that one run worked on gets no live contract, and only
\* its run, failing after its last file, gives it another status.
RollbackHolds ==
    [][\A b \in Batch :
         batch[b] = "rolled_back" /\ Alone(b) =>
             /\ \/ batch'[b] \in {"rolled_back", "purged"}
                \/ batch'[b] = "failed" /\ \E r \in Run : of[r] = b /\ pc[r] = "sync"
             /\ \A x \in Run \X File :
                  contract'[x] = "tagged" /\ of[x[1]] = b => contract[x] = "tagged"]_vars

\* A purge under a run that is still at work: the run writes no record of the
\* purged batch and ties no contract to it.
PurgeIsComplete ==
    \A b \in Batch : batch[b] = "purged" =>
        \A f \in File :
            /\ rec[<<b, f>>] = "none"
            /\ \A r \in Run : of[r] = b => contract[<<r, f>>] # "tagged"

\* A file has one live imported contract at most, over all batches of the
\* connection, as long as no batch was taken twice; but a record that failed after
\* its contract was linked leaves it live, and its file is imported again.
OneLiveImport ==
    (\A b \in Batch : Alone(b)) =>
        \A f \in File :
            Cardinality({r \in Run : /\ contract[<<r, f>>] = "tagged"
                                    /\ rec[<<of[r], f>>] # "failed"}) <= 1

\* A batch that was started ends, unless the server stops under it or the
\* database refuses to note its failure.
BatchEnds ==
    \A b \in Batch :
        batch[b] = "in_progress" ~>
            \/ batch[b] # "in_progress" \/ crashed
            \/ \E r \in Run : of[r] = b /\ pc[r] = "lost"
=============================================================================
