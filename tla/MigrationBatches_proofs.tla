----------------------- MODULE MigrationBatches_proofs -----------------------
(* What TLAPS proves of the import, for any number of batches, runs and      *)
(* files: a purge under a run at work leaves nothing behind, a batch that    *)
(* one run took gets no contract back once it is rolled back, and reports    *)
(* what its records say.                                                     *)
EXTENDS MigrationBatches, FiniteSetTheorems, TLAPS

\* Where a run is at a file.
AtFile == Point \ (Idle \cup {"load", "list", "register", "next", "sync"})

Rows ==
    /\ batch \in [Batch -> BatchStatus \cup {"none", "purged"}]
    /\ rec \in [Batch \X File -> RecordStatus \cup {"none"}]
    /\ contract \in [Run \X File -> ContractState]
    /\ pc \in [Run -> Point]
    /\ of \in [Run -> Batch \cup {NoBatch}]
    /\ todo \in [Run -> SUBSET File]
    /\ cur \in [Run -> File \cup {NoFile}]

\* A run has a batch from its start on, and a file while it is at one.
Places ==
    \A r \in Run :
        /\ pc[r] = "idle" => of[r] = NoBatch
        /\ pc[r] \notin Idle => of[r] \in Batch
        /\ pc[r] \in AtFile => cur[r] \in File

\* At most one run has taken the batch.
Sole(b) == \A q, r \in Run : of[q] = b /\ of[r] = b => q = r

\* A batch that one run took has an outcome only when that run is done with its
\* files.
Over  == {"done", "lost", "sync"}
Ended == {"completed", "completed_with_errors", "failed", "rolled_back"}
EndsWithRun ==
    \A b \in Batch : batch[b] \in Ended /\ Sole(b) =>
        \A r \in Run : of[r] = b => pc[r] \in Over

IInv == Rows /\ Places /\ EndsWithRun /\ PurgeIsComplete

\* What any step of a run on its current file does.
FileMove(r) ==
    /\ pc[r] \in AtFile
    /\ UNCHANGED <<batch, of, todo, cur>>
    /\ \E p \in AtFile : pc' = [pc EXCEPT ![r] = p]
    /\ \/ rec' = rec
       \/ /\ rec[Own(r)] # "none"
          /\ \E s \in RecordStatus : rec' = [rec EXCEPT ![Own(r)] = s]
    /\ \/ contract' = contract
       \/ contract' = [contract EXCEPT ![<<r, cur[r]>>] = "loose"]
       \/ /\ rec[Own(r)] # "none"
          /\ contract' = [contract EXCEPT ![<<r, cur[r]>>] = "tagged"]

-----------------------------------------------------------------------------
(* Runs of a batch. *)

\* Alone counts the runs of a batch, Sole compares them.
LEMMA AloneIsSole ==
    ASSUME NEW b, Alone(b)
    PROVE  Sole(b)
<1> SUFFICES ASSUME NEW q \in Run, NEW r \in Run, of[q] = b, of[r] = b, q # r
             PROVE  FALSE
  BY DEF Sole
<1> DEFINE S == {u \in Run : of[u] = b}
<1>1. IsFiniteSet(S)
  BY FS_Subset, SerialAssumption
<1>2. {q} \cup {r} \in SUBSET S
  OBVIOUS
<1>3. Cardinality({q} \cup {r}) = 2
  <2>1. IsFiniteSet({q}) /\ Cardinality({q}) = 1
    BY FS_Singleton
  <2>2. r \notin {q}
    OBVIOUS
  <2>3. Cardinality({q} \cup {r}) = Cardinality({q}) + 1
    BY <2>1, <2>2, FS_AddElement, Zenon
  <2> QED  BY <2>1, <2>3
<1>4. Cardinality({q} \cup {r}) <= Cardinality(S)
  BY <1>1, <1>2, FS_Subset, Zenon
<1>5. Cardinality(S) \in Nat /\ Cardinality(S) <= 1
  BY <1>1, FS_CardinalityType DEF Alone
<1> QED  BY <1>3, <1>4, <1>5

\* Moves on a file are FileMoves.
LEMMA FileSteps ==
    ASSUME Rows, NEW r \in Run,
           \/ Skip(r) \/ Claim(r) \/ Download(r) \/ Compare(r) \/ Ingest(r)
           \/ Stage(r) \/ Link(r) \/ Flag(r) \/ Settle(r) \/ FileError(r)
    PROVE  FileMove(r)
<1> USE DEF AtFile, Point, Idle, Caught, FilePoint, FileMove, FileStep, FileKept,
            RecordStatus, Skipped
<1>1. CASE Skip(r)
  BY <1>1 DEF Skip, SetRecord, Goto
<1>2. CASE Claim(r)
  BY <1>2 DEF Claim, Enter, FileFails, SetRecord, Goto
<1>3. CASE Download(r)
  BY <1>3 DEF Download, Goto
<1>4. CASE Compare(r)
  BY <1>4 DEF Compare, Goto
<1>5. CASE Ingest(r)
  BY <1>5 DEF Ingest, Enter, FileFails, SetRecord, Goto
<1>6. CASE Stage(r)
  BY <1>6 DEF Stage, Goto
<1>7. CASE Link(r)
  BY <1>7 DEF Link, Goto
<1>8. CASE Flag(r)
  BY <1>8 DEF Flag, SetRecord, Goto
<1>9. CASE Settle(r)
  BY <1>9 DEF Settle, FileFails, SetRecord, Goto
<1>10. CASE FileError(r)
  BY <1>10 DEF FileError, FileFails, SetRecord, Goto
<1> QED  BY <1>1, <1>2, <1>3, <1>4, <1>5, <1>6, <1>7, <1>8, <1>9, <1>10

\* What a run that returns leaves of itself.
LEMMA ReturnPlaces ==
    ASSUME Rows, Places, NEW r \in Run, pc[r] \notin Idle,
           NEW p \in {"done", "lost"}, End(r, p)
    PROVE  /\ pc' \in [Run -> Point] /\ todo' \in [Run -> SUBSET File]
           /\ cur' \in [Run -> File \cup {NoFile}] /\ of' = of
           /\ Places'
           /\ pc'[r] = p
           /\ \A q \in Run : q # r => pc'[q] = pc[q]
BY DEF Rows, Places, End, Goto, Point, Idle, AtFile

\* What a run does at the end, its last file done or an error thrown.
LEMMA EndSteps ==
    ASSUME NEW r \in Run, Abort(r) \/ AbortLost(r) \/ Synced(r)
    PROVE  /\ \E p \in {"done", "lost"} : End(r, p)
           /\ pc[r] \in Caught /\ pc[r] \notin Idle
           /\ UNCHANGED <<totals, rec, contract>>
           /\ UNCHANGED batch \/ SetBatch(r, "failed")
BY DEF Abort, AbortLost, Synced, Throws, Return, Caught, FilePoint, Idle

-----------------------------------------------------------------------------
\* A service without batches is in the invariant.
LEMMA InitIInv == Init => IInv
<1> SUFFICES ASSUME Init PROVE IInv
  OBVIOUS
<1>1. Rows
  BY DEF Init, Rows, Point, Idle, ContractState
<1>2. Places
  BY DEF Init, Places, Idle, AtFile
<1>3. EndsWithRun
  BY DEF Init, EndsWithRun, Ended
<1>4. PurgeIsComplete
  BY DEF Init, PurgeIsComplete
<1> QED  BY <1>1, <1>2, <1>3, <1>4 DEF IInv

-----------------------------------------------------------------------------
(* Rows, places and the return of the run. *)

\* What a step that moves on no file must do to keep the end of the batches:
\* an ended batch gets no run, a run that returned does not come back, and a
\* batch that ends has no run at work if one alone took it.
LEMMA EndsFrame ==
    ASSUME EndsWithRun,
           \A r \in Run : of'[r] # of[r] => batch[of'[r]] \notin Ended,
           \A r \in Run : of[r] \in Batch => of'[r] = of[r],
           \A r \in Run : pc[r] \in Over => pc'[r] \in Over,
           \A b \in Batch : batch'[b] \in Ended =>
              \/ batch[b] \in Ended
              \/ Sole(b)' => \A r \in Run : of'[r] = b => pc'[r] \in Over
    PROVE  EndsWithRun'
<1> SUFFICES ASSUME NEW b \in Batch, batch'[b] \in Ended, Sole(b)',
                    NEW r \in Run, of'[r] = b
             PROVE  pc'[r] \in Over
  BY DEF EndsWithRun
<1>1. Sole(b)
  BY DEF Sole
<1>2. CASE batch[b] \in Ended
  BY <1>1, <1>2 DEF EndsWithRun
<1>3. CASE batch[b] \notin Ended
  BY <1>3
<1> QED  BY <1>2, <1>3

\* ... and the purged batches: they get neither records nor runs nor contracts.
LEMMA PurgeFrame ==
    ASSUME PurgeIsComplete,
           \A b \in Batch : batch'[b] = "purged" => batch[b] = "purged",
           \A r \in Run : of'[r] # of[r] => batch[of'[r]] # "purged",
           \A b \in Batch, f \in File :
              batch[b] = "purged" => rec'[<<b, f>>] = rec[<<b, f>>],
           \A r \in Run, f \in File :
              contract'[<<r, f>>] = "tagged" => contract[<<r, f>>] = "tagged"
    PROVE  PurgeIsComplete'
<1> SUFFICES ASSUME NEW b \in Batch, batch'[b] = "purged", NEW f \in File
             PROVE  /\ rec'[<<b, f>>] = "none"
                    /\ \A r \in Run : of'[r] = b => contract'[<<r, f>>] # "tagged"
  BY DEF PurgeIsComplete
<1>1. batch[b] = "purged"
  OBVIOUS
<1>2. \A r \in Run : of'[r] = b => of[r] = b
  BY <1>1
<1> QED  BY <1>1, <1>2 DEF PurgeIsComplete

\* A run that moves on a file has its batch in the rows, and only a batch that
\* exists has records.
LEMMA FileMoveKeeps ==
    ASSUME IInv, NEW r \in Run, FileMove(r)
    PROVE  IInv'
<1> USE DEF IInv
<1>1. Own(r) \in Batch \X File /\ <<r, cur[r]>> \in Run \X File
  BY DEF Own, FileMove, Places, AtFile
<1>2. Rows'
  <2>1. rec' \in [Batch \X File -> RecordStatus \cup {"none"}]
    BY <1>1 DEF Rows, FileMove
  <2>2. contract' \in [Run \X File -> ContractState]
    BY <1>1 DEF Rows, FileMove, ContractState
  <2>3. pc' \in [Run -> Point]
    BY DEF Rows, FileMove, AtFile
  <2> QED  BY <2>1, <2>2, <2>3 DEF Rows, FileMove
<1>3. Places'
  BY DEF Places, FileMove, AtFile, Idle, Rows
<1>4. EndsWithRun'
  <2> SUFFICES ASSUME NEW b \in Batch, batch[b] \in Ended, Sole(b)',
                      NEW q \in Run, of[q] = b
               PROVE  pc'[q] \in Over
    BY DEF EndsWithRun, FileMove
  <2>1. Sole(b)
    BY DEF Sole, FileMove
  <2>2. pc[q] \in Over
    BY <2>1 DEF EndsWithRun
  <2>3. q # r
    BY <2>2 DEF FileMove, AtFile, Idle, Over
  <2> QED  BY <2>2, <2>3 DEF FileMove, Rows
<1>5. PurgeIsComplete'
  <2> SUFFICES ASSUME NEW b \in Batch, batch[b] = "purged", NEW f \in File
               PROVE  /\ rec'[<<b, f>>] = "none"
                      /\ \A q \in Run : of[q] = b => contract'[<<q, f>>] # "tagged"
    BY DEF PurgeIsComplete, FileMove
  <2>1. /\ rec[<<b, f>>] = "none"
        /\ \A q \in Run : of[q] = b => contract[<<q, f>>] # "tagged"
    BY DEF PurgeIsComplete
  <2>2. <<b, f>> \in Batch \X File
    OBVIOUS
  <2>3. rec'[<<b, f>>] = "none"
    BY <1>1, <2>1, <2>2 DEF FileMove, Rows
  <2>4. ASSUME NEW q \in Run, of[q] = b PROVE contract'[<<q, f>>] # "tagged"
    <3>1. CASE <<q, f>> = <<r, cur[r]>>
      <4>1. rec[Own(r)] = "none"
        BY <2>1, <2>4, <3>1 DEF Own
      <4> QED  BY <1>1, <2>1, <2>4, <3>1, <4>1 DEF FileMove, Rows
    <3>2. CASE <<q, f>> # <<r, cur[r]>>
      BY <1>1, <2>1, <2>4, <3>2 DEF FileMove, Rows
    <3> QED  BY <3>1, <3>2
  <2> QED  BY <2>3, <2>4
<1> QED  BY <1>2, <1>3, <1>4, <1>5

\* Writing a batch's status, the run of which returns with it or not.
LEMMA SetBatchRows ==
    ASSUME Rows, NEW r \in Run, of[r] \in Batch, NEW s \in BatchStatus, SetBatch(r, s)
    PROVE  /\ batch' \in [Batch -> BatchStatus \cup {"none", "purged"}]
           /\ \A b \in Batch : b # of[r] => batch'[b] = batch[b]
           /\ batch'[of[r]] \in {batch[of[r]], s}
           /\ \A b \in Batch : batch[b] = "purged" <=> batch'[b] = "purged"
BY DEF Rows, SetBatch, Exists, BatchStatus

-----------------------------------------------------------------------------
(* The other steps of a run. *)

\* A run that returns after a word to its batch, or without one.
LEMMA ReturnKeeps ==
    ASSUME IInv, NEW r \in Run, pc[r] \notin Idle,
           \E p \in {"done", "lost"} : End(r, p), UNCHANGED <<rec, contract>>,
           \/ UNCHANGED batch
           \/ \E s \in BatchStatus : SetBatch(r, s)
    PROVE  IInv'
<1> USE DEF IInv
<1>1. of[r] \in Batch
  BY DEF Places
<1>2. /\ pc' \in [Run -> Point] /\ todo' \in [Run -> SUBSET File]
      /\ cur' \in [Run -> File \cup {NoFile}] /\ of' = of
      /\ Places'
      /\ pc'[r] \in Over
      /\ \A q \in Run : q # r => pc'[q] = pc[q]
  <2>1. PICK p \in {"done", "lost"} : End(r, p)
    OBVIOUS
  <2> QED  BY <2>1, ReturnPlaces DEF Over
<1>3. /\ batch' \in [Batch -> BatchStatus \cup {"none", "purged"}]
      /\ \A b \in Batch : b # of[r] => batch'[b] = batch[b]
      /\ \A b \in Batch : batch[b] = "purged" <=> batch'[b] = "purged"
  BY <1>1, SetBatchRows DEF Rows
<1>4. Rows'
  BY <1>2, <1>3 DEF Rows
<1>5. EndsWithRun'
  <2>1. ASSUME NEW b \in Batch, batch'[b] \in Ended, batch[b] \notin Ended,
               Sole(b)', NEW q \in Run, of'[q] = b
        PROVE  pc'[q] \in Over
    <3>1. b = of[r] /\ of'[r] = b
      BY <1>2, <1>3, <2>1
    <3>2. q = r
      BY <2>1, <3>1 DEF Sole
    <3> QED  BY <1>2, <3>2
  <2>2. \A q \in Run : pc[q] \in Over => pc'[q] \in Over
    BY <1>2
  <2>3. \A b \in Batch : batch'[b] \in Ended =>
           \/ batch[b] \in Ended
           \/ Sole(b)' => \A q \in Run : of'[q] = b => pc'[q] \in Over
    BY <2>1
  <2> QED  BY <1>2, <2>2, <2>3, EndsFrame
<1>6. PurgeIsComplete'
  BY <1>2, <1>3, PurgeFrame
<1> QED  BY <1>2, <1>4, <1>5, <1>6

\* Loading a batch keeps the invariant.
LEMMA LoadKeeps ==
    ASSUME IInv, NEW r \in Run, Load(r)
    PROVE  IInv'
<1> USE DEF IInv
<1>1. pc[r] \notin Idle /\ of[r] \in Batch
  BY DEF Load, Idle, Places
<1>2. CASE UNCHANGED batch /\ Return(r)
  BY <1>1, <1>2, ReturnKeeps DEF Load, Return
<1>3. CASE SetBatch(r, "in_progress") /\ Goto(r, "list") /\ UNCHANGED <<of, todo, cur, tally>>
  <2>1. /\ batch' \in [Batch -> BatchStatus \cup {"none", "purged"}]
        /\ \A b \in Batch : b # of[r] => batch'[b] = batch[b]
        /\ batch'[of[r]] \in {batch[of[r]], "in_progress"}
        /\ \A b \in Batch : batch[b] = "purged" <=> batch'[b] = "purged"
    BY <1>1, <1>3, SetBatchRows DEF BatchStatus
  <2>2. Rows'
    BY <1>3, <2>1 DEF Rows, Load, Goto, Point, Caught, FilePoint
  <2>3. Places'
    BY <1>1, <1>3 DEF Places, Load, Goto, AtFile, Idle, Rows
  <2>4. EndsWithRun'
    <3>1. \A b \in Batch : batch'[b] \in Ended => batch[b] \in Ended
      BY <1>1, <2>1 DEF Ended
    <3>2. \A q \in Run : pc[q] \in Over => pc'[q] \in Over
      BY <1>3 DEF Load, Goto, Rows, Over
    <3> QED  BY <1>3, <3>1, <3>2, EndsFrame
  <2>5. PurgeIsComplete'
    BY <1>3, <2>1, PurgeFrame DEF Load
  <2> QED  BY <2>2, <2>3, <2>4, <2>5
<1> QED  BY <1>2, <1>3 DEF Load

\* The steps of a run between the files.
LEMMA BetweenKeeps ==
    ASSUME IInv, NEW r \in Run, List(r) \/ Register(r) \/ Check(r) \/ Count(r)
    PROVE  IInv'
<1> USE DEF IInv
<1>1. /\ UNCHANGED <<batch, of, contract>>
      /\ pc[r] \in AtFile \cup {"list", "register", "next"}
  BY DEF List, Register, Check, Count, AtFile, Point, Caught, FilePoint, Idle
<1>2. of[r] \in Batch
  BY <1>1 DEF Places, AtFile, Idle
<1>3. /\ pc' \in [Run -> Point] /\ todo' \in [Run -> SUBSET File]
      /\ cur' \in [Run -> File \cup {NoFile}]
      /\ Places'
      /\ \A q \in Run : pc[q] \in Over => pc'[q] \in Over
  <2> USE <1>2 DEF Rows, Places, Goto, AtFile, Point, Caught, FilePoint, Idle, Over
  <2>1. CASE List(r)
    BY <2>1 DEF List
  <2>2. CASE Register(r)
    BY <2>2 DEF Register
  <2>3. CASE Check(r)
    <3>1. PICK f \in File :
             /\ cur' = [cur EXCEPT ![r] = f]
             /\ todo' = [todo EXCEPT ![r] = @ \ {f}]
             /\ pc' = [pc EXCEPT ![r] = "claim"] \/ pc' = [pc EXCEPT ![r] = "skip_id"]
      BY <2>3 DEF Check, First
    <3> QED  BY <1>1, <3>1, <2>3 DEF Check
  <2>4. CASE Count(r)
    BY <2>4 DEF Count
  <2> QED  BY <2>1, <2>2, <2>3, <2>4
<1>4. /\ rec' \in [Batch \X File -> RecordStatus \cup {"none"}]
      /\ \A b \in Batch, f \in File :
            batch[b] = "purged" => rec'[<<b, f>>] = rec[<<b, f>>]
  <2>1. CASE UNCHANGED rec
    BY <2>1 DEF Rows
  <2>2. CASE Register(r)
    <3>1. PICK f \in File :
             /\ batch[of[r]] # "purged"
             /\ rec' = [rec EXCEPT ![<<of[r], f>>] = IF @ = "none" THEN "discovered" ELSE @]
      BY <2>2 DEF Register, First, Registrable, Exists, Rows
    <3> QED  BY <1>2, <3>1 DEF Rows, RecordStatus
  <2> QED  BY <2>1, <2>2 DEF List, Check, Count
<1>5. Rows'
  BY <1>1, <1>3, <1>4 DEF Rows
<1>6. EndsWithRun'
  BY <1>1, <1>3, EndsFrame
<1>7. PurgeIsComplete'
  BY <1>1, <1>4, PurgeFrame
<1> QED  BY <1>3, <1>5, <1>6, <1>7

\* A batch ends when its run has done its last file.
LEMMA FinishKeeps ==
    ASSUME IInv, NEW r \in Run, Finish(r)
    PROVE  IInv'
<1> USE DEF IInv
<1>1. /\ pc[r] = "next" /\ pc' = [pc EXCEPT ![r] = "sync"]
      /\ UNCHANGED <<rec, contract, of, todo, cur>>
      /\ \E s \in BatchStatus : SetBatch(r, s)
  BY DEF Finish, Goto, BatchStatus
<1>2. of[r] \in Batch
  BY <1>1 DEF Places, Idle
<1>3. /\ batch' \in [Batch -> BatchStatus \cup {"none", "purged"}]
      /\ \A b \in Batch : b # of[r] => batch'[b] = batch[b]
      /\ \A b \in Batch : batch[b] = "purged" <=> batch'[b] = "purged"
  BY <1>1, <1>2, SetBatchRows
<1>4. Rows'
  BY <1>1, <1>3 DEF Rows, Point, Caught
<1>5. Places'
  BY <1>1, <1>2 DEF Rows, Places, AtFile, Idle
<1>6. EndsWithRun'
  <2>1. \A q \in Run : pc[q] \in Over => pc'[q] \in Over
    BY <1>1 DEF Rows, Over
  <2>2. \A b \in Batch : batch'[b] \in Ended =>
           \/ batch[b] \in Ended
           \/ Sole(b)' => \A q \in Run : of'[q] = b => pc'[q] \in Over
    BY <1>1, <1>3 DEF Sole, Rows, Over
  <2> QED  BY <1>1, <2>1, <2>2, EndsFrame
<1>7. PurgeIsComplete'
  BY <1>1, <1>3, PurgeFrame
<1> QED  BY <1>4, <1>5, <1>6, <1>7

\* A step of a run keeps the invariant.
LEMMA StepKeeps ==
    ASSUME IInv, NEW r \in Run, Step(r)
    PROVE  IInv'
<1>1. CASE Abort(r) \/ AbortLost(r) \/ Synced(r)
  BY <1>1, EndSteps, ReturnKeeps DEF BatchStatus
<1>2. CASE Finish(r)
  BY <1>2, FinishKeeps
<1>3. CASE List(r) \/ Register(r) \/ Check(r) \/ Count(r)
  BY <1>3, BetweenKeeps
<1>4. CASE Load(r)
  BY <1>4, LoadKeeps
<1>5. CASE \/ Skip(r) \/ Claim(r) \/ Download(r) \/ Compare(r) \/ Ingest(r)
           \/ Stage(r) \/ Link(r) \/ Flag(r) \/ Settle(r) \/ FileError(r)
  <2>1. FileMove(r)
    BY <1>5, FileSteps DEF IInv
  <2> QED  BY <2>1, FileMoveKeeps
<1> QED  BY <1>1, <1>2, <1>3, <1>4, <1>5 DEF Step

-----------------------------------------------------------------------------
(* The administrator, the worker and the server. *)

\* Creating a batch keeps the invariant.
LEMMA CreateKeeps ==
    ASSUME IInv, NEW b \in Batch, CreateBatch(b)
    PROVE  IInv'
<1> USE DEF IInv
<1>1. /\ batch[b] = "none"
      /\ batch' = [batch EXCEPT ![b] = "queued"]
      /\ UNCHANGED <<rec, contract, todo, cur>>
  BY DEF CreateBatch, First, run
<1>2. \/ UNCHANGED <<pc, of>>
      \/ \E r \in Run : /\ pc[r] = "idle"
                       /\ pc' = [pc EXCEPT ![r] = "load"] /\ of' = [of EXCEPT ![r] = b]
  BY DEF CreateBatch, First, NextRun, Goto, run
<1>3. Rows'
  BY <1>1, <1>2 DEF Rows, BatchStatus, Point, Caught, FilePoint
<1>4. Places'
  BY <1>1, <1>2 DEF Rows, Places, AtFile, Idle
<1>5. \A r \in Run : of[r] \in Batch => of'[r] = of[r]
  <2>1. NoBatch \notin Batch
    BY SerialAssumption DEF NoBatch
  <2> QED  BY <1>2, <2>1 DEF Rows, Places
<1>6. \A r \in Run : of'[r] # of[r] => of'[r] = b
  BY <1>2 DEF Rows
<1>7. \A r \in Run : pc[r] \in Over => pc'[r] \in Over
  BY <1>2 DEF Rows, Over
<1>8. EndsWithRun'
  BY <1>1, <1>5, <1>6, <1>7, EndsFrame DEF Ended, Rows
<1>9. PurgeIsComplete'
  BY <1>1, <1>6, PurgeFrame DEF Rows
<1> QED  BY <1>3, <1>4, <1>8, <1>9

\* Fetching a batch keeps the invariant.
LEMMA FetchKeeps ==
    ASSUME IInv, NEW r \in Run, NEW b \in Batch, Fetch(r, b)
    PROVE  IInv'
<1> USE DEF IInv
<1>1. /\ batch[b] = "queued" /\ pc[r] = "idle"
      /\ pc' = [pc EXCEPT ![r] = "load"] /\ of' = [of EXCEPT ![r] = b]
      /\ UNCHANGED <<batch, rec, contract, todo, cur>>
  BY DEF Fetch, First, NextRun, Goto
<1>2. Rows'
  BY <1>1 DEF Rows, Point, Caught, FilePoint
<1>3. Places'
  BY <1>1 DEF Rows, Places, AtFile, Idle
<1>4. \A q \in Run : of[q] \in Batch => of'[q] = of[q]
  BY <1>1, SerialAssumption DEF Places, NoBatch
<1>5. \A q \in Run : of'[q] # of[q] => of'[q] = b
  BY <1>1 DEF Rows
<1>6. \A q \in Run : pc[q] \in Over => pc'[q] \in Over
  BY <1>1 DEF Rows, Over
<1>7. EndsWithRun'
  BY <1>1, <1>4, <1>5, <1>6, EndsFrame DEF Ended
<1>8. PurgeIsComplete'
  BY <1>1, <1>5, PurgeFrame
<1> QED  BY <1>2, <1>3, <1>7, <1>8

\* A rollback keeps the invariant.
LEMMA RollbackKeeps ==
    ASSUME IInv, NEW b \in Batch, Rollback(b)
    PROVE  IInv'
<1> USE DEF IInv
<1>1. /\ batch[b] \in Ended /\ batch' = [batch EXCEPT ![b] = "rolled_back"]
      /\ \A x \in Run \X File : contract'[x] = "tagged" => contract[x] = "tagged"
      /\ UNCHANGED <<rec, pc, of, todo, cur>>
  BY DEF Rollback, Ended, run
<1>2. contract' \in [Run \X File -> ContractState]
  BY DEF Rollback, Rows, ContractState
<1>3. Rows'
  BY <1>1, <1>2 DEF Rows, BatchStatus
<1>4. Places'
  BY <1>1 DEF Places
<1>5. \A a \in Batch : batch'[a] \in Ended => batch[a] \in Ended
  BY <1>1 DEF Rows
<1>6. EndsWithRun'
  BY <1>1, <1>5, EndsFrame
<1>7. PurgeIsComplete'
  BY <1>1, PurgeFrame DEF Rows
<1> QED  BY <1>3, <1>4, <1>6, <1>7

\* The purge keeps the invariant.
LEMMA PurgeKeeps ==
    ASSUME IInv, Purge
    PROVE  IInv'
<1> USE DEF IInv
<1>1. /\ batch' = [b \in Batch |-> IF batch[b] = "none" THEN "none" ELSE "purged"]
      /\ rec' = [x \in Batch \X File |-> "none"]
      /\ contract' = [x \in Run \X File |->
                         IF contract[x] = "loose" THEN "loose" ELSE "none"]
      /\ UNCHANGED <<pc, of, todo, cur>>
  BY DEF Purge, run
<1>2. Rows'
  BY <1>1 DEF Rows, ContractState
<1>3. Places'
  BY <1>1 DEF Places
<1>4. EndsWithRun'
  BY <1>1 DEF EndsWithRun, Ended
<1>5. PurgeIsComplete'
  BY <1>1 DEF PurgeIsComplete
<1> QED  BY <1>2, <1>3, <1>4, <1>5

\* A crash keeps the invariant.
LEMMA CrashKeeps ==
    ASSUME IInv, Crash
    PROVE  IInv'
<1> USE DEF IInv
<1>1. /\ pc' = [r \in Run |-> IF pc[r] = "idle" THEN "idle" ELSE "done"]
      /\ UNCHANGED <<batch, rec, contract, of>>
  BY DEF Crash
<1>2. Rows'
  BY <1>1 DEF Rows, Crash, Point, Idle
<1>3. Places'
  BY <1>1 DEF Places, AtFile, Idle
<1>4. EndsWithRun'
  BY <1>1, EndsFrame DEF Over
<1>5. PurgeIsComplete'
  BY <1>1, PurgeFrame
<1> QED  BY <1>2, <1>3, <1>4, <1>5

\* The invariant is inductive.
LEMMA NextIInv == IInv /\ [Next]_vars => IInv'
<1> SUFFICES ASSUME IInv, [Next]_vars PROVE IInv'
  OBVIOUS
<1>1. CASE UNCHANGED vars
  BY <1>1 DEF vars, run, IInv, Rows, Places, EndsWithRun, Sole, PurgeIsComplete
<1>2. CASE Next
  BY <1>2, CreateKeeps, RollbackKeeps, StepKeeps, FetchKeeps, PurgeKeeps, CrashKeeps DEF Next
<1> QED  BY <1>1, <1>2

-----------------------------------------------------------------------------
(* What is rolled back stays so. *)

\* A batch that one run took, and that was rolled back, has no file at work.
LEMMA RolledBackIsLeft ==
    ASSUME IInv, NEW b \in Batch, batch[b] = "rolled_back", Alone(b)
    PROVE  \A r \in Run : of[r] = b => pc[r] \in Over
BY AloneIsSole DEF IInv, EndsWithRun, Ended

\* A step of a run leaves the batches of others, and the contracts of their runs.
LEMMA StepIsOwn ==
    ASSUME IInv, NEW r \in Run, Step(r)
    PROVE  /\ pc[r] \notin Idle
           /\ pc[r] = "sync" => /\ batch'[of[r]] \in {batch[of[r]], "failed"}
                               /\ UNCHANGED <<totals, rec, contract>>
           /\ \A b \in Batch : b # of[r] => batch'[b] = batch[b]
           /\ \A x \in Run \X File :
                 of[x[1]] # of[r] /\ contract'[x] = "tagged" => contract[x] = "tagged"
<1> USE DEF IInv
<1>0. CASE Abort(r) \/ AbortLost(r) \/ Synced(r)
  <2>1. /\ pc[r] \notin Idle /\ UNCHANGED <<totals, rec, contract>>
        /\ UNCHANGED batch \/ SetBatch(r, "failed")
    BY <1>0, EndSteps
  <2>2. of[r] \in Batch
    BY <2>1 DEF Places
  <2> QED  BY <2>1, <2>2, SetBatchRows DEF BatchStatus
<1>1. CASE Finish(r) \/ Load(r)
  BY <1>1 DEF Finish, Load, SetBatch, Rows, Idle
<1>2. CASE List(r) \/ Register(r) \/ Check(r) \/ Count(r)
  BY <1>2 DEF List, Register, Check, Count, Idle
<1>3. CASE \/ Skip(r) \/ Claim(r) \/ Download(r) \/ Compare(r) \/ Ingest(r)
           \/ Stage(r) \/ Link(r) \/ Flag(r) \/ Settle(r) \/ FileError(r)
  <2>1. FileMove(r)
    BY <1>3, FileSteps
  <2> QED  BY <2>1 DEF FileMove, Rows, AtFile, Idle
<1> QED  BY <1>0, <1>1, <1>2, <1>3 DEF Step

\* A batch that was rolled back stays so unless its run fails on its last
\* statement, and no contract of it comes back.
LEMMA NextHoldsRollback ==
    ASSUME IInv, Next, NEW b \in Batch, batch[b] = "rolled_back", Alone(b)
    PROVE  /\ \/ batch'[b] \in {"rolled_back", "purged"}
              \/ batch'[b] = "failed" /\ \E r \in Run : of[r] = b /\ pc[r] = "sync"
           /\ \A x \in Run \X File :
                 contract'[x] = "tagged" /\ of[x[1]] = b => contract[x] = "tagged"
<1>1. ASSUME NEW r \in Run, Step(r)
      PROVE  /\ \/ batch'[b] = batch[b]
                \/ batch'[b] = "failed" /\ of[r] = b /\ pc[r] = "sync"
             /\ \A x \in Run \X File :
                   contract'[x] = "tagged" /\ of[x[1]] = b => contract[x] = "tagged"
  <2>1. CASE of[r] = b
    <3>1. pc[r] = "sync"
      BY <1>1, <2>1, StepIsOwn, RolledBackIsLeft DEF Over, Idle
    <3> QED  BY <1>1, <2>1, <3>1, StepIsOwn
  <2>2. CASE of[r] # b
    BY <1>1, <2>2, StepIsOwn
  <2> QED  BY <2>1, <2>2
<1>2. CASE Crash \/ \E r \in Run, a \in Batch : Fetch(r, a)
  BY <1>2 DEF Crash, Fetch
<1>3. CASE Purge
  BY <1>3 DEF Purge
<1>4. ASSUME NEW a \in Batch, CreateBatch(a) \/ Rollback(a)
      PROVE  /\ batch'[b] = batch[b]
             /\ \A x \in Run \X File : contract'[x] = "tagged" => contract[x] = "tagged"
  BY <1>4 DEF CreateBatch, First, Rollback, IInv, Rows
<1> QED  BY <1>1, <1>2, <1>3, <1>4 DEF Next

-----------------------------------------------------------------------------
(* One live contract for a file.  The index keeps one active record of a     *)
(* file; while no batch was taken twice, a live contract has a record of its *)
(* run's batch that is active or has failed, since a run decides on a record *)
(* before it links a contract to it and meets each file once.                *)

Unique ==
    \A x, y \in Batch \X File : x[2] = y[2] /\ Active(x) /\ Active(y) => x = y

\* Before the link a run has no live contract for its file.
PreLink == {"skip_id", "claim", "download", "compare", "skip_hash", "ingest",
            "stage", "extract"}
Untagged ==
    \A r \in Run :
        /\ pc[r] \in {"idle", "load", "list", "register"} =>
              \A f \in File : contract[<<r, f>>] # "tagged"
        /\ \A f \in todo[r] : contract[<<r, f>>] # "tagged"
        /\ pc[r] \in AtFile => cur[r] \notin todo[r]
        /\ pc[r] \in PreLink => contract[<<r, cur[r]>>] # "tagged"

Tagged ==
    \A r \in Run, f \in File :
        contract[<<r, f>>] = "tagged" =>
            /\ of[r] \in Batch
            /\ Active(<<of[r], f>>) \/ rec[<<of[r], f>>] = "failed"
Fresh == \A r \in Run : pc[r] \in {"stage", "extract"} => rec[Own(r)] \notin Inactive
Live  == (\A b \in Batch : Sole(b)) => Tagged /\ Fresh

LInv == IInv /\ Unique /\ Untagged /\ Live

\* What a step on a file does to its record and its contract.
FileEffect(r) ==
    /\ \A y \in Batch \X File : y # Own(r) => rec'[y] = rec[y]
    /\ rec[Own(r)] = "none" => rec'[Own(r)] = "none"
    /\ \/ rec'[Own(r)] = rec[Own(r)]
       \/ rec'[Own(r)] \in Inactive /\ (pc[r] \in PreLink \/ rec'[Own(r)] = "failed")
       \/ rec'[Own(r)] \notin Inactive \cup {"none"} /\ ~Conflicts(Own(r))
    /\ pc'[r] \in {"stage", "extract"} =>
          \/ rec'[Own(r)] \notin Inactive
          \/ pc[r] = "stage" /\ rec' = rec
    /\ \A y \in Run \X File : y # <<r, cur[r]>> => contract'[y] = contract[y]
    /\ contract'[<<r, cur[r]>>] = "tagged" =>
          \/ contract[<<r, cur[r]>>] = "tagged"
          \/ pc[r] = "extract" /\ pc'[r] = "flag" /\ rec[Own(r)] # "none" /\ rec' = rec
    /\ pc'[r] \in PreLink => pc[r] \in PreLink
    /\ pc'[r] \in AtFile
    /\ \A q \in Run : q # r => pc'[q] = pc[q]

\* Each step on a file touches that file, as FileEffect says.
LEMMA FileEffects ==
    ASSUME IInv, NEW r \in Run,
           \/ Skip(r) \/ Claim(r) \/ Download(r) \/ Compare(r) \/ Ingest(r)
           \/ Stage(r) \/ Link(r) \/ Flag(r) \/ Settle(r) \/ FileError(r)
    PROVE  FileEffect(r)
<1> USE DEF IInv, AtFile, PreLink, Point, Idle, Caught, FilePoint, FileStep,
            FileKept, Inactive, Skipped
<1>0. Own(r) \in Batch \X File /\ <<r, cur[r]>> \in Run \X File
  BY FileSteps DEF Own, FileMove, Places
<1>1. CASE Skip(r)
  BY <1>0, <1>1 DEF Skip, SetRecord, Goto, FileEffect, Rows
<1>2. CASE Claim(r)
  BY <1>0, <1>2 DEF Claim, Enter, FileFails, SetRecord, Goto, FileEffect, Rows
<1>3. CASE Download(r)
  BY <1>0, <1>3 DEF Download, Goto, FileEffect, Rows
<1>4. CASE Compare(r)
  BY <1>0, <1>4 DEF Compare, Goto, FileEffect, Rows
<1>5. CASE Ingest(r)
  BY <1>0, <1>5 DEF Ingest, Enter, FileFails, SetRecord, Goto, FileEffect, Rows
<1>6. CASE Stage(r)
  BY <1>0, <1>6 DEF Stage, Goto, FileEffect, Rows
<1>7. CASE Link(r)
  BY <1>0, <1>7 DEF Link, Goto, FileEffect, Rows
<1>8. CASE Flag(r)
  BY <1>0, <1>8 DEF Flag, SetRecord, Goto, FileEffect, Rows
<1>9. CASE Settle(r)
  BY <1>0, <1>9 DEF Settle, FileFails, SetRecord, Goto, FileEffect, Rows
<1>10. CASE FileError(r)
  BY <1>0, <1>10 DEF FileError, FileFails, SetRecord, Goto, FileEffect, Rows
<1> QED  BY <1>1, <1>2, <1>3, <1>4, <1>5, <1>6, <1>7, <1>8, <1>9, <1>10

\* What every other step does, except the purge.
Quiet ==
    /\ \A r \in Run : of[r] \in Batch => of'[r] = of[r]
    /\ \/ rec' = rec
       \/ \E x \in Batch \X File :
             ~Conflicts(x) /\ rec[x] = "none" /\ rec' = [rec EXCEPT ![x] = "discovered"]
    /\ \A y \in Run \X File : contract'[y] = "tagged" => contract[y] = "tagged"
    /\ \A r \in Run :
          /\ pc'[r] \in {"idle", "load", "list", "register"} =>
                pc[r] \in {"idle", "load", "list", "register"}
          /\ todo'[r] \subseteq todo[r] \/ pc[r] \in {"list", "register"}
          /\ \/ pc'[r] \notin AtFile
             \/ pc'[r] = pc[r] /\ cur'[r] = cur[r] /\ todo'[r] = todo[r]
             \/ /\ pc'[r] \in {"claim", "skip_id"}
                /\ cur'[r] \in todo[r] /\ cur'[r] \notin todo'[r]

\* The steps between two files touch no import.
LEMMA BetweenIsQuiet ==
    ASSUME IInv, NEW r \in Run, List(r) \/ Register(r) \/ Check(r) \/ Count(r)
    PROVE  Quiet
<1> USE DEF IInv, Rows, AtFile, Point, Idle, Goto, Quiet
<1>1. CASE List(r)
  BY <1>1 DEF List
<1>2. CASE Register(r)
  <2>1. PICK f \in File :
           /\ f \in todo[r]
           /\ Registrable(<<of[r], f>>)
           /\ rec' = [rec EXCEPT ![<<of[r], f>>] = IF @ = "none" THEN "discovered" ELSE @]
           /\ IF todo[r] = {f}
              THEN todo' = [todo EXCEPT ![r] = File] /\ pc' = [pc EXCEPT ![r] = "next"]
              ELSE todo' = [todo EXCEPT ![r] = @ \ {f}] /\ UNCHANGED pc
    BY <1>2 DEF Register, First
  <2>2. pc[r] = "register" /\ UNCHANGED <<of, contract, cur>>
    BY <1>2 DEF Register
  <2>3. <<of[r], f>> \in Batch \X File
    BY <2>2 DEF Places
  <2>4. \/ rec' = rec
        \/ \E x \in Batch \X File :
             ~Conflicts(x) /\ rec[x] = "none" /\ rec' = [rec EXCEPT ![x] = "discovered"]
    <3>1. CASE rec[<<of[r], f>>] = "none"
      BY <2>1, <2>3, <3>1 DEF Registrable
    <3>2. CASE rec[<<of[r], f>>] # "none"
      BY <2>1, <2>3, <3>2
    <3> QED  BY <3>1, <3>2
  <2>5. ASSUME NEW q \in Run
        PROVE  /\ pc'[q] \in {pc[q], "next"}
               /\ todo'[q] \subseteq todo[q] \/ pc[q] \in {"list", "register"}
               /\ q # r => pc'[q] = pc[q] /\ todo'[q] = todo[q]
    BY <2>1, <2>2
  <2>6. pc'[r] \notin AtFile
    BY <2>1, <2>2
  <2> QED  BY <2>2, <2>4, <2>5, <2>6
<1>3. CASE Check(r)
  <2>1. PICK f \in File :
           /\ f \in todo[r]
           /\ cur' = [cur EXCEPT ![r] = f]
           /\ todo' = [todo EXCEPT ![r] = @ \ {f}]
           /\ pc' = [pc EXCEPT ![r] = "claim"] \/ pc' = [pc EXCEPT ![r] = "skip_id"]
    BY <1>3 DEF Check, First
  <2> QED  BY <2>1, <1>3 DEF Check
<1>4. CASE Count(r)
  BY <1>4 DEF Count
<1> QED  BY <1>1, <1>2, <1>3, <1>4

\* Creating, loading, ending and crashing touch no import.
LEMMA OthersAreQuiet ==
    ASSUME IInv,
           \/ \E b \in Batch : CreateBatch(b) \/ Rollback(b)
           \/ Crash
           \/ \E r \in Run : \/ Load(r) \/ Abort(r) \/ AbortLost(r)
                             \/ Finish(r) \/ Synced(r)
                             \/ \E b \in Batch : Fetch(r, b)
    PROVE  Quiet
<1> USE DEF IInv, Rows, AtFile, Point, Idle, Goto, Quiet
<1>1. ASSUME NEW b \in Batch, CreateBatch(b) PROVE Quiet
  <2>1. UNCHANGED <<rec, contract, todo, cur>>
    BY <1>1 DEF CreateBatch, run
  <2>2. \/ UNCHANGED <<pc, of>>
        \/ \E r \in Run : /\ pc[r] = "idle"
                         /\ pc' = [pc EXCEPT ![r] = "load"] /\ of' = [of EXCEPT ![r] = b]
    BY <1>1 DEF CreateBatch, First, NextRun, run
  <2> QED  BY <2>1, <2>2, SerialAssumption DEF Places, NoBatch
<1>2. ASSUME NEW b \in Batch, Rollback(b) PROVE Quiet
  BY <1>2 DEF Rollback, run
<1>3. CASE Crash
  BY <1>3 DEF Crash
<1>4. ASSUME NEW r \in Run, Load(r) \/ Finish(r) PROVE Quiet
  BY <1>4 DEF Load, Finish, Return, End
<1>6. ASSUME NEW r \in Run, Abort(r) \/ AbortLost(r) \/ Synced(r) PROVE Quiet
  BY <1>6, EndSteps DEF End
<1>5. ASSUME NEW r \in Run, NEW b \in Batch, Fetch(r, b) PROVE Quiet
  BY <1>5, SerialAssumption DEF Fetch, First, NextRun, Places, NoBatch
<1> QED  BY <1>1, <1>2, <1>3, <1>4, <1>5, <1>6

\* One record at most of a file is active: who becomes active found no other.
LEMMA UniqueFrame ==
    ASSUME Unique, NEW x \in Batch \X File,
           \A y \in Batch \X File : y # x => rec'[y] = rec[y],
           Active(x)' => Active(x) \/ ~Conflicts(x)
    PROVE  Unique'
BY DEF Unique, Active, Conflicts

\* A step that touches no import keeps the imports single.
LEMMA QuietKeeps ==
    ASSUME LInv, Quiet, IInv'
    PROVE  (Unique /\ Untagged /\ Live)'
<1> USE DEF LInv, IInv
<1>1. Unique'
  <2>1. CASE rec' = rec
    BY <2>1 DEF Unique, Active
  <2>2. ASSUME NEW x \in Batch \X File, ~Conflicts(x),
               rec' = [rec EXCEPT ![x] = "discovered"]
        PROVE  Unique'
    BY <2>2, UniqueFrame DEF Rows
  <2> QED  BY <2>1, <2>2 DEF Quiet
<1>2. \A r \in Run : \A f \in File : contract'[<<r, f>>] = "tagged" => contract[<<r, f>>] = "tagged"
  BY DEF Quiet
<1>3. Untagged'
  <2> SUFFICES ASSUME NEW r \in Run
               PROVE  /\ pc'[r] \in {"idle", "load", "list", "register"} =>
                            \A f \in File : contract'[<<r, f>>] # "tagged"
                      /\ \A f \in todo'[r] : contract'[<<r, f>>] # "tagged"
                      /\ pc'[r] \in AtFile => cur'[r] \notin todo'[r]
                      /\ pc'[r] \in PreLink => contract'[<<r, cur'[r]>>] # "tagged"
    BY DEF Untagged
  <2>1. todo[r] \subseteq File /\ todo'[r] \subseteq File
    BY DEF Rows
  <2>2. /\ pc[r] \in {"list", "register"} => \A f \in File : contract'[<<r, f>>] # "tagged"
        /\ \A f \in todo[r] : contract'[<<r, f>>] # "tagged"
        /\ pc[r] \in AtFile => cur[r] \in File /\ cur[r] \notin todo[r]
        /\ pc[r] \in PreLink /\ cur[r] \in File => contract'[<<r, cur[r]>>] # "tagged"
    BY <1>2, <2>1 DEF Untagged, Places
  <2>3. /\ pc'[r] \in {"idle", "load", "list", "register"} =>
              pc[r] \in {"idle", "load", "list", "register"}
        /\ todo'[r] \subseteq todo[r] \/ pc[r] \in {"list", "register"}
        /\ \/ pc'[r] \notin AtFile
           \/ pc'[r] = pc[r] /\ cur'[r] = cur[r] /\ todo'[r] = todo[r]
           \/ /\ pc'[r] \in {"claim", "skip_id"}
              /\ cur'[r] \in todo[r] /\ cur'[r] \notin todo'[r]
    BY DEF Quiet
  <2>4. PreLink \subseteq AtFile
    BY DEF PreLink, AtFile, Point, Caught, FilePoint, Idle
  <2>5. pc'[r] \in {"idle", "load", "list", "register"} =>
            \A f \in File : contract'[<<r, f>>] # "tagged"
    BY <1>2, <2>3 DEF Untagged
  <2>6. \A f \in todo'[r] : contract'[<<r, f>>] # "tagged"
    BY <2>1, <2>2, <2>3
  <2>7. pc'[r] \in AtFile => cur'[r] \notin todo'[r]
    BY <2>2, <2>3
  <2>8. pc'[r] \in PreLink => contract'[<<r, cur'[r]>>] # "tagged"
    BY <2>2, <2>3, <2>4
  <2> QED  BY <2>5, <2>6, <2>7, <2>8
<1>4. Live'
  <2> SUFFICES ASSUME (\A b \in Batch : Sole(b))'
               PROVE  (Tagged /\ Fresh)'
    BY DEF Live
  <2>1. \A b \in Batch : Sole(b)
    BY DEF Sole, Quiet
  <2>2. Tagged /\ Fresh
    BY <2>1 DEF Live
  <2>3. \A x \in Batch \X File : rec[x] \notin Inactive => rec'[x] \notin Inactive
    BY DEF Quiet, Rows, Inactive, Skipped
  <2>4. \A x \in Batch \X File : rec[x] # "none" => rec'[x] = rec[x]
    BY DEF Quiet, Rows
  <2>5. Tagged'
    <3> SUFFICES ASSUME NEW r \in Run, NEW f \in File, contract'[<<r, f>>] = "tagged"
                 PROVE  /\ of'[r] \in Batch
                        /\ \/ rec'[<<of'[r], f>>] \notin Inactive \cup {"none"}
                           \/ rec'[<<of'[r], f>>] = "failed"
      BY DEF Tagged, Active
    <3>1. /\ of[r] \in Batch
          /\ Active(<<of[r], f>>) \/ rec[<<of[r], f>>] = "failed"
      BY <1>2, <2>2 DEF Tagged
    <3>2. of'[r] = of[r]
      BY <3>1 DEF Quiet
    <3> QED  BY <2>4, <3>1, <3>2 DEF Active
  <2>6. Fresh'
    <3> SUFFICES ASSUME NEW r \in Run, pc'[r] \in {"stage", "extract"}
                 PROVE  rec'[<<of'[r], cur'[r]>>] \notin Inactive
      BY DEF Fresh, Own
    <3>1. pc[r] = pc'[r] /\ cur'[r] = cur[r]
      BY DEF Quiet, AtFile, Point, Caught, FilePoint, Idle
    <3>2. of[r] \in Batch /\ cur[r] \in File
      BY <3>1 DEF Places, AtFile, Point, Caught, FilePoint, Idle
    <3>3. of'[r] = of[r]
      BY <3>2 DEF Quiet
    <3>4. rec[<<of[r], cur[r]>>] \notin Inactive
      BY <2>2, <3>1 DEF Fresh, Own
    <3> QED  BY <2>3, <3>1, <3>2, <3>3, <3>4
  <2> QED  BY <2>5, <2>6
<1> QED  BY <1>1, <1>3, <1>4

\* The purge keeps the imports single.
LEMMA PurgeKeepsLive ==
    ASSUME LInv, Purge
    PROVE  (Unique /\ Untagged /\ Live)'
<1>1. /\ \A y \in Run \X File : contract'[y] # "tagged"
      /\ \A x \in Batch \X File : rec'[x] = "none"
      /\ UNCHANGED <<pc, of, todo, cur>>
  BY DEF Purge, run
<1>2. /\ \A r \in Run : todo[r] \subseteq File
      /\ \A r \in Run : pc[r] \in AtFile => cur[r] \in File /\ of[r] \in Batch
      /\ PreLink \subseteq AtFile /\ {"stage", "extract"} \subseteq AtFile
  BY DEF LInv, IInv, Rows, Places, AtFile, PreLink, Point, Caught, FilePoint, Idle
<1>3. Unique'
  BY <1>1 DEF Unique, Active
<1>4. Untagged'
  BY <1>1, <1>2 DEF Untagged, LInv
<1>5. Tagged'
  BY <1>1 DEF Tagged
<1>6. Fresh'
  BY <1>1, <1>2 DEF Fresh, Own, Inactive, Skipped
<1> QED  BY <1>3, <1>4, <1>5, <1>6 DEF Live

\* The steps on a file: a live contract's record is active, so no other of the
\* file is, and its run has passed the link.
LEMMA FileKeepsLive ==
    ASSUME LInv, IInv', NEW r \in Run, FileMove(r), FileEffect(r)
    PROVE  (Unique /\ Untagged /\ Live)'
<1> USE DEF LInv, IInv
<1>0. /\ of[r] \in Batch /\ cur[r] \in File
      /\ Own(r) \in Batch \X File /\ <<r, cur[r]>> \in Run \X File
      /\ pc[r] \in AtFile
      /\ UNCHANGED <<of, todo, cur>>
  BY DEF FileMove, Own, Places, AtFile
<1>1. Unique'
  <2>1. Active(Own(r))' => Active(Own(r)) \/ ~Conflicts(Own(r))
    BY <1>0 DEF FileEffect, Active, Own
  <2> QED  BY <1>0, <2>1, UniqueFrame DEF FileEffect, Own
<1>2. \A q \in Run, f \in File :
         contract'[<<q, f>>] = "tagged" /\ contract[<<q, f>>] # "tagged" =>
            /\ q = r /\ f = cur[r] /\ pc[r] = "extract" /\ pc'[r] = "flag"
            /\ rec[Own(r)] # "none" /\ rec' = rec
  <2> SUFFICES ASSUME NEW q \in Run, NEW f \in File,
                      contract'[<<q, f>>] = "tagged", contract[<<q, f>>] # "tagged"
               PROVE  /\ q = r /\ f = cur[r] /\ pc[r] = "extract" /\ pc'[r] = "flag"
                      /\ rec[Own(r)] # "none" /\ rec' = rec
    OBVIOUS
  <2>1. <<q, f>> = <<r, cur[r]>>
    BY DEF FileEffect
  <2>2. q = r /\ f = cur[r]
    BY <2>1
  <2> QED  BY <2>2 DEF FileEffect
<1>3. Untagged'
  <2> SUFFICES ASSUME NEW q \in Run
               PROVE  /\ pc'[q] \in {"idle", "load", "list", "register"} =>
                            \A f \in File : contract'[<<q, f>>] # "tagged"
                      /\ \A f \in todo[q] : contract'[<<q, f>>] # "tagged"
                      /\ pc'[q] \in AtFile => cur[q] \notin todo[q]
                      /\ pc'[q] \in PreLink => contract'[<<q, cur[q]>>] # "tagged"
    BY <1>0 DEF Untagged
  <2>1. /\ todo[q] \subseteq File /\ pc[r] \notin {"idle", "load", "list", "register"}
        /\ pc'[r] \notin {"idle", "load", "list", "register"}
        /\ "flag" \notin PreLink /\ PreLink \subseteq AtFile
    BY <1>0 DEF Rows, AtFile, Point, Caught, FilePoint, Idle, PreLink, FileEffect
  <2>2. CASE q = r
    <3>1. \A f \in todo[q] : contract'[<<q, f>>] # "tagged"
      BY <1>0, <1>2, <2>1, <2>2 DEF Untagged
    <3>2. cur[q] \notin todo[q]
      BY <1>0, <2>2 DEF Untagged
    <3>3. pc'[q] \in PreLink => contract'[<<q, cur[q]>>] # "tagged"
      BY <1>0, <1>2, <2>1, <2>2 DEF Untagged, FileEffect
    <3> QED  BY <2>1, <2>2, <3>1, <3>2, <3>3
  <2>3. CASE q # r
    <3>1. pc'[q] = pc[q]
      BY <2>3 DEF FileEffect
    <3>2. \A f \in File : contract'[<<q, f>>] = "tagged" => contract[<<q, f>>] = "tagged"
      BY <1>2, <2>3
    <3>3. pc[q] \in AtFile => cur[q] \in File
      BY DEF Places
    <3> QED  BY <2>1, <3>1, <3>2, <3>3 DEF Untagged
  <2> QED  BY <2>2, <2>3
<1>4. Live'
  <2> SUFFICES ASSUME (\A b \in Batch : Sole(b))'
               PROVE  (Tagged /\ Fresh)'
    BY DEF Live
  <2>1. \A b \in Batch : Sole(b)
    BY <1>0 DEF Sole
  <2>2. Tagged /\ Fresh
    BY <2>1 DEF Live
  <2>3. \A q \in Run : of[q] = of[r] => q = r
    BY <1>0, <2>1 DEF Sole
  <2>4. Tagged'
    <3> SUFFICES ASSUME NEW q \in Run, NEW f \in File, contract'[<<q, f>>] = "tagged"
                 PROVE  /\ of[q] \in Batch
                        /\ \/ rec'[<<of[q], f>>] \notin Inactive \cup {"none"}
                           \/ rec'[<<of[q], f>>] = "failed"
      BY <1>0 DEF Tagged, Active
    <3>1. CASE contract[<<q, f>>] # "tagged"
      <4>1. q = r /\ f = cur[r] /\ pc[r] = "extract" /\ rec[Own(r)] # "none" /\ rec' = rec
        BY <1>2, <3>1
      <4>2. rec[Own(r)] \notin Inactive
        BY <2>2, <4>1 DEF Fresh
      <4> QED  BY <1>0, <4>1, <4>2 DEF Active, Own
    <3>2. CASE contract[<<q, f>>] = "tagged"
      <4>1. /\ of[q] \in Batch /\ <<of[q], f>> \in Batch \X File
            /\ Active(<<of[q], f>>) \/ rec[<<of[q], f>>] = "failed"
        BY <2>2, <3>2 DEF Tagged
      <4>2. CASE <<of[q], f>> = Own(r)
        <5>1. q = r /\ f = cur[r]
          BY <2>3, <4>2 DEF Own
        <5>2. pc[r] \notin PreLink
          BY <3>2, <5>1 DEF Untagged
        <5> QED  BY <4>1, <4>2, <5>2 DEF FileEffect, Active
      <4>3. CASE <<of[q], f>> # Own(r)
        BY <4>1, <4>3 DEF FileEffect, Active
      <4> QED  BY <4>1, <4>2, <4>3
    <3> QED  BY <3>1, <3>2
  <2>5. Fresh'
    <3> SUFFICES ASSUME NEW q \in Run, pc'[q] \in {"stage", "extract"}
                 PROVE  rec'[Own(q)] \notin Inactive
      BY <1>0 DEF Fresh, Own
    <3>1. CASE q = r
      BY <2>2, <3>1 DEF FileEffect, Fresh
    <3>2. CASE q # r
      <4>1. pc[q] = pc'[q] /\ of[q] \in Batch /\ cur[q] \in File
        BY <3>2 DEF FileEffect, Places, AtFile, Point, Caught, FilePoint, Idle
      <4>2. Own(q) \in Batch \X File /\ Own(q) # Own(r)
        BY <2>3, <3>2, <4>1 DEF Own
      <4> QED  BY <2>2, <4>1, <4>2 DEF FileEffect, Fresh
    <3> QED  BY <3>1, <3>2
  <2> QED  BY <2>4, <2>5
<1> QED  BY <1>1, <1>3, <1>4

\* The invariant of live imports holds at the start.
LEMMA InitLInv == Init => LInv
<1> SUFFICES ASSUME Init PROVE LInv
  OBVIOUS
<1>1. IInv
  BY InitIInv
<1>2. Unique
  BY DEF Init, Unique, Active
<1>3. Untagged
  BY DEF Init, Untagged, AtFile, PreLink, Idle
<1>4. Live
  BY DEF Init, Live, Tagged, Fresh
<1> QED  BY <1>1, <1>2, <1>3, <1>4 DEF LInv

\* The invariant of live imports is inductive.
LEMMA NextLInv == LInv /\ [Next]_vars => LInv'
<1> SUFFICES ASSUME LInv, [Next]_vars PROVE LInv'
  OBVIOUS
<1>0. IInv'
  BY NextIInv DEF LInv
<1>1. CASE UNCHANGED vars
  BY <1>0, <1>1 DEF vars, run, LInv, Unique, Untagged, Live, Tagged, Fresh, Sole, Active, Own
<1>2. CASE Purge
  BY <1>0, <1>2, PurgeKeepsLive DEF LInv
<1>3. CASE \/ \E b \in Batch : CreateBatch(b) \/ Rollback(b)
           \/ Crash
           \/ \E r \in Run : \E b \in Batch : Fetch(r, b)
  <2>1. Quiet
    BY <1>3, OthersAreQuiet DEF LInv
  <2> QED  BY <1>0, <2>1, QuietKeeps DEF LInv
<1>4. ASSUME NEW r \in Run, Step(r) PROVE LInv'
  <2>1. CASE Load(r) \/ Abort(r) \/ AbortLost(r) \/ Finish(r) \/ Synced(r)
    <3>1. Quiet
      BY <2>1, OthersAreQuiet DEF LInv
    <3> QED  BY <1>0, <3>1, QuietKeeps DEF LInv
  <2>2. CASE List(r) \/ Register(r) \/ Check(r) \/ Count(r)
    <3>1. Quiet
      BY <2>2, BetweenIsQuiet DEF LInv
    <3> QED  BY <1>0, <3>1, QuietKeeps DEF LInv
  <2>3. CASE \/ Skip(r) \/ Claim(r) \/ Download(r) \/ Compare(r) \/ Ingest(r)
             \/ Stage(r) \/ Link(r) \/ Flag(r) \/ Settle(r) \/ FileError(r)
    <3>1. FileMove(r) /\ FileEffect(r)
      BY <2>3, FileSteps, FileEffects DEF LInv, IInv
    <3> QED  BY <1>0, <3>1, FileKeepsLive DEF LInv
  <2> QED  BY <1>4, <2>1, <2>2, <2>3 DEF Step
<1> QED  BY <1>1, <1>2, <1>3, <1>4 DEF Next

\* A set whose members are all the same has one at most.
LEMMA FewAreOne ==
    ASSUME NEW S, \A q, r \in S : q = r
    PROVE  Cardinality(S) <= 1
<1>1. CASE S = {}
  <2>1. Cardinality(S) = 0
    BY <1>1, FS_EmptySet, Zenon
  <2> QED  BY <2>1
<1>2. CASE S # {}
  <2>1. PICK r \in S : TRUE
    BY <1>2
  <2>2. S = {r}
    BY <2>1
  <2>3. Cardinality(S) = 1
    BY <2>2, FS_Singleton, Zenon
  <2> QED  BY <2>3
<1> QED  BY <1>1, <1>2

\* The invariant gives the property.
LEMMA LiveImports == LInv => OneLiveImport
<1> SUFFICES ASSUME LInv, \A b \in Batch : Alone(b), NEW f \in File
             PROVE  Cardinality({r \in Run : /\ contract[<<r, f>>] = "tagged"
                                             /\ rec[<<of[r], f>>] # "failed"}) <= 1
  BY DEF OneLiveImport
<1> DEFINE S == {r \in Run : /\ contract[<<r, f>>] = "tagged"
                             /\ rec[<<of[r], f>>] # "failed"}
<1>1. \A b \in Batch : Sole(b)
  BY AloneIsSole
<1>2. Tagged
  BY <1>1 DEF LInv, Live
<1>3. ASSUME NEW q \in S, NEW r \in S PROVE q = r
  <2>1. /\ of[q] \in Batch /\ Active(<<of[q], f>>)
        /\ of[r] \in Batch /\ Active(<<of[r], f>>)
    BY <1>2 DEF Tagged
  <2>2. <<of[q], f>> = <<of[r], f>>
    BY <2>1 DEF LInv, Unique
  <2> QED  BY <1>1, <2>1, <2>2 DEF Sole
<1>4. Cardinality(S) <= 1
  BY <1>3, FewAreOne
<1> QED  BY <1>4

-----------------------------------------------------------------------------
(* The totals.  While one run works on a batch, its tally is the count of    *)
(* the batch's records by status: a file that is still to be done, or being  *)
(* done, has a record of a status that no callback counts.                   *)

Counted(o) == IF o = "imported" THEN {"imported"}
              ELSE IF o = "review" THEN {"needs_review"}
              ELSE IF o = "failed" THEN {"failed"}
              ELSE Skipped
AtWork == {"discovered", "downloading", "ingesting", "flagged_logical_duplicate"}

Books(r, b) ==
    /\ \A o \in Outcome : tally[r][o] = With(b, Counted(o))
    /\ pc[r] # "count" => totals[b] = tally[r]
    /\ pc[r] \in {"load", "list"} => \A f \in File : rec[<<b, f>>] = "none"
    /\ pc[r] = "register" => \A f \in File :
          rec[<<b, f>>] = IF f \in todo[r] THEN "none" ELSE "discovered"
    /\ pc[r] \in AtFile \cup {"next"} => \A f \in todo[r] : rec[<<b, f>>] \in AtWork
    /\ pc[r] \in AtFile \ {"count"} => rec[<<b, cur[r]>>] \in AtWork
Working(r, b) ==
    of[r] = b /\ pc[r] \notin Idle /\ Sole(b) /\ batch[b] # "purged"

Numbers ==
    /\ totals \in [Batch -> [Outcome -> Nat]]
    /\ tally \in [Run -> [Outcome -> Nat]]
\* A batch nobody took has no records, and a run without a batch no tally.
Untouched ==
    /\ \A b \in Batch : (\A r \in Run : of[r] # b) =>
          totals[b] = Nothing /\ \A f \in File : rec[<<b, f>>] = "none"
    /\ \A r \in Run : pc[r] = "idle" => tally[r] = Nothing
    /\ \A r \in Run : of[r] \in Batch => batch[of[r]] # "none"
BooksKept == \A r \in Run, b \in Batch : Working(r, b) => Books(r, b)
Totalled ==
    \A b \in Batch :
        batch[b] \in {"completed", "completed_with_errors"} /\ Sole(b) =>
            /\ \A o \in Outcome : totals[b][o] = With(b, Counted(o))
            /\ (totals[b]["failed"] > 0) = (batch[b] = "completed_with_errors")

TInv == LInv /\ Numbers /\ Untouched /\ BooksKept /\ Totalled

\* The number of records in a set of states changes with the records only.
LEMMA WithSame ==
    ASSUME NEW b, NEW S,
           \A f \in File : rec'[<<b, f>>] \in S <=> rec[<<b, f>>] \in S
    PROVE  With(b, S)' = With(b, S)
<1>1. {f \in File : rec'[<<b, f>>] \in S} = {f \in File : rec[<<b, f>>] \in S}
  OBVIOUS
<1> QED  BY <1>1 DEF With

\* One more record of a status is one more.
LEMMA WithMore ==
    ASSUME NEW b, NEW S, NEW g \in File,
           \A f \in File \ {g} : rec'[<<b, f>>] \in S <=> rec[<<b, f>>] \in S,
           rec[<<b, g>>] \notin S, rec'[<<b, g>>] \in S
    PROVE  With(b, S)' = With(b, S) + 1
<1> DEFINE A == {f \in File : rec[<<b, f>>] \in S}
<1>1. {f \in File : rec'[<<b, f>>] \in S} = A \cup {g}
  OBVIOUS
<1>2. IsFiniteSet(A) /\ g \notin A
  BY FS_Subset, FileAssumption
<1>3. Cardinality(A \cup {g}) = Cardinality(A) + 1
  BY <1>2, FS_AddElement, Zenon
<1> QED  BY <1>1, <1>3 DEF With

\* The number of records is a number, and zero when there is none.
LEMMA WithNat ==
    ASSUME NEW b, NEW S
    PROVE  /\ With(b, S) \in Nat
           /\ (\A f \in File : rec[<<b, f>>] \notin S) => With(b, S) = 0
<1> DEFINE A == {f \in File : rec[<<b, f>>] \in S}
<1>1. IsFiniteSet(A)
  BY FS_Subset, FileAssumption
<1>2. Cardinality(A) \in Nat /\ (A = {} => Cardinality(A) = 0)
  BY <1>1, FS_CardinalityType, FS_EmptySet, Zenon
<1>3. With(b, S) = Cardinality(A)
  BY DEF With
<1>4. (\A f \in File : rec[<<b, f>>] \notin S) => A = {}
  OBVIOUS
<1> QED  BY <1>2, <1>3, <1>4

\* What a step on a file does to the tally: it counts the record as it leaves.
FileTally(r) ==
    /\ UNCHANGED totals /\ pc[r] # "count"
    /\ \/ /\ pc'[r] # "count" /\ UNCHANGED tally
          /\ rec' = rec \/ \E s \in AtWork : SetRecord(r, s)
       \/ /\ pc'[r] = "count"
          /\ \E o \in Outcome : Bump(r, o) /\ \E s \in Counted(o) : SetRecord(r, s)

\* Each step on a file counts that file once, as FileTally says.
LEMMA FileTallies ==
    ASSUME IInv, NEW r \in Run,
           \/ Skip(r) \/ Claim(r) \/ Download(r) \/ Compare(r) \/ Ingest(r)
           \/ Stage(r) \/ Link(r) \/ Flag(r) \/ Settle(r) \/ FileError(r)
    PROVE  FileTally(r)
<1> USE DEF IInv, FileStep, FileKept, FileTally, AtWork, Counted, Outcome, Skipped, Goto
<1>0. pc \in [Run -> Point]
  BY DEF Rows
<1>1. ASSUME FileFails(r)
      PROVE  /\ pc'[r] = "count" /\ Bump(r, "failed") /\ SetRecord(r, "failed")
  BY <1>0, <1>1 DEF FileFails
<1>2. CASE Skip(r)
  BY <1>0, <1>2 DEF Skip
<1>3. CASE Claim(r)
  BY <1>0, <1>1, <1>3 DEF Claim, Enter
<1>4. CASE Download(r)
  BY <1>0, <1>4 DEF Download
<1>5. CASE Compare(r)
  BY <1>0, <1>5 DEF Compare
<1>6. CASE Ingest(r)
  BY <1>0, <1>1, <1>6 DEF Ingest, Enter
<1>7. CASE Stage(r)
  BY <1>0, <1>7 DEF Stage
<1>8. CASE Link(r)
  BY <1>0, <1>8 DEF Link
<1>9. CASE Flag(r)
  BY <1>0, <1>9 DEF Flag
<1>10. CASE Settle(r)
  BY <1>0, <1>1, <1>10 DEF Settle
<1>11. CASE FileError(r)
  BY <1>0, <1>1, <1>11 DEF FileError, FilePoint
<1> QED  BY <1>2, <1>3, <1>4, <1>5, <1>6, <1>7, <1>8, <1>9, <1>10, <1>11

\* What no other run, and nobody else, does to a batch that one run works on.
LEMMA BooksFrame ==
    ASSUME NEW r \in Run, NEW b \in Batch, Books(r, b),
           pc'[r] = pc[r], todo'[r] = todo[r], cur'[r] = cur[r],
           todo[r] \subseteq File, pc[r] \in AtFile => cur[r] \in File,
           tally'[r] = tally[r], totals'[b] = totals[b],
           \A f \in File : rec'[<<b, f>>] = rec[<<b, f>>]
    PROVE  Books(r, b)'
<1>1. \A o \in Outcome : With(b, Counted(o))' = With(b, Counted(o))
  BY WithSame DEF Counted
<1> QED  BY <1>1 DEF Books

\* The run's own steps on a file.
LEMMA FileBooks ==
    ASSUME IInv, Untagged, Numbers, NEW r \in Run, NEW b \in Batch, of[r] = b,
           FileMove(r), FileTally(r), Books(r, b)
    PROVE  Books(r, b)'
<1> DEFINE g == cur[r]
<1>1. /\ pc[r] \in AtFile \ {"count"} /\ pc'[r] \in AtFile
      /\ g \in File /\ g \notin todo[r] /\ todo[r] \subseteq File
      /\ Own(r) = <<b, g>> /\ <<b, g>> \in Batch \X File
      /\ UNCHANGED <<todo, cur, totals>>
  BY DEF FileMove, FileTally, IInv, Places, Rows, Untagged, Own
<1>2. rec[<<b, g>>] \in AtWork /\ rec[<<b, g>>] # "none"
  BY <1>1 DEF Books, AtWork
<1>3. \A f \in File \ {g} : rec'[<<b, f>>] = rec[<<b, f>>]
  BY <1>1 DEF FileMove, IInv, Rows
<1>4. \A s \in RecordStatus : SetRecord(r, s) => rec'[<<b, g>>] = s
  BY <1>1, <1>2 DEF SetRecord, IInv, Rows
<1>5. \A f \in todo[r] : rec'[<<b, f>>] \in AtWork
  BY <1>1, <1>3 DEF Books
<1>6. /\ \A o \in Outcome : AtWork \cap Counted(o) = {} /\ Counted(o) \subseteq RecordStatus
      /\ AtWork \subseteq RecordStatus
      /\ \A o, o2 \in Outcome : o # o2 => Counted(o) \cap Counted(o2) = {}
  BY DEF AtWork, Counted, Outcome, Skipped, RecordStatus
<1>7. CASE /\ pc'[r] # "count" /\ UNCHANGED tally
           /\ rec' = rec \/ \E s \in AtWork : SetRecord(r, s)
  <2>1. rec'[<<b, g>>] \in AtWork
    BY <1>2, <1>4, <1>6, <1>7
  <2>2. ASSUME NEW o \in Outcome
        PROVE  With(b, Counted(o))' = With(b, Counted(o))
    <3>1. \A f \in File : rec'[<<b, f>>] \in Counted(o) <=> rec[<<b, f>>] \in Counted(o)
      BY <1>2, <1>3, <1>6, <2>1
    <3> QED  BY <3>1, WithSame DEF Counted
  <2>3. pc'[r] \notin {"load", "list", "register"}
    BY <1>1 DEF AtFile
  <2>4. totals'[b] = tally'[r]
    BY <1>1, <1>7 DEF Books
  <2>5. \A o \in Outcome : tally'[r][o] = With(b, Counted(o))'
    BY <1>7, <2>2 DEF Books
  <2> QED  BY <1>1, <1>5, <2>1, <2>3, <2>4, <2>5 DEF Books
<1>8. CASE /\ pc'[r] = "count"
           /\ \E o \in Outcome : Bump(r, o) /\ \E s \in Counted(o) : SetRecord(r, s)
  <2>0. PICK o \in Outcome : Bump(r, o) /\ \E s \in Counted(o) : SetRecord(r, s)
    BY <1>8
  <2>1. PICK s \in Counted(o) : Bump(r, o) /\ SetRecord(r, s)
    BY <2>0
  <2>2. rec'[<<b, g>>] = s
    BY <1>4, <1>6, <2>1
  <2>3. ASSUME NEW q \in Outcome PROVE tally'[r][q] = With(b, Counted(q))'
    <3>1. tally'[r][q] = IF q = o THEN tally[r][q] + 1 ELSE tally[r][q]
      BY <2>1 DEF Bump, Numbers
    <3>2. tally[r][q] = With(b, Counted(q)) /\ rec[<<b, g>>] \notin Counted(q)
      BY <1>2, <1>6 DEF Books
    <3>3. CASE q = o
      <4>1. With(b, Counted(q))' = With(b, Counted(q)) + 1
        <5>1. rec'[<<b, g>>] \in Counted(q)
          BY <2>2, <3>3
        <5> QED  BY <1>1, <1>3, <3>2, <5>1, WithMore DEF Counted
      <4> QED  BY <3>1, <3>2, <3>3, <4>1
    <3>4. CASE q # o
      <4>1. \A f \in File : rec'[<<b, f>>] \in Counted(q) <=> rec[<<b, f>>] \in Counted(q)
        BY <1>3, <1>6, <2>2, <3>2, <3>4
      <4>2. With(b, Counted(q))' = With(b, Counted(q))
        BY <4>1, WithSame DEF Counted
      <4> QED  BY <3>1, <3>2, <3>4, <4>2
    <3> QED  BY <3>3, <3>4
  <2> QED  BY <1>1, <1>5, <1>8, <2>3 DEF Books
<1> QED  BY <1>7, <1>8 DEF FileTally

\* The run's other steps.
LEMMA BetweenBooks ==
    ASSUME IInv, Numbers, NEW r \in Run, NEW b \in Batch, of[r] = b,
           batch[b] \notin {"none", "purged"}, Books(r, b),
           Load(r) \/ List(r) \/ Register(r) \/ Check(r) \/ Count(r) \/ Finish(r),
           pc'[r] # "done"
    PROVE  Books(r, b)'
<1> USE DEF IInv
<1>0. /\ pc \in [Run -> Point] /\ todo \in [Run -> SUBSET File]
      /\ \A o \in Outcome : "none" \notin Counted(o) /\ "discovered" \notin Counted(o)
      /\ "discovered" \in AtWork
  BY DEF Rows, Counted, Skipped, AtWork
<1>1. ASSUME UNCHANGED rec, tally'[r] = tally[r]
      PROVE  \A o \in Outcome : tally'[r][o] = With(b, Counted(o))'
  <2>1. \A o \in Outcome : With(b, Counted(o))' = With(b, Counted(o))
    BY <1>1, WithSame DEF Counted
  <2> QED  BY <1>1, <2>1 DEF Books
<1>2. CASE Load(r)
  <2>1. /\ pc[r] = "load" /\ pc'[r] = "list"
        /\ UNCHANGED <<rec, tally, totals>>
    BY <1>0, <1>2 DEF Load, Goto, Return, End
  <2> QED  BY <1>1, <2>1 DEF Books, AtFile, Idle
<1>3. CASE List(r)
  <2>1. /\ pc[r] = "list" /\ pc'[r] = "register" /\ todo'[r] = File
        /\ UNCHANGED <<rec, tally, totals>>
    BY <1>0, <1>3 DEF List, Goto
  <2> QED  BY <1>1, <2>1 DEF Books, AtFile, Idle
<1>4. CASE Register(r)
  <2>1. PICK f \in File :
           /\ f \in todo[r]
           /\ rec' = [rec EXCEPT ![<<b, f>>] = IF @ = "none" THEN "discovered" ELSE @]
           /\ IF todo[r] = {f}
              THEN todo' = [todo EXCEPT ![r] = File] /\ pc' = [pc EXCEPT ![r] = "next"]
              ELSE todo' = [todo EXCEPT ![r] = @ \ {f}] /\ UNCHANGED pc
    BY <1>0, <1>4 DEF Register, First, Goto
  <2>2. pc[r] = "register" /\ UNCHANGED <<tally, totals>>
    BY <1>4 DEF Register
  <2>3. \A g \in File : rec[<<b, g>>] = IF g \in todo[r] THEN "none" ELSE "discovered"
    BY <2>2 DEF Books
  <2>4. \A g \in File : rec'[<<b, g>>] = IF g = f THEN "discovered" ELSE rec[<<b, g>>]
    <3>1. rec[<<b, f>>] = "none"
      BY <2>1, <2>3
    <3> QED  BY <2>1, <3>1 DEF Rows
  <2>5. \A o \in Outcome : tally'[r][o] = With(b, Counted(o))'
    <3>1. \A o \in Outcome : With(b, Counted(o))' = With(b, Counted(o))
      <4> SUFFICES ASSUME NEW o \in Outcome
                   PROVE  With(b, Counted(o))' = With(b, Counted(o))
        OBVIOUS
      <4>1. \A g \in File : rec'[<<b, g>>] \in Counted(o) <=> rec[<<b, g>>] \in Counted(o)
        BY <1>0, <2>3, <2>4
      <4> QED  BY <4>1, WithSame DEF Counted
    <3> QED  BY <2>2, <3>1 DEF Books
  <2>6. CASE todo[r] = {f}
    <3>1. pc'[r] = "next" /\ todo'[r] = File
      BY <1>0, <2>1, <2>6
    <3>2. \A g \in File : rec'[<<b, g>>] = "discovered"
      BY <2>3, <2>4, <2>6
    <3> QED  BY <1>0, <2>2, <2>5, <3>1, <3>2 DEF Books, AtFile, Idle
  <2>7. CASE todo[r] # {f}
    <3>1. pc'[r] = "register" /\ todo'[r] = todo[r] \ {f}
      BY <1>0, <2>1, <2>2, <2>7
    <3>2. \A g \in File : rec'[<<b, g>>] = IF g \in todo'[r] THEN "none" ELSE "discovered"
      BY <2>3, <2>4, <3>1
    <3> QED  BY <2>2, <2>5, <3>1, <3>2 DEF Books, AtFile, Idle
  <2> QED  BY <2>6, <2>7
<1>5. CASE Check(r)
  <2>1. PICK f \in File :
           /\ f \in todo[r]
           /\ cur' = [cur EXCEPT ![r] = f]
           /\ todo' = [todo EXCEPT ![r] = @ \ {f}]
           /\ pc' = [pc EXCEPT ![r] = "claim"] \/ pc' = [pc EXCEPT ![r] = "skip_id"]
    BY <1>0, <1>5 DEF Check, First, Goto
  <2>2. /\ pc[r] = "next" /\ UNCHANGED <<rec, tally, totals>>
        /\ cur'[r] = f /\ todo'[r] = todo[r] \ {f} /\ pc'[r] \in {"claim", "skip_id"}
    BY <1>0, <1>5, <2>1 DEF Check, Rows
  <2>3. \A g \in todo[r] : rec[<<b, g>>] \in AtWork
    BY <2>2 DEF Books
  <2> QED  BY <1>1, <2>1, <2>2, <2>3 DEF Books
<1>6. CASE Count(r)
  <2>1. /\ pc[r] = "count" /\ pc'[r] = "next" /\ totals'[b] = tally[r]
        /\ UNCHANGED <<rec, tally, todo>>
    BY <1>0, <1>6 DEF Count, Goto, Exists, Numbers
  <2>2. \A g \in todo[r] : rec[<<b, g>>] \in AtWork
    BY <2>1 DEF Books, AtFile, Point, Caught, FilePoint, Idle
  <2> QED  BY <1>1, <2>1, <2>2 DEF Books, AtFile, Idle
<1>7. CASE Finish(r)
  <2>1. /\ pc[r] = "next" /\ pc'[r] = "sync"
        /\ UNCHANGED <<rec, tally, totals>>
    BY <1>0, <1>7 DEF Finish, Goto
  <2> QED  BY <1>1, <2>1 DEF Books, AtFile, Idle
<1> QED  BY <1>2, <1>3, <1>4, <1>5, <1>6, <1>7

\* A batch that is taken for the first time.
LEMMA TakenBooks ==
    ASSUME Untouched, NEW r \in Run, NEW b \in Batch,
           \A q \in Run : of[q] # b, pc[r] = "idle", pc'[r] = "load",
           UNCHANGED <<rec, totals, tally>>
    PROVE  Books(r, b)'
<1>1. /\ totals[b] = Nothing /\ tally[r] = Nothing
      /\ \A f \in File : rec[<<b, f>>] = "none"
  BY DEF Untouched
<1>2. \A o \in Outcome : With(b, Counted(o))' = 0
  <2> SUFFICES ASSUME NEW o \in Outcome PROVE With(b, Counted(o))' = 0
    OBVIOUS
  <2>1. \A f \in File : rec[<<b, f>>] \notin Counted(o)
    BY <1>1 DEF Counted, Skipped
  <2>2. With(b, Counted(o)) = 0
    BY <2>1, WithNat
  <2> QED  BY <2>2, WithSame DEF Counted
<1> QED  BY <1>1, <1>2 DEF Books, Nothing, AtFile, Idle

\* What a step of a run leaves alone.
LEMMA StepTouches ==
    ASSUME IInv, Numbers, NEW q \in Run, Step(q)
    PROVE  /\ pc[q] \notin Idle /\ of' = of /\ of[q] \in Batch
           /\ \A r \in Run \ {q} : /\ pc'[r] = pc[r] /\ todo'[r] = todo[r]
                                   /\ cur'[r] = cur[r] /\ tally'[r] = tally[r]
           /\ \A b \in Batch \ {of[q]} :
                 /\ totals'[b] = totals[b] /\ batch'[b] = batch[b]
                 /\ \A f \in File : rec'[<<b, f>>] = rec[<<b, f>>]
           /\ \A b \in Batch : /\ batch[b] = "purged" <=> batch'[b] = "purged"
                               /\ batch[b] = "none" <=> batch'[b] = "none"
<1> USE DEF IInv
<1>0. /\ pc \in [Run -> Point] /\ todo \in [Run -> SUBSET File]
      /\ batch \in [Batch -> BatchStatus \cup {"none", "purged"}]
      /\ rec \in [Batch \X File -> RecordStatus \cup {"none"}]
      /\ cur \in [Run -> File \cup {NoFile}] /\ tally \in [Run -> [Outcome -> Nat]]
  BY DEF Rows, Numbers
<1>1. pc[q] \notin Idle /\ of[q] \in Batch
  BY StepIsOwn DEF Places
<1>2. CASE Load(q) \/ Abort(q) \/ AbortLost(q) \/ Finish(q) \/ Synced(q)
  <2>1. UNCHANGED <<totals, rec, of>>
    BY <1>2 DEF Load, Abort, AbortLost, Finish, Synced, Return, End
  <2>2. \/ UNCHANGED batch
        \/ \E s \in BatchStatus : SetBatch(q, s)
    BY <1>2 DEF Load, Abort, AbortLost, Finish, Synced, BatchStatus
  <2>3. /\ \A b \in Batch \ {of[q]} : batch'[b] = batch[b]
        /\ \A b \in Batch : /\ batch[b] = "purged" <=> batch'[b] = "purged"
                            /\ batch[b] = "none" <=> batch'[b] = "none"
    <3>1. CASE UNCHANGED batch
      BY <3>1
    <3>2. ASSUME NEW s \in BatchStatus, SetBatch(q, s), batch' # batch
          PROVE  /\ batch' = [batch EXCEPT ![of[q]] = s] /\ s \notin {"none", "purged"}
                 /\ batch[of[q]] \notin {"none", "purged"}
      BY <3>2 DEF SetBatch, Exists, BatchStatus
    <3>3. CASE batch' # batch
      <4>1. PICK s \in BatchStatus : SetBatch(q, s)
        BY <2>2, <3>3
      <4>2. /\ batch' = [batch EXCEPT ![of[q]] = s] /\ s \notin {"none", "purged"}
            /\ batch[of[q]] \notin {"none", "purged"}
        BY <3>2, <3>3, <4>1
      <4> QED  BY <1>0, <1>1, <4>2
    <3> QED  BY <3>1, <3>3
  <2>4. \A r \in Run \ {q} : /\ pc'[r] = pc[r] /\ todo'[r] = todo[r]
                             /\ cur'[r] = cur[r] /\ tally'[r] = tally[r]
    BY <1>0, <1>2 DEF Load, Abort, AbortLost, Finish, Synced, Return, End, Goto
  <2> QED  BY <1>1, <2>1, <2>3, <2>4
<1>3. CASE List(q) \/ Check(q) \/ Count(q)
  BY <1>0, <1>1, <1>3 DEF List, Check, Count, Goto, Numbers
<1>4. CASE Register(q)
  <2>1. PICK f \in File :
           /\ rec' = [rec EXCEPT ![<<of[q], f>>] = IF @ = "none" THEN "discovered" ELSE @]
           /\ \/ todo' = [todo EXCEPT ![q] = File] /\ pc' = [pc EXCEPT ![q] = "next"]
              \/ todo' = [todo EXCEPT ![q] = @ \ {f}] /\ UNCHANGED pc
    BY <1>0, <1>4 DEF Register, First, Goto
  <2>2. UNCHANGED <<batch, totals, of, cur, tally>>
    BY <1>4 DEF Register
  <2>3. \A b \in Batch \ {of[q]} : \A g \in File : rec'[<<b, g>>] = rec[<<b, g>>]
    BY <1>0, <2>1
  <2> QED  BY <1>0, <1>1, <2>1, <2>2, <2>3
<1>5. CASE \/ Skip(q) \/ Claim(q) \/ Download(q) \/ Compare(q) \/ Ingest(q)
           \/ Stage(q) \/ Link(q) \/ Flag(q) \/ Settle(q) \/ FileError(q)
  <2>1. FileMove(q) /\ FileTally(q)
    BY <1>5, FileSteps, FileTallies
  <2>2. \A b \in Batch \ {of[q]} : \A f \in File : rec'[<<b, f>>] = rec[<<b, f>>]
    BY <1>0, <2>1 DEF FileMove, Own
  <2>3. \A r \in Run \ {q} : tally'[r] = tally[r]
    BY <1>0, <2>1 DEF FileTally, Bump
  <2> QED  BY <1>0, <1>1, <2>1, <2>2, <2>3 DEF FileMove, FileTally
<1> QED  BY <1>2, <1>3, <1>4, <1>5 DEF Step

\* The counters stay numbers.
LEMMA NumbersKept == IInv /\ Numbers /\ [Next]_vars => Numbers'
<1> SUFFICES ASSUME IInv, Numbers, [Next]_vars PROVE Numbers'
  OBVIOUS
<1> USE DEF Numbers
<1>0. Nothing \in [Outcome -> Nat]
  BY DEF Nothing
<1>1. CASE UNCHANGED vars
  BY <1>1 DEF vars, run
<1>2. CASE \E b \in Batch : CreateBatch(b) \/ Rollback(b)
  BY <1>2 DEF CreateBatch, Rollback, run
<1>3. CASE Purge
  BY <1>0, <1>3 DEF Purge, run
<1>4. CASE Crash
  BY <1>0, <1>4 DEF Crash
<1>5. CASE \E r \in Run : \E b \in Batch : Fetch(r, b)
  BY <1>5 DEF Fetch
<1>6. ASSUME NEW r \in Run, Step(r) PROVE Numbers'
  <2>1. CASE Load(r) \/ Abort(r) \/ AbortLost(r) \/ Finish(r) \/ Synced(r)
    BY <1>0, <2>1 DEF Load, Abort, AbortLost, Finish, Synced, Return, End
  <2>2. CASE List(r) \/ Register(r) \/ Check(r)
    BY <2>2 DEF List, Register, Check
  <2>3. CASE Count(r)
    BY <2>3 DEF Count
  <2>4. CASE \/ Skip(r) \/ Claim(r) \/ Download(r) \/ Compare(r) \/ Ingest(r)
             \/ Stage(r) \/ Link(r) \/ Flag(r) \/ Settle(r) \/ FileError(r)
    <3>1. FileTally(r)
      BY <2>4, FileTallies
    <3>2. \A o \in Outcome : Bump(r, o) => tally' \in [Run -> [Outcome -> Nat]]
      BY DEF Bump
    <3> QED  BY <3>1, <3>2 DEF FileTally
  <2> QED  BY <1>6, <2>1, <2>2, <2>3, <2>4 DEF Step
<1> QED  BY <1>1, <1>2, <1>3, <1>4, <1>5, <1>6 DEF Next


\* What the administrator and the sweep do: at most a run starts on a batch.
Outside ==
    /\ UNCHANGED <<rec, totals, todo, cur, tally>>
    /\ \A b \in Batch :
          /\ batch'[b] \in {"completed", "completed_with_errors"} => batch'[b] = batch[b]
          /\ batch[b] = "purged" => batch'[b] = "purged"
          /\ batch[b] # "none" => batch'[b] # "none"
    /\ \/ UNCHANGED <<pc, of>>
       \/ \E r \in Run : \E b \in Batch :
             /\ pc[r] = "idle" /\ pc' = [pc EXCEPT ![r] = "load"]
             /\ of' = [of EXCEPT ![r] = b] /\ batch'[b] # "none"

\* The steps that touch neither records nor counters.
LEMMA OutsideSteps ==
    ASSUME IInv, \/ \E b \in Batch : CreateBatch(b) \/ Rollback(b)
                 \/ \E r \in Run : \E b \in Batch : Fetch(r, b)
    PROVE  Outside
<1>0. batch \in [Batch -> BatchStatus \cup {"none", "purged"}]
  BY DEF IInv, Rows
<1>1. ASSUME NEW b \in Batch, CreateBatch(b) PROVE Outside
  <2>1. /\ batch[b] = "none" /\ batch' = [batch EXCEPT ![b] = "queued"]
        /\ UNCHANGED <<rec, totals>>
    BY <1>1 DEF CreateBatch, First
  <2>2. CASE worker
    BY <1>0, <1>1, <2>1, <2>2 DEF CreateBatch, run, Outside
  <2>3. CASE ~worker
    <3>1. PICK r \in NextRun : /\ Goto(r, "load") /\ of' = [of EXCEPT ![r] = b]
                               /\ UNCHANGED <<todo, cur, tally>>
      BY <1>1, <2>3 DEF CreateBatch
    <3>2. r \in Run /\ pc[r] = "idle"
      BY <3>1 DEF NextRun, First
    <3> QED  BY <1>0, <2>1, <3>1, <3>2 DEF Outside, Goto
  <2> QED  BY <2>2, <2>3
<1>2. ASSUME NEW b \in Batch, Rollback(b) PROVE Outside
  BY <1>0, <1>2 DEF Rollback, run, Outside
<1>3. ASSUME NEW r \in Run, NEW b \in Batch, Fetch(r, b) PROVE Outside
  BY <1>0, <1>3 DEF Fetch, NextRun, First, Goto, Outside
<1> QED  BY <1>1, <1>2, <1>3

\* A step that touches neither records nor counters keeps the totals.
LEMMA OutsideKeeps ==
    ASSUME TInv, Outside
    PROVE  Untouched' /\ BooksKept' /\ Totalled'
<1>0. /\ pc \in [Run -> Point] /\ todo \in [Run -> SUBSET File]
      /\ of \in [Run -> Batch \cup {NoBatch}] /\ NoBatch \notin Batch
  BY SerialAssumption DEF TInv, LInv, IInv, Rows, NoBatch
<1>1. \A x \in Run : of[x] \in Batch =>
         of'[x] = of[x] /\ pc'[x] = pc[x] /\ pc[x] # "idle"
  BY <1>0 DEF TInv, LInv, IInv, Places, Outside
<1>2. \A b \in Batch : Sole(b)' => Sole(b)
  BY <1>1 DEF Sole
<1>3. Untouched'
  BY <1>0, <1>1 DEF TInv, Untouched, Outside
<1>4. BooksKept'
  <2> SUFFICES ASSUME NEW q \in Run, NEW b \in Batch, Working(q, b)'
               PROVE  Books(q, b)'
    BY DEF BooksKept
  <2>1. of'[q] = b /\ pc'[q] \notin Idle /\ Sole(b)' /\ batch[b] # "purged"
    BY DEF Working, Outside
  <2>2. CASE of[q] = b
    <3>1. Books(q, b) /\ pc'[q] = pc[q]
      BY <1>1, <1>2, <2>1, <2>2 DEF TInv, BooksKept, Working
    <3>2. pc[q] \in AtFile => cur[q] \in File
      BY DEF TInv, LInv, IInv, Places
    <3> QED  BY <1>0, <3>1, <3>2, BooksFrame DEF Outside
  <2>3. CASE of[q] # b
    <3>1. pc[q] = "idle" /\ pc'[q] = "load"
      BY <1>0, <2>1, <2>3 DEF Outside
    <3>2. \A x \in Run : of[x] # b
      BY <1>1, <2>1, <2>3 DEF Sole
    <3> QED  BY <3>1, <3>2, TakenBooks DEF TInv, Outside
  <2> QED  BY <2>2, <2>3
<1>5. Totalled'
  <2> SUFFICES ASSUME NEW b \in Batch, Sole(b)',
                      batch'[b] \in {"completed", "completed_with_errors"}
               PROVE  /\ \A o \in Outcome : totals'[b][o] = With(b, Counted(o))'
                      /\ (totals'[b]["failed"] > 0) = (batch'[b] = "completed_with_errors")
    BY DEF Totalled
  <2>1. totals' = totals /\ batch'[b] = batch[b]
    BY DEF Outside
  <2>2. /\ \A o \in Outcome : totals[b][o] = With(b, Counted(o))
        /\ (totals[b]["failed"] > 0) = (batch[b] = "completed_with_errors")
    BY <1>2, <2>1 DEF TInv, Totalled
  <2>3. \A o \in Outcome : With(b, Counted(o))' = With(b, Counted(o))
    BY WithSame DEF Outside, Counted
  <2> QED  BY <2>1, <2>2, <2>3
<1> QED  BY <1>3, <1>4, <1>5

\* The purge keeps the totals.
LEMMA PurgeKeepsTotals ==
    ASSUME TInv, Purge
    PROVE  Untouched' /\ BooksKept' /\ Totalled'
<1>1. /\ \A b \in Batch : /\ totals'[b] = Nothing
                          /\ \A f \in File : rec'[<<b, f>>] = "none"
                          /\ batch'[b] = IF batch[b] = "none" THEN "none" ELSE "purged"
      /\ UNCHANGED <<pc, of, tally>>
  BY DEF Purge, run
<1>2. Untouched'
  BY <1>1 DEF TInv, Untouched
<1>3. BooksKept'
  BY <1>1 DEF TInv, Untouched, BooksKept, Working
<1>4. Totalled'
  BY <1>1 DEF Totalled
<1> QED  BY <1>2, <1>3, <1>4

\* A crash keeps the totals.
LEMMA CrashKeepsTotals ==
    ASSUME TInv, Crash
    PROVE  Untouched' /\ BooksKept' /\ Totalled'
<1>1. /\ UNCHANGED <<batch, totals, rec, of>>
      /\ \A r \in Run : pc'[r] \in Idle /\ tally'[r] = Nothing
  BY DEF Crash, Idle
<1>2. Untouched'
  BY <1>1 DEF TInv, Untouched
<1>3. BooksKept'
  BY <1>1 DEF BooksKept, Working
<1>4. Totalled'
  <2>1. \A b \in Batch : Sole(b)' = Sole(b)
    BY <1>1 DEF Sole
  <2>2. \A b \in Batch : \A o \in Outcome : With(b, Counted(o))' = With(b, Counted(o))
    BY <1>1, WithSame DEF Counted
  <2> QED  BY <1>1, <2>1, <2>2 DEF TInv, Totalled
<1> QED  BY <1>2, <1>3, <1>4

\* A step of a run keeps its books in line with the records.
LEMMA StepKeepsBooks ==
    ASSUME TInv, IInv', NEW q \in Run, Step(q)
    PROVE  BooksKept'
<1> SUFFICES ASSUME NEW r \in Run, NEW b \in Batch, Working(r, b)'
             PROVE  Books(r, b)'
  BY DEF BooksKept
<1>0. IInv /\ Numbers /\ Untagged
  BY DEF TInv, LInv
<1>1. /\ of' = of /\ of[r] = b /\ Sole(b) /\ pc'[r] \notin Idle
      /\ batch[b] # "purged"
  BY <1>0, StepTouches DEF Working, Sole
<1>2. CASE r # q
  <2>1. of[q] # b /\ pc'[r] = pc[r]
    BY <1>0, <1>1, <1>2, StepTouches DEF Sole
  <2>2. Books(r, b)
    BY <1>1, <2>1 DEF TInv, BooksKept, Working
  <2>3. todo[r] \subseteq File /\ (pc[r] \in AtFile => cur[r] \in File)
    BY <1>0 DEF IInv, Rows, Places
  <2>4. /\ todo'[r] = todo[r] /\ cur'[r] = cur[r] /\ tally'[r] = tally[r]
        /\ totals'[b] = totals[b] /\ \A f \in File : rec'[<<b, f>>] = rec[<<b, f>>]
    BY <1>0, <1>2, <2>1, StepTouches
  <2> QED  BY <2>1, <2>2, <2>3, <2>4, BooksFrame
<1>3. CASE r = q
  <2>1. Books(r, b)
    <3>1. pc[q] \notin Idle
      BY <1>0, StepTouches
    <3> QED  BY <1>1, <1>3, <3>1 DEF TInv, BooksKept, Working
  <2>2. batch[b] \notin {"none", "purged"}
    BY <1>1 DEF TInv, Untouched
  <2>3. CASE \/ Skip(r) \/ Claim(r) \/ Download(r) \/ Compare(r) \/ Ingest(r)
             \/ Stage(r) \/ Link(r) \/ Flag(r) \/ Settle(r) \/ FileError(r)
    <3>1. FileMove(r) /\ FileTally(r)
      BY <1>0, <2>3, FileSteps, FileTallies DEF IInv
    <3> QED  BY <1>0, <1>1, <2>1, <3>1, FileBooks
  <2>4. CASE Load(r) \/ List(r) \/ Register(r) \/ Check(r) \/ Count(r) \/ Finish(r)
    <3>1. pc'[r] # "done"
      BY <1>1 DEF Idle
    <3> QED  BY <1>0, <1>1, <2>1, <2>2, <2>4, <3>1, BetweenBooks
  <2>5. CASE Abort(r) \/ AbortLost(r) \/ Synced(r)
    <3>1. pc \in [Run -> Point]
      BY <1>0 DEF IInv, Rows
    <3>2. pc'[r] \in {"done", "lost"}
      BY <2>5, <3>1, EndSteps DEF End, Goto
    <3> QED  BY <1>1, <3>2 DEF Idle
  <2> QED  BY <1>3, <2>3, <2>4, <2>5 DEF Step
<1> QED  BY <1>2, <1>3

\* Only the end of a run completes its batch.
LEMMA OnlyFinishCompletes ==
    ASSUME IInv, NEW q \in Run, Step(q), NEW b \in Batch, of[q] = b,
           batch'[b] \in {"completed", "completed_with_errors"}, batch[b] # batch'[b]
    PROVE  /\ pc[q] = "next" /\ UNCHANGED <<totals, rec>>
           /\ batch'[b] = IF tally[q]["failed"] > 0 THEN "completed_with_errors"
                                                    ELSE "completed"
<1>0. batch \in [Batch -> BatchStatus \cup {"none", "purged"}] /\ Rows
  BY DEF IInv, Rows
<1>1. CASE Load(q)
  BY <1>0, <1>1 DEF Load, SetBatch, Exists
<1>2. CASE Abort(q) \/ AbortLost(q) \/ Synced(q)
  BY <1>0, <1>2, EndSteps DEF SetBatch, Exists
<1>3. CASE Finish(q)
  BY <1>0, <1>3 DEF Finish, SetBatch, Exists
<1>4. CASE List(q) \/ Register(q) \/ Check(q) \/ Count(q)
  BY <1>4 DEF List, Register, Check, Count
<1>5. CASE \/ Skip(q) \/ Claim(q) \/ Download(q) \/ Compare(q) \/ Ingest(q)
           \/ Stage(q) \/ Link(q) \/ Flag(q) \/ Settle(q) \/ FileError(q)
  BY <1>0, <1>5, FileSteps DEF FileMove
<1> QED  BY <1>1, <1>2, <1>3, <1>4, <1>5 DEF Step

\* A step of a run keeps the totals of the settled batches.
LEMMA StepKeepsTotals ==
    ASSUME TInv, IInv', NEW q \in Run, Step(q)
    PROVE  Untouched' /\ Totalled'
<1>0. IInv /\ Numbers
  BY DEF TInv, LInv
<1>1. Untouched'
  <2>1. pc'[q] # "idle"
    <3>1. of'[q] \in Batch /\ NoBatch \notin Batch
      BY <1>0, StepTouches, SerialAssumption DEF NoBatch
    <3> QED  BY <3>1 DEF IInv, Places
  <2>2. \A b \in Batch : (\A r \in Run : of'[r] # b) =>
           totals'[b] = Nothing /\ \A f \in File : rec'[<<b, f>>] = "none"
    BY <1>0, StepTouches DEF TInv, Untouched
  <2>3. \A r \in Run : pc'[r] = "idle" => tally'[r] = Nothing
    BY <1>0, <2>1, StepTouches DEF TInv, Untouched
  <2>4. \A r \in Run : of'[r] \in Batch => batch'[of'[r]] # "none"
    BY <1>0, StepTouches DEF TInv, Untouched
  <2> QED  BY <2>2, <2>3, <2>4 DEF Untouched
<1>2. Totalled'
  <2> SUFFICES ASSUME NEW b \in Batch, Sole(b)',
                      batch'[b] \in {"completed", "completed_with_errors"}
               PROVE  /\ \A o \in Outcome : totals'[b][o] = With(b, Counted(o))'
                      /\ (totals'[b]["failed"] > 0) = (batch'[b] = "completed_with_errors")
    BY DEF Totalled
  <2>1. Sole(b)
    BY <1>0, StepTouches DEF Sole
  <2>2. CASE of[q] # b
    <3>1. /\ totals'[b] = totals[b] /\ batch'[b] = batch[b]
          /\ \A f \in File : rec'[<<b, f>>] = rec[<<b, f>>]
      BY <1>0, <2>2, StepTouches
    <3>2. \A o \in Outcome : With(b, Counted(o))' = With(b, Counted(o))
      BY <3>1, WithSame DEF Counted
    <3>3. /\ \A o \in Outcome : totals[b][o] = With(b, Counted(o))
          /\ (totals[b]["failed"] > 0) = (batch[b] = "completed_with_errors")
      BY <2>1, <3>1 DEF TInv, Totalled
    <3> QED  BY <3>1, <3>2, <3>3
  <2>3. CASE of[q] = b
    <3>1. pc[q] \notin Idle
      BY <1>0, StepTouches
    <3>2. CASE batch'[b] = batch[b]
      <4>1. pc[q] = "sync"
        BY <1>0, <2>1, <2>3, <3>1, <3>2 DEF IInv, EndsWithRun, Ended, Over, Idle
      <4>2. UNCHANGED <<totals, rec>>
        BY <1>0, <4>1, StepIsOwn
      <4>3. \A o \in Outcome : With(b, Counted(o))' = With(b, Counted(o))
        BY <4>2, WithSame DEF Counted
      <4> QED  BY <2>1, <3>2, <4>2, <4>3 DEF TInv, Totalled
    <3> SUFFICES ASSUME batch'[b] # batch[b]
                 PROVE  /\ \A o \in Outcome : totals'[b][o] = With(b, Counted(o))'
                        /\ (totals'[b]["failed"] > 0)
                              = (batch'[b] = "completed_with_errors")
      BY <3>2
    <3>3. /\ pc[q] = "next" /\ UNCHANGED <<totals, rec>>
          /\ batch'[b] = IF tally[q]["failed"] > 0 THEN "completed_with_errors"
                                                   ELSE "completed"
      BY <1>0, <2>3, OnlyFinishCompletes
    <3>4. batch[b] # "purged"
      BY <1>0, StepTouches
    <3>5. totals[b] = tally[q] /\ \A o \in Outcome : tally[q][o] = With(b, Counted(o))
      <4>1. Books(q, b)
        BY <2>1, <2>3, <3>1, <3>4 DEF TInv, BooksKept, Working
      <4> QED  BY <3>3, <4>1 DEF Books
    <3>6. \A o \in Outcome : With(b, Counted(o))' = With(b, Counted(o))
      BY <3>3, WithSame DEF Counted
    <3>7. totals' = totals
      BY <3>3
    <3> QED  BY <3>3, <3>5, <3>6, <3>7
  <2> QED  BY <2>2, <2>3
<1> QED  BY <1>1, <1>2

\* The invariant of the totals holds at the start.
LEMMA InitTInv == Init => TInv
<1> SUFFICES ASSUME Init PROVE TInv
  OBVIOUS
<1>1. LInv
  BY InitLInv
<1>2. Numbers
  BY DEF Init, Numbers, Nothing
<1>3. Untouched
  BY SerialAssumption DEF Init, Untouched, NoBatch
<1>4. BooksKept /\ Totalled
  BY DEF Init, BooksKept, Working, Idle, Totalled
<1> QED  BY <1>1, <1>2, <1>3, <1>4 DEF TInv

\* The invariant of the totals is inductive.
LEMMA NextTInv == TInv /\ [Next]_vars => TInv'
<1> SUFFICES ASSUME TInv, [Next]_vars PROVE TInv'
  OBVIOUS
<1>1. LInv' /\ IInv'
  BY NextLInv DEF TInv, LInv
<1>2. Numbers' /\ IInv
  BY NumbersKept DEF TInv, LInv
<1>3. Untouched' /\ BooksKept' /\ Totalled'
  <2>1. CASE UNCHANGED vars
    <3>1. Outside
      BY <2>1 DEF vars, run, Outside
    <3> QED  BY <3>1, OutsideKeeps
  <2>2. CASE \/ \E b \in Batch : CreateBatch(b) \/ Rollback(b)
             \/ \E r \in Run : \E b \in Batch : Fetch(r, b)
    BY <1>2, <2>2, OutsideSteps, OutsideKeeps
  <2>3. CASE Purge
    BY <2>3, PurgeKeepsTotals
  <2>4. CASE Crash
    BY <2>4, CrashKeepsTotals
  <2>5. ASSUME NEW r \in Run, Step(r)
        PROVE  Untouched' /\ BooksKept' /\ Totalled'
    BY <1>1, <2>5, StepKeepsBooks, StepKeepsTotals
  <2> QED  BY <2>1, <2>2, <2>3, <2>4, <2>5 DEF Next
<1> QED  BY <1>1, <1>2, <1>3 DEF TInv

-----------------------------------------------------------------------------
(* Theorems. *)

\* Rows and runs keep their types, and a run knows its batch and its file.
THEOREM RowsCorrect == Spec => [](Rows /\ Places)
<1>1. Init => IInv
  BY InitIInv
<1>2. IInv /\ [Next]_vars => IInv'
  BY NextIInv
<1>3. IInv => Rows /\ Places
  BY DEF IInv
<1> QED  BY <1>1, <1>2, <1>3, PTL DEF Spec

\* A purge leaves nothing of a batch, however many runs are at work on it.
THEOREM PurgesAreComplete == Spec => []PurgeIsComplete
<1>1. Init => IInv
  BY InitIInv
<1>2. IInv /\ [Next]_vars => IInv'
  BY NextIInv
<1>3. IInv => PurgeIsComplete
  BY DEF IInv
<1> QED  BY <1>1, <1>2, <1>3, PTL DEF Spec

\* A batch that one run took and that was rolled back gets no live contract, and
\* keeps its status unless its run fails after its last file.
THEOREM RollbacksHold == Spec => RollbackHolds
<1>1. Init => IInv
  BY InitIInv
<1>2. IInv /\ [Next]_vars => IInv'
  BY NextIInv
<1>3. IInv /\ [Next]_vars
        => [\A b \in Batch :
              batch[b] = "rolled_back" /\ Alone(b) =>
                /\ \/ batch'[b] \in {"rolled_back", "purged"}
                   \/ batch'[b] = "failed" /\ \E r \in Run : of[r] = b /\ pc[r] = "sync"
                /\ \A x \in Run \X File :
                     contract'[x] = "tagged" /\ of[x[1]] = b => contract[x] = "tagged"]_vars
  BY NextHoldsRollback
<1> QED  BY <1>1, <1>2, <1>3, PTL DEF Spec, RollbackHolds

\* A file has one live imported contract at most whose record has not failed, as
\* long as no batch was taken by two runs: over the crashes, the failures and the
\* batches of any number.
THEOREM OneImportIsLive == Spec => []OneLiveImport
<1>1. Init => LInv
  BY InitLInv
<1>2. LInv /\ [Next]_vars => LInv'
  BY NextLInv
<1>3. LInv => OneLiveImport
  BY LiveImports
<1> QED  BY <1>1, <1>2, <1>3, PTL DEF Spec

\* The totals that a completed batch reports are the counts of its records by
\* status, whatever failed, was skipped or was purged on the way, when one run
\* worked on it.
THEOREM TotalsAlwaysAgree == Spec => []TotalsAgree
<1>1. Init => TInv
  BY InitTInv
<1>2. TInv /\ [Next]_vars => TInv'
  BY NextTInv
<1>3. TInv => TotalsAgree
  <2> SUFFICES ASSUME TInv, NEW b \in Batch, Alone(b),
                      batch[b] \in {"completed", "completed_with_errors"}
               PROVE  /\ totals[b]["imported"] = With(b, {"imported"})
                      /\ totals[b]["review"] = With(b, {"needs_review"})
                      /\ totals[b]["failed"] = With(b, {"failed"})
                      /\ totals[b]["skipped"] = With(b, Skipped)
                      /\ (totals[b]["failed"] > 0) = (batch[b] = "completed_with_errors")
    BY DEF TotalsAgree
  <2>1. Sole(b)
    BY AloneIsSole
  <2>2. /\ \A o \in Outcome : totals[b][o] = With(b, Counted(o))
        /\ (totals[b]["failed"] > 0) = (batch[b] = "completed_with_errors")
    BY <2>1 DEF TInv, Totalled
  <2>3. /\ Counted("imported") = {"imported"} /\ Counted("review") = {"needs_review"}
        /\ Counted("failed") = {"failed"} /\ Counted("skipped") = Skipped
    BY DEF Counted
  <2> QED  BY <2>2, <2>3 DEF Outcome
<1> QED  BY <1>1, <1>2, <1>3, PTL DEF Spec
=============================================================================
