----------------------- MODULE DocumentPipeline_proofs -----------------------
(* What TLAPS proves of the document pipeline, for any number of versions,   *)
(* overlapping sweeps and ticks, failed calls and crashes.                   *)
EXTENDS DocumentPipeline, TLAPS

\* A sweep that has taken a version up and not recorded how it ended.
AtWork(s, v) == sweep[s][v] \in {"extract", "store", "store low", "fail"}

\* Which of the sweeps that know an extracting version will settle it: one
\* that has only fetched it, or that is past its outcome, does not.
ExtractingIsAtWork ==
    \A v \in Version :
        ver[v].status = "extracting" => v \in left \/ \E s \in Sweep : AtWork(s, v)

IInv == TypeOK /\ ExtractingIsAtWork /\ ClausesHaveText

-----------------------------------------------------------------------------
(* Frames. *)

\* What a step must do to keep each version that is extracting at work: no
\* other version becomes so, and no sweep lets go of it.
LEMMA WorkFrame ==
    ASSUME ExtractingIsAtWork,
           left \subseteq left',
           \A v \in Version :
              ver'[v].status = "extracting" =>
                 \/ /\ ver[v].status = "extracting"
                    /\ \A s \in Sweep : AtWork(s, v) => AtWork(s, v)' \/ v \in left'
                 \/ v \in left' \/ \E s \in Sweep : AtWork(s, v)'
    PROVE  ExtractingIsAtWork'
BY DEF ExtractingIsAtWork

\* What a step must do to keep a text under all clauses: no text goes, and
\* clauses and readings come only where there is one.
LEMMA TextFrame ==
    ASSUME ClausesHaveText,
           \A v \in Version : ver[v].text => ver'[v].text,
           \A v \in Version : clause'[v] # "none" =>
              \/ clause[v] # "none" \/ \E t \in Tick : v \in reading[t],
           \A v \in Version, t \in Tick : v \in reading'[t] =>
              v \in reading[t] \/ ver[v].text
    PROVE  ClausesHaveText'
BY DEF ClausesHaveText

\* An ingestion starts an attempt and keeps the text of earlier ones.
LEMMA IngestedType ==
    ASSUME TypeOK, NEW v \in Version
    PROVE  /\ Ingested(v) \in [status: {"extracting", "complete"},
                               attempts: 0..MaxAttempts, text: BOOLEAN]
           /\ Ingested(v).text = ver[v].text
<1> DEFINE n == IF ver[v].attempts = MaxAttempts THEN ver[v].attempts
                ELSE ver[v].attempts + 1
<1>1. MaxAttempts \in Nat
  BY PipelineAssumption
<1>2. ver[v] \in [status: {"none", "pending", "extracting", "complete", "failed"},
                  attempts: 0..MaxAttempts, text: BOOLEAN]
  BY DEF TypeOK
<1>3. n \in 0..MaxAttempts
  BY <1>1, <1>2
<1> HIDE DEF n
<1>4. CASE ver[v].status \in {"extracting", "complete"}
  BY <1>2, <1>4 DEF Ingested
<1>5. CASE ver[v].status \notin {"extracting", "complete"}
  <2>1. Ingested(v) = [ver[v] EXCEPT !.status = "extracting", !.attempts = n]
    BY <1>5 DEF Ingested, n
  <2> QED  BY <1>2, <1>3, <2>1
<1> QED  BY <1>4, <1>5

\* A fault is counted within its bound.
LEMMA FaultType ==
    ASSUME TypeOK, Fault
    PROVE  faults' \in 0..Faults
BY PipelineAssumption DEF TypeOK, Fault

\* The pipeline starts in its invariant.
LEMMA InitIInv == Init => IInv
BY PipelineAssumption DEF Init, IInv, TypeOK, Idle, Stage, ExtractingIsAtWork, ClausesHaveText

-----------------------------------------------------------------------------
(* Types. *)

\* Every operation keeps the types.
LEMMA NextType == TypeOK /\ [Next]_vars => TypeOK'
<1> SUFFICES ASSUME TypeOK, [Next]_vars PROVE TypeOK'
  OBVIOUS
<1> USE PipelineAssumption DEF TypeOK, Stage, ingestion, clauses
<1>1. ASSUME NEW v \in Version, Create(v) PROVE TypeOK'
  BY <1>1 DEF Create, Status
<1>2. ASSUME NEW s \in Sweep, Fetch(s) PROVE TypeOK'
  BY <1>2 DEF Fetch
<1>3. ASSUME NEW s \in Sweep, NEW v \in Version, Skip(s, v) PROVE TypeOK'
  BY <1>3 DEF Skip, Step
<1>4. ASSUME NEW s \in Sweep, NEW v \in Version, Ingest(s, v) PROVE TypeOK'
  BY <1>4, IngestedType DEF Ingest, Step
<1>5. ASSUME NEW s \in Sweep, NEW v \in Version, IngestUnchecked(s, v) PROVE TypeOK'
  BY <1>5, IngestedType, FaultType DEF IngestUnchecked, Step
<1>6. ASSUME NEW s \in Sweep, NEW v \in Version, NoText(s, v) PROVE TypeOK'
  BY <1>6 DEF NoText, Step
<1>7. ASSUME NEW s \in Sweep, NEW v \in Version, Extract(s, v) PROVE TypeOK'
  <2>1. PICK stage \in {"store", "store low"} : Step(s, v, stage)
    BY <1>7 DEF Extract
  <2> QED  BY <1>7, <2>1 DEF Extract, Step
<1>8. ASSUME NEW s \in Sweep, NEW v \in Version, Complete(s, v) PROVE TypeOK'
  BY <1>8 DEF Complete, Step
<1>9. ASSUME NEW s \in Sweep, NEW v \in Version, RecordPage(s, v) PROVE TypeOK'
  BY <1>9 DEF RecordPage, Step
<1>10. ASSUME NEW s \in Sweep, NEW v \in Version, Fail(s, v) PROVE TypeOK'
  BY <1>10 DEF Fail, Status, Step
<1>11. ASSUME NEW s \in Sweep, NEW v \in Version, Slip(s, v) PROVE TypeOK'
  BY <1>11, FaultType DEF Slip, Step
<1>12. ASSUME NEW v \in Version, ManualIngest(v) PROVE TypeOK'
  BY <1>12, IngestedType DEF ManualIngest
<1>13. ASSUME NEW v \in Version, ResolvePage(v) PROVE TypeOK'
  BY <1>13 DEF ResolvePage
<1>14. ASSUME NEW t \in Tick, TakeUp(t) PROVE TypeOK'
  BY <1>14 DEF TakeUp, Reads, First, Candidates
<1>15. ASSUME NEW t \in Tick, TakeUpUnchecked(t) PROVE TypeOK'
  BY <1>15, FaultType DEF TakeUpUnchecked, Reads, First, Candidates
<1>16. ASSUME NEW t \in Tick, NEW v \in Version, Upsert(t, v) PROVE TypeOK'
  BY <1>16 DEF Upsert, Finish
<1>17. ASSUME NEW t \in Tick, NEW v \in Version, NoClause(t, v) PROVE TypeOK'
  BY <1>17 DEF NoClause, Finish
<1>18. ASSUME NEW v \in Version, Request(v) PROVE TypeOK'
  BY <1>18 DEF Request
<1>19. ASSUME NEW v \in Version, Review(v) PROVE TypeOK'
  BY <1>19 DEF Review
<1>20. CASE Crash
  BY <1>20, FaultType DEF Crash, Idle
<1>21. CASE Toggle
  BY <1>21 DEF Toggle
<1>22. CASE UNCHANGED vars
  BY <1>22 DEF vars
<1> QED
  BY <1>1, <1>2, <1>3, <1>4, <1>5, <1>6, <1>7, <1>8, <1>9, <1>10, <1>11, <1>12, <1>13,
     <1>14, <1>15, <1>16, <1>17, <1>18, <1>19, <1>20, <1>21, <1>22
  DEF Next, Work, Read

-----------------------------------------------------------------------------
(* Extracting versions. *)

\* Every operation keeps somebody at work on a version that says it is being
\* extracted.
LEMMA NextAtWork == IInv /\ [Next]_vars => ExtractingIsAtWork'
<1> SUFFICES ASSUME TypeOK, ExtractingIsAtWork, [Next]_vars PROVE ExtractingIsAtWork'
  BY DEF IInv
<1> USE DEF TypeOK, ingestion, AtWork
<1>1. ASSUME NEW v \in Version, Create(v) PROVE ExtractingIsAtWork'
  BY <1>1, WorkFrame DEF Create, Status
<1>2. ASSUME NEW s \in Sweep, Fetch(s) PROVE ExtractingIsAtWork'
  BY <1>2, WorkFrame DEF Fetch, Idle
<1>3. ASSUME NEW s \in Sweep, NEW v \in Version, Skip(s, v) PROVE ExtractingIsAtWork'
  BY <1>3, WorkFrame DEF Skip, Step
<1>4. ASSUME NEW s \in Sweep, NEW v \in Version, Ingest(s, v) PROVE ExtractingIsAtWork'
  BY <1>4, WorkFrame DEF Ingest, Step
<1>5. ASSUME NEW s \in Sweep, NEW v \in Version, IngestUnchecked(s, v)
      PROVE  ExtractingIsAtWork'
  BY <1>5, WorkFrame DEF IngestUnchecked, Step
<1>6. ASSUME NEW s \in Sweep, NEW v \in Version, NoText(s, v) PROVE ExtractingIsAtWork'
  BY <1>6, WorkFrame DEF NoText, Step
<1>7. ASSUME NEW s \in Sweep, NEW v \in Version, Extract(s, v) PROVE ExtractingIsAtWork'
  <2>1. PICK stage \in {"store", "store low"} : Step(s, v, stage)
    BY <1>7 DEF Extract
  <2> QED  BY <1>7, <2>1, WorkFrame DEF Extract, Step
<1>8. ASSUME NEW s \in Sweep, NEW v \in Version, Complete(s, v) PROVE ExtractingIsAtWork'
  BY <1>8, WorkFrame DEF Complete, Step
<1>9. ASSUME NEW s \in Sweep, NEW v \in Version, RecordPage(s, v) PROVE ExtractingIsAtWork'
  BY <1>9, WorkFrame DEF RecordPage, Step
<1>10. ASSUME NEW s \in Sweep, NEW v \in Version, Fail(s, v) PROVE ExtractingIsAtWork'
  BY <1>10, WorkFrame DEF Fail, Status, Step
<1>11. ASSUME NEW s \in Sweep, NEW v \in Version, Slip(s, v) PROVE ExtractingIsAtWork'
  BY <1>11, WorkFrame DEF Slip, Step
<1>12. ASSUME NEW v \in Version, ManualIngest(v) PROVE ExtractingIsAtWork'
  BY <1>12, WorkFrame DEF ManualIngest
<1>13. CASE Crash
  BY <1>13 DEF Crash, ExtractingIsAtWork
<1>14. CASE UNCHANGED <<ver, sweep, left>>
  BY <1>14, WorkFrame
<1>15. ASSUME NEW v \in Version, ResolvePage(v) \/ Request(v) \/ Review(v)
       PROVE  UNCHANGED <<ver, sweep, left>>
  BY <1>15 DEF ResolvePage, Request, Review
<1>16. ASSUME NEW t \in Tick, Read(t) \/ TakeUpUnchecked(t)
       PROVE  UNCHANGED <<ver, sweep, left>>
  BY <1>16 DEF Read, TakeUp, TakeUpUnchecked, Reads, Upsert, NoClause
<1>17. CASE Toggle \/ UNCHANGED vars
  BY <1>14, <1>17 DEF Toggle, vars
<1> QED
  BY <1>1, <1>2, <1>3, <1>4, <1>5, <1>6, <1>7, <1>8, <1>9, <1>10, <1>11, <1>12, <1>13,
     <1>14, <1>15, <1>16, <1>17 DEF Next, Work

-----------------------------------------------------------------------------
(* Texts. *)

\* Every operation keeps text under the clauses.
LEMMA NextText == IInv /\ [Next]_vars => ClausesHaveText'
<1> SUFFICES ASSUME TypeOK, ClausesHaveText, [Next]_vars PROVE ClausesHaveText'
  BY DEF IInv
<1> USE DEF TypeOK, clauses
<1>1. ASSUME UNCHANGED clauses, \A v \in Version : ver[v].text => ver'[v].text
      PROVE  ClausesHaveText'
  BY <1>1, TextFrame
<1>2. ASSUME NEW v \in Version, Create(v) \/ ManualIngest(v) PROVE ClausesHaveText'
  <2>1. UNCHANGED clauses
    BY <1>2 DEF Create, ManualIngest
  <2>2. \A w \in Version : ver[w].text => ver'[w].text
    <3>1. CASE Create(v)
      BY <3>1 DEF Create, Status
    <3>2. CASE ManualIngest(v)
      BY <3>2, IngestedType DEF ManualIngest
    <3> QED  BY <1>2, <3>1, <3>2
  <2> QED  BY <1>1, <2>1, <2>2
<1>3. ASSUME NEW s \in Sweep, NEW v \in Version, Ingest(s, v) \/ IngestUnchecked(s, v)
      PROVE  ClausesHaveText'
  <2>1. /\ UNCHANGED clauses
        /\ ver' = [ver EXCEPT ![v] = Ingested(v)]
    BY <1>3 DEF Ingest, IngestUnchecked
  <2>2. \A w \in Version : ver[w].text => ver'[w].text
    BY <2>1, IngestedType
  <2> QED  BY <1>1, <2>1, <2>2
<1>4. ASSUME NEW s \in Sweep, NEW v \in Version, Complete(s, v) \/ Fail(s, v)
      PROVE  ClausesHaveText'
  <2>1. UNCHANGED clauses
    BY <1>4 DEF Complete, Fail
  <2>2. \A w \in Version : ver[w].text => ver'[w].text
    <3>1. CASE Complete(s, v)
      BY <3>1 DEF Complete
    <3>2. CASE Fail(s, v)
      BY <3>2 DEF Fail, Status
    <3> QED  BY <1>4, <3>1, <3>2
  <2> QED  BY <1>1, <2>1, <2>2
<1>5. CASE UNCHANGED <<ver, clauses>>
  BY <1>1, <1>5
<1>6. ASSUME NEW s \in Sweep, NEW v \in Version,
             \/ Skip(s, v) \/ NoText(s, v) \/ Extract(s, v) \/ RecordPage(s, v)
             \/ Slip(s, v)
      PROVE  UNCHANGED <<ver, clauses>>
  BY <1>6 DEF Skip, NoText, Extract, RecordPage, Slip
<1>7. ASSUME NEW s \in Sweep, Fetch(s) PROVE UNCHANGED <<ver, clauses>>
  BY <1>7 DEF Fetch
<1>8. ASSUME NEW v \in Version, ResolvePage(v) PROVE UNCHANGED <<ver, clauses>>
  BY <1>8 DEF ResolvePage
<1>9. ASSUME NEW t \in Tick, TakeUp(t) \/ TakeUpUnchecked(t) PROVE ClausesHaveText'
  <2>1. Reads(t)
    BY <1>9 DEF TakeUp, TakeUpUnchecked
  <2> QED  BY <2>1, TextFrame DEF Reads, First, Candidates, ingestion
<1>10. ASSUME NEW t \in Tick, NEW v \in Version, Upsert(t, v) PROVE ClausesHaveText'
  BY <1>10, TextFrame DEF Upsert, Finish, ingestion
<1>11. ASSUME NEW t \in Tick, NEW v \in Version, NoClause(t, v) PROVE ClausesHaveText'
  BY <1>11, TextFrame DEF NoClause, Finish, ingestion
<1>12. ASSUME NEW v \in Version, Request(v) PROVE ClausesHaveText'
  BY <1>12, TextFrame DEF Request, ingestion
<1>13. ASSUME NEW v \in Version, Review(v) PROVE ClausesHaveText'
  BY <1>13, TextFrame DEF Review, ingestion
<1>14. CASE Crash
  BY <1>14, TextFrame DEF Crash
<1>15. CASE Toggle \/ UNCHANGED vars
  BY <1>5, <1>15 DEF Toggle, vars, ingestion
<1> QED
  BY <1>2, <1>3, <1>4, <1>5, <1>6, <1>7, <1>8, <1>9, <1>10, <1>11, <1>12, <1>13, <1>14,
     <1>15 DEF Next, Work, Read

\* The invariant is inductive.
LEMMA NextIInv == IInv /\ [Next]_vars => IInv'
BY NextType, NextAtWork, NextText DEF IInv

-----------------------------------------------------------------------------
(* Theorems. *)

\* Versions, sweeps, clauses and readings keep their types.
THEOREM TypeCorrect == Spec => []TypeOK
<1>1. Init => IInv
  BY InitIInv
<1>2. IInv /\ [Next]_vars => IInv'
  BY NextIInv
<1>3. IInv => TypeOK
  BY DEF IInv
<1> QED  BY <1>1, <1>2, <1>3, PTL DEF Spec

\* An extracting version is in the hands of a sweep or was given up, for any
\* number of sweeps that overlap, failed calls and crashes.
THEOREM ExtractingAlwaysHeld == Spec => []ExtractingIsHeld
<1>1. Init => IInv
  BY InitIInv
<1>2. IInv /\ [Next]_vars => IInv'
  BY NextIInv
<1>3. IInv => ExtractingIsHeld
  BY DEF IInv, ExtractingIsAtWork, AtWork, ExtractingIsHeld
<1> QED  BY <1>1, <1>2, <1>3, PTL DEF Spec

\* Clauses have a text under them, whatever sweeps complete or fail meanwhile.
THEOREM ClausesAlwaysHaveText == Spec => []ClausesHaveText
<1>1. Init => IInv
  BY InitIInv
<1>2. IInv /\ [Next]_vars => IInv'
  BY NextIInv
<1>3. IInv => ClausesHaveText
  BY DEF IInv
<1> QED  BY <1>1, <1>2, <1>3, PTL DEF Spec
=============================================================================
