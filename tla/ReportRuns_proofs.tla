-------------------------- MODULE ReportRuns_proofs --------------------------
(* What TLAPS proves of the report runs, for any number of runs, of ticks    *)
(* that overlap and of runs that a tick claims.                              *)
EXTENDS ReportRuns, FiniteSetTheorems, TLAPS

\* Only a run that is complete names the one who completed it, and an
\* execution that is named has its output in the bucket.
Outcomes ==
    \A r \in Run :
        /\ run[r].status # "complete" <=> run[r].by = Nobody
        /\ run[r].by \in Executor => run[r].by \in file[r]

\* An execution that is about to record its outcome has stored its output.
Stored ==
    \A e \in Executor, r \in Run : job[e][r] = "record" => e \in file[r]

\* The request is at work on runs that exist and that it has neither completed
\* nor answered for.
Asked ==
    \A r \in Run :
        /\ answer[r] # "none" => job[Inline][r] = "none" /\ run[r].status # "none"
        /\ job[Inline][r] # "none" => run[r].by # Inline /\ run[r].status # "none"

\* A tick is at work on runs that are claimed, and no other tick is.
Held ==
    \A t \in Tick, r \in Run : job[t][r] # "none" =>
        /\ run[r].status \notin {"none", "pending"}
        /\ \A u \in Tick : job[u][r] # "none" => u = t

\* A run that is generating is at work or given up.
Kept ==
    \A r \in Run : run[r].status = "generating" =>
        r \in left \/ \E t \in Tick : job[t][r] # "none"

IInv == TypeOK /\ Outcomes /\ Stored /\ Asked /\ AnswerHolds /\ Held /\ Kept

\* The invariant holds before a run is triggered.
LEMMA InitIInv == Init => IInv
<1> SUFFICES ASSUME Init PROVE IInv
  OBVIOUS
<1> USE NameAssumption, RunAssumption DEF Executor, Terminal
<1>1. TypeOK
  <2>1. 0 \in 0..Slips
    OBVIOUS
  <2>2. job \in [Executor -> [Run -> Stage]]
    BY DEF Init, Idle, Stage
  <2> QED  BY <2>1, <2>2 DEF Init, TypeOK
<1>2. Outcomes /\ Stored /\ Asked /\ AnswerHolds /\ Held /\ Kept
  BY DEF Init, Idle, Outcomes, Stored, Asked, AnswerHolds, Held, Kept
<1> QED  BY <1>1, <1>2 DEF IInv

-----------------------------------------------------------------------------
(* The steps, conjunct by conjunct. *)

\* Every operation keeps the types.
LEMMA TypeNext == IInv /\ [Next]_vars => TypeOK'
<1> SUFFICES ASSUME IInv, [Next]_vars PROVE TypeOK'
  OBVIOUS
<1>0. TypeOK
  BY DEF IInv
<1> USE NameAssumption, RunAssumption DEF Executor, Terminal
<1>1. ASSUME NEW r \in Run, Trigger(r)
      PROVE  TypeOK'
  BY <1>0, <1>1 DEF Trigger, TypeOK, Stage, Idle
<1>2. ASSUME NEW t \in Tick, Poll(t)
      PROVE  TypeOK'
  BY <1>0, <1>2 DEF Poll, Marked, Oldest, Pending, TypeOK, Stage, Idle
<1>3. ASSUME PollByHand
      PROVE  TypeOK'
  BY <1>0, <1>3 DEF PollByHand, Marked, Oldest, Pending, TypeOK, Stage, Idle
<1>4. ASSUME NEW t \in Tick, NEW r \in Run, Guard(t, r)
      PROVE  TypeOK'
  <2>1. ASSUME NEW stage \in Stage, job' = [job EXCEPT ![t][r] = stage]
        PROVE  job' \in [Executor -> [Run -> Stage]]
    BY <1>0, <2>1 DEF TypeOK
  <2>2. job' \in [Executor -> [Run -> Stage]]
    BY <1>4, <2>1 DEF Guard, Stage
  <2> QED  BY <1>0, <1>4, <2>2 DEF Guard, TypeOK
<1>5. ASSUME NEW e \in Executor, NEW r \in Run, Render(e, r)
      PROVE  TypeOK'
  BY <1>0, <1>5 DEF Render, TypeOK, Stage, Idle
<1>6. ASSUME NEW e \in Executor, NEW r \in Run, Upload(e, r)
      PROVE  TypeOK'
  BY <1>0, <1>6 DEF Upload, TypeOK, Stage, Idle
<1>7. ASSUME NEW e \in Executor, NEW r \in Run, Complete(e, r)
      PROVE  TypeOK'
  BY <1>0, <1>7 DEF Complete, Completable, Return, TypeOK, Stage, Idle
<1>8. ASSUME NEW e \in Executor, NEW r \in Run, MarkFailed(e, r)
      PROVE  TypeOK'
  BY <1>0, <1>8 DEF MarkFailed, Completable, Return, TypeOK, Stage, Idle
<1>9. ASSUME NEW e \in Executor, NEW r \in Run, TooLate(e, r)
      PROVE  TypeOK'
  BY <1>0, <1>9 DEF TooLate, Completable, Return, TypeOK, Stage, Idle
<1>10. ASSUME NEW e \in Executor, NEW r \in Run, Slip(e, r)
      PROVE  TypeOK'
  BY <1>0, <1>10 DEF Slip, Return, TypeOK, Stage, Idle
<1>11. ASSUME NEW r \in Run, NEW status \in Terminal, CompleteByHand(r, status)
      PROVE  TypeOK'
  BY <1>0, <1>11 DEF CompleteByHand, Completable, TypeOK, Stage, Idle
<1>12. ASSUME Toggle
      PROVE  TypeOK'
  BY <1>0, <1>12 DEF Toggle, TypeOK, Stage, Idle
<1>13. ASSUME Crash
      PROVE  TypeOK'
  BY <1>0, <1>13 DEF Crash, Idle, TypeOK, Stage, Idle
<1>14. ASSUME UNCHANGED vars
      PROVE  TypeOK'
  BY <1>0, <1>14 DEF vars, TypeOK, Stage, Idle
<1> QED
  BY <1>1, <1>2, <1>3, <1>4, <1>5, <1>6, <1>7, <1>8, <1>9, <1>10, <1>11, <1>12, <1>13, <1>14
  DEF Next, Work, Execute

\* A run that is complete says whose execution has completed it.
LEMMA OutcomeNext == IInv /\ [Next]_vars => Outcomes'
<1> SUFFICES ASSUME IInv, [Next]_vars PROVE Outcomes'
  OBVIOUS
<1>0. TypeOK /\ Outcomes /\ Stored
  BY DEF IInv
<1> USE NameAssumption, RunAssumption DEF Executor, Terminal
<1>1. ASSUME NEW r \in Run, Trigger(r)
      PROVE  Outcomes'
  BY <1>0, <1>1 DEF Trigger, TypeOK, Outcomes, Stored
<1>2. ASSUME NEW t \in Tick, Poll(t)
      PROVE  Outcomes'
  BY <1>0, <1>2 DEF Poll, Marked, Oldest, Pending, TypeOK, Outcomes, Stored
<1>3. ASSUME PollByHand
      PROVE  Outcomes'
  BY <1>0, <1>3 DEF PollByHand, Marked, Oldest, Pending, TypeOK, Outcomes, Stored
<1>4. ASSUME NEW t \in Tick, NEW r \in Run, Guard(t, r)
      PROVE  Outcomes'
  BY <1>0, <1>4 DEF Guard, TypeOK, Outcomes, Stored
<1>5. ASSUME NEW e \in Executor, NEW r \in Run, Render(e, r)
      PROVE  Outcomes'
  BY <1>0, <1>5 DEF Render, TypeOK, Outcomes, Stored
<1>6. ASSUME NEW e \in Executor, NEW r \in Run, Upload(e, r)
      PROVE  Outcomes'
  BY <1>0, <1>6 DEF Upload, TypeOK, Outcomes, Stored
<1>7. ASSUME NEW e \in Executor, NEW r \in Run, Complete(e, r)
      PROVE  Outcomes'
  BY <1>0, <1>7 DEF Complete, Completable, Return, TypeOK, Outcomes, Stored
<1>8. ASSUME NEW e \in Executor, NEW r \in Run, MarkFailed(e, r)
      PROVE  Outcomes'
  BY <1>0, <1>8 DEF MarkFailed, Completable, Return, TypeOK, Outcomes, Stored
<1>9. ASSUME NEW e \in Executor, NEW r \in Run, TooLate(e, r)
      PROVE  Outcomes'
  BY <1>0, <1>9 DEF TooLate, Completable, Return, TypeOK, Outcomes, Stored
<1>10. ASSUME NEW e \in Executor, NEW r \in Run, Slip(e, r)
      PROVE  Outcomes'
  BY <1>0, <1>10 DEF Slip, Return, TypeOK, Outcomes, Stored
<1>11. ASSUME NEW r \in Run, NEW status \in Terminal, CompleteByHand(r, status)
      PROVE  Outcomes'
  BY <1>0, <1>11 DEF CompleteByHand, Completable, TypeOK, Outcomes, Stored
<1>12. ASSUME Toggle
      PROVE  Outcomes'
  BY <1>0, <1>12 DEF Toggle, TypeOK, Outcomes, Stored
<1>13. ASSUME Crash
      PROVE  Outcomes'
  BY <1>0, <1>13 DEF Crash, Idle, TypeOK, Outcomes, Stored
<1>14. ASSUME UNCHANGED vars
      PROVE  Outcomes'
  BY <1>0, <1>14 DEF vars, TypeOK, Outcomes, Stored
<1> QED
  BY <1>1, <1>2, <1>3, <1>4, <1>5, <1>6, <1>7, <1>8, <1>9, <1>10, <1>11, <1>12, <1>13, <1>14
  DEF Next, Work, Execute

\* An execution about to record its outcome has stored its output.
LEMMA StoredNext == IInv /\ [Next]_vars => Stored'
<1> SUFFICES ASSUME IInv, [Next]_vars PROVE Stored'
  OBVIOUS
<1>0. TypeOK /\ Stored
  BY DEF IInv
<1> USE NameAssumption, RunAssumption DEF Executor, Terminal
<1>1. ASSUME NEW r \in Run, Trigger(r)
      PROVE  Stored'
  BY <1>0, <1>1 DEF Trigger, TypeOK, Stored, Idle
<1>2. ASSUME NEW t \in Tick, Poll(t)
      PROVE  Stored'
  BY <1>0, <1>2 DEF Poll, Marked, Oldest, Pending, TypeOK, Stored, Idle
<1>3. ASSUME PollByHand
      PROVE  Stored'
  BY <1>0, <1>3 DEF PollByHand, Marked, Oldest, Pending, TypeOK, Stored, Idle
<1>4. ASSUME NEW t \in Tick, NEW r \in Run, Guard(t, r)
      PROVE  Stored'
  BY <1>0, <1>4 DEF Guard, TypeOK, Stored, Idle
<1>5. ASSUME NEW e \in Executor, NEW r \in Run, Render(e, r)
      PROVE  Stored'
  BY <1>0, <1>5 DEF Render, TypeOK, Stored, Idle
<1>6. ASSUME NEW e \in Executor, NEW r \in Run, Upload(e, r)
      PROVE  Stored'
  BY <1>0, <1>6 DEF Upload, TypeOK, Stored, Idle
<1>7. ASSUME NEW e \in Executor, NEW r \in Run, Complete(e, r)
      PROVE  Stored'
  BY <1>0, <1>7 DEF Complete, Completable, Return, TypeOK, Stored, Idle
<1>8. ASSUME NEW e \in Executor, NEW r \in Run, MarkFailed(e, r)
      PROVE  Stored'
  BY <1>0, <1>8 DEF MarkFailed, Completable, Return, TypeOK, Stored, Idle
<1>9. ASSUME NEW e \in Executor, NEW r \in Run, TooLate(e, r)
      PROVE  Stored'
  BY <1>0, <1>9 DEF TooLate, Completable, Return, TypeOK, Stored, Idle
<1>10. ASSUME NEW e \in Executor, NEW r \in Run, Slip(e, r)
      PROVE  Stored'
  BY <1>0, <1>10 DEF Slip, Return, TypeOK, Stored, Idle
<1>11. ASSUME NEW r \in Run, NEW status \in Terminal, CompleteByHand(r, status)
      PROVE  Stored'
  BY <1>0, <1>11 DEF CompleteByHand, Completable, TypeOK, Stored, Idle
<1>12. ASSUME Toggle
      PROVE  Stored'
  BY <1>0, <1>12 DEF Toggle, TypeOK, Stored, Idle
<1>13. ASSUME Crash
      PROVE  Stored'
  BY <1>0, <1>13 DEF Crash, Idle, TypeOK, Stored, Idle
<1>14. ASSUME UNCHANGED vars
      PROVE  Stored'
  BY <1>0, <1>14 DEF vars, TypeOK, Stored, Idle
<1> QED
  BY <1>1, <1>2, <1>3, <1>4, <1>5, <1>6, <1>7, <1>8, <1>9, <1>10, <1>11, <1>12, <1>13, <1>14
  DEF Next, Work, Execute

\* The request renders a run once, and answers when it is done.
LEMMA AskedNext == IInv /\ [Next]_vars => Asked'
<1> SUFFICES ASSUME IInv, [Next]_vars PROVE Asked'
  OBVIOUS
<1>0. TypeOK /\ Outcomes /\ Asked
  BY DEF IInv
<1> USE NameAssumption, RunAssumption DEF Executor, Terminal
<1>1. ASSUME NEW r \in Run, Trigger(r)
      PROVE  Asked'
  BY <1>0, <1>1 DEF Trigger, TypeOK, Outcomes, Asked, Idle
<1>2. ASSUME NEW t \in Tick, Poll(t)
      PROVE  Asked'
  BY <1>0, <1>2 DEF Poll, Marked, Oldest, Pending, TypeOK, Outcomes, Asked, Idle
<1>3. ASSUME PollByHand
      PROVE  Asked'
  BY <1>0, <1>3 DEF PollByHand, Marked, Oldest, Pending, TypeOK, Outcomes, Asked, Idle
<1>4. ASSUME NEW t \in Tick, NEW r \in Run, Guard(t, r)
      PROVE  Asked'
  BY <1>0, <1>4 DEF Guard, TypeOK, Outcomes, Asked, Idle
<1>5. ASSUME NEW e \in Executor, NEW r \in Run, Render(e, r)
      PROVE  Asked'
  BY <1>0, <1>5 DEF Render, TypeOK, Outcomes, Asked, Idle
<1>6. ASSUME NEW e \in Executor, NEW r \in Run, Upload(e, r)
      PROVE  Asked'
  BY <1>0, <1>6 DEF Upload, TypeOK, Outcomes, Asked, Idle
<1>7. ASSUME NEW e \in Executor, NEW r \in Run, Complete(e, r)
      PROVE  Asked'
  BY <1>0, <1>7 DEF Complete, Completable, Return, TypeOK, Outcomes, Asked, Idle
<1>8. ASSUME NEW e \in Executor, NEW r \in Run, MarkFailed(e, r)
      PROVE  Asked'
  BY <1>0, <1>8 DEF MarkFailed, Completable, Return, TypeOK, Outcomes, Asked, Idle
<1>9. ASSUME NEW e \in Executor, NEW r \in Run, TooLate(e, r)
      PROVE  Asked'
  BY <1>0, <1>9 DEF TooLate, Completable, Return, TypeOK, Outcomes, Asked, Idle
<1>10. ASSUME NEW e \in Executor, NEW r \in Run, Slip(e, r)
      PROVE  Asked'
  BY <1>0, <1>10 DEF Slip, Return, TypeOK, Outcomes, Asked, Idle
<1>11. ASSUME NEW r \in Run, NEW status \in Terminal, CompleteByHand(r, status)
      PROVE  Asked'
  BY <1>0, <1>11 DEF CompleteByHand, Completable, TypeOK, Outcomes, Asked, Idle
<1>12. ASSUME Toggle
      PROVE  Asked'
  BY <1>0, <1>12 DEF Toggle, TypeOK, Outcomes, Asked, Idle
<1>13. ASSUME Crash
      PROVE  Asked'
  BY <1>0, <1>13 DEF Crash, Idle, TypeOK, Outcomes, Asked, Idle
<1>14. ASSUME UNCHANGED vars
      PROVE  Asked'
  BY <1>0, <1>14 DEF vars, TypeOK, Outcomes, Asked, Idle
<1> QED
  BY <1>1, <1>2, <1>3, <1>4, <1>5, <1>6, <1>7, <1>8, <1>9, <1>10, <1>11, <1>12, <1>13, <1>14
  DEF Next, Work, Execute

\* What a caller was told stays so.
LEMMA AnswerNext == IInv /\ [Next]_vars => AnswerHolds'
<1> SUFFICES ASSUME IInv, [Next]_vars PROVE AnswerHolds'
  OBVIOUS
<1>0. TypeOK /\ Outcomes /\ Asked /\ AnswerHolds
  BY DEF IInv
<1> USE NameAssumption, RunAssumption DEF Executor, Terminal
<1>1. ASSUME NEW r \in Run, Trigger(r)
      PROVE  AnswerHolds'
  BY <1>0, <1>1 DEF Trigger, TypeOK, Outcomes, Asked, AnswerHolds
<1>2. ASSUME NEW t \in Tick, Poll(t)
      PROVE  AnswerHolds'
  BY <1>0, <1>2 DEF Poll, Marked, Oldest, Pending, TypeOK, Outcomes, Asked, AnswerHolds
<1>3. ASSUME PollByHand
      PROVE  AnswerHolds'
  BY <1>0, <1>3 DEF PollByHand, Marked, Oldest, Pending, TypeOK, Outcomes, Asked, AnswerHolds
<1>4. ASSUME NEW t \in Tick, NEW r \in Run, Guard(t, r)
      PROVE  AnswerHolds'
  BY <1>0, <1>4 DEF Guard, TypeOK, Outcomes, Asked, AnswerHolds
<1>5. ASSUME NEW e \in Executor, NEW r \in Run, Render(e, r)
      PROVE  AnswerHolds'
  BY <1>0, <1>5 DEF Render, TypeOK, Outcomes, Asked, AnswerHolds
<1>6. ASSUME NEW e \in Executor, NEW r \in Run, Upload(e, r)
      PROVE  AnswerHolds'
  BY <1>0, <1>6 DEF Upload, TypeOK, Outcomes, Asked, AnswerHolds
<1>7. ASSUME NEW e \in Executor, NEW r \in Run, Complete(e, r)
      PROVE  AnswerHolds'
  BY <1>0, <1>7 DEF Complete, Completable, Return, TypeOK, Outcomes, Asked, AnswerHolds
<1>8. ASSUME NEW e \in Executor, NEW r \in Run, MarkFailed(e, r)
      PROVE  AnswerHolds'
  BY <1>0, <1>8 DEF MarkFailed, Completable, Return, TypeOK, Outcomes, Asked, AnswerHolds
<1>9. ASSUME NEW e \in Executor, NEW r \in Run, TooLate(e, r)
      PROVE  AnswerHolds'
  BY <1>0, <1>9 DEF TooLate, Completable, Return, TypeOK, Outcomes, Asked, AnswerHolds
<1>10. ASSUME NEW e \in Executor, NEW r \in Run, Slip(e, r)
      PROVE  AnswerHolds'
  BY <1>0, <1>10 DEF Slip, Return, TypeOK, Outcomes, Asked, AnswerHolds
<1>11. ASSUME NEW r \in Run, NEW status \in Terminal, CompleteByHand(r, status)
      PROVE  AnswerHolds'
  BY <1>0, <1>11 DEF CompleteByHand, Completable, TypeOK, Outcomes, Asked, AnswerHolds
<1>12. ASSUME Toggle
      PROVE  AnswerHolds'
  BY <1>0, <1>12 DEF Toggle, TypeOK, Outcomes, Asked, AnswerHolds
<1>13. ASSUME Crash
      PROVE  AnswerHolds'
  BY <1>0, <1>13 DEF Crash, Idle, TypeOK, Outcomes, Asked, AnswerHolds
<1>14. ASSUME UNCHANGED vars
      PROVE  AnswerHolds'
  BY <1>0, <1>14 DEF vars, TypeOK, Outcomes, Asked, AnswerHolds
<1> QED
  BY <1>1, <1>2, <1>3, <1>4, <1>5, <1>6, <1>7, <1>8, <1>9, <1>10, <1>11, <1>12, <1>13, <1>14
  DEF Next, Work, Execute

\* No two ticks hold the same run.
LEMMA HeldNext == IInv /\ [Next]_vars => Held'
<1> SUFFICES ASSUME IInv, [Next]_vars PROVE Held'
  OBVIOUS
<1>0. TypeOK /\ Held
  BY DEF IInv
<1> USE NameAssumption, RunAssumption DEF Executor, Terminal
<1>1. ASSUME NEW r \in Run, Trigger(r)
      PROVE  Held'
  BY <1>0, <1>1 DEF Trigger, TypeOK, Held, Idle
<1>2. ASSUME NEW t \in Tick, Poll(t)
      PROVE  Held'
  BY <1>0, <1>2 DEF Poll, Marked, Oldest, Pending, TypeOK, Held, Idle
<1>3. ASSUME PollByHand
      PROVE  Held'
  BY <1>0, <1>3 DEF PollByHand, Marked, Oldest, Pending, TypeOK, Held, Idle
<1>4. ASSUME NEW t \in Tick, NEW r \in Run, Guard(t, r)
      PROVE  Held'
  BY <1>0, <1>4 DEF Guard, TypeOK, Held, Idle
<1>5. ASSUME NEW e \in Executor, NEW r \in Run, Render(e, r)
      PROVE  Held'
  BY <1>0, <1>5 DEF Render, TypeOK, Held, Idle
<1>6. ASSUME NEW e \in Executor, NEW r \in Run, Upload(e, r)
      PROVE  Held'
  BY <1>0, <1>6 DEF Upload, TypeOK, Held, Idle
<1>7. ASSUME NEW e \in Executor, NEW r \in Run, Complete(e, r)
      PROVE  Held'
  BY <1>0, <1>7 DEF Complete, Completable, Return, TypeOK, Held, Idle
<1>8. ASSUME NEW e \in Executor, NEW r \in Run, MarkFailed(e, r)
      PROVE  Held'
  BY <1>0, <1>8 DEF MarkFailed, Completable, Return, TypeOK, Held, Idle
<1>9. ASSUME NEW e \in Executor, NEW r \in Run, TooLate(e, r)
      PROVE  Held'
  BY <1>0, <1>9 DEF TooLate, Completable, Return, TypeOK, Held, Idle
<1>10. ASSUME NEW e \in Executor, NEW r \in Run, Slip(e, r)
      PROVE  Held'
  BY <1>0, <1>10 DEF Slip, Return, TypeOK, Held, Idle
<1>11. ASSUME NEW r \in Run, NEW status \in Terminal, CompleteByHand(r, status)
      PROVE  Held'
  BY <1>0, <1>11 DEF CompleteByHand, Completable, TypeOK, Held, Idle
<1>12. ASSUME Toggle
      PROVE  Held'
  BY <1>0, <1>12 DEF Toggle, TypeOK, Held, Idle
<1>13. ASSUME Crash
      PROVE  Held'
  BY <1>0, <1>13 DEF Crash, Idle, TypeOK, Held, Idle
<1>14. ASSUME UNCHANGED vars
      PROVE  Held'
  BY <1>0, <1>14 DEF vars, TypeOK, Held, Idle
<1> QED
  BY <1>1, <1>2, <1>3, <1>4, <1>5, <1>6, <1>7, <1>8, <1>9, <1>10, <1>11, <1>12, <1>13, <1>14
  DEF Next, Work, Execute

\* A run that is generating is held or given up.
LEMMA KeptNext == IInv /\ [Next]_vars => Kept'
<1> SUFFICES ASSUME IInv, [Next]_vars PROVE Kept'
  OBVIOUS
<1>0. TypeOK /\ Held /\ Kept
  BY DEF IInv
<1> USE NameAssumption, RunAssumption DEF Executor, Terminal
<1>1. ASSUME NEW r \in Run, Trigger(r)
      PROVE  Kept'
  BY <1>0, <1>1 DEF Trigger, TypeOK, Held, Kept, Idle
<1>2. ASSUME NEW t \in Tick, Poll(t)
      PROVE  Kept'
  BY <1>0, <1>2 DEF Poll, Marked, Oldest, Pending, TypeOK, Held, Kept, Idle
<1>3. ASSUME PollByHand
      PROVE  Kept'
  BY <1>0, <1>3 DEF PollByHand, Marked, Oldest, Pending, TypeOK, Held, Kept, Idle
<1>4. ASSUME NEW t \in Tick, NEW r \in Run, Guard(t, r)
      PROVE  Kept'
  BY <1>0, <1>4 DEF Guard, TypeOK, Held, Kept, Idle
<1>5. ASSUME NEW e \in Executor, NEW r \in Run, Render(e, r)
      PROVE  Kept'
  BY <1>0, <1>5 DEF Render, TypeOK, Held, Kept, Idle
<1>6. ASSUME NEW e \in Executor, NEW r \in Run, Upload(e, r)
      PROVE  Kept'
  BY <1>0, <1>6 DEF Upload, TypeOK, Held, Kept, Idle
<1>7. ASSUME NEW e \in Executor, NEW r \in Run, Complete(e, r)
      PROVE  Kept'
  BY <1>0, <1>7 DEF Complete, Completable, Return, TypeOK, Held, Kept, Idle
<1>8. ASSUME NEW e \in Executor, NEW r \in Run, MarkFailed(e, r)
      PROVE  Kept'
  BY <1>0, <1>8 DEF MarkFailed, Completable, Return, TypeOK, Held, Kept, Idle
<1>9. ASSUME NEW e \in Executor, NEW r \in Run, TooLate(e, r)
      PROVE  Kept'
  BY <1>0, <1>9 DEF TooLate, Completable, Return, TypeOK, Held, Kept, Idle
<1>10. ASSUME NEW e \in Executor, NEW r \in Run, Slip(e, r)
      PROVE  Kept'
  BY <1>0, <1>10 DEF Slip, Return, TypeOK, Held, Kept, Idle
<1>11. ASSUME NEW r \in Run, NEW status \in Terminal, CompleteByHand(r, status)
      PROVE  Kept'
  BY <1>0, <1>11 DEF CompleteByHand, Completable, TypeOK, Held, Kept, Idle
<1>12. ASSUME Toggle
      PROVE  Kept'
  BY <1>0, <1>12 DEF Toggle, TypeOK, Held, Kept, Idle
<1>13. ASSUME Crash
      PROVE  Kept'
  BY <1>0, <1>13 DEF Crash, Idle, TypeOK, Held, Kept, Idle
<1>14. ASSUME UNCHANGED vars
      PROVE  Kept'
  BY <1>0, <1>14 DEF vars, TypeOK, Held, Kept, Idle
<1> QED
  BY <1>1, <1>2, <1>3, <1>4, <1>5, <1>6, <1>7, <1>8, <1>9, <1>10, <1>11, <1>12, <1>13, <1>14
  DEF Next, Work, Execute

\* Every operation keeps the invariant.
LEMMA NextIInv == IInv /\ [Next]_vars => IInv'
BY TypeNext, OutcomeNext, StoredNext, AskedNext, AnswerNext, HeldNext, KeptNext DEF IInv

-----------------------------------------------------------------------------
(* The properties. *)

\* What getRunById offers has an execution's output behind it.
LEMMA OutcomesGiveOutput == IInv => OutputExists
BY DEF IInv, TypeOK, Outcomes, OutputExists, Offered

\* At most one tick is at work on a run.
LEMMA HeldOnce ==
    ASSUME Held, NEW r \in Run
    PROVE  Cardinality({t \in Tick : job[t][r] # "none"}) <= 1
<1> DEFINE S == {t \in Tick : job[t][r] # "none"}
<1>1. CASE S = {}
  BY <1>1, FS_EmptySet
<1>2. CASE S # {}
  <2>1. PICK t \in S : TRUE
    BY <1>2
  <2>2. S = {t}
    BY <2>1 DEF Held
  <2>3. Cardinality(S) = 1
    BY <2>2, FS_Singleton
  <2> QED  BY <2>3
<1> QED  BY <1>1, <1>2

\* The claims of the invariant are those of ClaimIsHeld.
LEMMA HeldGivesClaims == IInv => ClaimIsHeld
BY HeldOnce DEF IInv, Kept, ClaimIsHeld

\* Runs, executions, files and answers keep their types.
THEOREM TypeCorrect == Spec => []TypeOK
<1>1. Init => IInv
  BY InitIInv
<1>2. IInv /\ [Next]_vars => IInv'
  BY NextIInv
<1>3. IInv => TypeOK
  BY DEF IInv
<1> QED  BY <1>1, <1>2, <1>3, PTL DEF Spec

\* A run that is offered for download has its file.
THEOREM OutputAlwaysExists == Spec => []OutputExists
<1>1. Init => IInv
  BY InitIInv
<1>2. IInv /\ [Next]_vars => IInv'
  BY NextIInv
<1>3. IInv => OutputExists
  BY OutcomesGiveOutput
<1> QED  BY <1>1, <1>2, <1>3, PTL DEF Spec

\* What a caller was told of a run stays true.
THEOREM AnswersHold == Spec => []AnswerHolds
<1>1. Init => IInv
  BY InitIInv
<1>2. IInv /\ [Next]_vars => IInv'
  BY NextIInv
<1>3. IInv => AnswerHolds
  BY DEF IInv
<1> QED  BY <1>1, <1>2, <1>3, PTL DEF Spec

\* A claimed run is in one tick's hands, or given up.
THEOREM ClaimsAreHeld == Spec => []ClaimIsHeld
<1>1. Init => IInv
  BY InitIInv
<1>2. IInv /\ [Next]_vars => IInv'
  BY NextIInv
<1>3. IInv => ClaimIsHeld
  BY HeldGivesClaims
<1> QED  BY <1>1, <1>2, <1>3, PTL DEF Spec
=============================================================================
