--------------------------- MODULE SaveSession_proof ---------------------------
(***************************************************************************)
(* Proofs about SaveSession, for every set of limits.  TypeOK and          *)
(* SessionInv are inductive together; the claims on the number of frames a *)
(* recording stores follow from them.                                      *)
(***************************************************************************)
EXTENDS SaveSession, TLAPS

LEMMA TypeInit == Init => TypeOK
  BY LimitsAssumption DEF Init, TypeOK

LEMMA TypeStep == TypeOK /\ [Next]_vars => TypeOK'
<1> SUFFICES ASSUME TypeOK, [Next]_vars PROVE TypeOK'
  OBVIOUS
<1>0. SaveDataSlot => raced' \in BOOLEAN
  <2> SUFFICES ASSUME SaveDataSlot PROVE raced' \in BOOLEAN
    OBVIOUS
  <2>1. CASE wpc \in Inside
    <3>1. raced' = TRUE
      BY <2>1, Zenon DEF SaveDataSlot
    <3> QED
      BY <3>1
  <2>2. CASE wpc \notin Inside
    <3>1. raced' = (wpc \in Inside)
      BY Zenon DEF SaveDataSlot
    <3>2. (wpc \in Inside) = FALSE
      BY <2>2
    <3> QED
      BY <3>1, <3>2
  <2> QED
    BY <2>1, <2>2
<1> USE LimitsAssumption DEF TypeOK, Inside, shared, guiVars, worker, history
<1>1. CASE Run \/ SetSaveCount \/ SetMaxCount \/ SaveStopSlot \/ StopingProgram
  BY <1>1 DEF Run, SetSaveCount, SetMaxCount, SaveStopSlot, StopingProgram
<1>6. CASE SaveDataSlot
  <2>2. /\ flag' \in Limits /\ asked' = flag' /\ stored' = 0 /\ done' = FALSE /\ late' = 0
        /\ isGoingToSaveData' = TRUE /\ gpc' = "count"
        /\ UNCHANGED <<isRunning, save_count, max_count, quitProgram, wpc, operand, synced>>
    BY <1>6 DEF SaveDataSlot
  <2> QED
    BY <1>0, <1>6, <2>2
<1>2. CASE LoopTest \/ ReadNothing \/ (\E s \in BOOLEAN : ReadFrame(s)) \/ TestSaving \/ TestLimit
  BY <1>2 DEF LoopTest, ReadNothing, ReadFrame, TestSaving, TestLimit
<1>3. CASE ReadOperand \/ CompareCount \/ ReportProgress \/ ClearSaving \/ ResetCount
  BY <1>3 DEF ReadOperand, CompareCount, ReportProgress, ClearSaving, ResetCount
<1>4. CASE StoreFrame \/ ReadCount \/ WriteCount
  BY <1>4 DEF StoreFrame, ReadCount, WriteCount
<1>5. CASE UNCHANGED vars
  BY <1>5 DEF vars
<1> QED
  BY <1>1, <1>2, <1>3, <1>4, <1>5, <1>6 DEF Next, Worker

LEMMA SessionInit == Init => SessionInv
  BY DEF Init, SessionInv, CountKept, StartAlone, AfterDone, NotYetLate, Inside

(* The steps of the GUI thread: a start that finds the worker inside a     *)
(* pass is raced, and otherwise the worker stays outside until it is over. *)
LEMMA GuiStep ==
  ASSUME TypeOK, SessionInv,
         Run \/ SaveDataSlot \/ SetSaveCount \/ SetMaxCount \/ SaveStopSlot \/ StopingProgram
  PROVE  SessionInv'
<1> USE DEF SessionInv, CountKept, StartAlone, AfterDone, NotYetLate
<1>t. stored \in Nat /\ late \in Nat /\ save_count \in Nat /\ max_count \in Nat /\ asked \in Nat
  BY LimitsAssumption DEF TypeOK
<1>1. CASE Run \/ StopingProgram
  BY <1>1 DEF Run, StopingProgram, guiVars, worker, history
<1>2. CASE SaveDataSlot
  <2>1. /\ gpc' = "count" /\ asked' = flag' /\ stored' = 0 /\ done' = FALSE /\ late' = 0
        /\ wpc' = wpc
    BY <1>2 DEF SaveDataSlot, worker
  <2>2. ~raced' => wpc' \notin Inside
    BY <1>2, <2>1, Zenon DEF SaveDataSlot
  <2> QED
    BY <2>1, <2>2
<1>3. CASE SetSaveCount
  BY <1>3 DEF SetSaveCount, worker, history
<1>4. CASE SetMaxCount
  <2>1. /\ gpc = "max" /\ gpc' = "idle" /\ max_count' = flag
        /\ UNCHANGED <<isGoingToSaveData, save_count, wpc, operand, asked, stored, done, raced, late>>
    BY <1>4 DEF SetMaxCount, worker, history
  <2>2. ~raced => flag = asked /\ save_count = 0
    BY <2>1
  <2> QED
    BY <2>1, <2>2, <1>t DEF Inside
<1>5. CASE SaveStopSlot
  BY <1>5 DEF SaveStopSlot, guiVars, worker, history
<1> QED
  BY <1>1, <1>2, <1>3, <1>4, <1>5

(* The steps of the worker *)
LEMMA WorkerStep == TypeOK /\ SessionInv /\ Worker => SessionInv'
<1> SUFFICES ASSUME TypeOK, SessionInv, Worker PROVE SessionInv'
  OBVIOUS
<1> USE DEF SessionInv, CountKept, StartAlone, AfterDone, NotYetLate, Inside
<1>t. stored \in Nat /\ late \in Nat /\ save_count \in Nat /\ max_count \in Nat /\ asked \in Nat
  BY LimitsAssumption DEF TypeOK
<1>1. CASE LoopTest \/ ReadNothing \/ ReadFrame(TRUE) \/ ReadFrame(FALSE)
  BY <1>1 DEF LoopTest, ReadNothing, ReadFrame, shared, guiVars, history
<1>2. CASE TestSaving
  <2>1. /\ wpc = "saving" /\ wpc' = IF isGoingToSaveData THEN "limit" ELSE "loop"
        /\ UNCHANGED <<isGoingToSaveData, save_count, max_count, gpc, flag, operand, asked, stored,
                       done, late>>
    BY <1>2 DEF TestSaving, shared, guiVars
  <2>2. ~raced' => ~raced /\ (isGoingToSaveData => gpc = "idle")
    BY <1>2, Zenon DEF TestSaving
  <2> QED
    BY <2>1, <2>2, <1>t
<1>3. CASE TestLimit
  BY <1>3, <1>t DEF TestLimit, shared, guiVars, history
<1>4. CASE ReadOperand
  BY <1>4, <1>t DEF ReadOperand, shared, guiVars, history
<1>5. CASE CompareCount
  BY <1>5, <1>t DEF CompareCount, shared, guiVars, history
<1>6. CASE ReportProgress
  BY <1>6, <1>t DEF ReportProgress, shared, guiVars, history
<1>7. CASE ClearSaving
  BY <1>7, <1>t DEF ClearSaving, guiVars
<1>8. CASE ResetCount
  BY <1>8, <1>t DEF ResetCount, guiVars, history
<1>9. CASE StoreFrame
  BY <1>9, <1>t DEF StoreFrame, shared, guiVars
<1>10. CASE ReadCount
  BY <1>10, <1>t DEF ReadCount, shared, guiVars, history
<1>11. CASE WriteCount
  BY <1>11, <1>t DEF WriteCount, guiVars, history
<1> QED
  BY <1>1, <1>2, <1>3, <1>4, <1>5, <1>6, <1>7, <1>8, <1>9, <1>10, <1>11 DEF Worker

(* Step by step of the two threads, races included.                        *)
LEMMA SessionStep == TypeOK /\ SessionInv /\ [Next]_vars => SessionInv'
<1> SUFFICES ASSUME TypeOK, SessionInv, [Next]_vars PROVE SessionInv'
  OBVIOUS
<1>1. CASE UNCHANGED vars
  BY <1>1 DEF vars, shared, guiVars, worker, history,
              SessionInv, CountKept, StartAlone, AfterDone, NotYetLate
<1> QED
  BY <1>1, GuiStep, WorkerStep DEF Next

(* The counters never go below 0 and max_count is always a limit somebody  *)
(* asked for, whatever the interleaving of the two threads.                *)
THEOREM TypeCorrect == Spec => []TypeOK
  BY TypeInit, TypeStep, PTL DEF Spec

(* The relation between save_count and the frames stored is kept.          *)
THEOREM SessionCorrect == Spec => []SessionInv
  BY TypeInit, TypeStep, SessionInit, SessionStep, PTL DEF Spec

(* A recording whose start did not overlap a pass of the worker stores at  *)
(* most one frame more than it was asked for (imagereader.cpp:426-450).    *)
THEOREM LimitRespectedCorrect == Spec => []LimitRespected
<1>1. TypeOK /\ SessionInv => LimitRespected
  <2> SUFFICES ASSUME TypeOK, SessionInv, ~raced, asked # 0 PROVE stored <= asked + 1
    BY DEF LimitRespected
  <2>t. stored \in Nat /\ asked \in Nat
    BY LimitsAssumption DEF TypeOK
  <2>1. CASE done
    BY <2>1 DEF SessionInv, AfterDone
  <2>2. CASE ~done /\ gpc = "idle"
    BY <2>2, <2>t DEF SessionInv, CountKept
  <2>3. CASE gpc # "idle"
    BY <2>3, <2>t DEF SessionInv, StartAlone
  <2> QED
    BY <2>1, <2>2, <2>3
<1> QED
  BY <1>1, TypeCorrect, SessionCorrect, PTL

(* Such a recording is announced as done only when exactly the frames      *)
(* asked for have been stored (imagereader.cpp:428-431).                   *)
THEOREM DoneOnlyAtLimitCorrect == Spec => DoneOnlyAtLimit
<1>1. TypeOK /\ SessionInv /\ [Next]_vars => [~raced /\ ~done /\ done' => asked # 0 /\ stored = asked]_vars
  <2> SUFFICES ASSUME TypeOK, SessionInv, [Next]_vars, ~raced, ~done, done'
               PROVE  asked # 0 /\ stored = asked
    OBVIOUS
  <2>1. ClearSaving
    BY DEF Next, Worker, vars, shared, guiVars, worker, history, Run, SaveDataSlot, SetSaveCount,
           SetMaxCount, SaveStopSlot, StopingProgram, LoopTest, ReadNothing, ReadFrame, TestSaving,
           TestLimit, ReadOperand, CompareCount, ReportProgress, ResetCount, StoreFrame, ReadCount,
           WriteCount
  <2>2. gpc = "idle"
    BY <2>1 DEF ClearSaving, SessionInv, StartAlone, Inside
  <2> QED
    BY <2>1, <2>2 DEF ClearSaving, SessionInv, CountKept
<1> QED
  BY <1>1, TypeCorrect, SessionCorrect, PTL DEF Spec, DoneOnlyAtLimit

(* The message that all is done is true of such a recording, and nothing   *)
(* is being recorded when it appears (imagereader.cpp:427-432).            *)
THEOREM DoneUnlessRacedCorrect == Spec => []DoneUnlessRaced
<1>1. TypeOK /\ SessionInv => DoneUnlessRaced
  BY LimitsAssumption DEF TypeOK, SessionInv, AfterDone, DoneUnlessRaced
<1> QED
  BY <1>1, TypeCorrect, SessionCorrect, PTL

(* Between two passes the counter is the number of frames stored.          *)
THEOREM CountIsStoredCorrect == Spec => []CountIsStored
<1>1. SessionInv => CountIsStored
  BY DEF SessionInv, CountKept, CountIsStored, Inside
<1> QED
  BY <1>1, SessionCorrect, PTL

(* After a recording has ended at most one more frame is stored, with no   *)
(* exception for recordings started in the middle of a pass.               *)
THEOREM OneAfterStopCorrect == Spec => []OneAfterStop
<1>1. SessionInv => OneAfterStop
  BY DEF SessionInv, NotYetLate, OneAfterStop
<1> QED
  BY <1>1, SessionCorrect, PTL

-------------------------------------------------------------------------------
(* The promise of module Recording *)

LEMMA PromiseInit == Init => Promise!Init
  BY DEF Init, Promise!Init

(* What the user presses: a start is a start, without limit if it is       *)
(* raced, and what saveDataSlot does after the first assignment is hidden. *)
LEMMA PromiseGuiStep ==
  ASSUME TypeOK, SessionInv,
         Run \/ SaveDataSlot \/ SetSaveCount \/ SetMaxCount \/ SaveStopSlot \/ StopingProgram
  PROVE  [Promise!Next]_(Promise!vars)
<1>1. CASE Run \/ SetSaveCount \/ SetMaxCount \/ StopingProgram
  BY <1>1 DEF Run, SetSaveCount, SetMaxCount, StopingProgram, history, Promise!vars
<1>2. CASE SaveDataSlot
  <2>1. /\ isGoingToSaveData' = TRUE /\ asked' \in Limits /\ stored' = 0 /\ done' = FALSE
        /\ late' = 0
    BY <1>2 DEF SaveDataSlot
  <2>2. (IF raced' THEN 0 ELSE asked') \in Limits /\ ~(done' /\ ~raced')
    BY <2>1, LimitsAssumption
  <2>3. Promise!Start(IF raced' THEN 0 ELSE asked')
    BY <2>1, <2>2 DEF Promise!Start
  <2> QED
    BY <2>2, <2>3 DEF Promise!Next
<1>3. CASE SaveStopSlot
  <2>1. Promise!Stop
    BY <1>3 DEF SaveStopSlot, history, Promise!Stop
  <2> QED
    BY <2>1 DEF Promise!Next
<1> QED
  BY <1>1, <1>2, <1>3

(* What the worker does with a frame.                                      *)
LEMMA PromiseWorkerStep ==
  ASSUME TypeOK, SessionInv, Worker
  PROVE  [Promise!Next]_(Promise!vars)
<1>t. stored \in Nat /\ late \in Nat /\ asked \in Nat
  BY LimitsAssumption DEF TypeOK
<1>1. CASE \/ LoopTest \/ ReadNothing \/ ReadFrame(TRUE) \/ ReadFrame(FALSE) \/ TestLimit
           \/ ReadOperand \/ CompareCount \/ ReportProgress \/ ResetCount \/ ReadCount
           \/ WriteCount
  BY <1>1 DEF LoopTest, ReadNothing, ReadFrame, TestLimit, ReadOperand, CompareCount,
     ReportProgress, ResetCount, ReadCount, WriteCount, shared, history, Promise!vars
<1>2. CASE TestSaving
  <2>1. UNCHANGED <<isGoingToSaveData, asked, stored, done, late>>
    BY <1>2 DEF TestSaving, shared
  <2>2. CASE raced' = raced
    BY <2>1, <2>2 DEF Promise!vars
  <2>3. CASE raced' # raced
    <3>1. ~raced /\ raced' /\ isGoingToSaveData /\ gpc # "idle"
      BY <1>2, <2>3 DEF TestSaving, TypeOK
    <3>2. stored = 0 /\ ~done
      BY <3>1 DEF SessionInv, StartAlone
    <3>3. Promise!Overlap
      BY <2>1, <3>1, <3>2 DEF Promise!Overlap
    <3> QED
      BY <3>3 DEF Promise!Next
  <2> QED
    BY <2>2, <2>3
<1>3. CASE ClearSaving
  <2>1. /\ isGoingToSaveData' = FALSE /\ done' = TRUE /\ wpc = "clear"
        /\ UNCHANGED <<asked, stored, raced, late>>
    BY <1>3 DEF ClearSaving
  <2>2. CASE raced
    <3>1. Promise!Stop
      BY <2>1, <2>2 DEF Promise!Stop
    <3> QED
      BY <3>1 DEF Promise!Next
  <2>3. CASE ~raced
    <3>1. gpc = "idle" /\ ~done
      BY <2>1, <2>3 DEF SessionInv, StartAlone, AfterDone, Inside
    <3>2. asked # 0 /\ stored = asked
      BY <2>1, <2>3, <3>1 DEF SessionInv, CountKept
    <3>3. Promise!Finish
      BY <2>1, <2>3, <3>1, <3>2 DEF Promise!Finish
    <3> QED
      BY <3>3 DEF Promise!Next
  <2> QED
    BY <2>2, <2>3
<1>4. CASE StoreFrame
  <2>1. /\ wpc = "store" /\ stored' \in {stored, stored + 1}
        /\ late' = IF isGoingToSaveData THEN late ELSE late + 1
        /\ UNCHANGED <<isGoingToSaveData, asked, done, raced>>
    BY <1>4 DEF StoreFrame, shared
  <2>2. late = 0
    BY <2>1 DEF SessionInv, NotYetLate, Inside
  <2>3. CASE ~isGoingToSaveData
    <3>1. Promise!StoreLate
      BY <2>1, <2>2, <2>3 DEF Promise!StoreLate
    <3> QED
      BY <3>1 DEF Promise!Next
  <2>4. CASE isGoingToSaveData /\ stored' = stored
    BY <2>1, <2>4 DEF Promise!vars
  <2>5. CASE isGoingToSaveData /\ stored' = stored + 1
    <3>1. CASE raced
      <4>1. Promise!Store
        BY <2>1, <2>5, <3>1 DEF Promise!Store
      <4> QED
        BY <4>1 DEF Promise!Next
    <3>2. CASE ~raced
      <4>1. gpc = "idle" /\ ~done
        BY <2>1, <2>5, <3>2 DEF SessionInv, StartAlone, AfterDone, Inside
      <4>2. asked = 0 \/ stored < asked
        BY <2>1, <3>2, <4>1 DEF SessionInv, CountKept
      <4>3. Promise!Store
        BY <2>1, <2>5, <3>2, <4>2 DEF Promise!Store
      <4> QED
        BY <4>3 DEF Promise!Next
    <3> QED
      BY <3>1, <3>2
  <2> QED
    BY <2>1, <2>3, <2>4, <2>5
<1> QED
  BY <1>1, <1>2, <1>3, <1>4 DEF Worker

(* Every step of the two threads is one of the recording, or none.         *)
LEMMA PromiseStep ==
  TypeOK /\ SessionInv /\ [Next]_vars => [Promise!Next]_(Promise!vars)
<1> SUFFICES ASSUME TypeOK, SessionInv, [Next]_vars PROVE [Promise!Next]_(Promise!vars)
  OBVIOUS
<1>1. CASE UNCHANGED vars
  BY <1>1 DEF vars, shared, history, Promise!vars
<1> QED
  BY <1>1, PromiseGuiStep, PromiseWorkerStep DEF Next

(* Whatever the order in which the two threads read and write the four     *)
(* fields they share, each recording ends as module Recording has it       *)
(* (imagereader.cpp:426-450, 504-526).                                     *)
THEOREM ImplementsRecordingCorrect == Spec => ImplementsRecording
  BY PromiseInit, PromiseStep, TypeCorrect, SessionCorrect, PTL
     DEF Spec, ImplementsRecording, Promise!Spec
===============================================================================
