------------------------------ MODULE SaveSession ------------------------------
(***************************************************************************)
(* imagereader.cpp: a recording, as the GUI thread starts and stops it and *)
(* as the thread that builds frames carries it out.  The two share four    *)
(* plain fields; each access to one of them is a step here.  A frame is    *)
(* either synced (its three pictures belong together) or an RGB-only one.  *)
(*                                                                         *)
(* The worker reads quitProgram and isRunning in one step: nothing depends *)
(* on a change between the two reads, for it could as well come after both.*)
(***************************************************************************)
EXTENDS Integers

CONSTANTS
  Limits,     \* frame limits the user can ask for, 0 for none
  MaxCount    \* bound on the frames counted, and on those of one session

ASSUME LimitsAssumption == Limits \subseteq Nat /\ 0 \in Limits
ASSUME MaxCountAssumption == MaxCount \in Nat

VARIABLES
  isRunning,            \* the preview is on
  isGoingToSaveData, save_count, max_count,
  quitProgram,
  gpc, flag,            \* the GUI thread in saveDataSlot, and its argument
  wpc, operand, synced, \* the worker, the value it has read, its frame
  (* what happened since the user last started a recording *)
  asked,                \* the limit asked for
  stored,               \* synced frames stored
  done,                 \* "Save data Done!" was announced
  raced,                \* the start overlapped a pass of the worker
  late                  \* frames stored after the recording was ended

shared  == <<isRunning, isGoingToSaveData, save_count, max_count, quitProgram>>
guiVars == <<gpc, flag>>
worker  == <<wpc, operand, synced>>
history == <<asked, stored, done, raced, late>>
vars    == <<shared, guiVars, worker, history>>

(* where the worker has found isGoingToSaveData set and still acts on it *)
Inside == {"limit", "operand", "count", "max", "report", "clear", "reset", "store",
           "inc", "write"}

Init ==
  /\ isRunning = FALSE /\ isGoingToSaveData = FALSE /\ quitProgram = FALSE
  /\ save_count = 0 /\ max_count = 0
  /\ gpc = "idle" /\ flag = 0
  /\ wpc = "loop" /\ operand = 0 /\ synced = FALSE
  /\ asked = 0 /\ stored = 0 /\ done = FALSE /\ raced = FALSE /\ late = 0

-------------------------------------------------------------------------------
(* The GUI thread, until the window is closed *)

(* run(int), once the camera is open; otherwise it changes nothing *)
Run ==
  /\ gpc = "idle" /\ ~quitProgram
  /\ isRunning' = ~isRunning
  /\ UNCHANGED <<isGoingToSaveData, save_count, max_count, quitProgram, guiVars, worker, history>>

(* saveDataSlot, from the dialog's start button or from saveSlot0, which   *)
(* starts a recording without limit as soon as the dialog is opened        *)
SaveDataSlot ==
  /\ gpc = "idle" /\ ~quitProgram /\ isRunning
  /\ isGoingToSaveData' = TRUE
  /\ gpc' = "count" /\ flag' \in Limits
  /\ asked' = flag' /\ stored' = 0 /\ done' = FALSE /\ late' = 0
  /\ raced' = (wpc \in Inside)
  /\ UNCHANGED <<isRunning, save_count, max_count, quitProgram, worker>>

(* mutant of SetSaveCount: the count of the last recording is kept *)
SetSaveCountKept ==
  /\ gpc = "count" /\ gpc' = "max"
  /\ UNCHANGED <<shared, flag, worker, history>>

SetSaveCount ==
  /\ gpc = "count" /\ gpc' = "max"
  /\ save_count' = 0
  /\ UNCHANGED <<isRunning, isGoingToSaveData, max_count, quitProgram, flag, worker, history>>

SetMaxCount ==
  /\ gpc = "max" /\ gpc' = "idle"
  /\ max_count' = flag
  /\ UNCHANGED <<isRunning, isGoingToSaveData, save_count, quitProgram, flag, worker, history>>

SaveStopSlot ==
  /\ gpc = "idle" /\ ~quitProgram
  /\ isGoingToSaveData' = FALSE
  /\ UNCHANGED <<isRunning, save_count, max_count, quitProgram, guiVars, worker, history>>

(* closeEvent *)
StopingProgram ==
  /\ gpc = "idle" /\ ~quitProgram
  /\ quitProgram' = TRUE
  /\ UNCHANGED <<isRunning, isGoingToSaveData, save_count, max_count, guiVars, worker, history>>

-------------------------------------------------------------------------------
(* The worker, buildDataThread *)

LoopTest ==
  /\ wpc = "loop"
  /\ \/ quitProgram /\ wpc' = "exited"
     \/ ~quitProgram /\ isRunning /\ wpc' = "read"
  /\ UNCHANGED <<shared, guiVars, operand, synced, history>>

(* a picture seen before, or an exception *)
ReadNothing ==
  /\ wpc = "read" /\ wpc' \in {"loop", "dead"}
  /\ UNCHANGED <<shared, guiVars, operand, synced, history>>

(* a frame was read, built and shown; s: its time stamps are close enough *)
ReadFrame(s) ==
  /\ wpc = "read" /\ wpc' = "saving"
  /\ synced' = s
  /\ UNCHANGED <<shared, guiVars, operand, history>>

(* mutant of TestSaving: it goes by the value of the pass before *)
TestSavingCached ==
  /\ wpc = "saving"
  /\ wpc' = IF isGoingToSaveData \/ stored > 0 THEN "limit" ELSE "loop"
  /\ raced' = (raced \/ (isGoingToSaveData /\ gpc # "idle"))
  /\ UNCHANGED <<shared, guiVars, operand, synced, asked, stored, done, late>>

TestSaving ==
  /\ wpc = "saving"
  /\ wpc' = IF isGoingToSaveData THEN "limit" ELSE "loop"
  /\ raced' = (raced \/ (isGoingToSaveData /\ gpc # "idle"))
  /\ UNCHANGED <<shared, guiVars, operand, synced, asked, stored, done, late>>

TestLimit ==
  /\ wpc = "limit"
  /\ wpc' = IF max_count # 0 THEN "operand" ELSE "store"
  /\ UNCHANGED <<shared, guiVars, operand, synced, history>>

(* save_count == max_count: either may be read first *)
ReadOperand ==
  /\ wpc = "operand"
  /\ \/ operand' = save_count /\ wpc' = "max"
     \/ operand' = max_count /\ wpc' = "count"
  /\ UNCHANGED <<shared, guiVars, synced, history>>

CompareCount ==
  /\ wpc \in {"count", "max"}
  /\ wpc' = IF operand = (IF wpc = "count" THEN save_count ELSE max_count)
            THEN "clear" ELSE "report"
  /\ UNCHANGED <<shared, guiVars, operand, synced, history>>

(* the message "Save data <save_count>/<max_count>", which reads both again *)
ReportProgress ==
  /\ wpc = "report" /\ wpc' = "store"
  /\ UNCHANGED <<shared, guiVars, operand, synced, history>>

(* mutant of ClearSaving: the flag stays set *)
ClearSavingForgotten ==
  /\ wpc = "clear" /\ wpc' = "reset"
  /\ done' = TRUE
  /\ UNCHANGED <<shared, guiVars, operand, synced, asked, stored, raced, late>>

(* isGoingToSaveData = false, and the message that all is done *)
ClearSaving ==
  /\ wpc = "clear" /\ wpc' = "reset"
  /\ isGoingToSaveData' = FALSE /\ done' = TRUE
  /\ UNCHANGED <<isRunning, save_count, max_count, quitProgram, guiVars, operand, synced,
                 asked, stored, raced, late>>

(* mutant of ResetCount: it makes up for the increment to come *)
ResetCountBelowZero ==
  /\ wpc = "reset" /\ wpc' = "store"
  /\ save_count' = -1
  /\ UNCHANGED <<isRunning, isGoingToSaveData, max_count, quitProgram, guiVars, operand, synced,
                 history>>

(* the code goes on to store the frame it has *)
ResetCount ==
  /\ wpc = "reset" /\ wpc' = "store"
  /\ save_count' = 0
  /\ UNCHANGED <<isRunning, isGoingToSaveData, max_count, quitProgram, guiVars, operand, synced,
                 history>>

(* mutant of StoreFrame: RGB-only frames count too *)
StoreFrameCountsAll ==
  /\ wpc = "store" /\ stored < MaxCount
  /\ wpc' = "inc"
  /\ stored' = IF synced THEN stored + 1 ELSE stored
  /\ late' = IF isGoingToSaveData THEN late ELSE late + 1
  /\ UNCHANGED <<shared, guiVars, operand, synced, asked, done, raced>>

(* storeData or storeAloneRGBData; only synced frames count *)
StoreFrame ==
  /\ wpc = "store" /\ stored < MaxCount
  /\ wpc' = IF synced THEN "inc" ELSE "loop"
  /\ stored' = IF synced THEN stored + 1 ELSE stored
  /\ late' = IF isGoingToSaveData THEN late ELSE late + 1
  /\ UNCHANGED <<shared, guiVars, operand, synced, asked, done, raced>>

ReadCount ==
  /\ wpc = "inc" /\ wpc' = "write" /\ save_count < MaxCount
  /\ operand' = save_count
  /\ UNCHANGED <<shared, guiVars, synced, history>>

(* mutant of WriteCount: the increment is lost *)
WriteCountUnchanged ==
  /\ wpc = "write" /\ wpc' = "loop"
  /\ save_count' = operand
  /\ UNCHANGED <<isRunning, isGoingToSaveData, max_count, quitProgram, guiVars, operand, synced,
                 history>>

WriteCount ==
  /\ wpc = "write" /\ wpc' = "loop"
  /\ save_count' = operand + 1
  /\ UNCHANGED <<isRunning, isGoingToSaveData, max_count, quitProgram, guiVars, operand, synced,
                 history>>

Worker ==
  \/ LoopTest \/ ReadNothing \/ ReadFrame(TRUE) \/ ReadFrame(FALSE) \/ TestSaving
  \/ TestLimit \/ ReadOperand \/ CompareCount \/ ReportProgress \/ ClearSaving
  \/ ResetCount \/ StoreFrame \/ ReadCount \/ WriteCount

Next ==
  \/ Run \/ SaveDataSlot \/ SetSaveCount \/ SetMaxCount \/ SaveStopSlot \/ StopingProgram
  \/ Worker

Spec == Init /\ [][Next]_vars

(* Both threads go on with what they are doing, and a camera that delivers *)
(* frames again and again delivers synced ones among them.                 *)
Fairness ==
  /\ WF_vars(Worker) /\ WF_vars(SetSaveCount \/ SetMaxCount)
  /\ SF_vars(ReadFrame(TRUE))

FairSpec == Spec /\ Fairness

-------------------------------------------------------------------------------
(* Properties *)

(* Counters count up from 0 and the threads are where the code has them.   *)
TypeOK ==
  /\ isRunning \in BOOLEAN /\ isGoingToSaveData \in BOOLEAN /\ quitProgram \in BOOLEAN
  /\ save_count \in Nat /\ max_count \in Limits
  /\ gpc \in {"idle", "count", "max"} /\ flag \in Limits
  /\ wpc \in {"loop", "read", "saving", "exited", "dead"} \cup Inside
  /\ operand \in Nat /\ synced \in BOOLEAN
  /\ asked \in Limits /\ stored \in Nat /\ done \in BOOLEAN /\ raced \in BOOLEAN /\ late \in Nat

(* Claim of savedialog.ui:52 ("number of frames to save") and of the       *)
(* message "Save data k/n" (imagereader.cpp:434): a recording of n frames  *)
(* stores no more than n.                                                  *)
StoredAsAsked == ~raced /\ asked # 0 => stored <= asked

(* What is true of it: a recording that was started while the worker was   *)
(* elsewhere stores at most one frame more than it was asked for, whatever *)
(* is pressed afterwards (imagereader.cpp:426-450).                        *)
LimitRespected == ~raced /\ asked # 0 => stored <= asked + 1

(* Such a recording is announced as done exactly when the number of synced *)
(* frames stored has reached the number asked for, RGB-only ones not       *)
(* counted (imagereader.cpp:428-431).                                      *)
DoneOnlyAtLimit == [][~raced /\ ~done /\ done' => asked # 0 /\ stored = asked]_vars

(* Between two passes of the worker save_count is the number of synced     *)
(* frames stored in this recording.                                        *)
CountIsStored ==
  ~raced /\ ~done /\ gpc = "idle" /\ wpc \notin Inside => save_count = stored /\ max_count = asked

(* Once a recording is ended, by the stop button or by its limit, at most  *)
(* one more frame is handed to the saver, also when the two coincide or    *)
(* the recording was started in the middle of a pass.                      *)
OneAfterStop == late <= 1

(* A recording with a limit comes to its end as long as the preview runs,  *)
(* unless the user starts recordings for ever (imagereader.cpp:427-432).   *)
LimitReached ==
  \/ []<><<SaveDataSlot>>_vars
  \/ []<>(~isGoingToSaveData \/ asked = 0 \/ raced \/ ~isRunning \/ wpc \in {"dead", "exited"})

(* Claim of the message "Save data Done!" (imagereader.cpp:430): when it   *)
(* appears the recording the user asked for has been stored.               *)
DoneMeansSaved == done => stored >= asked

(* What is true of it: it holds of a recording whose start did not overlap *)
(* a pass of the worker, whatever is pressed after the message.            *)
DoneUnlessRaced == ~raced /\ done => stored >= asked /\ ~isGoingToSaveData

-------------------------------------------------------------------------------
(* The inductive invariant behind LimitRespected and DoneOnlyAtLimit: what *)
(* the worker knows of the limit at each place, and what the counter and   *)
(* the number of frames stored have to do with each other there.           *)

CountKept ==
  ~raced /\ ~done /\ gpc = "idle" =>
    /\ max_count = asked /\ wpc # "reset"
    /\ save_count = IF wpc \in {"inc", "write"} THEN stored - 1 ELSE stored
    /\ wpc = "max" => operand = save_count
    /\ wpc = "count" => operand = max_count
    /\ wpc \in {"count", "max", "operand"} => asked # 0
    /\ wpc = "clear" => asked # 0 /\ stored = asked
    /\ wpc = "write" => operand = save_count
    /\ asked # 0 => stored <= asked
    /\ asked # 0 /\ wpc \in {"report", "store"} => stored < asked

StartAlone ==
  ~raced /\ gpc # "idle" =>
    /\ wpc \notin Inside /\ stored = 0 /\ ~done /\ flag = asked
    /\ gpc = "max" => save_count = 0

AfterDone ==
  ~raced /\ done =>
    /\ ~isGoingToSaveData /\ asked # 0
    /\ wpc \notin {"limit", "operand", "count", "max", "report", "clear"}
    /\ wpc \in {"reset", "store"} => stored = asked
    /\ asked <= stored /\ stored <= asked + 1

NotYetLate ==
  /\ late <= 1
  /\ isGoingToSaveData \/ wpc \in Inside \ {"inc", "write"} => late = 0

SessionInv == CountKept /\ StartAlone /\ AfterDone /\ NotYetLate

-------------------------------------------------------------------------------
(* The promise this keeps.                                                 *)

Promise == INSTANCE Recording WITH
  limit     <- IF raced THEN 0 ELSE asked,
  on        <- isGoingToSaveData,
  announced <- done /\ ~raced

(* The four fields that two threads read and write one by one, without a   *)
(* lock (imagereader.cpp:195, 426-450, 504-526, 578-581), carry out one    *)
(* recording after another: its end is announced once and only when all it *)
(* was asked for is stored, and one frame at most comes after it.          *)
ImplementsRecording == Promise!Spec
===============================================================================
