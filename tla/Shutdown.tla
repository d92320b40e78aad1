------------------------------- MODULE Shutdown -------------------------------
(***************************************************************************)
(* How the program ends: the window is closed and quitProgram set, the     *)
(* event loop returns, ~VisionDemo calls imageReader::release, which frees *)
(* the frame thread's buffers and the camera without waiting for it, and   *)
(* ~QApplication waits for the tasks of the global thread pool.            *)
(*                                                                         *)
(* The writer and the frame thread are two tasks of that pool which never  *)
(* return before the program quits; the writer's is queued first.  Of a    *)
(* pass of the frame thread is left what it touches: the packet, the       *)
(* camera's interfaces, the buffers, the saver.                            *)
(***************************************************************************)
EXTENDS Integers, Sequences

CONSTANTS
  PoolSizes,   \* threads the global pool may have (QThread::idealThreadCount)
  MaxStored    \* bound: frames handed to the saver

ASSUME PoolSizesAssumption == PoolSizes \subseteq Nat \ {0}
ASSUME MaxStoredAssumption == MaxStored \in Nat

(* those of release's buffers that a pass uses, in the order of release;   *)
(* but for tmpdepth, _buf and _buf2, which it uses only where it uses      *)
(* depthData too (imagereader.cpp:285-291), deleted before them (484-492)  *)
DeleteOrder == <<"datagroup", "irData", "depthData", "depthDataRGB">>

(* places of the frame thread beyond the test of quitProgram               *)
Pass == {"running", "clear", "run", "wait", "fetch", "build", "store"}

VARIABLES
  pool,            \* threads of the global pool
  gui,             \* place of the GUI thread; "exited" and "crashed": of the process
  quitProgram,     \* of imageReader
  quitProgramm,    \* of dataSaver
  isRunning,
  graph,           \* the camera's interfaces: "none" where they are NULL
  freed,           \* how many of DeleteOrder are deleted
  fpc, wpc,        \* places of the frame thread and of the writer
  stored, written, \* frames handed to the saver, and on disk
  (* history *)
  atClose,         \* place of the frame thread when the window was closed
  backlog,         \* frames that waited then, the one being written not counted
  late,            \* frames stored since
  damaged          \* freed memory was used

flags   == <<quitProgram, quitProgramm, isRunning>>
saver   == <<wpc, stored, written>>
history == <<atClose, backlog, late>>
vars    == <<pool, gui, flags, graph, freed, fpc, saver, history, damaged>>

Init ==
  /\ pool \in PoolSizes /\ gui = "open"
  /\ quitProgram = FALSE /\ quitProgramm = FALSE /\ isRunning = FALSE
  /\ graph = "none" /\ freed = 0
  /\ fpc = "queued" /\ wpc = "test"
  /\ stored = 0 /\ written = 0
  /\ atClose = "none" /\ backlog = 0 /\ late = 0 /\ damaged = FALSE

Alive == gui \notin {"exited", "crashed"}

Crash == gui' = "crashed" /\ UNCHANGED <<pool, flags, graph, freed, fpc, saver, history, damaged>>

-------------------------------------------------------------------------------
(* The GUI thread *)

(* run(int): the first press opens the camera, none closes it              *)
Press ==
  /\ gui = "open"
  /\ isRunning' = ~isRunning
  /\ graph' = IF graph = "none" THEN "stopped" ELSE graph
  /\ UNCHANGED <<pool, gui, quitProgram, quitProgramm, freed, fpc, saver, history, damaged>>

Waiting == stored - written - (IF wpc = "frame" THEN 1 ELSE 0)

Close(quit) ==
  /\ gui = "open" /\ gui' = "closed"
  /\ quitProgram' = quit
  /\ atClose' = fpc /\ backlog' = Waiting
  /\ UNCHANGED <<pool, quitProgramm, isRunning, graph, freed, fpc, saver, late, damaged>>

(* mutant of CloseEvent: sendCloseEven is not connected *)
CloseEventUntold == Close(quitProgram)

CloseEvent == Close(TRUE)

(* mutant of TellThreads: only the frame thread *)
TellFrameThread ==
  /\ gui = "closed" /\ gui' = "delete"
  /\ quitProgram' = TRUE
  /\ UNCHANGED <<pool, quitProgramm, isRunning, graph, freed, fpc, saver, history, damaged>>

(* exec has returned and the window is destroyed *)
TellThreads ==
  /\ gui = "closed" /\ gui' = "delete"
  /\ quitProgramm' = TRUE /\ quitProgram' = TRUE
  /\ UNCHANGED <<pool, isRunning, graph, freed, fpc, saver, history, damaged>>

DeleteBuffer ==
  /\ gui = "delete" /\ freed < Len(DeleteOrder)
  /\ freed' = freed + 1
  /\ UNCHANGED <<pool, gui, flags, graph, fpc, saver, history, damaged>>

(* CloseCamera *)
StopGraph ==
  /\ gui = "delete" /\ freed = Len(DeleteOrder) /\ gui' = "stopped"
  /\ graph' = IF graph = "none" THEN "none" ELSE "stopped"
  /\ UNCHANGED <<pool, flags, freed, fpc, saver, history, damaged>>

ReleaseGraph ==
  /\ gui = "stopped" /\ gui' = "waiting"
  /\ graph' = "none"
  /\ UNCHANGED <<pool, flags, freed, fpc, saver, history, damaged>>

(* ~QApplication: waitForDone of the global pool *)
Exit ==
  /\ gui = "waiting" /\ gui' = "exited"
  /\ fpc = "ended" /\ wpc = "ended"
  /\ UNCHANGED <<pool, flags, graph, freed, fpc, saver, history, damaged>>

Leave == TellThreads \/ DeleteBuffer \/ StopGraph \/ ReleaseGraph \/ Exit

-------------------------------------------------------------------------------
(* The frame thread, buildDataThread                                       *)

Freed == {DeleteOrder[i] : i \in 1 .. freed}

At(place) == Alive /\ fpc = place
Goto(place) == fpc' = place /\ UNCHANGED <<pool, gui, flags, freed, wpc, written, atClose, backlog>>

(* what is deleted may be used without a trace, too *)
Use(buffers, place) ==
  \/ damaged' = (damaged \/ buffers \cap Freed # {}) /\ Goto(place)
  \/ buffers \cap Freed # {} /\ damaged' = TRUE /\ gui' = "crashed"
     /\ UNCHANGED <<pool, flags, freed, fpc, wpc, written, atClose, backlog>>

StartTask ==
  /\ At("queued") /\ (pool > 1 \/ wpc = "ended") /\ Goto("test")
  /\ UNCHANGED <<graph, stored, late, damaged>>

TestQuit ==
  /\ At("test") /\ Goto(IF quitProgram THEN "ended" ELSE "running")
  /\ UNCHANGED <<graph, stored, late, damaged>>

TestRunning ==
  /\ At("running") /\ Goto(IF isRunning THEN "clear" ELSE "test")
  /\ UNCHANGED <<graph, stored, late, damaged>>

ClearPacket ==
  /\ At("clear") /\ Use({"datagroup"}, "run")
  /\ UNCHANGED <<graph, stored, late>>

RunGraph ==
  \/ /\ At("run") /\ graph # "none" /\ Goto("wait")
     /\ graph' = "running" /\ UNCHANGED <<stored, late, damaged>>
  \/ At("run") /\ graph = "none" /\ Crash

(* a sample, or whatever WaitForCompletion does where the graph is stopped *)
Wake ==
  /\ At("wait") /\ Goto("fetch")
  /\ UNCHANGED <<graph, stored, late, damaged>>

(* the graph is destroyed while the thread waits in it *)
WaitCrashes == At("wait") /\ graph = "none" /\ Crash

Fetch ==
  \/ /\ At("fetch") /\ graph # "none" /\ Use({"datagroup"}, "build")
     /\ UNCHANGED <<graph, stored, late>>
  \/ At("fetch") /\ graph = "none" /\ Crash

SkipRepeated ==
  /\ At("build") /\ Use({"datagroup"}, "test")
  /\ UNCHANGED <<graph, stored, late>>

Build ==
  /\ At("build")
  /\ \E buffers \in {{"irData"}, {"depthData", "depthDataRGB"}, {}} :
       Use({"datagroup"} \cup buffers, "store")
  /\ UNCHANGED <<graph, stored, late>>

(* cv::Exception *)
BuildThrows ==
  /\ At("build") /\ Use({"datagroup"}, "ended")
  /\ UNCHANGED <<graph, stored, late>>

(* mutant of StoreFrame: the loop goes on without the test *)
StoreFrameLoops ==
  /\ At("store") /\ stored < MaxStored
  /\ Use({"depthDataRGB"}, "running")
  /\ stored' = stored + 1 /\ late' = IF gui = "open" THEN late ELSE late + 1
  /\ UNCHANGED graph

StoreFrame ==
  /\ At("store") /\ stored < MaxStored
  /\ Use({"depthDataRGB"}, "test")
  /\ stored' = stored + 1 /\ late' = IF gui = "open" THEN late ELSE late + 1
  /\ UNCHANGED graph

NotSaving ==
  /\ At("store") /\ Goto("test")
  /\ UNCHANGED <<graph, stored, late, damaged>>

FrameThread ==
  \/ StartTask \/ TestQuit \/ TestRunning \/ ClearPacket \/ RunGraph \/ Fetch
  \/ SkipRepeated \/ Build \/ BuildThrows \/ StoreFrame \/ NotSaving

(* damaged memory shows later, anywhere *)
DamageShows == Alive /\ damaged /\ Crash

-------------------------------------------------------------------------------
(* The writer, saveDataToDevice                                            *)

Writes(from, to) ==
  /\ Alive /\ wpc = from /\ wpc' = to
  /\ UNCHANGED <<pool, gui, flags, graph, freed, fpc, stored, history, damaged>>

WriterExit == quitProgramm /\ Writes("test", "ended") /\ UNCHANGED written

(* mutant of TakeFrame: the cursors are not compared *)
TakeFrameUntested == ~quitProgramm /\ Writes("test", "frame") /\ UNCHANGED written

TakeFrame == ~quitProgramm /\ written < stored /\ Writes("test", "frame") /\ UNCHANGED written

(* mutant of FinishFrame: the flag is looked at within a frame *)
FinishFrameOrQuit ==
  \/ ~quitProgramm /\ Writes("frame", "test") /\ written' = written + 1
  \/ quitProgramm /\ Writes("frame", "ended") /\ UNCHANGED written

FinishFrame == Writes("frame", "test") /\ written' = written + 1

Writer == WriterExit \/ TakeFrame \/ FinishFrame

-------------------------------------------------------------------------------
Next ==
  \/ Press \/ CloseEvent \/ Leave
  \/ FrameThread \/ Wake \/ WaitCrashes \/ DamageShows
  \/ Writer

Spec == Init /\ [][Next]_vars

(* Nobody need close the window or press, and the camera need not deliver. *)
FairSpec == Spec /\ WF_vars(Leave) /\ WF_vars(FrameThread) /\ WF_vars(Writer)

-------------------------------------------------------------------------------
(* Properties *)

(* Never more frames on disk than handed in, whatever the writer meets.    *)
TypeOK ==
  /\ pool \in PoolSizes
  /\ gui \in {"open", "closed", "delete", "stopped", "waiting", "exited", "crashed"}
  /\ quitProgram \in BOOLEAN /\ quitProgramm \in BOOLEAN /\ isRunning \in BOOLEAN
  /\ graph \in {"none", "stopped", "running"} /\ freed \in 0 .. Len(DeleteOrder)
  /\ fpc \in Pass \cup {"queued", "test", "ended"} /\ wpc \in {"test", "frame", "ended"}
  /\ stored \in 0 .. MaxStored /\ written \in 0 .. stored /\ Waiting >= 0
  /\ atClose \in Pass \cup {"none", "queued", "test", "ended"}
  /\ backlog \in 0 .. MaxStored /\ late \in 0 .. MaxStored /\ damaged \in BOOLEAN

(* release frees what the frame thread uses without waiting for it         *)
(* (imagereader.cpp:483-498, CameraDS.cpp:76-91).  Only a pass that was    *)
(* under way when the window was closed meets freed memory or a released   *)
(* interface; in a pool of one thread there is none, for the frame thread  *)
(* is started when the writer has ended.                                   *)
FreedUseOnlyMidPass == damaged \/ gui = "crashed" => pool > 1 /\ atClose \in Pass

(* After the window is closed at most one more frame is stored, and none   *)
(* without such a pass (imagereader.cpp:195, 580).                         *)
OneFrameAfterClose == late <= IF atClose \in Pass THEN 1 ELSE 0

(* What is lost of a recording at a regular end is what waited when the    *)
(* window was closed, and that last frame: the frame in the writer's hands *)
(* is finished (datasaver.cpp:91).                                         *)
LossBounded ==
  gui = "exited" => stored - written <= backlog + (IF atClose \in Pass THEN 1 ELSE 0)

(* In a pool of one thread the frame thread never comes to read a frame:   *)
(* the writer was queued first and does not return while the window is     *)
(* open (imagereader.cpp:70 and 83, datasaver.cpp:91).                     *)
SingleThreadIdle == pool = 1 => fpc \notin Pass /\ stored = 0

(* The process ends once its window is closed, unless the frame thread     *)
(* waits in readRawData for a sample for good (CameraDS.cpp:744); for sure *)
(* it ends, and regularly, where no pass was under way.                    *)
EndsAfterClose ==
  /\ gui = "closed" ~> gui \in {"exited", "crashed"} \/ [](fpc = "wait")
  /\ gui = "closed" /\ atClose \notin Pass ~> gui = "exited"
===============================================================================
