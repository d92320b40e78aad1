---------------------------- MODULE Shutdown_proof ----------------------------
(***************************************************************************)
(* Proofs about Shutdown, for a thread pool of any size and any number of  *)
(* frames.                                                                 *)
(***************************************************************************)
EXTENDS Shutdown, TLAPS

Places == Pass \cup {"queued", "test", "ended"}

(* what is not Boolean *)
Numbers ==
  /\ pool \in PoolSizes /\ freed \in 0 .. 4
  /\ stored \in 0 .. MaxStored /\ written \in 0 .. stored
  /\ (wpc = "frame" => written < stored)
  /\ backlog \in 0 .. MaxStored /\ late \in 0 .. stored

Names ==
  /\ gui \in {"open", "closed", "delete", "stopped", "waiting", "exited", "crashed"}
  /\ graph \in {"none", "stopped", "running"}
  /\ fpc \in Places /\ wpc \in {"test", "frame", "ended"}
  /\ atClose \in Places \cup {"none"}

Booleans ==
  /\ quitProgram \in BOOLEAN /\ quitProgramm \in BOOLEAN /\ isRunning \in BOOLEAN
  /\ damaged \in BOOLEAN

TypeInv == Numbers /\ Names /\ Booleans

(* While the window is open nothing is freed, and a thread in a pass has   *)
(* its interfaces until they are released.                                 *)
OpenInv ==
  /\ gui = "open" => atClose = "none" /\ late = 0 /\ freed = 0 /\ ~damaged
  /\ gui = "closed" => freed = 0
  /\ gui \in {"open", "closed", "delete", "stopped"} =>
       (isRunning \/ fpc \in Pass \ {"running"} => graph # "none")

(* From the closing on: the frame thread ends at its next test.            *)
ClosedInv ==
  gui # "open" =>
    /\ quitProgram
    /\ fpc \in Pass => atClose \in Pass /\ (gui # "crashed" => late = 0)
    /\ damaged \/ gui = "crashed" => atClose \in Pass
    /\ late <= IF atClose \in Pass THEN 1 ELSE 0
    /\ Waiting <= backlog + late

(* In a pool of one thread the frame thread waits for the writer's end.    *)
PoolInv ==
  /\ wpc = "ended" => quitProgramm
  /\ quitProgramm => gui # "open"
  /\ ~(pool > 1) => /\ fpc # "queued" => wpc = "ended"
                    /\ atClose \in {"none", "queued"}

EndInv == OpenInv /\ ClosedInv /\ PoolInv

-------------------------------------------------------------------------------
(* Types *)

LEMMA Order == Len(DeleteOrder) = 4
BY DEF DeleteOrder

(* nothing is freed as long as no buffer is deleted *)
LEMMA NothingFreed == freed = 0 => Freed = {}
BY DEF Freed

LEMMA TypeInit == Init => TypeInv
<1>1. Init => Numbers
  BY MaxStoredAssumption DEF Init, Numbers
<1>2. Init => Names
  BY DEF Init, Names, Places
<1>3. Init => Booleans
  BY DEF Init, Booleans
<1>4. QED  BY <1>1, <1>2, <1>3 DEF TypeInv

LEMMA NumbersStep ==
  ASSUME TypeInv, [Next]_vars
  PROVE  Numbers'
<1> USE MaxStoredAssumption DEF TypeInv, Numbers
<1>1. ASSUME UNCHANGED <<pool, freed, stored, written, wpc, backlog, late>>
      PROVE  Numbers'
  BY <1>1
<1>2. CASE Press
  BY <1>1, <1>2 DEF Press, saver, history
<1>3. CASE CloseEvent
  <2>1. Waiting \in 0 .. MaxStored
    <3>1. stored \in Int /\ written \in Int
      OBVIOUS
    <3>2. QED  BY <3>1 DEF Waiting
  <2>2. QED  BY <1>3, <2>1 DEF CloseEvent, Close, saver
<1>4. CASE Leave
  BY <1>4, Order DEF Leave, TellThreads, DeleteBuffer, StopGraph, ReleaseGraph, Exit, saver, history
<1>5. ASSUME UNCHANGED <<pool, freed, written, wpc, backlog>>,
             UNCHANGED <<stored, late>> \/ (/\ stored < MaxStored /\ stored' = stored + 1
                                            /\ late' \in {late, late + 1})
      PROVE  Numbers'
  BY <1>5
<1>6. CASE FrameThread \/ Wake \/ WaitCrashes \/ DamageShows
  <2>1. UNCHANGED <<pool, freed, written, wpc, backlog>>
    BY <1>6 DEF FrameThread, Wake, WaitCrashes, DamageShows, StartTask, TestQuit, TestRunning,
       ClearPacket, RunGraph, Fetch, SkipRepeated, Build, BuildThrows, StoreFrame, NotSaving,
       Use, Goto, Crash, saver, history
  <2>2. \/ UNCHANGED <<stored, late>>
        \/ stored < MaxStored /\ stored' = stored + 1 /\ late' \in {late, late + 1}
    BY <1>6 DEF FrameThread, Wake, WaitCrashes, DamageShows, StartTask, TestQuit, TestRunning,
       ClearPacket, RunGraph, Fetch, SkipRepeated, Build, BuildThrows, StoreFrame, NotSaving,
       Crash, saver, history
  <2>3. QED  BY <1>5, <2>1, <2>2
<1>7. CASE Writer
  BY <1>7 DEF Writer, WriterExit, TakeFrame, FinishFrame, Writes, history
<1>8. CASE UNCHANGED vars
  BY <1>1, <1>8 DEF vars, saver, history
<1>9. QED
  BY <1>2, <1>3, <1>4, <1>6, <1>7, <1>8 DEF Next

LEMMA NamesStep ==
  ASSUME TypeInv, [Next]_vars
  PROVE  Names'
<1> USE DEF TypeInv, Names
<1>1. CASE Press \/ CloseEvent \/ Leave \/ Writer \/ UNCHANGED vars
  BY <1>1 DEF Press, CloseEvent, Close, Leave, TellThreads, DeleteBuffer, StopGraph, ReleaseGraph,
     Exit, Writer, WriterExit, TakeFrame, FinishFrame, Writes, vars, saver, history
<1>2. ASSUME NEW buffers, NEW place \in Places, Use(buffers, place), UNCHANGED graph
      PROVE  Names'
  BY <1>2 DEF Use, Goto
<1>3. CASE ClearPacket \/ SkipRepeated \/ Build \/ BuildThrows \/ StoreFrame
  BY <1>2, <1>3 DEF ClearPacket, SkipRepeated, Build, BuildThrows, StoreFrame, Places, Pass
<1>4. CASE Fetch
  BY <1>2, <1>4 DEF Fetch, Crash, Places, Pass, saver, history
<1>5. CASE RunGraph \/ StartTask \/ TestQuit \/ TestRunning \/ NotSaving \/ Wake \/ WaitCrashes
           \/ DamageShows
  BY <1>5 DEF RunGraph, StartTask, TestQuit, TestRunning, NotSaving, Wake, WaitCrashes,
     DamageShows, Goto, Crash, Places, Pass, saver, history
<1>6. QED
  BY <1>1, <1>3, <1>4, <1>5 DEF Next, FrameThread

LEMMA BooleansStep ==
  ASSUME TypeInv, [Next]_vars
  PROVE  Booleans'
<1> USE DEF TypeInv, Booleans
<1>1. CASE Press \/ CloseEvent \/ Leave \/ Writer \/ UNCHANGED vars
  BY <1>1 DEF Press, CloseEvent, Close, Leave, TellThreads, DeleteBuffer, StopGraph, ReleaseGraph,
     Exit, Writer, WriterExit, TakeFrame, FinishFrame, Writes, vars, flags
<1>2. ASSUME NEW buffers, NEW place, Use(buffers, place)
      PROVE  Booleans'
  BY <1>2 DEF Use, Goto, flags
<1>3. CASE ClearPacket \/ SkipRepeated \/ Build \/ BuildThrows \/ StoreFrame
  BY <1>2, <1>3 DEF ClearPacket, SkipRepeated, Build, BuildThrows, StoreFrame
<1>4. CASE Fetch
  BY <1>2, <1>4 DEF Fetch, Crash, flags
<1>5. CASE RunGraph \/ StartTask \/ TestQuit \/ TestRunning \/ NotSaving \/ Wake \/ WaitCrashes
           \/ DamageShows
  BY <1>5 DEF RunGraph, StartTask, TestQuit, TestRunning, NotSaving, Wake, WaitCrashes,
     DamageShows, Goto, Crash, flags
<1>6. QED
  BY <1>1, <1>3, <1>4, <1>5 DEF Next, FrameThread

LEMMA Typing == Spec => []TypeInv
<1>1. TypeInv /\ [Next]_vars => TypeInv'
  BY NumbersStep, NamesStep, BooleansStep DEF TypeInv
<1>2. QED  BY TypeInit, <1>1, PTL DEF Spec

(* For a pool of any size and any number of frames the fields keep their   *)
(* ranges and no more frames are written than were handed in.              *)
THEOREM TypeCorrect == Spec => []TypeOK
<1>1. TypeInv => TypeOK
  <2>1. ASSUME TypeInv
        PROVE  Waiting >= 0 /\ late \in 0 .. MaxStored
    BY <2>1, MaxStoredAssumption DEF TypeInv, Numbers, Waiting
  <2>2. QED  BY <2>1, Order DEF TypeInv, Numbers, Names, Booleans, TypeOK, Places
<1>2. QED  BY <1>1, Typing, PTL

-------------------------------------------------------------------------------
(* The end *)

LEMMA EndInit == Init => EndInv
<1>1. Init => OpenInv  BY DEF Init, OpenInv, Pass
<1>2. Init => ClosedInv  BY DEF Init, ClosedInv
<1>3. Init => PoolInv  BY DEF Init, PoolInv
<1>4. QED  BY <1>1, <1>2, <1>3 DEF EndInv

(* What the GUI thread does, and when, from the open window to the end.    *)
LEMMA GuiStep ==
  ASSUME TypeInv, EndInv, Press \/ CloseEvent \/ Leave
  PROVE  EndInv'
<1> USE DEF TypeInv, Names
<1>1. CASE Press
  <2>1. OpenInv'
    BY <1>1 DEF Press, EndInv, OpenInv, history
  <2>2. ClosedInv' /\ PoolInv'
    BY <1>1 DEF Press, EndInv, ClosedInv, PoolInv, history, saver
  <2>3. QED  BY <2>1, <2>2 DEF EndInv
<1>2. CASE CloseEvent
  <2>1. /\ gui = "open" /\ gui' = "closed" /\ quitProgram' /\ atClose' = fpc
        /\ backlog' = Waiting /\ late' = 0 /\ ~damaged' /\ freed' = 0
        /\ UNCHANGED <<pool, quitProgramm, isRunning, graph, fpc, wpc, stored, written>>
    BY <1>2 DEF CloseEvent, Close, saver, EndInv, OpenInv
  <2>2. OpenInv'
    BY <2>1 DEF EndInv, OpenInv
  <2>3. ClosedInv'
    <3>1. Waiting' = Waiting /\ Waiting \in Int
      BY <2>1 DEF Waiting, Numbers
    <3>2. Waiting' <= backlog' + late'
      BY <2>1, <3>1
    <3>3. QED  BY <2>1, <3>2 DEF ClosedInv
  <2>4. PoolInv'
    BY <2>1 DEF EndInv, PoolInv
  <2>5. QED  BY <2>2, <2>3, <2>4 DEF EndInv
<1>3. CASE Leave
  <2>1. /\ gui \notin {"open", "crashed"} /\ gui' \notin {"open", "closed", "crashed"}
        /\ quitProgram' /\ (gui = "closed" => quitProgramm')
        /\ (gui # "closed" => UNCHANGED quitProgramm)
        /\ (gui' \in {"delete", "stopped"} => gui \in {"closed", "delete"}
                                             /\ (graph' = "none" <=> graph = "none"))
        /\ UNCHANGED <<pool, isRunning, fpc, wpc, stored, written, atClose, backlog, late, damaged>>
    BY <1>3 DEF Leave, TellThreads, DeleteBuffer, StopGraph, ReleaseGraph, Exit, flags, saver,
       history, EndInv, ClosedInv
  <2>2. OpenInv'
    BY <2>1 DEF EndInv, OpenInv
  <2>3. ClosedInv'
    BY <2>1 DEF EndInv, ClosedInv, Waiting
  <2>4. PoolInv'
    BY <2>1 DEF EndInv, PoolInv
  <2>5. QED  BY <2>2, <2>3, <2>4 DEF EndInv
<1>4. QED  BY <1>1, <1>2, <1>3

(* The writer meets neither buffers nor interfaces.                        *)
LEMMA WriterStep ==
  ASSUME TypeInv, EndInv, Writer
  PROVE  EndInv'
<1>1. UNCHANGED <<pool, gui, quitProgram, quitProgramm, isRunning, graph, freed, fpc, stored,
                  atClose, backlog, late, damaged>>
  BY DEF Writer, WriterExit, TakeFrame, FinishFrame, Writes, flags, history
<1>2. OpenInv'
  BY <1>1 DEF EndInv, OpenInv
<1>3. ClosedInv'
  <2>1. Waiting' <= Waiting /\ Waiting \in Int /\ Waiting' \in Int
    BY <1>1 DEF Writer, WriterExit, TakeFrame, FinishFrame, Writes, Waiting, TypeInv, Numbers
  <2>2. backlog + late \in Int
    BY DEF TypeInv, Numbers
  <2>3. Waiting <= backlog + late => Waiting' <= backlog' + late'
    BY <1>1, <2>1, <2>2
  <2>4. QED  BY <1>1, <2>3 DEF EndInv, ClosedInv
<1>4. PoolInv'
  <2>1. wpc = "ended" => wpc' = "ended"
    BY DEF Writer, WriterExit, TakeFrame, FinishFrame, Writes
  <2>2. wpc' = "ended" => quitProgramm
    BY DEF Writer, WriterExit, TakeFrame, FinishFrame, Writes
  <2>3. QED  BY <1>1, <2>1, <2>2 DEF EndInv, PoolInv
<1>5. QED  BY <1>2, <1>3, <1>4 DEF EndInv

(* What a step of the frame thread in a pass may do: store one frame and   *)
(* leave the pass, damage or crash where something is freed.               *)
LEMMA PassStep ==
  ASSUME TypeInv, EndInv, Alive, fpc \in Pass,
         UNCHANGED <<pool, quitProgram, quitProgramm, isRunning, freed, wpc, written, atClose, backlog>>,
         gui' = gui \/ (gui' = "crashed" /\ gui # "open"),
         damaged' => damaged \/ gui # "open",
         graph' = "none" <=> graph = "none",
         fpc = "running" /\ fpc' # "running" => isRunning \/ fpc' \notin Pass,
         fpc' # "queued", graph' \in {"none", "stopped", "running"},
         \/ UNCHANGED <<stored, late>>
         \/ /\ fpc' \notin Pass \/ gui' = "crashed"
            /\ stored' = stored + 1 /\ late' = IF gui = "open" THEN late ELSE late + 1
  PROVE  EndInv'
<1>1. OpenInv'
  BY DEF EndInv, OpenInv
<1>2. ClosedInv'
  <2>1. SUFFICES ASSUME gui' # "open" PROVE ClosedInv'
    BY DEF ClosedInv
  <2>2. CASE gui = "open"
    BY <2>1, <2>2
  <2>3. CASE gui # "open"
    <3>1. /\ quitProgram' /\ atClose' \in Pass /\ late = 0 /\ Waiting <= backlog + late
      BY <2>3 DEF EndInv, ClosedInv, Alive
    <3>2. late' <= 1 /\ (fpc' \in Pass /\ gui' # "crashed" => late' = 0)
      BY <2>3, <3>1
    <3>3. Waiting' <= backlog' + late'
      <4>1. stored \in Int /\ written \in Int /\ backlog \in Int
        BY DEF TypeInv, Numbers
      <4>2. CASE UNCHANGED <<stored, late>>
        BY <3>1, <4>2 DEF Waiting
      <4>3. CASE stored' = stored + 1 /\ late' = late + 1
        BY <3>1, <4>1, <4>3 DEF Waiting
      <4>4. QED  BY <2>3, <4>2, <4>3
    <3>4. QED  BY <3>1, <3>2, <3>3 DEF ClosedInv
  <2>4. QED  BY <2>2, <2>3
<1>3. PoolInv'
  BY DEF EndInv, PoolInv, Alive, Pass
<1>4. QED  BY <1>1, <1>2, <1>3 DEF EndInv

(* The frame thread after the closing: the pass under way, then its test.  *)
LEMMA FrameThreadStep ==
  ASSUME TypeInv, EndInv, FrameThread \/ Wake \/ WaitCrashes \/ DamageShows
  PROVE  EndInv'
<1> USE DEF TypeInv, Names
<1>a. /\ Alive
      /\ UNCHANGED <<pool, quitProgram, quitProgramm, isRunning, freed, wpc, written, atClose,
                     backlog>>
  BY DEF FrameThread, Wake, WaitCrashes, DamageShows, StartTask, TestQuit, TestRunning,
     ClearPacket, RunGraph, Fetch, SkipRepeated, Build, BuildThrows, StoreFrame, NotSaving,
     At, Use, Goto, Crash, flags, saver, history
<1>b. freed = 0 => Freed = {}
  BY NothingFreed
<1>c. gui = "open" => freed = 0 /\ ~damaged
  BY DEF EndInv, OpenInv
(* where something deleted is used *)
<1>u. ASSUME NEW buffers, NEW place \in Places \ {"queued", "running"}, Use(buffers, place),
             fpc \in Pass \ {"running"}, UNCHANGED graph,
             \/ UNCHANGED <<stored, late>>
             \/ /\ place = "test" /\ stored' = stored + 1
                /\ late' = IF gui = "open" THEN late ELSE late + 1
      PROVE  EndInv'
  <2>1. gui' = gui \/ (gui' = "crashed" /\ gui # "open")
    BY <1>b, <1>c, <1>u DEF Use, Goto
  <2>2. damaged' => damaged \/ gui # "open"
    BY <1>b, <1>c, <1>u DEF Use, Goto
  <2>3. fpc' = place \/ (fpc' = fpc /\ gui' = "crashed")
    BY <1>u DEF Use, Goto
  <2>4. fpc' # "queued" /\ (place = "test" => fpc' \notin Pass \/ gui' = "crashed")
    BY <1>u, <2>3 DEF Pass
  <2>5. QED  BY <1>a, <1>u, <2>1, <2>2, <2>4, PassStep
(* the steps that end the process *)
<1>k. ASSUME Crash, gui # "open", fpc \in Pass \/ damaged
      PROVE  EndInv'
  <2>1. /\ gui' = "crashed"
        /\ UNCHANGED <<graph, fpc, stored, late, damaged>>
    BY <1>k DEF Crash, saver, history
  <2>2. OpenInv'
    BY <2>1 DEF OpenInv
  <2>3. ClosedInv'
    BY <1>a, <1>k, <2>1 DEF EndInv, ClosedInv, Waiting, Alive
  <2>4. PoolInv'
    BY <1>a, <2>1 DEF EndInv, PoolInv
  <2>5. QED  BY <2>2, <2>3, <2>4 DEF EndInv
<1>g. fpc \in Pass \ {"running"} /\ graph = "none" => gui # "open"
  BY DEF EndInv, OpenInv
<1>1. CASE StartTask
  <2>1. /\ UNCHANGED <<gui, graph, stored, late, damaged>> /\ fpc' = "test"
        /\ (pool > 1 \/ wpc = "ended")
    BY <1>1 DEF StartTask, Goto
  <2>2. OpenInv'
    BY <1>a, <1>1, <2>1 DEF EndInv, OpenInv, Pass
  <2>3. ClosedInv'
    BY <1>a, <2>1 DEF EndInv, ClosedInv, Waiting, Pass
  <2>4. PoolInv'
    BY <1>a, <2>1 DEF EndInv, PoolInv
  <2>5. QED  BY <2>2, <2>3, <2>4 DEF EndInv
<1>2. CASE TestQuit
  <2>1. /\ UNCHANGED <<gui, graph, stored, late, damaged>> /\ fpc = "test"
        /\ fpc' = IF quitProgram THEN "ended" ELSE "running"
    BY <1>2 DEF TestQuit, At, Goto
  <2>2. OpenInv'
    BY <1>a, <2>1 DEF EndInv, OpenInv, Pass
  <2>3. ClosedInv'
    BY <1>a, <2>1 DEF EndInv, ClosedInv, Waiting, Pass
  <2>4. PoolInv'
    BY <1>a, <2>1 DEF EndInv, PoolInv
  <2>5. QED  BY <2>2, <2>3, <2>4 DEF EndInv
<1>3. CASE TestRunning
  <2>1. /\ UNCHANGED <<gui, graph, stored, late, damaged>> /\ fpc = "running"
        /\ fpc' = IF isRunning THEN "clear" ELSE "test"
    BY <1>3 DEF TestRunning, At, Goto
  <2>2. QED  BY <1>a, <2>1, PassStep DEF Pass
<1>4. CASE RunGraph
  <2>1. CASE graph = "none" /\ Crash
    BY <1>4, <1>g, <1>k, <2>1 DEF RunGraph, At, Pass
  <2>2. CASE graph # "none" /\ Goto("wait") /\ graph' = "running"
             /\ UNCHANGED <<stored, late, damaged>>
    <3>1. fpc = "run" /\ fpc' = "wait" /\ gui' = gui
      BY <1>4, <2>2 DEF RunGraph, At, Goto
    <3>2. QED  BY <1>a, <2>2, <3>1, PassStep DEF Pass
  <2>3. QED  BY <1>4, <2>1, <2>2 DEF RunGraph
<1>5. CASE Wake
  <2>1. fpc = "wait" /\ fpc' = "fetch" /\ UNCHANGED <<gui, graph, stored, late, damaged>>
    BY <1>5 DEF Wake, At, Goto
  <2>2. QED  BY <1>a, <2>1, PassStep DEF Pass
<1>6. CASE WaitCrashes
  BY <1>6, <1>g, <1>k DEF WaitCrashes, At, Pass
<1>7. CASE DamageShows
  BY <1>7, <1>c, <1>k DEF DamageShows
<1>8. CASE Fetch
  <2>1. CASE graph = "none" /\ Crash
    BY <1>8, <1>g, <1>k, <2>1 DEF Fetch, At, Pass
  <2>2. CASE Use({"datagroup"}, "build") /\ UNCHANGED <<graph, stored, late>>
    BY <1>8, <1>u, <2>2 DEF Fetch, At, Places, Pass
  <2>3. QED  BY <1>8, <2>1, <2>2 DEF Fetch
<1>9. CASE ClearPacket
  BY <1>9, <1>u DEF ClearPacket, At, Places, Pass
<1>10. CASE SkipRepeated
  BY <1>10, <1>u DEF SkipRepeated, At, Places, Pass
<1>11. CASE Build
  BY <1>11, <1>u DEF Build, At, Places, Pass
<1>12. CASE BuildThrows
  BY <1>12, <1>u DEF BuildThrows, At, Places, Pass
<1>13. CASE StoreFrame
  BY <1>13, <1>u DEF StoreFrame, At, Places, Pass
<1>14. CASE NotSaving
  <2>1. fpc = "store" /\ fpc' = "test" /\ UNCHANGED <<gui, graph, stored, late, damaged>>
    BY <1>14 DEF NotSaving, At, Goto
  <2>2. QED  BY <1>a, <2>1, PassStep DEF Pass
<1>15. QED
  BY <1>1, <1>2, <1>3, <1>4, <1>5, <1>6, <1>7, <1>8, <1>9, <1>10, <1>11, <1>12, <1>13, <1>14
     DEF FrameThread

LEMMA Ending == Spec => []EndInv
<1>1. ASSUME EndInv, UNCHANGED vars
      PROVE  EndInv'
  BY <1>1 DEF vars, flags, saver, history, EndInv, OpenInv, ClosedInv, PoolInv, Waiting
<1>2. TypeInv /\ EndInv /\ [Next]_vars => EndInv'
  BY <1>1, GuiStep, WriterStep, FrameThreadStep DEF Next
<1>3. QED  BY EndInit, <1>2, Typing, PTL DEF Spec

(* Whatever the size of the pool, only a pass under way when the window is *)
(* closed meets what release has freed.                                    *)
THEOREM FreedUseOnlyMidPassCorrect == Spec => []FreedUseOnlyMidPass
<1>1. TypeInv /\ EndInv => FreedUseOnlyMidPass
  BY DEF TypeInv, Names, EndInv, OpenInv, ClosedInv, PoolInv, FreedUseOnlyMidPass, Pass
<1>2. QED  BY <1>1, Typing, Ending, PTL

(* Whatever the size of the pool, at most one frame is stored afterwards.  *)
THEOREM OneFrameAfterCloseCorrect == Spec => []OneFrameAfterClose
<1>1. TypeInv /\ EndInv => OneFrameAfterClose
  BY DEF TypeInv, Names, EndInv, OpenInv, ClosedInv, OneFrameAfterClose, Pass
<1>2. QED  BY <1>1, Typing, Ending, PTL

(* For any number of frames: what a regular end loses waited at the        *)
(* closing, but for one frame.                                             *)
THEOREM LossBoundedCorrect == Spec => []LossBounded
<1>1. ASSUME TypeInv, EndInv, gui = "exited", wpc = "ended"
      PROVE  stored - written <= backlog + (IF atClose \in Pass THEN 1 ELSE 0)
  <2>1. /\ Waiting <= backlog + late /\ late <= IF atClose \in Pass THEN 1 ELSE 0
        /\ Waiting = stored - written
    BY <1>1 DEF EndInv, ClosedInv, Waiting, TypeInv, Numbers
  <2>2. stored \in Int /\ written \in Int /\ backlog \in Int /\ late \in Int
    BY <1>1 DEF TypeInv, Numbers
  <2>3. QED  BY <2>1, <2>2
<1>2. Init => (gui = "exited" => wpc = "ended")
  BY DEF Init
<1>3. (gui = "exited" => wpc = "ended") /\ [Next]_vars => (gui = "exited" => wpc = "ended")'
  BY DEF Next, vars, saver, Press, CloseEvent, Close, Leave, TellThreads, DeleteBuffer, StopGraph,
     ReleaseGraph, Exit, FrameThread, Wake, WaitCrashes, DamageShows, StartTask, TestQuit,
     TestRunning, ClearPacket, RunGraph, Fetch, SkipRepeated, Build, BuildThrows, StoreFrame,
     NotSaving, Use, Goto, Crash, Writer, WriterExit, TakeFrame, FinishFrame, Writes, Alive, At
<1>4. TypeInv /\ EndInv /\ (gui = "exited" => wpc = "ended") => LossBounded
  BY <1>1 DEF LossBounded
<1>5. QED  BY <1>2, <1>3, <1>4, Typing, Ending, PTL DEF Spec

-------------------------------------------------------------------------------
(* The pool of one thread *)

SingleInv == ~(pool > 1) => fpc \notin Pass /\ stored = 0

(* The writer gives its thread back only at the end.                       *)
LEMMA SingleStep == TypeInv /\ EndInv /\ EndInv' /\ SingleInv /\ [Next]_vars => SingleInv'
<1> SUFFICES ASSUME TypeInv, EndInv, EndInv', SingleInv, [Next]_vars PROVE SingleInv'
  OBVIOUS
<1>1. UNCHANGED pool
  BY DEF Next, vars, Press, CloseEvent, Close, Leave, TellThreads, DeleteBuffer, StopGraph,
     ReleaseGraph, Exit, FrameThread, Wake, WaitCrashes, DamageShows, StartTask, TestQuit,
     TestRunning, ClearPacket, RunGraph, Fetch, SkipRepeated, Build, BuildThrows, StoreFrame,
     NotSaving, Use, Goto, Crash, Writer, WriterExit, TakeFrame, FinishFrame, Writes
<1> SUFFICES ASSUME ~(pool > 1) PROVE fpc' \notin Pass /\ stored' = 0
  BY <1>1 DEF SingleInv
<1>2. fpc \notin Pass /\ stored = 0
  BY DEF SingleInv
<1>3. UNCHANGED stored
  BY <1>2 DEF Next, vars, saver, Press, CloseEvent, Close, Leave, TellThreads, DeleteBuffer,
     StopGraph, ReleaseGraph, Exit, FrameThread, Wake, WaitCrashes, DamageShows, StartTask,
     TestQuit, TestRunning, ClearPacket, RunGraph, Fetch, SkipRepeated, Build, BuildThrows,
     StoreFrame, NotSaving, At, Pass, Crash, Writer, WriterExit, TakeFrame, FinishFrame, Writes
<1>4. fpc' \in Pass => fpc' # "queued" /\ gui' # "open"
  BY <1>1 DEF Pass, EndInv, PoolInv
<1>5. fpc' \in Pass => atClose' \in Pass
  BY <1>4 DEF EndInv, ClosedInv
<1>6. atClose' \notin Pass
  BY <1>1 DEF EndInv, PoolInv, Pass
<1>7. QED  BY <1>2, <1>3, <1>5, <1>6

(* On a machine with a single processor the preview shows and the saver    *)
(* gets nothing, from the start of the program to its end                  *)
(* (imagereader.cpp:70 and 83, datasaver.cpp:91).                          *)
THEOREM SingleThreadIdleCorrect == Spec => []SingleThreadIdle
<1>1. Init => SingleInv
  BY DEF Init, SingleInv, Pass
<1>2. SingleInv => SingleThreadIdle
  BY DEF SingleInv, SingleThreadIdle
<1>3. QED  BY <1>1, <1>2, SingleStep, Typing, Ending, PTL DEF Spec

===============================================================================
