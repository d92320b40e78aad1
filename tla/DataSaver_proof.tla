---------------------------- MODULE DataSaver_proof ----------------------------
(***************************************************************************)
(* Proofs about DataSaver for rings of every size, any number of frames    *)
(* and every interleaving of the producer, the writer and the GUI thread.  *)
(***************************************************************************)
EXTENDS DataSaver, FiniteSetTheorems, TLAPS

(* TypeOK is inductive. *)
LEMMA TypeInit == Init => TypeOK
  BY BUFFLENAssumption, StopCheckLimitAssumption
  DEF Init, TypeOK, Slots, NoFrame, NoShot, Shots, Copying, Holding, Encoding

(* What the writer notes of the files it writes keeps its type. *)
LEMMA NoShotType == NoShot \in Shots
  BY DEF NoShot, Shots, NoFrame

(* What one file, or one access to a slot, adds to the record of a frame.  *)
LEMMA ShotType ==
  ASSUME NEW s \in Shots, NEW f \in Nat \cup {NoFrame}, NEW p \in Paths
  PROVE  /\ [s EXCEPT !.ir = f, !.paths = @ \cup {p}] \in Shots
         /\ [s EXCEPT !.depth = f, !.paths = @ \cup {p}] \in Shots
         /\ [s EXCEPT !.cloud = f, !.paths = @ \cup {p}] \in Shots
         /\ [s EXCEPT !.rgb = f, !.paths = @ \cup {p}] \in Shots
         /\ [s EXCEPT !.mode = 4] \in Shots
  BY DEF Shots

(* The record the writer begins a frame with.                              *)
LEMMA StartType ==
  ASSUME NEW n \in Nat, NEW m \in {0, 3}, NEW q \in Nat
  PROVE  [NoShot EXCEPT !.session = q, !.name = n, !.mode = m] \in Shots
  BY DEF Shots, NoShot, NoFrame

LEMMA TypeStep == TypeOK /\ [Next]_vars => TypeOK'
<1> SUFFICES ASSUME TypeOK, [Next]_vars PROVE TypeOK'
  OBVIOUS
<1> USE BUFFLENAssumption, StopCheckLimitAssumption, PathsAssumption
    DEF TypeOK, Slots, Copying, Holding, Encoding,
        guiVars, producerVars, imageVars, aloneStore, aloneWrite, writerVars, drainVars
<1>1. CASE CallStoreData
  BY <1>1 DEF CallStoreData
<1>2. CASE CopyIr
  BY <1>2 DEF CopyIr
<1>3. CASE CopyRgb
  BY <1>3 DEF CopyRgb
<1>4. CASE CopyDepth
  BY <1>4 DEF CopyDepth
<1>5. CASE BumpSaveIndex
  BY <1>5 DEF BumpSaveIndex, SlotAfter
<1>6. CASE WrapSaveIndex
  BY <1>6 DEF WrapSaveIndex
<1>7. CASE CopyAlone
  BY <1>7 DEF CopyAlone
<1>8. CASE BumpAlone
  BY <1>8 DEF BumpAlone, SlotAfter
<1>9. CASE WrapAlone
  BY <1>9 DEF WrapAlone
<1>10. CASE WriterExit /\ UNCHANGED <<guiVars, producerVars, aloneStore>>
  BY <1>10 DEF WriterExit, NoFrame
<1>11. CASE TakeFrame /\ UNCHANGED <<guiVars, producerVars, aloneStore>>
  <2>1. shot' \in Shots
    BY <1>11, StartType DEF TakeFrame, NoFrame
  <2>2. /\ wpc' \in {"ir", "mode"} /\ mishaps' \subseteq mishaps \cup {"stale"}
        /\ stopCheck' = 0 /\ writeFinsih' = FALSE /\ quiet' = 0
        /\ UNCHANGED <<imageVars, aloneWrite, writeIndex, retired, saved, savePathIndex,
                       session, aloneMishaps>>
    BY <1>11 DEF TakeFrame
  <2>3. mishaps' \subseteq {"lapped", "stale", "skipped"}
    BY <2>2
  <2>4. UNCHANGED <<guiVars, producerVars, aloneStore>>
    BY <1>11
  <2>5. wpc' \in {"ir", "mode"}
    BY <2>2
  <2>6. quiet' \in 0 .. StopCheckLimit /\ stopCheck' \in 0 .. StopCheckLimit
    BY <2>2
  <2>7. writeFinsih' \in BOOLEAN
    BY <2>2
  <2>8. UNCHANGED <<imageVars, aloneWrite, writeIndex, retired, saved, savePathIndex,
                    session, aloneMishaps>>
    BY <2>2
  <2> QED
    BY <2>1, <2>3, <2>4, <2>5, <2>6, <2>7, <2>8
<1>12. CASE RereadMode /\ UNCHANGED <<guiVars, producerVars, aloneStore>>
  <2>1. shot' \in Shots
    BY <1>12, ShotType DEF RereadMode, NoFrame
  <2> QED
    BY <1>12, <2>1 DEF RereadMode, NoFrame
<1>13. CASE WriteIr /\ UNCHANGED <<guiVars, producerVars, aloneStore>>
  <2>1. shot' \in Shots
    <3>1. irFrameData[writeIndex] \in Nat \cup {NoFrame}
      OBVIOUS
    <3>2. CASE irIsColour[writeIndex]
      <4>1. shot' = [shot EXCEPT !.ir = irFrameData[writeIndex], !.paths = @ \cup {savePath}]
        BY <1>13, <3>2 DEF WriteIr
      <4> QED
        BY <3>1, <4>1, ShotType
    <3>3. CASE ~(irIsColour[writeIndex])
      BY <1>13, <3>3 DEF WriteIr
    <3> QED
      BY <3>2, <3>3
  <2>2. wpc' \in {"depth", "dead"} /\ irIsColour' \in [Slots -> BOOLEAN]
    BY <1>13 DEF WriteIr
  <2>3. UNCHANGED <<irFrameData, aloneWrite, writeIndex, retired, saved, drainVars,
                    mishaps, aloneMishaps>>
    BY <1>13 DEF WriteIr
  <2> QED
    BY <1>13, <2>1, <2>2, <2>3
<1>14. CASE WriteDepth /\ UNCHANGED <<guiVars, producerVars, aloneStore>>
  <2>1. shot' \in Shots
    BY <1>14, ShotType DEF WriteDepth, NoFrame
  <2> QED
    BY <1>14, <2>1 DEF WriteDepth, NoFrame
<1>15. CASE WriteCloud /\ UNCHANGED <<guiVars, producerVars, aloneStore>>
  <2>1. shot' \in Shots
    <3>1. depthData[writeIndex] \in Nat \cup {NoFrame}
      OBVIOUS
    <3>2. CASE savePath \in CloudPaths
      <4>1. shot' = [shot EXCEPT !.cloud = depthData[writeIndex], !.paths = @ \cup {savePath}]
        BY <1>15, <3>2 DEF WriteCloud
      <4> QED
        BY <3>1, <4>1, ShotType
    <3>3. CASE ~(savePath \in CloudPaths)
      BY <1>15, <3>3 DEF WriteCloud
    <3> QED
      BY <3>2, <3>3
  <2>2. /\ wpc' \in {"rgb", "dead"}
        /\ UNCHANGED <<imageVars, aloneWrite, writeIndex, retired, saved, drainVars,
                       mishaps, aloneMishaps>>
    BY <1>15 DEF WriteCloud
  <2> QED
    BY <1>15, <2>1, <2>2
<1>16. CASE WriteRgb /\ UNCHANGED <<guiVars, producerVars, aloneStore>>
  <2>1. shot' \in Shots
    BY <1>16, ShotType DEF WriteRgb, NoFrame
  <2> QED
    BY <1>16, <2>1 DEF WriteRgb, NoFrame
<1>17. CASE Advance /\ UNCHANGED <<guiVars, producerVars, aloneStore>>
  <2>1. shot' \in Shots
    BY <1>17, NoShotType DEF Advance, NoFrame
  <2> QED
    BY <1>17, <2>1 DEF Advance, SlotAfter, NoFrame
<1>18. CASE NoFrameToTake /\ UNCHANGED <<guiVars, producerVars, aloneStore>>
  BY <1>18 DEF NoFrameToTake, NoFrame
<1>19. CASE TakeAlone /\ UNCHANGED <<guiVars, producerVars, aloneStore>>
  BY <1>19 DEF TakeAlone, NoFrame
<1>20. CASE WriteAlone /\ UNCHANGED <<guiVars, producerVars, aloneStore>>
  BY <1>20 DEF WriteAlone, AloneSuccessor, NoFrame
<1>21. CASE WriteOutside /\ UNCHANGED <<guiVars, producerVars, aloneStore>>
  BY <1>21 DEF WriteOutside, NoFrame
<1>22. CASE CheckSynced /\ UNCHANGED <<guiVars, producerVars, aloneStore>>
  BY <1>22 DEF CheckSynced, NoFrame
<1>23. CASE FinishSession /\ UNCHANGED <<guiVars, producerVars, aloneStore>>
  BY <1>23 DEF FinishSession, NoFrame
<1>24. CASE SleepOnce /\ UNCHANGED <<guiVars, producerVars, aloneStore>>
  BY <1>24 DEF SleepOnce, NoFrame
<1>25. CASE NotDrained /\ UNCHANGED <<guiVars, producerVars, aloneStore>>
  BY <1>25 DEF NotDrained, NoFrame
<1>26. CASE SetSavePathAndMode
  BY <1>26 DEF SetSavePathAndMode
<1>27. CASE ReleaseDateSaver
  BY <1>27 DEF ReleaseDateSaver
<1>28. CASE UNCHANGED vars
  BY <1>28 DEF vars
<1> QED
  BY <1>1, <1>2, <1>3, <1>4, <1>5, <1>6, <1>7, <1>8, <1>9, <1>10, <1>11, <1>12, <1>13, <1>14, <1>15, <1>16, <1>17, <1>18, <1>19, <1>20, <1>21, <1>22, <1>23, <1>24, <1>25, <1>26, <1>27, <1>28
  DEF Next, Producer, Writer

(* For every ring size the places of both threads, the cursors, wrapped or *)
(* about to be, and the record of the frame being written keep their       *)
(* ranges (datasaver.cpp:36-61, 91-211).                                   *)
THEOREM TypeCorrect == Spec => []TypeOK
  BY TypeInit, TypeStep, PTL DEF Spec

-------------------------------------------------------------------------------
(* The ring: facts about the place of a slot relative to the writer's. *)

LEMMA SlotFacts ==
  ASSUME writeIndex \in Slots
  PROVE  /\ Slot(0) = writeIndex
         /\ \A k \in 0 .. BUFFLEN - 1 : Slot(k) \in Slots
         /\ \A j, k \in 0 .. BUFFLEN - 1 : Slot(j) = Slot(k) => j = k
  BY BUFFLENAssumption DEF Slot, Slots

(* When the writer goes on to the next slot, every slot is one place nearer. *)
LEMMA SlotShift ==
  ASSUME writeIndex \in Slots, writeIndex' = SlotAfter(writeIndex)
  PROVE  \A k \in 0 .. BUFFLEN - 2 : Slot(k)' = Slot(k + 1)
  BY BUFFLENAssumption DEF Slot, Slots, SlotAfter

(* The slot being filled is none of those in which a frame waits. *)
LEMMA FillingIsFree ==
  ASSUME TypeOK, CursorsCount, ppc # "wrap"
  PROVE  /\ saveIndex \in Slots
         /\ saveIndex = Slot(produced - retired)
         /\ \A k \in 0 .. BUFFLEN - 1 : k < produced - retired => Slot(k) # saveIndex
<1>1. saveIndex \in Slots
  BY BUFFLENAssumption DEF TypeOK, Slots
<1>2. saveIndex = Slot(produced - retired)
  BY <1>1, BUFFLENAssumption DEF CursorsCount, Slots
<1>3. produced - retired \in 0 .. BUFFLEN - 1
  BY BUFFLENAssumption DEF TypeOK, CursorsCount
<1>4. writeIndex \in Slots
  BY DEF TypeOK
<1> QED
  BY <1>1, <1>2, <1>3, <1>4, SlotFacts, BUFFLENAssumption

LEMMA RingInit == Init => RingInv
  BY BUFFLENAssumption
  DEF Init, RingInv, Undisturbed, CursorsCount, WaitingIntact, CopiedSoFar, WrittenSoFar,
      Slot, Holding, Encoding, NoFrame

(* The part of RingInv that is about the files written. *)
SavedIntact == Len(saved) = retired /\ \A i \in 1 .. Len(saved) : Whole(saved[i], i - 1)

(* Steps that touch neither ring content nor cursors. *)
LEMMA ElsewhereStep ==
  ASSUME TypeOK, RingInv, Undisturbed', Undisturbed,
         UNCHANGED <<imageVars, rgbFrameData, depthData, saveIndex, writeIndex, produced,
                     retired, saved>>
  PROVE  /\ CursorsCount' /\ SavedIntact'
         /\ UNCHANGED <<shot, wpc>> => WrittenSoFar'
         /\ UNCHANGED ppc \/ ppc' \in {"idle", "ir", "abump", "awrap"} => CopiedSoFar'
         /\ UNCHANGED wpc \/ wpc \notin {"depth", "cloud", "rgb", "next", "dead"} => WaitingIntact'
<1>1. CursorsCount'
  BY DEF RingInv, CursorsCount, Slot
<1>2. SavedIntact'
  BY DEF RingInv, SavedIntact, Whole
<1>3. UNCHANGED <<shot, wpc>> => WrittenSoFar'
  BY DEF RingInv, WrittenSoFar
<1>4. UNCHANGED ppc \/ ppc' \in {"idle", "ir", "abump", "awrap"} => CopiedSoFar'
  BY DEF RingInv, CopiedSoFar, imageVars
<1>5. UNCHANGED wpc \/ wpc \notin {"depth", "cloud", "rgb", "next", "dead"} => WaitingIntact'
  BY DEF RingInv, WaitingIntact, Slot, imageVars
<1> QED
  BY <1>1, <1>2, <1>3, <1>4, <1>5

(* Each access of producer or writer keeps the ring right or counts as a   *)
(* mishap.                                                                 *)
LEMMA RingStep == TypeOK /\ RingInv /\ [Next]_vars => RingInv'
<1> SUFFICES ASSUME TypeOK, RingInv, [Next]_vars, Undisturbed'
             PROVE  CursorsCount' /\ WaitingIntact' /\ CopiedSoFar' /\ WrittenSoFar' /\ SavedIntact'
  BY DEF RingInv, SavedIntact
<1>0. Undisturbed
  BY DEF Undisturbed, Next, vars, Producer, Writer, CallStoreData, CopyIr, CopyRgb, CopyDepth,
         BumpSaveIndex, WrapSaveIndex, CopyAlone, BumpAlone, WrapAlone, WriterExit, TakeFrame,
         RereadMode, WriteIr, WriteDepth, WriteCloud, WriteRgb, Advance, NoFrameToTake, TakeAlone,
         WriteAlone, WriteOutside, CheckSynced, FinishSession, SleepOnce, NotDrained,
         SetSavePathAndMode, ReleaseDateSaver
<1> USE <1>0
<1>r. CursorsCount /\ WaitingIntact /\ CopiedSoFar /\ WrittenSoFar /\ SavedIntact
  BY DEF RingInv, SavedIntact
<1>1. CASE CallStoreData
  <2>1. UNCHANGED <<imageVars, rgbFrameData, depthData, saveIndex, writeIndex, produced, retired,
                    saved, shot, wpc>> /\ ppc' = "ir"
    BY <1>1 DEF CallStoreData, writerVars
  <2> QED
    BY <2>1, ElsewhereStep
<1>2. CASE CopyIr
  <2>1. /\ ppc = "ir" /\ ppc' = "rgb"
        /\ irFrameData' = [irFrameData EXCEPT ![saveIndex] = produced]
        /\ irIsColour' = [irIsColour EXCEPT ![saveIndex] = TRUE]
        /\ UNCHANGED <<rgbFrameData, depthData, saveIndex, writeIndex, produced, retired, saved, shot, wpc>>
    BY <1>2 DEF CopyIr, writerVars
  <2>2. CursorsCount' /\ SavedIntact' /\ WrittenSoFar'
    BY <1>r, <2>1 DEF CursorsCount, SavedIntact, Whole, WrittenSoFar, Slot
  <2>3. CopiedSoFar'
    BY <2>1, <1>r, FillingIsFree DEF CopiedSoFar, TypeOK
  <2>4. WaitingIntact'
    BY <2>1, <1>r, FillingIsFree, SlotFacts DEF WaitingIntact, TypeOK, Slot
  <2> QED
    BY <2>2, <2>3, <2>4
<1>3. CASE CopyRgb
  <2>1. /\ ppc = "rgb" /\ ppc' = "depth"
        /\ rgbFrameData' = [rgbFrameData EXCEPT ![saveIndex] = produced]
        /\ UNCHANGED <<irFrameData, irIsColour, depthData, saveIndex, writeIndex, produced, retired,
                       saved, shot, wpc>>
    BY <1>3 DEF CopyRgb, writerVars, imageVars
  <2>2. CursorsCount' /\ SavedIntact' /\ WrittenSoFar'
    BY <1>r, <2>1 DEF CursorsCount, SavedIntact, Whole, WrittenSoFar, Slot
  <2>3. CopiedSoFar'
    BY <2>1, <1>r, FillingIsFree DEF CopiedSoFar, TypeOK
  <2>4. WaitingIntact'
    BY <2>1, <1>r, FillingIsFree, SlotFacts DEF WaitingIntact, TypeOK, Slot
  <2> QED
    BY <2>2, <2>3, <2>4
<1>4. CASE CopyDepth
  <2>1. /\ ppc = "depth" /\ ppc' = "bump"
        /\ depthData' = [depthData EXCEPT ![saveIndex] = produced]
        /\ UNCHANGED <<irFrameData, irIsColour, rgbFrameData, saveIndex, writeIndex, produced, retired,
                       saved, shot, wpc>>
    BY <1>4 DEF CopyDepth, writerVars, imageVars
  <2>2. CursorsCount' /\ SavedIntact' /\ WrittenSoFar'
    BY <1>r, <2>1 DEF CursorsCount, SavedIntact, Whole, WrittenSoFar, Slot
  <2>3. CopiedSoFar'
    BY <2>1, <1>r, FillingIsFree DEF CopiedSoFar, TypeOK
  <2>4. WaitingIntact'
    BY <2>1, <1>r, FillingIsFree, SlotFacts DEF WaitingIntact, TypeOK, Slot
  <2> QED
    BY <2>2, <2>3, <2>4
<1>5. CASE BumpSaveIndex
  <2>1. /\ ppc = "bump" /\ ppc' \in {"idle", "wrap"} /\ produced' = produced + 1
        /\ saveIndex' = SlotAfter(saveIndex) \/ (saveIndex + 1 = BUFFLEN /\ saveIndex' = BUFFLEN)
        /\ UNCHANGED <<irFrameData, irIsColour, rgbFrameData, depthData, writeIndex, retired,
                       saved, shot, wpc>>
    BY <1>5 DEF BumpSaveIndex, writerVars, imageVars
  <2>2. produced + 1 - retired < BUFFLEN
    BY <1>5, BUFFLENAssumption DEF BumpSaveIndex, Undisturbed, TypeOK
  <2>3. saveIndex \in Slots /\ saveIndex = Slot(produced - retired)
    BY <2>1, <1>r, FillingIsFree
  <2>4. produced \in Nat /\ retired \in Nat /\ writeIndex \in Slots /\ retired <= produced
    BY <1>r DEF TypeOK, CursorsCount
  <2>5. CursorsCount'
    <3>1. Slot(produced + 1 - retired) = SlotAfter(saveIndex)
      BY <2>2, <2>3, <2>4, BUFFLENAssumption DEF Slot, SlotAfter, Slots
    <3>2. Slot(produced - retired)' = SlotAfter(saveIndex)
      BY <3>1, <2>1, <2>4 DEF Slot
    <3>3. SlotAfter(saveIndex) = IF saveIndex' = BUFFLEN THEN 0 ELSE saveIndex'
      BY <2>1, <2>3, BUFFLENAssumption DEF SlotAfter, Slots
    <3>4. retired' <= produced' /\ produced' - retired' < BUFFLEN
      BY <2>1, <2>2, <2>4
    <3> QED
      BY <3>2, <3>3, <3>4 DEF CursorsCount
  <2>6. WaitingIntact'
    <3> DEFINE Waits(k) ==
                 /\ irFrameData[Slot(k)] = retired + k
                 /\ rgbFrameData[Slot(k)] = retired + k
                 /\ depthData[Slot(k)] = retired + k
                 /\ irIsColour[Slot(k)] \/ (k = 0 /\ wpc \in {"depth", "cloud", "rgb", "next", "dead"})
    <3> SUFFICES ASSUME NEW k \in 0 .. BUFFLEN - 1, k < produced + 1 - retired
                 PROVE  Waits(k)
      <4>1. \A k \in 0 .. BUFFLEN - 1 : Waits(k)' <=> Waits(k)
        BY <2>1 DEF Slot
      <4>2. produced' - retired' = produced + 1 - retired
        BY <2>1, <2>4
      <4> QED
        BY <4>1, <4>2 DEF WaitingIntact
    <3>1. CASE k < produced - retired
      BY <3>1, <1>r DEF WaitingIntact
    <3>2. CASE ~(k < produced - retired)
      <4>1. k = produced - retired
        BY <3>2, <2>4
      <4>2. Slot(k) = saveIndex /\ retired + k = produced
        BY <4>1, <2>3, <2>4
      <4> QED
        BY <4>2, <2>1, <1>r DEF CopiedSoFar
    <3> QED
      BY <3>1, <3>2
  <2>7. CopiedSoFar' /\ SavedIntact'
    BY <2>1, <1>r DEF CopiedSoFar, SavedIntact, Whole
  <2>8. WrittenSoFar'
    BY <2>1, <2>4, <1>r DEF WrittenSoFar
  <2> QED
    BY <2>5, <2>6, <2>7, <2>8
<1>6. CASE WrapSaveIndex
  <2>1. /\ saveIndex = BUFFLEN /\ saveIndex' = 0 /\ ppc' = "idle"
        /\ UNCHANGED <<irFrameData, irIsColour, rgbFrameData, depthData, writeIndex, produced, retired,
                       saved, shot, wpc>>
    BY <1>6 DEF WrapSaveIndex, writerVars, imageVars, TypeOK
  <2>2. CursorsCount'
    BY <2>1, <1>r, BUFFLENAssumption DEF CursorsCount, Slot
  <2>3. WaitingIntact' /\ CopiedSoFar' /\ SavedIntact' /\ WrittenSoFar'
    BY <2>1, <1>r DEF WaitingIntact, Slot, CopiedSoFar, SavedIntact, Whole, WrittenSoFar
  <2> QED
    BY <2>2, <2>3
<1>7. CASE CopyAlone
  <2>1. UNCHANGED <<imageVars, rgbFrameData, depthData, saveIndex, writeIndex, produced, retired,
                    saved, shot, wpc>> /\ ppc' = "abump"
    BY <1>7 DEF CopyAlone, writerVars
  <2> QED
    BY <2>1, ElsewhereStep
<1>8. CASE BumpAlone
  <2>1. UNCHANGED <<imageVars, rgbFrameData, depthData, saveIndex, writeIndex, produced, retired,
                    saved, shot, wpc>> /\ ppc' \in {"idle", "awrap"}
    BY <1>8 DEF BumpAlone, writerVars
  <2> QED
    BY <2>1, ElsewhereStep
<1>9. CASE WrapAlone
  <2>1. UNCHANGED <<imageVars, rgbFrameData, depthData, saveIndex, writeIndex, produced, retired,
                    saved, shot, wpc>> /\ ppc' = "idle"
    BY <1>9 DEF WrapAlone, writerVars
  <2> QED
    BY <2>1, ElsewhereStep
<1>10. CASE Writer
  <2> USE <1>10
  <2>0. UNCHANGED <<saveIndex, rgbFrameData, depthData, ppc, produced>>
    BY DEF Writer, producerVars
  <2>t. /\ produced \in Nat /\ retired \in Nat /\ writeIndex \in Slots
        /\ saved \in Seq(Shots) /\ shot \in Shots
        /\ irIsColour \in [Slots -> BOOLEAN]
    BY DEF TypeOK
  <2>1. CASE WriterExit \/ NoFrameToTake \/ TakeAlone \/ WriteAlone \/ WriteOutside
             \/ CheckSynced \/ FinishSession \/ SleepOnce \/ NotDrained
    <3>1. /\ UNCHANGED <<imageVars, writeIndex, retired, saved, shot>>
          /\ wpc \in {"loop", "alone", "awrite", "drain", "drainAlone"}
          /\ wpc' \in {"loop", "alone", "awrite", "drain", "drainAlone", "exited", "dead"}
      BY <2>1 DEF WriterExit, NoFrameToTake, TakeAlone, WriteAlone, WriteOutside, CheckSynced,
                  FinishSession, SleepOnce, NotDrained, writerVars
    <3>2. WrittenSoFar'
      BY <3>1 DEF WrittenSoFar, Holding, Encoding
    <3> QED
      BY <2>0, <3>1, <3>2, ElsewhereStep
  <2>2. CASE TakeFrame
    <3>1. /\ UNCHANGED <<imageVars, writeIndex, retired, saved>>
          /\ wpc = "loop" /\ retired # produced
          /\ \/ wpc' = "ir" /\ shot'.mode = 3 /\ shot'.cloud = NoFrame
             \/ wpc' = "mode" /\ shot'.cloud = NoFrame
      BY <2>2 DEF TakeFrame, Undisturbed, NoShot
    <3>2. WrittenSoFar'
      BY <3>1, <2>0, <2>t, <1>r DEF WrittenSoFar, CursorsCount, Holding, Encoding
    <3> QED
      BY <2>0, <3>1, <3>2, ElsewhereStep
  <2>3. CASE RereadMode
    <3>1. /\ UNCHANGED <<imageVars, writeIndex, retired, saved>>
          /\ wpc = "mode" /\ wpc' = "ir" /\ shot' = [shot EXCEPT !.mode = 4]
      BY <2>3 DEF RereadMode, Undisturbed
    <3>2. shot'.mode = 4 /\ shot'.cloud = shot.cloud
      BY <3>1, <2>t DEF Shots
    <3>3. WrittenSoFar'
      BY <3>1, <3>2, <2>0, <1>r DEF WrittenSoFar, Holding, Encoding
    <3> QED
      BY <2>0, <3>1, <3>3, ElsewhereStep
  <2>4. CASE WriteIr
    <3>1. UNCHANGED <<irFrameData, writeIndex, retired, saved>> /\ wpc = "ir"
      BY <2>4 DEF WriteIr
    <3>2. CursorsCount' /\ SavedIntact'
      BY <3>1, <2>0, <1>r DEF CursorsCount, SavedIntact, Whole, Slot
    <3>3. /\ retired < produced /\ shot.mode \in {3, 4} /\ shot.cloud = NoFrame
      BY <3>1, <1>r DEF WrittenSoFar, Holding, Encoding
    <3>4. irFrameData[writeIndex] = retired
      BY <3>3, <2>t, <1>r, SlotFacts, BUFFLENAssumption DEF WaitingIntact
    <3>5. CASE irIsColour[writeIndex]
      <4>1. /\ wpc' = "depth" /\ irIsColour' = [irIsColour EXCEPT ![writeIndex] = FALSE]
            /\ shot' = [shot EXCEPT !.ir = irFrameData[writeIndex], !.paths = @ \cup {savePath}]
        BY <3>5, <2>4 DEF WriteIr
      <4>2. shot'.ir = retired /\ shot'.mode = shot.mode /\ shot'.cloud = shot.cloud
        BY <4>1, <3>4, <2>t DEF Shots
      <4>3. WrittenSoFar'
        BY <4>1, <4>2, <3>1, <3>3, <2>0 DEF WrittenSoFar, Holding, Encoding
      <4>4. WaitingIntact'
        <5> SUFFICES ASSUME NEW k \in 0 .. BUFFLEN - 1, k < produced - retired
                     PROVE  /\ irFrameData[Slot(k)] = retired + k
                            /\ rgbFrameData[Slot(k)] = retired + k
                            /\ depthData[Slot(k)] = retired + k
                            /\ irIsColour'[Slot(k)] \/ k = 0
          BY <3>1, <4>1, <2>0 DEF WaitingIntact, Slot
        <5>1. k # 0 => Slot(k) # writeIndex
          BY <2>t, SlotFacts, BUFFLENAssumption
        <5>2. Slot(k) \in Slots
          BY <2>t, SlotFacts
        <5>3. k # 0 => irIsColour'[Slot(k)]
          BY <5>1, <5>2, <4>1, <2>t, <1>r DEF WaitingIntact
        <5> QED
          BY <5>3, <1>r DEF WaitingIntact
      <4>5. CopiedSoFar'
        <5>1. ppc \in {"rgb", "depth", "bump"} => saveIndex # writeIndex /\ saveIndex \in Slots
          BY <3>3, <2>t, <1>r, SlotFacts, FillingIsFree, BUFFLENAssumption
        <5> QED
          BY <5>1, <4>1, <3>1, <2>0, <2>t, <1>r DEF CopiedSoFar
      <4> QED
        BY <3>2, <4>3, <4>4, <4>5
    <3>6. CASE ~irIsColour[writeIndex]
      <4>1. wpc' = "dead" /\ UNCHANGED <<irIsColour, shot>>
        BY <3>6, <2>4 DEF WriteIr
      <4>2. WrittenSoFar'
        BY <4>1 DEF WrittenSoFar, Holding, Encoding
      <4>3. WaitingIntact' /\ CopiedSoFar'
        BY <4>1, <3>1, <2>0, ElsewhereStep DEF imageVars
      <4> QED
        BY <3>2, <4>2, <4>3
    <3> QED
      BY <3>5, <3>6
  <2>5. CASE WriteDepth \/ WriteCloud \/ WriteRgb
    <3>1. /\ UNCHANGED <<imageVars, writeIndex, retired, saved>>
          /\ wpc \in {"depth", "cloud", "rgb"} /\ wpc' \in {"cloud", "rgb", "next", "dead"}
      BY <2>5 DEF WriteDepth, WriteCloud, WriteRgb
    <3>2. CursorsCount' /\ SavedIntact' /\ CopiedSoFar'
      BY <3>1, <2>0, ElsewhereStep
    <3>3. WaitingIntact'
      BY <3>1, <2>0, <1>r DEF WaitingIntact, Slot, imageVars
    <3>4. /\ retired < produced /\ shot.mode \in {3, 4} /\ shot.ir = retired
      BY <3>1, <1>r DEF WrittenSoFar, Holding, Encoding
    <3>5. depthData[writeIndex] = retired /\ rgbFrameData[writeIndex] = retired
      BY <3>4, <2>t, <1>r, SlotFacts, BUFFLENAssumption DEF WaitingIntact
    <3>6. CASE WriteDepth
      <4>1. /\ wpc = "depth" /\ wpc' = IF shot.mode = 4 THEN "cloud" ELSE "rgb"
            /\ shot' = [shot EXCEPT !.depth = depthData[writeIndex], !.paths = @ \cup {savePath}]
        BY <3>6 DEF WriteDepth
      <4>2. /\ shot'.depth = retired /\ shot'.ir = shot.ir /\ shot'.mode = shot.mode
            /\ shot'.cloud = shot.cloud
        BY <4>1, <3>5, <2>t DEF Shots
      <4>3. shot.cloud = NoFrame
        BY <4>1, <1>r DEF WrittenSoFar
      <4>4. WrittenSoFar'
        BY <4>1, <4>2, <4>3, <3>1, <3>4, <2>0 DEF WrittenSoFar, Holding, Encoding
      <4> QED
        BY <3>2, <3>3, <4>4
    <3>7. CASE WriteCloud
      <4>1. /\ wpc = "cloud"
            /\ \/ /\ wpc' = "rgb"
                  /\ shot' = [shot EXCEPT !.cloud = depthData[writeIndex], !.paths = @ \cup {savePath}]
               \/ wpc' = "dead"
        BY <3>7 DEF WriteCloud
      <4>2. wpc' # "dead" => /\ wpc' = "rgb" /\ shot'.cloud = retired /\ shot'.depth = shot.depth
                             /\ shot'.ir = shot.ir /\ shot'.mode = shot.mode
        BY <4>1, <3>5, <2>t DEF Shots
      <4>3. shot.depth = retired /\ shot.mode = 4
        BY <4>1, <1>r DEF WrittenSoFar
      <4>4. WrittenSoFar'
        BY <4>2, <4>3, <3>1, <3>4, <2>0 DEF WrittenSoFar, Holding, Encoding
      <4> QED
        BY <3>2, <3>3, <4>4
    <3>8. CASE WriteRgb
      <4>1. /\ wpc = "rgb" /\ wpc' = "next"
            /\ shot' = [shot EXCEPT !.rgb = rgbFrameData[writeIndex], !.paths = @ \cup {savePath}]
        BY <3>8 DEF WriteRgb
      <4>2. /\ shot'.rgb = retired /\ shot'.ir = shot.ir /\ shot'.mode = shot.mode
            /\ shot'.cloud = shot.cloud /\ shot'.depth = shot.depth
        BY <4>1, <3>5, <2>t DEF Shots
      <4>3. shot.depth = retired /\ shot.cloud = IF shot.mode = 4 THEN retired ELSE NoFrame
        BY <4>1, <1>r DEF WrittenSoFar
      <4>4. WrittenSoFar'
        BY <4>1, <4>2, <4>3, <3>1, <3>4, <2>0 DEF WrittenSoFar, Holding, Encoding
      <4> QED
        BY <3>2, <3>3, <4>4
    <3> QED
      BY <2>5, <3>6, <3>7, <3>8
  <2>6. CASE Advance
    <3>1. /\ wpc = "next" /\ wpc' = "alone" /\ retired' = retired + 1
          /\ writeIndex' = SlotAfter(writeIndex)
          /\ saved' = IF shot.mode = 0 THEN saved ELSE Append(saved, shot)
          /\ UNCHANGED <<irFrameData, irIsColour>>
      BY <2>6 DEF Advance, imageVars
    <3>2. /\ retired < produced /\ shot.mode \in {3, 4} /\ Whole(shot, retired)
      BY <3>1, <1>r DEF WrittenSoFar, Holding, Encoding, Whole
    <3>3. SavedIntact'
      <4>1. saved' = Append(saved, shot)
        BY <3>1, <3>2
      <4>2. Len(saved') = Len(saved) + 1 /\ saved'[Len(saved) + 1] = shot
        BY <4>1, <2>t
      <4>3. \A i \in 1 .. Len(saved) : saved'[i] = saved[i]
        BY <4>1, <2>t
      <4>4. Len(saved) \in Nat
        BY <2>t
      <4> SUFFICES ASSUME NEW i \in 1 .. Len(saved) + 1
                   PROVE  Whole(saved'[i], i - 1)
        BY <4>2, <4>4, <3>1, <1>r DEF SavedIntact, Whole
      <4>5. CASE i = Len(saved) + 1
        BY <4>5, <4>2, <4>4, <3>2, <1>r DEF SavedIntact
      <4>6. CASE i # Len(saved) + 1
        BY <4>6, <4>3, <4>4, <1>r DEF SavedIntact
      <4> QED
        BY <4>5, <4>6
    <3>4. \A k \in 0 .. BUFFLEN - 2 : Slot(k)' = Slot(k + 1)
      BY <3>1, <2>t, SlotShift
    <3>5. CursorsCount'
      <4>1. produced - retired - 1 \in 0 .. BUFFLEN - 2
        BY <3>2, <2>t, <1>r, BUFFLENAssumption DEF CursorsCount
      <4>2. produced' - retired' = produced - retired - 1
        BY <3>1, <2>0, <2>t
      <4>3. Slot(produced - retired)' = Slot(produced - retired)
        BY <4>1, <4>2, <3>1, <2>t, BUFFLENAssumption DEF Slot, SlotAfter, Slots
      <4> QED
        BY <4>1, <4>2, <4>3, <3>1, <2>0, <2>t, <1>r, BUFFLENAssumption DEF CursorsCount
    <3>6. WaitingIntact'
      BY <3>1, <3>4, <2>0, <2>t, <1>r, BUFFLENAssumption DEF WaitingIntact, CursorsCount
    <3>7. CopiedSoFar' /\ WrittenSoFar'
      BY <3>1, <2>0, <1>r DEF CopiedSoFar, WrittenSoFar, Holding, Encoding
    <3> QED
      BY <3>3, <3>5, <3>6, <3>7
  <2> QED
    BY <2>1, <2>2, <2>3, <2>4, <2>5, <2>6 DEF Writer
<1>11. CASE SetSavePathAndMode \/ ReleaseDateSaver \/ UNCHANGED vars
  <2>1. UNCHANGED <<imageVars, rgbFrameData, depthData, saveIndex, writeIndex, produced, retired,
                    saved, shot, wpc, ppc>>
    BY <1>11 DEF SetSavePathAndMode, ReleaseDateSaver, vars, writerVars, producerVars
  <2> QED
    BY <2>1, ElsewhereStep
<1> QED
  BY <1>1, <1>2, <1>3, <1>4, <1>5, <1>6, <1>7, <1>8, <1>9, <1>10, <1>11 DEF Next, Producer

(* RingInv holds throughout. *)
LEMMA RingCorrect == Spec => [](TypeOK /\ RingInv)
  BY TypeInit, TypeStep, RingInit, RingStep, PTL DEF Spec

-------------------------------------------------------------------------------
(* What saveDataToDevice has written is what storeData was given, whole    *)
(* and in order (datasaver.cpp:36-50 and 93-190).                          *)
THEOREM InOrderIntactCorrect == Spec => []InOrderIntact
<1>1. RingInv => InOrderIntact
  BY DEF RingInv, InOrderIntact
<1> QED
  BY <1>1, RingCorrect, PTL

(* The unsynchronised comparison of the cursors at datasaver.cpp:93 is an  *)
(* exact test for work.                                                    *)
THEOREM EmptinessTestExactCorrect == Spec => []EmptinessTestExact
<1>1. TypeOK /\ RingInv => EmptinessTestExact
  <2> SUFFICES ASSUME TypeOK, RingInv, Undisturbed, ppc # "wrap"
               PROVE  writeIndex # saveIndex <=> retired < produced
    BY DEF EmptinessTestExact
  <2>1. CursorsCount /\ saveIndex = Slot(produced - retired)
    BY FillingIsFree DEF RingInv
  <2>2. produced - retired \in 0 .. BUFFLEN - 1 /\ writeIndex = Slot(0)
    BY <2>1, SlotFacts, BUFFLENAssumption DEF TypeOK, CursorsCount
  <2>3. produced - retired = 0 <=> saveIndex = writeIndex
    <3>1. 0 \in 0 .. BUFFLEN - 1
      BY BUFFLENAssumption
    <3> QED
      BY <2>1, <2>2, <3>1, SlotFacts DEF TypeOK
  <2> QED
    BY <2>1, <2>2, <2>3 DEF TypeOK, CursorsCount
<1> QED
  BY <1>1, RingCorrect, PTL

(* storeData never copies into the slot saveDataToDevice is encoding.      *)
THEOREM NoConcurrentSlotAccessCorrect == Spec => []NoConcurrentSlotAccess
<1>1. TypeOK /\ RingInv => NoConcurrentSlotAccess
  <2> SUFFICES ASSUME TypeOK, RingInv, Undisturbed, ppc \in Copying, wpc \in Encoding
               PROVE  saveIndex # writeIndex
    BY DEF NoConcurrentSlotAccess
  <2>1. CursorsCount /\ retired < produced
    BY DEF RingInv, WrittenSoFar, Holding
  <2>2. \A k \in 0 .. BUFFLEN - 1 : k < produced - retired => Slot(k) # saveIndex
    BY <2>1, FillingIsFree DEF Copying
  <2>3. Slot(0) = writeIndex
    BY SlotFacts DEF TypeOK
  <2> QED
    BY <2>1, <2>2, <2>3, BUFFLENAssumption DEF TypeOK
<1> QED
  BY <1>1, RingCorrect, PTL

-------------------------------------------------------------------------------
(* The end of a session. *)

(* savePathIndex and stopCheck are 0 while writeFinsih is set, wherever    *)
(* the writer is when it is not holding a frame; a held frame cleared it.  *)
ReadyInv == ReadyMeansFresh /\ (wpc \in Holding => ~writeFinsih)

LEMMA ReadyStep == TypeOK /\ ReadyInv /\ [Next]_vars => ReadyInv'
<1> SUFFICES ASSUME TypeOK, ReadyInv, [Next]_vars PROVE ReadyInv'
  OBVIOUS
<1> USE DEF ReadyInv, ReadyMeansFresh, Holding, Encoding, drainVars
<1>1. CASE Producer \/ SetSavePathAndMode \/ ReleaseDateSaver \/ UNCHANGED vars
  BY <1>1 DEF Producer, SetSavePathAndMode, ReleaseDateSaver, vars, CallStoreData, CopyIr, CopyRgb,
              CopyDepth, BumpSaveIndex, WrapSaveIndex, CopyAlone, BumpAlone, WrapAlone
<1>2. CASE Writer
  <2>1. CASE TakeFrame \/ TakeAlone \/ FinishSession
    BY <2>1 DEF TakeFrame, TakeAlone, FinishSession
  <2>2. CASE WriterExit \/ NoFrameToTake \/ WriteAlone \/ WriteOutside \/ CheckSynced \/ NotDrained
    BY <2>2 DEF WriterExit, NoFrameToTake, WriteAlone, WriteOutside, CheckSynced, NotDrained
  <2>3. CASE RereadMode \/ WriteIr \/ WriteDepth \/ WriteCloud \/ WriteRgb
    <3>1. wpc \in Holding /\ UNCHANGED <<writeFinsih, savePathIndex, stopCheck>>
      BY <2>3 DEF RereadMode, WriteIr, WriteDepth, WriteCloud, WriteRgb
    <3> QED
      BY <3>1
  <2>4. CASE Advance
    BY <2>4 DEF Advance
  <2>5. CASE SleepOnce
    BY <2>5 DEF SleepOnce, Drained
  <2> QED
    BY <1>2, <2>1, <2>2, <2>3, <2>4, <2>5 DEF Writer
<1> QED
  BY <1>1, <1>2 DEF Next

(* checkReady's answer (datasaver.cpp:72-75) means a fresh numbering.      *)
THEOREM ReadyMeansFreshCorrect == Spec => []ReadyMeansFresh
<1>1. Init => ReadyInv
  BY DEF Init, ReadyInv, ReadyMeansFresh, Holding, Encoding
<1>2. ReadyInv => ReadyMeansFresh
  BY DEF ReadyInv
<1> QED
  BY <1>1, <1>2, ReadyStep, TypeInit, TypeStep, PTL DEF Spec

-------------------------------------------------------------------------------
(* The numbering of the files. *)

(* Every idle pass counted was a sleep without a frame in between.         *)
QuietInv == stopCheck <= quiet

(* The idle passes counted are idle passes there were.                     *)
LEMMA QuietStep == TypeOK /\ QuietInv /\ [Next]_vars => QuietInv'
<1> SUFFICES ASSUME TypeOK, QuietInv, [Next]_vars PROVE QuietInv'
  OBVIOUS
<1> USE DEF QuietInv, drainVars
<1>1. CASE UNCHANGED <<stopCheck, quiet>>
  BY <1>1
<1>2. CASE TakeFrame \/ FinishSession
  BY <1>2 DEF TakeFrame, FinishSession, TypeOK
<1>3. CASE SleepOnce
  BY <1>3, StopCheckLimitAssumption DEF SleepOnce, TypeOK
<1> QED
  BY <1>1, <1>2, <1>3
  DEF Next, vars, Producer, Writer, CallStoreData, CopyIr, CopyRgb, CopyDepth, BumpSaveIndex,
      WrapSaveIndex, CopyAlone, BumpAlone, WrapAlone, WriterExit, RereadMode, WriteIr, WriteDepth,
      WriteCloud, WriteRgb, Advance, NoFrameToTake, TakeAlone, WriteAlone, WriteOutside, CheckSynced,
      NotDrained, SetSavePathAndMode, ReleaseDateSaver

(* Numbers start again in FinishSession only, after the idle passes.       *)
LEMMA RestartStep ==
  TypeOK /\ QuietInv /\ [Next]_vars
    => [savePathIndex' < savePathIndex => quiet = StopCheckLimit /\ wpc \notin Holding]_vars
<1> SUFFICES ASSUME TypeOK, QuietInv, Next, savePathIndex' < savePathIndex
             PROVE  quiet = StopCheckLimit /\ wpc \notin Holding
  OBVIOUS
<1>1. ~(savePathIndex' = savePathIndex) /\ ~(savePathIndex' = savePathIndex + 1)
  BY DEF TypeOK
<1>2. FinishSession
  BY <1>1 DEF Next, Producer, Writer, CallStoreData, CopyIr, CopyRgb, CopyDepth, BumpSaveIndex,
      WrapSaveIndex, CopyAlone, BumpAlone, WrapAlone, WriterExit, TakeFrame, RereadMode, WriteIr,
      WriteDepth, WriteCloud, WriteRgb, Advance, NoFrameToTake, TakeAlone, WriteAlone, WriteOutside,
      CheckSynced, SleepOnce, NotDrained, SetSavePathAndMode, ReleaseDateSaver, drainVars
<1> QED
  BY <1>2, StopCheckLimitAssumption DEF FinishSession, QuietInv, TypeOK, Holding, Encoding

(* The numbering starts again only after StopCheckLimit sleeps without a   *)
(* synced frame (datasaver.cpp:94 and 199-211).                            *)
THEOREM RestartNeedsQuietCorrect == Spec => RestartNeedsQuiet
<1>1. Init => QuietInv
  BY DEF Init, QuietInv
<1> QED
  BY <1>1, TypeInit, TypeStep, QuietStep, RestartStep, PTL DEF Spec, RestartNeedsQuiet

-------------------------------------------------------------------------------
(* DataSaver implements FrameStore. *)

(* n consecutive frames from r on *)
Frames(r, n) == [k \in 1 .. n |-> r + k - 1]

(* What Append, Head and Tail do to a run of numbers.                      *)
LEMMA FramesFacts ==
  ASSUME NEW r \in Nat, NEW n \in Nat
  PROVE  /\ Frames(r, n) \in Seq(Nat) /\ Len(Frames(r, n)) = n
         /\ Frames(r, n + 1) = Append(Frames(r, n), r + n)
         /\ Head(Frames(r, n + 1)) = r
         /\ Tail(Frames(r, n + 1)) = Frames(r + 1, n)
         /\ Frames(r, 0) = <<>>
<1>1. Frames(r, n) \in Seq(Nat) /\ Len(Frames(r, n)) = n
  BY DEF Frames
<1>2. Frames(r, n + 1) = Append(Frames(r, n), r + n)
  BY DEF Frames
<1>3. Frames(r, n + 1) \in Seq(Nat) /\ Len(Frames(r, n + 1)) = n + 1
  BY DEF Frames
<1>4. Head(Frames(r, n + 1)) = r
  BY <1>3 DEF Frames
<1>5. Tail(Frames(r, n + 1)) = Frames(r + 1, n)
  <2>1. Tail(Frames(r, n + 1)) = [k \in 1 .. n |-> Frames(r, n + 1)[k + 1]]
    BY <1>3
  <2>2. \A k \in 1 .. n : Frames(r, n + 1)[k + 1] = Frames(r + 1, n)[k]
    BY DEF Frames
  <2>3. Frames(r + 1, n) = [k \in 1 .. n |-> Frames(r + 1, n)[k]]
    BY DEF Frames
  <2> QED
    BY <2>1, <2>2, <2>3
<1>6. Frames(r, 0) = <<>>
  BY DEF Frames
<1> QED
  BY <1>1, <1>2, <1>4, <1>5, <1>6

(* The store's state is determined by the two counters. *)
StoreIs ==
  /\ retired \in Nat /\ produced - retired \in Nat /\ produced = retired + (produced - retired)
  /\ produced - retired < BUFFLEN
  /\ [k \in 1 .. produced - retired |-> Content(Slot(k - 1))]
       = Frames(retired, produced - retired)
  /\ [i \in 1 .. Len(saved) |-> FrameOf(saved[i])] = Frames(0, retired)

(* In an undisturbed state the mapping shows runs of numbers.              *)
LEMMA StoreState == TypeOK /\ RingInv /\ Undisturbed => StoreIs
<1> SUFFICES ASSUME TypeOK, RingInv, Undisturbed PROVE StoreIs
  OBVIOUS
<1>1. retired \in Nat /\ produced - retired \in Nat /\ produced = retired + (produced - retired)
      /\ produced - retired < BUFFLEN
  BY DEF TypeOK, RingInv, CursorsCount
<1>2. ASSUME NEW k \in 1 .. produced - retired
      PROVE  Content(Slot(k - 1)) = retired + k - 1
  <2>1. k - 1 \in 0 .. BUFFLEN - 1 /\ k - 1 < produced - retired
    BY <1>1, BUFFLENAssumption
  <2>2. depthData[Slot(k - 1)] = retired + (k - 1) /\ irFrameData[Slot(k - 1)] = retired + (k - 1)
        /\ rgbFrameData[Slot(k - 1)] = retired + (k - 1)
    BY <2>1 DEF RingInv, WaitingIntact
  <2> QED
    BY <2>2, <1>1 DEF Content
<1>3. ASSUME NEW i \in 1 .. Len(saved)
      PROVE  FrameOf(saved[i]) = i - 1
  BY DEF RingInv, Whole, FrameOf
<1>4. Len(saved) = retired
  BY DEF RingInv
<1> QED
  BY <1>1, <1>2, <1>3, <1>4 DEF Frames, StoreIs

(* Without a change of the settings the second test of saveMode is never   *)
(* reached: the mode is 3 from the start.                                  *)
ModeInv == (changes > 0 => SettingsChange) /\ (changes = 0 => saveMode = 3 /\ wpc # "mode")

(* As long as nobody changes the mode it stays as it was set first.        *)
LEMMA ModeStep == TypeOK /\ ModeInv /\ [Next]_vars => ModeInv'
<1> SUFFICES ASSUME TypeOK, ModeInv, [Next]_vars PROVE ModeInv'
  OBVIOUS
<1> USE DEF ModeInv, guiVars
<1>1. CASE SetSavePathAndMode
  BY <1>1, LoadsAssumption DEF SetSavePathAndMode, Within, SettingsChange, TypeOK
<1>2. CASE Producer \/ ReleaseDateSaver \/ UNCHANGED vars
  BY <1>2 DEF Producer, ReleaseDateSaver, vars, CallStoreData, CopyIr, CopyRgb, CopyDepth,
              BumpSaveIndex, WrapSaveIndex, CopyAlone, BumpAlone, WrapAlone
<1>3. CASE Writer
  <2>1. UNCHANGED <<changes, saveMode>>
    BY <1>3 DEF Writer
  <2>2. wpc' = "mode" => wpc = "mode" \/ saveMode # 3
    BY <1>3 DEF Writer, WriterExit, TakeFrame, RereadMode, WriteIr, WriteDepth, WriteCloud, WriteRgb,
                Advance, NoFrameToTake, TakeAlone, WriteAlone, WriteOutside, CheckSynced,
                FinishSession, SleepOnce, NotDrained
  <2> QED
    BY <2>1, <2>2
<1> QED
  BY <1>1, <1>2, <1>3 DEF Next

(* How a step may move the counters, and how it may end the promise.       *)
LEMMA CounterStep ==
  ASSUME TypeOK, ModeInv, Undisturbed, [Next]_vars
  PROVE  /\ Undisturbed' =>
              \/ UNCHANGED <<produced, retired>>
              \/ produced' = produced + 1 /\ retired' = retired
              \/ retired' = retired + 1 /\ produced' = produced
         /\ ~Undisturbed' =>
              \/ produced + 1 - retired >= BUFFLEN
              \/ retired = produced
              \/ SettingsChange /\ wpc \in Holding
<1> USE DEF Undisturbed, producerVars, writerVars
<1>1. CASE Producer \/ SetSavePathAndMode \/ ReleaseDateSaver \/ UNCHANGED vars
  BY <1>1 DEF Producer, SetSavePathAndMode, ReleaseDateSaver, vars, CallStoreData, CopyIr, CopyRgb,
              CopyDepth, BumpSaveIndex, WrapSaveIndex, CopyAlone, BumpAlone, WrapAlone
<1>2. CASE Writer
  <2>1. produced' = produced
    BY <1>2 DEF Writer
  <2>2. CASE TakeFrame
    BY <2>1, <2>2 DEF TakeFrame
  <2>3. CASE RereadMode
    BY <2>1, <2>3 DEF RereadMode, ModeInv, TypeOK, Holding
  <2>4. CASE Advance
    BY <2>1, <2>4 DEF Advance
  <2> QED
    BY <1>2, <2>1, <2>2, <2>3, <2>4
    DEF Writer, WriterExit, WriteIr, WriteDepth, WriteCloud, WriteRgb, NoFrameToTake, TakeAlone,
        WriteAlone, WriteOutside, CheckSynced, FinishSession, SleepOnce, NotDrained
<1> QED
  BY <1>1, <1>2 DEF Next

(* The abstract state, by name. *)
AbsPending == IF Undisturbed THEN [k \in 1 .. produced - retired |-> Content(Slot(k - 1))] ELSE <<>>
AbsSaved   == IF Undisturbed THEN [i \in 1 .. Len(saved) |-> FrameOf(saved[i])] ELSE <<>>
AbsNext    == IF Undisturbed THEN produced ELSE 0

LEMMA RefinesInit == Init => Store!Init
<1> SUFFICES ASSUME Init PROVE Store!Init
  OBVIOUS
<1>1. TypeOK /\ RingInv /\ Undisturbed
  BY TypeInit, RingInit DEF Init, Undisturbed
<1>2. retired = 0 /\ produced = 0 /\ produced - retired = 0
  BY DEF Init
<1>3. /\ [k \in 1 .. produced - retired |-> Content(Slot(k - 1))] = <<>>
      /\ [i \in 1 .. Len(saved) |-> FrameOf(saved[i])] = <<>>
  BY <1>1, <1>2, StoreState, FramesFacts DEF StoreIs
<1> QED
  BY <1>1, <1>2, <1>3 DEF Store!Init

(* Every step of the two threads is one of the frame store, or none.       *)
LEMMA RefinesStep ==
  ASSUME TypeOK, RingInv, ModeInv, TypeOK', RingInv', [Next]_vars
  PROVE  [Store!Next]_(Store!vars)
<1>1. CASE ~Undisturbed
  <2>1. ~Undisturbed'
    BY <1>1 DEF Undisturbed, Next, vars, Producer, Writer, CallStoreData, CopyIr, CopyRgb, CopyDepth,
         BumpSaveIndex, WrapSaveIndex, CopyAlone, BumpAlone, WrapAlone, WriterExit, TakeFrame,
         RereadMode, WriteIr, WriteDepth, WriteCloud, WriteRgb, Advance, NoFrameToTake, TakeAlone,
         WriteAlone, WriteOutside, CheckSynced, FinishSession, SleepOnce, NotDrained,
         SetSavePathAndMode, ReleaseDateSaver
  <2> QED
    BY <1>1, <2>1 DEF Store!vars
<1>2. CASE Undisturbed
  <2> DEFINE n == produced - retired
  <2>1. /\ retired \in Nat /\ n \in Nat /\ produced = retired + n /\ n < BUFFLEN
        /\ AbsPending = Frames(retired, n) /\ AbsSaved = Frames(0, retired) /\ AbsNext = produced
    BY <1>2, StoreState DEF AbsPending, AbsSaved, AbsNext, StoreIs
  <2>2. Len(AbsPending) = n
    BY <2>1, FramesFacts
  <2>3. CASE ~Undisturbed'
    <3>1. AbsPending' = <<>> /\ AbsSaved' = <<>> /\ AbsNext' = 0
      BY <2>3 DEF AbsPending, AbsSaved, AbsNext
    <3>2. CASE produced + 1 - retired >= BUFFLEN
      <4>1. Len(AbsPending) = BUFFLEN - 1
        BY <2>1, <2>2, <3>2, BUFFLENAssumption
      <4>2. Store!Overrun
        BY <4>1, <3>1, <1>2, <2>3
        DEF Store!Overrun, Store!Breakdown, AbsPending, AbsSaved, AbsNext
      <4> QED
        BY <4>2 DEF Store!Next
    <3>3. CASE retired = produced
      <4>1. AbsPending = <<>>
        BY <2>1, <3>3, FramesFacts
      <4>2. Store!Misread
        BY <4>1, <3>1, <1>2, <2>3
        DEF Store!Misread, Store!Breakdown, AbsPending, AbsSaved, AbsNext
      <4> QED
        BY <4>2 DEF Store!Next
    <3>4. CASE SettingsChange /\ wpc \in Holding
      <4>1. n # 0
        BY <3>4, <2>1, <1>2 DEF RingInv, WrittenSoFar
      <4>2. AbsPending # <<>>
        BY <4>1, <2>2
      <4>3. Store!Dropped
        BY <4>2, <3>4, <3>1, <1>2, <2>3
        DEF Store!Dropped, Store!Breakdown, AbsPending, AbsSaved, AbsNext
      <4> QED
        BY <4>3 DEF Store!Next
    <3> QED
      BY <3>2, <3>3, <3>4, <1>2, <2>3, CounterStep
  <2>4. CASE Undisturbed'
    <3>1. /\ retired' \in Nat /\ produced' - retired' \in Nat /\ produced' - retired' < BUFFLEN
          /\ AbsPending' = Frames(retired', produced' - retired')
          /\ AbsSaved' = Frames(0, retired') /\ AbsNext' = produced'
      <4>1. StoreIs'
        <5>1. (TypeOK /\ RingInv /\ Undisturbed => StoreIs)'
          BY StoreState, PTL
        <5> QED
          BY <5>1, <2>4
      <4> QED
        BY <2>4, <4>1 DEF AbsPending, AbsSaved, AbsNext, StoreIs
    <3>2. CASE UNCHANGED <<produced, retired>>
      <4>1. AbsPending' = AbsPending /\ AbsSaved' = AbsSaved /\ AbsNext' = AbsNext
        BY <3>1, <3>2, <2>1
      <4> QED
        BY <4>1, <1>2, <2>4 DEF Store!vars, AbsPending, AbsSaved, AbsNext
    <3>3. CASE produced' = produced + 1 /\ retired' = retired
      <4>1. produced' - retired' = n + 1
        BY <3>3, <2>1
      <4>2. AbsPending' = Append(AbsPending, produced)
        BY <4>1, <3>1, <3>3, <2>1, FramesFacts
      <4>3. AbsSaved' = AbsSaved /\ AbsNext' = AbsNext + 1 /\ Len(AbsPending) < BUFFLEN - 1
        BY <4>1, <3>1, <3>3, <2>1, <2>2, BUFFLENAssumption
      <4>4. Store!Put
        BY <4>2, <4>3, <2>1, <1>2, <2>4 DEF Store!Put, AbsPending, AbsSaved, AbsNext
      <4> QED
        BY <4>4 DEF Store!Next
    <3>4. CASE retired' = retired + 1 /\ produced' = produced
      <4> DEFINE m == n - 1
      <4>1. produced' - retired' = m /\ m \in Nat /\ n = m + 1
        BY <3>1, <3>4, <2>1
      <4> HIDE DEF m
      <4>2. /\ AbsPending = Frames(retired, m + 1) /\ AbsPending' = Frames(retired + 1, m)
            /\ AbsSaved' = Frames(0, retired + 1)
        BY <4>1, <3>1, <3>4, <2>1
      <4>3. /\ AbsPending' = Tail(AbsPending) /\ Head(AbsPending) = retired
            /\ Len(AbsPending) = m + 1
        BY <4>1, <4>2, <2>1, <2>2, FramesFacts
      <4>4. AbsSaved' = Append(AbsSaved, retired)
        <5>1. 0 + retired = retired
          BY <2>1
        <5>2. 0 \in Nat /\ retired \in Nat
          BY <2>1
        <5>3. Frames(0, retired + 1) = Append(Frames(0, retired), 0 + retired)
          BY <5>2, FramesFacts
        <5> QED
          BY <5>1, <5>3, <4>2, <2>1
      <4>5. AbsNext' = AbsNext /\ AbsPending # <<>>
        BY <4>1, <4>3, <3>1, <3>4, <2>1
      <4>6. Store!Save
        BY <4>3, <4>4, <4>5, <1>2, <2>4 DEF Store!Save, AbsPending, AbsSaved, AbsNext
      <4> QED
        BY <4>6 DEF Store!Next
    <3> QED
      BY <3>2, <3>3, <3>4, <1>2, <2>4, CounterStep
  <2> QED
    BY <2>3, <2>4
<1> QED
  BY <1>1, <1>2

(* The rings and their unsynchronised cursors implement a FIFO that ends   *)
(* only by an overrun, a misread of the cursor being wrapped, or a change  *)
(* of the mode in the middle of a pass.                                    *)
THEOREM RefinementCorrect == Spec => ImplementsFrameStore
<1>1. Init => ModeInv
  BY DEF Init, ModeInv
<1> QED
  BY <1>1, TypeInit, TypeStep, RingInit, RingStep, ModeStep, RefinesInit, RefinesStep, PTL
  DEF Spec, ImplementsFrameStore, Store!Spec

-------------------------------------------------------------------------------
(* The RGB-only ring. *)

LEMMA AloneStep == TypeOK /\ AloneInv /\ [Next]_vars => AloneInv'
<1> SUFFICES ASSUME TypeOK, AloneInv, [Next]_vars, aloneMishaps' = {} PROVE AloneInv'
  BY DEF AloneInv
<1>0. aloneMishaps = {}
  BY DEF Next, vars, Producer, Writer, CallStoreData, CopyIr, CopyRgb, CopyDepth,
         BumpSaveIndex, WrapSaveIndex, CopyAlone, BumpAlone, WrapAlone, WriterExit, TakeFrame,
         RereadMode, WriteIr, WriteDepth, WriteCloud, WriteRgb, Advance, NoFrameToTake, TakeAlone,
         WriteAlone, WriteOutside, CheckSynced, FinishSession, SleepOnce, NotDrained,
         SetSavePathAndMode, ReleaseDateSaver
<1> USE <1>0, BUFFLENAssumption
<1>t. /\ aloneSaved \in Seq(Nat \cup {NoFrame}) /\ Len(aloneSaved) \in Nat /\ aloneProduced \in Nat
      /\ rgbAloneFrameData \in [Slots -> Nat \cup {NoFrame}]
      /\ aloneSaveIndex \in 0 .. BUFFLEN /\ (aloneSaveIndex = BUFFLEN <=> ppc = "awrap")
  BY DEF TypeOK
<1>1. ASSUME UNCHANGED <<aloneSaved, aloneProduced, rgbAloneFrameData, aloneSaveIndex,
                         aloneWriteIndex>>,
             UNCHANGED ppc \/ ppc' \notin {"abump", "awrap"},
             UNCHANGED wpc \/ wpc' # "awrite"
      PROVE  AloneInv'
  BY <1>1 DEF AloneInv, AloneSlot
<1>2. CASE CallStoreData \/ CopyIr \/ CopyRgb \/ CopyDepth \/ BumpSaveIndex \/ WrapSaveIndex
           \/ SetSavePathAndMode \/ ReleaseDateSaver \/ UNCHANGED vars
  BY <1>1, <1>2 DEF CallStoreData, CopyIr, CopyRgb, CopyDepth, BumpSaveIndex, WrapSaveIndex,
                    SetSavePathAndMode, ReleaseDateSaver, vars, aloneStore, aloneWrite, producerVars
<1>3. CASE CopyAlone
  <2>1. /\ ppc = "idle" /\ ppc' = "abump"
        /\ rgbAloneFrameData' = [rgbAloneFrameData EXCEPT ![aloneSaveIndex] = aloneProduced]
        /\ UNCHANGED <<aloneSaved, aloneProduced, aloneSaveIndex, aloneWriteIndex, wpc>>
    BY <1>3 DEF CopyAlone, aloneWrite
  <2>2. aloneSaveIndex \in Slots /\ aloneSaveIndex = AloneSlot(aloneProduced)
    BY <2>1, <1>t DEF AloneInv, Slots
  <2>3. \A n \in Len(aloneSaved) .. aloneProduced - 1 : AloneSlot(n) # aloneSaveIndex
    BY <2>2, <1>t DEF AloneInv, AloneSlot, Slots
  <2> QED
    BY <2>1, <2>2, <2>3, <1>t DEF AloneInv, AloneSlot
<1>4. CASE BumpAlone
  <2>1. /\ ppc = "abump" /\ aloneProduced' = aloneProduced + 1
        /\ \/ aloneSaveIndex' = SlotAfter(aloneSaveIndex) /\ ppc' = "idle"
           \/ aloneSaveIndex + 1 = BUFFLEN /\ aloneSaveIndex' = BUFFLEN /\ ppc' = "awrap"
        /\ UNCHANGED <<aloneSaved, rgbAloneFrameData, aloneWriteIndex, wpc>>
    BY <1>4 DEF BumpAlone, aloneWrite
  <2>7. aloneProduced + 1 - Len(aloneSaved) < BUFFLEN
    <3>1. ~(aloneProduced + 1 - Len(aloneSaved) >= BUFFLEN)
      BY <1>4 DEF BumpAlone
    <3> QED
      BY <3>1, <1>t
  <2>2. aloneSaveIndex \in Slots /\ aloneSaveIndex = AloneSlot(aloneProduced)
    BY <2>1, <1>t DEF AloneInv, Slots
  <2>3. AloneSlot(aloneProduced + 1) = SlotAfter(aloneSaveIndex)
    BY <2>1, <2>2, <2>7, <1>t DEF AloneInv, AloneSlot, SlotAfter, Slots
  <2>4. AloneSlot(aloneProduced') = IF aloneSaveIndex' = BUFFLEN THEN 0 ELSE aloneSaveIndex'
    BY <2>1, <2>2, <2>3 DEF SlotAfter, Slots
  <2>5. ppc' = "awrap" => aloneProduced' = BUFFLEN
    BY <2>1, <2>2, <2>7, <1>t DEF AloneInv, AloneSlot, Slots
  <2>6. \A n \in Len(aloneSaved) .. aloneProduced' - 1 : rgbAloneFrameData[AloneSlot(n)] = n
    BY <2>1, <2>2, <1>t DEF AloneInv
  <2>8. /\ Len(aloneSaved) <= aloneProduced' /\ aloneProduced' - Len(aloneSaved) < BUFFLEN
        /\ wpc = "awrite" /\ Len(aloneSaved) < BUFFLEN => Len(aloneSaved) < aloneProduced'
    BY <2>1, <2>7, <1>t DEF AloneInv
  <2>9. ppc' # "abump"
    BY <2>1
  <2>10. aloneProduced' \in Nat /\ AloneSlot(aloneProduced)' = AloneSlot(aloneProduced')
    BY <2>1, <1>t DEF AloneSlot
  <2>11. /\ Len(aloneSaved) <= BUFFLEN
         /\ aloneWriteIndex = IF Len(aloneSaved) < BUFFLEN THEN Len(aloneSaved) ELSE BUFFLEN + 1
         /\ \A i \in 1 .. Len(aloneSaved) : aloneSaved[i] = i - 1
    BY DEF AloneInv
  <2>12. \A n : AloneSlot(n)' = AloneSlot(n)
    BY DEF AloneSlot
  <2> QED
    BY <2>1, <2>4, <2>5, <2>6, <2>8, <2>9, <2>10, <2>11, <2>12 DEF AloneInv
<1>5. CASE WrapAlone
  <2>1. /\ ppc = "awrap" /\ ppc' = "idle" /\ aloneSaveIndex' = 0
        /\ UNCHANGED <<aloneSaved, aloneProduced, rgbAloneFrameData, aloneWriteIndex, wpc>>
    BY <1>5 DEF WrapAlone, aloneWrite
  <2> QED
    BY <2>1, <1>t DEF AloneInv, AloneSlot
<1>6. CASE Writer
  <2>0. UNCHANGED <<ppc, aloneProduced, rgbAloneFrameData, aloneSaveIndex>>
    BY <1>6 DEF Writer, producerVars, aloneStore
  <2>1. CASE TakeAlone
    <3>1. CASE wpc' = "awrite"
      <4>1. aloneWriteIndex # aloneSaveIndex /\ UNCHANGED <<aloneSaved, aloneWriteIndex>>
        BY <2>1, <3>1 DEF TakeAlone, aloneWrite
      <4>2. Len(aloneSaved) < BUFFLEN => Len(aloneSaved) < aloneProduced
        BY <4>1, <1>t DEF AloneInv, AloneSlot
      <4> QED
        BY <4>1, <4>2, <2>0 DEF AloneInv, AloneSlot
    <3>2. CASE wpc' # "awrite"
      BY <2>1, <3>2, <2>0, <1>1 DEF TakeAlone, aloneWrite
    <3> QED
      BY <3>1, <3>2
  <2>2. CASE WriteAlone
    <3> DEFINE w == Len(aloneSaved)
    <3>1. /\ wpc = "awrite" /\ wpc' = "drain" /\ aloneWriteIndex < BUFFLEN
          /\ aloneSaved' = Append(aloneSaved, rgbAloneFrameData[aloneWriteIndex])
          /\ aloneWriteIndex' = AloneSuccessor(aloneWriteIndex)
      BY <2>2 DEF WriteAlone
    <3>2. w < BUFFLEN /\ aloneWriteIndex = w /\ w < aloneProduced
      BY <3>1, <1>t DEF AloneInv
    <3>3. rgbAloneFrameData[aloneWriteIndex] = w
      BY <3>2, <1>t DEF AloneInv, AloneSlot
    <3>4. Len(aloneSaved') = w + 1 /\ \A i \in 1 .. w + 1 : aloneSaved'[i] = i - 1
      <4>1. aloneSaved' = Append(aloneSaved, w)
        BY <3>1, <3>3
      <4>2. \A i \in 1 .. w : aloneSaved[i] = i - 1
        BY DEF AloneInv
      <4> QED
        BY <4>1, <4>2, <1>t
    <3>5. aloneWriteIndex' = IF w + 1 < BUFFLEN THEN w + 1 ELSE BUFFLEN + 1
      BY <3>1, <3>2, <1>t DEF AloneSuccessor
    <3> HIDE DEF w
    <3>6. /\ aloneProduced' - Len(aloneSaved') < BUFFLEN /\ Len(aloneSaved') <= aloneProduced'
          /\ \A n \in Len(aloneSaved') .. aloneProduced' - 1 : rgbAloneFrameData[AloneSlot(n)] = n
      BY <3>2, <3>4, <2>0, <1>t DEF AloneInv, w
    <3> QED
      BY <3>1, <3>2, <3>4, <3>5, <3>6, <2>0, <1>t DEF AloneInv, AloneSlot, w
  <2>3. CASE WriterExit \/ TakeFrame \/ RereadMode \/ WriteIr \/ WriteDepth \/ WriteCloud
             \/ WriteRgb \/ Advance \/ NoFrameToTake \/ CheckSynced \/ FinishSession
             \/ SleepOnce \/ NotDrained
    <3>1. UNCHANGED <<aloneSaved, aloneWriteIndex>> /\ wpc' # "awrite"
      BY <2>3 DEF WriterExit, TakeFrame, RereadMode, WriteIr, WriteDepth, WriteCloud, WriteRgb,
                  Advance, NoFrameToTake, CheckSynced, FinishSession, SleepOnce, NotDrained, aloneWrite
    <3> QED
      BY <3>1, <2>0, <1>1
  <2>4. CASE WriteOutside
    BY <2>4 DEF WriteOutside
  <2> QED
    BY <1>6, <2>1, <2>2, <2>3, <2>4 DEF Writer
<1> QED
  BY <1>2, <1>3, <1>4, <1>5, <1>6 DEF Next, Producer

(* RGB-only pictures are written in order and with their own content as    *)
(* long as the writer's cursor stays in the ring (datasaver.cpp:191-198).  *)
THEOREM AloneInOrderCorrect == Spec => []AloneInOrder
<1>1. Init => AloneInv
  BY BUFFLENAssumption DEF Init, AloneInv, AloneSlot
<1>2. AloneInv => AloneInOrder
  BY DEF AloneInv, AloneInOrder
<1> QED
  BY <1>1, <1>2, TypeInit, TypeStep, AloneStep, PTL DEF Spec

-------------------------------------------------------------------------------
(* The one round of the RGB-only ring. *)

(* In the ring the cursor counts the pictures written, whatever the        *)
(* producer has done to the ring.                                          *)
OneRingInv ==
  /\ Len(aloneSaved) <= BUFFLEN
  /\ aloneWriteIndex < BUFFLEN => Len(aloneSaved) = aloneWriteIndex

LEMMA OneRingStep == TypeOK /\ OneRingInv /\ [Next]_vars => OneRingInv'
<1> SUFFICES ASSUME TypeOK, OneRingInv, [Next]_vars PROVE OneRingInv'
  OBVIOUS
<1>1. CASE UNCHANGED aloneWrite
  BY <1>1 DEF OneRingInv, aloneWrite
<1>2. CASE WriteAlone
  <2>1. /\ aloneWriteIndex < BUFFLEN /\ aloneWriteIndex' = AloneSuccessor(aloneWriteIndex)
        /\ aloneSaved' = Append(aloneSaved, rgbAloneFrameData[aloneWriteIndex])
    BY <1>2 DEF WriteAlone
  <2>2. aloneWriteIndex \in Slots /\ rgbAloneFrameData[aloneWriteIndex] \in Nat \cup {NoFrame}
    BY <2>1, BUFFLENAssumption DEF TypeOK, Slots
  <2>3. Len(aloneSaved') = Len(aloneSaved) + 1
    BY <2>1, <2>2 DEF TypeOK
  <2> QED
    BY <2>1, <2>2, <2>3, BUFFLENAssumption DEF OneRingInv, AloneSuccessor, Slots
<1> QED
  BY <1>1, <1>2
  DEF Next, vars, Producer, Writer, CallStoreData, CopyIr, CopyRgb, CopyDepth, BumpSaveIndex,
      WrapSaveIndex, CopyAlone, BumpAlone, WrapAlone, WriterExit, TakeFrame, RereadMode, WriteIr,
      WriteDepth, WriteCloud, WriteRgb, Advance, NoFrameToTake, TakeAlone, WriteOutside, CheckSynced,
      FinishSession, SleepOnce, NotDrained, SetSavePathAndMode, ReleaseDateSaver

(* Beyond the ring no action of the writer moves its cursor.               *)
LEMMA LostStep ==
  TypeOK /\ [Next]_vars
    => [aloneWriteIndex >= BUFFLEN => UNCHANGED aloneWrite /\ (writeFinsih' => writeFinsih)]_vars
<1> SUFFICES ASSUME TypeOK, Next, aloneWriteIndex >= BUFFLEN
             PROVE  UNCHANGED aloneWrite /\ (writeFinsih' => writeFinsih)
  OBVIOUS
<1>1. ~WriteAlone
  BY BUFFLENAssumption DEF WriteAlone, TypeOK, Slots
<1>2. ~FinishSession
  <2>1. aloneWriteIndex = BUFFLEN + 1 /\ aloneSaveIndex \in 0 .. BUFFLEN
    BY BUFFLENAssumption DEF TypeOK, Slots
  <2> QED
    BY <2>1, BUFFLENAssumption DEF FinishSession, Drained
<1>3. UNCHANGED aloneWrite
  BY <1>1, <1>2
  DEF Next, Producer, Writer, CallStoreData, CopyIr, CopyRgb, CopyDepth, BumpSaveIndex,
      WrapSaveIndex, CopyAlone, BumpAlone, WrapAlone, WriterExit, TakeFrame, RereadMode, WriteIr,
      WriteDepth, WriteCloud, WriteRgb, Advance, NoFrameToTake, TakeAlone, WriteOutside, CheckSynced,
      SleepOnce, NotDrained, SetSavePathAndMode, ReleaseDateSaver
<1>4. writeFinsih' \in {writeFinsih, FALSE}
  BY <1>1, <1>2
  DEF Next, Producer, Writer, CallStoreData, CopyIr, CopyRgb, CopyDepth, BumpSaveIndex,
      WrapSaveIndex, CopyAlone, BumpAlone, WrapAlone, WriterExit, TakeFrame, RereadMode, WriteIr,
      WriteDepth, WriteCloud, WriteRgb, Advance, NoFrameToTake, TakeAlone, WriteOutside, CheckSynced,
      SleepOnce, NotDrained, SetSavePathAndMode, ReleaseDateSaver, drainVars
<1>5. writeFinsih' => writeFinsih
  BY <1>4, Zenon
<1> QED
  BY <1>3, <1>5, Zenon

(* What is left of the claim that every RGB-only picture is saved: one     *)
(* ring of them at most, for good (datasaver.cpp:193-202).                 *)
THEOREM AloneOneRingCorrect == Spec => AloneOneRing
<1>1. Init => OneRingInv
  BY BUFFLENAssumption DEF Init, OneRingInv
<1>2. OneRingInv => Len(aloneSaved) <= BUFFLEN
  BY DEF OneRingInv
<1> QED
  BY <1>1, <1>2, TypeInit, TypeStep, OneRingStep, LostStep, PTL DEF Spec, AloneOneRing

-------------------------------------------------------------------------------
(* The numbers of the files. *)

LEMMA NamesInit == Init => NamesInv
  BY DEF Init, NamesInv, NamesUniqueInSession, Holding, Encoding

(* Numbers only grow in a session, and a new one has a new session number. *)
LEMMA NamesStep == TypeOK /\ NamesInv /\ [Next]_vars => NamesInv'
<1> SUFFICES ASSUME TypeOK, NamesInv, [Next]_vars PROVE NamesInv'
  OBVIOUS
<1>t. saved \in Seq(Shots) /\ session \in Nat /\ savePathIndex \in Nat /\ shot \in Shots
  BY DEF TypeOK
<1>n. \A s \in Shots : s.session \in Nat /\ s.name \in Int
  BY DEF Shots, NoFrame
<1>u. \A i \in 1 .. Len(saved) : saved[i] \in Shots
  BY <1>t
<1>1. ASSUME UNCHANGED <<saved, session, savePathIndex>>,
             UNCHANGED <<shot, wpc>> \/ wpc' \notin Holding
      PROVE  NamesInv'
  BY <1>1 DEF NamesInv, NamesUniqueInSession
<1>2. CASE Producer \/ SetSavePathAndMode \/ ReleaseDateSaver \/ UNCHANGED vars
  BY <1>1, <1>2 DEF Producer, CallStoreData, CopyIr, CopyRgb, CopyDepth, BumpSaveIndex,
       WrapSaveIndex, CopyAlone, BumpAlone, WrapAlone, SetSavePathAndMode, ReleaseDateSaver,
       vars, writerVars, drainVars
<1>3. CASE WriterExit \/ NoFrameToTake \/ TakeAlone \/ WriteAlone \/ WriteOutside \/ CheckSynced
           \/ SleepOnce \/ NotDrained
  BY <1>1, <1>3 DEF WriterExit, NoFrameToTake, TakeAlone, WriteAlone, WriteOutside, CheckSynced,
       SleepOnce, NotDrained, writerVars, drainVars, Holding, Encoding
<1>4. CASE TakeFrame
  <2>1. /\ shot'.session = session /\ shot'.name = savePathIndex
        /\ UNCHANGED <<saved, session, savePathIndex>>
    BY <1>4 DEF TakeFrame, NoShot
  <2> QED
    BY <2>1 DEF NamesInv, NamesUniqueInSession
<1>5. CASE RereadMode \/ WriteIr \/ WriteDepth \/ WriteCloud \/ WriteRgb
  <2>1. wpc \in Holding /\ UNCHANGED <<saved, session, savePathIndex>>
    BY <1>5 DEF RereadMode, WriteIr, WriteDepth, WriteCloud, WriteRgb, drainVars, Holding, Encoding
  <2>2. shot'.session = shot.session /\ shot'.name = shot.name
    BY <1>5, <1>t DEF RereadMode, WriteIr, WriteDepth, WriteCloud, WriteRgb, Shots
  <2> QED
    BY <2>1, <2>2 DEF NamesInv, NamesUniqueInSession
<1>6. CASE Advance
  <2>1. /\ wpc = "next" /\ wpc' = "alone" /\ savePathIndex' = savePathIndex + 1
        /\ session' = session
        /\ saved' = saved \/ saved' = Append(saved, shot)
    BY <1>6 DEF Advance
  <2>2. shot.session = session /\ shot.name = savePathIndex
    BY <2>1 DEF NamesInv, Holding
  <2>3. wpc' \notin Holding
    BY <2>1 DEF Holding, Encoding
  <2>4. CASE saved' = saved
    BY <2>1, <2>3, <2>4, <1>t, <1>n, <1>u DEF NamesInv, NamesUniqueInSession
  <2>5. CASE saved' = Append(saved, shot)
    <3>1. /\ Len(saved') = Len(saved) + 1 /\ saved'[Len(saved) + 1] = shot
          /\ \A i \in 1 .. Len(saved) : saved'[i] = saved[i]
          /\ Len(saved) \in Nat
      BY <2>5, <1>t
    <3>2. \A i \in 1 .. Len(saved') :
            /\ saved'[i].session <= session
            /\ saved'[i].session = session => saved'[i].name < savePathIndex + 1
      <4> TAKE i \in 1 .. Len(saved')
      <4>1. CASE i = Len(saved) + 1
        BY <4>1, <3>1, <2>2, <1>t
      <4>2. CASE i \in 1 .. Len(saved)
        BY <4>2, <3>1, <1>t, <1>n, <1>u DEF NamesInv
      <4> QED
        BY <4>1, <4>2, <3>1
    <3>3. ASSUME NEW i \in 1 .. Len(saved'), NEW j \in 1 .. Len(saved'),
                 i < j, saved'[i].session = saved'[j].session
          PROVE  saved'[i].name < saved'[j].name
      <4>1. i \in 1 .. Len(saved)
        BY <3>1, <3>3
      <4>2. CASE j \in 1 .. Len(saved)
        BY <4>1, <4>2, <3>1, <3>3 DEF NamesInv, NamesUniqueInSession
      <4>3. CASE j = Len(saved) + 1
        BY <4>1, <4>3, <3>1, <3>3, <2>2 DEF NamesInv
      <4> QED
        BY <4>2, <4>3, <3>1
    <3>4. NamesUniqueInSession'
      BY <3>3 DEF NamesUniqueInSession
    <3> QED
      BY <3>2, <3>4, <2>1, <2>3 DEF NamesInv
  <2> QED
    BY <2>1, <2>4, <2>5
<1>7. CASE FinishSession
  <2>1. /\ wpc' = "loop" /\ saved' = saved /\ session' = session + 1
    BY <1>7 DEF FinishSession, writerVars
  <2>2. \A i \in 1 .. Len(saved) : saved[i].session < session + 1
    BY <1>t, <1>n, <1>u DEF NamesInv
  <2>3. \A i \in 1 .. Len(saved) : saved[i].session <= session + 1 /\ saved[i].session # session + 1
    BY <2>2, <1>t, <1>n, <1>u
  <2> QED
    BY <2>1, <2>3 DEF NamesInv, NamesUniqueInSession, Holding, Encoding
<1> QED
  BY <1>2, <1>3, <1>4, <1>5, <1>6, <1>7 DEF Next, Writer

(* No file overwrites another one of the same session: the numbers only    *)
(* start again when a new session does (datasaver.cpp:97-104, 187, 203).   *)
THEOREM NamesUniqueInSessionCorrect == Spec => []NamesUniqueInSession
<1>1. NamesInv => NamesUniqueInSession
  BY DEF NamesInv
<1> QED
  BY <1>1, TypeInit, TypeStep, NamesInit, NamesStep, PTL DEF Spec

-------------------------------------------------------------------------------
(* Frames spread over several directories.  Each takes a change of its own *)
(* after its first file: one that is saved, or the one being written once  *)
(* the directory is no longer that of its files so far.                    *)
Spread(s) == Cardinality(s.paths) > 1
SpreadSaved == {i \in 1 .. Len(saved) : Spread(saved[i])}
Spreading == shot.paths # {} /\ (Spread(shot) \/ savePath \notin shot.paths)

SplitInv ==
  /\ IsFiniteSet(SpreadSaved)
  /\ Cardinality(SpreadSaved) + (IF Spreading THEN 1 ELSE 0) <= changes

(* A frame in no directory or in one is not spread.                        *)
LEMMA OneDirectory ==
  /\ \A s \in Shots : s.paths = {} => ~Spread(s)
  /\ \A s \in Shots, p \in Paths : s.paths = {p} => ~Spread(s)
<1>1. Cardinality({}) = 0
  BY FS_EmptySet
<1>2. \A p : Cardinality({p}) = 1
  BY FS_Singleton
<1> QED
  <2>1. ASSUME NEW s \in Shots, s.paths = {} PROVE ~Spread(s)
    <3>1. Cardinality(s.paths) = 0
      BY <1>1, <2>1
    <3> QED
      BY <3>1 DEF Spread
  <2>2. ASSUME NEW s \in Shots, NEW p \in Paths, s.paths = {p} PROVE ~Spread(s)
    <3>1. Cardinality(s.paths) = 1
      BY <1>2, <2>2
    <3> QED
      BY <3>1 DEF Spread
  <2> QED
    BY <2>1, <2>2

(* At the start no frame is saved. *)
LEMMA SplitInit == Init => SplitInv
<1> SUFFICES ASSUME Init PROVE SplitInv
  OBVIOUS
<1>1. SpreadSaved = {}
  BY DEF Init, SpreadSaved
<1>2. ~Spreading
  BY DEF Init, Spreading, NoShot
<1>3. IsFiniteSet(SpreadSaved) /\ Cardinality(SpreadSaved) = 0
  BY <1>1, FS_EmptySet
<1> QED
  BY <1>2, <1>3 DEF Init, SplitInv

(* A step after which no more frames are spread than before, but for the   *)
(* one a change accounts for.                                              *)
LEMMA SplitKept ==
  ASSUME TypeOK, SplitInv, UNCHANGED saved, changes' \in {changes, changes + 1},
         Spreading' => Spreading \/ changes' = changes + 1
  PROVE  SplitInv'
<1>1. SpreadSaved' = SpreadSaved
  BY DEF SpreadSaved, Spread
<1>2. Cardinality(SpreadSaved) \in Nat /\ changes \in Nat
  BY FS_CardinalityType DEF SplitInv, TypeOK
<1>3. CASE Spreading'
  BY <1>1, <1>2, <1>3 DEF SplitInv
<1>4. CASE ~Spreading'
  BY <1>1, <1>2, <1>4 DEF SplitInv
<1> QED
  BY <1>3, <1>4

(* A file more leaves a frame in one directory as long as that is the      *)
(* saver's.                                                                *)
LEMMA FileWritten ==
  ASSUME TypeOK, TypeOK', UNCHANGED savePath, shot'.paths = shot.paths \cup {savePath}
  PROVE  Spreading' => Spreading
<1> SUFFICES ASSUME Spreading', ~Spreading PROVE FALSE
  OBVIOUS
<1>1. savePath \in Paths /\ shot \in Shots /\ shot' \in Shots
  BY DEF TypeOK
<1>2. CASE shot.paths = {}
  <2>1. shot'.paths = {savePath}
    BY <1>2
  <2> QED
    BY <1>1, <2>1, OneDirectory DEF Spreading, Spread
<1>3. CASE shot.paths # {}
  <2>1. ~Spread(shot) /\ savePath \in shot.paths
    BY <1>3 DEF Spreading
  <2>2. shot'.paths = shot.paths
    BY <2>1
  <2> QED
    BY <2>1, <2>2 DEF Spreading, Spread
<1> QED
  BY <1>2, <1>3

(* Only a change by the user lets one more frame be spread. *)
LEMMA SplitStep == TypeOK /\ TypeOK' /\ SplitInv /\ [Next]_vars => SplitInv'
<1> SUFFICES ASSUME TypeOK, TypeOK', SplitInv, [Next]_vars PROVE SplitInv'
  OBVIOUS
<1>1. ASSUME UNCHANGED <<shot, saved, savePath, changes>> PROVE SplitInv'
  <2>1. Spreading' => Spreading
    BY <1>1 DEF Spreading, Spread
  <2> QED
    BY <1>1, <2>1, SplitKept
<1>2. CASE Producer
  <2>1. UNCHANGED <<guiVars, writerVars>>
    BY <1>2, Zenon DEF Producer, CallStoreData, CopyIr, CopyRgb, CopyDepth, BumpSaveIndex,
       WrapSaveIndex, CopyAlone, BumpAlone, WrapAlone
  <2> QED
    BY <1>1, <2>1 DEF guiVars, writerVars
<1>3. CASE SetSavePathAndMode
  BY <1>3, SplitKept DEF SetSavePathAndMode, writerVars
<1>4. CASE ReleaseDateSaver
  BY <1>1, <1>4 DEF ReleaseDateSaver, writerVars
<1>5. CASE Writer
  <2>1. UNCHANGED <<savePath, changes>>
    BY <1>5 DEF Writer, guiVars
  <2>2. ASSUME UNCHANGED saved, shot'.paths \in {{}, shot.paths}
        PROVE  SplitInv'
    <3>1. Spreading' => Spreading
      BY <2>1, <2>2 DEF Spreading, Spread
    <3> QED
      BY <2>1, <2>2, <3>1, SplitKept
  <2>3. ASSUME UNCHANGED saved, shot'.paths = shot.paths \cup {savePath} PROVE SplitInv'
    BY <2>1, <2>3, FileWritten, SplitKept
  <2>4. CASE WriterExit \/ NoFrameToTake \/ TakeAlone \/ WriteAlone \/ WriteOutside
             \/ CheckSynced \/ FinishSession \/ SleepOnce \/ NotDrained
    <3>1. UNCHANGED writerVars
      BY <2>4, Zenon DEF WriterExit, NoFrameToTake, TakeAlone, WriteAlone, WriteOutside,
         CheckSynced, FinishSession, SleepOnce, NotDrained
    <3> QED
      BY <1>1, <2>1, <3>1 DEF writerVars
  <2>5. CASE TakeFrame
    <3>1. UNCHANGED saved /\ shot'.paths = {}
      BY <2>5 DEF TakeFrame, NoShot
    <3> QED
      BY <2>2, <3>1
  <2>6. CASE RereadMode
    <3>1. UNCHANGED saved /\ shot'.paths = shot.paths
      BY <2>6 DEF RereadMode, TypeOK, Shots
    <3> QED
      BY <2>2, <3>1
  <2>7. CASE WriteIr \/ WriteDepth \/ WriteCloud \/ WriteRgb
    <3>1. UNCHANGED saved
          /\ (shot'.paths = shot.paths \/ shot'.paths = shot.paths \cup {savePath})
      BY <2>7 DEF WriteIr, WriteDepth, WriteCloud, WriteRgb, TypeOK, Shots
    <3> QED
      BY <2>2, <2>3, <3>1
  <2>8. CASE Advance
    <3>1. shot'.paths = {} /\ shot \in Shots /\ saved \in Seq(Shots)
      BY <2>8 DEF Advance, NoShot, TypeOK
    <3>2. ~Spreading'
      BY <3>1 DEF Spreading
    <3>3. Cardinality(SpreadSaved) \in Nat /\ changes \in Nat
      BY FS_CardinalityType DEF SplitInv, TypeOK
    <3>4. CASE saved' = saved
      BY <2>1, <3>2, <3>4, SplitKept
    <3>5. CASE saved' = Append(saved, shot)
      <4>1. Len(saved') = Len(saved) + 1 /\ Len(saved) \in Nat
            /\ \A i \in 1 .. Len(saved) + 1 :
                 saved'[i] = IF i = Len(saved) + 1 THEN shot ELSE saved[i]
        BY <3>1, <3>5
      <4>2. CASE Spread(shot)
        <5>1. SpreadSaved' = SpreadSaved \cup {Len(saved) + 1}
          BY <4>1, <4>2 DEF SpreadSaved, Spread
        <5>2. Spreading
          BY <3>1, <4>2, OneDirectory DEF Spreading
        <5>3. /\ IsFiniteSet(SpreadSaved')
              /\ Cardinality(SpreadSaved') \in
                   {Cardinality(SpreadSaved), Cardinality(SpreadSaved) + 1}
          BY <5>1, FS_AddElement DEF SplitInv
        <5> QED
          BY <2>1, <3>2, <3>3, <5>2, <5>3 DEF SplitInv
      <4>3. CASE ~Spread(shot)
        <5>1. SpreadSaved' = SpreadSaved
          BY <4>1, <4>3 DEF SpreadSaved, Spread
        <5> QED
          BY <2>1, <3>2, <3>3, <5>1 DEF SplitInv
      <4> QED
        BY <4>2, <4>3
    <3> QED
      BY <2>8, <3>4, <3>5 DEF Advance
  <2> QED
    BY <1>5, <2>4, <2>5, <2>6, <2>7, <2>8 DEF Writer
<1>6. CASE UNCHANGED vars
  BY <1>1, <1>6 DEF vars, guiVars, writerVars
<1> QED
  BY <1>2, <1>3, <1>4, <1>5, <1>6 DEF Next

(* For any number of directories, frames and changes, no more frames are   *)
(* spread over several directories than changes were made                  *)
(* (datasaver.cpp:105-185).                                                *)
THEOREM SplitFramesBoundedCorrect == Spec => []SplitFramesBounded
<1>1. TypeOK /\ SplitInv => SplitFramesBounded
  <2> SUFFICES ASSUME TypeOK, SplitInv PROVE SplitFramesBounded
    OBVIOUS
  <2>1. Cardinality(SpreadSaved) \in Nat /\ changes \in Nat
    BY FS_CardinalityType DEF SplitInv, TypeOK
  <2>2. Cardinality(SpreadSaved) <= changes
    BY <2>1 DEF SplitInv
  <2> QED
    BY <2>2 DEF SplitFramesBounded, SpreadSaved, Spread
<1> QED
  BY <1>1, TypeCorrect, SplitInit, SplitStep, PTL DEF Spec
===============================================================================
