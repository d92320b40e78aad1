------------------------------- MODULE DataSaver -------------------------------
(***************************************************************************)
(* datasaver.cpp: two rings of frames between the thread that builds       *)
(* frames (the caller of storeData and storeAloneRGBData, here the         *)
(* producer) and the thread that writes them to disk (saveDataToDevice,    *)
(* here the writer).  No lock protects any field, so each read or write of *)
(* a shared field is a step, and so is each copy or encoding of an image.  *)
(* Images are abstracted to the number of the frame they belong to.        *)
(***************************************************************************)
EXTENDS Integers, Sequences, FiniteSets

CONSTANTS
  BUFFLEN,        \* slots of either ring (1000 in the code)
  StopCheckLimit, \* idle passes before a session counts as finished (5)
  Paths,          \* save directories the user can choose
  FirstPath,      \* the one to begin with ("." in the code)
  CloudPaths,     \* those with a pointcloud directory
  Loads           \* bounds on what comes from outside: synced frames, RGB-only
                  \* frames and changes of directory or mode by the user

ASSUME BUFFLENAssumption == BUFFLEN \in Nat \ {0, 1}
ASSUME StopCheckLimitAssumption == StopCheckLimit \in Nat
ASSUME PathsAssumption == FirstPath \in Paths /\ CloudPaths \subseteq Paths
ASSUME LoadsAssumption == Loads \subseteq [frames : Nat, alone : Nat, changes : Nat]

VARIABLES
  saveIndex, irFrameData, rgbFrameData, depthData,  \* the synced ring
  irIsColour,        \* per slot: the IR image still has three channels
  writeIndex,
  aloneSaveIndex, rgbAloneFrameData,                \* the RGB-only ring
  aloneWriteIndex,
  savePath, saveMode, quitProgramm,                 \* set by the GUI thread
  savePathIndex, stopCheck, writeFinsih,            \* the writer's own
  ppc, wpc,          \* where the producer and the writer are
  shot,              \* files the writer has written for the current frame
  produced, retired, \* synced frames stored, frames the writer is done with
  saved,             \* frames on disk: a sequence of shots
  mishaps,           \* how the synced ring was misused so far
  aloneProduced, aloneSaved, aloneMishaps,          \* the same, RGB-only
  quiet,             \* sleeps of the writer since it last took a synced frame
  session,           \* how often the numbering of the files started again
  changes            \* calls of setSavePathAndMode so far

guiVars      == <<savePath, saveMode, quitProgramm, changes>>
producerVars == <<saveIndex, rgbFrameData, depthData, ppc, produced>>
imageVars    == <<irFrameData, irIsColour>>
aloneStore   == <<aloneSaveIndex, rgbAloneFrameData, aloneProduced>>
aloneWrite   == <<aloneWriteIndex, aloneSaved>>
writerVars   == <<writeIndex, shot, retired, saved>>
drainVars    == <<savePathIndex, stopCheck, writeFinsih, quiet, session>>
vars == <<guiVars, producerVars, imageVars, aloneStore, aloneWrite, writerVars,
          drainVars, wpc, mishaps, aloneMishaps>>

Slots   == 0 .. BUFFLEN - 1
NoFrame == -1
NoShot  == [mode |-> 0, session |-> 0, name |-> NoFrame, ir |-> NoFrame, depth |-> NoFrame,
            cloud |-> NoFrame, rgb |-> NoFrame, paths |-> {}]

(* mutant of SlotAfter: the cursors wrap one slot early *)
SlotAfterShort(i) == IF i + 2 = BUFFLEN THEN 0 ELSE i + 1

(* the cursor after i: i += 1, and 0 at the end of the ring *)
SlotAfter(i) == IF i + 1 = BUFFLEN THEN 0 ELSE i + 1

(* dataSaver::dataSaver, and the initialisers of its members *)
Init ==
  /\ saveIndex = 0 /\ writeIndex = 0
  /\ aloneSaveIndex = 0 /\ aloneWriteIndex = 0
  /\ irFrameData = [s \in Slots |-> NoFrame]
  /\ rgbFrameData = [s \in Slots |-> NoFrame]
  /\ depthData = [s \in Slots |-> NoFrame]
  /\ irIsColour = [s \in Slots |-> FALSE]
  /\ rgbAloneFrameData = [s \in Slots |-> NoFrame]
  /\ savePath = FirstPath /\ saveMode = 3 /\ quitProgramm = FALSE
  /\ savePathIndex = 0 /\ stopCheck = 0 /\ writeFinsih = TRUE
  /\ ppc = "idle" /\ wpc = "loop"
  /\ shot = NoShot /\ saved = <<>>
  /\ produced = 0 /\ retired = 0 /\ mishaps = {}
  /\ aloneProduced = 0 /\ aloneSaved = <<>> /\ aloneMishaps = {}
  /\ quiet = 0 /\ session = 0 /\ changes = 0

-------------------------------------------------------------------------------
(* The producer.  A caller is inside at most one of the two functions.     *)

(* the bounds, on all three together *)
Within(frames, alone, changed) ==
  \E load \in Loads :
    frames <= load.frames /\ alone <= load.alone /\ changed <= load.changes

SettingsChange == \E load \in Loads : load.changes > 0

CallStoreData ==
  /\ ppc = "idle" /\ Within(produced + 1, aloneProduced, changes)
  /\ ppc' = "ir"
  /\ UNCHANGED <<guiVars, saveIndex, rgbFrameData, depthData, produced, imageVars,
                 aloneStore, aloneWrite, writerVars, drainVars, wpc, mishaps, aloneMishaps>>

(* irF.copyTo: the slot holds the three-channel picture of the new frame *)
CopyIr ==
  /\ ppc = "ir" /\ ppc' = "rgb"
  /\ irFrameData' = [irFrameData EXCEPT ![saveIndex] = produced]
  /\ irIsColour' = [irIsColour EXCEPT ![saveIndex] = TRUE]
  /\ UNCHANGED <<guiVars, saveIndex, rgbFrameData, depthData, produced,
                 aloneStore, aloneWrite, writerVars, drainVars, wpc, mishaps, aloneMishaps>>

CopyRgb ==
  /\ ppc = "rgb" /\ ppc' = "depth"
  /\ rgbFrameData' = [rgbFrameData EXCEPT ![saveIndex] = produced]
  /\ UNCHANGED <<guiVars, saveIndex, depthData, produced, imageVars,
                 aloneStore, aloneWrite, writerVars, drainVars, wpc, mishaps, aloneMishaps>>

(* mutant of CopyDepth: the copy is left out *)
CopyDepthForgotten ==
  /\ ppc = "depth" /\ ppc' = "bump"
  /\ UNCHANGED <<guiVars, saveIndex, rgbFrameData, depthData, produced, imageVars,
                 aloneStore, aloneWrite, writerVars, drainVars, wpc, mishaps, aloneMishaps>>

CopyDepth ==
  /\ ppc = "depth" /\ ppc' = "bump"
  /\ depthData' = [depthData EXCEPT ![saveIndex] = produced]
  /\ UNCHANGED <<guiVars, saveIndex, rgbFrameData, produced, imageVars,
                 aloneStore, aloneWrite, writerVars, drainVars, wpc, mishaps, aloneMishaps>>

(* saveIndex += 1, with nothing to stop it from running into writeIndex.   *)
(* A build may store the incremented value before it is compared with      *)
(* BUFFLEN, or only the result of the comparison.                          *)
BumpSaveIndex ==
  /\ ppc = "bump"
  /\ \/ saveIndex' = SlotAfter(saveIndex) /\ ppc' = "idle"
     \/ saveIndex + 1 = BUFFLEN /\ saveIndex' = BUFFLEN /\ ppc' = "wrap"
  /\ produced' = produced + 1
  /\ mishaps' = IF produced + 1 - retired >= BUFFLEN THEN mishaps \cup {"lapped"} ELSE mishaps
  /\ UNCHANGED <<guiVars, rgbFrameData, depthData, imageVars,
                 aloneStore, aloneWrite, writerVars, drainVars, wpc, aloneMishaps>>

(* mutants of WrapSaveIndex: no reset, and a reset to the second slot *)
WrapSaveIndexForgotten ==
  /\ ppc = "wrap" /\ ppc' = "idle"
  /\ UNCHANGED <<guiVars, saveIndex, rgbFrameData, depthData, produced, imageVars,
                 aloneStore, aloneWrite, writerVars, drainVars, wpc, mishaps, aloneMishaps>>

WrapSaveIndexToOne ==
  /\ ppc = "wrap" /\ ppc' = "idle"
  /\ saveIndex' = 1
  /\ UNCHANGED <<guiVars, rgbFrameData, depthData, produced, imageVars,
                 aloneStore, aloneWrite, writerVars, drainVars, wpc, mishaps, aloneMishaps>>

WrapSaveIndex ==
  /\ ppc = "wrap" /\ ppc' = "idle"
  /\ saveIndex' = 0
  /\ UNCHANGED <<guiVars, rgbFrameData, depthData, produced, imageVars,
                 aloneStore, aloneWrite, writerVars, drainVars, wpc, mishaps, aloneMishaps>>

(* mutant of CopyAlone: the picture is copied to the writer's place *)
CopyAloneToWriter ==
  /\ ppc = "idle" /\ Within(produced, aloneProduced + 1, changes)
  /\ ppc' = "abump"
  /\ rgbAloneFrameData' = [rgbAloneFrameData EXCEPT
                             ![IF aloneWriteIndex < BUFFLEN THEN aloneWriteIndex ELSE 0] =
                               aloneProduced]
  /\ UNCHANGED <<guiVars, saveIndex, rgbFrameData, depthData, produced, imageVars,
                 aloneSaveIndex, aloneProduced, aloneWrite, writerVars, drainVars,
                 wpc, mishaps, aloneMishaps>>

(* storeAloneRGBData: the copy of the picture and of its time stamp *)
CopyAlone ==
  /\ ppc = "idle" /\ Within(produced, aloneProduced + 1, changes)
  /\ ppc' = "abump"
  /\ rgbAloneFrameData' = [rgbAloneFrameData EXCEPT ![aloneSaveIndex] = aloneProduced]
  /\ UNCHANGED <<guiVars, saveIndex, rgbFrameData, depthData, produced, imageVars,
                 aloneSaveIndex, aloneProduced, aloneWrite, writerVars, drainVars,
                 wpc, mishaps, aloneMishaps>>

BumpAlone ==
  /\ ppc = "abump"
  /\ \/ aloneSaveIndex' = SlotAfter(aloneSaveIndex) /\ ppc' = "idle"
     \/ aloneSaveIndex + 1 = BUFFLEN /\ aloneSaveIndex' = BUFFLEN /\ ppc' = "awrap"
  /\ aloneProduced' = aloneProduced + 1
  /\ aloneMishaps' = IF aloneProduced + 1 - Len(aloneSaved) >= BUFFLEN
                     THEN aloneMishaps \cup {"lapped"} ELSE aloneMishaps
  /\ UNCHANGED <<guiVars, saveIndex, rgbFrameData, depthData, produced, imageVars,
                 rgbAloneFrameData, aloneWrite, writerVars, drainVars, wpc, mishaps>>

WrapAlone ==
  /\ ppc = "awrap" /\ ppc' = "idle"
  /\ aloneSaveIndex' = 0
  /\ UNCHANGED <<guiVars, saveIndex, rgbFrameData, depthData, produced, imageVars,
                 rgbAloneFrameData, aloneProduced, aloneWrite, writerVars, drainVars,
                 wpc, mishaps, aloneMishaps>>

Producer ==
  \/ CallStoreData \/ CopyIr \/ CopyRgb \/ CopyDepth \/ BumpSaveIndex \/ WrapSaveIndex
  \/ CopyAlone \/ BumpAlone \/ WrapAlone

-------------------------------------------------------------------------------
(* The writer, saveDataToDevice.  The producer's state is left alone by    *)
(* all of its steps; UNCHANGED of it is a conjunct of Writer.              *)

WriterExit ==
  /\ wpc = "loop" /\ quitProgramm
  /\ wpc' = "exited"
  /\ UNCHANGED <<imageVars, aloneWrite, writerVars, drainVars, mishaps, aloneMishaps>>

(* mutant of TakeFrame: stopCheck keeps the idle passes counted so far *)
TakeFrameKeepsStopCheck ==
  /\ wpc = "loop" /\ ~quitProgramm
  /\ writeIndex # saveIndex
  /\ writeFinsih' = FALSE /\ quiet' = 0
  /\ shot' = [NoShot EXCEPT !.session = session, !.name = savePathIndex,
                            !.mode = IF saveMode = 3 THEN 3 ELSE 0]
  /\ wpc' = IF saveMode = 3 THEN "ir" ELSE "mode"
  /\ mishaps' = IF retired = produced THEN mishaps \cup {"stale"} ELSE mishaps
  /\ UNCHANGED <<imageVars, aloneWrite, writeIndex, retired, saved, stopCheck,
                 savePathIndex, session, aloneMishaps>>

(* writeIndex != saveIndex, and the first test of saveMode *)
TakeFrame ==
  /\ wpc = "loop" /\ ~quitProgramm
  /\ writeIndex # saveIndex
  /\ stopCheck' = 0 /\ writeFinsih' = FALSE /\ quiet' = 0
  /\ shot' = [NoShot EXCEPT !.session = session, !.name = savePathIndex,
                            !.mode = IF saveMode = 3 THEN 3 ELSE 0]
  /\ wpc' = IF saveMode = 3 THEN "ir" ELSE "mode"
  /\ mishaps' = IF retired = produced THEN mishaps \cup {"stale"} ELSE mishaps
  /\ UNCHANGED <<imageVars, aloneWrite, writeIndex, retired, saved, savePathIndex,
                 session, aloneMishaps>>

(* the second test of saveMode: when it is 3 again the frame is dropped *)
RereadMode ==
  /\ wpc = "mode"
  /\ \/ /\ saveMode = 4
        /\ wpc' = "ir" /\ shot' = [shot EXCEPT !.mode = 4]
        /\ UNCHANGED mishaps
     \/ /\ saveMode # 4
        /\ wpc' = "next" /\ mishaps' = mishaps \cup {"skipped"}
        /\ UNCHANGED shot
  /\ UNCHANGED <<imageVars, aloneWrite, writeIndex, retired, saved, drainVars, aloneMishaps>>

(* cvtColor in place, then imwrite.  A picture that is grey already makes  *)
(* cvtColor throw, which ends the writer thread.                           *)
WriteIr ==
  /\ wpc = "ir"
  /\ \/ /\ irIsColour[writeIndex]
        /\ irIsColour' = [irIsColour EXCEPT ![writeIndex] = FALSE]
        /\ shot' = [shot EXCEPT !.ir = irFrameData[writeIndex],
                                !.paths = @ \cup {savePath}]
        /\ wpc' = "depth"
     \/ /\ ~irIsColour[writeIndex]
        /\ wpc' = "dead"
        /\ UNCHANGED <<irIsColour, shot>>
  /\ UNCHANGED <<irFrameData, aloneWrite, writeIndex, retired, saved, drainVars,
                 mishaps, aloneMishaps>>

WriteDepth ==
  /\ wpc = "depth"
  /\ shot' = [shot EXCEPT !.depth = depthData[writeIndex], !.paths = @ \cup {savePath}]
  /\ wpc' = IF shot.mode = 4 THEN "cloud" ELSE "rgb"
  /\ UNCHANGED <<imageVars, aloneWrite, writeIndex, retired, saved, drainVars,
                 mishaps, aloneMishaps>>

(* fopen_s, whose result is not looked at: without the directory fprintf   *)
(* is given a null stream, which ends the program.  "dead" stands for the  *)
(* end of the writer alone, and a producer that does nothing more for the  *)
(* end of the program.                                                     *)
WriteCloud ==
  /\ wpc = "cloud"
  /\ \/ /\ savePath \in CloudPaths
        /\ shot' = [shot EXCEPT !.cloud = depthData[writeIndex], !.paths = @ \cup {savePath}]
        /\ wpc' = "rgb"
     \/ /\ savePath \notin CloudPaths
        /\ wpc' = "dead"
        /\ UNCHANGED shot
  /\ UNCHANGED <<imageVars, aloneWrite, writeIndex, retired, saved, drainVars,
                 mishaps, aloneMishaps>>

(* mutants of WriteRgb: the slot after the frame's, and a fixed directory *)
WriteRgbOfNextSlot ==
  /\ wpc = "rgb" /\ wpc' = "next"
  /\ shot' = [shot EXCEPT !.rgb = rgbFrameData[SlotAfter(writeIndex)],
                          !.paths = @ \cup {savePath}]
  /\ UNCHANGED <<imageVars, aloneWrite, writeIndex, retired, saved, drainVars,
                 mishaps, aloneMishaps>>

WriteRgbToDefault ==
  /\ wpc = "rgb" /\ wpc' = "next"
  /\ shot' = [shot EXCEPT !.rgb = rgbFrameData[writeIndex],
                          !.paths = @ \cup {CHOOSE p \in Paths : TRUE}]
  /\ UNCHANGED <<imageVars, aloneWrite, writeIndex, retired, saved, drainVars,
                 mishaps, aloneMishaps>>

WriteRgb ==
  /\ wpc = "rgb" /\ wpc' = "next"
  /\ shot' = [shot EXCEPT !.rgb = rgbFrameData[writeIndex], !.paths = @ \cup {savePath}]
  /\ UNCHANGED <<imageVars, aloneWrite, writeIndex, retired, saved, drainVars,
                 mishaps, aloneMishaps>>

(* mutant of Advance: the number of the files is not incremented *)
AdvanceSameName ==
  /\ wpc = "next" /\ wpc' = "alone"
  /\ writeIndex' = SlotAfter(writeIndex)
  /\ retired' = retired + 1
  /\ saved' = IF shot.mode = 0 THEN saved ELSE Append(saved, shot)
  /\ shot' = NoShot
  /\ UNCHANGED <<imageVars, aloneWrite, drainVars, mishaps, aloneMishaps>>

(* savePathIndex += 1; writeIndex += 1, wrapped *)
Advance ==
  /\ wpc = "next" /\ wpc' = "alone"
  /\ savePathIndex' = savePathIndex + 1
  /\ writeIndex' = SlotAfter(writeIndex)
  /\ retired' = retired + 1
  /\ saved' = IF shot.mode = 0 THEN saved ELSE Append(saved, shot)
  /\ shot' = NoShot
  /\ UNCHANGED <<imageVars, aloneWrite, stopCheck, writeFinsih, quiet, session,
                 mishaps, aloneMishaps>>

NoFrameToTake ==
  /\ wpc = "loop" /\ ~quitProgramm
  /\ writeIndex = saveIndex
  /\ wpc' = "alone"
  /\ UNCHANGED <<imageVars, aloneWrite, writerVars, drainVars, mishaps, aloneMishaps>>

(* aloneWriteIndex != aloneSaveIndex *)
TakeAlone ==
  /\ wpc = "alone"
  /\ \/ /\ aloneWriteIndex # aloneSaveIndex
        /\ writeFinsih' = FALSE /\ wpc' = "awrite"
     \/ /\ aloneWriteIndex = aloneSaveIndex
        /\ wpc' = "drain" /\ UNCHANGED writeFinsih
  /\ UNCHANGED <<imageVars, aloneWrite, writerVars, savePathIndex, stopCheck, quiet, session,
                 mishaps, aloneMishaps>>

(* where the code means to wrap it increments the index once more *)
AloneSuccessor(i) == IF i + 1 = BUFFLEN THEN BUFFLEN + 1 ELSE i + 1

WriteAlone ==
  /\ wpc = "awrite" /\ aloneWriteIndex < BUFFLEN
  /\ wpc' = "drain"
  /\ aloneSaved' = Append(aloneSaved, rgbAloneFrameData[aloneWriteIndex])
  /\ aloneWriteIndex' = AloneSuccessor(aloneWriteIndex)
  /\ UNCHANGED <<imageVars, writerVars, drainVars, mishaps, aloneMishaps>>

(* An access beyond both arrays: it ends the thread or writes something    *)
(* that is no frame, and the index grows on.  Every index beyond the ring  *)
(* is represented by BUFFLEN + 1.                                          *)
WriteOutside ==
  /\ wpc = "awrite" /\ aloneWriteIndex >= BUFFLEN
  /\ wpc' \in {"drain", "dead"}
  /\ aloneMishaps' = aloneMishaps \cup {"outside"}
  /\ UNCHANGED <<imageVars, aloneWrite, writerVars, drainVars, mishaps>>

(* the first conjunct of the end-of-session test *)
CheckSynced ==
  /\ wpc = "drain"
  /\ wpc' = IF writeIndex = saveIndex THEN "drainAlone" ELSE "loop"
  /\ UNCHANGED <<imageVars, aloneWrite, writerVars, drainVars, mishaps, aloneMishaps>>

Drained == aloneWriteIndex = aloneSaveIndex /\ ~writeFinsih

(* stopCheck == 5: the numbering of the files starts again *)
FinishSession ==
  /\ wpc = "drainAlone" /\ Drained /\ stopCheck = StopCheckLimit
  /\ wpc' = "loop"
  /\ savePathIndex' = 0 /\ stopCheck' = 0 /\ writeFinsih' = TRUE
  /\ session' = session + 1
  /\ UNCHANGED <<imageVars, aloneWrite, writerVars, quiet, mishaps, aloneMishaps>>

(* mutant of SleepOnce: the idle pass is not counted *)
SleepOnceUncounted ==
  /\ wpc = "drainAlone" /\ Drained /\ stopCheck # StopCheckLimit
  /\ wpc' = "loop"
  /\ UNCHANGED <<imageVars, aloneWrite, writerVars, drainVars, mishaps, aloneMishaps>>

(* stopCheck += 1; Sleep(100) *)
SleepOnce ==
  /\ wpc = "drainAlone" /\ Drained /\ stopCheck # StopCheckLimit
  /\ wpc' = "loop"
  /\ stopCheck' = stopCheck + 1
  /\ quiet' = IF quiet < StopCheckLimit THEN quiet + 1 ELSE quiet
  /\ UNCHANGED <<imageVars, aloneWrite, writerVars, savePathIndex, writeFinsih, session,
                 mishaps, aloneMishaps>>

(* mutant of NotDrained: the test for the end is a loop of its own *)
NotDrainedSpins ==
  /\ wpc = "drainAlone" /\ ~Drained
  /\ UNCHANGED wpc
  /\ UNCHANGED <<imageVars, aloneWrite, writerVars, drainVars, mishaps, aloneMishaps>>

NotDrained ==
  /\ wpc = "drainAlone" /\ ~Drained
  /\ wpc' = "loop"
  /\ UNCHANGED <<imageVars, aloneWrite, writerVars, drainVars, mishaps, aloneMishaps>>

Writer ==
  /\ \/ WriterExit \/ TakeFrame \/ RereadMode \/ WriteIr \/ WriteDepth \/ WriteCloud
     \/ WriteRgb \/ Advance \/ NoFrameToTake \/ TakeAlone \/ WriteAlone \/ WriteOutside
     \/ CheckSynced \/ FinishSession \/ SleepOnce \/ NotDrained
  /\ UNCHANGED <<guiVars, producerVars, aloneStore>>

-------------------------------------------------------------------------------
(* The GUI thread, through imageReader's slots.  releaseDateSaver is called *)
(* at the very end of the program, by the destructor of the main window.   *)

(* The path is assigned before the mode; two calls of this action show the *)
(* writer the state in between.  The save dialog sends the modes 3 and 4.  *)
SetSavePathAndMode ==
  /\ ~quitProgramm /\ Within(produced, aloneProduced, changes + 1)
  /\ savePath' \in Paths /\ saveMode' \in {3, 4}
  /\ changes' = changes + 1
  /\ UNCHANGED <<quitProgramm, producerVars, imageVars, aloneStore, aloneWrite, writerVars,
                 drainVars, wpc, mishaps, aloneMishaps>>

ReleaseDateSaver ==
  /\ ~quitProgramm
  /\ quitProgramm' = TRUE
  /\ UNCHANGED <<savePath, saveMode, changes, producerVars, imageVars, aloneStore, aloneWrite,
                 writerVars, drainVars, wpc, mishaps, aloneMishaps>>

Next == Producer \/ Writer \/ SetSavePathAndMode \/ ReleaseDateSaver

Spec == Init /\ [][Next]_vars

(* The writer is a thread that never waits for anything, and a producer    *)
(* inside a function leaves it.  Nobody has to hand in frames, to change   *)
(* the settings or to close the program.                                   *)
Fairness == WF_vars(Writer) /\ WF_vars(ppc # "idle" /\ Producer)

FairSpec == Spec /\ Fairness

-------------------------------------------------------------------------------
(* Properties *)

Copying  == {"ir", "rgb", "depth", "bump"}             \* producer in a slot
Encoding == {"ir", "depth", "cloud", "rgb"}            \* writer in a slot
Holding  == Encoding \cup {"mode", "next"}             \* writer has a frame

Shots == [mode : {0, 3, 4}, session : Nat, name : Nat \cup {NoFrame},
          ir : Nat \cup {NoFrame}, depth : Nat \cup {NoFrame},
          cloud : Nat \cup {NoFrame}, rgb : Nat \cup {NoFrame}, paths : SUBSET Paths]

(* The fields keep the ranges the code relies on: the cursors of the       *)
(* synced ring index its arrays, and saveIndex is BUFFLEN only between the *)
(* increment and the reset (datasaver.cpp:45-48).                          *)
TypeOK ==
  /\ saveIndex \in 0 .. BUFFLEN /\ writeIndex \in Slots
  /\ saveIndex = BUFFLEN <=> ppc = "wrap"
  /\ irFrameData \in [Slots -> Nat \cup {NoFrame}]
  /\ rgbFrameData \in [Slots -> Nat \cup {NoFrame}]
  /\ depthData \in [Slots -> Nat \cup {NoFrame}]
  /\ irIsColour \in [Slots -> BOOLEAN]
  /\ aloneSaveIndex \in 0 .. BUFFLEN /\ (aloneSaveIndex = BUFFLEN <=> ppc = "awrap")
  /\ aloneWriteIndex \in Slots \cup {BUFFLEN + 1}
  /\ rgbAloneFrameData \in [Slots -> Nat \cup {NoFrame}]
  /\ savePath \in Paths /\ saveMode \in {3, 4} /\ quitProgramm \in BOOLEAN
  /\ savePathIndex \in Nat /\ stopCheck \in 0 .. StopCheckLimit
  /\ writeFinsih \in BOOLEAN
  /\ ppc \in {"idle", "wrap", "abump", "awrap"} \cup Copying
  /\ wpc \in {"loop", "alone", "awrite", "drain", "drainAlone", "exited", "dead"} \cup Holding
  /\ shot \in Shots /\ saved \in Seq(Shots)
  /\ produced \in Nat /\ retired \in Nat
  /\ mishaps \subseteq {"lapped", "stale", "skipped"}
  /\ aloneProduced \in Nat /\ aloneSaved \in Seq(Nat \cup {NoFrame})
  /\ aloneMishaps \subseteq {"lapped", "outside"}
  /\ quiet \in 0 .. StopCheckLimit /\ session \in Nat /\ changes \in Nat

Undisturbed == mishaps = {}

Whole(s, f) ==
  /\ s.ir = f /\ s.depth = f /\ s.rgb = f
  /\ s.cloud = IF s.mode = 4 THEN f ELSE NoFrame

(* While the producer was never a whole ring ahead, the writer never took  *)
(* a slot twice and no mode change fell between the two tests of saveMode: *)
(* the files on disk are exactly the frames the writer is done with, in    *)
(* the order they were handed in, and no file of a frame shows another     *)
(* frame (datasaver.cpp:36-50 against 93-190, without a lock).             *)
InOrderIntact ==
  Undisturbed => /\ Len(saved) = retired
                 /\ \A i \in 1 .. Len(saved) : Whole(saved[i], i - 1)

(* The writer's test for work is a comparison of two cursors it shares     *)
(* with the producer.  It answers yes exactly if a complete frame is       *)
(* waiting, except while saveIndex is being wrapped.                       *)
EmptinessTestExact ==
  Undisturbed /\ ppc # "wrap" => (writeIndex # saveIndex <=> retired < produced)

(* The producer never copies into the slot the writer is encoding.         *)
NoConcurrentSlotAccess ==
  Undisturbed /\ ppc \in Copying /\ wpc \in Encoding => saveIndex # writeIndex

(* No file overwrites another one written since the numbering started.     *)
NamesUniqueInSession ==
  \A i, j \in 1 .. Len(saved) :
    i < j /\ saved[i].session = saved[j].session => saved[i].name < saved[j].name

(* checkReady answers yes only when the next frame will be numbered 0 and  *)
(* the idle passes are counted from the beginning.                         *)
ReadyMeansFresh == writeFinsih => savePathIndex = 0 /\ stopCheck = 0

(* The numbering starts again only after StopCheckLimit sleeps in which no *)
(* synced frame was taken, and never while a taken frame is being written. *)
RestartNeedsQuiet ==
  [][savePathIndex' < savePathIndex => quiet = StopCheckLimit /\ wpc \notin Holding]_vars

(* RGB-only pictures are written in the order they were handed in, each    *)
(* with its own content, until the writer's cursor leaves the ring.        *)
AloneInOrder ==
  aloneMishaps = {} => /\ Len(aloneSaved) <= aloneProduced
                       /\ \A i \in 1 .. Len(aloneSaved) : aloneSaved[i] = i - 1

(* The ring of RGB-only pictures is written once: at its end the cursor    *)
(* jumps over the first slot beyond and never comes back, so no more       *)
(* pictures than it has slots are ever on disk, and a saver that is not    *)
(* ready by then never is again (datasaver.cpp:193-202).                   *)
AloneOneRing ==
  /\ [](Len(aloneSaved) <= BUFFLEN)
  /\ [][aloneWriteIndex >= BUFFLEN => UNCHANGED aloneWrite /\ (writeFinsih' => writeFinsih)]_vars

Stopped == wpc \in {"exited", "dead"}

(* Every frame handed in gets written, however the threads are scheduled,  *)
(* unless the ring was misused or the writer ended.                        *)
EventuallySaved ==
  \A n \in UNION {1 .. load.frames : load \in Loads} :
    produced = n ~> (Len(saved) >= n \/ mishaps # {} \/ Stopped)

(* When nothing more is handed in the writer declares itself ready again,  *)
(* whatever happened to the synced ring, unless it ended or its cursor of  *)
(* the other ring got lost.                                                *)
EventuallyReady == <>[](writeFinsih \/ Stopped \/ "outside" \in aloneMishaps
                         \/ "lapped" \in aloneMishaps)

(* Claim of datasaver.h:19 ("pass in a single RGB picture to be saved"):   *)
(* what storeAloneRGBData is given ends up on disk, as long as the writer   *)
(* lives and the producer is never a ring ahead.                           *)
EveryAloneSaved ==
  \A n \in UNION {1 .. load.alone : load \in Loads} :
    aloneProduced = n ~> (Len(aloneSaved) >= n \/ Stopped \/ "lapped" \in aloneMishaps)

(* A change of the directory while recording spreads the files of at most  *)
(* one frame over two directories: savePath is read once per file.         *)
SplitFramesBounded ==
  Cardinality({i \in 1 .. Len(saved) : Cardinality(saved[i].paths) > 1}) <= changes

-------------------------------------------------------------------------------
(* The inductive invariant behind InOrderIntact, EmptinessTestExact and    *)
(* NoConcurrentSlotAccess.                                                 *)

(* the slot k places after the one the writer is at *)
Slot(k) == IF writeIndex + k < BUFFLEN THEN writeIndex + k ELSE writeIndex + k - BUFFLEN

(* the slot the producer will fill next: as many places after the writer's *)
(* as there are frames waiting, and fewer than a whole ring                *)
CursorsCount ==
  /\ retired <= produced /\ produced - retired < BUFFLEN
  /\ Slot(produced - retired) = IF saveIndex = BUFFLEN THEN 0 ELSE saveIndex

(* the slots in between hold the frames waiting, in order; only the IR     *)
(* picture of the frame being encoded is grey                              *)
WaitingIntact ==
  \A k \in 0 .. BUFFLEN - 1 :
    k < produced - retired =>
      /\ irFrameData[Slot(k)] = retired + k
      /\ rgbFrameData[Slot(k)] = retired + k
      /\ depthData[Slot(k)] = retired + k
      /\ irIsColour[Slot(k)] \/ (k = 0 /\ wpc \in {"depth", "cloud", "rgb", "next", "dead"})

(* what the producer has copied of the frame it is handing in *)
CopiedSoFar ==
  /\ ppc \in {"rgb", "depth", "bump"} => /\ irFrameData[saveIndex] = produced
                                        /\ irIsColour[saveIndex]
  /\ ppc \in {"depth", "bump"} => rgbFrameData[saveIndex] = produced
  /\ ppc = "bump" => depthData[saveIndex] = produced

(* what the writer has written of the frame it holds *)
WrittenSoFar ==
  /\ wpc \in Holding => retired < produced
  /\ wpc \in Encoding \cup {"next"} => shot.mode \in {3, 4}
  /\ wpc = "cloud" => shot.mode = 4
  /\ wpc \in {"depth", "cloud", "rgb", "next"} => shot.ir = retired
  /\ wpc \in {"cloud", "rgb", "next"} => shot.depth = retired
  /\ wpc \in {"mode", "ir", "depth", "cloud"} => shot.cloud = NoFrame
  /\ wpc \in {"rgb", "next"} =>
       shot.cloud = IF shot.mode = 4 THEN retired ELSE NoFrame
  /\ wpc = "next" => shot.rgb = retired

(* As long as nothing went wrong, the cursors count the frames waiting and *)
(* every picture in the slots between them, in the frame being handed in   *)
(* and in the files written so far is the right one.                       *)
RingInv ==
  Undisturbed => /\ CursorsCount
                 /\ WaitingIntact
                 /\ CopiedSoFar
                 /\ WrittenSoFar
                 /\ Len(saved) = retired
                 /\ \A i \in 1 .. Len(saved) : Whole(saved[i], i - 1)

(* The inductive invariant behind NamesUniqueInSession: the files written  *)
(* in this session have smaller numbers than the next one will get, and    *)
(* the frame being written has that next number.                           *)
NamesInv ==
  /\ NamesUniqueInSession
  /\ wpc \in Holding => shot.session = session /\ shot.name = savePathIndex
  /\ \A i \in 1 .. Len(saved) :
       /\ saved[i].session <= session
       /\ saved[i].session = session => saved[i].name < savePathIndex

(* The place of RGB-only picture n among the first two rounds of its ring. *)
AloneSlot(n) == IF n < BUFFLEN THEN n ELSE n - BUFFLEN

(* The inductive invariant behind AloneInOrder: the writer has written one *)
(* ring of pictures at most, its cursor is their number until it jumps out *)
(* of the ring, and the pictures not yet written are all still there.      *)
AloneInv ==
  aloneMishaps = {} =>
    LET written == Len(aloneSaved) IN
    /\ written <= aloneProduced /\ aloneProduced - written < BUFFLEN
    /\ written <= BUFFLEN
    /\ aloneWriteIndex = IF written < BUFFLEN THEN written ELSE BUFFLEN + 1
    /\ AloneSlot(aloneProduced) = IF aloneSaveIndex = BUFFLEN THEN 0 ELSE aloneSaveIndex
    /\ ppc = "awrap" => aloneProduced = BUFFLEN
    /\ ppc = "abump" => rgbAloneFrameData[aloneSaveIndex] = aloneProduced
    /\ wpc = "awrite" /\ written < BUFFLEN => written < aloneProduced
    /\ \A n \in written .. aloneProduced - 1 : rgbAloneFrameData[AloneSlot(n)] = n
    /\ \A i \in 1 .. written : aloneSaved[i] = i - 1

-------------------------------------------------------------------------------
(* The frame store this implements.  A slot counts as the frame whose      *)
(* three pictures it holds.                                                *)

Content(i) == IF irFrameData[i] = depthData[i] /\ rgbFrameData[i] = depthData[i]
              THEN depthData[i] ELSE NoFrame
FrameOf(s) == IF s.ir = s.depth /\ s.rgb = s.depth THEN s.depth ELSE NoFrame

Store == INSTANCE FrameStore WITH
  Capacity <- BUFFLEN, SettingsMayChange <- SettingsChange,
  pending  <- IF Undisturbed THEN [k \in 1 .. produced - retired |-> Content(Slot(k - 1))]
              ELSE <<>>,
  saved    <- IF Undisturbed THEN [i \in 1 .. Len(saved) |-> FrameOf(saved[i])] ELSE <<>>,
  next     <- IF Undisturbed THEN produced ELSE 0,
  broken   <- ~Undisturbed

(* The two rings cursors and their six unsynchronised steps are a FIFO     *)
(* that breaks only when overrun or misread.                               *)
ImplementsFrameStore == Store!Spec
===============================================================================
