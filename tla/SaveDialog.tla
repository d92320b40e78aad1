------------------------------ MODULE SaveDialog -------------------------------
(***************************************************************************)
(* saveDialog.cpp with the slots of imagereader.cpp it calls, composed     *)
(* with the recording and the saver: where the files of a recording go.    *)
(*                                                                         *)
(* The saver is the FIFO that DataSaver implements, between overruns; its  *)
(* writer still writes a frame file by file and reads the directory anew   *)
(* for each.  A file is its place, its number and the frame it shows.      *)
(***************************************************************************)
EXTENDS Integers, Sequences

CONSTANTS
  Paths,      \* directories the user can enter; names that survive the conversion to
              \* GB2312 and the local code page (saveDialog.cpp:31-34, datasaver.cpp:27)
  NoPath,     \* any text that is none, "" to begin with
  Here, Data, \* "." and "./data", the saver's and the reader's first directory
  MaxFrames,  \* bound on the frames handed in
  MaxClicks   \* bound on what the user does

ASSUME PathsAssumption == NoPath \notin Paths /\ Here \notin Paths /\ Data \notin Paths
ASSUME BoundsAssumption == MaxFrames \in Nat /\ MaxClicks \in Nat

VARIABLES
  pathText, box3, box4, readyToSave, dialogOpen,  \* the dialog
  gpc, todo,                  \* the GUI thread in a slot, the directories left to treat
  savepth, save_mode,         \* imageReader
  isRunning, isGoingToSaveData, limited, inHand,
  savePath, saveMode,         \* dataSaver
  ring, aloneRing, wpc, frame, savePathIndex, writeFinsih,
  dirs, disk,                 \* directories that exist, files in them
  (* history *)
  checked,    \* a path was entered since the program started
  clean,      \* the start button was pressed with a path and a mode chosen, and
              \* nothing in the dialog was changed since
  pressed,    \* frames retired when the start button was pressed
  since,      \* the first frame taken since the recording was started with it and
              \* since the numbers of the files started again
  produced, clicks

dialog   == <<pathText, box3, box4, readyToSave, dialogOpen, checked, clean, pressed>>
slot     == <<gpc, todo>>
settings == <<savepth, save_mode, savePath, saveMode>>
control  == <<isRunning, isGoingToSaveData, limited>>
worker   == <<inHand, aloneRing, produced>>
writer   == <<wpc, frame, savePathIndex, writeFinsih>>
files    == <<dirs, disk>>
vars == <<dialog, slot, settings, control, worker, writer, ring, files, since, clicks>>

Retired == produced - Len(ring)   \* frames the writer is done with

Places  == Paths \cup {NoPath, Here, Data}
Subdirs == {"ir", "depth", "rgb", "rgb-alone", "pointcloud"}
NoFrame == [id |-> -1, mode |-> 3]

(* mutant of Made: the directory that only mode 4 needs is forgotten *)
MadeAlike(mode) == <<"rgb", "ir", "depth", "rgb-alone">>

(* what saveBtnSlot removes, and what it makes, in its order *)
Removed == <<"rgb", "ir", "depth", "rgb-alone", "pointcloud">>
Made(mode) == <<"rgb", "ir", "depth", IF mode = 3 THEN "rgb-alone" ELSE "pointcloud">>

(* the program as started; directories may be there from an earlier time *)
Init ==
  /\ pathText = NoPath /\ box3 = FALSE /\ box4 = FALSE /\ readyToSave = TRUE
  /\ dialogOpen = FALSE /\ gpc = "idle" /\ todo = <<>>
  /\ savepth = Data /\ save_mode = 3 /\ savePath = Here /\ saveMode = 3
  /\ isRunning = FALSE /\ isGoingToSaveData = FALSE /\ limited = FALSE /\ inHand = FALSE
  /\ ring = <<>> /\ aloneRing = 0 /\ wpc = "loop" /\ frame = NoFrame
  /\ savePathIndex = 0 /\ writeFinsih = TRUE
  /\ dirs \in [Places -> {{}, {"rgb", "ir", "depth", "pointcloud"}}] /\ disk = {}
  /\ \A place \in {NoPath, Here, Data} : dirs[place] = {}
  /\ checked = FALSE /\ clean = FALSE /\ pressed = 0 /\ since = 0
  /\ produced = 0 /\ clicks = 0

-------------------------------------------------------------------------------
(* The user, and the slots that change no file.  What the other threads    *)
(* own is left alone by all of it; that is a conjunct of User.             *)

(* run(int), once the camera is open.  The dialog has no parent: while it  *)
(* is open the main window can be used all the same.                       *)
Run ==
  /\ isRunning' = ~isRunning
  /\ UNCHANGED <<dialog, slot, settings, isGoingToSaveData, limited>>

(* saveDataSlot(n); SaveSession has its steps *)
SaveDataSlot(n) ==
  IF isRunning
  THEN isGoingToSaveData' = TRUE /\ limited' = (n # 0) /\ UNCHANGED isRunning
  ELSE UNCHANGED control

(* saveSlot0: a recording without limit is started, then the dialog opens *)
OpenDialog ==
  /\ dialogOpen' = TRUE
  /\ SaveDataSlot(0)
  /\ UNCHANGED <<pathText, box3, box4, readyToSave, checked, clean, pressed, slot, settings>>

CloseDialog ==
  /\ dialogOpen /\ dialogOpen' = FALSE
  /\ UNCHANGED <<pathText, box3, box4, readyToSave, checked, clean, pressed, slot, settings, control>>

(* savePathSlot, saveModeSetSlot: both send path and mode on to the saver *)
SavePathSlot(path) ==
  savepth' = path /\ savePath' = path /\ saveMode' = save_mode /\ UNCHANGED save_mode
SaveModeSetSlot(mode) ==
  save_mode' = mode /\ savePath' = savepth /\ saveMode' = mode /\ UNCHANGED savepth

(* savePathBtnSlot, which sets the text itself, and savePathCheckSlot *)
EditPath(text) ==
  /\ dialogOpen
  /\ pathText' = text /\ readyToSave' = (text \in Paths)
  /\ IF text \in Paths THEN SavePathSlot(text) ELSE UNCHANGED settings
  /\ checked' = TRUE /\ clean' = FALSE
  /\ UNCHANGED <<box3, box4, dialogOpen, pressed, slot, control>>

(* chooseModeThree and chooseModeFour.  To clear the other box calls the   *)
(* other slot, which sends its own mode first.  A box that is switched off *)
(* sends its mode as well.                                                 *)
ChooseMode(mode, mine, other) ==
  /\ dialogOpen /\ clean' = FALSE
  /\ IF ~mine /\ other
     THEN SaveModeSetSlot(7 - mode) /\ gpc' = (IF mode = 3 THEN "send3" ELSE "send4")
     ELSE SaveModeSetSlot(mode) /\ UNCHANGED gpc
  /\ UNCHANGED <<pathText, readyToSave, dialogOpen, checked, pressed, todo, control>>

ChooseModeThree == box3' = ~box3 /\ box4' = (box4 /\ box3) /\ ChooseMode(3, box3, box4)
ChooseModeFour  == box4' = ~box4 /\ box3' = (box3 /\ box4) /\ ChooseMode(4, box4, box3)

StopBtnSlot ==
  /\ dialogOpen
  /\ isGoingToSaveData' = FALSE
  /\ UNCHANGED <<dialog, slot, settings, isRunning, limited>>

(* saveBtnSlot, when it does anything *)
SaveBtnSlot ==
  /\ dialogOpen /\ readyToSave
  /\ gpc' = "empty" /\ todo' = Removed
  /\ clean' = FALSE /\ pressed' = Retired
  /\ UNCHANGED <<pathText, box3, box4, readyToSave, dialogOpen, checked, settings, control>>

User ==
  /\ gpc = "idle" /\ clicks < MaxClicks /\ clicks' = clicks + 1
  /\ \/ Run \/ OpenDialog \/ CloseDialog \/ \E text \in Paths \cup {NoPath} : EditPath(text)
     \/ ChooseModeThree \/ ChooseModeFour \/ StopBtnSlot \/ SaveBtnSlot
  /\ UNCHANGED <<worker, writer, ring, files, since>>

-------------------------------------------------------------------------------
(* The slots, going on.  saveBtnSlot removes and makes the directories one *)
(* by one, then starts the recording.                                      *)

(* mutant of SendOwnMode: it is left to the slot called in between *)
SendOwnModeForgotten ==
  /\ gpc \in {"send3", "send4"} /\ gpc' = "idle"
  /\ UNCHANGED <<dialog, todo, settings, control, files>>

SendOwnMode ==
  /\ gpc \in {"send3", "send4"} /\ gpc' = "idle"
  /\ SaveModeSetSlot(IF gpc = "send3" THEN 3 ELSE 4)
  /\ UNCHANGED <<dialog, todo, control, files>>

(* mutant of EmptyDir: the directory alone is removed, if it can be *)
EmptyDirSkipped ==
  /\ gpc = "empty" /\ gpc' = "rmdir"
  /\ UNCHANGED <<dialog, todo, settings, control, files>>

(* removeRecursively removes the files, and then the directory, unless the *)
(* writer has put another file into it meanwhile                           *)
EmptyDir ==
  /\ gpc = "empty" /\ gpc' = "rmdir"
  /\ disk' = {f \in disk : f.place # pathText \/ f.sub # Head(todo)}
  /\ UNCHANGED <<dialog, todo, settings, control, dirs>>

(* mutant of RemoveDir: one directory too many *)
RemoveDirAndOneMore ==
  /\ gpc = "rmdir" /\ gpc' = "empty" /\ todo' = Tail(todo)
  /\ dirs' = [dirs EXCEPT ![pathText] = @ \ {Head(todo)}]
  /\ UNCHANGED <<dialog, settings, control, disk>>

RemoveDir ==
  /\ gpc = "rmdir"
  /\ dirs' = IF \E f \in disk : f.place = pathText /\ f.sub = Head(todo) THEN dirs
             ELSE [dirs EXCEPT ![pathText] = @ \ {Head(todo)}]
  /\ IF Len(todo) > 1
     THEN gpc' = "empty" /\ todo' = Tail(todo)
     ELSE /\ gpc' = "make"
          /\ todo' = IF box3 THEN Made(3) ELSE IF box4 THEN Made(4) ELSE <<>>
  /\ UNCHANGED <<dialog, settings, control, disk>>

(* mkdir, which fails without a word below a text that is no directory *)
MakeDir ==
  /\ gpc = "make" /\ todo # <<>> /\ todo' = Tail(todo)
  /\ dirs' = IF pathText \in Paths THEN [dirs EXCEPT ![pathText] = @ \cup {Head(todo)}] ELSE dirs
  /\ UNCHANGED <<dialog, gpc, settings, control, disk>>

SendSaveStart(n) ==
  /\ gpc = "make" /\ todo = <<>> /\ gpc' = "idle"
  /\ SaveDataSlot(n)
  /\ clean' = (checked /\ (box3 \/ box4))
  /\ since' = IF wpc = "loop" THEN Retired ELSE Retired + 1
  /\ UNCHANGED <<pathText, box3, box4, readyToSave, dialogOpen, checked, pressed, todo, settings,
                 files>>

Slots ==
  /\ \/ (SendOwnMode \/ EmptyDir \/ RemoveDir \/ MakeDir) /\ UNCHANGED since
     \/ \E n \in {0, 1} : SendSaveStart(n)
  /\ UNCHANGED <<worker, writer, ring, clicks>>

-------------------------------------------------------------------------------
(* The frame thread; SaveSession has its counting *)

(* the tests of isRunning and isGoingToSaveData, and of the limit *)
TestSaving ==
  /\ isRunning /\ isGoingToSaveData /\ ~inHand
  /\ inHand' = TRUE
  /\ \/ UNCHANGED isGoingToSaveData
     \/ limited /\ isGoingToSaveData' = FALSE
  /\ UNCHANGED <<isRunning, limited, aloneRing, produced, ring>>

StoreData ==
  /\ inHand /\ inHand' = FALSE /\ produced < MaxFrames
  /\ ring' = Append(ring, produced) /\ produced' = produced + 1
  /\ UNCHANGED <<control, aloneRing>>

StoreAloneRGBData ==
  /\ inHand /\ inHand' = FALSE /\ aloneRing < 1
  /\ aloneRing' = aloneRing + 1
  /\ UNCHANGED <<control, produced, ring>>

Worker ==
  /\ TestSaving \/ StoreData \/ StoreAloneRGBData
  /\ UNCHANGED <<dialog, slot, settings, writer, files, since, clicks>>

-------------------------------------------------------------------------------
(* The writer *)

(* DataSaver has the two reads of the mode apart *)
TakeFrame ==
  /\ wpc = "loop" /\ ring # <<>>
  /\ wpc' = "ir" /\ frame' = [id |-> Head(ring), mode |-> saveMode] /\ writeFinsih' = FALSE
  /\ UNCHANGED <<savePathIndex, aloneRing, ring, disk>>

(* imwrite and fopen: a file replaces the one of the same name, and is     *)
(* not written where the directory is missing, which only the point cloud  *)
(* does not survive                                                        *)
WriteFile(sub, next) ==
  /\ wpc = sub
  /\ IF sub \in dirs[savePath]
     THEN /\ disk' = {f \in disk : f.place # savePath \/ f.sub # sub \/ f.name # savePathIndex}
                       \cup {[place |-> savePath, sub |-> sub, name |-> savePathIndex,
                              frame |-> frame.id]}
          /\ wpc' = next
     ELSE wpc' = (IF sub = "pointcloud" THEN "dead" ELSE next) /\ UNCHANGED disk

(* mutant of WriteDepth: no file follows it but the colour picture *)
WriteDepthThenRgb == WriteFile("depth", "rgb")

WriteIr    == WriteFile("ir", "depth")
WriteDepth == WriteFile("depth", IF frame.mode = 4 THEN "pointcloud" ELSE "rgb")
WriteCloud == WriteFile("pointcloud", "rgb")
WriteSome  == (WriteIr \/ WriteDepth \/ WriteCloud)
              /\ UNCHANGED <<frame, savePathIndex, writeFinsih, aloneRing, ring>>

(* the last file of a frame, and the cursors; nobody reads them in between *)
WriteRgb ==
  /\ WriteFile("rgb", "loop")
  /\ savePathIndex' = savePathIndex + 1 /\ ring' = Tail(ring) /\ frame' = NoFrame
  /\ UNCHANGED <<writeFinsih, aloneRing>>

(* an RGB-only picture, which is named by its time stamp and does not meet *)
(* another file                                                            *)
WriteAlone ==
  /\ wpc = "loop" /\ aloneRing > 0
  /\ aloneRing' = aloneRing - 1 /\ writeFinsih' = FALSE
  /\ UNCHANGED <<wpc, frame, savePathIndex, ring, disk>>

(* no frame for half a second, be it between two recordings or within one: *)
(* the numbers start again                                                 *)
FinishSession ==
  /\ wpc = "loop" /\ ring = <<>> /\ aloneRing = 0 /\ ~writeFinsih
  /\ savePathIndex' = 0 /\ writeFinsih' = TRUE /\ since' = Retired
  /\ UNCHANGED <<wpc, frame, aloneRing, ring, disk>>

Writer ==
  /\ \/ (TakeFrame \/ WriteSome \/ WriteRgb \/ WriteAlone) /\ UNCHANGED since
     \/ FinishSession
  /\ UNCHANGED <<dialog, slot, settings, control, inHand, produced, dirs, clicks>>

Next == User \/ Slots \/ Worker \/ Writer

Spec == Init /\ [][Next]_vars

-------------------------------------------------------------------------------
(* Properties *)

TypeOK ==
  /\ pathText \in Paths \cup {NoPath} /\ savepth \in Paths \cup {Data}
  /\ savePath \in Paths \cup {Here, Data}
  /\ box3 \in BOOLEAN /\ box4 \in BOOLEAN /\ readyToSave \in BOOLEAN /\ dialogOpen \in BOOLEAN
  /\ gpc \in {"idle", "send3", "send4", "empty", "rmdir", "make"} /\ todo \in Seq(Subdirs)
  /\ gpc \in {"empty", "rmdir"} => todo # <<>>
  /\ save_mode \in {3, 4} /\ saveMode \in {3, 4}
  /\ isRunning \in BOOLEAN /\ isGoingToSaveData \in BOOLEAN /\ limited \in BOOLEAN
  /\ inHand \in BOOLEAN /\ ring \in Seq(Nat) /\ aloneRing \in 0 .. 1
  /\ wpc \in {"loop", "ir", "depth", "pointcloud", "rgb", "dead"}
  /\ frame \in [id : Nat \cup {-1}, mode : {3, 4}]
  /\ savePathIndex \in Nat /\ writeFinsih \in BOOLEAN
  /\ dirs \in [Places -> SUBSET Subdirs]
  /\ disk \subseteq [place : Places, sub : Subdirs, name : Nat, frame : Nat]
  /\ checked \in BOOLEAN /\ clean \in BOOLEAN
  /\ pressed \in Nat /\ since \in Nat
  /\ produced \in Nat /\ clicks \in Nat

(* The box that is checked is the only one and its mode is the saver's,    *)
(* though each box clears the other, which sends another mode in between   *)
(* (saveDialog.cpp:107-121).  Once a path was entered, the saver writes to *)
(* the one shown whenever the start button works (38-55).                  *)
SaverDoesWhatIsShown ==
  /\ ~(box3 /\ box4)
  /\ gpc \notin {"send3", "send4"} => (box3 => saveMode = 3) /\ (box4 => saveMode = 4)
  /\ checked /\ readyToSave => savePath = pathText

(* After a start with the button, and as long as the dialog is not changed *)
(* again, the writer finds every directory it writes into, whatever it was *)
(* doing when they were removed; but for RGB-only pictures in mode 4 and   *)
(* the rest of a frame it took under another mode (saveDialog.cpp:53-95,   *)
(* datasaver.cpp:96-198).                                                  *)
FoundAfterButton ==
  clean => /\ wpc \in Subdirs /\ frame.mode = saveMode => wpc \in dirs[savePath]
           /\ saveMode = 3 => "rgb-alone" \in dirs[savePath]

(* After such a start there are no files in the directory but those of     *)
(* frames that were not finished when the button was pressed, though the   *)
(* writer goes on while the directories are removed (saveDialog.cpp:66-76).*)
DirectoryStartsEmpty ==
  clean => \A f \in disk : f.place = savePath => f.frame >= pressed

(* the files of a frame, and the one of frame n in a directory, whose      *)
(* number counts from where the numbers started                            *)
Needed(mode) == {"ir", "depth", "rgb"} \cup (IF mode = 4 THEN {"pointcloud"} ELSE {})
FileOf(sub, n) ==
  [place |-> savePath, sub |-> sub, name |-> savePathIndex - (Retired - n), frame |-> n]

(* Every frame the writer has taken since such a start, and since the      *)
(* numbers of the files last started again, has all its files on disk, of  *)
(* one number, though each was written only if its directory was there,    *)
(* and over any file of that number (saveDialog.cpp:53-95,                 *)
(* datasaver.cpp:91-190, 205).                                             *)
SavedSinceStart ==
  clean => \A n \in since .. Retired - 1, sub \in Needed(saveMode) : FileOf(sub, n) \in disk

(* Claim of datasaver.h:17 ("pass in the data to save") and of the label   *)
(* of the start button (savedialog.ui:87), which alone clears directories: *)
(* what was saved stays on disk until that button is pressed.              *)
KeptUntilStart == [][disk \subseteq disk' \/ gpc = "empty"]_vars

(* What is true of it: no file is replaced by that of another frame as     *)
(* long as the numbers of the files have never started again, that is, as  *)
(* long as the number is that of the frame (datasaver.cpp:186, 205).       *)
KeptUntilRestart ==
  [][savePathIndex = Retired => disk \subseteq disk' \/ gpc = "empty"]_vars
===============================================================================
