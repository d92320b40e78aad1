---------------------------- MODULE SaveDialog_proof ----------------------------
(***************************************************************************)
(* Proofs about SaveDialog, for any directories the user can enter and any *)
(* number of clicks and frames.                                            *)
(***************************************************************************)
EXTENDS SaveDialog, TLAPS

(* The inductive invariant behind SaverDoesWhatIsShown: reader and saver   *)
(* agree on the mode, and while a slot is about to send its own mode its   *)
(* box is the one checked.                                                 *)
ShownInv ==
  /\ SaverDoesWhatIsShown
  /\ saveMode = save_mode
  /\ gpc \in {"idle", "send3", "send4", "empty", "rmdir", "make"}
  /\ gpc = "send3" => box3
  /\ gpc = "send4" => box4
  /\ checked /\ readyToSave => savepth = pathText /\ pathText \in Paths

(* The program starts with no box checked and no path entered.             *)
LEMMA InitShown == Init => ShownInv
  BY DEF Init, ShownInv, SaverDoesWhatIsShown

(* Each slot keeps the invariant; the other threads change nothing of it.  *)
LEMMA NextShown == ShownInv /\ [Next]_vars => ShownInv'
<1> SUFFICES ASSUME ShownInv, [Next]_vars PROVE ShownInv'
  OBVIOUS
<1> USE DEF ShownInv, SaverDoesWhatIsShown
<1>1. ASSUME UNCHANGED <<dialog, slot, settings>> PROVE ShownInv'
  BY <1>1 DEF dialog, slot, settings
<1>2. CASE User
  <2>1. gpc = "idle"
    BY <1>2 DEF User
  <2>2. CASE Run \/ StopBtnSlot
    BY <1>1, <2>2 DEF Run, StopBtnSlot
  <2>3. CASE OpenDialog \/ CloseDialog
    BY <2>3 DEF OpenDialog, CloseDialog, slot, settings
  <2>4. ASSUME NEW text \in Paths \cup {NoPath}, EditPath(text) PROVE ShownInv'
    BY <2>1, <2>4 DEF EditPath, SavePathSlot, slot, settings
  <2>5. CASE ChooseModeThree
    <3>1. savePath' = savepth /\ UNCHANGED <<savepth, pathText, readyToSave, checked>>
      BY <2>5 DEF ChooseModeThree, ChooseMode, SaveModeSetSlot
    <3>2. box3' = ~box3 /\ box4' = (box4 /\ box3)
      BY <2>5 DEF ChooseModeThree
    <3>3. CASE ~box3 /\ box4
      <4>1. saveMode' = save_mode' /\ gpc' = "send3"
        BY <2>5, <3>3 DEF ChooseModeThree, ChooseMode, SaveModeSetSlot
      <4>2. box3' /\ ~box4'
        BY <3>2, <3>3, Zenon
      <4> QED
        BY <2>1, <3>1, <4>1, <4>2
    <3>4. CASE box3 \/ ~box4
      <4>1. saveMode' = 3 /\ save_mode' = 3 /\ gpc' = gpc
        BY <2>5, <3>4 DEF ChooseModeThree, ChooseMode, SaveModeSetSlot
      <4> QED
        BY <2>1, <3>1, <3>2, <3>4, <4>1
    <3> QED
      BY <3>3, <3>4
  <2>6. CASE ChooseModeFour
    <3>1. savePath' = savepth /\ UNCHANGED <<savepth, pathText, readyToSave, checked>>
      BY <2>6 DEF ChooseModeFour, ChooseMode, SaveModeSetSlot
    <3>2. box4' = ~box4 /\ box3' = (box3 /\ box4)
      BY <2>6 DEF ChooseModeFour
    <3>3. CASE ~box4 /\ box3
      <4>1. saveMode' = save_mode' /\ gpc' = "send4"
        BY <2>6, <3>3 DEF ChooseModeFour, ChooseMode, SaveModeSetSlot
      <4>2. box4' /\ ~box3'
        BY <3>2, <3>3, Zenon
      <4> QED
        BY <2>1, <3>1, <4>1, <4>2
    <3>4. CASE box4 \/ ~box3
      <4>1. saveMode' = 4 /\ save_mode' = 4 /\ gpc' = gpc
        BY <2>6, <3>4 DEF ChooseModeFour, ChooseMode, SaveModeSetSlot
      <4> QED
        BY <2>1, <3>1, <3>2, <3>4, <4>1
    <3> QED
      BY <3>3, <3>4
  <2>7. CASE SaveBtnSlot
    BY <2>1, <2>7 DEF SaveBtnSlot, settings
  <2> QED
    BY <1>2, <2>2, <2>3, <2>4, <2>5, <2>6, <2>7 DEF User
<1>3. CASE Slots
  <2>1. CASE SendOwnMode
    BY <2>1 DEF SendOwnMode, SaveModeSetSlot, dialog
  <2>2. CASE EmptyDir \/ RemoveDir \/ MakeDir
    BY <2>2 DEF EmptyDir, RemoveDir, MakeDir, dialog, settings
  <2>3. ASSUME NEW n \in {0, 1}, SendSaveStart(n) PROVE ShownInv'
    BY <2>3 DEF SendSaveStart, settings
  <2> QED
    BY <1>3, <2>1, <2>2, <2>3 DEF Slots
<1>4. CASE Worker \/ Writer \/ UNCHANGED vars
  BY <1>1, <1>4 DEF Worker, Writer, vars
<1> QED
  BY <1>2, <1>3, <1>4 DEF Next

(* SaverDoesWhatIsShown holds of every execution, whatever the user can    *)
(* enter and however often the boxes are clicked.                          *)
THEOREM SaverDoesWhatIsShownCorrect == Spec => []SaverDoesWhatIsShown
<1>1. ShownInv => SaverDoesWhatIsShown
  BY DEF ShownInv
<1> QED
  BY InitShown, NextShown, <1>1, PTL DEF Spec

-------------------------------------------------------------------------------
(* The directories a recording needs, and those of them that exist or are  *)
(* still to be made.                                                       *)
NeededBy(mode) == {"rgb", "ir", "depth", IF mode = 3 THEN "rgb-alone" ELSE "pointcloud"}
ToBeMade(sub) == sub \in dirs[pathText] \/ \E i \in 1 .. Len(todo) : todo[i] = sub

(* The inductive invariant behind FoundAfterButton: while saveBtnSlot      *)
(* makes the directories each one needed exists or is on the list, when it *)
(* is through they all exist, and only mode 4 leads to the point cloud.    *)
FoundInv ==
  /\ ShownInv
  /\ dirs \in [Places -> SUBSET Subdirs] /\ pathText \in Places
  /\ todo \in Seq(Subdirs)
  /\ gpc \in {"empty", "rmdir", "make"} => readyToSave
  /\ gpc = "make" /\ checked /\ box3 => \A sub \in NeededBy(3) : ToBeMade(sub)
  /\ gpc = "make" /\ checked /\ box4 => \A sub \in NeededBy(4) : ToBeMade(sub)
  /\ clean => /\ gpc = "idle" /\ checked /\ readyToSave
              /\ \A sub \in NeededBy(saveMode) : sub \in dirs[pathText]
  /\ wpc \in {"loop", "ir", "depth", "pointcloud", "rgb", "dead"}
  /\ wpc = "pointcloud" => frame.mode = 4

(* What saveBtnSlot removes are directories, and what it makes are those   *)
(* the mode needs.                                                         *)
LEMMA Lists ==
  /\ Removed \in Seq(Subdirs)
  /\ \A mode \in {3, 4} :
       /\ Made(mode) \in Seq(Subdirs)
       /\ \A sub \in NeededBy(mode) : \E i \in 1 .. Len(Made(mode)) : Made(mode)[i] = sub
<1>1. Removed \in Seq(Subdirs)
  BY DEF Removed, Subdirs
<1>2. ASSUME NEW mode \in {3, 4}
      PROVE  /\ Made(mode) \in Seq(Subdirs)
             /\ \A sub \in NeededBy(mode) :
                  \E i \in 1 .. Len(Made(mode)) : Made(mode)[i] = sub
  <2> DEFINE fourth == IF mode = 3 THEN "rgb-alone" ELSE "pointcloud"
  <2>1. /\ Made(mode) \in Seq(Subdirs) /\ Len(Made(mode)) = 4
        /\ Made(mode)[1] = "rgb" /\ Made(mode)[2] = "ir" /\ Made(mode)[3] = "depth"
        /\ Made(mode)[4] = fourth
    BY DEF Made, Subdirs
  <2> QED
    BY <2>1 DEF NeededBy
<1> QED
  BY <1>1, <1>2

(* At the start nothing is removed, made or written.                       *)
LEMMA InitFound == Init => FoundInv
<1> SUFFICES ASSUME Init PROVE FoundInv
  OBVIOUS
<1>1. dirs \in [Places -> SUBSET Subdirs]
  BY DEF Init, Subdirs
<1>2. ShownInv
  BY InitShown
<1> QED
  BY <1>1, <1>2 DEF Init, FoundInv, Places

(* A step that leaves alone what FoundInv speaks of keeps it.              *)
LEMMA FoundKept ==
  ASSUME FoundInv, ShownInv', UNCHANGED <<pathText, readyToSave, box3, box4, checked, clean>>,
         UNCHANGED <<slot, saveMode, dirs, wpc, frame>>
  PROVE  FoundInv'
  BY DEF FoundInv, ToBeMade, NeededBy, slot

(* The dialog's slots that touch no directory keep the invariant.          *)
LEMMA UserFound == FoundInv /\ ShownInv' /\ User => FoundInv'
<1> SUFFICES ASSUME FoundInv, ShownInv', User PROVE FoundInv'
  OBVIOUS
<1>1. gpc = "idle" /\ UNCHANGED <<wpc, frame, dirs>>
  BY DEF User, writer, files
<1>2. CASE Run \/ StopBtnSlot \/ OpenDialog \/ CloseDialog
  BY <1>1, <1>2, FoundKept DEF Run, StopBtnSlot, OpenDialog, CloseDialog, dialog, settings
<1>3. ASSUME NEW text \in Paths \cup {NoPath}, EditPath(text) PROVE FoundInv'
  <2>1. ~clean' /\ pathText' \in Places /\ UNCHANGED <<gpc, todo>>
    BY <1>3 DEF EditPath, Places, slot
  <2> QED
    BY <1>1, <2>1 DEF FoundInv
<1>4. CASE ChooseModeThree \/ ChooseModeFour
  <2>1. /\ ~clean' /\ UNCHANGED <<pathText, todo>>
        /\ gpc' \in {"idle", "send3", "send4"}
    BY <1>1, <1>4 DEF ChooseModeThree, ChooseModeFour, ChooseMode
  <2> QED
    BY <1>1, <2>1 DEF FoundInv
<1>5. CASE SaveBtnSlot
  <2>1. ~clean' /\ gpc' = "empty" /\ todo' = Removed /\ readyToSave' /\ UNCHANGED pathText
    BY <1>5 DEF SaveBtnSlot
  <2> QED
    BY <1>1, <2>1, Lists DEF FoundInv
<1> QED
  BY <1>2, <1>3, <1>4, <1>5 DEF User

(* saveBtnSlot keeps the invariant while it removes and makes directories. *)
LEMMA SlotsFound == FoundInv /\ ShownInv' /\ Slots => FoundInv'
<1> SUFFICES ASSUME FoundInv, ShownInv', Slots PROVE FoundInv'
  OBVIOUS
<1>1. gpc # "idle" /\ ~clean /\ UNCHANGED <<wpc, frame>>
  BY DEF Slots, SendOwnMode, EmptyDir, RemoveDir, MakeDir, SendSaveStart, FoundInv, writer
<1>2. CASE SendOwnMode
  <2>1. gpc' = "idle" /\ ~clean' /\ UNCHANGED <<todo, pathText, dirs>>
    BY <1>1, <1>2 DEF SendOwnMode, dialog, files
  <2> QED
    BY <1>1, <2>1 DEF FoundInv
<1>3. CASE EmptyDir
  <2>1. /\ gpc = "empty" /\ gpc' = "rmdir" /\ ~clean'
        /\ UNCHANGED <<todo, pathText, readyToSave, dirs>>
    BY <1>1, <1>3 DEF EmptyDir, dialog
  <2> QED
    BY <1>1, <2>1 DEF FoundInv
<1>4. CASE RemoveDir
  <2>1. /\ gpc = "rmdir" /\ readyToSave' /\ ~clean'
        /\ UNCHANGED <<pathText, readyToSave, box3, box4, checked>>
    BY <1>1, <1>4 DEF RemoveDir, dialog, FoundInv
  <2>2. dirs' \in [Places -> SUBSET Subdirs]
    BY <1>4 DEF RemoveDir, FoundInv
  <2>3. CASE Len(todo) > 1
    <3>1. gpc' = "empty" /\ todo' = Tail(todo)
      BY <1>4, <2>3 DEF RemoveDir
    <3>2. todo' \in Seq(Subdirs)
      BY <2>3, <3>1 DEF FoundInv
    <3> QED
      BY <1>1, <2>1, <2>2, <3>1, <3>2 DEF FoundInv
  <2>4. CASE ~(Len(todo) > 1)
    <3>1. gpc' = "make" /\ todo' = IF box3 THEN Made(3) ELSE IF box4 THEN Made(4) ELSE <<>>
      BY <1>4, <2>4 DEF RemoveDir
    <3>2. todo' \in Seq(Subdirs)
      BY <3>1, Lists
    <3>3. ASSUME box3 PROVE \A sub \in NeededBy(3) : ToBeMade(sub)'
      BY <3>1, <3>3, Lists DEF ToBeMade
    <3>4. ASSUME box4 PROVE \A sub \in NeededBy(4) : ToBeMade(sub)'
      <4>1. ~box3
        BY <3>4 DEF FoundInv, ShownInv, SaverDoesWhatIsShown
      <4> QED
        BY <3>1, <3>4, <4>1, Lists DEF ToBeMade
    <3> QED
      BY <1>1, <2>1, <2>2, <3>1, <3>2, <3>3, <3>4 DEF FoundInv
  <2> QED
    BY <2>3, <2>4
<1>5. CASE MakeDir
  <2>1. /\ gpc = "make" /\ gpc' = "make" /\ todo # <<>> /\ todo' = Tail(todo) /\ ~clean'
        /\ UNCHANGED <<pathText, readyToSave, box3, box4, checked>>
    BY <1>1, <1>5 DEF MakeDir, dialog
  <2>2. todo \in Seq(Subdirs) /\ readyToSave
    BY <2>1 DEF FoundInv
  <2>3. todo' \in Seq(Subdirs) /\ Head(todo) = todo[1] /\ Head(todo) \in Subdirs
    BY <2>1, <2>2
  <2>4. dirs' \in [Places -> SUBSET Subdirs]
    BY <1>5, <2>3 DEF MakeDir, FoundInv
  <2>5. ASSUME checked, NEW sub, ToBeMade(sub) PROVE ToBeMade(sub)'
    <3>1. pathText \in Paths
      BY <2>2, <2>5 DEF FoundInv, ShownInv
    <3>2. dirs' = [dirs EXCEPT ![pathText] = @ \cup {Head(todo)}]
      BY <1>5, <3>1 DEF MakeDir
    <3>3. dirs'[pathText] = dirs[pathText] \cup {Head(todo)}
      BY <3>2 DEF FoundInv
    <3>4. CASE sub \in dirs[pathText]
      BY <2>1, <3>3, <3>4 DEF ToBeMade
    <3>5. ASSUME NEW i \in 1 .. Len(todo), todo[i] = sub PROVE ToBeMade(sub)'
      <4>1. CASE i = 1
        BY <2>1, <2>3, <3>3, <3>5, <4>1 DEF ToBeMade
      <4>2. CASE i # 1
        <5>1. i - 1 \in 1 .. Len(todo') /\ todo'[i - 1] = sub
          BY <2>1, <2>2, <3>5, <4>2
        <5> QED
          BY <5>1 DEF ToBeMade
      <4> QED
        BY <4>1, <4>2
    <3> QED
      BY <2>5, <3>4, <3>5 DEF ToBeMade
  <2>6. checked' /\ box3' => \A sub \in NeededBy(3) : ToBeMade(sub)'
    BY <2>1, <2>5 DEF FoundInv
  <2>7. checked' /\ box4' => \A sub \in NeededBy(4) : ToBeMade(sub)'
    BY <2>1, <2>5 DEF FoundInv
  <2> QED
    BY <1>1, <2>1, <2>2, <2>3, <2>4, <2>6, <2>7 DEF FoundInv
<1>6. ASSUME NEW n \in {0, 1}, SendSaveStart(n) PROVE FoundInv'
  <2>1. /\ gpc = "make" /\ todo = <<>> /\ gpc' = "idle" /\ clean' = (checked /\ (box3 \/ box4))
        /\ UNCHANGED <<pathText, readyToSave, checked, todo, saveMode, dirs, box3, box4>>
    BY <1>6 DEF SendSaveStart, settings, files
  <2>2. readyToSave
    BY <2>1 DEF FoundInv
  <2>3. ASSUME checked, box3 PROVE saveMode = 3 /\ \A sub \in NeededBy(saveMode) : sub \in dirs[pathText]
    BY <2>1, <2>3 DEF FoundInv, ShownInv, SaverDoesWhatIsShown, ToBeMade
  <2>4. ASSUME checked, box4 PROVE saveMode = 4 /\ \A sub \in NeededBy(saveMode) : sub \in dirs[pathText]
    BY <2>1, <2>4 DEF FoundInv, ShownInv, SaverDoesWhatIsShown, ToBeMade
  <2>5. clean' => \A sub \in NeededBy(saveMode') : sub \in dirs'[pathText']
    BY <2>1, <2>3, <2>4
  <2> QED
    BY <1>1, <2>1, <2>2, <2>5 DEF FoundInv
<1> QED
  BY <1>2, <1>3, <1>4, <1>5, <1>6 DEF Slots

(* The writer changes no directory and keeps to its order of files.        *)
LEMMA WriterFound == FoundInv /\ ShownInv' /\ Writer => FoundInv'
<1> SUFFICES ASSUME FoundInv, ShownInv', Writer PROVE FoundInv'
  OBVIOUS
<1>1. UNCHANGED <<pathText, readyToSave, box3, box4, checked, clean, slot, saveMode, dirs>>
  BY DEF Writer, dialog, settings
<1>2. /\ wpc' \in {"loop", "ir", "depth", "pointcloud", "rgb", "dead"}
      /\ wpc' = "pointcloud" => frame'.mode = 4
  <2>1. CASE TakeFrame
    BY <2>1 DEF TakeFrame
  <2>2. CASE WriteSome
    BY <2>2 DEF WriteSome, WriteIr, WriteDepth, WriteCloud, WriteFile
  <2>3. CASE WriteRgb
    BY <2>3 DEF WriteRgb, WriteFile
  <2>4. CASE WriteAlone \/ FinishSession
    BY <2>4 DEF WriteAlone, FinishSession
  <2> QED
    BY <2>1, <2>2, <2>3, <2>4 DEF Writer
<1> QED
  BY <1>1, <1>2 DEF FoundInv, ToBeMade, NeededBy, slot

(* Every step of the program keeps the invariant.                          *)
LEMMA NextFound == FoundInv /\ [Next]_vars => FoundInv'
<1> SUFFICES ASSUME FoundInv, [Next]_vars PROVE FoundInv'
  OBVIOUS
<1>1. ShownInv'
  BY NextShown DEF FoundInv
<1>2. CASE Worker \/ UNCHANGED vars
  BY <1>1, <1>2, FoundKept DEF Worker, vars, dialog, slot, settings, writer, files
<1> QED
  BY <1>1, <1>2, UserFound, SlotsFound, WriterFound DEF Next

(* FoundAfterButton holds of every execution, whatever directories the     *)
(* user enters and wherever the writer is when they are removed.           *)
THEOREM FoundAfterButtonCorrect == Spec => []FoundAfterButton
<1>1. FoundInv => FoundAfterButton
  <2> SUFFICES ASSUME FoundInv, clean PROVE FoundAfterButton
    BY DEF FoundAfterButton
  <2>1. savePath = pathText /\ \A sub \in NeededBy(saveMode) : sub \in dirs[savePath]
    BY DEF FoundInv, ShownInv, SaverDoesWhatIsShown
  <2>2. wpc \in Subdirs /\ frame.mode = saveMode => wpc \in NeededBy(saveMode)
    BY DEF FoundInv, Subdirs, NeededBy
  <2> QED
    BY <2>1, <2>2 DEF NeededBy, FoundAfterButton
<1> QED
  BY InitFound, NextFound, <1>1, PTL DEF Spec

-------------------------------------------------------------------------------
(* The frames in the ring are the last ones handed in, and the one being   *)
(* written is the first of them.                                           *)
RingInv ==
  /\ produced \in Nat /\ ring \in Seq(Nat) /\ Len(ring) <= produced
  /\ \A i \in 1 .. Len(ring) : ring[i] = Retired + i - 1
  /\ wpc \in {"ir", "depth", "pointcloud", "rgb"} => ring # <<>> /\ frame.id = Retired

(* where files may be that saveBtnSlot has still to remove *)
Left(sub) ==
  \/ gpc = "empty" /\ \E i \in 1 .. Len(todo) : todo[i] = sub
  \/ gpc = "rmdir" /\ \E i \in 2 .. Len(todo) : todo[i] = sub

(* The inductive invariant behind DirectoryStartsEmpty: an old file is in  *)
(* a directory still to be emptied.                                        *)
EmptyInv ==
  /\ FoundInv /\ RingInv
  /\ \A f \in disk : f.sub \in Subdirs
  /\ pressed \in Nat
  /\ clean \/ gpc \in {"empty", "rmdir", "make"} =>
       /\ pressed <= Retired
       /\ \A f \in disk : f.place = pathText => f.frame >= pressed \/ Left(f.sub)

(* At the start there are neither frames nor files.                        *)
LEMMA InitEmpty == Init => EmptyInv
<1> SUFFICES ASSUME Init PROVE EmptyInv
  OBVIOUS
<1>1. FoundInv
  BY InitFound
<1>2. ~clean /\ gpc = "idle" /\ disk = {}
  BY DEF Init
<1>3. RingInv
  BY DEF Init, RingInv, Retired
<1>4. pressed \in Nat
  BY DEF Init
<1> QED
  BY <1>1, <1>2, <1>3, <1>4 DEF EmptyInv

(* The frames come and go in order.                                        *)
LEMMA NextRing == RingInv /\ [Next]_vars => RingInv'
<1> SUFFICES ASSUME RingInv, [Next]_vars PROVE RingInv'
  OBVIOUS
<1> USE DEF RingInv, Retired
<1>1. CASE User \/ Slots \/ UNCHANGED vars
  BY <1>1 DEF User, Slots, vars, worker, writer
<1>2. CASE Worker
  <2>1. UNCHANGED <<wpc, frame>>
    BY <1>2 DEF Worker, writer
  <2>2. CASE TestSaving \/ StoreAloneRGBData
    BY <2>1, <2>2 DEF TestSaving, StoreAloneRGBData
  <2>3. CASE StoreData
    <3>1. ring' = Append(ring, produced) /\ produced' = produced + 1
      BY <2>3 DEF StoreData
    <3>2. ring' \in Seq(Nat) /\ Len(ring') = Len(ring) + 1
      BY <3>1
    <3>3. ASSUME NEW i \in 1 .. Len(ring') PROVE ring'[i] = Retired' + i - 1
      BY <3>1, <3>2, <3>3
    <3> QED
      BY <2>1, <3>1, <3>2, <3>3
  <2> QED
    BY <1>2, <2>2, <2>3 DEF Worker
<1>3. CASE Writer
  <2>1. UNCHANGED produced
    BY <1>3 DEF Writer
  <2>2. CASE TakeFrame
    BY <2>1, <2>2 DEF TakeFrame
  <2>3. CASE WriteSome
    <3>1. UNCHANGED <<ring, frame>> /\ wpc \in {"ir", "depth", "pointcloud"}
      BY <2>3 DEF WriteSome, WriteIr, WriteDepth, WriteCloud, WriteFile
    <3> QED
      BY <2>1, <3>1
  <2>4. CASE WriteRgb
    <3>1. wpc = "rgb" /\ wpc' = "loop" /\ ring' = Tail(ring)
      BY <2>4 DEF WriteRgb, WriteFile
    <3>2. ring' \in Seq(Nat) /\ Len(ring') = Len(ring) - 1
      BY <3>1
    <3>3. ASSUME NEW i \in 1 .. Len(ring') PROVE ring'[i] = Retired' + i - 1
      BY <2>1, <3>1, <3>2, <3>3
    <3> QED
      BY <2>1, <3>1, <3>2, <3>3
  <2>5. CASE WriteAlone \/ FinishSession
    BY <2>1, <2>5 DEF WriteAlone, FinishSession
  <2> QED
    BY <1>3, <2>2, <2>3, <2>4, <2>5 DEF Writer
<1> QED
  BY <1>1, <1>2, <1>3 DEF Next

(* A step that neither begins a removal nor touches files keeps the        *)
(* invariant: the frames the writer is through with only grow in number.   *)
LEMMA EmptyKept ==
  ASSUME EmptyInv, FoundInv', RingInv', Retired <= Retired',
         UNCHANGED <<pathText, pressed, disk, slot>>, clean' => clean
  PROVE  EmptyInv'
  BY DEF EmptyInv, RingInv, Retired, Left, slot

(* The slots: each directory is emptied before it is off the list.         *)
LEMMA SlotsEmpty == EmptyInv /\ FoundInv' /\ RingInv' /\ Slots => EmptyInv'
<1> SUFFICES ASSUME EmptyInv, FoundInv', RingInv', Slots PROVE EmptyInv'
  OBVIOUS
<1>1. Retired' = Retired /\ UNCHANGED pressed
  BY DEF Slots, SendOwnMode, EmptyDir, RemoveDir, MakeDir, SendSaveStart, dialog, worker, Retired
<1>2. CASE SendOwnMode
  <2>1. ~clean' /\ gpc' = "idle" /\ UNCHANGED disk
    BY <1>2 DEF SendOwnMode, dialog, files, EmptyInv, FoundInv
  <2> QED
    BY <1>1, <2>1 DEF EmptyInv
<1>3. CASE EmptyDir
  <2>1. /\ gpc = "empty" /\ gpc' = "rmdir" /\ UNCHANGED <<pathText, todo>>
        /\ disk' = {f \in disk : f.place # pathText \/ f.sub # Head(todo)}
    BY <1>3 DEF EmptyDir, dialog
  <2>2. todo \in Seq(Subdirs)
    BY DEF EmptyInv, FoundInv
  <2>3. ASSUME NEW f \in disk', f.place = pathText' PROVE f.frame >= pressed' \/ Left(f.sub)'
    <3>1. f \in disk /\ f.sub # Head(todo) /\ (f.frame >= pressed \/ Left(f.sub))
      BY <2>1, <2>3 DEF EmptyInv
    <3>2. ASSUME NEW i \in 1 .. Len(todo), todo[i] = f.sub PROVE i \in 2 .. Len(todo)
      BY <2>2, <3>1, <3>2
    <3> QED
      BY <1>1, <2>1, <3>1, <3>2 DEF Left
  <2> QED
    BY <1>1, <2>1, <2>3 DEF EmptyInv
<1>4. CASE RemoveDir
  <2>1. /\ gpc = "rmdir" /\ UNCHANGED <<pathText, disk>>
        /\ \/ Len(todo) > 1 /\ gpc' = "empty" /\ todo' = Tail(todo)
           \/ ~(Len(todo) > 1) /\ gpc' = "make"
    BY <1>4 DEF RemoveDir, dialog
  <2>2. todo \in Seq(Subdirs)
    BY DEF EmptyInv, FoundInv
  <2>3. ASSUME NEW f \in disk', f.place = pathText' PROVE f.frame >= pressed' \/ Left(f.sub)'
    <3>1. f.frame >= pressed \/ Left(f.sub)
      BY <2>1, <2>3 DEF EmptyInv
    <3>2. ASSUME NEW i \in 2 .. Len(todo), todo[i] = f.sub PROVE Left(f.sub)'
      <4>1. Len(todo) > 1
        BY <2>2, <3>2
      <4>2. i - 1 \in 1 .. Len(todo') /\ todo'[i - 1] = f.sub /\ gpc' = "empty"
        BY <2>1, <2>2, <3>2, <4>1
      <4> QED
        BY <4>2 DEF Left
    <3> QED
      BY <1>1, <2>1, <3>1, <3>2 DEF Left
  <2> QED
    BY <1>1, <2>1, <2>3 DEF EmptyInv
<1>5. CASE MakeDir \/ \E n \in {0, 1} : SendSaveStart(n)
  <2>1. gpc = "make" /\ gpc' \in {"make", "idle"} /\ UNCHANGED <<pathText, disk>>
    BY <1>5 DEF MakeDir, SendSaveStart, dialog, files
  <2>2. ASSUME NEW f \in disk', f.place = pathText' PROVE f.frame >= pressed'
    BY <1>1, <2>1, <2>2 DEF EmptyInv, Left
  <2> QED
    BY <1>1, <2>1, <2>2 DEF EmptyInv
<1> QED
  BY <1>2, <1>3, <1>4, <1>5 DEF Slots

(* The writer: the file it adds shows the first frame of the ring.         *)
LEMMA WriterEmpty == EmptyInv /\ FoundInv' /\ RingInv' /\ Writer => EmptyInv'
<1> SUFFICES ASSUME EmptyInv, FoundInv', RingInv', Writer PROVE EmptyInv'
  OBVIOUS
<1>1. UNCHANGED <<pathText, pressed, clean, slot, produced>>
  BY DEF Writer, dialog
<1>2. CASE TakeFrame \/ WriteAlone \/ FinishSession
  <2>1. UNCHANGED <<ring, disk>>
    BY <1>2 DEF TakeFrame, WriteAlone, FinishSession
  <2>2. Retired' = Retired /\ Retired \in Int
    BY <1>1, <2>1 DEF Retired, EmptyInv, RingInv
  <2> QED
    BY <1>1, <2>1, <2>2, EmptyKept
<1>3. CASE WriteSome \/ WriteRgb
  <2>1. wpc \in {"ir", "depth", "pointcloud", "rgb"}
    BY <1>3 DEF WriteSome, WriteIr, WriteDepth, WriteCloud, WriteRgb, WriteFile
  <2>2. /\ ring # <<>> /\ frame.id = Retired /\ Retired \in Int /\ Retired <= Retired'
        /\ Retired' \in Int
    <3>1. ring' = ring \/ ring' = Tail(ring)
      BY <1>3 DEF WriteSome, WriteRgb
    <3>2. ring # <<>> /\ frame.id = Retired /\ ring \in Seq(Nat) /\ produced \in Nat
      BY <2>1 DEF EmptyInv, RingInv
    <3>3. Len(ring') \in Nat /\ Len(ring') <= Len(ring)
      BY <3>1, <3>2
    <3> QED
      BY <1>1, <3>2, <3>3 DEF Retired
  <2>3. ASSUME NEW f \in disk' PROVE f \in disk \/ (f.sub = wpc /\ f.frame = frame.id)
    BY <1>3, <2>3 DEF WriteSome, WriteIr, WriteDepth, WriteCloud, WriteRgb, WriteFile
  <2>4. \A f \in disk' : f.sub \in Subdirs
    BY <2>1, <2>3 DEF EmptyInv, Subdirs
  <2>5. ASSUME clean' \/ gpc' \in {"empty", "rmdir", "make"}
        PROVE  /\ pressed' <= Retired'
               /\ \A f \in disk' : f.place = pathText' => f.frame >= pressed' \/ Left(f.sub)'
    <3>1. pressed <= Retired
      BY <1>1, <2>5 DEF EmptyInv, slot
    <3>2. pressed' <= Retired' /\ frame.id >= pressed
      BY <1>1, <2>2, <3>1 DEF EmptyInv
    <3>3. ASSUME NEW f \in disk', f.place = pathText' PROVE f.frame >= pressed' \/ Left(f.sub)'
      BY <1>1, <2>3, <2>5, <3>2, <3>3 DEF EmptyInv, Left, slot
    <3> QED
      BY <3>2, <3>3
  <2> QED
    BY <1>1, <2>4, <2>5 DEF EmptyInv
<1> QED
  BY <1>2, <1>3 DEF Writer

(* Every step keeps the invariant; pressing the button puts every          *)
(* directory on the list.                                                  *)
LEMMA NextEmpty == EmptyInv /\ [Next]_vars => EmptyInv'
<1> SUFFICES ASSUME EmptyInv, [Next]_vars PROVE EmptyInv'
  OBVIOUS
<1>1. FoundInv' /\ RingInv'
  BY NextFound, NextRing DEF EmptyInv
<1>2. CASE User
  <2>1. gpc = "idle" /\ UNCHANGED <<ring, produced, disk>>
    BY <1>2 DEF User, worker, files
  <2>2. Retired' = Retired /\ Retired \in Nat
    BY <2>1 DEF Retired, EmptyInv, RingInv
  <2>3. CASE Run \/ StopBtnSlot \/ OpenDialog \/ CloseDialog
    <3>1. UNCHANGED <<pathText, pressed, slot, clean>>
      BY <2>3 DEF Run, StopBtnSlot, OpenDialog, CloseDialog, dialog
    <3> QED
      BY <1>1, <2>1, <2>2, <3>1, EmptyKept
  <2>4. CASE (\E text \in Paths \cup {NoPath} : EditPath(text)) \/ ChooseModeThree \/ ChooseModeFour
    <3>1. ~clean' /\ gpc' \in {"idle", "send3", "send4"} /\ UNCHANGED pressed
      BY <2>1, <2>4 DEF EditPath, ChooseModeThree, ChooseModeFour, ChooseMode, slot
    <3> QED
      BY <1>1, <2>1, <3>1 DEF EmptyInv
  <2>5. CASE SaveBtnSlot
    <3>1. gpc' = "empty" /\ todo' = Removed /\ pressed' = Retired /\ UNCHANGED pathText
      BY <2>5 DEF SaveBtnSlot, Retired
    <3>2. \A sub \in Subdirs : Left(sub)'
      <4>1. /\ Len(Removed) = 5 /\ Removed[1] = "rgb" /\ Removed[2] = "ir"
            /\ Removed[3] = "depth" /\ Removed[4] = "rgb-alone" /\ Removed[5] = "pointcloud"
        BY DEF Removed
      <4>2. \A sub \in Subdirs : \E i \in 1 .. Len(Removed) : Removed[i] = sub
        BY <4>1 DEF Subdirs
      <4> QED
        BY <3>1, <4>2 DEF Left
    <3> QED
      BY <1>1, <2>1, <2>2, <3>1, <3>2 DEF EmptyInv
  <2> QED
    BY <1>2, <2>3, <2>4, <2>5 DEF User
<1>3. CASE Worker
  <2>1. UNCHANGED <<pathText, pressed, slot, clean, disk>>
    BY <1>3 DEF Worker, dialog, files
  <2>2. Retired <= Retired'
    <3>1. CASE StoreData
      BY <3>1 DEF StoreData, Retired, EmptyInv, RingInv
    <3>2. CASE TestSaving \/ StoreAloneRGBData
      BY <3>2 DEF TestSaving, StoreAloneRGBData, Retired, EmptyInv, RingInv
    <3> QED
      BY <1>3, <3>1, <3>2 DEF Worker
  <2> QED
    BY <1>1, <2>1, <2>2, EmptyKept
<1>4. CASE UNCHANGED vars
  <2>1. UNCHANGED <<pathText, pressed, slot, clean, disk, ring, produced>>
    BY <1>4 DEF vars, dialog, files, worker
  <2>2. Retired' = Retired /\ Retired \in Nat
    BY <2>1 DEF Retired, EmptyInv, RingInv
  <2> QED
    BY <1>1, <2>1, <2>2, EmptyKept
<1> QED
  BY <1>1, <1>2, <1>3, <1>4, SlotsEmpty, WriterEmpty DEF Next

(* DirectoryStartsEmpty holds of every execution: however the removal of   *)
(* the directories and the writer interleave, no frame finished before the *)
(* button was pressed is left in the directory of the recording.           *)
THEOREM DirectoryStartsEmptyCorrect == Spec => []DirectoryStartsEmpty
<1>1. EmptyInv => DirectoryStartsEmpty
  <2> SUFFICES ASSUME EmptyInv, clean, NEW f \in disk, f.place = savePath
               PROVE  f.frame >= pressed
    BY DEF DirectoryStartsEmpty
  <2>1. savePath = pathText /\ gpc = "idle"
    BY DEF EmptyInv, FoundInv, ShownInv, SaverDoesWhatIsShown
  <2> QED
    BY <2>1 DEF EmptyInv, Left
<1> QED
  BY InitEmpty, NextEmpty, <1>1, PTL DEF Spec

-------------------------------------------------------------------------------
(* Types: what the user's slots assign, and what the threads do; the rest  *)
(* is in FoundInv and RingInv.                                             *)
UserType ==
  /\ pathText \in Paths \cup {NoPath} /\ savepth \in Paths \cup {Data}
  /\ savePath \in Paths \cup {Here, Data}
  /\ box3 \in BOOLEAN /\ box4 \in BOOLEAN /\ readyToSave \in BOOLEAN /\ dialogOpen \in BOOLEAN
  /\ save_mode \in {3, 4} /\ saveMode \in {3, 4}
  /\ checked \in BOOLEAN /\ clean \in BOOLEAN
  /\ isRunning \in BOOLEAN /\ isGoingToSaveData \in BOOLEAN /\ limited \in BOOLEAN

ListType == gpc \in {"empty", "rmdir"} => todo # <<>>

File == [place : Places, sub : Subdirs, name : Nat, frame : Nat]

ThreadType ==
  /\ inHand \in BOOLEAN /\ aloneRing \in 0 .. 1
  /\ frame \in [id : Nat \cup {-1}, mode : {3, 4}]
  /\ savePathIndex \in Nat /\ writeFinsih \in BOOLEAN
  /\ disk \subseteq File /\ since \in Nat /\ clicks \in Nat

(* The program as started.                                                 *)
LEMMA InitTypes == Init => UserType /\ ListType /\ ThreadType
<1> SUFFICES ASSUME Init PROVE UserType /\ ListType /\ ThreadType
  OBVIOUS
<1>1. UserType
  BY DEF Init, UserType
<1>2. ListType
  BY DEF Init, ListType
<1>3. ThreadType
  <2>1. inHand \in BOOLEAN /\ writeFinsih \in BOOLEAN
    BY DEF Init
  <2>2. frame \in [id : Nat \cup {-1}, mode : {3, 4}]
    BY DEF Init, NoFrame
  <2>3. aloneRing \in 0 .. 1 /\ savePathIndex \in Nat /\ clicks \in Nat /\ disk = {} /\ since \in Nat
    BY DEF Init
  <2> QED
    BY <2>1, <2>2, <2>3 DEF ThreadType
<1> QED
  BY <1>1, <1>2, <1>3

(* Path and mode only come from the dialog and the reader.                 *)
LEMMA NextUserType == UserType /\ [Next]_vars => UserType'
<1> SUFFICES ASSUME UserType, [Next]_vars PROVE UserType'
  OBVIOUS
<1> USE DEF UserType
<1>1. ASSUME UNCHANGED <<dialog, settings>>,
             /\ isRunning' \in BOOLEAN /\ isGoingToSaveData' \in BOOLEAN
             /\ limited' \in BOOLEAN
      PROVE  UserType'
  BY <1>1 DEF dialog, settings
<1>2. ASSUME NEW n \in {0, 1}, SaveDataSlot(n)
      PROVE  isRunning' \in BOOLEAN /\ isGoingToSaveData' \in BOOLEAN /\ limited' \in BOOLEAN
  <2>1. CASE isRunning
    <3>1. isGoingToSaveData' = TRUE /\ isRunning' = isRunning /\ limited' = (n # 0)
      BY <1>2, <2>1 DEF SaveDataSlot
    <3>2. limited' \in BOOLEAN
      BY <3>1, SMT
    <3> QED
      BY <3>1, <3>2
  <2>2. CASE ~isRunning
    BY <1>2, <2>2 DEF SaveDataSlot, control
  <2> QED
    BY <2>1, <2>2
<1>3. CASE User
  <2>1. CASE Run
    <3>1. isRunning' = ~isRunning /\ UNCHANGED <<dialog, settings, isGoingToSaveData, limited>>
      BY <2>1 DEF Run
    <3>2. isRunning' \in BOOLEAN
      BY <3>1, Zenon
    <3> QED
      BY <1>1, <3>1, <3>2
  <2>2. CASE StopBtnSlot
    BY <1>1, <2>2 DEF StopBtnSlot
  <2>3. CASE OpenDialog
    <3>1. isRunning' \in BOOLEAN /\ isGoingToSaveData' \in BOOLEAN /\ limited' \in BOOLEAN
      BY <1>2, <2>3 DEF OpenDialog
    <3> QED
      BY <2>3, <3>1 DEF OpenDialog, settings
  <2>4. CASE CloseDialog
    BY <2>4 DEF CloseDialog, settings, control
  <2>5. ASSUME NEW text \in Paths \cup {NoPath}, EditPath(text) PROVE UserType'
    <3>1. /\ pathText' = text /\ readyToSave' = (text \in Paths)
          /\ checked' = TRUE /\ clean' = FALSE
          /\ UNCHANGED <<box3, box4, dialogOpen, control>>
      BY <2>5 DEF EditPath
    <3>2. readyToSave' \in BOOLEAN
      BY <3>1, SMT
    <3>3. /\ savepth' \in Paths \cup {Data} /\ savePath' \in Paths \cup {Here, Data}
          /\ save_mode' \in {3, 4} /\ saveMode' \in {3, 4}
      BY <2>5 DEF EditPath, SavePathSlot, settings
    <3> QED
      BY <3>1, <3>2, <3>3 DEF control
  <2>6. ASSUME NEW mode \in {3, 4}, NEW mine, NEW other, ChooseMode(mode, mine, other),
               box3' \in BOOLEAN, box4' \in BOOLEAN
        PROVE  UserType'
    <3>1. clean' = FALSE /\ UNCHANGED <<pathText, readyToSave, dialogOpen, checked, control>>
      BY <2>6 DEF ChooseMode
    <3>2. /\ savepth' = savepth /\ savePath' = savepth
          /\ save_mode' \in {3, 4} /\ saveMode' \in {3, 4}
      BY <2>6 DEF ChooseMode, SaveModeSetSlot
    <3> QED
      BY <2>6, <3>1, <3>2 DEF control
  <2>7. CASE ChooseModeThree
    <3>1. box3' \in BOOLEAN /\ box4' \in BOOLEAN
      BY <2>7, Zenon DEF ChooseModeThree
    <3> QED
      BY <2>6, <2>7, <3>1 DEF ChooseModeThree
  <2>8. CASE ChooseModeFour
    <3>1. box3' \in BOOLEAN /\ box4' \in BOOLEAN
      BY <2>8, Zenon DEF ChooseModeFour
    <3> QED
      BY <2>6, <2>8, <3>1 DEF ChooseModeFour
  <2>9. CASE SaveBtnSlot
    BY <2>9 DEF SaveBtnSlot, settings, control
  <2> QED
    BY <1>3, <2>1, <2>2, <2>3, <2>4, <2>5, <2>7, <2>8, <2>9 DEF User
<1>4. CASE Slots
  <2>1. CASE SendOwnMode
    <3>1. UNCHANGED <<dialog, control, savepth>> /\ savePath' = savepth
      BY <2>1 DEF SendOwnMode, SaveModeSetSlot
    <3>2. save_mode' \in {3, 4} /\ saveMode' \in {3, 4}
      BY <2>1 DEF SendOwnMode, SaveModeSetSlot
    <3> QED
      BY <3>1, <3>2 DEF dialog, control
  <2>2. CASE EmptyDir \/ RemoveDir \/ MakeDir
    <3>1. UNCHANGED <<dialog, settings, control>>
      BY <2>2, Zenon DEF EmptyDir, RemoveDir, MakeDir
    <3> QED
      BY <1>1, <3>1 DEF control
  <2>3. ASSUME NEW n \in {0, 1}, SendSaveStart(n) PROVE UserType'
    <3>1. /\ clean' = (checked /\ (box3 \/ box4))
          /\ UNCHANGED <<pathText, box3, box4, readyToSave, dialogOpen, checked, settings>>
      BY <2>3 DEF SendSaveStart
    <3>2. clean' \in BOOLEAN
      BY <3>1, Zenon
    <3>3. isRunning' \in BOOLEAN /\ isGoingToSaveData' \in BOOLEAN /\ limited' \in BOOLEAN
      BY <1>2, <2>3 DEF SendSaveStart
    <3> QED
      BY <3>1, <3>2, <3>3 DEF settings
  <2> QED
    BY <1>4, <2>1, <2>2, <2>3 DEF Slots
<1>5. CASE Worker
  <2>1. UNCHANGED <<dialog, settings>>
    BY <1>5 DEF Worker
  <2>2. isRunning' \in BOOLEAN /\ isGoingToSaveData' \in BOOLEAN /\ limited' \in BOOLEAN
    BY <1>5 DEF Worker, TestSaving, StoreData, StoreAloneRGBData, control
  <2> QED
    BY <1>1, <2>1, <2>2
<1>6. CASE Writer \/ UNCHANGED vars
  BY <1>1, <1>6 DEF Writer, vars, control
<1> QED
  BY <1>3, <1>4, <1>5, <1>6 DEF Next

(* The list is never exhausted before the last directory is removed.       *)
LEMMA NextListType == FoundInv /\ ListType /\ [Next]_vars => ListType'
<1> SUFFICES ASSUME FoundInv, ListType, [Next]_vars PROVE ListType'
  OBVIOUS
<1> USE DEF ListType
<1>1. CASE User
  BY <1>1 DEF User, Run, OpenDialog, CloseDialog, EditPath, ChooseModeThree, ChooseModeFour,
     ChooseMode, StopBtnSlot, SaveBtnSlot, slot, Removed
<1>2. CASE Slots
  <2>1. CASE RemoveDir
    <3>1. CASE Len(todo) > 1
      BY <2>1, <3>1 DEF RemoveDir, FoundInv
    <3>2. CASE ~(Len(todo) > 1)
      BY <2>1, <3>2 DEF RemoveDir
    <3> QED
      BY <3>1, <3>2
  <2>2. CASE SendOwnMode \/ EmptyDir \/ MakeDir
    BY <2>2 DEF SendOwnMode, EmptyDir, MakeDir
  <2>3. ASSUME NEW n \in {0, 1}, SendSaveStart(n) PROVE ListType'
    BY <2>3 DEF SendSaveStart
  <2> QED
    BY <1>2, <2>1, <2>2, <2>3 DEF Slots
<1>3. CASE Worker \/ Writer \/ UNCHANGED vars
  BY <1>3 DEF Worker, Writer, vars, slot
<1> QED
  BY <1>1, <1>2, <1>3 DEF Next

(* A file belongs to a directory, and shows a frame that was handed in.    *)
LEMMA NextThreadType ==
  UserType /\ RingInv /\ ThreadType /\ [Next]_vars => ThreadType'
<1> SUFFICES ASSUME UserType, RingInv, ThreadType, [Next]_vars PROVE ThreadType'
  OBVIOUS
<1> USE DEF ThreadType
<1>1. CASE User
  BY <1>1 DEF User, worker, writer, files
<1>2. CASE Slots
  <2>1. UNCHANGED <<worker, writer, clicks>>
    BY <1>2 DEF Slots
  <2>2. disk' \subseteq disk
    BY <1>2, Zenon DEF Slots, SendOwnMode, EmptyDir, RemoveDir, MakeDir, SendSaveStart, files
  <2>3. since' \in {since, Retired, Retired + 1}
    BY <1>2 DEF Slots, SendSaveStart
  <2>4. since' \in Nat
    BY <2>3 DEF RingInv, Retired
  <2> QED
    BY <2>1, <2>2, <2>4 DEF worker, writer
<1>3. CASE Worker
  <2>1. UNCHANGED <<writer, files, since, clicks>>
    BY <1>3 DEF Worker
  <2>2. inHand' \in BOOLEAN
    BY <1>3 DEF Worker, TestSaving, StoreData, StoreAloneRGBData
  <2>3. aloneRing' \in {aloneRing, aloneRing + 1} /\ (aloneRing' # aloneRing => aloneRing < 1)
    BY <1>3 DEF Worker, TestSaving, StoreData, StoreAloneRGBData
  <2>4. aloneRing' \in 0 .. 1
    <3>1. aloneRing \in 0 .. 1
      BY DEF ThreadType
    <3> QED
      BY <2>3, <3>1
  <2> QED
    BY <2>1, <2>2, <2>4 DEF writer, files
<1>4. CASE Writer
  <2>1. UNCHANGED <<inHand, clicks>>
    BY <1>4 DEF Writer
  <2>s. since' \in Nat
    <3>1. since' \in {since, Retired}
      BY <1>4 DEF Writer, FinishSession
    <3> QED
      BY <3>1 DEF RingInv, Retired
  <2>2. ASSUME NEW sub \in {"ir", "depth", "pointcloud", "rgb"}, NEW next, WriteFile(sub, next)
        PROVE  disk' \subseteq File
    <3>1. CASE sub \in dirs[savePath]
      <4>1. frame.id = Retired
        BY <2>2 DEF WriteFile, RingInv
      <4>2. sub \in Subdirs
        BY DEF Subdirs
      <4>3. frame.id \in Nat
        BY <4>1 DEF RingInv, Retired
      <4>4. [place |-> savePath, sub |-> sub, name |-> savePathIndex, frame |-> frame.id] \in File
        BY <4>2, <4>3 DEF File, UserType, Places
      <4> QED
        BY <2>2, <3>1, <4>4 DEF WriteFile
    <3>2. CASE sub \notin dirs[savePath]
      BY <2>2, <3>2 DEF WriteFile
    <3> QED
      BY <3>1, <3>2
  <2>3. CASE TakeFrame
    <3>1. frame' = [id |-> Head(ring), mode |-> saveMode] /\ writeFinsih' = FALSE
      BY <2>3 DEF TakeFrame
    <3>2. Head(ring) \in Nat
      BY <2>3 DEF TakeFrame, RingInv
    <3>3. frame' \in [id : Nat \cup {-1}, mode : {3, 4}]
      BY <3>1, <3>2 DEF UserType
    <3>4. UNCHANGED <<savePathIndex, aloneRing, disk>>
      BY <2>3 DEF TakeFrame
    <3> QED
      BY <2>1, <2>s, <3>1, <3>3, <3>4
  <2>4. CASE WriteSome
    <3>1. disk' \subseteq File
      BY <2>2, <2>4 DEF WriteSome, WriteIr, WriteDepth, WriteCloud
    <3> QED
      BY <2>1, <2>s, <2>4, <3>1 DEF WriteSome
  <2>5. CASE WriteRgb
    <3>1. disk' \subseteq File
      BY <2>2, <2>5 DEF WriteRgb
    <3>2. frame' = NoFrame /\ savePathIndex' = savePathIndex + 1
          /\ UNCHANGED <<writeFinsih, aloneRing>>
      BY <2>5 DEF WriteRgb
    <3> QED
      BY <2>1, <2>s, <3>1, <3>2 DEF NoFrame
  <2>6. CASE WriteAlone
    <3>1. aloneRing' = aloneRing - 1 /\ aloneRing > 0 /\ writeFinsih' = FALSE
          /\ UNCHANGED <<frame, savePathIndex, disk>>
      BY <2>6 DEF WriteAlone
    <3>2. aloneRing' \in 0 .. 1
      BY <3>1
    <3> QED
      BY <2>1, <2>s, <3>1, <3>2
  <2>7. CASE FinishSession
    BY <2>1, <2>s, <2>7 DEF FinishSession
  <2> QED
    BY <1>4, <2>3, <2>4, <2>5, <2>6, <2>7 DEF Writer
<1>5. CASE UNCHANGED vars
  BY <1>5 DEF vars, worker, writer, files
<1> QED
  BY <1>1, <1>2, <1>3, <1>4, <1>5 DEF Next

(* Whatever the user clicks, a file lies in a known directory and shows a  *)
(* frame that was handed in (saveDialog.cpp:10-121).                       *)
THEOREM TypeCorrect == Spec => []TypeOK
<1>1. Init => EmptyInv /\ UserType /\ ListType /\ ThreadType
  BY InitEmpty, InitTypes
<1>2. EmptyInv /\ [Next]_vars => EmptyInv'
  BY NextEmpty
<1>3. EmptyInv /\ UserType /\ ListType /\ ThreadType /\ [Next]_vars =>
        (UserType /\ ListType /\ ThreadType)'
  BY NextUserType, NextListType, NextThreadType DEF EmptyInv
<1>4. EmptyInv /\ UserType /\ ListType /\ ThreadType => TypeOK
  BY DEF EmptyInv, FoundInv, ShownInv, RingInv, UserType, ListType, ThreadType, File, TypeOK
<1> QED
  BY <1>1, <1>2, <1>3, <1>4, PTL DEF Spec

-------------------------------------------------------------------------------
(* The files before the numbers start again. *)

(* The number is never ahead of the frame, and as long as it is not behind *)
(* either each file has the number of its frame.                           *)
NumberInv ==
  /\ savePathIndex \in Nat /\ savePathIndex <= Retired
  /\ savePathIndex = Retired => \A f \in disk : f.name = f.frame

(* The number of the next file never gets ahead of the frames finished.    *)
LEMMA NumberStep == RingInv /\ NumberInv /\ [Next]_vars => NumberInv'
<1> SUFFICES ASSUME RingInv, NumberInv, [Next]_vars PROVE NumberInv'
  OBVIOUS
<1>t. produced \in Nat /\ Len(ring) \in Nat /\ Retired \in Nat /\ savePathIndex \in Nat
  BY DEF RingInv, Retired, NumberInv
<1>1. ASSUME UNCHANGED savePathIndex, Retired' = Retired, disk' \subseteq disk
      PROVE  NumberInv'
  BY <1>1 DEF NumberInv
<1>2. CASE User \/ UNCHANGED vars
  BY <1>1, <1>2 DEF User, vars, worker, writer, files, Retired
<1>3. CASE Slots
  BY <1>1, <1>3 DEF Slots, worker, writer, files, Retired, SendOwnMode, EmptyDir, RemoveDir,
     MakeDir, SendSaveStart
<1>4. CASE Worker
  <2>1. UNCHANGED <<savePathIndex, disk>>
    BY <1>4 DEF Worker, writer, files
  <2>2. Retired' = Retired
    <3>1. CASE StoreData
      <4>1. ring' = Append(ring, produced) /\ produced' = produced + 1
        BY <3>1 DEF StoreData
      <4>2. Len(ring') = Len(ring) + 1
        BY <4>1 DEF RingInv
      <4> QED
        BY <1>t, <4>1, <4>2 DEF Retired
    <3>2. CASE TestSaving \/ StoreAloneRGBData
      BY <3>2 DEF TestSaving, StoreAloneRGBData, Retired
    <3> QED
      BY <1>4, <3>1, <3>2 DEF Worker
  <2> QED
    BY <1>1, <2>1, <2>2
<1>5. CASE Writer /\ (TakeFrame \/ WriteAlone)
  BY <1>1, <1>5 DEF Writer, TakeFrame, WriteAlone, Retired
<1>6. CASE Writer /\ FinishSession
  <2>1. savePathIndex' = 0 /\ Retired' = Retired /\ disk' = disk
    BY <1>6 DEF Writer, FinishSession, Retired
  <2>2. CASE Retired = 0
    BY <1>t, <2>1, <2>2 DEF NumberInv
  <2>3. CASE Retired # 0
    BY <1>t, <2>1, <2>3 DEF NumberInv
  <2> QED
    BY <2>2, <2>3
<1>7. ASSUME NEW sub, NEW next, WriteFile(sub, next), sub \in {"ir", "depth", "pointcloud", "rgb"},
             savePathIndex = Retired
      PROVE  \A f \in disk' : f.name = f.frame
  BY <1>7 DEF WriteFile, RingInv, NumberInv
<1>8. CASE Writer /\ WriteSome
  <2>1. UNCHANGED <<savePathIndex, ring, produced>>
    BY <1>8 DEF Writer, WriteSome
  <2>2. PICK sub \in {"ir", "depth", "pointcloud"}, next \in {"depth", "rgb", "pointcloud"} :
          WriteFile(sub, next)
    BY <1>8 DEF WriteSome, WriteIr, WriteDepth, WriteCloud
  <2>3. savePathIndex = Retired => \A f \in disk' : f.name = f.frame
    BY <1>7, <2>2
  <2> QED
    BY <2>1, <2>3 DEF NumberInv, Retired
<1>9. CASE Writer /\ WriteRgb
  <2>1. /\ savePathIndex' = savePathIndex + 1 /\ ring' = Tail(ring) /\ produced' = produced
        /\ wpc = "rgb" /\ WriteFile("rgb", "loop")
    BY <1>9 DEF Writer, WriteRgb, WriteFile
  <2>2. Len(ring') = Len(ring) - 1
    BY <2>1 DEF RingInv
  <2>3. Retired' = Retired + 1
    <3>1. produced' = produced /\ Len(ring') = Len(ring) - 1
      BY <2>1, <2>2
    <3> QED
      BY <1>t, <3>1 DEF Retired
  <2>4. savePathIndex = Retired => \A f \in disk' : f.name = f.frame
    BY <1>7, <2>1
  <2>5. savePathIndex' = Retired' => savePathIndex = Retired
    BY <1>t, <2>1, <2>3
  <2>6. savePathIndex' \in Nat /\ savePathIndex' <= Retired'
    BY <1>t, <2>1, <2>3 DEF NumberInv
  <2> QED
    BY <2>4, <2>5, <2>6 DEF NumberInv
<1> QED
  BY <1>2, <1>3, <1>4, <1>5, <1>6, <1>8, <1>9 DEF Next, Writer

(* With its number unused no file written replaces another.                *)
LEMMA KeptStep ==
  TypeOK /\ RingInv /\ NumberInv /\ [Next]_vars
    => [savePathIndex = Retired => disk \subseteq disk' \/ gpc = "empty"]_vars
<1> SUFFICES ASSUME TypeOK, RingInv, NumberInv, Next, savePathIndex = Retired, gpc # "empty"
             PROVE  disk \subseteq disk'
  OBVIOUS
<1>1. CASE User \/ Worker
  BY <1>1 DEF User, Worker, files
<1>2. CASE Slots
  BY <1>2 DEF Slots, SendOwnMode, EmptyDir, RemoveDir, MakeDir, SendSaveStart, files
<1>3. CASE TakeFrame \/ WriteAlone \/ FinishSession
  BY <1>3 DEF TakeFrame, WriteAlone, FinishSession
<1>4. ASSUME NEW sub \in {"ir", "depth", "pointcloud", "rgb"}, NEW next, WriteFile(sub, next)
      PROVE  disk \subseteq disk'
  <2> SUFFICES ASSUME NEW f \in disk, f \notin disk' PROVE FALSE
    OBVIOUS
  <2> DEFINE file == [place |-> savePath, sub |-> sub, name |-> savePathIndex, frame |-> frame.id]
  <2>1. /\ f.place = savePath /\ f.sub = sub /\ f.name = savePathIndex
        /\ file \in disk'
    BY <1>4 DEF WriteFile
  <2>2. f.frame = f.name /\ frame.id = savePathIndex
    BY <1>4 DEF NumberInv, RingInv, WriteFile
  <2>3. f = [place |-> f.place, sub |-> f.sub, name |-> f.name, frame |-> f.frame]
    BY DEF TypeOK
  <2> QED
    BY <2>1, <2>2, <2>3
<1>5. CASE WriteSome \/ WriteRgb
  BY <1>4, <1>5 DEF WriteSome, WriteIr, WriteDepth, WriteCloud, WriteRgb
<1> QED
  BY <1>1, <1>2, <1>3, <1>5 DEF Next, Writer

(* What is true of the claim that what was saved stays on disk until the   *)
(* start button is pressed: it does, until the writer restarts the numbers *)
(* of the files, which it does after each pause (datasaver.cpp:203-208).   *)
THEOREM KeptUntilRestartCorrect == Spec => KeptUntilRestart
<1>1. Init => NumberInv
  BY InitEmpty DEF Init, NumberInv, EmptyInv, RingInv, Retired
<1>2. EmptyInv => RingInv
  BY DEF EmptyInv
<1> QED
  BY <1>1, <1>2, InitEmpty, NextEmpty, NumberStep, KeptStep, TypeCorrect, PTL
     DEF Spec, KeptUntilRestart

-------------------------------------------------------------------------------
(* The files of the frames taken since the start. *)

(* files of the frame in hand that are written when the writer is here     *)
Before(place, mode) ==
  IF place = "depth" THEN {"ir"}
  ELSE IF place = "pointcloud" THEN {"ir", "depth"}
  ELSE IF place = "rgb" THEN Needed(mode) \ {"rgb"} ELSE {}

Files == {"ir", "depth", "pointcloud", "rgb"}

(* The inductive invariant behind SavedSinceStart: the frame in hand was   *)
(* taken under the mode of the recording, if it is one of these frames,    *)
(* and has the files on disk that come before the next one.                *)
SavedInv ==
  /\ SavedSinceStart
  /\ clean /\ wpc \in Files /\ since <= Retired =>
       /\ frame.mode = saveMode
       /\ \A sub \in Before(wpc, saveMode) : FileOf(sub, Retired) \in disk

(* What a step that leaves the frames, their files and the settings of the *)
(* recording alone keeps.                                                  *)
LEMMA SavedKept ==
  ASSUME SavedInv, clean' => clean, UNCHANGED <<writer, disk, since, savePath, saveMode>>,
         Retired' = Retired
  PROVE  SavedInv'
  BY DEF SavedInv, SavedSinceStart, FileOf, writer

(* A file written by the writer after such a start: its directory is       *)
(* there, and it replaces none of a frame that counts.                     *)
LEMMA FileWritten ==
  ASSUME FoundInv, RingInv, SavedInv, clean, since \in Nat, savePathIndex \in Nat,
         since <= Retired,
         NEW sub \in Files, NEW next, WriteFile(sub, next)
  PROVE  /\ FileOf(sub, Retired) \in disk' /\ wpc = sub /\ wpc' = next
         /\ \A n \in since .. Retired - 1, other \in Needed(saveMode) : FileOf(other, n) \in disk'
         /\ \A other \in Before(sub, saveMode) : FileOf(other, Retired) \in disk'
<1>1. wpc = sub /\ Retired \in Int /\ frame.id = Retired /\ frame.mode = saveMode
  BY DEF WriteFile, RingInv, Retired, SavedInv, Files
<1>2. sub \in dirs[savePath]
  <2>1. savePath = pathText /\ \A needed \in NeededBy(saveMode) : needed \in dirs[savePath]
    BY DEF FoundInv, ShownInv, SaverDoesWhatIsShown
  <2>2. sub \in NeededBy(saveMode)
    BY <1>1 DEF FoundInv, NeededBy, Files
  <2> QED
    BY <2>1, <2>2
<1>3. /\ wpc' = next
      /\ disk' = {f \in disk : f.place # savePath \/ f.sub # sub \/ f.name # savePathIndex}
                   \cup {[place |-> savePath, sub |-> sub, name |-> savePathIndex,
                          frame |-> frame.id]}
  BY <1>2 DEF WriteFile
<1>4. FileOf(sub, Retired)
        = [place |-> savePath, sub |-> sub, name |-> savePathIndex, frame |-> frame.id]
  BY <1>1 DEF FileOf
<1>5. ASSUME NEW n \in since .. Retired - 1, NEW other \in Needed(saveMode)
      PROVE  FileOf(other, n) \in disk'
  <2>1. FileOf(other, n) \in disk
    BY <1>5 DEF SavedInv, SavedSinceStart
  <2>2. FileOf(other, n).name # savePathIndex
    BY <1>1, <1>5 DEF FileOf
  <2> QED
    BY <1>3, <2>1, <2>2
<1>6. ASSUME NEW other \in Before(sub, saveMode)
      PROVE  FileOf(other, Retired) \in disk'
  <2>1. FileOf(other, Retired) \in disk
    BY <1>1 DEF SavedInv
  <2>2. FileOf(other, Retired).sub # sub
    BY DEF FileOf, Before, Needed, Files
  <2> QED
    BY <1>3, <2>1, <2>2
<1> QED
  BY <1>1, <1>3, <1>4, <1>5, <1>6

(* Every step keeps the invariant: the slots are through before the start, *)
(* and the writer works through the files of a frame, then takes the next. *)
LEMMA SavedStep ==
  FoundInv /\ RingInv /\ TypeOK /\ SavedInv /\ [Next]_vars => SavedInv'
<1> SUFFICES ASSUME FoundInv, RingInv, TypeOK, SavedInv, [Next]_vars PROVE SavedInv'
  OBVIOUS
<1>t. since \in Nat /\ savePathIndex \in Nat /\ Retired \in Int
  BY DEF TypeOK, RingInv, Retired
<1>1. ASSUME ~clean' PROVE SavedInv'
  BY <1>1 DEF SavedInv, SavedSinceStart
<1>2. CASE User
  <2>1. UNCHANGED <<writer, disk, since>> /\ Retired' = Retired
    BY <1>2 DEF User, files, worker, Retired
  <2>2. CASE Run \/ StopBtnSlot \/ OpenDialog \/ CloseDialog
    <3>1. UNCHANGED <<clean, savePath, saveMode>>
      BY <2>2 DEF Run, StopBtnSlot, OpenDialog, CloseDialog, dialog, settings
    <3> QED
      BY <2>1, <3>1, SavedKept
  <2>3. CASE ~(Run \/ StopBtnSlot \/ OpenDialog \/ CloseDialog)
    <3>1. ~clean'
      BY <1>2, <2>3 DEF User, EditPath, ChooseModeThree, ChooseModeFour, ChooseMode, SaveBtnSlot
    <3> QED
      BY <1>1, <3>1
  <2> QED
    BY <2>2, <2>3
<1>3. CASE Slots
  <2>1. Retired' = Retired /\ wpc' = wpc
    BY <1>3 DEF Slots, worker, writer, Retired
  <2>2. CASE SendOwnMode \/ EmptyDir \/ RemoveDir \/ MakeDir
    <3>1. ~clean /\ clean' = clean
      BY <2>2 DEF SendOwnMode, EmptyDir, RemoveDir, MakeDir, FoundInv, dialog
    <3> QED
      BY <1>1, <3>1
  <2>3. CASE \E n \in {0, 1} : SendSaveStart(n)
    <3>1. since' = IF wpc = "loop" THEN Retired ELSE Retired + 1
      BY <2>3 DEF SendSaveStart
    <3>2. since' .. Retired' - 1 = {} /\ ~(wpc' \in Files /\ since' <= Retired')
      BY <1>t, <2>1, <3>1 DEF Files
    <3> QED
      BY <3>2 DEF SavedInv, SavedSinceStart
  <2> QED
    BY <1>3, <2>2, <2>3 DEF Slots
<1>4. CASE Worker
  <2>1. UNCHANGED <<writer, disk, since, clean, savePath, saveMode>>
    BY <1>4 DEF Worker, files, dialog, settings
  <2>2. Retired' = Retired
    <3>1. CASE StoreData
      <4>1. ring' = Append(ring, produced) /\ produced' = produced + 1
        BY <3>1 DEF StoreData
      <4>2. Len(ring') = Len(ring) + 1 /\ Len(ring) \in Nat /\ produced \in Nat
        BY <4>1 DEF RingInv
      <4> QED
        BY <4>1, <4>2 DEF Retired
    <3>2. CASE TestSaving \/ StoreAloneRGBData
      BY <3>2 DEF TestSaving, StoreAloneRGBData, Retired
    <3> QED
      BY <1>4, <3>1, <3>2 DEF Worker
  <2> QED
    BY <2>1, <2>2, SavedKept
<1>5. CASE Writer
  <2>1. UNCHANGED <<clean, savePath, saveMode, produced>>
    BY <1>5 DEF Writer, dialog, settings
  <2>2. CASE FinishSession
    <3>1. since' = Retired' /\ Retired' = Retired /\ wpc' = "loop"
      BY <2>1, <2>2 DEF FinishSession, Retired
    <3>2. since' .. Retired' - 1 = {}
      BY <1>t, <3>1
    <3> QED
      BY <3>1, <3>2 DEF SavedInv, SavedSinceStart, Files
  <2>3. CASE WriteAlone /\ UNCHANGED since
    <3>1. UNCHANGED <<wpc, frame, savePathIndex, disk>> /\ Retired' = Retired
      BY <2>1, <2>3 DEF WriteAlone, Retired
    <3> QED
      BY <2>1, <2>3, <3>1 DEF SavedInv, SavedSinceStart, FileOf
  <2>4. CASE TakeFrame /\ UNCHANGED since
    <3>1. UNCHANGED <<savePathIndex, disk>> /\ Retired' = Retired /\ wpc' = "ir"
          /\ frame'.mode = saveMode
      BY <2>1, <2>4 DEF TakeFrame, Retired
    <3>2. SavedSinceStart'
      BY <2>1, <2>4, <3>1 DEF SavedInv, SavedSinceStart, FileOf
    <3>3. Before(wpc', saveMode') = {}
      BY <3>1 DEF Before
    <3> QED
      BY <2>1, <3>1, <3>2, <3>3 DEF SavedInv
  <2>5. CASE WriteSome /\ UNCHANGED since
    <3>1. UNCHANGED <<frame, savePathIndex, ring>> /\ Retired' = Retired
      BY <2>1, <2>5 DEF WriteSome, Retired
    <3>2. \A sub, n : FileOf(sub, n)' = FileOf(sub, n)
      BY <2>1, <3>1 DEF FileOf
    <3>3. CASE since > Retired \/ ~clean
      BY <1>t, <2>1, <2>5, <3>1, <3>3 DEF SavedInv, SavedSinceStart
    <3>4. CASE since <= Retired /\ clean
      <4>1. PICK sub \in {"ir", "depth", "pointcloud"}, next \in {"depth", "rgb", "pointcloud"} :
              /\ WriteFile(sub, next)
              /\ sub = "ir" => next = "depth"
              /\ sub = "depth" => next = IF frame.mode = 4 THEN "pointcloud" ELSE "rgb"
              /\ sub = "pointcloud" => next = "rgb"
        BY <2>5 DEF WriteSome, WriteIr, WriteDepth, WriteCloud
      <4>2. /\ FileOf(sub, Retired) \in disk' /\ wpc = sub /\ wpc' = next
            /\ \A n \in since .. Retired - 1, other \in Needed(saveMode) :
                  FileOf(other, n) \in disk'
            /\ \A other \in Before(sub, saveMode) : FileOf(other, Retired) \in disk'
        BY <1>t, <3>4, <4>1, FileWritten DEF Files
      <4>3. frame.mode = saveMode /\ (sub = "pointcloud" => saveMode = 4)
        BY <3>4, <4>1, <4>2 DEF SavedInv, FoundInv, Files
      <4>4. Before(next, saveMode) \subseteq Before(sub, saveMode) \cup {sub}
        BY <4>1, <4>3 DEF Before, Needed
      <4>5. SavedSinceStart'
        BY <2>1, <2>5, <3>1, <3>2, <4>2 DEF SavedSinceStart
      <4> QED
        BY <2>1, <3>1, <3>2, <4>2, <4>3, <4>4, <4>5 DEF SavedInv
    <3> QED
      BY <1>t, <3>3, <3>4
  <2>6. CASE WriteRgb /\ UNCHANGED since
    <3>1. /\ WriteFile("rgb", "loop") /\ wpc = "rgb" /\ wpc' = "loop"
          /\ savePathIndex' = savePathIndex + 1 /\ ring' = Tail(ring)
      BY <2>6 DEF WriteRgb, WriteFile
    <3>2. Retired' = Retired + 1
      <4>1. Len(ring') = Len(ring) - 1 /\ Len(ring) \in Nat /\ produced \in Nat
        BY <3>1 DEF RingInv
      <4> QED
        BY <2>1, <4>1 DEF Retired
    <3>3. CASE since > Retired \/ ~clean
      <4>1. ~clean' \/ since' .. Retired' - 1 = {}
        BY <1>t, <2>1, <2>6, <3>2, <3>3
      <4> QED
        BY <3>1, <4>1 DEF SavedInv, SavedSinceStart, Files
    <3>4. CASE since <= Retired /\ clean
      <4>1. /\ FileOf("rgb", Retired) \in disk'
            /\ \A n \in since .. Retired - 1, other \in Needed(saveMode) :
                  FileOf(other, n) \in disk'
            /\ \A other \in Before("rgb", saveMode) : FileOf(other, Retired) \in disk'
        BY <1>t, <3>1, <3>4, FileWritten DEF Files
      <4>2. ASSUME NEW n \in since .. Retired, NEW other \in Needed(saveMode)
            PROVE  FileOf(other, n) \in disk'
        <5>1. other = "rgb" \/ other \in Before("rgb", saveMode)
          BY DEF Before
        <5>2. n = Retired \/ n \in since .. Retired - 1
          BY <1>t
        <5> QED
          BY <4>1, <5>1, <5>2
      <4>3. ASSUME NEW n \in since .. Retired, NEW other PROVE FileOf(other, n)' = FileOf(other, n)
        <5>1. savePathIndex' - (Retired' - n) = savePathIndex - (Retired - n)
          BY <1>t, <3>1, <3>2
        <5> QED
          BY <2>1, <5>1 DEF FileOf
      <4>4. since' .. Retired' - 1 = since .. Retired
        BY <1>t, <2>6, <3>2
      <4>5. SavedSinceStart'
        BY <2>1, <4>2, <4>3, <4>4 DEF SavedSinceStart
      <4> QED
        BY <3>1, <4>5 DEF SavedInv, Files
    <3> QED
      BY <1>t, <3>3, <3>4
  <2> QED
    BY <1>5, <2>2, <2>3, <2>4, <2>5, <2>6 DEF Writer
<1>6. CASE UNCHANGED vars
  <2>1. UNCHANGED <<writer, disk, since, clean, savePath, saveMode>> /\ Retired' = Retired
    BY <1>6 DEF vars, dialog, settings, files, worker, Retired
  <2> QED
    BY <2>1, SavedKept
<1> QED
  BY <1>2, <1>3, <1>4, <1>5, <1>6 DEF Next

(* After a start with the button every frame the writer takes has all its  *)
(* files on disk, of one number, until the numbers start again, however    *)
(* the removal of the directories, the making of them and the writer       *)
(* interleave (saveDialog.cpp:53-95, datasaver.cpp:91-190).                *)
THEOREM SavedSinceStartCorrect == Spec => []SavedSinceStart
<1>1. Init => SavedInv
  BY DEF Init, SavedInv, SavedSinceStart
<1>2. SavedInv => SavedSinceStart
  BY DEF SavedInv
<1>3. EmptyInv => FoundInv /\ RingInv
  BY DEF EmptyInv
<1> QED
  BY <1>1, <1>2, <1>3, InitEmpty, NextEmpty, SavedStep, TypeCorrect, PTL DEF Spec
===============================================================================
