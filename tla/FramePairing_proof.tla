-------------------------- MODULE FramePairing_proof --------------------------
(***************************************************************************)
(* Proofs about FramePairing, for any window, any first stamp not below    *)
(* it, any time the camera runs and any number of pictures waiting.        *)
(***************************************************************************)
EXTENDS FramePairing, TLAPS

USE DEF PairInv, PacketReal, StampsOfPictures, RgbWhenSaving, BothGot

(* At the start nothing has come and nothing is stored.                    *)
LEMMA InitPair == Init => PairInv
  BY StartAssumption DEF Init, NoPacket, SyncedReal

(* Steps that touch neither packet, pictures nor the frame stored.         *)
LEMMA FrameKept ==
  ASSUME PairInv, UNCHANGED <<camera, stamps, built, stored>>,
         wpc' \in {"save", "combineDepth", "combineRgb", "send"} /\ BothGot => RGBFrame # 0,
         wpc' \in {"combineDepth", "combineRgb", "send"} => BothGot
  PROVE  PairInv'
  BY DEF camera, stamps, built, SyncedReal, Close

(* A frame whose RGB stamp is close to both others, of a pass that saves,  *)
(* is real or saved before anything came.                                  *)
LEMMA StoreKeeps ==
  ASSUME PairInv, NEW kind \in {"synced", "alone"}, Store(kind), kind = "synced" => Synced
  PROVE  PairInv'
<1>1. UNCHANGED <<camera, stamps, built>> /\ wpc = "save" /\ wpc' = "read"
  BY DEF Store
<1>2. /\ stored'.kind = kind /\ stored'.ir = irT /\ stored'.depth = depthT
      /\ stored'.rgb = RGBFrame /\ stored'.rgbT = lastRgbT
  BY DEF Store
<1>3. SyncedReal'
  <2>1. CASE kind = "alone"
    BY <1>2, <2>1 DEF SyncedReal
  <2>2. CASE kind = "synced"
    <3>1. Close(lastRgbT, irT) /\ Close(lastRgbT, depthT)
      BY <2>2 DEF Synced
    <3>2. CASE lastRgbT # 0
      <4>1. irT # 0 /\ depthT # 0
        BY <3>1, <3>2, StartAssumption, WindowAssumption DEF Close
      <4>2. RGBFrame = lastRgbT
        BY <1>1, <4>1
      <4> QED
        BY <1>2, <3>1, <3>2, <4>1, <4>2 DEF SyncedReal, Close
    <3>3. CASE lastRgbT = 0
      <4>1. irT = 0 /\ depthT = 0
        BY <3>1, <3>3, StartAssumption, WindowAssumption DEF Close
      <4> QED
        BY <1>2, <3>3, <4>1 DEF SyncedReal
    <3> QED
      BY <3>2, <3>3
  <2> QED
    BY <2>1, <2>2
<1> QED
  BY <1>1, <1>3 DEF camera, stamps, built

(* Every step of the worker and of the GUI thread keeps the invariant.     *)
LEMMA NextPair == PairInv /\ [Next]_vars => PairInv'
<1> SUFFICES ASSUME PairInv, [Next]_vars PROVE PairInv'
  OBVIOUS
<1>1. CASE ReadPacket
  <2>1. PICK later \in 0 .. Window, lag \in 0 .. 1, kind \in {"ir", "depth", "neither"},
             decodes \in BOOLEAN :
          /\ now + later <= MaxTime /\ now' = now + later
          /\ \A earlier \in {Start, irT, depthT} : now' - lag >= earlier
          /\ packet' = [rgb |-> now', decodes |-> decodes, kind |-> kind, stamp |-> now' - lag]
    BY <1>1, Zenon DEF ReadPacket
  <2>2. wpc' = "accept" /\ UNCHANGED <<stamps, built, stored>>
    BY <1>1 DEF ReadPacket
  <2>3. now' \in Nat /\ now' >= Start /\ now' - lag \in Nat /\ now' - lag >= Start /\ now' # 0
    BY <2>1, StartAssumption, WindowAssumption
  <2>4. PacketReal'
    BY <2>1, <2>3
  <2>5. StampsOfPictures' /\ RgbWhenSaving'
    BY <2>2 DEF stamps, built
  <2>6. SyncedReal'
    BY <2>2 DEF SyncedReal, Close
  <2> QED
    BY <2>4, <2>5, <2>6
<1>2. CASE ReadFails
  BY <1>2 DEF ReadFails, NoPacket, stamps, built, SyncedReal, Close
<1>3. CASE SkipRepeated
  BY <1>3, FrameKept DEF SkipRepeated, camera
<1>4. CASE DecodeRgb
  BY <1>4, StartAssumption DEF DecodeRgb, camera, SyncedReal, Close
<1>5. CASE BuildDepth
  BY <1>5 DEF BuildDepth, camera, SyncedReal, Close
<1>6. CASE BuildIr
  BY <1>6 DEF BuildIr, camera, SyncedReal, Close
<1>7. CASE BuildNeither
  BY <1>7, FrameKept DEF BuildNeither, camera
<1>8. CASE NothingToShow
  BY <1>8, FrameKept DEF NothingToShow, camera
<1>9. CASE CombineThrows
  BY <1>9, FrameKept DEF CombineThrows, camera
<1>10. CASE CombineIr
  BY <1>10, FrameKept DEF CombineIr, Write, camera
<1>11. CASE CombineDepth
  BY <1>11, FrameKept DEF CombineDepth, Write, camera
<1>12. CASE CombineRgb
  BY <1>12, FrameKept DEF CombineRgb, Write, camera
<1>13. CASE SendImage
  BY <1>13, FrameKept DEF SendImage, camera
<1>14. CASE NotSaving
  BY <1>14, FrameKept DEF NotSaving, camera
<1>15. CASE StoreSynced
  BY <1>15, StoreKeeps DEF StoreSynced
<1>16. CASE StoreAlone
  BY <1>16, StoreKeeps DEF StoreAlone
<1>17. CASE Gui
  <2>1. UNCHANGED <<camera, wpc, stamps, built, stored>>
    BY <1>17, Zenon DEF Gui, ShowIr, ShowDepth, ShowRgb, Read
  <2> QED
    BY <2>1, FrameKept
<1>18. CASE UNCHANGED vars
  BY <1>18, FrameKept DEF vars, camera
<1> QED
  BY <1>1, <1>2, <1>3, <1>4, <1>5, <1>6, <1>7, <1>8, <1>9, <1>10, <1>11, <1>12, <1>13, <1>14,
     <1>15, <1>16, <1>17, <1>18 DEF Next, Worker

(* The invariant holds in every reachable state.                           *)
THEOREM PairCorrect == Spec => []PairInv
<1>1. PairInv /\ [Next]_vars => PairInv'
  BY NextPair
<1> QED
  BY InitPair, <1>1, PTL DEF Spec

(* Synced frames consist of three real pictures of one moment              *)
(* (imagereader.cpp:438).                                                  *)
THEOREM SyncedRealCorrect == Spec => []SyncedReal
<1>1. PairInv => SyncedReal
  OBVIOUS
<1> QED
  BY <1>1, PairCorrect, PTL

(* Once IR and depth have come, every frame handed to the saver has an RGB *)
(* picture (imagereader.cpp:414-455).                                      *)
THEOREM StoredHasRgbCorrect == Spec => StoredHasRgb
<1>1. PairInv /\ [Next]_vars => [stored' # stored /\ BothGot => stored'.rgb # 0]_vars
  <2> SUFFICES ASSUME PairInv, Next, stored' # stored, BothGot
               PROVE  stored'.rgb # 0
    BY DEF vars
  <2>1. \E kind \in {"synced", "alone"} : Store(kind)
    BY Zenon DEF Next, Worker, Gui, ReadPacket, ReadFails, SkipRepeated, DecodeRgb, BuildDepth,
       BuildIr, BuildNeither, NothingToShow, CombineThrows, CombineIr, CombineDepth, CombineRgb,
       Write, SendImage, NotSaving, StoreSynced, StoreAlone, ShowIr, ShowDepth, ShowRgb, Read
  <2>2. stored'.rgb = RGBFrame /\ wpc = "save"
    BY <2>1 DEF Store
  <2> QED
    BY <2>2
<1> QED
  BY <1>1, PairCorrect, PTL DEF Spec, StoredHasRgb

-------------------------------------------------------------------------------
(* At the start there is no picture, and the clock shows the first stamp.  *)
LEMMA InitType == Init => TypeOK
<1> SUFFICES ASSUME Init PROVE TypeOK
  OBVIOUS
<1> USE StartAssumption, BoundsAssumption DEF Init
<1>1. now \in Start .. MaxTime /\ 0 \in Stamp /\ queue \in 0 .. MaxQueue
  BY DEF Stamp
<1>2. packet \in [rgb : Stamp, decodes : BOOLEAN, kind : {"ir", "depth", "neither"},
                  stamp : Stamp]
  BY <1>1 DEF NoPacket
<1>3. Blank \in [Parts -> Stamp]
  BY <1>1 DEF Blank
<1> QED
  BY <1>1, <1>2, <1>3 DEF TypeOK

(* Every step of the two threads keeps the types; stamps stay between the  *)
(* first and the last.                                                     *)
LEMMA NextType == TypeOK /\ [Next]_vars => TypeOK'
<1> SUFFICES ASSUME TypeOK, [Next]_vars PROVE TypeOK'
  OBVIOUS
<1> USE DEF TypeOK
<1>1. CASE ReadPacket
  <2>1. PICK later \in 0 .. Window, lag \in 0 .. 1, kind \in {"ir", "depth", "neither"},
             decodes \in BOOLEAN :
          /\ now + later <= MaxTime /\ now' = now + later
          /\ \A earlier \in {Start, irT, depthT} : now' - lag >= earlier
          /\ packet' = [rgb |-> now', decodes |-> decodes, kind |-> kind, stamp |-> now' - lag]
    BY <1>1, Zenon DEF ReadPacket
  <2>2. now' \in Start .. MaxTime /\ now' - lag \in Start .. MaxTime
    BY <2>1, StartAssumption, BoundsAssumption, WindowAssumption
  <2>3. now' \in Stamp /\ now' - lag \in Stamp
    BY <2>2 DEF Stamp
  <2>4. packet' \in [rgb : Stamp, decodes : BOOLEAN, kind : {"ir", "depth", "neither"},
                     stamp : Stamp]
    BY <2>1, <2>3
  <2> QED
    BY <1>1, <2>2, <2>4 DEF ReadPacket, stamps, built, buffer, gui
<1>2. CASE ReadFails
  <2>1. packet' \in [rgb : Stamp, decodes : BOOLEAN, kind : {"ir", "depth", "neither"},
                     stamp : Stamp]
    BY <1>2 DEF ReadFails, NoPacket, Stamp
  <2> QED
    BY <1>2, <2>1 DEF ReadFails, stamps, built, buffer, gui
<1>3. CASE SkipRepeated
  BY <1>3 DEF SkipRepeated, camera, stamps, built, buffer, gui
<1>4. CASE DecodeRgb
  BY <1>4 DEF DecodeRgb, camera, buffer, gui, Stamp
<1>5. CASE BuildDepth
  BY <1>5 DEF BuildDepth, camera, buffer, gui
<1>6. CASE BuildIr
  BY <1>6 DEF BuildIr, camera, buffer, gui
<1>7. CASE BuildNeither \/ NothingToShow \/ CombineThrows \/ NotSaving
  BY <1>7 DEF BuildNeither, NothingToShow, CombineThrows, NotSaving, camera, stamps, built,
     buffer, gui
<1>8. ASSUME NEW part, NEW picture \in Stamp, NEW next \in {"combineDepth", "combineRgb", "send"},
             Write(part, picture, next), combined' \in {combined, combineFrame'}
      PROVE  TypeOK'
  <2>1. combineFrame' \in [Parts -> Stamp]
    BY <1>8 DEF Write
  <2>2. overlap' \in BOOLEAN
    BY <1>8, Zenon DEF Write
  <2> QED
    BY <1>8, <2>1, <2>2 DEF Write, camera, stamps, built, gui
<1>9. CASE CombineIr
  BY <1>8, <1>9 DEF CombineIr
<1>10. CASE CombineDepth
  BY <1>8, <1>10 DEF CombineDepth
<1>11. CASE CombineRgb
  BY <1>8, <1>11 DEF CombineRgb
<1>12. CASE SendImage
  <2>1. queue' \in 0 .. MaxQueue
    BY <1>12, BoundsAssumption DEF SendImage
  <2> QED
    BY <1>12, <2>1 DEF SendImage, camera, stamps, built, buffer
<1>13. ASSUME NEW kind \in {"synced", "alone"}, Store(kind) PROVE TypeOK'
  BY <1>13 DEF Store, camera, stamps, built, buffer, gui
<1>14. CASE StoreSynced \/ StoreAlone
  BY <1>13, <1>14 DEF StoreSynced, StoreAlone
<1>15. ASSUME NEW part \in Parts, NEW next \in {"idle", "depth", "rgb"}, Read(part, next),
              queue' \in 0 .. MaxQueue, intended' \in {intended, combined}, overlap' \in BOOLEAN
       PROVE  TypeOK'
  <2>1. shown' \in [Parts -> Stamp]
    BY <1>15 DEF Read
  <2> QED
    BY <1>15, <2>1 DEF Read, camera, stamps, built
<1>16. CASE ShowIr
  <2>1. queue' \in 0 .. MaxQueue
    BY <1>16, BoundsAssumption DEF ShowIr
  <2>2. overlap' = (wpc \in {"combineDepth", "combineRgb"})
    BY <1>16 DEF ShowIr
  <2>3. overlap' \in BOOLEAN
    BY <2>2, SMT
  <2> QED
    BY <1>15, <1>16, <2>1, <2>3 DEF ShowIr, Parts
<1>17. CASE ShowDepth
  BY <1>15, <1>17 DEF ShowDepth, Parts
<1>18. CASE ShowRgb
  BY <1>15, <1>18 DEF ShowRgb, Parts
<1>19. CASE UNCHANGED vars
  BY <1>19 DEF vars, camera, stamps, built, buffer, gui
<1> QED
  BY <1>1, <1>2, <1>3, <1>4, <1>5, <1>6, <1>7, <1>9, <1>10, <1>11, <1>12, <1>14, <1>16, <1>17,
     <1>18, <1>19, Zenon DEF Next, Worker, Gui

(* Stamps, buffers and the number of pictures that wait keep their ranges. *)
THEOREM TypeCorrect == Spec => []TypeOK
<1>1. TypeOK /\ [Next]_vars => TypeOK'
  BY NextType
<1> QED
  BY InitType, <1>1, PTL DEF Spec

-------------------------------------------------------------------------------
(* The shared buffer.  As long as the worker has kept out of it, what the  *)
(* GUI thread has copied so far is part of the picture it began with.      *)
Copied(parts) == \A part \in parts : shown[part] = intended[part]

BufferInv ==
  /\ wpc \notin {"combineDepth", "combineRgb"} => combined = combineFrame
  /\ gpc # "idle" /\ ~overlap => intended = combineFrame
  /\ gpc = "depth" /\ ~overlap => Copied({"ir"})
  /\ gpc = "rgb" /\ ~overlap => Copied({"ir", "depth"})
  /\ WholeUnlessOverlap

(* No picture has been combined at the start. *)
LEMMA InitBuffer == Init => BufferInv
  BY DEF Init, BufferInv, WholeUnlessOverlap

(* Every copy of the worker and every read of the GUI keeps it. *)
LEMMA NextBuffer == TypeOK /\ BufferInv /\ [Next]_vars => BufferInv'
<1> SUFFICES ASSUME TypeOK, BufferInv, [Next]_vars PROVE BufferInv'
  OBVIOUS
<1> USE DEF BufferInv, WholeUnlessOverlap, Copied
<1>1. ASSUME UNCHANGED <<buffer, gpc, shown>>,
             wpc' \in {"combineDepth", "combineRgb"} <=> wpc \in {"combineDepth", "combineRgb"}
      PROVE  BufferInv'
  BY <1>1 DEF buffer
<1>2. CASE ReadPacket \/ ReadFails \/ SkipRepeated \/ DecodeRgb \/ BuildDepth \/ BuildIr
           \/ BuildNeither \/ NothingToShow \/ CombineThrows \/ SendImage \/ NotSaving
  BY <1>1, <1>2 DEF ReadPacket, ReadFails, SkipRepeated, DecodeRgb, BuildDepth, BuildIr,
     BuildNeither, NothingToShow, CombineThrows, SendImage, NotSaving, gui
<1>3. CASE StoreSynced \/ StoreAlone
  BY <1>1, <1>3 DEF StoreSynced, StoreAlone, Store, gui
<1>4. ASSUME NEW part, NEW picture, NEW next, Write(part, picture, next),
             \/ next \in {"combineDepth", "combineRgb"}
             \/ combined' = combineFrame'
      PROVE  BufferInv'
  <2>1. /\ UNCHANGED <<intended, gpc, shown>> /\ wpc' = next
        /\ overlap' = (overlap \/ gpc # "idle")
    BY <1>4 DEF Write, gui
  <2>2. gpc' # "idle" => overlap'
    BY <2>1
  <2>3. gpc' = "idle" /\ ~overlap' => shown' = intended'
    BY <2>1
  <2> QED
    BY <1>4, <2>1, <2>2, <2>3
<1>5. CASE CombineIr
  BY <1>4, <1>5 DEF CombineIr
<1>6. CASE CombineDepth
  BY <1>4, <1>6 DEF CombineDepth
<1>7. CASE CombineRgb
  BY <1>4, <1>7 DEF CombineRgb
<1>8. CASE ShowIr
  BY <1>8 DEF ShowIr, Read, TypeOK, Parts
<1>9. CASE ShowDepth
  BY <1>9 DEF ShowDepth, Read, TypeOK, Parts
<1>10. CASE ShowRgb
  <2>1. /\ UNCHANGED <<wpc, combineFrame, combined, intended, overlap>>
        /\ gpc = "rgb" /\ gpc' = "idle"
        /\ shown' = [shown EXCEPT !["rgb"] = combineFrame["rgb"]]
    BY <1>10 DEF ShowRgb, Read
  <2>2. ~overlap => shown' = intended
    <3> SUFFICES ASSUME ~overlap PROVE shown' = intended
      OBVIOUS
    <3>1. \A part \in Parts : shown'[part] = intended[part]
      BY <2>1 DEF TypeOK, Parts
    <3>2. shown' \in [Parts -> Stamp] /\ intended \in [Parts -> Stamp]
      BY <2>1 DEF TypeOK
    <3> QED
      BY <3>1, <3>2
  <2> QED
    BY <2>1, <2>2
<1>11. CASE UNCHANGED vars
  BY <1>1, <1>11 DEF vars, gui
<1> QED
  BY <1>2, <1>3, <1>5, <1>6, <1>7, <1>8, <1>9, <1>10, <1>11, Zenon DEF Next, Worker, Gui

(* For any number of pictures waiting, what is shown is the picture        *)
(* completed last, unless the worker was in the buffer meanwhile           *)
(* (imagereader.cpp:423-424, qlabel_mouse.cpp:203-248).                    *)
THEOREM WholeUnlessOverlapCorrect == Spec => []WholeUnlessOverlap
<1>1. Init => BufferInv
  BY InitBuffer
<1>2. TypeOK /\ BufferInv /\ [Next]_vars => BufferInv'
  BY NextBuffer
<1>3. BufferInv => WholeUnlessOverlap
  BY DEF BufferInv
<1> QED
  BY TypeCorrect, <1>1, <1>2, <1>3, PTL DEF Spec

-------------------------------------------------------------------------------
(* The buffer fills from the left, and is never emptied: a part once       *)
(* written is real in whatever is written over it.                         *)
Real(picture, parts) == \A part \in parts : picture[part] # 0

FillInv ==
  /\ wpc = "combineDepth" => Real(combineFrame, {"ir"})
  /\ wpc = "combineRgb" => Real(combineFrame, {"ir", "depth"})
  /\ wpc = "send" \/ queue > 0 \/ gpc # "idle" => Real(combineFrame, Parts)
  /\ gpc = "depth" => Real(shown, {"ir"})
  /\ gpc = "rgb" => Real(shown, {"ir", "depth"})
  /\ ShownReal

(* At the start no third of the buffer is written. *)
LEMMA InitFill == Init => FillInv
  BY DEF Init, FillInv, ShownReal

(* Only real pictures are copied into the buffer and out of it. *)
LEMMA NextFill == TypeOK /\ PairInv /\ FillInv /\ [Next]_vars => FillInv'
<1> SUFFICES ASSUME TypeOK, PairInv, FillInv, [Next]_vars PROVE FillInv'
  OBVIOUS
<1> USE DEF FillInv, ShownReal, Real, Parts
<1>1. ASSUME UNCHANGED <<combineFrame, queue, gpc, shown>>,
             wpc' \notin {"combineDepth", "combineRgb", "send"}
      PROVE  FillInv'
  BY <1>1
<1>2. CASE ReadPacket \/ ReadFails \/ SkipRepeated \/ DecodeRgb \/ BuildDepth \/ BuildIr
           \/ BuildNeither \/ NothingToShow \/ CombineThrows \/ NotSaving
  BY <1>1, <1>2 DEF ReadPacket, ReadFails, SkipRepeated, DecodeRgb, BuildDepth, BuildIr,
     BuildNeither, NothingToShow, CombineThrows, NotSaving, buffer, gui
<1>3. CASE StoreSynced \/ StoreAlone
  BY <1>1, <1>3 DEF StoreSynced, StoreAlone, Store, buffer, gui
<1>4. wpc \in {"combine", "combineDepth", "combineRgb"} /\ BothGot /\ RGBFrame # 0 =>
        irFrameAlign # 0 /\ depthFrame # 0
  BY StartAssumption, WindowAssumption
<1>5. CASE CombineIr
  BY <1>4, <1>5 DEF CombineIr, Write, gui, TypeOK
<1>6. CASE CombineDepth
  BY <1>4, <1>6 DEF CombineDepth, Write, gui, TypeOK
<1>7. CASE CombineRgb
  BY <1>4, <1>7 DEF CombineRgb, Write, gui, TypeOK
<1>8. CASE SendImage
  BY <1>8 DEF SendImage, buffer, TypeOK
<1>9. CASE ShowIr
  BY <1>9, BoundsAssumption DEF ShowIr, Read, TypeOK
<1>10. CASE ShowDepth
  BY <1>10 DEF ShowDepth, Read, TypeOK
<1>11. CASE ShowRgb
  BY <1>11 DEF ShowRgb, Read, TypeOK
<1>12. CASE UNCHANGED vars
  BY <1>12 DEF vars, buffer, gui
<1> QED
  BY <1>2, <1>3, <1>5, <1>6, <1>7, <1>8, <1>9, <1>10, <1>11, <1>12, Zenon DEF Next, Worker, Gui

(* For any number of pictures waiting, what is shown never contains a      *)
(* picture that was not received (imagereader.cpp:414-425).                *)
THEOREM ShownRealCorrect == Spec => []ShownReal
<1>1. Init => FillInv
  BY InitFill
<1>2. TypeOK /\ PairInv /\ FillInv /\ [Next]_vars => FillInv'
  BY NextFill
<1>3. FillInv => ShownReal
  BY DEF FillInv
<1> QED
  BY TypeCorrect, PairCorrect, <1>1, <1>2, <1>3, PTL DEF Spec
===============================================================================
