------------------------------ MODULE FramePairing ------------------------------
(***************************************************************************)
(* imagereader.cpp, buildDataThread: how packets of the camera become      *)
(* pictures that are shown and frames that are saved, and what the GUI     *)
(* thread gets to see of the picture while the worker makes the next one.  *)
(*                                                                         *)
(* A packet carries an RGB picture and either an IR or a depth picture,    *)
(* each with a time stamp.  A picture is its stamp here, and 0 where there *)
(* is no real one: never received, or not decoded.                         *)
(***************************************************************************)
EXTENDS Integers

CONSTANTS
  Start,      \* the first stamp
  Window,     \* pictures closer than this belong together (34000 us)
  MaxTime,    \* bound on the stamps
  MaxQueue    \* bound on the pictures waiting for the GUI thread

ASSUME WindowAssumption == Window \in Nat \ {0}
ASSUME StartAssumption == Start \in Nat /\ Start >= Window
ASSUME BoundsAssumption == MaxTime \in Nat /\ MaxTime >= Start /\ MaxQueue \in Nat \ {0}

VARIABLES
  now,                            \* the camera's clock
  packet,                         \* what readRawData left in datagroup
  wpc,
  lastRgbT, irT, depthT,          \* stamps; rgbT is lastRgbT once a packet is accepted
  irGet, depthGet,
  irFrameAlign, depthFrame, RGBFrame,
  combineFrame,                   \* the picture to show, and its buffer
  queue,                          \* signals sendImage not yet delivered
  gpc, shown,                     \* the GUI thread in setImage, and what it shows
  (* history *)
  combined,                       \* the last picture completed
  intended,                       \* the last one completed when setImage began
  overlap,                        \* the worker was in the buffer during setImage
  stored                          \* the frame stored last

camera  == <<now, packet>>
stamps  == <<lastRgbT, irT, depthT>>
built   == <<irGet, depthGet, irFrameAlign, depthFrame, RGBFrame>>
buffer  == <<combineFrame, combined, intended, overlap>>
gui     == <<queue, gpc, shown>>
vars    == <<camera, wpc, stamps, built, buffer, gui, stored>>

Parts == {"ir", "depth", "rgb"}
Blank == [part \in Parts |-> 0]

(* what is in datagroup after a read that failed *)
NoPacket == [rgb |-> 0, decodes |-> FALSE, kind |-> "neither", stamp |-> 0]

Init ==
  /\ now = Start /\ packet = NoPacket
  /\ wpc = "read"
  /\ lastRgbT = 0 /\ irT = 0 /\ depthT = 0
  /\ irGet = FALSE /\ depthGet = FALSE
  /\ irFrameAlign = 0 /\ depthFrame = 0 /\ RGBFrame = 0
  /\ combineFrame = Blank /\ combined = Blank /\ intended = Blank /\ overlap = FALSE
  /\ queue = 0 /\ gpc = "idle" /\ shown = Blank
  /\ stored = [kind |-> "none", ir |-> 0, depth |-> 0, rgb |-> 0, rgbT |-> 0]

Close(a, b) == a - b < Window /\ b - a < Window

-------------------------------------------------------------------------------
(* The worker *)

(* The camera sends its newest RGB picture, perhaps for the second time,   *)
(* perhaps damaged, with a part that is about as old.                      *)
ReadPacket ==
  /\ wpc = "read" /\ wpc' = "accept"
  /\ \E later \in 0 .. Window, lag \in 0 .. 1, kind \in {"ir", "depth", "neither"},
        decodes \in BOOLEAN :
       /\ now + later <= MaxTime /\ now' = now + later 
       /\ \A earlier \in {Start, irT, depthT} : now' - lag >= earlier
       /\ packet' = [rgb |-> now', decodes |-> decodes, kind |-> kind, stamp |-> now' - lag]
  /\ UNCHANGED <<stamps, built, buffer, gui, stored>>

(* readRawData returns false, which nobody looks at *)
ReadFails ==
  /\ wpc = "read" /\ wpc' = "accept"
  /\ packet' = NoPacket
  /\ UNCHANGED <<now, stamps, built, buffer, gui, stored>>

(* the stamp of the RGB picture is that of the last one: nothing is used *)
SkipRepeated ==
  /\ wpc = "accept" /\ packet.rgb = lastRgbT
  /\ wpc' = "read"
  /\ UNCHANGED <<camera, stamps, built, buffer, gui, stored>>

(* A damaged picture decodes to an empty one; transpose and flip, which    *)
(* follow, leave it empty or throw, as the version of OpenCV has it.       *)
DecodeRgb ==
  /\ wpc = "accept" /\ packet.rgb # lastRgbT
  /\ wpc' = "build" \/ (~packet.decodes /\ wpc' = "dead")
  /\ lastRgbT' = packet.rgb
  /\ RGBFrame' = IF packet.decodes THEN packet.rgb ELSE 0
  /\ UNCHANGED <<camera, irT, depthT, irGet, depthGet, irFrameAlign, depthFrame, buffer, gui,
                 stored>>

BuildDepth ==
  /\ wpc = "build" /\ packet.kind = "depth"
  /\ wpc' = "combine"
  /\ depthT' = packet.stamp /\ depthFrame' = packet.stamp /\ depthGet' = TRUE
  /\ UNCHANGED <<camera, lastRgbT, irT, irGet, irFrameAlign, RGBFrame, buffer, gui, stored>>

(* mutant of BuildIr: the stamp is not taken over *)
BuildIrUnstamped ==
  /\ wpc = "build" /\ packet.kind = "ir"
  /\ wpc' = "combine"
  /\ irT' = lastRgbT /\ irFrameAlign' = packet.stamp /\ irGet' = TRUE
  /\ UNCHANGED <<camera, lastRgbT, depthT, depthGet, depthFrame, RGBFrame, buffer, gui, stored>>

BuildIr ==
  /\ wpc = "build" /\ packet.kind = "ir"
  /\ wpc' = "combine"
  /\ irT' = packet.stamp /\ irFrameAlign' = packet.stamp /\ irGet' = TRUE
  /\ UNCHANGED <<camera, lastRgbT, depthT, depthGet, depthFrame, RGBFrame, buffer, gui, stored>>

BuildNeither ==
  /\ wpc = "build" /\ packet.kind = "neither"
  /\ wpc' = "combine"
  /\ UNCHANGED <<camera, stamps, built, buffer, gui, stored>>

(* mutant of BothGot: one of the two pictures is enough *)
EitherGot == irGet \/ depthGet

(* getParam, which the code tests as well, is set before the first packet is used *)
BothGot == irGet /\ depthGet

NothingToShow ==
  /\ wpc = "combine" /\ ~BothGot
  /\ wpc' = "save"
  /\ UNCHANGED <<camera, stamps, built, buffer, gui, stored>>

(* mutant of CombineThrows: the exception is caught in the loop *)
CombineThrowsCaught ==
  /\ wpc = "combine" /\ BothGot /\ RGBFrame = 0
  /\ wpc' = "save"
  /\ UNCHANGED <<camera, stamps, built, buffer, gui, stored>>

(* hconcat throws on an empty picture, and the thread returns *)
CombineThrows ==
  /\ wpc = "combine" /\ BothGot /\ RGBFrame = 0
  /\ wpc' = "dead"
  /\ UNCHANGED <<camera, stamps, built, buffer, gui, stored>>

(* hconcat copies the pictures one after the other into the buffer, which  *)
(* is also that of every picture still waiting to be shown                 *)
Write(part, picture, next) ==
  /\ wpc' = next
  /\ combineFrame' = [combineFrame EXCEPT ![part] = picture]
  /\ overlap' = (overlap \/ gpc # "idle")
  /\ UNCHANGED <<camera, stamps, built, intended, gui, stored>>

CombineIr ==
  /\ wpc = "combine" /\ BothGot /\ RGBFrame # 0
  /\ Write("ir", irFrameAlign, "combineDepth") /\ UNCHANGED combined

(* mutant of CombineDepth: the third picture is left out *)
CombineDepthOnly ==
  /\ wpc = "combineDepth"
  /\ Write("depth", depthFrame, "send") /\ UNCHANGED combined

CombineDepth ==
  /\ wpc = "combineDepth"
  /\ Write("depth", depthFrame, "combineRgb") /\ UNCHANGED combined

CombineRgb ==
  /\ wpc = "combineRgb"
  /\ Write("rgb", RGBFrame, "send") /\ combined' = combineFrame'

(* mutant of SendImage: the signal is connected twice *)
SendImageTwice ==
  /\ wpc = "send" /\ queue < MaxQueue
  /\ wpc' = "save" /\ queue' = queue + 2
  /\ UNCHANGED <<camera, stamps, built, buffer, gpc, shown, stored>>

(* mutant of SendImage: no signal as long as another one waits *)
SendImageIfNoneWaits ==
  /\ wpc = "send" /\ queue < MaxQueue
  /\ wpc' = "save" /\ queue' = IF gpc = "idle" THEN queue + 1 ELSE queue
  /\ UNCHANGED <<camera, stamps, built, buffer, gpc, shown, stored>>

(* the signal is queued for the GUI thread *)
SendImage ==
  /\ wpc = "send" /\ queue < MaxQueue
  /\ wpc' = "save" /\ queue' = queue + 1
  /\ UNCHANGED <<camera, stamps, built, buffer, gpc, shown, stored>>

(* isGoingToSaveData is not set *)
NotSaving ==
  /\ wpc = "save" /\ wpc' = "read"
  /\ UNCHANGED <<camera, stamps, built, buffer, gui, stored>>

Store(kind) ==
  /\ stored' = [kind |-> kind, ir |-> irFrameAlign, depth |-> depthFrame, rgb |-> RGBFrame,
                rgbT |-> lastRgbT]
  /\ wpc = "save" /\ wpc' = "read"
  /\ UNCHANGED <<camera, stamps, built, buffer, gui>>

Synced == Close(lastRgbT, irT) /\ Close(lastRgbT, depthT)
StoreSynced == Synced /\ Store("synced")
StoreAlone == ~Synced /\ Store("alone")

Worker ==
  \/ ReadPacket \/ ReadFails \/ SkipRepeated \/ DecodeRgb
  \/ BuildDepth \/ BuildIr \/ BuildNeither
  \/ NothingToShow \/ CombineThrows \/ CombineIr \/ CombineDepth \/ CombineRgb \/ SendImage
  \/ NotSaving \/ StoreSynced \/ StoreAlone

-------------------------------------------------------------------------------
(* The GUI thread: setImage reads the buffer *)

Read(part, next) ==
  /\ gpc' = next
  /\ shown' = [shown EXCEPT ![part] = combineFrame[part]]
  /\ UNCHANGED <<camera, wpc, stamps, built, combineFrame, combined, stored>>

ShowIr ==
  /\ gpc = "idle" /\ queue > 0
  /\ Read("ir", "depth") /\ queue' = queue - 1
  /\ intended' = combined /\ overlap' = (wpc \in {"combineDepth", "combineRgb"})

ShowDepth == gpc = "depth" /\ Read("depth", "rgb") /\ UNCHANGED <<queue, intended, overlap>>

ShowRgb == gpc = "rgb" /\ Read("rgb", "idle") /\ UNCHANGED <<queue, intended, overlap>>

Gui == ShowIr \/ ShowDepth \/ ShowRgb

Next == Worker \/ Gui

Spec == Init /\ [][Next]_vars

(* both threads go on with what there is to do *)
FairSpec == Spec /\ WF_vars(Worker) /\ WF_vars(Gui)

-------------------------------------------------------------------------------
(* Properties *)

Stamp == {0} \cup Start .. MaxTime

TypeOK ==
  /\ now \in Start .. MaxTime
  /\ packet \in [rgb : Stamp, decodes : BOOLEAN, kind : {"ir", "depth", "neither"}, stamp : Stamp]
  /\ wpc \in {"read", "accept", "build", "combine", "combineDepth", "combineRgb", "send", "save",
              "dead"}
  /\ lastRgbT \in Stamp /\ irT \in Stamp /\ depthT \in Stamp
  /\ irGet \in BOOLEAN /\ depthGet \in BOOLEAN
  /\ irFrameAlign \in Stamp /\ depthFrame \in Stamp /\ RGBFrame \in Stamp
  /\ combineFrame \in [Parts -> Stamp] /\ combined \in [Parts -> Stamp]
  /\ intended \in [Parts -> Stamp] /\ overlap \in BOOLEAN
  /\ queue \in 0 .. MaxQueue /\ gpc \in {"idle", "depth", "rgb"} /\ shown \in [Parts -> Stamp]
  /\ stored \in [kind : {"none", "synced", "alone"}, ir : Stamp, depth : Stamp, rgb : Stamp,
                 rgbT : Stamp]

(* A frame saved as synced consists of three real pictures taken within a  *)
(* window of the RGB picture, whatever was lost, repeated or damaged       *)
(* before.  The one exception: a failed read before any IR or depth        *)
(* picture came saves nothing as a synced frame (imagereader.cpp:438).     *)
SyncedReal ==
  stored.kind = "synced" =>
    IF stored.rgbT # 0
    THEN /\ stored.rgb = stored.rgbT /\ stored.ir # 0 /\ stored.depth # 0
         /\ Close(stored.rgb, stored.ir) /\ Close(stored.rgb, stored.depth)
    ELSE stored.ir = 0 /\ stored.depth = 0

(* Once IR and depth have come, no frame without an RGB picture is handed  *)
(* to the saver, though nobody tests for it (imagereader.cpp:414-455).     *)
StoredHasRgb == [][stored' # stored /\ BothGot => stored'.rgb # 0]_vars

(* What is shown never contains a picture that was not received, however   *)
(* GUI and worker meet in the buffer (imagereader.cpp:414-425).            *)
ShownReal == gpc = "idle" => shown = Blank \/ \A part \in Parts : shown[part] # 0

(* The picture shown is the one completed last when the GUI thread began,  *)
(* unless the worker was in the buffer meanwhile: then it may be a mixture *)
(* of two (imagereader.cpp:423-424, qlabel_mouse.cpp:203-248).             *)
WholeUnlessOverlap == gpc = "idle" /\ ~overlap => shown = intended

(* When the worker stops making new pictures, because it died or because   *)
(* the camera sends nothing new, the last one is the one that stays.       *)
CatchesUp == []<><<TRUE>>_combineFrame \/ <>[](shown = combineFrame)

-------------------------------------------------------------------------------
(* The inductive invariant behind SyncedReal and StoredHasRgb: stamps and  *)
(* pictures belong together, and a pass that saves has a real RGB picture  *)
(* as soon as IR and depth have come.                                      *)

PacketReal ==
  /\ now \in Nat
  /\ packet.rgb = 0 => ~packet.decodes /\ packet.kind = "neither"
  /\ packet.rgb # 0 => packet.rgb \in Nat /\ packet.rgb >= Start
  /\ packet.kind # "neither" => packet.stamp \in Nat /\ packet.stamp >= Start

StampsOfPictures ==
  /\ irFrameAlign = irT /\ depthFrame = depthT
  /\ irT \in Nat /\ depthT \in Nat /\ lastRgbT \in Nat
  /\ IF irGet THEN irT >= Start ELSE irT = 0
  /\ IF depthGet THEN depthT >= Start ELSE depthT = 0
  /\ lastRgbT = 0 \/ lastRgbT >= Start
  /\ RGBFrame \in {0, lastRgbT}

RgbWhenSaving ==
  /\ wpc = "save" /\ BothGot => RGBFrame # 0
  /\ wpc \in {"combineDepth", "combineRgb", "send"} => BothGot /\ RGBFrame # 0

PairInv == PacketReal /\ StampsOfPictures /\ RgbWhenSaving /\ SyncedReal
===============================================================================
