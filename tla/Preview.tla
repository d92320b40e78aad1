-------------------------------- MODULE Preview --------------------------------
(***************************************************************************)
(* The main window, imageReader::run(int) and CCameraDS::OpenCamera: which *)
(* camera is opened when the user presses the preview button, and what the *)
(* status label says then.  All of it runs in the GUI thread, one slot at  *)
(* a time; what changes in between are the cameras plugged in.             *)
(*                                                                         *)
(* A camera is known to the program only by its place in the system's      *)
(* enumeration, counted from 0.                                            *)
(***************************************************************************)
EXTENDS Integers, SequencesExt

CONSTANTS
  Cameras,      \* all there are
  Modules,      \* those with "UVC" in their name
  Fitting,      \* those that offer YUY2 and take the size asked for
  Refusing,     \* those that offer YUY2 and refuse that size
  NoCamera,     \* none
  MaxChanges    \* bound on cameras plugged in or out

ASSUME CamerasAssumption == IsFiniteSet(Cameras)
ASSUME ModulesAssumption == Modules \subseteq Cameras
ASSUME FittingAssumption == Fitting \subseteq Cameras
ASSUME RefusingAssumption == Refusing \subseteq Cameras \ Fitting
ASSUME NoCameraAssumption == NoCamera \notin Cameras
ASSUME MaxChangesAssumption == MaxChanges \in Nat

VARIABLES
  plugged,              \* the system's enumeration of cameras
  comboBoxModule,       \* the numbers listed, one per module found
  current,              \* the entry selected, 0 for none
  camIndex,
  m_bConnected,
  m_pDeviceFilter,      \* the camera bound last, also when it failed later
  isRunning,
  cameraReady, labelModeText,
  (* history *)
  found,                \* the enumeration when the list was made
  warned,               \* who told the user that there is no camera, if any
  presses,              \* presses of the button that toggled the preview, up to 2
  changes

window  == <<comboBoxModule, current, camIndex, found, warned>>
camera  == <<m_bConnected, m_pDeviceFilter>>
status  == <<cameraReady, labelModeText>>
vars    == <<plugged, window, camera, isRunning, status, presses, changes>>

(* each camera at most once, in any order *)
Enumerations == {e \in SeqOf(Cameras, Cardinality(Cameras)) : IsInjective(e)}

(* mutant of Listed: the cameras are counted from 1 *)
ListedFromOne(enumeration) ==
  LET items[i \in 0 .. Len(enumeration)] ==
        IF i = 0 THEN <<>>
        ELSE IF enumeration[i] \in Modules THEN Append(items[i - 1], i) ELSE items[i - 1]
  IN  items[Len(enumeration)]

(* flashCam's loop: what it has added after i cameras *)
Listed(enumeration) ==
  LET items[i \in 0 .. Len(enumeration)] ==
        IF i = 0 THEN <<>>
        ELSE IF enumeration[i] \in Modules THEN Append(items[i - 1], i - 1) ELSE items[i - 1]
  IN  items[Len(enumeration)]

(* setModuleIndexSlot: toInt() makes 0 of a text that is no number *)
IndexOf(list, entry) == IF entry = 0 THEN 0 ELSE list[entry]

(* the constructor: flashCam, and setModuleIndexSlot after it *)
Init ==
  /\ plugged \in Enumerations
  /\ comboBoxModule = Listed(plugged)
  /\ current = IF comboBoxModule = <<>> THEN 0 ELSE 1
  /\ camIndex = IndexOf(comboBoxModule, current)
  /\ found = plugged
  /\ warned = IF comboBoxModule = <<>> THEN "constructor" ELSE "nobody"
  /\ m_bConnected = FALSE /\ m_pDeviceFilter = NoCamera
  /\ isRunning = FALSE
  /\ cameraReady = FALSE /\ labelModeText = "unstarted"
  /\ presses = 0 /\ changes = 0

-------------------------------------------------------------------------------
(* The cameras *)

Plug(c) ==
  /\ changes < MaxChanges /\ changes' = changes + 1
  /\ c \notin Range(plugged)
  /\ \E place \in 1 .. Len(plugged) + 1 : plugged' = InsertAt(plugged, place, c)
  /\ UNCHANGED <<window, camera, isRunning, status, presses>>

Unplug ==
  /\ changes < MaxChanges /\ changes' = changes + 1
  /\ \E place \in 1 .. Len(plugged) : plugged' = RemoveAt(plugged, place)
  /\ UNCHANGED <<window, camera, isRunning, status, presses>>

-------------------------------------------------------------------------------
(* The list *)

(* The first entry added becomes the current one, and the text that        *)
(* changes with it sets camIndex (setModuleIndexSlot).                     *)
FlashCam ==
  /\ comboBoxModule' = Listed(plugged) /\ found' = plugged
  /\ \/ /\ comboBoxModule' = <<>>
        /\ current' = 0 /\ camIndex' = -1 /\ warned' = "button"
     \/ /\ comboBoxModule' # <<>>
        /\ current' = 1 /\ camIndex' = IndexOf(comboBoxModule', 1) /\ warned' = "nobody"
  /\ UNCHANGED <<plugged, camera, isRunning, status, presses, changes>>

(* mutant of Choose: the entry's place is taken for its number *)
ChooseByPlace ==
  \E entry \in 1 .. Len(comboBoxModule) :
    /\ entry # current /\ current' = entry
    /\ camIndex' = entry - 1
    /\ UNCHANGED <<plugged, comboBoxModule, found, warned, camera, isRunning, status,
                   presses, changes>>

(* the user picks another entry *)
Choose ==
  \E entry \in 1 .. Len(comboBoxModule) :
    /\ entry # current /\ current' = entry
    /\ camIndex' = IndexOf(comboBoxModule, entry)
    /\ UNCHANGED <<plugged, comboBoxModule, found, warned, camera, isRunning, status,
                   presses, changes>>

-------------------------------------------------------------------------------
(* What the window does with the reader's signals *)

(* cameraInitFlag(true) *)
CameraLost == cameraReady' = FALSE /\ labelModeText' = "unconnected"

(* showstatus, which says nothing before the camera is known to be there *)
StatusText(ready, running) ==
  IF ~ready THEN labelModeText ELSE IF running THEN "running" ELSE "stopped"

-------------------------------------------------------------------------------
(* The preview button, runCamera: run(int) *)

(* BindFilter *)
Binds == camIndex >= 0 /\ camIndex < Len(plugged)

OpenFailed ==
  /\ CameraLost
  /\ UNCHANGED <<plugged, window, m_bConnected, isRunning, presses, changes>>

NoSuchCamera ==
  /\ ~m_bConnected /\ ~Binds
  /\ m_pDeviceFilter' = m_pDeviceFilter
  /\ OpenFailed

(* the size is refused, or the graph cannot be connected *)
CameraFails ==
  /\ ~m_bConnected /\ Binds
  /\ m_pDeviceFilter' = plugged[camIndex + 1]
  /\ OpenFailed

ToggledWith(ready) ==
  /\ isRunning' = ~isRunning
  /\ cameraReady' = ready /\ labelModeText' = StatusText(ready, isRunning')
  /\ presses' = IF presses = 2 THEN 2 ELSE presses + 1
  /\ UNCHANGED <<plugged, window, changes>>

(* a camera that offers no YUY2 keeps its own format and size; this path   *)
(* of run(int) sends no sendLostServer(false)                              *)
OpenCamera ==
  /\ ~m_bConnected /\ Binds /\ plugged[camIndex + 1] \notin Refusing
  /\ m_bConnected' = TRUE /\ m_pDeviceFilter' = plugged[camIndex + 1]
  /\ ToggledWith(cameraReady)

(* mutant of Toggle: the label is not told that the camera is there *)
ToggleUntold ==
  /\ m_bConnected
  /\ UNCHANGED camera
  /\ ToggledWith(cameraReady)

(* an open camera is kept, whatever camIndex says *)
Toggle ==
  /\ m_bConnected
  /\ UNCHANGED camera
  /\ ToggledWith(TRUE)

RunCamera == NoSuchCamera \/ CameraFails \/ OpenCamera \/ Toggle

Next ==
  \/ \E c \in Cameras : Plug(c)
  \/ Unplug \/ FlashCam \/ Choose \/ RunCamera

Spec == Init /\ [][Next]_vars

-------------------------------------------------------------------------------
(* Properties *)

(* The list numbers places of the enumeration it was made from, and the    *)
(* index is -1 or one of the numbers a list can hold.                      *)
TypeOK ==
  /\ \A e \in {plugged, found} : e \in Seq(Cameras) /\ IsInjective(e)
  /\ comboBoxModule = Listed(found)
  /\ current \in 0 .. Len(comboBoxModule)
  /\ camIndex \in {-1, 0} \cup Range(comboBoxModule)
  /\ m_bConnected \in BOOLEAN /\ m_pDeviceFilter \in Cameras \cup {NoCamera}
  /\ isRunning \in BOOLEAN /\ cameraReady \in BOOLEAN
  /\ labelModeText \in {"unstarted", "unconnected", "running", "stopped"}
  /\ warned \in {"nobody", "constructor", "button"}
  /\ presses \in 0 .. 2 /\ changes \in 0 .. MaxChanges

(* From the second press on the label tells whether the preview runs, and  *)
(* before it never says "running", however many attempts have failed       *)
(* (imagereader.cpp:114-142, VisionDemo.cpp:323-356).                      *)
LabelRightFromSecondPress ==
  IF presses = 2 THEN labelModeText = (IF isRunning THEN "running" ELSE "stopped")
                 ELSE labelModeText \in {"unstarted", "unconnected"}

(* As long as the list is up to date and not empty, the camera opened is   *)
(* the one selected in it, and a depth module (VisionDemo.cpp:332-399).    *)
OpensWhatIsShown ==
  [][~m_bConnected /\ m_bConnected' /\ found = plugged /\ current # 0 =>
       /\ m_pDeviceFilter' = plugged[comboBoxModule[current] + 1]
       /\ m_pDeviceFilter' \in Modules]_vars

(* After the flash button found no module, none is opened until it finds   *)
(* one, whatever is plugged in meanwhile (VisionDemo.cpp:396-398).         *)
NoneOpenedAfterFlash ==
  [][warned = "button" /\ ~m_bConnected => ~m_bConnected']_vars

(* A preview runs with an open camera only, which is one that did not      *)
(* refuse the size; attempts that fail leave none (CameraDS.cpp:108-271).  *)
RunsWithUsableCamera == isRunning => m_bConnected /\ m_pDeviceFilter \notin Refusing

(* Claim of "No Camera Found" (VisionDemo.cpp:397): as long as this is the *)
(* last thing said, no camera is opened.                                   *)
NoneOpenedAfterWarning == [][warned # "nobody" /\ ~m_bConnected => ~m_bConnected']_vars

-------------------------------------------------------------------------------
(* The inductive invariant behind the first four properties: how far the   *)
(* window has got with the camera, and where its index comes from.         *)

OpenSinceFirstPress ==
  /\ m_bConnected <=> presses # 0
  /\ presses = 0 => ~isRunning
  /\ presses = 1 => isRunning
  /\ m_bConnected => m_pDeviceFilter \notin Refusing

ReadySinceSecondPress == cameraReady <=> presses = 2

IndexFromList ==
  /\ warned = "button" => comboBoxModule = <<>> /\ camIndex = -1
  /\ comboBoxModule = <<>> => current = 0
  /\ current # 0 => camIndex = comboBoxModule[current]

PreviewInv ==
  /\ presses \in 0 .. 2
  /\ OpenSinceFirstPress /\ ReadySinceSecondPress /\ LabelRightFromSecondPress
  /\ IndexFromList
===============================================================================
