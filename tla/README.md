# VisionDemo: models, model checks and proofs

VisionDemo is a Windows program (C++, Qt, OpenCV, DirectShow) that shows the
pictures of a depth camera module and records them to disk. This directory
holds TLA+ models of its own code (`src/VisionDemo/`), the TLC configurations
that check them on small instances, and proofs of their main properties.

## 1. Inventory

### 1.1 Components, their state and their operations

| component | source | state it keeps | operations |
|---|---|---|---|
| frame saver `dataSaver` | `datasaver.cpp/.h` | two rings of 1000 pictures (synced frames; RGB-only pictures), two cursors for each, directory, mode, file number, idle count, ready and quit flags | `storeData`, `storeAloneRGBData`, `setParam`, `setSavePathAndMode`, `checkReady`, `releaseDateSaver`; the thread `saveDataToDevice` |
| frame builder `imageReader` | `imagereader.cpp/.h` | running, saving and quit flags, frame counter and limit, directory and mode, selected areas, the pictures being built, the calibration | slots the GUI calls (`run`, `saveDataSlot`, `saveStopSlot`, `saveModeSetSlot`, `savePathSlot`, `acceptLocation`, `acceptArea`, `setShowPic`, `stopingProgram`, `release`); the thread `buildDataThread` |
| main window `VisionDemo` | `VisionDemo.cpp/.h` | camera list and index, whether the camera works, the status label, the check boxes | buttons, menu and check-box slots, `flashCam`, `closeEvent`, `buildConnect` |
| save dialog `saveDialog` | `saveDialog.cpp/.h` | whether the directory is usable; the widgets: directory, mode, limit | `savePathBtnSlot`, `savePathCheckSlot`, `saveBtnSlot`, `stopBtnSlot`, `chooseModeThree`, `chooseModeFour` |
| picture label `QLabel_Mouse` | `qlabel_mouse.cpp/.h` | the picture shown, the rectangles drawn, which one is next | mouse press, move and release, `setImage` |
| camera access `CCameraDS` | `CameraDS.cpp/.h` | the DirectShow graph, whether it is open | `OpenCamera`, `readRawData`, `CloseCamera`, `CameraCount`, `CameraName` |
| `logWriter` | `logwriter.cpp/.h` | a directory | `setSavePath`; `writeAlog` is never called |
| picture helpers | `util.hpp` | none | `depth2RGB`, `dealDepthMapColor` and helpers nobody calls |
| `dsense` filters | `src/dense_tencent/` | a closed library | `denoise`, `filling` (external) |
| DirectShow, pthreads | `src/DirectShow/`, `src/pthreads/` | vendored headers and samples | none of the program's own logic |

`imageReader::run()` without argument, `readImageThread`, `saveDataThread`,
`checkThread`, `socketInteract`, `combineData`, `recvData`, `readXMLData`,
`dataSaver::checkReady`, `logWriter::writeAlog` and
`CCameraDS::QueryFrame/read/Set*/getID` are never called in this program.

### 1.2 Threads and how the components interact

* **GUI thread**: `VisionDemo`, `saveDialog`, `QLabel_Mouse`, and all slots of
  `imageReader` (all objects live in this thread, so the connections of
  `VisionDemo::buildConnect` (VisionDemo.cpp:138-190) are direct calls).
* **Frame thread** `buildDataThread` (QtConcurrent, imagereader.cpp:83): reads
  a packet from the camera, builds the pictures, shows them, and, while a
  recording is on, calls `storeData` or `storeAloneRGBData`. What it emits to
  the GUI is queued.
* **Writer thread** `saveDataToDevice` (QtConcurrent, datasaver.cpp:13): polls
  the two rings and writes files.

The three threads share plain fields (`isRunning`, `isGoingToSaveData`,
`save_count`, `max_count`, `saveIndex`, `writeIndex`, `savePath`, ...). There is
no lock, atomic or condition anywhere, and no thread is ever joined.

### 1.3 What is hard, and what makes each component correct

| component | hard behaviour | correct means |
|---|---|---|
| `dataSaver` | two threads in a ring without lock or full test; mode and directory change while a frame is written; the end of a session is guessed from idle polls | files are the frames handed in, in order, unmixed; nobody touches the slot the other is in; file numbers do not collide; everything handed in gets written |
| recording control (`imageReader` save block) | start and stop in the middle of a pass; flag set before the counters; an increment that is not atomic; the limit tested with `==` | a recording stores what was asked for, ends, and stays ended |
| frame pairing (`buildDataThread`) | IR and depth alternate, RGB repeats, a read may fail; calibration is taken from the first packet | a synced frame has three pictures of one moment; nothing is shown before it is complete |
| preview (`VisionDemo`, `run`) | open may fail and be retried; the label follows signals that are not always sent | the label tells whether the preview runs; only a listed camera is opened |
| save dialog | directories are deleted and made while the writer may be writing; check boxes exclude each other | a recording writes into directories that exist and fit its mode |
| area selection | rectangle fields are written by the GUI and read pixel by pixel | the average is over pixels inside the picture, of one rectangle |
| shutdown | buffers are freed while the frame thread runs; pending frames are dropped | no access after release; what was stored is written |

The full list of hazards, each with its line, is in `PROJECT.json`.

## 2. Plan

Order of the modules (most important behaviour first):

1. `FrameStore`: abstract FIFO, what the saver promises. **done**
2. `DataSaver`: the saver, detailed; implements `FrameStore`. **done**
3. `SaveSession`: recording control, GUI thread against frame thread, and
   `Recording`, the abstract recording it implements. **done**
4. `FramePairing`: the packet loop of `buildDataThread` (stamps, `irGet`,
   `depthGet`, failed reads, exceptions) and the picture it shows while it goes
   on writing into the same buffer. **done**
5. `Preview`: `run(int)`, `OpenCamera` and its failures, `flashCam`, the status
   label. **done**
6. `SaveDialog`: the dialog with the reader's slots, the recording and the
   writer: do the files of a recording land in the directory and the mode chosen
   for it, and do they stay there? **done**
7. `AreaSelection`: label and reader, rectangle fields against the averaging.
   **done**
8. `Shutdown`: `closeEvent`, `release`, the two threads. **done**
9. Pure functions (`depth2RGB`, the colours of `util.hpp`, the calibration) as
   operators. **left out**: see section 6.

`FrameStore` is the abstract specification of 2. Each module stands for one
question about the three threads; what a module takes from another is one step
there or a free choice, and section 6 says which.

Runs are small: rings of 3 slots, limits up to 3, two directories, pictures of
two by two, one or two pool threads. What they check as an invariant or an action
property is then proved for every size, as far as the prover reaches (section 5).

## 3. The modules

### 3.1 `DataSaver`

State: the fields of `dataSaver` under their own names, `ppc` and `wpc` for the
places of the producer and the writer, and history (`produced`, `retired`,
`saved`, `mishaps`, `quiet`, `session` and their RGB-only counterparts). A
picture is the number of the frame it belongs to; besides, a slot remembers
whether its IR picture still has three channels, because the writer converts it
in place and throws when it is grey already (datasaver.cpp:107).

| action | code |
|---|---|
| `CallStoreData`, `CopyIr`, `CopyRgb`, `CopyDepth`, `BumpSaveIndex`, `WrapSaveIndex` | `storeData`, 36-50 |
| `CopyAlone`, `BumpAlone`, `WrapAlone` | `storeAloneRGBData`, 52-61 |
| `TakeFrame`, `RereadMode`, `WriteIr`, `WriteDepth`, `WriteCloud`, `WriteRgb`, `Advance`, `NoFrameToTake` | the synced half of the loop, 93-190 |
| `TakeAlone`, `WriteAlone`, `WriteOutside` | the RGB-only half, 191-198 |
| `CheckSynced`, `FinishSession`, `SleepOnce`, `NotDrained` | the end-of-session test, 199-211 |
| `WriterExit` | 91 |
| `SetSavePathAndMode`, `ReleaseDateSaver` | 25-33, 77-80 |

Each access to a field another thread writes is a step, and each copy or
encoding of a picture is one. `saveIndex += 1; if (saveIndex == BUFFLEN)
saveIndex = 0` shows the writer the out-of-range value or not, as the build
pleases: `BumpSaveIndex` has both. The producer is any caller that is in at most
one of the two functions at a time, which is what `buildDataThread` is.

`mishaps` records why a guarantee ended: `lapped` (the producer got a whole ring
ahead), `stale` (the writer took a slot without a new frame, which can only
happen while `saveIndex` is out of range), `skipped` (the mode changed from 4 to
3 between the two tests, 96 and 131, and no branch ran).

`setParam` is left out: its four numbers only scale the coordinates in a point
cloud file. `checkReady` returns `writeFinsih`, which the properties read.

### 3.2 `FrameStore`

Frames are put in and saved in order; the store may break for good when it is
overrun, when the empty store is misread, or when a mode change drops a frame.
`DataSaver!Store` is the refinement mapping: a slot counts as the frame whose
three pictures it holds, so a mixed slot is no frame. `Fifo` states what the
store itself promises: as long as it is not broken, the frames saved and then those waiting
are the ones handed in, once each and in order, and there is room for one more.

### 3.3 `SaveSession`

State: the four shared fields `isRunning`, `isGoingToSaveData`, `save_count`,
`max_count` and `quitProgram`, the places of the GUI thread in `saveDataSlot`
and of the frame thread in the save block, and history of the recording the
user started last. A frame is synced or not, decided by its time stamps.

| action | code (imagereader.cpp) |
|---|---|
| `Run` | `run(int)`, 135 |
| `SaveDataSlot`, `SetSaveCount`, `SetMaxCount` | `saveDataSlot`, 504-515 |
| `SaveStopSlot`, `StopingProgram` | 523-526, 578-581 |
| `LoopTest`, `ReadNothing`, `ReadFrame` | the loop up to the picture being shown, 195-425 and 472-476 |
| `TestSaving`, `TestLimit`, `ReadOperand`, `CompareCount`, `ReportProgress`, `ClearSaving`, `ResetCount` | 426-436 |
| `StoreFrame`, `ReadCount`, `WriteCount` | 438-455 |

`save_count == max_count` reads two shared fields in an order C++ leaves open;
`ReadOperand` has both orders. `save_count += 1` is a read and a write.
`raced` says that the start of the recording overlapped a pass of the frame
thread through the save block: the safety properties that need an undisturbed
start say so with `~raced`, `OneAfterStop` holds without.

`Recording` is what the two buttons promise: a recording is started with a limit,
stores frames below it, is stopped or finishes, which is announced, and one frame
may be stored after its end. Its `Overlap` takes the limit away from a recording
whose start met a frame being handled, before its first frame is stored.
`SaveSession!Promise` is the mapping (a recording that raced has no limit, and
none of its announcements counts); `ImplementsRecording` says that every step of
the two threads is a step of it or a stutter. `LimitKept` states what a recording
so described promises about limit, announcement and late frame together.

### 3.4 `FramePairing`

State: the stamps, `irGet` and `depthGet` of `buildDataThread`, the pictures it
builds, the buffer `combineFrame`, the signals waiting for the GUI thread and
what that thread has copied to the screen. A picture is its time stamp, 0 where
there is no real one. `Start >= Window` says that the camera's stamps are past
the window (34 ms) when the program connects; 0 is then far from all of them.

| action | code |
|---|---|
| `ReadPacket`, `ReadFails`, `SkipRepeated`, `DecodeRgb` | imagereader.cpp 198-271 |
| `BuildDepth`, `BuildIr`, `BuildNeither` | 273-417 |
| `NothingToShow`, `CombineThrows`, `CombineIr`, `CombineDepth`, `CombineRgb`, `SendImage` | 418-425, 472-476 |
| `NotSaving`, `StoreSynced`, `StoreAlone` | 426-456 |
| `ShowIr`, `ShowDepth`, `ShowRgb` | `QLabel_Mouse::setImage`, 203-248 |

`hconcat` finds `combineFrame` of the right size and writes into the buffer it
has, which every `cv::Mat` still queued for the GUI shares: three copies by the
worker, three reads by the GUI thread, in any order. `getParam` is set before
the first packet is used, so the test of it is always true. The overlay of
depth on RGB (419-422) throws in the same cases as `hconcat` and is part of it.
`isGoingToSaveData` is whatever `SaveSession` makes of it: here a choice.

### 3.5 `Preview`

State: the system's list of cameras, the combo box with its current entry,
`camIndex`, the camera bound, `isRunning`, `cameraReady` and the label. All slots
run in the GUI thread, so each is one action; in between cameras are plugged in
and out. A camera fits (offers YUY2 and takes the size), refuses the size, or
offers no YUY2; each may fail to connect besides (`CameraFails`).

| action | code |
|---|---|
| `Plug`, `Unplug` | the system (external) |
| `FlashCam`, `Choose` | VisionDemo.cpp 386-399, 332-338 |
| `NoSuchCamera`, `CameraFails`, `OpenCamera`, `Toggle` | imagereader.cpp 114-142 with CameraDS.cpp 108-271, 438-491; VisionDemo.cpp 323-330, 351-356 |

`Init` is the window after its constructor, which calls `flashCam` and then
`setModuleIndexSlot`.

### 3.6 `SaveDialog`

State: the widgets of the dialog and `readyToSave`, directory and mode as the
reader (`savepth`, `save_mode`) and the saver (`savePath`, `saveMode`) know them,
the flags of the recording, the frames waiting, the file the writer is at, the
directories that exist and the files in them. A file is its directory, its
number and the frame it shows. `since` is history: the first frame the writer has
taken since the recording was started with the button and since the numbers of
the files last started again. `gpc` and `todo` are the place of the GUI thread
in a slot that touches the disk or calls another slot.

| action | code |
|---|---|
| `OpenDialog`, `Run` | VisionDemo.cpp 340-344, imagereader.cpp 131-142 |
| `EditPath` with `SavePathSlot` | saveDialog.cpp 29-51, imagereader.cpp 528-533 |
| `ChooseModeThree`, `ChooseModeFour`, `SendOwnMode` with `SaveModeSetSlot` | 107-121, imagereader.cpp 517-521 |
| `SaveBtnSlot`, `EmptyDir`, `RemoveDir`, `MakeDir`, `SendSaveStart` | 53-95 |
| `StopBtnSlot` | 97-100 |
| `TestSaving`, `StoreData`, `StoreAloneRGBData` | imagereader.cpp 426-456 |
| `TakeFrame`, `WriteIr`, `WriteDepth`, `WriteCloud`, `WriteRgb`, `WriteAlone`, `FinishSession` | datasaver.cpp 93-211 |

The saver is a queue, as `DataSaver` shows it to be as long as there is no mishap,
its writer still a file at a time, because `savePath` is read anew for
each file and a directory may go or come between two of them. The dialog has no
parent window, so the buttons of the main window work while it is open. The
files that are in the directories before the program starts are not modelled:
they are removed like any others; directories may be there (`Init`).

### 3.7 `AreaSelection`

State: what `QLabel_Mouse` draws (`startPoint`, `endPoint` of both rectangles, its
own count of those handed over), the place in `acceptArea` and the assignment
that is next, the reader's fields (`realX1` to `realY2s` as `real`, `getFirstArea`
and `getSecondArea` as `readerGot`, `isWarp`, `calcArea`), and the frame thread's
place in its loops. Every assignment of `acceptArea` and every test of a loop is a
step. `disturbed` says that a reset has come since the pass began. `W` and `H` are
`frameHeightR` and `frameWidthR`, the columns and rows of one picture.

| action | code |
|---|---|
| `SetImage`, with `Positions` for `calcXY` | qlabel_mouse.cpp 203-248, 263-289 |
| `PressLeft`, `PressRight`, `DoubleClick`, `Release`, `Drag` with `CutAt` | 22-144 |
| `StopAveraging`, `ClearCoordinate`, `ClearFirst`, `ClearSecond` | `acceptArea`, imagereader.cpp 543-549 |
| `StoreCoordinate` with `Target`, `StoreWarp`, `StoreGot`, `StartAveraging` | 550-575 |
| `StartPass`, `TestGot`, `FirstColumn`, `TestColumn`, `FirstRow`, `TestRow`, `Pixel` | 315-366 |

`Init` leaves open whether the label tracks the mouse, although nothing in the
program switches it on for the label: without tracking every rectangle is a point
(`UntrackedIsPoint`), and only with it do the other properties meet the whole of
the drawing code.

### 3.8 `Shutdown`

State: the threads of the global pool, the place of the GUI thread from the open
window to the end of the process, the two quit flags, `isRunning`, the camera's
interfaces, how many of the frame thread's buffers are deleted, the places of
both threads, frames stored and written, and history: where the frame thread was
and what waited when the window was closed, what was stored since, and whether
freed memory was used.

| action | code |
|---|---|
| `Press` | `run(int)`, imagereader.cpp 114-142 |
| `CloseEvent` | VisionDemo.cpp 237-241, imagereader.cpp 578-581 |
| `TellThreads`, `DeleteBuffer` | `release`, imagereader.cpp 479-499, called by `~VisionDemo` |
| `StopGraph`, `ReleaseGraph` | `CloseCamera`, CameraDS.cpp 74-101 |
| `Exit` | `~QApplication` (external) |
| `StartTask`, `TestQuit`, `TestRunning`, `ClearPacket` | imagereader.cpp 83, 195-198 |
| `RunGraph`, `Wake`, `WaitCrashes`, `Fetch` | `readRawData`, CameraDS.cpp 743-756 |
| `SkipRepeated`, `Build`, `BuildThrows`, `StoreFrame`, `NotSaving` | imagereader.cpp 209-476 |
| `TakeFrame`, `FinishFrame`, `WriterExit` | datasaver.cpp 91-190 |

A use of freed memory either goes unnoticed, or the process crashes there, or it
crashes at any later time (`DamageShows`, external). Interfaces that are NULL
crash at once.

## 4. The runs

Deadlock checking is off for all modules but `Preview` and `AreaSelection`,
because the program really stops: its threads end when it is quit, and a thread
ends when a library call throws.

| run | instance | question and result |
|---|---|---|
| `saver` | ring of 3, 2 idle passes, 2 directories (one without `pointcloud`), fairness; 6 synced frames, or 3 and 1 change by the user, or 1, 4 RGB-only frames and 1 change | order and content of the files, exactness of the emptiness test, slot ownership, file numbers and when they restart, refinement of `FrameStore`; RGB-only pictures are in order until the cursor leaves the ring; at most one frame per change is spread over two directories; every synced frame gets written and the saver becomes ready again, unless it stopped in a directory without `pointcloud` or beyond the RGB-only ring: all hold |
| `alonelost` | 5 RGB-only pictures, fairness | **violated**: after the first round no RGB-only picture is saved (datasaver.cpp:197 increments where it should reset) |
| `control` | limits 0 to 3, at most 6 frames, fairness | the counter is right, at most one frame is stored after the end; all they do is what `Recording` allows, so they are announced done at the right count and once; a recording with a limit comes to its end |
| `onetoomany` | limits 0 to 2, at most 4 frames | **violated**: a recording of n frames stores n + 1, because the frame that finds the limit reached is stored too (imagereader.cpp 428 and 438) |
| `donerace` | limits 0 to 2, at most 4 frames | **violated**: "Save data Done!" can be announced for a recording that has stored nothing, when its start overlaps the test of the one before |
| `pairs` | stamps 2 to 4, window 2, 2 pictures waiting, fairness | a synced frame is three real pictures of one moment; what is shown is real, and whole unless GUI and worker overlap; no frame without RGB picture is stored once IR and depth have come; the last picture combined is the one that stays |
| `window` | 3 cameras (fitting module, refusing module, other camera), 3 changes | label right from the second press, the camera opened is the one selected |
| `warning` | the same | **violated**: started without a module, the program opens camera 0 after "No Camera Found" |
| `dialog` | 2 directories, 7 clicks, 2 frames | the saver does what the dialog shows; after a start with the button every directory needed is there and holds nothing older than the start, and every frame taken since has all its files there; all for any place of the writer |
| `overwritten` | 1 directory, 6 clicks, 2 frames | **violated**: after half a second without frames the file numbers start again, in the middle of the recording that opening the dialog starts, and files are overwritten |
| `area` | pictures of 2 by 2, five points on them, three beyond them, with and without mouse tracking | label and reader agree between two events; a pass that no reset disturbs reads pixels of the rectangle drawn only; rectangles are cut at the pictures' edges; without tracking they are points |
| `shutdown` | pool of 1 or 2 threads, 3 frames, fairness | only a pass under way at the closing meets freed memory; at most one frame is stored after it; what is lost is what waited, and that frame; the process ends, unless the camera has gone silent |

Why the bounds are enough. The behaviour of a ring depends on the distance of
the cursors and on where they wrap; three slots give every distance that matters
(empty, one waiting, full) and every place of the wrap, and six frames wrap both
cursors twice. `Loads` bounds synced frames, RGB-only frames and changes by the user
together: six frames without a change; three with one, which overrun the ring, are
skipped, or are spread over both directories; and four RGB-only pictures, one more
than their ring has slots, with a synced frame and a change among them. Two idle passes tell "counting" from "counted". Limit 0 is
the unlimited recording, 1 the smallest limit, 2 and 3 have passes before, at
and after the limit, and 6 frames are more than any limit needs. With stamps 2
to 4 and a window of 2 two pictures can be equal, close and just too far
apart, and two waiting pictures let the worker overwrite one that is being shown.
Three cameras of different kinds give every order of the list. In `dialog`
the longest way to a start is: preview, dialog, directory, mode, the other mode,
start; seven clicks leave one for what happens meanwhile, and two frames are one
of before and one of after. Nothing tells its two directories
apart (each starts with all subdirectories but `rgb-alone` or with none), which
makes the symmetry sound for the invariants it checks. In `area` a picture of two
columns has a left edge, a right edge and a column on neither side of which a
remainder wraps; the points are in each of the three pictures, on the edges
between them, left, right and below of the label, and the value that `calcXY`
gives before the first picture (a float beyond int, which x86 converts to the
smallest int; its remainders are negative). In `shutdown` a second pool thread
makes the frame thread run beside the writer, a third would be idle; of three
frames one can be written, one waiting and one late.

Some consequences of missing tests and locks have no run of their own; a
property states each of them as its exception:

* a frame handed in to a full ring is lost (`lapped`, which `InOrderIntact` and
  `EventuallySaved` except);
* the reset of `save_count` can be lost to the frame thread's increment, and a
  count beyond the limit never equals it again (`raced`);
* before IR and depth have come an RGB-only frame handed to the saver may be
  empty, when it was not read or did not decode (`StoredHasRgb`);
* the label still says "preview not started" after the first press that starts
  it, because `run(int)` announces a working camera only when it was open before
  (`LabelRightFromSecondPress`);
* a camera that offers no YUY2 is opened in another size, though CameraDS.h:82
  says that `OpenCamera` then returns false (`RunsWithUsableCamera` excludes only
  those that refuse the size);
* RGB-only pictures of a recording in mode 4 have no directory, and a frame taken
  under another mode may lack one (`FoundAfterButton`);
* mouse tracking is set on the scroll area (VisionDemo.ui 231-234) and on the window
  (VisionDemo.cpp:26), not on the label, whose move handler then returns
  (qlabel_mouse.cpp:28): every rectangle is the one point of the click, and the
  depth of the point under the mouse is never asked for (`UntrackedIsPoint`);
* where rectangles can be drawn, columns are swapped when the mouse goes left and
  rows are not when it goes up, which leaves no pixel and a quotient of 0 and 0;
  a click exactly on the edge of two pictures becomes columns 0 to W; column W
  of a rectangle that ends at the edge is the first pixel of the next row; the
  cuts of the second rectangle test the start of the first (qlabel_mouse.cpp
  63-70); `isWarp` of the first decides for the second, also when it is one from
  before the last reset. `DrawnOn` says which rectangles are drawn inside one
  picture, and `SweepsWhatIsDrawn` speaks of those;
* a reset in the middle of a pass sends the loops to column or row -1, and a click
  before the first picture to the remainders of the smallest int: `disturbed` and
  `DrawnOn` except both, `TypeOK` has their ranges;
* the window's end frees buffers and camera under a running pass
  (`FreedUseOnlyMidPass`), and drops the frames that wait (`LossBounded`);
* in a pool of one thread the writer never returns it, and the frame thread does
  not start before the program ends (`pool > 1` in `FreedUseOnlyMidPass`);
* a camera that delivers no more leaves the process waiting without a window
  (`EndsAfterClose`).

Fairness. The writer is a loop that never waits, so its thread makes progress as
long as the operating system schedules it: `WF(Writer)`. A producer in the
middle of `storeData` leaves it: `WF` of its steps outside `idle`. Nobody is
obliged to hand in frames, press a button or quit. In `SaveSession` both threads
finish what they began (`WF`), and a camera that delivers frames for ever
delivers synced ones among them (`SF` of `ReadFrame(TRUE)`): this is an
assumption about the camera module, without which a limited recording need
never end, for RGB-only frames do not count. In `FramePairing` worker and GUI
thread go on with what there is to do (`WF`). In `Shutdown` the GUI thread goes
through what follows the closing, the frame thread through its loop and the
writer through its own (`WF` of `Leave`, `FrameThread`, `Writer`); that a sample
comes is not assumed, `Wake` is outside of the fair actions.

## 5. The proofs

Eight modules hold the proofs: one for each component and `Promises_proof` for the
two abstract specifications. TLAPS checks them with the named assumptions of the
modules only: `DataSaver_proof` (for every ring size above 1, every number of idle
passes, every set of directories), `SaveSession_proof` (for every set of limits),
`FramePairing_proof`, `Preview_proof` (for every finite set of cameras),
`SaveDialog_proof`, `AreaSelection_proof` (for pictures of any size),
`Shutdown_proof` (for a pool of any size) and `Promises_proof` (for every capacity
and every set of limits). Every component has its type invariant among the
theorems, and every invariant, action property and refinement that a passing run
checks is one as well.

*The ring.* `InOrderIntact` is not inductive. `RingInv` is: while there was no
mishap, the distance of the cursors is the number of frames waiting
(`CursorsCount`), the slots in between hold them in order (`WaitingIntact`), the
slot being filled holds what the producer has copied so far (`CopiedSoFar`), and
the writer's record holds what it has written so far (`WrittenSoFar`).
`Slot(k)` is the slot k places after the writer's; two lemmas say that it is
injective and how it moves when the writer advances. From `RingInv` follow
`InOrderIntact`, `EmptinessTestExact` and `NoConcurrentSlotAccess`, and, step by
step, the refinement: each copy and each file is a stutter of `FrameStore`,
`BumpSaveIndex` is `Put` or `Overrun`, `Advance` is `Save`, `TakeFrame` is
`Misread` when it is wrong and `RereadMode` is `Dropped` when it skips.
`StorePromise` then says what is gained: `FrameStore` keeps `Fifo`, by an
invariant of its own that needs no strengthening but the types.

*The numbers of the files.* `NamesInv`: files of the current session have
numbers below the next one, and the frame being written has that next number.

*The RGB-only ring.* `AloneInv`: the writer has written at most one round, its
cursor is the number written, and the pictures waiting are in their places.
`AloneOneRing` needs less and excepts nothing (`OneRingInv`): as many pictures are on
disk as the cursor says, until it is beyond the ring, from where no action brings
it back. It is what remains of the claim that `alonelost` refutes.

*Frames over two directories.* `SplitInv`: the frames saved that are spread, and
the one being written if the next file can still spread it or it is spread
already, are no more than the changes by the user. A file more cannot spread a
frame while `savePath` is among its directories, so each spread frame has its own
change; the count is a cardinality, of a set that grows by at most one.

*When a session ends.* `ReadyMeansFresh` (the ready flag comes with number and
idle count reset) and `RestartNeedsQuiet` from `ReadyInv` and `QuietInv`.

*Recordings.* `SessionInv`: `CountKept` says what counter, number stored and
the worker's place have to do with each other, `StartAlone` that an undisturbed
start finds the worker outside, `AfterDone` what is left after the announcement,
`NotYetLate` that a pass that found the flag set has not stored its frame yet.
With it every action of the two threads maps to one of `Recording`
(`PromiseStep`): `SaveDataSlot` to `Start` (without a limit where it meets a pass),
`TestSaving` to `Overlap` where it meets an unfinished start, `ClearSaving` to
`Finish`, or to `Stop` where the recording has raced, `StoreFrame` to `Store` or
`StoreLate`. `RecordingPromise` says what this gives. What remains of
the claim that `donerace` refutes is `DoneUnlessRaced`: the message is true of
every recording whose start met no pass. What remains of the one that `onetoomany`
refutes is `LimitRespected`: such a recording stores one frame too many, and never
two, and `DoneOnlyAtLimit` says that it is announced before that one.

*Pairing.* `FramePairing_proof`, for every window and every first stamp not
below it: `PairInv` says that each stamp is that of the picture beside it, that
a picture not yet received has stamp 0, which is close to none, and that a pass
that saves after IR and depth have come has a real RGB picture, because `hconcat`
would have thrown. `SyncedReal` and `StoredHasRgb` follow. `BufferInv`: as long as
the worker has kept out of the buffer, what the GUI thread has copied so far is
part of the picture it began with. `FillInv`: the buffer fills from the left and
is never emptied, so a part once written is real in whatever is written over it;
`ShownReal` needs it together with `PairInv`, for the pictures copied in.

*Preview.* `Preview_proof`, for every finite set of cameras. The list of the combo
box is what `flashCam` filters out of the enumeration of the system, so its type and
`OpensWhatIsShown` rest on what a recursive function computes. The prover has no
induction over an operator; an induction over a *set* it has: a set of numbers that
contains 0 and with each number the next is all of them, because `<` is well
founded (`Induction`). With it `ItemsExist` shows that the function `Listed` exists and
satisfies its recursion, and `ListedItems` that it returns the indices of the
modules, in order. Plugging a camera in or out keeps the enumeration without
repetition (`PlugType`, `UnplugType`). On top of the type invariant, `PreviewInv`
counts the presses since the camera was opened (0, 1, more), to which connection,
readiness and label correspond, and says where `camIndex` comes from. Besides the
label: the preview runs only with a camera that did not refuse the size
(`RunsWithUsableCamera`), and after a flash that found none no camera is opened
before one that finds some (`NoneOpenedAfterFlash`), which is what remains of the
claim that `warning` refutes.

*Directories.* `SaveDialog_proof`, for all directories, clicks and frames.
`ShownInv`: reader and saver agree on the mode, and a slot that has still to send
its own mode belongs to the box checked. `FoundInv` adds that what is on the list
of directories to make, together with what is there, is all the mode needs, from
the removal on until the dialog is changed. `EmptyInv` adds that a file of a
frame finished before the start lies in a directory still on the list of those
to empty; with `RingInv` (the frames waiting are the last ones handed in) any
file written later shows a frame that was not finished. `SavedInv` adds what the
frame in hand has on disk: it was taken under the recording's mode, and the files
that come before the next one are there (`FileWritten`: the directory of the next
file is there too, by `FoundInv`, and the file replaces none of a frame since the
start, because its number is above theirs). `SavedSinceStart` follows: no frame
counts as finished whose files are not on disk. `NumberInv` (the number of the next file
never gets ahead of the frames finished) gives what remains of the claim that
`overwritten` refutes, `KeptUntilRestart`: while number and frames finished agree,
files disappear only where the start button removes their directory.

*Areas.* `AreaSelection_proof`, for pictures of any size and any place of the
mouse. `LabelInv`: only a left button that is still down leaves a first rectangle
that has not been handed over. `HandInv` follows `acceptArea` through its
assignments: what is declared (`getFirstArea`, `isWarp`) is written, and the
rectangle being written is not declared. `SweepInv`: a pass no reset has disturbed
is over a declared rectangle, between its bounds. `TargetOnPicture` is the
arithmetic: of a rectangle drawn on picture n, the columns of `Target` are the
drawn ones less n times W. `ReadsElements` turns columns and rows into the index
x + y * W: it is below W * H but for one pixel, that of a rectangle which ends on
the right edge of the last row (`RowMajor`).

*The end.* `Shutdown_proof`. `EndInv` has three parts: before the closing nothing
is freed and a thread in a pass has its interfaces (`OpenInv`); after it the frame
thread ends at its next test, so a pass is the one that was under way then, and
stores at most one frame more (`ClosedInv`); in a pool of one thread the frame
thread waits for the writer's end (`PoolInv`), so that there nothing is ever read or
stored (`SingleThreadIdle`).

Only model-checked: the liveness properties (`EventuallySaved`, `EventuallyReady`,
`LimitReached`, `CatchesUp`, `EndsAfterClose`), because liveness under fairness and
ENABLED are out of the prover's reach, and the five counterexamples, which are
single behaviours. Some theorems state no property of a run: `AloneOneRing`,
`LimitRespected`, `DoneUnlessRaced`, `NoneOpenedAfterFlash` and `KeptUntilRestart` are
the counterparts of those five claims, and the rest (`DoneOnlyAtLimit`,
`ReadyMeansFresh`, `RunsWithUsableCamera`, `ReadsElements`, `SingleThreadIdle` and the
two promises) follow from the invariants the other theorems need; TLC
agrees with each of them on the instances of section 4.

## 6. Not modelled

* Pictures are numbers. How they are computed (rotation, the calibration's
  formulas, denoising, warping, colouring) is floating-point arithmetic over the
  pixels of one picture without state of its own; TLC has no such numbers, and an
  integer stand-in would not be this code. `util.hpp` is that and helpers nobody
  calls. `readpdData` and the unpacking of the packet read fixed offsets in one
  pass. The sums of the area averages are left out for the same reason, which
  pixels go into them is modelled.
* Every shared field is read from memory each time the source reads it. A
  compiler may keep a non-atomic field in a register for good; the models
  describe builds that do not.
* An exception in a thread started with QtConcurrent, and any other way a thread
  ends early, is the state `dead`. Disk errors are ignored by the code (the
  result of `imwrite` is not looked at) and by the model.
* The calls of the frame thread into the saver: `SaveSession!StoreFrame` is a
  whole call, `DataSaver` allows any sequence of calls, which includes all that
  `SaveSession` makes.
* `SaveDialog` takes `setSavePathAndMode` and the writer's two reads of the mode
  as one step each (`DataSaver` has the reads apart), leaves RGB-only pictures,
  which are named by their time stamps, out of the files, and assumes that no
  other program changes the directories. A directory chosen in the file dialog is encoded
  as GB2312 and decoded as the local code page (saveDialog.cpp:31-34), and the saver
  encodes what it is sent as the latter (datasaver.cpp:27): `Paths` are directories
  whose names survive both.
* The graph objects that a failed `OpenCamera` leaves behind, and the camera that
  is unplugged while it is read (`readRawData` then waits for good).
* `acceptLocation` and the depth of the point under the mouse: the label sends
  positions only with mouse tracking, which it does not have.
* The check boxes that choose the pictures, moving and maximising the window by
  its title bar, styles and texts: one assignment each, read by nobody else or by
  Qt. `setParam` gives the point cloud its scale.
* `logWriter` keeps a directory and never writes. What section 1.1 lists as never
  called is not modelled.
* `dsense` is a closed library of which the repository has the interface.
* `src/DirectShow` and `src/pthreads` are vendored headers and samples of the
  Windows SDK and of pthreads-win32, some 420000 of the repository's lines. None of
  it is this program's logic; the interfaces of DirectShow that `CCameraDS` calls
  appear as external steps. The program's own code is `src/VisionDemo`, and the map
  covers what runs in it but for the points above.
