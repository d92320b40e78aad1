----------------------------- MODULE AreaSelection -----------------------------
(***************************************************************************)
(* QLabel_Mouse and imageReader's area averages: the user marks up to two  *)
(* rectangles on the three pictures shown side by side, the label hands    *)
(* them over with sendArea, and the frame thread averages the depth of     *)
(* their pixels in every depth frame.                                      *)
(*                                                                         *)
(* Label and acceptArea run in the GUI thread; the fields acceptArea       *)
(* writes are read by the frame thread without a lock, pixel by pixel, so  *)
(* every write and every read of one of them is a step.                    *)
(*                                                                         *)
(* The pictures are W columns wide and H rows high (frameHeightR and       *)
(* frameWidthR); what calcXY returns is a point of their row, or beyond it *)
(* where the mouse is dragged out of the label.                            *)
(***************************************************************************)
EXTENDS Integers

CONSTANTS
  W, H,         \* size of one picture
  Inside,       \* where on the pictures the mouse may be, in their columns and rows
  Outside,      \* where it may be dragged to beyond them
  Unscaled,     \* what calcXY returns as long as ratio is 0
  MouseTracking \* whether the form may switch mouse tracking on for the label

ASSUME WAssumption == W \in Nat \ {0}
ASSUME HAssumption == H \in Nat \ {0}
ASSUME PointsAssumption == Inside \cup Outside \cup {Unscaled} \subseteq [x: Int, y: Int]
ASSUME MouseTrackingAssumption == MouseTracking \subseteq BOOLEAN

Areas == {1, 2}
Buttons == {"left", "right"}
Coordinates == {"x1", "y1", "x2", "y2"}
None == [x |-> -1, y |-> -1]

VARIABLES
  (* the label *)
  tracking,             \* hasMouseTracking()
  shown,                \* a picture has been shown and ratio set
  held,                 \* the buttons down
  startPoint, endPoint, \* of both rectangles
  labelGot,             \* rectangles handed over: getFirstArea, getSecondArea
  m_drawArea,
  (* acceptArea *)
  call,                 \* the branch that runs, "none" outside
  flag, step,           \* its argument, and the assignment that is next
  (* the reader's fields *)
  real,                 \* realX1 .. realY2s
  readerGot,            \* getFirstArea, getSecondArea of the reader
  isWarp, calcArea,
  (* the frame thread *)
  sweep, area, x, y,    \* place in the loops, rectangle, column and row
  disturbed             \* areas were reset since the pass began (history)

marks  == <<startPoint, endPoint, labelGot>>
mouse  == <<held, m_drawArea>>
label  == <<tracking, shown, mouse, marks>>
accept == <<call, flag, step>>
fields == <<real, readerGot, isWarp, calcArea>>
worker == <<sweep, area, x, y, disturbed>>
vars   == <<label, accept, fields, worker>>

Init ==
  /\ tracking \in MouseTracking /\ shown = FALSE
  /\ held = {} /\ m_drawArea = FALSE
  /\ startPoint = [k \in Areas |-> None] /\ endPoint = [k \in Areas |-> None]
  /\ labelGot = {}
  /\ call = "none" /\ flag = 1 /\ step = 1
  /\ real = [k \in Areas |-> [c \in Coordinates |-> -1]]
  /\ readerGot = {} /\ isWarp = FALSE /\ calcArea = FALSE
  /\ sweep = "none" /\ area = 1 /\ x = 0 /\ y = 0 /\ disturbed = FALSE

-------------------------------------------------------------------------------
(* The label.  One event at a time, none while acceptArea runs.            *)

Event == call = "none" /\ UNCHANGED <<tracking, fields, worker>>

(* calcXY *)
Positions(points) == IF shown THEN points ELSE {Unscaled}

SetImage ==
  /\ Event /\ shown' = TRUE
  /\ UNCHANGED <<mouse, marks, accept>>

Enter(branch, k) == call' = branch /\ flag' = k /\ step' = 1

(* acceptArea's first test *)
SendArea(k) == Enter(IF startPoint[k].x = -1 THEN "reset" ELSE "area", k)

NoMarks ==
  /\ startPoint' = [k \in Areas |-> None]
  /\ endPoint' = [k \in Areas |-> None]

PutStart(k, p) ==
  /\ startPoint' = [startPoint EXCEPT ![k] = p]
  /\ endPoint' = [endPoint EXCEPT ![k] = p]

(* In the title bar the first rectangle loses its start and keeps its end; *)
(* the second is begun there as anywhere else.                             *)
PressLeft(p, title) ==
  /\ Event /\ "left" \notin held
  /\ held' = held \cup {"left"} /\ m_drawArea' = ~title
  /\ \/ /\ 1 \notin labelGot /\ title
        /\ startPoint' = [startPoint EXCEPT ![1] = None] /\ UNCHANGED endPoint
     \/ 1 \notin labelGot /\ ~title /\ PutStart(1, p)
     \/ 1 \in labelGot /\ 2 \notin labelGot /\ PutStart(2, p)
     \/ labelGot = Areas /\ UNCHANGED <<startPoint, endPoint>>
  /\ UNCHANGED <<shown, labelGot, accept>>

(* mutant of PressRight: the reader is not told *)
PressRightUntold ==
  /\ Event /\ "right" \notin held
  /\ held' = held \cup {"right"}
  /\ NoMarks
  /\ UNCHANGED <<shown, m_drawArea, labelGot, accept>>

PressRight ==
  /\ Event /\ "right" \notin held
  /\ held' = held \cup {"right"}
  /\ NoMarks /\ Enter("reset", 1)
  /\ UNCHANGED <<shown, m_drawArea, labelGot>>

(* the second press of a double click comes as another event *)
DoubleClick(button) ==
  /\ Event /\ button \notin held
  /\ held' = held \cup {button}
  /\ UNCHANGED <<shown, m_drawArea, marks, accept>>

(* any button: which one is not asked *)
Release(button) ==
  /\ Event /\ button \in held
  /\ held' = held \ {button} /\ m_drawArea' = FALSE
  /\ \/ \E k \in Areas :
          /\ labelGot = 1 .. k - 1 /\ labelGot' = 1 .. k
          /\ SendArea(k)
          /\ UNCHANGED <<startPoint, endPoint>>
     \/ labelGot = Areas /\ labelGot' = {} /\ NoMarks /\ Enter("reset", 1)
  /\ UNCHANGED shown

(* mutant of CutAt: no cut where the mouse goes left *)
CutAtRightOnly(s, first, e) ==
  IF s < W /\ e > W THEN W ELSE IF s < 2 * W /\ e > 2 * W THEN 2 * W
  ELSE IF first < 3 * W /\ e > 3 * W THEN 3 * W ELSE e

(* From s the mouse went to column e: the end is cut at an edge between    *)
(* pictures.  Three of the tests are on the first rectangle's start,       *)
(* also where the second is drawn.                                         *)
CutAt(s, first, e) ==
  IF s < W /\ e > W THEN W
  ELSE IF s < 2 * W /\ e > 2 * W THEN 2 * W
  ELSE IF first < 3 * W /\ e > 3 * W THEN 3 * W
  ELSE IF first > W /\ e < W THEN W
  ELSE IF first > 2 * W /\ e < 2 * W THEN 2 * W
  ELSE e

DragTo(p) ==
  /\ Event /\ m_drawArea
  /\ \E k \in Areas :
       /\ labelGot = 1 .. k - 1 /\ startPoint[k].x # -1
       /\ endPoint' = [endPoint EXCEPT ![k] =
                         [x |-> CutAt(startPoint[k].x, startPoint[1].x, p.x), y |-> p.y]]
  /\ UNCHANGED <<shown, mouse, startPoint, labelGot, accept>>

(* mutant of Drag: mouse tracking is not asked for *)
DragUntracked(p) == DragTo(p)

Drag(p) == tracking /\ DragTo(p)

Mouse ==
  \/ SetImage \/ PressRight
  \/ \E p \in Positions(Inside), title \in BOOLEAN : PressLeft(p, title)
  \/ \E p \in Positions(Inside \cup Outside) : Drag(p)
  \/ \E button \in Buttons : DoubleClick(button) \/ Release(button)

-------------------------------------------------------------------------------
(* acceptArea                                                              *)

Low(k)  == IF endPoint[k].x < startPoint[k].x THEN endPoint[k].x ELSE startPoint[k].x
High(k) == IF endPoint[k].x < startPoint[k].x THEN startPoint[k].x ELSE endPoint[k].x

(* C's remainder *)
Rem(a, b) == IF a < 0 THEN -((-a) % b) ELSE a % b

(* mutant of Target: the columns of the whole row of pictures *)
TargetUnreduced(k) ==
  [c \in Coordinates |->
     CASE c = "x1" -> Low(k) [] c = "y1" -> Rem(startPoint[k].y, H)
       [] c = "x2" -> High(k) [] c = "y2" -> Rem(endPoint[k].y, H)]

(* What the fields of a rectangle become: columns are swapped where it was *)
(* drawn to the left, rows are not.                                        *)
Target(k) ==
  [c \in Coordinates |->
     CASE c = "x1" -> IF Low(k) \in {0, W, 2 * W} THEN 0 ELSE Rem(Low(k), W)
       [] c = "y1" -> Rem(startPoint[k].y, H)
       [] c = "x2" -> IF High(k) \in {W, 2 * W, 3 * W} THEN W ELSE Rem(High(k), W)
       [] c = "y2" -> Rem(endPoint[k].y, H)]

(* a chained assignment is done from the right *)
ResetOrder == <<<<2, "y2">>, <<1, "y2">>, <<2, "y1">>, <<1, "y1">>,
                <<2, "x2">>, <<1, "x2">>, <<2, "x1">>, <<1, "x1">>>>
AreaOrder == <<"x1", "y1", "x2", "y2">>

At(branch, n) == call = branch /\ step = n
Continue == step' = step + 1 /\ UNCHANGED <<label, call, flag, sweep, area, x, y>>
Return == call' = "none" /\ UNCHANGED <<label, flag, step, sweep, area, x, y>>

StopAveraging ==
  /\ At("reset", 1) /\ Continue
  /\ calcArea' = FALSE /\ disturbed' = (sweep # "none")
  /\ UNCHANGED <<real, readerGot, isWarp>>

ClearCoordinate ==
  \E n \in 1 .. 8 :
    /\ At("reset", n + 1) /\ Continue
    /\ real' = [real EXCEPT ![ResetOrder[n][1]][ResetOrder[n][2]] = -1]
    /\ UNCHANGED <<readerGot, isWarp, calcArea, disturbed>>

ClearFirst ==
  /\ At("reset", 10) /\ Continue
  /\ readerGot' = readerGot \ {1}
  /\ UNCHANGED <<real, isWarp, calcArea, disturbed>>

ClearSecond ==
  /\ At("reset", 11) /\ Return
  /\ readerGot' = readerGot \ {2}
  /\ UNCHANGED <<real, isWarp, calcArea, disturbed>>

StoreCoordinate ==
  /\ call = "area" /\ step \in 1 .. 4 /\ Continue
  /\ real' = [real EXCEPT ![flag][AreaOrder[step]] = Target(flag)[AreaOrder[step]]]
  /\ UNCHANGED <<readerGot, isWarp, calcArea, disturbed>>

(* mutant of StoreWarp: a rectangle that begins on the edge *)
StoreWarpBeyondEdge ==
  /\ At("area", 5) /\ Continue
  /\ isWarp' = IF flag = 1 THEN Low(1) > W ELSE isWarp
  /\ UNCHANGED <<real, readerGot, calcArea, disturbed>>

(* of the first rectangle only: it decides for the second as well *)
StoreWarp ==
  /\ At("area", 5) /\ Continue
  /\ isWarp' = IF flag = 1 THEN Low(1) >= W ELSE isWarp
  /\ UNCHANGED <<real, readerGot, calcArea, disturbed>>

(* the test after it, for the second, is on a column beyond the picture,   *)
(* which a remainder never is                                              *)
StoreGot ==
  /\ At("area", 6) /\ Continue
  /\ readerGot' = readerGot \cup {flag}
  /\ UNCHANGED <<real, isWarp, calcArea, disturbed>>

StartAveraging ==
  /\ At("area", 7) /\ Return
  /\ calcArea' = TRUE
  /\ UNCHANGED <<real, readerGot, isWarp, disturbed>>

AcceptArea ==
  \/ StopAveraging \/ ClearCoordinate \/ ClearFirst \/ ClearSecond
  \/ StoreCoordinate \/ StoreWarp \/ StoreGot \/ StartAveraging

-------------------------------------------------------------------------------
(* The frame thread, where a depth frame has been built                    *)

Step(from, to) == sweep = from /\ sweep' = to /\ UNCHANGED <<label, accept, fields>>

StartPass ==
  /\ calcArea /\ Step("none", "test")
  /\ area' = 1 /\ disturbed' = FALSE
  /\ UNCHANGED <<x, y>>

(* the second rectangle, or the end of the pass *)
Done(from) ==
  /\ x' = 0 /\ y' = 0
  /\ \/ area = 1 /\ area' = 2 /\ Step(from, "test") /\ UNCHANGED disturbed
     \/ area = 2 /\ area' = 1 /\ Step(from, "none") /\ disturbed' = FALSE

TestGot ==
  \/ area \in readerGot /\ Step("test", "begin") /\ UNCHANGED <<area, x, y, disturbed>>
  \/ area \notin readerGot /\ Done("test")

FirstColumn ==
  /\ Step("begin", "column")
  /\ x' = real[area]["x1"]
  /\ UNCHANGED <<area, y, disturbed>>

TestColumn ==
  \/ x <= real[area]["x2"] /\ Step("column", "rows") /\ UNCHANGED <<area, x, y, disturbed>>
  \/ x > real[area]["x2"] /\ Done("column")

FirstRow ==
  /\ Step("rows", "row")
  /\ y' = real[area]["y1"]
  /\ UNCHANGED <<area, x, disturbed>>

TestRow ==
  /\ UNCHANGED <<area, disturbed>>
  /\ \/ y <= real[area]["y2"] /\ Step("row", "pixel") /\ UNCHANGED <<x, y>>
     \/ y > real[area]["y2"] /\ Step("row", "column") /\ x' = x + 1 /\ y' = 0

(* reads depthData or depthDataRGB, as isWarp says, at x + y * W *)
Pixel ==
  /\ Step("pixel", "row")
  /\ y' = y + 1
  /\ UNCHANGED <<area, x, disturbed>>

Worker ==
  \/ StartPass \/ TestGot \/ FirstColumn \/ TestColumn \/ FirstRow \/ TestRow \/ Pixel

Next == Mouse \/ AcceptArea \/ Worker

Spec == Init /\ [][Next]_vars

-------------------------------------------------------------------------------
(* Properties *)

(* Whatever is drawn, the reader's columns and rows stay within one        *)
(* picture's width and height of 0, and its loops end.                     *)
TypeOK ==
  /\ tracking \in BOOLEAN /\ shown \in BOOLEAN
  /\ held \subseteq Buttons /\ m_drawArea \in BOOLEAN
  /\ startPoint \in [Areas -> [x: Int, y: Int]] /\ endPoint \in [Areas -> [x: Int, y: Int]]
  /\ labelGot \in {{}, {1}, Areas}
  /\ call \in {"none", "reset", "area"} /\ flag \in Areas /\ step \in 1 .. 11
  /\ real \in [Areas -> [Coordinates -> Int]]
  /\ \A k \in Areas : /\ {real[k]["x1"], real[k]["x2"]} \subseteq -W .. W
                      /\ {real[k]["y1"], real[k]["y2"]} \subseteq -H .. H - 1
  /\ readerGot \subseteq Areas /\ isWarp \in BOOLEAN /\ calcArea \in BOOLEAN
  /\ sweep \in {"none", "test", "begin", "column", "rows", "row", "pixel"}
  /\ area \in Areas /\ disturbed \in BOOLEAN
  /\ x \in -W .. W + 1 /\ y \in -H .. H

(* Label and reader count the rectangles each for itself                   *)
(* (qlabel_mouse.cpp:75-136, imagereader.cpp:541-576), yet between two     *)
(* events every rectangle the reader averages is one the label has handed  *)
(* over and not changed since, and it averages if it has one.              *)
AgreesWithLabel ==
  call = "none" =>
    /\ readerGot \subseteq labelGot
    /\ \A k \in readerGot : real[k] = Target(k)
    /\ calcArea <=> readerGot # {}

(* both corners on picture n, and not a click on its edge *)
DrawnOn(k, n) ==
  /\ {Low(k), High(k)} \subseteq n * W .. (n + 1) * W
  /\ {startPoint[k].y, endPoint[k].y} \subseteq 0 .. H - 1
  /\ Low(k) # High(k) \/ Low(k) \notin {W, 2 * W, 3 * W}

(* A pass that no reset has disturbed reads pixels of the rectangle drawn  *)
(* on the screen and no others, however the handing over of a rectangle    *)
(* interleaves with it, and of the picture the first rectangle was drawn   *)
(* on: flag and calcArea are written after everything they stand for, and  *)
(* the last row, -1 after a reset, after all other coordinates             *)
(* (imagereader.cpp:315-364, 543-575).                                     *)
SweepsWhatIsDrawn ==
  sweep = "pixel" /\ ~disturbed =>
    \A n \in 0 .. 2 :
      DrawnOn(area, n) =>
        /\ n * W + x \in Low(area) .. High(area)
        /\ y \in startPoint[area].y .. endPoint[area].y
        /\ area = 1 => (isWarp <=> n # 0)

(* What such a pass reads for a rectangle drawn on one picture are         *)
(* elements of the array of W * H numbers (imagereader.cpp:55-58), but for *)
(* one: the pixel right of the last row's last, where the rectangle ends   *)
(* in the picture's lower right corner, its right edge included            *)
(* (imagereader.cpp:329-331, 352-354).                                     *)
ReadsElements ==
  sweep = "pixel" /\ ~disturbed =>
    \A n \in 0 .. 2 :
      DrawnOn(area, n) =>
        /\ x + y * W \in 0 .. W * H
        /\ x + y * W = W * H => /\ High(area) = (n + 1) * W
                               /\ endPoint[area].y = H - 1

(* Without mouse tracking, which the form sets on the scroll area          *)
(* (VisionDemo.ui:231-234) and the window on itself (VisionDemo.cpp:26)    *)
(* but nothing on the label, every rectangle is a single point             *)
(* (qlabel_mouse.cpp:28).                                                  *)
UntrackedIsPoint == ~tracking => startPoint = endPoint

(* A first rectangle begun inside the left or the middle picture ends in   *)
(* it, wherever the mouse goes, as long as it stays to the right of column *)
(* 0 (qlabel_mouse.cpp:34-52).                                             *)
CutAtPictureEdge ==
  \A n \in {0, 1} :
    startPoint[1].x \in n * W + 1 .. (n + 1) * W - 1 /\ endPoint[1].x >= 0 =>
      endPoint[1].x \in n * W .. (n + 1) * W
===============================================================================
