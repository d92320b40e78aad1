-------------------------- MODULE AreaSelection_proof --------------------------
(***************************************************************************)
(* Proofs about AreaSelection, for pictures of any size and any positions  *)
(* of the mouse.                                                           *)
(***************************************************************************)
EXTENDS AreaSelection, TLAPS

(* The columns and rows the loops have let through, whatever the fields    *)
(* are overwritten with meanwhile.                                         *)
LoopBounds ==
  /\ sweep \in {"rows", "row", "pixel"} => x <= W
  /\ sweep = "pixel" => y <= H - 1

TypeInv == TypeOK /\ LoopBounds

(* Only a left press that is still held leaves a first rectangle that has  *)
(* not been handed over.                                                   *)
LabelInv ==
  /\ m_drawArea => "left" \in held
  /\ 1 \notin labelGot /\ "left" \notin held => startPoint[1] = None /\ endPoint[1] = None
  /\ UntrackedIsPoint /\ CutAtPictureEdge

(* a reset has begun to write *)
Clearing == call = "reset" /\ step > 1

(* the fields of a rectangle are those of the one drawn *)
Valid(k) == real[k] = Target(k) /\ (k = 1 => (isWarp <=> Low(1) >= W))

(* acceptArea's progress: what is declared is written, and the rectangle   *)
(* being written is not declared.                                          *)
HandInv ==
  /\ call # "reset" => readerGot \subseteq labelGot
  /\ ~Clearing => \A k \in readerGot : Valid(k) \/ (call = "reset" /\ Low(k) = -1)
  /\ call = "none" => (calcArea <=> readerGot # {})
  /\ Clearing => ~calcArea /\ (step = 11 => 1 \notin readerGot)
  /\ call = "area" =>
       /\ flag \in labelGot /\ step <= 7
       /\ \A i \in 1 .. 4 : i < step => real[flag][AreaOrder[i]] = Target(flag)[AreaOrder[i]]
       /\ step <= 6 => flag \notin readerGot /\ (calcArea <=> readerGot # {})
       /\ step >= 6 /\ flag = 1 => (isWarp <=> Low(1) >= W)
       /\ step = 7 => flag \in readerGot

(* An undisturbed pass is over a rectangle that stays as it is.            *)
SweepInv ==
  sweep # "none" /\ ~disturbed =>
    /\ ~Clearing
    /\ sweep # "test" => area \in readerGot
    /\ sweep \in {"column", "rows", "row", "pixel"} => x >= real[area]["x1"]
    /\ sweep \in {"rows", "row", "pixel"} => x <= real[area]["x2"]
    /\ sweep \in {"row", "pixel"} => y >= real[area]["y1"]
    /\ sweep = "pixel" => y <= real[area]["y2"]

-------------------------------------------------------------------------------
(* Helpers *)

LEMMA Ranges ==
  /\ 1 .. 0 = {} /\ 1 .. 1 - 1 = {} /\ 1 .. 1 = {1} /\ 1 .. 2 - 1 = {1} /\ 1 .. 2 = Areas
  /\ Areas # {} /\ Areas # {1} /\ 1 \in Areas /\ 2 \in Areas
BY DEF Areas

(* The names in the order in which acceptArea writes them.                 *)
LEMMA CoordinateNames ==
  /\ AreaOrder[1] = "x1" /\ AreaOrder[2] = "y1" /\ AreaOrder[3] = "x2" /\ AreaOrder[4] = "y2"
  /\ \A n \in 1 .. 8 : ResetOrder[n][1] \in Areas /\ ResetOrder[n][2] \in Coordinates
<1>1. AreaOrder[1] = "x1" /\ AreaOrder[2] = "y1" /\ AreaOrder[3] = "x2" /\ AreaOrder[4] = "y2"
  BY DEF AreaOrder
<1>2. ASSUME NEW n \in 1 .. 8
      PROVE  ResetOrder[n][1] \in Areas /\ ResetOrder[n][2] \in Coordinates
  <2>1. n = 1 \/ n = 2 \/ n = 3 \/ n = 4 \/ n = 5 \/ n = 6 \/ n = 7 \/ n = 8
    OBVIOUS
  <2>2. QED  BY <2>1 DEF ResetOrder, Areas, Coordinates
<1>3. QED  BY <1>1, <1>2

(* C's remainder has the sign of the dividend and is smaller than the      *)
(* divisor.                                                                *)
LEMMA RemRange ==
  ASSUME NEW a \in Int, NEW b \in Nat \ {0}
  PROVE  Rem(a, b) \in -(b - 1) .. b - 1
<1>1. \A c \in Int : c % b \in 0 .. b - 1
  OBVIOUS
<1>2. a % b \in 0 .. b - 1 /\ (-a) % b \in 0 .. b - 1
  BY <1>1
<1>3. QED  BY <1>2 DEF Rem

(* A column of picture n is the remainder's distance from its left edge.   *)
LEMMA RemOnPicture ==
  ASSUME NEW n \in 0 .. 2, NEW a \in n * W .. (n + 1) * W - 1
  PROVE  Rem(a, W) = a - n * W
<1> USE WAssumption
<1>1. a >= 0 /\ a \in Int
  BY SMT
<1>2. a % W = a - n * W
  <2>1. CASE n = 0  BY <2>1, SMT
  <2>2. CASE n = 1  BY <2>2, SMT
  <2>3. CASE n = 2  BY <2>3, SMT
  <2>4. QED  BY <2>1, <2>2, <2>3
<1>3. QED  BY <1>1, <1>2 DEF Rem

(* A row of the picture is its own remainder.                              *)
LEMMA RemRow ==
  ASSUME NEW a \in 0 .. H - 1
  PROVE  Rem(a, H) = a
BY HAssumption DEF Rem
(* What is handed over is four numbers, its columns those of the drawing.  *)
LEMMA TargetType ==
  ASSUME TypeOK, NEW k \in Areas
  PROVE  /\ Target(k) \in [Coordinates -> Int]
         /\ Target(k)["x1"] \in -W .. W /\ Target(k)["x2"] \in -W .. W
         /\ Target(k)["y1"] \in -H .. H - 1 /\ Target(k)["y2"] \in -H .. H - 1
         /\ Low(k) \in Int /\ High(k) \in Int /\ Low(k) <= High(k)
<1> USE WAssumption, HAssumption
<1>1. startPoint[k] \in [x: Int, y: Int] /\ endPoint[k] \in [x: Int, y: Int]
  BY DEF TypeOK
<1>2. Low(k) \in Int /\ High(k) \in Int /\ Low(k) <= High(k)
  BY <1>1 DEF Low, High
<1>3. /\ Rem(Low(k), W) \in -(W - 1) .. W - 1 /\ Rem(High(k), W) \in -(W - 1) .. W - 1
      /\ Rem(startPoint[k].y, H) \in -(H - 1) .. H - 1
      /\ Rem(endPoint[k].y, H) \in -(H - 1) .. H - 1
  BY <1>1, <1>2, RemRange
<1>4. /\ Target(k)["x1"] = IF Low(k) \in {0, W, 2 * W} THEN 0 ELSE Rem(Low(k), W)
      /\ Target(k)["y1"] = Rem(startPoint[k].y, H)
      /\ Target(k)["x2"] = IF High(k) \in {W, 2 * W, 3 * W} THEN W ELSE Rem(High(k), W)
      /\ Target(k)["y2"] = Rem(endPoint[k].y, H)
  BY DEF Target, Coordinates
<1>5. /\ Target(k)["x1"] \in -W .. W /\ Target(k)["x2"] \in -W .. W
      /\ Target(k)["y1"] \in -H .. H - 1 /\ Target(k)["y2"] \in -H .. H - 1
  BY <1>3, <1>4
<1>6. Target(k) \in [Coordinates -> Int]
  <2>1. \A c \in Coordinates : Target(k)[c] \in Int
    BY <1>5 DEF Coordinates
  <2>2. QED  BY <2>1 DEF Target
<1>7. QED  BY <1>2, <1>5, <1>6

-------------------------------------------------------------------------------
(* Types *)

LEMMA TypeInit == Init => TypeInv
<1> SUFFICES ASSUME Init PROVE TypeInv
  OBVIOUS
<1>1. tracking \in BOOLEAN
  BY MouseTrackingAssumption DEF Init
<1>2. /\ startPoint \in [Areas -> [x: Int, y: Int]] /\ endPoint \in [Areas -> [x: Int, y: Int]]
      /\ real \in [Areas -> [Coordinates -> Int]]
  BY DEF Init, None
<1>3. \A k \in Areas, c \in Coordinates : real[k][c] = -1
  BY DEF Init
<1>4. \A k \in Areas : /\ {real[k]["x1"], real[k]["x2"]} \subseteq -W .. W
                       /\ {real[k]["y1"], real[k]["y2"]} \subseteq -H .. H - 1
  BY <1>3, WAssumption, HAssumption DEF Coordinates
<1>5. /\ area \in Areas /\ flag \in Areas /\ step \in 1 .. 11
      /\ x \in -W .. W + 1 /\ y \in -H .. H /\ LoopBounds
  BY WAssumption, HAssumption DEF Init, LoopBounds, Areas
<1>6. QED
  BY <1>1, <1>2, <1>4, <1>5 DEF Init, TypeInv, TypeOK

LEMMA LabelTypeStep ==
  ASSUME TypeInv, Mouse
  PROVE  TypeInv'
<1> USE DEF TypeInv, TypeOK
<1>a. \A p \in Positions(Inside \cup Outside) \cup Positions(Inside) : p \in [x: Int, y: Int]
  BY PointsAssumption DEF Positions
<1>b. UNCHANGED LoopBounds
  BY DEF Mouse, SetImage, PressRight, PressLeft, DoubleClick, Drag, DragTo, Release, Event,
         worker, LoopBounds
<1>n. NoMarks => /\ startPoint' \in [Areas -> [x: Int, y: Int]]
                 /\ endPoint' \in [Areas -> [x: Int, y: Int]]
  BY DEF NoMarks, None
<1>e. Event => TypeOK' \/ ~(/\ shown' \in BOOLEAN /\ held' \subseteq Buttons
                             /\ m_drawArea' \in BOOLEAN
                             /\ startPoint' \in [Areas -> [x: Int, y: Int]]
                             /\ endPoint' \in [Areas -> [x: Int, y: Int]]
                             /\ labelGot' \in {{}, {1}, Areas}
                             /\ call' \in {"none", "reset", "area"}
                             /\ flag' \in Areas /\ step' \in 1 .. 11)
  BY DEF Event, fields, worker
<1>1. CASE SetImage
  BY <1>1, <1>b, <1>e DEF SetImage, mouse, marks, accept
<1>2. CASE PressRight
  BY <1>2, <1>b, <1>e, <1>n DEF PressRight, Enter, Areas, Buttons
<1>3. ASSUME NEW p \in Positions(Inside), NEW title \in BOOLEAN, PressLeft(p, title)
      PROVE  TypeInv'
  <2>1. startPoint' \in [Areas -> [x: Int, y: Int]] /\ endPoint' \in [Areas -> [x: Int, y: Int]]
    <3>1. p \in [x: Int, y: Int] /\ None \in [x: Int, y: Int]
      BY <1>a DEF None
    <3>2. CASE startPoint' = [startPoint EXCEPT ![1] = None] /\ UNCHANGED endPoint
      BY <3>1, <3>2
    <3>3. ASSUME NEW k \in Areas, PutStart(k, p)
          PROVE  /\ startPoint' \in [Areas -> [x: Int, y: Int]]
                 /\ endPoint' \in [Areas -> [x: Int, y: Int]]
      BY <3>1, <3>3 DEF PutStart
    <3>4. QED  BY <1>3, <3>2, <3>3, Ranges DEF PressLeft
  <2>2. m_drawArea' \in BOOLEAN /\ held' \subseteq Buttons
    BY <1>3 DEF PressLeft, Buttons
  <2>3. QED  BY <1>3, <1>b, <1>e, <2>1, <2>2 DEF PressLeft, accept
<1>4. ASSUME NEW p \in Positions(Inside \cup Outside), Drag(p)
      PROVE  TypeInv'
  <2>1. PICK k \in Areas :
          endPoint' = [endPoint EXCEPT ![k] =
                         [x |-> CutAt(startPoint[k].x, startPoint[1].x, p.x), y |-> p.y]]
    BY <1>4 DEF Drag, DragTo
  <2>2. CutAt(startPoint[k].x, startPoint[1].x, p.x) \in Int
    <3>1. /\ p.x \in Int /\ startPoint[k].x \in Int /\ startPoint[1].x \in Int
          /\ W \in Int /\ 2 * W \in Int /\ 3 * W \in Int
      <4>1. p \in [x: Int, y: Int]
        BY <1>a
      <4> HIDE DEF TypeInv
      <4>2. startPoint[k].x \in Int /\ startPoint[1].x \in Int
        BY Ranges DEF TypeInv
      <4>3. QED  BY <4>1, <4>2, WAssumption
    <3>2. QED  BY ONLY <3>1 DEF CutAt
  <2>3. endPoint' \in [Areas -> [x: Int, y: Int]]
    BY <1>a, <2>1, <2>2
  <2>4. QED  BY <1>4, <1>b, <1>e, <2>3 DEF Drag, DragTo, mouse, accept
<1>5. ASSUME NEW button \in Buttons, DoubleClick(button)
      PROVE  TypeInv'
  BY <1>5, <1>b, <1>e DEF DoubleClick, marks, accept
<1>6. ASSUME NEW button \in Buttons, Release(button)
      PROVE  TypeInv'
  <2>1. CASE labelGot = Areas /\ labelGot' = {} /\ NoMarks /\ Enter("reset", 1)
    <3>1. held' \subseteq Buttons /\ m_drawArea' \in BOOLEAN /\ UNCHANGED shown /\ Event
      BY <1>6 DEF Release
    <3>2. call' \in {"none", "reset", "area"} /\ flag' \in Areas /\ step' \in 1 .. 11
      BY <2>1 DEF Enter, Areas
    <3>3. QED  BY <1>b, <1>e, <1>n, <2>1, <3>1, <3>2
  <2>2. ASSUME NEW k \in Areas, labelGot' = 1 .. k, SendArea(k), UNCHANGED <<startPoint, endPoint>>
        PROVE  TypeInv'
    <3>1. labelGot' \in {{}, {1}, Areas}
      BY <2>2, Ranges DEF Areas
    <3>2. call' \in {"none", "reset", "area"} /\ flag' \in Areas /\ step' \in 1 .. 11
      BY <2>2 DEF SendArea, Enter
    <3>3. QED  BY <1>6, <1>b, <1>e, <2>2, <3>1, <3>2 DEF Release
  <2>3. QED  BY <1>6, <2>1, <2>2 DEF Release
<1>7. QED
  BY <1>1, <1>2, <1>3, <1>4, <1>5, <1>6 DEF Mouse

LEMMA AcceptTypeStep ==
  ASSUME TypeInv, AcceptArea
  PROVE  TypeInv'
<1> USE WAssumption, HAssumption DEF TypeInv, TypeOK
<1>a. UNCHANGED <<label, sweep, area, x, y>>
  BY DEF AcceptArea, StopAveraging, ClearCoordinate, ClearFirst, ClearSecond, StoreCoordinate,
         StoreWarp, StoreGot, StartAveraging, Continue, Return
<1>b. LoopBounds'
  BY <1>a DEF LoopBounds
<1>s. /\ call' \in {"none", "reset", "area"} /\ flag' \in Areas
      /\ step' \in 1 .. 11
  BY DEF AcceptArea, StopAveraging, ClearCoordinate, ClearFirst, ClearSecond, StoreCoordinate,
         StoreWarp, StoreGot, StartAveraging, Continue, Return, At
<1>1. CASE StopAveraging
  BY <1>1, <1>a, <1>b, <1>s DEF StopAveraging, label, mouse, marks
<1>2. CASE ClearCoordinate
  <2>1. PICK n \in 1 .. 8 :
          real' = [real EXCEPT ![ResetOrder[n][1]][ResetOrder[n][2]] = -1]
    BY <1>2 DEF ClearCoordinate
  <2>2. PICK k \in Areas, c \in Coordinates : real' = [real EXCEPT ![k][c] = -1]
    BY <2>1, CoordinateNames
  <2>3. /\ real' \in [Areas -> [Coordinates -> Int]]
        /\ \A j \in Areas, d \in Coordinates : real'[j][d] = real[j][d] \/ real'[j][d] = -1
    BY <2>2
  <2>4. \A j \in Areas : /\ {real'[j]["x1"], real'[j]["x2"]} \subseteq -W .. W
                         /\ {real'[j]["y1"], real'[j]["y2"]} \subseteq -H .. H - 1
    <3>1. -1 \in -W .. W /\ -1 \in -H .. H - 1
      OBVIOUS
    <3>2. ASSUME NEW j \in Areas, NEW d \in Coordinates, NEW S, real[j][d] \in S, -1 \in S
          PROVE  real'[j][d] \in S
      BY <2>3, <3>2
    <3>3. ASSUME NEW j \in Areas
          PROVE  /\ real'[j]["x1"] \in -W .. W /\ real'[j]["x2"] \in -W .. W
                 /\ real'[j]["y1"] \in -H .. H - 1 /\ real'[j]["y2"] \in -H .. H - 1
      <4>1. /\ real[j]["x1"] \in -W .. W /\ real[j]["x2"] \in -W .. W
            /\ real[j]["y1"] \in -H .. H - 1 /\ real[j]["y2"] \in -H .. H - 1
        OBVIOUS
      <4>2. QED  BY <3>1, <3>2, <4>1 DEF Coordinates
    <3>4. QED  BY <3>3
  <2>5. QED  BY <1>2, <1>a, <1>b, <1>s, <2>3, <2>4 DEF ClearCoordinate, label, mouse, marks
<1>3. CASE ClearFirst
  BY <1>3, <1>a, <1>b, <1>s DEF ClearFirst, label, mouse, marks
<1>4. CASE ClearSecond
  BY <1>4, <1>a, <1>b, <1>s DEF ClearSecond, label, mouse, marks
<1>5. CASE StoreCoordinate
  <2>1. PICK c \in Coordinates : real' = [real EXCEPT ![flag][c] = Target(flag)[c]]
    <3>1. step = 1 \/ step = 2 \/ step = 3 \/ step = 4
      BY <1>5 DEF StoreCoordinate
    <3>2. QED  BY <1>5, <3>1, CoordinateNames DEF StoreCoordinate, Coordinates
  <2>2. /\ Target(flag) \in [Coordinates -> Int]
        /\ Target(flag)["x1"] \in -W .. W /\ Target(flag)["x2"] \in -W .. W
        /\ Target(flag)["y1"] \in -H .. H - 1 /\ Target(flag)["y2"] \in -H .. H - 1
    BY TargetType
  <2>3. real' \in [Areas -> [Coordinates -> Int]]
    BY <2>1, <2>2
  <2>4. \A j \in Areas, d \in Coordinates : \/ real'[j][d] = real[j][d]
                                            \/ real'[j][d] = Target(flag)[d]
    BY <2>1
  <2>5. \A j \in Areas : /\ {real'[j]["x1"], real'[j]["x2"]} \subseteq -W .. W
                         /\ {real'[j]["y1"], real'[j]["y2"]} \subseteq -H .. H - 1
    BY <2>2, <2>4 DEF Coordinates
  <2>6. QED  BY <1>5, <1>a, <1>b, <1>s, <2>3, <2>5 DEF StoreCoordinate, label, mouse, marks
<1>6. CASE StoreWarp
  <2>1. isWarp' \in BOOLEAN
    <3>1. CASE flag = 1 /\ Low(1) >= W  BY <1>6, <3>1 DEF StoreWarp
    <3>2. CASE flag = 1 /\ ~(Low(1) >= W)  BY <1>6, <3>2 DEF StoreWarp
    <3>3. CASE flag # 1  BY <1>6, <3>3 DEF StoreWarp
    <3>4. QED  BY <3>1, <3>2, <3>3
  <2>2. QED  BY <1>6, <1>a, <1>b, <1>s, <2>1 DEF StoreWarp, label, mouse, marks
<1>7. CASE StoreGot
  BY <1>7, <1>a, <1>b, <1>s DEF StoreGot, label, mouse, marks
<1>8. CASE StartAveraging
  BY <1>8, <1>a, <1>b, <1>s DEF StartAveraging, label, mouse, marks
<1>9. QED
  BY <1>1, <1>2, <1>3, <1>4, <1>5, <1>6, <1>7, <1>8 DEF AcceptArea

LEMMA WorkerTypeStep ==
  ASSUME TypeInv, Worker
  PROVE  TypeInv'
<1> USE WAssumption, HAssumption DEF TypeInv, TypeOK, LoopBounds
<1>a. UNCHANGED <<label, accept, fields>>
  BY DEF Worker, StartPass, TestGot, FirstColumn, TestColumn, FirstRow, TestRow, Pixel, Done, Step
<1>b. area \in Areas /\ real[area]["x1"] \in -W .. W /\ real[area]["x2"] \in -W .. W
  OBVIOUS
<1>c. real[area]["y1"] \in -H .. H - 1 /\ real[area]["y2"] \in -H .. H - 1
  OBVIOUS
<1>k. sweep' \in {"none", "test", "begin", "column", "rows", "row", "pixel"} /\ area' \in Areas
      /\ disturbed' \in BOOLEAN /\ x' \in -W .. W + 1 /\ y' \in -H .. H /\ LoopBounds'
      => TypeInv'
  BY <1>a DEF label, mouse, marks, accept, fields
<1>1. CASE StartPass
  BY <1>1, <1>k DEF StartPass, Step, Areas
<1>2. ASSUME NEW from \in {"test", "column"}, Done(from)  PROVE TypeInv'
  <2>1. x' = 0 /\ y' = 0 /\ area' \in Areas /\ sweep' \in {"test", "none"}
    BY <1>2 DEF Done, Step, Areas
  <2>2. disturbed' \in BOOLEAN
    BY <1>2 DEF Done
  <2>3. QED  BY <1>k, <2>1, <2>2
<1>3. CASE TestGot
  BY <1>2, <1>3, <1>k DEF TestGot, Step
<1>4. CASE FirstColumn
  BY <1>4, <1>b, <1>k DEF FirstColumn, Step
<1>5. CASE TestColumn
  BY <1>2, <1>5, <1>b, <1>k DEF TestColumn, Step
<1>6. CASE FirstRow
  BY <1>6, <1>c, <1>k DEF FirstRow, Step
<1>7. CASE TestRow
  BY <1>7, <1>c, <1>k DEF TestRow, Step
<1>8. CASE Pixel
  BY <1>8, <1>k DEF Pixel, Step
<1>9. QED
  BY <1>1, <1>3, <1>4, <1>5, <1>6, <1>7, <1>8 DEF Worker

LEMMA TypeStep == TypeInv /\ [Next]_vars => TypeInv'
<1>1. CASE UNCHANGED vars
  BY <1>1 DEF vars, label, mouse, marks, accept, fields, worker, TypeInv, TypeOK, LoopBounds
<1>2. QED
  BY <1>1, LabelTypeStep, AcceptTypeStep, WorkerTypeStep DEF Next

LEMMA Typing == Spec => []TypeInv
BY TypeInit, TypeStep, PTL DEF Spec

(* Columns and rows of the reader stay within one picture's width and      *)
(* height of 0, for pictures of any size.                                  *)
THEOREM TypeCorrect == Spec => []TypeOK
<1>1. TypeInv => TypeOK  BY DEF TypeInv
<1>2. QED  BY <1>1, Typing, PTL
-------------------------------------------------------------------------------
(* The label *)

(* The last tests of CutAt keep an end the first has not cut: begun inside *)
(* picture n, which is not the right one, it stays there.                  *)
LEMMA CutAtStays ==
  ASSUME NEW n \in {0, 1}, NEW s \in n * W + 1 .. (n + 1) * W - 1, NEW e \in Int,
         CutAt(s, s, e) >= 0
  PROVE  CutAt(s, s, e) \in n * W .. (n + 1) * W
<1> USE WAssumption DEF CutAt
<1>1. CASE n = 0
  <2>1. s \in 1 .. W - 1  BY <1>1
  <2>2. CASE e > W  BY <1>1, <2>1, <2>2
  <2>3. CASE ~(e > W)  BY <1>1, <2>1, <2>3
  <2>4. QED  BY <2>2, <2>3
<1>2. CASE n = 1
  <2>1. s \in W + 1 .. 2 * W - 1  BY <1>2
  <2>2. CASE e > 2 * W  BY <1>2, <2>1, <2>2
  <2>3. CASE e < W  BY <1>2, <2>1, <2>3
  <2>4. CASE e \in W .. 2 * W  BY <1>2, <2>1, <2>4
  <2>5. QED  BY <2>2, <2>3, <2>4
<1>3. QED  BY <1>1, <1>2

LEMMA LabelInit == Init => LabelInv
<1> SUFFICES ASSUME Init PROVE LabelInv
  OBVIOUS
<1>1. startPoint = endPoint /\ startPoint[1] = None
  BY DEF Init, Areas
<1>2. CutAtPictureEdge
  BY <1>1, WAssumption DEF CutAtPictureEdge, None
<1>3. QED  BY <1>1, <1>2 DEF Init, LabelInv, UntrackedIsPoint

(* Nothing is left of the rectangles drawn.                                *)
LEMMA NoMarksLabel ==
  ASSUME NoMarks
  PROVE  /\ \A k \in Areas : startPoint'[k] = None /\ endPoint'[k] = None
         /\ UntrackedIsPoint' /\ CutAtPictureEdge'
<1>1. startPoint' = endPoint' /\ \A k \in Areas : startPoint'[k] = None /\ endPoint'[k] = None
  BY DEF NoMarks
<1>2. startPoint'[1].x = -1
  BY <1>1, Ranges DEF None
<1>3. CutAtPictureEdge'
  BY <1>2, WAssumption DEF CutAtPictureEdge
<1>4. QED  BY <1>1, <1>3 DEF UntrackedIsPoint

(* No event leaves a first rectangle behind that was not handed over.      *)
LEMMA LabelStep ==
  ASSUME TypeInv, LabelInv, [Next]_vars
  PROVE  LabelInv'
<1> USE DEF TypeInv, TypeOK
<1>u. CASE UNCHANGED <<tracking, held, m_drawArea, marks>>
  BY <1>u DEF marks, LabelInv, UntrackedIsPoint, CutAtPictureEdge
<1>1. CASE SetImage
  BY <1>1, <1>u DEF SetImage, Event, mouse
<1>2. CASE PressRight
  BY <1>2, NoMarksLabel, Ranges DEF PressRight, LabelInv, Enter
<1>3. ASSUME NEW p \in Positions(Inside), NEW title \in BOOLEAN, PressLeft(p, title)
      PROVE  LabelInv'
  <2>1. "left" \notin held /\ "left" \in held' /\ UNCHANGED <<labelGot, tracking>>
    BY <1>3 DEF PressLeft, Event
  <2>2. CASE UNCHANGED <<startPoint, endPoint>>
    BY <2>1, <2>2 DEF LabelInv, UntrackedIsPoint, CutAtPictureEdge
  <2>3. CASE 1 \notin labelGot /\ startPoint' = [startPoint EXCEPT ![1] = None] /\ UNCHANGED endPoint
    <3>1. startPoint[1] = None /\ endPoint[1] = None
      BY <2>1, <2>3 DEF LabelInv
    <3>2. startPoint' = startPoint
      BY <2>3, <3>1
    <3>3. QED  BY <2>2, <2>3, <3>2
  <2>4. ASSUME NEW k \in Areas, PutStart(k, p)
        PROVE  LabelInv'
    <3>1. startPoint'[k] = p /\ endPoint'[k] = p
          /\ \A j \in Areas \ {k} : UNCHANGED <<startPoint[j], endPoint[j]>>
      BY <2>4 DEF PutStart
    <3>2. ~tracking => startPoint' = endPoint'
      BY <2>4 DEF PutStart, LabelInv, UntrackedIsPoint
    <3>3. CutAtPictureEdge'
      <4>1. CASE k = 1
        BY <3>1, <4>1, WAssumption DEF CutAtPictureEdge
      <4>2. CASE k # 1
        BY <3>1, <4>2, Ranges DEF CutAtPictureEdge, LabelInv
      <4>3. QED  BY <4>1, <4>2
    <3>4. QED  BY <2>1, <3>2, <3>3 DEF LabelInv, UntrackedIsPoint
  <2>5. QED  BY <1>3, <2>2, <2>3, <2>4, Ranges DEF PressLeft
<1>4. ASSUME NEW p \in Positions(Inside \cup Outside), Drag(p)
      PROVE  LabelInv'
  <2>1. PICK k \in Areas :
          endPoint' = [endPoint EXCEPT ![k] =
                         [x |-> CutAt(startPoint[k].x, startPoint[1].x, p.x), y |-> p.y]]
    BY <1>4 DEF Drag, DragTo
  <2>2. tracking /\ m_drawArea /\ "left" \in held
        /\ UNCHANGED <<tracking, held, m_drawArea, labelGot, startPoint>>
    BY <1>4 DEF Drag, DragTo, Event, mouse, LabelInv
  <2>3. CutAtPictureEdge'
    <3>1. CASE k = 1
      <4>1. endPoint'[1].x = CutAt(startPoint[1].x, startPoint[1].x, p.x)
        BY <2>1, <3>1
      <4>2. p \in [x: Int, y: Int]
        BY PointsAssumption DEF Positions
      <4>3. p.x \in Int
        BY <4>2
      <4>4. QED  BY <2>2, <4>1, <4>3, CutAtStays DEF CutAtPictureEdge
    <3>2. CASE k # 1
      BY <2>1, <2>2, <3>2, Ranges DEF CutAtPictureEdge, LabelInv
    <3>3. QED  BY <3>1, <3>2
  <2>4. QED  BY <2>2, <2>3 DEF LabelInv, UntrackedIsPoint
<1>5. ASSUME NEW button \in Buttons, DoubleClick(button)
      PROVE  LabelInv'
  BY <1>5 DEF DoubleClick, Event, marks, LabelInv, UntrackedIsPoint, CutAtPictureEdge
<1>6. ASSUME NEW button \in Buttons, Release(button)
      PROVE  LabelInv'
  <2>1. CASE NoMarks
    BY <1>6, <2>1, NoMarksLabel, Ranges DEF Release, LabelInv
  <2>2. ASSUME NEW k \in Areas, labelGot' = 1 .. k, UNCHANGED <<startPoint, endPoint>>
        PROVE  LabelInv'
    <3>1. 1 \in labelGot'
      BY <2>2, Ranges DEF Areas
    <3>2. QED
      BY <1>6, <2>2, <3>1 DEF Release, Event, LabelInv, UntrackedIsPoint, CutAtPictureEdge
  <2>3. QED  BY <1>6, <2>1, <2>2 DEF Release
<1>7. CASE AcceptArea
  BY <1>7, <1>u DEF AcceptArea, StopAveraging, ClearCoordinate, ClearFirst, ClearSecond,
     StoreCoordinate, StoreWarp, StoreGot, StartAveraging, Continue, Return, label, mouse
<1>8. CASE Worker
  BY <1>8, <1>u DEF Worker, StartPass, TestGot, FirstColumn, TestColumn, FirstRow, TestRow,
     Pixel, Done, Step, label, mouse
<1>9. CASE UNCHANGED vars
  BY <1>9, <1>u DEF vars, label, mouse
<1>10. QED
  BY <1>1, <1>2, <1>3, <1>4, <1>5, <1>6, <1>7, <1>8, <1>9 DEF Next, Mouse

LEMMA LabelCorrect == Spec => []LabelInv
BY LabelInit, LabelStep, Typing, PTL DEF Spec

(* Without mouse tracking every rectangle is a single point, wherever the  *)
(* mouse goes and whatever buttons are pressed.                            *)
THEOREM UntrackedIsPointCorrect == Spec => []UntrackedIsPoint
<1>1. LabelInv => UntrackedIsPoint  BY DEF LabelInv
<1>2. QED  BY <1>1, LabelCorrect, PTL

(* For pictures of any width a first rectangle begun inside the left or    *)
(* the middle picture ends in it.                                          *)
THEOREM CutAtPictureEdgeCorrect == Spec => []CutAtPictureEdge
<1>1. LabelInv => CutAtPictureEdge  BY DEF LabelInv
<1>2. QED  BY <1>1, LabelCorrect, PTL
-------------------------------------------------------------------------------
(* What has been handed over *)

(* what a rectangle becomes depends on its own corners only *)
LEMMA ValidUnchanged ==
  ASSUME NEW k \in Areas, Valid(k), UNCHANGED <<real[k], isWarp, startPoint[k], endPoint[k]>>
  PROVE  Valid(k)'
BY DEF Valid, Target, Low, High

(* Columns and fields depend on the corners only.                          *)
LEMMA LowUnchanged ==
  ASSUME NEW k \in Areas, UNCHANGED <<startPoint[k], endPoint[k]>>
  PROVE  Low(k)' = Low(k) /\ Target(k)' = Target(k)
BY DEF Low, High, Target

LEMMA HandInit == Init => HandInv
BY DEF Init, HandInv, Clearing

(* Events change what is handed over only by entering acceptArea.          *)
LEMMA HandMouseStep ==
  ASSUME TypeInv, HandInv, Mouse
  PROVE  HandInv'
<1> USE DEF TypeInv, TypeOK
<1>a. call = "none" /\ readerGot \subseteq labelGot /\ (calcArea <=> readerGot # {})
      /\ \A k \in readerGot : Valid(k)
  BY DEF Mouse, SetImage, PressRight, PressLeft, DoubleClick, Drag, DragTo, Release, Event,
         HandInv, Clearing
<1>b. UNCHANGED <<real, readerGot, isWarp, calcArea>>
  BY DEF Mouse, SetImage, PressRight, PressLeft, DoubleClick, Drag, DragTo, Release, Event, fields
<1>c. ASSUME UNCHANGED <<call, labelGot>>,
             \A k \in readerGot : UNCHANGED <<startPoint[k], endPoint[k]>>
      PROVE  HandInv'
  <2>1. \A k \in readerGot' : Valid(k)'
    BY <1>a, <1>b, <1>c, ValidUnchanged
  <2>2. QED  BY <1>a, <1>b, <1>c, <2>1 DEF HandInv, Clearing
<1>d. ASSUME NoMarks, Enter("reset", 1)
      PROVE  HandInv'
  <2>1. call' = "reset" /\ step' = 1 /\ ~Clearing'
    BY <1>d DEF Enter, Clearing
  <2>2. \A k \in Areas : Low(k)' = -1
    BY <1>d DEF NoMarks, None, Low
  <2>3. QED  BY <1>b, <2>1, <2>2 DEF HandInv
<1>1. CASE SetImage
  BY <1>1, <1>c DEF SetImage, marks, accept
<1>2. CASE PressRight
  BY <1>2, <1>d DEF PressRight
<1>3. ASSUME NEW p \in Positions(Inside), NEW title \in BOOLEAN, PressLeft(p, title)
      PROVE  HandInv'
  <2>1. UNCHANGED <<call, labelGot>>
    BY <1>3 DEF PressLeft, accept
  <2>2. ASSUME NEW j \in Areas \ labelGot, NEW k \in readerGot,
               \A i \in Areas \ {j} : UNCHANGED <<startPoint[i], endPoint[i]>>
        PROVE  UNCHANGED <<startPoint[k], endPoint[k]>>
    BY <1>a, <2>2
  <2>3. \A k \in readerGot : UNCHANGED <<startPoint[k], endPoint[k]>>
    BY <1>3, <2>2, <1>a, Ranges DEF PressLeft, PutStart
  <2>4. QED  BY <1>c, <2>1, <2>3
<1>4. ASSUME NEW p \in Positions(Inside \cup Outside), Drag(p)
      PROVE  HandInv'
  <2>1. PICK k \in Areas :
          /\ labelGot = 1 .. k - 1
          /\ \A j \in Areas \ {k} : UNCHANGED endPoint[j]
    BY <1>4 DEF Drag, DragTo
  <2>2. k \notin readerGot
    BY <1>a, <2>1
  <2>3. UNCHANGED <<call, labelGot, startPoint>>
    BY <1>4 DEF Drag, DragTo, accept
  <2>4. QED  BY <1>c, <2>1, <2>2, <2>3
<1>5. ASSUME NEW button \in Buttons, DoubleClick(button)
      PROVE  HandInv'
  BY <1>5, <1>c DEF DoubleClick, marks, accept
<1>6. ASSUME NEW button \in Buttons, Release(button)
      PROVE  HandInv'
  <2>1. ASSUME NEW k \in Areas, labelGot = 1 .. k - 1, labelGot' = 1 .. k, SendArea(k),
               UNCHANGED <<startPoint, endPoint>>
        PROVE  HandInv'
    <3>1. k \notin readerGot /\ k \in labelGot' /\ readerGot \subseteq labelGot'
      BY <1>a, <2>1, Ranges DEF Areas
    <3>2. \A j \in readerGot' : Valid(j)'
      BY <1>a, <1>b, <2>1, ValidUnchanged
    <3>3. flag' = k /\ step' = 1 /\ call' \in {"reset", "area"} /\ ~Clearing'
      BY <2>1 DEF SendArea, Enter, Clearing
    <3>4. \A i \in 1 .. 4 : ~(i < step')
      BY <3>3
    <3>5. QED  BY <1>a, <1>b, <3>1, <3>2, <3>3, <3>4 DEF HandInv
  <2>2. QED  BY <1>6, <1>d, <2>1 DEF Release
<1>7. QED
  BY <1>1, <1>2, <1>3, <1>4, <1>5, <1>6 DEF Mouse

(* Assignment by assignment, acceptArea declares what it has written.      *)
LEMMA HandAcceptStep ==
  ASSUME TypeInv, HandInv, AcceptArea
  PROVE  HandInv'
<1> USE DEF TypeInv, TypeOK
<1>a. UNCHANGED <<startPoint, endPoint, labelGot, flag>>
  BY DEF AcceptArea, StopAveraging, ClearCoordinate, ClearFirst, ClearSecond, StoreCoordinate,
         StoreWarp, StoreGot, StartAveraging, Continue, Return, label, marks
<1>b. /\ \A k \in Areas : Low(k)' = Low(k) /\ Target(k)' = Target(k)
      /\ \A k \in Areas : Valid(k) /\ UNCHANGED <<real[k], isWarp>> => Valid(k)'
  BY <1>a, LowUnchanged, ValidUnchanged
<1>1. CASE StopAveraging
  BY <1>1 DEF StopAveraging, Continue, At, HandInv, Clearing
<1>2. CASE ClearCoordinate
  BY <1>2 DEF ClearCoordinate, Continue, At, HandInv, Clearing
<1>3. CASE ClearFirst
  BY <1>3 DEF ClearFirst, Continue, At, HandInv, Clearing
<1>4. CASE ClearSecond
  <2>1. call' = "none" /\ ~calcArea' /\ readerGot' = {}
    BY <1>4 DEF ClearSecond, Return, At, HandInv, Clearing, Areas
  <2>2. QED  BY <2>1 DEF HandInv, Clearing
<1>5. CASE StoreCoordinate
  <2>1. /\ call = "area" /\ step \in 1 .. 4 /\ step' = step + 1 /\ flag \notin readerGot
        /\ UNCHANGED <<call, readerGot, isWarp, calcArea>>
        /\ readerGot \subseteq labelGot /\ flag \in labelGot /\ (calcArea <=> readerGot # {})
        /\ \A k \in readerGot : Valid(k)
    BY <1>5 DEF StoreCoordinate, Continue, HandInv, Clearing
  <2>2. AreaOrder[step] \in Coordinates
        /\ real' = [real EXCEPT ![flag][AreaOrder[step]] = Target(flag)[AreaOrder[step]]]
    <3>1. step = 1 \/ step = 2 \/ step = 3 \/ step = 4
      BY <2>1
    <3>2. QED  BY <1>5, <3>1, CoordinateNames DEF StoreCoordinate, Coordinates
  <2>3. \A k \in readerGot' : Valid(k)'
    BY <1>b, <2>1, <2>2
  <2>4. \A i \in 1 .. 4 : i < step' => real'[flag][AreaOrder[i]] = Target(flag)[AreaOrder[i]]
    <3>1. \A i \in 1 .. 4 : AreaOrder[i] \in Coordinates
      BY CoordinateNames DEF Coordinates
    <3>2. \A i \in 1 .. 4 : i < step => real[flag][AreaOrder[i]] = Target(flag)[AreaOrder[i]]
      BY <2>1 DEF HandInv
    <3>3. real'[flag][AreaOrder[step]] = Target(flag)[AreaOrder[step]]
          /\ \A c \in Coordinates : c # AreaOrder[step] => real'[flag][c] = real[flag][c]
      BY <2>2
    <3>4. ASSUME NEW i \in 1 .. 4, i < step'
          PROVE  real'[flag][AreaOrder[i]] = Target(flag)[AreaOrder[i]]
      <4>1. CASE AreaOrder[i] = AreaOrder[step]  BY <3>3, <4>1
      <4>2. CASE AreaOrder[i] # AreaOrder[step]
        <5>1. i # step /\ i < step
          BY <2>1, <3>4, <4>2
        <5>2. QED  BY <3>1, <3>2, <3>3, <4>2, <5>1
      <4>3. QED  BY <4>1, <4>2
    <3>5. QED  BY <3>4
  <2>5. QED  BY <1>a, <1>b, <2>1, <2>3, <2>4 DEF HandInv, Clearing
<1>6. CASE StoreWarp
  <2>1. /\ call = "area" /\ step = 5 /\ step' = 6 /\ flag \notin readerGot
        /\ UNCHANGED <<call, readerGot, real, calcArea>>
        /\ readerGot \subseteq labelGot /\ flag \in labelGot /\ (calcArea <=> readerGot # {})
        /\ \A k \in readerGot : Valid(k)
    BY <1>6 DEF StoreWarp, Continue, At, HandInv, Clearing
  <2>2. \A k \in readerGot' : Valid(k)'
    <3>1. CASE flag = 1
      BY <1>b, <2>1, <3>1 DEF Valid
    <3>2. CASE flag # 1
      BY <1>6, <1>b, <2>1, <3>2 DEF StoreWarp
    <3>3. QED  BY <3>1, <3>2
  <2>3. \A i \in 1 .. 4 : real'[flag][AreaOrder[i]] = Target(flag)[AreaOrder[i]]
    BY <2>1 DEF HandInv
  <2>4. flag = 1 => (isWarp' <=> Low(1) >= W)
    BY <1>6 DEF StoreWarp
  <2>5. QED  BY <1>a, <1>b, <2>1, <2>2, <2>3, <2>4, Ranges DEF HandInv, Clearing
<1>7. CASE StoreGot
  <2>1. /\ call = "area" /\ step = 6 /\ step' = 7 /\ flag \notin readerGot
        /\ UNCHANGED <<call, isWarp, real, calcArea>> /\ readerGot' = readerGot \cup {flag}
        /\ readerGot \subseteq labelGot /\ flag \in labelGot
        /\ \A k \in readerGot : Valid(k)
        /\ \A i \in 1 .. 4 : real[flag][AreaOrder[i]] = Target(flag)[AreaOrder[i]]
        /\ flag = 1 => (isWarp <=> Low(1) >= W)
    BY <1>7 DEF StoreGot, Continue, At, HandInv, Clearing
  <2>2. Valid(flag)
    <3>1. \A c \in Coordinates : real[flag][c] = Target(flag)[c]
      <4>1. /\ real[flag]["x1"] = Target(flag)["x1"] /\ real[flag]["y1"] = Target(flag)["y1"]
            /\ real[flag]["x2"] = Target(flag)["x2"] /\ real[flag]["y2"] = Target(flag)["y2"]
        BY <2>1, CoordinateNames
      <4>2. QED  BY <4>1 DEF Coordinates
    <3>2. real[flag] \in [Coordinates -> Int] /\ Target(flag) \in [Coordinates -> Int]
      BY TargetType
    <3>3. real[flag] = Target(flag)
      BY <3>1, <3>2
    <3>4. QED  BY <2>1, <3>3 DEF Valid
  <2>3. \A k \in readerGot' : Valid(k)'
    BY <1>b, <2>1, <2>2
  <2>4. QED  BY <1>a, <1>b, <2>1, <2>3, Ranges DEF HandInv, Clearing
<1>8. CASE StartAveraging
  <2>1. call' = "none" /\ calcArea' /\ flag \in readerGot /\ readerGot \subseteq labelGot
        /\ UNCHANGED <<real, isWarp, readerGot>> /\ \A k \in readerGot : Valid(k)
    BY <1>8 DEF StartAveraging, Return, At, HandInv, Clearing
  <2>2. QED  BY <1>a, <1>b, <2>1 DEF HandInv, Clearing
<1>9. QED
  BY <1>1, <1>2, <1>3, <1>4, <1>5, <1>6, <1>7, <1>8 DEF AcceptArea

LEMMA HandStep == TypeInv /\ HandInv /\ [Next]_vars => HandInv'
<1>1. ASSUME HandInv, UNCHANGED <<label, accept, fields>>
      PROVE  HandInv'
  <2>1. UNCHANGED <<startPoint, endPoint, labelGot, call, flag, step, real, readerGot, isWarp,
                    calcArea>>
    BY <1>1 DEF label, marks, accept, fields
  <2>2. /\ \A k \in Areas : Target(k)' = Target(k) /\ Low(k)' = Low(k)
        /\ \A k \in Areas : Valid(k)' <=> Valid(k)
    BY <2>1 DEF Valid, Target, Low, High
  <2>3. Clearing' <=> Clearing
    BY <2>1 DEF Clearing
  <2>4. \A k : /\ Target(k)' = Target(k) /\ Low(k)' = Low(k) /\ (Valid(k)' <=> Valid(k))
    BY <2>1 DEF Valid, Target, Low, High
  <2>5. QED  BY <1>1, <2>1, <2>3, <2>4 DEF HandInv
<1>2. CASE Worker \/ UNCHANGED vars
  <2>1. UNCHANGED <<label, accept, fields>>
    BY <1>2 DEF Worker, StartPass, TestGot, FirstColumn, TestColumn, FirstRow, TestRow, Pixel,
       Done, Step, vars
  <2>2. QED  BY <1>1, <2>1
<1>3. QED
  BY <1>2, HandMouseStep, HandAcceptStep DEF Next

LEMMA HandCorrect == Spec => []HandInv
BY HandInit, HandStep, Typing, PTL DEF Spec

(* Between two events every rectangle averaged is one handed over and not  *)
(* changed since, for any pictures and any order of presses and releases.  *)
THEOREM AgreesWithLabelCorrect == Spec => []AgreesWithLabel
<1>1. HandInv => AgreesWithLabel
  BY DEF HandInv, AgreesWithLabel, Clearing, Valid
<1>2. QED  BY <1>1, HandCorrect, PTL

-------------------------------------------------------------------------------
(* What a pass reads *)

LEMMA SweepInit == Init => SweepInv
BY DEF Init, SweepInv

LEMMA SweepMouseStep ==
  ASSUME SweepInv, Mouse
  PROVE  SweepInv'
<1>1. call = "none" /\ UNCHANGED <<real, readerGot>>
      /\ UNCHANGED <<sweep, area, x, y, disturbed>>
  BY DEF Mouse, SetImage, PressRight, PressLeft, DoubleClick, Drag, DragTo, Release, Event,
         fields, worker
<1>2. ~Clearing'
  BY <1>1 DEF Mouse, SetImage, PressRight, PressLeft, DoubleClick, Drag, DragTo, Release, Event,
         Enter, SendArea, accept, Clearing
<1>3. QED  BY <1>1, <1>2 DEF SweepInv

(* What the GUI thread writes under a pass it does not disturb.            *)
LEMMA SweepAcceptStep ==
  ASSUME TypeInv, HandInv, SweepInv, AcceptArea
  PROVE  SweepInv'
<1> USE DEF TypeInv, TypeOK
<1>a. UNCHANGED <<sweep, area, x, y>>
  BY DEF AcceptArea, StopAveraging, ClearCoordinate, ClearFirst, ClearSecond, StoreCoordinate,
         StoreWarp, StoreGot, StartAveraging, Continue, Return
<1>b. SUFFICES ASSUME sweep # "none", ~disturbed'
               PROVE  SweepInv'
  BY <1>a DEF SweepInv
<1>r. ASSUME UNCHANGED disturbed, ~Clearing', readerGot \subseteq readerGot',
             area \in readerGot => UNCHANGED real[area]
      PROVE  SweepInv'
  BY <1>a, <1>b, <1>r DEF SweepInv
<1>1. CASE StopAveraging
  BY <1>1, <1>b DEF StopAveraging
<1>2. CASE ClearCoordinate
  BY <1>2, <1>b DEF ClearCoordinate, At, SweepInv, Clearing
<1>3. CASE ClearFirst
  BY <1>3, <1>b DEF ClearFirst, At, SweepInv, Clearing
<1>4. CASE ClearSecond
  BY <1>4, <1>b DEF ClearSecond, At, SweepInv, Clearing
<1>5. CASE StoreCoordinate
  <2>1. flag \notin readerGot /\ UNCHANGED <<call, readerGot, disturbed>> /\ call = "area"
    BY <1>5 DEF StoreCoordinate, Continue, HandInv
  <2>2. \A k \in Areas \ {flag} : UNCHANGED real[k]
    BY <1>5 DEF StoreCoordinate
  <2>3. area \in readerGot => UNCHANGED real[area]
    BY <1>a, <2>1, <2>2
  <2>4. ~Clearing'
    BY <2>1 DEF Clearing
  <2>5. QED  BY <1>r, <2>1, <2>3, <2>4
<1>6. CASE StoreWarp
  BY <1>6, <1>r DEF StoreWarp, At, Continue, Clearing
<1>7. CASE StoreGot
  BY <1>7, <1>r DEF StoreGot, At, Continue, Clearing
<1>8. CASE StartAveraging
  BY <1>8, <1>r DEF StartAveraging, At, Return, Clearing
<1>9. QED
  BY <1>1, <1>2, <1>3, <1>4, <1>5, <1>6, <1>7, <1>8 DEF AcceptArea

(* The loops keep between the bounds they have tested.                     *)
LEMMA SweepWorkerStep ==
  ASSUME TypeInv, HandInv, SweepInv, Worker
  PROVE  SweepInv'
<1> USE DEF TypeInv, TypeOK
<1>a. UNCHANGED <<real, readerGot, call, step, calcArea>>
  BY DEF Worker, StartPass, TestGot, FirstColumn, TestColumn, FirstRow, TestRow, Pixel, Done,
         Step, accept, fields
<1>b. Clearing' <=> Clearing
  BY <1>a DEF Clearing
<1>c. /\ area \in Areas /\ real[area]["x1"] \in Int /\ real[area]["x2"] \in Int
      /\ real[area]["y1"] \in Int /\ real[area]["y2"] \in Int
      /\ x \in Int /\ y \in Int
  <2>1. area \in Areas /\ x \in Int /\ y \in Int /\ real[area] \in [Coordinates -> Int]
    BY WAssumption, HAssumption
  <2>2. QED  BY <2>1 DEF Coordinates
<1>d. ASSUME NEW from \in {"test", "column"}, Done(from)
      PROVE  SweepInv'
  BY <1>d, <1>b DEF Done, Step, SweepInv
<1>1. CASE StartPass
  <2>1. ~Clearing
    BY <1>1 DEF StartPass, HandInv
  <2>2. QED  BY <1>1, <1>b, <2>1 DEF StartPass, Step, SweepInv
<1>2. CASE TestGot
  <2>1. CASE Done("test")  BY <1>d, <2>1
  <2>2. CASE area \in readerGot /\ Step("test", "begin") /\ UNCHANGED <<area, x, y, disturbed>>
    BY <1>a, <1>b, <2>2 DEF Step, SweepInv
  <2>3. QED  BY <1>2, <2>1, <2>2 DEF TestGot
<1>3. CASE FirstColumn
  BY <1>3, <1>a, <1>b, <1>c DEF FirstColumn, Step, SweepInv
<1>4. CASE TestColumn
  <2>1. CASE Done("column")  BY <1>d, <2>1
  <2>2. CASE x <= real[area]["x2"] /\ Step("column", "rows") /\ UNCHANGED <<area, x, y, disturbed>>
    BY <1>a, <1>b, <2>2 DEF Step, SweepInv
  <2>3. QED  BY <1>4, <2>1, <2>2 DEF TestColumn
<1>5. CASE FirstRow
  BY <1>5, <1>a, <1>b, <1>c DEF FirstRow, Step, SweepInv
<1>6. CASE TestRow
  BY <1>6, <1>a, <1>b, <1>c DEF TestRow, Step, SweepInv
<1>7. CASE Pixel
  BY <1>7, <1>a, <1>b, <1>c DEF Pixel, Step, SweepInv
<1>8. QED
  BY <1>1, <1>2, <1>3, <1>4, <1>5, <1>6, <1>7 DEF Worker

LEMMA SweepStep == TypeInv /\ HandInv /\ SweepInv /\ [Next]_vars => SweepInv'
<1>1. ASSUME SweepInv, UNCHANGED vars
      PROVE  SweepInv'
  BY <1>1 DEF vars, accept, fields, worker, SweepInv, Clearing
<1>2. QED
  BY <1>1, SweepMouseStep, SweepAcceptStep, SweepWorkerStep DEF Next

LEMMA SweepCorrect == Spec => []SweepInv
BY SweepInit, SweepStep, HandCorrect, Typing, PTL DEF Spec

(* The columns of a rectangle drawn on one picture.                        *)
LEMMA TargetOnPicture ==
  ASSUME TypeOK, NEW k \in Areas, NEW n \in 0 .. 2, DrawnOn(k, n)
  PROVE  /\ Target(k)["x1"] = Low(k) - n * W /\ Target(k)["x2"] = High(k) - n * W
         /\ Target(k)["y1"] = startPoint[k].y /\ Target(k)["y2"] = endPoint[k].y
         /\ Low(k) >= 0 /\ (Low(k) >= W <=> n # 0)
<1> USE WAssumption
<1>1. /\ Low(k) \in Int /\ High(k) \in Int /\ Low(k) <= High(k)
      /\ Low(k) >= n * W /\ High(k) <= (n + 1) * W
      /\ Low(k) # High(k) \/ Low(k) \notin {W, 2 * W, 3 * W}
      /\ startPoint[k].y \in 0 .. H - 1 /\ endPoint[k].y \in 0 .. H - 1
  BY TargetType DEF DrawnOn
<1>2. n = 0 \/ n = 1 \/ n = 2
  OBVIOUS
<1>3. Low(k) \in n * W .. (n + 1) * W - 1
  BY <1>1, <1>2
<1>4. High(k) = (n + 1) * W \/ High(k) \in n * W .. (n + 1) * W - 1
  BY <1>1, <1>2
<1>5. Rem(Low(k), W) = Low(k) - n * W
  BY <1>3, RemOnPicture
<1>6. High(k) # (n + 1) * W => Rem(High(k), W) = High(k) - n * W
  BY <1>4, RemOnPicture
<1>7. /\ Target(k)["x1"] = IF Low(k) \in {0, W, 2 * W} THEN 0 ELSE Rem(Low(k), W)
      /\ Target(k)["y1"] = Rem(startPoint[k].y, H)
      /\ Target(k)["x2"] = IF High(k) \in {W, 2 * W, 3 * W} THEN W ELSE Rem(High(k), W)
      /\ Target(k)["y2"] = Rem(endPoint[k].y, H)
  BY DEF Target, Coordinates
<1>8. Target(k)["x1"] = Low(k) - n * W
  <2>1. Low(k) \in {0, W, 2 * W} => Low(k) = n * W
    BY <1>1, <1>2, <1>3
  <2>2. QED  BY <1>1, <1>2, <1>5, <1>7, <2>1
<1>9. Target(k)["x2"] = High(k) - n * W
  <2>1. High(k) \in {W, 2 * W, 3 * W} <=> High(k) = (n + 1) * W
    <3>1. CASE n = 0  BY <1>1, <3>1
    <3>2. CASE n = 1  BY <1>1, <3>2
    <3>3. CASE n = 2  BY <1>1, <3>3
    <3>4. QED  BY <1>2, <3>1, <3>2, <3>3
  <2>2. QED  BY <1>1, <1>2, <1>6, <1>7, <2>1
<1>10. Low(k) >= 0 /\ (Low(k) >= W <=> n # 0)
  BY <1>1, <1>2, <1>3
<1>11. QED  BY <1>1, <1>7, <1>8, <1>9, <1>10, RemRow

(* However a rectangle is handed over or dropped in the middle of a pass,  *)
(* an undisturbed pass reads inside what is drawn, on pictures of any size.*)
THEOREM SweepsWhatIsDrawnCorrect == Spec => []SweepsWhatIsDrawn
<1>1. ASSUME TypeInv, HandInv, SweepInv
      PROVE  SweepsWhatIsDrawn
  <2>1. SUFFICES ASSUME sweep = "pixel", ~disturbed, NEW n \in 0 .. 2, DrawnOn(area, n)
                 PROVE  /\ n * W + x \in Low(area) .. High(area)
                        /\ y \in startPoint[area].y .. endPoint[area].y
                        /\ area = 1 => (isWarp <=> n # 0)
    BY DEF SweepsWhatIsDrawn
  <2>2. area \in Areas /\ TypeOK
    BY <1>1 DEF TypeInv, TypeOK
  <2>3. /\ area \in readerGot /\ ~Clearing
        /\ x >= real[area]["x1"] /\ x <= real[area]["x2"]
        /\ y >= real[area]["y1"] /\ y <= real[area]["y2"]
    BY <1>1, <2>1 DEF SweepInv
  <2>4. Valid(area) \/ Low(area) = -1
    BY <1>1, <2>3 DEF HandInv
  <2>5. /\ Target(area)["x1"] = Low(area) - n * W /\ Target(area)["x2"] = High(area) - n * W
        /\ Target(area)["y1"] = startPoint[area].y /\ Target(area)["y2"] = endPoint[area].y
        /\ Low(area) >= 0 /\ (Low(area) >= W <=> n # 0)
    BY <2>1, <2>2, TargetOnPicture
  <2>6. Low(area) \in Int /\ High(area) \in Int
    BY <2>2, TargetType
  <2>7. Valid(area)
    BY <2>4, <2>5, <2>6
  <2>8. /\ x >= Low(area) - n * W /\ x <= High(area) - n * W
        /\ y >= startPoint[area].y /\ y <= endPoint[area].y
    BY <2>3, <2>5, <2>7 DEF Valid
  <2>9. /\ x \in Int /\ y \in Int /\ startPoint[area].y \in Int /\ endPoint[area].y \in Int
    BY <2>2, WAssumption, HAssumption DEF TypeOK
  <2>10. n * W \in Int /\ n * W + x >= Low(area) /\ n * W + x <= High(area)
    BY <2>6, <2>8, <2>9, WAssumption
  <2>11. area = 1 => (isWarp <=> n # 0)
    BY <2>5, <2>7 DEF Valid
  <2>12. QED  BY <2>6, <2>8, <2>9, <2>10, <2>11, WAssumption
<1>2. QED  BY <1>1, HandCorrect, SweepCorrect, Typing, PTL

(* Row by row, the pixels of a picture and the one beyond its end.         *)
LEMMA RowMajor ==
  ASSUME NEW i \in 0 .. W, NEW j \in 0 .. H - 1
  PROVE  /\ i + j * W \in 0 .. W * H
         /\ i + j * W = W * H => i = W /\ j = H - 1
<1> USE WAssumption, HAssumption
<1>1. /\ W \in Nat /\ W >= 1 /\ H \in Nat /\ H >= 1
      /\ i \in Int /\ i >= 0 /\ i <= W /\ j \in Int /\ j >= 0 /\ j <= H - 1
  OBVIOUS
<1>2. j * W \in Int /\ W * H \in Int /\ j * W >= 0
  BY ONLY <1>1
<1>3. PICK rest \in Nat : H = j + 1 + rest
  <2>1. H - 1 - j \in Nat /\ H = j + 1 + (H - 1 - j)
    BY ONLY <1>1
  <2>2. QED  BY <2>1
<1>4. rest * W \in Int /\ rest * W >= 0 /\ (rest # 0 => rest * W >= W)
  BY ONLY <1>1, <1>3
<1>5. W * H = j * W + W + rest * W
  BY ONLY <1>1, <1>3
<1>6. QED
  BY ONLY <1>1, <1>2, <1>3, <1>4, <1>5

(* An undisturbed pass over a rectangle drawn on one picture stays in the  *)
(* array of that picture, whatever its size, but for the pixel beyond the  *)
(* lower right corner (imagereader.cpp:322-333, 345-356).                  *)
THEOREM ReadsElementsCorrect == Spec => []ReadsElements
<1>1. ASSUME TypeInv, SweepsWhatIsDrawn
      PROVE  ReadsElements
  <2>1. SUFFICES ASSUME sweep = "pixel", ~disturbed, NEW n \in 0 .. 2, DrawnOn(area, n)
                 PROVE  /\ x + y * W \in 0 .. W * H
                        /\ x + y * W = W * H => /\ High(area) = (n + 1) * W
                                               /\ endPoint[area].y = H - 1
    BY DEF ReadsElements
  <2>2. /\ n * W + x \in Low(area) .. High(area)
        /\ y \in startPoint[area].y .. endPoint[area].y
    BY <1>1, <2>1 DEF SweepsWhatIsDrawn
  <2>3. area \in Areas /\ TypeOK /\ x \in Int /\ y \in Int
    BY <1>1, WAssumption, HAssumption DEF TypeInv, TypeOK
  <2>4. /\ Low(area) \in Int /\ High(area) \in Int
        /\ Low(area) >= n * W /\ High(area) <= (n + 1) * W
        /\ startPoint[area].y \in 0 .. H - 1 /\ endPoint[area].y \in 0 .. H - 1
    BY <2>1, <2>3, TargetType, WAssumption DEF DrawnOn
  <2>5. x \in 0 .. W /\ y \in 0 .. H - 1
        /\ (x = W => High(area) = (n + 1) * W) /\ (y = H - 1 => endPoint[area].y = H - 1)
    <3>1. CASE n = 0  BY <2>2, <2>3, <2>4, <3>1, WAssumption, HAssumption
    <3>2. CASE n = 1  BY <2>2, <2>3, <2>4, <3>2, WAssumption, HAssumption
    <3>3. CASE n = 2  BY <2>2, <2>3, <2>4, <3>3, WAssumption, HAssumption
    <3>4. QED  BY <3>1, <3>2, <3>3
  <2>6. QED  BY <2>5, RowMajor
<1>2. QED  BY <1>1, SweepsWhatIsDrawnCorrect, Typing, PTL
===============================================================================
