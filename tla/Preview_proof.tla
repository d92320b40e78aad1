----------------------------- MODULE Preview_proof -----------------------------
(***************************************************************************)
(* Proofs about Preview, for any set of cameras, modules, fitting and      *)
(* refusing cameras, and any number of cameras plugged in and out.         *)
(***************************************************************************)
EXTENDS Preview, FiniteSetTheorems, SequenceTheorems, WellFoundedInduction, TLAPS
-------------------------------------------------------------------------------
(* Induction over the natural numbers, for a set of them.                  *)
Before == {pair \in Nat \X Nat : pair[1] < pair[2]}

LEMMA BeforeWellFounded == IsWellFoundedOn(Before, Nat)
  BY NatLessThanWellFounded DEF OpToRel, Before

(* Induction over the numbers, for a set: the least number outside it has  *)
(* no place.                                                               *)
LEMMA Induction ==
  ASSUME NEW S, 0 \in S, \A n \in Nat : n \in S => n + 1 \in S
  PROVE  \A n \in Nat : n \in S
<1> SUFFICES ASSUME Nat \ S # {} PROVE FALSE
  OBVIOUS
<1>1. PICK n \in Nat \ S : \A m \in Nat \ S : <<m, n>> \notin Before
  BY BeforeWellFounded, WFMin
<1>2. n - 1 \in Nat /\ n = (n - 1) + 1
  BY <1>1
<1>3. <<n - 1, n>> \in Before
  BY <1>2 DEF Before
<1>4. n - 1 \in S
  BY <1>1, <1>2, <1>3
<1> QED
  BY <1>1, <1>2, <1>4

-------------------------------------------------------------------------------
(* flashCam's loop.  items is what it has added after each of the first n  *)
(* cameras of e.                                                           *)
Items(items, e, n) ==
  items = [i \in 0 .. n |->
             IF i = 0 THEN <<>>
             ELSE IF e[i] \in Modules THEN Append(items[i - 1], i - 1) ELSE items[i - 1]]

(* The loop has a result after any number of cameras.                      *)
LEMMA ItemsExist ==
  ASSUME NEW e
  PROVE  \A n \in Nat : \E items : Items(items, e, n)
<1> DEFINE S == {n \in Nat : \E items : Items(items, e, n)}
<1>1. 0 \in S
  <2>1. Items([i \in 0 .. 0 |-> <<>>], e, 0)
    BY DEF Items
  <2> QED
    BY <2>1
<1>2. ASSUME NEW n \in Nat, n \in S PROVE n + 1 \in S
  <2>1. PICK items : Items(items, e, n)
    BY <1>2
  <2> DEFINE more == [i \in 0 .. n + 1 |->
                        IF i = 0 THEN <<>>
                        ELSE IF e[i] \in Modules THEN Append(items[i - 1], i - 1)
                        ELSE items[i - 1]]
  <2>2. \A i \in 0 .. n : more[i] = items[i]
    <3>1. \A i \in 0 .. n :
            items[i] = IF i = 0 THEN <<>>
                       ELSE IF e[i] \in Modules THEN Append(items[i - 1], i - 1)
                       ELSE items[i - 1]
      BY <2>1, Zenon DEF Items
    <3>2. \A i \in 0 .. n : i \in 0 .. n + 1
      OBVIOUS
    <3> QED
      BY <3>1, <3>2, Zenon
  <2>3. \A i \in 0 .. n + 1 : i # 0 => more[i - 1] = items[i - 1]
    <3>1. \A i \in 0 .. n + 1 : i # 0 => i - 1 \in 0 .. n
      OBVIOUS
    <3> HIDE DEF more
    <3> QED
      BY <2>2, <3>1
  <2>4. \A i \in 0 .. n + 1 :
          more[i] = IF i = 0 THEN <<>>
                    ELSE IF e[i] \in Modules THEN Append(more[i - 1], i - 1)
                    ELSE more[i - 1]
    <3>1. \A i \in 0 .. n + 1 :
            more[i] = IF i = 0 THEN <<>>
                      ELSE IF e[i] \in Modules THEN Append(items[i - 1], i - 1)
                      ELSE items[i - 1]
      BY Zenon
    <3> HIDE DEF more
    <3> QED
      BY <2>3, <3>1, Zenon
  <2>5. more = [i \in 0 .. n + 1 |-> more[i]]
    OBVIOUS
  <2> HIDE DEF more
  <2>6. Items(more, e, n + 1)
    BY <2>4, <2>5 DEF Items
  <2> QED
    BY <2>6
<1> HIDE DEF S
<1>3. \A n \in Nat : n \in S
  BY <1>1, <1>2, Induction
<1> QED
  BY <1>3 DEF S

(* What it returns is what it has added after the last one.                *)
LEMMA ListedItems ==
  ASSUME NEW C, NEW e \in Seq(C)
  PROVE  \E items : Items(items, e, Len(e)) /\ Listed(e) = items[Len(e)]
<1> DEFINE items == CHOOSE f : Items(f, e, Len(e))
<1>1. Items(items, e, Len(e))
  BY ItemsExist
<1>2. Listed(e) = items[Len(e)]
  BY DEF Listed, Items
<1> QED
  BY <1>1, <1>2

(* Every number in the list is the place of a module.                      *)
ModulePlaces(e) == {n \in 0 .. Len(e) - 1 : e[n + 1] \in Modules}

(* The modules listed are entries of the enumeration.                      *)
LEMMA ListedType ==
  ASSUME NEW C, NEW e \in Seq(C)
  PROVE  Listed(e) \in Seq(ModulePlaces(e))
<1>1. PICK items : Items(items, e, Len(e)) /\ Listed(e) = items[Len(e)]
  BY ListedItems
<1> DEFINE S == {n \in Nat : n <= Len(e) => items[n] \in Seq(ModulePlaces(e))}
<1>2. Len(e) \in Nat
  OBVIOUS
<1>3. 0 \in S
  <2>1. items[0] = <<>>
    BY <1>1, <1>2 DEF Items
  <2>2. items[0] \in Seq(ModulePlaces(e))
    BY <2>1
  <2> QED
    BY <2>2
<1>4. ASSUME NEW n \in Nat, n \in S PROVE n + 1 \in S
  <2> SUFFICES ASSUME n + 1 <= Len(e) PROVE items[n + 1] \in Seq(ModulePlaces(e))
    OBVIOUS
  <2>1. items[n] \in Seq(ModulePlaces(e)) /\ n + 1 \in 0 .. Len(e) /\ n \in 0 .. Len(e) - 1
    BY <1>2, <1>4
  <2>2. items[n + 1] = IF e[n + 1] \in Modules THEN Append(items[n], n) ELSE items[n]
    <3>1. \A i \in 0 .. Len(e) :
            items[i] = IF i = 0 THEN <<>>
                       ELSE IF e[i] \in Modules THEN Append(items[i - 1], i - 1)
                       ELSE items[i - 1]
      BY <1>1, Zenon DEF Items
    <3>2. n + 1 - 1 = n /\ n + 1 # 0
      OBVIOUS
    <3> QED
      BY <2>1, <3>1, <3>2
  <2>3. CASE e[n + 1] \in Modules
    <3>1. n \in ModulePlaces(e)
      BY <2>1, <2>3 DEF ModulePlaces
    <3> QED
      BY <2>1, <2>2, <2>3, <3>1
  <2>4. CASE e[n + 1] \notin Modules
    BY <2>1, <2>2, <2>4
  <2> QED
    BY <2>3, <2>4
<1> HIDE DEF S
<1>5. \A n \in Nat : n \in S
  BY <1>3, <1>4, Induction
<1> QED
  BY <1>1, <1>2, <1>5 DEF S

-------------------------------------------------------------------------------
(* The window starts with no camera opened and no button pressed.          *)
LEMMA InitPreview == Init => PreviewInv
  BY DEF Init, PreviewInv, OpenSinceFirstPress, ReadySinceSecondPress,
         LabelRightFromSecondPress, IndexFromList, IndexOf

(* Every slot, and every camera plugged in or out, keeps the invariant.    *)
LEMMA NextPreview == PreviewInv /\ [Next]_vars => PreviewInv'
<1> SUFFICES ASSUME PreviewInv, [Next]_vars PROVE PreviewInv'
  OBVIOUS
<1> USE DEF PreviewInv, OpenSinceFirstPress, ReadySinceSecondPress,
            LabelRightFromSecondPress, IndexFromList
<1>1. ASSUME NEW c \in Cameras, Plug(c) PROVE PreviewInv'
  BY <1>1 DEF Plug, window, camera, status
<1>2. CASE Unplug
  BY <1>2 DEF Unplug, window, camera, status
<1>3. CASE FlashCam
  <2>1. CASE comboBoxModule' = <<>>
    BY <1>3, <2>1 DEF FlashCam, camera, status
  <2>2. CASE comboBoxModule' # <<>>
    BY <1>3, <2>2 DEF FlashCam, IndexOf, camera, status
  <2> QED
    BY <2>1, <2>2
<1>4. CASE Choose
  <2>1. PICK entry \in 1 .. Len(comboBoxModule) :
          /\ current' = entry /\ camIndex' = IndexOf(comboBoxModule, entry)
          /\ UNCHANGED <<comboBoxModule, warned, camera, isRunning, status, presses>>
    BY <1>4 DEF Choose
  <2>2. comboBoxModule # <<>>
    BY <2>1
  <2> QED
    BY <2>1, <2>2 DEF IndexOf, camera, status
<1>5. CASE NoSuchCamera
  BY <1>5 DEF NoSuchCamera, OpenFailed, CameraLost, window
<1>6. CASE CameraFails
  BY <1>6 DEF CameraFails, OpenFailed, CameraLost, window
<1>7. CASE OpenCamera
  <2>1. presses = 0 /\ ~isRunning /\ ~cameraReady
    BY <1>7 DEF OpenCamera
  <2>2. presses' = 1 /\ isRunning' /\ m_bConnected'
    <3>1. presses' = 1
      BY <1>7, <2>1, SMT DEF OpenCamera, ToggledWith, StatusText
    <3>2. isRunning'
      BY <1>7, <2>1, Zenon DEF OpenCamera, ToggledWith, StatusText
    <3>3. m_bConnected'
      BY <1>7, Zenon DEF OpenCamera
    <3> QED
      BY <3>1, <3>2, <3>3
  <2>3. ~cameraReady' /\ labelModeText' = labelModeText
    BY <1>7, <2>1, Zenon DEF OpenCamera, ToggledWith, StatusText
  <2>4. m_pDeviceFilter' \notin Refusing
    BY <1>7, Zenon DEF OpenCamera
  <2>5. UNCHANGED window
    BY <1>7, Zenon DEF OpenCamera, ToggledWith, StatusText
  <2> QED
    BY <2>1, <2>2, <2>3, <2>4, <2>5 DEF window
<1>8. CASE Toggle
  BY <1>8 DEF Toggle, ToggledWith, StatusText, window, camera
<1>9. CASE UNCHANGED vars
  BY <1>9 DEF vars, window, camera, status
<1> QED
  BY <1>1, <1>2, <1>3, <1>4, <1>5, <1>6, <1>7, <1>8, <1>9 DEF Next, RunCamera

(* A camera plugged in or out leaves each of the others in the list once.  *)
LEMMA PlugType ==
  ASSUME NEW e \in Seq(Cameras), IsInjective(e), NEW c \in Cameras, c \notin Range(e),
         NEW place \in 1 .. Len(e) + 1
  PROVE  InsertAt(e, place, c) \in Seq(Cameras) /\ IsInjective(InsertAt(e, place, c))
<1> DEFINE more == InsertAt(e, place, c)
           From(i) == IF i < place THEN i ELSE i - 1
           left == SubSeq(e, 1, place - 1)
           right == SubSeq(e, place, Len(e))
<1>0. /\ left \in Seq(Cameras) /\ Len(left) = place - 1
      /\ \A i \in 1 .. place - 1 : left[i] = e[i]
      /\ right \in Seq(Cameras) /\ Len(right) = Len(e) + 1 - place
      /\ \A i \in 1 .. Len(e) + 1 - place : right[i] = e[i + place - 1]
  OBVIOUS
<1>1. more \in Seq(Cameras) /\ Len(more) = Len(e) + 1
  <2>1. more = left \o <<c>> \o right
    BY DEF InsertAt
  <2>2. left \in Seq(Cameras) /\ Len(left) = place - 1
    BY <1>0
  <2>3. right \in Seq(Cameras) /\ Len(right) = Len(e) + 1 - place
    BY <1>0
  <2> HIDE DEF left, right, more
  <2>4. left \o <<c>> \in Seq(Cameras) /\ Len(left \o <<c>>) = place
    BY <2>2
  <2> DEFINE front == left \o <<c>>
  <2>5. front \in Seq(Cameras) /\ Len(front) = place /\ more = front \o right
    BY <2>1, <2>4
  <2> HIDE DEF front
  <2>6. front \o right \in Seq(Cameras) /\ Len(front \o right) = Len(front) + Len(right)
    BY <2>3, <2>5, ConcatProperties
  <2>7. more \in Seq(Cameras) /\ Len(more) = place + (Len(e) + 1 - place)
    BY ONLY <2>3, <2>5, <2>6
  <2>8. place \in Int /\ Len(e) \in Int
    OBVIOUS
  <2>9. place + (Len(e) + 1 - place) = Len(e) + 1
    BY <2>8
  <2> QED
    BY <2>7, <2>9
<1>2. \A i \in 1 .. Len(more) :
        more[i] = IF i = place THEN c ELSE e[From(i)]
  <2> SUFFICES ASSUME NEW i \in 1 .. Len(e) + 1
               PROVE  more[i] = IF i = place THEN c ELSE e[From(i)]
    BY <1>1
  <2> HIDE DEF left, right
  <2>1. more = left \o <<c>> \o right
    BY DEF InsertAt, left, right
  <2>2. left \o <<c>> \in Seq(Cameras) /\ Len(left \o <<c>>) = place
    BY <1>0
  <2>3. CASE i < place
    BY <1>0, <2>1, <2>2, <2>3
  <2>4. CASE i = place
    BY <1>0, <2>1, <2>2, <2>4
  <2>5. CASE i > place
    <3>1. more[i] = right[i - place]
      BY <1>0, <2>1, <2>2, <2>5
    <3>2. i - place \in 1 .. Len(e) + 1 - place
      BY <2>5
    <3> QED
      BY <1>0, <2>5, <3>1, <3>2
  <2> QED
    BY <2>3, <2>4, <2>5
<1>3. \A i \in 1 .. Len(more) : i # place => From(i) \in 1 .. Len(e)
  BY <1>1
<1>4. \A i \in 1 .. Len(e) : e[i] # c
  BY DEF Range
<1>5. \A i, j \in 1 .. Len(e) : e[i] = e[j] => i = j
  BY DEF IsInjective
<1>6. \A i, j \in 1 .. Len(more) : i # place /\ j # place /\ From(i) = From(j) => i = j
  BY <1>1
<1> HIDE DEF more, From
<1>7. \A i, j \in 1 .. Len(more) : more[i] = more[j] => i = j
  BY <1>2, <1>3, <1>4, <1>5, <1>6
<1>8. DOMAIN more = 1 .. Len(more)
  BY <1>1
<1>9. IsInjective(more)
  BY <1>7, <1>8 DEF IsInjective
<1> QED
  BY <1>1, <1>9 DEF more

(* The enumeration without one of its cameras.                             *)
LEMMA UnplugType ==
  ASSUME NEW e \in Seq(Cameras), IsInjective(e), NEW place \in 1 .. Len(e)
  PROVE  RemoveAt(e, place) \in Seq(Cameras) /\ IsInjective(RemoveAt(e, place))
<1> DEFINE less == RemoveAt(e, place)
           From(i) == IF i < place THEN i ELSE i + 1
           left == SubSeq(e, 1, place - 1)
           right == SubSeq(e, place + 1, Len(e))
<1>0. /\ left \in Seq(Cameras) /\ Len(left) = place - 1
      /\ \A i \in 1 .. place - 1 : left[i] = e[i]
      /\ right \in Seq(Cameras) /\ Len(right) = Len(e) - place
      /\ \A i \in 1 .. Len(e) - place : right[i] = e[i + place]
  OBVIOUS
<1> HIDE DEF left, right
<1>1. less \in Seq(Cameras) /\ Len(less) = Len(e) - 1
  <2>1. less = left \o right
    BY DEF RemoveAt, left, right
  <2>2. left \in Seq(Cameras) /\ right \in Seq(Cameras)
    BY <1>0
  <2>3. Len(left) = place - 1 /\ Len(right) = Len(e) - place
    BY <1>0
  <2> HIDE DEF less
  <2>4. left \o right \in Seq(Cameras) /\ Len(left \o right) = Len(left) + Len(right)
    BY <2>2
  <2> QED
    BY <2>1, <2>3, <2>4
<1>2. \A i \in 1 .. Len(less) : less[i] = e[From(i)]
  <2> SUFFICES ASSUME NEW i \in 1 .. Len(e) - 1 PROVE less[i] = e[From(i)]
    BY <1>1
  <2>1. less = left \o right
    BY DEF RemoveAt, left, right
  <2>2. CASE i < place
    BY <1>0, <2>1, <2>2
  <2>3. CASE i >= place
    <3>1. less[i] = right[i - (place - 1)]
      BY <1>0, <2>1, <2>3
    <3>2. i - (place - 1) \in 1 .. Len(e) - place
      BY <2>3
    <3> QED
      BY <1>0, <2>3, <3>1, <3>2
  <2> QED
    BY <2>2, <2>3
<1>3. \A i \in 1 .. Len(less) : From(i) \in 1 .. Len(e)
  BY <1>1
<1>4. \A i, j \in 1 .. Len(e) : e[i] = e[j] => i = j
  BY DEF IsInjective
<1>5. \A i, j \in 1 .. Len(less) : From(i) = From(j) => i = j
  BY <1>1
<1> HIDE DEF less, From
<1>6. \A i, j \in 1 .. Len(less) : less[i] = less[j] => i = j
  BY <1>2, <1>3, <1>4, <1>5
<1>7. DOMAIN less = 1 .. Len(less)
  BY <1>1
<1>8. IsInjective(less)
  BY <1>6, <1>7 DEF IsInjective
<1> QED
  BY <1>1, <1>8 DEF less

(* The entry an index is taken from is in the list.                        *)
LEMMA EntryType ==
  ASSUME NEW e \in Seq(Cameras), NEW entry \in 1 .. Len(Listed(e))
  PROVE  /\ IndexOf(Listed(e), entry) \in Range(Listed(e))
         /\ Listed(e)[entry] \in 0 .. Len(e) - 1
         /\ e[Listed(e)[entry] + 1] \in Modules
<1>1. Listed(e) \in Seq(ModulePlaces(e))
  BY ListedType
<1>2. Listed(e)[entry] \in ModulePlaces(e) /\ entry \in DOMAIN Listed(e) /\ entry # 0
  BY <1>1
<1> QED
  BY <1>2 DEF ModulePlaces, Range, IndexOf

LEMMA InitType == Init => TypeOK
<1> SUFFICES ASSUME Init PROVE TypeOK
  OBVIOUS
<1>1. plugged \in Seq(Cameras) /\ IsInjective(plugged)
  <2>1. Cardinality(Cameras) \in Nat
    BY CamerasAssumption, FS_CardinalityType
  <2>2. PICK n \in 0 .. Cardinality(Cameras) : plugged \in [1 .. n -> Cameras]
    BY DEF Init, Enumerations, SeqOf
  <2>3. n \in Nat
    BY <2>1
  <2> QED
    BY <2>2, <2>3 DEF Init, Enumerations
<1>2. found = plugged /\ comboBoxModule = Listed(plugged)
  BY DEF Init
<1>3. comboBoxModule \in Seq(ModulePlaces(plugged))
  BY <1>1, <1>2, ListedType
<1>4. current \in 0 .. Len(comboBoxModule) /\ camIndex \in {-1, 0} \cup Range(comboBoxModule)
  <2>1. CASE comboBoxModule = <<>>
    BY <2>1, <1>3 DEF Init, IndexOf
  <2>2. CASE comboBoxModule # <<>>
    <3>1. 1 \in 1 .. Len(comboBoxModule)
      BY <1>3, <2>2
    <3>2. IndexOf(comboBoxModule, 1) \in Range(comboBoxModule)
      BY <1>1, <1>2, <3>1, EntryType
    <3> QED
      BY <1>3, <2>2, <3>1, <3>2 DEF Init
  <2> QED
    BY <2>1, <2>2
<1>5. /\ m_bConnected \in BOOLEAN /\ isRunning \in BOOLEAN /\ cameraReady \in BOOLEAN
      /\ m_pDeviceFilter \in Cameras \cup {NoCamera}
      /\ labelModeText \in {"unstarted", "unconnected", "running", "stopped"}
      /\ warned \in {"nobody", "constructor", "button"}
  BY Zenon DEF Init
<1>6. presses \in 0 .. 2 /\ changes \in 0 .. MaxChanges
  BY MaxChangesAssumption DEF Init
<1> QED
  BY <1>1, <1>2, <1>4, <1>5, <1>6, Zenon DEF TypeOK

LEMMA NextType == TypeOK /\ [Next]_vars => TypeOK'
<1> SUFFICES ASSUME TypeOK, [Next]_vars PROVE TypeOK'
  OBVIOUS
<1>1. ASSUME NEW c \in Cameras, Plug(c) PROVE TypeOK'
  <2>1. plugged' \in Seq(Cameras) /\ IsInjective(plugged')
    BY <1>1, PlugType DEF TypeOK, Plug
  <2>2. changes' \in 0 .. MaxChanges
    BY <1>1, MaxChangesAssumption DEF TypeOK, Plug
  <2> QED
    BY <1>1, <2>1, <2>2, Zenon DEF TypeOK, Plug, window, camera, status
<1>2. CASE Unplug
  <2>1. plugged' \in Seq(Cameras) /\ IsInjective(plugged')
    BY <1>2, UnplugType DEF TypeOK, Unplug
  <2>2. changes' \in 0 .. MaxChanges
    BY <1>2, MaxChangesAssumption DEF TypeOK, Unplug
  <2> QED
    BY <1>2, <2>1, <2>2, Zenon DEF TypeOK, Unplug, window, camera, status
<1>3. CASE FlashCam
  <2>1. comboBoxModule' = Listed(plugged) /\ comboBoxModule' \in Seq(ModulePlaces(plugged))
    BY <1>3, ListedType DEF FlashCam, TypeOK
  <2>2. /\ current' \in 0 .. Len(comboBoxModule')
        /\ camIndex' \in {-1, 0} \cup Range(comboBoxModule')
    <3>1. CASE comboBoxModule' = <<>>
      BY <1>3, <2>1, <3>1 DEF FlashCam
    <3>2. CASE comboBoxModule' # <<>>
      <4>1. 1 \in 1 .. Len(comboBoxModule')
        BY <2>1, <3>2
      <4>2. IndexOf(comboBoxModule', 1) \in Range(comboBoxModule')
        BY <2>1, <4>1, EntryType DEF TypeOK
      <4>3. current' = 1 /\ camIndex' = IndexOf(comboBoxModule', 1)
        BY <1>3, <3>2 DEF FlashCam
      <4> QED
        BY <2>1, <4>1, <4>2, <4>3
    <3> QED
      BY <3>1, <3>2
  <2>3. warned' \in {"nobody", "constructor", "button"}
    BY <1>3, Zenon DEF FlashCam
  <2> QED
    BY <1>3, <2>1, <2>2, <2>3, Zenon DEF TypeOK, FlashCam, camera, status
<1>4. CASE Choose
  <2>1. PICK entry \in 1 .. Len(comboBoxModule) :
          current' = entry /\ camIndex' = IndexOf(comboBoxModule, entry)
    BY <1>4 DEF Choose
  <2>2. camIndex' \in Range(comboBoxModule)
    BY <2>1, EntryType DEF TypeOK
  <2>3. current' \in 0 .. Len(comboBoxModule)
    BY <2>1
  <2> QED
    BY <1>4, <2>2, <2>3, Zenon DEF TypeOK, Choose, camera, status
<1>5. Binds => plugged[camIndex + 1] \in Cameras
  <2>1. comboBoxModule \in Seq(ModulePlaces(found))
    BY ListedType DEF TypeOK
  <2>2. camIndex \in Int
    BY <2>1 DEF TypeOK, Range, ModulePlaces
  <2> QED
    BY <2>2 DEF Binds, TypeOK
<1>6. CASE NoSuchCamera
  BY <1>6, Zenon DEF TypeOK, NoSuchCamera, OpenFailed, CameraLost, window
<1>7. CASE CameraFails
  BY <1>5, <1>7, Zenon DEF TypeOK, CameraFails, OpenFailed, CameraLost, window
<1>8. ASSUME NEW ready \in BOOLEAN, ToggledWith(ready)
      PROVE  /\ isRunning' \in BOOLEAN /\ cameraReady' \in BOOLEAN
             /\ labelModeText' \in {"unstarted", "unconnected", "running", "stopped"}
             /\ presses' \in 0 .. 2
             /\ UNCHANGED <<plugged, window, changes>>
  <2>1. presses' \in 0 .. 2
    BY <1>8 DEF TypeOK, ToggledWith
  <2>2. labelModeText' \in {"unstarted", "unconnected", "running", "stopped"}
    BY <1>8, Zenon DEF TypeOK, ToggledWith, StatusText
  <2> QED
    BY <1>8, <2>1, <2>2, Zenon DEF ToggledWith
<1>9. CASE OpenCamera
  <2>1. ToggledWith(cameraReady) /\ cameraReady \in BOOLEAN
    BY <1>9, Zenon DEF OpenCamera, TypeOK
  <2>2. m_bConnected' \in BOOLEAN /\ m_pDeviceFilter' \in Cameras \cup {NoCamera}
    BY <1>5, <1>9, Zenon DEF OpenCamera
  <2> QED
    BY <1>8, <2>1, <2>2, Zenon DEF TypeOK, window
<1>10. CASE Toggle
  <2>1. ToggledWith(TRUE)
    BY <1>10, Zenon DEF Toggle
  <2>2. m_bConnected' \in BOOLEAN /\ m_pDeviceFilter' \in Cameras \cup {NoCamera}
    BY <1>10, Zenon DEF Toggle, TypeOK, camera
  <2> QED
    BY <1>8, <2>1, <2>2, Zenon DEF TypeOK, window
<1>11. CASE UNCHANGED vars
  BY <1>11, Zenon DEF TypeOK, vars, window, camera, status
<1> QED
  BY <1>1, <1>2, <1>3, <1>4, <1>6, <1>7, <1>9, <1>10, <1>11, Zenon DEF Next, RunCamera

(* For any cameras and any number of changes, the list holds the numbers   *)
(* of its own enumeration and the index is -1, 0 or one of them            *)
(* (VisionDemo.cpp:332-399).                                               *)
THEOREM TypeCorrect == Spec => []TypeOK
  BY InitType, NextType, PTL DEF Spec

(* The invariant holds in every reachable state.                           *)
THEOREM PreviewCorrect == Spec => []PreviewInv
<1>1. Init => PreviewInv
  BY InitPreview
<1>2. PreviewInv /\ [Next]_vars => PreviewInv'
  BY NextPreview
<1> QED
  BY <1>1, <1>2, PTL DEF Spec

(* From the second press of the preview button on the label is right, and  *)
(* before it never says that the preview runs (VisionDemo.cpp:323-356).    *)
THEOREM LabelRightFromSecondPressCorrect == Spec => []LabelRightFromSecondPress
<1>1. PreviewInv => LabelRightFromSecondPress
  BY DEF PreviewInv
<1> QED
  BY <1>1, PreviewCorrect, PTL

(* The preview runs only with an open camera that took the size asked for  *)
(* or was not asked (CameraDS.cpp:108-271).                                *)
THEOREM RunsWithUsableCameraCorrect == Spec => []RunsWithUsableCamera
<1>1. PreviewInv => RunsWithUsableCamera
  BY DEF PreviewInv, OpenSinceFirstPress, RunsWithUsableCamera
<1> QED
  BY <1>1, PreviewCorrect, PTL

(* After the flash button found no module, none is opened until it finds   *)
(* one (VisionDemo.cpp:396-398).                                           *)
THEOREM NoneOpenedAfterFlashCorrect == Spec => NoneOpenedAfterFlash
<1>1. PreviewInv /\ [Next]_vars =>
        [warned = "button" /\ ~m_bConnected => ~m_bConnected']_vars
  <2> SUFFICES ASSUME PreviewInv, Next, warned = "button", ~m_bConnected
               PROVE  ~m_bConnected'
    OBVIOUS
  <2>1. ~Binds
    BY DEF PreviewInv, IndexFromList, Binds
  <2> QED
    BY <2>1 DEF Next, RunCamera, Plug, Unplug, FlashCam, Choose, NoSuchCamera, CameraFails,
                OpenFailed, OpenCamera, Toggle, camera
<1> QED
  BY <1>1, PreviewCorrect, PTL DEF Spec, NoneOpenedAfterFlash

(* As long as the list is up to date, the camera opened is the one         *)
(* selected in it, and a depth module, whatever cameras there are          *)
(* (VisionDemo.cpp:332-399, CameraDS.cpp:438-491).                         *)
THEOREM OpensWhatIsShownCorrect == Spec => OpensWhatIsShown
<1>1. TypeOK /\ PreviewInv /\ [Next]_vars =>
        [~m_bConnected /\ m_bConnected' /\ found = plugged /\ current # 0 =>
           /\ m_pDeviceFilter' = plugged[comboBoxModule[current] + 1]
           /\ m_pDeviceFilter' \in Modules]_vars
  <2> SUFFICES ASSUME TypeOK, PreviewInv, Next, ~m_bConnected, m_bConnected',
                      found = plugged, current # 0
               PROVE  /\ m_pDeviceFilter' = plugged[comboBoxModule[current] + 1]
                      /\ m_pDeviceFilter' \in Modules
    OBVIOUS
  <2>1. OpenCamera
    BY Zenon DEF Next, RunCamera, Plug, Unplug, FlashCam, Choose, NoSuchCamera, CameraFails,
                 OpenFailed, Toggle, camera
  <2>2. camIndex = comboBoxModule[current]
    BY DEF PreviewInv, IndexFromList
  <2>3. m_pDeviceFilter' = plugged[comboBoxModule[current] + 1]
    BY <2>1, <2>2 DEF OpenCamera
  <2>4. current \in 1 .. Len(Listed(plugged)) /\ plugged \in Seq(Cameras)
    <3>1. comboBoxModule = Listed(plugged) /\ plugged \in Seq(Cameras)
      BY DEF TypeOK
    <3>2. comboBoxModule \in Seq(ModulePlaces(plugged))
      BY <3>1, ListedType
    <3> QED
      BY <3>1, <3>2 DEF TypeOK
  <2>5. m_pDeviceFilter' \in Modules
    BY <2>3, <2>4, EntryType DEF TypeOK
  <2> QED
    BY <2>3, <2>5, ConcatProperties
<1> QED
  BY <1>1, TypeCorrect, PreviewCorrect, PTL DEF Spec, OpensWhatIsShown
===============================================================================
