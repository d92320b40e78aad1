---------------------------- MODULE Promises_proof ----------------------------
(***************************************************************************)
(* What the two abstract specifications promise, for a store of any size   *)
(* and any limits.                                                         *)
(***************************************************************************)
EXTENDS Integers, Sequences, TLAPS

CONSTANTS Capacity, SettingsMayChange, Limits

VARIABLES pending, saved, next, broken, limit, on, stored, announced, late

Store == INSTANCE FrameStore
Promise == INSTANCE Recording

-------------------------------------------------------------------------------
(* FrameStore *)

StoreType == pending \in Seq(Nat) /\ saved \in Seq(Nat) /\ next \in Nat

(* Put adds the next number at one end, Save takes the first from the      *)
(* other.                                                                  *)
LEMMA StoreStep ==
  ASSUME Capacity \in Nat \ {0}, StoreType, Store!Fifo, [Store!Next]_(Store!vars)
  PROVE  StoreType' /\ Store!Fifo'
<1> USE DEF StoreType
<1>0. Len(saved) \in Nat /\ Len(pending) \in Nat /\ next \in Nat
  OBVIOUS
<1>1. CASE Store!Put
  <2>1. /\ ~broken /\ Len(pending) < Capacity - 1
        /\ pending' = Append(pending, next) /\ next' = next + 1 /\ UNCHANGED <<saved, broken>>
    BY <1>1 DEF Store!Put
  <2>2. /\ pending' \in Seq(Nat) /\ Len(pending') = Len(pending) + 1
        /\ \A i \in 1 .. Len(pending) : pending'[i] = pending[i]
        /\ pending'[Len(pending) + 1] = next
    BY <2>1
  <2>3. next = Len(saved) + Len(pending)
    BY <2>1 DEF Store!Fifo
  <2>4. /\ \A i \in 1 .. Len(saved) : saved[i] = i - 1
        /\ \A i \in 1 .. Len(pending) : pending[i] = Len(saved) + i - 1
    BY <2>1 DEF Store!Fifo
  <2>5. ASSUME NEW i \in 1 .. Len(pending) + 1
        PROVE  pending'[i] = Len(saved) + i - 1
    <3>1. CASE i = Len(pending) + 1
      BY <1>0, <2>2, <2>3, <3>1
    <3>2. CASE i # Len(pending) + 1
      <4>1. i \in 1 .. Len(pending)
        BY <1>0, <3>2
      <4> QED
        BY <2>2, <2>4, <4>1
    <3> QED
      BY <3>1, <3>2
  <2>6. Len(saved) + Len(pending') = next' /\ Len(pending') < Capacity
    BY <2>1, <2>2, <2>3
  <2>7. Store!Fifo'
    BY <2>1, <2>2, <2>4, <2>5, <2>6, Zenon DEF Store!Fifo
  <2> QED
    BY <2>1, <2>2, <2>7
<1>2. CASE Store!Save
  <2>1. /\ ~broken /\ pending # <<>>
        /\ saved' = Append(saved, Head(pending)) /\ pending' = Tail(pending)
        /\ UNCHANGED <<next, broken>>
    BY <1>2 DEF Store!Save
  <2>2. /\ pending' \in Seq(Nat) /\ Len(pending) > 0 /\ Len(pending') = Len(pending) - 1
        /\ \A i \in 1 .. Len(pending) - 1 : pending'[i] = pending[i + 1]
        /\ Head(pending) = pending[1] /\ Head(pending) \in Nat
    BY <2>1
  <2>3. pending[1] = Len(saved)
    BY <2>1, <2>2 DEF Store!Fifo
  <2>4. /\ saved' \in Seq(Nat) /\ Len(saved') = Len(saved) + 1
        /\ \A i \in 1 .. Len(saved) : saved'[i] = saved[i]
        /\ saved'[Len(saved) + 1] = Len(saved)
    BY <2>1, <2>2, <2>3
  <2>5. /\ \A i \in 1 .. Len(saved) : saved[i] = i - 1
        /\ \A i \in 1 .. Len(pending) : pending[i] = Len(saved) + i - 1
        /\ Len(saved) + Len(pending) = next /\ Len(pending) < Capacity
    BY <2>1 DEF Store!Fifo
  <2>6. ASSUME NEW i \in 1 .. Len(saved) + 1
        PROVE  saved'[i] = i - 1
    <3>1. CASE i = Len(saved) + 1
      BY <1>0, <2>4, <3>1
    <3>2. CASE i # Len(saved) + 1
      <4>1. i \in 1 .. Len(saved)
        BY <1>0, <3>2
      <4> QED
        BY <2>4, <2>5, <4>1
    <3> QED
      BY <3>1, <3>2
  <2>7. \A i \in 1 .. Len(pending') : pending'[i] = Len(saved') + i - 1
    BY <2>2, <2>4, <2>5
  <2>8. Len(saved') + Len(pending') = next' /\ Len(pending') < Capacity
    <3>1. /\ Len(saved') = Len(saved) + 1 /\ Len(pending') = Len(pending) - 1 /\ next' = next
          /\ Len(saved) + Len(pending) = next /\ Len(pending) < Capacity
      BY <2>1, <2>2, <2>4, <2>5
    <3> QED
      BY ONLY <1>0, <3>1, Capacity \in Nat \ {0}
  <2>9. Store!Fifo'
    BY <2>1, <2>4, <2>6, <2>7, <2>8, Zenon DEF Store!Fifo
  <2> QED
    BY <2>1, <2>2, <2>4, <2>9
<1>3. CASE Store!Overrun \/ Store!Misread \/ Store!Dropped
  <2>1. broken' = TRUE /\ pending' = <<>> /\ saved' = <<>> /\ next' = 0
    BY <1>3 DEF Store!Overrun, Store!Misread, Store!Dropped, Store!Breakdown
  <2>2. Store!Fifo'
    BY <2>1, Zenon DEF Store!Fifo
  <2> QED
    BY <2>1, <2>2
<1>4. CASE UNCHANGED Store!vars
  BY <1>4 DEF Store!vars, Store!Fifo
<1> QED
  BY <1>1, <1>2, <1>3, <1>4 DEF Store!Next

(* A store of any size keeps every frame once and in order until the       *)
(* promise ends, and always has a free slot: what datasaver.h:16-18 means  *)
(* by passing data to be saved.                                            *)
THEOREM StorePromise ==
  ASSUME Capacity \in Nat \ {0}
  PROVE  Store!Spec => []Store!Fifo
<1>1. Store!Init => StoreType /\ Store!Fifo
  BY DEF Store!Init, StoreType, Store!Fifo
<1>2. StoreType /\ Store!Fifo /\ [Store!Next]_(Store!vars) => StoreType' /\ Store!Fifo'
  BY StoreStep
<1> QED
  BY <1>1, <1>2, PTL DEF Store!Spec

-------------------------------------------------------------------------------
(* Recording *)

RecordingType == limit \in Nat /\ stored \in Nat /\ late \in Nat

(* Only the frame in hand at the end can pass the limit.                   *)
LEMMA RecordingStep ==
  ASSUME Limits \subseteq Nat, RecordingType, Promise!LimitKept, [Promise!Next]_(Promise!vars)
  PROVE  RecordingType' /\ Promise!LimitKept'
<1> USE DEF RecordingType, Promise!LimitKept
<1>1. CASE \E n \in Limits : Promise!Start(n)
  BY <1>1 DEF Promise!Start
<1>2. CASE Promise!Overlap \/ Promise!Store \/ Promise!Stop
  BY <1>2 DEF Promise!Overlap, Promise!Store, Promise!Stop
<1>3. CASE Promise!Finish \/ Promise!StoreLate
  BY <1>3 DEF Promise!Finish, Promise!StoreLate
<1>4. CASE UNCHANGED Promise!vars
  BY <1>4 DEF Promise!vars
<1> QED
  BY <1>1, <1>2, <1>3, <1>4 DEF Promise!Next

(* A recording keeps its limit, up to the frame in hand at its end, and    *)
(* what was announced as done is stored and is not recorded any more.      *)
THEOREM RecordingPromise ==
  ASSUME Limits \subseteq Nat
  PROVE  Promise!Spec => []Promise!LimitKept
<1>1. Promise!Init => RecordingType /\ Promise!LimitKept
  BY DEF Promise!Init, RecordingType, Promise!LimitKept
<1>2. RecordingType /\ Promise!LimitKept /\ [Promise!Next]_(Promise!vars)
        => RecordingType' /\ Promise!LimitKept'
  BY RecordingStep
<1> QED
  BY <1>1, <1>2, PTL DEF Promise!Spec
===============================================================================
