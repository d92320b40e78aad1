------------------------------ MODULE FrameStore ------------------------------
(***************************************************************************)
(* What the frame saver promises its caller: frames handed in by storeData *)
(* are written to disk once each, in the order they were handed in.  The   *)
(* store holds at most Capacity - 1 frames; the caller is not told when it *)
(* is full, so the promise ends (broken) when one more frame arrives.  It  *)
(* may also end when the store is empty: the cursor the writer polls takes *)
(* an out-of-range value for an instant each time it wraps.  And a frame   *)
(* may be dropped while the user changes the mode.                         *)
(***************************************************************************)
EXTENDS Integers, Sequences

CONSTANTS
  Capacity,          \* slots of the store (BUFFLEN in datasaver.cpp)
  SettingsMayChange  \* the user may choose another mode while frames are saved

VARIABLES
  pending,   \* frames handed in and not yet on disk, oldest first
  saved,     \* frames on disk, oldest first
  next,      \* the number the next frame handed in will have
  broken     \* the promise has ended

vars == <<pending, saved, next, broken>>

Init == pending = <<>> /\ saved = <<>> /\ next = 0 /\ broken = FALSE

(* storeData with room for the frame *)
Put ==
  /\ ~broken
  /\ Len(pending) < Capacity - 1
  /\ pending' = Append(pending, next)
  /\ next' = next + 1
  /\ UNCHANGED <<saved, broken>>

(* one pass of the writer: the oldest pending frame goes to disk *)
Save ==
  /\ ~broken
  /\ pending # <<>>
  /\ saved' = Append(saved, Head(pending))
  /\ pending' = Tail(pending)
  /\ UNCHANGED <<next, broken>>

Breakdown == broken' = TRUE /\ pending' = <<>> /\ saved' = <<>> /\ next' = 0

(* the store is full and the caller does not find out *)
Overrun == ~broken /\ Len(pending) = Capacity - 1 /\ Breakdown

(* the store is empty and the writer takes it for non-empty *)
Misread == ~broken /\ pending = <<>> /\ Breakdown

(* neither mode was set when the writer looked for it *)
Dropped == ~broken /\ SettingsMayChange /\ pending # <<>> /\ Breakdown

Next == Put \/ Save \/ Overrun \/ Misread \/ Dropped

Spec == Init /\ [][Next]_vars

(* As long as the promise holds every frame handed in is on disk or in the *)
(* store, once and in order, and the store is never full.                  *)
Fifo ==
  ~broken =>
    /\ \A i \in 1 .. Len(saved) : saved[i] = i - 1
    /\ \A i \in 1 .. Len(pending) : pending[i] = Len(saved) + i - 1
    /\ Len(saved) + Len(pending) = next
    /\ Len(pending) < Capacity
===============================================================================
