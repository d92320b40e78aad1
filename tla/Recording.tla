------------------------------- MODULE Recording ------------------------------
(***************************************************************************)
(* What the start and stop buttons of the save dialog promise the user: a  *)
(* recording stores the synced frames asked for and ends by itself, or     *)
(* when it is stopped; the frame in hand at its end may still be stored.   *)
(* A start that overlaps a frame being handled promises no limit.          *)
(***************************************************************************)
EXTENDS Integers

CONSTANT Limits   \* numbers of frames that can be asked for, 0 for no limit

VARIABLES
  limit,      \* frames asked for
  on,         \* the recording goes on
  stored,     \* synced frames stored since the start
  announced,  \* the user was told that all is stored
  late        \* frames of either kind stored after the end

vars == <<limit, on, stored, announced, late>>

Init == limit = 0 /\ on = FALSE /\ stored = 0 /\ announced = FALSE /\ late = 0

(* a recording may be started while another goes on, which ends then *)
Start(n) == limit' = n /\ on' = TRUE /\ stored' = 0 /\ announced' = FALSE /\ late' = 0

(* the first frame comes before the limit is known *)
Overlap ==
  /\ on /\ stored = 0 /\ ~announced
  /\ limit' = 0
  /\ UNCHANGED <<on, stored, announced, late>>

Store ==
  /\ on /\ (limit = 0 \/ stored < limit)
  /\ stored' = stored + 1
  /\ UNCHANGED <<limit, on, announced, late>>

Stop == on' = FALSE /\ UNCHANGED <<limit, stored, announced, late>>

(* the limit is reached; a stop at the same time makes no difference *)
Finish ==
  /\ limit # 0 /\ stored = limit /\ ~announced
  /\ on' = FALSE /\ announced' = TRUE
  /\ UNCHANGED <<limit, stored, late>>

(* the frame in hand when the recording ended *)
StoreLate ==
  /\ ~on /\ late = 0 /\ late' = 1
  /\ stored' \in {stored, stored + 1}
  /\ UNCHANGED <<limit, on, announced>>

Next ==
  \/ \E n \in Limits : Start(n)
  \/ Overlap \/ Store \/ Stop \/ Finish \/ StoreLate

Spec == Init /\ [][Next]_vars

(* A recording stores no more than it was asked for and the frame in hand  *)
(* at its end; what is announced has been stored and has ended.            *)
LimitKept ==
  /\ late <= 1 /\ (on => late = 0)
  /\ limit # 0 => stored <= limit + late
  /\ announced => ~on /\ limit # 0 /\ limit <= stored
===============================================================================
