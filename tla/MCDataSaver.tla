------------------------------ MODULE MCDataSaver ------------------------------
(***************************************************************************)
(* Small instances of DataSaver.  A ring of three slots wraps, fills and   *)
(* is lapped within four frames, and six go round it twice.                *)
(***************************************************************************)
EXTENDS DataSaver

Load(frames, alone, changed) == [frames |-> frames, alone |-> alone, changes |-> changed]

(* a long recording; one whose mode or directory is changed; one of the    *)
(* other kind of frame with a synced frame and a change in between         *)
SaverLoads == {Load(6, 0, 0), Load(3, 0, 1), Load(1, 4, 1)}

(* RGB-only pictures alone, one ring and two more *)
LostLoads == {Load(0, 5, 0)}
===============================================================================
