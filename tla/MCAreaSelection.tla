---------------------------- MODULE MCAreaSelection ----------------------------
(***************************************************************************)
(* Pictures of two by two.  Points inside the pictures, on their edges, in *)
(* the band where calcXY returns (0, 0), and beyond the label on its left, *)
(* on its right and below it.  Before the first picture x86 converts an    *)
(* infinite float to the smallest int, whose remainders are negative.      *)
(***************************************************************************)
EXTENDS AreaSelection

P(a, b) == [x |-> a, y |-> b]
OnPictures == {P(0, 0), P(1, 1), P(2, 0), P(3, 1), P(5, 0)}
Beyond == {P(7, 1), P(-1, 0), P(1, 2)}
Smallest == P(-3, -3)
===============================================================================
