----------------------------- MODULE MCJregTest -----------------------------
(* test() on the sixteen registers of x86.  Register r starts with the word *)
(* 2^r, so that a sum tells its summands; the native registers that are not *)
(* loaded start with the same word in all.                                  *)
EXTENDS JregTest

MCStart == [r \in Virtual |-> 2 ^ r]
MCGarbage == {[gp \in Native |-> w] : w \in {0, 1, 512, 40000}}

(* This allocator is among those the theorems about the test are about.     *)
ASSUME TestHypotheses == RoomForTest
=============================================================================
