------------------------------- MODULE MCJreg -------------------------------
(* Five native registers: 0 pinned, one temporary, three for the others,    *)
(* which are four.  A program is MaxCalls calls of the client; add's        *)
(* sources are taken in increasing order, since add is commutative.         *)
EXTENDS Jreg

CONSTANT MaxCalls
VARIABLE calls

MCPinned == {0}
MCReserved == {}

DistinctWords ==
    /\ mem = [r \in Virtual |-> (r * r + 1) % WordSize]
    /\ gpr = [gp \in Native |-> IF gp = 0 THEN 1 ELSE 0]

MCInit == DistinctWords /\ JInit /\ calls = 0

MCNext == /\ JNext
          /\ ins'.s1 <= ins'.s2
          /\ IF pc = "idle"
             THEN calls < MaxCalls /\ calls' = calls + 1
             ELSE UNCHANGED calls

MCSpec == MCInit /\ [][MCNext]_<<vars, calls>>
=============================================================================
