----------------------------- MODULE MCRegAlloc -----------------------------
(* Six native registers: 0 pinned, 1 reserved, one temporary and three for  *)
(* the four other virtual registers, so that registers must be evicted.     *)
(* The allocator copies words and never looks at them: one initial state    *)
(* with every word different stands for all of them.                        *)
EXTENDS RegAlloc

MCPinned == {0}
MCReserved == {1}

MCInit ==
    /\ mem = [r \in Virtual |-> r + 1]
    /\ gpr = [gp \in Native |-> IF gp \in Pinned THEN gp + 1 ELSE 0]
    /\ Init

MCSpec == MCInit /\ [][Next]_allocVars
=============================================================================
