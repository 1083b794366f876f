------------------------------ MODULE JregTest ------------------------------
(***************************************************************************)
(* test() of jreg.cpp, call by call, on virtual registers that start with  *)
(* any words, Start, and native registers that start with some garbage.    *)
(***************************************************************************)
EXTENDS Jreg

CONSTANTS Start,        \* what the virtual registers hold at the start
          Garbage       \* what the native registers may hold then

ASSUME TestAssumption ==
    Start \in [Virtual -> Word] /\ Garbage \subseteq [Native -> Word]

VARIABLE at             \* the call of Program to make next

testVars == <<vars, at>>

x86Pinned == {0, 1}
x86Reserved == {4, 7}

(* What the program asks of an allocator: registers up to r15, two          *)
(* temporaries, and five native registers besides those that are fixed, for *)
(* what it used last.                                                       *)
RoomForTest ==
    /\ NumVirtual >= 16
    /\ MaxTmps >= 2
    /\ Cardinality(Pinned) + Cardinality(Reserved) + MaxTmps + 5 <= NumNative

Program == <<
    <<"add", 0, 1, 2>>, <<"add", 2, 3, 4>>, <<"add", 4, 5, 6>>,
    <<"add", 6, 7, 8>>, <<"add", 8, 9, 10>>, <<"add", 10, 11, 12>>,
    <<"add", 12, 13, 14>>,
    <<"TmpAlloc">>, <<"TmpAlloc">>,
    <<"movToTmp", 1, 10>>, <<"addToTmp", 2, 12>>, <<"movFromTmp", 12, 2>>,
    <<"~TmpAlloc">>, <<"~TmpAlloc">>,
    <<"add", 1, 0, 2>>, <<"add", 3, 4, 6>>, <<"add", 5, 8, 10>>,
    <<"add", 7, 12, 15>>, <<"add", 2, 1, 3>>, <<"add", 4, 5, 7>>,
    <<"add", 0, 2, 4>> >>

Call(c) ==
    CASE c[1] = "add" -> StartAdd(c[2], c[3], c[4])
      [] c[1] = "TmpAlloc" -> NewTmp
      [] c[1] = "~TmpAlloc" -> DropTmp
      [] c[1] = "movToTmp" -> MovToTmp(c[2], c[3])
      [] c[1] = "addToTmp" -> AddToTmp(c[2], c[3])
      [] c[1] = "movFromTmp" -> MovFromTmp(c[2], c[3])

TestInit ==
    /\ mem = Start
    /\ \E g \in Garbage :
          gpr = [gp \in Native |-> IF gp \in Pinned THEN mem[gp] ELSE g[gp]]
    /\ JInit
    /\ at = 1

NextCall == /\ at <= Len(Program)
            /\ Call(Program[at])
            /\ at' = at + 1

Finish == (LoadS1 \/ LoadS2 \/ MapD \/ Exec) /\ UNCHANGED at

TestNext == NextCall \/ Finish

TestSpec == TestInit /\ [][TestNext]_testVars /\ WF_testVars(TestNext)
-----------------------------------------------------------------------------
Done == pc = "idle" /\ at = Len(Program) + 1

S(r) == Start[r]
Sum(x) == x % WordSize

(* The sums that the comments beside the calls name are in their registers  *)
(* when the program ends, although thirteen registers wanted the twelve     *)
(* that can be evicted.  (Excepted are those that use r12, over which the   *)
(* code between the temporaries moves one of them: r7 and r4.)              *)
SumsAsCommented ==
    Done => /\ value(1) = Sum(S(1) + S(2) + S(3) + S(4))
            /\ value(3) = Sum(S(5) + S(6) + S(7) + S(8))
            /\ value(5) = Sum(S(9) + S(10) + S(11) + S(12))
            /\ value(6) = Sum(S(7) + S(8))
            /\ value(8) = Sum(S(9) + S(10))
            /\ value(10) = Sum(S(11) + S(12))
            /\ value(2) = Sum(  S(1) + S(2) + S(3) + S(4)
                             + S(5) + S(6) + S(7) + S(8))

(* What a call takes for granted: a free place for a temporary, temporaries *)
(* to work on, and a register that is mapped though nobody asked for it.    *)
Possible(c) ==
    CASE c[1] = "add" -> TRUE
      [] c[1] = "TmpAlloc" -> Len(tmps) < MaxTmps
      [] c[1] = "~TmpAlloc" -> tmps # << >>
      [] c[1] = "movFromTmp" -> c[3] \in DOMAIN tmps /\ r_map[c[2]] # None
      [] OTHER -> c[2] \in DOMAIN tmps /\ r_map[c[3]] # None

(* Every call finds what it takes for granted.  The code between the        *)
(* temporaries reads r_map[10] and r_map[12] without ensure_loaded: the two *)
(* are still mapped after the instruction and the two temporaries since.    *)
CallsPossible == pc = "idle" /\ at <= Len(Program) => Possible(Program[at])

(* The program reaches its end: no call reads a register that has been      *)
(* evicted and the allocator always finds one.                              *)
ProgramEnds == <>Done

(* "r7=13+14+15", the comment beside the call that computes it.            *)
R7AsCommented == Done => value(7) = Sum(S(13) + S(14) + S(15))
=============================================================================
