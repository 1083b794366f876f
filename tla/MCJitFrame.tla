----------------------------- MODULE MCJitFrame -----------------------------
(* Programs of two instructions before a return, on registers of every kind:*)
(* rax, rbx and r12, which the caller wants back, and two vectors; and on   *)
(* registers that assemble() uses itself.                                   *)
EXTENDS JitFrame

rbx == Gp(3)
r12 == Gp(12)
v0 == Xmm(0)
v2 == Xmm(2)
Used == {rax, rbx, r12, v0}

Ins(op, d, s, to) == [op |-> op, d |-> d, s |-> s, to |-> to]
Body(q) == {Ins("compute", d, {s}, 0) : d \in Used, s \in {rax, rbx}}
           \cup {Ins("compute", v2, {v0, rbx}, 0), Ins("branch", rax, {}, 2 - 2 * q),
                 Ins("jump", rax, {}, 2), Ins("ret", rbx, {}, 0)}
Programs == {<<a, b, Ins("ret", x, {}, 0)>> : a \in Body(0), b \in Body(1), x \in {rax, v2}}
Masks == {{rax, rbx}, {rax, rbx, v0}, {rax, rbx, r12, v0, v2}}

MCCalls == [code : Programs, mask : Masks]
           \cup [code : {<<Ins("compute", d, {rax}, 0), Ins("ret", rax, {}, 0)>> :
                            d \in {rax, rdi, Gp(14)}},
                 mask : {{rax}, {rax, rdi}, {rax, Gp(14)}, {rax, rsp}}]
=============================================================================
