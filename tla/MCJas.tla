------------------------------- MODULE MCJas -------------------------------
(* Texts of three lines: every shape of operands, the forms that shadow     *)
(* others, unknown words, comments, and lines that break the syntax.        *)
EXTENDS Jas

T(tw, type, name, suffix, num) ==
    [tw |-> tw, type |-> type, name |-> name, suffix |-> suffix, num |-> num]
W(name, suffix) == T("SYMBOL", "NONE", name, suffix, -1)
Reg(k) == T("SYMBOL", "REGISTER", << >>, "", k)
Imm(k) == T("SYMBOL", "IMMEDIATE", << >>, "", k)
Int5 == T("SYMBOL", "INTEGER", << >>, "", -1)
Str == T("STRING", "STRING", << >>, "", -1)
Label == T("SYMBOL", "LABEL", << >>, "", -1)
C == T("CHAR", "NONE", <<",">>, "", -1)
Plus == T("CHAR", "NONE", <<"+">>, "", -1)
End(e) == T("EOL", "NONE", <<e>>, "", -1)

Three(w, a, b, c) == << w, a, C, b, C, c >>
Statements ==
    {<< >>, << Label >>, << W(<<"nop">>, "") >>, << W(<<"ret">>, ""), Reg(3) >>,
     << W(<<"jmp">>, ""), Imm(-2048) >>, << W(<<"jnz">>, "i16"), Reg(1), C, Imm(2047) >>,
     << Label, W(<<"mov", "i">>, "u8"), Reg(15), C, Imm(-1) >>,
     << W(<<"v", "neg">>, "f32"), Reg(4), C, Reg(5) >>,
     Three(W(<<"add">>, "u16"), Reg(1), Reg(2), Reg(3)),
     Three(W(<<"v", "sub">>, "i8"), Reg(9), Reg(12), Reg(-1)),
     Three(W(<<"add", "i">>, "u64"), Reg(7), Reg(6), Imm(-128)),
     Three(W(<<"v", "mul", "i">>, ""), Reg(0), Reg(15), Imm(200)),
     << W(<<"bogus">>, ""), Reg(14), C, Reg(13) >>,
     << W(<<"add">>, "u7"), Reg(11), C, Imm(5) >>,
     << W(<<"jmp">>, "u8"), Imm(1) >>,
     << W(<<"band", "n">>, "u8"), Reg(2), C, Int5 >>}
Broken ==
    {<< W(<<"add">>, ""), Reg(1), Reg(2) >>, << W(<<"add">>, ""), Reg(1), C >>,
     << W(<<"add">>, ""), Plus >>, << Str, Reg(1) >>, << Label, Label, Reg(1) >>,
     << Reg(1), Reg(2) >>, << W(<<"ret">>, ""), C >>,
     << W(<<"sub">>, "i32"), Str, C, Reg(1), C, Reg(2), C, Reg(3), C, Reg(4) >>}

MCLines ==
    {[tokens |-> Append(s, End("\n")), closes |-> FALSE] : s \in Statements \cup Broken}
    \cup {[tokens |-> Append(s, End(e)), closes |-> c] :
             s \in {<< >>, << W(<<"nop">>, "") >>, << W(<<"add">>, ""), Reg(1), C >>},
             e \in {"//", "/*"}, c \in BOOLEAN}
=============================================================================
