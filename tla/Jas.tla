-------------------------------- MODULE Jas --------------------------------
(***************************************************************************)
(* The assembler of text programs, jas.c: it reads a line, scans it token  *)
(* by token, and writes an instruction into prog[pp].                      *)
(*                                                                         *)
(* A token is a record.  tw and type are those of scan_token; the name of  *)
(* a word is a sequence of parts (<<"v", "add", "i">> for vaddi), such     *)
(* that a name is a prefix of another if and only if it is as a string;    *)
(* suffix is what follows its dot ("" if there is none); num is the number *)
(* of a register (-1 if there is no such one) or the value of an immediate.*)
(* A line is its tokens up to and with the one that ends it (a newline or  *)
(* the start of a comment), and whether it closes a comment somewhere.     *)
(***************************************************************************)
EXTENDS SequencesExt, Integers

CONSTANTS Lines,         \* the lines a text is made of
          MaxLines,      \* the most lines of a text
          MAX_OPERANDS

(***************************************************************************)
(* The table of opcodes, in its order, and the names in it without a dot,  *)
(* which take no type.                                                     *)
(***************************************************************************)
Forms(s) == << <<s>>, <<s, "i">>, <<"v", s>>, <<"v", s, "i">> >>
symbol_id ==
    << <<"nop">>, <<"jmp">>, <<"jnz">>, <<"jz">>, <<"ret">>, <<"neg">>, <<"bnot">>,
       <<"inv">>, <<"mov">>, <<"mov", "i">> >>
    \o Forms("add") \o Forms("sub") \o Forms("rsub") \o Forms("mul")
    \o Forms("sll") \o Forms("srl") \o Forms("sra")
    \o Forms("band") \o Forms("bor") \o Forms("bxor")
    \o Forms("cmplt") \o Forms("cmple") \o Forms("cmpeq")
    \o Forms("cmpgt") \o Forms("cmpge") \o Forms("cmpne")
    \o << <<"v", "ret">>, <<"v", "mov">>, <<"v", "mov", "i">>, <<"v", "neg">>,
          <<"v", "bnot">>, <<"v", "inv">> >>
Untyped == {<<"nop">>, <<"jmp">>, <<"ret">>, <<"v", "ret">>}

DEFAULT_TYPE_ID == "INT64"
type_id == [u8 |-> "UINT8", u16 |-> "UINT16", u32 |-> "UINT32", u64 |-> "UINT64",
            i8 |-> "INT8", i16 |-> "UINT16", i32 |-> "UINT32", i64 |-> "UINT64",
            f32 |-> "FLOAT32", f64 |-> "FLOAT64"]

(* An entry that ends in a dot is found for every word that begins like it. *)
eqstrn(name, word) == IF name \in Untyped THEN word.name = name /\ word.suffix = ""
                                          ELSE IsPrefix(name, word.name)
Unknown == << >>
Numbered == <<"%">>   \* the opcode that has the number of a register
lookup(word) ==
    LET found == {k \in DOMAIN symbol_id : eqstrn(symbol_id[k], word)}
    IN  CASE word.type = "REGISTER" /\ word.num >= 0 -> Numbered
          [] found # {} -> symbol_id[CHOOSE k \in found : \A l \in found : k <= l]
          [] OTHER -> Unknown

Kinds == {"NONE", "LABEL", "STRING", "INTEGER", "REGISTER", "IMMEDIATE"}
Token == [tw : {"SYMBOL", "STRING", "CHAR", "EOL"}, type : Kinds,
          name : Seq(STRING), suffix : STRING, num : Int]
NoToken == [tw |-> "EOL", type |-> "NONE", name |-> << >>, suffix |-> "", num |-> -1]

ASSUME LinesAssumption ==
    /\ MaxLines \in Nat /\ MAX_OPERANDS \in Nat \ {0}
    /\ \A l \in Lines : /\ l.tokens \in Seq(Token) \ {<< >>}
                        /\ l.closes \in BOOLEAN
                        /\ \A k \in 1 .. Len(l.tokens) :
                              l.tokens[k].tw = "EOL" <=> k = Len(l.tokens)

VARIABLES read,         \* the lines read
          pc,           \* where assemble() is
          ptr,          \* how far the line is scanned
          tok,          \* the last token
          instruction,  \* the token in the place of the instruction
          operand,      \* the operands
          comment,      \* in a comment over several lines
          pp, prog,     \* the program
          from          \* the line each instruction comes from

lineVars == <<ptr, tok, instruction, operand>>
progVars == <<pp, prog, from>>
vars == <<read, pc, lineVars, comment, progVars>>

(* An instruction in prog: ri is the low end of imm12, rj that of imm8.     *)
Zero == [op |-> <<"nop">>, type |-> "UINT8", rd |-> 0, cell12 |-> 0, cell8 |-> 0]
ri(p) == p.cell12 % 16
rj(p) == p.cell8 % 16
imm12(p) == IF p.cell12 < 2048 THEN p.cell12 ELSE p.cell12 - 4096
imm8(p) == IF p.cell8 < 128 THEN p.cell8 ELSE p.cell8 - 256

Init == /\ read = << >> /\ pc = "line"
        /\ ptr = 1 /\ tok = NoToken
        /\ instruction = NoToken /\ operand = << >>
        /\ comment = FALSE
        /\ pp = 0 /\ prog = [k \in 0 .. MaxLines |-> Zero] /\ from = << >>

line == Last(read).tokens
scan_token == line[ptr]
Advance(t) == ptr' = IF t.tw = "EOL" THEN ptr ELSE ptr + 1

-----------------------------------------------------------------------------
(* The next line, of which nothing but the end of the comment counts inside *)
(* one.                                                                     *)
ReadLine(l) ==
    /\ pc = "line" /\ Len(read) < MaxLines
    /\ read' = Append(read, l)
    /\ ptr' = 1 /\ tok' = NoToken /\ instruction' = NoToken /\ operand' = << >>
    /\ IF comment THEN comment' = ~ l.closes /\ pc' = pc
                  ELSE pc' = "label" /\ UNCHANGED comment
    /\ UNCHANGED progVars

EndOfFile == pc = "line" /\ pc' = "done"
             /\ UNCHANGED <<read, lineVars, comment, progVars>>

IsLabel(t) == t.tw = "SYMBOL" /\ t.type = "LABEL"
SkipLabel == /\ pc = "label" /\ pc' = "instruction"
             /\ IF IsLabel(scan_token) THEN Advance(scan_token) ELSE UNCHANGED ptr
             /\ UNCHANGED <<read, tok, instruction, operand, comment, progVars>>

TakeInstruction ==
    /\ pc = "instruction"
    /\ tok' = scan_token /\ Advance(tok')
    /\ instruction' = IF tok'.tw = "SYMBOL" THEN tok' ELSE NoToken
    /\ pc' = IF tok'.tw = "EOL" THEN "emit" ELSE "operand"
    /\ UNCHANGED <<read, operand, comment, progVars>>

(* What may follow where an operand is expected: an operand, or the end of  *)
(* the line if there has been none.  (And the bug of expecting at least one.)*)
AtLeastOne(t) == t.tw \in {"SYMBOL", "STRING"}
Acceptable(t) == t.tw \in {"SYMBOL", "STRING"} \/ (t.tw = "EOL" /\ operand = << >>)

TakeOperand ==
    /\ pc = "operand" /\ Len(operand) < MAX_OPERANDS
    /\ tok' = scan_token /\ Advance(tok')
    /\ operand' = IF tok'.tw \in {"SYMBOL", "STRING"} THEN Append(operand, tok') ELSE operand
    /\ pc' = IF Acceptable(tok') THEN "separator" ELSE "error"
    /\ UNCHANGED <<read, instruction, comment, progVars>>

TooMany == /\ pc = "operand" /\ Len(operand) >= MAX_OPERANDS /\ pc' = "emit"
           /\ UNCHANGED <<read, lineVars, comment, progVars>>

Separator ==
    /\ pc = "separator"
    /\ tok' = scan_token /\ Advance(tok')
    /\ pc' = IF tok'.tw = "CHAR" /\ tok'.name = <<",">> THEN "operand" ELSE "emit"
    /\ UNCHANGED <<read, instruction, operand, comment, progVars>>

-----------------------------------------------------------------------------
(* The operands written into an instruction, by their kinds: r a register,  *)
(* i an immediate; all others leave it as it is.  (And the bugs of keeping  *)
(* every immediate in imm12, over ri, and of not cutting it.)               *)
Kind(o) == [k \in DOMAIN o |-> o[k].type]
R == "REGISTER"
I == "IMMEDIATE"
WithRd(p, o) == [p EXCEPT !.rd = o.num % 16]
WithRi(p, o) == [p EXCEPT !.cell12 = 16 * (@ \div 16) + (o.num % 16)]
WithRj(p, o) == [p EXCEPT !.cell8 = 16 * (@ \div 16) + (o.num % 16)]
WithImm12(p, o) == [p EXCEPT !.cell12 = o.num % 4096]
WithImm8Uncut(p, o) == [p EXCEPT !.cell8 = o.num]
WithImm8(p, o) == [p EXCEPT !.cell8 = o.num % 256]
WithOperands(p, o) ==
    CASE Kind(o) = <<R>> -> WithRd(p, o[1])
      [] Kind(o) = <<I>> -> WithImm12(p, o[1])
      [] Kind(o) = <<R, R>> -> WithRi(WithRd(p, o[1]), o[2])
      [] Kind(o) = <<R, I>> -> WithImm12(WithRd(p, o[1]), o[2])
      [] Kind(o) = <<R, R, R>> -> WithRj(WithRi(WithRd(p, o[1]), o[2]), o[3])
      [] Kind(o) = <<R, R, I>> -> WithImm8(WithRi(WithRd(p, o[1]), o[2]), o[3])
      [] OTHER -> p

(* What the search for a type may come to.  type_id has no end mark: for a *)
(* type that is not in it the search goes on in what lies behind, where it  *)
(* finds nothing, or something with an id that is no type of the program's; *)
(* or it crashes.                                                           *)
opcode == lookup(instruction)
NotFound == "NOT_FOUND"
Behind == "BEHIND"
TypesFound == CASE instruction.suffix = "" -> {DEFAULT_TYPE_ID}
                [] instruction.suffix \in DOMAIN type_id -> {type_id[instruction.suffix]}
                [] OTHER -> {NotFound, Behind}

(* An instruction whose opcode or type is not found is written, but not     *)
(* kept: the next one is written over it.                                   *)
WithOpcode(p, t) ==
    IF opcode = Unknown THEN p
    ELSE [p EXCEPT !.op = opcode, !.type = IF t = NotFound THEN DEFAULT_TYPE_ID ELSE t]
Kept(t) == opcode # Unknown /\ t # NotFound

(* A comment over several lines begins where a line ends in it, as far as   *)
(* the line was scanned.  (And the bug of not looking at which comment.)    *)
AnyComment == tok.tw = "EOL" /\ tok.name \in {<<"/*">>, <<"//">>}
OpensComment == tok.tw = "EOL" /\ tok.name = <<"/*">>

emit_instruction ==
    /\ pc = "emit" /\ pc' = "line"
    /\ \E t \in TypesFound :
          /\ prog' = [prog EXCEPT ![pp] = WithOperands(WithOpcode(@, t), operand)]
          /\ IF Kept(t) THEN pp' = pp + 1 /\ from' = Append(from, Len(read))
                        ELSE UNCHANGED <<pp, from>>
    /\ comment' = OpensComment
    /\ UNCHANGED <<read, lineVars>>

Crash == /\ pc = "emit" /\ opcode # Unknown /\ Behind \in TypesFound /\ pc' = "crashed"
         /\ UNCHANGED <<read, lineVars, comment, progVars>>

Next == \/ \E l \in Lines : ReadLine(l)
        \/ EndOfFile \/ SkipLabel \/ TakeInstruction \/ TakeOperand \/ TooMany
        \/ Separator \/ emit_instruction \/ Crash

Spec == Init /\ [][Next]_vars
-----------------------------------------------------------------------------
(***************************************************************************)
(* What a line means, by the syntax at the head of jas.c:                  *)
(*   [<label>] [<opcode> [<operand> [',' <operand>]]] and a comment.       *)
(***************************************************************************)
First(l) == IF IsLabel(l.tokens[1]) THEN 2 ELSE 1
Statement(l) == SubSeq(l.tokens, First(l), Len(l.tokens) - 1)
Operands(l) == [k \in 1 .. Len(Statement(l)) \div 2 |-> Statement(l)[2 * k]]
WellFormed(l) ==
    LET s == Statement(l)
    IN  s # << >> => /\ s[1].tw = "SYMBOL" /\ s[1].type = "NONE"
                     /\ Len(s) = 1 \/ Len(s) % 2 = 0
                     /\ Len(s) <= 2 * MAX_OPERANDS
                     /\ \A k \in 2 .. Len(s) :
                           IF k % 2 = 0 THEN s[k].tw \in {"SYMBOL", "STRING"}
                                        ELSE s[k].tw = "CHAR" /\ s[k].name = <<",">>

(* After which lines of a text a comment is open.                           *)
Opens(l) == Last(l.tokens).name = <<"/*">>
OpenAfterLine(open, l) == IF open THEN ~ l.closes ELSE Opens(l)
OpenAfter(text) ==
    LET after[k \in 0 .. Len(text)] ==
            IF k = 0 THEN FALSE ELSE OpenAfterLine(after[k - 1], text[k])
    IN  after
Open == OpenAfter(read)
Grammatical == \A k \in 1 .. Len(read) : Open[k - 1] \/ WellFormed(read[k])

(* An opcode of the table that no earlier entry is found for.               *)
Unshadowed(s) == \E k \in DOMAIN symbol_id :
                    /\ symbol_id[k] = s.name
                    /\ \A l \in 1 .. k - 1 : ~ IsPrefix(symbol_id[l], s.name)
                    /\ s.name \in Untyped => s.suffix = ""
Meant == [u8 |-> "UINT8", u16 |-> "UINT16", u32 |-> "UINT32", u64 |-> "UINT64",
          i8 |-> "INT8", f32 |-> "FLOAT32", f64 |-> "FLOAT64"]

(* The fields an instruction takes from operands that fit it.               *)
Shapes == {<<R>>, <<I>>, <<R, R>>, <<R, I>>, <<R, R, R>>, <<R, R, I>>}
Fits(k, o) == o.num \in IF o.type = R THEN 0 .. 15
                        ELSE IF k = 3 THEN -128 .. 127 ELSE -2048 .. 2047
FieldOf(p, k, o) == CASE o.type = I -> IF k = 3 THEN imm8(p) ELSE imm12(p)
                      [] OTHER -> IF k = 1 THEN p.rd ELSE IF k = 2 THEN ri(p) ELSE rj(p)
Means(p, l) ==
    LET s == Statement(l)[1]
        o == Operands(l)
    IN  /\ Unshadowed(s) => p.op = s.name
        /\ s.suffix = "" => p.type = DEFAULT_TYPE_ID
        /\ s.suffix \in DOMAIN Meant => p.type = Meant[s.suffix]
        /\ Kind(o) \in Shapes =>
              \A k \in DOMAIN o : Fits(k, o[k]) => FieldOf(p, k, o[k]) = o[k].num

TypeOK == /\ pc \in {"line", "label", "instruction", "operand", "separator", "emit",
                     "done", "error", "crashed"}
          /\ pp \in 0 .. Len(read) /\ Len(from) = pp
          /\ operand \in Seq(Token) /\ Len(operand) <= MAX_OPERANDS
          /\ \A k \in 0 .. MaxLines : /\ prog[k].rd \in 0 .. 15
                                      /\ prog[k].cell12 \in 0 .. 4095
                                      /\ prog[k].cell8 \in 0 .. 255

(* Every instruction of the program is what its line says, whatever was     *)
(* left in the array by lines that were not kept, and as often as the line  *)
(* is in the text: no line inside a comment is assembled, and none twice.   *)
(* (Excepted are the immediate forms, which are found as the others, and    *)
(* the signed types other than i8, which are unsigned in the table.)        *)
Assembled ==
    Grammatical =>
        /\ \A k \in 1 .. pp : /\ ~ Open[from[k] - 1]
                              /\ Means(prog[k - 1], read[from[k]])
        /\ \A k \in 1 .. pp - 1 : from[k] < from[k + 1]

(* No line is lost: one with an opcode and a type of the tables that is not *)
(* inside a comment has its instruction in the program as soon as it has    *)
(* been assembled.                                                          *)
NoneLost ==
    pc \in {"line", "done"} /\ Grammatical =>
        \A k \in 1 .. Len(read) :
            LET s == Statement(read[k])
            IN  ~ Open[k - 1] /\ s # << >>
                /\ Unshadowed(s[1]) /\ s[1].suffix \in {""} \cup DOMAIN type_id
                => \E q \in 1 .. pp : from[q] = k

(* A text that keeps to the syntax is not rejected.                         *)
Accepted == Grammatical => pc # "error"
=============================================================================
