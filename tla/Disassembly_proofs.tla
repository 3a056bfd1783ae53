------------------------- MODULE Disassembly_proofs -------------------------
(***************************************************************************)
(* Proofs about module Disassembly, for every ROM, size of a page and set  *)
(* of interrupt vectors.  The highlighted line follows pc because whatever *)
(* moves pc while the machine is at rest leaves a signal behind.  That a   *)
(* line tells what is executed compares the two tables row by row;         *)
(* TablesOK, that each has exactly one row for each of the 256 opcodes, is *)
(* a fact that TLC evaluates.  That instructions start where lines start   *)
(* is an induction over the execution, which CodeOK keeps in the code.     *)
(***************************************************************************)
EXTENDS Disassembly, TLAPS

-----------------------------------------------------------------------------
(* The highlighted line.                                                   *)

\* Until the constructor is through, nothing happens.
Quiet == ~Ready => signals = {} /\ cpu = "rest" /\ highlighted = -1 /\ ~isRunning_
FollowInv == Quiet /\ HighlightFollows

LEMMA FollowInit == Init => FollowInv
BY DEF Init, FollowInv, Quiet, HighlightFollows

\* Each step that moves pc, or stops the machine, leaves a signal to be handled.
LEMMA FollowStep == FollowInv /\ [Next]_vars => FollowInv'
<1> SUFFICES ASSUME FollowInv, [Next]_vars PROVE FollowInv'
  OBVIOUS
<1> USE DEF FollowInv, Quiet, HighlightFollows, Ready
<1>1. CASE Disassemble
  BY <1>1 DEF Disassemble, cpuVars
<1>2. CASE Begin
  <2>1. pos' = pos /\ ~(pos < Size)
    BY <1>2 DEF Begin, Abort, viewVars
  <2>2. cpu' /= "rest"
    BY <1>2 DEF Begin, Abort
  <2> QED  BY <2>1, <2>2
<1>3. CASE FetchOperand
  BY <1>3 DEF FetchOperand, Abort, viewVars
<1>4. CASE Execute
  <2>1. signals' /= {} /\ pos' = pos
    BY <1>4 DEF Execute, Stopped, viewVars
  <2>2. ~(pos < Size)
    BY <1>4 DEF Execute
  <2> QED  BY <2>1, <2>2
<1>5. CASE Start
  BY <1>5 DEF Start, viewVars, cpuVars
<1>6. CASE Stop
  BY <1>6 DEF Stop, Stopped, viewVars, cpuVars
<1>7. CASE Reset
  BY <1>7 DEF Reset, Stopped, viewVars
<1>8. CASE SaveState
  <2>1. LineAt(pc)' = LineAt(pc)
    BY <1>8 DEF SaveState, viewVars, cpuVars, LineAt
  <2> QED  BY <1>8, <2>1 DEF SaveState, viewVars, cpuVars
<1>9. CASE LoadState
  BY <1>9 DEF LoadState, Stopped, viewVars
<1>10. CASE Handle
  <2>1. LineAt(pc)' = LineAt(pc)
    BY <1>10 DEF Handle, cpuVars, LineAt
  <2> QED  BY <1>10, <2>1 DEF Handle, cpuVars
<1>11. CASE Dead \/ UNCHANGED vars
  <2>1. LineAt(pc)' = LineAt(pc)
    BY <1>11 DEF Dead, vars, viewVars, cpuVars, LineAt
  <2> QED  BY <1>11, <2>1 DEF Dead, vars, viewVars, cpuVars
<1> QED
  BY <1>1, <1>2, <1>3, <1>4, <1>5, <1>6, <1>7, <1>8, <1>9, <1>10, <1>11 DEF Next

\* When the machine rests and every signal is handled, the highlighted line is that of pc
\* (cpuwindow.cpp:80-139).
THEOREM HighlightIsRight == Spec => []HighlightFollows
<1>1. FollowInv => HighlightFollows
  BY DEF FollowInv
<1> QED  BY FollowInit, FollowStep, <1>1, PTL DEF Spec

-----------------------------------------------------------------------------
(* The two tables.                                                         *)

\* The place in the CPU that a form of the text stands for, and the effect a name does.
Forms == {"R", "@R", "P", "P4", "BUS", "#", "bit", "near", "far", "op", "@A"} \cup DOMAIN Word
Place(form, name) ==
    CASE form = "R"    -> "r"
      [] form = "@R"   -> "ram"
      [] form = "P"    -> IF name \in {"IN", "OUTL"} THEN "port1" ELSE "port3"
      [] form = "P4"   -> "port4"
      [] form = "BUS"  -> "bus"
      [] form = "#"    -> "data"
      [] form = "bit"  -> "b"
      [] form = "near" -> "page"
      [] form = "far"  -> "addr"
      [] form = "op"   -> "op"
      [] form = "@A"   -> "rom"
      [] OTHER         -> Word[form]

\* A row of the text and a case of the switch have the same operands.
Alike(row, case) ==
    /\ DOMAIN case[4] = DOMAIN row[4]
    /\ \A i \in DOMAIN row[4] :
         /\ row[4][i] \in Forms
         /\ case[4][i] = Place(row[4][i], row[3])
         /\ row[4][i] = "#" => case[2] = 2
         /\ row[4][i] = "near" => case[3] \in Conditional
         /\ row[4][i] = "far" => case[3] \in {"jump", "call"}
         /\ row[4][i] = "P" /\ row[3] \in {"IN", "OUTL"} => case[1] \subseteq {9, 10, 57, 58}

\* They say the same of the same opcodes, those apart that are known to be misread; and
\* whatever looks at a second byte has one.
Match(row, case) ==
    /\ case[1] = row[1]
    /\ case[2] = row[2] /\ case[2] \in {1, 2}
    /\ case[3] \in Conditional \cup {"jump", "call"} => case[2] = 2
    /\ row[1] \subseteq Misread \/ case[3] = Reads(row[3])
    /\ row[1] \subseteq {\h75} \/ Alike(row, case)
Twin(row, cases) == \E case \in cases : Match(row, case)

\* What the names of the text read.
LEMMA Readings ==
  /\ Reads(".DB") = "nothing" /\ Reads("IN") = "move" /\ Reads("NOP") = "nothing"
  /\ Reads("MOV") = "move" /\ Reads("INS") = "move" /\ Reads("OUTL") = "move"
  /\ Reads("MOVD") = "moveNibble" /\ Reads("ORLD") = "orNibble" /\ Reads("ANLD") = "andNibble"
  /\ Reads("MOVX") = "moveExternal" /\ Reads("MOVP") = "moveFromPage"
  /\ Reads("MOVP3") = "moveFromPage3" /\ Reads("XCH") = "exchange"
  /\ Reads("XCHD") = "exchangeLowHalf" /\ Reads("SWAP") = "swapHalves" /\ Reads("ADD") = "add"
  /\ Reads("ADDC") = "addWithCarry" /\ Reads("DA") = "decimal" /\ Reads("ORL") = "or"
  /\ Reads("ANL") = "and" /\ Reads("XRL") = "xor" /\ Reads("INC") = "increment"
  /\ Reads("DEC") = "decrement" /\ Reads("CLR") = "clear" /\ Reads("CPL") = "complement"
  /\ Reads("RL") = "rotateLeft" /\ Reads("RR") = "rotateRight"
  /\ Reads("RLC") = "rotateLeftWithCarry" /\ Reads("RRC") = "rotateRightWithCarry"
  /\ Reads("EN") = "enable" /\ Reads("DIS") = "disable" /\ Reads("STRT") = "start"
  /\ Reads("STOP") = "stop" /\ Reads("SEL") = "select" /\ Reads("ENT0") = "putTheClockOnT0"
  /\ Reads("JMP") = "jump" /\ Reads("CALL") = "call" /\ Reads("JMPP") = "jumpByTable"
  /\ Reads("RET") = "return" /\ Reads("RETR") = "returnAndRestore"
  /\ Reads("DJNZ") = "decrementUnlessZero" /\ Reads("JB") = "ifBit"
  /\ Reads("JTF") = "ifOverflow" /\ Reads("JF0") = "ifF0" /\ Reads("JF1") = "ifF1"
  /\ Reads("JT0") = "ifT0" /\ Reads("JNT0") = "unlessT0" /\ Reads("JT1") = "ifT1"
  /\ Reads("JNT1") = "unlessT1" /\ Reads("JNI") = "unlessNotInt" /\ Reads("JZ") = "ifZero"
  /\ Reads("JNZ") = "unlessZero" /\ Reads("JC") = "ifCarry" /\ Reads("JNC") = "unlessCarry"
BY DEF Reads, Reading

LEMMA Twins00 == \A row \in Rows00 : Twin(row, Cases)
<1> USE Readings DEF Twin, Match, Alike, Misread, Place, Forms, Word, Conditional,
           Registers, Rr, Pointers, At, Expander, Pp, Pages, Upper, Cases00
<1>1. Twin(<<{\h00}, 1, "NOP", <<>>>>, Cases00)  OBVIOUS
<1>2. Twin(<<{\h02}, 1, "OUTL", <<"BUS", "A">>>>, Cases00)  OBVIOUS
<1>3. Twin(<<{\h03}, 2, "ADD", <<"A", "#">>>>, Cases00)  OBVIOUS
<1>4. Twin(<<Pages(\h04), 2, "JMP", <<"far">>>>, Cases00)  OBVIOUS
<1>5. Twin(<<{\h05}, 1, "EN", <<"I">>>>, Cases00)  OBVIOUS
<1>6. Twin(<<{\h07}, 1, "DEC", <<"A">>>>, Cases00)  OBVIOUS
<1>7. Twin(<<{\h08}, 1, "INS", <<"A", "BUS">>>>, Cases00)  OBVIOUS
<1>8. Twin(<<{\h09, \h0a}, 1, "IN", <<"A", "P">>>>, Cases00)  OBVIOUS
<1>9. Twin(<<Expander(\h0c), 1, "MOVD", <<"A", "P4">>>>, Cases00)  OBVIOUS
<1>10. Twin(<<Pointers(\h10), 1, "INC", <<"@R">>>>, Cases00)  OBVIOUS
<1>11. Twin(<<Pages(\h12), 2, "JB", <<"bit", "near">>>>, Cases00)  OBVIOUS
<1>12. Twin(<<{\h13}, 2, "ADDC", <<"A", "#">>>>, Cases00)  OBVIOUS
<1>13. Twin(<<Pages(\h14), 2, "CALL", <<"far">>>>, Cases00)  OBVIOUS
<1>14. Twin(<<{\h15}, 1, "DIS", <<"I">>>>, Cases00)  OBVIOUS
<1>15. Twin(<<{\h16}, 2, "JTF", <<"near">>>>, Cases00)  OBVIOUS
<1>16. Twin(<<{\h17}, 1, "INC", <<"A">>>>, Cases00)  OBVIOUS
<1>17. Twin(<<Registers(\h18), 1, "INC", <<"R">>>>, Cases00)  OBVIOUS
<1>18. Twin(<<Pointers(\h20), 1, "XCH", <<"A", "@R">>>>, Cases00)  OBVIOUS
<1>19. Twin(<<{\h23}, 2, "MOV", <<"A", "#">>>>, Cases00)  OBVIOUS
<1>20. Twin(<<{\h25}, 1, "EN", <<"TCNTI">>>>, Cases00)  OBVIOUS
<1>21. Twin(<<{\h26}, 2, "JNT0", <<"near">>>>, Cases00)  OBVIOUS
<1>22. Twin(<<{\h27}, 1, "CLR", <<"A">>>>, Cases00)  OBVIOUS
<1>23. Twin(<<Registers(\h28), 1, "XCH", <<"A", "R">>>>, Cases00)  OBVIOUS
<1> HIDE Readings DEF Twin, Match, Alike, Misread, Place, Forms, Word, Conditional,
           Registers, Rr, Pointers, At, Expander, Pp, Pages, Upper, Cases00
<1>a. \A row \in Rows00 : Twin(row, Cases00)
  BY <1>1, <1>2, <1>3, <1>4, <1>5, <1>6, <1>7, <1>8, <1>9, <1>10, <1>11, <1>12, <1>13, <1>14,
     <1>15, <1>16, <1>17, <1>18, <1>19, <1>20, <1>21, <1>22, <1>23,
     ZenonT(60) DEF Rows00
<1> QED  BY <1>a DEF Twin, Cases

LEMMA Twins30 == \A row \in Rows30 : Twin(row, Cases)
<1> USE Readings DEF Twin, Match, Alike, Misread, Place, Forms, Word, Conditional,
           Registers, Rr, Pointers, At, Expander, Pp, Pages, Upper, Cases30
<1>1. Twin(<<Pointers(\h30), 1, "XCHD", <<"A", "@R">>>>, Cases30)  OBVIOUS
<1>2. Twin(<<{\h35}, 1, "DIS", <<"TCNTI">>>>, Cases30)  OBVIOUS
<1>3. Twin(<<{\h36}, 2, "JT0", <<"near">>>>, Cases30)  OBVIOUS
<1>4. Twin(<<{\h37}, 1, "CPL", <<"A">>>>, Cases30)  OBVIOUS
<1>5. Twin(<<{\h39, \h3a}, 1, "OUTL", <<"P", "A">>>>, Cases30)  OBVIOUS
<1>6. Twin(<<Expander(\h3c), 1, "MOVD", <<"P4", "A">>>>, Cases30)  OBVIOUS
<1>7. Twin(<<Pointers(\h40), 1, "ORL", <<"A", "@R">>>>, Cases30)  OBVIOUS
<1>8. Twin(<<{\h42}, 1, "MOV", <<"A", "T">>>>, Cases30)  OBVIOUS
<1>9. Twin(<<{\h43}, 2, "ORL", <<"A", "#">>>>, Cases30)  OBVIOUS
<1>10. Twin(<<{\h45}, 1, "STRT", <<"CNT">>>>, Cases30)  OBVIOUS
<1>11. Twin(<<{\h46}, 2, "JNT1", <<"near">>>>, Cases30)  OBVIOUS
<1>12. Twin(<<{\h47}, 1, "SWAP", <<"A">>>>, Cases30)  OBVIOUS
<1>13. Twin(<<Registers(\h48), 1, "ORL", <<"A", "R">>>>, Cases30)  OBVIOUS
<1>14. Twin(<<Pointers(\h50), 1, "ANL", <<"A", "@R">>>>, Cases30)  OBVIOUS
<1>15. Twin(<<{\h53}, 2, "ANL", <<"A", "#">>>>, Cases30)  OBVIOUS
<1>16. Twin(<<{\h55}, 1, "STRT", <<"T">>>>, Cases30)  OBVIOUS
<1>17. Twin(<<{\h56}, 2, "JT1", <<"near">>>>, Cases30)  OBVIOUS
<1>18. Twin(<<{\h57}, 1, "DA", <<"A">>>>, Cases30)  OBVIOUS
<1>19. Twin(<<Registers(\h58), 1, "ANL", <<"A", "R">>>>, Cases30)  OBVIOUS
<1> HIDE Readings DEF Twin, Match, Alike, Misread, Place, Forms, Word, Conditional,
           Registers, Rr, Pointers, At, Expander, Pp, Pages, Upper, Cases30
<1>a. \A row \in Rows30 : Twin(row, Cases30)
  BY <1>1, <1>2, <1>3, <1>4, <1>5, <1>6, <1>7, <1>8, <1>9, <1>10, <1>11, <1>12, <1>13, <1>14,
     <1>15, <1>16, <1>17, <1>18, <1>19,
     ZenonT(60) DEF Rows30
<1> QED  BY <1>a DEF Twin, Cases

LEMMA Twins60 == \A row \in Rows60 : Twin(row, Cases)
<1> USE Readings DEF Twin, Match, Alike, Misread, Place, Forms, Word, Conditional,
           Registers, Rr, Pointers, At, Expander, Pp, Pages, Upper, Cases60, Cases90
<1>1. Twin(<<Pointers(\h60), 1, "ADD", <<"A", "@R">>>>, Cases60)  OBVIOUS
<1>2. Twin(<<{\h62}, 1, "MOV", <<"T", "A">>>>, Cases60)  OBVIOUS
<1>3. Twin(<<{\h65}, 1, "STOP", <<"TCNT">>>>, Cases60)  OBVIOUS
<1>4. Twin(<<{\h67}, 1, "RRC", <<"A">>>>, Cases60)  OBVIOUS
<1>5. Twin(<<Registers(\h68), 1, "ADD", <<"A", "R">>>>, Cases60)  OBVIOUS
<1>6. Twin(<<Pointers(\h70), 1, "ADDC", <<"A", "@R">>>>, Cases60)  OBVIOUS
<1>7. Twin(<<{\h75}, 1, "ENT0", <<"CLK">>>>, Cases60)  OBVIOUS
<1>8. Twin(<<{\h76}, 2, "JF1", <<"near">>>>, Cases60)  OBVIOUS
<1>9. Twin(<<{\h77}, 1, "RR", <<"A">>>>, Cases60)  OBVIOUS
<1>10. Twin(<<Registers(\h78), 1, "ADDC", <<"A", "R">>>>, Cases60)  OBVIOUS
<1>11. Twin(<<Pointers(\h80), 1, "MOVX", <<"A", "@R">>>>, Cases60)  OBVIOUS
<1>12. Twin(<<{\h83}, 1, "RET", <<>>>>, Cases60)  OBVIOUS
<1>13. Twin(<<{\h85}, 1, "CLR", <<"F0">>>>, Cases60)  OBVIOUS
<1>14. Twin(<<{\h86}, 2, "JNI", <<"near">>>>, Cases60)  OBVIOUS
<1>15. Twin(<<{\h88}, 2, "ORL", <<"BUS", "#">>>>, Cases60)  OBVIOUS
<1>16. Twin(<<{\h89, \h8a}, 2, "ORL", <<"P", "#">>>>, Cases60)  OBVIOUS
<1>17. Twin(<<Expander(\h8c), 1, "ORLD", <<"P4", "A">>>>, Cases60)  OBVIOUS
<1>18. Twin(<<Pointers(\h90), 1, "MOVX", <<"@R", "A">>>>, Cases90)  OBVIOUS
<1>19. Twin(<<{\h93}, 1, "RETR", <<>>>>, Cases90)  OBVIOUS
<1>20. Twin(<<{\h95}, 1, "CPL", <<"F0">>>>, Cases90)  OBVIOUS
<1>21. Twin(<<{\h96}, 2, "JNZ", <<"near">>>>, Cases90)  OBVIOUS
<1>22. Twin(<<{\h97}, 1, "CLR", <<"C">>>>, Cases90)  OBVIOUS
<1>23. Twin(<<{\h98}, 2, "ANL", <<"BUS", "#">>>>, Cases90)  OBVIOUS
<1>24. Twin(<<{\h99, \h9a}, 2, "ANL", <<"P", "#">>>>, Cases90)  OBVIOUS
<1>25. Twin(<<Expander(\h9c), 1, "ANLD", <<"P4", "A">>>>, Cases90)  OBVIOUS
<1> HIDE Readings DEF Twin, Match, Alike, Misread, Place, Forms, Word, Conditional,
           Registers, Rr, Pointers, At, Expander, Pp, Pages, Upper, Cases60, Cases90
<1>a. \A row \in Rows60 : Twin(row, Cases60) \/ Twin(row, Cases90)
  BY <1>1, <1>2, <1>3, <1>4, <1>5, <1>6, <1>7, <1>8, <1>9, <1>10, <1>11, <1>12, <1>13, <1>14,
     <1>15, <1>16, <1>17, <1>18, <1>19, <1>20, <1>21, <1>22, <1>23, <1>24, <1>25,
     ZenonT(60) DEF Rows60
<1> QED  BY <1>a DEF Twin, Cases

LEMMA TwinsA0 == \A row \in RowsA0 : Twin(row, Cases)
<1> USE Readings DEF Twin, Match, Alike, Misread, Place, Forms, Word, Conditional,
           Registers, Rr, Pointers, At, Expander, Pp, Pages, Upper, CasesA0
<1>1. Twin(<<Pointers(\ha0), 1, "MOV", <<"@R", "A">>>>, CasesA0)  OBVIOUS
<1>2. Twin(<<{\ha3}, 1, "MOVP", <<"A", "@A">>>>, CasesA0)  OBVIOUS
<1>3. Twin(<<{\ha5}, 1, "CLR", <<"F1">>>>, CasesA0)  OBVIOUS
<1>4. Twin(<<{\ha7}, 1, "CPL", <<"C">>>>, CasesA0)  OBVIOUS
<1>5. Twin(<<Registers(\ha8), 1, "MOV", <<"R", "A">>>>, CasesA0)  OBVIOUS
<1>6. Twin(<<Pointers(\hb0), 2, "MOV", <<"@R", "#">>>>, CasesA0)  OBVIOUS
<1>7. Twin(<<{\hb3}, 1, "JMPP", <<"@A">>>>, CasesA0)  OBVIOUS
<1>8. Twin(<<{\hb5}, 1, "CPL", <<"F1">>>>, CasesA0)  OBVIOUS
<1>9. Twin(<<{\hb6}, 2, "JF0", <<"near">>>>, CasesA0)  OBVIOUS
<1>10. Twin(<<Registers(\hb8), 2, "MOV", <<"R", "#">>>>, CasesA0)  OBVIOUS
<1>11. Twin(<<{\hc5}, 1, "SEL", <<"RB0">>>>, CasesA0)  OBVIOUS
<1>12. Twin(<<{\hc6}, 2, "JZ", <<"near">>>>, CasesA0)  OBVIOUS
<1>13. Twin(<<{\hc7}, 1, "MOV", <<"A", "PSW">>>>, CasesA0)  OBVIOUS
<1>14. Twin(<<Registers(\hc8), 1, "DEC", <<"R">>>>, CasesA0)  OBVIOUS
<1> HIDE Readings DEF Twin, Match, Alike, Misread, Place, Forms, Word, Conditional,
           Registers, Rr, Pointers, At, Expander, Pp, Pages, Upper, CasesA0
<1>a. \A row \in RowsA0 : Twin(row, CasesA0)
  BY <1>1, <1>2, <1>3, <1>4, <1>5, <1>6, <1>7, <1>8, <1>9, <1>10, <1>11, <1>12, <1>13, <1>14,
     ZenonT(60) DEF RowsA0
<1> QED  BY <1>a DEF Twin, Cases

LEMMA TwinsD0 == \A row \in RowsD0 : Twin(row, Cases)
<1> USE Readings DEF Twin, Match, Alike, Misread, Place, Forms, Word, Conditional,
           Registers, Rr, Pointers, At, Expander, Pp, Pages, Upper, CasesD0
<1>1. Twin(<<Pointers(\hd0), 1, "XRL", <<"A", "@R">>>>, CasesD0)  OBVIOUS
<1>2. Twin(<<{\hd3}, 2, "XRL", <<"A", "#">>>>, CasesD0)  OBVIOUS
<1>3. Twin(<<{\hd5}, 1, "SEL", <<"RB1">>>>, CasesD0)  OBVIOUS
<1>4. Twin(<<{\hd7}, 1, "MOV", <<"PSW", "A">>>>, CasesD0)  OBVIOUS
<1>5. Twin(<<Registers(\hd8), 1, "XRL", <<"A", "R">>>>, CasesD0)  OBVIOUS
<1>6. Twin(<<{\he3}, 1, "MOVP3", <<"A", "@A">>>>, CasesD0)  OBVIOUS
<1>7. Twin(<<{\he5}, 1, "SEL", <<"MB0">>>>, CasesD0)  OBVIOUS
<1>8. Twin(<<{\he6}, 2, "JNC", <<"near">>>>, CasesD0)  OBVIOUS
<1>9. Twin(<<{\he7}, 1, "RL", <<"A">>>>, CasesD0)  OBVIOUS
<1>10. Twin(<<Registers(\he8), 2, "DJNZ", <<"R", "near">>>>, CasesD0)  OBVIOUS
<1>11. Twin(<<Pointers(\hf0), 1, "MOV", <<"A", "@R">>>>, CasesD0)  OBVIOUS
<1>12. Twin(<<{\hf5}, 1, "SEL", <<"MB1">>>>, CasesD0)  OBVIOUS
<1>13. Twin(<<{\hf6}, 2, "JC", <<"near">>>>, CasesD0)  OBVIOUS
<1>14. Twin(<<{\hf7}, 1, "RLC", <<"A">>>>, CasesD0)  OBVIOUS
<1>15. Twin(<<Registers(\hf8), 1, "MOV", <<"A", "R">>>>, CasesD0)  OBVIOUS
<1> HIDE Readings DEF Twin, Match, Alike, Misread, Place, Forms, Word, Conditional,
           Registers, Rr, Pointers, At, Expander, Pp, Pages, Upper, CasesD0
<1>a. \A row \in RowsD0 : Twin(row, CasesD0)
  BY <1>1, <1>2, <1>3, <1>4, <1>5, <1>6, <1>7, <1>8, <1>9, <1>10, <1>11, <1>12, <1>13, <1>14,
     <1>15,
     ZenonT(60) DEF RowsD0
<1> QED  BY <1>a DEF Twin, Cases

\* Every row of the text has its case.
LEMMA Twins == \A row \in Rows : Twin(row, Cases)
<1>1. Twin(<<Illegal, 1, ".DB", <<"op">>>>, CasesIllegal)
  BY Readings DEF Twin, Match, Alike, Misread, Place, Forms, Word, Conditional, Illegal,
                  Undefined, CasesIllegal
<1>2. \A row \in RowsDB : Twin(row, Cases)
  BY <1>1 DEF RowsDB, Twin, Cases
<1> QED BY <1>2, Twins00, Twins30, Twins60, TwinsA0, TwinsD0 DEF Rows

\* So the text and the case of an opcode match.
LEMMA TablesAgree ==
  ASSUME NEW op \in 0..255
  PROVE  Match(Text[op], Case[op]) /\ op \in Case[op][1]
<1>1. /\ \E row \in Rows : op \in row[1]
      /\ \E case \in Cases : \A other \in Cases : op \in other[1] <=> other = case
  BY TablesOK DEF OneRow
<1>2. Text[op] = CHOOSE row \in Rows : op \in row[1]
  BY DEF Text
<1>3. Case[op] = CHOOSE row \in Cases : op \in row[1]
  BY DEF Case
<1> HIDE DEF Text, Case
<1>4. Text[op] \in Rows /\ op \in Text[op][1]
  BY <1>1, <1>2
<1>5. Case[op] \in Cases /\ op \in Case[op][1]
  BY <1>1, <1>3
<1>6. PICK case \in Cases : Match(Text[op], case)
  BY <1>4, Twins DEF Twin
<1>7. op \in case[1]
  BY <1>4, <1>6 DEF Match
<1>8. case = Case[op]
  BY <1>1, <1>5, <1>7
<1> QED  BY <1>5, <1>6, <1>8

LEMMA OpFacts ==
  ASSUME NEW op \in 0..255
  PROVE  /\ Text[op][2] = Bytes(op) /\ Bytes(op) \in {1, 2}
         /\ Effect(op) \in Conditional \cup {"jump", "call"} => Bytes(op) = 2
BY TablesAgree DEF Match, Bytes, Effect

-----------------------------------------------------------------------------
(* The text is what is executed.                                           *)

\* Each line is the text of the bytes at its place, and an instruction under way is that of
\* the bytes at from.
ShownInv ==
    /\ rom \in [0..Size - 1 -> 0..255] /\ pos \in Nat /\ pc \in Nat /\ frame \in Nat
    /\ saved[1] \in Nat
    /\ \A addr \in DOMAIN lines : lines[addr] = Line(addr, rom[addr], ByteAt(addr + 1))
    /\ cpu \in {"operand", "execute"} => from \in 0..Size - 1
    /\ cpu = "operand" => pc = from + 1 /\ Bytes(rom[from]) = 2
    /\ cpu = "execute" => pc = from + Bytes(rom[from])
    /\ cpu = "execute" /\ Bytes(rom[from]) = 2 => data = ByteAt(from + 1)

\* Two addresses side by side are in one page, unless a page ends between them.
LEMMA SamePageNext ==
  ASSUME NEW addr \in Nat, (addr + 1) % Page /= 0
  PROVE  PageOf(addr + 1) = PageOf(addr)
<1> DEFINE q == addr \div Page
           r == addr % Page
<1>1. Page \in Nat \ {0}
  BY DisassemblyOK
<1>2. q \in Nat /\ r \in 0..Page - 1 /\ addr = Page * q + r
  BY <1>1
<1> HIDE DEF q, r
<1>3. CASE r + 1 < Page
  <2>1. addr + 1 = Page * q + (r + 1) /\ r + 1 \in 0..Page - 1
    BY <1>1, <1>2, <1>3
  <2>2. (addr + 1) \div Page = q
    BY <1>1, <1>2, <2>1
  <2> QED  BY <2>2 DEF PageOf, q
<1>4. CASE r + 1 = Page
  <2>1. addr + 1 = Page * (q + 1)
    BY <1>1, <1>2, <1>4
  <2>2. (addr + 1) % Page = 0
    BY <1>1, <1>2, <2>1
  <2> QED  BY <2>2
<1> QED  BY <1>1, <1>2, <1>3, <1>4

\* A form of the text and its place mean the same.
LEMMA FormMeansPlace ==
  ASSUME NEW form \in Forms, NEW name, NEW op \in 0..255, NEW start \in Nat, NEW byte, NEW val,
         dbf \in {0, 1},
         form = "#" \/ form = "near" \/ form = "far" => val = byte,
         form = "near" => (start + 1) % Page /= 0 /\ pc = start + 2,
         form = "far" => dbf = 0,
         form = "P" /\ name \in {"IN", "OUTL"} => op \in {9, 57}
  PROVE  Resolved(Place(form, name), pc, dbf, op, val) = Meaning(Operand(form, start, op, byte))
<1>1. CASE form \in {"R", "@R", "P4", "BUS", "bit", "op"}
  BY <1>1 DEF Place, Resolved, Operand, Meaning
<1>2. CASE form = "P"
  <2>1. op \in {9, 57} => op % 2 = 1 /\ op % 4 = 1
    OBVIOUS
  <2> QED  BY <1>2, <2>1 DEF Place, Resolved, Operand, Meaning
<1>3. CASE form = "#"
  BY <1>3 DEF Place, Resolved, Operand, Meaning
<1>4. CASE form = "near"
  <2>1. pc - 1 = start + 1 /\ PageOf(start + 1) = PageOf(start)
    BY <1>4, SamePageNext
  <2>2. Near(pc, val) = PageAddress(start, byte)
    BY <1>4, <2>1 DEF Near, PageAddress
  <2> QED  BY <1>4, <2>2 DEF Place, Resolved, Operand, Meaning
<1>5. CASE form = "far"
  <2>1. Far(dbf, op, val) = FarAddress(op, byte)
    BY <1>5 DEF Far, FarAddress
  <2> QED  BY <1>5, <2>1 DEF Place, Resolved, Operand, Meaning
<1>6. CASE form = "@A"
  BY <1>6 DEF Place, Resolved, Operand, Meaning
<1>7. CASE form \in DOMAIN Word
  <2>1. form \in {"A", "T", "C", "I", "TCNTI", "CNT", "TCNT", "PSW", "F0", "F1", "RB0", "RB1",
                  "MB0", "MB1"}
    BY <1>7 DEF Word
  <2>2. Word[form] \in {"a", "t", "carry", "external", "tcnt", "counter", "both", "psw",
                        "f0", "f1", "bank0", "bank1", "memory0", "memory1"}
    BY <2>1 DEF Word
  <2>3. Place(form, name) = Word[form]
    BY <2>1 DEF Place
  <2>4. Resolved(Word[form], pc, dbf, op, val) = <<Word[form]>>
    BY <2>2 DEF Resolved
  <2>5. Operand(form, start, op, byte) = <<form>>
    BY <2>1 DEF Operand
  <2>6. Meaning(<<form>>) = <<Word[form]>>
    BY <2>1 DEF Meaning
  <2> QED  BY <2>3, <2>4, <2>5, <2>6
<1> QED  BY <1>1, <1>2, <1>3, <1>4, <1>5, <1>6, <1>7 DEF Forms

LEMMA ShownInit == Init => ShownInv
BY DisassemblyOK DEF Init, ShownInv

LEMMA ShownNow == ShownInv /\ dbf \in {0, 1} => ShownIsExecuted
<1> SUFFICES ASSUME ShownInv, dbf \in {0, 1}, cpu = "execute", from \in DOMAIN lines
             PROVE  LET line == lines[from]  op == rom[from]
                    IN  /\ pc = from + line.bytes
                        /\ op \in Misread \/ Effect(op) = Reads(line.opcode)
                        /\ \/ Differs(op)
                           \/ Places(op, pc, dbf, data)
                                = [i \in DOMAIN line.args |-> Meaning(line.args[i])]
  BY DEF ShownIsExecuted
<1> DEFINE op == rom[from]
           row == Text[op]
           case == Case[op]
           byte == ByteAt(from + 1)
           line == lines[from]
<1>1. from \in 0..Size - 1 /\ op \in 0..255
  BY DEF ShownInv
<1>2. Match(row, case) /\ op \in case[1]
  BY <1>1, TablesAgree
<1>3. line = Line(from, op, byte) /\ pc = from + case[2] /\ (case[2] = 2 => data = byte)
  BY DEF ShownInv, Bytes
<1>4. Effect(op) = case[3]
  BY DEF Effect
<1>5. ASSUME ~Differs(op)
      PROVE  /\ op \notin {10, 58, 117}
             /\ case[3] \in Conditional => (from + 1) % Page /= 0
             /\ case[3] \in {"jump", "call"} => dbf = 0
  BY <1>5 DEF Differs, Effect
<1> HIDE DEF op, row, case, byte, line
<1>6. line.bytes = row[2] /\ line.opcode = row[3]
      /\ line.args = [i \in DOMAIN row[4] |-> Operand(row[4][i], from, op, byte)]
  BY <1>3 DEF Line, row
<1>7. ASSUME ~Differs(op), NEW i \in DOMAIN row[4]
      PROVE  Resolved(case[4][i], pc, dbf, op, data) = Meaning(Operand(row[4][i], from, op, byte))
  <2>a. Alike(row, case)
    BY <1>2, <1>5, <1>7 DEF Match
  <2>1. /\ row[4][i] \in Forms /\ case[4][i] = Place(row[4][i], row[3])
        /\ row[4][i] = "#" => case[2] = 2
        /\ row[4][i] = "near" => case[3] \in Conditional /\ case[2] = 2
        /\ row[4][i] = "far" => case[3] \in {"jump", "call"} /\ case[2] = 2
        /\ row[4][i] = "P" /\ row[3] \in {"IN", "OUTL"} => op \in {9, 10, 57, 58}
    BY <1>2, <2>a DEF Match, Alike
  <2> DEFINE form == row[4][i]
  <2>2. from \in Nat
    BY <1>1
  <2>3. form = "#" \/ form = "near" \/ form = "far" => data = byte
    BY <1>3, <2>1
  <2>4. form = "near" => (from + 1) % Page /= 0 /\ pc = from + 2
    BY <1>3, <1>5, <1>7, <2>1
  <2>5. form = "far" => dbf = 0
    BY <1>5, <1>7, <2>1
  <2>6. form = "P" /\ row[3] \in {"IN", "OUTL"} => op \in {9, 57}
    BY <1>5, <1>7, <2>1
  <2>7. form \in Forms /\ case[4][i] = Place(form, row[3])
    BY <2>1
  <2> HIDE DEF form
  <2>8. Resolved(Place(form, row[3]), pc, dbf, op, data) = Meaning(Operand(form, from, op, byte))
    BY <1>1, <2>2, <2>3, <2>4, <2>5, <2>6, <2>7, FormMeansPlace, SMTT(30)
  <2> QED  BY <2>7, <2>8 DEF form
<1>8. ASSUME ~Differs(op)
      PROVE  Places(op, pc, dbf, data) = [i \in DOMAIN line.args |-> Meaning(line.args[i])]
  <2>1. DOMAIN case[4] = DOMAIN row[4]
    BY <1>2, <1>5, <1>8 DEF Match, Alike
  <2>2. Places(op, pc, dbf, data)
          = [i \in DOMAIN row[4] |-> Resolved(case[4][i], pc, dbf, op, data)]
    BY <2>1 DEF Places, case
  <2>3. [i \in DOMAIN line.args |-> Meaning(line.args[i])]
          = [i \in DOMAIN row[4] |-> Meaning(Operand(row[4][i], from, op, byte))]
    BY <1>6
  <2> QED  BY <1>7, <1>8, <2>2, <2>3
<1>9. pc = from + line.bytes
  BY <1>2, <1>3, <1>6 DEF Match
<1>10. op \in Misread \/ Effect(op) = Reads(line.opcode)
  BY <1>2, <1>4, <1>6 DEF Match
<1> QED  BY <1>8, <1>9, <1>10 DEF op, line

\* What the CPU works with are addresses and bytes.
LEMMA ByteFacts ==
  ASSUME rom \in [0..Size - 1 -> 0..255], NEW addr \in Nat
  PROVE  ByteAt(addr) \in 0..255
BY DisassemblyOK DEF ByteAt, Byte

LEMMA AddressFacts ==
  ASSUME NEW n \in Nat, NEW d \in Nat
  PROVE  PageOf(n) \in Nat /\ InPage(n, d) \in Nat
<1>1. Page \in Nat \ {0}
  BY DisassemblyOK
<1>2. n \div Page \in Nat /\ d % Page \in Nat
  BY <1>1
<1> DEFINE m == d % Page
<1> HIDE DEF m
<1>3. Page * n + m \in Nat
  BY <1>1, <1>2 DEF m
<1> QED  BY <1>2, <1>3 DEF PageOf, InPage, m

\* Where an instruction may lead is an address.
LEMMA GoesAddress ==
  ASSUME rom \in [0..Size - 1 -> 0..255], NEW op \in 0..255, NEW next \in Nat \ {0},
         NEW bank \in {0, 1}, NEW operand \in 0..255,
         NEW to \in Goes(rom, op, next, bank, operand)
  PROVE  to \in Nat
<1>1. CASE to = Far(bank, op, operand)
  <2> DEFINE page == 8 * bank + (op \div 32)
  <2>1. page \in Nat /\ operand \in Nat
    OBVIOUS
  <2>2. to = InPage(page, operand)
    BY <1>1 DEF Far
  <2> HIDE DEF page
  <2> QED  BY <2>1, <2>2, AddressFacts
<1>2. CASE to = Near(next, operand)
  <2> DEFINE last == next - 1
  <2>1. last \in Nat /\ operand \in Nat
    OBVIOUS
  <2>2. to = InPage(PageOf(last), operand)
    BY <1>2 DEF Near
  <2> HIDE DEF last
  <2>3. PageOf(last) \in Nat
    BY <2>1, AddressFacts
  <2> QED  BY <2>1, <2>2, <2>3, AddressFacts
<1>3. CASE \E a \in SamePage(next) : to = InPage(PageOf(next), Byte(rom, a))
  <2>1. PICK a \in SamePage(next) : to = InPage(PageOf(next), Byte(rom, a))
    BY <1>3
  <2>2. PageOf(next) \in Nat
    BY AddressFacts
  <2>3. a \in Nat
    <3>1. PICK n \in 0..Page - 1 : a = InPage(PageOf(next), n)
      BY DEF SamePage
    <3>2. n \in Nat
      BY DisassemblyOK
    <3> QED  BY <2>2, <3>1, <3>2, AddressFacts
  <2> DEFINE byte == Byte(rom, a)
             page == PageOf(next)
  <2>4. to = InPage(page, byte) /\ page \in Nat
    BY <2>1, <2>2
  <2>5. byte \in 0..255
    BY <2>3, ByteFacts DEF ByteAt
  <2> HIDE DEF byte, page
  <2>6. byte \in Nat
    BY <2>5
  <2> QED  BY <2>4, <2>6, AddressFacts
<1>4. CASE to = next
  BY <1>4
<1>5. Goes(rom, op, next, bank, operand) \subseteq
        {Far(bank, op, operand), Near(next, operand), next}
          \cup {InPage(PageOf(next), Byte(rom, a)) : a \in SamePage(next)}
  BY DEF Goes
<1> QED  BY <1>1, <1>2, <1>3, <1>4, <1>5

\* The CPU fetches the bytes that the sweep has read.
CpuInv == ShownInv /\ dbf \in {0, 1} /\ saved[2] \in {0, 1} /\ data \in 0..255

LEMMA ShownStep == CpuInv /\ [Next]_vars => CpuInv'
<1> SUFFICES ASSUME CpuInv, [Next]_vars PROVE CpuInv'
  OBVIOUS
<1> USE DEF CpuInv
<1>1. CASE Disassemble
  <2>1. pos \in 0..Size - 1 /\ UNCHANGED <<rom, cpuVars, saved>>
    BY <1>1, DisassemblyOK DEF Disassemble, ShownInv
  <2>2. rom[pos] \in 0..255
    BY <2>1 DEF ShownInv
  <2>3. pos' \in Nat
    <3>1. Text[rom[pos]][2] \in {1, 2}
      BY <2>2, OpFacts
    <3> QED  BY <1>1, <2>1, <3>1 DEF Disassemble, Advance
  <2>4. \A addr \in DOMAIN lines' : lines'[addr] = Line(addr, rom[addr], ByteAt(addr + 1))
    BY <1>1 DEF Disassemble, Extended, ShownInv
  <2>5. \A addr : ByteAt(addr)' = ByteAt(addr)
    BY <2>1 DEF ByteAt, Byte
  <2> QED  BY <2>1, <2>3, <2>4, <2>5 DEF ShownInv, cpuVars
<1>2. CASE ~Disassemble
  <2>1. UNCHANGED <<rom, pos, lines>>
    BY <1>2 DEF Next, Begin, Abort, FetchOperand, Execute, Start, Stop, Reset, SaveState,
                LoadState, Handle, Dead, vars, viewVars, cpuVars
  <2>2. \A addr : ByteAt(addr)' = ByteAt(addr)
    BY <2>1 DEF ByteAt, Byte
  <2> USE <2>1, <2>2 DEF ShownInv
  <2>3. CASE Begin
    <3>1. CASE pc >= Size
      BY <2>3, <3>1 DEF Begin, Abort
    <3>2. CASE ~(pc >= Size)
      <4>1. pc \in 0..Size - 1 /\ rom[pc] \in 0..255
        BY <3>2, DisassemblyOK
      <4>2. Bytes(rom[pc]) \in {1, 2}
        BY <4>1, OpFacts
      <4> QED  BY <2>3, <3>2, <4>1, <4>2 DEF Begin
    <3> QED  BY <3>1, <3>2
  <2>4. CASE FetchOperand
    <3>1. CASE pc >= Size
      BY <2>4, <3>1 DEF FetchOperand, Abort
    <3>2. CASE ~(pc >= Size)
      <4>1. pc \in 0..Size - 1 /\ pc = from + 1 /\ Bytes(rom[from]) = 2
        BY <2>4, <3>2, DisassemblyOK DEF FetchOperand
      <4>2. rom[pc] = ByteAt(from + 1)
        <5>1. pc < Size
          BY <4>1, DisassemblyOK
        <5> QED  BY <4>1, <5>1 DEF ByteAt, Byte
      <4>3. rom[pc] \in 0..255
        BY <4>1
      <4> QED  BY <2>4, <3>2, <4>1, <4>2, <4>3 DEF FetchOperand
    <3> QED  BY <3>1, <3>2
  <2>5. CASE Execute
    <3> DEFINE op == rom[from]
               called == IF Effect(op) = "call" THEN pc ELSE frame
    <3>1. op \in 0..255 /\ from \in Nat
      <4>1. from \in 0..Size - 1 /\ Size \in Nat
        BY <2>5, DisassemblyOK DEF Execute
      <4>2. op \in 0..255
        BY <4>1
      <4> HIDE DEF op
      <4> QED  BY <4>1, <4>2
    <3>2. Bytes(op) \in {1, 2}
      BY <3>1, OpFacts
    <3>3. pc \in Nat \ {0}
      BY <2>5, <3>1, <3>2 DEF Execute
    <3>4. \A to \in Goes(rom, op, pc, dbf, data) : to \in Nat
      <4> HIDE DEF op
      <4> QED  BY <3>1, <3>3, GoesAddress
    <3>5. PICK next \in IF Effect(op) \in Returns THEN {frame}
                                                  ELSE Goes(rom, op, pc, dbf, data) :
             \/ pc' = next /\ frame' = called
             \/ pc' \in Vectors /\ frame' = next
      BY <2>5 DEF Execute
    <3>6. next \in Nat /\ called \in Nat
      BY <3>4, <3>5
    <3>7. pc' \in Nat /\ frame' \in Nat
      <4> HIDE DEF op, called
      <4>1. Vectors \subseteq Nat
        BY DisassemblyOK
      <4> QED  BY <3>5, <3>6, <4>1
    <3>8. /\ cpu' = "rest" /\ UNCHANGED saved /\ data' = 0 /\ dbf' \in {0, 1}
      BY <2>5 DEF Execute
    <3> QED  BY <3>7, <3>8
  <2>6. CASE Start \/ Stop \/ Handle \/ Dead \/ UNCHANGED vars
    BY <2>6 DEF Start, Stop, Handle, Dead, vars, viewVars, cpuVars
  <2>7. CASE Reset
    BY <2>7 DEF Reset
  <2>8. CASE LoadState
    BY <2>8 DEF LoadState
  <2>9. CASE SaveState
    BY <2>9 DEF SaveState, viewVars, cpuVars
  <2> QED  BY <1>2, <2>3, <2>4, <2>5, <2>6, <2>7, <2>8, <2>9 DEF Next
<1> QED  BY <1>1, <1>2

\* For every ROM, size of a page and byte, the line at which the CPU executes tells what it
\* executes (disassembler.cpp:62-551, intel8049.cpp:62-863).
THEOREM TextIsExecuted == Spec => []ShownIsExecuted
<1>1. Init => CpuInv
  BY ShownInit DEF Init, CpuInv
<1>2. CpuInv => ShownIsExecuted
  BY ShownNow DEF CpuInv
<1> QED  BY <1>1, <1>2, ShownStep, PTL DEF Spec

-----------------------------------------------------------------------------
(* Instructions start where lines start.                                   *)

\* Code is not left: pc is in it whenever an instruction is about to start, and so is every
\* address kept for later.
CodeInv ==
    /\ rom \in Roms
    /\ cpu = "rest" => pc \in Code[rom]
    /\ cpu \in {"operand", "execute"} => from \in Code[rom]
    /\ frame \in Code[rom] /\ saved[1] \in Code[rom]

LEMMA CodeInit == Init => CodeInv
BY CodeOK DEF Init, CodeInv

\* An instruction of the code goes to where Leads says, or back to the last frame.
LEMMA GoesInCode ==
  ASSUME CpuInv, CodeInv, cpu = "execute"
  PROVE  LET op == rom[from]
         IN  /\ Effect(op) \notin Returns => Goes(rom, op, pc, dbf, data) \subseteq Code[rom]
             /\ Effect(op) = "call" => pc \in Code[rom]
<1> DEFINE op == rom[from]
<1>1. from \in 0..Size - 1 /\ op \in 0..255 /\ pc = from + Bytes(op)
  BY DEF CpuInv, ShownInv
<1>2. Leads(rom, from) \subseteq Code[rom]
  <2>1. from \in Code[rom] /\ rom \in Roms /\ from < Size
    BY <1>1, DisassemblyOK DEF CodeInv
  <2> QED  BY <2>1, CodeOK
<1>3. Effect(op) \in Conditional \cup {"jump", "call"} => data = Byte(rom, from + 1)
  BY <1>1, OpFacts DEF CpuInv, ShownInv, ByteAt
<1>4. dbf \in {0, 1}
  BY DEF CpuInv
<1> DEFINE operand == Byte(rom, from + 1)
<1>5. Goes(rom, op, pc, dbf, data) = Goes(rom, op, pc, dbf, operand)
  <2> HIDE DEF op, operand
  <2> QED  BY <1>3 DEF Goes, op, operand
<1>6. Effect(op) \notin Returns => Goes(rom, op, pc, dbf, operand) \subseteq Leads(rom, from)
  BY <1>1, <1>4 DEF Leads
<1>7. Effect(op) = "call" => pc \in Leads(rom, from)
  BY <1>1 DEF Leads
<1> QED  BY <1>2, <1>5, <1>6, <1>7

LEMMA CodeStep == CpuInv /\ CodeInv /\ [Next]_vars => CodeInv'
<1> SUFFICES ASSUME CpuInv, CodeInv, [Next]_vars PROVE CodeInv'
  OBVIOUS
<1> USE DEF CodeInv
<1>1. CASE Disassemble
  BY <1>1 DEF Disassemble, cpuVars
<1>2. CASE Begin
  BY <1>2 DEF Begin, Abort, viewVars
<1>3. CASE FetchOperand
  BY <1>3 DEF FetchOperand, Abort, viewVars
<1>4. CASE Execute
  <2> DEFINE op == rom[from]
             called == IF Effect(op) = "call" THEN pc ELSE frame
  <2>1. /\ Effect(op) \notin Returns => Goes(rom, op, pc, dbf, data) \subseteq Code[rom]
        /\ Effect(op) = "call" => pc \in Code[rom]
    BY <1>4, GoesInCode DEF Execute
  <2>2. PICK next \in IF Effect(op) \in Returns THEN {frame}
                                                ELSE Goes(rom, op, pc, dbf, data) :
           \/ pc' = next /\ frame' = called
           \/ pc' \in Vectors /\ frame' = next
    BY <1>4 DEF Execute
  <2>3. next \in Code[rom] /\ called \in Code[rom]
    BY <2>1, <2>2
  <2>4. Vectors \subseteq Code[rom]
    BY CodeOK
  <2>5. pc' \in Code[rom] /\ frame' \in Code[rom]
    BY <2>2, <2>3, <2>4
  <2> QED  BY <1>4, <2>5 DEF Execute
<1>5. CASE Start \/ Stop \/ Handle \/ Dead \/ UNCHANGED vars
  BY <1>5 DEF Start, Stop, Handle, Dead, vars, viewVars, cpuVars
<1>6. CASE Reset
  BY <1>6, CodeOK DEF Reset
<1>7. CASE SaveState
  BY <1>7 DEF SaveState, viewVars, cpuVars
<1>8. CASE LoadState
  BY <1>8 DEF LoadState
<1> QED  BY <1>1, <1>2, <1>3, <1>4, <1>5, <1>6, <1>7, <1>8 DEF Next

\* For every ROM whose code the sweep has found, data between the instructions or not, every
\* instruction starts at a line, along every path, whatever interrupts it and whatever state
\* is loaded (i8049disassemblywidget.cpp:91-97, intel8049.cpp:887-893).
THEOREM InstructionsAreLines == Spec => []InStep
<1>1. Init => CpuInv /\ CodeInv
  BY ShownInit, CodeInit DEF Init, CpuInv
<1>2. CpuInv /\ CodeInv => InStep
  BY DEF CodeInv, InStep, Swept
<1> QED  BY <1>1, <1>2, ShownStep, CodeStep, PTL DEF Spec
=============================================================================
