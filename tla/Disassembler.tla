---------------------------- MODULE Disassembler ----------------------------
(***************************************************************************)
(* util/disassembler.cpp: what the text of an instruction says.  A row is  *)
(*   <<opcodes, bytes, mnemonic, operands>>                                *)
(* An operand is a word of the text or one of the forms that Operand       *)
(* resolves.  How a text is laid out is left out.                          *)
(***************************************************************************)
EXTENDS ProgramMemory

\* The opcodes of a family: eight registers, two pointers, four ports of the expander,
\* eight pages.
Registers(op) == op..op + 7
Pointers(op)  == {op, op + 1}
Expander(op)  == op..op + 3
Pages(op)     == {op + 32 * i : i \in 0..7}

Rows00 ==
    {<<{\h00}, 1, "NOP", <<>>>>,
     <<{\h02}, 1, "OUTL", <<"BUS", "A">>>>,
     <<{\h03}, 2, "ADD", <<"A", "#">>>>,
     <<Pages(\h04), 2, "JMP", <<"far">>>>,
     <<{\h05}, 1, "EN", <<"I">>>>,
     <<{\h07}, 1, "DEC", <<"A">>>>,
     <<{\h08}, 1, "INS", <<"A", "BUS">>>>,
     <<{\h09, \h0a}, 1, "IN", <<"A", "P">>>>,
     <<Expander(\h0c), 1, "MOVD", <<"A", "P4">>>>,
     <<Pointers(\h10), 1, "INC", <<"@R">>>>,
     <<Pages(\h12), 2, "JB", <<"bit", "near">>>>,
     <<{\h13}, 2, "ADDC", <<"A", "#">>>>,
     <<Pages(\h14), 2, "CALL", <<"far">>>>,
     <<{\h15}, 1, "DIS", <<"I">>>>,
     <<{\h16}, 2, "JTF", <<"near">>>>,
     <<{\h17}, 1, "INC", <<"A">>>>,
     <<Registers(\h18), 1, "INC", <<"R">>>>,
     <<Pointers(\h20), 1, "XCH", <<"A", "@R">>>>,
     <<{\h23}, 2, "MOV", <<"A", "#">>>>,
     <<{\h25}, 1, "EN", <<"TCNTI">>>>,
     <<{\h26}, 2, "JNT0", <<"near">>>>,
     <<{\h27}, 1, "CLR", <<"A">>>>,
     <<Registers(\h28), 1, "XCH", <<"A", "R">>>>}

Rows30 ==
    {<<Pointers(\h30), 1, "XCHD", <<"A", "@R">>>>,
     <<{\h35}, 1, "DIS", <<"TCNTI">>>>,
     <<{\h36}, 2, "JT0", <<"near">>>>,
     <<{\h37}, 1, "CPL", <<"A">>>>,
     <<{\h39, \h3a}, 1, "OUTL", <<"P", "A">>>>,
     <<Expander(\h3c), 1, "MOVD", <<"P4", "A">>>>,
     <<Pointers(\h40), 1, "ORL", <<"A", "@R">>>>,
     <<{\h42}, 1, "MOV", <<"A", "T">>>>,
     <<{\h43}, 2, "ORL", <<"A", "#">>>>,
     <<{\h45}, 1, "STRT", <<"CNT">>>>,
     <<{\h46}, 2, "JNT1", <<"near">>>>,
     <<{\h47}, 1, "SWAP", <<"A">>>>,
     <<Registers(\h48), 1, "ORL", <<"A", "R">>>>,
     <<Pointers(\h50), 1, "ANL", <<"A", "@R">>>>,
     <<{\h53}, 2, "ANL", <<"A", "#">>>>,
     <<{\h55}, 1, "STRT", <<"T">>>>,
     <<{\h56}, 2, "JT1", <<"near">>>>,
     <<{\h57}, 1, "DA", <<"A">>>>,
     <<Registers(\h58), 1, "ANL", <<"A", "R">>>>}

Rows60 ==
    {<<Pointers(\h60), 1, "ADD", <<"A", "@R">>>>,
     <<{\h62}, 1, "MOV", <<"T", "A">>>>,
     <<{\h65}, 1, "STOP", <<"TCNT">>>>,
     <<{\h67}, 1, "RRC", <<"A">>>>,
     <<Registers(\h68), 1, "ADD", <<"A", "R">>>>,
     <<Pointers(\h70), 1, "ADDC", <<"A", "@R">>>>,
     <<{\h75}, 1, "ENT0", <<"CLK">>>>,
     <<{\h76}, 2, "JF1", <<"near">>>>,
     <<{\h77}, 1, "RR", <<"A">>>>,
     <<Registers(\h78), 1, "ADDC", <<"A", "R">>>>,
     <<Pointers(\h80), 1, "MOVX", <<"A", "@R">>>>,
     <<{\h83}, 1, "RET", <<>>>>,
     <<{\h85}, 1, "CLR", <<"F0">>>>,
     <<{\h86}, 2, "JNI", <<"near">>>>,
     <<{\h88}, 2, "ORL", <<"BUS", "#">>>>,
     <<{\h89, \h8a}, 2, "ORL", <<"P", "#">>>>,
     <<Expander(\h8c), 1, "ORLD", <<"P4", "A">>>>,
     <<Pointers(\h90), 1, "MOVX", <<"@R", "A">>>>,
     <<{\h93}, 1, "RETR", <<>>>>,
     <<{\h95}, 1, "CPL", <<"F0">>>>,
     <<{\h96}, 2, "JNZ", <<"near">>>>,
     <<{\h97}, 1, "CLR", <<"C">>>>,
     <<{\h98}, 2, "ANL", <<"BUS", "#">>>>,
     <<{\h99, \h9a}, 2, "ANL", <<"P", "#">>>>,
     <<Expander(\h9c), 1, "ANLD", <<"P4", "A">>>>}

RowsA0 ==
    {<<Pointers(\ha0), 1, "MOV", <<"@R", "A">>>>,
     <<{\ha3}, 1, "MOVP", <<"A", "@A">>>>,
     <<{\ha5}, 1, "CLR", <<"F1">>>>,
     <<{\ha7}, 1, "CPL", <<"C">>>>,
     <<Registers(\ha8), 1, "MOV", <<"R", "A">>>>,
     <<Pointers(\hb0), 2, "MOV", <<"@R", "#">>>>,
     <<{\hb3}, 1, "JMPP", <<"@A">>>>,
     <<{\hb5}, 1, "CPL", <<"F1">>>>,
     <<{\hb6}, 2, "JF0", <<"near">>>>,
     <<Registers(\hb8), 2, "MOV", <<"R", "#">>>>,
     <<{\hc5}, 1, "SEL", <<"RB0">>>>,
     <<{\hc6}, 2, "JZ", <<"near">>>>,
     <<{\hc7}, 1, "MOV", <<"A", "PSW">>>>,
     <<Registers(\hc8), 1, "DEC", <<"R">>>>}

RowsD0 ==
    {<<Pointers(\hd0), 1, "XRL", <<"A", "@R">>>>,
     <<{\hd3}, 2, "XRL", <<"A", "#">>>>,
     <<{\hd5}, 1, "SEL", <<"RB1">>>>,
     <<{\hd7}, 1, "MOV", <<"PSW", "A">>>>,
     <<Registers(\hd8), 1, "XRL", <<"A", "R">>>>,
     <<{\he3}, 1, "MOVP3", <<"A", "@A">>>>,
     <<{\he5}, 1, "SEL", <<"MB0">>>>,
     <<{\he6}, 2, "JNC", <<"near">>>>,
     <<{\he7}, 1, "RL", <<"A">>>>,
     <<Registers(\he8), 2, "DJNZ", <<"R", "near">>>>,
     <<Pointers(\hf0), 1, "MOV", <<"A", "@R">>>>,
     <<{\hf5}, 1, "SEL", <<"MB1">>>>,
     <<{\hf6}, 2, "JC", <<"near">>>>,
     <<{\hf7}, 1, "RLC", <<"A">>>>,
     <<Registers(\hf8), 1, "MOV", <<"A", "R">>>>}

\* Bytes that are no instruction.
Illegal == {\h01, \h06, \h0b, \h22, \h33, \h38, \h3b, \h63, \h66, \h73, \h82, \h87, \h8b,
            \h9b, \ha2, \ha6, \hb7, \hc0, \hc1, \hc2, \hc3, \hd6, \he0, \he1, \he2, \hf3}
RowsDB == {<<Illegal, 1, ".DB", <<"op">>>>}

Rows == Rows00 \cup Rows30 \cup Rows60 \cup RowsA0 \cup RowsD0 \cup RowsDB
Text == [op \in 0..255 |-> CHOOSE row \in Rows : op \in row[1]]

\* The operand a form stands for in the instruction at pos.
PageAddress(pos, data) == InPage(PageOf(pos), data)
FarAddress(op, data) == InPage(op \div 32, data)
Operand(form, pos, op, data) ==
    CASE form = "R"    -> <<"R", op % 8>>
      [] form = "@R"   -> <<"@R", op % 2>>
      [] form = "P"    -> <<"P", op % 4>>
      [] form = "P4"   -> <<"P", 4 + (op % 4)>>
      [] form = "BUS"  -> <<"P", 0>>
      [] form = "#"    -> <<"#", data>>
      [] form = "bit"  -> <<"bit", op \div 32>>
      [] form = "near" -> <<"address", PageAddress(pos, data)>>
      [] form = "far"  -> <<"address", FarAddress(op, data)>>
      [] form = "op"   -> <<"#", op>>
      [] OTHER         -> <<form>>

\* One turn of disassemble(), for the bytes at pos and behind it.
Line(pos, op, data) ==
    [bytes |-> Text[op][2],
     opcode |-> Text[op][3],
     args |-> [i \in DOMAIN Text[op][4] |-> Operand(Text[op][4][i], pos, op, data)]]
=============================================================================
