------------------------------ MODULE Decoder ------------------------------
(***************************************************************************)
(* The switch of Intel8049::executeSingleInstr(): which bytes each case    *)
(* takes, and which register, port or address it works on.  A row is       *)
(*   <<opcodes, bytes, effect, operands>>                                  *)
(* The effect is what the case does, not what its comment says: a jump is  *)
(* named for the test of the code, and a case that does nothing has none.  *)
(* How the effects work is in modules Intel8049 (jumps, timer,             *)
(* interrupts), Intel8049Data and Board.                                   *)
(***************************************************************************)
EXTENDS ProgramMemory

Rr(op) == op..op + 7          \* op & 7 is the register
At(op) == {op, op + 1}        \* op & 1 is the register with the address, below 128
Pp(op) == op..op + 3          \* op & 3 is the port of the expander
Upper(op) == {op + 32 * i : i \in 0..7}    \* op & 0xe0 belongs to the operand

Cases00 ==
    {<<{\h00}, 1, "nothing", <<>>>>,
     <<{\h02}, 1, "move", <<"bus", "a">>>>,
     <<{\h03}, 2, "add", <<"a", "data">>>>,
     <<Upper(\h04), 2, "jump", <<"addr">>>>,
     <<{\h05}, 1, "enable", <<"external">>>>,
     <<{\h07}, 1, "decrement", <<"a">>>>,
     <<{\h08}, 1, "move", <<"a", "bus">>>>,
     <<{\h09, \h0a}, 1, "move", <<"a", "port1">>>>,
     <<Pp(\h0c), 1, "moveNibble", <<"a", "port4">>>>,
     <<At(\h10), 1, "increment", <<"ram">>>>,
     <<Upper(\h12), 2, "ifBit", <<"b", "page">>>>,
     <<{\h13}, 2, "addWithCarry", <<"a", "data">>>>,
     <<Upper(\h14), 2, "call", <<"addr">>>>,
     <<{\h15}, 1, "disable", <<"external">>>>,
     <<{\h16}, 2, "ifOverflow", <<"page">>>>,
     <<{\h17}, 1, "increment", <<"a">>>>,
     <<Rr(\h18), 1, "increment", <<"r">>>>,
     <<At(\h20), 1, "exchange", <<"a", "ram">>>>,
     <<{\h23}, 2, "move", <<"a", "data">>>>,
     <<{\h25}, 1, "enable", <<"tcnt">>>>,
     <<{\h26}, 2, "unlessT0", <<"page">>>>,
     <<{\h27}, 1, "clear", <<"a">>>>,
     <<Rr(\h28), 1, "exchange", <<"a", "r">>>>}

\* STRT CNT (0x45) stops the timer and sets a flag nothing reads; DA A (0x57) loses the carry of 160 and more.
Cases30 ==
    {<<At(\h30), 1, "exchangeLowHalf", <<"a", "ram">>>>,
     <<{\h35}, 1, "disable", <<"tcnt">>>>,
     <<{\h36}, 2, "ifT0", <<"page">>>>,
     <<{\h37}, 1, "complement", <<"a">>>>,
     <<{\h39, \h3a}, 1, "move", <<"port1", "a">>>>,
     <<Pp(\h3c), 1, "moveNibble", <<"port4", "a">>>>,
     <<At(\h40), 1, "or", <<"a", "ram">>>>,
     <<{\h42}, 1, "move", <<"a", "t">>>>,
     <<{\h43}, 2, "or", <<"a", "data">>>>,
     <<{\h45}, 1, "mark", <<"counter">>>>,
     <<{\h46}, 2, "unlessT1", <<"page">>>>,
     <<{\h47}, 1, "swapHalves", <<"a">>>>,
     <<Rr(\h48), 1, "or", <<"a", "r">>>>,
     <<At(\h50), 1, "and", <<"a", "ram">>>>,
     <<{\h53}, 2, "and", <<"a", "data">>>>,
     <<{\h55}, 1, "start", <<"t">>>>,
     <<{\h56}, 2, "ifT1", <<"page">>>>,
     <<{\h57}, 1, "decimalBelow160", <<"a">>>>,
     <<Rr(\h58), 1, "and", <<"a", "r">>>>}

\* ENT0 CLK (0x75) is reported as not implemented; JNI (0x86) tests the pin for 1.
Cases60 ==
    {<<At(\h60), 1, "add", <<"a", "ram">>>>,
     <<{\h62}, 1, "move", <<"t", "a">>>>,
     <<{\h65}, 1, "stop", <<"both">>>>,
     <<{\h67}, 1, "rotateRightWithCarry", <<"a">>>>,
     <<Rr(\h68), 1, "add", <<"a", "r">>>>,
     <<At(\h70), 1, "addWithCarry", <<"a", "ram">>>>,
     <<{\h75}, 1, "nothing", <<>>>>,
     <<{\h76}, 2, "ifF1", <<"page">>>>,
     <<{\h77}, 1, "rotateRight", <<"a">>>>,
     <<Rr(\h78), 1, "addWithCarry", <<"a", "r">>>>,
     <<At(\h80), 1, "moveExternal", <<"a", "ram">>>>,
     <<{\h83}, 1, "return", <<>>>>,
     <<{\h85}, 1, "clear", <<"f0">>>>,
     <<{\h86}, 2, "ifNotInt", <<"page">>>>,
     <<{\h88}, 2, "or", <<"bus", "data">>>>,
     <<{\h89, \h8a}, 2, "or", <<"port3", "data">>>>,
     <<Pp(\h8c), 1, "orNibble", <<"port4", "a">>>>}

Cases90 ==
    {<<At(\h90), 1, "moveExternal", <<"ram", "a">>>>,
     <<{\h93}, 1, "returnAndRestore", <<>>>>,
     <<{\h95}, 1, "complement", <<"f0">>>>,
     <<{\h96}, 2, "unlessZero", <<"page">>>>,
     <<{\h97}, 1, "clear", <<"carry">>>>,
     <<{\h98}, 2, "and", <<"bus", "data">>>>,
     <<{\h99, \h9a}, 2, "and", <<"port3", "data">>>>,
     <<Pp(\h9c), 1, "andNibble", <<"port4", "a">>>>}

CasesA0 ==
    {<<At(\ha0), 1, "move", <<"ram", "a">>>>,
     <<{\ha3}, 1, "moveFromPage", <<"a", "rom">>>>,
     <<{\ha5}, 1, "clear", <<"f1">>>>,
     <<{\ha7}, 1, "complement", <<"carry">>>>,
     <<Rr(\ha8), 1, "move", <<"r", "a">>>>,
     <<At(\hb0), 2, "move", <<"ram", "data">>>>,
     <<{\hb3}, 1, "jumpByTable", <<"rom">>>>,
     <<{\hb5}, 1, "complement", <<"f1">>>>,
     <<{\hb6}, 2, "ifF0", <<"page">>>>,
     <<Rr(\hb8), 2, "move", <<"r", "data">>>>,
     <<{\hc5}, 1, "select", <<"bank0">>>>,
     <<{\hc6}, 2, "ifZero", <<"page">>>>,
     <<{\hc7}, 1, "move", <<"a", "psw">>>>,
     <<Rr(\hc8), 1, "decrement", <<"r">>>>}

CasesD0 ==
    {<<At(\hd0), 1, "xor", <<"a", "ram">>>>,
     <<{\hd3}, 2, "xor", <<"a", "data">>>>,
     <<{\hd5}, 1, "select", <<"bank1">>>>,
     <<{\hd7}, 1, "move", <<"psw", "a">>>>,
     <<Rr(\hd8), 1, "xor", <<"a", "r">>>>,
     <<{\he3}, 1, "moveFromPage3", <<"a", "rom">>>>,
     <<{\he5}, 1, "select", <<"memory0">>>>,
     <<{\he6}, 2, "unlessCarry", <<"page">>>>,
     <<{\he7}, 1, "rotateLeft", <<"a">>>>,
     <<Rr(\he8), 2, "decrementUnlessZero", <<"r", "page">>>>,
     <<At(\hf0), 1, "move", <<"a", "ram">>>>,
     <<{\hf5}, 1, "select", <<"memory1">>>>,
     <<{\hf6}, 2, "ifCarry", <<"page">>>>,
     <<{\hf7}, 1, "rotateLeftWithCarry", <<"a">>>>,
     <<Rr(\hf8), 1, "move", <<"a", "r">>>>}

\* Reported on the console, and otherwise a NOP.
Undefined == {\h01, \h06, \h0b, \h22, \h33, \h38, \h3b, \h63, \h66, \h73, \h82, \h87, \h8b,
              \h9b, \ha2, \ha6, \hb7, \hc0, \hc1, \hc2, \hc3, \hd6, \he0, \he1, \he2, \hf3}
CasesIllegal == {<<Undefined, 1, "nothing", <<"op">>>>}

Cases == Cases00 \cup Cases30 \cup Cases60 \cup Cases90 \cup CasesA0 \cup CasesD0
           \cup CasesIllegal
Case == [op \in 0..255 |-> CHOOSE row \in Cases : op \in row[1]]
Bytes(op) == Case[op][2]
Effect(op) == Case[op][3]

\* The jumps that are taken or not, and the two returns.
Conditional == {"ifBit", "ifOverflow", "unlessT0", "ifT0", "unlessT1", "ifT1", "ifF1",
                "ifNotInt", "unlessZero", "ifF0", "ifZero", "unlessCarry",
                "decrementUnlessZero", "ifCarry"}
Returns == {"return", "returnAndRestore"}

\* Where a jump goes.  The page is that of the byte before pc, which is the second byte of
\* the instruction; JMP and CALL add the memory bank.  Faulty variant: the page of pc.
NearNext(pc, data) == InPage(PageOf(pc), data)
Near(pc, data) == InPage(PageOf(pc - 1), data)
Far(dbf, op, data) == InPage(8 * dbf + (op \div 32), data)

Resolved(place, pc, dbf, op, data) ==
    CASE place = "r"     -> <<"R", op % 8>>
      [] place = "ram"   -> <<"@R", op % 2>>
      [] place = "port1" -> <<"P", op % 2>>
      [] place = "port3" -> <<"P", op % 4>>
      [] place = "port4" -> <<"P", 4 + (op % 4)>>
      [] place = "bus"   -> <<"P", 0>>
      [] place = "data"  -> <<"#", data>>
      [] place = "b"     -> <<"bit", op \div 32>>
      [] place = "page"  -> <<"address", Near(pc, data)>>
      [] place = "addr"  -> <<"address", Far(dbf, op, data)>>
      [] place = "op"    -> <<"#", op>>
      [] OTHER           -> <<place>>
Places(op, pc, dbf, data) ==
    [i \in DOMAIN Case[op][4] |-> Resolved(Case[op][4][i], pc, dbf, op, data)]
=============================================================================
