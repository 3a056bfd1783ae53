----------------------------- MODULE Assembler -----------------------------
(***************************************************************************)
(* The assembler (src/assembler.{h,cpp}): one pass over the source.  An    *)
(* operand that is not defined yet is 0 and its address is kept for        *)
(* addLabel() to patch.  One action per statement of a line; a label is an *)
(* action of its own, since a line with both does what two lines do, and   *)
(* likewise a .DB or .RAW with several values.  The text of the lines is   *)
(* left out.  The code's numbers are 256 words in two RAMs of 128.         *)
(***************************************************************************)
EXTENDS Naturals, Sequences

CONSTANTS
    Names,         \* labels and constants
    Opcodes,       \* of the instructions: 1 to 24
    Numbers,       \* numbers in the source, in and out of range
    Half,          \* the words of one RAM: 128
    NIL

Size == 2 * Half
Byte == 0..Size - 1

ASSUME AssemblerConstants ==
    /\ Half \in Nat \ {0} /\ Numbers \subseteq Nat
    /\ Opcodes \subseteq Nat \ {0}
    /\ NIL \notin Names /\ NIL \notin Nat

VARIABLES
    phase,         \* of assemble(): "reading", "done"; or "crashed", by a write outside memory_
    pc,            \* pc_
    memory,        \* words: opcode and argument
    labels, consts,
    pending,       \* pendingReferences_: the addresses by name
    failed,        \* errors_ is not empty
    listing,       \* history: by address, what the source last put there, Blank if nothing;
                   \* a name stands for a label
    orderly        \* history: no .EQU or .ORG of a name defined later, and no .ORG back

asmVars == <<phase, pc, memory, labels, consts, pending, failed, listing, orderly>>

\* Where the source puts nothing, there is a 0.
Blank == [op |-> 0, name |-> NIL, num |-> 0]

Init ==
    /\ phase = "reading" /\ pc = 0 /\ memory = <<>> /\ listing = [a \in 0..Size |-> Blank]
    /\ labels = [x \in Names |-> NIL] /\ consts = labels
    /\ pending = [x \in Names |-> {}]
    /\ failed = FALSE /\ orderly = TRUE

-----------------------------------------------------------------------------
(* Operands.                                                               *)

\* A "?", or no operand, is 0.
Operand == [name : {NIL}, num : Numbers \union {0}] \union [name : Names, num : {0}]

OutOfRange(o) == o.name = NIL /\ o.num >= Size
Unknown(o) == o.name /= NIL /\ consts[o.name] = NIL /\ labels[o.name] = NIL

Literal(o) == IF OutOfRange(o) THEN 0 ELSE o.num
Label(x) == IF labels[x] /= NIL THEN labels[x] % Size ELSE 0

\* Faulty variant of parseIntOrLabel: labels before constants.
LabelsFirst(o) ==
    IF o.name = NIL THEN Literal(o)
    ELSE IF labels[o.name] = NIL /\ consts[o.name] /= NIL THEN consts[o.name] ELSE Label(o.name)

parseIntOrLabel(o) ==
    IF o.name = NIL THEN Literal(o)
    ELSE IF consts[o.name] /= NIL THEN consts[o.name] ELSE Label(o.name)

\* Faulty variant of Referenced: the address of the next word.
ReferencedLate(o) ==
    IF Unknown(o) THEN [pending EXCEPT ![o.name] = @ \union {pc + 1}] ELSE pending

\* addPendingReference(), with the address of the word that comes next.
Referenced(o) ==
    IF Unknown(o) THEN [pending EXCEPT ![o.name] = @ \union {pc}] ELSE pending

\* What the source says: a constant is known by now, a label perhaps later.
Stated(op, o) ==
    IF o.name /= NIL /\ consts[o.name] /= NIL
      THEN [op |-> op, name |-> NIL, num |-> consts[o.name]]
      ELSE [op |-> op, name |-> o.name, num |-> o.num]

-----------------------------------------------------------------------------
(* The handlers.  Only a program of more than Size words is cut short here. *)

Reading == phase = "reading"

Put(op, o) ==
    /\ Reading /\ pc <= Size
    /\ memory' = Append(memory, [op |-> op, arg |-> parseIntOrLabel(o)])
    /\ pc' = pc + 1
    /\ pending' = Referenced(o)
    /\ listing' = [listing EXCEPT ![pc] = Stated(op, o)]
    /\ UNCHANGED <<phase, labels, consts, orderly>>

\* constHandler(), addressHandler(), optConstHandler().
operandHandler == \E op \in Opcodes, o \in Operand :
    Put(op, o) /\ failed' = (failed \/ OutOfRange(o))

\* A parameter too many is an error, and the word is put out.
nullHandler == \E op \in Opcodes, params \in BOOLEAN :
    Put(op, [name |-> NIL, num |-> 0]) /\ failed' = (failed \/ params)

dataHandler == \E o \in Operand :
    Put(0, o) /\ failed' = (failed \/ OutOfRange(o))

rawHandler == \E op \in Opcodes \union {0}, n \in Numbers :
    n < Size /\ Put(op, [name |-> NIL, num |-> n]) /\ UNCHANGED failed

\* Faulty variant of Resized: never shrinks.
Reserved(s, n, new) ==
    [i \in 1..(IF n > Len(s) THEN n ELSE Len(s)) |-> IF i <= Len(s) THEN s[i] ELSE new]

\* std::vector::resize().
Resized(s, n, new) == [i \in 1..n |-> IF i <= Len(s) THEN s[i] ELSE new]

orgHandler == \E o \in Operand :
    /\ Reading
    /\ pc' = parseIntOrLabel(o)
    /\ memory' = Resized(memory, pc', [op |-> 0, arg |-> 0])
    /\ pending' = Referenced(o)
    /\ failed' = (failed \/ OutOfRange(o))
    /\ orderly' = (orderly /\ ~Unknown(o) /\ pc' >= pc)
    /\ UNCHANGED <<phase, labels, consts, listing>>

equHandler == \E x \in Names, o \in Operand :
    /\ Reading /\ consts[x] = NIL
    /\ consts' = [consts EXCEPT ![x] = parseIntOrLabel(o)]
    /\ pending' = Referenced(o)
    /\ failed' = (failed \/ OutOfRange(o))
    /\ orderly' = (orderly /\ ~Unknown(o))
    /\ UNCHANGED <<phase, pc, memory, labels, listing>>

\* A line that does nothing but report: an unknown mnemonic, a wrong number of
\* parameters, a raw value that is none, a constant defined twice.
Refused ==
    /\ Reading /\ failed' = TRUE
    /\ UNCHANGED <<phase, pc, memory, labels, consts, pending, listing, orderly>>

-----------------------------------------------------------------------------
(* Labels and the end.                                                     *)

Patched(refs) ==
    [i \in 1..Len(memory) |->
        IF i - 1 \in refs THEN [memory[i] EXCEPT !.arg = pc % Size] ELSE memory[i]]

\* A label that exists already is an error, and changes nevertheless.  A write behind
\* the end of memory_ is undefined: it ends the program or is never seen.
addLabel == \E x \in Names :
    /\ Reading
    /\ failed' = (failed \/ labels[x] /= NIL)
    /\ labels' = [labels EXCEPT ![x] = pc]
    /\ memory' = Patched(pending[x])
    /\ pending' = [pending EXCEPT ![x] = {}]
    /\ IF \A i \in pending[x] : i < Len(memory) THEN UNCHANGED phase
       ELSE phase' \in {phase, "crashed"}
    /\ UNCHANGED <<pc, consts, listing, orderly>>

Unresolved == \E x \in Names : pending[x] /= {}

\* The end of assemble().
assemble ==
    /\ Reading /\ phase' = "done"
    /\ failed' = (failed \/ Unresolved \/ pc > Size)
    /\ UNCHANGED <<pc, memory, labels, consts, pending, listing, orderly>>

\* code(): the RAMs that the program takes.  Faulty variant: the limit is one too high.
RamsLate == IF pc > Half + 1 THEN 2 ELSE 1
Rams == IF pc > Half - 1 THEN 2 ELSE 1

Assembled == ~Reading /\ UNCHANGED asmVars

Next ==
    \/ operandHandler \/ nullHandler \/ dataHandler \/ rawHandler
    \/ orgHandler \/ equHandler \/ Refused \/ addLabel \/ assemble \/ Assembled

Spec == Init /\ [][Next]_asmVars

-----------------------------------------------------------------------------
(* Properties.                                                             *)

Word == [op : Nat, arg : Byte]
Entry == [op : Nat, name : {NIL}, num : Nat] \union [op : Nat, name : Names, num : {0}]

\* pc_ and the size of memory_, which the handlers change apart, are the same.
AsmTypeOK ==
    /\ phase \in {"reading", "done", "crashed"}
    /\ memory \in Seq(Word) /\ listing \in [0..Size -> Entry]
    /\ pc \in 0..Size + 1 /\ pc = Len(memory)
    /\ labels \in [Names -> Nat \union {NIL}] /\ consts \in [Names -> Byte \union {NIL}]
    /\ pending \in [Names -> SUBSET Nat]
    /\ failed \in BOOLEAN /\ orderly \in BOOLEAN

\* The program as a second pass would have put it out, with all labels known.
Meant ==
    /\ \A a \in 0..Size : listing[a] /= Blank => a < pc
    /\ \A i \in 1..pc :
        LET e == listing[i - 1] IN
        /\ memory[i].op = e.op
        /\ IF e.name = NIL THEN memory[i].arg = e.num
           ELSE labels[e.name] /= NIL /\ memory[i].arg = labels[e.name] % Size

\* A program that is uploaded is that of its listing (assembler.cpp:99-116, 219-255): every
\* name of a word is a label, and the word has its address, whichever came first.
Resolved == phase = "done" /\ ~failed /\ orderly => Meant

\* assembler.h:37: .ORG takes any number.  Listing 23 of the samples ends with .ORG 0 and
\* one more word (listing_023.asm:29-30): what was put out before remains.
WordsRemain == phase = "done" /\ ~failed => Meant

\* Backpatching finds the words it patches (assembler.cpp:105-107).
PatchesHit == orderly => phase /= "crashed"

\* code() has room for every word of a program without errors (assembler.cpp:89-97).
CodeFits == phase = "done" /\ ~failed => pc <= Rams * Half
=============================================================================
