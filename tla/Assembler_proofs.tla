-------------------------- MODULE Assembler_proofs --------------------------
(***************************************************************************)
(* Proofs about Assembler: one pass with patches puts out what two passes  *)
(* would, for any names, any program and any size.                         *)
(***************************************************************************)
EXTENDS Assembler, SequenceTheorems, TLAPS

\* A reference is pending until its label comes, and its word exists.
Waiting ==
    \A x \in Names :
        /\ \A i \in pending[x] : i < pc
        /\ labels[x] /= NIL => pending[x] = {}

\* Nothing is left behind the last word.
Below == \A a \in 0..Size : listing[a] /= Blank => a < pc

\* A word is final, or waits for the one label that it names.
Final(i, e) ==
    IF e.name = NIL
      THEN memory[i].arg = e.num /\ \A x \in Names : i - 1 \notin pending[x]
      ELSE /\ \A x \in Names : i - 1 \in pending[x] => x = e.name
           /\ IF labels[e.name] = NIL THEN i - 1 \in pending[e.name]
              ELSE memory[i].arg = labels[e.name] % Size

Linked == \A i \in 1..pc : memory[i].op = listing[i - 1].op /\ Final(i, listing[i - 1])

AsmInv ==
    /\ AsmTypeOK
    /\ orderly => Waiting /\ Below /\ phase /= "crashed"
    /\ orderly /\ ~failed => Linked
    /\ phase = "done" /\ ~failed => pc <= Size /\ \A x \in Names : pending[x] = {}

-----------------------------------------------------------------------------
(* Sequences and operands.                                                 *)

LEMMA FunctionIsSeq ==
    ASSUME NEW S, NEW n \in Nat, NEW f \in [1..n -> S]
    PROVE  f \in Seq(S) /\ Len(f) = n
<1>1. f \in Seq(S) BY SeqDef
<1>2. DOMAIN f = 1..n /\ DOMAIN f = 1..Len(f) /\ Len(f) \in Nat BY <1>1, LenProperties
<1> QED BY <1>1, <1>2

LEMMA Appended ==
    ASSUME NEW S, NEW s \in Seq(S), NEW e \in S, NEW n, n = Len(s), NEW t, t = Append(s, e)
    PROVE  /\ n \in Nat /\ t \in Seq(S) /\ Len(t) = n + 1 /\ t[n + 1] = e
           /\ \A i \in 1..n : t[i] = s[i]
BY AppendProperties, LenProperties

LEMMA Sizes == Size \in Nat /\ Size >= 2 /\ 0 \in Byte /\ \A n \in Nat : n % Size \in Byte
BY AssemblerConstants DEF Size, Byte

LEMMA WordAddress ==
    ASSUME NEW n \in 0..Size + 1, NEW i \in 1..n
    PROVE  i - 1 \in 0..Size
<1>1. Size \in Nat BY Sizes
<1> QED BY <1>1

LEMMA OperandFields ==
    ASSUME NEW o \in Operand
    PROVE  o.name \in Names \union {NIL} /\ o.num \in Nat /\ (o.name /= NIL => o.num = 0)
<1>1. CASE o \in [name : {NIL}, num : Numbers \union {0}]
  <2>1. o.name = NIL /\ o.num \in Numbers \union {0} BY <1>1
  <2>2. Numbers \subseteq Nat /\ 0 \in Nat BY AssemblerConstants
  <2>3. o.num \in Nat BY <2>1, <2>2
  <2> QED BY <2>1, <2>3
<1>2. CASE o \in [name : Names, num : {0}] BY <1>2
<1> QED BY <1>1, <1>2 DEF Operand

LEMMA OperandTypes ==
    ASSUME AsmTypeOK, NEW o \in Operand, NEW op \in Nat
    PROVE  /\ parseIntOrLabel(o) \in Byte
           /\ Stated(op, o) \in Entry
           /\ Referenced(o) \in [Names -> SUBSET Nat]
           /\ OutOfRange(o) \in BOOLEAN /\ Unknown(o) \in BOOLEAN
<1>1. o.name \in Names \union {NIL} /\ o.num \in Nat /\ (o.name /= NIL => o.num = 0)
  BY OperandFields
<1>2. parseIntOrLabel(o) \in Byte
  <2>1. CASE o.name = NIL BY <2>1, <1>1, Sizes DEF parseIntOrLabel, Literal, OutOfRange, Byte
  <2>2. CASE o.name /= NIL
    <3>1. /\ labels[o.name] /= NIL => labels[o.name] \in Nat
          /\ consts[o.name] /= NIL => consts[o.name] \in Byte
      BY <2>2, <1>1 DEF AsmTypeOK
    <3>2. Label(o.name) \in Byte BY <3>1, Sizes DEF Label
    <3> QED BY <2>2, <3>1, <3>2 DEF parseIntOrLabel
  <2> QED BY <2>1, <2>2
<1>3. Stated(op, o) \in Entry
  BY <1>1 DEF Stated, Entry, AsmTypeOK, Byte
<1>4. Referenced(o) \in [Names -> SUBSET Nat]
  BY <1>1 DEF Referenced, Unknown, AsmTypeOK
<1> QED BY <1>2, <1>3, <1>4 DEF OutOfRange, Unknown

\* A new reference waits for a name without a label, and for the next word.
LEMMA NewReference ==
    ASSUME AsmTypeOK, NEW o \in Operand, NEW x \in Names
    PROVE  /\ Unknown(o) => o.name \in Names /\ labels[o.name] = NIL
           /\ \A j : j \in Referenced(o)[x] <=>
                       j \in pending[x] \/ (Unknown(o) /\ x = o.name /\ j = pc)
<1>1. o.name \in Names \union {NIL} BY OperandFields
<1>2. Unknown(o) => o.name \in Names /\ labels[o.name] = NIL BY <1>1 DEF Unknown
<1>3. CASE Unknown(o) BY <1>2, <1>3 DEF Referenced, AsmTypeOK
<1>4. CASE ~Unknown(o) BY <1>4 DEF Referenced
<1> QED BY <1>2, <1>3, <1>4

-----------------------------------------------------------------------------
(* The statements.                                                         *)

\* A word is put out.
LEMMA PutKeepsInv ==
    ASSUME AsmInv, NEW op \in Nat, NEW o \in Operand, Put(op, o),
           failed' \in BOOLEAN, ~failed' => ~failed /\ ~OutOfRange(o)
    PROVE  AsmInv'
<1>1. AsmTypeOK /\ phase = "reading" /\ pc <= Size BY DEF AsmInv, Put, Reading
<1>2. o.name \in Names \union {NIL} /\ o.num \in Nat BY OperandFields
<1> DEFINE w == [op |-> op, arg |-> parseIntOrLabel(o)]
           e == Stated(op, o)
<1>3. w \in Word /\ e \in Entry /\ Referenced(o) \in [Names -> SUBSET Nat]
  BY <1>1, OperandTypes DEF Word
<1>4. /\ memory \in Seq(Word) /\ memory' = Append(memory, w)
      /\ listing \in [0..Size -> Entry] /\ listing' = [listing EXCEPT ![pc] = e]
      /\ pc \in 0..Size /\ pc = Len(memory) /\ pc' = pc + 1
  BY <1>1, Sizes DEF Put, AsmTypeOK
<1> HIDE DEF w, e
<1>5. /\ memory' \in Seq(Word) /\ Len(memory') = pc' /\ memory'[pc'] = w
      /\ \A i \in 1..pc : memory'[i] = memory[i]
  <2>1. /\ memory' \in Seq(Word) /\ Len(memory') = pc + 1 /\ memory'[pc + 1] = w
        /\ \A i \in 1..pc : memory'[i] = memory[i]
    <3>1. memory \in Seq(Word) /\ w \in Word /\ pc = Len(memory) /\ memory' = Append(memory, w)
      BY <1>3, <1>4
    <3> QED BY <3>1, Appended
  <2> QED BY <2>1, <1>4
<1>6. /\ listing' \in [0..Size -> Entry] /\ listing'[pc] = e
      /\ \A a \in 0..Size : a /= pc => listing'[a] = listing[a]
  BY <1>3, <1>4
<1>7. UNCHANGED <<phase, labels, consts, orderly>> /\ pending' = Referenced(o) BY DEF Put
<1>8. AsmTypeOK'
  <2>1. pc' \in 0..Size + 1 /\ pc' = Len(memory') BY <1>4, <1>5, Sizes
  <2> QED BY <2>1, <1>1, <1>3, <1>5, <1>6, <1>7 DEF AsmTypeOK
<1>9. \A x \in Names :
        /\ Unknown(o) => o.name \in Names /\ labels[o.name] = NIL
        /\ \A j : j \in pending'[x] <=>
                    j \in pending[x] \/ (Unknown(o) /\ x = o.name /\ j = pc)
  BY <1>1, <1>7, NewReference
<1>10. ASSUME orderly PROVE Waiting' /\ Below' /\ phase' /= "crashed"
  <2>1. Waiting /\ Below BY <1>10 DEF AsmInv
  <2>2. Below' BY <2>1, <1>4, <1>6, Sizes DEF Below
  <2> SUFFICES ASSUME NEW x \in Names
               PROVE  (\A i \in pending'[x] : i < pc') /\ (labels[x] /= NIL => pending'[x] = {})
    BY <1>1, <1>7, <2>2 DEF Waiting
  <2>3. \A i \in pending[x] : i \in Nat BY <1>1 DEF AsmTypeOK
  <2> QED BY <2>1, <2>3, <1>4, <1>9 DEF Waiting
<1>11. ASSUME orderly, ~failed' PROVE Linked'
  <2>1. Waiting /\ Linked /\ ~OutOfRange(o) BY <1>11 DEF AsmInv
  <2> SUFFICES ASSUME NEW i \in 1..pc'
               PROVE  memory'[i].op = listing'[i - 1].op /\ Final(i, listing[i - 1])'
    BY DEF Linked
  <2>2. CASE i \in 1..pc
    <3>1. i - 1 \in 0..Size /\ memory'[i] = memory[i] /\ listing'[i - 1] = listing[i - 1]
      <4>1. pc \in 0..Size + 1 BY <1>1 DEF AsmTypeOK
      <4>2. i - 1 \in 0..Size BY <4>1, <2>2, WordAddress
      <4>3. i - 1 /= pc BY <4>1, <2>2
      <4> QED BY <4>2, <4>3, <2>2, <1>5, <1>6
    <3>2. memory[i].op = listing[i - 1].op /\ Final(i, listing[i - 1]) BY <2>2, <2>1 DEF Linked
    <3>3. \A x \in Names : i - 1 \in pending'[x] <=> i - 1 \in pending[x]
      BY <2>2, <1>4, <1>9
    <3>4. listing[i - 1].name \in Names \union {NIL}
      BY <3>1, <1>4 DEF Entry
    <3> QED BY <3>1, <3>2, <3>3, <3>4, <1>7 DEF Final
  <2>3. CASE i = pc'
    <3>1. i - 1 = pc /\ memory'[i] = w /\ listing'[i - 1] = e BY <2>3, <1>4, <1>5, <1>6
    <3>2. memory'[i].op = listing'[i - 1].op BY <3>1 DEF Stated, w, e
    <3>3. i - 1 = pc /\ \A x \in Names : pc \notin pending[x]
      BY <2>3, <1>4, <2>1 DEF Waiting
    <3>4. CASE ~Unknown(o) /\ e.name = NIL
      <4>1. memory'[i].arg = listing'[i - 1].num
        BY <3>1, <3>4, <2>1, <1>2, AssemblerConstants
           DEF Stated, parseIntOrLabel, Literal, w, e
      <4> QED BY <4>1, <3>1, <3>2, <3>3, <3>4, <1>9 DEF Final
    <3>5. CASE ~Unknown(o) /\ e.name /= NIL
      <4>1. e.name \in Names /\ labels[e.name] /= NIL /\ w.arg = labels[e.name] % Size
        BY <3>5, <1>2 DEF Stated, parseIntOrLabel, Label, Unknown, w, e
      <4> QED BY <4>1, <3>1, <3>2, <3>3, <3>5, <1>7, <1>9 DEF Final
    <3>6. CASE Unknown(o)
      <4>1. e.name = o.name /\ o.name \in Names /\ labels[o.name] = NIL /\ e.name /= NIL
        BY <3>6, <1>2 DEF Stated, Unknown, e
      <4>2. i - 1 \in pending'[e.name] BY <4>1, <3>3, <3>6, <1>9
      <4>3. \A x \in Names : i - 1 \in pending'[x] => x = e.name BY <4>1, <3>3, <1>9
      <4>4. labels'[e.name] = NIL BY <4>1, <1>7
      <4> QED BY <4>1, <4>2, <4>3, <4>4, <3>1, <3>2 DEF Final
    <3> QED BY <3>4, <3>5, <3>6
  <2>4. i \in 1..pc \/ i = pc' BY <1>4
  <2> QED BY <2>2, <2>3, <2>4
<1> QED BY <1>1, <1>7, <1>8, <1>10, <1>11 DEF AsmInv

\* .ORG forward adds words that wait for nothing.
LEMMA OrgKeepsInv == AsmInv /\ orgHandler => AsmInv'
<1> SUFFICES ASSUME AsmInv, orgHandler PROVE AsmInv' OBVIOUS
<1>1. PICK o \in Operand :
        /\ Reading /\ pc' = parseIntOrLabel(o)
        /\ memory' = Resized(memory, pc', [op |-> 0, arg |-> 0])
        /\ pending' = Referenced(o)
        /\ failed' = (failed \/ OutOfRange(o))
        /\ orderly' = (orderly /\ ~Unknown(o) /\ pc' >= pc)
        /\ UNCHANGED <<phase, labels, consts, listing>>
  BY DEF orgHandler
<1> DEFINE w == [op |-> 0, arg |-> 0]
<1>2. AsmTypeOK /\ phase = "reading" BY <1>1 DEF AsmInv, Reading
<1>3. pc' \in Byte /\ pc' \in Nat /\ pc' \in 0..Size + 1 BY <1>1, <1>2, OperandTypes, Sizes DEF Byte
<1>4. w \in Word /\ w.op = 0 /\ w.arg = 0
  BY Sizes DEF Word
<1>5. memory \in Seq(Word) /\ pc = Len(memory) /\ pc \in Nat
  BY <1>2, Sizes DEF AsmTypeOK
<1> HIDE DEF w
<1>6. /\ memory' \in Seq(Word) /\ Len(memory') = pc'
      /\ \A i \in 1..pc' : i <= pc => memory'[i] = memory[i]
      /\ \A i \in 1..pc' : ~(i <= pc) => memory'[i] = w
  <2>1. memory' = Resized(memory, pc', w) BY <1>1 DEF w
  <2>2. memory \in Seq(Word) /\ w \in Word /\ pc' \in Nat BY <1>3, <1>4, <1>5
  <2>3. \A i \in 1..pc' : i <= Len(memory) => memory[i] \in Word
    BY <2>2, LenProperties, ElementOfSeq
  <2>4. memory' \in [1..pc' -> Word] BY <2>1, <2>2, <2>3 DEF Resized
  <2>5. /\ \A i \in 1..pc' : i <= Len(memory) => memory'[i] = memory[i]
        /\ \A i \in 1..pc' : ~(i <= Len(memory)) => memory'[i] = w
    BY <2>1 DEF Resized
  <2>6. memory' \in Seq(Word) /\ Len(memory') = pc' BY <2>2, <2>4, FunctionIsSeq
  <2> QED BY <2>5, <2>6, <1>5
<1>7. AsmTypeOK'
  <2>1. Referenced(o) \in [Names -> SUBSET Nat] /\ OutOfRange(o) \in BOOLEAN
    BY <1>2, OperandTypes
  <2>2. failed' \in BOOLEAN /\ orderly' \in BOOLEAN BY <1>1
  <2> QED BY <2>1, <2>2, <1>1, <1>2, <1>3, <1>6 DEF AsmTypeOK
<1>8. ASSUME orderly' PROVE orderly /\ pending' = pending /\ pc <= pc'
  BY <1>1, <1>3, <1>5, <1>8 DEF Referenced
<1>9. ASSUME orderly' PROVE Waiting' /\ Below' /\ phase' /= "crashed"
  <2>1. Waiting /\ Below /\ phase /= "crashed" /\ pending' = pending /\ pc <= pc'
    BY <1>8, <1>9 DEF AsmInv
  <2>2. \A x \in Names : pending[x] \subseteq Nat BY <1>2 DEF AsmTypeOK
  <2>3. Waiting' BY <2>1, <2>2, <1>1, <1>3, <1>5 DEF Waiting
  <2>4. Below'
    <3>1. \A a \in 0..Size : a < pc => a < pc' BY <2>1, <1>3, <1>5, Sizes
    <3> QED BY <3>1, <2>1, <1>1 DEF Below, Blank, Size
  <2> QED BY <2>1, <2>3, <2>4, <1>1
<1>10. ASSUME orderly', ~failed' PROVE Linked'
  <2>1. Waiting /\ Below /\ Linked /\ pending' = pending BY <1>1, <1>8, <1>10 DEF AsmInv
  <2> SUFFICES ASSUME NEW i \in 1..pc'
               PROVE  memory'[i].op = listing[i - 1].op /\ Final(i, listing[i - 1])'
    BY <1>1 DEF Linked
  <2>2. CASE i <= pc
    <3>1. memory'[i] = memory[i] /\ i \in 1..pc BY <2>2, <1>3, <1>5, <1>6
    <3>2. memory[i].op = listing[i - 1].op /\ Final(i, listing[i - 1])
      BY <3>1, <2>1 DEF Linked
    <3> QED BY <3>1, <3>2, <2>1, <1>1 DEF Final
  <2>3. CASE ~(i <= pc)
    <3>1. i - 1 \in 0..Size /\ ~(i - 1 < pc) BY <2>3, <1>3, <1>5, WordAddress
    <3>2. memory'[i] = w BY <2>3, <1>6
    <3>3. listing[i - 1] = Blank BY <3>1, <2>1 DEF Below
    <3>4. \A x \in Names : i - 1 \notin pending'[x] BY <3>1, <2>1 DEF Waiting
    <3> QED BY <3>2, <3>3, <3>4, <1>1, <1>4 DEF Final, Blank
  <2> QED BY <2>2, <2>3
<1> QED BY <1>1, <1>2, <1>7, <1>9, <1>10 DEF AsmInv

\* .EQU changes no word.
LEMMA EquKeepsInv == AsmInv /\ equHandler => AsmInv'
<1> SUFFICES ASSUME AsmInv, equHandler PROVE AsmInv' OBVIOUS
<1>1. PICK x \in Names, o \in Operand :
        /\ Reading
        /\ consts' = [consts EXCEPT ![x] = parseIntOrLabel(o)]
        /\ pending' = Referenced(o)
        /\ failed' = (failed \/ OutOfRange(o))
        /\ orderly' = (orderly /\ ~Unknown(o))
        /\ UNCHANGED <<phase, pc, memory, labels, listing>>
  BY DEF equHandler
<1>2. AsmTypeOK /\ phase = "reading" BY <1>1 DEF AsmInv, Reading
<1>3. AsmTypeOK'
  <2>1. /\ parseIntOrLabel(o) \in Byte /\ Referenced(o) \in [Names -> SUBSET Nat]
        /\ OutOfRange(o) \in BOOLEAN /\ Unknown(o) \in BOOLEAN
    BY <1>2, OperandTypes
  <2>2. consts' \in [Names -> Byte \union {NIL}] BY <2>1, <1>1, <1>2 DEF AsmTypeOK
  <2> QED BY <2>1, <2>2, <1>1, <1>2 DEF AsmTypeOK
<1>4. ASSUME orderly' PROVE orderly /\ pending' = pending
  BY <1>1, <1>4 DEF Referenced
<1>5. ASSUME orderly' PROVE Waiting' /\ Below' /\ phase' /= "crashed"
  BY <1>1, <1>4, <1>5 DEF AsmInv, Waiting, Below
<1>6. ASSUME orderly', ~failed' PROVE Linked'
  BY <1>1, <1>4, <1>6 DEF AsmInv, Linked, Final
<1> QED BY <1>1, <1>2, <1>3, <1>5, <1>6 DEF AsmInv

-----------------------------------------------------------------------------
(* Labels and the end.                                                     *)

\* All words that waited for the label have its address.
LEMMA LabelKeepsInv == AsmInv /\ addLabel => AsmInv'
<1> SUFFICES ASSUME AsmInv, addLabel PROVE AsmInv' OBVIOUS
<1>1. PICK x \in Names :
        /\ Reading
        /\ failed' = (failed \/ labels[x] /= NIL)
        /\ labels' = [labels EXCEPT ![x] = pc]
        /\ memory' = Patched(pending[x])
        /\ pending' = [pending EXCEPT ![x] = {}]
        /\ IF \A i \in pending[x] : i < Len(memory) THEN UNCHANGED phase
           ELSE phase' \in {phase, "crashed"}
        /\ UNCHANGED <<pc, consts, listing, orderly>>
  BY DEF addLabel
<1>2. AsmTypeOK /\ phase = "reading" BY <1>1 DEF AsmInv, Reading
<1>3. /\ memory \in Seq(Word) /\ pc = Len(memory) /\ pc \in Nat /\ pc % Size \in Byte
      /\ DOMAIN memory = 1..pc /\ \A i \in 1..pc : memory[i] \in Word
  BY <1>2, Sizes, LenProperties, ElementOfSeq DEF AsmTypeOK
<1>4. \A i \in 1..pc :
        /\ memory'[i] = IF i - 1 \in pending[x] THEN [memory[i] EXCEPT !.arg = pc % Size]
                        ELSE memory[i]
        /\ memory'[i].op = memory[i].op
        /\ memory'[i].arg = IF i - 1 \in pending[x] THEN pc % Size ELSE memory[i].arg
        /\ memory'[i] \in Word
  BY <1>1, <1>3 DEF Patched, Word
<1>5. memory' \in Seq(Word) /\ Len(memory') = pc
  <2>1. memory' \in [1..pc -> Word] BY <1>1, <1>3, <1>4 DEF Patched
  <2> QED BY <2>1, <1>3, FunctionIsSeq
<1>6. AsmTypeOK'
  <2>1. labels' \in [Names -> Nat \union {NIL}] /\ pending' \in [Names -> SUBSET Nat]
    BY <1>1, <1>2, <1>3 DEF AsmTypeOK
  <2>2. phase' \in {"reading", "done", "crashed"} /\ failed' \in BOOLEAN
    BY <1>1, <1>2 DEF AsmTypeOK
  <2> QED BY <2>1, <2>2, <1>1, <1>2, <1>5 DEF AsmTypeOK
<1>7. /\ labels'[x] = pc /\ pending'[x] = {} /\ labels'[x] /= NIL
      /\ \A z \in Names : z /= x => labels'[z] = labels[z] /\ pending'[z] = pending[z]
  BY <1>1, <1>2, <1>3, AssemblerConstants DEF AsmTypeOK
<1>8. ASSUME orderly PROVE Waiting' /\ Below' /\ phase' = "reading"
  <2>1. Waiting /\ Below BY <1>8 DEF AsmInv
  <2>2. phase' = "reading" BY <2>1, <1>1, <1>2, <1>3 DEF Waiting
  <2>3. Below' BY <2>1, <1>1 DEF Below
  <2> QED BY <2>1, <2>2, <2>3, <1>1, <1>7 DEF Waiting
<1>9. ASSUME orderly, ~failed' PROVE Linked'
  <2>1. Waiting /\ Linked /\ labels[x] = NIL BY <1>1, <1>9 DEF AsmInv
  <2> SUFFICES ASSUME NEW i \in 1..pc
               PROVE  memory'[i].op = listing[i - 1].op /\ Final(i, listing[i - 1])'
    BY <1>1 DEF Linked
  <2>2. memory[i].op = listing[i - 1].op /\ Final(i, listing[i - 1]) BY <2>1 DEF Linked
  <2>3. listing[i - 1].name \in Names \union {NIL}
    <3>1. listing[i - 1] \in Entry BY <1>2, WordAddress DEF AsmTypeOK
    <3> QED BY <3>1 DEF Entry
  <2>4. CASE listing[i - 1].name = NIL
    BY <2>2, <2>4, <1>1, <1>4, <1>7 DEF Final
  <2>5. CASE listing[i - 1].name = x
    <3>1. i - 1 \in pending[x] /\ \A z \in Names : i - 1 \in pending[z] => z = x
      BY <2>1, <2>2, <2>5, AssemblerConstants DEF Final
    <3>2. memory'[i].arg = labels'[x] % Size /\ \A z \in Names : i - 1 \notin pending'[z]
      BY <3>1, <1>4, <1>7
    <3> QED BY <3>2, <2>2, <2>5, <1>1, <1>4, <1>7, AssemblerConstants DEF Final
  <2>6. CASE listing[i - 1].name \in Names \ {x}
    <3>1. i - 1 \notin pending[x] BY <2>2, <2>6, AssemblerConstants DEF Final
    <3>2. memory'[i].arg = memory[i].arg BY <3>1, <1>4
    <3>3. /\ labels'[listing[i - 1].name] = labels[listing[i - 1].name]
          /\ pending'[listing[i - 1].name] = pending[listing[i - 1].name]
      BY <2>6, <1>7
    <3>4. listing'[i - 1] = listing[i - 1] /\ memory'[i].op = listing[i - 1].op BY <2>2, <1>1, <1>4
    <3>5. \A z \in Names : i - 1 \in pending'[z] => z = listing[i - 1].name
      BY <2>2, <2>6, <1>7, AssemblerConstants DEF Final
    <3>6. listing[i - 1].name /= NIL BY <2>6, AssemblerConstants
    <3> QED BY <3>2, <3>3, <3>4, <3>5, <3>6, <2>2 DEF Final
  <2>7. listing[i - 1].name = NIL \/ listing[i - 1].name = x \/ listing[i - 1].name \in Names \ {x}
    BY <2>3
  <2> QED BY <2>4, <2>5, <2>6, <2>7
<1>10. phase' /= "done" BY <1>1, <1>2
<1> QED BY <1>1, <1>6, <1>8, <1>9, <1>10 DEF AsmInv

LEMMA EndKeepsInv == AsmInv /\ (assemble \/ Refused \/ UNCHANGED asmVars) => AsmInv'
<1> SUFFICES ASSUME AsmInv, assemble \/ Refused \/ UNCHANGED asmVars PROVE AsmInv' OBVIOUS
<1>1. CASE assemble
  <2>1. /\ phase' = "done" /\ (~failed' => ~failed /\ ~Unresolved /\ pc <= Size)
        /\ failed' \in BOOLEAN
        /\ UNCHANGED <<pc, memory, labels, consts, pending, listing, orderly>>
    <3>1. failed \in BOOLEAN /\ pc \in Nat BY Sizes DEF AsmInv, AsmTypeOK
    <3>2. Unresolved \in BOOLEAN BY DEF Unresolved
    <3>3. ~(pc > Size) => pc <= Size BY <3>1, Sizes
    <3>4. failed' = (failed \/ Unresolved \/ pc > Size) BY <1>1 DEF assemble
    <3>5. failed' \in BOOLEAN /\ (~failed' => ~failed /\ ~Unresolved /\ ~(pc > Size))
      BY <3>1, <3>2, <3>4
    <3> QED BY <1>1, <3>3, <3>5 DEF assemble
  <2>2. AsmTypeOK' BY <2>1 DEF AsmInv, AsmTypeOK
  <2>3. orderly => Waiting' /\ Below' BY <2>1 DEF AsmInv, Waiting, Below
  <2>4. orderly /\ ~failed' => Linked' BY <2>1 DEF AsmInv, Linked, Final
  <2> QED BY <2>1, <2>2, <2>3, <2>4 DEF AsmInv, Unresolved
<1>2. CASE Refused
  <2>1. /\ failed' = TRUE /\ phase = "reading"
        /\ UNCHANGED <<phase, pc, memory, labels, consts, pending, listing, orderly>>
    BY <1>2 DEF Refused, Reading
  <2>2. AsmTypeOK' BY <2>1 DEF AsmInv, AsmTypeOK
  <2> QED BY <2>1, <2>2 DEF AsmInv, Waiting, Below
<1>3. CASE UNCHANGED asmVars
  BY <1>3 DEF asmVars, AsmInv, AsmTypeOK, Waiting, Below, Linked, Final
<1> QED BY <1>1, <1>2, <1>3

-----------------------------------------------------------------------------

LEMMA AsmInit == Init => AsmInv
<1> SUFFICES ASSUME Init PROVE AsmInv OBVIOUS
<1>1. memory \in Seq(Word) /\ Len(memory) = 0 /\ listing \in [0..Size -> Entry]
  BY EmptySeq DEF Init, Blank, Entry
<1>2. AsmTypeOK
  <2>1. pc \in 0..Size + 1 /\ pc = Len(memory)
    BY <1>1, Sizes DEF Init
  <2>2. /\ labels \in [Names -> Nat \union {NIL}] /\ consts \in [Names -> Byte \union {NIL}]
        /\ pending \in [Names -> SUBSET Nat]
    BY DEF Init
  <2> QED BY <1>1, <2>1, <2>2 DEF Init, AsmTypeOK
<1> QED BY <1>2 DEF Init, AsmInv, Waiting, Below, Linked

LEMMA AsmStep == AsmInv /\ [Next]_asmVars => AsmInv'
<1> SUFFICES ASSUME AsmInv, [Next]_asmVars PROVE AsmInv' OBVIOUS
<1>1. failed \in BOOLEAN /\ AsmTypeOK BY DEF AsmInv, AsmTypeOK
<1>2. \A op \in Opcodes : op \in Nat BY AssemblerConstants
<1>3. \A n \in Numbers \union {0} : [name |-> NIL, num |-> n] \in Operand
  BY DEF Operand
<1>4. CASE operandHandler \/ dataHandler
  <2>1. PICK op \in Nat, o \in Operand : Put(op, o) /\ failed' = (failed \/ OutOfRange(o))
    BY <1>4, <1>2 DEF operandHandler, dataHandler
  <2>2. failed' \in BOOLEAN /\ (~failed' => ~failed /\ ~OutOfRange(o))
    BY <2>1, <1>1 DEF OutOfRange
  <2> QED BY <2>1, <2>2, PutKeepsInv
<1>5. CASE nullHandler
  <2> DEFINE o == [name |-> NIL, num |-> 0]
  <2>1. PICK op \in Nat, params \in BOOLEAN : Put(op, o) /\ failed' = (failed \/ params)
    BY <1>5, <1>2 DEF nullHandler
  <2>2. ~OutOfRange(o) BY Sizes DEF OutOfRange
  <2>3. o \in Operand BY <1>3
  <2> HIDE DEF o
  <2>4. failed' \in BOOLEAN /\ (~failed' => ~failed /\ ~OutOfRange(o)) BY <2>1, <2>2, <1>1
  <2> QED BY <2>1, <2>3, <2>4, PutKeepsInv
<1>6. CASE rawHandler
  <2>1. PICK op \in Nat, n \in Numbers :
          n < Size /\ Put(op, [name |-> NIL, num |-> n]) /\ UNCHANGED failed
    BY <1>6, <1>2 DEF rawHandler
  <2> DEFINE o == [name |-> NIL, num |-> n]
  <2>2. o \in Operand BY <1>3
  <2>3. ~OutOfRange(o) BY <2>1, Sizes, AssemblerConstants DEF OutOfRange
  <2> HIDE DEF o
  <2>4. Put(op, o) /\ UNCHANGED failed BY <2>1 DEF o
  <2>5. failed' \in BOOLEAN /\ (~failed' => ~failed /\ ~OutOfRange(o)) BY <2>3, <2>4, <1>1
  <2> QED BY <2>2, <2>4, <2>5, PutKeepsInv
<1>7. CASE orgHandler BY <1>7, OrgKeepsInv
<1>8. CASE equHandler BY <1>8, EquKeepsInv
<1>9. CASE addLabel BY <1>9, LabelKeepsInv
<1>10. CASE assemble \/ Refused \/ UNCHANGED asmVars BY <1>10, EndKeepsInv
<1> QED BY <1>4, <1>5, <1>6, <1>7, <1>8, <1>9, <1>10 DEF Next, Assembled

LEMMA AsmInvariance == Spec => []AsmInv
BY AsmInit, AsmStep, PTL DEF Spec

\* A program without errors is put out as its listing says, and code() has room for it
\* (assembler.cpp:66-116, 219-255).
THEOREM OnePassSuffices == Spec => [](Resolved /\ CodeFits)
<1>1. ASSUME AsmInv, phase = "done", ~failed, orderly PROVE Meant
  <2>1. Linked /\ Below /\ AsmTypeOK /\ \A x \in Names : pending[x] = {} BY <1>1 DEF AsmInv
  <2> SUFFICES ASSUME NEW i \in 1..pc
               PROVE  /\ memory[i].op = listing[i - 1].op
                      /\ IF listing[i - 1].name = NIL THEN memory[i].arg = listing[i - 1].num
                         ELSE /\ labels[listing[i - 1].name] /= NIL
                              /\ memory[i].arg = labels[listing[i - 1].name] % Size
    BY <2>1 DEF Meant, Below
  <2>2. listing[i - 1].name \in Names \union {NIL}
    <3>1. listing[i - 1] \in Entry BY <2>1, WordAddress DEF AsmTypeOK
    <3> QED BY <3>1 DEF Entry
  <2> QED BY <2>1, <2>2 DEF Linked, Final
<1>2. AsmInv => CodeFits
  <2> SUFFICES ASSUME AsmInv, phase = "done", ~failed PROVE pc <= Rams * Half
    BY DEF CodeFits
  <2>1. pc <= 2 * Half /\ pc \in Nat BY Sizes DEF AsmInv, AsmTypeOK, Size
  <2> QED BY <2>1, AssemblerConstants DEF Rams
<1>3. AsmInv => Resolved /\ CodeFits BY <1>1, <1>2 DEF Resolved
<1> QED BY <1>3, AsmInvariance, PTL

\* Whatever is assembled without errors is no longer than the two RAMs that the assembler
\* window writes it to, whatever the origins are (assembler.cpp:89-97).
THEOREM CodeIsBounded == Spec => []CodeFits
BY OnePassSuffices, PTL

\* Patches hit words of the program, and pc_ is the size of memory_ at all times
\* (assembler.cpp:99-116, 257-341).
THEOREM PatchesAreSafe == Spec => [](AsmTypeOK /\ PatchesHit)
<1>1. AsmInv => AsmTypeOK /\ PatchesHit BY DEF AsmInv, PatchesHit
<1> QED BY <1>1, AsmInvariance, PTL
=============================================================================
