-------------------------- MODULE Intel8049_proofs --------------------------
(***************************************************************************)
(* Proofs about Intel8049: the stack, the one interrupt level and the way  *)
(* back from both, for every size of page, bank, ROM, stack and timer.     *)
(*                                                                         *)
(* The invariant is stated of a CPU c and the open frames fs, because it   *)
(* holds twice in a step: after the instruction and after the interrupt.   *)
(***************************************************************************)
EXTENDS Intel8049, SequenceTheorems, TLAPS

\* tick() counts down only a prescaler that STRT T has loaded.
Typed(c) ==
    /\ c \in Cpu
    /\ c.counts = "cycles" => c.cyclesUntilCount /= 0

Stacked(c, fs) ==
    /\ Len(fs) <= StackSize
    /\ c.sp = IF Len(fs) = StackSize THEN 0 ELSE Len(fs)
    /\ \A i \in 1..Len(fs) : c.stack[i - 1] = [pc |-> fs[i].pc, flags |-> fs[i].flags]

Once(c, fs) ==
    /\ c.inInterrupt <=> \E i \in 1..Len(fs) : fs[i].kind = "interrupt"
    /\ \A i, j \in 1..Len(fs) : fs[i].kind = "interrupt" /\ fs[j].kind = "interrupt" => i = j

\* Outside an interrupt routine one frame is free.
Room(c, fs) == Len(fs) + (IF c.inInterrupt THEN 0 ELSE 1) <= StackSize

Sound(c, fs) ==
    /\ Typed(c) /\ fs \in Seq(OpenFrame)
    /\ Stacked(c, fs) /\ Once(c, fs) /\ Room(c, fs)

HistoryOK == clock \in 0..Period - 1 /\ wrapped \in BOOLEAN

CpuInv == Sound(cpu, frames) /\ HistoryOK /\ PendingOnlyWhileBusy

-----------------------------------------------------------------------------
(* The private methods.                                                    *)

\* What a tick may change is the timer.
SameStack(c, d) ==
    d.sp = c.sp /\ d.stack = c.stack /\ d.inInterrupt = c.inInterrupt
SameProgram(c, d) ==
    d.pc = c.pc /\ d.flags = c.flags /\ d.enabled = c.enabled

\* SMT sees one record at a time.
LEMMA IncCounterTyped ==
    ASSUME NEW c, Typed(c)
    PROVE  LET d == incCounter(c)
           IN  Typed(d) /\ SameStack(c, d) /\ SameProgram(c, d)
<1> DEFINE over == c.t = TSize - 1
           next == IF over THEN 0 ELSE c.t + 1
<1>1. next \in 0..TSize - 1
  BY WidthsOK DEF WidthsOK, Typed, Cpu
<1>2. (c.tf \/ over) \in BOOLEAN /\ (c.requested \/ over) \in BOOLEAN
  BY Zenon
<1>3. incCounter(c) = [c EXCEPT !.tf = c.tf \/ over, !.requested = c.requested \/ over, !.t = next]
  BY DEF incCounter
<1> HIDE DEF over, next
<1> QED BY <1>1, <1>2, <1>3 DEF Typed, Cpu, SameStack, SameProgram

LEMMA TickTyped ==
    ASSUME NEW c, Typed(c)
    PROVE  Typed(tick(c)) /\ SameStack(c, tick(c)) /\ SameProgram(c, tick(c))
<1>1. CASE c.counts /= "cycles"
  BY <1>1 DEF tick, SameStack, SameProgram
<1>2. CASE c.counts = "cycles" /\ c.cyclesUntilCount = 1
  <2> DEFINE d == [c EXCEPT !.cyclesUntilCount = Prescaler]
  <2>1. Prescaler \in 0..Prescaler /\ Prescaler /= 0
    BY WidthsOK DEF WidthsOK
  <2>2. Typed(d) /\ SameStack(c, d) /\ SameProgram(c, d)
    BY <2>1 DEF Typed, Cpu, SameStack, SameProgram
  <2>3. tick(c) = incCounter(d)
    BY <1>2 DEF tick
  <2> HIDE DEF d
  <2> QED BY <2>2, <2>3, IncCounterTyped DEF SameStack, SameProgram
<1>3. CASE c.counts = "cycles" /\ c.cyclesUntilCount /= 1
  <2> DEFINE n == c.cyclesUntilCount - 1
  <2>1. n \in 0..Prescaler /\ n /= 0
    BY <1>3, WidthsOK DEF WidthsOK, Typed, Cpu
  <2>2. tick(c) = [c EXCEPT !.cyclesUntilCount = n]
    BY <1>3 DEF tick
  <2> HIDE DEF n
  <2> QED BY <2>1, <2>2 DEF Typed, Cpu, SameStack, SameProgram
<1> QED BY <1>1, <1>2, <1>3

LEMMA TicksTyped ==
    ASSUME NEW c, Typed(c), NEW cycles
    PROVE  LET d == Ticks(c, cycles)
           IN  Typed(d) /\ SameStack(c, d) /\ SameProgram(c, d)
<1>1. Typed(tick(c)) /\ SameStack(c, tick(c)) /\ SameProgram(c, tick(c))
  BY TickTyped
<1>2. LET d == tick(tick(c)) IN Typed(d) /\ SameStack(tick(c), d) /\ SameProgram(tick(c), d)
  BY <1>1, TickTyped
<1> QED BY <1>1, <1>2 DEF Ticks, SameStack, SameProgram

LEMMA FetchedTyped ==
    ASSUME Typed(cpu), NEW bytes \in Nat, NEW cycles
    PROVE  LET c == Fetched(bytes, cycles)
           IN  /\ Typed(c) /\ SameStack(cpu, c)
               /\ c.pc = cpu.pc + bytes /\ c.flags = cpu.flags /\ c.enabled = cpu.enabled
<1> DEFINE b == [cpu EXCEPT !.pc = @ + bytes]
<1>1. /\ Typed(b) /\ SameStack(cpu, b)
      /\ b.pc = cpu.pc + bytes /\ b.flags = cpu.flags /\ b.enabled = cpu.enabled
  BY DEF Typed, Cpu, SameStack
<1>2. LET d == Ticks(b, cycles) IN Typed(d) /\ SameStack(b, d) /\ SameProgram(b, d)
  BY <1>1, TicksTyped
<1> QED BY <1>1, <1>2 DEF Fetched, SameStack, SameProgram

\* The invariant looks at the stack and at inInterrupt only.
LEMMA SoundElsewhere ==
    ASSUME NEW c, NEW d, NEW fs, Sound(c, fs), Typed(d), SameStack(c, d)
    PROVE  Sound(d, fs)
BY DEF Sound, SameStack, Stacked, Once, Room
-----------------------------------------------------------------------------
(* The stack.                                                              *)

LEMMA AppendFacts ==
    ASSUME NEW S, NEW s \in Seq(S), NEW x \in S
    PROVE  /\ Append(s, x) \in Seq(S) /\ Len(s) \in Nat
           /\ Len(Append(s, x)) = Len(s) + 1
           /\ \A i \in 1..Len(s) : Append(s, x)[i] = s[i]
           /\ Append(s, x)[Len(s) + 1] = x
  OBVIOUS

LEMMA FrontFacts ==
    ASSUME NEW S, NEW s \in Seq(S), s /= <<>>
    PROVE  LET front == SubSeq(s, 1, Len(s) - 1)
           IN  /\ front \in Seq(S) /\ Len(s) \in Nat \ {0}
               /\ Len(front) = Len(s) - 1
               /\ \A i \in 1..Len(front) : front[i] = s[i]
               /\ s[Len(s)] \in S
<1> DEFINE n == Len(s)
           front == SubSeq(s, 1, n - 1)
<1>1. n \in Nat /\ n /= 0 /\ \A i \in 1..n : s[i] \in S
  BY LenProperties, ElementOfSeq, EmptySeq
<1>2. n - 1 \in Int /\ \A i \in 1..n - 1 : s[i] \in S
  BY <1>1
<1>3. /\ front \in Seq(S)
      /\ Len(front) = IF 1 <= n - 1 THEN n - 1 - 1 + 1 ELSE 0
      /\ \A i \in 1..n - 1 - 1 + 1 : front[i] = s[1 + i - 1]
  BY <1>2, SubSeqProperties
<1> DEFINE m == Len(front)
<1>4. m = IF 1 <= n - 1 THEN n - 1 - 1 + 1 ELSE 0
  BY <1>3
<1> HIDE DEF n, m, front
<1>5. m = n - 1
  BY <1>1, <1>4
<1>6. \A i \in 1..m : front[i] = s[i]
  BY <1>1, <1>3, <1>5
<1>7. n \in Nat \ {0} /\ s[n] \in S
  BY <1>1
<1> QED BY <1>3, <1>5, <1>6, <1>7 DEF front, m, n

FrameOf(c, kind) == [pc |-> c.pc, flags |-> c.flags, kind |-> kind]

LEMMA PushStacked ==
    ASSUME NEW c, NEW fs, Sound(c, fs), Len(fs) < StackSize,
           NEW kind \in {"call", "interrupt"}
    PROVE  LET e == Append(fs, FrameOf(c, kind))
           IN  /\ Typed(push(c)) /\ e \in Seq(OpenFrame) /\ Stacked(push(c), e)
               /\ push(c).inInterrupt = c.inInterrupt
               /\ Len(e) = Len(fs) + 1
<1> DEFINE e == Append(fs, FrameOf(c, kind))
           f == [pc |-> c.pc, flags |-> c.flags]
           next == Succ(c.sp)
<1>1. /\ c.sp = Len(fs) /\ c.sp \in 0..StackSize - 1 /\ Len(fs) \in Nat
      /\ c.pc \in Nat /\ c.flags \in Flags /\ fs \in Seq(OpenFrame) /\ c \in Cpu
      /\ StackSize \in Nat
  BY WidthsOK DEF WidthsOK, Sound, Typed, Cpu, Stacked
<1>2. next \in 0..StackSize - 1 /\ next = IF Len(fs) + 1 = StackSize THEN 0 ELSE Len(fs) + 1
  BY <1>1 DEF Succ
<1>3. f \in Frame /\ FrameOf(c, kind) \in OpenFrame
  BY <1>1 DEF Frame, OpenFrame, FrameOf
<1>4. /\ e \in Seq(OpenFrame) /\ Len(e) = Len(fs) + 1
      /\ \A i \in 1..Len(fs) : e[i] = fs[i]
      /\ e[Len(fs) + 1] = FrameOf(c, kind)
  BY <1>1, <1>3, AppendFacts
<1>5. push(c) = [c EXCEPT !.stack[c.sp] = f, !.sp = next]
  BY DEF push
<1> HIDE DEF f, next, e
<1>6. /\ Typed(push(c)) /\ push(c).inInterrupt = c.inInterrupt
      /\ push(c).sp = next /\ push(c).stack = [c.stack EXCEPT ![c.sp] = f]
  BY <1>1, <1>2, <1>3, <1>5 DEF Sound, Typed, Cpu
<1>7. Stacked(push(c), e)
  <2>1. Len(e) <= StackSize /\ push(c).sp = IF Len(e) = StackSize THEN 0 ELSE Len(e)
    BY <1>1, <1>2, <1>4, <1>6
  <2>2. ASSUME NEW i \in 1..Len(e)
        PROVE  push(c).stack[i - 1] = [pc |-> e[i].pc, flags |-> e[i].flags]
    <3>0. c.stack \in [0..StackSize - 1 -> Frame]
      BY <1>1 DEF Cpu
    <3>1. CASE i = Len(e)
      <4>1. i - 1 = c.sp /\ e[i] = FrameOf(c, kind)
        BY <1>1, <1>4, <3>1
      <4> QED BY <4>1, <3>0, <1>1, <1>6 DEF f, FrameOf
    <3>2. CASE i /= Len(e)
      <4>1. i \in 1..Len(fs) /\ i - 1 /= c.sp /\ e[i] = fs[i] /\ i - 1 \in 0..StackSize - 1
        BY <1>1, <1>4, <3>2
      <4>2. c.stack[i - 1] = [pc |-> fs[i].pc, flags |-> fs[i].flags]
        BY <4>1 DEF Sound, Stacked
      <4> QED BY <4>1, <4>2, <3>0, <1>6
    <3> QED BY <3>1, <3>2
  <2> QED BY <2>1, <2>2 DEF Stacked
<1> QED BY <1>4, <1>6, <1>7 DEF e

\* pop() before it looks at its argument.
LEMMA PopStacked ==
    ASSUME NEW c, NEW fs, Sound(c, fs), fs /= <<>>, NEW restore \in BOOLEAN
    PROVE  LET front == SubSeq(fs, 1, Len(fs) - 1)
               top == fs[Len(fs)]
               d == pop(c, restore)
           IN  /\ Typed(d) /\ front \in Seq(OpenFrame) /\ Stacked(d, front)
               /\ Len(front) = Len(fs) - 1 /\ \A i \in 1..Len(front) : front[i] = fs[i]
               /\ d.pc = top.pc
               /\ d.flags = IF restore THEN top.flags ELSE c.flags
               /\ d.inInterrupt = (~restore /\ c.inInterrupt)
               /\ d.enabled = c.enabled
<1> DEFINE front == SubSeq(fs, 1, Len(fs) - 1)
           n == Len(fs)
           top == fs[n]
           below == Pred(c.sp)
           flags == IF restore THEN top.flags ELSE c.flags
           busy == ~restore /\ c.inInterrupt
           d == pop(c, restore)
<1>1. /\ fs \in Seq(OpenFrame) /\ c \in Cpu /\ n \in Nat \ {0} /\ n <= StackSize
      /\ c.sp = IF n = StackSize THEN 0 ELSE n
      /\ StackSize \in Nat
  BY WidthsOK, FrontFacts DEF WidthsOK, Sound, Typed, Stacked
<1>2. /\ front \in Seq(OpenFrame) /\ Len(front) = n - 1
      /\ \A i \in 1..Len(front) : front[i] = fs[i]
      /\ top \in OpenFrame
  BY <1>1, FrontFacts
<1>3. below = n - 1 /\ below \in 0..StackSize - 1
  BY <1>1 DEF Pred
<1>4. c.stack[below] = [pc |-> top.pc, flags |-> top.flags]
  <2>1. n \in 1..Len(fs)
    BY <1>1
  <2> QED BY <2>1, <1>3 DEF Sound, Stacked
<1>5. top.pc \in Nat /\ top.flags \in Flags /\ c.flags \in Flags
  BY <1>1, <1>2 DEF OpenFrame, Cpu
<1>6. flags \in Flags /\ busy \in BOOLEAN
  BY <1>5
<1>7. d = [c EXCEPT !.pc = top.pc, !.sp = below, !.bit3 = 1, !.flags = flags, !.inInterrupt = busy]
  BY <1>4 DEF pop
<1> HIDE DEF front, n, top, below, flags, busy, d
<1>8. /\ Typed(d) /\ d.pc = top.pc /\ d.flags = flags /\ d.inInterrupt = busy
      /\ d.sp = below /\ d.stack = c.stack /\ d.enabled = c.enabled
  BY <1>1, <1>3, <1>5, <1>6, <1>7 DEF Sound, Typed, Cpu
<1>9. Stacked(d, front)
  <2>1. Len(front) <= StackSize /\ d.sp = IF Len(front) = StackSize THEN 0 ELSE Len(front)
    BY <1>1, <1>2, <1>3, <1>8
  <2>2. ASSUME NEW i \in 1..Len(front)
        PROVE  d.stack[i - 1] = [pc |-> front[i].pc, flags |-> front[i].flags]
    <3>1. i \in 1..Len(fs) /\ front[i] = fs[i]
      BY <1>1, <1>2 DEF n
    <3> QED BY <3>1, <1>8 DEF Sound, Stacked
  <2> QED BY <2>1, <2>2 DEF Stacked
<1> QED BY <1>2, <1>8, <1>9 DEF front, n, top, flags, busy, d
\* An interrupt is taken on top of any sound state: one frame is free.
LEMMA InterruptSound ==
    ASSUME NEW c, NEW fs, Sound(c, fs), Takes(c)
    PROVE  /\ Sound(handleInterrupts(c), Append(fs, FrameOf(c, "interrupt")))
           /\ handleInterrupts(c).inInterrupt
<1> DEFINE e == Append(fs, FrameOf(c, "interrupt"))
           h == handleInterrupts(c)
<1>1. ~c.inInterrupt /\ fs \in Seq(OpenFrame) /\ Len(fs) \in Nat /\ StackSize \in Nat
  BY WidthsOK, LenProperties DEF WidthsOK, Takes, Sound
<1>2. Len(fs) < StackSize
  BY <1>1 DEF Sound, Room
<1>3. /\ Typed(push(c)) /\ e \in Seq(OpenFrame) /\ Stacked(push(c), e)
      /\ Len(e) = Len(fs) + 1
  BY <1>2, PushStacked
<1>4. FrameOf(c, "interrupt") \in OpenFrame
  BY DEF FrameOf, OpenFrame, Sound, Typed, Cpu
<1>5. /\ \A i \in 1..Len(fs) : e[i] = fs[i]
      /\ e[Len(fs) + 1].kind = "interrupt"
  BY <1>1, <1>4, AppendFacts DEF FrameOf
<1>6. h = [push(c) EXCEPT !.requested = FALSE, !.pc = TimerVector, !.inInterrupt = TRUE]
  BY DEF handleInterrupts
<1> HIDE DEF e, h
<1>7. /\ Typed(h) /\ h.sp = push(c).sp /\ h.stack = push(c).stack /\ h.inInterrupt = TRUE
  BY <1>3, <1>6, WidthsOK DEF WidthsOK, Typed, Cpu
<1>8. Stacked(h, e)
  BY <1>3, <1>7 DEF Stacked
<1>9. Once(h, e)
  <2>1. \A i \in 1..Len(fs) : fs[i].kind /= "interrupt"
    BY <1>1 DEF Sound, Once
  <2>2. \A i \in 1..Len(e) : e[i].kind = "interrupt" <=> i = Len(fs) + 1
    <3> SUFFICES ASSUME NEW i \in 1..Len(e) PROVE e[i].kind = "interrupt" <=> i = Len(fs) + 1
      OBVIOUS
    <3>1. i = Len(fs) + 1 \/ i \in 1..Len(fs)
      BY <1>1, <1>3
    <3> QED BY <3>1, <1>1, <1>5, <2>1
  <2>3. Len(fs) + 1 \in 1..Len(e)
    BY <1>1, <1>3
  <2> QED BY <2>2, <2>3, <1>7 DEF Once
<1>10. Room(h, e)
  BY <1>1, <1>2, <1>3, <1>7 DEF Room
<1> QED BY <1>3, <1>7, <1>8, <1>9, <1>10 DEF Sound, e, h

LEMMA FinishSound ==
    ASSUME NEW c, NEW fs, Sound(c, fs), Finish(c, fs)
    PROVE  Sound(cpu', frames') /\ PendingOnlyWhileBusy'
<1>1. CASE Takes(c)
  <2>1. cpu' = handleInterrupts(c) /\ frames' = Append(fs, FrameOf(c, "interrupt"))
    BY <1>1 DEF Finish, FrameOf
  <2> QED BY <1>1, <2>1, InterruptSound DEF PendingOnlyWhileBusy
<1>2. CASE ~Takes(c)
  <2>1. cpu' = c /\ frames' = fs
    BY <1>2 DEF Finish, handleInterrupts
  <2> QED BY <1>2, <2>1 DEF PendingOnlyWhileBusy, Takes
<1> QED BY <1>1, <1>2

-----------------------------------------------------------------------------
(* The timer's history stays within a period.                              *)

LEMMA PeriodFacts ==
    /\ Period \in Nat \ {0}
    /\ \A v \in 0..TSize - 1, k \in 0..Prescaler - 1 : v * Prescaler + k \in 0..Period - 1
<1> USE WidthsOK DEF WidthsOK, Period
<1>1. Period \in Nat \ {0}
  BY SMT
<1>2. ASSUME NEW v \in 0..TSize - 1, NEW k \in 0..Prescaler - 1
      PROVE  v * Prescaler + k \in 0..Period - 1
  <2>1. v * Prescaler <= (TSize - 1) * Prescaler /\ v * Prescaler >= 0
    BY SMT
  <2>2. (TSize - 1) * Prescaler = Period - Prescaler
    BY SMT
  <2>3. v * Prescaler \in Int /\ Period \in Int /\ (TSize - 1) * Prescaler \in Int
    BY SMT
  <2> HIDE DEF Period
  <2> QED BY <2>1, <2>2, <2>3, SMT
<1> QED BY <1>1, <1>2

LEMMA ModFacts ==
    ASSUME NEW n \in Nat, NEW p \in Nat \ {0}
    PROVE  n % p \in 0..p - 1
BY SMT

LEMMA CountedOK ==
    ASSUME HistoryOK, NEW cycles \in {1, 2}, Counted(cycles)
    PROVE  HistoryOK'
<1>1. Elapsed(cycles) \in Nat
  BY PeriodFacts DEF HistoryOK, Elapsed
<1>2. clock' \in 0..Period - 1
  BY <1>1, PeriodFacts, ModFacts DEF Counted
<1>3. wrapped' \in BOOLEAN
  BY DEF Counted
<1> QED BY <1>2, <1>3 DEF HistoryOK, Period
-----------------------------------------------------------------------------
(* The steps.                                                              *)

\* Instructions that leave the stack alone.
LEMMA DoSound ==
    ASSUME CpuInv, NEW bytes, NEW cycles \in {1, 2}, NEW c, Typed(c), SameStack(cpu, c),
           Do(bytes, cycles, c)
    PROVE  CpuInv'
<1>1. Sound(c, frames)
  BY SoundElsewhere DEF CpuInv
<1>2. Sound(cpu', frames') /\ PendingOnlyWhileBusy'
  BY <1>1, FinishSound DEF Do
<1>3. HistoryOK'
  BY CountedOK DEF CpuInv, Do
<1>4. Sound(cpu, frames)'
  BY <1>2 DEF Sound, Typed, Stacked, Once, Room, Cpu
<1> QED BY <1>2, <1>3, <1>4 DEF CpuInv

LEMMA InnerSound ==
    ASSUME CpuInv, Plain \/ Branch \/ JMPP \/ JMP \/ SEL_MB \/ MOV_PSW_A
                   \/ EN_TCNTI \/ DIS_TCNTI \/ STRT_CNT \/ STOP_TCNT
    PROVE  CpuInv'
<1> DEFINE F(bytes, cycles) == Fetched(bytes, cycles)
<1> HIDE DEF F
<1>0. \A bytes \in {1, 2}, cycles \in {1, 2} : Typed(F(bytes, cycles)) /\ SameStack(cpu, F(bytes, cycles))
  BY FetchedTyped DEF F, CpuInv, Sound
<1>1. CASE Plain
  <2>1. PICK bytes \in 1..2, cycles \in 1..2, f \in Flags :
            Do(bytes, cycles, [F(bytes, cycles) EXCEPT !.flags = f])
    BY <1>1 DEF Plain, F
  <2> DEFINE c == [F(bytes, cycles) EXCEPT !.flags = f]
  <2>2. bytes \in {1, 2} /\ cycles \in {1, 2}
    OBVIOUS
  <2>3. Typed(F(bytes, cycles)) /\ SameStack(cpu, F(bytes, cycles))
    BY <1>0, <2>2
  <2>4. Typed(c) /\ SameStack(cpu, c)
    BY <2>3 DEF Typed, Cpu, SameStack
  <2> HIDE DEF c
  <2> QED BY <2>1, <2>2, <2>4, DoSound DEF c
<1>2. CASE Branch \/ JMPP \/ JMP
  <2>0. /\ PageOf(cpu.pc + 1) \cup {cpu.pc + 2} \subseteq Nat
        /\ PageOf(cpu.pc + 1) \subseteq Nat /\ Far \subseteq Nat
    BY DEF PageOf, Far, CpuInv, Sound, Typed, Cpu
  <2>1. PICK bytes \in {1, 2}, to \in Nat : Do(bytes, 2, [F(bytes, 2) EXCEPT !.pc = to])
    BY <2>0, <1>2, Zenon DEF Branch, JMPP, JMP, F
  <2> DEFINE c == [F(bytes, 2) EXCEPT !.pc = to]
  <2>2. Typed(c) /\ SameStack(cpu, c)
    BY <1>0 DEF Typed, Cpu, SameStack
  <2> HIDE DEF c
  <2> QED BY <2>1, <2>2, DoSound DEF c
<1>3. CASE SEL_MB
  <2>1. PICK bank \in {0, 1} : Do(1, 1, [F(1, 1) EXCEPT !.dbf = bank])
    BY <1>3 DEF SEL_MB, F
  <2> DEFINE c == [F(1, 1) EXCEPT !.dbf = bank]
  <2>2. Typed(c) /\ SameStack(cpu, c)
    BY <1>0 DEF Typed, Cpu, SameStack
  <2> HIDE DEF c
  <2> QED BY <2>1, <2>2, DoSound DEF c
<1>4. CASE MOV_PSW_A
  <2>1. PICK f \in Flags, b \in {0, 1} : Do(1, 1, [F(1, 1) EXCEPT !.flags = f, !.bit3 = b])
    BY <1>4 DEF MOV_PSW_A, F
  <2> DEFINE c == [F(1, 1) EXCEPT !.flags = f, !.bit3 = b]
  <2>2. Typed(c) /\ SameStack(cpu, c)
    BY <1>0 DEF Typed, Cpu, SameStack
  <2> HIDE DEF c
  <2> QED BY <2>1, <2>2, DoSound DEF c
<1>5. CASE EN_TCNTI
  <2> DEFINE c == [F(1, 1) EXCEPT !.enabled = TRUE]
  <2>1. Typed(c) /\ SameStack(cpu, c)
    BY <1>0 DEF Typed, Cpu, SameStack
  <2>2. Do(1, 1, c)
    BY <1>5 DEF EN_TCNTI, F
  <2> HIDE DEF c
  <2> QED BY <2>1, <2>2, DoSound
<1>6. CASE DIS_TCNTI
  <2> DEFINE c == [F(1, 1) EXCEPT !.enabled = FALSE, !.requested = FALSE]
  <2>1. Typed(c) /\ SameStack(cpu, c)
    BY <1>0 DEF Typed, Cpu, SameStack
  <2>2. Do(1, 1, c)
    BY <1>6 DEF DIS_TCNTI, F
  <2> HIDE DEF c
  <2> QED BY <2>1, <2>2, DoSound
<1>7. CASE STRT_CNT \/ STOP_TCNT
  <2>1. PICK k \in {"T1", "nothing"} : Do(1, 1, [F(1, 1) EXCEPT !.counts = k])
    BY <1>7 DEF STRT_CNT, STOP_TCNT, F
  <2> DEFINE c == [F(1, 1) EXCEPT !.counts = k]
  <2>2. Typed(c) /\ SameStack(cpu, c)
    BY <1>0 DEF Typed, Cpu, SameStack
  <2> HIDE DEF c
  <2> QED BY <2>1, <2>2, DoSound DEF c
<1> QED BY <1>1, <1>2, <1>3, <1>4, <1>5, <1>6, <1>7

\* Instructions that set the timer or test its flag.
LEMMA TimerSound ==
    ASSUME CpuInv, JTF \/ STRT_T \/ MOV_T_A
    PROVE  CpuInv'
<1>0. \A bytes \in {1, 2}, cycles \in {1, 2} :
          Typed(Fetched(bytes, cycles)) /\ SameStack(cpu, Fetched(bytes, cycles))
  BY FetchedTyped DEF CpuInv, Sound
<1>1. ASSUME NEW c, Typed(c), SameStack(cpu, c), Finish(c, frames), HistoryOK'
      PROVE  CpuInv'
  <2>1. Sound(c, frames)
    BY <1>1, SoundElsewhere DEF CpuInv
  <2>2. Sound(cpu', frames') /\ PendingOnlyWhileBusy'
    BY <1>1, <2>1, FinishSound
  <2> QED BY <1>1, <2>2 DEF CpuInv, Sound, Typed, Stacked, Once, Room, Cpu
<1>2. \A cycles \in {1, 2} : Elapsed(cycles) \in Nat
  BY PeriodFacts DEF CpuInv, HistoryOK, Elapsed
<1>3. CASE JTF
  <2> DEFINE c == Fetched(2, 2)
  <2>1. PICK to \in PageOf(cpu.pc + 1) :
            Finish(IF c.tf THEN [c EXCEPT !.tf = FALSE, !.pc = to] ELSE c, frames)
    BY <1>3 DEF JTF
  <2>2. to \in Nat
    BY DEF PageOf
  <2> DEFINE d == IF c.tf THEN [c EXCEPT !.tf = FALSE, !.pc = to] ELSE c
  <2>3. Typed(c) /\ SameStack(cpu, c)
    BY <1>0
  <2> HIDE DEF c
  <2>4. Typed(d) /\ SameStack(cpu, d)
    BY <2>2, <2>3 DEF Typed, Cpu, SameStack
  <2>5. HistoryOK'
    BY <1>3, <1>2, PeriodFacts, ModFacts DEF JTF, HistoryOK, Period
  <2> HIDE DEF d
  <2> QED BY <2>1, <2>4, <2>5, <1>1 DEF d
<1>4. CASE STRT_T
  <2> DEFINE b == Fetched(1, 1)
             c == StartTimer(b)
  <2>1. Typed(b) /\ SameStack(cpu, b)
    BY <1>0
  <2> HIDE DEF b
  <2>2. Typed(c) /\ SameStack(cpu, c)
    <3>1. Prescaler \in 0..Prescaler /\ Prescaler /= 0
      BY WidthsOK DEF WidthsOK
    <3> QED BY <2>1, <3>1 DEF StartTimer, Typed, Cpu, SameStack
  <2>3. Finish(c, frames) /\ clock' = c.t * Prescaler /\ wrapped' = Overflows(1)
    BY <1>4 DEF STRT_T, b
  <2> HIDE DEF c
  <2>4. clock' \in 0..Period - 1
    <3>1. c.t \in 0..TSize - 1 /\ 0 \in 0..Prescaler - 1 /\ c.t * Prescaler + 0 = c.t * Prescaler
      BY <2>2, WidthsOK DEF WidthsOK, Typed, Cpu
    <3> QED BY <2>3, <3>1, PeriodFacts
  <2>5. wrapped' \in BOOLEAN
    BY <2>3 DEF Overflows
  <2> QED BY <2>2, <2>3, <2>4, <2>5, <1>1 DEF HistoryOK, Period
<1>5. CASE MOV_T_A
  <2>1. PICK v \in 0..TSize - 1 :
            /\ Finish([Fetched(1, 1) EXCEPT !.t = v], frames)
            /\ clock' = v * Prescaler + (Elapsed(1) % Prescaler) /\ wrapped' = Overflows(1)
    BY <1>5 DEF MOV_T_A
  <2> DEFINE b == Fetched(1, 1)
             c == [b EXCEPT !.t = v]
  <2>2. Typed(b) /\ SameStack(cpu, b)
    BY <1>0
  <2> HIDE DEF b
  <2>3. Typed(c) /\ SameStack(cpu, c)
    BY <2>2 DEF Typed, Cpu, SameStack
  <2>4. Finish(c, frames)
    BY <2>1 DEF b
  <2> HIDE DEF c
  <2>5. clock' \in 0..Period - 1
    BY <2>1, <1>2, PeriodFacts, ModFacts, WidthsOK DEF WidthsOK
  <2>6. wrapped' \in BOOLEAN
    BY <2>1 DEF Overflows
  <2> QED BY <2>3, <2>4, <2>5, <2>6, <1>1 DEF HistoryOK, Period
<1> QED BY <1>3, <1>4, <1>5
\* A fetched instruction finds the stack as it was.
LEMMA FetchedSound ==
    ASSUME CpuInv, NEW bytes \in {1, 2}, NEW cycles \in {1, 2}
    PROVE  LET c == Fetched(bytes, cycles)
           IN  /\ Sound(c, frames) /\ c.inInterrupt = cpu.inInterrupt
               /\ c.pc = cpu.pc + bytes /\ c.flags = cpu.flags
BY FetchedTyped, SoundElsewhere DEF CpuInv, Sound, SameStack

LEMMA FinishInv ==
    ASSUME CpuInv, NEW c, NEW fs, Sound(c, fs), Finish(c, fs), Counted(2)
    PROVE  CpuInv'
<1>1. Sound(cpu', frames') /\ PendingOnlyWhileBusy'
  BY FinishSound
<1>2. HistoryOK'
  BY CountedOK DEF CpuInv
<1> QED BY <1>1, <1>2 DEF CpuInv, Sound, Typed, Stacked, Once, Room, Cpu

LEMMA CallSound ==
    ASSUME CpuInv, CALL
    PROVE  CpuInv'
<1> DEFINE c == Fetched(2, 2)
           e == Append(frames, FrameOf(c, "call"))
<1>1. PICK to \in Far : Finish([push(c) EXCEPT !.pc = to], e)
  BY DEF CALL, FrameOf
<1>2. Sound(c, frames) /\ c.inInterrupt = cpu.inInterrupt
  BY FetchedSound
<1> DEFINE d == [push(c) EXCEPT !.pc = to]
<1>3. /\ frames \in Seq(OpenFrame) /\ Len(frames) \in Nat /\ StackSize \in Nat
      /\ Open < StackSize /\ to \in Nat
  BY WidthsOK, LenProperties DEF WidthsOK, CpuInv, Sound, CALL, Far
<1>4. Len(frames) + (IF c.inInterrupt THEN 0 ELSE 1) < StackSize /\ Len(frames) < StackSize
  BY <1>2, <1>3 DEF Open
<1>5. FrameOf(c, "call") \in OpenFrame
  BY <1>2 DEF FrameOf, OpenFrame, Sound, Typed, Cpu
<1> HIDE DEF c
<1>6. /\ Typed(push(c)) /\ e \in Seq(OpenFrame) /\ Stacked(push(c), e)
      /\ push(c).inInterrupt = c.inInterrupt /\ Len(e) = Len(frames) + 1
  BY <1>2, <1>4, PushStacked
<1>7. /\ \A i \in 1..Len(frames) : e[i] = frames[i]
      /\ e[Len(frames) + 1].kind = "call"
  BY <1>3, <1>5, AppendFacts DEF FrameOf
<1> HIDE DEF e
<1>8. Typed(d) /\ SameStack(push(c), d)
  BY <1>3, <1>6 DEF Typed, Cpu, SameStack
<1>9. Once(d, e)
  <2>1. \A i \in 1..Len(e) : e[i].kind = "interrupt" => i \in 1..Len(frames) /\ e[i] = frames[i]
    <3> SUFFICES ASSUME NEW i \in 1..Len(e), e[i].kind = "interrupt"
                 PROVE  i \in 1..Len(frames) /\ e[i] = frames[i]
      OBVIOUS
    <3>1. i = Len(frames) + 1 \/ i \in 1..Len(frames)
      BY <1>3, <1>6
    <3> QED BY <3>1, <1>7
  <2>2. \A i \in 1..Len(frames) : i \in 1..Len(e) /\ e[i] = frames[i]
    BY <1>3, <1>6, <1>7
  <2>3. Once(c, frames) /\ d.inInterrupt = c.inInterrupt
    BY <1>2, <1>6, <1>8 DEF Sound, SameStack
  <2> HIDE DEF d
  <2> QED BY <2>1, <2>2, <2>3 DEF Once
<1>10. Stacked(d, e) /\ Room(d, e)
  BY <1>3, <1>4, <1>6, <1>8 DEF Stacked, Room, SameStack
<1>11. Sound(d, e)
  BY <1>6, <1>8, <1>9, <1>10 DEF Sound
<1> HIDE DEF d
<1> QED BY <1>1, <1>11, FinishInv DEF CALL, d

\* What a return leaves, before the next interrupt.  RET finds a call on top, so
\* inInterrupt_ still tells of the frames below; RETR finds the only interrupt.
LEMMA PopSound ==
    ASSUME NEW c, NEW fs, Sound(c, fs), fs /= <<>>, NEW restore \in BOOLEAN,
           restore <=> fs[Len(fs)].kind = "interrupt"
    PROVE  Sound(pop(c, restore), SubSeq(fs, 1, Len(fs) - 1))
<1> DEFINE front == SubSeq(fs, 1, Len(fs) - 1)
           d == pop(c, restore)
<1>1. /\ Typed(d) /\ front \in Seq(OpenFrame) /\ Stacked(d, front)
      /\ Len(front) = Len(fs) - 1 /\ \A i \in 1..Len(front) : front[i] = fs[i]
      /\ d.inInterrupt = (~restore /\ c.inInterrupt)
  BY PopStacked
<1>2. Len(fs) \in Nat \ {0} /\ StackSize \in Nat
  BY WidthsOK, FrontFacts DEF WidthsOK, Sound
<1>3. Once(c, fs) /\ Room(c, fs) /\ c.inInterrupt \in BOOLEAN
  BY DEF Sound, Typed, Cpu
<1> HIDE DEF d, front
<1>4. \A i \in 1..Len(front) : i \in 1..Len(fs) /\ i /= Len(fs) /\ front[i] = fs[i]
  BY <1>1, <1>2
<1>5. \A i \in 1..Len(fs) : i = Len(fs) \/ i \in 1..Len(front)
  BY <1>1, <1>2
<1>6. Len(fs) \in 1..Len(fs)
  BY <1>2
<1>7. Once(d, front)
  <2>1. CASE restore
    <3>1. \A i \in 1..Len(front) : front[i].kind /= "interrupt"
      BY <2>1, <1>3, <1>4, <1>6 DEF Once
    <3>2. ~d.inInterrupt
      BY <2>1, <1>1
    <3> QED BY <3>1, <3>2 DEF Once
  <2>2. CASE ~restore
    <3>1. d.inInterrupt <=> c.inInterrupt
      BY <2>2, <1>1
    <3> QED BY <3>1, <2>2, <1>3, <1>4, <1>5, <1>6 DEF Once
  <2> QED BY <2>1, <2>2
<1>8. Room(d, front)
  BY <1>1, <1>2, <1>3 DEF Room
<1> QED BY <1>1, <1>7, <1>8 DEF Sound, d, front

LEMMA ReturnSound ==
    ASSUME CpuInv, RET \/ RETR
    PROVE  CpuInv'
<1> DEFINE c == Fetched(1, 2)
<1>1. Sound(c, frames)
  BY FetchedSound
<1>2. /\ frames /= <<>>
      /\ \/ Top.kind = "call" /\ Finish(pop(c, FALSE), Outer)
         \/ Top.kind = "interrupt" /\ Finish(pop(c, TRUE), Outer)
      /\ Counted(2)
  BY DEF RET, RETR
<1> HIDE DEF c
<1>3. CASE Top.kind = "call" /\ Finish(pop(c, FALSE), Outer)
  <2>1. Sound(pop(c, FALSE), Outer)
    BY <1>1, <1>2, <1>3, PopSound DEF Top, Outer
  <2> QED BY <2>1, <1>2, <1>3, FinishInv
<1>4. CASE Top.kind = "interrupt" /\ Finish(pop(c, TRUE), Outer)
  <2>1. Sound(pop(c, TRUE), Outer)
    BY <1>1, <1>2, <1>4, PopSound DEF Top, Outer
  <2> QED BY <2>1, <1>2, <1>4, FinishInv
<1> QED BY <1>2, <1>3, <1>4

LEMMA ResetSound ==
    ASSUME NEW t \in 0..TSize - 1
    PROVE  /\ Sound(resetCpu(t), <<>>)
           /\ ~resetCpu(t).requested
<1> DEFINE c == resetCpu(t)
<1>1. /\ 0 \in 0..StackSize - 1 /\ StackSize \in Nat /\ StackSize > 1 /\ 0 \in 0..Prescaler
      /\ NoFlags \in Flags
  BY WidthsOK DEF WidthsOK
<1>2. Typed(c)
  BY <1>1 DEF resetCpu, Typed, Cpu, Frame
<1>3. c.sp = 0 /\ c.inInterrupt = FALSE /\ c.requested = FALSE
  BY DEF resetCpu
<1>4. <<>> \in Seq(OpenFrame) /\ Len(<<>>) = 0 /\ 1..0 = {}
  BY SMT
<1> HIDE DEF c
<1>5. Stacked(c, <<>>) /\ Once(c, <<>>) /\ Room(c, <<>>)
  BY <1>1, <1>3, <1>4 DEF Stacked, Once, Room
<1> QED BY <1>2, <1>3, <1>4, <1>5 DEF Sound, c

LEMMA InitInv == Init => CpuInv
<1> SUFFICES ASSUME Init PROVE CpuInv
  OBVIOUS
<1>1. 0 \in 0..TSize - 1 /\ 0 \in 0..Period - 1
  BY WidthsOK, PeriodFacts DEF WidthsOK
<1>2. Sound(cpu, frames) /\ ~cpu.requested
  BY <1>1, ResetSound DEF Init
<1> QED BY <1>1, <1>2 DEF Init, CpuInv, HistoryOK, PendingOnlyWhileBusy

LEMMA StepInv == CpuInv /\ [Next]_cpuVars => CpuInv'
<1> SUFFICES ASSUME CpuInv, [Next]_cpuVars PROVE CpuInv'
  OBVIOUS
<1>1. CASE Plain \/ Branch \/ JMPP \/ JMP \/ SEL_MB \/ MOV_PSW_A
           \/ EN_TCNTI \/ DIS_TCNTI \/ STRT_CNT \/ STOP_TCNT
  BY <1>1, InnerSound
<1>2. CASE JTF \/ STRT_T \/ MOV_T_A
  BY <1>2, TimerSound
<1>3. CASE CALL
  BY <1>3, CallSound
<1>4. CASE RET \/ RETR
  BY <1>4, ReturnSound
<1>5. CASE Reset
  <2>1. cpu.t \in 0..TSize - 1 /\ 0 \in 0..Period - 1
    BY PeriodFacts DEF CpuInv, Sound, Typed, Cpu
  <2>2. Sound(cpu', frames') /\ ~cpu'.requested
    BY <1>5, <2>1, ResetSound DEF Reset
  <2>3. Sound(cpu, frames)'
    BY <2>2 DEF Sound, Typed, Stacked, Once, Room, Cpu
  <2>4. HistoryOK'
    BY <1>5, <2>1 DEF Reset, HistoryOK, Period
  <2> QED BY <2>2, <2>3, <2>4 DEF CpuInv, PendingOnlyWhileBusy
<1>6. CASE UNCHANGED cpuVars
  BY <1>6 DEF cpuVars, CpuInv, Sound, Typed, Stacked, Once, Room, Cpu, HistoryOK, Period,
              PendingOnlyWhileBusy
<1> QED BY <1>1, <1>2, <1>3, <1>4, <1>5, <1>6 DEF Next, Aborted

LEMMA Invariance == Spec => []CpuInv
<1> QED BY InitInv, StepInv, PTL DEF Spec

-----------------------------------------------------------------------------
(* The theorems.                                                           *)

\* The frames of all open calls and interrupts lie on the stack in order, and inInterrupt_
\* tells of the one interrupt among them (intel8049.cpp:895-911, 962-978).  A free frame
\* must be kept for it: the program's discipline, the guard of CALL.
THEOREM StackIsSound == Spec => [](CpuTypeOK /\ StackHolds /\ InterruptOnce)
<1>1. CpuInv => CpuTypeOK /\ StackHolds /\ InterruptOnce
  BY DEF CpuInv, Sound, Typed, Stacked, Once, HistoryOK, CpuTypeOK, StackHolds, InterruptOnce
<1> QED BY <1>1, Invariance, PTL

\* Interrupt routines do not nest, however requests, calls and returns fall together
\* (intel8049.cpp:902-911, 962-978).
THEOREM InterruptsDoNotNest == Spec => []InterruptOnce
BY StackIsSound, PTL

\* After each instruction an enabled request has been taken, unless an interrupt routine
\* is under way (intel8049.cpp:962-978).
THEOREM RequestsAreTaken == Spec => []PendingOnlyWhileBusy
<1>1. CpuInv => PendingOnlyWhileBusy
  BY DEF CpuInv
<1> QED BY <1>1, Invariance, PTL

\* What a return step does, for RET (restore is FALSE) and RETR.
LEMMA ReturnStep ==
    ASSUME CpuInv, RET \/ RETR
    PROVE  LET now == IF Len(frames') = Len(frames) THEN frames'[Len(frames)] ELSE cpu'
           IN  /\ now.pc = Top.pc
               /\ now.flags = IF Top.kind = "call" THEN cpu.flags ELSE Top.flags
<1> DEFINE c == Fetched(1, 2)
           restore == Top.kind = "interrupt"
           d == pop(c, restore)
           flags == IF Top.kind = "call" THEN cpu.flags ELSE Top.flags
<1>1. Sound(c, frames) /\ c.flags = cpu.flags
  BY FetchedSound
<1>2. frames /= <<>> /\ Top.kind \in {"call", "interrupt"} /\ Finish(d, Outer)
  <2>1. CASE RET
    <3>1. restore = FALSE
      BY <2>1 DEF RET
    <3> QED BY <2>1, <3>1 DEF RET
  <2>2. CASE RETR
    <3>1. restore = TRUE
      BY <2>2 DEF RETR
    <3> QED BY <2>2, <3>1 DEF RETR
  <2> QED BY <2>1, <2>2
<1> HIDE DEF c
<1>3. /\ Outer \in Seq(OpenFrame) /\ Len(Outer) = Len(frames) - 1
      /\ d.pc = Top.pc /\ d.flags = flags /\ Typed(d)
  <2>1. restore \in BOOLEAN
    OBVIOUS
  <2>2. /\ Outer \in Seq(OpenFrame) /\ Len(Outer) = Len(frames) - 1
        /\ d.pc = Top.pc /\ d.flags = (IF restore THEN Top.flags ELSE c.flags) /\ Typed(d)
    BY <1>1, <1>2, <2>1, PopStacked DEF Outer, Top
  <2> QED BY <2>2, <1>1, <1>2
<1>4. Len(frames) \in Nat /\ Len(frames) = Len(Outer) + 1 /\ Len(Outer) /= Len(frames)
  BY <1>1, <1>3, LenProperties DEF Sound
<1> HIDE DEF d, flags
<1>5. CASE Takes(d)
  <2>1. frames' = Append(Outer, FrameOf(d, "interrupt"))
    BY <1>2, <1>5 DEF Finish, FrameOf
  <2>2. FrameOf(d, "interrupt") \in OpenFrame
    BY <1>3 DEF FrameOf, OpenFrame, Typed, Cpu
  <2>3. Len(frames') = Len(frames) /\ frames'[Len(frames)] = FrameOf(d, "interrupt")
    BY <1>3, <1>4, <2>1, <2>2, AppendFacts
  <2> QED BY <1>3, <2>3 DEF FrameOf, flags
<1>6. CASE ~Takes(d)
  <2>1. frames' = Outer /\ cpu' = d
    BY <1>2, <1>6 DEF Finish, handleInterrupts
  <2> QED BY <1>3, <1>4, <2>1 DEF flags
<1> QED BY <1>5, <1>6

\* A return leads back behind the call, or to the interrupted instruction with its flags,
\* even when the next interrupt is taken within the same step (intel8049.cpp:866, 902-911).
THEOREM ReturnsAreExact == Spec => ReturnsHome
<1>1. CpuInv /\ [Next]_cpuVars =>
        [RET \/ RETR =>
           LET now == IF Len(frames') = Len(frames) THEN frames'[Len(frames)] ELSE cpu'
           IN  /\ now.pc = Top.pc
               /\ now.flags = IF Top.kind = "call" THEN cpu.flags ELSE Top.flags]_cpuVars
  BY ReturnStep
<1> QED BY <1>1, Invariance, PTL DEF Spec, ReturnsHome

-----------------------------------------------------------------------------
(* The timer.  value(c) is the number of cycles that T and the prescaler   *)
(* stand for.                                                              *)

value(c) == c.t * Prescaler + (Prescaler - c.cyclesUntilCount)

\* A timer that n cycles and the overflow flag w describe.
Exact(c, n, w) ==
    /\ n \in 0..Period - 1
    /\ c.counts = "cycles" => value(c) = n
    /\ c.tf = w

SameTimer(c, d) ==
    d.t = c.t /\ d.cyclesUntilCount = c.cyclesUntilCount /\ d.counts = c.counts /\ d.tf = c.tf

LEMMA ModStep ==
    ASSUME NEW p \in Nat \ {0}, NEW n \in 0..p - 1
    PROVE  /\ n % p = n
           /\ (n + 1) % p = IF n + 1 = p THEN 0 ELSE n + 1
           /\ (n + 2) % p = (((n + 1) % p) + 1) % p
BY SMT

LEMMA ModProduct ==
    ASSUME NEW p \in Nat \ {0}, NEW k \in Nat, NEW r \in 0..p - 1
    PROVE  (k * p + r) % p = r
BY SMT

LEMMA ModOfPeriod ==
    ASSUME NEW n \in Nat
    PROVE  (n % Period) % Prescaler = n % Prescaler
<1> DEFINE q == n \div Period
           r == n % Period
           k == r \div Prescaler
           m == r % Prescaler
<1>1. Prescaler \in Nat \ {0} /\ TSize \in Nat \ {0} /\ Period \in Nat \ {0}
  BY WidthsOK, PeriodFacts DEF WidthsOK
<1>2. n = Period * q + r /\ q \in Nat /\ r \in Nat
  BY <1>1, SMT
<1>3. r = Prescaler * k + m /\ k \in Nat /\ m \in 0..Prescaler - 1
  BY <1>1, <1>2, SMT
<1> HIDE DEF q, r, k, m
<1> DEFINE j == TSize * q + k
<1>4. n = j * Prescaler + m
  BY <1>1, <1>2, <1>3, SMT DEF Period
<1>5. j \in Nat
  BY <1>1, <1>2, <1>3, SMT
<1> HIDE DEF j
<1>6. n % Prescaler = m
  BY <1>1, <1>3, <1>4, <1>5, ModProduct
<1> QED BY <1>6 DEF r, m

LEMMA ValueFacts ==
    ASSUME NEW t \in 0..TSize - 1, NEW n \in 1..Prescaler
    PROVE  LET v == t * Prescaler + (Prescaler - n)
           IN  /\ v \in 0..Period - 1
               /\ v % Prescaler = Prescaler - n
               /\ (v + 1 = Period) <=> t = TSize - 1 /\ n = 1
               /\ n = 1 => v + 1 = (t + 1) * Prescaler
<1> DEFINE v == t * Prescaler + (Prescaler - n)
<1>1. /\ Prescaler \in Nat \ {0} /\ Prescaler - n \in 0..Prescaler - 1
      /\ TSize \in Nat \ {0} /\ t \in Nat
  BY WidthsOK DEF WidthsOK
<1>2. v \in 0..Period - 1
  BY <1>1, PeriodFacts
<1>3. v % Prescaler = Prescaler - n
  BY <1>1, ModProduct
<1>4. v + 1 = (t + 1) * Prescaler - (n - 1)
  BY <1>1, SMT
<1>5. n = 1 => v + 1 = (t + 1) * Prescaler
  BY <1>1, <1>4, SMT
<1>6. t = TSize - 1 /\ n = 1 => v + 1 = Period
  BY <1>1, <1>5, SMT DEF Period
<1>7. v + 1 = Period => t = TSize - 1 /\ n = 1
  <2> SUFFICES ASSUME v + 1 = Period PROVE t = TSize - 1 /\ n = 1
    OBVIOUS
  <2>1. (t + 1) * Prescaler - (n - 1) = TSize * Prescaler
    BY <1>4 DEF Period
  <2>2. t = TSize - 1
    BY <2>1, <1>1, SMT
  <2> QED BY <2>1, <2>2, <1>1, SMT
<1> QED BY <1>2, <1>3, <1>5, <1>6, <1>7

\* One cycle.
LEMMA TickExact ==
    ASSUME NEW c, Typed(c), NEW n, NEW w \in BOOLEAN, Exact(c, n, w)
    PROVE  LET m == IF c.counts = "cycles" THEN n + 1 ELSE n
           IN  /\ Exact(tick(c), m % Period, (w \/ m >= Period))
               /\ tick(c).counts = c.counts
<1>1. n \in 0..Period - 1 /\ Period \in Nat \ {0} /\ n % Period = n
  BY PeriodFacts, ModStep DEF Exact
<1>2. CASE c.counts /= "cycles"
  <2>1. tick(c) = c /\ ~(n >= Period)
    BY <1>1, <1>2 DEF tick
  <2> QED BY <1>1, <1>2, <2>1 DEF Exact
<1>3. CASE c.counts = "cycles"
  <2>0. /\ c \in Cpu /\ c.t \in 0..TSize - 1 /\ c.cyclesUntilCount \in 1..Prescaler
        /\ Prescaler \in Nat \ {0} /\ TSize \in Nat \ {0}
        /\ c.tf = w /\ value(c) = n
    BY <1>3, WidthsOK DEF WidthsOK, Typed, Cpu, Exact
  <2>1. /\ (n + 1 = Period) <=> c.t = TSize - 1 /\ c.cyclesUntilCount = 1
        /\ c.cyclesUntilCount = 1 => n + 1 = (c.t + 1) * Prescaler
    BY <2>0, ValueFacts DEF value
  <2>2. (n + 1) % Period = IF n + 1 = Period THEN 0 ELSE n + 1
    BY <1>1, ModStep
  <2>3. n + 1 >= Period <=> n + 1 = Period
    BY <1>1
  <2>4. (n + 1) % Period \in 0..Period - 1
    BY <1>1, ModFacts
  <2>5. CASE c.cyclesUntilCount = 1
    <3> DEFINE over == c.t = TSize - 1
               next == IF over THEN 0 ELSE c.t + 1
    <3>1. tick(c) = [c EXCEPT !.cyclesUntilCount = Prescaler, !.tf = c.tf \/ over,
                              !.requested = c.requested \/ over, !.t = next]
      BY <1>3, <2>5, <2>0 DEF tick, incCounter, Cpu
    <3>2. /\ tick(c).t = next /\ tick(c).cyclesUntilCount = Prescaler
          /\ tick(c).counts = c.counts
      BY <3>1, <2>0 DEF Cpu
    <3>3. tick(c).tf = (c.tf \/ over)
      BY <3>1, <2>0 DEF Cpu
    <3>4. value(tick(c)) = next * Prescaler
      BY <3>2, <2>0 DEF value
    <3>5. next * Prescaler = (n + 1) % Period
      BY <2>0, <2>1, <2>2, <2>5
    <3>6. (c.tf \/ over) = (w \/ n + 1 >= Period)
      BY <2>0, <2>1, <2>3, <2>5
    <3> QED BY <1>3, <2>4, <3>2, <3>3, <3>4, <3>5, <3>6 DEF Exact
  <2>6. CASE c.cyclesUntilCount /= 1
    <3>1. tick(c) = [c EXCEPT !.cyclesUntilCount = c.cyclesUntilCount - 1]
      BY <1>3, <2>6 DEF tick
    <3>2. /\ tick(c).t = c.t /\ tick(c).cyclesUntilCount = c.cyclesUntilCount - 1
          /\ tick(c).counts = c.counts /\ tick(c).tf = c.tf
      BY <3>1, <2>0 DEF Cpu
    <3>3. value(tick(c)) = n + 1 /\ n + 1 /= Period
      BY <3>2, <2>0, <2>1, <2>6 DEF value
    <3>4. w = (w \/ n + 1 >= Period)
      BY <3>3, <2>3
    <3> QED BY <1>3, <2>0, <2>2, <2>4, <3>2, <3>3, <3>4 DEF Exact
  <2> QED BY <2>5, <2>6
<1> QED BY <1>2, <1>3

TimerInv == CpuInv /\ Exact(cpu, clock, wrapped)

LEMMA FetchedExact ==
    ASSUME TimerInv, NEW bytes \in {1, 2}, NEW cycles \in {1, 2}
    PROVE  LET c == Fetched(bytes, cycles)
               n == Elapsed(cycles)
           IN  /\ Exact(c, n % Period, (wrapped \/ n >= Period)) /\ c.counts = cpu.counts
               /\ Typed(c) /\ n \in Nat
<1> DEFINE b == [cpu EXCEPT !.pc = @ + bytes]
           one == Elapsed(1)
           w1 == wrapped \/ one >= Period
<1>1. Typed(cpu) /\ clock \in 0..Period - 1 /\ wrapped \in BOOLEAN /\ Exact(cpu, clock, wrapped)
  BY DEF TimerInv, CpuInv, Sound, HistoryOK
<1>2. Typed(b) /\ SameTimer(cpu, b)
  BY <1>1 DEF Typed, Cpu, SameTimer
<1>3. Exact(b, clock, wrapped)
  BY <1>1, <1>2 DEF Exact, SameTimer, value
<1>4. /\ Period \in Nat \ {0} /\ one \in Nat /\ Elapsed(2) \in Nat
  BY <1>1, PeriodFacts DEF Elapsed
<1> HIDE DEF b
<1>5. Exact(tick(b), one % Period, w1) /\ tick(b).counts = cpu.counts /\ Typed(tick(b))
  BY <1>1, <1>2, <1>3, TickExact, TickTyped DEF Elapsed, Running, SameTimer
<1>6. CASE cycles = 1
  BY <1>4, <1>5, <1>6 DEF Fetched, Ticks, b
<1>7. CASE cycles = 2
  <2> DEFINE n == one % Period
             m == IF cpu.counts = "cycles" THEN n + 1 ELSE n
  <2>1. n \in 0..Period - 1
    BY <1>4, ModFacts
  <2>2. /\ Exact(tick(tick(b)), m % Period, (w1 \/ m >= Period))
        /\ tick(tick(b)).counts = cpu.counts /\ Typed(tick(tick(b)))
    BY <1>5, TickExact, TickTyped
  <2>3. m % Period = Elapsed(2) % Period /\ (w1 \/ m >= Period) = (wrapped \/ Elapsed(2) >= Period)
    <3>1. CASE Running
      <4>1. one = clock + 1 /\ Elapsed(2) = clock + 2 /\ m = n + 1
        BY <3>1 DEF Elapsed, Running
      <4>2. /\ (clock + 1) % Period = IF clock + 1 = Period THEN 0 ELSE clock + 1
            /\ (clock + 2) % Period = (((clock + 1) % Period) + 1) % Period
        BY <1>1, <1>4, ModStep
      <4>3. m % Period = Elapsed(2) % Period
        BY <4>1, <4>2
      <4>4. (one >= Period \/ m >= Period) <=> Elapsed(2) >= Period
        BY <1>1, <1>4, <4>1, <4>2
      <4> QED BY <4>3, <4>4
    <3>2. CASE ~Running
      <4>1. one = clock /\ Elapsed(2) = clock /\ m = n
        BY <3>2 DEF Elapsed, Running
      <4>2. n = clock
        BY <1>1, <1>4, <4>1, ModStep
      <4> QED BY <4>1, <4>2
    <3> QED BY <3>1, <3>2
  <2>4. Fetched(bytes, cycles) = tick(tick(b))
    BY <1>7 DEF Fetched, Ticks, b
  <2> QED BY <1>4, <1>7, <2>2, <2>3, <2>4
<1> QED BY <1>6, <1>7

LEMMA FinishExact ==
    ASSUME NEW c, Typed(c), NEW fs, Finish(c, fs), Exact(c, clock', wrapped')
    PROVE  Exact(cpu', clock', wrapped')
<1>1. SameTimer(c, handleInterrupts(c))
  BY DEF Typed, Cpu, handleInterrupts, push, SameTimer
<1> QED BY <1>1 DEF Finish, Exact, SameTimer, value

LEMMA CountedExact ==
    ASSUME TimerInv, NEW bytes \in {1, 2}, NEW cycles \in {1, 2}, NEW c, NEW fs, Typed(c),
           c.tf = Fetched(bytes, cycles).tf,
           c.counts = "cycles" => SameTimer(Fetched(bytes, cycles), c),
           Finish(c, fs), Counted(cycles)
    PROVE  Exact(cpu', clock', wrapped')
<1>1. Exact(Fetched(bytes, cycles), clock', wrapped')
  BY FetchedExact DEF Counted
<1>2. Exact(c, clock', wrapped')
  BY <1>1 DEF Exact, SameTimer, value
<1> QED BY <1>2, FinishExact

\* Instructions that do not set the timer.
LEMMA InnerExact ==
    ASSUME TimerInv, Plain \/ Branch \/ JMPP \/ JMP \/ SEL_MB \/ MOV_PSW_A
                     \/ EN_TCNTI \/ DIS_TCNTI \/ STRT_CNT \/ STOP_TCNT
    PROVE  Exact(cpu', clock', wrapped')
<1> DEFINE F(bytes, cycles) == Fetched(bytes, cycles)
<1>0. \A bytes \in {1, 2}, cycles \in {1, 2} : Typed(F(bytes, cycles))
  BY FetchedExact
<1>a. ASSUME NEW bytes \in {1, 2}, NEW cycles \in {1, 2}, NEW c, Typed(c),
             c.tf = F(bytes, cycles).tf,
             c.counts = "cycles" => SameTimer(F(bytes, cycles), c),
             Do(bytes, cycles, c)
      PROVE  Exact(cpu', clock', wrapped')
  BY <1>a, CountedExact DEF Do
<1> HIDE DEF F
<1>1. CASE Plain
  <2>1. PICK bytes \in 1..2, cycles \in 1..2, f \in Flags :
            Do(bytes, cycles, [F(bytes, cycles) EXCEPT !.flags = f])
    BY <1>1 DEF Plain, F
  <2> DEFINE c == [F(bytes, cycles) EXCEPT !.flags = f]
  <2>2. bytes \in {1, 2} /\ cycles \in {1, 2}
    OBVIOUS
  <2>3. Typed(F(bytes, cycles))
    BY <1>0, <2>2
  <2>4. Typed(c) /\ SameTimer(F(bytes, cycles), c)
    BY <2>3 DEF Typed, Cpu, SameTimer
  <2> HIDE DEF c
  <2> QED BY <2>1, <2>2, <2>4, <1>a DEF c, SameTimer
<1>2. CASE Branch \/ JMPP \/ JMP
  <2>0. /\ PageOf(cpu.pc + 1) \cup {cpu.pc + 2} \subseteq Nat
        /\ PageOf(cpu.pc + 1) \subseteq Nat /\ Far \subseteq Nat
    BY DEF PageOf, Far, TimerInv, CpuInv, Sound, Typed, Cpu
  <2>1. PICK bytes \in {1, 2}, to \in Nat : Do(bytes, 2, [F(bytes, 2) EXCEPT !.pc = to])
    BY <2>0, <1>2, Zenon DEF Branch, JMPP, JMP, F
  <2> DEFINE c == [F(bytes, 2) EXCEPT !.pc = to]
  <2>2. Typed(c) /\ SameTimer(F(bytes, 2), c)
    BY <1>0 DEF Typed, Cpu, SameTimer
  <2> HIDE DEF c
  <2> QED BY <2>1, <2>2, <1>a DEF c, SameTimer
<1>3. CASE SEL_MB
  <2>1. PICK bank \in {0, 1} : Do(1, 1, [F(1, 1) EXCEPT !.dbf = bank])
    BY <1>3 DEF SEL_MB, F
  <2> DEFINE c == [F(1, 1) EXCEPT !.dbf = bank]
  <2>2. Typed(c) /\ SameTimer(F(1, 1), c)
    BY <1>0 DEF Typed, Cpu, SameTimer
  <2> HIDE DEF c
  <2> QED BY <2>1, <2>2, <1>a DEF c, SameTimer
<1>4. CASE MOV_PSW_A
  <2>1. PICK f \in Flags, b \in {0, 1} : Do(1, 1, [F(1, 1) EXCEPT !.flags = f, !.bit3 = b])
    BY <1>4 DEF MOV_PSW_A, F
  <2> DEFINE c == [F(1, 1) EXCEPT !.flags = f, !.bit3 = b]
  <2>2. Typed(c) /\ SameTimer(F(1, 1), c)
    BY <1>0 DEF Typed, Cpu, SameTimer
  <2> HIDE DEF c
  <2> QED BY <2>1, <2>2, <1>a DEF c, SameTimer
<1>5. CASE EN_TCNTI
  <2> DEFINE c == [F(1, 1) EXCEPT !.enabled = TRUE]
  <2>1. Typed(c) /\ SameTimer(F(1, 1), c)
    BY <1>0 DEF Typed, Cpu, SameTimer
  <2>2. Do(1, 1, c)
    BY <1>5 DEF EN_TCNTI, F
  <2> HIDE DEF c
  <2> QED BY <2>1, <2>2, <1>a DEF SameTimer
<1>6. CASE DIS_TCNTI
  <2> DEFINE c == [F(1, 1) EXCEPT !.enabled = FALSE, !.requested = FALSE]
  <2>1. Typed(c) /\ SameTimer(F(1, 1), c)
    BY <1>0 DEF Typed, Cpu, SameTimer
  <2>2. Do(1, 1, c)
    BY <1>6 DEF DIS_TCNTI, F
  <2> HIDE DEF c
  <2> QED BY <2>1, <2>2, <1>a DEF SameTimer
<1>7. CASE STRT_CNT \/ STOP_TCNT
  <2>1. PICK k \in {"T1", "nothing"} : Do(1, 1, [F(1, 1) EXCEPT !.counts = k])
    BY <1>7 DEF STRT_CNT, STOP_TCNT, F
  <2> DEFINE c == [F(1, 1) EXCEPT !.counts = k]
  <2>2. Typed(c) /\ c.counts /= "cycles" /\ c.tf = F(1, 1).tf
    BY <1>0 DEF Typed, Cpu
  <2> HIDE DEF c
  <2> QED BY <2>1, <2>2, <1>a DEF c
<1> QED BY <1>1, <1>2, <1>3, <1>4, <1>5, <1>6, <1>7

LEMMA StackExact ==
    ASSUME TimerInv, CALL \/ RET \/ RETR
    PROVE  Exact(cpu', clock', wrapped')
<1>0. CpuInv
  BY DEF TimerInv
<1>1. CASE CALL
  <2> DEFINE c == Fetched(2, 2)
  <2>1. PICK to \in Far :
            Finish([push(c) EXCEPT !.pc = to], Append(frames, FrameOf(c, "call")))
    BY <1>1 DEF CALL, FrameOf
  <2>2. Sound(c, frames) /\ Typed(c) /\ to \in Nat /\ Counted(2)
    BY <1>0, <1>1, FetchedSound DEF Sound, Far, CALL
  <2>3. Len(frames) < StackSize
    BY <1>0, <1>1, WidthsOK, LenProperties DEF WidthsOK, CALL, Open, CpuInv, Sound
  <2> DEFINE d == [push(c) EXCEPT !.pc = to]
  <2>4. Typed(push(c))
    BY <2>2, <2>3, PushStacked
  <2>5. SameTimer(c, push(c))
    BY <2>2 DEF Typed, Cpu, push, SameTimer
  <2>6. Typed(d) /\ SameTimer(push(c), d)
    BY <2>2, <2>4 DEF Typed, Cpu, SameTimer
  <2>7. SameTimer(c, d)
    BY <2>5, <2>6 DEF SameTimer
  <2> HIDE DEF d
  <2> QED BY <2>1, <2>2, <2>6, <2>7, CountedExact DEF d, SameTimer
<1>2. CASE RET \/ RETR
  <2> DEFINE c == Fetched(1, 2)
  <2>1. PICK restore \in BOOLEAN : Finish(pop(c, restore), Outer)
    BY <1>2 DEF RET, RETR
  <2>2. Sound(c, frames) /\ Typed(c) /\ frames /= <<>> /\ Counted(2)
    BY <1>0, <1>2, FetchedSound DEF Sound, RET, RETR
  <2> DEFINE d == pop(c, restore)
  <2>3. Typed(d)
    BY <2>2, PopStacked
  <2>4. SameTimer(c, d)
    BY <2>2 DEF Typed, Cpu, pop, SameTimer
  <2> HIDE DEF d
  <2> QED BY <2>1, <2>2, <2>3, <2>4, CountedExact DEF d, SameTimer
<1> QED BY <1>1, <1>2

\* The three instructions that set the timer or its flag.
LEMMA SetExact ==
    ASSUME TimerInv, JTF \/ STRT_T \/ MOV_T_A
    PROVE  Exact(cpu', clock', wrapped')
<1>0. Typed(cpu) /\ Period \in Nat \ {0} /\ Prescaler \in Nat \ {0} /\ cpu.pc \in Nat
  BY PeriodFacts, WidthsOK DEF WidthsOK, TimerInv, CpuInv, Sound, Typed, Cpu
<1>1. CASE JTF
  <2> DEFINE c == Fetched(2, 2)
             n == Elapsed(2)
             w == wrapped \/ n >= Period
  <2>1. PICK to \in PageOf(cpu.pc + 1) :
            Finish(IF c.tf THEN [c EXCEPT !.tf = FALSE, !.pc = to] ELSE c, frames)
    BY <1>1 DEF JTF
  <2> DEFINE d == IF c.tf THEN [c EXCEPT !.tf = FALSE, !.pc = to] ELSE c
  <2>2. /\ Exact(c, n % Period, w) /\ Typed(c)
        /\ clock' = n % Period /\ wrapped' = FALSE /\ to \in Nat
    <3>1. to \in Nat
      BY DEF PageOf
    <3>2. clock' = n % Period /\ wrapped' = FALSE
      BY <1>1 DEF JTF
    <3> QED BY <3>1, <3>2, FetchedExact
  <2> HIDE DEF c, n, w
  <2>3. Typed(d) /\ d.tf = FALSE
        /\ d.t = c.t /\ d.cyclesUntilCount = c.cyclesUntilCount /\ d.counts = c.counts
    <3>1. CASE c.tf
      BY <2>2, <3>1 DEF Typed, Cpu
    <3>2. CASE ~c.tf
      <4>1. c.tf = FALSE
        BY <2>2, <3>2 DEF Typed, Cpu
      <4> QED BY <2>2, <3>2, <4>1
    <3> QED BY <3>1, <3>2
  <2> HIDE DEF d
  <2>4. Exact(d, clock', wrapped')
    BY <2>2, <2>3 DEF Exact, value
  <2> QED BY <2>1, <2>3, <2>4, FinishExact DEF d
<1>2. CASE STRT_T
  <2> DEFINE b == Fetched(1, 1)
             c == StartTimer(b)
             n == Elapsed(1)
  <2>1. /\ Exact(b, n % Period, (wrapped \/ n >= Period)) /\ Typed(b)
        /\ Finish(c, frames) /\ clock' = c.t * Prescaler /\ wrapped' = (wrapped \/ n >= Period)
    BY <1>2, FetchedExact DEF STRT_T, Overflows
  <2> HIDE DEF b, n
  <2>2. Prescaler \in 0..Prescaler /\ 0 \in 0..Prescaler - 1
    BY <1>0
  <2>3. /\ Typed(c) /\ c.t \in 0..TSize - 1 /\ c.cyclesUntilCount = Prescaler /\ c.tf = b.tf
    BY <2>1, <2>2, <1>0 DEF StartTimer, Typed, Cpu
  <2> HIDE DEF c
  <2>4. c.t * Prescaler + 0 \in 0..Period - 1
    BY <2>2, <2>3, PeriodFacts
  <2>5. value(c) = clock' /\ clock' \in 0..Period - 1
    <3>1. c.t * Prescaler \in Nat
      BY <1>0, <2>3
    <3> QED BY <3>1, <1>0, <2>1, <2>3, <2>4 DEF value
  <2>6. Exact(c, clock', wrapped')
    BY <2>1, <2>3, <2>5 DEF Exact
  <2> QED BY <2>1, <2>3, <2>6, FinishExact DEF c
<1>3. CASE MOV_T_A
  <2> DEFINE b == Fetched(1, 1)
             n == Elapsed(1)
  <2>1. PICK v \in 0..TSize - 1 :
            /\ Finish([b EXCEPT !.t = v], frames)
            /\ clock' = v * Prescaler + (n % Prescaler) /\ wrapped' = Overflows(1)
    BY <1>3 DEF MOV_T_A
  <2>2. /\ Exact(b, n % Period, (wrapped \/ n >= Period)) /\ Typed(b) /\ n \in Nat
        /\ wrapped' = (wrapped \/ n >= Period)
    BY <2>1, FetchedExact DEF Overflows
  <2> DEFINE c == [b EXCEPT !.t = v]
  <2> HIDE DEF b, n
  <2>3. /\ Typed(c) /\ c.t = v /\ c.cyclesUntilCount = b.cyclesUntilCount
        /\ c.counts = b.counts /\ c.tf = b.tf
    BY <2>2 DEF Typed, Cpu
  <2> HIDE DEF c
  <2>4. n % Prescaler \in 0..Prescaler - 1
    BY <1>0, <2>2, ModFacts
  <2>5. clock' \in 0..Period - 1
    BY <2>1, <2>4, PeriodFacts
  <2>6. ASSUME c.counts = "cycles" PROVE value(c) = clock'
    <3>1. b.cyclesUntilCount \in 1..Prescaler /\ b.t \in 0..TSize - 1
      BY <2>2, <2>3, <2>6, <1>0 DEF Typed, Cpu
    <3>2. (n % Period) % Prescaler = Prescaler - b.cyclesUntilCount
      BY <2>2, <2>3, <2>6, <3>1, ValueFacts DEF Exact, value
    <3>3. (n % Period) % Prescaler = n % Prescaler
      BY <1>0, <2>2, ModOfPeriod
    <3> QED BY <2>1, <2>3, <3>2, <3>3 DEF value
  <2>7. Exact(c, clock', wrapped')
    BY <2>2, <2>3, <2>5, <2>6 DEF Exact
  <2> QED BY <2>1, <2>3, <2>7, FinishExact DEF c
<1> QED BY <1>1, <1>2, <1>3

LEMMA TimerInit == Init => TimerInv
<1> SUFFICES ASSUME Init PROVE TimerInv
  OBVIOUS
<1>1. 0 \in 0..Period - 1
  BY PeriodFacts
<1> QED BY <1>1, InitInv DEF Init, resetCpu, TimerInv, Exact

LEMMA TimerStep == TimerInv /\ [Next]_cpuVars => TimerInv'
<1> SUFFICES ASSUME TimerInv, [Next]_cpuVars PROVE TimerInv'
  OBVIOUS
<1>1. CpuInv'
  BY StepInv DEF TimerInv
<1>2. Exact(cpu', clock', wrapped')
  <2>1. CASE Plain \/ Branch \/ JMPP \/ JMP \/ SEL_MB \/ MOV_PSW_A
             \/ EN_TCNTI \/ DIS_TCNTI \/ STRT_CNT \/ STOP_TCNT
    BY <2>1, InnerExact
  <2>2. CASE JTF \/ STRT_T \/ MOV_T_A
    BY <2>2, SetExact
  <2>3. CASE CALL \/ RET \/ RETR
    BY <2>3, StackExact
  <2>4. CASE Reset
    <3>1. cpu'.counts = "nothing" /\ cpu'.tf = FALSE /\ clock' = 0 /\ wrapped' = FALSE
      BY <2>4 DEF Reset, resetCpu
    <3>2. 0 \in 0..Period - 1
      BY PeriodFacts
    <3> QED BY <3>1, <3>2 DEF Exact
  <2>5. CASE UNCHANGED cpuVars
    BY <2>5 DEF cpuVars, TimerInv
  <2> QED BY <2>1, <2>2, <2>3, <2>4, <2>5 DEF Next, Aborted
<1> QED BY <1>1, <1>2 DEF TimerInv, Exact, value, Period

\* For every prescaler and width of T, the timer counts exactly the cycles that the
\* instructions report, and its flag misses no overflow (intel8049.cpp:175-185, 913-928).
THEOREM TimerIsExact == Spec => [](TimerExact /\ NoOverflowLost)
<1>1. TimerInv => TimerExact /\ NoOverflowLost
  BY DEF TimerInv, Exact, value, Running, TimerExact, NoOverflowLost
<1> QED BY <1>1, TimerInit, TimerStep, PTL DEF Spec

\* The flag that JTF tests tells of every overflow since it was cleared, and of no other
\* (intel8049.cpp:175-185, 913-917).
THEOREM OverflowsAreKept == Spec => []NoOverflowLost
BY TimerIsExact, PTL
=============================================================================
