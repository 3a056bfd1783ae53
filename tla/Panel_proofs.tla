---------------------------- MODULE Panel_proofs ----------------------------
(***************************************************************************)
(* Theorems about Panel, for any number of rows and switches and any keys: *)
(* the display shows what the RAM has and its range check does not fail,   *)
(* and a program reads each switch as it was during the write to port 1.   *)
(***************************************************************************)
EXTENDS Panel, SequenceTheorems, TLAPS

Update == [digit : Row, segments : Segments]

-----------------------------------------------------------------------------
(* The invariant.                                                          *)

\* Within the timer routine the display knows the row from port C, and outside of it
\* the last write was not one to port C, so the next one to port A does not count.
Scan ==
    /\ prog /= "aborted"
    /\ prog \in {"init", "reading"} => isr = "none"
    /\ isr = "show" => lastPortWritten = "C" /\ activeDigit = row
    /\ isr = "read" => lastPortWritten = "A"
    /\ isr \in {"none", "select"} /\ prog /= "init" => lastPortWritten /= "C"

\* The timer routine sends at most one update, and there was room for it.
Room == isr \in {"select", "show"} => Len(updates) < MaxUpdates

\* While the switches are read, had follows the user and covers what was read.
Reading ==
    /\ inPort1ValueWritten = (prog = "reading")
    /\ prog = "reading" =>
        /\ position >= 1 /\ value \subseteq 1..position - 1
        /\ \A s \in Switch : Setting(switches, s) \in had[s]
        /\ \A s \in Switch : s < position => Setting(value, s) \in had[s]

PanelInv == PanelTypeOK /\ Scan /\ Room /\ Reading /\ SwitchesFresh

LEMMA PanelInit == Init => PanelInv
<1> SUFFICES ASSUME Init PROVE PanelInv OBVIOUS
<1> USE PanelConstants
<1>1. 0 \in Row BY DEF Row
<1>2. PanelTypeOK
  <2>1. vram \in [Row -> Segments] /\ digits \in [Row -> Segments] BY DEF Init
  <2>2. updates \in Seq([digit : Row, segments : Segments]) /\ Len(updates) <= MaxUpdates BY DEF Init
  <2>3. had \in [Switch -> SUBSET {0, 1}] BY DEF Init
  <2>4. position \in 0..Switches + 1 BY DEF Init
  <2>5. {switches, p1, value} \subseteq SUBSET Switch /\ inPort1ValueWritten \in BOOLEAN BY DEF Init
  <2>6. row \in Row /\ portC \in Row /\ {portB, leds} \subseteq Levels BY <1>1 DEF Init
  <2>7. activeDigit \in Row \union {Garbage} /\ lastPortWritten \in {"A", "B", "C"} BY DEF Init
  <2>8. keyMask \subseteq Keys /\ seen \subseteq Keys /\ pressed \subseteq Buttons
        /\ typed \subseteq Typable /\ mouse \in Buttons \union {NIL} BY DEF Init
  <2>9. prog \in {"init", "idle", "reading", "written", "aborted"}
        /\ isr \in {"none", "select", "show", "read"} BY DEF Init
  <2> QED BY <2>1, <2>2, <2>3, <2>4, <2>5, <2>6, <2>7, <2>8, <2>9 DEF PanelTypeOK
<1>3. Scan /\ Room /\ Reading /\ SwitchesFresh BY DEF Init, Scan, Room, Reading, SwitchesFresh
<1> QED BY <1>2, <1>3 DEF PanelInv

-----------------------------------------------------------------------------
(* The steps.                                                              *)

\* One more update keeps the queue's type.
LEMMA OneMore ==
    ASSUME NEW q \in Seq(Update), NEW u \in Update
    PROVE  Append(q, u) \in Seq(Update) /\ Len(Append(q, u)) = Len(q) + 1
BY AppendProperties

\* A write to a port of the 8155 that sends no update.
LEMMA QuietWrite ==
    ASSUME PanelInv, NEW port \in {"A", "B", "C"}, NEW val, Write8155(port, val),
           port = "A" => val \in Segments /\ ~Shows,
           port = "B" => val \in Levels, port = "C" => val \in Row
    PROVE  /\ lastPortWritten' = port /\ updates' = updates
           /\ prog' = (IF prog = "init" THEN "idle" ELSE prog)
           /\ activeDigit' = (IF port = "C" THEN val ELSE activeDigit)
           /\ portC' \in Row /\ {portB', leds'} \subseteq Levels
           /\ activeDigit' \in Row \union {Garbage}
           /\ UNCHANGED <<digits, keyboard, port1>>
BY DEF Write8155, onPidPortWritten, on8155PortWritten, PanelInv, PanelTypeOK

\* What the steps of the firmware keep apart from the scan.
LEMMA KeptTypes ==
    ASSUME PanelInv, UNCHANGED <<digits, keyboard, port1>>,
           prog' \in {"idle", "written"} \union {prog}, prog' = "written" => prog = "written",
           (prog' = "reading") = (prog = "reading"),
           isr' \in {"none", "select", "show", "read"}, row' \in Row, portC' \in Row,
           {portB', leds'} \subseteq Levels, vram' \in [Row -> Segments],
           activeDigit' \in Row \union {Garbage}, lastPortWritten' \in {"A", "B", "C"},
           updates' \in Seq(Update), Len(updates') <= MaxUpdates, seen' \subseteq Keys
    PROVE  PanelTypeOK' /\ Reading' /\ SwitchesFresh'
<1>1. PanelTypeOK'
  <2> USE DEF PanelInv, PanelTypeOK, keyboard, port1
  <2>1. updates' \in Seq([digit : Row, segments : Segments]) BY DEF Update
  <2>2. digits' \in [Row -> Segments] /\ had' \in [Switch -> SUBSET {0, 1}] OBVIOUS
  <2>3. prog' \in {"init", "idle", "reading", "written", "aborted"} OBVIOUS
  <2>4. keyMask' \subseteq Keys /\ pressed' \subseteq Buttons /\ typed' \subseteq Typable
        /\ mouse' \in Buttons \union {NIL} OBVIOUS
  <2>5. {switches', p1', value'} \subseteq SUBSET Switch /\ inPort1ValueWritten' \in BOOLEAN
        /\ position' \in 0..Switches + 1 OBVIOUS
  <2> QED BY <2>1, <2>2, <2>3, <2>4, <2>5
<1>3. Reading' BY DEF PanelInv, Reading, port1
<1>4. SwitchesFresh' BY DEF PanelInv, SwitchesFresh, port1
<1> QED BY <1>1, <1>3, <1>4

\* The firmware's steps.
LEMMA FirmwareStep == PanelInv /\ Firmware => PanelInv'
<1> SUFFICES ASSUME PanelInv, Firmware PROVE PanelInv' OBVIOUS
<1> USE PanelConstants
<1>t. /\ row \in Row /\ vram \in [Row -> Segments] /\ LastRow - row \in Row /\ 0 \in Row
      /\ updates \in Seq(Update) /\ Len(updates) \in Nat /\ Len(updates) <= MaxUpdates
      /\ portC \in Row /\ {portB, leds} \subseteq Levels /\ seen \subseteq Keys
      /\ prog \in {"init", "idle", "reading", "written", "aborted"}
      /\ keyMask \subseteq Keys
  BY LenProperties DEF PanelInv, PanelTypeOK, Update, Row, LastRow
<1>1. CASE Initialize
  <2>1. prog = "init" /\ isr = "none" /\ isr' = isr /\ row' = row /\ seen' = seen
        BY <1>1 DEF Initialize, PanelInv, Scan
  <2>2. lastPortWritten' = "B" /\ updates' = updates /\ prog' = "idle"
        /\ portC' \in Row /\ {portB', leds'} \subseteq Levels
        /\ activeDigit' \in Row \union {Garbage} /\ UNCHANGED <<digits, keyboard, port1>>
    BY <1>1, <2>1, QuietWrite DEF Initialize
  <2>3. vram' \in [Row -> Segments] BY <1>1 DEF Initialize
  <2>4. PanelTypeOK' /\ Reading' /\ SwitchesFresh' BY <1>t, <2>1, <2>2, <2>3, KeptTypes
  <2>5. Scan' /\ Room' BY <2>1, <2>2 DEF Scan, Room
  <2> QED BY <2>4, <2>5 DEF PanelInv
<1>2. CASE ClearDigit
  <2>1. prog \in {"idle", "written"} /\ isr = "none" /\ isr' = "select" /\ row' = row
        /\ vram' = vram /\ seen' = seen /\ Len(updates) < MaxUpdates
        BY <1>2 DEF ClearDigit
  <2>2. ~Shows BY <2>1 DEF Shows, PanelInv, Scan
  <2>3. lastPortWritten' = "A" /\ updates' = updates /\ prog' = prog
        /\ portC' \in Row /\ {portB', leds'} \subseteq Levels
        /\ activeDigit' \in Row \union {Garbage} /\ UNCHANGED <<digits, keyboard, port1>>
    BY <1>2, <2>1, <2>2, QuietWrite DEF ClearDigit
  <2>4. PanelTypeOK' /\ Reading' /\ SwitchesFresh' BY <1>t, <2>1, <2>3, KeptTypes
  <2>5. Scan' /\ Room' BY <2>1, <2>3 DEF Scan, Room
  <2> QED BY <2>4, <2>5 DEF PanelInv
<1>3. CASE SelectRow
  <2>1. isr = "select" /\ isr' = "show" /\ row' = row /\ vram' = vram /\ seen' = seen
        /\ prog \notin {"init", "reading", "aborted"}
        BY <1>3 DEF SelectRow, PanelInv, Scan
  <2>3. lastPortWritten' = "C" /\ updates' = updates /\ prog' = prog
        /\ portC' \in Row /\ {portB', leds'} \subseteq Levels /\ activeDigit' = row
        /\ UNCHANGED <<digits, keyboard, port1>>
    BY <1>3, <1>t, <2>1, QuietWrite DEF SelectRow
  <2>4. PanelTypeOK' /\ Reading' /\ SwitchesFresh' BY <1>t, <2>1, <2>3, KeptTypes
  <2>5. Scan' /\ Room' BY <2>1, <2>3 DEF Scan, Room, PanelInv
  <2> QED BY <2>4, <2>5 DEF PanelInv
<1>4. CASE ShowDigit
  <2>1. isr = "show" /\ isr' = "read" /\ row' = row /\ vram' = vram /\ seen' = seen
        /\ prog \notin {"init", "reading", "aborted"}
        BY <1>4 DEF ShowDigit, PanelInv, Scan
  <2> DEFINE u == [digit |-> LastRow - row, segments |-> vram[LastRow - row]]
  <2>2. u \in Update BY <1>t DEF Update
  <2>3. lastPortWritten = "C" /\ activeDigit = row /\ row /= Garbage /\ Len(updates) < MaxUpdates
        BY <1>t, <2>1 DEF PanelInv, Scan, Room, Garbage, Row
  <2>4. lastPortWritten' = "A" /\ updates' = Append(updates, u) /\ prog' = prog
        /\ portC' = portC /\ portB' = portB /\ leds' = leds /\ activeDigit' = row
        /\ UNCHANGED <<digits, keyboard, port1>>
    BY <1>4, <2>1, <2>3
    DEF ShowDigit, Write8155, onPidPortWritten, on8155PortWritten, Shows, DigitOf
  <2>5. updates' \in Seq(Update) /\ Len(updates') <= MaxUpdates
        BY <1>t, <2>2, <2>3, <2>4, OneMore
  <2>6. PanelTypeOK' /\ Reading' /\ SwitchesFresh' BY <1>t, <2>1, <2>4, <2>5, KeptTypes
  <2>7. Scan' /\ Room' BY <2>1, <2>4 DEF Scan, Room
  <2> QED BY <2>6, <2>7 DEF PanelInv
<1>5. CASE ReadRow
  <2>1. isr = "read" /\ isr' = "none" /\ vram' = vram /\ prog' = prog
        /\ UNCHANGED <<display, keyboard, port1>> /\ lastPortWritten = "A"
        /\ prog \notin {"init", "reading", "aborted"}
        BY <1>5 DEF ReadRow, PanelInv, Scan
  <2>2. row' \in Row BY <1>5, <1>t DEF ReadRow, Row
  <2>3. seen' \subseteq Keys BY <1>5, <1>t DEF ReadRow, Nibble
  <2>4. PanelTypeOK' /\ Reading' /\ SwitchesFresh'
    <3>1. activeDigit \in Row \union {Garbage} /\ lastPortWritten \in {"A", "B", "C"}
          BY DEF PanelInv, PanelTypeOK
    <3> QED BY <1>t, <2>1, <2>2, <2>3, <3>1, KeptTypes DEF display
  <2>5. Scan' /\ Room' BY <2>1 DEF Scan, Room, display
  <2> QED BY <2>4, <2>5 DEF PanelInv
<1> QED BY <1>1, <1>2, <1>3, <1>4, <1>5 DEF Firmware

\* The program's steps, within the write to port 1 and outside of it.
LEMMA ProgramStep == PanelInv /\ Program => PanelInv'
<1> SUFFICES ASSUME PanelInv, Program PROVE PanelInv' OBVIOUS
<1> USE PanelConstants
<1>t. /\ row \in Row /\ vram \in [Row -> Segments]
      /\ updates \in Seq(Update) /\ Len(updates) <= MaxUpdates
      /\ portC \in Row /\ {portB, leds} \subseteq Levels /\ seen \subseteq Keys
      /\ activeDigit \in Row \union {Garbage} /\ lastPortWritten \in {"A", "B", "C"}
      /\ isr \in {"none", "select", "show", "read"}
      /\ position \in 0..Switches + 1 /\ value \subseteq Switch /\ switches \subseteq Switch
      /\ p1 \subseteq Switch /\ had \in [Switch -> SUBSET {0, 1}]
  BY DEF PanelInv, PanelTypeOK, Update
<1>1. CASE Draw
  <2>1. PICK d \in Row, s \in Segments : vram' = [vram EXCEPT ![d] = s] BY <1>1 DEF Draw
  <2>2. prog = "idle" /\ UNCHANGED <<prog, isr, row, display, keyboard, seen, port1>>
        BY <1>1 DEF Draw, Idle
  <2>3. PanelTypeOK' /\ Reading' /\ SwitchesFresh'
        BY <1>t, <2>1, <2>2, KeptTypes DEF display
  <2>4. Scan' /\ Room' BY <2>2 DEF Scan, Room, display, PanelInv
  <2> QED BY <2>3, <2>4 DEF PanelInv
<1>2. CASE PortOut
  <2>1. PICK b \in Levels : Write8155("B", b) BY <1>2 DEF PortOut
  <2>2. prog = "idle" /\ isr = "none" /\ UNCHANGED <<isr, row, vram, seen>>
        BY <1>2 DEF PortOut, Idle
  <2>3. lastPortWritten' = "B" /\ updates' = updates /\ prog' = prog
        /\ portC' \in Row /\ {portB', leds'} \subseteq Levels
        /\ activeDigit' \in Row \union {Garbage} /\ UNCHANGED <<digits, keyboard, port1>>
    BY <2>1, <2>2, QuietWrite
  <2>4. PanelTypeOK' /\ Reading' /\ SwitchesFresh' BY <1>t, <2>2, <2>3, KeptTypes
  <2>5. Scan' /\ Room' BY <2>2, <2>3 DEF Scan, Room
  <2> QED BY <2>4, <2>5 DEF PanelInv
<1>3. CASE ReadPort1
  <2>1. prog = "written" /\ prog' = "idle" /\ isr = "none"
        /\ UNCHANGED <<isr, row, vram, display, keyboard, seen, port1>> BY <1>3 DEF ReadPort1
  <2>2. PanelTypeOK' /\ Reading' /\ SwitchesFresh' BY <1>t, <2>1, KeptTypes DEF display
  <2>3. Scan' /\ Room' BY <2>1 DEF Scan, Room, display, PanelInv
  <2> QED BY <2>2, <2>3 DEF PanelInv
<1>4. ASSUME UNCHANGED <<isr, row, vram, display, keyboard, seen, switches>>,
             prog \in {"idle", "reading"}, isr = "none", prog' \in {"reading", "written"},
             p1' \subseteq Switch, value' \subseteq Switch, inPort1ValueWritten' \in BOOLEAN,
             position' \in 0..Switches + 1, had' \in [Switch -> SUBSET {0, 1}],
             Reading', SwitchesFresh'
      PROVE  PanelInv'
  <2>1. updates' \in Seq([digit : Row, segments : Segments]) /\ Len(updates') <= MaxUpdates
        BY <1>4, <1>t DEF display, Update
  <2>2. PanelTypeOK' BY <1>4, <2>1 DEF PanelInv, PanelTypeOK, display, keyboard
  <2>3. Scan' /\ Room' BY <1>4 DEF Scan, Room, display, PanelInv
  <2> QED BY <1>4, <2>2, <2>3 DEF PanelInv
<1>5. CASE PreparePort1
  <2>1. prog = "idle" /\ isr = "none" /\ ~inPort1ValueWritten
        /\ UNCHANGED <<isr, row, vram, display, keyboard, seen, switches>>
        BY <1>5 DEF PreparePort1, Idle, PanelInv, Reading
  <2>2. p1' = Switch /\ prog' = "reading" /\ inPort1ValueWritten' = TRUE
        /\ value' = {} /\ position' = 1 /\ had' = [s \in Switch |-> {Setting(switches, s)}]
        BY <1>5, <2>1, Zenon DEF PreparePort1, WritePort1
  <2>3. Reading' /\ SwitchesFresh'
    <3>1. \A s \in Switch : Setting(switches', s) \in had'[s] BY <2>1, <2>2
    <3>2. \A s \in Switch : ~(s < position') BY <2>2 DEF Switch
    <3>3. inPort1ValueWritten' = (prog' = "reading") /\ prog' /= "written" BY <2>2
    <3>4. position' >= 1 /\ value' \subseteq 1..position' - 1 BY <2>2
    <3> QED BY <3>1, <3>2, <3>3, <3>4 DEF Reading, SwitchesFresh
  <2>4. had' \in [Switch -> SUBSET {0, 1}] BY <2>2 DEF Setting
  <2>5. position' \in 0..Switches + 1 BY <2>2
  <2> QED BY <1>4, <2>1, <2>2, <2>3, <2>4, <2>5
<1>6. CASE ReadSwitch
  <2>1. prog = "reading" /\ isr = "none" /\ position \in 1..Switches /\ position' = position + 1
        /\ value' = (IF position \in switches THEN value \union {position} ELSE value)
        /\ UNCHANGED <<prog, isr, row, vram, display, keyboard, seen,
                       switches, p1, inPort1ValueWritten, had>>
        BY <1>6, <1>t DEF ReadSwitch, PanelInv, Scan, Reading
  <2>2. value \subseteq 1..position - 1 /\ inPort1ValueWritten = TRUE
        /\ (\A s \in Switch : Setting(switches, s) \in had[s])
        /\ (\A s \in Switch : s < position => Setting(value, s) \in had[s])
        BY <2>1 DEF PanelInv, Reading
  <2>3. value' \subseteq 1..position' - 1 BY <2>1, <2>2
  <2>4. ASSUME NEW s \in Switch, s < position' PROVE Setting(value', s) \in had'[s]
    <3>1. CASE s = position
      <4>1. Setting(value', s) = Setting(switches, s) BY <2>1, <2>2, <3>1 DEF Setting
      <4> QED BY <2>1, <2>2, <4>1
    <3>2. CASE s /= position
      <4>1. s < position BY <2>1, <2>4, <3>2 DEF Switch
      <4>2. Setting(value', s) = Setting(value, s) BY <2>1, <3>2 DEF Setting
      <4> QED BY <2>1, <2>2, <4>1, <4>2
    <3> QED BY <3>1, <3>2
  <2>5. Reading' /\ SwitchesFresh'
    <3>1. inPort1ValueWritten' = (prog' = "reading") /\ prog' /= "written" BY <2>1, <2>2
    <3>2. position' >= 1 BY <2>1
    <3>3. \A s \in Switch : Setting(switches', s) \in had'[s] BY <2>1, <2>2
    <3> QED BY <2>3, <2>4, <3>1, <3>2, <3>3 DEF Reading, SwitchesFresh
  <2>6. value' \subseteq Switch /\ position' \in 0..Switches + 1
        BY <1>t, <2>1 DEF Switch
  <2>7. inPort1ValueWritten' \in BOOLEAN BY <2>1, <2>2
  <2> QED BY <1>4, <1>t, <2>1, <2>5, <2>6, <2>7
<1>7. CASE WriteSwitches
  <2>1. prog = "reading" /\ isr = "none" /\ position > Switches /\ prog' = "written"
        /\ p1' = value /\ inPort1ValueWritten' = FALSE /\ position' = 0 /\ value' = {}
        /\ UNCHANGED <<isr, row, vram, display, keyboard, seen, switches, had>>
        BY <1>7 DEF WriteSwitches, PanelInv, Scan
  <2>2. ASSUME NEW s \in Switch PROVE Setting(p1', s) \in had'[s]
    <3>1. s < position BY <1>t, <2>1 DEF Switch
    <3>2. Setting(value, s) \in had[s] BY <2>1, <3>1 DEF PanelInv, Reading
    <3> QED BY <2>1, <3>2
  <2>3. Reading' /\ SwitchesFresh' BY <2>1, <2>2 DEF Reading, SwitchesFresh
  <2>4. p1' \subseteq Switch /\ value' \subseteq Switch BY <1>t, <2>1
  <2>5. had' \in [Switch -> SUBSET {0, 1}] BY <1>t, <2>1
  <2>6. position' \in 0..Switches + 1 BY <2>1
  <2>7. inPort1ValueWritten' \in BOOLEAN BY <2>1, Zenon
  <2> QED BY <1>4, <2>1, <2>3, <2>4, <2>5, <2>6, <2>7
<1> QED BY <1>1, <1>2, <1>3, <1>5, <1>6, <1>7 DEF Program

\* The UI thread's steps: the firmware's part stays as it is.
LEMMA UserStep == PanelInv /\ (setSegments \/ User) => PanelInv'
<1> SUFFICES ASSUME PanelInv, setSegments \/ User PROVE PanelInv' OBVIOUS
<1> USE PanelConstants
<1>t. /\ PanelTypeOK /\ Scan /\ Room /\ Reading /\ SwitchesFresh
      /\ updates \in Seq(Update) /\ Len(updates) <= MaxUpdates /\ Len(updates) \in Nat
  BY LenProperties DEF PanelInv, PanelTypeOK, Update
<1>1. CASE setSegments
  <2> DEFINE u == Head(updates)
  <2>1. /\ UNCHANGED <<isr, row, vram, seen, prog, activeDigit, lastPortWritten, leds,
                       portB, portC, keyboard, port1>>
        /\ updates /= <<>> /\ updates' = Tail(updates)
        /\ digits' = [digits EXCEPT ![u.digit] = u.segments]
    BY <1>1 DEF setSegments, UI
  <2>2. u \in Update /\ Tail(updates) \in Seq(Update) /\ Len(Tail(updates)) = Len(updates) - 1
    BY <1>t, <2>1, HeadTailProperties
  <2>3. digits' \in [Row -> Segments] BY <1>t, <2>1, <2>2 DEF PanelTypeOK, Update
  <2>4. updates' \in Seq([digit : Row, segments : Segments]) /\ Len(updates') <= MaxUpdates
    BY <1>t, <2>1, <2>2 DEF Update
  <2>5. PanelTypeOK' BY <1>t, <2>1, <2>3, <2>4 DEF PanelTypeOK, keyboard, port1
  <2>6. Room' BY <1>t, <2>1, <2>2 DEF Room
  <2>7. Scan' BY <1>t, <2>1 DEF Scan
  <2>8. Reading' /\ SwitchesFresh' BY <1>t, <2>1 DEF Reading, SwitchesFresh, port1
  <2> QED BY <2>5, <2>6, <2>7, <2>8 DEF PanelInv
<1>2. ASSUME Keyboard, keyMask' \subseteq Keys, pressed' \subseteq Buttons,
             typed' \subseteq Typable, mouse' \in Buttons \union {NIL}
      PROVE  PanelInv'
  <2>1. UNCHANGED <<isr, row, vram, seen, prog, display, port1>> BY <1>2 DEF Keyboard, UI
  <2>2. updates' \in Seq([digit : Row, segments : Segments]) /\ Len(updates') <= MaxUpdates
    BY <1>t, <2>1 DEF Update, display
  <2>3. PanelTypeOK' BY <1>2, <1>t, <2>1, <2>2 DEF PanelTypeOK, display, port1
  <2>4. Scan' /\ Room' BY <1>t, <2>1 DEF Scan, Room, display
  <2>5. Reading' /\ SwitchesFresh' BY <1>t, <2>1 DEF Reading, SwitchesFresh, port1
  <2> QED BY <2>3, <2>4, <2>5 DEF PanelInv
<1>3. CASE KeyPressEvent \/ KeyReleaseEvent \/ MousePressEvent \/ MouseMoveEvent \/ MouseReleaseEvent
  <2>1. Keyboard /\ typed' \subseteq Typable /\ mouse' \in Buttons \union {NIL}
    BY <1>3, <1>t DEF KeyPressEvent, KeyReleaseEvent, MousePressEvent, MouseMoveEvent,
                      MouseReleaseEvent, PanelTypeOK
  <2>2. keyMask' \subseteq Keys /\ pressed' \subseteq Buttons
    BY <1>3, <1>t DEF KeyPressEvent, KeyReleaseEvent, MousePressEvent, MouseMoveEvent,
                      MouseReleaseEvent, PanelTypeOK, KeyDown, KeyUp
  <2> QED BY <1>2, <2>1, <2>2
<1>4. CASE Flip
  <2>1. PICK s \in Switch :
          /\ switches' = (IF s \in switches THEN switches \ {s} ELSE switches \union {s})
          /\ had' = (IF prog = "reading" THEN [had EXCEPT ![s] = {0, 1}] ELSE had)
    BY <1>4 DEF Flip
  <2>2. UNCHANGED <<isr, row, vram, seen, prog, display, keyboard, p1, inPort1ValueWritten,
                    value, position>>
    BY <1>4 DEF Flip, UI
  <2>3. updates' \in Seq([digit : Row, segments : Segments]) /\ Len(updates') <= MaxUpdates
    BY <1>t, <2>2 DEF Update, display
  <2>4. switches' \subseteq Switch /\ had' \in [Switch -> SUBSET {0, 1}]
    BY <1>t, <2>1 DEF PanelTypeOK
  <2>5. PanelTypeOK' BY <1>t, <2>2, <2>3, <2>4 DEF PanelTypeOK, display, keyboard
  <2>6. Scan' /\ Room' BY <1>t, <2>2 DEF Scan, Room, display
  <2>7. SwitchesFresh' BY <1>t, <2>1, <2>2 DEF SwitchesFresh
  <2>8. Reading'
    <3>1. CASE prog /= "reading" BY <1>t, <2>2, <3>1 DEF Reading
    <3>2. CASE prog = "reading"
      <4>1. \A r \in Switch : Setting(switches', r) \in had'[r]
            BY <1>t, <2>1, <3>2 DEF PanelTypeOK, Reading, Setting
      <4>2. \A r \in Switch : r < position' => Setting(value', r) \in had'[r]
            BY <1>t, <2>1, <2>2, <3>2 DEF PanelTypeOK, Reading, Setting
      <4> QED BY <1>t, <2>2, <3>2, <4>1, <4>2 DEF Reading
    <3> QED BY <3>1, <3>2
  <2> QED BY <2>5, <2>6, <2>7, <2>8 DEF PanelInv
<1>5. CASE Reset
  <2>1. prog \notin {"reading", "aborted"} /\ prog' = "init" /\ isr' = "none" /\ row' = 0
        /\ portB' = AllOff /\ portC' = 0
        /\ UNCHANGED <<vram, activeDigit, lastPortWritten, updates, digits, leds,
                       keyboard, seen, port1>>
    BY <1>5 DEF Reset
  <2>2. 0 \in Row BY DEF Row
  <2>3. updates' \in Seq([digit : Row, segments : Segments]) /\ Len(updates') <= MaxUpdates
    BY <1>t, <2>1 DEF Update
  <2>4. PanelTypeOK' BY <1>t, <2>1, <2>2, <2>3 DEF PanelTypeOK, keyboard, port1
  <2>5. Scan' /\ Room' BY <2>1 DEF Scan, Room
  <2>6. Reading' /\ SwitchesFresh' BY <1>t, <2>1 DEF Reading, SwitchesFresh, port1
  <2> QED BY <2>4, <2>5, <2>6 DEF PanelInv
<1> QED BY <1>1, <1>3, <1>4, <1>5 DEF User

LEMMA PanelStep == PanelInv /\ [Next]_panelVars => PanelInv'
<1> SUFFICES ASSUME PanelInv, [Next]_panelVars PROVE PanelInv' OBVIOUS
<1>1. CASE Next BY <1>1, FirmwareStep, ProgramStep, UserStep DEF Next
<1>2. CASE UNCHANGED panelVars
  BY <1>2 DEF panelVars, display, keyboard, port1, PanelInv, PanelTypeOK, Scan, Room,
              Reading, SwitchesFresh, Setting
<1> QED BY <1>1, <1>2

-----------------------------------------------------------------------------
(* The theorems.                                                           *)

\* The display's range check never ends the program, whatever the members held that
\* CP1Display leaves uninitialized, and with resets at any time; types are kept.
THEOREM DisplayStaysAlive == Spec => []PanelTypeOK /\ []DisplayAlive
<1>1. PanelInv => PanelTypeOK /\ DisplayAlive BY DEF PanelInv, Scan, DisplayAlive
<1> QED BY <1>1, PanelInit, PanelStep, PTL DEF Spec

\* What the program reads from port 1 is, for each of any number of switches, a setting
\* it had during the write before, however the user flips them meanwhile.
THEOREM SwitchesAreFresh == Spec => []SwitchesFresh
<1>1. PanelInv => SwitchesFresh BY DEF PanelInv
<1> QED BY <1>1, PanelInit, PanelStep, PTL DEF Spec

\* Only the routine's second write to port A sends an update, and that is the digit of
\* the row in the RAM, at its place from the left.
THEOREM DisplayIsGenuine == Spec => DigitsGenuine
<1> DEFINE Shown == [digit |-> LastRow - row, segments |-> vram[LastRow - row]]
           Genuine == \A u \in Update : updates' = Append(updates, u) => u = Shown
<1>1. ASSUME PanelInv, Next, NEW u \in Update, updates' = Append(updates, u) PROVE u = Shown
  <2>1. updates \in Seq(Update) /\ Len(updates) \in Nat
    BY <1>1, LenProperties DEF PanelInv, PanelTypeOK, Update
  <2>2. Len(updates') = Len(updates) + 1 /\ updates'[Len(updates) + 1] = u
    BY <1>1, <2>1, AppendProperties
  <2>3. CASE updates' = updates BY <2>1, <2>2, <2>3
  <2>4. CASE setSegments
    <3>1. Len(updates') = Len(updates) - 1
      BY <2>1, <2>4, HeadTailProperties DEF setSegments
    <3> QED BY <2>1, <2>2, <3>1
  <2>5. CASE ShowDigit
    <3>1. isr = "show" /\ lastPortWritten = "C" /\ activeDigit = row /\ row \in Row
      BY <1>1, <2>5 DEF ShowDigit, PanelInv, Scan, PanelTypeOK
    <3>2. row /= Garbage /\ LastRow - row \in Row
      BY <3>1, PanelConstants DEF Garbage, Row, LastRow
    <3>3. updates' = Append(updates, Shown)
      BY <2>5, <3>1, <3>2
      DEF ShowDigit, Write8155, onPidPortWritten, Shows, DigitOf
    <3>4. Shown \in Update BY <1>1, <3>2 DEF PanelInv, PanelTypeOK, Update
    <3> QED BY <2>1, <2>2, <3>3, <3>4, AppendProperties
  <2>6. CASE ClearDigit
    <3>1. isr = "none" /\ prog /= "init" /\ Write8155("A", Blank) BY <2>6 DEF ClearDigit
    <3>2. ~Shows BY <1>1, <3>1 DEF PanelInv, Scan, Shows
    <3>3. updates' = updates BY <3>1, <3>2 DEF Write8155, onPidPortWritten
    <3> QED BY <2>3, <3>3
  <2>7. CASE Initialize \/ SelectRow \/ PortOut
    <3>1. updates' = updates
      BY <2>7 DEF Initialize, SelectRow, PortOut, Write8155, onPidPortWritten
    <3> QED BY <2>3, <3>1
  <2>8. CASE ReadRow \/ Draw \/ PreparePort1 \/ ReadSwitch \/ WriteSwitches \/ ReadPort1
    <3>1. updates' = updates
      BY <2>8 DEF ReadRow, Draw, PreparePort1, ReadSwitch, WriteSwitches, ReadPort1, display
    <3> QED BY <2>3, <3>1
  <2>9. CASE User
    <3>1. updates' = updates
      BY <2>9 DEF User, KeyPressEvent, KeyReleaseEvent, MousePressEvent, MouseMoveEvent,
                  MouseReleaseEvent, Keyboard, Flip, Reset, display
    <3> QED BY <2>3, <3>1
  <2> QED BY <1>1, <2>4, <2>5, <2>6, <2>7, <2>8, <2>9 DEF Next, Firmware, Program
<1>2. PanelInv /\ [Next]_panelVars => [Genuine]_panelVars BY <1>1
<1>3. Init /\ [][Next]_panelVars => [][Genuine]_panelVars BY <1>2, PanelInit, PanelStep, PTL
<1> QED BY <1>3 DEF Spec, DigitsGenuine, Update
=============================================================================
