------------------------------- MODULE Panel -------------------------------
(***************************************************************************)
(* The panel (src/ui/panel): display, LEDs, keyboard and switches, between *)
(* the executor thread, whose writes to ports call the panel's slots, and  *)
(* the UI thread, where the user is.  Executor steps are those of the      *)
(* firmware (cp1.asm) as far as the panel can tell: its timer routine      *)
(* scans one row per interrupt; between interrupts the program prints,     *)
(* writes port B or reads port 1.  The machine is left running here.       *)
(***************************************************************************)
EXTENDS Naturals, Sequences

CONSTANTS
    Rows,           \* rows of the matrix, which are the digits, too: 6
    Segments,       \* what a digit can show
    Blank,          \* no segment
    Buttons,        \* the buttons on the panel
    Typable,        \* those that the computer's keyboard presses, too
    Keys,           \* the crossings of the matrix; some have two buttons
    KeyOf,          \* [Buttons -> Keys]
    RowOf,          \* [Keys -> Row]
    Switches,       \* the number of switches: 8
    Levels,         \* bytes on port B
    AllOff, AllOn,  \* two of them: 0 and 255
    NIL,
    MaxUpdates      \* bound of this model: updates on their way as the timer interrupts

Row == 0..Rows - 1
LastRow == Rows - 1
Switch == 1..Switches
Garbage == Rows     \* activeDigit_ when its byte was never written: any out of range

ASSUME PanelConstants ==
    /\ {Rows, MaxUpdates} \subseteq Nat \ {0} /\ Switches \in Nat
    /\ Blank \in Segments /\ {AllOff, AllOn} \subseteq Levels
    /\ Typable \subseteq Buttons /\ NIL \notin Buttons
    /\ KeyOf \in [Buttons -> Keys] /\ RowOf \in [Keys -> Row]

VARIABLES
    prog,             \* where the program is: "init", "idle", within a write to port 1
                      \* ("reading"), after one ("written"), or "aborted"
    isr,              \* what the timer routine does next, "none" outside of it
    row,              \* the row it scans: the 0 bit of R5 in register bank 1
    vram,             \* the digits in the RAM of the 8049, leftmost first
    portB, portC,     \* of the 8155; port C by its lowest 0 bit
    activeDigit, lastPortWritten,        \* of CP1Display
    updates,          \* segmentsChanged signals on their way to the UI thread
    digits,           \* what the display shows, leftmost first
    leds,             \* what the LEDs show
    keyMask,          \* of CP1Keyboard: the keys whose bit is set
    pressed,          \* the buttons whose pressed_ is true
    mouse, typed,     \* history: the button that has the mouse, and the buttons whose
                      \* keys are held down
    seen,             \* the keys as the firmware last read them
    switches,         \* the switches that are on
    p1,               \* the bits of port 1 that are 1
    inPort1ValueWritten, \* of PanelWindow
    value, position,  \* of CP5Switches::value(): the bits so far and the next one
    had               \* history: the settings of each switch during the last write to P1

display == <<activeDigit, lastPortWritten, updates, digits, leds, portB, portC>>
keyboard == <<keyMask, pressed, mouse, typed>>
port1 == <<switches, p1, inPort1ValueWritten, value, position, had>>
panelVars == <<prog, isr, row, vram, display, keyboard, seen, port1>>

-----------------------------------------------------------------------------
(* Beginning.  CP1Display leaves two of its members uninitialized.         *)

Init ==
    /\ prog = "init" /\ isr = "none" /\ row = 0
    /\ vram = [d \in Row |-> Blank] /\ portB = AllOff /\ portC = 0
    /\ activeDigit \in Row \union {Garbage} /\ lastPortWritten \in {"A", "B", "C"}
    /\ updates = <<>> /\ digits = vram /\ leds = portB
    /\ keyMask = {} /\ pressed = {} /\ mouse = NIL /\ typed = {} /\ seen = {}
    /\ switches = {} /\ p1 = {} /\ inPort1ValueWritten = FALSE
    /\ value = {} /\ position = 0 /\ had = [s \in Switch |-> {0}]

-----------------------------------------------------------------------------
(* The slots called by a write to a port of the 8155.                      *)

\* Faulty variant of Shows: every write to port A counts.
ShowsAlways == TRUE

\* onPidPortWritten(): port A counts directly after port C only.
Shows == lastPortWritten = "C"

\* Faulty variant of DigitOf: forgets to turn the order round.
SameOrder(r) == r

\* setSegments() counts digits from the left, the rows begin at the right.
DigitOf(r) == LastRow - r

\* CP1Display::onPidPortWritten(), which aborts on a digit out of range.
onPidPortWritten(port, val) ==
    LET emits == port = "A" /\ Shows IN
    /\ lastPortWritten' = port
    /\ activeDigit' = IF port = "C" THEN val ELSE activeDigit
    /\ updates' = IF emits /\ activeDigit /= Garbage
                  THEN Append(updates, [digit |-> DigitOf(activeDigit), segments |-> val])
                  ELSE updates
    /\ prog' = IF emits /\ activeDigit = Garbage THEN "aborted"
               ELSE IF prog = "init" THEN "idle" ELSE prog

\* PanelWindow::on8155PortWritten() passes port B on to the LEDs.
on8155PortWritten(port, val) == leds' = IF port = "B" THEN val ELSE leds

\* A MOVX to a port of the 8155 in the main unit.
Write8155(port, val) ==
    /\ portB' = IF port = "B" THEN val ELSE portB
    /\ portC' = IF port = "C" THEN val ELSE portC
    /\ onPidPortWritten(port, val) /\ on8155PortWritten(port, val)
    /\ UNCHANGED <<digits, keyboard, port1>>

-----------------------------------------------------------------------------
(* Executor thread: the firmware.                                          *)

\* From the reset entry to the wait for a key.  Nothing interrupts it.
Initialize ==
    /\ prog = "init"
    /\ vram' = [d \in Row |-> Blank]
    /\ Write8155("B", AllOn)
    /\ UNCHANGED <<isr, row, seen>>

Idle == prog = "idle" /\ isr = "none"

\* The program shows something else.
Draw == \E d \in Row, s \in Segments :
    /\ Idle /\ vram' = [vram EXCEPT ![d] = s]
    /\ UNCHANGED <<prog, isr, row, display, keyboard, seen, port1>>

\* Opcode P2A puts a byte on port B.
PortOut == \E b \in Levels :
    /\ Idle /\ Write8155("B", b) /\ UNCHANGED <<isr, row, vram, seen>>

\* The timer routine's first write: the digit is dark while the row changes.
ClearDigit ==
    /\ prog \in {"idle", "written"} /\ isr = "none" /\ Len(updates) < MaxUpdates
    /\ Write8155("A", Blank)
    /\ isr' = "select" /\ UNCHANGED <<row, vram, seen>>

SelectRow ==
    /\ isr = "select" /\ prog /= "aborted"
    /\ Write8155("C", row)
    /\ isr' = "show" /\ UNCHANGED <<row, vram, seen>>

ShowDigit ==
    /\ isr = "show" /\ prog /= "aborted"
    /\ Write8155("A", vram[LastRow - row])
    /\ isr' = "read" /\ UNCHANGED <<row, vram, seen>>

KeysOfRow(r) == {k \in Keys : RowOf[k] = r}

\* Faulty variant of Nibble: rows counted like digits.
NibbleOfDigit == keyMask \intersect KeysOfRow(DigitOf(portC))

\* PanelWindow::onPinProgWritten() puts the keys of the row that port C selects on P2.
Nibble == keyMask \intersect KeysOfRow(portC)

\* Faulty variant of ReadRow: never back to the first row.
ReadRowUnwrapped ==
    /\ isr = "read" /\ prog /= "aborted"
    /\ seen' = (seen \ KeysOfRow(row)) \union Nibble
    /\ row' = row + 1 /\ isr' = "none"
    /\ UNCHANGED <<prog, vram, display, keyboard, port1>>

\* MOVD A,P4 reads them, and the routine goes on to the next row.
ReadRow ==
    /\ isr = "read" /\ prog /= "aborted"
    /\ seen' = (seen \ KeysOfRow(row)) \union Nibble
    /\ row' = (row + 1) % Rows /\ isr' = "none"
    /\ UNCHANGED <<prog, vram, display, keyboard, port1>>

-----------------------------------------------------------------------------
(* Executor thread: port 1.  The bits are those of CP5Switches::value(),   *)
(* which reads eight bytes that the user changes meanwhile.                *)

Setting(byte, s) == IF s \in byte THEN 1 ELSE 0

\* ORL P1 or OUTL P1 with the bits v: DataPort::write() calls onPort1ValueWritten(),
\* which goes on only if this is not its own write.
WritePort1(v) ==
    /\ p1' = v
    /\ IF inPort1ValueWritten
       THEN prog' = "written" /\ UNCHANGED <<inPort1ValueWritten, value, position, had>>
       ELSE /\ prog' = "reading" /\ inPort1ValueWritten' = TRUE
            /\ value' = {} /\ position' = 1
            /\ had' = [s \in Switch |-> {Setting(switches, s)}]

PreparePort1 ==
    /\ Idle /\ WritePort1(Switch)
    /\ UNCHANGED <<isr, row, vram, display, keyboard, seen, switches>>

ReadSwitch ==
    /\ prog = "reading" /\ position <= Switches
    /\ value' = IF position \in switches THEN value \union {position} ELSE value
    /\ position' = position + 1
    /\ UNCHANGED <<prog, isr, row, vram, display, keyboard, seen,
                   switches, p1, inPort1ValueWritten, had>>

\* Faulty variant of WriteSwitches: the flag stays up.
WriteSwitchesOnce ==
    /\ prog = "reading" /\ position > Switches
    /\ p1' = value /\ inPort1ValueWritten' = TRUE
    /\ prog' = "written" /\ position' = 0 /\ value' = {}
    /\ UNCHANGED <<isr, row, vram, display, keyboard, seen, switches, had>>

\* The inner write, which calls the slot again, and the end of the outer one.
WriteSwitches ==
    /\ prog = "reading" /\ position > Switches
    /\ p1' = value /\ inPort1ValueWritten' = FALSE
    /\ prog' = "written" /\ position' = 0 /\ value' = {}
    /\ UNCHANGED <<isr, row, vram, display, keyboard, seen, switches, had>>

\* IN A,P1.
ReadPort1 ==
    /\ prog = "written" /\ isr = "none" /\ prog' = "idle"
    /\ UNCHANGED <<isr, row, vram, display, keyboard, seen, port1>>

-----------------------------------------------------------------------------
(* UI thread: the display's queue, and the user.                           *)

UI == prog /= "aborted" /\ UNCHANGED <<isr, row, vram, seen>>

setSegments ==
    /\ UI /\ updates /= <<>>
    /\ digits' = [digits EXCEPT ![Head(updates).digit] = Head(updates).segments]
    /\ updates' = Tail(updates)
    /\ UNCHANGED <<prog, activeDigit, lastPortWritten, leds, portB, portC, keyboard, port1>>

\* The slots of CP1Keyboard.
KeyDown(b) == keyMask' = keyMask \union {KeyOf[b]}
KeyUp(b) == keyMask' = keyMask \ {KeyOf[b]}

Keyboard == UI /\ UNCHANGED <<prog, display, port1>>

\* CP1Button::setPressed() for a key of the computer's keyboard.
KeyPressEvent == \E b \in Typable :
    /\ Keyboard /\ b \notin typed /\ typed' = typed \union {b}
    /\ IF b \in pressed THEN UNCHANGED <<keyMask, pressed>>
       ELSE KeyDown(b) /\ pressed' = pressed \union {b}
    /\ UNCHANGED mouse

KeyReleaseEvent == \E b \in typed :
    /\ Keyboard /\ typed' = typed \ {b}
    /\ IF b \in pressed THEN KeyUp(b) /\ pressed' = pressed \ {b}
       ELSE UNCHANGED <<keyMask, pressed>>
    /\ UNCHANGED mouse

\* Any mouse button gives the mouse to the button; only the left one presses it.
MousePressEvent == \E b \in Buttons, left \in BOOLEAN :
    /\ Keyboard /\ mouse = NIL /\ mouse' = b
    /\ IF left THEN KeyDown(b) /\ pressed' = pressed \union {b}
       ELSE UNCHANGED <<keyMask, pressed>>
    /\ UNCHANGED typed

\* Off the button or back on it.
MouseMoveEvent ==
    /\ Keyboard /\ mouse /= NIL
    /\ pressed' \in {pressed \union {mouse}, pressed \ {mouse}}
    /\ UNCHANGED <<keyMask, mouse, typed>>

MouseReleaseEvent ==
    /\ Keyboard /\ mouse /= NIL /\ mouse' = NIL
    /\ IF mouse \in pressed THEN KeyUp(mouse) ELSE UNCHANGED keyMask
    /\ pressed' = pressed \ {mouse}
    /\ UNCHANGED typed

\* A click on a switch: CP5Switch::setValue().
Flip == \E s \in Switch :
    /\ UI
    /\ switches' = IF s \in switches THEN switches \ {s} ELSE switches \union {s}
    /\ had' = IF prog = "reading" THEN [had EXCEPT ![s] = {0, 1}] ELSE had
    /\ UNCHANGED <<prog, display, keyboard, p1, inPort1ValueWritten, value, position>>

\* The run control's reset, between two instructions.  Nothing tells the panel.
Reset ==
    /\ prog \notin {"reading", "aborted"}
    /\ prog' = "init" /\ isr' = "none" /\ row' = 0
    /\ portB' = AllOff /\ portC' = 0
    /\ UNCHANGED <<vram, activeDigit, lastPortWritten, updates, digits, leds,
                   keyboard, seen, port1>>

-----------------------------------------------------------------------------
Firmware == Initialize \/ ClearDigit \/ SelectRow \/ ShowDigit \/ ReadRow
Program == Draw \/ PortOut \/ PreparePort1 \/ ReadSwitch \/ WriteSwitches \/ ReadPort1
User ==
    \/ KeyPressEvent \/ KeyReleaseEvent
    \/ MousePressEvent \/ MouseMoveEvent \/ MouseReleaseEvent
    \/ Flip \/ Reset

Next == Firmware \/ Program \/ setSegments \/ User

\* The machine runs and its timer interrupts; within a write to port 1 it gets on; the
\* UI thread serves its queue.  The user and the program's drawing may come or not.
Fairness ==
    /\ SF_panelVars(ClearDigit) /\ WF_panelVars(Initialize)
    /\ WF_panelVars(SelectRow \/ ShowDigit \/ ReadRow)
    /\ WF_panelVars(ReadSwitch \/ WriteSwitches)
    /\ WF_panelVars(setSegments)

Spec == Init /\ [][Next]_panelVars /\ Fairness

-----------------------------------------------------------------------------
(* Properties.                                                             *)

PanelTypeOK ==
    /\ prog \in {"init", "idle", "reading", "written", "aborted"}
    /\ isr \in {"none", "select", "show", "read"}
    /\ row \in Row /\ portC \in Row /\ {portB, leds} \subseteq Levels
    /\ vram \in [Row -> Segments] /\ digits \in [Row -> Segments]
    /\ activeDigit \in Row \union {Garbage} /\ lastPortWritten \in {"A", "B", "C"}
    /\ updates \in Seq([digit : Row, segments : Segments]) /\ Len(updates) <= MaxUpdates
    /\ keyMask \subseteq Keys /\ seen \subseteq Keys
    /\ pressed \subseteq Buttons /\ typed \subseteq Typable /\ mouse \in Buttons \union {NIL}
    /\ {switches, p1, value} \subseteq SUBSET Switch /\ inPort1ValueWritten \in BOOLEAN
    /\ position \in 0..Switches + 1 /\ had \in [Switch -> SUBSET {0, 1}]

\* What CP1Display sends to the screen is a digit of the RAM, at its place.  The dark
\* phase of the scan never gets through, whatever the uninitialized members were.
DigitsGenuine ==
    [][\A u \in [digit : Row, segments : Segments] :
           updates' = Append(updates, u)
               => u = [digit |-> LastRow - row, segments |-> vram[LastRow - row]]]_panelVars

\* The check of the digit's range in CP1Display::onPidPortWritten() never fails.
DisplayAlive == prog /= "aborted"

\* PanelWindow's flag separates the CPU's write to port 1 from its own: what the program
\* reads is, switch by switch, a setting the switch had during that write.
SwitchesFresh == prog = "written" => \A s \in Switch : Setting(p1, s) \in had[s]

\* The user lets the machine run.
Undisturbed == <>[][~Reset]_panelVars

\* A digit that the program leaves alone is what the screen shows in the end.
DisplaySettles ==
    Undisturbed => \A d \in Row, s \in Segments : <>[](vram[d] = s) => <>[](digits[d] = s)

\* A key that stays down is seen by the firmware in the end, one that stays up is not.
KeysSettle ==
    Undisturbed => \A k \in Keys :
        /\ <>[](k \in keyMask) => <>[](k \in seen)
        /\ <>[](k \notin keyMask) => <>[](k \notin seen)

\* panelwindow.cpp:50-51: what the ROM reads is the keyboard state, so with no key held
\* down and no mouse button on a key, no bit is set.
KeysLetGo == (mouse = NIL /\ typed = {}) => keyMask = {}
=============================================================================
