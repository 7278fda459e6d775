------------------------------ MODULE Console -------------------------------
(***************************************************************************)
(* From a key to the program that reads it, and from a program to the      *)
(* screen.  Input: the keyboard driver (keyboard.c), PS/2 mouse packets    *)
(* and set-up (mouse.c), the input hub (input.c) and the router's keys     *)
(* (inr.c).  Pseudo terminals (pty.c).  Output: the text screens of the    *)
(* virtual terminals (vt.c) and the scrollback of the graphical terminal   *)
(* (term.c).  The four parts share no state.                               *)
(***************************************************************************)
EXTENDS Integers, Sequences, FiniteSets, SequencesExt, FiniteSetsExt

CONSTANTS
    KBD_BUF_SIZE, IN_QSIZE, IN_COALESCE_MAX,
    InputKeys,       \* keys that are pressed: characters, modifiers, "F1", "F2", "up"
    MousePackets,    \* packets the mouse sends: sequences of three bytes
    MaxInputs,       \* bound: presses, arrow keys and packets
    MaxSwitches,     \* bound: changes of focus
    PTY_MAX, PTY_RING, PTY_LINE, PtyChars, PtyWrites,
    VT_ROWS, VT_COLS, VtChars, MaxWritten,
    TERM_BUF_LINES, TERM_BUF_W

ASSUME ConsoleAssumption ==
    /\ {KBD_BUF_SIZE, IN_QSIZE} \subseteq Nat \ {0, 1} /\ IN_COALESCE_MAX \in Nat
    /\ {MaxInputs, MaxSwitches, PTY_RING, MaxWritten} \subseteq Nat
    /\ {PTY_MAX, PTY_LINE, VT_ROWS, VT_COLS, TERM_BUF_LINES, TERM_BUF_W} \subseteq Nat \ {0}

------------------------------
(* Input.  An interrupt handler runs between any two events the router     *)
(* takes; every key press has a number that follows it.                    *)

VARIABLES
    kbd,        \* the keyboard driver: its buffer, modifiers and 0xE0 seen
    in_q,       \* the hub's queue
    inr_keys,   \* the router: its own modifiers
    inr_where,  \* [vt, focus]: the terminal shown, the terminal window has focus
    pkt,        \* bytes of an unfinished mouse packet
    pointer,    \* how far the router has moved the pointer
    typed,      \* history: what became of each press
    kbd_wire        \* keys held, bytes on their way, distance and faults so far
inputVars == <<kbd, in_q, inr_keys, inr_where, pkt, pointer, typed, kbd_wire>>

Modifiers == {"shift", "ctrl", "alt"}
FKeys == {"F1", "F2"}
Arrows == {"up"}
NoMods == [shift |-> FALSE, ctrl |-> FALSE, alt |-> FALSE]

inputInit ==
    /\ kbd = [buf |-> <<>>, mod |-> NoMods, caps |-> FALSE, ext |-> FALSE]
    /\ in_q = <<>>
    /\ inr_keys = NoMods
    /\ inr_where = [vt |-> "gui", focus |-> TRUE]
    /\ pkt = <<>> /\ pointer = 0
    /\ typed = <<>>
    /\ kbd_wire = [held |-> {}, bytes |-> <<>>, sum |-> 0, sat |-> FALSE,
               drop |-> FALSE, packets |-> 0, switches |-> 0]

\* scancode_map and scancode_shift_map, and the router's own table.
kbd_decode(k, m, caps) ==
    CASE k = "a" -> IF m.shift # caps THEN "A" ELSE "a"
      [] k = "1" -> IF m.shift THEN "!" ELSE "1"
      [] k = "-" -> IF m.shift THEN "_" ELSE "-"
      [] OTHER -> "none"
key_decode(k, m) ==
    CASE k = "a" -> IF m.shift THEN "A" ELSE "a"
      [] k = "1" -> IF m.shift THEN ")" ELSE "1"
      [] OTHER -> "none"

vt_gui_active == inr_where.vt = "gui"
inr_claims_keyboard == vt_gui_active /\ inr_where.focus
KbdTakesAlways == vt_gui_active
kbd_takes == vt_gui_active /\ ~inr_claims_keyboard

kbd_buffer_put(b, c) == IF Len(b) + 1 >= KBD_BUF_SIZE THEN b ELSE Append(b, c)

\* Moves one after the other are added up, without going past the limit.
Saturated(v) == IF v > IN_COALESCE_MAX THEN IN_COALESCE_MAX
                ELSE IF v < -IN_COALESCE_MAX THEN -IN_COALESCE_MAX ELSE v
Merged(a, b) == [a EXCEPT !.x = Saturated(a.x + b.x), !.btn = a.btn \cup b.btn]
input_push(q, e) ==
    IF e.type = "move" /\ q # <<>> /\ Last(q).type = "move"
    THEN [q EXCEPT ![Len(q)] = Merged(Last(q), e)]
    ELSE IF Len(q) + 1 >= IN_QSIZE THEN q ELSE Append(q, e)
KeyDropped(q, e) ==
    ~(e.type = "move" /\ q # <<>> /\ Last(q).type = "move") /\ Len(q) + 1 >= IN_QSIZE
Saturates(q, e) ==
    /\ e.type = "move" /\ q # <<>> /\ Last(q).type = "move"
    /\ Last(q).x + e.x # Saturated(Last(q).x + e.x)

KeyEvent(t, k, n) == [type |-> t, key |-> k, n |-> n]
MoveEvent(x, b) == [type |-> "move", x |-> x, btn |-> b]
BtnEvent(b) == [type |-> "btn", btn |-> b]

Pressed(k) ==
    LET n == Len(typed) + 1
        e == KeyEvent("press", k, n)
        c == kbd_decode(k, kbd.mod, kbd.caps)
        char == k \notin Modifiers /\ c # "none"
        room == Len(kbd.buf) + 1 < KBD_BUF_SIZE
    IN /\ in_q' = input_push(in_q, e)
       /\ kbd_wire' = [kbd_wire EXCEPT !.drop = @ \/ KeyDropped(in_q, e),
                               !.held = @ \cup {k}]
       /\ kbd' = [kbd EXCEPT
              !.mod = IF k \in Modifiers THEN [@ EXCEPT ![k] = TRUE] ELSE @,
              !.caps = IF k = "caps" THEN ~@ ELSE @,
              !.buf = IF char /\ kbd_takes THEN kbd_buffer_put(@, [n |-> n, ch |-> c]) ELSE @]
       /\ typed' = Append(typed, [key |-> k, vt |-> inr_where.vt, moved |-> FALSE,
                                  to |-> IF char /\ kbd_takes /\ room THEN {"buffer"} ELSE {},
                                  lost |-> KeyDropped(in_q, e) \/ (char /\ kbd_takes /\ ~room)])

Released(k) ==
    LET e == KeyEvent("release", k, 0)
    IN /\ in_q' = input_push(in_q, e)
       /\ kbd_wire' = [kbd_wire EXCEPT !.drop = @ \/ KeyDropped(in_q, e), !.held = @ \ {k}]
       /\ kbd' = [kbd EXCEPT !.mod = IF k \in Modifiers THEN [@ EXCEPT ![k] = FALSE] ELSE @]
       /\ UNCHANGED typed

\* An arrow key: 0xE0 first, then its code; the hub is not told of either.
ArrowPrefix ==
    /\ ~kbd.ext
    /\ kbd' = [kbd EXCEPT !.ext = TRUE]
    /\ Len(typed) + kbd_wire.packets < MaxInputs
    /\ kbd_wire' = [kbd_wire EXCEPT !.packets = @ + 1]
    /\ UNCHANGED <<in_q, typed>>
ArrowCode(k) ==
    /\ kbd.ext
    /\ kbd' = [kbd EXCEPT !.ext = FALSE,
                          !.buf = IF kbd_takes
                                  THEN FoldLeft(kbd_buffer_put, @, [i \in 1 .. 3 |-> [n |-> 0, ch |-> k]])
                                  ELSE @]
    /\ UNCHANGED <<in_q, kbd_wire, typed>>

\* keyboard_scancode(), from the interrupt of the keyboard or from USB.
keyboard_scancode(k) ==
    /\ \/ /\ k \notin Arrows /\ ~kbd.ext
          /\ \/ k \notin kbd_wire.held /\ Len(typed) + kbd_wire.packets < MaxInputs /\ Pressed(k)
             \/ k \in kbd_wire.held /\ Released(k)
       \/ k \in Arrows /\ (ArrowPrefix \/ ArrowCode(k))
    /\ UNCHANGED <<inr_keys, inr_where, pkt, pointer>>

\* keyboard_getchar() by the program that reads the console.
keyboard_getchar ==
    /\ kbd.buf # <<>>
    /\ kbd' = [kbd EXCEPT !.buf = Tail(@)]
    /\ UNCHANGED <<in_q, inr_keys, inr_where, pkt, pointer, typed, kbd_wire>>

\* The mouse puts a packet on the kbd_wire; a byte may be lost there.
MouseMoves(p) ==
    /\ kbd_wire.bytes = <<>> /\ Len(typed) + kbd_wire.packets < MaxInputs
    /\ \E b \in {p, Tail(p)} :
         kbd_wire' = [kbd_wire EXCEPT !.bytes = b, !.packets = @ + 1, !.drop = @ \/ b # p,
                              !.sum = @ + (IF p[1] >= 64 THEN 0
                                           ELSE IF p[1] >= 16 THEN p[2] - 256 ELSE p[2])]
    /\ UNCHANGED <<kbd, in_q, inr_keys, inr_where, pkt, pointer, typed>>

\* mouse_feed_byte(): a first byte has bit 3 set; overflow drops the packet.
Bit(b, k) == (b \div 2^k) % 2 = 1
MouseEventOf(p) ==
    LET x == IF Bit(p[1], 4) THEN p[2] - 256 ELSE p[2]
        b == IF Bit(p[1], 0) THEN {"left"} ELSE {}
    IN IF x = 0 /\ p[3] = 0 THEN BtnEvent(b) ELSE MoveEvent(x, b)
mouse_feed_byte ==
    /\ kbd_wire.bytes # <<>>
    /\ \E b \in {Head(kbd_wire.bytes)} :
          LET got == Append(pkt, b)
              e == MouseEventOf(got)
          IN IF pkt = <<>> /\ ~Bit(b, 3)
             THEN UNCHANGED <<pkt, in_q>> /\ kbd_wire' = [kbd_wire EXCEPT !.bytes = Tail(@)]
             ELSE IF Len(got) < 3
             THEN /\ pkt' = got /\ UNCHANGED in_q
                  /\ kbd_wire' = [kbd_wire EXCEPT !.bytes = Tail(@)]
             ELSE /\ pkt' = <<>>
                  /\ IF Bit(got[1], 6) \/ Bit(got[1], 7)
                     THEN UNCHANGED in_q /\ kbd_wire' = [kbd_wire EXCEPT !.bytes = Tail(@)]
                     ELSE /\ in_q' = input_push(in_q, e)
                          /\ kbd_wire' = [kbd_wire EXCEPT !.bytes = Tail(@),
                                                  !.drop = @ \/ KeyDropped(in_q, e),
                                                  !.sat = @ \/ Saturates(in_q, e)]
    /\ UNCHANGED <<kbd, inr_keys, inr_where, pointer, typed>>

\* inr_key_event(): modifiers, Alt and a function key, then the terminal.
Reached(n) == typed' = [typed EXCEPT ![n].to = @ \cup {"terminal"}]
inr_key_event(e) ==
    /\ inr_keys' = IF e.key \in Modifiers THEN [inr_keys EXCEPT ![e.key] = e.type = "press"]
                   ELSE inr_keys
    /\ IF e.type = "press" /\ inr_keys.alt /\ e.key \in FKeys
       THEN /\ inr_where' = [inr_where EXCEPT !.vt = IF e.key = "F1" THEN "gui" ELSE "text"]
            /\ typed' = [n \in DOMAIN typed |->
                           [typed[n] EXCEPT !.moved = @ \/ \E i \in 2 .. Len(in_q) :
                                in_q[i].type = "press" /\ in_q[i].n = n]]
       ELSE /\ UNCHANGED inr_where
            /\ IF /\ e.type = "press" /\ e.key \notin Modifiers /\ vt_gui_active
                  /\ key_decode(e.key, inr_keys) # "none" /\ inr_where.focus
               THEN Reached(e.n) ELSE UNCHANGED typed

\* inr_poll(): one event; interrupts are taken between two of them.
inr_poll ==
    /\ in_q # <<>>
    /\ in_q' = Tail(in_q)
    /\ IF Head(in_q).type \in {"press", "release"}
       THEN inr_key_event(Head(in_q)) /\ UNCHANGED pointer
       ELSE /\ pointer' = IF Head(in_q).type = "move" THEN pointer + Head(in_q).x ELSE pointer
            /\ UNCHANGED <<inr_keys, inr_where, typed>>
    /\ UNCHANGED <<kbd, pkt, kbd_wire>>

\* A click or a program gives the focus to another window, or back.
FocusChange ==
    /\ kbd_wire.switches < MaxSwitches
    /\ kbd_wire' = [kbd_wire EXCEPT !.switches = @ + 1]
    /\ inr_where' = [inr_where EXCEPT !.focus = ~@]
    /\ typed' = [n \in DOMAIN typed |->
                   [typed[n] EXCEPT !.moved = @ \/ \E i \in DOMAIN in_q :
                        in_q[i].type = "press" /\ in_q[i].n = n]]
    /\ UNCHANGED <<kbd, in_q, inr_keys, pkt, pointer>>

inputNext ==
    \/ \E k \in InputKeys : keyboard_scancode(k)
    \/ keyboard_getchar \/ mouse_feed_byte \/ inr_poll \/ FocusChange
    \/ \E p \in MousePackets : MouseMoves(p)

\* A press whose character both tables know, taken by the router, dropped by
\* neither queue and not overtaken by a change of focus or terminal.
Settled(n) ==
    /\ ~typed[n].moved /\ ~typed[n].lost
    /\ \A i \in DOMAIN in_q : in_q[i].type = "press" => in_q[i].n # n
    /\ key_decode(typed[n].key, NoMods) # "none"

\* The rule of the single receiver: while a window is shown, a character goes
\* to the kernel's buffer or to the terminal, to one and not to both, although
\* the interrupt handler and the router decide at different times.
OneKeyReceiver ==
    \A n \in DOMAIN typed :
        Settled(n) /\ typed[n].vt = "gui" => Cardinality(typed[n].to) = 1

\* The two copies of the modifier keys agree once the router has caught up, as
\* long as the hub had room for every event.
ModifiersAgree ==
    ~kbd_wire.drop /\ in_q = <<>> =>
        /\ inr_keys = kbd.mod
        /\ \A m \in Modifiers \cap InputKeys : kbd.mod[m] = (m \in kbd_wire.held)

\* The pointer ends up where the mouse was moved, however the moves were put
\* together in the queue, unless the sum went past the limit or one was lost.
MovesKept ==
    ~kbd_wire.drop /\ ~kbd_wire.sat /\ in_q = <<>> /\ kbd_wire.bytes = <<>> => pointer = kbd_wire.sum

\* keyboard.c: "Konsol modunda (text VT aktif) klavye doğrudan çekirdek tamponuna
\* gider ve userland kabuğu (sh) okur".  A character typed while a text terminal
\* is shown goes to the kernel's buffer.
TextTerminalTyped ==
    \A n \in DOMAIN typed :
        Settled(n) /\ typed[n].vt = "text" => "buffer" \in typed[n].to

------------------------------
(* Setting up the mouse.  The keyboard is shut off meanwhile.  Each wait   *)
(* on the controller and each answer of the mouse may fail.                *)

VARIABLE mouse    \* [step, kbd, irq, present, tries, unmasked]
MouseSteps == <<"off", "aux", "config", "write", "on", "reset", "bat", "id",
                "defaults", "rate", "resolution", "scale", "report", "open", "done">>
MouseStep == MouseSteps[mouse.step]
Acked == {"defaults", "rate", "resolution", "scale", "report"}
mouseInit ==
    mouse = [step |-> 1, kbd |-> TRUE, irq |-> TRUE, present |-> FALSE, tries |-> 3,
             unmasked |-> FALSE, stuck |-> FALSE, over |-> FALSE]

MouseForward == [mouse EXCEPT !.step = @ + 1, !.tries = 3]
MouseDone == [mouse EXCEPT !.step = Len(MouseSteps)]
MouseEnd == [mouse EXCEPT !.kbd = @ \/ ~mouse.stuck, !.irq = TRUE, !.over = TRUE]
mouse_init ==
    /\ ~mouse.over
    /\ \/ /\ MouseStep = "off"
          /\ mouse' = [MouseForward EXCEPT !.kbd = mouse.stuck, !.irq = FALSE]
       \/ /\ MouseStep = "on"
          /\ mouse' = [MouseForward EXCEPT !.kbd = ~mouse.stuck]
       \/ /\ MouseStep \in {"aux", "config", "write", "reset", "bat", "id"}
          /\ mouse' = IF mouse.stuck THEN MouseDone ELSE MouseForward
       \/ /\ MouseStep \in Acked /\ ~mouse.stuck          \* m_cmd_ack(): 0xFE asks again
          /\ \/ mouse' = MouseForward
             \/ mouse' = IF mouse.tries > 1 THEN [mouse EXCEPT !.tries = @ - 1] ELSE MouseDone
       \/ /\ MouseStep \in {"config", "reset", "bat", "id"} \cup Acked
          /\ mouse' = MouseDone                            \* no answer, or a wrong one
       \/ /\ MouseStep = "open"
          /\ mouse' = [MouseForward EXCEPT !.present = TRUE, !.unmasked = TRUE]
       \/ /\ MouseStep = "done"
          /\ mouse' = MouseEnd
\* The controller stops taking commands.
ControllerSticks == ~mouse.over /\ ~mouse.stuck /\ mouse' = [mouse EXCEPT !.stuck = TRUE]
mouseNext == mouse_init \/ ControllerSticks

\* Wherever the set-up fails, it leaves the keyboard on (as long as the
\* controller takes commands), interrupts as they were, and the mouse's line
\* open only if there is a mouse.
KeyboardBack ==
    mouse.over => /\ mouse.irq
                  /\ mouse.kbd \/ mouse.stuck
                  /\ mouse.unmasked = mouse.present

------------------------------
(* Pseudo terminals.                                                       *)

VARIABLES
    ptys,      \* id -> [used, flags, raw, canon, ready, out]
    pty_done   \* characters typed and strings written so far
ptyVars == <<ptys, pty_done>>

NoPty == [used |-> FALSE, flags |-> {}, raw |-> <<>>, canon |-> <<>>, ready |-> FALSE,
          out |-> <<>>]
ptyInit == ptys = [i \in 1 .. PTY_MAX |-> NoPty] /\ pty_done = 0

ring_push(r, c) == IF Len(r) >= PTY_RING THEN r ELSE Append(r, c)

pty_create(f) ==
    /\ \E i \in 1 .. PTY_MAX : ~ptys[i].used
    /\ ptys' = [ptys EXCEPT ![Min({i \in 1 .. PTY_MAX : ~ptys[i].used})] =
                   [NoPty EXCEPT !.used = TRUE, !.flags = f]]
    /\ UNCHANGED pty_done
pty_destroy(i) ==
    /\ ptys[i].used
    /\ ptys' = [ptys EXCEPT ![i] = NoPty]
    /\ UNCHANGED pty_done
pty_set_flags(i, f) ==
    /\ ptys[i].used /\ ptys[i].flags # f
    /\ ptys' = [ptys EXCEPT ![i].flags = f]
    /\ UNCHANGED pty_done

\* The line discipline.
LineRoom(l) == Len(l) < PTY_LINE - 1
Edited(l, c) ==
    CASE c = "bs" -> IF l = <<>> THEN l ELSE Front(l)
      [] c = "kill" -> <<>>
      [] OTHER -> IF LineRoom(l) THEN Append(l, c) ELSE l
pty_slave_input(i, c) ==
    /\ ptys[i].used
    /\ LET p == ptys[i]
           echo == IF "echo" \in p.flags THEN ring_push(p.out, c) ELSE p.out
       IN ptys' = [ptys EXCEPT ![i] =
              IF "icanon" \in p.flags
              THEN [p EXCEPT !.canon = Edited(@, c), !.ready = @ \/ c = "nl", !.out = echo]
              ELSE [p EXCEPT !.raw = ring_push(@, c), !.out = echo]]
    /\ pty_done' = pty_done + 1

\* A line goes out whole or not at all.
pty_slave_read(i, max) ==
    /\ ptys[i].used
    /\ LET p == ptys[i] IN
       IF "icanon" \in p.flags
       THEN /\ p.ready /\ Len(p.canon) + 1 <= max
            /\ ptys' = [ptys EXCEPT ![i].canon = <<>>, ![i].ready = FALSE]
       ELSE /\ p.raw # <<>>
            /\ ptys' = [ptys EXCEPT ![i].raw = SubSeq(@, max + 1, Len(@))]
    /\ UNCHANGED pty_done
pty_master_read(i, max) ==
    /\ ptys[i].used /\ ptys[i].out # <<>>
    /\ ptys' = [ptys EXCEPT ![i].out = SubSeq(@, max + 1, Len(@))]
    /\ UNCHANGED pty_done

Newlined(flags, c) == IF c = "NL" /\ "onlcr" \in flags THEN <<"CR", "NL">> ELSE <<c>>
pty_master_write(i, s) ==
    /\ ptys[i].used /\ pty_done < MaxWritten
    /\ ptys' = [ptys EXCEPT ![i].out =
           FoldLeft(ring_push, @, FlattenSeq([k \in DOMAIN s |-> Newlined(ptys[i].flags, s[k])]))]
    /\ pty_done' = pty_done + 1

PtyFlags == {{}, {"icanon"}, {"icanon", "echo", "onlcr"}}
ptyNext ==
    \/ \E f \in PtyFlags : pty_create(f)
    \/ \E i \in 1 .. PTY_MAX :
         \/ pty_destroy(i)
         \/ \E f \in PtyFlags : pty_set_flags(i, f)
         \/ \E c \in PtyChars : pty_done < MaxWritten /\ pty_slave_input(i, c)
         \/ \E max \in {1, PTY_LINE} : pty_slave_read(i, max) \/ pty_master_read(i, max)
         \/ \E s \in PtyWrites : pty_master_write(i, s)

\* A line typed to its end can be read by a program whose buffer has the
\* length of the longest line; otherwise it would wait for it for ever.
LineReadable == \A i \in 1 .. PTY_MAX : Len(ptys[i].canon) + 1 <= PTY_LINE

------------------------------
(* Screens.                                                                *)

VARIABLES
    vt_screen,     \* [rows, cx, cy]: a text terminal; a row is the text shown
    scrollback,    \* [lines, sbot, cur] of the graphical terminal
    written        \* history: what was written to either
screenVars == <<vt_screen, scrollback, written>>

screenInit ==
    /\ vt_screen = [rows |-> [r \in 1 .. VT_ROWS |-> <<>>], cx |-> 0, cy |-> 1]
    /\ scrollback = [lines |-> [l \in 1 .. TERM_BUF_LINES |-> <<>>], sbot |-> 0, cur |-> 1]
    /\ written = <<>>

vt_scroll(s) ==
    [s EXCEPT !.rows = [r \in 1 .. VT_ROWS |-> IF r < VT_ROWS THEN s.rows[r + 1] ELSE <<>>]]
vt_newline(s) ==
    IF s.cy + 1 > VT_ROWS THEN [vt_scroll(s) EXCEPT !.cx = 0]
    ELSE [s EXCEPT !.cx = 0, !.cy = @ + 1]

\* A character on the last column leaves the cursor past it; the line is
\* broken when the next one comes.
PutCell(s, c) ==
    [s EXCEPT !.rows[s.cy] = [i \in 1 .. Max({Len(@), s.cx + 1}) |->
                                 IF i = s.cx + 1 THEN c ELSE @[i]],
              !.cx = @ + 1]
vt_putc(s, c) ==
    CASE c = "nl" -> vt_newline(s)
      [] c = "cr" -> [s EXCEPT !.cx = 0]
      [] c = "bs" -> IF s.cx = 0 THEN s
                     ELSE [s EXCEPT !.cx = @ - 1, !.rows[s.cy] = SubSeq(@, 1, s.cx - 1)]
      [] OTHER -> PutCell(IF s.cx >= VT_COLS THEN vt_newline(s) ELSE s, c)

\* term_append_char().
term_newline(t) ==
    IF t.sbot < TERM_BUF_LINES
    THEN [t EXCEPT !.sbot = @ + 1, !.cur = Min({t.sbot + 2, TERM_BUF_LINES})]
    ELSE [t EXCEPT !.lines = [l \in 1 .. TERM_BUF_LINES |->
                                 IF l < TERM_BUF_LINES THEN t.lines[l + 1] ELSE <<>>],
                   !.cur = TERM_BUF_LINES]
term_append_char(t, c) ==
    IF c = "nl" THEN term_newline(t)
    ELSE IF Len(t.lines[t.cur]) >= TERM_BUF_W - 1 THEN t
    ELSE [t EXCEPT !.lines[t.cur] = Append(@, c)]

\* sys_write() to the console while a text terminal is shown, term_emit() for
\* the window: the same characters to both.
ScreenWrite(c) ==
    /\ Len(written) < MaxWritten
    /\ vt_screen' = vt_putc(vt_screen, c)
    /\ scrollback' = term_append_char(scrollback, c)
    /\ written' = Append(written, c)

\* vt_clear().
vt_clear ==
    /\ written # <<>>
    /\ vt_screen' = [rows |-> [r \in 1 .. VT_ROWS |-> <<>>], cx |-> 0, cy |-> 1]
    /\ scrollback' = [lines |-> [l \in 1 .. TERM_BUF_LINES |-> <<>>], sbot |-> 0, cur |-> 1]
    /\ written' = <<>>

screenNext == vt_clear \/ \E c \in VtChars : ScreenWrite(c)

\* The reference: lines as written, each broken into pieces of a row's length.
Lines(w) ==
    LET ends == {i \in DOMAIN w : w[i] = "nl"}
        From(i) == IF \E e \in ends : e < i THEN Max({e \in ends : e < i}) + 1 ELSE 1
        stops == SetToSortSeq(ends \cup {Len(w) + 1}, <)
    IN [k \in DOMAIN stops |-> SubSeq(w, From(stops[k]), stops[k] - 1)]
Rows(line) ==
    IF line = <<>> THEN << <<>> >>
    ELSE [k \in 1 .. ((Len(line) + VT_COLS - 1) \div VT_COLS) |->
             SubSeq(line, (k - 1) * VT_COLS + 1, Min({k * VT_COLS, Len(line)}))]
AllRows(w) == FlattenSeq([k \in DOMAIN Lines(w) |-> Rows(Lines(w)[k])])
PlainText(w) == \A i \in DOMAIN w : w[i] \notin {"cr", "bs"}

\* A text terminal shows the last rows of what was written to it, broken at
\* its width, the newest where the cursor is.
ScreenShowsTail ==
    PlainText(written) =>
        LET all == AllRows(written)
            first == Max({0, Len(all) - VT_ROWS})
        IN /\ vt_screen.cy = Len(all) - first
           /\ \A r \in 1 .. VT_ROWS :
                 vt_screen.rows[r] = IF r <= vt_screen.cy THEN all[first + r] ELSE <<>>

\* Until the scrollback has been filled, it holds every line written in order.
ScrollbackKept ==
    PlainText(written) /\ Len(Lines(written)) <= TERM_BUF_LINES
        /\ (\A k \in DOMAIN Lines(written) : Len(Lines(written)[k]) < TERM_BUF_W)
    => \A k \in DOMAIN Lines(written) : scrollback.lines[k] = Lines(written)[k]

\* term.c: "scrollback dolu: kaydır".  Also afterwards, it ends with the lines
\* written last.
ScrollbackScrolls ==
    PlainText(written) /\ (\A k \in DOMAIN Lines(written) : Len(Lines(written)[k]) < TERM_BUF_W)
    => LET ls == Lines(written) IN Last(ls) = scrollback.lines[scrollback.cur]
==============================
