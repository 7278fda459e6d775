-------------------------------- MODULE Gui --------------------------------
(***************************************************************************)
(* The graphical desktop of the 32-bit kernel: the frame buffer with its   *)
(* back buffer (fb.c), the compositor with its damage rectangle (comp.c),  *)
(* the window manager (wm.c), the window server's commands (wserver.c),    *)
(* the pointer half of the input router (inr.c) and the switch to a text   *)
(* terminal (vt.c).                                                        *)
(*                                                                         *)
(* Rectangles are abstracted to their vertical extent: a row of the screen *)
(* is a cell, WM_TITLE_H is one row and the pointer covers one row.  The   *)
(* code treats the two axes alike, and clicks, drags, damage and overlap   *)
(* only need one of them.  A pixel is the surface it came from and what    *)
(* that surface last drew.                                                 *)
(*                                                                         *)
(* The window server, the input router and the programs of the desktop are *)
(* kernel tasks that run with interrupts on: the timer may take the        *)
(* processor from one in the middle of an operation and give it to another *)
(* (kernel.c:1132), and comp.c and wm.c have no lock.  An operation is one *)
(* step that begins from the damage rectangle the task has read, which is  *)
(* the current one unless it was preempted since.  Once an operation was   *)
(* made in the middle of another (gui_mixed) nothing is claimed: of what   *)
(* the code may do then the model shows the lost damage, not the surface   *)
(* table that two of them shift at once.                                   *)
(***************************************************************************)
EXTENDS Integers, Sequences, FiniteSets

CONSTANTS
    GuiRows,    \* rows of the screen
    COMP_MAX,   \* surfaces of the compositor
    WM_MAX,     \* windows of the window manager
    GuiIds,     \* BOUND: windows created in a behaviour (two surfaces each)
    GuiHeights  \* heights asked for a window

ASSUME GuiAssumption ==
    /\ {GuiRows, COMP_MAX} \subseteq Nat \ {0, 1}
    /\ WM_MAX \in Nat /\ GuiIds \in Nat
    /\ GuiHeights \subseteq Nat \ {0, 1}

VARIABLES
    comp,      \* the compositor and the frame buffer
    wm,        \* the window manager: list, next, focus, drag, grip
    inr,       \* the input router: row of the pointer, buttons, drag_win
    vt_cur,    \* "gui" or "text": which virtual terminal is shown
    gui_held,  \* the rectangle read by the operation that is preempted
    gui_mixed  \* history: an operation was made in the middle of another

guiVars == <<comp, wm, inr, vt_cur, gui_held, gui_mixed>>

GuiCells == 0 .. GuiRows - 1

(* An empty slot of the surface table and of the window table.             *)
NoSurface == [id |-> 0, y |-> 0, h |-> 0, visible |-> FALSE, look |-> "none"]

NoWindow == [id |-> 0, frame |-> 0, client |-> 0, y |-> 0, h |-> 0, minimized |-> FALSE]

Clean == <<0, 0>>

NotHeld == <<>>

------------------------------
(* The surface table.  l is a table of COMP_MAX slots throughout.          *)

At(l, i, id) == id # 0 /\ l[i].id = id

Surface(l, id) ==
    IF \E i \in 1 .. COMP_MAX : At(l, i, id) THEN l[CHOOSE i \in 1 .. COMP_MAX : At(l, i, id)]
    ELSE NoSurface

SurfaceSpan(s) == {c \in GuiCells : s.y <= c /\ c < s.y + s.h}

(* The first free slot, or 0.                                              *)
FreeSurface(l) ==
    LET free == {i \in 1 .. COMP_MAX : l[i].id = 0}
    IN  IF free = {} THEN 0 ELSE CHOOSE i \in free : \A j \in free : i <= j

comp_create(l, id, h) ==
    [l EXCEPT ![FreeSurface(l)] = [id |-> id, y |-> 0, h |-> h, visible |-> TRUE, look |-> "blank"]]

comp_destroy(l, id) == [i \in 1 .. COMP_MAX |-> IF At(l, i, id) THEN NoSurface ELSE l[i]]

comp_move(l, id, y) == [i \in 1 .. COMP_MAX |-> IF At(l, i, id) THEN [l[i] EXCEPT !.y = y] ELSE l[i]]

comp_fill(l, id, look) ==
    [i \in 1 .. COMP_MAX |-> IF At(l, i, id) THEN [l[i] EXCEPT !.look = look] ELSE l[i]]

comp_resize(l, id, h) ==
    [i \in 1 .. COMP_MAX |-> IF At(l, i, id) THEN [l[i] EXCEPT !.h = h] ELSE l[i]]

comp_set_visible(l, ids, v) ==
    [i \in 1 .. COMP_MAX |-> IF l[i].id \in ids THEN [l[i] EXCEPT !.visible = v] ELSE l[i]]

(* The surface leaves its slot, the others close up, it becomes the last.  *)
comp_raise(l, id) ==
    LET others   == {i \in 1 .. COMP_MAX : l[i].id \notin {0, id}}
        place(i) == Cardinality({j \in others : j <= i})
    IN  [k \in 1 .. COMP_MAX |->
            IF k = Cardinality(others) + 1 THEN Surface(l, id)
            ELSE IF \E i \in others : place(i) = k THEN l[CHOOSE i \in others : place(i) = k]
            ELSE NoSurface]

------------------------------
(* Damage and composition.  g is the compositor's record throughout.       *)

(* The damage rectangle is the smallest that holds the old one and rows.   *)
dmg_add(g, rows) ==
    LET all == rows \cup {c \in GuiCells : g.dirty[1] <= c /\ c < g.dirty[2]}
    IN  IF all = {} THEN g
        ELSE [g EXCEPT !.dirty = <<CHOOSE c \in all : \A k \in all : c <= k,
                                   1 + CHOOSE c \in all : \A k \in all : k <= c>>]

NewPlaceOnly(g, l, ids) ==
    LET rows == UNION {SurfaceSpan(Surface(l, id)) : id \in ids}
    IN  [dmg_add(g, rows) EXCEPT !.list = l]

(* Every operation on a surface damages the place it had and the place it  *)
(* has.                                                                    *)
Redrawn(g, l, ids) ==
    LET rows == UNION {SurfaceSpan(Surface(g.list, id)) \cup SurfaceSpan(Surface(l, id)) : id \in ids}
    IN  [dmg_add(g, rows) EXCEPT !.list = l]

(* The pointer: its old row and its new row are damaged.                   *)
comp_cursor_hide(g) ==
    [dmg_add(g, {c \in GuiCells : g.cursor.on /\ c = g.cursor.y}) EXCEPT !.cursor.on = FALSE]

comp_cursor_move(g, y) ==
    [dmg_add(g, {y} \cup {c \in GuiCells : g.cursor.on /\ c = g.cursor.y}) EXCEPT
        !.cursor = [on |-> TRUE, y |-> y]]

(* What row c shows when the scene is drawn from the background up.        *)
TopSurface(g, c) ==
    LET l     == g.list
        cover == {i \in 1 .. COMP_MAX : l[i].visible /\ l[i].y <= c /\ c < l[i].y + l[i].h}
    IN  IF cover = {} THEN NoSurface ELSE l[CHOOSE i \in cover : \A j \in cover : j <= i]

Painted(g, c) ==
    LET s == TopSurface(g, c)
    IN  IF s.id = 0 THEN <<0, "desktop">> ELSE <<s.id, s.look>>

SceneRow(g, c) == IF g.cursor.on /\ g.cursor.y = c THEN <<-1, "pointer">> ELSE Painted(g, c)

fb_flip(g, rows) == [g EXCEPT !.front = [c \in GuiCells |-> IF c \in rows THEN g.back[c] ELSE g.front[c]]]

(* Repaint the damaged rows of the back buffer, draw the pointer, carry    *)
(* the damaged rows and the pointer's row to the screen.                   *)
comp_composite(g) ==
    LET rows  == {c \in GuiCells : g.dirty[1] <= c /\ c < g.dirty[2]}
        point == IF g.cursor.on THEN {g.cursor.y} \cap GuiCells ELSE {}
        drawn == [g EXCEPT !.dirty = Clean,
                           !.back = [c \in GuiCells |->
                                        IF c \in point THEN <<-1, "pointer">>
                                        ELSE IF c \in rows THEN Painted(g, c) ELSE g.back[c]]]
    IN  IF g.dirty = Clean \/ ~g.layer THEN g
        ELSE fb_flip(drawn, rows \cup point)

comp_full_repaint(g) == comp_composite(dmg_add(g, GuiCells))

------------------------------
(* The window manager.  st is [g, w]: the compositor and the manager.      *)

wm_get(w, id) == {i \in 1 .. WM_MAX : id # 0 /\ w.list[i].id = id}

Window(w, id) == w.list[CHOOSE i \in wm_get(w, id) : TRUE]

SetWindow(w, id, win) ==
    [w EXCEPT !.list = [i \in 1 .. WM_MAX |-> IF i \in wm_get(w, id) THEN win ELSE w.list[i]]]

TitleLook(lit) == IF lit THEN "lit" ELSE "unlit"

wm_draw_frame(l, win, focused) == comp_fill(l, win.frame, TitleLook(focused))

(* One slot, a frame and a client surface; a failed client gives the frame *)
(* back, the damage it made stays.  The numbers comp_create hands out are  *)
(* only ever compared: the k-th window's surfaces are 2k + 1 and 2k + 2.   *)
wm_create(st, h, ok1, ok2) ==
    LET slots == {i \in 1 .. WM_MAX : st.w.list[i].id = 0}
        slot  == CHOOSE i \in slots : \A j \in slots : i <= j
        f     == 2 * st.w.next + 1
        one   == comp_create(st.g.list, f, h)
        two   == comp_move(comp_create(one, f + 1, h - 1), f + 1, 1)
        win   == [id |-> st.w.next, frame |-> f, client |-> f + 1,
                  y |-> 0, h |-> h, minimized |-> FALSE]
    IN  IF slots = {} \/ FreeSurface(st.g.list) = 0 \/ ~ok1 THEN st
        ELSE IF FreeSurface(one) = 0 \/ ~ok2
        THEN [st EXCEPT !.g = dmg_add(st.g, GuiCells \cap (0 .. h - 1))]
        ELSE [g |-> Redrawn(st.g, wm_draw_frame(comp_fill(two, f + 1, "client"), win, FALSE),
                            {f, f + 1}),
              w |-> [st.w EXCEPT !.list[slot] = win, !.next = st.w.next + 1]]

wm_destroy(st, id) ==
    LET win == Window(st.w, id)
    IN  IF wm_get(st.w, id) = {} THEN st
        ELSE [g |-> Redrawn(st.g, comp_destroy(comp_destroy(st.g.list, win.frame), win.client),
                            {win.frame, win.client}),
              w |-> [SetWindow(st.w, id, NoWindow) EXCEPT
                        !.focus = IF st.w.focus = id THEN 0 ELSE st.w.focus,
                        !.drag  = IF st.w.drag = id THEN 0 ELSE st.w.drag]]

FocusOf(st, id, l, old) ==
    LET win == Window(st.w, id)
    IN  IF \/ wm_get(st.w, id) = {} \/ win.minimized \/ st.w.focus = id THEN st
        ELSE [g |-> Redrawn(st.g, wm_draw_frame(l, win, TRUE), {old, win.frame, win.client}),
              w |-> [st.w EXCEPT !.focus = id]]

OldFrame(w) == IF wm_get(w, w.focus) = {} THEN 0 ELSE Window(w, w.focus).frame

(* The old title goes out, the frame and then the client are raised, the   *)
(* new title is lit.                                                       *)
wm_focus(st, id) ==
    LET win == Window(st.w, id)
        dim == comp_fill(st.g.list, OldFrame(st.w), "unlit")
    IN  FocusOf(st, id, comp_raise(comp_raise(dim, win.frame), win.client), OldFrame(st.w))

wm_move(st, id, y) ==
    LET win == Window(st.w, id)
    IN  IF wm_get(st.w, id) = {} THEN st
        ELSE [g |-> Redrawn(st.g, comp_move(comp_move(st.g.list, win.frame, y), win.client, y + 1),
                            {win.frame, win.client}),
              w |-> SetWindow(st.w, id, [win EXCEPT !.y = y])]

(* The frame is resized, then the client: when the client's memory is      *)
(* refused the window keeps its old size and the frame the new one.        *)
wm_resize(st, id, h, ok1, ok2) ==
    LET win == Window(st.w, id)
        one == comp_resize(st.g.list, win.frame, h)
        two == comp_move(comp_resize(one, win.client, h - 1), win.client, win.y + 1)
    IN  IF wm_get(st.w, id) = {} \/ ~ok1 THEN st
        ELSE IF ~ok2 THEN [st EXCEPT !.g = Redrawn(st.g, one, {win.frame})]
        ELSE [g |-> Redrawn(st.g, wm_draw_frame(two, win, id = st.w.focus), {win.frame, win.client}),
              w |-> SetWindow(st.w, id, [win EXCEPT !.h = h])]

Hidden(st, id, focus) ==
    LET win == Window(st.w, id)
    IN  IF wm_get(st.w, id) = {} \/ win.minimized THEN st
        ELSE [g |-> Redrawn(st.g, comp_set_visible(st.g.list, {win.frame, win.client}, FALSE),
                            {win.frame, win.client}),
              w |-> [SetWindow(st.w, id, [win EXCEPT !.minimized = TRUE]) EXCEPT !.focus = focus]]

wm_minimize(st, id) == Hidden(st, id, IF st.w.focus = id THEN 0 ELSE st.w.focus)

wm_restore(st, id) ==
    LET win == Window(st.w, id)
    IN  IF wm_get(st.w, id) = {} \/ ~win.minimized THEN st
        ELSE wm_focus([g |-> Redrawn(st.g, comp_set_visible(st.g.list, {win.frame, win.client}, TRUE),
                                     {win.frame, win.client}),
                       w |-> SetWindow(st.w, id, [win EXCEPT !.minimized = FALSE])], id)

(* The window of the top surface whose window's rectangle holds the row.   *)
wm_hit_test(g, w, c) ==
    LET l     == g.list
        here  == {i \in 1 .. WM_MAX : /\ w.list[i].id # 0 /\ ~w.list[i].minimized
                                      /\ w.list[i].y <= c /\ c < w.list[i].y + w.list[i].h}
        owned(k, i) == l[k].id \in {w.list[i].frame, w.list[i].client}
        under == {k \in 1 .. COMP_MAX : \E i \in here : owned(k, i)}
    IN  IF under = {} THEN 0
        ELSE w.list[CHOOSE i \in here : owned(CHOOSE k \in under : \A j \in under : j <= k, i)].id

wm_drag_start(st, id, c) ==
    IF wm_get(st.w, id) = {} \/ Window(st.w, id).minimized THEN [st EXCEPT !.w.drag = 0]
    ELSE wm_focus([st EXCEPT !.w.drag = id, !.w.grip = c - Window(st.w, id).y], id)

wm_drag_to(st, c) ==
    IF st.w.drag = 0 THEN st
    ELSE wm_move(st, st.w.drag, c - st.w.grip)

------------------------------
(* The operations of the tasks; g is the compositor as the task sees it.   *)
DesktopBecomes(st) == \E s \in {st} : comp' = s.g /\ wm' = s.w

Seen(g) == [g |-> g, w |-> wm]

(* comp_composite by whichever task comes to it.                           *)
Composited(g) ==
    /\ g.dirty # Clean /\ g.layer
    /\ comp' = comp_composite(g)
    /\ UNCHANGED <<wm, inr, vt_cur>>

(* A command for a window that does not exist changes nothing.             *)
ClientIds == {wm.list[i].id : i \in 1 .. WM_MAX} \ {0}

(* wserver_task: one command of a client; comp_composite follows.          *)
WCmdCreate(g) ==
    /\ wm.next <= GuiIds
    /\ \E ok1, ok2 \in BOOLEAN : DesktopBecomes(wm_create(Seen(g), 2, ok1, ok2))
    /\ UNCHANGED <<inr, vt_cur>>

WCmdMove(g, id, y) == DesktopBecomes(wm_move(Seen(g), id, y)) /\ UNCHANGED <<inr, vt_cur>>

WCmdFocus(g, id) == DesktopBecomes(wm_focus(Seen(g), id)) /\ UNCHANGED <<inr, vt_cur>>

(* BOUND: a window takes another size only when it is the last one left.   *)
WCmdResize(g, id, h) ==
    /\ h = Window(wm, id).h \/ (wm.next > GuiIds /\ Cardinality(ClientIds) = 1)
    /\ \E ok1, ok2 \in BOOLEAN : DesktopBecomes(wm_resize(Seen(g), id, h, ok1, ok2))
    /\ UNCHANGED <<inr, vt_cur>>

WCmdMinimize(g, id) == DesktopBecomes(wm_minimize(Seen(g), id)) /\ UNCHANGED <<inr, vt_cur>>

WCmdRestore(g, id) == DesktopBecomes(wm_restore(Seen(g), id)) /\ UNCHANGED <<inr, vt_cur>>

WCmdDestroy(g, id) == DesktopBecomes(wm_destroy(Seen(g), id)) /\ UNCHANGED <<inr, vt_cur>>

(* inr_mouse_move_nb: the pointer moves, a dragged window follows it.      *)
PointerTo(st, c) ==
    LET moved == [st EXCEPT !.g = comp_cursor_move(st.g, c)]
    IN  IF inr.drag # 0 /\ vt_cur = "gui" THEN wm_drag_to(moved, c) ELSE moved

(* inr_mouse_button_nb: a press focuses the window under the pointer and   *)
(* takes hold of its title, a release ends the drag; a text terminal only  *)
(* records the buttons.                                                    *)
Clicked(st, c, b) ==
    LET hit  == wm_hit_test(st.g, st.w, c)
        win  == Window(st.w, hit)
        lit  == wm_focus(st, hit)
        here == [row |-> c, btn |-> b, drag |-> inr.drag]
    IN  IF vt_cur # "gui" THEN [st |-> st, inr |-> here]
        ELSE IF b = 1 /\ inr.btn = 0 /\ hit # 0
             THEN IF c - win.y < 1
                  THEN [st |-> wm_drag_start(lit, hit, c), inr |-> [here EXCEPT !.drag = hit]]
                  ELSE [st |-> lit, inr |-> here]
        ELSE IF b = 0 /\ inr.btn = 1 /\ inr.drag # 0
             THEN [st |-> [wm_drag_to(st, c) EXCEPT !.w.drag = 0, !.w.grip = 0],
                   inr |-> [here EXCEPT !.drag = 0]]
        ELSE [st |-> st, inr |-> here]

(* inr_poll on one event of the hub; comp_composite follows the last one.  *)
MouseEvent(g, c, b) ==
    /\ c # inr.row \/ b # inr.btn
    /\ \E moved \in {IF c = inr.row THEN Seen(g) ELSE PointerTo(Seen(g), c)} :
           \E done \in {Clicked(moved, c, b)} : DesktopBecomes(done.st) /\ inr' = done.inr
    /\ UNCHANGED <<vt_cur>>

(* vt_switch and vt_render: a text terminal covers the screen and stops    *)
(* the compositor, the way back repaints everything.                       *)
TextRow == <<-2, "text">>

VtText(g) ==
    /\ vt_cur = "gui" /\ vt_cur' = "text"
    /\ comp' = [comp_cursor_hide(g) EXCEPT !.layer = FALSE,
                                          !.back = [c \in GuiCells |-> TextRow],
                                          !.front = [c \in GuiCells |-> TextRow]]
    /\ UNCHANGED <<wm, inr>>

VtGui(g) ==
    /\ vt_cur = "text" /\ vt_cur' = "gui"
    /\ comp' = comp_full_repaint(
                   comp_cursor_move([g EXCEPT !.layer = TRUE, !.cursor = [on |-> TRUE, y |-> 0]], inr.row))
    /\ UNCHANGED <<wm, inr>>

(* After boot: panel and icons drawn, no window, the pointer shown.        *)
BootSurface(i) ==
    CASE i = 1 -> [id |-> 1, y |-> GuiRows - 1, h |-> 1, visible |-> TRUE, look |-> "drawn"]
      [] i = 2 -> [id |-> 2, y |-> 0, h |-> 1, visible |-> TRUE, look |-> "drawn"]
      [] OTHER -> NoSurface

guiInit ==
    /\ comp = LET g == [list |-> [i \in 1 .. COMP_MAX |-> BootSurface(i)],
                        dirty |-> Clean, cursor |-> [on |-> TRUE, y |-> 1], layer |-> TRUE,
                        back |-> [c \in GuiCells |-> TextRow],
                        front |-> [c \in GuiCells |-> TextRow]]
              IN  comp_full_repaint(g)
    /\ wm = [list |-> [i \in 1 .. WM_MAX |-> NoWindow], next |-> 1, focus |-> 0, drag |-> 0, grip |-> 0]
    /\ inr = [row |-> 1, btn |-> 0, drag |-> 0]
    /\ vt_cur = "gui"
    /\ gui_held = NotHeld /\ gui_mixed = FALSE

GuiOperation(g) ==
    \/ Composited(g)
    \/ WCmdCreate(g)
    \/ \E id \in ClientIds, y \in {0, GuiRows - 1} : WCmdMove(g, id, y)
    \/ \E id \in ClientIds : WCmdFocus(g, id)
    \/ \E id \in ClientIds, h \in GuiHeights : WCmdResize(g, id, h)
    \/ \E id \in ClientIds : WCmdMinimize(g, id)
    \/ \E id \in ClientIds : WCmdRestore(g, id)
    \/ \E id \in ClientIds : WCmdDestroy(g, id)
    \/ \E c \in GuiCells, b \in {0, 1} : MouseEvent(g, c, b)
    \/ VtText(g)
    \/ VtGui(g)

(* The timer takes the processor from a task in the middle of an operation,*)
(* after it read the rectangle.                                            *)
(* BOUND: while the button is down.                                        *)
Preempted ==
    /\ gui_held = NotHeld /\ ~gui_mixed /\ inr.btn = 1
    /\ gui_held' = comp.dirty
    /\ UNCHANGED <<comp, wm, inr, vt_cur, gui_mixed>>

(* An operation that nothing comes between.                                *)
Made ==
    /\ gui_held = NotHeld /\ ~gui_mixed
    /\ GuiOperation(comp)
    /\ UNCHANGED <<gui_held, gui_mixed>>

(* Another task makes one while the first is preempted.                    *)
(* BOUND: a movement of the mouse, and once.                               *)
MadeBetween ==
    /\ gui_held # NotHeld /\ ~gui_mixed
    /\ \E c \in GuiCells : MouseEvent(comp, c, inr.btn)
    /\ gui_mixed' = TRUE
    /\ UNCHANGED gui_held

(* The preempted task ends what it was at: it writes the rectangle.        *)
(* BOUND: comp_composite or the move of a window, and nothing follows.     *)
Resumed ==
    /\ gui_mixed /\ gui_held # NotHeld
    /\ LET g == [comp EXCEPT !.dirty = gui_held]
       IN  Composited(g) \/ \E id \in ClientIds, y \in {0, GuiRows - 1} : WCmdMove(g, id, y)
    /\ comp'.dirty # gui_held
    /\ gui_held' = NotHeld
    /\ UNCHANGED gui_mixed

guiNext == Preempted \/ Made \/ MadeBetween \/ Resumed

guiSpec == guiInit /\ [][guiNext]_guiVars

------------------------------
SurfaceUsed == {i \in 1 .. WM_MAX : wm.list[i].id # 0}

(* Damage tracking loses nothing: while the desktop is shown, every row    *)
(* outside the damage rectangle shows what drawing the whole scene again   *)
(* would show, whatever was moved, raised, hidden, resized or destroyed,   *)
(* and whatever happened while a text terminal covered the screen          *)
(* (dmg_add, comp_composite).  It does not hold once gui_mixed: damage     *)
(* added between the two lines of comp_composite that read the rectangle   *)
(* and clear it is lost (comp.c:383-384).                                  *)
ScreenFresh ==
    comp.layer => \A c \in GuiCells :
        comp.front[c] # SceneRow(comp, c) => comp.dirty[1] <= c /\ c < comp.dirty[2]

(* A click reaches the window it was aimed at: where the top surface of a  *)
(* row belongs to a window whose rectangle holds the row, wm_hit_test      *)
(* answers that window (frame and client stay together in the stack).      *)
HitIsSeen ==
    \A c \in GuiCells, i \in SurfaceUsed :
        (/\ TopSurface(comp, c).id \in {wm.list[i].frame, wm.list[i].client}
         /\ wm.list[i].y <= c /\ c < wm.list[i].y + wm.list[i].h)
            => wm_hit_test(comp, wm, c) = wm.list[i].id

(* The client surface of a window is always above its frame, or the frame  *)
(* would hide what the program draws (comp_raise called twice by           *)
(* wm_focus).                                                              *)
ClientAboveFrame ==
    \A i \in SurfaceUsed : \E j, k \in 1 .. COMP_MAX :
        /\ j < k
        /\ comp.list[j].id = wm.list[i].frame /\ comp.list[k].id = wm.list[i].client

(* The title bars tell the truth: of the windows on screen exactly the     *)
(* focused one has its title lit, and the focused window is on screen.     *)
OneLitTitle ==
    /\ wm.focus # 0 => \E i \in SurfaceUsed : wm.list[i].id = wm.focus /\ ~wm.list[i].minimized
    /\ \A i \in SurfaceUsed : ~wm.list[i].minimized =>
           (Surface(comp.list, wm.list[i].frame).look = "lit" <=> wm.list[i].id = wm.focus)

(* No surface is lost or shared: beside the panel and the icons there are  *)
(* exactly two surfaces for each window, whichever allocation failed.      *)
SurfacesOwned ==
    Cardinality({i \in 1 .. COMP_MAX : comp.list[i].id # 0}) = 2 + 2 * Cardinality(SurfaceUsed)

(* Once the button is released the pointer moves no window ("Bırakma       *)
(* sonrası hareket pencereyi oynatmamalı", inr_selftest).                  *)
ReleasedStaysPut ==
    [][(inr.btn = 0 /\ inr'.btn = 0 /\ inr'.row # inr.row) => wm'.list = wm.list]_guiVars
==============================
