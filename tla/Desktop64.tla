------------------------------ MODULE Desktop64 -----------------------------
(***************************************************************************)
(* The desktop of the 64-bit port: window manager (wmde64.c), task bar     *)
(* (taskbar64.c), themes (theme64.c), launcher (launcher64.c), panels      *)
(* (panel64.c) and context menus (ctxmenu64.c) under kernel/arch/x86_64.   *)
(* They share no state.  Titles, labels and icons are left out; a window's *)
(* geometry is its width, as x, y and height go the same way.              *)
(***************************************************************************)
EXTENDS Tables64

CONSTANTS
    WmSlots,         \* WMDE64_MAX entries
    WmWidths,        \* widths a program asks for
    WmLimits,        \* width limits <<min, max>> a program sets, 0 for none
    WmIds,           \* bound on the windows ever opened
    WmDepth,         \* bound on the z values
    WmLow,           \* and on how far below 0 they go
    WmShaped,        \* the windows whose programs change their geometry
    Workspaces,
    BarSlots, BarWins, BarPlaces,   \* bound on the places of buttons
    ThemeSlots, Themes,
    LaunchSlots, LaunchNames, LaunchRuns,
    PanelPlugins, PanelNames,
    MenuItems

ASSUME DesktopAssumption ==
    /\ WmIds \in Nat /\ WmDepth \in Nat /\ WmLow \in Nat /\ LaunchRuns \in Nat
    /\ \A l \in WmLimits : l[1] \in Nat /\ l[2] \in Nat

------------------------------
(* Window manager.                                                         *)

VARIABLES wmde64_tab, wmde64_next_id, wmde64_focus_id, wmde64_ws, wmde64_z_top
wmdeVars == <<wmde64_tab, wmde64_next_id, wmde64_focus_id, wmde64_ws, wmde64_z_top>>

Screen == 9
NoWin == [used |-> FALSE, id |-> 0, w |-> 0, minimized |-> FALSE, maximized |-> FALSE,
          fullscreen |-> FALSE, sticky |-> FALSE, ws |-> 0, z |-> 0, lim |-> <<0, 0>>,
          saved |-> 0,
          own |-> 0,         \* history: the width the program gave it
          covered |-> FALSE] \* history: it was maximized while in full screen

wmdeInit ==
    /\ wmde64_tab = [i \in WmSlots |-> NoWin]
    /\ wmde64_next_id = 1 /\ wmde64_focus_id = -1 /\ wmde64_ws = 0 /\ wmde64_z_top = 0

wmde_find(id) == FirstOf({i \in Taken(wmde64_tab) : wmde64_tab[i].id = id})
Win(id) == wmde64_tab[wmde_find(id)]
Put(id, w) == wmde64_tab' = [wmde64_tab EXCEPT ![wmde_find(id)] = w]
Windows == {wmde64_tab[i].id : i \in Taken(wmde64_tab)}

wmde64_open(w) ==
    LET i == FirstFree(wmde64_tab)
    IN /\ i # 0 /\ wmde64_next_id <= WmIds /\ wmde64_z_top < WmDepth
       /\ wmde64_tab' = [wmde64_tab EXCEPT ![i] =
             [NoWin EXCEPT !.used = TRUE, !.id = wmde64_next_id, !.w = w, !.own = w,
                           !.ws = wmde64_ws, !.z = wmde64_z_top]]
       /\ wmde64_next_id' = wmde64_next_id + 1
       /\ wmde64_focus_id' = wmde64_next_id
       /\ wmde64_z_top' = wmde64_z_top + 1
       /\ UNCHANGED wmde64_ws

\* The focus of a closed window goes to the last entry of the workspace that
\* is not minimized, whatever its place in the stack.
wmde64_close(id) ==
    LET rest == {i \in Taken(wmde64_tab) \ {wmde_find(id)} :
                    wmde64_tab[i].ws = wmde64_ws /\ ~wmde64_tab[i].minimized}
    IN /\ wmde_find(id) # 0
       /\ Put(id, NoWin)
       /\ wmde64_focus_id' = IF wmde64_focus_id # id THEN wmde64_focus_id
                             ELSE IF rest = {} THEN -1 ELSE wmde64_tab[Max(rest)].id
       /\ UNCHANGED <<wmde64_next_id, wmde64_ws, wmde64_z_top>>

wmde64_focus(id) ==
    /\ wmde_find(id) # 0 /\ wmde64_z_top < WmDepth
    /\ Put(id, [Win(id) EXCEPT !.minimized = FALSE, !.z = wmde64_z_top])
    /\ wmde64_z_top' = wmde64_z_top + 1
    /\ wmde64_focus_id' = id
    /\ UNCHANGED <<wmde64_next_id, wmde64_ws>>

wmde64_minimize(id, on) ==
    /\ wmde_find(id) # 0
    /\ Put(id, [Win(id) EXCEPT !.minimized = on])
    /\ wmde64_focus_id' = IF on /\ wmde64_focus_id = id THEN -1 ELSE wmde64_focus_id
    /\ UNCHANGED <<wmde64_next_id, wmde64_ws, wmde64_z_top>>

\* The geometry before is kept in one place, which full screen uses too.
Maximized(w, on) ==
    CASE on /\ ~w.maximized -> [w EXCEPT !.saved = w.w, !.w = Screen, !.maximized = TRUE,
                                         !.covered = w.covered \/ w.fullscreen]
      [] ~on /\ w.maximized -> [w EXCEPT !.w = w.saved, !.maximized = FALSE]
      [] OTHER -> w
\* As Fullscreened, a bug: the screen's size is saved over the window's.
FullscreenedAlwaysSaving(w, on) ==
    CASE on /\ ~w.fullscreen -> [w EXCEPT !.saved = w.w, !.w = Screen, !.fullscreen = TRUE]
      [] ~on /\ w.fullscreen -> [w EXCEPT !.w = w.saved, !.fullscreen = FALSE]
      [] OTHER -> w
Fullscreened(w, on) ==
    CASE on /\ ~w.fullscreen -> [w EXCEPT !.saved = IF w.maximized THEN @ ELSE w.w,
                                          !.w = Screen, !.fullscreen = TRUE]
      [] ~on /\ w.fullscreen -> [w EXCEPT !.w = w.saved, !.fullscreen = FALSE]
      [] OTHER -> w

Clamped(w, lim) ==
    LET up == IF lim[1] > 0 /\ w < lim[1] THEN lim[1] ELSE w
    IN IF lim[2] > 0 /\ up > lim[2] THEN lim[2] ELSE up
Plain(w) == ~w.maximized /\ ~w.fullscreen
Sized(w, n) == [w EXCEPT !.w = n, !.own = IF Plain(w) THEN n ELSE @]

\* wmde64_maximize(), wmde64_fullscreen(), wmde64_resize(), wmde64_constrain(),
\* wmde64_sticky(): a window changes where it stands.
wmde64_maximize(id, on) == Put(id, Maximized(Win(id), on))
wmde64_fullscreen(id, on) == Put(id, Fullscreened(Win(id), on))
wmde64_resize(id, n) == Plain(Win(id)) /\ Put(id, Sized(Win(id), Clamped(n, Win(id).lim)))
wmde64_constrain(id, lim) ==
    /\ ~(lim[1] # 0 /\ lim[2] # 0 /\ lim[1] > lim[2])
    /\ Put(id, [Sized(Win(id), Clamped(Win(id).w, lim)) EXCEPT !.lim = lim])
wmde64_sticky(id, on) == Put(id, [Win(id) EXCEPT !.sticky = on])

wmde64_workspace(ws) ==
    /\ wmde64_ws' = ws /\ wmde64_focus_id' = -1
    /\ UNCHANGED <<wmde64_tab, wmde64_next_id, wmde64_z_top>>

wmde64_raise(id) ==
    /\ wmde_find(id) # 0 /\ wmde64_z_top < WmDepth
    /\ Put(id, [Win(id) EXCEPT !.z = wmde64_z_top])
    /\ wmde64_z_top' = wmde64_z_top + 1
    /\ UNCHANGED <<wmde64_next_id, wmde64_focus_id, wmde64_ws>>

LowestZ(w) ==
    Min({w.z} \cup {wmde64_tab[i].z : i \in
            {j \in Taken(wmde64_tab) : wmde64_tab[j].ws = w.ws \/ wmde64_tab[j].sticky}}) - 1
wmde64_lower(id) ==
    /\ wmde_find(id) # 0 /\ LowestZ(Win(id)) >= 0 - WmLow
    /\ Put(id, [Win(id) EXCEPT !.z = LowestZ(Win(id))])
    /\ UNCHANGED <<wmde64_next_id, wmde64_focus_id, wmde64_ws, wmde64_z_top>>

\* wmde64_stack(): what is shown in a workspace, from the bottom up.
wmde64_stack(ws) ==
    LET shown == {i \in Taken(wmde64_tab) :
                    ~wmde64_tab[i].minimized /\ (wmde64_tab[i].ws = ws \/ wmde64_tab[i].sticky)}
    IN [k \in 1 .. Cardinality(shown) |->
          wmde64_tab[ExchangeSort(InTableOrder(shown),
                        LAMBDA a, b : wmde64_tab[a].z < wmde64_tab[b].z)[k]].id]

wmdeNext ==
    \/ \E w \in WmWidths : wmde64_open(w)
    \/ \E ws \in Workspaces : wmde64_workspace(ws)
    \/ \E id \in Windows :
          \/ wmde64_close(id)
          \/ wmde64_focus(id)
          \/ wmde64_raise(id)
          \/ wmde64_lower(id)
          \/ \E on \in BOOLEAN : wmde64_minimize(id, on)
          \/ /\ IF id \in WmShaped
                THEN \/ \E on \in BOOLEAN : wmde64_maximize(id, on) \/ wmde64_fullscreen(id, on)
                     \/ \E n \in WmWidths : wmde64_resize(id, n)
                     \/ \E l \in WmLimits : wmde64_constrain(id, l)
                ELSE \E on \in BOOLEAN : wmde64_sticky(id, on)
             /\ UNCHANGED <<wmde64_next_id, wmde64_focus_id, wmde64_ws, wmde64_z_top>>

\* The focus is on a window that exists and is not minimized, or on none,
\* through closing, minimizing and changes of workspace (wmde64.c).
FocusVisible ==
    wmde64_focus_id # -1 =>
        wmde_find(wmde64_focus_id) # 0 /\ ~Win(wmde64_focus_id).minimized

\* In whatever order maximizing and full screen are taken and left, a window
\* that has left both has the width the program gave it, unless it was
\* maximized while in full screen, which saves the screen's (wmde64_maximize).
GeometryRestored ==
    \A i \in Taken(wmde64_tab) :
        LET w == wmde64_tab[i] IN (Plain(w) /\ ~w.covered) => w.w = w.own

\* Two windows of a workspace that are not sticky never share a place in the
\* stack, and one just focused, raised or opened would be its top
\* (wmde64_lower, wmde64_raise, wmde64_stack).
StackOrdered ==
    /\ \A i, j \in Taken(wmde64_tab) :
          (/\ i # j /\ wmde64_tab[i].ws = wmde64_tab[j].ws
           /\ ~wmde64_tab[i].sticky /\ ~wmde64_tab[j].sticky)
              => wmde64_tab[i].z # wmde64_tab[j].z
    /\ \A ws \in Workspaces : \A a, b \in 1 .. Len(wmde64_stack(ws)) :
          a < b => Win(wmde64_stack(ws)[a]).z <= Win(wmde64_stack(ws)[b]).z
    /\ \A i \in Taken(wmde64_tab) : wmde64_tab[i].z < wmde64_z_top

------------------------------
(* Task bar.                                                               *)

VARIABLE taskbar64_tab
NoTask == [used |-> FALSE, win |-> 0, minimized |-> FALSE, urgent |-> FALSE, pinned |-> FALSE, pos |-> 0]

taskbarInit == taskbar64_tab = [i \in BarSlots |-> NoTask]

Button(win) == FirstOf({i \in Taken(taskbar64_tab) : taskbar64_tab[i].win = win})
BarOrder == ExchangeSort(InTableOrder(Taken(taskbar64_tab)),
                         LAMBDA a, b : taskbar64_tab[a].pos < taskbar64_tab[b].pos)
taskbar64_list == [k \in 1 .. Len(BarOrder) |-> taskbar64_tab[BarOrder[k]].win]

\* A new button goes after the last one; a known window only gets its title.
taskbar64_add(win) ==
    /\ Button(win) = 0 /\ FirstFree(taskbar64_tab) # 0
    /\ \A i \in Taken(taskbar64_tab) : taskbar64_tab[i].pos < BarPlaces
    /\ taskbar64_tab' = [taskbar64_tab EXCEPT ![FirstFree(taskbar64_tab)] =
          [NoTask EXCEPT !.used = TRUE, !.win = win,
              !.pos = Max({0} \cup {taskbar64_tab[i].pos + 1 : i \in Taken(taskbar64_tab)})]]
taskbar64_remove(win) == taskbar64_tab' = [taskbar64_tab EXCEPT ![Button(win)] = NoTask]
taskbar64_urgent(win, on) == taskbar64_tab' = [taskbar64_tab EXCEPT ![Button(win)].urgent = on]
taskbar64_pin(win, on) == taskbar64_tab' = [taskbar64_tab EXCEPT ![Button(win)].pinned = on]
taskbar64_click(win) ==
    taskbar64_tab' = [taskbar64_tab EXCEPT ![Button(win)].urgent = FALSE,
                                           ![Button(win)].minimized = ~@]

\* The order with entry i taken out and put back at place pos.
Moved(order, i, pos) ==
    LET rest == SelectSeq(order, LAMBDA k : k # i)
    IN InsertAt(rest, Min({pos, Len(rest)}) + 1, i)
\* taskbar64_move(): all places are numbered anew.
taskbar64_move(win, pos) ==
    LET order == Moved(BarOrder, Button(win), pos)
    IN taskbar64_tab' = [i \in BarSlots |->
          IF \E k \in DOMAIN order : order[k] = i
          THEN [taskbar64_tab[i] EXCEPT !.pos = (CHOOSE k \in DOMAIN order : order[k] = i) - 1]
          ELSE taskbar64_tab[i]]

taskbarNext ==
    \/ \E w \in BarWins : taskbar64_add(w)
    \/ \E w \in {x \in BarWins : Button(x) # 0} :
          \/ taskbar64_remove(w) \/ taskbar64_click(w)
          \/ \E on \in BOOLEAN : taskbar64_urgent(w, on) \/ taskbar64_pin(w, on)
          \/ \E p \in 0 .. Cardinality(BarSlots) : taskbar64_move(w, p)

\* Every window has one button and no two buttons one place, so the list the
\* bar shows does not depend on the table (taskbar64_add, taskbar64_move).
ButtonsOrdered ==
    \A i, j \in Taken(taskbar64_tab) : i # j =>
        /\ taskbar64_tab[i].win # taskbar64_tab[j].win
        /\ taskbar64_tab[i].pos # taskbar64_tab[j].pos
        /\ Len(taskbar64_list) = Cardinality(Taken(taskbar64_tab))

------------------------------
(* Themes.                                                                 *)

VARIABLES theme64_tab,
    theme64_looped     \* history: a theme was copied over one its parents lead to
themeVars == <<theme64_tab, theme64_looped>>
NoTheme == [used |-> FALSE, name |-> "", parent |-> "", prop |-> 0]

themeInit == theme64_tab = [i \in ThemeSlots |-> NoTheme] /\ theme64_looped = FALSE

theme64_find(n) == FirstOf({i \in Taken(theme64_tab) : theme64_tab[i].name = n})
Parent(n) == IF theme64_find(n) = 0 THEN "" ELSE theme64_tab[theme64_find(n)].parent
\* The names met from n upwards, at most as many as the table has entries.
Lineage(n) ==
    LET up[k \in 0 .. Cardinality(ThemeSlots)] == IF k = 0 THEN n ELSE Parent(up[k - 1])
    IN up
Above(n) == {Lineage(n)[k] : k \in 0 .. Cardinality(ThemeSlots) - 1} \ {""}

theme64_add(n) ==
    /\ theme64_find(n) = 0 /\ FirstFree(theme64_tab) # 0
    /\ theme64_tab' = [theme64_tab EXCEPT ![FirstFree(theme64_tab)] =
          [NoTheme EXCEPT !.used = TRUE, !.name = n]]
    /\ UNCHANGED theme64_looped
theme64_set_prop(n, v) ==
    /\ theme64_tab' = [theme64_tab EXCEPT ![theme64_find(n)].prop = v]
    /\ UNCHANGED theme64_looped
theme64_inherit(child, parent) ==
    /\ theme64_find(parent) # 0 /\ child \notin Above(parent)
    /\ theme64_tab' = [theme64_tab EXCEPT ![theme64_find(child)].parent = parent]
    /\ UNCHANGED theme64_looped
\* theme64_copy(): onto any theme, its parent included.
theme64_copy(src, dst) ==
    LET i == IF theme64_find(dst) # 0 THEN theme64_find(dst) ELSE FirstFree(theme64_tab)
    IN /\ i # 0
       /\ theme64_tab' = [theme64_tab EXCEPT ![i] = [theme64_tab[theme64_find(src)] EXCEPT !.name = dst]]
       /\ theme64_looped' = (theme64_looped \/ (Parent(src) # "" /\ dst \in Above(Parent(src))))

\* theme64_get_prop(): the first theme of the lineage that has the property.
theme64_get_prop(n) ==
    LET with == {k \in 0 .. Cardinality(ThemeSlots) - 1 :
                    /\ theme64_find(Lineage(n)[k]) # 0
                    /\ theme64_tab[theme64_find(Lineage(n)[k])].prop # 0}
    IN IF with = {} THEN 0 ELSE theme64_tab[theme64_find(Lineage(n)[Min(with)])].prop

themeNext ==
    \/ \E n \in Themes : theme64_add(n)
    \/ \E n \in {x \in Themes : theme64_find(x) # 0} :
          \/ \E v \in 0 .. 1 : theme64_set_prop(n, v)
          \/ \E m \in Themes : theme64_inherit(n, m) \/ theme64_copy(n, m)

\* The check of theme64_inherit() is enough for themes of which none is
\* copied over an ancestor: parents lead to a theme without one, and a
\* property set anywhere above is found.
LineageEnds ==
    ~theme64_looped => \A i \in Taken(theme64_tab) :
        LET n == theme64_tab[i].name
        IN /\ Lineage(n)[Cardinality(ThemeSlots)] = ""
           /\ (theme64_get_prop(n) = 0) =
                 (\A m \in Above(n) : theme64_tab[theme64_find(m)].prop = 0)

------------------------------
(* Colours of theme64.c, one channel of 8 bits each.                       *)

VARIABLE theme64_in    \* two channels and an amount
Channels == {0, 1, 127, 128, 254, 255}
colourInit == theme64_in \in Channels \X Channels \X {0, 1, 128, 255, 256}

theme64_chan(c, amt, up) == Max({0, Min({255, IF up THEN c + amt ELSE c - amt})})
theme64_blend(a, b, t) == (a * (256 - t) + b * t) \div 256
theme64_luminance(r, g, b) ==
    (2126 * ((r * r * 1000) \div 65025) + 7152 * ((g * g * 1000) \div 65025)
        + 722 * ((b * b * 1000) \div 65025)) \div 10000
theme64_contrast(l1, l2) == ((Max({l1, l2}) + 50) * 100) \div (Min({l1, l2}) + 50)

\* Lightening never darkens, a blend lies between its colours and is each of
\* them at the ends, and the contrast of a colour with itself is 100 and of
\* two colours at most the 2100 of black and white (theme64.c).
ColoursSound ==
    LET a == theme64_in[1]  b == theme64_in[2]  t == theme64_in[3]
        grey(c) == theme64_luminance(c, c, c)
    IN /\ theme64_chan(a, Min({t, 255}), FALSE) <= a /\ a <= theme64_chan(a, Min({t, 255}), TRUE)
       /\ Min({a, b}) <= theme64_blend(a, b, t) /\ theme64_blend(a, b, t) <= Max({a, b})
       /\ theme64_blend(a, b, 0) = a /\ theme64_blend(a, b, 256) = b
       /\ theme64_contrast(grey(a), grey(a)) = 100
       /\ theme64_contrast(grey(a), grey(b)) \in 100 .. 2100
       /\ theme64_contrast(grey(255), grey(0)) = 2100

------------------------------
(* Launcher.                                                               *)

VARIABLE launcher64_tab
NoApp == [used |-> FALSE, name |-> "", hidden |-> FALSE, fav |-> FALSE, runs |-> 0]

launcherInit == launcher64_tab = [i \in LaunchSlots |-> NoApp]

App(n) == FirstOf({i \in Taken(launcher64_tab) : launcher64_tab[i].name = n})
\* A name already there only gets a new command.
launcher64_add(n) ==
    /\ App(n) = 0 /\ FirstFree(launcher64_tab) # 0
    /\ launcher64_tab' = [launcher64_tab EXCEPT ![FirstFree(launcher64_tab)] =
          [NoApp EXCEPT !.used = TRUE, !.name = n]]
\* launcher64_launch() and launcher64_launch_argv() count the run, hidden or not.
launcher64_launch(n) ==
    /\ launcher64_tab[App(n)].runs < LaunchRuns
    /\ launcher64_tab' = [launcher64_tab EXCEPT ![App(n)].runs = @ + 1]
launcher64_fav(n, on) == launcher64_tab' = [launcher64_tab EXCEPT ![App(n)].fav = on]
launcher64_hide(n, on) == launcher64_tab' = [launcher64_tab EXCEPT ![App(n)].hidden = on]
launcher64_remove(n) == launcher64_tab' = [launcher64_tab EXCEPT ![App(n)] = NoApp]

\* launcher64_top(): the n entries run most often, as entries.
launcher64_top(n) ==
    LET order == ExchangeSort(InTableOrder({i \in Taken(launcher64_tab) : ~launcher64_tab[i].hidden}),
                              LAMBDA a, b : launcher64_tab[a].runs > launcher64_tab[b].runs)
    IN SubSeq(order, 1, Min({n, Len(order)}))

launcherNext ==
    \/ \E n \in LaunchNames : launcher64_add(n)
    \/ \E n \in {x \in LaunchNames : App(x) # 0} :
          \/ launcher64_launch(n) \/ launcher64_remove(n)
          \/ \E on \in BOOLEAN : launcher64_hide(n, on) \/ launcher64_fav(n, on)

\* However entries come, go and are hidden, nothing left out of the list of
\* the most used was run more often than what is in it (launcher64_top).
TopIsTop ==
    \A n \in 1 .. Cardinality(LaunchSlots) : \A i \in Taken(launcher64_tab) :
        (~launcher64_tab[i].hidden /\ i \notin Range(launcher64_top(n))) =>
            \A k \in DOMAIN launcher64_top(n) :
                launcher64_tab[launcher64_top(n)[k]].runs >= launcher64_tab[i].runs

------------------------------
(* One panel's plugins, and one context menu.                              *)

VARIABLES panel64_plugins, ctxmenu64_items, ctxmenu64_nitems, ctxmenu64_open
menuVars == <<ctxmenu64_items, ctxmenu64_nitems, ctxmenu64_open>>
NoPlugin == [used |-> FALSE, name |-> ""]
NoItem == [used |-> FALSE, sensitive |-> FALSE]

\* panel64_create() and ctxmenu64_create().
panelInit == panel64_plugins = [i \in PanelPlugins |-> NoPlugin]
menuInit ==
    /\ ctxmenu64_items = [i \in MenuItems |-> NoItem]
    /\ ctxmenu64_nitems = 0 /\ ctxmenu64_open = FALSE

Plugins(n) == {i \in Taken(panel64_plugins) : panel64_plugins[i].name = n}
\* The same name may be added again.
panel64_add_plugin(n) ==
    /\ FirstFree(panel64_plugins) # 0
    /\ panel64_plugins' = [panel64_plugins EXCEPT ![FirstFree(panel64_plugins)] = [used |-> TRUE, name |-> n]]
panel64_remove_plugin(n) ==
    /\ Plugins(n) # {}
    /\ panel64_plugins' = [panel64_plugins EXCEPT ![Min(Plugins(n))] = NoPlugin]
Shifted(order, fi, pos) ==
    [k \in DOMAIN order |->
        CASE k = pos -> order[fi]
          [] fi <= k /\ k < pos -> order[k + 1]
          [] pos < k /\ k <= fi -> order[k - 1]
          [] OTHER -> order[k]]
\* panel64_move_plugin(): the holes close; of two with the name the last moves.
panel64_move_plugin(n, pos) ==
    LET taken == InTableOrder(Taken(panel64_plugins))
        fi == CHOOSE k \in DOMAIN taken : taken[k] = Max(Plugins(n))
        order == Shifted(taken, fi, Min({pos, Len(taken)}))
    IN /\ Plugins(n) # {}
       /\ panel64_plugins' = [i \in PanelPlugins |->
             IF i \in DOMAIN order THEN panel64_plugins[order[i]] ELSE NoPlugin]

panelNext ==
    \E n \in PanelNames : \/ panel64_add_plugin(n) \/ panel64_remove_plugin(n)
                          \/ \E p \in PanelPlugins : panel64_move_plugin(n, p)

\* Moving a plugin loses and repeats none, wherever the holes are
\* (panel64_move_plugin).
MoveKeepsPlugins ==
    [(\E n \in PanelNames, p \in PanelPlugins : panel64_move_plugin(n, p)) =>
        \A n \in PanelNames :
            Cardinality(Plugins(n)) = Cardinality({i \in PanelPlugins :
                panel64_plugins'[i].used /\ panel64_plugins'[i].name = n})]_panel64_plugins

ctxmenu64_add_item ==
    /\ FirstFree(ctxmenu64_items) # 0
    /\ ctxmenu64_items' = [ctxmenu64_items EXCEPT ![FirstFree(ctxmenu64_items)] = [used |-> TRUE, sensitive |-> TRUE]]
    /\ ctxmenu64_nitems' = ctxmenu64_nitems + 1
    /\ UNCHANGED ctxmenu64_open
ctxmenu64_remove_item(i) ==
    /\ ctxmenu64_items[i].used
    /\ ctxmenu64_items' = [ctxmenu64_items EXCEPT ![i] = NoItem]
    /\ ctxmenu64_nitems' = ctxmenu64_nitems - 1
    /\ UNCHANGED ctxmenu64_open
ctxmenu64_set_sensitive(i, on) ==
    /\ ctxmenu64_items[i].used
    /\ ctxmenu64_items' = [ctxmenu64_items EXCEPT ![i].sensitive = on]
    /\ UNCHANGED <<ctxmenu64_nitems, ctxmenu64_open>>
\* ctxmenu64_popup(), and ctxmenu64_close() or an item that is taken.
ctxmenu64_popup(on) == ctxmenu64_open' = on /\ UNCHANGED <<ctxmenu64_items, ctxmenu64_nitems>>
ctxmenu64_clear ==
    /\ ctxmenu64_items' = [i \in MenuItems |-> NoItem]
    /\ ctxmenu64_nitems' = 0 /\ ctxmenu64_open' = FALSE
\* ctxmenu64_activate(): the index counts the items that can be taken.
ctxmenu64_activate(index) ==
    LET ready == InTableOrder({i \in Taken(ctxmenu64_items) : ctxmenu64_items[i].sensitive})
    IN IF index \in DOMAIN ready THEN ready[index] ELSE 0

menuNext ==
    \/ ctxmenu64_add_item \/ ctxmenu64_clear
    \/ \E i \in MenuItems : \/ ctxmenu64_remove_item(i)
                            \/ \E on \in BOOLEAN : ctxmenu64_set_sensitive(i, on)
    \/ \E on \in BOOLEAN : ctxmenu64_popup(on)

\* The count of a menu is the number of its items, and every sensitive item
\* answers to one index, no other item to any (ctxmenu64.c).
MenuCounted ==
    /\ ctxmenu64_nitems = Cardinality(Taken(ctxmenu64_items))
    /\ {ctxmenu64_activate(k) : k \in 1 .. ctxmenu64_nitems} \ {0}
          = {i \in Taken(ctxmenu64_items) : ctxmenu64_items[i].sensitive}
==============================
