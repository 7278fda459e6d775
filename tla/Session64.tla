------------------------------ MODULE Session64 -----------------------------
(***************************************************************************)
(* Services of a desktop session in the 64-bit port: settings              *)
(* (settings64.c), notifications (notifyd64.c) and the file manager        *)
(* (fileman64.c) under kernel/arch/x86_64.  They share no state.  Names    *)
(* are shorter than their buffers.  A call that fails changes nothing and  *)
(* is left out, except where it fails half way.                            *)
(***************************************************************************)
EXTENDS Tables64

CONSTANTS
    SetSlots,        \* SETTINGS64_MAX entries
    SetKeys,         \* channel and key together
    SetVals,
    SetWatches,      \* watches a program may ask for: sets of keys
    SetQueue,        \* SETTINGS64_MAXQ
    SetTexts,        \* channels, keys and values written to a file
    SetWidth,        \* 2^63, the first integer that does not fit
    NoteSlots, NoteIds, NoteTime, NoteTimeouts,
    FileSlots, FilePaths, FileSizes, FileClips

ASSUME SessionAssumption ==
    /\ SetQueue \in Nat /\ SetWidth \in Nat /\ SetWidth % 10 # 0
    /\ NoteIds \in Nat /\ NoteTime \in Nat /\ NoteTimeouts \subseteq Nat /\ FileClips \in Nat

------------------------------
(* Settings.                                                               *)

VARIABLES
    settings64_tab,      \* slot -> [used, key, val]
    settings64_watches,  \* watches in force, each a set of keys
    settings64_q,        \* changes not yet asked for
    settings64_unread,   \* history: watched keys changed since last reported
    settings64_lost,     \* history: a change was dropped, the queue was full
    settings64_in        \* the input of the conversions
settingsVars == <<settings64_tab, settings64_watches, settings64_q, settings64_unread, settings64_lost>>

NoSetting == [used |-> FALSE, key |-> <<>>, val |-> <<>>]
settingsInit ==
    /\ settings64_tab = [i \in SetSlots |-> NoSetting]
    /\ settings64_watches = {} /\ settings64_q = <<>>
    /\ settings64_unread = {} /\ settings64_lost = FALSE

settings_find(tab, k) == FirstOf({i \in Taken(tab) : tab[i].key = k})

\* One entry for the first watch that matches, however many there are.
settings64_fire(k) ==
    IF \A w \in settings64_watches : k \notin w
    THEN UNCHANGED <<settings64_q, settings64_unread, settings64_lost>>
    ELSE /\ settings64_unread' = settings64_unread \cup {k}
         /\ settings64_q' = IF Len(settings64_q) < SetQueue THEN Append(settings64_q, k)
                            ELSE settings64_q
         /\ settings64_lost' = (settings64_lost \/ Len(settings64_q) >= SetQueue)

\* settings64_set() on a table: the entry of the key, else the first free one.
Stored(tab, k, v) ==
    LET i == IF settings_find(tab, k) # 0 THEN settings_find(tab, k) ELSE FirstFree(tab)
    IN IF i = 0 THEN tab ELSE [tab EXCEPT ![i] = [used |-> TRUE, key |-> k, val |-> v]]

settings64_set(k, v) ==
    /\ settings_find(settings64_tab, k) # 0 \/ FirstFree(settings64_tab) # 0
    /\ settings64_tab' = Stored(settings64_tab, k, v)
    /\ settings64_fire(k)
    /\ UNCHANGED settings64_watches

settings64_reset(k) ==
    /\ settings_find(settings64_tab, k) # 0
    /\ settings64_tab' = [settings64_tab EXCEPT ![settings_find(settings64_tab, k)] = NoSetting]
    /\ settings64_fire(k)
    /\ UNCHANGED settings64_watches

settings64_watch(w) ==
    /\ settings64_watches' = settings64_watches \cup {w}
    /\ UNCHANGED <<settings64_tab, settings64_q, settings64_unread, settings64_lost>>

settings64_changed ==
    /\ settings64_q # <<>>
    /\ settings64_q' = Tail(settings64_q)
    /\ settings64_unread' = settings64_unread \ {Head(settings64_q)}
    /\ UNCHANGED <<settings64_tab, settings64_watches, settings64_lost>>

settingsNext ==
    \/ \E k \in SetKeys : (\E v \in SetVals : settings64_set(k, v)) \/ settings64_reset(k)
    \/ \E w \in SetWatches : settings64_watch(w)
    \/ settings64_changed

\* Until the queue overflows, a key changed under a watch since the watcher
\* last heard of it is still to be reported (settings64_fire()).
ChangesReported ==
    settings64_lost \/ settings64_unread \subseteq ToSet(settings64_q)

\* settings64_export(): "channel.key=value" and a newline for each entry.
settings64_export(tab) ==
    FlattenSeq([i \in 1 .. Len(InTableOrder(Taken(tab))) |->
        LET e == tab[InTableOrder(Taken(tab))[i]]
        IN e.key[1] \o <<".">> \o e.key[2] \o <<"=">> \o e.val \o <<"\n">>])

\* A line of settings64_import(): a comment, a line whose "=" comes before
\* its "." and a line without one of them are skipped.
ImportLine(line) ==
    LET stops == {i \in DOMAIN line : line[i] \in {".", "="}}
        dot == FirstOf(stops)
        eq == FirstOf({i \in DOMAIN line : i > dot /\ line[i] = "="})
    IN IF stops = {} \/ line[1] = "#" \/ line[dot] # "." \/ eq = 0 \/ dot = 1 \/ eq = dot + 1
       THEN <<>>
       ELSE <<SubSeq(line, 1, dot - 1), SubSeq(line, dot + 1, eq - 1), SubSeq(line, eq + 1, Len(line))>>

\* settings64_import() into a table.
settings64_import(tab, text) ==
    LET ends == {0} \cup {i \in DOMAIN text : text[i] = "\n"}
        line(i) == SubSeq(text, Max({e \in ends : e < i}) + 1, i - 1)
    IN FoldLeft(LAMBDA t, i : LET l == ImportLine(line(i))
                              IN IF l = <<>> THEN t ELSE Stored(t, <<l[1], l[2]>>, l[3]),
                tab, InTableOrder(ends \ {0}))

\* settings64_set_int() writes the digits of a number, the last first, and
\* turns them round; the absolute value of the least one is taken unsigned.
Digits(u) ==
    LET d[n \in 0 .. SetWidth] == IF n < 10 THEN <<n>> ELSE Append(d[n \div 10], n % 10) IN d[u]
settings64_set_int(v) == IF v < 0 THEN <<-1>> \o Digits(-(v + 1) + 1) ELSE Digits(v)

\* As settings64_get_int, a bug: the sign is applied before the last digit.
Wrapped(v) == ((v + SetWidth) % (2 * SetWidth)) - SetWidth
\* settings64_get_int(): the sum is signed and wraps where it overflows.
settings64_get_int(s) ==
    LET v == FoldLeft(LAMBDA a, d : Wrapped(a * 10 + d), 0, IF s[1] = -1 THEN Tail(s) ELSE s)
    IN IF s[1] = -1 THEN Wrapped(-v) ELSE v

\* settings64_format_milli(), settings64_parse_milli(): thousandths, always
\* with three digits after the point; -2 stands for the point.
settings64_format_milli(m) ==
    LET a == IF m < 0 THEN -m ELSE m
    IN (IF m < 0 THEN <<-1>> ELSE <<>>) \o Digits(a \div 1000)
          \o <<-2, (a % 1000) \div 100, (a \div 10) % 10, a % 10>>
settings64_parse_milli(s) ==
    LET b == IF s[1] = -1 THEN Tail(s) ELSE s
        point == FirstOf({i \in DOMAIN b : b[i] = -2})
        value(t) == FoldLeft(LAMBDA a, d : a * 10 + d, 0, t)
    IN (value(SubSeq(b, 1, point - 1)) * 1000 + value(SubSeq(b, point + 1, Len(b))))
          * (IF s[1] = -1 THEN -1 ELSE 1)

settings64_inInit ==
    settings64_in \in [ch : SetTexts, key : SetTexts, val : SetTexts, n : {0}]
                      \cup [ch : {<<"c">>}, key : {<<"k">>}, val : {<<>>}, n : -SetWidth .. SetWidth - 1]

\* What settings64_export() writes, settings64_import() reads back, when no
\* name holds a separator that ends it; the value may hold "." and "=".
ExportImports ==
    LET e == [used |-> TRUE, key |-> <<settings64_in.ch, settings64_in.key>>, val |-> settings64_in.val]
        tab == [i \in SetSlots |-> IF i = 1 THEN e ELSE NoSetting]
    IN (/\ settings64_in.ch # <<>> /\ settings64_in.key # <<>> /\ settings64_in.ch[1] # "#"
        /\ ToSet(settings64_in.ch) \cap {".", "=", "\n"} = {}
        /\ ToSet(settings64_in.key) \cap {"=", "\n"} = {} /\ "\n" \notin ToSet(settings64_in.val))
          => settings64_import([i \in SetSlots |-> NoSetting], settings64_export(tab)) = tab

\* Every integer comes back as it was stored, the least one too; every
\* number of thousandths but the least, whose absolute value does not fit.
NumbersComeBack ==
    /\ settings64_get_int(settings64_set_int(settings64_in.n)) = settings64_in.n
    /\ settings64_in.n # -SetWidth
          => settings64_parse_milli(settings64_format_milli(settings64_in.n)) = settings64_in.n

------------------------------
(* Notifications.  Time passes on its own; the daemon learns of it only    *)
(* when notifyd64_expire() is called.                                      *)

VARIABLES
    notifyd64_tab, notifyd64_next_id,
    notifyd64_now,   \* the daemon's clock
    notifyd64_clock  \* the time
notifydVars == <<notifyd64_tab, notifyd64_next_id, notifyd64_now, notifyd64_clock>>

NoNote == [used |-> FALSE, id |-> 0, expire |-> 0, urgency |-> 0,
           due |-> 0]     \* history: when its time is over, 0 for never
notifydInit ==
    /\ notifyd64_tab = [i \in NoteSlots |-> NoNote]
    /\ notifyd64_next_id = 1 /\ notifyd64_now = 0 /\ notifyd64_clock = 0

notifyd64_send(timeout) ==
    LET i == FirstFree(notifyd64_tab)
    IN /\ i # 0 /\ notifyd64_next_id <= NoteIds
       /\ notifyd64_tab' = [notifyd64_tab EXCEPT ![i] =
             [NoNote EXCEPT !.used = TRUE, !.id = notifyd64_next_id, !.urgency = 1,
                            !.expire = IF timeout > 0 THEN notifyd64_now + timeout ELSE 0,
                            !.due = IF timeout > 0 THEN notifyd64_clock + timeout ELSE 0]]
       /\ notifyd64_next_id' = notifyd64_next_id + 1
       /\ UNCHANGED <<notifyd64_now, notifyd64_clock>>

\* notifyd64_close(); and notifyd64_action(), when nobody registered the action.
notifyd64_close(i) ==
    /\ notifyd64_tab' = [notifyd64_tab EXCEPT ![i] = NoNote]
    /\ UNCHANGED <<notifyd64_next_id, notifyd64_now, notifyd64_clock>>

notifyd64_expire ==
    /\ notifyd64_now' = notifyd64_clock
    /\ notifyd64_tab' = [i \in NoteSlots |->
          LET e == notifyd64_tab[i]
          IN IF e.used /\ e.urgency # 2 /\ e.expire # 0 /\ e.expire <= notifyd64_clock THEN NoNote ELSE e]
    /\ UNCHANGED <<notifyd64_next_id, notifyd64_clock>>

notifyd64_set_urgency(i, level) ==
    /\ notifyd64_tab' = [notifyd64_tab EXCEPT ![i].urgency = level]
    /\ UNCHANGED <<notifyd64_next_id, notifyd64_now, notifyd64_clock>>
notifyd64_clear_all ==
    /\ notifyd64_tab' = [i \in NoteSlots |-> NoNote]
    /\ UNCHANGED <<notifyd64_next_id, notifyd64_now, notifyd64_clock>>

NoteTimePasses ==
    /\ notifyd64_clock < NoteTime
    /\ notifyd64_clock' = notifyd64_clock + 1
    /\ UNCHANGED <<notifyd64_tab, notifyd64_next_id, notifyd64_now>>

notifydNext ==
    \/ \E t \in NoteTimeouts : notifyd64_send(t)
    \/ \E i \in Taken(notifyd64_tab) : \/ notifyd64_close(i)
                                       \/ \E level \in 0 .. 2 : notifyd64_set_urgency(i, level)
    \/ notifyd64_expire \/ notifyd64_clear_all
    \/ NoteTimePasses

\* After notifyd64_expire() nothing but a critical notification is shown past
\* its time, however far the daemon's clock was behind when it was sent.
NoneOverdue ==
    [notifyd64_now' # notifyd64_now =>
        \A i \in NoteSlots : LET e == notifyd64_tab'[i]
                             IN (e.used /\ e.urgency # 2 /\ e.due # 0) => e.due > notifyd64_clock]_notifydVars

------------------------------
(* File manager: the entries it knows, by path; a clipboard of paths.      *)

VARIABLES fileman64_tab, fileman64_clip
filemanVars == <<fileman64_tab, fileman64_clip>>

NoFile == [used |-> FALSE, path |-> <<>>, is_dir |-> FALSE, size |-> 0]
filemanInit == fileman64_tab = [i \in FileSlots |-> NoFile] /\ fileman64_clip = <<>>

fileman64_find(tab, p) == FirstOf({i \in Taken(tab) : tab[i].path = p})
Below(p, dir) == Len(p) > Len(dir) /\ SubSeq(p, 1, Len(dir)) = dir
fileman_child_of(p, dir) == Below(p, dir) /\ Len(p) = Len(dir) + 1

\* fileman64_add() on a table, which is full when it stays as it is.
Added(tab, p, is_dir, size) ==
    LET i == IF fileman64_find(tab, p) # 0 THEN fileman64_find(tab, p) ELSE FirstFree(tab)
    IN IF i = 0 THEN tab
       ELSE [tab EXCEPT ![i] = [used |-> TRUE, path |-> p, is_dir |-> is_dir, size |-> size]]

fileman64_add(p, is_dir, size) ==
    /\ fileman64_tab' = Added(fileman64_tab, p, is_dir, size)
    /\ UNCHANGED fileman64_clip

fileman64_mkdir(p) == fileman64_add(p, TRUE, 0)

fileman64_clip_add(p, cut) ==
    /\ Len(fileman64_clip) < FileClips
    /\ fileman64_clip' = Append(fileman64_clip, [path |-> p, cut |-> cut])
    /\ UNCHANGED fileman64_tab

\* The entry is made anew, without kind and size; what was cut is removed
\* whether or not there was room, and after the new one was made.
Pasted(tab, c, dir) ==
    LET made == Added(tab, Append(dir, Last(c.path)), FALSE, 0)
        i == fileman64_find(made, c.path)
    IN IF c.cut /\ i # 0 THEN [made EXCEPT ![i] = NoFile] ELSE made
fileman64_clip_paste(dir) ==
    /\ fileman64_clip # <<>>
    /\ fileman64_tab' = FoldLeft(LAMBDA t, c : Pasted(t, c, dir), fileman64_tab, fileman64_clip)
    /\ fileman64_clip' = <<>>

\* fileman64_rename(): the entries below move one by one until one of them is
\* in the way; then the call fails with the others moved.
\* As RenamedOne, a bug: what is below stays where it was.
RenamedOneStays(r, i, oldp, newp) == r
RenamedOne(r, i, oldp, newp) ==
    LET p == r.tab[i].path
        dst == newp \o SubSeq(p, Len(oldp) + 1, Len(p))
    IN IF ~r.ok \/ ~r.tab[i].used \/ ~Below(p, oldp) THEN r
       ELSE IF fileman64_find(r.tab, dst) # 0 THEN [r EXCEPT !.ok = FALSE]
       ELSE [r EXCEPT !.tab = [r.tab EXCEPT ![i].path = dst]]
fileman64_rename(oldp, newp) ==
    LET e == fileman64_find(fileman64_tab, oldp)
        moved == FoldLeft(LAMBDA r, i : RenamedOne(r, i, oldp, newp),
                          [tab |-> fileman64_tab, ok |-> TRUE], InTableOrder(FileSlots))
    IN /\ fileman64_find(fileman64_tab, newp) = 0 /\ e # 0
       /\ fileman64_tab' = IF moved.ok THEN [moved.tab EXCEPT ![e].path = newp] ELSE moved.tab
       /\ UNCHANGED fileman64_clip

fileman64_remove(p, recursive) ==
    LET i == fileman64_find(fileman64_tab, p)
        below == {j \in Taken(fileman64_tab) : Below(fileman64_tab[j].path, p)}
        gone == IF fileman64_tab[i].is_dir /\ recursive THEN below \cup {i} ELSE {i}
    IN /\ i # 0
       /\ ~(fileman64_tab[i].is_dir /\ below # {} /\ ~recursive)
       /\ fileman64_tab' = [j \in FileSlots |-> IF j \in gone THEN NoFile ELSE fileman64_tab[j]]
       /\ UNCHANGED fileman64_clip

fileman64_copy(src, dst) ==
    LET s == fileman64_find(fileman64_tab, src)
        i == FirstFree(fileman64_tab)
    IN /\ fileman64_find(fileman64_tab, dst) = 0 /\ s # 0 /\ i # 0
       /\ ~fileman64_tab[s].is_dir
       /\ fileman64_tab' = [fileman64_tab EXCEPT ![i] = [fileman64_tab[s] EXCEPT !.path = dst]]
       /\ UNCHANGED fileman64_clip

filemanNext ==
    \/ \E p \in FilePaths : fileman64_mkdir(p) \/ \E s \in FileSizes : fileman64_add(p, FALSE, s)
    \/ \E p \in FilePaths, cut \in BOOLEAN : fileman64_clip_add(p, cut)
    \/ \E dir \in FilePaths \cup {<<>>} : Len(dir) < 2 /\ fileman64_clip_paste(dir)
    \/ \E o, n \in FilePaths : \/ Len(n) = Len(o) /\ fileman64_rename(o, n)   \* so that paths do not grow
                              \/ fileman64_copy(o, n)
    \/ \E p \in FilePaths, recursive \in BOOLEAN : fileman64_remove(p, recursive)

\* fileman64_list() by name and by size, directories first.  Times of change
\* and the third mode, which goes by them alone, are left out.
FileBefore(mode, a, b) ==
    CASE a.is_dir # b.is_dir -> a.is_dir
      [] mode = "size" -> a.size > b.size
      [] OTHER -> Last(a.path) < Last(b.path)
fileman64_list(mode, dir) ==
    LET found == InTableOrder({i \in Taken(fileman64_tab) : fileman_child_of(fileman64_tab[i].path, dir)})
    IN ExchangeSort([k \in DOMAIN found |-> fileman64_tab[found[k]]], LAMBDA a, b : FileBefore(mode, a, b))

\* fileman64_dirsize(): the bytes of the files at and below a path.
fileman64_dirsize(tab, dir) ==
    MapThenSumSet(LAMBDA i : tab[i].size,
        {i \in Taken(tab) : ~tab[i].is_dir /\ (tab[i].path = dir \/ Below(tab[i].path, dir))})

\* No path is entered twice, after a failed renaming or a paste neither.
PathsUnique ==
    \A i, j \in Taken(fileman64_tab) : fileman64_tab[i].path = fileman64_tab[j].path => i = j

\* A directory is renamed with all there is below it, or the call fails.
RenameMovesAll ==
    [\A o, n \in FilePaths :
        (Len(n) = Len(o) /\ fileman64_rename(o, n) /\ fileman64_find(fileman64_tab', n) # 0)
           => /\ fileman64_dirsize(fileman64_tab', o) = 0
              /\ fileman64_dirsize(fileman64_tab', n) =
                    fileman64_dirsize(fileman64_tab, n) + fileman64_dirsize(fileman64_tab, o)]_filemanVars

\* fileman64_list() loses nothing and no directory comes after a file.
ListOrdered ==
    \A dir \in {<<>>} \cup {p \in FilePaths : Len(p) = 1}, mode \in {"name", "size"} :
        LET l == fileman64_list(mode, dir)
        IN /\ ToSet(l) = {fileman64_tab[i] : i \in {k \in Taken(fileman64_tab) :
                                                      fileman_child_of(fileman64_tab[k].path, dir)}}
           /\ \A i, j \in DOMAIN l : (i < j /\ l[j].is_dir) => l[i].is_dir
==============================
