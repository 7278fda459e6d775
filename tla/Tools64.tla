------------------------------- MODULE Tools64 -------------------------------
(***************************************************************************)
(* Tools of the 64-bit port (kernel/arch/x86_64) whose results are         *)
(* computed: patterns (regex64.c), builds (make64.c), text encodings       *)
(* (iconv64.c), integer expressions (python64.c), the words and the        *)
(* history of a command line (shell64.c) and the objects and events of the *)
(* display protocol (wayland64.c).  Each is a part of its own.  Characters *)
(* are numbers, the ones with a meaning have names.                        *)
(***************************************************************************)
EXTENDS Tables64, TLC

CONSTANTS
    RegexAtoms, RegexItems, RegexTexts, REGEX64_DEPTH,
    MakeTargets, MakeTimes, MakeEnd, MAKE64_MAX_DEPS,
    CodePoints, Encodings, IconvRooms, IconvLength,
    PyNumbers, PyOps,
    ShellWords, SHELL64_WORD, SHELL64_MAX_TOKENS, SHELL64_HIST, ShellLines,
    WAYLAND64_MAX_OBJ, WAYLAND64_MAX_EV, WlEvents

VARIABLES
    re_items, re_text, re_ends,
    mk_tab, mk_rc, mk_last,
    ic_from, ic_to, ic_points, ic_in, ic_out,
    py_tree,
    sh_words, sh_hist, sh_typed,
    wl_objs, wl_next, wl_q, wl_head, wl_n, wl_owed
regexVars == <<re_items, re_text, re_ends>>
makeVars == <<mk_tab, mk_rc, mk_last>>
iconvVars == <<ic_from, ic_to, ic_points, ic_in, ic_out>>
pyVars == <<py_tree>>
wordsVars == <<sh_words, sh_hist, sh_typed>>
waylandVars == <<wl_objs, wl_next, wl_q, wl_head, wl_n, wl_owed>>

\* The character of a C string at position i, 0 past its end.
CharAt(s, i) == IF i \in 1 .. Len(s) THEN s[i] ELSE 0

------------------------------
(* Patterns.  What is checked is a list of items, an atom and how often it *)
(* may come; the pattern is the text of the list.                          *)

ANY == 20
STAR == 21
PLUS == 22
OPT == 23
LBRACKET == 24
RBRACKET == 25
HAT == 26
DASH == 27
BACKSLASH == 28
DOLLAR == 29
RegexInit == re_items = <<>> /\ re_text = <<>> /\ re_ends = {}

\* The end of a class that starts at pi, and the characters it holds.
RECURSIVE ClassScan(_, _, _)
ClassScan(pat, q, hold) ==
    IF CharAt(pat, q) = 0 THEN [end |-> q, hold |-> hold]
    ELSE IF CharAt(pat, q) = RBRACKET THEN [end |-> q + 1, hold |-> hold]
    ELSE IF CharAt(pat, q + 1) = DASH /\ CharAt(pat, q + 2) \notin {0, RBRACKET}
    THEN ClassScan(pat, q + 3, hold \cup (pat[q] .. pat[q + 2]))
    ELSE ClassScan(pat, q + 1, hold \cup {pat[q]})
regex_class(pat, pi, c) ==
    LET neg == CharAt(pat, pi + 1) = HAT
        scan == ClassScan(pat, pi + (IF neg THEN 2 ELSE 1), {})
    IN [end |-> scan.end, hit |-> c # 0 /\ (neg # (c \in scan.hold))]
regex_atom(pat, pi, c) ==
    CASE pat[pi] = LBRACKET -> regex_class(pat, pi, c)
      [] pat[pi] = ANY -> [end |-> pi + 1, hit |-> c # 0]
      [] pat[pi] = BACKSLASH /\ CharAt(pat, pi + 1) # 0 -> [end |-> pi + 2, hit |-> c = pat[pi + 1]]
      [] OTHER -> [end |-> pi + 1, hit |-> c = pat[pi]]

\* How many characters an item may take, n in a row fit.
Most(op, n) == IF op = OPT /\ n > 1 THEN 1 ELSE n
Least(op) == IF op = PLUS THEN 1 ELSE 0
RECURSIVE regex_full(_, _, _, _, _, _)
regex_full(pat, pi, s, pos, end, depth) ==
    IF depth > REGEX64_DEPTH THEN FALSE
    ELSE IF pi > Len(pat) \/ (pi = Len(pat) /\ pat[pi] = DOLLAR) THEN pos = end
    ELSE LET ae == regex_atom(pat, pi, 0).end
             op == CharAt(pat, ae)
             Fits(p) == regex_atom(pat, pi, s[p]).hit
             n == Max({k \in 0 .. end - pos : \A j \in 0 .. k - 1 : Fits(pos + j)})
         IN IF op \in {STAR, PLUS, OPT}
            THEN \E i \in Least(op) .. Most(op, n) : regex_full(pat, ae + 1, s, pos + i, end, depth + 1)
            ELSE pos < end /\ Fits(pos) /\ regex_full(pat, ae, s, pos + 1, end, depth + 1)
\* Positions are those of TLA+ sequences: pos up to, not including, end.
PatStart(pat) == IF CharAt(pat, 1) = HAT THEN 2 ELSE 1
regex64_match(pat, s) == regex_full(pat, PatStart(pat), s, 1, Len(s) + 1, 0)
regex64_search(pat, s) ==
    FirstOf({st \in 1 .. (IF PatStart(pat) = 2 THEN 1 ELSE Len(s) + 1) :
                \E en \in st .. Len(s) + 1 : regex_full(pat, PatStart(pat), s, st, en, 0)})

\* The text of an item: the atom, then the sign.
AtomText(a) ==
    CASE a.kind = "any" -> <<ANY>>
      [] a.kind = "one" -> <<a.from>>
      [] a.kind = "quoted" -> <<BACKSLASH, a.from>>
      [] a.kind = "in" -> <<LBRACKET, a.from, DASH, a.to, RBRACKET>>
      [] a.kind = "out" -> <<LBRACKET, HAT, a.from, RBRACKET>>
RegexText(items, ends) ==
    (IF "start" \in ends THEN <<HAT>> ELSE <<>>) \o FlattenSeq([i \in 1 .. Len(items) |->
        AtomText(items[i].atom) \o (IF items[i].sign = 0 THEN <<>> ELSE <<items[i].sign>>)])
    \o (IF "end" \in ends THEN <<DOLLAR>> ELSE <<>>)
regex64_compile ==
    /\ Len(re_items) < RegexItems /\ re_text = <<>>
    /\ \E a \in RegexAtoms, g \in {0, STAR, PLUS, OPT} :
          re_items' = Append(re_items, [atom |-> a, sign |-> g])
    /\ UNCHANGED <<re_text, re_ends>>
GiveText ==
    /\ re_items # <<>> /\ re_text = <<>>
    /\ re_text' \in RegexTexts
    /\ re_ends' \in SUBSET {"start", "end"}
    /\ UNCHANGED re_items
RegexNext == regex64_compile \/ GiveText

------------------------------
(* Builds.  A target has a rule with a recipe, is a file that was only     *)
(* given a time, or is not known; the time of the last change is kept.     *)

NoTargetRule == [used |-> FALSE, recipe |-> FALSE, deps |-> <<>>, mtime |-> 0]
MakeInit ==
    /\ mk_tab = [t \in MakeTargets |-> NoTargetRule]
    /\ mk_rc = 0
    /\ mk_last = 0                  \* the target last built, 0 after a change
make64_add_rule(t, deps) ==
    /\ Len(deps) <= MAKE64_MAX_DEPS
    /\ mk_tab' = [mk_tab EXCEPT ![t] = [used |-> TRUE, recipe |-> TRUE, deps |-> deps, mtime |-> mk_tab[t].mtime]]
    /\ mk_rc' = 0 /\ mk_last' = 0
make64_set_time(t, m) ==
    /\ mk_tab' = [mk_tab EXCEPT ![t].used = TRUE, ![t].mtime = m]
    /\ mk_rc' = 0 /\ mk_last' = 0

Outdated(newest, mtime) == newest >= mtime
\* The walk over what a target is made from: the table, the targets done, the
\* answer and the newest time seen among the ones the caller asked for.
RECURSIVE make64_visit(_, _, _)
make64_visit(t, stack, st) ==
    IF t \in st.done THEN st
    ELSE IF t \in stack THEN [st EXCEPT !.rc = -2]
    ELSE IF ~st.tab[t].recipe THEN [st EXCEPT !.done = @ \cup {t}]
    ELSE LET deps == st.tab[t].deps
             Visit(w, d) ==
                 IF w.rc # 0 THEN w
                 ELSE LET v == make64_visit(d, stack \cup {t}, [w EXCEPT !.newest = 0])
                      IN IF v.rc # 0 THEN v
                         ELSE [v EXCEPT !.newest = Max({w.newest, v.tab[d].mtime})]
             w == FoldLeft(Visit, [st EXCEPT !.newest = 0], deps)
         IN IF w.rc # 0 THEN w
            ELSE [w EXCEPT !.done = @ \cup {t},
                           !.tab[t].mtime = IF Outdated(w.newest, @) THEN w.newest + 1 ELSE @]
MakeState(tab) == [tab |-> tab, done |-> {}, rc |-> 0, newest |-> 0]
make64_build(t) ==
    /\ \A u \in MakeTargets : mk_tab[u].mtime < MakeEnd
    /\ \E st \in {make64_visit(t, {}, MakeState(mk_tab))} :
          /\ mk_tab' = st.tab
          /\ mk_rc' = st.rc
    /\ mk_last' = t
MakeNext ==
    \E t \in MakeTargets :
        \/ \E d \in {<<>>} \cup {<<x>> : x \in MakeTargets} \cup {p \in MakeTargets \X MakeTargets : p[1] < p[2]} : make64_add_rule(t, d)
        \/ \E m \in MakeTimes : make64_set_time(t, m)
        \/ make64_build(t)

------------------------------
(* Text encodings.  A character is its code point, bytes are numbers.      *)

IconvInit == ic_from = "" /\ ic_to = "" /\ ic_points = <<>> /\ ic_in = <<>> /\ ic_out = <<>>
Cont(b) == 128 + (b % 64)
TwoBytes(cp) == cp < 2048
Utf8(cp) ==
    IF cp < 128 THEN <<cp>>
    ELSE IF TwoBytes(cp) THEN <<192 + cp \div 64, Cont(cp)>>
    ELSE IF cp < 65536 THEN <<224 + cp \div 4096, Cont(cp \div 64), Cont(cp)>>
    ELSE <<240 + cp \div 262144, Cont(cp \div 4096), Cont(cp \div 64), Cont(cp)>>
Word(v) == <<v % 256, v \div 256>>
Surrogate(cp) == cp \in 55296 .. 57343
Utf16(cp) ==
    IF cp < 65536 THEN Word(cp)
    ELSE Word((cp - 65536) \div 1024 + 55296) \o Word(((cp - 65536) % 1024) + 56320)
Bytes(to, cp) ==
    CASE to = "latin1" -> <<cp>>
      [] to = "utf8" -> Utf8(cp)
      [] to = "utf16" -> Utf16(cp)
      [] to = "utf32" -> <<cp % 256, (cp \div 256) % 256, cp \div 65536, 0>>
\* What cannot be written, whatever the room.
Unwritable(to, cp) == (to = "latin1" /\ cp > 255) \/ (to = "utf16" /\ Surrogate(cp))
iconv_encode(to, cp, room) ==
    IF Unwritable(to, cp) \/ Len(Bytes(to, cp)) > room THEN <<>> ELSE Bytes(to, cp)

Value(p, first) ==
    FoldLeft(LAMBDA v, b : v * 64 + (b % 64), first, p)
Decoded(cp, n) == [cp |-> cp, used |-> n]
BadBytes == Decoded(0, 0)
Continues(p, n) == Len(p) >= n /\ \A i \in 2 .. n : p[i] \div 64 = 2
DecodeUtf8(p) ==
    LET b == p[1]
        two == Value(SubSeq(p, 2, 2), b % 32)
        three == Value(SubSeq(p, 2, 3), b % 16)
        four == Value(SubSeq(p, 2, 4), b % 8)
    IN CASE b < 128 -> Decoded(b, 1)
         [] b \div 32 = 6 -> IF Continues(p, 2) /\ two >= 128 THEN Decoded(two, 2) ELSE BadBytes
         [] b \div 16 = 14 -> IF Continues(p, 3) /\ three >= 2048 THEN Decoded(three, 3) ELSE BadBytes
         [] b \div 8 = 30 -> IF Len(p) >= 4 /\ four \in 65536 .. 1114111 THEN Decoded(four, 4) ELSE BadBytes
         [] OTHER -> BadBytes
DecodeUtf16(p) ==
    LET lo == p[1] + 256 * p[2]
        hi == p[3] + 256 * p[4]
    IN IF Len(p) < 2 THEN BadBytes
       ELSE IF ~Surrogate(lo) THEN Decoded(lo, 2)
       ELSE IF Len(p) < 4 THEN BadBytes
       ELSE IF lo > 56319 \/ hi \notin 56320 .. 57343 THEN BadBytes
       ELSE Decoded(65536 + (lo - 55296) * 1024 + (hi - 56320), 4)
iconv_decode(from, p) ==
    CASE from = "latin1" -> Decoded(p[1], 1)
      [] from = "utf8" -> DecodeUtf8(p)
      [] from = "utf16" -> DecodeUtf16(p)
      [] from = "utf32" ->
            IF Len(p) < 4 THEN BadBytes
            ELSE IF p[4] # 0 \/ p[1] + 256 * p[2] + 65536 * p[3] > 1114111 THEN BadBytes
            ELSE Decoded(p[1] + 256 * p[2] + 65536 * p[3], 4)

\* A text of characters that can be written in the encoding it comes in.
iconv64_open(to, from, points) ==
    /\ ic_from = ""
    /\ \A i \in 1 .. Len(points) : ~Unwritable(from, points[i])
    /\ ic_from' = from /\ ic_to' = to /\ ic_points' = points
    /\ ic_in' = FlattenSeq([i \in 1 .. Len(points) |-> Bytes(from, points[i])])
    /\ ic_out' = <<>>
\* One call: characters are taken while the output has room for them.
RECURSIVE IconvLoop(_, _, _)
IconvLoop(in, out, room) ==
    IF in = <<>> THEN [in |-> in, out |-> out]
    ELSE LET d == iconv_decode(ic_from, in)
             w == IF d.used = 0 THEN <<>> ELSE iconv_encode(ic_to, d.cp, room)
         IN IF w = <<>> THEN [in |-> in, out |-> out]
            ELSE IconvLoop(SubSeq(in, d.used + 1, Len(in)), out \o w, room - Len(w))
iconv64_convert(room) ==
    /\ ic_from # ""
    /\ \E r \in {IconvLoop(ic_in, ic_out, room)} : ic_in' = r.in /\ ic_out' = r.out
    /\ UNCHANGED <<ic_from, ic_to, ic_points>>
IconvNext ==
    \/ \E to, from \in Encodings, n \in 1 .. IconvLength : \E p \in [1 .. n -> CodePoints] : iconv64_open(to, from, p)
    \/ \E room \in IconvRooms : iconv64_convert(room)

------------------------------
(* Integer expressions.  What is checked is a tree; the text is the tree   *)
(* written with the parentheses the grammar needs.  A digit d is DIGIT + d.*)

SPACE == 8
PyChar == [add |-> 1, sub |-> 2, mul |-> 3, div |-> 4, mod |-> 5]
LPAREN == 6
RPAREN == 7
DIGIT == 100
PyTreeInit == py_tree = <<>>
py_skip(s, p) == Min({q \in p .. Len(s) + 1 : CharAt(s, q) # SPACE})
Size(a) == IF a < 0 THEN -a ELSE a
Trunc(a, b) == LET q == Size(a) \div Size(b) IN IF (a < 0) # (b < 0) THEN -q ELSE q
PyFail(p) == [p |-> p, ok |-> FALSE, v |-> 0]
Signed(neg, v) == IF neg THEN -v ELSE v
NumberEnd(s, p) == Min({q \in p .. Len(s) + 1 : CharAt(s, q) < DIGIT})
RECURSIVE py_expr(_, _)
py_factor(s, from) ==
    LET q0 == py_skip(s, from)
        neg == CharAt(s, q0) = PyChar.sub
        q == IF CharAt(s, q0) \in {PyChar.add, PyChar.sub} THEN py_skip(s, q0 + 1) ELSE q0
        e == py_expr(s, q + 1)
        r == py_skip(s, e.p)
        n == NumberEnd(s, q)
    IN IF CharAt(s, q) = LPAREN
       THEN IF CharAt(s, r) = RPAREN THEN [p |-> r + 1, ok |-> e.ok, v |-> Signed(neg, e.v)] ELSE PyFail(r)
       ELSE IF CharAt(s, q) < DIGIT THEN PyFail(q)
       ELSE [p |-> n, ok |-> TRUE,
             v |-> Signed(neg, FoldLeft(LAMBDA v, c : v * 10 + (c - DIGIT), 0, SubSeq(s, q, n - 1)))]
RECURSIVE TermRest(_, _)
TermRest(s, left) ==
    LET q == py_skip(s, left.p)
        op == CharAt(s, q)
        r == py_factor(s, q + 1)
    IN IF op \notin {PyChar.mul, PyChar.div, PyChar.mod} THEN [left EXCEPT !.p = q]
       ELSE IF ~r.ok \/ ~left.ok \/ (op # PyChar.mul /\ r.v = 0) THEN PyFail(r.p)
       ELSE TermRest(s, [p |-> r.p, ok |-> TRUE,
                         v |-> CASE op = PyChar.mul -> left.v * r.v
                                 [] op = PyChar.div -> Trunc(left.v, r.v)
                                 [] OTHER -> left.v - r.v * Trunc(left.v, r.v)])
py_term(s, p) == TermRest(s, py_factor(s, p))
\* What a sign of py_expr takes.
Operand(s, p) == py_term(s, p)
RECURSIVE ExprRest(_, _)
ExprRest(s, left) ==
    LET q == py_skip(s, left.p)
        op == CharAt(s, q)
        r == Operand(s, q + 1)
    IN IF op \notin {PyChar.add, PyChar.sub} THEN [left EXCEPT !.p = q]
       ELSE IF ~r.ok \/ ~left.ok THEN PyFail(r.p)
       ELSE ExprRest(s, [p |-> r.p, ok |-> TRUE, v |-> IF op = PyChar.add THEN left.v + r.v ELSE left.v - r.v])
py_expr(s, p) == ExprRest(s, py_term(s, p))
python64_eval_int(s) ==
    LET x == py_expr(s, 1) IN IF x.ok /\ py_skip(s, x.p) = Len(s) + 1 THEN <<x.v>> ELSE <<>>

\* A tree is <<number>>, <<"neg", tree>> or <<op, tree, tree>>; its text at a
\* place for an expression (0), a term (1), a factor (2) or a bare number (3).
PyDigits(n) == IF n < 10 THEN <<DIGIT + n>> ELSE <<DIGIT + n \div 10, DIGIT + (n % 10)>>
Enclosed(in, text) == IF in THEN <<LPAREN>> \o text \o <<RPAREN>> ELSE text
RECURSIVE PyText(_, _)
PyText(t, place) ==
    IF Len(t) = 1 THEN PyDigits(t[1])
    ELSE IF Len(t) = 2 THEN Enclosed(place > 2, <<PyChar.sub>> \o PyText(t[2], 3))
    ELSE IF t[1] \in {"add", "sub"}
    THEN Enclosed(place > 0, PyText(t[2], 0) \o <<PyChar[t[1]], SPACE>> \o PyText(t[3], 1))
    ELSE Enclosed(place > 1, PyText(t[2], 1) \o <<SPACE, PyChar[t[1]]>> \o PyText(t[3], 2))
PyLeaves == {<<n>> : n \in PyNumbers}
PyLow == PyLeaves \cup {<<"neg", l>> : l \in PyLeaves} \cup {<<o, l, m>> : o \in PyOps, l \in PyLeaves, m \in PyLeaves}
WriteExpression ==
    /\ py_tree = <<>>
    /\ \E l, m \in PyLow, o \in PyOps : py_tree' \in {<<o, l, m>>, <<"neg", l>>}
PyNext == WriteExpression

------------------------------
(* The words of a command line and its history.                            *)

QUOTE == 30
HASH == 31
WordsInit == sh_words = <<>> /\ sh_hist = <<>> /\ sh_typed = <<>>
WordEnds(c, quote) == quote = 0 /\ c \in {SPACE, HASH}
RECURSIVE ShellWord(_, _, _, _)
ShellWord(line, p, cur, quote) ==
    LET c == CharAt(line, p)
    IN IF c = 0 \/ Len(cur) >= SHELL64_WORD \/ WordEnds(c, quote) THEN [p |-> p, word |-> cur]
       ELSE IF quote # 0 /\ c = quote THEN ShellWord(line, p + 1, cur, 0)
       ELSE IF quote = 0 /\ c = QUOTE THEN ShellWord(line, p + 1, cur, c)
       ELSE IF c = BACKSLASH /\ CharAt(line, p + 1) # 0 THEN ShellWord(line, p + 2, Append(cur, line[p + 1]), quote)
       ELSE ShellWord(line, p + 1, Append(cur, c), quote)
RECURSIVE TokensFrom(_, _, _)
TokensFrom(line, p, out) ==
    LET q == py_skip(line, p)
        w == ShellWord(line, q, <<>>, 0)
        next == IF w.word = <<>> THEN out ELSE Append(out, w.word)
    IN IF Len(out) >= SHELL64_MAX_TOKENS \/ CharAt(line, q) \in {0, HASH} THEN out
       ELSE IF CharAt(line, w.p) = HASH THEN next
       ELSE TokensFrom(line, w.p, next)
shell64_tokenize(line) == TokensFrom(line, 1, <<>>)

\* A word as a user writes it, in quotes or character by character.
Quoted(w) ==
    <<QUOTE>> \o FlattenSeq([i \in 1 .. Len(w) |->
                    IF w[i] \in {QUOTE, BACKSLASH} THEN <<BACKSLASH, w[i]>> ELSE <<w[i]>>]) \o <<QUOTE>>
Escaped(w) == FlattenSeq([i \in 1 .. Len(w) |-> <<BACKSLASH, w[i]>>])
WriteWords(ws) == sh_words = <<>> /\ sh_typed = <<>> /\ sh_words' = ws /\ UNCHANGED <<sh_hist, sh_typed>>

HistoryFull(h) == Len(h) >= SHELL64_HIST
shell64_history_add(line) ==
    /\ sh_words = <<>> /\ Len(sh_typed) < ShellLines
    /\ sh_hist' = IF HistoryFull(sh_hist) THEN Append(Tail(sh_hist), line) ELSE Append(sh_hist, line)
    /\ sh_typed' = Append(sh_typed, line)
    /\ UNCHANGED sh_words
WordsNext ==
    \/ \E n \in 1 .. 2 : \E ws \in [1 .. n -> ShellWords] : WriteWords(ws)
    \/ \E line \in 1 .. 2 : shell64_history_add(line)

------------------------------
(* Objects and events of the display protocol.                             *)

WaylandInit ==
    /\ wl_objs = {}
    /\ wl_next = 1
    /\ wl_q = [i \in 0 .. WAYLAND64_MAX_EV - 1 |-> <<>>]
    /\ wl_head = 0
    /\ wl_n = 0
    /\ wl_owed = <<>>           \* events sent and not polled
wayland64_bind ==
    /\ Cardinality(wl_objs) < WAYLAND64_MAX_OBJ
    /\ wl_objs' = wl_objs \cup {wl_next}
    /\ wl_next' = wl_next + 1
    /\ UNCHANGED <<wl_q, wl_head, wl_n, wl_owed>>
EventPlace == (wl_head + wl_n) % WAYLAND64_MAX_EV
wayland64_event(obj, op) ==
    /\ wl_n < WAYLAND64_MAX_EV
    /\ wl_q' = [wl_q EXCEPT ![EventPlace] = <<obj, op>>]
    /\ wl_n' = wl_n + 1
    /\ wl_owed' = Append(wl_owed, <<obj, op>>)
    /\ UNCHANGED <<wl_objs, wl_next, wl_head>>
wayland64_poll ==
    /\ wl_n > 0
    /\ wl_head' = (wl_head + 1) % WAYLAND64_MAX_EV
    /\ wl_n' = wl_n - 1
    /\ wl_owed' = Tail(wl_owed)
    /\ UNCHANGED <<wl_objs, wl_next, wl_q>>
WaylandNext ==
    \/ wayland64_bind \/ wayland64_poll
    \/ \E o \in wl_objs, op \in WlEvents : wayland64_event(o, op)

------------------------------

\* The texts a list of items describes: from position p on, the positions
\* where the first n items can end.
AtomHolds(a, c) ==
    CASE a.kind = "any" -> TRUE
      [] a.kind \in {"one", "quoted"} -> c = a.from
      [] a.kind = "in" -> c \in a.from .. a.to
      [] a.kind = "out" -> c # a.from
Reaches(items, s, from, n) ==
    LET Ends1(i, p) ==
            {p + k : k \in {k \in 0 .. Len(s) + 1 - p :
                /\ \A j \in 0 .. k - 1 : AtomHolds(items[i].atom, s[p + j])
                /\ CASE items[i].sign = 0 -> k = 1 [] items[i].sign = PLUS -> k >= 1
                     [] items[i].sign = OPT -> k <= 1 [] OTHER -> TRUE}}
    IN FoldLeft(LAMBDA P, i : UNION {Ends1(i, p) : p \in P}, {from}, [i \in 1 .. n |-> i])

\* A pattern matches a text exactly when the text can be cut into pieces its
\* items describe, and a search without '$' finds the first place such a text
\* starts at.
PatternsMatch ==
    re_text # <<>> =>
        LET n == Len(re_items)
            pat == RegexText(re_items, re_ends)
            starts == {st \in 1 .. Len(re_text) + 1 : Reaches(re_items, re_text, st, n) # {}}
        IN /\ regex64_match(pat, re_text) <=> Len(re_text) + 1 \in Reaches(re_items, re_text, 1, n)
           /\ "end" \notin re_ends =>
                 regex64_search(pat, re_text) =
                     FirstOf(IF "start" \in re_ends THEN starts \cap {1} ELSE starts)

\* What a target is made from, over any number of rules.
MadeFrom(t) ==
    LET Grow(S, i) == S \cup UNION {IF mk_tab[u].recipe THEN Range(mk_tab[u].deps) ELSE {} : u \in S}
    IN FoldLeft(Grow, {t}, [i \in 1 .. Cardinality(MakeTargets) |-> i])
InCycle(u) == mk_tab[u].recipe /\ \E d \in Range(mk_tab[u].deps) : u \in MadeFrom(d)

\* A build ends with an error exactly when what the target is made from goes
\* round in a circle, else everything it is made from is newer than its own
\* parts, and a second build changes nothing.
BuildsComplete ==
    mk_last # 0 =>
        IF \E u \in MadeFrom(mk_last) : InCycle(u) THEN mk_rc = -2
        ELSE /\ mk_rc = 0
             /\ \A u \in MadeFrom(mk_last) : mk_tab[u].recipe =>
                   \A d \in Range(mk_tab[u].deps) : mk_tab[u].mtime > mk_tab[d].mtime
             /\ make64_visit(mk_last, {}, MakeState(mk_tab)).tab = mk_tab

\* However the output is cut, what was written so far is the start of the text
\* in the other encoding and what is left is the rest of it, which one more
\* call with enough room converts unless it cannot be written.
ConversionResumes ==
    ic_from # "" =>
        \E n \in 0 .. Len(ic_points) :
            /\ ic_in = FlattenSeq([i \in 1 .. Len(ic_points) - n |-> Bytes(ic_from, ic_points[n + i])])
            /\ ic_out = FlattenSeq([i \in 1 .. n |-> Bytes(ic_to, ic_points[i])])
            /\ \/ IconvLoop(ic_in, <<>>, 4 * IconvLength).in = <<>>
               \/ \E i \in n + 1 .. Len(ic_points) : Unwritable(ic_to, ic_points[i])

\* A text is the value its tree has: signs bind as the grammar says, from the
\* left, quotients are cut towards zero and none is by zero.
RECURSIVE TreeValue(_)
TreeValue(t) ==
    IF Len(t) = 1 THEN <<t[1]>>
    ELSE LET a == TreeValue(t[2])
             b == IF Len(t) = 2 THEN <<0>> ELSE TreeValue(t[3])
         IN IF a = <<>> \/ b = <<>> \/ (t[1] \in {"div", "mod"} /\ b = <<0>>) THEN <<>>
            ELSE CASE t[1] = "neg" -> <<-a[1]>>
                   [] t[1] = "add" -> <<a[1] + b[1]>>
                   [] t[1] = "sub" -> <<a[1] - b[1]>>
                   [] t[1] = "mul" -> <<a[1] * b[1]>>
                   [] t[1] = "div" -> <<Trunc(a[1], b[1])>>
                   [] t[1] = "mod" -> <<a[1] - b[1] * Trunc(a[1], b[1])>>
ExpressionsValued == py_tree # <<>> => python64_eval_int(PyText(py_tree, 0)) = TreeValue(py_tree)

\* Words written in quotes or escaped come back as they are, whatever they
\* hold, and the history is the newest lines in order.
WordsComeBack ==
    /\ \A Shape \in {1, 2} :
          sh_words # <<>> =>
              sh_words = shell64_tokenize(FlattenSeq([i \in 1 .. Len(sh_words) |->
                  <<SPACE>> \o (IF Shape = 1 THEN Quoted(sh_words[i]) ELSE Escaped(sh_words[i]))]))
HistoryNewest ==
    sh_hist = SubSeq(sh_typed, Max({1, Len(sh_typed) - SHELL64_HIST + 1}), Len(sh_typed))

\* Events are polled in the order they were sent, also when the ring turns.
EventsPolledInOrder ==
    [i \in 1 .. wl_n |-> wl_q[(wl_head + i - 1) % WAYLAND64_MAX_EV]] = wl_owed
==============================
