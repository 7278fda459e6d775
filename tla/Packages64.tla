----------------------------- MODULE Packages64 -----------------------------
(***************************************************************************)
(* Packages of the 64-bit port (kernel/arch/x86_64): the version orders of *)
(* repo64.c, pkgmgr64.c and update64.c, the repository index, the          *)
(* dependency solver (depsolve64.c) and what manifests add to it           *)
(* (manifest64.c), start plans (boottarget64.c), the transaction log       *)
(* (txn64.c), the package table (pkgmgr64.c), signed and staged updates    *)
(* (secupd64.c, update64.c), the reader of package files (charpkg64.c) and *)
(* the installer (installfw64.c).  A version is the sequence of its        *)
(* numbers and separators; names and file data are model values.           *)
(***************************************************************************)
EXTENDS Tables64, TLC

CONSTANTS
    Versions,           \* versions: sequences of numbers, dots and letters
    PkgNames, PkgVersions,
    DepVersions,        \* versions of packages with dependencies
    UpdNames,           \* packages that are updated
    DepLists,           \* lists of dependencies a package may declare
    REPO64_MAX_ENTRIES, DEPSOLVE64_MAXOUT,
    TargetWants,        \* lists of wanted targets
    BOOTTARGET64_MAX,
    TXN64_MAX_OPS, TXN64_MAX_DB,
    PKGMGR64_MAX_PKGS, UPDATE64_MAX_PKGS,
    SecKeys, SECUPD64_MAX_KEYS,
    FileWord,           \* numbers of a package file are 0 .. FileWord - 1
    FileLens, FileNumbers,
    CopySizes, INSTALLFW64_MAX_STEPS

VARIABLES
    vers,               \* versions under comparison
    repo_tab, dep_meta, \* index, name -> version and dependencies
    targets,            \* target -> wants
    txn_db, txn_ops, txn_active, txn_before,
    pkg_tab, pkg_state, pkg_seen,
    upd_tab, upd_state, sec_keys, sec_tab, sec_policy,
    pkg_file,           \* a package file and the result of reading it
    fw
verVars == vers
depVars == <<repo_tab, dep_meta>>
targetVars == targets
txnVars == <<txn_db, txn_ops, txn_active, txn_before>>
pkgVars == <<pkg_tab, pkg_state, pkg_seen>>
updVars == <<upd_tab, upd_state, sec_keys, sec_tab, sec_policy>>
fileVars == pkg_file
fwVars == fw

------------------------------
(* Versions.  Where a number meets another character the characters are    *)
(* compared: "." is below the digits, letters are above them.  A number    *)
(* stands for itself, "." for -1, a letter for its code above all numbers. *)

Dot == -1
Sign(x) == IF x < 0 THEN -1 ELSE IF x > 0 THEN 1 ELSE 0
TokenCmp(x, y) == Sign(x - y)
\* The first position where the versions differ, 0 if one begins the other.
FirstDiff(a, b) == FirstOf({i \in 1 .. Min({Len(a), Len(b)}) : TokenCmp(a[i], b[i]) # 0})

\* repo64_vercmp(): with all positions equal the longer one is greater.
repo64_vercmp(a, b) ==
    LET i == FirstDiff(a, b) IN IF i # 0 THEN TokenCmp(a[i], b[i]) ELSE Sign(Len(a) - Len(b))
\* pkg_ver_cmp() says so in other words.
pkg_ver_cmp(a, b) ==
    LET i == FirstDiff(a, b)
        rest(x, y) == IF Len(x) > Len(y) THEN 1 ELSE 0
    IN IF i # 0 THEN TokenCmp(a[i], b[i]) ELSE rest(a, b) - rest(b, a)
\* upd_ver_cmp(): a "." where the other version has ended counts for the other.
upd_ver_cmp(a, b) ==
    LET i == FirstDiff(a, b)
        over(x, y) == SubSeq(x, Len(y) + 1, Len(x))
        dotted(r) == r # <<>> /\ r[1] = Dot
        left(r) == IF dotted(r) THEN Tail(r) ELSE r
        count(x, y) == Cardinality({k \in 1 .. 2 : IF k = 1 THEN dotted(over(y, x)) ELSE left(over(x, y)) # <<>>})
    IN IF i # 0 THEN TokenCmp(a[i], b[i]) ELSE Sign(count(a, b) - count(b, a))

VerInit == vers = <<>>
\* Three versions are compared.
Compare(a, b, c) == vers = <<>> /\ vers' = <<a, b, c>>
VerNext == \E a, b, c \in Versions : Compare(a, b, c)

------------------------------
(* The repository, the solver and the start plan.                          *)

NoMeta == [used |-> FALSE, ver |-> <<>>, deps |-> <<>>]
DepInit ==
    /\ repo_tab = <<>>
    /\ dep_meta = [n \in PkgNames |-> NoMeta]

repo64_add(name, ver) ==
    /\ [name |-> name, ver |-> ver] \notin ToSet(repo_tab)
    /\ Len(repo_tab) < REPO64_MAX_ENTRIES
    /\ repo_tab' = Append(repo_tab, [name |-> name, ver |-> ver])
RepoAdd(name, ver) == repo64_add(name, ver) /\ UNCHANGED dep_meta

\* repo64_find() without a lower bound: the first of the highest versions.
repo64_find(name) ==
    LET E == {e \in ToSet(repo_tab) : e.name = name}
    IN CHOOSE e \in E : \A o \in E : repo64_vercmp(e.ver, o.ver) >= 0

depsolve64_add_meta(name, ver, deps) ==
    /\ dep_meta' = [dep_meta EXCEPT ![name] = [used |-> TRUE, ver |-> ver, deps |-> deps]]
    /\ UNCHANGED repo_tab

\* manifest64_to_pkg(): the package is entered under its branch and, if it
\* names a runtime, depends on it.
manifest64_to_pkg(name, branch, runtime) ==
    /\ repo64_add(name, branch)
    /\ dep_meta' = IF runtime = "" THEN dep_meta
                   ELSE [dep_meta EXCEPT ![name] =
                            [used |-> TRUE, ver |-> branch,
                             deps |-> <<[name |-> runtime, op |-> "any", ver |-> <<>>]>>]]

dep_satisfies(have, op, want) ==
    LET c == repo64_vercmp(have, want)
    IN CASE op = "any" -> TRUE
         [] op = ">=" -> c >= 0
         [] op = "<=" -> c <= 0
         [] op = ">" -> c > 0
         [] op = "<" -> c < 0
         [] op = "=" -> c = 0

\* The version the solver goes by: the declared one, else the repository's.
Known(name) == dep_meta[name].used \/ \E e \in ToSet(repo_tab) : e.name = name
solve_ver_of(name) == IF dep_meta[name].used THEN dep_meta[name].ver ELSE repo64_find(name).ver
Satisfied(d) == Known(d.name) /\ dep_satisfies(solve_ver_of(d.name), d.op, d.ver)

\* All dependencies are listed: so is the package.
Finished(s, name) == [s EXCEPT !.out = Append(@, name), !.stack = Front(@)]

solve_marked(s, name) == name \in ToSet(s.out)
solve_in_stack(s, name) == name \in ToSet(s.stack)
TooDeep(s) == Len(s.stack) >= DEPSOLVE64_MAXOUT

\* solve_visit(): depth first, the state is the list and the stack so far.
RECURSIVE solve_visit(_, _)
solve_visit(name, s) ==
    LET deps == dep_meta[name].deps
        visit(a, d) == IF a.rc # 0 THEN a
                       ELSE IF ~Known(d.name) THEN [a EXCEPT !.rc = -5]
                       ELSE IF ~Satisfied(d) THEN [a EXCEPT !.rc = -6]
                       ELSE solve_visit(d.name, a)
        below == FoldLeft(visit, [s EXCEPT !.stack = Append(@, name)], deps)
    IN IF solve_marked(s, name) THEN s
       ELSE IF solve_in_stack(s, name) THEN [s EXCEPT !.rc = -2]
       ELSE IF TooDeep(s) THEN [s EXCEPT !.rc = -3]
       ELSE IF below.rc # 0 THEN below
       ELSE IF Len(below.out) >= DEPSOLVE64_MAXOUT THEN [below EXCEPT !.rc = -3]
       ELSE Finished(below, name)
depsolve64_solve(name) == solve_visit(name, [rc |-> 0, out |-> <<>>, stack |-> <<>>])

DepNext ==
    \/ \E n \in PkgNames, v \in DepVersions : RepoAdd(n, v)
    \/ \E n \in PkgNames, v \in DepVersions, d \in DepLists : depsolve64_add_meta(n, v, d)
    \/ \E n \in PkgNames, r \in PkgNames \cup {""} :
          manifest64_to_pkg(n, <<1, Dot, 0>>, r)

NoTarget == [used |-> FALSE, wants |-> <<>>]
TargetInit == targets = [t \in PkgNames |-> NoTarget]

\* boottarget64_add(): declared again, a target forgets what it wanted.
boottarget64_add(t, wants) ==
    targets' = [targets EXCEPT ![t] = [used |-> TRUE, wants |-> wants]]

plan_marked(s, t) == t \in ToSet(s.out)
plan_in_stack(s, t) == t \in ToSet(s.stack)

\* plan_visit(): as the solver, except that an unknown target wants nothing.
RECURSIVE plan_visit(_, _)
plan_visit(t, s) ==
    LET visit(a, w) == IF a.rc # 0 THEN a ELSE plan_visit(w, a)
        below == FoldLeft(visit, [s EXCEPT !.stack = Append(@, t)], targets[t].wants)
    IN IF plan_marked(s, t) THEN s
       ELSE IF plan_in_stack(s, t) THEN [s EXCEPT !.rc = -2]
       ELSE IF Len(s.stack) >= BOOTTARGET64_MAX THEN [s EXCEPT !.rc = -3]
       ELSE IF below.rc # 0 THEN below
       ELSE IF Len(below.out) >= BOOTTARGET64_MAX THEN [below EXCEPT !.rc = -3]
       ELSE [below EXCEPT !.out = Append(@, t), !.stack = Front(@)]
boottarget64_plan(t) == plan_visit(t, [rc |-> 0, out |-> <<>>, stack |-> <<>>])

TargetNext == \E t \in PkgNames, w \in TargetWants : boottarget64_add(t, w)

------------------------------
(* Transactions: operations are logged and applied by the commit.          *)

NoPkg == [used |-> FALSE, name |-> "", ver |-> <<>>]
TxnInit ==
    /\ txn_db = [i \in 1 .. TXN64_MAX_DB |-> NoPkg]
    /\ txn_ops = <<>>
    /\ txn_active = FALSE
    /\ txn_before = txn_db

txn64_find(db, name) == FirstOf({i \in Taken(db) : db[i].name = name})

txn64_begin ==
    /\ ~txn_active
    /\ txn_active' = TRUE
    /\ txn_ops' = <<>>
    /\ txn_before' = txn_db
    /\ UNCHANGED txn_db

\* txn64_install(): what was there is kept with the operation.
txn64_install(name, ver) ==
    /\ txn_active /\ Len(txn_ops) < TXN64_MAX_OPS
    /\ \E e \in {txn64_find(txn_db, name)} :
          txn_ops' = Append(txn_ops,
             [kind |-> "install", name |-> name, ver |-> ver, had_old |-> e # 0,
              oldver |-> IF e = 0 THEN <<>> ELSE txn_db[e].ver])
    /\ UNCHANGED <<txn_db, txn_active, txn_before>>

txn64_remove(name) ==
    /\ txn_active /\ Len(txn_ops) < TXN64_MAX_OPS
    /\ txn64_find(txn_db, name) # 0
    /\ \E e \in {txn64_find(txn_db, name)} :
          txn_ops' = Append(txn_ops,
             [kind |-> "remove", name |-> name, ver |-> txn_db[e].ver, had_old |-> TRUE,
              oldver |-> txn_db[e].ver])
    /\ UNCHANGED <<txn_db, txn_active, txn_before>>

\* txn64_apply_install(): dropped when the table is full.
txn64_apply_install(db, name, ver) ==
    LET e == txn64_find(db, name)
        i == IF e # 0 THEN e ELSE FirstFree(db)
    IN IF i = 0 THEN db ELSE [db EXCEPT ![i] = [used |-> TRUE, name |-> name, ver |-> ver]]
txn64_apply_remove(db, name) ==
    LET e == txn64_find(db, name) IN IF e = 0 THEN db ELSE [db EXCEPT ![e] = NoPkg]
Apply(db, o) == IF o.kind = "install" THEN txn64_apply_install(db, o.name, o.ver)
                ELSE txn64_apply_remove(db, o.name)
Undo(db, o) == IF o.had_old THEN txn64_apply_install(db, o.name, o.oldver)
               ELSE txn64_apply_remove(db, o.name)

Committed(db, ops) == FoldLeft(Apply, db, ops)

txn64_commit ==
    /\ txn_active
    /\ txn_db' = Committed(txn_db, txn_ops)
    /\ txn_active' = FALSE
    /\ txn_ops' = <<>>
    /\ UNCHANGED txn_before
\* txn64_rollback(): the operations are undone, last first.
txn64_rollback ==
    /\ txn_active
    /\ txn_db' = FoldRight(LAMBDA o, d : Undo(d, o), txn_ops, txn_db)
    /\ txn_active' = FALSE
    /\ txn_ops' = <<>>
    /\ UNCHANGED txn_before

TxnNext ==
    \/ txn64_begin \/ txn64_commit \/ txn64_rollback
    \/ \E n \in PkgNames, v \in PkgVersions : txn64_install(n, v)
    \/ \E n \in PkgNames : txn64_remove(n)

------------------------------
(* The package table.  An entry is never used again.                       *)

PkgInit ==
    /\ pkg_tab = <<>>
    /\ pkg_state = "idle"
    /\ pkg_seen = [n \in PkgNames |-> <<>>]

Installed(n) == {i \in 1 .. Len(pkg_tab) : pkg_tab[i].installed /\ pkg_tab[i].name = n}
Newer(ver, i) == pkg_ver_cmp(ver, pkg_tab[i].ver) > 0

pkgmgr64_install(n, ver) ==
    IF Installed(n) # {}
    THEN /\ Newer(ver, Min(Installed(n)))
         /\ pkg_tab' = [pkg_tab EXCEPT ![Min(Installed(n))].ver = ver]
         /\ pkg_seen' = [pkg_seen EXCEPT ![n] = ver]
         /\ UNCHANGED pkg_state
    ELSE IF Len(pkg_tab) >= PKGMGR64_MAX_PKGS
    THEN /\ pkg_state' = "full"
         /\ UNCHANGED <<pkg_tab, pkg_seen>>
    ELSE /\ pkg_tab' = Append(pkg_tab, [name |-> n, ver |-> ver, installed |-> TRUE])
         /\ pkg_seen' = [pkg_seen EXCEPT ![n] = ver]
         /\ UNCHANGED pkg_state

pkgmgr64_remove(n) ==
    /\ Installed(n) # {}
    /\ pkg_tab' = [pkg_tab EXCEPT ![Min(Installed(n))].installed = FALSE]
    /\ pkg_seen' = [pkg_seen EXCEPT ![n] = <<>>]
    /\ UNCHANGED pkg_state

pkgmgr64_upgrade_all ==
    /\ pkg_state' = "idle"
    /\ UNCHANGED <<pkg_tab, pkg_seen>>

PkgNext ==
    \/ \E n \in PkgNames, v \in PkgVersions : pkgmgr64_install(n, v)
    \/ \E n \in PkgNames : pkgmgr64_remove(n)
    \/ pkgmgr64_upgrade_all

------------------------------
(* Updates: staged, applied, rolled back or committed.  secupd64 keeps the *)
(* signatures; the installer asks it before it stages.                     *)

UpdInit ==
    /\ upd_tab = <<>>
    /\ upd_state = "ok"
    /\ sec_keys = {}
    /\ sec_tab = {}
    /\ sec_policy = "enforced"

\* A signature holds the secret and everything it was made from.
secupd_mac(n, ver, key) == [n |-> n, ver |-> ver, key |-> key]

secupd64_add_key(k) ==
    /\ k \notin sec_keys
    /\ Cardinality(sec_keys) < SECUPD64_MAX_KEYS
    /\ sec_keys' = sec_keys \cup {k}
    /\ UNCHANGED <<upd_tab, upd_state, sec_tab, sec_policy>>

secupd64_set_policy(p) ==
    /\ sec_policy' = p
    /\ UNCHANGED <<upd_tab, upd_state, sec_keys, sec_tab>>

MacRight(sig, n, ver, k) == sig = secupd_mac(n, ver, k)

\* secupd64_stage() of a package with a signature of its publisher.
secupd64_stage(n, ver, sig) ==
    /\ sig.key \in sec_keys
    /\ MacRight(sig, n, ver, sig.key)
    /\ Cardinality(sec_tab) < SECUPD64_MAX_KEYS
    /\ sec_tab' = sec_tab \cup {[n |-> n, ver |-> ver, sig |-> sig]}
    /\ UNCHANGED <<upd_tab, upd_state, sec_keys, sec_policy>>

\* secupd64_apply_ok(): a staged entry, or a relaxed policy.
secupd64_apply_ok(n, ver) ==
    \/ sec_policy = "relaxed"
    \/ \E e \in sec_tab : e.n = n /\ e.ver = ver

update64_stage(n, ver) ==
    /\ secupd64_apply_ok(n, ver)
    /\ Len(upd_tab) < UPDATE64_MAX_PKGS
    /\ upd_state \in {"ok", "staged"}
    /\ upd_tab' = Append(upd_tab, [name |-> n, ver |-> ver, applied |-> FALSE])
    /\ upd_state' = "staged"
    /\ UNCHANGED <<sec_keys, sec_tab, sec_policy>>

update64_check_compat ==
    \A i, j \in 1 .. Len(upd_tab) :
        i < j /\ upd_tab[i].name = upd_tab[j].name => upd_ver_cmp(upd_tab[i].ver, upd_tab[j].ver) = 0

AllApplied(b) == [i \in 1 .. Len(upd_tab) |-> [upd_tab[i] EXCEPT !.applied = b]]

update64_apply ==
    /\ upd_tab # <<>>
    /\ IF update64_check_compat
       THEN /\ upd_tab' = AllApplied(TRUE)
            /\ upd_state' = "staged"
       ELSE /\ upd_state' = "failed"
            /\ UNCHANGED upd_tab
    /\ UNCHANGED <<sec_keys, sec_tab, sec_policy>>

\* update64_rollback(): nothing is applied, but it stays in the table.
update64_rollback ==
    /\ upd_state = "staged"
    /\ upd_tab' = AllApplied(FALSE)
    /\ upd_state' = "ok"
    /\ UNCHANGED <<sec_keys, sec_tab, sec_policy>>

\* update64_commit(): the table is emptied without a look at what was applied;
\* sizes were checked by the stage.
update64_commit ==
    /\ upd_state = "staged"
    /\ upd_tab # <<>>
    /\ upd_tab' = <<>>
    /\ upd_state' = "ok"
    /\ UNCHANGED <<sec_keys, sec_tab, sec_policy>>

UpdNext ==
    \/ \E k \in SecKeys : secupd64_add_key(k)
    \/ \E p \in {"relaxed", "enforced"} : secupd64_set_policy(p)
    \/ \E n \in UpdNames, v, w \in PkgVersions, k \in SecKeys :
          secupd64_stage(n, v, secupd_mac(n, w, k))
    \/ \E n \in UpdNames, v \in PkgVersions : update64_stage(n, v)
    \/ update64_apply \/ update64_rollback \/ update64_commit

------------------------------
(* Package files: a header, entries with the place of each file.           *)

FileInit == pkg_file = [len |-> 0, files |-> <<>>, rc |-> 0]

\* The place of a file, computed in 64 bits: neither past the end nor wrapped.
InPackage(off, size, len) ==
    /\ (off + size) % FileWord >= off
    /\ (off + size) % FileWord <= len

\* charpkg64_parse() of a file of `len' units with two entries, the header and
\* the list taking two of them.
charpkg64_parse(len, files) ==
    /\ pkg_file.files = <<>>
    /\ pkg_file' = [len |-> len, files |-> files,
                    rc |-> IF len < 2 THEN -4
                           ELSE IF \A f \in ToSet(files) : InPackage(f.offset, f.size, len) THEN 0
                           ELSE -5]

FileNext ==
    \E len \in FileLens, o1, s1, o2, s2 \in FileNumbers :
        charpkg64_parse(len, <<[offset |-> o1, size |-> s1], [offset |-> o2, size |-> s2]>>)

------------------------------
(* The installer: one step after another.                                  *)

FwInit == fw = [step |-> "preflight", parts |-> 0, total |-> 0, done |-> 0, copied |-> 0,
                failed |-> FALSE]

installfw64_preflight(enough) ==
    /\ fw.step = "preflight"
    /\ fw' = IF enough THEN [fw EXCEPT !.step = "disk"] ELSE [fw EXCEPT !.failed = TRUE]
installfw64_select_disk == fw.step = "disk" /\ fw' = [fw EXCEPT !.step = "partition"]
installfw64_create_partition ==
    /\ fw.step = "partition" /\ fw.parts < INSTALLFW64_MAX_STEPS
    /\ fw' = [fw EXCEPT !.parts = @ + 1]
CopyFits(n) == fw.done + n <= fw.total

\* installfw64_copy_stage(): the first call gives the size, the others report
\* progress; a report past the end is refused, but stays counted.
installfw64_copy_stage(n) ==
    \/ /\ fw.step = "copy" /\ fw.done <= fw.total
       /\ fw' = [fw EXCEPT !.done = @ + n,
                           !.copied = IF CopyFits(n) THEN @ + n ELSE @,
                           !.step = IF CopyFits(n) /\ fw.done + n >= fw.total THEN "bootloader" ELSE @]
    \/ /\ fw.step = "partition"
       /\ fw' = [fw EXCEPT !.step = "copy", !.total = n, !.done = 0]
installfw64_install_bootloader ==
    fw.step = "bootloader" /\ fw' = [fw EXCEPT !.step = "done"]

FwNext ==
    \/ \E e \in BOOLEAN : installfw64_preflight(e)
    \/ installfw64_select_disk \/ installfw64_create_partition
    \/ \E n \in CopySizes : installfw64_copy_stage(n)
    \/ installfw64_install_bootloader

------------------------------

\* The orders of repo64.c and pkgmgr64.c are one total order: what the
\* repository takes for the newest is never refused as older.
VersionsOrdered ==
    vers # <<>> =>
        LET a == vers[1] b == vers[2] c == vers[3]
        IN /\ repo64_vercmp(a, b) = -repo64_vercmp(b, a)
           /\ repo64_vercmp(a, b) = 0 <=> a = b
           /\ repo64_vercmp(a, b) <= 0 /\ repo64_vercmp(b, c) <= 0 => repo64_vercmp(a, c) <= 0
           /\ pkg_ver_cmp(a, b) = repo64_vercmp(a, b)

\* The names a package reaches through declared dependencies.
Needs(n) == {d.name : d \in ToSet(dep_meta[n].deps)}
Closure(S, next(_)) ==
    LET reach[k \in 0 .. Cardinality(PkgNames)] ==
            IF k = 0 THEN S ELSE reach[k - 1] \cup UNION {next(m) : m \in reach[k - 1]}
    IN reach[Cardinality(PkgNames)]
InOrder(out, next(_)) ==
    /\ IsInjective(out)
    /\ \A i \in 1 .. Len(out) : next(out[i]) \subseteq {out[j] : j \in 1 .. i - 1}

\* A solution lists every package once, after all it depends on, ends with the
\* package asked for, and meets every version constraint on the way.
SolveSound ==
    \A n \in PkgNames :
        LET r == depsolve64_solve(n)
        IN r.rc = 0 => /\ InOrder(r.out, Needs)
                       /\ Last(r.out) = n
                       /\ \A m \in ToSet(r.out) : \A d \in ToSet(dep_meta[m].deps) : Satisfied(d)

\* A package whose dependencies can all be met and have no cycle is solved: a
\* shared dependency is no cycle.
SolveComplete ==
    \A n \in PkgNames :
        LET all == Closure({n}, Needs)
        IN /\ \A m \in all : \A d \in ToSet(dep_meta[m].deps) : Satisfied(d)
           /\ \A m \in all : m \notin Closure(Needs(m), Needs)
           => depsolve64_solve(n).rc = 0

\* A start plan starts what a target wants before the target, each once, and
\* is refused only for a cycle.
PlanSound ==
    \A t \in PkgNames :
        LET r == boottarget64_plan(t)
            wants(x) == ToSet(targets[x].wants)
            cyclic == \E m \in Closure({t}, wants) : m \in Closure(wants(m), wants)
        IN IF r.rc = 0 THEN InOrder(r.out, wants) /\ Last(r.out) = t ELSE cyclic

Names(db) == {db[i].name : i \in Taken(db)}
\* A rollback leaves the database as the transaction found it.
RollbackRestores ==
    [txn64_rollback => txn_db' = txn_before]_txnVars

\* After a commit the last operation on a package decides, if the table had
\* room for all of them, and other packages are as they were.
CommitDecides ==
    [(txn64_commit /\ Cardinality(Names(txn_db) \cup {o.name : o \in ToSet(txn_ops)}) <= TXN64_MAX_DB)
     => \A n \in PkgNames :
          LET mine == {i \in 1 .. Len(txn_ops) : txn_ops[i].name = n}
              now == txn64_find(txn_db', n)
              was == txn64_find(txn_db, n)
          IN IF mine = {} THEN (now = 0) = (was = 0) /\ (now # 0 => txn_db'[now] = txn_db[was])
             ELSE IF txn_ops[Max(mine)].kind = "remove" THEN now = 0
             ELSE now # 0 /\ txn_db'[now].ver = txn_ops[Max(mine)].ver]_txnVars

\* A package is installed in one entry, and without a removal its version only
\* goes up.
NoDowngrade ==
    [\A n \in PkgNames :
       /\ Cardinality(Installed(n)') <= 1
       /\ pkg_seen[n] # <<>> /\ pkg_seen'[n] # <<>> => pkg_ver_cmp(pkg_seen'[n], pkg_seen[n]) >= 0]_pkgVars

\* Updates that are applied side by side are in no two versions of a package
\* that upd_ver_cmp() tells apart, whatever was staged around them.
AppliedCompatible ==
    \A x, y \in {u \in ToSet(upd_tab) : u.applied} : x.name = y.name => upd_ver_cmp(x.ver, y.ver) = 0

\* An update that counts as signed was signed, in that version, with a key
\* that is registered.
SignedByKey ==
    \A e \in sec_tab : \E k \in sec_keys : e.sig = secupd_mac(e.n, e.ver, k)

\* A file a package is accepted with lies inside the package.
FilesInside ==
    pkg_file.files # <<>> /\ pkg_file.rc = 0 =>
        \A f \in ToSet(pkg_file.files) : f.offset + f.size <= pkg_file.len

\* The boot loader is installed only when every byte announced was copied.
CopiedBeforeBoot == fw.step \in {"bootloader", "done"} => fw.copied = fw.total
==============================
