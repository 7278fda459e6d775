---------------------------- MODULE DynamicLinker ---------------------------
(***************************************************************************)
(* The run-time loader of user programs (user/dl.c): shared objects are    *)
(* mapped, their dependencies loaded first, their relocations resolved in  *)
(* the scope of everything loaded, and their thread-local storage laid out *)
(* in one block per thread.                                                *)
(*                                                                         *)
(* A shared object is what its file holds: whether the headers and the     *)
(* dynamic table are sound, the names it defines (the hash table is the    *)
(* set it answers for), its relocations and its PT_TLS segment.  dl_open() *)
(* calls itself for each DT_NEEDED entry: `calls' is its stack, innermost  *)
(* last, and a step runs to the next nested call or return.  A mapped      *)
(* region is named for what it holds; mmap fails when DlRegions are        *)
(* mapped.  Names are shorter than the 23 characters a handle keeps.       *)
(***************************************************************************)
EXTENDS Tables64

CONSTANTS
    DL_MAX, DL_COPY_MAX,
    DlFiles,        \* path -> shared object; other paths do not exist
    DlPaths,        \* the paths programs ask for
    DlModes,        \* the mode flags they use
    DlNames,        \* the names the program may export
    DlThreads,      \* "main" and others
    DlRegions,      \* bound on mapped regions
    DlLoads,        \* bound on loads
    DlRefs          \* bound on the times a program holds one object

ASSUME DlAssumption ==
    /\ DL_MAX \in Nat \ {0} /\ DL_COPY_MAX \in Nat /\ DlRegions \in Nat
    /\ DlLoads \in Nat /\ DlRefs \in Nat /\ "main" \in DlThreads
    /\ \A p \in DOMAIN DlFiles : DlFiles[p].align > 0 /\ DlFiles[p].need \in Seq(STRING)

VARIABLES
    handles, dl_seq,
    calls,              \* the dl_open_mode() calls under way
    dl_copies,          \* the names that have a copy
    dl_user_exports,
    tls_mod_off, tls_total, tls_main,
    tlsreg,             \* thread -> its block, as SYS_TLS_SET left it
    tls_gone,           \* blocks unmapped while a register names them (history)
    dl_mapped,
    dl_held             \* path -> opens the program has not closed
dlTables == <<handles, dl_seq, dl_copies>>
dlTls == <<tls_mod_off, tls_total, tls_main, tlsreg, tls_gone>>
dlVars == <<dlTables, calls, dl_user_exports, dlTls, dl_mapped, dl_held>>

DlSlots == 1 .. DL_MAX
NoHandle == [used |-> FALSE, refs |-> 0, name |-> "", global |-> FALSE, seq |-> 0,
             got |-> <<>>, plt |-> <<>>, started |-> FALSE]
NoBlock == [id |-> 0, size |-> 0, off |-> [s \in DlSlots |-> 0]]
Loaded == {s \in DlSlots : handles[s].used}
SoFile(s) == DlFiles[handles[s].name]
OpenFrame == Last(calls)

dlInit ==
    /\ handles = [s \in DlSlots |-> NoHandle]
    /\ dl_seq = 0
    /\ calls = <<>>
    /\ dl_copies = {}
    /\ dl_user_exports = {}
    /\ tls_mod_off = [s \in DlSlots |-> 0]
    /\ tls_total = 0
    /\ tls_main = NoBlock
    /\ tlsreg = [t \in DlThreads |-> NoBlock]
    /\ tls_gone = {}
    /\ dl_mapped = {}
    /\ dl_held = [p \in DlPaths |-> 0]

------------------------------
(* Resolution.                                                             *)

Module(seq) == [to |-> "module", seq |-> seq]
Unresolved == [to |-> "none", seq |-> 0]

dl_handle_lookup(s, name) == handles[s].used /\ name \in SoFile(s).defs

\* dl_scope_search(): copies, exports, then the other objects, global ones
\* first and of each kind the last loaded first.
dl_scope_search(copies, self, name) ==
    LET found == {s \in DlSlots \ {self} : dl_handle_lookup(s, name)}
        global == {s \in found : handles[s].global}
        among == IF global # {} THEN global ELSE found
    IN IF name \in copies THEN [to |-> "copy", seq |-> 0]
       ELSE IF name \in dl_user_exports THEN [to |-> "program", seq |-> 0]
       ELSE IF found = {} THEN Unresolved
       ELSE Module(Max({handles[s].seq : s \in among}))

\* dl_sym_by_idx(): an object's own definition, null for a weak name, or the
\* scope.
dl_sym_by_idx(copies, s, rel) ==
    IF rel.sym \in SoFile(s).defs THEN Module(handles[s].seq)
    ELSE IF rel.weak THEN [to |-> "null", seq |-> 0]
    ELSE dl_scope_search(copies, s, rel.sym)

------------------------------
(* Thread-local storage.                                                   *)

AlignUp(n, al) == ((n + al - 1) \div al) * al
HasTls(tab, s) == tab[s].used /\ DlFiles[tab[s].name].memsz > 0

\* tls_layout_rebuild(): the objects that are left, in the order of the table.
LayoutAfter(tab) ==
    FoldLeft(LAMBDA l, s :
                IF ~HasTls(tab, s) THEN l
                ELSE LET off == AlignUp(l.total, DlFiles[tab[s].name].align)
                     IN [off |-> [l.off EXCEPT ![s] = off],
                         total |-> off + DlFiles[tab[s].name].memsz],
             [off |-> tls_mod_off, total |-> 0], [s \in DlSlots |-> s])

\* tls_block_make(): a region of the whole layout, rounded up to 16.
BlockIds == {b.id : b \in {tls_main} \cup {tlsreg[t] : t \in DlThreads}}
tls_block_make(off, total, ids) ==
    [id |-> Min((1 .. DlRegions + Cardinality(DlThreads) + 2) \ ids),
     size |-> AlignUp(total, 16), off |-> off]
Room(regions, n) == Cardinality(regions) + n <= DlRegions

TlsIds == {r[2] : r \in {x \in dl_mapped : x[1] = "tls"}} \cup BlockIds

\* tls_main_drop() unmaps the main block and leaves the register of the thread
\* that has it as it is: the register dangles until the thread is given another.
WithoutMain(regions) == regions \ {<<"tls", tls_main.id>>}

tls_main_drop(main) == NoBlock

InRegister(reg) == {reg[t].id : t \in DlThreads} \ {0}
Gone(reg) == (tls_gone \cup {tls_main.id}) \cap InRegister(reg)

\* dl_tls_main(): the block of the main thread, made when first asked for.
dl_tls_main(t) ==
    /\ tls_main.id = 0
    /\ tls_total > 0
    /\ Room(dl_mapped, 1)
    /\ \E b \in {tls_block_make(tls_mod_off, tls_total, TlsIds)} :
          /\ tls_main' = b
          /\ tlsreg' = [tlsreg EXCEPT ![t] = b]
          /\ tls_gone' = tls_gone \cap InRegister(tlsreg')
          /\ dl_mapped' = dl_mapped \cup {<<"tls", b.id>>}

\* ___tls_get_addr() by a thread that has no block.
tls_get_addr(t) ==
    /\ calls = <<>>
    /\ tlsreg[t].id = 0
    /\ dl_tls_main(t)
    /\ UNCHANGED <<dlTables, calls, dl_user_exports, tls_mod_off, tls_total, dl_held>>

\* dl_tls_new(): a thread takes a block of its own; the one it had is not
\* given back.
dl_tls_new(t) ==
    /\ calls = <<>>
    /\ tls_total > 0
    /\ Room(dl_mapped, 1)
    /\ \E b \in {tls_block_make(tls_mod_off, tls_total, TlsIds)} :
          /\ tlsreg' = [tlsreg EXCEPT ![t] = b]
          /\ tls_gone' = tls_gone \cap InRegister(tlsreg')
          /\ dl_mapped' = dl_mapped \cup {<<"tls", b.id>>}
    /\ UNCHANGED <<dlTables, calls, dl_user_exports, tls_mod_off, tls_total, tls_main, dl_held>>

------------------------------
(* dl_open_mode().                                                         *)

\* A failed call makes its caller fail in turn.
Failing(stack) ==
    IF stack = <<>> THEN stack ELSE [stack EXCEPT ![Len(stack)].failed = TRUE]

RegionsOf(s) == {<<k, handles[s].seq>> : k \in {"map", "init", "lazy"}}
Image(stack) == <<"img", Len(stack)>>

\* Whether the dynamic table names a symbol, string and hash table that lie in
\* the mapping, and relocations that do.
DynamicSound(f) == f.image = "good"

\* The handle of a new object.
Placed(path, mode) ==
    [NoHandle EXCEPT !.used = TRUE, !.refs = 1, !.name = path,
                     !.global = mode.global, !.seq = dl_seq]

\* The part up to the dependencies: read the file, check it, take a slot, map
\* the segments and the initial TLS data, scan the dynamic table.  The load
\* number is spent once the slot is.
dl_open_mode(path, mode, stack) ==
    LET slot == FirstFree(handles)
        f == DlFiles[path]
        regions == {<<"img", Len(stack) + 1>>, <<"map", dl_seq>>}
                      \cup (IF f.filesz > 0 THEN {<<"init", dl_seq>>} ELSE {})
        opened == path \in DOMAIN DlFiles /\ Room(dl_mapped, 1) /\ f.image # "bad"
        placed == opened /\ slot # 0 /\ Room(dl_mapped, 2)
    IN /\ dl_seq' = IF placed THEN dl_seq + 1 ELSE dl_seq
       /\ IF placed /\ Room(dl_mapped, Cardinality(regions)) /\ DynamicSound(f)
          THEN /\ handles' = [handles EXCEPT ![slot] = Placed(path, mode)]
               /\ dl_mapped' = dl_mapped \cup regions
               /\ calls' = Append(stack, [slot |-> slot, path |-> path, mode |-> mode,
                                          dj |-> 1, failed |-> FALSE])
          ELSE /\ calls' = Failing(stack)
               /\ UNCHANGED <<handles, dl_mapped>>
       /\ UNCHANGED <<dl_copies, dl_user_exports, dlTls>>

\* The program opens an object that is loaded already ...
dl_again(path) ==
    \E s \in Loaded :
       /\ handles[s].name = path
       /\ handles' = [handles EXCEPT ![s].refs = @ + 1]
       /\ dl_held' = [dl_held EXCEPT ![path] = @ + 1]
       /\ UNCHANGED <<dl_seq, dl_copies, calls, dl_user_exports, dlTls, dl_mapped>>

\* ... or one that is not.
dl_open(path, mode) ==
    /\ calls = <<>>
    /\ dl_held[path] < DlRefs
    /\ \/ dl_again(path)
       \/ /\ \A s \in Loaded : handles[s].name # path
          /\ dl_seq < DlLoads
          /\ dl_open_mode(path, mode, calls)
          /\ UNCHANGED dl_held

\* As NeedsDone, a bug: the relocations need not wait for the dependencies.
NeedsTried == TRUE
NeedsDone == OpenFrame.dj > Len(SoFile(OpenFrame.slot).need)

\* The next DT_NEEDED entry: skipped for the object itself and for what is
\* loaded, which is not counted again.
dl_need ==
    /\ calls # <<>> /\ ~OpenFrame.failed
    /\ OpenFrame.dj <= Len(SoFile(OpenFrame.slot).need)
    /\ \E dep \in {SoFile(OpenFrame.slot).need[OpenFrame.dj]},
          next \in {[calls EXCEPT ![Len(calls)].dj = @ + 1]} :
          IF \E s \in Loaded : handles[s].name = dep
          THEN /\ calls' = next
               /\ UNCHANGED <<dlTables, dl_user_exports, dlTls, dl_mapped>>
          ELSE dl_open_mode(dep, OpenFrame.mode, next)
    /\ UNCHANGED dl_held

\* dl_apply_rel(), one relocation that names a symbol.  The others need only
\* the object's own place.
ApplyRel(s, r, rel) ==
    LET copy == [to |-> "copy", seq |-> 0]
        b == dl_sym_by_idx(r.copies, s, rel)
    IN IF ~r.ok THEN r
       ELSE IF rel.type # "copy" THEN [r EXCEPT !.ok = b.to # "none", !.got = Append(@, b)]
       ELSE IF rel.sym \in r.copies THEN [r EXCEPT !.got = Append(@, copy)]
       ELSE IF ~Room(r.regions, 1) \/ Cardinality(r.copies) = DL_COPY_MAX
       THEN [r EXCEPT !.ok = FALSE]
       ELSE [r EXCEPT !.copies = @ \cup {rel.sym},
                      !.regions = @ \cup {<<"copy", rel.sym>>},
                      !.got = Append(@, copy)]

dl_apply_rel(s) ==
    FoldLeft(LAMBDA r, rel : ApplyRel(s, r, rel),
             [ok |-> TRUE, got |-> <<>>, copies |-> dl_copies, regions |-> dl_mapped],
             SoFile(s).rel \o SoFile(s).plt)

\* What the PLT entries are bound to: each to its trampoline, or to its target.
PltBound(f, mode, got) ==
    [i \in 1 .. Len(f.plt) |-> IF mode.lazy THEN [to |-> "lazy", seq |-> 0] ELSE got[Len(f.rel) + i]]

\* The object is bound and its initialisers have run.
Started(s, plt, got) == [handles EXCEPT ![s].started = TRUE, ![s].plt = plt, ![s].got = got]

TlsPlace(f) == AlignUp(tls_total, f.align)

\* After the dependencies: the TLS offset, the relocations, a trampoline for
\* every PLT entry of a lazy object, the initialisers, the main TLS block.
dl_finish ==
    /\ calls # <<>> /\ ~OpenFrame.failed
    /\ NeedsDone
    /\ \E s \in {OpenFrame.slot} : \E f \in {SoFile(s)}, r \in {dl_apply_rel(s)} :
       LET lazy == OpenFrame.mode.lazy /\ f.plt # <<>>
           ok == r.ok /\ (lazy => Room(r.regions, 1))
           regions == IF lazy THEN r.regions \cup {<<"lazy", handles[s].seq>>} ELSE r.regions
           off == IF f.memsz > 0 THEN [tls_mod_off EXCEPT ![s] = TlsPlace(f)] ELSE tls_mod_off
           total == IF f.memsz > 0 THEN TlsPlace(f) + f.memsz ELSE tls_total
           block == tls_block_make(off, total, TlsIds \ {tls_main.id})
           room == Room(WithoutMain(regions), 1)
       IN /\ dl_copies' = r.copies
          /\ tls_mod_off' = off
          /\ tls_total' = total
          /\ IF ~ok
             THEN /\ calls' = Failing(calls)
                  /\ dl_mapped' = r.regions
                  /\ UNCHANGED <<handles, tls_main, tlsreg, tls_gone, dl_held>>
             ELSE /\ handles' = Started(s, PltBound(f, OpenFrame.mode, r.got), SubSeq(r.got, 1, Len(f.rel)))
                  /\ calls' = Front(calls)
                  /\ IF f.memsz = 0
                     THEN /\ dl_mapped' = regions \ {Image(calls)}
                          /\ UNCHANGED <<tls_main, tlsreg, tls_gone>>
                     ELSE IF ~room
                     THEN /\ tls_main' = tls_main_drop(tls_main)
                          /\ dl_mapped' = WithoutMain(regions) \ {Image(calls)}
                          /\ tls_gone' = Gone(tlsreg)
                          /\ UNCHANGED tlsreg
                     ELSE /\ tls_main' = block
                          /\ tlsreg' = [tlsreg EXCEPT !["main"] = block]
                          /\ tls_gone' = Gone(tlsreg')
                          /\ dl_mapped' = (WithoutMain(regions) \ {Image(calls)})
                                             \cup {<<"tls", block.id>>}
                  /\ dl_held' = IF Len(calls) > 1 THEN dl_held
                                ELSE [dl_held EXCEPT ![OpenFrame.path] = @ + 1]
    /\ UNCHANGED <<dl_seq, dl_user_exports>>

\* An object leaves the table: the layout is made again for the others.
Unloaded(s) ==
    \E tab \in {[handles EXCEPT ![s] = NoHandle]} :
    \E l \in {LayoutAfter(tab)} :
       /\ handles' = tab
       /\ tls_mod_off' = [l.off EXCEPT ![s] = 0]
       /\ tls_total' = l.total
       /\ tls_main' = tls_main_drop(tls_main)
       /\ tls_gone' = Gone(tlsreg)
       /\ UNCHANGED <<dl_seq, dl_copies, dl_user_exports, tlsreg>>

\* As dl_fail, a bug: the initial TLS data of the failed object stays mapped.
dl_failLeaking ==
    /\ calls # <<>> /\ OpenFrame.failed
    /\ Unloaded(OpenFrame.slot)
    /\ dl_mapped' = WithoutMain(dl_mapped) \ {Image(calls), <<"map", handles[OpenFrame.slot].seq>>}
    /\ calls' = Failing(Front(calls))
    /\ UNCHANGED dl_held

\* fail_lazy, fail_need and fail_rel: what was mapped for the object goes; its
\* dependencies and the copies it made stay.
dl_fail ==
    /\ calls # <<>> /\ OpenFrame.failed
    /\ Unloaded(OpenFrame.slot)
    /\ dl_mapped' = WithoutMain(dl_mapped) \ (RegionsOf(OpenFrame.slot) \cup {Image(calls)})
    /\ calls' = Failing(Front(calls))
    /\ UNCHANGED dl_held

\* dl_close() of an object the program holds.
dl_close(s) ==
    /\ calls = <<>>
    /\ handles[s].used
    /\ handles[s].name \in DlPaths
    /\ dl_held[handles[s].name] > 0
    /\ dl_held' = [dl_held EXCEPT ![handles[s].name] = @ - 1]
    /\ IF handles[s].refs > 1
       THEN /\ handles' = [handles EXCEPT ![s].refs = @ - 1]
            /\ UNCHANGED <<dl_seq, dl_copies, dl_user_exports, dlTls, dl_mapped>>
       ELSE /\ Unloaded(s)
            /\ dl_mapped' = WithoutMain(dl_mapped) \ RegionsOf(s)
    /\ UNCHANGED calls

\* dl_register_export() of a new name.
dl_register_export(name) ==
    /\ calls = <<>>
    /\ name \notin dl_user_exports
    /\ dl_user_exports' = dl_user_exports \cup {name}
    /\ UNCHANGED <<dlTables, calls, dlTls, dl_mapped, dl_held>>

\* The first call through a trampoline: dl_lazy_resolve() finds the target and
\* dl_lazy_dispatch() writes it over the trampoline.  A name that is gone by
\* then halts the program.
dl_lazy_resolve(s, k) ==
    /\ calls = <<>>
    /\ handles[s].plt[k].to = "lazy"
    /\ \E b \in {dl_sym_by_idx(dl_copies, s, SoFile(s).plt[k])} :
          /\ b.to # "none"
          /\ handles' = [handles EXCEPT ![s].plt[k] = b]
    /\ UNCHANGED <<dl_seq, dl_copies, calls, dl_user_exports, dlTls, dl_mapped, dl_held>>

dlNext ==
    \/ \E p \in DlPaths, m \in DlModes : dl_open(p, m)
    \/ dl_need
    \/ dl_finish
    \/ dl_fail
    \/ \E s \in DlSlots : dl_close(s)
    \/ \E n \in DlNames : dl_register_export(n)
    \/ \E s \in Loaded : \E k \in 1 .. Len(handles[s].plt) : dl_lazy_resolve(s, k)
    \/ \E t \in DlThreads : tls_get_addr(t)
    \/ \E t \in DlThreads \ {"main"} : dl_tls_new(t)

dlSpec == dlInit /\ [][dlNext]_dlVars

------------------------------

AtRest == calls = <<>>

\* Between two calls what is mapped, the TLS blocks aside, is what the loaded
\* objects and the copies need: no failure path and no close forgets a region,
\* and none unmaps one that a loaded object uses.
NothingLeaks ==
    AtRest =>
      {r \in dl_mapped : r[1] # "tls"} =
          {<<"map", handles[s].seq>> : s \in Loaded}
          \cup {<<"init", handles[s].seq>> : s \in {t \in Loaded : SoFile(t).filesz > 0}}
          \cup {<<"lazy", handles[s].seq>> :
                  s \in {t \in Loaded : <<"lazy", handles[t].seq>> \in dl_mapped}}
          \cup {<<"copy", n>> : n \in dl_copies}

\* The TLS blocks of the loaded objects are apart, aligned and within the
\* total, whatever was loaded, failed or closed in between.
TlsApart ==
    AtRest =>
      \A s \in {t \in Loaded : SoFile(t).memsz > 0} :
         /\ tls_mod_off[s] % SoFile(s).align = 0
         /\ tls_mod_off[s] + SoFile(s).memsz <= tls_total
         /\ \A t \in {u \in Loaded : SoFile(u).memsz > 0} \ {s} :
               \/ tls_mod_off[s] + SoFile(s).memsz <= tls_mod_off[t]
               \/ tls_mod_off[t] + SoFile(t).memsz <= tls_mod_off[s]

\* The main TLS block has the present layout and is mapped.
TlsMainFits ==
    (AtRest /\ tls_main.id # 0) =>
      /\ <<"tls", tls_main.id>> \in dl_mapped
      /\ tls_main.size >= tls_total
      /\ \A s \in {t \in Loaded : SoFile(t).memsz > 0} : tls_main.off[s] = tls_mod_off[s]

\* A block that a thread's register names is mapped, unless tls_main_drop()
\* unmapped it (dl.c:546-552).
TlsInUseMapped ==
    AtRest =>
      \A t \in DlThreads :
         tlsreg[t].id # 0 =>
            \/ <<"tls", tlsreg[t].id>> \in dl_mapped
            \/ tlsreg[t].id \in tls_gone

\* Without the exception the code breaks it: dl_close(), a load that fails and
\* a load of a TLS object that cannot make the block again call
\* tls_main_drop(), which unmaps the main block and does not clear the register
\* (dl.c:891, 908, 1031), and ___tls_get_addr() then uses the dead address.
TlsRegMapped == AtRest => tls_gone = {}

\* What the program opened and has not closed is loaded.
LoadedWhileHeld ==
    \A p \in DlPaths :
       dl_held[p] > 0 => \E s \in Loaded : handles[s].name = p /\ handles[s].refs >= dl_held[p]

\* The initialisers of an object run after those of its dependencies, but for
\* dependencies that wait for it in turn.
DependenciesFirst ==
    [\A s \in Loaded :
        (handles'[s].started /\ ~handles[s].started) =>
           \A d \in ToSet(SoFile(s).need) :
              \E t \in Loaded : /\ handles[t].name = d
                                /\ \/ handles[t].started
                                   \/ \E i \in DOMAIN calls : calls[i].slot = t]_dlVars

\* Everything a loaded object is bound to is loaded.
LoadedWhileBound ==
    AtRest =>
      \A s \in Loaded : \A b \in ToSet(handles[s].got) :
         b.to = "module" => \E t \in Loaded : handles[t].seq = b.seq

==============================
