------------------------------- MODULE DiskFS -------------------------------
(***************************************************************************)
(* The disk file system (kernel/fs/diskfs.c).  Every operation decides     *)
(* from what it reads and then writes sectors one after another: a bitmap  *)
(* sector, a data sector, or the one or two sectors an inode lies in.      *)
(* dfs_todo holds the writes an operation still has to do, so power may    *)
(* fail, and a write may fail, between any two of them.                    *)
(*                                                                         *)
(* A path is a sequence of components.  A file is a number of whole blocks *)
(* and every block of one call carries the same content.                   *)
(* dfs_want, dfs_leaky and dfs_torn are history variables: what each file  *)
(* should hold, whether an operation was cut short, and whether one that   *)
(* was changing an inode in use was, or a bitmap write was lost.           *)
(***************************************************************************)
EXTENDS Integers, SequencesExt, FiniteSetsExt

CONSTANTS
    DfsPaths,     \* the paths programs use
    DfsContents,  \* what they write
    DfsInodes,    \* 1 .. inode_count
    DfsCrossing,  \* the inodes that lie across two sectors
    DfsSectors,   \* data_start .. total_sectors - 1
    DfsBlocks,    \* DISKFS_DATABLOCKS
    JournalImage, \* a block that looks like a journal header in order
    DfsFaults,    \* which writes may fail, "power" for the whole machine
    MaxFaults     \* bound on the faults of one behaviour

ASSUME DfsAssumption ==
    /\ DfsSectors \subseteq Nat \ {0} /\ DfsInodes \subseteq Nat
    /\ DfsCrossing \subseteq DfsInodes
    /\ DfsBlocks \in Nat \ {0} /\ MaxFaults \in Nat
    /\ DfsFaults \subseteq {"power", "data", "inode", "bmap"}

VARIABLES
    dfs_super,    \* sector 0 carries the magic
    dfs_meta,     \* the bits of the metadata sectors are set
    dfs_bmap,     \* the data sectors marked in the bitmap
    dfs_itab,     \* the inode table
    dfs_data,     \* the data sectors
    mounted,
    dfs_todo,     \* the sector writes left of the operation at work
    dfs_call,     \* that operation
    dfs_want, dfs_leaky, dfs_torn, dfs_faults

diskVars == <<dfs_super, dfs_meta, dfs_bmap, dfs_itab, dfs_data>>
dfsVars == <<diskVars, mounted, dfs_todo, dfs_call, dfs_want, dfs_leaky, dfs_torn, dfs_faults>>

NoPath == << >>
Holds(k, d) == [kind |-> k, is |-> d]
Absent == Holds("absent", << >>)
NoDfsCall == [path |-> NoPath, want |-> Absent, inuse |-> FALSE]
NoBlocks == [b \in 1 .. DfsBlocks |-> 0]

\* An inode cleared with memset().
FreeInode == [name |-> NoPath, size |-> 0, blocks |-> NoBlocks, used |-> FALSE, ftype |-> "file"]

\* What a caller of dfile_write() expects to read: n blocks of content c.
FileOf(c, n) == Holds("file", [k \in 1 .. n |-> c])
EmptyFile == Holds("file", << >>)

Used(i) == dfs_itab[i].used
BlocksOf(in) == {in.blocks[b] : b \in 1 .. DfsBlocks} \ {0}
Idle0 == mounted /\ dfs_todo = << >>

\* ifind(): 0 when no inode in use has the name.
ifind(path) ==
    LET hits == {i \in DfsInodes : Used(i) /\ dfs_itab[i].name = path}
    IN IF hits = {} THEN 0 ELSE Min(hits)

\* The first inode that is not in use, 0 for none.
FirstFreeInode ==
    LET free == {i \in DfsInodes : ~Used(i)} IN IF free = {} THEN 0 ELSE Min(free)

\* df_has_children(): some other name continues the path.
df_has_children(path) ==
    \E i \in DfsInodes : Used(i) /\ IsStrictPrefix(path, dfs_itab[i].name)

------------------------------
(* Sector writes, and the lists of them that the helpers issue.            *)

BmapWrite(s, v) == [to |-> "bmap", sec |-> s, val |-> v]
DataWrite(s, c, undo) == [to |-> "data", sec |-> s, val |-> c, undo |-> undo]
InodeWrite(i, in, part) == [to |-> "inode", sec |-> i, val |-> in, part |-> part]

\* iput(): an inode that crosses a sector boundary takes two writes.
iput(i, in) ==
    IF i \in DfsCrossing
    THEN <<InodeWrite(i, in, "head"), InodeWrite(i, in, "tail")>>
    ELSE <<InodeWrite(i, in, "both")>>

\* Releasing the blocks of an inode, in the order of blocks[].
Release(blocks) ==
    LET held == SelectSeq([b \in 1 .. DfsBlocks |-> blocks[b]], LAMBDA s : s # 0)
    IN [k \in 1 .. Len(held) |-> BmapWrite(held[k], FALSE)]

\* balloc() n times over a bitmap: the lowest free sectors.
balloc(bmap, n) ==
    LET free == SetToSortSeq(DfsSectors \ bmap, <)
    IN SubSeq(free, 1, Min({n, Len(free)}))

\* The label wfail of dfile_write(): give back the k blocks, empty the inode.
wfail(i, in, secs, k) ==
    [j \in 1 .. k |-> BmapWrite(secs[j], FALSE)]
        \o iput(i, [in EXCEPT !.blocks = NoBlocks, !.size = 0])

\* The loop of dfile_write(): a block is marked, then written.
Fill(i, in, secs, c) ==
    FlattenSeq([k \in 1 .. Len(secs) |->
        <<BmapWrite(secs[k], TRUE),
          DataWrite(secs[k], c, <<BmapWrite(secs[k], FALSE)>> \o wfail(i, in, secs, k - 1))>>])

\* As WriteList, a bug: the inode is written before the blocks are marked.
WriteListInodeFirst(i, in, c, n) ==
    LET held == BlocksOf(in)
        clean == [in EXCEPT !.blocks = NoBlocks]
        secs == balloc(dfs_bmap \ held, n)
        full == [clean EXCEPT !.size = n,
                    !.blocks = [b \in 1 .. DfsBlocks |-> IF b <= Len(secs) THEN secs[b] ELSE 0]]
    IN Release(in.blocks)
        \o (IF Len(secs) = n THEN iput(i, full) \o Fill(i, clean, secs, c)
                             ELSE wfail(i, clean, secs, 0))

\* All writes of dfile_write(): n blocks of content c into inode i, whose
\* copy in memory is in and whose old blocks are released first.
WriteList(i, in, c, n) ==
    LET held == BlocksOf(in)
        clean == [in EXCEPT !.blocks = NoBlocks]
        secs == balloc(dfs_bmap \ held, n)
        full == [clean EXCEPT !.size = n,
                    !.blocks = [b \in 1 .. DfsBlocks |-> IF b <= Len(secs) THEN secs[b] ELSE 0]]
    IN Release(in.blocks) \o Fill(i, clean, secs, c)
        \o (IF Len(secs) = n THEN iput(i, full) ELSE wfail(i, clean, secs, Len(secs)))

------------------------------

\* journal_lba(): the last sector but one, which balloc() hands out like any
\* other.  Nothing calls journal_start().
journal_lba == Max(DfsSectors) - 1
journal_has_op == dfs_data[journal_lba] = JournalImage

\* diskfs_recover(): journal_commit() clears the sector; df_check() only says
\* what it finds.
diskfs_recover == IF journal_has_op THEN <<[to |-> "journal"]>> ELSE << >>

\* A disk that was never formatted, all zero.
DfsInit ==
    /\ dfs_super = FALSE /\ dfs_meta = FALSE
    /\ dfs_bmap = {}
    /\ dfs_itab = [i \in DfsInodes |-> FreeInode]
    /\ dfs_data = [s \in DfsSectors |-> 0]
    /\ mounted = FALSE
    /\ dfs_todo = << >> /\ dfs_call = NoDfsCall
    /\ dfs_want = [p \in DfsPaths |-> Absent]
    /\ dfs_leaky = FALSE /\ dfs_torn = FALSE /\ dfs_faults = 0

\* diskfs_mount(): sector 0 carries the magic.
diskfs_mount == dfs_super

\* diskfs_format(): the superblock, the bitmap, then the inode table.
diskfs_format ==
    <<[to |-> "super"], [to |-> "meta"]>>
        \o [i \in 1 .. Cardinality(DfsInodes) |->
                InodeWrite(SetToSortSeq(DfsInodes, <)[i], FreeInode, "both")]

\* diskfs_boot(): mount and look at the journal, or format.
diskfs_boot ==
    /\ ~mounted /\ dfs_todo = << >>
    /\ IF diskfs_mount
       THEN mounted' = TRUE /\ dfs_todo' = diskfs_recover
       ELSE dfs_todo' = diskfs_format /\ UNCHANGED mounted
    /\ UNCHANGED <<diskVars, dfs_call, dfs_want, dfs_leaky, dfs_torn, dfs_faults>>

\* An operation starts: it has the writes of w ahead, and a caller who will
\* see the file as want once it has returned.
Begin(path, want, inuse, w) ==
    /\ dfs_todo' = w
    /\ dfs_call' = [path |-> path, want |-> want, inuse |-> inuse]
    /\ UNCHANGED <<diskVars, mounted, dfs_want, dfs_leaky, dfs_torn, dfs_faults>>

\* dfile_write(): not over a directory, not without an inode.
dfile_write(path, c, n) ==
    LET at == ifind(path)
        i == IF at # 0 THEN at ELSE FirstFreeInode
        in == IF at # 0 THEN dfs_itab[at]
              ELSE [FreeInode EXCEPT !.name = path, !.used = TRUE]
        fits == Len(balloc(dfs_bmap \ BlocksOf(in), n)) = n
    IN /\ Idle0
       /\ i # 0
       /\ in.ftype = "file"
       /\ Begin(path, IF fits THEN FileOf(c, n) ELSE EmptyFile, at # 0, WriteList(i, in, c, n))

\* df_mkdir(): the root exists, an existing path is refused.
df_mkdir(path) ==
    /\ Idle0
    /\ ifind(path) = 0 /\ FirstFreeInode # 0
    /\ Begin(path, Holds("dir", << >>), FALSE,
             iput(FirstFreeInode, [FreeInode EXCEPT !.name = path, !.used = TRUE, !.ftype = "dir"]))

\* ifree_blocks(): release, then write the emptied inode.
ifree_blocks(i) ==
    Release(dfs_itab[i].blocks)
        \o iput(i, [dfs_itab[i] EXCEPT !.blocks = NoBlocks, !.size = 0])

\* df_truncate(): files only.
df_truncate(path) ==
    /\ Idle0
    /\ ifind(path) # 0
    /\ dfs_itab[ifind(path)].ftype = "file"
    /\ Begin(path, EmptyFile, TRUE, ifree_blocks(ifind(path)))

\* df_remove(): a directory with children is refused; the blocks are freed,
\* then the inode is cleared.
df_remove(path) ==
    /\ Idle0
    /\ ifind(path) # 0
    /\ ~(dfs_itab[ifind(path)].ftype = "dir" /\ df_has_children(path))
    /\ Begin(path, Absent, TRUE, ifree_blocks(ifind(path)) \o iput(ifind(path), FreeInode))

\* What one sector write does to the disk.
Written(w) ==
    /\ dfs_super' = (dfs_super \/ w.to = "super")
    /\ dfs_meta' = (dfs_meta \/ w.to = "meta")
    /\ dfs_bmap' = CASE w.to = "meta" -> {}
                     [] w.to = "bmap" -> IF w.val THEN dfs_bmap \cup {w.sec} ELSE dfs_bmap \ {w.sec}
                     [] OTHER -> dfs_bmap
    /\ dfs_data' = CASE w.to = "data" -> [dfs_data EXCEPT ![w.sec] = w.val]
                     [] w.to = "journal" -> [dfs_data EXCEPT ![journal_lba] = 0]
                     [] OTHER -> dfs_data
    /\ dfs_itab' = CASE w.to = "inode" /\ w.part = "both" -> [dfs_itab EXCEPT ![w.sec] = w.val]
                     [] w.to = "inode" /\ w.part = "head" ->
                            [dfs_itab EXCEPT ![w.sec] =
                                [w.val EXCEPT !.used = Used(w.sec), !.ftype = dfs_itab[w.sec].ftype,
                                              !.blocks[DfsBlocks] = dfs_itab[w.sec].blocks[DfsBlocks]]]
                     [] w.to = "inode" /\ w.part = "tail" -> [dfs_itab EXCEPT ![w.sec] = w.val]
                     [] OTHER -> dfs_itab

\* The operation has returned: the caller knows what the file holds.
Returned(want) ==
    /\ dfs_want' = IF dfs_call.path = NoPath THEN dfs_want ELSE [dfs_want EXCEPT ![dfs_call.path] = want]
    /\ dfs_call' = NoDfsCall
    /\ mounted' = TRUE

\* The next sector write succeeds; after the last one the operation returns.
DfsStep ==
    /\ dfs_todo # << >>
    /\ Written(Head(dfs_todo))
    /\ dfs_todo' = Tail(dfs_todo)
    /\ IF Len(dfs_todo) = 1 THEN Returned(dfs_call.want)
       ELSE UNCHANGED <<dfs_want, dfs_call, mounted>>
    /\ UNCHANGED <<dfs_leaky, dfs_torn, dfs_faults>>

\* An operation was cut short: its file, if it had one, is the casualty.
CutShort ==
    /\ dfs_leaky' = TRUE
    /\ dfs_torn' = (dfs_torn \/ dfs_call.inuse)
    /\ dfs_faults' = dfs_faults + 1

\* A data write fails: the undo of dfile_write() replaces the rest.
DataFails ==
    /\ "data" \in DfsFaults /\ dfs_faults < MaxFaults
    /\ dfs_todo # << >> /\ Head(dfs_todo).to = "data"
    /\ dfs_todo' = Head(dfs_todo).undo
    /\ dfs_call' = [dfs_call EXCEPT !.want = EmptyFile]
    /\ dfs_faults' = dfs_faults + 1
    /\ UNCHANGED <<diskVars, mounted, dfs_want, dfs_leaky, dfs_torn>>

\* An inode write fails: iput() returns and so does its caller.
InodeFails ==
    /\ "inode" \in DfsFaults /\ dfs_faults < MaxFaults
    /\ mounted /\ dfs_todo # << >> /\ Head(dfs_todo).to = "inode"
    /\ dfs_todo' = << >> /\ dfs_call' = NoDfsCall
    /\ CutShort
    /\ UNCHANGED <<diskVars, mounted, dfs_want>>

\* A bitmap write fails: bmap_set() says nothing and the caller goes on.
BmapFails ==
    /\ "bmap" \in DfsFaults /\ dfs_faults < MaxFaults
    /\ Len(dfs_todo) > 1 /\ Head(dfs_todo).to = "bmap"
    /\ dfs_todo' = Tail(dfs_todo)
    /\ dfs_leaky' = TRUE /\ dfs_torn' = TRUE
    /\ dfs_faults' = dfs_faults + 1
    /\ UNCHANGED <<diskVars, mounted, dfs_call, dfs_want>>

\* Power fails between two sector writes.
PowerFails ==
    /\ "power" \in DfsFaults /\ dfs_faults < MaxFaults
    /\ dfs_todo # << >>
    /\ mounted' = FALSE
    /\ dfs_todo' = << >> /\ dfs_call' = NoDfsCall
    /\ CutShort
    /\ UNCHANGED <<diskVars, dfs_want>>

DfsNext ==
    \/ diskfs_boot
    \/ \E p \in DfsPaths :
          \/ \E c \in DfsContents, n \in 0 .. DfsBlocks : dfile_write(p, c, n)
          \/ df_mkdir(p)
          \/ df_truncate(p)
          \/ df_remove(p)
    \/ DfsStep
    \/ DataFails
    \/ InodeFails
    \/ BmapFails
    \/ PowerFails

DfsSpec == DfsInit /\ [][DfsNext]_dfsVars

------------------------------
(* What the code itself calls a sound disk, and what a reader sees.        *)

\* df_check(): references marked, and as many of them as marked sectors.
df_check ==
    LET refs == {r \in DfsInodes \X (1 .. DfsBlocks) : Used(r[1]) /\ dfs_itab[r[1]].blocks[r[2]] # 0}
    IN /\ dfs_meta
       /\ \A r \in refs : dfs_itab[r[1]].blocks[r[2]] \in dfs_bmap
       /\ Cardinality(refs) = Cardinality(dfs_bmap)

\* dfile_read(): up to the first hole.
dfile_read(path) ==
    LET in == dfs_itab[ifind(path)]
        n == Min({b \in 1 .. DfsBlocks : in.blocks[b] = 0} \cup {in.size + 1}) - 1
    IN [k \in 1 .. n |-> dfs_data[in.blocks[k]]]

SharedSector ==
    \E i, j \in DfsInodes, a, b \in 1 .. DfsBlocks :
        /\ <<i, a>> # <<j, b>>
        /\ Used(i) /\ Used(j)
        /\ dfs_itab[i].blocks[a] # 0 /\ dfs_itab[i].blocks[a] = dfs_itab[j].blocks[b]

\* While no write was lost, a disk at rest passes df_check() and no sector
\* belongs to two files: releasing, reallocating, the undo after a full disk
\* or a failed data write and the clearing of inodes keep bitmap and inode
\* table together (diskfs.c dfile_write, df_remove, df_truncate).
FsckCleanAtRest == (Idle0 /\ ~dfs_leaky) => df_check /\ ~SharedSector

\* However often power or an inode write fails, as long as no operation on an
\* inode in use was cut short and no bitmap write got lost every file reads back what its last completed
\* operation left, and every block of every file is marked and its own: a
\* file is created by marking, filling and only then naming its blocks.
UntornFilesIntact ==
    (Idle0 /\ ~dfs_torn) =>
        /\ ~SharedSector
        /\ \A i \in DfsInodes : Used(i) => BlocksOf(dfs_itab[i]) \subseteq dfs_bmap
        /\ \A p \in DfsPaths :
              dfs_want[p] # Absent =>
                 /\ ifind(p) # 0
                 /\ dfs_want[p].kind = "file" => dfile_read(p) = dfs_want[p].is

\* "Double allocation is caught by the count" (diskfs.c, df_check): a disk
\* that passes df_check() has no sector in two files.
FsckSound == (Idle0 /\ df_check) => ~SharedSector
==============================
