-------------------------------- MODULE ChFS --------------------------------
(***************************************************************************)
(* The in-memory file system and the descriptor tables of the tasks        *)
(* (kernel/fs/chfs.c, fd_table_copy in kernel/process/task.c).  Sizes and  *)
(* offsets are in blocks.  Pipe ends and console entries are in Pipe; here *)
(* a descriptor names an inode.  System calls run one at a time, so every  *)
(* action is one call of one task.                                         *)
(*                                                                         *)
(* A descriptor holds an inode number and nothing tells the life of the    *)
(* inode it was opened in.  inode_life (a history variable) does: it       *)
(* counts how often the number was handed out, and the descriptor          *)
(* remembers the count.                                                    *)
(***************************************************************************)
EXTENDS Integers, FiniteSetsExt

CONSTANTS
    ChfsTasks, ChfsFds,
    ChfsNames,       \* the paths programs use for files,
    ChfsDirs,        \* and for directories
    ChfsOpeners,     \* the tasks whose programs open files; the others inherit
    ChfsInodes,      \* 0 .. FS_MAX_FILES - 1; 0 is the root
    ChfsBlocks,      \* 0 .. FS_MAX_BLOCKS - 1; 0 is the root's
    ChfsDataBlocks,  \* CHFS_DATABLOCKS
    MaxOpen,         \* bound on the descriptors open at one time
    MaxLife          \* bound on the files ever created

ASSUME ChfsAssumption ==
    /\ IsFiniteSet(ChfsTasks) /\ IsFiniteSet(ChfsFds)
    /\ {ChfsFds, ChfsInodes, ChfsBlocks} \subseteq SUBSET Nat
    /\ ChfsOpeners \subseteq ChfsTasks
    /\ 0 \in ChfsInodes /\ 0 \in ChfsBlocks
    /\ ChfsDataBlocks \in Nat \ {0} /\ MaxOpen \in Nat /\ MaxLife \in Nat

VARIABLES
    inode_used, inode_table, block_used,
    stored,          \* the block the last call wrote and the file it meant
    fd_table,        \* fd_table[t][fd]
    inode_life,
    miscounted       \* a descriptor of an earlier life was closed or copied in this one

chfsVars == <<inode_used, inode_table, block_used, stored, fd_table, inode_life, miscounted>>

NoFd == [valid |-> FALSE, ino |-> 0, life |-> 0, off |-> 0]
NoBlk == -1
NotStored == [blk |-> NoBlk, ino |-> 0, life |-> 0]
Blk == 0 .. ChfsDataBlocks - 1
Handles == ChfsTasks \X ChfsFds
Fd(h) == fd_table[h[1]][h[2]]
ZeroInode == [type |-> "none", size |-> 0, name |-> "", blocks |-> [b \in Blk |-> 0], ref |-> 0]

\* The first inode in use with the name, 0 .. ; NoBlk when there is none.
Lookup(path) ==
    LET hits == {i \in inode_used : inode_table[i].name = path}
    IN IF hits = {} THEN NoBlk ELSE Min(hits)

FreeBlocks == ChfsBlocks \ block_used
FreeInodes == ChfsInodes \ (inode_used \cup {0})

\* chfs_init(): the root directory owns block 0, and as its inode is cleared
\* with memset() every one of its block numbers is 0.
ChfsInit ==
    /\ inode_used = {0}
    /\ inode_table = [i \in ChfsInodes |->
          IF i = 0 THEN [ZeroInode EXCEPT !.type = "dir", !.size = 1, !.name = "/", !.ref = 1]
          ELSE ZeroInode]
    /\ block_used = {0}
    /\ stored = NotStored
    /\ fd_table = [t \in ChfsTasks |-> [f \in ChfsFds |-> NoFd]]
    /\ inode_life = [i \in ChfsInodes |-> 0]
    /\ miscounted = [i \in ChfsInodes |-> FALSE]

------------------------------

\* fs_create(): the first free inode with the first free block, if any.
Created(i, path, type) ==
    [type |-> type, size |-> IF type = "dir" THEN 1 ELSE 0, name |-> path, ref |-> 0,
     blocks |-> [b \in Blk |-> IF b = 0 /\ FreeBlocks # {} THEN Min(FreeBlocks) ELSE NoBlk]]
CreatedBlocks == IF FreeBlocks # {} THEN {Min(FreeBlocks)} ELSE {}
Reborn(i) ==
    /\ MapThenSumSet(LAMBDA k : inode_life[k], ChfsInodes) < MaxLife
    /\ inode_used' = inode_used \cup {i}
    /\ inode_life' = [inode_life EXCEPT ![i] = @ + 1]
    /\ miscounted' = [miscounted EXCEPT ![i] = FALSE]

\* fs_mkdir().
fs_mkdir(path) ==
    LET i == Min(FreeInodes)
    IN /\ Lookup(path) = NoBlk /\ FreeInodes # {}
       /\ Reborn(i)
       /\ inode_table' = [inode_table EXCEPT ![i] = Created(i, path, "dir")]
       /\ block_used' = block_used \cup CreatedBlocks
       /\ stored' = NotStored
       /\ UNCHANGED fd_table

\* The blocks of inode i.
BlocksAt(i) == {inode_table[i].blocks[b] : b \in Blk} \ {NoBlk}
Emptied(in) == [in EXCEPT !.size = 0, !.blocks = [b \in Blk |-> NoBlk]]

Open == {h \in Handles : Fd(h).valid}
RoomFor(n) == Cardinality(Open) + n <= MaxOpen

\* A file is opened on a free descriptor, at its end when appending.
Opened(t, f, i, append, in, life) ==
    fd_table' = [fd_table EXCEPT ![t][f] =
        [valid |-> TRUE, ino |-> i, life |-> life,
         off |-> IF append /\ in.type = "file" THEN in.size ELSE 0]]
FreeFds(t) == {f \in ChfsFds : ~fd_table[t][f].valid}

\* fs_open() of an existing file: O_TRUNC gives the blocks back before a
\* descriptor is looked for.
fs_open(t, path, trunc, append) ==
    LET i == Lookup(path)
        cut == trunc /\ inode_table[i].type = "file"
        in == IF cut THEN Emptied(inode_table[i]) ELSE inode_table[i]
    IN /\ i # NoBlk /\ (FreeFds(t) # {} => RoomFor(1))
       /\ block_used' = IF cut THEN block_used \ BlocksAt(i) ELSE block_used
       /\ IF FreeFds(t) # {}
          THEN /\ Opened(t, Min(FreeFds(t)), i, append, in, inode_life[i])
               /\ inode_table' = [inode_table EXCEPT ![i] = [in EXCEPT !.ref = @ + 1]]
          ELSE /\ inode_table' = [inode_table EXCEPT ![i] = in]
               /\ UNCHANGED fd_table
       /\ stored' = NotStored
       /\ UNCHANGED <<inode_used, inode_life, miscounted>>

\* fs_open() with O_CREATE of a new name.
fs_open_create(t, path) ==
    LET i == Min(FreeInodes)
        in == Created(i, path, "file")
    IN /\ Lookup(path) = NoBlk /\ FreeInodes # {} /\ (FreeFds(t) # {} => RoomFor(1))
       /\ Reborn(i)
       /\ block_used' = block_used \cup CreatedBlocks
       /\ stored' = NotStored
       /\ IF FreeFds(t) # {}
          THEN /\ Opened(t, Min(FreeFds(t)), i, FALSE, in, inode_life[i] + 1)
               /\ inode_table' = [inode_table EXCEPT ![i] = [in EXCEPT !.ref = 1]]
          ELSE /\ inode_table' = [inode_table EXCEPT ![i] = in]
               /\ UNCHANGED fd_table

\* One block of fs_write() or chfs_write_file() into inode i at offset o: a
\* missing block is allocated, none left ends the call.
BlockFor(i, o) ==
    IF inode_table[i].blocks[o] # NoBlk THEN inode_table[i].blocks[o]
    ELSE IF FreeBlocks = {} THEN NoBlk ELSE Min(FreeBlocks)

Store(i, o, size, who) ==
    LET b == BlockFor(i, o)
    IN /\ b # NoBlk
       /\ block_used' = block_used \cup (IF inode_table[i].blocks[o] = NoBlk THEN {b} ELSE {})
       /\ stored' = [blk |-> b, ino |-> who[1], life |-> who[2]]
       /\ inode_table' = [inode_table EXCEPT ![i].blocks[o] = b, ![i].size = size]

\* fs_write() of one block: the offset moves, the size never shrinks.
fs_write(h) ==
    LET d == Fd(h)
    IN /\ d.valid /\ d.off < ChfsDataBlocks
       /\ Store(d.ino, d.off, Max({inode_table[d.ino].size, d.off + 1}), <<d.ino, d.life>>)
       /\ fd_table' = [fd_table EXCEPT ![h[1]][h[2]].off = @ + 1]
       /\ UNCHANGED <<inode_used, inode_life, miscounted>>

\* fs_read() of one block moves the offset, up to the size or a hole.
fs_read(h) ==
    LET d == Fd(h)
    IN /\ d.valid /\ d.off < inode_table[d.ino].size /\ d.off < ChfsDataBlocks
       /\ inode_table[d.ino].blocks[d.off] # NoBlk
       /\ fd_table' = [fd_table EXCEPT ![h[1]][h[2]].off = @ + 1]
       /\ stored' = NotStored
       /\ UNCHANGED <<inode_used, inode_table, block_used, inode_life, miscounted>>

\* The counts after the descriptors in H are closed.
Dropped(H) ==
    [i \in ChfsInodes |->
        [inode_table[i] EXCEPT !.ref = @ - Cardinality({h \in H : Fd(h).valid /\ Fd(h).ino = i})]]
StaleIn(H) ==
    [i \in ChfsInodes |-> miscounted[i]
        \/ \E h \in H : Fd(h).valid /\ Fd(h).ino = i /\ Fd(h).life # inode_life[i]]

\* fs_close().
fs_close(h) ==
    /\ Fd(h).valid
    /\ inode_table' = Dropped({h})
    /\ miscounted' = StaleIn({h})
    /\ fd_table' = [fd_table EXCEPT ![h[1]][h[2]] = NoFd]
    /\ stored' = NotStored
    /\ UNCHANGED <<inode_used, block_used, inode_life>>

\* task_exit() and fs_close_table() close every descriptor of a task.
fs_close_table(t) ==
    /\ \E f \in ChfsFds : fd_table[t][f].valid
    /\ inode_table' = Dropped({t} \X ChfsFds)
    /\ miscounted' = StaleIn({t} \X ChfsFds)
    /\ fd_table' = [fd_table EXCEPT ![t] = [f \in ChfsFds |-> NoFd]]
    /\ stored' = NotStored
    /\ UNCHANGED <<inode_used, block_used, inode_life>>

\* As fd_table_copy, a bug: the child's descriptors are not counted.
fd_table_copyUncounted(dst, src) ==
    /\ dst # src
    /\ \A f \in ChfsFds : ~fd_table[dst][f].valid
    /\ RoomFor(Cardinality({f \in ChfsFds : fd_table[src][f].valid}))
    /\ fd_table' = [fd_table EXCEPT ![dst] = fd_table[src]]
    /\ stored' = NotStored
    /\ UNCHANGED <<inode_table, inode_used, block_used, inode_life, miscounted>>

\* fd_table_copy(): a new task starts with the descriptors of its parent.
fd_table_copy(dst, src) ==
    /\ dst # src
    /\ \A f \in ChfsFds : ~fd_table[dst][f].valid
    /\ RoomFor(Cardinality({f \in ChfsFds : fd_table[src][f].valid}))
    /\ fd_table' = [fd_table EXCEPT ![dst] = fd_table[src]]
    /\ inode_table' = [i \in ChfsInodes |->
          [inode_table[i] EXCEPT !.ref =
              @ + Cardinality({f \in ChfsFds : fd_table[src][f].valid /\ fd_table[src][f].ino = i})]]
    /\ miscounted' = StaleIn({src} \X ChfsFds)
    /\ stored' = NotStored
    /\ UNCHANGED <<inode_used, block_used, inode_life>>

\* fs_dup2(): the target is closed first.
fs_dup2(t, old, new) ==
    LET o == fd_table[t][old]
        dropped == Dropped({<<t, new>>})
    IN /\ o.valid /\ old # new /\ RoomFor(IF fd_table[t][new].valid THEN 0 ELSE 1)
       /\ inode_table' = [i \in ChfsInodes |->
             [dropped[i] EXCEPT !.ref = @ + (IF i = o.ino THEN 1 ELSE 0)]]
       /\ miscounted' = StaleIn({<<t, new>>, <<t, old>>})
       /\ fd_table' = [fd_table EXCEPT ![t][new] = o]
       /\ stored' = NotStored
       /\ UNCHANGED <<inode_used, block_used, inode_life>>

\* fs_unlink(): the blocks are freed and the inode cleared with memset(),
\* whoever has it open; its block numbers are then 0.
fs_unlink(path) ==
    LET i == Lookup(path)
    IN /\ i \notin {NoBlk, 0}
       /\ block_used' = block_used \ BlocksAt(i)
       /\ inode_used' = inode_used \ {i}
       /\ inode_table' = [inode_table EXCEPT ![i] = ZeroInode]
       /\ stored' = NotStored
       /\ UNCHANGED <<fd_table, inode_life, miscounted>>

\* chfs_truncate(): the blocks stay.
chfs_truncate(path) ==
    /\ Lookup(path) # NoBlk
    /\ inode_table' = [inode_table EXCEPT ![Lookup(path)].size = 0]
    /\ stored' = NotStored
    /\ UNCHANGED <<inode_used, block_used, fd_table, inode_life, miscounted>>

\* chfs_write_file() of one block over an existing file.
chfs_write_file(path) ==
    LET i == Lookup(path)
    IN /\ i # NoBlk
       /\ Store(i, 0, 1, <<i, inode_life[i]>>)
       /\ UNCHANGED <<inode_used, fd_table, inode_life, miscounted>>

\* chfs_move(): the inode gets the other name if that is free.
chfs_move(old, new) ==
    /\ Lookup(old) # NoBlk /\ Lookup(new) = NoBlk
    /\ inode_table' = [inode_table EXCEPT ![Lookup(old)].name = new]
    /\ stored' = NotStored
    /\ UNCHANGED <<inode_used, block_used, fd_table, inode_life, miscounted>>

ChfsNext ==
    \/ \E p \in ChfsDirs : fs_mkdir(p)
    \/ \E p \in ChfsNames \cup ChfsDirs :
          \/ fs_unlink(p)
          \/ \E q \in ChfsNames \cup ChfsDirs : chfs_move(p, q)
    \/ \E p \in ChfsNames :
          \/ chfs_truncate(p)
          \/ chfs_write_file(p)
          \/ \E t \in ChfsOpeners : \/ fs_open_create(t, p)
                                    \/ \E cut, app \in BOOLEAN : fs_open(t, p, cut, app)
    \/ \E h \in Handles : fs_write(h) \/ fs_read(h) \/ fs_close(h)
    \/ \E t \in ChfsTasks : fs_close_table(t)
    \/ \E t, u \in ChfsTasks : fd_table_copy(t, u)
    \/ \E t \in ChfsTasks, f, g \in ChfsFds : fs_dup2(t, f, g)

ChfsSpec == ChfsInit /\ [][ChfsNext]_chfsVars

------------------------------

\* No block is lost and none is in two files, whatever descriptors outlive
\* their files: the marked blocks are the root's and those of the inodes in
\* use, each of one inode at one place (chfs.c fs_create, fs_open with
\* O_TRUNC, fs_write, fs_unlink).
ChfsBlocksOwned ==
    /\ block_used = {0} \cup UNION {BlocksAt(i) : i \in inode_used \ {0}}
    /\ \A i, j \in inode_used \ {0}, a, b \in Blk :
          (/\ inode_table[i].blocks[a] # NoBlk
           /\ inode_table[i].blocks[a] = inode_table[j].blocks[b]) => <<i, a>> = <<j, b>>

\* ref_count is the number of descriptors on the file through open, dup2,
\* fork, close, exit and kill, unless the number was reused under an open
\* descriptor and that one was closed or copied since (fs_unlink does not ask
\* who has the file open).
RefCountExact ==
    \A i \in inode_used \ {0} :
        ~miscounted[i] =>
            inode_table[i].ref =
                Cardinality({h \in Handles : Fd(h).valid /\ Fd(h).ino = i /\ Fd(h).life = inode_life[i]})

\* A call made when no file was ever unlinked under an open descriptor writes
\* into a block of the file it meant (chfs.c fs_write, chfs_write_file).
\* After such an unlink the cleared inode sends the write into block 0, the
\* root directory.
WriteStaysInFile ==
    (/\ stored # NotStored
     /\ \A h \in Handles : Fd(h).valid => Fd(h).ino \in inode_used /\ Fd(h).life = inode_life[Fd(h).ino])
        => /\ stored.ino \in inode_used /\ stored.life = inode_life[stored.ino]
           /\ stored.blk \in BlocksAt(stored.ino) \cap block_used
==============================
