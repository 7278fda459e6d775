----------------------------- MODULE Storage64 -----------------------------
(***************************************************************************)
(* Storage services of the 64-bit port (kernel/arch/x86_64): files in      *)
(* memory (tmpfs64.c), numbered inodes and descriptors (vfs64.c), the      *)
(* block journal (journal64.c), dirty blocks (fsync64.c), snapshots        *)
(* (snap64.c), transactions (jrnl64.c), subvolumes (btrfs64.c), disks      *)
(* (blk64.c), partition tables (part64.c, parttool64.c), range locks       *)
(* (flock64.c), quotas (quota64.c), link counts (vfsops64.c), the name     *)
(* cache (dentry64.c), attributes (xattr64.c), access lists (acl64.c) and  *)
(* the reader of ext2 images (ext2_64.c).  Each is a part of its own; the  *)
(* variables called _owed hold what the callers have a right to.           *)
(***************************************************************************)
EXTENDS Tables64, TLC

CONSTANTS
    TmpNames, TMPFS64_MAX_FRAMES, TmpFrames, FrameBytes, TmpBytes,
    VFS_INODES, VFS_FDS, VfsValues, VfsNumbers,
    JOURNAL64_MAX, JournalBlocks, JournalCommits,
    FSYNC64_MAX, SNAP64_MAX, SNAP64_MAX_CHANGES, SnapBlocks,
    JRNL_MAX, JrnlNumbers,
    BTRFS64_MAX, SubvolNames, SubvolIds,
    BLK_MAX, BLK_SECTORS, DiskNumbers,
    PART_MAX, PartBits, PARTTOOL64_MAX_PARTS, PARTTOOL_MIN_LBA, PartLba,
    FLOCK64_MAX, LockOwners,
    QUOTA64_MAX, QuotaUids, QuotaLimit,
    VFSOPS64_MAX, LinkInodes, MaxLinks,
    DENTRY64_MAX, XATTR64_MAX, KeyInodes, KeyNames,
    ACL64_MAX, AclIds,
    Ext2Images, EXT2_BSIZE, EXT2_DIRECT

ASSUME Storage64Assumption ==
    /\ {VFS_INODES, VFS_FDS, VfsNumbers, JOURNAL64_MAX, FSYNC64_MAX, SNAP64_MAX, JRNL_MAX,
        BTRFS64_MAX, BLK_MAX, BLK_SECTORS, DiskNumbers, PART_MAX, FLOCK64_MAX, QUOTA64_MAX,
        QuotaLimit, VFSOPS64_MAX, LinkInodes, DENTRY64_MAX, XATTR64_MAX, ACL64_MAX} \subseteq Nat
    /\ 2 ^ PartBits \in Nat \ {0, 1}
    /\ 0 \notin AclIds

VARIABLES
    tmp_tab, tmp_free, tmp_data, tmp_owed,
    v_inodes, v_fds, v_ino_ctr, v_fd_ctr, v_owed,
    jn_stage, jn_committed, jn_active, jn_dev, jn_owed,
    fs_tab, fs_dev, fs_owed,
    sn_tab, sn_dev, sn_owed,
    jr_tab, jr_ctr, jr_committed,
    sv_tab, sv_next,
    bd_tab, bd_ctr, bd_owed,
    pa_tab, pt_parts, pt_owed,
    fl_tab, fl_owed,
    qu_tab, qu_owed,
    vo_tab, vo_next, vo_links,
    de_tab, de_n, de_owed,
    xa_tab, xa_owed,
    acl_tab,
    e2_image, e2_mounted, e2_geo
tmpVars == <<tmp_tab, tmp_free, tmp_data, tmp_owed>>
vfsVars == <<v_inodes, v_fds, v_ino_ctr, v_fd_ctr, v_owed>>
jnVars == <<jn_stage, jn_committed, jn_active, jn_dev, jn_owed>>
fsyncVars == <<fs_tab, fs_dev, fs_owed>>
snapVars == <<sn_tab, sn_dev, sn_owed>>
jrnlVars == <<jr_tab, jr_ctr, jr_committed>>
subvolVars == <<sv_tab, sv_next>>
diskVars == <<bd_tab, bd_ctr, bd_owed>>
partVars == <<pa_tab>>
gptVars == <<pt_parts, pt_owed>>
flockVars == <<fl_tab, fl_owed>>
quotaVars == <<qu_tab, qu_owed>>
linkVars == <<vo_tab, vo_next, vo_links>>
dentryVars == <<de_tab, de_n, de_owed>>
xattrVars == <<xa_tab, xa_owed>>
aclVars == <<acl_tab>>
ext2Vars == <<e2_image, e2_mounted, e2_geo>>

------------------------------
(* Files in memory: a list of frames and a size for each name.             *)

NoTmp == [used |-> FALSE, frames |-> <<>>, size |-> 0]
TmpInit ==
    /\ tmp_tab = [n \in TmpNames |-> NoTmp]
    /\ tmp_free = 1 .. TmpFrames
    /\ tmp_data = [f \in 1 .. TmpFrames |-> [i \in 0 .. FrameBytes - 1 |-> 0]]
    /\ tmp_owed = [n \in TmpNames |-> <<>>]     \* position -> byte written there

tmpfs64_create(n) ==
    /\ ~tmp_tab[n].used
    /\ tmp_tab' = [tmp_tab EXCEPT ![n] = [NoTmp EXCEPT !.used = TRUE]]
    /\ tmp_owed' = [tmp_owed EXCEPT ![n] = <<>>]
    /\ UNCHANGED <<tmp_free, tmp_data>>

\* tmpfs64_grow(): frames one at a time; those it got stay when it fails.
tmpfs64_grow(n, need) ==
    LET frames == tmp_tab[n].frames
        wanted == {k \in 0 .. Cardinality(tmp_free) :
                      /\ Len(frames) + k <= TMPFS64_MAX_FRAMES
                      /\ k > 0 => (Len(frames) + k - 1) * FrameBytes < need}
    IN frames \o SubSeq(SetToSortSeq(tmp_free, <), 1, Max(wanted))

ByteAt(frames, pos) == <<frames[pos \div FrameBytes + 1], pos % FrameBytes>>

tmpfs64_write(n, off, len, b) ==
    /\ tmp_tab[n].used
    /\ \E frames \in {tmpfs64_grow(n, off + len)} :
          /\ tmp_free' = tmp_free \ ToSet(frames)
          /\ IF Len(frames) * FrameBytes < off + len
             THEN /\ tmp_tab' = [tmp_tab EXCEPT ![n].frames = frames]
                  /\ UNCHANGED <<tmp_data, tmp_owed>>
             ELSE /\ tmp_data' = [f \in 1 .. TmpFrames |-> [i \in 0 .. FrameBytes - 1 |->
                        IF \E p \in off .. off + len - 1 : ByteAt(frames, p) = <<f, i>>
                        THEN b ELSE tmp_data[f][i]]]
                  /\ tmp_tab' = [tmp_tab EXCEPT ![n].frames = frames,
                                                ![n].size = Max({tmp_tab[n].size, off + len})]
                  /\ tmp_owed' = [tmp_owed EXCEPT ![n] =
                        [p \in DOMAIN tmp_owed[n] \cup (off .. off + len - 1) |->
                            IF p >= off /\ p < off + len THEN b ELSE tmp_owed[n][p]]]

tmpfs64_unlink(n) ==
    /\ tmp_tab[n].used
    /\ tmp_free' = tmp_free \cup ToSet(tmp_tab[n].frames)
    /\ tmp_tab' = [tmp_tab EXCEPT ![n] = NoTmp]
    /\ tmp_owed' = [tmp_owed EXCEPT ![n] = <<>>]
    /\ UNCHANGED tmp_data

\* tmpfs64_read() of one byte inside the file.
tmpfs64_read(n, pos) ==
    LET at == ByteAt(tmp_tab[n].frames, pos) IN tmp_data[at[1]][at[2]]

TmpNext ==
    \E n \in TmpNames :
       \/ tmpfs64_create(n) \/ tmpfs64_unlink(n)
       \/ \E off \in 0 .. FrameBytes, len \in 1 .. FrameBytes, b \in TmpBytes :
             tmpfs64_write(n, off, len, b)

------------------------------
(* Inodes and descriptors by number; numbers are never given out again.    *)

NoVnode == [used |-> FALSE, ino |-> 0, val |-> 0]
NoFd == [used |-> FALSE, fd |-> 0, ino |-> 0]
vfs64_init ==
    /\ v_inodes = [i \in 1 .. VFS_INODES |-> NoVnode]
    /\ v_fds = [i \in 1 .. VFS_FDS |-> NoFd]
    /\ v_ino_ctr = 0 /\ v_fd_ctr = 0
    /\ v_owed = [n \in 1 .. VfsNumbers |-> 0]

find_ino(n) == FirstOf({i \in Taken(v_inodes) : v_inodes[i].ino = n})
find_fd(d) == FirstOf({i \in Taken(v_fds) : v_fds[i].fd = d})
\* As ino_busy, a bug: an inode is freed while a descriptor is open on it.
ino_busyNever(n) == FALSE
ino_busy(n) == \E i \in Taken(v_fds) : v_fds[i].ino = n

vfs64_create ==
    /\ v_ino_ctr < VfsNumbers /\ FirstFree(v_inodes) # 0
    /\ v_ino_ctr' = v_ino_ctr + 1
    /\ v_inodes' = [v_inodes EXCEPT ![FirstFree(v_inodes)] =
          [used |-> TRUE, ino |-> v_ino_ctr + 1, val |-> 0]]
    /\ UNCHANGED <<v_fds, v_fd_ctr, v_owed>>
vfs64_unlink(n) ==
    /\ find_ino(n) # 0 /\ ~ino_busy(n)
    /\ v_inodes' = [v_inodes EXCEPT ![find_ino(n)] = NoVnode]
    /\ UNCHANGED <<v_fds, v_ino_ctr, v_fd_ctr, v_owed>>
vfs64_open(n) ==
    /\ v_fd_ctr < VfsNumbers
    /\ find_ino(n) # 0 /\ FirstFree(v_fds) # 0
    /\ v_fd_ctr' = v_fd_ctr + 1
    /\ v_fds' = [v_fds EXCEPT ![FirstFree(v_fds)] =
          [used |-> TRUE, fd |-> v_fd_ctr + 1, ino |-> n]]
    /\ UNCHANGED <<v_inodes, v_ino_ctr, v_owed>>
vfs64_close(d) ==
    /\ find_fd(d) # 0
    /\ v_fds' = [v_fds EXCEPT ![find_fd(d)] = NoFd]
    /\ UNCHANGED <<v_inodes, v_ino_ctr, v_fd_ctr, v_owed>>
vfs64_write(d, x) ==
    /\ find_fd(d) # 0 /\ find_ino(v_fds[find_fd(d)].ino) # 0
    /\ v_inodes' = [v_inodes EXCEPT ![find_ino(v_fds[find_fd(d)].ino)].val = x]
    /\ v_owed' = [v_owed EXCEPT ![v_fds[find_fd(d)].ino] = x]
    /\ UNCHANGED <<v_fds, v_ino_ctr, v_fd_ctr>>
\* vfs64_read(): -1 when the inode is gone.
vfs64_read(d) ==
    LET i == find_ino(v_fds[find_fd(d)].ino) IN IF i = 0 THEN -1 ELSE v_inodes[i].val

VfsNext ==
    \/ vfs64_create
    \/ \E n \in 1 .. VfsNumbers : vfs64_unlink(n) \/ vfs64_open(n) \/ vfs64_close(n)
    \/ \E d \in 1 .. VfsNumbers, x \in VfsValues : vfs64_write(d, x)

------------------------------
(* The block journal, over a device that may lose a write.  Its copies of  *)
(* what was committed are kept in the order of the commits and never       *)
(* dropped; a full table takes no more.                                    *)

JnInit ==
    /\ jn_stage = <<>>
    /\ jn_committed = <<>>
    /\ jn_active = FALSE
    /\ jn_dev = [b \in JournalBlocks |-> 0]
    /\ jn_owed = [n |-> 0, last |-> [b \in JournalBlocks |-> 0]]

journal64_begin ==
    /\ ~jn_active
    /\ jn_active' = TRUE
    /\ jn_stage' = <<>>
    /\ UNCHANGED <<jn_committed, jn_dev, jn_owed>>
StageOf(b) == FirstOf({i \in 1 .. Len(jn_stage) : jn_stage[i].block = b})
\* journal64_write(): every write has a value of its own.
journal64_write(b) ==
    /\ jn_active
    /\ \E v \in {jn_owed.n + 1} :
          IF StageOf(b) # 0 THEN jn_stage' = [jn_stage EXCEPT ![StageOf(b)].data = v]
          ELSE /\ Len(jn_stage) < JOURNAL64_MAX
               /\ jn_stage' = Append(jn_stage, [block |-> b, data |-> v])
    /\ UNCHANGED <<jn_committed, jn_active, jn_dev, jn_owed>>

\* The value of block b after the entries of s were written, `lost' excepted.
After64(s, dev, lost) ==
    [b \in JournalBlocks |->
        LET hits == {i \in 1 .. Len(s) : s[i].block = b /\ i \notin lost}
        IN IF hits = {} THEN dev[b] ELSE s[Max(hits)].data]

Kept == SubSeq(jn_committed \o jn_stage, 1, Min({JOURNAL64_MAX, Len(jn_committed) + Len(jn_stage)}))

\* journal64_commit(): what the device answers is not looked at.
journal64_commit ==
    /\ jn_active /\ jn_owed.n < JournalCommits
    /\ \E lost \in SUBSET (1 .. Len(jn_stage)) :
          jn_dev' = After64(jn_stage, jn_dev, lost)
    /\ jn_committed' = Kept
    /\ jn_owed' = [n |-> jn_owed.n + 1, last |-> After64(jn_stage, jn_owed.last, {})]
    /\ jn_stage' = <<>>
    /\ jn_active' = FALSE
journal64_abort ==
    /\ jn_active
    /\ jn_stage' = <<>>
    /\ jn_active' = FALSE
    /\ UNCHANGED <<jn_committed, jn_dev, jn_owed>>

\* journal64_recover(): the copies again, from the first.
Replayed == After64(jn_committed, jn_dev, {})
journal64_recover ==
    /\ jn_dev' = Replayed
    /\ UNCHANGED <<jn_stage, jn_committed, jn_active, jn_owed>>

JnNext ==
    \/ journal64_begin \/ journal64_commit \/ journal64_abort \/ journal64_recover
    \/ \E b \in JournalBlocks : journal64_write(b)

------------------------------
(* Dirty blocks.                                                           *)

NoDirty == [used |-> FALSE, block |-> 0, data |-> 0]
FsyncInit ==
    /\ fs_tab = [i \in 1 .. FSYNC64_MAX |-> NoDirty]
    /\ fs_dev = [b \in SnapBlocks |-> 0]
    /\ fs_owed = [b \in SnapBlocks |-> 0]

DirtyAt(b) ==
    LET old == FirstOf({i \in Taken(fs_tab) : fs_tab[i].block = b})
    IN IF old # 0 THEN old ELSE FirstFree(fs_tab)
fsync64_mark_dirty(b, v) ==
    /\ DirtyAt(b) # 0
    /\ fs_tab' = [fs_tab EXCEPT ![DirtyAt(b)] = [used |-> TRUE, block |-> b, data |-> v]]
    /\ fs_owed' = [fs_owed EXCEPT ![b] = v]
    /\ UNCHANGED fs_dev
\* fsync64_sync() and fsync64_barrier(), the table from its first entry on.
fsync64_sync ==
    /\ Taken(fs_tab) # {}
    /\ fs_dev' = [b \in SnapBlocks |->
          LET hits == {i \in Taken(fs_tab) : fs_tab[i].block = b}
          IN IF hits = {} THEN fs_dev[b] ELSE fs_tab[Max(hits)].data]
    /\ fs_tab' = [i \in 1 .. FSYNC64_MAX |-> NoDirty]
    /\ UNCHANGED fs_owed

FsyncNext == fsync64_sync \/ \E b \in SnapBlocks, v \in 1 .. 2 : fsync64_mark_dirty(b, v)

------------------------------
(* Snapshots: the content a block had before it was first written.         *)

NoSnap == [used |-> FALSE, changes |-> <<>>]
SnapInit ==
    /\ sn_tab = [i \in 1 .. SNAP64_MAX |-> NoSnap]
    /\ sn_dev = [b \in SnapBlocks |-> 0]
    /\ sn_owed = [i \in 1 .. SNAP64_MAX |-> <<>>]

snap64_create ==
    /\ FirstFree(sn_tab) # 0
    /\ sn_tab' = [sn_tab EXCEPT ![FirstFree(sn_tab)] = [used |-> TRUE, changes |-> <<>>]]
    /\ sn_owed' = [sn_owed EXCEPT ![FirstFree(sn_tab)] = sn_dev]
    /\ UNCHANGED sn_dev

ChangeOf(s, b) == FirstOf({i \in 1 .. Len(s.changes) : s.changes[i].block = b})
\* snap64_write(): the block as the device has it, once.
Frozen(s, b) ==
    IF ChangeOf(s, b) # 0 THEN s
    ELSE [s EXCEPT !.changes = Append(s.changes, [block |-> b, data |-> sn_dev[b]])]
\* A block is written after every snapshot has been told; a snapshot that has
\* no room refuses and so nothing is written.
SnapBlockWrite(b, v) ==
    /\ \A i \in Taken(sn_tab) :
          ChangeOf(sn_tab[i], b) = 0 => Len(sn_tab[i].changes) < SNAP64_MAX_CHANGES
    /\ sn_tab' = [i \in 1 .. SNAP64_MAX |->
          IF sn_tab[i].used THEN Frozen(sn_tab[i], b) ELSE sn_tab[i]]
    /\ sn_dev' = [sn_dev EXCEPT ![b] = v]
    /\ UNCHANGED sn_owed
snap64_read(i, b) ==
    LET c == ChangeOf(sn_tab[i], b) IN IF c = 0 THEN sn_dev[b] ELSE sn_tab[i].changes[c].data
snap64_delete(i) ==
    /\ sn_tab[i].used
    /\ sn_tab' = [sn_tab EXCEPT ![i] = NoSnap]
    /\ sn_owed' = [sn_owed EXCEPT ![i] = <<>>]
    /\ UNCHANGED sn_dev

SnapNext ==
    \/ snap64_create
    \/ \E b \in SnapBlocks, v \in 0 .. 1 : SnapBlockWrite(b, v)
    \/ \E i \in 1 .. SNAP64_MAX : snap64_delete(i)

------------------------------
(* Transactions by number, and subvolumes.                                 *)

jrnl64_init ==
    /\ jr_tab = [i \in 1 .. JRNL_MAX |-> [tx |-> 0, state |-> "free"]]
    /\ jr_ctr = 0
    /\ jr_committed = 0
find_tx(t) == FirstOf({i \in 1 .. JRNL_MAX : jr_tab[i].state # "free" /\ jr_tab[i].tx = t})
jrnl64_begin ==
    LET free == {i \in 1 .. JRNL_MAX : jr_tab[i].state = "free"}
    IN /\ jr_ctr < JrnlNumbers /\ free # {}
       /\ jr_ctr' = jr_ctr + 1
       /\ jr_tab' = [jr_tab EXCEPT ![Min(free)] = [tx |-> jr_ctr + 1, state |-> "active"]]
       /\ UNCHANGED jr_committed
Ends(t) == find_tx(t) # 0 /\ jr_tab[find_tx(t)].state = "active"
jrnl64_commit(t) ==
    /\ Ends(t)
    /\ jr_tab' = [jr_tab EXCEPT ![find_tx(t)].state = "committed"]
    /\ jr_committed' = jr_committed + 1
    /\ UNCHANGED jr_ctr
jrnl64_abort(t) ==
    /\ Ends(t)
    /\ jr_tab' = [jr_tab EXCEPT ![find_tx(t)].state = "aborted"]
    /\ UNCHANGED <<jr_ctr, jr_committed>>
jrnl64_replay ==
    /\ jr_committed' = 0
    /\ jr_tab' = [i \in 1 .. JRNL_MAX |->
          IF jr_tab[i].state = "active" THEN jr_tab[i] ELSE [tx |-> 0, state |-> "free"]]
    /\ UNCHANGED jr_ctr
JrnlNext ==
    \/ jrnl64_begin \/ jrnl64_replay
    \/ \E t \in 1 .. JrnlNumbers : jrnl64_commit(t) \/ jrnl64_abort(t)

NoSubvol == [used |-> FALSE, name |-> "", readonly |-> FALSE, parent |-> 0, id |-> 0]
SubvolInit == sv_tab = [i \in 1 .. BTRFS64_MAX |-> NoSubvol] /\ sv_next = 1
btrfs_find(n) == FirstOf({i \in Taken(sv_tab) : sv_tab[i].name = n})
\* btrfs64_subvol_create(), under the root or a subvolume, and
\* btrfs64_snapshot(), under its source and read-only.
btrfs64_subvol_create(n, parent, ro) ==
    /\ sv_next <= SubvolIds
    /\ btrfs_find(n) = 0 /\ FirstFree(sv_tab) # 0
    /\ sv_tab' = [sv_tab EXCEPT ![FirstFree(sv_tab)] =
          [used |-> TRUE, name |-> n, readonly |-> ro, parent |-> parent, id |-> sv_next]]
    /\ sv_next' = sv_next + 1
HasChild(i) == \E j \in Taken(sv_tab) : sv_tab[j].parent = sv_tab[i].id
btrfs64_subvol_delete(n) ==
    /\ btrfs_find(n) # 0 /\ ~HasChild(btrfs_find(n))
    /\ sv_tab' = [sv_tab EXCEPT ![btrfs_find(n)] = NoSubvol]
    /\ UNCHANGED sv_next
SubvolNext ==
    \/ \E n \in SubvolNames : \/ btrfs64_subvol_create(n, 0, FALSE)
                              \/ btrfs64_subvol_delete(n)
    \/ \E n \in SubvolNames, i \in Taken(sv_tab), ro \in BOOLEAN :
          btrfs64_subvol_create(n, sv_tab[i].id, ro)

------------------------------
(* Disks by number.                                                        *)

NoDisk == [used |-> FALSE, dev |-> 0, n |-> 0, data |-> [s \in 0 .. BLK_SECTORS - 1 |-> 0]]
blk64_init ==
    /\ bd_tab = [i \in 1 .. BLK_MAX |-> NoDisk]
    /\ bd_ctr = 0
    /\ bd_owed = [d \in 1 .. DiskNumbers |-> [s \in 0 .. BLK_SECTORS - 1 |-> 0]]
find_blk(d) == FirstOf({i \in Taken(bd_tab) : bd_tab[i].dev = d})
Wiped(data, n) == [s \in 0 .. BLK_SECTORS - 1 |-> IF s < n THEN 0 ELSE data[s]]
blk64_create(n) ==
    /\ bd_ctr < DiskNumbers /\ FirstFree(bd_tab) # 0
    /\ bd_ctr' = bd_ctr + 1
    /\ \E i \in {FirstFree(bd_tab)} :
          bd_tab' = [bd_tab EXCEPT ![i] = [used |-> TRUE, dev |-> bd_ctr + 1, n |-> n,
                                           data |-> Wiped(bd_tab[i].data, n)]]
    /\ UNCHANGED bd_owed
\* blk64_destroy(): the sectors keep what they hold.
blk64_destroy(d) ==
    /\ find_blk(d) # 0
    /\ bd_tab' = [bd_tab EXCEPT ![find_blk(d)] =
          [NoDisk EXCEPT !.data = bd_tab[find_blk(d)].data]]
    /\ UNCHANGED <<bd_ctr, bd_owed>>
blk64_write(d, lba, v) ==
    /\ find_blk(d) # 0 /\ lba < bd_tab[find_blk(d)].n
    /\ bd_tab' = [bd_tab EXCEPT ![find_blk(d)].data[lba] = v]
    /\ bd_owed' = [bd_owed EXCEPT ![d][lba] = v]
    /\ UNCHANGED bd_ctr
DiskNext ==
    \/ \E n \in 1 .. BLK_SECTORS : blk64_create(n)
    \/ \E d \in 1 .. DiskNumbers : blk64_destroy(d)
    \/ \E d \in 1 .. DiskNumbers, s \in 0 .. BLK_SECTORS - 1 : blk64_write(d, s, 1)

------------------------------
(* Partitions.  part64 keeps start and length, whose sum wraps; parttool64 *)
(* a dense list with first and last block.                                 *)

PartInit == pa_tab = [i \in 1 .. PART_MAX |-> [used |-> FALSE, start |-> 0, len |-> 0]]
PartEnd(s, l) == (s + l) % 2 ^ PartBits
overlaps(s, l) ==
    \E i \in Taken(pa_tab) :
        s < PartEnd(pa_tab[i].start, pa_tab[i].len) /\ pa_tab[i].start < PartEnd(s, l)
part64_add(s, l) ==
    /\ l # 0 /\ ~overlaps(s, l) /\ FirstFree(pa_tab) # 0
    /\ pa_tab' = [pa_tab EXCEPT ![FirstFree(pa_tab)] = [used |-> TRUE, start |-> s, len |-> l]]
part64_del(i) ==
    /\ pa_tab[i].used
    /\ pa_tab' = [pa_tab EXCEPT ![i] = [used |-> FALSE, start |-> 0, len |-> 0]]

GptInit == pt_parts = <<>> /\ pt_owed = {}
\* The first blocks of the disk are for the boot partition only.
parttool64_gpt_add(type, first, last) ==
    /\ first < last /\ last < PartLba
    /\ first < PARTTOOL_MIN_LBA => type = "efi"
    /\ Len(pt_parts) < PARTTOOL64_MAX_PARTS
    /\ \A i \in 1 .. Len(pt_parts) : ~(first < pt_parts[i].last /\ pt_parts[i].first < last)
    /\ pt_parts' = Append(pt_parts, [type |-> type, first |-> first, last |-> last])
    /\ pt_owed' = pt_owed \cup {[type |-> type, first |-> first, last |-> last]}
Compacted(i) == RemoveAt(pt_parts, i)
parttool64_gpt_delete(i) ==
    /\ i <= Len(pt_parts)
    /\ pt_parts' = Compacted(i)
    /\ pt_owed' = pt_owed \ {pt_parts[i]}

PartNext ==
    \/ \E s \in 0 .. 2 ^ PartBits - 1, l \in 0 .. 2 ^ PartBits - 1 : part64_add(s, l)
    \/ \E i \in 1 .. PART_MAX : part64_del(i)
GptNext ==
    \/ \E t \in {"efi", "data"}, f, l \in 0 .. PartLba : parttool64_gpt_add(t, f, l)
    \/ \E i \in 1 .. PARTTOOL64_MAX_PARTS : parttool64_gpt_delete(i)

------------------------------
(* Range locks on one inode; length 0 runs to the end of all numbers.      *)

NoRange == [used |-> FALSE, owner |-> 0, type |-> "", start |-> 0, len |-> 0]
FlockInit == fl_tab = [i \in 1 .. FLOCK64_MAX |-> NoRange] /\ fl_owed = {}
FlockEnd(s, l) == IF l = 0 THEN 2 ^ PartBits - 1 ELSE PartEnd(s, l)
flock_overlap(s1, l1, s2, l2) == s1 < FlockEnd(s2, l2) /\ s2 < FlockEnd(s1, l1)
flock64_check(o, type, s, l) ==
    \A i \in Taken(fl_tab) :
        fl_tab[i].owner # o /\ flock_overlap(fl_tab[i].start, fl_tab[i].len, s, l)
            => fl_tab[i].type # "ex" /\ type # "ex"
flock64_lock(o, type, s, l) ==
    /\ flock64_check(o, type, s, l) /\ FirstFree(fl_tab) # 0
    /\ fl_tab' = [fl_tab EXCEPT ![FirstFree(fl_tab)] =
          [used |-> TRUE, owner |-> o, type |-> type, start |-> s, len |-> l]]
    /\ fl_owed' = fl_owed \cup {[owner |-> o, type |-> type, start |-> s, len |-> l]}
\* flock64_unlock(): all the locks of the owner.
flock64_unlock(o) ==
    /\ \E i \in Taken(fl_tab) : fl_tab[i].owner = o
    /\ fl_tab' = [i \in 1 .. FLOCK64_MAX |-> IF fl_tab[i].owner = o THEN NoRange ELSE fl_tab[i]]
    /\ fl_owed' = {k \in fl_owed : k.owner # o}
FlockNext ==
    \/ \E o \in LockOwners, t \in {"sh", "ex"}, s, l \in {0, 1, 3, 2 ^ PartBits - 2} :
          flock64_lock(o, t, s, l)
    \/ \E o \in LockOwners : flock64_unlock(o)

------------------------------
(* Quotas and link counts.                                                 *)

NoQuota == [used |-> FALSE, uid |-> 0, blocks |-> 0, inodes |-> 0, blim |-> 0, ilim |-> 0]
QuotaInit ==
    /\ qu_tab = [i \in 1 .. QUOTA64_MAX |-> NoQuota]
    /\ qu_owed = [u \in QuotaUids |-> [blocks |-> 0, inodes |-> 0]]
quota64_get(u) == FirstOf({i \in Taken(qu_tab) : qu_tab[i].uid = u})
quota64_set_limit(u, bl, il) ==
    /\ quota64_get(u) # 0 \/ FirstFree(qu_tab) # 0
    /\ qu_tab' = IF quota64_get(u) # 0
                 THEN [qu_tab EXCEPT ![quota64_get(u)].blim = bl, ![quota64_get(u)].ilim = il]
                 ELSE [qu_tab EXCEPT ![FirstFree(qu_tab)] =
                          [NoQuota EXCEPT !.used = TRUE, !.uid = u, !.blim = bl, !.ilim = il]]
    /\ UNCHANGED qu_owed
Charged(e, b, n) ==
    IF (e.blim # 0 /\ e.blocks + b > e.blim) \/ (e.ilim # 0 /\ e.inodes + n > e.ilim) THEN e
    ELSE [e EXCEPT !.blocks = @ + b, !.inodes = @ + n]
\* quota64_charge(): an unknown user is entered without limits first.
quota64_charge(u, b, n) ==
    /\ quota64_get(u) # 0 \/ FirstFree(qu_tab) # 0
    /\ qu_owed[u].blocks + b <= QuotaLimit /\ qu_owed[u].inodes + n <= QuotaLimit
    /\ \E i \in {IF quota64_get(u) # 0 THEN quota64_get(u) ELSE FirstFree(qu_tab)} :
       \E e \in {IF quota64_get(u) # 0 THEN qu_tab[i] ELSE [NoQuota EXCEPT !.used = TRUE, !.uid = u]} :
          /\ qu_tab' = [qu_tab EXCEPT ![i] = Charged(e, b, n)]
          /\ qu_owed' =
                IF (e.blim # 0 /\ e.blocks + b > e.blim) \/ (e.ilim # 0 /\ e.inodes + n > e.ilim)
                THEN qu_owed
                ELSE [qu_owed EXCEPT ![u] = [blocks |-> @.blocks + b, inodes |-> @.inodes + n]]
\* quota64_release() of what was charged.
quota64_release(u, b, n) ==
    /\ quota64_get(u) # 0
    /\ qu_owed[u].blocks >= b /\ qu_owed[u].inodes >= n
    /\ \E i \in {quota64_get(u)} :
          qu_tab' = [qu_tab EXCEPT
             ![i].blocks = IF qu_tab[i].blocks >= b THEN qu_tab[i].blocks - b ELSE 0,
             ![i].inodes = IF qu_tab[i].inodes >= n THEN qu_tab[i].inodes - n ELSE 0]
    /\ qu_owed' = [qu_owed EXCEPT ![u] = [blocks |-> @.blocks - b, inodes |-> @.inodes - n]]
QuotaNext ==
    \E u \in QuotaUids :
       \/ \E bl, il \in 0 .. 1 : quota64_set_limit(u, bl, il)
       \/ \E b, n \in 0 .. 1 : b + n > 0 /\ (quota64_charge(u, b, n) \/ quota64_release(u, b, n))

NoLink == [used |-> FALSE, ino |-> 0, nlink |-> 0]
LinkInit ==
    /\ vo_tab = [i \in 1 .. VFSOPS64_MAX |-> NoLink]
    /\ vo_next = 1
    /\ vo_links = [n \in 1 .. LinkInodes |-> 0]
vfsops64_get(n) == FirstOf({i \in Taken(vo_tab) : vo_tab[i].ino = n})
vfsops64_create ==
    /\ vo_next <= LinkInodes /\ FirstFree(vo_tab) # 0
    /\ vo_tab' = [vo_tab EXCEPT ![FirstFree(vo_tab)] = [used |-> TRUE, ino |-> vo_next, nlink |-> 1]]
    /\ vo_next' = vo_next + 1
    /\ vo_links' = [vo_links EXCEPT ![vo_next] = 1]
vfsops64_link(n) ==
    /\ vfsops64_get(n) # 0 /\ vo_links[n] < MaxLinks
    /\ vo_tab' = [vo_tab EXCEPT ![vfsops64_get(n)].nlink = @ + 1]
    /\ vo_links' = [vo_links EXCEPT ![n] = @ + 1]
    /\ UNCHANGED vo_next
Unlinked64(e) == IF e.nlink - 1 <= 0 THEN NoLink ELSE [e EXCEPT !.nlink = @ - 1]
vfsops64_unlink(n) ==
    /\ vfsops64_get(n) # 0 /\ vo_links[n] > 0
    /\ vo_tab' = [vo_tab EXCEPT ![vfsops64_get(n)] = Unlinked64(@)]
    /\ vo_links' = [vo_links EXCEPT ![n] = @ - 1]
    /\ UNCHANGED vo_next
LinkNext ==
    \/ vfsops64_create
    \/ \E n \in 1 .. LinkInodes : vfsops64_link(n) \/ vfsops64_unlink(n)
------------------------------
(* Names under a directory and attributes of an inode: tables searched for *)
(* both parts of the key.                                                  *)

Keys64 == KeyInodes \X KeyNames
NoKey == [used |-> FALSE, ino |-> 0, name |-> "", val |-> 0]
DentryInit ==
    /\ de_tab = [i \in 1 .. DENTRY64_MAX |-> NoKey]
    /\ de_n = 0
    /\ de_owed = [k \in Keys64 |-> 0]
XattrInit ==
    /\ xa_tab = [i \in 1 .. XATTR64_MAX |-> NoKey]
    /\ xa_owed = [k \in Keys64 |-> 0]

dentry_find(ino, n) == FirstOf({i \in Taken(de_tab) : de_tab[i].ino = ino /\ de_tab[i].name = n})
dentry64_insert(ino, n, v) ==
    /\ \E i \in {IF dentry_find(ino, n) # 0 THEN dentry_find(ino, n) ELSE FirstFree(de_tab)} :
          /\ i # 0
          /\ de_tab' = [de_tab EXCEPT ![i] =
                IF @.used THEN [@ EXCEPT !.val = v]
                ELSE [used |-> TRUE, ino |-> ino, name |-> n, val |-> v]]
          /\ de_n' = IF de_tab[i].used THEN de_n ELSE de_n + 1
    /\ de_owed' = [de_owed EXCEPT ![<<ino, n>>] = v]
dentry64_invalidate(ino, n) ==
    /\ dentry_find(ino, n) # 0
    /\ de_tab' = [de_tab EXCEPT ![dentry_find(ino, n)] = NoKey]
    /\ de_n' = de_n - 1
    /\ de_owed' = [de_owed EXCEPT ![<<ino, n>>] = 0]
dentry64_lookup(ino, n) ==
    IF dentry_find(ino, n) = 0 THEN 0 ELSE de_tab[dentry_find(ino, n)].val

xattr_find(ino, n) == FirstOf({i \in Taken(xa_tab) : xa_tab[i].ino = ino /\ xa_tab[i].name = n})
xattr64_set(ino, n, v) ==
    /\ \E i \in {IF xattr_find(ino, n) # 0 THEN xattr_find(ino, n) ELSE FirstFree(xa_tab)} :
          /\ i # 0
          /\ xa_tab' = [xa_tab EXCEPT ![i] = [used |-> TRUE, ino |-> ino, name |-> n, val |-> v]]
    /\ xa_owed' = [xa_owed EXCEPT ![<<ino, n>>] = v]
\* xattr64_remove(): only the flag; the rest of the entry stays.
xattr64_remove(ino, n) ==
    /\ xattr_find(ino, n) # 0
    /\ xa_tab' = [xa_tab EXCEPT ![xattr_find(ino, n)].used = FALSE]
    /\ xa_owed' = [xa_owed EXCEPT ![<<ino, n>>] = 0]
xattr64_get(ino, n) == IF xattr_find(ino, n) = 0 THEN 0 ELSE xa_tab[xattr_find(ino, n)].val
\* xattr64_list(): the names of an inode.
xattr64_list(ino) == {xa_tab[i].name : i \in {j \in Taken(xa_tab) : xa_tab[j].ino = ino}}

DentryNext ==
    \E k \in Keys64 : \/ \E v \in 1 .. 2 : dentry64_insert(k[1], k[2], v)
                      \/ dentry64_invalidate(k[1], k[2])
XattrNext ==
    \E k \in Keys64 : \/ \E v \in 1 .. 2 : xattr64_set(k[1], k[2], v)
                      \/ xattr64_remove(k[1], k[2])

------------------------------
(* The access list of one inode.                                           *)

AclPerms == {{}, {"r"}, {"r", "w"}}
AclInit == acl_tab = [i \in 1 .. ACL64_MAX |-> [used |-> FALSE, tag |-> "", id |-> 0, perm |-> {}]]
acl64_set(tag, id, perm) ==
    LET old == FirstOf({i \in Taken(acl_tab) : acl_tab[i].tag = tag /\ acl_tab[i].id = id})
        at == IF old # 0 THEN old ELSE FirstFree(acl_tab)
    IN /\ at # 0
       /\ acl_tab' = [acl_tab EXCEPT ![at] = [used |-> TRUE, tag |-> tag, id |-> id, perm |-> perm]]
\* acl64_perm(): the entry that answers for a tag, 0 if none does.
acl64_perm(tag, id) ==
    FirstOf({i \in Taken(acl_tab) : /\ acl_tab[i].tag = tag
                                    /\ tag \in {"user", "group"} => acl_tab[i].id = id})
PermOf(i) == IF i = 0 THEN {} ELSE acl_tab[i].perm
Masked(perm) == IF acl64_perm("mask", 0) = 0 THEN perm ELSE perm \cap PermOf(acl64_perm("mask", 0))
GroupClass(gid) == {acl64_perm("group_obj", 0), acl64_perm("group", gid)} \ {0}
acl64_check(uid, gid, req) ==
    CASE uid = 0 -> acl64_perm("user_obj", 0) # 0 => req \subseteq PermOf(acl64_perm("user_obj", 0))
      [] uid # 0 /\ acl64_perm("user", uid) # 0 -> req \subseteq Masked(PermOf(acl64_perm("user", uid)))
      [] uid # 0 /\ acl64_perm("user", uid) = 0 /\ GroupClass(gid) # {} ->
            req \subseteq Masked(UNION {PermOf(i) : i \in GroupClass(gid)})
      [] OTHER -> acl64_perm("other", 0) # 0 /\ req \subseteq PermOf(acl64_perm("other", 0))
AclNext ==
    \/ \E t \in {"user_obj", "group_obj", "mask", "other"}, p \in AclPerms : acl64_set(t, 0, p)
    \/ \E t \in {"user", "group"}, id \in AclIds, p \in AclPerms : acl64_set(t, id, p)

------------------------------
(* The reader of ext2 images.  Sizes are in units of 128 bytes (inodes)    *)
(* and of one directory entry (directory blocks).  An image is given by    *)
(* what is in it: its superblock, inodes by position in the table, and     *)
(* directory blocks.                                                       *)

Ext2Init ==
    /\ e2_image \in {CHOOSE i \in Ext2Images : i.sb.magic}
    /\ e2_mounted = FALSE
    /\ e2_geo = [inodes |-> 0, blocks |-> 0, ipg |-> 0, isz |-> 1]
ext2_attach(image) ==
    /\ e2_image' = image
    /\ e2_mounted' = FALSE
    /\ UNCHANGED e2_geo

\* A size the driver does not handle leaves the one it had.
InodeSize(sb) == IF sb.isz >= 1 /\ sb.isz <= 4 THEN sb.isz ELSE e2_geo.isz
\* ext2_mount(): the numbers are taken over before they are looked at.
ext2_mount ==
    /\ e2_image.sb.magic /\ e2_image.sb.logsz = 0
    /\ e2_geo' = [inodes |-> e2_image.sb.inodes, blocks |-> e2_image.sb.blocks,
                  ipg |-> e2_image.sb.ipg, isz |-> InodeSize(e2_image.sb)]
    /\ e2_mounted' = (e2_mounted \/ 0 \notin {e2_image.sb.inodes, e2_image.sb.blocks, e2_image.sb.ipg})
    /\ UNCHANGED e2_image

NoInode == [mode |-> "none", size |-> 0, blocks |-> <<>>]
\* ext2_read_inode(): group 0's table, whatever the group of the inode.
ext2_read_inode(ino) ==
    LET at == ((ino - 1) % e2_geo.ipg) * e2_geo.isz
    IN IF at \in DOMAIN e2_image.table THEN e2_image.table[at] ELSE NoInode

\* The entry at a position of a directory, or none where the walk stops: past
\* the direct blocks, in a hole, or at an entry that leaves its block.
NoEntry == [ino |-> 0, len |-> 0, name |-> ""]
EntryAt(in, pos) ==
    LET bidx == pos \div EXT2_BSIZE
        boff == pos % EXT2_BSIZE
    IN IF bidx >= EXT2_DIRECT \/ bidx >= Len(in.blocks) THEN NoEntry
       ELSE IF in.blocks[bidx + 1] = 0 THEN NoEntry
       ELSE LET e == e2_image.dirs[in.blocks[bidx + 1]][boff]
            IN IF boff + e.len > EXT2_BSIZE THEN NoEntry ELSE e
EntryMatches(e, name) == e.name = name /\ e.ino # 0
\* ext2_lookup(): from entry to entry; -3 when the name is not there.
ext2_lookup(dir, name) ==
    LET in == ext2_read_inode(dir)
        Walk[pos \in 0 .. in.size + EXT2_BSIZE] ==
            IF pos >= in.size THEN -3
            ELSE LET e == EntryAt(in, pos)
                 IN IF e.len = 0 THEN -3
                    ELSE IF EntryMatches(e, name) THEN e.ino
                    ELSE Walk[pos + e.len]
    IN IF in.mode # "dir" THEN -2 ELSE Walk[0]

Ext2Next == ext2_mount \/ \E i \in Ext2Images : ext2_attach(i)

------------------------------

\* What was written to a file in memory is read back, byte by byte, and the
\* frames of the files and the free ones are all there is, each once.
TmpfsReadsBack ==
    /\ \A n \in TmpNames : \A p \in DOMAIN tmp_owed[n] :
          p < tmp_tab[n].size /\ tmpfs64_read(n, p) = tmp_owed[n][p]
    /\ FoldSet(LAMBDA n, k : k + Len(tmp_tab[n].frames), Cardinality(tmp_free), TmpNames) = TmpFrames
    /\ UNION {ToSet(tmp_tab[n].frames) : n \in TmpNames} \cup tmp_free = 1 .. TmpFrames

\* An open descriptor reads what was last written to its inode, through
\* whatever descriptor: the inode is not taken away and not another's.
DescriptorsRead ==
    \A i \in Taken(v_fds) : vfs64_read(v_fds[i].fd) = v_owed[v_fds[i].ino]

\* As long as the table of copies has room, a recovery gives every block the
\* value of its last commit, whichever writes the device lost, and nothing of
\* a transaction that was aborted or is open.
RecoverRestores ==
    Len(jn_committed) < JOURNAL64_MAX => Replayed = jn_owed.last

\* A block that is not dirty is on the device as it was last marked.
SyncedLast ==
    \A b \in SnapBlocks :
        (\A i \in Taken(fs_tab) : fs_tab[i].block # b) => fs_dev[b] = fs_owed[b]

\* A snapshot reads as the device was when it was made.
SnapshotFrozen ==
    \A i \in Taken(sn_tab) : \A b \in SnapBlocks : snap64_read(i, b) = sn_owed[i][b]

\* The number a replay reports is that of the transactions it ends.
ReplayCounts == jr_committed = Cardinality({i \in 1 .. JRNL_MAX : jr_tab[i].state = "committed"})

\* A subvolume's parent exists as long as the subvolume does.
ParentsLive ==
    \A i \in Taken(sv_tab) : sv_tab[i].parent \in {0} \cup {sv_tab[j].id : j \in Taken(sv_tab)}

\* A new disk is empty, and every disk holds what was written to it.
DisksKeep ==
    \A i \in Taken(bd_tab) : \A s \in 0 .. bd_tab[i].n - 1 :
        bd_tab[i].data[s] = bd_owed[bd_tab[i].dev][s]

\* Two partitions that end where they should do not overlap, ...
PartsApart ==
    \A i, j \in Taken(pa_tab) :
        LET a == pa_tab[i]
            b == pa_tab[j]
        IN i # j /\ a.start + a.len < 2 ^ PartBits /\ b.start + b.len < 2 ^ PartBits
           => a.start + a.len <= b.start \/ b.start + b.len <= a.start
\* ... and the partition list is what was added and not deleted.
ListExact == Len(pt_parts) = Cardinality(pt_owed) /\ ToSet(pt_parts) = pt_owed

\* Of two owners whose locks share a position, neither holds it exclusively
\* (for locks that end before the largest number).
LocksExclude ==
    \A a, b \in fl_owed :
        LET Spans(k) == IF k.len = 0 THEN k.start .. 2 ^ PartBits - 2 ELSE k.start .. k.start + k.len - 1
        IN a.owner # b.owner /\ a.start + a.len < 2 ^ PartBits /\ b.start + b.len < 2 ^ PartBits
           /\ Spans(a) \cap Spans(b) # {} => a.type = "sh" /\ b.type = "sh"

\* The usage of a user is what was charged and not released, also after
\* charges that were refused.
QuotaExact ==
    \A u \in QuotaUids :
        LET i == quota64_get(u)
        IN [blocks |-> IF i = 0 THEN 0 ELSE qu_tab[i].blocks,
            inodes |-> IF i = 0 THEN 0 ELSE qu_tab[i].inodes] = qu_owed[u]

\* An inode lives exactly as long as a link to it.
InodeWhileLinked == \A n \in 1 .. LinkInodes : (vfsops64_get(n) # 0) = (vo_links[n] > 0)

\* The name cache answers with what was last entered for that name in that
\* directory, and counts its entries, ...
CacheCurrent ==
    /\ \A k \in Keys64 : dentry64_lookup(k[1], k[2]) = de_owed[k]
    /\ de_n = Cardinality(Taken(de_tab))
\* ... and the attributes of an inode are those that were set and not removed.
AttributesKept ==
    /\ \A k \in Keys64 : xattr64_get(k[1], k[2]) = xa_owed[k]
    /\ \A ino \in KeyInodes : xattr64_list(ino) = {n \in KeyNames : xa_owed[<<ino, n>>] # 0}

\* Nobody is given more than the mask by a user or group entry, nor, when
\* named, more than the own entry says.
MaskLimits ==
    \A uid \in AclIds, gid \in AclIds, req \in AclPerms :
        /\ acl64_check(uid, gid, req)
        /\ acl64_perm("user", uid) # 0 \/ GroupClass(gid) # {}
        => /\ acl64_perm("mask", 0) # 0 => req \subseteq PermOf(acl64_perm("mask", 0))
           /\ acl64_perm("user", uid) # 0 => req \subseteq PermOf(acl64_perm("user", uid))

\* On a mounted image that states its inode size every inode of the first
\* group is the image's own, and a directory gives for every name the inode
\* its live entry names, whatever images were attached before.
Ext2Reads ==
    e2_mounted /\ e2_image.sb.isz # 0 /\ 0 \notin {e2_image.sb.inodes, e2_image.sb.blocks, e2_image.sb.ipg} =>
        \A ino \in 1 .. Min({e2_geo.inodes, e2_geo.ipg}) :
            LET true == e2_image.table[(ino - 1) * e2_image.sb.isz]
                live == UNION {{e \in Range(e2_image.dirs[true.blocks[i]]) : e.ino # 0} :
                                  i \in 1 .. Len(true.blocks)}
            IN /\ ext2_read_inode(ino) = true
               /\ true.mode = "dir" =>
                     \A name \in {e.name : e \in live} \cup {"absent"} :
                        ext2_lookup(ino, name) \in
                            IF \E e \in live : e.name = name
                            THEN {e.ino : e \in {x \in live : x.name = name}} ELSE {-3}
==============================
