---------------------------- MODULE BlockDevices ----------------------------
(***************************************************************************)
(* The block devices of the 32-bit kernel: the NVMe driver (nvme.c), the   *)
(* virtio driver (virtio_blk.c) and the choice between them (blk.c) under  *)
(* kernel/drivers.  Each driver has one request at a time, made under a    *)
(* lock with interrupts off, and polls for its completion, while the       *)
(* device works on its own.  The NVMe timeout counts timer ticks, which    *)
(* stand still with interrupts off, so a read or a write never gives up;   *)
(* the virtio one counts rounds, and the request it gave up may complete   *)
(* later.                                                                  *)
(***************************************************************************)
EXTENDS Integers, Sequences, FiniteSets, FiniteSetsExt, SequencesExt

CONSTANTS
    NvQueue,      \* ISIZE
    NvShift,      \* sectors to a native block: 1, or 8 when lba_bytes is 4096
    NvBlocks,     \* native blocks
    NvCids,       \* 2^16: command ids wrap there, leaving out 0
    BlkVals,      \* contents of a sector
    VioSectors,
    VioTimeouts   \* bound on the requests given up

ASSUME BlockAssumption ==
    /\ {NvQueue, NvShift, NvCids} \subseteq Nat \ {0} /\ NvQueue < NvCids
    /\ NvBlocks \in Nat /\ VioTimeouts \in Nat

------------------------------
(* Starting up (kernel.c): virtio, NVMe, the partition table of the NVMe   *)
(* disk, a file system in its charOS partition, and the root file system.  *)
(* A disk has its first sectors, the head of a charOS partition and its    *)
(* last sector.                                                            *)

VARIABLES
    blk_stage,
    blk_devs,    \* "nvme", "virtio" -> [present, head, part, last]
    blk_dfs,     \* dfs_nvme, dfs_base ("head" or "part") and mounted
    blk_fault,   \* history: a sector could not be read
    blk_was      \* history: what the heads held at power on
blkVars == <<blk_stage, blk_devs, blk_dfs, blk_fault, blk_was>>

NoDisk == [present |-> FALSE, head |-> "blank", part |-> "blank", last |-> "blank"]
blkInit ==
    /\ blk_stage = "off"
    /\ blk_devs = [d \in {"nvme", "virtio"} |-> NoDisk]
    /\ blk_dfs = [nvme |-> FALSE, base |-> "head", mounted |-> FALSE]
    /\ blk_fault = FALSE
    /\ blk_was = [d \in {"nvme", "virtio"} |-> "blank"]

PowerOn ==
    /\ blk_stage = "off" /\ blk_stage' = "virtio"
    /\ blk_devs' \in [{"nvme", "virtio"} -> [present : {FALSE}, head : {"blank", "gpt", "dfs"},
                                              part : {"blank", "dfs"}, last : {"blank"}]]
    /\ blk_was' = [d \in {"nvme", "virtio"} |-> blk_devs'[d].head]
    /\ UNCHANGED <<blk_dfs, blk_fault>>

\* A driver's start: the device found, its window mapped, reset, asked for
\* its size and given its queues; present comes last.  Then its self test
\* writes the last sector.
DriverUp(d, next) ==
    /\ \E up \in BOOLEAN :
          blk_devs' = [blk_devs EXCEPT ![d] = IF up THEN [@ EXCEPT !.present = TRUE, !.last = "test"] ELSE @]
    /\ blk_stage' = next
    /\ UNCHANGED <<blk_dfs, blk_fault, blk_was>>
virtio_blk_init == blk_stage = "virtio" /\ DriverUp("virtio", "nvme")
nvme_init == blk_stage = "nvme" /\ DriverUp("nvme", "gpt")

\* gpt_selftest(): the table is looked for at sector 1, and a charOS partition
\* in it; without one there is no 27D.
gpt_selftest ==
    /\ blk_stage = "gpt"
    /\ blk_stage' = IF blk_devs["nvme"].present /\ blk_devs["nvme"].head = "gpt" THEN "nvmefs" ELSE "boot"
    /\ UNCHANGED <<blk_devs, blk_dfs, blk_fault, blk_was>>

\* blk_read(), blk_write(): NVMe before virtio; dread(), dwrite() add the base.
BlkDevice == IF blk_devs["nvme"].present THEN "nvme" ELSE "virtio"

\* diskfs_nvme_selftest(): mounted, or formatted when there is nothing to
\* mount; what it tests may fail, and then it leaves all as it is.
diskfs_nvme_selftest ==
    /\ blk_stage = "nvmefs"
    /\ blk_devs' = [blk_devs EXCEPT !["nvme"].part = "dfs"]
    /\ \E ok \in BOOLEAN :
          blk_dfs' = IF ok THEN [nvme |-> FALSE, base |-> "head", mounted |-> FALSE]
                     ELSE [nvme |-> TRUE, base |-> "part", mounted |-> TRUE]
    /\ blk_stage' = "boot"
    /\ UNCHANGED <<blk_fault, blk_was>>

\* diskfs_mount() turns back to the first sectors and the default device; when
\* it fails, whether for want of a file system or because the first sector
\* could not be read, the disk is formatted.
BootDiskfs ==
    /\ blk_stage = "boot"
    /\ \E readable \in BOOLEAN :
          LET d == BlkDevice
              mounts == readable /\ blk_devs[d].head = "dfs"
          IN /\ blk_devs' = IF mounts \/ ~blk_devs[d].present THEN blk_devs
                            ELSE [blk_devs EXCEPT ![d].head = "dfs of now"]
             /\ blk_dfs' = [nvme |-> FALSE, base |-> "head",
                            mounted |-> blk_dfs.mounted \/ blk_devs[d].present]
             /\ blk_fault' = (blk_fault \/ ~readable)
    /\ blk_stage' = "up"
    /\ UNCHANGED blk_was
blkNext == PowerOn \/ virtio_blk_init \/ nvme_init \/ gpt_selftest \/ diskfs_nvme_selftest \/ BootDiskfs

\* A root file system found on a disk is not formatted by starting up, as long
\* as its first sector can be read.
RootKept ==
    ~blk_fault => \A d \in DOMAIN blk_devs : blk_was[d] = "dfs" => blk_devs[d].head = "dfs"

\* The partition table 27C and 27D found is still there for the next start:
\* dfs_nvme = 0 is meant to stand for the virtio disk (diskfs.c).
TableKept == \A d \in DOMAIN blk_devs : blk_was[d] = "gpt" => blk_devs[d].head = "gpt"

------------------------------
(* NVMe: one queue pair.  A completion entry is new when its phase is the  *)
(* one the driver expects.                                                 *)

VARIABLES
    nv,         \* the driver: tail, head, phase, cid and the request it is in
    nvdev,      \* the device: its head and tail, its phase, and the queues
    nv_disk,    \* native block -> the sectors in it
    nv_buf,     \* data_buf, which the device reads and writes
    nv_want     \* history: what the sectors should hold
nvVars == <<nv, nvdev, nv_disk, nv_buf, nv_want>>

NvSectors == 0 .. NvBlocks * NvShift - 1
NoCmd == [cid |-> 0, op |-> "none", slba |-> 0]
Cqe(phase, cid, ok) == [phase |-> phase, cid |-> cid, ok |-> ok]
nvInit ==
    /\ nv = [tail |-> 0, head |-> 0, phase |-> 1, cid |-> 1, st |-> "idle", op |-> "none",
             lba |-> 0, val |-> 0, cmd |-> NoCmd, got |-> NoCmd.cid]
    /\ nvdev = [sqhd |-> 0, cqt |-> 0, phase |-> 1,
                sq |-> [i \in 0 .. NvQueue - 1 |-> NoCmd],
                cq |-> [i \in 0 .. NvQueue - 1 |-> Cqe(0, 0, TRUE)]]
    /\ nv_disk = [b \in 0 .. NvBlocks - 1 |-> [i \in 1 .. NvShift |-> 0]]
    /\ nv_buf = [i \in 1 .. NvShift |-> 0]
    /\ nv_want = [s \in NvSectors |-> 0]

new_cid(c) == IF c + 1 = NvCids THEN 1 ELSE c + 1

\* rw_native() up to the doorbell of run_cmd().
Ring(n, op, st) ==
    LET cmd == [cid |-> n.cid, op |-> op, slba |-> n.lba \div NvShift]
    IN /\ nvdev' = [nvdev EXCEPT !.sq[n.tail] = cmd]
       /\ nv' = [n EXCEPT !.tail = (n.tail + 1) % NvQueue, !.cid = new_cid(n.cid), !.cmd = cmd, !.st = st]

nvme_read_sector(lba) ==
    /\ nv.st = "idle"
    /\ Ring([nv EXCEPT !.op = "read", !.lba = lba], "read", "last")
    /\ UNCHANGED <<nv_disk, nv_buf, nv_want>>

\* A sector smaller than a native block is put into what is read first.
nvme_write_sector(lba, v) ==
    /\ nv.st = "idle"
    /\ IF NvShift = 1
       THEN /\ nv_buf' = <<v>>
            /\ Ring([nv EXCEPT !.op = "write", !.lba = lba, !.val = v], "write", "last")
       ELSE /\ UNCHANGED nv_buf
            /\ Ring([nv EXCEPT !.op = "write", !.lba = lba, !.val = v], "read", "first")
    /\ UNCHANGED <<nv_disk, nv_want>>

\* The device takes the next command, moves the data and enters its
\* completion, good or not, with its phase.
NvmeDevice ==
    LET cmd == nvdev.sq[nvdev.sqhd]
    IN /\ nvdev.sqhd # nv.tail
       /\ \E ok \in BOOLEAN :
             /\ nvdev' = [nvdev EXCEPT !.cq[nvdev.cqt] = Cqe(nvdev.phase, cmd.cid, ok),
                                       !.sqhd = (nvdev.sqhd + 1) % NvQueue,
                                       !.cqt = (nvdev.cqt + 1) % NvQueue,
                                       !.phase = IF nvdev.cqt + 1 = NvQueue THEN 1 - @ ELSE @]
             /\ nv_disk' = IF ok /\ cmd.op = "write" THEN [nv_disk EXCEPT ![cmd.slba] = nv_buf] ELSE nv_disk
             /\ nv_buf' = IF ok /\ cmd.op = "read" THEN nv_disk[cmd.slba] ELSE nv_buf
             /\ nv_want' = IF ok /\ cmd.op = "write" THEN [nv_want EXCEPT ![nv.lba] = nv.val] ELSE nv_want
       /\ UNCHANGED nv

\* As TakenCqe, a bug: the phase is not turned where the queue wraps.
TakenCqeSamePhase(n) ==
    [n EXCEPT !.head = (n.head + 1) % NvQueue, !.got = nvdev.cq[n.head].cid, !.st = "idle"]
TakenCqe(n) ==
    [n EXCEPT !.head = (n.head + 1) % NvQueue, !.got = nvdev.cq[n.head].cid, !.st = "idle",
              !.phase = IF n.head + 1 = NvQueue THEN 1 - @ ELSE @]
\* The end of run_cmd(): the entry at the head has the phase waited for.
\* Between the two commands of a write the sector goes into the buffer.
run_cmd ==
    LET e == nvdev.cq[nv.head]
    IN /\ nv.st # "idle" /\ e.phase = nv.phase
       /\ IF nv.st = "first" /\ e.ok
          THEN /\ nv_buf' = [nv_buf EXCEPT ![(nv.lba % NvShift) + 1] = nv.val]
               /\ Ring(TakenCqe(nv), "write", "last")
          ELSE /\ nv' = TakenCqe(nv)
               /\ UNCHANGED <<nvdev, nv_buf>>
       /\ UNCHANGED <<nv_disk, nv_want>>

nvNext ==
    \/ \E lba \in NvSectors : nvme_read_sector(lba) \/ \E v \in BlkVals : nvme_write_sector(lba, v)
    \/ NvmeDevice \/ run_cmd

\* The completion the driver takes is the one of the command it waits for,
\* however often the queues wrap (run_cmd() does not compare the ids).
OwnCompletion ==
    /\ (nv.st # "idle" /\ nvdev.cq[nv.head].phase = nv.phase) => nvdev.cq[nv.head].cid = nv.cmd.cid
    /\ nv.st = "idle" => nv.got \in {0, nv.cmd.cid}

\* A write changes its own sector and no other of the native block, whether
\* its commands succeed or fail (the read and write of nvme_write_sector()).
NeighboursKept == \A s \in NvSectors : nv_disk[s \div NvShift][(s % NvShift) + 1] = nv_want[s]

------------------------------
(* virtio: one chain of descriptors, header, data and status, reused for   *)
(* every request; idx counts the chains made available and used.           *)

VARIABLES
    vio,        \* the driver: last_used, request, result, requests given up
    vring,      \* avail and used indices, header, status, the header in work
    vio_disk, blk_data,
    vio_wrong   \* history: a read that succeeded brought something else
vioVars == <<vio, vring, vio_disk, blk_data, vio_wrong>>

vioInit ==
    /\ vio = [last_used |-> 0, st |-> "idle", op |-> "none", lba |-> 0, val |-> 0, gaveup |-> 0]
    /\ vring = [avail |-> 0, used |-> 0, op |-> "none", lba |-> 0, status |-> "none", busy |-> <<>>]
    /\ vio_disk = [s \in VioSectors |-> 0] /\ blk_data = 0 /\ vio_wrong = FALSE

\* vio_request() up to the notification; the buffer was filled for a write.
\* The indices only matter by their difference: they start over together.
vio_request(op, lba, v) ==
    /\ vio.st = "idle"
    /\ blk_data' = IF op = "write" THEN v ELSE blk_data
    /\ vring' = [vring EXCEPT !.avail = @ + 1 - vio.last_used, !.used = @ - vio.last_used,
                              !.op = op, !.lba = lba, !.status = "none"]
    /\ vio' = [vio EXCEPT !.st = "poll", !.op = op, !.lba = lba, !.val = v, !.last_used = 0]
    /\ UNCHANGED <<vio_disk, vio_wrong>>
block_read_sector(lba) == vio_request("read", lba, 0)
block_write_sector(lba, v) == vio_request("write", lba, v)

\* The device reads the header of a chain, and moves the data and enters
\* the status some time later.
VirtioFetch ==
    /\ vring.used < vring.avail /\ vring.busy = <<>>
    /\ vring' = [vring EXCEPT !.busy = <<vring.op, vring.lba>>]
    /\ UNCHANGED <<vio, vio_disk, blk_data, vio_wrong>>
VirtioComplete ==
    /\ vring.busy # <<>>
    /\ \E ok \in BOOLEAN :
          /\ vring' = [vring EXCEPT !.used = @ + 1, !.status = IF ok THEN "ok" ELSE "error", !.busy = <<>>]
          /\ vio_disk' = IF ok /\ vring.busy[1] = "write" THEN [vio_disk EXCEPT ![vring.busy[2]] = blk_data]
                         ELSE vio_disk
          /\ blk_data' = IF ok /\ vring.busy[1] = "read" THEN vio_disk[vring.busy[2]] ELSE blk_data
    /\ UNCHANGED <<vio, vio_wrong>>

\* The end of vio_request() when the used index has moved, and the copy that
\* block_read_sector() makes after a good status.
VirtioDone ==
    /\ vio.st = "poll" /\ vring.used # vio.last_used
    /\ vio' = [vio EXCEPT !.st = "idle", !.last_used = vring.used]
    /\ vio_wrong' = (vio_wrong \/ (vio.op = "read" /\ vring.status = "ok" /\ blk_data # vio_disk[vio.lba]))
    /\ UNCHANGED <<vring, vio_disk, blk_data>>
VirtioTimeout ==
    /\ vio.st = "poll" /\ vring.used = vio.last_used /\ vio.gaveup < VioTimeouts
    /\ vio' = [vio EXCEPT !.st = "idle", !.gaveup = @ + 1]
    /\ UNCHANGED <<vring, vio_disk, blk_data, vio_wrong>>

vioNext ==
    \/ \E lba \in VioSectors : block_read_sector(lba) \/ \E v \in BlkVals : block_write_sector(lba, v)
    \/ VirtioFetch \/ VirtioComplete \/ VirtioDone \/ VirtioTimeout

\* As long as no request was given up, a read that returns success brought
\* the sector asked for, after failed requests too.
VirtioReadsRight == vio.gaveup = 0 => ~vio_wrong

\* After a timeout as well: vio_request() returns -1 for a request that did
\* not complete and 0 for one that did.
VirtioNeverWrong == ~vio_wrong
==============================
