-------------------------------- MODULE Port64 ------------------------------
(***************************************************************************)
(* The services of the 64-bit port, each a part of its own: "part" is      *)
(* chosen at the start and only the part that was chosen takes steps.      *)
(***************************************************************************)
EXTENDS Memory64, Paging64, Kernel64, Storage64, Net64, Access64

File == [mode |-> "file", size |-> 1, blocks |-> <<1>>]
DirIn(b) == [mode |-> "dir", size |-> 2 * Len(b), blocks |-> b]
Entry(ino, len, name) == [ino |-> ino, len |-> len, name |-> name]
Dirs == (5 :> (0 :> Entry(2, 1, "x") @@ 1 :> Entry(0, 1, "y"))) @@ (6 :> (0 :> Entry(1, 2, "y")))
Sb(isz, ino) == [magic |-> TRUE, logsz |-> 0, inodes |-> ino, blocks |-> 8, ipg |-> 2, isz |-> isz]
MCExt2Images ==
    {[sb |-> Sb(1, 2), table |-> (0 :> DirIn(<<5, 6>>) @@ 1 :> File), dirs |-> Dirs],
     [sb |-> Sb(2, 2), table |-> (0 :> File @@ 1 :> File @@ 2 :> DirIn(<<6, 5>>) @@ 3 :> File), dirs |-> Dirs],
     [sb |-> Sb(1, 0), table |-> (0 :> File), dirs |-> Dirs],
     [sb |-> [Sb(1, 2) EXCEPT !.magic = FALSE], table |-> (0 :> File), dirs |-> Dirs]}
MCDnsAnswers == [far : BOOLEAN, type : {1, 5}, data : {<<9, 9>>, <<9>>}]
MCTlvOptions == {<<0>>, <<255>>, <<3, 0>>, <<3, 1, 7>>, <<53, 2>>, <<3, 4>>}
MCPolicyPaths == {<<0>>, <<0, 1>>, <<0, 1, 0>>, <<0, 1, 1>>}
MCContextTexts == UNION {[1 .. n -> {1, 9}] : n \in 4 .. 8}

\* The part that runs.
VARIABLE part
parts == {"frame", "buddy", "vram", "lf", "swap", "cow", "sched", "rcu", "wq", "timer", "sync",
    "ipc", "poll", "inotify", "journald", "tmp", "vfs", "jn", "fsync", "snap", "jrnl", "sub",
    "disk", "part", "gpt", "flock", "quota", "link", "de", "xa", "acl", "ext2", "addr", "ndp",
    "dns", "tlv", "udp", "tcp", "nic", "cubic", "filter", "sta", "login", "pam", "sudo", "group",
    "policy", "sandbox", "luks", "secctx", "seccomp", "selinux"}
allVars == <<part, frameVars, buddyVars, vramVars, lfVars, swapVars, cowVars, schedVars, rcuVars,
    wqVars, timer64Vars, syncVars, ipcVars, pollVars, inotifyVars, journaldVars, tmpVars, vfsVars,
    jnVars, fsyncVars, snapVars, jrnlVars, subvolVars, diskVars, partVars, gptVars, flockVars,
    quotaVars, linkVars, dentryVars, xattrVars, aclVars, ext2Vars, addrVars, ndpVars, dnsVars,
    tlvVars, udp64Vars, tcp64Vars, nicVars, cubicVars, filterVars, staVars, loginVars, pamVars,
    sudoVars, groupVars, policyVars, sandboxVars, luksVars, secctxVars, seccompVars, selinuxVars>>

PartsInit ==
    /\ part \in parts
    /\ FrameInit
    /\ BuddyInit
    /\ VramInit
    /\ LfInit
    /\ SwapInit
    /\ CowInit
    /\ SchedInit
    /\ rcu64_init
    /\ wq64_init
    /\ Timer64Init
    /\ sync64_init
    /\ ipc64_init
    /\ PollInit
    /\ InotifyInit
    /\ JournaldInit
    /\ TmpInit
    /\ vfs64_init
    /\ JnInit
    /\ FsyncInit
    /\ SnapInit
    /\ jrnl64_init
    /\ SubvolInit
    /\ blk64_init
    /\ PartInit
    /\ GptInit
    /\ FlockInit
    /\ QuotaInit
    /\ LinkInit
    /\ DentryInit
    /\ XattrInit
    /\ AclInit
    /\ Ext2Init
    /\ AddrInit
    /\ NdpInit
    /\ DnsInit
    /\ TlvInit
    /\ Udp64Init
    /\ tcp64_init
    /\ net64_init
    /\ cubic64_init
    /\ FilterInit
    /\ StaInit
    /\ LoginInit
    /\ PamInit
    /\ SudoInit
    /\ GroupInit
    /\ PolicyInit
    /\ SandboxInit
    /\ LuksInit
    /\ SecctxInit
    /\ SeccompInit
    /\ SelinuxInit
PartsNext ==
    /\ UNCHANGED part
    /\ IF part = "frame" THEN FrameNext ELSE UNCHANGED frameVars
    /\ IF part = "buddy" THEN BuddyNext ELSE UNCHANGED buddyVars
    /\ IF part = "vram" THEN VramNext ELSE UNCHANGED vramVars
    /\ IF part = "lf" THEN LfNext ELSE UNCHANGED lfVars
    /\ IF part = "swap" THEN SwapNext ELSE UNCHANGED swapVars
    /\ IF part = "cow" THEN CowNext ELSE UNCHANGED cowVars
    /\ IF part = "sched" THEN SchedNext ELSE UNCHANGED schedVars
    /\ IF part = "rcu" THEN RcuNext ELSE UNCHANGED rcuVars
    /\ IF part = "wq" THEN WqNext ELSE UNCHANGED wqVars
    /\ IF part = "timer" THEN Timer64Next ELSE UNCHANGED timer64Vars
    /\ IF part = "sync" THEN SyncNext ELSE UNCHANGED syncVars
    /\ IF part = "ipc" THEN IpcNext ELSE UNCHANGED ipcVars
    /\ IF part = "poll" THEN PollNext ELSE UNCHANGED pollVars
    /\ IF part = "inotify" THEN InotifyNext ELSE UNCHANGED inotifyVars
    /\ IF part = "journald" THEN JournaldNext ELSE UNCHANGED journaldVars
    /\ IF part = "tmp" THEN TmpNext ELSE UNCHANGED tmpVars
    /\ IF part = "vfs" THEN VfsNext ELSE UNCHANGED vfsVars
    /\ IF part = "jn" THEN JnNext ELSE UNCHANGED jnVars
    /\ IF part = "fsync" THEN FsyncNext ELSE UNCHANGED fsyncVars
    /\ IF part = "snap" THEN SnapNext ELSE UNCHANGED snapVars
    /\ IF part = "jrnl" THEN JrnlNext ELSE UNCHANGED jrnlVars
    /\ IF part = "sub" THEN SubvolNext ELSE UNCHANGED subvolVars
    /\ IF part = "disk" THEN DiskNext ELSE UNCHANGED diskVars
    /\ IF part = "part" THEN PartNext ELSE UNCHANGED partVars
    /\ IF part = "gpt" THEN GptNext ELSE UNCHANGED gptVars
    /\ IF part = "flock" THEN FlockNext ELSE UNCHANGED flockVars
    /\ IF part = "quota" THEN QuotaNext ELSE UNCHANGED quotaVars
    /\ IF part = "link" THEN LinkNext ELSE UNCHANGED linkVars
    /\ IF part = "de" THEN DentryNext ELSE UNCHANGED dentryVars
    /\ IF part = "xa" THEN XattrNext ELSE UNCHANGED xattrVars
    /\ IF part = "acl" THEN AclNext ELSE UNCHANGED aclVars
    /\ IF part = "ext2" THEN Ext2Next ELSE UNCHANGED ext2Vars
    /\ IF part = "addr" THEN AddrNext ELSE UNCHANGED addrVars
    /\ IF part = "ndp" THEN NdpNext ELSE UNCHANGED ndpVars
    /\ IF part = "dns" THEN DnsNext ELSE UNCHANGED dnsVars
    /\ IF part = "tlv" THEN TlvNext ELSE UNCHANGED tlvVars
    /\ IF part = "udp" THEN Udp64Next ELSE UNCHANGED udp64Vars
    /\ IF part = "tcp" THEN Tcp64Next ELSE UNCHANGED tcp64Vars
    /\ IF part = "nic" THEN NicNext ELSE UNCHANGED nicVars
    /\ IF part = "cubic" THEN CubicNext ELSE UNCHANGED cubicVars
    /\ IF part = "filter" THEN FilterNext ELSE UNCHANGED filterVars
    /\ IF part = "sta" THEN StaNext ELSE UNCHANGED staVars
    /\ IF part = "login" THEN LoginNext ELSE UNCHANGED loginVars
    /\ IF part = "pam" THEN PamNext ELSE UNCHANGED pamVars
    /\ IF part = "sudo" THEN SudoNext ELSE UNCHANGED sudoVars
    /\ IF part = "group" THEN GroupNext ELSE UNCHANGED groupVars
    /\ IF part = "policy" THEN PolicyNext ELSE UNCHANGED policyVars
    /\ IF part = "sandbox" THEN SandboxNext ELSE UNCHANGED sandboxVars
    /\ IF part = "luks" THEN LuksNext ELSE UNCHANGED luksVars
    /\ IF part = "secctx" THEN SecctxNext ELSE UNCHANGED secctxVars
    /\ IF part = "seccomp" THEN SeccompNext ELSE UNCHANGED seccompVars
    /\ IF part = "selinux" THEN SelinuxNext ELSE UNCHANGED selinuxVars
PartsSpec == PartsInit /\ [][PartsNext]_allVars

------------------------------
\* What programs rely on: nobody starves, nothing in use is freed, work runs
\* once, timers keep pace, locks exclude, messages and readiness are current,
\* and pages that share a frame do not see each other's writes.
KernelServicesSound ==
    /\ NeverStarved /\ ReadersSafe /\ WorkOnce /\ TimersInPace /\ LockHeldOnce
    /\ ChannelKeepsMessage /\ WaitReportsReady
    /\ SharersApart /\ CowCounted

\* The tables of storage, network and accounts answer with what was entered
\* last: no entry is another's, none outlives what it stands for, and a journal
\* or a snapshot gives back what it is to keep.
TablesSound ==
    /\ DescriptorsRead /\ RecoverRestores /\ SyncedLast
    /\ SnapshotFrozen /\ ReplayCounts /\ ParentsLive /\ DisksKeep /\ PartsApart
    /\ ListExact /\ LocksExclude /\ QuotaExact /\ InodeWhileLinked
    /\ CacheCurrent /\ AttributesKept /\ MaskLimits
    /\ NeighbourFresh /\ DatagramsKept /\ OwnPacket /\ NicCounts /\ StationsApart
    /\ LoginsCurrent /\ StampHonest /\ HeaderCurrent /\ NothingWaitsInVain

\* What comes back is what was put in: frames and blocks have one owner, pages
\* return from swap, queues, logs and files keep their order and contents, and
\* parsers, windows and login stacks give what their input says.
ContentsSound ==
    /\ NoFrameTwice /\ ObjectsLive /\ ZoneCounts /\ BuddyTiles /\ BuddyMerged
    /\ VramTiles /\ LfOwnedOnce /\ PagesComeBack /\ QueuedOnce /\ SlotsOwned
    /\ EventsInOrder /\ JournalKeepsNewest /\ TmpfsReadsBack /\ Ext2Reads
    /\ Parse4Exact /\ Parse6Exact /\ AnswersTaken /\ OptionsRead /\ PrefixLive
    /\ WindowSane /\ StackDecides /\ ContextsParsed

\* Rules added later take nothing back, what is done to one group or profile
\* leaves the others, and what a program sealed stays sealed.
AccessSteps ==
    [][/\ EarlierRulesHold /\ EarlierSudoHolds /\ EarlierTypesHold /\ LabelsNarrow
       /\ GrantsGrow /\ ProfilesApart /\ SandboxSealed /\ FilterLasts]_allVars
==============================
