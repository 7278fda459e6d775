----------------------------- MODULE KernelParts ----------------------------
(***************************************************************************)
(* The parts of the kernel and its programs that meet only through the     *)
(* calls each of them offers, checked in one run: "part" is chosen at the  *)
(* start and only the part that was chosen takes steps.                    *)
(***************************************************************************)
EXTENDS AddressSpace, DiskFS, ChFS, KHeap, Tcp, NetStack, BlockDevices, Gui, Housekeeping, Console,
    DynamicLinker

MCDfsPaths == {<<"d">>, <<"d", "f">>}
MCLogMessages == {<<1>>, <<2, 1>>, <<1, 2, 2>>, <<2, 2, 1, 1, 2>>}
MCPackets == {<<9, 5, 0>>, <<24, 250, 8>>}
MCPtyWrites == {<<"q", "NL">>}
Rel(t, n) == [type |-> t, sym |-> n, weak |-> FALSE]
Obj(im, nd, df, rl, pl, ms, al) ==
  [image |-> im, need |-> nd, defs |-> df, rel |-> rl, plt |-> pl, memsz |-> ms, filesz |-> ms, align |-> al]
MCDlFiles == ("a" :> Obj("good", <<"b">>, {"f"}, <<Rel("abs","g")>>, <<Rel("abs","g")>>, 0, 1))
   @@ ("b" :> Obj("good", <<"a">>, {"g"}, <<Rel("abs","f")>>, <<>>, 3, 1))
   @@ ("c" :> Obj("good", <<"b">>, {}, <<Rel("copy","f")>>, <<Rel("abs","h")>>, 4, 4))
   @@ ("d" :> Obj("nodyn", <<>>, {}, <<>>, <<>>, 0, 1))
MCDlModes == {[lazy |-> FALSE, global |-> FALSE], [lazy |-> TRUE, global |-> TRUE]}

\* The part that runs.
VARIABLE part
parts == {"space", "dfs", "chfs", "kheap", "tcp", "tx", "rx", "arp", "udp", "sum", "blk", "nv",
    "vio", "gui", "power", "thermal", "syslog", "prof", "clock", "rtc", "input", "mouse", "pty",
    "screen", "dl"}
allVars == <<part, vars, dfsVars, chfsVars, kheapVars, tcpVars, txVars, rxVars, arpVars, udpVars,
    net_header, blkVars, nvVars, vioVars, guiVars, powerVars, thermalVars, syslogVars, profVars,
    clock, rtc, inputVars, mouse, ptyVars, screenVars, dlVars>>

PartsInit ==
    /\ part \in parts
    /\ Init
    /\ DfsInit
    /\ ChfsInit
    /\ kheap_init
    /\ TcpInit
    /\ txInit
    /\ rxInit
    /\ arpInit
    /\ udpInit
    /\ IF part = "sum" THEN sumInit ELSE sumNone
    /\ blkInit
    /\ nvInit
    /\ vioInit
    /\ guiInit
    /\ PowerInit
    /\ ThermalInit
    /\ SyslogInit
    /\ ProfInit
    /\ ClockInit
    /\ IF part = "rtc" THEN RtcInit ELSE rtc = RtcNone
    /\ inputInit
    /\ mouseInit
    /\ ptyInit
    /\ screenInit
    /\ dlInit
PartsNext ==
    /\ UNCHANGED part
    /\ IF part = "space" THEN Next ELSE UNCHANGED vars
    /\ IF part = "dfs" THEN DfsNext ELSE UNCHANGED dfsVars
    /\ IF part = "chfs" THEN ChfsNext ELSE UNCHANGED chfsVars
    /\ IF part = "kheap" THEN kheapNext ELSE UNCHANGED kheapVars
    /\ IF part = "tcp" THEN TcpNext ELSE UNCHANGED tcpVars
    /\ IF part = "tx" THEN txNext ELSE UNCHANGED txVars
    /\ IF part = "rx" THEN rxNext ELSE UNCHANGED rxVars
    /\ IF part = "arp" THEN arpNext ELSE UNCHANGED arpVars
    /\ IF part = "udp" THEN udpNext ELSE UNCHANGED udpVars
    /\ UNCHANGED net_header
    /\ IF part = "blk" THEN blkNext ELSE UNCHANGED blkVars
    /\ IF part = "nv" THEN nvNext ELSE UNCHANGED nvVars
    /\ IF part = "vio" THEN vioNext ELSE UNCHANGED vioVars
    /\ IF part = "gui" THEN guiNext ELSE UNCHANGED guiVars
    /\ IF part = "power" THEN PowerNext ELSE UNCHANGED powerVars
    /\ IF part = "thermal" THEN ThermalNext ELSE UNCHANGED thermalVars
    /\ IF part = "syslog" THEN SyslogNext ELSE UNCHANGED syslogVars
    /\ IF part = "prof" THEN ProfNext ELSE UNCHANGED profVars
    /\ IF part = "clock" THEN ClockNext ELSE UNCHANGED clock
    /\ IF part = "rtc" THEN RtcNext ELSE UNCHANGED rtc
    /\ IF part = "input" THEN inputNext ELSE UNCHANGED inputVars
    /\ IF part = "mouse" THEN mouseNext ELSE UNCHANGED mouse
    /\ IF part = "pty" THEN ptyNext ELSE UNCHANGED ptyVars
    /\ IF part = "screen" THEN screenNext ELSE UNCHANGED screenVars
    /\ IF part = "dl" THEN dlNext ELSE UNCHANGED dlVars
PartsSpec == PartsInit /\ [][PartsNext]_allVars

------------------------------
\* User memory and the kernel heap: no page is backed by memory that was given
\* back or shared while writable, also when the kernel writes for a program and
\* when the region table is full; the heap is tiled by its blocks and merged.
KernelMemorySound == TypeOK /\ PagesSound /\ HeapTiles /\ FreeMerged

\* The disk file system: at rest it passes its own check, and files whose
\* operations were completed survive whatever power failures there were.
DiskSound == FsckCleanAtRest /\ UntornFilesIntact

\* The file system in memory: blocks and reference counts are exact through
\* unlink, fork and exit, and a write stays in its file.
ChfsSound == ChfsBlocksOwned /\ RefCountExact /\ WriteStaysInFile

\* The network: TCP keeps what must be repeated, reads in order and invents
\* nothing; the card's rings lose no frame; ARP and UDP name the right host.
NetworkSound ==
    /\ SlotCoversUnacked /\ ReceivedInOrder /\ NothingInvented
    /\ FramesKept /\ ReceivedAll
    /\ ArpCurrent /\ PeerReached

\* The disks: start-up spares a root file system it finds, a command gets its
\* own completion, a write spares its neighbours, a read brings its sector.
DevicesSound == RootKept /\ OwnCompletion /\ NeighboursKept /\ VirtioReadsRight

\* The desktop: the screen shows the scene, the windows their programs, the
\* titles the focus, and a click reaches what it was aimed at, as long as no
\* operation was made in the middle of another.
DesktopSound ==
    ~gui_mixed => ScreenFresh /\ ClientAboveFrame /\ OneLitTitle /\ SurfacesOwned /\ HitIsSeen

\* The console: a key has one receiver, both copies of the modifiers agree, no
\* move is lost, the keyboard is left on, lines can be read and screens show
\* what was written.
ConsoleSound ==
    /\ OneKeyReceiver /\ ModifiersAgree /\ MovesKept /\ KeyboardBack
    /\ LineReadable /\ ScreenShowsTail /\ ScrollbackKept

\* Counters, clocks and sums: ticks are accounted for, sleeps and alarms last
\* what was asked for across every wrap, logs and averages are in order, and a
\* header with its checksum is accepted.
HousekeepingSound ==
    /\ ChecksumAccepted
    /\ TicksAccounted /\ GovernorFollows /\ LogInOrder /\ ProfOrdered
    /\ SleepsMeasured /\ AlarmOnTime

\* The dynamic linker: no failure and no close leaks a region, TLS blocks are
\* apart and mapped while in use but for tls_main_drop(), and what is held is
\* loaded.
LinkerSound == NothingLeaks /\ TlsApart /\ TlsMainFits /\ TlsInUseMapped /\ LoadedWhileHeld

\* No step hands a datagram to two sockets (net.c, udp_input), and none runs an
\* object's initialisers before those of its dependencies (dl.c, dl_open_mode).
KernelSteps == [][OneReceiver /\ DependenciesFirst]_allVars
==============================
