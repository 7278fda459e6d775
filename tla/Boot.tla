-------------------------------- MODULE Boot --------------------------------
(***************************************************************************)
(* kernel_main (kernel.c): the order in which the 32-bit kernel brings its *)
(* parts up, with the interrupts that become possible on the way (pic.c,   *)
(* isr.c, idt.c, timer.c) and the machine it finds: a framebuffer of some  *)
(* width or none, and any set of the optional devices.                     *)
(*                                                                         *)
(* A step of the table is one paragraph of kernel_main.  tests are the     *)
(* parts and devices its init function asks for before it does anything    *)
(* (it returns at once when one is missing), uses the ones it touches      *)
(* without asking, makes what is up afterwards, ticks how long it waits on *)
(* the tick counter, wins and surfs the windows and surfaces it keeps and  *)
(* peak the surfaces its self-test needs for a while.                      *)
(***************************************************************************)
EXTENDS Integers, Sequences, FiniteSets

CONSTANTS
    FbWidths,      \* widths of the framebuffer the loader may leave, 0 for none
    Machines,      \* the sets of optional devices machines may have
    BootCompMax,   \* COMP_MAX of comp.c
    BootWmMax      \* WM_MAX of wm.c

VARIABLES
    hw,        \* the machine: fb width and set of devices
    pc,        \* the next step of kernel_main
    up,        \* parts that are up
    left,      \* ticks the current step still waits for
    intr,      \* IF, the unmasked lines, the registered handlers, lines raised and not served
    screen     \* windows and surfaces in use

bootVars == <<hw, pc, up, left, intr, screen>>

Step(name, tests, uses, makes) ==
    [name |-> name, tests |-> tests, uses |-> uses, makes |-> makes,
     ticks |-> 0, wins |-> 0, surfs |-> 0, peak |-> 0, wide |-> FALSE]

Windowed(s, wins, surfs, peak) == [s EXCEPT !.wins = wins, !.surfs = surfs, !.peak = peak]

Waiting(s, n) == [s EXCEPT !.ticks = n]

------------------------------
(* The paragraphs of kernel_main in order.                                 *)

BootCore == <<
    Step("serial", {}, {}, {"serial"}),
    Step("boot_info", {}, {"serial"}, {"mbinfo"}),
    Step("gdt", {}, {}, {"gdt"}),
    Step("idt", {}, {"gdt"}, {"idt"}),
    Step("pic", {}, {"idt"}, {"pic"}),
    Step("paging", {}, {"idt"}, {"paging"}),
    Step("pmm", {}, {"mbinfo", "paging"}, {"pmm"}),
    Step("kheap", {}, {"paging"}, {"heap"})>>

BootScreen == <<
    Step("fb", {"display"}, {"mbinfo", "paging", "pmm"}, {"fb"}),
    Step("gfx", {}, {"heap"}, {}),
    Windowed(Step("comp", {"fb"}, {"heap"}, {"comp"}), 0, 0, 2),
    Windowed(Step("wm", {"comp"}, {}, {"wm"}), 0, 0, 4),
    Windowed(Step("wserver", {"wm"}, {"heap"}, {"wserver"}), 0, 0, 2),
    Windowed(Step("widget", {"wm"}, {"heap"}, {"demo"}), 1, 2, 0),
    [Windowed(Step("desk", {"fb"}, {"comp"}, {"desk"}), 0, 3, 0) EXCEPT !.wide = TRUE],
    Windowed(Step("menu", {"fb"}, {"comp"}, {"menu"}), 0, 1, 0),
    Windowed(Step("term", {"wm"}, {"heap"}, {"term"}), 1, 2, 0)>>

BootTime == <<
    Step("sti", {}, {"idt", "pic"}, {"interrupts"}),
    Waiting(Step("timer", {}, {"pic", "interrupts"}, {"timer"}), 2),
    Step("keyboard", {}, {"pic"}, {"keyboard"}),
    Step("input", {}, {}, {"input"}),
    Step("rtc", {}, {}, {"rtc"}),
    Step("syscall", {}, {"idt"}, {"syscall"}),
    Step("task", {}, {"heap", "paging"}, {"task"}),
    Step("wserver_task", {"wserver"}, {"task"}, {"wserver_task"}),
    Step("term_task", {"term"}, {"task"}, {"term_task"}),
    Waiting(Step("apic", {"apic"}, {"paging", "timer", "interrupts"}, {"smp"}), 1)>>

BootFiles == <<
    Step("chfs", {}, {}, {"chfs"}),
    Step("programs", {}, {"chfs"}, {"bin"})>>

BootLibraries == <<
    Step("libraries", {}, {"chfs"}, {"lib"})>>

BootDesktop == <<
    Windowed(Step("fm", {"wm"}, {"chfs"}, {"fm"}), 1, 2, 0),
    Windowed(Step("anim", {"comp"}, {}, {}), 0, 0, 1),
    Step("inr", {"fb"}, {"comp", "wm", "input"}, {"inr"}),
    Step("inr_task", {"inr"}, {"task"}, {"inr_task"}),
    Windowed(Step("surfaces", {"wm"}, {}, {}), 0, 0, 4),
    Step("font", {}, {}, {}),
    Step("clip", {}, {}, {"clip"}),
    Step("vt", {"fb"}, {"comp"}, {"vt"}),
    Step("vt_task", {"vt"}, {"task"}, {"vt_task"}),
    Windowed(Step("theme", {}, {}, {"theme"}), 0, 0, 2),
    Windowed(Step("apps", {"wm"}, {"theme", "chfs"}, {"apps"}), 3, 6, 0),
    Windowed(Step("de", {"fb"}, {"comp", "theme"}, {}), 0, 0, 1),
    Step("mouse", {"ps2mouse"}, {"pic", "input"}, {"mouse"})>>

BootChecks == <<
    Step("gui_lite", {}, {"heap"}, {}),
    Step("tcp_selftest", {}, {}, {"tcp"}),
    Step("dev", {}, {"chfs"}, {"dev"}),
    Step("libmath", {}, {"chfs", "lib"}, {}),
    Step("brk", {}, {"task"}, {}),
    Step("pty", {}, {}, {}),
    Step("futex", {}, {"task"}, {}),
    Step("perm", {}, {}, {}),
    Step("init_getty", {}, {"chfs", "bin"}, {})>>

BootTracing == <<
    Step("syslog", {}, {"timer", "task"}, {"syslog"}),
    Step("trace", {}, {"syslog"}, {"trace"}),
    Step("prof", {}, {"syslog", "trace"}, {"prof"})>>

BootRegistry == <<
    Step("selftests", {}, {"trace", "syslog"}, {"registry"}),
    Step("sysdoc", {}, {"registry"}, {}),
    Step("abi", {}, {"registry", "syscall"}, {}),
    Step("power", {}, {"registry", "trace"}, {"power"}),
    Step("thermal", {}, {"registry", "power", "trace"}, {"thermal"})>>

BootParsers == <<
    Step("usbdesc", {}, {"registry"}, {}),
    Step("pcibar", {}, {"registry"}, {}),
    Step("raster", {}, {"registry"}, {}),
    Step("audio", {}, {"registry"}, {}),
    Waiting(Step("acpi", {"acpi"}, {"timer", "interrupts", "rtc"}, {"acpi"}), 2)>>

BootDevices == <<
    Step("pci", {}, {}, {"pci"}),
    Step("virtio", {"virtio"}, {"pci", "heap"}, {"virtio_blk"}),
    Step("xhci", {"xhci"}, {"pci", "heap", "pmm"}, {"xhci_up"}),
    Step("usbhid", {"xhci_up"}, {"input"}, {"usbhid"}),
    Step("nvme", {"nvme"}, {"pci", "heap"}, {"nvme_blk"}),
    Step("gpt", {"nvme_blk"}, {}, {"gpt"}),
    Step("diskfs_nvme", {"gpt"}, {}, {}),
    Step("diskfs", {}, {}, {"diskfs"}),
    Step("hda", {"hda"}, {"pci"}, {"hda_up"}),
    Waiting(Step("clock", {}, {"timer", "interrupts"}, {"clock"}), 1),
    Step("timer_queue", {}, {"clock"}, {"timer_queue"}),
    Step("cpu", {}, {}, {})>>

BootLate == <<
    Step("thermal_again", {}, {"trace"}, {"thermal"}),
    Step("desktop_v2", {}, {}, {}),
    Step("packages", {}, {}, {"pkg"}),
    Step("sysmon", {}, {}, {"sysmon"}),
    Step("boot_flow", {}, {}, {}),
    Step("watchdog", {}, {}, {}),
    Waiting(Step("net", {"e1000"}, {"pci", "timer", "interrupts"}, {"net"}), 1),
    Step("tcp_server", {}, {"tcp"}, {}),
    Step("signal", {}, {"task"}, {"signal", "sem"}),
    Step("user_launch", {}, {"task", "paging", "pmm", "syscall", "chfs"}, {"userprog"}),
    Step("preempt", {}, {"timer", "task"}, {"preempt"}),
    Step("vt_switch", {"vt"}, {}, {"text"}),
    Step("schedule", {}, {"task", "userprog", "preempt"}, {"running"})>>

BootSteps == BootCore \o BootScreen \o BootTime \o BootFiles \o BootLibraries \o BootDesktop
             \o BootChecks \o BootTracing \o BootRegistry \o BootParsers \o BootDevices \o BootLate

------------------------------
Found == hw.devices \cup (IF hw.width > 0 THEN {"display"} ELSE {})

(* comp_create refuses a surface wider than 1024: the panel is as wide as  *)
(* the screen, and desk_init gives up with its first surface.              *)
SurfaceFits(s) == s.wide => hw.width <= 1024

(* Lines whose interrupt a step opens after it registered the handler.     *)
LineOf(name) == CASE name = "timer" -> {0} [] name = "keyboard" -> {1} [] name = "mouse" -> {2, 12} [] OTHER -> {}

(* isr_register_handler and pic_clear_mask; line 2 is the cascade and has  *)
(* no handler of its own.                                                  *)
Wired(i, name) ==
    [i EXCEPT !.handlers = @ \cup (LineOf(name) \ {2}), !.open = @ \cup LineOf(name),
              !.if = @ \/ name = "sti"]

Runs(s) == s.tests \subseteq (Found \cup up)

(* One paragraph of kernel_main, whole except for its wait.                *)
BootStep ==
    /\ pc \in 1 .. Len(BootSteps) /\ left = 0
    /\ \E s \in {BootSteps[pc]} :
          /\ pc' = pc + 1
          /\ IF Runs(s)
             THEN /\ up' = IF SurfaceFits(s) THEN up \cup s.makes ELSE up
                  /\ left' = s.ticks
                  /\ intr' = Wired(intr, s.name)
                  /\ screen' = IF SurfaceFits(s)
                               THEN [wins |-> screen.wins + s.wins, surfs |-> screen.surfs + s.surfs]
                               ELSE screen
             ELSE UNCHANGED <<up, left, intr, screen>>
    /\ UNCHANGED hw

(* timer_handler, keyboard_handler and mouse_handler: the interrupt is     *)
(* taken when IF is set and the line is open.                              *)
BootIrq(line) ==
    /\ intr.if /\ line \in intr.open /\ line \in intr.handlers
    /\ line = 0 => left > 0
    /\ left' = IF line = 0 THEN left - 1 ELSE left
    /\ intr' = [intr EXCEPT !.raised = @ \ {line}]
    /\ line # 0 => line \in intr.raised
    /\ UNCHANGED <<hw, pc, up, screen>>

(* A key or the mouse, at any moment.                                      *)
DeviceRaises(line) ==
    /\ line \notin intr.raised /\ pc > 0
    /\ intr' = [intr EXCEPT !.raised = @ \cup {line}]
    /\ UNCHANGED <<hw, pc, up, left, screen>>

(* The loader hands over some machine.                                     *)
PowerUp ==
    /\ pc = 0 /\ pc' = 1
    /\ \E w \in FbWidths, d \in Machines : hw' = [width |-> w, devices |-> d]
    /\ UNCHANGED <<up, left, intr, screen>>

bootInit ==
    /\ hw = [width |-> 0, devices |-> {}] /\ pc = 0 /\ up = {} /\ left = 0
    /\ intr = [if |-> FALSE, open |-> {}, handlers |-> {}, raised |-> {}]
    /\ screen = [wins |-> 0, surfs |-> 0]

bootNext == PowerUp \/ BootStep \/ (\E l \in {0, 1} : BootIrq(l)) \/ DeviceRaises(1)

(* The processor goes on executing, and the timer goes on ticking.         *)
bootSpec == bootInit /\ [][bootNext]_bootVars /\ WF_bootVars(PowerUp \/ BootStep) /\ WF_bootVars(BootIrq(0))

------------------------------
(* Whatever the machine lacks, a step of kernel_main touches only parts    *)
(* that are up: every use that is not tested by the function itself is     *)
(* covered by the order of the calls.                                      *)
NothingBeforeInit ==
    pc \in 1 .. Len(BootSteps) =>
        LET s == BootSteps[pc] IN Runs(s) => s.uses \subseteq up

(* An interrupt that can be delivered has a handler: no line is open       *)
(* without one, save the cascade.                                          *)
OpenLinesHandled == intr.open \subseteq intr.handlers \cup {2}

(* The tables are large enough for everything boot creates and for what    *)
(* the self-tests need besides ("6 pencere x 2 yüzey + kabuk/menü + pay",  *)
(* comp.c:12).                                                             *)
BootFits ==
    /\ screen.wins <= BootWmMax /\ screen.surfs <= BootCompMax
    /\ pc \in 1 .. Len(BootSteps) =>
           LET s == BootSteps[pc] IN Runs(s) => screen.surfs + s.surfs + s.peak <= BootCompMax

(* Boot ends: every wait on the tick counter is made with interrupts on    *)
(* and the timer running, so kernel_main reaches its first schedule() on   *)
(* every machine.                                                          *)
BootCompletes == (pc > 0) ~> [](pc = Len(BootSteps) + 1 /\ "running" \in up)

(* On a machine with a framebuffer the desktop comes up with its panel     *)
(* ("29A: Masaüstü v2 (1920x1080 + HiDPI-lite)", kernel.c:1034).           *)
DesktopHasPanel == ("running" \in up /\ "fb" \in up) => "desk" \in up
==============================
