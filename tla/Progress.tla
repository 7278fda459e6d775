------------------------------- MODULE Progress -----------------------------
(***************************************************************************)
(* What must happen in the end: a task that computes gets the CPU, the     *)
(* boot, the enumeration of USB devices and a line given to the shell come *)
(* to an end.  "part" is chosen at the start and only the part that was    *)
(* chosen takes steps; fairness is that of the part.                       *)
(***************************************************************************)
EXTENDS Scheduler, Boot, Usb, UserShell

MCDevices == {"ps2mouse", "apic", "acpi", "virtio", "xhci", "nvme", "e1000"}
MCMachines == {d \in SUBSET MCDevices : Cardinality(d) \in {0, 1, 6, 7}}
MCUsbPorts == <<"disk", "kbd">>
MCUsbReports == {{}, {"a"}, {"rollover"}}
MCShLines == {
  <<"true", "|", "cat", "|", "cat", ">", "f">>,
  <<"false", "||", "echo", ">", "f", "&&", "cat", "<", "none">>,
  <<"true", "|", "cat", "&">>,
  <<"wait">>, <<"jobs">>, <<"echo", "|", "cat">>, <<"fg", "%1">>, <<"kill", "%1", ";", "$X", "|", "jobs">>,
  <<"false", ";", "$X", "&&", "echo">>,
  <<"export", "nope", "&&", "$X", "||", "exit">> }

\* The part that runs.
VARIABLE part
parts == {"sched", "boot", "usb", "sh"}
allVars == <<part, vars, bootVars, usbVars, shVars>>

PartsInit ==
    /\ part \in parts
    /\ Init
    /\ bootInit
    /\ xhci_init
    /\ shInit
PartsNext ==
    /\ UNCHANGED part
    /\ IF part = "sched" THEN Next ELSE UNCHANGED vars
    /\ IF part = "boot" THEN bootNext ELSE UNCHANGED bootVars
    /\ IF part = "usb" THEN usbNext ELSE UNCHANGED usbVars
    /\ IF part = "sh" THEN shNext ELSE UNCHANGED shVars
PartsSpec == PartsInit /\ [][PartsNext]_allVars
    /\ WF_vars(part = "sched" /\ \E S \in SUBSET Blocked : Tick(S))
    /\ WF_bootVars(part = "boot" /\ (PowerUp \/ BootStep)) /\ WF_bootVars(part = "boot" /\ BootIrq(0))
    /\ WF_usbVars(part = "usb" /\ UsbTask)
    /\ WF_shVars(part = "sh" /\ ShellStep)
    /\ \A p \in 1 .. 8 : WF_shVars(part = "sh" /\ p \in Pids /\ ChildStep(p))

------------------------------
\* Starting up: nothing is used before it is up, open lines have handlers, the
\* tables suffice (kernel_main); USB slots and keys are those of the devices,
\* whatever completions come late (xhci.c).
StartSound ==
    /\ NothingBeforeInit /\ OpenLinesHandled /\ BootFits
    /\ SlotsMatchPort /\ KeysAsReported

\* The shell: descriptors of the shell and of its children are what they should
\* be after every failure, and no child is forgotten (sh.c).
ShellSound == ShellFdsBack /\ ChildFdsClean /\ JobsTracked

\* What is started ends: the boot, the enumeration of USB devices, a line.
PartsEnd == BootCompletes /\ UsbBootEnds /\ LineEnds
==============================
