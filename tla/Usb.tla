-------------------------------- MODULE Usb ---------------------------------
(***************************************************************************)
(* USB keyboards and mice: the xHCI host controller driver (xhci.c), the   *)
(* walker over configuration descriptors (usbdesc.c) and the HID boot      *)
(* protocol (usbhid.c).  The boot task enumerates the ports and then polls *)
(* in the self test; the timer interrupt polls from its handler; the       *)
(* controller (external) fetches transfer blocks and posts events at its   *)
(* own pace.  A locked section of the driver is one step, what the boot    *)
(* task does between two of them is not.  Waits are bounded by ticks that  *)
(* have no relation to the controller, so a wait may end at any time.      *)
(***************************************************************************)
EXTENDS Integers, Sequences, FiniteSets, FiniteSetsExt, SequencesExt

CONSTANTS
    XHCI_NCMD,      \* blocks of a command or transfer ring, its link apart
    XHCI_NEVT,      \* entries of the event ring
    XHCI_NDEV,      \* slots the driver has memory for; HID_MAX_DEV also
    UsbPorts,       \* what is plugged into ports 1, 2, ...
    UsbReports,     \* reports a keyboard may send: sets of usages
    UsbMaxReports,  \* bound: reports a device sends
    UsbSelfPolls,   \* rounds of usbhid_selftest()
    UsbFaults       \* "stall": a transfer or command may fail

ASSUME UsbAssumption ==
    /\ XHCI_NCMD \in Nat \ {0} /\ XHCI_NEVT \in Nat \ {0, 1} /\ XHCI_NDEV \in Nat \ {0}
    /\ UsbMaxReports \in Nat /\ UsbSelfPolls \in Nat
    /\ UsbPorts \in Seq({"none", "kbd", "mouse", "disk"})

VARIABLES
    cmd_ring,    \* [idx, cycle, trb]: the command ring and where to queue next
    evt_ring,    \* [idx, cycle, trb]: the event ring and where to read next
    pend_cmd,    \* [active, trb, cc, slot]: the command waited for
    ctrl_wait,   \* [active, slot, cc]: the control transfer waited for
    xdev,        \* slot -> its rings and its interrupt transfer
    hdev,        \* [used, slot, port, prev] of the devices in use
    usb_task,    \* the boot task: [pc, port, stage, slot, polls, dev, seen]
    usb_hc,      \* the controller: its place in every ring, its slots
    usb_dma,     \* [stage, buf]: what it wrote to memory
    usb_keys,    \* keys the keyboard driver was told are down
    usb_wire     \* history: reports sent, the last one; a submission raced, or a
                 \* report was wiped; the last request succeeded with another
                 \* one's data
usbVars == <<cmd_ring, evt_ring, pend_cmd, ctrl_wait, xdev, hdev, usb_task,
             usb_hc, usb_dma, usb_keys, usb_wire>>

UsbSlots == 1 .. XHCI_NDEV

------------------------------
(* Rings.  The block after the last one is a link back to the first, with  *)
(* the toggle flag, written once with its cycle bit set.                   *)

NoTrb == [c |-> 0, op |-> "none"]
NewRing == [idx |-> 0, cycle |-> 1, trb |-> [i \in 0 .. XHCI_NCMD - 1 |-> NoTrb]]

NextPlace(r, n) ==
    IF r.idx + 1 >= n THEN [r EXCEPT !.idx = 0, !.cycle = 1 - r.cycle]
    ELSE [r EXCEPT !.idx = r.idx + 1]
trb_write(r, op) ==
    NextPlace([r EXCEPT !.trb[r.idx] = [c |-> r.cycle, op |-> op]], XHCI_NCMD)

\* What the controller does at the end of a ring, and whether the block it is
\* at is its to execute.
LinkCycle == 1
FollowLink(h) ==
    IF h.idx = XHCI_NCMD /\ h.cycle = LinkCycle
    THEN [idx |-> 0, cycle |-> 1 - h.cycle] ELSE h
HcReady(r, h) ==
    LET g == FollowLink(h) IN g.idx < XHCI_NCMD /\ r.trb[g.idx].c = g.cycle
HcBlock(r, h) == r.trb[FollowLink(h).idx].op
HcPast(h) == [FollowLink(h) EXCEPT !.idx = @ + 1]
HcStart == [idx |-> 0, cycle |-> 1]

------------------------------
NoXdev == [slot |-> 0, dci |-> FALSE, ep0 |-> NewRing, intr |-> NewRing,
           pending |-> FALSE, trb |-> 0]
NoEvent == [c |-> 0, type |-> "none", trb |-> 0, slot |-> 0, ep |-> 0, cc |-> "none"]
NoHid == [used |-> FALSE, slot |-> 0, port |-> 0, proto |-> "none", prev |-> {}]

xhci_init ==
    /\ cmd_ring = NewRing
    /\ evt_ring = [idx |-> 0, cycle |-> 1, trb |-> [i \in 0 .. XHCI_NEVT - 1 |-> NoEvent]]
    /\ pend_cmd = [active |-> FALSE, trb |-> 0, cc |-> "none", slot |-> 0]
    /\ ctrl_wait = [active |-> FALSE, slot |-> 0, cc |-> "none"]
    /\ xdev = [s \in UsbSlots |-> NoXdev]
    /\ hdev = [i \in UsbSlots |-> NoHid]
    /\ usb_task = [pc |-> "init", port |-> 1, stage |-> 1, slot |-> 0,
                   polls |-> UsbSelfPolls, dev |-> 1, seen |-> FALSE]
    /\ usb_hc = [cmd |-> HcStart, evt |-> [idx |-> 0, cycle |-> 1], slots |-> <<>>,
                 ep0 |-> [s \in UsbSlots |-> HcStart], intr |-> [s \in UsbSlots |-> HcStart],
                 setup |-> [s \in UsbSlots |-> "none"]]
    /\ usb_dma = [stage |-> "pattern", buf |-> [i \in UsbSlots |-> {}]]
    /\ usb_keys = {}
    /\ usb_wire = [sent |-> [i \in UsbSlots |-> 0], last |-> [i \in UsbSlots |-> {}],
                   raced |-> FALSE, stale |-> FALSE]

\* The entry of hdev a slot belongs to, 0 if there is none; the slot's port.
HidOf(s) == IF \E i \in UsbSlots : hdev[i].used /\ hdev[i].slot = s
            THEN Min({i \in UsbSlots : hdev[i].used /\ hdev[i].slot = s}) ELSE 0
\* The entry of a new device is in use before it is counted.
hid_count == Cardinality({i \in UsbSlots : hdev[i].used})
             - (IF usb_task.pc = "count" THEN 1 ELSE 0)

------------------------------
(* Events.                                                                 *)

\* hid_emit() for every usage that changed.  Usage 1 reports that too many
\* keys are down; it takes the place of all of them.
NotKeys == {"rollover"}
kbd_report(keys, prev, r) ==
    (keys \ {k \in prev \ NotKeys : k \notin r}) \cup {k \in r \ NotKeys : k \notin prev}

\* State a drain works on: the driver's part, the devices and the keys.
Drain == [pend |-> pend_cmd, ctrl |-> ctrl_wait, xdev |-> xdev, hdev |-> hdev,
          keys |-> usb_keys]

hid_intr_cb(d, e) ==
    LET i == HidOf(e.slot) IN
    IF e.cc # "ok" \/ i = 0 \/ d.hdev[i].proto # "kbd" THEN d
    ELSE [d EXCEPT !.keys = kbd_report(d.keys, d.hdev[i].prev, usb_dma.buf[i]),
                   !.hdev[i].prev = usb_dma.buf[i]]

CmdEventTakenAny(d, e) == d.pend.active
CmdEventMine(d, e) == d.pend.active /\ e.trb = d.pend.trb

evt_one(d, e) ==
    CASE e.type = "cmd" /\ CmdEventMine(d, e) ->
            [d EXCEPT !.pend = [active |-> FALSE, trb |-> e.trb, cc |-> e.cc, slot |-> e.slot]]
      [] e.type = "xfer" /\ d.ctrl.active /\ e.slot = d.ctrl.slot /\ e.ep = 1 ->
            [d EXCEPT !.ctrl = [active |-> FALSE, slot |-> e.slot, cc |-> e.cc]]
      [] e.type = "xfer" /\ e.ep # 1 /\ d.xdev[e.slot].pending /\ e.trb = d.xdev[e.slot].trb ->
            hid_intr_cb([d EXCEPT !.xdev[e.slot].pending = FALSE], e)
      [] OTHER -> d

\* The entries whose cycle bit is the one expected, from evt_idx on.
EvtAt(k) == (evt_ring.idx + k) % XHCI_NEVT
EvtCycle(k) == IF evt_ring.idx + k < XHCI_NEVT THEN evt_ring.cycle ELSE 1 - evt_ring.cycle
EvtPending ==
    LET Mine(k) == evt_ring.trb[EvtAt(k)].c = EvtCycle(k)
    IN Max({n \in 0 .. XHCI_NEVT : \A k \in 0 .. n - 1 : Mine(k)})
Pending == [k \in 1 .. EvtPending |-> evt_ring.trb[EvtAt(k - 1)]]
ReportUnread(s) == \E k \in 1 .. EvtPending : Pending[k].slot = s /\ Pending[k].ep # 1

evt_drain(d) == FoldLeft(evt_one, d, Pending)
\* Entries stay in memory when read; only their cycle bits are looked at again.
EvtRead ==
    [idx |-> EvtAt(EvtPending), cycle |-> EvtCycle(EvtPending),
     trb |-> [i \in DOMAIN evt_ring.trb |->
                 IF \E k \in 0 .. EvtPending - 1 : EvtAt(k) = i
                 THEN [NoEvent EXCEPT !.c = evt_ring.trb[i].c] ELSE evt_ring.trb[i]]]

xhci_poll ==
    \E d \in {evt_drain(Drain)} :
       /\ pend_cmd' = d.pend /\ ctrl_wait' = d.ctrl /\ xdev' = d.xdev
       /\ hdev' = d.hdev /\ usb_keys' = d.keys
       /\ evt_ring' = EvtRead

------------------------------
(* Interrupt transfers.  Whether one is pending is read before the lock is *)
(* taken.                                                                  *)

IntrFree(x, s) == s \in UsbSlots /\ x[s].slot # 0 /\ x[s].dci /\ ~x[s].pending
IntrQueued(x, s) ==
    [x EXCEPT ![s].trb = x[s].intr.idx, ![s].pending = TRUE,
              ![s].intr = trb_write(x[s].intr, "normal")]
xhci_intr_submit(x, s) == IF IntrFree(x, s) THEN IntrQueued(x, s) ELSE x

\* usbhid_timer_poll(): from the timer interrupt, all of it with interrupts off.
usbhid_timer_poll ==
    /\ hid_count > 0
    /\ \E d \in {evt_drain(Drain)} :
          /\ pend_cmd' = d.pend /\ ctrl_wait' = d.ctrl
          /\ hdev' = d.hdev /\ usb_keys' = d.keys
          /\ xdev' = FoldLeft(xhci_intr_submit, d.xdev,
                              [i \in UsbSlots |-> IF hdev[i].used THEN hdev[i].slot ELSE 0])
    /\ evt_ring' = EvtRead
    /\ UNCHANGED <<cmd_ring, usb_task, usb_hc, usb_dma, usb_wire>>

------------------------------
(* The boot task: usbhid_init() over the ports, then usbhid_selftest().    *)

\* xhci_start: the first part of xhci_init().  The firmware's ownership and the
\* halt are waited for and then taken for granted; a controller that does not
\* leave its reset, is not ready or does not run is left alone.  No controller,
\* or one that cannot be used, also ends here.
InitWaits == <<"bios", "halt", "reset", "ready", "run">>
GivesUp(w) == w \in {"reset", "ready", "run"}
xhci_start ==
    /\ usb_task.pc = "init"
    /\ \/ usb_task' = IF usb_task.stage = Len(InitWaits)
                      THEN [usb_task EXCEPT !.pc = "port", !.stage = 1]
                      ELSE [usb_task EXCEPT !.stage = @ + 1]
       \/ /\ GivesUp(InitWaits[usb_task.stage]) \/ usb_task.stage = 1
          /\ usb_task' = [usb_task EXCEPT !.pc = "done"]
    /\ UNCHANGED <<cmd_ring, evt_ring, pend_cmd, ctrl_wait, xdev, hdev,
                   usb_hc, usb_dma, usb_keys, usb_wire>>

EnumStages == <<"enable", "address", "dev", "cfg9", "cfg", "configure",
                "setcfg", "protocol", "idle">>
Stage == EnumStages[usb_task.stage]
IsCommand(st) == st \in {"enable", "address", "configure"}
DataStages == {"dev", "cfg9", "cfg"}

NextPort(t) ==
    IF t.port = Len(UsbPorts) \/ hid_count = XHCI_NDEV
    THEN [t EXCEPT !.pc = "selftest", !.stage = 1, !.slot = 0, !.dev = 1]
    ELSE [t EXCEPT !.pc = "port", !.port = t.port + 1, !.stage = 1, !.slot = 0]

\* xhci_port_reset(): nothing plugged in, or the reset takes too long.
xhci_port_reset ==
    /\ usb_task.pc = "port"
    /\ \/ /\ UsbPorts[usb_task.port] # "none"
          /\ usb_task' = [usb_task EXCEPT !.pc = "issue"]
       \/ usb_task' = NextPort(usb_task)
    /\ UNCHANGED <<cmd_ring, evt_ring, pend_cmd, ctrl_wait, xdev, hdev,
                   usb_hc, usb_dma, usb_keys, usb_wire>>

\* xhci_make_ep0_ctx() and xhci_intr_ep_setup(): a new ring, if there is memory
\* for the slot.  The controller starts at its beginning.
xhci_make_ep0_ctx(s) ==
    IF s \in UsbSlots
    THEN xdev' = [xdev EXCEPT ![s].slot = s, ![s].dci = FALSE, ![s].pending = FALSE,
                              ![s].ep0 = NewRing]
    ELSE UNCHANGED xdev
xhci_intr_ep_setup(s) ==
    xdev' = [xdev EXCEPT ![s].dci = TRUE, ![s].pending = FALSE, ![s].intr = NewRing]

\* The first half of cmd_issue(), with what enum_device() prepares before it.
cmd_issue ==
    /\ usb_task.pc = "issue" /\ IsCommand(Stage)
    /\ CASE Stage = "address" -> xhci_make_ep0_ctx(usb_task.slot)
         [] Stage = "configure" -> xhci_intr_ep_setup(usb_task.slot)
         [] OTHER -> UNCHANGED xdev
    /\ cmd_ring' = trb_write(cmd_ring, [name |-> Stage, slot |-> usb_task.slot,
                                        port |-> usb_task.port])
    /\ pend_cmd' = [active |-> TRUE, trb |-> cmd_ring.idx, cc |-> "none", slot |-> 0]
    /\ usb_task' = [usb_task EXCEPT !.pc = "wait"]
    /\ usb_dma' = IF Stage = "address" THEN [usb_dma EXCEPT !.stage = "pattern"] ELSE usb_dma
    /\ UNCHANGED <<evt_ring, ctrl_wait, hdev, usb_hc, usb_keys, usb_wire>>

\* The first half of xhci_control(): setup, data if there is any, status.
ControlBlocks(st) ==
    <<[name |-> "setup", of |-> st]>>
    \o (IF st \in DataStages THEN <<[name |-> "data", of |-> st]>> ELSE <<>>)
    \o <<[name |-> "status", of |-> st]>>
xhci_control ==
    /\ usb_task.pc = "issue" /\ ~IsCommand(Stage)
    /\ xdev' = [xdev EXCEPT ![usb_task.slot].ep0 = FoldLeft(trb_write, @, ControlBlocks(Stage))]
    /\ ctrl_wait' = [active |-> TRUE, slot |-> usb_task.slot, cc |-> "none"]
    /\ usb_task' = [usb_task EXCEPT !.pc = "wait"]
    /\ UNCHANGED <<cmd_ring, evt_ring, pend_cmd, hdev, usb_hc, usb_dma, usb_keys, usb_wire>>

\* One turn of either wait: poll.
UsbWait ==
    /\ usb_task.pc = "wait" /\ EvtPending > 0
    /\ xhci_poll
    /\ UNCHANGED <<cmd_ring, usb_task, usb_hc, usb_dma, usb_wire>>

\* Too many ticks have gone by: the answer is no longer waited for, and
\* enum_device() gives up.  The results of the last two requests are ignored.
Ignored(st) == st \in {"protocol", "idle"}
NextStage(t) ==
    IF t.stage = Len(EnumStages) THEN [t EXCEPT !.pc = "register"]
    ELSE [t EXCEPT !.pc = "issue", !.stage = t.stage + 1]
UsbTimeoutControl ==
    /\ usb_task.pc = "wait" /\ ~IsCommand(Stage) /\ ctrl_wait.active
    /\ ctrl_wait' = [ctrl_wait EXCEPT !.active = FALSE]
    /\ usb_task' = IF Ignored(Stage) THEN NextStage(usb_task) ELSE NextPort(usb_task)
    /\ UNCHANGED <<cmd_ring, evt_ring, pend_cmd, xdev, hdev, usb_hc, usb_dma, usb_keys, usb_wire>>
UsbTimeout ==
    /\ usb_task.pc = "wait"
    /\ IF IsCommand(Stage) THEN pend_cmd.active ELSE ctrl_wait.active
    /\ IF IsCommand(Stage)
       THEN pend_cmd' = [pend_cmd EXCEPT !.active = FALSE] /\ UNCHANGED ctrl_wait
       ELSE ctrl_wait' = [ctrl_wait EXCEPT !.active = FALSE] /\ UNCHANGED pend_cmd
    /\ usb_task' = IF Ignored(Stage) THEN NextStage(usb_task) ELSE NextPort(usb_task)
    /\ UNCHANGED <<cmd_ring, evt_ring, xdev, hdev, usb_hc, usb_dma, usb_keys, usb_wire>>

\* usbdesc_find_hid_interrupt() on what hctrl() copied: the whole descriptor of
\* a keyboard or mouse.  The checks of enum_device() on the earlier two.
usbdesc_find_hid_interrupt(kind) == usb_dma.stage = "cfg" /\ kind \in {"kbd", "mouse"}
DescriptorGood ==
    CASE Stage = "cfg" -> usbdesc_find_hid_interrupt(UsbPorts[usb_task.port])
      [] Stage \in DataStages -> usb_dma.stage = Stage
      [] OTHER -> TRUE

\* The second half of a command, and enum_device() up to the next request.
enum_device ==
    /\ usb_task.pc = "wait"
    /\ IF IsCommand(Stage) THEN ~pend_cmd.active ELSE ~ctrl_wait.active
    /\ \E cc \in {IF IsCommand(Stage) THEN pend_cmd.cc ELSE ctrl_wait.cc} :
          /\ usb_task' =
                IF (cc = "ok" /\ DescriptorGood) \/ Ignored(Stage)
                THEN NextStage([usb_task EXCEPT !.slot = IF Stage = "enable" THEN pend_cmd.slot
                                                         ELSE @])
                ELSE NextPort(usb_task)
          /\ usb_wire' = [usb_wire EXCEPT !.stale = /\ cc = "ok" /\ Stage \in DataStages
                                                   /\ usb_dma.stage # Stage]
    /\ UNCHANGED <<cmd_ring, evt_ring, pend_cmd, ctrl_wait, xdev, hdev, usb_hc,
                   usb_dma, usb_keys>>

\* The end of enum_device(), with interrupts on: the device is entered, and a
\* timer that polls for others polls for it too; then its last report is
\* zeroed and it is counted; then its report buffer is zeroed, and only then
\* comes its first transfer.  Either zeroing may wipe a report the timer's poll
\* asked for: what the driver was told, or one that waits to be read.
enum_register ==
    /\ usb_task.pc = "register"
    /\ \E i \in {Min({j \in UsbSlots : ~hdev[j].used})} :
          /\ hdev' = [hdev EXCEPT ![i] = [used |-> TRUE, slot |-> usb_task.slot,
                                          port |-> usb_task.port,
                                          proto |-> UsbPorts[usb_task.port],
                                          prev |-> hdev[i].prev]]
          /\ usb_task' = [usb_task EXCEPT !.pc = "count", !.dev = i]
    /\ UNCHANGED <<cmd_ring, evt_ring, pend_cmd, ctrl_wait, xdev, usb_hc, usb_dma,
                   usb_keys, usb_wire>>
enum_count ==
    /\ usb_task.pc = "count"
    /\ hdev' = [hdev EXCEPT ![usb_task.dev].prev = {}]
    /\ usb_wire' = [usb_wire EXCEPT !.raced = @ \/ hdev[usb_task.dev].prev # {}]
    /\ usb_task' = [usb_task EXCEPT !.pc = "clear"]
    /\ UNCHANGED <<cmd_ring, evt_ring, pend_cmd, ctrl_wait, xdev, usb_hc, usb_dma, usb_keys>>
enum_clear ==
    /\ usb_task.pc = "clear"
    /\ usb_dma' = [usb_dma EXCEPT !.buf[usb_task.dev] = {}]
    /\ usb_wire' = [usb_wire EXCEPT !.raced = @ \/ ReportUnread(usb_task.slot)]
    /\ usb_task' = [usb_task EXCEPT !.pc = "submit"]
    /\ UNCHANGED <<cmd_ring, evt_ring, pend_cmd, ctrl_wait, xdev, hdev, usb_hc, usb_keys>>

\* xhci_intr_submit() by the boot task: the check, and then the locked part.
AfterSubmit(t) ==
    CASE t.slot # 0 -> NextPort(t)
      [] t.dev = XHCI_NDEV -> [t EXCEPT !.pc = "selftest", !.dev = 1]
      [] OTHER -> [t EXCEPT !.pc = "submit", !.dev = t.dev + 1]
submit_check ==
    /\ usb_task.pc = "submit"
    /\ usb_task' = IF hdev[usb_task.dev].used /\ IntrFree(xdev, hdev[usb_task.dev].slot)
                   THEN [usb_task EXCEPT !.pc = "queue"] ELSE AfterSubmit(usb_task)
    /\ UNCHANGED <<cmd_ring, evt_ring, pend_cmd, ctrl_wait, xdev, hdev, usb_hc,
                   usb_dma, usb_keys, usb_wire>>
submit_queue ==
    /\ usb_task.pc = "queue"
    /\ \E s \in {hdev[usb_task.dev].slot} :
          /\ xdev' = IntrQueued(xdev, s)
          /\ usb_wire' = [usb_wire EXCEPT !.raced = @ \/ xdev[s].pending]
    /\ usb_task' = AfterSubmit(usb_task)
    /\ UNCHANGED <<cmd_ring, evt_ring, pend_cmd, ctrl_wait, hdev, usb_hc, usb_dma, usb_keys>>

\* A round of usbhid_selftest(): usbhid_poll() with interrupts on.
usbhid_selftest ==
    /\ usb_task.pc = "selftest"
    /\ IF usb_task.polls = 0 \/ hid_count = 0
       THEN /\ usb_task' = [usb_task EXCEPT !.pc = "done"]
            /\ UNCHANGED <<evt_ring, pend_cmd, ctrl_wait, xdev, hdev, usb_keys>>
       ELSE /\ xhci_poll
            /\ usb_task' = [usb_task EXCEPT !.pc = "submit", !.polls = @ - 1, !.dev = 1]
    /\ UNCHANGED <<cmd_ring, usb_hc, usb_dma, usb_wire>>

------------------------------
(* The controller and the devices.                                         *)

\* An event is posted when the ring has room up to where the driver has read.
HcRoom == (usb_hc.evt.idx + 1) % XHCI_NEVT # evt_ring.idx
HcPost(e) ==
    evt_ring' = [evt_ring EXCEPT !.trb[usb_hc.evt.idx] = [e EXCEPT !.c = usb_hc.evt.cycle]]
EvtPast == NextPlace(usb_hc.evt, XHCI_NEVT)
Codes == {"ok"} \cup (UsbFaults \cap {"stall"})

\* Enable Slot gives the next slot number; the other commands need a context.
HcCommand ==
    /\ HcReady(cmd_ring, usb_hc.cmd) /\ HcRoom
    /\ \E op \in {HcBlock(cmd_ring, usb_hc.cmd)}, cc \in Codes :
          LET ok == cc = "ok" /\ (op.name = "enable" \/ op.slot \in UsbSlots)
              new == Append(usb_hc.slots, op.port)
              s == IF op.name = "enable" THEN Len(new) ELSE op.slot
          IN /\ HcPost([NoEvent EXCEPT !.type = "cmd", !.trb = FollowLink(usb_hc.cmd).idx,
                                       !.slot = s, !.cc = IF ok THEN "ok" ELSE "stall"])
             /\ usb_hc' = [usb_hc EXCEPT
                    !.cmd = HcPast(@), !.evt = EvtPast,
                    !.slots = IF op.name = "enable" /\ ok THEN new ELSE @,
                    !.ep0 = IF op.name = "address" /\ ok THEN [@ EXCEPT ![s] = HcStart] ELSE @,
                    !.intr = IF op.name = "configure" /\ ok THEN [@ EXCEPT ![s] = HcStart] ELSE @]
    /\ UNCHANGED <<cmd_ring, pend_cmd, ctrl_wait, xdev, hdev, usb_task, usb_dma,
                   usb_keys, usb_wire>>

\* A setup block needs no event; data goes to memory before its event.
HcControl(s) ==
    /\ xdev[s].slot = s /\ HcReady(xdev[s].ep0, usb_hc.ep0[s]) /\ HcRoom
    /\ \E op \in {HcBlock(xdev[s].ep0, usb_hc.ep0[s])} :
          IF op.name = "setup"
          THEN /\ usb_hc' = [usb_hc EXCEPT !.ep0[s] = HcPast(@)]
               /\ UNCHANGED <<evt_ring, usb_dma>>
          ELSE \E cc \in Codes :
               /\ HcPost([NoEvent EXCEPT !.type = "xfer", !.slot = s, !.ep = 1, !.cc = cc])
               /\ usb_hc' = [usb_hc EXCEPT !.ep0[s] = HcPast(@), !.evt = EvtPast]
               /\ usb_dma' = IF op.name = "data" /\ cc = "ok"
                             THEN [usb_dma EXCEPT !.stage = op.of] ELSE usb_dma
    /\ UNCHANGED <<cmd_ring, pend_cmd, ctrl_wait, xdev, hdev, usb_task, usb_keys, usb_wire>>

\* The keyboard or mouse has something to report and a block to put it in.
HcReport(s) ==
    /\ xdev[s].dci /\ HcReady(xdev[s].intr, usb_hc.intr[s]) /\ HcRoom
    /\ \E i \in {HidOf(s)} : \E r \in UsbReports :
          /\ i # 0 /\ usb_wire.sent[i] < UsbMaxReports /\ r # usb_wire.last[i]
          /\ hdev[i].proto = "kbd"
          /\ usb_dma' = [usb_dma EXCEPT !.buf[i] = r]
          /\ usb_wire' = [usb_wire EXCEPT !.sent[i] = @ + 1, !.last[i] = r]
    /\ HcPost([NoEvent EXCEPT !.type = "xfer", !.trb = FollowLink(usb_hc.intr[s]).idx,
                              !.slot = s, !.ep = 3, !.cc = "ok"])
    /\ usb_hc' = [usb_hc EXCEPT !.intr[s] = HcPast(@), !.evt = EvtPast]
    /\ UNCHANGED <<cmd_ring, pend_cmd, ctrl_wait, xdev, hdev, usb_task, usb_keys>>

------------------------------
UsbTask ==
    \/ xhci_start \/ xhci_port_reset \/ cmd_issue \/ xhci_control \/ UsbWait \/ UsbTimeout
    \/ enum_device \/ enum_register \/ enum_count \/ enum_clear \/ submit_check \/ submit_queue \/ usbhid_selftest
UsbHc == HcCommand \/ \E s \in UsbSlots : HcControl(s) \/ HcReport(s)
usbNext == UsbTask \/ usbhid_timer_poll \/ UsbHc

\* The boot task runs, and its waits see time pass.  Nothing is asked of the
\* controller.
usbSpec == xhci_init /\ [][usbNext]_usbVars /\ WF_usbVars(UsbTask)

------------------------------
(* Properties.                                                             *)

\* A device in use has the slot the controller gave to its own port, although
\* completions of commands given up on arrive while others are waited for.
SlotsMatchPort ==
    \A i \in UsbSlots : hdev[i].used =>
        /\ usb_hc.slots[hdev[i].slot] = hdev[i].port
        /\ \A j \in UsbSlots : hdev[j].used /\ hdev[j].slot = hdev[i].slot => j = i

\* Once the events posted have been read, the keys the keyboard driver was told
\* are down are the ones in the keyboard's last report.  Two races break it: a
\* block queued over one still pending (the self test against the timer), and a
\* report wiped by enum_device(), which enters the device before it zeroes its
\* buffers (usbhid.c:305-320).
KeysAsReported ==
    EvtPending = 0 /\ ~usb_wire.raced =>
        \A i \in UsbSlots : hdev[i].used /\ hdev[i].proto = "kbd" =>
            usb_keys = usb_wire.last[i] \ NotKeys

\* Whatever the devices and the controller do or fail to do, enumeration and
\* the self test come to an end, so the boot goes on.
UsbBootEnds == (usb_task.pc # "init") ~> (usb_task.pc = "done")

\* usbhid_poll(): "tamamlanan TD'nin yerine yenisini kur (kesintisiz akış)".
\* The block of a pending interrupt transfer is one the controller can fetch,
\* or one it has completed.
ReportsFlow ==
    \A s \in UsbSlots : xdev[s].pending =>
        \/ HcReady(xdev[s].intr, usb_hc.intr[s])
        \/ ReportUnread(s)

\* xhci_control(): "EP0 kontrol transferi (senkron)".  When it reports success,
\* the data in its buffer is the answer to this request.
ControlAnswers == ~usb_wire.stale
==============================
