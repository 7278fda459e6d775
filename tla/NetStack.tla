------------------------------ MODULE NetStack ------------------------------
(***************************************************************************)
(* The network card and the layers below TCP in the 32-bit kernel: the     *)
(* rings of the e1000 (kernel/net/e1000.c) and ARP, UDP and the IP         *)
(* checksum (kernel/net/net.c).  Frames come in from the timer interrupt   *)
(* and from callers that poll, one at a time under poll_lock.  The card    *)
(* works on its own: it may lag behind the wait for it.                    *)
(***************************************************************************)
EXTENDS Integers, Sequences, FiniteSets, FiniteSetsExt, SequencesExt

CONSTANTS
    NicRing,        \* NIC_TX_DESC and NIC_RX_DESC
    NicFrames,      \* bound on the frames sent and received
    ArpCache,       \* ARP_CACHE
    ArpHosts, ArpMacs,
    ArpNews,        \* bound on the entries ever made
    UdpSocks, UdpPorts, UdpData,
    SumWidth,       \* 2^16: the first sum that does not fit a word
    SumWords        \* length of the headers summed

ASSUME NetAssumption ==
    /\ {NicRing, ArpCache, SumWords} \subseteq Nat \ {0}
    /\ {NicFrames, ArpNews} \subseteq Nat
    /\ SumWidth \in Nat \ {0, 1}

------------------------------
(* e1000: the transmit ring.  A descriptor's cmd is set when it is filled  *)
(* and never cleared; DD is set by the card when the frame is gone.        *)
(* e1000_send() takes no lock, and tx_tail moves only when its wait is     *)
(* over: a program and the timer interrupt, whose poll answers ARP and     *)
(* acknowledges segments, may both be in it.                               *)

Senders == {"program", "timer"}
VARIABLES
    txq,       \* descriptor -> [cmd, dd, frame]
    tx_tail,
    tx_tdt,    \* the card's tail register
    tx_hw,     \* the card's head
    tx_at,     \* sender -> [pc, idx]: where it is in e1000_send(), its descriptor
    tx_wire,   \* history: frames put on the wire
    tx_sent,   \* history: frames e1000_send() handed to the card
    tx_clash   \* history: a descriptor was chosen while another was being filled
txVars == <<txq, tx_tail, tx_tdt, tx_hw, tx_at, tx_wire, tx_sent, tx_clash>>

Slots == 0 .. NicRing - 1
txInit ==
    /\ txq = [i \in Slots |-> [cmd |-> FALSE, dd |-> FALSE, frame |-> 0]]
    /\ tx_tail = 0 /\ tx_tdt = 0 /\ tx_hw = 0
    /\ tx_at = [w \in Senders |-> [pc |-> "idle", idx |-> 0]]
    /\ tx_wire = <<>> /\ tx_sent = <<>> /\ tx_clash = FALSE

\* A descriptor that was used is refused: the call returns -1.
SendBegins(w) ==
    /\ tx_at[w].pc = "idle" /\ Len(tx_sent) < NicFrames
    /\ ~txq[tx_tail].dd /\ ~txq[tx_tail].cmd
    /\ tx_at' = [tx_at EXCEPT ![w] = [pc |-> "fill", idx |-> tx_tail]]
    /\ tx_clash' = (tx_clash \/ \E o \in Senders : tx_at[o].pc = "fill")
    /\ UNCHANGED <<txq, tx_tail, tx_tdt, tx_hw, tx_wire, tx_sent>>
SendFills(w) ==
    LET frame == Len(tx_sent) + 1
    IN /\ tx_at[w].pc = "fill"
       /\ txq' = [txq EXCEPT ![tx_at[w].idx] = [cmd |-> TRUE, dd |-> FALSE, frame |-> frame]]
       /\ tx_tdt' = (tx_at[w].idx + 1) % NicRing
       /\ tx_at' = [tx_at EXCEPT ![w].pc = "wait"]
       /\ tx_sent' = Append(tx_sent, frame)
       /\ UNCHANGED <<tx_tail, tx_hw, tx_wire, tx_clash>>
\* The wait for DD ends after a number of rounds, with or without it.
SendEnds(w) ==
    /\ tx_at[w].pc = "wait"
    /\ tx_tail' = (tx_at[w].idx + 1) % NicRing
    /\ tx_at' = [tx_at EXCEPT ![w].pc = "idle"]
    /\ UNCHANGED <<txq, tx_tdt, tx_hw, tx_wire, tx_sent, tx_clash>>
e1000_send(w) == SendBegins(w) \/ SendFills(w) \/ SendEnds(w)
\* The card sends what lies between its head and its tail register.
CardSends ==
    /\ tx_hw # tx_tdt
    /\ IF txq[tx_hw].cmd
       THEN /\ tx_wire' = Append(tx_wire, txq[tx_hw].frame)
            /\ txq' = [txq EXCEPT ![tx_hw].dd = TRUE]
       ELSE UNCHANGED <<tx_wire, txq>>
    /\ tx_hw' = (tx_hw + 1) % NicRing
    /\ UNCHANGED <<tx_tail, tx_tdt, tx_at, tx_sent, tx_clash>>
txNext == CardSends \/ \E w \in Senders : e1000_send(w)

\* Every frame e1000_send() accepted goes out, once and in order: what is on
\* the wire is the start of what was accepted, and what is missing is still in
\* the ring.  The code does not give this: a second call that comes between the
\* choice of a descriptor and its filling gets the same one (e1000.c:234-242).
FramesOut ==
    /\ IsPrefix(tx_wire, tx_sent)
    /\ \A k \in Len(tx_wire) + 1 .. Len(tx_sent) :
          \E i \in Slots : txq[i].frame = tx_sent[k] /\ txq[i].cmd /\ ~txq[i].dd
\* It does while no two calls choose at once, also when a call comes during
\* the wait of another and when the card is slower than that wait.
FramesKept == tx_clash \/ FramesOut

------------------------------
(* e1000: the receive ring.  The card fills from its head up to, and not   *)
(* including, the tail register, without looking at DD.                    *)

VARIABLES
    rxq,        \* descriptor -> frame, 0 when DD is not set
    rx_cur, rx_rdt, rx_rdh,
    rx_came,    \* history: number of frames stored by the card
    rx_got      \* history: frames handed to net_handle_packet()
rxVars == <<rxq, rx_cur, rx_rdt, rx_rdh, rx_came, rx_got>>

rxInit ==
    /\ rxq = [i \in Slots |-> 0]
    /\ rx_cur = 0 /\ rx_rdt = NicRing - 1 /\ rx_rdh = 0 /\ rx_came = 0 /\ rx_got = <<>>

\* A frame that finds the ring full is dropped and not counted.
CardReceives ==
    /\ rx_came < NicFrames /\ rx_rdh # rx_rdt
    /\ rxq' = [rxq EXCEPT ![rx_rdh] = rx_came + 1]
    /\ rx_rdh' = (rx_rdh + 1) % NicRing
    /\ rx_came' = rx_came + 1
    /\ UNCHANGED <<rx_cur, rx_rdt, rx_got>>
\* One round of the loop: the card may store a frame between two rounds.
e1000_poll ==
    /\ rxq[rx_cur] # 0
    /\ rx_got' = Append(rx_got, rxq[rx_cur])
    /\ rxq' = [rxq EXCEPT ![rx_cur] = 0]
    /\ rx_rdt' = (rx_cur + NicRing - 1) % NicRing
    /\ rx_cur' = (rx_cur + 1) % NicRing
    /\ UNCHANGED <<rx_rdh, rx_came>>
rxNext == CardReceives \/ e1000_poll

\* The stack sees every frame the card stored, once and in order: none is
\* stored over one that was not read yet, and reading never falls behind.
ReceivedAll ==
    /\ rx_got = [k \in 1 .. Len(rx_got) |-> k]
    /\ \A k \in Len(rx_got) + 1 .. rx_came : rxq[(rx_cur + k - Len(rx_got) - 1) % NicRing] = k

------------------------------
(* ARP: a cache of ArpCache entries, replaced in turn.                     *)

VARIABLES arp_cache, arp_count_ev,
    arp_last    \* history: the address last heard from each host
arpVars == <<arp_cache, arp_count_ev, arp_last>>

NoArp == [used |-> FALSE, ip |-> 0, mac |-> 0]
arpInit ==
    /\ arp_cache = [i \in 0 .. ArpCache - 1 |-> NoArp]
    /\ arp_count_ev = 0
    /\ arp_last = [h \in ArpHosts |-> 0]

arp_at(ip) == {i \in DOMAIN arp_cache : arp_cache[i].used /\ arp_cache[i].ip = ip}
arp_lookup(ip) == IF arp_at(ip) = {} THEN 0 ELSE arp_cache[Min(arp_at(ip))].mac

\* The count is a byte; its wrap is a multiple of the cache's size.
arp_add(ip, mac) ==
    IF arp_at(ip) # {}
    THEN /\ arp_cache' = [arp_cache EXCEPT ![Min(arp_at(ip))].mac = mac]
         /\ UNCHANGED arp_count_ev
    ELSE /\ arp_count_ev < ArpNews
         /\ arp_cache' = [arp_cache EXCEPT ![arp_count_ev % ArpCache] = [used |-> TRUE, ip |-> ip, mac |-> mac]]
         /\ arp_count_ev' = arp_count_ev + 1
\* arp_handle(): whoever speaks is learnt, asked or not; a request for this
\* host is answered by arp_reply().
arp_handle(ip, mac) ==
    /\ arp_add(ip, mac)
    /\ arp_last' = [arp_last EXCEPT ![ip] = mac]
arpNext == \E ip \in ArpHosts, mac \in ArpMacs : arp_handle(ip, mac)

\* A host is looked up under the address it last gave, or not at all.
ArpCurrent == \A ip \in ArpHosts : arp_lookup(ip) \in {0, arp_last[ip]}

------------------------------
(* UDP: a socket holds one datagram.  A datagram is sent once the host's   *)
(* address is known; until then the call asks for it and fails.            *)

VARIABLES
    udp_socks,   \* sequence of open sockets, [lport, data, peer]
    udp_known    \* the hosts arp_lookup() finds
udpVars == <<udp_socks, udp_known>>

udpInit == udp_socks = <<>> /\ udp_known = {}

\* udp_sock_open() does not look whether the port is taken.
udp_sock_open(port) ==
    /\ Len(udp_socks) < UdpSocks
    /\ udp_socks' = Append(udp_socks, [lport |-> port, data |-> 0, peer |-> 0])
    /\ UNCHANGED udp_known
\* ip_sendframe() asks for the address of an unknown host and gives up.
udp_sock_send(s, ip) ==
    /\ udp_socks' = IF ip \in udp_known THEN [udp_socks EXCEPT ![s].peer = ip] ELSE udp_socks
    /\ UNCHANGED udp_known
HostKnown(ip) == udp_known' = udp_known \cup {ip} /\ UNCHANGED udp_socks
\* The UDP part of ip_handle(): the first socket of the port gets the
\* datagram, over one it may not have read yet.
UdpInput(port, d) ==
    LET at == {i \in DOMAIN udp_socks : udp_socks[i].lport = port}
    IN /\ at # {}
       /\ udp_socks' = [udp_socks EXCEPT ![Min(at)].data = d]
       /\ UNCHANGED udp_known
udpNext ==
    \/ \E p \in UdpPorts : udp_sock_open(p) \/ \E d \in UdpData : UdpInput(p, d)
    \/ \E ip \in ArpHosts : HostKnown(ip) \/ \E s \in DOMAIN udp_socks : udp_sock_send(s, ip)

\* A datagram reaches one socket, also when two are open on its port.
OneReceiver ==
    [Cardinality({i \in DOMAIN udp_socks : udp_socks[i].data # udp_socks'[i].data}) <= 1]_udpVars

\* A socket has as its peer only a host a frame could be sent to.
PeerReached == \A i \in DOMAIN udp_socks : udp_socks[i].peer \in {0} \cup udp_known

------------------------------
(* The Internet checksum over words of SumWidth values.                    *)

VARIABLE net_header
sumInit == net_header \in [1 .. SumWords -> 0 .. SumWidth - 1]
sumNone == net_header = [i \in 1 .. SumWords |-> 0]

\* "while (s >> 16)": the carries are added until there is none.
Folded(s) ==
    LET fold[n \in 0 .. SumWords * SumWidth] ==
            IF n < SumWidth THEN n ELSE fold[(n % SumWidth) + (n \div SumWidth)]
    IN fold[s]
WordSum(p) ==
    LET sum[i \in 0 .. SumWords] == IF i = 0 THEN 0 ELSE sum[i - 1] + p[i] IN sum[SumWords]
ones_sum(p) == Folded(WordSum(p))
ip_cksum(p) == SumWidth - 1 - ones_sum(p)

\* What ip_sendframe() fills in, ip_handle() accepts: with its checksum in the
\* place of its last word, a header sums to nothing, whatever the others hold.
ChecksumAccepted ==
    ip_cksum([net_header EXCEPT ![SumWords] = ip_cksum([net_header EXCEPT ![SumWords] = 0])]) = 0
==============================
