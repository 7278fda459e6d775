------------------------------- MODULE Net64 -------------------------------
(***************************************************************************)
(* Network services of the 64-bit port (kernel/arch/x86_64): addresses and *)
(* their text (ipstack64.c), the neighbour cache (arpndp64.c), name        *)
(* queries and answers (dns64.c), options of DHCP messages (dhcp64.c) and  *)
(* of router advertisements (slaac64.c), datagram sockets (udp64.c),       *)
(* stream sockets (tcp64.c), interfaces (net64.c), the congestion window   *)
(* (cubic64.c), packet rules (netfilter64.c) and the stations of an access *)
(* point (apmode64.c).  Each is a part of its own.  Bytes are numbers, and *)
(* fields of fixed width are shortened to what the parsers tell apart.     *)
(***************************************************************************)
EXTENDS Tables64, TLC

CONSTANTS
    Octets, Groups6,
    ARPV4_MAX, ARPNDP64_TTL, ArpIps, ArpMacs, ArpEnd,
    DnsAnswers, DNS_HEADER,
    TlvOptions, TlvMessages,
    UDP64_MAX, UDP64_BUF, UdpPorts, UdpBytes,
    TCP_MAX, TcpNumbers, NET_MAX, NicNumbers, NetPackets,
    CubicAcks, CubicLosses, CubicSeconds,
    NETFILTER64_MAX_RULES, FilterAddrs, FilterPorts,
    APMODE64_MAX_STA, StaMacs, StaAids

\* What the proofs use: the tables have a size, the ring of a socket has room
\* for a byte, and addresses and ports are numbers other than 0.
ASSUME Net64Assumption ==
    /\ {ARPV4_MAX, ARPNDP64_TTL, UDP64_MAX, TCP_MAX, TcpNumbers, NET_MAX, APMODE64_MAX_STA} \subseteq Nat
    /\ UDP64_BUF \in Nat \ {0}
    /\ UdpPorts \cup ArpMacs \cup StaMacs \subseteq Nat \ {0}

VARIABLES
    ad_text, ad_text6, ad_groups,
    arp_tab, arp_now, arp_owed,
    dns_list, dns_cut,
    tlv_list, tlv_cut,
    ud_tab, ud_owed,
    tc_tab, tc_ctr, tc_owed,
    ni_tab, ni_ctr,
    cu, cu_now, cu_acks, cu_losses, cu_lossw,
    nf_rules,
    ap_tab, ap_next, ap_n, ap_owed
addrVars == <<ad_text, ad_text6, ad_groups>>
ndpVars == <<arp_tab, arp_now, arp_owed>>
dnsVars == <<dns_list, dns_cut>>
tlvVars == <<tlv_list, tlv_cut>>
udp64Vars == <<ud_tab, ud_owed>>
tcp64Vars == <<tc_tab, tc_ctr, tc_owed>>
nicVars == <<ni_tab, ni_ctr>>
cubicVars == <<cu, cu_now, cu_acks, cu_losses, cu_lossw>>
filterVars == <<nf_rules>>
staVars == <<ap_tab, ap_next, ap_n, ap_owed>>

------------------------------
(* Addresses as text.  A text is a sequence of digits and DOT.             *)

DOT == 10
AddrInit == ad_text = <<>> /\ ad_text6 = <<>> /\ ad_groups = <<>>

Decimal(v) ==
    IF v < 10 THEN <<v>> ELSE IF v < 100 THEN <<v \div 10, v % 10>>
    ELSE <<v \div 100, (v \div 10) % 10, v % 10>>
ipstack64_fmt4(ip) ==
    Decimal(ip[1]) \o <<DOT>> \o Decimal(ip[2]) \o <<DOT>> \o Decimal(ip[3]) \o <<DOT>> \o Decimal(ip[4])

NextSegment(st) == [st EXCEPT !.seg = @ + 1, !.digits = 0]
\* One character of ipstack64_parse4(); rc # 0 ends it.
Parse4Char(st, c) ==
    IF st.rc # 0 THEN st
    ELSE IF c # DOT
    THEN IF st.parts[st.seg] * 10 + c > 255 THEN [st EXCEPT !.rc = -2]
         ELSE [st EXCEPT !.parts[st.seg] = @ * 10 + c, !.digits = @ + 1]
    ELSE IF st.digits = 0 \/ st.seg > 3 THEN [st EXCEPT !.rc = -3]
    ELSE NextSegment(st)
ipstack64_parse4(text) ==
    LET st == FoldLeft(Parse4Char, [seg |-> 1, digits |-> 0, parts |-> <<0, 0, 0, 0>>, rc |-> 0], text)
    IN IF st.rc # 0 THEN st
       ELSE [st EXCEPT !.rc = IF st.digits = 0 THEN -3 ELSE IF st.seg # 4 THEN -5 ELSE 0]

\* IPv6 groups; SEP stands for ":" and GAP for "::".
SEP == -1
GAP == -2
Joined(g) == IF g = <<>> THEN <<>> ELSE FlattenSeq([i \in 1 .. Len(g) |-> IF i = 1 THEN <<g[i]>> ELSE <<SEP, g[i]>>])
ipstack64_fmt6(g) == Joined(g)
Numbers(text) == SelectSeq(text, LAMBDA t : t >= 0)
\* The groups after the gap go to the end.
Expanded(head, tail) ==
    [i \in 1 .. 8 |-> IF i <= Len(head) THEN head[i]
                      ELSE IF i > 8 - Len(tail) THEN tail[i - 8 + Len(tail)] ELSE 0]
ipstack64_parse6(text) ==
    LET gaps == {i \in 1 .. Len(text) : text[i] = GAP}
        cut == IF gaps = {} THEN Len(text) + 1 ELSE Min(gaps)
        head == Numbers(SubSeq(text, 1, cut - 1))
        tail == Numbers(SubSeq(text, cut + 1, Len(text)))
    IN IF Cardinality(gaps) > 1 \/ Len(head) + Len(tail) > 8 \/ (gaps = {} /\ Len(head) # 8) THEN <<>>
       ELSE Expanded(head, tail)

\* A text as somebody writes it: an address, perhaps without one character.
WriteText4(ip, drop) ==
    /\ drop <= Len(ipstack64_fmt4(ip))
    /\ ad_text' = IF drop = 0 THEN ipstack64_fmt4(ip) ELSE RemoveAt(ipstack64_fmt4(ip), drop)
    /\ UNCHANGED <<ad_text6, ad_groups>>
\* An address whose groups i to j are zero and left out, or in full (i = 0).
WriteText6(a, b, i, j) ==
    LET g == [k \in 1 .. 8 |-> IF k >= i /\ k <= j THEN 0 ELSE IF k < i THEN a ELSE b]
    IN /\ i <= j
       /\ ad_groups' = g
       /\ ad_text6' = IF i = 0 THEN ipstack64_fmt6(g)
                      ELSE Joined(SubSeq(g, 1, i - 1)) \o <<GAP>> \o Joined(SubSeq(g, j + 1, 8))
       /\ UNCHANGED ad_text
AddrNext ==
  /\ ad_text = <<>> /\ ad_text6 = <<>>
  /\ \/ \E a, b, c, d \in Octets, drop \in 0 .. 15 : WriteText4(<<a, b, c, d>>, drop)
     \/ \E a, b \in Groups6, i, j \in 0 .. 8 : WriteText6(a, b, i, j)

------------------------------
(* The neighbour cache (the tables for IPv4 and IPv6 are alike).           *)

NoArp == [used |-> FALSE, ip |-> 0, complete |-> FALSE, mac |-> 0, expiry |-> 0]
NdpInit ==
    /\ arp_tab = [i \in 1 .. ARPV4_MAX |-> NoArp]
    /\ arp_now = 0
    /\ arp_owed = [ip \in ArpIps |-> [mac |-> 0, at |-> 0]]
ArpAt(ip) == FirstOf({i \in Taken(arp_tab) : arp_tab[i].ip = ip})
\* arpndp64_add4(): an answer (mac # 0) or a question that was sent (mac = 0).
arpndp64_add4(ip, mac) ==
    /\ \E i \in {IF ArpAt(ip) # 0 THEN ArpAt(ip) ELSE FirstFree(arp_tab)} :
          /\ i # 0
          /\ arp_tab' = [arp_tab EXCEPT ![i] =
                [used |-> TRUE, ip |-> ip, complete |-> mac # 0,
                 mac |-> IF mac # 0 THEN mac ELSE @.mac, expiry |-> arp_now + ARPNDP64_TTL]]
    /\ arp_owed' = IF mac # 0 THEN [arp_owed EXCEPT ![ip] = [mac |-> mac, at |-> arp_now]] ELSE arp_owed
    /\ UNCHANGED arp_now
Expired(i) == arp_tab[i].expiry <= arp_now
\* arpndp64_lookup4(): 0 for none; an entry that is too old is dropped.
LookupMac(ip) ==
    LET i == ArpAt(ip)
    IN IF i = 0 THEN 0 ELSE IF ~arp_tab[i].complete \/ Expired(i) THEN 0 ELSE arp_tab[i].mac
arpndp64_lookup4(ip) ==
    /\ ArpAt(ip) # 0 /\ arp_tab[ArpAt(ip)].complete /\ Expired(ArpAt(ip))
    /\ arp_tab' = [arp_tab EXCEPT ![ArpAt(ip)] = NoArp]
    /\ UNCHANGED <<arp_now, arp_owed>>
arpndp64_tick ==
    /\ arp_tab' = [i \in 1 .. ARPV4_MAX |-> IF arp_tab[i].used /\ Expired(i) THEN NoArp ELSE arp_tab[i]]
    /\ UNCHANGED <<arp_now, arp_owed>>
NdpTime == arp_now < ArpEnd /\ arp_now' = arp_now + 1 /\ UNCHANGED <<arp_tab, arp_owed>>
NdpNext ==
    \/ \E ip \in ArpIps, mac \in {0} \cup ArpMacs : arpndp64_add4(ip, mac)
    \/ \E ip \in ArpIps : arpndp64_lookup4(ip)
    \/ arpndp64_tick \/ NdpTime

------------------------------
(* Name queries and answers.  A label is its length and so many bytes, a   *)
(* name ends with 0 or with a pointer: PTR and a position.  The question   *)
(* has one byte after the name, a record type, length and data.            *)

PTR == 192
DnsInit == dns_list = <<>> /\ dns_cut = 0

\* dns64_query(): header, the labels of the name (one of length 2, one of 1).
dns64_query == [i \in 1 .. DNS_HEADER |-> 0] \o <<2, 7, 7, 1, 7, 0>> \o <<1>>
\* A server's answer: the question again and the records; a record's name is
\* a pointer to the question, or a label and a pointer.
AnswerName(a) == IF a.far THEN <<1, 8, PTR, DNS_HEADER + 4>> ELSE <<PTR, DNS_HEADER + 1>>
AnswerBytes(a) == AnswerName(a) \o <<a.type, Len(a.data)>> \o a.data
Response(list) == dns64_query \o FlattenSeq([i \in 1 .. Len(list) |-> AnswerBytes(list[i])])

\* The position after a pointer.
InPlace(p, pos) == pos + 2
\* dns64_skip_name(): the bytes the name takes where it stands, -1 when it does
\* not end inside the message.
dns64_skip_name(p, start) ==
    LET Ends[g \in 0 .. 8, pos \in 0 .. 255] ==
            IF g = 0 \/ pos > Len(p) THEN FALSE
            ELSE IF p[pos] = PTR THEN pos + 1 <= Len(p) /\ Ends[g - 1, p[pos + 1]]
            ELSE p[pos] = 0 \/ (pos + p[pos] <= Len(p) /\ Ends[g - 1, pos + 1 + p[pos]])
        End[pos \in 0 .. 255] ==
            IF p[pos] = PTR THEN InPlace(p, pos)
            ELSE IF p[pos] = 0 THEN pos + 1 ELSE End[pos + 1 + p[pos]]
    IN IF Ends[8, start] THEN End[start] - start ELSE -1

\* dns64_parse(): the addresses of the records that are whole; type 1 with
\* two bytes of data is an address.
dns64_parse(p, count) ==
    LET question == dns64_skip_name(p, DNS_HEADER + 1)
        Record(st, k) ==
            LET s == IF st.stop THEN -1 ELSE dns64_skip_name(p, st.pos)
                at == st.pos + s
            IN IF s < 0 \/ at + 1 > Len(p) THEN [st EXCEPT !.stop = TRUE]
               ELSE IF at + 1 + p[at + 1] > Len(p) THEN [st EXCEPT !.stop = TRUE]
               ELSE [pos |-> at + 2 + p[at + 1], stop |-> FALSE,
                     ips |-> IF p[at] = 1 /\ p[at + 1] = 2
                             THEN Append(st.ips, SubSeq(p, at + 2, at + 3)) ELSE st.ips]
    IN IF question < 0 \/ DNS_HEADER + question + 1 > Len(p) THEN <<>>
       ELSE FoldLeft(Record, [pos |-> DNS_HEADER + 1 + question + 1, stop |-> FALSE, ips |-> <<>>],
                     [k \in 1 .. count |-> k]).ips

\* A response, cut somewhere.
DnsResponse(list, cut) ==
    /\ dns_list = <<>> /\ dns_cut = 0
    /\ cut <= Len(Response(list))
    /\ dns_list' = list
    /\ dns_cut' = cut
DnsNext ==
    \E n \in 0 .. 2 : \E list \in [1 .. n -> DnsAnswers], cut \in 0 .. 40 : DnsResponse(list, cut)

------------------------------
(* Options: DHCP's have a type and the length of the data, 0 is padding    *)
(* and 255 the end; those of a router advertisement have a length in units *)
(* that includes the type.                                                 *)

TlvInit == tlv_list = <<>> /\ tlv_cut = 0
DhcpBytes(o) == IF o[1] \in {0, 255} THEN <<o[1]>> ELSE <<o[1], Len(o) - 1>> \o Tail(o)
DhcpMessage(list) == FlattenSeq([i \in 1 .. Len(list) |-> DhcpBytes(list[i])])

OptionFits(p, pos) == pos + 1 + p[pos + 1] <= Len(p)
\* The option loop of dhcp64_offer_parse(): type -> data, the last of each.
dhcp64_offer_parse(p) ==
    LET Got[pos \in 1 .. Len(p) + 9] ==
            IF pos > Len(p) THEN <<>>
            ELSE IF p[pos] = 255 THEN <<>>
            ELSE IF p[pos] = 0 THEN Got[pos + 1]
            ELSE IF pos + 1 > Len(p) THEN <<>>
            ELSE IF ~OptionFits(p, pos) THEN <<>>
            ELSE LET rest == Got[pos + 2 + p[pos + 1]]
                 IN IF p[pos] \in DOMAIN rest THEN rest
                    ELSE rest @@ (p[pos] :> SubSeq(p, pos + 2, Min({Len(p), pos + 1 + p[pos + 1]})))
    IN Got[1]

\* A router advertisement's option: <<3, lifetime, prefix>> of two units, any
\* other of one.
RaBytes(o) == IF o[1] = 3 THEN <<3, 2, o[2], o[Len(o)]>> ELSE <<o[1], 1>>
RaMessage(list) == FlattenSeq([i \in 1 .. Len(list) |-> RaBytes(list[i])])
PrefixCounts(life) == life # 0
\* slaac64_ra_parse(): the first prefix with a lifetime.
slaac64_ra_parse(p) ==
    LET Got[pos \in 1 .. Len(p) + 2] ==
            IF pos + 1 > Len(p) THEN -3
            ELSE IF p[pos + 1] = 0 \/ pos + 2 * p[pos + 1] - 1 > Len(p) THEN -3
            ELSE IF p[pos] = 3 /\ p[pos + 1] >= 2 /\ PrefixCounts(p[pos + 2]) THEN p[pos + 3]
            ELSE Got[pos + 2 * p[pos + 1]]
    IN Got[1]

TlvMessage(list, cut) ==
    /\ tlv_list = <<>> /\ tlv_cut = 0
    /\ cut <= Len(DhcpMessage(list))
    /\ tlv_list' = list
    /\ tlv_cut' = cut
TlvNext ==
    \E n \in 0 .. TlvMessages : \E list \in [1 .. n -> TlvOptions], cut \in 0 .. 4 * TlvMessages :
        TlvMessage(list, cut)

------------------------------
(* Datagram sockets: a ring that gives back what was sent.                 *)

NoUdp == [used |-> FALSE, port |-> 0, rx |-> [i \in 0 .. UDP64_BUF - 1 |-> 0], head |-> 0, len |-> 0]
Udp64Init ==
    /\ ud_tab = [i \in 1 .. UDP64_MAX |-> NoUdp]
    /\ ud_owed = [i \in 1 .. UDP64_MAX |-> <<>>]
udp64_socket ==
    /\ FirstFree(ud_tab) # 0
    /\ ud_tab' = [ud_tab EXCEPT ![FirstFree(ud_tab)] =
          [@ EXCEPT !.used = TRUE, !.port = 0, !.head = 0, !.len = 0]]
    /\ ud_owed' = [ud_owed EXCEPT ![FirstFree(ud_tab)] = <<>>]
udp64_bind(i, port) ==
    /\ ud_tab[i].used
    /\ \A j \in Taken(ud_tab) \ {i} : ud_tab[j].port # port
    /\ ud_tab' = [ud_tab EXCEPT ![i].port = port]
    /\ UNCHANGED ud_owed
RingRoom(s) == UDP64_BUF - s.len
udp64_send(i, buf) ==
    /\ ud_tab[i].used /\ Len(buf) <= RingRoom(ud_tab[i])
    /\ \E s \in {ud_tab[i]} :
          ud_tab' = [ud_tab EXCEPT
             ![i].rx = [k \in 0 .. UDP64_BUF - 1 |->
                LET at == {n \in 1 .. Len(buf) : (s.head + s.len + n - 1) % UDP64_BUF = k}
                IN IF at = {} THEN s.rx[k] ELSE buf[Max(at)]],
             ![i].len = s.len + Len(buf)]
    /\ ud_owed' = [ud_owed EXCEPT ![i] = @ \o buf]
RingBytes(s) == [n \in 1 .. s.len |-> s.rx[(s.head + n - 1) % UDP64_BUF]]
udp64_recv(i, max) ==
    /\ ud_tab[i].used /\ ud_tab[i].len > 0
    /\ \E n \in {Min({ud_tab[i].len, max})} :
          /\ ud_tab' = [ud_tab EXCEPT ![i].head = (@ + n) % UDP64_BUF, ![i].len = @ - n]
          /\ ud_owed' = [ud_owed EXCEPT ![i] = SubSeq(@, n + 1, Len(@))]
udp64_close(i) ==
    /\ ud_tab[i].used
    /\ ud_tab' = [ud_tab EXCEPT ![i] = [NoUdp EXCEPT !.rx = ud_tab[i].rx]]
    /\ ud_owed' = [ud_owed EXCEPT ![i] = <<>>]
Udp64Next ==
    \/ udp64_socket
    \/ \E i \in 1 .. UDP64_MAX :
          \/ udp64_close(i)
          \/ \E p \in UdpPorts : udp64_bind(i, p)
          \/ \E b \in UdpBytes, n \in 1 .. 2 : udp64_send(i, [k \in 1 .. n |-> b]) \/ udp64_recv(i, n)

------------------------------
(* Stream sockets and interfaces, each with room for one packet.           *)

NoSock == [state |-> "free", sock |-> 0, pkt |-> 0, valid |-> FALSE]
tcp64_init ==
    /\ tc_tab = [i \in 1 .. TCP_MAX |-> NoSock]
    /\ tc_ctr = 0
    /\ tc_owed = [s \in 1 .. TcpNumbers |-> <<>>]
find_sock(s) == FirstOf({i \in 1 .. TCP_MAX : tc_tab[i].state # "free" /\ tc_tab[i].sock = s})
NewSock(old) == [old EXCEPT !.state = "created", !.sock = tc_ctr + 1, !.valid = FALSE]
tcp64_socket ==
    LET free == {i \in 1 .. TCP_MAX : tc_tab[i].state = "free"}
    IN /\ tc_ctr < TcpNumbers /\ free # {}
       /\ tc_ctr' = tc_ctr + 1
       /\ tc_tab' = [tc_tab EXCEPT ![Min(free)] = NewSock(@)]
       /\ UNCHANGED tc_owed
tcp64_close(s) ==
    /\ find_sock(s) # 0
    /\ tc_tab' = [tc_tab EXCEPT ![find_sock(s)].state = "free", ![find_sock(s)].sock = 0]
    /\ UNCHANGED <<tc_ctr, tc_owed>>
\* tcp64_bind() and tcp64_connect().
TcpStep(s, from, to) ==
    /\ find_sock(s) # 0 /\ tc_tab[find_sock(s)].state = from
    /\ tc_tab' = [tc_tab EXCEPT ![find_sock(s)].state = to]
    /\ UNCHANGED <<tc_ctr, tc_owed>>
tcp64_bind(s) == TcpStep(s, "created", "bound")
tcp64_connect(s) == TcpStep(s, "bound", "connected")
tcp64_send(s, v) ==
    /\ find_sock(s) # 0
    /\ tc_tab[find_sock(s)].state = "connected" /\ ~tc_tab[find_sock(s)].valid
    /\ tc_tab' = [tc_tab EXCEPT ![find_sock(s)].pkt = v, ![find_sock(s)].valid = TRUE]
    /\ tc_owed' = [tc_owed EXCEPT ![s] = Append(@, v)]
    /\ UNCHANGED tc_ctr
tcp64_recv(s) ==
    /\ find_sock(s) # 0
    /\ tc_tab[find_sock(s)].state = "connected" /\ tc_tab[find_sock(s)].valid
    /\ tc_tab' = [tc_tab EXCEPT ![find_sock(s)].valid = FALSE]
    /\ tc_owed' = [tc_owed EXCEPT ![s] = Tail(@)]
    /\ UNCHANGED tc_ctr
Tcp64Next ==
    \/ tcp64_socket
    \/ \E s \in 1 .. TcpNumbers : tcp64_close(s) \/ tcp64_bind(s) \/ tcp64_connect(s) \/ tcp64_recv(s)
    \/ \E s \in 1 .. TcpNumbers, v \in NetPackets : tcp64_send(s, v)

NoNic == [used |-> FALSE, iface |-> 0, valid |-> FALSE, tx |-> 0, rx |-> 0]
net64_init == ni_tab = [i \in 1 .. NET_MAX |-> NoNic] /\ ni_ctr = 0
find_if(n) == FirstOf({i \in Taken(ni_tab) : ni_tab[i].iface = n})
NewNic(old) == [NoNic EXCEPT !.used = TRUE, !.iface = ni_ctr + 1]
net64_if_add ==
    /\ ni_ctr < NicNumbers /\ FirstFree(ni_tab) # 0
    /\ ni_ctr' = ni_ctr + 1
    /\ ni_tab' = [ni_tab EXCEPT ![FirstFree(ni_tab)] = NewNic(@)]
net64_if_del(n) ==
    /\ find_if(n) # 0
    /\ ni_tab' = [ni_tab EXCEPT ![find_if(n)].used = FALSE, ![find_if(n)].iface = 0]
    /\ UNCHANGED ni_ctr
net64_send(n) ==
    /\ find_if(n) # 0 /\ ~ni_tab[find_if(n)].valid /\ ni_tab[find_if(n)].tx < 3
    /\ ni_tab' = [ni_tab EXCEPT ![find_if(n)].valid = TRUE, ![find_if(n)].tx = @ + 1]
    /\ UNCHANGED ni_ctr
net64_recv(n) ==
    /\ find_if(n) # 0 /\ ni_tab[find_if(n)].valid
    /\ ni_tab' = [ni_tab EXCEPT ![find_if(n)].valid = FALSE, ![find_if(n)].rx = @ + 1]
    /\ UNCHANGED ni_ctr
NicNext ==
    \/ net64_if_add
    \/ \E n \in 1 .. NicNumbers : net64_if_del(n) \/ net64_send(n) \/ net64_recv(n)

------------------------------
(* The congestion window, in 1024ths of a segment; time in seconds.        *)

SCALE == 1024
CUBIC_C == 410
BETA == 717
cubic64_init ==
    /\ cu = [cwnd |-> 10 * SCALE, ssthresh |-> 64 * SCALE, wmax |-> 0, epoch |-> 0, origin |-> 0]
    /\ cu_now = 1
    /\ cu_acks = 0 /\ cu_losses = 0
    /\ cu_lossw = 0             \* the window at the last loss
cubic64_cbrt(x) == Max({r \in 0 .. 40 : r * r * r <= x})
CubicK(origin) == cubic64_cbrt(((origin \div SCALE) * (SCALE - BETA)) \div CUBIC_C)

CubicTarget(origin, t, k) ==
    LET dt == IF t >= k THEN t - k ELSE k - t
        diff == CUBIC_C * dt * dt * dt
    IN IF t >= k THEN origin + diff ELSE IF origin > diff THEN origin - diff ELSE SCALE

Approach(cwnd, target) ==
    IF target > cwnd THEN cwnd + (target - cwnd) \div 16 + 1
    ELSE IF target < cwnd /\ cwnd > SCALE THEN cwnd - ((cwnd - target) \div 16 + 1) ELSE cwnd
\* An epoch starts with the first acknowledgement outside slow start.
Epoch(c) ==
    IF c.epoch # 0 THEN c
    ELSE [c EXCEPT !.epoch = cu_now, !.origin = IF c.wmax > c.cwnd THEN c.wmax ELSE c.cwnd]
cubic64_ack ==
    /\ cu_acks < CubicAcks
    /\ cu_acks' = cu_acks + 1
    /\ IF cu.cwnd < cu.ssthresh THEN cu' = [cu EXCEPT !.cwnd = @ + SCALE]
       ELSE \E c \in {Epoch(cu)} :
               cu' = [c EXCEPT !.cwnd =
                  Approach(c.cwnd, CubicTarget(c.origin, cu_now - c.epoch, CubicK(c.origin)))]
    /\ UNCHANGED <<cu_now, cu_losses, cu_lossw>>
cubic64_loss ==
    /\ cu_losses < CubicLosses
    /\ cu_losses' = cu_losses + 1
    /\ cu_lossw' = cu.cwnd
    /\ \E w \in {Max({(cu.cwnd * BETA) \div SCALE, 2 * SCALE})} :
          cu' = [cu EXCEPT !.wmax = cu.cwnd, !.cwnd = w, !.ssthresh = w, !.epoch = 0]
    /\ UNCHANGED <<cu_now, cu_acks>>
CubicTime ==
    /\ cu_now < CubicSeconds
    /\ cu_now' = cu_now + 1
    /\ UNCHANGED <<cu, cu_acks, cu_losses, cu_lossw>>
CubicNext == cubic64_ack \/ cubic64_loss \/ CubicTime

------------------------------
(* Packet rules of one chain; 0 in a rule matches everything.              *)

FilterInit == nf_rules = <<>>
netfilter64_add(src, port, verdict) ==
    /\ Len(nf_rules) < NETFILTER64_MAX_RULES
    /\ nf_rules' = Append(nf_rules, [src |-> src, port |-> port, verdict |-> verdict])
Deciding(rules, src, port) ==
    {i \in 1 .. Len(rules) :
        /\ rules[i].src \in {0, src} /\ rules[i].port \in {0, port}
        /\ rules[i].verdict # "log"}
\* The first rule that is definite.
Decides(S) == Min(S)
netfilter64_hook(rules, src, port) ==
    LET S == Deciding(rules, src, port)
    IN IF S = {} THEN "accept" ELSE rules[Decides(S)].verdict
FilterNext ==
    \E s \in {0} \cup FilterAddrs, p \in {0} \cup FilterPorts, v \in {"accept", "drop", "log"} :
        netfilter64_add(s, p, v)

------------------------------
(* Stations of the access point.                                           *)

NoSta == [used |-> FALSE, mac |-> 0, aid |-> 0, authorized |-> FALSE]
StaInit ==
    /\ ap_tab = [i \in 1 .. APMODE64_MAX_STA |-> NoSta]
    /\ ap_next = 1
    /\ ap_n = 0
    /\ ap_owed = {}         \* stations authorized since they came
StaAt(mac) == FirstOf({i \in Taken(ap_tab) : ap_tab[i].mac = mac})
NewSta(old, mac) == [used |-> TRUE, mac |-> mac, aid |-> ap_next, authorized |-> FALSE]
apmode64_sta_add(mac) ==
    /\ ap_next <= StaAids /\ StaAt(mac) = 0 /\ FirstFree(ap_tab) # 0
    /\ ap_tab' = [ap_tab EXCEPT ![FirstFree(ap_tab)] = NewSta(@, mac)]
    /\ ap_next' = ap_next + 1
    /\ ap_n' = ap_n + 1
    /\ UNCHANGED ap_owed
apmode64_sta_authorize(mac) ==
    /\ StaAt(mac) # 0
    /\ ap_tab' = [ap_tab EXCEPT ![StaAt(mac)].authorized = TRUE]
    /\ ap_owed' = ap_owed \cup {mac}
    /\ UNCHANGED <<ap_next, ap_n>>
apmode64_sta_remove(mac) ==
    /\ StaAt(mac) # 0
    /\ ap_tab' = [ap_tab EXCEPT ![StaAt(mac)].used = FALSE]
    /\ ap_n' = ap_n - 1
    /\ ap_owed' = ap_owed \ {mac}
    /\ UNCHANGED ap_next
StaNext ==
    \E mac \in StaMacs : apmode64_sta_add(mac) \/ apmode64_sta_authorize(mac) \/ apmode64_sta_remove(mac)

------------------------------

\* A text is taken for an address exactly when it has four fields, none empty
\* and none above 255, and the fields are its value.
Parse4Exact ==
    LET dots == {i \in 0 .. Len(ad_text) + 1 : i \in {0, Len(ad_text) + 1} \/ ad_text[i] = DOT}
        cut == SetToSortSeq(dots, <)
        fields == [k \in 1 .. Len(cut) - 1 |-> SubSeq(ad_text, cut[k] + 1, cut[k + 1] - 1)]
        Value(f) == FoldLeft(LAMBDA v, c : v * 10 + c, 0, f)
        got == ipstack64_parse4(ad_text)
    IN IF Len(fields) = 4 /\ \A k \in DOMAIN fields : fields[k] # <<>> /\ Value(fields[k]) <= 255
       THEN got.rc = 0 /\ got.parts = [k \in 1 .. 4 |-> Value(fields[k])]
       ELSE got.rc # 0
\* The short and the full form of an IPv6 address are read as the address.
Parse6Exact == ad_groups # <<>> => ipstack64_parse6(ad_text6) = ad_groups

\* A lookup answers with the address that was learned last, and never with one
\* learned a lifetime ago.
NeighbourFresh ==
    \A ip \in ArpIps : LookupMac(ip) # 0 =>
        LookupMac(ip) = arp_owed[ip].mac /\ arp_now < arp_owed[ip].at + ARPNDP64_TTL

\* From a response that may be cut the parser takes the addresses of the
\* records that are whole, in order, whatever the form of their names.
AnswersTaken ==
    LET whole == {n \in 0 .. Len(dns_list) : Len(Response(SubSeq(dns_list, 1, n))) <= dns_cut}
        good == SelectSeq(IF whole = {} THEN <<>> ELSE SubSeq(dns_list, 1, Max(whole)),
                          LAMBDA a : a.type = 1 /\ Len(a.data) = 2)
    IN dns64_parse(SubSeq(Response(dns_list), 1, dns_cut), Len(dns_list))
          = [k \in 1 .. Len(good) |-> good[k].data]

\* Of a message that may be cut the options that are whole and before the end
\* mark are read, the last of each type counting; ...
OptionsRead ==
    LET whole == Max({n \in 0 .. Len(tlv_list) : Len(DhcpMessage(SubSeq(tlv_list, 1, n))) <= tlv_cut})
        ends == {i \in 1 .. whole : tlv_list[i][1] = 255}
        seen == SubSeq(tlv_list, 1, IF ends = {} THEN whole ELSE Min(ends) - 1)
        types == {seen[i][1] : i \in 1 .. Len(seen)} \ {0}
    IN dhcp64_offer_parse(SubSeq(DhcpMessage(tlv_list), 1, tlv_cut))
          = [t \in types |-> Tail(seen[Max({i \in 1 .. Len(seen) : seen[i][1] = t})])]
\* ... and of an advertisement the first prefix that has not run out.
PrefixLive ==
    LET live == {i \in 1 .. Len(tlv_list) : tlv_list[i][1] = 3 /\ tlv_list[i][2] # 0}
    IN slaac64_ra_parse(RaMessage(tlv_list))
          = IF live = {} THEN -3 ELSE tlv_list[Min(live)][Len(tlv_list[Min(live)])]

\* A socket holds the bytes that were sent and not received, in order, and no
\* two sockets have a port in common.
DatagramsKept ==
    /\ \A i \in Taken(ud_tab) : RingBytes(ud_tab[i]) = ud_owed[i]
    /\ \A i, j \in Taken(ud_tab) : i # j /\ ud_tab[i].port # 0 => ud_tab[i].port # ud_tab[j].port

\* A socket's packet is the one sent on this socket, never one of a socket
\* that had its place before.
OwnPacket ==
    \A i \in 1 .. TCP_MAX : tc_tab[i].state # "free" =>
        tc_owed[tc_tab[i].sock] = IF tc_tab[i].valid THEN <<tc_tab[i].pkt>> ELSE <<>>

\* An interface has sent what it received and the packet it holds.
NicCounts ==
    \A i \in Taken(ni_tab) : ni_tab[i].tx = ni_tab[i].rx + IF ni_tab[i].valid THEN 1 ELSE 0

\* The window is never under one segment, and until K seconds after a loss it
\* does not grow past the window the loss happened at.
WindowSane ==
    /\ cu.cwnd >= SCALE
    /\ cu.epoch # 0 /\ cu_now - cu.epoch < CubicK(cu.origin) => cu.cwnd <= Max({cu_lossw, cu.origin})

\* A rule that is added does not change the verdict on a packet that an
\* earlier rule decides.
EarlierRulesHold ==
    [\A s \in FilterAddrs, p \in FilterPorts :
        Deciding(nf_rules, s, p) # {} =>
            netfilter64_hook(nf_rules', s, p) = netfilter64_hook(nf_rules, s, p)]_filterVars

\* A station that comes back has to be authorized again; stations are counted
\* and have numbers of their own.
StationsApart ==
    /\ ap_n = Cardinality(Taken(ap_tab))
    /\ \A i \in Taken(ap_tab) : ap_tab[i].authorized => ap_tab[i].mac \in ap_owed
    /\ \A i, j \in Taken(ap_tab) : i # j => ap_tab[i].aid # ap_tab[j].aid /\ ap_tab[i].mac # ap_tab[j].mac
==============================
