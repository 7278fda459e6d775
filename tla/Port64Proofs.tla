---------------------------- MODULE Port64Proofs ----------------------------
(***************************************************************************)
(* The tables of the network, the accounts and the policies of the 64-bit  *)
(* port, proved for every size and every content, as module                *)
(* Services64Proofs does for its other services; the theorems at the end   *)
(* put the tables of all of them together.                                 *)
(***************************************************************************)
EXTENDS Services64Proofs

------------------------------
(* Neighbours.                                                             *)

\* The strengthening of NeighbourFresh: an address is in the cache once,
\* and a complete entry has what was learned last and runs out a lifetime
\* after that.
ArpEntry == [used : BOOLEAN, ip : ArpIps \cup {0}, complete : BOOLEAN, mac : Nat, expiry : Nat]
NdpInv ==
    /\ arp_tab \in [1 .. ARPV4_MAX -> ArpEntry]
    /\ arp_now \in Nat
    /\ arp_owed \in [ArpIps -> [mac : Nat, at : Nat]]
    /\ \A i \in 1 .. ARPV4_MAX : arp_tab[i].used =>
          /\ arp_tab[i].ip \in ArpIps
          /\ arp_tab[i].complete =>
                /\ arp_tab[i].mac = arp_owed[arp_tab[i].ip].mac
                /\ arp_tab[i].expiry = arp_owed[arp_tab[i].ip].at + ARPNDP64_TTL
    /\ \A i, j \in 1 .. ARPV4_MAX :
          arp_tab[i].used /\ arp_tab[j].used /\ arp_tab[i].ip = arp_tab[j].ip => i = j

LEMMA NdpStarts == NdpInit => NdpInv
<1>1. NoArp \in ArpEntry /\ ~NoArp.used  BY DEF NoArp, ArpEntry
<1>2. [mac |-> 0, at |-> 0] \in [mac : Nat, at : Nat]  OBVIOUS
<1> QED BY <1>1, <1>2 DEF NdpInit, NdpInv

LEMMA FindArp ==
  ASSUME NdpInv, NEW ip, NEW f, f = ArpAt(ip)
  PROVE  /\ f # 0 => f \in 1 .. ARPV4_MAX /\ arp_tab[f].used /\ arp_tab[f].ip = ip
         /\ f = 0 => \A i \in 1 .. ARPV4_MAX : ~(arp_tab[i].used /\ arp_tab[i].ip = ip)
<1> DEFINE S == {i \in Taken(arp_tab) : arp_tab[i].ip = ip}
<1>1. S = {i \in 1 .. ARPV4_MAX : arp_tab[i].used /\ arp_tab[i].ip = ip}  BY DEF Taken, NdpInv
<1>2. (FirstOf(S) = 0 <=> S = {}) /\ (S # {} => FirstOf(S) \in S)  BY <1>1, FirstMatch
<1> HIDE DEF S
<1>3. f = FirstOf(S)  BY DEF S, ArpAt
<1> QED BY <1>1, <1>2, <1>3

LEMMA ArpDropKept ==
  ASSUME NdpInv, arp_now' = arp_now, arp_owed' = arp_owed, DOMAIN arp_tab' = 1 .. ARPV4_MAX,
         arp_tab' = [i \in DOMAIN arp_tab' |-> arp_tab'[i]],
         \A i \in 1 .. ARPV4_MAX : arp_tab'[i] = arp_tab[i] \/ arp_tab'[i] = NoArp
  PROVE  NdpInv'
<1>1. NoArp \in ArpEntry /\ ~NoArp.used  BY DEF NoArp, ArpEntry
<1>2. arp_tab' \in [1 .. ARPV4_MAX -> ArpEntry]  BY <1>1 DEF NdpInv
<1>3. \A i \in 1 .. ARPV4_MAX : arp_tab'[i].used => arp_tab'[i] = arp_tab[i]  BY <1>1
<1> QED BY <1>2, <1>3 DEF NdpInv

LEMMA ArpAddKept ==
  ASSUME NdpInv, NEW ip \in ArpIps, NEW mac \in {0} \cup ArpMacs, arpndp64_add4(ip, mac)
  PROVE  NdpInv'
<1>1. PICK f : f = ArpAt(ip)  OBVIOUS
<1>2. PICK k : /\ k = (IF f # 0 THEN f ELSE FirstFree(arp_tab)) /\ k # 0
               /\ arp_tab' = [arp_tab EXCEPT ![k] =
                    [used |-> TRUE, ip |-> ip, complete |-> mac # 0,
                     mac |-> IF mac # 0 THEN mac ELSE arp_tab[k].mac, expiry |-> arp_now + ARPNDP64_TTL]]
  BY <1>1 DEF arpndp64_add4
<1>3. /\ f # 0 => f \in 1 .. ARPV4_MAX /\ arp_tab[f].used /\ arp_tab[f].ip = ip
      /\ f = 0 => \A i \in 1 .. ARPV4_MAX : ~(arp_tab[i].used /\ arp_tab[i].ip = ip)
  BY <1>1, FindArp
<1>4. arp_tab \in [1 .. ARPV4_MAX -> ArpEntry] /\ DOMAIN arp_tab = 1 .. ARPV4_MAX  BY DEF NdpInv
<1>5. /\ k \in 1 .. ARPV4_MAX
      /\ \A i \in 1 .. ARPV4_MAX : arp_tab[i].used /\ arp_tab[i].ip = ip => i = k
  <2>1. CASE f # 0  BY <1>2, <1>3, <2>1 DEF NdpInv
  <2>2. CASE f = 0
    <3>1. FirstFree(arp_tab) # 0 /\ k = FirstFree(arp_tab)  BY <1>2, <2>2
    <3>2. k \in 1 .. ARPV4_MAX  BY <1>4, <3>1, FreeSlot
    <3> QED BY <1>3, <2>2, <3>2
  <2> QED BY <2>1, <2>2
<1>6. ARPNDP64_TTL \in Nat /\ mac \in Nat /\ arp_now \in Nat /\ arp_now + ARPNDP64_TTL \in Nat
  BY Net64Assumption DEF Net64Assumption, NdpInv
<1>7. PICK e \in ArpEntry : /\ arp_tab' = [arp_tab EXCEPT ![k] = e]
                            /\ e.used /\ e.ip = ip /\ e.expiry = arp_now + ARPNDP64_TTL
                            /\ (e.complete <=> mac # 0) /\ (mac # 0 => e.mac = mac)
  <2>1. arp_tab[k] \in ArpEntry  BY <1>4, <1>5
  <2>2. arp_tab[k].mac \in Nat  BY <2>1 DEF ArpEntry
  <2>3. PICK c \in BOOLEAN, m \in Nat :
            /\ c = (mac # 0) /\ m = (IF mac # 0 THEN mac ELSE arp_tab[k].mac)
            /\ arp_tab' = [arp_tab EXCEPT ![k] = [used |-> TRUE, ip |-> ip, complete |-> c,
                                                  mac |-> m, expiry |-> arp_now + ARPNDP64_TTL]]
    BY <1>2, <1>6, <2>2
  <2> DEFINE e == [used |-> TRUE, ip |-> ip, complete |-> c, mac |-> m, expiry |-> arp_now + ARPNDP64_TTL]
  <2>4. e \in ArpEntry  BY <1>6 DEF ArpEntry
  <2>5. e.used /\ e.ip = ip /\ e.expiry = arp_now + ARPNDP64_TTL /\ e.complete = c /\ e.mac = m  OBVIOUS
  <2> QED BY <2>3, <2>4, <2>5
<1>8. /\ arp_tab' \in [1 .. ARPV4_MAX -> ArpEntry] /\ arp_tab'[k] = e
      /\ \A i \in 1 .. ARPV4_MAX : i # k => arp_tab'[i] = arp_tab[i]
  BY <1>4, <1>5, <1>7
<1>9. /\ arp_owed' \in [ArpIps -> [mac : Nat, at : Nat]] /\ arp_now' = arp_now
      /\ mac # 0 => arp_owed'[ip].mac = mac /\ arp_owed'[ip].at = arp_now
      /\ \A q \in ArpIps : q # ip => arp_owed'[q] = arp_owed[q]
  <2>1. arp_owed \in [ArpIps -> [mac : Nat, at : Nat]] /\ arp_now' = arp_now  BY DEF NdpInv, arpndp64_add4
  <2>2. CASE mac = 0
    <3>1. arp_owed' = arp_owed  BY <2>2 DEF arpndp64_add4
    <3> QED BY <2>1, <2>2, <3>1
  <2>3. CASE mac # 0
    <3>1. arp_owed' = [arp_owed EXCEPT ![ip] = [mac |-> mac, at |-> arp_now]]  BY <2>3 DEF arpndp64_add4
    <3>2. [mac |-> mac, at |-> arp_now] \in [mac : Nat, at : Nat]  BY <1>6
    <3> QED BY <2>1, <3>1, <3>2
  <2> QED BY <2>2, <2>3
<1>10. ASSUME NEW i \in 1 .. ARPV4_MAX, arp_tab'[i].used
       PROVE  /\ arp_tab'[i].ip \in ArpIps
              /\ arp_tab'[i].complete =>
                    /\ arp_tab'[i].mac = arp_owed'[arp_tab'[i].ip].mac
                    /\ arp_tab'[i].expiry = arp_owed'[arp_tab'[i].ip].at + ARPNDP64_TTL
  <2>1. CASE i = k  BY <1>7, <1>8, <1>9, <2>1
  <2>2. CASE i # k
    <3>1. arp_tab'[i] = arp_tab[i] /\ arp_tab[i].ip # ip  BY <1>5, <1>8, <1>10, <2>2
    <3> QED BY <1>9, <1>10, <3>1 DEF NdpInv
  <2> QED BY <2>1, <2>2
<1>11. \A i, j \in 1 .. ARPV4_MAX :
          arp_tab'[i].used /\ arp_tab'[j].used /\ arp_tab'[i].ip = arp_tab'[j].ip => i = j
  BY <1>5, <1>7, <1>8 DEF NdpInv
<1>12. arp_now' \in Nat  BY <1>6, <1>9
<1> QED BY <1>8, <1>9, <1>10, <1>11, <1>12 DEF NdpInv

LEMMA NdpKept == NdpInv /\ NdpNext => NdpInv'
<1> SUFFICES ASSUME NdpInv, NdpNext PROVE NdpInv'  OBVIOUS
<1>1. CASE \E ip \in ArpIps, mac \in {0} \cup ArpMacs : arpndp64_add4(ip, mac)  BY <1>1, ArpAddKept
<1>2. CASE \E ip \in ArpIps : arpndp64_lookup4(ip)
  <2>1. PICK k : arp_tab' = [arp_tab EXCEPT ![k] = NoArp] /\ arp_now' = arp_now /\ arp_owed' = arp_owed
    BY <1>2 DEF arpndp64_lookup4
  <2>2. arp_tab \in [1 .. ARPV4_MAX -> ArpEntry]  BY DEF NdpInv
  <2> QED BY <2>1, <2>2, ArpDropKept
<1>3. CASE arpndp64_tick  BY <1>3, ArpDropKept DEF arpndp64_tick
<1>4. CASE NdpTime
  <2>1. arp_now' \in Nat /\ arp_tab' = arp_tab /\ arp_owed' = arp_owed  BY <1>4 DEF NdpTime, NdpInv
  <2> QED BY <2>1 DEF NdpInv
<1> QED BY <1>1, <1>2, <1>3, <1>4 DEF NdpNext

LEMMA NdpHolds == NdpInv => NeighbourFresh
<1> SUFFICES ASSUME NdpInv, NEW ip \in ArpIps, LookupMac(ip) # 0
             PROVE  LookupMac(ip) = arp_owed[ip].mac /\ arp_now < arp_owed[ip].at + ARPNDP64_TTL
  BY DEF NeighbourFresh
<1>1. PICK f : f = ArpAt(ip)  OBVIOUS
<1>2. f # 0 /\ arp_tab[f].complete /\ ~(arp_tab[f].expiry <= arp_now) /\ LookupMac(ip) = arp_tab[f].mac
  BY <1>1 DEF LookupMac, Expired
<1>3. f \in 1 .. ARPV4_MAX /\ arp_tab[f].used /\ arp_tab[f].ip = ip  BY <1>1, <1>2, FindArp
<1>4. arp_tab[f].mac = arp_owed[ip].mac /\ arp_tab[f].expiry = arp_owed[ip].at + ARPNDP64_TTL
  BY <1>2, <1>3 DEF NdpInv
<1>5. arp_now \in Nat /\ arp_owed[ip].at + ARPNDP64_TTL \in Nat
  <2>1. arp_owed[ip] \in [mac : Nat, at : Nat] /\ ARPNDP64_TTL \in Nat
    BY Net64Assumption DEF NdpInv, Net64Assumption
  <2> QED BY <2>1 DEF NdpInv
<1> QED BY <1>2, <1>4, <1>5

------------------------------
(* Interfaces.                                                             *)

\* NicCounts with the types of the table.
NicEntry == [used : BOOLEAN, iface : Nat, valid : BOOLEAN, tx : Nat, rx : Nat]
NicInv ==
    /\ ni_tab \in [1 .. NET_MAX -> NicEntry] /\ ni_ctr \in Nat
    /\ \A i \in 1 .. NET_MAX : ni_tab[i].used =>
          IF ni_tab[i].valid THEN ni_tab[i].tx = ni_tab[i].rx + 1 ELSE ni_tab[i].tx = ni_tab[i].rx

LEMMA NicStarts == net64_init => NicInv
<1>1. NoNic \in NicEntry /\ ~NoNic.used  BY DEF NoNic, NicEntry
<1> QED BY <1>1 DEF net64_init, NicInv

LEMMA FindNic ==
  ASSUME NicInv, NEW n, NEW f, f = find_if(n), f # 0
  PROVE  f \in 1 .. NET_MAX /\ ni_tab[f].used
<1> DEFINE S == {i \in Taken(ni_tab) : ni_tab[i].iface = n}
<1>1. S = {i \in 1 .. NET_MAX : ni_tab[i].used /\ ni_tab[i].iface = n}  BY DEF Taken, NicInv
<1>2. (FirstOf(S) = 0 <=> S = {}) /\ (S # {} => FirstOf(S) \in S)  BY <1>1, FirstMatch
<1> HIDE DEF S
<1>3. f = FirstOf(S)  BY DEF S, find_if
<1> QED BY <1>1, <1>2, <1>3

\* A step that changes one entry.
LEMMA NicPut ==
  ASSUME NicInv, NEW k \in 1 .. NET_MAX, NEW e \in NicEntry, ni_tab' = [ni_tab EXCEPT ![k] = e],
         ni_ctr' \in Nat, e.used => IF e.valid THEN e.tx = e.rx + 1 ELSE e.tx = e.rx
  PROVE  NicInv'
<1>1. ni_tab' \in [1 .. NET_MAX -> NicEntry] /\ ni_tab'[k] = e /\ \A i \in 1 .. NET_MAX : i # k => ni_tab'[i] = ni_tab[i]
  BY DEF NicInv
<1> QED BY <1>1 DEF NicInv

LEMMA NicKept == NicInv /\ NicNext => NicInv'
<1> SUFFICES ASSUME NicInv, NicNext PROVE NicInv'  OBVIOUS
<1>1. CASE net64_if_add
  <2>1. FirstFree(ni_tab) # 0 /\ DOMAIN ni_tab = 1 .. NET_MAX /\ ni_ctr \in Nat
    BY <1>1 DEF net64_if_add, NicInv
  <2>2. PICK k \in 1 .. NET_MAX : k = FirstFree(ni_tab)  BY <2>1, FreeSlot
  <2>3. PICK e : e = NewNic(ni_tab[k])  OBVIOUS
  <2>4. e \in NicEntry /\ ~e.valid /\ e.tx = e.rx
    <3>1. NoNic \in NicEntry /\ ~NoNic.valid /\ NoNic.tx = NoNic.rx  BY DEF NoNic, NicEntry
    <3>2. e = [NoNic EXCEPT !.used = TRUE, !.iface = ni_ctr + 1]  BY <2>3 DEF NewNic
    <3>3. ni_ctr + 1 \in Nat  BY <2>1
    <3> QED BY <3>1, <3>2, <3>3 DEF NicEntry
  <2>5. ni_tab' = [ni_tab EXCEPT ![k] = e] /\ ni_ctr' \in Nat  BY <1>1, <2>1, <2>2, <2>3 DEF net64_if_add
  <2> QED BY <2>4, <2>5, NicPut
<1>2. ASSUME NEW n, net64_if_del(n) PROVE NicInv'
  <2>1. PICK k \in 1 .. NET_MAX : k = find_if(n) /\ ni_tab[k].used  BY <1>2, FindNic DEF net64_if_del
  <2>2. ni_tab[k] \in NicEntry  BY DEF NicInv
  <2>3. PICK e : e = [ni_tab[k] EXCEPT !.used = FALSE, !.iface = 0]  OBVIOUS
  <2>4. e \in NicEntry /\ ~e.used  BY <2>2, <2>3 DEF NicEntry
  <2>5. ni_tab' = [ni_tab EXCEPT ![k] = e] /\ ni_ctr' \in Nat
    BY <1>2, <2>1, <2>2, <2>3 DEF net64_if_del, NicInv, NicEntry
  <2> QED BY <2>4, <2>5, NicPut
<1>3. ASSUME NEW n, net64_send(n) PROVE NicInv'
  <2>1. PICK k \in 1 .. NET_MAX : k = find_if(n) /\ ni_tab[k].used  BY <1>3, FindNic DEF net64_send
  <2>2. ni_tab[k] \in NicEntry /\ ~ni_tab[k].valid /\ ni_tab[k].tx = ni_tab[k].rx
    BY <1>3, <2>1 DEF NicInv, net64_send
  <2>3. PICK e : e = [ni_tab[k] EXCEPT !.valid = TRUE, !.tx = ni_tab[k].tx + 1]  OBVIOUS
  <2>4. e \in NicEntry /\ e.valid /\ e.tx = e.rx + 1
    <3>1. ni_tab[k].tx \in Nat /\ ni_tab[k].rx \in Nat /\ ni_tab[k].tx + 1 \in Nat  BY <2>2 DEF NicEntry
    <3>2. e.valid = TRUE /\ e.tx = ni_tab[k].tx + 1 /\ e.rx = ni_tab[k].rx  BY <2>2, <2>3 DEF NicEntry
    <3>3. e \in NicEntry  BY <2>2, <2>3, <3>1 DEF NicEntry
    <3> QED BY <2>2, <3>2, <3>3
  <2>5. ni_tab' = [ni_tab EXCEPT ![k] = e] /\ ni_ctr' \in Nat
    BY <1>3, <2>1, <2>2, <2>3 DEF net64_send, NicInv, NicEntry
  <2> QED BY <2>4, <2>5, NicPut
<1>4. ASSUME NEW n, net64_recv(n) PROVE NicInv'
  <2>1. PICK k \in 1 .. NET_MAX : k = find_if(n) /\ ni_tab[k].used  BY <1>4, FindNic DEF net64_recv
  <2>2. ni_tab[k] \in NicEntry /\ ni_tab[k].valid /\ ni_tab[k].tx = ni_tab[k].rx + 1
    BY <1>4, <2>1 DEF NicInv, net64_recv
  <2>3. PICK e : e = [ni_tab[k] EXCEPT !.valid = FALSE, !.rx = ni_tab[k].rx + 1]  OBVIOUS
  <2>4. e \in NicEntry /\ ~e.valid /\ e.tx = e.rx  BY <2>2, <2>3 DEF NicEntry
  <2>5. ni_tab' = [ni_tab EXCEPT ![k] = e] /\ ni_ctr' \in Nat
    BY <1>4, <2>1, <2>2, <2>3 DEF net64_recv, NicInv, NicEntry
  <2> QED BY <2>4, <2>5, NicPut
<1> QED BY <1>1, <1>2, <1>3, <1>4 DEF NicNext

LEMMA NicHolds == NicInv => NicCounts
<1> SUFFICES ASSUME NicInv, NEW i \in Taken(ni_tab)
             PROVE  ni_tab[i].tx = ni_tab[i].rx + IF ni_tab[i].valid THEN 1 ELSE 0
  BY DEF NicCounts
<1>1. i \in 1 .. NET_MAX /\ ni_tab[i].used  BY DEF Taken, NicInv
<1>2. ni_tab[i] \in NicEntry  BY <1>1 DEF NicInv
<1>3. ni_tab[i].rx \in Nat  BY <1>2 DEF NicEntry
<1> QED BY <1>1, <1>3 DEF NicInv

------------------------------
(* Stream sockets.                                                         *)

\* The strengthening of OwnPacket: numbers of sockets are given once, and
\* nothing was sent on one that is still to be given.
SockStates == {"free", "created", "bound", "connected"}
SockEntry == [state : SockStates, sock : Nat, pkt : NetPackets \cup {0}, valid : BOOLEAN]
SockOwes(e, owed) == e.sock \in DOMAIN owed /\ owed[e.sock] = IF e.valid THEN <<e.pkt>> ELSE <<>>
TcInv ==
    /\ tc_tab \in [1 .. TCP_MAX -> SockEntry]
    /\ tc_ctr \in Nat /\ tc_ctr <= TcpNumbers
    /\ tc_owed \in [1 .. TcpNumbers -> Seq(NetPackets)]
    /\ \A i \in 1 .. TCP_MAX : tc_tab[i].state # "free" =>
          tc_tab[i].sock \in 1 .. tc_ctr /\ SockOwes(tc_tab[i], tc_owed)
    /\ \A i, j \in 1 .. TCP_MAX :
          tc_tab[i].state # "free" /\ tc_tab[j].state # "free" /\ tc_tab[i].sock = tc_tab[j].sock => i = j
    /\ \A s \in 1 .. TcpNumbers : s > tc_ctr => tc_owed[s] = <<>>

LEMMA TcStarts == tcp64_init => TcInv
<1> SUFFICES ASSUME tcp64_init PROVE TcInv  OBVIOUS
<1>1. NoSock \in SockEntry /\ NoSock.state = "free"  BY DEF NoSock, SockEntry, SockStates
<1>2. tc_tab \in [1 .. TCP_MAX -> SockEntry] /\ \A i \in 1 .. TCP_MAX : tc_tab[i].state = "free"
  BY <1>1 DEF tcp64_init
<1>3. tc_ctr = 0 /\ TcpNumbers \in Nat  BY Net64Assumption DEF tcp64_init, Net64Assumption
<1>4. tc_owed = [s \in 1 .. TcpNumbers |-> <<>>]  BY DEF tcp64_init
<1>5. tc_owed \in [1 .. TcpNumbers -> Seq(NetPackets)]  BY <1>4, EmptySeq
<1> QED BY <1>2, <1>3, <1>4, <1>5 DEF TcInv

LEMMA FindSock ==
  ASSUME TcInv, NEW s, NEW f, f = find_sock(s), f # 0
  PROVE  f \in 1 .. TCP_MAX /\ tc_tab[f].state # "free" /\ tc_tab[f].sock = s
<1> DEFINE S == {i \in 1 .. TCP_MAX : tc_tab[i].state # "free" /\ tc_tab[i].sock = s}
<1>1. S \subseteq Nat \ {0}  OBVIOUS
<1>2. (FirstOf(S) = 0 <=> S = {}) /\ (S # {} => FirstOf(S) \in S)
  <2> HIDE DEF S
  <2> QED BY <1>1, FirstMatch
<1>3. f = FirstOf(S)  BY DEF find_sock
<1> QED BY <1>2, <1>3

\* A step of the socket s, which has the entry k.
LEMMA SockStep ==
  ASSUME TcInv, NEW k \in 1 .. TCP_MAX, tc_tab[k].state # "free", NEW s, tc_tab[k].sock = s,
         NEW e \in SockEntry, e.sock = s, tc_tab' = [tc_tab EXCEPT ![k] = e],
         NEW q \in Seq(NetPackets), tc_owed' = [tc_owed EXCEPT ![s] = q],
         e.valid => q = <<e.pkt>>, ~e.valid => q = <<>>, tc_ctr' = tc_ctr
  PROVE  TcInv'
<1>1. /\ tc_tab' \in [1 .. TCP_MAX -> SockEntry] /\ tc_tab'[k] = e
      /\ \A i \in 1 .. TCP_MAX : i # k => tc_tab'[i] = tc_tab[i]
  BY DEF TcInv
<1>2. s \in 1 .. tc_ctr /\ tc_ctr \in Nat /\ tc_ctr <= TcpNumbers /\ TcpNumbers \in Nat
  BY Net64Assumption DEF TcInv, Net64Assumption
<1>3. s \in 1 .. TcpNumbers /\ tc_owed \in [1 .. TcpNumbers -> Seq(NetPackets)]  BY <1>2 DEF TcInv
<1>4. /\ tc_owed' \in [1 .. TcpNumbers -> Seq(NetPackets)] /\ tc_owed'[s] = q
      /\ \A r \in 1 .. TcpNumbers : r # s => tc_owed'[r] = tc_owed[r]
  BY <1>3
<1>5. ASSUME NEW i \in 1 .. TCP_MAX, tc_tab'[i].state # "free"
      PROVE  tc_tab'[i].sock \in 1 .. tc_ctr /\ SockOwes(tc_tab'[i], tc_owed')
  <2>1. CASE i = k  BY <1>1, <1>2, <1>3, <1>4, <2>1 DEF SockOwes
  <2>2. CASE i # k
    <3>1. tc_tab'[i] = tc_tab[i] /\ tc_tab[i].sock # s /\ tc_tab[i].sock \in 1 .. tc_ctr /\ SockOwes(tc_tab[i], tc_owed)
      BY <1>1, <1>5, <2>2 DEF TcInv
    <3>2. tc_tab[i].sock \in 1 .. TcpNumbers  BY <1>2, <3>1
    <3> QED BY <1>3, <1>4, <3>1, <3>2 DEF SockOwes
  <2> QED BY <2>1, <2>2
<1>6. \A i, j \in 1 .. TCP_MAX :
          tc_tab'[i].state # "free" /\ tc_tab'[j].state # "free" /\ tc_tab'[i].sock = tc_tab'[j].sock => i = j
  BY <1>1 DEF TcInv
<1>7. \A r \in 1 .. TcpNumbers : r > tc_ctr => tc_owed'[r] = <<>>
  <2> TAKE r \in 1 .. TcpNumbers
  <2> HAVE r > tc_ctr
  <2>1. r # s  BY <1>2
  <2> QED BY <1>4, <2>1 DEF TcInv
<1> QED BY <1>1, <1>2, <1>4, <1>5, <1>6, <1>7 DEF TcInv

LEMMA SockNew ==
  ASSUME TcInv, tcp64_socket
  PROVE  TcInv'
<1> DEFINE free == {i \in 1 .. TCP_MAX : tc_tab[i].state = "free"}
<1>1. free # {} /\ tc_ctr < TcpNumbers /\ tc_ctr' = tc_ctr + 1 /\ tc_owed' = tc_owed
      /\ tc_tab' = [tc_tab EXCEPT ![Min(free)] = NewSock(tc_tab[Min(free)])]
  BY DEF tcp64_socket
<1>2. free \subseteq Nat  OBVIOUS
<1>3. Min(free) \in free
  <2> HIDE DEF free
  <2> QED BY <1>1, <1>2, LeastIsThere
<1>4. PICK k \in 1 .. TCP_MAX : k = Min(free) /\ tc_tab[k].state = "free"  BY <1>3
<1>5. tc_ctr \in Nat /\ TcpNumbers \in Nat /\ tc_ctr + 1 \in Nat  BY Net64Assumption DEF TcInv, Net64Assumption
<1>6. PICK e \in SockEntry : e.state = "created" /\ e.sock = tc_ctr + 1 /\ ~e.valid /\ e = NewSock(tc_tab[k])
  <2>1. tc_tab[k] \in SockEntry  BY DEF TcInv
  <2>2. NewSock(tc_tab[k]) = [tc_tab[k] EXCEPT !.state = "created", !.sock = tc_ctr + 1, !.valid = FALSE]
    BY DEF NewSock
  <2> QED BY <1>5, <2>1, <2>2 DEF SockEntry, SockStates
<1>7. /\ tc_tab' \in [1 .. TCP_MAX -> SockEntry] /\ tc_tab'[k] = e
      /\ \A i \in 1 .. TCP_MAX : i # k => tc_tab'[i] = tc_tab[i]
  BY <1>1, <1>4, <1>6 DEF TcInv
<1>8. ASSUME NEW i \in 1 .. TCP_MAX, tc_tab'[i].state # "free"
      PROVE  /\ tc_tab'[i].sock \in 1 .. tc_ctr' /\ SockOwes(tc_tab'[i], tc_owed')
             /\ i # k => tc_tab'[i].sock \in 1 .. tc_ctr
  <2>1. CASE i = k
    <3>1. tc_ctr + 1 \in 1 .. TcpNumbers /\ tc_ctr + 1 > tc_ctr  BY <1>1, <1>5
    <3>2. tc_owed[tc_ctr + 1] = <<>> /\ DOMAIN tc_owed = 1 .. TcpNumbers  BY <3>1 DEF TcInv
    <3> QED BY <1>1, <1>5, <1>6, <1>7, <2>1, <3>1, <3>2 DEF SockOwes
  <2>2. CASE i # k
    <3>1. tc_tab'[i] = tc_tab[i] /\ tc_tab[i].sock \in 1 .. tc_ctr /\ SockOwes(tc_tab[i], tc_owed)
      BY <1>7, <1>8, <2>2 DEF TcInv
    <3> QED BY <1>1, <1>5, <3>1
  <2> QED BY <2>1, <2>2
<1>9. \A i, j \in 1 .. TCP_MAX :
          tc_tab'[i].state # "free" /\ tc_tab'[j].state # "free" /\ tc_tab'[i].sock = tc_tab'[j].sock => i = j
  <2> SUFFICES ASSUME NEW i \in 1 .. TCP_MAX, NEW j \in 1 .. TCP_MAX, tc_tab'[i].state # "free",
                      tc_tab'[j].state # "free", tc_tab'[i].sock = tc_tab'[j].sock
               PROVE  i = j
    OBVIOUS
  <2>1. CASE i = k \/ j = k  BY <1>5, <1>6, <1>7, <1>8, <2>1
  <2>2. CASE i # k /\ j # k  BY <1>7, <2>2 DEF TcInv
  <2> QED BY <2>1, <2>2
<1>10. \A r \in 1 .. TcpNumbers : r > tc_ctr' => tc_owed'[r] = <<>>  BY <1>1, <1>5 DEF TcInv
<1>11. tc_ctr' \in Nat /\ tc_ctr' <= TcpNumbers /\ tc_owed' \in [1 .. TcpNumbers -> Seq(NetPackets)]
  BY <1>1, <1>5 DEF TcInv
<1> QED BY <1>7, <1>8, <1>9, <1>10, <1>11 DEF TcInv

LEMMA SockClosed ==
  ASSUME TcInv, NEW s, tcp64_close(s)
  PROVE  TcInv'
<1>1. PICK k : k = find_sock(s) /\ k # 0  BY DEF tcp64_close
<1>2. k \in 1 .. TCP_MAX /\ tc_tab[k] \in SockEntry  BY <1>1, FindSock DEF TcInv
<1>3. PICK e : e = [tc_tab[k] EXCEPT !.state = "free", !.sock = 0]  OBVIOUS
<1>4. e \in SockEntry /\ e.state = "free"  BY <1>2, <1>3 DEF SockEntry, SockStates
<1>5. tc_tab' = [tc_tab EXCEPT ![k] = e] /\ tc_ctr' = tc_ctr /\ tc_owed' = tc_owed
  <2>1. tc_tab' = [tc_tab EXCEPT ![k].state = "free", ![k].sock = 0]  BY <1>1 DEF tcp64_close
  <2> QED BY <1>1, <1>2, <1>3, <2>1 DEF TcInv, SockEntry, tcp64_close
<1>6. /\ tc_tab' \in [1 .. TCP_MAX -> SockEntry]
      /\ \A i \in 1 .. TCP_MAX : tc_tab'[i].state # "free" => tc_tab'[i] = tc_tab[i]
  BY <1>2, <1>4, <1>5 DEF TcInv
<1>7. \A i \in 1 .. TCP_MAX : tc_tab'[i].state # "free" => tc_tab[i].state # "free"  BY <1>6
<1> QED BY <1>5, <1>6, <1>7 DEF TcInv

LEMMA TcKept == TcInv /\ Tcp64Next => TcInv'
<1> SUFFICES ASSUME TcInv, Tcp64Next PROVE TcInv'  OBVIOUS
<1>1. tc_tab \in [1 .. TCP_MAX -> SockEntry] /\ tc_owed \in [1 .. TcpNumbers -> Seq(NetPackets)]  BY DEF TcInv
<1>2. ASSUME NEW k \in 1 .. TCP_MAX, tc_tab[k].state # "free"
      PROVE  /\ tc_tab[k].sock \in 1 .. TcpNumbers
             /\ tc_owed[tc_tab[k].sock] = IF tc_tab[k].valid THEN <<tc_tab[k].pkt>> ELSE <<>>
  BY <1>1, <1>2 DEF TcInv, SockOwes
<1>3. ASSUME NEW s \in 1 .. TcpNumbers, tcp64_bind(s) \/ tcp64_connect(s) PROVE TcInv'
  <2>1. PICK to \in {"bound", "connected"} :
            /\ find_sock(s) # 0 /\ tc_tab' = [tc_tab EXCEPT ![find_sock(s)].state = to]
            /\ tc_ctr' = tc_ctr /\ tc_owed' = tc_owed
    BY <1>3 DEF tcp64_bind, tcp64_connect, TcpStep
  <2>2. PICK k \in 1 .. TCP_MAX : k = find_sock(s) /\ tc_tab[k].state # "free" /\ tc_tab[k].sock = s
    BY <2>1, FindSock
  <2>3. tc_tab[k] \in SockEntry  BY <1>1
  <2>4. PICK e : e = [tc_tab[k] EXCEPT !.state = to]  OBVIOUS
  <2>5. e \in SockEntry /\ e.sock = s /\ (e.valid <=> tc_tab[k].valid) /\ e.pkt = tc_tab[k].pkt
    BY <2>2, <2>3, <2>4 DEF SockEntry, SockStates
  <2>6. tc_tab' = [tc_tab EXCEPT ![k] = e]  BY <2>1, <2>2, <2>4
  <2>7. PICK q \in Seq(NetPackets) : /\ q = tc_owed[s]
                                     /\ e.valid => q = <<e.pkt>>
                                     /\ ~e.valid => q = <<>>
    <3>1. tc_owed[s] \in Seq(NetPackets)  BY <1>1
    <3>2. (tc_tab[k].valid => tc_owed[s] = <<tc_tab[k].pkt>>) /\ (~tc_tab[k].valid => tc_owed[s] = <<>>)
      BY <1>2, <2>2
    <3> QED BY <2>5, <3>1, <3>2
  <2>8. tc_owed' = [tc_owed EXCEPT ![s] = q]  BY <1>1, <2>1, <2>7
  <2>9. (e.valid => q = <<e.pkt>>) /\ (~e.valid => q = <<>>) /\ tc_ctr' = tc_ctr  BY <2>1, <2>7
  <2>10. e \in SockEntry /\ e.sock = s  BY <2>5
  <2>11. tc_tab[k].state # "free" /\ tc_tab[k].sock = s  BY <2>2
  <2> QED BY <2>6, <2>8, <2>9, <2>10, <2>11, SockStep
<1>4. ASSUME NEW s \in 1 .. TcpNumbers, NEW v \in NetPackets, tcp64_send(s, v) PROVE TcInv'
  <2>1. /\ find_sock(s) # 0 /\ ~tc_tab[find_sock(s)].valid
        /\ tc_tab' = [tc_tab EXCEPT ![find_sock(s)].pkt = v, ![find_sock(s)].valid = TRUE]
        /\ tc_owed' = [tc_owed EXCEPT ![s] = Append(tc_owed[s], v)] /\ tc_ctr' = tc_ctr
    BY <1>4 DEF tcp64_send
  <2>2. PICK k \in 1 .. TCP_MAX : k = find_sock(s) /\ tc_tab[k].state # "free" /\ tc_tab[k].sock = s
    BY <2>1, FindSock
  <2>3. tc_tab[k] \in SockEntry /\ ~tc_tab[k].valid  BY <1>1, <2>1, <2>2
  <2>4. PICK e : e = [tc_tab[k] EXCEPT !.pkt = v, !.valid = TRUE]  OBVIOUS
  <2>5. e \in SockEntry /\ e.sock = s /\ e.valid /\ e.pkt = v  BY <2>2, <2>3, <2>4 DEF SockEntry
  <2>6. tc_tab' = [tc_tab EXCEPT ![k] = e]  BY <1>1, <2>1, <2>2, <2>3, <2>4 DEF SockEntry
  <2>7. tc_owed[s] = <<>>  BY <1>2, <2>2, <2>3
  <2>8. Append(<<>>, v) = <<v>> /\ <<v>> \in Seq(NetPackets)  OBVIOUS
  <2>9. PICK q \in Seq(NetPackets) : q = <<v>> /\ tc_owed' = [tc_owed EXCEPT ![s] = q]  BY <2>1, <2>7, <2>8
  <2>10. (e.valid => q = <<e.pkt>>) /\ (~e.valid => q = <<>>) /\ tc_ctr' = tc_ctr  BY <2>1, <2>5, <2>9
  <2>11. e \in SockEntry /\ e.sock = s  BY <2>5
  <2>12. tc_tab[k].state # "free" /\ tc_tab[k].sock = s  BY <2>2
  <2> QED BY <2>6, <2>9, <2>10, <2>11, <2>12, SockStep
<1>5. ASSUME NEW s \in 1 .. TcpNumbers, tcp64_recv(s) PROVE TcInv'
  <2>1. /\ find_sock(s) # 0 /\ tc_tab[find_sock(s)].valid
        /\ tc_tab' = [tc_tab EXCEPT ![find_sock(s)].valid = FALSE]
        /\ tc_owed' = [tc_owed EXCEPT ![s] = Tail(tc_owed[s])] /\ tc_ctr' = tc_ctr
    BY <1>5 DEF tcp64_recv
  <2>2. PICK k \in 1 .. TCP_MAX : k = find_sock(s) /\ tc_tab[k].state # "free" /\ tc_tab[k].sock = s
    BY <2>1, FindSock
  <2>3. tc_tab[k] \in SockEntry /\ tc_tab[k].valid  BY <1>1, <2>1, <2>2
  <2>4. PICK e : e = [tc_tab[k] EXCEPT !.valid = FALSE]  OBVIOUS
  <2>5. e \in SockEntry /\ e.sock = s /\ ~e.valid  BY <2>2, <2>3, <2>4 DEF SockEntry
  <2>6. tc_tab' = [tc_tab EXCEPT ![k] = e]  BY <2>1, <2>2, <2>4
  <2>7. PICK p : tc_owed[s] = <<p>>  BY <1>2, <2>2, <2>3
  <2>8. Tail(<<p>>) = <<>> /\ <<>> \in Seq(NetPackets)  OBVIOUS
  <2>9. PICK q \in Seq(NetPackets) : q = <<>> /\ tc_owed' = [tc_owed EXCEPT ![s] = q]  BY <2>1, <2>7, <2>8
  <2>10. (e.valid => q = <<e.pkt>>) /\ (~e.valid => q = <<>>) /\ tc_ctr' = tc_ctr  BY <2>1, <2>5, <2>9
  <2>11. e \in SockEntry /\ e.sock = s  BY <2>5
  <2>12. tc_tab[k].state # "free" /\ tc_tab[k].sock = s  BY <2>2
  <2> QED BY <2>6, <2>9, <2>10, <2>11, <2>12, SockStep
<1>6. CASE tcp64_socket  BY <1>6, SockNew
<1>7. CASE \E s \in 1 .. TcpNumbers : tcp64_close(s)  BY <1>7, SockClosed
<1> QED BY <1>3, <1>4, <1>5, <1>6, <1>7 DEF Tcp64Next

LEMMA TcHolds == TcInv => OwnPacket
BY DEF TcInv, OwnPacket, SockOwes

------------------------------
(* Stations.                                                               *)

\* The strengthening of StationsApart: numbers are given once.
StaEntry == [used : BOOLEAN, mac : StaMacs \cup {0}, aid : Nat, authorized : BOOLEAN]
Stations == {i \in 1 .. APMODE64_MAX_STA : ap_tab[i].used}
StaInv ==
    /\ ap_tab \in [1 .. APMODE64_MAX_STA -> StaEntry] /\ ap_next \in Nat
    /\ ap_n = Cardinality(Stations)
    /\ \A i \in 1 .. APMODE64_MAX_STA : ap_tab[i].used =>
          /\ ap_tab[i].aid < ap_next
          /\ ap_tab[i].authorized => ap_tab[i].mac \in ap_owed
    /\ \A i, j \in 1 .. APMODE64_MAX_STA : ap_tab[i].used /\ ap_tab[j].used /\ i # j =>
          ap_tab[i].aid # ap_tab[j].aid /\ ap_tab[i].mac # ap_tab[j].mac

LEMMA StaStarts == StaInit => StaInv
<1> SUFFICES ASSUME StaInit PROVE StaInv  OBVIOUS
<1>1. NoSta \in StaEntry /\ ~NoSta.used  BY DEF NoSta, StaEntry
<1>2. ap_tab = [i \in 1 .. APMODE64_MAX_STA |-> NoSta] /\ ap_next = 1 /\ ap_n = 0  BY DEF StaInit
<1>3. Stations = {}  BY <1>1, <1>2 DEF Stations
<1> QED BY <1>1, <1>2, <1>3, FS_EmptySet DEF StaInv

LEMMA StationsFinite == IsFiniteSet(Stations)
<1>1. APMODE64_MAX_STA \in Int  BY Net64Assumption DEF Net64Assumption
<1>2. IsFiniteSet(1 .. APMODE64_MAX_STA)  BY <1>1, FS_Interval
<1> QED BY <1>2, FS_Subset DEF Stations

LEMMA FindSta ==
  ASSUME StaInv, NEW mac, NEW f, f = StaAt(mac)
  PROVE  /\ f # 0 => f \in Stations /\ ap_tab[f].mac = mac
         /\ f = 0 => \A i \in Stations : ap_tab[i].mac # mac
<1> DEFINE S == {i \in Taken(ap_tab) : ap_tab[i].mac = mac}
<1>1. S = {i \in 1 .. APMODE64_MAX_STA : ap_tab[i].used /\ ap_tab[i].mac = mac}  BY DEF Taken, StaInv
<1>2. (FirstOf(S) = 0 <=> S = {}) /\ (S # {} => FirstOf(S) \in S)  BY <1>1, FirstMatch
<1> HIDE DEF S
<1>3. f = FirstOf(S)  BY DEF S, StaAt
<1> QED BY <1>1, <1>2, <1>3 DEF Stations

LEMMA StaKept == StaInv /\ StaNext => StaInv'
<1> SUFFICES ASSUME StaInv, StaNext PROVE StaInv'  OBVIOUS
<1>1. ap_tab \in [1 .. APMODE64_MAX_STA -> StaEntry] /\ ap_next \in Nat /\ IsFiniteSet(Stations)
  BY StationsFinite DEF StaInv
<1>2. ASSUME NEW mac \in StaMacs, apmode64_sta_add(mac) PROVE StaInv'
  <2>1. FirstFree(ap_tab) # 0 /\ DOMAIN ap_tab = 1 .. APMODE64_MAX_STA  BY <1>1, <1>2 DEF apmode64_sta_add
  <2>2. PICK k \in 1 .. APMODE64_MAX_STA : k = FirstFree(ap_tab) /\ ~ap_tab[k].used  BY <2>1, FreeSlot
  <2>3. PICK e : e = NewSta(ap_tab[k], mac)  OBVIOUS
  <2>4. e \in StaEntry /\ e.used /\ ~e.authorized /\ e.mac = mac /\ e.aid = ap_next
    BY <1>1, <2>3 DEF NewSta, StaEntry
  <2>5. /\ ap_tab' = [ap_tab EXCEPT ![k] = e] /\ ap_next' = ap_next + 1 /\ ap_n' = ap_n + 1
        /\ ap_owed' = ap_owed /\ StaAt(mac) = 0
    BY <1>2, <2>2, <2>3 DEF apmode64_sta_add
  <2>6. /\ ap_tab' \in [1 .. APMODE64_MAX_STA -> StaEntry] /\ ap_tab'[k] = e
        /\ \A i \in 1 .. APMODE64_MAX_STA : i # k => ap_tab'[i] = ap_tab[i]
    BY <1>1, <2>4, <2>5
  <2>7. Stations' = Stations \cup {k} /\ k \notin Stations  BY <2>2, <2>4, <2>6 DEF Stations
  <2>8. Cardinality(Stations \cup {k}) = Cardinality(Stations) + 1  BY <1>1, <2>7, FS_AddElement
  <2>9. \A i \in Stations : ap_tab[i].mac # mac /\ ap_tab[i].aid < ap_next /\ ap_tab[i].aid \in Nat
    <3>1. \A i \in Stations : ap_tab[i].mac # mac  BY <2>5, FindSta
    <3>2. \A i \in Stations : ap_tab[i] \in StaEntry /\ ap_tab[i].aid < ap_next  BY <1>1 DEF Stations, StaInv
    <3> QED BY <3>1, <3>2 DEF StaEntry
  <2>10. \A i \in 1 .. APMODE64_MAX_STA : i # k /\ ap_tab'[i].used => i \in Stations /\ ap_tab'[i] = ap_tab[i]
    BY <2>6 DEF Stations
  <2>11. ap_next' \in Nat /\ ap_n' = Cardinality(Stations')  BY <1>1, <2>5, <2>7, <2>8 DEF StaInv
  <2>12. \A i \in 1 .. APMODE64_MAX_STA : ap_tab'[i].used =>
          /\ ap_tab'[i].aid < ap_next'
          /\ ap_tab'[i].authorized => ap_tab'[i].mac \in ap_owed'
    <3> SUFFICES ASSUME NEW i \in 1 .. APMODE64_MAX_STA, ap_tab'[i].used
                 PROVE  /\ ap_tab'[i].aid < ap_next'
                        /\ ap_tab'[i].authorized => ap_tab'[i].mac \in ap_owed'
      OBVIOUS
    <3>1. CASE i = k  BY <1>1, <2>4, <2>5, <2>6, <3>1
    <3>2. CASE i # k
      <4>1. i \in Stations /\ ap_tab'[i] = ap_tab[i] /\ ap_tab[i].used  BY <2>10, <3>2 DEF Stations
      <4>2. ap_tab[i].aid < ap_next + 1  BY <1>1, <2>9, <4>1
      <4> QED BY <2>5, <4>1, <4>2 DEF StaInv
    <3> QED BY <3>1, <3>2
  <2>13. \A i, j \in 1 .. APMODE64_MAX_STA : ap_tab'[i].used /\ ap_tab'[j].used /\ i # j =>
          ap_tab'[i].aid # ap_tab'[j].aid /\ ap_tab'[i].mac # ap_tab'[j].mac
    <3> SUFFICES ASSUME NEW i \in 1 .. APMODE64_MAX_STA, NEW j \in 1 .. APMODE64_MAX_STA,
                        ap_tab'[i].used, ap_tab'[j].used, i # j
                 PROVE  ap_tab'[i].aid # ap_tab'[j].aid /\ ap_tab'[i].mac # ap_tab'[j].mac
      OBVIOUS
    <3>1. CASE i = k  BY <1>1, <2>4, <2>6, <2>9, <2>10, <3>1
    <3>2. CASE j = k  BY <1>1, <2>4, <2>6, <2>9, <2>10, <3>2
    <3>3. CASE i # k /\ j # k  BY <2>6, <3>3 DEF StaInv
    <3> QED BY <3>1, <3>2, <3>3
  <2> QED BY <2>6, <2>11, <2>12, <2>13 DEF StaInv
<1>3. ASSUME NEW mac \in StaMacs, apmode64_sta_authorize(mac) PROVE StaInv'
  <2>1. PICK k : k = StaAt(mac) /\ k # 0  BY <1>3 DEF apmode64_sta_authorize
  <2>2. k \in 1 .. APMODE64_MAX_STA /\ ap_tab[k].used /\ ap_tab[k].mac = mac /\ ap_tab[k] \in StaEntry
    BY <1>1, <2>1, FindSta DEF Stations
  <2>3. PICK e : e = [ap_tab[k] EXCEPT !.authorized = TRUE]  OBVIOUS
  <2>4. e \in StaEntry /\ e.used /\ e.mac = mac /\ e.aid = ap_tab[k].aid  BY <2>2, <2>3 DEF StaEntry
  <2>5. /\ ap_tab' = [ap_tab EXCEPT ![k] = e] /\ ap_next' = ap_next /\ ap_n' = ap_n
        /\ ap_owed' = ap_owed \cup {mac}
    BY <1>3, <2>1, <2>3 DEF apmode64_sta_authorize
  <2>6. /\ ap_tab' \in [1 .. APMODE64_MAX_STA -> StaEntry] /\ ap_tab'[k] = e
        /\ \A i \in 1 .. APMODE64_MAX_STA : i # k => ap_tab'[i] = ap_tab[i]
    BY <1>1, <2>2, <2>4, <2>5
  <2>7. Stations' = Stations  BY <2>2, <2>4, <2>6 DEF Stations
  <2>8. ap_next' \in Nat /\ ap_n' = Cardinality(Stations')  BY <2>5, <2>7 DEF StaInv
  <2>9. \A i \in 1 .. APMODE64_MAX_STA : ap_tab'[i].used =>
          /\ ap_tab[i].used /\ ap_tab'[i].aid = ap_tab[i].aid /\ ap_tab'[i].mac = ap_tab[i].mac
          /\ ap_tab'[i].aid < ap_next'
          /\ ap_tab'[i].authorized => ap_tab'[i].mac \in ap_owed'
    BY <2>2, <2>4, <2>5, <2>6 DEF StaInv
  <2>10. \A i, j \in 1 .. APMODE64_MAX_STA : ap_tab'[i].used /\ ap_tab'[j].used /\ i # j =>
          ap_tab'[i].aid # ap_tab'[j].aid /\ ap_tab'[i].mac # ap_tab'[j].mac
    BY <2>9 DEF StaInv
  <2> QED BY <2>6, <2>8, <2>9, <2>10 DEF StaInv
<1>4. ASSUME NEW mac \in StaMacs, apmode64_sta_remove(mac) PROVE StaInv'
  <2>1. PICK k : k = StaAt(mac) /\ k # 0  BY <1>4 DEF apmode64_sta_remove
  <2>2. k \in Stations /\ k \in 1 .. APMODE64_MAX_STA /\ ap_tab[k].mac = mac /\ ap_tab[k] \in StaEntry
    BY <1>1, <2>1, FindSta DEF Stations
  <2>3. PICK e : e = [ap_tab[k] EXCEPT !.used = FALSE]  OBVIOUS
  <2>4. e \in StaEntry /\ ~e.used  BY <2>2, <2>3 DEF StaEntry
  <2>5. /\ ap_tab' = [ap_tab EXCEPT ![k] = e] /\ ap_next' = ap_next /\ ap_n' = ap_n - 1
        /\ ap_owed' = ap_owed \ {mac}
    BY <1>4, <2>1, <2>3 DEF apmode64_sta_remove
  <2>6. /\ ap_tab' \in [1 .. APMODE64_MAX_STA -> StaEntry] /\ ap_tab'[k] = e
        /\ \A i \in 1 .. APMODE64_MAX_STA : i # k => ap_tab'[i] = ap_tab[i]
    BY <1>1, <2>2, <2>4, <2>5
  <2>7. Stations' = Stations \ {k}  BY <2>2, <2>4, <2>6 DEF Stations
  <2>8. Cardinality(Stations \ {k}) = Cardinality(Stations) - 1  BY <1>1, <2>2, FS_RemoveElement
  <2>9. ap_next' \in Nat /\ ap_n' = Cardinality(Stations')  BY <2>5, <2>7, <2>8 DEF StaInv
  <2>10. \A i \in 1 .. APMODE64_MAX_STA : ap_tab'[i].used => i # k /\ ap_tab'[i] = ap_tab[i] /\ ap_tab[i].used
    BY <2>4, <2>6
  <2>11. \A i \in 1 .. APMODE64_MAX_STA : ap_tab'[i].used => ap_tab[i].mac # mac
    BY <2>2, <2>10 DEF StaInv, Stations
  <2>12. \A i \in 1 .. APMODE64_MAX_STA : ap_tab'[i].used =>
          /\ ap_tab'[i].aid < ap_next'
          /\ ap_tab'[i].authorized => ap_tab'[i].mac \in ap_owed'
    BY <2>5, <2>10, <2>11 DEF StaInv
  <2>13. \A i, j \in 1 .. APMODE64_MAX_STA : ap_tab'[i].used /\ ap_tab'[j].used /\ i # j =>
          ap_tab'[i].aid # ap_tab'[j].aid /\ ap_tab'[i].mac # ap_tab'[j].mac
    BY <2>10 DEF StaInv
  <2> QED BY <2>6, <2>9, <2>12, <2>13 DEF StaInv
<1> QED BY <1>2, <1>3, <1>4 DEF StaNext

LEMMA StaHolds == StaInv => StationsApart
<1> SUFFICES ASSUME StaInv PROVE StationsApart  OBVIOUS
<1>1. Taken(ap_tab) = Stations  BY DEF Taken, Stations, StaInv
<1> QED BY <1>1 DEF StaInv, StationsApart, Stations

\* Counting round a ring of R places.
LEMMA DivMod ==
  ASSUME NEW R \in Nat \ {0}, NEW a \in Nat
  PROVE  \E q \in Nat, r \in 0 .. R - 1 : a = R * q + r /\ r = a % R
<1>1. a % R \in 0 .. R - 1 /\ a \div R \in Nat /\ a = R * (a \div R) + (a % R)  OBVIOUS
<1> QED BY <1>1

\* Only one remainder and one quotient.
LEMMA DivModUnique ==
  ASSUME NEW R \in Nat \ {0}, NEW a \in Nat, NEW q \in Int, NEW r \in 0 .. R - 1, a = R * q + r
  PROVE  a % R = r
OBVIOUS

\* The next place of a ring, and the places of the first round.
LEMMA RingNext ==
  ASSUME NEW R \in Nat \ {0}, NEW a \in Nat
  PROVE  /\ a % R \in 0 .. R - 1
         /\ ((a % R) + 1) % R = (a + 1) % R
         /\ a < R => a % R = a
         /\ R % R = 0
<1>1. PICK q \in Nat, r \in 0 .. R - 1 : a = R * q + r /\ r = a % R  BY DivMod
<1>2. CASE r + 1 < R
  <2>1. PICK c \in Nat, d \in 0 .. R - 1 : c = a + 1 /\ d = r + 1 /\ c = R * q + d /\ q \in Int  BY <1>1, <1>2
  <2>2. (a + 1) % R = r + 1
    <3>1. c % R = d  BY <2>1, DivModUnique, Zenon
    <3> QED BY <2>1, <3>1
  <2>3. (r + 1) % R = r + 1  BY <1>1, <2>1
  <2> QED BY <1>1, <2>2, <2>3
<1>3. CASE r + 1 = R
  <2>1. a + 1 = R * (q + 1) + 0 /\ 0 \in 0 .. R - 1 /\ a + 1 \in Nat /\ q + 1 \in Int  BY <1>1, <1>3
  <2>2. (a + 1) % R = 0  BY <2>1, DivModUnique
  <2>3. (r + 1) % R = 0  BY <1>3
  <2> QED BY <1>1, <2>2, <2>3
<1>4. r + 1 <= R /\ (a < R => a % R = a) /\ R % R = 0  BY <1>1
<1> QED BY <1>1, <1>2, <1>3, <1>4

\* Less than a round apart, two counts have two places.
LEMMA RingApart ==
  ASSUME NEW R \in Nat \ {0}, NEW a \in Nat, NEW b \in Nat, a < b, b < a + R
  PROVE  a % R # b % R
<1>1. PICK q \in Nat, r \in 0 .. R - 1 : a = R * q + r /\ r = a % R  BY DivMod
<1>2. PICK p \in Nat, s \in 0 .. R - 1 : b = R * p + s /\ s = b % R  BY DivMod
<1> SUFFICES ASSUME r = s PROVE FALSE  BY <1>1, <1>2
<1>3. R * p > R * q /\ R * p < R * q + R  BY <1>1, <1>2
<1>4. CASE p <= q
  <2>1. R * p <= R * q  BY <1>4
  <2> QED BY <1>3, <2>1
<1>5. CASE p >= q + 1
  <2>1. R * p >= R * (q + 1)  BY <1>5
  <2>2. R * (q + 1) = R * q + R  OBVIOUS
  <2> QED BY <1>3, <2>1, <2>2
<1> QED BY <1>4, <1>5

\* A place and a count make the place of the sum.
LEMMA RingAdd ==
  ASSUME NEW R \in Nat \ {0}, NEW a \in Nat, NEW b \in Nat
  PROVE  ((a % R) + b) % R = (a + b) % R
<1>1. PICK q \in Nat, r \in 0 .. R - 1 : a = R * q + r /\ r = a % R  BY DivMod
<1>2. PICK p \in Nat, s \in 0 .. R - 1 : r + b = R * p + s /\ s = (r + b) % R
  <2>1. r + b \in Nat  OBVIOUS
  <2> QED BY <2>1, DivMod
<1>3. PICK c \in Nat, e \in Int : c = a + b /\ e = q + p /\ c = R * e + s
  <2>1. R * (q + p) = R * q + R * p  OBVIOUS
  <2>2. a + b = R * (q + p) + s
    <3>1. PICK x \in Int, y \in Int : x = R * q /\ y = R * p  OBVIOUS
    <3>2. a = x + r /\ r + b = y + s  BY <1>1, <1>2, <3>1, Zenon
    <3>3. a + b = (x + y) + s  BY <3>2
    <3> QED BY <2>1, <3>1, <3>3, Zenon
  <2>3. a + b \in Nat /\ q + p \in Int  OBVIOUS
  <2> QED BY <2>2, <2>3, Zenon
<1>4. (a + b) % R = s
  <2>1. c % R = s
    <3>1. c = R * e + s  BY <1>3, Zenon
    <3> QED BY <3>1, DivModUnique, Zenon
  <2>2. c = a + b  BY <1>3
  <2> QED BY <2>1, <2>2
<1> QED BY <1>1, <1>2, <1>4

------------------------------
(* Datagrams.                                                              *)

\* The strengthening of DatagramsKept: the ring holds what is owed from
\* its head on, and never more than it has places.
UdpEntry == [used : BOOLEAN, port : UdpPorts \cup {0}, rx : [0 .. UDP64_BUF - 1 -> UdpBytes \cup {0}],
             head : Nat, len : Nat]
RingHolds(s, owed) ==
    /\ s.len <= UDP64_BUF /\ Len(owed) = s.len
    /\ \A n \in 1 .. s.len : s.rx[(s.head + n - 1) % UDP64_BUF] = owed[n]
UdInv ==
    /\ ud_tab \in [1 .. UDP64_MAX -> UdpEntry]
    /\ ud_owed \in [1 .. UDP64_MAX -> Seq(UdpBytes)]
    /\ \A i \in 1 .. UDP64_MAX : ud_tab[i].used => RingHolds(ud_tab[i], ud_owed[i])
    /\ \A i, j \in 1 .. UDP64_MAX : ud_tab[i].used /\ ud_tab[j].used /\ i # j /\ ud_tab[i].port # 0 =>
          ud_tab[i].port # ud_tab[j].port

LEMMA UdStarts == Udp64Init => UdInv
<1> SUFFICES ASSUME Udp64Init PROVE UdInv  OBVIOUS
<1>1. NoUdp \in UdpEntry /\ ~NoUdp.used  BY DEF NoUdp, UdpEntry
<1>2. ud_tab \in [1 .. UDP64_MAX -> UdpEntry] /\ \A i \in 1 .. UDP64_MAX : ~ud_tab[i].used
  BY <1>1 DEF Udp64Init
<1>3. ud_owed \in [1 .. UDP64_MAX -> Seq(UdpBytes)]  BY EmptySeq DEF Udp64Init
<1> QED BY <1>2, <1>3 DEF UdInv

\* A step that changes one socket.
LEMMA UdPut ==
  ASSUME UdInv, NEW k \in 1 .. UDP64_MAX, NEW e \in UdpEntry, NEW q \in Seq(UdpBytes),
         ud_tab' = [ud_tab EXCEPT ![k] = e], ud_owed' = [ud_owed EXCEPT ![k] = q],
         e.used => RingHolds(e, q),
         \A j \in 1 .. UDP64_MAX : e.used /\ e.port # 0 /\ ud_tab[j].used /\ j # k => ud_tab[j].port # e.port
  PROVE  UdInv'
<1>1. /\ ud_tab' \in [1 .. UDP64_MAX -> UdpEntry] /\ ud_tab'[k] = e
      /\ \A i \in 1 .. UDP64_MAX : i # k => ud_tab'[i] = ud_tab[i]
  BY DEF UdInv
<1>2. /\ ud_owed' \in [1 .. UDP64_MAX -> Seq(UdpBytes)] /\ ud_owed'[k] = q
      /\ \A i \in 1 .. UDP64_MAX : i # k => ud_owed'[i] = ud_owed[i]
  BY DEF UdInv
<1>3. \A i \in 1 .. UDP64_MAX : ud_tab'[i].used => RingHolds(ud_tab'[i], ud_owed'[i])
  <2> SUFFICES ASSUME NEW i \in 1 .. UDP64_MAX, ud_tab'[i].used
               PROVE  RingHolds(ud_tab'[i], ud_owed'[i])
    OBVIOUS
  <2>1. CASE i = k  BY <1>1, <1>2, <2>1
  <2>2. CASE i # k
    <3>1. ud_tab'[i] = ud_tab[i] /\ ud_owed'[i] = ud_owed[i]  BY <1>1, <1>2, <2>2
    <3>2. RingHolds(ud_tab[i], ud_owed[i])  BY <3>1 DEF UdInv
    <3> QED BY <3>1, <3>2
  <2> QED BY <2>1, <2>2
<1>4. \A i, j \in 1 .. UDP64_MAX : ud_tab'[i].used /\ ud_tab'[j].used /\ i # j /\ ud_tab'[i].port # 0 =>
          ud_tab'[i].port # ud_tab'[j].port
  <2> SUFFICES ASSUME NEW i \in 1 .. UDP64_MAX, NEW j \in 1 .. UDP64_MAX,
                      ud_tab'[i].used, ud_tab'[j].used, i # j, ud_tab'[i].port # 0
               PROVE  ud_tab'[i].port # ud_tab'[j].port
    OBVIOUS
  <2>1. CASE i = k  BY <1>1, <2>1
  <2>2. CASE j = k  BY <1>1, <2>2
  <2>3. CASE i # k /\ j # k  BY <1>1, <2>3 DEF UdInv
  <2> QED BY <2>1, <2>2, <2>3
<1> QED BY <1>1, <1>2, <1>3, <1>4 DEF UdInv

\* Bytes that are put behind those that are there.
LEMMA RingFilled ==
  ASSUME NEW s \in UdpEntry, NEW o \in Seq(UdpBytes), RingHolds(s, o), NEW buf \in Seq(UdpBytes),
         s.len + Len(buf) <= UDP64_BUF, NEW e, e.len = s.len + Len(buf), e.head = s.head,
         e.rx = [k \in 0 .. UDP64_BUF - 1 |->
              LET at == {n \in 1 .. Len(buf) : (s.head + s.len + n - 1) % UDP64_BUF = k}
              IN IF at = {} THEN s.rx[k] ELSE buf[Max(at)]]
  PROVE  /\ o \o buf \in Seq(UdpBytes) /\ RingHolds(e, o \o buf)
         /\ e.rx \in [0 .. UDP64_BUF - 1 -> UdpBytes \cup {0}]
<1> DEFINE B == UDP64_BUF
           At(k) == {n \in 1 .. Len(buf) : (s.head + s.len + n - 1) % B = k}
           w == o \o buf
<1>1. /\ UDP64_BUF \in Nat \ {0} /\ s.head \in Nat /\ s.len \in Nat /\ Len(buf) \in Nat
      /\ s.rx \in [0 .. B - 1 -> UdpBytes \cup {0}]
  BY LenProperties, Net64Assumption DEF Net64Assumption, UdpEntry
<1>2. Len(o) = s.len /\ \A n \in 1 .. s.len : s.rx[(s.head + n - 1) % B] = o[n]  BY DEF RingHolds
<1>3. /\ w \in Seq(UdpBytes) /\ Len(w) = s.len + Len(buf)
      /\ \A n \in 1 .. s.len + Len(buf) : w[n] = IF n <= s.len THEN o[n] ELSE buf[n - s.len]
  BY <1>2, ConcatProperties
<1>4. \A k \in 0 .. B - 1 : e.rx[k] = IF At(k) = {} THEN s.rx[k] ELSE buf[Max(At(k))]  OBVIOUS
<1>5. \A n \in 1 .. Len(buf), m \in 1 .. s.len + Len(buf) :
          m # s.len + n => (s.head + m - 1) % B # (s.head + s.len + n - 1) % B
  <2> SUFFICES ASSUME NEW n \in 1 .. Len(buf), NEW m \in 1 .. s.len + Len(buf), m # s.len + n
               PROVE  (s.head + m - 1) % B # (s.head + s.len + n - 1) % B
    OBVIOUS
  <2>1. PICK h \in Nat, l \in Nat, c \in Nat : h = s.head /\ l = s.len /\ c = Len(buf) /\ l + c <= B  BY <1>1
  <2>2. m \in 1 .. l + c /\ n \in 1 .. c /\ m # l + n  BY <2>1
  <2>3. m \in Nat /\ n \in Nat /\ 1 <= m /\ 1 <= n /\ m <= l + c /\ n <= c  BY <2>2
  <2>4. PICK a \in Nat, b \in Nat : a = h + m - 1 /\ b = h + l + n - 1  BY <2>3
  <2>5. (a < b /\ b < a + B) \/ (b < a /\ a < b + B)
    <3>1. PICK R \in Nat : R = B /\ l + c <= R  BY <1>1, <2>1
    <3>2. CASE m < l + n  BY <2>3, <2>4, <3>1, <3>2
    <3>3. CASE m > l + n  BY <2>3, <2>4, <3>1, <3>3
    <3> QED BY <2>2, <2>3, <3>2, <3>3
  <2>6. a % B # b % B  BY <1>1, <2>5, RingApart
  <2> QED BY <2>1, <2>4, <2>6
<1>6. ASSUME NEW m \in 1 .. s.len + Len(buf) PROVE e.rx[(s.head + m - 1) % B] = w[m]
  <2>1. PICK k \in 0 .. B - 1 : k = (s.head + m - 1) % B
    <3>1. PICK a \in Nat : a = s.head + m - 1  BY <1>1
    <3>2. a % B \in 0 .. B - 1  BY <1>1, RingNext
    <3> QED BY <3>1, <3>2
  <2>2. CASE m <= s.len
    <3>1. At(k) = {}
      <4>1. \A n \in 1 .. Len(buf) : m # s.len + n  BY <1>1, <2>2
      <4> QED BY <1>5, <2>1, <4>1
    <3>2. e.rx[k] = s.rx[k]  BY <1>4, <3>1
    <3>3. m \in 1 .. s.len  BY <1>1, <2>2
    <3> QED BY <1>2, <1>3, <2>1, <2>2, <3>2, <3>3
  <2>3. CASE m > s.len
    <3>1. PICK n \in 1 .. Len(buf) : m = s.len + n /\ m - s.len = n
      <4>1. m - s.len \in 1 .. Len(buf) /\ m = s.len + (m - s.len)  BY <1>1, <2>3
      <4> QED BY <4>1
    <3>2. At(k) = {n}
      <4>1. \A i \in 1 .. Len(buf) : i # n => m # s.len + i  BY <1>1, <3>1
      <4>2. \A i \in 1 .. Len(buf) : i # n => i \notin At(k)  BY <1>5, <2>1, <4>1
      <4>3. (s.head + s.len + n - 1) % B = k
        <5>1. s.head + s.len + n - 1 = s.head + m - 1
          <6>1. PICK h \in Nat, l \in Nat, i \in Nat : h = s.head /\ l = s.len /\ i = n  BY <1>1
          <6>2. h + l + i - 1 = h + (l + i) - 1  OBVIOUS
          <6> QED BY <3>1, <6>1, <6>2
        <5> QED BY <2>1, <5>1
      <4> QED BY <4>2, <4>3
    <3>3. Max({n}) = n  BY DEF Max
    <3>4. e.rx[k] = buf[n]
      <4> HIDE DEF At
      <4> QED BY <1>4, <3>2, <3>3
    <3>5. w[m] = buf[n]
      <4>1. ~(m <= s.len)  BY <1>1, <2>3
      <4> HIDE DEF w
      <4> QED BY <1>3, <3>1, <4>1
    <3> QED BY <2>1, <3>4, <3>5
  <2>4. m <= s.len \/ m > s.len  BY <1>1
  <2> QED BY <2>2, <2>3, <2>4
<1>7. RingHolds(e, w)
  <2> HIDE DEF w
  <2> QED BY <1>1, <1>3, <1>6 DEF RingHolds
<1>8. \A k \in 0 .. B - 1 : e.rx[k] \in UdpBytes \cup {0}
  <2> TAKE k \in 0 .. B - 1
  <2>1. CASE At(k) = {}
    <3>1. s.rx[k] \in UdpBytes \cup {0}  BY <1>1
    <3> QED BY <1>4, <2>1, <3>1
  <2>2. CASE At(k) # {}
    <3>1. At(k) \subseteq 1 .. Len(buf)  OBVIOUS
    <3>2. Max(At(k)) \in At(k)
      <4> HIDE DEF At
      <4> QED BY <1>1, <2>2, <3>1, GreatestIsThere
    <3>3. buf[Max(At(k))] \in UdpBytes  BY <3>1, <3>2, ElementOfSeq
    <3> QED BY <1>4, <2>2, <3>3
  <2> QED BY <2>1, <2>2
<1>9. e.rx \in [0 .. B - 1 -> UdpBytes \cup {0}]  BY <1>8
<1> QED BY <1>3, <1>7, <1>9

\* Bytes that are taken from the head.
LEMMA RingDrained ==
  ASSUME NEW s \in UdpEntry, NEW o \in Seq(UdpBytes), RingHolds(s, o), NEW n \in 1 .. s.len,
         NEW e, e.rx = s.rx, e.head = (s.head + n) % UDP64_BUF, e.len = s.len - n
  PROVE  /\ SubSeq(o, n + 1, Len(o)) \in Seq(UdpBytes)
         /\ RingHolds(e, SubSeq(o, n + 1, Len(o)))
         /\ e.head \in Nat /\ e.len \in Nat
<1> DEFINE B == UDP64_BUF
           w == SubSeq(o, n + 1, Len(o))
<1>1. UDP64_BUF \in Nat \ {0} /\ s.head \in Nat /\ s.len \in Nat /\ n \in Nat
  BY Net64Assumption DEF Net64Assumption, UdpEntry
<1>2. Len(o) = s.len /\ s.len <= B /\ \A m \in 1 .. s.len : s.rx[(s.head + m - 1) % B] = o[m]  BY DEF RingHolds
<1>3. \A m \in 1 .. Len(o) : o[m] \in UdpBytes  BY ElementOfSeq
<1>4. w \in Seq(UdpBytes) /\ Len(w) = s.len - n /\ \A m \in 1 .. s.len - n : w[m] = o[n + m]
  BY <1>1, <1>2, <1>3, SubSeqProperties
<1>5. ASSUME NEW m \in 1 .. s.len - n PROVE s.rx[(e.head + m - 1) % B] = w[m]
  <2>1. PICK a \in Nat, b \in Nat : a = s.head + n /\ b = m - 1  BY <1>1
  <2>2. ((a % B) + b) % B = (a + b) % B  BY <1>1, RingAdd
  <2>3. a % B \in Nat  BY <1>1
  <2>4. (e.head + m - 1) % B = (s.head + (n + m) - 1) % B
    <3>1. PICK c \in Nat : c = a % B /\ c = e.head  BY <2>1, <2>3
    <3>2. c + b = e.head + m - 1
      <4>1. m \in Int  OBVIOUS
      <4> QED BY <2>1, <3>1, <4>1
    <3>3. a + b = s.head + (n + m) - 1
      <4>1. m \in Int  OBVIOUS
      <4> QED BY <1>1, <2>1, <4>1
    <3>4. (c + b) % B = (a + b) % B  BY <2>2, <3>1
    <3> QED BY <3>2, <3>3, <3>4
  <2>5. n + m \in 1 .. s.len  BY <1>1
  <2>6. s.rx[(s.head + (n + m) - 1) % B] = o[n + m]  BY <1>2, <2>5
  <2> QED BY <1>4, <2>4, <2>6
<1>6. e.head \in Nat /\ e.len \in Nat  BY <1>1
<1>7. RingHolds(e, w)
  <2> HIDE DEF w
  <2>1. PICK l \in Nat, b \in Nat, d \in Nat : l = s.len /\ b = B /\ d = n /\ d <= l  BY <1>1
  <2>2. Len(w) = l - d /\ e.len = l - d /\ l <= b  BY <1>2, <1>4, <2>1
  <2>3. Len(w) = e.len /\ e.len <= b  BY <2>1, <2>2
  <2>4. \A m \in 1 .. e.len : e.rx[(e.head + m - 1) % B] = w[m]  BY <1>5
  <2> QED BY <2>1, <2>3, <2>4 DEF RingHolds
<1> QED BY <1>4, <1>6, <1>7

LEMMA UdSendKept ==
  ASSUME UdInv, NEW i \in 1 .. UDP64_MAX, NEW buf \in Seq(UdpBytes), udp64_send(i, buf)
  PROVE  UdInv'
<1>1. PICK s : s = ud_tab[i]  OBVIOUS
<1>2. s \in UdpEntry /\ s.used /\ ud_owed[i] \in Seq(UdpBytes) /\ RingHolds(s, ud_owed[i])
  BY <1>1 DEF UdInv, udp64_send
<1>3. s.len \in Nat /\ Len(buf) \in Nat /\ UDP64_BUF \in Nat /\ s.len + Len(buf) <= UDP64_BUF
  <2>1. s.len \in Nat /\ Len(buf) \in Nat /\ UDP64_BUF \in Nat
    BY <1>2, LenProperties, Net64Assumption DEF UdpEntry, Net64Assumption
  <2>2. Len(buf) <= UDP64_BUF - s.len  BY <1>1 DEF udp64_send, RingRoom
  <2> QED BY <2>1, <2>2
<1>4. PICK r : r = [k \in 0 .. UDP64_BUF - 1 |->
                LET at == {n \in 1 .. Len(buf) : (s.head + s.len + n - 1) % UDP64_BUF = k}
                IN IF at = {} THEN s.rx[k] ELSE buf[Max(at)]]
  OBVIOUS
<1>5. PICK e : e = [s EXCEPT !.rx = r, !.len = s.len + Len(buf)]  OBVIOUS
<1>6. e.rx = r /\ e.len = s.len + Len(buf) /\ e.head = s.head /\ (e.used <=> s.used) /\ e.port = s.port
  BY <1>2, <1>5 DEF UdpEntry
<1>7. ud_tab' = [ud_tab EXCEPT ![i] = e] /\ ud_owed' = [ud_owed EXCEPT ![i] = ud_owed[i] \o buf]
  <2>1. ud_tab' = [ud_tab EXCEPT ![i].rx = r, ![i].len = s.len + Len(buf)]
    <3>1. PICK t \in {ud_tab[i]} : ud_tab' = [ud_tab EXCEPT
             ![i].rx = [k \in 0 .. UDP64_BUF - 1 |->
                LET at == {n \in 1 .. Len(buf) : (t.head + t.len + n - 1) % UDP64_BUF = k}
                IN IF at = {} THEN t.rx[k] ELSE buf[Max(at)]],
             ![i].len = t.len + Len(buf)]
      BY DEF udp64_send
    <3>2. t = s  BY <1>1
    <3> QED BY <1>4, <3>1, <3>2
  <2> QED BY <1>1, <1>2, <1>5, <2>1 DEF UdInv, udp64_send, UdpEntry
<1>8. /\ ud_owed[i] \o buf \in Seq(UdpBytes) /\ RingHolds(e, ud_owed[i] \o buf)
      /\ e.rx \in [0 .. UDP64_BUF - 1 -> UdpBytes \cup {0}]
  BY <1>2, <1>3, <1>4, <1>6, RingFilled
<1>9. e \in UdpEntry
  <2>1. s.len + Len(buf) \in Nat /\ r \in [0 .. UDP64_BUF - 1 -> UdpBytes \cup {0}]  BY <1>3, <1>6, <1>8
  <2> QED BY <1>2, <1>5, <2>1 DEF UdpEntry
<1>10. \A j \in 1 .. UDP64_MAX : e.used /\ e.port # 0 /\ ud_tab[j].used /\ j # i => ud_tab[j].port # e.port
  BY <1>1, <1>2, <1>6 DEF UdInv
<1> QED BY <1>7, <1>8, <1>9, <1>10, UdPut

LEMMA UdRecvKept ==
  ASSUME UdInv, NEW i \in 1 .. UDP64_MAX, NEW max \in Nat \ {0}, udp64_recv(i, max)
  PROVE  UdInv'
<1>1. PICK s : s = ud_tab[i]  OBVIOUS
<1>2. s \in UdpEntry /\ s.used /\ ud_owed[i] \in Seq(UdpBytes) /\ RingHolds(s, ud_owed[i]) /\ s.len > 0
  BY <1>1 DEF UdInv, udp64_recv
<1>3. PICK n : /\ n = Min({s.len, max})
               /\ ud_tab' = [ud_tab EXCEPT ![i].head = (s.head + n) % UDP64_BUF, ![i].len = s.len - n]
               /\ ud_owed' = [ud_owed EXCEPT ![i] = SubSeq(ud_owed[i], n + 1, Len(ud_owed[i]))]
  BY <1>1 DEF udp64_recv
<1>4. s.len \in Nat /\ s.head \in Nat  BY <1>2 DEF UdpEntry
<1>5. n \in 1 .. s.len
  <2> DEFINE S == {s.len, max}
  <2>1. S \subseteq Nat /\ S # {}  BY <1>4
  <2>2. Min(S) \in S /\ \A y \in S : Min(S) <= y
    <3> HIDE DEF S
    <3> QED BY <2>1, LeastIsThere
  <2> QED BY <1>2, <1>3, <1>4, <2>2
<1>6. PICK e : e = [s EXCEPT !.head = (s.head + n) % UDP64_BUF, !.len = s.len - n]  OBVIOUS
<1>7. /\ e.rx = s.rx /\ e.head = (s.head + n) % UDP64_BUF /\ e.len = s.len - n
      /\ (e.used <=> s.used) /\ e.port = s.port
  BY <1>2, <1>6 DEF UdpEntry
<1>8. /\ SubSeq(ud_owed[i], n + 1, Len(ud_owed[i])) \in Seq(UdpBytes)
      /\ RingHolds(e, SubSeq(ud_owed[i], n + 1, Len(ud_owed[i])))
      /\ e.head \in Nat /\ e.len \in Nat
  BY <1>2, <1>5, <1>7, RingDrained
<1>9. e \in UdpEntry
  <2>1. (s.head + n) % UDP64_BUF \in Nat /\ s.len - n \in Nat  BY <1>7, <1>8
  <2> QED BY <1>2, <1>6, <2>1 DEF UdpEntry
<1>10. ud_tab' = [ud_tab EXCEPT ![i] = e]  BY <1>1, <1>2, <1>3, <1>6 DEF UdInv, UdpEntry
<1>11. \A j \in 1 .. UDP64_MAX : e.used /\ e.port # 0 /\ ud_tab[j].used /\ j # i => ud_tab[j].port # e.port
  BY <1>1, <1>2, <1>7 DEF UdInv
<1> QED BY <1>3, <1>8, <1>9, <1>10, <1>11, UdPut

LEMMA UdKept == UdInv /\ Udp64Next => UdInv'
<1> SUFFICES ASSUME UdInv, Udp64Next PROVE UdInv'  OBVIOUS
<1>1. /\ ud_tab \in [1 .. UDP64_MAX -> UdpEntry] /\ UDP64_BUF \in Nat
      /\ ud_owed \in [1 .. UDP64_MAX -> Seq(UdpBytes)]
  BY Net64Assumption DEF UdInv, Net64Assumption
<1>2. <<>> \in Seq(UdpBytes) /\ Len(<<>>) = 0  OBVIOUS
<1>3. CASE udp64_socket
  <2>1. FirstFree(ud_tab) # 0 /\ DOMAIN ud_tab = 1 .. UDP64_MAX  BY <1>1, <1>3 DEF udp64_socket
  <2>2. PICK k \in 1 .. UDP64_MAX : k = FirstFree(ud_tab)  BY <2>1, FreeSlot
  <2>3. PICK e : e = [ud_tab[k] EXCEPT !.used = TRUE, !.port = 0, !.head = 0, !.len = 0]  OBVIOUS
  <2>4. e \in UdpEntry /\ e.len = 0 /\ e.port = 0
    <3>1. ud_tab[k] \in UdpEntry  BY <1>1
    <3> QED BY <2>3, <3>1 DEF UdpEntry
  <2>5. ud_tab' = [ud_tab EXCEPT ![k] = e] /\ ud_owed' = [ud_owed EXCEPT ![k] = <<>>]
    BY <1>3, <2>2, <2>3 DEF udp64_socket
  <2>6. RingHolds(e, <<>>)  BY <1>1, <1>2, <2>4 DEF RingHolds
  <2> QED BY <1>2, <2>4, <2>5, <2>6, UdPut
<1>4. ASSUME NEW i \in 1 .. UDP64_MAX, udp64_close(i) PROVE UdInv'
  <2>1. PICK e : e = [NoUdp EXCEPT !.rx = ud_tab[i].rx]  OBVIOUS
  <2>2. e \in UdpEntry /\ ~e.used
    <3>1. ud_tab[i].rx \in [0 .. UDP64_BUF - 1 -> UdpBytes \cup {0}]  BY <1>1 DEF UdpEntry
    <3>2. NoUdp \in UdpEntry /\ ~NoUdp.used  BY DEF NoUdp, UdpEntry
    <3> QED BY <2>1, <3>1, <3>2 DEF UdpEntry
  <2>3. ud_tab' = [ud_tab EXCEPT ![i] = e] /\ ud_owed' = [ud_owed EXCEPT ![i] = <<>>]
    BY <1>4, <2>1 DEF udp64_close
  <2> QED BY <1>2, <2>2, <2>3, UdPut
<1>5. ASSUME NEW i \in 1 .. UDP64_MAX, NEW p \in UdpPorts, udp64_bind(i, p) PROVE UdInv'
  <2>1. PICK e : e = [ud_tab[i] EXCEPT !.port = p]  OBVIOUS
  <2>2. ud_tab[i] \in UdpEntry /\ ud_tab[i].used /\ ud_owed[i] \in Seq(UdpBytes) /\ RingHolds(ud_tab[i], ud_owed[i])
    BY <1>1, <1>5 DEF UdInv, udp64_bind
  <2>3. e \in UdpEntry /\ e.port = p /\ e.rx = ud_tab[i].rx /\ e.head = ud_tab[i].head /\ e.len = ud_tab[i].len
    BY <2>1, <2>2 DEF UdpEntry
  <2>4. RingHolds(e, ud_owed[i])  BY <2>2, <2>3 DEF RingHolds
  <2>5. ud_tab' = [ud_tab EXCEPT ![i] = e] /\ ud_owed' = [ud_owed EXCEPT ![i] = ud_owed[i]]
    BY <1>1, <1>5, <2>1 DEF udp64_bind
  <2>6. \A j \in 1 .. UDP64_MAX : ud_tab[j].used /\ j # i => ud_tab[j].port # e.port
    BY <1>1, <1>5, <2>3 DEF udp64_bind, Taken
  <2> QED BY <2>2, <2>3, <2>4, <2>5, <2>6, UdPut
<1>6. ASSUME NEW i \in 1 .. UDP64_MAX, NEW b \in UdpBytes, NEW n \in 1 .. 2, udp64_send(i, [k \in 1 .. n |-> b])
      PROVE  UdInv'
  <2>1. [k \in 1 .. n |-> b] \in Seq(UdpBytes)  OBVIOUS
  <2> QED BY <1>6, <2>1, UdSendKept
<1>7. ASSUME NEW i \in 1 .. UDP64_MAX, NEW n \in 1 .. 2, udp64_recv(i, n) PROVE UdInv'  BY <1>7, UdRecvKept
<1> QED BY <1>3, <1>4, <1>5, <1>6, <1>7 DEF Udp64Next

LEMMA UdHolds == UdInv => DatagramsKept
<1> SUFFICES ASSUME UdInv PROVE DatagramsKept  OBVIOUS
<1>1. Taken(ud_tab) = {i \in 1 .. UDP64_MAX : ud_tab[i].used}  BY DEF Taken, UdInv
<1>2. ASSUME NEW i \in Taken(ud_tab) PROVE RingBytes(ud_tab[i]) = ud_owed[i]
  <2>1. PICK s : s = ud_tab[i]  OBVIOUS
  <2>4. PICK o \in Seq(UdpBytes) : o = ud_owed[i] /\ RingHolds(s, o)  BY <1>1, <2>1 DEF UdInv
  <2>2. o = [n \in 1 .. Len(o) |-> o[n]]  BY LenProperties
  <2>3. RingBytes(s) = [n \in 1 .. s.len |-> s.rx[(s.head + n - 1) % UDP64_BUF]]  BY DEF RingBytes
  <2> QED BY <2>1, <2>4, <2>2, <2>3 DEF RingHolds
<1> QED BY <1>1, <1>2 DEF DatagramsKept, UdInv

------------------------------
(* Tables of users.                                                        *)

UserTable(tab, n) == DOMAIN tab = 1 .. n

\* A search by name, and the entry a name has or gets.
LEMMA FindUser ==
  ASSUME NEW n, NEW tab, UserTable(tab, n), NEW u, NEW f, f = UserAt(tab, u)
  PROVE  /\ f # 0 => f \in 1 .. n /\ tab[f].used /\ tab[f].user = u
         /\ f = 0 => \A i \in 1 .. n : ~(tab[i].used /\ tab[i].user = u)
<1> DEFINE S == {i \in Taken(tab) : tab[i].user = u}
<1>1. S = {i \in 1 .. n : tab[i].used /\ tab[i].user = u}  BY DEF Taken, UserTable
<1>2. (FirstOf(S) = 0 <=> S = {}) /\ (S # {} => FirstOf(S) \in S)
  <2>1. S \subseteq Nat \ {0}  BY <1>1
  <2> HIDE DEF S
  <2> QED BY <2>1, FirstMatch
<1> HIDE DEF S
<1>3. f = FirstOf(S)  BY DEF S, UserAt
<1> QED BY <1>1, <1>2, <1>3

OneEach(tab) ==
    \A i, j \in DOMAIN tab : tab[i].used /\ tab[j].used /\ tab[i].user = tab[j].user => i = j

LEMMA PlaceUser ==
  ASSUME NEW n, NEW tab, UserTable(tab, n), OneEach(tab), NEW u, NEW k, k = PlaceOf(tab, u), k # 0
  PROVE  /\ k \in 1 .. n
         /\ \A i \in 1 .. n : tab[i].used /\ tab[i].user = u => i = k
         /\ tab[k].used => tab[k].user = u
<1>1. PICK f : f = UserAt(tab, u)  OBVIOUS
<1>2. /\ f # 0 => f \in 1 .. n /\ tab[f].used /\ tab[f].user = u
      /\ f = 0 => \A i \in 1 .. n : ~(tab[i].used /\ tab[i].user = u)
  BY <1>1, FindUser
<1>3. k = IF f # 0 THEN f ELSE FirstFree(tab)  BY <1>1 DEF PlaceOf
<1>4. CASE f # 0  BY <1>2, <1>3, <1>4 DEF OneEach, UserTable
<1>5. CASE f = 0
  <2>1. FirstFree(tab) # 0 /\ k = FirstFree(tab)  BY <1>3, <1>5
  <2>2. k \in 1 .. n /\ ~tab[k].used  BY <2>1, FreeSlot DEF UserTable
  <2> QED BY <1>2, <1>5, <2>2
<1> QED BY <1>4, <1>5

\* Two tables with the same entries for a name find the same entry.
LEMMA UserStays ==
  ASSUME NEW n, NEW tab, NEW t, UserTable(tab, n), UserTable(t, n), NEW u,
         \A i \in 1 .. n : (t[i].used /\ t[i].user = u) <=> (tab[i].used /\ tab[i].user = u)
  PROVE  UserAt(t, u) = UserAt(tab, u)
<1>1. {i \in Taken(tab) : tab[i].user = u} = {i \in Taken(t) : t[i].user = u}  BY DEF Taken, UserTable
<1> QED BY <1>1 DEF UserAt

------------------------------
(* Records and passwords.                                                  *)

\* The strengthening of LoginsCurrent: a user has at most one record and
\* one password, they are those given last, and without one nothing was
\* given.
UserEntry == [used : BOOLEAN, user : Logins \cup {""}, uid : Nat]
ShadowEntry == [used : BOOLEAN, user : Logins \cup {""}, hash : Passwords \cup {0}, lastchg : Nat, maxdays : Nat]
RecordsCurrent(tab, given) ==
    /\ tab \in [1 .. PASSWD64_MAX -> UserEntry] /\ given \in [Logins -> Nat]
    /\ OneEach(tab)
    /\ \A i \in 1 .. PASSWD64_MAX : tab[i].used =>
          tab[i].user \in Logins /\ tab[i].uid # 0 /\ tab[i].uid = given[tab[i].user]
    /\ \A u \in Logins : (\A i \in 1 .. PASSWD64_MAX : ~(tab[i].used /\ tab[i].user = u)) => given[u] = 0
ShadowsCurrent(tab, given) ==
    /\ tab \in [1 .. PASSWD64_MAX -> ShadowEntry] /\ DOMAIN given = Logins
    /\ OneEach(tab)
    /\ \A i \in 1 .. PASSWD64_MAX : tab[i].used =>
          /\ tab[i].user \in Logins
          /\ given[tab[i].user] = <<tab[i].hash, tab[i].lastchg, tab[i].maxdays>>
    /\ \A u \in Logins : (\A i \in 1 .. PASSWD64_MAX : ~(tab[i].used /\ tab[i].user = u)) => given[u] = <<>>
LoginInv ==
    /\ RecordsCurrent(pw_tab, pw_given)
    /\ ShadowsCurrent(sh_tab, sh_given)
    /\ pw_today \in Nat

LEMMA LoginStarts == LoginInit => LoginInv
<1> SUFFICES ASSUME LoginInit PROVE LoginInv  OBVIOUS
<1>1. NoUser \in UserEntry /\ ~NoUser.used /\ NoShadow \in ShadowEntry /\ ~NoShadow.used
  BY DEF NoUser, UserEntry, NoShadow, ShadowEntry
<1>2. pw_tab \in [1 .. PASSWD64_MAX -> UserEntry] /\ \A i \in 1 .. PASSWD64_MAX : ~pw_tab[i].used
  BY <1>1 DEF LoginInit
<1>3. sh_tab \in [1 .. PASSWD64_MAX -> ShadowEntry] /\ \A i \in 1 .. PASSWD64_MAX : ~sh_tab[i].used
  BY <1>1 DEF LoginInit
<1>4. RecordsCurrent(pw_tab, pw_given)  BY <1>2 DEF RecordsCurrent, OneEach, LoginInit
<1>5. ShadowsCurrent(sh_tab, sh_given)  BY <1>3 DEF ShadowsCurrent, OneEach, LoginInit
<1> QED BY <1>4, <1>5 DEF LoginInv, LoginInit

LEMMA PasswdKept ==
  ASSUME LoginInv, NEW u \in Logins, NEW uid \in 1 .. 2, passwd64_add(u, uid)
  PROVE  LoginInv'
<1>1. PICK k : k = PlaceOf(pw_tab, u) /\ k # 0  BY DEF passwd64_add
<1>2. UserTable(pw_tab, PASSWD64_MAX) /\ OneEach(pw_tab) /\ pw_tab \in [1 .. PASSWD64_MAX -> UserEntry]
  BY DEF LoginInv, RecordsCurrent, UserTable
<1>3. /\ k \in 1 .. PASSWD64_MAX
      /\ \A i \in 1 .. PASSWD64_MAX : pw_tab[i].used /\ pw_tab[i].user = u => i = k
      /\ pw_tab[k].used => pw_tab[k].user = u
  <2>1. UserTable(pw_tab, PASSWD64_MAX) /\ OneEach(pw_tab)  BY <1>2
  <2> QED BY <1>1, <2>1, PlaceUser
<1>4. PICK e : e = [used |-> TRUE, user |-> u, uid |-> uid]  OBVIOUS
<1>5. e \in UserEntry /\ e.used /\ e.user = u /\ e.uid = uid /\ uid \in Nat /\ uid # 0
  <2>1. uid \in Nat /\ uid # 0  OBVIOUS
  <2> QED BY <1>4, <2>1 DEF UserEntry
<1>6. /\ pw_tab' = [pw_tab EXCEPT ![k] = e] /\ pw_given' = [pw_given EXCEPT ![u] = uid]
      /\ sh_tab' = sh_tab /\ sh_given' = sh_given /\ pw_today' = pw_today
  BY <1>1, <1>4 DEF passwd64_add
<1>7. /\ pw_tab' \in [1 .. PASSWD64_MAX -> UserEntry] /\ pw_tab'[k] = e
      /\ \A i \in 1 .. PASSWD64_MAX : i # k => pw_tab'[i] = pw_tab[i]
  BY <1>2, <1>3, <1>5, <1>6
<1>8. /\ pw_given' \in [Logins -> Nat] /\ pw_given'[u] = uid
      /\ \A v \in Logins : v # u => pw_given'[v] = pw_given[v]
  BY <1>5, <1>6 DEF LoginInv, RecordsCurrent
<1>9. OneEach(pw_tab')  BY <1>2, <1>3, <1>5, <1>7 DEF OneEach
<1>10. ASSUME NEW i \in 1 .. PASSWD64_MAX, pw_tab'[i].used
       PROVE  pw_tab'[i].user \in Logins /\ pw_tab'[i].uid # 0 /\ pw_tab'[i].uid = pw_given'[pw_tab'[i].user]
  <2>1. CASE i = k  BY <1>5, <1>7, <1>8, <2>1
  <2>2. CASE i # k
    <3>1. pw_tab'[i] = pw_tab[i] /\ pw_tab[i].used /\ pw_tab[i].user # u  BY <1>3, <1>7, <1>10, <2>2
    <3> QED BY <1>8, <3>1 DEF LoginInv, RecordsCurrent
  <2> QED BY <2>1, <2>2
<1>11. ASSUME NEW v \in Logins, \A i \in 1 .. PASSWD64_MAX : ~(pw_tab'[i].used /\ pw_tab'[i].user = v)
       PROVE  pw_given'[v] = 0
  <2>1. v # u  BY <1>3, <1>5, <1>7, <1>11
  <2>2. \A i \in 1 .. PASSWD64_MAX : ~(pw_tab[i].used /\ pw_tab[i].user = v)  BY <1>3, <1>7, <1>11, <2>1
  <2> QED BY <1>8, <2>1, <2>2 DEF LoginInv, RecordsCurrent
<1>12. RecordsCurrent(pw_tab', pw_given')  BY <1>7, <1>8, <1>9, <1>10, <1>11 DEF RecordsCurrent
<1> QED BY <1>6, <1>12 DEF LoginInv

LEMMA ShadowKept ==
  ASSUME LoginInv, NEW u \in Logins, NEW h \in Passwords, NEW m \in 0 .. 1, shadow64_set(u, h, m)
  PROVE  LoginInv'
<1>1. PICK k : k = PlaceOf(sh_tab, u) /\ k # 0  BY DEF shadow64_set
<1>2. /\ UserTable(sh_tab, PASSWD64_MAX) /\ OneEach(sh_tab) /\ sh_tab \in [1 .. PASSWD64_MAX -> ShadowEntry]
      /\ pw_today \in Nat
  BY DEF LoginInv, ShadowsCurrent, UserTable
<1>3. /\ k \in 1 .. PASSWD64_MAX
      /\ \A i \in 1 .. PASSWD64_MAX : sh_tab[i].used /\ sh_tab[i].user = u => i = k
      /\ sh_tab[k].used => sh_tab[k].user = u
  <2>1. UserTable(sh_tab, PASSWD64_MAX) /\ OneEach(sh_tab)  BY <1>2
  <2> QED BY <1>1, <2>1, PlaceUser
<1>4. PICK e : e = [used |-> TRUE, user |-> u, hash |-> h, lastchg |-> pw_today, maxdays |-> m]  OBVIOUS
<1>5. e \in ShadowEntry /\ e.used /\ e.user = u /\ <<h, pw_today, m>> = <<e.hash, e.lastchg, e.maxdays>>
  <2>1. m \in Nat /\ u \in Logins /\ h \in Passwords /\ pw_today \in Nat  BY <1>2
  <2>2. e.hash = h /\ e.lastchg = pw_today /\ e.maxdays = m /\ e.used /\ e.user = u  BY <1>4
  <2>3. e \in ShadowEntry  BY <1>4, <2>1 DEF ShadowEntry
  <2> QED BY <2>2, <2>3
<1>6. /\ sh_tab' = [sh_tab EXCEPT ![k] = e] /\ sh_given' = [sh_given EXCEPT ![u] = <<h, pw_today, m>>]
      /\ pw_tab' = pw_tab /\ pw_given' = pw_given /\ pw_today' = pw_today
  BY <1>1, <1>4 DEF shadow64_set
<1>7. /\ sh_tab' \in [1 .. PASSWD64_MAX -> ShadowEntry] /\ sh_tab'[k] = e
      /\ \A i \in 1 .. PASSWD64_MAX : i # k => sh_tab'[i] = sh_tab[i]
  BY <1>2, <1>3, <1>5, <1>6
<1>8. /\ DOMAIN sh_given' = Logins /\ sh_given'[u] = <<h, pw_today, m>>
      /\ \A v \in Logins : v # u => sh_given'[v] = sh_given[v]
  BY <1>6 DEF LoginInv, ShadowsCurrent
<1>9. OneEach(sh_tab')  BY <1>2, <1>3, <1>5, <1>7 DEF OneEach
<1>10. ASSUME NEW i \in 1 .. PASSWD64_MAX, sh_tab'[i].used
       PROVE  /\ sh_tab'[i].user \in Logins
              /\ sh_given'[sh_tab'[i].user] = <<sh_tab'[i].hash, sh_tab'[i].lastchg, sh_tab'[i].maxdays>>
  <2>1. CASE i = k  BY <1>5, <1>7, <1>8, <2>1
  <2>2. CASE i # k
    <3>1. sh_tab'[i] = sh_tab[i] /\ sh_tab[i].used /\ sh_tab[i].user # u  BY <1>3, <1>7, <1>10, <2>2
    <3> QED BY <1>8, <3>1 DEF LoginInv, ShadowsCurrent
  <2> QED BY <2>1, <2>2
<1>11. ASSUME NEW v \in Logins, \A i \in 1 .. PASSWD64_MAX : ~(sh_tab'[i].used /\ sh_tab'[i].user = v)
       PROVE  sh_given'[v] = <<>>
  <2>1. v # u  BY <1>3, <1>5, <1>7, <1>11
  <2>2. \A i \in 1 .. PASSWD64_MAX : ~(sh_tab[i].used /\ sh_tab[i].user = v)  BY <1>3, <1>7, <1>11, <2>1
  <2> QED BY <1>8, <2>1, <2>2 DEF LoginInv, ShadowsCurrent
<1>12. ShadowsCurrent(sh_tab', sh_given')  BY <1>7, <1>8, <1>9, <1>10, <1>11 DEF ShadowsCurrent
<1> QED BY <1>6, <1>12 DEF LoginInv

LEMMA LoginKept == LoginInv /\ LoginNext => LoginInv'
<1> SUFFICES ASSUME LoginInv, LoginNext PROVE LoginInv'  OBVIOUS
<1>1. CASE NextDay
  <2>1. pw_tab' = pw_tab /\ pw_given' = pw_given /\ sh_tab' = sh_tab /\ sh_given' = sh_given /\ pw_today' \in Nat
    BY <1>1 DEF NextDay, LoginInv
  <2> QED BY <2>1 DEF LoginInv
<1> QED BY <1>1, PasswdKept, ShadowKept DEF LoginNext

LEMMA LoginHolds == LoginInv => LoginsCurrent
<1> SUFFICES ASSUME LoginInv, NEW u \in Logins
             PROVE  /\ passwd64_find(u) = IF pw_given[u] = 0 THEN -2 ELSE pw_given[u]
                    /\ \A h \in Passwords :
                          shadow64_check(u, h, pw_today) = 0 <=>
                              /\ sh_given[u] # <<>>
                              /\ sh_given[u][1] = h
                              /\ sh_given[u][3] = 0 \/ pw_today <= sh_given[u][2] + sh_given[u][3]
  BY DEF LoginsCurrent
<1>1. UserTable(pw_tab, PASSWD64_MAX) /\ UserTable(sh_tab, PASSWD64_MAX)
  BY DEF LoginInv, RecordsCurrent, ShadowsCurrent, UserTable
<1>2. passwd64_find(u) = IF pw_given[u] = 0 THEN -2 ELSE pw_given[u]
  <2>1. PICK f : f = UserAt(pw_tab, u)  OBVIOUS
  <2>2. /\ f # 0 => f \in 1 .. PASSWD64_MAX /\ pw_tab[f].used /\ pw_tab[f].user = u
        /\ f = 0 => \A i \in 1 .. PASSWD64_MAX : ~(pw_tab[i].used /\ pw_tab[i].user = u)
    BY <1>1, <2>1, FindUser
  <2>3. passwd64_find(u) = IF f = 0 THEN -2 ELSE pw_tab[f].uid  BY <2>1 DEF passwd64_find
  <2>4. CASE f = 0  BY <2>2, <2>3, <2>4 DEF LoginInv, RecordsCurrent
  <2>5. CASE f # 0  BY <2>2, <2>3, <2>5 DEF LoginInv, RecordsCurrent
  <2> QED BY <2>4, <2>5
<1>3. ASSUME NEW h \in Passwords
      PROVE  shadow64_check(u, h, pw_today) = 0 <=>
                 /\ sh_given[u] # <<>>
                 /\ sh_given[u][1] = h
                 /\ sh_given[u][3] = 0 \/ pw_today <= sh_given[u][2] + sh_given[u][3]
  <2>1. PICK f : f = UserAt(sh_tab, u)  OBVIOUS
  <2>2. /\ f # 0 => f \in 1 .. PASSWD64_MAX /\ sh_tab[f].used /\ sh_tab[f].user = u
        /\ f = 0 => \A i \in 1 .. PASSWD64_MAX : ~(sh_tab[i].used /\ sh_tab[i].user = u)
    BY <1>1, <2>1, FindUser
  <2>3. shadow64_check(u, h, pw_today) =
            IF f = 0 THEN -4 ELSE IF sh_tab[f].hash # h THEN -2
            ELSE IF sh_tab[f].maxdays # 0 /\ pw_today > sh_tab[f].lastchg + sh_tab[f].maxdays THEN -3 ELSE 0
    BY <2>1 DEF shadow64_check
  <2>4. CASE f = 0
    <3>1. sh_given[u] = <<>>  BY <2>2, <2>4 DEF LoginInv, ShadowsCurrent
    <3>2. shadow64_check(u, h, pw_today) # 0  BY <2>3, <2>4
    <3> QED BY <3>1, <3>2
  <2>5. CASE f # 0
    <3>1. f \in 1 .. PASSWD64_MAX /\ sh_tab[f].used /\ sh_tab[f].user = u  BY <2>2, <2>5
    <3>2. sh_tab[f] \in ShadowEntry /\ pw_today \in Nat  BY <3>1 DEF LoginInv, ShadowsCurrent
    <3>3. sh_given[u] = <<sh_tab[f].hash, sh_tab[f].lastchg, sh_tab[f].maxdays>>
      BY <3>1 DEF LoginInv, ShadowsCurrent
    <3>4. PICK a \in Nat, b \in Nat, t \in Nat, g \in Passwords \cup {0} :
              a = sh_tab[f].lastchg /\ b = sh_tab[f].maxdays /\ t = pw_today /\ g = sh_tab[f].hash
      BY <3>2 DEF ShadowEntry
    <3>5. sh_given[u] # <<>> /\ sh_given[u][1] = g /\ sh_given[u][2] = a /\ sh_given[u][3] = b  BY <3>3, <3>4
    <3>6. shadow64_check(u, h, pw_today) = IF g # h THEN -2 ELSE IF b # 0 /\ t > a + b THEN -3 ELSE 0
      BY <2>3, <2>5, <3>4
    <3>7. shadow64_check(u, h, pw_today) = 0 <=> g = h /\ (b = 0 \/ t <= a + b)  BY <3>6
    <3> QED BY <3>4, <3>5, <3>7
  <2> QED BY <2>4, <2>5
<1> QED BY <1>2, <1>3

------------------------------
(* Stamps.                                                                 *)

\* The strengthening of StampHonest: a user has one stamp at most, with
\* the time it was made at, and times are those of the clock.
StampEntry == [used : BOOLEAN, user : Logins \cup {""}, time : Nat]
SudoInv ==
    /\ su_stamps \in [1 .. SUDO64_MAX_STAMPS -> StampEntry] /\ OneEach(su_stamps)
    /\ su_now \in 1 .. SudoEnd /\ DOMAIN su_given = Logins
    /\ \A i \in 1 .. SUDO64_MAX_STAMPS : su_stamps[i].used =>
          /\ su_stamps[i].user \in Logins /\ su_stamps[i].time \in 1 .. SudoEnd
          /\ su_stamps[i].time = su_given[su_stamps[i].user]
    /\ \A u \in Logins : (\A i \in 1 .. SUDO64_MAX_STAMPS : ~(su_stamps[i].used /\ su_stamps[i].user = u)) =>
          su_given[u] = -1
    /\ su_rules \in Seq([user : Logins, command : SudoCommands \cup {"*"}, nopasswd : BOOLEAN])

LEMMA SudoStarts == SudoInit => SudoInv
<1> SUFFICES ASSUME SudoInit PROVE SudoInv  OBVIOUS
<1>1. [used |-> FALSE, user |-> "", time |-> 0] \in StampEntry  BY DEF StampEntry
<1>2. /\ su_stamps \in [1 .. SUDO64_MAX_STAMPS -> StampEntry]
      /\ \A i \in 1 .. SUDO64_MAX_STAMPS : ~su_stamps[i].used
  BY <1>1 DEF SudoInit
<1>3. su_now \in 1 .. SudoEnd
  <2>1. SudoEnd \in Nat \ {0}  BY Access64Assumption DEF Access64Assumption
  <2>2. su_now = 1  BY DEF SudoInit
  <2> QED BY <2>1, <2>2
<1>4. su_rules \in Seq([user : Logins, command : SudoCommands \cup {"*"}, nopasswd : BOOLEAN])
  BY EmptySeq DEF SudoInit
<1> QED BY <1>2, <1>3, <1>4 DEF SudoInv, SudoInit, OneEach

LEMMA SudoStampKept ==
  ASSUME SudoInv, NEW u \in Logins, sudo64_stamp(u)
  PROVE  SudoInv'
<1>1. PICK k : k = PlaceOf(su_stamps, u) /\ k # 0  BY DEF sudo64_stamp
<1>2. /\ UserTable(su_stamps, SUDO64_MAX_STAMPS) /\ OneEach(su_stamps)
      /\ su_stamps \in [1 .. SUDO64_MAX_STAMPS -> StampEntry] /\ su_now \in 1 .. SudoEnd /\ su_now \in Nat
  BY Access64Assumption DEF SudoInv, Access64Assumption, UserTable
<1>3. /\ k \in 1 .. SUDO64_MAX_STAMPS
      /\ \A i \in 1 .. SUDO64_MAX_STAMPS : su_stamps[i].used /\ su_stamps[i].user = u => i = k
      /\ su_stamps[k].used => su_stamps[k].user = u
  BY <1>1, <1>2, PlaceUser
<1>4. PICK e : e = [used |-> TRUE, user |-> u, time |-> su_now]  OBVIOUS
<1>5. e \in StampEntry /\ e.used /\ e.user = u /\ e.time = su_now  BY <1>2, <1>4 DEF StampEntry
<1>6. /\ su_stamps' = [su_stamps EXCEPT ![k] = e] /\ su_given' = [su_given EXCEPT ![u] = su_now]
      /\ su_rules' = su_rules /\ su_now' = su_now
  BY <1>1, <1>4 DEF sudo64_stamp
<1>7. /\ su_stamps' \in [1 .. SUDO64_MAX_STAMPS -> StampEntry] /\ su_stamps'[k] = e
      /\ \A i \in 1 .. SUDO64_MAX_STAMPS : i # k => su_stamps'[i] = su_stamps[i]
  BY <1>2, <1>3, <1>5, <1>6
<1>8. /\ DOMAIN su_given' = Logins /\ su_given'[u] = su_now
      /\ \A v \in Logins : v # u => su_given'[v] = su_given[v]
  BY <1>6 DEF SudoInv
<1>9. OneEach(su_stamps')  BY <1>2, <1>3, <1>5, <1>7 DEF OneEach
<1>10. ASSUME NEW i \in 1 .. SUDO64_MAX_STAMPS, su_stamps'[i].used
       PROVE  /\ su_stamps'[i].user \in Logins /\ su_stamps'[i].time \in 1 .. SudoEnd
              /\ su_stamps'[i].time = su_given'[su_stamps'[i].user]
  <2>1. CASE i = k  BY <1>2, <1>5, <1>7, <1>8, <2>1
  <2>2. CASE i # k
    <3>1. su_stamps'[i] = su_stamps[i] /\ su_stamps[i].used /\ su_stamps[i].user # u  BY <1>3, <1>7, <1>10, <2>2
    <3> QED BY <1>8, <3>1 DEF SudoInv
  <2> QED BY <2>1, <2>2
<1>11. ASSUME NEW v \in Logins, \A i \in 1 .. SUDO64_MAX_STAMPS : ~(su_stamps'[i].used /\ su_stamps'[i].user = v)
       PROVE  su_given'[v] = -1
  <2>1. v # u  BY <1>3, <1>5, <1>7, <1>11
  <2>2. \A i \in 1 .. SUDO64_MAX_STAMPS : ~(su_stamps[i].used /\ su_stamps[i].user = v)
    BY <1>3, <1>7, <1>11, <2>1
  <2> QED BY <1>8, <2>1, <2>2 DEF SudoInv
<1> QED BY <1>2, <1>6, <1>7, <1>8, <1>9, <1>10, <1>11 DEF SudoInv

LEMMA SudoKept == SudoInv /\ SudoNext => SudoInv'
<1> SUFFICES ASSUME SudoInv, SudoNext PROVE SudoInv'  OBVIOUS
<1>1. CASE \E u \in Logins : sudo64_stamp(u)  BY <1>1, SudoStampKept
<1>2. ASSUME NEW u \in Logins, NEW c \in {"*"} \cup SudoCommands, NEW n \in BOOLEAN, sudo64_rule_add(u, c, n)
      PROVE  SudoInv'
  <2> DEFINE R == [user : Logins, command : SudoCommands \cup {"*"}, nopasswd : BOOLEAN]
  <2>1. [user |-> u, command |-> c, nopasswd |-> n] \in R /\ su_rules \in Seq(R)  BY DEF SudoInv
  <2>2. su_rules' = Append(su_rules, [user |-> u, command |-> c, nopasswd |-> n])  BY <1>2 DEF sudo64_rule_add
  <2>3. su_rules' \in Seq(R)
    <3> HIDE DEF R
    <3> QED BY <2>1, <2>2, AppendProperties
  <2> QED BY <1>2, <2>3 DEF SudoInv, sudo64_rule_add
<1>3. CASE \E t \in 1 .. SudoEnd : SetClock(t)  BY <1>3 DEF SudoInv, SetClock
<1> QED BY <1>1, <1>2, <1>3 DEF SudoNext

LEMMA StampHolds == SudoInv => StampHonest
<1> SUFFICES ASSUME SudoInv, NEW u \in Logins, NEW timeout \in SudoTimeouts
             PROVE  sudo64_stamp_valid(u, su_now, timeout) <=>
                       su_given[u] # -1 /\ su_now >= su_given[u] /\ su_now <= su_given[u] + timeout
  BY DEF StampHonest
<1>1. PICK f : f = UserAt(su_stamps, u)  OBVIOUS
<1>2. UserTable(su_stamps, SUDO64_MAX_STAMPS)  BY DEF SudoInv, UserTable
<1>3. /\ f # 0 => f \in 1 .. SUDO64_MAX_STAMPS /\ su_stamps[f].used /\ su_stamps[f].user = u
      /\ f = 0 => \A i \in 1 .. SUDO64_MAX_STAMPS : ~(su_stamps[i].used /\ su_stamps[i].user = u)
  BY <1>1, <1>2, FindUser
<1>4. sudo64_stamp_valid(u, su_now, timeout) <=>
          f # 0 /\ ~(su_now < su_stamps[f].time) /\ (su_now - su_stamps[f].time) % (SudoEnd + 1) <= timeout
  BY <1>1 DEF sudo64_stamp_valid, ClockBack
<1>5. CASE f = 0  BY <1>3, <1>4, <1>5 DEF SudoInv
<1>6. CASE f # 0
  <2>1. su_stamps[f].time \in 1 .. SudoEnd /\ su_stamps[f].time = su_given[u] /\ su_now \in 1 .. SudoEnd
    BY <1>3, <1>6 DEF SudoInv
  <2>2. PICK s \in Nat, n \in Nat, N \in Nat, d \in Nat :
            s = su_given[u] /\ n = su_now /\ N = SudoEnd /\ d = timeout /\ 1 <= s /\ n <= N
    BY <2>1, Access64Assumption DEF Access64Assumption
  <2>3. n >= s => (n - s) % (N + 1) = n - s
    <3> SUFFICES ASSUME n >= s PROVE (n - s) % (N + 1) = n - s  OBVIOUS
    <3>1. PICK a \in Nat, R \in Nat \ {0} : a = n - s /\ R = N + 1 /\ a < R  BY <2>2
    <3>2. a % R = a  BY <3>1
    <3> QED BY <3>1, <3>2
  <2>4. su_given[u] # -1  BY <2>2
  <2>5. sudo64_stamp_valid(u, su_now, timeout) <=> ~(n < s) /\ (n - s) % (N + 1) <= d  BY <1>4, <1>6, <2>1, <2>2
  <2> QED BY <2>2, <2>3, <2>4, <2>5
<1> QED BY <1>5, <1>6

------------------------------
(* The header of a volume, and prompts.                                    *)

LEMMA LuksStarts == LuksInit => HeaderCurrent
BY DEF LuksInit, HeaderCurrent

LEMMA LuksKept == HeaderCurrent /\ LuksNext => HeaderCurrent'
<1> SUFFICES ASSUME LuksNext PROVE lk_crc' = lk_vol'  BY DEF HeaderCurrent, vol_crc
<1>1. CASE luksop64_lock  BY <1>1 DEF luksop64_lock, vol_crc
<1>2. ASSUME NEW b, luksop64_format(b) PROVE lk_crc' = lk_vol'
  <2>1. \E v : lk_vol' = v /\ lk_crc' = v  BY <1>2 DEF luksop64_format, vol_crc
  <2> QED BY <2>1
<1>3. ASSUME NEW s, NEW k, luksop64_add_key_slot(s, k) PROVE lk_crc' = lk_vol'
  <2>1. \E v : lk_vol' = v /\ lk_crc' = v  BY <1>3 DEF luksop64_add_key_slot, vol_crc
  <2> QED BY <2>1
<1>4. ASSUME NEW s, NEW k, luksop64_unlock(s, k) PROVE lk_crc' = lk_vol'
  <2>1. \E v : lk_vol' = v /\ lk_crc' = v  BY <1>4 DEF luksop64_unlock, vol_crc
  <2> QED BY <2>1
<1> QED BY <1>1, <1>2, <1>3, <1>4 DEF LuksNext

\* The strengthening of NothingWaitsInVain: an entry that is free has neither.
AppEntry == [used : BOOLEAN, user : AppIds \cup {""}, perms : SUBSET Ops, pending : SUBSET Ops]
SecctxInv ==
    /\ sc_tab \in [1 .. SECCTX64_MAX_APP -> AppEntry]
    /\ \A i \in 1 .. SECCTX64_MAX_APP : sc_tab[i].pending \cap sc_tab[i].perms = {}

LEMMA SecctxStarts == SecctxInit => SecctxInv
<1>1. NoApp \in AppEntry /\ NoApp.pending \cap NoApp.perms = {}  BY DEF NoApp, AppEntry
<1> QED BY <1>1 DEF SecctxInit, SecctxInv

LEMMA SecctxPut ==
  ASSUME SecctxInv, NEW k \in 1 .. SECCTX64_MAX_APP, NEW e \in AppEntry, e.pending \cap e.perms = {},
         sc_tab' = [sc_tab EXCEPT ![k] = e]
  PROVE  SecctxInv'
<1>1. /\ sc_tab' \in [1 .. SECCTX64_MAX_APP -> AppEntry] /\ sc_tab'[k] = e
      /\ \A i \in 1 .. SECCTX64_MAX_APP : i # k => sc_tab'[i] = sc_tab[i]
  BY DEF SecctxInv
<1> QED BY <1>1 DEF SecctxInv

LEMMA SecctxKept == SecctxInv /\ SecctxNext => SecctxInv'
<1> SUFFICES ASSUME SecctxInv, NEW app \in AppIds,
                    \/ secctx64_register(app)
                    \/ \E p \in Ops : secctx64_grant(app, p) \/ secctx64_revoke(app, p) \/ secctx64_prompt(app, p)
             PROVE  SecctxInv'
  BY DEF SecctxNext
<1>1. sc_tab \in [1 .. SECCTX64_MAX_APP -> AppEntry] /\ DOMAIN sc_tab = 1 .. SECCTX64_MAX_APP  BY DEF SecctxInv
<1>2. CASE secctx64_register(app)
  <2>1. PICK k \in 1 .. SECCTX64_MAX_APP : k = FirstFree(sc_tab)  BY <1>1, <1>2, FreeSlot DEF secctx64_register
  <2>2. PICK e : e = [NoApp EXCEPT !.used = TRUE, !.user = app]  OBVIOUS
  <2>3. e \in AppEntry /\ e.pending \cap e.perms = {}
    <3>1. NoApp \in AppEntry /\ NoApp.pending = {} /\ NoApp.perms = {}  BY DEF NoApp, AppEntry
    <3> QED BY <2>2, <3>1 DEF AppEntry
  <2>4. sc_tab' = [sc_tab EXCEPT ![k] = e]  BY <1>2, <2>1, <2>2 DEF secctx64_register
  <2> QED BY <2>3, <2>4, SecctxPut
<1>3. ASSUME NEW k, k = secctx64_find(app), k # 0
      PROVE  k \in 1 .. SECCTX64_MAX_APP /\ sc_tab[k] \in AppEntry /\ sc_tab[k].pending \cap sc_tab[k].perms = {}
  <2>1. UserTable(sc_tab, SECCTX64_MAX_APP) /\ k = UserAt(sc_tab, app)
    BY <1>1, <1>3 DEF secctx64_find, UserTable
  <2>2. k \in 1 .. SECCTX64_MAX_APP  BY <1>3, <2>1, FindUser
  <2> QED BY <1>1, <2>2 DEF SecctxInv
<1>4. ASSUME NEW p \in Ops, secctx64_grant(app, p) PROVE SecctxInv'
  <2>1. PICK k : k = secctx64_find(app) /\ k # 0  BY <1>4 DEF secctx64_grant
  <2>2. k \in 1 .. SECCTX64_MAX_APP /\ sc_tab[k] \in AppEntry /\ sc_tab[k].pending \cap sc_tab[k].perms = {}
    BY <1>3, <2>1
  <2>3. PICK e : e = [sc_tab[k] EXCEPT !.perms = sc_tab[k].perms \cup {p}, !.pending = sc_tab[k].pending \ {p}]
    OBVIOUS
  <2>4. e \in AppEntry /\ e.pending \cap e.perms = {}  BY <2>2, <2>3 DEF AppEntry
  <2>5. sc_tab' = [sc_tab EXCEPT ![k] = e]  BY <1>1, <1>4, <2>1, <2>2, <2>3 DEF secctx64_grant, AppEntry
  <2> QED BY <2>2, <2>4, <2>5, SecctxPut
<1>5. ASSUME NEW p \in Ops, secctx64_revoke(app, p) PROVE SecctxInv'
  <2>1. PICK k : k = secctx64_find(app) /\ k # 0  BY <1>5 DEF secctx64_revoke
  <2>2. k \in 1 .. SECCTX64_MAX_APP /\ sc_tab[k] \in AppEntry /\ sc_tab[k].pending \cap sc_tab[k].perms = {}
    BY <1>3, <2>1
  <2>3. PICK e : e = [sc_tab[k] EXCEPT !.perms = sc_tab[k].perms \ {p}]  OBVIOUS
  <2>4. e \in AppEntry /\ e.pending \cap e.perms = {}  BY <2>2, <2>3 DEF AppEntry
  <2>5. sc_tab' = [sc_tab EXCEPT ![k] = e]  BY <1>5, <2>1, <2>3 DEF secctx64_revoke
  <2> QED BY <2>2, <2>4, <2>5, SecctxPut
<1>6. ASSUME NEW p \in Ops, secctx64_prompt(app, p) PROVE SecctxInv'
  <2>1. PICK k : k = secctx64_find(app) /\ k # 0 /\ p \notin sc_tab[k].perms  BY <1>6 DEF secctx64_prompt
  <2>2. k \in 1 .. SECCTX64_MAX_APP /\ sc_tab[k] \in AppEntry /\ sc_tab[k].pending \cap sc_tab[k].perms = {}
    BY <1>3, <2>1
  <2>3. PICK e : e = [sc_tab[k] EXCEPT !.pending = sc_tab[k].pending \cup {p}]  OBVIOUS
  <2>4. e \in AppEntry /\ e.pending \cap e.perms = {}  BY <2>1, <2>2, <2>3 DEF AppEntry
  <2>5. sc_tab' = [sc_tab EXCEPT ![k] = e]  BY <1>6, <2>1, <2>3 DEF secctx64_prompt
  <2> QED BY <2>2, <2>4, <2>5, SecctxPut
<1> QED BY <1>2, <1>4, <1>5, <1>6

LEMMA SecctxHolds == SecctxInv => NothingWaitsInVain
BY DEF SecctxInv, NothingWaitsInVain, Taken

------------------------------
(* Rules that are added.                                                   *)

\* What is added behind a set of positions leaves its least one.
LEMMA LeastStays ==
  ASSUME NEW S, NEW T, S \subseteq T, T \subseteq Nat, S # {},
         \A x \in T \ S : \A y \in S : y < x
  PROVE  Min(T) = Min(S) /\ Min(S) \in S
<1>1. PICK a : a = Min(S)  OBVIOUS
<1>2. PICK b : b = Min(T)  OBVIOUS
<1>3. a \in S /\ \A y \in S : a <= y  BY <1>1, LeastIsThere
<1>4. b \in T /\ \A y \in T : b <= y
  <2>1. T # {}  OBVIOUS
  <2> QED BY <1>2, <2>1, LeastIsThere
<1>5. b <= a /\ a \in Nat /\ b \in Nat  BY <1>3, <1>4
<1>6. b \in S  BY <1>3, <1>4, <1>5
<1>7. a = b  BY <1>3, <1>5, <1>6
<1> QED BY <1>1, <1>2, <1>3, <1>7

\* The packet rules are a list of rules.
FilterRule == [src : {0} \cup FilterAddrs, port : {0} \cup FilterPorts, verdict : {"accept", "drop", "log"}]
FilterInv == nf_rules \in Seq(FilterRule)

LEMMA FilterStarts == FilterInit => FilterInv
  BY EmptySeq DEF FilterInit, FilterInv

\* One step: the list gets one rule, behind all others.
LEMMA FilterAdds ==
  ASSUME FilterInv, FilterNext
  PROVE  \E e \in FilterRule : nf_rules' = Append(nf_rules, e)
<1>1. PICK s \in {0} \cup FilterAddrs, p \in {0} \cup FilterPorts, v \in {"accept", "drop", "log"} :
          netfilter64_add(s, p, v)
  BY DEF FilterNext
<1>2. [src |-> s, port |-> p, verdict |-> v] \in FilterRule  BY DEF FilterRule
<1> QED BY <1>1, <1>2 DEF netfilter64_add

LEMMA FilterKept == FilterInv /\ FilterNext => FilterInv'
<1> SUFFICES ASSUME FilterInv, FilterNext PROVE FilterInv'  OBVIOUS
<1>1. PICK e \in FilterRule : nf_rules' = Append(nf_rules, e)  BY FilterAdds
<1>2. nf_rules \in Seq(FilterRule)  BY DEF FilterInv
<1>3. Append(nf_rules, e) \in Seq(FilterRule)  BY <1>2, AppendProperties
<1> QED BY <1>1, <1>3 DEF FilterInv

LEMMA FilterHolds == FilterInv /\ FilterNext => EarlierRulesHold
<1> SUFFICES ASSUME FilterInv, FilterNext, NEW s \in FilterAddrs, NEW p \in FilterPorts,
                    Deciding(nf_rules, s, p) # {}
             PROVE  netfilter64_hook(nf_rules', s, p) = netfilter64_hook(nf_rules, s, p)
  BY DEF EarlierRulesHold
<1>1. PICK e \in FilterRule : nf_rules' = Append(nf_rules, e)  BY FilterAdds
<1>2. nf_rules \in Seq(FilterRule)  BY DEF FilterInv
<1>3. PICK n \in Nat : n = Len(nf_rules)  BY <1>2, LenProperties
<1>4. PICK q : q = nf_rules'  OBVIOUS
<1>5. Len(q) = n + 1 /\ \A i \in 1 .. n : q[i] = nf_rules[i]  BY <1>1, <1>2, <1>3, <1>4, AppendProperties
<1>6. PICK S : S = Deciding(nf_rules, s, p)  OBVIOUS
<1>7. PICK T : T = Deciding(q, s, p)  OBVIOUS
<1>8. S \subseteq 1 .. n /\ T \subseteq 1 .. n + 1 /\ \A i \in 1 .. n : i \in S <=> i \in T
  BY <1>3, <1>5, <1>6, <1>7 DEF Deciding
<1>9. S \subseteq T /\ T \subseteq Nat /\ S # {} /\ \A x \in T \ S : \A y \in S : y < x  BY <1>6, <1>8
<1>10. Min(T) = Min(S) /\ Min(S) \in S  BY <1>9, LeastStays
<1>11. T # {} /\ q[Min(S)] = nf_rules[Min(S)]  BY <1>5, <1>8, <1>9, <1>10
<1>12. netfilter64_hook(q, s, p) = q[Min(T)].verdict  BY <1>7, <1>11 DEF netfilter64_hook, Decides
<1>13. netfilter64_hook(nf_rules, s, p) = nf_rules[Min(S)].verdict  BY <1>6, <1>9 DEF netfilter64_hook, Decides
<1> QED BY <1>4, <1>10, <1>11, <1>12, <1>13

\* A step of sudo leaves the rules or adds one behind all others.
SudoRule == [user : Logins, command : SudoCommands \cup {"*"}, nopasswd : BOOLEAN]
LEMMA SudoAdds ==
  ASSUME SudoInv, SudoNext
  PROVE  su_rules' = su_rules \/ \E e \in SudoRule : su_rules' = Append(su_rules, e)
<1>1. CASE \E u \in Logins : sudo64_stamp(u)  BY <1>1 DEF sudo64_stamp
<1>2. ASSUME NEW u \in Logins, NEW c \in {"*"} \cup SudoCommands, NEW n \in BOOLEAN, sudo64_rule_add(u, c, n)
      PROVE  \E e \in SudoRule : su_rules' = Append(su_rules, e)
  <2>1. [user |-> u, command |-> c, nopasswd |-> n] \in SudoRule  BY DEF SudoRule
  <2> QED BY <1>2, <2>1 DEF sudo64_rule_add
<1>3. CASE \E t \in 1 .. SudoEnd : SetClock(t)  BY <1>3 DEF SetClock
<1> QED BY <1>1, <1>2, <1>3 DEF SudoNext

LEMMA SudoHolds == SudoInv /\ SudoNext => EarlierSudoHolds
<1> SUFFICES ASSUME SudoInv, SudoNext, NEW u \in Logins, NEW c \in SudoCommands,
                    sudo64_check(su_rules, u, c) # "no"
             PROVE  sudo64_check(su_rules', u, c) = sudo64_check(su_rules, u, c)
  BY DEF EarlierSudoHolds
<1>1. CASE su_rules' = su_rules  BY <1>1
<1>2. ASSUME NEW e \in SudoRule, su_rules' = Append(su_rules, e)
      PROVE  sudo64_check(su_rules', u, c) = sudo64_check(su_rules, u, c)
  <2>2. su_rules \in Seq(SudoRule)  BY DEF SudoInv, SudoRule
  <2>3. PICK n \in Nat : n = Len(su_rules)  BY <2>2, LenProperties
  <2>4. PICK q : q = su_rules'  OBVIOUS
  <2>5. Len(q) = n + 1 /\ \A i \in 1 .. n : q[i] = su_rules[i]  BY <1>2, <2>2, <2>3, <2>4, AppendProperties
  <2>6. PICK S : S = SudoMatches(su_rules, u, c)  OBVIOUS
  <2>7. PICK T : T = SudoMatches(q, u, c)  OBVIOUS
  <2>8. S \subseteq 1 .. n /\ T \subseteq 1 .. n + 1 /\ \A i \in 1 .. n : i \in S <=> i \in T
    BY <2>3, <2>5, <2>6, <2>7 DEF SudoMatches
  <2>9. S # {}  BY <2>6 DEF sudo64_check
  <2>10. S \subseteq T /\ T \subseteq Nat /\ \A x \in T \ S : \A y \in S : y < x  BY <2>8
  <2>11. Min(T) = Min(S) /\ Min(S) \in S  BY <2>9, <2>10, LeastStays
  <2>12. T # {} /\ q[Min(S)] = su_rules[Min(S)]  BY <2>5, <2>8, <2>9, <2>10, <2>11
  <2>13. sudo64_check(q, u, c) = IF q[Min(T)].nopasswd THEN "free" ELSE "password"
    BY <2>7, <2>12 DEF sudo64_check, SudoDecides
  <2>14. sudo64_check(su_rules, u, c) = IF su_rules[Min(S)].nopasswd THEN "free" ELSE "password"
    BY <2>6, <2>9 DEF sudo64_check, SudoDecides
  <2>15. q[Min(T)] = su_rules[Min(S)]  BY <2>11, <2>12
  <2> QED BY <2>4, <2>13, <2>14, <2>15
<1> QED BY <1>1, <1>2, SudoAdds

------------------------------
(* Rules between types, and labels.                                        *)

TypeRule == [src : SelinuxTypes, dst : SelinuxTypes, perms : SUBSET Ops]
Label == [prefix : PolicyPaths, ctx : 1 .. 2]
SelinuxInv == sl_rules \in Seq(TypeRule) /\ sl_labels \in Seq(Label)

LEMMA SelinuxStarts == SelinuxInit => SelinuxInv
  BY EmptySeq DEF SelinuxInit, SelinuxInv

\* One step: one rule is added, or one label, or neither.
LEMMA SelinuxAdds ==
  ASSUME SelinuxInv, SelinuxNext
  PROVE  \/ sl_rules' = sl_rules /\ sl_labels' = sl_labels
         \/ sl_labels' = sl_labels /\ \E e \in TypeRule : sl_rules' = Append(sl_rules, e)
         \/ sl_rules' = sl_rules /\ \E e \in Label : sl_labels' = Append(sl_labels, e)
<1>1. CASE \E t \in ContextTexts : WriteContext(t)  BY <1>1 DEF WriteContext
<1>2. ASSUME NEW s \in SelinuxTypes, NEW d \in SelinuxTypes, NEW p \in SUBSET Ops, selinux64_add_rule(s, d, p)
      PROVE  sl_labels' = sl_labels /\ \E e \in TypeRule : sl_rules' = Append(sl_rules, e)
  <2>1. [src |-> s, dst |-> d, perms |-> p] \in TypeRule  BY DEF TypeRule
  <2> QED BY <1>2, <2>1 DEF selinux64_add_rule
<1>3. ASSUME NEW p \in PolicyPaths, NEW c \in 1 .. 2, selinuxctx64_add(p, c)
      PROVE  sl_rules' = sl_rules /\ \E e \in Label : sl_labels' = Append(sl_labels, e)
  <2>1. [prefix |-> p, ctx |-> c] \in Label  BY DEF Label
  <2> QED BY <1>3, <2>1 DEF selinuxctx64_add
<1> QED BY <1>1, <1>2, <1>3 DEF SelinuxNext

LEMMA SelinuxKept == SelinuxInv /\ SelinuxNext => SelinuxInv'
<1> SUFFICES ASSUME SelinuxInv, SelinuxNext PROVE SelinuxInv'  OBVIOUS
<1>1. sl_rules \in Seq(TypeRule) /\ sl_labels \in Seq(Label)  BY DEF SelinuxInv
<1>2. \A e \in TypeRule : Append(sl_rules, e) \in Seq(TypeRule)  BY <1>1, AppendProperties
<1>3. \A e \in Label : Append(sl_labels, e) \in Seq(Label)  BY <1>1, AppendProperties
<1> QED BY <1>1, <1>2, <1>3, SelinuxAdds DEF SelinuxInv

LEMMA TypesHold == SelinuxInv /\ SelinuxNext => EarlierTypesHold
<1> SUFFICES ASSUME SelinuxInv, SelinuxNext,
                    NEW s \in SelinuxTypes, NEW d \in SelinuxTypes, NEW o \in Ops,
                    SelinuxMatches(sl_rules, s, d) # {}
             PROVE  selinux64_check(sl_rules', s, d, o) = selinux64_check(sl_rules, s, d, o)
  BY DEF EarlierTypesHold
<1>1. CASE sl_rules' = sl_rules  BY <1>1
<1>2. ASSUME NEW e \in TypeRule, sl_rules' = Append(sl_rules, e)
      PROVE  selinux64_check(sl_rules', s, d, o) = selinux64_check(sl_rules, s, d, o)
  <2>2. sl_rules \in Seq(TypeRule)  BY DEF SelinuxInv
  <2>3. PICK n \in Nat : n = Len(sl_rules)  BY <2>2, LenProperties
  <2>4. PICK q : q = sl_rules'  OBVIOUS
  <2>5. Len(q) = n + 1 /\ \A i \in 1 .. n : q[i] = sl_rules[i]  BY <1>2, <2>2, <2>3, <2>4, AppendProperties
  <2>6. PICK S : S = SelinuxMatches(sl_rules, s, d)  OBVIOUS
  <2>7. PICK T : T = SelinuxMatches(q, s, d)  OBVIOUS
  <2>8. S \subseteq 1 .. n /\ T \subseteq 1 .. n + 1 /\ \A i \in 1 .. n : i \in S <=> i \in T
    BY <2>3, <2>5, <2>6, <2>7 DEF SelinuxMatches
  <2>9. S # {}  BY <2>6
  <2>10. S \subseteq T /\ T \subseteq Nat /\ \A x \in T \ S : \A y \in S : y < x  BY <2>8
  <2>11. Min(T) = Min(S) /\ Min(S) \in S  BY <2>9, <2>10, LeastStays
  <2>12. T # {} /\ q[Min(S)] = sl_rules[Min(S)]  BY <2>5, <2>8, <2>9, <2>10, <2>11
  <2>13. selinux64_check(q, s, d, o) <=> o \in q[Min(T)].perms
    BY <2>7, <2>12 DEF selinux64_check, SelinuxDecides
  <2>14. selinux64_check(sl_rules, s, d, o) <=> o \in sl_rules[Min(S)].perms
    BY <2>6, <2>9 DEF selinux64_check, SelinuxDecides
  <2>15. q[Min(T)] = sl_rules[Min(S)]  BY <2>11, <2>12
  <2>16. selinux64_check(q, s, d, o) <=> selinux64_check(sl_rules, s, d, o)  BY <2>13, <2>14, <2>15
  <2> QED BY <2>4, <2>16 DEF selinux64_check
<1> QED BY <1>1, <1>2, SelinuxAdds

\* Of the labels of a path some are the longest, if it has any.
LEMMA LongestIsThere ==
  ASSUME NEW n \in Nat, NEW q \in Seq(Label), n = Len(q), NEW p \in PolicyPaths, LabelsOf(q, p) # {}
  PROVE  LongestLabels(q, p) # {}
<1>1. PICK L : L = LabelsOf(q, p)  OBVIOUS
<1>2. L \subseteq 1 .. n /\ L # {}  BY <1>1 DEF LabelsOf
<1>3. \A i \in 1 .. n : Len(q[i].prefix) \in Nat
  <2> TAKE i \in 1 .. n
  <2>1. q[i] \in Label  BY ElementOfSeq
  <2>2. q[i].prefix \in PolicyPaths  BY <2>1 DEF Label
  <2>3. q[i].prefix \in Seq(Nat)  BY <2>2, Access64Assumption DEF Access64Assumption
  <2> QED BY <2>3, LenProperties
<1>4. PICK m \in Nat : m = Len(p)  BY LenProperties, Access64Assumption DEF Access64Assumption
<1>5. \A i \in L : Len(q[i].prefix) <= m  BY <1>1, <1>4 DEF LabelsOf, IsPrefix
<1>6. PICK S : S = {Len(q[i].prefix) : i \in L}  OBVIOUS
<1>7. PICK G : G = {m - x : x \in S}  OBVIOUS
<1>8. \A x \in S : x \in Nat /\ x <= m  BY <1>2, <1>3, <1>5, <1>6
<1>9. G \subseteq Nat /\ G # {}
  <2>1. \A x \in S : m - x \in Nat  BY <1>8
  <2>2. S # {}  BY <1>2, <1>6
  <2> QED BY <1>7, <2>1, <2>2
<1>10. PICK g \in G : \A y \in G : g <= y  BY <1>9, LeastIsThere
<1>11. PICK x \in S : g = m - x  BY <1>7, <1>10
<1>12. PICK i \in L : x = Len(q[i].prefix)  BY <1>6, <1>11
<1>13. \A j \in L : Len(q[j].prefix) <= Len(q[i].prefix)
  <2> TAKE j \in L
  <2>1. Len(q[j].prefix) \in S  BY <1>6
  <2>2. PICK y \in Nat : y = Len(q[j].prefix) /\ y \in S  BY <1>8, <2>1
  <2>3. g <= m - y  BY <1>7, <1>10, <2>2
  <2>4. x \in Nat  BY <1>8
  <2>5. y <= x  BY <1>11, <2>3, <2>4
  <2> QED BY <1>12, <2>2, <2>5
<1> QED BY <1>1, <1>12, <1>13 DEF LongestLabels

LEMMA LabelsHold == SelinuxInv /\ SelinuxNext => LabelsNarrow
<1> SUFFICES ASSUME SelinuxInv, SelinuxNext, NEW p \in PolicyPaths,
                    selinuxctx64_label(sl_labels', p) # selinuxctx64_label(sl_labels, p)
             PROVE  /\ IsPrefix(Last(sl_labels').prefix, p)
                    /\ \A i \in 1 .. Len(sl_labels) :
                          IsPrefix(sl_labels[i].prefix, p) => Len(sl_labels[i].prefix) < Len(Last(sl_labels').prefix)
  BY DEF LabelsNarrow
<1>1. sl_labels' # sl_labels  OBVIOUS
<1>2. PICK e \in Label : sl_labels' = Append(sl_labels, e)  BY <1>1, SelinuxAdds
<1>3. PICK s : s = sl_labels  OBVIOUS
<1>4. PICK q : q = sl_labels'  OBVIOUS
<1>5. s \in Seq(Label)  BY <1>3 DEF SelinuxInv
<1>6. PICK n \in Nat : n = Len(s)  BY <1>5, LenProperties
<1>7. q \in Seq(Label) /\ Len(q) = n + 1 /\ q[n + 1] = e /\ \A i \in 1 .. n : q[i] = s[i]
  BY <1>2, <1>3, <1>4, <1>5, <1>6, AppendProperties
<1>8. Last(q) = e  BY <1>7 DEF Last
<1>9. PICK L : L = LabelsOf(s, p)  OBVIOUS
<1>10. PICK K : K = LabelsOf(q, p)  OBVIOUS
<1>11. L \subseteq 1 .. n /\ K \subseteq 1 .. n + 1 /\ \A i \in 1 .. n : i \in L <=> i \in K
  BY <1>6, <1>7, <1>9, <1>10 DEF LabelsOf
<1>12. n + 1 \in K <=> IsPrefix(e.prefix, p)  BY <1>7, <1>10 DEF LabelsOf
<1>13. PICK S : S = LongestLabels(s, p)  OBVIOUS
<1>14. PICK T : T = LongestLabels(q, p)  OBVIOUS
<1>15. S = {i \in L : \A j \in L : Len(s[j].prefix) <= Len(s[i].prefix)}  BY <1>9, <1>13 DEF LongestLabels
<1>16. T = {i \in K : \A j \in K : Len(q[j].prefix) <= Len(q[i].prefix)}  BY <1>10, <1>14 DEF LongestLabels
<1>17. selinuxctx64_label(q, p) # selinuxctx64_label(s, p)  BY <1>3, <1>4
<1>18. ~(FirstOf(S) = FirstOf(T) /\ S \subseteq 1 .. n /\ S # {})
  <2> SUFFICES ASSUME FirstOf(S) = FirstOf(T), S \subseteq 1 .. n, S # {} PROVE FALSE  OBVIOUS
  <2>1. PICK f : f = FirstOf(S)  OBVIOUS
  <2>2. f \in S
    <3>1. S \subseteq Nat \ {0}  OBVIOUS
    <3> QED BY <2>1, <3>1, FirstMatch
  <2>3. f # 0 /\ q[f] = s[f]  BY <1>7, <2>2
  <2> QED BY <1>13, <1>14, <1>17, <2>1, <2>3 DEF selinuxctx64_label
<1>19. S # T \/ S = {}  BY <1>11, <1>15, <1>18
<1>20. ASSUME S = {} PROVE L = {}  BY <1>5, <1>6, <1>9, <1>13, <1>20, LongestIsThere
<1>21. \A i \in 1 .. n + 1 : Len(q[i].prefix) \in Nat
  <2> TAKE i \in 1 .. n + 1
  <2>1. q[i] \in Label  BY <1>7, ElementOfSeq
  <2>2. q[i].prefix \in PolicyPaths  BY <2>1 DEF Label
  <2>3. q[i].prefix \in Seq(Nat)  BY <2>2, Access64Assumption DEF Access64Assumption
  <2> QED BY <2>3, LenProperties
<1>22. n + 1 \in K
  <2> SUFFICES ASSUME n + 1 \notin K PROVE FALSE  OBVIOUS
  <2>1. K = L
    <3>1. K \subseteq 1 .. n
      <4> SUFFICES ASSUME NEW i \in K PROVE i \in 1 .. n  OBVIOUS
      <4>1. i \in 1 .. n + 1 /\ i # n + 1  BY <1>11
      <4> QED BY <4>1
    <3> QED BY <1>11, <3>1
  <2>2. T = S  BY <1>7, <1>11, <1>15, <1>16, <2>1
  <2>3. S = {} /\ T = {}  BY <1>19, <2>2
  <2>4. selinuxctx64_label(q, p) = 0 /\ selinuxctx64_label(s, p) = 0
    BY <1>13, <1>14, <2>3 DEF selinuxctx64_label, FirstOf
  <2> QED BY <1>17, <2>4
<1>23. ASSUME NEW i \in 1 .. n, i \in L PROVE Len(s[i].prefix) < Len(e.prefix)
  <2>1. PICK j \in S : TRUE  BY <1>20, <1>23
  <2>2. j \in L /\ j \in 1 .. n /\ \A k \in L : Len(s[k].prefix) <= Len(s[j].prefix)  BY <1>11, <1>15, <2>1
  <2>3. PICK a \in Nat : a = Len(s[j].prefix)  BY <1>7, <1>21, <2>2
  <2>4. PICK b \in Nat : b = Len(e.prefix)  BY <1>7, <1>21
  <2>5. ASSUME ~(a < b) PROVE FALSE
    <3>1. b <= a  BY <2>5
    <3>2. S \subseteq T
      <4> SUFFICES ASSUME NEW x \in S PROVE x \in T  OBVIOUS
      <4> SUFFICES ASSUME NEW k \in K PROVE x \in K /\ Len(q[k].prefix) <= Len(q[x].prefix)
        <5>1. x \in K  BY <1>11, <1>15
        <5> QED BY <1>16, <5>1
      <4>1. x \in L /\ x \in 1 .. n /\ q[x] = s[x] /\ \A y \in L : Len(s[y].prefix) <= Len(s[x].prefix)
        BY <1>7, <1>11, <1>15
      <4>2. PICK c \in Nat : c = Len(s[x].prefix)  BY <1>21, <4>1
      <4>3. a <= c  BY <2>2, <2>3, <4>1, <4>2
      <4>4. CASE k = n + 1
        <5>1. Len(q[k].prefix) = b  BY <1>7, <2>4, <4>4
        <5> QED BY <1>11, <3>1, <4>1, <4>2, <4>3, <5>1
      <4>5. CASE k # n + 1  BY <1>7, <1>11, <4>1, <4>5
      <4> QED BY <4>4, <4>5
    <3>3. \A x \in T \ S : \A y \in S : y < x
      <4> SUFFICES ASSUME NEW x \in T \ S PROVE x = n + 1  BY <1>11, <1>15
      <4>1. x \in K /\ \A k \in K : Len(q[k].prefix) <= Len(q[x].prefix)  BY <1>16
      <4> SUFFICES ASSUME x # n + 1 PROVE x \in S  OBVIOUS
      <4>2. x \in L /\ q[x] = s[x]  BY <1>7, <1>11, <4>1
      <4>3. \A k \in L : k \in K /\ q[k] = s[k]  BY <1>7, <1>11
      <4>4. \A k \in L : Len(s[k].prefix) <= Len(s[x].prefix)  BY <4>1, <4>2, <4>3
      <4> QED BY <1>15, <4>2, <4>4
    <3>4. T \subseteq Nat /\ S # {} /\ S \subseteq 1 .. n /\ T # {}
      <4>1. T \subseteq K /\ S \subseteq L  BY <1>15, <1>16
      <4>2. T \subseteq 1 .. n + 1 /\ S \subseteq 1 .. n  BY <1>11, <4>1
      <4>3. S # {} /\ T # {}  BY <2>1, <3>2
      <4>4. T \subseteq Nat  BY <4>2
      <4> QED BY <4>2, <4>3, <4>4
    <3>5. Min(T) = Min(S)  BY <3>2, <3>3, <3>4, LeastStays
    <3>6. FirstOf(S) = FirstOf(T)  BY <3>4, <3>5 DEF FirstOf
    <3> QED BY <1>18, <3>4, <3>6
  <2>6. a < b  BY <2>5
  <2>7. PICK c \in Nat : c = Len(s[i].prefix)  BY <1>7, <1>21, <1>23
  <2>8. c <= a  BY <1>23, <2>2, <2>3, <2>7
  <2> QED BY <2>4, <2>6, <2>7, <2>8
<1>24. IsPrefix(e.prefix, p)  BY <1>12, <1>22
<1>25. \A i \in 1 .. n : IsPrefix(s[i].prefix, p) => i \in L  BY <1>6, <1>9 DEF LabelsOf
<1>26. \A i \in 1 .. Len(s) : IsPrefix(s[i].prefix, p) => Len(s[i].prefix) < Len(e.prefix)
  BY <1>6, <1>23, <1>25
<1> QED BY <1>3, <1>4, <1>8, <1>24, <1>26

------------------------------
(* Groups.                                                                 *)

\* The strengthening of GrantsGrow: a name is that of at most one group.
GroupEntry == [used : BOOLEAN, user : GroupNames \cup {""}, gid : 0 .. 2, members : SUBSET Logins]
GroupPolicy == [group : GroupNames, perm : SUBSET Ops]
GroupInv ==
    /\ gr_tab \in [1 .. GROUP64_MAX -> GroupEntry]
    /\ OneEach(gr_tab)
    /\ gr_pol \in Seq(GroupPolicy)

LEMMA GroupStarts == GroupInit => GroupInv
<1> SUFFICES ASSUME GroupInit PROVE GroupInv  OBVIOUS
<1>1. PICK g : g = [used |-> FALSE, user |-> "", gid |-> 0, members |-> {}]  OBVIOUS
<1>2. g \in GroupEntry /\ ~g.used
  <2>1. 0 \in 0 .. 2  OBVIOUS
  <2>2. {} \in SUBSET Logins  OBVIOUS
  <2>3. ~g.used  BY <1>1
  <2>4. g \in GroupEntry  BY <1>1, <2>1, <2>2 DEF GroupEntry
  <2> QED BY <2>3, <2>4
<1>3. gr_tab = [i \in 1 .. GROUP64_MAX |-> g]  BY <1>1 DEF GroupInit
<1>4. OneEach(gr_tab) /\ gr_tab \in [1 .. GROUP64_MAX -> GroupEntry]  BY <1>2, <1>3 DEF OneEach
<1> QED BY <1>4, EmptySeq DEF GroupInit, GroupInv

\* A step of the table: one entry changes, which was free or had the name, has
\* the name now, and keeps the members it had.
GroupStep ==
    \E k \in 1 .. GROUP64_MAX, e \in GroupEntry :
        /\ e.used
        /\ \A i \in 1 .. GROUP64_MAX : gr_tab[i].used /\ gr_tab[i].user = e.user => i = k
        /\ gr_tab[k].used => gr_tab[k].user = e.user /\ gr_tab[k].members \subseteq e.members
        /\ gr_tab' = [gr_tab EXCEPT ![k] = e]

LEMMA GroupAdds ==
  ASSUME GroupInv, NEW name \in GroupNames, NEW gid \in 1 .. 2, group64_add(name, gid)
  PROVE  GroupStep
<1>1. PICK k : k = PlaceOf(gr_tab, name) /\ k # 0  BY DEF group64_add
<1>2. UserTable(gr_tab, GROUP64_MAX) /\ OneEach(gr_tab) /\ gr_tab \in [1 .. GROUP64_MAX -> GroupEntry]
  BY DEF GroupInv, UserTable
<1>3. /\ k \in 1 .. GROUP64_MAX
      /\ \A i \in 1 .. GROUP64_MAX : gr_tab[i].used /\ gr_tab[i].user = name => i = k
      /\ gr_tab[k].used => gr_tab[k].user = name
  <2>1. UserTable(gr_tab, GROUP64_MAX) /\ OneEach(gr_tab)  BY <1>2
  <2> QED BY <1>1, <2>1, PlaceUser
<1>4. PICK e : e = Regrouped(gr_tab[k], name, gid)  OBVIOUS
<1>5. gr_tab[k].members \in SUBSET Logins  BY <1>2, <1>3 DEF GroupEntry
<1>6. /\ e \in GroupEntry /\ e.used /\ e.user = name
      /\ gr_tab[k].used => e.members = gr_tab[k].members
  <2>1. gid \in 0 .. 2  OBVIOUS
  <2> QED BY <1>4, <1>5, <2>1 DEF Regrouped, GroupEntry
<1>7. gr_tab' = [gr_tab EXCEPT ![k] = e]  BY <1>1, <1>2, <1>3, <1>4 DEF group64_add
<1> QED BY <1>3, <1>6, <1>7 DEF GroupStep

LEMMA MemberAdds ==
  ASSUME GroupInv, NEW name \in GroupNames, NEW u \in Logins, group64_add_member(name, u)
  PROVE  GroupStep
<1>1. PICK k : k = UserAt(gr_tab, name) /\ k # 0  BY DEF group64_add_member
<1>2. UserTable(gr_tab, GROUP64_MAX) /\ OneEach(gr_tab) /\ gr_tab \in [1 .. GROUP64_MAX -> GroupEntry]
  BY DEF GroupInv, UserTable
<1>3. k \in 1 .. GROUP64_MAX /\ gr_tab[k].used /\ gr_tab[k].user = name
  <2>1. UserTable(gr_tab, GROUP64_MAX)  BY <1>2
  <2> QED BY <1>1, <2>1, FindUser
<1>4. PICK e : e = [gr_tab[k] EXCEPT !.members = @ \cup {u}]  OBVIOUS
<1>5. gr_tab[k] \in GroupEntry  BY <1>2, <1>3
<1>6. e \in GroupEntry /\ e.used /\ e.user = name /\ gr_tab[k].members \subseteq e.members
  BY <1>3, <1>4, <1>5 DEF GroupEntry
<1>7. gr_tab' = [gr_tab EXCEPT ![k] = e]  BY <1>1, <1>2, <1>3, <1>4 DEF group64_add_member
<1>8. \A i \in 1 .. GROUP64_MAX : gr_tab[i].used /\ gr_tab[i].user = name => i = k  BY <1>2, <1>3 DEF OneEach
<1> QED BY <1>3, <1>6, <1>7, <1>8 DEF GroupStep

LEMMA GroupSteps ==
  ASSUME GroupInv, GroupNext
  PROVE  \/ GroupStep /\ gr_pol' = gr_pol
         \/ gr_tab' = gr_tab /\ \E e \in GroupPolicy : gr_pol' = Append(gr_pol, e)
<1>1. ASSUME NEW n \in GroupNames, NEW g \in 1 .. 2, group64_add(n, g)
      PROVE  GroupStep /\ gr_pol' = gr_pol
  BY <1>1, GroupAdds DEF group64_add
<1>2. ASSUME NEW n \in GroupNames, NEW u \in Logins, group64_add_member(n, u)
      PROVE  GroupStep /\ gr_pol' = gr_pol
  BY <1>2, MemberAdds DEF group64_add_member
<1>3. ASSUME NEW n \in GroupNames, NEW p \in (SUBSET Ops) \ {{}}, group64_policy_add(n, p)
      PROVE  gr_tab' = gr_tab /\ \E e \in GroupPolicy : gr_pol' = Append(gr_pol, e)
  <2>1. [group |-> n, perm |-> p] \in GroupPolicy  BY DEF GroupPolicy
  <2> QED BY <1>3, <2>1 DEF group64_policy_add
<1> QED BY <1>1, <1>2, <1>3 DEF GroupNext

LEMMA GroupKept == GroupInv /\ GroupNext => GroupInv'
<1> SUFFICES ASSUME GroupInv, GroupNext PROVE GroupInv'  OBVIOUS
<1>1. ASSUME GroupStep, gr_pol' = gr_pol PROVE GroupInv'
  <2>1. PICK k \in 1 .. GROUP64_MAX, e \in GroupEntry :
            /\ e.used
            /\ \A i \in 1 .. GROUP64_MAX : gr_tab[i].used /\ gr_tab[i].user = e.user => i = k
            /\ gr_tab' = [gr_tab EXCEPT ![k] = e]
    BY <1>1 DEF GroupStep
  <2>2. /\ gr_tab' \in [1 .. GROUP64_MAX -> GroupEntry] /\ gr_tab'[k] = e
        /\ \A i \in 1 .. GROUP64_MAX : i # k => gr_tab'[i] = gr_tab[i]
    BY <2>1 DEF GroupInv
  <2>3. OneEach(gr_tab')  BY <2>1, <2>2 DEF GroupInv, OneEach
  <2> QED BY <1>1, <2>2, <2>3 DEF GroupInv
<1>2. ASSUME gr_tab' = gr_tab, NEW e \in GroupPolicy, gr_pol' = Append(gr_pol, e) PROVE GroupInv'
  <2>1. gr_pol \in Seq(GroupPolicy)  BY DEF GroupInv
  <2>2. Append(gr_pol, e) \in Seq(GroupPolicy)  BY <2>1, AppendProperties
  <2> QED BY <1>2, <2>2 DEF GroupInv
<1> QED BY <1>1, <1>2, GroupSteps

\* Who is in a group is in the one entry of its name.
LEMMA MemberWhere ==
  ASSUME NEW tab, UserTable(tab, GROUP64_MAX), OneEach(tab), NEW g, NEW u
  PROVE  group64_is_member(tab, g, u) <=>
            \E i \in 1 .. GROUP64_MAX : tab[i].used /\ tab[i].user = g /\ u \in tab[i].members
<1>1. PICK f : f = UserAt(tab, g)  OBVIOUS
<1>2. /\ f # 0 => f \in 1 .. GROUP64_MAX /\ tab[f].used /\ tab[f].user = g
      /\ f = 0 => \A i \in 1 .. GROUP64_MAX : ~(tab[i].used /\ tab[i].user = g)
  BY <1>1, FindUser
<1> QED BY <1>1, <1>2 DEF group64_is_member, OneEach, UserTable

LEMMA GroupHolds == GroupInv /\ GroupNext => GrantsGrow
<1> SUFFICES ASSUME GroupInv, GroupNext, NEW u \in Logins, NEW o \in Ops,
                    group64_check(gr_tab, gr_pol, u, {o})
             PROVE  group64_check(gr_tab', gr_pol', u, {o})
  BY DEF GrantsGrow
<1>1. PICK i \in 1 .. Len(gr_pol) :
          gr_pol[i].perm \cap {o} # {} /\ group64_is_member(gr_tab, gr_pol[i].group, u)
  BY DEF group64_check
<1>2. CASE GroupStep /\ gr_pol' = gr_pol
  <2>1. PICK k \in 1 .. GROUP64_MAX, e \in GroupEntry :
            /\ e.used
            /\ gr_tab[k].used => gr_tab[k].user = e.user /\ gr_tab[k].members \subseteq e.members
            /\ gr_tab' = [gr_tab EXCEPT ![k] = e]
    BY <1>2 DEF GroupStep
  <2>2. PICK t : t = gr_tab'  OBVIOUS
  <2>3. /\ UserTable(gr_tab, GROUP64_MAX) /\ OneEach(gr_tab)
        /\ UserTable(t, GROUP64_MAX) /\ OneEach(t)
        /\ t[k] = e /\ \A j \in 1 .. GROUP64_MAX : j # k => t[j] = gr_tab[j]
    BY <2>1, <2>2, GroupKept DEF GroupInv, UserTable
  <2>4. PICK g : g = gr_pol[i].group  OBVIOUS
  <2>5. group64_is_member(gr_tab, g, u)  BY <1>1, <2>4
  <2>6. PICK j \in 1 .. GROUP64_MAX : gr_tab[j].used /\ gr_tab[j].user = g /\ u \in gr_tab[j].members
    BY <2>3, <2>5, MemberWhere
  <2>7. t[j].used /\ t[j].user = g /\ u \in t[j].members  BY <2>1, <2>3, <2>6
  <2>8. group64_is_member(t, g, u)  BY <2>3, <2>7, MemberWhere
  <2>9. group64_check(t, gr_pol, u, {o})  BY <1>1, <2>4, <2>8 DEF group64_check
  <2> QED BY <1>2, <2>2, <2>9
<1>3. ASSUME gr_tab' = gr_tab, NEW e \in GroupPolicy, gr_pol' = Append(gr_pol, e)
      PROVE  group64_check(gr_tab', gr_pol', u, {o})
  <2>1. gr_pol \in Seq(GroupPolicy)  BY DEF GroupInv
  <2>2. PICK n \in Nat : n = Len(gr_pol)  BY <2>1, LenProperties
  <2>3. PICK q : q = gr_pol'  OBVIOUS
  <2>4. Len(q) = n + 1 /\ \A j \in 1 .. n : q[j] = gr_pol[j]  BY <1>3, <2>1, <2>2, <2>3, AppendProperties
  <2>5. i \in 1 .. n + 1 /\ q[i] = gr_pol[i]  BY <2>2, <2>4
  <2>6. group64_check(gr_tab, q, u, {o})  BY <1>1, <2>4, <2>5 DEF group64_check
  <2> QED BY <1>3, <2>3, <2>6
<1> QED BY <1>2, <1>3, GroupSteps

------------------------------
(* System call rules.                                                      *)

\* The rules are a table of entries.
CallRule == [used : BOOLEAN, user : SyscallNrs \cup {0}, action : 0 .. 1]
SeccompInv == se_rules \in [1 .. SECCOMP_MAX -> CallRule]

LEMMA SeccompStarts == SeccompInit => SeccompInv
<1>1. [used |-> FALSE, user |-> 0, action |-> 0] \in CallRule  BY DEF CallRule
<1> QED BY <1>1 DEF SeccompInit, SeccompInv

LEMMA CallRuleAdded ==
  ASSUME SeccompInv, NEW nr \in SyscallNrs, NEW a \in 0 .. 1, seccomp64_add_rule(nr, a)
  PROVE  \E k \in 1 .. SECCOMP_MAX, e \in CallRule :
            /\ ~se_rules[k].used /\ e.user = nr
            /\ se_rules' = [se_rules EXCEPT ![k] = e]
<1>1. PICK k : k = FirstFree(se_rules) /\ k # 0  BY DEF seccomp64_add_rule
<1>2. DOMAIN se_rules = 1 .. SECCOMP_MAX  BY DEF SeccompInv
<1>3. k \in 1 .. SECCOMP_MAX /\ ~se_rules[k].used  BY <1>1, <1>2, FreeSlot
<1>4. PICK e : e = [used |-> TRUE, user |-> nr, action |-> a]  OBVIOUS
<1>5. e \in CallRule /\ e.user = nr  BY <1>4 DEF CallRule
<1>6. se_rules' = [se_rules EXCEPT ![k] = e]  BY <1>1, <1>4 DEF seccomp64_add_rule
<1> QED BY <1>3, <1>5, <1>6

LEMMA SeccompKept == SeccompInv /\ SeccompNext => SeccompInv'
<1> SUFFICES ASSUME SeccompInv, SeccompNext PROVE SeccompInv'  OBVIOUS
<1>1. CASE seccomp64_load
  <2>1. [used |-> FALSE, user |-> 0, action |-> 0] \in CallRule  BY DEF CallRule
  <2>2. DOMAIN se_rules = 1 .. SECCOMP_MAX  BY DEF SeccompInv
  <2> QED BY <1>1, <2>1, <2>2 DEF seccomp64_load, SeccompInv
<1>2. CASE seccomp64_unload  BY <1>2 DEF seccomp64_unload, SeccompInv
<1>3. ASSUME NEW nr \in SyscallNrs, NEW a \in 0 .. 1, seccomp64_add_rule(nr, a) PROVE SeccompInv'
  <2>1. PICK k \in 1 .. SECCOMP_MAX, e \in CallRule : se_rules' = [se_rules EXCEPT ![k] = e]
    BY <1>3, CallRuleAdded
  <2> QED BY <2>1 DEF SeccompInv
<1>4. ASSUME NEW on \in BOOLEAN, seccomp64_strict(on) PROVE SeccompInv'
  BY <1>4 DEF seccomp64_strict, SeccompInv
<1> QED BY <1>1, <1>2, <1>3, <1>4 DEF SeccompNext

LEMMA SeccompHolds == SeccompInv /\ SeccompNext => FilterLasts
<1> SUFFICES ASSUME SeccompInv, SeccompNext, se_active, se_active',
                    NEW nr \in SyscallNrs, seccomp_find(se_rules, nr) # 0
             PROVE  seccomp64_check(se_rules', se_strict', nr) = seccomp64_check(se_rules, se_strict, nr)
  BY DEF FilterLasts
<1>1. PICK f : f = UserAt(se_rules, nr)  OBVIOUS
<1>2. f # 0 /\ seccomp64_check(se_rules, se_strict, nr) = se_rules[f].action
  BY <1>1 DEF seccomp_find, seccomp64_check
<1>3. UserTable(se_rules, SECCOMP_MAX)  BY DEF SeccompInv, UserTable
<1>4. f \in 1 .. SECCOMP_MAX /\ se_rules[f].used /\ se_rules[f].user = nr  BY <1>1, <1>2, <1>3, FindUser
<1>5. CASE seccomp64_load  BY <1>5 DEF seccomp64_load, LoadAllowed
<1>6. CASE seccomp64_unload  BY <1>6 DEF seccomp64_unload
<1>7. ASSUME NEW m \in SyscallNrs, NEW a \in 0 .. 1, seccomp64_add_rule(m, a)
      PROVE  seccomp64_check(se_rules', se_strict', nr) = seccomp64_check(se_rules, se_strict, nr)
  <2>1. PICK k \in 1 .. SECCOMP_MAX, e \in CallRule :
            /\ ~se_rules[k].used /\ e.user = m
            /\ se_rules' = [se_rules EXCEPT ![k] = e]
    BY <1>7, CallRuleAdded
  <2>2. m # nr
    <3>1. UserAt(se_rules, m) = 0  BY <1>7 DEF seccomp64_add_rule, seccomp_find
    <3> QED BY <1>1, <1>2, <3>1
  <2>3. PICK t : t = se_rules'  OBVIOUS
  <2>4. UserTable(t, SECCOMP_MAX) /\ t[k] = e /\ \A i \in 1 .. SECCOMP_MAX : i # k => t[i] = se_rules[i]
    BY <2>1, <2>3 DEF SeccompInv, UserTable
  <2>5. \A i \in 1 .. SECCOMP_MAX : (t[i].used /\ t[i].user = nr) <=> (se_rules[i].used /\ se_rules[i].user = nr)
    BY <2>1, <2>2, <2>4
  <2>6. UserAt(t, nr) = UserAt(se_rules, nr)  BY <1>3, <2>4, <2>5, UserStays
  <2>7. t[f] = se_rules[f]  BY <1>4, <2>1, <2>4
  <2>8. seccomp64_check(t, se_strict', nr) = t[f].action  BY <1>1, <1>2, <2>6 DEF seccomp64_check, seccomp_find
  <2> QED BY <1>2, <2>3, <2>7, <2>8
<1>8. ASSUME NEW on \in BOOLEAN, seccomp64_strict(on)
      PROVE  seccomp64_check(se_rules', se_strict', nr) = seccomp64_check(se_rules, se_strict, nr)
  <2>1. se_rules' = se_rules  BY <1>8 DEF seccomp64_strict
  <2> QED BY <1>1, <1>2, <2>1 DEF seccomp64_check, seccomp_find
<1> QED BY <1>5, <1>6, <1>7, <1>8 DEF SeccompNext

------------------------------
(* Profiles.                                                               *)

ProfileEntry == [used : BOOLEAN, user : GroupNames \cup {""}, prefix : PolicyPaths \cup {<<>>}, enforce : BOOLEAN]
PathRule == [profile : GroupNames, path : PolicyPaths, ops : SUBSET Ops]
PolicyInv ==
    /\ sp_profiles \in [1 .. SECPOL64_MAX_PROFILES -> ProfileEntry]
    /\ sp_rules \in Seq(PathRule)

LEMMA PolicyStarts == PolicyInit => PolicyInv
<1> SUFFICES ASSUME PolicyInit PROVE PolicyInv  OBVIOUS
<1>1. [used |-> FALSE, user |-> "", prefix |-> <<>>, enforce |-> FALSE] \in ProfileEntry  BY DEF ProfileEntry
<1> QED BY <1>1, EmptySeq DEF PolicyInit, PolicyInv

\* What a step does: it is one for the profile n.  Either one entry changes,
\* which is free or of n and then of n, or one rule for n is added.
PolicyStep(n) ==
    \/ /\ sp_rules' = sp_rules
       /\ \E k \in 1 .. SECPOL64_MAX_PROFILES, e \in ProfileEntry :
             /\ sp_profiles[k].used => sp_profiles[k].user = n
             /\ e.user = n
             /\ sp_profiles' = [sp_profiles EXCEPT ![k] = e]
    \/ /\ sp_profiles' = sp_profiles
       /\ \E e \in PathRule : e.profile = n /\ sp_rules' = Append(sp_rules, e)

LEMMA PolicySteps ==
  ASSUME PolicyInv, PolicyNext
  PROVE  \E n \in GroupNames : PolicyStep(n)
<1>0. /\ UserTable(sp_profiles, SECPOL64_MAX_PROFILES)
      /\ DOMAIN sp_profiles = 1 .. SECPOL64_MAX_PROFILES
  BY DEF PolicyInv, UserTable
<1>1. ASSUME NEW n \in GroupNames, NEW p \in PolicyPaths, NEW b \in BOOLEAN, secpol64_add_apparmor(n, p, b)
      PROVE  PolicyStep(n)
  <2>1. PICK k : k = FirstFree(sp_profiles) /\ k # 0  BY <1>1 DEF secpol64_add_apparmor
  <2>2. k \in 1 .. SECPOL64_MAX_PROFILES /\ ~sp_profiles[k].used  BY <1>0, <2>1, FreeSlot
  <2>3. PICK e : e = [used |-> TRUE, user |-> n, prefix |-> p, enforce |-> b]  OBVIOUS
  <2>4. e \in ProfileEntry /\ e.user = n  BY <2>3 DEF ProfileEntry
  <2>5. sp_profiles' = [sp_profiles EXCEPT ![k] = e] /\ sp_rules' = sp_rules
    BY <1>1, <2>1, <2>3 DEF secpol64_add_apparmor
  <2> QED BY <2>2, <2>4, <2>5 DEF PolicyStep
<1>2. ASSUME NEW n \in GroupNames, NEW p \in PolicyPaths, NEW o \in (SUBSET Ops) \ {{}}, secpol64_add_rule(n, p, o)
      PROVE  PolicyStep(n)
  <2>1. PICK e : e = [profile |-> n, path |-> p, ops |-> o]  OBVIOUS
  <2>2. e \in PathRule /\ e.profile = n  BY <2>1 DEF PathRule
  <2>3. sp_profiles' = sp_profiles /\ sp_rules' = Append(sp_rules, e)  BY <1>2, <2>1 DEF secpol64_add_rule
  <2> QED BY <2>2, <2>3 DEF PolicyStep
<1>3. ASSUME NEW n \in GroupNames, NEW b \in BOOLEAN, secpol64_set_mode(n, b)
      PROVE  PolicyStep(n)
  <2>1. PICK k : k = UserAt(sp_profiles, n) /\ k # 0  BY <1>3 DEF secpol64_set_mode
  <2>2. k \in 1 .. SECPOL64_MAX_PROFILES /\ sp_profiles[k].used /\ sp_profiles[k].user = n
    <3>1. UserTable(sp_profiles, SECPOL64_MAX_PROFILES)  BY <1>0
    <3> QED BY <2>1, <3>1, FindUser
  <2>3. PICK e : e = [sp_profiles[k] EXCEPT !.enforce = b]  OBVIOUS
  <2>4. sp_profiles[k] \in ProfileEntry  BY <2>2 DEF PolicyInv
  <2>5. e \in ProfileEntry /\ e.user = n  BY <2>2, <2>3, <2>4 DEF ProfileEntry
  <2>6. sp_profiles' = [sp_profiles EXCEPT ![k] = e] /\ sp_rules' = sp_rules
    BY <1>0, <1>3, <2>1, <2>2, <2>3 DEF secpol64_set_mode
  <2> QED BY <2>2, <2>5, <2>6 DEF PolicyStep
<1> QED BY <1>1, <1>2, <1>3 DEF PolicyNext

LEMMA PolicyKept == PolicyInv /\ PolicyNext => PolicyInv'
<1> SUFFICES ASSUME PolicyInv, PolicyNext PROVE PolicyInv'  OBVIOUS
<1>1. PICK n \in GroupNames : PolicyStep(n)  BY PolicySteps
<1>2. sp_rules \in Seq(PathRule)  BY DEF PolicyInv
<1>3. \A e \in PathRule : Append(sp_rules, e) \in Seq(PathRule)  BY <1>2, AppendProperties
<1> QED BY <1>1, <1>3 DEF PolicyInv, PolicyStep

LEMMA PolicyApart ==
  ASSUME PolicyInv, NEW n \in GroupNames, PolicyStep(n), NEW m \in GroupNames, m # n,
         NEW p \in PolicyPaths, NEW o \in Ops
  PROVE  secpol64_check(sp_profiles, sp_rules, m, p, {o}) = secpol64_check(sp_profiles', sp_rules', m, p, {o})
<1>1. PICK tab : tab = sp_profiles  OBVIOUS
<1>2. PICK t : t = sp_profiles'  OBVIOUS
<1>3. PICK f : f = UserAt(tab, m)  OBVIOUS
<1>4. UserTable(tab, SECPOL64_MAX_PROFILES) /\ UserTable(t, SECPOL64_MAX_PROFILES)
  BY <1>1, <1>2 DEF PolicyInv, PolicyStep, UserTable
<1>5. f # 0 => f \in 1 .. SECPOL64_MAX_PROFILES /\ tab[f].used /\ tab[f].user = m  BY <1>3, <1>4, FindUser
<1>6. /\ \A i \in 1 .. SECPOL64_MAX_PROFILES : (t[i].used /\ t[i].user = m) <=> (tab[i].used /\ tab[i].user = m)
      /\ f # 0 => t[f] = tab[f]
  <2>1. CASE t = tab  BY <2>1
  <2>2. ASSUME NEW k \in 1 .. SECPOL64_MAX_PROFILES, NEW e \in ProfileEntry,
               tab[k].used => tab[k].user = n, e.user = n, t = [tab EXCEPT ![k] = e]
        PROVE  /\ \A i \in 1 .. SECPOL64_MAX_PROFILES : (t[i].used /\ t[i].user = m) <=> (tab[i].used /\ tab[i].user = m)
               /\ f # 0 => t[f] = tab[f]
    <3>1. t[k] = e /\ \A i \in 1 .. SECPOL64_MAX_PROFILES : i # k => t[i] = tab[i]  BY <1>4, <2>2 DEF UserTable
    <3> QED BY <1>5, <2>2, <3>1
  <2> QED BY <1>1, <1>2, <2>1, <2>2 DEF PolicyStep
<1>7. UserAt(t, m) = f
  <2>1. UserAt(t, m) = UserAt(tab, m)  BY <1>4, <1>6, UserStays
  <2> QED BY <1>3, <2>1
<1>8. PICK r : r = sp_rules  OBVIOUS
<1>9. PICK q : q = sp_rules'  OBVIOUS
<1>10. secpol_rule_hits(r, m, p, {o}) = secpol_rule_hits(q, m, p, {o})
  <2>1. CASE q = r  BY <2>1
  <2>2. ASSUME NEW e \in PathRule, e.profile = n, q = Append(r, e)
        PROVE  secpol_rule_hits(r, m, p, {o}) = secpol_rule_hits(q, m, p, {o})
    <3>1. r \in Seq(PathRule)  BY <1>8 DEF PolicyInv
    <3>2. PICK c \in Nat : c = Len(r)  BY <3>1, LenProperties
    <3>3. Len(q) = c + 1 /\ q[c + 1] = e /\ \A j \in 1 .. c : q[j] = r[j]  BY <2>2, <3>1, <3>2, AppendProperties
    <3>4. ASSUME NEW j \in 1 .. c + 1, q[j].profile = m
          PROVE  j \in 1 .. c
      <4>1. j # c + 1  BY <2>2, <3>3, <3>4
      <4> QED BY <4>1
    <3>5. \A j \in 1 .. c : j \in 1 .. c + 1  OBVIOUS
    <3>6. secpol_rule_hits(r, m, p, {o}) <=> secpol_rule_hits(q, m, p, {o})
      BY <3>2, <3>3, <3>4, <3>5 DEF secpol_rule_hits
    <3> QED BY <3>6 DEF secpol_rule_hits
  <2> QED BY <1>8, <1>9, <2>1, <2>2 DEF PolicyStep
<1>11. secpol64_check(tab, r, m, p, {o}) = secpol64_check(t, q, m, p, {o})
  <2>1. CASE f = 0  BY <1>3, <1>7, <2>1 DEF secpol64_check
  <2>2. CASE f # 0
    <3>1. t[f] = tab[f]  BY <1>6, <2>2
    <3>2. secpol64_check(tab, r, m, p, {o}) <=>
             secpol_rule_hits(r, m, p, {o}) \/ ~secpol_prefix(tab[f].prefix, p) \/ ~tab[f].enforce
      BY <1>3, <2>2 DEF secpol64_check
    <3>3. secpol64_check(t, q, m, p, {o}) <=>
             secpol_rule_hits(q, m, p, {o}) \/ ~secpol_prefix(t[f].prefix, p) \/ ~t[f].enforce
      BY <1>7, <2>2 DEF secpol64_check
    <3>4. secpol64_check(tab, r, m, p, {o}) <=> secpol64_check(t, q, m, p, {o})  BY <1>10, <3>1, <3>2, <3>3
    <3> QED BY <3>4 DEF secpol64_check
  <2> QED BY <2>1, <2>2
<1> QED BY <1>1, <1>2, <1>8, <1>9, <1>11

LEMMA PolicyHolds == PolicyInv /\ PolicyNext => ProfilesApart
<1> SUFFICES ASSUME PolicyInv, PolicyNext PROVE ProfilesApart  OBVIOUS
<1>1. PICK n \in GroupNames : PolicyStep(n)  BY PolicySteps
<1> DEFINE C == {m \in GroupNames : \E p \in PolicyPaths, o \in Ops :
          secpol64_check(sp_profiles, sp_rules, m, p, {o})
              # secpol64_check(sp_profiles', sp_rules', m, p, {o})}
<1>2. \A m \in C : m = n  BY <1>1, PolicyApart
<1>3. C = {} \/ C = {n}
  <2> HIDE DEF C
  <2> QED BY <1>2
<1>4. Cardinality(C) <= 1
  <2> HIDE DEF C
  <2>1. Cardinality({}) = 0 /\ Cardinality({n}) = 1  BY FS_EmptySet, FS_Singleton
  <2> QED BY <1>3, <2>1
<1> QED BY <1>4 DEF ProfilesApart

------------------------------
(* Rule sets a program puts on itself.                                     *)

\* The strengthening of SandboxSealed: a number is given once, the rule set
\* in force has been given its number, and it is closed.
RuleSet == [used : BOOLEAN, id : Nat, handled : SUBSET Ops, restricted : BOOLEAN]
SandboxRule == [rs : Nat, path : PolicyPaths, access : SUBSET Ops]
SandboxInv ==
    /\ ll_rs \in [1 .. LANDLK64_MAX_RS -> RuleSet] /\ ll_rules \in Seq(SandboxRule)
    /\ ll_next \in Nat /\ ll_active \in Nat
    /\ ll_active < ll_next
    /\ \A i \in 1 .. LANDLK64_MAX_RS : ll_rs[i].used => ll_rs[i].id < ll_next
    /\ \A i, j \in 1 .. LANDLK64_MAX_RS : ll_rs[i].used /\ ll_rs[j].used /\ ll_rs[i].id = ll_rs[j].id => i = j
    /\ \A i \in 1 .. LANDLK64_MAX_RS :
          ll_rs[i].used /\ ll_active # 0 /\ ll_rs[i].id = ll_active => ll_rs[i].restricted

LEMMA SandboxStarts == SandboxInit => SandboxInv
<1> SUFFICES ASSUME SandboxInit PROVE SandboxInv  OBVIOUS
<1>1. PICK g : g = [used |-> FALSE, id |-> 0, handled |-> {}, restricted |-> FALSE]  OBVIOUS
<1>2. ~g.used  BY <1>1
<1>3. g \in RuleSet  BY <1>1 DEF RuleSet
<1>4. ll_rs = [i \in 1 .. LANDLK64_MAX_RS |-> g]  BY <1>1 DEF SandboxInit
<1>5. ll_rs \in [1 .. LANDLK64_MAX_RS -> RuleSet] /\ \A i \in 1 .. LANDLK64_MAX_RS : ~ll_rs[i].used
  BY <1>2, <1>3, <1>4
<1>6. ll_rules \in Seq(SandboxRule)  BY EmptySeq DEF SandboxInit
<1> QED BY <1>5, <1>6 DEF SandboxInit, SandboxInv

\* What the search by number finds.
LEMMA FindSet ==
  ASSUME SandboxInv, NEW id, NEW f, f = landlk_rs_find(id), f # 0
  PROVE  f \in 1 .. LANDLK64_MAX_RS /\ ll_rs[f].used /\ ll_rs[f].id = id
<1> DEFINE S == {i \in Taken(ll_rs) : ll_rs[i].id = id}
<1>1. S = {i \in 1 .. LANDLK64_MAX_RS : ll_rs[i].used /\ ll_rs[i].id = id}  BY DEF Taken, SandboxInv
<1>2. (FirstOf(S) = 0 <=> S = {}) /\ (S # {} => FirstOf(S) \in S)
  <2>1. S \subseteq Nat \ {0}  BY <1>1
  <2> HIDE DEF S
  <2> QED BY <2>1, FirstMatch
<1> HIDE DEF S
<1>3. f = FirstOf(S)  BY DEF S, landlk_rs_find
<1> QED BY <1>1, <1>2, <1>3

LEMMA SetMade ==
  ASSUME SandboxInv, NEW h \in SUBSET Ops, landlk64_create_ruleset(h)
  PROVE  SandboxInv'
<1>1. PICK k : k = FirstFree(ll_rs) /\ k # 0  BY DEF landlk64_create_ruleset
<1>2. DOMAIN ll_rs = 1 .. LANDLK64_MAX_RS  BY DEF SandboxInv
<1>3. k \in 1 .. LANDLK64_MAX_RS /\ ~ll_rs[k].used  BY <1>1, <1>2, FreeSlot
<1>4. PICK e : e = [used |-> TRUE, id |-> ll_next, handled |-> h, restricted |-> FALSE]  OBVIOUS
<1>5. e \in RuleSet /\ e.used /\ e.id = ll_next  BY <1>4 DEF SandboxInv, RuleSet
<1>6. /\ ll_rs' = [ll_rs EXCEPT ![k] = e] /\ ll_next' = ll_next + 1
      /\ ll_rules' = ll_rules /\ ll_active' = ll_active
  BY <1>1, <1>4 DEF landlk64_create_ruleset
<1>7. /\ ll_rs' \in [1 .. LANDLK64_MAX_RS -> RuleSet] /\ ll_rs'[k] = e
      /\ \A i \in 1 .. LANDLK64_MAX_RS : i # k => ll_rs'[i] = ll_rs[i]
  BY <1>3, <1>5, <1>6 DEF SandboxInv
<1>8. ll_next' \in Nat /\ ll_active' \in Nat /\ ll_active' < ll_next'  BY <1>6 DEF SandboxInv
<1>9. \A i \in 1 .. LANDLK64_MAX_RS : ll_rs'[i].used => ll_rs'[i].id < ll_next'
  <2> SUFFICES ASSUME NEW i \in 1 .. LANDLK64_MAX_RS, ll_rs'[i].used PROVE ll_rs'[i].id < ll_next'  OBVIOUS
  <2>1. ll_next \in Nat  BY DEF SandboxInv
  <2>2. CASE i = k  BY <1>5, <1>6, <1>7, <2>1, <2>2
  <2>3. CASE i # k
    <3>1. ll_rs'[i] = ll_rs[i] /\ ll_rs[i] \in RuleSet  BY <1>7, <2>3 DEF SandboxInv
    <3>2. PICK d \in Nat : d = ll_rs[i].id  BY <3>1 DEF RuleSet
    <3>3. d < ll_next  BY <3>1, <3>2 DEF SandboxInv
    <3> QED BY <1>6, <2>1, <3>1, <3>2, <3>3
  <2> QED BY <2>2, <2>3
<1>10. \A i \in 1 .. LANDLK64_MAX_RS : ll_rs[i].used => ll_rs[i].id # ll_next
  <2> SUFFICES ASSUME NEW i \in 1 .. LANDLK64_MAX_RS, ll_rs[i].used PROVE ll_rs[i].id # ll_next  OBVIOUS
  <2>1. ll_rs[i].id < ll_next /\ ll_next \in Nat  BY DEF SandboxInv
  <2> QED BY <2>1
<1>11. \A i, j \in 1 .. LANDLK64_MAX_RS : ll_rs'[i].used /\ ll_rs'[j].used /\ ll_rs'[i].id = ll_rs'[j].id => i = j
  BY <1>5, <1>7, <1>10 DEF SandboxInv
<1>12. ll_active # ll_next
  <2>1. ll_active < ll_next /\ ll_next \in Nat  BY DEF SandboxInv
  <2> QED BY <2>1
<1>13. \A i \in 1 .. LANDLK64_MAX_RS :
          ll_rs'[i].used /\ ll_active' # 0 /\ ll_rs'[i].id = ll_active' => ll_rs'[i].restricted
  BY <1>5, <1>6, <1>7, <1>12 DEF SandboxInv
<1>14. ll_rules' \in Seq(SandboxRule)  BY <1>6 DEF SandboxInv
<1> QED BY <1>7, <1>8, <1>9, <1>11, <1>13, <1>14 DEF SandboxInv

LEMMA SetPutOn ==
  ASSUME SandboxInv, NEW id \in 1 .. LANDLK64_MAX_RS, landlk64_restrict_self(id)
  PROVE  SandboxInv'
<1>1. PICK k : k = landlk_rs_find(id) /\ k # 0  BY DEF landlk64_restrict_self
<1>2. k \in 1 .. LANDLK64_MAX_RS /\ ll_rs[k].used /\ ll_rs[k].id = id  BY <1>1, FindSet
<1>3. PICK e : e = [ll_rs[k] EXCEPT !.restricted = TRUE]  OBVIOUS
<1>4. ll_rs[k] \in RuleSet  BY <1>2 DEF SandboxInv
<1>5. e \in RuleSet /\ e.used /\ e.id = id /\ e.restricted  BY <1>2, <1>3, <1>4 DEF RuleSet
<1>6. /\ ll_rs' = [ll_rs EXCEPT ![k] = e] /\ ll_active' = id
      /\ ll_rules' = ll_rules /\ ll_next' = ll_next
  BY <1>1, <1>2, <1>3 DEF landlk64_restrict_self, SandboxInv
<1>7. /\ ll_rs' \in [1 .. LANDLK64_MAX_RS -> RuleSet] /\ ll_rs'[k] = e
      /\ \A i \in 1 .. LANDLK64_MAX_RS : i # k => ll_rs'[i] = ll_rs[i]
  BY <1>2, <1>5, <1>6 DEF SandboxInv
<1>8. ll_active' \in Nat /\ ll_active' < ll_next' /\ ll_next' \in Nat
  <2>1. id < ll_next /\ ll_next \in Nat  BY <1>2 DEF SandboxInv
  <2> QED BY <1>6, <2>1
<1>9. \A i \in 1 .. LANDLK64_MAX_RS : ll_rs'[i].used => ll_rs'[i].id < ll_next'
  BY <1>2, <1>5, <1>6, <1>7 DEF SandboxInv
<1>10. \A i, j \in 1 .. LANDLK64_MAX_RS : ll_rs'[i].used /\ ll_rs'[j].used /\ ll_rs'[i].id = ll_rs'[j].id => i = j
  BY <1>2, <1>5, <1>7 DEF SandboxInv
<1>11. \A i \in 1 .. LANDLK64_MAX_RS :
          ll_rs'[i].used /\ ll_active' # 0 /\ ll_rs'[i].id = ll_active' => ll_rs'[i].restricted
  <2> SUFFICES ASSUME NEW i \in 1 .. LANDLK64_MAX_RS, ll_rs'[i].used, ll_rs'[i].id = ll_active'
               PROVE  ll_rs'[i].restricted
    OBVIOUS
  <2>1. ll_rs'[i].id = ll_rs'[k].id /\ ll_rs'[k].used  BY <1>5, <1>6, <1>7
  <2>2. i = k  BY <1>2, <1>10, <2>1
  <2> QED BY <1>5, <1>7, <2>2
<1>12. ll_rules' \in Seq(SandboxRule)  BY <1>6 DEF SandboxInv
<1> QED BY <1>7, <1>8, <1>9, <1>10, <1>11, <1>12 DEF SandboxInv

\* A rule is added to a set that is open only.
LEMMA RuleAdded ==
  ASSUME SandboxInv, NEW id \in 1 .. LANDLK64_MAX_RS, NEW p \in PolicyPaths, NEW a \in SUBSET Ops,
         landlk64_add_path_rule(id, p, a)
  PROVE  /\ ll_rs' = ll_rs /\ ll_next' = ll_next /\ ll_active' = ll_active
         /\ \E e \in SandboxRule : e.rs = id /\ ll_rules' = Append(ll_rules, e)
         /\ ll_active # 0 => id # ll_active
<1>1. PICK k : k = landlk_rs_find(id) /\ k # 0 /\ ~ll_rs[k].restricted  BY DEF landlk64_add_path_rule, RulesOpen
<1>2. k \in 1 .. LANDLK64_MAX_RS /\ ll_rs[k].used /\ ll_rs[k].id = id  BY <1>1, FindSet
<1>3. PICK e : e = [rs |-> id, path |-> p, access |-> a]  OBVIOUS
<1>4. e \in SandboxRule /\ e.rs = id
  <2>1. id \in Nat  OBVIOUS
  <2> QED BY <1>3, <2>1 DEF SandboxRule
<1>5. ll_rules' = Append(ll_rules, e)  BY <1>3 DEF landlk64_add_path_rule
<1>6. ll_active # 0 => id # ll_active  BY <1>1, <1>2 DEF SandboxInv
<1> QED BY <1>4, <1>5, <1>6 DEF landlk64_add_path_rule

LEMMA SandboxKept == SandboxInv /\ SandboxNext => SandboxInv'
<1> SUFFICES ASSUME SandboxInv, SandboxNext PROVE SandboxInv'  OBVIOUS
<1>1. CASE \E h \in SUBSET Ops : landlk64_create_ruleset(h)  BY <1>1, SetMade
<1>2. CASE \E id \in 1 .. LANDLK64_MAX_RS : landlk64_restrict_self(id)  BY <1>2, SetPutOn
<1>3. ASSUME NEW id \in 1 .. LANDLK64_MAX_RS, NEW p \in PolicyPaths, NEW a \in SUBSET Ops,
             landlk64_add_path_rule(id, p, a)
      PROVE  SandboxInv'
  <2>1. /\ ll_rs' = ll_rs /\ ll_next' = ll_next /\ ll_active' = ll_active
        /\ \E e \in SandboxRule : ll_rules' = Append(ll_rules, e)
    BY <1>3, RuleAdded
  <2>2. ll_rules \in Seq(SandboxRule)  BY DEF SandboxInv
  <2>3. \A e \in SandboxRule : Append(ll_rules, e) \in Seq(SandboxRule)  BY <2>2, AppendProperties
  <2>4. ll_rules' \in Seq(SandboxRule)  BY <2>1, <2>3
  <2> QED BY <2>1, <2>4 DEF SandboxInv
<1> QED BY <1>1, <1>2, <1>3 DEF SandboxNext

LEMMA SandboxHolds == SandboxInv /\ SandboxNext => SandboxSealed
<1> SUFFICES ASSUME SandboxInv, SandboxNext, ll_active # 0, ll_active' = ll_active,
                    NEW p \in PolicyPaths, NEW o \in Ops
             PROVE  landlk64_check(ll_rules', ll_active', p, {o}) = landlk64_check(ll_rules, ll_active, p, {o})
  BY DEF SandboxSealed
<1>1. CASE \E h \in SUBSET Ops : landlk64_create_ruleset(h)
  <2>1. ll_rules' = ll_rules  BY <1>1 DEF landlk64_create_ruleset
  <2> QED BY <2>1
<1>2. CASE \E id \in 1 .. LANDLK64_MAX_RS : landlk64_restrict_self(id)
  <2>1. ll_rules' = ll_rules  BY <1>2 DEF landlk64_restrict_self
  <2> QED BY <2>1
<1>3. ASSUME NEW id \in 1 .. LANDLK64_MAX_RS, NEW x \in PolicyPaths, NEW a \in SUBSET Ops,
             landlk64_add_path_rule(id, x, a)
      PROVE  landlk64_check(ll_rules', ll_active', p, {o}) = landlk64_check(ll_rules, ll_active, p, {o})
  <2>1. PICK e \in SandboxRule : e.rs = id /\ ll_rules' = Append(ll_rules, e) /\ id # ll_active
    BY <1>3, RuleAdded
  <2>2. ll_rules \in Seq(SandboxRule)  BY DEF SandboxInv
  <2>3. PICK c \in Nat : c = Len(ll_rules)  BY <2>2, LenProperties
  <2>4. PICK q : q = ll_rules'  OBVIOUS
  <2>5. Len(q) = c + 1 /\ q[c + 1] = e /\ \A j \in 1 .. c : q[j] = ll_rules[j]
    BY <2>1, <2>2, <2>3, <2>4, AppendProperties
  <2>6. ASSUME NEW j \in 1 .. c + 1, q[j].rs = ll_active
        PROVE  j \in 1 .. c
    <3>1. j # c + 1  BY <2>1, <2>5, <2>6
    <3> QED BY <3>1
  <2>7. \A j \in 1 .. c : j \in 1 .. c + 1  OBVIOUS
  <2>8. landlk64_check(q, ll_active, p, {o}) <=> landlk64_check(ll_rules, ll_active, p, {o})
    BY <2>3, <2>5, <2>6, <2>7 DEF landlk64_check
  <2>9. landlk64_check(q, ll_active, p, {o}) = landlk64_check(ll_rules, ll_active, p, {o})
    BY <2>8 DEF landlk64_check
  <2> QED BY <2>4, <2>9
<1> QED BY <1>1, <1>2, <1>3 DEF SandboxNext

------------------------------
(* The tables, and what no step of a policy does.                          *)

\* The strengthening of TablesSound: that of each part.
TablesInv ==
    /\ VfsInv /\ JnInv /\ FsyncInv /\ SnapInv /\ JrnlInv /\ SubvolInv
    /\ DiskInv /\ PartInv /\ GptInv /\ FlockInv /\ QuotaInv /\ LinkInv
    /\ DentryInv /\ XattrInv /\ NdpInv /\ UdInv /\ TcInv /\ NicInv /\ StaInv
    /\ LoginInv /\ SudoInv /\ HeaderCurrent /\ SecctxInv

LEMMA TablesInvStarts == PartsInit => TablesInv
  BY VfsStarts, JnStarts, FsyncStarts, SnapStarts, JrnlStarts, SubvolStarts,
     DiskStarts, PartStarts, GptStarts, FlockStarts, QuotaStarts, LinkStarts,
     DentryStarts, XattrStarts, NdpStarts, UdStarts, TcStarts, NicStarts,
     StaStarts, LoginStarts, SudoStarts, LuksStarts, SecctxStarts DEF PartsInit, TablesInv

LEMMA TablesInvKept == TablesInv /\ [PartsNext]_allVars => TablesInv'
<1> SUFFICES ASSUME TablesInv, [PartsNext]_allVars PROVE TablesInv'  OBVIOUS
<1>1. VfsInv'
  <2>1. VfsInv /\ (VfsNext \/ UNCHANGED vfsVars)  BY DEF PartsNext, allVars, TablesInv
  <2>2. CASE UNCHANGED vfsVars  BY <2>1, <2>2 DEF vfsVars, VfsInv
  <2> QED BY <2>1, <2>2, VfsKept
<1>2. JnInv'
  <2>1. JnInv /\ (JnNext \/ UNCHANGED jnVars)  BY DEF PartsNext, allVars, TablesInv
  <2>2. CASE UNCHANGED jnVars  BY <2>1, <2>2 DEF jnVars, JnInv
  <2> QED BY <2>1, <2>2, JnKept
<1>3. FsyncInv'
  <2>1. FsyncInv /\ (FsyncNext \/ UNCHANGED fsyncVars)  BY DEF PartsNext, allVars, TablesInv
  <2>2. CASE UNCHANGED fsyncVars  BY <2>1, <2>2 DEF fsyncVars, FsyncInv
  <2> QED BY <2>1, <2>2, FsyncKept
<1>4. SnapInv'
  <2>1. SnapInv /\ (SnapNext \/ UNCHANGED snapVars)  BY DEF PartsNext, allVars, TablesInv
  <2>2. CASE UNCHANGED snapVars  BY <2>1, <2>2 DEF snapVars, SnapInv, snap64_read
  <2> QED BY <2>1, <2>2, SnapKept
<1>5. JrnlInv'
  <2>1. JrnlInv /\ (JrnlNext \/ UNCHANGED jrnlVars)  BY DEF PartsNext, allVars, TablesInv
  <2>2. CASE UNCHANGED jrnlVars  BY <2>1, <2>2 DEF jrnlVars, Committed64, JrnlInv, TxEntry
  <2> QED BY <2>1, <2>2, JrnlKept
<1>6. SubvolInv'
  <2>1. SubvolInv /\ (SubvolNext \/ UNCHANGED subvolVars)  BY DEF PartsNext, allVars, TablesInv
  <2>2. CASE UNCHANGED subvolVars  BY <2>1, <2>2 DEF subvolVars, SubvolInv
  <2> QED BY <2>1, <2>2, SubvolKept
<1>7. DiskInv'
  <2>1. DiskInv /\ (DiskNext \/ UNCHANGED diskVars)  BY DEF PartsNext, allVars, TablesInv
  <2>2. CASE UNCHANGED diskVars  BY <2>1, <2>2 DEF diskVars, DiskInv
  <2> QED BY <2>1, <2>2, DiskKept
<1>8. PartInv'
  <2>1. PartInv /\ (PartNext \/ UNCHANGED partVars)  BY DEF PartsNext, allVars, TablesInv
  <2>2. CASE UNCHANGED partVars  BY <2>1, <2>2 DEF partVars, PartInv
  <2> QED BY <2>1, <2>2, PartKept
<1>9. GptInv'
  <2>1. GptInv /\ (GptNext \/ UNCHANGED gptVars)  BY DEF PartsNext, allVars, TablesInv
  <2>2. CASE UNCHANGED gptVars  BY <2>1, <2>2 DEF gptVars, GptInv
  <2> QED BY <2>1, <2>2, GptKept
<1>10. FlockInv'
  <2>1. FlockInv /\ (FlockNext \/ UNCHANGED flockVars)  BY DEF PartsNext, allVars, TablesInv
  <2>2. CASE UNCHANGED flockVars  BY <2>1, <2>2 DEF flockVars, FlockInv
  <2> QED BY <2>1, <2>2, FlockKept
<1>11. QuotaInv'
  <2>1. QuotaInv /\ (QuotaNext \/ UNCHANGED quotaVars)  BY DEF PartsNext, allVars, TablesInv
  <2>2. CASE UNCHANGED quotaVars  BY <2>1, <2>2 DEF quotaVars, QuotaInv
  <2> QED BY <2>1, <2>2, QuotaKept
<1>12. LinkInv'
  <2>1. LinkInv /\ (LinkNext \/ UNCHANGED linkVars)  BY DEF PartsNext, allVars, TablesInv
  <2>2. CASE UNCHANGED linkVars  BY <2>1, <2>2 DEF linkVars, LinkInv
  <2> QED BY <2>1, <2>2, LinkKept
<1>13. DentryInv'
  <2>1. DentryInv /\ (DentryNext \/ UNCHANGED dentryVars)  BY DEF PartsNext, allVars, TablesInv
  <2>2. CASE UNCHANGED dentryVars  BY <2>1, <2>2 DEF dentryVars, DentryInv, UsedKeys
  <2> QED BY <2>1, <2>2, DentryKept
<1>14. XattrInv'
  <2>1. XattrInv /\ (XattrNext \/ UNCHANGED xattrVars)  BY DEF PartsNext, allVars, TablesInv
  <2>2. CASE UNCHANGED xattrVars  BY <2>1, <2>2 DEF xattrVars, XattrInv
  <2> QED BY <2>1, <2>2, XattrKept
<1>15. NdpInv'
  <2>1. NdpInv /\ (NdpNext \/ UNCHANGED ndpVars)  BY DEF PartsNext, allVars, TablesInv
  <2>2. CASE UNCHANGED ndpVars  BY <2>1, <2>2 DEF ndpVars, NdpInv
  <2> QED BY <2>1, <2>2, NdpKept
<1>16. UdInv'
  <2>1. UdInv /\ (Udp64Next \/ UNCHANGED udp64Vars)  BY DEF PartsNext, allVars, TablesInv
  <2>2. CASE UNCHANGED udp64Vars  BY <2>1, <2>2 DEF udp64Vars, UdInv
  <2> QED BY <2>1, <2>2, UdKept
<1>17. TcInv'
  <2>1. TcInv /\ (Tcp64Next \/ UNCHANGED tcp64Vars)  BY DEF PartsNext, allVars, TablesInv
  <2>2. CASE UNCHANGED tcp64Vars  BY <2>1, <2>2 DEF tcp64Vars, TcInv
  <2> QED BY <2>1, <2>2, TcKept
<1>18. NicInv'
  <2>1. NicInv /\ (NicNext \/ UNCHANGED nicVars)  BY DEF PartsNext, allVars, TablesInv
  <2>2. CASE UNCHANGED nicVars  BY <2>1, <2>2 DEF nicVars, NicInv
  <2> QED BY <2>1, <2>2, NicKept
<1>19. StaInv'
  <2>1. StaInv /\ (StaNext \/ UNCHANGED staVars)  BY DEF PartsNext, allVars, TablesInv
  <2>2. CASE UNCHANGED staVars  BY <2>1, <2>2 DEF staVars, StaInv, Stations
  <2> QED BY <2>1, <2>2, StaKept
<1>20. LoginInv'
  <2>1. LoginInv /\ (LoginNext \/ UNCHANGED loginVars)  BY DEF PartsNext, allVars, TablesInv
  <2>2. CASE UNCHANGED loginVars  BY <2>1, <2>2 DEF loginVars, LoginInv
  <2> QED BY <2>1, <2>2, LoginKept
<1>21. SudoInv'
  <2>1. SudoInv /\ (SudoNext \/ UNCHANGED sudoVars)  BY DEF PartsNext, allVars, TablesInv
  <2>2. CASE UNCHANGED sudoVars  BY <2>1, <2>2 DEF sudoVars, SudoInv
  <2> QED BY <2>1, <2>2, SudoKept
<1>22. HeaderCurrent'
  <2>1. HeaderCurrent /\ (LuksNext \/ UNCHANGED luksVars)  BY DEF PartsNext, allVars, TablesInv
  <2>2. CASE UNCHANGED luksVars  BY <2>1, <2>2 DEF luksVars, HeaderCurrent
  <2> QED BY <2>1, <2>2, LuksKept
<1>23. SecctxInv'
  <2>1. SecctxInv /\ (SecctxNext \/ UNCHANGED secctxVars)  BY DEF PartsNext, allVars, TablesInv
  <2>2. CASE UNCHANGED secctxVars  BY <2>1, <2>2 DEF secctxVars, SecctxInv
  <2> QED BY <2>1, <2>2, SecctxKept
<1> QED BY <1>1, <1>2, <1>3, <1>4, <1>5, <1>6, <1>7, <1>8, <1>9, <1>10, <1>11,
     <1>12, <1>13, <1>14, <1>15, <1>16, <1>17, <1>18, <1>19, <1>20, <1>21,
     <1>22, <1>23 DEF TablesInv

\* However large the tables of storage, network and accounts are: they
\* answer with what was entered last, no entry is another's and none
\* outlives what it stands for (vfs64.c, fsync64.c, snap64.c, jrnl64.c,
\* btrfs64.c, blk64.c, part64.c, parttool64.c, flock64.c, quota64.c,
\* vfsops64.c, dentry64.c, xattr64.c, acl64.c, arpndp64.c, udp64.c,
\* tcp64.c, net64.c, apmode64.c, passwd64.c, sudo64.c, luksop64.c,
\* secctx64.c), and a journal gives back what it is to keep (journal64.c).
THEOREM TablesAreSound == PartsSpec => []TablesSound
<1>1. TablesInv => TablesSound
  BY VfsHolds, JnHolds, FsyncHolds, SnapHolds, JrnlHolds, SubvolHolds,
     DiskHolds, PartHolds, GptHolds, FlockHolds, QuotaHolds, LinkHolds,
     DentryHolds, XattrHolds, NdpHolds, UdHolds, TcHolds, NicHolds, StaHolds,
     LoginHolds, StampHolds, SecctxHolds, AclHolds
     DEF TablesInv, TablesSound
<1> QED BY <1>1, TablesInvStarts, TablesInvKept, PTL DEF PartsSpec

\* What AccessSteps rests on: the rules are lists, the tables hold a name once,
\* and a rule set in force is closed.
AccessInv ==
    /\ FilterInv /\ SudoInv /\ SelinuxInv /\ GroupInv /\ PolicyInv
    /\ SandboxInv /\ SeccompInv

LEMMA AccessInvStarts == PartsInit => AccessInv
  BY FilterStarts, SudoStarts, SelinuxStarts, GroupStarts, PolicyStarts,
     SandboxStarts, SeccompStarts DEF PartsInit, AccessInv

LEMMA AccessInvKept == AccessInv /\ [PartsNext]_allVars => AccessInv'
<1> SUFFICES ASSUME AccessInv, [PartsNext]_allVars PROVE AccessInv'  OBVIOUS
<1>1. FilterInv'
  <2>1. FilterInv /\ (FilterNext \/ UNCHANGED filterVars)  BY DEF PartsNext, allVars, AccessInv
  <2>2. CASE UNCHANGED filterVars  BY <2>1, <2>2 DEF filterVars, FilterInv
  <2> QED BY <2>1, <2>2, FilterKept
<1>2. SudoInv'
  <2>1. SudoInv /\ (SudoNext \/ UNCHANGED sudoVars)  BY DEF PartsNext, allVars, AccessInv
  <2>2. CASE UNCHANGED sudoVars  BY <2>1, <2>2 DEF sudoVars, SudoInv
  <2> QED BY <2>1, <2>2, SudoKept
<1>3. SelinuxInv'
  <2>1. SelinuxInv /\ (SelinuxNext \/ UNCHANGED selinuxVars)  BY DEF PartsNext, allVars, AccessInv
  <2>2. CASE UNCHANGED selinuxVars  BY <2>1, <2>2 DEF selinuxVars, SelinuxInv
  <2> QED BY <2>1, <2>2, SelinuxKept
<1>4. GroupInv'
  <2>1. GroupInv /\ (GroupNext \/ UNCHANGED groupVars)  BY DEF PartsNext, allVars, AccessInv
  <2>2. CASE UNCHANGED groupVars  BY <2>1, <2>2 DEF groupVars, GroupInv
  <2> QED BY <2>1, <2>2, GroupKept
<1>5. PolicyInv'
  <2>1. PolicyInv /\ (PolicyNext \/ UNCHANGED policyVars)  BY DEF PartsNext, allVars, AccessInv
  <2>2. CASE UNCHANGED policyVars  BY <2>1, <2>2 DEF policyVars, PolicyInv
  <2> QED BY <2>1, <2>2, PolicyKept
<1>6. SandboxInv'
  <2>1. SandboxInv /\ (SandboxNext \/ UNCHANGED sandboxVars)  BY DEF PartsNext, allVars, AccessInv
  <2>2. CASE UNCHANGED sandboxVars  BY <2>1, <2>2 DEF sandboxVars, SandboxInv
  <2> QED BY <2>1, <2>2, SandboxKept
<1>7. SeccompInv'
  <2>1. SeccompInv /\ (SeccompNext \/ UNCHANGED seccompVars)  BY DEF PartsNext, allVars, AccessInv
  <2>2. CASE UNCHANGED seccompVars  BY <2>1, <2>2 DEF seccompVars, SeccompInv
  <2> QED BY <2>1, <2>2, SeccompKept
<1> QED BY <1>1, <1>2, <1>3, <1>4, <1>5, <1>6, <1>7 DEF AccessInv

\* However many rules, groups, profiles and rule sets there are: a rule
\* that is added takes nothing back (netfilter64.c, sudo64.c, selinux64.c,
\* selinuxctx64.c, group64.c), what is done to one profile leaves the
\* others (secpol64.c), and what a program sealed stays sealed
\* (landlk64.c, seccomp64.c).
THEOREM AccessStepsHold == PartsSpec => AccessSteps
<1>1. AccessInv /\ [PartsNext]_allVars =>
         [/\ EarlierRulesHold /\ EarlierSudoHolds /\ EarlierTypesHold /\ LabelsNarrow
          /\ GrantsGrow /\ ProfilesApart /\ SandboxSealed /\ FilterLasts]_allVars
  <2> SUFFICES ASSUME AccessInv, [PartsNext]_allVars
               PROVE  /\ EarlierRulesHold /\ EarlierSudoHolds /\ EarlierTypesHold /\ LabelsNarrow
                      /\ GrantsGrow /\ ProfilesApart /\ SandboxSealed /\ FilterLasts
    OBVIOUS
  <2>1. EarlierRulesHold
    <3>1. FilterInv /\ (FilterNext \/ UNCHANGED filterVars)  BY DEF PartsNext, allVars, AccessInv
    <3>2. CASE UNCHANGED filterVars  BY <3>2 DEF EarlierRulesHold, filterVars
    <3> QED BY <3>1, <3>2, FilterHolds
  <2>2. EarlierSudoHolds
    <3>1. SudoInv /\ (SudoNext \/ UNCHANGED sudoVars)  BY DEF PartsNext, allVars, AccessInv
    <3>2. CASE UNCHANGED sudoVars  BY <3>2 DEF EarlierSudoHolds, sudoVars
    <3> QED BY <3>1, <3>2, SudoHolds
  <2>3. EarlierTypesHold /\ LabelsNarrow
    <3>1. SelinuxInv /\ (SelinuxNext \/ UNCHANGED selinuxVars)  BY DEF PartsNext, allVars, AccessInv
    <3>2. CASE UNCHANGED selinuxVars  BY <3>2 DEF EarlierTypesHold, LabelsNarrow, selinuxVars
    <3> QED BY <3>1, <3>2, TypesHold, LabelsHold
  <2>4. GrantsGrow
    <3>1. GroupInv /\ (GroupNext \/ UNCHANGED groupVars)  BY DEF PartsNext, allVars, AccessInv
    <3>2. CASE UNCHANGED groupVars  BY <3>2 DEF GrantsGrow, groupVars
    <3> QED BY <3>1, <3>2, GroupHolds
  <2>5. ProfilesApart
    <3>1. PolicyInv /\ (PolicyNext \/ UNCHANGED policyVars)  BY DEF PartsNext, allVars, AccessInv
    <3>2. CASE UNCHANGED policyVars  BY <3>2 DEF ProfilesApart, policyVars
    <3> QED BY <3>1, <3>2, PolicyHolds
  <2>6. SandboxSealed
    <3>1. SandboxInv /\ (SandboxNext \/ UNCHANGED sandboxVars)  BY DEF PartsNext, allVars, AccessInv
    <3>2. CASE UNCHANGED sandboxVars  BY <3>2 DEF SandboxSealed, sandboxVars
    <3> QED BY <3>1, <3>2, SandboxHolds
  <2>7. FilterLasts
    <3>1. SeccompInv /\ (SeccompNext \/ UNCHANGED seccompVars)  BY DEF PartsNext, allVars, AccessInv
    <3>2. CASE UNCHANGED seccompVars  BY <3>2 DEF FilterLasts, seccompVars
    <3> QED BY <3>1, <3>2, SeccompHolds
  <2> QED BY <2>1, <2>2, <2>3, <2>4, <2>5, <2>6, <2>7
<1> QED BY <1>1, AccessInvStarts, AccessInvKept, PTL DEF PartsSpec, AccessSteps
==============================
