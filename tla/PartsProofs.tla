---------------------------- MODULE PartsProofs -----------------------------
(***************************************************************************)
(* What holds of the network, of the disks, of the kernel heap and of user *)
(* memory for every number of frames, bytes, descriptors, cache entries,   *)
(* sockets, sectors, cells and pages: the invariants of the parts of the   *)
(* kernel that the run of KernelParts checks on small numbers, with the    *)
(* stronger invariants they rest on; what no step of sockets and of the    *)
(* dynamic linker does; and that clocks, logs, averages and checksums are  *)
(* right for every width, size and content.                                *)
(***************************************************************************)
EXTENDS KernelParts, MemoryAndFilesProofs, WellFoundedInduction, SequenceTheorems

------------------------------
(* TCP (kernel/net/tcp.c).                                                 *)

\* A connection: what the invariants are about are numbers, and the wire
\* and the slot hold segments.
TcpSegments == [seq : Nat, len : Nat]
TcpSlots == [active : BOOLEAN, seq : Nat, len : Nat, count : Nat]

TcpTypeOK ==
    /\ pcb_state \in {"closed", "syn_sent", "established", "close_wait"}
    /\ snd_nxt \in Nat /\ snd_una \in Nat /\ rcv_nxt \in Nat /\ peer_rcv \in Nat
    /\ rbuf \in Seq(Nat)
    /\ rex \in TcpSlots
    /\ wire \subseteq TcpSegments
    /\ overlap \in BOOLEAN /\ peer_fin \in BOOLEAN
    /\ dupacks \in Nat

\* Only bytes that were numbered are on the way, and the slot repeats nothing
\* that was not sent before.
SentNumbered ==
    /\ \A g \in wire : g.seq + Covers(g) <= snd_nxt
    /\ rex.active => rex.seq + Covers(rex) <= snd_nxt
    /\ pcb_state # "closed" => snd_nxt >= 1

\* The next number expected is the one behind the bytes read, behind FIN too
\* once FIN was read, and before the handshake there is none.
NextExpected ==
    /\ Len(rbuf) <= TcpRecv /\ Len(rbuf) <= TcpRbuf
    /\ pcb_state = "established" => rcv_nxt = Len(rbuf) + 1
    /\ pcb_state = "close_wait" => rcv_nxt >= Len(rbuf) + 2
    /\ pcb_state = "syn_sent" => rbuf = << >>
    /\ pcb_state = "closed" /\ snd_nxt = 0 => rbuf = << >>

TcpIInv ==
    /\ TcpTypeOK
    /\ SentNumbered
    /\ NothingInvented
    /\ SlotCoversUnacked
    /\ NextExpected
    /\ ReceivedInOrder

\* The invariant holds before tcp_connect().
LEMMA InitTcpIInv == TcpInit => TcpIInv
<1> SUFFICES ASSUME TcpInit PROVE TcpIInv  OBVIOUS
<1>1. TcpTypeOK
  <2>1. NoRex \in TcpSlots  BY DEF NoRex, TcpSlots
  <2>2. << >> \in Seq(Nat)  OBVIOUS
  <2> QED BY <2>1, <2>2 DEF TcpInit, TcpTypeOK
<1>2. rbuf = << >> /\ Len(rbuf) = 0  BY DEF TcpInit
<1>3. SentNumbered /\ NothingInvented /\ SlotCoversUnacked
  BY DEF TcpInit, NoRex, SentNumbered, NothingInvented, SlotCoversUnacked
<1>4. NextExpected  BY <1>2, TcpAssumption DEF TcpInit, NextExpected
<1>5. ReceivedInOrder  BY <1>2 DEF TcpInit, ReceivedInOrder
<1> QED BY <1>1, <1>3, <1>4, <1>5 DEF TcpIInv

\* What is accepted of a segment is the piece of the stream that comes
\* next, and there is none only if the buffer is full (tcp_input).
LEMMA AcceptedIsNext ==
  ASSUME TcpIInv, pcb_state \in {"established", "close_wait"},
         NEW seq \in 1 .. TcpRecv + 1, NEW dlen \in 0 .. TcpMss, seq + dlen <= TcpRecv + 1
  PROVE  /\ Accepted(seq, dlen) \in Seq(Nat)
         /\ Accepted(seq, dlen) = [k \in 1 .. Len(Accepted(seq, dlen)) |-> Len(rbuf) + k]
         /\ Len(rbuf) + Len(Accepted(seq, dlen)) <= TcpRecv
         /\ Len(rbuf) + Len(Accepted(seq, dlen)) <= TcpRbuf
         /\ pcb_state = "close_wait" => Len(Accepted(seq, dlen)) = 0
         /\ seq = rcv_nxt /\ dlen > 0 => Len(Accepted(seq, dlen)) > 0 \/ Len(rbuf) = TcpRbuf
         /\ ~(seq = rcv_nxt /\ dlen > 0) => Len(Accepted(seq, dlen)) = 0
<1> DEFINE room == TcpRbuf - Len(rbuf)
<1> DEFINE m == IF dlen < room THEN dlen ELSE room
<1>1. Len(rbuf) \in Nat /\ Len(rbuf) <= TcpRecv /\ Len(rbuf) <= TcpRbuf /\ rcv_nxt \in Nat
  BY DEF TcpIInv, TcpTypeOK, NextExpected
<1>2. TcpRecv \in Nat /\ TcpRbuf \in Nat /\ TcpMss \in Nat /\ seq \in Nat /\ dlen \in Nat  BY TcpAssumption
<1>3. CASE seq = rcv_nxt /\ dlen > 0
  <2>1. pcb_state = "close_wait" => Len(rbuf) = TcpRbuf
    <3> SUFFICES ASSUME pcb_state = "close_wait", Len(rbuf) = TcpRecv PROVE FALSE
      BY DEF TcpIInv, ReceivedInOrder
    <3>1. rcv_nxt >= TcpRecv + 2  BY <1>1, <1>2 DEF TcpIInv, NextExpected
    <3> QED BY <1>1, <1>2, <1>3, <3>1
  <2>2. rcv_nxt = Len(rbuf) + 1 \/ (m = 0 /\ Len(rbuf) = TcpRbuf)
    BY <1>1, <1>2, <1>3, <2>1 DEF TcpIInv, NextExpected
  <2>3. /\ m \in Nat /\ (m > 0 \/ Len(rbuf) = TcpRbuf)
        /\ Len(rbuf) + m <= TcpRecv /\ Len(rbuf) + m <= TcpRbuf
        /\ pcb_state = "close_wait" => m = 0
    BY <1>1, <1>2, <1>3, <2>1, <2>2
  <2>4. Accepted(seq, dlen) = [k \in 1 .. m |-> seq + k - 1]  BY <1>3 DEF Accepted
  <2> HIDE DEF m, room
  <2>5. [k \in 1 .. m |-> seq + k - 1] = [k \in 1 .. m |-> Len(rbuf) + k]
    <3>1. \A k \in 1 .. m : seq + k - 1 = Len(rbuf) + k  BY <1>1, <1>2, <1>3, <2>2, <2>3
    <3> QED BY <3>1
  <2>6. [k \in 1 .. m |-> seq + k - 1] \in Seq(Nat) /\ Len([k \in 1 .. m |-> seq + k - 1]) = m
    <3>1. \A k \in 1 .. m : seq + k - 1 \in Nat  BY <1>2, <2>3
    <3> QED BY <2>3, <3>1
  <2> QED BY <1>3, <2>3, <2>4, <2>5, <2>6
<1>4. CASE ~(seq = rcv_nxt /\ dlen > 0)
  <2>1. Accepted(seq, dlen) = << >>  BY <1>2, <1>4 DEF Accepted
  <2>2. << >> \in Seq(Nat) /\ Len(<< >>) = 0 /\ << >> = [k \in 1 .. 0 |-> Len(rbuf) + k]  OBVIOUS
  <2> QED BY <1>1, <1>4, <2>1, <2>2
<1> QED BY <1>3, <1>4

\* The acknowledgement part of tcp_input() keeps what was sent and the
\* slot in step.
LEMMA AckInputKeeps ==
  ASSUME TcpIInv, NEW ack \in 1 .. peer_rcv, NEW dlen, AckInput(ack, dlen),
         snd_nxt' = snd_nxt, peer_rcv' = peer_rcv, overlap' = overlap,
         pcb_state # "closed", pcb_state' # "closed"
  PROVE  /\ rex' \in TcpSlots /\ wire' \subseteq TcpSegments /\ dupacks' \in Nat /\ snd_una' \in Nat
         /\ SentNumbered' /\ NothingInvented' /\ SlotCoversUnacked'
<1>1. /\ rex \in TcpSlots /\ wire \subseteq TcpSegments /\ dupacks \in Nat
      /\ snd_una \in Nat /\ snd_nxt \in Nat /\ peer_rcv \in Nat /\ ack \in Nat
  BY DEF TcpIInv, TcpTypeOK
<1>2. CASE ack > snd_una /\ ack <= snd_nxt
  <2>1. snd_una' = ack /\ dupacks' = 0 /\ wire' = wire /\ rex' = [rex EXCEPT !.active = @ /\ ack # snd_nxt]
    BY <1>2 DEF AckInput
  <2>2. /\ rex' \in TcpSlots /\ rex'.active = (rex.active /\ ack # snd_nxt)
        /\ rex'.seq = rex.seq /\ rex'.len = rex.len /\ rex.len \in Nat /\ rex.seq \in Nat
        /\ rex.active \in BOOLEAN
    BY <1>1, <2>1 DEF TcpSlots
  <2>3. Covers(rex)' = Covers(rex)  BY <2>2 DEF Covers
  <2>4. SentNumbered'  BY <2>1, <2>2, <2>3 DEF TcpIInv, SentNumbered, Covers
  <2>5. NothingInvented'  BY <1>1, <2>1 DEF TcpIInv, NothingInvented
  <2>6. SlotCoversUnacked'  BY <1>1, <1>2, <2>1, <2>2, <2>3 DEF TcpIInv, SlotCoversUnacked
  <2> QED BY <1>1, <2>1, <2>2, <2>4, <2>5, <2>6
<1>3. ASSUME rex.active, Resend, snd_una' = snd_una
      PROVE  /\ rex' \in TcpSlots /\ wire' \subseteq TcpSegments /\ dupacks' \in Nat /\ snd_una' \in Nat
             /\ SentNumbered' /\ NothingInvented' /\ SlotCoversUnacked'
  <2>1. /\ rex' \in TcpSlots /\ rex'.active = rex.active
        /\ rex'.seq = rex.seq /\ rex'.len = rex.len /\ rex.len \in Nat /\ rex.seq \in Nat
    BY <1>1, <1>3 DEF TcpSlots, Resend
  <2>2. wire' = wire \cup {Segment(rex.seq, rex.len)} /\ dupacks' = 0  BY <1>3 DEF Resend
  <2>3. Segment(rex.seq, rex.len) \in TcpSegments /\ Covers(Segment(rex.seq, rex.len)) = Covers(rex)
        /\ Segment(rex.seq, rex.len).seq = rex.seq
    BY <2>1 DEF Segment, TcpSegments, Covers
  <2>4. Covers(rex)' = Covers(rex)  BY <2>1 DEF Covers
  <2>5. SentNumbered'
    <3>1. \A g \in wire' : g.seq + Covers(g) <= snd_nxt  BY <1>3, <2>2, <2>3 DEF TcpIInv, SentNumbered
    <3> QED BY <1>3, <2>1, <2>4, <3>1 DEF TcpIInv, SentNumbered, Covers
  <2>6. NothingInvented'  BY <1>3 DEF TcpIInv, NothingInvented
  <2>7. SlotCoversUnacked'  BY <1>3, <2>1, <2>4 DEF TcpIInv, SlotCoversUnacked
  <2> QED BY <1>1, <1>3, <2>1, <2>2, <2>3, <2>5, <2>6, <2>7
<1>4. ASSUME UNCHANGED <<snd_una, rex, wire>>, dupacks' \in Nat
      PROVE  /\ rex' \in TcpSlots /\ wire' \subseteq TcpSegments /\ dupacks' \in Nat /\ snd_una' \in Nat
             /\ SentNumbered' /\ NothingInvented' /\ SlotCoversUnacked'
  BY <1>1, <1>4 DEF TcpIInv, SentNumbered, NothingInvented, SlotCoversUnacked, Covers
<1>5. CASE ~(ack > snd_una /\ ack <= snd_nxt)
  <2>1. CASE ack = snd_una /\ rex.active /\ dlen = 0  BY <1>1, <1>3, <1>4, <1>5, <2>1 DEF AckInput
  <2>2. CASE ~(ack = snd_una /\ rex.active /\ dlen = 0)  BY <1>1, <1>4, <1>5, <2>2 DEF AckInput
  <2> QED BY <2>1, <2>2
<1> QED BY <1>2, <1>5

\* A new segment goes out: tcp_connect(), tcp_send_data().
LEMMA SendKeeps ==
  ASSUME TcpIInv, NEW n \in 1 .. TcpMss, tcp_connect \/ tcp_send_data(n)
  PROVE  TcpIInv'
<1>0. TcpMss \in Nat /\ n \in Nat  BY TcpAssumption
<1>1. /\ rex \in TcpSlots /\ wire \subseteq TcpSegments /\ dupacks \in Nat /\ rex.active \in BOOLEAN
      /\ snd_una \in Nat /\ snd_nxt \in Nat /\ peer_rcv \in Nat /\ overlap \in BOOLEAN
  BY DEF TcpIInv, TcpTypeOK, TcpSlots
<1>2. PICK len : /\ len = IF tcp_connect THEN 0 ELSE n  OBVIOUS
<1>3. /\ SendArmed(snd_nxt, len) /\ len \in Nat
      /\ snd_nxt' = snd_nxt + Covers(Segment(snd_nxt, len))
      /\ pcb_state' \in {"syn_sent", "established"}
      /\ UNCHANGED <<snd_una, rcv_nxt, rbuf, peer_rcv, peer_fin>>
      /\ overlap' \in BOOLEAN
      /\ ~overlap' => /\ ~overlap
                      /\ snd_nxt # 0 => ~rex.active
      /\ pcb_state' = "syn_sent" => pcb_state = "closed" /\ snd_nxt = 0
      /\ pcb_state' = "established" => pcb_state = "established"
  <2>1. CASE tcp_connect  BY <1>1, <1>2, <2>1 DEF tcp_connect, Segment, Covers
  <2>2. CASE ~tcp_connect
    <3>1. tcp_send_data(n) /\ len = n  BY <1>2, <2>2
    <3>2. snd_nxt >= 1  BY <3>1 DEF tcp_send_data, TcpIInv, SentNumbered
    <3> QED BY <1>0, <1>1, <3>1, <3>2 DEF tcp_send_data, Segment, Covers
  <2> QED BY <2>1, <2>2
<1>4. /\ rex' = [active |-> TRUE, seq |-> snd_nxt, len |-> len, count |-> 0]
      /\ wire' = wire \cup {Segment(snd_nxt, len)} /\ dupacks' = 0
  BY <1>3 DEF SendArmed
<1>5. /\ rex' \in TcpSlots /\ rex'.active = TRUE /\ rex'.seq = snd_nxt /\ rex'.len = len
      /\ Segment(snd_nxt, len) \in TcpSegments /\ Segment(snd_nxt, len).seq = snd_nxt
      /\ Covers(Segment(snd_nxt, len)) \in Nat
      /\ Covers(rex)' = Covers(Segment(snd_nxt, len))
      /\ Covers(Segment(snd_nxt, len)) >= 1
  <2>1. rex' \in TcpSlots /\ rex'.active = TRUE /\ rex'.seq = snd_nxt /\ rex'.len = len
    BY <1>1, <1>3, <1>4 DEF TcpSlots
  <2>2. Segment(snd_nxt, len) \in TcpSegments /\ Segment(snd_nxt, len).seq = snd_nxt
        /\ Segment(snd_nxt, len).len = len
    BY <1>1, <1>3 DEF Segment, TcpSegments
  <2>3. snd_nxt # 0 => len >= 1  BY <1>0, <1>1, <1>2 DEF tcp_connect
  <2> QED BY <1>1, <1>3, <2>1, <2>2, <2>3 DEF Covers
<1>6. TcpTypeOK'  BY <1>1, <1>3, <1>4, <1>5 DEF TcpIInv, TcpTypeOK
<1>7. SentNumbered'
  <2>1. \A g \in wire : g.seq + Covers(g) \in Nat
    <3> SUFFICES ASSUME NEW g \in wire PROVE g.seq + Covers(g) \in Nat  OBVIOUS
    <3>1. g.seq \in Nat /\ g.len \in Nat  BY <1>1 DEF TcpSegments
    <3> QED BY <3>1 DEF Covers
  <2>2. \A g \in wire : g.seq + Covers(g) <= snd_nxt'  BY <1>1, <1>3, <1>5, <2>1 DEF TcpIInv, SentNumbered
  <2>3. \A g \in wire' : g.seq + Covers(g) <= snd_nxt'  BY <1>1, <1>3, <1>4, <1>5, <2>2
  <2> QED BY <1>1, <1>3, <1>5, <2>3 DEF SentNumbered, Covers
<1>8. NothingInvented'  BY <1>1, <1>3, <1>5 DEF TcpIInv, NothingInvented
<1>9. SlotCoversUnacked'
  <2> SUFFICES ASSUME ~overlap'
               PROVE  rex'.active = (snd_una' < snd_nxt') /\ rex'.seq <= snd_una'
                      /\ rex'.seq + Covers(rex)' = snd_nxt'
    BY DEF SlotCoversUnacked
  <2>1. snd_una = snd_nxt
    <3>1. CASE snd_nxt = 0  BY <1>1, <3>1 DEF TcpIInv, NothingInvented
    <3>2. CASE snd_nxt # 0
      <4>1. pcb_state # "closed" /\ ~overlap /\ ~rex.active  BY <1>3, <3>2
      <4> QED BY <1>1, <4>1 DEF TcpIInv, NothingInvented, SlotCoversUnacked
    <3> QED BY <3>1, <3>2
  <2>2. snd_una' < snd_nxt' /\ rex'.seq <= snd_una'  BY <1>1, <1>3, <1>5, <2>1
  <2>3. rex'.seq + Covers(rex)' = snd_nxt'  BY <1>1, <1>3, <1>5
  <2>4. rex'.active = (snd_una' < snd_nxt')  BY <1>5, <2>2
  <2> QED BY <2>2, <2>3, <2>4
<1>10. NextExpected' /\ ReceivedInOrder'  BY <1>3 DEF TcpIInv, NextExpected, ReceivedInOrder
<1> QED BY <1>6, <1>7, <1>8, <1>9, <1>10 DEF TcpIInv

\* The slot is repeated or given up: tcp_tick(), and RST ends it.
LEMMA TickKeeps ==
  ASSUME TcpIInv, tcp_tick \/ RstInput
  PROVE  TcpIInv'
<1>1. /\ rex \in TcpSlots /\ wire \subseteq TcpSegments
      /\ snd_una \in Nat /\ snd_nxt \in Nat /\ peer_rcv \in Nat
      /\ rex.seq \in Nat /\ rex.len \in Nat
  BY DEF TcpIInv, TcpTypeOK, TcpSlots
<1>2. UNCHANGED <<snd_nxt, snd_una, rcv_nxt, rbuf, peer_rcv, peer_fin, overlap>>  BY DEF tcp_tick, RstInput
<1>3. NothingInvented'  BY <1>2 DEF TcpIInv, NothingInvented
<1>4. CASE /\ pcb_state' = "closed" /\ rex' = [rex EXCEPT !.active = FALSE]
           /\ UNCHANGED <<wire, dupacks>>
           /\ snd_nxt >= 1
  <2>1. rex' \in TcpSlots /\ rex'.active = FALSE  BY <1>1, <1>4 DEF TcpSlots
  <2> QED BY <1>2, <1>3, <1>4, <2>1
       DEF TcpIInv, TcpTypeOK, SentNumbered, SlotCoversUnacked, NextExpected, ReceivedInOrder
<1>5. CASE tcp_tick
  <2>1. rex.active /\ snd_nxt >= 1  BY <1>1, <1>5 DEF tcp_tick, TcpIInv, SentNumbered, Covers
  <2>2. CASE Resend /\ UNCHANGED pcb_state
    <3>1. /\ rex' \in TcpSlots /\ rex'.active = rex.active /\ rex'.seq = rex.seq /\ rex'.len = rex.len
      BY <1>1, <2>2 DEF TcpSlots, Resend
    <3>2. wire' = wire \cup {Segment(rex.seq, rex.len)} /\ dupacks' = 0  BY <2>2 DEF Resend
    <3>3. /\ Segment(rex.seq, rex.len) \in TcpSegments
          /\ Covers(Segment(rex.seq, rex.len)) = Covers(rex)
          /\ Segment(rex.seq, rex.len).seq = rex.seq
      BY <1>1 DEF Segment, TcpSegments, Covers
    <3>4. Covers(rex)' = Covers(rex)  BY <3>1 DEF Covers
    <3>5. \A g \in wire' : g.seq + Covers(g) <= snd_nxt'  BY <1>2, <2>1, <3>2, <3>3 DEF TcpIInv, SentNumbered
    <3>6. SentNumbered'  BY <1>2, <2>1, <2>2, <3>1, <3>4, <3>5 DEF TcpIInv, SentNumbered, Covers
    <3>7. SlotCoversUnacked'  BY <1>2, <2>2, <3>1, <3>4 DEF TcpIInv, SlotCoversUnacked
    <3>8. TcpTypeOK'  BY <1>1, <1>2, <2>2, <3>1, <3>2, <3>3 DEF TcpIInv, TcpTypeOK
    <3>9. NextExpected' /\ ReceivedInOrder'  BY <1>2, <2>2 DEF TcpIInv, NextExpected, ReceivedInOrder
    <3> QED BY <1>3, <3>6, <3>7, <3>8, <3>9 DEF TcpIInv
  <2> QED BY <1>4, <1>5, <2>1, <2>2 DEF tcp_tick
<1>6. CASE RstInput  BY <1>4, <1>6 DEF RstInput, TcpIInv, SentNumbered
<1> QED BY <1>5, <1>6

\* A segment of the peer reaches tcp_input().
LEMMA SegInputKeeps ==
  ASSUME TcpIInv,
         NEW seq \in 1 .. TcpRecv + 1, NEW dlen \in 0 .. TcpMss, seq + dlen <= TcpRecv + 1,
         NEW fin \in BOOLEAN, fin => seq + dlen = TcpRecv + 1,
         NEW ack \in 1 .. peer_rcv, SegInput(seq, dlen, fin, ack)
  PROVE  TcpIInv'
<1> DEFINE got == Accepted(seq, dlen)
<1>1. /\ TcpRecv \in Nat /\ TcpRbuf \in Nat /\ seq \in Nat /\ dlen \in Nat /\ rcv_nxt \in Nat /\ TcpMss \in Nat
      /\ rbuf \in Seq(Nat) /\ Len(rbuf) \in Nat
      /\ pcb_state \in {"established", "close_wait"}
  BY TcpAssumption DEF TcpIInv, TcpTypeOK, SegInput
<1>2. /\ got \in Seq(Nat)
      /\ got = [k \in 1 .. Len(got) |-> Len(rbuf) + k]
      /\ Len(rbuf) + Len(got) <= TcpRecv /\ Len(rbuf) + Len(got) <= TcpRbuf
      /\ pcb_state = "close_wait" => Len(got) = 0
      /\ seq = rcv_nxt /\ dlen > 0 => Len(got) > 0 \/ Len(rbuf) = TcpRbuf
      /\ ~(seq = rcv_nxt /\ dlen > 0) => Len(got) = 0
  BY <1>1, AcceptedIsNext, Zenon
<1>3. /\ rbuf' = rbuf \o got
      /\ IF fin /\ seq = rcv_nxt + Len(got)
         THEN rcv_nxt' = rcv_nxt + Len(got) + 1 /\ pcb_state' = "close_wait"
         ELSE rcv_nxt' = rcv_nxt + Len(got) /\ pcb_state' = pcb_state
      /\ AckInput(ack, dlen)
      /\ UNCHANGED <<snd_nxt, peer_rcv, peer_fin, overlap>>
  BY DEF SegInput
<1> HIDE DEF got
<1>a. Len(got) \in Nat  BY <1>2
<1>4. rbuf' \in Seq(Nat) /\ Len(rbuf') = Len(rbuf) + Len(got)  BY <1>1, <1>2, <1>a, <1>3
<1>5. rbuf' = [k \in 1 .. Len(rbuf') |-> k]
  <2>1. rbuf = [k \in 1 .. Len(rbuf) |-> k]  BY DEF TcpIInv, ReceivedInOrder
  <2>2. \A k \in 1 .. Len(rbuf') : rbuf'[k] = k
    <3> SUFFICES ASSUME NEW k \in 1 .. Len(rbuf') PROVE rbuf'[k] = k  OBVIOUS
    <3>1. CASE k <= Len(rbuf)
      <4>1. k \in 1 .. Len(rbuf)  BY <1>1, <1>4, <3>1
      <4>2. rbuf'[k] = rbuf[k]  BY <1>1, <1>2, <1>a, <1>3, <4>1
      <4>3. rbuf[k] = k  BY <2>1, <4>1, Zenon
      <4> QED BY <4>2, <4>3
    <3>2. CASE k > Len(rbuf)
      <4>1. k - Len(rbuf) \in 1 .. Len(got)  BY <1>1, <1>2, <1>a, <1>4, <3>2
      <4>2. rbuf'[k] = got[k - Len(rbuf)]  BY <1>1, <1>2, <1>a, <1>3, <1>4, <3>2, <4>1
      <4>3. got[k - Len(rbuf)] = Len(rbuf) + (k - Len(rbuf))  BY <1>2, <1>a, <4>1
      <4> QED BY <1>1, <1>4, <4>2, <4>3
    <3> QED BY <1>1, <1>4, <3>1, <3>2
  <2>3. rbuf' = [k \in 1 .. Len(rbuf') |-> rbuf'[k]]  BY <1>4
  <2> QED BY <2>2, <2>3
<1>6. /\ pcb_state' \in {"established", "close_wait"}
      /\ rcv_nxt' \in Nat
      /\ pcb_state' = "established" => rcv_nxt' = Len(rbuf') + 1
      /\ pcb_state' = "close_wait" => /\ rcv_nxt' >= Len(rbuf') + 2
                                      /\ Len(rbuf') \in {TcpRecv, TcpRbuf}
  <2>1. CASE pcb_state = "close_wait"
    <3>1. Len(rbuf) \in {TcpRecv, TcpRbuf} /\ rcv_nxt >= Len(rbuf) + 2 /\ Len(got) = 0
      BY <1>2, <1>a, <2>1 DEF TcpIInv, NextExpected, ReceivedInOrder
    <3>2. Len(rbuf') = Len(rbuf)  BY <1>1, <1>4, <3>1
    <3>3. pcb_state' = "close_wait" /\ rcv_nxt' \in Nat /\ rcv_nxt' >= rcv_nxt  BY <1>1, <1>3, <2>1, <3>1
    <3> QED BY <1>1, <3>1, <3>2, <3>3
  <2>2. CASE pcb_state = "established"
    <3>1. rcv_nxt = Len(rbuf) + 1  BY <2>2 DEF TcpIInv, NextExpected
    <3>2. CASE fin /\ seq = rcv_nxt + Len(got)
      <4>1. Len(got) = 0 /\ seq = rcv_nxt  BY <1>1, <1>2, <1>a, <3>2
      <4>2. dlen = 0 \/ Len(rbuf) = TcpRbuf  BY <1>1, <1>2, <1>a, <3>2, <4>1
      <4>3. dlen = 0 => Len(rbuf) = TcpRecv  BY <1>1, <3>1, <3>2, <4>1
      <4>4. pcb_state' = "close_wait" /\ rcv_nxt' = rcv_nxt + 1  BY <1>1, <1>3, <3>2, <4>1
      <4> QED BY <1>1, <1>4, <3>1, <4>1, <4>2, <4>3, <4>4
    <3>3. CASE ~(fin /\ seq = rcv_nxt + Len(got))  BY <1>1, <1>2, <1>a, <1>3, <1>4, <2>2, <3>1, <3>3
    <3> QED BY <3>2, <3>3
  <2> QED BY <1>1, <2>1, <2>2
<1>7. /\ rex' \in TcpSlots /\ wire' \subseteq TcpSegments /\ dupacks' \in Nat /\ snd_una' \in Nat
      /\ SentNumbered' /\ NothingInvented' /\ SlotCoversUnacked'
  <2>1. pcb_state # "closed" /\ pcb_state' # "closed"  BY <1>1, <1>6
  <2> QED BY <1>3, <2>1, AckInputKeeps
<1>8. TcpTypeOK'  BY <1>3, <1>4, <1>6, <1>7 DEF TcpIInv, TcpTypeOK
<1>9. NextExpected'  BY <1>1, <1>2, <1>a, <1>3, <1>4, <1>6 DEF NextExpected
<1>10. ReceivedInOrder'  BY <1>5, <1>6 DEF ReceivedInOrder
<1> QED BY <1>7, <1>8, <1>9, <1>10 DEF TcpIInv

\* A SYN that is answered numbers what is to come.
LEMMA SynAckKeeps ==
  ASSUME TcpIInv, NEW ack \in 1 .. peer_rcv, SynAckInput(ack)
  PROVE  TcpIInv'
<1>1. /\ rex \in TcpSlots /\ snd_una \in Nat /\ snd_nxt \in Nat /\ peer_rcv \in Nat /\ ack \in Nat
  BY DEF TcpIInv, TcpTypeOK
<1>2. rex' \in TcpSlots /\ rex'.active = FALSE  BY <1>1 DEF SynAckInput, TcpSlots
<1>3. rbuf = << >> /\ Len(rbuf) = 0  BY DEF SynAckInput, TcpIInv, NextExpected
<1>4. TcpTypeOK'  BY <1>1, <1>2 DEF SynAckInput, TcpIInv, TcpTypeOK
<1>5. SentNumbered'  BY <1>1, <1>2 DEF SynAckInput, TcpIInv, SentNumbered
<1>6. NothingInvented' /\ SlotCoversUnacked'
  <2>1. snd_una' = ack /\ snd_nxt' = ack /\ peer_rcv' = peer_rcv /\ peer_rcv <= snd_nxt
    BY DEF SynAckInput, TcpIInv, NothingInvented
  <2>2. NothingInvented'  BY <1>1, <2>1 DEF SynAckInput, NothingInvented
  <2>3. SlotCoversUnacked'
    <3>1. ~(snd_una' < snd_nxt')  BY <1>1, <2>1
    <3>2. rex'.active = (snd_una' < snd_nxt')
      <4>1. (snd_una' < snd_nxt') = FALSE  BY <3>1
      <4> QED BY <1>2, <4>1, Zenon
    <3>3. ~rex'.active  BY <1>2
    <3> QED BY <3>2, <3>3, Zenon DEF SlotCoversUnacked
  <2> QED BY <2>2, <2>3
<1>7. NextExpected' /\ ReceivedInOrder'
  BY <1>3, TcpAssumption DEF SynAckInput, TcpIInv, NextExpected, ReceivedInOrder
<1> QED BY <1>4, <1>5, <1>6, <1>7 DEF TcpIInv

\* The peer takes a segment, or closes.
LEMMA PeerKeeps ==
  ASSUME TcpIInv, PeerReceives \/ PeerCloses
  PROVE  TcpIInv'
<1>1. /\ wire \subseteq TcpSegments /\ snd_una \in Nat /\ snd_nxt \in Nat /\ peer_rcv \in Nat
  BY DEF TcpIInv, TcpTypeOK
<1>2. /\ peer_rcv' \in Nat /\ peer_rcv <= peer_rcv' /\ peer_rcv' <= snd_nxt
      /\ UNCHANGED <<pcb_state, snd_nxt, snd_una, rcv_nxt, rbuf, rex, dupacks, wire, overlap>>
      /\ peer_fin' \in BOOLEAN
  <2>1. CASE PeerReceives
    <3>1. PICK g \in wire : /\ g.seq = peer_rcv /\ peer_rcv' = peer_rcv + Covers(g)
                            /\ UNCHANGED <<pcb_state, snd_nxt, snd_una, rcv_nxt, rbuf, rex, dupacks,
                                           wire, peer_fin, overlap>>
      BY <2>1 DEF PeerReceives
    <3>2. Covers(g) \in Nat  BY <1>1 DEF TcpSegments, Covers
    <3>3. g.seq + Covers(g) <= snd_nxt  BY DEF TcpIInv, SentNumbered
    <3> QED BY <1>1, <3>1, <3>2, <3>3 DEF TcpIInv, TcpTypeOK
  <2>2. CASE PeerCloses  BY <1>1, <2>2 DEF PeerCloses, TcpIInv, NothingInvented
  <2> QED BY <2>1, <2>2
<1>3. TcpTypeOK' /\ NothingInvented'  BY <1>1, <1>2 DEF TcpIInv, TcpTypeOK, NothingInvented
<1>4. SentNumbered' /\ SlotCoversUnacked'  BY <1>2 DEF TcpIInv, SentNumbered, SlotCoversUnacked, Covers
<1>5. NextExpected' /\ ReceivedInOrder'  BY <1>2 DEF TcpIInv, NextExpected, ReceivedInOrder
<1> QED BY <1>3, <1>4, <1>5 DEF TcpIInv

\* Every step of the connection, of the peer and of the network keeps the
\* invariant.
LEMMA TcpIInvStep ==
  ASSUME TcpIInv, [TcpNext]_tcpVars
  PROVE  TcpIInv'
<1>0. TcpRecv \in Nat /\ TcpMss \in 1 .. TcpRecv  BY TcpAssumption
<1>1. ASSUME NEW n \in 1 .. TcpMss, tcp_connect \/ tcp_send_data(n) PROVE TcpIInv'  BY <1>1, SendKeeps
<1>2. CASE tcp_connect
  <2>1. 1 \in 1 .. TcpMss  BY <1>0
  <2> QED BY <1>1, <1>2, <2>1
<1>3. CASE tcp_tick \/ RstInput  BY <1>3, TickKeeps
<1>4. CASE PeerSegment
  <2>1. PICK ack \in 1 .. peer_rcv :
            \/ SynAckInput(ack)
            \/ \E seq \in 1 .. TcpRecv + 1, dlen \in 0 .. TcpMss :
                  /\ seq + dlen <= TcpRecv + 1
                  /\ SegInput(seq, dlen, FALSE, ack)
            \/ /\ peer_fin
               /\ \E dlen \in 0 .. TcpMss : SegInput(TcpRecv + 1 - dlen, dlen, TRUE, ack)
    BY <1>4 DEF PeerSegment
  <2>2. CASE SynAckInput(ack)  BY <2>2, SynAckKeeps
  <2>3. ASSUME NEW seq \in 1 .. TcpRecv + 1, NEW dlen \in 0 .. TcpMss,
               seq + dlen <= TcpRecv + 1, SegInput(seq, dlen, FALSE, ack)
        PROVE  TcpIInv'
    BY <2>3, SegInputKeeps
  <2>4. ASSUME NEW dlen \in 0 .. TcpMss, SegInput(TcpRecv + 1 - dlen, dlen, TRUE, ack)
        PROVE  TcpIInv'
    <3>1. PICK seq : seq = TcpRecv + 1 - dlen  OBVIOUS
    <3>2. seq \in 1 .. TcpRecv + 1 /\ seq + dlen = TcpRecv + 1 /\ seq + dlen <= TcpRecv + 1  BY <1>0, <3>1
    <3>3. SegInput(seq, dlen, TRUE, ack)  BY <2>4, <3>1
    <3> QED BY <3>2, <3>3, SegInputKeeps
  <2> QED BY <2>1, <2>2, <2>3, <2>4
<1>5. CASE PeerReceives \/ PeerCloses  BY <1>5, PeerKeeps
<1>6. CASE UNCHANGED tcpVars
  <2>1. TcpTypeOK' /\ SentNumbered' /\ NothingInvented' /\ SlotCoversUnacked'
    BY <1>6 DEF tcpVars, TcpIInv, TcpTypeOK, SentNumbered, NothingInvented, SlotCoversUnacked, Covers
  <2>2. NextExpected' /\ ReceivedInOrder'  BY <1>6 DEF tcpVars, TcpIInv, NextExpected, ReceivedInOrder
  <2> QED BY <2>1, <2>2 DEF TcpIInv
<1> QED BY <1>1, <1>2, <1>3, <1>4, <1>5, <1>6 DEF TcpNext

------------------------------
(* The card's rings (kernel/net/e1000.c).                                   *)

\* Counting round a ring of R places.
LEMMA DivMod ==
  ASSUME NEW R \in Nat \ {0}, NEW a \in Nat
  PROVE  \E q \in Nat, r \in 0 .. R - 1 : a = R * q + r /\ r = a % R
<1>1. a % R \in 0 .. R - 1 /\ a \div R \in Nat /\ a = R * (a \div R) + (a % R)  OBVIOUS
<1> QED BY <1>1

\* Only one remainder and one quotient.
LEMMA DivModUnique ==
  ASSUME NEW R \in Nat \ {0}, NEW a \in Nat, NEW q \in Int, NEW r \in 0 .. R - 1, a = R * q + r
  PROVE  a % R = r
OBVIOUS

\* The next place of a ring, and the places of the first round.
LEMMA RingNext ==
  ASSUME NEW R \in Nat \ {0}, NEW a \in Nat
  PROVE  /\ a % R \in 0 .. R - 1
         /\ ((a % R) + 1) % R = (a + 1) % R
         /\ a < R => a % R = a
         /\ R % R = 0
<1>1. PICK q \in Nat, r \in 0 .. R - 1 : a = R * q + r /\ r = a % R  BY DivMod
<1>2. CASE r + 1 < R
  <2>1. PICK c \in Nat, d \in 0 .. R - 1 : c = a + 1 /\ d = r + 1 /\ c = R * q + d /\ q \in Int  BY <1>1, <1>2
  <2>2. (a + 1) % R = r + 1
    <3>1. c % R = d  BY <2>1, DivModUnique, Zenon
    <3> QED BY <2>1, <3>1
  <2>3. (r + 1) % R = r + 1  BY <1>1, <2>1
  <2> QED BY <1>1, <2>2, <2>3
<1>3. CASE r + 1 = R
  <2>1. a + 1 = R * (q + 1) + 0 /\ 0 \in 0 .. R - 1 /\ a + 1 \in Nat /\ q + 1 \in Int  BY <1>1, <1>3
  <2>2. (a + 1) % R = 0  BY <2>1, DivModUnique
  <2>3. (r + 1) % R = 0  BY <1>3
  <2> QED BY <1>1, <2>2, <2>3
<1>4. r + 1 <= R /\ (a < R => a % R = a) /\ R % R = 0  BY <1>1
<1> QED BY <1>1, <1>2, <1>3, <1>4

\* Less than a round apart, two counts have two places.
LEMMA RingApart ==
  ASSUME NEW R \in Nat \ {0}, NEW a \in Nat, NEW b \in Nat, a < b, b < a + R
  PROVE  a % R # b % R
<1>1. PICK q \in Nat, r \in 0 .. R - 1 : a = R * q + r /\ r = a % R  BY DivMod
<1>2. PICK p \in Nat, s \in 0 .. R - 1 : b = R * p + s /\ s = b % R  BY DivMod
<1> SUFFICES ASSUME r = s PROVE FALSE  BY <1>1, <1>2
<1>3. R * p > R * q /\ R * p < R * q + R
  <2> DEFINE x == R * q
  <2> DEFINE y == R * p
  <2>1. x \in Int /\ y \in Int  OBVIOUS
  <2>2. a = x + r /\ b = y + s  BY <1>1, <1>2, Zenon
  <2> HIDE DEF x, y
  <2>3. y > x /\ y < x + R  BY <2>1, <2>2
  <2> QED BY <2>3 DEF x, y
<1>4. CASE p <= q
  <2>1. R * p <= R * q  BY <1>4
  <2> QED BY <1>3, <2>1
<1>5. CASE p >= q + 1
  <2>1. R * p >= R * (q + 1)  BY <1>5
  <2>2. R * (q + 1) = R * q + R  OBVIOUS
  <2> QED BY <1>3, <2>1, <2>2
<1> QED BY <1>4, <1>5

\* A place and a count make the place of the sum.
LEMMA RingAdd ==
  ASSUME NEW R \in Nat \ {0}, NEW a \in Nat, NEW b \in Nat
  PROVE  ((a % R) + b) % R = (a + b) % R
<1>1. PICK q \in Nat, r \in 0 .. R - 1 : a = R * q + r /\ r = a % R  BY DivMod
<1>2. PICK p \in Nat, s \in 0 .. R - 1 : r + b = R * p + s /\ s = (r + b) % R
  <2>1. r + b \in Nat  OBVIOUS
  <2> QED BY <2>1, DivMod
<1>3. PICK c \in Nat, e \in Int : c = a + b /\ e = q + p /\ c = R * e + s
  <2>1. R * (q + p) = R * q + R * p  OBVIOUS
  <2>2. a + b = R * (q + p) + s
    <3>1. PICK x \in Int, y \in Int : x = R * q /\ y = R * p  OBVIOUS
    <3>2. a = x + r /\ r + b = y + s  BY <1>1, <1>2, <3>1, Zenon
    <3>3. a + b = (x + y) + s  BY <3>2
    <3> QED BY <2>1, <3>1, <3>3, Zenon
  <2>3. a + b \in Nat /\ q + p \in Int  OBVIOUS
  <2> QED BY <2>2, <2>3, Zenon
<1>4. (a + b) % R = s
  <2>1. c % R = s
    <3>1. c = R * e + s  BY <1>3, Zenon
    <3> QED BY <3>1, DivModUnique, Zenon
  <2>2. c = a + b  BY <1>3
  <2> QED BY <2>1, <2>2
<1> QED BY <1>1, <1>2, <1>4

\* The transmit ring.  A descriptor is used once: descriptor i carries
\* frame i + 1 once that was accepted, and has DD once the card has sent
\* it; tail and head are where the counts of frames put them.
TxDescriptors == [cmd : BOOLEAN, dd : BOOLEAN, frame : Nat]

TxDone(n, m) ==
    \A i \in Slots : /\ txq[i].cmd <=> i < n
                     /\ txq[i].dd <=> i < m
                     /\ i < n => txq[i].frame = i + 1

TxRing ==
    /\ tx_sent \in Seq(Nat) /\ tx_wire \in Seq(Nat)
    /\ tx_sent = [k \in 1 .. Len(tx_sent) |-> k]
    /\ tx_wire = [k \in 1 .. Len(tx_wire) |-> k]
    /\ Len(tx_wire) <= Len(tx_sent) /\ Len(tx_sent) <= NicRing
    /\ tx_tdt = Len(tx_sent) % NicRing /\ tx_hw = Len(tx_wire) % NicRing
    /\ txq \in [Slots -> TxDescriptors]
    /\ TxDone(Len(tx_sent), Len(tx_wire))

\* Only one call is between its choice and its return.  While it fills, tx_tail
\* names the first descriptor never used, and it fills that one; while it
\* waits, tx_tail is one behind.
TxBusy(w) == tx_at[w].pc # "idle"
TxCalls ==
    /\ tx_at \in [Senders -> [pc : {"idle", "fill", "wait"}, idx : Slots]]
    /\ \A v, w \in Senders : TxBusy(v) /\ TxBusy(w) => v = w
    /\ \A w \in Senders :
          /\ tx_at[w].pc = "fill" => tx_at[w].idx = Len(tx_sent) /\ Len(tx_sent) < NicRing
          /\ tx_at[w].pc = "wait" => tx_at[w].idx + 1 = Len(tx_sent) /\ tx_tail = tx_at[w].idx
    /\ (\A w \in Senders : tx_at[w].pc # "wait") => tx_tail = Len(tx_sent) % NicRing

TxInv == TxRing /\ TxCalls
TxSound == tx_clash \in BOOLEAN /\ (~tx_clash => TxInv)

\* The next frame appended to the frames 1 .. n makes 1 .. n + 1.
LEMMA NextAppended ==
  ASSUME NEW s \in Seq(Nat), s = [k \in 1 .. Len(s) |-> k], NEW n, n = Len(s) + 1
  PROVE  /\ Append(s, n) \in Seq(Nat) /\ Len(Append(s, n)) = Len(s) + 1
         /\ Append(s, n) = [k \in 1 .. Len(Append(s, n)) |-> k]
<1>1. Len(s) \in Nat /\ n \in Nat  OBVIOUS
<1>2. PICK t : t = Append(s, n)  OBVIOUS
<1>3. t \in Seq(Nat) /\ Len(t) = Len(s) + 1  BY <1>1, <1>2
<1>4. \A k \in 1 .. Len(t) : t[k] = k
  <2> SUFFICES ASSUME NEW k \in 1 .. Len(t) PROVE t[k] = k  OBVIOUS
  <2>1. CASE k <= Len(s)  BY <1>1, <1>2, <1>3, <2>1
  <2>2. CASE k = Len(s) + 1  BY <1>1, <1>2, <1>3, <2>2
  <2> QED BY <1>1, <1>3, <2>1, <2>2
<1>5. t = [k \in 1 .. Len(t) |-> t[k]]  BY <1>3
<1>6. t = [k \in 1 .. Len(t) |-> k]  BY <1>4, <1>5
<1> QED BY <1>2, <1>3, <1>6, Zenon

\* Nothing was sent at first.
LEMMA InitTx == txInit => TxSound
<1> SUFFICES ASSUME txInit PROVE TxSound  OBVIOUS
<1>1. NicRing \in Nat \ {0}  BY NetAssumption
<1>2. << >> \in Seq(Nat) /\ Len(<< >>) = 0 /\ << >> = [k \in 1 .. 0 |-> k]  OBVIOUS
<1>3. 0 % NicRing = 0 /\ 0 \in Slots  BY <1>1 DEF Slots
<1> DEFINE d == [cmd |-> FALSE, dd |-> FALSE, frame |-> 0]
<1>4. d \in TxDescriptors /\ ~d.cmd /\ ~d.dd  BY DEF TxDescriptors
<1>5. txq = [i \in Slots |-> d]  BY DEF txInit
<1> HIDE DEF d
<1>6. /\ txq \in [Slots -> TxDescriptors]
      /\ \A i \in Slots : ~txq[i].cmd /\ ~txq[i].dd /\ ~(i < 0)
  BY <1>1, <1>4, <1>5 DEF Slots
<1>7. TxDone(0, 0)  BY <1>6 DEF TxDone
<1>8. TxRing  BY <1>1, <1>2, <1>3, <1>6, <1>7 DEF txInit, TxRing
<1>9. /\ tx_at = [w \in Senders |-> [pc |-> "idle", idx |-> 0]]
      /\ tx_tail = 0 /\ Len(tx_sent) = 0 /\ tx_clash = FALSE
  BY <1>2 DEF txInit
<1>10. \A w \in Senders : tx_at[w].pc = "idle"  BY <1>9
<1>11. tx_at \in [Senders -> [pc : {"idle", "fill", "wait"}, idx : Slots]]  BY <1>3, <1>9
<1>12. TxCalls  BY <1>3, <1>9, <1>10, <1>11 DEF TxCalls, TxBusy
<1> QED BY <1>8, <1>9, <1>12 DEF TxInv, TxSound

\* The descriptor at the tail is free only while nobody waits and there is one
\* never used.
LEMMA SendBeginsStep ==
  ASSUME TxSound, NEW w \in Senders, SendBegins(w)
  PROVE  TxSound'
<1>1. /\ ~tx_clash' => ~tx_clash /\ \A o \in Senders : tx_at[o].pc # "fill"
      /\ tx_clash' \in BOOLEAN
  BY DEF SendBegins, TxSound
<1> SUFFICES ASSUME ~tx_clash' PROVE TxInv'  BY <1>1 DEF TxSound
<1> DEFINE n == Len(tx_sent)
<1>2. /\ TxRing /\ TxCalls /\ \A o \in Senders : tx_at[o].pc # "fill"
      /\ ~txq[tx_tail].cmd /\ tx_at[w].pc = "idle"
      /\ tx_at' = [tx_at EXCEPT ![w] = [pc |-> "fill", idx |-> tx_tail]]
      /\ UNCHANGED <<txq, tx_tail, tx_tdt, tx_hw, tx_wire, tx_sent>>
  BY <1>1 DEF SendBegins, TxSound, TxInv
<1>3. NicRing \in Nat \ {0} /\ n \in Nat /\ n <= NicRing /\ \A i \in Slots : txq[i].cmd <=> i < n
  BY <1>2, NetAssumption DEF TxRing, TxDone
<1>4. tx_at \in [Senders -> [pc : {"idle", "fill", "wait"}, idx : Slots]]  BY <1>2 DEF TxCalls
<1>5. \A o \in Senders : tx_at[o].pc = "idle"
  <2> SUFFICES ASSUME NEW o \in Senders, tx_at[o].pc # "idle" PROVE FALSE  OBVIOUS
  <2>1. tx_at[o].pc = "wait" /\ tx_at[o].idx \in Slots  BY <1>2, <1>4
  <2>2. tx_tail = tx_at[o].idx /\ tx_at[o].idx + 1 = n  BY <1>2, <2>1 DEF TxCalls
  <2> QED BY <1>2, <1>3, <2>1, <2>2 DEF Slots
<1>6. tx_tail = n % NicRing  BY <1>2, <1>5 DEF TxCalls
<1> HIDE DEF n
<1>7. n < NicRing /\ tx_tail = n /\ n \in Slots
  <2>1. tx_tail \in Slots  BY <1>3, <1>6, RingNext DEF Slots
  <2>2. ~(tx_tail < n)  BY <1>2, <1>3, <2>1
  <2>3. n # NicRing
    <3> SUFFICES ASSUME n = NicRing PROVE FALSE  OBVIOUS
    <3>1. tx_tail = 0  BY <1>3, <1>6, RingNext
    <3> QED BY <1>3, <2>2, <3>1
  <2>4. n < NicRing  BY <1>3, <2>3
  <2> QED BY <1>3, <1>6, <2>4, RingNext DEF Slots
<1>8. tx_at' \in [Senders -> [pc : {"idle", "fill", "wait"}, idx : Slots]]  BY <1>2, <1>4, <1>7
<1>9. /\ tx_at'[w].pc = "fill" /\ tx_at'[w].idx = n
      /\ \A o \in Senders : o # w => tx_at'[o].pc = "idle"
  BY <1>2, <1>4, <1>5, <1>7
<1>10. TxRing'  BY <1>2 DEF TxRing, TxDone
<1>11. Len(tx_sent') = n /\ tx_tail' = n % NicRing  BY <1>2, <1>6 DEF n
<1>12. TxCalls'  BY <1>7, <1>8, <1>9, <1>11 DEF TxCalls, TxBusy
<1> QED BY <1>10, <1>12 DEF TxInv

\* The frame goes into the descriptor the call chose, the first never used.
LEMMA SendFillsStep ==
  ASSUME TxSound, NEW w \in Senders, SendFills(w)
  PROVE  TxSound'
<1>1. tx_clash' = tx_clash  BY DEF SendFills
<1> SUFFICES ASSUME ~tx_clash, TxInv PROVE TxInv'  BY <1>1 DEF TxSound
<1> DEFINE n == Len(tx_sent)
<1> DEFINE m == Len(tx_wire)
<1>2. NicRing \in Nat \ {0} /\ n \in Nat /\ m \in Nat  BY NetAssumption DEF TxInv, TxRing
<1>3. /\ tx_sent \in Seq(Nat) /\ tx_sent = [k \in 1 .. n |-> k]
      /\ m <= n /\ txq \in [Slots -> TxDescriptors]
  BY DEF TxInv, TxRing
<1>4. /\ tx_at \in [Senders -> [pc : {"idle", "fill", "wait"}, idx : Slots]]
      /\ tx_at[w].pc = "fill" /\ tx_at[w].idx = n /\ n < NicRing
      /\ \A o \in Senders : o # w => tx_at[o].pc = "idle"
  BY DEF TxInv, TxCalls, TxBusy, SendFills
<1>5. /\ txq' = [txq EXCEPT ![n] = [cmd |-> TRUE, dd |-> FALSE, frame |-> n + 1]]
      /\ tx_tdt' = (n + 1) % NicRing
      /\ tx_sent' = Append(tx_sent, n + 1)
      /\ tx_at' = [tx_at EXCEPT ![w].pc = "wait"]
      /\ UNCHANGED <<tx_tail, tx_hw, tx_wire>>
  BY <1>4 DEF SendFills
<1>6. \A i \in Slots : /\ txq[i].cmd <=> i < n
                       /\ txq[i].dd <=> i < m
                       /\ i < n => txq[i].frame = i + 1
  BY DEF TxInv, TxRing, TxDone
<1>7. tx_tail = n
  <2>1. tx_tail = n % NicRing  BY <1>4 DEF TxInv, TxCalls
  <2> QED BY <1>2, <1>4, <2>1, RingNext
<1> HIDE DEF n, m
<1>8. /\ tx_sent' \in Seq(Nat) /\ Len(tx_sent') = n + 1
      /\ tx_sent' = [k \in 1 .. Len(tx_sent') |-> k]
  BY <1>3, <1>5, NextAppended DEF n
<1> DEFINE d == [cmd |-> TRUE, dd |-> FALSE, frame |-> n + 1]
<1>9. d \in TxDescriptors /\ d.cmd /\ ~d.dd /\ d.frame = n + 1  BY <1>2 DEF TxDescriptors
<1> HIDE DEF d
<1>10. txq' = [txq EXCEPT ![n] = d] /\ n \in Slots  BY <1>2, <1>4, <1>5 DEF d, Slots
<1>11. txq' \in [Slots -> TxDescriptors]  BY <1>3, <1>9, <1>10
<1>12. ASSUME NEW i \in Slots
       PROVE  /\ txq'[i].cmd <=> i < n + 1
              /\ txq'[i].dd <=> i < m
              /\ i < n + 1 => txq'[i].frame = i + 1
  <2>1. i \in Nat  BY <1>2 DEF Slots
  <2>2. CASE i = n
    <3>1. txq'[i] = d  BY <1>3, <1>10, <2>2
    <3> QED BY <1>2, <1>3, <1>9, <2>2, <3>1
  <2>3. CASE i # n
    <3>1. txq'[i] = txq[i]  BY <1>3, <1>10, <2>3
    <3> QED BY <1>2, <1>6, <2>1, <2>3, <3>1
  <2> QED BY <2>2, <2>3
<1>13. tx_wire' = tx_wire /\ tx_hw' = tx_hw /\ Len(tx_wire') = m /\ n + 1 <= NicRing /\ m <= n + 1
  BY <1>2, <1>3, <1>4, <1>5 DEF m
<1>14. TxDone(Len(tx_sent), Len(tx_wire))'  BY <1>8, <1>12, <1>13 DEF TxDone
<1>15. TxRing'  BY <1>5, <1>8, <1>11, <1>13, <1>14 DEF TxRing, TxInv
<1>16. /\ tx_at' \in [Senders -> [pc : {"idle", "fill", "wait"}, idx : Slots]]
       /\ tx_at'[w].pc = "wait" /\ tx_at'[w].idx = n
       /\ \A o \in Senders : o # w => tx_at'[o].pc = "idle"
  BY <1>4, <1>5
<1>17. tx_tail' = n  BY <1>5, <1>7
<1>18. TxCalls'  BY <1>2, <1>8, <1>16, <1>17 DEF TxCalls, TxBusy
<1> QED BY <1>15, <1>18 DEF TxInv

\* The tail follows when the wait is over.
LEMMA SendEndsStep ==
  ASSUME TxSound, NEW w \in Senders, SendEnds(w)
  PROVE  TxSound'
<1>1. tx_clash' = tx_clash  BY DEF SendEnds
<1> SUFFICES ASSUME ~tx_clash, TxInv PROVE TxInv'  BY <1>1 DEF TxSound
<1>2. /\ tx_at \in [Senders -> [pc : {"idle", "fill", "wait"}, idx : Slots]]
      /\ tx_at[w].pc = "wait" /\ tx_at[w].idx + 1 = Len(tx_sent)
      /\ \A o \in Senders : o # w => tx_at[o].pc = "idle"
  BY DEF TxInv, TxCalls, TxBusy, SendEnds
<1>3. /\ tx_at' = [tx_at EXCEPT ![w].pc = "idle"]
      /\ tx_tail' = (tx_at[w].idx + 1) % NicRing
      /\ UNCHANGED <<txq, tx_tdt, tx_hw, tx_wire, tx_sent>>
  BY DEF SendEnds
<1>4. TxRing'  BY <1>3 DEF TxInv, TxRing, TxDone
<1>5. /\ tx_at' \in [Senders -> [pc : {"idle", "fill", "wait"}, idx : Slots]]
      /\ \A o \in Senders : tx_at'[o].pc = "idle"
  BY <1>2, <1>3
<1>6. tx_tail' = Len(tx_sent') % NicRing  BY <1>2, <1>3
<1> QED BY <1>4, <1>5, <1>6 DEF TxInv, TxCalls, TxBusy

\* The card sends the frame at its head, the next one.
LEMMA CardSendsStep ==
  ASSUME TxSound, CardSends
  PROVE  TxSound'
<1>0. tx_clash' = tx_clash  BY DEF CardSends
<1> SUFFICES ASSUME ~tx_clash, TxInv PROVE TxInv'  BY <1>0 DEF TxSound
<1> DEFINE n == Len(tx_sent)
<1> DEFINE m == Len(tx_wire)
<1>1. NicRing \in Nat \ {0} /\ n \in Nat /\ m \in Nat  BY NetAssumption DEF TxInv, TxRing
<1>2. /\ tx_wire \in Seq(Nat) /\ tx_wire = [k \in 1 .. m |-> k]
      /\ tx_hw = m % NicRing /\ tx_tdt = n % NicRing /\ n <= NicRing /\ m <= n
      /\ txq \in [Slots -> TxDescriptors]
  BY DEF TxInv, TxRing
<1>4. \A i \in Slots : /\ txq[i].cmd <=> i < n
                       /\ txq[i].dd <=> i < m
                       /\ i < n => txq[i].frame = i + 1
  BY DEF TxInv, TxRing, TxDone
<1> HIDE DEF n, m
<1>5. m < n /\ tx_hw = m /\ m \in Slots
  <2>1. m # n  BY <1>2 DEF CardSends
  <2>2. m < n /\ m < NicRing  BY <1>1, <1>2, <2>1
  <2> QED BY <1>1, <1>2, <2>2, RingNext DEF Slots
<1>3. /\ tx_wire' = Append(tx_wire, txq[m].frame)
      /\ txq' = [txq EXCEPT ![m].dd = TRUE]
      /\ tx_hw' = (tx_hw + 1) % NicRing
      /\ UNCHANGED <<tx_tail, tx_tdt, tx_at, tx_sent>>
  BY <1>4, <1>5 DEF CardSends
<1>6. /\ tx_wire' \in Seq(Nat) /\ Len(tx_wire') = m + 1
      /\ tx_wire' = [k \in 1 .. Len(tx_wire') |-> k]
  <2>1. txq[m].frame = m + 1  BY <1>4, <1>5
  <2> QED BY <1>2, <1>3, <2>1, NextAppended DEF m
<1>7. tx_hw' = Len(tx_wire') % NicRing  BY <1>3, <1>5, <1>6
<1> DEFINE d == [txq[m] EXCEPT !.dd = TRUE]
<1>8. d \in TxDescriptors /\ d.cmd = txq[m].cmd /\ d.dd /\ d.frame = txq[m].frame
  <2>1. txq[m] \in TxDescriptors  BY <1>2, <1>5
  <2> QED BY <2>1 DEF TxDescriptors
<1> HIDE DEF d
<1>9. txq' = [txq EXCEPT ![m] = d]  BY <1>3 DEF d
<1>10. txq' \in [Slots -> TxDescriptors]  BY <1>2, <1>8, <1>9
<1>11. ASSUME NEW i \in Slots
       PROVE  /\ txq'[i].cmd <=> i < n
              /\ txq'[i].dd <=> i < m + 1
              /\ i < n => txq'[i].frame = i + 1
  <2>1. i \in Nat  BY <1>1 DEF Slots
  <2>2. CASE i = m
    <3>1. txq'[i] = d  BY <1>2, <1>5, <1>9, <2>2
    <3> QED BY <1>1, <1>4, <1>5, <1>8, <2>2, <3>1
  <2>3. CASE i # m
    <3>1. txq'[i] = txq[i]  BY <1>2, <1>9, <2>3
    <3> QED BY <1>1, <1>4, <2>1, <2>3, <3>1
  <2> QED BY <2>2, <2>3
<1>12. tx_sent' = tx_sent /\ tx_tdt' = tx_tdt /\ Len(tx_sent') = n /\ m + 1 <= n  BY <1>1, <1>3, <1>5 DEF n
<1>13. TxDone(Len(tx_sent), Len(tx_wire))'  BY <1>6, <1>11, <1>12 DEF TxDone
<1>14. TxRing'  BY <1>6, <1>7, <1>10, <1>12, <1>13 DEF TxRing, TxInv
<1>15. TxCalls'  BY <1>3 DEF TxInv, TxCalls, TxBusy
<1> QED BY <1>14, <1>15 DEF TxInv

\* The frames on the wire are the first of those accepted, and the others are
\* in the ring.
LEMMA TxKept == TxSound => FramesKept
<1> SUFFICES ASSUME TxRing PROVE FramesOut  BY DEF TxSound, TxInv, FramesKept
<1> DEFINE n == Len(tx_sent)
<1> DEFINE m == Len(tx_wire)
<1>1. /\ NicRing \in Nat \ {0} /\ n \in Nat /\ m \in Nat /\ m <= n /\ n <= NicRing
      /\ tx_sent = [k \in 1 .. n |-> k] /\ tx_wire = [k \in 1 .. m |-> k]
      /\ tx_sent \in Seq(Nat) /\ tx_wire \in Seq(Nat)
  BY NetAssumption DEF TxRing
<1>2. IsPrefix(tx_wire, tx_sent)
  <2>1. SubSeq(tx_sent, 1, m) = [k \in 1 .. m |-> k]  BY <1>1
  <2>2. SubSeq(tx_wire, 1, m) = [k \in 1 .. m |-> k]  BY <1>1
  <2> QED BY <1>1, <2>1, <2>2 DEF IsPrefix
<1>3. ASSUME NEW k \in m + 1 .. n
      PROVE  \E i \in Slots : txq[i].frame = tx_sent[k] /\ txq[i].cmd /\ ~txq[i].dd
  <2>1. k - 1 \in Slots /\ k - 1 < n /\ ~(k - 1 < m) /\ k \in 1 .. n  BY <1>1 DEF Slots
  <2>2. txq[k - 1].frame = (k - 1) + 1 /\ txq[k - 1].cmd /\ ~txq[k - 1].dd  BY <2>1 DEF TxRing, TxDone
  <2>3. tx_sent[k] = k  BY <1>1, <2>1
  <2> QED BY <2>1, <2>2, <2>3
<1> QED BY <1>2, <1>3 DEF FramesOut

\* The receive ring.  Frame k lies in descriptor k - 1 counted round the
\* ring from the time it came until it is read; the other descriptors are
\* empty.  The tail register keeps the card one place behind the reader at
\* first and two places once a frame was read.
RxInv ==
    /\ rx_got \in Seq(Nat) /\ rx_got = [k \in 1 .. Len(rx_got) |-> k]
    /\ rx_came \in Nat /\ Len(rx_got) <= rx_came
    /\ rx_cur = Len(rx_got) % NicRing /\ rx_rdh = rx_came % NicRing
    /\ \/ Len(rx_got) = 0 /\ rx_rdt = NicRing - 1 /\ rx_came <= NicRing - 1
       \/ /\ Len(rx_got) > 0 /\ rx_rdt = (Len(rx_got) + NicRing - 2) % NicRing
          /\ rx_came <= Len(rx_got) + NicRing - 2
    /\ rxq \in [Slots -> Nat]
    /\ \A k \in Len(rx_got) + 1 .. rx_came : rxq[(k - 1) % NicRing] = k
    /\ \A k \in rx_came + 1 .. Len(rx_got) + NicRing : rxq[(k - 1) % NicRing] = 0

\* Every place is the card's at first.
LEMMA InitRx == rxInit => RxInv
<1> SUFFICES ASSUME rxInit PROVE RxInv  OBVIOUS
<1>1. NicRing \in Nat \ {0}  BY NetAssumption
<1>2. /\ rxq = [i \in Slots |-> 0] /\ rx_cur = 0 /\ rx_rdt = NicRing - 1 /\ rx_rdh = 0 /\ rx_came = 0
      /\ rx_got = << >>
  BY DEF rxInit
<1>3. << >> \in Seq(Nat) /\ Len(<< >>) = 0 /\ << >> = [k \in 1 .. 0 |-> k]  OBVIOUS
<1>4. 0 % NicRing = 0 /\ rx_came <= NicRing - 1  BY <1>1, <1>2, RingNext
<1>5. \A k \in 1 .. NicRing : (k - 1) % NicRing \in Slots
  <2> SUFFICES ASSUME NEW k \in 1 .. NicRing PROVE (k - 1) % NicRing \in Slots  OBVIOUS
  <2>1. PICK j \in Nat : j = k - 1  BY <1>1
  <2> QED BY <1>1, <2>1, RingNext DEF Slots
<1>6. \A k \in 1 .. NicRing : rxq[(k - 1) % NicRing] = 0  BY <1>2, <1>5
<1>7. rxq \in [Slots -> Nat]  BY <1>2
<1>8. Len(rx_got) = 0 /\ rx_got \in Seq(Nat) /\ rx_got = [k \in 1 .. Len(rx_got) |-> k]  BY <1>2, <1>3
<1>9. \A k \in Len(rx_got) + 1 .. rx_came : rxq[(k - 1) % NicRing] = k  BY <1>2, <1>8
<1>10. \A k \in rx_came + 1 .. Len(rx_got) + NicRing : rxq[(k - 1) % NicRing] = 0  BY <1>1, <1>2, <1>6, <1>8
<1> QED BY <1>1, <1>2, <1>4, <1>7, <1>8, <1>9, <1>10 DEF RxInv

\* The card fills the place after the last one it filled.
LEMMA CardReceivesStep == RxInv /\ CardReceives => RxInv'
<1> SUFFICES ASSUME RxInv, CardReceives PROVE RxInv'  OBVIOUS
<1> DEFINE R == NicRing
<1> DEFINE g == Len(rx_got)
<1> DEFINE c == rx_came
<1>1. R \in Nat \ {0} /\ g \in Nat /\ c \in Nat /\ g <= c  BY NetAssumption DEF RxInv
<1>2. /\ rx_rdh = c % R /\ rxq \in [Slots -> Nat]
      /\ \/ g = 0 /\ rx_rdt = R - 1 /\ c <= R - 1
         \/ g > 0 /\ rx_rdt = (g + R - 2) % R /\ c <= g + R - 2
      /\ \A k \in g + 1 .. c : rxq[(k - 1) % R] = k
      /\ \A k \in c + 1 .. g + R : rxq[(k - 1) % R] = 0
  BY DEF RxInv
<1>3. /\ rx_rdh # rx_rdt
      /\ rxq' = [rxq EXCEPT ![rx_rdh] = c + 1]
      /\ rx_rdh' = (rx_rdh + 1) % R
      /\ rx_came' = c + 1
      /\ UNCHANGED <<rx_cur, rx_rdt, rx_got>>
  BY DEF CardReceives
<1>a. rx_came' = rx_came + 1 /\ rx_got' = rx_got  BY <1>3
<1> HIDE DEF R, g, c
<1>4. \/ g = 0 /\ c + 1 <= R - 1
      \/ g > 0 /\ c + 1 <= g + R - 2
  <2>1. CASE g = 0
    <3>1. c # R - 1
      <4> SUFFICES ASSUME c = R - 1 PROVE FALSE  OBVIOUS
      <4>1. c % R = c
        <5>1. c < R  BY <1>1
        <5> QED BY <1>1, <5>1, RingNext
      <4> QED BY <1>1, <1>2, <1>3, <2>1, <4>1
    <3> QED BY <1>1, <1>2, <2>1, <3>1
  <2>2. CASE g > 0
    <3>1. c # g + R - 2  BY <1>1, <1>2, <1>3, <2>2
    <3> QED BY <1>1, <1>2, <2>2, <3>1
  <2> QED BY <1>1, <2>1, <2>2
<1>5. rx_rdh \in Slots /\ rx_rdh' = (c + 1) % R  BY <1>1, <1>2, <1>3, RingNext DEF Slots, R
<1>6. rxq' \in [Slots -> Nat]
  <2>1. PICK v \in Nat : v = c + 1  BY <1>1
  <2>2. rxq' = [rxq EXCEPT ![rx_rdh] = v]  BY <1>3, <2>1
  <2>3. rxq \in [Slots -> Nat]  BY <1>2
  <2> QED BY <2>2, <2>3
<1>7. ASSUME NEW k \in g + 1 .. c + 1 PROVE rxq'[(k - 1) % R] = k
  <2>1. PICK j \in Nat : j = k - 1  BY <1>1
  <2>2. CASE k = c + 1  BY <1>1, <1>2, <1>3, <1>5, <2>1, <2>2
  <2>3. CASE k # c + 1
    <3>1. j < c /\ c < j + R /\ k \in g + 1 .. c  BY <1>1, <1>4, <2>1, <2>3
    <3>2. j % R # c % R  BY <1>1, <3>1, RingApart
    <3>3. j % R \in Slots  BY <1>1, RingNext DEF Slots, R
    <3> QED BY <1>1, <1>2, <1>3, <2>1, <3>1, <3>2, <3>3
  <2> QED BY <2>2, <2>3
<1>8. ASSUME NEW k \in c + 2 .. g + R PROVE rxq'[(k - 1) % R] = 0
  <2>1. PICK j \in Nat : j = k - 1  BY <1>1
  <2>2. c < j /\ j < c + R /\ k \in c + 1 .. g + R  BY <1>1, <1>4, <2>1
  <2>3. j % R # c % R  BY <1>1, <2>2, RingApart
  <2>4. j % R \in Slots  BY <1>1, RingNext DEF Slots, R
  <2> QED BY <1>1, <1>2, <1>3, <2>1, <2>2, <2>3, <2>4
<1>9. /\ rx_got \in Seq(Nat) /\ rx_got = [k \in 1 .. g |-> k] /\ rx_cur = g % R  BY DEF RxInv, R, g
<1>10. Len(rx_got') = g /\ rx_came' = c + 1  BY <1>3 DEF g
<1>11. \A k \in Len(rx_got') + 1 .. rx_came' : rxq'[(k - 1) % R] = k  BY <1>1, <1>7, <1>10
<1>12. \A k \in rx_came' + 1 .. Len(rx_got') + R : rxq'[(k - 1) % R] = 0
  <2>1. rx_came' + 1 = c + 2  BY <1>1, <1>10
  <2> QED BY <1>1, <1>8, <1>10, <2>1
<1>13. \/ Len(rx_got') = 0 /\ rx_rdt' = R - 1 /\ rx_came' <= R - 1
       \/ Len(rx_got') > 0 /\ rx_rdt' = (Len(rx_got') + R - 2) % R /\ rx_came' <= Len(rx_got') + R - 2
  <2>1. rx_rdt' = rx_rdt  BY <1>3
  <2> QED BY <1>1, <1>2, <1>4, <1>10, <2>1
<1>14. /\ rx_got' \in Seq(Nat) /\ rx_got' = [k \in 1 .. Len(rx_got') |-> k] /\ rx_cur' = Len(rx_got') % R
       /\ rx_came' \in Nat /\ Len(rx_got') <= rx_came' /\ rx_rdh' = rx_came' % R
  BY <1>1, <1>3, <1>5, <1>9, <1>10
<1> QED BY <1>6, <1>11, <1>12, <1>13, <1>14 DEF RxInv, R

\* The driver takes the frame after the last one it took.
LEMMA PollStep == RxInv /\ e1000_poll => RxInv'
<1> SUFFICES ASSUME RxInv, e1000_poll PROVE RxInv'  OBVIOUS
<1> DEFINE R == NicRing
<1> DEFINE g == Len(rx_got)
<1> DEFINE c == rx_came
<1>1. R \in Nat \ {0} /\ g \in Nat /\ c \in Nat /\ g <= c  BY NetAssumption DEF RxInv
<1>2. /\ rx_got \in Seq(Nat) /\ rx_got = [k \in 1 .. Len(rx_got) |-> k]
      /\ rx_cur = g % R /\ rx_rdh = c % R /\ rxq \in [Slots -> Nat]
      /\ c <= g + R - 1
      /\ \A k \in g + 1 .. c : rxq[(k - 1) % R] = k
      /\ \A k \in c + 1 .. g + R : rxq[(k - 1) % R] = 0
  BY <1>1 DEF RxInv
<1>3. /\ rxq[rx_cur] # 0
      /\ rx_got' = Append(rx_got, rxq[rx_cur])
      /\ rxq' = [rxq EXCEPT ![rx_cur] = 0]
      /\ rx_rdt' = (rx_cur + R - 1) % R
      /\ rx_cur' = (rx_cur + 1) % R
      /\ UNCHANGED <<rx_rdh, rx_came>>
  BY DEF e1000_poll
<1> HIDE DEF R, g, c
<1>4. g < c /\ rxq[rx_cur] = g + 1
  <2>1. PICK k \in Nat : k = g + 1  BY <1>1
  <2>2. (k - 1) % R = rx_cur
    <3>1. k - 1 = g  BY <1>1, <2>1
    <3> QED BY <1>2, <3>1
  <2>3. g # c
    <3> SUFFICES ASSUME g = c PROVE FALSE  OBVIOUS
    <3>1. k \in c + 1 .. g + R  BY <1>1, <2>1
    <3> QED BY <1>2, <1>3, <2>2, <3>1
  <2>4. k \in g + 1 .. c  BY <1>1, <2>1, <2>3
  <2> QED BY <1>1, <1>2, <2>1, <2>2, <2>3, <2>4
<1>5. /\ rx_got' \in Seq(Nat) /\ Len(rx_got') = g + 1
      /\ rx_got' = [k \in 1 .. Len(rx_got') |-> k]
  BY <1>2, <1>3, <1>4, NextAppended DEF g
<1>6. rx_cur \in Slots /\ rx_cur' = (g + 1) % R  BY <1>1, <1>2, <1>3, RingNext DEF Slots, R
<1>7. rx_rdt' = (g + R - 1) % R
  <2>1. PICK b \in Nat : b = R - 1  BY <1>1
  <2>2. ((g % R) + b) % R = (g + b) % R  BY <1>1, RingAdd
  <2>3. rx_cur + R - 1 = (g % R) + b /\ g + R - 1 = g + b
    <3>1. g % R \in Nat  BY <1>1, RingNext
    <3> QED BY <1>1, <1>2, <2>1, <3>1
  <2> QED BY <1>3, <2>2, <2>3
<1>8. rxq' \in [Slots -> Nat]  BY <1>2, <1>3
<1>9. ASSUME NEW k \in g + 2 .. c PROVE rxq'[(k - 1) % R] = k
  <2>1. PICK j \in Nat : j = k - 1  BY <1>1
  <2>2. g < j /\ j < g + R /\ k \in g + 1 .. c  BY <1>1, <1>2, <2>1
  <2>3. j % R # g % R  BY <1>1, <2>2, RingApart
  <2>4. j % R \in Slots  BY <1>1, RingNext DEF Slots, R
  <2> QED BY <1>1, <1>2, <1>3, <2>1, <2>2, <2>3, <2>4
<1>10. ASSUME NEW k \in c + 1 .. g + 1 + R PROVE rxq'[(k - 1) % R] = 0
  <2>1. PICK j \in Nat : j = k - 1  BY <1>1
  <2>2. CASE k = g + 1 + R
    <3>1. j = g + R  BY <1>1, <2>1, <2>2
    <3>2. PICK z \in Nat : z = R  BY <1>1
    <3>3. j % R = g % R
      <4>1. ((z % R) + g) % R = (z + g) % R  BY <1>1, RingAdd
      <4>2. z % R = 0  BY <1>1, <3>2, RingNext
      <4>3. (z % R) + g = g /\ z + g = j  BY <1>1, <3>1, <3>2, <4>2
      <4> QED BY <4>1, <4>3
    <3> QED BY <1>2, <1>3, <1>6, <2>1, <3>3
  <2>3. CASE k # g + 1 + R
    <3>1. g < j /\ j < g + R /\ k \in c + 1 .. g + R  BY <1>1, <1>4, <2>1, <2>3
    <3>2. j % R # g % R  BY <1>1, <3>1, RingApart
    <3>3. j % R \in Slots  BY <1>1, RingNext DEF Slots, R
    <3> QED BY <1>1, <1>2, <1>3, <2>1, <3>1, <3>2, <3>3
  <2> QED BY <2>2, <2>3
<1>11. rx_came' = c /\ rx_rdh' = rx_rdh  BY <1>3 DEF c
<1>12. \A k \in Len(rx_got') + 1 .. rx_came' : rxq'[(k - 1) % R] = k
  <2>1. Len(rx_got') + 1 = g + 2  BY <1>1, <1>5
  <2> QED BY <1>9, <1>11, <2>1
<1>13. \A k \in rx_came' + 1 .. Len(rx_got') + R : rxq'[(k - 1) % R] = 0  BY <1>5, <1>10, <1>11
<1>14. Len(rx_got') > 0 /\ rx_rdt' = (Len(rx_got') + R - 2) % R /\ rx_came' <= Len(rx_got') + R - 2
  <2>1. Len(rx_got') + R - 2 = g + R - 1  BY <1>1, <1>5
  <2> QED BY <1>1, <1>2, <1>5, <1>7, <1>11, <2>1
<1>15. /\ rx_cur' = Len(rx_got') % R
       /\ rx_came' \in Nat /\ Len(rx_got') <= rx_came' /\ rx_rdh' = rx_came' % R
  BY <1>1, <1>2, <1>4, <1>5, <1>6, <1>11
<1> QED BY <1>5, <1>8, <1>12, <1>13, <1>14, <1>15 DEF RxInv, R

\* The frames that wait begin at the reader's descriptor.
LEMMA RxAll == RxInv => ReceivedAll
<1> SUFFICES ASSUME RxInv PROVE ReceivedAll  OBVIOUS
<1> DEFINE R == NicRing
<1> DEFINE g == Len(rx_got)
<1>1. R \in Nat \ {0} /\ g \in Nat /\ rx_came \in Nat /\ rx_cur = g % R  BY NetAssumption DEF RxInv
<1> HIDE DEF R, g
<1>2. ASSUME NEW k \in g + 1 .. rx_came PROVE rxq[(rx_cur + k - g - 1) % R] = k
  <2>1. PICK b \in Nat : b = k - g - 1  BY <1>1
  <2>2. ((g % R) + b) % R = (g + b) % R  BY <1>1, RingAdd
  <2>3. rx_cur + k - g - 1 = (g % R) + b /\ g + b = k - 1
    <3>1. g % R \in Nat  BY <1>1, RingNext
    <3> QED BY <1>1, <2>1, <3>1
  <2>4. rxq[(k - 1) % R] = k  BY DEF RxInv, R, g
  <2> QED BY <2>2, <2>3, <2>4
<1> QED BY <1>2 DEF ReceivedAll, RxInv, R, g

------------------------------
(* ARP and UDP (kernel/net/net.c).                                         *)

\* The ARP cache: a host has one entry at most, with the address it gave
\* last.
ArpEntries == [used : BOOLEAN, ip : ArpHosts \cup {0}, mac : ArpMacs \cup {0}]
ArpPlaces == 0 .. ArpCache - 1

ArpInv ==
    /\ arp_count_ev \in Nat
    /\ arp_cache \in [ArpPlaces -> ArpEntries]
    /\ arp_last \in [ArpHosts -> ArpMacs \cup {0}]
    /\ \A i, j \in ArpPlaces :
          arp_cache[i].used /\ arp_cache[j].used /\ arp_cache[i].ip = arp_cache[j].ip => i = j
    /\ \A i \in ArpPlaces :
          arp_cache[i].used => arp_cache[i].ip \in ArpHosts /\ arp_cache[i].mac = arp_last[arp_cache[i].ip]

\* A set of numbers that is not empty has a least one: where the code
\* takes the first slot of several, there is a first one.
LEMMA LeastThere ==
  ASSUME NEW S, S \subseteq Nat, S # {}
  PROVE  Min(S) \in S
<1>1. PICK x \in S : \A y \in S : ~(<<y, x>> \in OpToRel(<, Nat))  BY NatLessThanWellFounded, WFMin
<1>2. \A y \in S : x <= y
  <2> SUFFICES ASSUME NEW y \in S PROVE x <= y  OBVIOUS
  <2>1. ~(y < x)  BY <1>1 DEF OpToRel
  <2> QED BY <2>1
<1>3. \E z \in S : \A y \in S : z <= y  BY <1>2
<1> QED BY <1>3 DEF Min

\* The cache is empty at first.
LEMMA InitArp == arpInit => ArpInv
<1> SUFFICES ASSUME arpInit PROVE ArpInv  OBVIOUS
<1>1. NoArp \in ArpEntries /\ ~NoArp.used  BY DEF NoArp, ArpEntries
<1>2. arp_cache = [i \in ArpPlaces |-> NoArp] /\ arp_count_ev = 0 /\ arp_last = [h \in ArpHosts |-> 0]
  BY DEF arpInit, ArpPlaces
<1>3. \A i \in ArpPlaces : ~arp_cache[i].used  BY <1>1, <1>2
<1>4. arp_cache \in [ArpPlaces -> ArpEntries]  BY <1>1, <1>2
<1> QED BY <1>2, <1>3, <1>4 DEF ArpInv

\* Where a host is looked up is its one entry.
LEMMA ArpFound ==
  ASSUME ArpInv, NEW ip \in ArpHosts, arp_at(ip) # {}
  PROVE  /\ Min(arp_at(ip)) \in ArpPlaces
         /\ arp_cache[Min(arp_at(ip))].used /\ arp_cache[Min(arp_at(ip))].ip = ip
<1>1. PICK i \in DOMAIN arp_cache : arp_cache[i].used /\ arp_cache[i].ip = ip  BY DEF arp_at
<1>2. DOMAIN arp_cache = ArpPlaces  BY DEF ArpInv
<1>3. \A j \in arp_at(ip) : j = i  BY <1>1, <1>2 DEF arp_at, ArpInv
<1>4. arp_at(ip) = {i}  BY <1>1, <1>3 DEF arp_at
<1>5. i \in Int  BY <1>1, <1>2 DEF ArpPlaces
<1>6. Min({i}) = i  BY <1>5 DEF Min
<1> QED BY <1>1, <1>2, <1>4, <1>6

\* A host that is heard again keeps its entry.
LEMMA ArpStep == ArpInv /\ arpNext => ArpInv'
<1> SUFFICES ASSUME ArpInv, arpNext PROVE ArpInv'  OBVIOUS
<1>1. PICK ip \in ArpHosts, mac \in ArpMacs : arp_handle(ip, mac)  BY DEF arpNext
<1>2. /\ arp_count_ev \in Nat /\ arp_cache \in [ArpPlaces -> ArpEntries]
      /\ arp_last \in [ArpHosts -> ArpMacs \cup {0}]
      /\ arp_last' = [arp_last EXCEPT ![ip] = mac]
      /\ arp_add(ip, mac)
  BY <1>1 DEF ArpInv, arp_handle
<1>3. PICK p \in ArpPlaces, d \in ArpEntries :
          /\ arp_cache' = [arp_cache EXCEPT ![p] = d]
          /\ d.used /\ d.ip = ip /\ d.mac = mac
          /\ \A i \in ArpPlaces : arp_cache[i].used /\ arp_cache[i].ip = ip => i = p
          /\ arp_count_ev' \in Nat
  <2>1. CASE arp_at(ip) # {}
    <3>1. PICK p : p = Min(arp_at(ip))  OBVIOUS
    <3>2. p \in ArpPlaces /\ arp_cache[p].used /\ arp_cache[p].ip = ip  BY <2>1, <3>1, ArpFound
    <3>3. arp_cache' = [arp_cache EXCEPT ![p].mac = mac] /\ arp_count_ev' = arp_count_ev
      BY <1>2, <2>1, <3>1 DEF arp_add
    <3> DEFINE d == [arp_cache[p] EXCEPT !.mac = mac]
    <3>4. d \in ArpEntries /\ d.used /\ d.ip = ip /\ d.mac = mac
      <4>1. arp_cache[p] \in ArpEntries  BY <1>2, <3>2
      <4> QED BY <3>2, <4>1 DEF ArpEntries
    <3>5. arp_cache' = [arp_cache EXCEPT ![p] = d]  BY <3>3
    <3> HIDE DEF d
    <3>6. \A i \in ArpPlaces : arp_cache[i].used /\ arp_cache[i].ip = ip => i = p  BY <3>2 DEF ArpInv
    <3> QED BY <1>2, <3>2, <3>3, <3>4, <3>5, <3>6
  <2>2. CASE arp_at(ip) = {}
    <3> DEFINE d == [used |-> TRUE, ip |-> ip, mac |-> mac]
    <3>1. PICK p : p = arp_count_ev % ArpCache  OBVIOUS
    <3>2. p \in ArpPlaces
      <4>1. ArpCache \in Nat \ {0}  BY NetAssumption
      <4> QED BY <1>2, <3>1, <4>1, RingNext DEF ArpPlaces
    <3>3. arp_cache' = [arp_cache EXCEPT ![p] = d] /\ arp_count_ev' = arp_count_ev + 1
      BY <1>2, <2>2, <3>1 DEF arp_add
    <3>4. d \in ArpEntries /\ d.used /\ d.ip = ip /\ d.mac = mac  BY DEF ArpEntries
    <3> HIDE DEF d
    <3>5. \A i \in ArpPlaces : ~(arp_cache[i].used /\ arp_cache[i].ip = ip)  BY <1>2, <2>2 DEF arp_at
    <3>6. \A i \in ArpPlaces : arp_cache[i].used /\ arp_cache[i].ip = ip => i = p  BY <3>5
    <3>7. arp_count_ev' \in Nat  BY <1>2, <3>3
    <3> QED BY <3>2, <3>3, <3>4, <3>6, <3>7
  <2> QED BY <2>1, <2>2
<1>4. arp_cache' \in [ArpPlaces -> ArpEntries] /\ arp_last' \in [ArpHosts -> ArpMacs \cup {0}]  BY <1>2, <1>3
<1>5. ASSUME NEW i \in ArpPlaces
      PROVE  /\ i = p => arp_cache'[i] = d
             /\ i # p => arp_cache'[i] = arp_cache[i]
  BY <1>2, <1>3
<1>6. ASSUME NEW i \in ArpPlaces, NEW j \in ArpPlaces,
             arp_cache'[i].used, arp_cache'[j].used, arp_cache'[i].ip = arp_cache'[j].ip
      PROVE  i = j
  BY <1>3, <1>5, <1>6 DEF ArpInv
<1>7. ASSUME NEW i \in ArpPlaces, arp_cache'[i].used
      PROVE  arp_cache'[i].ip \in ArpHosts /\ arp_cache'[i].mac = arp_last'[arp_cache'[i].ip]
  <2>1. CASE i = p  BY <1>2, <1>3, <1>5, <2>1
  <2>2. CASE i # p
    <3>1. arp_cache'[i] = arp_cache[i]  BY <1>5, <2>2
    <3>2. arp_cache[i].used /\ arp_cache[i].ip # ip  BY <1>3, <1>7, <2>2, <3>1
    <3>3. arp_cache[i].ip \in ArpHosts /\ arp_cache[i].mac = arp_last[arp_cache[i].ip]  BY <3>2 DEF ArpInv
    <3> QED BY <1>2, <3>1, <3>2, <3>3
  <2> QED BY <2>1, <2>2
<1> QED BY <1>3, <1>4, <1>6, <1>7 DEF ArpInv

\* An entry that is there is the last one that was heard.
LEMMA ArpIsCurrent == ArpInv => ArpCurrent
<1> SUFFICES ASSUME ArpInv, NEW ip \in ArpHosts PROVE arp_lookup(ip) \in {0, arp_last[ip]}  BY DEF ArpCurrent
<1>1. CASE arp_at(ip) = {}  BY <1>1 DEF arp_lookup
<1>2. CASE arp_at(ip) # {}
  <2>1. PICK p : p = Min(arp_at(ip))  OBVIOUS
  <2>2. p \in ArpPlaces /\ arp_cache[p].used /\ arp_cache[p].ip = ip  BY <1>2, <2>1, ArpFound
  <2>3. arp_cache[p].mac = arp_last[ip]  BY <2>2 DEF ArpInv
  <2> QED BY <1>2, <2>1, <2>3 DEF arp_lookup
<1> QED BY <1>1, <1>2

\* UDP sockets.
UdpSockets == [lport : UdpPorts, data : UdpData \cup {0}, peer : ArpHosts \cup {0}]

UdpInv ==
    /\ udp_socks \in Seq(UdpSockets)
    /\ PeerReached

\* No socket at first.
LEMMA InitUdp == udpInit => UdpInv
<1>1. << >> \in Seq(UdpSockets) /\ DOMAIN << >> = {}  OBVIOUS
<1> QED BY <1>1 DEF udpInit, UdpInv, PeerReached

\* A peer is written down once its host is known.
LEMMA UdpStep == UdpInv /\ udpNext => UdpInv'
<1> SUFFICES ASSUME UdpInv, udpNext PROVE UdpInv'  OBVIOUS
<1>1. udp_socks \in Seq(UdpSockets) /\ DOMAIN udp_socks = 1 .. Len(udp_socks) /\ Len(udp_socks) \in Nat
  BY DEF UdpInv
<1>2. \A i \in DOMAIN udp_socks : udp_socks[i] \in UdpSockets /\ udp_socks[i].peer \in {0} \cup udp_known
  BY <1>1 DEF UdpInv, PeerReached
<1>3. ASSUME NEW q \in UdpPorts, udp_sock_open(q) PROVE UdpInv'
  <2> DEFINE d == [lport |-> q, data |-> 0, peer |-> 0]
  <2>1. d \in UdpSockets /\ d.peer = 0  BY DEF UdpSockets
  <2>2. udp_socks' = Append(udp_socks, d) /\ udp_known' = udp_known  BY <1>3 DEF udp_sock_open
  <2> HIDE DEF d
  <2>3. udp_socks' \in Seq(UdpSockets) /\ Len(udp_socks') = Len(udp_socks) + 1  BY <1>1, <2>1, <2>2
  <2>4. ASSUME NEW i \in DOMAIN udp_socks' PROVE udp_socks'[i].peer \in {0} \cup udp_known
    <3>1. CASE i = Len(udp_socks) + 1  BY <1>1, <2>1, <2>2, <2>3, <3>1
    <3>2. CASE i \in DOMAIN udp_socks  BY <1>1, <1>2, <2>1, <2>2, <2>3, <3>2
    <3> QED BY <1>1, <2>3, <3>1, <3>2
  <2> QED BY <2>2, <2>3, <2>4 DEF UdpInv, PeerReached
<1>4. ASSUME NEW s \in DOMAIN udp_socks, NEW d \in UdpSockets, d.peer \in {0} \cup udp_known,
             udp_socks' = [udp_socks EXCEPT ![s] = d], udp_known' = udp_known
      PROVE  UdpInv'
  <2>1. udp_socks' \in Seq(UdpSockets) /\ Len(udp_socks') = Len(udp_socks)  BY <1>1, <1>4
  <2>2. ASSUME NEW i \in DOMAIN udp_socks' PROVE udp_socks'[i].peer \in {0} \cup udp_known
    BY <1>1, <1>2, <1>4, <2>1
  <2> QED BY <1>4, <2>1, <2>2 DEF UdpInv, PeerReached
<1>5. ASSUME NEW q \in UdpPorts, NEW v \in UdpData, UdpInput(q, v) PROVE UdpInv'
  <2> DEFINE at == {i \in DOMAIN udp_socks : udp_socks[i].lport = q}
  <2>1. at # {} /\ udp_socks' = [udp_socks EXCEPT ![Min(at)].data = v] /\ udp_known' = udp_known
    BY <1>5 DEF UdpInput
  <2>2. PICK s : s = Min(at)  OBVIOUS
  <2>3. s \in DOMAIN udp_socks
    <3>1. at \subseteq Nat /\ at # {}  BY <1>1, <2>1
    <3> QED BY <2>2, <3>1, LeastThere
  <2> DEFINE d == [udp_socks[s] EXCEPT !.data = v]
  <2>4. d \in UdpSockets /\ d.peer = udp_socks[s].peer
    <3>1. udp_socks[s] \in UdpSockets  BY <1>2, <2>3
    <3> QED BY <3>1 DEF UdpSockets
  <2>5. udp_socks' = [udp_socks EXCEPT ![s] = d]  BY <2>1, <2>2
  <2> HIDE DEF d
  <2> QED BY <1>2, <1>4, <2>1, <2>3, <2>4, <2>5
<1>6. ASSUME NEW ip \in ArpHosts, HostKnown(ip) PROVE UdpInv'
  BY <1>1, <1>2, <1>6 DEF HostKnown, UdpInv, PeerReached
<1>7. ASSUME NEW ip \in ArpHosts, NEW s \in DOMAIN udp_socks, udp_sock_send(s, ip) PROVE UdpInv'
  <2>1. CASE ip \in udp_known
    <3>1. udp_socks' = [udp_socks EXCEPT ![s].peer = ip] /\ udp_known' = udp_known
      BY <1>7, <2>1 DEF udp_sock_send
    <3> DEFINE d == [udp_socks[s] EXCEPT !.peer = ip]
    <3>2. d \in UdpSockets /\ d.peer = ip
      <4>1. udp_socks[s] \in UdpSockets  BY <1>2
      <4> QED BY <4>1 DEF UdpSockets
    <3>3. udp_socks' = [udp_socks EXCEPT ![s] = d]  BY <3>1
    <3> HIDE DEF d
    <3> QED BY <1>4, <2>1, <3>1, <3>2, <3>3
  <2>2. CASE ip \notin udp_known  BY <1>7, <2>2 DEF udp_sock_send, UdpInv, PeerReached
  <2> QED BY <2>1, <2>2
<1> QED BY <1>3, <1>5, <1>6, <1>7 DEF udpNext

------------------------------
(* The network as a whole.                                                 *)

NetIInv == TcpIInv /\ TxSound /\ RxInv /\ ArpInv /\ UdpInv

\* Among the other parts of the kernel: TCP keeps what must be
\* repeated, reads in order and invents nothing, the rings of the card
\* lose no frame, ARP has the last address of a host, and a socket's peer
\* is one that can be reached (tcp.c tcp_input, tcp_send_seg_at; e1000.c
\* e1000_send, e1000_poll; net.c arp_add, udp_sock_send).
THEOREM NetworkIsSound == PartsSpec => []NetworkSound
<1>1. PartsInit => NetIInv  BY InitTcpIInv, InitTx, InitRx, InitArp, InitUdp DEF PartsInit, NetIInv
<1>2. NetIInv /\ [PartsNext]_allVars => NetIInv'
  <2> SUFFICES ASSUME NetIInv, [PartsNext]_allVars PROVE NetIInv'  OBVIOUS
  <2>1. TcpIInv'
    <3>1. [TcpNext]_tcpVars  BY DEF PartsNext, allVars, tcpVars
    <3> QED BY <3>1, TcpIInvStep DEF NetIInv
  <2>2. TxSound'
    <3>1. txNext \/ UNCHANGED txVars  BY DEF PartsNext, allVars, txVars
    <3>2. CASE txNext
      BY <3>2, SendBeginsStep, SendFillsStep, SendEndsStep, CardSendsStep DEF txNext, e1000_send, NetIInv
    <3>3. CASE UNCHANGED txVars  BY <3>3 DEF txVars, NetIInv, TxSound, TxInv, TxRing, TxDone, TxCalls, TxBusy
    <3> QED BY <3>1, <3>2, <3>3
  <2>3. RxInv'
    <3>1. rxNext \/ UNCHANGED rxVars  BY DEF PartsNext, allVars, rxVars
    <3>2. CASE rxNext  BY <3>2, CardReceivesStep, PollStep DEF rxNext, NetIInv
    <3>3. CASE UNCHANGED rxVars  BY <3>3 DEF rxVars, NetIInv, RxInv
    <3> QED BY <3>1, <3>2, <3>3
  <2>4. ArpInv'
    <3>1. arpNext \/ UNCHANGED arpVars  BY DEF PartsNext, allVars, arpVars
    <3>2. CASE UNCHANGED arpVars  BY <3>2 DEF arpVars, NetIInv, ArpInv
    <3> QED BY <3>1, <3>2, ArpStep DEF NetIInv
  <2>5. UdpInv'
    <3>1. udpNext \/ UNCHANGED udpVars  BY DEF PartsNext, allVars, udpVars
    <3>2. CASE UNCHANGED udpVars  BY <3>2 DEF udpVars, NetIInv, UdpInv, PeerReached
    <3> QED BY <3>1, <3>2, UdpStep DEF NetIInv
  <2> QED BY <2>1, <2>2, <2>3, <2>4, <2>5 DEF NetIInv
<1>3. NetIInv => NetworkSound  BY TxKept, RxAll, ArpIsCurrent DEF NetIInv, TcpIInv, UdpInv, NetworkSound
<1> QED BY <1>1, <1>2, <1>3, PTL DEF PartsSpec

------------------------------
\* Starting up: until a sector could not be read, a head that held a file
\* system at power on still does.
Disks == {"nvme", "virtio"}
Heads == {"blank", "gpt", "dfs", "dfs of now"}
DiskStates == [present : BOOLEAN, head : Heads, part : {"blank", "dfs"}, last : {"blank", "test"}]

BlkInv ==
    /\ blk_devs \in [Disks -> DiskStates]
    /\ blk_was \in [Disks -> Heads]
    /\ RootKept

\* No head holds a file system before power on.
LEMMA InitBlk == blkInit => BlkInv
<1> SUFFICES ASSUME blkInit PROVE BlkInv  OBVIOUS
<1>1. NoDisk \in DiskStates  BY DEF NoDisk, DiskStates, Heads
<1>2. blk_devs = [d \in Disks |-> NoDisk] /\ blk_was = [d \in Disks |-> "blank"]  BY DEF blkInit, Disks
<1>3. blk_devs \in [Disks -> DiskStates] /\ blk_was \in [Disks -> Heads]  BY <1>1, <1>2 DEF Heads
<1>4. DOMAIN blk_devs = Disks /\ \A d \in Disks : blk_was[d] # "dfs"  BY <1>2
<1> QED BY <1>3, <1>4 DEF BlkInv, RootKept

\* A disk whose head stays as it was keeps the invariant.
LEMMA HeadsKept ==
  ASSUME BlkInv, blk_devs' \in [Disks -> DiskStates], blk_was' = blk_was, blk_fault' = blk_fault,
         \A d \in Disks : blk_devs'[d].head = blk_devs[d].head
  PROVE  BlkInv'
<1>1. DOMAIN blk_devs = Disks /\ DOMAIN blk_devs' = Disks  BY DEF BlkInv
<1> QED BY <1>1 DEF BlkInv, RootKept

\* Only the last step of starting up writes a head, and not over a file system
\* it could read.
LEMMA BlkStep == BlkInv /\ blkNext => BlkInv'
<1> SUFFICES ASSUME BlkInv, blkNext PROVE BlkInv'  OBVIOUS
<1>1. blk_devs \in [Disks -> DiskStates] /\ blk_was \in [Disks -> Heads] /\ RootKept  BY DEF BlkInv
<1>2. CASE PowerOn
  <2>1. blk_devs' \in [Disks -> DiskStates]
    <3>1. blk_devs' \in [Disks -> [present : {FALSE}, head : {"blank", "gpt", "dfs"},
                                   part : {"blank", "dfs"}, last : {"blank"}]]
      BY <1>2 DEF PowerOn, Disks
    <3>2. [present : {FALSE}, head : {"blank", "gpt", "dfs"}, part : {"blank", "dfs"}, last : {"blank"}]
              \subseteq DiskStates
      BY DEF DiskStates, Heads
    <3> QED BY <3>1, <3>2
  <2>2. blk_was' = [d \in Disks |-> blk_devs'[d].head]  BY <1>2 DEF PowerOn, Disks
  <2>3. \A d \in Disks : blk_devs'[d].head \in Heads  BY <2>1 DEF DiskStates
  <2>4. DOMAIN blk_devs' = Disks  BY <2>1
  <2> QED BY <2>1, <2>2, <2>3, <2>4 DEF BlkInv, RootKept
<1>3. ASSUME NEW d \in Disks, NEW next, DriverUp(d, next) PROVE BlkInv'
  <2>1. PICK up \in BOOLEAN :
            blk_devs' = [blk_devs EXCEPT ![d] = IF up THEN [@ EXCEPT !.present = TRUE, !.last = "test"] ELSE @]
    BY <1>3 DEF DriverUp
  <2>2. [blk_devs[d] EXCEPT !.present = TRUE, !.last = "test"] \in DiskStates
        /\ [blk_devs[d] EXCEPT !.present = TRUE, !.last = "test"].head = blk_devs[d].head
    <3>1. blk_devs[d] \in DiskStates  BY <1>1
    <3> QED BY <3>1 DEF DiskStates
  <2>3. blk_devs' \in [Disks -> DiskStates] /\ \A e \in Disks : blk_devs'[e].head = blk_devs[e].head
    BY <1>1, <2>1, <2>2
  <2> QED BY <1>3, <2>3, HeadsKept DEF DriverUp
<1>4. CASE gpt_selftest
  <2>1. blk_devs' = blk_devs  BY <1>4 DEF gpt_selftest
  <2> QED BY <1>1, <1>4, <2>1, HeadsKept DEF gpt_selftest
<1>5. CASE diskfs_nvme_selftest
  <2>1. blk_devs' = [blk_devs EXCEPT !["nvme"].part = "dfs"]  BY <1>5 DEF diskfs_nvme_selftest
  <2>2. "nvme" \in Disks  BY DEF Disks
  <2>3. [blk_devs["nvme"] EXCEPT !.part = "dfs"] \in DiskStates
        /\ [blk_devs["nvme"] EXCEPT !.part = "dfs"].head = blk_devs["nvme"].head
    <3>1. blk_devs["nvme"] \in DiskStates  BY <1>1, <2>2
    <3> QED BY <3>1 DEF DiskStates
  <2>4. blk_devs' \in [Disks -> DiskStates] /\ \A e \in Disks : blk_devs'[e].head = blk_devs[e].head
    BY <1>1, <2>1, <2>3
  <2> QED BY <1>5, <2>4, HeadsKept DEF diskfs_nvme_selftest
<1>6. CASE BootDiskfs
  <2>1. PICK readable \in BOOLEAN :
            /\ blk_devs' = IF (readable /\ blk_devs[BlkDevice].head = "dfs") \/ ~blk_devs[BlkDevice].present
                           THEN blk_devs
                           ELSE [blk_devs EXCEPT ![BlkDevice].head = "dfs of now"]
            /\ blk_fault' = (blk_fault \/ ~readable)
            /\ blk_was' = blk_was
    BY <1>6 DEF BootDiskfs
  <2>2. PICK d \in Disks : d = BlkDevice  BY DEF BlkDevice, Disks
  <2>3. DOMAIN blk_devs = Disks  BY <1>1
  <2>4. CASE (readable /\ blk_devs[d].head = "dfs") \/ ~blk_devs[d].present
    <3>1. blk_devs' = blk_devs  BY <2>1, <2>2, <2>4
    <3> QED BY <1>1, <2>1, <2>3, <3>1 DEF BlkInv, RootKept
  <2>5. CASE ~((readable /\ blk_devs[d].head = "dfs") \/ ~blk_devs[d].present)
    <3>1. blk_devs' = [blk_devs EXCEPT ![d].head = "dfs of now"]  BY <2>1, <2>2, <2>5
    <3>2. [blk_devs[d] EXCEPT !.head = "dfs of now"] \in DiskStates
      <4>1. blk_devs[d] \in DiskStates  BY <1>1
      <4> QED BY <4>1 DEF DiskStates, Heads
    <3>3. blk_devs' \in [Disks -> DiskStates] /\ \A e \in Disks : e # d => blk_devs'[e] = blk_devs[e]
      BY <1>1, <3>1, <3>2
    <3>4. DOMAIN blk_devs' = Disks  BY <3>3
    <3>5. ~blk_fault' => blk_was[d] # "dfs" /\ ~blk_fault
      <4> SUFFICES ASSUME ~blk_fault', blk_was[d] = "dfs" PROVE FALSE  BY <2>1
      <4>1. readable /\ ~blk_fault  BY <2>1
      <4>2. blk_devs[d].head = "dfs"  BY <1>1, <2>3, <4>1 DEF RootKept
      <4> QED BY <2>5, <4>1, <4>2
    <3>6. RootKept'  BY <1>1, <2>1, <2>3, <3>3, <3>4, <3>5 DEF RootKept
    <3> QED BY <1>1, <2>1, <3>3, <3>6 DEF BlkInv
  <2> QED BY <2>4, <2>5
<1>7. "nvme" \in Disks /\ "virtio" \in Disks  BY DEF Disks
<1> QED BY <1>2, <1>3, <1>4, <1>5, <1>6, <1>7 DEF blkNext, virtio_blk_init, nvme_init

\* The virtio driver, as long as it gave up no request: there is at most
\* one chain under way, it is the one of the request made, and when a read
\* has completed well its sector is in the buffer.
VioOps == {"none", "read", "write"}
VioDriver == [last_used : Int, st : {"idle", "poll"}, op : VioOps, lba : VioSectors \cup {0},
              val : BlkVals \cup {0}, gaveup : Nat]
VioRing == [avail : Int, used : Int, op : VioOps, lba : VioSectors \cup {0},
            status : {"none", "ok", "error"}, busy : {<<>>} \cup (VioOps \X (VioSectors \cup {0}))]

VioOne ==
    /\ ~vio_wrong
    /\ vio.st = "idle" => /\ vring.avail = vio.last_used /\ vring.used = vio.last_used
                          /\ vring.busy = <<>>
    /\ vio.st = "poll" =>
          /\ vio.last_used = 0 /\ vring.avail = 1
          /\ vring.op = vio.op /\ vring.lba = vio.lba
          /\ \/ vring.used = 0 /\ vring.busy \in {<<>>, <<vio.op, vio.lba>>}
             \/ /\ vring.used = 1 /\ vring.busy = <<>>
                /\ vio.op = "read" /\ vring.status = "ok" => blk_data = vio_disk[vio.lba]

VioInv ==
    /\ vio \in VioDriver /\ vring \in VioRing
    /\ vio.gaveup = 0 => VioOne

\* No request at first.
LEMMA InitVio == vioInit => VioInv
<1> SUFFICES ASSUME vioInit PROVE VioInv  OBVIOUS
<1>1. vio \in VioDriver /\ vio.st = "idle" /\ vio.last_used = 0  BY DEF vioInit, VioDriver, VioOps
<1>2. vring \in VioRing /\ vring.avail = 0 /\ vring.used = 0 /\ vring.busy = <<>>
  BY DEF vioInit, VioRing, VioOps
<1> QED BY <1>1, <1>2 DEF vioInit, VioInv, VioOne

\* A request is made while nothing is under way.
LEMMA VioRequestStep ==
  ASSUME VioInv, NEW op \in VioOps, NEW lba \in VioSectors, NEW v \in BlkVals \cup {0},
         vio_request(op, lba, v)
  PROVE  VioInv'
<1>1. /\ vio \in VioDriver /\ vring \in VioRing
      /\ vio.last_used \in Int /\ vring.avail \in Int /\ vring.used \in Int
  BY DEF VioInv, VioDriver, VioRing
<1>2. PICK a \in Int, u \in Int : a = vring.avail + 1 - vio.last_used /\ u = vring.used - vio.last_used  BY <1>1
<1>3. /\ vio.st = "idle"
      /\ vring' = [vring EXCEPT !.avail = a, !.used = u, !.op = op, !.lba = lba, !.status = "none"]
      /\ vio' = [vio EXCEPT !.st = "poll", !.op = op, !.lba = lba, !.val = v, !.last_used = 0]
      /\ vio_wrong' = vio_wrong
  <2>1. /\ vring.avail + 1 - vio.last_used = a /\ vring.used - vio.last_used = u  BY <1>2
  <2> QED BY <2>1, Zenon DEF vio_request
<1>4. /\ vring' \in VioRing /\ vring'.avail = a /\ vring'.used = u /\ vring'.op = op /\ vring'.lba = lba
      /\ vring'.busy = vring.busy
  BY <1>1, <1>3 DEF VioRing
<1>5. /\ vio' \in VioDriver /\ vio'.st = "poll" /\ vio'.op = op /\ vio'.lba = lba /\ vio'.last_used = 0
      /\ vio'.gaveup = vio.gaveup
  <2>1. vio' = [vio EXCEPT !.st = "poll", !.op = op, !.lba = lba, !.val = v, !.last_used = 0]  BY <1>3
  <2>2. /\ vio'.st = "poll" /\ vio'.op = op /\ vio'.lba = lba /\ vio'.last_used = 0
        /\ vio'.gaveup = vio.gaveup
    BY <1>1, <2>1 DEF VioDriver
  <2>3. vio' = [last_used |-> 0, st |-> "poll", op |-> op, lba |-> lba, val |-> v, gaveup |-> vio.gaveup]
    <3>1. vio = [last_used |-> vio.last_used, st |-> vio.st, op |-> vio.op, lba |-> vio.lba, val |-> vio.val,
                 gaveup |-> vio.gaveup]
      BY <1>1 DEF VioDriver
    <3>2. DOMAIN vio = {"last_used", "st", "op", "lba", "val", "gaveup"}  BY <3>1
    <3> QED BY <2>1, <3>2
  <2>4. vio.gaveup \in Nat  BY <1>1 DEF VioDriver
  <2>5. vio' \in VioDriver  BY <2>3, <2>4 DEF VioDriver
  <2> QED BY <2>2, <2>5
<1>6. ASSUME vio'.gaveup = 0 PROVE VioOne'
  <2>1. VioOne  BY <1>5, <1>6 DEF VioInv
  <2>2. vring.avail = vio.last_used /\ vring.used = vio.last_used /\ vring.busy = <<>> /\ ~vio_wrong
    BY <1>3, <2>1 DEF VioOne
  <2>3. a = 1 /\ u = 0  BY <1>1, <1>2, <2>2
  <2> QED BY <1>3, <1>4, <1>5, <2>2, <2>3 DEF VioOne
<1> QED BY <1>4, <1>5, <1>6 DEF VioInv

\* The device and the driver go on with the one request there is.
LEMMA VioStep == VioInv /\ vioNext => VioInv'
<1> SUFFICES ASSUME VioInv, vioNext PROVE VioInv'  OBVIOUS
<1>1. /\ vio \in VioDriver /\ vring \in VioRing
      /\ vio.last_used \in Int /\ vring.avail \in Int /\ vring.used \in Int /\ vio.gaveup \in Nat
      /\ vring.op \in VioOps /\ vring.lba \in VioSectors \cup {0}
  BY DEF VioInv, VioDriver, VioRing
<1>2. ASSUME NEW lba \in VioSectors,
             block_read_sector(lba) \/ \E v \in BlkVals : block_write_sector(lba, v)
      PROVE  VioInv'
  BY <1>2, VioRequestStep DEF block_read_sector, block_write_sector, VioOps
<1>3. CASE VirtioFetch
  <2>1. /\ vring.used < vring.avail /\ vring.busy = <<>>
        /\ vring' = [vring EXCEPT !.busy = <<vring.op, vring.lba>>]
        /\ UNCHANGED <<vio, vio_disk, blk_data, vio_wrong>>
    BY <1>3 DEF VirtioFetch
  <2>2. PICK b \in VioOps \X (VioSectors \cup {0}) : b = <<vring.op, vring.lba>>  BY <1>1
  <2>3. /\ vring' \in VioRing /\ vring'.busy = b /\ vring'.avail = vring.avail /\ vring'.used = vring.used
        /\ vring'.op = vring.op /\ vring'.lba = vring.lba /\ vring'.status = vring.status
    BY <1>1, <2>1, <2>2 DEF VioRing
  <2>4. ASSUME vio'.gaveup = 0 PROVE VioOne'
    <3>1. VioOne  BY <2>1, <2>4 DEF VioInv
    <3>2. vio.st = "poll" /\ vring.used = 0
      <4>1. vio.st \in {"idle", "poll"}  BY <1>1 DEF VioDriver
      <4> QED BY <1>1, <2>1, <3>1, <4>1 DEF VioOne
    <3> QED BY <2>1, <2>2, <2>3, <3>1, <3>2 DEF VioOne
  <2> QED BY <1>1, <2>1, <2>3, <2>4 DEF VioInv
<1>4. CASE VirtioComplete
  <2>1. PICK ok \in BOOLEAN :
            /\ vring.busy # <<>>
            /\ vring' = [vring EXCEPT !.used = @ + 1, !.status = IF ok THEN "ok" ELSE "error", !.busy = <<>>]
            /\ blk_data' = IF ok /\ vring.busy[1] = "read" THEN vio_disk[vring.busy[2]] ELSE blk_data
            /\ vio_disk' = IF ok /\ vring.busy[1] = "write" THEN [vio_disk EXCEPT ![vring.busy[2]] = blk_data]
                           ELSE vio_disk
            /\ UNCHANGED <<vio, vio_wrong>>
    BY <1>4 DEF VirtioComplete
  <2>2. PICK u \in Int : u = vring.used + 1  BY <1>1
  <2>3. PICK s \in {"ok", "error"} : s = IF ok THEN "ok" ELSE "error"  OBVIOUS
  <2>4. vring' = [vring EXCEPT !.used = u, !.status = s, !.busy = <<>>]  BY <2>1, <2>2, <2>3
  <2>5. /\ vring' \in VioRing /\ vring'.busy = <<>> /\ vring'.avail = vring.avail /\ vring'.used = u
        /\ vring'.op = vring.op /\ vring'.lba = vring.lba /\ vring'.status = s
    BY <1>1, <2>4 DEF VioRing
  <2>6. ASSUME vio'.gaveup = 0 PROVE VioOne'
    <3>1. VioOne  BY <2>1, <2>6 DEF VioInv
    <3>2. vio.st = "poll" /\ vring.used = 0 /\ vring.busy = <<vio.op, vio.lba>>
      <4>1. vio.st \in {"idle", "poll"}  BY <1>1 DEF VioDriver
      <4> QED BY <1>1, <2>1, <3>1, <4>1 DEF VioOne
    <3>3. vring.busy[1] = vio.op /\ vring.busy[2] = vio.lba  BY <3>2
    <3>4. vio.op = "read" /\ s = "ok" => blk_data' = vio_disk'[vio.lba]  BY <2>1, <2>3, <3>3
    <3>5. u = 1  BY <2>2, <3>2
    <3> QED BY <2>1, <2>5, <3>1, <3>2, <3>4, <3>5 DEF VioOne
  <2> QED BY <1>1, <2>1, <2>5, <2>6 DEF VioInv
<1>5. CASE VirtioDone
  <2>1. /\ vio.st = "poll" /\ vring.used # vio.last_used
        /\ vio' = [vio EXCEPT !.st = "idle", !.last_used = vring.used]
        /\ vio_wrong' = (vio_wrong \/ (vio.op = "read" /\ vring.status = "ok" /\ blk_data # vio_disk[vio.lba]))
        /\ UNCHANGED <<vring, vio_disk, blk_data>>
    BY <1>5 DEF VirtioDone
  <2>2. PICK u \in Int : u = vring.used  BY <1>1
  <2>3. vio' = [vio EXCEPT !.st = "idle", !.last_used = u]  BY <2>1, <2>2
  <2>4. /\ vio' \in VioDriver /\ vio'.st = "idle" /\ vio'.last_used = u /\ vio'.gaveup = vio.gaveup
    BY <1>1, <2>3 DEF VioDriver
  <2>5. ASSUME vio'.gaveup = 0 PROVE VioOne'
    <3>1. VioOne  BY <2>4, <2>5 DEF VioInv
    <3>2. /\ vring.used = 1 /\ vring.busy = <<>> /\ vring.avail = 1
          /\ vio.op = "read" /\ vring.status = "ok" => blk_data = vio_disk[vio.lba]
      BY <1>1, <2>1, <3>1 DEF VioOne
    <3>3. ~vio_wrong'
      <4>1. ~vio_wrong  BY <3>1 DEF VioOne
      <4>2. (vio.op = "read" /\ vring.status = "ok" /\ blk_data # vio_disk[vio.lba]) = FALSE  BY <3>2
      <4> QED BY <2>1, <4>1, <4>2
    <3>4. vring' = vring  BY <2>1
    <3> QED BY <2>2, <2>4, <3>2, <3>3, <3>4 DEF VioOne
  <2>6. vring' \in VioRing  BY <1>1, <2>1
  <2> QED BY <2>4, <2>5, <2>6 DEF VioInv
<1>6. CASE VirtioTimeout
  <2>1. PICK n \in Nat : n = vio.gaveup + 1  BY <1>1
  <2>2. vio' = [vio EXCEPT !.st = "idle", !.gaveup = n] /\ vring' = vring  BY <1>6, <2>1 DEF VirtioTimeout
  <2>3. vio' \in VioDriver /\ vio'.gaveup = n  BY <1>1, <2>2 DEF VioDriver
  <2>4. vio'.gaveup # 0  BY <1>1, <2>1, <2>3
  <2> QED BY <1>1, <2>2, <2>3, <2>4 DEF VioInv
<1> QED BY <1>2, <1>3, <1>4, <1>5, <1>6 DEF vioNext

\* NVMe: the completion queue has the phase of the driver's turn before
\* its head and the other one from there on; the queues have at most one
\* command and one completion, those of the command the driver waits for.
NvIdx == 0 .. NvQueue - 1
NvPlaces == 0 .. NvBlocks - 1
NvVals == BlkVals \cup {0}
NvData == [1 .. NvShift -> NvVals]
NvCommands == [cid : Nat, op : {"none", "read", "write"}, slba : Nat]
NvEntries == [phase : {0, 1}, cid : Nat, ok : BOOLEAN]
NvFields == {"tail", "head", "phase", "cid", "st", "op", "lba", "val", "cmd", "got"}

NvTypeOK ==
    /\ DOMAIN nv = NvFields
    /\ nv.tail \in NvIdx /\ nv.head \in NvIdx /\ nv.phase \in {0, 1} /\ nv.cid \in Nat
    /\ nv.st \in {"idle", "first", "last"} /\ nv.val \in NvVals /\ nv.cmd \in NvCommands
    /\ nvdev \in [sqhd : NvIdx, cqt : NvIdx, phase : {0, 1},
                  sq : [NvIdx -> NvCommands], cq : [NvIdx -> NvEntries]]
    /\ nv_disk \in [NvPlaces -> NvData]
    /\ nv_buf \in NvData
    /\ nv_want \in [NvSectors -> NvVals]

Turned(phase) == 1 - phase
AfterHead == (nv.head + 1) % NvQueue
PhaseAfterHead == IF nv.head + 1 = NvQueue THEN Turned(nv.phase) ELSE nv.phase

\* The entries before h have phase p, those after it the other.
EntriesTurned(h, p) == \A i \in NvIdx \ {h} : nvdev.cq[i].phase = IF i < h THEN p ELSE Turned(p)

\* Nothing that was entered has not been taken; the completion is there.
NothingEntered ==
    /\ nvdev.cq[nv.head].phase = Turned(nv.phase)
    /\ nvdev.cqt = nv.head /\ nvdev.phase = nv.phase
CompletionEntered ==
    /\ nvdev.cq[nv.head].phase = nv.phase /\ nvdev.cq[nv.head].cid = nv.cmd.cid
    /\ nvdev.cqt = AfterHead /\ nvdev.phase = PhaseAfterHead
    /\ nv.tail = nvdev.sqhd
    /\ nv.st = "first" /\ nvdev.cq[nv.head].ok => nv_buf = nv_disk[nv.cmd.slba]
CommandWaits ==
    /\ NothingEntered
    /\ nvdev.sq[nvdev.sqhd] = nv.cmd /\ nv.tail = (nvdev.sqhd + 1) % NvQueue
    /\ nv.cmd.op = "write" =>
          nv_buf = [nv_disk[nv.cmd.slba] EXCEPT ![(nv.lba % NvShift) + 1] = nv.val]

NvInv ==
    /\ NvTypeOK
    /\ EntriesTurned(nv.head, nv.phase)
    /\ nv.st = "idle" => NothingEntered /\ nv.tail = nvdev.sqhd /\ nv.got \in {0, nv.cmd.cid}
    /\ nv.st # "idle" =>
          /\ nv.lba \in NvSectors /\ nv.cmd.slba = nv.lba \div NvShift
          /\ nv.st = "first" => nv.cmd.op = "read"
          /\ CommandWaits \/ CompletionEntered
    /\ NeighboursKept

\* Where a sector is.
LEMMA SectorPlace ==
  ASSUME NEW s \in NvSectors
  PROVE  /\ s \in Nat /\ s \div NvShift \in NvPlaces /\ s % NvShift \in 0 .. NvShift - 1
         /\ s = NvShift * (s \div NvShift) + (s % NvShift)
<1>1. NvShift \in Nat \ {0} /\ NvBlocks \in Nat  BY BlockAssumption
<1>2. s \in Nat /\ s < NvBlocks * NvShift
  <2>1. PICK x \in Nat : x = NvBlocks * NvShift  BY <1>1
  <2>2. s \in 0 .. x - 1  BY <2>1 DEF NvSectors
  <2> QED BY <2>1, <2>2
<1>3. PICK q \in Int, r \in 0 .. NvShift - 1 :
          q = s \div NvShift /\ r = s % NvShift /\ s = NvShift * q + r
  BY <1>1, <1>2
<1>4. q >= 0
  <2> SUFFICES ASSUME q <= -1 PROVE FALSE  BY <1>3
  <2>1. NvShift * q <= NvShift * (-1)  BY <1>1
  <2> QED BY <1>1, <1>2, <1>3, <2>1
<1>5. q < NvBlocks
  <2> SUFFICES ASSUME q >= NvBlocks PROVE FALSE  BY <1>1, <1>3
  <2>1. NvShift * q >= NvShift * NvBlocks  BY <1>1
  <2>2. NvShift * NvBlocks = NvBlocks * NvShift  BY <1>1
  <2> QED BY <1>1, <1>2, <1>3, <2>1, <2>2
<1> QED BY <1>1, <1>2, <1>3, <1>4, <1>5 DEF NvPlaces

\* The next place of a queue.
LEMMA NextPlace ==
  ASSUME NEW i \in NvIdx
  PROVE  /\ NvQueue \in Nat \ {0} /\ i \in Nat
         /\ (i + 1) % NvQueue \in NvIdx
         /\ i + 1 = NvQueue => (i + 1) % NvQueue = 0
         /\ i + 1 # NvQueue => i + 1 < NvQueue /\ (i + 1) % NvQueue = i + 1
         /\ (i + 1) % NvQueue = i => NvQueue = 1
BY BlockAssumption DEF NvIdx

\* No command and no completion at first.
LEMMA InitNv == nvInit => NvInv
<1> SUFFICES ASSUME nvInit PROVE NvInv  OBVIOUS
<1>1. NvQueue \in Nat \ {0} /\ 0 \in NvIdx  BY BlockAssumption DEF NvIdx
<1>2. NoCmd \in NvCommands /\ NoCmd.cid = 0 /\ Cqe(0, 0, TRUE) \in NvEntries /\ Cqe(0, 0, TRUE).phase = 0
  BY DEF NoCmd, NvCommands, Cqe, NvEntries
<1>3. /\ DOMAIN nv = NvFields /\ nv.tail = 0 /\ nv.head = 0 /\ nv.phase = 1 /\ nv.cid = 1 /\ nv.st = "idle"
      /\ nv.val = 0 /\ nv.cmd = NoCmd /\ nv.got = NoCmd.cid
  BY DEF nvInit, NvFields
<1>4. /\ nvdev = [sqhd |-> 0, cqt |-> 0, phase |-> 1, sq |-> [i \in NvIdx |-> NoCmd],
                  cq |-> [i \in NvIdx |-> Cqe(0, 0, TRUE)]]
      /\ nv_disk = [b \in NvPlaces |-> [i \in 1 .. NvShift |-> 0]]
      /\ nv_buf = [i \in 1 .. NvShift |-> 0]
      /\ nv_want = [s \in NvSectors |-> 0]
  BY DEF nvInit, NvIdx, NvPlaces
<1>5. NvTypeOK
  <2>1. nvdev \in [sqhd : NvIdx, cqt : NvIdx, phase : {0, 1},
                   sq : [NvIdx -> NvCommands], cq : [NvIdx -> NvEntries]]
    BY <1>1, <1>2, <1>4
  <2>2. 0 \in NvVals  BY DEF NvVals
  <2>3. nv_buf \in NvData /\ nv_disk \in [NvPlaces -> NvData] /\ nv_want \in [NvSectors -> NvVals]
    BY <1>4, <2>2 DEF NvData
  <2> QED BY <1>1, <1>2, <1>3, <2>1, <2>2, <2>3 DEF NvTypeOK
<1>6. \A i \in NvIdx : i >= 0 /\ nvdev.cq[i].phase = 0
  <2>1. nvdev.cq = [i \in NvIdx |-> Cqe(0, 0, TRUE)]  BY <1>4
  <2>2. \A i \in NvIdx : nvdev.cq[i] = Cqe(0, 0, TRUE)  BY <2>1
  <2>3. \A i \in NvIdx : nvdev.cq[i].phase = 0  BY <1>2, <2>2
  <2>4. \A i \in NvIdx : i >= 0  BY <1>1 DEF NvIdx
  <2> QED BY <2>3, <2>4
<1>7. NeighboursKept
  <2> SUFFICES ASSUME NEW s \in NvSectors
               PROVE  nv_disk[s \div NvShift][(s % NvShift) + 1] = nv_want[s]
    BY DEF NeighboursKept
  <2>1. s \div NvShift \in NvPlaces /\ (s % NvShift) + 1 \in 1 .. NvShift  BY SectorPlace, BlockAssumption
  <2> QED BY <1>4, <2>1
<1>8. nvdev.sqhd = 0 /\ nvdev.cqt = 0 /\ nvdev.phase = 1  BY <1>4
<1>9. \A i \in NvIdx : ~(i < nv.head) /\ nvdev.cq[i].phase = Turned(nv.phase)  BY <1>3, <1>6 DEF Turned, NvIdx
<1>10. NothingEntered /\ EntriesTurned(nv.head, nv.phase)
  BY <1>1, <1>3, <1>8, <1>9 DEF NothingEntered, EntriesTurned
<1> QED BY <1>2, <1>3, <1>5, <1>7, <1>8, <1>10 DEF NvInv
\* What run_cmd() leaves at the doorbell.
LEMMA RingEffect ==
  ASSUME NvTypeOK, NEW n, DOMAIN n = NvFields, n.tail \in NvIdx, n.cid \in Nat, n.lba \in NvSectors,
         NEW op \in {"read", "write"}, NEW st, Ring(n, op, st)
  PROVE  /\ DOMAIN nv' = NvFields /\ nv'.tail = (n.tail + 1) % NvQueue /\ nv'.cid \in Nat /\ nv'.st = st
         /\ nv'.head = n.head /\ nv'.phase = n.phase /\ nv'.lba = n.lba /\ nv'.val = n.val
         /\ nv'.cmd \in NvCommands /\ nv'.cmd.op = op /\ nv'.cmd.slba = n.lba \div NvShift
         /\ nvdev' \in [sqhd : NvIdx, cqt : NvIdx, phase : {0, 1},
                        sq : [NvIdx -> NvCommands], cq : [NvIdx -> NvEntries]]
         /\ nvdev'.sq[n.tail] = nv'.cmd /\ nvdev'.sqhd = nvdev.sqhd
         /\ nvdev'.cqt = nvdev.cqt /\ nvdev'.phase = nvdev.phase /\ nvdev'.cq = nvdev.cq
<1>1. PICK q \in Nat : q = n.lba \div NvShift  BY SectorPlace DEF NvPlaces
<1>2. PICK t : t = (n.tail + 1) % NvQueue  OBVIOUS
<1>3. PICK c \in Nat : c = new_cid(n.cid)  BY DEF new_cid
<1>4. PICK cmd \in NvCommands : cmd = [cid |-> n.cid, op |-> op, slba |-> q]  BY DEF NvCommands
<1>5. /\ nvdev' = [nvdev EXCEPT !.sq[n.tail] = cmd]
      /\ nv' = [n EXCEPT !.tail = t, !.cid = c, !.cmd = cmd, !.st = st]
  <2>1. /\ q = n.lba \div NvShift /\ t = (n.tail + 1) % NvQueue /\ c = new_cid(n.cid)
        /\ cmd = [cid |-> n.cid, op |-> op, slba |-> q]
    BY <1>1, <1>2, <1>3, <1>4
  <2> QED BY <2>1, Zenon DEF Ring
<1>6. /\ DOMAIN nv' = NvFields /\ nv'.tail = t /\ nv'.cid = c /\ nv'.st = st /\ nv'.cmd = cmd
      /\ nv'.head = n.head /\ nv'.phase = n.phase /\ nv'.lba = n.lba /\ nv'.val = n.val
  BY <1>5 DEF NvFields
<1>7. cmd.op = op /\ cmd.slba = q  BY <1>4
<1>8. nvdev \in [sqhd : NvIdx, cqt : NvIdx, phase : {0, 1},
                 sq : [NvIdx -> NvCommands], cq : [NvIdx -> NvEntries]]
  BY DEF NvTypeOK
<1>9. PICK sq \in [NvIdx -> NvCommands] : sq = [nvdev.sq EXCEPT ![n.tail] = cmd] /\ sq[n.tail] = cmd
  <2>1. nvdev.sq \in [NvIdx -> NvCommands]  BY <1>8
  <2>2. [nvdev.sq EXCEPT ![n.tail] = cmd] \in [NvIdx -> NvCommands]
        /\ [nvdev.sq EXCEPT ![n.tail] = cmd][n.tail] = cmd
    BY <2>1
  <2> QED BY <2>2
<1>10. nvdev' = [nvdev EXCEPT !.sq = sq]  BY <1>5, <1>8, <1>9
<1> QED BY <1>1, <1>2, <1>6, <1>7, <1>8, <1>9, <1>10

\* A command is put before the device while nothing is under way.
LEMMA CommandIssued ==
  ASSUME NvInv, NEW n, DOMAIN n = NvFields, n.tail = nvdev.sqhd, n.head \in NvIdx, n.phase \in {0, 1},
         n.cid \in Nat, n.lba \in NvSectors, n.val \in NvVals,
         EntriesTurned(n.head, n.phase), nvdev.cq[n.head].phase = Turned(n.phase),
         nvdev.cqt = n.head, nvdev.phase = n.phase,
         NEW op \in {"read", "write"}, NEW st \in {"first", "last"}, st = "first" => op = "read",
         Ring(n, op, st), nv_disk' = nv_disk, nv_want' = nv_want, nv_buf' \in NvData,
         op = "write" => nv_buf' = [nv_disk[n.lba \div NvShift] EXCEPT ![(n.lba % NvShift) + 1] = n.val]
  PROVE  NvInv'
<1>1. NvTypeOK  BY DEF NvInv
<1>2. n.tail \in NvIdx  BY <1>1 DEF NvTypeOK
<1>3. /\ DOMAIN nv' = NvFields /\ nv'.tail = (n.tail + 1) % NvQueue /\ nv'.cid \in Nat /\ nv'.st = st
      /\ nv'.head = n.head /\ nv'.phase = n.phase /\ nv'.lba = n.lba /\ nv'.val = n.val
      /\ nv'.cmd \in NvCommands /\ nv'.cmd.op = op /\ nv'.cmd.slba = n.lba \div NvShift
      /\ nvdev' \in [sqhd : NvIdx, cqt : NvIdx, phase : {0, 1},
                     sq : [NvIdx -> NvCommands], cq : [NvIdx -> NvEntries]]
      /\ nvdev'.sq[n.tail] = nv'.cmd /\ nvdev'.sqhd = nvdev.sqhd
      /\ nvdev'.cqt = nvdev.cqt /\ nvdev'.phase = nvdev.phase /\ nvdev'.cq = nvdev.cq
  BY <1>1, <1>2, RingEffect
<1>4. NvTypeOK'
  <2>1. nv'.tail \in NvIdx  BY <1>2, <1>3, NextPlace
  <2> QED BY <1>1, <1>3, <2>1 DEF NvTypeOK
<1>5. EntriesTurned(nv.head, nv.phase)'  BY <1>3 DEF EntriesTurned
<1>6. CommandWaits'
  <2>1. NothingEntered'  BY <1>3 DEF NothingEntered
  <2>2. nvdev'.sq[nvdev'.sqhd] = nv'.cmd /\ nv'.tail = (nvdev'.sqhd + 1) % NvQueue  BY <1>3
  <2>3. nv'.cmd.op = "write" =>
            nv_buf' = [nv_disk'[nv'.cmd.slba] EXCEPT ![(nv'.lba % NvShift) + 1] = nv'.val]
    BY <1>3
  <2> QED BY <2>1, <2>2, <2>3 DEF CommandWaits
<1>7. NeighboursKept'  BY DEF NvInv, NeighboursKept
<1> QED BY <1>3, <1>4, <1>5, <1>6, <1>7 DEF NvInv
\* A request is made while the driver is idle.
LEMMA ReadIssued ==
  ASSUME NvInv, NEW lba \in NvSectors, nvme_read_sector(lba)
  PROVE  NvInv'
<1>1. NvTypeOK /\ nv.st = "idle" /\ NothingEntered /\ nv.tail = nvdev.sqhd /\ EntriesTurned(nv.head, nv.phase)
  BY DEF nvme_read_sector, NvInv
<1>2. PICK n : n = [nv EXCEPT !.op = "read", !.lba = lba]  OBVIOUS
<1>3. /\ DOMAIN n = NvFields /\ n.tail = nv.tail /\ n.head = nv.head /\ n.phase = nv.phase /\ n.cid = nv.cid
      /\ n.lba = lba /\ n.val = nv.val
  BY <1>1, <1>2 DEF NvTypeOK, NvFields
<1>4. Ring(n, "read", "last") /\ nv_disk' = nv_disk /\ nv_buf' = nv_buf /\ nv_want' = nv_want
  BY <1>2, Zenon DEF nvme_read_sector
<1>5. /\ n.tail = nvdev.sqhd /\ n.head \in NvIdx /\ n.phase \in {0, 1} /\ n.cid \in Nat /\ n.val \in NvVals
      /\ nv_buf' \in NvData
  BY <1>1, <1>3, <1>4 DEF NvTypeOK
<1>6. EntriesTurned(n.head, n.phase) /\ nvdev.cq[n.head].phase = Turned(n.phase)
      /\ nvdev.cqt = n.head /\ nvdev.phase = n.phase
  BY <1>1, <1>3 DEF NothingEntered
<1> QED BY <1>3, <1>4, <1>5, <1>6, CommandIssued

\* A write first reads the native block, unless it is as large as a sector.
LEMMA WriteIssued ==
  ASSUME NvInv, NEW lba \in NvSectors, NEW v \in BlkVals, nvme_write_sector(lba, v)
  PROVE  NvInv'
<1>1. NvTypeOK /\ nv.st = "idle" /\ NothingEntered /\ nv.tail = nvdev.sqhd /\ EntriesTurned(nv.head, nv.phase)
  BY DEF nvme_write_sector, NvInv
<1>2. PICK n : n = [nv EXCEPT !.op = "write", !.lba = lba, !.val = v]  OBVIOUS
<1>3. /\ DOMAIN n = NvFields /\ n.tail = nv.tail /\ n.head = nv.head /\ n.phase = nv.phase /\ n.cid = nv.cid
      /\ n.lba = lba /\ n.val = v
  BY <1>1, <1>2 DEF NvTypeOK, NvFields
<1>4. /\ n.tail = nvdev.sqhd /\ n.head \in NvIdx /\ n.phase \in {0, 1} /\ n.cid \in Nat /\ n.val \in NvVals
      /\ n.lba \in NvSectors
  BY <1>1, <1>3 DEF NvTypeOK, NvVals
<1>5. EntriesTurned(n.head, n.phase) /\ nvdev.cq[n.head].phase = Turned(n.phase)
      /\ nvdev.cqt = n.head /\ nvdev.phase = n.phase
  BY <1>1, <1>3 DEF NothingEntered
<1>6. nv_disk' = nv_disk /\ nv_want' = nv_want  BY DEF nvme_write_sector
<1>7. CASE NvShift = 1
  <2>1. Ring(n, "write", "last") /\ nv_buf' = <<v>>  BY <1>2, <1>7, Zenon DEF nvme_write_sector
  <2>2. nv_buf' = [k \in 1 .. 1 |-> v] /\ nv_buf' \in NvData  BY <1>7, <2>1 DEF NvData, NvVals
  <2>3. PICK d \in NvData : d = nv_disk[n.lba \div NvShift]  BY <1>1, <1>4, SectorPlace DEF NvTypeOK
  <2>4. (n.lba % NvShift) + 1 = 1  BY <1>4, <1>7, SectorPlace
  <2>5. nv_buf' = [d EXCEPT ![1] = v]  BY <1>7, <2>2, <2>3 DEF NvData
  <2>6. nv_buf' = [nv_disk[n.lba \div NvShift] EXCEPT ![(n.lba % NvShift) + 1] = n.val]
    BY <1>3, <2>3, <2>4, <2>5
  <2> QED BY <1>3, <1>4, <1>5, <1>6, <2>1, <2>2, <2>6, CommandIssued
<1>8. CASE NvShift # 1
  <2>1. Ring(n, "read", "first") /\ nv_buf' = nv_buf  BY <1>2, <1>8, Zenon DEF nvme_write_sector
  <2>2. nv_buf' \in NvData  BY <1>1, <2>1 DEF NvTypeOK
  <2> QED BY <1>3, <1>4, <1>5, <1>6, <2>1, <2>2, CommandIssued
<1> QED BY <1>7, <1>8

\* The device carries out the command that waits, or fails it.
LEMMA NvmeDeviceStep == NvInv /\ NvmeDevice => NvInv'
<1> SUFFICES ASSUME NvInv, NvmeDevice PROVE NvInv'  OBVIOUS
<1>1. NvTypeOK /\ EntriesTurned(nv.head, nv.phase) /\ NeighboursKept  BY DEF NvInv
<1>2. nvdev.sqhd # nv.tail /\ nv' = nv  BY DEF NvmeDevice
<1>3. /\ nv.st # "idle" /\ CommandWaits /\ nv.lba \in NvSectors /\ nv.cmd.slba = nv.lba \div NvShift
      /\ nv.st = "first" => nv.cmd.op = "read"
  BY <1>2 DEF NvInv, CompletionEntered
<1>4. /\ nvdev.sqhd \in NvIdx /\ nvdev.cqt = nv.head /\ nvdev.phase = nv.phase
      /\ nvdev.sq[nvdev.sqhd] = nv.cmd /\ nv.tail = (nvdev.sqhd + 1) % NvQueue
  BY <1>1, <1>3 DEF CommandWaits, NothingEntered, NvTypeOK
<1>5. /\ nv.head \in NvIdx /\ nv.phase \in {0, 1} /\ nv.cmd \in NvCommands /\ nv.val \in NvVals
      /\ nvdev \in [sqhd : NvIdx, cqt : NvIdx, phase : {0, 1},
                    sq : [NvIdx -> NvCommands], cq : [NvIdx -> NvEntries]]
      /\ nv_disk \in [NvPlaces -> NvData] /\ nv_buf \in NvData /\ nv_want \in [NvSectors -> NvVals]
  BY <1>1 DEF NvTypeOK
<1>6. PICK b : b = nv.cmd.slba  OBVIOUS
<1>7. b \in NvPlaces /\ b = nv.lba \div NvShift  BY <1>3, <1>6, SectorPlace
<1>8. PICK t \in NvIdx : t = (nvdev.sqhd + 1) % NvQueue  BY <1>4, NextPlace
<1>9. PICK h \in NvIdx : h = AfterHead  BY <1>5, NextPlace DEF AfterHead
<1>10. PICK p \in {0, 1} : p = PhaseAfterHead  BY <1>5 DEF PhaseAfterHead, Turned
<1>11. PICK ok \in BOOLEAN :
          /\ nvdev' = [nvdev EXCEPT !.cq[nvdev.cqt] = Cqe(nvdev.phase, nv.cmd.cid, ok),
                                    !.sqhd = (nvdev.sqhd + 1) % NvQueue,
                                    !.cqt = (nvdev.cqt + 1) % NvQueue,
                                    !.phase = IF nvdev.cqt + 1 = NvQueue THEN 1 - nvdev.phase ELSE nvdev.phase]
          /\ nv_disk' = IF ok /\ nv.cmd.op = "write" THEN [nv_disk EXCEPT ![b] = nv_buf] ELSE nv_disk
          /\ nv_buf' = IF ok /\ nv.cmd.op = "read" THEN nv_disk[b] ELSE nv_buf
          /\ nv_want' = IF ok /\ nv.cmd.op = "write" THEN [nv_want EXCEPT ![nv.lba] = nv.val] ELSE nv_want
  BY <1>4, <1>6, Zenon DEF NvmeDevice
<1>12. PICK e \in NvEntries : e = Cqe(nvdev.phase, nv.cmd.cid, ok)  BY <1>4, <1>5 DEF Cqe, NvEntries, NvCommands
<1>13. e.phase = nv.phase /\ e.cid = nv.cmd.cid /\ e.ok = ok  BY <1>4, <1>12 DEF Cqe
<1>14. PICK cq \in [NvIdx -> NvEntries] :
          /\ cq = [nvdev.cq EXCEPT ![nv.head] = e] /\ cq[nv.head] = e
          /\ \A i \in NvIdx \ {nv.head} : cq[i] = nvdev.cq[i]
  <2>1. PICK f : f = nvdev.cq  OBVIOUS
  <2>2. f \in [NvIdx -> NvEntries]  BY <1>5, <2>1
  <2>3. /\ [f EXCEPT ![nv.head] = e] \in [NvIdx -> NvEntries] /\ [f EXCEPT ![nv.head] = e][nv.head] = e
        /\ \A i \in NvIdx \ {nv.head} : [f EXCEPT ![nv.head] = e][i] = f[i]
    BY <1>5, <2>2
  <2> QED BY <2>1, <2>3
<1>15. nvdev' = [sqhd |-> t, cqt |-> h, phase |-> p, sq |-> nvdev.sq, cq |-> cq]
  <2>1. nvdev = [sqhd |-> nvdev.sqhd, cqt |-> nv.head, phase |-> nv.phase, sq |-> nvdev.sq, cq |-> nvdev.cq]
    BY <1>4, <1>5
  <2>2. nvdev' = [nvdev EXCEPT !.cq = cq, !.sqhd = t, !.cqt = h, !.phase = p]
    <3>1. nvdev' = [nvdev EXCEPT !.cq[nv.head] = e, !.sqhd = t, !.cqt = h, !.phase = p]
      <4>1. /\ Cqe(nvdev.phase, nv.cmd.cid, ok) = e /\ (nvdev.sqhd + 1) % NvQueue = t /\ nvdev.cqt = nv.head
            /\ (nvdev.cqt + 1) % NvQueue = h
            /\ (IF nvdev.cqt + 1 = NvQueue THEN 1 - nvdev.phase ELSE nvdev.phase) = p
        BY <1>4, <1>8, <1>9, <1>10, <1>12, Zenon DEF AfterHead, PhaseAfterHead, Turned
      <4> QED BY <1>11, <4>1, Zenon
    <3> QED BY <1>14, <3>1
  <2> QED BY <2>1, <2>2
<1>16. PICK sq \in [NvIdx -> NvCommands] : sq = nvdev.sq  BY <1>5
<1>17. /\ nvdev'.sqhd = t /\ nvdev'.cqt = h /\ nvdev'.phase = p /\ nvdev'.cq = cq
       /\ nvdev' \in [sqhd : NvIdx, cqt : NvIdx, phase : {0, 1},
                      sq : [NvIdx -> NvCommands], cq : [NvIdx -> NvEntries]]
  BY <1>15, <1>16
<1>18. nv_disk' \in [NvPlaces -> NvData] /\ nv_buf' \in NvData /\ nv_want' \in [NvSectors -> NvVals]
  BY <1>3, <1>5, <1>7, <1>11
<1>19. NvTypeOK'  BY <1>1, <1>2, <1>17, <1>18 DEF NvTypeOK
<1>20. EntriesTurned(nv.head, nv.phase)'  BY <1>1, <1>2, <1>14, <1>17 DEF EntriesTurned
<1>21. CompletionEntered'
  <2>1. nv'.st = "first" /\ nvdev'.cq[nv'.head].ok => nv_buf' = nv_disk'[nv'.cmd.slba]
    BY <1>2, <1>3, <1>6, <1>11, <1>13, <1>14, <1>17
  <2>2. AfterHead' = h /\ PhaseAfterHead' = p  BY <1>2, <1>9, <1>10 DEF AfterHead, PhaseAfterHead
  <2>3. nv'.tail = nvdev'.sqhd  BY <1>2, <1>4, <1>8, <1>17
  <2> QED BY <1>2, <1>13, <1>14, <1>17, <2>1, <2>2, <2>3 DEF CompletionEntered
<1>22. NeighboursKept'
  <2> SUFFICES ASSUME NEW s \in NvSectors
               PROVE  nv_disk'[s \div NvShift][(s % NvShift) + 1] = nv_want'[s]
    BY DEF NeighboursKept
  <2>1. nv_disk[s \div NvShift][(s % NvShift) + 1] = nv_want[s]  BY <1>1 DEF NeighboursKept
  <2>2. CASE ok /\ nv.cmd.op = "write"
    <3>1. nv_disk' = [nv_disk EXCEPT ![b] = nv_buf] /\ nv_want' = [nv_want EXCEPT ![nv.lba] = nv.val]
      BY <1>11, <2>2
    <3>2. PICK d \in NvData : d = nv_disk[b]  BY <1>5, <1>7
    <3>3. PICK k \in 1 .. NvShift : k = (nv.lba % NvShift) + 1  BY <1>3, SectorPlace, BlockAssumption
    <3>4. nv_buf = [d EXCEPT ![k] = nv.val]  BY <1>3, <1>6, <2>2, <3>2, <3>3 DEF CommandWaits
    <3>5. PICK q \in NvPlaces, r \in 1 .. NvShift : q = s \div NvShift /\ r = (s % NvShift) + 1
      BY SectorPlace, BlockAssumption
    <3>6. q = b /\ r = k => s = nv.lba
      <4>1. s = NvShift * (s \div NvShift) + (s % NvShift) /\ s % NvShift \in Int
        BY SectorPlace, BlockAssumption
      <4>2. nv.lba = NvShift * (nv.lba \div NvShift) + (nv.lba % NvShift) /\ nv.lba % NvShift \in Int
        BY <1>3, SectorPlace, BlockAssumption
      <4> SUFFICES ASSUME q = b, r = k PROVE s = nv.lba  OBVIOUS
      <4>3. s \div NvShift = nv.lba \div NvShift  BY <1>7, <3>5
      <4>4. s % NvShift = nv.lba % NvShift  BY <3>3, <3>5, <4>1, <4>2
      <4> QED BY <4>1, <4>2, <4>3, <4>4, Zenon
    <3>7. nv_disk[q][r] = nv_want[s]  BY <2>1, <3>5
    <3>8. CASE s = nv.lba
      <4>1. q = b /\ r = k  BY <1>7, <3>3, <3>5, <3>8
      <4>2. nv_disk'[q] = nv_buf /\ nv_buf[r] = nv.val  BY <1>5, <3>1, <3>2, <3>4, <4>1 DEF NvData
      <4>3. nv_want'[s] = nv.val  BY <1>5, <3>1, <3>8
      <4> QED BY <3>5, <4>2, <4>3
    <3>9. CASE s # nv.lba
      <4>1. nv_want'[s] = nv_want[s]  BY <1>5, <3>1, <3>9
      <4>2. nv_disk'[q][r] = nv_disk[q][r]
        <5>1. CASE q # b  BY <1>5, <3>1, <5>1
        <5>2. CASE q = b
          <6>1. r # k  BY <3>6, <3>9, <5>2
          <6>2. nv_buf[r] = d[r]  BY <3>2, <3>4, <6>1 DEF NvData
          <6> QED BY <1>5, <3>1, <3>2, <5>2, <6>2
        <5> QED BY <5>1, <5>2
      <4> QED BY <3>5, <3>7, <4>1, <4>2
    <3> QED BY <3>8, <3>9
  <2>3. CASE ~(ok /\ nv.cmd.op = "write")  BY <1>11, <2>1, <2>3
  <2> QED BY <2>2, <2>3
<1> QED BY <1>2, <1>3, <1>19, <1>20, <1>21, <1>22 DEF NvInv
\* Taking the entry at the head turns the queue by one place.
LEMMA TurnedByOne ==
  ASSUME NvTypeOK, EntriesTurned(nv.head, nv.phase), nvdev.cq[nv.head].phase = nv.phase
  PROVE  /\ AfterHead \in NvIdx /\ PhaseAfterHead \in {0, 1}
         /\ EntriesTurned(AfterHead, PhaseAfterHead)
         /\ nvdev.cq[AfterHead].phase = Turned(PhaseAfterHead)
<1>1. PICK h \in NvIdx, p \in {0, 1} : h = nv.head /\ p = nv.phase  BY DEF NvTypeOK
<1>2. PICK f \in [NvIdx -> {0, 1}] : f = [i \in NvIdx |-> nvdev.cq[i].phase]  BY DEF NvTypeOK, NvEntries
<1>3. /\ f[h] = p /\ \A i \in NvIdx \ {h} : f[i] = IF i < h THEN p ELSE 1 - p
  BY <1>1, <1>2 DEF EntriesTurned, Turned
<1>4. NvQueue \in Nat \ {0} /\ NvIdx = 0 .. NvQueue - 1  BY BlockAssumption DEF NvIdx
<1>5. CASE h + 1 = NvQueue
  <2>1. AfterHead = 0 /\ PhaseAfterHead = 1 - p /\ 1 - (1 - p) = p /\ 0 \in NvIdx
    BY <1>1, <1>4, <1>5, NextPlace DEF AfterHead, PhaseAfterHead, Turned
  <2>2. \A i \in NvIdx : f[i] = p  BY <1>3, <1>4, <1>5
  <2>3. \A i \in NvIdx \ {0} : ~(i < 0)  BY <1>4
  <2> QED BY <1>2, <2>1, <2>2, <2>3 DEF EntriesTurned, Turned
<1>6. CASE h + 1 # NvQueue
  <2>1. PICK k \in NvIdx : k = h + 1 /\ k = AfterHead  BY <1>1, <1>4, <1>6, NextPlace DEF AfterHead
  <2>2. PhaseAfterHead = p  BY <1>1, <1>6 DEF PhaseAfterHead
  <2>3. f[k] = 1 - p  BY <1>3, <1>4, <2>1
  <2>4. \A i \in NvIdx \ {k} : f[i] = IF i < k THEN p ELSE 1 - p  BY <1>3, <1>4, <2>1
  <2> QED BY <1>2, <2>1, <2>2, <2>3, <2>4 DEF EntriesTurned, Turned
<1> QED BY <1>5, <1>6

\* The driver takes the completion it waited for, and goes on to the second
\* command of a write or is done.
LEMMA RunCmdStep == NvInv /\ run_cmd => NvInv'
<1> SUFFICES ASSUME NvInv, run_cmd PROVE NvInv'  OBVIOUS
<1>1. NvTypeOK /\ EntriesTurned(nv.head, nv.phase) /\ NeighboursKept  BY DEF NvInv
<1>2. nv.st # "idle" /\ nvdev.cq[nv.head].phase = nv.phase /\ nv_disk' = nv_disk /\ nv_want' = nv_want
  BY DEF run_cmd
<1>3. Turned(nv.phase) # nv.phase  BY <1>1 DEF NvTypeOK, Turned
<1>4. /\ CompletionEntered /\ nv.lba \in NvSectors /\ nv.cmd.slba = nv.lba \div NvShift
  BY <1>2, <1>3 DEF NvInv, CommandWaits, NothingEntered
<1>5. /\ nvdev.cqt = AfterHead /\ nvdev.phase = PhaseAfterHead /\ nv.tail = nvdev.sqhd
      /\ nvdev.cq[nv.head].cid = nv.cmd.cid
  BY <1>4 DEF CompletionEntered
<1>6. /\ AfterHead \in NvIdx /\ PhaseAfterHead \in {0, 1}
      /\ EntriesTurned(AfterHead, PhaseAfterHead)
      /\ nvdev.cq[AfterHead].phase = Turned(PhaseAfterHead)
  BY <1>1, <1>2, TurnedByOne
<1>7. PICK n : n = TakenCqe(nv)  OBVIOUS
<1>8. n = [nv EXCEPT !.head = AfterHead, !.got = nv.cmd.cid, !.st = "idle", !.phase = PhaseAfterHead]
  <2>1. nvdev.cq[nv.head].cid = nv.cmd.cid  BY <1>5
  <2> QED BY <1>7, <2>1, Zenon DEF TakenCqe, AfterHead, PhaseAfterHead, Turned
<1>9. /\ DOMAIN n = NvFields /\ n.tail = nv.tail /\ n.head = AfterHead /\ n.phase = PhaseAfterHead
      /\ n.cid = nv.cid /\ n.lba = nv.lba /\ n.val = nv.val /\ n.cmd = nv.cmd /\ n.got = nv.cmd.cid
      /\ n.st = "idle"
  BY <1>1, <1>8 DEF NvTypeOK, NvFields
<1>10. /\ n.cid \in Nat /\ n.val \in NvVals /\ nv_buf \in NvData  BY <1>1, <1>9 DEF NvTypeOK
<1>11. CASE nv.st = "first" /\ nvdev.cq[nv.head].ok
  <2>1. nv_buf' = [nv_buf EXCEPT ![(nv.lba % NvShift) + 1] = nv.val] /\ Ring(n, "write", "last")
    BY <1>7, <1>11, Zenon DEF run_cmd
  <2>2. nv_buf = nv_disk[n.lba \div NvShift]  BY <1>4, <1>9, <1>11 DEF CompletionEntered
  <2>3. PICK k \in 1 .. NvShift : k = (nv.lba % NvShift) + 1  BY <1>4, SectorPlace, BlockAssumption
  <2>4. nv_buf' = [nv_disk[n.lba \div NvShift] EXCEPT ![(n.lba % NvShift) + 1] = n.val]  BY <1>9, <2>1, <2>2
  <2>5. nv_buf' \in NvData  BY <1>9, <1>10, <2>1, <2>3 DEF NvData
  <2> QED BY <1>2, <1>4, <1>5, <1>6, <1>9, <1>10, <2>1, <2>4, <2>5, CommandIssued
<1>12. CASE ~(nv.st = "first" /\ nvdev.cq[nv.head].ok)
  <2>1. nv' = n /\ nvdev' = nvdev /\ nv_buf' = nv_buf  BY <1>7, <1>12, Zenon DEF run_cmd
  <2>2. NvTypeOK'  BY <1>1, <1>2, <1>6, <1>9, <2>1 DEF NvTypeOK
  <2>3. EntriesTurned(nv.head, nv.phase)' /\ NothingEntered'
    BY <1>5, <1>6, <1>9, <2>1 DEF EntriesTurned, NothingEntered
  <2>4. NeighboursKept'  BY <1>1, <1>2 DEF NeighboursKept
  <2> QED BY <1>5, <1>9, <2>1, <2>2, <2>3, <2>4 DEF NvInv
<1> QED BY <1>11, <1>12

\* The completion that is there is the one waited for.
LEMMA NvInvOwns == NvInv => OwnCompletion /\ NeighboursKept
<1> SUFFICES ASSUME NvInv PROVE OwnCompletion /\ NeighboursKept  OBVIOUS
<1>1. Turned(nv.phase) # nv.phase  BY DEF NvInv, NvTypeOK, Turned
<1> QED BY <1>1 DEF NvInv, OwnCompletion, CommandWaits, NothingEntered, CompletionEntered

------------------------------
(* The block devices as a whole.                                           *)

DevicesIInv == BlkInv /\ NvInv /\ VioInv

\* Among the other parts of the kernel: starting up spares a root file
\* system that can be read, an NVMe command gets its own completion
\* however often the queues wrap, a write spares the other sectors of its
\* native block whether its commands succeed or fail, and a virtio read
\* that succeeds brought its sector as long as no request was given up
\* (kernel.c; nvme.c run_cmd, nvme_write_sector; virtio_blk.c
\* vio_request).
THEOREM DevicesAreSound == PartsSpec => []DevicesSound
<1>1. PartsInit => DevicesIInv  BY InitBlk, InitNv, InitVio DEF PartsInit, DevicesIInv
<1>2. DevicesIInv /\ [PartsNext]_allVars => DevicesIInv'
  <2> SUFFICES ASSUME DevicesIInv, [PartsNext]_allVars PROVE DevicesIInv'  OBVIOUS
  <2>1. BlkInv'
    <3>1. blkNext \/ UNCHANGED blkVars  BY DEF PartsNext, allVars, blkVars
    <3>2. CASE UNCHANGED blkVars  BY <3>2 DEF blkVars, DevicesIInv, BlkInv, RootKept
    <3> QED BY <3>1, <3>2, BlkStep DEF DevicesIInv
  <2>2. NvInv'
    <3>1. nvNext \/ UNCHANGED nvVars  BY DEF PartsNext, allVars, nvVars
    <3>2. CASE nvNext  BY <3>2, ReadIssued, WriteIssued, NvmeDeviceStep, RunCmdStep DEF nvNext, DevicesIInv
    <3>3. CASE UNCHANGED nvVars
      BY <3>3 DEF nvVars, DevicesIInv, NvInv, NvTypeOK, EntriesTurned, NothingEntered, CommandWaits,
                  CompletionEntered, AfterHead, PhaseAfterHead, NeighboursKept
    <3> QED BY <3>1, <3>2, <3>3
  <2>3. VioInv'
    <3>1. vioNext \/ UNCHANGED vioVars  BY DEF PartsNext, allVars, vioVars
    <3>2. CASE UNCHANGED vioVars  BY <3>2 DEF vioVars, DevicesIInv, VioInv, VioOne
    <3> QED BY <3>1, <3>2, VioStep DEF DevicesIInv
  <2> QED BY <2>1, <2>2, <2>3 DEF DevicesIInv
<1>3. DevicesIInv => DevicesSound
  BY NvInvOwns DEF DevicesIInv, BlkInv, VioInv, VioOne, VirtioReadsRight, DevicesSound
<1> QED BY <1>1, <1>2, <1>3, PTL DEF PartsSpec

------------------------------
(* The kernel heap (kernel/memory/kheap.c).                                *)

\* The blocks A tile the cells below e: each ends where the next one
\* begins or at e, and the two directions of the list agree.
EndOf(mem, a) == a + 1 + mem[a].size
HeapHeaders == [size : Nat, free : BOOLEAN, next : Nat \cup {Nil}, prev : Nat \cup {Nil}]

Tiled(mem, A, e) ==
    /\ A \subseteq DOMAIN mem /\ A \subseteq Nat /\ 0 \in A /\ mem[0].prev = Nil
    /\ \A a \in A :
          /\ mem[a] \in HeapHeaders /\ EndOf(mem, a) <= e
          /\ mem[a].next = Nil => EndOf(mem, a) = e
          /\ mem[a].next # Nil => /\ mem[a].next = EndOf(mem, a) /\ mem[a].next \in A
                                  /\ mem[mem[a].next].prev = a
          /\ a # 0 => mem[a].prev \in A /\ mem[mem[a].prev].next = a
    /\ \A a, b \in A : a < b => EndOf(mem, a) <= b
    /\ \E a \in A : mem[a].next = Nil

\* What the place number k of the list is, for the places below n.
Follows(mem, f, n) ==
    /\ f[0] = 0
    /\ \A k \in 1 .. n : f[k] = IF f[k - 1] = Nil THEN Nil ELSE mem[f[k - 1]].next

\* The smallest of some numbers.
LEMMA SmallestNumber ==
  ASSUME NEW S, S \subseteq Nat, S # {}
  PROVE  \E x \in S : \A y \in S : x <= y
<1>1. PICK x \in S : \A y \in S : ~(<<y, x>> \in OpToRel(<, Nat))  BY NatLessThanWellFounded, WFMin
<1>2. \A y \in S : x <= y
  <2> SUFFICES ASSUME NEW y \in S PROVE x <= y  OBVIOUS
  <2>1. ~(y < x)  BY <1>1 DEF OpToRel
  <2> QED BY <2>1
<1> QED BY <1>2

\* A list that is tiled can be followed as far as one likes.
LEMMA CanFollow ==
  ASSUME NEW mem, NEW A, NEW e, Tiled(mem, A, e), NEW n \in Nat
  PROVE  \E f \in [0 .. n -> A \cup {Nil}] : Follows(mem, f, n)
<1> DEFINE Bad == {m \in Nat : ~\E f \in [0 .. m -> A \cup {Nil}] : Follows(mem, f, m)}
<1> SUFFICES ASSUME Bad # {} PROVE FALSE  OBVIOUS
<1>1. PICK m \in Bad : \A y \in Bad : m <= y  BY SmallestNumber
<1>2. 0 \in A /\ A \subseteq Nat  BY DEF Tiled
<1>3. m # 0
  <2> SUFFICES \E f \in [0 .. 0 -> A \cup {Nil}] : Follows(mem, f, 0)  OBVIOUS
  <2>1. [k \in 0 .. 0 |-> 0] \in [0 .. 0 -> A \cup {Nil}]  BY <1>2
  <2>2. Follows(mem, [k \in 0 .. 0 |-> 0], 0)  BY DEF Follows
  <2> QED BY <2>1, <2>2
<1>4. m \in Nat /\ m - 1 \in Nat /\ ~(m <= m - 1)  BY <1>1, <1>3
<1>5. m - 1 \notin Bad  BY <1>1, <1>4
<1>6. PICK g \in [0 .. m - 1 -> A \cup {Nil}] : Follows(mem, g, m - 1)  BY <1>4, <1>5
<1> DEFINE x == IF g[m - 1] = Nil THEN Nil ELSE mem[g[m - 1]].next
           f == [k \in 0 .. m |-> IF k = m THEN x ELSE g[k]]
<1>7. x \in A \cup {Nil}
  <2>1. g[m - 1] \in A \cup {Nil}  BY <1>4, <1>6
  <2> QED BY <2>1 DEF Tiled
<1> HIDE DEF x
<1>8. f \in [0 .. m -> A \cup {Nil}]  BY <1>4, <1>6, <1>7
<1>9. \A k \in 0 .. m - 1 : f[k] = g[k] /\ f[m] = x  BY <1>4
<1> HIDE DEF f
<1>10. Follows(mem, f, m)
  <2>1. f[0] = 0  BY <1>4, <1>6, <1>9 DEF Follows
  <2>2. \A k \in 1 .. m : f[k] = IF f[k - 1] = Nil THEN Nil ELSE mem[f[k - 1]].next
    <3> SUFFICES ASSUME NEW k \in 1 .. m PROVE f[k] = IF f[k - 1] = Nil THEN Nil ELSE mem[f[k - 1]].next
      OBVIOUS
    <3>1. CASE k = m
      <4>1. f[k - 1] = g[m - 1] /\ f[k] = x  BY <1>4, <1>9, <3>1
      <4> QED BY <4>1 DEF x
    <3>2. CASE k # m
      <4>1. k \in 1 .. m - 1 /\ k - 1 \in 0 .. m - 1 /\ k \in 0 .. m - 1  BY <1>4, <3>2
      <4> QED BY <1>6, <1>9, <4>1 DEF Follows
    <3> QED BY <3>1, <3>2
  <2> QED BY <2>1, <2>2 DEF Follows
<1> QED BY <1>1, <1>8, <1>10

\* Nth() follows the list.
LEMMA NthFollows ==
  ASSUME NEW mem, NEW A, NEW e, Tiled(mem, A, e)
  PROVE  /\ Nth(mem) \in [0 .. KHeapTop -> A \cup {Nil}]
         /\ Follows(mem, Nth(mem), KHeapTop)
<1>1. KHeapTop \in Nat  BY KHeapAssumption
<1>2. PICK f \in [0 .. KHeapTop -> A \cup {Nil}] : Follows(mem, f, KHeapTop)  BY <1>1, CanFollow
<1> DEFINE P(g) == g = [k \in 0 .. KHeapTop |->
                          IF k = 0 THEN 0 ELSE IF g[k - 1] = Nil THEN Nil ELSE mem[g[k - 1]].next]
<1>3. P(f)
  <2>1. \A k \in 0 .. KHeapTop :
            f[k] = IF k = 0 THEN 0 ELSE IF f[k - 1] = Nil THEN Nil ELSE mem[f[k - 1]].next
    <3> SUFFICES ASSUME NEW k \in 0 .. KHeapTop
                 PROVE  f[k] = IF k = 0 THEN 0 ELSE IF f[k - 1] = Nil THEN Nil ELSE mem[f[k - 1]].next
      OBVIOUS
    <3>1. CASE k = 0  BY <1>2, <3>1 DEF Follows
    <3>2. CASE k # 0
      <4>1. k \in 1 .. KHeapTop  BY <1>1, <3>2
      <4> QED BY <1>2, <3>2, <4>1 DEF Follows
    <3> QED BY <3>1, <3>2
  <2> QED BY <2>1
<1>4. Nth(mem) = CHOOSE g : P(g)  BY DEF Nth
<1>5. P(Nth(mem))
  <2>1. \E g : P(g)  BY <1>3
  <2> HIDE DEF P
  <2>2. P(CHOOSE g : P(g))  BY <2>1
  <2> QED BY <1>4, <2>2
<1>6. PICK g : g = Nth(mem)  OBVIOUS
<1>7. /\ DOMAIN g = 0 .. KHeapTop /\ g = [k \in 0 .. KHeapTop |-> g[k]]
      /\ \A k \in 0 .. KHeapTop :
            g[k] = IF k = 0 THEN 0 ELSE IF g[k - 1] = Nil THEN Nil ELSE mem[g[k - 1]].next
  BY <1>5, <1>6
<1>8. Follows(mem, g, KHeapTop)
  <2>1. g[0] = 0  BY <1>1, <1>7
  <2>2. ASSUME NEW k \in 1 .. KHeapTop PROVE g[k] = IF g[k - 1] = Nil THEN Nil ELSE mem[g[k - 1]].next
    <3>1. k \in 0 .. KHeapTop /\ k # 0  BY <1>1
    <3> QED BY <1>7, <3>1
  <2> QED BY <2>1, <2>2 DEF Follows
<1>9. \A k \in 0 .. KHeapTop : g[k] \in A \cup {Nil}
  <2> DEFINE Bad == {k \in 0 .. KHeapTop : g[k] \notin A \cup {Nil}}
  <2> SUFFICES ASSUME Bad # {} PROVE FALSE  OBVIOUS
  <2>1. Bad \subseteq Nat  BY <1>1
  <2>2. PICK k \in Bad : \A y \in Bad : k <= y  BY <2>1, SmallestNumber
  <2>3. k \in 0 .. KHeapTop /\ g[k] \notin A \cup {Nil}  BY <2>2
  <2>4. k # 0  BY <1>8, <2>3 DEF Follows, Tiled
  <2>5. k - 1 \in 0 .. KHeapTop /\ ~(k <= k - 1)  BY <1>1, <2>3, <2>4
  <2>6. g[k - 1] \in A \cup {Nil}  BY <2>2, <2>5
  <2>7. g[k] = IF g[k - 1] = Nil THEN Nil ELSE mem[g[k - 1]].next  BY <1>7, <2>3, <2>4
  <2> QED BY <2>3, <2>6, <2>7 DEF Tiled
<1> QED BY <1>6, <1>7, <1>8, <1>9

\* The list is all of the blocks.
LEMMA ListedAll ==
  ASSUME NEW mem, NEW A, NEW e \in Nat, Tiled(mem, A, e), e <= KHeapTop
  PROVE  Listed(mem) = A
<1>1. PICK g \in [0 .. KHeapTop -> A \cup {Nil}] : g = Nth(mem) /\ Follows(mem, g, KHeapTop)  BY NthFollows
<1>2. Listed(mem) = {g[k] : k \in 0 .. KHeapTop} \ {Nil}  BY <1>1 DEF Listed
<1>3. KHeapTop \in Nat /\ A \subseteq Nat /\ 0 \in A /\ Nil \notin Nat  BY KHeapAssumption DEF Tiled, Nil
<1>4. Listed(mem) \subseteq A  BY <1>1, <1>2
<1>5. \A k \in 0 .. KHeapTop : g[k] # Nil => g[k] >= k
  <2> DEFINE Bad == {k \in 0 .. KHeapTop : g[k] # Nil /\ ~(g[k] >= k)}
  <2> SUFFICES ASSUME Bad # {} PROVE FALSE  OBVIOUS
  <2>1. Bad \subseteq Nat  BY <1>3
  <2>2. PICK k \in Bad : \A y \in Bad : k <= y  BY <2>1, SmallestNumber
  <2>3. k \in 0 .. KHeapTop /\ g[k] # Nil /\ ~(g[k] >= k) /\ g[0] = 0  BY <1>1, <2>2 DEF Follows
  <2>4. k # 0  BY <2>3
  <2>5. k - 1 \in 0 .. KHeapTop /\ ~(k <= k - 1) /\ k \in 1 .. KHeapTop  BY <1>3, <2>3, <2>4
  <2>6. g[k] = IF g[k - 1] = Nil THEN Nil ELSE mem[g[k - 1]].next  BY <1>1, <2>5 DEF Follows
  <2>7. PICK a : a = g[k - 1]  OBVIOUS
  <2>8. a # Nil /\ a \in A /\ g[k] = mem[a].next  BY <1>1, <2>3, <2>5, <2>6, <2>7
  <2>9. a >= k - 1  BY <2>2, <2>5, <2>7, <2>8
  <2>10. mem[a].next = a + 1 + mem[a].size /\ mem[a].size \in Nat /\ a \in Nat
    BY <1>3, <2>3, <2>8 DEF Tiled, EndOf, HeapHeaders
  <2> QED BY <2>3, <2>8, <2>9, <2>10
<1>6. A \subseteq Listed(mem)
  <2> DEFINE Bad == A \ Listed(mem)
  <2> SUFFICES ASSUME Bad # {} PROVE FALSE  OBVIOUS
  <2>1. Bad \subseteq Nat  BY <1>3
  <2>2. PICK a \in Bad : \A y \in Bad : a <= y  BY <2>1, SmallestNumber
  <2>3. a \in A /\ a \notin Listed(mem) /\ a \in Nat  BY <1>3, <2>2
  <2>4. a # 0
    <3>1. 0 \in 0 .. KHeapTop /\ g[0] = 0  BY <1>1, <1>3 DEF Follows
    <3> QED BY <1>2, <1>3, <2>3, <3>1
  <2>5. PICK p : p = mem[a].prev  OBVIOUS
  <2>6. p \in A /\ mem[p].next = a  BY <2>3, <2>4, <2>5 DEF Tiled
  <2>7. a = p + 1 + mem[p].size /\ mem[p].size \in Nat /\ p \in Nat /\ a < e
    <3>1. a # Nil  BY <1>3, <2>3
    <3>2. a = p + 1 + mem[p].size /\ mem[p].size \in Nat /\ p \in Nat
      BY <1>3, <2>6, <3>1 DEF Tiled, EndOf, HeapHeaders
    <3>3. a + 1 + mem[a].size <= e /\ mem[a].size \in Nat  BY <2>3 DEF Tiled, EndOf, HeapHeaders
    <3> QED BY <2>3, <3>2, <3>3
  <2>8. p \in Listed(mem)
    <3>1. ~(a <= p)  BY <2>3, <2>7
    <3> QED BY <2>2, <2>6, <3>1
  <2>9. PICK k \in 0 .. KHeapTop : p = g[k]  BY <1>2, <2>8
  <2>10. k + 1 \in 1 .. KHeapTop /\ (k + 1) - 1 = k /\ p # Nil
    <3>1. p >= k /\ p # Nil  BY <1>3, <1>5, <2>7, <2>9
    <3> QED BY <1>3, <2>3, <2>7, <3>1
  <2>11. g[k + 1] = a  BY <1>1, <2>6, <2>9, <2>10 DEF Follows
  <2>12. k + 1 \in 0 .. KHeapTop /\ a # Nil  BY <1>3, <2>3, <2>10
  <2> QED BY <1>2, <2>3, <2>11, <2>12
<1> QED BY <1>4, <1>6
\* The heap between two calls: its blocks tile it, L are those not free,
\* and only where it grew are two free ones side by side, those in S
\* before their neighbours excepted.
GrownAt(x) == x >= KHeapInitial /\ (x - KHeapInitial) % KHeapPage = 0
MergedBut(mem, A, S) ==
    \A a \in A \ S : mem[a].free /\ mem[a].next # Nil /\ mem[mem[a].next].free => GrownAt(mem[a].next)
HeapOK(mem, A, e, L) ==
    /\ Tiled(mem, A, e) /\ e \in Nat /\ e <= KHeapTop /\ GrownAt(e)
    /\ L = {a \in A : ~mem[a].free}
    /\ MergedBut(mem, A, {})

HeapIInv == ~kheap_twice => HeapOK(kheap_mem, DOMAIN kheap_mem, heap_end, kheap_live)

\* Only the headers of the blocks count.
LEMMA SameBlocks ==
  ASSUME NEW mem, NEW A, NEW e, NEW L, HeapOK(mem, A, e, L),
         NEW m, A \subseteq DOMAIN m, \A a \in A : m[a] = mem[a]
  PROVE  HeapOK(m, A, e, L)
<1>1. Tiled(mem, A, e)  BY DEF HeapOK
<1>2. \A a \in A : mem[a].next # Nil => mem[a].next \in A  BY <1>1 DEF Tiled
<1>3. Tiled(m, A, e)  BY <1>1, <1>2 DEF Tiled, EndOf
<1>4. MergedBut(m, A, {})  BY <1>2 DEF HeapOK, MergedBut
<1>5. {a \in A : ~m[a].free} = {a \in A : ~mem[a].free}  OBVIOUS
<1> QED BY <1>3, <1>4, <1>5 DEF HeapOK

\* What a call leaves is what its list reaches.
LEMMA BecomesOK ==
  ASSUME NEW h, NEW A, NEW L, HeapOK(h.mem, A, h.end, L), Becomes(h)
  PROVE  HeapOK(kheap_mem', DOMAIN kheap_mem', heap_end', L)
<1>1. PICK mem, e : mem = h.mem /\ e = h.end  OBVIOUS
<1>2. HeapOK(mem, A, e, L)  BY <1>1
<1>3. Listed(mem) = A  BY <1>2, ListedAll DEF HeapOK
<1>4. PICK m : m = Restrict(mem, A)  OBVIOUS
<1>5. DOMAIN m = A /\ \A a \in A : m[a] = mem[a]  BY <1>4 DEF Restrict
<1>6. HeapOK(m, A, e, L)  BY <1>2, <1>5, SameBlocks
<1>7. kheap_mem' = m /\ heap_end' = e  BY <1>1, <1>3, <1>4 DEF Becomes
<1> QED BY <1>5, <1>6, <1>7

\* find_free() finds a free block that is large enough, or none.
LEMMA FoundFree ==
  ASSUME NEW mem, NEW A, NEW e, Tiled(mem, A, e), NEW n \in Nat, find_free(mem, n) # Nil
  PROVE  /\ find_free(mem, n) \in A /\ mem[find_free(mem, n)].free
         /\ mem[find_free(mem, n)].size >= n
<1>1. PICK g \in [0 .. KHeapTop -> A \cup {Nil}] : g = Nth(mem)  BY NthFollows
<1> DEFINE fits == {k \in 0 .. KHeapTop : g[k] # Nil /\ mem[g[k]].free /\ mem[g[k]].size >= n}
<1>2. find_free(mem, n) = IF fits = {} THEN Nil ELSE g[Min(fits)]  BY <1>1 DEF find_free
<1>3. fits # {}  BY <1>2
<1>4. fits \subseteq Nat  BY KHeapAssumption
<1>5. \E x \in fits : \A y \in fits : x <= y  BY <1>3, <1>4, SmallestNumber
<1>6. Min(fits) \in fits  BY <1>5 DEF Min
<1>7. PICK k \in fits : k = Min(fits)  BY <1>6
<1>8. find_free(mem, n) = g[k] /\ k \in 0 .. KHeapTop  BY <1>2, <1>3, <1>7
<1> QED BY <1>1, <1>8

\* Marking a block changes nothing of the tiling.
LEMMA SameShape ==
  ASSUME NEW mem, NEW A, NEW e, Tiled(mem, A, e),
         NEW m, A \subseteq DOMAIN m,
         \A a \in A : /\ m[a] \in HeapHeaders /\ m[a].size = mem[a].size /\ m[a].next = mem[a].next
                      /\ m[a].prev = mem[a].prev
  PROVE  Tiled(m, A, e)
<1>1. /\ A \subseteq Nat /\ 0 \in A /\ m[0].prev = Nil  BY DEF Tiled
<1>2. \A a \in A : EndOf(m, a) = EndOf(mem, a)  BY DEF EndOf
<1>3. ASSUME NEW a \in A
      PROVE  /\ EndOf(m, a) <= e
             /\ m[a].next = Nil => EndOf(m, a) = e
             /\ m[a].next # Nil => /\ m[a].next = EndOf(m, a) /\ m[a].next \in A
                                   /\ m[m[a].next].prev = a
             /\ a # 0 => m[a].prev \in A /\ m[m[a].prev].next = a
  BY <1>2 DEF Tiled
<1>4. \A a, b \in A : a < b => EndOf(m, a) <= b  BY <1>2 DEF Tiled
<1>5. \E a \in A : m[a].next = Nil  BY DEF Tiled
<1> QED BY <1>1, <1>3, <1>4, <1>5 DEF Tiled

\* split_block() and the mark: the block found is cut to size.
LEMMA SplitOK ==
  ASSUME NEW mem, NEW A, NEW e, NEW L, HeapOK(mem, A, e, L),
         NEW b \in A, mem[b].free, NEW n \in Nat, mem[b].size >= n
  PROVE  \E B : HeapOK([split_block(mem, b, n) EXCEPT ![b].free = FALSE], B, e, L \cup {b})
<1>1. /\ Tiled(mem, A, e) /\ e \in Nat /\ A \subseteq DOMAIN mem /\ A \subseteq Nat /\ 0 \in A /\ Nil \notin Nat
      /\ MergedBut(mem, A, {})
  BY DEF HeapOK, Tiled, Nil
<1>2. PICK blk \in HeapHeaders : blk = mem[b]  BY <1>1 DEF Tiled
<1>3. blk.size \in Nat /\ blk.next \in Nat \cup {Nil} /\ blk.prev \in Nat \cup {Nil} /\ b \in Nat /\ blk.free = TRUE
  BY <1>1, <1>2 DEF HeapHeaders
<1>4. CASE blk.size < n + 2
  <2>1. split_block(mem, b, n) = mem  BY <1>2, <1>4 DEF split_block
  <2>2. PICK m : m = [mem EXCEPT ![b].free = FALSE]  OBVIOUS
  <2>3. /\ DOMAIN m = DOMAIN mem /\ \A a \in A \ {b} : m[a] = mem[a]
        /\ m[b] \in HeapHeaders /\ m[b].size = blk.size /\ m[b].next = blk.next /\ m[b].prev = blk.prev
        /\ m[b].free = FALSE
    BY <1>1, <1>2, <2>2 DEF HeapHeaders
  <2>4. \A a \in A : /\ m[a] \in HeapHeaders /\ m[a].size = mem[a].size /\ m[a].next = mem[a].next
                      /\ m[a].prev = mem[a].prev /\ m[a].free = (IF a = b THEN FALSE ELSE mem[a].free)
    BY <1>1, <1>2, <2>3 DEF Tiled
  <2>5. Tiled(m, A, e)
    <3>1. A \subseteq DOMAIN m  BY <1>1, <2>3
    <3>2. \A a \in A : /\ m[a] \in HeapHeaders /\ m[a].size = mem[a].size /\ m[a].next = mem[a].next
                        /\ m[a].prev = mem[a].prev
      BY <2>4
    <3> QED BY <1>1, <3>1, <3>2, SameShape
  <2>6. MergedBut(m, A, {})
    <3>1. \A a \in A : mem[a].next # Nil => mem[a].next \in A  BY <1>1 DEF Tiled
    <3> QED BY <1>1, <2>4, <3>1 DEF MergedBut
  <2>7. L \cup {b} = {a \in A : ~m[a].free}  BY <2>4 DEF HeapOK
  <2> QED BY <2>1, <2>2, <2>5, <2>6, <2>7 DEF HeapOK
<1>5. CASE ~(blk.size < n + 2)
  <2>1. PICK rest \in Nat, left \in Nat : rest = b + 1 + n /\ left = blk.size - n - 1  BY <1>3, <1>5
  <2>2. rest \notin A /\ rest # b
    <3> SUFFICES ASSUME rest \in A PROVE FALSE  BY <1>3, <2>1
    <3>1. b < rest  BY <1>3, <2>1
    <3>2. b + 1 + blk.size <= rest  BY <1>1, <1>2, <3>1 DEF Tiled, EndOf
    <3> QED BY <1>3, <1>5, <2>1, <3>2
  <2> DEFINE hd == Header(left, TRUE, blk.next, b)
             cut == [blk EXCEPT !.size = n, !.next = rest]
             m1 == [mem EXCEPT ![b] = cut]
             new == HeaderAt(m1, rest, hd)
             m2 == IF blk.next = Nil THEN new ELSE [new EXCEPT ![blk.next].prev = rest]
             m == [m2 EXCEPT ![b].free = FALSE]
  <2>3. split_block(mem, b, n) = m2  BY <1>2, <1>5, <2>1 DEF split_block
  <2>4. /\ hd \in HeapHeaders /\ hd.size = left /\ hd.free = TRUE /\ hd.next = blk.next /\ hd.prev = b
        /\ cut \in HeapHeaders /\ cut.size = n /\ cut.free = TRUE /\ cut.next = rest /\ cut.prev = blk.prev
    BY <1>2, <1>3, <2>1 DEF HeapHeaders, Header
  <2> HIDE DEF hd, cut
  <2>5. /\ DOMAIN new = DOMAIN mem \cup {rest} /\ new[rest] = hd /\ new[b] = cut
        /\ \A a \in A \ {b} : new[a] = mem[a]
    BY <1>1, <2>2 DEF HeaderAt
  <2> HIDE DEF new
  <2>6. blk.next # Nil => blk.next \in A /\ blk.next # b /\ blk.next # rest /\ blk.next = b + 1 + blk.size
                         /\ mem[blk.next] \in HeapHeaders
    BY <1>1, <1>2, <1>3, <2>2 DEF Tiled, EndOf
  <2>7. /\ DOMAIN m2 = DOMAIN mem \cup {rest} /\ m2[rest] = hd /\ m2[b] = cut
        /\ \A a \in A \ {b} : /\ m2[a] \in HeapHeaders /\ m2[a].size = mem[a].size /\ m2[a].free = mem[a].free
                              /\ m2[a].next = mem[a].next
                              /\ m2[a].prev = IF a = blk.next THEN rest ELSE mem[a].prev
    <3>1. \A a \in A : mem[a] \in HeapHeaders /\ a # Nil  BY <1>1 DEF Tiled
    <3>2. CASE blk.next = Nil  BY <1>1, <2>5, <3>1, <3>2
    <3>3. CASE blk.next # Nil
      <4>1. PICK x \in A \ {b} : x = blk.next /\ x # rest  BY <2>6, <3>3
      <4>2. m2 = [new EXCEPT ![x].prev = rest]  BY <3>3, <4>1
      <4>3. /\ m2[x] = [mem[x] EXCEPT !.prev = rest] /\ \A a \in DOMAIN new \ {x} : m2[a] = new[a]
            /\ DOMAIN m2 = DOMAIN new
        BY <1>1, <2>5, <4>1, <4>2
      <4>4. /\ m2[x] \in HeapHeaders /\ m2[x].size = mem[x].size /\ m2[x].free = mem[x].free
            /\ m2[x].next = mem[x].next /\ m2[x].prev = rest
        BY <2>1, <3>1, <4>1, <4>3 DEF HeapHeaders
      <4> QED BY <1>1, <2>2, <2>5, <3>1, <4>1, <4>3, <4>4
    <3> QED BY <3>2, <3>3
  <2> HIDE DEF m2
  <2>8. /\ DOMAIN m = DOMAIN m2 /\ \A a \in DOMAIN m2 \ {b} : m[a] = m2[a]
        /\ m[b] \in HeapHeaders /\ m[b].size = n /\ m[b].free = FALSE /\ m[b].next = rest /\ m[b].prev = blk.prev
    <3>1. m[b] = [cut EXCEPT !.free = FALSE] /\ DOMAIN m = DOMAIN m2 /\ \A a \in DOMAIN m2 \ {b} : m[a] = m2[a]
      BY <1>1, <2>7
    <3>2. PICK c \in HeapHeaders : c = cut  BY <2>4
    <3>3. m[b] = [c EXCEPT !.free = FALSE]  BY <3>1, <3>2
    <3>4. /\ m[b] \in HeapHeaders /\ m[b].size = c.size /\ m[b].free = FALSE /\ m[b].next = c.next
          /\ m[b].prev = c.prev
      BY <3>3 DEF HeapHeaders
    <3> QED BY <2>4, <3>1, <3>2, <3>4
  <2> HIDE DEF m
  <2>9. PICK B : B = A \cup {rest}  OBVIOUS
  <2>10. /\ \A a \in B : m[a] \in HeapHeaders
         /\ \A a \in A \ {b} : /\ m[a].size = mem[a].size /\ m[a].free = mem[a].free /\ m[a].next = mem[a].next
                              /\ m[a].prev = IF a = blk.next THEN rest ELSE mem[a].prev
         /\ m[rest].size = left /\ m[rest].free = TRUE /\ m[rest].next = blk.next /\ m[rest].prev = b
    BY <1>1, <2>2, <2>4, <2>7, <2>8, <2>9
  <2>11. \A a \in A : /\ a \in Nat /\ mem[a].size \in Nat /\ a + 1 + mem[a].size <= e
                      /\ mem[a].next = Nil => a + 1 + mem[a].size = e
                      /\ mem[a].next # Nil => /\ mem[a].next = a + 1 + mem[a].size /\ mem[a].next \in A
                                              /\ mem[mem[a].next].prev = a
                      /\ a # 0 => mem[a].prev \in A /\ mem[mem[a].prev].next = a
                      /\ \A c \in A : a < c => a + 1 + mem[a].size <= c
    BY <1>1 DEF Tiled, EndOf, HeapHeaders
  <2>12. Tiled(m, B, e)
    <3>1. B \subseteq DOMAIN m /\ B \subseteq Nat /\ 0 \in B  BY <1>1, <2>7, <2>8, <2>9
    <3>2. m[0].prev = Nil
      <4>1. mem[0].prev = Nil  BY <1>1 DEF Tiled
      <4>2. blk.next # 0  BY <1>1, <1>3, <2>6
      <4> QED BY <1>1, <1>2, <2>8, <2>10, <4>1, <4>2
    <3>3. ASSUME NEW a \in B
          PROVE  /\ EndOf(m, a) <= e
                 /\ m[a].next = Nil => EndOf(m, a) = e
                 /\ m[a].next # Nil => /\ m[a].next = EndOf(m, a) /\ m[a].next \in B
                                       /\ m[m[a].next].prev = a
      <4>1. CASE a = rest  BY <1>1, <1>2, <1>3, <2>1, <2>6, <2>9, <2>10, <2>11, <4>1 DEF EndOf
      <4>2. CASE a = b  BY <1>1, <1>2, <1>3, <1>5, <2>1, <2>8, <2>9, <2>10, <2>11, <4>2 DEF EndOf
      <4>3. CASE a \in A \ {b}
        <5>1. m[a].next = mem[a].next /\ EndOf(m, a) = a + 1 + mem[a].size  BY <2>10, <4>3 DEF EndOf
        <5>2. ASSUME mem[a].next # Nil PROVE m[mem[a].next].prev = a
          <6>1. mem[a].next \in A /\ mem[mem[a].next].prev = a  BY <2>11, <4>3, <5>2
          <6>2. CASE mem[a].next = b  BY <1>2, <2>8, <6>1, <6>2
          <6>3. CASE mem[a].next # b
            <7>1. mem[a].next # blk.next
              <8> SUFFICES ASSUME mem[a].next = blk.next PROVE FALSE  OBVIOUS
              <8>1. mem[blk.next].prev = b  BY <1>2, <2>11, <5>2
              <8> QED BY <4>3, <6>1, <8>1
            <7> QED BY <2>10, <6>1, <6>3, <7>1
          <6> QED BY <6>2, <6>3
        <5> QED BY <2>9, <2>11, <4>3, <5>1, <5>2
      <4> QED BY <2>9, <4>1, <4>2, <4>3
    <3>4. ASSUME NEW a \in B, a # 0 PROVE m[a].prev \in B /\ m[m[a].prev].next = a
      <4>1. CASE a = rest  BY <2>8, <2>9, <2>10, <4>1
      <4>2. CASE a \in A /\ a = blk.next /\ a # b  BY <2>9, <2>10, <4>2
      <4>3. CASE a \in A /\ (a # blk.next \/ a = b)
        <5>1. m[a].prev = mem[a].prev /\ mem[a].prev \in A /\ mem[mem[a].prev].next = a
          BY <1>2, <2>8, <2>10, <2>11, <3>4, <4>3
        <5>2. mem[a].prev # b
          <6> SUFFICES ASSUME mem[a].prev = b PROVE FALSE  OBVIOUS
          <6>1. blk.next = a /\ a = b  BY <1>2, <4>3, <5>1
          <6> QED BY <1>1, <1>3, <2>6, <6>1
        <5> QED BY <2>9, <2>10, <5>1, <5>2
      <4> QED BY <2>9, <4>1, <4>2, <4>3
    <3>5. ASSUME NEW a \in B, NEW c \in B, a < c PROVE EndOf(m, a) <= c
      <4>1. CASE a \in A /\ c \in A  BY <1>2, <1>3, <1>5, <2>8, <2>10, <2>11, <3>5, <4>1 DEF EndOf
      <4>2. CASE a = rest /\ c \in A
        <5>1. b < c  BY <1>1, <1>3, <2>1, <3>5, <4>2
        <5>2. b + 1 + blk.size <= c /\ c \in Nat  BY <1>1, <1>2, <2>11, <4>2, <5>1
        <5>3. EndOf(m, a) = rest + 1 + left  BY <2>10, <4>2 DEF EndOf
        <5> QED BY <1>3, <2>1, <5>2, <5>3
      <4>3. CASE a = b /\ c = rest  BY <1>3, <2>1, <2>8, <4>3 DEF EndOf
      <4>4. CASE a \in A \ {b} /\ c = rest
        <5>1. CASE a < b  BY <1>1, <1>3, <2>1, <2>10, <2>11, <4>4, <5>1 DEF EndOf
        <5>2. CASE a > b  BY <1>1, <1>2, <1>3, <1>5, <2>1, <2>11, <3>5, <4>4, <5>2
        <5> QED BY <1>1, <1>3, <4>4, <5>1, <5>2
      <4> QED BY <2>1, <2>9, <3>5, <4>1, <4>2, <4>3, <4>4
    <3>6. \E a \in B : m[a].next = Nil
      <4>1. PICK a \in A : mem[a].next = Nil  BY <1>1 DEF Tiled
      <4> QED BY <1>2, <2>9, <2>10, <4>1
    <3> QED BY <2>10, <3>1, <3>2, <3>3, <3>4, <3>5, <3>6 DEF Tiled
  <2>13. MergedBut(m, B, {})
    <3> SUFFICES ASSUME NEW a \in B, m[a].free, m[a].next # Nil, m[m[a].next].free PROVE GrownAt(m[a].next)
      BY DEF MergedBut
    <3>1. a # b /\ m[a].next # b  BY <2>8
    <3>2. CASE a = rest
      <4>1. m[a].next = blk.next /\ blk.next \in A /\ blk.next # b /\ mem[blk.next].free
        BY <2>6, <2>10, <3>1, <3>2
      <4> QED BY <1>1, <1>2, <1>3, <4>1 DEF MergedBut
    <3>3. CASE a # rest
      <4>1. a \in A \ {b} /\ m[a].next = mem[a].next /\ mem[a].free  BY <2>9, <2>10, <3>1, <3>3
      <4>2. mem[a].next \in A \ {b}  BY <2>11, <3>1, <4>1
      <4> QED BY <1>1, <2>10, <4>1, <4>2 DEF MergedBut
    <3> QED BY <3>2, <3>3
  <2>14. L \cup {b} = {a \in B : ~m[a].free}
    <3>1. L = {a \in A : ~mem[a].free}  BY DEF HeapOK
    <3> QED BY <2>8, <2>9, <2>10, <3>1
  <2>15. HeapOK(m, B, e, L \cup {b})  BY <2>12, <2>13, <2>14 DEF HeapOK
  <2> QED BY <2>3, <2>15 DEF m
<1> QED BY <1>4, <1>5
\* A block and the one after it made one.
LEMMA JoinTiled ==
  ASSUME NEW mem, NEW A, NEW e, Tiled(mem, A, e), NEW a \in A, NEW x \in A, x = mem[a].next,
         NEW m, A \subseteq DOMAIN m,
         \A c \in A \ {x} :
            /\ m[c] \in HeapHeaders
            /\ m[c].size = IF c = a THEN mem[a].size + 1 + mem[x].size ELSE mem[c].size
            /\ m[c].next = IF c = a THEN mem[x].next ELSE mem[c].next
            /\ m[c].prev = IF c = mem[x].next THEN a ELSE mem[c].prev
  PROVE  Tiled(m, A \ {x}, e)
<1>1. A \subseteq Nat /\ 0 \in A /\ mem[0].prev = Nil /\ Nil \notin Nat /\ x # Nil  BY DEF Tiled, Nil
<1>2. \A c \in A : /\ c \in Nat /\ mem[c].size \in Nat /\ c + 1 + mem[c].size <= e
                   /\ mem[c].next = Nil => c + 1 + mem[c].size = e
                   /\ mem[c].next # Nil => /\ mem[c].next = c + 1 + mem[c].size /\ mem[c].next \in A
                                           /\ mem[mem[c].next].prev = c
                   /\ c # 0 => mem[c].prev \in A /\ mem[mem[c].prev].next = c
                   /\ \A d \in A : c < d => c + 1 + mem[c].size <= d
  BY DEF Tiled, EndOf, HeapHeaders
<1>3. /\ x = a + 1 + mem[a].size /\ mem[a].size \in Nat /\ a \in Nat /\ x \in Nat /\ mem[x].size \in Nat
      /\ x # a /\ x # 0 /\ mem[x].prev = a
  BY <1>1, <1>2
<1>4. PICK n : n = mem[x].next  OBVIOUS
<1>5. n # Nil => n \in A /\ n # x /\ n # a /\ n # 0 /\ n = x + 1 + mem[x].size  BY <1>1, <1>2, <1>3, <1>4
<1>6. A \ {x} \subseteq DOMAIN m /\ A \ {x} \subseteq Nat /\ 0 \in A \ {x} /\ m[0].prev = Nil
  BY <1>1, <1>3, <1>4, <1>5
<1>7. ASSUME NEW c \in A \ {x}
      PROVE  /\ EndOf(m, c) <= e
             /\ m[c].next = Nil => EndOf(m, c) = e
             /\ m[c].next # Nil => /\ m[c].next = EndOf(m, c) /\ m[c].next \in A \ {x}
                                   /\ m[m[c].next].prev = c
  <2>1. CASE c = a
    <3>1. m[c].next = n /\ EndOf(m, c) = x + 1 + mem[x].size  BY <1>3, <1>4, <2>1 DEF EndOf
    <3>2. n # Nil => m[n].prev = a  BY <1>4, <1>5
    <3> QED BY <1>2, <1>4, <1>5, <2>1, <3>1, <3>2
  <2>2. CASE c # a
    <3>1. m[c].next = mem[c].next /\ EndOf(m, c) = c + 1 + mem[c].size  BY <2>2 DEF EndOf
    <3>2. ASSUME mem[c].next # Nil PROVE mem[c].next \in A \ {x} /\ m[mem[c].next].prev = c
      <4>1. mem[c].next \in A /\ mem[mem[c].next].prev = c  BY <1>2, <3>2
      <4>2. mem[c].next # x  BY <1>3, <2>2, <4>1
      <4>3. mem[c].next # n
        <5> SUFFICES ASSUME mem[c].next = n PROVE FALSE  OBVIOUS
        <5>1. mem[n].prev = x  BY <1>2, <1>4, <3>2
        <5> QED BY <4>1, <5>1
      <4> QED BY <1>4, <4>1, <4>2, <4>3
    <3> QED BY <1>2, <3>1, <3>2
  <2> QED BY <2>1, <2>2
<1>8. ASSUME NEW c \in A \ {x}, c # 0 PROVE m[c].prev \in A \ {x} /\ m[m[c].prev].next = c
  <2>1. CASE c = n  BY <1>3, <1>4, <2>1
  <2>2. CASE c # n
    <3>1. m[c].prev = mem[c].prev /\ mem[c].prev \in A /\ mem[mem[c].prev].next = c  BY <1>2, <1>4, <1>8, <2>2
    <3>2. mem[c].prev # x /\ mem[c].prev # a  BY <1>4, <2>2, <3>1
    <3> QED BY <3>1, <3>2
  <2> QED BY <2>1, <2>2
<1>9. ASSUME NEW c \in A \ {x}, NEW d \in A \ {x}, c < d PROVE EndOf(m, c) <= d
  <2>1. c \in Nat /\ d \in Nat /\ c + 1 + mem[c].size <= d  BY <1>2, <1>9
  <2>2. CASE c = a
    <3>1. x < d  BY <1>3, <2>1, <2>2
    <3>2. x + 1 + mem[x].size <= d  BY <1>2, <3>1
    <3>3. EndOf(m, c) = x + 1 + mem[x].size  BY <1>3, <2>2 DEF EndOf
    <3> QED BY <3>2, <3>3
  <2>3. CASE c # a  BY <2>1, <2>3 DEF EndOf
  <2> QED BY <2>2, <2>3
<1>10. \E c \in A \ {x} : m[c].next = Nil
  <2>1. PICK c \in A : mem[c].next = Nil  BY DEF Tiled
  <2>2. CASE c = x  BY <1>3, <2>1, <2>2
  <2>3. CASE c # x  BY <1>1, <2>1, <2>3
  <2> QED BY <2>2, <2>3
<1> QED BY <1>6, <1>7, <1>8, <1>9, <1>10 DEF Tiled

\* It makes them one block.
LEMMA Joined ==
  ASSUME NEW mem, NEW A, NEW e, Tiled(mem, A, e), NEW a \in A, NEW x \in A, x = mem[a].next
  PROVE  /\ Tiled(HeapMerged(mem, a, x), A \ {x}, e)
         /\ \A c \in A \ {x} :
               /\ HeapMerged(mem, a, x)[c].free = mem[c].free
               /\ HeapMerged(mem, a, x)[c].next = IF c = a THEN mem[x].next ELSE mem[c].next
<1>0. PICK m1, m : /\ m1 = [mem EXCEPT ![a].size = @ + 1 + mem[x].size, ![a].next = mem[x].next]
                   /\ m = HeapMerged(mem, a, x)
  OBVIOUS
<1>1. A \subseteq Nat /\ A \subseteq DOMAIN mem /\ Nil \notin Nat /\ \A c \in A : mem[c] \in HeapHeaders
  BY DEF Tiled, Nil
<1>2. PICK s \in Nat, n \in Nat \cup {Nil} : s = mem[a].size + 1 + mem[x].size /\ n = mem[x].next
  BY <1>1 DEF HeapHeaders
<1>3. x # a /\ s # mem[a].size /\ (n # Nil => n \in A /\ n # a /\ n # x)
  <2>1. x = a + 1 + mem[a].size /\ mem[a].size \in Nat /\ mem[x].size \in Nat /\ a \in Nat
    BY <1>1 DEF Tiled, EndOf, HeapHeaders
  <2>2. n # Nil => n \in A /\ n = x + 1 + mem[x].size  BY <1>2 DEF Tiled, EndOf
  <2>3. PICK p \in Nat, q \in Nat : p = mem[a].size /\ q = mem[x].size  BY <2>1
  <2>4. x = a + 1 + p /\ s = p + 1 + q /\ (n # Nil => n \in A /\ n = x + 1 + q)  BY <1>2, <2>1, <2>2, <2>3
  <2>5. x \in Nat /\ x # a /\ s # p  BY <2>1, <2>4
  <2> QED BY <2>1, <2>3, <2>4, <2>5
<1>4. PICK o \in HeapHeaders : o = mem[a]  BY <1>1
<1>5. PICK w : w = [o EXCEPT !.size = s, !.next = n]  OBVIOUS
<1>6. w \in HeapHeaders /\ w.size = s /\ w.next = n /\ w.prev = o.prev /\ w.free = o.free
  BY <1>5 DEF HeapHeaders
<1>7. m1 = [mem EXCEPT ![a].size = s, ![a].next = n]
  <2>1. mem[a].size + 1 + mem[x].size = s /\ mem[x].next = n  BY <1>2
  <2> QED BY <1>0, <2>1, Zenon
<1>8. DOMAIN m1 = DOMAIN mem /\ m1[a] = w /\ \A c \in DOMAIN mem \ {a} : m1[c] = mem[c]
  BY <1>1, <1>4, <1>5, <1>7
<1>9a. m = IF n = Nil THEN m1 ELSE [m1 EXCEPT ![n].prev = a]  BY <1>0, <1>2, Zenon DEF HeapMerged
<1>10. /\ DOMAIN m = DOMAIN mem
       /\ \A c \in A : /\ m[c] \in HeapHeaders /\ m[c].size = m1[c].size /\ m[c].next = m1[c].next
                        /\ m[c].free = m1[c].free /\ m[c].prev = IF c = n THEN a ELSE m1[c].prev
  <2>1. \A c \in A : m1[c] \in HeapHeaders /\ c # Nil  BY <1>1, <1>6, <1>8
  <2>2. CASE n = Nil  BY <1>9a, <1>8, <2>1, <2>2
  <2>3. CASE n # Nil
    <3>1. PICK r \in HeapHeaders : r = m1[n]  BY <1>3, <2>1, <2>3
    <3>2. m = [m1 EXCEPT ![n] = [r EXCEPT !.prev = a]]  BY <1>9a, <2>3, <3>1
    <3>3. PICK r2 : r2 = [r EXCEPT !.prev = a]  OBVIOUS
    <3>4. r2 \in HeapHeaders /\ r2.prev = a /\ r2.size = r.size /\ r2.next = r.next /\ r2.free = r.free
      BY <1>1, <3>3 DEF HeapHeaders
    <3>5. m[n] = r2 /\ DOMAIN m = DOMAIN mem /\ \A c \in DOMAIN mem \ {n} : m[c] = m1[c]
      BY <1>1, <1>3, <1>8, <2>3, <3>2, <3>3
    <3> SUFFICES ASSUME NEW c \in A
                 PROVE  /\ m[c] \in HeapHeaders /\ m[c].size = m1[c].size /\ m[c].next = m1[c].next
                        /\ m[c].free = m1[c].free /\ m[c].prev = IF c = n THEN a ELSE m1[c].prev
      BY <3>5
    <3>6. CASE c = n  BY <3>1, <3>4, <3>5, <3>6
    <3>7. CASE c # n
      <4>1. m[c] = m1[c]  BY <1>1, <3>5, <3>7
      <4> QED BY <2>1, <3>7, <4>1
    <3> QED BY <3>6, <3>7
  <2> QED BY <2>2, <2>3
<1>11. ASSUME NEW c \in A \ {x}
       PROVE  /\ m[c] \in HeapHeaders
              /\ m[c].size = IF c = a THEN mem[a].size + 1 + mem[x].size ELSE mem[c].size
              /\ m[c].next = IF c = a THEN mem[x].next ELSE mem[c].next
              /\ m[c].prev = IF c = mem[x].next THEN a ELSE mem[c].prev
              /\ m[c].free = mem[c].free
  <2>1. CASE c = a  BY <1>2, <1>4, <1>6, <1>8, <1>10, <2>1
  <2>2. CASE c # a
    <3>1. m1[c] = mem[c]  BY <1>1, <1>8, <2>2
    <3> QED BY <1>2, <1>10, <2>2, <3>1
  <2> QED BY <2>1, <2>2
<1>12. A \subseteq DOMAIN m  BY <1>1, <1>10
<1>13. Tiled(m, A \ {x}, e)
  <2>1. \A c \in A \ {x} :
            /\ m[c] \in HeapHeaders
            /\ m[c].size = IF c = a THEN mem[a].size + 1 + mem[x].size ELSE mem[c].size
            /\ m[c].next = IF c = a THEN mem[x].next ELSE mem[c].next
            /\ m[c].prev = IF c = mem[x].next THEN a ELSE mem[c].prev
    BY <1>11
  <2> QED BY <1>12, <2>1, JoinTiled
<1> QED BY <1>0, <1>11, <1>13
\* kfree(): what was handed out is given back, with its free neighbours.
LEMMA FreeOK ==
  ASSUME NEW mem, NEW A, NEW e, NEW L, HeapOK(mem, A, e, L), NEW b \in L
  PROVE  \E B : HeapOK(HeapFreed(mem, b), B, e, L \ {b})
<1>1. /\ Tiled(mem, A, e) /\ MergedBut(mem, A, {}) /\ L = {a \in A : ~mem[a].free} /\ b \in A
      /\ A \subseteq Nat /\ A \subseteq DOMAIN mem /\ Nil \notin Nat
  BY DEF HeapOK, Tiled, Nil
<1>2. PICK m1 : m1 = [mem EXCEPT ![b].free = TRUE]  OBVIOUS
<1>3. \A a \in A : /\ m1[a] \in HeapHeaders /\ m1[a].size = mem[a].size /\ m1[a].next = mem[a].next
                   /\ m1[a].prev = mem[a].prev /\ (a # b => m1[a].free = mem[a].free) /\ m1[b].free = TRUE
  <2>1. PICK o \in HeapHeaders : o = mem[b]  BY <1>1 DEF Tiled
  <2>2. PICK w : w = [o EXCEPT !.free = TRUE]  OBVIOUS
  <2>3. w \in HeapHeaders /\ w.size = o.size /\ w.next = o.next /\ w.prev = o.prev /\ w.free = TRUE
    BY <2>2 DEF HeapHeaders
  <2>4. m1[b] = w /\ \A a \in A \ {b} : m1[a] = mem[a]  BY <1>1, <1>2, <2>1, <2>2
  <2>5. \A a \in A : mem[a] \in HeapHeaders  BY <1>1 DEF Tiled
  <2> QED BY <2>1, <2>3, <2>4, <2>5
<1>4. Tiled(m1, A, e)
  <2>1. A \subseteq DOMAIN m1  BY <1>1, <1>2
  <2>2. \A a \in A : /\ m1[a] \in HeapHeaders /\ m1[a].size = mem[a].size /\ m1[a].next = mem[a].next
                     /\ m1[a].prev = mem[a].prev
    BY <1>3
  <2> QED BY <1>1, <2>1, <2>2, SameShape
<1>5. PICK nx : nx = mem[b].next  OBVIOUS
<1>6. PICK joins \in BOOLEAN : joins = (nx # Nil /\ m1[nx].free)  OBVIOUS
<1>7. joins => nx \in A /\ nx # b /\ mem[nx].free /\ nx = m1[b].next
  <2> SUFFICES ASSUME joins PROVE nx \in A /\ nx # b /\ mem[nx].free /\ nx = m1[b].next  OBVIOUS
  <2>1. nx \in A /\ nx = b + 1 + mem[b].size /\ mem[b].size \in Nat /\ b \in Nat
    BY <1>1, <1>5, <1>6 DEF Tiled, EndOf, HeapHeaders
  <2>2. nx # b  BY <2>1
  <2> QED BY <1>1, <1>3, <1>5, <1>6, <2>1, <2>2
<1>8. PICK m3 : m3 = IF joins THEN HeapMerged(m1, b, nx) ELSE m1  OBVIOUS
<1>9. PICK C : C = IF joins THEN A \ {nx} ELSE A  OBVIOUS
<1>10. /\ Tiled(m3, C, e) /\ b \in C
       /\ \A c \in C : /\ m3[c].free = m1[c].free
                       /\ m3[c].next = IF joins /\ c = b THEN mem[nx].next ELSE mem[c].next
  <2>1. CASE joins
    <3>1. /\ Tiled(m3, A \ {nx}, e)
          /\ \A c \in A \ {nx} : /\ m3[c].free = m1[c].free
                               /\ m3[c].next = IF c = b THEN m1[nx].next ELSE m1[c].next
      <4>1. nx \in A /\ nx = m1[b].next /\ m3 = HeapMerged(m1, b, nx)  BY <1>7, <1>8, <2>1
      <4>2. b \in A  BY <1>1
      <4> QED BY <1>4, <4>1, <4>2, Joined
    <3> QED BY <1>1, <1>3, <1>7, <1>9, <2>1, <3>1
  <2>2. CASE ~joins  BY <1>1, <1>3, <1>4, <1>8, <1>9, <2>2
  <2> QED BY <2>1, <2>2
<1>11. PICK pv : pv = m3[b].prev  OBVIOUS
<1>12. HeapFreed(mem, b) = IF pv = Nil \/ ~m3[pv].free THEN m3 ELSE HeapMerged(m3, pv, b)
  <2>1. m1[b].next = nx  BY <1>1, <1>3, <1>5
  <2>2. m3 = IF nx = Nil \/ ~m1[nx].free THEN m1 ELSE HeapMerged(m1, b, nx)  BY <1>6, <1>8
  <2> QED BY <1>2, <1>11, <2>1, <2>2 DEF HeapFreed
<1>13. \A c \in C : m3[c].next # Nil => m3[c].next \in C /\ m3[m3[c].next].prev = c  BY <1>10 DEF Tiled
<1>14. ASSUME NEW c \in C, m3[c].free, m3[c].next # Nil, m3[c].next # b, m3[m3[c].next].free
       PROVE  GrownAt(m3[c].next)
  <2>1. PICK x \in C : x = m3[c].next /\ x # b /\ m3[x].free  BY <1>13, <1>14
  <2>2. x \in A /\ mem[x].free /\ c \in A  BY <1>3, <1>9, <1>10, <2>1
  <2>3. CASE c = b
    <3>1. joins
      <4> SUFFICES ASSUME ~joins PROVE FALSE  OBVIOUS
      <4>1. x = nx /\ m1[x].free  BY <1>5, <1>10, <2>1, <2>3
      <4> QED BY <1>6, <1>14, <2>1, <4>1
    <3>2. x = mem[nx].next /\ nx \in A /\ mem[nx].free  BY <1>7, <1>10, <2>1, <2>3, <3>1
    <3> QED BY <1>1, <1>14, <2>1, <2>2, <3>2 DEF MergedBut
  <2>4. CASE c # b
    <3>1. x = mem[c].next /\ mem[c].free  BY <1>3, <1>10, <1>14, <2>1, <2>2, <2>4
    <3> QED BY <1>1, <1>14, <2>1, <2>2, <3>1 DEF MergedBut
  <2> QED BY <2>3, <2>4
<1>15. L \ {b} = {c \in C : ~m3[c].free} /\ m3[b].free
  <2>1. m3[b].free  BY <1>1, <1>3, <1>10
  <2>2. ASSUME NEW c PROVE c \in L \ {b} <=> c \in C /\ ~m3[c].free
    <3>1. CASE c = b  BY <2>1, <3>1
    <3>2. CASE c # b /\ c \in C
      <4>1. c \in A /\ m3[c].free = mem[c].free  BY <1>3, <1>9, <1>10, <3>2
      <4> QED BY <1>1, <3>2, <4>1
    <3>3. CASE c \notin C  BY <1>1, <1>7, <1>9, <3>3
    <3> QED BY <3>1, <3>2, <3>3
  <2> QED BY <2>1, <2>2
<1>16. e \in Nat /\ e <= KHeapTop /\ GrownAt(e)  BY DEF HeapOK
<1>17. CASE pv = Nil \/ ~m3[pv].free
  <2>1. MergedBut(m3, C, {})
    <3> SUFFICES ASSUME NEW c \in C, m3[c].free, m3[c].next # Nil, m3[m3[c].next].free
                 PROVE  GrownAt(m3[c].next)
      BY DEF MergedBut
    <3>1. m3[c].next # b
      <4> SUFFICES ASSUME m3[c].next = b PROVE FALSE  OBVIOUS
      <4>1. pv = c /\ c # Nil  BY <1>1, <1>9, <1>11, <1>13
      <4> QED BY <1>17, <4>1
    <3> QED BY <1>14, <3>1
  <2>2. HeapOK(m3, C, e, L \ {b})  BY <1>10, <1>15, <1>16, <2>1 DEF HeapOK
  <2> QED BY <1>12, <1>17, <2>2
<1>18. CASE ~(pv = Nil \/ ~m3[pv].free)
  <2>1. pv \in C /\ m3[pv].next = b /\ m3[pv].free
    <3>1. b # 0  BY <1>10, <1>11, <1>18 DEF Tiled
    <3> QED BY <1>10, <1>11, <1>18, <3>1 DEF Tiled
  <2>2. PICK m4 : m4 = HeapMerged(m3, pv, b)  OBVIOUS
  <2>2a. Tiled(m3, C, e) /\ b \in C  BY <1>10
  <2>3. /\ Tiled(m4, C \ {b}, e)
        /\ \A c \in C \ {b} : /\ m4[c].free = m3[c].free
                            /\ m4[c].next = IF c = pv THEN m3[b].next ELSE m3[c].next
    BY <2>1, <2>2, <2>2a, Joined
  <2>4. MergedBut(m4, C \ {b}, {})
    <3> SUFFICES ASSUME NEW c \in C \ {b}, m4[c].free, m4[c].next # Nil, m4[m4[c].next].free
                 PROVE  GrownAt(m4[c].next)
      BY DEF MergedBut
    <3>1. PICK x \in C \ {b} : x = m4[c].next  BY <2>3 DEF Tiled
    <3>2. m3[x].free /\ x # b  BY <2>3, <3>1
    <3>3. CASE c = pv
      <4>1. x = m3[b].next  BY <2>3, <3>1, <3>3
      <4> QED BY <1>10, <1>14, <1>15, <3>1, <3>2, <4>1
    <3>4. CASE c # pv
      <4>1. x = m3[c].next /\ m3[c].free  BY <2>3, <3>1, <3>4
      <4> QED BY <1>14, <3>1, <3>2, <4>1
    <3> QED BY <3>3, <3>4
  <2>5. L \ {b} = {c \in C \ {b} : ~m4[c].free}  BY <1>15, <2>3
  <2>6. HeapOK(m4, C \ {b}, e, L \ {b})  BY <1>16, <2>3, <2>4, <2>5 DEF HeapOK
  <2> QED BY <1>12, <1>18, <2>2, <2>6
<1> QED BY <1>17, <1>18

\* Expansion takes whole pages, and at least one.
LEMMA WholePages ==
  ASSUME NEW R \in Nat \ {0}, NEW n \in Nat
  PROVE  (n + 1 + R - 1) \div R \in Nat \ {0}
<1>1. PICK a \in Nat : a = n + 1 + R - 1 /\ a >= R  OBVIOUS
<1>2. a \div R \in Nat /\ a < R * (a \div R) + R  OBVIOUS
<1>3. a \div R # 0
  <2> SUFFICES ASSUME a \div R = 0 PROVE FALSE  OBVIOUS
  <2>1. R * (a \div R) = 0  OBVIOUS
  <2> QED BY <1>1, <1>2, <2>1
<1> QED BY <1>1, <1>2, <1>3

\* A heap that grew by whole pages has an end where it may grow.
LEMMA GrownByPages ==
  ASSUME NEW e \in Nat, GrownAt(e), NEW q \in Nat
  PROVE  GrownAt(e + q * KHeapPage)
<1>1. KHeapPage \in Nat \ {0} /\ KHeapInitial \in Nat  BY KHeapAssumption
<1>2. PICK a \in Nat : a = e - KHeapInitial /\ a % KHeapPage = 0  BY <1>1 DEF GrownAt
<1>3. PICK p \in Nat : a = KHeapPage * p
  <2>1. PICK p \in Nat, r \in 0 .. KHeapPage - 1 : a = KHeapPage * p + r /\ r = a % KHeapPage  BY <1>1, DivMod
  <2>2. PICK y \in Int : y = KHeapPage * p  BY <1>1
  <2>3. a = y + r  BY <2>1, <2>2, Zenon
  <2>4. r = 0  BY <1>2, <2>1
  <2> QED BY <2>2, <2>3, <2>4
<1>4. PICK x \in Nat : x = q * KHeapPage  BY <1>1
<1>5. a + x = KHeapPage * (p + q) + 0
  <2>1. KHeapPage * (p + q) = KHeapPage * p + KHeapPage * q  BY <1>1
  <2>2. KHeapPage * q = x  BY <1>1, <1>4
  <2>3. KHeapPage * p = a  BY <1>3
  <2>4. PICK y \in Int : y = KHeapPage * (p + q)  BY <1>1
  <2>5. y = a + x  BY <2>1, <2>2, <2>3, <2>4
  <2> QED BY <2>4, <2>5
<1>6. (a + x) % KHeapPage = 0
  <2>1. a + x \in Nat /\ p + q \in Int /\ 0 \in 0 .. KHeapPage - 1  BY <1>1
  <2> QED BY <1>1, <1>5, <2>1, DivModUnique
<1>7. (e + x) - KHeapInitial = a + x /\ e + x >= KHeapInitial  BY <1>1, <1>2
<1> QED BY <1>4, <1>6, <1>7 DEF GrownAt

\* A heap between two calls.
HeapLeft(h, L) == \E B, m, d : h = [mem |-> m, end |-> d] /\ HeapOK(m, B, d, L)

\* kheap_expand(): the new block follows the last one.
LEMMA ExpandOK ==
  ASSUME NEW mem, NEW A, NEW e, NEW L, HeapOK(mem, A, e, L), NEW n \in Nat
  PROVE  HeapLeft(kheap_expand([mem |-> mem, end |-> e], n), L)
<1>1. /\ Tiled(mem, A, e) /\ MergedBut(mem, A, {}) /\ L = {a \in A : ~mem[a].free}
      /\ e \in Nat /\ e <= KHeapTop /\ GrownAt(e)
      /\ A \subseteq Nat /\ A \subseteq DOMAIN mem /\ 0 \in A /\ Nil \notin Nat
  BY DEF HeapOK, Tiled, Nil
<1>2. PICK q \in Nat \ {0} : q = (n + 1 + KHeapPage - 1) \div KHeapPage  BY KHeapAssumption, WholePages
<1>3. PICK cells \in Nat \ {0} : cells = q * KHeapPage  BY KHeapAssumption
<1>4. GrownAt(e + cells)  BY <1>1, <1>2, <1>3, GrownByPages
<1>5. PICK last : last = CHOOSE a \in Listed(mem) : mem[a].next = Nil  OBVIOUS
<1>6. last \in A /\ mem[last].next = Nil
  <2>1. Listed(mem) = A  BY <1>1, ListedAll
  <2>2. \E a \in A : mem[a].next = Nil  BY <1>1 DEF Tiled
  <2> QED BY <1>5, <2>1, <2>2
<1>7. PICK hd : hd = Header(cells - 1, TRUE, Nil, last)  OBVIOUS
<1>8. /\ hd \in HeapHeaders /\ hd.size = cells - 1 /\ hd.free = TRUE /\ hd.next = Nil /\ hd.prev = last
  <2>1. cells - 1 \in Nat /\ last \in Nat /\ TRUE \in BOOLEAN  BY <1>1, <1>6
  <2> QED BY <1>7, <2>1 DEF Header, HeapHeaders
<1>9. PICK m : m = HeaderAt([mem EXCEPT ![last].next = e], e, hd)  OBVIOUS
<1>10. kheap_expand([mem |-> mem, end |-> e], n) =
           IF e + cells > KHeapTop THEN [mem |-> mem, end |-> e] ELSE [mem |-> m, end |-> e + cells]
  BY <1>2, <1>3, <1>5, <1>7, <1>9 DEF kheap_expand
<1>11. CASE e + cells > KHeapTop  BY <1>10, <1>11 DEF HeapLeft
<1>12. CASE ~(e + cells > KHeapTop)
  <2>1. \A a \in A : /\ a \in Nat /\ mem[a] \in HeapHeaders /\ mem[a].size \in Nat /\ a + 1 + mem[a].size <= e
                     /\ mem[a].next = Nil => a + 1 + mem[a].size = e
                     /\ mem[a].next # Nil => /\ mem[a].next = a + 1 + mem[a].size /\ mem[a].next \in A
                                             /\ mem[mem[a].next].prev = a
                     /\ a # 0 => mem[a].prev \in A /\ mem[mem[a].prev].next = a
                     /\ \A c \in A : a < c => a + 1 + mem[a].size <= c
    BY <1>1 DEF Tiled, EndOf, HeapHeaders
  <2>2. e \notin A
    <3> SUFFICES ASSUME e \in A PROVE FALSE  OBVIOUS
    <3>1. e + 1 + mem[e].size <= e /\ mem[e].size \in Nat  BY <2>1
    <3> QED BY <1>1, <3>1
  <2>3. \A a \in A \ {last} : mem[a].next # Nil
    <3> SUFFICES ASSUME NEW a \in A \ {last}, mem[a].next = Nil PROVE FALSE  OBVIOUS
    <3>1. PICK s \in Nat, t \in Nat : s = mem[a].size /\ t = mem[last].size  BY <1>6, <2>1
    <3>2. a + 1 + s = e /\ last + 1 + t = e /\ a \in Nat /\ last \in Nat  BY <1>6, <2>1, <3>1
    <3>3. (a < last => a + 1 + s <= last) /\ (last < a => last + 1 + t <= a)  BY <1>6, <2>1, <3>1
    <3> QED BY <3>2, <3>3
  <2>4. PICK o \in HeapHeaders : o = mem[last]  BY <1>6, <2>1
  <2>5. PICK w : w = [o EXCEPT !.next = e]  OBVIOUS
  <2>6. w \in HeapHeaders /\ w.size = o.size /\ w.free = o.free /\ w.next = e /\ w.prev = o.prev
    BY <1>1, <2>5 DEF HeapHeaders
  <2>7. PICK m1 : m1 = [mem EXCEPT ![last].next = e]  OBVIOUS
  <2>8. DOMAIN m1 = DOMAIN mem /\ m1[last] = w /\ \A a \in A \ {last} : m1[a] = mem[a]
    BY <1>1, <1>6, <2>4, <2>5, <2>7
  <2>9. /\ DOMAIN m = DOMAIN mem \cup {e} /\ m[e] = hd /\ m[last] = w
        /\ \A a \in A \ {last} : m[a] = mem[a]
    <3>1. m = HeaderAt(m1, e, hd)  BY <1>9, <2>7
    <3> QED BY <1>1, <1>6, <2>2, <2>8, <3>1 DEF HeaderAt
  <2>10. PICK B : B = A \cup {e}  OBVIOUS
  <2>11. PICK d \in Nat : d = e + cells  BY <1>1
  <2>12. Tiled(m, B, d)
    <3>1. B \subseteq DOMAIN m /\ B \subseteq Nat /\ 0 \in B  BY <1>1, <2>9, <2>10
    <3>2. m[0].prev = Nil
      <4>1. mem[0].prev = Nil  BY <1>1 DEF Tiled
      <4> QED BY <1>1, <2>4, <2>6, <2>9, <4>1
    <3>3. ASSUME NEW a \in B
          PROVE  /\ m[a] \in HeapHeaders /\ EndOf(m, a) <= d
                 /\ m[a].next = Nil => EndOf(m, a) = d
                 /\ m[a].next # Nil => /\ m[a].next = EndOf(m, a) /\ m[a].next \in B
                                       /\ m[m[a].next].prev = a
                 /\ a # 0 => m[a].prev \in B /\ m[m[a].prev].next = a
      <4>1. CASE a = e
        <5>1. m[a] = hd /\ EndOf(m, a) = d  BY <1>1, <1>8, <2>9, <2>11, <4>1 DEF EndOf
        <5>2. m[last].next = e /\ last \in B  BY <1>6, <2>6, <2>9, <2>10
        <5> QED BY <1>8, <2>11, <4>1, <5>1, <5>2
      <4>2. CASE a = last
        <5>1. m[a] = w /\ EndOf(m, a) = e /\ m[e].prev = a /\ m[a].next = e /\ m[a].prev = mem[a].prev
          <6>1. last + 1 + mem[last].size = e  BY <1>6, <2>1
          <6> QED BY <1>8, <2>4, <2>6, <2>9, <4>2, <6>1 DEF EndOf
        <5>2. a # 0 => mem[a].prev \in A \ {last} /\ mem[mem[a].prev].next = a  BY <1>1, <1>6, <2>1, <4>2
        <5>3. a # 0 => m[a].prev \in B /\ m[m[a].prev].next = a  BY <2>9, <2>10, <5>1, <5>2
        <5>4. EndOf(m, a) <= d /\ e # Nil /\ e \in B  BY <1>1, <2>10, <2>11, <5>1
        <5> QED BY <2>6, <5>1, <5>3, <5>4
      <4>3. CASE a \in A \ {last}
        <5>1. m[a] = mem[a] /\ EndOf(m, a) = a + 1 + mem[a].size  BY <2>9, <4>3 DEF EndOf
        <5>2. a + 1 + mem[a].size <= d
          <6>1. PICK s \in Nat : s = mem[a].size  BY <2>1, <4>3
          <6>2. a + 1 + s <= e /\ a \in Nat  BY <2>1, <4>3, <6>1
          <6> QED BY <1>1, <2>11, <6>1, <6>2
        <5>3. /\ mem[a].next # Nil /\ mem[a].next \in A /\ mem[mem[a].next].prev = a
              /\ mem[a].next = a + 1 + mem[a].size
          BY <2>1, <2>3, <4>3
        <5>4. m[mem[a].next].prev = a  BY <2>4, <2>6, <2>9, <5>3
        <5>5. a # 0 => mem[a].prev \in A \ {last} /\ mem[mem[a].prev].next = a  BY <1>1, <1>6, <2>1, <4>3
        <5> QED BY <2>1, <2>9, <2>10, <4>3, <5>1, <5>2, <5>3, <5>4, <5>5
      <4> QED BY <2>10, <4>1, <4>2, <4>3
    <3>4. ASSUME NEW a \in B, NEW c \in B, a < c PROVE EndOf(m, a) <= c
      <4>1. a \in A
        <5> SUFFICES ASSUME a = e PROVE FALSE  BY <2>10
        <5>1. c \in A  BY <1>1, <2>10, <3>4
        <5>2. PICK s \in Nat : s = mem[c].size /\ c + 1 + s <= e /\ c \in Nat  BY <2>1, <5>1
        <5> QED BY <1>1, <3>4, <5>2
      <4>2. EndOf(m, a) = a + 1 + mem[a].size  BY <2>4, <2>6, <2>9, <4>1 DEF EndOf
      <4> QED BY <2>1, <2>10, <3>4, <4>1, <4>2
    <3>5. \E a \in B : m[a].next = Nil  BY <1>8, <2>9, <2>10
    <3> QED BY <3>1, <3>2, <3>3, <3>4, <3>5 DEF Tiled
  <2>13. MergedBut(m, B, {})
    <3> SUFFICES ASSUME NEW a \in B, m[a].free, m[a].next # Nil, m[m[a].next].free PROVE GrownAt(m[a].next)
      BY DEF MergedBut
    <3>1. CASE a = e  BY <1>8, <2>9, <3>1
    <3>2. CASE a = last  BY <1>1, <2>6, <2>9, <3>2
    <3>3. CASE a \in A \ {last}
      <4>1. m[a] = mem[a] /\ mem[a].next \in A  BY <2>1, <2>9, <3>3
      <4>2. mem[mem[a].next].free  BY <2>4, <2>6, <2>9, <4>1
      <4> QED BY <1>1, <3>3, <4>1, <4>2 DEF MergedBut
    <3> QED BY <2>10, <3>1, <3>2, <3>3
  <2>14. L = {a \in B : ~m[a].free}
    <3>1. \A a \in A : m[a].free = mem[a].free  BY <2>4, <2>6, <2>9
    <3> QED BY <1>1, <1>8, <2>2, <2>9, <2>10, <3>1
  <2>15. HeapOK(m, B, d, L)
    <3>1. d <= KHeapTop /\ GrownAt(d)  BY <1>1, <1>4, <1>12, <2>11, KHeapAssumption
    <3> QED BY <2>12, <2>13, <2>14, <3>1 DEF HeapOK
  <2> QED BY <1>10, <1>12, <2>11, <2>15 DEF HeapLeft
<1> QED BY <1>11, <1>12

\* What kmalloc() answers: a block nobody has, or none.
HeapGave(r, L) ==
    \E h, p : /\ r = [heap |-> h, ptr |-> p]
              /\ \/ p = Nil /\ HeapLeft(h, L)
                 \/ p # Nil /\ p \notin L /\ HeapLeft(h, L \cup {p})

\* kmalloc(): it hands out a block nobody has, or none.
LEMMA AllocOK ==
  ASSUME NEW mem, NEW A, NEW e, NEW L, HeapOK(mem, A, e, L), NEW n \in Nat
  PROVE  HeapGave(Allocated([mem |-> mem, end |-> e], n), L)
<1>1. PICK h : h = [mem |-> mem, end |-> e]  OBVIOUS
<1>2. PICK g : g = IF find_free(h.mem, n) = Nil THEN kheap_expand(h, n) ELSE h  OBVIOUS
<1>3. PICK C, m1, d : g = [mem |-> m1, end |-> d] /\ HeapOK(m1, C, d, L)
  <2>1. CASE find_free(h.mem, n) = Nil
    <3>1. HeapLeft(kheap_expand([mem |-> mem, end |-> e], n), L)  BY ExpandOK
    <3> QED BY <1>1, <1>2, <2>1, <3>1 DEF HeapLeft
  <2>2. CASE find_free(h.mem, n) # Nil  BY <1>1, <1>2, <2>2
  <2> QED BY <2>1, <2>2
<1>4. PICK b : b = find_free(m1, n)  OBVIOUS
<1>5. Allocated(h, n) =
          IF b = Nil THEN [heap |-> g, ptr |-> Nil]
          ELSE [heap |-> [g EXCEPT !.mem = [split_block(m1, b, n) EXCEPT ![b].free = FALSE]], ptr |-> b]
  <2>1. g.mem = m1  BY <1>3
  <2> QED BY <1>2, <1>4, <2>1 DEF Allocated
<1>6. CASE b = Nil
  <2>1. HeapLeft(g, L)  BY <1>3 DEF HeapLeft
  <2> QED BY <1>1, <1>5, <1>6, <2>1 DEF HeapGave
<1>7. CASE b # Nil
  <2>1. Tiled(m1, C, d) /\ L = {a \in C : ~m1[a].free}  BY <1>3 DEF HeapOK
  <2>2. b \in C /\ m1[b].free /\ m1[b].size >= n  BY <1>4, <1>7, <2>1, FoundFree
  <2>3. PICK m : m = [split_block(m1, b, n) EXCEPT ![b].free = FALSE]  OBVIOUS
  <2>4. PICK B : HeapOK(m, B, d, L \cup {b})  BY <1>3, <2>2, <2>3, SplitOK
  <2>5. b \notin L  BY <2>1, <2>2
  <2>6. [g EXCEPT !.mem = m] = [mem |-> m, end |-> d]  BY <1>3
  <2>7. HeapLeft([g EXCEPT !.mem = m], L \cup {b})  BY <2>4, <2>6 DEF HeapLeft
  <2> QED BY <1>1, <1>5, <1>7, <2>3, <2>5, <2>7 DEF HeapGave
<1> QED BY <1>6, <1>7

\* kfree(), of a heap between two calls.
LEMMA FreedLeft ==
  ASSUME NEW h, NEW L, HeapLeft(h, L), NEW b \in L
  PROVE  HeapLeft([h EXCEPT !.mem = HeapFreed(h.mem, b)], L \ {b})
<1>1. PICK A, mem, e : h = [mem |-> mem, end |-> e] /\ HeapOK(mem, A, e, L)  BY DEF HeapLeft
<1>2. PICK m : m = HeapFreed(mem, b)  OBVIOUS
<1>3. \E B : HeapOK(HeapFreed(mem, b), B, e, L \ {b})  BY <1>1, FreeOK
<1>4. PICK B : HeapOK(m, B, e, L \ {b})  BY <1>2, <1>3
<1>5. [h EXCEPT !.mem = HeapFreed(h.mem, b)] = [mem |-> m, end |-> e]  BY <1>1, <1>2
<1> QED BY <1>4, <1>5 DEF HeapLeft

\* What a call leaves is a heap again.
LEMMA BecomesLeft ==
  ASSUME NEW h, NEW L, HeapLeft(h, L), Becomes(h), kheap_live' = L
  PROVE  HeapIInv'
<1>1. PICK A, mem, e : h = [mem |-> mem, end |-> e] /\ HeapOK(mem, A, e, L)  BY DEF HeapLeft
<1>2. HeapOK(h.mem, A, h.end, L)  BY <1>1
<1>3. HeapOK(kheap_mem', DOMAIN kheap_mem', heap_end', L)  BY <1>2, BecomesOK
<1> QED BY <1>3 DEF HeapIInv

\* Every call keeps the heap, until exec_user() frees twice.
LEMMA HeapStep == HeapIInv /\ kheapNext => HeapIInv'
<1> SUFFICES ASSUME HeapIInv, kheapNext PROVE HeapIInv'  OBVIOUS
<1> DEFINE L == kheap_live
<1>1. ASSUME ~kheap_twice PROVE HeapLeft(KHeapNow, L)  BY <1>1 DEF HeapIInv, HeapLeft, KHeapNow
<1>2. ASSUME NEW n \in KHeapSizes, ~kheap_twice PROVE HeapGave(Allocated(KHeapNow, n), L)
  <2>1. n \in Nat  BY KHeapAssumption
  <2>2. PICK mem, e : mem = kheap_mem /\ e = heap_end  OBVIOUS
  <2>3. HeapOK(mem, DOMAIN mem, e, L)  BY <1>2, <2>2 DEF HeapIInv
  <2>4. HeapGave(Allocated([mem |-> mem, end |-> e], n), L)  BY <2>1, <2>3, AllocOK
  <2> QED BY <2>2, <2>4 DEF KHeapNow
<1>3. ASSUME NEW n \in KHeapSizes, kmalloc(n) PROVE HeapIInv'
  <2>1. HeapGave(Allocated(KHeapNow, n), L)  BY <1>2, <1>3 DEF kmalloc
  <2>2. PICK h, p : /\ Allocated(KHeapNow, n) = [heap |-> h, ptr |-> p]
                    /\ \/ p = Nil /\ HeapLeft(h, L)
                       \/ p # Nil /\ p \notin L /\ HeapLeft(h, L \cup {p})
    BY <2>1 DEF HeapGave
  <2>3. Becomes(h) /\ kheap_live' = L \cup ({p} \ {Nil})  BY <1>3, <2>2 DEF kmalloc
  <2>4. HeapLeft(h, L \cup ({p} \ {Nil}))
    <3>1. CASE p = Nil
      <4>1. L \cup ({p} \ {Nil}) = L  BY <3>1
      <4> QED BY <2>2, <3>1, <4>1
    <3>2. CASE p # Nil
      <4>1. L \cup ({p} \ {Nil}) = L \cup {p}  BY <3>2
      <4> QED BY <2>2, <3>2, <4>1
    <3> QED BY <3>1, <3>2
  <2> QED BY <2>3, <2>4, BecomesLeft
<1>4. ASSUME NEW b \in kheap_live, kfree(b) PROVE HeapIInv'
  <2>1. HeapLeft([KHeapNow EXCEPT !.mem = HeapFreed(KHeapNow.mem, b)], L \ {b})
    BY <1>1, <1>4, FreedLeft DEF kfree
  <2>2. KHeapNow.mem = kheap_mem  BY DEF KHeapNow
  <2>3. PICK h : h = [KHeapNow EXCEPT !.mem = HeapFreed(kheap_mem, b)]  OBVIOUS
  <2>4. HeapLeft(h, L \ {b}) /\ Becomes(h) /\ kheap_live' = L \ {b}  BY <1>4, <2>1, <2>2, <2>3 DEF kfree
  <2> QED BY <2>4, BecomesLeft
<1>5. ASSUME NEW n \in KHeapSizes, NEW b \in kheap_live, krealloc(b, n) PROVE HeapIInv'
  <2>1. HeapGave(Allocated(KHeapNow, n), L)  BY <1>2, <1>5 DEF krealloc
  <2>2. PICK h, p : /\ Allocated(KHeapNow, n) = [heap |-> h, ptr |-> p]
                    /\ \/ p = Nil /\ HeapLeft(h, L)
                       \/ p # Nil /\ p \notin L /\ HeapLeft(h, L \cup {p})
    BY <2>1 DEF HeapGave
  <2>3. CASE p = Nil
    <3>1. Becomes(h) /\ kheap_live' = L /\ HeapLeft(h, L)  BY <1>5, <2>2, <2>3 DEF krealloc
    <3> QED BY <3>1, BecomesLeft
  <2>4. CASE p # Nil
    <3>1. PICK h2 : h2 = [h EXCEPT !.mem = HeapFreed(h.mem, b)]  OBVIOUS
    <3>2. HeapLeft(h2, (L \cup {p}) \ {b})
      <4>1. HeapLeft(h, L \cup {p}) /\ b \in L \cup {p}  BY <2>2, <2>4
      <4>2. HeapLeft([h EXCEPT !.mem = HeapFreed(h.mem, b)], (L \cup {p}) \ {b})  BY <4>1, FreedLeft
      <4> QED BY <3>1, <4>2
    <3>3. (L \cup {p}) \ {b} = (L \ {b}) \cup {p}  BY <2>2, <2>4
    <3>4. Becomes(h2) /\ kheap_live' = (L \cup {p}) \ {b}  BY <1>5, <2>2, <2>4, <3>1, <3>3 DEF krealloc
    <3> QED BY <3>2, <3>4, BecomesLeft
  <2> QED BY <2>3, <2>4
<1>6. ASSUME NEW list, exec_user(list) PROVE HeapIInv'  BY <1>6 DEF exec_user, HeapIInv
<1> QED BY <1>3, <1>4, <1>5, <1>6 DEF kheapNext

\* kheap_init() leaves one free block.
LEMMA InitHeap == kheap_init => HeapIInv
<1> SUFFICES ASSUME kheap_init PROVE HeapIInv  OBVIOUS
<1>1. PICK mem, e : mem = kheap_mem /\ e = heap_end  OBVIOUS
<1>2. KHeapInitial \in Nat /\ KHeapInitial <= KHeapTop /\ KHeapPage \in Nat \ {0} /\ 1 < KHeapInitial
  BY KHeapAssumption
<1>3. PICK hd : hd = Header(KHeapInitial - 1, TRUE, Nil, Nil)  OBVIOUS
<1>4. hd \in HeapHeaders /\ hd.size = KHeapInitial - 1 /\ hd.free = TRUE /\ hd.next = Nil /\ hd.prev = Nil
  <2>1. KHeapInitial - 1 \in Nat /\ TRUE \in BOOLEAN  BY <1>2
  <2> QED BY <1>3, <2>1 DEF Header, HeapHeaders
<1>5. mem = [a \in {0} |-> hd] /\ e = KHeapInitial /\ kheap_live = {}  BY <1>1, <1>3 DEF kheap_init
<1>6. DOMAIN mem = {0} /\ mem[0] = hd  BY <1>5
<1>7. Tiled(mem, {0}, e)
  <2>1. EndOf(mem, 0) = e  BY <1>2, <1>4, <1>5, <1>6 DEF EndOf
  <2> QED BY <1>2, <1>4, <1>5, <1>6, <2>1 DEF Tiled
<1>8. GrownAt(e)  BY <1>2, <1>5 DEF GrownAt
<1>9. MergedBut(mem, {0}, {}) /\ kheap_live = {a \in {0} : ~mem[a].free}  BY <1>4, <1>5, <1>6 DEF MergedBut
<1>10. HeapOK(mem, DOMAIN mem, e, kheap_live)  BY <1>2, <1>5, <1>6, <1>7, <1>8, <1>9 DEF HeapOK
<1> QED BY <1>1, <1>10 DEF HeapIInv

\* Such a heap is what the runs ask of it.
LEMMA HeapSound == HeapIInv => HeapTiles /\ FreeMerged
<1> SUFFICES ASSUME HeapIInv, ~kheap_twice PROVE HeapTiles /\ FreeMerged  BY DEF HeapTiles, FreeMerged
<1>1. PICK mem, A, e : mem = kheap_mem /\ A = DOMAIN mem /\ e = heap_end  OBVIOUS
<1>2. HeapOK(mem, A, e, kheap_live)  BY <1>1 DEF HeapIInv
<1>3. Listed(mem) = A  BY <1>2, ListedAll DEF HeapOK
<1>4. \A a \in A : /\ mem[a].next # Nil => mem[a].next = a + 1 + mem[a].size /\ mem[mem[a].next].prev = a
                   /\ mem[a].next = Nil => a + 1 + mem[a].size = e
  BY <1>2 DEF HeapOK, Tiled, EndOf
<1>5. kheap_check_integrity  BY <1>1, <1>3, <1>4 DEF kheap_check_integrity
<1>6. kheap_live = {a \in Listed(kheap_mem) : ~kheap_mem[a].free}  BY <1>1, <1>2, <1>3 DEF HeapOK
<1>7. HeapTiles  BY <1>1, <1>3, <1>4, <1>5, <1>6 DEF HeapTiles
<1>8. FreeMerged  BY <1>1, <1>2, <1>3 DEF FreeMerged, HeapOK, MergedBut, GrownAt
<1> QED BY <1>7, <1>8

------------------------------
(* User memory and the kernel heap as a whole.                             *)

MemoryIInv == SpaceIInv /\ HeapIInv

\* Among the other parts of the kernel: no page is backed by memory that
\* was given back, or shared while it can be written; the blocks of the
\* heap tile it in both directions of the list, the ones handed out are
\* the ones not free, and free neighbours are merged wherever the heap did
\* not grow, until exec_user() frees a program's areas twice (brk.c,
\* mmap.c, paging.c, process.c; kheap.c kmalloc, kfree, krealloc).
THEOREM KernelMemoryIsSound == PartsSpec => []KernelMemorySound
<1>1. PartsInit => MemoryIInv  BY LaunchSound, InitHeap DEF PartsInit, MemoryIInv
<1>2. MemoryIInv /\ [PartsNext]_allVars => MemoryIInv'
  <2> SUFFICES ASSUME MemoryIInv, [PartsNext]_allVars PROVE MemoryIInv'  OBVIOUS
  <2>1. SpaceIInv'
    <3>1. [Next]_vars  BY DEF PartsNext, allVars
    <3> QED BY <3>1, MemoryStaysSound DEF MemoryIInv
  <2>2. HeapIInv'
    <3>1. kheapNext \/ UNCHANGED kheapVars  BY DEF PartsNext, allVars
    <3>2. CASE UNCHANGED kheapVars  BY <3>2 DEF kheapVars, MemoryIInv, HeapIInv
    <3> QED BY <3>1, <3>2, HeapStep DEF MemoryIInv
  <2> QED BY <2>1, <2>2 DEF MemoryIInv
<1>3. MemoryIInv => KernelMemorySound  BY BackedIsSound, HeapSound DEF MemoryIInv, SpaceIInv, KernelMemorySound
<1> QED BY <1>1, <1>2, <1>3, PTL DEF PartsSpec

------------------------------
(* The dynamic linker (user/dl.c).                                         *)

DlFields == {"used", "refs", "name", "global", "seq", "got", "plt", "started"}
OpenFrames ==
    [slot : DlSlots, path : DOMAIN DlFiles, mode : DlModes, dj : Nat \ {0}, failed : BOOLEAN]

\* What frame i of the stack c has asked for so far.
Asked(c, i) == {k \in DOMAIN DlFiles[c[i].path].need : k < c[i].dj}

\* Its k-th dependency is in the table h, and has run its initialisers or
\* waits for them since before the frame was opened ...
Provided(h, c, i, k) ==
    \E s \in DlSlots :
       /\ h[s].used /\ h[s].name = DlFiles[c[i].path].need[k]
       /\ h[s].started \/ \E j \in 1 .. i : c[j].slot = s

\* ... or is what the next frame is opening.
BeingOpened(c, i, k) ==
    /\ k = c[i].dj - 1
    /\ i + 1 \in DOMAIN c
    /\ c[i + 1].path = DlFiles[c[i].path].need[k]

\* What an entry of the table is made of.
Shaped(h) == h = [s \in DlSlots |-> [k \in DlFields |-> h[s][k]]]

\* A table of handles holds no path twice.
HandlesOK(h) ==
    /\ Shaped(h)
    /\ \A s \in DlSlots : h[s].used \in BOOLEAN /\ h[s].started \in BOOLEAN
    /\ \A s, t \in DlSlots : h[s].used /\ h[t].used /\ h[s].name = h[t].name => s = t

\* The calls under way have an object each, and an object that is loaded and
\* has none has run its initialisers.
UnderWay(h, c) ==
    /\ c \in Seq(OpenFrames)
    /\ \A i \in DOMAIN c : /\ h[c[i].slot].used /\ ~h[c[i].slot].started
                           /\ h[c[i].slot].name = c[i].path
    /\ \A i, j \in DOMAIN c : c[i].slot = c[j].slot => i = j
    /\ \A s \in DlSlots : h[s].used => h[s].started \/ \E i \in DOMAIN c : c[i].slot = s

\* The frames that wait have what they asked for, but for path, which the last
\* is about to open.
Served(h, c) ==
    \A i \in DOMAIN c : ~c[i].failed =>
       \A k \in Asked(c, i) : Provided(h, c, i, k) \/ BeingOpened(c, i, k)
ServedBut(h, c, path) ==
    \A i \in DOMAIN c : ~c[i].failed =>
       \A k \in Asked(c, i) :
          \/ Provided(h, c, i, k) \/ BeingOpened(c, i, k)
          \/ i = Len(c) /\ k = c[i].dj - 1 /\ path = DlFiles[c[i].path].need[k]

Behind(h, c) ==
    \A i \in DOMAIN c : i # Len(c) /\ ~c[i].failed =>
       \A k \in Asked(c, i) : Provided(h, c, i, k) \/ BeingOpened(c, i, k)

DlInv == HandlesOK(handles) /\ UnderWay(handles, calls) /\ Served(handles, calls)

LEMMA FrameParts ==
  ASSUME NEW c \in Seq(OpenFrames), NEW i \in DOMAIN c
  PROVE  /\ c[i].slot \in DlSlots /\ c[i].path \in DOMAIN DlFiles /\ c[i].mode \in DlModes
         /\ c[i].dj \in Nat \ {0} /\ c[i].failed \in BOOLEAN
         /\ i \in 1 .. Len(c) /\ c[i] \in OpenFrames
<1>1. c[i] \in OpenFrames /\ i \in 1 .. Len(c)  OBVIOUS
<1> QED BY <1>1 DEF OpenFrames

\* A slot that is free.
LEMMA EmptyHandle ==
  NoHandle = [k \in DlFields |-> NoHandle[k]] /\ NoHandle.used = FALSE /\ NoHandle.started = FALSE
<1>1. DOMAIN NoHandle = DlFields  BY DEF NoHandle, DlFields
<1>2. NoHandle = [k \in DOMAIN NoHandle |-> NoHandle[k]]  BY Zenon DEF NoHandle
<1>3. NoHandle.used = FALSE  BY DEF NoHandle
<1>4. NoHandle.started = FALSE  BY DEF NoHandle
<1> QED BY <1>1, <1>2, <1>3, <1>4

\* Nothing is loaded at first.
LEMMA InitDl == dlInit => DlInv
<1> SUFFICES ASSUME dlInit PROVE DlInv  OBVIOUS
<1>1. NoHandle = [k \in DlFields |-> NoHandle[k]] /\ NoHandle.used = FALSE /\ NoHandle.started = FALSE
  BY EmptyHandle
<1>2. \A s \in DlSlots : handles[s] = NoHandle  BY DEF dlInit
<1>3. handles = [s \in DlSlots |-> [k \in DlFields |-> handles[s][k]]]  BY <1>1, <1>2 DEF dlInit
<1>4. HandlesOK(handles)  BY <1>1, <1>2, <1>3 DEF HandlesOK, Shaped
<1>5. calls = << >> /\ calls \in Seq(OpenFrames) /\ DOMAIN calls = {}  BY DEF dlInit
<1>6. UnderWay(handles, calls)  BY <1>1, <1>2, <1>5 DEF UnderWay
<1>7. Served(handles, calls)  BY <1>5 DEF Served
<1> QED BY <1>4, <1>6, <1>7 DEF DlInv

\* What is said of a table is about which objects it holds, how they are named
\* and which have run their initialisers.
LEMMA SameObjects ==
  ASSUME NEW h, NEW c, HandlesOK(h), UnderWay(h, c), Served(h, c), NEW g,
         Shaped(g),
         \A s \in DlSlots : /\ g[s].used = h[s].used /\ g[s].name = h[s].name
                            /\ g[s].started = h[s].started
  PROVE  HandlesOK(g) /\ UnderWay(g, c) /\ Served(g, c)
<1>1. c \in Seq(OpenFrames) /\ \A i \in DOMAIN c : c[i].slot \in DlSlots  BY FrameParts DEF UnderWay
<1>2. HandlesOK(g)  BY DEF HandlesOK, Shaped
<1>3. UnderWay(g, c)  BY <1>1 DEF UnderWay
<1>4. \A i, k : Provided(h, c, i, k) => Provided(g, c, i, k)  BY DEF Provided
<1>5. Served(g, c)  BY <1>4 DEF Served
<1> QED BY <1>2, <1>3, <1>5

\* The table without the object of slot s.
Without(h, s) == [h EXCEPT ![s] = NoHandle]

LEMMA WithoutOne ==
  ASSUME NEW h, HandlesOK(h), NEW s \in DlSlots
  PROVE  /\ HandlesOK(Without(h, s))
         /\ ~Without(h, s)[s].used /\ ~Without(h, s)[s].started
         /\ \A t \in DlSlots \ {s} : Without(h, s)[t] = h[t]
<1> DEFINE g == Without(h, s)
<1>0. g = [h EXCEPT ![s] = NoHandle]  BY DEF Without
<1> HIDE DEF g
<1>1. NoHandle = [k \in DlFields |-> NoHandle[k]] /\ NoHandle.used = FALSE /\ NoHandle.started = FALSE
  BY EmptyHandle
<1>2. h = [t \in DlSlots |-> [k \in DlFields |-> h[t][k]]]  BY DEF HandlesOK, Shaped
<1>3. g[s] = NoHandle /\ \A t \in DlSlots \ {s} : g[t] = h[t]  BY <1>0, <1>2
<1>4. g = [t \in DlSlots |-> [k \in DlFields |-> g[t][k]]]
  <2>1. g = [t \in DlSlots |-> g[t]]  BY <1>0, <1>2
  <2>2. \A t \in DlSlots : g[t] = [k \in DlFields |-> g[t][k]]  BY <1>1, <1>2, <1>3
  <2> QED BY <2>1, <2>2
<1>5. HandlesOK(g)  BY <1>1, <1>3, <1>4 DEF HandlesOK, Shaped
<1> QED BY <1>1, <1>3, <1>5 DEF g

\* A stack without its last call.
LEMMA FrontParts ==
  ASSUME NEW S, NEW c \in Seq(S), c # << >>
  PROVE  /\ Front(c) \in Seq(S) /\ Len(c) \in Nat \ {0} /\ Len(c) \in DOMAIN c
         /\ DOMAIN c = 1 .. Len(c)
         /\ Len(Front(c)) = Len(c) - 1 /\ DOMAIN Front(c) = 1 .. Len(c) - 1
         /\ \A i \in 1 .. Len(c) - 1 : Front(c)[i] = c[i]
<1>1. Len(c) \in Nat \ {0} /\ DOMAIN c = 1 .. Len(c) /\ Len(c) \in DOMAIN c  OBVIOUS
<1>2. Front(c) = SubSeq(c, 1, Len(c) - 1)  BY DEF Front
<1> QED BY <1>1, <1>2

\* A call that failed makes its caller fail, and who has failed asks for nothing.
LEMMA FailingKeeps ==
  ASSUME NEW h, NEW c, UnderWay(h, c), Behind(h, c)
  PROVE  UnderWay(h, Failing(c)) /\ Served(h, Failing(c))
<1> DEFINE e == Failing(c)
<1>0. c \in Seq(OpenFrames) /\ DOMAIN c = 1 .. Len(c) /\ Len(c) \in Nat  BY DEF UnderWay
<1>1. CASE c = << >>  BY <1>1, <1>0 DEF Failing, Served
<1>2. CASE c # << >>
  <2>1. e = [c EXCEPT ![Len(c)].failed = TRUE] /\ Len(c) \in DOMAIN c  BY <1>2, <1>0 DEF Failing
  <2>2. c[Len(c)] \in OpenFrames  BY <1>0, <2>1
  <2>3. [c[Len(c)] EXCEPT !.failed = TRUE] \in OpenFrames  BY <2>2 DEF OpenFrames
  <2>4. e \in Seq(OpenFrames) /\ Len(e) = Len(c) /\ DOMAIN e = DOMAIN c  BY <1>0, <2>1, <2>3
  <2>5. \A i \in DOMAIN c : i # Len(c) => e[i] = c[i]  BY <1>0, <2>1
  <2>6. e[Len(c)] = [c[Len(c)] EXCEPT !.failed = TRUE]  BY <1>0, <2>1
  <2>7. /\ e[Len(c)].failed /\ e[Len(c)].slot = c[Len(c)].slot /\ e[Len(c)].path = c[Len(c)].path
        /\ e[Len(c)].dj = c[Len(c)].dj
    BY <2>2, <2>6 DEF OpenFrames
  <2> HIDE DEF e
  <2>8. \A i \in DOMAIN c : e[i].slot = c[i].slot /\ e[i].path = c[i].path /\ e[i].dj = c[i].dj  BY <2>5, <2>7
  <2>9. UnderWay(h, e)  BY <2>4, <2>8 DEF UnderWay
  <2>10. ASSUME NEW i \in DOMAIN e, ~e[i].failed, NEW k \in Asked(e, i)
         PROVE  Provided(h, e, i, k) \/ BeingOpened(e, i, k)
    <3>1. i # Len(c) /\ i \in DOMAIN c /\ e[i] = c[i]  BY <2>4, <2>5, <2>7, <2>10
    <3>2. k \in Asked(c, i) /\ ~c[i].failed  BY <2>10, <3>1 DEF Asked
    <3>3. CASE Provided(h, c, i, k)
      <4>1. 1 .. i \subseteq DOMAIN c  BY <1>0, <3>1
      <4> QED BY <2>8, <3>1, <3>3, <4>1 DEF Provided
    <3>4. CASE BeingOpened(c, i, k)  BY <2>4, <2>8, <3>1, <3>4 DEF BeingOpened
    <3> QED BY <3>1, <3>2, <3>3, <3>4 DEF Behind
  <2>11. Served(h, e)  BY <2>10 DEF Served
  <2> QED BY <2>9, <2>11 DEF e
<1> QED BY <1>1, <1>2

\* The first free slot is one.
LEMMA FreeSlot ==
  ASSUME HandlesOK(handles), FirstFree(handles) # 0
  PROVE  FirstFree(handles) \in DlSlots /\ ~handles[FirstFree(handles)].used
<1> DEFINE free == DOMAIN handles \ Taken(handles)
<1>1. DOMAIN handles = DlSlots  BY DEF HandlesOK, Shaped
<1>2. free \subseteq Nat  BY <1>1, DlAssumption DEF DlSlots
<1>3. free # {} /\ FirstFree(handles) = Min(free)  BY DEF FirstFree
<1>4. FirstFree(handles) \in free
  <2> HIDE DEF free
  <2> QED BY <1>2, <1>3, LeastThere
<1> QED BY <1>1, <1>4 DEF Taken

\* An object that is placed has a slot that was free, a path that nobody had,
\* and a call of its own.
LEMMA OpenedOne ==
  ASSUME HandlesOK(handles), NEW c, UnderWay(handles, c), NEW path, ServedBut(handles, c, path),
         \A s \in DlSlots : handles[s].used => handles[s].name # path,
         NEW mode \in DlModes, NEW slot \in DlSlots, ~handles[slot].used, path \in DOMAIN DlFiles,
         NEW g, g = [handles EXCEPT ![slot] = Placed(path, mode)],
         NEW e, e = Append(c, [slot |-> slot, path |-> path, mode |-> mode, dj |-> 1, failed |-> FALSE])
  PROVE  /\ HandlesOK(g) /\ UnderWay(g, e) /\ Served(g, e)
         /\ \A s \in DlSlots : g[s].started => handles[s].started
<1> DEFINE new == [slot |-> slot, path |-> path, mode |-> mode, dj |-> 1, failed |-> FALSE]
           p == Placed(path, mode)
<1>1. new \in OpenFrames /\ new.slot = slot /\ new.path = path /\ new.dj = 1 /\ ~new.failed  BY DEF OpenFrames
<1>2. p = [k \in DlFields |-> p[k]] /\ p.used = TRUE /\ p.started = FALSE /\ p.name = path
  BY DEF Placed, NoHandle, DlFields
<1>3. c \in Seq(OpenFrames) /\ DOMAIN c = 1 .. Len(c) /\ Len(c) \in Nat  BY DEF UnderWay
<1>4. /\ e \in Seq(OpenFrames) /\ Len(e) = Len(c) + 1 /\ DOMAIN e = 1 .. Len(c) + 1
      /\ e[Len(c) + 1] = new
      /\ \A i \in DOMAIN c : e[i] = c[i]
  BY <1>1, <1>3
<1>5. handles = [t \in DlSlots |-> [k \in DlFields |-> handles[t][k]]]  BY DEF HandlesOK, Shaped
<1>6. g[slot] = p /\ \A t \in DlSlots \ {slot} : g[t] = handles[t]  BY <1>5
<1>7. g = [t \in DlSlots |-> [k \in DlFields |-> g[t][k]]]
  <2>1. g = [t \in DlSlots |-> g[t]]  BY <1>5
  <2>2. \A t \in DlSlots : g[t] = [k \in DlFields |-> g[t][k]]
    <3> HIDE DEF p
    <3> QED BY <1>2, <1>5, <1>6
  <2> QED BY <2>1, <2>2
<1> HIDE DEF new, p
<1>8. \A i \in DOMAIN c : c[i].slot \in DlSlots \ {slot}  BY <1>3, FrameParts DEF UnderWay
<1>9. \A i \in DOMAIN c : i \in DOMAIN e /\ e[i] = c[i] /\ g[e[i].slot] = handles[c[i].slot]
  BY <1>3, <1>4, <1>6, <1>8
<1>10. Len(e) \in DOMAIN e /\ e[Len(e)] = new /\ \A i \in DOMAIN e : i = Len(e) \/ i \in DOMAIN c  BY <1>3, <1>4
<1>11. HandlesOK(g)
  <2>1. Shaped(g)  BY <1>7 DEF Shaped
  <2>2. \A s \in DlSlots : g[s].used \in BOOLEAN /\ g[s].started \in BOOLEAN  BY <1>2, <1>6 DEF HandlesOK
  <2>3. \A s, t \in DlSlots : g[s].used /\ g[t].used /\ g[s].name = g[t].name => s = t
    BY <1>2, <1>6 DEF HandlesOK
  <2> QED BY <2>1, <2>2, <2>3 DEF HandlesOK
<1>12. UnderWay(g, e)
  <2>1. ASSUME NEW i \in DOMAIN e
        PROVE  g[e[i].slot].used /\ ~g[e[i].slot].started /\ g[e[i].slot].name = e[i].path
    <3>1. CASE i \in DOMAIN c  BY <1>9, <3>1 DEF UnderWay
    <3>2. CASE i = Len(e)  BY <1>1, <1>2, <1>6, <1>10, <3>2
    <3> QED BY <1>10, <3>1, <3>2
  <2>2. ASSUME NEW i \in DOMAIN e, NEW j \in DOMAIN e, e[i].slot = e[j].slot PROVE i = j
    BY <1>1, <1>8, <1>9, <1>10, <2>2 DEF UnderWay
  <2>3. ASSUME NEW s \in DlSlots, g[s].used PROVE g[s].started \/ \E i \in DOMAIN e : e[i].slot = s
    BY <1>1, <1>6, <1>9, <1>10, <2>3 DEF UnderWay
  <2> QED BY <1>4, <2>1, <2>2, <2>3 DEF UnderWay
<1>13. Served(g, e)
  <2>1. ASSUME NEW i \in DOMAIN e, ~e[i].failed, NEW k \in Asked(e, i)
        PROVE  Provided(g, e, i, k) \/ BeingOpened(e, i, k)
    <3>1. CASE i = Len(e)
      <4>1. FALSE
        <5>1. k \in DOMAIN DlFiles[path].need /\ k < 1  BY <1>1, <1>10, <2>1, <3>1 DEF Asked
        <5>2. DlFiles[path].need \in Seq(STRING)  BY DlAssumption
        <5> QED BY <5>1, <5>2
      <4> QED BY <4>1
    <3>2. CASE i \in DOMAIN c
      <4>1. e[i] = c[i] /\ k \in Asked(c, i) /\ ~c[i].failed  BY <1>9, <2>1, <3>2 DEF Asked
      <4>2. CASE Provided(handles, c, i, k)
        <5>1. PICK s \in DlSlots :
                 /\ handles[s].used /\ handles[s].name = DlFiles[c[i].path].need[k]
                 /\ handles[s].started \/ \E j \in 1 .. i : c[j].slot = s
          BY <4>2 DEF Provided
        <5>2. g[s] = handles[s]  BY <1>6, <5>1
        <5>3. \A j \in 1 .. i : e[j] = c[j]  BY <1>3, <1>9, <3>2
        <5> QED BY <4>1, <5>1, <5>2, <5>3 DEF Provided
      <4>3. CASE BeingOpened(c, i, k)  BY <1>9, <4>1, <4>3 DEF BeingOpened
      <4>4. CASE i = Len(c) /\ k = c[i].dj - 1 /\ path = DlFiles[c[i].path].need[k]
        <5>1. i + 1 = Len(e)  BY <1>4, <4>4
        <5>2. i + 1 \in DOMAIN e /\ e[i + 1].path = path  BY <1>1, <1>10, <5>1
        <5> QED BY <4>1, <4>4, <5>2 DEF BeingOpened
      <4> QED BY <3>2, <4>1, <4>2, <4>3, <4>4 DEF ServedBut
    <3> QED BY <1>10, <3>1, <3>2
  <2> QED BY <2>1 DEF Served
<1>14. \A s \in DlSlots : g[s].started => handles[s].started  BY <1>2, <1>6
<1> QED BY <1>11, <1>12, <1>13, <1>14

\* No step but the end of a load starts an object.
NoneStarts == \A s \in DlSlots : handles'[s].started => handles[s].started

\* A call of dl_open_mode() opens an object or fails.
LEMMA OpenModeStep ==
  ASSUME HandlesOK(handles), NEW c, UnderWay(handles, c), NEW path, ServedBut(handles, c, path),
         \A s \in DlSlots : handles[s].used => handles[s].name # path,
         NEW mode \in DlModes, dl_open_mode(path, mode, c)
  PROVE  DlInv' /\ NoneStarts
<1> DEFINE slot == FirstFree(handles)
           new == [slot |-> slot, path |-> path, mode |-> mode, dj |-> 1, failed |-> FALSE]
<1>1. \/ /\ path \in DOMAIN DlFiles /\ slot # 0
         /\ handles' = [handles EXCEPT ![slot] = Placed(path, mode)]
         /\ calls' = Append(c, new)
      \/ handles' = handles /\ calls' = Failing(c)
  BY DEF dl_open_mode
<1> HIDE DEF slot, new
<1>2. CASE /\ path \in DOMAIN DlFiles /\ slot # 0
           /\ handles' = [handles EXCEPT ![slot] = Placed(path, mode)]
           /\ calls' = Append(c, new)
  <2>1. slot \in DlSlots /\ ~handles[slot].used  BY <1>2, FreeSlot DEF slot
  <2>2. /\ HandlesOK(handles') /\ UnderWay(handles', calls') /\ Served(handles', calls')
        /\ \A s \in DlSlots : handles'[s].started => handles[s].started
    BY <1>2, <2>1, OpenedOne DEF new
  <2> QED BY <2>2 DEF DlInv, NoneStarts, HandlesOK, Shaped, UnderWay, Served, Provided
<1>3. CASE handles' = handles /\ calls' = Failing(c)
  <2>1. Behind(handles, c)  BY DEF ServedBut, Behind
  <2>2. UnderWay(handles', calls') /\ Served(handles', calls') /\ HandlesOK(handles')
    BY <1>3, <2>1, FailingKeeps
  <2> QED BY <1>3, <2>2 DEF DlInv, NoneStarts
<1> QED BY <1>1, <1>2, <1>3

\* Nothing is under way when the program calls.
LEMMA CalledAtRest ==
  ASSUME calls = << >>, NEW h, NEW path
  PROVE  Served(h, calls) /\ ServedBut(h, calls, path) /\ DOMAIN calls = {}
<1>1. DOMAIN calls = {}  OBVIOUS
<1> QED BY <1>1 DEF Served, ServedBut

\* A field of a handle that says nothing of who runs when is written.
HandleWith(h, s, f, v) == [h EXCEPT ![s] = [h[s] EXCEPT ![f] = v]]

LEMMA FieldWritten ==
  ASSUME NEW h, NEW c, HandlesOK(h), UnderWay(h, c), Served(h, c),
         NEW s \in DlSlots, NEW f \in {"refs", "plt"}, NEW v
  PROVE  /\ HandlesOK(HandleWith(h, s, f, v)) /\ UnderWay(HandleWith(h, s, f, v), c)
         /\ Served(HandleWith(h, s, f, v), c)
         /\ \A t \in DlSlots : HandleWith(h, s, f, v)[t].started = h[t].started
<1> DEFINE g == HandleWith(h, s, f, v)
<1>0. g = [h EXCEPT ![s] = [h[s] EXCEPT ![f] = v]]  BY DEF HandleWith
<1> HIDE DEF g
<1>1. h = [t \in DlSlots |-> [k \in DlFields |-> h[t][k]]]  BY DEF HandlesOK, Shaped
<1>2. /\ g[s] = [h[s] EXCEPT ![f] = v]
      /\ \A t \in DlSlots \ {s} : g[t] = h[t]
      /\ g = [t \in DlSlots |-> g[t]]
  BY <1>0, <1>1
<1>3. h[s] = [k \in DlFields |-> h[s][k]] /\ f \in DlFields  BY <1>1 DEF DlFields
<1>4. g[s] = [k \in DlFields |-> g[s][k]] /\ \A k \in DlFields \ {f} : g[s][k] = h[s][k]  BY <1>2, <1>3
<1>5. \A t \in DlSlots : g[t] = [k \in DlFields |-> g[t][k]]
  <2> SUFFICES ASSUME NEW t \in DlSlots PROVE g[t] = [k \in DlFields |-> g[t][k]]  OBVIOUS
  <2>1. h[t] = [k \in DlFields |-> h[t][k]]  BY <1>1
  <2> QED BY <1>2, <1>4, <2>1
<1>6. \A t \in DlSlots : g[t].used = h[t].used /\ g[t].name = h[t].name /\ g[t].started = h[t].started
  <2>1. {"used", "name", "started"} \subseteq DlFields \ {f}  BY DEF DlFields
  <2>2. g[s].used = h[s].used /\ g[s].name = h[s].name /\ g[s].started = h[s].started  BY <1>4, <2>1
  <2> QED BY <1>2, <2>2
<1>7. Shaped(g)  BY <1>2, <1>5 DEF Shaped
<1>8. HandlesOK(g) /\ UnderWay(g, c) /\ Served(g, c)  BY <1>6, <1>7, SameObjects
<1> QED BY <1>6, <1>8 DEF g

\* The last reference to an object is closed, at rest.
LEMMA Closed ==
  ASSUME DlInv, calls = << >>, calls' = calls, NEW s \in DlSlots, Unloaded(s)
  PROVE  DlInv' /\ NoneStarts
<1>1. handles' = Without(handles, s) /\ HandlesOK(handles)  BY DEF Unloaded, DlInv, Without
<1>2. HandlesOK(handles') /\ ~handles'[s].used /\ ~handles'[s].started
      /\ \A t \in DlSlots \ {s} : handles'[t] = handles[t]
  BY <1>1, WithoutOne
<1>3. Served(handles', calls') /\ DOMAIN calls = {}  BY CalledAtRest
<1>4. UnderWay(handles', calls')  BY <1>2, <1>3 DEF UnderWay, DlInv
<1> QED BY <1>2, <1>3, <1>4 DEF DlInv, NoneStarts

\* The next dependency.
LEMMA NeedStep == ASSUME DlInv, dl_need PROVE DlInv' /\ NoneStarts
<1> DEFINE n == Len(calls)
           next == [calls EXCEPT ![n].dj = @ + 1]
           need == DlFiles[calls[n].path].need
           dep == need[calls[n].dj]
<1>1. calls \in Seq(OpenFrames) /\ calls # << >>  BY DEF dl_need, DlInv, UnderWay
<1>2. n \in DOMAIN calls /\ DOMAIN calls = 1 .. n /\ n \in Nat \ {0} /\ calls[n] \in OpenFrames  BY <1>1
<1>3. OpenFrame = calls[n]  BY DEF OpenFrame, Last
<1>4. SoFile(OpenFrame.slot) = DlFiles[calls[n].path]  BY <1>2, <1>3 DEF SoFile, DlInv, UnderWay
<1>5. calls[n].mode \in DlModes /\ calls[n].dj \in Nat \ {0} /\ calls[n].path \in DOMAIN DlFiles
  BY <1>1, <1>2, FrameParts
<1>6. need \in Seq(STRING) /\ calls[n].dj \in DOMAIN need /\ ~calls[n].failed
  BY <1>3, <1>4, <1>5, DlAssumption DEF dl_need
<1>7. \/ (\E s \in Loaded : handles[s].name = dep) /\ calls' = next /\ handles' = handles
      \/ (\A s \in Loaded : handles[s].name # dep) /\ dl_open_mode(dep, calls[n].mode, next)
  BY <1>3, <1>4 DEF dl_need, dlTables
<1>8. [calls[n] EXCEPT !.dj = @ + 1] \in OpenFrames  BY <1>2, <1>5 DEF OpenFrames
<1>9. next \in Seq(OpenFrames) /\ Len(next) = n /\ DOMAIN next = DOMAIN calls  BY <1>1, <1>2, <1>8
<1>10. /\ next[n] = [calls[n] EXCEPT !.dj = @ + 1]
       /\ \A i \in DOMAIN calls : i # n => next[i] = calls[i]
  BY <1>1, <1>2
<1>11. /\ next[n].slot = calls[n].slot /\ next[n].path = calls[n].path /\ next[n].dj = calls[n].dj + 1
       /\ next[n].failed = calls[n].failed
  BY <1>2, <1>10 DEF OpenFrames
<1> HIDE DEF next
<1>12. \A i \in DOMAIN calls : next[i].slot = calls[i].slot /\ next[i].path = calls[i].path  BY <1>10, <1>11
<1>13. UnderWay(handles, next)  BY <1>9, <1>12 DEF DlInv, UnderWay
<1>14. ASSUME NEW i \in DOMAIN next, ~next[i].failed, NEW k \in Asked(next, i)
       PROVE  \/ Provided(handles, next, i, k) \/ BeingOpened(next, i, k)
              \/ i = n /\ k = next[i].dj - 1 /\ k = calls[n].dj
  <2>1. \A j \in 1 .. i : next[j].slot = calls[j].slot  BY <1>2, <1>9, <1>12
  <2>2. ~calls[i].failed  BY <1>9, <1>10, <1>11, <1>14
  <2>3. CASE k \in Asked(calls, i)
    <3>1. Provided(handles, calls, i, k) \/ BeingOpened(calls, i, k)  BY <1>9, <2>2, <2>3 DEF DlInv, Served
    <3>2. CASE Provided(handles, calls, i, k)  BY <1>9, <1>12, <2>1, <3>2 DEF Provided
    <3>3. CASE BeingOpened(calls, i, k)
      <4>1. i # n  BY <1>2, <3>3 DEF BeingOpened
      <4> QED BY <1>9, <1>10, <1>12, <3>3, <4>1 DEF BeingOpened
    <3> QED BY <3>1, <3>2, <3>3
  <2>4. CASE k \notin Asked(calls, i)
    <3>1. i = n  BY <1>9, <1>10, <1>14, <2>4 DEF Asked
    <3>2. k \in DOMAIN need /\ k < calls[n].dj + 1 /\ ~(k < calls[n].dj)  BY <1>11, <1>14, <2>4, <3>1 DEF Asked
    <3>3. k \in Nat  BY <1>6, <3>2
    <3>4. k = calls[n].dj  BY <1>5, <3>2, <3>3
    <3> QED BY <1>5, <1>11, <3>1, <3>4
  <2> QED BY <2>3, <2>4
<1>15. CASE (\E s \in Loaded : handles[s].name = dep) /\ calls' = next /\ handles' = handles
  <2>1. PICK s \in DlSlots : handles[s].used /\ handles[s].name = dep  BY <1>15 DEF Loaded
  <2>2. handles[s].started \/ \E j \in DOMAIN calls : calls[j].slot = s  BY <2>1 DEF DlInv, UnderWay
  <2>3. Provided(handles, next, n, calls[n].dj)  BY <1>2, <1>11, <1>12, <2>1, <2>2 DEF Provided
  <2>4. Served(handles, next)
    <3> SUFFICES ASSUME NEW i \in DOMAIN next, ~next[i].failed, NEW k \in Asked(next, i)
                 PROVE  Provided(handles, next, i, k) \/ BeingOpened(next, i, k)
      BY DEF Served
    <3> QED BY <1>14, <2>3
  <2> QED BY <1>13, <1>15, <2>4 DEF DlInv, NoneStarts
<1>16. CASE (\A s \in Loaded : handles[s].name # dep) /\ dl_open_mode(dep, calls[n].mode, next)
  <2>1. ServedBut(handles, next, dep)
    <3> SUFFICES ASSUME NEW i \in DOMAIN next, ~next[i].failed, NEW k \in Asked(next, i)
                 PROVE  \/ Provided(handles, next, i, k) \/ BeingOpened(next, i, k)
                        \/ i = n /\ k = next[i].dj - 1 /\ dep = DlFiles[next[i].path].need[k]
      BY <1>9 DEF ServedBut
    <3>1. i = n /\ k = calls[n].dj => dep = DlFiles[next[i].path].need[k]  BY <1>11
    <3> QED BY <1>14, <3>1
  <2>2. \A s \in DlSlots : handles[s].used => handles[s].name # dep  BY <1>16 DEF Loaded
  <2>3. HandlesOK(handles)  BY DEF DlInv
  <2> HIDE DEF n, dep
  <2> QED BY <1>5, <1>13, <1>16, <2>1, <2>2, <2>3, OpenModeStep
<1> QED BY <1>7, <1>15, <1>16

\* The calls under the innermost one have other objects.
LEMMA CallsBelow ==
  ASSUME NEW h, NEW c, UnderWay(h, c), c # << >>
  PROVE  /\ c \in Seq(OpenFrames) /\ Front(c) \in Seq(OpenFrames)
         /\ Len(c) \in Nat \ {0} /\ Len(c) \in DOMAIN c /\ DOMAIN c = 1 .. Len(c)
         /\ Len(Front(c)) = Len(c) - 1 /\ DOMAIN Front(c) = 1 .. Len(c) - 1
         /\ c[Len(c)].slot \in DlSlots
         /\ \A i \in DOMAIN Front(c) :
               /\ i \in DOMAIN c /\ i \in Nat /\ i # Len(c) /\ Front(c)[i] = c[i]
               /\ c[i].slot \in DlSlots /\ c[i].slot # c[Len(c)].slot
               /\ \A j \in 1 .. i : j \in DOMAIN Front(c)
         /\ \A i \in DOMAIN c : i = Len(c) \/ i \in DOMAIN Front(c)
         /\ \A i, j \in DOMAIN Front(c) : c[i].slot = c[j].slot => i = j
<1> DEFINE n == Len(c)
<1>1. c \in Seq(OpenFrames)  BY DEF UnderWay
<1>2. /\ Front(c) \in Seq(OpenFrames) /\ n \in Nat \ {0} /\ n \in DOMAIN c /\ DOMAIN c = 1 .. n
      /\ Len(Front(c)) = n - 1 /\ DOMAIN Front(c) = 1 .. n - 1
      /\ \A i \in 1 .. n - 1 : Front(c)[i] = c[i]
  BY <1>1, FrontParts
<1>3. \A i, j \in DOMAIN c : c[i].slot = c[j].slot => i = j  BY DEF UnderWay
<1>4. \A i \in DOMAIN c : c[i].slot \in DlSlots  BY <1>1, FrameParts
<1> HIDE DEF n
<1>5. ASSUME NEW i \in 1 .. n - 1
      PROVE  i \in 1 .. n /\ i # n /\ i \in Nat /\ \A j \in 1 .. i : j \in 1 .. n - 1
  BY <1>2
<1>6. \A i \in 1 .. n : i = n \/ i \in 1 .. n - 1  BY <1>2
<1>7. ASSUME NEW i \in DOMAIN Front(c)
      PROVE  /\ i \in DOMAIN c /\ i \in Nat /\ i # n /\ Front(c)[i] = c[i]
             /\ c[i].slot \in DlSlots /\ c[i].slot # c[n].slot
             /\ \A j \in 1 .. i : j \in DOMAIN Front(c)
  <2>1. i \in 1 .. n - 1 /\ i \in DOMAIN c  BY <1>2, <1>5
  <2> QED BY <1>2, <1>3, <1>4, <1>5, <2>1
<1>8. \A i, j \in DOMAIN Front(c) : c[i].slot = c[j].slot => i = j
  <2> SUFFICES ASSUME NEW i \in DOMAIN Front(c), NEW j \in DOMAIN Front(c), c[i].slot = c[j].slot PROVE i = j
    OBVIOUS
  <2>1. i \in DOMAIN c /\ j \in DOMAIN c  BY <1>7
  <2> QED BY <1>3, <2>1
<1>9. \A i \in DOMAIN c : i = n \/ i \in DOMAIN Front(c)  BY <1>2, <1>6
<1>10. c[n].slot \in DlSlots  BY <1>2, <1>4
<1> QED BY <1>1, <1>2, <1>7, <1>8, <1>9, <1>10, Zenon DEF n

\* Whoever waits under the innermost call is served by what it opened.
LEMMA FrontServed ==
  ASSUME NEW h, NEW c, UnderWay(h, c), Served(h, c), c # << >>,
         NEW g,
         \A s \in DlSlots : h[s].used /\ s # c[Len(c)].slot =>
            g[s].used /\ g[s].name = h[s].name /\ (h[s].started => g[s].started)
  PROVE  Behind(g, Front(c))
<1>2. /\ Len(c) \in Nat \ {0} /\ Len(c) \in DOMAIN c /\ DOMAIN c = 1 .. Len(c)
      /\ Len(Front(c)) = Len(c) - 1 /\ DOMAIN Front(c) = 1 .. Len(c) - 1
      /\ \A j \in DOMAIN Front(c) : /\ j \in DOMAIN c /\ j \in Nat /\ Front(c)[j] = c[j]
                                    /\ c[j].slot # c[Len(c)].slot
                                    /\ \A m \in 1 .. j : m \in DOMAIN Front(c)
  BY CallsBelow
<1> SUFFICES ASSUME NEW i \in DOMAIN Front(c), i # Len(Front(c)), ~Front(c)[i].failed,
                    NEW k \in Asked(Front(c), i)
             PROVE  Provided(g, Front(c), i, k) \/ BeingOpened(Front(c), i, k)
  BY DEF Behind
<1>3. /\ i \in DOMAIN c /\ i \in Nat /\ Front(c)[i] = c[i]
      /\ i + 1 \in DOMAIN Front(c) /\ Front(c)[i + 1] = c[i + 1]
  BY <1>2
<1>4. Provided(h, c, i, k) \/ BeingOpened(c, i, k)  BY <1>3 DEF Served, Asked
<1>5. CASE Provided(h, c, i, k)
  <2>1. PICK s \in DlSlots :
           /\ h[s].used /\ h[s].name = DlFiles[c[i].path].need[k]
           /\ h[s].started \/ \E j \in 1 .. i : c[j].slot = s
    BY <1>5 DEF Provided
  <2>2. \A j \in 1 .. i : j \in DOMAIN c /\ c[j].slot # c[Len(c)].slot /\ Front(c)[j] = c[j]  BY <1>2
  <2>3. s # c[Len(c)].slot
    <3>1. Len(c) \in DOMAIN c /\ ~h[c[Len(c)].slot].started  BY <1>2 DEF UnderWay
    <3> QED BY <2>1, <2>2, <3>1
  <2> QED BY <1>3, <2>1, <2>2, <2>3 DEF Provided
<1>6. CASE BeingOpened(c, i, k)  BY <1>2, <1>3, <1>6 DEF BeingOpened
<1> QED BY <1>4, <1>5, <1>6

\* The innermost call failed: its object goes, its caller fails.
LEMMA FailStep == ASSUME DlInv, dl_fail PROVE DlInv' /\ NoneStarts
<1> DEFINE n == Len(calls)
           s == calls[n].slot
           g == Without(handles, s)
<1>1. calls \in Seq(OpenFrames) /\ calls # << >>  BY DEF dl_fail, DlInv, UnderWay
<1>2. /\ Front(calls) \in Seq(OpenFrames) /\ n \in Nat \ {0} /\ n \in DOMAIN calls /\ DOMAIN calls = 1 .. n
      /\ Len(Front(calls)) = n - 1 /\ DOMAIN Front(calls) = 1 .. n - 1
      /\ \A i \in DOMAIN Front(calls) :
            /\ i \in DOMAIN calls /\ Front(calls)[i] = calls[i]
            /\ calls[i].slot \in DlSlots /\ calls[i].slot # s
            /\ \A j \in 1 .. i : j \in DOMAIN Front(calls)
      /\ \A i \in DOMAIN calls : i = n \/ i \in DOMAIN Front(calls)
      /\ \A i, j \in DOMAIN Front(calls) : calls[i].slot = calls[j].slot => i = j
  BY <1>1, CallsBelow DEF DlInv
<1>3. OpenFrame = calls[n] /\ s \in DlSlots  BY <1>1, <1>2, FrameParts DEF OpenFrame, Last
<1>4. handles' = g /\ calls' = Failing(Front(calls))  BY <1>3 DEF dl_fail, Unloaded, Without
<1>5. HandlesOK(g) /\ ~g[s].used /\ ~g[s].started /\ \A t \in DlSlots \ {s} : g[t] = handles[t]
  BY <1>3, WithoutOne DEF DlInv
<1> HIDE DEF g
<1>7. UnderWay(g, Front(calls))
  <2>1. \A i \in DOMAIN Front(calls) : /\ g[Front(calls)[i].slot].used /\ ~g[Front(calls)[i].slot].started
                                       /\ g[Front(calls)[i].slot].name = Front(calls)[i].path
    BY <1>2, <1>5 DEF DlInv, UnderWay
  <2>2. \A i, j \in DOMAIN Front(calls) : Front(calls)[i].slot = Front(calls)[j].slot => i = j  BY <1>2
  <2>3. ASSUME NEW t \in DlSlots, g[t].used
        PROVE  g[t].started \/ \E i \in DOMAIN Front(calls) : Front(calls)[i].slot = t
    <3>1. t # s /\ g[t] = handles[t]  BY <1>5, <2>3
    <3>2. handles[t].started \/ \E i \in DOMAIN calls : calls[i].slot = t  BY <2>3, <3>1 DEF DlInv, UnderWay
    <3>3. ASSUME NEW i \in DOMAIN calls, calls[i].slot = t
          PROVE  i \in DOMAIN Front(calls) /\ Front(calls)[i].slot = t
      BY <1>2, <3>1, <3>3
    <3> QED BY <3>1, <3>2, <3>3
  <2> QED BY <1>2, <2>1, <2>2, <2>3 DEF UnderWay
<1>8. Behind(g, Front(calls))
  <2>1. \A t \in DlSlots : handles[t].used /\ t # calls[Len(calls)].slot =>
              g[t].used /\ g[t].name = handles[t].name /\ (handles[t].started => g[t].started)
    BY <1>5
  <2> QED BY <1>1, <2>1, FrontServed DEF DlInv
<1>9. UnderWay(g, Failing(Front(calls))) /\ Served(g, Failing(Front(calls)))  BY <1>7, <1>8, FailingKeeps
<1>10. NoneStarts  BY <1>4, <1>5 DEF NoneStarts
<1> QED BY <1>4, <1>5, <1>9, <1>10 DEF DlInv

\* The end of a load: the initialisers of the innermost object run, or the
\* relocations did not work and the call fails.
LEMMA FinishStep ==
  ASSUME DlInv, dl_finish
  PROVE  /\ DlInv'
         /\ \A s \in DlSlots : handles'[s].started /\ ~handles[s].started => s = OpenFrame.slot
<1> DEFINE n == Len(calls)
           s == calls[n].slot
<1>1. calls \in Seq(OpenFrames) /\ calls # << >>  BY DEF dl_finish, DlInv, UnderWay
<1>2. /\ Front(calls) \in Seq(OpenFrames) /\ n \in Nat \ {0} /\ n \in DOMAIN calls /\ DOMAIN calls = 1 .. n
      /\ Len(Front(calls)) = n - 1 /\ DOMAIN Front(calls) = 1 .. n - 1
      /\ \A i \in DOMAIN Front(calls) :
            /\ i \in DOMAIN calls /\ Front(calls)[i] = calls[i]
            /\ calls[i].slot \in DlSlots /\ calls[i].slot # s
            /\ \A j \in 1 .. i : j \in DOMAIN Front(calls)
      /\ \A i \in DOMAIN calls : i = n \/ i \in DOMAIN Front(calls)
      /\ \A i, j \in DOMAIN Front(calls) : calls[i].slot = calls[j].slot => i = j
  BY <1>1, CallsBelow DEF DlInv
<1>3. OpenFrame = calls[n] /\ s \in DlSlots  BY <1>1, <1>2, FrameParts DEF OpenFrame, Last
<1>4. \/ calls' = Failing(calls) /\ handles' = handles
      \/ calls' = Front(calls) /\ \E p, r : handles' = Started(s, p, r)
  <2>1. \/ calls' = Failing(calls) /\ handles' = handles
        \/ /\ calls' = Front(calls)
           /\ handles' = Started(OpenFrame.slot,
                                 PltBound(SoFile(OpenFrame.slot), OpenFrame.mode, dl_apply_rel(OpenFrame.slot).got),
                                 SubSeq(dl_apply_rel(OpenFrame.slot).got, 1, Len(SoFile(OpenFrame.slot).rel)))
    BY DEF dl_finish
  <2> QED BY <1>3, <2>1
<1>5. CASE calls' = Failing(calls) /\ handles' = handles
  <2>1. Behind(handles, calls)  BY DEF DlInv, Served, Behind
  <2>2. UnderWay(handles, Failing(calls)) /\ Served(handles, Failing(calls))  BY <2>1, FailingKeeps DEF DlInv
  <2> QED BY <1>5, <2>2 DEF DlInv
<1>6. ASSUME calls' = Front(calls), NEW p, NEW r,
             handles' = Started(s, p, r)
      PROVE  DlInv' /\ \A t \in DlSlots \ {s} : handles'[t] = handles[t]
  <2> DEFINE g == Started(s, p, r)
  <2>1. Shaped(handles) /\ HandlesOK(handles)  BY DEF DlInv, HandlesOK
  <2>2. g = [t \in DlSlots |-> g[t]] /\ \A t \in DlSlots \ {s} : g[t] = handles[t]
    <3> DEFINE one == [handles EXCEPT ![s].started = TRUE]
               two == [one EXCEPT ![s].plt = p]
    <3>1. handles = [t \in DlSlots |-> handles[t]]  BY <2>1 DEF Shaped
    <3>2. one = [t \in DlSlots |-> one[t]] /\ \A t \in DlSlots \ {s} : one[t] = handles[t]  BY <3>1
    <3>3. g = [two EXCEPT ![s].got = r]  BY DEF Started
    <3> HIDE DEF one, g
    <3>4. two = [t \in DlSlots |-> two[t]] /\ \A t \in DlSlots \ {s} : two[t] = one[t]  BY <3>2
    <3> HIDE DEF two
    <3>5. g = [t \in DlSlots |-> g[t]] /\ \A t \in DlSlots \ {s} : g[t] = two[t]  BY <3>3, <3>4
    <3> QED BY <3>2, <3>4, <3>5
  <2>3. /\ g[s] = [k \in DlFields |-> g[s][k]]
        /\ g[s].started = TRUE /\ g[s].used = handles[s].used /\ g[s].name = handles[s].name
    <3>1. handles[s] = [k \in DlFields |-> handles[s][k]]  BY <1>3, <2>1 DEF Shaped
    <3>2. g[s] = [[[handles[s] EXCEPT !.started = TRUE] EXCEPT !.plt = p] EXCEPT !.got = r]
      BY <1>3, <2>1 DEF Shaped, Started
    <3> HIDE DEF g
    <3> QED BY <3>1, <3>2 DEF DlFields
  <2> HIDE DEF g
  <2>4. \A t \in DlSlots : g[t] = [k \in DlFields |-> g[t][k]]
    <3> SUFFICES ASSUME NEW t \in DlSlots PROVE g[t] = [k \in DlFields |-> g[t][k]]  OBVIOUS
    <3>1. handles[t] = [k \in DlFields |-> handles[t][k]]  BY <2>1 DEF Shaped
    <3> QED BY <2>2, <2>3, <3>1
  <2>5. HandlesOK(g)
    <3>1. Shaped(g)  BY <2>2, <2>4 DEF Shaped
    <3>2. \A t \in DlSlots : g[t].used = handles[t].used /\ g[t].name = handles[t].name  BY <2>2, <2>3
    <3>3. \A t \in DlSlots : g[t].started \in BOOLEAN  BY <2>1, <2>2, <2>3 DEF HandlesOK
    <3> QED BY <2>1, <3>1, <3>2, <3>3 DEF HandlesOK
  <2>7. UnderWay(g, Front(calls))
    <3>1. \A i \in DOMAIN Front(calls) : /\ g[Front(calls)[i].slot].used /\ ~g[Front(calls)[i].slot].started
                                         /\ g[Front(calls)[i].slot].name = Front(calls)[i].path
      BY <1>2, <2>2 DEF DlInv, UnderWay
    <3>2. \A i, j \in DOMAIN Front(calls) : Front(calls)[i].slot = Front(calls)[j].slot => i = j  BY <1>2
    <3>3. ASSUME NEW t \in DlSlots, g[t].used
          PROVE  g[t].started \/ \E i \in DOMAIN Front(calls) : Front(calls)[i].slot = t
      <4>1. CASE t = s  BY <2>3, <4>1
      <4>2. CASE t # s
        <5>1. g[t] = handles[t]  BY <2>2, <4>2
        <5>2. handles[t].started \/ \E i \in DOMAIN calls : calls[i].slot = t  BY <3>3, <5>1 DEF DlInv, UnderWay
        <5>3. ASSUME NEW i \in DOMAIN calls, calls[i].slot = t
              PROVE  i \in DOMAIN Front(calls) /\ Front(calls)[i].slot = t
          BY <1>2, <4>2, <5>3
        <5> QED BY <5>1, <5>2, <5>3
      <4> QED BY <4>1, <4>2
    <3> QED BY <1>2, <3>1, <3>2, <3>3 DEF UnderWay
  <2>8. Behind(g, Front(calls))
    <3>1. \A t \in DlSlots : handles[t].used /\ t # calls[Len(calls)].slot =>
                g[t].used /\ g[t].name = handles[t].name /\ (handles[t].started => g[t].started)
      BY <2>2
    <3> QED BY <1>1, <3>1, FrontServed DEF DlInv
  <2>9. ASSUME n # 1, ~calls[n - 1].failed, NEW k \in Asked(Front(calls), n - 1)
        PROVE  Provided(g, Front(calls), n - 1, k)
    <3>1. /\ n - 1 \in DOMAIN calls /\ n - 1 \in 1 .. n - 1 /\ Front(calls)[n - 1] = calls[n - 1]
          /\ (n - 1) + 1 = n
      BY <1>2, <2>9
    <3>2. Provided(handles, calls, n - 1, k) \/ BeingOpened(calls, n - 1, k)
      BY <2>9, <3>1 DEF DlInv, Served, Asked
    <3>3. CASE Provided(handles, calls, n - 1, k)
      <4>1. PICK t \in DlSlots :
               /\ handles[t].used /\ handles[t].name = DlFiles[calls[n - 1].path].need[k]
               /\ handles[t].started \/ \E j \in 1 .. n - 1 : calls[j].slot = t
        BY <3>3 DEF Provided
      <4>2. t # s  BY <1>2, <3>1, <4>1 DEF DlInv, UnderWay
      <4> QED BY <1>2, <2>2, <3>1, <4>1, <4>2 DEF Provided
    <3>4. CASE BeingOpened(calls, n - 1, k)
      <4>1. calls[n].path = DlFiles[calls[n - 1].path].need[k]  BY <3>1, <3>4 DEF BeingOpened
      <4>2. handles[s].used /\ handles[s].name = calls[n].path  BY <1>2 DEF DlInv, UnderWay
      <4> QED BY <1>3, <2>3, <3>1, <4>1, <4>2 DEF Provided
    <3> QED BY <3>2, <3>3, <3>4
  <2>10. Served(g, Front(calls))
    <3> SUFFICES ASSUME NEW i \in DOMAIN Front(calls), ~Front(calls)[i].failed, NEW k \in Asked(Front(calls), i)
                 PROVE  Provided(g, Front(calls), i, k) \/ BeingOpened(Front(calls), i, k)
      BY DEF Served
    <3>1. CASE i = n - 1  BY <1>2, <2>9, <3>1
    <3>2. CASE i # n - 1  BY <1>2, <2>8, <3>2 DEF Behind
    <3> QED BY <3>1, <3>2
  <2>11. handles' = g /\ calls' = Front(calls)  BY <1>6 DEF g
  <2> QED BY <2>2, <2>5, <2>7, <2>10, <2>11 DEF DlInv
<1> QED BY <1>3, <1>4, <1>5, <1>6

\* No other step touches what is under way.
LEMMA LinkerStep ==
  ASSUME DlInv, dlNext
  PROVE  /\ DlInv'
         /\ \A s \in DlSlots : handles'[s].started /\ ~handles[s].started => dl_finish /\ s = OpenFrame.slot
<1>1. HandlesOK(handles) /\ UnderWay(handles, calls) /\ Served(handles, calls)  BY DEF DlInv
<1>2. ASSUME DlInv' /\ NoneStarts
      PROVE  \A s \in DlSlots : handles'[s].started /\ ~handles[s].started => dl_finish /\ s = OpenFrame.slot
  BY <1>2 DEF NoneStarts
<1>3. ASSUME handles' = handles, calls' = calls PROVE DlInv' /\ NoneStarts  BY <1>3 DEF DlInv, NoneStarts
<1>4. ASSUME NEW s \in DlSlots, NEW f \in {"refs", "plt"}, NEW v, calls' = calls,
             handles' = [handles EXCEPT ![s] = [handles[s] EXCEPT ![f] = v]]
      PROVE  DlInv' /\ NoneStarts
  <2>1. handles' = HandleWith(handles, s, f, v)  BY <1>4 DEF HandleWith
  <2>2. /\ HandlesOK(HandleWith(handles, s, f, v)) /\ UnderWay(HandleWith(handles, s, f, v), calls)
        /\ Served(HandleWith(handles, s, f, v), calls)
        /\ \A t \in DlSlots : HandleWith(handles, s, f, v)[t].started = handles[t].started
    BY <1>1, FieldWritten
  <2> QED BY <1>4, <2>1, <2>2 DEF DlInv, NoneStarts
<1>5. ASSUME NEW path \in DlPaths, NEW mode \in DlModes, dl_open(path, mode) PROVE DlInv' /\ NoneStarts
  <2>1. CASE dl_again(path)
    <3>1. PICK s \in DlSlots : handles' = [handles EXCEPT ![s].refs = @ + 1] /\ calls' = calls
      BY <2>1 DEF dl_again, Loaded
    <3>2. handles' = [handles EXCEPT ![s] = [handles[s] EXCEPT !["refs"] = handles[s].refs + 1]]  BY <3>1
    <3> QED BY <1>4, <3>1, <3>2
  <2>2. CASE (\A s \in Loaded : handles[s].name # path) /\ dl_open_mode(path, mode, calls)
    <3>1. ServedBut(handles, calls, path)  BY <1>5, CalledAtRest DEF dl_open
    <3> QED BY <1>1, <2>2, <3>1, OpenModeStep DEF Loaded
  <2> QED BY <1>5, <2>1, <2>2 DEF dl_open
<1>6. ASSUME NEW s \in DlSlots, dl_close(s) PROVE DlInv' /\ NoneStarts
  <2>1. calls = << >> /\ calls' = calls  BY <1>6 DEF dl_close
  <2>2. CASE handles' = [handles EXCEPT ![s].refs = @ - 1]
    <3>1. handles' = [handles EXCEPT ![s] = [handles[s] EXCEPT !["refs"] = handles[s].refs - 1]]  BY <2>2
    <3> QED BY <1>4, <2>1, <3>1
  <2>3. CASE Unloaded(s)  BY <2>1, <2>3, Closed
  <2> QED BY <1>6, <2>2, <2>3 DEF dl_close
<1>7. ASSUME NEW s \in Loaded, NEW k \in 1 .. Len(handles[s].plt), dl_lazy_resolve(s, k)
      PROVE  DlInv' /\ NoneStarts
  <2>1. PICK b : handles' = [handles EXCEPT ![s].plt[k] = b] /\ calls' = calls  BY <1>7 DEF dl_lazy_resolve
  <2>2. handles' = [handles EXCEPT ![s] = [handles[s] EXCEPT !["plt"] = [handles[s].plt EXCEPT ![k] = b]]]
    BY <2>1
  <2> QED BY <1>4, <2>1, <2>2 DEF Loaded
<1>8. ASSUME NEW name, dl_register_export(name) PROVE DlInv' /\ NoneStarts
  BY <1>3, <1>8 DEF dl_register_export, dlTables
<1>9. ASSUME NEW t, tls_get_addr(t) PROVE DlInv' /\ NoneStarts  BY <1>3, <1>9 DEF tls_get_addr, dlTables
<1>10. ASSUME NEW t, dl_tls_new(t) PROVE DlInv' /\ NoneStarts  BY <1>3, <1>10 DEF dl_tls_new, dlTables
<1>11. CASE dl_finish  BY <1>11, FinishStep
<1>12. CASE DlInv' /\ NoneStarts  BY <1>2, <1>12
<1> QED BY <1>5, <1>6, <1>7, <1>8, <1>9, <1>10, <1>11, <1>12, NeedStep, FailStep DEF dlNext

\* When the initialisers of an object run, each of its dependencies is there.
LEMMA StartedLast ==
  ASSUME DlInv, dl_finish, NEW d \in ToSet(SoFile(OpenFrame.slot).need)
  PROVE  \E t \in Loaded : /\ handles[t].name = d
                           /\ handles[t].started \/ \E i \in DOMAIN calls : calls[i].slot = t
<1> DEFINE n == Len(calls)
<1>1. calls # << >> /\ ~OpenFrame.failed /\ OpenFrame.dj > Len(SoFile(OpenFrame.slot).need)
  BY DEF dl_finish, NeedsDone
<1>2. n \in DOMAIN calls /\ calls \in Seq(OpenFrames) /\ DOMAIN calls = 1 .. n /\ n \in Nat
  BY <1>1, CallsBelow DEF DlInv
<1>3. OpenFrame = calls[n]  BY DEF OpenFrame, Last
<1>4. calls[n].path \in DOMAIN DlFiles /\ calls[n].dj \in Nat  BY <1>2, FrameParts
<1>5. SoFile(OpenFrame.slot) = DlFiles[calls[n].path]  BY <1>2, <1>3 DEF SoFile, DlInv, UnderWay
<1>6. DlFiles[calls[n].path].need \in Seq(STRING)  BY <1>4, DlAssumption
<1>7. PICK k \in DOMAIN DlFiles[calls[n].path].need : d = DlFiles[calls[n].path].need[k]  BY <1>5 DEF ToSet
<1>8. k \in Asked(calls, n)  BY <1>1, <1>3, <1>4, <1>5, <1>6, <1>7 DEF Asked
<1>9. Provided(handles, calls, n, k) \/ BeingOpened(calls, n, k)  BY <1>1, <1>2, <1>3, <1>8 DEF DlInv, Served
<1>10. ~BeingOpened(calls, n, k)  BY <1>2 DEF BeingOpened
<1>11. PICK t \in DlSlots :
          /\ handles[t].used /\ handles[t].name = DlFiles[calls[n].path].need[k]
          /\ handles[t].started \/ \E j \in 1 .. n : calls[j].slot = t
  BY <1>9, <1>10 DEF Provided
<1> QED BY <1>2, <1>7, <1>11 DEF Loaded

LEMMA DependenciesFirstStep == ASSUME DlInv, dlNext \/ UNCHANGED dlVars PROVE DlInv' /\ DependenciesFirst
<1>1. CASE UNCHANGED dlVars  BY <1>1 DEF DependenciesFirst, dlVars, dlTables, DlInv
<1>2. CASE dlNext
  <2>1. /\ DlInv'
        /\ \A s \in DlSlots : handles'[s].started /\ ~handles[s].started => dl_finish /\ s = OpenFrame.slot
    BY <1>2, LinkerStep
  <2>2. ASSUME NEW s \in Loaded, handles'[s].started, ~handles[s].started, NEW d \in ToSet(SoFile(s).need)
        PROVE  \E t \in Loaded : /\ handles[t].name = d
                                 /\ handles[t].started \/ \E i \in DOMAIN calls : calls[i].slot = t
    BY <2>1, <2>2, StartedLast DEF Loaded
  <2> QED BY <2>1, <2>2 DEF DependenciesFirst
<1> QED BY <1>1, <1>2

------------------------------
(* What no step of a part does.                                            *)

\* The first socket of the port gets the datagram, the others keep what they have.
LEMMA OneSocketStep == ASSUME UdpInv, udpNext \/ UNCHANGED udpVars PROVE OneReceiver
<1> DEFINE changed == {i \in DOMAIN udp_socks : udp_socks[i].data # udp_socks'[i].data}
<1>1. udp_socks \in Seq(UdpSockets)  BY DEF UdpInv
<1>2. changed = {} \/ \E i : changed = {i}
  <2>1. ASSUME NEW q \in UdpPorts, udp_sock_open(q) PROVE changed = {}  BY <1>1, <2>1 DEF udp_sock_open
  <2>2. ASSUME NEW q \in UdpPorts, NEW d \in UdpData, UdpInput(q, d) PROVE changed = {} \/ \E i : changed = {i}
    <3>1. PICK m : udp_socks' = [udp_socks EXCEPT ![m].data = d]  BY <2>2 DEF UdpInput
    <3>2. \A i \in DOMAIN udp_socks : i # m => udp_socks'[i] = udp_socks[i]  BY <1>1, <3>1
    <3>3. changed \subseteq {m}  BY <3>2
    <3> QED BY <3>3
  <2>3. ASSUME NEW ip \in ArpHosts, HostKnown(ip) PROVE changed = {}  BY <2>3 DEF HostKnown
  <2>4. ASSUME NEW ip \in ArpHosts, NEW s \in DOMAIN udp_socks, udp_sock_send(s, ip) PROVE changed = {}
    <3>1. CASE udp_socks' = udp_socks  BY <3>1
    <3>2. CASE udp_socks' = [udp_socks EXCEPT ![s].peer = ip]
      <4>1. \A i \in DOMAIN udp_socks : i # s => udp_socks'[i] = udp_socks[i]  BY <1>1, <3>2
      <4>2. udp_socks[s] \in UdpSockets /\ udp_socks'[s] = [udp_socks[s] EXCEPT !.peer = ip]
        BY <1>1, <2>4, <3>2
      <4>3. udp_socks'[s].data = udp_socks[s].data  BY <4>2 DEF UdpSockets
      <4> QED BY <4>1, <4>3
    <3> QED BY <2>4, <3>1, <3>2 DEF udp_sock_send
  <2>5. CASE UNCHANGED udpVars  BY <2>5 DEF udpVars
  <2> QED BY <2>1, <2>2, <2>3, <2>4, <2>5 DEF udpNext
<1>3. Cardinality(changed) <= 1
  <2> HIDE DEF changed
  <2>1. Cardinality({}) = 0  BY FS_EmptySet
  <2>2. \A i : Cardinality({i}) = 1  BY FS_Singleton
  <2>3. CASE changed = {}  BY <2>1, <2>3
  <2>4. ASSUME NEW i, changed = {i} PROVE Cardinality(changed) = 1  BY <2>2, <2>4
  <2> QED BY <1>2, <2>3, <2>4
<1> QED BY <1>3 DEF OneReceiver

\* However many objects and sockets there are, and however deep objects
\* need one another: the initialisers of an object run after those of
\* everything it needs, but for what waits for it in turn (dl.c,
\* dl_open_mode), and a datagram reaches one socket, also when several
\* are open on its port (net.c, ip_handle).
THEOREM StepsAreSound == PartsSpec => KernelSteps
<1> DEFINE I == UdpInv /\ DlInv
<1>1. PartsInit => I  BY InitUdp, InitDl DEF PartsInit
<1>2. I /\ [PartsNext]_allVars => I' /\ [OneReceiver /\ DependenciesFirst]_allVars
  <2> SUFFICES ASSUME UdpInv, DlInv, [PartsNext]_allVars
               PROVE  UdpInv' /\ DlInv' /\ OneReceiver /\ DependenciesFirst
    OBVIOUS
  <2>1. udpNext \/ UNCHANGED udpVars  BY DEF PartsNext, allVars, udpVars
  <2>2. dlNext \/ UNCHANGED dlVars  BY DEF PartsNext, allVars
  <2>3. UdpInv'
    <3>1. CASE UNCHANGED udpVars  BY <3>1 DEF udpVars, UdpInv, PeerReached
    <3> QED BY <2>1, <3>1, UdpStep
  <2>4. OneReceiver  BY <2>1, OneSocketStep
  <2>5. DlInv' /\ DependenciesFirst  BY <2>2, DependenciesFirstStep
  <2> QED BY <2>3, <2>4, <2>5
<1> QED BY <1>1, <1>2, PTL DEF PartsSpec, KernelSteps

------------------------------
(* Counters, clocks, logs and sums (Housekeeping, NetStack).               *)

\* Idle and busy ticks (power.c).
PowerFields == {"p", "test", "irqs", "since"}
PowerInv ==
    /\ DOMAIN power = PowerFields /\ DOMAIN power.p = {"policy", "idle", "busy"}
    /\ power.p.idle \in Nat /\ power.p.busy \in Nat
    /\ power.since = power.p.idle + power.p.busy

LEMMA PowerStarts == PowerInit => PowerInv
BY DEF PowerInit, power_init, PowerInv, PowerFields

LEMMA PowerKept == ASSUME PowerInv, PowerNext PROVE PowerInv'
<1> USE DEF PowerInv, PowerFields
<1>1. ASSUME NEW i \in BOOLEAN, PowerIrq(i) PROVE PowerInv'  BY <1>1 DEF PowerIrq, power_note_tick
<1>2. ASSUME NEW q, power_set_policy(q) PROVE PowerInv'  BY <1>2 DEF power_set_policy
<1>3. ASSUME power_selftest PROVE PowerInv'
  <2>1. CASE power' = [power EXCEPT !.test = -power.test]  BY <2>1
  <2>2. CASE power' = [power EXCEPT !.p = power_init, !.since = 0, !.test = power.test + 1]
    BY <2>2 DEF power_init
  <2>3. CASE power' = [power EXCEPT !.p.policy = "saver", !.test = power.test + 1]  BY <2>3
  <2>4. CASE power' = [power EXCEPT !.p = power_note_tick(power.p, power.test < 7),
                                    !.since = @ + 1, !.test = power.test + 1]
    BY <2>4 DEF power_note_tick
  <2>5. CASE power' = [power EXCEPT !.test = power.test + 1]  BY <2>5
  <2> QED BY <1>3, <2>1, <2>2, <2>3, <2>4, <2>5 DEF power_selftest
<1> QED BY <1>1, <1>2, <1>3 DEF PowerNext

\* A part of a whole is between none and all of it, in percent.
LEMMA Percent ==
  ASSUME NEW a \in Nat, NEW b \in Nat, a + b # 0
  PROVE  (a * 100) \div (a + b) \in 0 .. 100 /\ (a = 0 => (a * 100) \div (a + b) = 0)
<1>1. PICK w \in Nat \ {0} : w = a + b  OBVIOUS
<1>2. PICK n \in Nat : n = a * 100  OBVIOUS
<1>3. n <= 100 * w  BY <1>1, <1>2
<1>4. PICK q \in Nat, r \in Nat : n = w * q + r /\ q = n \div w
  <2>1. n \div w \in Nat /\ n % w \in Nat /\ n = w * (n \div w) + (n % w)  OBVIOUS
  <2> QED BY <2>1
<1>5. q <= 100
  <2>1. ASSUME q >= 101 PROVE FALSE
    <3>1. PICK d \in Nat : q = 101 + d  BY <2>1
    <3>2. w * q = w * 101 + w * d /\ w * d \in Nat  BY <3>1
    <3> QED BY <1>3, <1>4, <3>2
  <2> QED BY <2>1
<1>6. n = 0 => q = 0
  <2>1. ASSUME n = 0, q >= 1 PROVE FALSE
    <3>1. PICK d \in Nat : q = 1 + d  BY <2>1
    <3>2. w * q = w + w * d /\ w * d \in Nat  BY <3>1
    <3> QED BY <1>4, <3>2, <2>1
  <2> QED BY <2>1
<1> QED
  <2>1. (a * 100) \div (a + b) = n \div w  BY <1>1, <1>2, Zenon
  <2>2. q \in 0 .. 100 /\ (a = 0 => q = 0)  BY <1>2, <1>5, <1>6
  <2>3. n \div w = q  BY <1>4
  <2> QED BY <2>1, <2>2, <2>3

LEMMA PowerHolds == ASSUME PowerInv PROVE TicksAccounted
<1>1. power_idle_pct(power.p) \in 0 .. 100 /\ (power.p.idle = 0 => power_idle_pct(power.p) = 0)
  <2>1. power.p.idle \in Nat /\ power.p.busy \in Nat  BY DEF PowerInv
  <2>2. CASE power.p.idle + power.p.busy = 0
    <3>1. power_idle_pct(power.p) = 0  BY <2>2 DEF power_idle_pct
    <3> QED BY <3>1
  <2>3. CASE power.p.idle + power.p.busy # 0
    <3>1. power_idle_pct(power.p) = (power.p.idle * 100) \div (power.p.idle + power.p.busy)
      BY <2>3 DEF power_idle_pct
    <3> QED BY <2>1, <2>3, <3>1, Percent, Zenon
  <2> QED BY <2>2, <2>3
<1> QED BY <1>1 DEF PowerInv, TicksAccounted

\* The profiler (prof.c): with the smallest and the largest measurement,
\* every measurement counts between them.
ProfFields == {"open", "start", "now", "min", "max", "total", "count"}
ProfInv ==
    /\ DOMAIN prof = ProfFields
    /\ {prof.start, prof.now, prof.min, prof.max, prof.total, prof.count} \subseteq Nat
    /\ prof.count = 0 => prof.max = 0 /\ prof.total = 0
    /\ ProfOrdered

LEMMA ProfStarts == ProfInit => ProfInv
BY DEF ProfInit, ProfInv, ProfFields, ProfOrdered

LEMMA ProfKept == ASSUME ProfInv, ProfNext PROVE ProfInv'
<1>1. CASE prof_begin  BY <1>1 DEF ProfInv, ProfFields, ProfOrdered, prof_begin
<1>2. CASE prof_end
  <2>1. PICK d \in Nat : d = ProfElapsed(prof.now, prof.start)
    BY HousekeepingAssumption DEF ProfInv, ProfElapsed
  <2>2. PICK lo \in Nat : lo = IF prof.count = 0 \/ d < prof.min THEN d ELSE prof.min  BY DEF ProfInv
  <2>3. PICK hi \in Nat : hi = IF d > prof.max THEN d ELSE prof.max  BY DEF ProfInv
  <2>4. /\ DOMAIN prof' = ProfFields
        /\ prof'.min = lo /\ prof'.max = hi /\ prof'.total = prof.total + d
        /\ prof'.count = prof.count + 1 /\ prof'.start = prof.start /\ prof'.now = prof.now
    BY <1>2, <2>1, <2>2, <2>3 DEF prof_end, ProfInv, ProfFields
  <2>5. lo * prof.count <= prof.total /\ prof.total <= hi * prof.count
    <3>1. CASE prof.count = 0  BY <3>1, <2>2, <2>3 DEF ProfInv
    <3>2. CASE prof.count # 0
      <4>1. prof.min * prof.count <= prof.total /\ prof.total <= prof.max * prof.count
        BY <3>2 DEF ProfInv, ProfOrdered
      <4>2. lo <= prof.min /\ prof.max <= hi  BY <3>2, <2>2, <2>3 DEF ProfInv
      <4>3. lo * prof.count <= prof.min * prof.count /\ prof.max * prof.count <= hi * prof.count
        BY <4>2 DEF ProfInv
      <4> QED BY <4>1, <4>3 DEF ProfInv
    <3> QED BY <3>1, <3>2
  <2>6. lo <= d /\ d <= hi  BY <2>2, <2>3 DEF ProfInv
  <2>7. lo * (prof.count + 1) = lo * prof.count + lo /\ hi * (prof.count + 1) = hi * prof.count + hi
    BY DEF ProfInv
  <2>8. lo * (prof.count + 1) <= prof.total + d /\ prof.total + d <= hi * (prof.count + 1)
    BY <2>5, <2>6, <2>7 DEF ProfInv
  <2> QED BY <2>4, <2>8 DEF ProfInv, ProfOrdered
<1>3. CASE prof_reset  BY <1>3 DEF ProfInv, ProfFields, ProfOrdered, prof_reset
<1>4. CASE ProfTicks
  <2>1. PICK d \in {1, 3} : prof' = [prof EXCEPT !.now = (prof.now + d) % ProfClock]  BY <1>4 DEF ProfTicks
  <2>2. (prof.now + d) % ProfClock \in Nat  BY HousekeepingAssumption DEF ProfInv
  <2> QED BY <2>1, <2>2 DEF ProfInv, ProfFields, ProfOrdered
<1> QED BY <1>1, <1>2, <1>3, <1>4 DEF ProfNext

\* Sleeping tasks (timer.c). While a task is in its call the counter is
\* passed ticks further, and the deadline is ahead, unless it falls on 0
\* or behind the wrap; from there only the last tick before the wrap does
\* not end the call at once.
ClockFields == {"tick", "state", "until", "asked", "from", "passed"}
ClockInv ==
    /\ DOMAIN clock = ClockFields
    /\ clock.tick \in 0 .. ClockWidth - 1 /\ clock.from \in 0 .. ClockWidth - 1
    /\ clock.passed \in 0 .. ClockWidth /\ clock.asked \in 0 .. ClockWidth - 1
    /\ clock.until \in 0 .. ClockWidth - 1
    /\ clock.state \in {"awake", "asleep", "waiting"}
    /\ clock.state # "awake" =>
          /\ clock.from + clock.asked < ClockWidth =>
                /\ clock.until = clock.from + clock.asked
                /\ clock.tick = clock.from + clock.passed
                /\ clock.passed < clock.asked
          /\ clock.from + clock.asked = ClockWidth => clock.until = 0
          /\ clock.from + clock.asked > ClockWidth =>
                /\ clock.until = clock.from + clock.asked - ClockWidth
                /\ \/ clock.passed = 0 /\ clock.tick = clock.from
                   \/ clock.from = ClockWidth - 1 /\ clock.tick = clock.passed - 1 /\ clock.tick < clock.until
    /\ clock.state = "waiting" => clock.from + clock.asked < ClockWidth
    /\ SleepsMeasured

LEMMA ClockStarts == ClockInit => ClockInv
BY HousekeepingAssumption DEF ClockInit, ClockInv, ClockFields, SleepsMeasured

\* The counter one round on.
LEMMA ClockWraps ==
  ASSUME NEW a \in 0 .. ClockWidth - 1, NEW n \in 1 .. ClockWidth
  PROVE  (a + n) % ClockWidth = IF a + n < ClockWidth THEN a + n ELSE a + n - ClockWidth
<1>1. ClockWidth \in Nat \ {0}  BY HousekeepingAssumption
<1>2. PICK s \in Nat : s = a + n  BY <1>1
<1>3. s < ClockWidth => s % ClockWidth = s  BY <1>1
<1>4. ASSUME s >= ClockWidth PROVE s % ClockWidth = s - ClockWidth
  <2>1. s = ClockWidth * 1 + (s - ClockWidth) /\ s - ClockWidth \in 0 .. ClockWidth - 1  BY <1>1, <1>2, <1>4
  <2> QED BY <1>1, <2>1, DivModUnique
<1> QED BY <1>1, <1>2, <1>3, <1>4

LEMMA CallBegins ==
  ASSUME ClockInv, NEW n \in ClockSleeps, NEW state \in {"asleep", "waiting"}, Begins(state, n),
         clock.state = "awake",
         state = "waiting" => clock.tick < (clock.tick + n) % ClockWidth
  PROVE  ClockInv'
<1>1. n \in 1 .. ClockWidth - 1 /\ ClockWidth \in Nat \ {0}  BY HousekeepingAssumption
<1>2. (clock.tick + n) % ClockWidth =
         IF clock.tick + n < ClockWidth THEN clock.tick + n ELSE clock.tick + n - ClockWidth
  BY <1>1, ClockWraps DEF ClockInv
<1>3. PICK u : u = (clock.tick + n) % ClockWidth  OBVIOUS
<1>4. /\ DOMAIN clock' = ClockFields /\ clock'.state = state /\ clock'.until = u
      /\ clock'.asked = n /\ clock'.from = clock.tick /\ clock'.passed = 0 /\ clock'.tick = clock.tick
  BY <1>3 DEF Begins, ClockInv, ClockFields
<1> QED BY <1>1, <1>2, <1>3, <1>4 DEF ClockInv, SleepsMeasured

LEMMA ClockKept == ASSUME ClockInv, ClockNext PROVE ClockInv'
<1>1. CASE ClockTick
  <2>1. ClockWidth \in Nat \ {0}  BY HousekeepingAssumption
  <2>2. PICK now : now = (clock.tick + 1) % ClockWidth  OBVIOUS
  <2>3. now = IF clock.tick + 1 < ClockWidth THEN clock.tick + 1 ELSE 0  BY <2>1, <2>2, ClockWraps DEF ClockInv
  <2>4. PICK ends : ends = (\/ clock.state = "asleep" /\ clock.until # 0 /\ now >= clock.until
                            \/ clock.state = "waiting" /\ now >= clock.until)
    OBVIOUS
  <2>5. /\ DOMAIN clock' = ClockFields /\ clock'.tick = now
        /\ clock'.state = IF ends THEN "awake" ELSE clock.state
        /\ clock'.until = IF ends THEN 0 ELSE clock.until
        /\ clock'.passed = IF clock.state = "awake" THEN clock.passed ELSE Min2(clock.passed + 1, ClockWidth)
        /\ clock'.asked = clock.asked /\ clock'.from = clock.from
    BY <1>1, <2>2, <2>4 DEF ClockTick, ClockInv, ClockFields, DeadlineReached
  <2> QED BY <2>1, <2>3, <2>4, <2>5 DEF ClockInv, SleepsMeasured, Min2
<1>2. ASSUME NEW n \in ClockSleeps, sleep_until(n) PROVE ClockInv'  BY <1>2, CallBegins DEF sleep_until
<1>3. ASSUME NEW n \in ClockSleeps, timer_wait(n) PROVE ClockInv'
  <2>1. clock.tick < (clock.tick + n) % ClockWidth
    <3>1. (clock.tick + n) % ClockWidth \in Int /\ clock.tick \in Int  BY HousekeepingAssumption DEF ClockInv
    <3> QED BY <3>1, <1>3 DEF timer_wait, DeadlineReached
  <2> QED BY <1>3, <2>1, CallBegins DEF timer_wait
<1> QED BY <1>1, <1>2, <1>3 DEF ClockNext

\* The alarm (rtc.c).
\* A number of two digits comes back from either form.
LEMMA BcdBack ==
  ASSUME NEW v \in 0 .. 59, NEW bin \in BOOLEAN
  PROVE  FromBcd(ToBcd(v, bin), bin) = v
BY DEF FromBcd, ToBcd

Moment == [h : 0 .. 23, m : 0 .. 59, s : 0 .. 59]
RtcFields == {"t", "reg", "alarm", "ahead"}
RtcInv ==
    /\ DOMAIN rtc = RtcFields
    /\ \E bin, h24 \in BOOLEAN :
          /\ rtc.t \in Moment /\ rtc.reg = ClockRegisters(rtc.t, bin, h24) /\ rtc.ahead \in {-1} \cup 0 .. 59
          /\ h24 /\ rtc.ahead >= 0 => rtc.alarm = ClockRegisters(AlarmTime(rtc.t, rtc.ahead), bin, TRUE)

\* The clock and the alarm show what was entered, in 24-hour mode.
LEMMA TimeShown ==
  ASSUME NEW t \in Moment, NEW bin \in BOOLEAN
  PROVE  rtc_get_time(ClockRegisters(t, bin, TRUE)) = t
<1>1. /\ t.h \in 0 .. 23 /\ t.m \in 0 .. 59 /\ t.s \in 0 .. 59
      /\ t = [h |-> t.h, m |-> t.m, s |-> t.s]
  BY DEF Moment
<1>2. /\ FromBcd(ToBcd(t.h, bin), bin) = t.h
      /\ FromBcd(ToBcd(t.m, bin), bin) = t.m
      /\ FromBcd(ToBcd(t.s, bin), bin) = t.s
  BY <1>1, BcdBack
<1>3. PICK r : r = ClockRegisters(t, bin, TRUE)  OBVIOUS
<1>4. r.h = ToBcd(t.h, bin) /\ r.m = ToBcd(t.m, bin) /\ r.s = ToBcd(t.s, bin) /\ r.bin = bin /\ r.h24 = TRUE
  BY <1>3 DEF ClockRegisters
<1>5. ToBcd(t.h, bin) \in 0 .. 59  BY <1>1 DEF ToBcd
<1>6. PICK x \in 0 .. 59 : x = ToBcd(t.h, bin)  BY <1>5
<1>7. x % 128 = x /\ t.h % 128 = t.h  BY <1>1
<1>8. (IF bin THEN x ELSE FromBcd(x % 128, FALSE) + (x - (x % 128))) = t.h
  <2>1. CASE bin  BY <1>6, <2>1 DEF ToBcd
  <2>2. CASE ~bin
    <3>1. FromBcd(x, FALSE) = t.h  BY <1>2, <1>6, <2>2
    <3>2. FromBcd(x % 128, FALSE) = t.h  BY <1>7, <3>1, Zenon
    <3>3. x - (x % 128) = 0  BY <1>7
    <3>4. (IF bin THEN x ELSE FromBcd(x % 128, FALSE) + (x - (x % 128)))
             = FromBcd(x % 128, FALSE) + (x - (x % 128))
      BY <2>2
    <3>5. FromBcd(x % 128, FALSE) + (x - (x % 128)) = t.h + 0  BY <3>2, <3>3, Zenon
    <3>6. t.h + 0 = t.h  BY <1>1
    <3> QED BY <3>4, <3>5, <3>6, Zenon
  <2> QED BY <2>1, <2>2
<1>9. rtc_get_time(r) = [h |-> t.h % 128, m |-> FromBcd(r.m, bin), s |-> FromBcd(r.s, bin)]
  BY <1>4, <1>6, <1>8 DEF rtc_get_time
<1> QED BY <1>1, <1>2, <1>3, <1>4, <1>7, <1>9

\* Seconds, minutes and hours carry.
InDay(d) == d % 86400
LEMMA AlarmAhead ==
  ASSUME NEW t \in Moment, NEW n \in 0 .. 59
  PROVE  /\ AlarmTime(t, n) \in Moment
         /\ DaySecond(AlarmTime(t, n)) = InDay(DaySecond(t) + n)
<1>1. PICK hh \in 0 .. 23, mm \in 0 .. 59, ss \in 0 .. 59 : t = [h |-> hh, m |-> mm, s |-> ss]
  <2>1. t = [h |-> t.h, m |-> t.m, s |-> t.s]  BY Zenon DEF Moment
  <2>2. t.h \in 0 .. 23 /\ t.m \in 0 .. 59 /\ t.s \in 0 .. 59  BY Zenon DEF Moment
  <2> QED BY <2>1, <2>2, Zenon
<1>2. PICK a : a = AlarmTime(t, n)  OBVIOUS
<1>3. PICK d \in Nat : d = hh * 3600 + mm * 60 + ss + n  OBVIOUS
<1>7. DaySecond(t) + n = d  BY <1>1, <1>3 DEF DaySecond
<1>4. CASE ss + n < 60
  <2>1. a = [h |-> hh, m |-> mm, s |-> ss + n]  BY <1>1, <1>2, <1>4 DEF AlarmTime
  <2>2. a \in Moment /\ DaySecond(a) = d  BY <2>1, <1>1, <1>3, <1>4 DEF Moment, DaySecond
  <2>3. InDay(d) = d  BY <1>1, <1>3, <1>4 DEF InDay
  <2> QED BY <1>2, <1>7, <2>2, <2>3
<1>5. CASE ss + n >= 60 /\ mm + 1 < 60
  <2>1. a = [h |-> hh, m |-> mm + 1, s |-> ss + n - 60]  BY <1>1, <1>2, <1>5 DEF AlarmTime
  <2>2. a \in Moment /\ DaySecond(a) = d  BY <2>1, <1>1, <1>3, <1>5 DEF Moment, DaySecond
  <2>3. InDay(d) = d  BY <1>1, <1>3, <1>5 DEF InDay
  <2> QED BY <1>2, <1>7, <2>2, <2>3
<1>6. CASE ss + n >= 60 /\ mm + 1 = 60
  <2>1. a = [h |-> (hh + 1) % 24, m |-> 0, s |-> ss + n - 60]  BY <1>1, <1>2, <1>6 DEF AlarmTime
  <2>2. CASE hh < 23
    <3>1. (hh + 1) % 24 = hh + 1  BY <2>2
    <3>2. a = [h |-> hh + 1, m |-> 0, s |-> ss + n - 60]  BY <2>1, <3>1
    <3>3. a \in Moment /\ DaySecond(a) = d  BY <3>2, <2>2, <1>1, <1>3, <1>6 DEF Moment, DaySecond
    <3>4. InDay(d) = d  BY <2>2, <1>1, <1>3, <1>6 DEF InDay
    <3> QED BY <1>2, <1>7, <3>3, <3>4
  <2>3. CASE hh = 23
    <3>1. a = [h |-> 0, m |-> 0, s |-> ss + n - 60]  BY <2>1, <2>3
    <3>2. a \in Moment /\ DaySecond(a) = ss + n - 60  BY <3>1, <1>1, <1>6 DEF Moment, DaySecond
    <3>3. d = 86400 + (ss + n - 60) /\ ss + n - 60 \in 0 .. 59
      <4>1. mm = 59  BY <1>1, <1>6
      <4> QED BY <4>1, <2>3, <1>3, <1>6
    <3>4. InDay(d) = ss + n - 60  BY <3>3 DEF InDay
    <3> QED BY <1>2, <1>7, <3>2, <3>4
  <2> QED BY <2>2, <2>3
<1> QED BY <1>1, <1>4, <1>5, <1>6

LEMMA RtcStarts == RtcInit \/ rtc = RtcNone => RtcInv
<1> SUFFICES ASSUME NEW t \in Moment, NEW bin \in BOOLEAN, NEW h24 \in BOOLEAN,
                    rtc = [t |-> t, reg |-> ClockRegisters(t, bin, h24), alarm |-> << >>, ahead |-> -1]
             PROVE  RtcInv
  <2>1. [h |-> 0, m |-> 0, s |-> 0] \in Moment /\ RtcTimes \subseteq Moment  BY DEF Moment, RtcTimes
  <2> QED BY <2>1 DEF RtcInit, RtcNone
<1>1. DOMAIN rtc = RtcFields /\ rtc.t = t /\ rtc.reg = ClockRegisters(t, bin, h24) /\ rtc.ahead = -1
  BY DEF RtcFields
<1> QED BY <1>1 DEF RtcInv

LEMMA RtcKept == ASSUME RtcInv, RtcNext PROVE RtcInv'
<1>1. PICK n \in {0, 2, 59} : rtc_alarm_in(n)  BY DEF RtcNext
<1>2. PICK bin \in BOOLEAN, h24 \in BOOLEAN :
         rtc.t \in Moment /\ rtc.reg = ClockRegisters(rtc.t, bin, h24)
  BY DEF RtcInv
<1>3. rtc.reg.bin = bin /\ rtc.reg.h24 = h24  BY <1>2 DEF ClockRegisters
<1>4. DOMAIN rtc' = RtcFields /\ rtc'.t = rtc.t /\ rtc'.reg = rtc.reg /\ rtc'.ahead = n
  BY <1>1 DEF rtc_alarm_in, RtcInv, RtcFields
<1>5. h24 => rtc'.alarm = ClockRegisters(AlarmTime(rtc.t, n), bin, TRUE)
  <2> SUFFICES ASSUME h24 PROVE rtc'.alarm = ClockRegisters(AlarmTime(rtc.t, n), bin, TRUE)  OBVIOUS
  <2>4. h24 = TRUE  OBVIOUS
  <2>5. rtc.reg = ClockRegisters(rtc.t, bin, TRUE)  BY <1>2, <2>4, Zenon
  <2>1. rtc_get_time(rtc.reg) = rtc.t
    <3>1. rtc_get_time(ClockRegisters(rtc.t, bin, TRUE)) = rtc.t  BY <1>2, TimeShown
    <3> QED BY <2>5, <3>1, Zenon
  <2>2. PICK a : a = AlarmTime(rtc.t, n)  OBVIOUS
  <2>3. rtc'.alarm = [h |-> ToBcd(a.h, bin), m |-> ToBcd(a.m, bin), s |-> ToBcd(a.s, bin),
                      bin |-> bin, h24 |-> TRUE]
    BY <1>1, <1>3, <2>1, <2>2 DEF rtc_alarm_in, AlarmHour, RtcInv, RtcFields
  <2> QED BY <2>2, <2>3 DEF ClockRegisters
<1>6. rtc'.t \in Moment /\ rtc'.reg = ClockRegisters(rtc'.t, bin, h24) /\ rtc'.ahead \in 0 .. 59  BY <1>2, <1>4
<1>7. h24 => rtc'.alarm = ClockRegisters(AlarmTime(rtc'.t, rtc'.ahead), bin, TRUE)  BY <1>4, <1>5
<1> QED BY <1>4, <1>6, <1>7 DEF RtcInv

LEMMA RtcHolds == ASSUME RtcInv PROVE AlarmOnTime
<1> SUFFICES ASSUME rtc.reg.h24, rtc.ahead >= 0
             PROVE  DaySecond(rtc_get_time(rtc.alarm)) = (DaySecond(rtc.t) + rtc.ahead) % 86400
  BY DEF AlarmOnTime
<1>1. PICK bin \in BOOLEAN :
         rtc.t \in Moment /\ rtc.alarm = ClockRegisters(AlarmTime(rtc.t, rtc.ahead), bin, TRUE)
  <2>1. PICK bin \in BOOLEAN, h24 \in BOOLEAN :
           /\ rtc.t \in Moment /\ rtc.reg = ClockRegisters(rtc.t, bin, h24)
           /\ h24 /\ rtc.ahead >= 0 => rtc.alarm = ClockRegisters(AlarmTime(rtc.t, rtc.ahead), bin, TRUE)
    BY DEF RtcInv
  <2>2. h24  BY <2>1 DEF ClockRegisters
  <2> QED BY <2>1, <2>2
<1>2. PICK t \in Moment, n \in 0 .. 59 : t = rtc.t /\ n = rtc.ahead  BY <1>1 DEF RtcInv
<1>3. AlarmTime(t, n) \in Moment  BY AlarmAhead
<1>4. DaySecond(AlarmTime(t, n)) = InDay(DaySecond(t) + n)  BY AlarmAhead
<1>5. rtc_get_time(rtc.alarm) = AlarmTime(t, n)  BY <1>1, <1>2, <1>3, TimeShown
<1>6. DaySecond(rtc_get_time(rtc.alarm)) = InDay(DaySecond(rtc.t) + rtc.ahead)  BY <1>2, <1>4, <1>5, Zenon
<1> QED BY <1>6 DEF InDay

\* Induction over a set of numbers, and along what comes before.
LEMMA CountingUp ==
  ASSUME NEW S, 0 \in S, \A i \in Nat : i \in S => i + 1 \in S
  PROVE  \A i \in Nat : i \in S
<1> SUFFICES ASSUME NEW n \in Nat, n \notin S PROVE FALSE  OBVIOUS
<1>1. PICK x \in Nat \ S : \A y \in Nat \ S : x <= y  BY SmallestNumber
<1>2. x # 0  OBVIOUS
<1>3. x - 1 \in Nat /\ x - 1 \notin Nat \ S  BY <1>1, <1>2
<1>4. (x - 1) + 1 \in S  BY <1>3
<1> QED BY <1>1, <1>4

LEMMA AllBefore ==
  ASSUME NEW S, \A i \in Nat : (\A j \in Nat : j < i => j \in S) => i \in S
  PROVE  \A i \in Nat : i \in S
<1> SUFFICES ASSUME NEW n \in Nat, n \notin S PROVE FALSE  OBVIOUS
<1>1. PICK x \in Nat \ S : \A y \in Nat \ S : x <= y  BY SmallestNumber
<1>2. \A j \in Nat : j < x => j \in S  BY <1>1
<1> QED BY <1>1, <1>2

\* The sum of a ring of samples (thermal.c): its recursion has a solution,
\* and a sum of k samples is between k times the least and the largest.
SumsTo(f, g, k) == g = [i \in 0 .. k |-> IF i = 0 THEN 0 ELSE g[i - 1] + f[i - 1]]

LEMMA SumIsThere ==
  ASSUME NEW f, NEW k \in Nat
  PROVE  \E g : SumsTo(f, g, k) /\ SumOf(f, k) = g[k]
<1> DEFINE S == {n \in Nat : \E g : SumsTo(f, g, n)}
<1>1. 0 \in S
  <2>1. SumsTo(f, [i \in 0 .. 0 |-> 0], 0)  BY DEF SumsTo
  <2> QED BY <2>1
<1>2. ASSUME NEW n \in Nat, n \in S PROVE n + 1 \in S
  <2>1. PICK g : SumsTo(f, g, n)  BY <1>2
  <2>4. PICK h : h = [i \in 0 .. n + 1 |-> IF i <= n THEN g[i] ELSE g[n] + f[n]]  OBVIOUS
  <2>2. ASSUME NEW i \in 0 .. n + 1 PROVE h[i] = IF i = 0 THEN 0 ELSE h[i - 1] + f[i - 1]
    <3>1. CASE i <= n
      <4>1. g[i] = IF i = 0 THEN 0 ELSE g[i - 1] + f[i - 1]  BY <2>1, <3>1 DEF SumsTo
      <4>2. h[i] = g[i] /\ (i # 0 => h[i - 1] = g[i - 1])  BY <2>4, <3>1
      <4> QED BY <4>1, <4>2
    <3>2. CASE i = n + 1  BY <2>4, <3>2
    <3> QED BY <3>1, <3>2
  <2>3. h = [i \in 0 .. n + 1 |-> IF i = 0 THEN 0 ELSE h[i - 1] + f[i - 1]]  BY <2>2, <2>4
  <2>5. SumsTo(f, h, n + 1)  BY <2>3 DEF SumsTo
  <2> QED BY <2>5
<1>3. k \in S
  <2> HIDE DEF S
  <2> QED BY <1>1, <1>2, CountingUp
<1>4. PICK g : SumsTo(f, g, k)  BY <1>3
<1>5. SumsTo(f, CHOOSE sum : sum = [i \in 0 .. k |-> IF i = 0 THEN 0 ELSE sum[i - 1] + f[i - 1]], k)
  BY <1>4 DEF SumsTo
<1> QED BY <1>5 DEF SumOf

LEMMA SumBetween ==
  ASSUME NEW f, NEW k \in Nat, NEW c \in Nat, \A i \in 0 .. k - 1 : f[i] \in Nat
  PROVE  /\ SumOf(f, k) \in Nat
         /\ (\A i \in 0 .. k - 1 : f[i] >= c) => SumOf(f, k) >= c * k
         /\ (\A i \in 0 .. k - 1 : f[i] <= c) => SumOf(f, k) <= c * k
<1>1. PICK g : SumsTo(f, g, k) /\ SumOf(f, k) = g[k]  BY SumIsThere
<1> DEFINE Right(i) == /\ g[i] \in Nat
                       /\ (\A j \in 0 .. k - 1 : f[j] >= c) => g[i] >= c * i
                       /\ (\A j \in 0 .. k - 1 : f[j] <= c) => g[i] <= c * i
           S == {i \in Nat : i <= k => Right(i)}
<1>2. 0 \in S
  <2>1. g[0] = 0  BY <1>1 DEF SumsTo
  <2>2. c * 0 = 0  OBVIOUS
  <2> QED BY <2>1, <2>2
<1>3. ASSUME NEW i \in Nat, i \in S PROVE i + 1 \in S
  <2> SUFFICES ASSUME i + 1 <= k PROVE Right(i + 1)  OBVIOUS
  <2>1. Right(i)  BY <1>3
  <2>2. g[i + 1] = g[i] + f[i]  BY <1>1 DEF SumsTo
  <2>3. f[i] \in Nat /\ i \in 0 .. k - 1  OBVIOUS
  <2>4. c * (i + 1) = c * i + c  OBVIOUS
  <2>5. c * i \in Nat  OBVIOUS
  <2>6. PICK x \in Nat, y \in Nat, z \in Nat : x = g[i] /\ y = f[i] /\ z = c * i  BY <2>1, <2>3, <2>5
  <2>7. g[i + 1] = x + y /\ c * (i + 1) = z + c  BY <2>2, <2>4, <2>6
  <2>8. (\A j \in 0 .. k - 1 : f[j] >= c) => x >= z /\ y >= c  BY <2>1, <2>3, <2>6
  <2>9. (\A j \in 0 .. k - 1 : f[j] <= c) => x <= z /\ y <= c  BY <2>1, <2>3, <2>6
  <2> QED BY <2>7, <2>8, <2>9
<1>4. k \in S
  <2> HIDE DEF S
  <2> QED BY <1>2, <1>3, CountingUp
<1> QED BY <1>1, <1>4

\* An average is between the least and the largest.
LEMMA AverageBetween ==
  ASSUME NEW s \in Nat, NEW k \in Nat \ {0}, NEW c \in Nat
  PROVE  /\ s \div k \in Nat
         /\ s >= c * k => s \div k >= c
         /\ s <= c * k => s \div k <= c
<1>1. PICK q \in Nat, r \in 0 .. k - 1 : s = k * q + r /\ q = s \div k
  <2>1. s % k \in 0 .. k - 1 /\ s \div k \in Nat /\ s = k * (s \div k) + (s % k)  OBVIOUS
  <2> QED BY <2>1
<1>2. ASSUME q < c, s >= c * k PROVE FALSE
  <2>1. PICK d \in Nat : c = q + 1 + d
    <3>1. c - q - 1 \in Nat  BY <1>2
    <3> QED BY <3>1
  <2>2. c * k = k * q + k + k * d /\ k * d \in Nat  BY <2>1
  <2> QED BY <1>1, <1>2, <2>2
<1>3. ASSUME q > c, s <= c * k PROVE FALSE
  <2>1. PICK d \in Nat : q = c + 1 + d
    <3>1. q - c - 1 \in Nat  BY <1>3
    <3> QED BY <3>1
  <2>2. k * q = c * k + k + k * d /\ k * d \in Nat  BY <2>1
  <2> QED BY <1>1, <1>3, <2>2
<1> QED BY <1>1, <1>2, <1>3

\* The governor (thermal.c). Age(i) is how many samples ago the i-th place
\* of the ring was written; the last hot samples were hot, the last cool
\* ones cool; and each beyond a whole ring has moved the state by one.
ThermalFields == {"pstate", "samples", "n", "last", "hot", "cool"}
RingPlace(n) == IF n < THERMAL_AVG_N THEN n ELSE n - THERMAL_AVG_N
Age(n, i) == IF i < RingPlace(n) THEN RingPlace(n) - 1 - i ELSE RingPlace(n) - 1 - i + THERMAL_AVG_N
ThermalInv ==
    /\ DOMAIN thermal = ThermalFields
    /\ thermal.samples \in [0 .. THERMAL_AVG_N - 1 -> Nat]
    /\ thermal.n \in 0 .. 2 * THERMAL_AVG_N - 1 /\ thermal.pstate \in 0 .. THERMAL_PSTATE_MAX - 1
    /\ thermal.hot \in Nat /\ thermal.cool \in Nat
    /\ thermal.n < THERMAL_AVG_N => thermal.hot <= thermal.n /\ thermal.cool <= thermal.n
    /\ \A i \in 0 .. THERMAL_AVG_N - 1 :
          /\ Age(thermal.n, i) < thermal.hot => thermal.samples[i] >= THERMAL_UP
          /\ Age(thermal.n, i) < thermal.cool => thermal.samples[i] <= THERMAL_DOWN
    /\ thermal.hot >= THERMAL_AVG_N =>
          \/ thermal.pstate = THERMAL_PSTATE_MAX - 1
          \/ thermal.pstate >= thermal.hot - THERMAL_AVG_N + 1
    /\ thermal.cool >= THERMAL_AVG_N =>
          \/ thermal.pstate = 0
          \/ thermal.pstate <= THERMAL_PSTATE_MAX - 2 - (thermal.cool - THERMAL_AVG_N)

LEMMA ThermalStarts == ThermalInit => ThermalInv
BY HousekeepingAssumption DEF ThermalInit, thermal_init, ThermalInv, ThermalFields, Age, RingPlace

LEMMA ThermalKept == ASSUME ThermalInv, ThermalNext PROVE ThermalInv'
<1> DEFINE N == THERMAL_AVG_N
           M == THERMAL_PSTATE_MAX
<1>1. N \in Nat \ {0} /\ M \in Nat \ {0}  BY HousekeepingAssumption
<1>2. PICK temp \in Nat : temp \in Temps /\ thermal_tick(temp)  BY HousekeepingAssumption DEF ThermalNext
<1>0. PICK n0 \in 0 .. 2 * N - 1, p0 \in 0 .. M - 1, hot0 \in Nat, cool0 \in Nat :
         n0 = thermal.n /\ p0 = thermal.pstate /\ hot0 = thermal.hot /\ cool0 = thermal.cool
  BY DEF ThermalInv
<1>27. PICK up \in Nat, down \in Nat : up = THERMAL_UP /\ down = THERMAL_DOWN /\ down < up
  BY DEF THERMAL_UP, THERMAL_DOWN
<1>3. PICK place : place = n0 % N  OBVIOUS
<1>4. PICK ring : ring = [thermal.samples EXCEPT ![place] = temp]  OBVIOUS
<1>5. PICK n : n = SampleCount(n0)  OBVIOUS
<1>6. PICK k : k = IF n < N THEN n ELSE N  OBVIOUS
<1>7. PICK avg : avg = SumOf(ring, k) \div k  OBVIOUS
<1>8. PICK hot, cool :
         /\ hot = IF temp < up THEN 0 ELSE IF hot0 < N + M THEN hot0 + 1 ELSE N + M
         /\ cool = IF temp > down THEN 0 ELSE IF cool0 < N + M THEN cool0 + 1 ELSE N + M
  OBVIOUS
<1>9. thermal' = [pstate |-> Governed(p0, avg), samples |-> ring, n |-> n, last |-> avg,
                  hot |-> hot, cool |-> cool]
  BY <1>0, <1>27, <1>2, <1>3, <1>4, <1>5, <1>6, <1>7, <1>8 DEF thermal_tick
<1>10. /\ thermal.samples \in [0 .. N - 1 -> Nat]
       /\ n0 < N => hot0 <= n0 /\ cool0 <= n0
       /\ \A i \in 0 .. N - 1 :
             /\ Age(n0, i) < hot0 => thermal.samples[i] >= up
             /\ Age(n0, i) < cool0 => thermal.samples[i] <= down
       /\ hot0 >= N => p0 = M - 1 \/ p0 >= hot0 - N + 1
       /\ cool0 >= N => p0 = 0 \/ p0 <= M - 2 - (cool0 - N)
  BY <1>0, <1>27 DEF ThermalInv
<1>11. place = RingPlace(n0) /\ place \in 0 .. N - 1
  <2>1. CASE n0 < N
    <3>1. n0 \in Nat /\ n0 \in 0 .. N - 1 /\ n0 = N * 0 + n0  BY <1>1, <2>1
    <3>2. n0 % N = n0  BY <1>1, <3>1, DivModUnique
    <3> QED BY <1>3, <2>1, <3>1, <3>2 DEF RingPlace
  <2>2. CASE n0 >= N
    <3>1. PICK r \in Nat : r = n0 - N  BY <1>1, <1>10, <2>2
    <3>2. r \in 0 .. N - 1 /\ n0 = N * 1 + r /\ n0 \in Nat  BY <1>1, <1>10, <3>1
    <3>3. n0 % N = r  BY <1>1, <3>2, DivModUnique
    <3> QED BY <1>1, <1>3, <1>10, <2>2, <3>1, <3>2, <3>3 DEF RingPlace
  <2> QED BY <1>1, <1>10, <2>1, <2>2
<1>12. /\ n \in 1 .. 2 * N - 1 /\ k \in 1 .. N /\ (n0 >= N => n >= N)
       /\ n < N => n = n0 + 1
       /\ RingPlace(n) = IF place = N - 1 THEN 0 ELSE place + 1
  BY <1>1, <1>5, <1>6, <1>10, <1>11 DEF SampleCount, Advance, RingPlace
<1>13. ring \in [0 .. N - 1 -> Nat]  BY <1>4, <1>10, <1>11
<1>14. hot \in 0 .. N + M /\ cool \in 0 .. N + M
  <2>1. PICK most \in Nat : most = N + M  BY <1>1
  <2>2. hot \in 0 .. most  BY <2>1, <1>8
  <2>3. cool \in 0 .. most  BY <2>1, <1>8
  <2> QED BY <2>1, <2>2, <2>3
<1>15. /\ avg \in Nat
       /\ \A c \in Nat : (\A i \in 0 .. k - 1 : ring[i] >= c) => avg >= c
       /\ \A c \in Nat : (\A i \in 0 .. k - 1 : ring[i] <= c) => avg <= c
  <2>1. \A i \in 0 .. k - 1 : ring[i] \in Nat  BY <1>1, <1>12, <1>13
  <2>2. PICK s : s = SumOf(ring, k)  OBVIOUS
  <2>3. k \in Nat \ {0}  BY <1>1, <1>12
  <2>4. s \in Nat  BY <2>1, <2>2, <2>3, SumBetween
  <2>5. ASSUME NEW c \in Nat
        PROVE  /\ (\A i \in 0 .. k - 1 : ring[i] >= c) => s >= c * k
               /\ (\A i \in 0 .. k - 1 : ring[i] <= c) => s <= c * k
    BY <2>1, <2>2, <2>3, SumBetween
  <2>6. avg = s \div k  BY <1>7, <2>2
  <2> QED BY <2>3, <2>4, <2>5, <2>6, AverageBetween
\* The ages of the others grow by one; what is written now has age 0.
<1>16. ASSUME NEW i \in 0 .. N - 1
       PROVE  IF i = place THEN Age(n, i) = 0 ELSE Age(n, i) = Age(n0, i) + 1
  BY <1>1, <1>11, <1>12 DEF Age
<1>17. ASSUME NEW i \in 0 .. N - 1
       PROVE  /\ Age(n, i) \in 0 .. N - 1
              /\ Age(n, i) < hot => ring[i] >= up
              /\ Age(n, i) < cool => ring[i] <= down
  <2>1. Age(n, i) \in 0 .. N - 1 /\ Age(n0, i) \in 0 .. N - 1  BY <1>1, <1>11, <1>12 DEF Age
  <2>2. CASE i = place
    <3>1. ring[i] = temp /\ Age(n, i) = 0  BY <2>2, <1>4, <1>10, <1>16
    <3>2. /\ 0 < hot => temp >= up
          /\ 0 < cool => temp <= down
      BY <1>1, <1>8, <1>27
    <3> QED BY <2>1, <3>1, <3>2
  <2>3. CASE i # place
    <3>1. ring[i] = thermal.samples[i] /\ Age(n, i) = Age(n0, i) + 1  BY <2>3, <1>4, <1>10, <1>16
    <3>2. /\ Age(n0, i) < hot0 => thermal.samples[i] >= up
          /\ Age(n0, i) < cool0 => thermal.samples[i] <= down
      BY <1>10
    <3>3. Age(n, i) < hot => Age(n0, i) < hot0  BY <1>1, <1>8, <1>10, <2>1, <3>1
    <3>4. Age(n, i) < cool => Age(n0, i) < cool0  BY <1>1, <1>8, <1>10, <2>1, <3>1
    <3> QED BY <2>1, <3>1, <3>2, <3>3, <3>4
  <2> QED BY <2>2, <2>3
<1>18. n < N => hot <= n /\ cool <= n  BY <1>1, <1>8, <1>10, <1>12
<1>19. hot >= N => avg >= up
  <2> SUFFICES ASSUME hot >= N PROVE avg >= up  OBVIOUS
  <2>1. \A i \in 0 .. k - 1 : ring[i] >= up
    <3> TAKE i \in 0 .. k - 1
    <3>1. i \in 0 .. N - 1  BY <1>1, <1>12
    <3> QED BY <3>1, <1>1, <1>14, <1>17
  <2>2. up \in Nat  OBVIOUS
  <2> QED BY <2>1, <2>2, <1>15
<1>20. cool >= N => avg <= down
  <2> SUFFICES ASSUME cool >= N PROVE avg <= down  OBVIOUS
  <2>1. \A i \in 0 .. k - 1 : ring[i] <= down
    <3> TAKE i \in 0 .. k - 1
    <3>1. i \in 0 .. N - 1  BY <1>1, <1>12
    <3> QED BY <3>1, <1>1, <1>14, <1>17
  <2>2. down \in Nat  OBVIOUS
  <2> QED BY <2>1, <2>2, <1>15
<1>21. PICK p : p = Governed(p0, avg)  OBVIOUS
<1>22. /\ p \in 0 .. M - 1
       /\ avg >= up => p = M - 1 \/ p = p0 + 1
       /\ avg <= down => p = 0 \/ p = p0 - 1
  BY <1>1, <1>10, <1>15, <1>21, <1>27 DEF Governed, THERMAL_UP, THERMAL_DOWN, THERMAL_CRIT
<1>23. hot >= N => p = M - 1 \/ p >= hot - N + 1
  <2>1. hot >= N => hot = hot0 + 1 \/ hot = hot0 \/ hot0 > N + M  BY <1>1, <1>8, <1>10
  <2>2. hot0 >= N => p0 = M - 1 \/ p0 >= hot0 - N + 1  BY <1>10
  <2>3. hot0 >= N + M => p0 = M - 1  BY <1>1, <1>10, <2>2
  <2> QED BY <1>1, <1>8, <1>10, <1>14, <1>19, <1>22, <2>1, <2>2, <2>3
<1>24. cool >= N => p = 0 \/ p <= M - 2 - (cool - N)
  <2>1. cool0 >= N => p0 = 0 \/ p0 <= M - 2 - (cool0 - N)  BY <1>10
  <2>2. cool0 >= N + M => p0 = 0  BY <1>1, <1>10, <2>1
  <2> QED BY <1>1, <1>8, <1>10, <1>14, <1>20, <1>22, <2>1, <2>2
<1>25. /\ DOMAIN thermal' = ThermalFields /\ thermal'.samples = ring /\ thermal'.n = n
       /\ thermal'.pstate = p /\ thermal'.hot = hot /\ thermal'.cool = cool
  BY <1>9, <1>21 DEF ThermalFields
<1>26. hot \in Nat /\ cool \in Nat /\ n \in 0 .. 2 * N - 1  BY <1>1, <1>12, <1>14
<1> QED BY <1>13, <1>17, <1>18, <1>22, <1>23, <1>24, <1>25, <1>26, <1>27 DEF ThermalInv

LEMMA ThermalHolds == ASSUME ThermalInv PROVE GovernorFollows
<1>1. PICK N \in Nat \ {0}, M \in Nat \ {0} : N = THERMAL_AVG_N /\ M = THERMAL_PSTATE_MAX
  BY HousekeepingAssumption
<1>2. PICK p \in 0 .. M - 1, hot \in Nat, cool \in Nat :
         p = thermal.pstate /\ hot = thermal.hot /\ cool = thermal.cool
  BY <1>1 DEF ThermalInv
<1>3. /\ hot >= N => p = M - 1 \/ p >= hot - N + 1
      /\ cool >= N => p = 0 \/ p <= M - 2 - (cool - N)
  BY <1>1, <1>2 DEF ThermalInv
<1>4. hot >= N + M - 1 => p = M - 1  BY <1>3
<1>5. cool >= N + M - 1 => p = 0  BY <1>3
<1> QED BY <1>1, <1>2, <1>4, <1>5 DEF GovernorFollows

\* The log (syslog.c).  Back(h, j) is the place j bytes before the head;
\* the ring holds the last bytes of all that was written, as many as fit.
SyslogFields == {"buf", "head", "count", "level", "logged", "got", "want"}
LogPlaces == 0 .. SYSLOG_SIZE - 1
Back(h, j) == IF j <= h THEN h - j ELSE h - j + SYSLOG_SIZE
RingHolds(s, log) ==
    /\ DOMAIN s = SyslogFields /\ DOMAIN s.buf = LogPlaces /\ s.head \in LogPlaces
    /\ s.count = IF Len(log) < SYSLOG_SIZE THEN Len(log) ELSE SYSLOG_SIZE
    /\ \A j \in 1 .. SYSLOG_SIZE : j <= Len(log) => s.buf[Back(s.head, j)] = log[Len(log) + 1 - j]
SyslogInv ==
    /\ syslog.logged \in Seq(Nat) /\ Len(syslog.logged) <= SYSLOG_SIZE
    /\ RingHolds(syslog, syslog.logged)
    /\ syslog.got = syslog.want

LEMMA SyslogStarts == SyslogInit => SyslogInv
<1> SUFFICES ASSUME SyslogInit PROVE SyslogInv  OBVIOUS
<1>1. /\ DOMAIN syslog = SyslogFields /\ DOMAIN syslog.buf = LogPlaces /\ syslog.head = 0 /\ syslog.count = 0
      /\ syslog.logged = <<>> /\ syslog.got = <<>> /\ syslog.want = <<>>
  BY DEF SyslogInit, SyslogFields, LogPlaces
<1>2. Len(syslog.logged) = 0 /\ syslog.logged \in Seq(Nat)  BY <1>1
<1>3. 0 \in LogPlaces /\ 0 < SYSLOG_SIZE  BY HousekeepingAssumption DEF LogPlaces
<1>4. ASSUME NEW j \in 1 .. SYSLOG_SIZE PROVE ~(j <= Len(syslog.logged))  BY <1>2, HousekeepingAssumption
<1>5. syslog.count = IF Len(syslog.logged) < SYSLOG_SIZE THEN Len(syslog.logged) ELSE SYSLOG_SIZE
  BY <1>1, <1>2, <1>3
<1>6. RingHolds(syslog, syslog.logged)  BY <1>1, <1>3, <1>4, <1>5 DEF RingHolds
<1>7. Len(syslog.logged) <= SYSLOG_SIZE /\ syslog.got = syslog.want  BY <1>1, <1>2, HousekeepingAssumption
<1> QED BY <1>2, <1>6, <1>7 DEF SyslogInv

\* syslog_puts(), one byte.
LEMMA ByteIsKept ==
  ASSUME NEW s, NEW log \in Seq(Nat), NEW b \in Nat, RingHolds(s, log)
  PROVE  RingHolds(PutByte(s, b), Append(log, b))
<1>1. PICK R \in Nat \ {0} : R = SYSLOG_SIZE  BY HousekeepingAssumption
<1>2. PICK h \in 0 .. R - 1, l \in Nat : h = s.head /\ l = Len(log)  BY <1>1 DEF RingHolds, LogPlaces
<1>3. PICK u : u = PutByte(s, b)  OBVIOUS
<1>4. /\ DOMAIN u = SyslogFields /\ u.buf = [s.buf EXCEPT ![h] = b] /\ u.head = (h + 1) % R
      /\ u.count = IF s.count < R THEN s.count + 1 ELSE s.count
  BY <1>1, <1>2, <1>3 DEF PutByte, RingHolds, SyslogFields
<1>5. u.head = IF h = R - 1 THEN 0 ELSE h + 1
  <2>1. CASE h = R - 1
    <3>1. R \in Nat /\ R = R * 1 + 0 /\ 0 \in 0 .. R - 1 /\ 1 \in Int /\ h + 1 = R  BY <2>1
    <3> QED BY <3>1, <2>1, <1>4, DivModUnique
  <2>2. CASE h # R - 1
    <3>1. PICK a \in 0 .. R - 1 : a = h + 1 /\ a \in Nat /\ a = R * 0 + a  BY <2>2
    <3>2. a % R = a  BY <3>1, DivModUnique
    <3> QED BY <3>1, <3>2, <2>2, <1>4
  <2> QED BY <2>1, <2>2
<1>6. PICK e : e = Append(log, b)  OBVIOUS
<1>7. e \in Seq(Nat) /\ Len(e) = l + 1 /\ e[l + 1] = b /\ \A i \in 1 .. l : e[i] = log[i]  BY <1>2, <1>6
<1>8. DOMAIN s.buf = 0 .. R - 1 /\ s.count = IF l < R THEN l ELSE R  BY <1>1, <1>2 DEF RingHolds, LogPlaces
<1>9. u.count = IF l + 1 < R THEN l + 1 ELSE R  BY <1>1, <1>2, <1>4, <1>8
<1>10. ASSUME NEW j \in 1 .. R, j <= l + 1 PROVE u.buf[Back(u.head, j)] = e[l + 2 - j]
  <2>1. CASE j = 1
    <3>1. Back(u.head, j) = h  BY <1>1, <1>5, <2>1 DEF Back
    <3> QED BY <3>1, <2>1, <1>4, <1>7, <1>8
  <2>2. CASE j # 1
    <3>1. PICK i \in 1 .. R - 1 : i = j - 1  BY <2>2
    <3>2. Back(u.head, j) = Back(h, i) /\ Back(h, i) \in 0 .. R - 1 /\ Back(h, i) # h
      BY <1>1, <1>5, <3>1 DEF Back
    <3>3. u.buf[Back(u.head, j)] = s.buf[Back(h, i)]  BY <3>2, <1>4, <1>8
    <3>4. i <= l /\ i \in 1 .. R /\ l + 2 - j = l + 1 - i /\ l + 1 - i \in 1 .. l  BY <1>10, <3>1
    <3>5. s.buf[Back(h, i)] = log[l + 1 - i]  BY <3>4, <1>1, <1>2 DEF RingHolds
    <3> QED BY <3>3, <3>4, <3>5, <1>7
  <2> QED BY <2>1, <2>2
<1>11. u.head \in LogPlaces /\ DOMAIN u.buf = LogPlaces  BY <1>1, <1>4, <1>5, <1>8 DEF LogPlaces
<1>12. Len(e) + 1 = l + 2  BY <1>7
<1>13. \A j \in 1 .. SYSLOG_SIZE : j <= Len(e) => u.buf[Back(u.head, j)] = e[Len(e) + 1 - j]
  <2> TAKE j \in 1 .. SYSLOG_SIZE
  <2>1. j \in 1 .. R  BY <1>1
  <2> QED BY <2>1, <1>7, <1>10, <1>12
<1>14. u.count = IF Len(e) < SYSLOG_SIZE THEN Len(e) ELSE SYSLOG_SIZE  BY <1>1, <1>7, <1>9
<1> QED BY <1>3, <1>4, <1>6, <1>11, <1>13, <1>14 DEF RingHolds

\* The recursion over the bytes of a message has a solution.
PutsTo(g, s, m, k) == g = [i \in 0 .. k |-> IF i = 0 THEN s ELSE PutByte(g[i - 1], m[i])]

LEMMA PutsAreThere ==
  ASSUME NEW s, NEW m \in Seq(Nat)
  PROVE  \E g : PutsTo(g, s, m, Len(m)) /\ PutAll(s, m) = g[Len(m)]
<1> DEFINE S == {n \in Nat : \E g : PutsTo(g, s, m, n)}
<1>1. 0 \in S
  <2>1. PutsTo([i \in 0 .. 0 |-> s], s, m, 0)  BY DEF PutsTo
  <2> QED BY <2>1
<1>2. ASSUME NEW n \in Nat, n \in S PROVE n + 1 \in S
  <2>1. PICK g : PutsTo(g, s, m, n)  BY <1>2
  <2>4. PICK h : h = [i \in 0 .. n + 1 |-> IF i <= n THEN g[i] ELSE PutByte(g[n], m[n + 1])]  OBVIOUS
  <2>2. ASSUME NEW i \in 0 .. n + 1 PROVE h[i] = IF i = 0 THEN s ELSE PutByte(h[i - 1], m[i])
    <3>1. CASE i <= n
      <4>1. g[i] = IF i = 0 THEN s ELSE PutByte(g[i - 1], m[i])  BY <2>1, <3>1 DEF PutsTo
      <4>2. h[i] = g[i] /\ (i # 0 => h[i - 1] = g[i - 1])  BY <2>4, <3>1
      <4> QED BY <4>1, <4>2
    <3>2. CASE i = n + 1
      <4>1. h[i] = PutByte(g[n], m[n + 1]) /\ h[n] = g[n] /\ i - 1 = n /\ i # 0  BY <2>4, <3>2
      <4> QED BY <4>1, <3>2
    <3> QED BY <3>1, <3>2
  <2>3. h = [i \in 0 .. n + 1 |-> IF i = 0 THEN s ELSE PutByte(h[i - 1], m[i])]  BY <2>2, <2>4
  <2>5. PutsTo(h, s, m, n + 1)  BY <2>3 DEF PutsTo
  <2> QED BY <2>5
<1>3. Len(m) \in S
  <2> HIDE DEF S
  <2>1. Len(m) \in Nat  OBVIOUS
  <2> QED BY <1>1, <1>2, <2>1, CountingUp
<1>4. PICK g : PutsTo(g, s, m, Len(m))  BY <1>3
<1>5. PutsTo(CHOOSE put : put = [i \in 0 .. Len(m) |-> IF i = 0 THEN s ELSE PutByte(put[i - 1], m[i])],
             s, m, Len(m))
  BY <1>4 DEF PutsTo
<1> QED BY <1>5 DEF PutAll

LEMMA MessageIsKept ==
  ASSUME NEW s, NEW log \in Seq(Nat), NEW m \in Seq(Nat), RingHolds(s, log)
  PROVE  RingHolds(PutAll(s, m), log \o m)
<1>1. PICK g : PutsTo(g, s, m, Len(m)) /\ PutAll(s, m) = g[Len(m)]  BY PutsAreThere
<1> DEFINE S == {i \in Nat : i <= Len(m) => RingHolds(g[i], log \o SubSeq(m, 1, i))}
<1>2. 0 \in S
  <2>1. g[0] = s  BY <1>1 DEF PutsTo
  <2>2. SubSeq(m, 1, 0) = <<>>  BY SubSeqEmpty
  <2>3. log \o <<>> = log  OBVIOUS
  <2> QED BY <2>1, <2>2, <2>3
<1>3. ASSUME NEW i \in Nat, i \in S PROVE i + 1 \in S
  <2> SUFFICES ASSUME i + 1 <= Len(m) PROVE RingHolds(g[i + 1], log \o SubSeq(m, 1, i + 1))  OBVIOUS
  <2>1. RingHolds(g[i], log \o SubSeq(m, 1, i))  BY <1>3
  <2>2. g[i + 1] = PutByte(g[i], m[i + 1])  BY <1>1 DEF PutsTo
  <2>3. m[i + 1] \in Nat /\ log \o SubSeq(m, 1, i) \in Seq(Nat)  OBVIOUS
  <2>4. log \o SubSeq(m, 1, i + 1) = Append(log \o SubSeq(m, 1, i), m[i + 1])  BY SMTT(40)
  <2> QED BY <2>1, <2>2, <2>3, <2>4, ByteIsKept
<1>4. Len(m) \in S
  <2> HIDE DEF S
  <2>1. Len(m) \in Nat  OBVIOUS
  <2> QED BY <1>2, <1>3, <2>1, CountingUp
<1>5. SubSeq(m, 1, Len(m)) = m /\ Len(m) \in Nat  BY SubSeqFull
<1>6. RingHolds(g[Len(m)], log \o SubSeq(m, 1, Len(m)))  BY <1>4, <1>5
<1> QED BY <1>1, <1>5, <1>6

\* Only the last ring's worth is remembered.
LEMMA LastIsKept ==
  ASSUME NEW s, NEW log \in Seq(Nat), RingHolds(s, log)
  PROVE  /\ LastOf(log, SYSLOG_SIZE) \in Seq(Nat) /\ Len(LastOf(log, SYSLOG_SIZE)) <= SYSLOG_SIZE
         /\ RingHolds(s, LastOf(log, SYSLOG_SIZE))
<1>1. PICK R \in Nat \ {0}, l \in Nat : R = SYSLOG_SIZE /\ l = Len(log)  BY HousekeepingAssumption
<1>2. CASE l <= R  BY <1>1, <1>2 DEF LastOf
<1>3. CASE l > R
  <2>1. PICK e : e = LastOf(log, R)  OBVIOUS
  <2>2. e = SubSeq(log, l - R + 1, l)
    <3>1. ~(Len(log) <= R)  BY <1>1, <1>3
    <3>2. e = SubSeq(log, Len(log) - R + 1, Len(log))  BY <2>1, <3>1, Zenon DEF LastOf
    <3> QED BY <3>2, <1>1, Zenon
  <2>3. \A i \in l - R + 1 .. l : log[i] \in Nat  BY <1>1, <1>3
  <2>4. l - R + 1 \in Int /\ l \in Int /\ l - (l - R + 1) + 1 = R /\ l - R + 1 <= l  BY <1>3
  <2>5. e \in Seq(Nat) /\ Len(e) = R /\ \A i \in 1 .. R : e[i] = log[l - R + 1 + i - 1]
    BY <2>2, <2>3, <2>4, SubSeqProperties
  <2>6. ASSUME NEW j \in 1 .. R PROVE s.buf[Back(s.head, j)] = e[R + 1 - j]
    <3>1. s.buf[Back(s.head, j)] = log[l + 1 - j]  BY <1>1, <1>3 DEF RingHolds
    <3>2. R + 1 - j \in 1 .. R /\ l - R + 1 + (R + 1 - j) - 1 = l + 1 - j  BY <1>3
    <3> QED BY <2>5, <3>1, <3>2
  <2>7. s.count = R  BY <1>1, <1>3 DEF RingHolds
  <2>8. ~(Len(e) < R) /\ Len(e) <= R  BY <2>5
  <2> QED BY <1>1, <2>1, <2>5, <2>6, <2>7, <2>8 DEF RingHolds
<1> QED BY <1>2, <1>3

\* What the fields a reader sees are does not matter to the ring.
LEMMA OtherFields ==
  ASSUME NEW s, NEW t, NEW log, RingHolds(s, log), DOMAIN t = SyslogFields,
         t.buf = s.buf, t.head = s.head, t.count = s.count
  PROVE  RingHolds(t, log)
BY DEF RingHolds

LEMMA LogReadInOrder ==
  ASSUME SyslogInv, NEW n \in Nat, n <= syslog.count
  PROVE  [i \in 1 .. n |-> syslog.buf[(ReadStart(syslog) + i - 1) % SYSLOG_SIZE]] = SubSeq(syslog.logged, 1, n)
<1>0. syslog.logged \in Seq(Nat) /\ Len(syslog.logged) \in Nat /\ SYSLOG_SIZE \in Nat \ {0}
  BY HousekeepingAssumption DEF SyslogInv
<1>10. syslog.head \in 0 .. SYSLOG_SIZE - 1 /\ syslog.count = Len(syslog.logged) /\ syslog.count <= SYSLOG_SIZE
  BY <1>0 DEF SyslogInv, RingHolds, LogPlaces
<1>11. PICK R \in Nat \ {0}, h \in Nat, c \in Nat :
          R = SYSLOG_SIZE /\ h = syslog.head /\ c = syslog.count
  <2>1. syslog.head \in Nat /\ syslog.count \in Nat  BY <1>0, <1>10
  <2> QED BY <1>0, <2>1
<1>1. h < R /\ c <= R /\ n <= c  BY <1>10, <1>11
<1>2. PICK st \in 0 .. R - 1 : st = ReadStart(syslog) /\ st = IF h >= c THEN h - c ELSE h - c + R
  <2>1. CASE h >= c
    <3>1. PICK r \in 0 .. R - 1, a \in Nat : r = h - c /\ a = h - c + 2 * R /\ a = R * 2 + r  BY <1>1, <2>1
    <3>2. a % R = r  BY <3>1, DivModUnique
    <3> QED BY <1>11, <2>1, <3>1, <3>2 DEF ReadStart
  <2>2. CASE h < c
    <3>1. PICK r \in 0 .. R - 1, a \in Nat : r = h - c + R /\ a = h - c + 2 * R /\ a = R * 1 + r  BY <1>1, <2>2
    <3>2. a % R = r  BY <3>1, DivModUnique
    <3> QED BY <1>11, <1>1, <2>2, <3>1, <3>2 DEF ReadStart
  <2> QED BY <2>1, <2>2, <1>1
<1>3. PICK e : e = syslog.logged  OBVIOUS
<1>4. e \in Seq(Nat) /\ Len(e) = c  BY <1>0, <1>10, <1>11, <1>3
<1>5. ASSUME NEW i \in 1 .. n PROVE syslog.buf[(st + i - 1) % R] = e[i]
  <2>1. PICK j \in 1 .. R : j = c + 1 - i /\ j <= c  BY <1>1
  <2>2. (st + i - 1) % R = Back(h, j)
    <3>1. CASE st + i - 1 < R
      <4>1. PICK a \in 0 .. R - 1 : a = st + i - 1 /\ a \in Nat /\ a = R * 0 + a  BY <1>2, <3>1
      <4>2. a % R = a  BY <4>1, DivModUnique
      <4>3. a = Back(h, j)  BY <1>1, <1>2, <1>11, <2>1, <3>1, <4>1 DEF Back
      <4> QED BY <4>1, <4>2, <4>3
    <3>2. CASE st + i - 1 >= R
      <4>1. PICK a \in Nat, r \in 0 .. R - 1 : a = st + i - 1 /\ r = st + i - 1 - R /\ a = R * 1 + r
        BY <1>1, <1>2, <3>2, <2>1
      <4>2. a % R = r  BY <4>1, DivModUnique
      <4>3. r = Back(h, j)  BY <1>1, <1>2, <1>11, <2>1, <3>2, <4>1 DEF Back
      <4> QED BY <4>1, <4>2, <4>3
    <3> QED BY <3>1, <3>2, <1>2
  <2>3. syslog.buf[Back(h, j)] = e[c + 1 - j]  BY <1>11, <1>3, <1>4, <2>1 DEF SyslogInv, RingHolds
  <2>4. c + 1 - j = i  BY <1>1, <2>1
  <2> QED BY <2>2, <2>3, <2>4
<1>6. PICK w : w = SubSeq(e, 1, n)  OBVIOUS
<1>7. w \in Seq(Nat) /\ Len(w) = n /\ \A i \in 1 .. n : w[i] = e[i]  BY <1>1, <1>4, <1>6
<1>8. w = [i \in 1 .. n |-> w[i]]  BY <1>7
<1>9. [i \in 1 .. n |-> syslog.buf[(st + i - 1) % R]] = [i \in 1 .. n |-> w[i]]  BY <1>5, <1>7
<1> QED BY <1>11, <1>2, <1>3, <1>6, <1>8, <1>9

LEMMA SyslogKept == ASSUME SyslogInv, SyslogNext PROVE SyslogInv'
<1>0. DOMAIN syslog = SyslogFields  BY DEF SyslogInv, RingHolds
<1>1. ASSUME NEW m \in LogMessages, syslog_puts(m) PROVE SyslogInv'
  <2>1. m \in Seq(Nat)  BY HousekeepingAssumption
  <2>2. PICK log : log = syslog.logged \o m /\ log \in Seq(Nat)
    <3>1. syslog.logged \in Seq(Nat)  BY DEF SyslogInv
    <3>2. syslog.logged \o m \in Seq(Nat)  BY <2>1, <3>1
    <3> QED BY <3>2
  <2>3. PICK t : t = PutAll(syslog, m)  OBVIOUS
  <2>4. RingHolds(t, log)  BY <2>1, <2>2, <2>3, MessageIsKept DEF SyslogInv
  <2>5. PICK e : e = LastOf(log, SYSLOG_SIZE)  OBVIOUS
  <2>6. e \in Seq(Nat) /\ Len(e) <= SYSLOG_SIZE /\ RingHolds(t, e)  BY <2>2, <2>4, <2>5, LastIsKept
  <2>7. DOMAIN t = SyslogFields  BY <2>4 DEF RingHolds
  <2>8. syslog' = [t EXCEPT !.logged = e, !.got = <<>>, !.want = <<>>]
    BY <1>1, <2>2, <2>3, <2>5 DEF syslog_puts
  <2>9. /\ DOMAIN syslog' = SyslogFields /\ syslog'.buf = t.buf /\ syslog'.head = t.head
        /\ syslog'.count = t.count /\ syslog'.logged = e /\ syslog'.got = syslog'.want
    BY <2>7, <2>8 DEF SyslogFields
  <2>10. RingHolds(syslog', e)  BY <2>6, <2>9, OtherFields
  <2> QED BY <2>6, <2>9, <2>10 DEF SyslogInv, RingHolds, LogPlaces, SyslogFields, Back
<1>2. ASSUME NEW l, trace_set_level(l) PROVE SyslogInv'
  <2>1. /\ DOMAIN syslog' = SyslogFields /\ syslog'.buf = syslog.buf /\ syslog'.head = syslog.head
        /\ syslog'.count = syslog.count /\ syslog'.logged = syslog.logged /\ syslog'.got = syslog'.want
    BY <1>0, <1>2 DEF trace_set_level, SyslogFields
  <2> QED BY <2>1 DEF SyslogInv, RingHolds, LogPlaces, SyslogFields, Back
<1>3. ASSUME NEW max \in LogReads, syslog_read(max) PROVE SyslogInv'
  <2>1. PICK c \in Nat : c = syslog.count  BY HousekeepingAssumption DEF SyslogInv, RingHolds
  <2>2. max \in Nat /\ max > 0  BY <1>3, HousekeepingAssumption DEF syslog_read
  <2>3. PICK n \in Nat : n = (IF c > max - 1 THEN max - 1 ELSE c) /\ n <= c  BY <2>1, <2>2
  <2>4. PICK got, want :
           /\ got = [i \in 1 .. n |-> syslog.buf[(ReadStart(syslog) + i - 1) % SYSLOG_SIZE]]
           /\ want = SubSeq(syslog.logged, 1, n)
    OBVIOUS
  <2>5. got = want  BY <2>1, <2>3, <2>4, LogReadInOrder
  <2>6. syslog' = [syslog EXCEPT !.got = got, !.want = want, !.head = 0, !.count = 0, !.logged = <<>>]
    BY <1>3, <2>1, <2>3, <2>4 DEF syslog_read
  <2>7. /\ DOMAIN syslog' = SyslogFields /\ syslog'.buf = syslog.buf /\ syslog'.head = 0
        /\ syslog'.count = 0 /\ syslog'.logged = <<>> /\ syslog'.got = got /\ syslog'.want = want
    BY <1>0, <2>6 DEF SyslogFields
  <2>8. DOMAIN syslog.buf = LogPlaces  BY DEF SyslogInv, RingHolds
  <2>9. 0 \in LogPlaces /\ 0 < SYSLOG_SIZE  BY HousekeepingAssumption DEF LogPlaces
  <2>10. Len(syslog'.logged) = 0 /\ syslog'.logged \in Seq(Nat)  BY <2>7
  <2>11. ASSUME NEW j \in 1 .. SYSLOG_SIZE PROVE ~(j <= Len(syslog'.logged))  BY <2>10, HousekeepingAssumption
  <2>12. RingHolds(syslog', syslog'.logged)  BY <2>7, <2>8, <2>9, <2>10, <2>11 DEF RingHolds
  <2>13. Len(syslog'.logged) <= SYSLOG_SIZE /\ syslog'.got = syslog'.want
    BY <2>5, <2>7, <2>9, <2>10, HousekeepingAssumption
  <2> QED BY <2>10, <2>12, <2>13 DEF SyslogInv
<1> QED BY <1>1, <1>2, <1>3 DEF SyslogNext, trace_event

LEMMA SyslogHolds == ASSUME SyslogInv PROVE LogInOrder
BY HousekeepingAssumption DEF SyslogInv, RingHolds, LogInOrder

\* The Internet checksum (net.c): folding the carries leaves the rest
\* modulo SumWidth - 1, and nothing only of nothing.
Rest(n) == IF n = 0 THEN 0 ELSE ((n - 1) % (SumWidth - 1)) + 1

LEMMA CarriesAdded ==
  ASSUME NEW n \in Nat, n >= SumWidth
  PROVE  /\ (n % SumWidth) + (n \div SumWidth) \in Nat /\ (n % SumWidth) + (n \div SumWidth) < n
         /\ Rest((n % SumWidth) + (n \div SumWidth)) = Rest(n)
<1>1. PICK W \in Nat \ {0}, V \in Nat \ {0} : W = SumWidth /\ W = V + 1
  <2>1. SumWidth \in Nat \ {0} /\ SumWidth - 1 \in Nat \ {0} /\ SumWidth = (SumWidth - 1) + 1  BY NetAssumption
  <2> QED BY <2>1
<1>2. PICK q \in Nat, r \in 0 .. W - 1 : n = W * q + r /\ r = n % W /\ q = n \div W
  <2>1. n % W \in 0 .. W - 1 /\ n \div W \in Nat /\ n = W * (n \div W) + (n % W)  OBVIOUS
  <2> QED BY <2>1
<1>3. q # 0  BY <1>1, <1>2
<1>4. PICK k \in Nat : k = V * q  OBVIOUS
<1>5. n = k + q + r
  <2>1. W * q = V * q + q  BY <1>1
  <2> QED BY <2>1, <1>2, <1>4
<1>6. k >= q
  <2>1. PICK U \in Nat : V = U + 1
    <3>1. V - 1 \in Nat /\ V = (V - 1) + 1  OBVIOUS
    <3> QED BY <3>1
  <2>2. V * q = U * q + q /\ U * q \in Nat  BY <2>1
  <2> QED BY <2>2, <1>4
<1>7. PICK m \in Nat : m = r + q /\ m # 0 /\ m < n  BY <1>3, <1>5, <1>6
<1>8. PICK p \in Nat, t \in 0 .. V - 1 : m - 1 = V * p + t /\ t = (m - 1) % V
  <2>1. m - 1 \in Nat  BY <1>7
  <2> QED BY <2>1, DivMod
<1>9. (n - 1) % V = t
  <2>1. PICK a \in Nat, e \in Int : a = n - 1 /\ e = p + q  BY <1>7
  <2>2. V * e = V * p + V * q  BY <2>1
  <2>3. a = V * e + t
    <3>1. PICK x \in Nat : x = V * p  OBVIOUS
    <3> QED BY <3>1, <2>1, <2>2, <1>4, <1>5, <1>7, <1>8
  <2> QED BY <2>1, <2>3, DivModUnique
<1>10. n # 0 /\ SumWidth - 1 = V  BY <1>1, <1>7
<1>11. Rest(n) = t + 1 /\ Rest(m) = t + 1  BY <1>7, <1>8, <1>9, <1>10 DEF Rest
<1>12. (n % SumWidth) + (n \div SumWidth) = m  BY <1>1, <1>2, <1>7
<1> QED BY <1>7, <1>11, <1>12

FoldsTo(g, top) ==
    g = [n \in 0 .. top |-> IF n < SumWidth THEN n ELSE g[(n % SumWidth) + (n \div SumWidth)]]

LEMMA SmallRest == ASSUME NEW n \in Nat, n < SumWidth PROVE Rest(n) = n
<1>1. PICK V \in Nat \ {0} : V = SumWidth - 1  BY NetAssumption
<1>2. CASE n = 0  BY <1>2 DEF Rest
<1>3. CASE n # 0
  <2>1. PICK a \in 0 .. V - 1 : a = n - 1 /\ a \in Nat /\ a = V * 0 + a  BY <1>1, <1>3, NetAssumption
  <2>2. a % V = a  BY <2>1, DivModUnique
  <2> QED BY <1>1, <1>3, <2>1, <2>2 DEF Rest
<1> QED BY <1>2, <1>3

LEMMA FoldedIsRest ==
  ASSUME NEW s \in 0 .. SumWords * SumWidth
  PROVE  Folded(s) = Rest(s)
<1>1. PICK top \in Nat : top = SumWords * SumWidth  BY NetAssumption
<1>2. PICK h : h = [n \in 0 .. top |-> Rest(n)]  OBVIOUS
<1>3. FoldsTo(h, top)
  <2>1. ASSUME NEW n \in 0 .. top
        PROVE  h[n] = IF n < SumWidth THEN n ELSE h[(n % SumWidth) + (n \div SumWidth)]
    <3>1. CASE n < SumWidth  BY <3>1, <1>2, SmallRest
    <3>2. CASE ~(n < SumWidth)
      <4>1. PICK m : m = (n % SumWidth) + (n \div SumWidth)  OBVIOUS
      <4>2. m \in Nat /\ m < n /\ Rest(m) = Rest(n)
        <5>1. n >= SumWidth /\ n \in Nat  BY <3>2, NetAssumption
        <5> QED BY <4>1, <5>1, CarriesAdded
      <4>3. m \in 0 .. top  BY <4>2
      <4> QED BY <1>2, <3>2, <4>1, <4>2, <4>3
    <3> QED BY <3>1, <3>2
  <2> QED BY <1>2, <2>1 DEF FoldsTo
<1>4. PICK g : FoldsTo(g, top) /\ Folded(s) = g[s]
  <2>1. FoldsTo(CHOOSE fold : fold = [n \in 0 .. top |->
                   IF n < SumWidth THEN n ELSE fold[(n % SumWidth) + (n \div SumWidth)]], top)
    BY <1>3 DEF FoldsTo
  <2> QED BY <1>1, <2>1 DEF Folded
<1> DEFINE S == {n \in Nat : n <= top => g[n] = Rest(n)}
<1>5. ASSUME NEW i \in Nat, \A j \in Nat : j < i => j \in S PROVE i \in S
  <2> SUFFICES ASSUME i <= top PROVE g[i] = Rest(i)  OBVIOUS
  <2>1. CASE i < SumWidth
    <3>1. g[i] = i  BY <1>4, <2>1 DEF FoldsTo
    <3> QED BY <2>1, <3>1, SmallRest
  <2>2. CASE ~(i < SumWidth)
    <3>1. PICK m : m = (i % SumWidth) + (i \div SumWidth)  OBVIOUS
    <3>2. m \in Nat /\ m < i /\ Rest(m) = Rest(i)
      <4>1. i >= SumWidth  BY <2>2, NetAssumption
      <4> QED BY <3>1, <4>1, CarriesAdded
    <3>3. g[i] = g[m]  BY <1>4, <2>2, <3>1 DEF FoldsTo
    <3>4. g[m] = Rest(m)
      <4>1. m \in S  BY <1>5, <3>2
      <4>2. m <= top  BY <3>2
      <4> QED BY <4>1, <4>2
    <3> QED BY <3>2, <3>3, <3>4
  <2> QED BY <2>1, <2>2
<1>6. s \in Nat /\ s <= top  BY <1>1
<1>7. s \in S
  <2> HIDE DEF S
  <2> QED BY <1>5, <1>6, AllBefore
<1> QED BY <1>4, <1>6, <1>7

\* The sum of the words: changing the last one changes the sum by as much.
WordsTo(g, p, k) == g = [i \in 0 .. k |-> IF i = 0 THEN 0 ELSE g[i - 1] + p[i]]

LEMMA WordSumIsThere ==
  ASSUME NEW p
  PROVE  \E g : WordsTo(g, p, SumWords) /\ WordSum(p) = g[SumWords]
<1> DEFINE S == {n \in Nat : \E g : WordsTo(g, p, n)}
<1>1. 0 \in S
  <2>1. WordsTo([i \in 0 .. 0 |-> 0], p, 0)  BY DEF WordsTo
  <2> QED BY <2>1
<1>2. ASSUME NEW n \in Nat, n \in S PROVE n + 1 \in S
  <2>1. PICK g : WordsTo(g, p, n)  BY <1>2
  <2>2. PICK h : h = [i \in 0 .. n + 1 |-> IF i <= n THEN g[i] ELSE g[n] + p[n + 1]]  OBVIOUS
  <2>3. ASSUME NEW i \in 0 .. n + 1 PROVE h[i] = IF i = 0 THEN 0 ELSE h[i - 1] + p[i]
    <3>1. CASE i <= n
      <4>1. g[i] = IF i = 0 THEN 0 ELSE g[i - 1] + p[i]  BY <2>1, <3>1 DEF WordsTo
      <4>2. h[i] = g[i] /\ (i # 0 => h[i - 1] = g[i - 1])  BY <2>2, <3>1
      <4> QED BY <4>1, <4>2
    <3>2. CASE i = n + 1  BY <2>2, <3>2
    <3> QED BY <3>1, <3>2
  <2>4. h = [i \in 0 .. n + 1 |-> IF i = 0 THEN 0 ELSE h[i - 1] + p[i]]  BY <2>2, <2>3
  <2>5. WordsTo(h, p, n + 1)  BY <2>4 DEF WordsTo
  <2> QED BY <2>5
<1>3. SumWords \in S
  <2> HIDE DEF S
  <2>1. SumWords \in Nat  BY NetAssumption
  <2> QED BY <1>1, <1>2, <2>1, CountingUp
<1>4. PICK g : WordsTo(g, p, SumWords)  BY <1>3
<1>5. WordsTo(CHOOSE sum : sum = [i \in 0 .. SumWords |-> IF i = 0 THEN 0 ELSE sum[i - 1] + p[i]], p, SumWords)
  BY <1>4 DEF WordsTo
<1> QED BY <1>5 DEF WordSum

HeaderInv == net_header \in [1 .. SumWords -> 0 .. SumWidth - 1]

LEMMA LastWordAdds ==
  ASSUME HeaderInv, NEW c \in 0 .. SumWidth - 1
  PROVE  /\ WordSum([net_header EXCEPT ![SumWords] = 0]) \in Nat
         /\ WordSum([net_header EXCEPT ![SumWords] = c]) = WordSum([net_header EXCEPT ![SumWords] = 0]) + c
         /\ WordSum([net_header EXCEPT ![SumWords] = 0]) + c <= SumWords * (SumWidth - 1)
<1>1. PICK K \in Nat \ {0}, V \in Nat : K = SumWords /\ V = SumWidth - 1  BY NetAssumption
<1>2. PICK x, y : x = [net_header EXCEPT ![K] = c] /\ y = [net_header EXCEPT ![K] = 0]  OBVIOUS
<1>3. /\ x[K] = c /\ y[K] = 0 /\ K - 1 \in Nat
      /\ \A i \in 1 .. K - 1 : x[i] = y[i] /\ y[i] \in Nat /\ y[i] <= V
  <2>1. \A i \in 1 .. K : net_header[i] \in 0 .. V  BY <1>1 DEF HeaderInv
  <2>2. DOMAIN net_header = 1 .. K  BY <1>1 DEF HeaderInv
  <2>3. K \in 1 .. K /\ K - 1 \in Nat  OBVIOUS
  <2>4. x[K] = c /\ y[K] = 0  BY <1>2, <2>2, <2>3
  <2>5. ASSUME NEW i \in 1 .. K - 1 PROVE x[i] = y[i] /\ y[i] \in Nat /\ y[i] <= V
    <3>1. i \in 1 .. K /\ i # K  OBVIOUS
    <3> QED BY <3>1, <1>2, <2>1, <2>2
  <2> QED BY <2>3, <2>4, <2>5
<1>4. PICK g : WordsTo(g, x, K) /\ WordSum(x) = g[K]  BY <1>1, WordSumIsThere
<1>5. PICK h : WordsTo(h, y, K) /\ WordSum(y) = h[K]  BY <1>1, WordSumIsThere
<1> DEFINE S == {i \in Nat : i < K => g[i] = h[i] /\ h[i] \in Nat /\ h[i] <= i * V}
<1>6. 0 \in S
  <2>1. g[0] = 0 /\ h[0] = 0  BY <1>4, <1>5 DEF WordsTo
  <2>2. 0 * V = 0  OBVIOUS
  <2> QED BY <2>1, <2>2
<1>7. ASSUME NEW i \in Nat, i \in S PROVE i + 1 \in S
  <2> SUFFICES ASSUME i + 1 < K PROVE g[i + 1] = h[i + 1] /\ h[i + 1] \in Nat /\ h[i + 1] <= (i + 1) * V
    OBVIOUS
  <2>1. g[i + 1] = g[i] + x[i + 1] /\ h[i + 1] = h[i] + y[i + 1]  BY <1>4, <1>5 DEF WordsTo
  <2>2. g[i] = h[i] /\ h[i] \in Nat /\ h[i] <= i * V  BY <1>7
  <2>3. x[i + 1] = y[i + 1] /\ y[i + 1] \in Nat /\ y[i + 1] <= V  BY <1>3
  <2>4. PICK a \in Nat, b \in Nat, d \in Nat : a = h[i] /\ b = y[i + 1] /\ d = i * V  BY <2>2, <2>3
  <2>5. (i + 1) * V = d + V  BY <2>4
  <2> QED BY <2>1, <2>2, <2>3, <2>4, <2>5
<1>8. K - 1 \in S
  <2> HIDE DEF S
  <2> QED BY <1>3, <1>6, <1>7, CountingUp
<1>9. PICK a \in Nat, d \in Nat : a = h[K - 1] /\ d = (K - 1) * V /\ a <= d /\ g[K - 1] = a  BY <1>3, <1>8
<1>10. g[K] = a + c /\ h[K] = a + 0
  <2>1. g[K] = g[K - 1] + x[K] /\ h[K] = h[K - 1] + y[K]  BY <1>4, <1>5 DEF WordsTo
  <2> QED BY <2>1, <1>3, <1>9
<1>11. K * V = d + V /\ c \in Nat /\ c <= V  BY <1>1, <1>9, NetAssumption
<1>12. WordSum(y) \in Nat /\ WordSum(x) = WordSum(y) + c /\ WordSum(y) + c <= K * V
  BY <1>4, <1>5, <1>9, <1>10, <1>11
<1> QED BY <1>1, <1>2, <1>12

\* What is left of a sum and of what it lacks is all ones.
LEMMA RestAndWhatItLacks ==
  ASSUME NEW s \in Nat
  PROVE  Rest(s) \in 0 .. SumWidth - 1 /\ Rest(s + (SumWidth - 1 - Rest(s))) = SumWidth - 1
<1>1. PICK V \in Nat \ {0} : V = SumWidth - 1  BY NetAssumption
<1>2. PICK l \in 0 .. V - 1 : l = V - 1  OBVIOUS
<1>3. CASE s = 0
  <2>1. V - 1 \in Nat /\ V - 1 = V * 0 + l  BY <1>2
  <2>2. (V - 1) % V = l  BY <2>1, DivModUnique
  <2>3. Rest(s) = 0 /\ s + (SumWidth - 1 - Rest(s)) = V  BY <1>1, <1>3 DEF Rest
  <2>4. Rest(V) = V  BY <1>1, <1>2, <2>2 DEF Rest
  <2> QED BY <1>1, <2>3, <2>4
<1>4. CASE s # 0
  <2>1. PICK q \in Nat, t \in 0 .. V - 1 : s - 1 = V * q + t /\ t = (s - 1) % V
    <3>1. s - 1 \in Nat  BY <1>4
    <3> QED BY <3>1, DivMod
  <2>2. Rest(s) = t + 1  BY <1>1, <1>4, <2>1 DEF Rest
  <2>3. PICK k \in Nat : k = V * q  OBVIOUS
  <2>4. PICK b \in Nat, a \in Nat : b = s + (V - (t + 1)) /\ a = b - 1 /\ b # 0 /\ a = V * q + l
    BY <1>2, <2>1, <2>3
  <2>5. a % V = l
    <3>1. q \in Int /\ a = V * q + l  BY <2>4
    <3> QED BY <3>1, DivModUnique
  <2>6. Rest(b) = V  BY <1>1, <1>2, <2>4, <2>5 DEF Rest
  <2> QED BY <1>1, <2>1, <2>2, <2>4, <2>6
<1> QED BY <1>3, <1>4

LEMMA HeaderHolds == ASSUME HeaderInv PROVE ChecksumAccepted
<1>1. PICK K \in Nat \ {0}, V \in Nat \ {0}, W \in Nat : K = SumWords /\ V = SumWidth - 1 /\ W = SumWidth
  BY NetAssumption
<1>2. PICK y : y = [net_header EXCEPT ![SumWords] = 0]  OBVIOUS
<1>3. PICK s \in Nat : s = WordSum(y)
  <2>1. PICK c \in 0 .. SumWidth - 1 : TRUE  BY <1>1
  <2> QED BY <1>2, LastWordAdds
<1>4. PICK c \in 0 .. SumWidth - 1 : c = V - Rest(s)  BY <1>1, <1>3, RestAndWhatItLacks
<1>5. PICK x : x = [net_header EXCEPT ![SumWords] = c]  OBVIOUS
<1>6. WordSum(x) = s + c /\ s + c <= K * V /\ s + c \in Nat
  <2>1. WordSum(x) = s + c /\ s + c <= SumWords * (SumWidth - 1)  BY <1>2, <1>3, <1>5, LastWordAdds
  <2>2. SumWords * (SumWidth - 1) = K * V  BY <1>1
  <2>3. c \in Nat  BY <1>1
  <2> QED BY <2>1, <2>2, <2>3
<1>7. s \in 0 .. SumWords * SumWidth /\ s + c \in 0 .. SumWords * SumWidth
  <2>1. K * W = K * V + K  BY <1>1
  <2>2. PICK z \in Nat : z = K * V  OBVIOUS
  <2>3. s <= K * W /\ s + c <= K * W  BY <1>4, <1>6, <2>1, <2>2
  <2> QED BY <1>1, <1>6, <2>3
<1>8. ip_cksum(y) = c  BY <1>1, <1>3, <1>4, <1>7, FoldedIsRest DEF ip_cksum, ones_sum
<1>9. Rest(s + c) = V  BY <1>1, <1>3, <1>4, RestAndWhatItLacks
<1>10. ip_cksum(x) = 0  BY <1>1, <1>6, <1>7, <1>9, FoldedIsRest DEF ip_cksum, ones_sum
<1> QED BY <1>2, <1>5, <1>8, <1>10 DEF ChecksumAccepted

LEMMA HeaderStarts == sumInit \/ sumNone => HeaderInv
BY NetAssumption DEF sumInit, sumNone, HeaderInv

HouseIInv ==
    PowerInv /\ ThermalInv /\ SyslogInv /\ ProfInv /\ ClockInv /\ RtcInv /\ HeaderInv

LEMMA HouseStarts == PartsInit => HouseIInv
BY PowerStarts, ThermalStarts, SyslogStarts, ProfStarts, ClockStarts, RtcStarts, HeaderStarts
   DEF PartsInit, HouseIInv

LEMMA HouseKept == ASSUME HouseIInv, [PartsNext]_allVars PROVE HouseIInv'
<1>1. PowerInv'
  <2>1. PowerNext \/ UNCHANGED powerVars  BY DEF PartsNext, allVars, powerVars
  <2>2. CASE UNCHANGED powerVars  BY <2>2 DEF powerVars, HouseIInv, PowerInv
  <2> QED BY <2>1, <2>2, PowerKept DEF HouseIInv
<1>2. ThermalInv'
  <2>1. ThermalNext \/ UNCHANGED thermalVars  BY DEF PartsNext, allVars, thermalVars
  <2>2. CASE UNCHANGED thermalVars  BY <2>2 DEF thermalVars, HouseIInv, ThermalInv
  <2> QED BY <2>1, <2>2, ThermalKept DEF HouseIInv
<1>3. SyslogInv'
  <2>1. SyslogNext \/ UNCHANGED syslogVars  BY DEF PartsNext, allVars, syslogVars
  <2>2. CASE UNCHANGED syslogVars  BY <2>2 DEF syslogVars, HouseIInv, SyslogInv, RingHolds
  <2> QED BY <2>1, <2>2, SyslogKept DEF HouseIInv
<1>4. ProfInv'
  <2>1. ProfNext \/ UNCHANGED profVars  BY DEF PartsNext, allVars, profVars
  <2>2. CASE UNCHANGED profVars  BY <2>2 DEF profVars, HouseIInv, ProfInv, ProfOrdered
  <2> QED BY <2>1, <2>2, ProfKept DEF HouseIInv
<1>5. ClockInv'
  <2>1. ClockNext \/ UNCHANGED clock  BY DEF PartsNext, allVars
  <2>2. CASE UNCHANGED clock  BY <2>2 DEF HouseIInv, ClockInv, SleepsMeasured
  <2> QED BY <2>1, <2>2, ClockKept DEF HouseIInv
<1>6. RtcInv'
  <2>1. RtcNext \/ UNCHANGED rtc  BY DEF PartsNext, allVars
  <2>2. CASE UNCHANGED rtc  BY <2>2 DEF HouseIInv, RtcInv
  <2> QED BY <2>1, <2>2, RtcKept DEF HouseIInv
<1>7. HeaderInv'
  <2>1. UNCHANGED net_header  BY DEF PartsNext, allVars
  <2> QED BY <2>1 DEF HouseIInv, HeaderInv
<1> QED BY <1>1, <1>2, <1>3, <1>4, <1>5, <1>6, <1>7 DEF HouseIInv

\* Housekeeping (power.c, thermal.c, syslog.c, prof.c, timer.c, rtc.c, net.c):
\* for every ring, width, average and header, ticks are accounted for, the
\* governor follows the sensor, the log comes out in order, averages are in
\* range, sleeps and alarms last what was asked for, and checksums are accepted.
THEOREM HousekeepingIsSound == PartsSpec => []HousekeepingSound
<1>1. PartsInit => HouseIInv  BY HouseStarts
<1>2. HouseIInv /\ [PartsNext]_allVars => HouseIInv'  BY HouseKept
<1>3. HouseIInv => HousekeepingSound
  BY PowerHolds, ThermalHolds, SyslogHolds, RtcHolds, HeaderHolds
     DEF HouseIInv, HousekeepingSound, ProfInv, ClockInv
<1> QED BY <1>1, <1>2, <1>3, PTL DEF PartsSpec

==============================
