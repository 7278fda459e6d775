-------------------------------- MODULE Tcp ---------------------------------
(***************************************************************************)
(* One connection of the TCP client (kernel/net/tcp.c) and a peer behind a *)
(* network that loses, duplicates, delays and reorders segments.           *)
(*                                                                         *)
(* Sequence numbers count from 0 on each side: SYN takes number 0 and byte *)
(* k of a stream has number k.  wire holds every segment ever sent here,   *)
(* so the network may deliver any of them, any number of times, or never.  *)
(* The peer follows the protocol: it takes bytes in order, and a segment   *)
(* of its own carries an acknowledgement it once had reason to send.       *)
(* Frames that fail a checksum are dropped in tcp_input(), as lost ones.   *)
(***************************************************************************)
EXTENDS Integers, Sequences, FiniteSets

CONSTANTS
    TcpSend,      \* how many bytes the program sends
    TcpRecv,      \* how many bytes the peer sends
    TcpMss,       \* TCP_MSS
    TcpRbuf,      \* TCP_RBUF, the receive buffer of a connection
    TcpMaxRetx    \* TCP_MAXRETX

ASSUME TcpAssumption ==
    /\ TcpSend \in Nat /\ TcpRecv \in Nat
    /\ TcpRbuf \in Nat \ {0} /\ TcpMaxRetx \in Nat
    /\ TcpMss \in 1 .. TcpRecv /\ TcpMss <= TcpRbuf

VARIABLES
    pcb_state,             \* TCP_STATE_*
    snd_nxt, snd_una, rcv_nxt,
    rbuf,                  \* the bytes handed to the program
    rex,                   \* the one retransmission slot
    dupacks,
    wire,                  \* segments sent: first number, bytes, SYN
    peer_rcv,              \* the next number the peer expects
    peer_fin,              \* the peer has sent all of its stream and FIN
    overlap                \* a segment was sent while the slot was taken

tcpVars == <<pcb_state, snd_nxt, snd_una, rcv_nxt, rbuf, rex, dupacks, wire, peer_rcv, peer_fin, overlap>>

NoRex == [active |-> FALSE, seq |-> 0, len |-> 0, count |-> 0]
Segment(q, n) == [seq |-> q, len |-> n]
\* The numbers a segment covers; SYN is segment 0 and covers number 0.
Covers(g) == IF g.seq = 0 THEN 1 ELSE g.len

TcpInit ==
    /\ pcb_state = "closed"
    /\ snd_nxt = 0 /\ snd_una = 0 /\ rcv_nxt = 0
    /\ rbuf = << >>
    /\ rex = NoRex
    /\ dupacks = 0
    /\ wire = {}
    /\ peer_rcv = 0 /\ peer_fin = FALSE
    /\ overlap = FALSE

------------------------------

\* tcp_send_seg_at() with arm set: the segment goes out and takes the slot,
\* whose counter starts again.
SendArmed(q, n) ==
    /\ wire' = wire \cup {Segment(q, n)}
    /\ rex' = [active |-> TRUE, seq |-> q, len |-> n, count |-> 0]
    /\ dupacks' = 0

\* tcp_resend(): sent again through SendArmed, so the counter is 1 after it,
\* every time.
Resend ==
    /\ wire' = wire \cup {Segment(rex.seq, rex.len)}
    /\ rex' = [rex EXCEPT !.count = 1]
    /\ dupacks' = 0

\* tcp_connect().
tcp_connect ==
    /\ pcb_state = "closed" /\ snd_nxt = 0
    /\ pcb_state' = "syn_sent"
    /\ SendArmed(0, 0)
    /\ snd_nxt' = 1
    /\ UNCHANGED <<snd_una, rcv_nxt, rbuf, peer_rcv, peer_fin, overlap>>

\* tcp_send_data(): at most a segment, whatever the slot holds.
tcp_send_data(n) ==
    /\ pcb_state = "established"
    /\ n <= TcpMss /\ snd_nxt + n <= TcpSend + 1
    /\ SendArmed(snd_nxt, n)
    /\ snd_nxt' = snd_nxt + n
    /\ overlap' = (overlap \/ rex.active)
    /\ UNCHANGED <<pcb_state, snd_una, rcv_nxt, rbuf, peer_rcv, peer_fin>>

\* tcp_tick(): the deadline of the slot has passed.
tcp_tick ==
    /\ rex.active
    /\ IF rex.count >= TcpMaxRetx
       THEN /\ pcb_state' = "closed" /\ rex' = [rex EXCEPT !.active = FALSE]
            /\ UNCHANGED <<wire, dupacks>>
       ELSE Resend /\ UNCHANGED pcb_state
    /\ UNCHANGED <<snd_nxt, snd_una, rcv_nxt, rbuf, peer_rcv, peer_fin, overlap>>

\* As AckInput, a bug: any acknowledgement clears the slot.
AckInputClears(ack, dlen) ==
    IF ack > snd_una /\ ack <= snd_nxt
    THEN /\ snd_una' = ack
         /\ rex' = NoRex
         /\ dupacks' = 0
         /\ UNCHANGED wire
    ELSE UNCHANGED <<snd_una, rex, dupacks, wire>>

\* The acknowledgement part of tcp_input().
AckInput(ack, dlen) ==
    CASE ack > snd_una /\ ack <= snd_nxt ->
            /\ snd_una' = ack
            /\ rex' = [rex EXCEPT !.active = @ /\ ack # snd_nxt]
            /\ dupacks' = 0
            /\ UNCHANGED wire
      [] ack = snd_una /\ rex.active /\ dlen = 0 ->
            /\ UNCHANGED snd_una
            /\ IF dupacks + 1 >= 3 THEN Resend
               ELSE dupacks' = dupacks + 1 /\ UNCHANGED <<rex, wire>>
      [] OTHER -> UNCHANGED <<snd_una, rex, dupacks, wire>>

\* What tcp_input() keeps of dlen bytes from seq: in order, and as far as the
\* buffer has room.  Nothing takes bytes out of it (tcp_rbuf_get() copies), and
\* the window offered stays as large as the empty buffer.
Accepted(seq, dlen) ==
    IF dlen > 0 /\ seq = rcv_nxt
    THEN [k \in 1 .. (IF dlen < TcpRbuf - Len(rbuf) THEN dlen ELSE TcpRbuf - Len(rbuf)) |-> seq + k - 1]
    ELSE << >>

\* tcp_input() of SYN and ACK while connecting.
SynAckInput(ack) ==
    /\ pcb_state = "syn_sent"
    /\ peer_rcv >= 1 /\ ack = snd_nxt
    /\ pcb_state' = "established"
    /\ rcv_nxt' = 1 /\ snd_una' = ack
    /\ rex' = [rex EXCEPT !.active = FALSE] /\ dupacks' = 0
    /\ UNCHANGED <<snd_nxt, rbuf, wire, peer_rcv, peer_fin, overlap>>

\* tcp_input() of dlen bytes from seq, of FIN when fin, with ack: the data,
\* then FIN if it is the next number, then the acknowledgement.
SegInput(seq, dlen, fin, ack) ==
    /\ pcb_state \in {"established", "close_wait"}
    /\ rbuf' = rbuf \o Accepted(seq, dlen)
    /\ LET nxt == rcv_nxt + Len(Accepted(seq, dlen))
       IN IF fin /\ seq = nxt
          THEN rcv_nxt' = nxt + 1 /\ pcb_state' = "close_wait"
          ELSE rcv_nxt' = nxt /\ UNCHANGED pcb_state
    /\ AckInput(ack, dlen)
    /\ UNCHANGED <<snd_nxt, peer_rcv, peer_fin, overlap>>

\* tcp_input() of RST.
RstInput ==
    /\ pcb_state # "closed"
    /\ pcb_state' = "closed"
    /\ rex' = [rex EXCEPT !.active = FALSE]
    /\ UNCHANGED <<snd_nxt, snd_una, rcv_nxt, rbuf, dupacks, wire, peer_rcv, peer_fin, overlap>>

------------------------------
(* The peer and the network (external).                                    *)

\* Some copy of a segment reaches the peer, which keeps what is in order.
PeerReceives ==
    \E g \in wire :
        /\ g.seq = peer_rcv
        /\ peer_rcv' = peer_rcv + Covers(g)
        /\ UNCHANGED <<pcb_state, snd_nxt, snd_una, rcv_nxt, rbuf, rex, dupacks, wire, peer_fin, overlap>>

PeerCloses ==
    /\ peer_rcv >= 1 /\ ~peer_fin
    /\ peer_fin' = TRUE
    /\ UNCHANGED <<pcb_state, snd_nxt, snd_una, rcv_nxt, rbuf, rex, dupacks, wire, peer_rcv, overlap>>

\* A segment of the peer arrives, perhaps old, perhaps for the second time;
\* its FIN comes alone or behind the last bytes.
PeerSegment ==
    \E ack \in 1 .. peer_rcv :
        \/ SynAckInput(ack)
        \/ \E seq \in 1 .. TcpRecv + 1, dlen \in 0 .. TcpMss :
              /\ seq + dlen <= TcpRecv + 1
              /\ SegInput(seq, dlen, FALSE, ack)
        \/ /\ peer_fin
           /\ \E dlen \in 0 .. TcpMss : SegInput(TcpRecv + 1 - dlen, dlen, TRUE, ack)

TcpNext ==
    \/ tcp_connect
    \/ \E n \in 1 .. TcpMss : tcp_send_data(n)
    \/ tcp_tick
    \/ PeerSegment
    \/ RstInput
    \/ PeerReceives
    \/ PeerCloses

TcpSpec == TcpInit /\ [][TcpNext]_tcpVars

------------------------------

\* Whatever the network loses, repeats or reorders, the program reads the
\* peer's stream from its first byte, without gaps or repetitions, and the
\* connection half-closes only after the last byte, or with the buffer full:
\* of a segment that finds no room tcp_input() still takes FIN (tcp.c:363-375).
ReceivedInOrder ==
    /\ rbuf = [k \in 1 .. Len(rbuf) |-> k]
    /\ pcb_state = "close_wait" => Len(rbuf) \in {TcpRecv, TcpRbuf}

\* FIN is not taken before all of the data it ends ("FIN: kapatma beklemesi",
\* tcp.c:371).
FinAfterData == pcb_state = "close_wait" => Len(rbuf) = TcpRecv

\* While the program waits for the acknowledgement of a segment before it
\* sends the next, everything unacknowledged is in the slot of a connection
\* that is open, and nothing else is (tcp.c tcp_send_seg_at, tcp_input).
\* A program that does not wait overwrites the slot.
SlotCoversUnacked ==
    (~overlap /\ pcb_state # "closed") =>
        /\ rex.active = (snd_una < snd_nxt)
        /\ rex.active => rex.seq <= snd_una /\ rex.seq + Covers(rex) = snd_nxt

\* The peer never gets bytes beyond those sent, and no acknowledgement beyond
\* those it got is believed (tcp.c tcp_input, tcp_resend).
NothingInvented == snd_una <= peer_rcv /\ peer_rcv <= snd_nxt
==============================
