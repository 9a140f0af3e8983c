---------------------------- MODULE UipTcpProofs ----------------------------
(***************************************************************************)
(* Proofs about UipTcp for any number of slots, any peers and any values   *)
(* of the limits.                                                          *)
(***************************************************************************)
EXTENDS UipTcp, WellFoundedInduction, TLAPS

\* Arithmetic modulo m (the wrap of the u8 and u32 counters of uIP) stays
\* below m.
LEMMA ModRange ==
    ASSUME NEW x \in Nat, NEW m \in Nat \ {0}
    PROVE  x % m \in 0..m-1
  OBVIOUS

\* The searches of the code stop at the first hit: a nonempty set of natural
\* numbers has a minimum.
LEMMA MinIsElement ==
    ASSUME NEW S \in SUBSET Nat, S # {}
    PROVE  /\ Min(S) \in S
           /\ \A y \in S : Min(S) <= y
<1> DEFINE R == {ss \in Nat \X Nat : ss[1] < ss[2]}
<1>1. IsWellFoundedOn(R, Nat)
  BY NatLessThanWellFounded, Zenon DEF OpToRel
<1>2. PICK x \in S : \A y \in S : ~(<<y, x>> \in R)
  <2> HIDE DEF R
  <2> QED
    BY <1>1, WFMin, Zenon
<1>3. ASSUME NEW y \in S PROVE x <= y
  <2>1. <<y, x>> \in Nat \X Nat /\ <<y, x>>[1] = y /\ <<y, x>>[2] = x
    OBVIOUS
  <2>2. ~(<<y, x>>[1] < <<y, x>>[2])
    BY <1>2, <2>1, Zenon
  <2> QED
    BY <2>1, <2>2
<1> QED
  BY <1>3, Zenon DEF Min

\* A function from a nonempty set to bounded numbers has a largest value: the
\* search for the oldest of several slots finds one.
LEMMA LargestExists ==
    ASSUME NEW S, S # {}, NEW B \in Nat, NEW f, \A x \in S : f[x] \in 0..B
    PROVE  \E x \in S : \A y \in S : f[y] <= f[x]
<1> DEFINE T == {B - f[x] : x \in S}
<1>1. T \in SUBSET Nat /\ T # {}
  OBVIOUS
<1>2. Min(T) \in T /\ \A y \in T : Min(T) <= y
  <2> HIDE DEF T
  <2> QED
    BY <1>1, MinIsElement
<1>3. PICK x \in S : Min(T) = B - f[x]
  BY <1>2, Zenon
<1>4. ASSUME NEW y \in S PROVE f[y] <= f[x]
  <2>1. B - f[y] \in T
    OBVIOUS
  <2>2. f[x] \in 0..B /\ f[y] \in 0..B
    OBVIOUS
  <2> HIDE DEF T
  <2>3. B - f[x] <= B - f[y]
    BY <1>2, <1>3, <2>1
  <2> QED
    BY <2>2, <2>3
<1> QED
  BY <1>4

-----------------------------------------------------------------------------
\* TimerArmed, for one connection.
Armed(k) ==
    /\ k.st \in {"SYN_RCVD", "FIN_WAIT_1", "CLOSING", "LAST_ACK"} => k.len = 1
    /\ k.st = "SYN_RCVD" => k.nrtx <= UIP_MAXSYNRTX

\* What a step on connection c may do to the table: c keeps its remote end,
\* does not return to the handshake, and no other slot changes.
Evolves(c) ==
    /\ conns' \in [Conns -> Conn]
    /\ \A d \in Conns \ {c} : conns'[d] = conns[d]
    /\ conns'[c].rport = conns[c].rport
    /\ Armed(conns'[c])
    /\ conns'[c].st = "SYN_RCVD" => conns[c].st = "SYN_RCVD"
    /\ conns[c].st = "CLOSED" => conns'[c].st = "CLOSED"

OutType == [port: Ports \cup {NoPort}, flags: SUBSET {"SYN", "ACK", "FIN", "RST"},
            seq: SeqNo, ackno: SeqNo, len: Nat]

CallType == [conn: Conns \cup {0}, ev: SUBSET Api!Event, reply: Reply]

-----------------------------------------------------------------------------
\* A retransmission counter may be reset (UIP_MAXRTX is a number).
LEMMA ZeroRtx == 0 \in 0..UIP_MAXRTX
  BY TcpAssumption

\* A timer may be set to zero (TIMER_MOD is not zero).
LEMMA ZeroTimer == 0 \in 0..TIMER_MOD-1
  BY TcpAssumption

\* Sequence numbers wrap (uip_add32, uip_add_rcv_nxt).
LEMMA Add32Type ==
    ASSUME NEW s \in SeqNo, NEW n \in Nat
    PROVE  Add32(s, n) \in SeqNo
<1>1. s + n \in Nat
  BY DEF SeqNo
<1> QED
  BY <1>1, ModRange, TcpAssumption, ZenonT(30) DEF Add32, SeqNo

\* The backed-off timeout fits in the timer (UIP_RTO << nrtx).
LEMMA BackoffRange ==
    ASSUME NEW k
    PROVE  Backoff(k) \in 0..TIMER_MOD-1
<1> DEFINE f == CASE k.nrtx = 0 -> 1 [] k.nrtx = 1 -> 2 [] k.nrtx = 2 -> 4 [] k.nrtx = 3 -> 8
                    [] OTHER -> 16
<1>1. f \in Nat
  OBVIOUS
<1>2. Backoff(k) = (UIP_RTO * f) % TIMER_MOD
  BY DEF Backoff
<1> HIDE DEF f
<1>3. UIP_RTO * f \in Nat
  BY <1>1, TcpAssumption, SMTT(30)
<1> QED
  BY <1>2, <1>3, ModRange, TcpAssumption, ZenonT(30)

\* tcp_send builds an outgoing segment.
LEMMA SendType ==
    ASSUME NEW k \in Conn, NEW fl \in SUBSET {"SYN", "ACK", "FIN", "RST"}, NEW n \in Nat
    PROVE  Send(k, fl, n) \in OutType
  BY Zenon DEF Send, Conn, OutType

\* The empty uip_buf is an outgoing segment, too.
LEMMA NoSegType == NoSeg \in OutType
  BY TcpAssumption DEF NoSeg, OutType, SeqNo

\* A step may make no call of the application.
LEMMA NoCallType == NoCall \in CallType
  BY Zenon DEF NoCall, CallType, Api!NoCall, Api!NoReply, Reply, Api!Reply

\* A segment that acknowledges data changes the number and the timer only.
LEMMA AfterAckType ==
    ASSUME NEW k \in Conn, NEW seg \in Segment, NEW t \in Rto
    PROVE  /\ AfterAck(k, seg, t) \in Conn
           /\ AfterAck(k, seg, t).st = k.st
           /\ AfterAck(k, seg, t).rport = k.rport
           /\ AfterAck(k, seg, t).len = k.len
           /\ AfterAck(k, seg, t).mss = k.mss
           /\ AfterAck(k, seg, t).nrtx = k.nrtx
           /\ AfterAck(k, seg, t).rcv_nxt = k.rcv_nxt
           /\ AfterAck(k, seg, t).mss = k.mss
           /\ AfterAck(k, seg, t).initialmss = k.initialmss
  BY TcpAssumption, ZenonT(30) DEF AfterAck, Conn, Segment

\* A step that writes a well-formed connection of the same peer (or none) to
\* slot c only evolves that slot.
LEMMA PutEvolves ==
    ASSUME TypeOK, NEW c \in Conns, NEW k \in Conn, NEW o \in OutType, Put(c, k, o),
           k.rport = conns[c].rport, Armed(k),
           k.st = "SYN_RCVD" => conns[c].st = "SYN_RCVD",
           conns[c].st # "CLOSED"
    PROVE  Evolves(c) /\ out' \in OutType
  BY DEF Put, Evolves, TypeOK

\* Whatever the application answers (appsend), its slot only evolves.
LEMMA AppSendEvolves ==
    ASSUME TypeOK, NEW c \in Conns, NEW k \in Conn, NEW ev \in SUBSET Api!Event, NEW r \in Reply,
           AppSend(c, k, ev, r), k.rport = conns[c].rport, k.st = "ESTABLISHED",
           conns[c].st # "CLOSED"
    PROVE  Evolves(c) /\ out' \in OutType
<1> USE DEF Armed
<1>1. CASE r.op = "abort"
  <2>1. [k EXCEPT !.st = "CLOSED"] \in Conn
    BY DEF Conn, State
  <2>2. Send(k, {"RST", "ACK"}, 0) \in OutType
    BY SendType, ZenonT(30)
  <2>3. Put(c, [k EXCEPT !.st = "CLOSED"], Send(k, {"RST", "ACK"}, 0))
    BY <1>1 DEF AppSend
  <2> QED
    BY <2>1, <2>2, <2>3, PutEvolves, ZenonT(30) DEF Conn
<1>2. CASE r.op = "close"
  <2> DEFINE f == [k EXCEPT !.st = "FIN_WAIT_1", !.len = 1, !.nrtx = 0]
  <2>1. f \in Conn /\ f.rport = k.rport /\ f.st = "FIN_WAIT_1" /\ f.len = 1
    BY ZeroRtx, Zenon DEF Conn, State
  <2>2. Send(k, {"FIN", "ACK"}, 0) \in OutType
    BY SendType, Zenon
  <2>3. Put(c, f, Send(k, {"FIN", "ACK"}, 0))
    BY <1>2 DEF AppSend
  <2> HIDE DEF f
  <2> QED
    BY <2>1, <2>2, <2>3, PutEvolves, ZenonT(30)
<1>3. CASE r.op \in {"send", "none"}
  <2> DEFINE inflight == IF "acked" \in ev THEN 0 ELSE k.len
             n == IF r.op = "none" THEN 0
                  ELSE IF inflight # 0 THEN inflight
                  ELSE IF r.n > k.mss THEN k.mss ELSE r.n
             e == [k EXCEPT !.len = n, !.nrtx = 0]
             o == IF n > 0 \/ "newdata" \in ev THEN Send(k, {"ACK"}, n) ELSE NoSeg
  <2>1. r.n \in Nat /\ k.len \in Nat /\ k.mss \in Nat
    BY TcpAssumption DEF Reply, Api!Reply, Conn
  <2>2. n \in Nat
    BY <2>1, Zenon
  <2>3. Put(c, e, o)
    BY <1>3, ZenonT(30) DEF AppSend
  <2> HIDE DEF n
  <2>4. e \in Conn /\ e.rport = k.rport /\ e.st = "ESTABLISHED"
    BY <2>2, ZeroRtx, ZenonT(30) DEF Conn
  <2>5. o \in OutType
    BY <2>2, SendType, NoSegType, ZenonT(30)
  <2> HIDE DEF e, o
  <2> QED
    BY <2>3, <2>4, <2>5, PutEvolves, ZenonT(30)
<1> QED
  BY <1>1, <1>2, <1>3, ZenonT(30) DEF AppSend

\* The type of a record of an upcall.
LEMMA CallTypeOK ==
    ASSUME NEW c \in Conns, NEW ev \in SUBSET Api!Event, NEW r \in Reply, Api!Call(c, ev, r)
    PROVE  upcall' \in CallType
  BY DEF Api!Call, CallType

\* Every segment for a known connection makes it evolve.
LEMMA FoundEvolves ==
    ASSUME TypeOK, TimerArmed, NEW c \in Conns, NEW seg \in Segment, NEW t \in Rto, NEW r \in Reply,
           conns[c].st # "CLOSED",
           \/ Reset(c, seg, r)
           \/ OutOfOrder(c, seg)
           \/ SynRcvd(c, seg, t, r)
           \/ EstablishedFin(c, seg, t, r)
           \/ Established(c, seg, t, r)
           \/ LastAck(c, seg, t, r)
           \/ FinWait1(c, seg, t, r)
           \/ FinWait2(c, seg, t, r)
           \/ TimeWait(c, seg, t)
           \/ Closing(c, seg, t)
    PROVE  Evolves(c) /\ out' \in OutType /\ upcall' \in CallType
<1> DEFINE a == AfterAck(conns[c], seg, t)
<1> USE DEF Armed
<1>1. conns[c] \in Conn /\ Armed(conns[c])
  BY Zenon DEF TypeOK, TimerArmed
<1>2. /\ a \in Conn /\ a.st = conns[c].st /\ a.rport = conns[c].rport /\ a.len = conns[c].len
      /\ a.nrtx = conns[c].nrtx /\ a.rcv_nxt = conns[c].rcv_nxt
      /\ a.mss = conns[c].mss /\ a.initialmss = conns[c].initialmss
  BY <1>1, AfterAckType, SMTT(30)
<1>3. seg.len \in Nat /\ seg.wnd \in Nat
  BY TcpAssumption, Zenon DEF Segment
<1>4. NewData(seg) \in SUBSET Api!Event
  BY Zenon DEF NewData, Api!Event
<1>5. CASE Reset(c, seg, r)
  <2>1. [conns[c] EXCEPT !.st = "CLOSED"] \in Conn
    BY <1>1, ZenonT(30) DEF Conn, State
  <2>2. Put(c, [conns[c] EXCEPT !.st = "CLOSED"], NoSeg)
    BY <1>5, Zenon DEF Reset
  <2>3. Evolves(c) /\ out' \in OutType
    BY <1>1, <2>1, <2>2, NoSegType, PutEvolves, ZenonT(30) DEF Conn
  <2>4. upcall' \in CallType
    BY <1>5, CallTypeOK, Zenon DEF Reset, Api!Event
  <2> QED
    BY <2>3, <2>4, Zenon
<1>6. CASE OutOfOrder(c, seg)
  <2>1. Put(c, conns[c], Send(conns[c], {"ACK"}, 0)) /\ upcall' = NoCall
    BY <1>6, Zenon DEF OutOfOrder
  <2>2. Send(conns[c], {"ACK"}, 0) \in OutType
    BY <1>1, SendType, Zenon
  <2> QED
    BY <1>1, <2>1, <2>2, NoCallType, PutEvolves, ZenonT(30)
<1>7. CASE SynRcvd(c, seg, t, r)
  <2> DEFINE e == [a EXCEPT !.st = "ESTABLISHED", !.len = 0, !.rcv_nxt = Add32(a.rcv_nxt, seg.len)]
             ev == {"connected"} \cup NewData(seg)
  <2>1. Add32(a.rcv_nxt, seg.len) \in SeqNo
    BY <1>2, <1>3, Add32Type, ZenonT(30) DEF Conn
  <2>2. e \in Conn /\ e.rport = conns[c].rport /\ e.st = "ESTABLISHED"
    BY <1>2, <2>1, ZenonT(30) DEF Conn, State
  <2>3. ev \in SUBSET Api!Event
    BY <1>4, Zenon DEF Api!Event
  <2>4. CASE Acks(conns[c], seg)
    <3>1. AppSend(c, e, ev, r) /\ Api!Call(c, ev, r)
      BY <1>7, <2>4, Zenon DEF SynRcvd
    <3> HIDE DEF e, ev
    <3> QED
      BY <2>2, <2>3, <3>1, AppSendEvolves, CallTypeOK, ZenonT(30)
  <2>5. CASE ~Acks(conns[c], seg)
    <3>1. Put(c, a, NoSeg) /\ upcall' = NoCall
      BY <1>7, <2>5, Zenon DEF SynRcvd
    <3> HIDE DEF a
    <3> QED
      BY <1>1, <1>2, <3>1, NoSegType, NoCallType, PutEvolves, ZenonT(30)
  <2> QED
    BY <2>4, <2>5, Zenon
<1>8. CASE EstablishedFin(c, seg, t, r)
  <2> DEFINE f == [a EXCEPT !.st = "LAST_ACK", !.len = 1, !.nrtx = 0,
                            !.rcv_nxt = Add32(a.rcv_nxt, 1 + seg.len)]
  <2>1. Add32(a.rcv_nxt, 1 + seg.len) \in SeqNo
    BY <1>2, <1>3, Add32Type, SMTT(30) DEF Conn
  <2>2. f \in Conn /\ f.rport = conns[c].rport /\ f.st = "LAST_ACK" /\ f.len = 1
    BY <1>2, <2>1, ZeroRtx, ZenonT(30) DEF Conn, State
  <2>3. CASE a.len # 0
    <3>1. Put(c, a, NoSeg) /\ upcall' = NoCall
      BY <1>8, <2>3, ZenonT(30) DEF EstablishedFin
    <3> HIDE DEF a
    <3> QED
      BY <1>1, <1>2, <3>1, NoSegType, NoCallType, PutEvolves, ZenonT(30)
  <2>4. CASE a.len = 0
    <3>1. Put(c, f, Send(f, {"FIN", "ACK"}, 0)) /\ Api!Call(c, {"close"} \cup NewData(seg), r)
      BY <1>8, <2>4, ZenonT(30) DEF EstablishedFin
    <3>2. {"close"} \cup NewData(seg) \in SUBSET Api!Event
      BY <1>4, Zenon DEF Api!Event
    <3> HIDE DEF f
    <3>3. Send(f, {"FIN", "ACK"}, 0) \in OutType
      BY <2>2, SendType, ZenonT(30)
    <3> QED
      BY <2>2, <3>1, <3>2, <3>3, PutEvolves, CallTypeOK, ZenonT(30)
  <2> QED
    BY <2>3, <2>4, ZenonT(30)
<1>9. CASE Established(c, seg, t, r)
  <2> DEFINE ev == NewData(seg) \cup (IF Acks(conns[c], seg) THEN {"acked"} ELSE {})
             w == IF seg.wnd > a.initialmss \/ seg.wnd = 0 THEN a.initialmss ELSE seg.wnd
             k == [a EXCEPT !.rcv_nxt = Add32(a.rcv_nxt, seg.len), !.mss = w]
  <2>1. Add32(a.rcv_nxt, seg.len) \in SeqNo
    BY <1>2, <1>3, Add32Type, ZenonT(30) DEF Conn
  <2>2. w \in 0..UIP_TCP_MSS
    BY <1>2, <1>3, TcpAssumption DEF Conn
  <2>3. conns[c].st = "ESTABLISHED"
    BY <1>9, Zenon DEF Established, Accepted
  <2>4. k \in Conn /\ k.rport = conns[c].rport /\ k.st = "ESTABLISHED"
    <3> HIDE DEF w
    <3> QED
      BY <1>2, <2>1, <2>2, <2>3, ZenonT(30) DEF Conn
  <2>5. ev \in SUBSET Api!Event
    BY <1>4, Zenon DEF Api!Event
  <2>6. CASE ev # {}
    <3>1. AppSend(c, k, ev, r) /\ Api!Call(c, ev, r)
      BY <1>9, <2>6, ZenonT(30) DEF Established
    <3> HIDE DEF k, ev
    <3> QED
      BY <2>4, <2>5, <3>1, AppSendEvolves, CallTypeOK, ZenonT(30)
  <2>7. CASE ev = {}
    <3>1. Put(c, k, NoSeg) /\ upcall' = NoCall
      BY <1>9, <2>7, Zenon DEF Established
    <3> HIDE DEF k
    <3> QED
      BY <2>4, <3>1, NoSegType, NoCallType, PutEvolves, ZenonT(30)
  <2> QED
    BY <2>6, <2>7, ZenonT(30)
<1>10. CASE LastAck(c, seg, t, r)
  <2> DEFINE e == [a EXCEPT !.st = "CLOSED"]
  <2>1. e \in Conn /\ e.rport = conns[c].rport /\ e.st = "CLOSED"
    BY <1>2, Zenon DEF Conn, State
  <2>2. CASE Acks(conns[c], seg)
    <3>1. Put(c, e, NoSeg) /\ Api!Call(c, {"close"}, r)
      BY <1>10, <2>2, Zenon DEF LastAck
    <3>2. {"close"} \in SUBSET Api!Event
      BY Zenon DEF Api!Event
    <3> HIDE DEF e
    <3> QED
      BY <2>1, <3>1, <3>2, NoSegType, PutEvolves, CallTypeOK, ZenonT(30)
  <2>3. CASE ~Acks(conns[c], seg)
    <3>1. Put(c, conns[c], NoSeg) /\ upcall' = NoCall
      BY <1>10, <2>3, Zenon DEF LastAck
    <3> QED
      BY <1>1, <3>1, NoSegType, NoCallType, PutEvolves, ZenonT(30)
  <2> QED
    BY <2>2, <2>3, ZenonT(30)
<1>11. CASE FinWait1(c, seg, t, r)
  <2> DEFINE k == [a EXCEPT !.rcv_nxt = Add32(a.rcv_nxt, seg.len)]
             f == [k EXCEPT !.rcv_nxt = Add32(k.rcv_nxt, 1)]
             w == [f EXCEPT !.st = "TIME_WAIT", !.timer = 0, !.len = 0]
             g == [f EXCEPT !.st = "CLOSING"]
             h == [k EXCEPT !.st = "FIN_WAIT_2", !.len = 0]
             fin == IF Acks(conns[c], seg) THEN w ELSE g
             o == IF seg.len > 0 THEN Send(k, {"ACK"}, 0) ELSE NoSeg
  <2>1. conns[c].st = "FIN_WAIT_1" /\ conns[c].len = 1
    BY <1>1, <1>11, ZenonT(30) DEF FinWait1, Accepted
  <2>2. k \in Conn /\ k.rport = conns[c].rport /\ k.st = "FIN_WAIT_1" /\ k.len = 1
    <3>1. Add32(a.rcv_nxt, seg.len) \in SeqNo
      BY <1>2, <1>3, Add32Type, ZenonT(30) DEF Conn
    <3> QED
      BY <1>2, <2>1, <3>1, ZenonT(30) DEF Conn
  <2>3. f \in Conn /\ f.rport = conns[c].rport /\ f.len = 1
    <3> HIDE DEF k
    <3>1. Add32(k.rcv_nxt, 1) \in SeqNo
      BY <2>2, Add32Type, ZenonT(30) DEF Conn
    <3> QED
      BY <2>2, <3>1, ZenonT(30) DEF Conn
  <2>4. /\ w \in Conn /\ w.rport = conns[c].rport /\ w.st = "TIME_WAIT"
        /\ g \in Conn /\ g.rport = conns[c].rport /\ g.st = "CLOSING" /\ g.len = 1
    <3> HIDE DEF f
    <3> QED
      BY <2>3, ZeroTimer, ZenonT(30) DEF Conn, State
  <2>5. h \in Conn /\ h.rport = conns[c].rport /\ h.st = "FIN_WAIT_2"
    <3> HIDE DEF k
    <3> QED
      BY <2>2, ZenonT(30) DEF Conn, State
  <2>6. CASE "FIN" \in seg.flags
    <3>1. Put(c, fin, Send(f, {"ACK"}, 0)) /\ Api!Call(c, {"close"}, r)
      BY <1>11, <2>6, ZenonT(30) DEF FinWait1
    <3>2. {"close"} \in SUBSET Api!Event
      BY Zenon DEF Api!Event
    <3> HIDE DEF f, w, g
    <3>3. Send(f, {"ACK"}, 0) \in OutType
      BY <2>3, SendType, ZenonT(30)
    <3>4. fin \in Conn /\ fin.rport = conns[c].rport /\ Armed(fin) /\ fin.st # "SYN_RCVD"
      BY <2>4, Zenon
    <3> HIDE DEF fin
    <3> QED
      BY <3>1, <3>2, <3>3, <3>4, PutEvolves, CallTypeOK, ZenonT(30)
  <2>7. CASE "FIN" \notin seg.flags
    <3>1. upcall' = NoCall
      BY <1>11, <2>7, ZenonT(30) DEF FinWait1
    <3>2. Put(c, h, NoSeg) \/ Put(c, k, o)
      BY <1>11, <2>7, ZenonT(30) DEF FinWait1
    <3> HIDE DEF k, h
    <3>3. o \in OutType
      BY <2>2, SendType, NoSegType, ZenonT(30)
    <3> HIDE DEF o
    <3>4. CASE Put(c, h, NoSeg)
      BY <2>5, <3>1, <3>4, NoSegType, NoCallType, PutEvolves, SMTT(30)
    <3>5. CASE Put(c, k, o)
      BY <2>2, <3>1, <3>3, <3>5, NoCallType, PutEvolves, SMTT(30)
    <3> QED
      BY <3>2, <3>4, <3>5, ZenonT(30)
  <2> QED
    BY <2>6, <2>7, ZenonT(30)
<1>12. CASE FinWait2(c, seg, t, r)
  <2> DEFINE k == [a EXCEPT !.rcv_nxt = Add32(a.rcv_nxt, seg.len)]
             f == [k EXCEPT !.st = "TIME_WAIT", !.timer = 0, !.rcv_nxt = Add32(k.rcv_nxt, 1)]
             o == IF seg.len > 0 THEN Send(k, {"ACK"}, 0) ELSE NoSeg
  <2>1. conns[c].st = "FIN_WAIT_2"
    BY <1>12, ZenonT(30) DEF FinWait2, Accepted
  <2>2. k \in Conn /\ k.rport = conns[c].rport /\ k.st = "FIN_WAIT_2"
    <3>1. Add32(a.rcv_nxt, seg.len) \in SeqNo
      BY <1>2, <1>3, Add32Type, ZenonT(30) DEF Conn
    <3> QED
      BY <1>2, <2>1, <3>1, ZenonT(30) DEF Conn
  <2>3. f \in Conn /\ f.rport = conns[c].rport /\ f.st = "TIME_WAIT"
    <3> HIDE DEF k
    <3>1. Add32(k.rcv_nxt, 1) \in SeqNo
      BY <2>2, Add32Type, ZenonT(30) DEF Conn
    <3> QED
      BY <2>2, <3>1, ZeroTimer, ZenonT(30) DEF Conn, State
  <2>4. CASE "FIN" \in seg.flags
    <3>1. Put(c, f, Send(f, {"ACK"}, 0)) /\ Api!Call(c, {"close"}, r)
      BY <1>12, <2>4, ZenonT(30) DEF FinWait2
    <3>2. {"close"} \in SUBSET Api!Event
      BY Zenon DEF Api!Event
    <3> HIDE DEF f
    <3>3. Send(f, {"ACK"}, 0) \in OutType
      BY <2>3, SendType, ZenonT(30)
    <3> QED
      BY <2>3, <3>1, <3>2, <3>3, PutEvolves, CallTypeOK, ZenonT(30)
  <2>5. CASE "FIN" \notin seg.flags
    <3>1. Put(c, k, o) /\ upcall' = NoCall
      BY <1>12, <2>5, ZenonT(30) DEF FinWait2
    <3> HIDE DEF k
    <3>2. o \in OutType
      BY <2>2, SendType, NoSegType, ZenonT(30)
    <3> HIDE DEF o
    <3> QED
      BY <2>2, <3>1, <3>2, NoCallType, PutEvolves, ZenonT(30)
  <2> QED
    BY <2>4, <2>5, ZenonT(30)
<1>13. CASE TimeWait(c, seg, t)
  <2>1. Put(c, a, Send(a, {"ACK"}, 0)) /\ upcall' = NoCall
    BY <1>13, Zenon DEF TimeWait
  <2> HIDE DEF a
  <2>2. Send(a, {"ACK"}, 0) \in OutType
    BY <1>2, SendType, Zenon
  <2> QED
    BY <1>1, <1>2, <2>1, <2>2, NoCallType, PutEvolves, ZenonT(30)
<1>14. CASE Closing(c, seg, t)
  <2> DEFINE e == [a EXCEPT !.st = "TIME_WAIT", !.timer = 0]
  <2>1. e \in Conn /\ e.rport = conns[c].rport /\ e.st = "TIME_WAIT"
    BY <1>2, ZeroTimer, ZenonT(30) DEF Conn, State
  <2>2. upcall' = NoCall /\ (Put(c, e, NoSeg) \/ Put(c, conns[c], NoSeg))
    BY <1>14, ZenonT(30) DEF Closing
  <2> HIDE DEF e
  <2>3. CASE Put(c, e, NoSeg)
    BY <2>1, <2>2, <2>3, NoSegType, NoCallType, PutEvolves, SMTT(30)
  <2>4. CASE Put(c, conns[c], NoSeg)
    BY <1>1, <2>2, <2>4, NoSegType, NoCallType, PutEvolves, ZenonT(30)
  <2> QED
    BY <2>2, <2>3, <2>4, ZenonT(30)
<1> QED
  BY <1>5, <1>6, <1>7, <1>8, <1>9, <1>10, <1>11, <1>12, <1>13, <1>14, SMTT(30)

\* A call of uip_periodic makes its connection evolve.
LEMMA PeriodicEvolves ==
    ASSUME TypeOK, TimerArmed, NEW c \in Conns, NEW r \in Reply, Periodic(c, r)
    PROVE  Evolves(c) /\ out' \in OutType /\ upcall' \in CallType
<1> USE DEF Armed
<1>1. conns[c] \in Conn /\ Armed(conns[c])
  BY Zenon DEF TypeOK, TimerArmed
<1>2. CASE WaitTick(c)
  <2> DEFINE t == (conns[c].timer + 1) % TIMER_MOD
             st == IF t = UIP_TIME_WAIT_TIMEOUT THEN "CLOSED" ELSE conns[c].st
             k == [conns[c] EXCEPT !.timer = t, !.st = st]
  <2>1. Put(c, k, NoSeg) /\ upcall' = NoCall /\ conns[c].st \in {"TIME_WAIT", "FIN_WAIT_2"}
    BY <1>2, Zenon DEF WaitTick
  <2>2. t \in 0..TIMER_MOD-1
    <3>1. conns[c].timer + 1 \in Nat
      BY <1>1 DEF Conn
    <3> QED
      BY <3>1, ModRange, TcpAssumption, Zenon
  <2> HIDE DEF t
  <2>3. st \in {"CLOSED", "TIME_WAIT", "FIN_WAIT_2"}
    BY <2>1
  <2> HIDE DEF st
  <2>4. k \in Conn /\ k.rport = conns[c].rport /\ k.st = st
    BY <1>1, <2>2, <2>3, ZenonT(30) DEF Conn, State
  <2> HIDE DEF k
  <2> QED
    BY <2>1, <2>3, <2>4, NoSegType, NoCallType, PutEvolves, ZenonT(30)
<1>3. CASE CountDown(c)
  <2> DEFINE k == [conns[c] EXCEPT !.timer = conns[c].timer - 1]
  <2>1. Put(c, k, NoSeg) /\ upcall' = NoCall /\ conns[c].st # "CLOSED" /\ conns[c].timer # 0
    BY <1>3, Zenon DEF CountDown, InFlight
  <2>2. conns[c].timer - 1 \in 0..TIMER_MOD-1
    BY <1>1, <2>1, TcpAssumption DEF Conn
  <2>3. k \in Conn /\ k.rport = conns[c].rport /\ k.st = conns[c].st /\ k.len = conns[c].len
        /\ k.nrtx = conns[c].nrtx
    BY <1>1, <2>2, ZenonT(30) DEF Conn
  <2> HIDE DEF k
  <2> QED
    BY <1>1, <2>1, <2>3, NoSegType, NoCallType, PutEvolves, ZenonT(30)
<1>4. CASE GiveUp(c, r)
  <2> DEFINE k == [conns[c] EXCEPT !.st = "CLOSED", !.timer = TIMER_MOD - 1]
  <2>1. /\ Put(c, k, Send(conns[c], {"RST", "ACK"}, 0))
        /\ Api!Call(c, {"timedout"}, r)
        /\ conns[c].st # "CLOSED"
    BY <1>4, Zenon DEF GiveUp, InFlight
  <2>2. TIMER_MOD - 1 \in 0..TIMER_MOD-1
    BY TcpAssumption
  <2>3. k \in Conn /\ k.rport = conns[c].rport /\ k.st = "CLOSED"
    BY <1>1, <2>2, ZenonT(30) DEF Conn, State
  <2>4. Send(conns[c], {"RST", "ACK"}, 0) \in OutType
    BY <1>1, SendType, ZenonT(30)
  <2>5. {"timedout"} \in SUBSET Api!Event
    BY DEF Api!Event
  <2> HIDE DEF k
  <2> QED
    BY <2>1, <2>3, <2>4, <2>5, PutEvolves, CallTypeOK, ZenonT(30)
<1>5. CASE Retransmit(c, r)
  <2> DEFINE k == [conns[c] EXCEPT !.nrtx = conns[c].nrtx + 1, !.timer = Backoff(conns[c])]
             data == IF r.op = "send" THEN Send(k, {"ACK"}, k.len) ELSE NoSeg
             control == Send(k, {IF k.st = "SYN_RCVD" THEN "SYN" ELSE "FIN", "ACK"}, 0)
  <2>1. ~TooMany(conns[c]) /\ conns[c].st # "CLOSED"
    BY <1>5, Zenon DEF Retransmit, InFlight
  <2>2. /\ conns[c].nrtx + 1 \in 0..UIP_MAXRTX
        /\ conns[c].st = "SYN_RCVD" => conns[c].nrtx + 1 <= UIP_MAXSYNRTX
    BY <1>1, <2>1, TcpAssumption DEF TooMany, Conn
  <2>3. /\ k \in Conn /\ k.rport = conns[c].rport /\ k.st = conns[c].st /\ k.len = conns[c].len
        /\ k.nrtx = conns[c].nrtx + 1
    BY <1>1, <2>2, BackoffRange, ZenonT(30) DEF Conn
  <2>4. \/ Put(c, k, data) /\ Api!Call(c, {"rexmit"}, r)
        \/ Put(c, k, control) /\ upcall' = NoCall
    BY <1>5, Zenon DEF Retransmit
  <2> HIDE DEF k
  <2>5. data \in OutType
    BY <2>3, SendType, NoSegType, ZenonT(30) DEF Conn
  <2>6. control \in OutType
    BY <2>3, SendType, ZenonT(30)
  <2>7. {"rexmit"} \in SUBSET Api!Event
    BY DEF Api!Event
  <2>8. Armed(k)
    BY <1>1, <2>2, <2>3, ZenonT(30)
  <2> HIDE DEF data, control, Armed
  <2>9. upcall' \in CallType
    BY <2>4, <2>7, CallTypeOK, NoCallType
  <2> QED
    BY <2>1, <2>3, <2>4, <2>5, <2>6, <2>8, <2>9, PutEvolves, ZenonT(30)
<1>6. CASE PollApp(c, r)
  <2>1. conns[c].st = "ESTABLISHED" /\ AppSend(c, conns[c], {"poll"}, r) /\ Api!Call(c, {"poll"}, r)
    BY <1>6, Zenon DEF PollApp
  <2>2. {"poll"} \in SUBSET Api!Event
    BY DEF Api!Event
  <2> QED
    BY <1>1, <2>1, <2>2, AppSendEvolves, CallTypeOK, Zenon
<1>7. CASE conns[c].st = "CLOSED" /\ Put(c, conns[c], NoSeg) /\ upcall' = NoCall
  <2>1. conns' = conns /\ out' = NoSeg
    BY <1>7, Zenon DEF Put, TypeOK
  <2> QED
    BY <1>1, <1>7, <2>1, NoSegType, NoCallType, ZenonT(30) DEF Evolves, TypeOK
<1> QED
  BY <1>2, <1>3, <1>4, <1>5, <1>6, <1>7, ZenonT(30) DEF Periodic

\* The demultiplexing loop yields a slot that is in use.
LEMMA FoundIsKnown ==
    ASSUME NEW p, Found(p) # {}
    PROVE  Min(Found(p)) \in Conns /\ conns[Min(Found(p))].st # "CLOSED"
<1>1. Found(p) \in SUBSET Nat
  BY DEF Found, Conns, Api!Conns
<1>2. Min(Found(p)) \in Found(p)
  BY <1>1, MinIsElement
<1> QED
  BY <1>2, Zenon DEF Found

\* A SYN takes a slot that is closed, or one that has waited longest while no
\* slot is closed.
LEMMA FreeSlotsOldest ==
    ASSUME TypeOK, NEW c \in FreeSlots
    PROVE  /\ c \in Conns
           /\ \/ conns[c].st = "CLOSED"
              \/ /\ conns[c].st = "TIME_WAIT"
                 /\ \A d \in Conns : /\ conns[d].st # "CLOSED"
                                     /\ conns[d].st = "TIME_WAIT" => conns[d].timer <= conns[c].timer
<1> DEFINE closed == {d \in Conns : conns[d].st = "CLOSED"}
           waiting == {d \in Conns : conns[d].st = "TIME_WAIT"}
           oldest == {d \in waiting : \A e \in waiting : conns[e].timer <= conns[d].timer}
<1>1. closed \in SUBSET Nat /\ oldest \in SUBSET Nat
  BY DEF Conns, Api!Conns
<1>2. CASE closed # {}
  <2>1. c = Min(closed)
    BY <1>2, Zenon DEF FreeSlots
  <2>2. c \in closed
    <3> HIDE DEF closed
    <3> QED
      BY <1>1, <1>2, <2>1, MinIsElement, ZenonT(30)
  <2> QED
    BY <2>2, Zenon
<1>3. CASE closed = {} /\ waiting # {}
  <2>1. c = Min(oldest)
    BY <1>3, Zenon DEF FreeSlots
  <2>2. oldest # {}
    <3> DEFINE f == [d \in waiting |-> conns[d].timer]
    <3>1. \A d \in waiting : f[d] \in 0..TIMER_MOD-1
      BY Zenon DEF TypeOK, Conn
    <3>2. TIMER_MOD - 1 \in Nat
      BY TcpAssumption
    <3>3. \E d \in waiting : \A e \in waiting : f[e] <= f[d]
      <4> HIDE DEF waiting, f
      <4> QED
        BY <1>3, <3>1, <3>2, LargestExists, ZenonT(30)
    <3> QED
      BY <3>3, Zenon
  <2>3. c \in oldest
    <3> HIDE DEF oldest
    <3> QED
      BY <1>1, <2>1, <2>2, MinIsElement, SMTT(30)
  <2> QED
    BY <1>3, <2>3, Zenon
<1> QED
  BY <1>2, <1>3, ZenonT(30) DEF FreeSlots

\* What a SYN for an unknown remote end does to the table.
LEMMA ListenStep ==
    ASSUME TypeOK, TimerArmed, NEW seg \in Segment, Listen(seg)
    PROVE  /\ conns' \in [Conns -> Conn]
           /\ out' \in OutType
           /\ TimerArmed'
           /\ \/ conns' = conns
              \/ \E c \in FreeSlots :
                    /\ c \in Conns
                    /\ conns'[c].st = "SYN_RCVD" /\ conns'[c].rport = seg.port
                    /\ \A d \in Conns \ {c} : conns'[d] = conns[d]
<1>1. CASE FreeSlots = {} /\ out' = NoSeg /\ UNCHANGED conns
  BY <1>1, NoSegType, Zenon DEF TypeOK, TimerArmed
<1>2. CASE \E c \in FreeSlots :
             LET k == [st |-> "SYN_RCVD", rport |-> seg.port, snd_nxt |-> iss,
                       rcv_nxt |-> Add32(seg.seq, 1), len |-> 1, nrtx |-> 0, timer |-> UIP_RTO,
                       mss |-> OptionMss(seg, conns[c].mss),
                       initialmss |-> OptionMss(seg, conns[c].initialmss)]
             IN Put(c, k, Send(k, {"SYN", "ACK"}, 0))
  <2> DEFINE new(c) == [st |-> "SYN_RCVD", rport |-> seg.port, snd_nxt |-> iss,
                       rcv_nxt |-> Add32(seg.seq, 1), len |-> 1, nrtx |-> 0, timer |-> UIP_RTO,
                       mss |-> OptionMss(seg, conns[c].mss),
                       initialmss |-> OptionMss(seg, conns[c].initialmss)]
  <2>1. PICK c \in FreeSlots : Put(c, new(c), Send(new(c), {"SYN", "ACK"}, 0))
    BY <1>2, Zenon
  <2>2. c \in Conns
    BY FreeSlotsOldest, Zenon
  <2> DEFINE k == new(c)
             m == OptionMss(seg, conns[c].mss)
             im == OptionMss(seg, conns[c].initialmss)
  <2>3. m \in 0..UIP_TCP_MSS /\ im \in 0..UIP_TCP_MSS
    <3>1. seg.mss = NoMss \/ seg.mss \in Nat
      BY TcpAssumption, Zenon DEF Segment
    <3>2. conns[c].mss \in 0..UIP_TCP_MSS /\ conns[c].initialmss \in 0..UIP_TCP_MSS
      BY <2>2, ZenonT(30) DEF TypeOK, Conn
    <3> QED
      BY <3>1, <3>2, TcpAssumption DEF OptionMss
  <2>4. /\ seg.port \in Ports /\ iss \in SeqNo /\ Add32(seg.seq, 1) \in SeqNo
        /\ UIP_RTO \in 0..TIMER_MOD-1 /\ 0 \in 0..UIP_MAXSYNRTX
    BY Add32Type, TcpAssumption DEF Segment, TypeOK
  <2>5. k \in Conn /\ k.st = "SYN_RCVD" /\ k.rport = seg.port /\ k.len = 1 /\ k.nrtx <= UIP_MAXSYNRTX
    <3> HIDE DEF m, im
    <3>1. k = [st |-> "SYN_RCVD", rport |-> seg.port, snd_nxt |-> iss,
               rcv_nxt |-> Add32(seg.seq, 1), len |-> 1, nrtx |-> 0, timer |-> UIP_RTO,
               mss |-> m, initialmss |-> im]
      BY Zenon DEF m, im
    <3> HIDE DEF k
    <3> QED
      BY <2>3, <2>4, <3>1, ZeroRtx DEF Conn, State
  <2>6. Put(c, k, Send(k, {"SYN", "ACK"}, 0))
    BY <2>1, Zenon
  <2> HIDE DEF new, k
  <2>7. Send(k, {"SYN", "ACK"}, 0) \in OutType
    BY <2>5, SendType
  <2>8. /\ conns' \in [Conns -> Conn] /\ conns'[c] = k
        /\ \A d \in Conns \ {c} : conns'[d] = conns[d]
    BY <2>2, <2>5, <2>6, SMTT(30) DEF Put, TypeOK
  <2>9. TimerArmed'
    BY <2>2, <2>5, <2>8, ZenonT(30) DEF TimerArmed
  <2> QED
    BY <2>2, <2>5, <2>6, <2>7, <2>8, <2>9, ZenonT(30) DEF Put
<1> QED
  BY <1>1, <1>2, Zenon DEF Listen

\* The inductive invariant.  OneSlotPerRemote needs nothing but the types;
\* TimerArmed is needed for itself (FIN_WAIT_1 hands its len on to CLOSING).
IInv == TypeOK /\ OneSlotPerRemote /\ TimerArmed

\* A connection that evolves keeps the invariant.
LEMMA EvolvesKeeps ==
    ASSUME IInv, NEW c \in Conns, Evolves(c), out' \in OutType, upcall' \in CallType,
           iss' \in SeqNo
    PROVE  IInv'
<1>1. TypeOK'
  BY Zenon DEF Evolves, TypeOK, OutType, CallType
<1>2. TimerArmed'
  BY DEF IInv, TimerArmed, Evolves, Armed
<1>3. \A d \in Conns : /\ conns'[d].rport = conns[d].rport
                       /\ conns'[d].st # "CLOSED" => conns[d].st # "CLOSED"
  BY Zenon DEF Evolves
<1>4. OneSlotPerRemote'
  BY <1>3 DEF IInv, OneSlotPerRemote
<1> QED
  BY <1>1, <1>2, <1>4 DEF IInv

\* The connection table of uIP stays well formed, for any number of slots and
\* any segments: the induction behind the theorems below.
THEOREM Inductive == Spec => []IInv
<1>1. Init => IInv
  <2> SUFFICES ASSUME Init PROVE IInv
    OBVIOUS
  <2>1. conns \in [Conns -> Conn] /\ \A c \in Conns : conns[c].st = "CLOSED"
    BY ZeroRtx, ZeroTimer, TcpAssumption DEF Init, Conn, State, SeqNo
  <2>2. iss \in SeqNo
    BY TcpAssumption DEF Init, SeqNo
  <2>3. out \in OutType /\ upcall \in CallType
    BY NoSegType, NoCallType, ZenonT(30) DEF Init
  <2> QED
    BY <2>1, <2>2, <2>3, ZenonT(30) DEF IInv, TypeOK, OneSlotPerRemote, TimerArmed, OutType, CallType
<1>2. IInv /\ [Next]_vars => IInv'
  <2> SUFFICES ASSUME IInv, [Next]_vars PROVE IInv'
    OBVIOUS
  <2>1. TypeOK /\ TimerArmed /\ OneSlotPerRemote /\ iss \in SeqNo
    BY Zenon DEF IInv, TypeOK
  <2>2. ASSUME NEW seg \in Segment, NEW t \in Rto, NEW r \in Reply, Input(seg, t, r)
        PROVE  IInv'
    <3>1. CASE NoConn(seg)
      <4>1. Add32(seg.seq, 1) \in SeqNo /\ seg.ackno \in SeqNo /\ seg.port \in Ports
        BY Add32Type, Zenon DEF Segment
      <4>2. out' \in OutType
        BY <3>1, <4>1, NoSegType, ZenonT(30) DEF NoConn, OutType
      <4>3. upcall' \in CallType /\ UNCHANGED <<conns, iss>>
        BY <3>1, NoCallType, ZenonT(30) DEF NoConn
      <4> QED
        BY <4>2, <4>3, ZenonT(30) DEF IInv, TypeOK, OneSlotPerRemote, TimerArmed, OutType, CallType
    <3>2. CASE Listen(seg)
      <4>1. /\ conns' \in [Conns -> Conn] /\ out' \in OutType /\ TimerArmed'
            /\ \/ conns' = conns
               \/ \E c \in FreeSlots :
                     /\ c \in Conns
                     /\ conns'[c].st = "SYN_RCVD" /\ conns'[c].rport = seg.port
                     /\ \A d \in Conns \ {c} : conns'[d] = conns[d]
        BY <2>1, <3>2, ListenStep, ZenonT(30)
      <4>2. upcall' \in CallType /\ UNCHANGED iss /\ Found(seg.port) = {}
        BY <3>2, NoCallType, ZenonT(30) DEF Listen
      <4>3. OneSlotPerRemote'
        BY <2>1, <4>1, <4>2 DEF OneSlotPerRemote, Found
      <4> QED
        BY <2>1, <4>1, <4>2, <4>3, ZenonT(30) DEF IInv, TypeOK, OutType, CallType
    <3>3. CASE /\ Found(seg.port) # {}
               /\ LET c == Min(Found(seg.port)) IN
                  \/ Reset(c, seg, r)
                  \/ OutOfOrder(c, seg)
                  \/ SynRcvd(c, seg, t, r)
                  \/ EstablishedFin(c, seg, t, r)
                  \/ Established(c, seg, t, r)
                  \/ LastAck(c, seg, t, r)
                  \/ FinWait1(c, seg, t, r)
                  \/ FinWait2(c, seg, t, r)
                  \/ TimeWait(c, seg, t)
                  \/ Closing(c, seg, t)
               /\ UNCHANGED iss
      <4> DEFINE c == Min(Found(seg.port))
      <4>1. c \in Conns /\ conns[c].st # "CLOSED"
        BY <3>3, FoundIsKnown, ZenonT(30)
      <4> HIDE DEF c
      <4>2. Evolves(c) /\ out' \in OutType /\ upcall' \in CallType
        BY <2>1, <3>3, <4>1, FoundEvolves, ZenonT(30) DEF c
      <4> QED
        BY <2>1, <3>3, <4>1, <4>2, EvolvesKeeps, ZenonT(30)
    <3> QED
      BY <2>2, <3>1, <3>2, <3>3, ZenonT(30) DEF Input
  <2>3. ASSUME NEW c \in Conns, NEW r \in Reply, Periodic(c, r)
        PROVE  IInv'
    <3>1. Evolves(c) /\ out' \in OutType /\ upcall' \in CallType
      BY <2>1, <2>3, PeriodicEvolves
    <3>2. iss' \in SeqNo
      BY <2>1, <2>3, Add32Type, ZenonT(30) DEF Periodic
    <3> QED
      BY <3>1, <3>2, EvolvesKeeps
  <2>4. CASE UNCHANGED vars
    BY <2>4, ZenonT(30) DEF vars, IInv, TypeOK, OneSlotPerRemote, TimerArmed
  <2> QED
    BY <2>2, <2>3, <2>4 DEF Next
<1> QED
  BY <1>1, <1>2, PTL DEF Spec

\* The table, the initial sequence number, the segment left in uip_buf and the
\* upcall keep their types; no counter of a connection leaves its range.
THEOREM TypeCorrect == Spec => []TypeOK
<1>1. IInv => TypeOK
  BY DEF IInv
<1> QED
  BY <1>1, Inductive, PTL

\* The demultiplexing of uip_process never finds two slots for one remote end,
\* however many slots there are and whatever segments arrive.
THEOREM NoShadowedSlot == Spec => []OneSlotPerRemote
<1>1. IInv => OneSlotPerRemote
  BY DEF IInv
<1> QED
  BY <1>1, Inductive, PTL

\* Every slot that is opening or closing has its retransmission timer armed and
\* is within its limit.
THEOREM TimersStayArmed == Spec => []TimerArmed
<1>1. IInv => TimerArmed
  BY DEF IInv
<1> QED
  BY <1>1, Inductive, PTL

\* A connection is opened only by a SYN that takes a slot of FreeSlots.
LEMMA OnlyListenOpens ==
    ASSUME IInv, Next, NEW d \in Conns, conns[d].st # "SYN_RCVD", conns'[d].st = "SYN_RCVD"
    PROVE  d \in FreeSlots
<1>1. TypeOK /\ TimerArmed
  BY DEF IInv
<1>2. ASSUME NEW seg \in Segment, NEW t \in Rto, NEW r \in Reply, Input(seg, t, r)
      PROVE  d \in FreeSlots
  <2>1. CASE NoConn(seg)
    BY <2>1, Zenon DEF NoConn
  <2>2. CASE Listen(seg)
    BY <1>1, <2>2, ListenStep, ZenonT(30)
  <2>3. CASE /\ Found(seg.port) # {}
             /\ LET c == Min(Found(seg.port)) IN
                \/ Reset(c, seg, r)
                \/ OutOfOrder(c, seg)
                \/ SynRcvd(c, seg, t, r)
                \/ EstablishedFin(c, seg, t, r)
                \/ Established(c, seg, t, r)
                \/ LastAck(c, seg, t, r)
                \/ FinWait1(c, seg, t, r)
                \/ FinWait2(c, seg, t, r)
                \/ TimeWait(c, seg, t)
                \/ Closing(c, seg, t)
    <3> DEFINE c == Min(Found(seg.port))
    <3>1. c \in Conns /\ conns[c].st # "CLOSED"
      BY <2>3, FoundIsKnown, ZenonT(30)
    <3> HIDE DEF c
    <3>2. Evolves(c)
      BY <1>1, <2>3, <3>1, FoundEvolves, ZenonT(30) DEF c
    <3> QED
      BY <3>1, <3>2, Zenon DEF Evolves
  <2> QED
    BY <1>2, <2>1, <2>2, <2>3, ZenonT(30) DEF Input
<1>3. ASSUME NEW c \in Conns, NEW r \in Reply, Periodic(c, r)
      PROVE  d \in FreeSlots
  <2>1. Evolves(c)
    BY <1>1, <1>3, PeriodicEvolves
  <2> QED
    BY <2>1, Zenon DEF Evolves
<1> QED
  BY <1>2, <1>3, Zenon DEF Next

\* A SYN never takes a slot that is in use, and takes one in TIME_WAIT only when
\* no slot is closed and none has waited longer.
THEOREM RecyclingIsFair == Spec => RecyclesOldest
<1>1. IInv /\ [Next]_vars =>
        [\A c \in Conns :
          conns[c].st # "SYN_RCVD" /\ conns'[c].st = "SYN_RCVD" =>
             \/ conns[c].st = "CLOSED"
             \/ /\ conns[c].st = "TIME_WAIT"
                /\ \A d \in Conns : /\ conns[d].st # "CLOSED"
                                    /\ conns[d].st = "TIME_WAIT" => conns[d].timer <= conns[c].timer]_vars
  <2> SUFFICES ASSUME IInv, Next, NEW c \in Conns,
                      conns[c].st # "SYN_RCVD", conns'[c].st = "SYN_RCVD"
               PROVE  \/ conns[c].st = "CLOSED"
                      \/ /\ conns[c].st = "TIME_WAIT"
                         /\ \A d \in Conns : /\ conns[d].st # "CLOSED"
                                             /\ conns[d].st = "TIME_WAIT" => conns[d].timer <= conns[c].timer
    BY Zenon
  <2>1. c \in FreeSlots
    BY OnlyListenOpens
  <2> QED
    BY <2>1, FreeSlotsOldest, Zenon DEF IInv
<1> QED
  BY <1>1, Inductive, PTL DEF Spec, RecyclesOldest

-----------------------------------------------------------------------------
(***************************************************************************)
(* UipTcp implements UipApi: every step of the stack is, for the           *)
(* application, a step that UipApi allows or no step at all.               *)
(***************************************************************************)
\* What the application sees of slot c.
LEMMA Viewed ==
    ASSUME NEW c \in Conns
    PROVE  /\ [d \in 1..UIP_CONNS |-> PhaseOf(conns[d])][c] = PhaseOf(conns[c])
           /\ [d \in 1..UIP_CONNS |-> OutstandingOf(conns[d])][c] = OutstandingOf(conns[c])
           /\ [d \in 1..UIP_CONNS |-> conns[d].mss][c] = conns[c].mss
  BY DEF Conns, Api!Conns

\* A step that leaves connection k in slot c moves the slot to k's phase.
LEMMA PutMoves ==
    ASSUME TypeOK, NEW c \in Conns, NEW k, NEW o, Put(c, k, o)
    PROVE  Api!Moves(c, PhaseOf(k), OutstandingOf(k))
  BY Zenon DEF Put, Api!Moves, TypeOK, Conns, Api!Conns

\* What uip_mss() of slot c is after such a step.
LEMMA PutMss ==
    ASSUME TypeOK, NEW c \in Conns, NEW k, NEW o, Put(c, k, o)
    PROVE  /\ [d \in 1..UIP_CONNS |-> conns[d].mss]'
                = [[d \in 1..UIP_CONNS |-> conns[d].mss] EXCEPT ![c] = k.mss]
           /\ [d \in 1..UIP_CONNS |-> conns[d].mss]'[c] = k.mss
  BY Zenon DEF Put, TypeOK, Conns, Api!Conns

\* Most steps leave uip_mss() alone.
LEMMA PutKeepsMss ==
    ASSUME TypeOK, NEW c \in Conns, NEW k, NEW o, Put(c, k, o), k.mss = conns[c].mss
    PROVE  [d \in 1..UIP_CONNS |-> conns[d].mss]' = [d \in 1..UIP_CONNS |-> conns[d].mss]
  BY Zenon DEF Put, TypeOK, Conns, Api!Conns

\* Whatever it becomes stays within UIP_TCP_MSS.
LEMMA PutNewMss ==
    ASSUME TypeOK, NEW c \in Conns, NEW k \in Conn, NEW o, Put(c, k, o)
    PROVE  Api!NewMss(c)
<1>1. k.mss \in 0..UIP_TCP_MSS
  BY DEF Conn
<1> QED
  BY <1>1, PutMss, Zenon DEF Api!NewMss

\* A step that changes neither phase nor data in flight nor the MSS goes
\* unnoticed.
LEMMA PutSameView ==
    ASSUME TypeOK, NEW c \in Conns, NEW k, NEW o, Put(c, k, o),
           PhaseOf(k) = PhaseOf(conns[c]), OutstandingOf(k) = OutstandingOf(conns[c]),
           k.mss = conns[c].mss
    PROVE  /\ [d \in 1..UIP_CONNS |-> PhaseOf(conns[d])]' = [d \in 1..UIP_CONNS |-> PhaseOf(conns[d])]
           /\ [d \in 1..UIP_CONNS |-> OutstandingOf(conns[d])]'
                = [d \in 1..UIP_CONNS |-> OutstandingOf(conns[d])]
           /\ [d \in 1..UIP_CONNS |-> conns[d].mss]' = [d \in 1..UIP_CONNS |-> conns[d].mss]
  BY Zenon DEF Put, TypeOK, Conns, Api!Conns

\* The same for the phase and the data in flight alone.
LEMMA PutSameData ==
    ASSUME TypeOK, NEW c \in Conns, NEW k, NEW o, Put(c, k, o),
           PhaseOf(k) = PhaseOf(conns[c]), OutstandingOf(k) = OutstandingOf(conns[c])
    PROVE  /\ [d \in 1..UIP_CONNS |-> PhaseOf(conns[d])]' = [d \in 1..UIP_CONNS |-> PhaseOf(conns[d])]
           /\ [d \in 1..UIP_CONNS |-> OutstandingOf(conns[d])]'
                = [d \in 1..UIP_CONNS |-> OutstandingOf(conns[d])]
  BY Zenon DEF Put, TypeOK, Conns, Api!Conns

\* Without a call of the application it is the quiet step of UipApi.
LEMMA PutQuiet ==
    ASSUME TypeOK, NEW c \in Conns, NEW k, NEW o, Put(c, k, o), upcall' = NoCall,
           PhaseOf(k) = PhaseOf(conns[c]), OutstandingOf(k) = OutstandingOf(conns[c]),
           k.mss = conns[c].mss
    PROVE  Api!Quiet
  BY PutSameView, Zenon DEF Api!Quiet, NoCall

\* The application's answer to an event of an open connection has the effect
\* UipApi describes.
LEMMA AppSendReplies ==
    ASSUME TypeOK, NEW c \in Conns, NEW k \in Conn, NEW ev, NEW r \in Reply, AppSend(c, k, ev, r),
           k.st = "ESTABLISHED", k.len = OutstandingOf(conns[c])
    PROVE  Api!Replied(c, ev, r)
<1>1. CASE r.op = "abort"
  <2> DEFINE e == [k EXCEPT !.st = "CLOSED"]
  <2>1. Put(c, e, Send(k, {"RST", "ACK"}, 0))
    BY <1>1 DEF AppSend
  <2>2. PhaseOf(e) = "idle" /\ OutstandingOf(e) = 0
    BY DEF PhaseOf, OutstandingOf, Conn
  <2> HIDE DEF e
  <2>3. Api!Moves(c, "idle", 0)
    BY <2>1, <2>2, PutMoves
  <2> QED
    BY <1>1, <2>3, ZenonT(30) DEF Api!Replied
<1>2. CASE r.op = "close"
  <2> DEFINE e == [k EXCEPT !.st = "FIN_WAIT_1", !.len = 1, !.nrtx = 0]
  <2>1. Put(c, e, Send(k, {"FIN", "ACK"}, 0))
    BY <1>2 DEF AppSend
  <2>2. PhaseOf(e) = "closing" /\ OutstandingOf(e) = 0
    BY DEF PhaseOf, OutstandingOf, Conn
  <2> HIDE DEF e
  <2>3. Api!Moves(c, "closing", 0)
    BY <2>1, <2>2, PutMoves
  <2> QED
    BY <1>2, <2>3, ZenonT(30) DEF Api!Replied
<1>3. CASE r.op \in {"send", "none"}
  <2> DEFINE inflight == IF "acked" \in ev THEN 0 ELSE k.len
             n == IF r.op = "none" THEN 0
                  ELSE IF inflight # 0 THEN inflight
                  ELSE IF r.n > k.mss THEN k.mss ELSE r.n
             e == [k EXCEPT !.len = n, !.nrtx = 0]
             o == IF n > 0 \/ "newdata" \in ev THEN Send(k, {"ACK"}, n) ELSE NoSeg
  <2>1. Put(c, e, o)
    BY <1>3, Zenon DEF AppSend
  <2>2. r.n \in Nat /\ k.len \in Nat /\ k.mss \in Nat /\ e.mss = k.mss
    BY TcpAssumption DEF Reply, Api!Reply, Conn
  <2>3. /\ r.op = "none" => n = 0
        /\ r.op = "send" /\ ("acked" \in ev \/ k.len = 0)
             => n = IF r.n > k.mss THEN k.mss ELSE r.n
        /\ r.op = "send" /\ "acked" \notin ev /\ k.len # 0 => n = k.len
    BY <2>2, Zenon
  <2> HIDE DEF n
  <2>4. PhaseOf(e) = "open" /\ OutstandingOf(e) = n
    BY DEF PhaseOf, OutstandingOf, Conn
  <2> HIDE DEF e, o
  <2>5. Api!Moves(c, "open", n)
    BY <2>1, <2>4, PutMoves
  <2>6. [d \in 1..UIP_CONNS |-> conns[d].mss]'[c] = k.mss
    BY <2>1, <2>2, PutMss, ZenonT(30)
  <2> HIDE DEF inflight
  <2> QED
    BY <1>3, <2>3, <2>5, <2>6, Viewed, ZenonT(30) DEF Api!Replied
<1> QED
  BY <1>1, <1>2, <1>3, ZenonT(30) DEF AppSend

\* The answer leaves uip_mss() as the segment has set it.
LEMMA AppSendMss ==
    ASSUME TypeOK, NEW c \in Conns, NEW k \in Conn, NEW ev, NEW r \in Reply, AppSend(c, k, ev, r)
    PROVE  [d \in 1..UIP_CONNS |-> conns[d].mss]'
                = [[d \in 1..UIP_CONNS |-> conns[d].mss] EXCEPT ![c] = k.mss]
<1>1. CASE r.op = "abort"
  <2> DEFINE e == [k EXCEPT !.st = "CLOSED"]
  <2>1. Put(c, e, Send(k, {"RST", "ACK"}, 0)) /\ e.mss = k.mss
    BY <1>1 DEF AppSend, Conn
  <2> HIDE DEF e
  <2> QED
    BY <2>1, PutMss
<1>2. CASE r.op = "close"
  <2> DEFINE e == [k EXCEPT !.st = "FIN_WAIT_1", !.len = 1, !.nrtx = 0]
  <2>1. Put(c, e, Send(k, {"FIN", "ACK"}, 0)) /\ e.mss = k.mss
    BY <1>2 DEF AppSend, Conn
  <2> HIDE DEF e
  <2> QED
    BY <2>1, PutMss
<1>3. CASE r.op \in {"send", "none"}
  <2> DEFINE inflight == IF "acked" \in ev THEN 0 ELSE k.len
             n == IF r.op = "none" THEN 0
                  ELSE IF inflight # 0 THEN inflight
                  ELSE IF r.n > k.mss THEN k.mss ELSE r.n
             e == [k EXCEPT !.len = n, !.nrtx = 0]
             o == IF n > 0 \/ "newdata" \in ev THEN Send(k, {"ACK"}, n) ELSE NoSeg
  <2>1. Put(c, e, o)
    BY <1>3, Zenon DEF AppSend
  <2> HIDE DEF n, o
  <2>2. e.mss = k.mss
    BY DEF Conn
  <2> HIDE DEF e
  <2> QED
    BY <2>1, <2>2, PutMss
<1> QED
  BY <1>1, <1>2, <1>3, ZenonT(30) DEF AppSend

\* It keeps it if the segment has not touched it.
LEMMA AppSendKeepsMss ==
    ASSUME TypeOK, NEW c \in Conns, NEW k \in Conn, NEW ev, NEW r \in Reply, AppSend(c, k, ev, r),
           k.mss = conns[c].mss
    PROVE  [d \in 1..UIP_CONNS |-> conns[d].mss]' = [d \in 1..UIP_CONNS |-> conns[d].mss]
  BY AppSendMss, Viewed, ZenonT(30)

\* Otherwise it is a value that UipApi allows.
LEMMA AppSendNewMss ==
    ASSUME TypeOK, NEW c \in Conns, NEW k \in Conn, NEW ev, NEW r \in Reply, AppSend(c, k, ev, r)
    PROVE  Api!NewMss(c)
<1>1. k.mss \in 0..UIP_TCP_MSS
  BY DEF Conn
<1> QED
  BY <1>1, AppSendMss, ZenonT(30) DEF Api!NewMss

\* Every segment for a known connection is a step of UipApi.
LEMMA FoundSimulates ==
    ASSUME TypeOK, NEW c \in Conns, NEW seg \in Segment, NEW t \in Rto, NEW r \in Reply,
           conns[c].st # "CLOSED",
           \/ Reset(c, seg, r)
           \/ OutOfOrder(c, seg)
           \/ SynRcvd(c, seg, t, r)
           \/ EstablishedFin(c, seg, t, r)
           \/ Established(c, seg, t, r)
           \/ LastAck(c, seg, t, r)
           \/ FinWait1(c, seg, t, r)
           \/ FinWait2(c, seg, t, r)
           \/ TimeWait(c, seg, t)
           \/ Closing(c, seg, t)
    PROVE  Api!ApiNext
<1> DEFINE a == AfterAck(conns[c], seg, t)
<1>1. conns[c] \in Conn
  BY Zenon DEF TypeOK
<1>2. /\ a \in Conn /\ a.st = conns[c].st /\ a.rport = conns[c].rport /\ a.len = conns[c].len
      /\ a.mss = conns[c].mss
  BY <1>1, AfterAckType, ZenonT(30)
<1>3. c \in Api!Conns /\ r \in Api!Reply
  BY Zenon DEF Conns, Reply
<1>4. PhaseOf(a) = PhaseOf(conns[c]) /\ OutstandingOf(a) = OutstandingOf(conns[c])
  BY <1>2, Zenon DEF PhaseOf, OutstandingOf
<1>5. ASSUME NEW k \in Conn, k.st = a.st, k.len = a.len
      PROVE  PhaseOf(k) = PhaseOf(conns[c]) /\ OutstandingOf(k) = OutstandingOf(conns[c])
  BY <1>2, <1>5, Zenon DEF PhaseOf, OutstandingOf
<1>6. CASE Reset(c, seg, r)
  <2> DEFINE e == [conns[c] EXCEPT !.st = "CLOSED"]
  <2>1. Put(c, e, NoSeg) /\ Api!Call(c, {"abort"}, r)
    BY <1>6 DEF Reset
  <2>2. /\ PhaseOf(e) = "idle" /\ OutstandingOf(e) = 0 /\ PhaseOf(conns[c]) # "idle"
        /\ e.mss = conns[c].mss
    BY <1>1, Zenon DEF PhaseOf, OutstandingOf, Conn
  <2> HIDE DEF e
  <2>3. Api!Moves(c, "idle", 0)
    BY <2>1, <2>2, PutMoves, ZenonT(30)
  <2>4. Api!Lost(c, {"abort"}, r)
    BY <2>1, <2>2, <2>3, PutKeepsMss, Viewed, ZenonT(30) DEF Api!Lost
  <2> QED
    BY <1>3, <2>4, ZenonT(30) DEF Api!ApiNext
<1>7. CASE OutOfOrder(c, seg)
  <2>1. Put(c, conns[c], Send(conns[c], {"ACK"}, 0)) /\ upcall' = NoCall
    BY <1>7, Zenon DEF OutOfOrder
  <2> QED
    BY <2>1, PutQuiet, ZenonT(30) DEF Api!ApiNext
<1>8. CASE SynRcvd(c, seg, t, r)
  <2> DEFINE e == [a EXCEPT !.st = "ESTABLISHED", !.len = 0, !.rcv_nxt = Add32(a.rcv_nxt, seg.len)]
             ev == {"connected"} \cup NewData(seg)
  <2>1. conns[c].st = "SYN_RCVD"
    BY <1>8, Zenon DEF SynRcvd, Accepted
  <2>2. PhaseOf(conns[c]) = "pending" /\ OutstandingOf(conns[c]) = 0
    BY <2>1 DEF PhaseOf, OutstandingOf
  <2>3. CASE Acks(conns[c], seg)
    <3>1. AppSend(c, e, ev, r) /\ Api!Call(c, ev, r)
      BY <1>8, <2>3, ZenonT(30) DEF SynRcvd
    <3>2. e \in Conn /\ e.st = "ESTABLISHED" /\ e.len = 0 /\ e.mss = conns[c].mss
      <4>1. Add32(a.rcv_nxt, seg.len) \in SeqNo
        BY <1>2, Add32Type, TcpAssumption, ZenonT(30) DEF Conn, Segment
      <4> QED
        BY <1>2, <4>1, ZenonT(30) DEF Conn, State
    <3>3. ev \in {{"connected"}, {"connected", "newdata"}}
      BY Zenon DEF NewData
    <3> HIDE DEF e, ev
    <3>4. Api!Replied(c, ev, r)
      BY <2>2, <3>1, <3>2, AppSendReplies, ZenonT(30)
    <3>5. [d \in 1..UIP_CONNS |-> conns[d].mss]' = [d \in 1..UIP_CONNS |-> conns[d].mss]
      BY <3>1, <3>2, AppSendKeepsMss, ZenonT(30)
    <3>6. Api!Connect(c, ev, r)
      BY <2>2, <3>1, <3>4, <3>5, Viewed, ZenonT(30) DEF Api!Connect
    <3> QED
      BY <1>3, <3>3, <3>6, ZenonT(30) DEF Api!ApiNext
  <2>4. CASE ~Acks(conns[c], seg)
    <3>1. Put(c, a, NoSeg) /\ upcall' = NoCall
      BY <1>8, <2>4, ZenonT(30) DEF SynRcvd
    <3> HIDE DEF a
    <3> QED
      BY <1>2, <1>4, <3>1, PutQuiet, ZenonT(30) DEF Api!ApiNext
  <2> QED
    BY <2>3, <2>4, Zenon
<1>9. CASE EstablishedFin(c, seg, t, r)
  <2> DEFINE f == [a EXCEPT !.st = "LAST_ACK", !.len = 1, !.nrtx = 0,
                            !.rcv_nxt = Add32(a.rcv_nxt, 1 + seg.len)]
             ev == {"close"} \cup NewData(seg)
  <2>1. conns[c].st = "ESTABLISHED"
    BY <1>9, Zenon DEF EstablishedFin, Accepted
  <2>2. CASE a.len # 0
    <3>1. Put(c, a, NoSeg) /\ upcall' = NoCall
      BY <1>9, <2>2, Zenon DEF EstablishedFin
    <3> HIDE DEF a
    <3> QED
      BY <1>2, <1>4, <3>1, PutQuiet, ZenonT(30) DEF Api!ApiNext
  <2>3. CASE a.len = 0
    <3>1. Put(c, f, Send(f, {"FIN", "ACK"}, 0)) /\ Api!Call(c, ev, r)
      BY <1>9, <2>3, Zenon DEF EstablishedFin
    <3>2. PhaseOf(conns[c]) = "open" /\ OutstandingOf(conns[c]) = 0
      BY <1>2, <2>1, <2>3, Zenon DEF PhaseOf, OutstandingOf
    <3>3. PhaseOf(f) = "closing" /\ OutstandingOf(f) = 0 /\ f.mss = conns[c].mss
      BY <1>2, Zenon DEF PhaseOf, OutstandingOf, Conn
    <3>4. ev \in {{"close"}, {"close", "newdata"}}
      BY Zenon DEF NewData
    <3> HIDE DEF f, ev
    <3>5. Api!Moves(c, "closing", 0)
      BY <3>1, <3>3, PutMoves, ZenonT(30)
    <3>6. Api!PeerClose(c, ev, r)
      BY <3>1, <3>2, <3>3, <3>5, PutKeepsMss, Viewed, ZenonT(30) DEF Api!PeerClose
    <3> QED
      BY <1>3, <3>4, <3>6, ZenonT(30) DEF Api!ApiNext
  <2> QED
    BY <2>2, <2>3, ZenonT(30)
<1>10. CASE Established(c, seg, t, r)
  <2> DEFINE ev == NewData(seg) \cup (IF Acks(conns[c], seg) THEN {"acked"} ELSE {})
             w == IF seg.wnd > a.initialmss \/ seg.wnd = 0 THEN a.initialmss ELSE seg.wnd
             k == [a EXCEPT !.rcv_nxt = Add32(a.rcv_nxt, seg.len), !.mss = w]
  <2>1. conns[c].st = "ESTABLISHED"
    BY <1>10, ZenonT(30) DEF Established, Accepted
  <2>2. PhaseOf(conns[c]) = "open" /\ OutstandingOf(conns[c]) = conns[c].len
    BY <2>1 DEF PhaseOf, OutstandingOf
  <2>3. k \in Conn /\ k.st = "ESTABLISHED" /\ k.len = conns[c].len
    <3>1. Add32(a.rcv_nxt, seg.len) \in SeqNo
      BY <1>2, Add32Type, TcpAssumption, ZenonT(30) DEF Conn, Segment
    <3>2. w \in 0..UIP_TCP_MSS
      <4>1. seg.wnd \in Nat /\ a.initialmss \in 0..UIP_TCP_MSS
        BY <1>2, TcpAssumption, ZenonT(30) DEF Conn, Segment
      <4> QED
        BY <4>1, TcpAssumption
    <3> HIDE DEF w
    <3> QED
      BY <1>2, <2>1, <3>1, <3>2, ZenonT(30) DEF Conn
  <2>4. CASE ev # {}
    <3>1. AppSend(c, k, ev, r) /\ Api!Call(c, ev, r)
      BY <1>10, <2>4, Zenon DEF Established
    <3>2. ev \in {{"newdata"}, {"acked"}, {"newdata", "acked"}}
      BY <2>4, Zenon DEF NewData
    <3>3. "acked" \in ev => conns[c].len # 0
      BY Zenon DEF NewData, Acks
    <3> HIDE DEF ev, k
    <3>4. Api!Replied(c, ev, r)
      BY <2>2, <2>3, <3>1, AppSendReplies, ZenonT(30)
    <3>5. Api!NewMss(c)
      BY <2>3, <3>1, AppSendNewMss, ZenonT(30)
    <3>6. Api!Deliver(c, ev, r)
      BY <2>2, <3>1, <3>3, <3>4, <3>5, Viewed, ZenonT(30) DEF Api!Deliver
    <3> QED
      BY <1>3, <3>2, <3>6, ZenonT(30) DEF Api!ApiNext
  <2>5. CASE ev = {}
    <3>1. Put(c, k, NoSeg) /\ upcall' = NoCall
      BY <1>10, <2>5, ZenonT(30) DEF Established
    <3>2. PhaseOf(k) = PhaseOf(conns[c]) /\ OutstandingOf(k) = OutstandingOf(conns[c])
      BY <1>2, <1>5, <2>1, <2>3, ZenonT(30)
    <3> HIDE DEF k
    <3>3. Api!NewMss(c)
      BY <2>3, <3>1, PutNewMss, ZenonT(30)
    <3>4. Api!Window(c)
      BY <2>2, <3>1, <3>2, <3>3, PutSameData, Viewed, ZenonT(30) DEF Api!Window, NoCall
    <3> QED
      BY <1>3, <3>4, Zenon DEF Api!ApiNext
  <2> QED
    BY <2>4, <2>5, Zenon
<1>11. CASE LastAck(c, seg, t, r)
  <2> DEFINE e == [a EXCEPT !.st = "CLOSED"]
  <2>1. conns[c].st = "LAST_ACK"
    BY <1>11, Zenon DEF LastAck, Accepted
  <2>2. /\ PhaseOf(conns[c]) = "closing" /\ PhaseOf(e) = "idle" /\ OutstandingOf(e) = 0
        /\ e.mss = conns[c].mss
    BY <1>2, <2>1, ZenonT(30) DEF PhaseOf, OutstandingOf, Conn
  <2>3. CASE Acks(conns[c], seg)
    <3>1. Put(c, e, NoSeg) /\ Api!Call(c, {"close"}, r)
      BY <1>11, <2>3, ZenonT(30) DEF LastAck
    <3> HIDE DEF e
    <3>2. Api!CloseDone(c, r)
      BY <2>2, <3>1, PutMoves, PutKeepsMss, Viewed, ZenonT(30) DEF Api!CloseDone
    <3> QED
      BY <1>3, <3>2, ZenonT(30) DEF Api!ApiNext
  <2>4. CASE ~Acks(conns[c], seg)
    <3>1. Put(c, conns[c], NoSeg) /\ upcall' = NoCall
      BY <1>11, <2>4, ZenonT(30) DEF LastAck
    <3> QED
      BY <3>1, PutQuiet, ZenonT(30) DEF Api!ApiNext
  <2> QED
    BY <2>3, <2>4, ZenonT(30)
<1>12. CASE FinWait1(c, seg, t, r)
  <2> DEFINE k == [a EXCEPT !.rcv_nxt = Add32(a.rcv_nxt, seg.len)]
             f == [k EXCEPT !.rcv_nxt = Add32(k.rcv_nxt, 1)]
             w == [f EXCEPT !.st = "TIME_WAIT", !.timer = 0, !.len = 0]
             g == [f EXCEPT !.st = "CLOSING"]
             h == [k EXCEPT !.st = "FIN_WAIT_2", !.len = 0]
             fin == IF Acks(conns[c], seg) THEN w ELSE g
             o == IF seg.len > 0 THEN Send(k, {"ACK"}, 0) ELSE NoSeg
  <2>1. conns[c].st = "FIN_WAIT_1"
    BY <1>12, Zenon DEF FinWait1, Accepted
  <2>2. PhaseOf(conns[c]) = "closing" /\ OutstandingOf(conns[c]) = 0
    BY <2>1 DEF PhaseOf, OutstandingOf
  <2>3. /\ k.st = "FIN_WAIT_1" /\ h.st = "FIN_WAIT_2" /\ fin.st \in {"TIME_WAIT", "CLOSING"}
        /\ k.mss = conns[c].mss /\ h.mss = conns[c].mss /\ fin.mss = conns[c].mss
    BY <1>2, <2>1, ZenonT(30) DEF Conn
  <2>4. CASE "FIN" \in seg.flags
    <3>1. Put(c, fin, Send(f, {"ACK"}, 0)) /\ Api!Call(c, {"close"}, r)
      BY <1>12, <2>4, ZenonT(30) DEF FinWait1
    <3> HIDE DEF fin, f
    <3>2. PhaseOf(fin) = "closing" /\ OutstandingOf(fin) = 0
      BY <2>3, Zenon DEF PhaseOf, OutstandingOf
    <3>3. Api!CloseDone(c, r)
      BY <2>2, <2>3, <3>1, <3>2, PutMoves, PutKeepsMss, Viewed, ZenonT(30) DEF Api!CloseDone
    <3> QED
      BY <1>3, <3>3, ZenonT(30) DEF Api!ApiNext
  <2>5. CASE "FIN" \notin seg.flags
    <3>1. upcall' = NoCall
      BY <1>12, <2>5, ZenonT(30) DEF FinWait1
    <3>2. Put(c, h, NoSeg) \/ Put(c, k, o)
      BY <1>12, <2>5, ZenonT(30) DEF FinWait1
    <3> HIDE DEF k, h, o
    <3>3. /\ PhaseOf(h) = "closing" /\ OutstandingOf(h) = 0
          /\ PhaseOf(k) = "closing" /\ OutstandingOf(k) = 0
      BY <2>3, ZenonT(30) DEF PhaseOf, OutstandingOf
    <3>4. Api!Quiet
      BY <2>2, <2>3, <3>1, <3>2, <3>3, PutQuiet, SMTT(30)
    <3> QED
      BY <3>4, ZenonT(30) DEF Api!ApiNext
  <2> QED
    BY <2>4, <2>5, ZenonT(30)
<1>13. CASE FinWait2(c, seg, t, r)
  <2> DEFINE k == [a EXCEPT !.rcv_nxt = Add32(a.rcv_nxt, seg.len)]
             f == [k EXCEPT !.st = "TIME_WAIT", !.timer = 0, !.rcv_nxt = Add32(k.rcv_nxt, 1)]
             o == IF seg.len > 0 THEN Send(k, {"ACK"}, 0) ELSE NoSeg
  <2>1. conns[c].st = "FIN_WAIT_2"
    BY <1>13, Zenon DEF FinWait2, Accepted
  <2>2. PhaseOf(conns[c]) = "closing" /\ OutstandingOf(conns[c]) = 0
    BY <2>1 DEF PhaseOf, OutstandingOf
  <2>3. /\ k.st = "FIN_WAIT_2" /\ f.st = "TIME_WAIT"
        /\ k.mss = conns[c].mss /\ f.mss = conns[c].mss
    BY <1>2, <2>1, ZenonT(30) DEF Conn
  <2> HIDE DEF k, f
  <2>4. /\ PhaseOf(f) = "closing" /\ OutstandingOf(f) = 0
        /\ PhaseOf(k) = "closing" /\ OutstandingOf(k) = 0
    BY <2>3 DEF PhaseOf, OutstandingOf
  <2>5. CASE "FIN" \in seg.flags
    <3>1. Put(c, f, Send(f, {"ACK"}, 0)) /\ Api!Call(c, {"close"}, r)
      BY <1>13, <2>5, ZenonT(30) DEF FinWait2, f, k
    <3>2. Api!CloseDone(c, r)
      BY <2>2, <2>3, <2>4, <3>1, PutMoves, PutKeepsMss, Viewed, ZenonT(30) DEF Api!CloseDone
    <3> QED
      BY <1>3, <3>2, ZenonT(30) DEF Api!ApiNext
  <2>6. CASE "FIN" \notin seg.flags
    <3>1. Put(c, k, o) /\ upcall' = NoCall
      BY <1>13, <2>6, ZenonT(30) DEF FinWait2, k
    <3> HIDE DEF o
    <3>2. Api!Quiet
      BY <2>2, <2>3, <2>4, <3>1, PutQuiet, ZenonT(30)
    <3> QED
      BY <3>2, Zenon DEF Api!ApiNext
  <2> QED
    BY <2>5, <2>6, ZenonT(30)
<1>14. CASE TimeWait(c, seg, t)
  <2>1. Put(c, a, Send(a, {"ACK"}, 0)) /\ upcall' = NoCall
    BY <1>14, Zenon DEF TimeWait
  <2> HIDE DEF a
  <2>2. Api!Quiet
    BY <1>2, <1>4, <2>1, PutQuiet, ZenonT(30)
  <2> QED
    BY <2>2, Zenon DEF Api!ApiNext
<1>15. CASE Closing(c, seg, t)
  <2> DEFINE e == [a EXCEPT !.st = "TIME_WAIT", !.timer = 0]
  <2>1. conns[c].st = "CLOSING" /\ upcall' = NoCall /\ (Put(c, e, NoSeg) \/ Put(c, conns[c], NoSeg))
    BY <1>15, Zenon DEF Closing, Accepted
  <2>2. /\ PhaseOf(e) = PhaseOf(conns[c]) /\ OutstandingOf(e) = OutstandingOf(conns[c])
        /\ e.mss = conns[c].mss
    BY <1>2, <2>1, ZenonT(30) DEF PhaseOf, OutstandingOf, Conn
  <2> HIDE DEF e
  <2>3. Api!Quiet
    BY <2>1, <2>2, PutQuiet, ZenonT(30)
  <2> QED
    BY <2>3, Zenon DEF Api!ApiNext
<1> QED
  BY <1>6, <1>7, <1>8, <1>9, <1>10, <1>11, <1>12, <1>13, <1>14, <1>15, SMTT(30)

\* A call of uip_periodic is a step of UipApi.
LEMMA PeriodicSimulates ==
    ASSUME TypeOK, NEW c \in Conns, NEW r \in Reply, Periodic(c, r)
    PROVE  Api!ApiNext
<1>1. conns[c] \in Conn /\ c \in Api!Conns /\ r \in Api!Reply
  BY DEF TypeOK, Conns, Reply
<1>2. CASE WaitTick(c)
  <2> DEFINE t == (conns[c].timer + 1) % TIMER_MOD
             st == IF t = UIP_TIME_WAIT_TIMEOUT THEN "CLOSED" ELSE conns[c].st
             k == [conns[c] EXCEPT !.timer = t, !.st = st]
  <2>1. Put(c, k, NoSeg) /\ upcall' = NoCall /\ conns[c].st \in {"TIME_WAIT", "FIN_WAIT_2"}
    BY <1>2, Zenon DEF WaitTick
  <2>2. st = "CLOSED" \/ st = conns[c].st
    BY Zenon
  <2> HIDE DEF t, st
  <2>3. k.st = st /\ k.mss = conns[c].mss
    BY <1>1 DEF Conn
  <2> HIDE DEF k
  <2>4. PhaseOf(conns[c]) = "closing" /\ OutstandingOf(conns[c]) = 0
    BY <2>1 DEF PhaseOf, OutstandingOf
  <2>5. CASE st = "CLOSED"
    <3>1. PhaseOf(k) = "idle" /\ OutstandingOf(k) = 0
      BY <2>3, <2>5 DEF PhaseOf, OutstandingOf
    <3>2. Api!Forget(c)
      BY <2>1, <2>3, <2>4, <3>1, PutMoves, PutKeepsMss, Viewed, ZenonT(30) DEF Api!Forget, NoCall
    <3> QED
      BY <1>1, <3>2 DEF Api!ApiNext
  <2>6. CASE st = conns[c].st
    <3>1. PhaseOf(k) = "closing" /\ OutstandingOf(k) = 0
      BY <2>1, <2>3, <2>6 DEF PhaseOf, OutstandingOf
    <3> QED
      BY <2>1, <2>3, <2>4, <3>1, PutQuiet, ZenonT(30) DEF Api!ApiNext
  <2> QED
    BY <2>2, <2>5, <2>6, SMTT(30)
<1>3. CASE CountDown(c)
  <2> DEFINE k == [conns[c] EXCEPT !.timer = conns[c].timer - 1]
  <2>1. Put(c, k, NoSeg) /\ upcall' = NoCall
    BY <1>3 DEF CountDown
  <2>2. /\ PhaseOf(k) = PhaseOf(conns[c]) /\ OutstandingOf(k) = OutstandingOf(conns[c])
        /\ k.mss = conns[c].mss
    BY <1>1, Zenon DEF PhaseOf, OutstandingOf, Conn
  <2> HIDE DEF k
  <2> QED
    BY <2>1, <2>2, PutQuiet, ZenonT(30) DEF Api!ApiNext
<1>4. CASE GiveUp(c, r)
  <2> DEFINE k == [conns[c] EXCEPT !.st = "CLOSED", !.timer = TIMER_MOD - 1]
  <2>1. /\ Put(c, k, Send(conns[c], {"RST", "ACK"}, 0))
        /\ Api!Call(c, {"timedout"}, r)
        /\ conns[c].st # "CLOSED"
    BY <1>4, Zenon DEF GiveUp, InFlight
  <2>2. /\ PhaseOf(k) = "idle" /\ OutstandingOf(k) = 0 /\ PhaseOf(conns[c]) # "idle"
        /\ k.mss = conns[c].mss
    BY <1>1, <2>1, ZenonT(30) DEF PhaseOf, OutstandingOf, Conn
  <2> HIDE DEF k
  <2>3. Api!Lost(c, {"timedout"}, r)
    BY <2>1, <2>2, PutMoves, PutKeepsMss, Viewed, ZenonT(30) DEF Api!Lost
  <2> QED
    BY <1>1, <2>3, ZenonT(30) DEF Api!ApiNext
<1>5. CASE Retransmit(c, r)
  <2> DEFINE k == [conns[c] EXCEPT !.nrtx = conns[c].nrtx + 1, !.timer = Backoff(conns[c])]
             data == IF r.op = "send" THEN Send(k, {"ACK"}, k.len) ELSE NoSeg
             control == Send(k, {IF k.st = "SYN_RCVD" THEN "SYN" ELSE "FIN", "ACK"}, 0)
  <2>1. k.st = conns[c].st /\ k.len = conns[c].len /\ k.mss = conns[c].mss
    BY <1>1 DEF Conn
  <2>2. \/ conns[c].st = "ESTABLISHED" /\ Put(c, k, data) /\ Api!Call(c, {"rexmit"}, r)
        \/ Put(c, k, control) /\ upcall' = NoCall
    BY <1>5, <2>1, ZenonT(30) DEF Retransmit
  <2>3. conns[c].len # 0
    BY <1>5, ZenonT(30) DEF Retransmit, InFlight
  <2> HIDE DEF k, data, control
  <2>4. PhaseOf(k) = PhaseOf(conns[c]) /\ OutstandingOf(k) = OutstandingOf(conns[c])
    BY <2>1 DEF PhaseOf, OutstandingOf
  <2>5. CASE Put(c, k, control) /\ upcall' = NoCall
    BY <2>1, <2>4, <2>5, PutQuiet, ZenonT(30) DEF Api!ApiNext
  <2>6. CASE conns[c].st = "ESTABLISHED" /\ Put(c, k, data) /\ Api!Call(c, {"rexmit"}, r)
    <3>1. PhaseOf(conns[c]) = "open" /\ OutstandingOf(conns[c]) # 0
      BY <2>3, <2>6 DEF PhaseOf, OutstandingOf
    <3>2. Api!Rexmit(c, r)
      BY <2>1, <2>4, <2>6, <3>1, PutSameView, Viewed, ZenonT(30) DEF Api!Rexmit
    <3> QED
      BY <1>1, <3>2 DEF Api!ApiNext
  <2> QED
    BY <2>2, <2>5, <2>6, SMTT(30)
<1>6. CASE PollApp(c, r)
  <2>1. /\ conns[c].st = "ESTABLISHED" /\ conns[c].len = 0
        /\ AppSend(c, conns[c], {"poll"}, r) /\ Api!Call(c, {"poll"}, r)
    BY <1>6 DEF PollApp
  <2>2. PhaseOf(conns[c]) = "open" /\ OutstandingOf(conns[c]) = 0
    BY <2>1 DEF PhaseOf, OutstandingOf
  <2>3. Api!Replied(c, {"poll"}, r)
    BY <1>1, <2>1, <2>2, AppSendReplies, ZenonT(30)
  <2>4. [d \in 1..UIP_CONNS |-> conns[d].mss]' = [d \in 1..UIP_CONNS |-> conns[d].mss]
    BY <1>1, <2>1, AppSendKeepsMss, ZenonT(30)
  <2>5. Api!Poll(c, r)
    BY <2>1, <2>2, <2>3, <2>4, Viewed, ZenonT(30) DEF Api!Poll
  <2> QED
    BY <1>1, <2>5 DEF Api!ApiNext
<1>7. CASE conns[c].st = "CLOSED" /\ Put(c, conns[c], NoSeg) /\ upcall' = NoCall
  BY <1>7, PutQuiet, ZenonT(30) DEF Api!ApiNext
<1> QED
  BY <1>2, <1>3, <1>4, <1>5, <1>6, <1>7, SMTT(30) DEF Periodic

\* A SYN is a quiet step, or the slot it takes becomes pending.
LEMMA ListenSimulates ==
    ASSUME TypeOK, TimerArmed, NEW seg \in Segment, Listen(seg)
    PROVE  Api!ApiNext
<1>1. upcall' = NoCall
  BY Zenon DEF Listen
<1>2. CASE UNCHANGED conns
  BY <1>1, <1>2, Zenon DEF Api!ApiNext, Api!Quiet, NoCall
<1>3. ASSUME NEW c \in FreeSlots, NEW k, NEW o, k.st = "SYN_RCVD", Put(c, k, o)
      PROVE  Api!ApiNext
  <2>1. c \in Conns /\ conns[c].st \in {"CLOSED", "TIME_WAIT"}
    BY FreeSlotsOldest, Zenon
  <2>2. PhaseOf(conns[c]) \in {"idle", "closing"}
    BY <2>1 DEF PhaseOf
  <2>3. PhaseOf(k) = "pending" /\ OutstandingOf(k) = 0
    BY <1>3 DEF PhaseOf, OutstandingOf
  <2>4. k \in Conn
    BY <1>3, <2>1, ListenStep DEF Put, TypeOK
  <2>5. Api!Accept(c)
    BY <1>1, <1>3, <2>1, <2>2, <2>3, <2>4, PutMoves, PutNewMss, Viewed, ZenonT(30) DEF Api!Accept, NoCall
  <2> QED
    BY <2>1, <2>5, ZenonT(30) DEF Api!ApiNext, Conns
<1>4. CASE \E c \in FreeSlots : \E k, o : k.st = "SYN_RCVD" /\ Put(c, k, o)
  BY <1>3, <1>4
<1>5. ASSUME FreeSlots # {}, ~UNCHANGED conns
      PROVE  \E c \in FreeSlots : \E k, o : k.st = "SYN_RCVD" /\ Put(c, k, o)
  <2> DEFINE new(c) == [st |-> "SYN_RCVD", rport |-> seg.port, snd_nxt |-> iss,
                       rcv_nxt |-> Add32(seg.seq, 1), len |-> 1, nrtx |-> 0, timer |-> UIP_RTO,
                       mss |-> OptionMss(seg, conns[c].mss),
                       initialmss |-> OptionMss(seg, conns[c].initialmss)]
  <2>1. PICK c \in FreeSlots : Put(c, new(c), Send(new(c), {"SYN", "ACK"}, 0))
    BY <1>5, Zenon DEF Listen
  <2>2. new(c).st = "SYN_RCVD"
    BY Zenon
  <2> HIDE DEF new
  <2> QED
    BY <2>1, <2>2
<1> QED
  BY <1>2, <1>4, <1>5, ZenonT(30) DEF Listen

\* The application is called only as UipApi allows: connected once, first and
\* on a pending slot; acknowledgements only for data in flight; a close by the
\* peer never while data is in flight; nothing after the slot is idle.
THEOREM StackImplementsApi == Spec => ImplementsApi
<1>1. Init => Api!ApiInit
  <2> SUFFICES ASSUME Init PROVE Api!ApiInit
    OBVIOUS
  <2>1. \A c \in Conns : PhaseOf(conns[c]) = "idle" /\ OutstandingOf(conns[c]) = 0
    BY DEF Init, PhaseOf, OutstandingOf
  <2> QED
    BY <2>1, Zenon DEF Init, Api!ApiInit, Conns, Api!Conns, NoCall
<1>2. TypeOK /\ TimerArmed /\ [Next]_vars => [Api!ApiNext]_Api!apiVars
  <2> SUFFICES ASSUME TypeOK, TimerArmed, [Next]_vars PROVE Api!ApiNext \/ UNCHANGED Api!apiVars
    OBVIOUS
  <2>1. ASSUME NEW seg \in Segment, NEW t \in Rto, NEW r \in Reply, Input(seg, t, r)
        PROVE  Api!ApiNext
    <3>1. CASE NoConn(seg)
      BY <3>1, Zenon DEF NoConn, Api!ApiNext, Api!Quiet, NoCall
    <3>2. CASE Listen(seg)
      BY <3>2, ListenSimulates
    <3>3. CASE /\ Found(seg.port) # {}
               /\ LET c == Min(Found(seg.port)) IN
                  \/ Reset(c, seg, r)
                  \/ OutOfOrder(c, seg)
                  \/ SynRcvd(c, seg, t, r)
                  \/ EstablishedFin(c, seg, t, r)
                  \/ Established(c, seg, t, r)
                  \/ LastAck(c, seg, t, r)
                  \/ FinWait1(c, seg, t, r)
                  \/ FinWait2(c, seg, t, r)
                  \/ TimeWait(c, seg, t)
                  \/ Closing(c, seg, t)
      <4> DEFINE c == Min(Found(seg.port))
      <4>1. c \in Conns /\ conns[c].st # "CLOSED"
        BY <3>3, FoundIsKnown, ZenonT(30)
      <4> HIDE DEF c
      <4> QED
        BY <3>3, <4>1, FoundSimulates, ZenonT(30) DEF c
    <3> QED
      BY <2>1, <3>1, <3>2, <3>3, ZenonT(30) DEF Input
  <2>2. ASSUME NEW c \in Conns, NEW r \in Reply, Periodic(c, r)
        PROVE  Api!ApiNext
    BY <2>2, PeriodicSimulates
  <2>3. CASE UNCHANGED vars
    BY <2>3 DEF vars, Api!apiVars
  <2> QED
    BY <2>1, <2>2, <2>3 DEF Next
<1> QED
  BY <1>1, <1>2, TypeCorrect, TimersStayArmed, PTL DEF Spec, ImplementsApi, Api!ApiSpec
=============================================================================
