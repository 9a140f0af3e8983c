------------------------------- MODULE UipTcp -------------------------------
(***************************************************************************)
(* The TCP of uIP (uip_process in httpd/uip.c), one action per label and   *)
(* state of the function.  The peers are arbitrary: a step takes any       *)
(* segment of Segment, so that loss, duplication, delay and reordering by  *)
(* the network are included.  The application's answer to an upcall is a   *)
(* parameter r of the action that makes the upcall.                        *)
(*                                                                         *)
(* A remote address and port is one value of Ports.  Sequence numbers are  *)
(* counted modulo SEQ_MOD (2^32), timer is a u8_t (TIMER_MOD = 256).  The  *)
(* round-trip estimate is any value of Rto; how it is computed is left     *)
(* out.  IP, ICMP and checksum processing, urgent data and uip_stop are    *)
(* left out: httpd uses neither of the last two.                           *)
(***************************************************************************)
EXTENDS Integers, FiniteSetsExt

CONSTANTS
    UIP_CONNS,          \* 2 in uipopt.h
    MaxSend,            \* most the application offers to send at once
    Ports, NoPort,      \* the remote ends
    SEQ_MOD, TIMER_MOD,
    UIP_RTO,            \* 3
    UIP_MAXRTX,         \* 8
    UIP_MAXSYNRTX,      \* 3
    UIP_TIME_WAIT_TIMEOUT, \* 120
    Rto,                \* values of the round-trip estimate
    Windows,            \* windows the peers advertise
    MssOptions, NoMss,  \* options of their SYNs, and none
    UIP_TCP_MSS,        \* 1446, the largest segment uIP sends
    SegFlags, SegLens   \* flags and lengths of the peers' segments

ASSUME TcpAssumption ==
    /\ UIP_CONNS \in Nat \ {0}
    /\ MaxSend \in Nat
    /\ NoPort \notin Ports
    /\ SEQ_MOD \in Nat \ {0} /\ TIMER_MOD \in Nat \ {0}
    /\ UIP_RTO \in 0..TIMER_MOD-1
    /\ UIP_MAXRTX \in Nat /\ UIP_MAXSYNRTX \in 0..UIP_MAXRTX
    /\ UIP_TIME_WAIT_TIMEOUT \in 1..TIMER_MOD-1
    /\ Rto \subseteq 0..TIMER_MOD-1
    /\ Windows \subseteq Nat /\ UIP_TCP_MSS \in Nat
    /\ NoMss \notin Nat /\ MssOptions \subseteq Nat \cup {NoMss}
    /\ SegLens \subseteq Nat
    /\ SegFlags \subseteq SUBSET {"SYN", "ACK", "FIN", "RST"}

VARIABLES
    conns,              \* uip_conns
    iss,                \* the next initial sequence number
    out,                \* the segment the last step left in uip_buf
    upcall              \* the call of UIP_APPCALL the last step made

vars == <<conns, iss, out, upcall>>

\* The application's view of connection k.
PhaseOf(k) ==
    CASE k.st = "CLOSED" -> "idle"
      [] k.st = "SYN_RCVD" -> "pending"
      [] k.st = "ESTABLISHED" -> "open"
      [] OTHER -> "closing"

OutstandingOf(k) == IF k.st = "ESTABLISHED" THEN k.len ELSE 0

Api == INSTANCE UipApi WITH
    phase <- [c \in 1..UIP_CONNS |-> PhaseOf(conns[c])],
    outstanding <- [c \in 1..UIP_CONNS |-> OutstandingOf(conns[c])],
    mss <- [c \in 1..UIP_CONNS |-> conns[c].mss],
    Mss <- 0..UIP_TCP_MSS

Conns == Api!Conns
Reply == Api!Reply
NoCall == Api!NoCall

State == {"CLOSED", "SYN_RCVD", "ESTABLISHED", "FIN_WAIT_1", "FIN_WAIT_2", "CLOSING",
          "TIME_WAIT", "LAST_ACK"}

SeqNo == 0..SEQ_MOD-1

Conn == [st: State, rport: Ports \cup {NoPort}, snd_nxt: SeqNo, rcv_nxt: SeqNo,
         len: Nat, nrtx: 0..UIP_MAXRTX, timer: 0..TIMER_MOD-1,
         mss: 0..UIP_TCP_MSS, initialmss: 0..UIP_TCP_MSS]

\* An incoming segment.  Only a SYN has the option.
Segment ==
    [port: Ports, flags: SegFlags \cap {{"SYN"}}, seq: SeqNo, ackno: SeqNo, len: SegLens,
     wnd: Windows, mss: MssOptions]
      \cup [port: Ports, flags: SegFlags \ {{"SYN"}}, seq: SeqNo, ackno: SeqNo, len: SegLens,
            wnd: Windows, mss: {NoMss}]

\* An outgoing segment, and the empty buffer.
NoSeg == [port |-> NoPort, flags |-> {}, seq |-> 0, ackno |-> 0, len |-> 0]

Add32(s, n) == (s + n) % SEQ_MOD

\* uip_init; the rest of the table is zero.
Init ==
    /\ conns = [c \in Conns |-> [st |-> "CLOSED", rport |-> NoPort, snd_nxt |-> 0, rcv_nxt |-> 0,
                                 len |-> 0, nrtx |-> 0, timer |-> 0, mss |-> 0, initialmss |-> 0]]
    /\ iss = 0
    /\ out = NoSeg
    /\ upcall = NoCall

-----------------------------------------------------------------------------
\* tcp_send: a segment of connection k with flags fl and n bytes of data.
Send(k, fl, n) ==
    [port |-> k.rport, flags |-> fl, seq |-> k.snd_nxt, ackno |-> k.rcv_nxt, len |-> n]

Put(c, k, o) == conns' = [conns EXCEPT ![c] = k] /\ out' = o

\* Mutant: a connection in TIME_WAIT is not looked up.
FoundNotWaiting(p) ==
    {c \in Conns : conns[c].st \notin {"CLOSED", "TIME_WAIT"} /\ conns[c].rport = p}

\* Demultiplexing: the slots of a remote end.
Found(p) == {c \in Conns : conns[c].st # "CLOSED" /\ conns[c].rport = p}

\* The label "reset": nobody knows the segment.  Resets are not answered.
NoConn(seg) ==
    /\ Found(seg.port) = {}
    /\ seg.flags # {"SYN"}
    /\ out' = IF "RST" \in seg.flags THEN NoSeg
              ELSE [port |-> seg.port, flags |-> {"RST", "ACK"}, seq |-> seg.ackno,
                    ackno |-> Add32(seg.seq, 1), len |-> 0]
    /\ upcall' = NoCall
    /\ UNCHANGED <<conns, iss>>

\* Mutant: the first slot in TIME_WAIT, whatever its age.
FreeSlotsFirst ==
    LET closed == {c \in Conns : conns[c].st = "CLOSED"}
        waiting == {c \in Conns : conns[c].st = "TIME_WAIT"}
    IN IF closed # {} THEN {Min(closed)} ELSE IF waiting = {} THEN {} ELSE {Min(waiting)}

\* The slot a SYN gets: the first closed one, else the first of those that
\* have been in TIME_WAIT longest, else none.
FreeSlots ==
    LET closed == {c \in Conns : conns[c].st = "CLOSED"}
        waiting == {c \in Conns : conns[c].st = "TIME_WAIT"}
    IN IF closed # {} THEN {Min(closed)}
       ELSE IF waiting = {} THEN {}
       ELSE {Min({c \in waiting : \A d \in waiting : conns[d].timer <= conns[c].timer})}

\* The MSS option of a SYN; without one the value that the slot's last
\* connection left is kept.
OptionMss(seg, old) ==
    IF seg.mss = NoMss THEN old
    ELSE IF seg.mss > UIP_TCP_MSS THEN UIP_TCP_MSS ELSE seg.mss

\* The label "found_listen".
Listen(seg) ==
    /\ Found(seg.port) = {}
    /\ seg.flags = {"SYN"}
    /\ upcall' = NoCall
    /\ UNCHANGED iss
    /\ \/ FreeSlots = {} /\ out' = NoSeg /\ UNCHANGED conns
       \/ \E c \in FreeSlots :
             LET k == [st |-> "SYN_RCVD", rport |-> seg.port, snd_nxt |-> iss,
                       rcv_nxt |-> Add32(seg.seq, 1), len |-> 1, nrtx |-> 0, timer |-> UIP_RTO,
                       mss |-> OptionMss(seg, conns[c].mss),
                       initialmss |-> OptionMss(seg, conns[c].initialmss)]
             IN Put(c, k, Send(k, {"SYN", "ACK"}, 0))

-----------------------------------------------------------------------------
\* The label "found".  A reset is believed without a look at its numbers.
Reset(c, seg, r) ==
    /\ "RST" \in seg.flags
    /\ Put(c, [conns[c] EXCEPT !.st = "CLOSED"], NoSeg)
    /\ Api!Call(c, {"abort"}, r)

InOrder(k, seg) == seg.len = 0 \/ seg.seq = k.rcv_nxt

\* Data out of order is answered with what is expected.
OutOfOrder(c, seg) ==
    /\ "RST" \notin seg.flags
    /\ ~InOrder(conns[c], seg)
    /\ Put(c, conns[c], Send(conns[c], {"ACK"}, 0))
    /\ upcall' = NoCall

\* The segment acknowledges all that is in flight.
Acks(k, seg) ==
    /\ "ACK" \in seg.flags
    /\ k.len # 0
    /\ seg.ackno = Add32(k.snd_nxt, k.len)

\* The sequence number advances and the timer restarts with the estimate t;
\* len stays, the code after the switch has to reset it.
AfterAck(k, seg, t) ==
    IF Acks(k, seg) THEN [k EXCEPT !.snd_nxt = seg.ackno, !.timer = t] ELSE k

\* Connection c is in state st and the segment has passed the checks that
\* all states share.
Accepted(c, seg, st) ==
    /\ conns[c].st = st
    /\ "RST" \notin seg.flags
    /\ InOrder(conns[c], seg)

\* The labels "appsend" and "apprexmit": what the answer r of the application
\* to the events ev does to connection k.
AppSend(c, k, ev, r) ==
    \/ r.op = "abort" /\ Put(c, [k EXCEPT !.st = "CLOSED"], Send(k, {"RST", "ACK"}, 0))
    \/ /\ r.op = "close"
       /\ Put(c, [k EXCEPT !.st = "FIN_WAIT_1", !.len = 1, !.nrtx = 0], Send(k, {"FIN", "ACK"}, 0))
    \/ /\ r.op \in {"send", "none"}
       /\ LET inflight == IF "acked" \in ev THEN 0 ELSE k.len
              n == IF r.op = "none" THEN 0
                   ELSE IF inflight # 0 THEN inflight
                   ELSE IF r.n > k.mss THEN k.mss ELSE r.n
          IN Put(c, [k EXCEPT !.len = n, !.nrtx = 0],
                 IF n > 0 \/ "newdata" \in ev THEN Send(k, {"ACK"}, n) ELSE NoSeg)

NewData(seg) == IF seg.len > 0 THEN {"newdata"} ELSE {}

SynRcvd(c, seg, t, r) ==
    /\ Accepted(c, seg, "SYN_RCVD")
    /\ LET k == AfterAck(conns[c], seg, t)
           e == [k EXCEPT !.st = "ESTABLISHED", !.len = 0, !.rcv_nxt = Add32(k.rcv_nxt, seg.len)]
           ev == {"connected"} \cup NewData(seg)
       IN IF Acks(conns[c], seg)
          THEN AppSend(c, e, ev, r) /\ Api!Call(c, ev, r)
          ELSE Put(c, k, NoSeg) /\ upcall' = NoCall

\* Mutant: a FIN is accepted while data is in flight.
EstablishedFinUnchecked(c, seg, t, r) ==
    /\ Accepted(c, seg, "ESTABLISHED")
    /\ "FIN" \in seg.flags
    /\ LET k == AfterAck(conns[c], seg, t)
           f == [k EXCEPT !.st = "LAST_ACK", !.len = 1, !.nrtx = 0,
                          !.rcv_nxt = Add32(k.rcv_nxt, 1 + seg.len)]
       IN Put(c, f, Send(f, {"FIN", "ACK"}, 0)) /\ Api!Call(c, {"close"} \cup NewData(seg), r)

\* A FIN is refused while data is in flight, also when it acknowledges them:
\* the numbers have advanced, but len has not been reset.
EstablishedFin(c, seg, t, r) ==
    /\ Accepted(c, seg, "ESTABLISHED")
    /\ "FIN" \in seg.flags
    /\ LET k == AfterAck(conns[c], seg, t)
           f == [k EXCEPT !.st = "LAST_ACK", !.len = 1, !.nrtx = 0,
                          !.rcv_nxt = Add32(k.rcv_nxt, 1 + seg.len)]
       IN IF k.len # 0
          THEN Put(c, k, NoSeg) /\ upcall' = NoCall
          ELSE Put(c, f, Send(f, {"FIN", "ACK"}, 0)) /\ Api!Call(c, {"close"} \cup NewData(seg), r)

Established(c, seg, t, r) ==
    /\ Accepted(c, seg, "ESTABLISHED")
    /\ "FIN" \notin seg.flags
    /\ LET a == AfterAck(conns[c], seg, t)
           ev == NewData(seg) \cup (IF Acks(conns[c], seg) THEN {"acked"} ELSE {})
           k == [a EXCEPT !.rcv_nxt = Add32(a.rcv_nxt, seg.len),
                          !.mss = IF seg.wnd > a.initialmss \/ seg.wnd = 0
                                  THEN a.initialmss ELSE seg.wnd]
       IN IF ev # {}
          THEN AppSend(c, k, ev, r) /\ Api!Call(c, ev, r)
          ELSE Put(c, k, NoSeg) /\ upcall' = NoCall

LastAck(c, seg, t, r) ==
    /\ Accepted(c, seg, "LAST_ACK")
    /\ IF Acks(conns[c], seg)
       THEN /\ Put(c, [AfterAck(conns[c], seg, t) EXCEPT !.st = "CLOSED"], NoSeg)
            /\ Api!Call(c, {"close"}, r)
       ELSE Put(c, conns[c], NoSeg) /\ upcall' = NoCall

FinWait1(c, seg, t, r) ==
    /\ Accepted(c, seg, "FIN_WAIT_1")
    /\ LET acked == Acks(conns[c], seg)
           a == AfterAck(conns[c], seg, t)
           k == [a EXCEPT !.rcv_nxt = Add32(a.rcv_nxt, seg.len)]
           f == [k EXCEPT !.rcv_nxt = Add32(k.rcv_nxt, 1)]
       IN IF "FIN" \in seg.flags
          THEN /\ Put(c, IF acked THEN [f EXCEPT !.st = "TIME_WAIT", !.timer = 0, !.len = 0]
                         ELSE [f EXCEPT !.st = "CLOSING"],
                      Send(f, {"ACK"}, 0))
               /\ Api!Call(c, {"close"}, r)
          ELSE /\ IF acked THEN Put(c, [k EXCEPT !.st = "FIN_WAIT_2", !.len = 0], NoSeg)
                  ELSE Put(c, k, IF seg.len > 0 THEN Send(k, {"ACK"}, 0) ELSE NoSeg)
               /\ upcall' = NoCall

FinWait2(c, seg, t, r) ==
    /\ Accepted(c, seg, "FIN_WAIT_2")
    /\ LET a == AfterAck(conns[c], seg, t)
           k == [a EXCEPT !.rcv_nxt = Add32(a.rcv_nxt, seg.len)]
           f == [k EXCEPT !.st = "TIME_WAIT", !.timer = 0, !.rcv_nxt = Add32(k.rcv_nxt, 1)]
       IN IF "FIN" \in seg.flags
          THEN Put(c, f, Send(f, {"ACK"}, 0)) /\ Api!Call(c, {"close"}, r)
          ELSE /\ Put(c, k, IF seg.len > 0 THEN Send(k, {"ACK"}, 0) ELSE NoSeg)
               /\ upcall' = NoCall

TimeWait(c, seg, t) ==
    /\ Accepted(c, seg, "TIME_WAIT")
    /\ LET k == AfterAck(conns[c], seg, t) IN Put(c, k, Send(k, {"ACK"}, 0))
    /\ upcall' = NoCall

Closing(c, seg, t) ==
    /\ Accepted(c, seg, "CLOSING")
    /\ IF Acks(conns[c], seg)
       THEN Put(c, [AfterAck(conns[c], seg, t) EXCEPT !.st = "TIME_WAIT", !.timer = 0], NoSeg)
       ELSE Put(c, conns[c], NoSeg)
    /\ upcall' = NoCall

\* uip_input on a TCP segment for port 80.
Input(seg, t, r) ==
    \/ NoConn(seg)
    \/ Listen(seg)
    \/ /\ Found(seg.port) # {}
       /\ LET c == Min(Found(seg.port)) IN
          \/ Reset(c, seg, r)
          \/ OutOfOrder(c, seg)
          \/ SynRcvd(c, seg, t, r)
          \/ EstablishedFin(c, seg, t, r)
          \/ Established(c, seg, t, r)
          \/ LastAck(c, seg, t, r)
          \/ FinWait1(c, seg, t, r)
          \/ FinWait2(c, seg, t, r)
          \/ TimeWait(c, seg, t)
          \/ Closing(c, seg, t)
       /\ UNCHANGED iss

-----------------------------------------------------------------------------
\* Mutant: FIN_WAIT_2 is left out of the test.
WaitTickTimeWait(c) ==
    /\ conns[c].st = "TIME_WAIT"
    /\ LET t == (conns[c].timer + 1) % TIMER_MOD
           st == IF t = UIP_TIME_WAIT_TIMEOUT THEN "CLOSED" ELSE conns[c].st
       IN Put(c, [conns[c] EXCEPT !.timer = t, !.st = st], NoSeg)
    /\ upcall' = NoCall

\* uip_process(UIP_TIMER) on a connection that only waits.
WaitTick(c) ==
    /\ conns[c].st \in {"TIME_WAIT", "FIN_WAIT_2"}
    /\ LET t == (conns[c].timer + 1) % TIMER_MOD
           st == IF t = UIP_TIME_WAIT_TIMEOUT THEN "CLOSED" ELSE conns[c].st
       IN Put(c, [conns[c] EXCEPT !.timer = t, !.st = st], NoSeg)
    /\ upcall' = NoCall

\* Something is in flight and not acknowledged.
InFlight(c) ==
    /\ conns[c].st \notin {"CLOSED", "TIME_WAIT", "FIN_WAIT_2"}
    /\ conns[c].len # 0

CountDown(c) ==
    /\ InFlight(c)
    /\ conns[c].timer # 0
    /\ Put(c, [conns[c] EXCEPT !.timer = @ - 1], NoSeg)
    /\ upcall' = NoCall

\* Mutants: only the SYN is limited; the SYN is not limited by itself.
TooManySyn(k) == k.st = "SYN_RCVD" /\ k.nrtx = UIP_MAXSYNRTX

TooManyData(k) == k.nrtx = UIP_MAXRTX

TooMany(k) == k.nrtx = UIP_MAXRTX \/ (k.st = "SYN_RCVD" /\ k.nrtx = UIP_MAXSYNRTX)

\* UIP_RTO << min(nrtx, 4)
Backoff(k) ==
    LET factor == CASE k.nrtx = 0 -> 1 [] k.nrtx = 1 -> 2 [] k.nrtx = 2 -> 4 [] k.nrtx = 3 -> 8
                    [] OTHER -> 16
    IN (UIP_RTO * factor) % TIMER_MOD

\* The decrement of a zero timer has wrapped when the connection is given up.
GiveUp(c, r) ==
    /\ InFlight(c)
    /\ conns[c].timer = 0
    /\ TooMany(conns[c])
    /\ Put(c, [conns[c] EXCEPT !.st = "CLOSED", !.timer = TIMER_MOD - 1],
           Send(conns[c], {"RST", "ACK"}, 0))
    /\ Api!Call(c, {"timedout"}, r)

\* Exponential backoff, and the retransmission the state asks for.  In
\* ESTABLISHED the application has to produce the data again; anything
\* else it does (uip_close, uip_abort) is not looked at.
Retransmit(c, r) ==
    /\ InFlight(c)
    /\ conns[c].timer = 0
    /\ ~TooMany(conns[c])
    /\ LET k == [conns[c] EXCEPT !.nrtx = @ + 1, !.timer = Backoff(conns[c])]
       IN IF k.st = "ESTABLISHED"
          THEN /\ Put(c, k, IF r.op = "send" THEN Send(k, {"ACK"}, k.len) ELSE NoSeg)
               /\ Api!Call(c, {"rexmit"}, r)
          ELSE /\ Put(c, k, Send(k, {IF k.st = "SYN_RCVD" THEN "SYN" ELSE "FIN", "ACK"}, 0))
               /\ upcall' = NoCall

PollApp(c, r) ==
    /\ conns[c].st = "ESTABLISHED" /\ conns[c].len = 0
    /\ AppSend(c, conns[c], {"poll"}, r)
    /\ Api!Call(c, {"poll"}, r)

\* uip_periodic(c).
Periodic(c, r) ==
    /\ \/ WaitTick(c)
       \/ CountDown(c)
       \/ GiveUp(c, r)
       \/ Retransmit(c, r)
       \/ PollApp(c, r)
       \/ conns[c].st = "CLOSED" /\ Put(c, conns[c], NoSeg) /\ upcall' = NoCall
    /\ iss' = Add32(iss, 1)

Next ==
    \/ \E seg \in Segment, t \in Rto, r \in Reply : Input(seg, t, r)
    \/ \E c \in Conns, r \in Reply : Periodic(c, r)

Spec == Init /\ [][Next]_vars

\* uip.h asks the caller to run uip_periodic for every connection again and
\* again; the liveness properties below hold for a caller that does.
FairSpec == Spec /\ \A c \in Conns : WF_vars(\E r \in Reply : Periodic(c, r))

-----------------------------------------------------------------------------
\* Every variable has its type; sequence numbers, timers and retransmission
\* counters stay in their ranges.
TypeOK ==
    /\ conns \in [Conns -> Conn]
    /\ iss \in SeqNo
    /\ out \in [port: Ports \cup {NoPort}, flags: SUBSET {"SYN", "ACK", "FIN", "RST"},
                seq: SeqNo, ackno: SeqNo, len: Nat]
    /\ upcall \in [conn: Conns \cup {0}, ev: SUBSET Api!Event, reply: Reply]

\* A remote end never occupies two slots, whatever segments it repeats and
\* whatever slots are recycled: otherwise the first one would shadow the
\* second for ever (the demultiplexing loop stops at the first hit).
OneSlotPerRemote ==
    \A c, d \in Conns :
        /\ conns[c].st # "CLOSED" /\ conns[d].st # "CLOSED"
        /\ conns[c].rport = conns[d].rport
        => c = d

\* A slot that is neither free nor in use by the application has a timer
\* running that ends it: its SYN or FIN counts as data in flight, or it is in
\* one of the two states that only wait.  And nothing is ever retransmitted
\* more often than the limit.
TimerArmed ==
    \A c \in Conns :
        /\ conns[c].st \in {"SYN_RCVD", "FIN_WAIT_1", "CLOSING", "LAST_ACK"} => conns[c].len = 1
        /\ conns[c].st = "SYN_RCVD" => conns[c].nrtx <= UIP_MAXSYNRTX

\* What the comment at found_listen promises: a slot in TIME_WAIT is taken only
\* when none is closed, and the one that has waited longest is taken; a slot
\* in any other state is never taken.
RecyclesOldest ==
    [][\A c \in Conns :
          conns[c].st # "SYN_RCVD" /\ conns'[c].st = "SYN_RCVD" =>
             \/ conns[c].st = "CLOSED"
             \/ /\ conns[c].st = "TIME_WAIT"
                /\ \A d \in Conns : /\ conns[d].st # "CLOSED"
                                    /\ conns[d].st = "TIME_WAIT" => conns[d].timer <= conns[c].timer]_vars

\* The application sees the events UipApi allows, in the order it allows, and
\* its idea of the data in flight is the stack's.
ImplementsApi == Api!ApiSpec

\* A slot that is opening or closing does not stay so: it becomes usable again
\* or the connection is established.
SlotsAreFreed ==
    \A c \in Conns :
        conns[c].st \in {"SYN_RCVD", "FIN_WAIT_1", "FIN_WAIT_2", "CLOSING", "LAST_ACK"}
            ~> conns[c].st \in {"CLOSED", "TIME_WAIT", "ESTABLISHED"}
=============================================================================
