------------------------------- MODULE UipApi -------------------------------
(***************************************************************************)
(* What uIP promises the application it calls (UIP_APPCALL): in which      *)
(* order the events of a connection are reported and how much data the     *)
(* application may believe to be in flight.  UipTcp implements this        *)
(* specification; Httpd, the application, is checked against it.           *)
(*                                                                         *)
(* A connection slot is "idle", "pending" (a handshake the application has *)
(* not heard of), "open", or "closing" (the application or the peer has    *)
(* closed; late events may still be reported).                             *)
(***************************************************************************)
EXTENDS Naturals

CONSTANTS
    UIP_CONNS,          \* number of connection slots
    MaxSend,            \* the most an application offers to send at once
    Mss                 \* values of uip_mss()

VARIABLES
    phase,              \* the phase of each slot
    outstanding,        \* uip_outstanding of an open connection, else 0
    mss,                \* uip_mss() of each slot
    upcall              \* the call of UIP_APPCALL made by the last step

apiVars == <<phase, outstanding, mss, upcall>>

Conns == 1..UIP_CONNS

Phase == {"idle", "pending", "open", "closing"}

\* uip_flags as the application sees them.
Event == {"connected", "newdata", "acked", "rexmit", "poll", "close", "abort", "timedout"}

\* What the application does before it returns: uip_send(n), uip_close(),
\* uip_abort() or nothing.
Reply == [op: {"none", "close", "abort"}, n: {0}] \cup [op: {"send"}, n: 1..MaxSend]

NoReply == [op |-> "none", n |-> 0]

NoCall == [conn |-> 0, ev |-> {}, reply |-> NoReply]

Call(c, ev, r) == upcall' = [conn |-> c, ev |-> ev, reply |-> r]

Moves(c, p, n) ==
    /\ phase' = [phase EXCEPT ![c] = p]
    /\ outstanding' = [outstanding EXCEPT ![c] = n]

\* The peer's window or its MSS option changes what may be sent at once.
NewMss(c) == \E m \in Mss : mss' = [mss EXCEPT ![c] = m]

ApiInit ==
    /\ phase = [c \in Conns |-> "idle"]
    /\ outstanding = [c \in Conns |-> 0]
    /\ mss = [c \in Conns |-> 0]
    /\ upcall = NoCall

\* A SYN takes a free slot, or one whose connection is only waiting to be
\* forgotten.
Accept(c) ==
    /\ phase[c] \in {"idle", "closing"}
    /\ Moves(c, "pending", 0)
    /\ NewMss(c)
    /\ upcall' = NoCall

\* A segment that only changes the window.
Window(c) ==
    /\ phase[c] = "open"
    /\ NewMss(c)
    /\ upcall' = NoCall
    /\ UNCHANGED <<phase, outstanding>>

\* A slot is freed without a word to the application.
Forget(c) ==
    /\ phase[c] = "closing"
    /\ Moves(c, "idle", 0)
    /\ upcall' = NoCall
    /\ UNCHANGED mss

\* What the reply to an event does to an open connection.  Data in flight
\* stays the same unless it was acknowledged or nothing was in flight; what is
\* sent is cropped to what the peer takes; an application that sends nothing
\* has nothing in flight any more.
Replied(c, ev, r) ==
    \/ r.op = "abort" /\ Moves(c, "idle", 0)
    \/ r.op = "close" /\ Moves(c, "closing", 0)
    \/ r.op = "none" /\ Moves(c, "open", 0)
    \/ /\ r.op = "send"
       /\ "acked" \in ev \/ outstanding[c] = 0
       /\ Moves(c, "open", IF r.n > mss'[c] THEN mss'[c] ELSE r.n)
    \/ /\ r.op = "send"
       /\ "acked" \notin ev /\ outstanding[c] # 0
       /\ Moves(c, "open", outstanding[c])

Connect(c, ev, r) ==
    /\ Call(c, ev, r)
    /\ phase[c] = "pending"
    /\ UNCHANGED mss
    /\ Replied(c, ev, r)

\* Data arrived, data in flight was acknowledged, or both.
Deliver(c, ev, r) ==
    /\ phase[c] = "open"
    /\ "acked" \in ev => outstanding[c] # 0
    /\ NewMss(c)
    /\ Call(c, ev, r)
    /\ Replied(c, ev, r)

\* An idle connection is polled.
Poll(c, r) ==
    /\ Call(c, {"poll"}, r)
    /\ phase[c] = "open" /\ outstanding[c] = 0
    /\ UNCHANGED mss
    /\ Replied(c, {"poll"}, r)

\* The application is to send again what is in flight; its answer changes
\* nothing.
Rexmit(c, r) ==
    /\ Call(c, {"rexmit"}, r)
    /\ phase[c] = "open" /\ outstanding[c] # 0
    /\ UNCHANGED <<phase, outstanding, mss>>

\* The peer closes: never while data is in flight.
PeerClose(c, ev, r) ==
    /\ Call(c, ev, r)
    /\ phase[c] = "open" /\ outstanding[c] = 0
    /\ Moves(c, "closing", 0)
    /\ UNCHANGED mss

\* A connection that is closing reports the end of the handshake.
CloseDone(c, r) ==
    /\ Call(c, {"close"}, r)
    /\ phase[c] = "closing"
    /\ \E p \in {"closing", "idle"} : Moves(c, p, 0)
    /\ UNCHANGED mss

\* A reset from the peer, or too many retransmissions.
Lost(c, ev, r) ==
    /\ Call(c, ev, r)
    /\ phase[c] # "idle"
    /\ Moves(c, "idle", 0)
    /\ UNCHANGED mss

Quiet == upcall' = NoCall /\ UNCHANGED <<phase, outstanding, mss>>

ApiNext ==
    \/ Quiet
    \/ \E c \in Conns : Accept(c) \/ Window(c) \/ Forget(c)
    \/ \E c \in Conns, r \in Reply :
          \/ \E ev \in {{"connected"}, {"connected", "newdata"}} : Connect(c, ev, r)
          \/ \E ev \in {{"newdata"}, {"acked"}, {"newdata", "acked"}} : Deliver(c, ev, r)
          \/ \E ev \in {{"close"}, {"close", "newdata"}} : PeerClose(c, ev, r)
          \/ \E ev \in {{"abort"}, {"timedout"}} : Lost(c, ev, r)
          \/ Poll(c, r)
          \/ Rexmit(c, r)
          \/ CloseDone(c, r)

ApiSpec == ApiInit /\ [][ApiNext]_apiVars
=============================================================================
