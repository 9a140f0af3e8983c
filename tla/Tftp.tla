-------------------------------- MODULE Tftp --------------------------------
(***************************************************************************)
(* The TFTP client (net/tftp.c): a file is loaded to memory ("get") or a   *)
(* piece of memory is saved on the server ("put").  The network may lose,  *)
(* delay, reorder and duplicate: msgs holds all that was ever sent.  The   *)
(* server is external; it follows RFC 1350, with or without options.       *)
(*                                                                         *)
(* A block is two units long; the last block has one unit or none.  The    *)
(* blocks of the file are numbered 1..Blocks, and memory is addressed in   *)
(* blocks: block b of the file belongs at place b - 1.  Of NetLoop there   *)
(* is what the handlers set and what it does about it; ARP and the choice  *)
(* of the device are in NetLoop.tla.                                       *)
(***************************************************************************)
EXTENDS Integers, Sequences

CONSTANTS
    Protocols,          \* "get", "put": what the user asks for
    Blocks, LastLen,    \* the file: number of blocks, units in the last one
    SeqMod,             \* TFTP_SEQUENCE_SIZE, 65536
    Tids,               \* ports of the server, one for each transfer
    MaxStarts,          \* bound on calls of TftpStart
    MaxBlock,           \* bound on TftpBlock, which every OACK of a put increments
    TIMEOUT_COUNT       \* timeouts before giving up

ASSUME TftpAssumption ==
    /\ Blocks \in Nat \ {0} /\ LastLen \in {0, 1}
    /\ SeqMod \in Nat \ {0} /\ MaxBlock \in Nat /\ MaxStarts \in Nat \ {0}
    /\ Tids \subseteq (1..1023) \ {69} /\ TIMEOUT_COUNT \in Nat
    /\ Protocols \subseteq {"get", "put"}

VARIABLES
    proto,
    TftpState, TftpBlock, TftpLastBlock, TftpBlockWrapOffset, TftpFinalBlock,
    TftpTimeoutCount, TftpRemotePort, TftpOurPort,
    NetBootFileXferSize,
    mem,                \* what was stored where: place -> block of the file
    listening,          \* udp_packet_handler is TftpHandler
    net_state,
    again,              \* NetStartAgain was called since TftpStart
    ret,                \* how NetLoop returned, "none" while it runs
    starts,
    msgs,               \* packets sent so far, to the server and to us
    srv                 \* the server's transfers

tftpVars == <<TftpState, TftpBlock, TftpLastBlock, TftpBlockWrapOffset, TftpFinalBlock,
              TftpTimeoutCount, TftpRemotePort, TftpOurPort>>
loopVars == <<listening, net_state, again, ret, starts>>
vars == <<proto, tftpVars, NetBootFileXferSize, mem, loopVars, msgs, srv>>

WELL_KNOWN_PORT == 69

\* TftpOurPort is 1024 + get_timer(0) % 3072: another one at every start.
OurPort(start) == 1024 + start

FileSize == 2 * (Blocks - 1) + LastLen

LenOf(b) == IF b = Blocks THEN LastLen ELSE 2

\* The block numbers of the file do not wrap.
ShortFile == Blocks + 1 < SeqMod /\ MaxBlock < SeqMod

\* Packets.  dst and src are UDP ports; the content of DATA is a block.
Request(op, dst, src) == [op |-> op, dst |-> dst, src |-> src]
Oack(tid, port) == [op |-> "OACK", dst |-> port, src |-> tid]
Error(code, tid, port) == [op |-> "ERROR", dst |-> port, src |-> tid, code |-> code]
Ack(n, dst, src) == [op |-> "ACK", dst |-> dst, src |-> src, blk |-> n]
Data(n, b, len, dst, src) ==
    [op |-> "DATA", dst |-> dst, src |-> src, blk |-> n, data |-> b, len |-> len]

\* A transfer of the server: what it does, our port, the blocks sent or
\* received, and the file written.
Transfer(mode, port, pos, file) ==
    [mode |-> mode, port |-> port, pos |-> pos, file |-> file]

NoTransfer == Transfer("off", 0, 0, << >>)

-----------------------------------------------------------------------------
\* load_block: what is sent of the block at place p.  Behind the end of the
\* file the unsigned difference is huge and a whole block is sent.
Loaded(p) == IF 2 * p > FileSize THEN 2
             ELSE IF FileSize - 2 * p < 2 THEN FileSize - 2 * p ELSE 2

\* Mutant: block n is loaded from place n.
TftpSendNextPlace(st, blk, off, remote, port) ==
    IF st = "SEND_RRQ" THEN Request("RRQ", remote, port)
    ELSE IF st = "SEND_WRQ" THEN Request("WRQ", remote, port)
    ELSE IF proto = "put" THEN Data(blk, blk + 1 + off, Loaded(blk + off), remote, port)
    ELSE Ack(blk, remote, port)

\* TftpSend in state st, with TftpBlock = blk and the wrap offset off.
TftpSend(st, blk, off, remote, port) ==
    IF st = "SEND_RRQ" THEN Request("RRQ", remote, port)
    ELSE IF st = "SEND_WRQ" THEN Request("WRQ", remote, port)
    ELSE IF proto = "put" THEN Data(blk, blk + off, Loaded(blk - 1 + off), remote, port)
    ELSE Ack(blk, remote, port)

\* TftpFinalBlock after that.
FinalAfter(st, blk, off) ==
    IF proto = "put" /\ st \notin {"SEND_RRQ", "SEND_WRQ"} THEN Loaded(blk - 1 + off) < 2
    ELSE TftpFinalBlock

\* Mutant: the port of the transfer before is used again.
TftpStartKeepsPort(port) ==
    /\ TftpState' = IF proto = "put" THEN "SEND_WRQ" ELSE "SEND_RRQ"
    /\ UNCHANGED <<TftpLastBlock, TftpBlockWrapOffset, TftpFinalBlock, TftpOurPort, TftpTimeoutCount>>
    /\ NetBootFileXferSize' = IF proto = "put" THEN FileSize ELSE 0
    /\ TftpRemotePort' = WELL_KNOWN_PORT
    /\ TftpBlock' = 0
    /\ listening' = TRUE
    /\ msgs' = msgs \cup {TftpSend(TftpState', 0, 0, WELL_KNOWN_PORT, TftpOurPort)}

\* TftpStart, and the zeroing of NetBootFileXferSize in NetLoop.
TftpStart(port) ==
    /\ TftpState' = IF proto = "put" THEN "SEND_WRQ" ELSE "SEND_RRQ"
    /\ IF proto = "put"
       THEN /\ TftpLastBlock' = 0 /\ TftpBlockWrapOffset' = 0 /\ TftpFinalBlock' = FALSE
            /\ NetBootFileXferSize' = FileSize
       ELSE /\ UNCHANGED <<TftpLastBlock, TftpBlockWrapOffset, TftpFinalBlock>>
            /\ NetBootFileXferSize' = 0
    /\ TftpTimeoutCount' = 0
    /\ TftpRemotePort' = WELL_KNOWN_PORT
    /\ TftpOurPort' = port
    /\ TftpBlock' = 0
    /\ listening' = TRUE
    /\ msgs' = msgs \cup {TftpSend(TftpState', 0, TftpBlockWrapOffset', WELL_KNOWN_PORT, port)}

\* NetLoop(proto) up to its packet loop.
Init ==
    /\ proto \in Protocols
    /\ TftpOurPort = OurPort(1)
    /\ TftpState = IF proto = "put" THEN "SEND_WRQ" ELSE "SEND_RRQ"
    /\ TftpBlock = 0 /\ TftpLastBlock = 0 /\ TftpBlockWrapOffset = 0
    /\ TftpFinalBlock = FALSE /\ TftpTimeoutCount = 0
    /\ TftpRemotePort = WELL_KNOWN_PORT
    /\ msgs = {TftpSend(TftpState, 0, 0, WELL_KNOWN_PORT, OurPort(1))}
    /\ NetBootFileXferSize = IF proto = "put" THEN FileSize ELSE 0
    /\ mem = << >>
    /\ listening = TRUE /\ net_state = "CONTINUE" /\ again = FALSE /\ ret = "none" /\ starts = 1
    /\ srv = [t \in Tids |-> NoTransfer]

\* NetStartAgain: no retry is left, another device is tried at once, or all
\* of them have been and TFTP stops listening for ten seconds.
NetStartAgain ==
    /\ again' = TRUE
    /\ \/ net_state' = "FAIL" /\ UNCHANGED listening
       \/ net_state' = "RESTART" /\ UNCHANGED listening
       \/ listening' = FALSE /\ UNCHANGED net_state

-----------------------------------------------------------------------------
\* The tests at the head of TftpHandler.
Accepts(m) ==
    /\ ret = "none" /\ listening
    /\ m.dst = TftpOurPort
    /\ TftpState \in {"SEND_RRQ", "SEND_WRQ"} \/ m.src = TftpRemotePort

\* An acknowledgement while writing.
ReceiveAck(m) ==
    /\ Accepts(m) /\ m.op = "ACK" /\ proto = "put"
    /\ IF TftpFinalBlock
       THEN /\ net_state' = "SUCCESS"
            /\ UNCHANGED <<tftpVars, msgs>>
       ELSE LET next == (m.blk + 1) % SeqMod
                off == IF next = 0 THEN TftpBlockWrapOffset + SeqMod ELSE TftpBlockWrapOffset
            IN /\ TftpBlock' = next
               /\ TftpBlockWrapOffset' = off
               /\ TftpTimeoutCount' = IF next = 0 THEN 0 ELSE TftpTimeoutCount
               /\ IF TftpBlock = m.blk
                  THEN /\ msgs' = msgs \cup {TftpSend(TftpState, next, off, TftpRemotePort, TftpOurPort)}
                       /\ TftpFinalBlock' = FinalAfter(TftpState, next, off)
                  ELSE UNCHANGED <<msgs, TftpFinalBlock>>
               /\ UNCHANGED <<TftpState, TftpLastBlock, TftpRemotePort, TftpOurPort, net_state>>
    /\ UNCHANGED <<proto, NetBootFileXferSize, mem, listening, again, ret, starts, srv>>

\* The block size an OACK agrees on is the one of the file.
ReceiveOack(m) ==
    /\ Accepts(m) /\ m.op = "OACK"
    /\ proto = "put" => TftpBlock < MaxBlock
    /\ TftpRemotePort' = m.src
    /\ LET st == IF proto = "put" THEN "DATA" ELSE "OACK"
           blk == IF proto = "put" THEN TftpBlock + 1 ELSE TftpBlock
       IN /\ TftpState' = st
          /\ TftpBlock' = blk
          /\ msgs' = msgs \cup {TftpSend(st, blk, TftpBlockWrapOffset, m.src, TftpOurPort)}
          /\ TftpFinalBlock' = FinalAfter(st, blk, TftpBlockWrapOffset)
    /\ UNCHANGED <<proto, TftpLastBlock, TftpBlockWrapOffset, TftpTimeoutCount, TftpOurPort,
                   NetBootFileXferSize, mem, loopVars, srv>>

FirstBlock == TftpState \in {"SEND_RRQ", "OACK"}

\* update_block_number
Wrapped(n) == IF n = 0 THEN TftpBlockWrapOffset + SeqMod ELSE TftpBlockWrapOffset

\* The first block is not block 1.
ReceiveFirstWrong(m) ==
    /\ Accepts(m) /\ m.op = "DATA"
    /\ FirstBlock /\ m.blk # 1
    /\ TftpBlock' = m.blk
    /\ TftpTimeoutCount' = IF m.blk = 0 THEN 0 ELSE TftpTimeoutCount
    /\ TftpState' = "DATA" /\ TftpRemotePort' = m.src
    /\ TftpLastBlock' = 0 /\ TftpBlockWrapOffset' = 0 /\ TftpFinalBlock' = FALSE
    /\ NetStartAgain
    /\ UNCHANGED <<proto, TftpOurPort, NetBootFileXferSize, mem, ret, starts, msgs, srv>>

\* "Same block again; ignore it."
ReceiveSame(m) ==
    /\ Accepts(m) /\ m.op = "DATA"
    /\ ~FirstBlock /\ m.blk = TftpLastBlock
    /\ TftpBlock' = m.blk
    /\ TftpBlockWrapOffset' = Wrapped(m.blk)
    /\ TftpTimeoutCount' = IF m.blk = 0 THEN 0 ELSE TftpTimeoutCount
    /\ UNCHANGED <<proto, TftpState, TftpLastBlock, TftpFinalBlock, TftpRemotePort, TftpOurPort,
                   NetBootFileXferSize, mem, loopVars, msgs, srv>>

\* Mutant: the lengths of the blocks are summed up.
SizeSummed(place, len) == NetBootFileXferSize + len

\* The size that store_block leaves: the farthest byte stored.
SizeAfter(place, len) ==
    IF NetBootFileXferSize < 2 * place + len THEN 2 * place + len ELSE NetBootFileXferSize

\* A block is stored and acknowledged; a short one ends the transfer.
ReceiveData(m) ==
    /\ Accepts(m) /\ m.op = "DATA"
    /\ IF FirstBlock THEN m.blk = 1 ELSE m.blk # TftpLastBlock
    /\ TftpBlock' = m.blk
    /\ TftpLastBlock' = m.blk
    /\ TftpState' = IF FirstBlock THEN "DATA" ELSE TftpState
    /\ TftpRemotePort' = IF FirstBlock THEN m.src ELSE TftpRemotePort
    /\ TftpTimeoutCount' = IF m.blk = 0 THEN 0 ELSE TftpTimeoutCount
    /\ LET off == IF FirstBlock THEN 0 ELSE Wrapped(m.blk)
           place == m.blk - 1 + off
       IN /\ TftpBlockWrapOffset' = off
          /\ mem' = [p \in DOMAIN mem \cup {place} |-> IF p = place THEN m.data ELSE mem[p]]
          /\ NetBootFileXferSize' = SizeAfter(place, m.len)
          /\ msgs' = msgs \cup {TftpSend(TftpState', m.blk, off, TftpRemotePort', TftpOurPort)}
          /\ TftpFinalBlock' = FinalAfter(TftpState', m.blk, off)
    /\ net_state' = IF m.len < 2 THEN "SUCCESS" ELSE net_state
    /\ UNCHANGED <<proto, TftpOurPort, listening, again, ret, starts, srv>>

\* File not found and access denied are final, other errors are not.
ReceiveError(m) ==
    /\ Accepts(m) /\ m.op = "ERROR"
    /\ IF m.code \in {1, 2} THEN net_state' = "FAIL" /\ UNCHANGED <<listening, again>>
       ELSE NetStartAgain
    /\ UNCHANGED <<proto, tftpVars, NetBootFileXferSize, mem, ret, starts, msgs, srv>>

\* icmp_handler, which stays installed: some port is unreachable.
IcmpPortUnreachable ==
    /\ ret = "none"
    /\ NetStartAgain
    /\ UNCHANGED <<proto, tftpVars, NetBootFileXferSize, mem, ret, starts, msgs, srv>>

-----------------------------------------------------------------------------
\* NetLoop looks at net_state when eth_rx has handled the packets at hand.
LoopRestart ==
    /\ ret = "none" /\ net_state = "RESTART"
    /\ starts < MaxStarts
    /\ TftpStart(OurPort(starts + 1))
    /\ net_state' = "CONTINUE" /\ again' = FALSE
    /\ starts' = starts + 1
    /\ UNCHANGED <<proto, mem, ret, srv>>

LoopReturn ==
    /\ ret = "none" /\ net_state \in {"SUCCESS", "FAIL"}
    /\ ret' = net_state
    /\ UNCHANGED <<proto, tftpVars, NetBootFileXferSize, mem, listening, net_state, again, starts, msgs, srv>>

\* NetLoop runs the timeout handler and returns, whatever that has done.
TftpTimeout ==
    /\ ret = "none"
    /\ ret' = "TIMEOUT"
    /\ IF ~listening
       THEN /\ net_state' = "RESTART"
            /\ UNCHANGED <<TftpTimeoutCount, TftpFinalBlock, listening, again, msgs>>
       ELSE /\ TftpTimeoutCount' = TftpTimeoutCount + 1
            /\ IF TftpTimeoutCount' > TIMEOUT_COUNT
               THEN NetStartAgain /\ UNCHANGED <<TftpFinalBlock, msgs>>
               ELSE /\ msgs' = msgs \cup {TftpSend(TftpState, TftpBlock, TftpBlockWrapOffset,
                                                   TftpRemotePort, TftpOurPort)}
                    /\ TftpFinalBlock' = FinalAfter(TftpState, TftpBlock, TftpBlockWrapOffset)
                    /\ UNCHANGED <<listening, net_state, again>>
    /\ UNCHANGED <<proto, TftpState, TftpBlock, TftpLastBlock, TftpBlockWrapOffset,
                   TftpRemotePort, TftpOurPort, NetBootFileXferSize, mem, starts, srv>>

-----------------------------------------------------------------------------
\* The server.  A transfer has sent, or received, pos blocks.
SrvSends(t, s) ==
    IF s.mode = "get" THEN Data(s.pos % SeqMod, s.pos, LenOf(s.pos), s.port, t)
    ELSE Ack(s.pos % SeqMod, s.port, t)

SrvStep(t, s, m) ==
    /\ srv' = [srv EXCEPT ![t] = s]
    /\ msgs' = msgs \cup {m}
    /\ UNCHANGED <<proto, tftpVars, NetBootFileXferSize, mem, loopVars>>

\* A request opens a transfer with a port of its own.  It is answered with
\* the options that are accepted, or with block 1 or ACK 0.
SrvRequest(t, m, opt) ==
    /\ m.op \in {"RRQ", "WRQ"} /\ m.dst = WELL_KNOWN_PORT
    /\ srv[t].mode = "off"
    /\ LET mode == IF m.op = "RRQ" THEN "get" ELSE "put"
           s == Transfer(mode, m.src, IF mode = "get" /\ ~opt THEN 1 ELSE 0, << >>)
       IN SrvStep(t, s, IF opt THEN Oack(t, m.src) ELSE SrvSends(t, s))

\* The next block is sent when the last one was acknowledged.
SrvAck(t, m) ==
    /\ m.op = "ACK" /\ m.dst = t /\ m.src = srv[t].port
    /\ srv[t].mode = "get" /\ srv[t].pos < Blocks
    /\ m.blk = srv[t].pos % SeqMod
    /\ LET s == Transfer("get", srv[t].port, srv[t].pos + 1, << >>)
       IN SrvStep(t, s, SrvSends(t, s))

\* The block that is expected is written to the file; a short one is the last.
SrvData(t, m) ==
    /\ m.op = "DATA" /\ m.dst = t /\ m.src = srv[t].port
    /\ srv[t].mode = "put"
    /\ m.blk = (srv[t].pos + 1) % SeqMod
    /\ LET s == Transfer(IF m.len < 2 THEN "done" ELSE "put", srv[t].port, srv[t].pos + 1,
                         Append(srv[t].file, m.data))
       IN SrvStep(t, s, SrvSends(t, s))

\* The server gives a transfer up.
SrvError(t, code) ==
    /\ srv[t].mode \in {"get", "put"}
    /\ SrvStep(t, Transfer("gone", srv[t].port, srv[t].pos, srv[t].file), Error(code, t, srv[t].port))

Receive(m) ==
    \/ ReceiveAck(m)
    \/ ReceiveOack(m)
    \/ ReceiveFirstWrong(m)
    \/ ReceiveSame(m)
    \/ ReceiveData(m)
    \/ ReceiveError(m)

Server ==
    \E t \in Tids :
        \/ \E m \in msgs : SrvAck(t, m) \/ SrvData(t, m) \/ \E opt \in BOOLEAN : SrvRequest(t, m, opt)
        \/ \E code \in {1, 4} : SrvError(t, code)

Next ==
    \/ \E m \in msgs : Receive(m)
    \/ IcmpPortUnreachable
    \/ LoopRestart
    \/ LoopReturn
    \/ TftpTimeout
    \/ Server

Spec == Init /\ [][Next]_vars

-----------------------------------------------------------------------------
\* Every variable has its type, the flags apart.
TypeOK ==
    /\ proto \in {"get", "put"}
    /\ TftpState \in {"SEND_RRQ", "SEND_WRQ", "OACK", "DATA"}
    /\ TftpBlock \in Nat /\ TftpLastBlock \in Nat /\ TftpBlockWrapOffset \in Nat
    /\ TftpTimeoutCount \in 0..TIMEOUT_COUNT+1
    /\ TftpRemotePort \in Tids \cup {WELL_KNOWN_PORT} /\ TftpOurPort = OurPort(starts)
    /\ NetBootFileXferSize \in Nat
    /\ net_state \in {"CONTINUE", "RESTART", "SUCCESS", "FAIL"}
    /\ ret \in {"none", "SUCCESS", "FAIL", "TIMEOUT"}
    /\ starts \in 1..MaxStarts

\* A get that NetLoop reports as done has loaded the file: every block of it,
\* each at its place, nothing else, and the size is the file's.  It holds
\* for files of less than SeqMod blocks, and unless a packet handled by the
\* same eth_rx as one that called NetStartAgain overrules the restart.
GetIntact ==
    proto = "get" /\ ret = "SUCCESS" /\ ~again =>
        /\ DOMAIN mem = 0..Blocks-1
        /\ \A p \in DOMAIN mem : mem[p] = p + 1
        /\ NetBootFileXferSize = FileSize

\* A file that the server has closed is the whole piece of memory, whatever
\* duplicates of its answers made the client repeat or skip.
PutFileWhole ==
    \A t \in Tids : srv[t].mode = "done" =>
        Len(srv[t].file) = Blocks /\ \A b \in 1..Blocks : srv[t].file[b] = b

\* A put that NetLoop reports as done has left the file on the server.
PutIntact ==
    proto = "put" /\ ret = "SUCCESS" => \E t \in Tids : srv[t].mode = "done"
=============================================================================
