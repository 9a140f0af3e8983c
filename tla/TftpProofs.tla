----------------------------- MODULE TftpProofs -----------------------------
(***************************************************************************)
(* Proofs about Tftp for files of any length below the wrap of the block   *)
(* numbers, any number of transfers of the server and any number of starts.*)
(*                                                                         *)
(* GetIntact speaks of the end of a transfer only.  What carries the       *)
(* induction is that an acknowledgement is a promise: the server goes on   *)
(* to block k when it holds acknowledgements of all blocks below k, and    *)
(* the client, unless it has called NetStartAgain, has stored all blocks   *)
(* up to the number of any acknowledgement it has sent from its port.      *)
(***************************************************************************)
EXTENDS Tftp, TLAPS

\* A packet to us comes from a transfer of the server, and the fields are
\* numbers.
Typed(m) ==
    /\ m.dst \in Nat /\ m.src \in Nat
    /\ m.dst > 1024 => m.src \in Tids
    /\ m.op \in {"RRQ", "WRQ"} => m.src > 1024
    /\ m.op = "ACK" => m.blk \in Nat
    /\ m.op = "DATA" => m.blk \in Nat /\ m.data \in Int /\ m.len \in 0..2

\* All packets are like that.
MsgTypes == \A m \in msgs : Typed(m)

\* The server answers to our ports.
Transfers == [mode : {"off", "get", "put", "gone", "done"}, port : Nat, pos : Nat,
             file : Seq(Int)]

SrvTypes ==
    /\ srv \in [Tids -> Transfers]
    /\ \A t \in Tids : srv[t].mode # "off" => srv[t].port > 1024

\* TypeOK with what it needs of the network: as NetLoop returns after every
\* timeout, none has been counted while it runs.
TypeInv ==
    /\ TypeOK /\ MsgTypes /\ SrvTypes
    /\ ret = "none" => TftpTimeoutCount = 0

\* The blocks 1..n of the file are in memory.
Stored(n, memory) == \A p \in 0..n-1 : p \in DOMAIN memory

\* Memory holds blocks of the file at their places.
MemGood ==
    /\ DOMAIN mem \subseteq 0..Blocks-1
    /\ \A p \in DOMAIN mem : mem[p] = p + 1
    /\ NetBootFileXferSize <= FileSize

\* What is under way while a file is loaded.
GetMsg(m, server, port) ==
    /\ m.op \in {"RRQ", "OACK", "ERROR", "ACK", "DATA"}
    /\ m.op \in {"RRQ", "ACK"} => m.src <= port
    /\ m.op = "DATA" => /\ m.src \in Tids
                        /\ m.data \in 1..Blocks /\ m.blk = m.data /\ m.len = LenOf(m.data)
                        /\ m.dst = server[m.src].port /\ m.data <= server[m.src].pos

GetMsgs == \A m \in msgs : GetMsg(m, srv, TftpOurPort)

\* A transfer of the server is at block pos because all before it were
\* acknowledged.
GetServer ==
    \A t \in Tids :
        /\ srv[t].mode \in {"off", "get", "gone"}
        /\ srv[t].pos <= Blocks /\ (srv[t].mode = "off" => srv[t].pos = 0)
        /\ \A j \in 1..srv[t].pos-1 :
              \E a \in msgs : a.op = "ACK" /\ a.src = srv[t].port /\ a.blk = j

\* An acknowledgement from the port in use is a promise.
AckIsPromise ==
    ~again => /\ \A m \in msgs : m.op = "ACK" /\ m.src = TftpOurPort => Stored(m.blk, mem)
              /\ Stored(TftpBlock, mem)
              /\ TftpState = "DATA" => Stored(TftpLastBlock, mem)
              /\ net_state = "SUCCESS" => Stored(Blocks, mem) /\ NetBootFileXferSize = FileSize

\* The inductive invariant of a get.
GetParts ==
    /\ TftpState # "SEND_WRQ" /\ TftpBlockWrapOffset = 0
    /\ MemGood /\ GetMsgs /\ GetServer /\ AckIsPromise
    /\ ret = "SUCCESS" => net_state = "SUCCESS"

GetInv == TypeInv /\ (proto = "get" => GetParts)

\* What is under way while a file is saved.
PutMsg(m) ==
    /\ m.op \in {"WRQ", "OACK", "ERROR", "ACK", "DATA"}
    /\ m.op = "ACK" => m.blk \in 0..Blocks
    /\ m.op = "DATA" => /\ m.dst < 1024
                        /\ m.blk \in 1..SeqMod-1 /\ m.data = m.blk /\ m.len = Loaded(m.blk - 1)

PutMsgs == \A m \in msgs : PutMsg(m)

\* A transfer holds the beginning of the file.
PutTransfer(s) ==
    /\ s \in Transfers
    /\ s.mode \in {"off", "put", "gone", "done"} /\ s.pos <= Blocks
    /\ Len(s.file) = s.pos /\ \A b \in 1..s.pos : s.file[b] = b
    /\ s.mode = "put" => s.pos < Blocks
    /\ s.mode = "done" => s.pos = Blocks

PutServer == \A t \in Tids : PutTransfer(srv[t])

\* The inductive invariant of a put.
PutParts ==
    /\ TftpState \in {"SEND_WRQ", "DATA"} /\ TftpBlockWrapOffset = 0
    /\ TftpBlock < SeqMod /\ (TftpState = "DATA" => TftpBlock > 0)
    /\ PutMsgs /\ PutServer

PutInv == TypeInv /\ (proto = "put" => PutParts)

-----------------------------------------------------------------------------
\* Below the modulus a number is its remainder.
LEMMA ModSmall ==
    ASSUME NEW x \in Nat, NEW m \in Nat, x < m
    PROVE  x % m = x
  OBVIOUS

\* TftpSend makes a packet for the server.
LEMMA TftpSendType ==
    ASSUME NEW st, NEW blk \in Nat, NEW off \in Nat,
           NEW remote \in Tids \cup {WELL_KNOWN_PORT}, NEW port \in Nat, port > 1024
    PROVE  LET m == TftpSend(st, blk, off, remote, port)
           IN  /\ m.dst = remote /\ m.src = port
               /\ m.op = "ACK" => m.blk = blk
               /\ m.op = "DATA" => m.blk = blk /\ m.data = blk + off /\ m.len \in 0..2
<1>1. Loaded(blk - 1 + off) \in 0..2
  BY TftpAssumption DEF Loaded, FileSize
<1>2. CASE st \in {"SEND_RRQ", "SEND_WRQ"}
  BY <1>2 DEF TftpSend, Request
<1>3. CASE st \notin {"SEND_RRQ", "SEND_WRQ"} /\ proto = "put"
  BY <1>1, <1>3 DEF TftpSend, Data
<1>4. CASE st \notin {"SEND_RRQ", "SEND_WRQ"} /\ proto # "put"
  BY <1>4 DEF TftpSend, Ack
<1> QED
  BY <1>2, <1>3, <1>4


\* One more packet.
LEMMA AddTyped ==
    ASSUME MsgTypes, NEW m, Typed(m), msgs' = msgs \cup {m}
    PROVE  MsgTypes'
  BY DEF MsgTypes

\* What we send is typed.
LEMMA SentTyped ==
    ASSUME NEW st, NEW blk \in Nat, NEW off \in Nat,
           NEW remote \in Tids \cup {WELL_KNOWN_PORT}, NEW port \in Nat, port > 1024
    PROVE  Typed(TftpSend(st, blk, off, remote, port))
<1> DEFINE m == TftpSend(st, blk, off, remote, port)
<1>1. /\ m.dst = remote /\ m.src = port
      /\ m.op = "ACK" => m.blk = blk
      /\ m.op = "DATA" => m.blk = blk /\ m.data = blk + off /\ m.len \in 0..2
  BY TftpSendType
<1>2. remote \in Nat /\ remote < 1024
  BY TftpAssumption DEF WELL_KNOWN_PORT
<1> HIDE DEF m
<1>3. Typed(m)
  BY <1>1, <1>2 DEF Typed
<1> QED
  BY <1>3 DEF m

\* What the server sends is typed.
LEMMA SrvSendsTyped ==
    ASSUME NEW t \in Tids, NEW s \in Transfers
    PROVE  Typed(SrvSends(t, s))
<1>1. s.pos % SeqMod \in Nat /\ LenOf(s.pos) \in 0..2 /\ t \in Nat
      /\ s.port \in Nat /\ s.pos \in Int
  BY TftpAssumption, SMTT(30) DEF LenOf, Transfers
<1>3. Typed(Data(s.pos % SeqMod, s.pos, LenOf(s.pos), s.port, t))
  BY <1>1 DEF Typed, Data
<1>4. Typed(Ack(s.pos % SeqMod, s.port, t))
  BY <1>1 DEF Typed, Ack
<1> QED
  BY <1>3, <1>4, Zenon DEF SrvSends

\* NetStartAgain sets a state of NetLoop.
LEMMA NetStartAgainType ==
    ASSUME TypeOK, NetStartAgain
    PROVE  net_state' \in {"CONTINUE", "RESTART", "SUCCESS", "FAIL"}
  BY DEF TypeOK, NetStartAgain

\* Every step keeps the types.
LEMMA TypeStep ==
    ASSUME TypeInv, [Next]_vars
    PROVE  TypeInv'
<1>0. TftpOurPort \in Nat /\ TftpOurPort > 1024 /\ TftpBlock \in Nat /\ TftpBlockWrapOffset \in Nat
      /\ TftpRemotePort \in Tids \cup {WELL_KNOWN_PORT}
      /\ TypeOK
  BY DEF TypeInv, TypeOK, OurPort
<1>1. ASSUME NEW m \in msgs, ReceiveAck(m) PROVE TypeInv'
  <2> DEFINE next == (m.blk + 1) % SeqMod
             off == Wrapped(next)
  <2>1. m.blk \in Nat /\ m.dst = TftpOurPort
    BY <1>1 DEF ReceiveAck, Accepts, TypeInv, MsgTypes, Typed
  <2>2. next \in Nat /\ off \in Nat
    BY TftpAssumption, <1>0, <2>1, SMTT(30) DEF Wrapped
  <2>3. Typed(TftpSend(TftpState, next, off, TftpRemotePort, TftpOurPort))
    BY <1>0, <2>2, SentTyped
  <2>4. MsgTypes'
    BY <1>1, <2>3, AddTyped, Zenon DEF ReceiveAck, TypeInv, MsgTypes, Wrapped
  <2>6. TypeOK'
    BY TftpAssumption, <1>1, <1>0, <2>2, SMTT(30) DEF ReceiveAck, TypeOK, tftpVars, Wrapped
  <2> QED
    BY <1>1, <2>4, <2>6 DEF ReceiveAck, TypeInv, TypeOK, SrvTypes, tftpVars
<1>2. ASSUME NEW m \in msgs, ReceiveOack(m) PROVE TypeInv'
  <2> DEFINE state == IF proto = "put" THEN "DATA" ELSE "OACK"
             next == IF proto = "put" THEN TftpBlock + 1 ELSE TftpBlock
  <2>1. m.src \in Tids /\ next \in Nat
    BY <1>0, <1>2 DEF ReceiveOack, Accepts, TypeInv, MsgTypes, Typed
  <2>4. msgs' = msgs \cup {TftpSend(state, next, TftpBlockWrapOffset, m.src, TftpOurPort)}
    BY <1>2, Zenon DEF ReceiveOack
  <2> HIDE DEF state, next
  <2>2. Typed(TftpSend(state, next, TftpBlockWrapOffset, m.src, TftpOurPort))
    BY <1>0, <2>1, SentTyped
  <2>3. MsgTypes'
    BY <2>2, <2>4, AddTyped DEF TypeInv
  <2>5. TypeOK'
    BY <1>0, <1>2, <2>1 DEF ReceiveOack, TypeOK, loopVars
  <2> QED
    BY <1>2, <2>3, <2>5 DEF ReceiveOack, TypeInv, TypeOK, SrvTypes, loopVars
<1>3. ASSUME NEW m \in msgs, ReceiveFirstWrong(m) \/ ReceiveSame(m) PROVE TypeInv'
  <2>1. m.src \in Tids /\ m.blk \in Nat
    BY <1>0, <1>3 DEF ReceiveFirstWrong, ReceiveSame, Accepts, TypeInv, MsgTypes, Typed
  <2>3. net_state' \in {"CONTINUE", "RESTART", "SUCCESS", "FAIL"}
    BY <1>0, <1>3, NetStartAgainType DEF ReceiveFirstWrong, ReceiveSame, TypeOK, loopVars
  <2>4. TypeOK'
    BY TftpAssumption, <1>0, <1>3, <2>1, <2>3, SMTT(30) DEF ReceiveFirstWrong, ReceiveSame, TypeOK, loopVars,
       Wrapped
  <2> QED
    BY <1>3, <2>4 DEF ReceiveFirstWrong, ReceiveSame, TypeInv, TypeOK, MsgTypes, SrvTypes, loopVars
<1>4. ASSUME NEW m \in msgs, ReceiveData(m) PROVE TypeInv'
  <2> DEFINE off == IF FirstBlock THEN 0 ELSE Wrapped(m.blk)
             place == m.blk - 1 + off
  <2>1. m.src \in Tids /\ m.blk \in Nat /\ m.len \in 0..2
    BY <1>0, <1>4, SMTT(30) DEF ReceiveData, Accepts, TypeInv, MsgTypes, Typed
  <2>2. off \in Nat /\ place \in Nat
    BY TftpAssumption, <1>0, <1>4, <2>1, SMTT(30) DEF ReceiveData, Wrapped
  <2>3. TftpState' \in {"SEND_RRQ", "SEND_WRQ", "OACK", "DATA"}
        /\ TftpRemotePort' \in Tids \cup {WELL_KNOWN_PORT}
    BY <1>0, <1>4, <2>1 DEF ReceiveData, TypeOK
  <2>4. Typed(TftpSend(TftpState', m.blk, off, TftpRemotePort', TftpOurPort))
    BY <1>0, <2>1, <2>2, <2>3, SentTyped
  <2>5. MsgTypes'
    BY <1>4, <2>4, AddTyped, Zenon DEF ReceiveData, TypeInv
  <2>6. NetBootFileXferSize' \in Nat
    <3>1. NetBootFileXferSize' = IF NetBootFileXferSize < 2 * place + m.len
                                 THEN 2 * place + m.len ELSE NetBootFileXferSize
      BY <1>4, Zenon DEF ReceiveData, SizeAfter
    <3> HIDE DEF place
    <3> QED
      BY <1>0, <2>1, <2>2, <3>1 DEF TypeOK
  <2>8. TypeOK'
    BY TftpAssumption, <1>0, <1>4, <2>1, <2>2, <2>3, <2>6, SMTT(60) DEF ReceiveData, TypeOK
  <2> QED
    BY <1>4, <2>5, <2>8 DEF ReceiveData, TypeInv, TypeOK, SrvTypes
<1>5. ASSUME (\E m \in msgs : ReceiveError(m)) \/ IcmpPortUnreachable \/ LoopReturn PROVE TypeInv'
  <2>2. net_state' \in {"CONTINUE", "RESTART", "SUCCESS", "FAIL"}
    BY <1>0, <1>5, NetStartAgainType DEF ReceiveError, IcmpPortUnreachable, LoopReturn, TypeOK
  <2>3. TypeOK'
    BY <1>0, <1>5, <2>2 DEF ReceiveError, IcmpPortUnreachable, LoopReturn, TypeOK, tftpVars
  <2> QED
    BY <1>5, <2>3 DEF ReceiveError, IcmpPortUnreachable, LoopReturn, TypeInv, TypeOK, MsgTypes, SrvTypes,
       tftpVars
<1>6. ASSUME LoopRestart PROVE TypeInv'
  <2> DEFINE m == TftpSend(TftpState', 0, TftpBlockWrapOffset', WELL_KNOWN_PORT, OurPort(starts + 1))
  <2>1. starts + 1 \in 1..MaxStarts /\ OurPort(starts + 1) \in Nat /\ OurPort(starts + 1) > 1024
    BY TftpAssumption, <1>0, <1>6 DEF LoopRestart, TypeOK, OurPort
  <2>3. TypeOK'
    BY TftpAssumption, <1>0, <1>6, <2>1, SMTT(30) DEF LoopRestart, TftpStart, TypeOK, FileSize
  <2>6. Typed(m)
    <3>1. TftpBlockWrapOffset' \in Nat
      BY <2>3 DEF TypeOK
    <3> QED
      BY <2>1, <3>1, SentTyped
  <2>4. msgs' = msgs \cup {m}
    BY <1>6, Zenon DEF LoopRestart, TftpStart
  <2> HIDE DEF m
  <2>5. MsgTypes'
    BY <2>6, <2>4, AddTyped DEF TypeInv
  <2> QED
    BY <1>6, <2>3, <2>5 DEF LoopRestart, TftpStart, TypeInv, TypeOK, SrvTypes
<1>7. ASSUME TftpTimeout PROVE TypeInv'
  <2>1. Typed(TftpSend(TftpState, TftpBlock, TftpBlockWrapOffset, TftpRemotePort, TftpOurPort))
    BY <1>0, SentTyped
  <2>2. MsgTypes'
    BY <1>7, <2>1, AddTyped, Zenon DEF TftpTimeout, TypeInv, MsgTypes
  <2>4. net_state' \in {"CONTINUE", "RESTART", "SUCCESS", "FAIL"}
    BY <1>0, <1>7, NetStartAgainType DEF TftpTimeout, TypeOK
  <2>5. TypeOK'
    BY TftpAssumption, <1>0, <1>7, <2>4, SMTT(30) DEF TftpTimeout, TypeInv, TypeOK
  <2> QED
    BY <1>7, <2>2, <2>5 DEF TftpTimeout, TypeInv, TypeOK, SrvTypes
<1>8. ASSUME NEW t \in Tids, NEW s \in Transfers, NEW m, Typed(m), SrvStep(t, s, m),
             s.port > 1024
      PROVE  TypeInv'
  <2>2. MsgTypes'
    BY <1>8, AddTyped DEF SrvStep, TypeInv
  <2>3. TypeOK' /\ (ret' = "none" => TftpTimeoutCount' = 0)
    BY <1>8 DEF SrvStep, TypeInv, TypeOK, tftpVars, loopVars
  <2>4. SrvTypes'
    BY <1>8 DEF SrvStep, TypeInv, SrvTypes
  <2> QED
    BY <2>2, <2>3, <2>4 DEF TypeInv
<1>9. ASSUME Server PROVE TypeInv'
  <2>1. SrvTypes
    BY DEF TypeInv
  <2>2. ASSUME NEW t \in Tids, NEW m \in msgs, NEW opt \in BOOLEAN, SrvRequest(t, m, opt) PROVE TypeInv'
    <3> DEFINE mode == IF m.op = "RRQ" THEN "get" ELSE "put"
               s == Transfer(mode, m.src, IF mode = "get" /\ ~opt THEN 1 ELSE 0, << >>)
               ans == IF opt THEN Oack(t, m.src) ELSE SrvSends(t, s)
    <3>1. m.src \in Nat /\ m.src > 1024
      BY <2>2 DEF SrvRequest, TypeInv, MsgTypes, Typed
    <3>2. s \in Transfers /\ s.port > 1024
      BY <3>1 DEF Transfer, Transfers
    <3>3. SrvStep(t, s, ans)
      BY <2>2, Zenon DEF SrvRequest
    <3>4. Typed(Oack(t, m.src))
      <4>1. t \in Nat
        BY TftpAssumption
      <4> QED
        BY <3>1, <4>1 DEF Typed, Oack
    <3> HIDE DEF s
    <3>5. Typed(ans)
      BY <3>2, <3>4, SrvSendsTyped
    <3> HIDE DEF ans
    <3> QED
      BY <1>8, <3>2, <3>3, <3>5
  <2>3. ASSUME NEW t \in Tids, NEW m \in msgs, SrvAck(t, m) PROVE TypeInv'
    <3> DEFINE s == Transfer("get", srv[t].port, srv[t].pos + 1, << >>)
    <3>0. srv[t] \in Transfers /\ srv[t].port > 1024
      BY <2>1, <2>3 DEF SrvAck, SrvTypes
    <3>1. s \in Transfers /\ s.port > 1024
      BY <3>0 DEF Transfer, Transfers
    <3>2. SrvStep(t, s, SrvSends(t, s))
      BY <2>3, Zenon DEF SrvAck
    <3> HIDE DEF s
    <3> QED
      BY <1>8, SrvSendsTyped, <3>1, <3>2
  <2>4. ASSUME NEW t \in Tids, NEW m \in msgs, SrvData(t, m) PROVE TypeInv'
    <3> DEFINE s == Transfer(IF m.len < 2 THEN "done" ELSE "put", srv[t].port, srv[t].pos + 1,
                             Append(srv[t].file, m.data))
    <3>1. m.data \in Int
      BY <2>4 DEF SrvData, TypeInv, MsgTypes, Typed
    <3>0. srv[t] \in Transfers /\ srv[t].port > 1024
      BY <2>1, <2>4 DEF SrvData, SrvTypes
    <3>2. s \in Transfers /\ s.port > 1024
      BY <3>0, <3>1 DEF Transfer, Transfers
    <3>3. SrvStep(t, s, SrvSends(t, s))
      BY <2>4, Zenon DEF SrvData
    <3> HIDE DEF s
    <3> QED
      BY <1>8, SrvSendsTyped, <3>2, <3>3
  <2>5. ASSUME NEW t \in Tids, NEW code \in {1, 4}, SrvError(t, code) PROVE TypeInv'
    <3> DEFINE s == Transfer("gone", srv[t].port, srv[t].pos, srv[t].file)
    <3>0. srv[t] \in Transfers /\ srv[t].port > 1024
      BY <2>1, <2>5 DEF SrvError, SrvTypes
    <3>1. Typed(Error(code, t, srv[t].port))
      <4>1. srv[t].port \in Nat
        BY <3>0, Zenon DEF Transfers
      <4>2. t \in Nat
        BY TftpAssumption
      <4> QED
        BY <4>1, <4>2 DEF Typed, Error
    <3>2. s \in Transfers /\ s.port > 1024
      BY <3>0 DEF Transfer, Transfers
    <3>3. SrvStep(t, s, Error(code, t, srv[t].port))
      BY <2>5, Zenon DEF SrvError
    <3> HIDE DEF s
    <3> QED
      BY <1>8, <3>1, <3>2, <3>3
  <2> QED
    BY <1>9, <2>2, <2>3, <2>4, <2>5 DEF Server
<1>10. ASSUME UNCHANGED vars PROVE TypeInv'
  BY <1>10 DEF vars, tftpVars, loopVars, TypeInv, TypeOK, MsgTypes, SrvTypes
<1> QED
  BY <1>1, <1>2, <1>3, <1>4, <1>5, <1>6, <1>7, <1>9, <1>10, Zenon DEF Next, Receive

\* The types hold at the start.
LEMMA TypeInit == Init => TypeInv
<1> SUFFICES ASSUME Init PROVE TypeInv
  OBVIOUS
<1>1. TypeOK
  BY TftpAssumption DEF Init, TypeOK, OurPort, FileSize
<1>2. MsgTypes
  <2>1. OurPort(1) \in Nat /\ OurPort(1) > 1024
    BY DEF OurPort
  <2>2. Typed(TftpSend(TftpState, 0, 0, WELL_KNOWN_PORT, OurPort(1)))
    BY <2>1, SentTyped
  <2> QED
    BY <2>2, Zenon DEF Init, MsgTypes
<1>3. SrvTypes
  <2>1. NoTransfer \in Transfers /\ NoTransfer.mode = "off"
    BY DEF NoTransfer, Transfer, Transfers
  <2> QED
    BY <2>1 DEF Init, SrvTypes
<1> QED
  BY <1>1, <1>2, <1>3 DEF Init, TypeInv

\* Every variable of the TFTP client keeps its type, for every file, server
\* and number of starts.
THEOREM TypeCorrect == Spec => []TypeOK
<1>1. TypeInv /\ [Next]_vars => TypeInv'
  BY TypeStep
<1>2. TypeInv => TypeOK
  BY DEF TypeInv
<1> QED
  BY TypeInit, <1>1, <1>2, PTL DEF Spec

-----------------------------------------------------------------------------
\* What the client of a get sends.
LEMMA GetSent ==
    ASSUME proto = "get", NEW st, st # "SEND_WRQ", NEW blk \in Nat, NEW off \in Nat,
           NEW remote, NEW port
    PROVE  LET m == TftpSend(st, blk, off, remote, port)
           IN  /\ m.op \in {"RRQ", "ACK"} /\ m.src = port
               /\ m.op = "ACK" => m.blk = blk
  BY Zenon DEF TftpSend, Request, Ack

\* A packet of ours keeps the network as GetMsgs wants it.
LEMMA GetAdd ==
    ASSUME TypeInv, GetMsgs, srv' = srv, TftpOurPort' = TftpOurPort,
           NEW m, m.op \in {"RRQ", "ACK"}, m.src = TftpOurPort, msgs' = msgs \cup {m}
    PROVE  GetMsgs'
<1>1. TftpOurPort \in Nat
  BY DEF TypeInv, TypeOK, OurPort
<1>2. GetMsg(m, srv, TftpOurPort)
  BY <1>1 DEF GetMsg
<1> QED
  BY <1>2 DEF GetMsgs

\* An acknowledgement that is sent stays sent.
LEMMA GetServerKept ==
    ASSUME GetServer, srv' = srv, msgs \subseteq msgs'
    PROVE  GetServer'
  BY DEF GetServer

\* A block at hand: all blocks before it have been stored.
LEMMA BeforeIsStored ==
    ASSUME TypeInv, GetMsgs, GetServer, AckIsPromise, ~again,
           NEW m \in msgs, m.op = "DATA", m.dst = TftpOurPort
    PROVE  m.blk \in 1..Blocks /\ Stored(m.blk - 1, mem)
<1>1. /\ m.src \in Tids /\ m.data \in 1..Blocks /\ m.blk = m.data
      /\ m.dst = srv[m.src].port /\ m.data <= srv[m.src].pos
  BY Zenon DEF GetMsgs, GetMsg
<1>2. srv[m.src].pos \in Nat /\ Blocks \in Nat
  <2>1. srv[m.src] \in Transfers
    BY <1>1 DEF TypeInv, SrvTypes
  <2> QED
    BY <2>1, TftpAssumption DEF Transfers
<1>3. CASE m.blk = 1
  BY <1>1, <1>3 DEF Stored
<1>4. CASE m.blk # 1
  <2>1. m.blk - 1 \in 1..srv[m.src].pos-1
    BY <1>1, <1>2, <1>4
  <2>2. PICK a \in msgs : a.op = "ACK" /\ a.src = srv[m.src].port /\ a.blk = m.blk - 1
    BY <1>1, <2>1, Zenon DEF GetServer
  <2>3. Stored(a.blk, mem)
    BY <1>1, <2>2, Zenon DEF AckIsPromise
  <2> QED
    BY <1>1, <2>2, <2>3, Zenon
<1> QED
  BY <1>3, <1>4

\* Storing block b of the file at its place.
LEMMA StoreBlock ==
    ASSUME MemGood, NetBootFileXferSize \in Nat, NEW b \in 1..Blocks, NEW len, len = LenOf(b),
           mem' = [p \in DOMAIN mem \cup {b - 1} |-> IF p = b - 1 THEN b ELSE mem[p]],
           NetBootFileXferSize' = IF NetBootFileXferSize < 2 * (b - 1) + len
                                  THEN 2 * (b - 1) + len ELSE NetBootFileXferSize
    PROVE  /\ MemGood'
           /\ \A n \in Nat : Stored(n, mem) => Stored(n, mem')
           /\ Stored(b - 1, mem) => Stored(b, mem')
           /\ len < 2 => b = Blocks /\ NetBootFileXferSize' = FileSize
<1>1. DOMAIN mem' = DOMAIN mem \cup {b - 1}
  OBVIOUS
<1>2. 2 * (b - 1) + len <= FileSize /\ (len < 2 => b = Blocks /\ 2 * (b - 1) + len = FileSize)
      /\ FileSize \in Nat /\ len \in Nat
  BY TftpAssumption DEF FileSize, LenOf
<1>3. MemGood'
  <2>1. DOMAIN mem' \subseteq 0..Blocks-1
    BY <1>1, TftpAssumption DEF MemGood
  <2>2. \A p \in DOMAIN mem' : mem'[p] = p + 1
    BY <1>1 DEF MemGood
  <2>3. NetBootFileXferSize' <= FileSize
    BY <1>2, Zenon DEF MemGood
  <2> QED
    BY <2>1, <2>2, <2>3, Zenon DEF MemGood
<1>4. \A n \in Nat : Stored(n, mem) => Stored(n, mem')
  BY <1>1 DEF Stored
<1>5. Stored(b - 1, mem) => Stored(b, mem')
  BY <1>1 DEF Stored
<1>6. len < 2 => b = Blocks /\ NetBootFileXferSize' = FileSize
  BY <1>2 DEF MemGood
<1> QED
  BY <1>3, <1>4, <1>5, <1>6, Zenon

\* Receiving a block.
LEMMA GetReceiveData ==
    ASSUME TypeInv, GetParts, proto = "get", NEW m \in msgs, ReceiveData(m)
    PROVE  GetParts'
<1>1. m.op = "DATA" /\ m.dst = TftpOurPort /\ ret = "none"
  BY Zenon DEF ReceiveData, Accepts
<1>2. m.data \in 1..Blocks /\ m.blk = m.data /\ m.len = LenOf(m.data)
  BY <1>1, Zenon DEF GetParts, GetMsgs, GetMsg
<1>3. TftpBlock \in Nat /\ TftpLastBlock \in Nat /\ NetBootFileXferSize \in Nat /\ Blocks \in Nat
  BY TftpAssumption DEF TypeInv, TypeOK
<1>4. /\ TftpBlockWrapOffset' = 0
      /\ mem' = [p \in DOMAIN mem \cup {m.blk - 1} |-> IF p = m.blk - 1 THEN m.data ELSE mem[p]]
      /\ NetBootFileXferSize' = IF NetBootFileXferSize < 2 * (m.blk - 1) + m.len
                                THEN 2 * (m.blk - 1) + m.len ELSE NetBootFileXferSize
      /\ msgs' = msgs \cup {TftpSend(TftpState', m.blk, 0, TftpRemotePort', TftpOurPort)}
  <2>1. (IF FirstBlock THEN 0 ELSE Wrapped(m.blk)) = 0
    BY <1>2, TftpAssumption DEF Wrapped, GetParts
  <2>2. m.blk - 1 + 0 = m.blk - 1
    BY <1>2
  <2> QED
    BY <2>1, <2>2, Zenon DEF ReceiveData, SizeAfter
<1>5. /\ MemGood'
      /\ \A n \in Nat : Stored(n, mem) => Stored(n, mem')
      /\ Stored(m.blk - 1, mem) => Stored(m.blk, mem')
      /\ m.len < 2 => m.blk = Blocks /\ NetBootFileXferSize' = FileSize
  <2> DEFINE b == m.data
             len == m.len
  <2>1. m.blk = b
    BY <1>2
  <2> HIDE DEF b, len
  <2> QED
    BY <1>2, <1>3, <1>4, <2>1, StoreBlock, Zenon DEF GetParts, b, len
<1> DEFINE a == TftpSend(TftpState', m.blk, 0, TftpRemotePort', TftpOurPort)
<1>6. TftpState' # "SEND_WRQ"
  BY Zenon DEF ReceiveData, GetParts
<1>7. a.op \in {"RRQ", "ACK"} /\ a.src = TftpOurPort /\ (a.op = "ACK" => a.blk = m.blk)
  <2>1. m.blk \in Nat
    BY <1>2, TftpAssumption
  <2> QED
    BY <1>6, <2>1, GetSent
<1>8. msgs' = msgs \cup {a}
  BY <1>4, Zenon
<1> HIDE DEF a
<1>9. GetMsgs' /\ GetServer'
  BY <1>7, <1>8, GetAdd, GetServerKept DEF ReceiveData, GetParts
<1>10. AckIsPromise'
  <2> SUFFICES ASSUME ~again PROVE AckIsPromise'
    BY Zenon DEF AckIsPromise, ReceiveData
  <2>1. Stored(m.blk, mem')
    BY <1>1, <1>5, BeforeIsStored, Zenon DEF GetParts
  <2>2. TftpBlock' = m.blk /\ TftpLastBlock' = m.blk /\ TftpOurPort' = TftpOurPort
    BY Zenon DEF ReceiveData
  <2>3. ASSUME NEW k \in msgs', k.op = "ACK", k.src = TftpOurPort PROVE Stored(k.blk, mem')
    <3>1. CASE k = a
      BY <1>7, <2>1, <2>3, <3>1
    <3>2. CASE k \in msgs
      <4>1. k.blk \in Nat /\ Stored(k.blk, mem)
        BY <2>3, <3>2 DEF TypeInv, MsgTypes, Typed, GetParts, AckIsPromise
      <4> QED
        BY <1>5, <4>1
    <3> QED
      BY <1>8, <3>1, <3>2
  <2>4. net_state' = "SUCCESS" => Stored(Blocks, mem') /\ NetBootFileXferSize' = FileSize
    <3>1. CASE m.len < 2
      BY <1>5, <2>1, <3>1
    <3>2. CASE ~(m.len < 2) /\ net_state = "SUCCESS"
      <4>1. Stored(Blocks, mem) /\ NetBootFileXferSize = FileSize
        BY <3>2, Zenon DEF GetParts, AckIsPromise
      <4>2. FileSize \in Nat
        BY TftpAssumption DEF FileSize
      <4> DEFINE end == 2 * (m.blk - 1) + m.len
      <4>3. end <= FileSize /\ end \in Int
        BY <1>2, TftpAssumption, SMTT(30) DEF LenOf, FileSize
      <4>4. NetBootFileXferSize' = IF FileSize < end THEN end ELSE FileSize
        BY <1>4, <4>1, Zenon
      <4> HIDE DEF end
      <4>5. NetBootFileXferSize' = FileSize
        BY <4>2, <4>3, <4>4
      <4> QED
        BY <1>3, <1>5, <4>1, <4>5
    <3>3. CASE ~(m.len < 2) /\ net_state # "SUCCESS"
      BY <3>3, Zenon DEF ReceiveData
    <3> QED
      BY <3>1, <3>2, <3>3
  <2> QED
    BY <2>1, <2>2, <2>3, <2>4, Zenon DEF AckIsPromise
<1> QED
  BY <1>1, <1>4, <1>5, <1>6, <1>9, <1>10, Zenon DEF GetParts, ReceiveData

\* The other packets, and NetLoop.
LEMMA GetOthers ==
    ASSUME ShortFile, TypeInv, TypeInv', GetParts, proto = "get",
           \/ \E m \in msgs : ReceiveAck(m) \/ ReceiveOack(m) \/ ReceiveFirstWrong(m)
                              \/ ReceiveSame(m) \/ ReceiveError(m)
           \/ IcmpPortUnreachable \/ LoopRestart \/ LoopReturn \/ TftpTimeout
    PROVE  GetParts'
<1>0. TftpBlock \in Nat /\ TftpOurPort \in Nat /\ TftpState # "SEND_WRQ" /\ TftpBlockWrapOffset = 0
  BY DEF TypeInv, TypeOK, OurPort, GetParts
<1>1. ASSUME NEW m \in msgs, ReceiveAck(m) PROVE GetParts'
  BY <1>1, Zenon DEF ReceiveAck
<1>2. ASSUME NEW m \in msgs, ReceiveOack(m) PROVE GetParts'
  <2> DEFINE a == TftpSend("OACK", TftpBlock, TftpBlockWrapOffset, m.src, TftpOurPort)
  <2>1. /\ msgs' = msgs \cup {a} /\ TftpState' = "OACK" /\ TftpBlock' = TftpBlock
        /\ ret = "none"
        /\ UNCHANGED <<TftpOurPort, TftpBlockWrapOffset, mem, NetBootFileXferSize, srv, again, net_state, ret>>
    BY <1>2, Zenon DEF ReceiveOack, loopVars, Accepts
  <2>2. a.op \in {"RRQ", "ACK"} /\ a.src = TftpOurPort /\ (a.op = "ACK" => a.blk = TftpBlock)
    BY <1>0, GetSent
  <2> HIDE DEF a
  <2>3. GetMsgs' /\ GetServer'
    BY <2>1, <2>2, GetAdd, GetServerKept DEF GetParts
  <2>4. AckIsPromise'
    BY <2>1, <2>2, Zenon DEF GetParts, AckIsPromise
  <2> QED
    BY <2>1, <2>3, <2>4, Zenon DEF GetParts, MemGood
<1>3. ASSUME NEW m \in msgs, ReceiveFirstWrong(m) PROVE GetParts'
  <2>1. /\ again' = TRUE /\ ret' = "none" /\ TftpBlockWrapOffset' = 0 /\ TftpState' = "DATA"
        /\ UNCHANGED <<TftpOurPort, mem, NetBootFileXferSize, srv, msgs>>
    BY <1>3, Zenon DEF ReceiveFirstWrong, Accepts, NetStartAgain
  <2> QED
    BY <2>1 DEF GetParts, MemGood, GetMsgs, GetServer, AckIsPromise
<1>4. ASSUME NEW m \in msgs, ReceiveSame(m) PROVE GetParts'
  <2>1. m.op = "DATA" /\ m.blk = TftpLastBlock /\ TftpState \notin {"SEND_RRQ", "OACK"}
    BY <1>4, Zenon DEF ReceiveSame, FirstBlock
  <2>2. m.blk \in 1..Blocks
    BY <2>1, Zenon DEF GetParts, GetMsgs, GetMsg
  <2>3. TftpState = "DATA"
    BY <1>0, <2>1, Zenon DEF TypeInv, TypeOK
  <2>4. /\ TftpBlock' = TftpLastBlock /\ TftpBlockWrapOffset' = 0 /\ ret' = "none"
        /\ UNCHANGED <<TftpOurPort, mem, NetBootFileXferSize, srv, msgs, again, net_state, TftpState, TftpLastBlock>>
    BY <1>0, <1>4, <2>1, <2>2, TftpAssumption DEF ReceiveSame, Accepts, Wrapped, loopVars
  <2>5. AckIsPromise'
    BY <2>3, <2>4, Zenon DEF GetParts, AckIsPromise
  <2> QED
    BY <2>3, <2>4, <2>5 DEF GetParts, MemGood, GetMsgs, GetServer
<1>5. ASSUME (\E m \in msgs : ReceiveError(m)) \/ IcmpPortUnreachable PROVE GetParts'
  <2>1. /\ again' = TRUE \/ (again' = again /\ net_state' = "FAIL")
        /\ ret' = "none"
        /\ UNCHANGED <<tftpVars, mem, NetBootFileXferSize, srv, msgs>>
    BY <1>5, Zenon DEF ReceiveError, IcmpPortUnreachable, Accepts, NetStartAgain
  <2>2. AckIsPromise'
    BY <2>1, Zenon DEF GetParts, AckIsPromise, tftpVars
  <2> QED
    BY <2>1, <2>2 DEF GetParts, MemGood, GetMsgs, GetServer, tftpVars
<1>6. ASSUME LoopReturn PROVE GetParts'
  BY <1>6 DEF LoopReturn, tftpVars, GetParts, MemGood, GetMsgs, GetServer, AckIsPromise
<1>7. ASSUME LoopRestart PROVE GetParts'
  <2> DEFINE a == TftpSend("SEND_RRQ", 0, TftpBlockWrapOffset', WELL_KNOWN_PORT, OurPort(starts + 1))
  <2>1. /\ msgs' = msgs \cup {a} /\ TftpState' = "SEND_RRQ" /\ TftpBlock' = 0
        /\ NetBootFileXferSize' = 0 /\ net_state' = "CONTINUE" /\ ret' = "none"
        /\ TftpOurPort' = OurPort(starts + 1)
        /\ UNCHANGED <<TftpBlockWrapOffset, mem, srv>>
    BY <1>7, Zenon DEF LoopRestart, TftpStart
  <2>2. a.op = "RRQ" /\ a.src = TftpOurPort'
    BY <2>1, Zenon DEF TftpSend, Request
  <2> HIDE DEF a
  <2>3. TftpOurPort' \in Nat /\ TftpOurPort < TftpOurPort'
    <3>1. TftpOurPort = OurPort(starts) /\ starts \in 1..MaxStarts
      BY Zenon DEF TypeInv, TypeOK
    <3> QED
      BY <2>1, <3>1, TftpAssumption DEF OurPort
  <2>4. \A m \in msgs : m.src \in Nat /\ (m.op \in {"RRQ", "ACK"} => m.src < TftpOurPort')
    BY <1>0, <2>3 DEF GetParts, GetMsgs, GetMsg, TypeInv, MsgTypes, Typed
  <2>5. GetMsgs'
    <3>1. \A m \in msgs : GetMsg(m, srv, TftpOurPort')
      BY <2>3, <2>4 DEF GetParts, GetMsgs, GetMsg
    <3>2. GetMsg(a, srv, TftpOurPort')
      BY <2>2, <2>3 DEF GetMsg
    <3> QED
      BY <2>1, <3>1, <3>2, Zenon DEF GetMsgs
  <2>6. GetServer'
    BY <2>1, GetServerKept, Zenon DEF GetParts
  <2>7. AckIsPromise'
    <3>1. \A m \in msgs' : ~(m.op = "ACK" /\ m.src = TftpOurPort')
      BY <2>1, <2>2, <2>3, <2>4
    <3>2. Stored(0, mem')
      BY DEF Stored
    <3> QED
      BY <2>1, <3>1, <3>2, Zenon DEF AckIsPromise
  <2>8. MemGood'
    BY <2>1, TftpAssumption DEF GetParts, MemGood, FileSize
  <2> QED
    BY <1>0, <2>1, <2>5, <2>6, <2>7, <2>8, ZenonT(30) DEF GetParts
<1>8. ASSUME TftpTimeout PROVE GetParts'
  <2> DEFINE a == TftpSend(TftpState, TftpBlock, TftpBlockWrapOffset, TftpRemotePort, TftpOurPort)
  <2>1. /\ ret' = "TIMEOUT"
        /\ \/ again' = TRUE /\ msgs' = msgs
           \/ again' = again /\ msgs' = msgs /\ net_state' = "RESTART"
           \/ again' = again /\ msgs' = msgs \cup {a} /\ net_state' = net_state
        /\ UNCHANGED <<TftpState, TftpBlock, TftpLastBlock, TftpOurPort, TftpBlockWrapOffset, mem, NetBootFileXferSize, srv>>
    BY <1>8, Zenon DEF TftpTimeout, NetStartAgain
  <2>2. a.op \in {"RRQ", "ACK"} /\ a.src = TftpOurPort /\ (a.op = "ACK" => a.blk = TftpBlock)
    BY <1>0, GetSent
  <2> HIDE DEF a
  <2>3. GetMsgs'
    BY <2>1, <2>2, GetAdd DEF GetParts, GetMsgs
  <2>4. GetServer'
    BY <2>1, GetServerKept, Zenon DEF GetParts
  <2>5. AckIsPromise'
    BY <2>1, <2>2, Zenon DEF GetParts, AckIsPromise
  <2> QED
    BY <2>1, <2>3, <2>4, <2>5, Zenon DEF GetParts, MemGood
<1> QED
  BY <1>1, <1>2, <1>3, <1>4, <1>5, <1>6, <1>7, <1>8

\* The server of a get.
LEMMA GetServerStep ==
    ASSUME ShortFile, TypeInv, GetParts, proto = "get", Server
    PROVE  GetParts'
<1>0. /\ \A t \in Tids : srv[t] \in Transfers /\ srv[t].pos \in Nat /\ srv[t].mode \in {"off", "get", "gone"}
      /\ srv \in [Tids -> Transfers]
  BY DEF TypeInv, SrvTypes, Transfers, GetParts, GetServer
<1>1. ASSUME NEW t \in Tids, NEW s, NEW a, SrvStep(t, s, a),
             s.mode \in {"get", "gone"}, s.pos \in Nat, s.pos <= Blocks,
             srv[t].mode = "off" \/ s.port = srv[t].port, srv[t].pos <= s.pos,
             \A j \in 1..s.pos-1 : \E k \in msgs : k.op = "ACK" /\ k.src = s.port /\ k.blk = j,
             \/ a.op \in {"OACK", "ERROR"}
             \/ /\ a.op = "DATA" /\ a.src = t /\ a.dst = s.port
                /\ a.data = s.pos /\ a.data \in 1..Blocks /\ a.blk = a.data /\ a.len = LenOf(a.data)
      PROVE  GetParts'
  <2>1. /\ srv' = [srv EXCEPT ![t] = s] /\ msgs' = msgs \cup {a}
        /\ UNCHANGED <<tftpVars, NetBootFileXferSize, mem, loopVars>>
    BY <1>1, Zenon DEF SrvStep
  <2>2. srv'[t] = s /\ \A u \in Tids : u # t => srv'[u] = srv[u]
    BY <1>0, <2>1, Zenon
  <2>3. GetServer'
    <3>1. ASSUME NEW u \in Tids, u # t
          PROVE  /\ srv'[u].mode \in {"off", "get", "gone"}
                 /\ srv'[u].pos <= Blocks /\ (srv'[u].mode = "off" => srv'[u].pos = 0)
                 /\ \A j \in 1..srv'[u].pos-1 :
                       \E k \in msgs' : k.op = "ACK" /\ k.src = srv'[u].port /\ k.blk = j
      BY <2>1, <2>2, <3>1 DEF GetParts, GetServer
    <3>2. \A j \in 1..s.pos-1 : \E k \in msgs' : k.op = "ACK" /\ k.src = s.port /\ k.blk = j
      BY <1>1, <2>1, ZenonT(30)
    <3> QED
      BY <1>1, <2>2, <3>1, <3>2 DEF GetServer
  <2>4. GetMsgs'
    <3>1. ASSUME NEW m \in msgs PROVE GetMsg(m, srv', TftpOurPort)
      <4>1. GetMsg(m, srv, TftpOurPort)
        BY DEF GetParts, GetMsgs
      <4>2. CASE m.op = "DATA" /\ m.src = t
        <5>1. m.data \in 1..Blocks /\ m.data <= srv[t].pos /\ m.dst = srv[t].port
          BY <4>1, <4>2, Zenon DEF GetMsg
        <5>2. srv[t].mode # "off"
          BY <1>0, <5>1 DEF GetParts, GetServer
        <5>3. m.data <= s.pos
          BY <1>0, <1>1, <5>1, TftpAssumption
        <5> QED
          BY <1>1, <2>2, <4>1, <4>2, <5>1, <5>2, <5>3, ZenonT(30) DEF GetMsg
      <4>3. CASE ~(m.op = "DATA" /\ m.src = t)
        BY <2>2, <4>1, <4>3, Zenon DEF GetMsg
      <4> QED
        BY <4>2, <4>3
    <3>2. GetMsg(a, srv', TftpOurPort)
      BY <1>1, <2>2, TftpAssumption, SMTT(30) DEF GetMsg
    <3>3. TftpOurPort' = TftpOurPort
      BY <2>1 DEF tftpVars
    <3> QED
      BY <2>1, <3>1, <3>2, <3>3, Zenon DEF GetMsgs
  <2>5. AckIsPromise'
    BY <1>1, <2>1, Zenon DEF GetParts, AckIsPromise, tftpVars, loopVars
  <2> QED
    BY <2>1, <2>3, <2>4, <2>5, Zenon DEF GetParts, MemGood, tftpVars, loopVars
<1>2. ASSUME NEW t \in Tids, NEW m \in msgs, NEW opt \in BOOLEAN, SrvRequest(t, m, opt) PROVE GetParts'
  <2>1. m.op = "RRQ"
    BY <1>2, Zenon DEF SrvRequest, GetParts, GetMsgs, GetMsg
  <2> DEFINE s == Transfer("get", m.src, IF ~opt THEN 1 ELSE 0, << >>)
             a == IF opt THEN Oack(t, m.src) ELSE SrvSends(t, s)
  <2>2. SrvStep(t, s, a)
    BY <1>2, <2>1, Zenon DEF SrvRequest
  <2>3. /\ s.mode = "get" /\ s.pos \in 0..1 /\ s.port = m.src /\ (~opt => s.pos = 1)
    BY DEF Transfer
  <2>4. srv[t].pos = 0 /\ srv[t].mode = "off"
    BY <1>2, Zenon DEF SrvRequest, GetParts, GetServer
  <2> HIDE DEF s
  <2>5. \/ a.op \in {"OACK", "ERROR"}
        \/ /\ a.op = "DATA" /\ a.src = t /\ a.dst = s.port
           /\ a.data = s.pos /\ a.data \in 1..Blocks /\ a.blk = a.data /\ a.len = LenOf(a.data)
    <3>1. CASE opt
      BY <3>1, Zenon DEF Oack
    <3>2. CASE ~opt
      <4>1. 1 % SeqMod = 1
        BY ModSmall, TftpAssumption, SMTT(30) DEF ShortFile
      <4>2. a = Data(1, 1, LenOf(1), s.port, t)
        BY <2>3, <3>2, <4>1, Zenon DEF SrvSends
      <4> HIDE DEF a
      <4> QED
        BY <2>3, <3>2, <4>2, TftpAssumption DEF Data
    <3> QED
      BY <3>1, <3>2, Zenon
  <2> HIDE DEF a
  <2>6. s.pos \in Nat /\ s.pos <= Blocks /\ srv[t].pos <= s.pos /\ 1..s.pos-1 = {}
    BY <2>3, <2>4, TftpAssumption, SMTT(30)
  <2> QED
    BY <1>1, <2>2, <2>3, <2>4, <2>5, <2>6, Zenon
<1>3. ASSUME NEW t \in Tids, NEW m \in msgs, SrvAck(t, m) PROVE GetParts'
  <2> DEFINE s == Transfer("get", srv[t].port, srv[t].pos + 1, << >>)
             a == SrvSends(t, s)
  <2>1. SrvStep(t, s, a) /\ srv[t].pos < Blocks /\ m.op = "ACK" /\ m.src = srv[t].port
        /\ m.blk = srv[t].pos % SeqMod
    BY <1>3, Zenon DEF SrvAck
  <2>2. s.mode = "get" /\ s.pos = srv[t].pos + 1 /\ s.port = srv[t].port
    BY Zenon DEF Transfer
  <2> HIDE DEF s
  <2>3. srv[t].pos \in Nat /\ s.pos \in Nat /\ s.pos <= Blocks /\ s.pos < SeqMod /\ SeqMod \in Nat
    BY <1>0, <2>1, <2>2, TftpAssumption, SMTT(30) DEF ShortFile
  <2>4. s.pos % SeqMod = s.pos /\ m.blk = srv[t].pos
    <3>1. srv[t].pos < SeqMod
      BY <2>2, <2>3
    <3> QED
      BY <2>1, <2>3, <3>1, ModSmall, Zenon
  <2>5. a = Data(s.pos, s.pos, LenOf(s.pos), s.port, t)
    BY <2>2, <2>4, Zenon DEF SrvSends
  <2> HIDE DEF a
  <2>6. /\ a.op = "DATA" /\ a.src = t /\ a.dst = s.port
        /\ a.data = s.pos /\ a.data \in 1..Blocks /\ a.blk = a.data /\ a.len = LenOf(a.data)
    BY <2>2, <2>3, <2>5, TftpAssumption, SMTT(30) DEF Data
  <2>7. \A j \in 1..s.pos-1 : \E k \in msgs : k.op = "ACK" /\ k.src = s.port /\ k.blk = j
    <3>1. ASSUME NEW j \in 1..s.pos-1 PROVE j = srv[t].pos \/ j \in 1..srv[t].pos-1
      BY <2>2, <2>3
    <3> QED
      BY <2>1, <2>2, <2>4, <3>1 DEF GetParts, GetServer
  <2>8. srv[t].pos <= s.pos
    BY <2>2, <2>3
  <2> QED
    BY <1>1, <2>1, <2>2, <2>3, <2>6, <2>7, <2>8, ZenonT(30)
<1>4. ASSUME NEW t \in Tids, NEW m \in msgs, SrvData(t, m) PROVE GetParts'
  BY <1>0, <1>4, Zenon DEF SrvData
<1>5. ASSUME NEW t \in Tids, NEW code \in {1, 4}, SrvError(t, code) PROVE GetParts'
  <2> DEFINE s == Transfer("gone", srv[t].port, srv[t].pos, srv[t].file)
             a == Error(code, t, srv[t].port)
  <2>1. SrvStep(t, s, a)
    BY <1>5, Zenon DEF SrvError
  <2>2. s.mode = "gone" /\ s.pos = srv[t].pos /\ s.port = srv[t].port /\ a.op = "ERROR"
    BY Zenon DEF Transfer, Error
  <2> HIDE DEF s, a
  <2>3. s.pos \in Nat /\ s.pos <= Blocks /\ srv[t].pos <= s.pos
    BY <1>0, <2>2 DEF GetParts, GetServer
  <2>4. \A j \in 1..s.pos-1 : \E k \in msgs : k.op = "ACK" /\ k.src = s.port /\ k.blk = j
    BY <2>2 DEF GetParts, GetServer
  <2> QED
    BY <1>1, <2>1, <2>2, <2>3, <2>4, Zenon
<1> QED
  BY <1>2, <1>3, <1>4, <1>5 DEF Server

\* What the user asked for stays what it is.
LEMMA ProtoFixed == [Next]_vars => proto' = proto
<1> SUFFICES ASSUME [Next]_vars PROVE proto' = proto
  OBVIOUS
<1>1. ASSUME NEW m \in msgs, Receive(m) PROVE proto' = proto
  <2>1. ReceiveAck(m) \/ ReceiveOack(m) \/ ReceiveError(m) => proto' = proto
    BY Zenon DEF ReceiveAck, ReceiveOack, ReceiveError
  <2>2. ReceiveFirstWrong(m) \/ ReceiveSame(m) \/ ReceiveData(m) => proto' = proto
    BY Zenon DEF ReceiveFirstWrong, ReceiveSame, ReceiveData
  <2> QED
    BY <1>1, <2>1, <2>2 DEF Receive
<1>2. IcmpPortUnreachable \/ LoopRestart \/ LoopReturn \/ TftpTimeout \/ UNCHANGED vars => proto' = proto
  BY Zenon DEF IcmpPortUnreachable, LoopRestart, LoopReturn, TftpTimeout, vars
<1>3. ASSUME Server PROVE proto' = proto
  <2>1. ASSUME NEW t, NEW m, NEW opt, NEW code,
               SrvAck(t, m) \/ SrvData(t, m) \/ SrvRequest(t, m, opt) \/ SrvError(t, code)
        PROVE  proto' = proto
    BY <2>1, Zenon DEF SrvAck, SrvData, SrvRequest, SrvError, SrvStep
  <2> QED
    BY <1>3, <2>1 DEF Server
<1> QED
  BY <1>1, <1>2, <1>3 DEF Next

\* The invariant of a get holds.
LEMMA GetInvariant == ASSUME ShortFile PROVE Spec => []GetInv
<1>1. Init => GetInv
  <2> SUFFICES ASSUME Init, proto = "get" PROVE GetParts
    BY TypeInit DEF GetInv
  <2> DEFINE a == TftpSend(TftpState, 0, 0, WELL_KNOWN_PORT, OurPort(1))
  <2>1. msgs = {a} /\ TftpState = "SEND_RRQ" /\ TftpOurPort = OurPort(1)
    BY DEF Init
  <2>2. a.op = "RRQ" /\ a.src = OurPort(1)
    BY <2>1, Zenon DEF TftpSend, Request
  <2> HIDE DEF a
  <2>3. MemGood
    BY TftpAssumption DEF Init, MemGood, FileSize
  <2>4. GetMsgs
    BY <2>1, <2>2 DEF GetMsgs, GetMsg, OurPort
  <2>5. GetServer
    <3>1. \A t \in Tids : srv[t].mode = "off" /\ srv[t].pos = 0
      BY Zenon DEF Init, NoTransfer, Transfer
    <3>2. \A t \in Tids : 1..srv[t].pos-1 = {}
      BY <3>1
    <3>3. 0 <= Blocks
      BY TftpAssumption
    <3>4. \A t \in Tids : srv[t].mode \in {"off", "get", "gone"} /\ srv[t].pos <= Blocks
      BY <3>1, <3>3
    <3> QED
      BY <3>1, <3>2, <3>4, Zenon DEF GetServer
  <2>6. AckIsPromise
    <3>1. Stored(0, mem)
      BY DEF Stored
    <3> QED
      BY <2>1, <2>2, <3>1, Zenon DEF Init, AckIsPromise
  <2> QED
    BY <2>1, <2>3, <2>4, <2>5, <2>6 DEF Init, GetParts
<1>2. GetInv /\ [Next]_vars => GetInv'
  <2> SUFFICES ASSUME GetInv, [Next]_vars PROVE GetInv'
    OBVIOUS
  <2>1. TypeInv /\ TypeInv'
    BY TypeStep DEF GetInv
  <2>2. ASSUME proto = "get" PROVE GetParts'
    <3>1. GetParts
      BY <2>2 DEF GetInv
    <3>2. CASE UNCHANGED vars
      BY <3>1, <3>2 DEF vars, tftpVars, loopVars, GetParts, MemGood, GetMsgs, GetServer, AckIsPromise
    <3> QED
      BY <2>1, <2>2, <3>1, <3>2, GetReceiveData, GetOthers, GetServerStep, Zenon DEF Next, Receive
  <2>3. proto' = proto
    BY ProtoFixed
  <2> QED
    BY <2>1, <2>2, <2>3 DEF GetInv
<1> QED
  BY <1>1, <1>2, PTL DEF Spec

\* A get that NetLoop reports as done, and that did not overrule a restart,
\* has loaded the file.
THEOREM GetCorrect == ASSUME ShortFile PROVE Spec => []GetIntact
<1>1. GetInv => GetIntact
  <2> SUFFICES ASSUME GetInv, proto = "get", ret = "SUCCESS", ~again
               PROVE  /\ DOMAIN mem = 0..Blocks-1
                      /\ \A p \in DOMAIN mem : mem[p] = p + 1
                      /\ NetBootFileXferSize = FileSize
    BY DEF GetIntact
  <2>1. MemGood /\ Stored(Blocks, mem) /\ NetBootFileXferSize = FileSize
    BY DEF GetInv, GetParts, AckIsPromise
  <2> QED
    BY <2>1, Zenon DEF MemGood, Stored
<1> QED
  BY <1>1, GetInvariant, PTL

-----------------------------------------------------------------------------
\* What the client of a put sends.
LEMMA PutSent ==
    ASSUME proto = "put", NEW st \in {"SEND_WRQ", "DATA"}, NEW blk \in Nat, blk < SeqMod,
           st = "DATA" => blk > 0, NEW remote \in Tids \cup {WELL_KNOWN_PORT}, NEW port
    PROVE  PutMsg(TftpSend(st, blk, 0, remote, port))
<1>1. remote < 1024
  BY TftpAssumption DEF WELL_KNOWN_PORT
<1>2. CASE st = "SEND_WRQ"
  BY <1>2, Zenon DEF TftpSend, Request, PutMsg
<1>3. CASE st = "DATA"
  <2>1. TftpSend(st, blk, 0, remote, port) = Data(blk, blk, Loaded(blk - 1), remote, port)
    <3>1. blk + 0 = blk /\ blk - 1 + 0 = blk - 1
      OBVIOUS
    <3> QED
      BY <1>3, <3>1 DEF TftpSend
  <2> DEFINE d == Data(blk, blk, Loaded(blk - 1), remote, port)
  <2>2. /\ d.op = "DATA" /\ d.dst = remote /\ d.blk = blk /\ d.data = blk
        /\ d.len = Loaded(blk - 1)
    BY Zenon DEF Data
  <2> HIDE DEF d
  <2>3. PutMsg(d)
    BY <1>1, <1>3, <2>2, TftpAssumption DEF PutMsg
  <2> QED
    BY <2>1, <2>3 DEF d
<1> QED
  BY <1>2, <1>3

\* The client's side of a put.
LEMMA PutClient ==
    ASSUME ShortFile, TypeInv, PutParts, proto = "put",
           \/ \E m \in msgs : Receive(m)
           \/ IcmpPortUnreachable \/ LoopRestart \/ LoopReturn \/ TftpTimeout
    PROVE  PutParts'
<1>0. TftpBlock \in Nat /\ TftpBlock < SeqMod /\ TftpState \in {"SEND_WRQ", "DATA"}
      /\ (TftpState = "DATA" => TftpBlock > 0) /\ TftpBlockWrapOffset = 0
      /\ TftpRemotePort \in Tids \cup {WELL_KNOWN_PORT}
  BY Zenon DEF TypeInv, TypeOK, PutParts
<1>1. ASSUME NEW m \in msgs, ReceiveAck(m) PROVE PutParts'
  <2> DEFINE next == (m.blk + 1) % SeqMod
             a == TftpSend(TftpState, next, 0, TftpRemotePort, TftpOurPort)
  <2>1. m.blk \in 0..Blocks
    BY <1>1 DEF ReceiveAck, PutParts, PutMsgs, PutMsg
  <2>2. next = m.blk + 1 /\ next \in Nat /\ next < SeqMod /\ next > 0
    BY <2>1, ModSmall, TftpAssumption, SMTT(30) DEF ShortFile
  <2>3. \/ UNCHANGED <<tftpVars, msgs>>
        \/ /\ TftpBlock' = next /\ TftpBlockWrapOffset' = 0 /\ TftpState' = TftpState
           /\ msgs' = msgs \/ msgs' = msgs \cup {a}
    BY <1>0, <1>1, <2>2 DEF ReceiveAck
  <2> HIDE DEF next
  <2>4. PutMsg(a)
    BY <1>0, <2>2, PutSent, Zenon
  <2> HIDE DEF a
  <2>5. PutMsgs' /\ PutServer'
    BY <1>1, <2>3, <2>4, Zenon DEF ReceiveAck, PutParts, PutMsgs, PutServer
  <2> QED
    BY <1>0, <2>2, <2>3, <2>5, Zenon DEF PutParts, tftpVars
<1>2. ASSUME NEW m \in msgs, ReceiveOack(m) PROVE PutParts'
  <2> DEFINE next == TftpBlock + 1
             a == TftpSend("DATA", next, 0, m.src, TftpOurPort)
  <2>1. m.src \in Tids
    <3>1. m.dst > 1024
      BY <1>2, TftpAssumption DEF ReceiveOack, Accepts, TypeInv, TypeOK, OurPort
    <3> QED
      BY <3>1 DEF TypeInv, MsgTypes, Typed
  <2>2. next \in Nat /\ next < SeqMod /\ next > 0
    BY <1>0, <1>2, TftpAssumption DEF ReceiveOack, ShortFile
  <2>3. /\ TftpBlock' = next /\ TftpBlockWrapOffset' = 0 /\ TftpState' = "DATA"
        /\ msgs' = msgs \cup {a} /\ srv' = srv
    BY <1>0, <1>2, Zenon DEF ReceiveOack
  <2> HIDE DEF next
  <2>4. PutMsg(a)
    BY <2>1, <2>2, PutSent
  <2> HIDE DEF a
  <2>5. PutMsgs' /\ PutServer'
    BY <2>3, <2>4, Zenon DEF PutParts, PutMsgs, PutServer
  <2> QED
    BY <2>2, <2>3, <2>5 DEF PutParts
<1>3. ASSUME NEW m \in msgs, ReceiveFirstWrong(m) \/ ReceiveSame(m) \/ ReceiveData(m) PROVE FALSE
  <2>1. m.op = "DATA" /\ m.dst = TftpOurPort
    BY <1>3, Zenon DEF ReceiveFirstWrong, ReceiveSame, ReceiveData, Accepts
  <2>2. TftpOurPort > 1024 /\ TftpOurPort \in Nat
    BY TftpAssumption DEF TypeInv, TypeOK, OurPort
  <2> QED
    BY <2>1, <2>2 DEF PutParts, PutMsgs, PutMsg
<1>4. ASSUME (\E m \in msgs : ReceiveError(m)) \/ IcmpPortUnreachable \/ LoopReturn PROVE PutParts'
  BY <1>4, Zenon DEF ReceiveError, IcmpPortUnreachable, LoopReturn, tftpVars, PutParts, PutMsgs, PutServer
<1>5. ASSUME LoopRestart PROVE PutParts'
  <2> DEFINE a == TftpSend("SEND_WRQ", 0, 0, WELL_KNOWN_PORT, OurPort(starts + 1))
  <2>1. /\ msgs' = msgs \cup {a} /\ TftpState' = "SEND_WRQ" /\ TftpBlock' = 0
        /\ TftpBlockWrapOffset' = 0 /\ srv' = srv
    BY <1>5, Zenon DEF LoopRestart, TftpStart
  <2>2. PutMsg(a)
    <3>1. 0 \in Nat /\ 0 < SeqMod
      BY TftpAssumption
    <3> QED
      BY <3>1, PutSent
  <2> HIDE DEF a
  <2>3. PutMsgs' /\ PutServer'
    BY <2>1, <2>2 DEF PutParts, PutMsgs, PutServer
  <2> QED
    BY <2>1, <2>3, TftpAssumption DEF PutParts
<1>6. ASSUME TftpTimeout PROVE PutParts'
  <2> DEFINE a == TftpSend(TftpState, TftpBlock, 0, TftpRemotePort, TftpOurPort)
  <2>1. /\ msgs' = msgs \/ msgs' = msgs \cup {a}
        /\ UNCHANGED <<TftpState, TftpBlock, TftpBlockWrapOffset, srv>>
    BY <1>0, <1>6, Zenon DEF TftpTimeout
  <2>2. PutMsg(a)
    BY <1>0, PutSent
  <2> HIDE DEF a
  <2>3. PutMsgs' /\ PutServer'
    BY <2>1, <2>2, Zenon DEF PutParts, PutMsgs, PutServer
  <2> QED
    BY <2>1, <2>3 DEF PutParts
<1> QED
  BY <1>1, <1>2, <1>3, <1>4, <1>5, <1>6 DEF Receive

\* The server's side of a put.
LEMMA PutServerStep ==
    ASSUME ShortFile, TypeInv, PutParts, proto = "put", Server
    PROVE  PutParts'
<1>0. srv \in [Tids -> Transfers] /\ Blocks \in Nat /\ SeqMod \in Nat /\ Blocks + 1 < SeqMod
  BY TftpAssumption DEF TypeInv, SrvTypes, ShortFile
<1>1. ASSUME NEW t \in Tids, NEW s, NEW a, SrvStep(t, s, a), PutTransfer(s), PutMsg(a) PROVE PutParts'
  <2>1. srv' = [srv EXCEPT ![t] = s] /\ msgs' = msgs \cup {a} /\ UNCHANGED tftpVars
    BY <1>1 DEF SrvStep
  <2>2. PutMsgs'
    BY <1>1, <2>1 DEF PutParts, PutMsgs
  <2>3. \A u \in Tids : srv'[u] = IF u = t THEN s ELSE srv[u]
    BY <1>0, <2>1
  <2>4. PutServer'
    BY <1>1, <2>3 DEF PutParts, PutServer
  <2> QED
    BY <2>1, <2>2, <2>4, Zenon DEF PutParts, tftpVars
<1>2. ASSUME NEW t \in Tids, NEW s, s.mode # "get", s.pos \in 0..Blocks PROVE PutMsg(SrvSends(t, s))
  <2>1. s.pos % SeqMod = s.pos
    BY <1>0, <1>2, ModSmall
  <2>2. SrvSends(t, s) = Ack(s.pos, s.port, t)
    BY <1>2, <2>1, Zenon DEF SrvSends
  <2> QED
    BY <1>2, <2>2 DEF Ack, PutMsg
<1>3. ASSUME NEW t \in Tids, NEW m \in msgs, NEW opt \in BOOLEAN, SrvRequest(t, m, opt) PROVE PutParts'
  <2>1. m.op = "WRQ" /\ m.src \in Nat
    BY <1>3 DEF SrvRequest, PutParts, PutMsgs, PutMsg, TypeInv, MsgTypes, Typed
  <2> DEFINE s == Transfer("put", m.src, 0, << >>)
             a == IF opt THEN Oack(t, m.src) ELSE SrvSends(t, s)
  <2>2. SrvStep(t, s, a)
    BY <1>3, <2>1, Zenon DEF SrvRequest
  <2>3. PutTransfer(s) /\ s.mode # "get" /\ s.pos \in 0..Blocks
    BY <2>1, TftpAssumption DEF Transfer, Transfers, PutTransfer
  <2> HIDE DEF s
  <2>4. PutMsg(Oack(t, m.src))
    BY DEF Oack, PutMsg
  <2>5. PutMsg(a)
    BY <1>2, <2>3, <2>4
  <2> HIDE DEF a
  <2> QED
    BY <1>1, <2>2, <2>3, <2>5
<1>4. ASSUME NEW t \in Tids, NEW m \in msgs, SrvAck(t, m) PROVE PutParts'
  BY <1>4, Zenon DEF SrvAck, PutParts, PutServer, PutTransfer
<1>5. ASSUME NEW t \in Tids, NEW m \in msgs, SrvData(t, m) PROVE PutParts'
  <2> DEFINE old == srv[t]
             s == Transfer(IF m.len < 2 THEN "done" ELSE "put", old.port, old.pos + 1, Append(old.file, m.data))
  <2>1. old \in Transfers /\ PutTransfer(old) /\ old.pos < Blocks /\ old.pos \in Nat
    BY <1>5, ZenonT(30) DEF SrvData, PutParts, PutServer, PutTransfer, Transfers
  <2>2. m.blk = (old.pos + 1) % SeqMod /\ m.data = m.blk /\ m.len = Loaded(m.blk - 1) /\ SrvStep(t, s, SrvSends(t, s))
    BY <1>5 DEF SrvData, PutParts, PutMsgs, PutMsg
  <2> HIDE DEF old
  <2>3. m.blk = old.pos + 1 /\ m.data = old.pos + 1
    BY <1>0, <2>1, <2>2, ModSmall
  <2>4. m.len \in 0..2 /\ (m.len < 2 <=> old.pos + 1 = Blocks)
    <3>1. m.len = Loaded(old.pos)
      BY <2>1, <2>2, <2>3
    <3> QED
      BY <2>1, <3>1, TftpAssumption, SMTT(60) DEF Loaded, FileSize
  <2>5. s \in Transfers
    BY <2>1, <2>3 DEF Transfer, Transfers
  <2>6. s.pos = old.pos + 1 /\ s.file = Append(old.file, old.pos + 1)
        /\ s.mode = IF m.len < 2 THEN "done" ELSE "put"
    BY <2>3, Zenon DEF Transfer
  <2> HIDE DEF s
  <2>7. Len(s.file) = s.pos /\ \A b \in 1..s.pos : s.file[b] = b
    <3>1. old.file \in Seq(Int) /\ Len(old.file) = old.pos /\ \A b \in 1..old.pos : old.file[b] = b
      BY <2>1, Zenon DEF PutTransfer, Transfers
    <3> QED
      BY <2>1, <2>6, <3>1
  <2>8. PutTransfer(s)
    BY <1>0, <2>1, <2>4, <2>5, <2>6, <2>7 DEF PutTransfer
  <2>9. s.mode # "get" /\ s.pos \in 0..Blocks
    BY <1>0, <2>1, <2>6
  <2> QED
    BY <1>1, <1>2, <2>2, <2>8, <2>9, Zenon
<1>6. ASSUME NEW t \in Tids, NEW code \in {1, 4}, SrvError(t, code) PROVE PutParts'
  <2> DEFINE s == Transfer("gone", srv[t].port, srv[t].pos, srv[t].file)
             a == Error(code, t, srv[t].port)
  <2>1. SrvStep(t, s, a)
    BY <1>6, Zenon DEF SrvError
  <2>2. PutTransfer(srv[t]) /\ srv[t] \in Transfers
    BY Zenon DEF PutParts, PutServer, PutTransfer
  <2>3. PutTransfer(s)
    BY <2>2, Zenon DEF Transfer, Transfers, PutTransfer
  <2>4. PutMsg(a)
    BY Zenon DEF Error, PutMsg
  <2> HIDE DEF s, a
  <2> QED
    BY <1>1, <2>1, <2>3, <2>4
<1> QED
  BY <1>3, <1>4, <1>5, <1>6 DEF Server

\* A file that the server has closed at the end of a put is the whole piece
\* of memory, in order.
THEOREM PutCorrect == ASSUME ShortFile PROVE Spec => []PutFileWhole
<1>1. Init => PutInv
  <2> SUFFICES ASSUME Init, proto = "put" PROVE PutParts
    BY TypeInit DEF PutInv
  <2> DEFINE a == TftpSend("SEND_WRQ", 0, 0, WELL_KNOWN_PORT, OurPort(1))
  <2>1. msgs = {a} /\ TftpState = "SEND_WRQ" /\ TftpBlock = 0 /\ TftpBlockWrapOffset = 0
        /\ srv = [t \in Tids |-> NoTransfer]
    BY Zenon DEF Init
  <2>2. PutMsg(a)
    <3>1. 0 \in Nat /\ 0 < SeqMod
      BY TftpAssumption
    <3> QED
      BY <3>1, PutSent
  <2> HIDE DEF a
  <2>3. PutTransfer(NoTransfer)
    BY TftpAssumption DEF NoTransfer, Transfer, Transfers, PutTransfer
  <2> QED
    BY <2>1, <2>2, <2>3, TftpAssumption DEF PutParts, PutMsgs, PutServer
<1>2. PutInv /\ [Next]_vars => PutInv'
  <2> SUFFICES ASSUME PutInv, [Next]_vars PROVE PutInv'
    OBVIOUS
  <2>1. TypeInv /\ TypeInv'
    BY TypeStep DEF PutInv
  <2>2. ASSUME proto = "put" PROVE PutParts'
    <3>1. PutParts
      BY <2>2 DEF PutInv
    <3>2. CASE UNCHANGED vars
      BY <3>1, <3>2, Zenon DEF vars, tftpVars, PutParts, PutMsgs, PutServer
    <3> QED
      BY <2>1, <2>2, <3>1, <3>2, PutClient, PutServerStep DEF Next
  <2>3. proto' = proto
    BY ProtoFixed
  <2> QED
    BY <2>1, <2>2, <2>3 DEF PutInv
<1>3. GetInv /\ PutInv => PutFileWhole
  <2> SUFFICES ASSUME GetInv, PutInv, NEW t \in Tids, srv[t].mode = "done"
               PROVE  Len(srv[t].file) = Blocks /\ \A b \in 1..Blocks : srv[t].file[b] = b
    BY Zenon DEF PutFileWhole
  <2>1. proto # "get"
    BY Zenon DEF GetInv, GetParts, GetServer
  <2>2. proto = "put"
    BY <2>1 DEF GetInv, TypeInv, TypeOK
  <2> QED
    BY <2>2, Zenon DEF PutInv, PutParts, PutServer, PutTransfer
<1> QED
  BY <1>1, <1>2, <1>3, GetInvariant, PTL DEF Spec
=============================================================================
