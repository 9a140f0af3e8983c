----------------------------- MODULE HttpdProofs ----------------------------
(***************************************************************************)
(* Proofs about the web server for any number of slots and uploads and any *)
(* cut of the bodies into segments.                                        *)
(***************************************************************************)
EXTENDS Httpd, TLAPS

HState == [state: {"NONE", "FILE_REQUEST", "UPLOAD_REQUEST"}, count: 0..PollLimit, dataptr: Content,
           upload: Nat, upload_total: Nat, is_macrw_resp: BOOLEAN]

CState == [file: Nat, sent: Nat]

\* What a slot may have counted of its upload: before its start was found (the
\* total is still the Content-Length), and after.
Counts(h, cl, fs) ==
    /\ cl.file # 0
    /\ \/ h.upload_total = fs[cl.file].len + 3 /\ h.upload <= cl.sent
       \/ h.upload_total = fs[cl.file].len /\ h.upload + 2 <= cl.sent /\ 2 <= cl.sent

\* The pages that tell a client what became of its upload.
Verdict == {"flashing", "fail"}

\* What holds of every slot.  Whoever gets such a page has sent an upload, and
\* whoever has sent an upload and gets a page has sent all of it.
Slot(h, cl, fs) ==
    /\ cl.file <= Len(fs)
    /\ cl.file # 0 => cl.sent <= fs[cl.file].len + 3
    /\ h.dataptr \in Verdict => h.state = "FILE_REQUEST" /\ cl.file # 0
    /\ h.state = "FILE_REQUEST" /\ cl.file # 0 => cl.sent = fs[cl.file].len + 3

\* What holds of every slot until the board is reset.
Live(h, cl, o, fs) ==
    /\ h.state # "FILE_REQUEST" => o = 0
    /\ h.state = "FILE_REQUEST" => o <= h.upload /\ h.upload <= PageLen
    /\ h.state = "NONE" => h.upload = 0
    /\ h.state = "UPLOAD_REQUEST" => Counts(h, cl, fs)

Shapes ==
    /\ hs \in [Conns -> HState] /\ client \in [Conns -> CState]
    /\ outstanding \in [Conns -> 0..PageLen] /\ mss \in [Conns -> Nat]
    /\ files \in Seq(FileKinds)

ServerInv ==
    /\ Shapes
    /\ \A d \in Conns : Slot(hs[d], client[d], files)
    /\ running => \A d \in Conns : Live(hs[d], client[d], outstanding[d], files)
    /\ BoundaryThere

\* No POST /macrw and no POST /setenv: their slots look like uploads of nothing.
NoPostCommands == Requests \cap {"post_macrw", "setenv"} = {}

-----------------------------------------------------------------------------
\* The sequence of uploads only grows.
Grows == files' = files \/ \E f \in FileKinds : files' = Append(files, f)

\* A longer sequence of uploads has the same files at the same places.
LEMMA FilesGrow ==
    ASSUME files \in Seq(FileKinds), Grows
    PROVE  /\ files' \in Seq(FileKinds)
           /\ Len(files) <= Len(files')
           /\ \A u \in 1..Len(files) : files'[u] = files[u]
BY DEF Grows

\* A file has a length.
LEMMA FileLen ==
    ASSUME files \in Seq(FileKinds), NEW u \in 1..Len(files)
    PROVE  files[u] \in FileKinds /\ files[u].len \in Nat
BY HttpdAssumption

\* Slots that a step leaves alone keep what holds of them.
LEMMA SlotKept ==
    ASSUME files \in Seq(FileKinds), Grows, NEW h, NEW cl \in CState, NEW o
    PROVE  /\ Slot(h, cl, files) => Slot(h, cl, files')
           /\ Slot(h, cl, files) /\ Live(h, cl, o, files) => Live(h, cl, o, files')
<1>1. files' \in Seq(FileKinds) /\ Len(files) <= Len(files') /\ Len(files) \in Nat /\ Len(files') \in Nat
  BY FilesGrow
<1>2. cl.file \in Nat
  BY DEF CState
<1>3. Slot(h, cl, files) /\ cl.file # 0 => files'[cl.file] = files[cl.file]
  BY <1>2, FilesGrow DEF Slot
<1> QED
  BY <1>1, <1>2, <1>3 DEF Slot, Live, Counts

\* A step of one slot keeps the invariant if the slot does.
LEMMA OneSlot ==
    ASSUME ServerInv, running, NEW c \in Conns, NEW h \in HState, NEW cl \in CState, NEW o \in 0..PageLen,
           hs' = [hs EXCEPT ![c] = h], client' = [client EXCEPT ![c] = cl],
           outstanding' = [outstanding EXCEPT ![c] = o], mss' \in [Conns -> Nat], Grows,
           Slot(h, cl, files'), running' => Live(h, cl, o, files'), BoundaryThere'
    PROVE  ServerInv'
<1>1. Shapes'
  BY FilesGrow, Zenon DEF ServerInv, Shapes
<1>2. \A d \in Conns : Slot(hs'[d], client'[d], files')
  <2> SUFFICES ASSUME NEW d \in Conns PROVE Slot(hs'[d], client'[d], files')
    BY Zenon
  <2>1. CASE d = c
    BY <2>1, Zenon DEF ServerInv, Shapes
  <2>2. CASE d # c
    <3>1. hs'[d] = hs[d] /\ client'[d] = client[d] /\ client[d] \in CState
      BY <2>2, Zenon DEF ServerInv, Shapes
    <3> QED
      BY <3>1, SlotKept, Zenon DEF ServerInv, Shapes
  <2> QED
    BY <2>1, <2>2, Zenon
<1>3. ASSUME running', NEW d \in Conns PROVE Live(hs'[d], client'[d], outstanding'[d], files')
  <2>1. CASE d = c
    BY <1>3, <2>1, Zenon DEF ServerInv, Shapes
  <2>2. CASE d # c
    <3>1. hs'[d] = hs[d] /\ client'[d] = client[d] /\ client[d] \in CState /\ outstanding'[d] = outstanding[d]
      BY <2>2, Zenon DEF ServerInv, Shapes
    <3> QED
      BY <3>1, SlotKept, Zenon DEF ServerInv, Shapes
  <2> QED
    BY <2>1, <2>2, Zenon
<1> QED
  BY <1>1, <1>2, <1>3, Zenon DEF ServerInv

-----------------------------------------------------------------------------
\* What an event of the stack leaves: data in flight of its slot only, what the
\* server sends of it, and none if the server sends nothing.
Flight(c, ev, r) ==
    /\ mss' \in [Conns -> Nat]
    /\ \E o \in 0..PageLen :
          /\ outstanding' = [outstanding EXCEPT ![c] = o]
          /\ r.op # "send" => o = 0
          /\ r.op = "send" /\ ("acked" \in ev \/ outstanding[c] = 0) =>
               o = IF r.n > mss'[c] THEN mss'[c] ELSE r.n

\* A reply leaves data in flight as Flight says.
LEMMA RepliedFlight ==
    ASSUME Shapes, NEW c \in Conns, NEW ev, NEW r, r.n \in 0..PageLen, mss' \in [Conns -> Nat], Replied(c, ev, r)
    PROVE  Flight(c, ev, r)
<1>1. outstanding[c] \in 0..PageLen /\ mss'[c] \in Nat /\ PageLen \in Nat
  BY HttpdAssumption DEF Shapes
<1>2. (IF r.n > mss'[c] THEN mss'[c] ELSE r.n) \in 0..PageLen /\ 0 \in 0..PageLen
  BY <1>1
<1> QED
  BY <1>1, <1>2, Zenon DEF Replied, Moves, Flight

\* A new window is a number.
LEMMA NewMssType ==
    ASSUME Shapes, NEW c \in Conns, NewMss(c)
    PROVE  mss' \in [Conns -> Nat]
BY HttpdAssumption DEF Shapes, NewMss

\* The events of an open connection.
LEMMA DeliverFlight ==
    ASSUME Shapes, NEW c \in Conns, NEW ev, NEW r, r.n \in 0..PageLen, Deliver(c, ev, r)
    PROVE  Flight(c, ev, r)
BY RepliedFlight, NewMssType DEF Deliver

LEMMA PollFlight ==
    ASSUME Shapes, NEW c \in Conns, NEW r, r.n \in 0..PageLen, Poll(c, r)
    PROVE  Flight(c, {"poll"}, r)
BY RepliedFlight, Zenon DEF Poll, Shapes

LEMMA ConnectFlight ==
    ASSUME Shapes, NEW c \in Conns, NEW ev, NEW r, r.n \in 0..PageLen, Connect(c, ev, r)
    PROVE  Flight(c, ev, r)
BY RepliedFlight, Zenon DEF Connect, Shapes

\* A connection that is over has nothing in flight.
LEMMA OverFlight ==
    ASSUME Shapes, NEW c \in Conns, NEW ev, NEW r,
           \/ PeerClose(c, ev, Close) \/ CloseDone(c, Close) \/ Lost(c, ev, Abort)
           \/ Poll(c, Abort) \/ Deliver(c, ev, Abort) \/ Accept(c) \/ Forget(c)
    PROVE  /\ mss' \in [Conns -> Nat]
           /\ outstanding' = [outstanding EXCEPT ![c] = 0]
<1>1. CASE PeerClose(c, ev, Close) \/ CloseDone(c, Close) \/ Lost(c, ev, Abort) \/ Forget(c)
  BY <1>1, Zenon DEF PeerClose, CloseDone, Lost, Forget, Moves, Shapes
<1>2. CASE Poll(c, Abort)
  BY <1>2, Zenon DEF Poll, Replied, Abort, Moves, Shapes
<1>3. CASE Deliver(c, ev, Abort)
  BY <1>3, NewMssType, Zenon DEF Deliver, Replied, Abort, Moves
<1>4. CASE Accept(c)
  BY <1>4, NewMssType, Zenon DEF Accept, Moves
<1> QED
  BY <1>1, <1>2, <1>3, <1>4, Zenon

\* A page has a length.
LEMMA PageLenNat == PageLen \in Nat \ {0} /\ 0 \in 0..PageLen /\ PageLen \in 0..PageLen
BY HttpdAssumption

\* What is sent of the rest is no more than the rest.
LEMMA SendRestType ==
    ASSUME NEW left \in 0..PageLen, NEW m \in Nat
    PROVE  /\ SendRest(left, m).n \in 0..PageLen /\ SendRest(left, m).n <= left
           /\ SendRest(left, m).op \in {"send", "none"}
           /\ SendRest(left, m).op = "none" <=> left = 0 \/ m = 0
           /\ SendRest(left, m).n = IF left > m THEN m ELSE left
BY PageLenNat DEF SendRest, NoReply

\* A slot that serves nobody.
Blank(h) == h.state = "NONE" /\ h.dataptr \notin Verdict /\ h.upload = 0

LEMMA BlankSlot ==
    ASSUME NEW h, Blank(h), NEW cl, NEW fs, cl.file <= Len(fs), cl.file # 0 => cl.sent <= fs[cl.file].len + 3
    PROVE  Slot(h, cl, fs) /\ Live(h, cl, 0, fs)
BY Zenon DEF Blank, Slot, Live

LEMMA NoClientSlot ==
    ASSUME NEW h, Blank(h), NEW fs \in Seq(FileKinds)
    PROVE  Slot(h, NoClient, fs) /\ Live(h, NoClient, 0, fs)
<1>1. NoClient.file = 0 /\ NoClient.file <= Len(fs)
  BY DEF NoClient
<1> QED
  BY <1>1, BlankSlot, Zenon

\* Constant states and replies.
LEMMA StateTypes ==
    /\ ZeroState \in HState /\ Blank(ZeroState)
    /\ \A h \in HState : Reset(h) \in HState /\ Blank(Reset(h)) /\ Reset(h).state = "NONE"
    /\ NoClient \in CState /\ NoClient.file = 0
    /\ NoReply.n \in 0..PageLen /\ Close.n \in 0..PageLen /\ Abort.n \in 0..PageLen /\ NoReply.op # "send"
BY HttpdAssumption DEF Blank, Verdict, ZeroState, Reset, HState, Content, NoClient, CState, NoReply, Close, Abort

\* Updates of a state that uploads make.
LEMMA Updates ==
    ASSUME NEW h \in HState, NEW t \in Nat, NEW n \in Nat
    PROVE  /\ [h EXCEPT !.upload_total = t, !.upload = n] \in HState
           /\ [h EXCEPT !.state = "UPLOAD_REQUEST", !.upload_total = t] \in HState
           /\ [h EXCEPT !.upload = n] \in HState
BY Zenon DEF HState

\* Whoever drops a slot leaves it blank.
LEMMA DropKeeps ==
    ASSUME ServerInv, running, running' = running, NEW c \in Conns, httpd_state_reset(c),
           client' = [client EXCEPT ![c] = NoClient], files' = files,
           mss' \in [Conns -> Nat], outstanding' = [outstanding EXCEPT ![c] = 0]
    PROVE  ServerInv'
<1> DEFINE h == Reset(hs[c])
<1>1. hs[c] \in HState /\ hs' = [hs EXCEPT ![c] = h] /\ files' \in Seq(FileKinds)
  BY DEF ServerInv, Shapes, httpd_state_reset
<1>2. h \in HState /\ Blank(h)
  BY <1>1, StateTypes, Zenon
<1> HIDE DEF h
<1>3. Slot(h, NoClient, files') /\ Live(h, NoClient, 0, files')
  BY <1>1, <1>2, NoClientSlot, Zenon
<1>4. BoundaryThere' /\ Grows
  BY DEF httpd_state_reset, BoundaryThere, Grows
<1> QED
  <2>1. NoClient \in CState /\ 0 \in 0..PageLen /\ h \in HState
    BY <1>2, StateTypes, PageLenNat
  <2>2. running' => Live(h, NoClient, 0, files')
    BY <1>3
  <2> QED
    BY <1>1, <2>1, <2>2, <1>3, <1>4, OneSlot, Zenon

\* What a client does: it goes on with its upload, begins one, or neither.
ClientMoves(c, s, cl) ==
    /\ client' = [client EXCEPT ![c] = cl]
    /\ cl.file <= Len(files')
    /\ cl.file # 0 => cl.sent <= files'[cl.file].len + 3
    /\ client[c].file # 0 => /\ cl.file = client[c].file
                             /\ cl.sent = client[c].sent + s.n
                             /\ s.n \in Nat \ {0} /\ files' = files
                             /\ s.file = files[client[c].file]
    /\ client[c].file = 0 /\ hs[c].state # "NONE" => cl = client[c] /\ files' = files

\* Whatever a client sends, it moves so.
LEMMA SendsEffect ==
    ASSUME Shapes, NEW c \in Conns, NEW s \in Segments(c), Sends(c, s), Slot(hs[c], client[c], files)
    PROVE  /\ Grows
           /\ \E cl \in CState : ClientMoves(c, s, cl)
<1>0. client[c] \in CState /\ client[c].file \in Nat /\ client[c].sent \in Nat /\ Len(files) \in Nat
  BY DEF Shapes, CState
<1>1. CASE client[c].file # 0
  <2>1. s.kind = "body" /\ s.n \in 1..MaxSeg /\ s.file = files[client[c].file]
    BY <1>1, Zenon DEF Segments
  <2>2. /\ client[c].sent + s.n <= s.file.len + 3
        /\ client' = [client EXCEPT ![c].sent = @ + s.n] /\ files' = files
    <3>1. s.file.len \in Nat
      BY <2>1, <1>0, <1>1, FileLen DEF Shapes, Slot
    <3> QED
      BY <3>1, <2>1, <1>0, HttpdAssumption, SMTT(30) DEF Sends, BodyLen, Trailer
  <2> DEFINE cl == [client[c] EXCEPT !.sent = @ + s.n]
  <2>3. /\ cl \in CState /\ cl.file = client[c].file /\ cl.sent = client[c].sent + s.n
        /\ client' = [client EXCEPT ![c] = cl]
    <3>1. client[c].sent + s.n \in Nat
      BY <2>1, <1>0, HttpdAssumption
    <3>2. cl \in CState /\ cl.file = client[c].file /\ cl.sent = client[c].sent + s.n
      BY <3>1, <1>0 DEF CState
    <3> QED
      BY <3>2, <2>2, Zenon
  <2>4. Grows /\ s.n \in Nat \ {0}
    BY <2>1, <2>2, HttpdAssumption DEF Grows
  <2> HIDE DEF cl
  <2> QED
    <3>1. ClientMoves(c, s, cl)
      BY <1>0, <1>1, <2>1, <2>2, <2>3, <2>4, ZenonT(30) DEF Slot, ClientMoves
    <3> QED
      BY <3>1, <2>3, <2>4
<1>2. CASE client[c].file = 0 /\ hs[c].state # "NONE"
  <2>1. s.kind = "rest"
    BY <1>2, Zenon DEF Segments
  <2>2. files' = files /\ client' = client
    BY <2>1 DEF Sends, peerVars
  <2>3. client' = [client EXCEPT ![c] = client[c]] /\ Grows
    BY <2>2 DEF Shapes, Grows
  <2> QED
    <3>1. ClientMoves(c, s, client[c])
      BY <1>0, <1>2, <2>2, <2>3, Zenon DEF Slot, ClientMoves
    <3> QED
      BY <3>1, <1>0, <2>3
<1>3. CASE client[c].file = 0 /\ hs[c].state = "NONE"
  <2>1. CASE s.kind = "body"
    <3>1. s.n = 0
      BY <1>3, <2>1, Zenon DEF Segments
    <3>2. files' = files /\ client' = [client EXCEPT ![c] = client[c]]
      BY <2>1, <3>1, <1>0 DEF Sends, Shapes, CState
    <3> QED
      <4>1. ClientMoves(c, s, client[c])
        BY <1>0, <1>3, <3>2, Zenon DEF Slot, ClientMoves
      <4> QED
        BY <4>1, <1>0, <3>2, Zenon DEF Grows
  <2>2. CASE s.kind = "post"
    <3>1. s.n \in 0..MaxSeg /\ s.file \in FileKinds
      BY <1>3, <2>2, Zenon DEF Segments
    <3> DEFINE cl == [file |-> Len(files) + 1, sent |-> s.n]
    <3>2. files' = Append(files, s.file) /\ client' = [client EXCEPT ![c] = cl]
      BY <2>2 DEF Sends
    <3>3. s.n \in Nat /\ s.n <= s.file.len + 3 /\ s.file.len \in Nat
      BY <3>1, HttpdAssumption
    <3>4. cl \in CState /\ cl.file = Len(files) + 1 /\ cl.sent = s.n
      BY <3>3, <1>0 DEF CState
    <3>5. Grows /\ Len(files') = Len(files) + 1 /\ files'[Len(files) + 1] = s.file
      BY <3>1, <3>2 DEF Shapes, Grows
    <3> HIDE DEF cl
    <3> QED
      <4>1. ClientMoves(c, s, cl)
        BY <1>0, <1>3, <3>2, <3>3, <3>4, <3>5 DEF ClientMoves
      <4> QED
        BY <4>1, <3>4, <3>5
  <2>3. CASE s.kind \notin {"body", "post"}
    <3>1. files' = files /\ client' = [client EXCEPT ![c] = client[c]]
      BY <2>3, Zenon DEF Sends, peerVars, Shapes
    <3> QED
      <4>1. ClientMoves(c, s, client[c])
        BY <1>0, <1>3, <3>1, Zenon DEF Slot, ClientMoves
      <4> QED
        BY <4>1, <1>0, <3>1, Zenon DEF Grows
  <2> QED
    BY <2>1, <2>2, <2>3
<1> QED
  BY <1>0, <1>1, <1>2, <1>3, Zenon

\* The slot of a step, in the form that OneSlot takes.
LEMMA SlotOf ==
    ASSUME ServerInv, running, NEW c \in Conns
    PROVE  /\ Shapes /\ hs[c] \in HState /\ client[c] \in CState /\ outstanding[c] \in 0..PageLen
           /\ Slot(hs[c], client[c], files) /\ Live(hs[c], client[c], outstanding[c], files)
           /\ hs[c].upload \in Nat /\ hs[c].upload_total \in Nat /\ hs[c].count \in 0..PollLimit
           /\ client[c].file \in Nat /\ client[c].sent \in Nat /\ Len(files) \in Nat
           /\ client[c].file # 0 => files[client[c].file].len \in Nat
<1>1. Shapes /\ hs[c] \in HState /\ client[c] \in CState /\ outstanding[c] \in 0..PageLen
  BY DEF ServerInv, Shapes
<1>2. Slot(hs[c], client[c], files) /\ Live(hs[c], client[c], outstanding[c], files)
  BY DEF ServerInv
<1>3. /\ hs[c].upload \in Nat /\ hs[c].upload_total \in Nat /\ hs[c].count \in 0..PollLimit
      /\ client[c].file \in Nat /\ client[c].sent \in Nat /\ Len(files) \in Nat
  BY <1>1 DEF HState, CState, Shapes
<1>4. client[c].file # 0 => files[client[c].file].len \in Nat
  BY <1>1, <1>2, <1>3, FileLen, SMTT(30) DEF Slot, Shapes
<1> QED
  BY <1>1, <1>2, <1>3, <1>4, Zenon

-----------------------------------------------------------------------------
\* The steps, one lemma for each kind.  First those that end a connection.
LEMMA EndSteps ==
    ASSUME ServerInv, running, NEW c \in Conns,
           \/ Closed(c) \/ \E ev \in {{"abort"}, {"timedout"}} : Aborted(c, ev)
           \/ \E s \in Segments(c) : BadRequest(c, s)
    PROVE  ServerInv'
<1>1. Shapes
  BY DEF ServerInv
<1>2. /\ httpd_state_reset(c) /\ client' = [client EXCEPT ![c] = NoClient]
      /\ files' = files /\ running' = running
  BY Zenon DEF Closed, Aborted, BadRequest, Drop
<1>3. mss' \in [Conns -> Nat] /\ outstanding' = [outstanding EXCEPT ![c] = 0]
  BY <1>1, OverFlight, Zenon DEF Closed, Aborted, BadRequest, Requested
<1> QED
  BY <1>2, <1>3, DropKeeps, Zenon

\* Steps that change nothing of the server's, and leave nothing more in flight.
LEMMA QuietSteps ==
    ASSUME ServerInv, running, NEW c \in Conns,
           Unnoticed(c) \/ SendAgain(c) \/ (Forget(c) /\ UNCHANGED httpdVars)
    PROVE  ServerInv'
<1> USE SlotOf
<1>1. /\ hs' = [hs EXCEPT ![c] = hs[c]] /\ client' = [client EXCEPT ![c] = client[c]] /\ files' = files
      /\ running' = running /\ Grows
  BY Zenon DEF Unnoticed, SendAgain, httpdVars, peerVars, Grows, Shapes
<1>2. BoundaryThere'
  BY Zenon DEF Unnoticed, SendAgain, httpdVars, scanVars, BoundaryThere, ServerInv
<1>3. CASE Window(c) \/ SendAgain(c)
  <2>1. mss' \in [Conns -> Nat] /\ outstanding' = [outstanding EXCEPT ![c] = outstanding[c]]
    BY <1>3, NewMssType, Zenon DEF Window, SendAgain, Rexmit, Shapes
  <2>2. Slot(hs[c], client[c], files') /\ (running' => Live(hs[c], client[c], outstanding[c], files'))
    BY <1>1, Zenon
  <2> QED
    BY <1>1, <1>2, <2>1, <2>2, OneSlot, ZenonT(30)
<1>4. CASE Accept(c) \/ Forget(c)
  <2>1. mss' \in [Conns -> Nat] /\ outstanding' = [outstanding EXCEPT ![c] = 0] /\ 0 \in 0..PageLen
    BY <1>4, OverFlight, PageLenNat, Zenon
  <2>2. 0 <= hs[c].upload
    OBVIOUS
  <2>3. Slot(hs[c], client[c], files') /\ (running' => Live(hs[c], client[c], 0, files'))
    BY <1>1, <2>2, Zenon DEF Live
  <2> QED
    BY <1>1, <1>2, <2>1, <2>3, OneSlot, ZenonT(30)
<1> QED
  BY <1>3, <1>4, Zenon DEF Unnoticed

\* A poll counts or ends the connection.
LEMMA PollStep ==
    ASSUME ServerInv, running, NEW c \in Conns, Polled(c)
    PROVE  ServerInv'
<1> USE SlotOf
<1>1. CASE Poll(c, Abort) /\ Drop(c)
  <2>1. mss' \in [Conns -> Nat] /\ outstanding' = [outstanding EXCEPT ![c] = 0]
    BY <1>1, OverFlight, Zenon
  <2> QED
    BY <1>1, <2>1, DropKeeps, Zenon DEF Drop
<1>2. CASE /\ ~IdleTooLong(c) /\ Poll(c, NoReply) /\ hs' = [hs EXCEPT ![c].count = @ + 1]
           /\ UNCHANGED <<scanVars, doneVars, loadVars, running, peerVars>>
  <2> DEFINE h == [hs[c] EXCEPT !.count = @ + 1]
  <2>1. /\ h \in HState /\ hs' = [hs EXCEPT ![c] = h] /\ h.state = hs[c].state /\ h.upload = hs[c].upload
        /\ h.upload_total = hs[c].upload_total /\ h.dataptr = hs[c].dataptr
    <3>1. h \in HState
      <4>1. hs[c].count + 1 \in 0..PollLimit
        BY <1>2, HttpdAssumption DEF IdleTooLong
      <4> QED
        BY <4>1, Zenon DEF HState
    <3>2. hs' = [hs EXCEPT ![c] = h]
      BY <1>2, Zenon DEF Shapes
    <3>3. /\ h.state = hs[c].state /\ h.upload = hs[c].upload
          /\ h.upload_total = hs[c].upload_total /\ h.dataptr = hs[c].dataptr
      BY Zenon DEF HState
    <3> QED
      BY <3>1, <3>2, <3>3, Zenon
  <2>2. mss' \in [Conns -> Nat] /\ outstanding' = [outstanding EXCEPT ![c] = 0] /\ 0 \in 0..PageLen
    BY <1>2, PollFlight, StateTypes DEF Flight
  <2>3. /\ client' = [client EXCEPT ![c] = client[c]] /\ files' = files /\ Grows
        /\ BoundaryThere'
    BY <1>2, Zenon DEF peerVars, scanVars, Grows, Shapes, BoundaryThere, ServerInv
  <2> HIDE DEF h
  <2>4. Slot(h, client[c], files') /\ (running' => Live(h, client[c], 0, files'))
    <3>1. 0 <= hs[c].upload
      OBVIOUS
    <3>2. Slot(h, client[c], files')
      BY <2>1, <2>3, Zenon DEF Slot
    <3>3. Live(h, client[c], 0, files')
      BY <2>1, <2>3, <3>1, Zenon DEF Live, Counts
    <3> QED
      BY <3>2, <3>3, Zenon
  <2> QED
    BY <2>1, <2>2, <2>3, <2>4, OneSlot, ZenonT(30)
<1> QED
  BY <1>1, <1>2, Zenon DEF Polled

\* A new connection.
LEMMA ConnectStep ==
    ASSUME ServerInv, running, NEW c \in Conns, Connected(c)
    PROVE  ServerInv'
<1> USE SlotOf
<1> DEFINE h == Reset(hs[c])
<1>1. hs' = [hs EXCEPT ![c] = h] /\ running' = running /\ BoundaryThere'
  BY Zenon DEF Connected, httpd_state_reset, BoundaryThere
<1>2. h \in HState /\ Blank(h)
  BY StateTypes, Zenon
<1> HIDE DEF h
<1>3. mss' \in [Conns -> Nat] /\ outstanding' = [outstanding EXCEPT ![c] = 0] /\ 0 \in 0..PageLen
  BY ConnectFlight, StateTypes DEF Connected, Flight
<1>4. Grows /\ \E cl \in CState : /\ client' = [client EXCEPT ![c] = cl] /\ cl.file <= Len(files')
                                  /\ cl.file # 0 => cl.sent <= files'[cl.file].len + 3
  <2>1. CASE UNCHANGED peerVars
    BY <2>1, ZenonT(30) DEF peerVars, Grows, Shapes, Slot
  <2>2. CASE \E s \in Segments(c) : Sends(c, s)
    BY <2>2, SendsEffect, Zenon DEF ClientMoves
  <2> QED
    BY <2>1, <2>2, Zenon DEF Connected
<1>5. PICK cl \in CState : /\ client' = [client EXCEPT ![c] = cl] /\ cl.file <= Len(files')
                           /\ cl.file # 0 => cl.sent <= files'[cl.file].len + 3
  BY <1>4, Zenon
<1>6. Slot(h, cl, files') /\ (running' => Live(h, cl, 0, files'))
  BY <1>2, <1>5, BlankSlot, Zenon
<1> QED
  BY <1>1, <1>2, <1>3, <1>4, <1>5, <1>6, OneSlot, ZenonT(30)

\* A request that is answered: a page, a reply, or the last one before a reset.
LEMMA AnswerSteps ==
    ASSUME ServerInv, running, NoPostCommands, NEW c \in Conns, NEW s \in Segments(c),
           GetFile(c, s) \/ WebCommand(c, s) \/ ResetRequest(c, s)
    PROVE  ServerInv'
<1> USE SlotOf
<1>1. hs[c].state = "NONE" /\ Deliver(c, {"newdata"}, SendRest(PageLen, mss'[c]))
  BY Zenon DEF GetFile, WebCommand, ResetRequest, Requested
<1>2. mss' \in [Conns -> Nat] /\ \E o \in 0..PageLen : outstanding' = [outstanding EXCEPT ![c] = o]
  <2>1. NewMss(c)
    BY <1>1, Zenon DEF Deliver
  <2>2. mss' \in [Conns -> Nat]
    BY <2>1, NewMssType, Zenon
  <2>3. mss'[c] \in Nat /\ PageLen \in 0..PageLen
    BY <2>2, PageLenNat, Zenon
  <2>4. Flight(c, {"newdata"}, SendRest(PageLen, mss'[c]))
    BY <1>1, <2>3, SendRestType, DeliverFlight, Zenon
  <2> QED
    BY <2>2, <2>4, Zenon DEF Flight
<1>3. PICK o \in 0..PageLen : outstanding' = [outstanding EXCEPT ![c] = o]
  BY <1>2, Zenon
<1>4. client' = [client EXCEPT ![c] = client[c]] /\ files' = files /\ Grows /\ BoundaryThere'
  <2>1. client' = client /\ files' = files
    BY Zenon DEF GetFile, WebCommand, ResetRequest, peerVars
  <2>2. boundary_value' = boundary_value /\ data_start_found' = data_start_found
    BY Zenon DEF GetFile, WebCommand, ResetRequest, scanVars
  <2> QED
    BY <2>1, <2>2, Zenon DEF Grows, Shapes, BoundaryThere, ServerInv
<1>5. \E h \in HState : /\ hs' = [hs EXCEPT ![c] = h] /\ h.dataptr \notin Verdict
                        /\ running' => h.state = "FILE_REQUEST" /\ h.upload = PageLen
  <2>1. CASE GetFile(c, s)
    <3> DEFINE h == [hs[c] EXCEPT !.state = "FILE_REQUEST", !.dataptr = "page", !.upload = PageLen]
    <3>1. h \in HState
      BY PageLenNat, ZenonT(30) DEF HState, Content
    <3>2. h.state = "FILE_REQUEST" /\ h.dataptr \notin Verdict /\ h.upload = PageLen
      BY Zenon DEF HState, Verdict
    <3>3. hs' = [hs EXCEPT ![c] = h]
      BY <2>1, Zenon DEF GetFile, Shapes
    <3> HIDE DEF h
    <3> QED
      BY <3>1, <3>2, <3>3, Zenon
  <2>2. CASE WebCommand(c, s)
    <3>0. s.kind = "get_macrw"
      BY <2>2, Zenon DEF WebCommand, Segments, NoPostCommands
    <3> DEFINE h == [hs[c] EXCEPT !.state = "FILE_REQUEST", !.is_macrw_resp = TRUE, !.dataptr = "reply",
                                  !.upload = PageLen]
    <3>1. h \in HState
      BY PageLenNat, ZenonT(30) DEF HState, Content
    <3>2. h.state = "FILE_REQUEST" /\ h.dataptr \notin Verdict /\ h.upload = PageLen
      BY Zenon DEF HState, Verdict
    <3>3. hs' = [hs EXCEPT ![c] = h]
      BY <2>2, <3>0, Zenon DEF WebCommand, Shapes
    <3> HIDE DEF h
    <3> QED
      BY <3>1, <3>2, <3>3, Zenon
  <2>3. CASE ResetRequest(c, s)
    <3> DEFINE h == [hs[c] EXCEPT !.state = "UPLOAD_REQUEST", !.is_macrw_resp = TRUE, !.dataptr = "reply",
                                  !.upload = PageLen]
    <3>1. h \in HState
      BY PageLenNat, ZenonT(30) DEF HState, Content
    <3>2. h.dataptr \notin Verdict /\ h.state # "FILE_REQUEST"
      BY Zenon DEF HState, Verdict
    <3>3. hs' = [hs EXCEPT ![c] = h] /\ running' = FALSE
      BY <2>3, Zenon DEF ResetRequest, Shapes
    <3> HIDE DEF h
    <3> QED
      BY <3>1, <3>2, <3>3, ZenonT(30)
  <2> QED
    BY <2>1, <2>2, <2>3, Zenon
<1>6. PICK h \in HState : /\ hs' = [hs EXCEPT ![c] = h] /\ h.dataptr \notin Verdict
                          /\ running' => h.state = "FILE_REQUEST" /\ h.upload = PageLen
  BY <1>5, Zenon
<1>7. client[c].file = 0
  BY Zenon DEF GetFile, WebCommand, ResetRequest, Segments
<1>8. o <= PageLen /\ PageLen <= PageLen
  BY <1>3, PageLenNat
<1>9. Slot(h, client[c], files') /\ (running' => Live(h, client[c], o, files'))
  BY <1>4, <1>6, <1>7, <1>8, Zenon DEF Slot, Live
<1> QED
  BY <1>2, <1>3, <1>4, <1>6, <1>9, OneSlot, Zenon

\* A client that has sent an upload has nothing more to send while a page is on
\* its way to it; another one may send the rest of its request.
LEMMA PageKept ==
    ASSUME ServerInv, running, NEW c \in Conns, NEW s \in Segments(c), Sends(c, s),
           hs[c].state = "FILE_REQUEST"
    PROVE  /\ client[c].file = 0 /\ s.kind = "rest" /\ Grows
           /\ client' = [client EXCEPT ![c] = client[c]] /\ files' = files
<1>1. /\ Shapes /\ Slot(hs[c], client[c], files) /\ client[c].sent \in Nat
      /\ client[c].file # 0 => files[client[c].file].len \in Nat
  BY SlotOf, Zenon
<1>2. PICK cl \in CState : ClientMoves(c, s, cl)
  BY <1>1, SendsEffect, Zenon
<1>3. client[c].file = 0
  <2> SUFFICES ASSUME client[c].file # 0 PROVE FALSE
    BY Zenon
  <2>1. /\ cl.sent = client[c].sent + s.n /\ s.n \in Nat \ {0} /\ cl.sent <= files[client[c].file].len + 3
        /\ files[client[c].file].len \in Nat /\ client[c].sent = files[client[c].file].len + 3
    BY <1>1, <1>2, Zenon DEF ClientMoves, Slot
  <2> QED
    BY <2>1
<1>4. cl = client[c] /\ files' = files /\ client' = [client EXCEPT ![c] = cl]
  BY <1>2, <1>3, Zenon DEF ClientMoves
<1>5. s.kind = "rest"
  BY <1>3, Zenon DEF Segments
<1> QED
  BY <1>3, <1>4, <1>5, Zenon DEF Grows

\* Data that is not looked at.
LEMMA IgnoreStep ==
    ASSUME ServerInv, running, NEW c \in Conns, NEW s \in Segments(c), IgnoreData(c, s)
    PROVE  ServerInv'
<1> USE SlotOf
<1>1. hs[c].state = "FILE_REQUEST" /\ hs' = [hs EXCEPT ![c] = hs[c]] /\ running' = running /\ BoundaryThere'
  BY Zenon DEF IgnoreData, Shapes, scanVars, BoundaryThere, ServerInv
<1>2. mss' \in [Conns -> Nat] /\ outstanding' = [outstanding EXCEPT ![c] = 0] /\ 0 \in 0..PageLen
  BY DeliverFlight, StateTypes DEF IgnoreData, Flight
<1>3. Grows /\ client' = [client EXCEPT ![c] = client[c]] /\ files' = files
  BY <1>1, PageKept, Zenon DEF IgnoreData
<1>4. 0 <= hs[c].upload
  OBVIOUS
<1>5. running' => Live(hs[c], client[c], 0, files')
  BY <1>1, <1>4, Zenon DEF Live
<1>6. Slot(hs[c], client[c], files')
  BY <1>3, Zenon
<1> QED
  BY <1>1, <1>2, <1>3, <1>5, <1>6, OneSlot, Zenon

\* An acknowledgement: the page goes on or was the last part.
LEMMA AckStep ==
    ASSUME ServerInv, running, NEW c \in Conns, NEW ev, "acked" \in ev, Acked(c, ev)
    PROVE  ServerInv'
<1> USE SlotOf
<1> DEFINE left == hs[c].upload - outstanding[c]
           sending == hs[c].is_macrw_resp \/ hs[c].state = "FILE_REQUEST"
           last == LastPart(c, mss'[c])
           r == IF ~sending THEN NoReply ELSE IF last THEN Close ELSE SendRest(left, mss'[c])
<1>1. Deliver(c, ev, r) /\ running' = running
  BY Zenon DEF Acked
<1>2. hs[c].state = "FILE_REQUEST"
  <2>1. outstanding[c] # 0
    BY <1>1, Zenon DEF Deliver
  <2> QED
    BY <2>1, Zenon DEF Live
<1>3. mss' \in [Conns -> Nat]
  BY <1>1, NewMssType, Zenon DEF Deliver
<1>0. left \in 0..PageLen
  <2>1. /\ outstanding[c] \in Nat /\ hs[c].upload \in Nat /\ PageLen \in Nat
        /\ outstanding[c] <= hs[c].upload /\ hs[c].upload <= PageLen
    <3>1. outstanding[c] \in Nat
      BY PageLenNat
    <3> QED
      BY <1>2, <3>1, PageLenNat, Zenon DEF Live
  <2> HIDE SlotOf
  <2> QED
    BY <2>1
<1>4. r.n \in 0..PageLen
  <2>1. mss'[c] \in Nat
    BY <1>3, Zenon
  <2> QED
    BY <1>0, <2>1, SendRestType, StateTypes, Zenon
<1>5. Flight(c, ev, r)
  BY <1>1, <1>4, DeliverFlight, Zenon
<1>6. CASE last
  <2>1. r = Close /\ sending
    BY <1>2, <1>6, Zenon
  <2>2. outstanding' = [outstanding EXCEPT ![c] = 0] /\ 0 \in 0..PageLen
    <3>1. Flight(c, ev, Close) /\ Close.op # "send"
      BY <2>1, <1>5, Zenon DEF Close
    <3> QED
      BY <3>1, PageLenNat, Zenon DEF Flight
  <2>3. /\ hs' = [hs EXCEPT ![c] = ZeroState] /\ client' = [client EXCEPT ![c] = NoClient] /\ files' = files
        /\ boundary_value' = 0 /\ data_start_found' = FALSE
    BY <1>2, <1>6, Zenon DEF Acked
  <2>4. BoundaryThere' /\ Grows
    BY <2>3, Zenon DEF BoundaryThere, Grows
  <2>5. Slot(ZeroState, NoClient, files') /\ (running' => Live(ZeroState, NoClient, 0, files'))
    BY <2>3, NoClientSlot, StateTypes, Zenon DEF Shapes
  <2> QED
    BY <1>3, <2>2, <2>3, <2>4, <2>5, StateTypes, OneSlot, ZenonT(30)
<1>7. CASE ~last
  <2> DEFINE h == [hs[c] EXCEPT !.upload = left]
  <2>1. h \in HState
    <3>1. left \in Nat
      BY <1>0, PageLenNat
    <3> QED
      BY <3>1, Updates, Zenon
  <2>2. h.state = "FILE_REQUEST" /\ h.dataptr = hs[c].dataptr /\ h.upload = left
    BY <1>2, Zenon DEF HState
  <2>3. /\ hs' = [hs EXCEPT ![c].upload = left]
        /\ IF "newdata" \in ev THEN \E s \in Segments(c) : Sends(c, s) ELSE UNCHANGED peerVars
        /\ boundary_value' = boundary_value /\ data_start_found' = data_start_found
    BY <1>2, <1>7, Zenon DEF Acked, scanVars
  <2>4. hs' = [hs EXCEPT ![c] = h]
    BY <2>3, Zenon DEF Shapes
  <2> HIDE DEF h
  <2>5. Grows /\ client' = [client EXCEPT ![c] = client[c]] /\ files' = files
    <3>1. CASE \E s \in Segments(c) : Sends(c, s)
      BY <1>2, <3>1, PageKept, Zenon
    <3>2. CASE UNCHANGED peerVars
      BY <3>2, Zenon DEF peerVars, Grows, Shapes
    <3> QED
      BY <2>3, <3>1, <3>2, Zenon
  <2>6. Slot(h, client[c], files')
    BY <1>2, <2>2, <2>5, Zenon DEF Slot
  <2>7. PICK o \in 0..PageLen : /\ outstanding' = [outstanding EXCEPT ![c] = o]
                                /\ r.op # "send" => o = 0
                                /\ r.op = "send" => o = IF r.n > mss'[c] THEN mss'[c] ELSE r.n
    BY <1>5, Zenon DEF Flight
  <2>8. o <= left /\ left <= PageLen
    <3>1. r = SendRest(left, mss'[c]) /\ mss'[c] \in Nat
      BY <1>2, <1>3, <1>7, Zenon
    <3>2. r.n <= left /\ r.n \in 0..PageLen
      BY <1>0, <1>4, <3>1, SendRestType, Zenon
    <3> HIDE DEF r, left
    <3> HIDE SlotOf
    <3> QED
      BY <1>0, <2>7, <3>1, <3>2, PageLenNat
  <2>9. BoundaryThere' /\ (running' => Live(h, client[c], o, files'))
    BY <2>2, <2>3, <2>8, Zenon DEF BoundaryThere, Live, ServerInv
  <2> QED
    BY <1>3, <2>1, <2>4, <2>5, <2>6, <2>7, <2>9, OneSlot, ZenonT(30)
<1> QED
  BY <1>6, <1>7, Zenon

\* The start of the file is found in the first segment of the body: the slot
\* counts from there.
LEMMA StartFound ==
    ASSUME ServerInv, running, NEW c \in Conns, NEW h \in HState, NEW u, NEW n \in Nat, n >= 2, NEW at, NEW f,
           h.state = "UPLOAD_REQUEST", h.dataptr \notin Verdict,
           NEW cl \in CState, client' = [client EXCEPT ![c] = cl], Grows,
           cl.file # 0, cl.file <= Len(files'), cl.sent = n, cl.sent <= files'[cl.file].len + 3,
           files'[cl.file].len \in Nat, h.upload_total = files'[cl.file].len + 3,
           StoreFirst(c, h, u, n, at, f), boundary_value' # 0,
           mss' \in [Conns -> Nat], outstanding' = [outstanding EXCEPT ![c] = 0]
    PROVE  ServerInv'
<1> DEFINE g == [h EXCEPT !.upload_total = FileSize(h), !.upload = n - 2]
<1>0. h.upload_total \in Int /\ cl.sent \in Nat /\ FileSize(h) = files'[cl.file].len
  BY SMTT(30) DEF HState, CState, FileSize, Trailer
<1>1. g \in HState
  <2>1. FileSize(h) \in Nat /\ n - 2 \in Nat
    BY <1>0
  <2> QED
    BY <2>1, Updates, Zenon
<1>2. /\ g.state = "UPLOAD_REQUEST" /\ g.dataptr \notin Verdict
      /\ g.upload_total = files'[cl.file].len /\ g.upload = n - 2
  BY <1>0, Zenon DEF HState
<1>3. hs' = [hs EXCEPT ![c] = g] /\ running' = running /\ BoundaryThere'
  BY Zenon DEF StoreFirst, BoundaryThere
<1> HIDE DEF g
<1>4. Slot(g, cl, files') /\ (running' => Live(g, cl, 0, files'))
  BY <1>0, <1>2 DEF Slot, Live, Counts
<1> QED
  <2>1. 0 \in 0..PageLen
    BY PageLenNat
  <2> QED
    BY <1>1, <1>3, <1>4, <2>1, OneSlot, ZenonT(30)

\* An upload begins.
LEMMA UploadBegins ==
    ASSUME ServerInv, running, NEW c \in Conns, NEW s \in Segments(c), UploadRequest(c, s)
    PROVE  ServerInv'
<1> USE SlotOf
<1> DEFINE u == Len(files) + 1
           h == [hs[c] EXCEPT !.state = "UPLOAD_REQUEST", !.upload_total = BodyLen(s.file)]
           cl == [file |-> u, sent |-> s.n]
<1>1. s.kind = "post" /\ hs[c].state = "NONE" /\ Deliver(c, {"newdata"}, NoReply) /\ Sends(c, s)
  BY Zenon DEF UploadRequest, Requested
<1>2. mss' \in [Conns -> Nat] /\ outstanding' = [outstanding EXCEPT ![c] = 0] /\ 0 \in 0..PageLen
  BY <1>1, DeliverFlight, StateTypes DEF Flight
<1>3. s.n \in Nat /\ s.file \in FileKinds /\ s.n <= s.file.len + 3 /\ s.file.len \in Nat
  <2>1. s.n \in 0..MaxSeg /\ s.file \in FileKinds
    BY <1>1, Zenon DEF Segments
  <2> QED
    BY <2>1, HttpdAssumption
<1>4. files' = Append(files, s.file) /\ client' = [client EXCEPT ![c] = cl]
  BY <1>1, Zenon DEF Sends
<1>5. Grows /\ Len(files') = u /\ files'[u] = s.file
  BY <1>3, <1>4, SMTT(30) DEF Shapes, Grows
<1>6. cl \in CState /\ cl.file = u /\ cl.sent = s.n /\ u # 0
  BY <1>3 DEF CState
<1>7. h \in HState
  <2>1. BodyLen(s.file) \in Nat
    BY <1>3 DEF BodyLen, Trailer
  <2> QED
    BY <2>1, Updates, Zenon
<1>8. h.state = "UPLOAD_REQUEST" /\ h.upload = hs[c].upload /\ h.upload_total = s.file.len + 3
      /\ h.dataptr = hs[c].dataptr
  BY <1>3 DEF HState, BodyLen, Trailer
<1>9. h.dataptr \notin Verdict /\ h.upload = 0
  BY <1>1, <1>8, Zenon DEF Slot, Live
<1>10. boundary_value' = u /\ running' = running
  BY Zenon DEF UploadRequest, StoreFirst
<1>11. CASE HasStart(u, u, -1, s.n) /\ StoreFirst(c, h, u, s.n, 0, s.file)
  <2>1. s.n >= 2
    BY <1>11, Zenon DEF HasStart
  <2> HIDE DEF h, cl, u
  <2>2. /\ cl.file # 0 /\ cl.file <= Len(files') /\ cl.sent = s.n /\ cl.sent <= files'[cl.file].len + 3
        /\ files'[cl.file].len \in Nat /\ h.upload_total = files'[cl.file].len + 3 /\ boundary_value' # 0
    BY <1>3, <1>5, <1>6, <1>8, <1>10 DEF u
  <2> QED
    BY <1>2, <1>3, <1>4, <1>5, <1>6, <1>7, <1>8, <1>9, <1>11, <2>1, <2>2, StartFound, ZenonT(30)
<1>12. CASE hs' = [hs EXCEPT ![c] = h] /\ data_start_found' = FALSE
  <2>1. BoundaryThere'
    BY <1>12, Zenon DEF BoundaryThere
  <2> HIDE DEF h, cl, u
  <2>2. Slot(h, cl, files') /\ (running' => Live(h, cl, 0, files'))
    BY <1>3, <1>5, <1>6, <1>8, <1>9, SMTT(30) DEF Slot, Live, Counts
  <2> QED
    BY <1>2, <1>4, <1>5, <1>6, <1>7, <1>12, <2>1, <2>2, OneSlot, ZenonT(30)
<1> QED
  BY <1>11, <1>12, Zenon DEF UploadRequest

\* Data before the start of the file was found: it is in this segment, or the
\* upload is given up.
LEMMA FindStartStep ==
    ASSUME ServerInv, running, NEW c \in Conns, NEW s \in Segments(c), FindStart(c, s)
    PROVE  ServerInv'
<1> USE SlotOf
<1>1. hs[c].state = "UPLOAD_REQUEST"
  BY Zenon DEF FindStart
<1>2. CASE /\ Deliver(c, {"newdata"}, Abort) /\ httpd_state_reset(c)
           /\ client' = [client EXCEPT ![c] = NoClient] /\ files' = files /\ running' = running
  BY <1>2, OverFlight, DropKeeps, Zenon
<1>3. CASE /\ HasStart(boundary_value, client[c].file, client[c].sent - 1, s.n)
           /\ Deliver(c, {"newdata"}, NoReply) /\ Sends(c, s)
           /\ StoreFirst(c, hs[c], client[c].file, s.n, data_pointer, s.file)
           /\ boundary_value' = boundary_value
  <2>1. client[c].sent = 0 /\ s.n >= 2 /\ boundary_value # 0 /\ client[c].file # 0
    BY <1>3 DEF HasStart, HasName
  <2>2. mss' \in [Conns -> Nat] /\ outstanding' = [outstanding EXCEPT ![c] = 0]
    BY <1>3, DeliverFlight, StateTypes, SMTT(30) DEF Flight
  <2>3. Grows
    BY <1>3, SendsEffect, Zenon
  <2>4. PICK cl \in CState : ClientMoves(c, s, cl)
    BY <1>3, SendsEffect, Zenon
  <2>5. /\ client' = [client EXCEPT ![c] = cl] /\ files' = files /\ s.n \in Nat /\ cl.file = client[c].file
        /\ cl.sent = s.n /\ cl.file <= Len(files') /\ cl.file # 0 /\ cl.sent <= files'[cl.file].len + 3
    BY <2>1, <2>4 DEF ClientMoves
  <2>6. hs[c].upload_total = files[client[c].file].len + 3
    BY <1>1, <2>1 DEF Live, Counts
  <2>7. hs[c].dataptr \notin Verdict
    BY <1>1, Zenon DEF Slot
  <2>8. files'[cl.file].len \in Nat /\ hs[c].upload_total = files'[cl.file].len + 3 /\ boundary_value' # 0
    BY <1>3, <2>1, <2>5, <2>6, Zenon
  <2> QED
    BY <1>1, <1>3, <2>1, <2>2, <2>3, <2>5, <2>7, <2>8, StartFound, ZenonT(30)
<1> QED
  BY <1>2, <1>3, Zenon DEF FindStart, doneVars

\* What the count of the slot says of what the client has sent.
LEMMA SentAll ==
    ASSUME NEW upload \in Nat, NEW total \in Nat, NEW n \in Nat, NEW len \in Nat, NEW sent \in Nat,
           upload + n >= total + 1, sent + n <= len + 3,
           \/ total = len + 3 /\ upload <= sent
           \/ total = len /\ upload + 2 <= sent
    PROVE  sent + n = len + 3
OBVIOUS

\* Data of an upload whose start was found, by whomever: only the slot that has
\* found its own start and has sent all of its body completes.
LEMMA UploadDataStep ==
    ASSUME ServerInv, running, NEW c \in Conns, NEW s \in Segments(c), UploadData(c, s)
    PROVE  ServerInv'
<1> USE SlotOf
<1> DEFINE got == hs[c].upload + s.n
           complete == got >= hs[c].upload_total + Trailer
           r == IF complete THEN SendRest(PageLen, mss'[c]) ELSE NoReply
           f == files[client[c].file]
<1>1. /\ hs[c].state = "UPLOAD_REQUEST" /\ data_start_found /\ Deliver(c, {"newdata"}, r)
      /\ Sends(c, s) /\ running' = running
  BY Zenon DEF UploadData
<1>2. mss' \in [Conns -> Nat]
  BY <1>1, NewMssType, Zenon DEF Deliver
<1>3. r.n \in 0..PageLen
  <2>1. mss'[c] \in Nat
    BY <1>2, Zenon
  <2> QED
    BY <2>1, SendRestType, StateTypes, PageLenNat, Zenon
<1>4. Flight(c, {"newdata"}, r)
  BY <1>1, <1>3, DeliverFlight, Zenon
<1>5. client[c].file # 0 /\ Counts(hs[c], client[c], files)
  BY <1>1, Zenon DEF Live, Counts
<1>6. Grows
  BY <1>1, SendsEffect, Zenon
<1>7. PICK cl \in CState : ClientMoves(c, s, cl)
  BY <1>1, SendsEffect, Zenon
<1>8. /\ client' = [client EXCEPT ![c] = cl] /\ files' = files /\ s.n \in Nat /\ cl.file = client[c].file
      /\ cl.sent = client[c].sent + s.n /\ cl.file <= Len(files') /\ cl.file # 0 /\ cl.sent <= f.len + 3
      /\ f.len \in Nat
  BY <1>5, <1>7, Zenon DEF ClientMoves
<1>9. CASE complete
  <2> DEFINE h == [Reset(hs[c]) EXCEPT !.state = "FILE_REQUEST", !.upload = PageLen,
                                       !.dataptr = IF upload_failed THEN "fail" ELSE "flashing"]
  <2>1. /\ hs' = [hs EXCEPT ![c] = h] /\ boundary_value' = 0 /\ data_start_found' = FALSE
    BY <1>9, Zenon DEF UploadData
  <2>2. h \in HState
    BY StateTypes, PageLenNat, ZenonT(30) DEF HState, Content
  <2>3. h.state = "FILE_REQUEST" /\ h.upload = PageLen
    BY StateTypes DEF HState
  <2>4. cl.sent = f.len + 3
    <3>1. got \in Nat /\ got >= hs[c].upload_total + 1
      BY <1>8, <1>9, SMTT(30) DEF Trailer
    <3>2. hs[c].upload \in Nat /\ hs[c].upload_total \in Nat /\ client[c].sent \in Nat
      BY Zenon
    <3>3. \/ hs[c].upload_total = f.len + 3 /\ hs[c].upload <= client[c].sent
          \/ hs[c].upload_total = f.len /\ hs[c].upload + 2 <= client[c].sent
      BY <1>5, Zenon DEF Counts
    <3>4. hs[c].upload + s.n >= hs[c].upload_total + 1 /\ client[c].sent + s.n <= f.len + 3
      BY <3>1, <1>8, Zenon
    <3>5. f.len \in Nat /\ s.n \in Nat
      BY <1>8, Zenon
    <3>6. client[c].sent + s.n = f.len + 3
      <4> HIDE DEF f, got
      <4> HIDE SlotOf
      <4> QED
        BY <3>2, <3>3, <3>4, <3>5, SentAll, SMTT(30)
    <3> QED
      BY <3>6, <1>8, Zenon
  <2> HIDE DEF h
  <2>5. Slot(h, cl, files')
    BY <1>8, <2>3, <2>4, Zenon DEF Slot
  <2>6. PICK o \in 0..PageLen : outstanding' = [outstanding EXCEPT ![c] = o]
    BY <1>4, Zenon DEF Flight
  <2>7. BoundaryThere' /\ (running' => Live(h, cl, o, files'))
    <3>1. o <= PageLen /\ PageLen <= PageLen
      BY <2>6, PageLenNat
    <3> QED
      BY <2>1, <2>3, <3>1, ZenonT(30) DEF BoundaryThere, Live
  <2> QED
    BY <1>2, <1>6, <1>8, <2>1, <2>2, <2>5, <2>6, <2>7, OneSlot, ZenonT(30)
<1>10. CASE ~complete
  <2> DEFINE h == [hs[c] EXCEPT !.upload = got]
  <2>1. h \in HState
    <3>1. got \in Nat /\ hs[c] \in HState
      BY <1>8, SMTT(30)
    <3> QED
      BY <3>1, Updates, Zenon
  <2>2. /\ h.state = "UPLOAD_REQUEST" /\ h.dataptr = hs[c].dataptr
        /\ h.upload = got /\ h.upload_total = hs[c].upload_total
    BY <1>1, Zenon DEF HState
  <2>3. hs' = [hs EXCEPT ![c] = h]
    BY <1>10, Zenon DEF UploadData, Shapes
  <2>4. BoundaryThere'
    BY <1>10, Zenon DEF UploadData, scanVars, BoundaryThere, ServerInv
  <2>5. outstanding' = [outstanding EXCEPT ![c] = 0] /\ 0 \in 0..PageLen
    <3>1. Flight(c, {"newdata"}, NoReply)
      BY <1>4, <1>10, Zenon
    <3> QED
      BY <3>1, StateTypes, Zenon DEF Flight
  <2> HIDE DEF h
  <2>6. Slot(h, cl, files')
    BY <1>1, <1>8, <2>2, ZenonT(30) DEF Slot
  <2>7. running' => Live(h, cl, 0, files')
    BY <1>5, <1>8, <2>2, SMTT(30) DEF Live, Counts
  <2> QED
    BY <1>2, <1>6, <1>8, <2>1, <2>3, <2>4, <2>5, <2>6, <2>7, OneSlot, ZenonT(30)
<1> QED
  BY <1>9, <1>10, Zenon

\* Every step keeps the invariant.
LEMMA ServerStep ==
    ASSUME ServerInv, NoPostCommands, Next
    PROVE  ServerInv'
<1>1. PICK c \in Conns : running /\ (Packet(c) \/ Timer(c))
  BY DEF Next
<1>2. CASE Packet(c)
  BY <1>1, <1>2, EndSteps, ConnectStep, QuietSteps, AckStep, AnswerSteps, UploadBegins, IgnoreStep,
     FindStartStep, UploadDataStep, ZenonT(30) DEF Packet
<1>3. CASE Timer(c)
  BY <1>1, <1>3, EndSteps, PollStep, QuietSteps, ZenonT(30) DEF Timer
<1> QED
  BY <1>1, <1>2, <1>3

\* It holds at the start.
LEMMA ServerInit ==
    ASSUME Init
    PROVE  ServerInv
<1>1. Shapes
  <2>1. files \in Seq(FileKinds) /\ 0 \in Nat
    BY DEF Init
  <2> QED
    BY <2>1, StateTypes, PageLenNat, Zenon DEF Init, ApiInit, Shapes
<1>2. \A d \in Conns : hs[d] = ZeroState /\ client[d] = NoClient /\ outstanding[d] = 0
  BY DEF Init, ApiInit
<1>3. \A d \in Conns : Slot(hs[d], client[d], files) /\ Live(hs[d], client[d], outstanding[d], files)
  BY <1>1, <1>2, StateTypes, NoClientSlot, Zenon DEF Shapes
<1> QED
  BY <1>1, <1>3 DEF ServerInv, BoundaryThere, Init

\* Every step keeps it.
LEMMA ServerKept ==
    ASSUME NoPostCommands, ServerInv, [Next]_vars
    PROVE  ServerInv'
<1>1. CASE Next
  BY <1>1, ServerStep
<1>2. CASE UNCHANGED vars
  BY <1>2, Zenon DEF vars, apiVars, httpdVars, scanVars, peerVars, ServerInv, Shapes, BoundaryThere
<1> QED
  BY <1>1, <1>2

\* The invariant, for any number of slots and uploads.
LEMMA ServerInvariant ==
    ASSUME NoPostCommands
    PROVE  Spec => []ServerInv
BY ServerInit, ServerKept, PTL DEF Spec

\* strlen(boundary_value) is never taken of NULL, however many connections
\* free the shared boundary under each other.
THEOREM BoundaryCorrect ==
    ASSUME NoPostCommands
    PROVE  Spec => []BoundaryThere
<1>1. ServerInv => BoundaryThere
  BY DEF ServerInv
<1> QED
  BY <1>1, ServerInvariant, PTL

\* Only a client that has sent all of its upload is told that it was uploaded,
\* for any number of slots that share the scanner and the buffer.
THEOREM FlashingCorrect ==
    ASSUME NoPostCommands
    PROVE  Spec => []FlashingMeansWhole
<1>1. ServerInv => FlashingMeansWhole
  <2> SUFFICES ASSUME ServerInv, NEW c \in Conns, hs[c].dataptr = "flashing"
               PROVE  client[c].file # 0 /\ client[c].sent = BodyLen(files[client[c].file])
    BY Zenon DEF FlashingMeansWhole
  <2>1. Slot(hs[c], client[c], files) /\ client[c] \in CState /\ files \in Seq(FileKinds)
    BY Zenon DEF ServerInv, Shapes
  <2>2. /\ client[c].file # 0 /\ client[c].sent = files[client[c].file].len + 3
        /\ client[c].file \in Nat /\ client[c].file <= Len(files)
    BY <2>1, Zenon DEF Slot, CState, Verdict
  <2>3. files[client[c].file].len \in Nat
    <3>1. client[c].file \in 1..Len(files)
      BY <2>1, <2>2
    <3> QED
      BY <2>1, <3>1, FileLen, Zenon
  <2> QED
    BY <2>2, <2>3, SMTT(30) DEF BodyLen, Trailer
<1> QED
  BY <1>1, ServerInvariant, PTL

-----------------------------------------------------------------------------
(***************************************************************************)
(* Types.  ServerInv has those of the slots, which depend on what they     *)
(* serve: a page has no more in flight than is left of it, so that the     *)
(* rest never becomes negative (hs->upload and uip_conn->len are u16_t).   *)
(***************************************************************************)
Flags ==
    /\ data_start_found \in BOOLEAN /\ post_done \in BOOLEAN /\ upload_failed \in BOOLEAN
    /\ ready_for_upgrade \in BOOLEAN /\ running \in BOOLEAN
    /\ upgrade_type \in Types /\ data_pointer \in Nat /\ NetBootFileXferSize \in Nat

Globals ==
    /\ phase \in [Conns -> Phase]
    /\ boundary_value \in 0..Len(files)
    /\ Flags

\* A step of the stack for slot c moves this slot only.
OneMoves(c) ==
    /\ \E p \in Phase : phase' = [phase EXCEPT ![c] = p]
    /\ \E o : outstanding' = [outstanding EXCEPT ![c] = o]

LEMMA RepliedMoves ==
    ASSUME NEW c \in Conns, NEW ev, NEW r, Replied(c, ev, r)
    PROVE  OneMoves(c)
<1>1. {"idle", "closing", "open"} \subseteq Phase
  BY DEF Phase
<1> QED
  BY <1>1, Zenon DEF Replied, Moves, OneMoves

LEMMA ApiMoves ==
    ASSUME Shapes, phase \in [Conns -> Phase], NEW c \in Conns, NEW ev, NEW r,
           \/ Deliver(c, ev, r) \/ Connect(c, ev, r) \/ Poll(c, r) \/ Rexmit(c, r) \/ PeerClose(c, ev, r)
           \/ CloseDone(c, r) \/ Lost(c, ev, r) \/ Accept(c) \/ Window(c) \/ Forget(c)
    PROVE  OneMoves(c)
<1>1. {"idle", "closing", "pending"} \subseteq Phase
  BY DEF Phase
<1>2. CASE Deliver(c, ev, r) \/ Connect(c, ev, r) \/ Poll(c, r)
  BY <1>2, RepliedMoves, Zenon DEF Deliver, Connect, Poll
<1>3. CASE Rexmit(c, r) \/ Window(c)
  <2>1. phase' = [phase EXCEPT ![c] = phase[c]] /\ outstanding' = [outstanding EXCEPT ![c] = outstanding[c]]
    BY <1>3, Zenon DEF Rexmit, Window, Shapes
  <2> QED
    BY <2>1, Zenon DEF OneMoves
<1>4. CASE PeerClose(c, ev, r) \/ CloseDone(c, r) \/ Lost(c, ev, r) \/ Accept(c) \/ Forget(c)
  BY <1>1, <1>4, Zenon DEF PeerClose, CloseDone, Lost, Accept, Forget, Moves, OneMoves
<1> QED
  BY <1>2, <1>3, <1>4, Zenon

\* A step of the server for slot c moves this slot only.
LEMMA StepMoves ==
    ASSUME Shapes, phase \in [Conns -> Phase], NEW c \in Conns, Packet(c) \/ Timer(c)
    PROVE  OneMoves(c) /\ \A d \in Conns : d # c => hs'[d] = hs[d]
<1>1. CASE Timer(c)
  <2>1. OneMoves(c)
    BY <1>1, ApiMoves, Zenon DEF Timer, Polled, SendAgain, Aborted
  <2>2. \A d \in Conns : d # c => hs'[d] = hs[d]
    BY <1>1, Zenon DEF Timer, Polled, SendAgain, Aborted, Drop, httpd_state_reset, httpdVars, Shapes
  <2> QED
    BY <2>1, <2>2, Zenon
<1>2. CASE Closed(c) \/ Aborted(c, {"abort"}) \/ Connected(c) \/ Unnoticed(c)
  <2>1. OneMoves(c)
    BY <1>2, ApiMoves, Zenon DEF Closed, Aborted, Connected, Unnoticed
  <2>2. \A d \in Conns : d # c => hs'[d] = hs[d]
    BY <1>2, Zenon DEF Closed, Aborted, Connected, Unnoticed, Drop, httpd_state_reset, httpdVars, Shapes
  <2> QED
    BY <2>1, <2>2, Zenon
<1>3. ASSUME NEW ev, Acked(c, ev) PROVE OneMoves(c) /\ \A d \in Conns : d # c => hs'[d] = hs[d]
  <2>1. OneMoves(c)
    BY <1>3, ApiMoves, Zenon DEF Acked
  <2>2. \A d \in Conns : d # c => hs'[d] = hs[d]
    BY <1>3, Zenon DEF Acked, Shapes
  <2> QED
    BY <2>1, <2>2, Zenon
<1>4. ASSUME NEW s \in Segments(c),
             \/ BadRequest(c, s) \/ GetFile(c, s) \/ WebCommand(c, s) \/ ResetRequest(c, s)
             \/ UploadRequest(c, s) \/ IgnoreData(c, s) \/ FindStart(c, s) \/ UploadData(c, s)
      PROVE  OneMoves(c) /\ \A d \in Conns : d # c => hs'[d] = hs[d]
  <2>1. \E ev, r : Deliver(c, ev, r)
    BY <1>4, Zenon DEF BadRequest, GetFile, WebCommand, ResetRequest, UploadRequest, IgnoreData, FindStart,
       UploadData, Requested
  <2>2. OneMoves(c)
    BY <2>1, ApiMoves, Zenon
  <2>3. \A d \in Conns : d # c => hs'[d] = hs[d]
    <3>1. CASE BadRequest(c, s) \/ GetFile(c, s) \/ WebCommand(c, s) \/ ResetRequest(c, s)
      BY <3>1, Zenon DEF BadRequest, GetFile, WebCommand, ResetRequest, Drop, httpd_state_reset, Shapes
    <3>2. CASE UploadRequest(c, s)
      BY <3>2, Zenon DEF UploadRequest, StoreFirst, Shapes
    <3>3. CASE IgnoreData(c, s) \/ FindStart(c, s) \/ UploadData(c, s)
      BY <3>3, Zenon DEF IgnoreData, FindStart, UploadData, StoreFirst, httpd_state_reset, Shapes
    <3> QED
      BY <1>4, <3>1, <3>2, <3>3, Zenon
  <2> QED
    BY <2>2, <2>3, Zenon
<1> QED
  BY <1>1, <1>2, <1>3, <1>4, Zenon DEF Packet

\* No step forgets an upload.
LEMMA UploadsKept ==
    ASSUME ServerInv, running, NEW c \in Conns, Packet(c) \/ Timer(c)
    PROVE  Grows
<1>1. Shapes /\ Slot(hs[c], client[c], files)
  BY SlotOf, Zenon
<1>2. \/ files' = files
      \/ \E s \in Segments(c) : Sends(c, s)
  BY Zenon DEF Packet, Timer, Closed, Aborted, Connected, Unnoticed, Acked, BadRequest, GetFile, WebCommand,
     ResetRequest, UploadRequest, IgnoreData, FindStart, UploadData, Polled, SendAgain, Drop, httpdVars, peerVars
<1> QED
  BY <1>1, <1>2, SendsEffect, Zenon DEF Grows

\* A segment has a length, and the file it is of has a type.
LEMMA SegmentType ==
    ASSUME ServerInv, running, NEW c \in Conns, NEW s \in Segments(c)
    PROVE  /\ s.n \in Nat
           /\ s.kind = "post" \/ client[c].file # 0 => s.file.type \in Types
<1>1. /\ s.n \in 0..MaxSeg \/ s.n \in 1..MaxSeg \/ s.n = 1 \/ s.n = 0
      /\ client[c].file # 0 => s.file = files[client[c].file]
      /\ client[c].file = 0 /\ s.kind = "post" => s.file \in FileKinds
  BY Zenon DEF Segments
<1>2. client[c].file # 0 => files[client[c].file] \in FileKinds
  <2>1. client[c].file \in Nat /\ Len(files) \in Nat /\ Slot(hs[c], client[c], files) /\ Shapes
    BY SlotOf, Zenon
  <2>2. client[c].file # 0 => client[c].file \in 1..Len(files)
    BY <2>1 DEF Slot
  <2> QED
    BY <2>1, <2>2, FileLen, Zenon DEF Shapes
<1>3. s.n \in Nat
  BY <1>1, HttpdAssumption
<1> QED
  BY <1>1, <1>2, <1>3, HttpdAssumption, Zenon

\* The start of a file leaves flags and counters in their types.
LEMMA StoreFirstFlags ==
    ASSUME Flags, NEW c, NEW h, NEW u, NEW n \in Nat, n >= 2, NEW at \in Nat, NEW f, f.type \in Types,
           StoreFirst(c, h, u, n, at, f)
    PROVE  Flags'
<1>1. at + n - 2 \in Nat
  OBVIOUS
<1> QED
  BY <1>1, Zenon DEF StoreFirst, Flags

\* So does every step.
LEMMA FlagsStep ==
    ASSUME ServerInv, running, Flags, NEW c \in Conns, Packet(c) \/ Timer(c)
    PROVE  Flags'
<1>1. CASE Timer(c)
  BY <1>1, Zenon DEF Timer, Polled, SendAgain, Aborted, Drop, httpd_state_reset, httpdVars, scanVars, doneVars,
     loadVars, Flags
<1>2. CASE Closed(c) \/ Aborted(c, {"abort"}) \/ Connected(c) \/ Unnoticed(c)
  BY <1>2, Zenon DEF Closed, Aborted, Connected, Unnoticed, Drop, httpd_state_reset, httpdVars, scanVars, doneVars,
     loadVars, Flags
<1>3. ASSUME NEW ev, Acked(c, ev) PROVE Flags'
  BY <1>3, Zenon DEF Acked, scanVars, doneVars, loadVars, Flags
<1>4. ASSUME NEW s \in Segments(c),
             BadRequest(c, s) \/ GetFile(c, s) \/ WebCommand(c, s) \/ ResetRequest(c, s) \/ IgnoreData(c, s)
      PROVE  Flags'
  BY <1>4, Zenon DEF BadRequest, GetFile, WebCommand, ResetRequest, IgnoreData, Drop, httpd_state_reset, scanVars,
     doneVars, loadVars, Flags
<1>5. ASSUME NEW s \in Segments(c), UploadRequest(c, s) PROVE Flags'
  <2>1. s.n \in Nat /\ s.file.type \in Types
    BY <1>5, SegmentType, Zenon DEF UploadRequest
  <2> DEFINE u == Len(files) + 1
             h == [hs[c] EXCEPT !.state = "UPLOAD_REQUEST", !.upload_total = BodyLen(s.file)]
  <2>2. CASE HasStart(u, u, -1, s.n) /\ StoreFirst(c, h, u, s.n, 0, s.file)
    <3>1. s.n >= 2
      BY <2>2, Zenon DEF HasStart
    <3> QED
      BY <2>1, <2>2, <3>1, StoreFirstFlags, Zenon
  <2>3. CASE ~HasStart(u, u, -1, s.n)
    <3>1. 0 \in Nat
      OBVIOUS
    <3> QED
      BY <1>5, <2>1, <2>3, <3>1, Zenon DEF UploadRequest, doneVars, Flags
  <2> QED
    BY <1>5, <2>2, <2>3, Zenon DEF UploadRequest
<1>6. ASSUME NEW s \in Segments(c), FindStart(c, s) PROVE Flags'
  <2>1. s.n \in Nat /\ s.file.type \in Types
    <3>1. Live(hs[c], client[c], outstanding[c], files)
      BY SlotOf, Zenon
    <3>2. client[c].file # 0
      BY <1>6, <3>1, Zenon DEF FindStart, Live, Counts
    <3> QED
      BY <3>2, SegmentType, Zenon
  <2> DEFINE start == HasStart(boundary_value, client[c].file, client[c].sent - 1, s.n)
  <2>2. CASE start
    <3>1. s.n >= 2 /\ data_pointer \in Nat
      BY <2>2, Zenon DEF HasStart, Flags
    <3>2. StoreFirst(c, hs[c], client[c].file, s.n, data_pointer, s.file)
      BY <1>6, <2>2, Zenon DEF FindStart
    <3> QED
      BY <2>1, <3>1, <3>2, StoreFirstFlags, Zenon
  <2>3. CASE ~start
    BY <1>6, <2>1, <2>3, Zenon DEF FindStart, httpd_state_reset, doneVars, Flags
  <2> QED
    BY <2>2, <2>3, Zenon
<1>7. ASSUME NEW s \in Segments(c), UploadData(c, s) PROVE Flags'
  <2>1. s.n \in Nat /\ hs[c].upload_total \in Nat
    BY SegmentType, SlotOf, Zenon
  <2>2. data_pointer + s.n \in Nat
    BY <2>1 DEF Flags
  <2> QED
    BY <1>7, <2>1, <2>2, Zenon DEF UploadData, scanVars, doneVars, Flags
<1> QED
  BY <1>1, <1>2, <1>3, <1>4, <1>5, <1>6, <1>7, Zenon DEF Packet

\* The boundary is that of an upload that was begun.
LEMMA BoundaryStep ==
    ASSUME ServerInv, running, boundary_value \in 0..Len(files), NEW c \in Conns, Packet(c) \/ Timer(c)
    PROVE  boundary_value' \in 0..Len(files')
<1>1. /\ files' \in Seq(FileKinds) /\ Len(files) <= Len(files')
      /\ Len(files) \in Nat /\ Len(files') \in Nat
  BY UploadsKept, FilesGrow DEF ServerInv, Shapes
<1>2. ASSUME NEW s \in Segments(c), UploadRequest(c, s) PROVE boundary_value' \in 0..Len(files')
  <2>1. s.kind = "post" /\ boundary_value' = Len(files) + 1 /\ Sends(c, s)
    BY <1>2, Zenon DEF UploadRequest
  <2>2. files' = Append(files, s.file)
    BY <2>1, Zenon DEF Sends
  <2>3. Len(files') = Len(files) + 1
    <3>1. files \in Seq(FileKinds) /\ files' \in Seq(FileKinds)
      BY <1>1, Zenon DEF ServerInv, Shapes
    <3> QED
      BY <2>2, <3>1
  <2> QED
    BY <1>1, <2>1, <2>3
<1>3. boundary_value' = boundary_value \/ boundary_value' = 0 \/ \E s \in Segments(c) : UploadRequest(c, s)
  BY Zenon DEF Packet, Timer, Closed, Aborted, Connected, Unnoticed, Acked, BadRequest, GetFile, WebCommand,
     ResetRequest, IgnoreData, FindStart, UploadData, Polled, SendAgain, Drop, httpd_state_reset, httpdVars, scanVars
<1>4. CASE boundary_value' = boundary_value \/ boundary_value' = 0
  BY <1>1, <1>4
<1> QED
  BY <1>2, <1>3, <1>4, Zenon

LEMMA GlobalsInit ==
    ASSUME Init
    PROVE  Globals
<1>1. 0 \in Nat /\ Len(files) \in Nat
  BY DEF Init
<1>2. boundary_value \in 0..Len(files)
  BY <1>1 DEF Init
<1>3. "firmware" \in Types /\ "idle" \in Phase
  BY DEF Types, Phase
<1> QED
  BY <1>1, <1>2, <1>3, Zenon DEF Init, ApiInit, Globals, Flags

LEMMA GlobalsKept ==
    ASSUME ServerInv, Globals, [Next]_vars
    PROVE  Globals'
<1>1. CASE Next
  <2>1. PICK c \in Conns : running /\ (Packet(c) \/ Timer(c))
    BY <1>1, Zenon DEF Next
  <2>2. phase' \in [Conns -> Phase]
    BY <2>1, StepMoves, Zenon DEF OneMoves, Globals, ServerInv
  <2>3. boundary_value' \in 0..Len(files')
    BY <2>1, BoundaryStep, Zenon DEF Globals
  <2> QED
    BY <2>1, <2>2, <2>3, FlagsStep, Zenon DEF Globals
<1>2. CASE UNCHANGED vars
  BY <1>2, Zenon DEF vars, apiVars, httpdVars, scanVars, doneVars, loadVars, peerVars, Globals, Flags
<1> QED
  BY <1>1, <1>2, Zenon

\* Every variable keeps its type, for any number of slots and uploads: counters
\* never become negative, nothing more is in flight than a page has, and
\* whatever a slot or the scanner refers to is an upload that was begun.
THEOREM TypeCorrect ==
    ASSUME NoPostCommands
    PROVE  Spec => []TypeOK
<1>1. ASSUME ServerInv, Globals PROVE TypeOK
  <2>1. client \in [Conns -> [file: 0..Len(files), sent: Nat]]
    <3>1. \A c \in Conns : client[c] \in CState /\ client[c].file <= Len(files)
      BY <1>1, Zenon DEF ServerInv, Shapes, Slot
    <3>2. Len(files) \in Nat /\ client \in [Conns -> CState]
      BY <1>1 DEF ServerInv, Shapes
    <3>3. \A c \in Conns : client[c] \in [file: 0..Len(files), sent: Nat]
      BY <3>1, <3>2 DEF CState
    <3> QED
      BY <3>2, <3>3, Zenon
  <2> QED
    BY <1>1, <2>1, Zenon DEF ServerInv, Shapes, HState, Globals, Flags, TypeOK
<1> QED
  BY <1>1, ServerInit, ServerKept, GlobalsInit, GlobalsKept, PTL DEF Spec

-----------------------------------------------------------------------------
(***************************************************************************)
(* Pages.  A page goes on as long as nobody sends while it is on its way   *)
(* and the peer takes parts of one size: what is in flight is then exactly *)
(* the next part of what is left, and the size that the server compares    *)
(* the rest with (uip_mss() at the acknowledgement) is that of the part.   *)
(***************************************************************************)
SteadyPages(m) == "rest" \notin Requests /\ m \in Nat \ {0} /\ Mss = {m}

Part(n, m) == IF n > m THEN m ELSE n

\* What slot c sends of its page.
Paged(c, m) ==
    phase[c] = "open" /\ hs[c].state = "FILE_REQUEST"
    => hs[c].upload # 0 /\ outstanding[c] = Part(hs[c].upload, m)

\* All slots send their pages so.
PageInv(m) == \A c \in Conns : Paged(c, m)

\* The next part of a page is in flight after it was sent.
LEMMA PartSent ==
    ASSUME ServerInv, running, NEW m, SteadyPages(m), NEW c \in Conns, NEW ev, NEW left \in 0..PageLen, left # 0,
           Deliver(c, ev, SendRest(left, mss'[c])), "acked" \in ev \/ outstanding[c] = 0
    PROVE  outstanding'[c] = Part(left, m)
<1> DEFINE r == SendRest(left, mss'[c])
<1>1. Shapes
  BY DEF ServerInv
<1>2. mss'[c] = m /\ m \in Nat /\ m # 0
  <2>1. \E k \in Mss : mss' = [mss EXCEPT ![c] = k]
    BY Zenon DEF Deliver, NewMss
  <2> QED
    BY <1>1, <2>1, Zenon DEF SteadyPages, Shapes
<1>3. r.n \in 0..PageLen /\ r.op = "send" /\ r.n = Part(left, m)
  BY <1>2, SendRestType, Zenon DEF Part
<1>4. Flight(c, ev, r)
  BY <1>1, <1>3, DeliverFlight, Zenon
<1> HIDE DEF r
<1>5. outstanding'[c] = IF r.n > m THEN m ELSE r.n
  BY <1>1, <1>2, <1>3, <1>4, Zenon DEF Flight, Shapes
<1> QED
  BY <1>2, <1>3, <1>5 DEF Part

\* A slot whose state is not that of a page sends none.
LEMMA Pageless ==
    ASSUME NEW c \in Conns, NEW m, NEW h, hs \in [Conns -> HState], hs' = [hs EXCEPT ![c] = h],
           h.state # "FILE_REQUEST"
    PROVE  Paged(c, m)'
BY Zenon DEF Paged

\* A page that begins.
LEMMA PageBegins ==
    ASSUME ServerInv, running, NEW m, SteadyPages(m), NEW c \in Conns, hs[c].state # "FILE_REQUEST",
           Deliver(c, {"newdata"}, SendRest(PageLen, mss'[c])),
           NEW h, hs' = [hs EXCEPT ![c] = h], h.upload = PageLen
    PROVE  Paged(c, m)'
<1>1. outstanding[c] = 0 /\ PageLen \in 0..PageLen /\ PageLen # 0
  BY SlotOf, PageLenNat, Zenon DEF Live
<1>2. outstanding'[c] = Part(PageLen, m)
  BY <1>1, PartSent, Zenon
<1>3. hs'[c] = h
  BY Zenon DEF ServerInv, Shapes
<1> QED
  BY <1>1, <1>2, <1>3, Zenon DEF Paged

\* The end of a connection.
LEMMA PageDropped ==
    ASSUME ServerInv, NEW c \in Conns, NEW m, Drop(c) \/ httpd_state_reset(c)
    PROVE  Paged(c, m)'
<1>1. hs' = [hs EXCEPT ![c] = Reset(hs[c])] /\ hs[c] \in HState
  BY Zenon DEF Drop, httpd_state_reset, ServerInv, Shapes
<1>2. Reset(hs[c]).state # "FILE_REQUEST"
  BY Zenon DEF Reset, ZeroState
<1> QED
  BY <1>1, <1>2, Pageless, Zenon DEF ServerInv, Shapes

\* A step of the timer: a slot that sends a page is not polled.
LEMMA PageTimer ==
    ASSUME ServerInv, running, phase \in [Conns -> Phase], NEW m, SteadyPages(m), NEW c \in Conns, Paged(c, m),
           Timer(c)
    PROVE  Paged(c, m)'
<1>1. CASE Aborted(c, {"timedout"}) \/ Drop(c)
  BY <1>1, PageDropped, Zenon DEF Aborted
<1>2. CASE SendAgain(c)
  BY <1>2, Zenon DEF SendAgain, Rexmit, httpdVars, Paged
<1>3. CASE Forget(c) /\ UNCHANGED httpdVars
  <2>1. phase'[c] = "idle"
    BY <1>3, Zenon DEF Forget, Moves
  <2> QED
    BY <2>1, Zenon DEF Paged
<1>4. CASE Poll(c, NoReply) /\ hs' = [hs EXCEPT ![c].count = @ + 1]
  <2>1. phase[c] = "open" /\ outstanding[c] = 0
    BY <1>4, Zenon DEF Poll
  <2>2. hs[c].upload \in Nat /\ m \in Nat /\ m # 0
    BY SlotOf, Zenon DEF SteadyPages
  <2>3. hs[c].state # "FILE_REQUEST"
    BY <2>1, <2>2 DEF Paged, Part
  <2>4. hs'[c].state = hs[c].state
    BY <1>4, Zenon DEF ServerInv, Shapes, HState
  <2> QED
    BY <2>3, <2>4, Zenon DEF Paged
<1> QED
  BY <1>1, <1>2, <1>3, <1>4, Zenon DEF Timer, Polled

\* An acknowledgement of a page, and what is left of it.
LEMMA PageGoesOn ==
    ASSUME ServerInv, running, NEW m, SteadyPages(m), NEW c \in Conns, Paged(c, m),
           NEW ev, "acked" \in ev, Acked(c, ev)
    PROVE  /\ Paged(c, m)'
           /\ hs[c].state = "FILE_REQUEST"
           /\ LastPart(c, mss'[c]) => outstanding[c] = hs[c].upload
<1> DEFINE left == hs[c].upload - outstanding[c]
<1>1. phase[c] = "open" /\ outstanding[c] # 0 /\ NewMss(c)
  BY Zenon DEF Acked, Deliver
<1>2. /\ hs[c].state = "FILE_REQUEST" /\ outstanding[c] = Part(hs[c].upload, m) /\ hs[c].upload # 0
      /\ hs[c].upload \in Nat /\ hs[c].upload <= PageLen
  BY <1>1, SlotOf, Zenon DEF Live, Paged
<1>3. mss'[c] = m /\ m \in Nat /\ m # 0
  BY <1>1, Zenon DEF SteadyPages, ServerInv, Shapes, NewMss
<1>4. LastPart(c, mss'[c]) <=> hs[c].upload <= m
  BY <1>3, Zenon DEF LastPart
<1>5. hs[c].upload <= m => outstanding[c] = hs[c].upload
  BY <1>2, <1>3 DEF Part
<1>6. ~(hs[c].upload <= m) => left \in 0..PageLen /\ left # 0
  BY <1>2, <1>3, PageLenNat DEF Part
<1>7. Paged(c, m)'
  <2>1. CASE LastPart(c, mss'[c])
    <3>1. hs' = [hs EXCEPT ![c] = ZeroState]
      BY <1>2, <2>1, Zenon DEF Acked
    <3>2. ZeroState.state # "FILE_REQUEST"
      BY Zenon DEF ZeroState
    <3> QED
      BY <3>1, <3>2, Pageless, Zenon DEF ServerInv, Shapes
  <2>2. CASE ~LastPart(c, mss'[c])
    <3>1. Deliver(c, ev, SendRest(left, mss'[c])) /\ hs' = [hs EXCEPT ![c].upload = left]
      BY <1>2, <2>2, Zenon DEF Acked
    <3>2. hs'[c].upload = left
      BY <3>1, Zenon DEF ServerInv, Shapes, HState
    <3>3. left \in 0..PageLen /\ left # 0
      BY <1>4, <1>6, <2>2, Zenon
    <3> HIDE DEF left
    <3>4. outstanding'[c] = Part(left, m)
      BY <3>1, <3>3, PartSent, Zenon
    <3> QED
      BY <3>2, <3>3, <3>4, Zenon DEF Paged
  <2> QED
    BY <2>1, <2>2, Zenon
<1> QED
  BY <1>2, <1>4, <1>5, <1>7, Zenon

\* A segment with data: a page begins, or there is none.
LEMMA PageSegment ==
    ASSUME ServerInv, running, NoPostCommands, NEW m, SteadyPages(m), NEW c \in Conns, NEW s \in Segments(c),
           \/ BadRequest(c, s) \/ GetFile(c, s) \/ WebCommand(c, s) \/ ResetRequest(c, s)
           \/ UploadRequest(c, s) \/ IgnoreData(c, s) \/ FindStart(c, s) \/ UploadData(c, s)
    PROVE  Paged(c, m)'
<1>0. hs \in [Conns -> HState] /\ hs[c] \in HState
  BY Zenon DEF ServerInv, Shapes
<1>1. CASE BadRequest(c, s)
  BY <1>1, PageDropped, Zenon DEF BadRequest
<1>2. CASE GetFile(c, s)
  <2> DEFINE h == [hs[c] EXCEPT !.state = "FILE_REQUEST", !.dataptr = "page", !.upload = PageLen]
  <2>1. hs' = [hs EXCEPT ![c] = h] /\ h.upload = PageLen
    BY <1>0, <1>2, Zenon DEF GetFile, HState
  <2> HIDE DEF h
  <2>2. hs[c].state # "FILE_REQUEST" /\ Deliver(c, {"newdata"}, SendRest(PageLen, mss'[c]))
    BY <1>2, Zenon DEF GetFile, Requested
  <2> QED
    BY <2>1, <2>2, PageBegins, Zenon
<1>3. CASE WebCommand(c, s)
  <2> DEFINE h == [hs[c] EXCEPT !.state = IF s.kind = "get_macrw" THEN "FILE_REQUEST" ELSE "UPLOAD_REQUEST",
                                !.is_macrw_resp = TRUE, !.dataptr = "reply", !.upload = PageLen]
  <2>1. hs' = [hs EXCEPT ![c] = h] /\ h.upload = PageLen
    BY <1>0, <1>3, Zenon DEF WebCommand, HState
  <2> HIDE DEF h
  <2>2. hs[c].state # "FILE_REQUEST" /\ Deliver(c, {"newdata"}, SendRest(PageLen, mss'[c]))
    BY <1>3, Zenon DEF WebCommand, Requested
  <2> QED
    BY <2>1, <2>2, PageBegins, Zenon
<1>4. CASE ResetRequest(c, s)
  <2> DEFINE h == [hs[c] EXCEPT !.state = "UPLOAD_REQUEST", !.is_macrw_resp = TRUE, !.dataptr = "reply",
                                !.upload = PageLen]
  <2>1. hs' = [hs EXCEPT ![c] = h] /\ h.state # "FILE_REQUEST"
    BY <1>0, <1>4, Zenon DEF ResetRequest, HState
  <2> HIDE DEF h
  <2> QED
    BY <1>0, <2>1, Pageless, Zenon
<1>5. ASSUME NEW h, NEW u, NEW at, h \in HState, h.state = "UPLOAD_REQUEST", StoreFirst(c, h, u, s.n, at, s.file)
      PROVE  Paged(c, m)'
  <2> DEFINE g == [h EXCEPT !.upload_total = FileSize(h), !.upload = s.n - 2]
  <2>1. hs' = [hs EXCEPT ![c] = g] /\ g.state # "FILE_REQUEST"
    BY <1>5, Zenon DEF StoreFirst, HState
  <2> HIDE DEF g
  <2> QED
    BY <1>0, <2>1, Pageless, Zenon
<1>6. CASE UploadRequest(c, s)
  <2> DEFINE u == Len(files) + 1
             h == [hs[c] EXCEPT !.state = "UPLOAD_REQUEST", !.upload_total = BodyLen(s.file)]
  <2>1. StoreFirst(c, h, u, s.n, 0, s.file) \/ hs' = [hs EXCEPT ![c] = h]
    BY <1>6, Zenon DEF UploadRequest
  <2>2. h \in HState /\ h.state = "UPLOAD_REQUEST"
    <3>1. s.file.len \in Nat
      BY <1>6, HttpdAssumption, Zenon DEF UploadRequest, Segments, Requested
    <3>2. BodyLen(s.file) \in Nat
      BY <3>1 DEF BodyLen, Trailer
    <3> QED
      BY <1>0, <3>2, ZenonT(30) DEF HState
  <2> HIDE DEF h, u
  <2> QED
    BY <1>0, <1>5, <2>1, <2>2, Pageless, Zenon
<1>7. CASE IgnoreData(c, s)
  <2>1. s.kind = "rest"
    BY <1>7, PageKept, Zenon DEF IgnoreData
  <2>2. hs[c].state = "FILE_REQUEST" /\ client[c].file = 0
    BY <1>7, PageKept, Zenon DEF IgnoreData
  <2> QED
    BY <2>1, <2>2, Zenon DEF Segments, SteadyPages
<1>8. CASE FindStart(c, s)
  <2>1. hs[c].state = "UPLOAD_REQUEST"
    BY <1>8, Zenon DEF FindStart
  <2>2. \/ StoreFirst(c, hs[c], client[c].file, s.n, data_pointer, s.file)
        \/ httpd_state_reset(c)
    BY <1>8, Zenon DEF FindStart
  <2> QED
    BY <1>0, <1>5, <2>1, <2>2, PageDropped, Zenon
<1>9. CASE UploadData(c, s)
  <2> DEFINE complete == hs[c].upload + s.n >= hs[c].upload_total + Trailer
  <2>1. hs[c].state = "UPLOAD_REQUEST"
    BY <1>9, Zenon DEF UploadData
  <2>2. CASE ~complete
    <3> DEFINE h == [hs[c] EXCEPT !.upload = hs[c].upload + s.n]
    <3>1. hs' = [hs EXCEPT ![c] = h] /\ h.state # "FILE_REQUEST"
      BY <1>0, <1>9, <2>1, <2>2, Zenon DEF UploadData, HState
    <3> HIDE DEF h
    <3> QED
      BY <1>0, <3>1, Pageless, Zenon
  <2>3. CASE complete
    <3> DEFINE h == [Reset(hs[c]) EXCEPT !.state = "FILE_REQUEST", !.upload = PageLen,
                                         !.dataptr = IF upload_failed THEN "fail" ELSE "flashing"]
    <3>1. hs' = [hs EXCEPT ![c] = h] /\ Deliver(c, {"newdata"}, SendRest(PageLen, mss'[c]))
      BY <1>9, <2>3, Zenon DEF UploadData
    <3>2. h.upload = PageLen
      BY Zenon DEF Reset, ZeroState
    <3> HIDE DEF h
    <3> QED
      BY <2>1, <3>1, <3>2, PageBegins, Zenon
  <2> QED
    BY <2>2, <2>3, Zenon
<1> QED
  BY <1>1, <1>2, <1>3, <1>4, <1>6, <1>7, <1>8, <1>9, Zenon

\* Every step keeps the pages going.
LEMMA PageStep ==
    ASSUME ServerInv, Globals, NoPostCommands, NEW m, SteadyPages(m), PageInv(m), [Next]_vars
    PROVE  PageInv(m)'
<1>1. CASE Next
  <2>1. PICK c \in Conns : running /\ (Packet(c) \/ Timer(c))
    BY <1>1, Zenon DEF Next
  <2>2. Paged(c, m) /\ Shapes /\ phase \in [Conns -> Phase]
    BY Zenon DEF PageInv, ServerInv, Globals
  <2>3. Paged(c, m)'
    <3>1. CASE Timer(c)
      BY <2>1, <2>2, <3>1, PageTimer, Zenon
    <3>2. CASE Closed(c) \/ Aborted(c, {"abort"}) \/ Connected(c)
      BY <3>2, PageDropped, Zenon DEF Closed, Aborted, Connected
    <3>3. CASE Unnoticed(c)
      <4>1. CASE Accept(c)
        <5>1. phase'[c] = "pending"
          BY <2>2, <4>1, Zenon DEF Accept, Moves
        <5> QED
          BY <5>1, Zenon DEF Paged
      <4>2. CASE Window(c)
        BY <2>2, <3>3, <4>2, Zenon DEF Unnoticed, Window, httpdVars, Paged
      <4> QED
        BY <3>3, <4>1, <4>2, Zenon DEF Unnoticed
    <3>4. CASE \E ev \in {{"acked"}, {"acked", "newdata"}} : Acked(c, ev)
      <4>1. \E ev : "acked" \in ev /\ Acked(c, ev)
        BY <3>4, Zenon
      <4> QED
        BY <2>1, <2>2, <4>1, PageGoesOn, Zenon
    <3> QED
      BY <2>1, <3>1, <3>2, <3>3, <3>4, PageSegment, Zenon DEF Packet
  <2>4. ASSUME NEW d \in Conns, d # c PROVE Paged(d, m)'
    <3>1. OneMoves(c) /\ hs'[d] = hs[d]
      BY <2>1, <2>2, <2>4, StepMoves, Zenon
    <3>2. phase'[d] = phase[d] /\ outstanding'[d] = outstanding[d]
      BY <2>2, <2>4, <3>1, Zenon DEF OneMoves, Shapes
    <3> QED
      BY <3>1, <3>2, Zenon DEF Paged, PageInv
  <2> QED
    BY <2>3, <2>4, Zenon DEF PageInv
<1>2. CASE UNCHANGED vars
  BY <1>2, Zenon DEF vars, apiVars, httpdVars, PageInv, Paged
<1> QED
  BY <1>1, <1>2, Zenon

\* The server hears of an acknowledgement in one way only.
LEMMA HeardOf ==
    ASSUME NEW d \in Conns, Packet(d) \/ Timer(d), NEW c \in Conns, upcall'.conn = c, "acked" \in upcall'.ev
    PROVE  \E ev : "acked" \in ev /\ Acked(c, ev)
<1>1. "acked" \notin NoCall.ev
  BY Zenon DEF NoCall
<1>2. ASSUME NEW ev, NEW r, Call(d, ev, r) PROVE upcall'.conn = d /\ upcall'.ev = ev
  BY <1>2, Zenon DEF Call
<1>3. ~Timer(d)
  BY <1>1, <1>2 DEF Timer, Polled, SendAgain, Aborted, Poll, Rexmit, Lost, Forget
<1>4. ~(Closed(d) \/ Aborted(d, {"abort"}) \/ Connected(d) \/ Unnoticed(d))
  BY <1>1, <1>2 DEF Closed, Aborted, Connected, Unnoticed, PeerClose, CloseDone, Lost, Connect, Accept, Window
<1>5. ASSUME NEW s,
             \/ BadRequest(d, s) \/ GetFile(d, s) \/ WebCommand(d, s) \/ ResetRequest(d, s)
             \/ UploadRequest(d, s) \/ IgnoreData(d, s) \/ FindStart(d, s) \/ UploadData(d, s)
      PROVE  FALSE
  <2>1. \E r : Call(d, {"newdata"}, r)
    BY <1>5, Zenon DEF BadRequest, GetFile, WebCommand, ResetRequest, UploadRequest, IgnoreData, FindStart,
       UploadData, Requested, Deliver
  <2> QED
    BY <1>2, <2>1
<1>6. PICK ev \in {{"acked"}, {"acked", "newdata"}} : Acked(d, ev)
  BY <1>3, <1>4, <1>5, Zenon DEF Packet
<1>7. upcall'.conn = d
  BY <1>2, <1>6, Zenon DEF Acked, Deliver
<1> QED
  BY <1>6, <1>7, Zenon

\* A page that is being sent has data in flight at all times, for any number of
\* slots, any length of the page and any size of its parts: the server, which
\* only goes on at an acknowledgement, never waits for one that cannot come.
THEOREM PageCorrect ==
    ASSUME NoPostCommands, NEW m, SteadyPages(m)
    PROVE  Spec => []PageInFlight
<1>1. Init => PageInv(m)
  <2> SUFFICES ASSUME Init, NEW c \in Conns PROVE Paged(c, m)
    BY Zenon DEF PageInv
  <2> QED
    BY Zenon DEF Init, ApiInit, Paged
<1>2. ASSUME ServerInv, PageInv(m) PROVE PageInFlight
  <2> SUFFICES ASSUME NEW c \in Conns, phase[c] = "open", hs[c].state = "FILE_REQUEST" PROVE outstanding[c] # 0
    BY Zenon DEF PageInFlight
  <2>1. hs[c].upload # 0 /\ outstanding[c] = Part(hs[c].upload, m) /\ hs[c].upload \in Nat /\ m \in Nat /\ m # 0
    BY <1>2, Zenon DEF PageInv, Paged, SteadyPages, ServerInv, Shapes, HState
  <2> QED
    BY <2>1 DEF Part
<1> QED
  BY <1>1, <1>2, ServerInit, ServerKept, GlobalsInit, GlobalsKept, PageStep, PTL DEF Spec

\* The server closes a connection after a page only when the last byte of the
\* page has been acknowledged, although it never looks at what was in flight.
THEOREM WholePageCorrect ==
    ASSUME NoPostCommands, NEW m, SteadyPages(m)
    PROVE  Spec => WholePageSent
<1> DEFINE Whole == \A c \in Conns : /\ hs[c].state = "FILE_REQUEST"
                                     /\ upcall'.conn = c /\ upcall'.reply = Close /\ "acked" \in upcall'.ev
                                     => outstanding[c] = hs[c].upload
<1>1. Init => PageInv(m)
  <2> SUFFICES ASSUME Init, NEW c \in Conns PROVE Paged(c, m)
    BY Zenon DEF PageInv
  <2> QED
    BY Zenon DEF Init, ApiInit, Paged
<1>2. ASSUME ServerInv, PageInv(m), [Next]_vars PROVE [Whole]_vars
  <2> SUFFICES ASSUME Next, NEW c \in Conns, hs[c].state = "FILE_REQUEST",
                      upcall'.conn = c, upcall'.reply = Close, "acked" \in upcall'.ev
               PROVE  outstanding[c] = hs[c].upload
    BY <1>2, Zenon
  <2>1. running /\ \E ev : "acked" \in ev /\ Acked(c, ev)
    BY HeardOf, Zenon DEF Next
  <2>2. PICK ev : "acked" \in ev /\ Acked(c, ev)
    BY <2>1, Zenon
  <2> DEFINE left == hs[c].upload - outstanding[c]
  <2>3. CASE LastPart(c, mss'[c])
    BY <1>2, <2>1, <2>2, <2>3, PageGoesOn, Zenon DEF PageInv
  <2>4. CASE ~LastPart(c, mss'[c])
    <3>1. Call(c, ev, SendRest(left, mss'[c]))
      BY <2>2, <2>4, Zenon DEF Acked, Deliver
    <3>2. upcall'.reply = SendRest(left, mss'[c])
      BY <3>1 DEF Call
    <3>3. SendRest(left, mss'[c]).op # "close"
      BY Zenon DEF SendRest, NoReply
    <3>4. Close.op = "close"
      BY DEF Close
    <3> QED
      BY <3>2, <3>3, <3>4
  <2> QED
    BY <2>3, <2>4, Zenon
<1> QED
  BY <1>1, <1>2, ServerInit, ServerKept, GlobalsInit, GlobalsKept, PageStep, PTL DEF Spec, WholePageSent
=============================================================================
