-------------------------- MODULE HttpdImageProofs --------------------------
(***************************************************************************)
(* Proofs about the image that the web server asks to be flashed.  With    *)
(* one upload, and no command that uses the upload buffer, it is that      *)
(* upload, whatever the other connections do and however the body is cut.  *)
(***************************************************************************)
EXTENDS HttpdProofs

\* One upload, and nobody else who writes to the buffer.
OneUpload == MaxUploads = 1 /\ Requests \cap {"get_macrw", "post_macrw", "setenv"} = {}

\* The first n units of the upload are at the start of the buffer.
Stored(n) == \A i \in 1..n : ram[i] = <<1, i>>

\* The upload of slot c is under way.
Uploading(c) ==
    /\ ~post_done /\ ~ready_for_upgrade
    /\ data_start_found => /\ hs[c].upload_total = files[1].len /\ hs[c].upload + 2 = client[c].sent
                           /\ upgrade_type = files[1].type
                           /\ ~upload_failed => /\ data_pointer + 2 = client[c].sent
                                                /\ SizeOK(files[1]) /\ Stored(data_pointer)
    /\ client[c].sent = 0 => data_pointer = 0 /\ ~upload_failed

\* The upload has come in, and the buffer holds it unless it was refused.
Complete == upgrade_type = files[1].type /\ NetBootFileXferSize = files[1].len
Intact == SizeOK(files[1]) /\ Stored(files[1].len)

ImageInv ==
    /\ data_pointer \in Int
    /\ Len(files) <= 1
    /\ \A c, d \in Conns : client[c].file # 0 /\ client[d].file # 0 => c = d
    /\ upload_failed \/ post_done \/ ready_for_upgrade => Len(files) = 1
    /\ running => \A c \in Conns : hs[c].state = "UPLOAD_REQUEST" => Uploading(c)
    /\ post_done => Complete /\ (~upload_failed => Intact)
    /\ ready_for_upgrade => Complete /\ Intact

\* A step of slot c leaves the uploads alone, or is the first to begin one.
PeersMove(c) ==
    \E cl \in CState :
       /\ client' = [client EXCEPT ![c] = cl]
       /\ \/ files' = files /\ (cl.file = 0 \/ cl.file = client[c].file)
          \/ Len(files) = 0 /\ Len(files') = 1

\* Nobody has an upload before the first one was begun.
LEMMA NoneYet ==
    ASSUME ServerInv, Len(files) = 0, NEW d \in Conns
    PROVE  /\ client[d].file = 0
           /\ running => hs[d].state # "UPLOAD_REQUEST"
<1>1. client[d].file \in Nat /\ client[d].file <= 0
  BY Zenon DEF ServerInv, Shapes, CState, Slot
<1> QED
  BY <1>1 DEF ServerInv, Live, Counts

\* One slot at most has the upload.
LEMMA Unique ==
    ASSUME ServerInv, ImageInv, NEW c \in Conns, PeersMove(c)
    PROVE  /\ files' = files \/ (Len(files) = 0 /\ Len(files') = 1)
           /\ \A a, b \in Conns : client'[a].file # 0 /\ client'[b].file # 0 => a = b
<1>1. PICK cl \in CState :
         /\ client' = [client EXCEPT ![c] = cl]
         /\ \/ files' = files /\ (cl.file = 0 \/ cl.file = client[c].file)
            \/ Len(files) = 0 /\ Len(files') = 1
  BY Zenon DEF PeersMove
<1>2. \A a \in Conns : client'[a] = IF a = c THEN cl ELSE client[a]
  BY <1>1, Zenon DEF ServerInv, Shapes
<1>3. \A a, b \in Conns : client[a].file # 0 /\ client[b].file # 0 => a = b
  BY Zenon DEF ImageInv
<1>4. Len(files) = 0 => \A a \in Conns : client[a].file = 0
  BY NoneYet
<1> QED
  BY <1>1, <1>2, <1>3, <1>4

\* Clients move so.
LEMMA SendsMove ==
    ASSUME Shapes, OneUpload, NEW c \in Conns, NEW s \in Segments(c), Sends(c, s), Slot(hs[c], client[c], files)
    PROVE  PeersMove(c)
<1>1. PICK cl \in CState : client' = [client EXCEPT ![c] = cl]
  BY SendsEffect DEF ClientMoves
<1>2. client[c] \in CState /\ client'[c] = cl /\ Len(files) \in Nat
  BY <1>1 DEF Shapes
<1>3. CASE files' = files /\ client'[c].file = client[c].file
  BY <1>1, <1>2, <1>3, Zenon DEF PeersMove
<1>4. CASE Len(files) = 0 /\ Len(files') = 1
  BY <1>1, <1>4, Zenon DEF PeersMove
<1>5. s.kind = "post" => s.file \in FileKinds
  BY Zenon DEF Segments
<1> QED
  <2>1. CASE s.kind = "body"
    BY <1>2, <1>3, <2>1 DEF Sends, Shapes, CState
  <2>2. CASE s.kind = "post"
    <3>1. Len(files) < 1 /\ files' = Append(files, s.file)
      BY <2>2 DEF Sends, OneUpload
    <3>2. Len(files) = 0 /\ Len(files') = 1
      BY <1>2, <1>5, <2>2, <3>1 DEF Shapes
    <3> QED
      BY <3>2, <1>4
  <2>3. CASE s.kind \notin {"body", "post"}
    BY <1>2, <1>3, <2>3, Zenon DEF Sends, peerVars
  <2> QED
    BY <2>1, <2>2, <2>3

\* The variables of the result and of the buffer stay the same.
Untouched ==
    /\ post_done' = post_done /\ upload_failed' = upload_failed /\ ready_for_upgrade' = ready_for_upgrade
    /\ NetBootFileXferSize' = NetBootFileXferSize
    /\ upgrade_type' = upgrade_type /\ data_pointer' = data_pointer /\ ram' = ram

\* A step that does not touch them keeps the invariant, unless it changes what
\* an upload has counted.
LEMMA ImageKept ==
    ASSUME ServerInv, ImageInv, running, NEW c \in Conns, NEW h, hs' = [hs EXCEPT ![c] = h], PeersMove(c),
           Untouched, data_start_found' = data_start_found \/ data_start_found' = FALSE,
           running' => \/ h.state # "UPLOAD_REQUEST"
                       \/ /\ h.state = hs[c].state /\ h.upload = hs[c].upload /\ h.upload_total = hs[c].upload_total
                          /\ client'[c].sent = client[c].sent
    PROVE  ImageInv'
<1>1. /\ files' = files \/ (Len(files) = 0 /\ Len(files') = 1)
      /\ \A a, b \in Conns : client'[a].file # 0 /\ client'[b].file # 0 => a = b
  BY Unique, Zenon
<1>2. ASSUME running', NEW d \in Conns, hs'[d].state = "UPLOAD_REQUEST"
      PROVE  /\ hs[d].state = "UPLOAD_REQUEST" /\ hs'[d].upload = hs[d].upload
             /\ hs'[d].upload_total = hs[d].upload_total /\ client'[d].sent = client[d].sent
  <2>1. CASE d = c
    BY <1>2, <2>1, Zenon DEF ServerInv, Shapes
  <2>2. CASE d # c
    BY <1>2, <2>2, Zenon DEF ServerInv, Shapes, PeersMove
  <2> QED
    BY <2>1, <2>2, Zenon
<1>3. CASE files' = files
  <2>1. ASSUME running', NEW d \in Conns, hs'[d].state = "UPLOAD_REQUEST" PROVE Uploading(d)'
    <3>1. Uploading(d)
      BY <1>2, <2>1, Zenon DEF ImageInv
    <3> QED
      BY <1>2, <1>3, <2>1, <3>1 DEF Uploading, Untouched, Stored, SizeOK
  <2>2. Complete' = Complete /\ Intact' = Intact
    BY <1>3, Zenon DEF Complete, Intact, Untouched, Stored, SizeOK
  <2> QED
    BY <1>1, <1>3, <2>1, <2>2, Zenon DEF ImageInv, Untouched
<1>4. CASE Len(files) = 0 /\ Len(files') = 1
  <2>1. ~upload_failed /\ ~post_done /\ ~ready_for_upgrade
    BY <1>4 DEF ImageInv
  <2>2. ASSUME running', NEW d \in Conns PROVE hs'[d].state # "UPLOAD_REQUEST"
    BY <1>2, <1>4, <2>2, NoneYet, ZenonT(30)
  <2> QED
    BY <1>1, <1>4, <2>1, <2>2 DEF ImageInv, Untouched
<1> QED
  BY <1>1, <1>3, <1>4, Zenon

\* A slot that is given up has no upload.
LEMMA DropMoves ==
    ASSUME Shapes, NEW c \in Conns, client' = [client EXCEPT ![c] = NoClient], files' = files
    PROVE  PeersMove(c)
BY StateTypes, Zenon DEF PeersMove

\* A slot whose client does nothing.
LEMMA StayMoves ==
    ASSUME Shapes, NEW c \in Conns, UNCHANGED peerVars
    PROVE  PeersMove(c) /\ client'[c] = client[c]
<1>1. client[c] \in CState /\ client' = [client EXCEPT ![c] = client[c]] /\ files' = files
  BY DEF Shapes, peerVars
<1> QED
  BY <1>1, Zenon DEF PeersMove, peerVars

\* The steps of the first kind.
LEMMA ImageQuiet ==
    ASSUME ServerInv, ImageInv, OneUpload, running, NEW c \in Conns,
           \/ Closed(c) \/ \E ev \in {{"abort"}, {"timedout"}} : Aborted(c, ev)
           \/ \E s \in Segments(c) : BadRequest(c, s) \/ GetFile(c, s) \/ ResetRequest(c, s) \/ IgnoreData(c, s)
           \/ Connected(c) \/ Unnoticed(c) \/ SendAgain(c) \/ (Forget(c) /\ UNCHANGED httpdVars) \/ Polled(c)
    PROVE  ImageInv'
<1>0. hs[c] \in HState /\ Shapes /\ Slot(hs[c], client[c], files)
  BY SlotOf, Zenon
<1>1. CASE Drop(c)
  <2>1. /\ hs' = [hs EXCEPT ![c] = Reset(hs[c])] /\ PeersMove(c) /\ Untouched /\ data_start_found' = FALSE
        /\ Reset(hs[c]).state = "NONE"
    BY <1>0, <1>1, DropMoves, StateTypes, ZenonT(30) DEF Drop, httpd_state_reset, Untouched, doneVars,
       loadVars
  <2> QED
    BY <2>1, ImageKept, Zenon
<1>2. CASE UNCHANGED httpdVars
  <2>1. hs' = [hs EXCEPT ![c] = hs[c]] /\ Untouched /\ data_start_found' = data_start_found
    BY <1>0, <1>2, ZenonT(30) DEF httpdVars, scanVars, doneVars, loadVars, Shapes, Untouched
  <2>2. PeersMove(c) /\ client'[c] = client[c]
    BY <1>0, <1>2, StayMoves, ZenonT(30) DEF httpdVars
  <2> QED
    BY <2>1, <2>2, ImageKept, Zenon
<1>3. CASE hs' = [hs EXCEPT ![c].count = @ + 1] /\ UNCHANGED <<scanVars, doneVars, loadVars, running, peerVars>>
  <2> DEFINE h == [hs[c] EXCEPT !.count = @ + 1]
  <2>1. hs' = [hs EXCEPT ![c] = h]
    BY <1>3, Zenon DEF Shapes
  <2>2. h.state = hs[c].state /\ h.upload = hs[c].upload /\ h.upload_total = hs[c].upload_total
    BY <1>0 DEF HState
  <2>3. Untouched /\ data_start_found' = data_start_found
    BY <1>3, Zenon DEF scanVars, doneVars, loadVars, Untouched
  <2>4. PeersMove(c) /\ client'[c] = client[c]
    BY <1>0, <1>3, StayMoves, ZenonT(30)
  <2> HIDE DEF h
  <2> QED
    BY <2>1, <2>2, <2>3, <2>4, ImageKept, ZenonT(30)
<1>4. CASE Connected(c)
  <2>1. hs' = [hs EXCEPT ![c] = Reset(hs[c])] /\ Untouched /\ data_start_found' = FALSE /\ Reset(hs[c]).state = "NONE"
    BY <1>0, <1>4, StateTypes, ZenonT(30) DEF Connected, httpd_state_reset, Untouched, doneVars, loadVars
  <2>2. PeersMove(c)
    BY <1>0, <1>4, StayMoves, SendsMove, ZenonT(30) DEF Connected
  <2> QED
    BY <2>1, <2>2, ImageKept, Zenon
<1>5. ASSUME NEW s \in Segments(c), GetFile(c, s) PROVE ImageInv'
  <2> DEFINE h == [hs[c] EXCEPT !.state = "FILE_REQUEST", !.dataptr = "page", !.upload = PageLen]
  <2>1. hs' = [hs EXCEPT ![c] = h]
    BY <1>0, <1>5, ZenonT(30) DEF GetFile, Shapes
  <2>2. h.state = "FILE_REQUEST"
    BY <1>0 DEF HState
  <2>3. Untouched /\ data_start_found' = data_start_found /\ PeersMove(c)
    BY <1>0, <1>5, StayMoves, ZenonT(30) DEF GetFile, scanVars, doneVars, loadVars, Untouched
  <2> HIDE DEF h
  <2> QED
    BY <2>1, <2>2, <2>3, ImageKept, ZenonT(30)
<1>6. ASSUME NEW s \in Segments(c), ResetRequest(c, s) PROVE ImageInv'
  <2> DEFINE h == [hs[c] EXCEPT !.state = "UPLOAD_REQUEST", !.is_macrw_resp = TRUE, !.dataptr = "reply",
                                !.upload = PageLen]
  <2>1. hs' = [hs EXCEPT ![c] = h] /\ ~running'
    BY <1>0, <1>6, Zenon DEF ResetRequest, Shapes
  <2>3. Untouched /\ data_start_found' = data_start_found /\ PeersMove(c)
    BY <1>0, <1>6, StayMoves, ZenonT(30) DEF ResetRequest, scanVars, doneVars, loadVars, Untouched
  <2> HIDE DEF h
  <2> QED
    BY <2>1, <2>3, ImageKept, ZenonT(30)
<1>7. ASSUME NEW s \in Segments(c), IgnoreData(c, s) PROVE ImageInv'
  <2>1. hs' = [hs EXCEPT ![c] = hs[c]] /\ hs[c].state = "FILE_REQUEST"
    BY <1>7, <1>0, Zenon DEF IgnoreData, Shapes
  <2>2. Untouched /\ data_start_found' = data_start_found /\ PeersMove(c)
    BY <1>7, <1>0, SendsMove, ZenonT(30) DEF IgnoreData, scanVars, doneVars, loadVars, Untouched
  <2> QED
    BY <2>1, <2>2, ImageKept, Zenon
<1> QED
  BY <1>1, <1>2, <1>3, <1>4, <1>5, <1>6, <1>7, ZenonT(30) DEF Closed, Aborted, BadRequest, Polled, Unnoticed,
     SendAgain

\* An acknowledgement: the last one of the answer to an upload asks for the upgrade.
LEMMA ImageAck ==
    ASSUME ServerInv, ImageInv, OneUpload, running, NEW c \in Conns, NEW ev, "acked" \in ev, Acked(c, ev)
    PROVE  ImageInv'
<1> DEFINE left == hs[c].upload - outstanding[c]
           sending == hs[c].is_macrw_resp \/ hs[c].state = "FILE_REQUEST"
           last == LastPart(c, mss'[c])
           posted == post_done /\ ~hs[c].is_macrw_resp
<1>0. hs[c] \in HState /\ Shapes /\ Slot(hs[c], client[c], files)
  BY SlotOf, Zenon
<1>1. hs[c].state = "FILE_REQUEST"
  <2>1. outstanding[c] # 0
    BY Zenon DEF Acked, Deliver
  <2> QED
    BY <2>1, SlotOf, Zenon DEF Live
<1>2. CASE ~last
  <2> DEFINE h == [hs[c] EXCEPT !.upload = left]
  <2>1. /\ hs' = [hs EXCEPT ![c].upload = left]
        /\ IF "newdata" \in ev THEN \E s \in Segments(c) : Sends(c, s) ELSE UNCHANGED peerVars
        /\ Untouched /\ data_start_found' = data_start_found
    BY <1>1, <1>2, Zenon DEF Acked, scanVars, doneVars, loadVars, Untouched
  <2>2. hs' = [hs EXCEPT ![c] = h]
    BY <1>0, <2>1 DEF Shapes
  <2>3. h.state = "FILE_REQUEST"
    BY <1>0, <1>1 DEF HState
  <2>4. PeersMove(c)
    BY <1>0, <2>1, StayMoves, SendsMove, ZenonT(30)
  <2> HIDE DEF h
  <2> QED
    BY <2>1, <2>2, <2>3, <2>4, ImageKept, ZenonT(30)
<1>3. CASE last
  <2>1. /\ hs' = [hs EXCEPT ![c] = ZeroState] /\ data_start_found' = FALSE /\ running' = running
        /\ client' = [client EXCEPT ![c] = NoClient] /\ files' = files
        /\ NetBootFileXferSize' = NetBootFileXferSize
        /\ upgrade_type' = upgrade_type /\ data_pointer' = data_pointer /\ ram' = ram
    BY <1>1, <1>3, Zenon DEF Acked, loadVars
  <2>2. /\ ready_for_upgrade' = (ready_for_upgrade \/ AsksUpgrade(posted))
        /\ post_done' = (post_done /\ ~posted) /\ upload_failed' = (upload_failed /\ ~posted)
    BY <1>1, <1>3, ZenonT(30) DEF Acked
  <2>3. ZeroState.state # "UPLOAD_REQUEST"
    BY DEF ZeroState
  <2>4. CASE ~posted
    <3>1. /\ post_done' <=> post_done
          /\ upload_failed' <=> upload_failed
          /\ ready_for_upgrade' <=> ready_for_upgrade
      BY <2>2, <2>4, Zenon DEF AsksUpgrade
    <3>2. \A a, b \in Conns : client'[a].file # 0 /\ client'[b].file # 0 => a = b
      BY <1>0, <2>1, DropMoves, Unique, ZenonT(30)
    <3>3. ASSUME running', NEW d \in Conns, hs'[d].state = "UPLOAD_REQUEST" PROVE Uploading(d)'
      <4>1. d # c
        BY <1>0, <2>1, <2>3, <3>3, ZenonT(30) DEF Shapes
      <4>2. hs'[d] = hs[d] /\ client'[d] = client[d]
        BY <1>0, <4>1, <2>1, Zenon DEF Shapes
      <4>3. Uploading(d)
        BY <3>3, <4>2, <2>1, Zenon DEF ImageInv
      <4> QED
        BY <2>1, <3>1, <4>2, <4>3, ZenonT(30) DEF Uploading
    <3>4. Complete' = Complete /\ Intact' = Intact
      BY <2>1, Zenon DEF Complete, Intact, Stored, SizeOK
    <3> QED
      BY <2>1, <3>1, <3>2, <3>3, <3>4, ZenonT(30) DEF ImageInv
  <2>5. CASE posted
    <3>1. ~post_done' /\ ~upload_failed' /\ post_done
      BY <2>2, <2>5, Zenon
    <3>2. ready_for_upgrade' => ready_for_upgrade \/ ~upload_failed
      BY <2>2, Zenon DEF AsksUpgrade
    <3>3. \A a, b \in Conns : client'[a].file # 0 /\ client'[b].file # 0 => a = b
      BY <1>0, <2>1, DropMoves, Unique, ZenonT(30)
    <3>4. ASSUME NEW d \in Conns PROVE hs'[d].state # "UPLOAD_REQUEST"
      <4>1. hs[d].state # "UPLOAD_REQUEST"
        BY <3>1, Zenon DEF ImageInv, Uploading
      <4> QED
        BY <1>0, <4>1, <2>1, <2>3, Zenon DEF Shapes
    <3>5. Complete' = Complete /\ Intact' = Intact
      BY <2>1, Zenon DEF Complete, Intact, Stored, SizeOK
    <3>6. ready_for_upgrade' => Complete /\ Intact /\ Len(files) = 1
      BY <3>1, <3>2, Zenon DEF ImageInv
    <3> QED
      BY <2>1, <3>1, <3>3, <3>4, <3>5, <3>6, ZenonT(30) DEF ImageInv
  <2> QED
    BY <2>4, <2>5
<1> QED
  BY <1>2, <1>3

\* What memcpy adds to what is stored.
LEMMA StoreMore ==
    ASSUME NEW at \in Nat, NEW n \in Nat, NEW f \in FileKinds, at + n <= f.len + 3, Stored(at),
           ram' = Store(at, 1, at + 1, n)
    PROVE  \A i \in 1..(at + n) : ram'[i] = <<1, i>>
<1> SUFFICES ASSUME NEW i \in 1..(at + n) PROVE ram'[i] = <<1, i>>
  BY Zenon
<1>1. f.len \in Nat /\ BodyLen(f) = f.len + 3
  BY HttpdAssumption DEF BodyLen, Trailer
<1>2. i \in Buffer
  <2>1. i \in 1..BodyLen(f)
    BY <1>1
  <2> QED
    BY <2>1, BufferAssumption
<1>3. ram'[i] = IF i > at /\ i <= at + n THEN <<1, (at + 1) + (i - at) - 1>> ELSE ram[i]
  BY <1>2 DEF Store
<1>4. CASE i > at
  <2>1. i <= at + n /\ (at + 1) + (i - at) - 1 = i
    OBVIOUS
  <2> QED
    BY <1>3, <1>4, <2>1, Zenon
<1>5. CASE ~(i > at)
  <2>1. i \in 1..at
    BY <1>5
  <2>2. ram[i] = <<1, i>>
    BY <2>1 DEF Stored
  <2> QED
    BY <1>3, <1>5, <2>2, Zenon
<1> QED
  BY <1>4, <1>5, Zenon

\* Who else has no upload, is not in the state of one.
LEMMA OthersIdle ==
    ASSUME ServerInv, running, NEW d \in Conns, client[d].file = 0
    PROVE  hs[d].state # "UPLOAD_REQUEST"
BY SlotOf, Zenon DEF Live, Counts

\* The start of the only upload is stored.
LEMMA ImageStart ==
    ASSUME ServerInv, ImageInv, running, NEW c \in Conns, NEW h \in HState, NEW n \in Nat, n >= 2,
           NEW f \in FileKinds, files'[1] = f, Len(files') = 1, h.upload_total = f.len + 3, n <= f.len + 3,
           NEW cl \in CState, client' = [client EXCEPT ![c] = cl], cl.sent = n,
           \A d \in Conns : d # c => client[d].file = 0,
           StoreFirst(c, h, 1, n, 0, f), ~post_done, ~ready_for_upgrade
    PROVE  ImageInv'
<1> DEFINE g == [h EXCEPT !.upload_total = FileSize(h), !.upload = n - 2]
<1>0. f.len \in Nat /\ FileSize(h) = f.len
  BY HttpdAssumption DEF FileSize, Trailer
<1>1. g.upload_total = f.len /\ g.upload = n - 2
  BY <1>0 DEF HState
<1>2. /\ hs' = [hs EXCEPT ![c] = g] /\ upgrade_type' = f.type
      /\ ram' = Store(0, 1, 1, n - 2) /\ data_pointer' = 0 + n - 2
      /\ post_done' = post_done /\ ready_for_upgrade' = ready_for_upgrade
  BY Zenon DEF StoreFirst
<1>3. ~upload_failed' => SizeOK(f)
  <2>1. ~upload_failed' => ~Refused(f.type, FileSize(h))
    BY Zenon DEF StoreFirst
  <2> QED
    BY <1>0, <2>1, Zenon DEF Refused, SizeOK
<1>4. data_pointer' = n - 2 /\ data_pointer' \in Nat
  BY <1>2
<1>5. \A i \in 1..(n - 2) : ram'[i] = <<1, i>>
  <2>1. Stored(0) /\ n - 2 \in Nat /\ 0 + (n - 2) <= f.len + 3 /\ 0 + 1 = 1 /\ 0 + (n - 2) = n - 2 /\ 0 \in Nat
    BY <1>0 DEF Stored
  <2> QED
    BY <1>2, <2>1, StoreMore
<1> HIDE DEF g
<1>6. hs'[c] = g /\ client'[c] = cl
  BY <1>2, Zenon DEF ServerInv, Shapes
<1>7. Uploading(c)'
  <2>1. ~post_done' /\ ~ready_for_upgrade'
    BY <1>2, Zenon
  <2>2. /\ hs'[c].upload_total = files'[1].len /\ hs'[c].upload + 2 = client'[c].sent
        /\ upgrade_type' = files'[1].type
    BY <1>1, <1>2, <1>6
  <2>3. ~upload_failed' => /\ data_pointer' + 2 = client'[c].sent
                           /\ SizeOK(files'[1]) /\ Stored(data_pointer)'
    BY <1>3, <1>4, <1>5, <1>6 DEF Stored, SizeOK
  <2>4. client'[c].sent # 0
    BY <1>6
  <2> QED
    BY <2>1, <2>2, <2>3, <2>4, ZenonT(30) DEF Uploading, SizeOK
<1>8. \A d \in Conns : d # c => client'[d].file = 0 /\ hs'[d].state # "UPLOAD_REQUEST"
  BY <1>2, OthersIdle, Zenon DEF ServerInv, Shapes
<1> QED
  BY <1>2, <1>4, <1>7, <1>8, SMTT(30) DEF ImageInv

\* The only upload begins.
LEMMA ImageBegins ==
    ASSUME ServerInv, ImageInv, OneUpload, running, NEW c \in Conns, NEW s \in Segments(c), UploadRequest(c, s)
    PROVE  ImageInv'
<1> DEFINE h == [hs[c] EXCEPT !.state = "UPLOAD_REQUEST", !.upload_total = BodyLen(s.file)]
           cl == [file |-> Len(files) + 1, sent |-> s.n]
<1>0. hs[c] \in HState /\ Shapes /\ Len(files) \in Nat
  BY SlotOf, Zenon
<1>1. s.kind = "post" /\ Sends(c, s)
  BY DEF UploadRequest
<1>2. s.n \in Nat /\ s.file \in FileKinds /\ s.n <= s.file.len + 3 /\ s.file.len \in Nat
  <2>1. s.n \in 0..MaxSeg /\ s.file \in FileKinds
    BY <1>1, Zenon DEF Segments
  <2> QED
    BY <2>1, HttpdAssumption
<1>3. /\ Len(files) = 0 /\ files' = Append(files, s.file) /\ client' = [client EXCEPT ![c] = cl]
  BY <1>0, <1>1 DEF Sends, OneUpload
<1>4. Len(files') = 1 /\ files'[1] = s.file
  BY <1>2, <1>3, <1>0 DEF Shapes
<1>5. cl \in CState /\ cl.sent = s.n
  BY <1>0, <1>2 DEF CState
<1>6. ~post_done /\ ~ready_for_upgrade /\ ~upload_failed
  BY <1>3 DEF ImageInv
<1>7. \A d \in Conns : client[d].file = 0 /\ hs[d].state # "UPLOAD_REQUEST"
  BY <1>3, NoneYet, ZenonT(30)
<1>8. CASE HasStart(Len(files) + 1, Len(files) + 1, -1, s.n) /\ StoreFirst(c, h, Len(files) + 1, s.n, 0, s.file)
  <2>1. s.n >= 2
    BY <1>8 DEF HasStart
  <2>2. h \in HState
    <3>1. BodyLen(s.file) \in Nat
      BY <1>2 DEF BodyLen, Trailer
    <3> QED
      BY <1>0, <3>1, Updates, Zenon
  <2>3. h.upload_total = s.file.len + 3
    BY <1>0, <1>2 DEF HState, BodyLen, Trailer
  <2> HIDE DEF h, cl
  <2>4. StoreFirst(c, h, 1, s.n, 0, s.file)
    BY <1>3, <1>8
  <2> QED
    BY <1>2, <1>3, <1>4, <1>5, <1>6, <1>7, <2>1, <2>2, <2>3, <2>4, ImageStart, ZenonT(30)
<1>9. CASE /\ hs' = [hs EXCEPT ![c] = h] /\ data_pointer' = 0 /\ data_start_found' = FALSE
           /\ UNCHANGED doneVars
  <2>1. ~post_done' /\ ~ready_for_upgrade' /\ ~upload_failed'
    BY <1>6, <1>9 DEF doneVars
  <2>2. Uploading(c)'
    BY <1>9, <2>1, SMTT(30) DEF Uploading
  <2>3. \A d \in Conns : d # c => client'[d].file = 0 /\ hs'[d].state # "UPLOAD_REQUEST"
    BY <1>0, <1>3, <1>7, <1>9, ZenonT(30) DEF Shapes
  <2> QED
    BY <1>4, <1>9, <2>1, <2>2, <2>3, SMTT(30) DEF ImageInv
<1> QED
  BY <1>8, <1>9, Zenon DEF UploadRequest

\* The only number of an upload.
LEMMA Only1 ==
    ASSUME NEW u \in Nat, NEW n \in Nat, u # 0, u <= n, n <= 1
    PROVE  u = 1 /\ n = 1
OBVIOUS

\* A slot in the state of an upload has the only one.
LEMMA OnlyOne ==
    ASSUME ServerInv, ImageInv, running, NEW c \in Conns, hs[c].state = "UPLOAD_REQUEST"
    PROVE  /\ client[c].file = 1 /\ Len(files) = 1 /\ files[1] \in FileKinds /\ files[1].len \in Nat
           /\ Uploading(c) /\ Counts(hs[c], client[c], files)
           /\ \A d \in Conns : d # c => client[d].file = 0
<1>1. Counts(hs[c], client[c], files) /\ client[c].file # 0 /\ client[c].file <= Len(files)
      /\ client[c].file \in Nat /\ Len(files) \in Nat /\ files \in Seq(FileKinds)
  BY SlotOf, Zenon DEF Live, Counts, Slot, Shapes
<1>2. Len(files) <= 1
  BY DEF ImageInv
<1>3. client[c].file = 1 /\ Len(files) = 1
  <2>1. /\ client[c].file # 0 /\ client[c].file <= Len(files)
        /\ client[c].file \in Nat /\ Len(files) \in Nat
    BY <1>1, Zenon
  <2> QED
    BY <2>1, <1>2, Only1, ZenonT(30)
<1>4. files[1] \in FileKinds /\ files[1].len \in Nat
  BY <1>1, <1>3, FileLen
<1>5. Uploading(c) /\ \A d \in Conns : d # c => client[d].file = 0
  BY <1>1, Zenon DEF ImageInv
<1> QED
  BY <1>1, <1>3, <1>4, <1>5, ZenonT(30)

\* The start is found in a later segment, or the upload is given up.
LEMMA ImageFind ==
    ASSUME ServerInv, ImageInv, OneUpload, running, NEW c \in Conns, NEW s \in Segments(c), FindStart(c, s)
    PROVE  ImageInv'
<1>0. hs[c] \in HState /\ Shapes /\ Slot(hs[c], client[c], files) /\ hs[c].state = "UPLOAD_REQUEST"
  BY SlotOf, Zenon DEF FindStart
<1>1. /\ client[c].file = 1 /\ Len(files) = 1 /\ files[1] \in FileKinds /\ files[1].len \in Nat
      /\ Uploading(c) /\ Counts(hs[c], client[c], files)
      /\ \A d \in Conns : d # c => client[d].file = 0
  BY <1>0, OnlyOne, Zenon
<1>2. ~post_done /\ ~ready_for_upgrade
  BY <1>1, Zenon DEF Uploading
<1>3. CASE /\ HasStart(boundary_value, client[c].file, client[c].sent - 1, s.n)
           /\ Sends(c, s)
           /\ StoreFirst(c, hs[c], client[c].file, s.n, data_pointer, s.file)
  <2>1. client[c].sent = 0 /\ s.n >= 2
    <3>1. client[c].sent \in Nat
      BY SlotOf, Zenon
    <3> QED
      BY <1>3, <3>1 DEF HasStart, HasName
  <2>2. data_pointer = 0
    BY <1>1, <2>1, Zenon DEF Uploading
  <2>3. PICK cl \in CState : ClientMoves(c, s, cl)
    BY <1>0, <1>3, SendsEffect, Zenon
  <2>4. /\ client' = [client EXCEPT ![c] = cl] /\ files' = files /\ s.n \in Nat
        /\ cl.sent = s.n /\ cl.sent <= files[1].len + 3 /\ s.file = files[1]
    BY <1>1, <2>1, <2>3 DEF ClientMoves
  <2>5. hs[c].upload_total = files[1].len + 3
    BY <1>1, <2>1 DEF Counts
  <2>6. StoreFirst(c, hs[c], 1, s.n, 0, s.file)
    BY <1>1, <1>3, <2>2, Zenon
  <2> QED
    BY <1>0, <1>1, <1>2, <2>1, <2>4, <2>5, <2>6, ImageStart, ZenonT(30)
<1>4. CASE /\ httpd_state_reset(c) /\ client' = [client EXCEPT ![c] = NoClient]
           /\ UNCHANGED <<doneVars, data_pointer, ram, running, files>>
  <2>1. /\ ~post_done' /\ ~ready_for_upgrade' /\ files' = files /\ data_pointer' = data_pointer
    BY <1>2, <1>4 DEF doneVars
  <2>2. \A d \in Conns : client'[d].file = 0 /\ hs'[d].state # "UPLOAD_REQUEST"
    <3> SUFFICES ASSUME NEW d \in Conns PROVE client'[d].file = 0 /\ hs'[d].state # "UPLOAD_REQUEST"
      OBVIOUS
    <3>1. CASE d = c
      BY <1>0, <1>4, <3>1, StateTypes, ZenonT(30) DEF httpd_state_reset, Shapes
    <3>2. CASE d # c
      BY <1>0, <1>1, <1>4, <3>2, OthersIdle, ZenonT(30) DEF httpd_state_reset, Shapes
    <3> QED
      BY <3>1, <3>2
  <2> QED
    BY <1>1, <2>1, <2>2, Zenon DEF ImageInv
<1> QED
  BY <1>3, <1>4, Zenon DEF FindStart

\* More data: stored behind what is there, and the last of it completes.
LEMMA ImageData ==
    ASSUME ServerInv, ImageInv, OneUpload, running, NEW c \in Conns, NEW s \in Segments(c), UploadData(c, s)
    PROVE  ImageInv'
<1> DEFINE got == hs[c].upload + s.n
           complete == got >= hs[c].upload_total + Trailer
           f == files[1]
<1>0. /\ hs[c] \in HState /\ Shapes /\ Slot(hs[c], client[c], files) /\ hs[c].state = "UPLOAD_REQUEST"
      /\ hs[c].upload \in Nat /\ hs[c].upload_total \in Nat /\ client[c].sent \in Nat
  BY SlotOf, Zenon DEF UploadData
<1>1. /\ client[c].file = 1 /\ Len(files) = 1 /\ f \in FileKinds /\ f.len \in Nat
      /\ Uploading(c) /\ Counts(hs[c], client[c], files)
      /\ \A d \in Conns : d # c => client[d].file = 0
  BY <1>0, OnlyOne, ZenonT(30)
<1>2. PICK cl \in CState : ClientMoves(c, s, cl)
  BY <1>0, SendsEffect, Zenon DEF UploadData
<1>3. /\ client' = [client EXCEPT ![c] = cl] /\ files' = files /\ s.n \in Nat \ {0} /\ cl.file = 1
      /\ cl.sent = client[c].sent + s.n /\ cl.sent <= f.len + 3
  BY <1>1, <1>2 DEF ClientMoves
<1>4. /\ hs[c].upload_total = f.len /\ hs[c].upload + 2 = client[c].sent /\ upgrade_type = f.type
      /\ ~upload_failed => data_pointer + 2 = client[c].sent /\ SizeOK(f) /\ Stored(data_pointer)
      /\ ~post_done /\ ~ready_for_upgrade
  BY <1>1, Zenon DEF Uploading, UploadData
<1>5. client[c].sent >= 2
  BY <1>0, <1>1, <1>4 DEF Counts
<1>6. /\ IF upload_failed THEN UNCHANGED <<ram, data_pointer>>
         ELSE /\ ram' = Store(data_pointer, client[c].file, client[c].sent - 1, s.n)
              /\ data_pointer' = data_pointer + s.n
      /\ upgrade_type' = upgrade_type /\ running' = running
  BY Zenon DEF UploadData
<1>7. data_pointer' \in Int
  BY <1>3, <1>6 DEF ImageInv
<1>8. ~upload_failed => /\ data_pointer' + 2 = cl.sent
                        /\ \A i \in 1..data_pointer' : ram'[i] = <<1, i>>
  <2> SUFFICES ASSUME ~upload_failed
               PROVE  data_pointer' + 2 = cl.sent /\ \A i \in 1..data_pointer' : ram'[i] = <<1, i>>
    OBVIOUS
  <2>1. data_pointer = client[c].sent - 2 /\ data_pointer \in Nat /\ client[c].sent - 1 = data_pointer + 1
    <3>1. data_pointer \in Int
      BY Zenon DEF ImageInv
    <3> QED
      BY <1>0, <1>4, <1>5, <3>1, SMTT(30)
  <2>2. ram' = Store(data_pointer, 1, data_pointer + 1, s.n) /\ data_pointer' = data_pointer + s.n
    BY <1>1, <1>6, <2>1, ZenonT(30)
  <2>3. data_pointer + s.n <= f.len + 3 /\ data_pointer' + 2 = cl.sent /\ s.n \in Nat
    BY <1>0, <1>1, <1>3, <2>1, <2>2
  <2> HIDE DEF f
  <2>4. \A i \in 1..(data_pointer + s.n) : ram'[i] = <<1, i>>
    BY <1>1, <1>4, <2>1, <2>2, <2>3, StoreMore, ZenonT(30)
  <2> QED
    BY <2>2, <2>3, <2>4, Zenon
<1>9. \A d \in Conns : d # c => client'[d].file = 0 /\ hs'[d].state # "UPLOAD_REQUEST"
  <2> SUFFICES ASSUME NEW d \in Conns, d # c PROVE client'[d].file = 0 /\ hs'[d].state # "UPLOAD_REQUEST"
    OBVIOUS
  <2>1. client[d].file = 0 /\ hs[d].state # "UPLOAD_REQUEST"
    BY <1>1, OthersIdle, Zenon
  <2>2. client'[d] = client[d]
    BY <1>0, <1>3, Zenon DEF Shapes
  <2>3. hs'[d] = hs[d]
    BY <1>0, Zenon DEF UploadData, Shapes
  <2> QED
    BY <2>1, <2>2, <2>3
<1>10. CASE complete
  <2>1. /\ post_done' = TRUE /\ NetBootFileXferSize' = f.len /\ upload_failed' = upload_failed
        /\ ready_for_upgrade' = ready_for_upgrade /\ hs'[c].state = "FILE_REQUEST"
    <3>1. /\ post_done' = TRUE /\ NetBootFileXferSize' = hs[c].upload_total /\ upload_failed' = upload_failed
          /\ ready_for_upgrade' = ready_for_upgrade
          /\ hs' = [hs EXCEPT ![c] =
                      [Reset(hs[c]) EXCEPT !.state = "FILE_REQUEST", !.upload = PageLen,
                                           !.dataptr = IF upload_failed THEN "fail" ELSE "flashing"]]
      BY <1>10, Zenon DEF UploadData
    <3>2. hs'[c].state = "FILE_REQUEST"
      BY <1>0, <3>1, StateTypes, ZenonT(30) DEF Shapes, HState
    <3> QED
      BY <1>4, <3>1, <3>2, ZenonT(30)
  <2>2. Complete'
    BY <1>3, <1>4, <1>6, <2>1, Zenon DEF Complete
  <2>3. ~upload_failed => data_pointer' >= f.len
    <3>1. got >= f.len + 1 /\ cl.sent >= f.len + 3
      BY <1>0, <1>1, <1>3, <1>4, <1>10 DEF Trailer
    <3>2. cl.sent \in Nat
      BY DEF CState
    <3> QED
      BY <1>1, <1>7, <1>8, <3>1, <3>2
  <2>4. ~upload_failed' => Intact'
    <3> SUFFICES ASSUME ~upload_failed' PROVE Intact'
      OBVIOUS
    <3>1. ~upload_failed
      BY <2>1
    <3>2. \A i \in 1..f.len : ram'[i] = <<1, i>>
      BY <1>1, <1>7, <1>8, <2>3, <3>1, SMTT(30)
    <3> QED
      BY <1>3, <1>4, <3>1, <3>2, ZenonT(30) DEF Intact, Stored, SizeOK
  <2>5. ~ready_for_upgrade'
    BY <1>4, <2>1, Zenon
  <2>6. \A d \in Conns : hs'[d].state # "UPLOAD_REQUEST"
    BY <1>9, <2>1
  <2> QED
    BY <1>1, <1>3, <1>7, <1>9, <2>2, <2>4, <2>5, <2>6, ZenonT(30) DEF ImageInv
<1>11. CASE ~complete
  <2>1. hs' = [hs EXCEPT ![c].upload = got] /\ UNCHANGED <<scanVars, doneVars>>
    BY <1>11, ZenonT(30) DEF UploadData
  <2>2. hs'[c].upload = got /\ hs'[c].upload_total = f.len /\ client'[c] = cl
    BY <1>0, <1>3, <1>4, <2>1, ZenonT(30) DEF Shapes, HState
  <2>3. got + 2 = cl.sent /\ cl.sent # 0
    BY <1>0, <1>3, <1>4, <1>5
  <2>4. ~post_done' /\ ~ready_for_upgrade' /\ upload_failed' = upload_failed
    BY <1>4, <2>1, Zenon DEF doneVars
  <2>5. Uploading(c)'
    <3>1. /\ hs'[c].upload_total = files'[1].len /\ hs'[c].upload + 2 = client'[c].sent
          /\ upgrade_type' = files'[1].type /\ client'[c].sent # 0
      BY <1>3, <1>4, <1>6, <2>2, <2>3, ZenonT(30)
    <3>2. ~upload_failed' => data_pointer' + 2 = client'[c].sent /\ SizeOK(files'[1]) /\ Stored(data_pointer)'
      BY <1>3, <1>4, <1>8, <2>2, <2>4, ZenonT(30) DEF Stored, SizeOK
    <3> QED
      BY <2>4, <3>1, <3>2, ZenonT(30) DEF Uploading, SizeOK
  <2> QED
    BY <1>1, <1>3, <1>7, <1>9, <2>4, <2>5, ZenonT(30) DEF ImageInv
<1> QED
  BY <1>10, <1>11

\* It holds at the start, and every step keeps it.
LEMMA ImageInit ==
    ASSUME Init
    PROVE  ImageInv
<1>1. \A d \in Conns : client[d].file = 0 /\ hs[d].state = "NONE"
  BY Zenon DEF Init, NoClient, ZeroState
<1> QED
  BY <1>1 DEF Init, ImageInv

LEMMA ImageStep ==
    ASSUME OneUpload, ServerInv, ImageInv, [Next]_vars
    PROVE  ImageInv'
<1>1. CASE Next
  <2>1. PICK c \in Conns : running /\ (Packet(c) \/ Timer(c))
    BY <1>1 DEF Next
  <2>2. \A s \in Segments(c) : ~WebCommand(c, s)
    BY Zenon DEF WebCommand, Segments, OneUpload
  <2>3. CASE Packet(c)
    BY <2>1, <2>2, <2>3, ImageQuiet, ImageAck, ImageBegins, ImageFind, ImageData, ZenonT(30) DEF Packet
  <2>4. CASE Timer(c)
    BY <2>1, <2>4, ImageQuiet, Zenon DEF Timer
  <2> QED
    BY <2>1, <2>3, <2>4
<1>2. CASE UNCHANGED vars
  <2>1. /\ files' = files /\ client' = client /\ hs' = hs /\ running' = running /\ data_pointer' = data_pointer
        /\ post_done' = post_done /\ upload_failed' = upload_failed /\ ready_for_upgrade' = ready_for_upgrade
        /\ NetBootFileXferSize' = NetBootFileXferSize /\ upgrade_type' = upgrade_type /\ ram' = ram
        /\ data_start_found' = data_start_found
    BY <1>2 DEF vars, httpdVars, scanVars, doneVars, loadVars, peerVars
  <2>2. Complete' = Complete /\ Intact' = Intact
    BY <2>1, Zenon DEF Complete, Intact, Stored, SizeOK
  <2>3. \A d \in Conns : Uploading(d) => Uploading(d)'
    BY <2>1, ZenonT(30) DEF Uploading, Stored, SizeOK
  <2> QED
    BY <2>1, <2>2, <2>3, Zenon DEF ImageInv
<1> QED
  BY <1>1, <1>2

\* What is flashed is the upload: whole, in order, of its type and size and of a
\* permitted size, for any number of other connections and any cut of the body.
THEOREM ImageCorrect ==
    ASSUME OneUpload
    PROVE  Spec => []ImageIntact
<1>1. NoPostCommands
  BY DEF OneUpload, NoPostCommands
<1>2. ImageInv => ImageIntact
  <2> SUFFICES ASSUME ImageInv, ready_for_upgrade PROVE \E u \in DOMAIN files : Holds(u) /\ SizeOK(files[u])
    BY DEF ImageIntact
  <2>1. Complete /\ Intact /\ Len(files) = 1
    BY DEF ImageInv
  <2> QED
    BY <2>1 DEF Complete, Intact, Stored, Holds
<1> QED
  BY <1>1, <1>2, ServerInvariant, ImageInit, ImageStep, PTL DEF Spec

-----------------------------------------------------------------------------
(***************************************************************************)
(* The verdict.  What a client is told of its upload agrees with what the  *)
(* flags, which all slots share, make the board do.                        *)
(***************************************************************************)
Told(d) ==
    /\ hs[d].dataptr = "fail" => ~SizeOK(files[1])
    /\ hs[d].dataptr = "flashing" => ready_for_upgrade \/ (post_done /\ ~upload_failed)
    /\ running => ~hs[d].is_macrw_resp

\* An upload that is refused is bad, and every slot is told what is so.
VerdictInv ==
    /\ upload_failed => ~SizeOK(files[1])
    /\ \A d \in Conns : Told(d)

\* Only whoever has an upload is told of one.
LEMMA Untold ==
    ASSUME ServerInv, NEW d \in Conns, client[d].file = 0 \/ hs[d].state # "FILE_REQUEST"
    PROVE  hs[d].dataptr \notin Verdict
BY Zenon DEF ServerInv, Slot

\* A slot keeps being told what is so, if the flags stay the same.
Unflagged == post_done' = post_done /\ upload_failed' = upload_failed /\ ready_for_upgrade' = ready_for_upgrade

LEMMA VerdictKept ==
    ASSUME ServerInv, ImageInv, VerdictInv, running, NEW c \in Conns, NEW h, hs' = [hs EXCEPT ![c] = h],
           PeersMove(c), Unflagged, h.dataptr = hs[c].dataptr \/ h.dataptr \notin Verdict,
           running' => ~h.is_macrw_resp
    PROVE  VerdictInv'
<1>1. files' = files \/ (Len(files) = 0 /\ Len(files') = 1)
  BY Unique, Zenon
<1>2. ASSUME NEW d \in Conns PROVE /\ hs'[d].dataptr = hs[d].dataptr \/ hs'[d].dataptr \notin Verdict
                                   /\ running' => ~hs'[d].is_macrw_resp
  <2>1. CASE d = c
    BY <2>1, Zenon DEF ServerInv, Shapes
  <2>2. CASE d # c
    BY <2>2, Zenon DEF ServerInv, Shapes, VerdictInv, Told
  <2> QED
    BY <2>1, <2>2, Zenon
<1>3. CASE files' = files
  <2>1. SizeOK(files[1])' <=> SizeOK(files[1])
    BY <1>3, Zenon DEF SizeOK
  <2>2. ASSUME NEW d \in Conns PROVE Told(d)'
    <3>1. Told(d)
      BY Zenon DEF VerdictInv
    <3> QED
      BY <1>2, <2>1, <3>1, Zenon DEF Told, Unflagged, Verdict
  <2> QED
    BY <2>1, <2>2, Zenon DEF VerdictInv, Unflagged
<1>4. CASE Len(files) = 0
  <2>1. ~upload_failed'
    BY <1>4 DEF ImageInv, Unflagged
  <2>2. ASSUME NEW d \in Conns PROVE Told(d)'
    <3>1. hs[d].dataptr \notin Verdict
      BY <1>4, NoneYet, Untold, Zenon
    <3> QED
      BY <1>2, <3>1, Zenon DEF Told, Verdict
  <2> QED
    BY <2>1, <2>2, Zenon DEF VerdictInv
<1> QED
  BY <1>1, <1>3, <1>4, Zenon

\* A state that was reset says nothing.
LEMMA ResetTold ==
    ASSUME NEW h
    PROVE  /\ Reset(h).dataptr \notin Verdict /\ Reset(h).is_macrw_resp = h.is_macrw_resp
           /\ ZeroState.dataptr \notin Verdict /\ ZeroState.is_macrw_resp = FALSE
BY DEF Reset, ZeroState, Verdict

\* The steps that leave the flags alone.
LEMMA VerdictQuiet ==
    ASSUME ServerInv, ImageInv, VerdictInv, OneUpload, running, NEW c \in Conns,
           \/ Closed(c) \/ \E ev \in {{"abort"}, {"timedout"}} : Aborted(c, ev)
           \/ \E s \in Segments(c) : BadRequest(c, s) \/ GetFile(c, s) \/ ResetRequest(c, s) \/ IgnoreData(c, s)
           \/ Connected(c) \/ Unnoticed(c) \/ SendAgain(c) \/ (Forget(c) /\ UNCHANGED httpdVars) \/ Polled(c)
    PROVE  VerdictInv'
<1>0. hs[c] \in HState /\ Shapes /\ Slot(hs[c], client[c], files) /\ ~hs[c].is_macrw_resp
  BY SlotOf, Zenon DEF VerdictInv, Told
<1>1. CASE Drop(c)
  <2>1. hs' = [hs EXCEPT ![c] = Reset(hs[c])] /\ PeersMove(c) /\ Unflagged
    BY <1>0, <1>1, DropMoves, Zenon DEF Drop, httpd_state_reset, Unflagged, doneVars
  <2> QED
    BY <1>0, <2>1, ResetTold, VerdictKept, Zenon
<1>2. CASE UNCHANGED httpdVars
  <2>1. hs' = [hs EXCEPT ![c] = hs[c]] /\ Unflagged /\ UNCHANGED peerVars
    BY <1>0, <1>2, ZenonT(30) DEF httpdVars, doneVars, Shapes, Unflagged
  <2> QED
    BY <1>0, <2>1, StayMoves, VerdictKept, Zenon
<1>3. CASE hs' = [hs EXCEPT ![c].count = @ + 1] /\ UNCHANGED <<scanVars, doneVars, loadVars, running, peerVars>>
  <2> DEFINE h == [hs[c] EXCEPT !.count = @ + 1]
  <2>1. hs' = [hs EXCEPT ![c] = h] /\ Unflagged /\ UNCHANGED peerVars
    BY <1>3, <1>0, Zenon DEF Shapes, doneVars, Unflagged
  <2>2. h.dataptr = hs[c].dataptr /\ h.is_macrw_resp = hs[c].is_macrw_resp
    BY <1>0, Zenon DEF HState
  <2> HIDE DEF h
  <2> QED
    BY <1>0, <2>1, <2>2, StayMoves, VerdictKept, Zenon
<1>4. CASE Connected(c)
  <2>1. hs' = [hs EXCEPT ![c] = Reset(hs[c])] /\ Unflagged
    BY <1>0, <1>4, ZenonT(30) DEF Connected, httpd_state_reset, Unflagged, doneVars
  <2>2. PeersMove(c)
    BY <1>0, <1>4, StayMoves, SendsMove, ZenonT(30) DEF Connected
  <2> QED
    BY <1>0, <2>1, <2>2, ResetTold, VerdictKept, Zenon
<1>5. ASSUME NEW s \in Segments(c), GetFile(c, s) PROVE VerdictInv'
  <2> DEFINE h == [hs[c] EXCEPT !.state = "FILE_REQUEST", !.dataptr = "page", !.upload = PageLen]
  <2>1. hs' = [hs EXCEPT ![c] = h] /\ Unflagged /\ UNCHANGED peerVars
    BY <1>0, <1>5, ZenonT(30) DEF GetFile, Shapes, doneVars, Unflagged
  <2>2. h.dataptr \notin Verdict /\ h.is_macrw_resp = hs[c].is_macrw_resp
    BY <1>0, Zenon DEF HState, Verdict
  <2> HIDE DEF h
  <2> QED
    BY <1>0, <2>1, <2>2, StayMoves, VerdictKept, Zenon
<1>6. ASSUME NEW s \in Segments(c), ResetRequest(c, s) PROVE VerdictInv'
  <2> DEFINE h == [hs[c] EXCEPT !.state = "UPLOAD_REQUEST", !.is_macrw_resp = TRUE, !.dataptr = "reply",
                                !.upload = PageLen]
  <2>1. hs' = [hs EXCEPT ![c] = h] /\ Unflagged /\ UNCHANGED peerVars /\ ~running'
    BY <1>0, <1>6, ZenonT(30) DEF ResetRequest, Shapes, doneVars, Unflagged
  <2>2. h.dataptr \notin Verdict
    BY <1>0, Zenon DEF HState, Verdict
  <2> HIDE DEF h
  <2> QED
    BY <1>0, <2>1, <2>2, StayMoves, VerdictKept, Zenon
<1>7. ASSUME NEW s \in Segments(c), IgnoreData(c, s) PROVE VerdictInv'
  <2>1. hs' = [hs EXCEPT ![c] = hs[c]] /\ Unflagged
    BY <1>7, <1>0, Zenon DEF IgnoreData, Shapes, doneVars, Unflagged
  <2>2. PeersMove(c)
    BY <1>7, <1>0, SendsMove, Zenon DEF IgnoreData
  <2> QED
    BY <1>0, <2>1, <2>2, VerdictKept, Zenon
<1> QED
  BY <1>1, <1>2, <1>3, <1>4, <1>5, <1>6, <1>7, ZenonT(30) DEF Closed, Aborted, BadRequest, Polled, Unnoticed,
     SendAgain

\* An acknowledgement: whoever is told that the board is flashed has the upgrade
\* asked for, be it by another slot.
LEMMA VerdictAck ==
    ASSUME ServerInv, ImageInv, VerdictInv, OneUpload, running, NEW c \in Conns, NEW ev, "acked" \in ev, Acked(c, ev)
    PROVE  VerdictInv'
<1> DEFINE left == hs[c].upload - outstanding[c]
           last == LastPart(c, mss'[c])
<1>0. hs[c] \in HState /\ Shapes /\ Slot(hs[c], client[c], files) /\ ~hs[c].is_macrw_resp
  BY SlotOf, Zenon DEF VerdictInv, Told
<1>1. hs[c].state = "FILE_REQUEST"
  <2>1. outstanding[c] # 0
    BY Zenon DEF Acked, Deliver
  <2> QED
    BY <2>1, SlotOf, Zenon DEF Live
<1>2. CASE ~last
  <2> DEFINE h == [hs[c] EXCEPT !.upload = left]
  <2>1. /\ hs' = [hs EXCEPT ![c].upload = left] /\ Unflagged
        /\ IF "newdata" \in ev THEN \E s \in Segments(c) : Sends(c, s) ELSE UNCHANGED peerVars
    BY <1>1, <1>2, Zenon DEF Acked, doneVars, Unflagged
  <2>2. hs' = [hs EXCEPT ![c] = h]
    BY <1>0, <2>1 DEF Shapes
  <2>3. h.dataptr = hs[c].dataptr /\ h.is_macrw_resp = hs[c].is_macrw_resp
    BY <1>0, Zenon DEF HState
  <2>4. PeersMove(c)
    BY <1>0, <2>1, StayMoves, SendsMove, ZenonT(30)
  <2> HIDE DEF h
  <2> QED
    BY <1>0, <2>1, <2>2, <2>3, <2>4, VerdictKept, Zenon
<1>3. CASE last
  <2>1. hs' = [hs EXCEPT ![c] = ZeroState] /\ files' = files /\ running' = running
    BY <1>1, <1>3, Zenon DEF Acked
  <2>2. /\ ready_for_upgrade' = (ready_for_upgrade \/ (post_done /\ ~upload_failed))
        /\ post_done' = FALSE /\ upload_failed' = (upload_failed /\ ~post_done)
    BY <1>0, <1>1, <1>3, ZenonT(30) DEF Acked, AsksUpgrade
  <2>3. SizeOK(files[1])' <=> SizeOK(files[1])
    BY <2>1, Zenon DEF SizeOK
  <2>4. ASSUME NEW d \in Conns PROVE Told(d)'
    <3>1. hs'[d] = hs[d] \/ hs'[d] = ZeroState
      BY <1>0, <2>1, Zenon DEF Shapes
    <3>2. Told(d)
      BY Zenon DEF VerdictInv
    <3>3. CASE hs'[d] = ZeroState
      BY <3>3, ResetTold, Zenon DEF Told, Verdict
    <3>4. CASE hs'[d] = hs[d]
      BY <2>1, <2>2, <2>3, <3>2, <3>4, Zenon DEF Told
    <3> QED
      BY <3>1, <3>3, <3>4, Zenon
  <2> QED
    BY <2>2, <2>3, <2>4, Zenon DEF VerdictInv
<1> QED
  BY <1>2, <1>3, Zenon

\* The start of the only upload decides whether it is refused.
LEMMA VerdictStart ==
    ASSUME ServerInv, ImageInv, VerdictInv, running, NEW c \in Conns, NEW h \in HState, NEW u, NEW n, NEW at,
           NEW f \in FileKinds, files'[1] = f, h.upload_total = f.len + 3,
           upload_failed => files' = files,
           \A d \in Conns : d # c => client[d].file = 0,
           StoreFirst(c, h, u, n, at, f), h.dataptr \notin Verdict, ~h.is_macrw_resp
    PROVE  VerdictInv'
<1> DEFINE g == [h EXCEPT !.upload_total = FileSize(h), !.upload = n - 2]
<1>0. f.len \in Nat /\ FileSize(h) = f.len
  BY HttpdAssumption DEF FileSize, Trailer
<1>1. hs' = [hs EXCEPT ![c] = g] /\ upload_failed' = (upload_failed \/ Refused(f.type, FileSize(h)))
  BY Zenon DEF StoreFirst
<1>2. g.dataptr = h.dataptr /\ g.is_macrw_resp = h.is_macrw_resp
  BY Zenon DEF HState
<1> HIDE DEF g
<1>3. upload_failed' => ~SizeOK(files[1])'
  <2>1. CASE upload_failed
    <3>1. ~SizeOK(files[1]) /\ files' = files
      BY <2>1, Zenon DEF VerdictInv
    <3> QED
      BY <3>1, Zenon DEF SizeOK
  <2>2. CASE Refused(f.type, FileSize(h))
    BY <1>0, <2>2, Zenon DEF Refused, SizeOK
  <2> QED
    BY <1>1, <2>1, <2>2, Zenon
<1>4. ASSUME NEW d \in Conns PROVE Told(d)'
  <2>1. hs'[d].dataptr \notin Verdict /\ ~hs'[d].is_macrw_resp
    <3>1. CASE d = c
      BY <1>1, <1>2, <3>1, Zenon DEF ServerInv, Shapes
    <3>2. CASE d # c
      <4>1. hs'[d] = hs[d] /\ client[d].file = 0
        BY <1>1, <3>2, Zenon DEF ServerInv, Shapes
      <4> QED
        BY <4>1, Untold, Zenon DEF VerdictInv, Told
    <3> QED
      BY <3>1, <3>2, Zenon
  <2> QED
    BY <2>1, Zenon DEF Told, Verdict
<1> QED
  BY <1>3, <1>4, Zenon DEF VerdictInv

\* The only upload begins.
LEMMA VerdictBegins ==
    ASSUME ServerInv, ImageInv, VerdictInv, OneUpload, running, NEW c \in Conns, NEW s \in Segments(c),
           UploadRequest(c, s)
    PROVE  VerdictInv'
<1> DEFINE h == [hs[c] EXCEPT !.state = "UPLOAD_REQUEST", !.upload_total = BodyLen(s.file)]
<1>0. /\ hs[c] \in HState /\ Shapes /\ Slot(hs[c], client[c], files) /\ Len(files) \in Nat
      /\ ~hs[c].is_macrw_resp
  BY SlotOf, Zenon DEF VerdictInv, Told
<1>1. s.kind = "post" /\ Sends(c, s) /\ hs[c].state = "NONE"
  BY Zenon DEF UploadRequest, Requested
<1>2. s.file \in FileKinds /\ s.file.len \in Nat
  BY <1>1, HttpdAssumption, Zenon DEF Segments
<1>3. Len(files) = 0 /\ files' = Append(files, s.file)
  BY <1>0, <1>1 DEF Sends, OneUpload
<1>4. files'[1] = s.file
  BY <1>2, <1>3, <1>0 DEF Shapes
<1>5. ~upload_failed
  BY <1>3 DEF ImageInv
<1>6. \A d \in Conns : client[d].file = 0
  BY <1>3, NoneYet, Zenon
<1>7. h \in HState /\ h.upload_total = s.file.len + 3
  <2>1. BodyLen(s.file) \in Nat /\ BodyLen(s.file) = s.file.len + 3
    BY <1>2 DEF BodyLen, Trailer
  <2>2. h \in HState
    BY <1>0, <2>1, Updates, Zenon
  <2>3. h.upload_total = BodyLen(s.file)
    BY <1>0, Zenon DEF HState
  <2> QED
    BY <2>1, <2>2, <2>3, Zenon
<1>8. h.dataptr = hs[c].dataptr /\ h.is_macrw_resp = hs[c].is_macrw_resp /\ hs[c].dataptr \notin Verdict
  BY <1>0, <1>6, Untold, Zenon DEF HState
<1> HIDE DEF h
<1>9. \/ StoreFirst(c, h, Len(files) + 1, s.n, 0, s.file)
      \/ hs' = [hs EXCEPT ![c] = h] /\ Unflagged
  BY Zenon DEF UploadRequest, doneVars, Unflagged, h
<1>10. PeersMove(c)
  BY <1>0, <1>1, SendsMove, Zenon
<1> QED
  BY <1>0, <1>2, <1>4, <1>5, <1>6, <1>7, <1>8, <1>9, <1>10, VerdictStart, VerdictKept, Zenon

\* Its start is found in a later segment, or it is given up.
LEMMA VerdictFind ==
    ASSUME ServerInv, ImageInv, VerdictInv, OneUpload, running, NEW c \in Conns, NEW s \in Segments(c),
           FindStart(c, s)
    PROVE  VerdictInv'
<1>0. /\ hs[c] \in HState /\ Shapes /\ Slot(hs[c], client[c], files) /\ hs[c].state = "UPLOAD_REQUEST"
      /\ ~hs[c].is_macrw_resp /\ hs[c].dataptr \notin Verdict
  BY SlotOf, Untold, Zenon DEF FindStart, VerdictInv, Told
<1>1. /\ client[c].file = 1 /\ files[1] \in FileKinds /\ files[1].len \in Nat
      /\ Counts(hs[c], client[c], files) /\ \A d \in Conns : d # c => client[d].file = 0
  BY <1>0, OnlyOne, Zenon
<1>2. CASE /\ HasStart(boundary_value, client[c].file, client[c].sent - 1, s.n)
           /\ Sends(c, s)
           /\ StoreFirst(c, hs[c], client[c].file, s.n, data_pointer, s.file)
  <2>1. client[c].sent = 0
    <3>1. client[c].sent \in Nat
      BY SlotOf, Zenon
    <3> QED
      BY <1>2, <3>1 DEF HasStart, HasName
  <2>2. PICK cl \in CState : ClientMoves(c, s, cl)
    BY <1>0, <1>2, SendsEffect, Zenon
  <2>3. files' = files /\ s.file = files[1]
    BY <1>1, <2>2 DEF ClientMoves
  <2>4. hs[c].upload_total = files[1].len + 3
    BY <1>1, <2>1 DEF Counts
  <2> QED
    BY <1>0, <1>1, <1>2, <2>3, <2>4, VerdictStart, Zenon
<1>3. CASE /\ httpd_state_reset(c) /\ client' = [client EXCEPT ![c] = NoClient]
           /\ UNCHANGED <<doneVars, data_pointer, ram, running, files>>
  <2>1. hs' = [hs EXCEPT ![c] = Reset(hs[c])] /\ PeersMove(c) /\ Unflagged
    BY <1>0, <1>3, DropMoves, Zenon DEF httpd_state_reset, Unflagged, doneVars
  <2> QED
    BY <1>0, <2>1, ResetTold, VerdictKept, Zenon
<1> QED
  BY <1>2, <1>3, Zenon DEF FindStart

\* Its end: the client is told what became of it.
LEMMA VerdictData ==
    ASSUME ServerInv, ImageInv, VerdictInv, OneUpload, running, NEW c \in Conns, NEW s \in Segments(c),
           UploadData(c, s)
    PROVE  VerdictInv'
<1> DEFINE got == hs[c].upload + s.n
           complete == got >= hs[c].upload_total + Trailer
<1>0. /\ hs[c] \in HState /\ Shapes /\ Slot(hs[c], client[c], files) /\ hs[c].state = "UPLOAD_REQUEST"
      /\ ~hs[c].is_macrw_resp
  BY SlotOf, Zenon DEF UploadData, VerdictInv, Told
<1>1. client[c].file = 1 /\ \A d \in Conns : d # c => client[d].file = 0
  BY <1>0, OnlyOne, Zenon
<1>2. Sends(c, s)
  BY Zenon DEF UploadData
<1>3. CASE ~complete
  <2> DEFINE h == [hs[c] EXCEPT !.upload = got]
  <2>1. hs' = [hs EXCEPT ![c] = h] /\ Unflagged
    BY <1>0, <1>3, ZenonT(30) DEF UploadData, Shapes, doneVars, Unflagged
  <2>2. h.dataptr = hs[c].dataptr /\ h.is_macrw_resp = hs[c].is_macrw_resp
    BY <1>0, Zenon DEF HState
  <2>3. PeersMove(c)
    BY <1>0, <1>2, SendsMove, Zenon
  <2> HIDE DEF h
  <2> QED
    BY <1>0, <2>1, <2>2, <2>3, VerdictKept, Zenon
<1>4. CASE complete
  <2> DEFINE h == [Reset(hs[c]) EXCEPT !.state = "FILE_REQUEST", !.upload = PageLen,
                                       !.dataptr = IF upload_failed THEN "fail" ELSE "flashing"]
  <2>1. /\ hs' = [hs EXCEPT ![c] = h] /\ post_done' = TRUE /\ upload_failed' = upload_failed
        /\ ready_for_upgrade' = ready_for_upgrade
    BY <1>4, Zenon DEF UploadData
  <2>2. h.dataptr = (IF upload_failed THEN "fail" ELSE "flashing") /\ h.is_macrw_resp = hs[c].is_macrw_resp
    BY Zenon DEF Reset, ZeroState
  <2> HIDE DEF h
  <2>3. files' = files
    <3>1. PICK cl \in CState : ClientMoves(c, s, cl)
      BY <1>0, <1>2, SendsEffect, Zenon
    <3> QED
      BY <1>1, <3>1 DEF ClientMoves
  <2>4. SizeOK(files[1])' <=> SizeOK(files[1])
    BY <2>3, Zenon DEF SizeOK
  <2>5. upload_failed => ~SizeOK(files[1])
    BY Zenon DEF VerdictInv
  <2>6. Told(c)'
    <3>1. hs'[c] = h
      BY <1>0, <2>1, Zenon DEF Shapes
    <3>2. CASE upload_failed
      BY <1>0, <2>2, <2>4, <2>5, <3>1, <3>2, Zenon DEF Told
    <3>3. CASE ~upload_failed
      BY <1>0, <2>1, <2>2, <3>1, <3>3, Zenon DEF Told
    <3> QED
      BY <3>2, <3>3, Zenon
  <2>7. ASSUME NEW d \in Conns, d # c PROVE Told(d)'
    <3>1. hs'[d] = hs[d] /\ client[d].file = 0
      BY <1>0, <1>1, <2>1, <2>7, Zenon DEF Shapes
    <3>2. hs[d].dataptr \notin Verdict /\ ~hs[d].is_macrw_resp
      BY <3>1, Untold, Zenon DEF VerdictInv, Told
    <3> QED
      BY <3>1, <3>2, Zenon DEF Told, Verdict
  <2> QED
    BY <2>1, <2>4, <2>5, <2>6, <2>7, Zenon DEF VerdictInv
<1> QED
  BY <1>3, <1>4, Zenon

\* It holds at the start, and every step keeps it.
LEMMA VerdictInit ==
    ASSUME Init
    PROVE  VerdictInv
<1>1. \A d \in Conns : hs[d] = ZeroState
  BY Zenon DEF Init
<1> QED
  BY <1>1, ResetTold, Zenon DEF Init, VerdictInv, Told, Verdict

LEMMA VerdictStep ==
    ASSUME OneUpload, ServerInv, ImageInv, VerdictInv, [Next]_vars
    PROVE  VerdictInv'
<1>1. CASE Next
  <2>1. PICK c \in Conns : running /\ (Packet(c) \/ Timer(c))
    BY <1>1 DEF Next
  <2>2. \A s \in Segments(c) : ~WebCommand(c, s)
    BY Zenon DEF WebCommand, Segments, OneUpload
  <2>3. CASE Packet(c)
    BY <2>1, <2>2, <2>3, VerdictQuiet, VerdictAck, VerdictBegins, VerdictFind, VerdictData, ZenonT(30) DEF Packet
  <2>4. CASE Timer(c)
    BY <2>1, <2>4, VerdictQuiet, Zenon DEF Timer
  <2> QED
    BY <2>1, <2>3, <2>4
<1>2. CASE UNCHANGED vars
  <2>1. /\ files' = files /\ hs' = hs /\ running' = running
        /\ post_done' = post_done /\ upload_failed' = upload_failed /\ ready_for_upgrade' = ready_for_upgrade
    BY <1>2 DEF vars, httpdVars, doneVars, peerVars
  <2> QED
    BY <2>1, ZenonT(30) DEF VerdictInv, Told, SizeOK
<1> QED
  BY <1>1, <1>2, Zenon

\* A client is told that its file was refused only if the file is of a size that
\* the server does not take, for any number of other connections.
THEOREM FailCorrect ==
    ASSUME OneUpload
    PROVE  Spec => []FailMeansBadFile
<1>1. NoPostCommands
  BY DEF OneUpload, NoPostCommands
<1>2. ASSUME ServerInv, ImageInv, VerdictInv PROVE FailMeansBadFile
  <2> SUFFICES ASSUME NEW c \in Conns, hs[c].dataptr = "fail" PROVE ~SizeOK(files[client[c].file])
    BY Zenon DEF FailMeansBadFile
  <2>1. /\ client[c].file # 0 /\ client[c].file <= Len(files) /\ client[c].file \in Nat /\ files \in Seq(FileKinds)
        /\ Len(files) <= 1
    BY <1>2, Zenon DEF ServerInv, Shapes, Slot, CState, Verdict, ImageInv
  <2>2. client[c].file = 1
    BY <2>1, Only1
  <2> QED
    BY <1>2, <2>2, Zenon DEF VerdictInv, Told
<1> QED
  BY <1>1, <1>2, ServerInit, ServerKept, ImageInit, ImageStep, VerdictInit, VerdictStep, PTL DEF Spec

\* When the page that says that the board is being flashed has been acknowledged
\* to its end, the upgrade has been asked for.
THEOREM UpgradeCorrect ==
    ASSUME OneUpload
    PROVE  Spec => FlashingMeansUpgrade
<1> DEFINE Asks == \A c \in Conns : /\ hs[c].dataptr = "flashing"
                                    /\ upcall'.conn = c /\ upcall'.ev # {} /\ upcall'.reply = Close
                                    /\ "acked" \in upcall'.ev
                                    => ready_for_upgrade'
<1>1. NoPostCommands
  BY DEF OneUpload, NoPostCommands
<1>2. ASSUME ServerInv, ImageInv, VerdictInv, [Next]_vars PROVE [Asks]_vars
  <2> SUFFICES ASSUME Next, NEW c \in Conns, hs[c].dataptr = "flashing",
                      upcall'.conn = c, upcall'.reply = Close, "acked" \in upcall'.ev
               PROVE  ready_for_upgrade'
    BY <1>2, Zenon
  <2>1. running /\ \E ev : "acked" \in ev /\ Acked(c, ev)
    BY HeardOf, Zenon DEF Next
  <2>2. PICK ev : "acked" \in ev /\ Acked(c, ev)
    BY <2>1, Zenon
  <2>3. hs[c].state = "FILE_REQUEST" /\ Told(c)
    BY <1>2, Zenon DEF ServerInv, Slot, Verdict, VerdictInv
  <2> DEFINE left == hs[c].upload - outstanding[c]
  <2>4. CASE LastPart(c, mss'[c])
    <3>1. ready_for_upgrade' = (ready_for_upgrade \/ (post_done /\ ~hs[c].is_macrw_resp /\ ~upload_failed))
      BY <2>2, <2>3, <2>4, ZenonT(30) DEF Acked, AsksUpgrade
    <3> QED
      BY <2>1, <2>3, <3>1, Zenon DEF Told
  <2>5. CASE ~LastPart(c, mss'[c])
    <3>1. Call(c, ev, SendRest(left, mss'[c]))
      BY <2>2, <2>3, <2>5, Zenon DEF Acked, Deliver
    <3>2. upcall'.reply = SendRest(left, mss'[c])
      BY <3>1 DEF Call
    <3>3. SendRest(left, mss'[c]).op # "close"
      BY Zenon DEF SendRest, NoReply
    <3>4. Close.op = "close"
      BY DEF Close
    <3> QED
      BY <3>2, <3>3, <3>4
  <2> QED
    BY <2>4, <2>5, Zenon
<1> QED
  BY <1>1, <1>2, ServerInit, ServerKept, ImageInit, ImageStep, VerdictInit, VerdictStep, PTL
     DEF Spec, FlashingMeansUpgrade
=============================================================================
