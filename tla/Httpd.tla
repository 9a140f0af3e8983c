-------------------------------- MODULE Httpd -------------------------------
(***************************************************************************)
(* httpd_appcall, the web server of the failsafe mode, as uIP calls it.    *)
(* Every action is one call: an event of UipApi together with what the     *)
(* server does with it.  The server keeps a struct httpd_state per         *)
(* connection slot, but one boundary, one data pointer, one set of flags   *)
(* and one upload buffer for all of them.                                  *)
(*                                                                         *)
(* The body of an upload is a row of units: two for the header of the      *)
(* multipart field (its name, the empty line), numbered -1 and 0, the file *)
(* 1..len, and one for the closing boundary (strlen(boundary_value) + 6    *)
(* bytes).  A unit is tagged with its upload, so that the upload buffer    *)
(* shows where its contents came from.                                     *)
(***************************************************************************)
EXTENDS UipApi, Integers, Sequences, FiniteSets

CONSTANTS
    Requests,           \* kinds of requests that clients make
    FileKinds,          \* files that clients upload: [type, len]
    MaxUploads,         \* bound on the number of uploads
    MaxSeg,             \* most units of a body in a segment
    PageLen,            \* length of every response
    PollLimit,          \* 3000: polls before an idle connection is dropped
    UbootMax, ArtSize, MibibSize    \* WEBFAILSAFE_UPLOAD_*_SIZE_IN_BYTES

Types == {"firmware", "uboot", "art", "mibib"}

\* An upload of less than 10 KB is refused, so that no body fits in a segment.
ASSUME HttpdAssumption ==
    /\ PageLen \in Nat \ {0} /\ MaxSeg \in Nat /\ PollLimit \in Nat /\ Mss \subseteq Nat
    /\ \A f \in FileKinds : f.type \in Types /\ f.len \in Nat /\ MaxSeg < f.len + 3

VARIABLES
    hs,                 \* struct httpd_state of each slot
    boundary_value,     \* the upload whose boundary is looked for, 0 for NULL
    data_start_found,
    post_done,          \* webfailsafe_post_done
    upload_failed,      \* webfailsafe_upload_failed
    ready_for_upgrade,  \* webfailsafe_ready_for_upgrade
    upgrade_type,       \* webfailsafe_upgrade_type
    data_pointer,       \* webfailsafe_data_pointer, from the buffer's start
    NetBootFileXferSize,
    ram,                \* the upload buffer
    running,            \* FALSE once the board has been reset
    files,              \* every upload that was begun
    client              \* what the peer of each slot uploads and has sent of it

scanVars == <<boundary_value, data_start_found>>
doneVars == <<post_done, upload_failed, ready_for_upgrade, NetBootFileXferSize>>
loadVars == <<upgrade_type, data_pointer, ram>>
peerVars == <<files, client>>
httpdVars == <<hs, scanVars, doneVars, loadVars, running, peerVars>>
vars == <<apiVars, httpdVars>>

Trailer == 1
BodyLen(f) == 2 + f.len + Trailer

Buffer == 1..MaxUploads * (CHOOSE n \in {BodyLen(f) : f \in FileKinds} :
                               \A f \in FileKinds : BodyLen(f) <= n)

\* The buffer is larger than any upload.
ASSUME BufferAssumption == \A f \in FileKinds : 1..BodyLen(f) \subseteq Buffer

NoFile == [type |-> "none", len |-> 0]
NoClient == [file |-> 0, sent |-> 0]

\* What dataptr points to; the offset follows from upload.
Content == {"null", "page", "flashing", "fail", "reply"}

ZeroState == [state |-> "NONE", count |-> 0, dataptr |-> "null", upload |-> 0, upload_total |-> 0,
              is_macrw_resp |-> FALSE]

Init ==
    /\ ApiInit
    /\ hs = [c \in Conns |-> ZeroState]
    /\ boundary_value = 0 /\ data_start_found = FALSE
    /\ post_done = FALSE /\ upload_failed = FALSE /\ ready_for_upgrade = FALSE
    /\ upgrade_type = "firmware" /\ data_pointer = 0 /\ NetBootFileXferSize = 0
    /\ ram = [i \in Buffer |-> <<0, 0>>]
    /\ running = TRUE
    /\ files = <<>> /\ client = [c \in Conns |-> NoClient]

-----------------------------------------------------------------------------
\* What a client may send next: more of its upload, a request, or the rest of a
\* request whose first segment the server took for all of it.
Segments(c) ==
    IF client[c].file # 0
    THEN [kind: {"body"}, n: 1..MaxSeg, file: {files[client[c].file]}]
    ELSE IF hs[c].state # "NONE"
    THEN [kind: Requests \cap {"rest"}, n: {1}, file: {NoFile}]
    ELSE [kind: Requests \ {"post", "rest"}, n: {0}, file: {NoFile}]
           \cup [kind: Requests \cap {"post"}, n: 0..MaxSeg, file: FileKinds]

\* The client has sent segment s.
Sends(c, s) ==
    \/ /\ s.kind = "body"
       /\ client[c].sent + s.n <= BodyLen(s.file)
       /\ client' = [client EXCEPT ![c].sent = @ + s.n]
       /\ UNCHANGED files
    \/ /\ s.kind = "post"
       /\ Len(files) < MaxUploads
       /\ files' = Append(files, s.file)
       /\ client' = [client EXCEPT ![c] = [file |-> Len(files) + 1, sent |-> s.n]]
    \/ /\ s.kind \notin {"body", "post"}
       /\ UNCHANGED peerVars

Close == [op |-> "close", n |-> 0]
Abort == [op |-> "abort", n |-> 0]

\* uip_send of what is left, cropped to m = uip_mss().
SendRest(left, m) ==
    LET n == IF left > m THEN m ELSE left
    IN IF n = 0 THEN NoReply ELSE [op |-> "send", n |-> n]

\* What httpd_state_reset leaves of a state: is_macrw_resp survives.
Reset(h) == [ZeroState EXCEPT !.is_macrw_resp = h.is_macrw_resp]

\* Mutant: the boundary is freed, but the scanner believes to be past it.
ResetBoundaryOnly(c) ==
    /\ hs' = [hs EXCEPT ![c] = Reset(@)]
    /\ boundary_value' = 0
    /\ UNCHANGED data_start_found

\* httpd_state_reset: the slot's state and the scanner that all slots share.
httpd_state_reset(c) ==
    /\ hs' = [hs EXCEPT ![c] = Reset(@)]
    /\ boundary_value' = 0 /\ data_start_found' = FALSE

\* Mutant: stored one position too early.
StoreEarly(at, u, k, n) ==
    [i \in Buffer |-> IF i >= at /\ i < at + n THEN <<u, k + (i - at)>> ELSE ram[i]]

\* memcpy of n units of upload u, the first of them number k, to position at.
Store(at, u, k, n) ==
    [i \in Buffer |-> IF i > at /\ i <= at + n THEN <<u, k + (i - at) - 1>> ELSE ram[i]]

SizeOK(f) ==
    /\ f.type = "uboot" => f.len <= UbootMax
    /\ f.type = "art" => f.len = ArtSize
    /\ f.type = "mibib" => f.len = MibibSize

-----------------------------------------------------------------------------
\* The connection is over: httpd_state_reset, and the client is gone.
Drop(c) ==
    /\ httpd_state_reset(c)
    /\ client' = [client EXCEPT ![c] = NoClient]
    /\ UNCHANGED <<doneVars, loadVars, running, files>>

\* uip_closed: data in the segment with the FIN is not looked at.
Closed(c) ==
    /\ Drop(c)
    /\ \/ \E ev \in {{"close"}, {"close", "newdata"}} : PeerClose(c, ev, Close)
       \/ CloseDone(c, Close)

\* uip_aborted or uip_timedout.
Aborted(c, ev) == Drop(c) /\ Lost(c, ev, Abort)

\* Mutant: one poll too many.
IdleTooLongStrict(c) == hs[c].count > PollLimit

IdleTooLong(c) == hs[c].count >= PollLimit

\* uip_poll: an idle connection is dropped in the end.
Polled(c) ==
    \/ /\ ~IdleTooLong(c)
       /\ Poll(c, NoReply)
       /\ hs' = [hs EXCEPT ![c].count = @ + 1]
       /\ UNCHANGED <<scanVars, doneVars, loadVars, running, peerVars>>
    \/ /\ IdleTooLong(c)
       /\ Poll(c, Abort)
       /\ Drop(c)

\* uip_connected: data on the last segment of the handshake is not looked at.
Connected(c) ==
    /\ httpd_state_reset(c)
    /\ \/ Connect(c, {"connected"}, NoReply) /\ UNCHANGED peerVars
       \/ Connect(c, {"connected", "newdata"}, NoReply) /\ \E s \in Segments(c) : Sends(c, s)
    /\ UNCHANGED <<doneVars, loadVars, running>>

\* The first segment of a request has come.
Requested(c, r) == hs[c].state = "NONE" /\ Deliver(c, {"newdata"}, r)

\* Neither GET nor POST, a name that is too long, an upload without length or
\* boundary, or of less than 10 KB.
BadRequest(c, s) ==
    /\ s.kind \in {"junk", "body"}
    /\ Requested(c, Abort)
    /\ Drop(c)

\* A page, the index or the page that says there is none.
GetFile(c, s) ==
    /\ s.kind = "get"
    /\ Requested(c, SendRest(PageLen, mss'[c]))
    /\ hs' = [hs EXCEPT ![c].state = "FILE_REQUEST", ![c].dataptr = "page", ![c].upload = PageLen]
    /\ UNCHANGED <<scanVars, doneVars, loadVars, running, peerVars>>

\* GET /macrw, POST /macrw and POST /setenv.  Access to a MAC address reads the
\* ART partition into the upload buffer; a request without one does not.
WebCommand(c, s) ==
    /\ s.kind \in {"get_macrw", "post_macrw", "setenv"}
    /\ Requested(c, SendRest(PageLen, mss'[c]))
    /\ hs' = [hs EXCEPT ![c].state = IF s.kind = "get_macrw" THEN "FILE_REQUEST" ELSE "UPLOAD_REQUEST",
                        ![c].is_macrw_resp = TRUE, ![c].dataptr = "reply", ![c].upload = PageLen]
    /\ \/ s.kind # "setenv" /\ ram' = [i \in Buffer |-> <<0, 1>>]
       \/ UNCHANGED ram
    /\ UNCHANGED <<scanVars, doneVars, upgrade_type, data_pointer, running, peerVars>>

\* POST /reset: the board is reset before the answer is on its way.
ResetRequest(c, s) ==
    /\ s.kind = "reset"
    /\ Requested(c, SendRest(PageLen, mss'[c]))
    /\ hs' = [hs EXCEPT ![c].state = "UPLOAD_REQUEST", ![c].is_macrw_resp = TRUE,
                        ![c].dataptr = "reply", ![c].upload = PageLen]
    /\ running' = FALSE
    /\ UNCHANGED <<scanVars, doneVars, loadVars, peerVars>>

\* The field's name is in these n units of upload u, the first of them number
\* k, if b is the boundary that is looked for; the start of the file, too.
HasName(b, u, k, n) == b = u /\ u # 0 /\ k = -1 /\ n >= 1
HasStart(b, u, k, n) == HasName(b, u, k, n) /\ n >= 2

\* Mutant: the header of the field is subtracted twice.
FileSizeTwice(h) == h.upload_total - 4 - Trailer

\* The size of the file, from the Content-Length.
FileSize(h) == h.upload_total - 2 - Trailer

\* Mutant: the size is checked with the closing boundary.
RefusedWithTrailer(t, size) == ~SizeOK([type |-> t, len |-> size + Trailer])

Refused(t, size) == ~SizeOK([type |-> t, len |-> size])

\* httpd_findandstore_firstchunk, when it finds the start of the file f.
StoreFirst(c, h, u, n, at, f) ==
    LET total == FileSize(h) IN
    /\ hs' = [hs EXCEPT ![c] = [h EXCEPT !.upload_total = total, !.upload = n - 2]]
    /\ upgrade_type' = f.type
    /\ upload_failed' = (upload_failed \/ Refused(f.type, total))
    /\ ram' = Store(at, u, 1, n - 2)
    /\ data_pointer' = at + n - 2
    /\ data_start_found' = TRUE
    /\ UNCHANGED <<post_done, ready_for_upgrade, NetBootFileXferSize, running>>

\* An upload begins.
UploadRequest(c, s) ==
    LET u == Len(files) + 1
        h == [hs[c] EXCEPT !.state = "UPLOAD_REQUEST", !.upload_total = BodyLen(s.file)]
    IN /\ s.kind = "post"
       /\ Requested(c, NoReply)
       /\ Sends(c, s)
       /\ boundary_value' = u
       /\ \/ HasStart(u, u, -1, s.n) /\ StoreFirst(c, h, u, s.n, 0, s.file)
          \/ /\ ~HasStart(u, u, -1, s.n)
             /\ hs' = [hs EXCEPT ![c] = h]
             /\ upgrade_type' = IF HasName(u, u, -1, s.n) THEN s.file.type ELSE upgrade_type
             /\ data_pointer' = 0
             /\ data_start_found' = FALSE
             /\ UNCHANGED <<doneVars, ram, running>>


-----------------------------------------------------------------------------
\* Mutants: a last part of full size is not recognised; the part before the
\* last is taken for it.
LastPartStrict(c, m) == hs[c].upload < m
LastPartEarly(c, m) == hs[c].upload - outstanding[c] <= m

\* What was acknowledged was the last part of a response.  The test compares
\* with the uip_mss() of now, not with what was sent.
LastPart(c, m) == hs[c].upload <= m

\* Mutant: the test of webfailsafe_upload_failed is inverted.
AsksUpgradeInverted(posted) == posted /\ upload_failed

\* The response to a completed upload asks for the upgrade.
AsksUpgrade(posted) == posted /\ ~upload_failed

\* An acknowledgement while a page or an answer is being sent.
Acked(c, ev) ==
    LET h == hs[c]
        left == h.upload - outstanding[c]
        last == LastPart(c, mss'[c])
        sending == h.is_macrw_resp \/ h.state = "FILE_REQUEST"
        posted == post_done /\ ~h.is_macrw_resp
    IN /\ "newdata" \in ev => h.state # "NONE"
       /\ Deliver(c, ev, IF ~sending THEN NoReply
                         ELSE IF last THEN Close ELSE SendRest(left, mss'[c]))
       /\ \/ /\ sending /\ last
             /\ hs' = [hs EXCEPT ![c] = ZeroState]
             /\ boundary_value' = 0 /\ data_start_found' = FALSE
             /\ ready_for_upgrade' = (ready_for_upgrade \/ AsksUpgrade(posted))
             /\ post_done' = (post_done /\ ~posted)
             /\ upload_failed' = (upload_failed /\ ~posted)
             /\ client' = [client EXCEPT ![c] = NoClient]
             /\ UNCHANGED <<NetBootFileXferSize, files>>
          \/ /\ ~(sending /\ last)
             /\ hs' = IF sending THEN [hs EXCEPT ![c].upload = left] ELSE hs
             /\ IF "newdata" \in ev THEN \E s \in Segments(c) : Sends(c, s) ELSE UNCHANGED peerVars
             /\ UNCHANGED <<scanVars, doneVars>>
       /\ UNCHANGED <<loadVars, running>>

\* uip_rexmit: only a page is sent again.
SendAgain(c) ==
    /\ Rexmit(c, IF hs[c].state = "FILE_REQUEST" THEN SendRest(hs[c].upload, mss[c]) ELSE NoReply)
    /\ UNCHANGED httpdVars

\* Data while a page is being sent is not looked at, and nothing is sent.
IgnoreData(c, s) ==
    /\ hs[c].state = "FILE_REQUEST"
    /\ Deliver(c, {"newdata"}, NoReply)
    /\ Sends(c, s)
    /\ UNCHANGED <<hs, scanVars, doneVars, loadVars, running>>

\* Data of an upload before the start of the file was found.
FindStart(c, s) ==
    LET u == client[c].file
        k == client[c].sent - 1
    IN /\ hs[c].state = "UPLOAD_REQUEST"
       /\ ~data_start_found
       /\ \/ /\ HasStart(boundary_value, u, k, s.n)
             /\ Deliver(c, {"newdata"}, NoReply)
             /\ Sends(c, s)
             /\ StoreFirst(c, hs[c], u, s.n, data_pointer, s.file)
             /\ UNCHANGED boundary_value
          \/ /\ ~HasStart(boundary_value, u, k, s.n)
             /\ Deliver(c, {"newdata"}, Abort)
             /\ httpd_state_reset(c)
             /\ client' = [client EXCEPT ![c] = NoClient]
             /\ upgrade_type' = IF HasName(boundary_value, u, k, s.n) THEN s.file.type
                                ELSE upgrade_type
             /\ UNCHANGED <<doneVars, data_pointer, ram, running, files>>

\* Data of an upload: it is counted for its slot, stored where any upload
\* continues, and completes the upload when the slot has seen enough.
UploadData(c, s) ==
    LET h == hs[c]
        got == h.upload + s.n
        complete == got >= h.upload_total + Trailer
    IN /\ h.state = "UPLOAD_REQUEST"
       /\ data_start_found
       /\ Deliver(c, {"newdata"}, IF complete THEN SendRest(PageLen, mss'[c]) ELSE NoReply)
       /\ Sends(c, s)
       /\ IF upload_failed THEN UNCHANGED <<ram, data_pointer>>
          ELSE /\ ram' = Store(data_pointer, client[c].file, client[c].sent - 1, s.n)
               /\ data_pointer' = data_pointer + s.n
       /\ \/ /\ complete
             /\ post_done' = TRUE
             /\ NetBootFileXferSize' = h.upload_total
             /\ hs' = [hs EXCEPT ![c] =
                         [Reset(h) EXCEPT !.state = "FILE_REQUEST", !.upload = PageLen,
                                          !.dataptr = IF upload_failed THEN "fail" ELSE "flashing"]]
             /\ boundary_value' = 0 /\ data_start_found' = FALSE
             /\ UNCHANGED <<upload_failed, ready_for_upgrade>>
          \/ /\ ~complete
             /\ hs' = [hs EXCEPT ![c].upload = got]
             /\ UNCHANGED <<scanVars, doneVars>>
       /\ UNCHANGED <<upgrade_type, running>>

\* The stack moves without a call of the server.
Unnoticed(c) ==
    /\ Accept(c) \/ Window(c)
    /\ UNCHANGED httpdVars

\* What a segment may cause, and what uip_periodic may cause.
Packet(c) ==
    \/ Closed(c)
    \/ Aborted(c, {"abort"})
    \/ Connected(c)
    \/ Unnoticed(c)
    \/ \E ev \in {{"acked"}, {"acked", "newdata"}} : Acked(c, ev)
    \/ \E s \in Segments(c) :
          \/ BadRequest(c, s)
          \/ GetFile(c, s)
          \/ WebCommand(c, s)
          \/ ResetRequest(c, s)
          \/ UploadRequest(c, s)
          \/ IgnoreData(c, s)
          \/ FindStart(c, s)
          \/ UploadData(c, s)

Timer(c) ==
    \/ Polled(c)
    \/ SendAgain(c)
    \/ Aborted(c, {"timedout"})
    \/ Forget(c) /\ UNCHANGED httpdVars

Next == running /\ \E c \in Conns : Packet(c) \/ Timer(c)

Spec == Init /\ [][Next]_vars


-----------------------------------------------------------------------------
TypeOK ==
    /\ phase \in [Conns -> Phase] /\ outstanding \in [Conns -> 0..PageLen]
    /\ hs \in [Conns -> [state: {"NONE", "FILE_REQUEST", "UPLOAD_REQUEST"}, count: 0..PollLimit,
                         dataptr: Content, upload: Nat, upload_total: Nat, is_macrw_resp: BOOLEAN]]
    /\ boundary_value \in 0..Len(files)
    /\ {data_start_found, post_done, upload_failed, ready_for_upgrade, running} \subseteq BOOLEAN
    /\ upgrade_type \in Types /\ data_pointer \in Nat /\ NetBootFileXferSize \in Nat
    /\ files \in Seq(FileKinds)
    /\ client \in [Conns -> [file: 0..Len(files), sent: Nat]]

\* The upload buffer holds upload u, and size and type are those of u.
Holds(u) ==
    /\ upgrade_type = files[u].type
    /\ NetBootFileXferSize = files[u].len
    /\ \A i \in 1..files[u].len : ram[i] = <<u, i>>

\* When the server asks for the upgrade, the upload buffer holds one upload
\* whole and in order, with the size and the type of that upload, and the
\* upload was of a permitted size (webfailsafe_ready_for_upgrade).
ImageIntact == ready_for_upgrade => \E u \in DOMAIN files : Holds(u) /\ SizeOK(files[u])

\* While a page is being sent some of it is in flight: the server only goes on
\* when it hears of an acknowledgement, so that otherwise it never finishes
\* (httpd_appcall answers new data while a page is in flight without uip_send).
PageInFlight ==
    \A c \in Conns : phase[c] = "open" /\ hs[c].state = "FILE_REQUEST" => outstanding[c] # 0

\* The page that says that the update is in progress is not acknowledged to
\* its end without the upgrade being asked for.
FlashingMeansUpgrade ==
    [][\A c \in Conns : /\ hs[c].dataptr = "flashing"
                        /\ upcall'.conn = c /\ upcall'.ev # {} /\ upcall'.reply = Close
                        /\ "acked" \in upcall'.ev
                        => ready_for_upgrade']_vars

\* The page that says that the update failed because of the file is only sent
\* for a file that the server refuses.
FailMeansBadFile ==
    \A c \in Conns : hs[c].dataptr = "fail" => ~SizeOK(files[client[c].file])

\* The boundary is there whenever its length is taken (strlen(boundary_value)
\* in the test for the end of an upload), whatever the other slot did.
BoundaryThere == data_start_found => boundary_value # 0

\* The page that says that the file was uploaded is sent only to a client that
\* has sent all of an upload: what a slot has seen is counted for that slot
\* alone, although the scanner and the buffer are shared.
FlashingMeansWhole ==
    \A c \in Conns : hs[c].dataptr = "flashing" =>
        /\ client[c].file # 0
        /\ client[c].sent = BodyLen(files[client[c].file])

\* A page is closed by the server only when all of it was acknowledged.
WholePageSent ==
    [][\A c \in Conns : /\ hs[c].state = "FILE_REQUEST"
                        /\ upcall'.conn = c /\ upcall'.reply = Close /\ "acked" \in upcall'.ev
                        => outstanding[c] = hs[c].upload]_vars

=============================================================================
