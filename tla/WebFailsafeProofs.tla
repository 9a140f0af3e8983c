-------------------------- MODULE WebFailsafeProofs -------------------------
(***************************************************************************)
(* Proofs about the failsafe loop for any number of slots and any files:   *)
(* what do_http_upgrade leaves in flash at every moment.                   *)
(***************************************************************************)
EXTENDS WebFailsafe, HttpdImageProofs

\* A command of do_http_upgrade.
Cmd == [do: {"probe", "erase", "write", "source"}, part: Parts, n: Int]

\* It is about the partition of the upload, and what it writes is the upload.
Fit == {x \in Cmd : /\ x.part = PartOf(files[1])
                    /\ x.do \in {"write", "source"} =>
                         x.n = IF x.part = "emmc" THEN files[1].len + 1 ELSE files[1].len}

OldFlash == [p \in Parts |-> <<"old">>]

\* What the flash holds, and what will still be written to it.  It is only
\* touched once the server has stopped for good.
FlashInv ==
    /\ pc \in {"upgrade", "done"} => ready_for_upgrade
    /\ pc = "upgrade" => cmd \in Seq(Fit)
    /\ pc \notin {"upgrade", "done", "reset"} => flash = OldFlash
    /\ \A p \in Parts :
          \/ flash[p] = <<"old">>
          \/ /\ ready_for_upgrade /\ p = PartOf(files[1])
             /\ flash[p] = <<>> \/ Written(p, 1)

LoopInv == ServerInv /\ ImageInv /\ LoopTypeOK /\ FlashInv

-----------------------------------------------------------------------------
\* What a flash command copies from the upload buffer, as a sequence.
LEMMA UnitsSeq ==
    ASSUME NEW n \in Nat
    PROVE  Len(Units(n)) = n /\ \A m \in 0..n : SubSeq(Units(n), 1, m) = [i \in 1..m |-> ram[i]]
<1> DEFINE S == {ram[i] : i \in 1..n}
<1>1. Units(n) \in Seq(S) /\ Len(Units(n)) = n
  BY DEF Units
<1>2. ASSUME NEW m \in 0..n PROVE SubSeq(Units(n), 1, m) = [i \in 1..m |-> ram[i]]
  BY <1>1 DEF Units
<1> QED
  BY <1>1, <1>2

\* What do_http_upgrade is given once an upgrade was asked for.
LEMMA Asked ==
    ASSUME ServerInv, ImageInv, ready_for_upgrade
    PROVE  /\ Len(files) = 1 /\ files[1] \in FileKinds /\ files[1].len \in Nat \ {0} /\ files[1].type \in Types
           /\ Complete /\ SizeOK(files[1]) /\ Stored(files[1].len)
<1>1. Len(files) = 1 /\ Complete /\ Intact
  BY DEF ImageInv
<1>2. files[1] \in FileKinds /\ files[1].len \in Nat
  BY <1>1, FileLen DEF ServerInv, Shapes
<1> QED
  BY <1>1, <1>2, HttpdAssumption, FailsafeAssumption DEF Intact

\* Partition p holds the upload after the command that writes it.
LEMMA UnitsWritten ==
    ASSUME ServerInv, ImageInv, ready_for_upgrade, NEW p \in Parts, p = PartOf(files[1]),
           flash'[p] = Units(IF p = "emmc" THEN files[1].len + 1 ELSE files[1].len), files' = files
    PROVE  Written(p, 1)'
<1> DEFINE n == files[1].len
           k == IF p = "emmc" THEN n + 1 ELSE n
<1>1. n \in Nat /\ Stored(n)
  BY Asked
<1>2. k \in Nat /\ n \in 0..k
  BY <1>1
<1> HIDE DEF k
<1>3. Len(flash'[p]) = k /\ SubSeq(flash'[p], 1, n) = [i \in 1..n |-> ram[i]]
  BY <1>2, UnitsSeq, Zenon DEF k
<1>4. [i \in 1..n |-> ram[i]] = [i \in 1..n |-> <<1, i>>]
  BY <1>1 DEF Stored
<1> QED
  BY <1>3, <1>4, Zenon DEF Written, k

\* The three commands of a write, and what is left without the first.
LEMMA WriteFits ==
    ASSUME NEW p \in Parts, NEW n \in Int, p = PartOf(files[1]),
           n = IF p = "emmc" THEN files[1].len + 1 ELSE files[1].len
    PROVE  Write(p, n) \in Seq(Fit) /\ Tail(Write(p, n)) \in Seq(Fit)
           /\ Len(Write(p, n)) = 3 /\ Len(Tail(Write(p, n))) = 2
<1>1. /\ [do |-> "probe", part |-> p, n |-> 0] \in Fit
      /\ [do |-> "erase", part |-> p, n |-> 0] \in Fit
      /\ [do |-> "write", part |-> p, n |-> n] \in Fit
  BY DEF Fit, Cmd
<1> QED
  BY <1>1 DEF Write

\* The commands of do_http_upgrade write the upload to its partition, whatever
\* the type, the image and the board.
LEMMA CommandFits ==
    ASSUME ServerInv, ImageInv, ready_for_upgrade
    PROVE  /\ Command(NetBootFileXferSize, upgrade_type) \in Seq(Fit)
           /\ Len(Command(NetBootFileXferSize, upgrade_type)) \in 0..3
<1> DEFINE f == files[1]
           size == NetBootFileXferSize
           type == upgrade_type
           C == Command(size, type)
<1>1. /\ f.len \in Nat \ {0} /\ f.type \in Types /\ type = f.type /\ size = f.len /\ SizeOK(f)
      /\ Stored(f.len)
  BY Asked, Zenon DEF Complete
<1>2. <<>> \in Seq(Fit) /\ Len(<<>>) = 0
  OBVIOUS
<1>3. f.type # "firmware" => PartOf(f) = f.type /\ f.type \in Parts /\ f.type # "emmc"
  BY <1>1 DEF PartOf, Parts, Types
<1>4. CASE type = "uboot"
  <2>1. C = IF size > UbootMax THEN <<>> ELSE Write("uboot", size)
    BY <1>4, Zenon DEF Command
  <2>2. Write("uboot", size) \in Seq(Fit) /\ Len(Write("uboot", size)) = 3
    BY <1>1, <1>3, <1>4, WriteFits
  <2> QED
    BY <1>2, <2>1, <2>2
<1>5. CASE type = "art"
  <2>1. C = Write("art", f.len)
    BY <1>1, <1>5 DEF Command, SizeOK
  <2>2. Write("art", f.len) \in Seq(Fit) /\ Len(Write("art", f.len)) = 3
    BY <1>1, <1>3, <1>5, WriteFits
  <2> QED
    BY <2>1, <2>2
<1>6. CASE type = "mibib"
  <2>1. C = Write("mibib", f.len)
    BY <1>1, <1>6 DEF Command, SizeOK
  <2>2. Write("mibib", f.len) \in Seq(Fit) /\ Len(Write("mibib", f.len)) = 3
    BY <1>1, <1>3, <1>6, WriteFits
  <2> QED
    BY <2>1, <2>2
<1>7. CASE type = "firmware"
  <2>1. do_checkout_firmware = f.image
    <3>1. ram[1] = <<1, 1>>
      BY <1>1 DEF Stored
    <3> QED
      BY <3>1 DEF do_checkout_firmware
  <2>2. C = IF f.image = "openwrt"
            THEN IF Board = "nand" \/ (Board \in {"nor", "dk04"} /\ size <= FirmwareMax)
                 THEN Write("firmware", size) ELSE <<>>
            ELSE IF f.image = "emmc"
            THEN IF Board = "dk04" THEN Tail(Write("emmc", size + 1)) ELSE <<>>
            ELSE <<[do |-> "probe", part |-> "firmware", n |-> 0],
                   [do |-> "source", part |-> "firmware", n |-> size]>>
    BY <1>7, <2>1 DEF Command
  <2>3. CASE f.image = "emmc"
    <3>1. PartOf(f) = "emmc" /\ "emmc" \in Parts
      BY <1>1, <1>7, <2>3 DEF PartOf, Parts
    <3>2. Tail(Write("emmc", size + 1)) \in Seq(Fit) /\ Len(Tail(Write("emmc", size + 1))) = 2
      BY <1>1, <3>1, WriteFits
    <3> QED
      BY <1>2, <2>2, <2>3, <3>2
  <2>4. CASE f.image # "emmc"
    <3>1. PartOf(f) = "firmware" /\ "firmware" \in Parts
      BY <1>1, <1>7, <2>4 DEF PartOf, Parts, Types
    <3>2. Write("firmware", size) \in Seq(Fit) /\ Len(Write("firmware", size)) = 3
      BY <1>1, <3>1, WriteFits
    <3>3. /\ [do |-> "probe", part |-> "firmware", n |-> 0] \in Fit
          /\ [do |-> "source", part |-> "firmware", n |-> size] \in Fit
      BY <1>1, <3>1 DEF Fit, Cmd
    <3> QED
      BY <1>2, <2>2, <2>4, <3>2, <3>3
  <2> QED
    BY <2>3, <2>4
<1> QED
  BY <1>1, <1>4, <1>5, <1>6, <1>7 DEF Types

-----------------------------------------------------------------------------
\* The board is reset, and everything else stays.
Stops ==
    /\ running' = FALSE
    /\ UNCHANGED <<apiVars, hs, scanVars, doneVars, loadVars, peerVars>>

\* To the server, a step of the loop is a step of its own, or the reset.
LEMMA LoopMoves ==
    ASSUME LoopTypeOK, [LoopNext]_loopAndServer
    PROVE  [Next]_vars \/ Stops
<1>1. CASE ReceiveFrame
  <2>1. running
    BY <1>1, Zenon DEF ReceiveFrame, LoopTypeOK
  <2> QED
    BY <1>1, <2>1, Zenon DEF ReceiveFrame, Next
<1>2. CASE HttpdHandler
  <2>1. running
    BY <1>2, Zenon DEF HttpdHandler, LoopTypeOK
  <2> QED
    BY <1>2, <2>1, Zenon DEF HttpdHandler, Next
<1>3. CASE CtrlC \/ do_reset
  BY <1>3, Zenon DEF CtrlC, do_reset, Stops
<1>4. CASE UNCHANGED loopAndServer
  BY <1>4, Zenon DEF loopAndServer
<1> QED
  BY <1>1, <1>2, <1>3, <1>4, Zenon DEF LoopNext, Step, EthRxReturns, Continue, Upgrade, RunCommand, UpgradeReady

\* What holds of the server holds after the reset.
LEMMA StopsKeeps ==
    ASSUME ServerInv, ImageInv, Stops
    PROVE  ServerInv' /\ ImageInv'
<1>1. /\ files' = files /\ client' = client /\ hs' = hs /\ ~running' /\ data_pointer' = data_pointer
      /\ post_done' = post_done /\ upload_failed' = upload_failed /\ ready_for_upgrade' = ready_for_upgrade
      /\ NetBootFileXferSize' = NetBootFileXferSize /\ upgrade_type' = upgrade_type /\ ram' = ram
      /\ outstanding' = outstanding /\ mss' = mss
      /\ data_start_found' = data_start_found /\ boundary_value' = boundary_value
  BY Zenon DEF Stops, apiVars, scanVars, doneVars, loadVars, peerVars
<1>2. ServerInv'
  BY <1>1, Zenon DEF ServerInv, Shapes, BoundaryThere
<1>3. Complete' = Complete /\ Intact' = Intact
  BY <1>1, Zenon DEF Complete, Intact, Stored, SizeOK
<1> QED
  BY <1>1, <1>2, <1>3, Zenon DEF ImageInv

\* The invariants of the server hold in the loop.
LEMMA ServerInLoop ==
    ASSUME OneUpload, LoopInv, [LoopNext]_loopAndServer
    PROVE  ServerInv' /\ ImageInv'
<1>1. NoPostCommands
  BY DEF OneUpload, NoPostCommands
<1> QED
  BY <1>1, LoopMoves, StopsKeeps, ServerKept, ImageStep, Zenon DEF LoopInv

\* Only a request that resets the board ends what the server does with a frame,
\* and nothing the timer does.
LEMMA WhoStops ==
    ASSUME running \in BOOLEAN, running, NEW c \in Conns
    PROVE  /\ Packet(c) => running' \in BOOLEAN
           /\ Timer(c) => running' = running
<1>1. Timer(c) => running' = running
  BY Zenon DEF Timer, Polled, SendAgain, Aborted, Drop, httpdVars
<1>2. ASSUME Packet(c) PROVE running' = running \/ running' = FALSE
  <2>1. ASSUME NEW s \in Segments(c), BadRequest(c, s) \/ GetFile(c, s) \/ WebCommand(c, s) \/ ResetRequest(c, s)
        PROVE  running' = running \/ running' = FALSE
    BY <2>1, Zenon DEF BadRequest, GetFile, WebCommand, ResetRequest, Drop
  <2>2. ASSUME NEW s \in Segments(c), UploadRequest(c, s) PROVE running' = running
    BY <2>2, Zenon DEF UploadRequest, StoreFirst
  <2>3. ASSUME NEW s \in Segments(c), IgnoreData(c, s) \/ FindStart(c, s) \/ UploadData(c, s)
        PROVE  running' = running
    BY <2>3, Zenon DEF IgnoreData, FindStart, UploadData, StoreFirst
  <2>4. ASSUME NEW ev, Acked(c, ev) PROVE running' = running
    BY <2>4, Zenon DEF Acked
  <2>5. ASSUME Closed(c) \/ Aborted(c, {"abort"}) \/ Connected(c) \/ Unnoticed(c) PROVE running' = running
    BY <2>5, Zenon DEF Closed, Aborted, Connected, Unnoticed, Drop, httpdVars
  <2> QED
    BY <1>2, <2>1, <2>2, <2>3, <2>4, <2>5, Zenon DEF Packet
<1> QED
  BY <1>1, <1>2, Zenon

\* What is left of a command after the first of its parts.
LEMMA Shorter ==
    ASSUME NEW S, NEW q \in Seq(S), q # <<>>, Len(q) \in 0..3
    PROVE  /\ Head(q) \in S /\ Tail(q) \in Seq(S) /\ <<>> \in Seq(S)
           /\ Len(Tail(q)) \in 0..3 /\ Len(<<>>) \in 0..3
OBVIOUS

\* Where the loop may be.
LEMMA LoopTypeStep ==
    ASSUME LoopInv, [LoopNext]_loopAndServer
    PROVE  LoopTypeOK'
<1>0. /\ pc \in {"eth_rx", "handler", "ctrlc", "upgrade", "done", "reset"}
      /\ slot \in 0..UIP_CONNS + 1 /\ (pc = "handler") = (slot > 0)
      /\ running = (pc # "reset") /\ running \in BOOLEAN
      /\ Len(cmd) \in 0..3 /\ DOMAIN flash = Parts /\ UIP_CONNS \in Nat
  BY FailsafeAssumption DEF LoopInv, LoopTypeOK
<1> DEFINE Stay == cmd' = cmd /\ flash' = flash
<1>1. CASE ReceiveFrame
  <2>1. pc = "eth_rx" /\ slot' = slot /\ Stay /\ running' \in BOOLEAN /\ pc' = IF running' THEN pc ELSE "reset"
    <3>1. running
      BY <1>0, <1>1, Zenon DEF ReceiveFrame
    <3> QED
      BY <1>0, <1>1, <3>1, WhoStops, Zenon DEF ReceiveFrame
  <2>2. running' = (pc' # "reset")
    BY <2>1, Zenon
  <2>3. pc' \in {"eth_rx", "reset"}
    BY <2>1, Zenon
  <2> QED
    BY <1>0, <2>1, <2>2, <2>3 DEF LoopTypeOK
<1>2. CASE EthRxReturns
  <2>1. /\ pc = "eth_rx" /\ Stay /\ running' = running
        /\ (pc' = "handler" /\ slot' = 1) \/ (pc' = "ctrlc" /\ slot' = slot)
    BY <1>2, Zenon DEF EthRxReturns, vars, httpdVars
  <2>2. running' = (pc' # "reset")
    BY <1>0, <2>1, Zenon
  <2> QED
    BY <1>0, <2>1, <2>2 DEF LoopTypeOK
<1>3. CASE HttpdHandler
  <2>1. running /\ pc = "handler" /\ Stay
    BY <1>0, <1>3, Zenon DEF HttpdHandler
  <2>2. running' = running
    BY <1>0, <1>3, <2>1, WhoStops, Zenon DEF HttpdHandler, vars, httpdVars
  <2>3. (slot \in Conns /\ slot' = slot + 1 /\ pc' = pc) \/ (slot' = 0 /\ pc' = "ctrlc")
    BY <1>3, Zenon DEF HttpdHandler
  <2>4. running' = (pc' # "reset")
    BY <2>1, <2>2, <2>3, Zenon
  <2> QED
    BY <1>0, <2>1, <2>3, <2>4 DEF LoopTypeOK, Conns
<1>4. CASE CtrlC \/ do_reset
  <2>1. pc' = "reset" /\ running' = FALSE /\ Stay /\ slot' = slot /\ pc # "handler"
    BY <1>4, Zenon DEF CtrlC, do_reset
  <2>2. running' = (pc' # "reset")
    BY <2>1, Zenon
  <2> QED
    BY <1>0, <2>1, <2>2 DEF LoopTypeOK
<1>5. CASE Continue \/ UpgradeReady
  <2>1. pc' \in {"eth_rx", "done"} /\ running' = running /\ Stay /\ slot' = slot /\ pc \in {"ctrlc", "upgrade"}
    BY <1>5, Zenon DEF Continue, UpgradeReady, vars, httpdVars
  <2>2. running' = (pc' # "reset")
    BY <1>0, <2>1, Zenon
  <2> QED
    BY <1>0, <2>1, <2>2 DEF LoopTypeOK
<1>6. CASE Upgrade
  <2>1. /\ pc' = "upgrade" /\ running' = running /\ flash' = flash /\ slot' = slot /\ pc = "ctrlc"
        /\ ready_for_upgrade /\ cmd' = Command(NetBootFileXferSize, upgrade_type)
    BY <1>6, Zenon DEF Upgrade, vars, httpdVars
  <2>2. running' = (pc' # "reset")
    BY <1>0, <2>1, Zenon
  <2>3. Len(cmd') \in 0..3
    BY <2>1, CommandFits, Zenon DEF LoopInv
  <2> QED
    BY <1>0, <2>1, <2>2, <2>3 DEF LoopTypeOK
<1>7. CASE RunCommand
  <2>1. /\ pc = "upgrade" /\ pc' = pc /\ slot' = slot /\ running' = running
        /\ cmd # <<>> /\ cmd' \in {Tail(cmd), <<>>}
    BY <1>7, Zenon DEF RunCommand, vars, httpdVars
  <2>2. DOMAIN flash' = DOMAIN flash
    BY <1>7, Zenon DEF RunCommand
  <2>3. Len(cmd') \in 0..3
    <3>1. cmd \in Seq(Fit)
      BY <2>1, Zenon DEF LoopInv, FlashInv
    <3> QED
      BY <1>0, <2>1, <3>1, Shorter, Zenon
  <2>4. running' = (pc' # "reset")
    BY <1>0, <2>1, Zenon
  <2> QED
    BY <1>0, <2>1, <2>2, <2>3, <2>4 DEF LoopTypeOK
<1>8. CASE UNCHANGED loopAndServer
  BY <1>0, <1>8, Zenon DEF loopAndServer, loopVars, vars, httpdVars, LoopTypeOK
<1> QED
  BY <1>1, <1>2, <1>3, <1>4, <1>5, <1>6, <1>7, <1>8, Zenon DEF LoopNext, Step

\* One of the commands leaves the flash as it was, erases the partition of the
\* upload, or writes the upload to it.
LEMMA RunStep ==
    ASSUME LoopInv, RunCommand
    PROVE  FlashInv'
<1>1. /\ pc = "upgrade" /\ pc' = pc /\ cmd # <<>> /\ ready_for_upgrade /\ cmd \in Seq(Fit)
      /\ ready_for_upgrade' = ready_for_upgrade /\ files' = files /\ ServerInv /\ ImageInv
  BY Zenon DEF RunCommand, LoopInv, FlashInv, vars, httpdVars, doneVars, peerVars
<1>2. PICK ok \in Outcomes :
         /\ cmd' = IF ok THEN Tail(cmd) ELSE <<>>
         /\ flash' = IF ~ok \/ Head(cmd).do = "probe" THEN flash
                     ELSE [flash EXCEPT ![Head(cmd).part] =
                             IF Head(cmd).do = "erase" THEN <<>> ELSE Units(Head(cmd).n)]
  BY Zenon DEF RunCommand
<1>3. Head(cmd) \in Fit /\ cmd' \in Seq(Fit)
  BY <1>1, <1>2, Shorter, Zenon DEF LoopInv, LoopTypeOK
<1>4. cmd' \in Seq(Fit)'
  BY <1>1, <1>3, Zenon DEF Fit
<1> DEFINE x == Head(cmd)
<1>5. /\ x.part \in Parts /\ x.part = PartOf(files[1]) /\ x.do \in {"probe", "erase", "write", "source"}
      /\ x.do \in {"write", "source"} =>
           x.n = IF x.part = "emmc" THEN files[1].len + 1 ELSE files[1].len
  BY <1>3, Zenon DEF Fit, Cmd
<1>6. ASSUME NEW p \in Parts
      PROVE  \/ flash'[p] = <<"old">>
             \/ /\ ready_for_upgrade' /\ p = PartOf(files'[1])
                /\ flash'[p] = <<>> \/ Written(p, 1)'
  <2>1. CASE flash'[p] = flash[p]
    <3>1. Written(p, 1) => Written(p, 1)'
      BY <1>1, <2>1, Zenon DEF Written
    <3> QED
      BY <1>1, <2>1, <3>1, Zenon DEF LoopInv, FlashInv
  <2>2. CASE flash'[p] # flash[p]
    <3>1. p = x.part /\ flash'[p] = IF x.do = "erase" THEN <<>> ELSE Units(x.n)
      BY <1>2, <2>2, Zenon DEF LoopInv, LoopTypeOK
    <3>2. x.do # "probe"
      BY <1>2, <2>2, Zenon
    <3>3. CASE x.do = "erase"
      BY <1>1, <1>5, <3>1, <3>3, Zenon
    <3>4. CASE x.do # "erase"
      <4>1. flash'[p] = Units(IF p = "emmc" THEN files[1].len + 1 ELSE files[1].len)
        BY <1>5, <3>1, <3>2, <3>4, Zenon
      <4> QED
        BY <1>1, <1>5, <3>1, <4>1, UnitsWritten, Zenon
    <3> QED
      BY <3>3, <3>4, Zenon
  <2> QED
    BY <2>1, <2>2, Zenon
<1> QED
  BY <1>1, <1>4, <1>6, Zenon DEF FlashInv

\* The flash is only touched by the commands, and what the server says of the
\* upload does not change once they run.
LEMMA FlashStep ==
    ASSUME LoopInv, [LoopNext]_loopAndServer
    PROVE  FlashInv'
<1>0. FlashInv /\ ServerInv /\ ImageInv /\ running = (pc # "reset")
  BY Zenon DEF LoopInv, LoopTypeOK
<1>1. CASE ReceiveFrame \/ HttpdHandler
  <2>1. pc \in {"eth_rx", "handler"} /\ pc' \in {"eth_rx", "handler", "ctrlc", "reset"} /\ flash' = flash
    BY <1>1, Zenon DEF ReceiveFrame, HttpdHandler
  <2>2. flash = OldFlash
    BY <1>0, <2>1, Zenon DEF FlashInv
  <2>3. \A p \in Parts : OldFlash[p] = <<"old">>
    BY Zenon DEF OldFlash
  <2> QED
    BY <2>1, <2>2, <2>3, Zenon DEF FlashInv, OldFlash
<1>2. CASE Upgrade
  <2>1. /\ pc' = "upgrade" /\ pc = "ctrlc" /\ ready_for_upgrade' = ready_for_upgrade /\ ready_for_upgrade
        /\ flash' = flash /\ files' = files /\ cmd' = Command(NetBootFileXferSize, upgrade_type)
    BY <1>2, Zenon DEF Upgrade, vars, httpdVars, doneVars, peerVars
  <2>2. cmd' \in Seq(Fit)
    BY <1>0, <2>1, CommandFits, Zenon
  <2>3. cmd' \in Seq(Fit)'
    BY <2>1, <2>2, Zenon DEF Fit
  <2>4. flash = OldFlash
    BY <1>0, <2>1, Zenon DEF FlashInv
  <2>5. \A p \in Parts : OldFlash[p] = <<"old">>
    BY Zenon DEF OldFlash
  <2> QED
    BY <2>1, <2>3, <2>4, <2>5, Zenon DEF FlashInv
<1>3. CASE EthRxReturns \/ Continue \/ UpgradeReady \/ CtrlC \/ do_reset \/ UNCHANGED loopAndServer
  <2>1. /\ flash' = flash /\ files' = files /\ ready_for_upgrade' = ready_for_upgrade /\ cmd' = cmd
        /\ pc' = "done" => pc \in {"upgrade", "done"}
        /\ pc' = "upgrade" => pc = "upgrade"
        /\ pc' \notin {"upgrade", "done", "reset"} => pc \notin {"upgrade", "done", "reset"}
    <3>1. CASE EthRxReturns
      BY <3>1, Zenon DEF EthRxReturns, vars, httpdVars, doneVars, peerVars
    <3>2. CASE Continue \/ UpgradeReady
      BY <3>2, Zenon DEF Continue, UpgradeReady, vars, httpdVars, doneVars, peerVars
    <3>3. CASE CtrlC \/ do_reset
      BY <3>3, Zenon DEF CtrlC, do_reset, doneVars, peerVars
    <3>4. CASE UNCHANGED loopAndServer
      BY <3>4, Zenon DEF loopAndServer, loopVars, vars, httpdVars, doneVars, peerVars
    <3> QED
      BY <1>3, <3>1, <3>2, <3>3, <3>4, Zenon
  <2>2. Seq(Fit)' = Seq(Fit)
    BY <2>1, Zenon DEF Fit
  <2>3. \A p \in Parts : Written(p, 1) => Written(p, 1)'
    BY <2>1, Zenon DEF Written
  <2> QED
    BY <1>0, <2>1, <2>2, <2>3, Zenon DEF FlashInv
<1>4. CASE RunCommand
  BY <1>4, RunStep, Zenon
<1> QED
  BY <1>1, <1>2, <1>3, <1>4, Zenon DEF LoopNext, Step

LEMMA LoopInvariant ==
    ASSUME OneUpload
    PROVE  LoopSpec => []LoopInv
<1>1. LoopInit => LoopInv
  <2> SUFFICES ASSUME LoopInit PROVE LoopInv
    OBVIOUS
  <2>1. ServerInv /\ ImageInv
    BY ServerInit, ImageInit, Zenon DEF LoopInit
  <2>2. pc = "eth_rx" /\ slot = 0 /\ cmd = <<>> /\ running = TRUE /\ flash = OldFlash
    BY Zenon DEF LoopInit, Init, OldFlash
  <2>3. \A p \in Parts : OldFlash[p] = <<"old">>
    BY Zenon DEF OldFlash
  <2>4. FlashInv
    BY <2>2, <2>3, Zenon DEF FlashInv
  <2>5. running = (pc # "reset") /\ DOMAIN flash = Parts
    BY <2>2, Zenon DEF OldFlash
  <2>6. LoopTypeOK
    BY <2>2, <2>5, FailsafeAssumption DEF LoopTypeOK
  <2> QED
    BY <2>1, <2>4, <2>6 DEF LoopInv
<1>2. LoopInv /\ [LoopNext]_loopAndServer => LoopInv'
  BY ServerInLoop, LoopTypeStep, FlashStep, Zenon DEF LoopInv
<1> QED
  BY <1>1, <1>2, PTL DEF LoopSpec

\* The loop is in one place at a time: HttpdHandler goes through the slots and
\* no further, a command has at most three parts, and the board stops when it
\* is reset and only then.
THEOREM LoopTypeCorrect ==
    ASSUME OneUpload
    PROVE  LoopSpec => []LoopTypeOK
<1>1. LoopInv => LoopTypeOK
  BY DEF LoopInv
<1> QED
  BY <1>1, LoopInvariant, PTL

\* Whenever the power fails, every partition is as it was, or it is the one that
\* belongs to the accepted upload and then erased or exactly the upload: for
\* every board, any number of connections, every cut of the body into segments
\* and whatever flash command fails.
THEOREM FlashCorrect ==
    ASSUME OneUpload
    PROVE  LoopSpec => []FlashIsOldOrUpload
<1>1. LoopInv => FlashIsOldOrUpload
  <2> SUFFICES ASSUME LoopInv, NEW p \in Parts, flash[p] # <<"old">>
               PROVE  \E u \in DOMAIN files : /\ p = PartOf(files[u]) /\ SizeOK(files[u])
                                              /\ flash[p] = <<>> \/ Written(p, u)
    BY Zenon DEF FlashIsOldOrUpload
  <2>1. /\ ready_for_upgrade /\ p = PartOf(files[1])
        /\ flash[p] = <<>> \/ Written(p, 1)
        /\ ServerInv /\ ImageInv
    BY Zenon DEF LoopInv, FlashInv
  <2>2. SizeOK(files[1]) /\ Len(files) = 1 /\ files \in Seq(FileKinds)
    BY <2>1, Asked, Zenon DEF ServerInv, Shapes
  <2>3. 1 \in DOMAIN files
    BY <2>2
  <2> QED
    BY <2>1, <2>2, <2>3, Zenon
<1> QED
  BY <1>1, LoopInvariant, PTL
=============================================================================
