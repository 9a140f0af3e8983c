----------------------------- MODULE WebFailsafe ----------------------------
(***************************************************************************)
(* HttpdLoop, the failsafe mode: it serves the network through Httpd until *)
(* an upgrade is asked for, writes the upload buffer to flash with         *)
(* do_http_upgrade and resets the board.  Power may fail in every state:   *)
(* what an invariant says of the flash is what the next boot finds.        *)
(***************************************************************************)
EXTENDS Httpd

CONSTANTS
    EthRx,              \* values that eth_rx returns; 0 only with the EDMA driver
    Board,              \* "nor" and "dk04" boot from SPI flash, "dk04" has eMMC,
                        \* "nand", or "other"
    Outcomes,           \* results of a flash command
    FirmwareMax         \* openwrt_firmware_size

\* A file has a first byte for do_checkout_firmware to look at: an upload of
\* less than 10 KB is refused.
ASSUME FailsafeAssumption == UIP_CONNS \in Nat /\ \A f \in FileKinds : f.len > 0

VARIABLES
    pc,                 \* where the loop is
    slot,               \* the connection HttpdHandler calls uip_periodic for
    cmd,                \* what is left of the command that run_command executes
    flash               \* contents of the partitions

loopVars == <<pc, slot, cmd, flash>>
loopAndServer == <<vars, loopVars>>

Parts == Types \cup {"emmc"}

LoopInit ==
    /\ Init
    /\ pc = "eth_rx" /\ slot = 0 /\ cmd = <<>>
    /\ flash = [p \in Parts |-> <<"old">>]

\* NetReceive hands a frame to uIP: eth_rx handles all frames there are.
ReceiveFrame ==
    /\ pc = "eth_rx"
    /\ \E c \in Conns : Packet(c)
    /\ pc' = IF running' THEN pc ELSE "reset"
    /\ UNCHANGED <<slot, cmd, flash>>

\* Only a positive result of eth_rx leads to HttpdHandler.
EthRxReturns ==
    /\ pc = "eth_rx"
    /\ \E v \in EthRx : IF v > 0 THEN pc' = "handler" /\ slot' = 1
                                 ELSE pc' = "ctrlc" /\ UNCHANGED slot
    /\ UNCHANGED <<vars, cmd, flash>>

\* Mutant: the loop over the connections ends one too late.
HttpdHandlerOneMore ==
    /\ pc = "handler"
    /\ \/ /\ slot \in 1..UIP_CONNS + 1
          /\ (slot \in Conns /\ Timer(slot)) \/ UNCHANGED vars
          /\ slot' = slot + 1 /\ UNCHANGED pc
       \/ /\ slot \in {1, UIP_CONNS + 2}
          /\ pc' = "ctrlc" /\ slot' = 0 /\ UNCHANGED vars
    /\ UNCHANGED <<cmd, flash>>

\* HttpdHandler: uip_periodic for every connection, unless the last answer is
\* still in the buffer (uip_len), which is then taken for a frame.
HttpdHandler ==
    /\ pc = "handler"
    /\ \/ /\ slot \in Conns
          /\ Timer(slot) \/ UNCHANGED vars
          /\ slot' = slot + 1 /\ UNCHANGED pc
       \/ /\ slot \in {1, UIP_CONNS + 1}
          /\ pc' = "ctrlc" /\ slot' = 0 /\ UNCHANGED vars
    /\ UNCHANGED <<cmd, flash>>

\* ctrl-c resets the board.
CtrlC ==
    /\ pc = "ctrlc"
    /\ pc' = "reset" /\ running' = FALSE
    /\ UNCHANGED <<apiVars, hs, scanVars, doneVars, loadVars, peerVars, slot, cmd, flash>>

Write(p, n) == <<[do |-> "probe", part |-> p, n |-> 0], [do |-> "erase", part |-> p, n |-> 0],
                 [do |-> "write", part |-> p, n |-> n]>>

\* do_checkout_firmware: what the start of the upload buffer looks like.
do_checkout_firmware == IF ram[1][1] = 0 THEN "openwrt" ELSE files[ram[1][1]].image

\* The command that do_http_upgrade runs; none for a file that is too large or
\* a board it does not know.  On eMMC size/512 + 1 blocks are written.
Command(size, type) ==
    CASE type = "uboot" -> IF size > UbootMax THEN <<>> ELSE Write("uboot", size)
      [] type = "art" -> Write("art", ArtSize)
      [] type = "mibib" -> Write("mibib", MibibSize)
      [] type = "firmware" ->
           LET image == do_checkout_firmware IN
           IF image = "openwrt"
           THEN IF Board = "nand" \/ (Board \in {"nor", "dk04"} /\ size <= FirmwareMax)
                THEN Write("firmware", size) ELSE <<>>
           ELSE IF image = "emmc"
           THEN IF Board = "dk04" THEN Tail(Write("emmc", size + 1)) ELSE <<>>
           ELSE <<[do |-> "probe", part |-> "firmware", n |-> 0],
                  [do |-> "source", part |-> "firmware", n |-> size]>>

\* Mutant: the upgrade is not waited for.
UpgradeUnasked ==
    /\ pc = "ctrlc"
    /\ pc' = "upgrade"
    /\ cmd' = Command(NetBootFileXferSize, upgrade_type)
    /\ UNCHANGED <<vars, slot, flash>>

\* The upgrade that was asked for: eth_halt, then the command.
Upgrade ==
    /\ pc = "ctrlc"
    /\ ready_for_upgrade
    /\ pc' = "upgrade"
    /\ cmd' = Command(NetBootFileXferSize, upgrade_type)
    /\ UNCHANGED <<vars, slot, flash>>

\* Nothing was asked for: the loop goes on.
Continue ==
    /\ pc = "ctrlc"
    /\ ~ready_for_upgrade
    /\ pc' = "eth_rx"
    /\ UNCHANGED <<vars, slot, cmd, flash>>

Units(n) == [i \in 1..n |-> ram[i]]

\* One of the commands joined by &&: a failure ends them all.  The script of a
\* QSDK image writes the firmware.
RunCommand ==
    /\ pc = "upgrade" /\ cmd # <<>>
    /\ \E ok \in Outcomes :
          /\ cmd' = IF ok THEN Tail(cmd) ELSE <<>>
          /\ flash' = IF ~ok \/ Head(cmd).do = "probe" THEN flash
                      ELSE [flash EXCEPT ![Head(cmd).part] =
                              IF Head(cmd).do = "erase" THEN <<>> ELSE Units(Head(cmd).n)]
    /\ UNCHANGED <<vars, pc, slot>>

\* Mutant: the loop goes on instead.
UpgradeReadyContinues ==
    /\ pc = "upgrade" /\ cmd = <<>>
    /\ pc' = "eth_rx"
    /\ UNCHANGED <<vars, slot, cmd, flash>>

\* do_http_upgrade returns 0 whatever run_command returned, and the console
\* says that the upgrade is done.
UpgradeReady ==
    /\ pc = "upgrade" /\ cmd = <<>>
    /\ pc' = "done"
    /\ UNCHANGED <<vars, slot, cmd, flash>>

do_reset ==
    /\ pc = "done"
    /\ pc' = "reset" /\ running' = FALSE
    /\ UNCHANGED <<apiVars, hs, scanVars, doneVars, loadVars, peerVars, slot, cmd, flash>>

Step == EthRxReturns \/ HttpdHandler \/ Continue \/ Upgrade \/ RunCommand \/ UpgradeReady \/ do_reset

LoopNext == ReceiveFrame \/ CtrlC \/ Step

\* The loop is the only thread of the machine: it goes on.
LoopSpec == LoopInit /\ [][LoopNext]_loopAndServer /\ WF_loopAndServer(Step)

-----------------------------------------------------------------------------
LoopTypeOK ==
    /\ pc \in {"eth_rx", "handler", "ctrlc", "upgrade", "done", "reset"}
    /\ slot \in 0..UIP_CONNS + 1 /\ (pc = "handler") = (slot > 0)
    /\ running = (pc # "reset")
    /\ Len(cmd) \in 0..3 /\ DOMAIN flash = Parts

PartOf(f) == IF f.type = "firmware" /\ f.image = "emmc" THEN "emmc" ELSE f.type

\* Partition p holds upload u, on eMMC with the rest of the last block.
Written(p, u) ==
    LET n == files[u].len IN
    /\ Len(flash[p]) = IF p = "emmc" THEN n + 1 ELSE n
    /\ SubSeq(flash[p], 1, n) = [i \in 1..n |-> <<u, i>>]

\* At every moment, also if the power fails now, every partition is as it was,
\* or it is the one that belongs to an accepted upload, and then it is erased
\* or holds exactly the uploaded file (do_http_upgrade).
FlashIsOldOrUpload ==
    \A p \in Parts : flash[p] # <<"old">> =>
        \E u \in DOMAIN files : /\ p = PartOf(files[u]) /\ SizeOK(files[u])
                                /\ flash[p] = <<>> \/ Written(p, u)

\* The console says that the upgrade is done only if the upload is in flash.
DoneMeansWritten ==
    pc = "done" => \E u \in DOMAIN files : Written(PartOf(files[u]), u)

\* An upgrade that was asked for ends in a reset.
UpgradeEnds == ready_for_upgrade ~> ~running

\* The timers of the stack run again and again while the server runs: uIP wants
\* uip_periodic to be called for every connection.
TimersRun == []<>(pc = "handler" \/ ~running)
=============================================================================
