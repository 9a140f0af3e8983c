------------------------------ MODULE EdmaRing ------------------------------
(***************************************************************************)
(* drivers/net/ipq40xx/ipq40xx_edma_eth.c: the rings the driver shares     *)
(* with the Ethernet DMA engine.  The engine fills the receive buffers     *)
(* from its consumer index up to the producer index, and sends the         *)
(* transmit descriptors in the same way, while the processor runs; what is *)
(* received and sent is a frame number.  The engine is external: it is     *)
(* modelled from the registers the driver reads and writes.                *)
(***************************************************************************)
EXTENDS Integers

CONSTANTS
    RxCount,            \* IPQ40XX_EDMA_RX_RING_SIZE
    TxCount,            \* IPQ40XX_EDMA_TX_RING_SIZE
    RxBudget,           \* CONFIG_SYS_RX_ETH_BUFFER
    MaxFrames, MaxSends \* bounds: frames received, frames sent

ASSUME RingAssumption ==
    /\ RxCount \in Nat /\ RxCount >= 2
    /\ TxCount \in Nat /\ TxCount >= 2
    /\ RxBudget \in Nat /\ RxBudget >= RxCount

VARIABLES
    pc,                 \* "idle"; "loop" in rx_complete; "receive" in NetReceive
    sending,            \* 1 in ipq40xx_eth_snd, between its two index registers
    enabled,            \* RXQ_CTRL_EN and TXQ_CTRL_TXQ_EN
    rfdProd, rfdCons,   \* RFD_IDX: the engine fills from rfdCons to before rfdProd
    rxFill, rxClean,    \* sw_next_to_fill and sw_next_to_clean of the RFD ring
    next, cleaned, rx,  \* the locals of rx_complete
    buf,                \* NetRxPackets: the frame in each buffer
    arrived, handled,   \* frames the engine has stored, frames given to NetReceive
    tpdProd, tpdCons,   \* TPD_IDX
    txFill, txClean,    \* sw_next_to_fill and sw_next_to_clean of the TPD ring
    tpd,                \* the frame of each transmit descriptor
    accepted, sent      \* frames eth_snd has taken, the frame that left last

rxRing == <<rfdProd, rfdCons, rxFill, rxClean, buf, arrived>>
rxLocals == <<next, cleaned, rx, handled>>
txRing == <<tpdProd, tpdCons, txFill, txClean, tpd, accepted, sent>>
vars == <<pc, sending, enabled, rxRing, rxLocals, txRing>>

\* Mutant: the index does not wrap.
PlusNoWrap(i, k, count) == i + k

\* Index i of a ring after k increments.
Plus(i, k, count) == (i + k) % count

\* ipq40xx_edma_init, after a reset of the chip: the transmit ring starts
\* where the engine stands.
Init ==
    /\ pc = "idle" /\ sending = 0 /\ enabled = 0
    /\ rfdProd = 0 /\ rfdCons = 0 /\ rxFill = 0 /\ rxClean = 0
    /\ next = 0 /\ cleaned = 0 /\ rx = 0
    /\ buf = [i \in 0..RxCount-1 |-> 0] /\ arrived = 0 /\ handled = 0
    /\ tpdCons \in 0..TxCount-1
    /\ tpdProd = tpdCons /\ txFill = tpdCons /\ txClean = tpdCons
    /\ tpd = [i \in 0..TxCount-1 |-> 0] /\ accepted = 0 /\ sent = 0

\* ipq40xx_edma_alloc_rx_buf: k more buffers from fill on, less one, are the
\* engine's.
AllocRxBuf(fill, k) ==
    LET i == Plus(fill, k, RxCount)
    IN rxFill' = i /\ rfdProd' = IF i = 0 THEN RxCount - 1 ELSE i - 1

-----------------------------------------------------------------------------
\* What the network code does between two packets, or for one.
Caller == pc # "loop" /\ sending = 0

\* Mutant: the buffers are posted from the first one on.
InitFromZero(up) ==
    /\ Caller /\ enabled = 0
    /\ AllocRxBuf(0, RxCount)
    /\ enabled' = IF up THEN 1 ELSE 0
    /\ UNCHANGED <<pc, sending, rfdCons, rxClean, buf, arrived, rxLocals, txRing>>

\* ipq40xx_eth_init, with a link up or not.  NetStartAgain calls it for a
\* packet that rx_complete is at.
EthInit(up) ==
    /\ Caller /\ enabled = 0
    /\ AllocRxBuf(rxFill, RxCount)
    /\ enabled' = IF up THEN 1 ELSE 0
    /\ UNCHANGED <<pc, sending, rfdCons, rxClean, buf, arrived, rxLocals, txRing>>

\* ipq40xx_eth_halt: what is in the rings stays there.
EthHalt ==
    /\ Caller /\ enabled = 1 /\ enabled' = 0
    /\ UNCHANGED <<pc, sending, rxRing, rxLocals, txRing>>

\* Mutant: the last free descriptor is used.
AvailableAll ==
    (IF txClean <= txFill THEN TxCount ELSE 0) + txClean - txFill

\* ipq40xx_edma_tpd_available
TpdAvailable ==
    (IF txClean <= txFill THEN TxCount ELSE 0) + txClean - txFill - 1

\* ipq40xx_eth_snd up to the producer index; a packet for which there is no
\* descriptor is dropped.
EthSnd ==
    /\ Caller /\ TpdAvailable >= 1 /\ accepted < MaxSends
    /\ tpd' = [tpd EXCEPT ![txFill] = accepted + 1] /\ accepted' = accepted + 1
    /\ txFill' = Plus(txFill, 1, TxCount) /\ tpdProd' = txFill'
    /\ sending' = 1
    /\ UNCHANGED <<pc, enabled, rxRing, rxLocals, tpdCons, txClean, sent>>

\* ipq40xx_edma_tx_complete, at the end of eth_snd.
TxComplete ==
    /\ sending = 1 /\ sending' = 0
    /\ txClean' = tpdCons
    /\ UNCHANGED <<pc, enabled, rxRing, rxLocals, tpdProd, tpdCons, txFill, tpd, accepted, sent>>

-----------------------------------------------------------------------------
\* Mutant: a few frames for each call.
RxBeginFew ==
    /\ pc = "idle" /\ sending = 0 /\ pc' = "loop"
    /\ next' = rxClean /\ cleaned' = 0 /\ rx' = RxCount - 2
    /\ UNCHANGED <<sending, enabled, rxRing, handled, txRing>>

\* eth_rx: rx_complete begins.
RxBegin ==
    /\ pc = "idle" /\ sending = 0 /\ pc' = "loop"
    /\ next' = rxClean /\ cleaned' = 0 /\ rx' = RxBudget
    /\ UNCHANGED <<sending, enabled, rxRing, handled, txRing>>

\* The engine has stored another frame, which goes to NetReceive.
RxFrame ==
    /\ pc = "loop" /\ rx > 0 /\ rfdCons # next
    /\ pc' = "receive"
    /\ next' = Plus(next, 1, RxCount) /\ cleaned' = cleaned + 1
    /\ handled' = handled + 1
    /\ UNCHANGED <<sending, enabled, rxRing, rx, txRing>>

\* NetReceive returns.
RxReturn ==
    /\ pc = "receive" /\ sending = 0 /\ pc' = "loop"
    /\ rx' = rx - 1
    /\ UNCHANGED <<sending, enabled, rxRing, next, cleaned, handled, txRing>>

\* Mutant: the buffers are not given back.
RxEndKeeps ==
    /\ pc = "loop" /\ (rx = 0 \/ rfdCons = next) /\ pc' = "idle"
    /\ rxClean' = next
    /\ UNCHANGED <<sending, enabled, rxFill, rfdProd, rfdCons, buf, arrived, rxLocals, txRing>>

\* rx_complete ends and gives the buffers back.
RxEnd ==
    /\ pc = "loop" /\ (rx = 0 \/ rfdCons = next) /\ pc' = "idle"
    /\ rxClean' = next
    /\ IF cleaned # 0 THEN AllocRxBuf(rxFill, cleaned) ELSE UNCHANGED <<rxFill, rfdProd>>
    /\ UNCHANGED <<sending, enabled, rfdCons, buf, arrived, rxLocals, txRing>>

-----------------------------------------------------------------------------
\* The engine stores a frame, if it has a buffer for it.
HwReceive ==
    /\ enabled = 1 /\ rfdCons # rfdProd /\ arrived < MaxFrames
    /\ buf' = [buf EXCEPT ![rfdCons] = arrived + 1] /\ arrived' = arrived + 1
    /\ rfdCons' = Plus(rfdCons, 1, RxCount)
    /\ UNCHANGED <<pc, sending, enabled, rfdProd, rxFill, rxClean, rxLocals, txRing>>

\* The engine sends the frame of a descriptor.
HwTransmit ==
    /\ enabled = 1 /\ tpdCons # tpdProd
    /\ sent' = tpd[tpdCons] /\ tpdCons' = Plus(tpdCons, 1, TxCount)
    /\ UNCHANGED <<pc, sending, enabled, rxRing, rxLocals, tpdProd, txFill, txClean, tpd, accepted>>

RxComplete == RxFrame \/ RxReturn \/ RxEnd

Next ==
    \/ \E up \in BOOLEAN : EthInit(up)
    \/ EthHalt
    \/ EthSnd
    \/ TxComplete
    \/ RxBegin
    \/ RxComplete
    \/ HwReceive
    \/ HwTransmit

Spec == Init /\ [][Next]_vars

\* NetLoop polls a device that is up, and the driver's functions go on.
FairSpec == Spec /\ WF_vars(enabled = 1 /\ RxBegin) /\ WF_vars(RxComplete) /\ WF_vars(TxComplete)

-----------------------------------------------------------------------------
\* Every index is in its ring.
TypeOK ==
    /\ pc \in {"idle", "loop", "receive"} /\ sending \in {0, 1} /\ enabled \in {0, 1}
    /\ {rfdProd, rfdCons, rxFill, rxClean, next} \subseteq 0..RxCount-1
    /\ cleaned \in Nat /\ rx \in Nat /\ arrived \in Nat /\ handled \in Nat
    /\ buf \in [0..RxCount-1 -> Nat]
    /\ {tpdProd, tpdCons, txFill, txClean} \subseteq 0..TxCount-1
    /\ tpd \in [0..TxCount-1 -> Nat] /\ accepted \in Nat /\ sent \in Nat

\* The frame NetReceive is at is the next one in the order of arrival, and
\* stays in its buffer until NetReceive returns, even if the device is
\* stopped and started again meanwhile: none is lost, repeated or overwritten.
FrameIntact ==
    pc = "receive" => buf[IF next = 0 THEN RxCount - 1 ELSE next - 1] = handled

\* rx_complete never stops for its budget: it leaves no frame that is there.
RecvDrains == pc = "loop" => rx > 0

\* Frames leave in the order in which eth_snd took them, each once: no
\* descriptor is used again before the engine is done with it.
SentInOrder == [][sent' \in {sent, sent + 1} /\ sent' <= accepted']_vars

\* An engine without a buffer to fill gets one again.
RingRefilled == (enabled = 1 /\ rfdCons = rfdProd) ~> (enabled = 0 \/ rfdCons # rfdProd)

\* "leave the state such that the send function can be called multiple times
\* in a row": when all that was to be sent has left, another frame is taken.
SendAgain == sending = 0 /\ tpdCons = tpdProd => TpdAvailable >= 1
=============================================================================
