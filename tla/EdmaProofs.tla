----------------------------- MODULE EdmaProofs -----------------------------
(***************************************************************************)
(* Proofs about the rings of the Ethernet driver, for every size of them   *)
(* and any number of frames.                                               *)
(***************************************************************************)
EXTENDS EdmaRing, TLAPS

\* Index i of a ring of n after k <= n increments, without a division.
At(i, k, n) == IF i + k < n THEN i + k ELSE i + k - n

\* Plus computes it.
LEMMA PlusIsAt ==
    ASSUME NEW n \in Nat, n >= 1, NEW i \in 0..n-1, NEW k \in 0..n
    PROVE  Plus(i, k, n) = At(i, k, n) /\ Plus(i, k, n) \in 0..n-1
<1>1. CASE i + k < n
  BY <1>1 DEF Plus, At
<1>2. CASE i + k >= n
  <2> DEFINE j == i + k - n
  <2>1. j \in 0..n-1
    BY <1>2
  <2>2. i + k = 1 * n + j
    OBVIOUS
  <2>3. (i + k) % n = j
    BY <2>1, <2>2
  <2> QED
    BY <1>2, <2>1, <2>3 DEF Plus, At
<1> QED
  BY <1>1, <1>2

-----------------------------------------------------------------------------
\* How many frames of this call have been given to NetReceive, and how many
\* the engine has stored since the last call.
Given == IF pc = "idle" THEN 0 ELSE cleaned
Stored == arrived - (handled - Given)

RxType ==
    /\ pc \in {"idle", "loop", "receive"} /\ sending \in {0, 1} /\ enabled \in {0, 1}
    /\ rfdProd \in 0..RxCount-1 /\ rfdCons \in 0..RxCount-1 /\ rxFill \in 0..RxCount-1
    /\ rxClean \in 0..RxCount-1 /\ next \in 0..RxCount-1
    /\ cleaned \in Nat /\ rx \in Nat /\ arrived \in Nat /\ handled \in Nat
    /\ buf \in [0..RxCount-1 -> Nat]

\* The engine's buffers end before the first one that is not given back.
Posted == rfdProd = IF rxFill = 0 THEN RxCount - 1 ELSE rxFill - 1

\* The frames stored since the last call are in the buffers from rxClean on,
\* and all but one buffer can hold one.
RxInv ==
    /\ RxType
    /\ rxFill = rxClean
    /\ Posted \/ (enabled = 0 /\ arrived = 0)
    /\ Given <= Stored /\ Stored <= RxCount - 1
    /\ rfdCons = At(rxClean, Stored, RxCount)
    /\ pc # "idle" => next = At(rxClean, cleaned, RxCount)
    /\ pc = "loop" => rx = RxBudget - cleaned
    /\ pc = "receive" => rx = RxBudget - cleaned + 1 /\ cleaned >= 1
    /\ \A k \in 0..RxCount-1 : k < Stored =>
           buf[At(rxClean, k, RxCount)] = handled - Given + k + 1

\* FrameIntact, RecvDrains and the receive side of TypeOK follow.
LEMMA RxInvMeans == RxInv => FrameIntact /\ RecvDrains
<1> SUFFICES ASSUME RxInv PROVE FrameIntact /\ RecvDrains
  OBVIOUS
<1>1. RecvDrains
  BY RingAssumption DEF RxInv, RxType, RecvDrains, Given, Stored
<1>2. ASSUME pc = "receive"
      PROVE  buf[IF next = 0 THEN RxCount - 1 ELSE next - 1] = handled
  <2> DEFINE k == cleaned - 1
  <2>1. k \in 0..RxCount-1 /\ k < Stored /\ Given = cleaned
    BY <1>2, RingAssumption DEF RxInv, RxType, Given, Stored
  <2>2. At(rxClean, k, RxCount) = IF next = 0 THEN RxCount - 1 ELSE next - 1
    BY <1>2, <2>1, RingAssumption DEF RxInv, RxType, At, Given
  <2>3. buf[At(rxClean, k, RxCount)] = handled - Given + k + 1
    BY <2>1 DEF RxInv
  <2> QED
    BY <2>1, <2>2, <2>3 DEF RxInv, RxType
<1> QED
  BY <1>1, <1>2 DEF FrameIntact


\* Both are numbers.
LEMMA RxNumbers == RxInv => Given \in 0..Stored /\ Stored \in 0..RxCount-1
BY RingAssumption DEF RxInv, RxType, Given, Stored

\* A step that leaves the receive ring alone.
LEMMA RxFrameRule ==
    ASSUME RxInv, UNCHANGED <<pc, rxRing, rxLocals>>, sending' \in {0, 1}, enabled' = enabled \/ enabled' = 0
    PROVE  RxInv'
BY DEF RxInv, RxType, Posted, Given, Stored, rxRing, rxLocals

\* Posting all buffers changes none.
LEMMA RxInitStep ==
    ASSUME RxInv, NEW up \in BOOLEAN, EthInit(up)
    PROVE  RxInv'
<1>1. Plus(rxFill, RxCount, RxCount) = rxFill
  <2>1. Plus(rxFill, RxCount, RxCount) = At(rxFill, RxCount, RxCount)
    BY RingAssumption, PlusIsAt DEF RxInv, RxType
  <2> QED
    BY <2>1, RingAssumption DEF RxInv, RxType, At
<1>2. rxFill' = rxFill /\ Posted' /\ rfdProd' \in 0..RxCount-1
  BY <1>1, RingAssumption DEF EthInit, AllocRxBuf, Posted, RxInv, RxType
<1>3. /\ UNCHANGED <<pc, sending, rfdCons, rxClean, buf, arrived, next, cleaned, rx, handled>>
      /\ enabled' \in {0, 1}
  BY DEF EthInit, rxLocals
<1>4. Given' = Given /\ Stored' = Stored
  BY <1>3 DEF Given, Stored
<1>5. RxType'
  BY <1>2, <1>3 DEF RxInv, RxType
<1> QED
  BY <1>2, <1>3, <1>4, <1>5 DEF RxInv

\* rx_complete starts at the first buffer that was not given back.
LEMMA RxBeginStep ==
    ASSUME RxInv, RxBegin
    PROVE  RxInv'
<1>1. Given' = 0 /\ Given = 0 /\ Stored' = Stored
  BY DEF RxBegin, Given, Stored, rxRing
<1>2. RxType'
  BY RingAssumption DEF RxInv, RxType, RxBegin, rxRing
<1>3. next' = At(rxClean', cleaned', RxCount)
  BY RingAssumption DEF RxInv, RxType, RxBegin, rxRing, At
<1>4. rx' = RxBudget - cleaned' /\ pc' = "loop"
  BY RingAssumption DEF RxBegin
<1>5. UNCHANGED <<rfdProd, rfdCons, rxFill, rxClean, buf, arrived, enabled, handled>>
  BY DEF RxBegin, rxRing
<1> QED
  BY <1>1, <1>2, <1>3, <1>4, <1>5 DEF RxInv, Posted

\* The next frame.
LEMMA RxFrameStep ==
    ASSUME RxInv, RxFrame
    PROVE  RxInv'
<1>1. /\ pc = "loop" /\ pc' = "receive" /\ cleaned' = cleaned + 1 /\ handled' = handled + 1
      /\ UNCHANGED <<rfdProd, rfdCons, rxFill, rxClean, buf, arrived, enabled, sending, rx>>
  BY DEF RxFrame, rxRing
<1>2. Given = cleaned /\ Given' = cleaned + 1 /\ Stored' = Stored /\ handled' - Given' = handled - Given
  BY <1>1 DEF Given, Stored, RxInv, RxType
<1>3. cleaned + 1 <= Stored
  <2>1. cleaned # Stored
    BY <1>1 DEF RxFrame, RxInv
  <2> QED
    BY <1>2, <2>1 DEF RxInv, RxType, Stored, Given
<1>4. next' = At(next, 1, RxCount) /\ next' \in 0..RxCount-1
  BY RingAssumption, PlusIsAt, SMTT(60) DEF RxFrame, RxInv, RxType
<1>5. next' = At(rxClean, cleaned + 1, RxCount)
  BY <1>1, <1>2, <1>3, <1>4, RingAssumption, RxNumbers DEF RxInv, RxType, At
<1>6. RxType'
  BY <1>1, <1>4 DEF RxInv, RxType
<1>7. rx' = RxBudget - cleaned' + 1 /\ cleaned' >= 1
  BY <1>1, RingAssumption DEF RxInv, RxType
<1> QED
  BY <1>1, <1>2, <1>3, <1>5, <1>6, <1>7 DEF RxInv, Posted

\* NetReceive is over.
LEMMA RxReturnStep ==
    ASSUME RxInv, RxReturn
    PROVE  RxInv'
<1>1. /\ pc = "receive" /\ pc' = "loop" /\ rx' = rx - 1
      /\ UNCHANGED <<rfdProd, rfdCons, rxFill, rxClean, buf, arrived, enabled, sending, next, cleaned, handled>>
  BY DEF RxReturn, rxRing
<1>2. Given' = Given /\ Stored' = Stored /\ Given = cleaned
  BY <1>1 DEF Given, Stored
<1>3. rx' = RxBudget - cleaned /\ rx' \in Nat
  BY <1>1, <1>2, RingAssumption DEF RxInv, RxType, Stored
<1>4. RxType'
  BY <1>1, <1>3 DEF RxInv, RxType
<1> QED
  BY <1>1, <1>2, <1>3, <1>4 DEF RxInv, Posted

\* The buffers of this call are given back.
LEMMA RxEndStep ==
    ASSUME RxInv, RxEnd
    PROVE  RxInv'
<1>1. /\ pc = "loop" /\ pc' = "idle" /\ rxClean' = next
      /\ UNCHANGED <<rfdCons, buf, arrived, enabled, sending, next, cleaned, rx, handled>>
  BY DEF RxEnd, rxLocals
<1>2. Given = cleaned /\ Given' = 0 /\ Stored' = Stored - cleaned
  BY <1>1 DEF Given, Stored, RxInv, RxType
<1>3. cleaned \in 0..RxCount-1 /\ Stored \in 0..RxCount-1 /\ cleaned <= Stored
  BY <1>2, RingAssumption, RxNumbers
<1>4. next = At(rxClean, cleaned, RxCount)
  BY <1>1 DEF RxInv
<1>5. Plus(rxFill, cleaned, RxCount) = next
  BY <1>3, <1>4, RingAssumption, PlusIsAt DEF RxInv, RxType
<1>6. rxFill' = next /\ rfdProd' \in 0..RxCount-1 /\ (Posted' \/ (enabled' = 0 /\ arrived' = 0))
  <2>1. CASE cleaned # 0
    <3>1. /\ rxFill' = next
          /\ rfdProd' = IF next = 0 THEN RxCount - 1 ELSE next - 1
      BY <1>5, <2>1 DEF RxEnd, AllocRxBuf
    <3>2. rfdProd' \in 0..RxCount-1
      BY <3>1, RingAssumption DEF RxInv, RxType
    <3> QED
      BY <3>1, <3>2 DEF Posted
  <2>2. CASE cleaned = 0
    <3>1. next = rxClean
      BY <1>4, <2>2, RingAssumption DEF RxInv, RxType, At
    <3> QED
      BY <1>1, <2>2, <3>1 DEF RxEnd, Posted, RxInv, RxType
  <2> QED
    BY <2>1, <2>2
<1>7. RxType'
  BY <1>1, <1>6 DEF RxInv, RxType
<1>8. rfdCons' = At(rxClean', Stored', RxCount)
  BY <1>1, <1>2, <1>3, <1>4, RingAssumption DEF RxInv, RxType, At
<1>9. ASSUME NEW k \in 0..RxCount-1, k < Stored'
      PROVE  buf'[At(rxClean', k, RxCount)] = handled' - Given' + k + 1
  <2> DEFINE m == k + cleaned
  <2>1. m \in 0..RxCount-1 /\ m < Stored
    BY <1>2, <1>3, <1>9, RingAssumption
  <2>2. At(rxClean', k, RxCount) = At(rxClean, m, RxCount)
    BY <1>1, <1>3, <1>4, <2>1, RingAssumption DEF RxInv, RxType, At
  <2>3. buf[At(rxClean, m, RxCount)] = handled - cleaned + m + 1
    BY <1>2, <2>1 DEF RxInv
  <2>4. handled - cleaned + m + 1 = handled + k + 1
    BY <1>3 DEF RxInv, RxType
  <2> QED
    BY <1>1, <1>2, <2>2, <2>3, <2>4 DEF RxInv, RxType
<1>10. Given' <= Stored' /\ Stored' <= RxCount - 1
  BY <1>2, <1>3, RingAssumption
<1> QED
  BY <1>1, <1>6, <1>7, <1>8, <1>9, <1>10 DEF RxInv

\* The engine stores a frame: never in a buffer that was not given back.
LEMMA HwReceiveStep ==
    ASSUME RxInv, HwReceive
    PROVE  RxInv'
<1>1. /\ rfdCons # rfdProd /\ enabled = 1 /\ arrived' = arrived + 1
      /\ buf' = [buf EXCEPT ![rfdCons] = arrived + 1]
      /\ UNCHANGED <<pc, enabled, sending, rfdProd, rxFill, rxClean, next, cleaned, rx, handled>>
  BY DEF HwReceive, rxLocals
<1>2. Given' = Given /\ Stored' = Stored + 1 /\ Given \in Nat /\ Stored \in 0..RxCount-1
  BY <1>1 DEF Given, Stored, RxInv, RxType
<1>3. Posted
  BY <1>1 DEF RxInv
<1>4. Stored # RxCount - 1
  BY <1>1, <1>2, <1>3, RingAssumption DEF RxInv, RxType, Posted, At
<1>5. rfdCons' = At(rfdCons, 1, RxCount) /\ rfdCons' \in 0..RxCount-1
  BY RingAssumption, PlusIsAt, SMTT(60) DEF HwReceive, RxInv, RxType
<1>6. rfdCons' = At(rxClean, Stored + 1, RxCount)
  BY <1>2, <1>4, <1>5, RingAssumption DEF RxInv, RxType, At
<1>7. RxType'
  BY <1>1, <1>5 DEF RxInv, RxType
<1>8. ASSUME NEW k \in 0..RxCount-1, k < Stored + 1
      PROVE  buf'[At(rxClean, k, RxCount)] = handled - Given + k + 1
  <2>1. CASE k = Stored
    <3>1. At(rxClean, k, RxCount) = rfdCons
      BY <2>1 DEF RxInv
    <3>2. arrived + 1 = handled - Given + k + 1
      BY <1>2, <2>1 DEF Stored, RxInv, RxType
    <3> QED
      BY <1>1, <3>1, <3>2 DEF RxInv, RxType
  <2>2. CASE k < Stored
    <3>1. At(rxClean, k, RxCount) # rfdCons
      BY <1>2, <2>2, RingAssumption DEF RxInv, RxType, At
    <3>2. At(rxClean, k, RxCount) \in 0..RxCount-1
      BY RingAssumption DEF RxInv, RxType, At
    <3>3. buf[At(rxClean, k, RxCount)] = handled - Given + k + 1
      BY <2>2 DEF RxInv
    <3> QED
      BY <1>1, <3>1, <3>2, <3>3 DEF RxInv, RxType
  <2> QED
    BY <1>2, <1>8, <2>1, <2>2
<1>9. Given' <= Stored' /\ Stored' <= RxCount - 1
  BY <1>2, <1>4, RingAssumption, RxNumbers
<1>10. Posted'
  BY <1>1, <1>3 DEF Posted
<1> QED
  BY <1>1, <1>2, <1>6, <1>7, <1>8, <1>9, <1>10 DEF RxInv


-----------------------------------------------------------------------------
\* The number of increments from index i to index j.
Dist(i, j) == IF i <= j THEN j - i ELSE j - i + TxCount

\* From txClean, the descriptors the engine has sent and those that are used.
Freed == Dist(txClean, tpdCons)
Used == Dist(txClean, txFill)

TxType ==
    /\ sending \in {0, 1}
    /\ tpdProd \in 0..TxCount-1 /\ tpdCons \in 0..TxCount-1
    /\ txFill \in 0..TxCount-1 /\ txClean \in 0..TxCount-1
    /\ tpd \in [0..TxCount-1 -> Nat] /\ accepted \in Nat /\ sent \in Nat

\* The frames that eth_snd has taken and that have not left are in the
\* descriptors from the engine's index to the producer index, in order.
TxInv ==
    /\ TxType
    /\ tpdProd = txFill
    /\ Freed <= Used /\ Used - Freed = accepted - sent
    /\ \A k \in 0..TxCount-1 : Freed <= k /\ k < Used =>
           tpd[At(txClean, k, TxCount)] = sent + (k - Freed) + 1

\* An index is its distance from another one.
LEMMA DistIsAt ==
    ASSUME NEW i \in 0..TxCount-1, NEW j \in 0..TxCount-1
    PROVE  Dist(i, j) \in 0..TxCount-1 /\ At(i, Dist(i, j), TxCount) = j
BY RingAssumption DEF Dist, At

\* A step that leaves the transmit ring alone.
LEMMA TxFrameRule ==
    ASSUME TxInv, UNCHANGED <<txRing, sending>>
    PROVE  TxInv'
BY DEF TxInv, TxType, Freed, Used, txRing

\* eth_snd uses a descriptor that is free.
LEMMA EthSndStep ==
    ASSUME TxInv, EthSnd
    PROVE  TxInv'
<1>1. /\ tpd' = [tpd EXCEPT ![txFill] = accepted + 1] /\ accepted' = accepted + 1
      /\ tpdProd' = txFill' /\ UNCHANGED <<tpdCons, txClean, sent>> /\ sending' = 1
  BY DEF EthSnd
<1>2. txFill' = At(txFill, 1, TxCount) /\ txFill' \in 0..TxCount-1
  BY RingAssumption, PlusIsAt DEF EthSnd, TxInv, TxType
<1>3. Used \in 0..TxCount-1 /\ Freed \in 0..TxCount-1 /\ At(txClean, Used, TxCount) = txFill
  BY DistIsAt DEF TxInv, TxType, Used, Freed
<1>4. Used + 1 <= TxCount - 1
  BY RingAssumption DEF EthSnd, TpdAvailable, TxInv, TxType, Used, Dist
<1>5. Freed' = Freed /\ Used' = Used + 1
  BY <1>1, <1>2, <1>3, <1>4, RingAssumption DEF Freed, Used, Dist, At, TxInv, TxType
<1>6. TxType'
  BY <1>1, <1>2 DEF TxInv, TxType
<1>7. ASSUME NEW k \in 0..TxCount-1, Freed <= k, k < Used + 1
      PROVE  tpd'[At(txClean, k, TxCount)] = sent + (k - Freed) + 1
  <2>1. CASE k = Used
    <3>1. accepted + 1 = sent + (k - Freed) + 1
      BY <1>3, <2>1 DEF TxInv, TxType
    <3> QED
      BY <1>1, <1>3, <2>1, <3>1 DEF TxInv, TxType
  <2>2. CASE k < Used
    <3>1. At(txClean, k, TxCount) # txFill /\ At(txClean, k, TxCount) \in 0..TxCount-1
      BY <1>3, <2>2, RingAssumption DEF TxInv, TxType, At
    <3>2. tpd[At(txClean, k, TxCount)] = sent + (k - Freed) + 1
      BY <1>7, <2>2 DEF TxInv
    <3> QED
      BY <1>1, <3>1, <3>2 DEF TxInv, TxType
  <2> QED
    BY <1>3, <1>7, <2>1, <2>2, RingAssumption
<1>8. Freed' <= Used' /\ Used' - Freed' = accepted' - sent'
  BY <1>1, <1>3, <1>5, RingAssumption DEF TxInv, TxType
<1> QED
  BY <1>1, <1>5, <1>6, <1>7, <1>8 DEF TxInv

\* tx_complete frees what has left.
LEMMA TxCompleteStep ==
    ASSUME TxInv, TxComplete
    PROVE  TxInv'
<1>1. txClean' = tpdCons /\ sending' = 0 /\ UNCHANGED <<tpdProd, tpdCons, txFill, tpd, accepted, sent>>
  BY DEF TxComplete
<1>2. Used \in 0..TxCount-1 /\ Freed \in 0..TxCount-1 /\ Freed <= Used
  BY DistIsAt DEF TxInv, TxType, Used, Freed
<1>3. Freed' = 0 /\ Used' = Used - Freed
  BY <1>1, <1>2, RingAssumption DEF Freed, Used, Dist, TxInv, TxType
<1>4. TxType'
  BY <1>1 DEF TxInv, TxType
<1>5. ASSUME NEW k \in 0..TxCount-1, k < Used - Freed
      PROVE  tpd[At(tpdCons, k, TxCount)] = sent + k + 1
  <2> DEFINE m == k + Freed
  <2>1. m \in 0..TxCount-1 /\ Freed <= m /\ m < Used /\ m - Freed = k
    BY <1>2, <1>5, RingAssumption
  <2>2. At(tpdCons, k, TxCount) = At(txClean, m, TxCount)
    BY <1>2, <2>1, RingAssumption DEF TxInv, TxType, At, Freed, Dist
  <2>3. tpd[At(txClean, m, TxCount)] = sent + (m - Freed) + 1
    BY <2>1 DEF TxInv
  <2> QED
    BY <2>1, <2>2, <2>3
<1>6. Freed' <= Used' /\ Used' - Freed' = accepted' - sent'
  BY <1>1, <1>2, <1>3, RingAssumption DEF TxInv, TxType
<1>7. \A k \in 0..TxCount-1 : Freed' <= k /\ k < Used' =>
          tpd'[At(txClean', k, TxCount)] = sent' + (k - Freed') + 1
  BY <1>1, <1>3, <1>5, RingAssumption
<1> QED
  BY <1>1, <1>4, <1>6, <1>7 DEF TxInv

\* The engine sends the frame that is next.
LEMMA HwTransmitStep ==
    ASSUME TxInv, HwTransmit
    PROVE  TxInv' /\ sent' = sent + 1 /\ sent' <= accepted'
<1>1. /\ tpdCons # tpdProd /\ sent' = tpd[tpdCons]
      /\ UNCHANGED <<tpdProd, txFill, txClean, tpd, accepted, sending>>
  BY DEF HwTransmit
<1>2. /\ Used \in 0..TxCount-1 /\ Freed \in 0..TxCount-1 /\ Freed <= Used
      /\ At(txClean, Used, TxCount) = txFill /\ At(txClean, Freed, TxCount) = tpdCons
  BY DistIsAt DEF TxInv, TxType, Used, Freed
<1>3. Freed < Used
  BY <1>1, <1>2, RingAssumption DEF TxInv
<1>4. sent' = sent + 1
  <2>1. tpd[At(txClean, Freed, TxCount)] = sent + (Freed - Freed) + 1
    BY <1>2, <1>3 DEF TxInv
  <2> QED
    BY <1>1, <1>2, <2>1 DEF TxInv, TxType
<1>5. tpdCons' = At(tpdCons, 1, TxCount) /\ tpdCons' \in 0..TxCount-1
  BY RingAssumption, PlusIsAt, SMTT(60) DEF HwTransmit, TxInv, TxType
<1>6. Freed' = Freed + 1 /\ Used' = Used
  BY <1>1, <1>2, <1>3, <1>5, RingAssumption DEF Freed, Used, Dist, At, TxInv, TxType
<1>7. TxType'
  BY <1>1, <1>4, <1>5 DEF TxInv, TxType
<1>8. ASSUME NEW k \in 0..TxCount-1, Freed + 1 <= k, k < Used
      PROVE  tpd[At(txClean, k, TxCount)] = sent + 1 + (k - (Freed + 1)) + 1
  <2>1. tpd[At(txClean, k, TxCount)] = sent + (k - Freed) + 1
    BY <1>2, <1>8, RingAssumption DEF TxInv
  <2> QED
    BY <1>2, <2>1 DEF TxInv, TxType
<1>9. Freed' <= Used' /\ Used' - Freed' = accepted' - sent'
  BY <1>1, <1>2, <1>3, <1>4, <1>6, RingAssumption DEF TxInv, TxType
<1>10. sent' <= accepted'
  BY <1>1, <1>2, <1>3, <1>4, RingAssumption DEF TxInv, TxType
<1> QED
  BY <1>1, <1>4, <1>6, <1>7, <1>8, <1>9, <1>10 DEF TxInv

-----------------------------------------------------------------------------
\* The invariant of both rings.
RingInv == RxInv /\ TxInv

\* It holds after ipq40xx_edma_init.
LEMMA RingInit == Init => RingInv
<1> SUFFICES ASSUME Init PROVE RingInv
  OBVIOUS
<1>1. RxInv
  <2>1. Given = 0 /\ Stored = 0
    BY DEF Init, Given, Stored
  <2>2. RxType
    BY RingAssumption DEF Init, RxType
  <2>3. rfdCons = At(rxClean, 0, RxCount)
    BY RingAssumption DEF Init, At
  <2> QED
    BY <2>1, <2>2, <2>3, RingAssumption DEF Init, RxInv
<1>2. TxInv
  <2>1. TxType
    BY RingAssumption DEF Init, TxType
  <2>2. Freed = 0 /\ Used = 0
    BY <2>1, RingAssumption DEF Init, Freed, Used, Dist, TxType
  <2> QED
    BY <2>1, <2>2, RingAssumption DEF Init, TxInv
<1> QED
  BY <1>1, <1>2 DEF RingInv

\* Every step keeps it, and sends at most the next frame.
LEMMA RingStep ==
    ASSUME RingInv, [Next]_vars
    PROVE  RingInv' /\ (sent' = sent \/ sent' = sent + 1) /\ sent' <= accepted'
<1>1. TxInv /\ sent <= accepted
  <2>1. Used \in 0..TxCount-1 /\ Freed \in 0..TxCount-1
    BY DistIsAt DEF RingInv, TxInv, TxType, Used, Freed
  <2> QED
    BY <2>1, RingAssumption DEF RingInv, TxInv, TxType
<1>2. RxInv
  BY DEF RingInv
<1>3. ASSUME UNCHANGED <<txRing, sending>>, RxInv' PROVE RingInv' /\ sent' = sent /\ sent' <= accepted'
  BY <1>1, <1>3, TxFrameRule, SMTT(60) DEF RingInv, txRing
<1>4. CASE UNCHANGED vars
  BY <1>2, <1>3, <1>4, RxFrameRule, Zenon DEF vars, RxInv, RxType
<1>5. ASSUME NEW up \in BOOLEAN, EthInit(up) PROVE RingInv' /\ sent' = sent /\ sent' <= accepted'
  BY <1>2, <1>3, <1>5, RxInitStep DEF EthInit
<1>6. CASE EthHalt
  BY <1>2, <1>3, <1>6, RxFrameRule, Zenon DEF EthHalt, RxInv, RxType
<1>7. CASE EthSnd
  <2>1. RxInv'
    BY <1>2, <1>7, RxFrameRule DEF EthSnd
  <2> QED
    BY <1>1, <1>7, <2>1, EthSndStep DEF RingInv, EthSnd, TxInv, TxType
<1>8. CASE TxComplete
  <2>1. RxInv'
    BY <1>2, <1>8, RxFrameRule DEF TxComplete
  <2> QED
    BY <1>1, <1>8, <2>1, TxCompleteStep DEF RingInv, TxComplete
<1>9. CASE RxBegin
  BY <1>2, <1>3, <1>9, RxBeginStep DEF RxBegin
<1>10. CASE RxComplete
  BY <1>2, <1>3, <1>10, RxFrameStep, RxReturnStep, RxEndStep DEF RxComplete, RxFrame, RxReturn, RxEnd
<1>11. CASE HwReceive
  BY <1>2, <1>3, <1>11, HwReceiveStep DEF HwReceive
<1>12. CASE HwTransmit
  <2>1. RxInv'
    BY <1>2, <1>12, RxFrameRule, Zenon DEF HwTransmit, RxInv, RxType
  <2> QED
    BY <1>1, <1>12, <2>1, HwTransmitStep, SMTT(60) DEF RingInv
<1> QED
  BY <1>4, <1>5, <1>6, <1>7, <1>8, <1>9, <1>10, <1>11, <1>12 DEF Next

\* The invariant always holds.
LEMMA RingAlways == Spec => []RingInv
<1>1. RingInv /\ [Next]_vars => RingInv'
  BY RingStep
<1> QED
  BY <1>1, RingInit, PTL DEF Spec

\* Every index stays in its ring.
THEOREM TypeCorrect == Spec => []TypeOK
<1>1. RingInv => TypeOK
  BY DEF RingInv, RxInv, RxType, TxInv, TxType, TypeOK
<1> QED
  BY <1>1, RingAlways, PTL

\* NetReceive gets every frame once, in order, and whole.
THEOREM ReceiveCorrect == Spec => []FrameIntact
<1>1. RingInv => FrameIntact
  BY RxInvMeans DEF RingInv
<1> QED
  BY <1>1, RingAlways, PTL

\* A call of rx_complete leaves no frame that is there.
THEOREM DrainCorrect == Spec => []RecvDrains
<1>1. RingInv => RecvDrains
  BY RxInvMeans DEF RingInv
<1> QED
  BY <1>1, RingAlways, PTL

\* Frames leave in the order in which eth_snd took them.
THEOREM SendCorrect == Spec => SentInOrder
<1>1. RingInv /\ [Next]_vars => [sent' \in {sent, sent + 1} /\ sent' <= accepted']_vars
  BY RingStep
<1> QED
  BY <1>1, RingAlways, PTL DEF Spec, SentInOrder
=============================================================================
