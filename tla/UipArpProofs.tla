---------------------------- MODULE UipArpProofs ----------------------------
(***************************************************************************)
(* Proofs about UipArp for tables, clocks and networks of any size.        *)
(*                                                                         *)
(* TableIsCurrent is inductive by itself, but the action property about    *)
(* expiry is not a consequence of it: the timer compares time stamps, so   *)
(* the induction carries AgeBoundsStamp, which ties the stamps of a clock  *)
(* that wraps to the true age of the entries.                              *)
(***************************************************************************)
EXTENDS UipArp, WellFoundedInduction, TLAPS

\* The searches of the code stop at the first hit: a nonempty set of natural
\* numbers has a minimum.
LEMMA MinIsElement ==
    ASSUME NEW S \in SUBSET Nat, S # {}
    PROVE  /\ Min(S) \in S
           /\ \A y \in S : Min(S) <= y
<1> DEFINE R == {ss \in Nat \X Nat : ss[1] < ss[2]}
<1>1. IsWellFoundedOn(R, Nat)
  BY NatLessThanWellFounded, Zenon DEF OpToRel
<1>2. PICK x \in S : \A y \in S : ~(<<y, x>> \in R)
  <2> HIDE DEF R
  <2> QED
    BY <1>1, WFMin, Zenon
<1>3. ASSUME NEW y \in S PROVE x <= y
  <2>1. <<y, x>> \in Nat \X Nat /\ <<y, x>>[1] = y /\ <<y, x>>[2] = x
    OBVIOUS
  <2>2. ~(<<y, x>>[1] < <<y, x>>[2])
    BY <1>2, <2>1, Zenon
  <2> QED
    BY <2>1, <2>2
<1> QED
  BY <1>3, Zenon DEF Min

-----------------------------------------------------------------------------
\* What the timer computes never exceeds the true age of an entry: the u8_t
\* clock can only make an entry look younger (or not yet written).
AgeBoundsStamp ==
    \A i \in Slots : age[i] = UIP_ARP_MAXAGE \/ arptime - arp_table[i].time <= age[i]

\* The inductive invariant.
IInv == TypeOK /\ TableIsCurrent /\ LocalFramesReachTheirHost /\ AgeBoundsStamp

-----------------------------------------------------------------------------
\* uip_arp_update writes an entry of the table, and the entry that holds the
\* address if there is one.
LEMMA UpdatedSlotIsSlot ==
    ASSUME NEW a
    PROVE  /\ UpdatedSlot(a) \in Slots
           /\ Matching(a) # {} => UpdatedSlot(a) \in Matching(a)
<1>1. Matching(a) \in SUBSET Nat /\ Matching(NoIP) \in SUBSET Nat
  BY DEF Matching, Slots
<1>2. Matching(a) # {} => Min(Matching(a)) \in Matching(a)
  BY <1>1, MinIsElement
<1>3. Matching(NoIP) # {} => Min(Matching(NoIP)) \in Matching(NoIP)
  BY <1>1, MinIsElement
<1>4. UIP_ARPTAB_SIZE \in Slots
  BY ArpAssumption DEF Slots
<1> QED
  BY <1>2, <1>3, <1>4 DEF UpdatedSlot, Matching

\* Learning an address keeps the table current and leaves the address in it.
LEMMA UpdateKeepsTable ==
    ASSUME TypeOK, TableIsCurrent, AgeBoundsStamp,
           NEW a \in IP \cup {HostIP}, NEW m \in MAC \cup {HostMAC},
           uip_arp_update(a, m), UNCHANGED arptime
    PROVE  /\ arp_table' \in [Slots -> Entry]
           /\ heard' \in [IP \cup {HostIP} -> MAC \cup {HostMAC, NoMAC}]
           /\ age' \in [Slots -> 0..UIP_ARP_MAXAGE]
           /\ TableIsCurrent'
           /\ AgeBoundsStamp'
           /\ \E i \in Slots : arp_table'[i].ipaddr = a /\ arp_table'[i].ethaddr = m
<1> DEFINE k == UpdatedSlot(a)
           e == [ipaddr |-> a, ethaddr |-> m, time |-> arptime]
<1>1. k \in Slots /\ (Matching(a) # {} => k \in Matching(a))
  BY UpdatedSlotIsSlot
<1>2. e \in Entry
  BY DEF Entry, TypeOK
<1>3. arp_table' = [arp_table EXCEPT ![k] = e] /\ heard' = [heard EXCEPT ![a] = m]
      /\ age' = [age EXCEPT ![k] = 0]
  BY DEF uip_arp_update
<1> HIDE DEF k
<1>4. arp_table' \in [Slots -> Entry]
  BY <1>1, <1>2, <1>3 DEF TypeOK
<1>5. heard' \in [IP \cup {HostIP} -> MAC \cup {HostMAC, NoMAC}]
  BY <1>3 DEF TypeOK
<1>6. age' \in [Slots -> 0..UIP_ARP_MAXAGE]
  BY <1>1, <1>3, ArpAssumption DEF TypeOK
<1>7. arp_table'[k] = e /\ \A i \in Slots \ {k} : arp_table'[i] = arp_table[i]
  BY <1>1, <1>3 DEF TypeOK
<1>8. \A i \in Slots \ {k} : arp_table[i].ipaddr # a
  BY <1>1, ArpAssumption DEF TableIsCurrent, Matching
<1>9. TableIsCurrent'
  BY <1>1, <1>3, <1>7, <1>8 DEF TableIsCurrent, TypeOK, Entry
<1>10. AgeBoundsStamp'
  BY <1>1, <1>3, <1>7, ArpAssumption DEF AgeBoundsStamp, TypeOK
<1> QED
  BY <1>1, <1>4, <1>5, <1>6, <1>7, <1>9, <1>10
\* A timer call keeps the table current; the true age of an entry grows at
\* least as fast as the difference of the stamps, whether the clock wraps or
\* not.
LEMMA TimerKeepsTable ==
    ASSUME TypeOK, TableIsCurrent, AgeBoundsStamp, uip_arp_timer, UNCHANGED heard
    PROVE  /\ arp_table' \in [Slots -> Entry]
           /\ arptime' \in 0..ARPTIME_MOD-1
           /\ age' \in [Slots -> 0..UIP_ARP_MAXAGE]
           /\ TableIsCurrent'
           /\ AgeBoundsStamp'
<1>1. arptime' \in 0..ARPTIME_MOD-1 /\ arptime' <= arptime + 1
  BY ArpAssumption DEF uip_arp_timer, TypeOK
<1>2. \A i \in Slots : \/ arp_table'[i] = arp_table[i]
                        \/ arp_table'[i] = [arp_table[i] EXCEPT !.ipaddr = NoIP]
  BY DEF uip_arp_timer
<1>3. \A i \in Slots : arp_table[i] \in Entry
  BY DEF TypeOK
<1>4. \A i \in Slots : /\ arp_table'[i] \in Entry
                        /\ arp_table'[i].time = arp_table[i].time
                        /\ arp_table'[i].ethaddr = arp_table[i].ethaddr
                        /\ arp_table'[i].ipaddr \in {arp_table[i].ipaddr, NoIP}
  BY <1>2, <1>3, ZenonT(60) DEF Entry
<1>5. arp_table' \in [Slots -> Entry]
  BY <1>4 DEF uip_arp_timer
<1>6. age' \in [Slots -> 0..UIP_ARP_MAXAGE]
  BY ArpAssumption DEF uip_arp_timer, TypeOK
<1>7. TableIsCurrent'
  BY <1>4 DEF TableIsCurrent
<1>8. AgeBoundsStamp'
  <2> SUFFICES ASSUME NEW i \in Slots
               PROVE  age'[i] = UIP_ARP_MAXAGE \/ arptime' - arp_table'[i].time <= age'[i]
    BY DEF AgeBoundsStamp
  <2>1. arp_table[i].time \in Nat /\ age[i] \in Nat /\ arptime \in Nat
    BY <1>3 DEF TypeOK, Entry
  <2>2. age'[i] = IF age[i] = UIP_ARP_MAXAGE THEN age[i] ELSE age[i] + 1
    BY DEF uip_arp_timer
  <2> QED
    BY <1>1, <1>4, <2>1, <2>2, ArpAssumption DEF AgeBoundsStamp
<1> QED
  BY <1>1, <1>5, <1>6, <1>7, <1>8

\* What uip_arp_out builds from a current table: a frame, and for a host of
\* the local network an IP frame only with the address learnt for it.
LEMMA OutFrame ==
    ASSUME NEW table \in [Slots -> Entry], NEW h, NEW dest \in IP,
           \A i \in Slots : table[i].ipaddr # NoIP =>
                 table[i].ethaddr = h[table[i].ipaddr]
    PROVE  LET f == uip_arp_out(table, dest) IN
           /\ f \in Frame
           /\ f.kind = "ip" /\ f.ip \in Local => f.eth = h[f.ip]
           /\ dest \in Local /\ (\E i \in Slots : table[i].ipaddr = dest) => f.kind = "ip"
           /\ f.kind = "ip" => f.ip = dest
<1> DEFINE hits == {i \in Slots : table[i].ipaddr = NextHop(dest)}
<1>1. NextHop(dest) \in IP \cup {NoIP}
  BY DEF NextHop
<1>2. ASSUME hits # {} PROVE Min(hits) \in hits
  BY <1>2, MinIsElement DEF Slots
<1>3. CASE hits = {}
  BY <1>1, <1>3 DEF uip_arp_out, Frame, NextHop
<1>4. CASE hits # {}
  <2>1. Min(hits) \in Slots /\ table[Min(hits)].ipaddr = NextHop(dest)
    BY <1>2, <1>4
  <2>2. uip_arp_out(table, dest) = [kind |-> "ip", ip |-> dest, eth |-> table[Min(hits)].ethaddr]
    BY <1>4 DEF uip_arp_out
  <2>3. table[Min(hits)].ethaddr \in MAC \cup {HostMAC, NoMAC}
    BY <2>1 DEF Entry
  <2>4. dest \in Local => table[Min(hits)].ethaddr = h[dest]
    BY <2>1, ArpAssumption DEF NextHop
  <2> HIDE DEF hits
  <2> QED
    BY <2>2, <2>3, <2>4 DEF Frame
<1> QED
  BY <1>3, <1>4

-----------------------------------------------------------------------------
\* Every reachable state satisfies the inductive invariant.
THEOREM Inductive == Spec => []IInv
<1>1. Init => IInv
  BY ArpAssumption DEF Init, IInv, TypeOK, TableIsCurrent, LocalFramesReachTheirHost,
     AgeBoundsStamp, Entry, Frame, EmptyFrame
<1>2. IInv /\ [Next]_vars => IInv'
  <2> SUFFICES ASSUME IInv, [Next]_vars PROVE IInv'
    OBVIOUS
  <2> USE DEF IInv
  <2>0. EmptyFrame("none") \in Frame /\ EmptyFrame("other") \in Frame
        /\ EmptyFrame("none").kind # "ip" /\ EmptyFrame("other").kind # "ip"
    BY DEF EmptyFrame, Frame
  <2>1. ASSUME NEW a \in IP, NEW m \in MAC, NEW answers \in BOOLEAN, ReceiveIp(a, m, answers)
        PROVE IInv'
    <3>1. /\ arp_table' \in [Slots -> Entry]
          /\ heard' \in [IP \cup {HostIP} -> MAC \cup {HostMAC, NoMAC}]
          /\ age' \in [Slots -> 0..UIP_ARP_MAXAGE]
          /\ TableIsCurrent' /\ AgeBoundsStamp'
      <4>1. CASE a \in Local
        BY <2>1, <4>1, UpdateKeepsTable, Zenon DEF ReceiveIp, uip_arp_ipin
      <4>2. CASE a \notin Local
        BY <2>1, <4>2 DEF ReceiveIp, uip_arp_ipin, NoUpdate, TypeOK, TableIsCurrent, AgeBoundsStamp
      <4> QED
        BY <4>1, <4>2
    <3>2. buf' \in Frame /\ LocalFramesReachTheirHost'
      <4>1. CASE answers
        <5> DEFINE t == arp_table'
                   h == heard'
        <5>1. buf' = uip_arp_out(t, a)
          BY <2>1, <4>1 DEF ReceiveIp
        <5>2. \A i \in Slots : t[i].ipaddr # NoIP => t[i].ethaddr = h[t[i].ipaddr]
          BY <3>1 DEF TableIsCurrent
        <5>3. t \in [Slots -> Entry]
          BY <3>1
        <5>4. buf' \in Frame /\ (buf'.kind = "ip" /\ buf'.ip \in Local => buf'.eth = h[buf'.ip])
          <6> HIDE DEF t, h
          <6> QED
            BY <5>1, <5>2, <5>3, OutFrame
        <5> QED
          BY <5>4 DEF LocalFramesReachTheirHost
      <4>2. CASE ~answers
        BY <2>0, <2>1, <4>2 DEF ReceiveIp, LocalFramesReachTheirHost
      <4> QED
        BY <4>1, <4>2
    <3> QED
      BY <2>1, <3>1, <3>2 DEF ReceiveIp, TypeOK
  <2>2. ASSUME NEW opcode \in {"request", "reply"}, NEW a \in IP, NEW m \in MAC,
               NEW dip \in {HostIP, NoIP}, ReceiveArp(opcode, a, m, dip)
        PROVE IInv'
    <3>1. /\ arp_table' \in [Slots -> Entry]
          /\ heard' \in [IP \cup {HostIP} -> MAC \cup {HostMAC, NoMAC}]
          /\ age' \in [Slots -> 0..UIP_ARP_MAXAGE]
          /\ TableIsCurrent' /\ AgeBoundsStamp'
      <4>1. CASE opcode = "reply" /\ dip = HostIP
        BY <2>2, <4>1, UpdateKeepsTable, ZenonT(60) DEF ReceiveArp
      <4>2. CASE ~(opcode = "reply" /\ dip = HostIP)
        BY <2>2, <4>2 DEF ReceiveArp, NoUpdate, TypeOK, TableIsCurrent, AgeBoundsStamp
      <4> QED
        BY <4>1, <4>2
    <3>2. buf' \in Frame /\ LocalFramesReachTheirHost'
      BY <2>0, <2>2 DEF ReceiveArp, Frame, LocalFramesReachTheirHost
    <3> QED
      BY <2>2, <3>1, <3>2 DEF ReceiveArp, TypeOK
  <2>3. CASE ReceiveOther
    BY <2>0, <2>3 DEF ReceiveOther, NoUpdate, TypeOK, TableIsCurrent, LocalFramesReachTheirHost,
       AgeBoundsStamp
  <2>4. ASSUME NEW dest \in IP \cup {NoIP}, HandlerPeriodic(dest) PROVE IInv'
    <3>1. /\ arp_table' \in [Slots -> Entry]
          /\ arptime' \in 0..ARPTIME_MOD-1
          /\ arptimer' \in 0..ARPTIMER-1
          /\ age' \in [Slots -> 0..UIP_ARP_MAXAGE]
          /\ TableIsCurrent' /\ AgeBoundsStamp'
      <4>1. CASE arptimer + 1 = ARPTIMER
        <5>1. arptimer' = 0 /\ uip_arp_timer /\ UNCHANGED heard
          BY <2>4, <4>1 DEF HandlerPeriodic
        <5> QED
          BY <4>1, <5>1, TimerKeepsTable, ArpAssumption
      <4>2. CASE arptimer + 1 # ARPTIMER
        BY <2>4, <4>2, ArpAssumption
           DEF HandlerPeriodic, TypeOK, TableIsCurrent, AgeBoundsStamp
      <4> QED
        BY <4>1, <4>2
    <3>2. buf' \in Frame /\ LocalFramesReachTheirHost'
      <4>1. CASE dest = NoIP
        BY <2>0, <2>4, <4>1 DEF HandlerPeriodic, LocalFramesReachTheirHost
      <4>2. CASE dest # NoIP
        <5>1. dest \in IP /\ buf' = uip_arp_out(arp_table, dest) /\ heard' = heard
          BY <2>4, <4>2 DEF HandlerPeriodic
        <5>2. \A i \in Slots : arp_table[i].ipaddr # NoIP =>
                 arp_table[i].ethaddr = heard[arp_table[i].ipaddr]
          BY DEF TableIsCurrent
        <5>3. arp_table \in [Slots -> Entry]
          BY DEF TypeOK
        <5> QED
          BY <5>1, <5>2, <5>3, OutFrame DEF LocalFramesReachTheirHost
      <4> QED
        BY <4>1, <4>2
    <3> QED
      BY <2>4, <3>1, <3>2 DEF HandlerPeriodic, TypeOK
  <2>5. CASE HandlerFeedback
    <3>1. /\ arp_table' \in [Slots -> Entry]
          /\ heard' \in [IP \cup {HostIP} -> MAC \cup {HostMAC, NoMAC}]
          /\ age' \in [Slots -> 0..UIP_ARP_MAXAGE]
          /\ TableIsCurrent' /\ AgeBoundsStamp'
      <4>1. CASE buf.kind = "ip"
        BY <2>5, <4>1, UpdateKeepsTable DEF HandlerFeedback
      <4>2. CASE buf.kind # "ip"
        BY <2>5, <4>2 DEF HandlerFeedback, NoUpdate, TypeOK, TableIsCurrent, AgeBoundsStamp
      <4> QED
        BY <4>1, <4>2
    <3> QED
      BY <2>0, <2>5, <3>1 DEF HandlerFeedback, TypeOK, LocalFramesReachTheirHost
  <2>6. CASE UNCHANGED vars
    BY <2>6 DEF vars, TypeOK, TableIsCurrent, LocalFramesReachTheirHost, AgeBoundsStamp
  <2> QED
    BY <2>1, <2>2, <2>3, <2>4, <2>5, <2>6 DEF Next
<1> QED
  BY <1>1, <1>2, PTL DEF Spec

\* The type invariant, for every table size and clock width.
THEOREM TypeCorrect == Spec => []TypeOK
<1>1. IInv => TypeOK
  BY DEF IInv
<1> QED
  BY <1>1, Inductive, PTL

\* The cache holds at most one entry for an address and it is the one learnt
\* last, for any number of hosts and entries.
THEOREM CacheIsCurrent == Spec => []TableIsCurrent
<1>1. IInv => TableIsCurrent
  BY DEF IInv
<1> QED
  BY <1>1, Inductive, PTL

\* No IP frame to a host of the local network goes to another Ethernet address
\* than the one learnt last for that host.
THEOREM FramesReachTheirHost == Spec => []LocalFramesReachTheirHost
<1>1. IInv => LocalFramesReachTheirHost
  BY DEF IInv
<1> QED
  BY <1>1, Inductive, PTL

\* An entry lives for at least UIP_ARP_MAXAGE timer calls, for every width of
\* the clock, although the clock wraps.
THEOREM EntriesLiveLongEnough == Spec => NoEarlyExpiry
<1> DEFINE A == \A i \in Slots :
                  arp_table[i].ipaddr # NoIP /\ arp_table'[i].ipaddr = NoIP
                     => age[i] + 1 >= UIP_ARP_MAXAGE
<1>1. IInv /\ [Next]_vars => [A]_vars
  <2> SUFFICES ASSUME IInv, Next, NEW i \in Slots,
                      arp_table[i].ipaddr # NoIP, arp_table'[i].ipaddr = NoIP
               PROVE  age[i] + 1 >= UIP_ARP_MAXAGE
    OBVIOUS
  <2>1. ASSUME NEW a \in IP \cup {HostIP}, NEW m, uip_arp_update(a, m) PROVE FALSE
    <3>1. UpdatedSlot(a) \in Slots
      BY UpdatedSlotIsSlot
    <3> QED
      BY <2>1, <3>1, ArpAssumption DEF uip_arp_update, IInv, TypeOK
  <2>2. ~NoUpdate
    BY DEF NoUpdate
  <2>3. PICK dest \in IP \cup {NoIP} : HandlerPeriodic(dest)
    BY <2>1, <2>2 DEF Next, ReceiveIp, uip_arp_ipin, ReceiveArp, ReceiveOther, HandlerFeedback
  <2>4. uip_arp_timer
    BY <2>3 DEF HandlerPeriodic
  <2>5. arptime' - arp_table[i].time >= UIP_ARP_MAXAGE /\ arptime' <= arptime + 1
    BY <2>4, ArpAssumption DEF uip_arp_timer, Expired, IInv, TypeOK
  <2>6. arp_table[i].time \in Nat /\ age[i] \in Nat /\ arptime \in Nat /\ arptime' \in Nat
    BY <2>4, ArpAssumption DEF uip_arp_timer, IInv, TypeOK, Entry
  <2> QED
    BY <2>5, <2>6, ArpAssumption DEF IInv, AgeBoundsStamp
<1> QED
  BY <1>1, Inductive, PTL DEF Spec, NoEarlyExpiry

\* The answer to a packet of the local network is an IP frame to its sender,
\* also when the sender has to displace another host.
THEOREM AnswersAreSent == Spec => AnswerIsNeverDropped
<1> DEFINE A == \A a \in Local, m \in MAC :
                  ReceiveIp(a, m, TRUE) => buf'.kind = "ip" /\ buf'.eth = m
<1>1. IInv /\ [Next]_vars => [A]_vars
  <2> SUFFICES ASSUME IInv, NEW a \in Local, NEW m \in MAC, ReceiveIp(a, m, TRUE)
               PROVE  buf'.kind = "ip" /\ buf'.eth = m
    BY Zenon
  <2> DEFINE t == arp_table'
             h == heard'
  <2>1. a \in IP /\ uip_arp_update(a, m) /\ UNCHANGED arptime /\ buf' = uip_arp_out(t, a)
    BY ArpAssumption DEF ReceiveIp, uip_arp_ipin
  <2>2. /\ t \in [Slots -> Entry] /\ TableIsCurrent'
        /\ \E i \in Slots : t[i].ipaddr = a /\ t[i].ethaddr = m
    BY <2>1, UpdateKeepsTable DEF IInv
  <2>3. \A i \in Slots : t[i].ipaddr # NoIP => t[i].ethaddr = h[t[i].ipaddr]
    BY <2>2 DEF TableIsCurrent
  <2>4. h[a] = m
    BY <2>1 DEF uip_arp_update, IInv, TypeOK
  <2> HIDE DEF t, h
  <2> QED
    BY <2>1, <2>2, <2>3, <2>4, OutFrame
<1> QED
  BY <1>1, Inductive, PTL DEF Spec, AnswerIsNeverDropped
=============================================================================
