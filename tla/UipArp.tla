------------------------------- MODULE UipArp -------------------------------
(***************************************************************************)
(* The ARP cache of the uIP stack (httpd/uip_arp.c) as the web failsafe    *)
(* server drives it: NetReceiveHttpd (net/net.c) feeds every frame to      *)
(* uip_arp_ipin or uip_arp_arpin and passes every outgoing IP packet       *)
(* through uip_arp_out; HttpdHandler (net/httpd.c) runs the timers, but    *)
(* only when no packet is left in uip_buf; otherwise it feeds that packet, *)
(* the answer just sent, to the input functions a second time.             *)
(*                                                                         *)
(* An IP address is one value.  The code tests its two 16-bit halves       *)
(* separately ("in use" when both differ from zero, "unused" when both are *)
(* zero); no host address of a /24 network has exactly one zero half, so   *)
(* the two tests are complementary here.                                   *)
(*                                                                         *)
(* heard and age are history variables: the Ethernet address an IP address *)
(* was last learnt with, and how many timer calls ago each table entry was *)
(* last written (saturating at UIP_ARP_MAXAGE).                            *)
(***************************************************************************)
EXTENDS Integers, FiniteSetsExt

CONSTANTS
    IP,                 \* addresses of other hosts
    Local,              \* those inside our /24 network
    HostIP,             \* uip_hostaddr
    NoIP,               \* 0.0.0.0
    MAC,                \* Ethernet addresses of other hosts
    HostMAC,            \* uip_ethaddr
    NoMAC,              \* the zero address of a never used entry
    UIP_ARPTAB_SIZE,    \* 2 in uipopt.h
    UIP_ARP_MAXAGE,     \* 120 in uipopt.h
    ARPTIME_MOD,        \* arptime and time are u8_t: 256
    ARPTIMER            \* HttpdHandler runs uip_arp_timer every 20th time

ASSUME ArpAssumption ==
    /\ Local \subseteq IP
    /\ NoIP \notin IP /\ HostIP \notin IP /\ NoIP # HostIP
    /\ NoMAC \notin MAC /\ HostMAC \notin MAC /\ NoMAC # HostMAC
    /\ UIP_ARPTAB_SIZE \in Nat \ {0}
    /\ UIP_ARP_MAXAGE \in Nat \ {0}
    /\ ARPTIME_MOD \in Nat \ {0}
    /\ ARPTIMER \in Nat \ {0}

VARIABLES
    arp_table,          \* the static table
    arptime,            \* the clock of uip_arp.c
    arptimer,           \* the divider in net/httpd.c
    buf,                \* the frame left in uip_buf, "none" when uip_len is 0
    heard,              \* history: last address learnt for an IP
    age                 \* history: age of each entry in timer calls

vars == <<arp_table, arptime, arptimer, buf, heard, age>>

Slots == 1..UIP_ARPTAB_SIZE

Entry == [ipaddr: IP \cup {HostIP, NoIP}, ethaddr: MAC \cup {HostMAC, NoMAC},
          time: 0..ARPTIME_MOD-1]

Frame == [kind: {"none", "ip", "arp_request", "arp_reply", "other"},
          ip: IP \cup {NoIP}, eth: MAC \cup {HostMAC, NoMAC}]

EmptyFrame(k) == [kind |-> k, ip |-> NoIP, eth |-> NoMAC]

\* The table lies in .bss, all zero; HttpdStart does not call uip_arp_init.
Init ==
    /\ arp_table = [i \in Slots |-> [ipaddr |-> NoIP, ethaddr |-> NoMAC, time |-> 0]]
    /\ arptime = 0
    /\ arptimer = 0
    /\ buf = EmptyFrame("none")
    /\ heard = [a \in IP \cup {HostIP} |-> NoMAC]
    /\ age = [i \in Slots |-> 0]

-----------------------------------------------------------------------------
Matching(a) == {i \in Slots : arp_table[i].ipaddr = a}

\* Mutant: the search for an entry with the same address is dropped.
UpdatedSlotNoMatch(a) ==
    IF Matching(NoIP) # {} THEN Min(Matching(NoIP)) ELSE UIP_ARPTAB_SIZE

\* The entry uip_arp_update writes: the entry that already holds the address,
\* else the first unused one, else the LAST one.  In the last case the code
\* searches the oldest entry and leaves its index in i, but it writes through
\* tabptr, which the search leaves on the last entry.
UpdatedSlot(a) ==
    IF Matching(a) # {} THEN Min(Matching(a))
    ELSE IF Matching(NoIP) # {} THEN Min(Matching(NoIP))
    ELSE UIP_ARPTAB_SIZE

\* Mutant: an entry that is found is not refreshed.
uip_arp_updateNoRefresh(a, m) ==
    LET i == UpdatedSlot(a) IN
    /\ arp_table' = [arp_table EXCEPT ![i] =
          [ipaddr |-> a, ethaddr |-> m,
           time |-> IF arp_table[i].ipaddr = a THEN arp_table[i].time ELSE arptime]]
    /\ heard' = [heard EXCEPT ![a] = m]
    /\ age' = [age EXCEPT ![i] = 0]

uip_arp_update(a, m) ==
    LET i == UpdatedSlot(a) IN
    /\ arp_table' = [arp_table EXCEPT ![i] = [ipaddr |-> a, ethaddr |-> m, time |-> arptime]]
    /\ heard' = [heard EXCEPT ![a] = m]
    /\ age' = [age EXCEPT ![i] = 0]

NoUpdate == UNCHANGED <<arp_table, heard, age>>

\* The address that is looked up for an outgoing packet: uip_arp_draddr, the
\* default router, is never set and stays 0.0.0.0.
NextHop(dest) == IF dest \in Local THEN dest ELSE NoIP

\* Mutant: the test for a failed search is dropped.
uip_arp_outNoMiss(table, dest) ==
    LET hits == {i \in Slots : table[i].ipaddr = NextHop(dest)} IN
    [kind |-> "ip", ip |-> dest,
     eth |-> table[IF hits = {} THEN UIP_ARPTAB_SIZE ELSE Min(hits)].ethaddr]

\* uip_arp_out on a given table: an IP frame to the address found, or, when
\* the address is not in the table, an ARP request in place of the packet.
uip_arp_out(table, dest) ==
    LET hits == {i \in Slots : table[i].ipaddr = NextHop(dest)} IN
    IF hits = {}
    THEN [kind |-> "arp_request", ip |-> NextHop(dest), eth |-> NoMAC]
    ELSE [kind |-> "ip", ip |-> dest, eth |-> table[Min(hits)].ethaddr]

\* uip_arp_ipin learns only hosts of the local network.
uip_arp_ipin(a, m) == IF a \in Local THEN uip_arp_update(a, m) ELSE NoUpdate

-----------------------------------------------------------------------------
\* Mutant: the answer is addressed before the sender is learnt.
ReceiveIpOutFirst(a, m, answers) ==
    /\ uip_arp_ipin(a, m)
    /\ buf' = IF answers THEN uip_arp_out(arp_table, a) ELSE EmptyFrame("none")
    /\ UNCHANGED <<arptime, arptimer>>

\* NetReceiveHttpd on an IP frame: learn the sender, run uip_input, and send
\* the answer, if there is one, back to the sender.
ReceiveIp(a, m, answers) ==
    /\ uip_arp_ipin(a, m)
    /\ buf' = IF answers THEN uip_arp_out(arp_table', a) ELSE EmptyFrame("none")
    /\ UNCHANGED <<arptime, arptimer>>

\* NetReceiveHttpd on an ARP frame: a request for our address is answered and
\* not learnt from; a reply meant for us is learnt; anything else is ignored.
ReceiveArp(opcode, a, m, dip) ==
    /\ IF opcode = "reply" /\ dip = HostIP THEN uip_arp_update(a, m) ELSE NoUpdate
    /\ buf' = IF opcode = "request" /\ dip = HostIP
              THEN [kind |-> "arp_reply", ip |-> a, eth |-> m]
              ELSE EmptyFrame("none")
    /\ UNCHANGED <<arptime, arptimer>>

\* NetReceiveHttpd on any other frame: uip_len keeps the frame's length.
ReceiveOther ==
    /\ buf' = EmptyFrame("other")
    /\ NoUpdate
    /\ UNCHANGED <<arptime, arptimer>>

\* The subtraction is done in int: once the u8_t clock has wrapped it is
\* negative for the entries written before.
Expired(i, now) ==
    /\ arp_table[i].ipaddr # NoIP
    /\ now - arp_table[i].time >= UIP_ARP_MAXAGE

\* Mutant: the clock is wider than the time stamps.
uip_arp_timerNoWrap ==
    /\ arptime' = arptime + 1
    /\ arp_table' = [i \in Slots |-> IF Expired(i, arptime + 1)
                                     THEN [arp_table[i] EXCEPT !.ipaddr = NoIP]
                                     ELSE arp_table[i]]
    /\ age' = [i \in Slots |-> IF age[i] = UIP_ARP_MAXAGE THEN age[i] ELSE age[i] + 1]

\* uip_arp_timer clears the address of an expired entry and nothing else.
uip_arp_timer ==
    LET now == IF arptime + 1 = ARPTIME_MOD THEN 0 ELSE arptime + 1 IN
    /\ arptime' = now
    /\ arp_table' = [i \in Slots |-> IF Expired(i, now)
                                     THEN [arp_table[i] EXCEPT !.ipaddr = NoIP]
                                     ELSE arp_table[i]]
    /\ age' = [i \in Slots |-> IF age[i] = UIP_ARP_MAXAGE THEN age[i] ELSE age[i] + 1]

\* HttpdHandler with uip_len = 0: uip_periodic for every connection, each
\* packet it produces (a retransmission) sent at once, and every ARPTIMER
\* calls the ARP timer.  dest is the receiver of the last connection's packet,
\* NoIP if it sent none; a packet of an earlier one leaves no trace.
HandlerPeriodic(dest) ==
    /\ buf.kind = "none"
    /\ buf' = IF dest = NoIP THEN EmptyFrame("none") ELSE uip_arp_out(arp_table, dest)
    /\ IF arptimer + 1 = ARPTIMER
       THEN arptimer' = 0 /\ uip_arp_timer
       ELSE arptimer' = arptimer + 1 /\ UNCHANGED <<arp_table, arptime, age>>
    /\ UNCHANGED heard

\* HttpdHandler with the last frame sent still in uip_buf: an IP packet makes
\* uip_arp_ipin learn our own address, then uip_input drops it as not for us;
\* an ARP frame of ours is ignored.  A frame of another type stays (no step).
HandlerFeedback ==
    /\ buf.kind \in {"ip", "arp_request", "arp_reply"}
    /\ IF buf.kind = "ip" THEN uip_arp_update(HostIP, HostMAC) ELSE NoUpdate
    /\ buf' = EmptyFrame("none")
    /\ UNCHANGED <<arptime, arptimer>>

Next ==
    \/ \E a \in IP, m \in MAC, answers \in BOOLEAN : ReceiveIp(a, m, answers)
    \/ \E opcode \in {"request", "reply"}, a \in IP, m \in MAC, dip \in {HostIP, NoIP} :
          ReceiveArp(opcode, a, m, dip)
    \/ ReceiveOther
    \/ \E dest \in IP \cup {NoIP} : HandlerPeriodic(dest)
    \/ HandlerFeedback

Spec == Init /\ [][Next]_vars

-----------------------------------------------------------------------------
\* Every variable has its type; in particular the clock and the time stamps
\* stay in the range of a u8_t.
TypeOK ==
    /\ arp_table \in [Slots -> Entry]
    /\ arptime \in 0..ARPTIME_MOD-1
    /\ arptimer \in 0..ARPTIMER-1
    /\ buf \in Frame
    /\ heard \in [IP \cup {HostIP} -> MAC \cup {HostMAC, NoMAC}]
    /\ age \in [Slots -> 0..UIP_ARP_MAXAGE]

\* The cache never contradicts the wire: an address occupies one entry, and
\* the entry holds the Ethernet address last learnt for it, whatever frames,
\* evictions and expiries came in between (uip_arp_update).
TableIsCurrent ==
    \A i \in Slots : arp_table[i].ipaddr # NoIP =>
        /\ arp_table[i].ethaddr = heard[arp_table[i].ipaddr]
        /\ \A j \in Slots : arp_table[j].ipaddr = arp_table[i].ipaddr => j = i

\* An IP frame to a host of the local network, be it an answer or a
\* retransmission long after, carries the address last learnt for that host
\* (uip_arp_out falls back to an ARP request otherwise).
LocalFramesReachTheirHost ==
    buf.kind = "ip" /\ buf.ip \in Local => buf.eth = heard[buf.ip]

\* The answer to a packet from the local network is never replaced by an ARP
\* request, even when the table is full: NetReceiveHttpd calls uip_arp_ipin
\* first and the sender displaces another host.
AnswerIsNeverDropped ==
    [][\A a \in Local, m \in MAC :
          ReceiveIp(a, m, TRUE) => buf'.kind = "ip" /\ buf'.eth = m]_vars

\* The timer never expires an entry before UIP_ARP_MAXAGE calls have passed
\* since it was last written, wrapped clock or not.
NoEarlyExpiry ==
    [][\A i \in Slots :
          arp_table[i].ipaddr # NoIP /\ arp_table'[i].ipaddr = NoIP
             => age[i] + 1 >= UIP_ARP_MAXAGE]_vars

\* What the comment in uip_arp_update says: when there is no unused entry the
\* oldest one is thrown away.
EvictsOldest ==
    [][\A i \in Slots :
          arp_table[i].ipaddr # NoIP /\ arp_table'[i].ipaddr \notin {NoIP, arp_table[i].ipaddr}
             => \A j \in Slots : age[j] <= age[i]]_vars
=============================================================================
