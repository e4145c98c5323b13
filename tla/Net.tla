-------------------------------- MODULE Net ---------------------------------
(***************************************************************************)
(* The network stack (src/drivers/net/) behind its system calls            *)
(* (src/user/syscall.c): the ARP table, the packets that wait in the IP    *)
(* layer for an address to be resolved, and the ICMP ping.                 *)
(*                                                                         *)
(* System calls and the network card's interrupt both run with interrupts  *)
(* disabled, so each is one step.  The wire is the set of the frames sent  *)
(* so far: a frame in it may arrive late, in any order, more than once or  *)
(* never.  A host's Ethernet address is written as the host's IP address;  *)
(* a program may enter a wrong one.  The card is present (io_base is set). *)
(***************************************************************************)
EXTENDS Integers, FiniteSets

CONSTANTS
    Ips,             \* addresses programs ping
    Alive,           \* those that belong to a host
    AddMacs,         \* Ethernet addresses passed to SYS_ARP_ADD
    BootIp,          \* the address kernel_main gives the machine
    LocalIp,         \* the address passed to SYS_NET_INIT
    ARP_TABLE_SIZE,
    ARP_QUEUE_SIZE,
    TICK_MOD,        \* 2^32 in the code: the timer's tick count wraps
    MaxPings         \* bound: number of pings

ASSUME NetAssumption ==
    /\ Alive \subseteq Ips
    /\ AddMacs \subseteq Ips
    /\ BootIp \notin Ips /\ LocalIp \notin Ips
    /\ 0 \notin Ips
    /\ ARP_TABLE_SIZE \in Nat \ {0}
    /\ ARP_QUEUE_SIZE \in Nat \ {0}
    /\ TICK_MOD \in Nat \ {0}
    /\ MaxPings \in Nat

Entries == 0 .. ARP_TABLE_SIZE - 1
Slots == 0 .. ARP_QUEUE_SIZE - 1

VARIABLES
    local_ip,
    arp_table,
    arp_queue,     \* packets waiting for the address of dst
    arp_pending,
    ping_seq,
    ping_waiting,
    ticks,
    wire,          \* the frames sent
    lost           \* history: pings the IP layer has given up

netVars == <<local_ip, arp_table, arp_queue, arp_pending, ping_seq, ping_waiting, ticks, wire, lost>>

NoEntry == [valid |-> FALSE, ip |-> 0, mac |-> 0, timestamp |-> 0]
NoPacket == [valid |-> FALSE, dst |-> 0, seq |-> 0]

ArpRequest(ip) == [type |-> "request", ip |-> ip]            \* from here, who has ip?
ArpReply(ip) == [type |-> "reply", ip |-> ip]                \* from the host
HostRequest(ip) == [type |-> "ask", ip |-> ip]               \* from the host, who has LocalIp?
HostReply(ip) == [type |-> "answer", ip |-> ip]              \* from here
Echo(dst, mac, seq) == [type |-> "echo", dst |-> dst, mac |-> mac, seq |-> seq]
EchoReply(seq) == [type |-> "echoreply", seq |-> seq]

Frames ==
    [type : {"request", "reply", "ask", "answer"}, ip : Ips]
    \cup [type : {"echo"}, dst : Ips, mac : Ips, seq : 1 .. MaxPings]
    \cup [type : {"echoreply"}, seq : 1 .. MaxPings]

NetInit ==
    /\ local_ip = BootIp
    /\ arp_table = [i \in Entries |-> NoEntry]
    /\ arp_queue = [i \in Slots |-> NoPacket]
    /\ arp_pending = 0
    /\ ping_seq = 0
    /\ ping_waiting = FALSE
    /\ ticks = 0
    /\ wire = {}
    /\ lost = {}

-----------------------------------------------------------------------------
(***************************************************************************)
(* The ARP table and the queue.                                            *)
(***************************************************************************)

\* What a search from index 0 stops at: the least of S, if any.
First(S) == {i \in S : \A j \in S : i <= j}

\* The entry arp_lookup finds.
Lookup(ip) == {i \in Entries : arp_table[i].valid /\ arp_table[i].ip = ip}

Oldest == {i \in Entries : \A j \in Entries : arp_table[i].timestamp <= arp_table[j].timestamp}

Unused == {i \in Entries : ~ arp_table[i].valid}

\* Mutant of EntryFor: a known address is added once more.
EntryForNew(ip) == First(IF Unused # {} THEN Unused ELSE Oldest)

\* Where arp_add_entry puts an address: over the entry it has, into an unused
\* one, over the oldest.
EntryFor(ip) ==
    First(IF Lookup(ip) # {} THEN Lookup(ip) ELSE IF Unused # {} THEN Unused ELSE Oldest)

\* The packets ip_process_arp_queue sends when ip has been resolved.
Waiting(ip) == {i \in Slots : arp_queue[i].valid /\ arp_queue[i].dst = ip}

\* The queue without them.
Drained(ip) == [i \in Slots |-> IF i \in Waiting(ip) THEN NoPacket ELSE arp_queue[i]]

\* ip_process_arp_queue, after the frames of reply have been sent.
Release(ip, mac, reply) ==
    /\ wire' = wire \cup reply \cup {Echo(ip, mac, arp_queue[i].seq) : i \in Waiting(ip)}
    /\ arp_queue' = Drained(ip)
    /\ arp_pending' = arp_pending - Cardinality(Waiting(ip))

\* Mutant of Learn: only an unused entry releases the packets that wait.
LearnUnusedOnly(ip, mac, reply) ==
    \E e \in EntryFor(ip) :
        /\ arp_table' = [arp_table EXCEPT ![e] =
              [valid |-> TRUE, ip |-> ip, mac |-> mac, timestamp |-> ticks]]
        /\ IF arp_table[e].valid
           THEN wire' = wire \cup reply /\ UNCHANGED <<arp_queue, arp_pending>>
           ELSE Release(ip, mac, reply)

\* arp_add_entry, after the frames of reply have been sent: a new address releases
\* the packets that wait for it, a known one does not look at the queue.
Learn(ip, mac, reply) ==
    \E e \in EntryFor(ip) :
        /\ arp_table' = [arp_table EXCEPT ![e] =
              [valid |-> TRUE, ip |-> ip, mac |-> mac, timestamp |-> ticks]]
        /\ \/ /\ Lookup(ip) # {}
              /\ wire' = wire \cup reply
              /\ UNCHANGED <<arp_queue, arp_pending>>
           \/ /\ Lookup(ip) = {}
              /\ Release(ip, mac, reply)

-----------------------------------------------------------------------------
(***************************************************************************)
(* System calls.  Those that only report (SYS_PING_STATUS, SYS_ARP_LOOKUP, *)
(* SYS_ARP_PRINT, SYS_ARP_GET_ENTRY, SYS_NET_STATUS) change nothing.       *)
(***************************************************************************)

\* SYS_NET_INIT: table and queue are emptied; arp_pending is not.
Sys_net_init ==
    /\ local_ip' = LocalIp
    /\ arp_table' = [i \in Entries |-> NoEntry]
    /\ arp_queue' = [i \in Slots |-> NoPacket]
    /\ lost' = lost \cup {arp_queue[i].seq : i \in {j \in Slots : arp_queue[j].valid}}
    /\ UNCHANGED <<arp_pending, ping_seq, ping_waiting, ticks, wire>>

\* Mutant of FreeSlot: a full queue makes room at its first slot.
FreeSlotOverwrite ==
    LET unused == {i \in Slots : ~ arp_queue[i].valid}
    IN  IF unused = {} THEN {0} ELSE First(unused)

\* The slot ip_tx finds for a packet, if any.
FreeSlot == First({i \in Slots : ~ arp_queue[i].valid})

\* What arp_request sends; a request no host hears is not kept.
arp_request(ip) == {ArpRequest(host) : host \in Alive \cap {ip}}

\* ip_tx: send, or queue and ask for the address, or give up when the queue is
\* full (without asking).
ip_tx(dst, seq) ==
    \/ \E e \in First(Lookup(dst)) :
          /\ wire' = wire \cup {Echo(dst, arp_table[e].mac, seq)}
          /\ UNCHANGED <<arp_queue, arp_pending, lost>>
    \/ \E slot \in FreeSlot :
          /\ Lookup(dst) = {}
          /\ arp_queue' = [arp_queue EXCEPT ![slot] = [valid |-> TRUE, dst |-> dst, seq |-> seq]]
          /\ arp_pending' = arp_pending + 1
          /\ wire' = wire \cup arp_request(dst)
          /\ UNCHANGED lost
    \/ /\ Lookup(dst) = {} /\ FreeSlot = {}
       /\ lost' = lost \cup {seq}
       /\ UNCHANGED <<arp_queue, arp_pending, wire>>

\* SYS_PING.
Sys_ping(ip) ==
    /\ ping_seq < MaxPings     \* bound
    /\ ping_seq' = ping_seq + 1
    /\ ping_waiting' = TRUE
    /\ ip_tx(ip, ping_seq + 1)
    /\ UNCHANGED <<local_ip, arp_table, ticks>>

\* SYS_PING_RESET.
Sys_ping_reset ==
    /\ ping_waiting' = FALSE
    /\ UNCHANGED <<local_ip, arp_table, arp_queue, arp_pending, ping_seq, ticks, wire, lost>>

\* SYS_ARP_REQUEST.
Sys_arp_request(ip) ==
    /\ wire' = wire \cup arp_request(ip)
    /\ UNCHANGED <<local_ip, arp_table, arp_queue, arp_pending, ping_seq, ping_waiting, ticks, lost>>

\* SYS_ARP_ADD.
Sys_arp_add(ip, mac) ==
    /\ Learn(ip, mac, {})
    /\ UNCHANGED <<local_ip, ping_seq, ping_waiting, ticks, lost>>

-----------------------------------------------------------------------------
(***************************************************************************)
(* The card's interrupt: rtl8139_irq_handler hands a frame to eth_rx.      *)
(***************************************************************************)

\* eth_rx: a frame that has been sent arrives.
Arrives(frame) == frame \in wire

\* arp_rx of a request: answered when it is for us, and the sender is learnt.
RxHostRequest(ip) ==
    /\ Arrives(HostRequest(ip))
    /\ Learn(ip, ip, IF local_ip = LocalIp THEN {HostReply(ip)} ELSE {})
    /\ UNCHANGED <<local_ip, ping_seq, ping_waiting, ticks, lost>>

\* arp_rx of a reply, asked for or not.
RxArpReply(ip) ==
    /\ Arrives(ArpReply(ip))
    /\ Learn(ip, ip, {})
    /\ UNCHANGED <<local_ip, ping_seq, ping_waiting, ticks, lost>>

\* icmp_rx of an echo reply: any of them ends the wait.
icmp_rx ==
    /\ ping_waiting' = FALSE
    /\ UNCHANGED <<local_ip, arp_table, arp_queue, arp_pending, ping_seq, ticks, wire, lost>>

\* ip_rx of an echo reply.
RxEchoReply(seq) == Arrives(EchoReply(seq)) /\ icmp_rx

\* timer_callback.
Tick ==
    /\ ticks' = (ticks + 1) % TICK_MOD
    /\ UNCHANGED <<local_ip, arp_table, arp_queue, arp_pending, ping_seq, ping_waiting, wire, lost>>

-----------------------------------------------------------------------------
(***************************************************************************)
(* The hosts on the network.                                               *)
(***************************************************************************)

Sends(frame) ==
    /\ wire' = wire \cup {frame}
    /\ UNCHANGED <<local_ip, arp_table, arp_queue, arp_pending, ping_seq, ping_waiting, ticks, lost>>

HostAnswersArp(ip) == ArpRequest(ip) \in wire /\ Sends(ArpReply(ip))
HostAsks(ip) == Sends(HostRequest(ip))
HostAnswersEcho(seq) ==
    /\ \E ip \in Alive : Echo(ip, ip, seq) \in wire
    /\ Sends(EchoReply(seq))

NetNext ==
    \/ Sys_net_init
    \/ Sys_ping_reset
    \/ Tick
    \/ \E ip \in Ips : Sys_ping(ip) \/ Sys_arp_request(ip)
    \/ \E ip \in Ips, mac \in AddMacs : Sys_arp_add(ip, mac)
    \/ \E ip \in Alive :
          HostAnswersArp(ip) \/ HostAsks(ip) \/ RxHostRequest(ip) \/ RxArpReply(ip)
    \/ \E seq \in 1 .. MaxPings : HostAnswersEcho(seq) \/ RxEchoReply(seq)

NetSpec == NetInit /\ [][NetNext]_netVars

\* A network that loses no answer: a live host answers a request, and its reply
\* arrives.  (Nothing is retried: see QueuedIsSent.)
Delivery == \A ip \in Alive : WF_netVars(HostAnswersArp(ip)) /\ WF_netVars(RxArpReply(ip))

FairSpec == NetSpec /\ Delivery

-----------------------------------------------------------------------------
(***************************************************************************)
(* Properties.                                                             *)
(***************************************************************************)

\* The ARP table never holds two entries for one address, so arp_lookup cannot
\* return an outdated one.
OneEntryPerAddress == \A ip \in Ips : \A i, j \in Lookup(ip) : i = j

\* No packet is left behind: while one waits for an address the table does not
\* have that address, whichever of reply, request, SYS_ARP_ADD, eviction and
\* SYS_NET_INIT came before.
NoPacketLeftBehind == \A i \in Slots : arp_queue[i].valid => Lookup(arp_queue[i].dst) = {}

\* Every ping is in exactly one place: in one slot of the queue, on the wire, or
\* given up because the queue was full or SYS_NET_INIT emptied it.
PingInOnePlace ==
    \A seq \in 1 .. ping_seq :
        LET slots == {i \in Slots : arp_queue[i].valid /\ arp_queue[i].seq = seq}
            frames == {f \in wire : f.type = "echo" /\ f.seq = seq}
        IN  Cardinality(slots) + Cardinality(frames) + Cardinality({seq} \cap lost) = 1

\* Every packet in the queue for a live host leaves it, although its address is
\* asked for only once, on a network that loses no answer.
QueuedIsSent ==
    \A i \in Slots, ip \in Alive :
        arp_queue[i].valid /\ arp_queue[i].dst = ip ~> ~ (arp_queue[i].valid /\ arp_queue[i].dst = ip)
=============================================================================
