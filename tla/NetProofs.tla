----------------------------- MODULE NetProofs ------------------------------
(***************************************************************************)
(* Proofs about Net: the ARP table holds one entry per address, no packet  *)
(* waits for an address the table has, and no ping is lost or doubled, for *)
(* every number of hosts, table entries, queue slots and pings.            *)
(*                                                                         *)
(* And about the driver of the card, Rtl8139: frames are delivered in      *)
(* order, and lost or left behind only where the properties say so, for    *)
(* every size of the ring, set of frame sizes and number of frames.        *)
(*                                                                         *)
(* And about the enumeration of the buses, Pci, as NetCard has it: every   *)
(* function is found, and once, for every machine that PCI allows.         *)
(***************************************************************************)
EXTENDS Net, NetCard, FiniteSetTheorems, TLAPS

\* The part of the type invariant the proofs need.
Shape ==
    /\ arp_table \in [Entries -> [valid : BOOLEAN, ip : Ips \cup {0}, mac : Ips \cup {0},
                                  timestamp : Int]]
    /\ arp_queue \in [Slots -> [valid : BOOLEAN, dst : Ips \cup {0}, seq : Int]]
    /\ ping_seq \in Int
    /\ ticks \in Int

NetInv == Shape /\ OneEntryPerAddress /\ NoPacketLeftBehind

\* The invariant holds initially: table and queue are empty.
LEMMA InitEstablishes == NetInit => NetInv
  BY NetAssumption DEF NetInit, NetInv, Shape, OneEntryPerAddress, NoPacketLeftBehind, Lookup,
     NoEntry, NoPacket

\* Which entries hold an address after an entry e has been written for ip.
LEMMA Written ==
  ASSUME Shape, NEW ip \in Ips, NEW mac \in Ips, NEW e \in Entries,
         arp_table' = [arp_table EXCEPT ![e] =
              [valid |-> TRUE, ip |-> ip, mac |-> mac, timestamp |-> ticks]]
  PROVE  /\ arp_table' \in [Entries -> [valid : BOOLEAN, ip : Ips \cup {0}, mac : Ips \cup {0},
                                        timestamp : Int]]
         /\ Lookup(ip)' = Lookup(ip) \cup {e}
         /\ \A other \in Ips \ {ip} : Lookup(other)' = Lookup(other) \ {e}
  BY DEF Shape, Lookup

\* arp_add_entry keeps the invariant: it never adds a second entry for an address,
\* and a new address empties the queue of the packets that wait for it.
LEMMA LearnPreserves ==
  ASSUME NetInv, NEW ip \in Ips, NEW mac \in Ips, NEW reply, Learn(ip, mac, reply),
         ping_seq' = ping_seq, ticks' = ticks
  PROVE  NetInv'
<1>1. PICK e \in EntryFor(ip) :
        /\ arp_table' = [arp_table EXCEPT ![e] =
              [valid |-> TRUE, ip |-> ip, mac |-> mac, timestamp |-> ticks]]
        /\ \/ Lookup(ip) # {} /\ arp_queue' = arp_queue
           \/ Lookup(ip) = {} /\ arp_queue' = Drained(ip)
  BY DEF Learn, Release
<1>2. e \in Entries /\ (Lookup(ip) # {} => e \in Lookup(ip))
  BY DEF EntryFor, First, Lookup, Unused, Oldest
<1>3. /\ arp_table' \in [Entries -> [valid : BOOLEAN, ip : Ips \cup {0}, mac : Ips \cup {0},
                                     timestamp : Int]]
      /\ Lookup(ip)' = Lookup(ip) \cup {e}
      /\ \A other \in Ips \ {ip} : Lookup(other)' = Lookup(other) \ {e}
  BY <1>1, <1>2, Written DEF NetInv
<1>4. Shape'
  <2>1. CASE arp_queue' = arp_queue
    BY <1>3, <2>1 DEF NetInv, Shape
  <2>2. CASE arp_queue' = Drained(ip)
    BY <1>3, <2>2 DEF NetInv, Shape, Drained, NoPacket
  <2> QED
    BY <1>1, <2>1, <2>2
<1>5. OneEntryPerAddress'
  BY <1>2, <1>3 DEF NetInv, OneEntryPerAddress
<1>6. NoPacketLeftBehind'
  <2> SUFFICES ASSUME NEW i \in Slots, arp_queue'[i].valid
               PROVE  Lookup(arp_queue[i].dst)' = {}
    BY DEF NoPacketLeftBehind
  <2>1. arp_queue[i].valid /\ arp_queue'[i] = arp_queue[i] /\ arp_queue[i].dst # ip
    BY <1>1 DEF NetInv, NoPacketLeftBehind, Drained, Waiting, NoPacket
  <2>2. Lookup(arp_queue[i].dst) = {}
    BY <2>1 DEF NetInv, NoPacketLeftBehind
  <2>3. CASE arp_queue[i].dst \in Ips
    <3>1. \A other \in Ips \ {ip} : Lookup(other) = {} => Lookup(other)' = {}
      BY <1>3
    <3>2. arp_queue'[i].dst = arp_queue[i].dst
      BY <2>1
    <3> QED
      BY <2>1, <2>2, <2>3, <3>1, <3>2, <1>1 DEF Lookup
  <2>4. CASE arp_queue[i].dst = 0
    BY <1>1, <1>2, <2>1, <2>2, <2>4, NetAssumption DEF Lookup, NetInv, Shape
  <2> QED
    BY <2>3, <2>4 DEF NetInv, Shape
<1> QED
  BY <1>4, <1>5, <1>6 DEF NetInv

\* A packet is queued only while the table does not have its address.
LEMMA PingPreserves == ASSUME NetInv, NEW ip \in Ips, Sys_ping(ip) PROVE NetInv'
<1>1. arp_table' = arp_table /\ ticks' = ticks /\ ping_seq' = ping_seq + 1
  BY DEF Sys_ping
<1>2. \/ arp_queue' = arp_queue
      \/ \E slot \in Slots :
            /\ Lookup(ip) = {}
            /\ arp_queue' = [arp_queue EXCEPT ![slot] =
                                [valid |-> TRUE, dst |-> ip, seq |-> ping_seq + 1]]
  BY DEF Sys_ping, ip_tx, FreeSlot, First
<1>3. Shape' /\ OneEntryPerAddress'
  <2>1. OneEntryPerAddress'
    BY <1>1 DEF NetInv, OneEntryPerAddress, Lookup
  <2>2. arp_queue' \in [Slots -> [valid : BOOLEAN, dst : Ips \cup {0}, seq : Int]]
    <3>1. arp_queue \in [Slots -> [valid : BOOLEAN, dst : Ips \cup {0}, seq : Int]]
      BY DEF NetInv, Shape
    <3>2. [valid |-> TRUE, dst |-> ip, seq |-> ping_seq + 1]
             \in [valid : BOOLEAN, dst : Ips \cup {0}, seq : Int]
      BY DEF NetInv, Shape
    <3> QED
      BY ONLY <1>2, <3>1, <3>2
  <2> QED
    BY <1>1, <2>1, <2>2 DEF NetInv, Shape
<1>4. NoPacketLeftBehind'
  <2>1. \A i \in Slots : arp_queue'[i].valid => Lookup(arp_queue'[i].dst) = {}
    BY SMTT(30), <1>2 DEF NetInv, Shape, NoPacketLeftBehind
  <2> QED
    BY <1>1, <2>1 DEF NoPacketLeftBehind, Lookup
<1> QED
  BY <1>3, <1>4 DEF NetInv

\* Every step keeps the invariant.
LEMMA StepPreserves == NetInv /\ [NetNext]_netVars => NetInv'
<1> SUFFICES ASSUME NetInv, [NetNext]_netVars PROVE NetInv'
  OBVIOUS
<1>1. CASE UNCHANGED <<arp_table, arp_queue, ping_seq, ticks>>
  BY <1>1 DEF NetInv, Shape, OneEntryPerAddress, NoPacketLeftBehind, Lookup
<1>2. CASE Sys_net_init
  BY <1>2, NetAssumption DEF Sys_net_init, NetInv, Shape, OneEntryPerAddress,
     NoPacketLeftBehind, Lookup, NoEntry, NoPacket
<1>3. CASE Tick
  <2>1. ticks' \in Int /\ UNCHANGED <<arp_table, arp_queue, ping_seq>>
    BY <1>3, NetAssumption DEF Tick, NetInv, Shape
  <2> QED
    BY <2>1 DEF NetInv, Shape, OneEntryPerAddress, NoPacketLeftBehind, Lookup
<1>4. ASSUME NEW ip \in Ips, Sys_ping(ip) PROVE NetInv'
  BY <1>4, PingPreserves
<1>5. ASSUME NEW ip \in Ips, NEW mac \in AddMacs, Sys_arp_add(ip, mac) PROVE NetInv'
  BY <1>5, LearnPreserves, NetAssumption DEF Sys_arp_add
<1>6. ASSUME NEW ip \in Alive, RxHostRequest(ip) PROVE NetInv'
  BY <1>6, LearnPreserves, NetAssumption DEF RxHostRequest
<1>7. ASSUME NEW ip \in Alive, RxArpReply(ip) PROVE NetInv'
  BY <1>7, LearnPreserves, NetAssumption DEF RxArpReply
<1> QED
  BY <1>1, <1>2, <1>3, <1>4, <1>5, <1>6, <1>7
     DEF NetNext, netVars, Sys_ping_reset, Sys_arp_request, HostAnswersArp, HostAsks,
         HostAnswersEcho, Sends, RxEchoReply, icmp_rx

\* The invariant holds in every reachable state.
LEMMA AlwaysNetInv == NetSpec => []NetInv
  BY InitEstablishes, StepPreserves, PTL DEF NetSpec

\* arp_add_entry never leaves two entries for one address in the table, for any
\* table size, with or without evictions.
THEOREM AddressesAreUnique == NetSpec => []OneEntryPerAddress
<1>1. NetInv => OneEntryPerAddress
  BY DEF NetInv
<1> QED
  BY <1>1, AlwaysNetInv, PTL

\* A packet in the IP layer's queue waits for an address that is really missing:
\* whatever made the address known has also sent the packet.
THEOREM ResolvedMeansSent == NetSpec => []NoPacketLeftBehind
<1>1. NetInv => NoPacketLeftBehind
  BY DEF NetInv
<1> QED
  BY <1>1, AlwaysNetInv, PTL

-----------------------------------------------------------------------------

\* The slots in use, and the pings on the wire.
Queued == {i \in Slots : arp_queue[i].valid}
Echoes == {f \in wire : f.type = "echo"}

\* Every ping is somewhere, ...
Somewhere ==
    \A seq \in 1 .. ping_seq :
        \/ \E i \in Queued : arp_queue[i].seq = seq
        \/ \E f \in Echoes : f.seq = seq
        \/ seq \in lost

\* ... in one place only, ...
Apart ==
    /\ \A i, j \in Queued : arp_queue[i].seq = arp_queue[j].seq => i = j
    /\ \A f, g \in Echoes : f.seq = g.seq => f = g
    /\ \A i \in Queued, f \in Echoes : arp_queue[i].seq # f.seq
    /\ \A i \in Queued : arp_queue[i].seq \notin lost
    /\ \A f \in Echoes : f.seq \notin lost

\* ... and a number not given out yet is nowhere.
Numbered ==
    /\ ping_seq \in Nat
    /\ \A i \in Queued : arp_queue[i].seq \in 1 .. ping_seq
    /\ \A f \in Echoes : f.seq \in 1 .. ping_seq
    /\ lost \subseteq 1 .. ping_seq

PlaceInv == Shape /\ Somewhere /\ Apart /\ Numbered

\* Frames that are no pings do not matter.
LEMMA OtherFrames ==
  ASSUME PlaceInv, Shape', NEW reply, \A f \in reply : f.type # "echo",
         wire' = wire \cup reply, UNCHANGED <<arp_queue, ping_seq, lost>>
  PROVE  PlaceInv'
<1>1. Queued' = Queued /\ Echoes' = Echoes
  BY DEF Queued, Echoes
<1>2. QED
  BY <1>1 DEF PlaceInv, Somewhere, Apart, Numbered

\* ip_process_arp_queue moves the packets that wait from the queue to the wire.
LEMMA ReleasePlace ==
  ASSUME PlaceInv, Shape', NEW ip, NEW mac, NEW reply, \A f \in reply : f.type # "echo",
         Release(ip, mac, reply), UNCHANGED <<ping_seq, lost>>
  PROVE  PlaceInv'
<1> DEFINE Moved == Waiting(ip)
           E(i) == Echo(ip, mac, arp_queue[i].seq)
<1>1. Moved \subseteq Queued
  BY DEF Waiting, Queued
<1>2. /\ Queued' = Queued \ Moved
      /\ \A i \in Queued' : arp_queue'[i] = arp_queue[i]
  BY DEF Release, Drained, Queued, NoPacket, Waiting
<1>3. \A i : E(i).type = "echo" /\ E(i).seq = arp_queue[i].seq
  BY DEF Echo
<1>4. wire' = wire \cup reply \cup {E(i) : i \in Moved}
  BY DEF Release
<1>5. \A i, j : arp_queue[i].seq = arp_queue[j].seq => E(i) = E(j)
  BY DEF Echo
<1> HIDE DEF E, Moved
<1>6. Echoes' = Echoes \cup {E(i) : i \in Moved}
  BY <1>3, <1>4 DEF Echoes
<1>7. Somewhere'
  <2> SUFFICES ASSUME NEW seq \in 1 .. ping_seq
               PROVE  \/ \E i \in Queued' : arp_queue'[i].seq = seq
                      \/ \E f \in Echoes' : f.seq = seq
                      \/ seq \in lost'
    BY DEF Somewhere
  <2>1. CASE \E i \in Queued : arp_queue[i].seq = seq
    <3>1. PICK i \in Queued : arp_queue[i].seq = seq
      BY <2>1
    <3>2. CASE i \in Moved
      BY <1>3, <1>6, <3>1, <3>2
    <3>3. CASE i \notin Moved
      BY <1>2, <3>1, <3>3
    <3>4. QED
      BY <3>2, <3>3
  <2>2. CASE (\E f \in Echoes : f.seq = seq) \/ seq \in lost
    BY <1>6, <2>2
  <2>3. QED
    BY <2>1, <2>2 DEF PlaceInv, Somewhere
<1>8. Apart'
  <2>1. \A f \in Echoes' : f \in Echoes \/ \E i \in Moved : f = E(i)
    BY <1>6
  <2>2. \A f, g \in Echoes' : f.seq = g.seq => f = g
    BY <1>1, <1>3, <1>5, <2>1 DEF PlaceInv, Apart
  <2>3. \A i \in Queued', f \in Echoes' : arp_queue'[i].seq # f.seq
    BY <1>1, <1>2, <1>3, <2>1 DEF PlaceInv, Apart
  <2>4. \A f \in Echoes' : f.seq \notin lost'
    BY <1>1, <1>3, <2>1 DEF PlaceInv, Apart
  <2>5. QED
    BY <1>2, <2>2, <2>3, <2>4 DEF PlaceInv, Apart
<1>9. Numbered'
  BY <1>1, <1>2, <1>3, <1>6 DEF PlaceInv, Numbered
<1>10. QED
  BY <1>7, <1>8, <1>9 DEF PlaceInv

\* A new ping goes to one place.
LEMMA PingPlace == ASSUME PlaceInv, Shape', NEW ip \in Ips, Sys_ping(ip) PROVE PlaceInv'
<1> DEFINE s == ping_seq + 1
<1>1. ping_seq' = s /\ ping_seq \in Nat /\ ip_tx(ip, s)
  BY DEF Sys_ping, PlaceInv, Numbered
<1>2. /\ s \notin 1 .. ping_seq /\ s \in 1 .. s
      /\ 1 .. s = (1 .. ping_seq) \cup {s} /\ s \in Nat
  BY <1>1
<1> HIDE DEF s
<1>3. CASE \E e \in First(Lookup(ip)) :
              /\ wire' = wire \cup {Echo(ip, arp_table[e].mac, s)}
              /\ UNCHANGED <<arp_queue, arp_pending, lost>>
  <2>1. PICK mac : wire' = wire \cup {Echo(ip, mac, s)} /\ UNCHANGED <<arp_queue, lost>>
    BY <1>3
  <2> DEFINE E == Echo(ip, mac, s)
  <2>2. E.type = "echo" /\ E.seq = s
    BY DEF Echo
  <2> HIDE DEF E
  <2>3. Queued' = Queued /\ Echoes' = Echoes \cup {E}
    BY <2>1, <2>2 DEF Queued, Echoes, E
  <2>4. QED
    BY <1>1, <1>2, <2>1, <2>2, <2>3 DEF PlaceInv, Somewhere, Apart, Numbered
<1>4. CASE \E slot \in FreeSlot :
              /\ arp_queue' = [arp_queue EXCEPT ![slot] =
                                  [valid |-> TRUE, dst |-> ip, seq |-> s]]
              /\ wire' = wire \cup arp_request(ip)
              /\ UNCHANGED lost
  <2>1. PICK slot \in Slots :
           /\ ~ arp_queue[slot].valid
           /\ arp_queue' = [arp_queue EXCEPT ![slot] =
                               [valid |-> TRUE, dst |-> ip, seq |-> s]]
           /\ wire' = wire \cup arp_request(ip)
           /\ UNCHANGED lost
    BY <1>4 DEF FreeSlot, First
  <2>2. /\ Queued' = Queued \cup {slot} /\ slot \notin Queued
        /\ arp_queue'[slot].seq = s
        /\ \A i \in Queued : arp_queue'[i] = arp_queue[i]
    BY <2>1 DEF Queued, PlaceInv, Shape
  <2>3. Echoes' = Echoes
    BY <2>1 DEF Echoes, arp_request, ArpRequest
  <2>4. QED
    BY <1>1, <1>2, <2>1, <2>2, <2>3 DEF PlaceInv, Somewhere, Apart, Numbered
<1>5. CASE lost' = lost \cup {s} /\ UNCHANGED <<arp_queue, wire>>
  <2>1. Queued' = Queued /\ Echoes' = Echoes
    BY <1>5 DEF Queued, Echoes
  <2>2. QED
    BY <1>1, <1>2, <1>5, <2>1 DEF PlaceInv, Somewhere, Apart, Numbered
<1>6. QED
  BY <1>1, <1>3, <1>4, <1>5 DEF ip_tx

\* SYS_NET_INIT gives up what waits in the queue, and nothing else.
LEMMA NetInitPlace == ASSUME PlaceInv, Shape', Sys_net_init PROVE PlaceInv'
<1>1. Queued' = {} /\ Echoes' = Echoes /\ ping_seq' = ping_seq
  BY DEF Sys_net_init, Queued, Echoes, NoPacket
<1>2. \A seq : seq \in lost' <=> seq \in lost \/ \E i \in Queued : arp_queue[i].seq = seq
  BY DEF Sys_net_init, Queued
<1>3. Somewhere'
  BY <1>1, <1>2 DEF PlaceInv, Somewhere
<1>4. Apart'
  BY <1>1, <1>2 DEF PlaceInv, Apart
<1>5. Numbered'
  BY <1>1, <1>2 DEF PlaceInv, Numbered
<1>6. QED
  BY <1>3, <1>4, <1>5 DEF PlaceInv

\* arp_add_entry moves pings from the queue to the wire or leaves them alone.
LEMMA LearnPlace ==
  ASSUME PlaceInv, Shape', NEW ip, NEW mac, NEW reply, \A f \in reply : f.type # "echo",
         Learn(ip, mac, reply), UNCHANGED <<ping_seq, lost>>
  PROVE  PlaceInv'
<1>1. \/ wire' = wire \cup reply /\ UNCHANGED arp_queue
      \/ Release(ip, mac, reply)
  BY DEF Learn
<1>2. QED
  BY <1>1, OtherFrames, ReleasePlace

\* Every step keeps every ping in one place.
LEMMA StepPlace == NetInv' /\ PlaceInv /\ [NetNext]_netVars => PlaceInv'
<1> SUFFICES ASSUME PlaceInv, Shape', [NetNext]_netVars PROVE PlaceInv'
  BY DEF NetInv
<1>1. CASE UNCHANGED <<arp_queue, ping_seq, wire, lost>>
  <2>1. Queued' = Queued /\ Echoes' = Echoes
    BY <1>1 DEF Queued, Echoes
  <2>2. QED
    BY <1>1, <2>1 DEF PlaceInv, Somewhere, Apart, Numbered
<1>2. CASE Sys_net_init
  BY <1>2, NetInitPlace
<1>3. ASSUME NEW ip \in Ips, Sys_ping(ip) PROVE PlaceInv'
  BY <1>3, PingPlace
<1>4. ASSUME NEW ip \in Ips, Sys_arp_request(ip) PROVE PlaceInv'
  <2>1. \A f \in arp_request(ip) : f.type # "echo"
    BY DEF arp_request, ArpRequest
  <2>2. QED
    BY <1>4, <2>1, OtherFrames DEF Sys_arp_request
<1>5. ASSUME NEW ip \in Ips, NEW mac \in AddMacs, Sys_arp_add(ip, mac) PROVE PlaceInv'
  BY <1>5, LearnPlace DEF Sys_arp_add
<1>6. ASSUME NEW ip \in Alive, RxHostRequest(ip) PROVE PlaceInv'
  <2> DEFINE reply == IF local_ip = LocalIp THEN {HostReply(ip)} ELSE {}
  <2>1. \A f \in reply : f.type # "echo"
    BY DEF HostReply
  <2>2. Learn(ip, ip, reply) /\ UNCHANGED <<ping_seq, lost>>
    BY <1>6 DEF RxHostRequest
  <2> HIDE DEF reply
  <2>3. QED
    BY <2>1, <2>2, LearnPlace
<1>7. ASSUME NEW ip \in Alive, RxArpReply(ip) PROVE PlaceInv'
  BY <1>7, LearnPlace DEF RxArpReply
<1>8. ASSUME NEW frame, frame.type # "echo", Sends(frame) PROVE PlaceInv'
  <2> DEFINE reply == {frame}
  <2>1. \A f \in reply : f.type # "echo"
    BY <1>8
  <2>2. wire' = wire \cup reply /\ UNCHANGED <<arp_queue, ping_seq, lost>>
    BY <1>8 DEF Sends
  <2> HIDE DEF reply
  <2>3. QED
    BY <2>1, <2>2, OtherFrames
<1>9. ASSUME NEW ip \in Alive, HostAnswersArp(ip) \/ HostAsks(ip) PROVE PlaceInv'
  BY <1>8, <1>9 DEF HostAnswersArp, HostAsks, ArpReply, HostRequest
<1>10. ASSUME NEW seq, HostAnswersEcho(seq) PROVE PlaceInv'
  BY <1>8, <1>10 DEF HostAnswersEcho, EchoReply
<1>11. QED
  BY <1>1, <1>2, <1>3, <1>4, <1>5, <1>6, <1>7, <1>9, <1>10
     DEF NetNext, netVars, Sys_ping_reset, Tick, RxEchoReply, icmp_rx

\* A set that has a member and no two members has one.
LEMMA OneMember ==
  ASSUME NEW S, NEW x \in S, \A y \in S : y = x
  PROVE  Cardinality(S) = 1
<1>1. S = {x}
  OBVIOUS
<1>2. QED
  BY <1>1, FS_Singleton

\* No ping is lost without a trace or sent twice: each is in one slot of the queue,
\* in one frame on the wire, or given up, for queues and tables of any size.
THEOREM PingsAreNeverDoubled == NetSpec => []PingInOnePlace
<1>1. NetInit => PlaceInv
  <2> SUFFICES ASSUME NetInit PROVE PlaceInv
    OBVIOUS
  <2>1. Shape /\ Queued = {} /\ Echoes = {} /\ ping_seq = 0 /\ lost = {}
    BY InitEstablishes DEF NetInv, NetInit, Queued, Echoes, NoPacket
  <2>2. QED
    BY <2>1 DEF PlaceInv, Somewhere, Apart, Numbered
<1>2. PlaceInv => PingInOnePlace
  <2> SUFFICES ASSUME PlaceInv, NEW seq \in 1 .. ping_seq
               PROVE  LET slots == {i \in Slots : arp_queue[i].valid /\ arp_queue[i].seq = seq}
                          frames == {f \in wire : f.type = "echo" /\ f.seq = seq}
                      IN  Cardinality(slots) + Cardinality(frames)
                             + Cardinality({seq} \cap lost) = 1
    BY DEF PingInOnePlace
  <2> DEFINE slots == {i \in Slots : arp_queue[i].valid /\ arp_queue[i].seq = seq}
             frames == {f \in wire : f.type = "echo" /\ f.seq = seq}
             given == {seq} \cap lost
  <2>1. /\ \A i : i \in slots <=> i \in Queued /\ arp_queue[i].seq = seq
        /\ \A f : f \in frames <=> f \in Echoes /\ f.seq = seq
        /\ \A x : x \in given <=> x = seq /\ seq \in lost
    BY DEF Queued, Echoes
  <2>2. Cardinality({}) = 0
    BY FS_EmptySet
  <2>3. SUFFICES Cardinality(slots) + Cardinality(frames) + Cardinality(given) = 1
    OBVIOUS
  <2> HIDE DEF slots, frames, given
  <2>4. CASE \E i \in Queued : arp_queue[i].seq = seq
    <3>1. Cardinality(slots) = 1
      BY <2>1, <2>4, OneMember DEF PlaceInv, Apart
    <3>2. frames = {} /\ given = {}
      BY <2>1, <2>4 DEF PlaceInv, Apart
    <3>3. QED
      BY <2>2, <3>1, <3>2
  <2>5. CASE \E f \in Echoes : f.seq = seq
    <3>1. Cardinality(frames) = 1
      BY <2>1, <2>5, OneMember DEF PlaceInv, Apart
    <3>2. slots = {} /\ given = {}
      BY <2>1, <2>5 DEF PlaceInv, Apart
    <3>3. QED
      BY <2>2, <3>1, <3>2
  <2>6. CASE seq \in lost
    <3>1. Cardinality(given) = 1
      BY <2>1, <2>6, FS_Singleton DEF given
    <3>2. slots = {} /\ frames = {}
      BY <2>1, <2>6 DEF PlaceInv, Apart
    <3>3. QED
      BY <2>2, <3>1, <3>2
  <2>7. QED
    BY <2>4, <2>5, <2>6 DEF PlaceInv, Somewhere
<1>3. QED
  BY <1>1, <1>2, AlwaysNetInv, StepPlace, PTL DEF NetSpec

-----------------------------------------------------------------------------
(***************************************************************************)
(* The card's driver.                                                      *)
(***************************************************************************)

Bits == {"ROK", "TOK"}

\* Types of the receive side and of the transmit side.
RxType ==
    /\ pc \in {"idle", "drain", "ack"}
    /\ status \in SUBSET Bits /\ isr \in SUBSET Bits
    /\ current_rx_offset \in Nat
    /\ ring \in [Offset -> 0 .. Len(size)]
    /\ wr \in Offset /\ rd \in Offset
    /\ size \in Seq(Sizes) /\ start \in Seq(Nat)
    /\ delivered \in Seq(Nat)

TxType ==
    /\ tx \in Descriptor /\ next_tx \in Descriptor
    /\ desc \in [Descriptor -> Nat]
    /\ owned \in SUBSET Descriptor
    /\ submitted \in Nat

-----------------------------------------------------------------------------
(***************************************************************************)
(* Transmission.                                                           *)
(***************************************************************************)

\* The descriptor that frame f was put in, counted back from the next one.
Slot(f) ==
    IF tx - 1 - (submitted - f) >= 0
    THEN tx - 1 - (submitted - f)
    ELSE tx - 1 - (submitted - f) + DESCRIPTORS

\* The last DESCRIPTORS frames are each in a descriptor of their own, and the card
\* has sent the frame or still owns the descriptor.
TxInv ==
    \A f \in 1 .. submitted :
        f + DESCRIPTORS > submitted =>
            /\ desc[Slot(f)] = f
            /\ f \in sent \/ Slot(f) \in owned

\* The descriptors are used in turn.
LEMMA InTurn ==
    ASSUME NEW d \in Descriptor
    PROVE  (d + 1) % DESCRIPTORS = IF d = DESCRIPTORS - 1 THEN 0 ELSE d + 1
<1>1. d + 1 \in 1 .. DESCRIPTORS /\ DESCRIPTORS \in Nat \ {0} /\ d \in Nat
  BY RtlAssumption DEF Descriptor
<1>2. CASE d = DESCRIPTORS - 1
  BY <1>1, <1>2
<1>3. CASE d # DESCRIPTORS - 1
  <2>1. d + 1 \in 0 .. DESCRIPTORS - 1
    BY <1>1, <1>3
  <2>2. QED
    BY <1>1, <1>3, <2>1
<1>4. QED
  BY <1>2, <1>3

\* Submitting a frame fills the next descriptor and leaves the place of the
\* DESCRIPTORS - 1 frames before it alone.
LEMMA SendTxInv == TxType /\ TxInv /\ rtl8139_send => TxType' /\ TxInv'
<1> SUFFICES ASSUME TxType, TxInv, rtl8139_send PROVE TxType' /\ TxInv'
  OBVIOUS
<1>1. /\ DESCRIPTORS \in Nat \ {0} /\ tx \in 0 .. DESCRIPTORS - 1 /\ submitted \in Nat
      /\ submitted' = submitted + 1
      /\ desc' = [desc EXCEPT ![tx] = submitted + 1]
      /\ owned' = owned \cup {tx}
      /\ sent' = sent /\ next_tx' = next_tx
      /\ tx' = IF tx = DESCRIPTORS - 1 THEN 0 ELSE tx + 1
  BY RtlAssumption, InTurn DEF TxType, rtl8139_send, NextDescriptor, Descriptor
<1>2. TxType'
  BY <1>1 DEF TxType, Descriptor
<1>3. ASSUME NEW f \in 1 .. submitted + 1, f + DESCRIPTORS > submitted + 1
      PROVE  /\ Slot(f)' \in Descriptor
             /\ f = submitted + 1 => Slot(f)' = tx
             /\ f # submitted + 1 => Slot(f)' = Slot(f) /\ Slot(f)' # tx
  BY ONLY <1>1, <1>3, f \in 1 .. submitted + 1 DEF Slot, Descriptor
<1>4. ASSUME NEW f \in 1 .. submitted', f + DESCRIPTORS > submitted'
      PROVE  /\ desc'[Slot(f)'] = f
             /\ f \in sent' \/ Slot(f)' \in owned'
  <2>1. CASE f = submitted + 1
    BY <1>1, <1>3, <1>4, <2>1 DEF TxType
  <2>2. CASE f # submitted + 1
    <3>1. /\ Slot(f)' \in Descriptor /\ Slot(f)' = Slot(f) /\ Slot(f)' # tx
          /\ f \in 1 .. submitted /\ f + DESCRIPTORS > submitted
      BY <1>1, <1>3, <1>4, <2>2
    <3>2. QED
      BY <1>1, <3>1 DEF TxType, TxInv
  <2>3. QED
    BY <2>1, <2>2
<1>5. QED
  BY <1>2, <1>4 DEF TxInv

\* What the card sends is remembered.
LEMMA CardTxInv == TxType /\ TxInv /\ CardSends => TxType' /\ TxInv'
<1> SUFFICES ASSUME TxType, TxInv, CardSends PROVE TxType' /\ TxInv'
  OBVIOUS
<1>1. TxType'
  BY InTurn, RtlAssumption DEF TxType, CardSends, Descriptor
<1>2. \A f : Slot(f)' = Slot(f)
  BY DEF Slot, CardSends
<1>3. QED
  BY <1>1, <1>2 DEF TxInv, CardSends, TxType

\* Every frame given to rtl8139_send is sent, waits in its descriptor, or has been
\* overwritten by the one submitted a whole turn of the descriptors later.
THEOREM LostOnlyToOverwriting == Spec => []FrameLostOnlyToFourth
<1>1. Init => TxType /\ TxInv
  BY RtlAssumption DEF Init, TxType, TxInv, Descriptor
<1>2. TxType /\ TxInv /\ [Next]_vars => TxType' /\ TxInv'
  <2> SUFFICES ASSUME TxType, TxInv, [Next]_vars PROVE TxType' /\ TxInv'
    OBVIOUS
  <2>1. ASSUME UNCHANGED txvars PROVE TxType' /\ TxInv'
    BY <2>1 DEF txvars, TxType, TxInv, Slot
  <2>2. CASE rtl8139_send
    BY <2>2, SendTxInv
  <2>3. CASE CardSends
    BY <2>3, CardTxInv
  <2>4. CASE \/ IrqEnter \/ DrainFrame \/ DrainGarbage \/ DrainReset \/ DrainEnd
             \/ IrqAck \/ \E n \in Sizes : CardReceives(n)
    BY <2>1, <2>4 DEF IrqEnter, DrainFrame, DrainGarbage, DrainReset, DrainEnd,
                      IrqAck, CardReceives
  <2>5. CASE UNCHANGED vars
    BY <2>1, <2>5 DEF vars
  <2>6. QED
    BY <2>2, <2>3, <2>4, <2>5 DEF Next
<1>3. TxType /\ TxInv => FrameLostOnlyToFourth
  <2> SUFFICES ASSUME TxType, TxInv, NEW f \in 1 .. submitted,
                      f + DESCRIPTORS > submitted
               PROVE  f \in sent \/ \E d \in owned : desc[d] = f
    BY RtlAssumption DEF FrameLostOnlyToFourth, TxType
  <2>1. QED
    BY DEF TxInv
<1>4. QED
  BY <1>1, <1>2, <1>3, PTL DEF Spec

-----------------------------------------------------------------------------
(***************************************************************************)
(* Reception.                                                              *)
(***************************************************************************)

\* The frames follow each other in the ring, none of them empty.
StartInv ==
    /\ Len(start) = Len(size) + 1
    /\ start[1] = 0
    /\ \A f \in 1 .. Len(size) : start[f + 1] = start[f] + size[f]
    /\ \A f, g \in 1 .. Len(start) : f < g => start[f] < start[g]

\* On the first lap the handler and the card agree: the handler is at the first
\* frame it has not handed on, or at the card's place when there is none, and a
\* ring with frames in it never looks empty.
LapInv ==
    FirstLap =>
        /\ wr = start[Len(start)] % RING
        /\ \A f \in 1 .. Len(size) : ring[start[f]] = f
        /\ Len(delivered) <= Len(size)
        /\ \A i \in 1 .. Len(delivered) : delivered[i] = i
        /\ current_rx_offset = start[Len(delivered) + 1]
        /\ rd = current_rx_offset % RING
        /\ Len(delivered) < Len(size) /\ start[Len(start)] = RING =>
              start[Len(delivered) + 1] > 0

\* On the first lap every frame not handed on will be found by the handler that
\* runs, is announced by an interrupt the handler will not acknowledge away, or
\* came too late for its last look at the ring.
Announced ==
    /\ pc = "drain" => "ROK" \in status
    /\ FirstLap =>
          \/ pc = "drain"
          \/ pc = "idle" /\ "ROK" \in isr
          \/ pc = "ack" /\ "ROK" \in isr \ status
          \/ \A f \in Len(delivered) + 1 .. Len(size) : f \in late

RxInv == RxType /\ StartInv /\ LapInv /\ Announced

\* A frame is shorter than the ring.
LEMMA FrameSizes == \A n \in Sizes : n \in Nat /\ n \in 1 .. RING - 1
BY RtlAssumption

\* The modulo of the card's and the handler's offsets, and of their distance.
LEMMA OnFirstLap ==
    \A o \in 0 - RING .. RING :
        o % RING = IF o < 0 THEN o + RING ELSE IF o = RING THEN 0 ELSE o
BY RtlAssumption

\* On the first lap BUFE is set exactly when every frame has been handed on.
LEMMA EmptyMeansDone ==
    ASSUME RxType, StartInv, LapInv, FirstLap
    PROVE  /\ Len(delivered) \in 0 .. Len(size)
           /\ start[Len(delivered) + 1] \in 0 .. start[Len(start)]
           /\ start[Len(start)] \in 0 .. RING
           /\ Empty <=> Len(delivered) = Len(size)
           /\ Len(delivered) < Len(size) =>
                 /\ start[Len(delivered) + 1] < start[Len(start)]
                 /\ rd = start[Len(delivered) + 1]
<1> DEFINE n == Len(size)
           k == Len(delivered)
           all == start[Len(start)]
           here == start[k + 1]
<1>1. /\ n \in Nat /\ k \in Nat /\ k <= n /\ Len(start) = n + 1
      /\ RING \in Nat \ {0}
  BY RtlAssumption DEF RxType, StartInv, LapInv
<1>2. /\ all \in Nat /\ here \in Nat /\ all <= RING
      /\ k < n => here < all
      /\ k = n => here = all
      /\ wr = all % RING /\ rd = here % RING
      /\ k < n /\ all = RING => here > 0
  <2>1. /\ k + 1 \in 1 .. n + 1 /\ n + 1 \in 1 .. n + 1
        /\ k < n => k + 1 < n + 1
        /\ k = n => k + 1 = n + 1
    BY ONLY <1>1
  <2>2. start[k + 1] \in Nat /\ start[n + 1] \in Nat
    BY <1>1, <2>1 DEF RxType
  <2>3. k < n => start[k + 1] < start[n + 1]
    BY <1>1, <2>1 DEF StartInv
  <2>4. QED
    BY <1>1, <2>1, <2>2, <2>3 DEF LapInv, FirstLap
<1>3. /\ wr = IF all = RING THEN 0 ELSE all
      /\ rd = IF here = RING THEN 0 ELSE here
  <2>1. all \in 0 - RING .. RING /\ here \in 0 - RING .. RING
    BY <1>1, <1>2
  <2>2. QED
    BY <1>2, <2>1, OnFirstLap
<1> HIDE DEF n, k, all, here
<1>4. k = n <=> rd = wr
  BY <1>1, <1>2, <1>3
<1>5. k < n => rd = here
  BY <1>1, <1>2, <1>3
<1>6. /\ k \in 0 .. n /\ here \in 0 .. all /\ all \in 0 .. RING
      /\ k < n => here < all
  BY <1>1, <1>2
<1>7. QED
  BY <1>4, <1>5, <1>6 DEF Empty, n, k, all, here

\* Until the ring comes round the handler takes the next frame, and nothing else.
LEMMA DrainFrameInv == RxInv /\ DrainFrame => RxInv'
<1> SUFFICES ASSUME RxInv, DrainFrame PROVE RxInv'
  OBVIOUS
<1> DEFINE f == ring[current_rx_offset]
<1>1. /\ UNCHANGED <<pc, status, isr, ring, wr, size, start, late>>
      /\ current_rx_offset \in Offset /\ f # 0 /\ ~ Empty /\ pc = "drain"
      /\ delivered' = Append(delivered, f)
      /\ current_rx_offset' = current_rx_offset + size[f]
      /\ rd' = current_rx_offset' % RING
  BY RtlAssumption DEF RxInv, RxType, DrainFrame, Offset
<1>2. f \in 1 .. Len(size) /\ size[f] \in Nat /\ Len(delivered) \in Nat
  <2>1. f \in 1 .. Len(size) /\ size \in Seq(Sizes) /\ Len(delivered) \in Nat
    BY <1>1 DEF RxInv, RxType
  <2> HIDE DEF f
  <2>2. size[f] \in Sizes
    BY <2>1
  <2>3. size[f] \in Nat
    BY <2>2, FrameSizes, Zenon
  <2>4. QED
    BY <2>1, <2>3
<1> HIDE DEF f
<1>3. /\ delivered' \in Seq(Nat)
      /\ Len(delivered') = Len(delivered) + 1
      /\ \A i \in 1 .. Len(delivered) : delivered'[i] = delivered[i]
      /\ delivered'[Len(delivered) + 1] = f
  <2>1. f \in Nat /\ delivered \in Seq(Nat)
    BY <1>2 DEF RxInv, RxType
  <2>2. QED
    BY <1>1, <2>1
<1>4. RxType'
  <2>1. rd' \in Offset /\ current_rx_offset' \in Nat
    <3>1. current_rx_offset + size[f] \in Nat
      BY <1>2 DEF RxInv, RxType
    <3>2. QED
      BY <1>1, <3>1, RtlAssumption DEF Offset
  <2>2. QED
    BY <1>1, <1>3, <2>1 DEF RxInv, RxType
<1>5. StartInv' /\ Announced' /\ FirstLap' = FirstLap
  BY <1>1 DEF RxInv, StartInv, Announced, FirstLap
<1>6. ASSUME FirstLap PROVE LapInv'
  <2> DEFINE k == Len(delivered)
  <2>1. k \in 0 .. Len(size) - 1 /\ current_rx_offset = start[k + 1]
    BY <1>1, <1>6, EmptyMeansDone DEF RxInv, LapInv
  <2>2. f = k + 1
    BY <1>6, <2>1 DEF RxInv, LapInv, f
  <2>3. current_rx_offset' = start[(k + 1) + 1]
    BY <1>1, <1>2, <2>1, <2>2 DEF RxInv, StartInv
  <2>4. start[(k + 1) + 1] > start[k + 1] /\ start[k + 1] \in Nat /\ start[k + 2] \in Nat
    BY SMTT(30), <2>1 DEF RxInv, RxType, StartInv
  <2>5. \A i \in 1 .. Len(delivered') : delivered'[i] = i
    BY <1>2, <1>3, <1>6, <2>2 DEF RxInv, LapInv
  <2>6. Len(delivered') <= Len(size')
    BY <1>1, <1>3, <2>1
  <2>7. QED
    BY SMTT(30), <1>1, <1>3, <1>6, <2>1, <2>3, <2>4, <2>5, <2>6 DEF RxInv, LapInv, FirstLap
<1>7. LapInv'
  BY <1>5, <1>6 DEF LapInv
<1>8. QED
  BY <1>4, <1>5, <1>7 DEF RxInv

\* On the first lap the handler never meets an offset without a header, and never
\* resets the ring; later neither spoils the types.
LEMMA DrainOutOfStepInv == RxInv /\ (DrainGarbage \/ DrainReset) => RxInv'
<1> SUFFICES ASSUME RxInv, DrainGarbage \/ DrainReset PROVE RxInv'
  OBVIOUS
<1>1. /\ UNCHANGED <<status, isr, ring, wr, size, start, delivered, late>>
      /\ pc' \in {"drain", "ack"}
      /\ current_rx_offset' \in 0 .. RING
      /\ rd' = 0 \/ rd' = current_rx_offset' % RING
      /\ pc = "drain" /\ ~ Empty
  BY RtlAssumption DEF DrainGarbage, DrainReset, rxhistory
<1>2. ~ FirstLap
  <2>1. SUFFICES ASSUME FirstLap PROVE FALSE
    OBVIOUS
  <2>2. /\ Len(delivered) \in 0 .. Len(size) - 1
        /\ start[Len(delivered) + 1] < start[Len(start)]
        /\ start[Len(delivered) + 1] \in Nat /\ start[Len(start)] \in Nat
        /\ current_rx_offset = start[Len(delivered) + 1]
    BY <1>1, <2>1, EmptyMeansDone DEF RxInv, LapInv
  <2>3. current_rx_offset < RING
    BY <2>1, <2>2, RtlAssumption DEF FirstLap
  <2>4. ring[current_rx_offset] = Len(delivered) + 1
    BY <2>1, <2>2 DEF RxInv, LapInv
  <2>5. QED
    BY <2>2, <2>3, <2>4, RtlAssumption DEF DrainGarbage, DrainReset
<1>3. RxType'
  <2>1. rd' \in Offset /\ current_rx_offset' \in Nat
    BY <1>1, RtlAssumption DEF Offset
  <2>2. QED
    BY <1>1, <2>1 DEF RxInv, RxType
<1>4. StartInv' /\ ~ FirstLap'
  BY <1>1, <1>2 DEF RxInv, StartInv, FirstLap
<1>5. QED
  BY <1>1, <1>3, <1>4 DEF RxInv, LapInv, Announced

\* A frame the card has room for leaves those before it in their places.
LEMMA CardReceivesInv ==
    ASSUME RxInv, NEW n \in Sizes, CardReceives(n)
    PROVE  RxInv'
<1> DEFINE L == Len(size)
           all == start[L + 1]
<1>1. /\ UNCHANGED <<pc, status, current_rx_offset, rd, delivered>>
      /\ Empty \/ n < (rd - wr) % RING
      /\ ring' = Stored(L + 1, n)
      /\ size' = Append(size, n)
      /\ start' = Append(start, all + n)
      /\ wr' = (wr + n) % RING
      /\ isr' = isr \cup {"ROK"}
      /\ late' = IF pc = "ack" /\ "ROK" \in status THEN late \cup {L + 1} ELSE late
  BY DEF CardReceives
<1>2. /\ RING \in Nat \ {0} /\ n \in 1 .. RING - 1 /\ wr \in 0 .. RING - 1
      /\ L \in Nat /\ Len(start) = L + 1 /\ all \in Nat /\ start \in Seq(Nat)
      /\ Len(delivered) \in Nat
  BY RtlAssumption DEF RxInv, RxType, StartInv, Offset
<1>3. /\ size' \in Seq(Sizes) /\ Len(size') = L + 1
      /\ \A f \in 1 .. L : size'[f] = size[f]
      /\ size'[L + 1] = n
  BY <1>1 DEF RxInv, RxType
<1>4. /\ start' \in Seq(Nat) /\ Len(start') = L + 2
      /\ \A f \in 1 .. L + 1 : start'[f] = start[f]
      /\ start'[L + 2] = all + n
  <2>1. all + n \in Nat
    BY <1>2
  <2> HIDE DEF L, all
  <2>2. QED
    BY <1>1, <1>2, <2>1
<1>5. \A o \in Offset : ring'[o] = IF o = wr THEN L + 1
                                  ELSE IF (o - wr) % RING < n THEN 0 ELSE ring[o]
  BY <1>1 DEF Stored
<1>6. RxType'
  <2>1. ring' \in [Offset -> 0 .. L + 1]
    <3>1. ring \in [Offset -> 0 .. L]
      BY DEF RxInv, RxType
    <3>2. QED
      BY <1>1, <1>2, <3>1 DEF Stored
  <2>2. wr' \in Offset
    <3>1. wr + n \in Nat
      BY <1>2
    <3>2. QED
      BY <1>1, <1>2, <3>1 DEF Offset
  <2>3. isr' \in SUBSET Bits
    BY <1>1 DEF RxInv, RxType, Bits
  <2>4. QED
    BY <1>1, <1>3, <1>4, <2>1, <2>2, <2>3 DEF RxInv, RxType
<1>7. StartInv'
  <2>1. start'[1] = 0
    BY <1>2, <1>4 DEF RxInv, StartInv
  <2>2. ASSUME NEW f \in 1 .. L + 1 PROVE start'[f + 1] = start'[f] + size'[f]
    <3>1. CASE f = L + 1
      <4>1. f + 1 = L + 2 /\ start'[L + 1] = all
        BY SMTT(30), <1>2, <1>4, <3>1
      <4> HIDE DEF L, all
      <4>2. QED
        BY <1>3, <1>4, <3>1, <4>1
    <3>2. CASE f # L + 1
      <4>1. f \in 1 .. L /\ f + 1 \in 1 .. L + 1
        BY <1>2, <3>2
      <4>2. start[f + 1] = start[f] + size[f]
        BY <4>1 DEF RxInv, StartInv
      <4>3. QED
        BY <1>3, <1>4, <4>1, <4>2
    <3>3. QED
      BY <3>1, <3>2
  <2>3. ASSUME NEW f \in 1 .. L + 2, NEW g \in 1 .. L + 2, f < g
        PROVE  start'[f] < start'[g]
    <3>1. f \in 1 .. L + 1 /\ start[f] \in Nat
      BY <1>2, <2>3
    <3>2. start[f] <= all
      BY <1>2, <3>1 DEF RxInv, StartInv
    <3>3. CASE g = L + 2
      BY <1>2, <1>4, <3>1, <3>2, <3>3
    <3>4. CASE g # L + 2
      <4>1. g \in 1 .. L + 1
        BY <1>2, <3>4
      <4>2. start[f] < start[g]
        BY <1>2, <2>3, <3>1, <4>1 DEF RxInv, StartInv
      <4>3. QED
        BY <1>4, <3>1, <4>1, <4>2
    <3>5. QED
      BY <3>3, <3>4
  <2>4. QED
    BY <1>2, <1>3, <1>4, <2>1, <2>2, <2>3 DEF StartInv
<1>8. ASSUME FirstLap'
      PROVE  FirstLap /\ wr = all /\ all + n <= RING /\ all < RING
  <2>1. all + n <= RING
    BY <1>2, <1>4, <1>8 DEF FirstLap
  <2>2. all \in 0 .. RING /\ all # RING /\ FirstLap
    BY <1>2, <2>1 DEF FirstLap
  <2>3. wr = all % RING
    BY <1>2, <2>2 DEF RxInv, LapInv
  <2>4. all % RING = all
    <3>1. all \in 0 - RING .. RING /\ ~ (all < 0)
      BY <1>2, <2>2
    <3>2. QED
      BY <2>2, <3>1, OnFirstLap
  <2>5. all < RING
    BY <1>2, <2>2
  <2>6. QED
    BY <2>1, <2>2, <2>3, <2>4, <2>5
<1>9. ASSUME FirstLap' PROVE LapInv'
  <2> DEFINE k == Len(delivered)
  <2>1. /\ FirstLap /\ wr = all /\ all + n <= RING /\ all < RING
        /\ RxType /\ StartInv /\ LapInv
    BY <1>8, <1>9 DEF RxInv
  <2>2. /\ k \in 0 .. L /\ start[k + 1] \in 0 .. all
        /\ Empty <=> k = L
        /\ k < L => start[k + 1] < all /\ rd = start[k + 1]
    BY <1>2, <2>1, EmptyMeansDone
  <2>3. wr' = start'[Len(start')] % RING
    BY <1>1, <1>4, <2>1
  <2>4. ASSUME NEW f \in 1 .. L + 1 PROVE ring'[start'[f]] = f
    <3>1. CASE f = L + 1
      BY <1>2, <1>4, <1>5, <2>1, <3>1 DEF Offset
    <3>2. CASE f # L + 1
      <4>1. f \in 1 .. L /\ f \in 1 .. L + 1 /\ L + 1 \in 1 .. L + 1 /\ f < L + 1
        BY <1>2, <3>2
      <4>2. start[f] < all /\ start[f] \in Nat
        BY SMTT(30), <1>2, <2>1, <4>1 DEF StartInv
      <4>3. (start[f] - all) % RING = start[f] - all + RING
        <5>1. start[f] - all \in 0 - RING .. RING /\ start[f] - all < 0
          BY SMTT(30), <1>2, <2>1, <4>2
        <5>2. QED
          BY <5>1, OnFirstLap
      <4>4. ring[start[f]] = f
        BY <2>1, <4>1 DEF LapInv
      <4>5. start[f] \in Offset /\ start[f] # wr /\ ~ ((start[f] - wr) % RING < n)
        <5> HIDE DEF all, L
        <5>1. start[f] - all + RING >= n
          BY <1>2, <2>1, <4>2
        <5>2. QED
          BY SMTT(30), <1>2, <2>1, <4>2, <4>3, <5>1 DEF Offset
      <4>6. QED
        BY <1>4, <1>5, <4>1, <4>4, <4>5
    <3>3. QED
      BY <3>1, <3>2
  <2>5. start'[k + 1] = start[k + 1]
    BY SMTT(30), <1>2, <1>4, <2>2
  <2>6. all + n = RING => start[k + 1] > 0
    <3>1. SUFFICES ASSUME all + n = RING, start[k + 1] = 0 PROVE FALSE
      BY <2>2
    <3>2. all > 0
      BY <1>2, <3>1
    <3>3. k < L /\ rd = 0 /\ ~ Empty
      BY <1>2, <2>2, <3>1, <3>2
    <3> HIDE DEF all, L, k
    <3>4. (0 - all) % RING = 0 - all + RING
      <4>1. 0 - all \in 0 - RING .. RING /\ 0 - all < 0
        BY <1>2, <2>1, <3>2
      <4>2. QED
        BY <4>1, OnFirstLap
    <3>5. n < (0 - all) % RING
      BY <1>1, <2>1, <3>3
    <3>6. QED
      BY <1>2, <3>1, <3>4, <3>5
  <2>7. /\ Len(delivered') = k /\ k <= L + 1
        /\ current_rx_offset' = start'[k + 1] /\ rd' = current_rx_offset' % RING
        /\ \A i \in 1 .. k : delivered'[i] = i
    <3>1. /\ current_rx_offset = start[k + 1] /\ rd = current_rx_offset % RING
          /\ \A i \in 1 .. k : delivered[i] = i
      BY <2>1 DEF LapInv
    <3>2. k <= L + 1
      BY <1>2, <2>2
    <3> HIDE DEF L
    <3>3. QED
      BY <1>1, <2>5, <3>1, <3>2
  <2>8. start'[Len(start')] = all + n
    BY <1>4
  <2> HIDE DEF all, L, k
  <2>9. QED
    BY <1>3, <2>3, <2>4, <2>5, <2>6, <2>7, <2>8 DEF LapInv
<1>10. LapInv'
  BY <1>9 DEF LapInv
<1>11. Announced'
  <2>1. CASE pc = "ack" /\ "ROK" \in status
    <3>1. ASSUME FirstLap', NEW f \in Len(delivered) + 1 .. L + 1 PROVE f \in late'
      <4>1. FirstLap
        BY <1>8, <3>1
      <4>2. f # L + 1 => f \in late
        BY <1>2, <2>1, <4>1 DEF RxInv, Announced
      <4>3. QED
        BY <1>1, <2>1, <4>2
    <3>2. QED
      BY <1>1, <1>3, <2>1, <3>1 DEF Announced
  <2>2. CASE ~ (pc = "ack" /\ "ROK" \in status)
    BY <1>1, <2>2 DEF RxInv, RxType, Announced
  <2>3. QED
    BY <2>1, <2>2
<1>12. QED
  BY <1>6, <1>7, <1>10, <1>11 DEF RxInv

\* The rest of the handler moves neither pointer.
LEMMA HandlerInv == RxInv /\ (IrqEnter \/ DrainEnd \/ IrqAck) => RxInv'
<1> SUFFICES ASSUME RxInv, IrqEnter \/ DrainEnd \/ IrqAck PROVE RxInv'
  OBVIOUS
<1>1. UNCHANGED <<current_rx_offset, ring, wr, rd, size, start, delivered, late>>
  BY DEF IrqEnter, DrainEnd, IrqAck, rxhistory
<1>2. RxType'
  BY <1>1 DEF RxInv, RxType, IrqEnter, DrainEnd, IrqAck
<1>3. StartInv' /\ LapInv' /\ FirstLap' = FirstLap
  BY <1>1 DEF RxInv, StartInv, LapInv, FirstLap
<1>4. Announced'
  <2>1. CASE IrqEnter
    BY <1>1, <1>3, <2>1 DEF RxInv, Announced, IrqEnter
  <2>2. CASE IrqAck
    BY <1>1, <1>3, <2>2 DEF RxInv, Announced, IrqAck
  <2>3. CASE DrainEnd
    <3>1. FirstLap => Len(delivered) = Len(size)
      BY <2>3, EmptyMeansDone DEF RxInv, DrainEnd
    <3>2. FirstLap => \A f \in Len(delivered) + 1 .. Len(size) : f \in late
      BY <3>1 DEF RxInv, RxType
    <3>3. QED
      BY <1>1, <1>3, <2>3, <3>2 DEF RxInv, Announced, DrainEnd
  <2>4. QED
    BY <2>1, <2>2, <2>3
<1>5. QED
  BY <1>2, <1>3, <1>4 DEF RxInv

\* Every step of the driver and of the card preserves the invariant.
LEMMA NextRxInv == RxInv /\ [Next]_vars => RxInv'
<1> SUFFICES ASSUME RxInv, [Next]_vars PROVE RxInv'
  OBVIOUS
<1>1. ASSUME UNCHANGED rxvars PROVE RxInv'
  BY <1>1 DEF rxvars, rxhistory, RxInv, RxType, StartInv, LapInv, Announced, FirstLap
<1>2. CASE rtl8139_send
  BY <1>1, <1>2 DEF rtl8139_send
<1>3. CASE CardSends
  <2>1. /\ UNCHANGED <<pc, status, current_rx_offset, ring, wr, rd, size, start,
                       delivered, late>>
        /\ isr' = isr \cup {"TOK"}
    BY <1>3 DEF CardSends, rxhistory
  <2>2. RxType'
    BY <2>1 DEF RxInv, RxType, Bits
  <2>3. StartInv' /\ LapInv' /\ Announced'
    BY <2>1 DEF RxInv, StartInv, LapInv, FirstLap, Announced
  <2>4. QED
    BY <2>2, <2>3 DEF RxInv
<1>4. CASE UNCHANGED vars
  BY <1>1, <1>4 DEF vars
<1>5. QED
  BY <1>2, <1>3, <1>4, HandlerInv, DrainFrameInv, DrainOutOfStepInv, CardReceivesInv
     DEF Next

\* The invariant holds in every state.
LEMMA AlwaysRxInv == Spec => []RxInv
<1>1. Init => RxInv
  <2> SUFFICES ASSUME Init PROVE RxInv
    OBVIOUS
  <2>1. RxType
    BY RtlAssumption DEF Init, RxType, Offset, Bits
  <2>2. /\ Len(size) = 0 /\ Len(delivered) = 0 /\ Len(start) = 1 /\ start[1] = 0
        /\ wr = 0 /\ rd = 0 /\ current_rx_offset = 0 /\ pc = "idle"
    BY DEF Init
  <2>3. StartInv
    BY <2>2 DEF StartInv
  <2>4. 0 % RING = 0
    BY RtlAssumption
  <2>5. LapInv
    BY <2>2, <2>4 DEF LapInv
  <2>6. Announced
    BY <2>2 DEF Announced
  <2>7. QED
    BY <2>1, <2>3, <2>5, <2>6 DEF RxInv
<1>2. QED
  BY <1>1, NextRxInv, PTL DEF Spec

\* On the first lap of a ring of any size the frames are handed on whole, once and
\* in order, however the card, the handler and the senders interleave.
THEOREM InOrder == Spec => []DeliveredInOrder
<1>1. RxInv => DeliveredInOrder
  <2> SUFFICES ASSUME RxInv, FirstLap
               PROVE  delivered = [i \in 1 .. Len(delivered) |-> i]
    BY DEF DeliveredInOrder
  <2>1. \A i \in 1 .. Len(delivered) : delivered[i] = i
    BY DEF RxInv, LapInv
  <2>2. delivered = [i \in 1 .. Len(delivered) |-> delivered[i]]
    BY DEF RxInv, RxType
  <2>3. QED
    BY <2>1, <2>2
<1>2. QED
  BY <1>1, AlwaysRxInv, PTL

\* On the first lap a frame is left without an interrupt to come only if it arrived
\* between the handler's last look at the ring and its acknowledgement.
THEOREM StrandedOnlyInWindow == Spec => []StrandedOnlyByAck
<1>1. RxInv => StrandedOnlyByAck
  BY DEF RxInv, Announced, StrandedOnlyByAck
<1>2. QED
  BY <1>1, AlwaysRxInv, PTL

-----------------------------------------------------------------------------
(***************************************************************************)
(* The enumeration of the PCI buses.                                       *)
(***************************************************************************)

Place == Nat \X (0 .. DEVICES) \X (0 .. FUNCTIONS - 1)

\* The function at q is where the loop over a bus is, or comes later.
Ahead(p, q) == q[1] = p[1] /\ (p[2] < q[2] \/ (p[2] = q[2] /\ p[3] <= q[3]))

\* The buses that a loop has been started for.
Entered == FirstBuses(machine) \cup {machine[p].secondary : p \in Found \cap Bridges}

\* The loop over the functions of a device runs when function 0 says there are more.
Inner(p) == p[3] # 0 => Multi(machine, p[1], p[2]) /\ Present(machine, <<p[1], p[2], 0>>)

PciShape ==
    /\ machine \in Machines
    /\ scan \in Seq(Place) /\ pci_devices \in Seq(DOMAIN machine)
    /\ \A i \in 1 .. Len(scan) : scan[i][1] \in Entered /\ Inner(scan[i])

\* Loops are started for buses that can be reached, and functions on these are found
\* or ahead of a loop.
AllAhead ==
    /\ Entered \subseteq Buses /\ Found \subseteq Reachable
    /\ Len(pci_devices) < MAX_PCI_DEVICES =>
          \A p \in DOMAIN machine : p[1] \in Entered =>
              p \in Found \/ \E i \in 1 .. Len(scan) : Ahead(scan[i], p)

\* In a tree no two loops are on one bus, and no function that is found is ahead of one.
NoneAgain ==
    Tree => /\ \A i, j \in 1 .. Len(pci_devices) : pci_devices[i] = pci_devices[j] => i = j
            /\ \A i, j \in 1 .. Len(scan) : scan[i][1] = scan[j][1] => i = j
            /\ \A p \in Found : p[1] \in Entered /\ \A i \in 1 .. Len(scan) : ~ Ahead(scan[i], p)

PciInv == PciShape /\ AllAhead /\ NoneAgain

\* What PCI says of a machine.
LEMMA MachineFacts ==
    ASSUME machine \in Machines
    PROVE  /\ <<0, 0, 0>> \in DOMAIN machine
           /\ \A p \in DOMAIN machine :
                 /\ p \in Place /\ p[2] < DEVICES /\ p = <<p[1], p[2], p[3]>>
                 /\ p[1] \in Nat /\ p[2] \in Nat /\ p[3] \in Nat
                 /\ <<p[1], p[2], 0>> \in DOMAIN machine
           /\ \A p \in Bridges : machine[p].secondary \in Nat
<1>1. /\ DEVICES \in Nat /\ <<0, 0, 0>> \in DOMAIN machine
      /\ \A p \in DOMAIN machine :
            /\ p \in Nat \X (0 .. DEVICES - 1) \X (0 .. FUNCTIONS - 1)
            /\ <<p[1], p[2], 0>> \in DOMAIN machine
            /\ machine[p].kind = "bridge" => machine[p].secondary \in Nat
  BY PciAssumption
<1>2. ASSUME NEW p \in DOMAIN machine
      PROVE  /\ p \in Place /\ p[2] < DEVICES /\ p = <<p[1], p[2], p[3]>>
             /\ p[1] \in Nat /\ p[2] \in Nat /\ p[3] \in Nat
  <2>1. p \in Nat \X (0 .. DEVICES - 1) \X (0 .. FUNCTIONS - 1)
    BY <1>1
  <2>2. QED
    BY <1>1, <2>1 DEF Place
<1>3. QED
  BY <1>1, <1>2 DEF Bridges

LEMMA FirstFacts ==
    ASSUME machine \in Machines
    PROVE  /\ FirstBuses(machine) \subseteq Nat
           /\ IsFiniteSet(FirstBuses(machine)) /\ Cardinality(FirstBuses(machine)) \in Nat
           /\ Tree => FirstBuses(machine) \subseteq {0}
<1>1. FirstBuses(machine) \subseteq 0 .. FUNCTIONS - 1
  BY DEF FirstBuses
<1>2. IsFiniteSet(0 .. FUNCTIONS - 1)
  BY PciAssumption, FS_Interval
<1>3. IsFiniteSet(FirstBuses(machine)) /\ Cardinality(FirstBuses(machine)) \in Nat
  BY <1>1, <1>2, FS_Subset, FS_CardinalityType
<1>4. Tree => FirstBuses(machine) \subseteq {0}
  BY DEF FirstBuses, Tree
<1>5. QED
  BY <1>1, <1>3, <1>4

\* What is behind a bridge on a bus that can be reached can be reached.
LEMMA BusesClosed ==
    /\ FirstBuses(machine) \subseteq Buses
    /\ \A p \in Bridges : p[1] \in Buses => machine[p].secondary \in Buses
    /\ \A B \in SUBSET Numbers :
          /\ FirstBuses(machine) \subseteq B
          /\ \A p \in Bridges : p[1] \in B => machine[p].secondary \in B
          => Buses \subseteq B
<1>1. FirstBuses(machine) \subseteq Buses
  BY DEF Buses, Numbers
<1>2. ASSUME NEW p \in Bridges, p[1] \in Buses PROVE machine[p].secondary \in Buses
  <2>1. machine[p].secondary \in Numbers
    BY DEF Numbers
  <2>2. ASSUME NEW B \in SUBSET Numbers, FirstBuses(machine) \subseteq B,
               \A q \in Bridges : q[1] \in B => machine[q].secondary \in B
        PROVE  machine[p].secondary \in B
    BY <1>2, <2>2 DEF Buses
  <2>3. QED
    BY <2>1, <2>2 DEF Buses
<1>3. QED
  BY <1>1, <1>2 DEF Buses

\* The loops come from a place to the next function that is there.
LEMMA AfterFacts ==
    ASSUME machine \in Machines, NEW p \in Place, p[2] < DEVICES, Inner(p)
    PROVE  /\ After(p) \in Place /\ After(p)[1] = p[1] /\ Inner(After(p))
           /\ \A q \in DOMAIN machine : Ahead(p, q) => q = p \/ Ahead(After(p), q)
           /\ \A q \in Place : Ahead(After(p), q) => Ahead(p, q) /\ q # p
<1>1. PICK b, d, f : b = p[1] /\ d = p[2] /\ f = p[3]
  OBVIOUS
<1>2. p = <<b, d, f>> /\ b \in Nat /\ d \in 0 .. DEVICES - 1 /\ f \in 0 .. FUNCTIONS - 1
  BY <1>1, PciAssumption DEF Place
<1>3. DEVICES \in Nat /\ FUNCTIONS \in Nat \ {0}
  BY PciAssumption
<1>4. CASE Multi(machine, b, d) /\ Present(machine, <<b, d, 0>>) /\ f < FUNCTIONS - 1
  <2>1. After(p) = <<b, d, f + 1>>
    BY <1>1, <1>4 DEF After
  <2>2. After(p) \in Place /\ After(p)[1] = b /\ Inner(After(p))
    BY <1>2, <1>3, <1>4, <2>1 DEF Place, Inner
  <2>3. ASSUME NEW q \in Place, Ahead(p, q) PROVE q = p \/ Ahead(After(p), q)
    <3>1. q = <<q[1], q[2], q[3]>> /\ q[2] \in Nat /\ q[3] \in Nat
      BY <1>3 DEF Place
    <3>2. QED
      BY <1>1, <1>2, <2>1, <2>3, <3>1 DEF Ahead
  <2>4. ASSUME NEW q \in Place, Ahead(After(p), q) PROVE Ahead(p, q) /\ q # p
    <3>1. q[2] \in Nat /\ q[3] \in Nat
      BY <1>3 DEF Place
    <3>2. QED
      BY <1>1, <1>2, <2>1, <2>4, <3>1 DEF Ahead
  <2>5. QED
    BY <1>1, <2>2, <2>3, <2>4, MachineFacts
<1>5. CASE ~ (Multi(machine, b, d) /\ Present(machine, <<b, d, 0>>) /\ f < FUNCTIONS - 1)
  <2>1. After(p) = <<b, d + 1, 0>>
    BY <1>1, <1>5 DEF After
  <2>2. After(p) \in Place /\ After(p)[1] = b /\ Inner(After(p))
    BY <1>2, <1>3, <2>1 DEF Place, Inner
  <2>3. ASSUME NEW q \in DOMAIN machine, Ahead(p, q), q # p PROVE Ahead(After(p), q)
    <3>1. q = <<q[1], q[2], q[3]>> /\ q[2] \in Nat /\ q[3] \in 0 .. FUNCTIONS - 1
          /\ <<q[1], q[2], 0>> \in DOMAIN machine
      BY <1>3, MachineFacts DEF Place
    <3>2. q[1] = b
      BY <1>1, <2>3 DEF Ahead
    <3>3. ASSUME q[2] = d PROVE FALSE
      <4>1. f < q[3]
        BY <1>1, <1>2, <2>3, <3>1, <3>2, <3>3 DEF Ahead
      <4>2. Multi(machine, b, d) /\ Present(machine, <<b, d, 0>>)
        BY <1>2, <3>1, <3>2, <3>3, <4>1 DEF Multi, Present
      <4>3. QED
        BY <1>2, <1>3, <1>5, <3>1, <4>1, <4>2
    <3>4. d < q[2]
      BY <1>1, <1>2, <2>3, <3>1, <3>3 DEF Ahead
    <3>5. QED
      BY <1>2, <2>1, <3>1, <3>2, <3>4 DEF Ahead
  <2>4. ASSUME NEW q \in Place, Ahead(After(p), q) PROVE Ahead(p, q) /\ q # p
    <3>1. q[2] \in Nat /\ q[3] \in Nat
      BY <1>3 DEF Place
    <3>2. QED
      BY <1>1, <1>2, <2>1, <2>4, <3>1 DEF Ahead
  <2>5. QED
    BY <1>1, <2>2, <2>3, <2>4
<1>6. QED
  BY <1>4, <1>5

\* The innermost loop goes on, and another one may be started inside it.
LEMMA GoesOn ==
    ASSUME NEW S, NEW s \in Seq(S), s # << >>, NEW x \in S
    PROVE  LET r == <<x>> \o Tail(s)
           IN  /\ r \in Seq(S) /\ Len(r) = Len(s) /\ r[1] = x
               /\ \A i \in 2 .. Len(s) : r[i] = s[i]
OBVIOUS

LEMMA Nests ==
    ASSUME NEW S, NEW s \in Seq(S), NEW x \in S
    PROVE  LET r == <<x>> \o s
           IN  /\ r \in Seq(S) /\ Len(r) = Len(s) + 1 /\ r[1] = x
               /\ \A i \in 1 .. Len(s) : r[i + 1] = s[i]
OBVIOUS

LEMMA EnteredFacts ==
    ASSUME machine \in Machines
    PROVE  /\ Entered \subseteq Nat /\ FirstBuses(machine) \subseteq Entered
           /\ \A p \in Found \cap Bridges : machine[p].secondary \in Entered
           /\ Tree => /\ 0 \notin {machine[p].secondary : p \in Found \cap Bridges}
                      /\ \A p \in Bridges \ Found : machine[p].secondary \notin Entered
<1>1. Entered \subseteq Nat
  BY MachineFacts, FirstFacts DEF Entered
<1>2. Tree => /\ 0 \notin {machine[p].secondary : p \in Found \cap Bridges}
              /\ \A p \in Bridges \ Found : machine[p].secondary \notin Entered
  BY FirstFacts DEF Entered, Tree
<1>3. QED
  BY <1>1, <1>2 DEF Entered

LEMMA PciStarts ==
    ASSUME PciInit
    PROVE  PciInv
<1>1. machine \in Machines /\ pci_devices = << >>
  BY DEF PciInit
<1>2. PICK n : n = Cardinality(FirstBuses(machine))
  OBVIOUS
<1>3. PICK bus \in [1 .. n -> FirstBuses(machine)] :
          /\ \A i, j \in 1 .. n : i < j => bus[i] < bus[j]
          /\ scan = [i \in 1 .. n |-> <<bus[i], 0, 0>>]
  BY <1>2 DEF PciInit
<1>4. n \in Nat /\ FirstBuses(machine) \subseteq Nat
  BY <1>1, <1>2, FirstFacts
<1>5. ASSUME NEW i \in 1 .. n, NEW j \in 1 .. n, bus[i] = bus[j] PROVE i = j
  <2>1. bus[i] \in Nat /\ i \in Nat /\ j \in Nat
    BY <1>3, <1>4
  <2>2. ~ (i < j) /\ ~ (j < i)
    BY <1>3, <1>5, <2>1
  <2>3. QED
    BY <2>1, <2>2
<1>6. \A b \in FirstBuses(machine) : \E i \in 1 .. n : bus[i] = b
  <2>1. bus \in Injection(1 .. n, FirstBuses(machine))
    BY <1>3, <1>5 DEF Injection, IsInjective
  <2>2. Cardinality(1 .. n) = n
    BY <1>4, FS_Interval
  <2>3. bus \in Surjection(1 .. n, FirstBuses(machine))
    BY <1>1, <1>2, <2>1, <2>2, FirstFacts, FS_Injection
  <2>4. QED
    BY <2>3 DEF Surjection
<1>7. /\ Len(scan) = n /\ scan \in Seq(Place)
      /\ \A i \in 1 .. n : scan[i] = <<bus[i], 0, 0>>
  <2>1. \A i \in 1 .. n : <<bus[i], 0, 0>> \in Place
    BY <1>3, <1>4, PciAssumption DEF Place
  <2>2. QED
    BY <1>3, <1>4, <2>1
<1>8. Found = {} /\ Entered = FirstBuses(machine)
  BY <1>1 DEF Found, Entered
<1>9. PciShape
  <2>1. \A i \in 1 .. Len(scan) : scan[i][1] \in Entered /\ Inner(scan[i])
    BY <1>3, <1>7, <1>8 DEF Inner
  <2>2. pci_devices \in Seq(DOMAIN machine)
    BY <1>1
  <2>3. QED
    BY <1>1, <1>7, <2>1, <2>2 DEF PciShape
<1>10. AllAhead
  <2>1. ASSUME NEW p \in DOMAIN machine, p[1] \in Entered
        PROVE  \E i \in 1 .. Len(scan) : Ahead(scan[i], p)
    <3>1. PICK i \in 1 .. n : bus[i] = p[1]
      BY <1>6, <1>8, <2>1
    <3>2. p[2] \in Nat /\ p[3] \in Nat
      BY <1>1, MachineFacts
    <3>3. Ahead(scan[i], p)
      BY <1>7, <3>1, <3>2 DEF Ahead
    <3>4. QED
      BY <1>7, <3>3
  <2>2. QED
    BY <1>8, <2>1, BusesClosed DEF AllAhead
<1>11. NoneAgain
  BY <1>1, <1>5, <1>7, <1>8 DEF NoneAgain
<1>12. QED
  BY <1>9, <1>10, <1>11 DEF PciInv

LEMMA EndOfBusKeeps ==
    ASSUME PciInv, EndOfBus
    PROVE  PciInv'
<1>1. /\ PciShape /\ AllAhead /\ NoneAgain
      /\ scan # << >> /\ scan[1][2] >= DEVICES /\ scan' = Tail(scan)
      /\ machine' = machine /\ pci_devices' = pci_devices
  BY DEF PciInv, EndOfBus
<1>2. /\ Found' = Found /\ Entered' = Entered /\ Buses' = Buses /\ Reachable' = Reachable
      /\ Tree' <=> Tree
  BY <1>1 DEF Found, Entered, Bridges, Buses, Numbers, Reachable, Tree
<1>3. /\ scan' \in Seq(Place) /\ Len(scan') = Len(scan) - 1 /\ Len(scan) \in Nat \ {0}
      /\ \A i \in 1 .. Len(scan') : scan'[i] = scan[i + 1] /\ i + 1 \in 1 .. Len(scan)
  BY <1>1 DEF PciShape
<1>4. PciShape'
  BY <1>1, <1>2, <1>3 DEF PciShape, Inner
<1>5. AllAhead'
  <2>1. ASSUME NEW p \in DOMAIN machine, NEW i \in 1 .. Len(scan), Ahead(scan[i], p)
        PROVE  \E j \in 1 .. Len(scan') : Ahead(scan'[j], p)
    <3>1. i # 1
      <4> SUFFICES ASSUME i = 1 PROVE FALSE
        OBVIOUS
      <4>1. PICK x : x = scan[1]
        OBVIOUS
      <4>2. machine \in Machines /\ x \in Place /\ DEVICES \in Nat
        BY <1>1, <1>3, <4>1, PciAssumption DEF PciShape
      <4>3. x[2] \in Nat
        BY <4>2 DEF Place
      <4>4. p[2] \in Nat /\ p[2] < DEVICES
        BY <4>2, MachineFacts
      <4>5. x[2] >= DEVICES /\ Ahead(x, p)
        BY <1>1, <2>1, <4>1
      <4>6. QED
        BY <4>2, <4>3, <4>4, <4>5 DEF Ahead
    <3>2. i - 1 \in 1 .. Len(scan') /\ scan'[i - 1] = scan[i]
      BY <1>3, <3>1
    <3>3. QED
      BY <2>1, <3>2
  <2>2. QED
    BY <1>1, <1>2, <2>1 DEF AllAhead
<1>6. NoneAgain'
  <2>1. ASSUME Tree, NEW i \in 1 .. Len(scan'), NEW j \in 1 .. Len(scan'), scan'[i][1] = scan'[j][1]
        PROVE  i = j
    BY <1>1, <1>3, <2>1 DEF NoneAgain
  <2>2. QED
    BY <1>1, <1>2, <1>3, <2>1 DEF NoneAgain
<1>7. QED
  BY <1>4, <1>5, <1>6 DEF PciInv

LEMMA PassOverKeeps ==
    ASSUME PciInv, PassOver
    PROVE  PciInv'
<1>1. /\ PciShape /\ AllAhead /\ NoneAgain
      /\ scan # << >> /\ scan[1][2] < DEVICES
      /\ scan[1] \in DOMAIN machine => Len(pci_devices) >= MAX_PCI_DEVICES
      /\ scan' = <<After(scan[1])>> \o Tail(scan)
      /\ machine' = machine /\ pci_devices' = pci_devices
  BY DEF PciInv, PassOver, Present
<1>2. /\ Found' = Found /\ Entered' = Entered /\ Buses' = Buses /\ Reachable' = Reachable
      /\ Tree' <=> Tree
  BY <1>1 DEF Found, Entered, Bridges, Buses, Numbers, Reachable, Tree
<1>3. /\ scan \in Seq(Place) /\ Len(scan) \in Nat \ {0} /\ machine \in Machines
      /\ scan[1] \in Place /\ Inner(scan[1])
  BY <1>1 DEF PciShape
<1>4. PICK a : a = After(scan[1])
  OBVIOUS
<1>5. /\ a \in Place /\ a[1] = scan[1][1] /\ Inner(a)
      /\ \A q \in DOMAIN machine : Ahead(scan[1], q) => q = scan[1] \/ Ahead(a, q)
      /\ \A q \in Place : Ahead(a, q) => Ahead(scan[1], q) /\ q # scan[1]
  BY <1>1, <1>3, <1>4, AfterFacts
<1>6. /\ scan' \in Seq(Place) /\ Len(scan') = Len(scan) /\ scan'[1] = a
      /\ \A i \in 2 .. Len(scan) : scan'[i] = scan[i]
  BY <1>1, <1>3, <1>4, <1>5, GoesOn
<1>7. \A i \in 1 .. Len(scan) : scan'[i][1] = scan[i][1]
  BY <1>3, <1>5, <1>6
<1>8. PciShape'
  <2>1. \A i \in 1 .. Len(scan) : scan'[i][1] \in Entered /\ Inner(scan'[i])
    BY <1>1, <1>3, <1>5, <1>6, <1>7 DEF PciShape
  <2>2. QED
    BY <1>1, <1>2, <1>6, <2>1 DEF PciShape, Inner
<1>9. AllAhead'
  <2>1. ASSUME NEW p \in DOMAIN machine, Len(pci_devices) < MAX_PCI_DEVICES,
               NEW i \in 1 .. Len(scan), Ahead(scan[i], p)
        PROVE  Ahead(scan'[i], p)
    <3>1. Len(pci_devices) \in Nat /\ MAX_PCI_DEVICES \in Nat
      BY <1>1, PciAssumption DEF PciShape
    <3>2. p # scan[1]
      BY <1>1, <2>1, <3>1
    <3>3. QED
      BY <1>3, <1>5, <1>6, <2>1, <3>2
  <2>2. QED
    BY <1>1, <1>2, <1>6, <2>1 DEF AllAhead
<1>10. NoneAgain'
  <2>1. ASSUME NEW p \in Found, NEW i \in 1 .. Len(scan), ~ Ahead(scan[i], p)
        PROVE  ~ Ahead(scan'[i], p)
    <3>1. p \in Place
      <4>1. p \in DOMAIN machine
        BY <1>1 DEF Found, PciShape
      <4>2. QED
        BY <1>3, <4>1, MachineFacts
    <3>2. QED
      BY <1>3, <1>5, <1>6, <2>1, <3>1
  <2>2. QED
    BY <1>1, <1>2, <1>6, <1>7, <2>1 DEF NoneAgain
<1>11. QED
  BY <1>8, <1>9, <1>10 DEF PciInv

LEMMA CheckKeeps ==
    ASSUME PciInv, check_function
    PROVE  PciInv'
<1>0. PICK p, a, rest : p = scan[1] /\ a = After(scan[1]) /\ rest = <<After(scan[1])>> \o Tail(scan)
  OBVIOUS
<1>1. /\ PciShape /\ AllAhead /\ NoneAgain
      /\ scan # << >> /\ p[2] < DEVICES /\ p \in DOMAIN machine
      /\ Len(pci_devices) < MAX_PCI_DEVICES
      /\ pci_devices' = Append(pci_devices, p) /\ machine' = machine
      /\ scan' = IF p \in Bridges THEN <<<<machine[p].secondary, 0, 0>>>> \o rest ELSE rest
  BY <1>0 DEF PciInv, check_function, Present, Bridges
<1>2. /\ scan \in Seq(Place) /\ Len(scan) \in Nat \ {0} /\ machine \in Machines
      /\ p \in Place /\ p[1] \in Entered /\ Inner(p)
      /\ pci_devices \in Seq(DOMAIN machine) /\ Len(pci_devices) \in Nat
  BY <1>0, <1>1 DEF PciShape
<1>3. /\ Bridges' = Bridges /\ Buses' = Buses /\ Reachable' = Reachable /\ (Tree' <=> Tree)
  BY <1>1 DEF Bridges, Buses, Numbers, Reachable, Tree
<1>4. /\ pci_devices' \in Seq(DOMAIN machine) /\ Len(pci_devices') = Len(pci_devices) + 1
      /\ pci_devices'[Len(pci_devices) + 1] = p
      /\ \A i \in 1 .. Len(pci_devices) : pci_devices'[i] = pci_devices[i]
      /\ Found' = Found \cup {p}
  <2>1. /\ pci_devices' \in Seq(DOMAIN machine) /\ Len(pci_devices') = Len(pci_devices) + 1
        /\ pci_devices'[Len(pci_devices) + 1] = p
        /\ \A i \in 1 .. Len(pci_devices) : pci_devices'[i] = pci_devices[i]
    BY <1>1, <1>2
  <2>2. Found' = Found \cup {p}
    <3>1. 1 .. Len(pci_devices') = 1 .. Len(pci_devices) \cup {Len(pci_devices) + 1}
      BY <1>2, <2>1
    <3>2. QED
      BY <2>1, <3>1 DEF Found
  <2>3. QED
    BY <2>1, <2>2
<1>5. Entered' = Entered \cup {machine[q].secondary : q \in {p} \cap Bridges}
  BY <1>1, <1>3, <1>4 DEF Entered
<1>6. /\ a \in Place /\ a[1] = p[1] /\ Inner(a)
      /\ \A q \in DOMAIN machine : Ahead(p, q) => q = p \/ Ahead(a, q)
      /\ \A q \in Place : Ahead(a, q) => Ahead(p, q) /\ q # p
  BY <1>0, <1>1, <1>2, AfterFacts
<1>7. /\ rest \in Seq(Place) /\ Len(rest) = Len(scan) /\ rest[1] = a
      /\ \A i \in 2 .. Len(scan) : rest[i] = scan[i]
  BY <1>0, <1>1, <1>2, <1>6, GoesOn
<1>8. /\ \A i \in 1 .. Len(rest) : rest[i][1] \in Entered /\ Inner(rest[i]) /\ rest[i][1] = scan[i][1]
      /\ \A q \in DOMAIN machine : q[1] \in Entered =>
            q \in Found' \/ \E i \in 1 .. Len(rest) : Ahead(rest[i], q)
  <2>1. ASSUME NEW i \in 1 .. Len(rest)
        PROVE  rest[i][1] \in Entered /\ Inner(rest[i]) /\ rest[i][1] = scan[i][1]
    <3>1. CASE i = 1
      BY <1>0, <1>2, <1>6, <1>7, <3>1
    <3>2. CASE i # 1
      BY <1>1, <1>2, <1>7, <3>2 DEF PciShape
    <3>3. QED
      BY <3>1, <3>2
  <2>2. ASSUME NEW q \in DOMAIN machine, q[1] \in Entered, q \notin Found'
        PROVE  \E i \in 1 .. Len(rest) : Ahead(rest[i], q)
    <3>1. PICK i \in 1 .. Len(scan) : Ahead(scan[i], q)
      BY <1>1, <1>4, <2>2 DEF AllAhead
    <3>2. q # p
      BY <1>4, <2>2
    <3>3. Ahead(rest[i], q)
      BY <1>0, <1>2, <1>6, <1>7, <3>1, <3>2
    <3>4. QED
      BY <1>7, <3>3
  <2>3. QED
    BY <2>1, <2>2
<1>9. Tree => /\ \A i, j \in 1 .. Len(pci_devices') : pci_devices'[i] = pci_devices'[j] => i = j
              /\ \A i, j \in 1 .. Len(rest) : rest[i][1] = rest[j][1] => i = j
              /\ \A q \in Found' : q[1] \in Entered /\ \A i \in 1 .. Len(rest) : ~ Ahead(rest[i], q)
              /\ p \notin Found
  <2> SUFFICES ASSUME Tree
               PROVE  /\ \A i, j \in 1 .. Len(pci_devices') : pci_devices'[i] = pci_devices'[j] => i = j
                      /\ \A i, j \in 1 .. Len(rest) : rest[i][1] = rest[j][1] => i = j
                      /\ \A q \in Found' : q[1] \in Entered /\ \A i \in 1 .. Len(rest) : ~ Ahead(rest[i], q)
                      /\ p \notin Found
    OBVIOUS
  <2>1. /\ \A i, j \in 1 .. Len(pci_devices) : pci_devices[i] = pci_devices[j] => i = j
        /\ \A i, j \in 1 .. Len(scan) : scan[i][1] = scan[j][1] => i = j
        /\ \A q \in Found : q[1] \in Entered /\ \A i \in 1 .. Len(scan) : ~ Ahead(scan[i], q)
    BY <1>1 DEF NoneAgain
  <2>2. p \notin Found
    <3>1. p[2] \in Nat /\ p[3] \in Nat
      BY <1>1, <1>2, MachineFacts
    <3>2. Ahead(scan[1], p)
      BY <1>0, <3>1 DEF Ahead
    <3>3. QED
      BY <1>2, <2>1, <3>2
  <2>3. \A i \in 1 .. Len(pci_devices) : pci_devices[i] # p
    BY <2>2 DEF Found
  <2>4. ASSUME NEW i \in 1 .. Len(pci_devices'), NEW j \in 1 .. Len(pci_devices'),
               pci_devices'[i] = pci_devices'[j]
        PROVE  i = j
    BY <1>2, <1>4, <2>1, <2>3, <2>4
  <2>5. \A i, j \in 1 .. Len(rest) : rest[i][1] = rest[j][1] => i = j
    BY <1>7, <1>8, <2>1
  <2>6. ASSUME NEW q \in Found', NEW i \in 1 .. Len(rest)
        PROVE  q[1] \in Entered /\ ~ Ahead(rest[i], q)
    <3>1. q \in Place
      <4>1. q \in DOMAIN machine
        BY <1>1, <1>2, <1>4 DEF Found
      <4>2. QED
        BY <1>2, <4>1, MachineFacts
    <3>2. q[1] \in Entered
      BY <1>2, <1>4, <2>1
    <3>3. CASE i = 1
      <4>1. q = p \/ ~ Ahead(p, q)
        BY <1>0, <1>2, <1>4, <2>1
      <4>2. QED
        BY <1>6, <1>7, <3>1, <3>2, <3>3, <4>1
    <3>4. CASE i # 1
      <4>1. rest[i] = scan[i] /\ i \in 1 .. Len(scan)
        BY <1>2, <1>7, <3>4
      <4>2. CASE q = p
        <5>1. scan[i][1] # p[1]
          BY <1>0, <1>2, <2>1, <3>4, <4>1
        <5>2. QED
          BY <3>2, <4>1, <4>2, <5>1 DEF Ahead
      <4>3. CASE q # p
        BY <1>4, <2>1, <3>2, <4>1, <4>3
      <4>4. QED
        BY <4>2, <4>3
    <3>5. QED
      BY <3>3, <3>4
  <2>7. QED
    BY <2>2, <2>4, <2>5, <2>6, <1>2, <1>7
<1>10. Entered \subseteq Buses /\ Found' \subseteq Reachable
  BY <1>1, <1>2, <1>4 DEF AllAhead, Reachable
<1>11. CASE p \notin Bridges
  <2>1. scan' = rest /\ Entered' = Entered
    BY <1>1, <1>5, <1>11
  <2>2. PciShape'
    BY <1>1, <1>2, <1>4, <1>7, <1>8, <2>1 DEF PciShape, Inner
  <2>3. AllAhead'
    BY <1>1, <1>3, <1>8, <1>10, <2>1 DEF AllAhead
  <2>4. NoneAgain'
    BY <1>3, <1>9, <2>1 DEF NoneAgain
  <2>5. QED
    BY <2>2, <2>3, <2>4 DEF PciInv
<1>12. CASE p \in Bridges
  <2>1. PICK b, c : b = machine[p].secondary /\ c = <<machine[p].secondary, 0, 0>>
    OBVIOUS
  <2>2. /\ b \in Nat /\ c = <<b, 0, 0>> /\ c[1] = b /\ c[2] = 0 /\ c[3] = 0
        /\ c \in Place /\ Inner(c)
    BY <1>2, <1>12, <2>1, MachineFacts, PciAssumption DEF Place, Inner
  <2>3. scan' = <<c>> \o rest /\ Entered' = Entered \cup {b}
    BY <1>1, <1>5, <1>12, <2>1
  <2>4. /\ scan' \in Seq(Place) /\ Len(scan') = Len(rest) + 1 /\ scan'[1] = c
        /\ \A i \in 1 .. Len(rest) : scan'[i + 1] = rest[i]
    BY <1>7, <2>2, <2>3, Nests
  <2>5. ASSUME NEW i \in 1 .. Len(scan'), i # 1
        PROVE  i - 1 \in 1 .. Len(rest) /\ scan'[i] = rest[i - 1]
    <3>1. i - 1 \in 1 .. Len(rest) /\ (i - 1) + 1 = i
      BY <1>2, <1>7, <2>4, <2>5
    <3>2. QED
      BY <2>4, <3>1
  <2>6. PciShape'
    <3>1. ASSUME NEW i \in 1 .. Len(scan')
          PROVE  scan'[i][1] \in Entered' /\ Inner(scan'[i])
      <4>1. CASE i = 1
        BY <2>2, <2>3, <2>4, <4>1
      <4>2. CASE i # 1
        BY <1>8, <2>3, <2>5, <4>2
      <4>3. QED
        BY <4>1, <4>2
    <3>2. QED
      BY <1>1, <1>2, <1>4, <2>4, <3>1 DEF PciShape, Inner
  <2>7. AllAhead'
    <3>1. Entered' \subseteq Buses
      BY <1>2, <1>10, <1>12, <2>1, <2>3, BusesClosed
    <3>2. ASSUME NEW q \in DOMAIN machine, q[1] \in Entered', q \notin Found'
          PROVE  \E i \in 1 .. Len(scan') : Ahead(scan'[i], q)
      <4>1. CASE q[1] = b
        <5>1. q[2] \in Nat /\ q[3] \in Nat
          BY <1>2, MachineFacts
        <5>2. Ahead(scan'[1], q)
          BY <2>2, <2>4, <4>1, <5>1 DEF Ahead
        <5>3. 1 \in 1 .. Len(scan')
          BY <1>2, <1>7, <2>4
        <5>4. QED
          BY <5>2, <5>3
      <4>2. CASE q[1] \in Entered
        <5>1. PICK i \in 1 .. Len(rest) : Ahead(rest[i], q)
          BY <1>8, <3>2, <4>2
        <5>2. i + 1 \in 1 .. Len(scan') /\ scan'[i + 1] = rest[i]
          BY <1>2, <1>7, <2>4
        <5>3. QED
          BY <5>1, <5>2
      <4>3. QED
        BY <2>3, <3>2, <4>1, <4>2
    <3>3. QED
      BY <1>1, <1>3, <1>10, <3>1, <3>2 DEF AllAhead
  <2>8. NoneAgain'
    <3> SUFFICES ASSUME Tree
                 PROVE  /\ \A i, j \in 1 .. Len(scan') : scan'[i][1] = scan'[j][1] => i = j
                        /\ \A q \in Found' : /\ q[1] \in Entered'
                                             /\ \A i \in 1 .. Len(scan') : ~ Ahead(scan'[i], q)
      BY <1>3, <1>9 DEF NoneAgain
    <3>1. b \notin Entered
      BY <1>2, <1>9, <1>12, <2>1, EnteredFacts
    <3>2. \A i \in 1 .. Len(scan') : i # 1 => scan'[i][1] # b
      BY <1>8, <2>5, <3>1
    <3>3. ASSUME NEW i \in 1 .. Len(scan'), NEW j \in 1 .. Len(scan'), scan'[i][1] = scan'[j][1]
          PROVE  i = j
      <4>1. CASE i = 1 \/ j = 1
        BY <2>2, <2>4, <3>2, <3>3, <4>1
      <4>2. CASE i # 1 /\ j # 1
        <5>1. /\ i - 1 \in 1 .. Len(rest) /\ j - 1 \in 1 .. Len(rest)
              /\ rest[i - 1][1] = rest[j - 1][1]
          BY <2>5, <3>3, <4>2
        <5>2. i - 1 = j - 1
          BY <1>9, <5>1
        <5>3. QED
          BY <2>4, <5>2, <1>2, <1>7
      <4>3. QED
        BY <4>1, <4>2
    <3>4. ASSUME NEW q \in Found'
          PROVE  q[1] \in Entered' /\ \A i \in 1 .. Len(scan') : ~ Ahead(scan'[i], q)
      <4>1. q[1] \in Entered /\ \A i \in 1 .. Len(rest) : ~ Ahead(rest[i], q)
        BY <1>9, <3>4
      <4>2. ASSUME NEW i \in 1 .. Len(scan') PROVE ~ Ahead(scan'[i], q)
        <5>1. CASE i = 1
          BY <2>2, <2>4, <3>1, <4>1, <5>1 DEF Ahead
        <5>2. CASE i # 1
          BY <2>5, <4>1, <5>2
        <5>3. QED
          BY <5>1, <5>2
      <4>3. QED
        BY <2>3, <4>1, <4>2
    <3>5. QED
      BY <3>3, <3>4
  <2>9. QED
    BY <2>6, <2>7, <2>8 DEF PciInv
<1>13. QED
  BY <1>11, <1>12

LEMMA PciStep ==
    ASSUME PciInv, [NcNext]_ncVars
    PROVE  PciInv'
<1>1. CASE EndOfBus
  BY <1>1, EndOfBusKeeps
<1>2. CASE PassOver
  BY <1>2, PassOverKeeps
<1>3. CASE check_function
  BY <1>3, CheckKeeps
<1>4. CASE UNCHANGED pciVars
  <2>1. machine' = machine /\ scan' = scan /\ pci_devices' = pci_devices
    BY <1>4 DEF pciVars
  <2>2. Found' = Found /\ Entered' = Entered /\ Buses' = Buses /\ Reachable' = Reachable
        /\ (Tree' <=> Tree)
    BY <2>1 DEF Found, Entered, Bridges, Buses, Numbers, Reachable, Tree
  <2>3. PciShape' /\ AllAhead' /\ NoneAgain'
    BY <2>1, <2>2 DEF PciInv, PciShape, AllAhead, NoneAgain, Inner
  <2>4. QED
    BY <2>3 DEF PciInv
<1>5. Enumerate => pci_enumerate
  BY DEF Enumerate
<1>6. pci_register_drivers \/ Running \/ UNCHANGED ncVars => UNCHANGED pciVars
  BY DEF pci_register_drivers, Running, ncVars
<1>7. QED
  BY <1>1, <1>2, <1>3, <1>4, <1>5, <1>6 DEF NcNext, pci_enumerate

LEMMA PciShown ==
    ASSUME PciInv
    PROVE  FoundOnce
<1> SUFFICES ASSUME scan = << >>
             PROVE  /\ Found \subseteq Reachable
                    /\ Len(pci_devices) < MAX_PCI_DEVICES => Found = Reachable
                    /\ Tree => Cardinality(Found) = Len(pci_devices)
  BY DEF FoundOnce
<1>1. PciShape /\ AllAhead /\ NoneAgain /\ machine \in Machines
  BY DEF PciInv, PciShape
<1>2. Found \subseteq Reachable
  BY <1>1 DEF AllAhead
<1>3. ASSUME Len(pci_devices) < MAX_PCI_DEVICES PROVE Reachable \subseteq Found
  <2>1. \A p \in DOMAIN machine : p[1] \in Entered => p \in Found
    BY <1>1, <1>3 DEF AllAhead
  <2>2. \A p \in Bridges : p[1] \in Entered => machine[p].secondary \in Entered
    BY <2>1 DEF Bridges, Entered
  <2>3. FirstBuses(machine) \subseteq Entered /\ Entered \in SUBSET Numbers
    BY DEF Entered, Numbers
  <2>4. Buses \subseteq Entered
    BY <2>2, <2>3, BusesClosed
  <2>5. QED
    BY <2>1, <2>4 DEF Reachable
<1>4. ASSUME Tree PROVE Cardinality(Found) = Len(pci_devices)
  <2>1. PICK n : n = Len(pci_devices)
    OBVIOUS
  <2>2. n \in Nat /\ pci_devices \in [1 .. n -> DOMAIN machine]
    BY <1>1, <2>1 DEF PciShape
  <2>3. \A i, j \in 1 .. n : pci_devices[i] = pci_devices[j] => i = j
    BY <1>1, <1>4, <2>1 DEF NoneAgain
  <2>4. /\ pci_devices \in Surjection(1 .. n, Found)
        /\ pci_devices \in Injection(1 .. n, Found)
    BY <2>1, <2>2, <2>3 DEF Found, Surjection, Injection, IsInjective
  <2>5. IsFiniteSet(1 .. n) /\ Cardinality(1 .. n) = n
    BY <2>2, FS_Interval
  <2>6. QED
    BY <2>1, <2>4, <2>5, FS_Surjection
<1>5. QED
  BY <1>2, <1>3, <1>4

\* pci_enumerate puts every function that can be reached, and none else, into the table
\* unless that fills up, and in a tree of buses none twice.
THEOREM FunctionsFoundOnce == NcSpec => []FoundOnce
<1>1. NcInit => PciInv
  BY PciStarts DEF NcInit
<1>2. PciInv /\ [NcNext]_ncVars => PciInv'
  BY PciStep
<1>3. PciInv => FoundOnce
  BY PciShown
<1>4. QED
  BY <1>1, <1>2, <1>3, PTL DEF NcSpec

\* Whatever machine is enumerated, and whether or not a card is found on it, the driver
\* and the card do what they do by themselves: what is proved of them holds after
\* pci_enumerate and pci_register_drivers.
THEOREM CardAfterEnumeration ==
    NcSpec => Spec /\ [](DeliveredInOrder /\ StrandedOnlyByAck /\ FrameLostOnlyToFourth)
<1>1. NcInit => Init
  BY DEF NcInit
<1>2. [NcNext]_ncVars => [Next]_vars
  BY DEF NcNext, ncVars, Enumerate, pci_register_drivers, Irq, Next
<1>3. NcSpec => Spec
  BY <1>1, <1>2, PTL DEF NcSpec, Spec
<1>4. QED
  BY <1>3, InOrder, StrandedOnlyInWindow, LostOnlyToOverwriting, PTL
=============================================================================
