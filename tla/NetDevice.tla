----------------------------- MODULE NetDevice ------------------------------
(***************************************************************************)
(* The network stack of kernel/src/net.rs on top of the driver: users on   *)
(* different cores bind UDP ports, poll them, send packets and give the    *)
(* ports up.  Whoever polls takes the next frame off the card, whatever    *)
(* port it is for, and keeps it for the port's user.  Every step between   *)
(* two waits for a lock, or between two accesses that the card can see, is *)
(* an action.                                                              *)
(***************************************************************************)
EXTENDS IntelGbit

CONSTANTS Users, Ports, Nobody, NotUdp,
          Senders,      \* bound: users that send
          MaxFrames,    \* bound: frames that arrive
          MaxSends,     \* bound: packets that are sent
          MaxTraffic    \* bound: both together

ASSUME NetDeviceAssumption == NotUdp \notin Ports /\ Nobody \notin Users \cup Ports

VARIABLES udp_binds,    \* packets queued for each bound port
          binds_lock, driver_lock,
          pc, bind,     \* where each user is, and the port it has
          hand,         \* the packet a user holds
          queued,       \* what unbind_udp took out of udp_binds
          got,          \* history: who saw a frame last, and which
          arrived, composed

user_vars == <<udp_binds, binds_lock, driver_lock, pc, bind, hand, queued, got,
               arrived, composed>>
vars == <<gbit_vars, user_vars>>

Init ==
    /\ NewDriver /\ NewCard
    /\ udp_binds = << >>
    /\ binds_lock = Nobody /\ driver_lock = Nobody
    /\ pc = [u \in Users |-> "idle"]
    /\ bind = [u \in Users |-> Nobody]
    /\ hand = [u \in Users |-> NoBuffer]
    /\ queued = [u \in Users |-> << >>]
    /\ got = << >>
    /\ arrived = 0 /\ composed = 0

\* Bound: one more frame or packet.
MoreTraffic == arrived + composed < MaxTraffic

Goto(u, from, to) == pc[u] = from /\ pc' = [pc EXCEPT ![u] = to]

-----------------------------------------------------------------------------
(* bind_udp and unbind_udp.                                                *)

\* Nothing happens when the port has a user.
bind_udp(u, p) ==
    /\ pc[u] = "idle" /\ bind[u] = Nobody
    /\ binds_lock = Nobody
    /\ p \notin DOMAIN udp_binds
    /\ udp_binds' = [q \in DOMAIN udp_binds \cup {p} |-> IF q = p THEN << >> ELSE udp_binds[q]]
    /\ bind' = [bind EXCEPT ![u] = p]
    /\ UNCHANGED <<gbit_vars, binds_lock, driver_lock, pc, hand, queued, got, arrived, composed>>

unbind_udp(u) ==
    /\ Goto(u, "idle", "release")
    /\ bind[u] # Nobody
    /\ binds_lock = Nobody
    /\ queued' = [queued EXCEPT ![u] = udp_binds[bind[u]]]
    /\ udp_binds' = [q \in DOMAIN udp_binds \ {bind[u]} |-> udp_binds[q]]
    /\ bind' = [bind EXCEPT ![u] = Nobody]
    /\ UNCHANGED <<gbit_vars, binds_lock, driver_lock, hand, got, arrived, composed>>

UnbindRelease(u) ==
    /\ Goto(u, "release", "idle")
    /\ driver_lock = Nobody
    /\ Release(queued[u])
    /\ queued' = [queued EXCEPT ![u] = << >>]
    /\ UNCHANGED <<rx_descriptors, rx_buffers, rx_head, tx_descriptors, tx_head, card_vars,
                   sent, udp_binds, binds_lock, driver_lock, bind, hand, got,
                   arrived, composed>>

-----------------------------------------------------------------------------
(* recv_udp.                                                               *)

\* UDPBind::recv.
Poll(u) ==
    /\ Goto(u, "idle", "poll")
    /\ bind[u] # Nobody
    /\ UNCHANGED <<gbit_vars, udp_binds, binds_lock, driver_lock, bind, hand, queued, got,
                   arrived, composed>>

recv_udp(u) ==
    /\ Goto(u, "poll", "recv")
    /\ binds_lock = Nobody
    /\ binds_lock' = u
    /\ UNCHANGED <<gbit_vars, udp_binds, driver_lock, bind, hand, queued, got,
                   arrived, composed>>

\* A plausible slip: frames that others queued are looked at only when the card
\* has none.
QueueSecond(u) == udp_binds[bind[u]] # << >> /\ ~ present

HasQueued(u) == udp_binds[bind[u]] # << >>

\* A packet another user queued for this port.
RecvQueued(u) ==
    /\ Goto(u, "recv", "idle")
    /\ driver_lock = Nobody
    /\ HasQueued(u)
    /\ LET packet == Head(udp_binds[bind[u]]) IN
       /\ got' = <<u, ram[packet]>>
       /\ udp_binds' = [udp_binds EXCEPT ![bind[u]] = Tail(@)]
       /\ Release(<<packet>>)
    /\ binds_lock' = Nobody
    /\ UNCHANGED <<rx_descriptors, rx_buffers, rx_head, tx_descriptors, tx_head, card_vars,
                   sent, driver_lock, bind, hand, queued, arrived, composed>>

\* A plausible slip: recv waits for a frame, with the map locked.
RecvWaits(u) ==
    /\ Goto(u, "recv", "recv")
    /\ driver_lock = Nobody
    /\ ~ HasQueued(u) /\ ~ present
    /\ UNCHANGED <<gbit_vars, udp_binds, binds_lock, driver_lock, bind, hand, queued, got,
                   arrived, composed>>

RecvNone(u) ==
    /\ Goto(u, "recv", "idle")
    /\ driver_lock = Nobody
    /\ ~ HasQueued(u) /\ ~ present
    /\ binds_lock' = Nobody
    /\ UNCHANGED <<gbit_vars, udp_binds, driver_lock, bind, hand, queued, got,
                   arrived, composed>>

RecvFrame(u) ==
    /\ Goto(u, "recv", "refill")
    /\ driver_lock = Nobody
    /\ ~ HasQueued(u) /\ present
    /\ driver_lock' = u
    /\ UNCHANGED <<gbit_vars, udp_binds, binds_lock, bind, hand, queued, got,
                   arrived, composed>>

RecvRefill(u) ==
    /\ Goto(u, "refill", "rx_tail")
    /\ hand' = [hand EXCEPT ![u] = rx_buffers[rx_head]]
    /\ \E b \in Buffers : recv_refill(b)
    /\ UNCHANGED <<udp_binds, binds_lock, driver_lock, bind, queued, got, arrived, composed>>

RecvTail(u) ==
    /\ Goto(u, "rx_tail", "demux")
    /\ recv_tail
    /\ UNCHANGED <<udp_binds, binds_lock, driver_lock, bind, hand, queued, got,
                   arrived, composed>>

\* Packet::udp: the port of a packet that is valid UDP, and NotUdp for all that
\* is not.
udp(b) == ram[b].port

\* A plausible slip: the packet is dropped with its lease.
DropTaken(b) == Release(<<b>>)

\* A lease that was taken has no packet left to give back.
LeaseTaken(b) == UNCHANGED <<packets, heap, ram>>

\* The frame is for this user, for another user or for nobody; the lease gives
\* the packet back unless it was taken.
Demux(u) ==
    LET port == udp(hand[u]) IN
    /\ Goto(u, "demux", "idle")
    /\ \/ /\ port = bind[u]
          /\ got' = <<u, ram[hand[u]]>>
          /\ Release(<<hand[u]>>)
          /\ UNCHANGED udp_binds
       \/ /\ port \in DOMAIN udp_binds \ {bind[u]}
          /\ udp_binds' = [udp_binds EXCEPT ![port] = Append(@, hand[u])]
          /\ LeaseTaken(hand[u])
          /\ UNCHANGED got
       \/ /\ port \notin DOMAIN udp_binds
          /\ Release(<<hand[u]>>)
          /\ UNCHANGED <<udp_binds, got>>
    /\ hand' = [hand EXCEPT ![u] = NoBuffer]
    /\ binds_lock' = Nobody /\ driver_lock' = Nobody
    /\ UNCHANGED <<rx_descriptors, rx_buffers, rx_head, tx_descriptors, tx_head, card_vars,
                   sent, bind, queued, arrived, composed>>

-----------------------------------------------------------------------------
(* allocate_packet, filling it in, and send.                               *)

Allocate(u) ==
    /\ Goto(u, "idle", "compose")
    /\ driver_lock = Nobody
    /\ u \in Senders /\ composed < MaxSends /\ MoreTraffic
    /\ composed' = composed + 1
    /\ \E b \in Buffers : allocate_packet(b) /\ hand' = [hand EXCEPT ![u] = b]
    /\ UNCHANGED <<rx_descriptors, rx_buffers, rx_head, tx_descriptors, tx_head, card_vars,
                   ram, sent, udp_binds, binds_lock, driver_lock, bind, queued, got, arrived>>

\* create_udp_raw and the payload, outside of any lock.
create_udp_raw(u) ==
    /\ Goto(u, "compose", "send")
    /\ ram' = [ram EXCEPT ![hand[u]] = [from |-> u, n |-> composed]]
    /\ UNCHANGED <<driver_vars, card_vars, heap, sent, udp_binds, binds_lock, driver_lock,
                   bind, hand, queued, got, arrived, composed>>

send(u) ==
    /\ Goto(u, "send", "tx_tail")
    /\ driver_lock = Nobody
    /\ driver_lock' = u
    /\ send_descriptor(hand[u])
    /\ UNCHANGED <<udp_binds, binds_lock, bind, hand, queued, got, arrived, composed>>

SendTail(u) ==
    /\ Goto(u, "tx_tail", "tx_wait")
    /\ send_tail
    /\ UNCHANGED <<udp_binds, binds_lock, driver_lock, bind, hand, queued, got,
                   arrived, composed>>

SendDone(u) ==
    /\ Goto(u, "tx_wait", "idle")
    /\ send_done(hand[u])
    /\ hand' = [hand EXCEPT ![u] = NoBuffer]
    /\ driver_lock' = Nobody
    /\ UNCHANGED <<udp_binds, binds_lock, bind, queued, got, arrived, composed>>

-----------------------------------------------------------------------------
FrameArrives(p) ==
    /\ arrived < MaxFrames /\ MoreTraffic
    /\ arrived' = arrived + 1
    /\ CardReceives([port |-> p, n |-> arrived])
    /\ UNCHANGED <<udp_binds, binds_lock, driver_lock, pc, bind, hand, queued, got, composed>>

Card == CardTransmits /\ UNCHANGED user_vars

\* What a user does once it has entered an operation.
Continue(u) ==
    \/ UnbindRelease(u)
    \/ recv_udp(u) \/ RecvQueued(u) \/ RecvNone(u) \/ RecvFrame(u)
    \/ RecvRefill(u) \/ RecvTail(u) \/ Demux(u)
    \/ create_udp_raw(u) \/ send(u) \/ SendTail(u) \/ SendDone(u)

Next ==
    \/ \E p \in Ports \cup {NotUdp} : FrameArrives(p)
    \/ Card
    \/ \E u \in Users :
        \/ \E p \in Ports : bind_udp(u, p)
        \/ unbind_udp(u) \/ Poll(u) \/ Allocate(u)
        \/ Continue(u)

Spec == Init /\ [][Next]_vars

\* The card sends what it is told to; the ticket locks let every core in.
FairSpec == Spec /\ WF_vars(Card) /\ \A u \in Users : SF_vars(Continue(u))

-----------------------------------------------------------------------------
(* Properties.                                                             *)

\* Who has packet b: the heap, the list of spare packets, a receive slot, the
\* queue of a port, a queue that unbind_udp took, or a user.
Claims(b) ==
    {<<"heap">> : x \in heap \cap {b}}
    \cup {<<"spare", i>> : i \in {j \in DOMAIN packets : packets[j] = b}}
    \cup {<<"slot", i>> : i \in {j \in RxSlots : rx_buffers[j] = b}}
    \cup (UNION {{<<"bind", p, i>> : i \in {j \in DOMAIN udp_binds[p] : udp_binds[p][j] = b}} :
                    p \in DOMAIN udp_binds})
    \cup (UNION {{<<"queued", u, i>> : i \in {j \in DOMAIN queued[u] : queued[u][j] = b}} :
                    u \in Users})
    \cup {<<"hand", u>> : u \in {v \in Users : hand[v] = b}}

\* Every packet has exactly one owner at any time: the owned values of the
\* source are never doubled and never leaked, whatever the order of releases,
\* takes and swaps.
OneOwner == \A b \in Buffers : \E c \in Claims(b) : Claims(b) = {c}

\* The card writes only to buffers of receive slots, never to one that a user,
\* a queue or an allocator has, and reads only the packet of the user that waits
\* for it to be sent.
DmaStaysInItsBuffers ==
    /\ CardWrites \subseteq ToSet(rx_buffers)
    /\ \A b \in CardReads : \E u \in Users :
            driver_lock = u /\ pc[u] = "tx_wait" /\ hand[u] = b

\* When send returns its packet has gone out, with what its user put into it, and
\* no packet goes out twice.
SendsOnce ==
    [][/\ \A i, j \in DOMAIN sent' : i # j => sent'[i] # sent'[j]
       /\ \A u \in Users : pc[u] = "tx_wait" /\ pc'[u] = "idle"
            => /\ sent # << >>
               /\ Last(sent) = ram[hand[u]]
               /\ Last(sent).from = u]_vars

\* Frames that no user has looked at: the one being received, then those in the
\* ring.
Unseen ==
    LET receiving == {u \in Users : pc[u] \in {"rx_tail", "demux"}}
        start == IF \E u \in Users : pc[u] = "rx_tail"
                 THEN (rx_head + 1) % NUM_RX_DESCS ELSE rx_head
        ring == [k \in 1 .. (rdh - start) % NUM_RX_DESCS |->
                    ram[rx_descriptors[(start + k - 1) % NUM_RX_DESCS].buffer]] IN
    IF receiving = {} THEN ring
    ELSE <<ram[hand[CHOOSE u \in receiving : TRUE]]>> \o ring

Queued(p) == IF p \in DOMAIN udp_binds
             THEN [i \in DOMAIN udp_binds[p] |-> ram[udp_binds[p][i]]] ELSE << >>

Owner(p) == IF \E u \in Users : bind[u] = p
            THEN CHOOSE u \in Users : bind[u] = p ELSE Nobody

Promise == INSTANCE UdpPorts WITH
    owner <- [p \in Ports |-> Owner(p)],
    chan <- [p \in Ports |-> Queued(p) \o SelectSeq(Unseen, LAMBDA f : f.port = p)]

\* The rings, the queues and the hand-over between users implement one queue per
\* port: frames come in order and once, although any user may take any frame off
\* the card.
ImplementsUdpPorts == Promise!Spec

\* No operation waits for ever for a lock or for the card.
OperationsReturn == \A u \in Users : pc[u] # "idle" ~> pc[u] = "idle"

=============================================================================
