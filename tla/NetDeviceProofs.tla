-------------------------- MODULE NetDeviceProofs ---------------------------
(***************************************************************************)
(* Proofs about NetDevice, for rings of any size, any number of buffers    *)
(* and users and any amount of traffic.  Wherever the card is in its       *)
(* rings, it writes only to buffers of receive slots, and reads only the   *)
(* packet of the user that waits for it.  Every packet has one owner.  A   *)
(* send returns after its packet has gone out, once.                       *)
(***************************************************************************)
EXTENDS NetDevice, TLAPS

\* Counting one more message.
LEMMA OneMore ==
    ASSUME NEW n \in Nat
    PROVE  n + 1 \in Nat /\ \A k \in Nat : k <= n => k <= n + 1 /\ k < n + 1
OBVIOUS

\* No message is older than itself.
LEMMA NotBelowItself == \A k \in Nat : ~(k < k)
OBVIOUS

\* Where a user has the driver to itself.
InDriver == {"refill", "rx_tail", "demux", "tx_tail", "tx_wait"}

NetTypeOK ==
    /\ rx_head \in RxSlots /\ rdh \in RxSlots /\ rdt \in RxSlots
    /\ tx_head \in TxSlots /\ tdh \in TxSlots /\ tdt \in TxSlots
    /\ DOMAIN rx_buffers = RxSlots
    /\ DOMAIN rx_descriptors = RxSlots /\ DOMAIN tx_descriptors = TxSlots
    /\ \A i \in RxSlots : DOMAIN rx_descriptors[i] = {"buffer", "done"}
    /\ DOMAIN pc = Users /\ DOMAIN hand = Users

\* The card and the driver agree on the buffer of every receive slot.
SlotsAgree == \A i \in RxSlots : rx_descriptors[i].buffer = rx_buffers[i]

DriverLocked == \A u \in Users : pc[u] \in InDriver => driver_lock = u

\* The card has taken all there was to send.
TxIdle == (\A u \in Users : pc[u] # "tx_wait") => tdh = tx_head /\ tdt = tx_head

\* The packet is in the slot that the card looks at next.
TxReady(u) == tx_descriptors[tx_head].buffer = hand[u] /\ ~ Transmitted

\* The card has the slot, or is done with it.
TxPending(u) == tdt = TxTail /\ ((tdh = tx_head /\ TxReady(u)) \/ tdh = TxTail)

TxInOrder == \A u \in Users : /\ pc[u] = "tx_tail" => TxReady(u)
                              /\ pc[u] = "tx_wait" => TxPending(u)

\* The inductive invariant.
NetInv == NetTypeOK /\ SlotsAgree /\ DriverLocked /\ TxIdle /\ TxInOrder

-----------------------------------------------------------------------------
(* The rings.                                                              *)

\* A remainder is a slot of the ring.
LEMMA ModRange ==
    ASSUME NEW n \in Nat \ {0, 1}, NEW x \in Int
    PROVE  x % n \in 0 .. n - 1
OBVIOUS

\* A slot is its own remainder.
LEMMA ModSmall ==
    ASSUME NEW n \in Nat \ {0, 1}, NEW x \in 0 .. n - 1
    PROVE  x % n = x
OBVIOUS

\* Around the end of the ring.
LEMMA ModAround ==
    ASSUME NEW n \in Nat \ {0, 1}
    PROVE  n % n = 0 /\ (1 - n) % n = 1
OBVIOUS

\* The next slot is one step away, across the end of the ring too.
LEMMA NextIsOneAway ==
    ASSUME NEW n \in Nat \ {0, 1}, NEW a \in 0 .. n - 1
    PROVE  /\ (a + 1) % n \in 0 .. n - 1
           /\ (a + 1) % n # a
           /\ (((a + 1) % n) - a) % n = 1
<1>1. CASE a + 1 = n
      BY <1>1, ModAround
<1>2. CASE a + 1 < n
      BY <1>2, ModSmall
<1> QED BY <1>1, <1>2

\* The slots between two slots are slots.
LEMMA SlotsRange ==
    ASSUME NEW n \in Nat \ {0, 1}, NEW a \in 0 .. n - 1, NEW b \in 0 .. n - 1
    PROVE  Slots(a, b, n) \subseteq 0 .. n - 1
BY ModRange DEF Slots

\* Between a slot and itself there is none.
LEMMA NoSlots ==
    ASSUME NEW n \in Nat \ {0, 1}, NEW a \in 0 .. n - 1
    PROVE  Slots(a, a, n) = {}
<1>1. (a - a) % n = 0
      BY ModSmall
<1> QED BY <1>1 DEF Slots

\* Between a slot and the next there is that slot, across the end as well.
LEMMA OneSlot ==
    ASSUME NEW n \in Nat \ {0, 1}, NEW a \in 0 .. n - 1
    PROVE  Slots(a, (a + 1) % n, n) = {a}
<1>1. (((a + 1) % n) - a) % n = 1
      BY NextIsOneAway
<1>2. (a + 0) % n = a
      BY ModSmall
<1>3. 0 .. 1 - 1 = {0}
      OBVIOUS
<1> QED BY <1>1, <1>2, <1>3 DEF Slots

-----------------------------------------------------------------------------
(* The invariant.                                                          *)

\* The device starts in the invariant.
LEMMA InitKeeps == Init => NetInv
<1> SUFFICES ASSUME Init PROVE NetInv
    OBVIOUS
<1> USE IntelGbitAssumption, NetDeviceAssumption
    DEF Init, NewDriver, NewCard, RxSlots, TxSlots
<1>1. NetTypeOK
      BY DEF NetTypeOK
<1>2. SlotsAgree
      BY DEF SlotsAgree
<1>3. DriverLocked /\ TxIdle /\ TxInOrder
      BY DEF DriverLocked, InDriver, TxIdle, TxInOrder
<1> QED BY <1>1, <1>2, <1>3 DEF NetInv

\* What a step outside of the driver leaves alone.
Rings == <<rx_descriptors, rx_buffers, rx_head, tx_descriptors, tx_head, card_vars>>

\* A step of one user that touches neither the rings nor the registers, and in
\* which the user is not about to send or sending, before or after.
LEMMA OutsideKeeps ==
    ASSUME NetInv, NEW u \in Users, NEW label, UNCHANGED Rings,
           pc[u] \notin {"tx_tail", "tx_wait"}, label \notin {"tx_tail", "tx_wait"},
           pc' = [pc EXCEPT ![u] = label],
           DOMAIN hand' = Users, \A v \in Users \ {u} : hand'[v] = hand[v],
           DriverLocked'
    PROVE  NetInv'
<1> USE DEF Rings, card_vars
<1>1. NetTypeOK'
      BY DEF NetInv, NetTypeOK
<1>2. SlotsAgree'
      BY DEF NetInv, SlotsAgree
<1>3. TxIdle'
      BY DEF NetInv, NetTypeOK, TxIdle
<1>4. TxInOrder'
      BY DEF NetInv, NetTypeOK, TxInOrder, TxReady, TxPending, TxTail, Transmitted
<1> QED BY <1>1, <1>2, <1>3, <1>4 DEF NetInv

\* A step that leaves rings, users and lock alone keeps it.
LEMMA SameKeeps ==
    ASSUME NetInv, UNCHANGED <<Rings, pc, hand, driver_lock>>
    PROVE  NetInv'
BY DEF Rings, card_vars, NetInv, NetTypeOK, SlotsAgree, DriverLocked, TxIdle, TxInOrder,
       TxReady, TxPending, TxTail, Transmitted

\* The operations on the map of ports, and all of recv_udp but its two steps in
\* the driver.
LEMMA PortStepsKeep ==
    ASSUME NetInv, NEW u \in Users,
           \/ \E p \in Ports : bind_udp(u, p)
           \/ unbind_udp(u) \/ UnbindRelease(u) \/ Poll(u) \/ recv_udp(u) \/ RecvQueued(u)
           \/ RecvNone(u) \/ RecvFrame(u) \/ Demux(u)
    PROVE  NetInv'
<1> USE NetDeviceAssumption DEF Goto, Rings
<1>1. CASE \E p \in Ports : bind_udp(u, p)
      BY <1>1, SameKeeps DEF bind_udp, gbit_vars, driver_vars
<1>2. CASE unbind_udp(u)
  <2>1. DriverLocked'
        BY <1>2 DEF NetInv, NetTypeOK, DriverLocked, InDriver, unbind_udp
  <2> QED BY <1>2, <2>1, OutsideKeeps, Zenon DEF unbind_udp, gbit_vars, driver_vars, NetInv, NetTypeOK
<1>3. CASE UnbindRelease(u)
  <2>1. DriverLocked'
        BY <1>3 DEF NetInv, NetTypeOK, DriverLocked, InDriver, UnbindRelease
  <2> QED BY <1>3, <2>1, OutsideKeeps, Zenon DEF UnbindRelease, NetInv, NetTypeOK
<1>4. CASE Poll(u)
  <2>1. DriverLocked'
        BY <1>4 DEF NetInv, NetTypeOK, DriverLocked, InDriver, Poll
  <2> QED BY <1>4, <2>1, OutsideKeeps, Zenon DEF Poll, gbit_vars, driver_vars, NetInv, NetTypeOK
<1>5. CASE recv_udp(u)
  <2>1. DriverLocked'
        BY <1>5 DEF NetInv, NetTypeOK, DriverLocked, InDriver, recv_udp
  <2> QED BY <1>5, <2>1, OutsideKeeps, Zenon DEF recv_udp, gbit_vars, driver_vars, NetInv, NetTypeOK
<1>6. CASE RecvQueued(u)
  <2>1. DriverLocked'
        BY <1>6 DEF NetInv, NetTypeOK, DriverLocked, InDriver, RecvQueued
  <2> QED BY <1>6, <2>1, OutsideKeeps, Zenon DEF RecvQueued, NetInv, NetTypeOK
<1>7. CASE RecvNone(u)
  <2>1. DriverLocked'
        BY <1>7 DEF NetInv, NetTypeOK, DriverLocked, InDriver, RecvNone
  <2> QED BY <1>7, <2>1, OutsideKeeps, Zenon DEF RecvNone, gbit_vars, driver_vars, NetInv, NetTypeOK
<1>8. CASE RecvFrame(u)
  <2>1. DriverLocked'
        BY <1>8 DEF NetInv, NetTypeOK, DriverLocked, InDriver, RecvFrame
  <2> QED BY <1>8, <2>1, OutsideKeeps, Zenon DEF RecvFrame, gbit_vars, driver_vars, NetInv, NetTypeOK
<1>9. CASE Demux(u)
  <2>1. DriverLocked'
        BY <1>9 DEF NetInv, NetTypeOK, DriverLocked, InDriver, Demux
  <2>2. /\ DOMAIN hand' = Users
        /\ \A v \in Users \ {u} : hand'[v] = hand[v]
        BY <1>9 DEF NetInv, NetTypeOK, Demux
  <2> QED BY <1>9, <2>1, <2>2, OutsideKeeps, Zenon DEF Demux, NetInv, NetTypeOK
<1> QED BY <1>1, <1>2, <1>3, <1>4, <1>5, <1>6, <1>7, <1>8, <1>9

\* The new packet goes into the descriptor and into the list of buffers.
LEMMA RecvRefillKeeps ==
    ASSUME NetInv, NEW u \in Users, RecvRefill(u)
    PROVE  NetInv'
<1> USE DEF RecvRefill, recv_refill, Goto, card_vars
<1>0. PICK b \in Buffers : recv_refill(b)
      BY Zenon
<1>1. NetTypeOK'
      BY <1>0 DEF NetInv, NetTypeOK, Refilled
<1>2. SlotsAgree'
      BY <1>0 DEF NetInv, NetTypeOK, SlotsAgree, Refilled
<1>3. DriverLocked'
      BY <1>0 DEF NetInv, NetTypeOK, DriverLocked, InDriver
<1>4. TxIdle'
      BY <1>0 DEF NetInv, NetTypeOK, TxIdle
<1>5. TxInOrder'
      BY <1>0 DEF NetInv, NetTypeOK, TxInOrder, TxReady, TxPending, TxTail, Transmitted
<1> QED BY <1>1, <1>2, <1>3, <1>4, <1>5 DEF NetInv

\* Giving a receive slot back to the card keeps it.
LEMMA RecvTailKeeps ==
    ASSUME NetInv, NEW u \in Users, RecvTail(u)
    PROVE  NetInv'
<1> USE DEF RecvTail, recv_tail, Goto
<1>1. NetTypeOK'
  <2>1. rx_head' \in RxSlots
        BY IntelGbitAssumption, ModRange DEF NetInv, NetTypeOK, RxSlots
  <2> QED BY <2>1 DEF NetInv, NetTypeOK
<1>2. SlotsAgree'
      BY DEF NetInv, SlotsAgree
<1>3. DriverLocked'
      BY DEF NetInv, NetTypeOK, DriverLocked, InDriver
<1>4. TxIdle'
      BY DEF NetInv, NetTypeOK, TxIdle
<1>5. TxInOrder'
      BY DEF NetInv, NetTypeOK, TxInOrder, TxReady, TxPending, TxTail, Transmitted
<1> QED BY <1>1, <1>2, <1>3, <1>4, <1>5 DEF NetInv

\* A packet is taken and filled in before the driver sees it.
LEMMA ComposeKeeps ==
    ASSUME NetInv, NEW u \in Users, Allocate(u) \/ create_udp_raw(u)
    PROVE  NetInv'
<1> USE NetDeviceAssumption DEF Goto, Rings
<1>1. CASE Allocate(u)
  <2>1. DriverLocked'
        BY <1>1 DEF NetInv, NetTypeOK, DriverLocked, InDriver, Allocate
  <2>2. /\ DOMAIN hand' = Users
        /\ \A v \in Users \ {u} : hand'[v] = hand[v]
        BY <1>1 DEF NetInv, NetTypeOK, Allocate
  <2> QED BY <1>1, <2>1, <2>2, OutsideKeeps, Zenon DEF Allocate
<1>2. CASE create_udp_raw(u)
  <2>1. DriverLocked'
        BY <1>2, Zenon DEF NetInv, NetTypeOK, DriverLocked, InDriver, create_udp_raw
  <2> QED BY <1>2, <2>1, OutsideKeeps, Zenon DEF create_udp_raw, driver_vars, NetInv, NetTypeOK
<1> QED BY <1>1, <1>2

\* send has the driver, so nobody waits for the card and its ring is empty.
LEMMA SendKeeps ==
    ASSUME NetInv, NEW u \in Users, send(u)
    PROVE  NetInv'
<1> USE NetDeviceAssumption DEF send, send_descriptor, Goto, card_vars
<1>0. \A v \in Users : pc[v] \notin InDriver
      BY DEF NetInv, DriverLocked
<1>1. NetTypeOK'
      BY DEF NetInv, NetTypeOK
<1>2. SlotsAgree'
      BY DEF NetInv, SlotsAgree
<1>3. DriverLocked'
      BY <1>0 DEF NetInv, NetTypeOK, DriverLocked, InDriver
<1>4. TxIdle'
      BY <1>0 DEF NetInv, NetTypeOK, TxIdle, InDriver
<1>5. TxInOrder'
  <2>1. TxReady(u)'
        BY DEF NetInv, NetTypeOK, TxReady, Transmitted
  <2>2. \A v \in Users : pc'[v] \in {"tx_tail", "tx_wait"} => v = u /\ pc'[v] = "tx_tail"
        BY <1>0 DEF NetInv, NetTypeOK, InDriver
  <2> QED BY <2>1, <2>2 DEF TxInOrder
<1> QED BY <1>1, <1>2, <1>3, <1>4, <1>5, Zenon DEF NetInv

\* Only the user with the driver is in the middle of a send.
LEMMA OneInDriver ==
    ASSUME NetInv, NEW u \in Users, NEW v \in Users, pc[u] \in InDriver, pc[v] \in InDriver
    PROVE  u = v
BY DEF NetInv, DriverLocked

\* Giving a packet to the card keeps it.
LEMMA SendTailKeeps ==
    ASSUME NetInv, NEW u \in Users, SendTail(u)
    PROVE  NetInv'
<1> USE DEF SendTail, send_tail, Goto, driver_vars
<1>0. \A v \in Users : pc[v] \in InDriver => v = u
      BY OneInDriver DEF InDriver
<1>1. NetTypeOK'
  <2>1. tdt' \in TxSlots
        BY IntelGbitAssumption, ModRange DEF NetInv, NetTypeOK, TxSlots, TxTail
  <2> QED BY <2>1 DEF NetInv, NetTypeOK
<1>2. SlotsAgree'
      BY DEF NetInv, SlotsAgree
<1>3. DriverLocked'
      BY DEF NetInv, NetTypeOK, DriverLocked, InDriver
<1>4. TxIdle'
      BY DEF NetInv, NetTypeOK, TxIdle
<1>5. TxInOrder'
  <2>1. tdh = tx_head
        BY <1>0 DEF NetInv, TxIdle, InDriver
  <2>2. TxReady(u)'
        BY DEF NetInv, TxInOrder, TxReady, Transmitted
  <2>3. TxPending(u)'
        BY <2>1, <2>2 DEF TxPending, TxTail
  <2>4. \A v \in Users : pc'[v] \in {"tx_tail", "tx_wait"} => v = u /\ pc'[v] = "tx_wait"
        BY <1>0 DEF NetInv, NetTypeOK, InDriver
  <2> QED BY <2>3, <2>4 DEF TxInOrder
<1> QED BY <1>1, <1>2, <1>3, <1>4, <1>5 DEF NetInv

\* The wait ends only when the card is past the slot.
LEMMA SendDoneKeeps ==
    ASSUME NetInv, NEW u \in Users, SendDone(u)
    PROVE  NetInv'
<1> USE DEF SendDone, send_done, Goto, card_vars
<1>0. \A v \in Users : pc[v] \in InDriver => v = u
      BY OneInDriver DEF InDriver
<1>1. NetTypeOK'
  <2>1. tx_head' \in TxSlots
        BY IntelGbitAssumption, ModRange DEF NetInv, NetTypeOK, TxSlots, TxTail
  <2> QED BY <2>1 DEF NetInv, NetTypeOK
<1>2. SlotsAgree'
      BY DEF NetInv, SlotsAgree
<1>3. DriverLocked'
      BY <1>0 DEF NetInv, NetTypeOK, DriverLocked, InDriver
<1>4. TxIdle'
  <2>1. tdt = TxTail /\ tdh = TxTail
        BY DEF NetInv, TxInOrder, TxPending, TxReady
  <2> QED BY <2>1 DEF TxIdle
<1>5. TxInOrder'
      BY <1>0 DEF NetInv, NetTypeOK, TxInOrder, InDriver
<1> QED BY <1>1, <1>2, <1>3, <1>4, <1>5 DEF NetInv

\* The card marks a receive descriptor and leaves its buffer in place.
LEMMA FrameArrivesKeeps ==
    ASSUME NetInv, NEW p, FrameArrives(p)
    PROVE  NetInv'
<1> USE DEF FrameArrives, CardReceives
<1>1. NetTypeOK'
  <2>1. rdh' \in RxSlots
        BY IntelGbitAssumption, ModRange DEF NetInv, NetTypeOK, RxSlots
  <2>2. DOMAIN rx_descriptors' = RxSlots
        BY DEF NetInv, NetTypeOK
  <2>3. \A i \in RxSlots : DOMAIN rx_descriptors'[i] = {"buffer", "done"}
        BY DEF NetInv, NetTypeOK
  <2> QED BY <2>1, <2>2, <2>3 DEF NetInv, NetTypeOK
<1>2. SlotsAgree'
  <2>1. \A i \in RxSlots : rx_descriptors'[i].buffer = rx_descriptors[i].buffer
        BY DEF NetInv, NetTypeOK
  <2> QED BY <2>1 DEF NetInv, SlotsAgree
<1>3. DriverLocked' /\ TxIdle'
      BY DEF NetInv, DriverLocked, TxIdle
<1>4. TxInOrder'
      BY DEF NetInv, TxInOrder, TxReady, TxPending, TxTail, Transmitted
<1> QED BY <1>1, <1>2, <1>3, <1>4 DEF NetInv

\* With something to send the card is at the slot of the user that waits.
LEMMA SendingUser ==
    ASSUME NetInv, tdh # tdt
    PROVE  \E u \in Users : /\ pc[u] = "tx_wait"
                            /\ tdh = tx_head /\ tdt = TxTail
                            /\ tx_descriptors[tdh].buffer = hand[u]
<1>1. PICK u \in Users : pc[u] = "tx_wait"
      BY DEF NetInv, TxIdle
<1>2. TxPending(u)
      BY <1>1 DEF NetInv, TxInOrder
<1> QED BY <1>1, <1>2 DEF TxPending, TxReady

\* The card keeps it, at either ring.
LEMMA CardKeeps ==
    ASSUME NetInv, Card
    PROVE  NetInv'
<1> USE DEF Card, CardTransmits, user_vars
<1>0. PICK u \in Users : pc[u] = "tx_wait" /\ tdh = tx_head /\ tdt = TxTail
      BY SendingUser
<1>1. tdh' = TxTail
      BY <1>0 DEF TxTail
<1>2. NetTypeOK'
  <2>1. tdh' \in TxSlots
        BY <1>1, IntelGbitAssumption, ModRange, SMTT(20) DEF NetInv, NetTypeOK, TxSlots, TxTail
  <2> QED BY <2>1, Zenon DEF NetInv, NetTypeOK
<1>3. SlotsAgree' /\ DriverLocked'
      BY DEF NetInv, SlotsAgree, DriverLocked
<1>4. TxIdle'
      BY <1>0, Zenon DEF TxIdle
<1>5. TxInOrder'
  <2>1. TxPending(u)'
        BY <1>0, <1>1 DEF TxPending, TxTail
  <2>2. \A v \in Users : pc[v] \in InDriver => v = u
        BY <1>0, OneInDriver DEF InDriver
  <2> QED BY <1>0, <2>1, <2>2 DEF TxInOrder, InDriver
<1> QED BY <1>2, <1>3, <1>4, <1>5, Zenon DEF NetInv

\* Every step keeps it.
LEMMA NextKeeps == NetInv /\ [Next]_vars => NetInv'
<1> SUFFICES ASSUME NetInv, [Next]_vars PROVE NetInv'
    OBVIOUS
<1>1. CASE UNCHANGED vars
      BY <1>1, SameKeeps DEF vars, gbit_vars, driver_vars, user_vars, Rings
<1>2. CASE \E p \in Ports \cup {NotUdp} : FrameArrives(p)
      BY <1>2, FrameArrivesKeeps
<1>3. CASE Card
      BY <1>3, CardKeeps
<1>4. ASSUME NEW u \in Users,
             \/ \E p \in Ports : bind_udp(u, p)
             \/ unbind_udp(u) \/ Poll(u) \/ Allocate(u) \/ Continue(u)
      PROVE  NetInv'
      BY <1>4, PortStepsKeep, ComposeKeeps, RecvRefillKeeps, RecvTailKeeps, SendKeeps,
         SendTailKeeps, SendDoneKeeps DEF Continue
<1> QED BY <1>1, <1>2, <1>3, <1>4 DEF Next

\* The rings and the registers always are as NetInv says, whichever users and
\* the card take turns.
THEOREM NetInvariant == Spec => []NetInv
BY InitKeeps, NextKeeps, PTL DEF Spec

\* In the invariant the card stays inside its buffers.
LEMMA DmaFollows == NetInv => DmaStaysInItsBuffers
<1> SUFFICES ASSUME NetInv PROVE DmaStaysInItsBuffers
    OBVIOUS
<1> USE IntelGbitAssumption
<1>1. CardWrites \subseteq ToSet(rx_buffers)
  <2>1. Slots(rdh, rdt, NUM_RX_DESCS) \subseteq RxSlots
        BY SlotsRange, Zenon DEF NetInv, NetTypeOK, RxSlots
  <2> QED BY <2>1 DEF CardWrites, ToSet, NetInv, NetTypeOK, SlotsAgree
<1>2. CASE tdh = tdt
  <2>1. Slots(tdh, tdt, NUM_TX_DESCS) = {}
        BY <1>2, NoSlots DEF NetInv, NetTypeOK, TxSlots
  <2> QED BY <1>1, <2>1 DEF CardReads, DmaStaysInItsBuffers
<1>3. CASE tdh # tdt
  <2>1. PICK u \in Users : /\ pc[u] = "tx_wait"
                           /\ tdh = tx_head /\ tdt = TxTail
                           /\ tx_descriptors[tdh].buffer = hand[u]
        BY <1>3, SendingUser
  <2>2. driver_lock = u
        BY <2>1 DEF NetInv, DriverLocked, InDriver
  <2>3. Slots(tdh, tdt, NUM_TX_DESCS) = {tdh}
        BY <2>1, OneSlot, Zenon DEF NetInv, NetTypeOK, TxSlots, TxTail
  <2>4. CardReads = {hand[u]}
        BY <2>1, <2>3 DEF CardReads
  <2> QED BY <1>1, <2>1, <2>2, <2>4 DEF DmaStaysInItsBuffers
<1> QED BY <1>2, <1>3

\* The card's DMA stays in the buffers of the receive slots and in the packet of
\* the user that waits in send, for rings of any size and any number of users.
THEOREM DmaStaysInItsBuffersHolds == Spec => []DmaStaysInItsBuffers
BY NetInvariant, DmaFollows, PTL

-----------------------------------------------------------------------------
(* OneOwner.                                                               *)

\* Where a user has a packet of its own, and where it needs its port.
Holding == {"rx_tail", "demux", "compose", "send", "tx_tail", "tx_wait"}
Polling == {"poll", "recv", "refill", "rx_tail", "demux"}

\* The packets of each kind of owner; the heap is the sixth.
Spares   == ToSet(packets)
Slotted  == {rx_buffers[i] : i \in RxSlots}
Bound    == UNION {ToSet(udp_binds[p]) : p \in DOMAIN udp_binds}
Taken    == UNION {ToSet(queued[u]) : u \in Users}
InHand   == {hand[u] : u \in Users} \ {NoBuffer}

OwnTypeOK ==
    /\ packets \in Seq(Buffers) /\ Len(packets) <= Spare
    /\ heap \subseteq Buffers
    /\ rx_buffers \in [RxSlots -> Buffers]
    /\ \A p \in DOMAIN udp_binds : udp_binds[p] \in Seq(Buffers)
    /\ queued \in [Users -> Seq(Buffers)]
    /\ DOMAIN bind = Users

\* No value comes twice in a list or in an array.
OneTo(s) == \A i, j \in DOMAIN s : s[i] = s[j] => i = j

\* No two places of one kind have the same packet.
BindsApart ==
    /\ \A p \in DOMAIN udp_binds : OneTo(udp_binds[p])
    /\ \A p, q \in DOMAIN udp_binds : p # q => ToSet(udp_binds[p]) \cap ToSet(udp_binds[q]) = {}

QueuesApart ==
    /\ \A u \in Users : OneTo(queued[u])
    /\ \A u, v \in Users : u # v => ToSet(queued[u]) \cap ToSet(queued[v]) = {}

HandsApart == \A u, v \in Users : hand[u] = hand[v] => u = v \/ hand[u] = NoBuffer

NoneTwice == OneTo(packets) /\ OneTo(rx_buffers) /\ BindsApart /\ QueuesApart /\ HandsApart

\* Every packet is with an owner of exactly one kind.
Divided(H, S, R, B, Q, U) ==
    /\ Buffers = H \cup S \cup R \cup B \cup Q \cup U
    /\ H \cap (S \cup R \cup B \cup Q \cup U) = {}
    /\ S \cap (R \cup B \cup Q \cup U) = {}
    /\ R \cap (B \cup Q \cup U) = {}
    /\ B \cap (Q \cup U) = {}
    /\ Q \cap U = {}

Shared == Divided(heap, Spares, Slotted, Bound, Taken, InHand)

\* A packet of a port or of a hand is given back: it goes to the free list or, when
\* that is full, to the heap.
LEMMA DividedRelease ==
    ASSUME NEW H, NEW S, NEW R, NEW B, NEW Q, NEW U, Divided(H, S, R, B, Q, U),
           NEW b, NEW K, K \subseteq {b}
    PROVE  /\ b \in B => Divided(H \cup ({b} \ K), S \cup K, R, B \ {b}, Q, U)
           /\ b \in U => Divided(H \cup ({b} \ K), S \cup K, R, B, Q, U \ {b})
BY SMTT(30) DEF Divided

\* A spare packet takes the place of a received one, which goes to a hand.
LEMMA DividedRefill ==
    ASSUME NEW H, NEW S, NEW R, NEW B, NEW Q, NEW U, Divided(H, S, R, B, Q, U),
           NEW b \in H \cup S, NEW old \in R
    PROVE  Divided(H \ {b}, S \ {b}, (R \ {old}) \cup {b}, B, Q, U \cup {old})
BY SMTT(30) DEF Divided

\* What the place a user is at says about its hand, its port and its queue.
Protocol ==
    /\ \A u \in Users : /\ pc[u] \in Holding => hand[u] \in Buffers
                        /\ pc[u] \notin Holding => hand[u] = NoBuffer
    /\ \A u \in Users : pc[u] # "release" => queued[u] = << >>
    /\ \A u \in Users : bind[u] # Nobody => bind[u] \in DOMAIN udp_binds
    /\ \A u, v \in Users : bind[u] = bind[v] => u = v \/ bind[u] = Nobody
    /\ \A u \in Users : pc[u] \in Polling => bind[u] # Nobody

\* The inductive invariant; it needs NetInv for the receive slot.
OwnInv == OwnTypeOK /\ NoneTwice /\ Shared /\ Protocol

-----------------------------------------------------------------------------
(* Lists of packets without repetition: what taking the last or the first  *)
(* packet, adding one and releasing some does to them.                     *)

\* Taking the last spare packet leaves the others.
LEMMA LastGone ==
    ASSUME NEW s \in Seq(Buffers), s # << >>, OneTo(s)
    PROVE  /\ Last(s) \in ToSet(s) /\ Last(s) \in Buffers
           /\ Front(s) \in Seq(Buffers) /\ Len(Front(s)) = Len(s) - 1
           /\ ToSet(Front(s)) = ToSet(s) \ {Last(s)}
           /\ OneTo(Front(s))
<1>1. Len(s) \in Nat /\ Len(s) > 0 /\ DOMAIN s = 1 .. Len(s)
      OBVIOUS
<1>2. Front(s) = [i \in 1 .. Len(s) - 1 |-> s[i]]
      BY <1>1 DEF Front
<1>3. /\ Front(s) \in Seq(Buffers) /\ Len(Front(s)) = Len(s) - 1
      /\ DOMAIN Front(s) = 1 .. Len(s) - 1
      /\ \A i \in 1 .. Len(s) - 1 : Front(s)[i] = s[i]
      BY <1>1, <1>2
<1> QED BY <1>1, <1>3, SMTT(30) DEF ToSet, OneTo, Last

\* Taking the first packet of a queue leaves the others.
LEMMA HeadGone ==
    ASSUME NEW s \in Seq(Buffers), s # << >>, OneTo(s)
    PROVE  /\ Head(s) \in ToSet(s) /\ Head(s) \in Buffers
           /\ Tail(s) \in Seq(Buffers)
           /\ ToSet(Tail(s)) = ToSet(s) \ {Head(s)}
           /\ OneTo(Tail(s))
<1>1. Len(s) \in Nat /\ Len(s) > 0 /\ DOMAIN s = 1 .. Len(s) /\ Head(s) = s[1]
      OBVIOUS
<1>2. /\ Tail(s) \in Seq(Buffers) 
      /\ DOMAIN Tail(s) = 1 .. Len(s) - 1
      /\ \A i \in 1 .. Len(s) - 1 : Tail(s)[i] = s[i + 1]
      BY <1>1
<1>3. ToSet(Tail(s)) = ToSet(s) \ {Head(s)}
  <2>1. ToSet(Tail(s)) \subseteq ToSet(s) \ {Head(s)}
        BY <1>1, <1>2 DEF ToSet, OneTo
  <2>2. ASSUME NEW j \in 1 .. Len(s), s[j] # s[1] PROVE s[j] \in ToSet(Tail(s))
    <3>1. j - 1 \in 1 .. Len(s) - 1 /\ Tail(s)[j - 1] = s[j]
          BY <1>1, <1>2, <2>2
    <3> QED BY <3>1, <1>2, Zenon DEF ToSet
  <2> QED BY <1>1, <2>1, <2>2, Zenon DEF ToSet
<1>4. OneTo(Tail(s))
      BY <1>1, <1>2 DEF OneTo
<1>5. Head(s) \in Buffers
      BY <1>1
<1>6. Head(s) \in ToSet(s)
      BY <1>1 DEF ToSet
<1> QED BY <1>2, <1>3, <1>4, <1>5, <1>6

\* Adding a packet that was not there keeps a queue without repetition.
LEMMA OneAdded ==
    ASSUME NEW s \in Seq(Buffers), OneTo(s), NEW b \in Buffers \ ToSet(s)
    PROVE  /\ Append(s, b) \in Seq(Buffers)
           /\ ToSet(Append(s, b)) = ToSet(s) \cup {b}
           /\ OneTo(Append(s, b))
<1>1. Len(s) \in Nat /\ DOMAIN s = 1 .. Len(s)
      OBVIOUS
<1>2. /\ Append(s, b) \in Seq(Buffers) 
      /\ DOMAIN Append(s, b) = 1 .. Len(s) + 1
      /\ \A i \in 1 .. Len(s) : Append(s, b)[i] = s[i]
      /\ Append(s, b)[Len(s) + 1] = b
      BY <1>1
<1> QED BY <1>1, <1>2 DEF ToSet, OneTo

\* Two lists of packets, one behind the other.
LEMMA Joined ==
    ASSUME NEW s \in Seq(Buffers), NEW t \in Seq(Buffers)
    PROVE  /\ s \o t \in Seq(Buffers)
           /\ Len(s \o t) = Len(s) + Len(t)
           /\ DOMAIN (s \o t) = 1 .. Len(s) + Len(t)
           /\ \A i \in 1 .. Len(s) : (s \o t)[i] = s[i]
           /\ \A i \in 1 .. Len(t) : (s \o t)[Len(s) + i] = t[i]
<1>1. \A i \in 1 .. Len(t) : (s \o t)[Len(s) + i] = t[i]
      OBVIOUS
<1>2. \A i \in 1 .. Len(s) : (s \o t)[i] = s[i]
      OBVIOUS
<1>3. s \o t \in Seq(Buffers) /\ Len(s \o t) = Len(s) + Len(t)
      OBVIOUS
<1>4. DOMAIN (s \o t) = 1 .. Len(s) + Len(t)
      BY <1>3
<1> QED BY <1>1, <1>2, <1>3, <1>4

\* Part of a released sequence goes to the list, the rest to the heap.
LEMMA ReleaseSplits ==
    ASSUME OwnTypeOK, NEW s \in Seq(Buffers), OneTo(s), OneTo(packets),
           ToSet(s) \cap Spares = {}, Release(s)
    PROVE  \E kept \in SUBSET ToSet(s) :
              /\ Spares' = Spares \cup kept
              /\ heap' = heap \cup (ToSet(s) \ kept)
              /\ packets' \in Seq(Buffers) /\ Len(packets') <= Spare
              /\ OneTo(packets)'
<1> DEFINE room == Spare - Len(packets)
           n == IF Len(s) <= room THEN Len(s) ELSE room
           a == SubSeq(s, 1, n)
           z == SubSeq(s, n + 1, Len(s))
<1>1. /\ Len(packets) \in Nat /\ DOMAIN packets = 1 .. Len(packets)
      /\ Len(s) \in Nat /\ DOMAIN s = 1 .. Len(s)
      /\ n \in 0 .. Len(s) /\ Len(packets) + n <= Spare
      BY IntelGbitAssumption DEF OwnTypeOK
<1>2. packets' = packets \o a /\ heap' = heap \cup ToSet(z)
      BY DEF Release
<1> HIDE DEF n
<1>3. /\ a \in Seq(Buffers) /\ Len(a) = n /\ DOMAIN a = 1 .. n
      /\ \A i \in 1 .. n : a[i] = s[i]
      BY <1>1
<1>4. /\ z \in Seq(Buffers) /\ DOMAIN z = 1 .. Len(s) - n
      /\ \A i \in 1 .. Len(s) - n : z[i] = s[n + i]
      BY <1>1
<1> HIDE DEF a, z
<1>5. ToSet(z) = ToSet(s) \ ToSet(a)
  <2>1. ASSUME NEW i \in 1 .. Len(s) - n PROVE z[i] \in ToSet(s) \ ToSet(a)
    <3>1. z[i] = s[n + i]
          BY <1>4
    <3>3. n + i \in 1 .. Len(s)
          BY <1>1
    <3>2. ASSUME NEW j \in 1 .. n PROVE a[j] # z[i]
      <4>1. j \in 1 .. Len(s) /\ a[j] = s[j] /\ j # n + i
            BY <1>1, <1>3, SMTT(30)
      <4> QED BY <4>1, <3>1, <3>3, <1>1, Zenon DEF OneTo
    <3> QED BY <3>1, <3>2, <3>3, <1>1, <1>3, Zenon DEF ToSet
  <2>2. ASSUME NEW j \in 1 .. Len(s), s[j] \notin ToSet(a) PROVE s[j] \in ToSet(z)
    <3>1. j > n
          BY <2>2, <1>1, <1>3 DEF ToSet
    <3>2. j - n \in 1 .. Len(s) - n /\ z[j - n] = s[j]
          BY <3>1, <1>1, <1>4
    <3> QED BY <3>2, <1>4 DEF ToSet
  <2> QED BY <1>1, <1>4, <2>1, <2>2, ZenonT(60) DEF ToSet
<1>6. ToSet(a) \subseteq ToSet(s) /\ OneTo(a)
      BY <1>1, <1>3, SMTT(60) DEF ToSet, OneTo
<1>7. /\ packets' \in Seq(Buffers) /\ Len(packets') = Len(packets) + n
      /\ DOMAIN packets' = 1 .. Len(packets) + n
      /\ \A i \in 1 .. Len(packets) : packets'[i] = packets[i]
      /\ \A i \in 1 .. n : packets'[Len(packets) + i] = a[i]
  <2>1. packets \in Seq(Buffers)
        BY DEF OwnTypeOK
  <2> QED BY <1>2, <1>3, <2>1, Joined, ZenonT(60)
<1>8. Spares' = Spares \cup ToSet(a)
  <2>1. Spares' \subseteq Spares \cup ToSet(a)
    <3>1. ASSUME NEW i \in 1 .. Len(packets) + n PROVE packets'[i] \in Spares \cup ToSet(a)
      <4>1. CASE i <= Len(packets)
            BY <4>1, <1>1, <1>7 DEF Spares, ToSet
      <4>2. CASE i > Len(packets)
        <5>1. i - Len(packets) \in 1 .. n /\ packets'[i] = a[i - Len(packets)]
              BY <4>2, <1>1, <1>7
        <5> QED BY <5>1, <1>3 DEF ToSet
      <4> QED BY <4>1, <4>2, <1>1
    <3> QED BY <3>1, <1>7 DEF Spares, ToSet
  <2>2. Spares \subseteq Spares'
        BY <1>1, <1>7 DEF Spares, ToSet
  <2>3. ToSet(a) \subseteq Spares'
        BY <1>1, <1>3, <1>7, SMTT(60) DEF Spares, ToSet
  <2> QED BY <2>1, <2>2, <2>3, Zenon
<1>9. OneTo(packets)'
  <2>1. ASSUME NEW i \in 1 .. Len(packets), NEW j \in 1 .. n PROVE packets[i] # a[j]
        BY <1>1, <1>3, <1>6, Zenon DEF Spares, ToSet
  <2>2. ASSUME NEW i \in 1 .. Len(packets) + n, NEW j \in 1 .. Len(packets) + n,
               packets'[i] = packets'[j]
        PROVE  i = j
    <3>1. CASE i <= Len(packets) /\ j <= Len(packets)
          BY <3>1, <2>2, <1>1, <1>7, SMTT(30) DEF OneTo
    <3>2. CASE i <= Len(packets) /\ j > Len(packets)
      <4>1. j - Len(packets) \in 1 .. n /\ packets'[j] = a[j - Len(packets)]
            BY <3>2, <1>1, <1>7
      <4>2. i \in 1 .. Len(packets) /\ packets'[i] = packets[i]
            BY <3>2, <1>1, <1>7
      <4> QED BY <4>1, <4>2, <2>1, <2>2, Zenon
    <3>3. CASE i > Len(packets) /\ j <= Len(packets)
      <4>1. i - Len(packets) \in 1 .. n /\ packets'[i] = a[i - Len(packets)]
            BY <3>3, <1>1, <1>7
      <4>2. j \in 1 .. Len(packets) /\ packets'[j] = packets[j]
            BY <3>3, <1>1, <1>7
      <4> QED BY <4>1, <4>2, <2>1, <2>2, Zenon
    <3>4. CASE i > Len(packets) /\ j > Len(packets)
      <4>1. /\ i - Len(packets) \in 1 .. n /\ packets'[i] = a[i - Len(packets)]
            /\ j - Len(packets) \in 1 .. n /\ packets'[j] = a[j - Len(packets)]
            BY <3>4, <1>1, <1>7
      <4>2. i - Len(packets) = j - Len(packets)
            BY <4>1, <2>2, <1>3, <1>6, Zenon DEF OneTo
      <4> QED BY <4>2, <1>1
    <3> QED BY <3>1, <3>2, <3>3, <3>4, <1>1
  <2> QED BY <2>2, <1>7 DEF OneTo
<1> QED BY <1>1, <1>2, <1>5, <1>6, <1>7, <1>8, <1>9, Zenon

\* Who holds a packet follows from the place it is written in.
LEMMA PlacesSame ==
    /\ packets' = packets => Spares' = Spares
    /\ rx_buffers' = rx_buffers => Slotted' = Slotted
    /\ udp_binds' = udp_binds => Bound' = Bound
    /\ queued' = queued => Taken' = Taken
    /\ hand' = hand => InHand' = InHand
<1>1. packets' = packets => Spares' = Spares
      BY DEF Spares, ToSet
<1>2. rx_buffers' = rx_buffers => Slotted' = Slotted
      BY DEF Slotted
<1>3. udp_binds' = udp_binds => Bound' = Bound
      BY DEF Bound, ToSet
<1>4. queued' = queued => Taken' = Taken
      BY DEF Taken, ToSet
<1>5. hand' = hand => InHand' = InHand
      BY DEF InHand
<1> QED BY <1>1, <1>2, <1>3, <1>4, <1>5

\* Queues given back stay apart when they stay.
LEMMA QueuesSame == ASSUME QueuesApart, queued' = queued PROVE QueuesApart'
BY DEF QueuesApart, OneTo, ToSet

\* Queues of ports stay apart when they stay.
LEMMA BindsSame == ASSUME BindsApart, udp_binds' = udp_binds PROVE BindsApart'
BY DEF BindsApart, OneTo, ToSet

\* allocate_packet takes a packet from the list or from the heap.
LEMMA AllocateTakes ==
    ASSUME OwnTypeOK, OneTo(packets), heap \cap Spares = {}, NEW b, allocate_packet(b)
    PROVE  /\ b \in heap \cup Spares /\ b \in Buffers
           /\ heap' = heap \ {b} /\ Spares' = Spares \ {b}
           /\ packets' \in Seq(Buffers) /\ Len(packets') <= Spare
           /\ OneTo(packets)'
<1>1. CASE packets # << >> /\ b = Last(packets) /\ packets' = Front(packets) /\ heap' = heap
  <2>1. packets \in Seq(Buffers) /\ Len(packets) \in Nat /\ Len(packets) <= Spare
        BY DEF OwnTypeOK
  <2> QED BY <1>1, <2>1, LastGone, IntelGbitAssumption DEF Spares, OneTo
<1>2. CASE packets = << >> /\ b \in heap /\ heap' = heap \ {b} /\ packets' = packets
      BY <1>2 DEF Spares, OwnTypeOK, ToSet, OneTo
<1> QED BY <1>1, <1>2, Zenon DEF allocate_packet

-----------------------------------------------------------------------------
(* One packet goes to or from a hand or the queue of a port.               *)

\* A user takes a packet that no user has.
LEMMA HandTaken ==
    ASSUME DOMAIN hand = Users, HandsApart, NEW u \in Users, hand[u] = NoBuffer,
           NEW b \in Buffers \ InHand, hand' = [hand EXCEPT ![u] = b]
    PROVE  InHand' = InHand \cup {b} /\ HandsApart'
<1>1. b # NoBuffer
      BY DEF Buffers, NoBuffer
<1> QED BY <1>1 DEF InHand, HandsApart

\* A user gives its packet away.
LEMMA HandEmptied ==
    ASSUME DOMAIN hand = Users, HandsApart, NEW u \in Users, hand[u] \in Buffers,
           hand' = [hand EXCEPT ![u] = NoBuffer]
    PROVE  InHand' = InHand \ {hand[u]} /\ hand[u] \in InHand /\ HandsApart'
<1>1. hand[u] # NoBuffer
      BY DEF Buffers, NoBuffer
<1> QED BY <1>1 DEF InHand, HandsApart

\* The first packet leaves the queue of a port.
LEMMA BindShrinks ==
    ASSUME OwnTypeOK, BindsApart, NEW p \in DOMAIN udp_binds, udp_binds[p] # << >>,
           udp_binds' = [udp_binds EXCEPT ![p] = Tail(@)]
    PROVE  /\ Head(udp_binds[p]) \in Bound /\ Head(udp_binds[p]) \in Buffers
           /\ Bound' = Bound \ {Head(udp_binds[p])}
           /\ \A q \in DOMAIN udp_binds' : udp_binds'[q] \in Seq(Buffers)
           /\ BindsApart'
<1> DEFINE s == udp_binds[p]
           b == Head(s)
<1>1. s \in Seq(Buffers) /\ s # << >> /\ OneTo(s)
      BY DEF OwnTypeOK, BindsApart
<1>2. /\ b \in ToSet(s) /\ b \in Buffers /\ Tail(s) \in Seq(Buffers)
      /\ ToSet(Tail(s)) = ToSet(s) \ {b} /\ OneTo(Tail(s))
      BY <1>1, HeadGone
<1>3. /\ DOMAIN udp_binds' = DOMAIN udp_binds /\ udp_binds'[p] = Tail(s)
      /\ \A q \in DOMAIN udp_binds : q # p => udp_binds'[q] = udp_binds[q]
      OBVIOUS
<1>4. \A q \in DOMAIN udp_binds : q # p => ToSet(s) \cap ToSet(udp_binds[q]) = {}
      BY DEF BindsApart
<1> HIDE DEF s, b
<1>5. \A q \in DOMAIN udp_binds' : udp_binds'[q] \in Seq(Buffers)
      BY <1>2, <1>3, Zenon DEF OwnTypeOK
<1>6. BindsApart'
  <2>1. \A q \in DOMAIN udp_binds' : OneTo(udp_binds'[q])
        BY <1>2, <1>3, Zenon DEF BindsApart
  <2>2. \A q \in DOMAIN udp_binds' : ToSet(udp_binds'[q]) \subseteq ToSet(udp_binds[q])
        BY <1>2, <1>3 DEF s
  <2> QED BY <1>3, <2>1, <2>2 DEF BindsApart, OneTo
<1>7. Bound' = Bound \ {b}
  <2>1. \A q \in DOMAIN udp_binds : ToSet(udp_binds'[q]) = ToSet(udp_binds[q]) \ {b}
        BY <1>2, <1>3, <1>4, Zenon DEF s
  <2>2. \A x : x \in Bound' <=> \E q \in DOMAIN udp_binds : x \in ToSet(udp_binds'[q])
        BY <1>3 DEF Bound, ToSet
  <2>3. \A x : x \in Bound <=> \E q \in DOMAIN udp_binds : x \in ToSet(udp_binds[q])
        BY DEF Bound
  <2> QED BY <2>1, <2>2, <2>3, SMTT(30)
<1>8. b \in Bound
      BY <1>2 DEF Bound, s
<1> QED BY <1>2, <1>5, <1>6, <1>7, <1>8 DEF s, b

\* A packet joins the queue of a port.
LEMMA BindGrows ==
    ASSUME OwnTypeOK, BindsApart, NEW p \in DOMAIN udp_binds, NEW b \in Buffers \ Bound,
           udp_binds' = [udp_binds EXCEPT ![p] = Append(@, b)]
    PROVE  /\ Bound' = Bound \cup {b}
           /\ \A q \in DOMAIN udp_binds' : udp_binds'[q] \in Seq(Buffers)
           /\ BindsApart'
<1> DEFINE s == udp_binds[p]
<1>1. s \in Seq(Buffers) /\ OneTo(s) /\ b \notin ToSet(s)
      BY DEF OwnTypeOK, BindsApart, Bound
<1>2. /\ Append(s, b) \in Seq(Buffers)
      /\ ToSet(Append(s, b)) = ToSet(s) \cup {b} /\ OneTo(Append(s, b))
      BY <1>1, OneAdded
<1>3. /\ DOMAIN udp_binds' = DOMAIN udp_binds /\ udp_binds'[p] = Append(s, b)
      /\ \A q \in DOMAIN udp_binds : q # p => udp_binds'[q] = udp_binds[q]
      OBVIOUS
<1>4. \A q \in DOMAIN udp_binds : b \notin ToSet(udp_binds[q])
      BY DEF Bound
<1>5. ToSet(udp_binds'[p]) = ToSet(udp_binds[p]) \cup {b}
      BY <1>2, <1>3
<1> HIDE DEF s
<1>6. \A q \in DOMAIN udp_binds' : udp_binds'[q] \in Seq(Buffers)
      BY <1>2, <1>3 DEF OwnTypeOK
<1>7. BindsApart'
  <2>1. \A q \in DOMAIN udp_binds' : OneTo(udp_binds'[q])
        BY <1>2, <1>3, Zenon DEF BindsApart
  <2>2. \A q, r \in DOMAIN udp_binds : q # r => ToSet(udp_binds'[q]) \cap ToSet(udp_binds'[r]) = {}
        BY <1>3, <1>4, <1>5 DEF BindsApart
  <2> QED BY <1>3, <2>1, <2>2, ZenonT(60) DEF BindsApart, OneTo
<1>8. Bound' = Bound \cup {b}
  <2>1. \A x : x \in Bound' <=> \E q \in DOMAIN udp_binds : x \in ToSet(udp_binds'[q])
        BY <1>3 DEF Bound, ToSet
  <2>2. \A x : x \in Bound <=> \E q \in DOMAIN udp_binds : x \in ToSet(udp_binds[q])
        BY DEF Bound
  <2> QED BY <1>3, <1>5, <2>1, <2>2
<1> QED BY <1>6, <1>7, <1>8

-----------------------------------------------------------------------------
(* Every step keeps the packets divided.                                   *)

Owners == <<packets, heap, rx_buffers, udp_binds, queued, bind, hand>>

\* The device starts with every packet at one owner.
LEMMA OwnInit == Init => OwnInv
<1> SUFFICES ASSUME Init PROVE OwnInv
    OBVIOUS
<1>1. /\ packets = << >> /\ heap = Buffers \ RxSlots /\ rx_buffers = [i \in RxSlots |-> i]
      /\ udp_binds = << >> /\ queued = [u \in Users |-> << >>]
      /\ bind = [u \in Users |-> Nobody] /\ hand = [u \in Users |-> NoBuffer]
      /\ pc = [u \in Users |-> "idle"]
      BY DEF Init, NewDriver
<1>2. RxSlots \subseteq Buffers
      BY IntelGbitAssumption DEF RxSlots, Buffers
<1>3. DOMAIN udp_binds = {} /\ DOMAIN packets = {} /\ Len(packets) = 0
      BY <1>1
<1>4. OwnTypeOK
      BY <1>1, <1>2, <1>3, IntelGbitAssumption DEF OwnTypeOK
<1>5. NoneTwice
  <2>1. OneTo(packets) /\ OneTo(rx_buffers) /\ BindsApart
        BY <1>1, <1>3 DEF OneTo, BindsApart
  <2>2. QueuesApart /\ HandsApart
        BY <1>1 DEF QueuesApart, HandsApart, OneTo, ToSet
  <2> QED BY <2>1, <2>2 DEF NoneTwice
<1>6. /\ Spares = {} /\ Slotted = RxSlots /\ Bound = {} /\ Taken = {} /\ InHand = {}
      BY <1>1, <1>3 DEF Spares, Slotted, Bound, Taken, InHand, ToSet
<1>7. Shared
      BY <1>1, <1>2, <1>6 DEF Shared, Divided
<1>8. Protocol
      BY <1>1 DEF Protocol, Holding, Polling
<1> QED BY <1>4, <1>5, <1>7, <1>8 DEF OwnInv

\* A step that moves no packet keeps the packets divided.
LEMMA OwnersSame ==
    ASSUME OwnInv, UNCHANGED Owners
    PROVE  OwnTypeOK' /\ NoneTwice' /\ Shared'
<1>1. UNCHANGED <<packets, heap, rx_buffers, udp_binds, queued, bind, hand>>
      BY DEF Owners
<1>2. OwnTypeOK'
      BY <1>1, ZenonT(60) DEF OwnInv, OwnTypeOK
<1>3. NoneTwice'
  <2>1. QueuesApart' /\ BindsApart'
        BY <1>1, QueuesSame, BindsSame, Zenon DEF OwnInv, NoneTwice
  <2>2. OneTo(packets)' /\ OneTo(rx_buffers)' /\ HandsApart'
        BY <1>1, Zenon DEF OwnInv, NoneTwice, OneTo, HandsApart
  <2> QED BY <2>1, <2>2, Zenon DEF NoneTwice
<1>4. UNCHANGED <<Spares, Slotted, Bound, Taken, InHand>>
      BY <1>1, PlacesSame
<1>5. Shared'
      BY <1>1, <1>4 DEF OwnInv, Shared, Divided
<1> QED BY <1>2, <1>3, <1>5

\* A step that moves no packet and no user keeps the invariant.
LEMMA OwnSame ==
    ASSUME OwnInv, UNCHANGED <<Owners, pc>>
    PROVE  OwnInv'
<1>1. UNCHANGED Owners
      OBVIOUS
<1>2. Protocol'
      BY Zenon DEF OwnInv, Protocol, Owners
<1> QED BY <1>1, <1>2, OwnersSame DEF OwnInv

\* A user that goes on in its call without moving a packet keeps it.
LEMMA OwnGoto ==
    ASSUME OwnInv, NetInv, NEW u \in Users, NEW from, NEW to, Goto(u, from, to),
           UNCHANGED Owners, from # "release", to # "release",
           from \in Holding <=> to \in Holding,
           to \in Polling => bind[u] # Nobody
    PROVE  OwnInv'
<1>1. UNCHANGED <<udp_binds, queued, bind, hand>>
      BY Zenon DEF Owners
<1>2. /\ pc[u] = from /\ pc'[u] = to
      /\ \A v \in Users : v # u => pc'[v] = pc[v]
      BY Zenon DEF NetInv, NetTypeOK, Goto
<1>3. Protocol'
      BY <1>1, <1>2 DEF OwnInv, Protocol
<1> QED BY <1>3, OwnersSame DEF OwnInv

\* One user goes to another place, the others stay.
LEMMA GotoMoves ==
    ASSUME NetInv, NEW u \in Users, NEW from, NEW to, Goto(u, from, to)
    PROVE  /\ pc[u] = from /\ pc'[u] = to
           /\ \A v \in Users : v # u => pc'[v] = pc[v]
BY DEF NetInv, NetTypeOK, Goto

\* bind_udp makes an empty queue.
LEMMA OwnBind ==
    ASSUME OwnInv, NetInv, NEW u \in Users, NEW p \in Ports, bind_udp(u, p)
    PROVE  OwnInv'
<1>1. /\ UNCHANGED <<packets, heap, rx_buffers, queued, hand, pc>>
      /\ p \notin DOMAIN udp_binds
      /\ udp_binds' = [q \in DOMAIN udp_binds \cup {p} |-> IF q = p THEN << >> ELSE udp_binds[q]]
      /\ bind' = [bind EXCEPT ![u] = p] /\ pc[u] = "idle"
      BY DEF bind_udp, gbit_vars, driver_vars
<1>2. /\ DOMAIN udp_binds' = DOMAIN udp_binds \cup {p} /\ udp_binds'[p] = << >>
      /\ \A q \in DOMAIN udp_binds : udp_binds'[q] = udp_binds[q]
      BY <1>1, ZenonT(60)
<1>3. OwnTypeOK'
  <2>1. << >> \in Seq(Buffers)
        OBVIOUS
  <2>2. \A q \in DOMAIN udp_binds' : udp_binds'[q] \in Seq(Buffers)
        BY <1>2, <2>1, Zenon DEF OwnInv, OwnTypeOK
  <2>3. DOMAIN bind' = Users
        BY <1>1, Zenon DEF OwnInv, OwnTypeOK
  <2> QED BY <1>1, <2>2, <2>3, Zenon DEF OwnInv, OwnTypeOK
<1>4. NoneTwice'
  <2>1. ToSet(<< >>) = {} /\ OneTo(<< >>)
        BY DEF ToSet, OneTo
  <2>2. BindsApart'
    <3>1. \A q \in DOMAIN udp_binds' : OneTo(udp_binds'[q])
          BY <1>2, <2>1, Zenon DEF OwnInv, NoneTwice, BindsApart
    <3>2. \A q, r \in DOMAIN udp_binds' :
              q # r => ToSet(udp_binds'[q]) \cap ToSet(udp_binds'[r]) = {}
          BY <1>2, <2>1 DEF OwnInv, NoneTwice, BindsApart
    <3> QED BY <3>1, <3>2, Zenon DEF BindsApart, OneTo, ToSet
  <2>3. QueuesApart'
        BY <1>1, QueuesSame, Zenon DEF OwnInv, NoneTwice
  <2>4. OneTo(packets)' /\ OneTo(rx_buffers)' /\ HandsApart'
        BY <1>1, Zenon DEF OwnInv, NoneTwice, OneTo, HandsApart
  <2> QED BY <2>2, <2>3, <2>4, Zenon DEF NoneTwice
<1>5. Bound' = Bound
      BY <1>2 DEF Bound, ToSet
<1>6. UNCHANGED <<Spares, Slotted, Taken, InHand>>
      BY <1>1, PlacesSame
<1>7. Shared'
      BY <1>1, <1>5, <1>6, Zenon DEF OwnInv, Shared, Divided
<1>8. Protocol'
  <2>1. DOMAIN bind = Users
        BY DEF OwnInv, OwnTypeOK
  <2> QED BY <1>1, <1>2, <2>1, ZenonT(90) DEF OwnInv, Protocol, Polling
<1> QED BY <1>3, <1>4, <1>7, <1>8, Zenon DEF OwnInv

\* unbind_udp takes the whole queue away.
LEMMA OwnUnbind ==
    ASSUME OwnInv, NetInv, NEW u \in Users, unbind_udp(u)
    PROVE  OwnInv'
<1> DEFINE p == bind[u]
           s == udp_binds[p]
<1>1. /\ UNCHANGED <<packets, heap, rx_buffers, hand>>
      /\ queued' = [queued EXCEPT ![u] = s]
      /\ udp_binds' = [q \in DOMAIN udp_binds \ {p} |-> udp_binds[q]]
      /\ bind' = [bind EXCEPT ![u] = Nobody] /\ p # Nobody
      BY Zenon DEF unbind_udp, gbit_vars, driver_vars
<1>2. /\ pc[u] = "idle" /\ pc'[u] = "release"
      /\ \A v \in Users : v # u => pc'[v] = pc[v]
      BY GotoMoves DEF unbind_udp
<1>3. /\ DOMAIN queued = Users /\ DOMAIN bind = Users
      /\ p \in DOMAIN udp_binds /\ s \in Seq(Buffers) /\ OneTo(s) /\ queued[u] = << >>
      BY <1>1, <1>2, Zenon DEF OwnInv, OwnTypeOK, NoneTwice, BindsApart, Protocol
<1>4. /\ DOMAIN udp_binds' = DOMAIN udp_binds \ {p}
      /\ \A q \in DOMAIN udp_binds' : udp_binds'[q] = udp_binds[q]
      /\ queued'[u] = s /\ \A v \in Users : v # u => queued'[v] = queued[v]
      /\ bind'[u] = Nobody /\ \A v \in Users : v # u => bind'[v] = bind[v]
      BY <1>1, <1>3, Zenon
<1>5. ToSet(queued[u]) = {} /\ ToSet(s) \subseteq Bound
      BY <1>3, SMTT(20) DEF ToSet, Bound
<1>6. \A q \in DOMAIN udp_binds' : ToSet(s) \cap ToSet(udp_binds[q]) = {}
      BY <1>3, <1>4 DEF OwnInv, NoneTwice, BindsApart
<1>7. \A v \in Users : ToSet(queued[v]) \subseteq Taken
      BY DEF Taken
<1>8. Bound \cap Taken = {}
      BY Zenon DEF OwnInv, Shared, Divided
<1>9. OwnTypeOK'
      BY <1>1, <1>3, <1>4 DEF OwnInv, OwnTypeOK
<1> HIDE DEF p, s
<1>10. NoneTwice'
  <2>1. BindsApart'
    <3>1. \A q \in DOMAIN udp_binds' : q \in DOMAIN udp_binds /\ udp_binds'[q] = udp_binds[q]
          BY <1>4, Zenon
    <3>2. \A q \in DOMAIN udp_binds' : OneTo(udp_binds'[q])
          BY <3>1 DEF OwnInv, NoneTwice, BindsApart
    <3>3. \A q, r \in DOMAIN udp_binds' :
              q # r => ToSet(udp_binds'[q]) \cap ToSet(udp_binds'[r]) = {}
          BY <3>1, Zenon DEF OwnInv, NoneTwice, BindsApart
    <3> QED BY <3>2, <3>3 DEF BindsApart, OneTo, ToSet
  <2>2. QueuesApart'
    <3>1. \A v \in Users : OneTo(queued'[v])
          BY <1>3, <1>4, ZenonT(60) DEF OwnInv, NoneTwice, QueuesApart
    <3>2. \A v, w \in Users : v # w => ToSet(queued'[v]) \cap ToSet(queued'[w]) = {}
          BY <1>4, <1>5, <1>7, <1>8 DEF OwnInv, NoneTwice, QueuesApart
    <3> QED BY <3>1, <3>2, Zenon DEF QueuesApart, OneTo, ToSet
  <2> QED BY <1>1, <2>1, <2>2, Zenon DEF OwnInv, NoneTwice, HandsApart, OneTo
<1>11. Bound' = Bound \ ToSet(s)
  <2>1. \A x : x \in Bound' <=> \E q \in DOMAIN udp_binds' : x \in ToSet(udp_binds[q])
    <3>1. \A x : x \in Bound' <=> \E q \in DOMAIN udp_binds' : x \in ToSet(udp_binds'[q])
          BY DEF Bound, ToSet
    <3>2. \A q \in DOMAIN udp_binds' : ToSet(udp_binds'[q]) = ToSet(udp_binds[q])
          BY <1>4
    <3> QED BY <3>1, <3>2, Zenon
  <2>2. \A x : x \in Bound <=> \E q \in DOMAIN udp_binds : x \in ToSet(udp_binds[q])
        BY Zenon DEF Bound
  <2> QED BY <1>3, <1>4, <1>6, <2>1, <2>2, Zenon DEF s
<1>12. Taken' = Taken \cup ToSet(s)
  <2>1. \A x : x \in Taken' <=> \E v \in Users : x \in ToSet(queued'[v])
        BY DEF Taken, ToSet
  <2>2. \A x : x \in Taken <=> \E v \in Users : x \in ToSet(queued[v])
        BY DEF Taken
  <2> QED BY <1>4, <1>5, <2>1, <2>2
<1>13. UNCHANGED <<Spares, Slotted, InHand>>
      BY <1>1, PlacesSame
<1>14. Shared'
      BY <1>1, <1>5, <1>11, <1>12, <1>13, ZenonT(60) DEF OwnInv, Shared, Divided
<1>15. Protocol'
      BY <1>1, <1>2, <1>3, <1>4, SMTT(20) DEF OwnInv, Protocol, Polling, Holding, p
<1> QED BY <1>9, <1>10, <1>14, <1>15 DEF OwnInv

\* The packets of a queue taken away go back one by one.
LEMMA OwnUnbindRelease ==
    ASSUME OwnInv, NetInv, NEW u \in Users, UnbindRelease(u)
    PROVE  OwnInv'
<1>1. /\ UNCHANGED <<rx_buffers, udp_binds, bind, hand>>
      /\ queued' = [queued EXCEPT ![u] = << >>]
      BY ZenonT(60) DEF UnbindRelease
<1>2. /\ pc[u] = "release" /\ pc'[u] = "idle"
      /\ \A v \in Users : v # u => pc'[v] = pc[v]
      BY GotoMoves, Zenon DEF UnbindRelease
<1>3. /\ DOMAIN queued = Users /\ queued[u] \in Seq(Buffers) /\ OneTo(queued[u])
      /\ OwnTypeOK /\ OneTo(packets)
      BY DEF OwnInv, OwnTypeOK, NoneTwice, QueuesApart
<1>4. ToSet(queued[u]) \subseteq Taken
      BY DEF Taken
<1>5. ToSet(queued[u]) \cap Spares = {}
      BY <1>4 DEF OwnInv, Shared, Divided
<1>6. PICK kept \in SUBSET ToSet(queued[u]) :
              /\ Spares' = Spares \cup kept
              /\ heap' = heap \cup (ToSet(queued[u]) \ kept)
              /\ packets' \in Seq(Buffers) /\ Len(packets') <= Spare
              /\ OneTo(packets)'
      BY <1>3, <1>5, ReleaseSplits, Zenon DEF UnbindRelease
<1>7. queued'[u] = << >> /\ \A v \in Users : v # u => queued'[v] = queued[v]
      BY <1>1, <1>3, Zenon
<1>8. ToSet(<< >>) = {} /\ OneTo(<< >>) /\ ToSet(queued[u]) \subseteq Buffers
      BY <1>3 DEF ToSet, OneTo
<1>9. OwnTypeOK'
      BY <1>1, <1>3, <1>6, <1>7, <1>8 DEF OwnTypeOK
<1>10. NoneTwice'
  <2>1. QueuesApart'
    <3>1. \A v \in Users : OneTo(queued'[v])
          BY <1>7, <1>8, ZenonT(60) DEF OwnInv, NoneTwice, QueuesApart
    <3>2. \A v, w \in Users : v # w => ToSet(queued'[v]) \cap ToSet(queued'[w]) = {}
          BY <1>7, <1>8 DEF OwnInv, NoneTwice, QueuesApart
    <3> QED BY <3>1, <3>2, Zenon DEF QueuesApart, OneTo, ToSet
  <2>2. BindsApart' /\ HandsApart'
    <3>1. BindsApart /\ HandsApart
          BY Zenon DEF OwnInv, NoneTwice
    <3>2. udp_binds' = udp_binds /\ hand' = hand
          BY <1>1
    <3>3. HandsApart'
          BY <3>1, <3>2, Zenon DEF HandsApart
    <3> QED BY <3>1, <3>2, <3>3, BindsSame
  <2>3. OneTo(rx_buffers)'
        BY <1>1, Zenon DEF OwnInv, NoneTwice, OneTo
  <2> QED BY <1>6, <2>1, <2>2, <2>3, Zenon DEF NoneTwice
<1>11. Taken' = Taken \ ToSet(queued[u])
  <2>1. \A x : x \in Taken' <=> \E v \in Users : x \in ToSet(queued'[v])
        BY DEF Taken, ToSet
  <2>2. \A x : x \in Taken <=> \E v \in Users : x \in ToSet(queued[v])
        BY DEF Taken
  <2>3. \A v \in Users : v # u => ToSet(queued[u]) \cap ToSet(queued[v]) = {}
        BY DEF OwnInv, NoneTwice, QueuesApart
  <2> QED BY <1>7, <1>8, <2>1, <2>2, <2>3
<1>12. UNCHANGED <<Slotted, Bound, InHand>>
      BY <1>1, PlacesSame, Zenon
<1>13. Shared'
      BY <1>4, <1>6, <1>11, <1>12, Zenon DEF OwnInv, Shared, Divided
<1>14. Protocol'
      BY <1>1, <1>2, <1>7, Zenon DEF OwnInv, Protocol, Polling, Holding
<1> QED BY <1>9, <1>10, <1>13, <1>14 DEF OwnInv

\* A packet given back is kept as a spare or freed, not both.
LEMMA ReleaseOne ==
    ASSUME OwnInv, NEW b \in Buffers \ Spares, Release(<<b>>)
    PROVE  \E kept \in SUBSET {b} :
              /\ Spares' = Spares \cup kept
              /\ heap' = heap \cup ({b} \ kept)
              /\ packets' \in Seq(Buffers) /\ Len(packets') <= Spare
              /\ OneTo(packets)'
<1>1. /\ <<b>> \in Seq(Buffers) /\ OneTo(<<b>>) /\ ToSet(<<b>>) = {b}
      BY DEF OneTo, ToSet
<1>2. ToSet(<<b>>) \cap Spares = {} /\ OwnTypeOK /\ OneTo(packets)
      BY <1>1 DEF OwnInv, NoneTwice
<1> QED BY <1>1, <1>2, ReleaseSplits, Zenon

\* A queued packet goes from the port to the user.
LEMMA OwnRecvQueued ==
    ASSUME OwnInv, NetInv, NEW u \in Users, RecvQueued(u)
    PROVE  OwnInv'
<1> DEFINE p == bind[u]
           b == Head(udp_binds[p])
<1>1. /\ UNCHANGED <<rx_buffers, queued, bind, hand>>
      /\ udp_binds' = [udp_binds EXCEPT ![p] = Tail(@)]
      /\ udp_binds[p] # << >> /\ Release(<<b>>)
      BY DEF RecvQueued, HasQueued
<1>2. /\ pc[u] = "recv" /\ pc'[u] = "idle"
      /\ \A v \in Users : v # u => pc'[v] = pc[v]
      BY GotoMoves, Zenon DEF RecvQueued
<1>3. p \in DOMAIN udp_binds /\ OwnTypeOK /\ BindsApart
      BY <1>2 DEF OwnInv, Protocol, Polling, NoneTwice
<1>4. /\ b \in Bound /\ b \in Buffers
      /\ Bound' = Bound \ {b}
      /\ \A q \in DOMAIN udp_binds' : udp_binds'[q] \in Seq(Buffers)
      /\ BindsApart'
      BY <1>1, <1>3, BindShrinks, Zenon
<1>5. DOMAIN udp_binds' = DOMAIN udp_binds
      BY <1>1
<1> HIDE DEF p, b
<1>6. b \notin Spares
      BY <1>4 DEF OwnInv, Shared, Divided
<1>7. PICK kept \in SUBSET {b} :
              /\ Spares' = Spares \cup kept
              /\ heap' = heap \cup ({b} \ kept)
              /\ packets' \in Seq(Buffers) /\ Len(packets') <= Spare
              /\ OneTo(packets)'
      BY <1>1, <1>4, <1>6, ReleaseOne, Zenon
<1>8. OwnTypeOK'
      BY <1>1, <1>3, <1>4, <1>7 DEF OwnTypeOK
<1>9. NoneTwice'
  <2>1. QueuesApart'
        BY <1>1, QueuesSame DEF OwnInv, NoneTwice
  <2>2. OneTo(rx_buffers)' /\ HandsApart'
        BY <1>1 DEF OwnInv, NoneTwice, OneTo, HandsApart
  <2> QED BY <1>4, <1>7, <2>1, <2>2 DEF NoneTwice
<1>10. UNCHANGED <<Slotted, Taken, InHand>>
      BY <1>1, PlacesSame, Zenon
<1>11. Shared'
      BY <1>4, <1>7, <1>10, DividedRelease, ZenonT(60) DEF OwnInv, Shared
<1>12. Protocol'
      BY <1>1, <1>2, <1>5 DEF OwnInv, Protocol, Polling, Holding
<1> QED BY <1>8, <1>9, <1>11, <1>12 DEF OwnInv

\* A received packet goes to the user and another one into its slot.
LEMMA OwnRecvRefill ==
    ASSUME OwnInv, NetInv, NEW u \in Users, RecvRefill(u)
    PROVE  OwnInv'
<1> DEFINE old == rx_buffers[rx_head]
<1>1. PICK b : allocate_packet(b) /\ rx_buffers' = [rx_buffers EXCEPT ![rx_head] = b]
      BY Zenon DEF RecvRefill, recv_refill
<1>2. /\ UNCHANGED <<udp_binds, queued, bind>>
      /\ hand' = [hand EXCEPT ![u] = old]
      BY ZenonT(60) DEF RecvRefill
<1>3. /\ pc[u] = "refill" /\ pc'[u] = "rx_tail"
      /\ \A v \in Users : v # u => pc'[v] = pc[v]
      BY GotoMoves DEF RecvRefill
<1>4. /\ OwnTypeOK /\ OneTo(packets) /\ OneTo(rx_buffers) /\ HandsApart
      /\ heap \cap Spares = {} /\ DOMAIN hand = Users /\ rx_head \in RxSlots
      BY Zenon DEF OwnInv, NoneTwice, Shared, Divided, NetInv, NetTypeOK
<1>5. /\ b \in heap \cup Spares /\ b \in Buffers
      /\ heap' = heap \ {b} /\ Spares' = Spares \ {b}
      /\ packets' \in Seq(Buffers) /\ Len(packets') <= Spare
      /\ OneTo(packets)'
      BY <1>1, <1>4, AllocateTakes
<1>6. /\ rx_buffers \in [RxSlots -> Buffers] /\ DOMAIN rx_buffers = RxSlots
      /\ old \in Slotted /\ old \in Buffers
      BY <1>4 DEF OwnTypeOK, Slotted
<1>7. b \notin Slotted
      BY <1>5 DEF OwnInv, Shared, Divided
<1>8. /\ DOMAIN rx_buffers' = RxSlots /\ rx_buffers'[rx_head] = b
      /\ \A i \in RxSlots : i # rx_head => rx_buffers'[i] = rx_buffers[i]
      BY <1>1, <1>4, <1>6
<1>9. rx_buffers' \in [RxSlots -> Buffers]
      BY <1>1, <1>5, <1>6, Zenon
<1>10. \A i \in RxSlots : i # rx_head => rx_buffers[i] # old /\ rx_buffers[i] # b
      BY <1>4, <1>6, <1>7 DEF OneTo, Slotted
<1>11. OneTo(rx_buffers)'
      BY <1>4, <1>6, <1>8, <1>10, Zenon DEF OneTo
<1>12. Slotted' = (Slotted \ {old}) \cup {b}
      BY <1>4, <1>8, <1>10, ZenonT(60) DEF Slotted
<1>13. hand[u] = NoBuffer /\ old \notin InHand
      BY <1>3, <1>6 DEF OwnInv, Protocol, Holding, Shared, Divided
<1>14. InHand' = InHand \cup {old} /\ HandsApart'
      BY <1>2, <1>4, <1>6, <1>13, HandTaken, Zenon
<1>15. OwnTypeOK'
      BY <1>2, <1>4, <1>5, <1>9 DEF OwnTypeOK
<1>16. NoneTwice'
  <2>1. QueuesApart' /\ BindsApart'
        BY <1>2, QueuesSame, BindsSame DEF OwnInv, NoneTwice
  <2> QED BY <1>5, <1>11, <1>14, <2>1 DEF NoneTwice
<1>17. UNCHANGED <<Bound, Taken>>
      BY <1>2, PlacesSame, Zenon
<1> HIDE DEF old
<1>18. Shared'
      BY <1>5, <1>6, <1>12, <1>14, <1>17, DividedRefill, ZenonT(60) DEF OwnInv, Shared
<1>19. Protocol'
  <2>1. hand'[u] = old /\ \A v \in Users : v # u => hand'[v] = hand[v]
        BY <1>2, <1>4
  <2> QED BY <1>2, <1>3, <1>6, <2>1 DEF OwnInv, Protocol, Polling, Holding
<1> QED BY <1>15, <1>16, <1>18, <1>19 DEF OwnInv

\* A lease that ends gives its packet back, as does a send that is done.
LEMMA OwnHandedBack ==
    ASSUME OwnInv, NetInv, NEW u \in Users, NEW from \in Holding, Goto(u, from, "idle"),
           Release(<<hand[u]>>), hand' = [hand EXCEPT ![u] = NoBuffer],
           UNCHANGED <<rx_buffers, udp_binds, queued, bind>>
    PROVE  OwnInv'
<1> DEFINE b == hand[u]
<1>1. /\ pc[u] = from /\ pc'[u] = "idle"
      /\ \A v \in Users : v # u => pc'[v] = pc[v]
      BY GotoMoves, Zenon
<1>2. DOMAIN hand = Users /\ HandsApart /\ b \in Buffers
  <2>1. DOMAIN hand = Users /\ HandsApart
        BY Zenon DEF NetInv, NetTypeOK, OwnInv, NoneTwice
  <2>2. b \in Buffers
        BY <1>1, Zenon DEF OwnInv, Protocol
  <2> QED BY <2>1, <2>2, Zenon
<1>3. InHand' = InHand \ {b} /\ b \in InHand /\ HandsApart'
      BY <1>2, HandEmptied, Zenon
<1>4. hand'[u] = NoBuffer /\ \A v \in Users : v # u => hand'[v] = hand[v]
      BY <1>2
<1>5. b \notin Spares
      BY <1>3 DEF OwnInv, Shared, Divided
<1>6. PICK kept \in SUBSET {b} :
              /\ Spares' = Spares \cup kept
              /\ heap' = heap \cup ({b} \ kept)
              /\ packets' \in Seq(Buffers) /\ Len(packets') <= Spare
              /\ OneTo(packets)'
      BY <1>2, <1>5, ReleaseOne, Zenon
<1> HIDE DEF b
<1>7. OwnTypeOK'
      BY <1>2, <1>6, Zenon DEF OwnInv, OwnTypeOK
<1>8. NoneTwice'
  <2>1. QueuesApart'
        BY QueuesSame DEF OwnInv, NoneTwice
  <2>2. BindsApart'
        BY BindsSame DEF OwnInv, NoneTwice
  <2>3. OneTo(rx_buffers)'
        BY DEF OwnInv, NoneTwice, OneTo
  <2> QED BY <1>3, <1>6, <2>1, <2>2, <2>3 DEF NoneTwice
<1>9. UNCHANGED <<Slotted, Bound, Taken>>
      BY PlacesSame, Zenon
<1>10. Shared'
      BY <1>3, <1>6, <1>9, DividedRelease, ZenonT(60) DEF OwnInv, Shared
<1>11. Protocol'
      BY <1>1, <1>4, Zenon DEF OwnInv, Protocol, Polling, Holding
<1> QED BY <1>7, <1>8, <1>10, <1>11, Zenon DEF OwnInv

\* A packet for another user's port goes to that port's queue.
LEMMA OwnHandedOn ==
    ASSUME OwnInv, NetInv, NEW u \in Users, Goto(u, "demux", "idle"),
           NEW p \in DOMAIN udp_binds, udp_binds' = [udp_binds EXCEPT ![p] = Append(@, hand[u])],
           hand' = [hand EXCEPT ![u] = NoBuffer],
           UNCHANGED <<packets, heap, rx_buffers, queued, bind>>
    PROVE  OwnInv'
<1> DEFINE b == hand[u]
<1>1. /\ pc[u] = "demux" /\ pc'[u] = "idle"
      /\ \A v \in Users : v # u => pc'[v] = pc[v]
      BY GotoMoves
<1>2. DOMAIN hand = Users /\ HandsApart /\ b \in Buffers /\ OwnTypeOK /\ BindsApart
  <2>1. DOMAIN hand = Users /\ HandsApart /\ OwnTypeOK /\ BindsApart
        BY Zenon DEF NetInv, NetTypeOK, OwnInv, NoneTwice
  <2>2. b \in Buffers
        BY <1>1 DEF OwnInv, Protocol, Holding
  <2> QED BY <2>1, <2>2
<1>3. InHand' = InHand \ {b} /\ b \in InHand /\ HandsApart'
      BY <1>2, HandEmptied, Zenon
<1>4. hand'[u] = NoBuffer /\ \A v \in Users : v # u => hand'[v] = hand[v]
      BY <1>2
<1>5. b \notin Bound
      BY <1>3 DEF OwnInv, Shared, Divided
<1>6. /\ Bound' = Bound \cup {b}
      /\ \A q \in DOMAIN udp_binds' : udp_binds'[q] \in Seq(Buffers)
      /\ BindsApart'
      BY <1>2, <1>5, BindGrows, Zenon
<1>7. DOMAIN udp_binds' = DOMAIN udp_binds
      OBVIOUS
<1> HIDE DEF b
<1>8. OwnTypeOK'
      BY <1>2, <1>6 DEF OwnTypeOK
<1>9. NoneTwice'
  <2>1. QueuesApart'
        BY QueuesSame DEF OwnInv, NoneTwice
  <2>2. OneTo(rx_buffers)' /\ OneTo(packets)'
        BY DEF OwnInv, NoneTwice, OneTo
  <2> QED BY <1>3, <1>6, <2>1, <2>2 DEF NoneTwice
<1>10. UNCHANGED <<Spares, Slotted, Taken>>
      BY PlacesSame, Zenon
<1>11. Shared'
      BY <1>3, <1>6, <1>10, SMTT(20) DEF OwnInv, Shared, Divided
<1>12. Protocol'
      BY <1>1, <1>4, <1>7, Zenon DEF OwnInv, Protocol, Polling, Holding
<1> QED BY <1>8, <1>9, <1>11, <1>12 DEF OwnInv

\* A received packet stays with its user, joins a queue or is given back.
LEMMA OwnDemux ==
    ASSUME OwnInv, NetInv, NEW u \in Users, Demux(u)
    PROVE  OwnInv'
<1>1. /\ Goto(u, "demux", "idle") /\ hand' = [hand EXCEPT ![u] = NoBuffer]
      /\ UNCHANGED <<rx_buffers, queued, bind>>
      BY DEF Demux
<1>2. CASE Release(<<hand[u]>>) /\ udp_binds' = udp_binds
      BY <1>1, <1>2, OwnHandedBack, Zenon DEF Holding
<1>3. CASE \E p \in DOMAIN udp_binds :
              /\ udp_binds' = [udp_binds EXCEPT ![p] = Append(@, hand[u])]
              /\ UNCHANGED <<packets, heap>>
      BY <1>1, <1>3, OwnHandedOn, Zenon
<1> QED BY <1>2, <1>3, Zenon DEF Demux, LeaseTaken

\* A user takes a spare packet or a new one.
LEMMA OwnAllocate ==
    ASSUME OwnInv, NetInv, NEW u \in Users, Allocate(u)
    PROVE  OwnInv'
<1>1. PICK b : allocate_packet(b) /\ hand' = [hand EXCEPT ![u] = b]
      BY Zenon DEF Allocate
<1>2. UNCHANGED <<rx_buffers, udp_binds, queued, bind>>
      BY Zenon DEF Allocate
<1>3. /\ pc[u] = "idle" /\ pc'[u] = "compose"
      /\ \A v \in Users : v # u => pc'[v] = pc[v]
      BY GotoMoves, Zenon DEF Allocate
<1>4. /\ OwnTypeOK /\ OneTo(packets) /\ HandsApart
      /\ heap \cap Spares = {} /\ DOMAIN hand = Users
      BY DEF OwnInv, NoneTwice, Shared, Divided, NetInv, NetTypeOK
<1>5. /\ b \in heap \cup Spares /\ b \in Buffers
      /\ heap' = heap \ {b} /\ Spares' = Spares \ {b}
      /\ packets' \in Seq(Buffers) /\ Len(packets') <= Spare
      /\ OneTo(packets)'
      BY <1>1, <1>4, AllocateTakes, ZenonT(60)
<1>6. hand[u] = NoBuffer /\ b \notin InHand
      BY <1>3, <1>5 DEF OwnInv, Protocol, Holding, Shared, Divided
<1>7. InHand' = InHand \cup {b} /\ HandsApart'
      BY <1>1, <1>4, <1>5, <1>6, HandTaken, Zenon
<1>8. OwnTypeOK'
      BY <1>2, <1>4, <1>5, Zenon DEF OwnTypeOK
<1>9. NoneTwice'
  <2>1. QueuesApart'
        BY <1>2, QueuesSame DEF OwnInv, NoneTwice
  <2>2. BindsApart'
        BY <1>2, BindsSame DEF OwnInv, NoneTwice
  <2>3. OneTo(rx_buffers)'
        BY <1>2 DEF OwnInv, NoneTwice, OneTo
  <2> QED BY <1>5, <1>7, <2>1, <2>2, <2>3 DEF NoneTwice
<1>10. UNCHANGED <<Slotted, Bound, Taken>>
      BY <1>2, PlacesSame, Zenon
<1>11. Shared'
      BY <1>5, <1>7, <1>10, SMTT(20) DEF OwnInv, Shared, Divided
<1>12. Protocol'
  <2>1. hand'[u] = b /\ \A v \in Users : v # u => hand'[v] = hand[v]
        BY <1>1, <1>4
  <2> QED BY <1>2, <1>3, <1>5, <2>1, Zenon DEF OwnInv, Protocol, Polling, Holding
<1> QED BY <1>8, <1>9, <1>11, <1>12 DEF OwnInv

\* Every step keeps every packet at one owner.
LEMMA OwnNext == OwnInv /\ NetInv /\ [Next]_vars => OwnInv'
<1> SUFFICES ASSUME OwnInv, NetInv, [Next]_vars PROVE OwnInv'
    OBVIOUS
<1> USE DEF Owners, gbit_vars, driver_vars, card_vars
<1>1. CASE UNCHANGED vars
      BY <1>1, OwnSame DEF vars, user_vars
<1>2. ASSUME NEW p \in Ports \cup {NotUdp}, FrameArrives(p) PROVE OwnInv'
      BY <1>2, OwnSame, Zenon DEF FrameArrives, CardReceives
<1>3. CASE Card
      BY <1>3, OwnSame DEF Card, CardTransmits, user_vars
<1>4. ASSUME NEW u \in Users, NEW p \in Ports, bind_udp(u, p) PROVE OwnInv'
      BY <1>4, OwnBind
<1>5. ASSUME NEW u \in Users, unbind_udp(u) \/ Poll(u) \/ Allocate(u) PROVE OwnInv'
  <2>1. CASE Poll(u)
        BY <2>1, OwnGoto DEF Poll, Holding
  <2> QED BY <1>5, <2>1, OwnUnbind, OwnAllocate, Zenon
<1>6. ASSUME NEW u \in Users, Continue(u) PROVE OwnInv'
  <2>1. pc[u] \in Polling => bind[u] # Nobody
        BY DEF OwnInv, Protocol
  <2>2. CASE recv_udp(u)
        BY <2>1, <2>2, OwnGoto, ZenonT(60) DEF recv_udp, Holding, Polling, Goto
  <2>3. CASE RecvNone(u)
        BY <2>3, OwnGoto DEF RecvNone, Holding, Polling
  <2>4. CASE RecvFrame(u)
        BY <2>1, <2>4, OwnGoto, Zenon DEF RecvFrame, Holding, Polling, Goto
  <2>5. CASE RecvTail(u)
        BY <2>1, <2>5, OwnGoto, Zenon DEF RecvTail, recv_tail, Holding, Polling, Goto
  <2>6. CASE create_udp_raw(u)
        BY <2>6, OwnGoto, Zenon DEF create_udp_raw, Holding, Polling
  <2>7. CASE send(u)
        BY <2>7, OwnGoto, Zenon DEF send, send_descriptor, Holding, Polling
  <2>8. CASE SendTail(u)
        BY <2>8, OwnGoto DEF SendTail, send_tail, Holding, Polling
  <2>9. CASE SendDone(u)
        BY <2>9, OwnHandedBack, Zenon DEF SendDone, send_done, Holding
  <2> QED BY <1>6, <2>2, <2>3, <2>4, <2>5, <2>6, <2>7, <2>8, <2>9, OwnUnbindRelease,
             OwnRecvQueued, OwnRecvRefill, OwnDemux, ZenonT(60) DEF Continue
<1> QED BY <1>1, <1>2, <1>3, <1>4, <1>5, <1>6 DEF Next

\* With exactly one kind of owner, and no two places of that kind, there is one
\* claim to every packet.
LEMMA OwnFollows == OwnInv => OneOwner
<1> SUFFICES ASSUME OwnInv, NEW b \in Buffers PROVE \E c \in Claims(b) : Claims(b) = {c}
    BY DEF OneOwner
<1> DEFINE H == {<<"heap">> : x \in heap \cap {b}}
           S == {<<"spare", i>> : i \in {j \in DOMAIN packets : packets[j] = b}}
           R == {<<"slot", i>> : i \in {j \in RxSlots : rx_buffers[j] = b}}
           B == UNION {{<<"bind", p, i>> : i \in {j \in DOMAIN udp_binds[p] : udp_binds[p][j] = b}} :
                          p \in DOMAIN udp_binds}
           Q == UNION {{<<"queued", u, i>> : i \in {j \in DOMAIN queued[u] : queued[u][j] = b}} :
                          u \in Users}
           U == {<<"hand", u>> : u \in {v \in Users : hand[v] = b}}
<1>1. Claims(b) = H \cup S \cup R \cup B \cup Q \cup U
      BY Zenon DEF Claims
<1>2. b # NoBuffer
      BY DEF Buffers, NoBuffer
<1>3. (b \notin heap => H = {}) /\ (b \in heap => \E x : H = {x})
  <2>1. b \notin heap => H = {}
        OBVIOUS
  <2>2. b \in heap => H = {<<"heap">>}
        BY Zenon
  <2> QED BY <2>1, <2>2, Zenon
<1>4. (b \notin Spares => S = {}) /\ (b \in Spares => \E x : S = {x})
  <2>1. b \notin Spares => S = {}
        BY DEF Spares, ToSet
  <2>2. ASSUME b \in Spares PROVE \E x : S = {x}
    <3>1. PICK k \in DOMAIN packets : packets[k] = b
          BY <2>2 DEF Spares, ToSet
    <3>2. {j \in DOMAIN packets : packets[j] = b} = {k}
          BY <3>1 DEF OwnInv, NoneTwice, OneTo
    <3>3. S = {<<"spare", k>>}
          BY <3>2, Zenon
    <3> QED BY <3>3, Zenon
  <2> QED BY <2>1, <2>2, Zenon
<1>5. (b \notin Slotted => R = {}) /\ (b \in Slotted => \E x : R = {x})
  <2>1. b \notin Slotted => R = {}
        BY DEF Slotted
  <2>2. ASSUME b \in Slotted PROVE \E x : R = {x}
    <3>1. PICK k \in RxSlots : rx_buffers[k] = b
          BY <2>2, Zenon DEF Slotted
    <3>2. {j \in RxSlots : rx_buffers[j] = b} = {k}
          BY <3>1, Zenon DEF OwnInv, NoneTwice, OneTo, OwnTypeOK
    <3>3. R = {<<"slot", k>>}
          BY <3>2, Zenon
    <3> QED BY <3>3, Zenon
  <2> QED BY <2>1, <2>2
<1>6. (b \notin Bound => B = {}) /\ (b \in Bound => \E x : B = {x})
  <2> DEFINE At(p) == {j \in DOMAIN udp_binds[p] : udp_binds[p][j] = b}
  <2>1. b \notin Bound => B = {}
        BY DEF Bound, ToSet
  <2>2. ASSUME b \in Bound PROVE \E x : B = {x}
    <3>1. PICK p \in DOMAIN udp_binds : b \in ToSet(udp_binds[p])
          BY <2>2, Zenon DEF Bound
    <3>2. PICK k \in DOMAIN udp_binds[p] : udp_binds[p][k] = b
          BY <3>1 DEF ToSet
    <3>3. At(p) = {k}
          BY <3>1, <3>2, ZenonT(60) DEF OwnInv, NoneTwice, BindsApart, OneTo
    <3>4. ASSUME NEW q \in DOMAIN udp_binds, q # p PROVE At(q) = {}
          BY <3>1, <3>4, Zenon DEF OwnInv, NoneTwice, BindsApart, ToSet
    <3> HIDE DEF At
    <3>5. UNION {{<<"bind", q, i>> : i \in At(q)} : q \in DOMAIN udp_binds} = {<<"bind", p, k>>}
          BY <3>3, <3>4, SMTT(30)
    <3> QED BY <3>5, Zenon DEF At
  <2> QED BY <2>1, <2>2, Zenon
<1>7. (b \notin Taken => Q = {}) /\ (b \in Taken => \E x : Q = {x})
  <2> DEFINE At(u) == {j \in DOMAIN queued[u] : queued[u][j] = b}
  <2>1. b \notin Taken => Q = {}
        BY DEF Taken, ToSet
  <2>2. ASSUME b \in Taken PROVE \E x : Q = {x}
    <3>1. PICK u \in Users : b \in ToSet(queued[u])
          BY <2>2 DEF Taken
    <3>2. PICK k \in DOMAIN queued[u] : queued[u][k] = b
          BY <3>1, Zenon DEF ToSet
    <3>3. At(u) = {k}
          BY <3>1, <3>2, ZenonT(60) DEF OwnInv, NoneTwice, QueuesApart, OneTo
    <3>4. ASSUME NEW v \in Users, v # u PROVE At(v) = {}
          BY <3>1, <3>4, Zenon DEF OwnInv, NoneTwice, QueuesApart, ToSet
    <3> HIDE DEF At
    <3>5. UNION {{<<"queued", v, i>> : i \in At(v)} : v \in Users} = {<<"queued", u, k>>}
          BY <3>3, <3>4, SMTT(20)
    <3> QED BY <3>5, Zenon DEF At
  <2> QED BY <2>1, <2>2
<1>8. (b \notin InHand => U = {}) /\ (b \in InHand => \E x : U = {x})
  <2>1. b \notin InHand => U = {}
        BY <1>2 DEF InHand
  <2>2. ASSUME b \in InHand PROVE \E x : U = {x}
    <3>1. PICK u \in Users : hand[u] = b
          BY <2>2 DEF InHand
    <3>2. {v \in Users : hand[v] = b} = {u}
          BY <1>2, <3>1 DEF OwnInv, NoneTwice, HandsApart
    <3>3. U = {<<"hand", u>>}
          BY <3>2
    <3> QED BY <3>3, Zenon
  <2> QED BY <2>1, <2>2
<1> HIDE DEF H, S, R, B, Q, U
<1>9. \E x : Claims(b) = {x}
  <2>1. Divided(heap, Spares, Slotted, Bound, Taken, InHand)
        BY DEF OwnInv, Shared
  <2> QED BY <1>1, <1>3, <1>4, <1>5, <1>6, <1>7, <1>8, <2>1, ZenonT(60) DEF Divided
<1> QED BY <1>9

\* In every state that binding, polling, sending and giving up ports reach, the
\* packets are divided among their owners.
THEOREM OwnInvariant == Spec => [](OwnInv /\ NetInv)
<1>1. Init => OwnInv /\ NetInv
      BY OwnInit, InitKeeps
<1>2. OwnInv /\ NetInv /\ [Next]_vars => (OwnInv /\ NetInv)'
      BY OwnNext, NextKeeps
<1> QED BY <1>1, <1>2, PTL DEF Spec

\* The packets that allocate_packet, recv, send, recv_udp and unbind_udp move
\* around are never doubled and never leaked, for any number of users, ports,
\* buffers and ring slots.
THEOREM OneOwnerHolds == Spec => []OneOwner
BY OwnInvariant, OwnFollows, PTL

-----------------------------------------------------------------------------
(* SendsOnce.                                                              *)

\* What a user puts into a packet.
Letters == [from : Users, n : Nat]
Sending == {"send", "tx_tail", "tx_wait"}
Letter(u) == ram[hand[u]]

\* The card has sent the packet of the user that waits.
Gone(u) == pc[u] = "tx_wait" /\ tdh = tdt

\* A packet that is being sent has what its user put into it.
SendTypeOK ==
    /\ composed \in Nat
    /\ DOMAIN ram = Buffers
    /\ sent \in Seq(Letters)
    /\ \A u \in Users : pc[u] \in Sending =>
            Letter(u) \in Letters /\ Letter(u).from = u /\ Letter(u).n <= composed

\* What u has yet to send is younger than all it has sent.
Younger(u, n) == \A i \in DOMAIN sent : sent[i].from = u => sent[i].n < n

\* Nothing went out twice, and the user that waits finds its packet last.
SentOnce ==
    /\ OneTo(sent)
    /\ \A i \in DOMAIN sent : sent[i].n <= composed
    /\ \A u \in Users : pc[u] = "compose" => Younger(u, composed)
    /\ \A u \in Users : pc[u] \in Sending /\ ~ Gone(u) => Younger(u, Letter(u).n)
    /\ \A u \in Users : Gone(u) => sent # << >> /\ Last(sent) = Letter(u)

\* The inductive invariant; it needs OwnInv, so that nobody else writes to the
\* packet, and NetInv, for the rings.
SendInv == SendTypeOK /\ SentOnce

\* What has gone out is a sequence of messages.
LEMMA SentTypes ==
    ASSUME SendInv
    PROVE  /\ composed \in Nat /\ sent \in Seq(Letters)
           /\ \A i \in DOMAIN sent : sent[i] \in Letters /\ sent[i].n \in Nat
<1>1. composed \in Nat /\ sent \in Seq(Letters)
      BY DEF SendInv, SendTypeOK
<1>2. \A i \in DOMAIN sent : sent[i] \in Letters
      BY <1>1
<1> QED BY <1>1, <1>2 DEF Letters

\* Nothing has gone out at the start.
LEMMA SendInit == Init => SendInv
<1> SUFFICES ASSUME Init PROVE SendInv
    OBVIOUS
<1>1. /\ composed = 0 /\ sent = << >> /\ ram = [b \in Buffers |-> << >>]
      /\ pc = [u \in Users |-> "idle"]
      BY DEF Init, NewCard
<1>2. sent \in Seq(Letters) /\ DOMAIN sent = {}
      BY <1>1
<1>3. SendTypeOK
      BY <1>1, <1>2 DEF SendTypeOK, Sending
<1>4. SentOnce
      BY <1>1, <1>2, Zenon DEF SentOnce, OneTo, Sending, Gone
<1> QED BY <1>3, <1>4 DEF SendInv

\* Steps that send nothing and compose nothing.
LEMMA SendKept ==
    ASSUME SendInv, UNCHANGED <<sent, composed>>, DOMAIN ram' = Buffers,
           \A u \in Users : pc'[u] \in Sending =>
               /\ pc[u] \in Sending /\ Letter(u)' = Letter(u)
               /\ Gone(u)' <=> Gone(u),
           \A u \in Users : pc'[u] = "compose" => pc[u] = "compose"
    PROVE  SendInv'
<1>1. SendTypeOK'
      BY Zenon DEF SendInv, SendTypeOK
<1>2. \A u \in Users : Gone(u)' => pc'[u] \in Sending
      BY DEF Gone, Sending
<1>3. SentOnce'
  <2>1. OneTo(sent)' /\ \A i \in DOMAIN sent' : sent'[i].n <= composed'
        BY Zenon DEF SendInv, SentOnce, OneTo
  <2>2. \A u \in Users : pc'[u] = "compose" => Younger(u, composed)'
        BY Zenon DEF SendInv, SentOnce, Younger
  <2>3. \A u \in Users : pc'[u] \in Sending /\ ~ Gone(u)' => Younger(u, Letter(u).n)'
        BY Zenon DEF SendInv, SentOnce, Younger
  <2>4. \A u \in Users : Gone(u)' => sent' # << >> /\ Last(sent)' = Letter(u)'
        BY <1>2, Zenon DEF SendInv, SentOnce, Last
  <2> QED BY <2>1, <2>2, <2>3, <2>4, Zenon DEF SentOnce
<1> QED BY <1>1, <1>3, Zenon DEF SendInv

\* Steps that leave the packets alone that are being sent.
LEMMA SendSame ==
    ASSUME SendInv, UNCHANGED <<ram, hand, sent, composed, pc, tdh, tdt>>
    PROVE  SendInv'
<1>1. \A u \in Users : /\ pc'[u] \in Sending => pc[u] \in Sending
                       /\ Letter(u)' = Letter(u)
                       /\ Gone(u)' <=> Gone(u)
                       /\ pc'[u] = "compose" => pc[u] = "compose"
      BY Zenon DEF Letter, Gone
<1>2. DOMAIN ram' = Buffers
      BY DEF SendInv, SendTypeOK
<1> QED BY <1>1, <1>2, SendKept, Zenon

\* A user that goes on in send without another message keeps the order.
LEMMA SendGoto ==
    ASSUME SendInv, NetInv, NEW u \in Users, NEW from, NEW to, Goto(u, from, to),
           UNCHANGED <<sent, composed, tdh, tdt>>, DOMAIN ram' = Buffers,
           \A v \in Users : v # u /\ pc[v] \in Sending => Letter(v)' = Letter(v),
           to \in Sending => from \in Sending /\ Letter(u)' = Letter(u),
           to # "compose", to # "tx_wait", from = "tx_wait" => to \notin Sending
    PROVE  SendInv'
<1>1. /\ pc[u] = from /\ pc'[u] = to
      /\ \A v \in Users : v # u => pc'[v] = pc[v]
      BY GotoMoves, Zenon
<1>2. \A v \in Users : pc'[v] \in Sending =>
               /\ pc[v] \in Sending /\ Letter(v)' = Letter(v)
               /\ Gone(v)' <=> Gone(v)
      BY <1>1, Zenon DEF Gone
<1>3. \A v \in Users : pc'[v] = "compose" => pc[v] = "compose"
      BY <1>1, Zenon
<1> QED BY <1>2, <1>3, SendKept, Zenon

\* Giving packets back changes no others.
LEMMA ReleaseLeaves ==
    ASSUME NEW s, Release(s)
    PROVE  /\ DOMAIN ram' = Buffers
           /\ \A b \in Buffers \ ToSet(s) : ram'[b] = ram[b]
BY Zenon DEF Release

\* A user in send has a packet that nobody else has.
LEMMA SendingHand ==
    ASSUME OwnInv, NEW v \in Users, pc[v] \in Sending \cup {"compose"}
    PROVE  /\ hand[v] \in Buffers /\ hand[v] \in InHand
           /\ \A w \in Users : hand[w] = hand[v] => w = v
<1>1. hand[v] \in Buffers
      BY DEF OwnInv, Protocol, Holding, Sending
<1>2. hand[v] # NoBuffer
      BY <1>1 DEF Buffers, NoBuffer
<1> QED BY <1>1, <1>2, Zenon DEF OwnInv, NoneTwice, HandsApart, InHand

\* Giving packets back touches no packet that is being sent.
LEMMA SendReleases ==
    ASSUME SendInv, OwnInv, NetInv, NEW u \in Users, NEW from, Goto(u, from, "idle"),
           NEW s, Release(s), ToSet(s) \cap (InHand \ {hand[u]}) = {},
           \A v \in Users : v # u => hand'[v] = hand[v],
           UNCHANGED <<sent, composed, tdh, tdt>>
    PROVE  SendInv'
<1>1. DOMAIN ram' = Buffers /\ \A b \in Buffers \ ToSet(s) : ram'[b] = ram[b]
      BY ReleaseLeaves, Zenon
<1>2. ASSUME NEW v \in Users, v # u, pc[v] \in Sending PROVE Letter(v)' = Letter(v)
  <2>1. hand[v] \in Buffers /\ hand[v] \in InHand /\ hand[v] # hand[u]
        BY <1>2, SendingHand, Zenon
  <2> QED BY <1>1, <1>2, <2>1, Zenon DEF Letter
<1> QED BY <1>1, <1>2, SendGoto, Zenon DEF Sending

\* Nor does giving back a queue.
LEMMA SendUnbindRelease ==
    ASSUME SendInv, OwnInv, NetInv, NEW u \in Users, UnbindRelease(u)
    PROVE  SendInv'
<1>1. ToSet(queued[u]) \subseteq Taken /\ Taken \cap InHand = {}
      BY Zenon DEF Taken, OwnInv, Shared, Divided
<1> QED BY <1>1, SendReleases, Zenon DEF UnbindRelease, card_vars

\* Nor does taking a packet from a queue.
LEMMA SendRecvQueued ==
    ASSUME SendInv, OwnInv, NetInv, NEW u \in Users, RecvQueued(u)
    PROVE  SendInv'
<1> DEFINE s == udp_binds[bind[u]]
<1>1. bind[u] \in DOMAIN udp_binds
      BY Zenon DEF RecvQueued, Goto, OwnInv, Protocol, Polling
<1>2. s \in Seq(Buffers) /\ s # << >> /\ OneTo(s)
      BY <1>1, Zenon DEF RecvQueued, HasQueued, OwnInv, OwnTypeOK, NoneTwice, BindsApart
<1>3. Head(s) \in ToSet(s)
      BY <1>2, HeadGone, Zenon
<1>4. Head(s) \in Bound
      BY <1>1, <1>3, Zenon DEF Bound
<1>5. ToSet(<<Head(s)>>) = {Head(s)} /\ Head(s) \notin InHand
      BY <1>4, SMTT(30) DEF ToSet, OwnInv, Shared, Divided
<1> HIDE DEF s
<1> QED BY <1>5, SendReleases, Zenon DEF RecvQueued, card_vars, s

\* Nor does giving back the packet in hand.
LEMMA SendHandedBack ==
    ASSUME SendInv, OwnInv, NetInv, NEW u \in Users, NEW from, Goto(u, from, "idle"),
           Release(<<hand[u]>>), hand' = [hand EXCEPT ![u] = NoBuffer],
           UNCHANGED <<sent, composed, tdh, tdt>>
    PROVE  SendInv'
<1>1. ToSet(<<hand[u]>>) = {hand[u]}
      BY SMTT(20) DEF ToSet
<1>2. \A v \in Users : v # u => hand'[v] = hand[v]
      BY Zenon DEF NetInv, NetTypeOK
<1> QED BY <1>1, <1>2, SendReleases

\* Nor does sorting out a received packet.
LEMMA SendDemux ==
    ASSUME SendInv, OwnInv, NetInv, NEW u \in Users, Demux(u)
    PROVE  SendInv'
<1>1. /\ Goto(u, "demux", "idle") /\ hand' = [hand EXCEPT ![u] = NoBuffer]
      /\ UNCHANGED <<sent, composed, tdh, tdt>>
      BY DEF Demux, card_vars
<1>2. CASE Release(<<hand[u]>>)
      BY <1>1, <1>2, SendHandedBack, Zenon
<1>3. CASE ram' = ram
  <2>1. \A v \in Users : v # u => hand'[v] = hand[v]
        BY <1>1, Zenon DEF NetInv, NetTypeOK
  <2>2. \A v \in Users : v # u => Letter(v)' = Letter(v)
        BY <1>3, <2>1, Zenon DEF Letter
  <2>3. DOMAIN ram' = Buffers
        BY <1>3 DEF SendInv, SendTypeOK
  <2> QED BY <1>1, <2>2, <2>3, SendGoto DEF Sending
<1> QED BY <1>2, <1>3, Zenon DEF Demux, LeaseTaken

\* A step that writes no packet keeps the order.
LEMMA SendPasses ==
    ASSUME SendInv, NetInv, NEW u \in Users, NEW from, NEW to, Goto(u, from, to),
           UNCHANGED <<ram, sent, composed, tdh, tdt>>,
           \A v \in Users : v # u => hand'[v] = hand[v],
           to \in Sending => from \in Sending /\ hand'[u] = hand[u],
           to # "compose", to # "tx_wait", from # "tx_wait"
    PROVE  SendInv'
<1>1. DOMAIN ram' = Buffers
      BY ZenonT(60) DEF SendInv, SendTypeOK
<1>2. \A v \in Users : v # u => Letter(v)' = Letter(v)
      BY Zenon DEF Letter
<1>3. to \in Sending => Letter(u)' = Letter(u)
      BY DEF Letter
<1> QED BY <1>1, <1>2, <1>3, SendGoto, Zenon

\* A packet taken for a new message is not one that is being sent.
LEMMA SendAllocate ==
    ASSUME SendInv, OwnInv, NetInv, NEW u \in Users, Allocate(u)
    PROVE  SendInv'
<1>1. /\ pc[u] = "idle" /\ pc'[u] = "compose"
      /\ \A v \in Users : v # u => pc'[v] = pc[v]
      BY GotoMoves, Zenon DEF Allocate
<1>2. /\ \A v \in Users : v # u => hand'[v] = hand[v]
      /\ UNCHANGED <<ram, sent, tdh, tdt>> /\ composed' = composed + 1
  <2>1. PICK b : hand' = [hand EXCEPT ![u] = b]
        BY Zenon DEF Allocate
  <2>2. \A v \in Users : v # u => hand'[v] = hand[v]
        BY <2>1, ZenonT(60) DEF NetInv, NetTypeOK
  <2> QED BY <2>2 DEF Allocate, card_vars
<1>3. \A v \in Users : v # u => Letter(v)' = Letter(v) /\ (Gone(v)' <=> Gone(v))
      BY <1>1, <1>2 DEF Letter, Gone
<1>4. composed \in Nat /\ sent \in Seq(Letters) /\ \A i \in DOMAIN sent : sent[i].n \in Nat
      BY SentTypes, Zenon
<1>5. \A v \in Users : pc'[v] \in Sending => v # u /\ pc[v] \in Sending
      BY <1>1, Zenon DEF Sending
<1>6. SendTypeOK'
  <2>1. ASSUME NEW v \in Users, pc'[v] \in Sending
        PROVE  Letter(v)' \in Letters /\ Letter(v)'.from = v /\ Letter(v)'.n <= composed'
    <3>1. v # u /\ pc[v] \in Sending
          BY <1>5, <2>1, ZenonT(60)
    <3>2. Letter(v) \in Letters /\ Letter(v).from = v /\ Letter(v).n <= composed
          BY <3>1 DEF SendInv, SendTypeOK
    <3>3. Letter(v).n \in Nat
          BY <3>2, Zenon DEF Letters
    <3>4. Letter(v).n <= composed + 1
          BY <1>4, <3>2, <3>3, OneMore, Zenon
    <3> QED BY <1>2, <1>3, <3>1, <3>2, <3>4, Zenon
  <2>2. composed' \in Nat /\ DOMAIN ram' = Buffers /\ sent' \in Seq(Letters)
    <3>1. DOMAIN ram = Buffers /\ composed + 1 \in Nat
          BY <1>4, OneMore, Zenon DEF SendInv, SendTypeOK
    <3> QED BY <1>2, <1>4, <3>1, ZenonT(60)
  <2> QED BY <2>1, <2>2, Zenon DEF SendTypeOK
<1>7. SentOnce'
  <2>1. OneTo(sent)' /\ \A i \in DOMAIN sent' : sent'[i].n <= composed'
        BY <1>2, <1>4, OneMore, Zenon DEF SendInv, SentOnce, OneTo
  <2>2. \A v \in Users : pc'[v] = "compose" => Younger(v, composed)'
        BY <1>2, <1>4, OneMore, Zenon DEF SendInv, SentOnce, Younger
  <2>3. \A v \in Users : pc'[v] \in Sending /\ ~ Gone(v)' => Younger(v, Letter(v).n)'
        BY <1>2, <1>3, <1>5, Zenon DEF SendInv, SentOnce, Younger
  <2>4. \A v \in Users : Gone(v)' => sent' # << >> /\ Last(sent)' = Letter(v)'
        BY <1>1, <1>2, <1>3, Zenon DEF SendInv, SentOnce, Last, Gone
  <2> QED BY <2>1, <2>2, <2>3, <2>4, ZenonT(60) DEF SentOnce
<1> QED BY <1>6, <1>7 DEF SendInv

\* A new message is newer than all that went out.
LEMMA SendCompose ==
    ASSUME SendInv, OwnInv, NetInv, NEW u \in Users, create_udp_raw(u)
    PROVE  SendInv'
<1>1. /\ pc[u] = "compose" /\ pc'[u] = "send"
      /\ \A v \in Users : v # u => pc'[v] = pc[v]
      BY GotoMoves, Zenon DEF create_udp_raw
<1>2. /\ UNCHANGED <<hand, sent, tdh, tdt, composed>>
      /\ ram' = [ram EXCEPT ![hand[u]] = [from |-> u, n |-> composed]]
      BY Zenon DEF create_udp_raw, card_vars
<1>3. /\ composed \in Nat /\ DOMAIN ram = Buffers /\ hand[u] \in Buffers
      /\ \A v \in Users : v # u => hand[v] # hand[u]
      BY <1>1, SendingHand, Zenon DEF SendInv, SendTypeOK
<1>4. Letter(u)' = [from |-> u, n |-> composed] /\ DOMAIN ram' = Buffers
      BY <1>2, <1>3, Zenon DEF Letter
<1>5. \A v \in Users : v # u /\ pc[v] \in Sending =>
            Letter(v)' = Letter(v) /\ (Gone(v)' <=> Gone(v))
  <2>1. ASSUME NEW v \in Users, v # u, pc[v] \in Sending PROVE hand[v] \in Buffers
        BY <2>1, SendingHand, Zenon
  <2> QED BY <1>1, <1>2, <1>3, <2>1, Zenon DEF Letter, Gone
<1>6. \A v \in Users : pc'[v] \in Sending => v = u \/ (v # u /\ pc[v] \in Sending)
      BY <1>1, Zenon
<1>7. SendTypeOK'
  <2>1. Letter(u)' \in Letters /\ Letter(u)'.from = u /\ Letter(u)'.n <= composed'
        BY <1>2, <1>3, <1>4 DEF Letters
  <2>2. ASSUME NEW v \in Users, v # u, pc[v] \in Sending
        PROVE  Letter(v)' \in Letters /\ Letter(v)'.from = v /\ Letter(v)'.n <= composed'
    <3>1. Letter(v) \in Letters /\ Letter(v).from = v /\ Letter(v).n <= composed
          BY <2>2, Zenon DEF SendInv, SendTypeOK
    <3>2. Letter(v)' = Letter(v) /\ composed' = composed
          BY <1>2, <1>5, <2>2, Zenon
    <3> QED BY <3>1, <3>2, Zenon
  <2>3. composed' \in Nat /\ DOMAIN ram' = Buffers /\ sent' \in Seq(Letters)
        BY <1>2, <1>4 DEF SendInv, SendTypeOK
  <2>4. ASSUME NEW v \in Users, pc'[v] \in Sending
        PROVE  Letter(v)' \in Letters /\ Letter(v)'.from = v /\ Letter(v)'.n <= composed'
        BY <1>6, <2>1, <2>2, <2>4, Zenon
  <2> QED BY <2>3, <2>4, Zenon DEF SendTypeOK
<1>8. SentOnce'
  <2>1. OneTo(sent)' /\ \A i \in DOMAIN sent' : sent'[i].n <= composed'
        BY <1>2, Zenon DEF SendInv, SentOnce, OneTo
  <2>2. \A v \in Users : pc'[v] = "compose" => Younger(v, composed)'
        BY <1>1, <1>2, ZenonT(60) DEF SendInv, SentOnce, Younger
  <2>3. \A v \in Users : pc'[v] \in Sending /\ ~ Gone(v)' => Younger(v, Letter(v).n)'
    <3>1. Younger(u, Letter(u).n)'
      <4>1. Younger(u, composed)
            BY <1>1, Zenon DEF SendInv, SentOnce
      <4>2. Letter(u)'.n = composed
            BY <1>4
      <4> QED BY <1>2, <4>1, <4>2 DEF Younger
    <3>2. ASSUME NEW v \in Users, v # u, pc[v] \in Sending, ~ Gone(v)'
          PROVE  Younger(v, Letter(v).n)'
          BY <1>2, <1>5, <3>2, Zenon DEF SendInv, SentOnce, Younger
    <3> QED BY <1>6, <3>1, <3>2, Zenon
  <2>4. \A v \in Users : Gone(v)' => sent' # << >> /\ Last(sent)' = Letter(v)'
    <3>1. \A v \in Users : Gone(v)' => v # u /\ pc[v] \in Sending
          BY <1>1 DEF Gone, Sending
    <3> QED BY <1>2, <1>5, <3>1, Zenon DEF SendInv, SentOnce, Last
  <2> QED BY <2>1, <2>2, <2>3, <2>4 DEF SentOnce
<1> QED BY <1>7, <1>8 DEF SendInv

\* The packet that waits to be sent is not the card's until the tail moves.
LEMMA SendSendTail ==
    ASSUME SendInv, OwnInv, NetInv, NEW u \in Users, SendTail(u)
    PROVE  SendInv'
<1>1. /\ pc[u] = "tx_tail" /\ pc'[u] = "tx_wait"
      /\ \A v \in Users : v # u => pc'[v] = pc[v]
      BY GotoMoves DEF SendTail
<1>2. UNCHANGED <<hand, sent, composed, ram, tdh>> /\ tdt' = TxTail
      BY DEF SendTail, send_tail
<1>3. \A v \in Users : v # u => pc[v] # "tx_wait"
      BY <1>1 DEF NetInv, DriverLocked, InDriver
<1>4. tdh = tx_head /\ tx_head \in TxSlots
      BY <1>1, <1>3, Zenon DEF NetInv, NetTypeOK, TxIdle
<1>5. TxTail # tx_head
      BY <1>4, IntelGbitAssumption, NextIsOneAway, Zenon DEF TxTail, TxSlots
<1>6. \A v \in Users : pc'[v] \in Sending =>
               /\ pc[v] \in Sending /\ Letter(v)' = Letter(v)
               /\ Gone(v)' <=> Gone(v)
      BY <1>1, <1>2, <1>3, <1>4, <1>5, Zenon DEF Letter, Gone, Sending
<1>7. \A v \in Users : pc'[v] = "compose" => pc[v] = "compose"
      BY <1>1, Zenon
<1>8. DOMAIN ram' = Buffers
      BY <1>2, Zenon DEF SendInv, SendTypeOK
<1> QED BY <1>2, <1>6, <1>7, <1>8, SendKept, ZenonT(60)

\* A frame comes in: the card writes to a receive slot.
LEMMA SendFrameArrives ==
    ASSUME SendInv, OwnInv, NetInv, NEW p, FrameArrives(p)
    PROVE  SendInv'
<1> DEFINE b == rx_descriptors[rdh].buffer
<1>1. /\ UNCHANGED <<hand, sent, composed, pc, tdh, tdt>>
      /\ \E f : ram' = [ram EXCEPT ![b] = f]
      BY Zenon DEF FrameArrives, CardReceives
<1>2. b \in Slotted /\ b \notin InHand
      BY Zenon DEF NetInv, NetTypeOK, SlotsAgree, Slotted, OwnInv, Shared, Divided
<1> HIDE DEF b
<1>3. DOMAIN ram' = Buffers /\ \A x \in Buffers : x # b => ram'[x] = ram[x]
      BY <1>1, ZenonT(60) DEF SendInv, SendTypeOK
<1>4. ASSUME NEW v \in Users, pc[v] \in Sending PROVE Letter(v)' = Letter(v)
      BY <1>1, <1>2, <1>3, <1>4, SendingHand, SMTT(20) DEF Letter
<1>5. \A v \in Users : Gone(v)' <=> Gone(v)
      BY <1>1 DEF Gone
<1> QED BY <1>1, <1>3, <1>4, <1>5, SendKept

\* The card sends the packet of the user that waits.
LEMMA SendCard ==
    ASSUME SendInv, OwnInv, NetInv, Card
    PROVE  SendInv'
<1>1. PICK u \in Users : /\ pc[u] = "tx_wait"
                         /\ tdh = tx_head /\ tdt = TxTail
                         /\ tx_descriptors[tdh].buffer = hand[u]
      BY SendingUser, Zenon DEF Card, CardTransmits
<1> DEFINE l == Letter(u)
<1>2. /\ UNCHANGED <<hand, pc, composed, ram, tdt>>
      /\ tdh # tdt /\ tdh' = tdt /\ sent' = Append(sent, l)
      BY <1>1, Zenon DEF Card, CardTransmits, user_vars, TxTail, Letter
<1>3. /\ composed \in Nat /\ sent \in Seq(Letters)
      /\ \A i \in DOMAIN sent : sent[i] \in Letters /\ sent[i].n \in Nat
      BY SentTypes
<1>4. l \in Letters /\ l.from = u /\ l.n \in Nat /\ l.n <= composed
  <2>1. l \in Letters /\ l.from = u /\ l.n <= composed
        BY <1>1 DEF SendInv, SendTypeOK, Sending
  <2> QED BY <2>1, Zenon DEF Letters
<1>5. ~ Gone(u) /\ Younger(u, l.n)
      BY <1>1, <1>2, Zenon DEF Gone, Sending, SendInv, SentOnce
<1>6. \A v \in Users : Letter(v)' = Letter(v)
      BY <1>2, Zenon DEF Letter
<1>7. \A v \in Users : v # u => pc[v] # "tx_wait"
      BY <1>1, Zenon DEF NetInv, DriverLocked, InDriver
<1> HIDE DEF l
<1>8. /\ Len(sent) \in Nat /\ DOMAIN sent = 1 .. Len(sent)
      /\ sent' \in Seq(Letters) /\ DOMAIN sent' = 1 .. Len(sent) + 1
      /\ Len(sent') = Len(sent) + 1
      /\ \A i \in DOMAIN sent : sent'[i] = sent[i]
      /\ sent'[Len(sent) + 1] = l
      BY <1>2, <1>3, <1>4, SMTT(30)
<1>9. \A i \in DOMAIN sent' : i \in DOMAIN sent \/ i = Len(sent) + 1
      BY <1>8
<1>10. SendTypeOK'
      BY <1>2, <1>6, <1>8, ZenonT(60) DEF SendInv, SendTypeOK
<1>11. SentOnce'
  <2>1. OneTo(sent)'
    <3>1. \A i \in DOMAIN sent : sent[i] # l
          BY <1>3, <1>4, <1>5, NotBelowItself, Zenon DEF Younger
    <3> QED BY <1>8, <1>9, <3>1, Zenon DEF SendInv, SentOnce, OneTo
  <2>2. \A i \in DOMAIN sent' : sent'[i].n <= composed'
        BY <1>2, <1>4, <1>8, <1>9, Zenon DEF SendInv, SentOnce
  <2>3. ASSUME NEW v \in Users, v # u, NEW n, Younger(v, n) PROVE Younger(v, n)'
        BY <1>4, <1>8, <1>9, <2>3 DEF Younger
  <2>4. \A v \in Users : pc'[v] = "compose" => Younger(v, composed)'
        BY <1>1, <1>2, <2>3, ZenonT(60) DEF SendInv, SentOnce
  <2>5. \A v \in Users : Gone(v)' <=> v = u
        BY <1>1, <1>2, <1>7, Zenon DEF Gone
  <2>6. ASSUME NEW v \in Users, v # u, pc[v] \in Sending PROVE Younger(v, Letter(v).n)'
    <3>1. Younger(v, Letter(v).n)
          BY <1>7, <2>6 DEF SendInv, SentOnce, Gone
    <3> QED BY <1>6, <2>3, <2>6, <3>1, Zenon
  <2>7. sent' # << >> /\ Last(sent)' = Letter(u)'
        BY <1>6, <1>8, SMTT(30) DEF Last, l
  <2> QED BY <1>2, <2>1, <2>2, <2>4, <2>5, <2>6, <2>7, Zenon DEF SentOnce
<1> QED BY <1>10, <1>11, Zenon DEF SendInv

\* Every step keeps the order.
LEMMA SendNext == SendInv /\ OwnInv /\ NetInv /\ [Next]_vars => SendInv'
<1> SUFFICES ASSUME SendInv, OwnInv, NetInv, [Next]_vars PROVE SendInv'
    BY Zenon
<1> USE DEF gbit_vars, driver_vars, card_vars
<1>1. CASE UNCHANGED vars
      BY <1>1, SendSame DEF vars, user_vars
<1>2. ASSUME NEW p \in Ports \cup {NotUdp}, FrameArrives(p) PROVE SendInv'
      BY <1>2, SendFrameArrives
<1>3. CASE Card
      BY <1>3, SendCard, Zenon
<1>4. ASSUME NEW u \in Users, NEW p \in Ports, bind_udp(u, p) PROVE SendInv'
      BY <1>4, SendSame DEF bind_udp
<1>5. ASSUME NEW u \in Users, unbind_udp(u) \/ Poll(u) \/ Allocate(u) PROVE SendInv'
  <2>1. CASE Poll(u)
        BY <2>1, SendPasses, Zenon DEF Poll, Sending
  <2>2. CASE unbind_udp(u)
        BY <2>2, SendPasses, Zenon DEF unbind_udp, Sending
  <2> QED BY <1>5, <2>1, <2>2, SendAllocate, Zenon
<1>6. ASSUME NEW u \in Users, Continue(u) PROVE SendInv'
  <2>2. CASE recv_udp(u)
        BY <2>2, SendPasses, Zenon DEF recv_udp, Sending
  <2>3. CASE RecvNone(u)
        BY <2>3, SendPasses, Zenon DEF RecvNone, Sending
  <2>4. CASE RecvFrame(u)
        BY <2>4, SendPasses, Zenon DEF RecvFrame, Sending
  <2>5. CASE RecvTail(u)
        BY <2>5, SendPasses, Zenon DEF RecvTail, recv_tail, Sending
  <2>6. CASE RecvRefill(u)
    <3>1. \A v \in Users : v # u => hand'[v] = hand[v]
          BY <2>6, ZenonT(60) DEF RecvRefill, NetInv, NetTypeOK
    <3> QED BY <2>6, <3>1, SendPasses DEF RecvRefill, recv_refill, Sending
  <2>7. CASE send(u)
        BY <2>7, SendPasses DEF send, send_descriptor, Sending
  <2>8. CASE SendDone(u)
        BY <2>8, SendHandedBack, Zenon DEF SendDone, send_done
  <2> QED BY <1>6, <2>2, <2>3, <2>4, <2>5, <2>6, <2>7, <2>8, SendUnbindRelease,
             SendRecvQueued, SendDemux, SendCompose, SendSendTail, Zenon DEF Continue
<1> QED BY <1>1, <1>2, <1>3, <1>4, <1>5, <1>6 DEF Next

\* What SendsOnce says of a step.
SendsOnceStep ==
    /\ \A i, j \in DOMAIN sent' : i # j => sent'[i] # sent'[j]
    /\ \A u \in Users : pc[u] = "tx_wait" /\ pc'[u] = "idle"
         => /\ sent # << >>
            /\ Last(sent) = ram[hand[u]]
            /\ Last(sent).from = u

\* The wait in send ends only once the card has the packet out.
LEMMA WaitEnds ==
    ASSUME NetInv, [Next]_vars, NEW u \in Users, pc[u] = "tx_wait", pc'[u] = "idle"
    PROVE  Gone(u)
<1>1. ASSUME NEW v \in Users, NEW from, NEW to, from # "tx_wait", Goto(v, from, to)
      PROVE  FALSE
      BY <1>1, GotoMoves, Zenon
<1>2. pc' # pc
      OBVIOUS
<1>3. CASE \E v \in Users : SendDone(v)
  <2>1. SendDone(u)
    <3>1. PICK v \in Users : SendDone(v)
          BY <1>3, Zenon
    <3>2. v = u
          BY <3>1, GotoMoves, Zenon DEF SendDone
    <3> QED BY <3>1, <3>2, Zenon
  <2>2. Transmitted /\ TxPending(u)
        BY <2>1, Zenon DEF SendDone, send_done, NetInv, TxInOrder
  <2> QED BY <2>2, Zenon DEF TxPending, TxReady, Gone
<1>4. CASE UNCHANGED vars
      BY <1>2, <1>4 DEF vars, user_vars
<1>5. CASE Card \/ \E p \in Ports \cup {NotUdp} : FrameArrives(p)
      BY <1>2, <1>5, Zenon DEF Card, FrameArrives, user_vars
<1>6. CASE \E v \in Users, p \in Ports : bind_udp(v, p)
      BY <1>2, <1>6, ZenonT(60) DEF bind_udp
<1>7. CASE \E v \in Users : unbind_udp(v) \/ Poll(v) \/ Allocate(v)
      BY <1>1, <1>7 DEF unbind_udp, Poll, Allocate
<1>8. CASE \E v \in Users : UnbindRelease(v) \/ recv_udp(v) \/ RecvQueued(v) \/ RecvNone(v)
      BY <1>1, <1>8, Zenon DEF UnbindRelease, recv_udp, RecvQueued, RecvNone
<1>9. CASE \E v \in Users : RecvFrame(v) \/ RecvRefill(v) \/ RecvTail(v) \/ Demux(v)
      BY <1>1, <1>9, Zenon DEF RecvFrame, RecvRefill, RecvTail, Demux
<1>10. CASE \E v \in Users : create_udp_raw(v) \/ send(v) \/ SendTail(v)
      BY <1>1, <1>10, Zenon DEF create_udp_raw, send, SendTail
<1> QED BY <1>3, <1>4, <1>5, <1>6, <1>7, <1>8, <1>9, <1>10, Zenon DEF Next, Continue

\* So the card sends each message once.
LEMMA SendsOnceFollows ==
    ASSUME NetInv, SendInv, SendInv', [Next]_vars
    PROVE  SendsOnceStep
<1>1. \A i, j \in DOMAIN sent' : i # j => sent'[i] # sent'[j]
      BY Zenon DEF SendInv, SentOnce, OneTo
<1>2. ASSUME NEW u \in Users, pc[u] = "tx_wait", pc'[u] = "idle"
      PROVE  sent # << >> /\ Last(sent) = ram[hand[u]] /\ Last(sent).from = u
  <2>1. Gone(u)
        BY <1>2, WaitEnds
  <2> QED BY <1>2, <2>1, Zenon DEF SendInv, SentOnce, SendTypeOK, Sending, Letter
<1> QED BY <1>1, <1>2, Zenon DEF SendsOnceStep

\* A send returns only after its own packet has gone out with the contents that
\* its user wrote, and no packet goes out twice, however sends of other users,
\* received frames and releases interleave.
THEOREM SendsOnceHolds == Spec => SendsOnce
<1>1. Init => SendInv
      BY SendInit
<1>2. SendInv /\ OwnInv /\ NetInv /\ [Next]_vars => SendInv'
      BY SendNext
<1>3. NetInv /\ SendInv /\ SendInv' /\ [Next]_vars => [SendsOnceStep]_vars
      BY SendsOnceFollows
<1>4. Spec => [][SendsOnceStep]_vars
      BY <1>1, <1>2, <1>3, OwnInvariant, PTL DEF Spec
<1> QED BY <1>4 DEF SendsOnce, SendsOnceStep

=============================================================================
