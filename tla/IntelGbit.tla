----------------------------- MODULE IntelGbit ------------------------------
(***************************************************************************)
(* The Intel gigabit driver of kernel/src/e1000.rs: the receive and the    *)
(* transmit ring it shares with the card, the buffers behind them and its  *)
(* list of spare packets; and the card, which works on its part of the     *)
(* rings by DMA at any time.  The driver's operations run under the lock   *)
(* that NetDevice puts around it.                                          *)
(***************************************************************************)
EXTENDS Integers, Sequences

CONSTANTS NUM_RX_DESCS,   \* 8
          NUM_TX_DESCS,   \* 16
          Spare,          \* capacity of the list of spare packets: 128
          NBuffers        \* packets there is memory for

ASSUME IntelGbitAssumption == /\ NUM_RX_DESCS \in Nat \ {0, 1}
                              /\ NUM_TX_DESCS \in Nat \ {0, 1}
                              /\ Spare \in Nat /\ NBuffers \in Nat
                              /\ NUM_RX_DESCS < NBuffers

Buffers == 0 .. NBuffers - 1
NoBuffer == -1
RxSlots == 0 .. NUM_RX_DESCS - 1
TxSlots == 0 .. NUM_TX_DESCS - 1

ToSet(s) == {s[i] : i \in DOMAIN s}
Last(s) == s[Len(s)]
Front(s) == SubSeq(s, 1, Len(s) - 1)

VARIABLES rx_descriptors,   \* buffer, and status bit 0 ("done")
          rx_buffers, rx_head,
          tx_descriptors, tx_head,
          packets,          \* the spare packets
          rdh, rdt,         \* the card works on the slots from rdh up to rdt,
          tdh, tdt,         \* and from tdh up to tdt
          ram,              \* what the buffers contain; no more once released
          heap,             \* packets that are not allocated
          sent              \* what went over the wire

driver_vars == <<rx_descriptors, rx_buffers, rx_head, tx_descriptors, tx_head, packets>>
card_vars == <<rdh, rdt, tdh, tdt>>
gbit_vars == <<driver_vars, card_vars, ram, heap, sent>>

\* IntelGbit::new: a packet for every receive descriptor.
NewDriver ==
    /\ rx_buffers = [i \in RxSlots |-> i]
    /\ rx_descriptors = [i \in RxSlots |-> [buffer |-> i, done |-> FALSE]]
    /\ rx_head = 0
    /\ tx_descriptors = [i \in TxSlots |-> [buffer |-> NoBuffer, done |-> FALSE]]
    /\ tx_head = 0
    /\ packets = << >>
    /\ heap = Buffers \ RxSlots

\* The registers: the card gets all receive descriptors but one.
NewCard ==
    /\ rdh = 0 /\ rdt = NUM_RX_DESCS - 1
    /\ tdh = 0 /\ tdt = 0
    /\ ram = [b \in Buffers |-> << >>]
    /\ sent = << >>

-----------------------------------------------------------------------------
(* Spare packets.                                                          *)

\* Packet::new() is an argument of unwrap_or and runs in any case.
allocate_packet(b) ==
    /\ heap # {}
    /\ \/ /\ packets # << >>
          /\ b = Last(packets)
          /\ packets' = Front(packets)
          /\ UNCHANGED heap
       \/ /\ packets = << >>
          /\ b = CHOOSE x \in heap : TRUE
          /\ heap' = heap \ {b}
          /\ UNCHANGED packets

\* release_packet for every packet of s: to the list while it has room, else
\* to the system.
Release(s) ==
    LET room == Spare - Len(packets)
        n == IF Len(s) <= room THEN Len(s) ELSE room IN
    /\ packets' = packets \o SubSeq(s, 1, n)
    /\ heap' = heap \cup ToSet(SubSeq(s, n + 1, Len(s)))
    /\ ram' = [b \in Buffers |-> IF b \in ToSet(s) THEN << >> ELSE ram[b]]

-----------------------------------------------------------------------------
(* Receiving.                                                              *)

present == rx_descriptors[rx_head].done

\* A plausible slip: the descriptor is put back up with the buffer it had.
RefilledOld(b) == [buffer |-> rx_descriptors[rx_head].buffer, done |-> FALSE]

Refilled(b) == [buffer |-> b, done |-> FALSE]

\* A new packet takes the place of the received one, in the list of buffers and
\* in the descriptor.
recv_refill(b) ==
    /\ allocate_packet(b)
    /\ rx_buffers' = [rx_buffers EXCEPT ![rx_head] = b]
    /\ rx_descriptors' = [rx_descriptors EXCEPT ![rx_head] = Refilled(b)]
    /\ UNCHANGED <<rx_head, tx_descriptors, tx_head, card_vars, ram, sent>>

\* The card gets the descriptor back.
recv_tail ==
    /\ rdt' = rx_head
    /\ rx_head' = (rx_head + 1) % NUM_RX_DESCS
    /\ UNCHANGED <<rx_descriptors, rx_buffers, tx_descriptors, tx_head, packets,
                   rdh, tdh, tdt, ram, heap, sent>>

-----------------------------------------------------------------------------
(* Sending.                                                                *)

send_descriptor(b) ==
    /\ tx_descriptors' = [tx_descriptors EXCEPT ![tx_head] = [buffer |-> b, done |-> FALSE]]
    /\ UNCHANGED <<rx_descriptors, rx_buffers, rx_head, tx_head, packets, card_vars,
                   ram, heap, sent>>

TxTail == (tx_head + 1) % NUM_TX_DESCS

send_tail ==
    /\ tdt' = TxTail
    /\ UNCHANGED <<driver_vars, rdh, rdt, tdh, ram, heap, sent>>

\* A plausible slip: the loop ends at once.
TransmittedAtOnce == TRUE

Transmitted == tx_descriptors[tx_head].done

\* After the wait for the card: the next slot, and the packet is spare.
send_done(b) ==
    /\ Transmitted
    /\ tx_head' = TxTail
    /\ Release(<<b>>)
    /\ UNCHANGED <<rx_descriptors, rx_buffers, rx_head, tx_descriptors, card_vars, sent>>

-----------------------------------------------------------------------------
(* The card.                                                               *)

\* A frame comes in; with no descriptor left the card drops it.
CardReceives(frame) ==
    /\ rdh # rdt
    /\ ram' = [ram EXCEPT ![rx_descriptors[rdh].buffer] = frame]
    /\ rx_descriptors' = [rx_descriptors EXCEPT ![rdh].done = TRUE]
    /\ rdh' = (rdh + 1) % NUM_RX_DESCS
    /\ UNCHANGED <<rx_buffers, rx_head, tx_descriptors, tx_head, packets, rdt, tdh, tdt,
                   heap, sent>>

\* Nobody looks at the buffer of a descriptor that is done.
CardTransmits ==
    /\ tdh # tdt
    /\ sent' = Append(sent, ram[tx_descriptors[tdh].buffer])
    /\ tx_descriptors' = [tx_descriptors EXCEPT ![tdh] = [buffer |-> NoBuffer, done |-> TRUE]]
    /\ tdh' = (tdh + 1) % NUM_TX_DESCS
    /\ UNCHANGED <<rx_descriptors, rx_buffers, rx_head, tx_head, packets, rdh, rdt, tdt,
                   ram, heap>>

\* Slots from a up to b, without b.
Slots(a, b, n) == {(a + k) % n : k \in 0 .. ((b - a) % n) - 1}

\* Buffers that the card may write to, or read from, now.
CardWrites == {rx_descriptors[i].buffer : i \in Slots(rdh, rdt, NUM_RX_DESCS)}
CardReads == {tx_descriptors[i].buffer : i \in Slots(tdh, tdt, NUM_TX_DESCS)}

=============================================================================
