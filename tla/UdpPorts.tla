------------------------------ MODULE UdpPorts ------------------------------
(***************************************************************************)
(* What the network stack promises its users: a port belongs to at most    *)
(* one user, and the frames for a port reach its user in the order they    *)
(* arrived, each of them once.  Frames leave unseen only while nobody has  *)
(* the port, or when its user gives it up.                                 *)
(***************************************************************************)
EXTENDS Naturals, Sequences

CONSTANTS Users, Ports, Nobody

VARIABLES owner,    \* the user of each port
          chan,     \* frames waiting for each port, oldest first
          got       \* who saw a frame last, and which

vars == <<owner, chan, got>>

Bind(u, p) ==
    /\ owner[p] = Nobody
    /\ owner' = [owner EXCEPT ![p] = u]
    /\ UNCHANGED <<chan, got>>

\* Some of the waiting frames, the oldest, go with the bind.
Unbind(p) ==
    /\ owner[p] # Nobody
    /\ owner' = [owner EXCEPT ![p] = Nobody]
    /\ \E k \in 0 .. Len(chan[p]) :
        chan' = [chan EXCEPT ![p] = SubSeq(@, k + 1, Len(@))]
    /\ UNCHANGED got

Arrive(p) ==
    /\ Len(chan'[p]) = Len(chan[p]) + 1
    /\ chan' = [chan EXCEPT ![p] = Append(@, chan'[p][Len(chan'[p])])]
    /\ UNCHANGED <<owner, got>>

Deliver(p) ==
    /\ owner[p] # Nobody
    /\ chan[p] # << >>
    /\ got' = <<owner[p], Head(chan[p])>>
    /\ chan' = [chan EXCEPT ![p] = Tail(@)]
    /\ UNCHANGED owner

Discard(p) ==
    /\ owner[p] = Nobody
    /\ chan[p] # << >>
    /\ chan' = [chan EXCEPT ![p] = Tail(@)]
    /\ UNCHANGED <<owner, got>>

Init == /\ owner = [p \in Ports |-> Nobody]
        /\ chan = [p \in Ports |-> << >>]
        /\ got = << >>

Next == \E p \in Ports :
            \/ \E u \in Users : Bind(u, p)
            \/ Unbind(p) \/ Arrive(p) \/ Deliver(p) \/ Discard(p)

Spec == Init /\ [][Next]_vars

=============================================================================
