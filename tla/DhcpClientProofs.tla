-------------------------- MODULE DhcpClientProofs -------------------------
(***************************************************************************)
(* Proofs about DhcpClient, for every set of servers, addresses, masks and *)
(* reply formats and any number of boots: however packets are lost,        *)
(* repeated and reordered, the client asks a server for what that server   *)
(* offered, and a lease was granted to the call that returns it.           *)
(***************************************************************************)
EXTENDS DhcpClient, TLAPS

\* The packets the servers sent; noise is never accepted.
Genuine == net \ Noise

DhcpTypeOK ==
    /\ xid \in Nat /\ xid <= MaxCalls
    /\ pc \in {"idle", "await_offer", "await_ack", "leased", "no_lease"}
    /\ offered \in [Servers -> [Xids -> Addrs \cup {None}]]
    /\ bound \in [Servers -> SUBSET (Xids \X Addrs)]
    /\ Noise \subseteq net

DiscoversKnown == \A m \in net : m.kind = "Discover" => m.xid \in Xids /\ m.xid <= xid

\* An offer stands: its server holds the address for the call.
OffersStand ==
    \A m \in Genuine : m.kind = "Offer" =>
        /\ m.server \in Servers /\ m.xid \in Xids /\ m.xid <= xid /\ m.yiaddr \in Addrs
        /\ offered[m.server][m.xid] = m.yiaddr

\* A call sends one request, for what the client then remembers.
RequestsKnown ==
    \A m \in net : m.kind = "Request" =>
        /\ m.server \in Servers /\ m.xid \in Xids /\ m.xid <= xid /\ m.ip \in Addrs
        /\ m.xid = xid => /\ pc \in {"await_ack", "leased", "idle"}
                          /\ pc # "idle" => m.ip = offer_ip /\ m.server = server_ip

\* An acknowledgement answers a request, and the server keeps to it.
AcksKnown ==
    \A m \in Genuine : m.kind = "Ack" =>
        /\ m.server \in Servers /\ <<m.xid, m.yiaddr>> \in bound[m.server]
        /\ \E r \in net : /\ r.kind = "Request" /\ r.xid = m.xid
                          /\ r.server = m.server /\ r.ip = m.yiaddr

\* The inductive invariant.
DhcpInv ==
    /\ DhcpTypeOK /\ DiscoversKnown /\ OffersStand /\ RequestsKnown /\ AcksKnown
    /\ AsksForOffered /\ LeaseIsGranted

-----------------------------------------------------------------------------

\* What the receive loops accept is a server's packet of this very call.
LEMMA AcceptedIsGenuine ==
    ASSUME NEW m \in net, NEW kind, Accepts(m, kind)
    PROVE  m \in Genuine /\ m.kind = kind /\ m.xid = xid
BY DhcpAssumption DEF Accepts, Genuine, NotForUs

\* The network starts in the invariant.
LEMMA InitKeeps == Init => DhcpInv
<1> SUFFICES ASSUME Init PROVE DhcpInv
    OBVIOUS
<1> USE DEF Init
<1>1. DhcpTypeOK
      BY DhcpAssumption DEF DhcpTypeOK, Xids
<1>2. Genuine = {}
      BY DEF Genuine
<1>3. DiscoversKnown /\ RequestsKnown /\ AsksForOffered
      BY DhcpAssumption DEF DiscoversKnown, RequestsKnown, AsksForOffered
<1>4. OffersStand /\ AcksKnown /\ LeaseIsGranted
      BY <1>2 DEF OffersStand, AcksKnown, LeaseIsGranted
<1> QED
    BY <1>1, <1>3, <1>4 DEF DhcpInv

\* A new call: every packet under way belongs to an earlier one.
LEMMA GetLeaseKeeps == DhcpInv /\ GetLease => DhcpInv'
<1> SUFFICES ASSUME DhcpInv, GetLease PROVE DhcpInv'
    OBVIOUS
<1> DEFINE d == [kind |-> "Discover", xid |-> xid + 1]
<1>1. /\ net' = net \cup {d} /\ xid' = xid + 1 /\ xid < MaxCalls /\ pc' = "await_offer"
      /\ UNCHANGED <<offer_ip, server_ip, offered, bound>>
      BY DEF GetLease, Send, servers
<1>2. d.kind = "Discover" /\ d.xid = xid + 1
      OBVIOUS
<1> USE DhcpAssumption DEF DhcpInv
<1> HIDE DEF d
<1>3. DhcpTypeOK'
      BY <1>1 DEF DhcpTypeOK
<1>4. DiscoversKnown'
      BY <1>1, <1>2 DEF DiscoversKnown, DhcpTypeOK, Xids
<1>5. OffersStand'
      BY <1>1, <1>2 DEF OffersStand, Genuine, DhcpTypeOK, Xids
<1>6. RequestsKnown'
      BY <1>1, <1>2 DEF RequestsKnown, DhcpTypeOK, Xids
<1>7. AcksKnown'
      BY <1>1, <1>2 DEF AcksKnown, Genuine
<1>8. AsksForOffered' /\ LeaseIsGranted'
      BY <1>1, <1>2 DEF AsksForOffered, LeaseIsGranted
<1> QED
    BY <1>3, <1>4, <1>5, <1>6, <1>7, <1>8

\* The request asks the server that made the offer for what it offered.
LEMMA RecvOfferKeeps ==
    ASSUME NEW m \in net, DhcpInv, RecvOffer(m)
    PROVE  DhcpInv'
<1>1. m \in Genuine /\ m.kind = "Offer" /\ m.xid = xid /\ pc = "await_offer"
      BY AcceptedIsGenuine DEF RecvOffer
<1>2. /\ m.server \in Servers /\ xid \in Xids /\ m.yiaddr \in Addrs
      /\ offered[m.server][xid] = m.yiaddr
      BY <1>1 DEF DhcpInv, OffersStand
<1>3. UNCHANGED <<xid, offered, bound>> /\ offer_ip' = m.yiaddr
      BY DEF RecvOffer, servers
<1>4. CASE server_ip' = None
  <2>1. pc' = "no_lease" /\ net' = net
        BY <1>4 DEF RecvOffer
  <2>2. \A r \in net : r.kind = "Request" => r.xid # xid
        BY <1>1 DEF DhcpInv, RequestsKnown
  <2> QED
      BY <1>3, <2>1, <2>2, Zenon
      DEF DhcpInv, DhcpTypeOK, DiscoversKnown, OffersStand, RequestsKnown, AcksKnown,
          AsksForOffered, LeaseIsGranted, Genuine
<1>5. CASE server_ip' # None
  <2> DEFINE q == [kind |-> "Request", xid |-> xid, ip |-> offer_ip', server |-> server_ip']
  <2>1. pc' = "await_ack" /\ net' = net \cup {q} /\ server_ip' = m.server
        BY <1>5 DEF RecvOffer, Send, OptionOf
  <2>2. q.kind = "Request" /\ q.xid = xid /\ q.ip = m.yiaddr /\ q.server = m.server
        BY <1>3, <2>1
  <2>3. \A r \in net : r.kind = "Request" => r.xid # xid
        BY <1>1 DEF DhcpInv, RequestsKnown
  <2> USE DEF DhcpInv
  <2> HIDE DEF q
  <2>4. DhcpTypeOK'
        BY <1>3, <2>1 DEF DhcpTypeOK
  <2>5. DiscoversKnown' /\ OffersStand'
        BY <1>3, <2>1, <2>2 DEF DiscoversKnown, OffersStand, Genuine
  <2>6. RequestsKnown'
        BY <1>2, <1>3, <2>1, <2>2, <2>3 DEF RequestsKnown, DhcpTypeOK
  <2>7. AcksKnown'
        BY <1>3, <2>1, <2>2 DEF AcksKnown, Genuine
  <2>8. AsksForOffered' /\ LeaseIsGranted'
        BY <1>2, <1>3, <2>1, <2>2 DEF AsksForOffered, LeaseIsGranted
  <2> QED
      BY <2>4, <2>5, <2>6, <2>7, <2>8
<1> QED
    BY <1>4, <1>5

\* The acknowledgement answers this call's only request.
LEMMA RecvAckKeeps ==
    ASSUME NEW m \in net, DhcpInv, RecvAck(m)
    PROVE  DhcpInv'
<1>1. m \in Genuine /\ m.kind = "Ack" /\ m.xid = xid /\ pc = "await_ack"
      BY AcceptedIsGenuine DEF RecvAck
<1>2. /\ pc' = "leased"
      /\ UNCHANGED <<xid, offer_ip, server_ip, net, offered, bound>>
      BY DEF RecvAck, network, servers
<1>3. PICK r \in net : /\ r.kind = "Request" /\ r.xid = m.xid
                       /\ r.server = m.server /\ r.ip = m.yiaddr
      BY <1>1, Zenon DEF DhcpInv, AcksKnown
<1>4. r.ip = offer_ip /\ r.server = server_ip
      BY <1>1, <1>3 DEF DhcpInv, RequestsKnown
<1>5. m.server \in Servers /\ <<xid, m.yiaddr>> \in bound[m.server]
      BY <1>1 DEF DhcpInv, AcksKnown
<1>6. LeaseIsGranted'
      BY <1>2, <1>3, <1>4, <1>5 DEF LeaseIsGranted
<1>7. RequestsKnown'
      BY <1>1, <1>2 DEF DhcpInv, RequestsKnown
<1> QED
    BY <1>2, <1>6, <1>7, Zenon
    DEF DhcpInv, DhcpTypeOK, DiscoversKnown, OffersStand, AcksKnown, AsksForOffered, Genuine

\* A reboot of the client keeps what the packets under way prove.
LEMMA ResetKeeps == DhcpInv /\ Reset => DhcpInv'
BY ZenonT(60) DEF DhcpInv, Reset, network, servers, DhcpTypeOK, DiscoversKnown, OffersStand,
       RequestsKnown, AcksKnown, AsksForOffered, LeaseIsGranted, Genuine

\* A loss, and a stuttering step, leave what the invariant speaks of alone.
LEMMA QuietKeeps ==
    ASSUME DhcpInv, UNCHANGED <<client, net, servers>>
    PROVE  DhcpInv'
BY Zenon DEF DhcpInv, client, servers, DhcpTypeOK, DiscoversKnown, OffersStand,
       RequestsKnown, AcksKnown, AsksForOffered, LeaseIsGranted, Genuine

\* A server offers once to a call, so the offers that are under way still stand.
LEMMA OfferKeeps ==
    ASSUME NEW s \in Servers, NEW m \in net, DhcpInv, Offer(s, m)
    PROVE  DhcpInv'
<1> USE DEF DhcpInv
<1>1. m.kind = "Discover" /\ m.xid \in Xids /\ m.xid <= xid /\ offered[s][m.xid] = None
      BY DEF Offer, DiscoversKnown
<1>2. PICK a \in Addrs, k \in Masks, f \in Forms :
        /\ offered' = [offered EXCEPT ![s][m.xid] = a]
        /\ net' = net \cup {[kind |-> "Offer", xid |-> m.xid, sane |-> TRUE,
                             yiaddr |-> a, server |-> s, mask |-> k, form |-> f]}
      BY Zenon DEF Offer, Send
<1>3. UNCHANGED <<pc, xid, offer_ip, server_ip, bound>>
      BY DEF Offer, client
<1> DEFINE o == [kind |-> "Offer", xid |-> m.xid, sane |-> TRUE,
                 yiaddr |-> a, server |-> s, mask |-> k, form |-> f]
<1>4. /\ o.kind = "Offer" /\ o.xid = m.xid /\ o.yiaddr = a /\ o.server = s
      /\ net' = net \cup {o}
      BY <1>2
<1> HIDE DEF o
<1>5. offered'[s][m.xid] = a
      BY <1>1, <1>2 DEF DhcpTypeOK
<1>6. \A t \in Servers, x \in Xids :
        offered[t][x] # None => offered'[t][x] = offered[t][x]
      BY <1>1, <1>2 DEF DhcpTypeOK
<1>7. DhcpTypeOK'
      BY <1>2, <1>3, <1>4, Zenon DEF DhcpTypeOK
<1>8. DiscoversKnown' /\ RequestsKnown' /\ AcksKnown' /\ LeaseIsGranted'
      BY <1>3, <1>4 DEF DiscoversKnown, RequestsKnown, AcksKnown, LeaseIsGranted, Genuine
<1>9. OffersStand'
      BY <1>1, <1>3, <1>4, <1>5, <1>6, DhcpAssumption DEF OffersStand, Genuine
<1>10. AsksForOffered'
       BY <1>4, <1>6, DhcpAssumption DEF AsksForOffered, RequestsKnown
<1> QED
    BY <1>7, <1>8, <1>9, <1>10

\* A grant enters the server's books in the step that sends the acknowledgement.
LEMMA AnswerKeeps ==
    ASSUME NEW s \in Servers, NEW m \in net, DhcpInv, Answer(s, m)
    PROVE  DhcpInv'
<1> USE DEF DhcpInv
<1>1. /\ m.kind = "Request" /\ m.server = s
      /\ m.xid \in Xids /\ m.ip \in Addrs
      BY DEF Answer, RequestsKnown
<1>2. PICK k \in Masks, f \in Forms, kind \in {"Ack", "Nak"} :
        /\ bound' = IF kind = "Ack" THEN [bound EXCEPT ![s] = @ \cup {<<m.xid, m.ip>>}]
                                    ELSE bound
        /\ net' = net \cup {[kind |-> kind, xid |-> m.xid, sane |-> TRUE,
                             yiaddr |-> m.ip, server |-> s, mask |-> k, form |-> f]}
      BY DEF Answer, Send
<1>3. UNCHANGED <<pc, xid, offer_ip, server_ip, offered>>
      BY DEF Answer, client
<1> DEFINE c == [kind |-> kind, xid |-> m.xid, sane |-> TRUE,
                 yiaddr |-> m.ip, server |-> s, mask |-> k, form |-> f]
<1>4. /\ c.kind = kind /\ c.xid = m.xid /\ c.yiaddr = m.ip /\ c.server = s
      /\ net' = net \cup {c}
      BY <1>2
<1> HIDE DEF c
<1>5. kind = "Ack" => <<m.xid, m.ip>> \in bound'[s]
      BY <1>2 DEF DhcpTypeOK
<1>6. \A t \in Servers : bound[t] \subseteq bound'[t]
      BY <1>2 DEF DhcpTypeOK
<1>7. DhcpTypeOK'
      BY <1>1, <1>2, <1>3, <1>4 DEF DhcpTypeOK
<1>8. DiscoversKnown' /\ OffersStand' /\ RequestsKnown' /\ AsksForOffered'
      BY <1>3, <1>4 DEF DiscoversKnown, OffersStand, RequestsKnown, AsksForOffered, Genuine
<1>9. AcksKnown'
      BY <1>1, <1>4, <1>5, <1>6 DEF AcksKnown, Genuine
<1>10. LeaseIsGranted'
       BY <1>3, <1>6 DEF LeaseIsGranted
<1> QED
    BY <1>7, <1>8, <1>9, <1>10

-----------------------------------------------------------------------------

\* However packets are lost, repeated, delayed and reordered, and whenever the
\* machine is reset, get_lease keeps its view of the call and the servers' books
\* in step.
THEOREM DhcpInvariant == Spec => []DhcpInv
<1>1. Init => DhcpInv
      BY InitKeeps
<1>2. DhcpInv /\ [Next]_vars => DhcpInv'
  <2> SUFFICES ASSUME DhcpInv, [Next]_vars PROVE DhcpInv'
      OBVIOUS
  <2>1. CASE GetLease
        BY <2>1, GetLeaseKeeps
  <2>2. CASE Recv
        BY <2>2, RecvOfferKeeps, RecvAckKeeps DEF Recv, InFlight
  <2>3. CASE Reset
        BY <2>3, ResetKeeps
  <2>4. CASE Lose
        BY <2>4, QuietKeeps DEF Lose
  <2>5. CASE \E s \in Servers : Serve(s)
        BY <2>5, OfferKeeps, AnswerKeeps DEF Serve, InFlight
  <2>6. CASE UNCHANGED vars
        BY <2>6, QuietKeeps DEF vars, network
  <2> QED
      BY <2>1, <2>2, <2>3, <2>4, <2>5, <2>6 DEF Next
<1> QED
    BY <1>1, <1>2, PTL DEF Spec

\* get_lease returns only a lease that the server it names has granted to this
\* very call.
THEOREM LeaseIsGrantedHolds == Spec => []LeaseIsGranted
BY DhcpInvariant, PTL DEF DhcpInv

\* The request get_lease sends names the address its server offered to this call.
THEOREM AsksForOfferedHolds == Spec => []AsksForOffered
BY DhcpInvariant, PTL DEF DhcpInv
=============================================================================
