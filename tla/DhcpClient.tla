----------------------------- MODULE DhcpClient -----------------------------
(***************************************************************************)
(* kernel/src/dhcp.rs: get_lease, which NetDevice::new calls once for its  *)
(* network card, over a network that loses, duplicates, delays and         *)
(* reorders packets, and with several servers.  net holds every packet     *)
(* ever sent: one that is not lost may be received at any time, and again. *)
(* A reset of the machine starts get_lease over while packets of earlier   *)
(* calls are still under way.  The servers are not part of the repository. *)
(***************************************************************************)
EXTENDS Naturals, Sequences, FiniteSets

CONSTANTS Servers,      \* server identifiers, which are their addresses
          Addrs,        \* addresses the servers give out
          Masks,        \* subnet masks
          Forms,        \* how servers write replies: the destination, and the options in
                        \* the order they are written
          Noise,        \* packets for port 68 under way from the start
          MaxLost,      \* how many packets the network loses
          MaxCalls      \* calls of get_lease, one per boot

None == "none"

\* Options are what parse tells apart: the ones get_lease looks for, any other,
\* one that parse refuses, and the end mark.
Options == {"type", "server", "mask", "other", "bad", "end"}

\* header.xid is the low word of the time stamp counter: a new one every call.
Xids == 1 .. MaxCalls

Discovers == [kind : {"Discover"}, xid : Xids]
Requests  == [kind : {"Request"}, xid : Xids, ip : Addrs, server : Servers]
Replies   == [kind : {"Offer", "Ack", "Nak"}, xid : Xids, sane : {TRUE},
              yiaddr : Addrs, server : Servers, mask : Masks, form : Forms]

\* Packets that are not meant for this call, though they may look like it: not
\* a reply (op, htype, hlen or cookie differ), or sent to another card or to all.
NotForUs == {m \in Noise : ~ m.sane \/ m.form.dst # "us"}

ASSUME DhcpAssumption ==
    /\ MaxCalls \in Nat
    /\ MaxLost \in Nat
    /\ \A f \in Forms : f.dst \in {"us", "all"} /\ f.opts \in Seq(Options)
    /\ None \notin Servers \cup Addrs \cup Masks
    /\ Noise = NotForUs
    /\ \A m \in Noise : m.kind \notin {"Discover", "Request"}   \* these go to port 67

VARIABLES pc,          \* "idle", "await_offer", "await_ack", "leased" or "no_lease"
          xid,         \* get_lease's locals, and its result in the last three
          offer_ip, server_ip, subnet_mask,
          net, lost,   \* packets sent so far, and those of them that are lost
          offered,     \* offered[s][x]: the address server s holds for call x
          bound        \* bound[s]: pairs of a call and the address s leased to it

client  == <<pc, xid, offer_ip, server_ip, subnet_mask>>
network == <<net, lost>>
servers == <<offered, bound>>
vars    == <<client, network, servers>>

Init ==
    /\ pc = "idle" /\ xid = 0
    /\ offer_ip = None /\ server_ip = None /\ subnet_mask = None
    /\ net = Noise /\ lost = {}
    /\ offered = [s \in Servers |-> [x \in Xids |-> None]]
    /\ bound = [s \in Servers |-> {}]

-----------------------------------------------------------------------------
(* Packets.                                                                *)

\* The while loop of parse_dhcp_packet: options up to the first that parse
\* refuses or the end mark.
Parsed(opts) ==
    {opts[i] : i \in {j \in DOMAIN opts :
                        \A k \in 1 .. j : opts[k] \notin {"bad", "end"}}}

\* A plausible slip: replies to other transactions are accepted.
AcceptsAnyXid(m, kind) ==
    m.kind = kind /\ m.form.dst = "us" /\ m.sane /\ "type" \in Parsed(m.form.opts)

\* A plausible slip: any type of message is taken for the expected one.
AcceptsAnyKind(m, kind) ==
    /\ m.kind \in {"Offer", "Ack"}
    /\ m.form.dst = "us" /\ m.xid = xid /\ m.sane
    /\ "type" \in Parsed(m.form.opts)

\* What the closures of both receive loops let through: sent to us, a reply to
\* this transaction, and with an option that gives it the expected type.
Accepts(m, kind) ==
    /\ m.kind = kind
    /\ m.form.dst = "us" /\ m.xid = xid /\ m.sane
    /\ "type" \in Parsed(m.form.opts)

\* find_map over the options.
OptionOf(m, option, value) == IF option \in Parsed(m.form.opts) THEN value ELSE None

Send(m) == net' = net \cup {m}

InFlight == net \ lost

-----------------------------------------------------------------------------
(* get_lease.                                                              *)

\* Bind port 68 and send the discover.
GetLease ==
    /\ pc = "idle" /\ xid < MaxCalls
    /\ xid' = xid + 1
    /\ pc' = "await_offer"
    /\ Send([kind |-> "Discover", xid |-> xid + 1])
    /\ UNCHANGED <<offer_ip, server_ip, subnet_mask, lost, servers>>

\* A plausible slip: the request is never sent.
RecvOfferSilent(m) ==
    /\ pc = "await_offer" /\ Accepts(m, "Offer")
    /\ offer_ip' = m.yiaddr
    /\ server_ip' = OptionOf(m, "server", m.server)
    /\ pc' = IF server_ip' = None THEN "no_lease" ELSE "await_ack"
    /\ UNCHANGED <<xid, subnet_mask, network, servers>>

\* The first loop ends; without a server address there is no lease, otherwise
\* the request goes out.
RecvOffer(m) ==
    /\ pc = "await_offer" /\ Accepts(m, "Offer")
    /\ offer_ip' = m.yiaddr
    /\ server_ip' = OptionOf(m, "server", m.server)
    /\ IF server_ip' = None
       THEN pc' = "no_lease" /\ UNCHANGED net
       ELSE /\ pc' = "await_ack"
            /\ Send([kind |-> "Request", xid |-> xid, ip |-> offer_ip',
                     server |-> server_ip'])
    /\ UNCHANGED <<xid, subnet_mask, lost, servers>>

\* The second loop ends; the lease is the address that was offered.
RecvAck(m) ==
    /\ pc = "await_ack" /\ Accepts(m, "Ack")
    /\ subnet_mask' = OptionOf(m, "mask", m.mask)
    /\ pc' = "leased"
    /\ UNCHANGED <<xid, offer_ip, server_ip, network, servers>>

Recv == \E m \in InFlight : RecvOffer(m) \/ RecvAck(m)

\* The machine is reset and boots again: nothing of the client survives.
Reset ==
    /\ pc # "idle"
    /\ pc' = "idle"
    /\ offer_ip' = None /\ server_ip' = None /\ subnet_mask' = None
    /\ UNCHANGED <<xid, network, servers>>

-----------------------------------------------------------------------------
(* Network and servers.                                                    *)

Lose ==
    /\ Cardinality(lost) < MaxLost
    /\ \E m \in InFlight : lost' = lost \cup {m}
    /\ UNCHANGED <<client, net, servers>>

\* A server answers a discover with an address it holds for that call and has
\* not leased to another.
Offer(s, m) ==
    /\ m.kind = "Discover" /\ offered[s][m.xid] = None
    /\ \E a \in {b \in Addrs : \A p \in bound[s] : p[2] # b}, k \in Masks,
          f \in Forms :
        /\ offered' = [offered EXCEPT ![s][m.xid] = a]
        /\ Send([kind |-> "Offer", xid |-> m.xid, sane |-> TRUE,
                 yiaddr |-> a, server |-> s, mask |-> k, form |-> f])
    /\ UNCHANGED <<client, lost, bound>>

\* It grants a request for the address it holds, or refuses it.
Answer(s, m) ==
    /\ m.kind = "Request" /\ m.server = s
    /\ ~ \E r \in net \ Noise : /\ r.kind \in {"Ack", "Nak"}
                                /\ r.server = s /\ r.xid = m.xid
    /\ \E k \in Masks, f \in Forms, kind \in {"Ack", "Nak"} :
        /\ kind = "Ack" =>
             m.ip = offered[s][m.xid] /\ \A p \in bound[s] : p[2] # m.ip
        /\ bound' = IF kind = "Ack" THEN [bound EXCEPT ![s] = @ \cup {<<m.xid, m.ip>>}]
                                    ELSE bound
        /\ Send([kind |-> kind, xid |-> m.xid, sane |-> TRUE,
                 yiaddr |-> m.ip, server |-> s, mask |-> k, form |-> f])
    /\ UNCHANGED <<client, lost, offered>>

Serve(s) == \E m \in InFlight : Offer(s, m) \/ Answer(s, m)

-----------------------------------------------------------------------------
Next == GetLease \/ Recv \/ Reset \/ Lose \/ \E s \in Servers : Serve(s)

Spec == Init /\ [][Next]_vars

\* The client polls, the network delivers what it does not lose, and servers
\* answer.  Nothing is lost and nobody resets the machine out of necessity.
FairSpec ==
    /\ Spec
    /\ WF_vars(GetLease) /\ WF_vars(Recv)
    /\ \A s \in Servers : WF_vars(Serve(s))

-----------------------------------------------------------------------------
(* Properties.                                                             *)

\* The lease get_lease returns is one the server it names has granted, in this
\* very transaction: an acknowledgement that was delayed since an earlier boot,
\* repeated, or came for another offer never makes one.
LeaseIsGranted ==
    pc = "leased" =>
        \E s \in Servers : server_ip = s /\ <<xid, offer_ip>> \in bound[s]

\* The client asks a server only for what that server offered to this call, so
\* a server that honours its offers never has to refuse.
AsksForOffered ==
    \A m \in net : m.kind = "Request" =>
        offered[m.server][m.xid] = m.ip

\* A reply of the current call that the client cannot use.
Unusable(m) ==
    m \in Replies /\ m.xid = xid /\
        (m.form.dst # "us" \/ m.kind = "Nak" \/ "type" \notin Parsed(m.form.opts))

\* get_lease returns unless a packet was lost, a server refused or answered in
\* a way the client ignores, or the machine is reset: it never gives up a wait
\* and never sends anything twice.
LeaseReturns ==
    pc \in {"await_offer", "await_ack"} ~>
        \/ pc \in {"leased", "no_lease", "idle"}
        \/ lost # {}
        \/ \E m \in net : Unusable(m)

=============================================================================
