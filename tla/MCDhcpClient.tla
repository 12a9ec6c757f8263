---------------------------- MODULE MCDhcpClient ----------------------------
(* Instances of DhcpClient.                                                *)
EXTENDS DhcpClient

\* A complete reply, and one whose server address comes after an option that
\* parse refuses.
Complete  == [dst |-> "us", opts |-> <<"other", "type", "server", "mask", "end">>]
Damaged   == [dst |-> "us", opts |-> <<"type", "bad", "server">>]
SomeForms == {Complete, Damaged}

\* Two acknowledgements with the number of the first call: another client's
\* request, and an answer that was broadcast for another client.
SomeNoise ==
    {[kind |-> "Ack", xid |-> 1, sane |-> FALSE, yiaddr |-> "a1", server |-> "s1",
      mask |-> "m1", form |-> Complete],
     [kind |-> "Ack", xid |-> 1, sane |-> TRUE, yiaddr |-> "a1", server |-> "s1",
      mask |-> "m1", form |-> [Complete EXCEPT !.dst = "all"]]}
=============================================================================
