---------------------------- MODULE MCDiscovery -----------------------------
(* Three nodes, found one through another, the last one holding the peers;   *)
(* two of them share an address.  The DHT and the trackers are tried apart;  *)
(* one list of trackers names the same one twice.                            *)
EXTENDS Discovery
MCDistance == <<1, 2, 3>>
MCAddress == <<1, 2, 2>>
MCContact == <<2, 2, 1>>
MCSettings ==
    {[dht |-> TRUE, secure |-> FALSE, trackers |-> <<>>, private |-> TRUE],
     [dht |-> FALSE, secure |-> FALSE, trackers |-> <<"udp">>, private |-> FALSE],
     [dht |-> FALSE, secure |-> TRUE, trackers |-> <<"http", "https", "https">>, private |-> FALSE]}
=============================================================================
