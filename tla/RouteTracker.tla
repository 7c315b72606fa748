---------------------------- MODULE RouteTracker ----------------------------
(***************************************************************************)
(* ndn::RouteTracker: three route hashes and the network a packet is in.   *)
(* Every forwarder XORs its 64-bit route id onto the hash of the current   *)
(* network.  The ids are drawn at random, so that an XOR of ids is taken   *)
(* to stand for the set of the ids that occur in it an odd number of       *)
(* times: the accidental collision of two different sets is left out, the  *)
(* cancellation of an id that is applied twice is not.                     *)
(***************************************************************************)

Network == {"ENTRY", "INTERNET", "EXIT"}

\* Route trackers over a set of forwarders.
Tracker(Id) ==
  [net : Network, entry : SUBSET Id, internet : SUBSET Id, exit : SUBSET Id]

\* XOR of one id onto a route hash.
Flip(route, id) == IF id \in route THEN route \ {id} ELSE route \cup {id}

FreshTracker == [net |-> "ENTRY", entry |-> {}, internet |-> {}, exit |-> {}]

Update(trk, id) ==
  CASE trk.net = "ENTRY"    -> [trk EXCEPT !.entry = Flip(@, id)]
    [] trk.net = "INTERNET" -> [trk EXCEPT !.internet = Flip(@, id)]
    [] trk.net = "EXIT"     -> [trk EXCEPT !.exit = Flip(@, id)]

SetCurrentNetwork(trk, net) == [trk EXCEPT !.net = net]

\* Mutant: the hash of the entry network is not compared.
SameRoutesUpstream(a, b) == a.exit = b.exit /\ a.internet = b.internet

\* The comparison by which a router tells that a Data answers an Interest.
SameRoutes(a, b) ==
  /\ a.exit = b.exit
  /\ a.internet = b.internet
  /\ a.entry = b.entry

\* A route hash of 0 is encoded in one octet, any other in eight.
NoHashIsZero(trk) == {} \notin {trk.entry, trk.internet, trk.exit}
=============================================================================
