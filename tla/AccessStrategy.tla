--------------------------- MODULE AccessStrategy ---------------------------
(***************************************************************************)
(* The packets of the simulation and what is decided about them: the two   *)
(* forwarding strategies (scenario/extensions/router-strategy.cpp and      *)
(* edge-strategy.cpp), the producer's decision (producer.cpp), and the     *)
(* encoding of a Data (ndn-cxx/src/data.cpp) where it decides what         *)
(* arrives.  All are operators on values; AccessNetwork adds the state.    *)
(*                                                                         *)
(* Consumers attach no tag that has expired or names another prefix        *)
(* (HasAuth), and the tags they use are the producer's, of level 3, for    *)
(* contents of level 1: the checks of these three are left out.  A router  *)
(* compares rand(), at most 2^31-1, with a validity probability that the   *)
(* edge sets to 0 or to more than that: the probability is a Boolean,      *)
(* `vouched', and the branch behind the comparison, the only one to look   *)
(* a tag up in a router's own cache, is not reached.                       *)
(***************************************************************************)
EXTENDS RouteTracker, AuthCache, FiniteSets

CONSTANTS
  Consumer,   \* the nodes that run a consumer
  Edge,       \* the routers that run EdgeStrategy
  Core,       \* the routers that run RouterStrategy
  Provider,   \* the node that runs the producer
  Up,         \* the next hop of each other node toward the producer
  Content,    \* the names of the producer's contents
  Flaw,       \* how each consumer's configuration spoils its tags
  Defects,    \* the defects of the packet library and the application that
              \* are in force; the code as it is has all of Defect
  NoTag,      \* an Interest without an authentication tag
  NoTracker   \* a Data without a route tracker

Router == Edge \cup Core
Id == Router \cup Consumer \cup {Provider}

\* A consumer stands for the name of its authentication request as well.
Name == Content \cup Consumer

Flaws == {"none", "bad_auth_sig", "bad_route", "bad_keyloc",
          "bad_prefix", "expired_auth"}

Defect == {"empty-block",     \* setContent(Block()) reads through a null buffer
           "stray-byte",      \* NoReCacheFlag is followed by an extra octet
           "no-keyloc",       \* the bad signature has no KeyLocator to read
           "reused-interest"} \* a retransmission alters the Interest pending

ASSUME NodesAssumption ==
  /\ Consumer \cap Router = {} /\ Edge \cap Core = {}
  /\ Provider \notin Router \cup Consumer
  /\ Content \cap Consumer = {}
ASSUME TopologyAssumption ==
  /\ Up \in [Router \cup Consumer -> Router \cup {Provider}]
  /\ \A c \in Consumer : Up[c] \in Edge /\ Up[Up[c]] # Provider
  /\ \A n \in Router : Up[n] = Provider => n \in Edge

\* The nodes on the way from n to the producer, n included: the least set that
\* holds n and the next hop of each of its members.  Routes are shortest paths,
\* so that no router is on the way from its own next hop.
Above(n) ==
  {k \in Id : \A S \in SUBSET Id :
     n \in S /\ (\A l \in S \ {Provider} : Up[l] \in S) => k \in S}

ASSUME AcyclicAssumption == \A n \in Router : n \notin Above(Up[n])

ASSUME FlawAssumption == Flaw \in [Consumer -> Flaws] /\ Defects \subseteq Defect
ASSUME NoneAssumption ==
  /\ NoTag \notin [owner : Consumer, route : SUBSET Id,
                   loc : {"producer", "other", "none"}, sig : BOOLEAN]
  /\ NoTracker \notin Tracker(Id)

-----------------------------------------------------------------------------
\* Packets.  A tag has the route hash of the request it was issued for, a key
\* locator and a signature that is good or bad; `owner' is the consumer it
\* was issued to.  `nonce' numbers the Interests of a consumer, and `grant'
\* is the route hash in the tag that the content of an AUTH Data is.
Tag == [owner : Consumer, route : SUBSET Id,
        loc : {"producer", "other", "none"}, sig : BOOLEAN]

Interest == [name : Name, owner : Consumer, nonce : Nat,
             tag : Tag \cup {NoTag}, trk : Tracker(Id), vouched : BOOLEAN]

Data == [name : Name, kind : {"Blob", "Nack", "Auth"},
         trk : Tracker(Id) \cup {NoTracker}, nrc : BOOLEAN, grant : SUBSET Id]

ASSUME HashAssumption == \A t \in Tag : Hash(t) \subseteq Bit

\* Contents have access level 1, authentication data level 0.
Public(x) == x \in Consumer

\* Mutant: the KeyLocator of the tag is left unset.
SpoiltUnset(c, grant) ==
  [owner |-> c, route |-> grant, loc |-> "unset", sig |-> Flaw[c] # "bad_auth_sig"]

\* OnReceiveAuth: the tag that consumer c keeps of the one it is granted.
Spoilt(c, grant) ==
  [owner |-> c,
   route |-> IF Flaw[c] = "bad_route" THEN {} ELSE grant,
   loc   |-> IF Flaw[c] = "bad_keyloc" THEN "other"
             ELSE IF Flaw[c] = "bad_auth_sig" /\ "no-keyloc" \in Defects
                  THEN "none" ELSE "producer",
   sig   |-> Flaw[c] # "bad_auth_sig"]

-----------------------------------------------------------------------------
\* The wire encoding of a Data that has the flag.  The octet after it is read
\* as an element of type 0 whose length is the type of the tracker: it takes
\* the place of a tracker with three non-zero hashes, which is then missing,
\* and overruns the packet if the tracker is shorter.
Mangled(d) == d.nrc /\ d.trk # NoTracker /\ "stray-byte" \in Defects

Encodes(d) == Mangled(d) => NoHashIsZero(d.trk)

Decoded(d) == IF Mangled(d) THEN [d EXCEPT !.trk = NoTracker] ELSE d

\* updateRoute, by a forwarder that is about to send the Data.
Stamped(d, id) ==
  IF d.trk = NoTracker THEN d ELSE [d EXCEPT !.trk = Update(@, id)]

-----------------------------------------------------------------------------
\* The face of n toward m leads out of the core network.
EdgeFace(n, m) == n \in Edge /\ m \in Consumer \cup {Provider}

\* Mutant: a tag in the negative cache is not verified any more.
EnterUnverified(i, c) ==
  LET known == Holds(c.pos, i.tag)
      pos   == Refreshed(c.pos)
  IN  IF i.tag = NoTag \/ i.trk.entry # i.tag.route
      THEN [sent |-> i.tag = NoTag, pkt |-> i, cache |-> c]
      ELSE [sent  |-> known \/ ~Holds(c.neg, i.tag),
            pkt   |-> [i EXCEPT !.vouched = known],
            cache |-> [pos |-> pos, neg |-> IF known THEN c.neg ELSE Refreshed(c.neg)]]

\* EdgeStrategy::filterOutgoingInterest for an Interest entering the core:
\* a tag in the positive cache is vouched for, one in the negative cache is
\* verified at once.
EnterNetwork(i, c) ==
  LET known    == Holds(c.pos, i.tag)
      verified == ~known /\ Holds(c.neg, i.tag) /\ i.tag.sig
      pos      == Refreshed(c.pos)
  IN  IF i.tag = NoTag \/ i.trk.entry # i.tag.route
      THEN [sent |-> i.tag = NoTag, pkt |-> i, cache |-> c]
      ELSE [sent  |-> known \/ verified \/ ~Holds(c.neg, i.tag),
            pkt   |-> [i EXCEPT !.vouched = known \/ verified],
            cache |-> [pos |-> IF verified THEN Inserted(pos, {i.tag}, 1) ELSE pos,
                       neg |-> IF known THEN c.neg ELSE Refreshed(c.neg)]]

\* filterOutgoingInterest of the strategy of n, with caches c, for an Interest
\* that came from node `from'.
FilterOutgoingInterest(n, from, i, c) ==
  LET crosses == EdgeFace(n, from) # EdgeFace(n, Up[n])
      entered == [i EXCEPT !.trk = SetCurrentNetwork(@, "INTERNET")]
      left    == [i EXCEPT !.trk = SetCurrentNetwork(@, "EXIT")]
  IN  IF crosses /\ EdgeFace(n, from) THEN EnterNetwork(entered, c)
      ELSE [sent |-> TRUE, pkt |-> IF crosses THEN left ELSE i, cache |-> c]

-----------------------------------------------------------------------------
\* RouterStrategy::filterOutgoingData compares the routes of the Data and of
\* the pending Interest: if they are the same the verdict of the routers
\* upstream is preserved, otherwise the router comes to its own.
Preserved(i, d) == SameRoutes(d.trk, i.trk)

Checked(i, d) == i.tag # NoTag /\ i.tag.loc = "producer"

\* Mutant: a tag must be vouched for and have a good signature.
AcceptsBoth(i, d) ==
  Public(d.name) \/ (Checked(i, d) /\ i.vouched /\ i.tag.sig)

Accepts(i, d) ==
  Public(d.name) \/ (Checked(i, d) /\ (i.vouched \/ i.tag.sig))

\* Mutants: a denial stays one for the next consumer, the routes of the
\* pending Interest are not put back, a preserved Data keeps its network.
JudgedStaysDenied(n, to, i, d) ==
  IF Preserved(i, d)
  THEN [d EXCEPT !.trk.net = IF EdgeFace(n, to) THEN "ENTRY" ELSE i.trk.net]
  ELSE [d EXCEPT !.trk = i.trk,
                 !.kind = IF Accepts(i, d) /\ @ # "Nack" THEN "Blob" ELSE "Nack"]

JudgedKeepsRoutes(n, to, i, d) ==
  IF Preserved(i, d)
  THEN [d EXCEPT !.trk.net = IF EdgeFace(n, to) THEN "ENTRY" ELSE i.trk.net]
  ELSE [d EXCEPT !.trk.net = i.trk.net,
                 !.kind = IF Accepts(i, d) THEN "Blob" ELSE "Nack"]

JudgedKeepsNetwork(n, to, i, d) ==
  IF Preserved(i, d) THEN d
  ELSE [d EXCEPT !.trk = i.trk, !.kind = IF Accepts(i, d) THEN "Blob" ELSE "Nack"]

\* The Data as the strategy leaves it for the face toward `to'.
Judged(n, to, i, d) ==
  LET crosses == EdgeFace(n, Up[n]) # EdgeFace(n, to)
      net     == IF EdgeFace(n, to) THEN "ENTRY" ELSE "INTERNET"
  IN  IF Preserved(i, d)
      THEN IF crosses THEN [d EXCEPT !.trk = SetCurrentNetwork(@, net)] ELSE d
      ELSE [d EXCEPT !.trk = i.trk,
                     !.kind = IF Accepts(i, d) THEN "Blob" ELSE "Nack",
                     !.nrc = @ \/ (~Public(d.name) /\ Checked(i, d) /\ i.vouched)]

\* The verdict on a content is about a tag whose key locator is not there.
LacksLocator(i, d) ==
  ~Preserved(i, d) /\ ~Public(d.name) /\ i.tag # NoTag /\ i.tag.loc = "none"

\* An edge empties a Nack with a null block, once it has come to one.
Crashes(n, to, i, d) ==
  /\ n \in Edge /\ "empty-block" \in Defects
  /\ d.trk # NoTracker
  /\ ~LacksLocator(i, d)
  /\ Judged(n, to, i, d).kind = "Nack"

\* The strategy reads a tracker or a key locator that is not there, or the
\* Data it changed cannot be encoded.
Throws(n, to, i, d) ==
  \/ d.trk = NoTracker
  \/ LacksLocator(i, d)
  \/ ~Preserved(i, d) /\ ~Encodes(Judged(n, to, i, d)) /\ ~Crashes(n, to, i, d)

-----------------------------------------------------------------------------
\* Producer::onAuthRequest and onDataRequest.  The flag is set once all but
\* the signature has been checked.
\* Mutant of onAuthRequest: the tag gets the route of the exit network.
AuthReplyExit(i) ==
  [name |-> i.name, kind |-> "Auth", trk |-> i.trk, nrc |-> FALSE,
   grant |-> i.trk.exit]

AuthReply(i) ==
  [name |-> i.name, kind |-> "Auth", trk |-> i.trk, nrc |-> FALSE,
   grant |-> i.trk.entry]

ContentReply(i) ==
  LET checked == i.tag # NoTag /\ i.tag.loc = "producer" /\ i.tag.route = i.trk.entry
  IN  [name |-> i.name, trk |-> i.trk, grant |-> {},
       kind |-> IF checked /\ i.tag.sig THEN "Blob" ELSE "Nack",
       nrc  |-> checked /\ i.vouched]

Reply(i) == IF Public(i.name) THEN AuthReply(i) ELSE ContentReply(i)

\* The producer reads a key locator that is not there.
ProducerCrashes(i) == ~Public(i.name) /\ i.tag # NoTag /\ i.tag.loc = "none"
=============================================================================
