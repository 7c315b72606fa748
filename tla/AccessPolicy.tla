---------------------------- MODULE AccessPolicy ----------------------------
(***************************************************************************)
(* What the access control promises, with no routers, caches or stores:    *)
(* a network that takes requests and brings answers, or loses either.  It  *)
(* brings nobody what it has not asked for, content to none but those who  *)
(* are entitled to it, a denial to none whose tags are sound, and a tag,   *)
(* and nothing else, in answer to a request for one.  As long as all tags  *)
(* are sound it does not stop.                                             *)
(***************************************************************************)
CONSTANTS
  Consumer,
  Content,
  Entitled,   \* the consumers that may have contents
  Sound,      \* the consumers that must not be denied any
  Reliant     \* the consumers whose requests for a tag bring nothing else

\* A consumer stands for the name of its request for a tag as well.
Name == Content \cup Consumer

VARIABLES
  pending,    \* the names each consumer waits for
  waiting,    \* the consumers that wait for their tag
  holders,    \* the consumers that hold a tag
  requests,   \* the requests the network has: [from, name]
  arriving,   \* the answers on their way to consumers: [to, name, kind]
  stopped     \* the network has stopped

vars == <<pending, waiting, holders, requests, arriving, stopped>>

Answer == [to : Consumer, name : Name, kind : {"Blob", "Nack", "Auth"}]

Init ==
  /\ pending = [c \in Consumer |-> {}]
  /\ waiting = {}
  /\ holders \subseteq Consumer
  /\ requests = {}
  /\ arriving = {}
  /\ stopped = FALSE

Request(c, x) == [from |-> c, name |-> x]

\* Who holds a tag asks for contents, who does not, or cannot use it, for one.
Ask(c, x) ==
  /\ c \notin waiting /\ x \notin pending[c]
  /\ x = c \/ (x \in Content /\ c \in holders)
  /\ pending' = [pending EXCEPT ![c] = @ \cup {x}]
  /\ waiting' = IF x = c THEN waiting \cup {c} ELSE waiting
  /\ requests' = requests \cup {Request(c, x)}
  /\ UNCHANGED <<holders, arriving>>

\* A consumer asks again for what it waits for.
AskAgain(c, x) ==
  /\ x \in pending[c]
  /\ requests' = requests \cup {Request(c, x)}
  /\ UNCHANGED <<pending, waiting, holders, arriving>>

\* Any answer ends the wait for its name.  The same answer may come again.
Receive(a) ==
  LET granted == a.kind = "Auth" /\ a.name \in pending[a.to]
  IN  /\ a \in arriving
      /\ arriving' \in {arriving, arriving \ {a}}
      /\ pending' = [pending EXCEPT ![a.to] = @ \ {a.name}]
      /\ waiting' = IF granted THEN waiting \ {a.to} ELSE waiting
      /\ holders' = IF granted THEN holders \cup {a.to} ELSE holders
      /\ UNCHANGED requests

Solicited(a) == Request(a.to, a.name) \in requests

Permitted(a) ==
  CASE a.kind = "Auth" -> a.name \in Consumer
    [] a.kind = "Blob" -> IF a.name \in Content THEN a.to \in Entitled
                          ELSE a.to \notin Reliant
    [] a.kind = "Nack" -> a.name \in Content /\ a.to \notin Sound

\* The network loses requests and answers, and answers what it was asked.
Deliver ==
  /\ requests' \in SUBSET requests
  /\ arriving' \in SUBSET (arriving \cup {a \in Answer : Solicited(a) /\ Permitted(a)})
  /\ UNCHANGED <<pending, waiting, holders>>

Next ==
  /\ ~stopped
  /\ \/ /\ \E c \in Consumer, x \in Name : Ask(c, x) \/ AskAgain(c, x)
        /\ UNCHANGED stopped
     \/ \E a \in arriving : Receive(a) /\ UNCHANGED stopped
     \/ Deliver /\ stopped' \in {FALSE, Sound # Consumer}

Spec == Init /\ [][Next]_vars
=============================================================================
