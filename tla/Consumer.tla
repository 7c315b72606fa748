------------------------------ MODULE Consumer ------------------------------
(***************************************************************************)
(* ndntac::Consumer (scenario/extensions/consumer.cpp): an application     *)
(* that fetches one content after the other, segment by segment, through a *)
(* window of pending requests, and asks for a new authentication tag when  *)
(* the one it holds does not serve.  The network between it and the        *)
(* producer is the set of its Interests under way: each may be lost, or be *)
(* answered at any later time.                                             *)
(*                                                                         *)
(* m_retx_queue is empty between two events, because FillWindow drains it: *)
(* what waits in it is retransmitted in the handler that queued it.  Time  *)
(* is counted in days: with the next day the tags of the last one expire.  *)
(* The gaps between contents and the retransmission timeouts may elapse at *)
(* any moment.                                                             *)
(***************************************************************************)
EXTENDS Naturals, FiniteSets

CONSTANTS
  Content,        \* the contents of the configuration
  Prefix,         \* the prefixes of producers
  PrefixOf,       \* the first component of each content's name
  Size,           \* the number of segments of each content
  InitialWindow,  \* initial_window_size
  MaxWindow,      \* max_window_size
  Configs,        \* the configurations that are considered, see Config
  NoContent,      \* before the first content is chosen
  NoTag,          \* no tag, or an Interest without one
  NoPrefix        \* the prefix of a tag spoilt by enable_bad_prefix

Options == {"no_auth", "bad_auth_sig", "expired_auth", "bad_route",
            "bad_prefix", "bad_keyloc"}

\* A configuration: the contents to choose from, the enable_* options that are
\* set, a bound on the days that pass, whether the producer loses the validity
\* period of the tags it signs, whether RetX hands over the pending Interest
\* itself, which is thereby altered, and whether the network answers what it
\* is sent time and again.  The code as it is loses the period, alters the
\* Interest, and leaves some requests without an answer for ever (Defect in
\* AccessStrategy).
Config == [contents : SUBSET Content, options : SUBSET Options,
           days : Nat \ {0}, periodLost : BOOLEAN, reused : BOOLEAN,
           answered : BOOLEAN]

\* Names: segment k of a content, and the authentication request that the
\* consumer makes to the producer with a prefix.
Segment(c, k) == [of |-> c, segno |-> k]
AuthName(p) == [of |-> p, segno |-> 0]

Segments == UNION {{Segment(c, k) : k \in 0..(Size[c] - 1)} : c \in Content}
AuthNames == {AuthName(p) : p \in Prefix}
Name == Segments \cup AuthNames

\* A tag is valid to the end of the day `until', `issued' is the day of its issue.
Tag == [prefix : Prefix \cup {NoPrefix}, issued : Nat, until : Nat]

\* What m_pending holds of an Interest.  One under way is the Interest itself
\* or a retransmission of it.
Entry == [name : Name, tag : Tag \cup {NoTag}]
Flight == [entry : Entry, retx : BOOLEAN]

ASSUME NamesAssumption ==
  /\ Content \cap Prefix = {} /\ PrefixOf \in [Content -> Prefix]
  /\ NoContent \notin Content /\ NoPrefix \notin Prefix /\ NoTag \notin Tag
ASSUME SizeAssumption == Size \in [Content -> Nat]
ASSUME WindowAssumption == InitialWindow \in Nat \ {0} /\ MaxWindow \in Nat
ASSUME ConfigAssumption == Configs \subseteq Config

AppState ==
  [content : Content \cup {NoContent}, segno : Nat, starts : Nat, window : Nat,
   auth : Tag \cup {NoTag}, pendingAuth : BOOLEAN,
   seqs : SUBSET Name, pending : SUBSET Entry]

VARIABLES
  app,      \* the consumer: starts counts the events of StartNextContent
            \* that are scheduled, seqs are the names in m_seqs, pending the
            \* entries in m_pending
  flying,   \* Interests under way
  altered,  \* history: the names of authentication requests that RetX has
            \* altered, so that stores may hold answers of other routes
  day,      \* the day it is
  crashed,  \* the simulation has ended in a fault
  config    \* m_config

vars == <<app, flying, altered, day, crashed, config>>

Init ==
  /\ app = [content |-> NoContent, segno |-> 0, starts |-> 1,
            window |-> InitialWindow, auth |-> NoTag, pendingAuth |-> FALSE,
            seqs |-> {}, pending |-> {}]
  /\ flying = {}
  /\ altered = {}
  /\ day = 1
  /\ crashed = FALSE
  /\ config \in Configs

-----------------------------------------------------------------------------
\* Tags (ndn-cxx/src/auth-tag.hpp).  One without a validity period does not
\* expire: its last day is never over.
Never == config.days + 1

Expired(t) == t # NoTag /\ day > t.until

SetExpirationTime(t, d) == [t EXCEPT !.until = d]

\* Mutant: the signature leaves the validity period alone.
SetSignatureOnly(t) == t

\* setSignature replaces the SignatureInfo, which holds the validity period.
SetSignature(t) ==
  IF config.periodLost THEN [t EXCEPT !.until = Never] ELSE t

\* onAuthRequest: the tag that the producer with prefix p issues on day d.
Issued(p, d) ==
  SetSignature(SetExpirationTime([prefix |-> p, issued |-> d, until |-> Never],
                                 d))

\* OnReceiveAuth: what the consumer makes of the tag it is issued.  Periods
\* end with a whole second, so that one which ends now is over.  The flaws
\* that are not mentioned matter to others only.
Spoilt(t) ==
  LET signed == IF "bad_auth_sig" \in config.options THEN SetSignature(t) ELSE t
      lapsed == IF "expired_auth" \in config.options
                THEN SetExpirationTime(signed, day - 1) ELSE signed
  IN  IF "bad_prefix" \in config.options THEN [lapsed EXCEPT !.prefix = NoPrefix] ELSE lapsed

\* With enable_no_auth it keeps none.
Kept(held, t) == IF "no_auth" \in config.options THEN held ELSE Spoilt(t)

-----------------------------------------------------------------------------
\* The consumer, in a state h of it.
\* Mutant: an expired tag serves.
HasAuthExpired(h) ==
  "no_auth" \in config.options \/ (h.auth # NoTag /\ h.auth.prefix = PrefixOf[h.content])

HasAuth(h) ==
  \/ "no_auth" \in config.options
  \/ /\ h.auth # NoTag /\ ~Expired(h.auth)
     /\ h.auth.prefix = PrefixOf[h.content]

\* Mutant: the entries that are late are not sent again.
RetransmittedNone(E) == {}

\* RetX of the entries E: one whose tag has expired is given up.
Retransmitted(E) ==
  {[entry |-> e, retx |-> TRUE] : e \in {e \in E : ~Expired(e.tag)}}

\* Mutant: the name stays in m_seqs.
SettledPendingOnly(h, x) ==
  [h EXCEPT !.pending = {e \in @ : e.name # x}]

\* OnRequestSatisfied, and OnRequestDenied of a request that is not tried again.
Settled(h, x) ==
  [h EXCEPT !.seqs = @ \ {x}, !.pending = {e \in @ : e.name # x}]

\* The segments of h.content from m_segno to n-1 that are not pending yet.
NewNames(h, n) ==
  {Segment(h.content, k) : k \in h.segno..(n - 1)} \ h.seqs

Requested(h, names, t) ==
  [h EXCEPT !.seqs = @ \cup names,
            !.pending = @ \cup {[name |-> x, tag |-> t] : x \in names}]

FirstSent(names, t) ==
  {[entry |-> [name |-> x, tag |-> t], retx |-> FALSE] : x \in names}

\* Mutant: the next content is scheduled one segment early as well.
SendSegmentsEarly(h, n, net) ==
  LET names == NewNames(h, n)
      sent  == Requested(h, names, h.auth)
  IN  /\ app' = [sent EXCEPT !.segno = n,
                             !.starts = IF n + 1 >= Size[h.content] THEN @ + 1 ELSE @]
      /\ flying' = net \cup FirstSent(names, h.auth)

\* SendNext while HasAuth holds, until m_segno is n; after the last segment
\* the next content is scheduled.
SendSegments(h, n, net) ==
  LET names == NewNames(h, n)
      sent  == Requested(h, names, h.auth)
  IN  /\ app' = [sent EXCEPT !.segno = n,
                             !.starts = IF n = Size[h.content] THEN @ + 1 ELSE @]
      /\ flying' = net \cup FirstSent(names, h.auth)

\* The window is full once m_segno is n.
Full(h, n) == Cardinality(h.pending) + Cardinality(NewNames(h, n)) >= h.window

\* SendNext without a tag that serves: the consumer asks for one.
SendAuthRequest(h, net) ==
  LET names == {AuthName(PrefixOf[h.content])} \ h.seqs
  IN  /\ app' = [Requested(h, names, NoTag) EXCEPT !.pendingAuth = TRUE]
      /\ flying' = net \cup FirstSent(names, NoTag)

\* Mutant: the window is taken for the number of requests it may grow to.
RestsLate(h) ==
  \/ Cardinality(h.pending) > h.window
  \/ h.segno >= Size[h.content]
  \/ h.pendingAuth

\* FillWindow sends nothing new.
Rests(h) ==
  \/ Cardinality(h.pending) >= h.window
  \/ h.segno >= Size[h.content]
  \/ h.pendingAuth

\* The rest of FillWindow, once the retransmissions are among the Interests
\* `net' under way: SendNext is called until the window is full, the content
\* is exhausted or an authentication is awaited.  With enable_no_auth it
\* copies the tag that m_auth does not hold.
FillWindow(h, net) ==
  \/ Rests(h) /\ app' = h /\ flying' = net /\ UNCHANGED crashed
  \/ ~Rests(h) /\ ~HasAuth(h) /\ SendAuthRequest(h, net) /\ UNCHANGED crashed
  \/ /\ ~Rests(h) /\ HasAuth(h) /\ h.auth # NoTag
     /\ \E n \in (h.segno + 1)..Size[h.content] :
          /\ n = Size[h.content] \/ Full(h, n)
          /\ \A m \in (h.segno + 1)..(n - 1) : ~Full(h, m)
          /\ SendSegments(h, n, net)
     /\ UNCHANGED crashed
  \/ /\ ~Rests(h) /\ HasAuth(h) /\ h.auth = NoTag
     /\ app' = h /\ flying' = net /\ crashed' = TRUE

\* Mutant: the consumer starts over without having been scheduled to.
StartNextContentAnyTime ==
  /\ ~crashed
  /\ \E c \in config.contents :
       FillWindow([app EXCEPT !.content = c, !.segno = 0, !.starts = @ - 1], flying)
  /\ UNCHANGED <<altered, day, config>>

StartNextContent ==
  /\ ~crashed
  /\ app.starts > 0
  /\ \E c \in config.contents :
       FillWindow([app EXCEPT !.content = c, !.segno = 0, !.starts = @ - 1], flying)
  /\ UNCHANGED <<altered, day, config>>

NamesOf(E) == {e.name : e \in E}

\* CheckTimeouts: the entries E are late.  The first OnTimeout may send new
\* Interests, which are not late and leave no room for the others to fill.
\* An authentication request that is handed over once more is stamped again.
CheckTimeouts(E) ==
  /\ ~crashed
  /\ E # {}
  /\ FillWindow([app EXCEPT !.window = InitialWindow], flying \cup Retransmitted(E))
  /\ altered' = IF config.reused THEN altered \cup (NamesOf(E) \cap AuthNames)
                ELSE altered
  /\ UNCHANGED <<day, config>>

\* OnData for a name that was not requested, or not any more.
OnUnrequested(f) ==
  /\ ~crashed
  /\ f.entry.name \notin app.seqs
  /\ flying' = flying \ {f}
  /\ UNCHANGED <<app, altered, day, crashed, config>>

Grown(h) == [h EXCEPT !.window = IF @ < MaxWindow THEN @ + 1 ELSE @]

\* Mutant: m_pending_auth is not reset.
OnSatisfiedStillPending(f, t) ==
  /\ ~crashed
  /\ f.entry.name \in app.seqs
  /\ LET h == IF t = NoTag THEN app ELSE [app EXCEPT !.auth = Kept(@, t)]
     IN  FillWindow(Grown(Settled(h, f.entry.name)), flying \ {f})
  /\ UNCHANGED <<altered, day, config>>

\* OnData of type Auth or Blob, with the tag t in the former.
OnSatisfied(f, t) ==
  /\ ~crashed
  /\ f.entry.name \in app.seqs
  /\ LET h == IF t = NoTag THEN app
              ELSE [app EXCEPT !.auth = Kept(@, t), !.pendingAuth = FALSE]
     IN  FillWindow(Grown(Settled(h, f.entry.name)), flying \ {f})
  /\ UNCHANGED <<altered, day, config>>

\* OnData of type Nack: while the tag held has expired the request is tried
\* again, otherwise it is forgotten.
OnDenied(f) ==
  /\ ~crashed
  /\ f.entry.name \in app.seqs
  /\ LET x == f.entry.name
         again == {e \in app.pending : e.name = x /\ Expired(app.auth)}
         h == IF Expired(app.auth) THEN app ELSE Settled(app, x)
     IN  FillWindow(Grown(h), (flying \ {f}) \cup Retransmitted(again))
  /\ UNCHANGED <<altered, day, config>>

-----------------------------------------------------------------------------
\* The network.  An authentication request brings a tag, not necessarily a
\* new one if a content store answers; once Interests of its name differ in
\* their routes, a router may not find those of the answer in the one pending,
\* and make a Blob of it.  Contents are denied to consumers that spoil their
\* tags, and to Interests whose tag has expired.
Answer(f) ==
  /\ f \in flying
  /\ \/ OnUnrequested(f)
     \/ \E p \in Prefix, d \in 1..day :
          f.entry.name = AuthName(p) /\ OnSatisfied(f, Issued(p, d))
     \/ f.entry.name \in Segments \cup altered /\ OnSatisfied(f, NoTag)
     \/ /\ f.entry.name \in Segments
        /\ config.options # {} \/ Expired(f.entry.tag)
        /\ OnDenied(f)

Lose ==
  /\ ~crashed
  /\ \E f \in flying : flying' = flying \ {f}
  /\ UNCHANGED <<app, altered, day, crashed, config>>

NextDay ==
  /\ ~crashed
  /\ day < config.days
  /\ day' = day + 1
  /\ UNCHANGED <<app, flying, altered, crashed, config>>

Next ==
  \/ StartNextContent
  \/ \E E \in SUBSET app.pending : CheckTimeouts(E)
  \/ \E f \in flying : Answer(f)
  \/ Lose
  \/ NextDay

\* The simulator runs the events that are scheduled, among them the periodic
\* check for timeouts, so that each entry which stays pending is late again
\* and again.  Links lose packets when their queues are full, but not for
\* ever: if that is all that goes wrong in the network (config.answered), an
\* Interest that is sent time and again is answered.
Fairness ==
  /\ WF_vars(StartNextContent)
  /\ \A x \in Name :
       /\ WF_vars(\E E \in SUBSET app.pending :
                    x \in NamesOf(E) /\ CheckTimeouts(E))
       /\ SF_vars(/\ config.answered
                  /\ \E f \in flying : f.entry.name = x /\ Answer(f))

Spec == Init /\ [][Next]_vars
FairSpec == Spec /\ Fairness

-----------------------------------------------------------------------------
TypeOK ==
  /\ app \in AppState
  /\ flying \subseteq Flight
  /\ altered \subseteq IF config.reused THEN AuthNames ELSE {}
  /\ day \in 1..config.days
  /\ crashed \in BOOLEAN
  /\ config \in Configs

\* m_seqs and m_pending hold the same requests, one for each name: the
\* lookups by at() and the iterators that OnRequestSatisfied and
\* OnRequestDenied erase are good ones.
MapsAgree ==
  /\ app.seqs = {e.name : e \in app.pending}
  /\ \A e, f \in app.pending : e.name = f.name => e = f

\* However the window grows and shrinks, retransmissions, authentication
\* requests and contents that overlap included, no more requests are pending
\* than the configuration allows.
WindowBound ==
  \/ Cardinality(app.pending) <= InitialWindow
  \/ Cardinality(app.pending) <= MaxWindow

\* The last segment of the content has been asked for.  One of a content
\* without segments never is.
Exhausted(c, segno) == Size[c] > 0 /\ segno >= Size[c]

\* The next content is scheduled exactly once for each content, when its last
\* segment has been asked for: were it scheduled twice, the segments of the
\* content that is then cut short would never be asked for; were it not
\* scheduled, the consumer would stop, as it does at a content of size 0,
\* which FillWindow has nothing to send for.
NextContentOnce ==
  app.starts = IF app.content = NoContent \/ Exhausted(app.content, app.segno)
               THEN 1 ELSE 0

\* The tag that the consumer waits for.
Awaited == IF app.pendingAuth THEN {AuthName(PrefixOf[app.content])} ELSE {}

\* The one tag request that can be pending is for the content being fetched,
\* although contents change while requests are pending, and only while
\* m_pending_auth is set: the consumer does not wait for a tag that is of no
\* use.  Nor does it wait for one it has no request out for, unless a
\* retransmission has altered such a request: then it may wait for ever.
AwaitsFittingTag ==
  /\ app.pendingAuth => app.content \in Content /\ app.segno < Size[app.content]
  /\ app.seqs \cap AuthNames \subseteq Awaited
  /\ Awaited \subseteq app.seqs \cup altered

\* RetX gives up no request, and thereby leaves none in the window for ever:
\* the tags of pending requests have not expired.  This rests on the defect.
NoneAbandoned ==
  config.periodLost => \A e \in app.pending : ~Expired(e.tag)

Outdated(e) == e.tag # NoTag /\ day > e.tag.issued

\* With the defect repaired no segment is asked for with an expired tag,
\* however tags, contents and days change between two requests.
RepairedSendsValidTags ==
  [][ ~config.periodLost =>
        \A e \in app'.pending \ app.pending : ~Outdated(e) ]_vars

\* Over a network that answers, and with the Interest pending left alone by
\* RetX, each content is asked for to its last segment, whichever Interests
\* are lost and whichever are denied, unless the options keep the consumer
\* from asking, or a content has no segments.
EveryContentIsAskedFor ==
  ( /\ config.answered /\ ~config.reused
    /\ \A c \in config.contents : Size[c] > 0
    /\ config.options \cap {"no_auth", "expired_auth", "bad_prefix"} = {}
    /\ config.periodLost
    /\ app.starts = 0 ) ~> app.starts > 0

-----------------------------------------------------------------------------
\* What a comment says of the code.

\* A segment is asked for with a tag that is valid (consumer.hpp), that is,
\* one that was issued within the last day (producer.cpp).
SendsValidTags == [][\A e \in app'.pending \ app.pending : ~Outdated(e)]_vars
=============================================================================
