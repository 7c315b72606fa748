--------------------------- MODULE ConsumerProofs ---------------------------
(***************************************************************************)
(* Proofs about Consumer, for any contents, sizes, windows and settings.   *)
(* FillWindow ends every handler, so the invariant is stated of a state h  *)
(* of the consumer, in parts, and is shown to be preserved by what each    *)
(* handler does before it and then by FillWindow.                          *)
(***************************************************************************)
EXTENDS Consumer, FiniteSetTheorems, TLAPS

Agree(h) ==
  /\ h.seqs = {e.name : e \in h.pending}
  /\ \A e, f \in h.pending : e.name = f.name => e = f

Within(n) == n <= InitialWindow \/ n <= MaxWindow

Bounded(h) ==
  /\ IsFiniteSet(h.pending)
  /\ Within(h.window)
  /\ Within(Cardinality(h.pending))

Once(h) ==
  h.starts = IF h.content = NoContent \/ Exhausted(h.content, h.segno) THEN 1 ELSE 0

Awaits(h) ==
  /\ h.pendingAuth => h.content \in Content /\ h.segno < Size[h.content]
  /\ h.seqs \cap AuthNames \subseteq
       IF h.pendingAuth THEN {AuthName(PrefixOf[h.content])} ELSE {}

\* The tag awaited is asked for, or its name is among A.
Asked(h, A) == h.pendingAuth => AuthName(PrefixOf[h.content]) \in h.seqs \cup A

\* Nothing is pending before the first content.
Idle(h) == h.content = NoContent => h.pending = {}

Good(h) ==
  h \in AppState /\ Agree(h) /\ Bounded(h) /\ Once(h) /\ Awaits(h) /\ Idle(h)

IInv ==
  /\ Good(app)
  /\ Asked(app, altered)
  /\ altered \subseteq IF config.reused THEN AuthNames ELSE {}
  /\ flying \subseteq Flight
  /\ day \in 1..config.days
  /\ crashed \in BOOLEAN
  /\ config \in Configs

-----------------------------------------------------------------------------
\* Names of segments and of authentication requests differ.
LEMMA NamesDisjoint ==
  /\ Segments \cap AuthNames = {}
  /\ \A c \in Content : PrefixOf[c] \in Prefix /\ AuthName(PrefixOf[c]) \in AuthNames
  /\ \A c \in Content : Size[c] \in Nat
BY NamesAssumption, SizeAssumption
   DEF Segments, AuthNames, Segment, AuthName

\* The names SendSegments asks for are segments of the content, which are not
\* pending; one step of SendNext adds at most one to them.
LEMMA NewNamesFacts ==
  ASSUME NEW h \in AppState, h.content \in Content,
         NEW n \in (h.segno + 1)..Size[h.content]
  PROVE  /\ NewNames(h, n) \subseteq Segments \ h.seqs
         /\ IsFiniteSet(NewNames(h, n))
         /\ n = h.segno + 1 => Cardinality(NewNames(h, n)) <= 1
         /\ n > h.segno + 1 =>
              Cardinality(NewNames(h, n)) <= Cardinality(NewNames(h, n - 1)) + 1
<1>. DEFINE c == h.content
            All(m) == {Segment(c, k) : k \in h.segno..(m - 1)}
<1>0. h.segno \in Nat /\ Size[c] \in Nat /\ n \in Nat
  BY NamesDisjoint DEF AppState
<1>1. \A m \in Nat : IsFiniteSet(All(m)) /\ NewNames(h, m) = All(m) \ h.seqs
  <2>. TAKE m \in Nat
  <2>1. IsFiniteSet(h.segno..(m - 1))
    BY <1>0, FS_Interval
  <2>2. [k \in h.segno..(m - 1) |-> Segment(c, k)] \in
          Surjection(h.segno..(m - 1), All(m))
    BY DEF Surjection
  <2>3. IsFiniteSet(All(m))
    BY <2>1, <2>2, FS_Surjection
  <2>. QED  BY <2>3 DEF NewNames
<1>2. \A m \in Nat : IsFiniteSet(NewNames(h, m))
  BY <1>1, FS_Difference
<1>3. NewNames(h, n) \subseteq Segments \ h.seqs
  <2>1. All(n) \subseteq Segments
    BY <1>0 DEF Segments
  <2>. QED  BY <2>1, <1>0, <1>1
<1>4. ASSUME n = h.segno + 1
      PROVE  Cardinality(NewNames(h, n)) <= 1
  <2>0. \A k \in h.segno..(n - 1) : k = h.segno
    BY <1>0, <1>4
  <2>1. NewNames(h, n) \subseteq {Segment(c, h.segno)}
    BY <2>0, <1>0, <1>1
  <2>2. IsFiniteSet({Segment(c, h.segno)}) /\ Cardinality({Segment(c, h.segno)}) = 1
    BY FS_Singleton
  <2>. QED  BY <2>1, <2>2, FS_Subset
<1>5. ASSUME n > h.segno + 1
      PROVE  Cardinality(NewNames(h, n)) <= Cardinality(NewNames(h, n - 1)) + 1
  <2>. DEFINE S == NewNames(h, n - 1)
  <2>0. n - 1 \in Nat
    BY <1>0, <1>5
  <2>1. NewNames(h, n) \subseteq S \cup {Segment(c, n - 1)}
    <3>1. \A k \in h.segno..(n - 1) : k = n - 1 \/ k \in h.segno..(n - 1 - 1)
      BY <1>0, <1>5
    <3>2. All(n) \subseteq All(n - 1) \cup {Segment(c, n - 1)}
      BY <3>1
    <3>3. NewNames(h, n) = All(n) \ h.seqs /\ S = All(n - 1) \ h.seqs
      BY <1>0, <1>1, <2>0
    <3>. QED  BY <3>2, <3>3
  <2>2. IsFiniteSet(S) /\ Cardinality(S) \in Nat
    BY <1>2, <2>0, FS_CardinalityType
  <2>3. /\ IsFiniteSet(S \cup {Segment(c, n - 1)})
        /\ Cardinality(S \cup {Segment(c, n - 1)}) <= Cardinality(S) + 1
        /\ Cardinality(S \cup {Segment(c, n - 1)}) \in Nat
    <3>1. /\ IsFiniteSet(S \cup {Segment(c, n - 1)})
          /\ Cardinality(S \cup {Segment(c, n - 1)}) =
               IF Segment(c, n - 1) \in S THEN Cardinality(S) ELSE Cardinality(S) + 1
      BY <2>2, FS_AddElement
    <3>. HIDE DEF S
    <3>. QED  BY <3>1, <2>2
  <2>4. /\ IsFiniteSet(NewNames(h, n))
        /\ Cardinality(NewNames(h, n)) <= Cardinality(S \cup {Segment(c, n - 1)})
        /\ Cardinality(NewNames(h, n)) \in Nat
    BY <2>1, <2>3, FS_Subset, FS_CardinalityType
  <2>. QED  BY <2>2, <2>3, <2>4
<1>. QED  BY <1>0, <1>2, <1>3, <1>4, <1>5

\* What is asked for anew agrees with the maps, and makes at most as many
\* requests more pending as there are names.
LEMMA RequestedFacts ==
  ASSUME NEW h \in AppState, Agree(h), IsFiniteSet(h.pending),
         NEW names \in SUBSET Name, names \cap h.seqs = {}, IsFiniteSet(names),
         NEW t \in Tag \cup {NoTag}
  PROVE  LET r == Requested(h, names, t)
         IN  /\ r \in AppState /\ Agree(r)
             /\ r.content = h.content /\ r.segno = h.segno /\ r.starts = h.starts
             /\ r.window = h.window /\ r.pendingAuth = h.pendingAuth
             /\ r.seqs = h.seqs \cup names
             /\ IsFiniteSet(r.pending) /\ Cardinality(r.pending) \in Nat
             /\ Cardinality(r.pending) <= Cardinality(h.pending) + Cardinality(names)
<1>. DEFINE r == Requested(h, names, t)
            new == {[name |-> x, tag |-> t] : x \in names}
<1>1. new \subseteq Entry
  BY DEF Entry
<1>2. /\ r.seqs = h.seqs \cup names /\ r.pending = h.pending \cup new
      /\ r.content = h.content /\ r.segno = h.segno /\ r.starts = h.starts
      /\ r.window = h.window /\ r.pendingAuth = h.pendingAuth /\ r.auth = h.auth
  BY DEF Requested, AppState
<1>3. r \in AppState
  <2>1. h.seqs \cup names \in SUBSET Name /\ h.pending \cup new \in SUBSET Entry
    BY <1>1 DEF AppState
  <2>. HIDE DEF new
  <2>2. r = [h EXCEPT !.seqs = h.seqs \cup names, !.pending = h.pending \cup new]
    BY DEF r, Requested, new
  <2>. QED  BY <2>1, <2>2 DEF AppState
<1>4. Agree(r)
  <2>1. \A e \in new : e.name \in names /\ e.name \notin h.seqs
    OBVIOUS
  <2>2. ASSUME NEW x \in names PROVE \E e \in new : e.name = x
    <3>. WITNESS [name |-> x, tag |-> t] \in new
    <3>. QED  OBVIOUS
  <2>3. \A e, f \in new : e.name = f.name => e = f
    OBVIOUS
  <2>4. \A e \in h.pending : e.name \in h.seqs
    BY DEF Agree
  <2>. HIDE DEF r, new
  <2>5. r.seqs = {e.name : e \in r.pending}
    BY <1>2, <2>1, <2>2 DEF Agree
  <2>. QED  BY <1>2, <2>1, <2>3, <2>4, <2>5 DEF Agree
<1>5. IsFiniteSet(new) /\ Cardinality(new) <= Cardinality(names)
  <2>1. [x \in names |-> [name |-> x, tag |-> t]] \in Surjection(names, new)
    BY DEF Surjection
  <2>. QED  BY <2>1, FS_Surjection
<1>6. /\ IsFiniteSet(h.pending \cup new)
      /\ Cardinality(h.pending \cup new) =
           Cardinality(h.pending) + Cardinality(new) - Cardinality(h.pending \cap new)
  BY <1>5, FS_Union
<1>7. /\ Cardinality(h.pending) \in Nat /\ Cardinality(new) \in Nat
      /\ Cardinality(names) \in Nat /\ Cardinality(h.pending \cap new) \in Nat
      /\ Cardinality(h.pending \cup new) \in Nat
  <2>1. IsFiniteSet(h.pending \cap new)
    BY <1>5, FS_Subset
  <2>. QED  BY <1>5, <1>6, <2>1, FS_CardinalityType
<1>. HIDE DEF new
<1>8. Cardinality(r.pending) <= Cardinality(h.pending) + Cardinality(names)
  BY <1>2, <1>5, <1>6, <1>7
<1>. QED  BY <1>2, <1>3, <1>4, <1>6, <1>7, <1>8

LEMMA FirstSentType ==
  ASSUME NEW names \in SUBSET Name, NEW t \in Tag \cup {NoTag}
  PROVE  FirstSent(names, t) \subseteq Flight
<1>1. ASSUME NEW x \in names
      PROVE  [entry |-> [name |-> x, tag |-> t], retx |-> FALSE] \in Flight
  <2>1. [name |-> x, tag |-> t] \in Entry
    BY DEF Entry
  <2>. QED  BY <2>1 DEF Flight
<1>. QED  BY <1>1 DEF FirstSent

\* FillWindow, the end of every handler, preserves the invariant.
LEMMA FillWindowGood ==
  ASSUME NEW h, Good(h), h.content \in Content, NEW net \in SUBSET Flight,
         crashed \in BOOLEAN, FillWindow(h, net)
  PROVE  Good(app') /\ flying' \subseteq Flight /\ crashed' \in BOOLEAN
<1>. DEFINE c == h.content
<1>0. /\ h \in AppState /\ Agree(h) /\ Bounded(h) /\ Once(h) /\ Awaits(h)
      /\ h.segno \in Nat /\ h.starts \in Nat /\ h.window \in Nat
      /\ h.auth \in Tag \cup {NoTag} /\ h.pendingAuth \in BOOLEAN
      /\ IsFiniteSet(h.pending) /\ Cardinality(h.pending) \in Nat
      /\ c # NoContent /\ Size[c] \in Nat
  BY NamesDisjoint, NamesAssumption, FS_CardinalityType DEF Good, AppState, Bounded
<1>1. CASE app' = h /\ flying' = net /\ crashed' \in BOOLEAN
  BY <1>1
<1>2. CASE ~Rests(h) /\ ~HasAuth(h) /\ SendAuthRequest(h, net) /\ UNCHANGED crashed
  <2>. DEFINE names == {AuthName(PrefixOf[c])} \ h.seqs
              r == Requested(h, names, NoTag)
  <2>1. /\ app' = [r EXCEPT !.pendingAuth = TRUE]
        /\ flying' = net \cup FirstSent(names, NoTag)
    BY <1>2 DEF SendAuthRequest
  <2>2. /\ names \subseteq Name /\ names \cap h.seqs = {}
        /\ IsFiniteSet(names) /\ Cardinality(names) <= 1 /\ Cardinality(names) \in Nat
    <3>1. /\ IsFiniteSet({AuthName(PrefixOf[c])})
          /\ Cardinality({AuthName(PrefixOf[c])}) = 1
      BY FS_Singleton
    <3>2. names \subseteq {AuthName(PrefixOf[c])}
      OBVIOUS
    <3>. QED  BY <3>1, <3>2, NamesDisjoint, FS_Subset, FS_CardinalityType DEF Name
  <2>. HIDE DEF names
  <2>3. /\ r \in AppState /\ Agree(r)
        /\ r.content = h.content /\ r.segno = h.segno /\ r.starts = h.starts
        /\ r.window = h.window /\ r.seqs = h.seqs \cup names
        /\ IsFiniteSet(r.pending) /\ Cardinality(r.pending) \in Nat
        /\ Cardinality(r.pending) <= Cardinality(h.pending) + Cardinality(names)
    BY <1>0, <2>2, RequestedFacts
  <2>. HIDE DEF r
  <2>4. /\ app' \in AppState /\ app'.pendingAuth = TRUE
        /\ app'.content = h.content /\ app'.segno = h.segno
        /\ app'.starts = h.starts /\ app'.window = h.window
        /\ app'.seqs = r.seqs /\ app'.pending = r.pending
    BY <2>1, <2>3 DEF AppState
  <2>5. Agree(app')
    BY <2>3, <2>4 DEF Agree
  <2>6. Cardinality(app'.pending) <= h.window
    BY <1>0, <1>2, <2>2, <2>3, <2>4 DEF Rests
  <2>7. Bounded(app')
    BY <1>0, <2>3, <2>4, <2>6, WindowAssumption DEF Bounded, Within
  <2>8. Once(app')
    BY <1>0, <2>3, <2>4 DEF Once, Exhausted
  <2>9. Awaits(app')
    <3>1. h.pendingAuth = FALSE /\ h.segno < Size[c]
      BY <1>0, <1>2 DEF Rests
    <3>2. h.seqs \cap AuthNames = {}
      BY <3>1, <1>0 DEF Awaits
    <3>3. AuthName(PrefixOf[c]) \notin h.seqs
      BY <3>2, NamesDisjoint
    <3>4. app'.seqs \cap AuthNames = {AuthName(PrefixOf[c])}
      BY <2>3, <2>4, <3>2, <3>3, NamesDisjoint DEF names
    <3>. QED  BY <2>4, <3>1, <3>4 DEF Awaits
  <2>10. flying' \subseteq Flight
    BY <2>1, <2>2, FirstSentType
  <2>. QED  BY <1>0, <1>2, <2>4, <2>5, <2>7, <2>8, <2>9, <2>10 DEF Good, Idle
<1>3. ASSUME ~Rests(h), HasAuth(h), UNCHANGED crashed,
             NEW n \in (h.segno + 1)..Size[c],
             \A m \in (h.segno + 1)..(n - 1) : ~Full(h, m),
             SendSegments(h, n, net)
      PROVE  Good(app') /\ flying' \subseteq Flight /\ crashed' \in BOOLEAN
  <2>. DEFINE names == NewNames(h, n)
              r == Requested(h, names, h.auth)
  <2>1. /\ app' = [r EXCEPT !.segno = n,
                           !.starts = IF n = Size[c] THEN @ + 1 ELSE @]
        /\ flying' = net \cup FirstSent(names, h.auth)
    BY <1>3 DEF SendSegments
  <2>2. /\ names \subseteq Segments /\ names \subseteq Name /\ names \cap h.seqs = {}
        /\ IsFiniteSet(names) /\ Cardinality(names) \in Nat
    BY <1>0, NewNamesFacts, FS_CardinalityType DEF Name
  <2>3. Cardinality(h.pending) + Cardinality(names) <= h.window
    <3>1. Cardinality(h.pending) < h.window
      BY <1>0, <1>3 DEF Rests
    <3>2. CASE n = h.segno + 1
      BY <1>0, <2>2, <3>1, <3>2, NewNamesFacts
    <3>3. CASE n > h.segno + 1
      <4>1. n - 1 \in (h.segno + 1)..(n - 1) /\ n - 1 \in (h.segno + 1)..Size[c]
        BY <1>0, <3>3
      <4>2. Cardinality(NewNames(h, n - 1)) \in Nat
        BY <1>0, <4>1, NewNamesFacts, FS_CardinalityType
      <4>3. Cardinality(h.pending) + Cardinality(NewNames(h, n - 1)) < h.window
        BY <1>0, <1>3, <4>1, <4>2 DEF Full
      <4>4. Cardinality(names) <= Cardinality(NewNames(h, n - 1)) + 1
        BY <1>0, <3>3, NewNamesFacts
      <4>. QED  BY <1>0, <2>2, <4>2, <4>3, <4>4
    <3>. QED  BY <1>0, <3>2, <3>3
  <2>. HIDE DEF names
  <2>4. /\ r \in AppState /\ Agree(r)
        /\ r.content = h.content /\ r.starts = h.starts
        /\ r.window = h.window /\ r.pendingAuth = h.pendingAuth
        /\ r.seqs = h.seqs \cup names
        /\ IsFiniteSet(r.pending) /\ Cardinality(r.pending) \in Nat
        /\ Cardinality(r.pending) <= Cardinality(h.pending) + Cardinality(names)
    BY <1>0, <2>2, RequestedFacts
  <2>. HIDE DEF r
  <2>5. /\ app' \in AppState /\ app'.pendingAuth = h.pendingAuth
        /\ app'.content = h.content /\ app'.segno = n
        /\ app'.starts = (IF n = Size[c] THEN h.starts + 1 ELSE h.starts)
        /\ app'.window = h.window
        /\ app'.seqs = r.seqs /\ app'.pending = r.pending
    <3>. DEFINE s == IF n = Size[c] THEN h.starts + 1 ELSE h.starts
    <3>1. s \in Nat /\ n \in Nat
      BY <1>0
    <3>2. app' = [r EXCEPT !.segno = n, !.starts = s]
      BY <2>1, <2>4 DEF AppState
    <3>. HIDE DEF s
    <3>3. app' \in AppState /\ app'.starts = s
      BY <2>4, <3>1, <3>2 DEF AppState
    <3>. QED  BY <2>4, <3>2, <3>3 DEF AppState, s
  <2>6. Agree(app')
    BY <2>4, <2>5 DEF Agree
  <2>7. Bounded(app')
    BY <1>0, <2>2, <2>3, <2>4, <2>5, WindowAssumption DEF Bounded, Within
  <2>8. Once(app')
    <3>1. h.starts = 0
      BY <1>0, <1>3 DEF Once, Exhausted, Rests
    <3>. QED  BY <1>0, <2>5, <3>1 DEF Once, Exhausted
  <2>9. Awaits(app')
    <3>1. h.pendingAuth = FALSE
      BY <1>0, <1>3 DEF Rests
    <3>2. h.seqs \cap AuthNames = {}
      BY <3>1, <1>0 DEF Awaits
    <3>. QED  BY <2>2, <2>4, <2>5, <3>1, <3>2, NamesDisjoint DEF Awaits
  <2>10. flying' \subseteq Flight
    BY <1>0, <2>1, <2>2, FirstSentType
  <2>. QED  BY <1>0, <1>3, <2>5, <2>6, <2>7, <2>8, <2>9, <2>10 DEF Good, Idle
<1>. QED  BY <1>1, <1>2, <1>3 DEF FillWindow

\* FillWindow asks for the tag it comes to await, and takes back no request.
LEMMA FillWindowAsks ==
  ASSUME NEW h \in AppState, NEW net, FillWindow(h, net), NEW A, Asked(h, A)
  PROVE  Asked(app', A)
<1>1. CASE app' = h
  BY <1>1
<1>2. CASE SendAuthRequest(h, net)
  <2>. DEFINE names == {AuthName(PrefixOf[h.content])} \ h.seqs
  <2>1. app'.content = h.content /\ app'.seqs = h.seqs \cup names
    BY <1>2 DEF SendAuthRequest, Requested, AppState
  <2>. QED  BY <2>1 DEF Asked
<1>3. ASSUME NEW n, SendSegments(h, n, net)
      PROVE  Asked(app', A)
  <2>1. /\ app'.content = h.content /\ app'.pendingAuth = h.pendingAuth
        /\ app'.seqs = h.seqs \cup NewNames(h, n)
    BY <1>3 DEF SendSegments, Requested, AppState
  <2>. QED  BY <2>1 DEF Asked
<1>. QED  BY <1>1, <1>2, <1>3 DEF FillWindow

-----------------------------------------------------------------------------
LEMMA ConfigFacts ==
  ASSUME config \in Configs
  PROVE  /\ config.contents \subseteq Content
         /\ config.days \in Nat \ {0}
BY ConfigAssumption DEF Config

LEMMA TagTypes ==
  ASSUME config \in Configs
  PROVE
  /\ \A t \in Tag, d \in Nat : SetExpirationTime(t, d) \in Tag
  /\ \A t \in Tag : SetSignature(t) \in Tag
  /\ \A p \in Prefix, d \in Nat : Issued(p, d) \in Tag
  /\ \A t \in Tag : day \in 1..config.days =>
       \A held \in Tag \cup {NoTag} : Kept(held, t) \in Tag \cup {NoTag}
<1>0. Never \in Nat
  BY ConfigFacts DEF Never
<1>1. \A t \in Tag, d \in Nat : SetExpirationTime(t, d) \in Tag
  BY DEF SetExpirationTime, Tag
<1>2. \A t \in Tag : SetSignature(t) \in Tag
  BY <1>0 DEF SetSignature, Tag
<1>3. ASSUME NEW p \in Prefix, NEW d \in Nat PROVE Issued(p, d) \in Tag
  <2>1. [prefix |-> p, issued |-> d, until |-> Never] \in Tag
    BY <1>0 DEF Tag
  <2>. QED  BY <2>1, <1>1, <1>2 DEF Issued
<1>4. ASSUME NEW t \in Tag, day \in 1..config.days PROVE Spoilt(t) \in Tag
  <2>. DEFINE signed == IF "bad_auth_sig" \in config.options THEN SetSignature(t) ELSE t
              lapsed == IF "expired_auth" \in config.options
                        THEN SetExpirationTime(signed, day - 1) ELSE signed
  <2>1. signed \in Tag
    BY <1>2
  <2>2. day - 1 \in Nat
    BY <1>4, ConfigFacts
  <2>3. lapsed \in Tag
    BY <2>1, <2>2, <1>1
  <2>. HIDE DEF lapsed
  <2>4. [lapsed EXCEPT !.prefix = NoPrefix] \in Tag
    BY <2>3 DEF Tag
  <2>. QED  BY <2>3, <2>4 DEF Spoilt, lapsed
<1>. QED  BY <1>1, <1>2, <1>3, <1>4 DEF Kept

LEMMA RetransmittedType ==
  ASSUME NEW E \in SUBSET Entry
  PROVE  Retransmitted(E) \subseteq Flight
<1>1. ASSUME NEW e \in E PROVE [entry |-> e, retx |-> TRUE] \in Flight
  BY DEF Flight
<1>. QED  BY <1>1 DEF Retransmitted

\* The window grows to its bound and no further.
LEMMA GrownGood ==
  ASSUME NEW h, Good(h)
  PROVE  Good(Grown(h)) /\ Grown(h).content = h.content
<1>1. h \in AppState /\ h.window \in Nat /\ Within(h.window)
  BY DEF Good, AppState, Bounded
<1>. DEFINE w == IF h.window < MaxWindow THEN h.window + 1 ELSE h.window
<1>2. w \in Nat /\ Within(w)
  BY <1>1, WindowAssumption DEF Within
<1>3. Grown(h) = [h EXCEPT !.window = w]
  BY <1>1 DEF Grown, AppState
<1>. HIDE DEF w
<1>4. /\ Grown(h) \in AppState
      /\ Grown(h).window = w /\ Grown(h).content = h.content
      /\ Grown(h).segno = h.segno /\ Grown(h).starts = h.starts
      /\ Grown(h).pendingAuth = h.pendingAuth
      /\ Grown(h).seqs = h.seqs /\ Grown(h).pending = h.pending
  BY <1>1, <1>2, <1>3 DEF AppState
<1>. QED  BY <1>2, <1>4 DEF Good, Agree, Bounded, Once, Awaits, Idle

\* Settling a request leaves the maps in agreement.  Without it, no tag is
\* asked for but one that is awaited.
LEMMA SettledGood ==
  ASSUME NEW h, Good(h), NEW x, NEW a \in Tag \cup {NoTag}, NEW b \in BOOLEAN,
         x \in Segments => b = h.pendingAuth,
         x \in AuthNames => x \in h.seqs /\ b \in {h.pendingAuth, FALSE},
         x \in Name
  PROVE  LET s == Settled([h EXCEPT !.auth = a, !.pendingAuth = b], x)
         IN  Good(s) /\ s.content = h.content
<1>. DEFINE s == Settled([h EXCEPT !.auth = a, !.pendingAuth = b], x)
            rest == {e \in h.pending : e.name # x}
<1>0. h \in AppState /\ Agree(h) /\ Bounded(h) /\ Once(h) /\ Awaits(h) /\ Idle(h)
  BY DEF Good
<1>1. /\ s = [h EXCEPT !.auth = a, !.pendingAuth = b,
                      !.seqs = h.seqs \ {x}, !.pending = rest]
      /\ rest \in SUBSET h.pending
  BY <1>0 DEF Settled, AppState
<1>. HIDE DEF s, rest
<1>2. rest \in SUBSET Entry /\ h.seqs \ {x} \in SUBSET Name
  BY <1>0, <1>1 DEF AppState
<1>3. /\ s \in AppState
      /\ s.content = h.content /\ s.segno = h.segno /\ s.starts = h.starts
      /\ s.window = h.window /\ s.pendingAuth = b
      /\ s.seqs = h.seqs \ {x} /\ s.pending = rest
  BY <1>0, <1>1, <1>2 DEF AppState
<1>4. Agree(s)
  BY <1>0, <1>3 DEF Agree, rest
<1>5. Bounded(s)
  <2>1. /\ IsFiniteSet(rest) /\ Cardinality(rest) <= Cardinality(h.pending)
        /\ Cardinality(rest) \in Nat /\ Cardinality(h.pending) \in Nat
    BY <1>0, <1>1, FS_Subset, FS_CardinalityType DEF Bounded
  <2>2. Within(Cardinality(rest))
    BY <1>0, <2>1, WindowAssumption DEF Bounded, Within
  <2>. QED  BY <1>0, <1>3, <2>1, <2>2 DEF Bounded
<1>6. Once(s)
  BY <1>0, <1>3 DEF Once, Exhausted
<1>7. Awaits(s)
  <2>1. CASE x \in Segments
    BY <2>1, <1>0, <1>3, NamesDisjoint DEF Awaits
  <2>2. CASE b = h.pendingAuth
    BY <2>2, <1>0, <1>3 DEF Awaits
  <2>3. CASE x \in AuthNames /\ b = FALSE
    <3>1. h.seqs \cap AuthNames = {x}
      BY <2>3, <1>0 DEF Awaits
    <3>2. s.seqs \cap AuthNames = {}
      BY <3>1, <1>3
    <3>. QED  BY <2>3, <3>2, <1>3 DEF Awaits
  <2>. QED  BY <2>1, <2>2, <2>3 DEF Name
<1>8. Idle(s)
  BY <1>0, <1>1, <1>3 DEF Idle
<1>. QED  BY <1>3, <1>4, <1>5, <1>6, <1>7, <1>8 DEF Good, s

LEMMA SegmentSettledGood ==
  ASSUME NEW h, Good(h), NEW x \in Name, x \notin AuthNames
  PROVE  Good(Settled(h, x)) /\ Settled(h, x).content = h.content
<1>1. h \in AppState /\ h.auth \in Tag \cup {NoTag} /\ h.pendingAuth \in BOOLEAN
  BY DEF Good, AppState
<1>2. [h EXCEPT !.auth = h.auth, !.pendingAuth = h.pendingAuth] = h
  BY <1>1 DEF AppState
<1>3. LET s == Settled([h EXCEPT !.auth = h.auth, !.pendingAuth = h.pendingAuth], x)
      IN  Good(s) /\ s.content = h.content
  BY <1>1, SettledGood
<1>. QED  BY <1>2, <1>3

-----------------------------------------------------------------------------
LEMMA InitGood == Init => IInv
<1>. SUFFICES ASSUME Init PROVE IInv
  OBVIOUS
<1>1. app \in AppState
  BY WindowAssumption DEF Init, AppState
<1>2. Agree(app) /\ Once(app) /\ Idle(app)
  BY DEF Init, Agree, Once, Exhausted, Idle
<1>3. Bounded(app)
  BY FS_EmptySet, WindowAssumption DEF Init, Bounded, Within
<1>4. Awaits(app)
  BY DEF Init, Awaits
<1>5. Good(app)
  BY <1>1, <1>2, <1>3, <1>4 DEF Good
<1>6. /\ flying \subseteq Flight /\ crashed \in BOOLEAN
      /\ altered = {} /\ Asked(app, altered)
  BY DEF Init, Asked
<1>7. config \in Configs /\ day \in 1..config.days
  BY ConfigFacts DEF Init
<1>. QED  BY <1>5, <1>6, <1>7 DEF IInv

\* With something pending there is a content being fetched.
LEMMA PendingContent ==
  ASSUME IInv, app.seqs # {} \/ app.pending # {}
  PROVE  app.content \in Content
BY DEF IInv, Good, Agree, Idle, AppState

LEMMA StartPreserves ==
  ASSUME IInv, StartNextContent
  PROVE  IInv'
<1>1. PICK c \in Content :
        FillWindow([app EXCEPT !.content = c, !.segno = 0, !.starts = @ - 1], flying)
  BY ConfigFacts DEF IInv, StartNextContent
<1>. DEFINE h == [app EXCEPT !.content = c, !.segno = 0, !.starts = @ - 1]
<1>0. Good(app) /\ app \in AppState /\ app.starts \in Nat /\ app.starts > 0
  BY DEF IInv, Good, AppState, StartNextContent
<1>2. app.starts = 1 /\ (app.content = NoContent \/ app.segno >= Size[app.content])
  BY <1>0 DEF Good, Once, Exhausted
<1>3. app.pendingAuth = FALSE
  <2>1. app.content \in Content => app.segno \in Nat /\ Size[app.content] \in Nat
    BY <1>0, NamesDisjoint DEF AppState
  <2>. QED  BY <1>0, <1>2, <2>1, NamesAssumption DEF Good, Awaits, AppState
<1>4. /\ h \in AppState /\ h.content = c /\ h.segno = 0 /\ h.starts = 0
      /\ h.window = app.window /\ h.pendingAuth = FALSE
      /\ h.seqs = app.seqs /\ h.pending = app.pending
  <2>1. app.starts - 1 = 0
    BY <1>2
  <2>2. h = [app EXCEPT !.content = c, !.segno = 0, !.starts = 0]
    BY <2>1, <1>0 DEF AppState
  <2>3. [app EXCEPT !.content = c, !.segno = 0, !.starts = 0] \in AppState
    BY <1>0 DEF AppState
  <2>. QED  BY <1>0, <1>3, <2>2, <2>3 DEF AppState
<1>5. Good(h)
  <2>1. Agree(h) /\ Bounded(h)
    BY <1>0, <1>4 DEF Good, Agree, Bounded
  <2>2. Once(h) /\ Idle(h)
    BY <1>4, NamesAssumption, NamesDisjoint DEF Once, Exhausted, Idle
  <2>3. Awaits(h)
    BY <1>0, <1>3, <1>4 DEF Good, Awaits
  <2>. QED  BY <1>4, <2>1, <2>2, <2>3 DEF Good
<1>. HIDE DEF h
<1>6. Good(app') /\ flying' \subseteq Flight /\ crashed' \in BOOLEAN
  BY <1>1, <1>4, <1>5, FillWindowGood DEF IInv, h
<1>7. Asked(app', altered)
  BY <1>1, <1>4, FillWindowAsks DEF Asked, h
<1>. QED  BY <1>6, <1>7 DEF IInv, StartNextContent

LEMMA TimeoutsPreserve ==
  ASSUME IInv, NEW E \in SUBSET app.pending, CheckTimeouts(E)
  PROVE  IInv'
<1>. DEFINE h == [app EXCEPT !.window = InitialWindow]
            net == flying \cup Retransmitted(E)
<1>0. Good(app) /\ app \in AppState
  BY DEF IInv, Good
<1>1. app.content \in Content
  BY PendingContent DEF CheckTimeouts
<1>2. /\ h \in AppState /\ h.content = app.content /\ h.segno = app.segno
      /\ h.starts = app.starts /\ h.window = InitialWindow
      /\ h.pendingAuth = app.pendingAuth
      /\ h.seqs = app.seqs /\ h.pending = app.pending
  BY <1>0, WindowAssumption DEF AppState
<1>3. Good(h)
  BY <1>0, <1>2, WindowAssumption
     DEF Good, Agree, Bounded, Within, Once, Exhausted, Awaits, Idle
<1>4. net \in SUBSET Flight
  BY <1>0, RetransmittedType DEF IInv, AppState
<1>5. FillWindow(h, net)
  BY DEF CheckTimeouts
<1>. HIDE DEF h, net
<1>6. Good(app') /\ flying' \subseteq Flight /\ crashed' \in BOOLEAN
  BY <1>1, <1>2, <1>3, <1>4, <1>5, FillWindowGood DEF IInv
<1>7. /\ altered \subseteq altered' /\ UNCHANGED config
      /\ altered' \subseteq IF config.reused THEN AuthNames ELSE {}
  BY DEF IInv, CheckTimeouts
<1>8. Asked(h, altered')
  BY <1>2, <1>7 DEF IInv, Asked
<1>9. Asked(app', altered')
  BY <1>2, <1>5, <1>8, FillWindowAsks
<1>. QED  BY <1>6, <1>7, <1>9 DEF IInv, CheckTimeouts

LEMMA SatisfiedPreserves ==
  ASSUME IInv, NEW f \in flying, NEW t \in Tag \cup {NoTag},
         f.entry.name \in Segments => t = NoTag,
         f.entry.name \notin Segments \cup altered => t # NoTag,
         OnSatisfied(f, t)
  PROVE  IInv'
<1>. DEFINE x == f.entry.name
            a == IF t = NoTag THEN app.auth ELSE Kept(app.auth, t)
            b == IF t = NoTag THEN app.pendingAuth ELSE FALSE
            h == Settled([app EXCEPT !.auth = a, !.pendingAuth = b], x)
<1>0. /\ Good(app) /\ app \in AppState /\ app.content \in Content
      /\ x \in app.seqs /\ x \in Name
  BY PendingContent DEF IInv, Good, OnSatisfied, AppState
<1>1. a \in Tag \cup {NoTag} /\ b \in BOOLEAN
  BY <1>0, TagTypes DEF IInv, AppState
<1>2. /\ x \in Segments => b = app.pendingAuth
      /\ x \in AuthNames => x \in app.seqs /\ b \in {app.pendingAuth, FALSE}
  BY <1>0
<1>3. Good(h) /\ h.content = app.content
  BY <1>0, <1>1, <1>2, SettledGood
<1>4. Good(Grown(h)) /\ Grown(h).content = app.content
  BY <1>3, GrownGood
<1>5. FillWindow(Grown(h), flying \ {f})
  <2>1. [app EXCEPT !.auth = a, !.pendingAuth = b] =
          IF t = NoTag THEN app
          ELSE [app EXCEPT !.auth = Kept(@, t), !.pendingAuth = FALSE]
    BY <1>0 DEF AppState
  <2>. QED  BY <2>1 DEF OnSatisfied
<1>6. Asked(Grown(h), altered)
  <2>1. /\ h.content = app.content /\ h.pendingAuth = b /\ h.seqs = app.seqs \ {x}
    BY <1>0, <1>1 DEF Settled, AppState
  <2>2. /\ Grown(h).content = h.content /\ Grown(h).seqs = h.seqs
        /\ Grown(h).pendingAuth = h.pendingAuth
    BY <1>3 DEF Grown, Good, AppState
  <2>3. ASSUME app.pendingAuth, t = NoTag
        PROVE  AuthName(PrefixOf[app.content]) \in (app.seqs \ {x}) \cup altered
    <3>1. AuthName(PrefixOf[app.content]) \in app.seqs \cup altered
      BY <2>3 DEF IInv, Asked
    <3>2. x \in altered \/ x # AuthName(PrefixOf[app.content])
      BY <1>0, <2>3, NamesDisjoint
    <3>. QED  BY <3>1, <3>2
  <2>. HIDE DEF h
  <2>. QED  BY <2>1, <2>2, <2>3 DEF Asked
<1>. HIDE DEF h
<1>7. Good(app') /\ flying' \subseteq Flight /\ crashed' \in BOOLEAN
  BY <1>0, <1>4, <1>5, FillWindowGood DEF IInv
<1>8. Asked(app', altered)
  BY <1>4, <1>5, <1>6, FillWindowAsks DEF Good
<1>. QED  BY <1>7, <1>8 DEF IInv, OnSatisfied

LEMMA DeniedPreserves ==
  ASSUME IInv, NEW f \in flying, f.entry.name \in Segments, OnDenied(f)
  PROVE  IInv'
<1>. DEFINE x == f.entry.name
            again == {e \in app.pending : e.name = x /\ Expired(app.auth)}
            h == IF Expired(app.auth) THEN app ELSE Settled(app, x)
            net == (flying \ {f}) \cup Retransmitted(again)
<1>0. /\ Good(app) /\ app \in AppState /\ app.content \in Content
      /\ app.auth \in Tag \cup {NoTag} /\ app.pendingAuth \in BOOLEAN
      /\ x \in Name /\ x \notin AuthNames
  BY PendingContent, NamesDisjoint DEF IInv, Good, OnDenied, AppState
<1>1. Good(h) /\ h.content = app.content
  <2>. QED  BY <1>0, SegmentSettledGood
<1>2. Good(Grown(h)) /\ Grown(h).content = app.content
  BY <1>1, GrownGood
<1>3. net \in SUBSET Flight
  <2>1. again \in SUBSET Entry
    BY <1>0 DEF AppState
  <2>. QED  BY <2>1, RetransmittedType DEF IInv
<1>4. FillWindow(Grown(h), net)
  BY DEF OnDenied
<1>5. Asked(Grown(h), altered)
  <2>1. /\ h.content = app.content /\ h.pendingAuth = app.pendingAuth
        /\ app.seqs \ {x} \subseteq h.seqs
    BY <1>0 DEF Settled, AppState
  <2>2. /\ Grown(h).content = h.content /\ Grown(h).seqs = h.seqs
        /\ Grown(h).pendingAuth = h.pendingAuth
    BY <1>1 DEF Grown, Good, AppState
  <2>3. x # AuthName(PrefixOf[app.content])
    BY <1>0, NamesDisjoint
  <2>. HIDE DEF h
  <2>. QED  BY <2>1, <2>2, <2>3 DEF IInv, Asked
<1>. HIDE DEF h, net
<1>6. Good(app') /\ flying' \subseteq Flight /\ crashed' \in BOOLEAN
  BY <1>0, <1>2, <1>3, <1>4, FillWindowGood DEF IInv
<1>7. Asked(app', altered)
  BY <1>2, <1>4, <1>5, FillWindowAsks DEF Good
<1>. QED  BY <1>6, <1>7 DEF IInv, OnDenied

LEMMA AnswerPreserves ==
  ASSUME IInv, NEW f \in flying, Answer(f)
  PROVE  IInv'
<1>0. NoTag \notin Tag /\ Segments \cap AuthNames = {}
  BY NamesAssumption, NamesDisjoint
<1>1. CASE OnUnrequested(f)
  BY <1>1 DEF IInv, OnUnrequested
<1>2. ASSUME NEW p \in Prefix, NEW d \in 1..day,
             f.entry.name = AuthName(p), OnSatisfied(f, Issued(p, d))
      PROVE  IInv'
  <2>1. d \in Nat /\ f.entry.name \in AuthNames
    BY <1>2, ConfigFacts DEF IInv, AuthNames
  <2>2. Issued(p, d) \in Tag
    BY <2>1, TagTypes DEF IInv
  <2>. QED  BY <1>0, <1>2, <2>1, <2>2, SatisfiedPreserves
<1>3. CASE f.entry.name \in Segments \cup altered /\ OnSatisfied(f, NoTag)
  BY <1>3, SatisfiedPreserves
<1>4. CASE f.entry.name \in Segments /\ OnDenied(f)
  BY <1>4, DeniedPreserves
<1>. QED  BY <1>1, <1>2, <1>3, <1>4 DEF Answer

LEMMA NextPreserves == IInv /\ [Next]_vars => IInv'
<1>. SUFFICES ASSUME IInv, [Next]_vars PROVE IInv'
  OBVIOUS
<1>1. CASE StartNextContent
  BY <1>1, StartPreserves
<1>2. CASE \E E \in SUBSET app.pending : CheckTimeouts(E)
  BY <1>2, TimeoutsPreserve
<1>3. CASE \E f \in flying : Answer(f)
  BY <1>3, AnswerPreserves
<1>4. CASE Lose
  BY <1>4 DEF Lose, IInv
<1>5. CASE NextDay
  BY <1>5, ConfigFacts DEF NextDay, IInv
<1>6. CASE UNCHANGED vars
  BY <1>6 DEF vars, IInv
<1>. QED  BY <1>1, <1>2, <1>3, <1>4, <1>5, <1>6 DEF Next

THEOREM Invariance == Spec => []IInv
BY InitGood, NextPreserves, PTL DEF Spec

\* Every variable of the consumer keeps its type.
THEOREM TypeCorrect == Spec => []TypeOK
<1>1. IInv => TypeOK
  BY DEF IInv, Good, TypeOK
<1>. QED  BY <1>1, Invariance, PTL

\* m_seqs and m_pending always hold the same requests (MapsAgree).
THEOREM MapsInAgreement == Spec => []MapsAgree
<1>1. IInv => MapsAgree
  BY DEF IInv, Good, Agree, MapsAgree
<1>. QED  BY <1>1, Invariance, PTL

\* The requests pending never exceed the larger of the configured windows,
\* for any windows and any sizes of contents.
THEOREM WindowKept == Spec => []WindowBound
<1>1. IInv => WindowBound
  BY DEF IInv, Good, Bounded, Within, WindowBound
<1>. QED  BY <1>1, Invariance, PTL

\* The next content is scheduled once for each content and not earlier than
\* its last segment is asked for.
THEOREM ScheduledOnce == Spec => []NextContentOnce
<1>1. IInv => NextContentOnce
  BY DEF IInv, Good, Once, Exhausted, NextContentOnce
<1>. QED  BY <1>1, Invariance, PTL

\* A consumer asks for no tag but one that fits its content and that it waits
\* for, and it has that request out, unless RetX has altered it: once that has
\* happened a Blob may have settled the request (AwaitsFittingTag).
THEOREM FittingTagAwaited == Spec => []AwaitsFittingTag
<1>1. IInv => AwaitsFittingTag
  BY DEF IInv, Good, Awaits, Asked, Awaited, AwaitsFittingTag
<1>. QED  BY <1>1, Invariance, PTL

\* If RetX leaves the Interest pending alone, no consumer waits for a tag that
\* it does not have a request out for.
THEOREM RepairedTagAsked ==
  Spec => [](~config.reused => Awaited \subseteq app.seqs)
<1>1. IInv => (~config.reused => Awaited \subseteq app.seqs)
  BY DEF IInv, Asked, Awaited
<1>. QED  BY <1>1, Invariance, PTL

-----------------------------------------------------------------------------
\* While signing loses the validity period, each tag that a request carries is
\* one for ever.  The tag held may have expired, by enable_expired_auth, but
\* is then not used.
Endless(t) == t = NoTag \/ t.until = Never

Lasting(h) ==
  config.periodLost =>
    /\ \A e \in h.pending : Endless(e.tag)
    /\ Endless(h.auth) \/ Expired(h.auth)
    /\ "no_auth" \in config.options => h.auth = NoTag

LEMMA FillWindowLasting ==
  ASSUME NEW h \in AppState, NEW net, Lasting(h), FillWindow(h, net)
  PROVE  /\ \A e \in app'.pending : config.periodLost => Endless(e.tag)
         /\ app'.auth = h.auth
<1>1. CASE app' = h
  BY <1>1 DEF Lasting
<1>2. CASE SendAuthRequest(h, net)
  <2>. DEFINE names == {AuthName(PrefixOf[h.content])} \ h.seqs
              new   == {[name |-> x, tag |-> NoTag] : x \in names}
  <2>1. app'.pending = h.pending \cup new /\ app'.auth = h.auth
    BY <1>2 DEF SendAuthRequest, Requested, AppState
  <2>2. \A e \in new : e.tag = NoTag
    OBVIOUS
  <2>. QED  BY <2>1, <2>2 DEF Lasting, Endless
<1>3. ASSUME HasAuth(h), h.auth # NoTag, NEW n, SendSegments(h, n, net)
      PROVE  /\ \A e \in app'.pending : config.periodLost => Endless(e.tag)
             /\ app'.auth = h.auth
  <2>. DEFINE names == NewNames(h, n)
              new   == {[name |-> x, tag |-> h.auth] : x \in names}
  <2>1. app'.pending = h.pending \cup new /\ app'.auth = h.auth
    BY <1>3 DEF SendSegments, Requested, AppState
  <2>2. \A e \in new : e.tag = h.auth
    OBVIOUS
  <2>3. config.periodLost => Endless(h.auth)
    BY <1>3 DEF HasAuth, Lasting
  <2>. QED  BY <2>1, <2>2, <2>3 DEF Lasting
<1>. QED  BY <1>1, <1>2, <1>3 DEF FillWindow

LEMMA IssuedLasting ==
  ASSUME config \in Configs, day \in 1..config.days, config.periodLost,
         NEW p \in Prefix, NEW d \in Nat
  PROVE  Endless(Spoilt(Issued(p, d))) \/ Expired(Spoilt(Issued(p, d)))
<1>. DEFINE t == Issued(p, d)
            signed == IF "bad_auth_sig" \in config.options THEN SetSignature(t) ELSE t
            lapsed == IF "expired_auth" \in config.options
                      THEN SetExpirationTime(signed, day - 1) ELSE signed
<1>1. t \in Tag /\ signed \in Tag
  BY TagTypes
<1>2. t.until = Never /\ signed.until = Never
  <2>. DEFINE u == SetExpirationTime([prefix |-> p, issued |-> d, until |-> Never], d)
  <2>1. t = [u EXCEPT !.until = Never]
    BY DEF Issued, SetSignature
  <2>2. t.until = Never
    BY <2>1 DEF SetExpirationTime
  <2>. HIDE DEF t
  <2>. QED  BY <1>1, <2>2 DEF SetSignature, Tag
<1>3. day \in Nat /\ day > day - 1
  BY ConfigFacts
<1>. HIDE DEF t, signed
<1>4. lapsed \in Tag /\ (lapsed.until = Never \/ lapsed.until = day - 1)
  BY <1>1, <1>2, <1>3, ConfigFacts DEF SetExpirationTime, Tag
<1>. HIDE DEF lapsed
<1>5. Spoilt(t) \in Tag /\ Spoilt(t).until = lapsed.until
  <2>1. Spoilt(t) = IF "bad_prefix" \in config.options
                    THEN [lapsed EXCEPT !.prefix = NoPrefix] ELSE lapsed
    BY DEF Spoilt, lapsed, signed
  <2>. QED  BY <1>4, <2>1 DEF Tag
<1>6. Spoilt(t) # NoTag
  BY <1>5, NamesAssumption
<1>7. Endless(Spoilt(t)) \/ Expired(Spoilt(t))
  BY <1>3, <1>4, <1>5, <1>6 DEF Endless, Expired
<1>. QED  BY <1>7 DEF t

\* What each handler makes of the consumer before it fills the window: no
\* request is added, and the tag is the one held or one that was issued.
HeldOrIssued(t) ==
  \/ t = app.auth
  \/ \E p \in Prefix, d \in 1..day : t = Kept(app.auth, Issued(p, d))

Reached(h) ==
  h \in AppState /\ h.pending \subseteq app.pending /\ HeldOrIssued(h.auth)

Fills ==
  /\ UNCHANGED <<day, config>>
  /\ \E h : Reached(h) /\ \E net : FillWindow(h, net)

LEMMA HandlersFill ==
  ASSUME IInv, [Next]_vars
  PROVE  \/ Fills
         \/ NextDay
         \/ UNCHANGED <<app, day, config>>
<1>0. app \in AppState /\ config \in Configs /\ day \in 1..config.days
  BY DEF IInv, Good
<1>1. ASSUME NEW h, Reached(h), NEW net, FillWindow(h, net), UNCHANGED <<day, config>>
      PROVE  Fills
  BY <1>1 DEF Fills
<1>2. CASE StartNextContent
  <2>1. PICK c \in Content :
          FillWindow([app EXCEPT !.content = c, !.segno = 0, !.starts = @ - 1], flying)
    BY <1>0, <1>2, ConfigFacts DEF StartNextContent
  <2>. DEFINE h == [app EXCEPT !.content = c, !.segno = 0, !.starts = @ - 1]
  <2>2. app.starts - 1 \in Nat
    BY <1>0, <1>2 DEF StartNextContent, AppState
  <2>3. Reached(h)
    BY <1>0, <2>2 DEF AppState, Reached, HeldOrIssued
  <2>. HIDE DEF h
  <2>. QED  BY <1>1, <1>2, <2>1, <2>3 DEF StartNextContent, h
<1>3. ASSUME NEW E \in SUBSET app.pending, CheckTimeouts(E)
      PROVE  Fills
  <2>. DEFINE h == [app EXCEPT !.window = InitialWindow]
  <2>1. Reached(h)
    BY <1>0, WindowAssumption DEF AppState, Reached, HeldOrIssued
  <2>. HIDE DEF h
  <2>. QED  BY <1>1, <1>3, <2>1 DEF CheckTimeouts, h
<1>4. ASSUME NEW g, Reached(g)
      PROVE  Reached(Grown(g))
  <2>. DEFINE w == IF g.window < MaxWindow THEN g.window + 1 ELSE g.window
  <2>1. Grown(g) = [g EXCEPT !.window = w] /\ w \in Nat
    BY <1>4 DEF Grown, AppState, Reached
  <2>. HIDE DEF w
  <2>. QED  BY <1>4, <2>1 DEF AppState, Reached
<1>5. ASSUME NEW g, Reached(g), NEW x
      PROVE  Reached(Settled(g, x))
  <2>1. /\ Settled(g, x) \in AppState /\ Settled(g, x).auth = g.auth
        /\ Settled(g, x).pending \subseteq g.pending
    BY <1>5 DEF Settled, AppState, Reached
  <2>. QED  BY <1>5, <2>1 DEF Reached
<1>6. Reached(app)
  BY <1>0 DEF Reached, HeldOrIssued
<1>7. ASSUME NEW f \in flying, NEW t \in Tag \cup {NoTag}, OnSatisfied(f, t),
             t # NoTag => HeldOrIssued(Kept(app.auth, t))
      PROVE  Fills
  <2>. DEFINE a == Kept(app.auth, t)
              g == IF t = NoTag THEN app
                   ELSE [app EXCEPT !.auth = a, !.pendingAuth = FALSE]
  <2>1. a \in Tag \cup {NoTag} \/ t = NoTag
    BY <1>0, TagTypes DEF AppState
  <2>2. FillWindow(Grown(Settled(g, f.entry.name)), flying \ {f})
        /\ UNCHANGED <<day, config>>
    <3>1. g = IF t = NoTag THEN app
              ELSE [app EXCEPT !.auth = Kept(@, t), !.pendingAuth = FALSE]
      BY <1>0 DEF AppState
    <3>. QED  BY <1>7, <3>1 DEF OnSatisfied
  <2>3. t # NoTag => HeldOrIssued(a)
    BY <1>7
  <2>. HIDE DEF a
  <2>4. Reached(g)
    BY <1>0, <1>6, <2>1, <2>3 DEF AppState, Reached
  <2>. HIDE DEF g
  <2>. QED  BY <1>1, <1>4, <1>5, <2>2, <2>4
<1>8. ASSUME NEW f \in flying, OnDenied(f)
      PROVE  Fills
  <2>. DEFINE x == f.entry.name
              again == {e \in app.pending : e.name = x /\ Expired(app.auth)}
              g == IF Expired(app.auth) THEN app ELSE Settled(app, x)
  <2>1. Reached(g)
    BY <1>5, <1>6
  <2>2. FillWindow(Grown(g), (flying \ {f}) \cup Retransmitted(again))
        /\ UNCHANGED <<day, config>>
    BY <1>8 DEF OnDenied
  <2>. HIDE DEF g
  <2>. QED  BY <1>1, <1>4, <2>1, <2>2
<1>9. ASSUME NEW f \in flying, Answer(f)
      PROVE  Fills \/ UNCHANGED <<app, day, config>>
  <2>1. CASE OnUnrequested(f)
    BY <2>1 DEF OnUnrequested
  <2>2. ASSUME NEW p \in Prefix, NEW d \in 1..day, OnSatisfied(f, Issued(p, d))
        PROVE  Fills
    <3>1. Issued(p, d) \in Tag
      BY <1>0, ConfigFacts, TagTypes
    <3>2. HeldOrIssued(Kept(app.auth, Issued(p, d)))
      BY DEF HeldOrIssued
    <3>. QED  BY <1>7, <2>2, <3>1, <3>2
  <2>3. CASE OnSatisfied(f, NoTag)
    BY <1>7, <2>3
  <2>. QED  BY <1>8, <1>9, <2>1, <2>2, <2>3 DEF Answer
<1>10. CASE UNCHANGED vars \/ Lose
  BY <1>10 DEF vars, Lose
<1>. QED  BY <1>2, <1>3, <1>9, <1>10 DEF Next

LEMMA NextLasting ==
  ASSUME IInv, Lasting(app), [Next]_vars
  PROVE  Lasting(app)'
<1>0. app \in AppState /\ config \in Configs /\ day \in 1..config.days
  BY DEF IInv, Good
<1>1. ASSUME NEW h, Reached(h), NEW net, FillWindow(h, net), UNCHANGED <<day, config>>
      PROVE  Lasting(app)'
  <2>1. Lasting(h)
    <3>1. CASE h.auth = app.auth
      BY <1>1, <3>1 DEF Reached, Lasting
    <3>2. ASSUME NEW p \in Prefix, NEW d \in 1..day,
                 h.auth = Kept(app.auth, Issued(p, d)), config.periodLost
          PROVE  /\ Endless(h.auth) \/ Expired(h.auth)
                 /\ "no_auth" \in config.options => h.auth = NoTag
      <4>1. Endless(Spoilt(Issued(p, d))) \/ Expired(Spoilt(Issued(p, d)))
        BY <1>0, <3>2, ConfigFacts, IssuedLasting
      <4>. QED  BY <3>2, <4>1 DEF Kept, Lasting
    <3>. QED  BY <1>1, <3>1, <3>2 DEF Reached, HeldOrIssued, Lasting
  <2>. QED  BY <1>1, <2>1, FillWindowLasting DEF Lasting, Endless, Expired, Never, Reached
<1>2. CASE NextDay
  <2>1. UNCHANGED <<app, config>> /\ day' = day + 1 /\ day \in Nat
    BY <1>0, <1>2, ConfigFacts DEF NextDay
  <2>2. app.auth # NoTag => app.auth.until \in Nat
    BY <1>0 DEF AppState, Tag
  <2>3. Expired(app.auth) => Expired(app.auth)'
    BY <2>1, <2>2 DEF Expired
  <2>. QED  BY <2>1, <2>3 DEF Lasting, Endless, Never
<1>3. CASE UNCHANGED <<app, day, config>>
  BY <1>3 DEF Lasting, Endless, Expired, Never
<1>. QED  BY <1>1, <1>2, <1>3, HandlersFill DEF Fills

\* While the producer loses the validity period of its tags, no request is
\* ever given up by RetX, for any configuration (NoneAbandoned).
THEOREM RequestsLast == Spec => []NoneAbandoned
<1>1. Init => Lasting(app)
  BY DEF Init, Lasting, Endless
<1>2. IInv /\ Lasting(app) => NoneAbandoned
  BY ConfigFacts DEF IInv, Lasting, NoneAbandoned, Endless, Expired, Never
<1>3. IInv /\ Lasting(app) /\ [Next]_vars => Lasting(app)'
  BY NextLasting
<1>. QED  BY <1>1, <1>2, <1>3, Invariance, PTL DEF Spec

-----------------------------------------------------------------------------
\* With the defect repaired a tag expires with the day of its issue at the
\* latest, or has expired already.
Timely(h) ==
  ~config.periodLost =>
    /\ h.auth # NoTag => h.auth.until <= h.auth.issued \/ Expired(h.auth)
    /\ "no_auth" \in config.options => h.auth = NoTag

LEMMA IssuedTimely ==
  ASSUME config \in Configs, day \in 1..config.days, ~config.periodLost,
         NEW p \in Prefix, NEW d \in Nat
  PROVE  /\ Spoilt(Issued(p, d)) \in Tag
         /\ \/ Spoilt(Issued(p, d)).until <= Spoilt(Issued(p, d)).issued
            \/ Expired(Spoilt(Issued(p, d)))
<1>. DEFINE t == Issued(p, d)
            lapsed == IF "expired_auth" \in config.options
                      THEN SetExpirationTime(t, day - 1) ELSE t
<1>1. t \in Tag
  BY TagTypes
<1>2. t.until = d /\ t.issued = d
  BY DEF Issued, SetSignature, SetExpirationTime
<1>3. day \in Nat /\ day - 1 \in Nat /\ day > day - 1
  BY ConfigFacts
<1>4. Spoilt(t) = IF "bad_prefix" \in config.options
                  THEN [lapsed EXCEPT !.prefix = NoPrefix] ELSE lapsed
  BY DEF Spoilt, SetSignature
<1>. HIDE DEF t
<1>5. lapsed \in Tag /\ (lapsed.until = day - 1 \/ lapsed.until = lapsed.issued)
  BY <1>1, <1>2, <1>3 DEF SetExpirationTime, Tag
<1>. HIDE DEF lapsed
<1>6. Spoilt(t) \in Tag /\ Spoilt(t).until = lapsed.until /\ Spoilt(t).issued = lapsed.issued
  BY <1>4, <1>5 DEF Tag
<1>7. Spoilt(t).until <= Spoilt(t).issued \/ Expired(Spoilt(t))
  BY <1>3, <1>5, <1>6, NamesAssumption DEF Expired, Tag
<1>. QED  BY <1>6, <1>7 DEF t

LEMMA FillWindowTimely ==
  ASSUME NEW h \in AppState, NEW net, Timely(h), FillWindow(h, net),
         day \in Nat, ~config.periodLost
  PROVE  /\ \A e \in app'.pending \ h.pending : ~Outdated(e)
         /\ app'.auth = h.auth
<1>1. CASE app' = h
  BY <1>1
<1>2. CASE SendAuthRequest(h, net)
  <2>. DEFINE names == {AuthName(PrefixOf[h.content])} \ h.seqs
              new   == {[name |-> x, tag |-> NoTag] : x \in names}
  <2>1. app'.pending = h.pending \cup new /\ app'.auth = h.auth
    BY <1>2 DEF SendAuthRequest, Requested, AppState
  <2>2. \A e \in new : e.tag = NoTag
    OBVIOUS
  <2>. QED  BY <2>1, <2>2 DEF Outdated
<1>3. ASSUME HasAuth(h), h.auth # NoTag, NEW n, SendSegments(h, n, net)
      PROVE  /\ \A e \in app'.pending \ h.pending : ~Outdated(e)
             /\ app'.auth = h.auth
  <2>. DEFINE names == NewNames(h, n)
              new   == {[name |-> x, tag |-> h.auth] : x \in names}
  <2>1. app'.pending = h.pending \cup new /\ app'.auth = h.auth
    BY <1>3 DEF SendSegments, Requested, AppState
  <2>2. \A e \in new : e.tag = h.auth
    OBVIOUS
  <2>3. h.auth.until <= h.auth.issued /\ ~Expired(h.auth)
    BY <1>3 DEF HasAuth, Timely
  <2>4. h.auth.until \in Nat /\ h.auth.issued \in Nat
    BY <1>3 DEF AppState, Tag
  <2>5. ~(day > h.auth.issued)
    BY <1>3, <2>3, <2>4 DEF Expired
  <2>. QED  BY <2>1, <2>2, <2>5 DEF Outdated
<1>. QED  BY <1>1, <1>2, <1>3 DEF FillWindow

SendsTimely == ~config.periodLost => \A e \in app'.pending \ app.pending : ~Outdated(e)

LEMMA NextTimely ==
  ASSUME IInv, Timely(app), [Next]_vars
  PROVE  Timely(app)' /\ SendsTimely
<1>0. app \in AppState /\ config \in Configs /\ day \in 1..config.days /\ day \in Nat
  BY ConfigFacts DEF IInv, Good
<1>1. ASSUME NEW h, Reached(h), NEW net, FillWindow(h, net), UNCHANGED <<day, config>>
      PROVE  Timely(app)' /\ SendsTimely
  <2>1. Timely(h)
    <3>1. CASE h.auth = app.auth
      BY <3>1 DEF Timely
    <3>2. ASSUME NEW p \in Prefix, NEW d \in 1..day,
                 h.auth = Kept(app.auth, Issued(p, d)), ~config.periodLost
          PROVE  /\ h.auth # NoTag => h.auth.until <= h.auth.issued \/ Expired(h.auth)
                 /\ "no_auth" \in config.options => h.auth = NoTag
      <4>1. \/ Spoilt(Issued(p, d)).until <= Spoilt(Issued(p, d)).issued
            \/ Expired(Spoilt(Issued(p, d)))
        BY <1>0, <3>2, IssuedTimely
      <4>. QED  BY <3>2, <4>1 DEF Kept, Timely
    <3>. QED  BY <1>1, <3>1, <3>2 DEF Reached, HeldOrIssued, Timely
  <2>2. ~config.periodLost =>
          /\ \A e \in app'.pending \ h.pending : ~Outdated(e)
          /\ app'.auth = h.auth
    BY <1>0, <1>1, <2>1, FillWindowTimely DEF Reached
  <2>. QED  BY <1>1, <2>1, <2>2 DEF Timely, Expired, SendsTimely, Reached
<1>2. CASE NextDay
  <2>1. UNCHANGED <<app, config>> /\ day' = day + 1
    BY <1>2 DEF NextDay
  <2>2. app.auth # NoTag => app.auth.until \in Nat
    BY <1>0 DEF AppState, Tag
  <2>3. Expired(app.auth) => Expired(app.auth)'
    BY <1>0, <2>1, <2>2 DEF Expired
  <2>. QED  BY <2>1, <2>3 DEF Timely, SendsTimely
<1>3. CASE UNCHANGED <<app, day, config>>
  BY <1>3 DEF Timely, Expired, SendsTimely
<1>. QED  BY <1>1, <1>2, <1>3, HandlersFill DEF Fills

\* With the validity period kept, no segment is ever asked for with a tag that
\* was issued on an earlier day, for any configuration
\* (RepairedSendsValidTags).
THEOREM ValidTagsSent == Spec => RepairedSendsValidTags
<1>1. Init => Timely(app)
  BY DEF Init, Timely
<1>2. IInv /\ Timely(app) /\ [Next]_vars => Timely(app)'
  BY NextTimely
<1>3. IInv /\ Timely(app) /\ [Next]_vars =>
        [~config.periodLost => \A e \in app'.pending \ app.pending : ~Outdated(e)]_vars
  BY NextTimely DEF SendsTimely
<1>. QED  BY <1>1, <1>2, <1>3, Invariance, PTL DEF Spec, RepairedSendsValidTags
=============================================================================
