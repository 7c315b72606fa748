-------------------------- MODULE ForwarderProofs ---------------------------
(***************************************************************************)
(* Proofs about Forwarder, for any names, nonces, lifetimes and delays.    *)
(* What the invariant says of one entry is shown of the operators on       *)
(* entries first; each pipeline then puts a sound entry in the place of    *)
(* another.                                                                *)
(***************************************************************************)
EXTENDS Forwarder, WellFoundedInduction, TLAPS

\* The out-record has the nonce of the oldest in-record.
RecordsAgree(e) ==
  /\ e.out # None => DOMAIN e.ins # {} /\ e.out.nonce = e.oldest.nonce
  /\ DOMAIN e.ins # {} => e.oldest # None /\ e.oldest.nonce \in DOMAIN e.ins
  /\ e.straggler # None => (e.satisfied <=> DOMAIN e.ins = {})

OneTimerOf(e) ==
  /\ e.unsatisfy = None \/ e.straggler = None
  /\ DOMAIN e.ins # {} \/ e.out # None => e.unsatisfy # None \/ e.straggler # None

LastExpiryOf(e) ==
  e.unsatisfy # None =>
    /\ \A n \in DOMAIN e.ins : e.ins[n] <= e.unsatisfy
    /\ \E n \in DOMAIN e.ins : e.ins[n] = e.unsatisfy

Sound(e) == e \in Entry /\ RecordsAgree(e) /\ OneTimerOf(e) /\ LastExpiryOf(e)

\* A nonce sent upstream is in the out-record, or dead for long enough.
HandedOver ==
  \A x \in Name, n \in Nonce : recent[<<x, n>>] > 0 =>
    \/ pit[x] # None /\ pit[x].out # None /\ pit[x].out.nonce = n
    \/ dead[<<x, n>>] >= recent[<<x, n>>]

IInv ==
  /\ TypeOK
  /\ \A x \in Name : pit[x] # None => Sound(pit[x])
  /\ HandedOver

-----------------------------------------------------------------------------
\* Lifetimes, and the greatest of the times that are left.

LEMMA LifetimeFacts ==
  /\ Longest \in Lifetime
  /\ Longest \in Nat \ {0}
  /\ \A life \in Lifetime : life \in 1..Longest
  /\ Left \subseteq Int /\ Lifetime \subseteq Left
  /\ None \notin Int
<1>1. Longest \in Lifetime /\ \A life \in Lifetime : life <= Longest
  BY LifetimeAssumption DEF Longest
<1> QED
  BY <1>1, LifetimeAssumption, NoneAssumption DEF Left, Over

LEMMA LeastExists ==
  ASSUME NEW T, T \subseteq Nat, T # {}
  PROVE  \E m \in T : \A y \in T : m <= y
<1>1. PICK m \in T : \A y \in T : <<y, m>> \notin OpToRel(<, Nat)
  BY NatLessThanWellFounded, WFMin, Zenon
<1>2. \A y \in T : ~ (y < m)
  BY <1>1, Zenon DEF OpToRel
<1> QED
  BY <1>2

LEMMA GreatestExists ==
  ASSUME NEW S, S \subseteq Left, S # {}
  PROVE  \E t \in S : \A s \in S : s <= t
<1> DEFINE T == {Longest - s : s \in S}
<1>1. S \subseteq Int /\ Longest \in Int /\ \A s \in S : s <= Longest
  BY LifetimeFacts DEF Left, Over
<1>2. T \subseteq Nat /\ T # {}
  <2>1. \A s \in S : Longest - s \in Nat
    BY <1>1
  <2> QED
    BY <2>1
<1>3. PICK m \in T : \A y \in T : m <= y
  BY <1>2, LeastExists
<1>4. PICK t \in S : m = Longest - t
  OBVIOUS
<1>5. \A s \in S : Longest - t <= Longest - s
  BY <1>3, <1>4
<1> QED
  BY <1>1, <1>5

-----------------------------------------------------------------------------
\* In-records.

LEMMA InRecordsOf ==
  ASSUME NEW f \in InRecords
  PROVE  /\ DOMAIN f \subseteq Nonce
         /\ \A n \in DOMAIN f : f[n] \in Left
BY DEF InRecords

LEMMA InRecordsMade ==
  ASSUME NEW N \in SUBSET Nonce, NEW f \in [N -> Left]
  PROVE  f \in InRecords
BY DEF InRecords

LEMMA NoInRecords == <<>> \in InRecords /\ DOMAIN <<>> = {}
<1>1. <<>> \in [{} -> Left] /\ DOMAIN <<>> = {}
  OBVIOUS
<1> QED
  BY <1>1, InRecordsMade

-----------------------------------------------------------------------------
\* Entries.

LEMMA FieldsOf ==
  ASSUME NEW e \in Entry
  PROVE  /\ e = [ins |-> e.ins, oldest |-> e.oldest, out |-> e.out,
                 unsatisfy |-> e.unsatisfy, straggler |-> e.straggler,
                 satisfied |-> e.satisfied]
         /\ e.ins \in InRecords /\ DOMAIN e.ins \subseteq Nonce
         /\ \A n \in DOMAIN e.ins : e.ins[n] \in Left
         /\ e.oldest \in OldestInterest \cup {None}
         /\ e.out \in OutRecord \cup {None}
         /\ e.unsatisfy \in 0..Longest \cup {None}
         /\ e.straggler \in 0..Straggle \cup {None}
         /\ e.satisfied \in BOOLEAN
<1>1. /\ e = [ins |-> e.ins, oldest |-> e.oldest, out |-> e.out,
              unsatisfy |-> e.unsatisfy, straggler |-> e.straggler,
              satisfied |-> e.satisfied]
      /\ e.ins \in InRecords
      /\ e.oldest \in OldestInterest \cup {None}
      /\ e.out \in OutRecord \cup {None}
      /\ e.unsatisfy \in 0..Longest \cup {None}
      /\ e.straggler \in 0..Straggle \cup {None}
      /\ e.satisfied \in BOOLEAN
  BY DEF Entry
<1> QED
  BY <1>1, InRecordsOf

LEMMA NewEntrySound == Sound(NewEntry)
<1>1. NewEntry \in Entry
  BY NoInRecords DEF NewEntry, Entry
<1> QED
  BY <1>1, NoInRecords
     DEF Sound, NewEntry, RecordsAgree, OneTimerOf, LastExpiryOf

LEMMA CancelledFields ==
  ASSUME NEW e \in Entry
  PROVE  CancelTimers(e) =
           [ins |-> e.ins, oldest |-> e.oldest, out |-> e.out, unsatisfy |-> None,
            straggler |-> None, satisfied |-> e.satisfied]
<1> DEFINE d == [e EXCEPT !.unsatisfy = None]
<1>1. d = [ins |-> e.ins, oldest |-> e.oldest, out |-> e.out, unsatisfy |-> None,
           straggler |-> e.straggler, satisfied |-> e.satisfied]
  BY DEF Entry
<1>2. CancelTimers(e) = [d EXCEPT !.straggler = None]
  BY Zenon DEF CancelTimers
<1> HIDE DEF d
<1> QED
  BY <1>1, <1>2

\* The in-records, and the oldest of them, once the Interest has joined.
JoinedIns(e, n, life) ==
  [m \in DOMAIN e.ins \cup {n} |-> IF m = n THEN life ELSE e.ins[m]]

JoinedOldest(e, n, life) ==
  IF DOMAIN e.ins = {} THEN [nonce |-> n, life |-> life] ELSE e.oldest

LEMMA InsertedFields ==
  ASSUME NEW e \in Entry, NEW n, NEW life
  PROVE  InsertInRecord(CancelTimers(e), n, life) =
           [ins |-> JoinedIns(e, n, life), oldest |-> JoinedOldest(e, n, life),
            out |-> e.out, unsatisfy |-> None, straggler |-> None,
            satisfied |-> e.satisfied]
<1> DEFINE c == CancelTimers(e)
           joined == JoinedIns(e, n, life)
           d == [c EXCEPT !.ins = joined]
           first == JoinedOldest(e, n, life)
<1>1. c = [ins |-> e.ins, oldest |-> e.oldest, out |-> e.out, unsatisfy |-> None,
           straggler |-> None, satisfied |-> e.satisfied]
  BY CancelledFields
<1> HIDE DEF c
<1>2. c.ins = e.ins /\ c.oldest = e.oldest
  BY <1>1
<1>3. InsertInRecord(c, n, life) = [d EXCEPT !.oldest = first]
  BY <1>2, Zenon DEF InsertInRecord, JoinedIns, JoinedOldest
<1> HIDE DEF joined, first
<1>4. d = [ins |-> joined, oldest |-> e.oldest, out |-> e.out, unsatisfy |-> None,
           straggler |-> None, satisfied |-> e.satisfied]
  BY <1>1
<1> HIDE DEF d
<1>5. InsertInRecord(c, n, life) =
        [ins |-> joined, oldest |-> first, out |-> e.out, unsatisfy |-> None,
         straggler |-> None, satisfied |-> e.satisfied]
  BY <1>3, <1>4
<1> QED
  BY <1>5 DEF joined, first, c

\* An entry that another in-record joins.
Joined(e, n, life) ==
  SetUnsatisfyTimer(InsertInRecord(CancelTimers(e), n, life), life)

LEMMA JoinedSound ==
  ASSUME NEW e, Sound(e), NEW n \in Nonce, NEW life \in Lifetime,
         NEW j, j = Joined(e, n, life)
  PROVE  /\ Sound(j)
         /\ j.ins = JoinedIns(e, n, life)
         /\ DOMAIN j.ins # {} /\ j.oldest \in OldestInterest
         /\ j.oldest.nonce \in DOMAIN j.ins
         /\ j.out = e.out
         /\ e.out # None => j.oldest = e.oldest
         /\ j.unsatisfy # None /\ j.straggler = None
<1> DEFINE ins == JoinedIns(e, n, life)
           oldest == JoinedOldest(e, n, life)
           times == {ins[m] : m \in DOMAIN ins}
           last == CHOOSE t \in times : \A m \in DOMAIN ins : ins[m] <= t
<1>1. e \in Entry
  BY DEF Sound
<1>2. j = [ins |-> ins, oldest |-> oldest, out |-> e.out, unsatisfy |-> last,
           straggler |-> None, satisfied |-> e.satisfied]
  <2> DEFINE i == InsertInRecord(CancelTimers(e), n, life)
  <2>1. i = [ins |-> ins, oldest |-> oldest, out |-> e.out, unsatisfy |-> None,
             straggler |-> None, satisfied |-> e.satisfied]
    BY <1>1, InsertedFields
  <2>2. i.ins = ins
    BY <2>1
  <2>3. j = [i EXCEPT !.unsatisfy = CHOOSE t \in {i.ins[m] : m \in DOMAIN i.ins} :
                                      \A m \in DOMAIN i.ins : i.ins[m] <= t]
    BY DEF Joined, SetUnsatisfyTimer
  <2> HIDE DEF i, ins
  <2>4. j = [i EXCEPT !.unsatisfy = last]
    BY <2>2, <2>3, Zenon
  <2> HIDE DEF last, oldest
  <2> QED
    BY <2>1, <2>4
<1>3. ins \in InRecords /\ DOMAIN ins # {} /\ \A m \in DOMAIN ins : ins[m] \in Left
  <2>1. /\ DOMAIN ins = DOMAIN e.ins \cup {n} /\ DOMAIN ins \in SUBSET Nonce
        /\ \A m \in DOMAIN ins : ins[m] \in Left
    BY <1>1, FieldsOf, LifetimeFacts DEF JoinedIns
  <2>2. ins \in [DOMAIN ins -> Left]
    BY <2>1 DEF JoinedIns
  <2> QED
    BY <2>1, <2>2, InRecordsMade
<1>4. last \in times /\ \A m \in DOMAIN ins : ins[m] <= last
  <2>1. times \subseteq Left /\ times # {}
    BY <1>3
  <2>2. PICK t \in times : \A s \in times : s <= t
    BY <2>1, GreatestExists
  <2>3. \A m \in DOMAIN ins : ins[m] \in times
    OBVIOUS
  <2> HIDE DEF times, ins
  <2>4. \E u \in times : \A m \in DOMAIN ins : ins[m] <= u
    BY <2>2, <2>3
  <2> QED
    BY <2>4
<1>5. last \in 0..Longest
  <2>1. n \in DOMAIN ins /\ ins[n] = life
    BY DEF JoinedIns
  <2>2. last \in Left
    BY <1>3, <1>4
  <2> HIDE DEF last, ins
  <2> QED
    BY <1>4, <2>1, <2>2, LifetimeFacts DEF Left, Over
<1>6. /\ oldest \in OldestInterest /\ oldest.nonce \in DOMAIN ins
      /\ e.out # None => oldest = e.oldest
  BY <1>1, FieldsOf DEF Sound, RecordsAgree, OldestInterest, JoinedIns, JoinedOldest
<1> HIDE DEF ins, oldest, last
<1>7. j \in Entry
  BY <1>1, <1>2, <1>3, <1>5, <1>6, FieldsOf DEF Entry
<1>8. last # None
  BY <1>5, LifetimeFacts
<1>9. OneTimerOf(j) /\ LastExpiryOf(j)
  BY <1>2, <1>4, <1>8 DEF OneTimerOf, LastExpiryOf, times
<1>10. RecordsAgree(j)
  BY <1>2, <1>3, <1>6, NoneAssumption DEF RecordsAgree, Sound
<1> QED
  BY <1>2, <1>3, <1>6, <1>7, <1>8, <1>9, <1>10 DEF Sound, ins

\* An entry whose straggler timer is set.
LEMMA StragglerFields ==
  ASSUME NEW e \in Entry, NEW satisfied
  PROVE  SetStragglerTimer(CancelTimers(e), satisfied) =
           [ins |-> e.ins, oldest |-> e.oldest, out |-> e.out, unsatisfy |-> None,
            straggler |-> Straggle, satisfied |-> satisfied]
<1> DEFINE c == CancelTimers(e)
           d == [c EXCEPT !.straggler = Straggle]
<1>1. c = [ins |-> e.ins, oldest |-> e.oldest, out |-> e.out, unsatisfy |-> None,
           straggler |-> None, satisfied |-> e.satisfied]
  BY CancelledFields
<1>2. SetStragglerTimer(c, satisfied) = [d EXCEPT !.satisfied = satisfied]
  BY Zenon DEF SetStragglerTimer
<1> HIDE DEF c
<1>3. d = [ins |-> e.ins, oldest |-> e.oldest, out |-> e.out, unsatisfy |-> None,
           straggler |-> Straggle, satisfied |-> e.satisfied]
  BY <1>1
<1> HIDE DEF d
<1>4. SetStragglerTimer(c, satisfied) =
        [ins |-> e.ins, oldest |-> e.oldest, out |-> e.out, unsatisfy |-> None,
         straggler |-> Straggle, satisfied |-> satisfied]
  BY <1>2, <1>3
<1> QED
  BY <1>4 DEF c

LEMMA StragglerSound ==
  ASSUME NEW e, Sound(e), NEW satisfied \in BOOLEAN,
         satisfied <=> DOMAIN e.ins = {},
         NEW s, s = SetStragglerTimer(CancelTimers(e), satisfied)
  PROVE  /\ Sound(s)
         /\ s.ins = e.ins /\ s.out = e.out
         /\ s.unsatisfy = None /\ s.straggler # None /\ s.satisfied = satisfied
<1>1. e \in Entry
  BY DEF Sound
<1>2. s = [ins |-> e.ins, oldest |-> e.oldest, out |-> e.out, unsatisfy |-> None,
           straggler |-> Straggle, satisfied |-> satisfied]
  BY <1>1, StragglerFields
<1>3. s \in Entry
  BY <1>1, <1>2, FieldsOf, TimeAssumption DEF Entry
<1>4. Straggle # None
  BY TimeAssumption, NoneAssumption
<1> QED
  BY <1>2, <1>3, <1>4 DEF Sound, RecordsAgree, OneTimerOf, LastExpiryOf

\* An entry that Data has satisfied.
LEMMA SatisfiedFields ==
  ASSUME NEW e \in Entry
  PROVE  SetStragglerTimer(Satisfied(CancelTimers(e)), TRUE) =
           [ins |-> <<>>, oldest |-> e.oldest, out |-> None, unsatisfy |-> None,
            straggler |-> Straggle, satisfied |-> TRUE]
<1> DEFINE c == CancelTimers(e)
           d == [c EXCEPT !.ins = <<>>]
           f == Satisfied(c)
           g == [f EXCEPT !.straggler = Straggle]
<1>1. c = [ins |-> e.ins, oldest |-> e.oldest, out |-> e.out, unsatisfy |-> None,
           straggler |-> None, satisfied |-> e.satisfied]
  BY CancelledFields
<1>2. f = [d EXCEPT !.out = None]
  BY Zenon DEF Satisfied
<1>3. SetStragglerTimer(f, TRUE) = [g EXCEPT !.satisfied = TRUE]
  BY Zenon DEF SetStragglerTimer
<1> HIDE DEF c, f
<1>4. d = [ins |-> <<>>, oldest |-> e.oldest, out |-> e.out, unsatisfy |-> None,
           straggler |-> None, satisfied |-> e.satisfied]
  BY <1>1
<1> HIDE DEF d
<1>5. f = [ins |-> <<>>, oldest |-> e.oldest, out |-> None, unsatisfy |-> None,
           straggler |-> None, satisfied |-> e.satisfied]
  BY <1>2, <1>4
<1>6. g = [ins |-> <<>>, oldest |-> e.oldest, out |-> None, unsatisfy |-> None,
           straggler |-> Straggle, satisfied |-> e.satisfied]
  BY <1>5
<1> HIDE DEF g
<1>7. SetStragglerTimer(f, TRUE) =
        [ins |-> <<>>, oldest |-> e.oldest, out |-> None, unsatisfy |-> None,
         straggler |-> Straggle, satisfied |-> TRUE]
  BY <1>3, <1>6
<1> QED
  BY <1>7 DEF f, c

LEMMA ClearedSound ==
  ASSUME NEW e \in Entry, NEW none \in InRecords, DOMAIN none = {},
         NEW satisfied \in BOOLEAN, satisfied,
         NEW s, s = [ins |-> none, oldest |-> e.oldest, out |-> None, unsatisfy |-> None,
                     straggler |-> Straggle, satisfied |-> satisfied]
  PROVE  /\ Sound(s)
         /\ DOMAIN s.ins = {} /\ s.out = None
         /\ s.unsatisfy = None /\ s.straggler # None /\ s.satisfied = satisfied
<1>1. s \in Entry
  BY FieldsOf, TimeAssumption DEF Entry
<1>2. Straggle # None
  BY TimeAssumption, NoneAssumption
<1>3. /\ s.ins = none /\ s.out = None /\ s.unsatisfy = None
      /\ s.straggler = Straggle /\ s.satisfied = satisfied
  OBVIOUS
<1> QED
  BY <1>1, <1>2, <1>3, Zenon DEF Sound, RecordsAgree, OneTimerOf, LastExpiryOf

LEMMA SatisfiedSound ==
  ASSUME NEW e, Sound(e),
         NEW s, s = SetStragglerTimer(Satisfied(CancelTimers(e)), TRUE)
  PROVE  /\ Sound(s)
         /\ DOMAIN s.ins = {} /\ s.out = None
         /\ s.unsatisfy = None /\ s.straggler # None /\ s.satisfied = TRUE
<1> DEFINE none == <<>>
<1>1. e \in Entry
  BY DEF Sound
<1>2. none \in InRecords /\ DOMAIN none = {}
  BY NoInRecords
<1>3. s = [ins |-> none, oldest |-> e.oldest, out |-> None, unsatisfy |-> None,
           straggler |-> Straggle, satisfied |-> TRUE]
  BY <1>1, SatisfiedFields
<1>4. TRUE \in BOOLEAN
  OBVIOUS
<1> HIDE DEF none
<1> QED
  BY <1>1, <1>2, <1>3, <1>4, ClearedSound, Zenon

\* The entry that onOutgoingInterest leaves, with the out-record.
Forwarded(e) == [e EXCEPT !.out = [nonce |-> e.oldest.nonce, left |-> e.oldest.life]]

LEMMA ForwardedSound ==
  ASSUME NEW e, Sound(e), DOMAIN e.ins # {}, e.oldest \in OldestInterest,
         NEW s, s = Forwarded(e)
  PROVE  /\ Sound(s)
         /\ s.ins = e.ins /\ s.out # None /\ s.out.nonce = e.oldest.nonce
         /\ s.unsatisfy = e.unsatisfy /\ s.straggler = e.straggler
         /\ s.satisfied = e.satisfied
<1> DEFINE out == [nonce |-> e.oldest.nonce, left |-> e.oldest.life]
<1>1. e \in Entry
  BY DEF Sound
<1>2. s = [ins |-> e.ins, oldest |-> e.oldest, out |-> out, unsatisfy |-> e.unsatisfy,
           straggler |-> e.straggler, satisfied |-> e.satisfied]
  <2>1. s = [e EXCEPT !.out = out]
    BY DEF Forwarded
  <2> HIDE DEF out
  <2> QED
    BY <1>1, <2>1 DEF Entry
<1>3. out \in OutRecord /\ out # None /\ out.nonce = e.oldest.nonce
  <2>1. e.oldest.nonce \in Nonce /\ e.oldest.life \in Left
    BY LifetimeFacts DEF OldestInterest
  <2>2. out \in OutRecord
    BY <2>1 DEF OutRecord
  <2> QED
    BY <2>2, NoneAssumption
<1> HIDE DEF out
<1>4. s \in Entry
  BY <1>1, <1>2, <1>3, FieldsOf DEF Entry
<1> QED
  BY <1>2, <1>3, <1>4 DEF Sound, RecordsAgree, OneTimerOf, LastExpiryOf

\* An entry a tick later.
LaterIns(e) == [n \in DOMAIN e.ins |-> RecordLater(e.ins[n])]

LEMMA LaterFields ==
  ASSUME NEW e \in Entry
  PROVE  EntryLater(e) =
           [ins |-> LaterIns(e), oldest |-> e.oldest, out |-> OutLater(e.out),
            unsatisfy |-> TimerLater(e.unsatisfy),
            straggler |-> TimerLater(e.straggler), satisfied |-> e.satisfied]
<1> DEFINE ins == LaterIns(e)
           out == OutLater(e.out)
           unsatisfy == TimerLater(e.unsatisfy)
           straggler == TimerLater(e.straggler)
           d == [e EXCEPT !.ins = ins]
           f == [d EXCEPT !.out = out]
           g == [f EXCEPT !.unsatisfy = unsatisfy]
<1>1. EntryLater(e) = [g EXCEPT !.straggler = straggler]
  BY Zenon DEF EntryLater, LaterIns
<1> HIDE DEF ins, out, unsatisfy, straggler
<1>2. d = [ins |-> ins, oldest |-> e.oldest, out |-> e.out, unsatisfy |-> e.unsatisfy,
           straggler |-> e.straggler, satisfied |-> e.satisfied]
  BY DEF Entry
<1> HIDE DEF d
<1>3. f = [ins |-> ins, oldest |-> e.oldest, out |-> out, unsatisfy |-> e.unsatisfy,
           straggler |-> e.straggler, satisfied |-> e.satisfied]
  BY <1>2
<1> HIDE DEF f
<1>4. g = [ins |-> ins, oldest |-> e.oldest, out |-> out, unsatisfy |-> unsatisfy,
           straggler |-> e.straggler, satisfied |-> e.satisfied]
  BY <1>3
<1> HIDE DEF g
<1>5. EntryLater(e) = [ins |-> ins, oldest |-> e.oldest, out |-> out,
                       unsatisfy |-> unsatisfy, straggler |-> straggler,
                       satisfied |-> e.satisfied]
  BY <1>1, <1>4
<1> QED
  BY <1>5 DEF ins, out, unsatisfy, straggler

LEMMA LaterSound ==
  ASSUME NEW e, Sound(e), e.unsatisfy # 0, e.straggler # 0,
         NEW s, s = EntryLater(e)
  PROVE  /\ Sound(s)
         /\ DOMAIN s.ins = DOMAIN e.ins
         /\ \A n \in DOMAIN e.ins : s.ins[n] = RecordLater(e.ins[n])
         /\ e.out # None => s.out # None /\ s.out.nonce = e.out.nonce
         /\ s.satisfied = e.satisfied
         /\ s.straggler = None <=> e.straggler = None
         /\ s.unsatisfy = None <=> e.unsatisfy = None
<1> DEFINE ins == LaterIns(e)
           out == OutLater(e.out)
           unsatisfy == TimerLater(e.unsatisfy)
           straggler == TimerLater(e.straggler)
<1>1. e \in Entry
  BY DEF Sound
<1>2. s = [ins |-> ins, oldest |-> e.oldest, out |-> out, unsatisfy |-> unsatisfy,
           straggler |-> straggler, satisfied |-> e.satisfied]
  BY <1>1, LaterFields
<1>3. \A l \in Left : RecordLater(l) \in Left
  BY LifetimeFacts DEF RecordLater, Left, Over
<1>4. /\ DOMAIN ins = DOMAIN e.ins
      /\ \A n \in DOMAIN e.ins : ins[n] = RecordLater(e.ins[n])
  BY DEF LaterIns
<1>5. ins \in InRecords
  <2>1. ins \in [DOMAIN e.ins -> Left] /\ DOMAIN e.ins \in SUBSET Nonce
    BY <1>1, <1>3, FieldsOf DEF LaterIns
  <2> QED
    BY <2>1, InRecordsMade
<1>6. /\ out \in OutRecord \cup {None}
      /\ e.out # None => out # None /\ out.nonce = e.out.nonce
      /\ e.out = None => out = None
  BY <1>1, <1>3, FieldsOf, NoneAssumption DEF OutLater, OutRecord
<1>7. /\ unsatisfy \in 0..Longest \cup {None}
      /\ straggler \in 0..Straggle \cup {None}
      /\ unsatisfy = None <=> e.unsatisfy = None
      /\ straggler = None <=> e.straggler = None
      /\ e.unsatisfy # None => unsatisfy = e.unsatisfy - 1 /\ e.unsatisfy \in 1..Longest
  BY <1>1, FieldsOf, LifetimeFacts, TimeAssumption DEF TimerLater
<1> HIDE DEF ins, out, unsatisfy, straggler
<1>8. s \in Entry
  BY <1>1, <1>2, <1>5, <1>6, <1>7, FieldsOf DEF Entry
<1>9. RecordsAgree(s) /\ OneTimerOf(s)
  <2>1. /\ s.ins = ins /\ s.oldest = e.oldest /\ s.out = out
        /\ s.unsatisfy = unsatisfy /\ s.straggler = straggler
        /\ s.satisfied = e.satisfied
    BY <1>2
  <2> QED
    BY <2>1, <1>4, <1>6, <1>7, Zenon DEF Sound, RecordsAgree, OneTimerOf
<1>10. LastExpiryOf(s)
  <2> SUFFICES ASSUME unsatisfy # None
               PROVE  /\ \A n \in DOMAIN ins : ins[n] <= unsatisfy
                      /\ \E n \in DOMAIN ins : ins[n] = unsatisfy
    BY <1>2 DEF LastExpiryOf
  <2>1. /\ \A n \in DOMAIN e.ins : e.ins[n] <= e.unsatisfy /\ e.ins[n] \in Left
        /\ \E n \in DOMAIN e.ins : e.ins[n] = e.unsatisfy
    BY <1>1, <1>7, FieldsOf DEF Sound, LastExpiryOf
  <2>2. e.unsatisfy \in 1..Longest /\ unsatisfy = e.unsatisfy - 1
    BY <1>7
  <2>3. \A l \in Left : l <= e.unsatisfy => RecordLater(l) <= unsatisfy
    BY <2>2, LifetimeFacts DEF RecordLater, Left, Over
  <2>4. RecordLater(e.unsatisfy) = unsatisfy
    BY <2>2, LifetimeFacts DEF RecordLater
  <2> QED
    BY <1>4, <2>1, <2>3, <2>4
<1> QED
  BY <1>2, <1>4, <1>6, <1>7, <1>8, <1>9, <1>10 DEF Sound

-----------------------------------------------------------------------------
\* The invariant.

LEMMA PitSound ==
  ASSUME IInv, NEW x \in Name
  PROVE  /\ Sound(Pit(x))
         /\ pit[x] # None => Pit(x) = pit[x]
         /\ pit[x] = None => DOMAIN Pit(x).ins = {} /\ Pit(x).out = None
<1>1. DOMAIN NewEntry.ins = {} /\ NewEntry.out = None
  BY NoInRecords DEF NewEntry
<1> QED
  BY <1>1, NewEntrySound DEF IInv, Pit

\* A pipeline puts the entry g in the place of that for x.
LEMMA PutSound ==
  ASSUME IInv, NEW x \in Name, NEW g, Sound(g), pit' = [pit EXCEPT ![x] = g]
  PROVE  /\ pit' \in [Name -> Entry \cup {None}]
         /\ \A y \in Name : pit'[y] # None => Sound(pit'[y])
         /\ pit'[x] = g /\ g # None
         /\ \A y \in Name \ {x} : pit'[y] = pit[y]
<1>1. g \in Entry /\ g # None
  BY NoneAssumption DEF Sound
<1> QED
  BY <1>1 DEF IInv, TypeOK

LEMMA PutHandedOver ==
  ASSUME IInv, NEW x \in Name, NEW g, Sound(g), pit' = [pit EXCEPT ![x] = g],
         Pit(x).out # None => g.out # None /\ g.out.nonce = Pit(x).out.nonce,
         dead' = dead, recent' = recent
  PROVE  HandedOver'
<1> SUFFICES ASSUME NEW y \in Name, NEW n \in Nonce, recent[<<y, n>>] > 0
             PROVE  \/ pit'[y] # None /\ pit'[y].out # None /\ pit'[y].out.nonce = n
                    \/ dead[<<y, n>>] >= recent[<<y, n>>]
  BY DEF HandedOver
<1>1. \/ pit[y] # None /\ pit[y].out # None /\ pit[y].out.nonce = n
      \/ dead[<<y, n>>] >= recent[<<y, n>>]
  BY DEF IInv, HandedOver
<1> QED
  BY <1>1, PutSound, PitSound

LEMMA InterestLoopStep ==
  ASSUME IInv, NEW x \in Name, NEW n \in Nonce, InterestLoop(x, n)
  PROVE  IInv'
<1>1. Sound(Pit(x)) /\ pit' = [pit EXCEPT ![x] = Pit(x)]
  BY PitSound DEF InterestLoop
<1> QED
  BY <1>1, PutSound, PutHandedOver DEF InterestLoop, IInv, TypeOK

LEMMA ContentStoreHitStep ==
  ASSUME IInv, NEW x \in Name, NEW n \in Nonce, ContentStoreHit(x, n)
  PROVE  IInv'
<1> DEFINE g == SetStragglerTimer(CancelTimers(Pit(x)), TRUE)
<1>1. Sound(g) /\ g.out = Pit(x).out
  BY PitSound, StragglerSound DEF ContentStoreHit
<1>2. pit' = [pit EXCEPT ![x] = g]
  BY DEF ContentStoreHit
<1>3. sent' \subseteq [kind : {"Interest", "Data"}, name : Name, nonce : Nonce]
  BY DEF ContentStoreHit, DataTo
<1> HIDE DEF g
<1> QED
  BY <1>1, <1>2, <1>3, PutSound, PutHandedOver DEF ContentStoreHit, IInv, TypeOK

LEMMA MissedSound ==
  ASSUME IInv, NEW x \in Name, NEW n \in Nonce, NEW life \in Lifetime,
         NEW j, j = Missed(x, n, life)
  PROVE  /\ Sound(j)
         /\ j.ins = JoinedIns(Pit(x), n, life)
         /\ DOMAIN j.ins # {} /\ j.oldest \in OldestInterest
         /\ j.oldest.nonce \in DOMAIN j.ins
         /\ j.out = Pit(x).out
         /\ Pit(x).out # None => j.oldest = Pit(x).oldest
         /\ j.unsatisfy # None /\ j.straggler = None
<1>1. j = Joined(Pit(x), n, life)
  BY DEF Missed, Joined
<1> QED
  BY <1>1, PitSound, JoinedSound

LEMMA AggregateInterestStep ==
  ASSUME IInv, NEW x \in Name, NEW n \in Nonce, NEW life \in Lifetime,
         AggregateInterest(x, n, life)
  PROVE  IInv'
<1> DEFINE g == Missed(x, n, life)
<1>1. Sound(g) /\ g.out = Pit(x).out
  BY MissedSound
<1>2. pit' = [pit EXCEPT ![x] = g]
  BY DEF AggregateInterest
<1> HIDE DEF g
<1> QED
  BY <1>1, <1>2, PutSound, PutHandedOver DEF AggregateInterest, IInv, TypeOK

LEMMA RejectInterestStep ==
  ASSUME IInv, NEW x \in Name, NEW n \in Nonce, NEW life \in Lifetime,
         RejectInterest(x, n, life)
  PROVE  IInv'
<1> DEFINE j == Missed(x, n, life)
           g == SetStragglerTimer(CancelTimers(j), FALSE)
<1>1. Sound(j) /\ j.out = Pit(x).out /\ DOMAIN j.ins # {}
  BY MissedSound
<1>2. pit' = [pit EXCEPT ![x] = g]
  BY DEF RejectInterest
<1>3. Sound(g) /\ g.out = Pit(x).out
  <2> HIDE DEF j
  <2> QED
    BY <1>1, StragglerSound
<1> HIDE DEF g
<1> QED
  BY <1>2, <1>3, PutSound, PutHandedOver DEF RejectInterest, IInv, TypeOK

LEMMA ForwardInterestStep ==
  ASSUME IInv, NEW x \in Name, NEW n \in Nonce, NEW life \in Lifetime,
         ForwardInterest(x, n, life)
  PROVE  IInv'
<1> DEFINE j == Missed(x, n, life)
           o == j.oldest.nonce
           g == Forwarded(j)
<1>1. /\ Sound(j) /\ DOMAIN j.ins # {} /\ j.oldest \in OldestInterest
      /\ j.out = Pit(x).out
      /\ Pit(x).out # None => j.oldest = Pit(x).oldest
  BY MissedSound
<1>2. /\ pit' = [pit EXCEPT ![x] = g]
      /\ sent' = {InterestFor(x, o)}
      /\ recent' = [recent EXCEPT ![<<x, o>>] = DeadTime]
      /\ asked' = asked \cup {<<x, o>>}
      /\ UNCHANGED <<dead, store>>
  BY DEF ForwardInterest, Forwarded
<1> HIDE DEF j
<1>3. Sound(g) /\ g.out # None /\ g.out.nonce = o
  BY <1>1, ForwardedSound
<1>4. Pit(x).out # None => Pit(x).out.nonce = o
  BY <1>1, PitSound DEF Sound, RecordsAgree
<1>5. o \in Nonce /\ <<x, o>> \in Pairs
  BY <1>1 DEF OldestInterest, Pairs
<1> HIDE DEF g, o
<1>6. /\ pit' \in [Name -> Entry \cup {None}]
      /\ \A y \in Name : pit'[y] # None => Sound(pit'[y])
      /\ pit'[x] = g /\ g # None
      /\ \A y \in Name \ {x} : pit'[y] = pit[y]
  BY <1>2, <1>3, PutSound
<1>7. TypeOK'
  BY <1>2, <1>5, <1>6, TimeAssumption DEF IInv, TypeOK, InterestFor
<1>8. HandedOver'
  <2> SUFFICES ASSUME NEW y \in Name, NEW m \in Nonce, recent'[<<y, m>>] > 0
               PROVE  \/ pit'[y] # None /\ pit'[y].out # None /\ pit'[y].out.nonce = m
                      \/ dead'[<<y, m>>] >= recent'[<<y, m>>]
    BY DEF HandedOver
  <2>1. CASE y = x /\ m = o
    BY <2>1, <1>3, <1>6
  <2>2. CASE ~ (y = x /\ m = o)
    <3>1. recent'[<<y, m>>] = recent[<<y, m>>] /\ dead' = dead
      BY <2>2, <1>2, <1>5 DEF IInv, TypeOK, Pairs
    <3>2. \/ pit[y] # None /\ pit[y].out # None /\ pit[y].out.nonce = m
          \/ dead[<<y, m>>] >= recent[<<y, m>>]
      BY <3>1 DEF IInv, HandedOver
    <3> QED
      BY <3>1, <3>2, <2>2, <1>4, <1>6, PitSound
  <2> QED
    BY <2>1, <2>2
<1> QED
  BY <1>6, <1>7, <1>8 DEF IInv

LEMMA IncomingDataStep ==
  ASSUME IInv, NEW x \in Name, NEW n \in Nonce, IncomingData(x, n)
  PROVE  IInv'
<1> DEFINE g == SetStragglerTimer(Satisfied(CancelTimers(pit[x])), TRUE)
<1>1. Sound(g)
  <2>1. Sound(pit[x])
    BY DEF IncomingData, IInv
  <2> QED
    BY <2>1, SatisfiedSound
<1>2. pit' = [pit EXCEPT ![x] = g]
  BY DEF IncomingData
<1>3. sent' \subseteq [kind : {"Interest", "Data"}, name : Name, nonce : Nonce]
  <2>1. Downstreams(pit[x]) \subseteq Nonce
    BY FieldsOf DEF Downstreams, IncomingData, IInv, Sound
  <2> QED
    BY <2>1 DEF IncomingData, DataTo
<1> HIDE DEF g
<1>4. /\ pit' \in [Name -> Entry \cup {None}]
      /\ \A y \in Name : pit'[y] # None => Sound(pit'[y])
      /\ \A y \in Name \ {x} : pit'[y] = pit[y]
  BY <1>1, <1>2, PutSound
<1>5. /\ recent' \in [Pairs -> 0..DeadTime]
      /\ \A y \in Name, m \in Nonce :
           recent'[<<y, m>>] = IF y = x THEN 0 ELSE recent[<<y, m>>]
  BY TimeAssumption DEF IncomingData, IInv, TypeOK, Pairs
<1>6. HandedOver'
  <2> SUFFICES ASSUME NEW y \in Name, NEW m \in Nonce, recent'[<<y, m>>] > 0
               PROVE  \/ pit'[y] # None /\ pit'[y].out # None /\ pit'[y].out.nonce = m
                      \/ dead'[<<y, m>>] >= recent'[<<y, m>>]
    BY DEF HandedOver
  <2>1. y # x /\ recent'[<<y, m>>] = recent[<<y, m>>]
    BY <1>5
  <2> QED
    BY <1>4, <2>1 DEF IInv, HandedOver, IncomingData
<1> QED
  BY <1>3, <1>4, <1>5, <1>6 DEF IncomingData, IInv, TypeOK

\* Steps that leave entries and nonces alone.
LEMMA OtherStep ==
  ASSUME IInv, UNCHANGED <<pit, dead, recent>>, sent' = {},
         store' \subseteq Name, asked' \subseteq Pairs
  PROVE  IInv'
BY DEF IInv, TypeOK, HandedOver

LEMMA FinalizeStep ==
  ASSUME IInv, NEW x \in Name, pit[x] # None, NEW satisfied \in BOOLEAN,
         satisfied => pit[x].out = None, Finalize(x, satisfied)
  PROVE  IInv'
<1>1. Sound(pit[x]) /\ pit[x].out \in OutRecord \cup {None}
  BY FieldsOf DEF IInv, Sound
<1>2. /\ dead' \in [Pairs -> 0..DeadTime]
      /\ \A y \in Name, m \in Nonce :
           dead'[<<y, m>>] = IF y = x /\ pit[x].out # None /\ m = pit[x].out.nonce
                         THEN DeadTime ELSE dead[<<y, m>>]
  <2>1. CASE pit[x].out = None
    BY <2>1 DEF Finalize, IInv, TypeOK
  <2>2. CASE pit[x].out # None
    <3> DEFINE o == pit[x].out.nonce
    <3>1. o \in Nonce
      BY <1>1, <2>2 DEF OutRecord
    <3>2. dead' = [dead EXCEPT ![<<x, o>>] = DeadTime]
      BY <2>2 DEF Finalize
    <3> HIDE DEF o
    <3>3. /\ dead' \in [Pairs -> 0..DeadTime]
          /\ \A y \in Name, m \in Nonce :
               dead'[<<y, m>>] = IF y = x /\ m = o THEN DeadTime ELSE dead[<<y, m>>]
      BY <3>1, <3>2, TimeAssumption DEF IInv, TypeOK, Pairs
    <3> QED
      BY <3>3, <2>2 DEF o
  <2> QED
    BY <2>1, <2>2
<1>3. /\ pit' = [pit EXCEPT ![x] = None] /\ sent' = {}
      /\ UNCHANGED <<store, asked, recent>>
  BY DEF Finalize
<1>4. TypeOK' /\ \A y \in Name : pit'[y] # None => Sound(pit'[y])
  BY <1>2, <1>3 DEF IInv, TypeOK
<1>5. HandedOver'
  <2> SUFFICES ASSUME NEW y \in Name, NEW m \in Nonce, recent[<<y, m>>] > 0
               PROVE  \/ pit'[y] # None /\ pit'[y].out # None /\ pit'[y].out.nonce = m
                      \/ dead'[<<y, m>>] >= recent[<<y, m>>]
    BY <1>3 DEF HandedOver
  <2>1. \/ pit[y] # None /\ pit[y].out # None /\ pit[y].out.nonce = m
        \/ dead[<<y, m>>] >= recent[<<y, m>>]
    BY DEF IInv, HandedOver
  <2>2. recent[<<y, m>>] \in 0..DeadTime /\ DeadTime \in Nat
    BY TimeAssumption DEF IInv, TypeOK, Pairs
  <2>3. CASE y = x
    BY <1>2, <2>1, <2>2, <2>3
  <2>4. CASE y # x
    BY <1>2, <1>3, <2>1, <2>4 DEF IInv, TypeOK
  <2> QED
    BY <2>3, <2>4
<1> QED
  BY <1>4, <1>5 DEF IInv

LEMMA InterestUnsatisfiedStep ==
  ASSUME IInv, NEW x \in Name, InterestUnsatisfied(x)
  PROVE  IInv'
<1>1. FALSE \in BOOLEAN /\ pit[x] # None /\ Finalize(x, FALSE)
  BY DEF InterestUnsatisfied
<1> QED
  BY <1>1, FinalizeStep

LEMMA StragglerTimerStep ==
  ASSUME IInv, NEW x \in Name, StragglerTimer(x)
  PROVE  IInv'
<1>1. pit[x] # None /\ Sound(pit[x]) /\ pit[x].straggler = 0
  BY DEF StragglerTimer, IInv
<1>2. pit[x].straggler # None /\ pit[x].satisfied \in BOOLEAN
  BY <1>1, FieldsOf, NoneAssumption DEF Sound
<1>3. pit[x].satisfied => pit[x].out = None
  BY <1>1, <1>2 DEF Sound, RecordsAgree
<1>4. Finalize(x, pit[x].satisfied)
  BY DEF StragglerTimer
<1> QED
  BY <1>1, <1>2, <1>3, <1>4, FinalizeStep

LEMMA TickStep ==
  ASSUME IInv, Tick
  PROVE  IInv'
<1>1. \A x \in Name : pit[x] # None =>
        /\ Sound(pit[x]) /\ pit[x].unsatisfy # 0 /\ pit[x].straggler # 0
        /\ pit'[x] = EntryLater(pit[x])
  BY DEF Tick, IInv
<1>2. \A x \in Name : pit[x] # None =>
        /\ Sound(pit'[x])
        /\ pit[x].out # None => pit'[x].out # None /\ pit'[x].out.nonce = pit[x].out.nonce
  BY <1>1, LaterSound
<1>3. \A x \in Name : pit[x] = None => pit'[x] = None
  BY DEF Tick
<1>4. pit' \in [Name -> Entry \cup {None}]
  <2>1. pit' = [x \in Name |-> IF pit[x] = None THEN None ELSE EntryLater(pit[x])]
    BY DEF Tick
  <2>2. \A x \in Name : pit'[x] \in Entry \cup {None}
    BY <1>2, <1>3 DEF Sound
  <2> QED
    BY <2>1, <2>2
<1>5. /\ dead' \in [Pairs -> 0..DeadTime] /\ recent' \in [Pairs -> 0..DeadTime]
      /\ \A x \in Name, n \in Nonce :
           dead'[<<x, n>>] = NonceLater(dead[<<x, n>>]) /\ recent'[<<x, n>>] = NonceLater(recent[<<x, n>>])
  <2>1. \A t \in 0..DeadTime : NonceLater(t) \in 0..DeadTime
    BY TimeAssumption DEF NonceLater
  <2>2. /\ dead' = [p \in Pairs |-> NonceLater(dead[p])]
        /\ recent' = [p \in Pairs |-> NonceLater(recent[p])]
    BY DEF Tick
  <2>3. \A x \in Name, n \in Nonce : <<x, n>> \in Pairs
    BY DEF Pairs
  <2> QED
    BY <2>1, <2>2, <2>3 DEF IInv, TypeOK
<1>6. TypeOK'
  BY <1>4, <1>5 DEF Tick, IInv, TypeOK
<1>7. HandedOver'
  <2> SUFFICES ASSUME NEW x \in Name, NEW n \in Nonce, recent'[<<x, n>>] > 0
               PROVE  \/ pit'[x] # None /\ pit'[x].out # None /\ pit'[x].out.nonce = n
                      \/ dead'[<<x, n>>] >= recent'[<<x, n>>]
    BY DEF HandedOver
  <2>1. recent[<<x, n>>] \in 0..DeadTime /\ dead[<<x, n>>] \in 0..DeadTime
    BY DEF IInv, TypeOK, Pairs
  <2>2. recent[<<x, n>>] > 0 /\ recent'[<<x, n>>] = recent[<<x, n>>] - 1
    BY <1>5, <2>1, TimeAssumption DEF NonceLater
  <2>3. CASE dead[<<x, n>>] >= recent[<<x, n>>]
    BY <1>5, <2>1, <2>2, <2>3, TimeAssumption DEF NonceLater
  <2>4. CASE pit[x] # None /\ pit[x].out # None /\ pit[x].out.nonce = n
    <3>1. pit'[x] # None
      BY <1>2, <2>4, NoneAssumption DEF Sound
    <3> QED
      BY <1>2, <2>4, <3>1
  <2> QED
    BY <2>2, <2>3, <2>4 DEF IInv, HandedOver
<1> QED
  BY <1>2, <1>3, <1>6, <1>7 DEF IInv

THEOREM Invariance == Spec => []IInv
<1>1. Init => IInv
  BY TimeAssumption DEF Init, IInv, TypeOK, HandedOver, Pairs
<1>2. IInv /\ [Next]_vars => IInv'
  <2> SUFFICES ASSUME IInv, [Next]_vars
               PROVE  IInv'
    OBVIOUS
  <2>1. ASSUME NEW x \in Name, NEW n \in Nonce, NEW life \in Lifetime,
               IncomingInterest(x, n, life)
        PROVE  IInv'
    BY <2>1, InterestLoopStep, ContentStoreHitStep, AggregateInterestStep,
       ForwardInterestStep, RejectInterestStep DEF IncomingInterest
  <2>2. ASSUME NEW x \in Name, NEW n \in Nonce, IncomingData(x, n)
        PROVE  IInv'
    BY <2>2, IncomingDataStep
  <2>3. ASSUME NEW x \in Name, NEW n \in Nonce, DataUnsolicited(x, n)
        PROVE  IInv'
    BY <2>3, OtherStep DEF DataUnsolicited, IInv, TypeOK
  <2>4. ASSUME NEW x \in Name, NEW n \in Nonce, Lose(x, n)
        PROVE  IInv'
    BY <2>4, OtherStep DEF Lose, IInv, TypeOK
  <2>5. ASSUME NEW x \in Name, Evict(x)
        PROVE  IInv'
    BY <2>5, OtherStep DEF Evict, IInv, TypeOK
  <2>6. ASSUME NEW x \in Name, InterestUnsatisfied(x)
        PROVE  IInv'
    BY <2>6, InterestUnsatisfiedStep
  <2>7. ASSUME NEW x \in Name, StragglerTimer(x)
        PROVE  IInv'
    BY <2>7, StragglerTimerStep
  <2>8. CASE Tick
    BY <2>8, TickStep
  <2>9. CASE UNCHANGED vars
    BY <2>9 DEF vars, IInv, TypeOK, HandedOver
  <2> QED
    BY <2>1, <2>2, <2>3, <2>4, <2>5, <2>6, <2>7, <2>8, <2>9 DEF Next
<1> QED
  BY <1>1, <1>2, PTL DEF Spec

\* Every variable of the forwarder keeps its type.
THEOREM TypeCorrect == Spec => []TypeOK
<1>1. IInv => TypeOK
  BY DEF IInv
<1> QED
  BY <1>1, Invariance, PTL

\* No entry of the PIT has two timers set, and one with a record has one,
\* however the pipelines cancel and set them.
THEOREM TimersRight == Spec => []OneTimer
<1>1. IInv => OneTimer
  BY DEF IInv, Sound, OneTimerOf, OneTimer
<1> QED
  BY <1>1, Invariance, PTL

\* The unsatisfy timer of an entry is due when its last in-record expires.
THEOREM ExpiryRight == Spec => []TimerIsLastExpiry
<1>1. IInv => TimerIsLastExpiry
  BY DEF IInv, Sound, LastExpiryOf, TimerIsLastExpiry
<1> QED
  BY <1>1, Invariance, PTL

\* A nonce sent upstream stays known to PIT or Dead Nonce List for DeadTime,
\* unless it is answered.
THEOREM SentStaysKnown == Spec => []SentIsKnown
<1>1. IInv => SentIsKnown
  <2> SUFFICES ASSUME IInv, NEW x \in Name, NEW n \in Nonce, recent[<<x, n>>] > 0
               PROVE  HasNonce(Pit(x), n) \/ dead[<<x, n>>] > 0
    BY DEF SentIsKnown, Seen
  <2>1. recent[<<x, n>>] \in Int /\ dead[<<x, n>>] \in Int
    BY DEF IInv, TypeOK, Pairs
  <2> QED
    BY <2>1, PitSound DEF IInv, HandedOver, HasNonce
<1> QED
  BY <1>1, Invariance, PTL

-----------------------------------------------------------------------------
\* The table of requests that the forwarder implements.

LEMMA OfIsRequests ==
  ASSUME NEW x \in Name
  PROVE  Table!Of(x) = Requests(x, Pit(x).ins)
BY DEF Table!Of, Waiting, Requests

\* What becomes of the table when the entry for x becomes g, or goes.
LEMMA PutTable ==
  ASSUME IInv, NEW x \in Name, NEW g, Sound(g), pit' = [pit EXCEPT ![x] = g]
  PROVE  /\ Waiting' = (Waiting \ Requests(x, Pit(x).ins)) \cup Requests(x, g.ins)
         /\ Refused' = IF g.straggler # None /\ ~g.satisfied
                       THEN Refused \cup {x} ELSE Refused \ {x}
<1>1. /\ pit'[x] = g /\ g # None
      /\ \A y \in Name \ {x} : pit'[y] = pit[y]
  BY PutSound
<1>2. Pit(x)' = g /\ \A y \in Name \ {x} : Pit(y)' = Pit(y)
  BY <1>1 DEF Pit
<1>3. \A y \in Name \ {x} : Requests(y, Pit(y).ins)' = Requests(y, Pit(y).ins)
  BY <1>2 DEF Requests
<1>4. Requests(x, Pit(x).ins)' = Requests(x, g.ins)
  BY <1>2 DEF Requests
<1>5. \A y, z \in Name : \A f, h : y # z => Requests(y, f) \cap Requests(z, h) = {}
  BY DEF Requests
<1>6. Waiting' = (Waiting \ Requests(x, Pit(x).ins)) \cup Requests(x, g.ins)
  <2>1. Waiting' = UNION {Requests(y, Pit(y).ins)' : y \in Name}
    BY DEF Waiting
  <2> QED
    BY <2>1, <1>3, <1>4, <1>5 DEF Waiting
<1> QED
  BY <1>2, <1>6 DEF Refused

\* An entry that goes takes its requests along.
LEMMA EraseTable ==
  ASSUME IInv, NEW x \in Name, pit' = [pit EXCEPT ![x] = None]
  PROVE  /\ Waiting' = Waiting \ Requests(x, Pit(x).ins)
         /\ Refused' = Refused \ {x}
<1>1. /\ pit'[x] = None
      /\ \A y \in Name \ {x} : pit'[y] = pit[y]
  BY DEF IInv, TypeOK
<1>2. Pit(x)' = NewEntry /\ \A y \in Name \ {x} : Pit(y)' = Pit(y)
  BY <1>1 DEF Pit, NewEntry
<1>3. \A y \in Name \ {x} : Requests(y, Pit(y).ins)' = Requests(y, Pit(y).ins)
  BY <1>2 DEF Requests
<1>4. Requests(x, Pit(x).ins)' = {}
  BY <1>2, NoInRecords DEF Requests, NewEntry
<1>5. \A y, z \in Name : \A f, h : y # z => Requests(y, f) \cap Requests(z, h) = {}
  BY DEF Requests
<1>6. Waiting' = Waiting \ Requests(x, Pit(x).ins)
  <2>1. Waiting' = UNION {Requests(y, Pit(y).ins)' : y \in Name}
    BY DEF Waiting
  <2> QED
    BY <2>1, <1>3, <1>4, <1>5 DEF Waiting
<1>7. Refused' = Refused \ {x}
  BY <1>2 DEF Refused, NewEntry
<1> QED
  BY <1>6, <1>7

LEMMA NothingAnswered ==
  ASSUME sent' = {} \/ \E x, n : sent' = {InterestFor(x, n)}
  PROVE  Answered' = {}
BY DEF Answered, InterestFor

LEMMA UnansweredIgnored ==
  ASSUME Waiting' = Waiting, Refused' = Refused, Answered' = {}
  PROVE  Table!Next
BY DEF Table!Next, Table!Ignore

\* What of an entry there is for x, by the invariant.
LEMMA EntryFacts ==
  ASSUME IInv, NEW x \in Name
  PROVE  /\ x \in Refused <=> Pit(x).straggler # None /\ ~Pit(x).satisfied
         /\ x \in Refused => DOMAIN Pit(x).ins # {}
         /\ DOMAIN Pit(x).ins # {} /\ x \notin Refused => Pit(x).unsatisfy # None
BY PitSound DEF Refused, Sound, RecordsAgree, OneTimerOf

LEMMA LoopRefines ==
  ASSUME IInv, NEW x \in Name, NEW n \in Nonce, InterestLoop(x, n)
  PROVE  Table!Next
<1>1. /\ Waiting' = (Waiting \ Requests(x, Pit(x).ins)) \cup Requests(x, Pit(x).ins)
      /\ Refused' = IF Pit(x).straggler # None /\ ~Pit(x).satisfied
                    THEN Refused \cup {x} ELSE Refused \ {x}
  BY PitSound, PutTable DEF InterestLoop
<1>2. Requests(x, Pit(x).ins) \subseteq Waiting
  BY DEF Waiting
<1>3. Waiting' = Waiting /\ Refused' = Refused
  BY <1>1, <1>2, EntryFacts
<1> QED
  BY <1>3, NothingAnswered, UnansweredIgnored DEF InterestLoop

LEMMA HitRefines ==
  ASSUME IInv, NEW x \in Name, NEW n \in Nonce, ContentStoreHit(x, n)
  PROVE  Table!Next
<1> DEFINE g == SetStragglerTimer(CancelTimers(Pit(x)), TRUE)
<1>1. Sound(g) /\ g.ins = Pit(x).ins /\ g.satisfied = TRUE
  BY PitSound, StragglerSound DEF ContentStoreHit
<1>2. pit' = [pit EXCEPT ![x] = g] /\ DOMAIN Pit(x).ins = {}
  BY DEF ContentStoreHit
<1> HIDE DEF g
<1>3. Waiting' = Waiting /\ Refused' = Refused
  <2>1. Requests(x, g.ins) = {} /\ Requests(x, Pit(x).ins) = {}
    BY <1>1, <1>2 DEF Requests
  <2>2. /\ Waiting' = (Waiting \ Requests(x, Pit(x).ins)) \cup Requests(x, g.ins)
        /\ Refused' = Refused \ {x}
    BY <1>1, <1>2, PutTable
  <2> QED
    BY <2>1, <2>2, <1>2, EntryFacts
<1>4. Answered' \in SUBSET {[name |-> x, nonce |-> n]}
  BY DEF ContentStoreHit, Answered, DataTo
<1>5. Table!AnswerNow(x, n)
  BY <1>2, <1>3, <1>4, OfIsRequests DEF Table!AnswerNow, Requests
<1> QED
  BY <1>5 DEF Table!Next

\* An Interest that joins an entry starts to wait.
LEMMA JoinRefines ==
  ASSUME IInv, NEW x \in Name, NEW n \in Nonce, NEW life \in Lifetime,
         ~Seen(x, n), Answered' = {},
         NEW g, Sound(g), g.ins = JoinedIns(Pit(x), n, life),
         pit' = [pit EXCEPT ![x] = g]
  PROVE  Table!Next
<1>1. n \notin DOMAIN Pit(x).ins
  BY DEF Seen, HasNonce
<1>2. Requests(x, g.ins) = Requests(x, Pit(x).ins)
                             \cup {[name |-> x, nonce |-> n, left |-> life]}
  BY <1>1 DEF Requests, JoinedIns
<1>3. Requests(x, Pit(x).ins) \subseteq Waiting
  BY DEF Waiting
<1>4. Waiting' = Waiting \cup {[name |-> x, nonce |-> n, left |-> life]}
  BY <1>2, <1>3, PutTable
<1>5. Refused' \in {Refused \ {x}, Refused \cup {x}}
  BY PutTable
<1>6. \A r \in Table!Of(x) : r.nonce # n
  BY <1>1, OfIsRequests DEF Requests
<1>7. Table!Wait(x, n, life)
  BY <1>4, <1>5, <1>6 DEF Table!Wait
<1> QED
  BY <1>7 DEF Table!Next

LEMMA AggregateRefines ==
  ASSUME IInv, NEW x \in Name, NEW n \in Nonce, NEW life \in Lifetime,
         AggregateInterest(x, n, life)
  PROVE  Table!Next
<1> DEFINE g == Missed(x, n, life)
<1>1. Sound(g) /\ g.ins = JoinedIns(Pit(x), n, life)
  BY MissedSound
<1>2. pit' = [pit EXCEPT ![x] = g] /\ ~Seen(x, n) /\ sent' = {}
  BY DEF AggregateInterest, Misses
<1> HIDE DEF g
<1> QED
  BY <1>1, <1>2, NothingAnswered, JoinRefines

LEMMA ForwardRefines ==
  ASSUME IInv, NEW x \in Name, NEW n \in Nonce, NEW life \in Lifetime,
         ForwardInterest(x, n, life)
  PROVE  Table!Next
<1> DEFINE j == Missed(x, n, life)
           g == Forwarded(j)
<1>1. /\ Sound(j) /\ j.ins = JoinedIns(Pit(x), n, life)
      /\ DOMAIN j.ins # {} /\ j.oldest \in OldestInterest
  BY MissedSound
<1>2. /\ pit' = [pit EXCEPT ![x] = g] /\ ~Seen(x, n)
      /\ sent' = {InterestFor(x, j.oldest.nonce)}
  BY DEF ForwardInterest, Forwarded, Misses
<1>3. Answered' = {}
  BY <1>2, NothingAnswered
<1> HIDE DEF j
<1>4. Sound(g) /\ g.ins = JoinedIns(Pit(x), n, life)
  <2>1. Sound(g) /\ g.ins = j.ins
    BY <1>1, ForwardedSound
  <2> HIDE DEF g
  <2> QED
    BY <1>1, <2>1
<1> HIDE DEF g
<1> QED
  BY <1>2, <1>3, <1>4, JoinRefines

LEMMA RejectRefines ==
  ASSUME IInv, NEW x \in Name, NEW n \in Nonce, NEW life \in Lifetime,
         RejectInterest(x, n, life)
  PROVE  Table!Next
<1> DEFINE j == Missed(x, n, life)
           g == SetStragglerTimer(CancelTimers(j), FALSE)
<1>1. Sound(j) /\ j.ins = JoinedIns(Pit(x), n, life) /\ DOMAIN j.ins # {}
  BY MissedSound
<1>2. pit' = [pit EXCEPT ![x] = g] /\ ~Seen(x, n) /\ sent' = {}
  BY DEF RejectInterest, Misses
<1> HIDE DEF j
<1>3. Sound(g) /\ g.ins = JoinedIns(Pit(x), n, life)
  <2>1. FALSE \in BOOLEAN /\ (FALSE <=> DOMAIN j.ins = {})
    BY <1>1
  <2>2. Sound(g) /\ g.ins = j.ins
    BY <1>1, <2>1, StragglerSound
  <2> HIDE DEF g
  <2> QED
    BY <1>1, <2>2
<1> HIDE DEF g
<1> QED
  BY <1>2, <1>3, NothingAnswered, JoinRefines

LEMMA DataRefines ==
  ASSUME IInv, NEW x \in Name, NEW n \in Nonce, IncomingData(x, n)
  PROVE  Table!Next
<1> DEFINE g == SetStragglerTimer(Satisfied(CancelTimers(pit[x])), TRUE)
<1>1. Pit(x) = pit[x] /\ Sound(pit[x])
  BY PitSound DEF IncomingData
<1>2. Sound(g) /\ DOMAIN g.ins = {} /\ g.satisfied = TRUE
  BY <1>1, SatisfiedSound
<1>3. pit' = [pit EXCEPT ![x] = g]
  BY DEF IncomingData
<1> HIDE DEF g
<1>4. Requests(x, g.ins) = {}
  BY <1>2 DEF Requests
<1>5. Waiting' = Waiting \ Requests(x, Pit(x).ins) /\ Refused' = Refused \ {x}
  BY <1>2, <1>3, <1>4, PutTable
<1>6. \A p \in Answered' : \E d \in Downstreams(pit[x]) : p = [name |-> x, nonce |-> d]
  BY DEF IncomingData, Answered, DataTo
<1>7. \A d \in Downstreams(pit[x]) :
        [name |-> x, nonce |-> d, left |-> pit[x].ins[d]] \in Requests(x, Pit(x).ins)
          /\ pit[x].ins[d] > 0
  BY <1>1 DEF Downstreams, Requests
<1>8. \A d \in Downstreams(pit[x]) :
        [name |-> x, nonce |-> d]
          \in {[name |-> x, nonce |-> r.nonce] :
                 r \in {r \in Requests(x, Pit(x).ins) : r.left > 0}}
  <2> TAKE d \in Downstreams(pit[x])
  <2> DEFINE r == [name |-> x, nonce |-> d, left |-> pit[x].ins[d]]
  <2>1. r \in {q \in Requests(x, Pit(x).ins) : q.left > 0} /\ r.nonce = d
    BY <1>7
  <2> HIDE DEF r
  <2> QED
    BY <2>1
<1>9. Table!Answer(x)
  BY <1>5, <1>6, <1>8, OfIsRequests DEF Table!Answer
<1> QED
  BY <1>9 DEF Table!Next

LEMMA UnsatisfiedRefines ==
  ASSUME IInv, NEW x \in Name, InterestUnsatisfied(x)
  PROVE  Table!Next
<1>1. Pit(x) = pit[x] /\ Sound(pit[x]) /\ pit[x].unsatisfy = 0
  BY PitSound DEF InterestUnsatisfied
<1>2. \A n \in DOMAIN Pit(x).ins : Pit(x).ins[n] <= 0
  BY <1>1, NoneAssumption DEF Sound, LastExpiryOf
<1>3. pit' = [pit EXCEPT ![x] = None] /\ sent' = {}
  BY DEF InterestUnsatisfied, Finalize
<1>4. \A r \in Table!Of(x) : r.left <= 0
  BY <1>2, OfIsRequests DEF Requests
<1>5. Table!GiveUp(x)
  BY <1>3, <1>4, EraseTable, NothingAnswered, OfIsRequests DEF Table!GiveUp
<1> QED
  BY <1>5 DEF Table!Next

LEMMA StragglerRefines ==
  ASSUME IInv, NEW x \in Name, StragglerTimer(x)
  PROVE  Table!Next
<1>1. Pit(x) = pit[x] /\ Sound(pit[x]) /\ pit[x].straggler # None
  BY PitSound, NoneAssumption DEF StragglerTimer
<1>2. x \in Refused \/ DOMAIN Pit(x).ins = {}
  BY <1>1 DEF Refused, Sound, RecordsAgree
<1>3. pit' = [pit EXCEPT ![x] = None] /\ sent' = {}
  BY DEF StragglerTimer, Finalize
<1>4. x \in Refused \/ \A r \in Table!Of(x) : r.left <= 0
  BY <1>2, OfIsRequests DEF Requests
<1>5. Table!GiveUp(x)
  BY <1>3, <1>4, EraseTable, NothingAnswered, OfIsRequests DEF Table!GiveUp
<1> QED
  BY <1>5 DEF Table!Next

LEMMA TickRefines ==
  ASSUME IInv, Tick
  PROVE  Table!Next
<1> DEFINE Older(r) == [r EXCEPT !.left = IF @ < 0 THEN @ ELSE @ - 1]
<1>1. ASSUME NEW x \in Name
      PROVE  /\ DOMAIN Pit(x)'.ins = DOMAIN Pit(x).ins
             /\ \A n \in DOMAIN Pit(x).ins : Pit(x)'.ins[n] = RecordLater(Pit(x).ins[n])
             /\ Pit(x)'.straggler = None <=> Pit(x).straggler = None
             /\ Pit(x)'.satisfied = Pit(x).satisfied
  <2>1. CASE pit[x] = None
    <3>1. pit'[x] = None
      BY <2>1 DEF Tick
    <3>2. Pit(x)' = NewEntry /\ Pit(x) = NewEntry /\ DOMAIN NewEntry.ins = {}
      BY <2>1, <3>1, NoInRecords DEF Pit, NewEntry
    <3> QED
      BY <3>2
  <2>2. CASE pit[x] # None
    <3>1. /\ Sound(pit[x]) /\ pit[x].unsatisfy # 0 /\ pit[x].straggler # 0
          /\ pit'[x] = EntryLater(pit[x])
      BY <2>2 DEF Tick, IInv
    <3>2. Sound(pit'[x])
      BY <3>1, LaterSound
    <3>3. Pit(x) = pit[x] /\ Pit(x)' = pit'[x]
      BY <2>2, <3>2, NoneAssumption DEF Pit, Sound
    <3> QED
      BY <3>1, <3>3, LaterSound
  <2> QED
    BY <2>1, <2>2
<1>2. Refused' = Refused
  BY <1>1 DEF Refused
<1>3. \A x \in Name, n \in Nonce, l \in Left :
        Older([name |-> x, nonce |-> n, left |-> l]) =
          [name |-> x, nonce |-> n, left |-> RecordLater(l)]
  BY LifetimeFacts DEF RecordLater, Left, Over
<1> HIDE DEF Older
<1>4. \A x \in Name : DOMAIN Pit(x).ins \subseteq Nonce
                        /\ \A n \in DOMAIN Pit(x).ins : Pit(x).ins[n] \in Left
  BY PitSound, FieldsOf DEF Sound
<1>5. \A x \in Name :
        Requests(x, Pit(x).ins)' = {Older(r) : r \in Requests(x, Pit(x).ins)}
  <2> TAKE x \in Name
  <2> DEFINE now == Pit(x).ins
             later == Pit(x)'.ins
             Record(n, l) == [name |-> x, nonce |-> n, left |-> l]
  <2>1. DOMAIN later = DOMAIN now /\ \A n \in DOMAIN now : later[n] = RecordLater(now[n])
    BY <1>1
  <2>2. \A n \in DOMAIN now : Older(Record(n, now[n])) = Record(n, RecordLater(now[n]))
    BY <1>3, <1>4
  <2>3. /\ Requests(x, Pit(x).ins)' = {Record(n, later[n]) : n \in DOMAIN later}
        /\ Requests(x, Pit(x).ins) = {Record(n, now[n]) : n \in DOMAIN now}
    BY DEF Requests
  <2> HIDE DEF now, later, Record
  <2> QED
    BY <2>1, <2>2, <2>3
<1>6. Waiting' = {Older(r) : r \in Waiting}
  <2>1. Waiting' = UNION {Requests(x, Pit(x).ins)' : x \in Name}
    BY DEF Waiting
  <2> QED
    BY <2>1, <1>5 DEF Waiting
<1>7. ASSUME NEW x \in Name \ Refused, DOMAIN Pit(x).ins # {}
      PROVE  \E n \in DOMAIN Pit(x).ins : Pit(x).ins[n] > 0
  <2>1. Pit(x).unsatisfy # None /\ pit[x] # None
    BY <1>7, EntryFacts, PitSound
  <2>2. Pit(x).unsatisfy > 0
    BY <2>1, PitSound, FieldsOf, LifetimeFacts DEF Tick, Sound
  <2> QED
    BY <2>1, <2>2, PitSound DEF Sound, LastExpiryOf
<1>8. \A x \in Name \ Refused : Table!Of(x) # {} => \E r \in Table!Of(x) : r.left > 0
  <2> SUFFICES ASSUME NEW x \in Name \ Refused, Table!Of(x) # {}
               PROVE  \E r \in Table!Of(x) : r.left > 0
    OBVIOUS
  <2>1. DOMAIN Pit(x).ins # {}
    BY OfIsRequests DEF Requests
  <2>2. PICK n \in DOMAIN Pit(x).ins : Pit(x).ins[n] > 0
    BY <1>7, <2>1
  <2>3. [name |-> x, nonce |-> n, left |-> Pit(x).ins[n]] \in Table!Of(x)
    BY OfIsRequests DEF Requests
  <2> QED
    BY <2>2, <2>3
<1>9. Answered' = {}
  BY NothingAnswered DEF Tick
<1>10. Table!Tick
  BY <1>2, <1>6, <1>8, <1>9 DEF Table!Tick, Older
<1> QED
  BY <1>10 DEF Table!Next

\* Steps that leave the PIT alone.
LEMMA OtherRefines ==
  ASSUME UNCHANGED pit, sent' = {}
  PROVE  Table!Next
<1>1. Waiting' = Waiting /\ Refused' = Refused
  BY DEF Waiting, Refused, Requests, Pit
<1> QED
  BY <1>1, NothingAnswered, UnansweredIgnored

\* The pipelines implement a table of pending requests, for all values of the
\* constants: Data goes only to those whose requests have not expired, and no
\* request outlives the last one for its name, unless the name is refused.
THEOREM RefinesTable == Spec => ImplementsTable
<1>1. Init => Table!Init
  <2> SUFFICES ASSUME Init
               PROVE  Waiting = {} /\ Refused = {} /\ Answered = {}
    BY DEF Table!Init
  <2>1. \A x \in Name : Pit(x) = NewEntry
    BY DEF Init, Pit
  <2>2. DOMAIN NewEntry.ins = {} /\ NewEntry.straggler = None
    BY NoInRecords DEF NewEntry
  <2> QED
    BY <2>1, <2>2 DEF Waiting, Refused, Answered, Requests, Init
<1>2. IInv /\ [Next]_vars => [Table!Next]_(Table!vars)
  <2> SUFFICES ASSUME IInv, [Next]_vars
               PROVE  Table!Next \/ UNCHANGED <<Waiting, Refused, Answered>>
    BY DEF Table!vars
  <2>1. ASSUME NEW x \in Name, NEW n \in Nonce, NEW life \in Lifetime,
               IncomingInterest(x, n, life)
        PROVE  Table!Next
    BY <2>1, LoopRefines, HitRefines, AggregateRefines, ForwardRefines,
       RejectRefines DEF IncomingInterest
  <2>2. ASSUME NEW x \in Name, NEW n \in Nonce, IncomingData(x, n)
        PROVE  Table!Next
    BY <2>2, DataRefines
  <2>3. ASSUME NEW x \in Name, NEW n \in Nonce, DataUnsolicited(x, n) \/ Lose(x, n)
        PROVE  Table!Next
    BY <2>3, OtherRefines DEF DataUnsolicited, Lose
  <2>4. ASSUME NEW x \in Name, Evict(x)
        PROVE  Table!Next
    BY <2>4, OtherRefines DEF Evict
  <2>5. ASSUME NEW x \in Name, InterestUnsatisfied(x)
        PROVE  Table!Next
    BY <2>5, UnsatisfiedRefines
  <2>6. ASSUME NEW x \in Name, StragglerTimer(x)
        PROVE  Table!Next
    BY <2>6, StragglerRefines
  <2>7. CASE Tick
    BY <2>7, TickRefines
  <2>8. CASE UNCHANGED vars
    BY <2>8 DEF vars, Waiting, Refused, Answered, Requests, Pit
  <2> QED
    BY <2>1, <2>2, <2>3, <2>4, <2>5, <2>6, <2>7, <2>8 DEF Next
<1> QED
  BY <1>1, <1>2, Invariance, PTL DEF Spec, ImplementsTable, Table!Spec
=============================================================================
