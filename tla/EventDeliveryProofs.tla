------------------------ MODULE EventDeliveryProofs ------------------------
(***************************************************************************)
(* Proofs about the event log and its ordered stream, for every set of     *)
(* publishers, any number of targets, clocks, cleanups, losses and faults. *)
(*                                                                         *)
(* The invariant DeliveryInv says where a rolled back transaction may have *)
(* left the stream: what was ever appended is a prefix of the retained     *)
(* events, the stream holds nothing else, and every cursor lies within the *)
(* prefix.  So a cursor taken from the stream's newest entry is as good as *)
(* a committed one, and replaying from an old one repeats only events the  *)
(* stream has had.  OrderInv adds that all targets number the stream       *)
(* alike, which makes Redis's refusal of old ids exclude every duplicate.  *)
(* ResumeInv says the same of a stream that continues an old rail, and     *)
(* that nothing delivered is missing from it, so that an id it refuses is  *)
(* one it holds.                                                           *)
(***************************************************************************)
EXTENDS EventDelivery, SequenceTheorems, WellFoundedInduction, TLAPS

\* A nonempty set of naturals has a least element.
LEMMA HasLeast ==
    ASSUME NEW S \in SUBSET Nat, S # {}
    PROVE  \E x \in S : \A y \in S : x <= y
<1>1. PICK x \in S : \A y \in S : ~(<<y, x>> \in OpToRel(<, Nat))
  BY NatLessThanWellFounded, WFMin, Zenon
<1>2. \A y \in S : ~(y < x)
  BY <1>1 DEF OpToRel
<1>3. \A y \in S : x <= y
  BY <1>2
<1> QED
  BY <1>3

\* Min(events): the first retained event.
LEMMA MinIsLeast ==
    ASSUME NEW S \in SUBSET Nat, S # {}
    PROVE  Min(S) \in S /\ \A y \in S : Min(S) <= y
  BY HasLeast DEF Min

\* Max(events): the newest retained event.
LEMMA MaxIsGreatest ==
    ASSUME NEW n \in Nat, NEW S \in SUBSET (1 .. n), S # {}
    PROVE  Max(S) \in S /\ \A y \in S : Max(S) >= y
<1> DEFINE U == {u \in Nat : \A y \in S : u >= y}
<1>1. n \in U
  OBVIOUS
<1>2. PICK m \in U : \A u \in U : m <= u
  BY <1>1, HasLeast
<1>3. m \in S
  <2>1. CASE m = 0
    <3>1. PICK y \in S : TRUE
      BY Zenon
    <3>2. m >= y /\ y >= 1
      BY <1>2
    <3> QED
      BY <2>1, <3>1, <3>2
  <2>2. CASE m # 0 /\ m \notin S
    <3>1. m - 1 \in U
      BY <2>2, <1>2
    <3> QED
      BY <3>1, <1>2
  <2> QED
    BY <2>1, <2>2
<1> QED
  BY <1>2, <1>3 DEF Max

-----------------------------------------------------------------------------
(* The inductive invariant                                                 *)

\* No cursor is ahead of the sequence counter.
CursorsBounded ==
    /\ \A t \in Targets : row[t].cursor <= counter
    /\ \A p \in Publishers : tx[p].cursor <= counter

\* The delivered events are a prefix of the retained ones.
DeliveredPrefix == \A s \in appended : \A e \in events : e < s => e \in appended

\* What the stream holds was appended.
StreamAppended == \A i \in 1 .. Len(stream) : stream[i].seq \in appended

DeliveryInv ==
    /\ TypeOK
    /\ CursorsBounded
    /\ CursorCovers
    /\ DeliveredPrefix
    /\ StreamAppended
    /\ CausalTime

\* A trim keeps a suffix of the stream.
LEMMA TrimIsSuffix ==
    ASSUME NEW s \in Seq(Entry), NEW t \in Trims(s)
    PROVE  /\ t \in Seq(Entry)
           /\ \E n \in 0 .. Len(s) :
                /\ Len(t) = Len(s) - n
                /\ \A i \in 1 .. Len(t) : t[i] = s[i + n]
<1>1. PICK n \in 0 .. Len(s) : t = SubSeq(s, n + 1, Len(s))
  BY DEF Trims
<1>2. Len(s) \in Nat /\ \A i \in 1 .. Len(s) : s[i] \in Entry
  BY LenProperties, ElementOfSeq
<1>3. /\ t \in Seq(Entry)
      /\ Len(t) = IF n + 1 <= Len(s) THEN Len(s) - (n + 1) + 1 ELSE 0
      /\ \A i \in 1 .. Len(s) - (n + 1) + 1 : t[i] = s[n + 1 + i - 1]
  BY <1>1, <1>2, SubSeqProperties
<1>4. Len(t) = Len(s) - n
  BY <1>2, <1>3
<1>5. \A i \in 1 .. Len(t) : t[i] = s[i + n]
  BY <1>2, <1>3, <1>4
<1> QED
  BY <1>3, <1>4, <1>5

\* What an accepted XADD leaves: old entries and the new one.
LEMMA AppendThenTrim ==
    ASSUME NEW s \in Seq(Entry), NEW x \in Entry, NEW t \in Trims(Append(s, x))
    PROVE  /\ t \in Seq(Entry)
           /\ \A i \in 1 .. Len(t) : t[i] = x \/ \E j \in 1 .. Len(s) : t[i] = s[j]
<1> DEFINE u == Append(s, x)
<1>1. /\ Len(s) \in Nat
      /\ u \in Seq(Entry)
      /\ Len(u) = Len(s) + 1
      /\ \A i \in 1 .. Len(s) : u[i] = s[i]
      /\ u[Len(s) + 1] = x
  BY AppendProperties, LenProperties
<1> HIDE DEF u
<1>2. /\ t \in Seq(Entry)
      /\ \E n \in 0 .. Len(u) : Len(t) = Len(u) - n /\ \A i \in 1 .. Len(t) : t[i] = u[i + n]
  BY <1>1, TrimIsSuffix DEF u
<1>3. PICK n \in 0 .. Len(u) : Len(t) = Len(u) - n /\ \A i \in 1 .. Len(t) : t[i] = u[i + n]
  BY <1>2
<1>4. ASSUME NEW i \in 1 .. Len(t) PROVE t[i] = x \/ \E j \in 1 .. Len(s) : t[i] = s[j]
  <2>1. i + n \in 1 .. Len(s) + 1 /\ t[i] = u[i + n]
    BY <1>1, <1>3
  <2>2. CASE i + n = Len(s) + 1
    BY <1>1, <2>1, <2>2
  <2>3. CASE i + n \in 1 .. Len(s)
    BY <1>1, <2>1, <2>3
  <2> QED
    BY <1>1, <2>1, <2>2, <2>3
<1> QED
  BY <1>2, <1>4

\* The next row of a delivery: everything retained before it is delivered.
LEMMA NextRow ==
    ASSUME DeliveryInv, NEW p \in Publishers, pc[p] = "deliver",
           NEW e \in Pending(p), \A d \in Pending(p) : e <= d
    PROVE  /\ e \in events /\ e \in 1 .. counter
           /\ \A d \in events : d < e => d \in appended
<1>1. /\ events \in SUBSET (1 .. counter) /\ counter \in Nat
      /\ tx[p].cursor \in Nat /\ goal[p] \in Nat
  BY DEF DeliveryInv, TypeOK, Row
<1>2. e \in events /\ tx[p].cursor < e /\ e <= goal[p]
  BY DEF Pending
<1>3. ASSUME NEW d \in events, d < e PROVE d \in appended
  <2>1. d <= tx[p].cursor
    BY <1>1, <1>2, <1>3 DEF Pending
  <2> QED
    BY <2>1 DEF DeliveryInv, CursorCovers, Covers
<1> QED
  BY <1>1, <1>2, <1>3

\* Bootstrapping a target covers no undelivered event: the newest entry was
\* appended, so everything retained before it was; an empty stream starts
\* before the first retained event.
LEMMA BootstrapCovers ==
    ASSUME DeliveryInv, NEW r \in Row, r.cursor <= counter, Covers(r)
    PROVE  Bootstrap(r) \in Row /\ Bootstrap(r).cursor <= counter /\ Covers(Bootstrap(r))
<1>1. /\ counter \in Nat /\ events \in SUBSET (1 .. counter) /\ r.cursor \in Nat
      /\ stream \in Seq(Entry) /\ appended \in SUBSET (1 .. counter)
  BY DEF DeliveryInv, TypeOK, Row
<1>2. CASE stream = <<>> /\ events = {}
  BY <1>1, <1>2 DEF Bootstrap, Row, Covers
<1>3. CASE stream = <<>> /\ events # {}
  <2>1. Min(events) \in 1 .. counter /\ \A e \in events : Min(events) <= e
    <3>1. events \in SUBSET Nat
      BY <1>1
    <3>2. Min(events) \in events /\ \A e \in events : Min(events) <= e
      BY <1>3, <3>1, MinIsLeast
    <3> QED
      BY <1>1, <3>2
  <2>2. Bootstrap(r) = [cursor |-> Larger(r.cursor, Min(events) - 1), offset |-> 0]
    BY <1>3 DEF Bootstrap
  <2> QED
    BY <1>1, <2>1, <2>2 DEF Row, Covers, Larger
<1>4. CASE stream # <<>>
  <2> DEFINE last == stream[Len(stream)]
             s == SequenceOf(last)
  <2>1. Len(stream) \in 1 .. Len(stream) /\ last \in Entry
    BY <1>1, <1>4, LenProperties, ElementOfSeq, EmptySeq
  <2>2. last.seq \in appended /\ last.seq \in Nat /\ last.id \in Nat
    BY <2>1 DEF DeliveryInv, StreamAppended, Entry
  <2>3. s \in Nat /\ s <= counter /\ (s >= 1 => s \in appended)
    BY <1>1, <2>2 DEF SequenceOf
  <2>4. Bootstrap(r) = IF s < 1 THEN [cursor |-> r.cursor, offset |-> last.id]
                       ELSE [cursor |-> Larger(r.cursor, s), offset |-> Larger(0, last.id - s)]
    BY <1>4 DEF Bootstrap
  <2> HIDE DEF last, s
  <2>5. CASE s < 1
    BY <1>1, <2>2, <2>4, <2>5 DEF Row, Covers
  <2>6. CASE s >= 1
    <3>1. Bootstrap(r) = [cursor |-> Larger(r.cursor, s), offset |-> Larger(0, last.id - s)]
      BY <2>3, <2>4, <2>6
    <3>2. /\ Larger(r.cursor, s) \in Nat /\ Larger(r.cursor, s) <= counter
          /\ Larger(0, last.id - s) \in Nat
      BY <1>1, <2>2, <2>3 DEF Larger
    <3>3. ASSUME NEW e \in events, e <= Larger(r.cursor, s) PROVE e \in appended
      <4>1. CASE e <= r.cursor
        BY <4>1 DEF Covers
      <4>2. CASE e <= s
        BY <1>1, <2>3, <2>6, <4>2 DEF DeliveryInv, DeliveredPrefix
      <4> QED
        BY <3>3, <4>1, <4>2 DEF Larger
    <3> QED
      BY <3>1, <3>2, <3>3 DEF Row, Covers
  <2> QED
    BY <2>3, <2>5, <2>6
<1> QED
  BY <1>2, <1>3, <1>4

-----------------------------------------------------------------------------
(* One lemma per action                                                    *)

\* A step that touches no table, cursor, stream entry or delivered event, and
\* opens no transaction, keeps the invariant.
LEMMA Frame ==
    ASSUME DeliveryInv, TypeOK',
           UNCHANGED <<counter, created, row, tx>>,
           events' \subseteq events, appended' = appended,
           \A i \in 1 .. Len(stream') : \E j \in 1 .. Len(stream) : stream'[i] = stream[j],
           \A p \in Publishers : pc'[p] = "deliver" => pc[p] = "deliver"
    PROVE  DeliveryInv'
<1>1. CursorsBounded'
  BY DEF DeliveryInv, CursorsBounded
<1>2. CursorCovers'
  BY DEF DeliveryInv, CursorCovers, Covers
<1>3. DeliveredPrefix'
  BY DEF DeliveryInv, DeliveredPrefix
<1>4. StreamAppended'
  BY DEF DeliveryInv, StreamAppended
<1>5. CausalTime'
  BY DEF DeliveryInv, CausalTime
<1> QED
  BY <1>1, <1>2, <1>3, <1>4, <1>5 DEF DeliveryInv

\* The initial database and stream satisfy the invariant.
LEMMA InitInv == Init => DeliveryInv
<1> SUFFICES ASSUME Init PROVE DeliveryInv
  OBVIOUS
<1>1. PICK k \in 0 .. LegacyEvents :
        /\ stream = [i \in 1 .. k |-> [id |-> LegacyStamp + i, seq |-> i, legacy |-> TRUE]]
        /\ appended = 1 .. k
  BY DEF Init
<1>2. LegacyEvents \in Nat /\ LegacyStamp \in Nat
  BY DeliveryConstants
<1>3. stream \in [1 .. k -> Entry]
  BY <1>1, <1>2 DEF Entry
<1>4. stream \in Seq(Entry)
  BY <1>2, <1>3, SeqDef
<1>5. Len(stream) = k
  BY <1>2, <1>3, <1>4, LenProperties
<1>6. TypeOK
  BY <1>1, <1>2, <1>4 DEF Init, TypeOK, Row, NoOffset
<1>7. CursorsBounded
  BY <1>2 DEF Init, CursorsBounded
<1>8. CursorCovers
  BY <1>2 DEF Init, CursorCovers, Covers
<1>9. DeliveredPrefix
  BY <1>1, <1>2 DEF Init, DeliveredPrefix
<1>10. StreamAppended
  BY <1>1, <1>5 DEF StreamAppended
<1>11. CausalTime
  BY <1>2 DEF Init, CausalTime
<1> QED
  BY <1>6, <1>7, <1>8, <1>9, <1>10, <1>11 DEF DeliveryInv

\* persist_event: the new number is above every cursor and every delivered
\* event, and its timestamp after the newest retained one.
LEMMA PersistInv ==
    ASSUME DeliveryInv, NEW p \in Publishers, NEW c \in 0 .. MaxClock, Persist(p, c)
    PROVE  DeliveryInv'
<1>1. /\ counter \in Nat /\ events \in SUBSET (1 .. counter) /\ created \in [1 .. counter -> Nat]
      /\ appended \in SUBSET (1 .. counter) /\ c \in Nat
  BY DeliveryConstants DEF DeliveryInv, TypeOK
<1>2. /\ counter' = counter + 1 /\ events' = events \cup {counter + 1}
      /\ created' = [e \in 1 .. counter + 1 |-> IF e = counter + 1 THEN CreatedAt(c) ELSE created[e]]
      /\ pc' = [pc EXCEPT ![p] = "append"] /\ goal' = [goal EXCEPT ![p] = counter + 1]
      /\ UNCHANGED <<row, stream, tx, appended, cleanups, faults, losses>>
  BY DEF Persist
<1>3. CreatedAt(c) \in Nat /\ \A a \in events : LegacyEvents < a => created[a] < CreatedAt(c)
  <2>1. CASE events = {}
    BY <1>1, <2>1 DEF CreatedAt
  <2>2. CASE events # {}
    <3>1. Max(events) \in events /\ \A a \in events : Max(events) >= a
      BY <1>1, <2>2, MaxIsGreatest
    <3>2. PICK m \in events : m = Max(events)
      BY <3>1
    <3>3. created[m] \in Nat /\ \A a \in events : a \in Nat /\ m \in Nat /\ m >= a
      BY <1>1, <3>1, <3>2
    <3>4. CreatedAt(c) = IF c > created[m] THEN c ELSE created[m] + 1
      BY <2>2, <3>2 DEF CreatedAt, CausallyAfter
    <3>5. CreatedAt(c) \in Nat /\ created[m] < CreatedAt(c)
      BY <1>1, <3>3, <3>4
    <3>6. ASSUME NEW a \in events, LegacyEvents < a PROVE created[a] < CreatedAt(c)
      <4>1. CASE a = m
        BY <3>5, <4>1
      <4>2. CASE a < m
        <5>1. created[a] < created[m] /\ created[a] \in Nat
          BY <1>1, <3>6, <4>2 DEF DeliveryInv, CausalTime
        <5> QED
          BY <3>3, <3>5, <5>1
      <4> QED
        BY <3>3, <4>1, <4>2
    <3> QED
      BY <3>5, <3>6
  <2> QED
    BY <2>1, <2>2
<1> HIDE DEF CreatedAt
<1>4. TypeOK'
  <2>1. events' \in SUBSET (1 .. counter') /\ counter' \in Nat /\ appended' \in SUBSET (1 .. counter')
    BY <1>1, <1>2
  <2>2. created' \in [1 .. counter' -> Nat]
    BY <1>1, <1>2, <1>3
  <2>3. goal' \in [Publishers -> 0 .. counter']
    BY <1>1, <1>2 DEF DeliveryInv, TypeOK
  <2>4. /\ pc' \in [Publishers -> {"idle", "append", "deliver", "publish"}]
        /\ \A a, b \in Publishers : pc'[a] = "deliver" /\ pc'[b] = "deliver" => a = b
    BY <1>2 DEF DeliveryInv, TypeOK
  <2> QED
    BY <1>2, <2>1, <2>2, <2>3, <2>4 DEF DeliveryInv, TypeOK
<1>5. CursorsBounded'
  BY <1>1, <1>2 DEF DeliveryInv, CursorsBounded, TypeOK, Row
<1>6. CursorCovers'
  <2>1. ASSUME NEW r \in Row, r.cursor <= counter, Covers(r) PROVE Covers(r)'
    BY <1>1, <1>2, <2>1 DEF Covers, Row
  <2>2. /\ \A t \in Targets : row[t] \in Row /\ row[t].cursor <= counter /\ Covers(row[t])
        /\ \A q \in Publishers : pc[q] = "deliver" =>
              tx[q] \in Row /\ tx[q].cursor <= counter /\ Covers(tx[q])
    BY DEF DeliveryInv, TypeOK, CursorsBounded, CursorCovers
  <2>3. \A q \in Publishers : pc'[q] = "deliver" => pc[q] = "deliver"
    BY <1>2 DEF DeliveryInv, TypeOK
  <2> QED
    BY <1>2, <2>1, <2>2, <2>3 DEF CursorCovers, Covers
<1>7. DeliveredPrefix'
  BY <1>1, <1>2 DEF DeliveryInv, DeliveredPrefix
<1>8. StreamAppended'
  BY <1>2 DEF DeliveryInv, StreamAppended
<1>9. CausalTime'
  <2>1. ASSUME NEW a \in events', NEW b \in events', LegacyEvents < a, a < b PROVE created'[a] < created'[b]
    <3>1. a \in events /\ a \in 1 .. counter /\ created'[a] = created[a]
      BY <1>1, <1>2, <2>1
    <3>2. CASE b = counter + 1
      BY <1>1, <1>2, <1>3, <2>1, <3>1, <3>2
    <3>3. CASE b \in events
      <4>1. created'[b] = created[b]
        BY <1>1, <1>2, <3>3
      <4> QED
        BY <2>1, <3>1, <3>3, <4>1 DEF DeliveryInv, CausalTime
    <3> QED
      BY <1>2, <3>2, <3>3
  <2> QED
    BY <2>1 DEF CausalTime
<1> QED
  BY <1>4, <1>5, <1>6, <1>7, <1>8, <1>9 DEF DeliveryInv

\* Opening the delivery transaction: the lock was free, and the cursor is the
\* committed one or a bootstrapped one.
LEMMA BeginInv ==
    ASSUME DeliveryInv, NEW p \in Publishers, Begin(p)
    PROVE  DeliveryInv'
<1> DEFINE r == row[TargetOf[p]]
           b == IF r.offset = NoOffset THEN Bootstrap(r) ELSE r
<1>1. r \in Row /\ r.cursor <= counter /\ Covers(r)
  BY DeliveryConstants DEF DeliveryInv, TypeOK, CursorsBounded, CursorCovers
<1>2. b \in Row /\ b.cursor <= counter /\ Covers(b)
  BY <1>1, BootstrapCovers
<1>3. /\ tx' = [tx EXCEPT ![p] = b] /\ pc' = [pc EXCEPT ![p] = "deliver"]
      /\ \A q \in Publishers : pc[q] # "deliver"
      /\ UNCHANGED <<counter, events, created, row, stream, goal, appended, cleanups, faults, losses>>
  BY DEF Begin, WriteLockFree
<1> HIDE DEF r, b
<1>4. TypeOK'
  BY <1>2, <1>3 DEF DeliveryInv, TypeOK
<1>5. CursorsBounded'
  BY <1>2, <1>3 DEF DeliveryInv, CursorsBounded, TypeOK
<1>6. CursorCovers'
  <2>1. \A t \in Targets : Covers(row[t])'
    BY <1>3 DEF DeliveryInv, CursorCovers, Covers
  <2>2. ASSUME NEW q \in Publishers, pc'[q] = "deliver" PROVE Covers(tx[q])'
    <3>1. q = p
      BY <1>3, <2>2 DEF DeliveryInv, TypeOK
    <3>2. tx'[q] = b
      BY <1>3, <3>1 DEF DeliveryInv, TypeOK
    <3> QED
      BY <1>2, <1>3, <3>2 DEF Covers
  <2> QED
    BY <2>1, <2>2 DEF CursorCovers
<1>7. DeliveredPrefix' /\ StreamAppended' /\ CausalTime'
  BY <1>3 DEF DeliveryInv, DeliveredPrefix, StreamAppended, CausalTime
<1> QED
  BY <1>4, <1>5, <1>6, <1>7 DEF DeliveryInv

\* The shape of an XADD that Redis applied: entry e is new in the stream.
Applied(p, e) ==
    /\ stream' \in Trims(Append(stream, EntryFor(tx[p], e)))
    /\ appended' = appended \cup {e}

\* An applied XADD keeps everything but the transaction's cursor in order.
LEMMA AppliedInv ==
    ASSUME DeliveryInv, NEW p \in Publishers, pc[p] = "deliver",
           NEW e \in Pending(p), \A d \in Pending(p) : e <= d, Applied(p, e),
           Fresh(tx[p], e), UNCHANGED <<events, row, counter>>
    PROVE  /\ stream' \in Seq(Entry) /\ appended' \in SUBSET (1 .. counter)
           /\ DeliveredPrefix' /\ StreamAppended'
           /\ \A t \in Targets : Covers(row[t])'
<1>1. e \in events /\ e \in 1 .. counter /\ \A d \in events : d < e => d \in appended
  BY NextRow
<1>2. /\ counter \in Nat /\ appended \in SUBSET (1 .. counter) /\ stream \in Seq(Entry)
      /\ events \in SUBSET (1 .. counter) /\ tx[p].offset \in Int
  BY DEF DeliveryInv, TypeOK, Row, NoOffset
<1>3. TopId(stream) \in Nat
  <2>1. CASE stream = <<>>
    BY <2>1 DEF TopId
  <2>2. CASE stream # <<>>
    <3>1. stream[Len(stream)] \in Entry
      BY <1>2, <2>2, LenProperties, ElementOfSeq, EmptySeq
    <3> QED
      BY <2>2, <3>1 DEF TopId, Entry
  <2> QED
    BY <2>1, <2>2
<1>4. EntryFor(tx[p], e) \in Entry /\ EntryFor(tx[p], e).seq = e
  BY <1>1, <1>2, <1>3 DEF EntryFor, Entry, Fresh, StreamId
<1> DEFINE x == EntryFor(tx[p], e)
<1> HIDE DEF x
<1>5. /\ stream' \in Seq(Entry)
      /\ \A i \in 1 .. Len(stream') : stream'[i] = x \/ \E j \in 1 .. Len(stream) : stream'[i] = stream[j]
  BY <1>2, <1>4, AppendThenTrim DEF Applied, x
<1>6. StreamAppended'
  BY <1>4, <1>5 DEF DeliveryInv, StreamAppended, Applied, x
<1>7. DeliveredPrefix'
  BY <1>1, <1>2 DEF DeliveryInv, DeliveredPrefix, Applied
<1>8. \A t \in Targets : Covers(row[t])'
  BY DEF DeliveryInv, CursorCovers, Covers, Applied
<1> QED
  BY <1>1, <1>2, <1>5, <1>6, <1>7, <1>8 DEF Applied

\* The cursor moves behind e once e and all before it are delivered.
LEMMA CursorMoves ==
    ASSUME DeliveryInv, NEW p \in Publishers, pc[p] = "deliver",
           NEW e \in Pending(p), \A d \in Pending(p) : e <= d,
           tx' = [tx EXCEPT ![p].cursor = e], UNCHANGED <<pc, counter, events>>,
           e \in appended', appended \subseteq appended'
    PROVE  /\ tx' \in [Publishers -> Row]
           /\ \A q \in Publishers : tx'[q].cursor <= counter'
           /\ \A q \in Publishers : pc'[q] = "deliver" => Covers(tx[q])'
<1>1. e \in events /\ e \in 1 .. counter /\ \A d \in events : d < e => d \in appended
  BY NextRow
<1>2. counter \in Nat /\ tx \in [Publishers -> Row] /\ events \in SUBSET (1 .. counter)
  BY DEF DeliveryInv, TypeOK
<1>3. /\ tx' \in [Publishers -> Row] /\ tx'[p].cursor = e
      /\ \A q \in Publishers \ {p} : tx'[q] = tx[q]
  BY <1>1, <1>2 DEF Row
<1>4. \A q \in Publishers : tx'[q].cursor <= counter'
  BY <1>1, <1>2, <1>3 DEF DeliveryInv, CursorsBounded
<1>5. ASSUME NEW q \in Publishers, pc'[q] = "deliver" PROVE Covers(tx[q])'
  <2>1. q = p
    BY <1>5 DEF DeliveryInv, TypeOK
  <2> QED
    BY <1>1, <1>2, <1>3, <2>1 DEF Covers
<1> QED
  BY <1>3, <1>4, <1>5

\* _append of the next row.
LEMMA AppendNextInv ==
    ASSUME DeliveryInv, NEW p \in Publishers, AppendNext(p)
    PROVE  DeliveryInv'
<1>1. /\ pc[p] = "deliver"
      /\ UNCHANGED <<counter, events, created, row, goal, cleanups, faults, losses>>
  BY DEF AppendNext
<1>2. PICK e \in Pending(p) :
        /\ \A d \in Pending(p) : e <= d
        /\ \/ /\ Fresh(tx[p], e)
              /\ stream' \in Trims(Append(stream, EntryFor(tx[p], e)))
              /\ appended' = appended \cup {e}
              /\ tx' = [tx EXCEPT ![p].cursor = e]
              /\ UNCHANGED pc
           \/ /\ ~Fresh(tx[p], e)
              /\ InStream(tx[p], e)
              /\ tx' = [tx EXCEPT ![p].cursor = e]
              /\ UNCHANGED <<stream, appended, pc>>
           \/ /\ ~Fresh(tx[p], e)
              /\ ~InStream(tx[p], e)
              /\ Rollback(p)
              /\ UNCHANGED <<stream, appended, tx>>
  BY DEF AppendNext
<1>3. CausalTime'
  BY <1>1 DEF DeliveryInv, CausalTime
<1>4. CASE Fresh(tx[p], e) /\ Applied(p, e) /\ tx' = [tx EXCEPT ![p].cursor = e] /\ UNCHANGED pc
  <2>1. /\ stream' \in Seq(Entry) /\ appended' \in SUBSET (1 .. counter)
        /\ DeliveredPrefix' /\ StreamAppended'
        /\ \A t \in Targets : Covers(row[t])'
    BY <1>1, <1>2, <1>4, AppliedInv
  <2>2. /\ tx' \in [Publishers -> Row]
        /\ \A q \in Publishers : tx'[q].cursor <= counter'
        /\ \A q \in Publishers : pc'[q] = "deliver" => Covers(tx[q])'
    BY <1>1, <1>2, <1>4, CursorMoves DEF Applied
  <2>3. TypeOK'
    BY <1>1, <1>4, <2>1, <2>2 DEF DeliveryInv, TypeOK
  <2>4. CursorsBounded' /\ CursorCovers'
    BY <1>1, <2>1, <2>2 DEF DeliveryInv, CursorsBounded, CursorCovers
  <2> QED
    BY <1>3, <2>1, <2>3, <2>4 DEF DeliveryInv
<1>5. CASE InStream(tx[p], e) /\ tx' = [tx EXCEPT ![p].cursor = e] /\ UNCHANGED <<stream, appended, pc>>
  <2>1. e \in appended
    BY <1>5 DEF DeliveryInv, StreamAppended, InStream, EntryFor
  <2>2. /\ tx' \in [Publishers -> Row]
        /\ \A q \in Publishers : tx'[q].cursor <= counter'
        /\ \A q \in Publishers : pc'[q] = "deliver" => Covers(tx[q])'
    BY <1>1, <1>2, <1>5, <2>1, CursorMoves
  <2>3. TypeOK'
    BY <1>1, <1>5, <2>2 DEF DeliveryInv, TypeOK
  <2>4. CursorsBounded'
    BY <1>1, <2>2 DEF DeliveryInv, CursorsBounded
  <2>5. CursorCovers'
    BY <1>1, <1>5, <2>2 DEF DeliveryInv, CursorCovers, Covers
  <2>6. DeliveredPrefix' /\ StreamAppended'
    BY <1>1, <1>5 DEF DeliveryInv, DeliveredPrefix, StreamAppended
  <2> QED
    BY <1>3, <2>3, <2>4, <2>5, <2>6 DEF DeliveryInv
<1>6. CASE Rollback(p) /\ UNCHANGED <<stream, appended, tx>>
  <2>1. TypeOK'
    BY <1>1, <1>6 DEF DeliveryInv, TypeOK, Rollback
  <2>2. \A q \in Publishers : pc'[q] = "deliver" => pc[q] = "deliver"
    BY <1>6 DEF DeliveryInv, TypeOK, Rollback
  <2> QED
    BY <1>1, <1>6, <2>1, <2>2, Frame
<1> QED
  BY <1>2, <1>4, <1>5, <1>6 DEF Applied

\* An XADD whose reply is lost is rolled back, but was applied.
LEMMA AppendAmbiguousInv ==
    ASSUME DeliveryInv, NEW p \in Publishers, AppendAmbiguous(p)
    PROVE  DeliveryInv'
<1>1. /\ pc[p] = "deliver" /\ pc' = [pc EXCEPT ![p] = "publish"] /\ faults' = faults + 1
      /\ UNCHANGED <<counter, events, created, row, goal, tx, cleanups, losses>>
  BY DEF AppendAmbiguous, Rollback
<1>2. PICK e \in Pending(p) : (\A d \in Pending(p) : e <= d) /\ Fresh(tx[p], e) /\ Applied(p, e)
  BY DEF AppendAmbiguous, Applied
<1>3. /\ stream' \in Seq(Entry) /\ appended' \in SUBSET (1 .. counter)
      /\ DeliveredPrefix' /\ StreamAppended'
      /\ \A t \in Targets : Covers(row[t])'
  BY <1>1, <1>2, AppliedInv
<1>4. TypeOK'
  BY <1>1, <1>3 DEF DeliveryInv, TypeOK
<1>5. CursorsBounded' /\ CausalTime'
  BY <1>1 DEF DeliveryInv, CursorsBounded, CausalTime
<1>6. \A q \in Publishers : pc'[q] # "deliver"
  BY <1>1 DEF DeliveryInv, TypeOK
<1>7. CursorCovers'
  BY <1>3, <1>6 DEF CursorCovers
<1> QED
  BY <1>3, <1>4, <1>5, <1>7 DEF DeliveryInv

\* The commit: with nothing pending, the goal is covered too.
LEMMA CommitInv ==
    ASSUME DeliveryInv, NEW p \in Publishers, Commit(p)
    PROVE  DeliveryInv'
<1> DEFINE c == Larger(tx[p].cursor, goal[p])
           r == [cursor |-> c, offset |-> tx[p].offset]
           t == TargetOf[p]
<1>1. /\ pc[p] = "deliver" /\ Pending(p) = {} /\ pc' = [pc EXCEPT ![p] = "publish"]
      /\ row' = [row EXCEPT ![t] = r]
      /\ UNCHANGED <<counter, events, created, stream, goal, tx, appended, cleanups, faults, losses>>
  BY DEF Commit
<1>2. /\ counter \in Nat /\ events \in SUBSET (1 .. counter) /\ tx[p] \in Row
      /\ tx[p].cursor \in Nat /\ tx[p].cursor <= counter /\ goal[p] \in 0 .. counter
  BY DEF DeliveryInv, TypeOK, CursorsBounded, Row
<1>3. c \in Nat /\ c <= counter /\ r \in Row /\ r.cursor = c
  BY <1>2 DEF Larger, Row
<1>4. \A e \in events : e <= c => e \in appended
  <2>1. ASSUME NEW e \in events, e <= c PROVE e \in appended
    <3>1. e <= tx[p].cursor
      BY <1>1, <1>2, <2>1 DEF Pending, Larger
    <3> QED
      BY <1>1, <3>1 DEF DeliveryInv, CursorCovers, Covers
  <2> QED
    BY <2>1
<1> HIDE DEF c, r
<1>5. /\ row' \in [Targets -> Row]
      /\ \A u \in Targets : row'[u] = r \/ row'[u] = row[u]
  BY <1>1, <1>3 DEF DeliveryInv, TypeOK
<1>6. TypeOK'
  BY <1>1, <1>5 DEF DeliveryInv, TypeOK
<1>7. CursorsBounded'
  BY <1>1, <1>3, <1>5 DEF DeliveryInv, CursorsBounded
<1>8. CursorCovers'
  <2>1. \A u \in Targets : Covers(row[u])'
    BY <1>1, <1>3, <1>4, <1>5 DEF DeliveryInv, CursorCovers, Covers
  <2>2. \A q \in Publishers : pc'[q] # "deliver"
    BY <1>1 DEF DeliveryInv, TypeOK
  <2> QED
    BY <2>1, <2>2 DEF CursorCovers
<1>9. DeliveredPrefix' /\ StreamAppended' /\ CausalTime'
  BY <1>1 DEF DeliveryInv, DeliveredPrefix, StreamAppended, CausalTime
<1> QED
  BY <1>6, <1>7, <1>8, <1>9 DEF DeliveryInv

\* A step of a publisher that only leaves the delivery, by an error, a crash or
\* the end of the emit.
LEMMA LeaveInv ==
    ASSUME DeliveryInv, NEW p \in Publishers, DeliveryFails(p) \/ Publish(p) \/ Crash(p)
    PROVE  DeliveryInv'
<1>1. /\ UNCHANGED <<counter, created, row, tx, events, appended, stream, goal, cleanups, losses>>
      /\ faults' \in {faults, faults + 1}
      /\ \E l \in {"publish", "idle"} : pc' = [pc EXCEPT ![p] = l]
  BY DEF DeliveryFails, Publish, Crash, Rollback
<1>2. /\ pc' \in [Publishers -> {"idle", "append", "deliver", "publish"}]
      /\ \A q \in Publishers : pc'[q] = "deliver" => pc[q] = "deliver"
  BY <1>1 DEF DeliveryInv, TypeOK
<1>3. TypeOK'
  BY <1>1, <1>2 DEF DeliveryInv, TypeOK
<1> QED
  BY <1>1, <1>2, <1>3, Frame

\* What Redis keeps of the stream is a prefix of it.
LEMMA LossIsPrefix ==
    ASSUME stream \in Seq(Entry), RedisLoses
    PROVE  /\ stream' \in Seq(Entry)
           /\ Len(stream') <= Len(stream)
           /\ \A i \in 1 .. Len(stream') : stream'[i] = stream[i]
<1>1. Len(stream) \in Nat /\ \A i \in 1 .. Len(stream) : stream[i] \in Entry
  BY LenProperties, ElementOfSeq
<1>2. PICK n \in 0 .. Len(stream) - 1 : stream' = SubSeq(stream, 1, n)
  BY DEF RedisLoses
<1>3. /\ SubSeq(stream, 1, n) \in Seq(Entry)
      /\ Len(SubSeq(stream, 1, n)) = IF 1 <= n THEN n - 1 + 1 ELSE 0
      /\ \A i \in 1 .. n - 1 + 1 : SubSeq(stream, 1, n)[i] = stream[1 + i - 1]
  <2>1. n \in Int /\ 1 \in Int /\ \A i \in 1 .. n : stream[i] \in Entry
    BY <1>1, <1>2
  <2> QED
    BY <2>1, SubSeqProperties
<1>4. Len(stream') = n
  BY <1>1, <1>2, <1>3
<1> QED
  BY <1>1, <1>2, <1>3, <1>4

\* A stream that comes back shorter.
LEMMA RedisLosesInv ==
    ASSUME DeliveryInv, RedisLoses
    PROVE  DeliveryInv'
<1>1. /\ stream' \in Seq(Entry) /\ Len(stream') <= Len(stream) /\ Len(stream) \in Nat /\ Len(stream') \in Nat
      /\ \A i \in 1 .. Len(stream') : stream'[i] = stream[i]
  BY LossIsPrefix, LenProperties DEF DeliveryInv, TypeOK
<1>2. losses' = losses + 1
      /\ UNCHANGED <<counter, events, created, row, pc, goal, tx, appended, cleanups, faults>>
  BY DEF RedisLoses
<1>3. TypeOK'
  BY <1>1, <1>2 DEF DeliveryInv, TypeOK
<1> QED
  BY <1>1, <1>2, <1>3, Frame

\* Cleanup only removes rows.
LEMMA CleanupInv ==
    ASSUME DeliveryInv, Cleanup
    PROVE  DeliveryInv'
<1>1. events' \subseteq events /\ cleanups' = cleanups + 1
      /\ UNCHANGED <<counter, created, row, stream, pc, goal, tx, appended, faults, losses>>
  BY DEF Cleanup
<1>2. TypeOK'
  BY <1>1 DEF DeliveryInv, TypeOK
<1> QED
  BY <1>1, <1>2, Frame

\* Every step keeps the invariant.
LEMMA NextInv == DeliveryInv /\ [Next]_vars => DeliveryInv'
<1> SUFFICES ASSUME DeliveryInv, [Next]_vars PROVE DeliveryInv'
  OBVIOUS
<1>1. CASE UNCHANGED vars
  <2>1. TypeOK'
    BY <1>1 DEF vars, DeliveryInv, TypeOK
  <2> QED
    BY <1>1, <2>1, Frame DEF vars
<1>2. CASE RedisLoses
  BY <1>2, RedisLosesInv
<1>3. CASE Cleanup
  BY <1>3, CleanupInv
<1>4. ASSUME NEW p \in Publishers,
             \/ \E c \in 0 .. MaxClock : Persist(p, c)
             \/ Emit(p) \/ AppendAmbiguous(p) \/ DeliveryFails(p) \/ Crash(p)
      PROVE  DeliveryInv'
  <2>1. CASE \E c \in 0 .. MaxClock : Persist(p, c)
    BY <2>1, PersistInv
  <2>2. CASE Begin(p)
    BY <2>2, BeginInv
  <2>3. CASE AppendNext(p)
    BY <2>3, AppendNextInv
  <2>4. CASE Commit(p)
    BY <2>4, CommitInv
  <2>5. CASE AppendAmbiguous(p)
    BY <2>5, AppendAmbiguousInv
  <2>6. CASE DeliveryFails(p) \/ Publish(p) \/ Crash(p)
    BY <2>6, LeaveInv
  <2> QED
    BY <1>4, <2>1, <2>2, <2>3, <2>4, <2>5, <2>6 DEF Emit
<1> QED
  BY <1>1, <1>2, <1>3, <1>4 DEF Next

-----------------------------------------------------------------------------
(* Theorems                                                                *)

\* The inductive invariant of the event rail holds in every reachable state,
\* for every set of publishers and of names they know the stream by.
THEOREM DeliveryInvariance == Spec => []DeliveryInv
  BY InitInv, NextInv, PTL DEF Spec

\* The event tables, the stream and the delivery transactions stay well typed
\* and no two publishers are inside deliver_through's transaction.
THEOREM DeliveryTypeCorrect == Spec => []TypeOK
<1>1. DeliveryInv => TypeOK
  BY DEF DeliveryInv
<1> QED
  BY <1>1, DeliveryInvariance, PTL

\* Whatever fails in deliver_through, no cursor passes a retained event that
\* was never put into the stream.
THEOREM NothingSkipped == Spec => []CursorCovers
<1>1. DeliveryInv => CursorCovers
  BY DEF DeliveryInv
<1> QED
  BY <1>1, DeliveryInvariance, PTL

\* persist_event: timestamps follow the sequence among the retained events,
\* whatever the clocks of the publishers do and whatever cleanup removes.
THEOREM TimeFollowsSequence == Spec => []CausalTime
<1>1. DeliveryInv => CausalTime
  BY DEF DeliveryInv
<1> QED
  BY <1>1, DeliveryInvariance, PTL

\* deliver_through replays predecessors: an event first reaches the stream
\* only after every retained earlier event did.
THEOREM PredecessorsFirst == Spec => AppendsInOrder
<1> DEFINE InOrder == \A e \in appended' \ appended : \A d \in events : d < e => d \in appended
<1>1. DeliveryInv /\ [Next]_vars => [InOrder]_vars
  <2> SUFFICES ASSUME DeliveryInv, Next PROVE InOrder
    BY DEF vars
  <2>1. CASE appended' = appended
    BY <2>1
  <2>2. ASSUME NEW p \in Publishers, AppendNext(p) \/ AppendAmbiguous(p), appended' # appended
        PROVE  InOrder
    <3>1. pc[p] = "deliver" /\ \E e \in Pending(p) :
              (\A d \in Pending(p) : e <= d) /\ appended' = appended \cup {e}
      BY <2>2 DEF AppendNext, AppendAmbiguous
    <3>2. PICK e \in Pending(p) : (\A d \in Pending(p) : e <= d) /\ appended' = appended \cup {e}
      BY <3>1
    <3>3. \A d \in events : d < e => d \in appended
      BY <3>1, <3>2, NextRow
    <3> QED
      BY <3>2, <3>3
  <2>3. appended' = appended \/ \E p \in Publishers : AppendNext(p) \/ AppendAmbiguous(p)
    BY DEF Next, Emit, Persist, Begin, Commit, Publish, DeliveryFails, Crash, RedisLoses, Cleanup
  <2> QED
    BY <2>1, <2>2, <2>3
<1> QED
  BY <1>1, DeliveryInvariance, PTL DEF Spec, AppendsInOrder

-----------------------------------------------------------------------------
(* The order of the stream itself, for a deployment without an old rail    *)

\* Entries are numbered by their events, in strictly ascending order.
Numbered(s) ==
    /\ \A i \in 1 .. Len(s) : s[i].id = s[i].seq /\ ~s[i].legacy
    /\ \A i, j \in 1 .. Len(s) : i < j => s[i].id < s[j].id

\* Every target numbers the stream from 0.
OffsetsZero ==
    /\ \A t \in Targets : row[t].offset \in {NoOffset, 0}
    /\ \A p \in Publishers : pc[p] = "deliver" => tx[p].offset = 0

OrderInv == Numbered(stream) /\ OffsetsZero

\* An accepted XADD keeps the stream numbered, before and after the trim.
LEMMA AppendNumbered ==
    ASSUME stream \in Seq(Entry), Numbered(stream), NEW e \in Nat, NEW r \in Row, r.offset = 0,
           Fresh(r, e), NEW t \in Trims(Append(stream, EntryFor(r, e)))
    PROVE  Numbered(t)
<1> DEFINE x == EntryFor(r, e)
           u == Append(stream, x)
<1>1. x \in Entry /\ x.id = e /\ x.seq = e /\ ~x.legacy
  BY DEF EntryFor, Entry, StreamId
<1>2. Len(stream) \in Nat /\ \A i \in 1 .. Len(stream) : stream[i] \in Entry
  BY LenProperties, ElementOfSeq
<1>3. \A i \in 1 .. Len(stream) : stream[i].id < e
  <2>1. ASSUME NEW i \in 1 .. Len(stream) PROVE stream[i].id < e
    <3>1. stream # <<>> /\ Len(stream) \in 1 .. Len(stream)
      BY <1>2, EmptySeq
    <3>2. stream[Len(stream)].id < e /\ stream[Len(stream)].id \in Nat /\ stream[i].id \in Nat
      BY <1>2, <3>1 DEF Fresh, TopId, StreamId, Entry
    <3>3. i = Len(stream) \/ stream[i].id < stream[Len(stream)].id
      BY <1>2, <3>1 DEF Numbered
    <3> QED
      BY <3>2, <3>3
  <2> QED
    BY <2>1
<1>4. /\ u \in Seq(Entry) /\ Len(u) = Len(stream) + 1
      /\ \A i \in 1 .. Len(stream) : u[i] = stream[i]
      /\ u[Len(stream) + 1] = x
  BY <1>1, AppendProperties
<1> HIDE DEF x, u
<1>5. Numbered(u)
  <2>1. ASSUME NEW i \in 1 .. Len(u) PROVE u[i].id = u[i].seq /\ ~u[i].legacy
    <3>1. CASE i \in 1 .. Len(stream)
      BY <1>4, <3>1 DEF Numbered
    <3>2. CASE i = Len(stream) + 1
      BY <1>1, <1>4, <3>2
    <3> QED
      BY <1>2, <1>4, <3>1, <3>2
  <2>2. ASSUME NEW i \in 1 .. Len(u), NEW j \in 1 .. Len(u), i < j PROVE u[i].id < u[j].id
    <3>1. i \in 1 .. Len(stream) /\ u[i] = stream[i]
      BY <1>2, <1>4, <2>2
    <3>2. CASE j \in 1 .. Len(stream)
      BY <1>4, <2>2, <3>1, <3>2 DEF Numbered
    <3>3. CASE j = Len(stream) + 1
      BY <1>1, <1>3, <1>4, <3>1, <3>3
    <3> QED
      BY <1>2, <1>4, <3>2, <3>3
  <2> QED
    BY <2>1, <2>2 DEF Numbered
<1>6. PICK n \in 0 .. Len(u) : Len(t) = Len(u) - n /\ \A i \in 1 .. Len(t) : t[i] = u[i + n]
  BY <1>4, TrimIsSuffix DEF u, x
<1>7. \A i \in 1 .. Len(t) : i + n \in 1 .. Len(u) /\ t[i] = u[i + n]
  BY <1>2, <1>4, <1>6
<1>8. \A i, j \in 1 .. Len(t) : i < j => i + n < j + n
  BY <1>2, <1>4, <1>6
<1> QED
  BY <1>5, <1>7, <1>8 DEF Numbered

\* Bootstrapping from a numbered stream yields offset 0.
LEMMA BootstrapZero ==
    ASSUME DeliveryInv, OrderInv, NEW r \in Row
    PROVE  Bootstrap(r).offset = 0
<1>1. CASE stream = <<>>
  BY <1>1 DEF Bootstrap
<1>2. CASE stream # <<>>
  <2> DEFINE last == stream[Len(stream)]
  <2>1. Len(stream) \in 1 .. Len(stream) /\ last \in Entry
    BY <1>2, LenProperties, ElementOfSeq, EmptySeq DEF DeliveryInv, TypeOK
  <2>2. last.id = last.seq /\ ~last.legacy /\ last.seq \in appended
    BY <2>1 DEF OrderInv, Numbered, DeliveryInv, StreamAppended
  <2>3. last.seq \in Nat /\ last.seq >= 1
    BY <2>1, <2>2 DEF DeliveryInv, TypeOK, Entry
  <2>4. SequenceOf(last) = last.seq
    BY <2>2 DEF SequenceOf
  <2>5. Bootstrap(r).offset = Larger(0, last.id - last.seq)
    BY <1>2, <2>3, <2>4 DEF Bootstrap
  <2> QED
    BY <2>2, <2>3, <2>5 DEF Larger
<1> QED
  BY <1>1, <1>2

\* Every step keeps the order.
LEMMA NextOrder == DeliveryInv /\ OrderInv /\ [Next]_vars => OrderInv'
<1> SUFFICES ASSUME DeliveryInv, OrderInv, [Next]_vars PROVE OrderInv'
  OBVIOUS
<1>1. CASE UNCHANGED <<row, tx, stream>> /\ \A p \in Publishers : pc'[p] = "deliver" => pc[p] = "deliver"
  BY <1>1 DEF OrderInv, OffsetsZero, Numbered
<1>2. CASE RedisLoses
  <2>1. /\ stream' \in Seq(Entry) /\ Len(stream') <= Len(stream) /\ Len(stream) \in Nat /\ Len(stream') \in Nat
        /\ \A i \in 1 .. Len(stream') : stream'[i] = stream[i]
    BY <1>2, LossIsPrefix, LenProperties DEF DeliveryInv, TypeOK
  <2>2. Numbered(stream)'
    BY <2>1 DEF OrderInv, Numbered
  <2> QED
    BY <1>2, <2>2 DEF OrderInv, OffsetsZero, RedisLoses
<1>3. ASSUME NEW p \in Publishers, Begin(p) PROVE OrderInv'
  <2>1. row[TargetOf[p]] \in Row /\ row[TargetOf[p]].offset \in {NoOffset, 0}
    BY DeliveryConstants DEF DeliveryInv, TypeOK, OrderInv, OffsetsZero
  <2>2. (IF row[TargetOf[p]].offset = NoOffset THEN Bootstrap(row[TargetOf[p]]) ELSE row[TargetOf[p]]).offset = 0
    BY <2>1, BootstrapZero
  <2>3. tx'[p].offset = 0
    BY <1>3, <2>2 DEF Begin, DeliveryInv, TypeOK
  <2>4. \A q \in Publishers : pc'[q] = "deliver" => q = p
    BY <1>3 DEF Begin, WriteLockFree, DeliveryInv, TypeOK
  <2> QED
    BY <1>3, <2>3, <2>4 DEF Begin, OrderInv, OffsetsZero, Numbered
<1>4. ASSUME NEW p \in Publishers, AppendNext(p) \/ AppendAmbiguous(p) PROVE OrderInv'
  <2>1. pc[p] = "deliver" /\ tx[p].offset = 0 /\ tx[p] \in Row /\ stream \in Seq(Entry) /\ UNCHANGED row
    BY <1>4 DEF AppendNext, AppendAmbiguous, OrderInv, OffsetsZero, DeliveryInv, TypeOK
  <2>2. stream' = stream \/ \E e \in Pending(p) :
            Fresh(tx[p], e) /\ stream' \in Trims(Append(stream, EntryFor(tx[p], e)))
    BY <1>4 DEF AppendNext, AppendAmbiguous
  <2>3. \A e \in Pending(p) : e \in Nat
    BY DEF Pending, DeliveryInv, TypeOK
  <2>4. Numbered(stream)'
    <3>1. CASE stream' = stream
      BY <3>1 DEF OrderInv, Numbered
    <3>2. CASE stream' # stream
      <4>1. PICK e \in Pending(p) :
              Fresh(tx[p], e) /\ stream' \in Trims(Append(stream, EntryFor(tx[p], e)))
        BY <2>2, <3>2
      <4>2. Numbered(stream')
        BY <2>1, <2>3, <4>1, AppendNumbered DEF OrderInv
      <4> QED
        BY <4>2 DEF Numbered
    <3> QED
      BY <3>1, <3>2
  <2>5. \A q \in Publishers : pc'[q] = "deliver" => pc[q] = "deliver" /\ tx'[q].offset = tx[q].offset
    BY <1>4 DEF AppendNext, AppendAmbiguous, Rollback, DeliveryInv, TypeOK, Row
  <2> QED
    BY <2>1, <2>4, <2>5 DEF OrderInv, OffsetsZero
<1>5. ASSUME NEW p \in Publishers, Commit(p) PROVE OrderInv'
  <2>1. tx[p].offset = 0
    BY <1>5 DEF Commit, OrderInv, OffsetsZero
  <2>2. \A t \in Targets : row'[t].offset \in {NoOffset, 0}
    BY <1>5, <2>1 DEF Commit, OrderInv, OffsetsZero, DeliveryInv, TypeOK
  <2>3. \A q \in Publishers : pc'[q] = "deliver" => pc[q] = "deliver"
    BY <1>5 DEF Commit, DeliveryInv, TypeOK
  <2> QED
    BY <1>5, <2>2, <2>3 DEF Commit, OrderInv, OffsetsZero, Numbered
<1>6. ASSUME NEW p \in Publishers,
             (\E c \in 0 .. MaxClock : Persist(p, c)) \/ DeliveryFails(p) \/ Publish(p) \/ Crash(p)
      PROVE  OrderInv'
  BY <1>1, <1>6 DEF Persist, DeliveryFails, Publish, Crash, Rollback, DeliveryInv, TypeOK
<1>7. CASE UNCHANGED vars \/ Cleanup
  BY <1>1, <1>7 DEF vars, Cleanup
<1> QED
  BY <1>2, <1>3, <1>4, <1>5, <1>6, <1>7 DEF Next, Emit

\* Without an old rail to continue, the stream is strictly ordered by sequence
\* whatever is lost, replayed, trimmed or cleaned up, and under however many
\* names the publishers know it.
THEOREM StreamInOrder == (LegacyEvents = 0) => (Spec => []StreamOrdered)
<1> SUFFICES ASSUME LegacyEvents = 0 PROVE Spec => []StreamOrdered
  OBVIOUS
<1>1. Init => OrderInv
  <2> SUFFICES ASSUME Init PROVE OrderInv
    OBVIOUS
  <2>1. stream = [i \in 1 .. 0 |-> [id |-> LegacyStamp + i, seq |-> i, legacy |-> TRUE]]
    BY DEF Init
  <2>2. stream \in Seq(Entry)
    BY InitInv DEF DeliveryInv, TypeOK
  <2>3. Len(stream) = 0
    BY <2>1, <2>2, LenProperties
  <2> QED
    BY <2>3 DEF Init, OrderInv, OffsetsZero, Numbered
<1>2. OrderInv => StreamOrdered
  BY DEF OrderInv, Numbered, StreamOrdered
<1> QED
  BY <1>1, <1>2, NextOrder, DeliveryInvariance, PTL DEF Spec

-----------------------------------------------------------------------------
(* Resuming, on top of what the old rail left                              *)

\* Redis lost nothing, no more events were numbered than a trim keeps, and no
\* row of the old rail was cleaned up.
Undisturbed ==
    /\ losses = 0
    /\ counter <= Maxlen
    /\ LegacyEvents = 0 \/ cleanups = 0

\* The stream is everything delivered, numbered from o, and nothing is cut off.
NumberedFrom(o) ==
    /\ \A i \in 1 .. Len(stream) :
          /\ stream[i].id = o + stream[i].seq /\ i <= stream[i].seq
          /\ stream[i].legacy => LegacyEvents # 0 /\ (cleanups = 0 => stream[i].seq \in events)
    /\ \A i, j \in 1 .. Len(stream) : i < j => stream[i].seq < stream[j].seq
    /\ \A e \in appended : \E i \in 1 .. Len(stream) : stream[i].seq = e
    /\ Len(stream) = 0 => o = 0

\* A cursor under this numbering stands behind the entries of the old rail.
Behind(r) == \A i \in 1 .. Len(stream) : stream[i].legacy => stream[i].seq <= r.cursor

CursorsFrom(o) ==
    /\ \A t \in Targets : row[t].offset # NoOffset => row[t].offset = o /\ Behind(row[t])
    /\ \A p \in Publishers : pc[p] = "deliver" => tx[p].offset = o /\ Behind(tx[p])

ResumeInv == \E o \in Nat : NumberedFrom(o) /\ CursorsFrom(o)

\* A stream no longer than Maxlen is not trimmed.
LEMMA NotTrimmed ==
    ASSUME NEW s \in Seq(Entry), NEW t \in Trims(s), Len(s) <= Maxlen
    PROVE  /\ t \in Seq(Entry) /\ Len(t) = Len(s)
           /\ \A i \in 1 .. Len(s) : t[i] = s[i]
<1>1. PICK n \in 0 .. Len(s) : t = SubSeq(s, n + 1, Len(s)) /\ (n = 0 \/ Len(s) - n >= Maxlen)
  BY DEF Trims
<1>2. Len(s) \in Nat /\ Maxlen \in Nat /\ \A i \in 1 .. Len(s) : s[i] \in Entry
  BY DeliveryConstants, LenProperties, ElementOfSeq
<1>3. n = 0
  BY <1>1, <1>2
<1>4. t = SubSeq(s, 1, Len(s))
  BY <1>1, <1>3
<1>5. /\ t \in Seq(Entry)
      /\ Len(t) = IF 1 <= Len(s) THEN Len(s) - 1 + 1 ELSE 0
      /\ \A i \in 1 .. Len(s) - 1 + 1 : t[i] = s[1 + i - 1]
  BY <1>2, <1>4, SubSeqProperties
<1> QED
  BY <1>2, <1>5

\* Entries carry sequence numbers.
LEMMA EntryHasSequence ==
    ASSUME DeliveryInv, NEW i \in 1 .. Len(stream)
    PROVE  stream[i].seq \in Nat /\ stream[i].seq >= 1
<1>1. stream[i].seq \in appended
  BY DEF DeliveryInv, StreamAppended
<1>2. appended \in SUBSET (1 .. counter) /\ counter \in Nat
  BY DEF DeliveryInv, TypeOK
<1>3. \A s \in appended : s \in Nat /\ s >= 1
  BY <1>2
<1> QED
  BY <1>1, <1>3, Zenon

\* The newest entry of a stream that is not empty.
LEMMA Newest ==
    ASSUME DeliveryInv, stream # <<>>
    PROVE  /\ Len(stream) \in Nat /\ Len(stream) \in 1 .. Len(stream)
           /\ stream[Len(stream)] \in Entry /\ stream[Len(stream)].seq \in appended
           /\ stream[Len(stream)].seq \in Nat /\ stream[Len(stream)].seq >= 1
           /\ TopId(stream) = stream[Len(stream)].id
<1>1. Len(stream) \in Nat /\ Len(stream) \in 1 .. Len(stream) /\ stream[Len(stream)] \in Entry
  BY LenProperties, ElementOfSeq, EmptySeq DEF DeliveryInv, TypeOK
<1>2. stream[Len(stream)].seq \in appended
  BY <1>1 DEF DeliveryInv, StreamAppended
<1>3. TopId(stream) = stream[Len(stream)].id
  BY DEF TopId
<1> QED
  BY <1>1, <1>2, <1>3, EntryHasSequence

\* Either the stream takes the id of a retained event above the cursor, or it
\* holds that event's entry.
LEMMA CanResume ==
    ASSUME DeliveryInv, NEW o \in Nat, NumberedFrom(o), NEW r \in Row, r.offset = o, Behind(r),
           NEW e \in events, r.cursor < e
    PROVE  Fresh(r, e) \/ InStream(r, e)
<1>1. e \in Nat /\ e >= 1 /\ r.cursor \in Nat /\ StreamId(r, e) = o + e
  BY DEF DeliveryInv, TypeOK, Row, StreamId
<1>2. CASE stream = <<>>
  BY <1>1, <1>2 DEF Fresh, TopId
<1>3. CASE stream # <<>> /\ ~ Fresh(r, e)
  <2> DEFINE last == stream[Len(stream)]
  <2>1. last.id = o + last.seq /\ last.seq \in Nat /\ last.seq \in appended /\ TopId(stream) = last.id
    BY <1>3, Newest DEF NumberedFrom
  <2>2. e <= last.seq
    BY <1>1, <1>3, <2>1 DEF Fresh
  <2>3. e \in appended
    BY <1>1, <2>1, <2>2 DEF DeliveryInv, DeliveredPrefix
  <2>4. PICK i \in 1 .. Len(stream) : stream[i].seq = e
    BY <2>3 DEF NumberedFrom
  <2>5. stream[i] \in Entry /\ stream[i].id = o + e
    BY <2>4, ElementOfSeq DEF NumberedFrom, DeliveryInv, TypeOK
  <2>6. stream[i].legacy = FALSE
    BY <1>1, <2>4, <2>5 DEF Behind, Entry
  <2>7. stream[i] = EntryFor(r, e)
    BY <1>1, <2>4, <2>5, <2>6 DEF EntryFor, Entry
  <2> QED
    BY <2>7 DEF InStream
<1> QED
  BY <1>2, <1>3

\* An applied XADD continues the numbering.
LEMMA AppliedNumbered ==
    ASSUME DeliveryInv, NEW o \in Nat, NumberedFrom(o), counter <= Maxlen,
           NEW p \in Publishers, pc[p] = "deliver", tx[p].offset = o,
           NEW e \in Pending(p), Applied(p, e), Fresh(tx[p], e), UNCHANGED <<events, cleanups>>
    PROVE  /\ NumberedFrom(o)'
           /\ \A i \in 1 .. Len(stream') :
                 stream'[i].legacy => i \in 1 .. Len(stream) /\ stream'[i] = stream[i]
<1> DEFINE x == EntryFor(tx[p], e)
           u == Append(stream, x)
<1>1. /\ counter \in Nat /\ Maxlen \in Nat /\ e \in 1 .. counter /\ e \in Nat
      /\ stream \in Seq(Entry) /\ Len(stream) \in Nat
      /\ \A i \in 1 .. Len(stream) : stream[i] \in Entry
  BY DeliveryConstants, LenProperties, ElementOfSeq DEF Pending, DeliveryInv, TypeOK
<1>2. x \in Entry /\ x.id = o + e /\ x.seq = e /\ x.legacy = FALSE
  BY <1>1 DEF EntryFor, Entry, StreamId
<1>3. \A i \in 1 .. Len(stream) : stream[i].seq \in Nat /\ stream[i].seq < e
  <2> SUFFICES ASSUME NEW i \in 1 .. Len(stream) PROVE stream[i].seq \in Nat /\ stream[i].seq < e
    OBVIOUS
  <2>1. stream # <<>>
    BY <1>1, EmptySeq
  <2> DEFINE n == Len(stream)
  <2>2. n \in 1 .. Len(stream) /\ stream[n].seq \in Nat /\ TopId(stream) = stream[n].id
    BY <2>1, Newest
  <2>3. stream[n].id = o + stream[n].seq
    BY <2>2 DEF NumberedFrom
  <2>4. stream[n].seq < e
    BY <1>1, <2>2, <2>3 DEF Fresh, StreamId
  <2>5. i = n \/ stream[i].seq < stream[n].seq
    BY <1>1, <2>2 DEF NumberedFrom
  <2>6. stream[i].seq \in Nat
    BY <1>1 DEF Entry
  <2> QED
    BY <1>1, <2>2, <2>4, <2>5, <2>6
<1>4. Len(stream) + 1 <= e
  <2>1. CASE Len(stream) = 0
    BY <1>1, <2>1
  <2>2. CASE Len(stream) # 0
    <3>1. Len(stream) \in 1 .. Len(stream)
      BY <1>1, <2>2
    <3>2. Len(stream) <= stream[Len(stream)].seq
      BY <3>1 DEF NumberedFrom
    <3> QED
      BY <1>1, <1>3, <3>1, <3>2
  <2> QED
    BY <2>1, <2>2
<1>5. /\ u \in Seq(Entry) /\ Len(u) = Len(stream) + 1
      /\ \A i \in 1 .. Len(stream) : u[i] = stream[i]
      /\ u[Len(stream) + 1] = x
  BY <1>1, <1>2, AppendProperties
<1>6. stream' \in Trims(u)
  BY DEF Applied
<1> HIDE DEF x, u
<1>7. Len(u) <= Maxlen
  BY <1>1, <1>4, <1>5
<1>8. Len(stream') = Len(u) /\ \A i \in 1 .. Len(u) : stream'[i] = u[i]
  BY <1>5, <1>6, <1>7, NotTrimmed
<1>9. /\ Len(stream') = Len(stream) + 1 /\ stream'[Len(stream) + 1] = x
      /\ \A i \in 1 .. Len(stream) : stream'[i] = stream[i]
  BY <1>1, <1>5, <1>8
<1>10. \A i \in 1 .. Len(stream') : i \in 1 .. Len(stream) \/ i = Len(stream) + 1
  BY <1>1, <1>9
<1>11. ASSUME NEW i \in 1 .. Len(stream')
       PROVE  /\ stream'[i].id = o + stream'[i].seq /\ i <= stream'[i].seq
              /\ stream'[i].legacy => LegacyEvents # 0 /\ (cleanups' = 0 => stream'[i].seq \in events')
              /\ stream'[i].legacy => i \in 1 .. Len(stream) /\ stream'[i] = stream[i]
  <2>1. CASE i \in 1 .. Len(stream)
    BY <1>9, <2>1 DEF NumberedFrom
  <2>2. CASE i = Len(stream) + 1
    BY <1>2, <1>4, <1>9, <2>2
  <2> QED
    BY <1>10, <2>1, <2>2
<1>12. ASSUME NEW i \in 1 .. Len(stream'), NEW j \in 1 .. Len(stream'), i < j
       PROVE  stream'[i].seq < stream'[j].seq
  <2>1. i \in 1 .. Len(stream)
    BY <1>1, <1>9, <1>12
  <2>2. CASE j \in 1 .. Len(stream)
    BY <1>9, <1>12, <2>1, <2>2 DEF NumberedFrom
  <2>3. CASE j = Len(stream) + 1
    BY <1>2, <1>3, <1>9, <2>1, <2>3
  <2> QED
    BY <1>10, <2>2, <2>3
<1>13. ASSUME NEW d \in appended' PROVE \E i \in 1 .. Len(stream') : stream'[i].seq = d
  <2>1. CASE d \in appended
    <3>1. PICK i \in 1 .. Len(stream) : stream[i].seq = d
      BY <2>1 DEF NumberedFrom
    <3> QED
      BY <1>1, <1>9, <3>1
  <2>2. CASE d = e
    <3>1. Len(stream) + 1 \in 1 .. Len(stream')
      BY <1>1, <1>9
    <3> QED
      BY <1>2, <1>9, <2>2, <3>1
  <2> QED
    BY <1>13, <2>1, <2>2 DEF Applied
<1>14. Len(stream') # 0
  BY <1>1, <1>9
<1> QED
  BY <1>11, <1>12, <1>13, <1>14 DEF NumberedFrom

\* Bootstrapping takes up the numbering and stands behind the old rail.
LEMMA BootstrapContinues ==
    ASSUME DeliveryInv, Undisturbed, NEW o \in Nat, NumberedFrom(o), NEW r \in Row
    PROVE  Bootstrap(r).offset = o /\ Behind(Bootstrap(r))
<1>1. CASE stream = <<>>
  BY <1>1 DEF Bootstrap, NumberedFrom, Behind
<1>2. CASE stream # <<>>
  <2> DEFINE last == stream[Len(stream)]
  <2>1. /\ Len(stream) \in Nat /\ Len(stream) \in 1 .. Len(stream)
        /\ last.seq \in Nat /\ last.seq >= 1 /\ last.id = o + last.seq
        /\ last.legacy => LegacyEvents # 0 /\ (cleanups = 0 => last.seq \in events)
    BY <1>2, Newest DEF NumberedFrom
  <2>2. SequenceOf(last) = last.seq
    BY <2>1 DEF SequenceOf, Undisturbed
  <2>3. r.cursor \in Nat
    BY DEF Row
  <2>4. Bootstrap(r) = [cursor |-> Larger(r.cursor, last.seq), offset |-> Larger(0, last.id - last.seq)]
    BY <1>2, <2>1, <2>2 DEF Bootstrap
  <2> HIDE DEF last
  <2>5. Bootstrap(r).offset = o /\ Bootstrap(r).cursor \in Nat /\ last.seq <= Bootstrap(r).cursor
    BY <2>1, <2>3, <2>4 DEF Larger
  <2>6. ASSUME NEW i \in 1 .. Len(stream) PROVE stream[i].seq <= Bootstrap(r).cursor
    <3>1. stream[i].seq \in Nat
      BY EntryHasSequence
    <3>2. i = Len(stream) \/ stream[i].seq < last.seq
      BY <2>1 DEF NumberedFrom, last
    <3> QED
      BY <2>1, <2>5, <3>1, <3>2 DEF last
  <2> QED
    BY <2>5, <2>6 DEF Behind
<1> QED
  BY <1>1, <1>2

\* Nothing comes back: what was disturbed stays so.
LEMMA UndisturbedBefore ==
    ASSUME DeliveryInv, [Next]_vars, Undisturbed'
    PROVE  Undisturbed /\ ~ RedisLoses /\ (LegacyEvents = 0 \/ ~ Cleanup)
<1>1. counter \in Nat /\ losses \in Nat /\ cleanups \in Nat /\ Maxlen \in Nat
  BY DeliveryConstants DEF DeliveryInv, TypeOK
<1> DEFINE Grows == /\ losses' \in Nat /\ counter' \in Nat /\ cleanups' \in Nat
                    /\ losses <= losses' /\ counter <= counter' /\ cleanups <= cleanups'
<1>2. ASSUME NEW p \in Publishers, Emit(p) \/ AppendAmbiguous(p) \/ DeliveryFails(p) \/ Crash(p) PROVE Grows
  <2>1. UNCHANGED <<losses, counter, cleanups>>
    BY <1>2 DEF Emit, Begin, AppendNext, Commit, Publish, AppendAmbiguous, DeliveryFails, Crash
  <2> QED
    BY <1>1, <2>1
<1>3. Grows
  <2>1. ASSUME NEW p \in Publishers, NEW c \in 0 .. MaxClock, Persist(p, c) PROVE Grows
    BY <1>1, <2>1 DEF Persist
  <2>2. CASE RedisLoses \/ Cleanup \/ UNCHANGED vars
    BY <1>1, <2>2 DEF RedisLoses, Cleanup, vars
  <2> HIDE DEF Grows
  <2> QED
    BY <1>2, <2>1, <2>2 DEF Next
<1>4. Undisturbed
  BY <1>1, <1>3 DEF Undisturbed
<1>5. ~ RedisLoses
  BY <1>1 DEF RedisLoses, Undisturbed
<1>6. Cleanup => cleanups' # 0
  BY <1>1 DEF Cleanup
<1> QED
  BY <1>4, <1>5, <1>6 DEF Undisturbed

\* Every undisturbed step keeps numbering and cursors.
LEMMA NextResume ==
    ASSUME DeliveryInv, ResumeInv, [Next]_vars, Undisturbed'
    PROVE  ResumeInv'
<1>1. PICK o \in Nat : NumberedFrom(o) /\ CursorsFrom(o)
  BY DEF ResumeInv
<1> SUFFICES NumberedFrom(o)' /\ CursorsFrom(o)'
  BY DEF ResumeInv
<1>2. Undisturbed /\ ~ RedisLoses /\ (LegacyEvents = 0 \/ ~ Cleanup)
  BY UndisturbedBefore
<1>3. ASSUME UNCHANGED <<stream, appended>>, events \subseteq events', UNCHANGED cleanups PROVE NumberedFrom(o)'
  BY <1>1, <1>3 DEF NumberedFrom
<1>4. ASSUME UNCHANGED <<stream, row, tx>>, \A p \in Publishers : pc'[p] = "deliver" => pc[p] = "deliver"
      PROVE  CursorsFrom(o)'
  BY <1>1, <1>4 DEF CursorsFrom, Behind
<1>5. ASSUME NEW p \in Publishers,
             (\E c \in 0 .. MaxClock : Persist(p, c)) \/ DeliveryFails(p) \/ Publish(p) \/ Crash(p)
      PROVE  NumberedFrom(o)' /\ CursorsFrom(o)'
  <2>1. UNCHANGED <<stream, appended, row, tx, cleanups>> /\ events \subseteq events'
    BY <1>5 DEF Persist, DeliveryFails, Publish, Crash
  <2>2. \A q \in Publishers : pc'[q] = "deliver" => pc[q] = "deliver"
    BY <1>5 DEF Persist, DeliveryFails, Publish, Crash, Rollback, DeliveryInv, TypeOK
  <2> QED
    BY <1>3, <1>4, <2>1, <2>2
<1>6. ASSUME NEW p \in Publishers, Begin(p) PROVE NumberedFrom(o)' /\ CursorsFrom(o)'
  <2>1. PICK r : r = row[TargetOf[p]]
    OBVIOUS
  <2>2. r \in Row /\ TargetOf[p] \in Targets /\ (r.offset # NoOffset => r.offset = o /\ Behind(r))
    BY <1>1, <2>1, DeliveryConstants DEF DeliveryInv, TypeOK, CursorsFrom
  <2>3. PICK b : b = IF r.offset = NoOffset THEN Bootstrap(r) ELSE r
    OBVIOUS
  <2>4. b.offset = o /\ Behind(b)
    BY <1>1, <1>2, <2>2, <2>3, BootstrapContinues
  <2>5. UNCHANGED <<stream, appended, row, events, cleanups>>
    BY <1>6 DEF Begin
  <2>6. tx' = [tx EXCEPT ![p] = b]
    BY <1>6, <2>1, <2>3 DEF Begin
  <2>7. \A q \in Publishers : pc'[q] = "deliver" => q = p
    BY <1>6 DEF Begin, WriteLockFree, DeliveryInv, TypeOK
  <2>8. tx'[p] = b
    BY <2>6 DEF DeliveryInv, TypeOK
  <2>9. CursorsFrom(o)'
    BY <1>1, <2>4, <2>5, <2>7, <2>8 DEF CursorsFrom, Behind
  <2> QED
    BY <1>3, <2>5, <2>9
<1>7. ASSUME NEW p \in Publishers, AppendNext(p) \/ AppendAmbiguous(p)
      PROVE  NumberedFrom(o)' /\ CursorsFrom(o)'
  <2>1. pc[p] = "deliver" /\ tx[p].offset = o /\ Behind(tx[p]) /\ tx \in [Publishers -> Row]
    BY <1>1, <1>7 DEF AppendNext, AppendAmbiguous, CursorsFrom, DeliveryInv, TypeOK
  <2>2. UNCHANGED <<row, events, cleanups>>
    BY <1>7 DEF AppendNext, AppendAmbiguous
  <2>3. PICK e \in Pending(p) :
          /\ \/ Fresh(tx[p], e) /\ Applied(p, e)
             \/ UNCHANGED <<stream, appended>>
          /\ \/ tx' = [tx EXCEPT ![p].cursor = e] /\ UNCHANGED pc
             \/ UNCHANGED tx /\ Rollback(p)
    BY <1>7 DEF AppendNext, AppendAmbiguous, Applied
  <2>4. /\ NumberedFrom(o)'
        /\ \A i \in 1 .. Len(stream') :
              stream'[i].legacy => i \in 1 .. Len(stream) /\ stream'[i] = stream[i]
    <3>1. CASE UNCHANGED <<stream, appended>>
      BY <1>3, <2>2, <3>1
    <3>2. CASE Fresh(tx[p], e) /\ Applied(p, e)
      BY <1>1, <1>2, <2>1, <2>2, <3>2, AppliedNumbered DEF Undisturbed
    <3> QED
      BY <2>3, <3>1, <3>2
  <2>5. e \in Nat /\ tx[p].cursor \in Nat /\ tx[p].cursor < e
    BY <2>1 DEF Pending, DeliveryInv, TypeOK, Row
  <2>6. ASSUME NEW q \in Publishers, pc'[q] = "deliver"
        PROVE  /\ pc[q] = "deliver" /\ tx'[q].offset = tx[q].offset
               /\ tx'[q].cursor \in Nat /\ tx[q].cursor \in Nat /\ tx[q].cursor <= tx'[q].cursor
    BY <2>1, <2>3, <2>5, <2>6 DEF Rollback, DeliveryInv, TypeOK, Row
  <2>7. ASSUME NEW q \in Publishers, pc'[q] = "deliver" PROVE tx'[q].offset = o /\ Behind(tx[q])'
    <3>1. tx[q].offset = o /\ Behind(tx[q])
      BY <1>1, <2>6, <2>7 DEF CursorsFrom
    <3>2. ASSUME NEW i \in 1 .. Len(stream'), stream'[i].legacy PROVE stream'[i].seq <= tx'[q].cursor
      <4>1. i \in 1 .. Len(stream) /\ stream'[i] = stream[i]
        BY <2>4, <3>2
      <4>2. stream[i].seq \in Nat /\ stream[i].seq <= tx[q].cursor
        BY <3>1, <3>2, <4>1, EntryHasSequence DEF Behind
      <4> QED
        BY <2>6, <2>7, <4>1, <4>2
    <3> QED
      BY <2>6, <2>7, <3>1, <3>2 DEF Behind
  <2>8. \A t \in Targets : Behind(row[t]) => Behind(row[t])'
    BY <2>2, <2>4 DEF Behind
  <2> QED
    BY <1>1, <2>2, <2>4, <2>7, <2>8 DEF CursorsFrom
<1>8. ASSUME NEW p \in Publishers, Commit(p) PROVE NumberedFrom(o)' /\ CursorsFrom(o)'
  <2>0. tx[p].cursor \in Nat /\ goal[p] \in Nat
    BY DEF DeliveryInv, TypeOK, Row
  <2>1. /\ pc[p] = "deliver" /\ tx[p].offset = o /\ Behind(tx[p]) /\ tx[p].cursor \in Nat /\ goal[p] \in Nat
        /\ TargetOf[p] \in Targets
    BY <1>1, <1>8, <2>0, DeliveryConstants DEF Commit, CursorsFrom
  <2>2. PICK c : c = Larger(tx[p].cursor, goal[p])
    OBVIOUS
  <2>3. c \in Nat /\ tx[p].cursor <= c
    BY <2>1, <2>2 DEF Larger
  <2>4. /\ UNCHANGED <<stream, appended, events, cleanups, tx>>
        /\ row' = [row EXCEPT ![TargetOf[p]] = [cursor |-> c, offset |-> o]]
    BY <1>8, <2>1, <2>2 DEF Commit
  <2>5. \A i \in 1 .. Len(stream) : stream[i].legacy => stream[i].seq <= c
    <3> SUFFICES ASSUME NEW i \in 1 .. Len(stream), stream[i].legacy PROVE stream[i].seq <= c
      OBVIOUS
    <3>1. stream[i].seq \in Nat /\ stream[i].seq <= tx[p].cursor
      BY <2>1, EntryHasSequence DEF Behind
    <3> QED
      BY <2>1, <2>3, <3>1
  <2>6. \A q \in Publishers : pc'[q] = "deliver" => pc[q] = "deliver"
    BY <1>8 DEF Commit, DeliveryInv, TypeOK
  <2>7. /\ row'[TargetOf[p]] = [cursor |-> c, offset |-> o]
        /\ \A t \in Targets \ {TargetOf[p]} : row'[t] = row[t]
    BY <2>1, <2>4 DEF DeliveryInv, TypeOK
  <2>8. \A t \in Targets : row'[t].offset # NoOffset => row'[t].offset = o /\ Behind(row[t])'
    BY <1>1, <2>4, <2>5, <2>7 DEF CursorsFrom, Behind
  <2>9. CursorsFrom(o)'
    BY <1>1, <2>4, <2>6, <2>8 DEF CursorsFrom, Behind
  <2> QED
    BY <1>3, <2>4, <2>9
<1>9. CASE Cleanup
  <2>1. UNCHANGED <<stream, appended, row, tx, pc>> /\ LegacyEvents = 0
    BY <1>2, <1>9 DEF Cleanup
  <2>2. NumberedFrom(o)'
    BY <1>1, <2>1 DEF NumberedFrom
  <2> QED
    BY <1>4, <2>1, <2>2
<1>10. CASE UNCHANGED vars
  BY <1>3, <1>4, <1>10 DEF vars
<1> QED
  BY <1>2, <1>5, <1>6, <1>7, <1>8, <1>9, <1>10 DEF Next, Emit

\* What the old rail left is numbered from its stamp, an empty stream from 0.
LEMMA InitResume == Init => ResumeInv
<1> SUFFICES ASSUME Init PROVE ResumeInv
  OBVIOUS
<1>1. PICK k \in 0 .. LegacyEvents :
        /\ stream = [i \in 1 .. k |-> [id |-> LegacyStamp + i, seq |-> i, legacy |-> TRUE]]
        /\ appended = 1 .. k
  BY DEF Init
<1>2. stream \in Seq(Entry) /\ LegacyEvents \in Nat /\ LegacyStamp \in Nat
  BY InitInv, DeliveryConstants DEF DeliveryInv, TypeOK
<1>3. k \in Nat /\ Len(stream) = k
  BY <1>1, <1>2, LenProperties
<1>4. PICK o \in Nat : o = IF k = 0 THEN 0 ELSE LegacyStamp
  BY <1>2
<1>5. NumberedFrom(o)
  <2>1. \A i \in 1 .. k : stream[i] = [id |-> LegacyStamp + i, seq |-> i, legacy |-> TRUE] /\ i <= LegacyEvents
    BY <1>1, <1>2
  <2>2. \A i \in 1 .. Len(stream) : stream[i].id = o + stream[i].seq /\ i <= stream[i].seq
    BY <1>2, <1>3, <1>4, <2>1
  <2>3. \A i \in 1 .. Len(stream) : LegacyEvents # 0 /\ stream[i].seq \in events
    BY <1>2, <1>3, <2>1 DEF Init
  <2>4. \A i, j \in 1 .. Len(stream) : i < j => stream[i].seq < stream[j].seq
    BY <1>3, <2>1
  <2>5. \A e \in appended : \E i \in 1 .. Len(stream) : stream[i].seq = e
    BY <1>1, <1>3, <2>1
  <2> QED
    BY <1>3, <1>4, <2>2, <2>3, <2>4, <2>5 DEF NumberedFrom
<1>6. CursorsFrom(o)
  BY DEF Init, CursorsFrom
<1> QED
  BY <1>5, <1>6 DEF ResumeInv

\* The invariant behind resuming, as long as nothing disturbed the stream.
LEMMA ResumeInvariance == Spec => [](DeliveryInv /\ (Undisturbed => ResumeInv))
<1>1. DeliveryInv /\ (Undisturbed => ResumeInv) /\ [Next]_vars => (Undisturbed => ResumeInv)'
  BY NextResume, UndisturbedBefore
<1> QED
  BY <1>1, InitResume, DeliveryInvariance, PTL DEF Spec

\* As long as Redis has lost nothing, no trim can have cut the stream and the
\* rows of the old rail are there, delivery can resume from every committed
\* cursor and inside every open transaction, under however many names the
\* publishers know the stream and whatever failed before: the next retained
\* event is accepted or found.
THEOREM DeliveryResumes == Spec => [](Undisturbed => Resumable)
<1>1. DeliveryInv /\ (Undisturbed => ResumeInv) => (Undisturbed => Resumable)
  <2> SUFFICES ASSUME DeliveryInv, ResumeInv,
                      NEW r \in IF WriteLockFree THEN CommittedCursors ELSE OpenCursors,
                      NEW e \in events, r.offset # NoOffset, r.cursor < e
               PROVE  Fresh(r, e) \/ InStream(r, e)
    BY DEF Resumable
  <2>1. PICK o \in Nat : NumberedFrom(o) /\ CursorsFrom(o)
    BY DEF ResumeInv
  <2>2. r \in Row /\ r.offset = o /\ Behind(r)
    BY <2>1 DEF CommittedCursors, OpenCursors, CursorsFrom, DeliveryInv, TypeOK
  <2> QED
    BY <2>1, <2>2, CanResume
<1> QED
  BY <1>1, ResumeInvariance, PTL

\* Under the same conditions the stream continues the old rail in order.
THEOREM ContinuedInOrder == Spec => [](Undisturbed => StreamOrdered)
<1>1. (Undisturbed => ResumeInv) => (Undisturbed => StreamOrdered)
  BY DEF ResumeInv, NumberedFrom, StreamOrdered
<1> QED
  BY <1>1, ResumeInvariance, PTL
=============================================================================
