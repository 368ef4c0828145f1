---------------------------- MODULE CircleProofs ----------------------------
(***************************************************************************)
(* What Circle promises, for any number of devices, chain ids, chains,      *)
(* notes and announcements and for any limits.                             *)
(***************************************************************************)
EXTENDS Circle, FiniteSetTheorems, SequenceTheorems, TLAPS

-----------------------------------------------------------------------------
(* Lemmas on the record.                                                     *)

\* A chain id is in the record once at most: byChain is unambiguous.
Distinct(rec) == \A i, j \in DOMAIN rec : rec[i].id = rec[j].id => i = j

\* A set of naturals has a smallest element.
LEMMA Smallest ==
  ASSUME NEW S \in SUBSET Nat, S # {}
  PROVE  \E x \in S : \A y \in S : x <= y
<1>1. PICK x \in S : \A y \in S : ~ (<<y, x>> \in OpToRel(<, Nat))
  BY WFMin, NatLessThanWellFounded
<1>2. \A y \in S : ~ (y < x)
  BY <1>1 DEF OpToRel
<1> QED BY <1>2

\* keepSkipped keeps some of what it has and is given, and max_skipped at most.
LEMMA KeepSkippedBound ==
  ASSUME NEW skipped \in SUBSET Steps, NEW passed \in SUBSET Steps
  PROVE  /\ KeepSkipped(skipped, passed) \subseteq skipped \cup passed
         /\ Cardinality(KeepSkipped(skipped, passed)) <= MaxSkipped
<1> DEFINE all == skipped \cup passed
           kept == KeepSkipped(skipped, passed)
           Above(s) == {t \in all : t > s}
<1>1. kept = {s \in all : Cardinality(Above(s)) < MaxSkipped}
  BY DEF KeepSkipped
<1>2. IsFiniteSet(all) /\ all \subseteq Nat
  <2>1. all \subseteq 0 .. MaxSteps /\ IsFiniteSet(0 .. MaxSteps)
    BY FS_Interval, CircleAssumption DEF Steps
  <2>2. IsFiniteSet(all)
    BY <2>1, FS_Subset
  <2> QED BY <2>1, <2>2
<1>3. kept \subseteq all
  BY <1>1
<1>4. CASE kept = {}
  BY <1>3, <1>4, FS_EmptySet, CircleAssumption
<1>5. CASE kept # {}
  <2>1. PICK s \in kept : \A t \in kept : s <= t
    BY <1>2, <1>3, <1>5, Smallest
  <2>2. kept \ {s} \subseteq Above(s)
    BY <1>2, <1>3, <2>1
  <2>3. IsFiniteSet(kept) /\ IsFiniteSet(Above(s))
    BY <1>2, <1>3, FS_Subset
  <2>4. Cardinality(kept \ {s}) = Cardinality(kept) - 1
    BY <2>1, <2>3, FS_RemoveElement
  <2>5. Cardinality(kept \ {s}) <= Cardinality(Above(s))
    BY <2>2, <2>3, FS_Subset
  <2>6. Cardinality(Above(s)) < MaxSkipped
    BY <1>1, <2>1
  <2>7. Cardinality(kept) \in Nat /\ Cardinality(Above(s)) \in Nat
    BY <2>3, FS_CardinalityType
  <2> QED BY <1>3, <2>4, <2>5, <2>6, <2>7, CircleAssumption
<1> QED BY <1>4, <1>5

\* Newest is a prefix, no longer than asked for.
LEMMA NewestFacts ==
  ASSUME NEW rec \in Seq(Member), NEW n \in Nat
  PROVE  /\ Newest(rec, n) \in Seq(Member)
         /\ Len(Newest(rec, n)) <= n
         /\ Len(Newest(rec, n)) <= Len(rec)
         /\ \A i \in 1 .. Len(Newest(rec, n)) : Newest(rec, n)[i] = rec[i]
<1> DEFINE k == IF Len(rec) <= n THEN Len(rec) ELSE n
<1>1. k \in Nat /\ k <= n /\ k <= Len(rec)
  BY LenProperties
<1>2. \A i \in 1 .. k : rec[i] \in Member
  BY <1>1, ElementOfSeq
<1> HIDE DEF k
<1>3. /\ SubSeq(rec, 1, k) \in Seq(Member)
      /\ Len(SubSeq(rec, 1, k)) = k
      /\ \A i \in 1 .. k : SubSeq(rec, 1, k)[i] = rec[i]
  BY <1>1, <1>2, SubSeqProperties
<1>4. Newest(rec, n) = SubSeq(rec, 1, k)
  BY DEF Newest, k
<1> QED BY <1>1, <1>3, <1>4

\* Others is the record without the member under that id.
LEMMA OthersFacts ==
  ASSUME NEW rec \in Seq(Member), NEW id, Distinct(rec)
  PROVE  LET others == Others(rec, id) IN
         /\ others \in Seq(Member)
         /\ Len(others) <= Len(rec)
         /\ Distinct(others)
         /\ \A i \in DOMAIN others :
              others[i].id # id /\ \E j \in DOMAIN rec : others[i] = rec[j]
<1> DEFINE others == Others(rec, id)
<1>1. DOMAIN rec = 1 .. Len(rec) /\ Len(rec) \in Nat
  BY LenProperties
<1>2. CASE ~ Knows(rec, id)
  BY <1>1, <1>2 DEF Others, Knows, Distinct
<1>3. CASE Knows(rec, id)
  <2> DEFINE k == CHOOSE i \in DOMAIN rec : IsByChain(rec, i, id)
  <2>1. \E i \in DOMAIN rec : IsByChain(rec, i, id)
    BY <1>1, <1>3 DEF Knows, IsByChain, Distinct
  <2>2. k \in 1 .. Len(rec) /\ rec[k].id = id
    BY <1>1, <2>1 DEF IsByChain
  <2>3. others = RemoveAt(rec, k)
    BY <1>3 DEF Others
  <2> HIDE DEF k, others
  <2> DEFINE front == SubSeq(rec, 1, k - 1)
             back == SubSeq(rec, k + 1, Len(rec))
  <2>4. /\ front \in Seq(Member) /\ Len(front) = k - 1
        /\ \A i \in 1 .. k - 1 : front[i] = rec[i]
    <3>1. \A i \in 1 .. k - 1 : rec[i] \in Member
      BY <1>1, <2>2, ElementOfSeq
    <3> QED BY <1>1, <2>2, <3>1, SubSeqProperties
  <2>5. /\ back \in Seq(Member) /\ Len(back) = Len(rec) - k
        /\ \A i \in 1 .. Len(rec) - k : back[i] = rec[k + i]
    <3>1. \A i \in k + 1 .. Len(rec) : rec[i] \in Member
      BY <1>1, <2>2, ElementOfSeq
    <3>2. /\ back \in Seq(Member)
          /\ Len(back) = IF k + 1 <= Len(rec) THEN Len(rec) - (k + 1) + 1 ELSE 0
          /\ \A i \in 1 .. Len(rec) - (k + 1) + 1 : back[i] = rec[(k + 1) + i - 1]
      BY <1>1, <2>2, <3>1, SubSeqProperties
    <3> HIDE DEF front, back
    <3>3. Len(back) = Len(rec) - k
      <4>1. k \in Nat /\ k <= Len(rec) /\ Len(rec) \in Nat
        BY <1>1, <2>2
      <4>2. CASE k + 1 <= Len(rec)
        BY <3>2, <4>1, <4>2
      <4>3. CASE ~ (k + 1 <= Len(rec))
        <5>1. k = Len(rec) /\ Len(back) = 0
          BY <3>2, <4>1, <4>3
        <5> QED BY <4>1, <5>1
      <4> QED BY <4>2, <4>3
    <3>4. ASSUME NEW i \in 1 .. Len(rec) - k
          PROVE  back[i] = rec[k + i]
      <4>1. i \in 1 .. Len(rec) - (k + 1) + 1 /\ (k + 1) + i - 1 = k + i
        BY <1>1, <2>2
      <4> QED BY <3>2, <4>1
    <3> QED BY <3>2, <3>3, <3>4
  <2>6. others = front \o back
    BY <2>3 DEF RemoveAt
  <2> HIDE DEF front, back
  <2>7. /\ others \in Seq(Member) /\ Len(others) = Len(rec) - 1
        /\ \A i \in 1 .. Len(rec) - 1 : others[i] = rec[IF i < k THEN i ELSE i + 1]
    <3>1. /\ others \in Seq(Member) /\ Len(others) = Len(rec) - 1
          /\ \A i \in 1 .. Len(rec) - 1 :
               others[i] = IF i <= k - 1 THEN front[i] ELSE back[i - (k - 1)]
      <4>1. /\ front \o back \in Seq(Member)
            /\ Len(front \o back) = Len(front) + Len(back)
            /\ \A i \in 1 .. Len(front) + Len(back) :
                 (front \o back)[i] =
                   IF i <= Len(front) THEN front[i] ELSE back[i - Len(front)]
        BY <2>4, <2>5, ConcatProperties
      <4>2. Len(front) + Len(back) = Len(rec) - 1
        BY <1>1, <2>2, <2>4, <2>5
      <4> QED BY <2>4, <2>6, <4>1, <4>2
    <3>2. ASSUME NEW i \in 1 .. Len(rec) - 1
          PROVE  others[i] = rec[IF i < k THEN i ELSE i + 1]
      <4>1. CASE i < k
        BY <1>1, <2>2, <2>4, <3>1, <4>1
      <4>2. CASE ~ (i < k)
        <5>1. /\ i - (k - 1) \in 1 .. Len(rec) - k /\ k + (i - (k - 1)) = i + 1
              /\ ~ (i <= k - 1)
          BY <1>1, <2>2, <4>2
        <5>2. others[i] = back[i - (k - 1)]
          BY <3>1, <5>1
        <5>3. back[i - (k - 1)] = rec[k + (i - (k - 1))]
          BY <2>5, <5>1
        <5> QED BY <4>2, <5>1, <5>2, <5>3
      <4> QED BY <4>1, <4>2
    <3> QED BY <3>1, <3>2
  <2>8. DOMAIN others = 1 .. Len(rec) - 1
    BY <1>1, <2>7, LenProperties
  <2>9. ASSUME NEW i \in DOMAIN others
        PROVE  \E j \in DOMAIN rec : j # k /\ others[i] = rec[j]
    <3> DEFINE j == IF i < k THEN i ELSE i + 1
    <3>1. i \in 1 .. Len(rec) - 1 /\ j \in DOMAIN rec /\ j # k
      BY <1>1, <2>2, <2>8
    <3>2. others[i] = rec[j]
      BY <2>7, <3>1
    <3> QED BY <3>1, <3>2
  <2>10. \A i \in DOMAIN others : others[i].id # id
    BY <1>1, <2>2, <2>9 DEF Distinct
  <2>11. Distinct(others)
    <3> SUFFICES ASSUME NEW i \in DOMAIN others, NEW j \in DOMAIN others,
                        others[i].id = others[j].id
                 PROVE  i = j
      BY DEF Distinct
    <3> DEFINE at(x) == IF x < k THEN x ELSE x + 1
    <3>1. at(i) \in DOMAIN rec /\ at(j) \in DOMAIN rec
      BY <1>1, <2>2, <2>8
    <3>2. others[i] = rec[at(i)] /\ others[j] = rec[at(j)]
      BY <2>7, <2>8
    <3>3. at(i) = at(j)
      BY <3>1, <3>2 DEF Distinct
    <3> QED BY <1>1, <2>2, <2>8, <3>3
  <2> QED BY <1>1, <2>7, <2>9, <2>10, <2>11 DEF others
<1> QED BY <1>2, <1>3

\* Circle.admit: what it leaves are members that were there and, at the front,
\* the announced chain if it was not there.
LEMMA AdmittedFacts ==
  ASSUME NEW rec \in Seq(Member), NEW m \in Member, Distinct(rec)
  PROVE  LET out == Admitted(rec, m) IN
         /\ out \in Seq(Member)
         /\ Len(out) \in 1 .. MaxMembers
         /\ Distinct(out)
         /\ \A i \in DOMAIN out :
              \/ \E j \in DOMAIN rec : out[i] = rec[j]
              \/ /\ out[i] = m
                 /\ \A j \in DOMAIN rec : ~ (rec[j].id = m.id /\ rec[j].key = m.key)
<1> DEFINE out == Admitted(rec, m)
           known == {i \in DOMAIN rec : rec[i].id = m.id /\ rec[i].key = m.key}
           kept == IF known = {} THEN m ELSE rec[CHOOSE i \in known : TRUE]
           others == Others(rec, m.id)
           rest == Newest(others, MaxMembers - 1)
<1>1. DOMAIN rec = 1 .. Len(rec) /\ Len(rec) \in Nat
  BY LenProperties
<1>2. /\ kept \in Member /\ kept.id = m.id
      /\ \/ \E j \in DOMAIN rec : kept = rec[j]
         \/ kept = m /\ \A j \in DOMAIN rec : ~ (rec[j].id = m.id /\ rec[j].key = m.key)
  <2>1. CASE known = {}
    BY <2>1
  <2>2. CASE known # {}
    <3>1. (CHOOSE i \in known : TRUE) \in known
      BY <2>2
    <3>2. \A i \in known : rec[i] \in Member /\ rec[i].id = m.id
      BY <1>1, ElementOfSeq
    <3> QED BY <2>2, <3>1, <3>2
  <2> QED BY <2>1, <2>2
<1>3. out = <<kept>> \o rest
  BY DEF Admitted
<1>4. /\ others \in Seq(Member) /\ Distinct(others)
      /\ \A i \in DOMAIN others :
           others[i].id # m.id /\ \E j \in DOMAIN rec : others[i] = rec[j]
  BY OthersFacts
<1> HIDE DEF kept, others, known
<1>5. /\ rest \in Seq(Member) /\ Len(rest) <= MaxMembers - 1 /\ Len(rest) <= Len(others)
      /\ \A i \in 1 .. Len(rest) : rest[i] = others[i]
  BY <1>4, NewestFacts, CircleAssumption
<1>6. /\ Len(others) \in Nat /\ DOMAIN others = 1 .. Len(others) /\ Len(rest) \in Nat
  BY <1>4, <1>5, LenProperties
<1> HIDE DEF rest, out
<1>7. /\ out \in Seq(Member) /\ Len(out) = Len(rest) + 1
      /\ out[1] = kept
      /\ \A i \in 2 .. Len(out) : out[i] = others[i - 1]
  <2>1. <<kept>> \in Seq(Member) /\ Len(<<kept>>) = 1 /\ <<kept>>[1] = kept
    BY <1>2
  <2>2. /\ out \in Seq(Member) /\ Len(out) = 1 + Len(rest)
        /\ \A i \in 1 .. 1 + Len(rest) :
             out[i] = IF i <= 1 THEN <<kept>>[i] ELSE rest[i - 1]
    BY <1>3, <1>5, <2>1, ConcatProperties
  <2> QED BY <1>5, <1>6, <2>1, <2>2
<1>8. DOMAIN out = 1 .. Len(out)
  BY <1>7, LenProperties
<1>9. \A i \in 2 .. Len(out) : i - 1 \in DOMAIN others
  BY <1>5, <1>6, <1>7
<1>10. Distinct(out)
  <2> SUFFICES ASSUME NEW i \in DOMAIN out, NEW j \in DOMAIN out, out[i].id = out[j].id
               PROVE  i = j
    BY DEF Distinct
  <2>1. CASE i = 1 \/ j = 1
    <3>1. out[i].id = m.id /\ out[j].id = m.id
      BY <1>2, <1>7, <2>1
    <3>2. \A x \in 2 .. Len(out) : out[x].id # m.id
      BY <1>4, <1>7, <1>9
    <3> QED BY <1>6, <1>7, <1>8, <3>1, <3>2
  <2>2. CASE i # 1 /\ j # 1
    <3>1. i \in 2 .. Len(out) /\ j \in 2 .. Len(out)
      BY <1>6, <1>7, <1>8, <2>2
    <3>2. i - 1 = j - 1
      BY <1>4, <1>7, <1>9, <3>1 DEF Distinct
    <3> QED BY <3>1, <3>2
  <2> QED BY <2>1, <2>2
<1>11. \A i \in DOMAIN out :
         \/ \E j \in DOMAIN rec : out[i] = rec[j]
         \/ out[i] = m /\ \A j \in DOMAIN rec : ~ (rec[j].id = m.id /\ rec[j].key = m.key)
  <2> TAKE i \in DOMAIN out
  <2>1. CASE i = 1
    BY <1>2, <1>7, <2>1
  <2>2. CASE i # 1
    <3>1. i \in 2 .. Len(out)
      BY <1>6, <1>7, <1>8, <2>2
    <3> QED BY <1>4, <1>7, <1>9, <3>1
  <2> QED BY <2>1, <2>2
<1> QED BY <1>5, <1>6, <1>7, <1>10, <1>11, CircleAssumption DEF out

\* One member of one device's record is replaced.
LEMMA OneMember ==
  ASSUME NEW rs \in [Devices -> Seq(Member)], NEW d \in Devices,
         NEW i \in DOMAIN rs[d], NEW m \in Member
  PROVE  LET out == [rs EXCEPT ![d][i] = m] IN
         /\ out \in [Devices -> Seq(Member)]
         /\ \A e \in Devices : Len(out[e]) = Len(rs[e]) /\ DOMAIN out[e] = DOMAIN rs[e]
         /\ \A e \in Devices : \A j \in DOMAIN rs[e] :
              out[e][j] = IF e = d /\ j = i THEN m ELSE rs[e][j]
<1> DEFINE out == [rs EXCEPT ![d][i] = m]
           one == [rs[d] EXCEPT ![i] = m]
<1>1. out = [rs EXCEPT ![d] = one]
  OBVIOUS
<1>2. rs[d] \in Seq(Member) /\ DOMAIN rs[d] = 1 .. Len(rs[d])
  BY LenProperties
<1>3. /\ one \in Seq(Member) /\ Len(one) = Len(rs[d])
      /\ \A j \in 1 .. Len(rs[d]) : one[j] = IF j = i THEN m ELSE rs[d][j]
  BY <1>2, ExceptSeq
<1>4. DOMAIN one = DOMAIN rs[d]
  BY <1>2, <1>3, LenProperties
<1> HIDE DEF out, one
<1>5. out \in [Devices -> Seq(Member)]
  BY <1>1, <1>3
<1>6. \A e \in Devices : out[e] = IF e = d THEN one ELSE rs[e]
  BY <1>1
<1> QED BY <1>2, <1>3, <1>4, <1>5, <1>6 DEF out

-----------------------------------------------------------------------------
(* Types and limits.                                                         *)

\* A signing key has one chain id, wherever it turns up: announce draws the two
\* together, and a record holds announced chains only.
Named ==
  /\ \A a \in announces :
       /\ a.key <= made
       /\ \A b \in announces : a.key = b.key => a.id = b.id
  /\ \A d \in Devices : \A i \in DOMAIN record[d] :
       \E a \in announces : a.id = record[d][i].id /\ a.key = record[d][i].key

\* A note lies behind the link that sealed it, wherever the sender holds it with
\* its signing secret.
NotesBehind ==
  \A n \in notes :
    /\ n.key <= made /\ n.step < MaxSteps
    /\ \A i \in DOMAIN record[Sender] :
         record[Sender][i].signs /\ record[Sender][i].key = n.key =>
           n.step < record[Sender][i].step

\* What the types need to be inductive: seal's step stays below MaxSteps for the
\* notes that open, and a new chain's key is new.
TypeInv ==
  /\ TypeOK
  /\ RecordWellFormed
  /\ Named
  /\ IsFiniteSet(notes)
  /\ NotesBehind

LEMMA MemberTypes ==
  ASSUME TypeInv, NEW d \in Devices, NEW i \in DOMAIN record[d]
  PROVE  /\ record[d][i] \in Member /\ record[d][i].key \in Keys
         /\ record[d][i].step \in Int /\ Steps \subseteq Int
         /\ record[d][i].key \in HeldKeys(record[d])
<1>1. record[d] \in Seq(Member)
  BY DEF TypeInv, TypeOK
<1>2. record[d][i] \in Member
  BY <1>1, LenProperties, ElementOfSeq
<1> QED BY <1>2 DEF Member, Steps, HeldKeys

LEMMA FirstMember ==
  ASSUME TypeInv, NEW d \in Devices, record[d] # <<>>
  PROVE  1 \in DOMAIN record[d]
<1>1. record[d] \in Seq(Member)
  BY DEF TypeInv, TypeOK
<1> QED BY <1>1

\* No two members of a record have one signing key.
LEMMA OneKey ==
  ASSUME TypeInv, NEW d \in Devices, NEW i \in DOMAIN record[d],
         NEW j \in DOMAIN record[d], record[d][i].key = record[d][j].key
  PROVE  i = j
<1>1. PICK a \in announces : a.id = record[d][i].id /\ a.key = record[d][i].key
  BY DEF TypeInv, Named
<1>2. PICK b \in announces : b.id = record[d][j].id /\ b.key = record[d][j].key
  BY DEF TypeInv, Named
<1>3. record[d][i].id = record[d][j].id
  BY <1>1, <1>2 DEF TypeInv, Named
<1> QED BY <1>3 DEF TypeInv, RecordWellFormed

\* A member whose kept key at step s is used up.
Spent(m, s) == [m EXCEPT !.skipped = @ \ {s}]

\* What yieldFor makes of the member that opens a note behind its link.
LEMMA BehindStep ==
  ASSUME TypeInv, NEW d \in Devices, NEW n \in notes, NEW i \in DOMAIN record[d],
         n.step \in record[d][i].skipped
  PROVE  LET old == record[d][i]
             m == Spent(old, n.step)
         IN
         /\ old \in Member /\ m \in Member
         /\ m.id = old.id /\ m.key = old.key /\ m.step = old.step /\ m.signs = old.signs
         /\ m.skipped = old.skipped \ {n.step}
         /\ Cardinality(m.skipped) <= MaxSkipped
         /\ \A s \in m.skipped : s < m.step
<1> DEFINE old == record[d][i]
           m == Spent(old, n.step)
<1>1. old \in Member
  BY MemberTypes
<1>2. m = [id |-> old.id, key |-> old.key, step |-> old.step,
           skipped |-> old.skipped \ {n.step}, signs |-> old.signs]
  BY <1>1 DEF Spent, Member
<1>3. m \in Member
  BY <1>1, <1>2 DEF Member
<1>4. IsFiniteSet(old.skipped)
  <2>1. old.skipped \in SUBSET Steps
    BY <1>1 DEF Member
  <2>2. IsFiniteSet(Steps)
    BY FS_Interval, CircleAssumption DEF Steps
  <2> QED BY <2>1, <2>2, FS_Subset
<1>5. Cardinality(old.skipped) <= MaxSkipped /\ \A s \in old.skipped : s < old.step
  BY DEF TypeInv, RecordWellFormed
<1>6. Cardinality(old.skipped \ {n.step}) <= MaxSkipped
  <2>1. Cardinality(old.skipped) \in Nat
    BY <1>4, FS_CardinalityType
  <2>2. Cardinality(old.skipped \ {n.step}) = Cardinality(old.skipped) - 1
    BY <1>4, FS_RemoveElement
  <2> QED BY <1>5, <2>1, <2>2, CircleAssumption
<1> QED BY <1>1, <1>2, <1>3, <1>5, <1>6

\* And of the one that opens a note at its link or ahead of it.
LEMMA AheadStep ==
  ASSUME TypeInv, NEW d \in Devices, NEW n \in notes, NEW i \in DOMAIN record[d],
         record[d][i].step <= n.step
  PROVE  LET old == record[d][i]
             kept == KeepSkipped(old.skipped, Passed(old, n))
             m == [id |-> old.id, key |-> old.key, step |-> n.step + 1, skipped |-> kept,
                   signs |-> old.signs]
         IN
         /\ old \in Member /\ m \in Member
         /\ m.id = old.id /\ m.key = old.key /\ m.signs = old.signs
         /\ m.step = n.step + 1 /\ m.skipped = kept
         /\ Passed(old, n) \subseteq Steps
         /\ kept \subseteq old.skipped \cup Passed(old, n)
         /\ Cardinality(m.skipped) <= MaxSkipped
         /\ \A s \in m.skipped : s < m.step
<1> DEFINE old == record[d][i]
           kept == KeepSkipped(old.skipped, Passed(old, n))
           m == [id |-> old.id, key |-> old.key, step |-> n.step + 1, skipped |-> kept,
                 signs |-> old.signs]
<1>1. old \in Member
  BY MemberTypes
<1>2. /\ old.step \in 0 .. MaxSteps /\ old.skipped \subseteq 0 .. MaxSteps
      /\ n.step \in 0 .. MaxSteps /\ n.step < MaxSteps
      /\ \A s \in old.skipped : s < old.step
  BY <1>1 DEF TypeInv, TypeOK, NotesBehind, RecordWellFormed, Member, Note, Steps
<1>3. Passed(old, n) \subseteq Steps
  BY <1>2, CircleAssumption DEF Passed, Steps
<1>4. kept \subseteq old.skipped \cup Passed(old, n) /\ Cardinality(kept) <= MaxSkipped
  BY <1>2, <1>3, KeepSkippedBound DEF Steps
<1> HIDE DEF kept
<1>6. n.step + 1 \in Steps /\ kept \in SUBSET Steps
  BY <1>2, <1>3, <1>4, CircleAssumption DEF Steps
<1>8. m \in Member
  BY <1>1, <1>6 DEF Member
<1>9. \A s \in kept : s < n.step + 1
  BY <1>2, <1>4, CircleAssumption DEF Passed
<1> QED BY <1>1, <1>3, <1>4, <1>8, <1>9 DEF kept

\* In every record, a member continues one that was there, or it was announced and
\* has no signing secret.
Continues ==
  \A e \in Devices : \A i \in DOMAIN record'[e] :
    LET new == record'[e][i] IN
    \/ \E j \in DOMAIN record[e] :
         /\ new.id = record[e][j].id /\ new.key = record[e][j].key
         /\ new.signs = record[e][j].signs /\ record[e][j].step <= new.step
    \/ ~ new.signs /\ \E a \in announces : a.id = new.id /\ a.key = new.key

\* A record that changes so, and as RecordWellFormed asks, keeps the invariant.
LEMMA DeviceStep ==
  ASSUME TypeInv, UNCHANGED <<announces, notes, made>>,
         record' \in [Devices -> Seq(Member)], RecordWellFormed', Continues,
         used' \in [Devices -> SUBSET (Keys \X Steps)],
         joined' \in [Devices -> SUBSET (Keys \X Steps)],
         trimmed' \in [Devices -> SUBSET (Keys \X Steps)],
         evicted' \in [Devices -> SUBSET Keys],
         last' \in Outcome
  PROVE  TypeInv'
<1>1. TypeOK'
  BY DEF TypeInv, TypeOK
<1>2. Named'
  <2> SUFFICES ASSUME NEW e \in Devices, NEW i \in DOMAIN record'[e]
               PROVE  \E a \in announces : /\ a.id = record'[e][i].id
                                           /\ a.key = record'[e][i].key
    BY DEF TypeInv, Named
  <2> QED BY DEF TypeInv, Named, Continues
<1>3. NotesBehind'
  <2> SUFFICES ASSUME NEW n \in notes, NEW i \in DOMAIN record'[Sender],
                      record'[Sender][i].signs, record'[Sender][i].key = n.key
               PROVE  n.step < record'[Sender][i].step
    BY DEF TypeInv, NotesBehind
  <2>1. PICK j \in DOMAIN record[Sender] :
          /\ record'[Sender][i].key = record[Sender][j].key
          /\ record'[Sender][i].signs = record[Sender][j].signs
          /\ record[Sender][j].step <= record'[Sender][i].step
    BY CircleAssumption DEF Continues
  <2>2. n.step < record[Sender][j].step
    BY <2>1 DEF TypeInv, NotesBehind
  <2>3. record[Sender][j].step \in Int /\ n.step \in Int
    BY MemberTypes, CircleAssumption DEF TypeInv, TypeOK, Note
  <2>4. record'[Sender][i].step \in Int
    <3>1. record'[Sender] \in Seq(Member)
      BY CircleAssumption
    <3>2. record'[Sender][i] \in Member
      BY <3>1, LenProperties, ElementOfSeq
    <3> QED BY <3>2 DEF Member, Steps
  <2> QED BY <2>1, <2>2, <2>3, <2>4
<1> QED BY <1>1, <1>2, <1>3 DEF TypeInv

\* So does a step that leaves the records as they are.
LEMMA QuietStep ==
  ASSUME TypeInv, UNCHANGED <<announces, notes, made, record, used, joined, trimmed, evicted>>,
         last' \in Outcome
  PROVE  TypeInv'
<1>1. Continues
  <2>1. \A e \in Devices : \A i \in DOMAIN record[e] : record[e][i].step <= record[e][i].step
    <3> TAKE e \in Devices
    <3> TAKE i \in DOMAIN record[e]
    <3>1. record[e][i].step \in Int
      BY MemberTypes
    <3> QED BY <3>1
  <2> QED BY <2>1 DEF Continues
<1> QED BY <1>1, DeviceStep DEF TypeInv, TypeOK, RecordWellFormed

LEMMA TypeInvInit == Init => TypeInv
<1> SUFFICES ASSUME Init PROVE TypeInv
  OBVIOUS
<1>1. TypeOK
  BY CircleAssumption DEF Init, TypeOK, Outcome
<1>2. RecordWellFormed
  BY CircleAssumption DEF Init, RecordWellFormed
<1>3. IsFiniteSet(notes) /\ Named /\ NotesBehind
  BY FS_EmptySet DEF Init, Named, NotesBehind
<1> QED BY <1>1, <1>2, <1>3 DEF TypeInv

\* A record in which a device has stored another one.
LEMMA StoreTypes ==
  ASSUME TypeInv, NEW d \in Devices, NEW rec \in Seq(Member), Store(d, rec)
  PROVE  /\ record' \in [Devices -> Seq(Member)]
         /\ \A e \in Devices : record'[e] = IF e = d THEN rec ELSE record[e]
         /\ joined' \in [Devices -> SUBSET (Keys \X Steps)]
         /\ evicted' \in [Devices -> SUBSET Keys]
<1>1. \A r \in Seq(Member) : \A i \in DOMAIN r : r[i].key \in Keys /\ r[i].step \in Steps
  <2>1. \A r \in Seq(Member) : \A i \in DOMAIN r : r[i] \in Member
    BY LenProperties, ElementOfSeq
  <2>2. \A m \in Member : m.key \in Keys /\ m.step \in Steps
    BY DEF Member
  <2> QED BY <2>1, <2>2
<1>2. record[d] \in Seq(Member)
  BY DEF TypeInv, TypeOK
<1>3. HeldKeys(record[d]) \subseteq Keys /\ HeldKeys(rec) \subseteq Keys
  BY <1>1, <1>2 DEF HeldKeys
<1>4. {<<rec[i].key, rec[i].step>> :
         i \in {j \in DOMAIN rec : rec[j].key \notin HeldKeys(record[d])}}
        \subseteq Keys \X Steps
  BY <1>1
<1> QED BY <1>3, <1>4 DEF Store, TypeInv, TypeOK

\* A device stores a record of members it had and of m, whose key it had not.
TakesIn(d, out, m) ==
  /\ m \in Member /\ m.skipped = {}
  /\ out \in Seq(Member) /\ Len(out) <= MaxMembers /\ Distinct(out)
  /\ \A i \in DOMAIN out :
       \/ \E j \in DOMAIN record[d] : out[i] = record[d][j]
       \/ out[i] = m /\ m.key \notin HeldKeys(record[d])
  /\ Store(d, out)
  /\ UNCHANGED <<used, trimmed>>

LEMMA TakesInTypes ==
  ASSUME TypeInv, NEW d \in Devices, NEW out, NEW m, TakesIn(d, out, m)
  PROVE  /\ record' \in [Devices -> Seq(Member)]
         /\ RecordWellFormed'
         /\ \A e \in Devices : record'[e] = IF e = d THEN out ELSE record[e]
         /\ used' \in [Devices -> SUBSET (Keys \X Steps)]
         /\ joined' \in [Devices -> SUBSET (Keys \X Steps)]
         /\ trimmed' \in [Devices -> SUBSET (Keys \X Steps)]
         /\ evicted' \in [Devices -> SUBSET Keys]
<1>1. /\ m \in Member /\ m.skipped = {}
      /\ out \in Seq(Member) /\ Len(out) <= MaxMembers /\ Distinct(out)
      /\ \A i \in DOMAIN out : out[i] = m \/ \E j \in DOMAIN record[d] : out[i] = record[d][j]
      /\ Store(d, out) /\ UNCHANGED <<used, trimmed>>
  BY DEF TakesIn
<1>2. /\ record' \in [Devices -> Seq(Member)]
      /\ \A e \in Devices : record'[e] = IF e = d THEN out ELSE record[e]
      /\ joined' \in [Devices -> SUBSET (Keys \X Steps)]
      /\ evicted' \in [Devices -> SUBSET Keys]
  BY <1>1, StoreTypes
<1>3. \A i \in DOMAIN out :
        Cardinality(out[i].skipped) <= MaxSkipped /\ \A s \in out[i].skipped : s < out[i].step
  <2>1. Cardinality(m.skipped) <= MaxSkipped /\ \A s \in m.skipped : s < m.step
    BY <1>1, FS_EmptySet, CircleAssumption
  <2> QED BY <1>1, <2>1 DEF TypeInv, RecordWellFormed
<1>4. RecordWellFormed'
  <2> SUFFICES ASSUME NEW e \in Devices
               PROVE  /\ Len(record'[e]) <= MaxMembers
                      /\ Distinct(record'[e])
                      /\ \A i \in DOMAIN record'[e] :
                           /\ Cardinality(record'[e][i].skipped) <= MaxSkipped
                           /\ \A s \in record'[e][i].skipped : s < record'[e][i].step
    BY DEF RecordWellFormed, Distinct
  <2>1. CASE e = d
    BY <1>1, <1>2, <1>3, <2>1
  <2>2. CASE e # d
    BY <1>2, <2>2 DEF TypeInv, RecordWellFormed, Distinct
  <2> QED BY <2>1, <2>2
<1> QED BY <1>1, <1>2, <1>4 DEF TypeInv, TypeOK

\* circleAdmit takes in the announced chain, or none.
LEMMA AdmitTakesIn ==
  ASSUME TypeInv, NEW d \in Devices, NEW a \in announces, Admit(d, a)
  PROVE  TakesIn(d, Admitted(record[d], MemberOf(a)), MemberOf(a))
<1> DEFINE m == MemberOf(a)
           out == Admitted(record[d], m)
<1>1. m \in Member /\ m.skipped = {} /\ m.id = a.id /\ m.key = a.key
  BY DEF TypeInv, TypeOK, Announced, Member, MemberOf
<1> HIDE DEF m
<1>2. record[d] \in Seq(Member) /\ Distinct(record[d])
  BY DEF TypeInv, TypeOK, RecordWellFormed, Distinct
<1>3. /\ out \in Seq(Member) /\ Len(out) \in 1 .. MaxMembers /\ Distinct(out)
      /\ \A i \in DOMAIN out :
           \/ \E j \in DOMAIN record[d] : out[i] = record[d][j]
           \/ /\ out[i] = m
              /\ \A j \in DOMAIN record[d] :
                   ~ (record[d][j].id = m.id /\ record[d][j].key = m.key)
  BY <1>1, <1>2, AdmittedFacts
<1> HIDE DEF out
<1>4. Len(out) <= MaxMembers
  BY <1>3, CircleAssumption
<1>5. (\A j \in DOMAIN record[d] : ~ (record[d][j].id = m.id /\ record[d][j].key = m.key))
        => m.key \notin HeldKeys(record[d])
  <2> SUFFICES ASSUME NEW j \in DOMAIN record[d], record[d][j].key = m.key
               PROVE  record[d][j].id = m.id
    BY DEF HeldKeys
  <2>1. PICK b \in announces : b.id = record[d][j].id /\ b.key = record[d][j].key
    BY DEF TypeInv, Named
  <2> QED BY <1>1, <2>1 DEF TypeInv, Named
<1>6. Store(d, out) /\ UNCHANGED <<used, trimmed>>
  BY DEF Admit, out, m
<1>7. TakesIn(d, out, m)
  BY <1>1, <1>3, <1>4, <1>5, <1>6 DEF TakesIn
<1> QED BY <1>7 DEF out, m

LEMMA TypeInvAdmit ==
  ASSUME TypeInv, NEW d \in Devices, NEW a \in announces, Admit(d, a)
  PROVE  TypeInv'
<1> DEFINE m == MemberOf(a)
           out == Admitted(record[d], m)
<1>1. TakesIn(d, out, m)
  BY AdmitTakesIn
<1>2. ~ m.signs /\ a.id = m.id /\ a.key = m.key
  BY DEF MemberOf
<1>3. UNCHANGED <<announces, notes, made>> /\ last' \in Outcome
  BY DEF Admit, Outcome
<1> HIDE DEF m, out
<1>4. /\ record' \in [Devices -> Seq(Member)] /\ RecordWellFormed'
      /\ \A e \in Devices : record'[e] = IF e = d THEN out ELSE record[e]
      /\ used' \in [Devices -> SUBSET (Keys \X Steps)]
      /\ joined' \in [Devices -> SUBSET (Keys \X Steps)]
      /\ trimmed' \in [Devices -> SUBSET (Keys \X Steps)]
      /\ evicted' \in [Devices -> SUBSET Keys]
  BY <1>1, TakesInTypes
<1>5. Continues
  <2>1. ASSUME NEW e \in Devices, NEW i \in DOMAIN record'[e]
        PROVE  \/ \E j \in DOMAIN record[e] : record'[e][i] = record[e][j]
               \/ record'[e][i] = m
    <3>1. CASE e = d
      BY <1>1, <1>4, <3>1 DEF TakesIn
    <3>2. CASE e # d
      BY <1>4, <3>2
    <3> QED BY <3>1, <3>2
  <2>2. ASSUME NEW e \in Devices, NEW j \in DOMAIN record[e]
        PROVE  record[e][j].step <= record[e][j].step
    <3>1. record[e][j].step \in Int
      BY MemberTypes
    <3> QED BY <3>1
  <2> QED BY <1>2, <2>1, <2>2 DEF Continues
<1> QED BY <1>3, <1>4, <1>5, DeviceStep

\* The chain announce makes: its key is above all earlier ones.
LEMMA NewTakesIn ==
  ASSUME TypeInv, AnnounceNew
  PROVE  \E m \in Member :
           /\ m.key = made + 1 /\ m.signs /\ made + 1 \in Keys
           /\ announces' = announces \cup {[id |-> m.id, key |-> m.key, step |-> m.step]}
           /\ TakesIn(Sender, <<m>>, m)
<1>1. PICK id \in ChainIds :
        LET m == [id |-> id, key |-> made + 1, step |-> 0, skipped |-> {}, signs |-> TRUE] IN
        Store(Sender, <<m>>) /\ announces' = announces \cup {AnnouncementOf(m)}
  BY DEF AnnounceNew
<1> DEFINE m == [id |-> id, key |-> made + 1, step |-> 0, skipped |-> {}, signs |-> TRUE]
<1>3. made \in Nat /\ made + 1 \in Keys /\ 0 \in Steps
  BY CircleAssumption DEF AnnounceNew, TypeInv, TypeOK, Keys, Steps
<1>4. m \in Member /\ m.skipped = {} /\ m.key = made + 1 /\ m.signs
  BY <1>3 DEF Member
<1>5. Store(Sender, <<m>>) /\ announces' = announces \cup {[id |-> m.id, key |-> m.key, step |-> m.step]}
  BY <1>1 DEF AnnouncementOf
<1> HIDE DEF m
<1>6. m.key \notin HeldKeys(record[Sender])
  <2> SUFFICES ASSUME NEW j \in DOMAIN record[Sender], record[Sender][j].key = made + 1
               PROVE  FALSE
    BY <1>4 DEF HeldKeys
  <2>1. PICK a \in announces : a.key = made + 1
    BY CircleAssumption DEF TypeInv, Named
  <2>2. a.key <= made
    BY DEF TypeInv, Named
  <2> QED BY <1>3, <2>1, <2>2
<1>7. /\ <<m>> \in Seq(Member) /\ Len(<<m>>) = 1 /\ <<m>>[1] = m /\ DOMAIN <<m>> = {1}
      /\ Distinct(<<m>>) /\ 1 <= MaxMembers
  BY <1>4, CircleAssumption DEF Distinct
<1>8. TakesIn(Sender, <<m>>, m)
  BY <1>4, <1>5, <1>6, <1>7 DEF TakesIn, AnnounceNew
<1> QED BY <1>3, <1>4, <1>5, <1>8

LEMMA TypeInvNew ==
  ASSUME TypeInv, AnnounceNew
  PROVE  TypeInv'
<1>1. PICK m \in Member :
        /\ m.key = made + 1 /\ made + 1 \in Keys
        /\ announces' = announces \cup {[id |-> m.id, key |-> m.key, step |-> m.step]}
        /\ TakesIn(Sender, <<m>>, m)
  BY NewTakesIn
<1>2. /\ record' \in [Devices -> Seq(Member)] /\ RecordWellFormed'
      /\ \A e \in Devices : record'[e] = IF e = Sender THEN <<m>> ELSE record[e]
      /\ used' \in [Devices -> SUBSET (Keys \X Steps)]
      /\ joined' \in [Devices -> SUBSET (Keys \X Steps)]
      /\ trimmed' \in [Devices -> SUBSET (Keys \X Steps)]
      /\ evicted' \in [Devices -> SUBSET Keys]
  BY <1>1, TakesInTypes, CircleAssumption
<1>3. made \in Nat /\ made' = made + 1 /\ UNCHANGED notes /\ last' \in Outcome
  BY DEF AnnounceNew, TypeInv, TypeOK, Outcome
<1>4. TypeOK'
  <2>1. [id |-> m.id, key |-> m.key, step |-> m.step] \in Announced
    BY DEF Member, Announced
  <2>2. made + 1 \in 0 .. MaxKeys
    BY <1>1, <1>3 DEF Keys
  <2> QED BY <1>1, <1>2, <1>3, <2>1, <2>2 DEF TypeInv, TypeOK
<1>5. \A a \in announces : a.key \in Int /\ a.key <= made
  BY DEF TypeInv, TypeOK, Announced, Keys, Named
<1>8. \A i \in DOMAIN record'[Sender] : record'[Sender][i] = m
  BY <1>2, CircleAssumption
<1>6. Named'
  <2>1. ASSUME NEW a \in announces'
        PROVE  a.key <= made' /\ \A b \in announces' : a.key = b.key => a.id = b.id
    BY <1>1, <1>3, <1>5 DEF TypeInv, Named
  <2>2. ASSUME NEW e \in Devices, NEW i \in DOMAIN record'[e]
        PROVE  \E a \in announces' : a.id = record'[e][i].id /\ a.key = record'[e][i].key
    <3>1. CASE e = Sender
      <4>1. record'[e][i] = m
        BY <1>8, <3>1
      <4> DEFINE a == [id |-> m.id, key |-> m.key, step |-> m.step]
      <4>2. a \in announces' /\ a.id = m.id /\ a.key = m.key
        BY <1>1
      <4> HIDE DEF a
      <4> QED BY <4>1, <4>2
    <3>2. CASE e # Sender
      <4>1. record'[e] = record[e]
        BY <1>2, <3>2
      <4>2. \E a \in announces : a.id = record[e][i].id /\ a.key = record[e][i].key
        BY <4>1 DEF TypeInv, Named
      <4>3. announces \subseteq announces'
        BY <1>1
      <4> QED BY <4>1, <4>2, <4>3
    <3> QED BY <3>1, <3>2
  <2> QED BY <2>1, <2>2 DEF Named
<1>7. NotesBehind'
  <2> SUFFICES ASSUME NEW n \in notes
               PROVE  /\ n.key <= made + 1 /\ n.step < MaxSteps
                      /\ \A i \in DOMAIN record'[Sender] : record'[Sender][i].key # n.key
    BY <1>3 DEF NotesBehind
  <2>1. n.key \in Int /\ n.key <= made /\ n.step < MaxSteps
    BY DEF TypeInv, TypeOK, Note, Keys, NotesBehind
  <2> QED BY <1>1, <1>3, <1>8, <2>1
<1> QED BY <1>2, <1>3, <1>4, <1>6, <1>7 DEF TypeInv

LEMMA TypeInvNewest ==
  ASSUME TypeInv, AnnounceNewest
  PROVE  TypeInv'
<1> DEFINE m == record[Sender][1]
<1>1. 1 \in DOMAIN record[Sender]
  BY FirstMember, CircleAssumption DEF AnnounceNewest
<1>2. m \in Member
  BY <1>1, MemberTypes, CircleAssumption
<1>3. /\ announces' = announces \cup {[id |-> m.id, key |-> m.key, step |-> m.step]}
      /\ UNCHANGED <<record, notes, made, used, joined, trimmed, evicted>>
      /\ last' \in Outcome
  BY DEF AnnounceNewest, AnnouncementOf, history, Outcome
<1>4. PICK a \in announces : a.id = m.id /\ a.key = m.key
  BY <1>1, CircleAssumption DEF TypeInv, Named
<1>5. TypeOK'
  <2>1. [id |-> m.id, key |-> m.key, step |-> m.step] \in Announced
    BY <1>2 DEF Member, Announced
  <2> HIDE DEF m
  <2> QED BY <1>3, <2>1 DEF TypeInv, TypeOK
<1>6. Named'
  BY <1>3, <1>4 DEF TypeInv, Named
<1> QED BY <1>3, <1>5, <1>6 DEF TypeInv, RecordWellFormed, NotesBehind

\* A device replaces one member by one of the same chain, no further back.
LEMMA MemberStep ==
  ASSUME TypeInv, NEW d \in Devices, NEW i \in DOMAIN record[d], NEW m \in Member,
         m.id = record[d][i].id, m.key = record[d][i].key, m.signs = record[d][i].signs,
         record[d][i].step <= m.step,
         Cardinality(m.skipped) <= MaxSkipped, \A s \in m.skipped : s < m.step,
         record' = [record EXCEPT ![d][i] = m]
  PROVE  /\ record' \in [Devices -> Seq(Member)]
         /\ RecordWellFormed'
         /\ \A e \in Devices : DOMAIN record'[e] = DOMAIN record[e]
         /\ \A e \in Devices : \A j \in DOMAIN record[e] :
              record'[e][j] = IF e = d /\ j = i THEN m ELSE record[e][j]
         /\ Continues
<1>1. record \in [Devices -> Seq(Member)]
  BY DEF TypeInv, TypeOK
<1>2. /\ record' \in [Devices -> Seq(Member)]
      /\ \A e \in Devices :
           Len(record'[e]) = Len(record[e]) /\ DOMAIN record'[e] = DOMAIN record[e]
      /\ \A e \in Devices : \A j \in DOMAIN record[e] :
           record'[e][j] = IF e = d /\ j = i THEN m ELSE record[e][j]
  BY <1>1, OneMember
<1>3. \A e \in Devices : \A j \in DOMAIN record[e] : record'[e][j].id = record[e][j].id
  BY <1>2
<1>4. RecordWellFormed'
  BY <1>2, <1>3 DEF TypeInv, RecordWellFormed
<1>5. ASSUME NEW e \in Devices, NEW j \in DOMAIN record[e]
      PROVE  /\ record'[e][j].id = record[e][j].id /\ record'[e][j].key = record[e][j].key
             /\ record'[e][j].signs = record[e][j].signs
             /\ record[e][j].step <= record'[e][j].step
  <2>1. CASE e = d /\ j = i
    BY <1>2, <2>1
  <2>2. CASE ~ (e = d /\ j = i)
    <3>1. record'[e][j] = record[e][j] /\ record[e][j].step \in Int
      BY <1>2, <2>2, MemberTypes
    <3> QED BY <3>1
  <2> QED BY <2>1, <2>2
<1>6. Continues
  BY <1>2, <1>5 DEF Continues
<1> QED BY <1>2, <1>4, <1>6

\* A call that fails leaves everything but the outcome.
LEMMA RefusalStep ==
  ASSUME TypeInv, NEW d \in Devices, NEW n \in notes, NEW fault \in Faults,
         Refuse(d, n, fault)
  PROVE  TypeInv'
<1>1. last' \in Outcome
  BY DEF Refuse, Answer, Outcome, TypeInv, TypeOK, Note
<1>2. UNCHANGED <<announces, notes, made, record, used, joined, trimmed, evicted>>
  BY DEF Refuse, history
<1> QED BY <1>1, <1>2, QuietStep

LEMMA TypeInvSealUnsigned ==
  ASSUME TypeInv, SealUnsigned
  PROVE  TypeInv'
<1> DEFINE m == record[Sender][1]
<1>1. 1 \in DOMAIN record[Sender]
  BY FirstMember, CircleAssumption DEF SealUnsigned
<1>2. m \in Member
  BY <1>1, MemberTypes, CircleAssumption
<1>3. Refuse(Sender, m, "BadSession")
  BY DEF SealUnsigned
<1> HIDE DEF m
<1>4. last' \in Outcome
  BY <1>2, <1>3, CircleAssumption DEF Refuse, Answer, Outcome, Member, Faults
<1>5. UNCHANGED <<announces, notes, made, record, used, joined, trimmed, evicted>>
  BY <1>3 DEF Refuse, history
<1> QED BY <1>4, <1>5, QuietStep

\* circleOpen behind the link.
LEMMA TypeInvBehind ==
  ASSUME TypeInv, NEW d \in Devices, NEW n \in notes, OpenBehind(d, n)
  PROVE  TypeInv'
<1>1. PICK i \in DOMAIN record[d] :
        \/ /\ n.step \in record[d][i].skipped
           /\ record' = [record EXCEPT ![d][i].skipped = @ \ {n.step}]
           /\ used' = [used EXCEPT ![d] = @ \cup {<<n.key, n.step>>}]
           /\ Answer(d, n, "none")
           /\ UNCHANGED <<announces, notes, made, joined, trimmed, evicted>>
        \/ Refuse(d, n, "Replay")
  BY DEF OpenBehind
<1>2. CASE Refuse(d, n, "Replay")
  BY <1>2, RefusalStep DEF Faults
<1>3. ASSUME n.step \in record[d][i].skipped,
             record' = [record EXCEPT ![d][i].skipped = @ \ {n.step}],
             used' = [used EXCEPT ![d] = @ \cup {<<n.key, n.step>>}],
             Answer(d, n, "none"),
             UNCHANGED <<announces, notes, made, joined, trimmed, evicted>>
      PROVE  TypeInv'
  <2> DEFINE m == Spent(record[d][i], n.step)
  <2>0. record' = [record EXCEPT ![d][i] = m]
    BY <1>3 DEF Spent
  <2>1. /\ m \in Member /\ m.id = record[d][i].id /\ m.key = record[d][i].key
        /\ m.signs = record[d][i].signs /\ m.step = record[d][i].step
        /\ Cardinality(m.skipped) <= MaxSkipped /\ \A s \in m.skipped : s < m.step
    BY <1>3, BehindStep
  <2> HIDE DEF m
  <2>4. record[d][i].step <= m.step
    <3>1. m.step \in Int
      BY <2>1 DEF Member, Steps
    <3> QED BY <2>1, <3>1
  <2>2. record' \in [Devices -> Seq(Member)] /\ RecordWellFormed' /\ Continues
    BY <2>0, <2>1, <2>4, MemberStep
  <2>3. used' \in [Devices -> SUBSET (Keys \X Steps)] /\ last' \in Outcome
    BY <1>3 DEF TypeInv, TypeOK, Note, Answer, Outcome, Faults
  <2> QED BY <1>3, <2>2, <2>3, DeviceStep DEF TypeInv, TypeOK
<1> QED BY <1>1, <1>2, <1>3

\* circleOpen at the link or ahead of it.
LEMMA TypeInvAhead ==
  ASSUME TypeInv, NEW d \in Devices, NEW n \in notes, OpenAhead(d, n)
  PROVE  TypeInv'
<1>1. PICK i \in DOMAIN record[d] :
        LET old == record[d][i]
            kept == KeepSkipped(old.skipped, Passed(old, n)) IN
        /\ ~ Behind(old, n)
        /\ record' = [record EXCEPT ![d][i] =
             [id |-> old.id, key |-> old.key, step |-> n.step + 1, skipped |-> kept,
              signs |-> old.signs]]
        /\ used' = [used EXCEPT ![d] = @ \cup {<<n.key, n.step>>}]
        /\ trimmed' = [trimmed EXCEPT ![d] = @ \cup
             {<<old.key, s>> : s \in (old.skipped \cup Passed(old, n)) \ kept}]
        /\ Answer(d, n, "none")
        /\ UNCHANGED <<announces, notes, made, joined, evicted>>
  BY DEF OpenAhead
<1> DEFINE old == record[d][i]
           kept == KeepSkipped(old.skipped, Passed(old, n))
           m == [id |-> old.id, key |-> old.key, step |-> n.step + 1, skipped |-> kept,
                 signs |-> old.signs]
<1>2. old \in Member
  BY MemberTypes
<1>3. old.step <= n.step
  BY <1>1, <1>2 DEF Behind, Member, Steps, TypeInv, TypeOK, Note
<1>4. /\ m \in Member /\ m.id = old.id /\ m.key = old.key /\ m.signs = old.signs
      /\ m.step = n.step + 1
      /\ Passed(old, n) \subseteq Steps /\ kept \subseteq old.skipped \cup Passed(old, n)
      /\ Cardinality(m.skipped) <= MaxSkipped /\ \A s \in m.skipped : s < m.step
  BY <1>3, AheadStep
<1>5. record' = [record EXCEPT ![d][i] = m]
  BY <1>1
<1> HIDE DEF m
<1>10. old.step <= m.step
  BY <1>2, <1>3, <1>4 DEF Member, Steps, TypeInv, TypeOK, Note
<1>6. record' \in [Devices -> Seq(Member)] /\ RecordWellFormed' /\ Continues
  BY <1>4, <1>5, <1>10, MemberStep
<1>7. {<<old.key, s>> : s \in (old.skipped \cup Passed(old, n)) \ kept} \subseteq Keys \X Steps
  BY <1>2, <1>4 DEF Member
<1>8. /\ used' \in [Devices -> SUBSET (Keys \X Steps)] /\ last' \in Outcome
  BY <1>1 DEF TypeInv, TypeOK, Note, Answer, Outcome, Faults
<1>9. trimmed' \in [Devices -> SUBSET (Keys \X Steps)]
  BY <1>1, <1>7 DEF TypeInv, TypeOK
<1> QED BY <1>1, <1>6, <1>8, <1>9, DeviceStep DEF TypeInv, TypeOK

\* seal: a note at the link of the newest chain, which advances.
LEMMA SealStep ==
  ASSUME TypeInv, Seal
  PROVE  LET old == record[Sender][1]
             m == Advance(old)
         IN
         /\ 1 \in DOMAIN record[Sender]
         /\ old.signs /\ old.step \in Steps /\ old.step < MaxSteps
         /\ m \in Member
         /\ m.id = old.id /\ m.key = old.key /\ m.signs = old.signs
         /\ m.step = old.step + 1 /\ m.skipped = old.skipped
         /\ record' = [record EXCEPT ![Sender][1] = m]
         /\ Cardinality(m.skipped) <= MaxSkipped /\ \A s \in m.skipped : s < m.step
         /\ \E note \in Note : /\ note.key = old.key /\ note.step = old.step
                               /\ notes' = notes \cup {note}
<1> DEFINE old == record[Sender][1]
           m == Advance(old)
<1>1. 1 \in DOMAIN record[Sender]
  BY FirstMember, CircleAssumption DEF Seal
<1>2. old \in Member
  BY <1>1, MemberTypes, CircleAssumption
<1>3. old.signs /\ old.step < MaxSteps
  BY DEF Seal
<1>4. old.step \in Steps /\ old.step + 1 \in Steps /\ old.step \in Int
  BY <1>2, <1>3, CircleAssumption DEF Member, Steps
<1>5. m = [id |-> old.id, key |-> old.key, step |-> old.step + 1,
           skipped |-> old.skipped, signs |-> old.signs]
  BY <1>2 DEF Advance, Member
<1>6. m \in Member
  BY <1>2, <1>4, <1>5 DEF Member
<1>7. Cardinality(old.skipped) <= MaxSkipped /\ \A s \in old.skipped : s < old.step
  BY <1>1, CircleAssumption DEF TypeInv, RecordWellFormed
<1>8. \A s \in old.skipped : s < old.step + 1
  <2>1. \A s \in old.skipped : s \in Int
    BY <1>2 DEF Member, Steps
  <2> QED BY <1>4, <1>7, <2>1
<1>9. \E note \in Note : /\ note.key = old.key /\ note.step = old.step
                         /\ notes' = notes \cup {note}
  <2> DEFINE note == [id |-> old.id, key |-> old.key, step |-> old.step,
                      serial |-> Cardinality(notes)]
  <2>1. Cardinality(notes) \in Nat
    BY FS_CardinalityType DEF TypeInv
  <2>2. note \in Note
    BY <1>2, <2>1 DEF Member, Note
  <2>3. notes' = notes \cup {note}
    BY DEF Seal
  <2> QED BY <2>2, <2>3
<1>10. record' = [record EXCEPT ![Sender][1] = m]
  BY DEF Seal
<1> QED BY <1>1, <1>3, <1>4, <1>5, <1>6, <1>7, <1>8, <1>9, <1>10

LEMMA TypeInvSeal ==
  ASSUME TypeInv, Seal
  PROVE  TypeInv'
<1> DEFINE old == record[Sender][1]
           m == Advance(old)
<1>1. /\ 1 \in DOMAIN record[Sender]
      /\ old.signs /\ old.step \in Steps /\ old.step < MaxSteps
      /\ m \in Member
      /\ m.id = old.id /\ m.key = old.key /\ m.signs = old.signs
      /\ m.step = old.step + 1
      /\ record' = [record EXCEPT ![Sender][1] = m]
      /\ Cardinality(m.skipped) <= MaxSkipped /\ \A s \in m.skipped : s < m.step
  BY SealStep
<1>2. PICK note \in Note : /\ note.key = old.key /\ note.step = old.step
                           /\ notes' = notes \cup {note}
  BY SealStep
<1>3. old.key \in Keys /\ old.step \in Int /\ Sender \in Devices
  BY <1>1, MemberTypes, CircleAssumption
<1> HIDE DEF m
<1>4. old.step <= m.step
  BY <1>1, <1>3
<1>5. /\ record' \in [Devices -> Seq(Member)] /\ RecordWellFormed' /\ Continues
      /\ \A e \in Devices : DOMAIN record'[e] = DOMAIN record[e]
      /\ \A e \in Devices : \A j \in DOMAIN record[e] :
           record'[e][j] = IF e = Sender /\ j = 1 THEN m ELSE record[e][j]
  BY <1>1, <1>3, <1>4, MemberStep
<1>6. UNCHANGED <<announces, made, joined, trimmed, evicted>>
  BY DEF Seal
<1>7. TypeOK'
  <2>1. used' \in [Devices -> SUBSET (Keys \X Steps)] /\ last' \in Outcome
    BY <1>1, <1>3 DEF Seal, TypeInv, TypeOK, Outcome
  <2> QED BY <1>2, <1>5, <1>6, <2>1 DEF TypeInv, TypeOK
<1>8. Named'
  <2> SUFFICES ASSUME NEW e \in Devices, NEW i \in DOMAIN record'[e]
               PROVE  \E a \in announces : /\ a.id = record'[e][i].id
                                           /\ a.key = record'[e][i].key
    BY <1>6 DEF TypeInv, Named
  <2> QED BY <1>5 DEF TypeInv, Named, Continues
<1>9. IsFiniteSet(notes')
  BY <1>2, FS_AddElement DEF TypeInv
<1>10. ASSUME NEW n \in notes'
       PROVE  /\ n.key <= made /\ n.step < MaxSteps
              /\ \A i \in DOMAIN record'[Sender] :
                   record'[Sender][i].signs /\ record'[Sender][i].key = n.key =>
                     n.step < record'[Sender][i].step
  <2>1. /\ n.key <= made /\ n.step < MaxSteps /\ n.step \in Int
        /\ n.key = old.key => n.step < m.step
    <3>1. CASE n \in notes
      <4>1. n.step \in Int
        BY <3>1 DEF TypeInv, TypeOK, Note, Steps
      <4>2. n.key <= made /\ n.step < MaxSteps /\ (n.key = old.key => n.step < old.step)
        BY <1>1, <3>1 DEF TypeInv, NotesBehind
      <4> QED BY <1>1, <1>3, <4>1, <4>2
    <3>2. CASE n = note
      <4>1. PICK a \in announces : a.key = old.key
        BY <1>1, <1>3 DEF TypeInv, Named
      <4>2. old.key <= made
        BY <4>1 DEF TypeInv, Named
      <4> QED BY <1>1, <1>2, <1>3, <3>2, <4>2
    <3> QED BY <1>2, <3>1, <3>2
  <2>2. ASSUME NEW i \in DOMAIN record'[Sender],
               record'[Sender][i].signs, record'[Sender][i].key = n.key
        PROVE  n.step < record'[Sender][i].step
    <3>1. CASE i = 1
      BY <1>1, <1>3, <1>5, <2>1, <2>2, <3>1
    <3>2. CASE i # 1
      <4>1. i \in DOMAIN record[Sender] /\ record'[Sender][i] = record[Sender][i]
        BY <1>3, <1>5, <3>2
      <4>2. n.key # old.key
        BY <1>1, <1>3, <2>2, <3>2, <4>1, OneKey
      <4>3. n \in notes
        BY <1>2, <4>2
      <4> QED BY <2>2, <4>1, <4>3 DEF TypeInv, NotesBehind
    <3> QED BY <3>1, <3>2
  <2> QED BY <2>1, <2>2
<1>11. NotesBehind'
  BY <1>6, <1>10 DEF NotesBehind
<1> QED BY <1>5, <1>7, <1>8, <1>9, <1>11 DEF TypeInv

\* TypeInv is inductive.
LEMMA TypeInvNext == TypeInv /\ [Next]_vars => TypeInv'
<1> SUFFICES ASSUME TypeInv, [Next]_vars PROVE TypeInv'
  OBVIOUS
<1>1. CASE AnnounceNew \/ AnnounceNewest
  BY <1>1, TypeInvNew, TypeInvNewest
<1>2. ASSUME NEW d \in Devices, NEW a \in announces, Admit(d, a) PROVE TypeInv'
  BY <1>2, TypeInvAdmit
<1>3. CASE Seal \/ SealUnsigned
  BY <1>3, TypeInvSeal, TypeInvSealUnsigned
<1>4. ASSUME NEW d \in Devices, NEW n \in notes, Open(d, n) PROVE TypeInv'
  <2>1. CASE OpenUnknown(d, n) \/ OpenForged(d, n) \/ OpenTooFar(d, n)
    BY <2>1, RefusalStep DEF OpenUnknown, OpenForged, OpenTooFar, Faults
  <2> QED BY <1>4, <2>1, TypeInvBehind, TypeInvAhead DEF Open
<1>5. CASE UNCHANGED vars
  <2>1. /\ UNCHANGED <<record, announces, notes, made, used, joined, trimmed, evicted>>
        /\ last' \in Outcome
    BY <1>5 DEF vars, TypeInv, TypeOK
  <2> QED BY <2>1, QuietStep
<1> QED BY <1>1, <1>2, <1>3, <1>4, <1>5 DEF Next

LEMMA TypeInvAlways == Spec => []TypeInv
BY TypeInvInit, TypeInvNext, PTL DEF Spec

\* The variables keep their types, whatever arrives in whatever order.
THEOREM TypeCorrect == Spec => []TypeOK
BY TypeInvAlways, PTL DEF TypeInv

\* The limits of record.zig hold and a chain id is in a record at most once.
THEOREM RecordsWellFormed == Spec => []RecordWellFormed
BY TypeInvAlways, PTL DEF TypeInv
-----------------------------------------------------------------------------
(* A message key seals one note.                                             *)

\* Only seal adds a note.
LEMMA NotesStay ==
  ASSUME [Next]_vars, ~ Seal
  PROVE  UNCHANGED notes
<1>1. ASSUME NEW d \in Devices, NEW n \in notes, Open(d, n) PROVE UNCHANGED notes
  <2>1. OpenUnknown(d, n) \/ OpenForged(d, n) \/ OpenTooFar(d, n) => UNCHANGED notes
    BY DEF OpenUnknown, OpenForged, OpenTooFar, Refuse
  <2>2. OpenBehind(d, n) => UNCHANGED notes
    BY DEF OpenBehind, Refuse
  <2>3. OpenAhead(d, n) => UNCHANGED notes
    BY DEF OpenAhead
  <2> QED BY <1>1, <2>1, <2>2, <2>3 DEF Open
<1>2. AnnounceNew \/ AnnounceNewest \/ SealUnsigned => UNCHANGED notes
  BY DEF AnnounceNew, AnnounceNewest, SealUnsigned, Refuse
<1>3. \A d \in Devices, a \in announces : Admit(d, a) => UNCHANGED notes
  BY DEF Admit
<1> QED BY <1>1, <1>2, <1>3 DEF Next, vars

\* It adds one at a step of the chain no note is at.
LEMMA SealedOnceNext == TypeInv /\ SealedOnce /\ [Next]_vars => SealedOnce'
<1> SUFFICES ASSUME TypeInv, SealedOnce, [Next]_vars PROVE SealedOnce'
  OBVIOUS
<1>1. CASE Seal
  <2> DEFINE old == record[Sender][1]
  <2>1. 1 \in DOMAIN record[Sender] /\ old.signs /\ old.step \in Steps
    BY <1>1, SealStep
  <2>2. PICK note \in Note : /\ note.key = old.key /\ note.step = old.step
                             /\ notes' = notes \cup {note}
    BY <1>1, SealStep
  <2>3. ASSUME NEW n \in notes, n.key = note.key
        PROVE  n.step # note.step
    <3>1. n.step < old.step
      BY <2>1, <2>2, <2>3 DEF TypeInv, NotesBehind
    <3>2. n.step \in Int /\ note.step \in Int
      BY DEF TypeInv, TypeOK, Note, Steps
    <3> QED BY <2>2, <3>1, <3>2
  <2> QED BY <2>2, <2>3 DEF SealedOnce
<1>2. CASE ~ Seal
  BY <1>2, NotesStay DEF SealedOnce
<1> QED BY <1>1, <1>2

\* seal never returns to a step of a chain: a link that has sealed has advanced
\* (NotesBehind), and a new chain has a new key.
THEOREM SealsOnce == Spec => []SealedOnce
<1>1. Init => SealedOnce
  BY DEF Init, SealedOnce
<1> QED BY <1>1, TypeInvAlways, SealedOnceNext, PTL DEF Spec

-----------------------------------------------------------------------------
(* The sender seals on what it holds.                                        *)

\* Where the sender holds a chain without its secret, it had dropped that chain;
\* and every chain announced is one it holds or dropped.
Secrets ==
  /\ \A i \in DOMAIN record[Sender] :
       ~ record[Sender][i].signs => record[Sender][i].key \in evicted[Sender]
  /\ \A a \in announces : a.key \in HeldKeys(record[Sender]) \cup evicted[Sender]
  /\ SealsWhatItKept

LEMMA SecretsInit == Init => Secrets
BY CircleAssumption DEF Init, Secrets, SealsWhatItKept, NoCall

\* The members the sender's record then has are old ones or one that signs, or
\* whose chain it had dropped, and the record forgets none untold.
LEMMA SecretsStep ==
  ASSUME Secrets, last'.fault # "BadSession",
         \A i \in DOMAIN record'[Sender] :
           \/ record'[Sender][i].signs
           \/ record'[Sender][i].key \in evicted[Sender]
           \/ \E j \in DOMAIN record[Sender] :
                /\ record'[Sender][i].key = record[Sender][j].key
                /\ record'[Sender][i].signs = record[Sender][j].signs,
         evicted[Sender] \cup HeldKeys(record[Sender]) \subseteq
           evicted'[Sender] \cup HeldKeys(record'[Sender]),
         evicted[Sender] \subseteq evicted'[Sender],
         \A a \in announces' : \/ \E b \in announces : a.key = b.key
                               \/ a.key \in HeldKeys(record'[Sender])
  PROVE  Secrets'
<1>1. \A i \in DOMAIN record'[Sender] :
        ~ record'[Sender][i].signs => record'[Sender][i].key \in evicted'[Sender]
  BY DEF Secrets
<1>2. \A a \in announces' : a.key \in HeldKeys(record'[Sender]) \cup evicted'[Sender]
  BY DEF Secrets
<1> QED BY <1>1, <1>2 DEF Secrets, SealsWhatItKept

LEMMA SecretsQuiet ==
  ASSUME Secrets, UNCHANGED <<record, evicted>>, last'.fault # "BadSession",
         \A a \in announces' : \/ \E b \in announces : a.key = b.key
                               \/ a.key \in HeldKeys(record[Sender])
  PROVE  Secrets'
BY SecretsStep

\* One member of the sender's or of another device's record is replaced.
LEMMA SecretsMember ==
  ASSUME TypeInv, Secrets, UNCHANGED <<announces, evicted>>, last'.fault # "BadSession",
         NEW d \in Devices, NEW i \in DOMAIN record[d], NEW m,
         m.key = record[d][i].key, m.signs = record[d][i].signs,
         \A e \in Devices : DOMAIN record'[e] = DOMAIN record[e],
         \A e \in Devices : \A j \in DOMAIN record[e] :
           record'[e][j] = IF e = d /\ j = i THEN m ELSE record[e][j]
  PROVE  Secrets'
<1>1. \A j \in DOMAIN record[Sender] :
        /\ record'[Sender][j].key = record[Sender][j].key
        /\ record'[Sender][j].signs = record[Sender][j].signs
  BY CircleAssumption
<1>2. HeldKeys(record'[Sender]) = HeldKeys(record[Sender])
  BY <1>1, CircleAssumption DEF HeldKeys
<1> QED BY <1>1, <1>2, SecretsStep, CircleAssumption

\* What a device takes in: for the sender, a chain it made now or had dropped.
LEMMA SecretsTakesIn ==
  ASSUME TypeInv, Secrets, NEW d \in Devices, NEW out, NEW m, TakesIn(d, out, m),
         last'.fault # "BadSession",
         \/ d = Sender /\ m.signs
         \/ \E a \in announces : a.key = m.key,
         \A a \in announces' : \/ \E b \in announces : a.key = b.key
                               \/ a.key \in HeldKeys(record'[Sender])
  PROVE  Secrets'
<1>1. /\ \A i \in DOMAIN out :
           \/ \E j \in DOMAIN record[d] : out[i] = record[d][j]
           \/ out[i] = m /\ m.key \notin HeldKeys(record[d])
      /\ \A e \in Devices : record'[e] = IF e = d THEN out ELSE record[e]
  BY TakesInTypes DEF TakesIn
<1>2. \A e \in Devices : evicted'[e] = IF e = d
        THEN evicted[e] \cup (HeldKeys(record[e]) \ HeldKeys(out)) ELSE evicted[e]
  BY DEF TakesIn, Store, TypeInv, TypeOK
<1>3. \/ m.signs
      \/ m.key \in HeldKeys(record[Sender]) \/ m.key \in evicted[Sender]
  BY DEF Secrets
<1>4. ASSUME NEW i \in DOMAIN record'[Sender]
      PROVE  \/ record'[Sender][i].signs
             \/ record'[Sender][i].key \in evicted[Sender]
             \/ \E j \in DOMAIN record[Sender] :
                  /\ record'[Sender][i].key = record[Sender][j].key
                  /\ record'[Sender][i].signs = record[Sender][j].signs
  BY <1>1, <1>3, CircleAssumption
<1>5. /\ evicted[Sender] \cup HeldKeys(record[Sender]) \subseteq
           evicted'[Sender] \cup HeldKeys(record'[Sender])
      /\ evicted[Sender] \subseteq evicted'[Sender]
  BY <1>1, <1>2, CircleAssumption
<1> QED BY <1>4, <1>5, SecretsStep

\* Secrets is inductive, given the types.
LEMMA SecretsNext == TypeInv /\ Secrets /\ [Next]_vars => Secrets'
<1> SUFFICES ASSUME TypeInv, Secrets, [Next]_vars PROVE Secrets'
  OBVIOUS
<1>1. CASE AnnounceNew
  <2>1. PICK m \in Member :
          /\ m.signs
          /\ announces' = announces \cup {[id |-> m.id, key |-> m.key, step |-> m.step]}
          /\ TakesIn(Sender, <<m>>, m)
    BY <1>1, NewTakesIn
  <2>2. last'.fault # "BadSession"
    BY <1>1 DEF AnnounceNew, NoCall
  <2>3. record'[Sender] = <<m>>
    BY <2>1, TakesInTypes, CircleAssumption
  <2>4. m.key \in HeldKeys(record'[Sender])
    <3>1. 1 \in DOMAIN record'[Sender] /\ record'[Sender][1] = m
      BY <2>3
    <3> QED BY <3>1 DEF HeldKeys
  <2> QED BY <2>1, <2>2, <2>4, SecretsTakesIn, CircleAssumption
<1>2. CASE AnnounceNewest
  <2>1. 1 \in DOMAIN record[Sender]
    BY <1>2, FirstMember, CircleAssumption DEF AnnounceNewest
  <2>2. record[Sender][1].key \in HeldKeys(record[Sender])
    BY <2>1, MemberTypes, CircleAssumption
  <2>3. UNCHANGED <<record, evicted>> /\ last'.fault # "BadSession"
    BY <1>2 DEF AnnounceNewest, history, NoCall
  <2>4. announces' = announces \cup {[id |-> record[Sender][1].id,
          key |-> record[Sender][1].key, step |-> record[Sender][1].step]}
    BY <1>2 DEF AnnounceNewest, AnnouncementOf
  <2> QED BY <2>2, <2>3, <2>4, SecretsQuiet
<1>3. ASSUME NEW d \in Devices, NEW a \in announces, Admit(d, a) PROVE Secrets'
  <2>1. TakesIn(d, Admitted(record[d], MemberOf(a)), MemberOf(a))
    BY <1>3, AdmitTakesIn
  <2>2. UNCHANGED announces /\ last'.fault # "BadSession" /\ MemberOf(a).key = a.key
    BY <1>3 DEF Admit, MemberOf, NoCall
  <2> QED BY <2>1, <2>2, SecretsTakesIn
<1>4. CASE Seal
  <2> DEFINE old == record[Sender][1]
             m == Advance(old)
  <2>1. /\ 1 \in DOMAIN record[Sender] /\ m \in Member /\ old.step \in Steps
        /\ m.id = old.id /\ m.key = old.key /\ m.signs = old.signs
        /\ m.step = old.step + 1
        /\ record' = [record EXCEPT ![Sender][1] = m]
        /\ Cardinality(m.skipped) <= MaxSkipped /\ \A s \in m.skipped : s < m.step
    BY <1>4, SealStep
  <2> HIDE DEF m
  <2>2. old.step <= m.step
    BY <2>1 DEF Steps
  <2>3. /\ \A e \in Devices : DOMAIN record'[e] = DOMAIN record[e]
        /\ \A e \in Devices : \A j \in DOMAIN record[e] :
             record'[e][j] = IF e = Sender /\ j = 1 THEN m ELSE record[e][j]
    BY <2>1, <2>2, MemberStep, CircleAssumption
  <2>4. UNCHANGED <<announces, evicted>> /\ last'.fault # "BadSession"
    BY <1>4 DEF Seal, NoCall
  <2> QED BY <2>1, <2>3, <2>4, SecretsMember, CircleAssumption
<1>5. CASE SealUnsigned
  <2> DEFINE m == record[Sender][1]
  <2>1. 1 \in DOMAIN record[Sender] /\ ~ m.signs
    BY <1>5, FirstMember, CircleAssumption DEF SealUnsigned
  <2>2. m.key \in evicted[Sender]
    BY <2>1 DEF Secrets
  <2>3. UNCHANGED <<announces, record, evicted>> /\ last'.key = m.key
    BY <1>5 DEF SealUnsigned, Refuse, Answer, history
  <2> QED BY <2>2, <2>3 DEF Secrets, SealsWhatItKept
<1>6. ASSUME NEW d \in Devices, NEW n \in notes, Open(d, n) PROVE Secrets'
  <2>1. CASE \E fault \in Faults \ {"BadSession"} : Refuse(d, n, fault)
    <3>1. UNCHANGED <<announces, record, evicted>> /\ last'.fault # "BadSession"
      BY <2>1 DEF Refuse, Answer, history
    <3> QED BY <3>1, SecretsQuiet
  <2>2. CASE OpenUnknown(d, n) \/ OpenForged(d, n) \/ OpenTooFar(d, n)
    BY <2>1, <2>2 DEF OpenUnknown, OpenForged, OpenTooFar, Faults
  <2>3. CASE OpenBehind(d, n)
    <3>1. PICK i \in DOMAIN record[d] :
            \/ /\ n.step \in record[d][i].skipped
               /\ record' = [record EXCEPT ![d][i].skipped = @ \ {n.step}]
               /\ Answer(d, n, "none")
               /\ UNCHANGED <<announces, evicted>>
            \/ Refuse(d, n, "Replay")
      BY <2>3 DEF OpenBehind
    <3>2. CASE Refuse(d, n, "Replay")
      BY <2>1, <3>2 DEF Faults
    <3>3. CASE ~ Refuse(d, n, "Replay")
      <4> DEFINE old == record[d][i]
                 m == Spent(old, n.step)
      <4>0. record' = [record EXCEPT ![d][i] = m]
        BY <3>1, <3>3 DEF Spent
      <4>1. /\ m \in Member /\ m.id = old.id /\ m.key = old.key /\ m.step = old.step
            /\ m.signs = old.signs
            /\ Cardinality(m.skipped) <= MaxSkipped /\ \A s \in m.skipped : s < m.step
        BY <3>1, <3>3, BehindStep
      <4> HIDE DEF m
      <4>2. old.step <= m.step
        BY <4>1 DEF Member, Steps
      <4>3. /\ \A e \in Devices : DOMAIN record'[e] = DOMAIN record[e]
            /\ \A e \in Devices : \A j \in DOMAIN record[e] :
                 record'[e][j] = IF e = d /\ j = i THEN m ELSE record[e][j]
        BY <4>0, <4>1, <4>2, MemberStep
      <4>4. UNCHANGED <<announces, evicted>> /\ last'.fault # "BadSession"
        BY <3>1, <3>3 DEF Answer
      <4> QED BY <4>1, <4>3, <4>4, SecretsMember
    <3> QED BY <3>2, <3>3
  <2>4. CASE OpenAhead(d, n)
    <3>1. PICK i \in DOMAIN record[d] :
            LET old == record[d][i]
                kept == KeepSkipped(old.skipped, Passed(old, n)) IN
            /\ ~ Behind(old, n)
            /\ record' = [record EXCEPT ![d][i] =
                 [id |-> old.id, key |-> old.key, step |-> n.step + 1, skipped |-> kept,
                  signs |-> old.signs]]
            /\ Answer(d, n, "none")
            /\ UNCHANGED <<announces, evicted>>
      BY <2>4 DEF OpenAhead
    <3> DEFINE old == record[d][i]
               kept == KeepSkipped(old.skipped, Passed(old, n))
               m == [id |-> old.id, key |-> old.key, step |-> n.step + 1, skipped |-> kept,
                     signs |-> old.signs]
    <3>2. old.step \in Int /\ n.step \in Int
      BY MemberTypes DEF TypeInv, TypeOK, Note, Steps
    <3>3. old.step <= n.step
      BY <3>1, <3>2 DEF Behind
    <3>4. /\ m \in Member /\ m.id = old.id /\ m.key = old.key /\ m.signs = old.signs
          /\ m.step = n.step + 1
          /\ Cardinality(m.skipped) <= MaxSkipped /\ \A s \in m.skipped : s < m.step
      BY <3>3, AheadStep
    <3>5. record' = [record EXCEPT ![d][i] = m] /\ old.step <= m.step
      BY <3>1, <3>2, <3>3
    <3> HIDE DEF m
    <3>6. /\ \A e \in Devices : DOMAIN record'[e] = DOMAIN record[e]
          /\ \A e \in Devices : \A j \in DOMAIN record[e] :
               record'[e][j] = IF e = d /\ j = i THEN m ELSE record[e][j]
      BY <3>4, <3>5, MemberStep
    <3>7. UNCHANGED <<announces, evicted>> /\ last'.fault # "BadSession"
      BY <3>1 DEF Answer
    <3> QED BY <3>4, <3>6, <3>7, SecretsMember
  <2> QED BY <1>6, <2>2, <2>3, <2>4 DEF Open
<1>7. CASE UNCHANGED vars
  BY <1>7 DEF vars, Secrets, SealsWhatItKept
<1> QED BY <1>1, <1>2, <1>3, <1>4, <1>5, <1>6, <1>7 DEF Next

\* seal finds the newest chain without its signing secret only when the sender
\* dropped that chain and took it in again: admit keeps the secret of a chain held.
THEOREM SealsItsOwn == Spec => []SealsWhatItKept
<1>1. Secrets => SealsWhatItKept
  BY DEF Secrets
<1> QED BY <1>1, TypeInvAlways, SecretsInit, SecretsNext, PTL DEF Spec

-----------------------------------------------------------------------------
(* A device's books: why a note is refused, and why it opens once.           *)

\* The device took the chain in at a later step.
Earlier(taken, k, s) == \E t \in Steps : <<k, t>> \in taken /\ s < t

\* Every step behind a link is kept, was opened or sealed, was trimmed or came
\* before the announcement.
Accounted ==
  \A d \in Devices : \A i \in DOMAIN record[d] : \A s \in Steps :
    LET m == record[d][i] IN
    s < m.step =>
      \/ s \in m.skipped
      \/ <<m.key, s>> \in used[d]
      \/ <<m.key, s>> \in trimmed[d]
      \/ Earlier(joined[d], m.key, s)

\* On a chain never evicted, what was opened or sealed is behind the link and not
\* kept.
UsedBehind ==
  \A d \in Devices : \A i \in DOMAIN record[d] : \A s \in Steps :
    LET m == record[d][i] IN
    m.key \notin evicted[d] /\ <<m.key, s>> \in used[d] =>
      s < m.step /\ s \notin m.skipped

\* A chain on which a note was opened or sealed is held still, or was evicted.
UsedHeld ==
  \A d \in Devices : \A o \in used[d] :
    o[1] \in HeldKeys(record[d]) \/ o[1] \in evicted[d]

Books == Accounted /\ UsedBehind /\ UsedHeld

LEMMA BooksInit == Init => Books
BY DEF Init, Books, Accounted, UsedBehind, UsedHeld

\* A step that leaves the records alone leaves their books.
LEMMA BooksQuiet ==
  ASSUME Books, UNCHANGED <<record, used, joined, trimmed, evicted>>
  PROVE  Books'
BY DEF Books, Accounted, UsedBehind, UsedHeld, Earlier, HeldKeys

\* The chains that stay keep their books, the one that comes in starts with the
\* step it comes in at, and one that falls out is evicted.
LEMMA BooksTakesIn ==
  ASSUME TypeInv, Books, NEW d \in Devices, NEW out, NEW m, TakesIn(d, out, m)
  PROVE  Books'
<1> DEFINE old == HeldKeys(record[d])
<1>1. /\ m \in Member /\ m.skipped = {} /\ m.step \in Steps /\ m.key \in Keys
      /\ out \in Seq(Member)
      /\ Store(d, out) /\ UNCHANGED <<used, trimmed>>
  BY DEF TakesIn, Member
<1>3. \A i \in DOMAIN out :
        \/ \E j \in DOMAIN record[d] : out[i] = record[d][j]
        \/ out[i] = m /\ m.key \notin old
  BY DEF TakesIn
<1>5. /\ \A e \in Devices : record'[e] = IF e = d THEN out ELSE record[e]
      /\ \A e \in Devices : joined[e] \subseteq joined'[e] /\ evicted[e] \subseteq evicted'[e]
      /\ evicted'[d] = evicted[d] \cup (old \ HeldKeys(out))
      /\ \A i \in DOMAIN out : out[i].key \notin old => <<out[i].key, out[i].step>> \in joined'[d]
      /\ \A e \in Devices : e # d => joined'[e] = joined[e] /\ evicted'[e] = evicted[e]
  BY <1>1 DEF Store, TypeInv, TypeOK
<1>6. ASSUME NEW i \in DOMAIN out, out[i] = m, m.key \notin old
      PROVE  <<m.key, m.step>> \in joined'[d]
  BY <1>5, <1>6
<1>4. UNCHANGED <<used, trimmed>>
  BY <1>1
<1> HIDE DEF old
<1>8. \A e \in Devices, k \in Keys, s \in Steps :
        Earlier(joined[e], k, s) => Earlier(joined'[e], k, s)
  BY <1>5 DEF Earlier
<1>9. ASSUME NEW i \in DOMAIN out, NEW s \in Steps, s < out[i].step
      PROVE  \/ s \in out[i].skipped
             \/ <<out[i].key, s>> \in used[d]
             \/ <<out[i].key, s>> \in trimmed[d]
             \/ Earlier(joined'[d], out[i].key, s)
  <2>1. CASE \E j \in DOMAIN record[d] : out[i] = record[d][j]
    <3>1. PICK j \in DOMAIN record[d] : out[i] = record[d][j]
      BY <2>1
    <3>2. out[i].key \in Keys
      <4>1. out[i] \in Member
        BY <1>1, LenProperties, ElementOfSeq
      <4> QED BY <4>1 DEF Member
    <3> QED BY <1>8, <1>9, <3>1, <3>2 DEF Books, Accounted
  <2>2. CASE <<m.key, m.step>> \in joined'[d] /\ out[i] = m
    BY <1>1, <1>9, <2>2 DEF Earlier
  <2> QED BY <1>3, <1>6, <2>1, <2>2
<1>10. Accounted'
  <2> SUFFICES ASSUME NEW e \in Devices, NEW i \in DOMAIN record'[e], NEW s \in Steps,
                      s < record'[e][i].step
               PROVE  \/ s \in record'[e][i].skipped
                      \/ <<record'[e][i].key, s>> \in used'[e]
                      \/ <<record'[e][i].key, s>> \in trimmed'[e]
                      \/ Earlier(joined'[e], record'[e][i].key, s)
    BY DEF Accounted
  <2>1. CASE e = d
    BY <1>4, <1>5, <1>9, <2>1
  <2>2. CASE e # d
    BY <1>4, <1>5, <2>2 DEF Books, Accounted, Earlier
  <2> QED BY <2>1, <2>2
<1>11. ASSUME NEW i \in DOMAIN out, NEW s \in Steps,
              out[i].key \notin evicted'[d], <<out[i].key, s>> \in used[d]
       PROVE  s < out[i].step /\ s \notin out[i].skipped
  <2>1. CASE \E j \in DOMAIN record[d] : out[i] = record[d][j]
    BY <1>5, <1>11, <2>1 DEF Books, UsedBehind
  <2>2. CASE m.key \notin old /\ out[i] = m
    BY <1>5, <1>11, <2>2 DEF Books, UsedHeld, old
  <2> QED BY <1>3, <2>1, <2>2
<1>12. UsedBehind'
  <2> SUFFICES ASSUME NEW e \in Devices, NEW i \in DOMAIN record'[e], NEW s \in Steps,
                      record'[e][i].key \notin evicted'[e],
                      <<record'[e][i].key, s>> \in used'[e]
               PROVE  s < record'[e][i].step /\ s \notin record'[e][i].skipped
    BY DEF UsedBehind
  <2>1. CASE e = d
    BY <1>4, <1>5, <1>11, <2>1
  <2>2. CASE e # d
    BY <1>4, <1>5, <2>2 DEF Books, UsedBehind
  <2> QED BY <2>1, <2>2
<1>13. UsedHeld'
  <2> SUFFICES ASSUME NEW e \in Devices, NEW o \in used'[e]
               PROVE  o[1] \in HeldKeys(record'[e]) \/ o[1] \in evicted'[e]
    BY DEF UsedHeld
  <2>1. o[1] \in HeldKeys(record[e]) \/ o[1] \in evicted[e]
    BY <1>4 DEF Books, UsedHeld
  <2>2. CASE e = d
    BY <1>5, <2>1, <2>2 DEF old
  <2>3. CASE e # d
    BY <1>5, <2>1, <2>3
  <2> QED BY <2>2, <2>3
<1> QED BY <1>10, <1>12, <1>13 DEF Books

\* A note opened or sealed: the member at i becomes m, done with step s0, whose
\* other steps are the old ones, passed over and kept, or trimmed.
Reads(d, i, m, s0) ==
  LET old == record[d][i] IN
  /\ m.id = old.id /\ m.key = old.key /\ old.step <= m.step
  /\ s0 < m.step /\ s0 \notin m.skipped
  /\ \A s \in Steps : s < old.step /\ s \in m.skipped => s \in old.skipped
  /\ \A s \in Steps : s < m.step =>
       \/ s \in m.skipped \/ s = s0 \/ <<m.key, s>> \in trimmed'[d]
       \/ s < old.step /\ s \notin old.skipped
  /\ \A e \in Devices : DOMAIN record'[e] = DOMAIN record[e]
  /\ \A e \in Devices : \A j \in DOMAIN record[e] :
       record'[e][j] = IF e = d /\ j = i THEN m ELSE record[e][j]
  /\ used' = [used EXCEPT ![d] = @ \cup {<<m.key, s0>>}]
  /\ \A e \in Devices : trimmed[e] \subseteq trimmed'[e]
  /\ UNCHANGED <<joined, evicted>>

\* It keeps the books: no other member has the same signing key.
LEMMA BooksMember ==
  ASSUME TypeInv, Books, NEW d \in Devices, NEW i \in DOMAIN record[d], NEW m \in Member,
         NEW s0 \in Steps, Reads(d, i, m, s0)
  PROVE  Books'
<1> DEFINE old == record[d][i]
<1>1. \A e \in Devices :
        used'[e] = IF e = d THEN used[e] \cup {<<m.key, s0>>} ELSE used[e]
  BY DEF Reads, TypeInv, TypeOK
<1>2. \A e \in Devices : \A j \in DOMAIN record[e] :
        record'[e][j].id = record[e][j].id /\ record'[e][j].key = record[e][j].key
  BY DEF Reads
<1>3. \A e \in Devices : HeldKeys(record'[e]) = HeldKeys(record[e])
  BY <1>2 DEF HeldKeys, Reads
<1>5. old.step \in Int /\ m.step \in Int /\ Steps \subseteq Int
  BY MemberTypes DEF Member, Steps
<1>6. \A j \in DOMAIN record[d] : record[d][j].key = m.key => j = i
  <2>1. m.key = old.key
    BY DEF Reads
  <2> QED BY <2>1, OneKey
<1>7. Accounted'
  <2> SUFFICES ASSUME NEW e \in Devices, NEW j \in DOMAIN record[e], NEW s \in Steps,
                      s < record'[e][j].step
               PROVE  \/ s \in record'[e][j].skipped
                      \/ <<record'[e][j].key, s>> \in used'[e]
                      \/ <<record'[e][j].key, s>> \in trimmed'[e]
                      \/ Earlier(joined[e], record'[e][j].key, s)
    BY DEF Accounted, Reads
  <2>1. CASE e = d /\ j = i
    <3>1. record'[e][j] = m /\ s < m.step /\ m.key = old.key
      BY <2>1 DEF Reads
    <3>2. \/ s \in m.skipped \/ s = s0 \/ <<m.key, s>> \in trimmed'[d]
          \/ s < old.step /\ s \notin old.skipped
      BY <3>1 DEF Reads
    <3>3. CASE s < old.step /\ s \notin old.skipped
      <4>1. \/ <<m.key, s>> \in used[d] \/ <<m.key, s>> \in trimmed[d]
            \/ Earlier(joined[d], m.key, s)
        BY <3>1, <3>3 DEF Books, Accounted
      <4>2. trimmed[d] \subseteq trimmed'[d]
        BY DEF Reads
      <4> QED BY <1>1, <2>1, <3>1, <4>1, <4>2
    <3>4. CASE s = s0
      BY <1>1, <2>1, <3>1, <3>4
    <3>5. CASE s \in m.skipped \/ <<m.key, s>> \in trimmed'[d]
      BY <2>1, <3>1, <3>5
    <3> QED BY <3>2, <3>3, <3>4, <3>5
  <2>2. CASE ~ (e = d /\ j = i)
    <3>1. record'[e][j] = record[e][j] /\ trimmed[e] \subseteq trimmed'[e]
      BY <2>2 DEF Reads
    <3> QED BY <1>1, <3>1 DEF Books, Accounted
  <2> QED BY <2>1, <2>2
<1>8. UsedBehind'
  <2> SUFFICES ASSUME NEW e \in Devices, NEW j \in DOMAIN record[e], NEW s \in Steps,
                      record'[e][j].key \notin evicted[e],
                      <<record'[e][j].key, s>> \in used'[e]
               PROVE  s < record'[e][j].step /\ s \notin record'[e][j].skipped
    BY DEF UsedBehind, Reads
  <2>1. CASE e = d /\ j = i
    <3>1. record'[e][j] = m /\ m.key = old.key
      BY <2>1 DEF Reads
    <3>2. CASE s = s0
      BY <3>1, <3>2 DEF Reads
    <3>3. CASE s # s0
      <4>1. s < old.step /\ s \notin old.skipped
        <5>1. <<m.key, s>> \in used[d] \cup {<<m.key, s0>>}
          BY <1>1, <2>1, <3>1
        <5>2. <<m.key, s>> # <<m.key, s0>>
          BY <3>3
        <5> QED BY <2>1, <3>1, <5>1, <5>2 DEF Books, UsedBehind
      <4> QED BY <1>5, <3>1, <4>1 DEF Reads
    <3> QED BY <3>2, <3>3
  <2>2. CASE ~ (e = d /\ j = i)
    <3>1. record'[e][j] = record[e][j]
      BY <2>2 DEF Reads
    <3>2. <<record[e][j].key, s>> \in used[e]
      <4>1. CASE e # d
        BY <1>1, <3>1, <4>1
      <4>2. CASE e = d
        <5>1. record[d][j].key # m.key
          BY <1>6, <2>2, <4>2
        <5>2. <<record[d][j].key, s>> # <<m.key, s0>>
          BY <5>1
        <5> QED BY <1>1, <3>1, <4>2, <5>2
      <4> QED BY <4>1, <4>2
    <3> QED BY <3>1, <3>2 DEF Books, UsedBehind
  <2> QED BY <2>1, <2>2
<1>9. UsedHeld'
  <2> SUFFICES ASSUME NEW e \in Devices, NEW o \in used'[e]
               PROVE  o[1] \in HeldKeys(record[e]) \/ o[1] \in evicted[e]
    BY <1>3 DEF UsedHeld, Reads
  <2>1. CASE o \in used[e]
    BY <2>1 DEF Books, UsedHeld
  <2>2. CASE e = d /\ o = <<m.key, s0>>
    BY <2>2 DEF HeldKeys, Reads
  <2> QED BY <1>1, <2>1, <2>2
<1> QED BY <1>7, <1>8, <1>9 DEF Books

\* circleOpen of a note behind the link: its key was kept, or it is refused.
LEMMA BooksBehind ==
  ASSUME TypeInv, Books, NEW d \in Devices, NEW n \in notes, OpenBehind(d, n)
  PROVE  Books'
<1>1. PICK i \in DOMAIN record[d] :
        /\ Opener(d, n, i) /\ Behind(record[d][i], n)
        /\ \/ /\ n.step \in record[d][i].skipped
              /\ record' = [record EXCEPT ![d][i].skipped = @ \ {n.step}]
              /\ used' = [used EXCEPT ![d] = @ \cup {<<n.key, n.step>>}]
              /\ UNCHANGED <<announces, notes, made, joined, trimmed, evicted>>
           \/ Refuse(d, n, "Replay")
  BY DEF OpenBehind
<1>2. CASE Refuse(d, n, "Replay")
  <2>1. UNCHANGED <<announces, notes, made, record, used, joined, trimmed, evicted>>
    BY <1>2 DEF Refuse, history
  <2> QED BY <2>1, BooksQuiet
<1>3. ASSUME n.step \in record[d][i].skipped,
             record' = [record EXCEPT ![d][i].skipped = @ \ {n.step}],
             used' = [used EXCEPT ![d] = @ \cup {<<n.key, n.step>>}],
             UNCHANGED <<announces, notes, made, joined, trimmed, evicted>>
      PROVE  Books'
  <2> DEFINE old == record[d][i]
             m == Spent(old, n.step)
  <2>0. record' = [record EXCEPT ![d][i] = m]
    BY <1>3 DEF Spent
  <2>1. /\ old \in Member /\ m \in Member
        /\ Cardinality(m.skipped) <= MaxSkipped
        /\ \A s \in m.skipped : s < m.step
        /\ m.id = old.id /\ m.key = old.key /\ m.step = old.step /\ m.signs = old.signs
        /\ m.skipped = old.skipped \ {n.step}
    BY <1>3, BehindStep
  <2> HIDE DEF m
  <2>2. old.step \in Int /\ old.step <= m.step
    BY <2>1 DEF Member, Steps
  <2>3. /\ \A e \in Devices : DOMAIN record'[e] = DOMAIN record[e]
        /\ \A e \in Devices : \A j \in DOMAIN record[e] :
             record'[e][j] = IF e = d /\ j = i THEN m ELSE record[e][j]
    BY <2>0, <2>1, <2>2, MemberStep
  <2>4. n.step \in Steps /\ n.step < old.step /\ n.key = old.key
    BY <1>1 DEF Behind, Opener, TypeInv, TypeOK, Note
  <2>6. \A s \in Steps : s < m.step =>
          \/ s \in m.skipped \/ s = n.step \/ <<m.key, s>> \in trimmed'[d]
          \/ s < old.step /\ s \notin old.skipped
    BY <2>1
  <2>7. used' = [used EXCEPT ![d] = @ \cup {<<m.key, n.step>>}]
    BY <1>3, <2>1, <2>4
  <2>8. /\ n.step < m.step /\ n.step \notin m.skipped
        /\ \A s \in Steps : s < old.step /\ s \in m.skipped => s \in old.skipped
        /\ \A e \in Devices : trimmed[e] \subseteq trimmed'[e]
        /\ UNCHANGED <<joined, evicted>>
    BY <1>3, <2>1, <2>4
  <2>9. Reads(d, i, m, n.step)
    BY <2>1, <2>2, <2>3, <2>6, <2>7, <2>8 DEF Reads
  <2> QED BY <2>1, <2>4, <2>9, BooksMember
<1> QED BY <1>1, <1>2, <1>3

\* circleOpen of a note at the link or ahead of it.
LEMMA BooksAhead ==
  ASSUME TypeInv, Books, NEW d \in Devices, NEW n \in notes, OpenAhead(d, n)
  PROVE  Books'
<1>1. PICK i \in DOMAIN record[d] :
        LET old == record[d][i]
            kept == KeepSkipped(old.skipped, Passed(old, n)) IN
        /\ Opener(d, n, i)
        /\ ~ Behind(old, n)
        /\ record' = [record EXCEPT ![d][i] =
             [id |-> old.id, key |-> old.key, step |-> n.step + 1, skipped |-> kept,
              signs |-> old.signs]]
        /\ used' = [used EXCEPT ![d] = @ \cup {<<n.key, n.step>>}]
        /\ trimmed' = [trimmed EXCEPT ![d] = @ \cup
             {<<old.key, s>> : s \in (old.skipped \cup Passed(old, n)) \ kept}]
        /\ UNCHANGED <<announces, notes, made, joined, evicted>>
  BY DEF OpenAhead
<1> DEFINE old == record[d][i]
           kept == KeepSkipped(old.skipped, Passed(old, n))
           m == [id |-> old.id, key |-> old.key, step |-> n.step + 1, skipped |-> kept,
                 signs |-> old.signs]
<1>2. old \in Member
  BY MemberTypes
<1>3. /\ old.step <= n.step /\ old.step \in Int /\ n.step \in Steps /\ Steps \subseteq Int
      /\ n.key = old.key /\ \A s \in old.skipped : s < old.step
  BY <1>1, <1>2 DEF Behind, Opener, Member, Steps, TypeInv, TypeOK, RecordWellFormed, Note
<1>4. /\ m \in Member /\ m.id = old.id /\ m.key = old.key /\ m.signs = old.signs
      /\ m.step = n.step + 1 /\ m.skipped = kept
      /\ kept \subseteq old.skipped \cup Passed(old, n)
      /\ Cardinality(m.skipped) <= MaxSkipped /\ \A s \in m.skipped : s < m.step
  BY <1>3, AheadStep
<1>5. record' = [record EXCEPT ![d][i] = m]
  BY <1>1
<1>6. \A s \in (old.skipped \cup Passed(old, n)) \ kept : <<old.key, s>> \in trimmed'[d]
  BY <1>1 DEF TypeInv, TypeOK
<1>7. \A e \in Devices : trimmed[e] \subseteq trimmed'[e]
  BY <1>1 DEF TypeInv, TypeOK
<1>8. used' = [used EXCEPT ![d] = @ \cup {<<m.key, n.step>>}]
  BY <1>1, <1>3, <1>4
<1> HIDE DEF kept, m
<1>18. old.step <= m.step
  <2>1. n.step \in Int
    BY <1>3
  <2> QED BY <1>3, <1>4, <2>1
<1>9. /\ \A e \in Devices : DOMAIN record'[e] = DOMAIN record[e]
      /\ \A e \in Devices : \A j \in DOMAIN record[e] :
           record'[e][j] = IF e = d /\ j = i THEN m ELSE record[e][j]
  BY <1>4, <1>5, <1>18, MemberStep
<1>10. \A s \in Passed(old, n) : ~ (s < old.step) /\ s # n.step
  BY <1>3 DEF Passed
<1>11. \A s \in Steps : s < n.step /\ ~ (s < old.step) => s \in Passed(old, n)
  <2>1. \A s \in Int : s < n.step /\ ~ (s < old.step) => s \in Passed(old, n)
    <3>1. n.step \in Int
      BY <1>3
    <3> QED BY <1>3, <3>1 DEF Passed
  <2> QED BY <1>3, <2>1
<1>12. n.step \notin kept /\ n.step < m.step /\ old.step <= m.step
  <2>1. n.step \in Int /\ m.step \in Int
    <3>1. n.step \in Int
      BY <1>3
    <3> QED BY <1>4, <3>1
  <2>2. n.step \notin old.skipped
    BY <1>3, <2>1
  <2> QED BY <1>3, <1>4, <1>10, <2>1, <2>2
<1>13. \A s \in Steps : s < m.step =>
         \/ s \in m.skipped \/ s = n.step \/ <<m.key, s>> \in trimmed'[d]
         \/ s < old.step /\ s \notin old.skipped
  <2> SUFFICES ASSUME NEW s \in Steps, s < m.step, s # n.step
               PROVE  \/ s \in kept \/ <<old.key, s>> \in trimmed'[d]
                      \/ s < old.step /\ s \notin old.skipped
    BY <1>4
  <2>1. s < n.step
    BY <1>3, <1>4
  <2> QED BY <1>6, <1>11, <2>1
<1>14. \A s \in Steps : s < old.step /\ s \in m.skipped => s \in old.skipped
  BY <1>4, <1>10
<1>15. n.step \notin m.skipped
  BY <1>4, <1>12
<1>16. UNCHANGED <<joined, evicted>>
  BY <1>1
<1>17. Reads(d, i, m, n.step)
  BY <1>4, <1>7, <1>8, <1>9, <1>12, <1>13, <1>14, <1>15, <1>16 DEF Reads
<1> QED BY <1>3, <1>4, <1>17, BooksMember

\* seal: its step is done with, and its link past it.
LEMMA BooksSeal ==
  ASSUME TypeInv, Books, Seal
  PROVE  Books'
<1> DEFINE old == record[Sender][1]
           m == Advance(old)
<1>1. /\ 1 \in DOMAIN record[Sender] /\ m \in Member /\ old.step \in Steps
      /\ m.id = old.id /\ m.key = old.key /\ m.signs = old.signs
      /\ m.step = old.step + 1 /\ m.skipped = old.skipped
      /\ record' = [record EXCEPT ![Sender][1] = m]
      /\ Cardinality(m.skipped) <= MaxSkipped /\ \A s \in m.skipped : s < m.step
  BY SealStep
<1>2. Sender \in Devices /\ old.step \in Int /\ Steps \subseteq Int
  BY <1>1, CircleAssumption DEF Steps
<1>3. UNCHANGED <<joined, trimmed, evicted>>
      /\ used' = [used EXCEPT ![Sender] = @ \cup {<<m.key, old.step>>}]
  BY <1>1 DEF Seal
<1>4. \A s \in old.skipped : s < old.step
  BY <1>1, <1>2 DEF TypeInv, RecordWellFormed
<1> HIDE DEF m
<1>5. old.step <= m.step /\ old.step < m.step
  BY <1>1, <1>2
<1>6. /\ \A e \in Devices : DOMAIN record'[e] = DOMAIN record[e]
      /\ \A e \in Devices : \A j \in DOMAIN record[e] :
           record'[e][j] = IF e = Sender /\ j = 1 THEN m ELSE record[e][j]
  BY <1>1, <1>2, <1>5, MemberStep
<1>7. old.step \notin m.skipped
  BY <1>1, <1>2, <1>4
<1>8. \A s \in Steps : s < m.step =>
        s \in m.skipped \/ s = old.step \/ (s < old.step /\ s \notin old.skipped)
  BY <1>1, <1>2
<1>9. Reads(Sender, 1, m, old.step)
  BY <1>1, <1>3, <1>5, <1>6, <1>7, <1>8 DEF Reads
<1> QED BY <1>1, <1>2, <1>9, BooksMember

\* Books is inductive, given the types.
LEMMA BooksNext == TypeInv /\ Books /\ [Next]_vars => Books'
<1> SUFFICES ASSUME TypeInv, Books, [Next]_vars PROVE Books'
  OBVIOUS
<1>1. CASE AnnounceNew
  BY <1>1, NewTakesIn, BooksTakesIn, CircleAssumption
<1>2. ASSUME NEW d \in Devices, NEW a \in announces, Admit(d, a) PROVE Books'
  BY <1>2, AdmitTakesIn, BooksTakesIn
<1>3. CASE Seal
  BY <1>3, BooksSeal
<1>6. CASE AnnounceNewest \/ SealUnsigned
  <2>1. UNCHANGED <<record, used, joined, trimmed, evicted>>
    BY <1>6 DEF AnnounceNewest, SealUnsigned, Refuse, history
  <2> QED BY <2>1, BooksQuiet
<1>4. ASSUME NEW d \in Devices, NEW n \in notes, Open(d, n) PROVE Books'
  <2>1. CASE OpenUnknown(d, n) \/ OpenForged(d, n) \/ OpenTooFar(d, n)
    <3>1. UNCHANGED <<announces, notes, made, record, used, joined, trimmed, evicted>>
      BY <2>1 DEF OpenUnknown, OpenForged, OpenTooFar, Refuse, history
    <3> QED BY <3>1, BooksQuiet
  <2> QED BY <1>4, <2>1, BooksBehind, BooksAhead DEF Open
<1>5. CASE UNCHANGED vars
  <2>1. UNCHANGED <<record, announces, notes, made, used, joined, trimmed, evicted, last>>
    BY <1>5 DEF vars
  <2> QED BY <2>1, BooksQuiet
<1> QED BY <1>1, <1>2, <1>3, <1>4, <1>5, <1>6 DEF Next

LEMMA BooksAlways == Spec => []Books
BY TypeInvAlways, BooksInit, BooksNext, PTL DEF Spec

\* A refusal as a replay: the member that verified the note is past its step
\* and does not keep it, so Accounted names the reason.
LEMMA ReplayExplainedNext ==
  TypeInv /\ Books /\ ReplayExplained /\ [Next]_vars => ReplayExplained'
<1> SUFFICES ASSUME TypeInv, Books, ReplayExplained, [Next]_vars PROVE ReplayExplained'
  OBVIOUS
<1>1. CASE last' = NoCall
  BY <1>1 DEF ReplayExplained, NoCall
<1>2. ASSUME NEW d \in Devices, NEW n \in notes, Open(d, n) PROVE ReplayExplained'
  <2>1. CASE OpenUnknown(d, n) \/ OpenForged(d, n) \/ OpenTooFar(d, n)
    <3>1. last'.fault \in {"NoSession", "BadSignature", "BadMessage"}
      BY <2>1 DEF OpenUnknown, OpenForged, OpenTooFar, Refuse, Answer
    <3> QED BY <3>1 DEF ReplayExplained
  <2>2. CASE OpenAhead(d, n)
    <3>1. last'.fault = "none"
      BY <2>2 DEF OpenAhead, Answer
    <3> QED BY <3>1 DEF ReplayExplained
  <2>3. CASE OpenBehind(d, n)
    <3>1. PICK i \in DOMAIN record[d] :
            /\ Opener(d, n, i) /\ Behind(record[d][i], n)
            /\ \/ Answer(d, n, "none")
               \/ n.step \notin record[d][i].skipped /\ Refuse(d, n, "Replay")
      BY <2>3 DEF OpenBehind
    <3>2. CASE Answer(d, n, "none")
      BY <3>2 DEF Answer, ReplayExplained
    <3>3. CASE n.step \notin record[d][i].skipped /\ Refuse(d, n, "Replay")
      <4>1. /\ last'.device = d /\ last'.key = n.key /\ last'.step = n.step
            /\ UNCHANGED <<used, joined, trimmed>>
        BY <3>3 DEF Refuse, Answer, history
      <4>2. n.step \in Steps /\ n.step < record[d][i].step /\ n.key = record[d][i].key
        BY <3>1 DEF Behind, Opener, TypeInv, TypeOK, Note
      <4>3. \/ <<n.key, n.step>> \in used[d]
            \/ <<n.key, n.step>> \in trimmed[d]
            \/ Earlier(joined[d], n.key, n.step)
        BY <3>3, <4>2 DEF Books, Accounted
      <4> QED BY <4>1, <4>3 DEF ReplayExplained, Earlier
    <3> QED BY <3>1, <3>2, <3>3
  <2> QED BY <1>2, <2>1, <2>2, <2>3 DEF Open
<1>3. CASE UNCHANGED vars
  <2>1. UNCHANGED <<used, joined, trimmed, last>>
    BY <1>3 DEF vars
  <2> QED BY <2>1 DEF ReplayExplained
<1>4. CASE SealUnsigned
  <2>1. last'.fault = "BadSession"
    BY <1>4 DEF SealUnsigned, Refuse, Answer
  <2> QED BY <2>1 DEF ReplayExplained
<1> QED BY <1>1, <1>2, <1>3, <1>4 DEF Next, AnnounceNew, AnnounceNewest, Admit, Seal

\* circleOpen refuses a note as a replay for a reason the device's own record
\* accounts for: opened or sealed here, trimmed, or sealed before the announcement.
THEOREM ReplaysExplained == Spec => []ReplayExplained
<1>1. Init => ReplayExplained
  BY DEF Init, ReplayExplained, NoCall
<1> QED BY <1>1, TypeInvAlways, BooksAlways, ReplayExplainedNext, PTL DEF Spec

\* A note opens at a step its member had not read, or on a chain once evicted.
LEMMA OpensOnceStep ==
  ASSUME TypeInv, Books, [Next]_vars
  PROVE  [last' # NoCall /\ last'.fault = "none" =>
            \/ <<last'.key, last'.step>> \notin used[last'.device]
            \/ last'.key \in evicted[last'.device]]_vars
<1> SUFFICES ASSUME Next, last' # NoCall, last'.fault = "none"
             PROVE  \/ <<last'.key, last'.step>> \notin used[last'.device]
                    \/ last'.key \in evicted[last'.device]
  OBVIOUS
<1>1. PICK d \in Devices, n \in notes : Open(d, n)
  <2>1. SealUnsigned => last'.fault = "BadSession"
    BY DEF SealUnsigned, Refuse, Answer
  <2> QED BY <2>1 DEF Next, AnnounceNew, AnnounceNewest, Admit, Seal
<1>2. OpenBehind(d, n) \/ OpenAhead(d, n)
  BY <1>1 DEF Open, OpenUnknown, OpenForged, OpenTooFar, Refuse, Answer
<1>3. PICK i \in DOMAIN record[d] :
        /\ Opener(d, n, i)
        /\ ~ (n.step < record[d][i].step) \/ n.step \in record[d][i].skipped
        /\ last'.device = d /\ last'.key = n.key /\ last'.step = n.step
  <2>1. CASE OpenBehind(d, n)
    <3>1. PICK i \in DOMAIN record[d] :
            /\ Opener(d, n, i)
            /\ \/ n.step \in record[d][i].skipped /\ Answer(d, n, "none")
               \/ Refuse(d, n, "Replay")
      BY <2>1 DEF OpenBehind
    <3>2. n.step \in record[d][i].skipped /\ Answer(d, n, "none")
      BY <3>1 DEF Refuse, Answer
    <3> QED BY <3>1, <3>2 DEF Answer
  <2>2. CASE OpenAhead(d, n)
    <3>1. PICK i \in DOMAIN record[d] :
            Opener(d, n, i) /\ ~ Behind(record[d][i], n) /\ Answer(d, n, "none")
      BY <2>2 DEF OpenAhead
    <3>2. record[d][i].step \in Int /\ n.step \in Int
      <4>1. record[d] \in Seq(Member)
        BY DEF TypeInv, TypeOK
      <4>2. record[d][i] \in Member
        BY <4>1, LenProperties, ElementOfSeq
      <4> QED BY <4>2 DEF Member, Steps, TypeInv, TypeOK, Note
    <3> QED BY <3>1, <3>2 DEF Answer, Behind
  <2> QED BY <1>2, <2>1, <2>2
<1>4. n.step \in Steps /\ n.key = record[d][i].key
  BY <1>3 DEF Opener, TypeInv, TypeOK, Note
<1> QED BY <1>3, <1>4 DEF Books, UsedBehind

\* circleOpen gives a note's text once, except on a chain that fell out of the
\* record and was admitted again.
THEOREM OpenedOnce == Spec => OpensOnce
BY TypeInvAlways, BooksAlways, OpensOnceStep, PTL DEF Spec, OpensOnce

-----------------------------------------------------------------------------
(* Ledger, the balance of a device's books.    Accounted says that no step  *)
(* is missing; what is left is that no step is booked twice, and that a     *)
(* chain never evicted was taken in once, at one step.                      *)

\* A chain taken in, or with a key trimmed, is in the record or was evicted.
TakenHeld ==
  \A d \in Devices : \A o \in joined[d] \cup trimmed[d] :
    o[1] \in HeldKeys(record[d]) \/ o[1] \in evicted[d]

\* A chain never evicted was taken in at one step.
JoinedOnce ==
  \A d \in Devices : \A k \in Keys \ evicted[d] : \A t1, t2 \in Steps :
    <<k, t1>> \in joined[d] /\ <<k, t2>> \in joined[d] => t1 = t2

\* The steps of chain k in one of the histories.
StepsOf(k, books) == {s \in Steps : <<k, s>> \in books}

\* The member m holds its chain since step j, and what is dealt with or kept
\* lies from there up to its link.
Since(m, j, read, gone, taken) ==
  /\ <<m.key, j>> \in taken /\ j <= m.step
  /\ \A s \in StepsOf(m.key, read) \cup StepsOf(m.key, gone) \cup m.skipped :
       j <= s /\ s < m.step

\* No step of the member's chain is dealt with in two ways.
BookedOnce(m, read, gone) ==
  /\ StepsOf(m.key, read) \cap StepsOf(m.key, gone) = {}
  /\ StepsOf(m.key, read) \cap m.skipped = {}
  /\ StepsOf(m.key, gone) \cap m.skipped = {}

Balanced(m, read, gone, taken, out) ==
  m.key \notin out => BookedOnce(m, read, gone) /\ \E j \in Steps : Since(m, j, read, gone, taken)

LedgerInv ==
  /\ TakenHeld
  /\ JoinedOnce
  /\ \A d \in Devices : \A i \in DOMAIN record[d] :
       Balanced(record[d][i], used[d], trimmed[d], joined[d], evicted[d])

LEMMA LedgerInit == Init => LedgerInv
BY DEF Init, LedgerInv, TakenHeld, JoinedOnce

\* A step that leaves the records alone leaves their ledgers.
LEMMA LedgerQuiet ==
  ASSUME LedgerInv, UNCHANGED <<record, used, joined, trimmed, evicted>>
  PROVE  LedgerInv'
BY DEF LedgerInv, TakenHeld, JoinedOnce, HeldKeys

\* The invariant gives the balance: Accounted says that nothing is missing.
LEMMA LedgerHolds ==
  ASSUME TypeInv, Books, LedgerInv
  PROVE  Ledger
<1> SUFFICES ASSUME NEW d \in Devices, NEW i \in DOMAIN record[d], NEW s \in Steps,
                    record[d][i].key \notin evicted[d]
             PROVE  LET m == record[d][i]
                        before == Before(d, m.key, s)
                        read == <<m.key, s>> \in used[d]
                        gone == <<m.key, s>> \in trimmed[d]
                        kept == s \in m.skipped
                    IN  /\ s < m.step <=> before \/ read \/ gone \/ kept
                        /\ ~ (before /\ read) /\ ~ (before /\ gone) /\ ~ (before /\ kept)
                        /\ ~ (read /\ gone) /\ ~ (read /\ kept) /\ ~ (gone /\ kept)
  BY DEF Ledger
<1> DEFINE m == record[d][i]
<1>1. m \in Member /\ m.key \in Keys /\ m.step \in Int /\ Steps \subseteq Int
  BY MemberTypes
<1>2. PICK j \in Steps : Since(m, j, used[d], trimmed[d], joined[d])
  BY DEF LedgerInv, Balanced
<1>3. \A t \in Steps : <<m.key, t>> \in joined[d] => t = j
  BY <1>1, <1>2 DEF LedgerInv, JoinedOnce, Since
<1>4. Before(d, m.key, s) <=> s < j
  BY <1>2, <1>3 DEF Before, Since
<1>5. Earlier(joined[d], m.key, s) => s < j
  BY <1>3 DEF Earlier
<1>6. s < m.step =>
        s \in m.skipped \/ <<m.key, s>> \in used[d] \/ <<m.key, s>> \in trimmed[d] \/ s < j
  BY <1>5 DEF Books, Accounted
<1>7. s \in m.skipped \/ <<m.key, s>> \in used[d] \/ <<m.key, s>> \in trimmed[d] =>
        ~ (s < j) /\ s < m.step
  BY <1>1, <1>2 DEF Since, StepsOf, Member
<1>8. s < j => s < m.step
  BY <1>1, <1>2 DEF Since
<1>9. BookedOnce(m, used[d], trimmed[d])
  BY DEF LedgerInv, Balanced
<1> QED BY <1>4, <1>6, <1>7, <1>8, <1>9 DEF BookedOnce, StepsOf

\* A chain that comes in has no history here, or was evicted.
LEMMA LedgerTakesIn ==
  ASSUME TypeInv, Books, LedgerInv, NEW d \in Devices, NEW out, NEW m, TakesIn(d, out, m)
  PROVE  LedgerInv'
<1> DEFINE old == HeldKeys(record[d])
           new == {<<out[i].key, out[i].step>> : i \in {j \in DOMAIN out : out[j].key \notin old}}
<1>1. m \in Member /\ m.key \in Keys /\ m.step \in Steps /\ m.skipped = {} /\ Steps \subseteq Int
  BY DEF TakesIn, Member, Steps
<1>3. \A i \in DOMAIN out :
        \/ \E j \in DOMAIN record[d] : out[i] = record[d][j]
        \/ out[i] = m /\ m.key \notin old
  BY DEF TakesIn
<1>4. Store(d, out) /\ UNCHANGED <<used, trimmed>>
  BY DEF TakesIn
<1>5. /\ \A e \in Devices : record'[e] = IF e = d THEN out ELSE record[e]
      /\ \A e \in Devices : joined'[e] = IF e = d THEN joined[e] \cup new ELSE joined[e]
      /\ \A e \in Devices :
           evicted'[e] = IF e = d THEN evicted[e] \cup (old \ HeldKeys(out)) ELSE evicted[e]
  BY <1>4 DEF Store, TypeInv, TypeOK
<1>6. \A j \in DOMAIN record[d] : record[d][j].key \in old
  BY DEF HeldKeys
<1>7. \A o \in new : o = <<m.key, m.step>> /\ m.key \notin old /\ m.key \in HeldKeys(out)
  BY <1>3, <1>6 DEF HeldKeys
<1>8. \A i \in DOMAIN out :
        \/ \E j \in DOMAIN record[d] : out[i] = record[d][j]
        \/ out[i] = m /\ m.key \notin old /\ <<m.key, m.step>> \in new
  BY <1>3
<1> HIDE DEF new, old
<1>9. TakenHeld'
  <2> SUFFICES ASSUME NEW e \in Devices, NEW o \in joined'[e] \cup trimmed'[e]
               PROVE  o[1] \in HeldKeys(record'[e]) \/ o[1] \in evicted'[e]
    BY DEF TakenHeld
  <2>1. CASE o \in joined[e] \cup trimmed[e]
    <3>1. o[1] \in HeldKeys(record[e]) \/ o[1] \in evicted[e]
      BY <2>1 DEF LedgerInv, TakenHeld
    <3> QED BY <1>5, <3>1 DEF old
  <2>2. CASE e = d /\ o \in new
    BY <1>5, <1>7, <2>2
  <2> QED BY <1>4, <1>5, <2>1, <2>2
<1>10. m.key \notin old /\ m.key \notin evicted[d] =>
         \A t \in Steps : /\ <<m.key, t>> \notin joined[d] /\ <<m.key, t>> \notin trimmed[d]
                          /\ <<m.key, t>> \notin used[d]
  <2> SUFFICES ASSUME m.key \notin old, m.key \notin evicted[d], NEW t \in Steps,
                      <<m.key, t>> \in joined[d] \cup trimmed[d] \cup used[d]
               PROVE  FALSE
    OBVIOUS
  <2>1. CASE <<m.key, t>> \in joined[d] \cup trimmed[d]
    BY <2>1 DEF LedgerInv, TakenHeld, old
  <2>2. CASE <<m.key, t>> \in used[d]
    BY <2>2 DEF Books, UsedHeld, old
  <2> QED BY <2>1, <2>2
<1>11. JoinedOnce'
  <2> SUFFICES ASSUME NEW e \in Devices, NEW k \in Keys, k \notin evicted'[e],
                      NEW t1 \in Steps, NEW t2 \in Steps,
                      <<k, t1>> \in joined'[e], <<k, t2>> \in joined'[e]
               PROVE  t1 = t2
    BY DEF JoinedOnce
  <2>1. CASE <<k, t1>> \in joined[e] /\ <<k, t2>> \in joined[e]
    BY <1>5, <2>1 DEF LedgerInv, JoinedOnce
  <2>2. CASE e = d /\ (<<k, t1>> \in new \/ <<k, t2>> \in new)
    <3>1. k = m.key /\ m.key \notin old /\ m.key \notin evicted[d]
      BY <1>5, <1>7, <2>2
    <3>2. <<k, t1>> \in new /\ <<k, t2>> \in new
      BY <1>5, <1>10, <2>2, <3>1
    <3> QED BY <1>7, <3>2
  <2> QED BY <1>5, <2>1, <2>2
<1>12. ASSUME NEW e \in Devices, NEW i \in DOMAIN record'[e]
       PROVE  Balanced(record'[e][i], used'[e], trimmed'[e], joined'[e], evicted'[e])
  <2>1. CASE \E j \in DOMAIN record[e] : record'[e][i] = record[e][j]
    <3>1. PICK j \in DOMAIN record[e] : record'[e][i] = record[e][j]
      BY <2>1
    <3>2. Balanced(record[e][j], used[e], trimmed[e], joined[e], evicted[e])
      BY DEF LedgerInv
    <3>3. joined[e] \subseteq joined'[e] /\ evicted[e] \subseteq evicted'[e]
      BY <1>5
    <3> QED BY <1>4, <3>1, <3>2, <3>3 DEF Balanced, Since
  <2>2. CASE e = d /\ record'[e][i] = m /\ m.key \notin old /\ <<m.key, m.step>> \in new
    <3> SUFFICES ASSUME m.key \notin evicted'[d]
                 PROVE  /\ BookedOnce(m, used'[d], trimmed'[d])
                        /\ Since(m, m.step, used'[d], trimmed'[d], joined'[d])
      BY <1>1, <2>2 DEF Balanced
    <3>1. m.key \notin evicted[d] /\ <<m.key, m.step>> \in joined'[d]
      BY <1>5, <2>2
    <3>2. StepsOf(m.key, used'[d]) = {} /\ StepsOf(m.key, trimmed'[d]) = {}
      BY <1>4, <1>10, <2>2, <3>1 DEF StepsOf
    <3>3. m.step <= m.step
      <4>1. m.step \in Int
        BY <1>1
      <4> QED BY <4>1
    <3> QED BY <1>1, <3>1, <3>2, <3>3 DEF BookedOnce, Since
  <2>3. CASE e # d
    BY <1>5, <2>1, <2>3
  <2> QED BY <1>5, <1>8, <2>1, <2>2, <2>3
<1> QED BY <1>9, <1>11, <1>12 DEF LedgerInv

\* A note opened or sealed: the member at i becomes m, done with step s0, kept or
\* not yet reached, and rid of the steps of X, of those it had kept or passed
\* over; what it keeps is of these too.
Deals(d, i, m, s0, X) ==
  LET old == record[d][i] IN
  /\ m.key = old.key /\ old.step <= m.step
  /\ s0 \in old.skipped \/ old.step <= s0
  /\ s0 < m.step /\ s0 \notin m.skipped /\ s0 \notin X
  /\ \A s \in m.skipped \cup X : (s \in old.skipped \/ old.step <= s) /\ s < m.step
  /\ m.skipped \cap X = {}
  /\ \A e \in Devices : DOMAIN record'[e] = DOMAIN record[e]
  /\ \A e \in Devices : \A j \in DOMAIN record[e] :
       record'[e][j] = IF e = d /\ j = i THEN m ELSE record[e][j]
  /\ used' = [used EXCEPT ![d] = @ \cup {<<m.key, s0>>}]
  /\ trimmed' = [trimmed EXCEPT ![d] = @ \cup {<<m.key, s>> : s \in X}]
  /\ UNCHANGED <<joined, evicted>>

\* It leaves the member balanced, and does not touch the others.
LEMMA LedgerMember ==
  ASSUME TypeInv, Books, LedgerInv, NEW d \in Devices, NEW i \in DOMAIN record[d],
         NEW m \in Member, NEW s0 \in Steps, NEW X \in SUBSET Steps, Deals(d, i, m, s0, X)
  PROVE  LedgerInv'
<1> DEFINE old == record[d][i]
<1>1. /\ old \in Member /\ old.step \in Int /\ m.step \in Int /\ Steps \subseteq Int
      /\ old.skipped \subseteq Steps /\ m.skipped \subseteq Steps
      /\ old.key \in HeldKeys(record[d]) /\ m.key = old.key
  BY MemberTypes DEF Member, Deals
<1>2. /\ \A e \in Devices :
           used'[e] = IF e = d THEN used[e] \cup {<<m.key, s0>>} ELSE used[e]
      /\ \A e \in Devices :
           trimmed'[e] = IF e = d THEN trimmed[e] \cup {<<m.key, s>> : s \in X} ELSE trimmed[e]
  BY DEF Deals, TypeInv, TypeOK
<1>3. \A e \in Devices : HeldKeys(record'[e]) = HeldKeys(record[e])
  <2>1. \A e \in Devices : \A j \in DOMAIN record[e] : record'[e][j].key = record[e][j].key
    BY DEF Deals
  <2> QED BY <2>1 DEF HeldKeys, Deals
<1>4. TakenHeld'
  <2> SUFFICES ASSUME NEW e \in Devices, NEW o \in joined[e] \cup trimmed'[e]
               PROVE  o[1] \in HeldKeys(record[e]) \/ o[1] \in evicted[e]
    BY <1>3 DEF TakenHeld, Deals
  <2>1. CASE o \in joined[e] \cup trimmed[e]
    BY <2>1 DEF LedgerInv, TakenHeld
  <2>2. CASE e = d /\ o \in {<<m.key, s>> : s \in X}
    BY <1>1, <2>2
  <2> QED BY <1>2, <2>1, <2>2
<1>5. JoinedOnce'
  BY DEF LedgerInv, JoinedOnce, Deals
<1>6. /\ StepsOf(m.key, used'[d]) = StepsOf(m.key, used[d]) \cup {s0}
      /\ StepsOf(m.key, trimmed'[d]) = StepsOf(m.key, trimmed[d]) \cup X
  BY <1>2 DEF StepsOf
<1>7. Balanced(old, used[d], trimmed[d], joined[d], evicted[d])
  BY DEF LedgerInv
<1>8. Balanced(m, used'[d], trimmed'[d], joined[d], evicted[d])
  <2> SUFFICES ASSUME m.key \notin evicted[d]
               PROVE  /\ BookedOnce(m, used'[d], trimmed'[d])
                      /\ \E j \in Steps : Since(m, j, used'[d], trimmed'[d], joined[d])
    BY DEF Balanced
  <2> DEFINE read == StepsOf(m.key, used[d])
             gone == StepsOf(m.key, trimmed[d])
  <2>1. PICK j \in Steps : Since(old, j, used[d], trimmed[d], joined[d])
    BY <1>1, <1>7 DEF Balanced
  <2>2. /\ j \in Int /\ j <= old.step /\ <<m.key, j>> \in joined[d]
        /\ \A s \in read \cup gone \cup old.skipped : j <= s /\ s < old.step
    BY <1>1, <2>1 DEF Since
  <2>3. read \cap gone = {} /\ read \cap old.skipped = {} /\ gone \cap old.skipped = {}
    BY <1>1, <1>7 DEF Balanced, BookedOnce
  <2> read \subseteq Steps /\ gone \subseteq Steps
    BY DEF StepsOf
  <2> HIDE DEF read, gone
  <2>4. /\ old.step <= m.step
        /\ s0 \in old.skipped \/ old.step <= s0
        /\ s0 < m.step /\ s0 \notin m.skipped /\ s0 \notin X
        /\ \A s \in m.skipped \cup X : (s \in old.skipped \/ old.step <= s) /\ s < m.step
        /\ m.skipped \cap X = {}
    BY DEF Deals
  <2>5. \A s \in read \cup gone : ~ (s \in old.skipped) /\ ~ (old.step <= s)
    <3>1. \A s \in read \cup gone : s \notin old.skipped
      BY <2>3
    <3>2. \A s \in read \cup gone : s \in Int /\ s < old.step
      BY <1>1, <2>2
    <3>3. \A s \in Int : s < old.step => ~ (old.step <= s)
      BY <1>1
    <3> HIDE DEF old
    <3> QED BY <3>1, <3>2, <3>3
  <2>6. /\ (read \cup {s0}) \cap (gone \cup X) = {}
        /\ (read \cup {s0}) \cap m.skipped = {}
        /\ (gone \cup X) \cap m.skipped = {}
    BY <2>3, <2>4, <2>5
  <2>7. j <= m.step
    BY <1>1, <2>2, <2>4
  <2>8. \A s \in (read \cup {s0}) \cup (gone \cup X) \cup m.skipped : j <= s /\ s < m.step
    <3>1. \A s \in Steps : (s \in old.skipped \/ old.step <= s) => j <= s
      BY <1>1, <2>2
    <3>2. \A s \in read \cup gone : j <= s /\ s < m.step
      BY <1>1, <2>2, <2>4
    <3> QED BY <1>1, <2>4, <3>1, <3>2
  <2> QED BY <1>6, <2>2, <2>6, <2>7, <2>8 DEF BookedOnce, Since, read, gone
<1>9. ASSUME NEW e \in Devices, NEW j \in DOMAIN record[e]
      PROVE  Balanced(record'[e][j], used'[e], trimmed'[e], joined[e], evicted[e])
  <2>1. CASE e = d /\ j = i
    BY <1>8, <2>1 DEF Deals
  <2>2. CASE ~ (e = d /\ j = i)
    <3>1. record'[e][j] = record[e][j]
      BY <2>2 DEF Deals
    <3>2. /\ StepsOf(record[e][j].key, used'[e]) = StepsOf(record[e][j].key, used[e])
          /\ StepsOf(record[e][j].key, trimmed'[e]) = StepsOf(record[e][j].key, trimmed[e])
      <4>1. CASE e # d
        BY <1>2, <4>1
      <4>2. CASE e = d
        <5>1. record[d][j].key # m.key
          BY <1>1, <2>2, <4>2, OneKey
        <5> QED BY <1>2, <4>2, <5>1 DEF StepsOf
      <4> QED BY <4>1, <4>2
    <3>3. Balanced(record[e][j], used[e], trimmed[e], joined[e], evicted[e])
      BY DEF LedgerInv
    <3> QED BY <3>1, <3>2, <3>3 DEF Balanced, BookedOnce, Since
  <2> QED BY <2>1, <2>2
<1>10. \A e \in Devices : \A j \in DOMAIN record'[e] :
         Balanced(record'[e][j], used'[e], trimmed'[e], joined'[e], evicted'[e])
  BY <1>9 DEF Deals
<1> QED BY <1>4, <1>5, <1>10 DEF LedgerInv

\* circleOpen of a note behind the link: its kept key is used up.
LEMMA LedgerBehind ==
  ASSUME TypeInv, Books, LedgerInv, NEW d \in Devices, NEW n \in notes, OpenBehind(d, n)
  PROVE  LedgerInv'
<1>1. PICK i \in DOMAIN record[d] :
        /\ Opener(d, n, i) /\ Behind(record[d][i], n)
        /\ \/ /\ n.step \in record[d][i].skipped
              /\ record' = [record EXCEPT ![d][i].skipped = @ \ {n.step}]
              /\ used' = [used EXCEPT ![d] = @ \cup {<<n.key, n.step>>}]
              /\ UNCHANGED <<joined, trimmed, evicted>>
           \/ Refuse(d, n, "Replay")
  BY DEF OpenBehind
<1>2. CASE Refuse(d, n, "Replay")
  <2>1. UNCHANGED <<record, used, joined, trimmed, evicted>>
    BY <1>2 DEF Refuse, history
  <2> QED BY <2>1, LedgerQuiet
<1>3. ASSUME n.step \in record[d][i].skipped,
             record' = [record EXCEPT ![d][i].skipped = @ \ {n.step}],
             used' = [used EXCEPT ![d] = @ \cup {<<n.key, n.step>>}],
             UNCHANGED <<joined, trimmed, evicted>>
      PROVE  LedgerInv'
  <2> DEFINE old == record[d][i]
             m == Spent(old, n.step)
  <2>0. record' = [record EXCEPT ![d][i] = m]
    BY <1>3 DEF Spent
  <2>1. /\ old \in Member /\ m \in Member
        /\ Cardinality(m.skipped) <= MaxSkipped
        /\ \A s \in m.skipped : s < m.step
        /\ m.id = old.id /\ m.key = old.key /\ m.step = old.step /\ m.signs = old.signs
        /\ m.skipped = old.skipped \ {n.step}
    BY <1>3, BehindStep
  <2> HIDE DEF m
  <2>2. old.step \in Int /\ old.step <= m.step
    BY <2>1 DEF Member, Steps
  <2>3. /\ \A e \in Devices : DOMAIN record'[e] = DOMAIN record[e]
        /\ \A e \in Devices : \A j \in DOMAIN record[e] :
             record'[e][j] = IF e = d /\ j = i THEN m ELSE record[e][j]
    BY <2>0, <2>1, <2>2, MemberStep
  <2>4. n.step \in Steps /\ n.step < old.step /\ n.key = old.key
    BY <1>1 DEF Behind, Opener, TypeInv, TypeOK, Note
  <2>6. used' = [used EXCEPT ![d] = @ \cup {<<m.key, n.step>>}]
    BY <1>3, <2>1, <2>4
  <2>7. trimmed' = [trimmed EXCEPT ![d] = @ \cup {<<m.key, s>> : s \in {}}]
    BY <1>3 DEF TypeInv, TypeOK
  <2>8. \A s \in m.skipped : s \in old.skipped /\ s < m.step
    BY <2>1
  <2>9. Deals(d, i, m, n.step, {})
    BY <1>3, <2>1, <2>2, <2>3, <2>4, <2>6, <2>7, <2>8 DEF Deals
  <2> QED BY <2>1, <2>4, <2>9, LedgerMember
<1> QED BY <1>1, <1>2, <1>3

\* circleOpen of a note at the link or ahead of it.
LEMMA LedgerAhead ==
  ASSUME TypeInv, Books, LedgerInv, NEW d \in Devices, NEW n \in notes, OpenAhead(d, n)
  PROVE  LedgerInv'
<1>1. PICK i \in DOMAIN record[d] :
        LET old == record[d][i]
            kept == KeepSkipped(old.skipped, Passed(old, n)) IN
        /\ Opener(d, n, i)
        /\ ~ Behind(old, n)
        /\ record' = [record EXCEPT ![d][i] =
             [id |-> old.id, key |-> old.key, step |-> n.step + 1, skipped |-> kept,
              signs |-> old.signs]]
        /\ used' = [used EXCEPT ![d] = @ \cup {<<n.key, n.step>>}]
        /\ trimmed' = [trimmed EXCEPT ![d] = @ \cup
             {<<old.key, s>> : s \in (old.skipped \cup Passed(old, n)) \ kept}]
        /\ UNCHANGED <<joined, evicted>>
  BY DEF OpenAhead
<1> DEFINE old == record[d][i]
           kept == KeepSkipped(old.skipped, Passed(old, n))
           m == [id |-> old.id, key |-> old.key, step |-> n.step + 1, skipped |-> kept,
                 signs |-> old.signs]
           X == (old.skipped \cup Passed(old, n)) \ kept
<1>2. old \in Member /\ old.skipped \subseteq Steps
  BY MemberTypes DEF Member
<1>3. /\ old.step <= n.step /\ old.step \in Int /\ n.step \in Steps /\ Steps \subseteq Int
      /\ n.key = old.key /\ \A s \in old.skipped : s < old.step
  BY <1>1, <1>2 DEF Behind, Opener, Member, Steps, TypeInv, TypeOK, RecordWellFormed, Note
<1>4. /\ m \in Member /\ m.id = old.id /\ m.key = old.key /\ m.signs = old.signs
      /\ m.step = n.step + 1 /\ m.skipped = kept
      /\ Passed(old, n) \subseteq Steps
      /\ kept \subseteq old.skipped \cup Passed(old, n)
      /\ Cardinality(m.skipped) <= MaxSkipped
      /\ \A s \in m.skipped : s < m.step
  BY <1>3, AheadStep
<1>5. record' = [record EXCEPT ![d][i] = m]
  BY <1>1
<1>6. used' = [used EXCEPT ![d] = @ \cup {<<m.key, n.step>>}]
  BY <1>1, <1>3, <1>4
<1>7. trimmed' = [trimmed EXCEPT ![d] = @ \cup {<<m.key, s>> : s \in X}]
  BY <1>1, <1>4
<1> HIDE DEF kept, m, X
<1>9. n.step \in Int /\ n.step < m.step /\ old.step <= m.step
  <2>1. n.step \in Int
    BY <1>3
  <2> QED BY <1>3, <1>4, <2>1
<1>8. /\ \A e \in Devices : DOMAIN record'[e] = DOMAIN record[e]
      /\ \A e \in Devices : \A j \in DOMAIN record[e] :
           record'[e][j] = IF e = d /\ j = i THEN m ELSE record[e][j]
  BY <1>4, <1>5, <1>9, MemberStep
<1>10. \A s \in Passed(old, n) : old.step <= s /\ s < n.step
  BY <1>3, <1>9 DEF Passed
<1>11. n.step \notin old.skipped \cup Passed(old, n)
  BY <1>3, <1>9, <1>10
<1>12. \A s \in old.skipped \cup Passed(old, n) :
         (s \in old.skipped \/ old.step <= s) /\ s < m.step
  <2>1. \A s \in old.skipped \cup Passed(old, n) : s \in Int
    BY <1>2, <1>3, <1>4
  <2>2. \A s \in old.skipped : s < n.step
    <3> SUFFICES ASSUME NEW s \in old.skipped PROVE s < n.step
      OBVIOUS
    <3>1. s \in Int /\ s < old.step
      BY <1>3, <2>1
    <3> QED BY <1>3, <1>9, <3>1
  <2> QED BY <1>4, <1>9, <1>10, <2>1, <2>2
<1>13. /\ n.step \notin m.skipped /\ n.step \notin X /\ m.skipped \cap X = {}
       /\ m.skipped \cup X \subseteq old.skipped \cup Passed(old, n)
       /\ X \in SUBSET Steps
  BY <1>2, <1>4, <1>11 DEF X
<1>14. UNCHANGED <<joined, evicted>>
  BY <1>1
<1>15. Deals(d, i, m, n.step, X)
  BY <1>3, <1>4, <1>6, <1>7, <1>8, <1>9, <1>12, <1>13, <1>14 DEF Deals
<1> QED BY <1>3, <1>4, <1>13, <1>15, LedgerMember

\* seal.
LEMMA LedgerSeal ==
  ASSUME TypeInv, Books, LedgerInv, Seal
  PROVE  LedgerInv'
<1> DEFINE old == record[Sender][1]
           m == Advance(old)
<1>1. /\ 1 \in DOMAIN record[Sender] /\ m \in Member /\ old.step \in Steps
      /\ m.id = old.id /\ m.key = old.key /\ m.signs = old.signs
      /\ m.step = old.step + 1 /\ m.skipped = old.skipped
      /\ record' = [record EXCEPT ![Sender][1] = m]
      /\ Cardinality(m.skipped) <= MaxSkipped /\ \A s \in m.skipped : s < m.step
  BY SealStep
<1>2. Sender \in Devices /\ old.step \in Int /\ Steps \subseteq Int
  BY <1>1, CircleAssumption DEF Steps
<1>3. /\ UNCHANGED <<joined, evicted>>
      /\ used' = [used EXCEPT ![Sender] = @ \cup {<<m.key, old.step>>}]
      /\ trimmed' = [trimmed EXCEPT ![Sender] = @ \cup {<<m.key, s>> : s \in {}}]
  BY <1>1 DEF Seal, TypeInv, TypeOK
<1>4. \A s \in old.skipped : s < old.step
  BY <1>1, <1>2 DEF TypeInv, RecordWellFormed
<1> HIDE DEF m
<1>5. old.step <= m.step /\ old.step < m.step /\ old.step <= old.step
  BY <1>1, <1>2
<1>6. /\ \A e \in Devices : DOMAIN record'[e] = DOMAIN record[e]
      /\ \A e \in Devices : \A j \in DOMAIN record[e] :
           record'[e][j] = IF e = Sender /\ j = 1 THEN m ELSE record[e][j]
  BY <1>1, <1>2, <1>5, MemberStep
<1>7. old.step \notin m.skipped
  BY <1>1, <1>2, <1>4
<1>8. Deals(Sender, 1, m, old.step, {})
  BY <1>1, <1>3, <1>5, <1>6, <1>7 DEF Deals
<1> QED BY <1>1, <1>2, <1>8, LedgerMember

\* LedgerInv is inductive, given the types and the books.
LEMMA LedgerNext == TypeInv /\ Books /\ LedgerInv /\ [Next]_vars => LedgerInv'
<1> SUFFICES ASSUME TypeInv, Books, LedgerInv, [Next]_vars PROVE LedgerInv'
  OBVIOUS
<1>1. CASE AnnounceNew
  BY <1>1, NewTakesIn, LedgerTakesIn, CircleAssumption
<1>2. ASSUME NEW d \in Devices, NEW a \in announces, Admit(d, a) PROVE LedgerInv'
  BY <1>2, AdmitTakesIn, LedgerTakesIn
<1>3. CASE Seal
  BY <1>3, LedgerSeal
<1>6. CASE AnnounceNewest \/ SealUnsigned
  <2>1. UNCHANGED <<record, used, joined, trimmed, evicted>>
    BY <1>6 DEF AnnounceNewest, SealUnsigned, Refuse, history
  <2> QED BY <2>1, LedgerQuiet
<1>4. ASSUME NEW d \in Devices, NEW n \in notes, Open(d, n) PROVE LedgerInv'
  <2>1. CASE OpenUnknown(d, n) \/ OpenForged(d, n) \/ OpenTooFar(d, n)
    <3>1. UNCHANGED <<record, used, joined, trimmed, evicted>>
      BY <2>1 DEF OpenUnknown, OpenForged, OpenTooFar, Refuse, history
    <3> QED BY <3>1, LedgerQuiet
  <2> QED BY <1>4, <2>1, LedgerBehind, LedgerAhead DEF Open
<1>5. CASE UNCHANGED vars
  <2>1. UNCHANGED <<record, used, joined, trimmed, evicted>>
    BY <1>5 DEF vars
  <2> QED BY <2>1, LedgerQuiet
<1> QED BY <1>1, <1>2, <1>3, <1>4, <1>5, <1>6 DEF Next

LEMMA LedgerAlways == Spec => []LedgerInv
BY TypeInvAlways, BooksAlways, LedgerInit, LedgerNext, PTL DEF Spec

\* yieldFor's and seal's books balance: on a chain held ever since it was taken in
\* or made, each step behind the link lies before the announcement, was opened or
\* sealed, was trimmed or is kept, and none is two of these.
THEOREM LedgerBalances == Spec => []Ledger
BY TypeInvAlways, BooksAlways, LedgerAlways, LedgerHolds, PTL
=============================================================================
