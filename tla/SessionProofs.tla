--------------------------- MODULE SessionProofs ---------------------------
(***************************************************************************)
(* Two devices' session records, for any numbers of sessions, messages,     *)
(* lanes, shelved states and kept keys, and any order of delivery.          *)
(***************************************************************************)
EXTENDS Session, FiniteSetTheorems, SequenceTheorems, TLAPS

-----------------------------------------------------------------------------
(* Types. *)

KeyPairs == Parties \X Nat
AllPaths == Seq(SUBSET KeyPairs)
Ids == OneTimeIds \cup {NoKey}
Lanes == [ratchet : KeyPairs, path : AllPaths, index : Nat, skipped : SUBSET Nat]
Sendings == [ratchet : KeyPairs, path : AllPaths, index : Nat]
StateSet ==
  [base : KeyPairs, root : AllPaths, sending : Sendings, receiving : Seq(Lanes),
   pending : {"none", "waiting", "stale"}, oneTimeId : Ids]
Archives == [live : Seq(StateSet), previous : Seq(StateSet)]
MessageSet ==
  [to : Parties, serial : Nat, kind : {"first", "whisper"}, base : KeyPairs, oneTimeId : Ids,
   ratchet : KeyPairs, path : AllPaths, index : Nat]

\* The states of a record, and that it is one: at most one is live, the shelf is
\* not over its limit, and a base has one state.
In(ar) == {States(ar)[i] : i \in DOMAIN States(ar)}

IsRecord(ar) ==
  /\ ar \in Archives /\ Len(ar.live) <= 1 /\ Len(ar.previous) <= MaxPrevious
  /\ \A i, j \in DOMAIN States(ar) : States(ar)[i].base = States(ar)[j].base => i = j

-----------------------------------------------------------------------------
(* The record (archive.zig). *)

\* The states in order: the live one, then the shelf.
LEMMA StatesAre ==
  ASSUME NEW ar \in Archives
  PROVE  /\ States(ar) \in Seq(StateSet)
         /\ DOMAIN States(ar) = 1..(Len(ar.live) + Len(ar.previous))
         /\ Len(ar.live) \in Nat /\ Len(ar.previous) \in Nat
         /\ \A i \in 1..(Len(ar.live) + Len(ar.previous)) :
              States(ar)[i] = IF i <= Len(ar.live) THEN ar.live[i] ELSE ar.previous[i - Len(ar.live)]
<1>1. ar.live \in Seq(StateSet) /\ ar.previous \in Seq(StateSet)
  BY DEF Archives
<1>2. /\ States(ar) \in Seq(StateSet)
      /\ Len(States(ar)) = Len(ar.live) + Len(ar.previous)
      /\ \A i \in 1..(Len(ar.live) + Len(ar.previous)) :
           States(ar)[i] = IF i <= Len(ar.live) THEN ar.live[i] ELSE ar.previous[i - Len(ar.live)]
  BY <1>1, ConcatProperties DEF States
<1>. QED
  BY <1>1, <1>2, LenProperties

LEMMA ShelfOnly ==
  ASSUME NEW ar \in Archives, Len(ar.live) = 0
  PROVE  /\ DOMAIN States(ar) = 1..Len(ar.previous) /\ Len(ar.previous) \in Nat
         /\ \A i \in 1..Len(ar.previous) : States(ar)[i] = ar.previous[i]
<1>1. /\ DOMAIN States(ar) = 1..(0 + Len(ar.previous)) /\ Len(ar.previous) \in Nat
      /\ \A i \in 1..(0 + Len(ar.previous)) :
           States(ar)[i] = IF i <= 0 THEN ar.live[i] ELSE ar.previous[i - 0]
  BY StatesAre
<1>. QED
  BY <1>1

LEMMA OneLive ==
  ASSUME NEW ar \in Archives, Len(ar.live) = 1
  PROVE  /\ DOMAIN States(ar) = 1..(1 + Len(ar.previous)) /\ Len(ar.previous) \in Nat
         /\ States(ar)[1] = ar.live[1]
         /\ \A i \in 2..(1 + Len(ar.previous)) : States(ar)[i] = ar.previous[i - 1]
<1>1. /\ DOMAIN States(ar) = 1..(1 + Len(ar.previous)) /\ Len(ar.previous) \in Nat
      /\ \A i \in 1..(1 + Len(ar.previous)) :
           States(ar)[i] = IF i <= 1 THEN ar.live[i] ELSE ar.previous[i - 1]
  BY StatesAre
<1>. QED
  BY <1>1

LEMMA InStates ==
  ASSUME NEW ar \in Archives
  PROVE  /\ In(ar) \subseteq StateSet
         /\ Bases(ar) = {s.base : s \in In(ar)}
         /\ Paths(ar) = UNION {PathsOf(s) : s \in In(ar)}
<1>1. \A i \in DOMAIN States(ar) : States(ar)[i] \in StateSet
  BY StatesAre, ElementOfSeq, LenProperties
<1>. QED
  BY <1>1 DEF In, Bases, Paths

LEMMA OneOfABase ==
  ASSUME NEW ar, IsRecord(ar), NEW s \in In(ar), NEW t \in In(ar), s.base = t.base
  PROVE  s = t
BY DEF IsRecord, In

\* shelve keeps the states in order, but for the oldest of a full shelf.
LEMMA ShelvedKeeps ==
  ASSUME NEW ar, IsRecord(ar)
  PROVE  /\ IsRecord(Shelved(ar)) /\ Shelved(ar).live = <<>>
         /\ \A i \in DOMAIN States(Shelved(ar)) :
              i \in DOMAIN States(ar) /\ States(Shelved(ar))[i] = States(ar)[i]
<1>. DEFINE new == Shelved(ar)
<1>1. /\ ar \in Archives /\ ar.live \in Seq(StateSet) /\ ar.previous \in Seq(StateSet)
      /\ Len(ar.live) <= 1
  BY DEF IsRecord, Archives
<1>2. CASE ar.live = <<>>
  BY <1>2 DEF Shelved
<1>3. CASE ar.live # <<>>
  <2>1. Len(ar.live) = 1
    <3>1. PICK n : n = Len(ar.live)
      OBVIOUS
    <3>2. n \in Nat \ {0}
      BY <1>1, <1>3, <3>1, EmptySeq
    <3>3. n <= 1
      BY <1>1, <3>1
    <3>4. n = 1
      BY <3>2, <3>3
    <3>. QED
      BY <3>1, <3>4
  <2>2. PICK rest : rest = IF Len(ar.previous) >= MaxPrevious THEN Front(ar.previous) ELSE ar.previous
    OBVIOUS
  <2>3. new = [live |-> <<>>, previous |-> ar.live \o rest]
    BY <1>3, <2>2 DEF Shelved
  <2>4. /\ rest \in Seq(StateSet) /\ Len(rest) <= Len(ar.previous) /\ Len(rest) < MaxPrevious
        /\ Len(rest) \in Nat
        /\ \A i \in 1..Len(rest) : rest[i] = ar.previous[i]
    <3>1. CASE Len(ar.previous) >= MaxPrevious
      <4>1. rest = SubSeq(ar.previous, 1, Len(ar.previous) - 1)
        BY <2>2, <3>1 DEF Front
      <4>2. Len(ar.previous) \in Nat /\ Len(ar.previous) >= 1 /\ Len(ar.previous) <= MaxPrevious
        BY <1>1, <3>1, SessionAssumption, LenProperties DEF IsRecord
      <4>3. \A i \in 1..(Len(ar.previous) - 1) : ar.previous[i] \in StateSet
        BY <1>1, <4>2, ElementOfSeq
      <4>4. /\ rest \in Seq(StateSet) /\ Len(rest) = Len(ar.previous) - 1
            /\ \A i \in 1..(Len(ar.previous) - 1) : rest[i] = ar.previous[i]
        BY <4>1, <4>2, <4>3, SubSeqProperties
      <4>. QED
        BY <4>2, <4>4, SessionAssumption
    <3>2. CASE ~ (Len(ar.previous) >= MaxPrevious)
      BY <1>1, <2>2, <3>2, SessionAssumption, LenProperties
    <3>. QED
      BY <3>1, <3>2
  <2>5. /\ ar.live \o rest \in Seq(StateSet) /\ Len(ar.live \o rest) = 1 + Len(rest)
        /\ \A i \in 1..(1 + Len(rest)) : (ar.live \o rest)[i] = IF i <= 1 THEN ar.live[i] ELSE rest[i - 1]
    <3>1. /\ ar.live \o rest \in Seq(StateSet) /\ Len(ar.live \o rest) = Len(ar.live) + Len(rest)
          /\ \A i \in 1..(Len(ar.live) + Len(rest)) :
               (ar.live \o rest)[i] = IF i <= Len(ar.live) THEN ar.live[i] ELSE rest[i - Len(ar.live)]
      BY <1>1, <2>4, ConcatProperties
    <3>. QED
      BY <2>1, <3>1
  <2>6. new \in Archives /\ new.live = <<>> /\ new.previous = ar.live \o rest
    BY <2>3, <2>5, EmptySeq DEF Archives
  <2>7. Len(new.live) = 0 /\ Len(new.previous) = 1 + Len(rest)
    BY <2>5, <2>6, EmptySeq
  <2>8. /\ \A i \in 1..(1 + Len(rest)) : States(new)[i] = (ar.live \o rest)[i]
        /\ DOMAIN States(new) = 1..(1 + Len(rest))
    BY <2>6, <2>7, <2>4, ShelfOnly
  <2>9. \A i \in 1..(1 + Len(rest)) : i \in DOMAIN States(ar) /\ States(ar)[i] = (ar.live \o rest)[i]
    <3>1. /\ DOMAIN States(ar) = 1..(1 + Len(ar.previous)) /\ Len(ar.previous) \in Nat
          /\ States(ar)[1] = ar.live[1]
          /\ \A i \in 2..(1 + Len(ar.previous)) : States(ar)[i] = ar.previous[i - 1]
      BY <1>1, <2>1, OneLive
    <3>2. (ar.live \o rest)[1] = ar.live[1]
      BY <2>4, <2>5
    <3>3. \A i \in 2..(1 + Len(rest)) : (ar.live \o rest)[i] = rest[i - 1] /\ i - 1 \in 1..Len(rest)
      BY <2>4, <2>5
    <3>4. \A i \in 2..(1 + Len(rest)) : i \in 2..(1 + Len(ar.previous))
      BY <2>4, <3>1
    <3>5. \A i \in 2..(1 + Len(rest)) :
            i \in DOMAIN States(ar) /\ States(ar)[i] = (ar.live \o rest)[i]
      <4>. TAKE i \in 2..(1 + Len(rest))
      <4>1. i \in 2..(1 + Len(ar.previous)) /\ i \in DOMAIN States(ar)
        BY <3>1, <3>4
      <4>2. States(ar)[i] = ar.previous[i - 1]
        BY <3>1, <4>1
      <4>3. (ar.live \o rest)[i] = rest[i - 1] /\ rest[i - 1] = ar.previous[i - 1]
        BY <2>4, <3>3
      <4>. QED
        BY <4>1, <4>2, <4>3
    <3>6. 1 \in DOMAIN States(ar)
      BY <3>1
    <3>7. \A i \in 1..(1 + Len(rest)) : i = 1 \/ i \in 2..(1 + Len(rest))
      BY <2>4
    <3>. QED
      BY <3>1, <3>2, <3>5, <3>6, <3>7
  <2>10. DOMAIN States(new) = 1..(1 + Len(rest))
    BY <2>8
  <2>11. \A i \in DOMAIN States(new) : i \in DOMAIN States(ar) /\ States(new)[i] = States(ar)[i]
    BY <2>8, <2>9, <2>10
  <2>12. IsRecord(new)
    BY <2>4, <2>6, <2>7, <2>11, SessionAssumption DEF IsRecord
  <2>. QED
    BY <2>6, <2>11, <2>12
<1>. QED
  BY <1>2, <1>3

LEMMA ShelvedIn ==
  ASSUME NEW ar, IsRecord(ar)
  PROVE  IsRecord(Shelved(ar)) /\ In(Shelved(ar)) \subseteq In(ar)
BY ShelvedKeeps DEF In

\* promote puts a state of a new base in front.
LEMMA PromoteKeeps ==
  ASSUME NEW ar, IsRecord(ar), NEW s \in StateSet, s.base \notin Bases(ar)
  PROVE  /\ IsRecord(Promote(ar, s)) /\ Promote(ar, s).live = <<s>>
         /\ s \in In(Promote(ar, s)) /\ In(Promote(ar, s)) \subseteq In(ar) \cup {s}
<1>1. PICK old : old = Shelved(ar)
  OBVIOUS
<1>2. PICK new : new = Promote(ar, s)
  OBVIOUS
<1>3. old \in Archives /\ IsRecord(old) /\ old.live = <<>> /\ Len(old.live) = 0
  BY <1>1, ShelvedKeeps, EmptySeq DEF IsRecord
<1>4. new = [live |-> <<s>>, previous |-> old.previous]
  BY <1>1, <1>2, <1>3 DEF Promote, Archives
<1>5. <<s>> \in Seq(StateSet) /\ Len(<<s>>) = 1 /\ <<s>>[1] = s
  OBVIOUS
<1>6. new \in Archives /\ new.live = <<s>> /\ new.previous = old.previous
  BY <1>3, <1>4, <1>5 DEF Archives
<1>7. /\ DOMAIN States(new) = 1..(1 + Len(old.previous)) /\ Len(old.previous) \in Nat
      /\ States(new)[1] = s
      /\ \A i \in 2..(1 + Len(old.previous)) : States(new)[i] = old.previous[i - 1]
  <2>1. new \in Archives /\ Len(new.live) = 1 /\ new.live[1] = s /\ new.previous = old.previous
    BY <1>5, <1>6
  <2>. QED
    BY <2>1, OneLive
<1>8. /\ DOMAIN States(old) = 1..Len(old.previous)
      /\ \A i \in 1..Len(old.previous) : States(old)[i] = old.previous[i]
  BY <1>3, ShelfOnly
<1>9. \A i \in 2..(1 + Len(old.previous)) :
        i - 1 \in DOMAIN States(old) /\ States(new)[i] = States(old)[i - 1]
  BY <1>7, <1>8
<1>10. \A i \in DOMAIN States(old) : States(old)[i].base # s.base
  <2>1. \A i \in DOMAIN States(old) : i \in DOMAIN States(ar) /\ States(old)[i] = States(ar)[i]
    BY <1>1, ShelvedKeeps
  <2>. QED
    BY <2>1 DEF Bases
<1>11. ASSUME NEW i \in DOMAIN States(new), NEW j \in DOMAIN States(new),
              States(new)[i].base = States(new)[j].base
       PROVE  i = j
  <2>1. i \in Nat /\ j \in Nat
    BY <1>7
  <2>2. i = 1 \/ i \in 2..(1 + Len(old.previous))
    BY <1>7
  <2>3. j = 1 \/ j \in 2..(1 + Len(old.previous))
    BY <1>7
  <2>4. CASE i = 1 /\ j = 1
    BY <2>4
  <2>5. CASE i = 1 /\ j \in 2..(1 + Len(old.previous))
    BY <1>7, <1>9, <1>10, <1>11, <2>5
  <2>6. CASE j = 1 /\ i \in 2..(1 + Len(old.previous))
    BY <1>7, <1>9, <1>10, <1>11, <2>6
  <2>7. CASE i \in 2..(1 + Len(old.previous)) /\ j \in 2..(1 + Len(old.previous))
    <3>1. i - 1 = j - 1
      BY <1>3, <1>9, <1>11, <2>7 DEF IsRecord
    <3>. QED
      BY <2>1, <3>1
  <2>. QED
    BY <2>2, <2>3, <2>4, <2>5, <2>6, <2>7
<1>12. IsRecord(new)
  BY <1>3, <1>5, <1>6, <1>11 DEF IsRecord
<1>13. s \in In(new)
  BY <1>7 DEF In
<1>14. In(new) \subseteq In(ar) \cup {s}
  <2>1. In(old) \subseteq In(ar)
    BY <1>1, ShelvedIn
  <2>2. \A i \in DOMAIN States(new) : States(new)[i] = s \/ States(new)[i] \in In(old)
    BY <1>7, <1>9 DEF In
  <2>. QED
    BY <2>1, <2>2 DEF In
<1>. QED
  BY <1>2, <1>6, <1>12, <1>13, <1>14

\* RemoveAt leaves the other elements, in order.
LEMMA RemoveAtIs ==
  ASSUME NEW S, NEW seq \in Seq(S), NEW i \in 1..Len(seq)
  PROVE  /\ RemoveAt(seq, i) \in Seq(S) /\ Len(RemoveAt(seq, i)) = Len(seq) - 1
         /\ \A j \in 1..(Len(seq) - 1) :
              RemoveAt(seq, i)[j] = IF j < i THEN seq[j] ELSE seq[j + 1]
<1>1. PICK n : n = Len(seq)
  OBVIOUS
<1>2. n \in Nat /\ i \in Nat /\ 1 <= i /\ i <= n /\ \A j \in 1..n : seq[j] \in S
  BY <1>1, LenProperties, ElementOfSeq
<1>3. PICK a, b : a = SubSeq(seq, 1, i - 1) /\ b = SubSeq(seq, i + 1, n)
  OBVIOUS
<1>4. /\ a \in Seq(S) /\ Len(a) = i - 1
      /\ \A j \in 1..(i - 1) : a[j] = seq[j]
  <2>1. 1 \in Int /\ i - 1 \in Int /\ \A j \in 1..(i - 1) : seq[j] \in S
    BY <1>2
  <2>2. /\ SubSeq(seq, 1, i - 1) \in Seq(S)
        /\ Len(SubSeq(seq, 1, i - 1)) = IF 1 <= i - 1 THEN (i - 1) - 1 + 1 ELSE 0
        /\ \A j \in 1..((i - 1) - 1 + 1) : SubSeq(seq, 1, i - 1)[j] = seq[1 + j - 1]
    BY <2>1, SubSeqProperties
  <2>3. (IF 1 <= i - 1 THEN (i - 1) - 1 + 1 ELSE 0) = i - 1
    BY <1>2
  <2>4. ASSUME NEW j \in 1..(i - 1)  PROVE j \in 1..((i - 1) - 1 + 1) /\ 1 + j - 1 = j
    BY <1>2
  <2>. QED
    BY <1>3, <2>2, <2>3, <2>4
<1>5. /\ b \in Seq(S) /\ Len(b) = n - i
      /\ \A j \in 1..(n - i) : b[j] = seq[j + i]
  <2>1. i + 1 \in Int /\ n \in Int /\ \A j \in (i + 1)..n : seq[j] \in S
    BY <1>2
  <2>2. /\ SubSeq(seq, i + 1, n) \in Seq(S)
        /\ Len(SubSeq(seq, i + 1, n)) = IF i + 1 <= n THEN n - (i + 1) + 1 ELSE 0
        /\ \A j \in 1..(n - (i + 1) + 1) : SubSeq(seq, i + 1, n)[j] = seq[i + 1 + j - 1]
    BY <2>1, SubSeqProperties
  <2>3. (IF i + 1 <= n THEN n - (i + 1) + 1 ELSE 0) = n - i
    BY <1>2
  <2>4. ASSUME NEW j \in 1..(n - i)  PROVE j \in 1..(n - (i + 1) + 1) /\ i + 1 + j - 1 = j + i
    BY <1>2
  <2>. QED
    BY <1>3, <2>2, <2>3, <2>4
<1>6. RemoveAt(seq, i) = a \o b
  BY <1>1, <1>3 DEF RemoveAt
<1>7. /\ a \o b \in Seq(S) /\ Len(a \o b) = Len(a) + Len(b)
      /\ \A j \in 1..(Len(a) + Len(b)) : (a \o b)[j] = IF j <= Len(a) THEN a[j] ELSE b[j - Len(a)]
  BY <1>4, <1>5, ConcatProperties
<1>8. Len(a) + Len(b) = n - 1
  BY <1>2, <1>4, <1>5
<1>9. ASSUME NEW j \in 1..(n - 1)
      PROVE  (a \o b)[j] = IF j < i THEN seq[j] ELSE seq[j + 1]
  <2>1. (a \o b)[j] = IF j <= i - 1 THEN a[j] ELSE b[j - (i - 1)]
    BY <1>4, <1>7, <1>8
  <2>2. CASE j < i
    <3>1. j \in 1..(i - 1) /\ j <= i - 1
      BY <1>2, <2>2
    <3>. QED
      BY <1>4, <2>1, <2>2, <3>1
  <2>3. CASE ~ (j < i)
    <3>1. j - (i - 1) \in 1..(n - i) /\ ~ (j <= i - 1) /\ (j - (i - 1)) + i = j + 1
      BY <1>2, <2>3
    <3>. QED
      BY <1>5, <2>1, <2>3, <3>1
  <2>. QED
    BY <2>2, <2>3
<1>. QED
  BY <1>1, <1>6, <1>7, <1>8, <1>9

\* Where the shelf's states are among the record's.
LEMMA ShelfAt ==
  ASSUME NEW ar \in Archives, NEW i \in 1..Len(ar.previous)
  PROVE  /\ Len(ar.live) + i \in DOMAIN States(ar)
         /\ States(ar)[Len(ar.live) + i] = ar.previous[i]
<1>1. PICK a, b : a = Len(ar.live) /\ b = Len(ar.previous)
  OBVIOUS
<1>2. /\ a \in Nat /\ b \in Nat /\ DOMAIN States(ar) = 1..(a + b)
      /\ \A k \in 1..(a + b) : States(ar)[k] = IF k <= a THEN ar.live[k] ELSE ar.previous[k - a]
  BY <1>1, StatesAre
<1>3. i \in 1..b
  BY <1>1
<1>4. a + i \in 1..(a + b) /\ ~ (a + i <= a) /\ (a + i) - a = i
  BY <1>2, <1>3
<1>. QED
  BY <1>1, <1>2, <1>4

\* A shelved state taken off its shelf.
LEMMA TakenOff ==
  ASSUME NEW ar, IsRecord(ar), NEW i \in 1..Len(ar.previous)
  PROVE  LET rest == [ar EXCEPT !.previous = RemoveAt(@, i)] IN
         /\ IsRecord(rest) /\ rest.live = ar.live
         /\ ar.previous[i] \in In(ar)
         /\ In(rest) \subseteq In(ar) \ {ar.previous[i]}
         /\ ar.previous[i].base \notin Bases(rest)
<1>1. PICK rest : rest = [ar EXCEPT !.previous = RemoveAt(@, i)]
  OBVIOUS
<1>2. PICK a, b : a = Len(ar.live) /\ b = Len(ar.previous)
  OBVIOUS
<1>3. /\ ar \in Archives /\ ar.live \in Seq(StateSet) /\ ar.previous \in Seq(StateSet)
      /\ a <= 1 /\ b <= MaxPrevious
  BY <1>2 DEF IsRecord, Archives
<1>4. /\ a \in Nat /\ b \in Nat /\ DOMAIN States(ar) = 1..(a + b)
      /\ \A k \in 1..(a + b) : States(ar)[k] = IF k <= a THEN ar.live[k] ELSE ar.previous[k - a]
  BY <1>2, <1>3, StatesAre
<1>5. i \in 1..b
  BY <1>2
<1>6. rest = [live |-> ar.live, previous |-> RemoveAt(ar.previous, i)]
  BY <1>1, <1>3 DEF Archives
<1>7. /\ RemoveAt(ar.previous, i) \in Seq(StateSet)
      /\ Len(RemoveAt(ar.previous, i)) = b - 1
      /\ \A j \in 1..(b - 1) :
           RemoveAt(ar.previous, i)[j] = IF j < i THEN ar.previous[j] ELSE ar.previous[j + 1]
  BY <1>2, <1>3, RemoveAtIs
<1>8. /\ rest \in Archives /\ rest.live = ar.live /\ Len(rest.live) = a
      /\ rest.previous = RemoveAt(ar.previous, i) /\ Len(rest.previous) = b - 1
  BY <1>2, <1>3, <1>6, <1>7 DEF Archives
<1>9. /\ DOMAIN States(rest) = 1..(a + (b - 1))
      /\ \A k \in 1..(a + (b - 1)) :
           States(rest)[k] = IF k <= a THEN ar.live[k] ELSE rest.previous[k - a]
  BY <1>8, StatesAre
<1>10. PICK f : f = [k \in 1..(a + (b - 1)) |-> IF k < a + i THEN k ELSE k + 1]
  OBVIOUS
<1>11. ASSUME NEW k \in 1..(a + (b - 1))
       PROVE  /\ f[k] \in 1..(a + b) /\ f[k] # a + i
              /\ States(rest)[k] = States(ar)[f[k]]
  <2>1. f[k] = IF k < a + i THEN k ELSE k + 1
    BY <1>10
  <2>2. f[k] \in 1..(a + b) /\ f[k] # a + i
    BY <1>4, <1>5, <2>1
  <2>3. CASE k <= a
    <3>1. f[k] = k /\ k \in 1..(a + b)
      BY <1>4, <1>5, <2>1, <2>3
    <3>. QED
      BY <1>4, <1>9, <2>2, <2>3, <3>1
  <2>4. CASE ~ (k <= a) /\ k < a + i
    <3>1. f[k] = k /\ k - a \in 1..(b - 1) /\ k - a < i
      BY <1>4, <1>5, <2>1, <2>4
    <3>2. States(rest)[k] = ar.previous[k - a]
      BY <1>7, <1>8, <1>9, <2>4, <3>1
    <3>. QED
      BY <1>4, <2>2, <2>4, <3>1, <3>2
  <2>5. CASE ~ (k < a + i)
    <3>1. f[k] = k + 1 /\ k - a \in 1..(b - 1) /\ ~ (k - a < i) /\ ~ (k <= a)
      BY <1>4, <1>5, <2>1, <2>5
    <3>2. States(rest)[k] = ar.previous[(k - a) + 1]
      BY <1>7, <1>8, <1>9, <3>1
    <3>3. ~ (k + 1 <= a) /\ (k + 1) - a = (k - a) + 1
      BY <1>4, <3>1
    <3>. QED
      BY <1>4, <2>2, <3>1, <3>2, <3>3
  <2>. QED
    BY <2>2, <2>3, <2>4, <2>5
<1>12. \A k, l \in 1..(a + (b - 1)) : f[k] = f[l] => k = l
  BY <1>4, <1>5, <1>10
<1>13. States(ar)[a + i] = ar.previous[i] /\ a + i \in DOMAIN States(ar)
  BY <1>2, <1>3, ShelfAt
<1>14. IsRecord(rest)
  <2>1. \A k, l \in DOMAIN States(rest) : States(rest)[k].base = States(rest)[l].base => k = l
    BY <1>4, <1>9, <1>11, <1>12 DEF IsRecord
  <2>. QED
    BY <1>3, <1>4, <1>8, <2>1, SessionAssumption DEF IsRecord
<1>15. \A k \in DOMAIN States(rest) :
         States(rest)[k] \in In(ar) /\ States(rest)[k].base # ar.previous[i].base
  <2>. TAKE k \in DOMAIN States(rest)
  <2>1. /\ f[k] \in DOMAIN States(ar) /\ f[k] # a + i
        /\ States(rest)[k] = States(ar)[f[k]]
    BY <1>4, <1>9, <1>11
  <2>2. States(ar)[f[k]].base # States(ar)[a + i].base
    BY <1>13, <2>1 DEF IsRecord
  <2>. QED
    BY <1>13, <2>1, <2>2 DEF In
<1>. QED
  BY <1>1, <1>8, <1>13, <1>14, <1>15 DEF In, Bases

\* promoteShelved: a shelved state, as the call left it, comes to the front.
LEMMA PromoteShelvedKeeps ==
  ASSUME NEW ar, IsRecord(ar), NEW i \in 1..Len(ar.previous),
         NEW s \in StateSet, s.base = ar.previous[i].base
  PROVE  LET new == PromoteShelved(ar, i, s) IN
         /\ IsRecord(new) /\ new.live = <<s>> /\ s \in In(new)
         /\ In(new) \subseteq (In(ar) \ {ar.previous[i]}) \cup {s}
<1>1. PICK rest : rest = [ar EXCEPT !.previous = RemoveAt(@, i)]
  OBVIOUS
<1>2. /\ IsRecord(rest) /\ In(rest) \subseteq In(ar) \ {ar.previous[i]}
      /\ s.base \notin Bases(rest)
  BY <1>1, TakenOff
<1>3. PromoteShelved(ar, i, s) = Promote(rest, s)
  BY <1>1 DEF PromoteShelved
<1>4. /\ IsRecord(Promote(rest, s)) /\ Promote(rest, s).live = <<s>>
      /\ s \in In(Promote(rest, s)) /\ In(Promote(rest, s)) \subseteq In(rest) \cup {s}
  BY <1>2, PromoteKeeps
<1>. QED
  BY <1>2, <1>3, <1>4

\* The smallest of some positions.
LEMMA LeastIs ==
  ASSUME NEW n \in Nat, NEW I \in SUBSET (1..n), I # {}
  PROVE  Min(I) \in I /\ \A j \in I : Min(I) <= j
<1>0. I \subseteq Nat
  OBVIOUS
<1>1. PICK x \in I : \A y \in I : ~ (<<y, x>> \in OpToRel(<, Nat))
  BY <1>0, WFMin, NatLessThanWellFounded
<1>2. \A y \in I : x <= y
  <2>1. \A y \in I : ~ (y < x)
    BY <1>0, <1>1 DEF OpToRel
  <2>. QED
    BY <1>0, <2>1
<1>. QED
  BY <1>2 DEF Min

\* revive: the state of the base is the live one, and nothing is added.
LEMMA ReviveKeeps ==
  ASSUME NEW ar, IsRecord(ar), NEW base \in Bases(ar)
  PROVE  LET new == Revive(ar, base) IN
         /\ IsRecord(new) /\ In(new) \subseteq In(ar)
         /\ base \in Bases(new)
<1>1. /\ ar \in Archives /\ ar.live \in Seq(StateSet) /\ ar.previous \in Seq(StateSet)
  BY DEF IsRecord, Archives
<1>2. CASE ar.live # <<>> /\ ar.live[1].base = base
  BY <1>2 DEF Revive
<1>3. CASE ~ (ar.live # <<>> /\ ar.live[1].base = base)
  <2>1. PICK I, i : /\ I = {k \in 1..Len(ar.previous) : ar.previous[k].base = base}
                    /\ i = SelectInSeq(ar.previous, LAMBDA t : t.base = base)
    OBVIOUS
  <2>2. PICK k \in DOMAIN States(ar) : States(ar)[k].base = base
    BY DEF Bases
  <2>3. PICK a, b : a = Len(ar.live) /\ b = Len(ar.previous)
    OBVIOUS
  <2>4. /\ a \in Nat /\ b \in Nat /\ k \in 1..(a + b)
        /\ States(ar)[k] = IF k <= a THEN ar.live[k] ELSE ar.previous[k - a]
    BY <1>1, <2>2, <2>3, StatesAre
  <2>5. ~ (k <= a)
    <3>1. SUFFICES ASSUME k <= a  PROVE FALSE
      OBVIOUS
    <3>2. a <= 1
      BY <2>3 DEF IsRecord
    <3>3. k = 1 /\ a = 1
      BY <2>4, <3>1, <3>2
    <3>4. ar.live # <<>>
      <4>1. Len(<<>>) = 0 /\ Len(ar.live) = 1
        BY <2>3, <3>3
      <4>. QED
        BY <4>1
    <3>. QED
      BY <1>3, <2>2, <2>4, <3>3, <3>4
  <2>6. k - a \in 1..b /\ ar.previous[k - a].base = base
    BY <2>2, <2>4, <2>5
  <2>7. I # {} /\ I \subseteq 1..b
    BY <2>1, <2>3, <2>6
  <2>8. i = Min(I)
    BY <2>1, <2>7 DEF SelectInSeq
  <2>9. i \in 1..Len(ar.previous) /\ ar.previous[i].base = base
    <3>1. i \in I
      BY <2>4, <2>7, <2>8, LeastIs
    <3>. QED
      BY <2>1, <3>1
  <2>10. Revive(ar, base) = PromoteShelved(ar, i, ar.previous[i])
    BY <1>3, <2>1 DEF Revive
  <2>11. ar.previous[i] \in In(ar) /\ ar.previous[i] \in StateSet
    BY <1>1, <2>9, TakenOff, ElementOfSeq
  <2>12. LET new == PromoteShelved(ar, i, ar.previous[i]) IN
         /\ IsRecord(new) /\ ar.previous[i] \in In(new)
         /\ In(new) \subseteq In(ar)
    BY <2>9, <2>11, PromoteShelvedKeeps
  <2>13. base \in Bases(PromoteShelved(ar, i, ar.previous[i]))
    BY <2>9, <2>12, InStates DEF IsRecord
  <2>. QED
    BY <2>10, <2>12, <2>13
<1>. QED
  BY <1>2, <1>3

\* The live state replaced by one of the same base.
LEMMA LiveReplaced ==
  ASSUME NEW ar, IsRecord(ar), ar.live # <<>>, NEW s \in StateSet, s.base = ar.live[1].base
  PROVE  LET new == [ar EXCEPT !.live = <<s>>] IN
         /\ IsRecord(new) /\ new.live = <<s>> /\ s \in In(new)
         /\ ar.live[1] \in In(ar)
         /\ In(new) = (In(ar) \ {ar.live[1]}) \cup {s}
<1>1. PICK new : new = [ar EXCEPT !.live = <<s>>]
  OBVIOUS
<1>2. /\ ar \in Archives /\ ar.live \in Seq(StateSet) /\ ar.previous \in Seq(StateSet)
  BY DEF IsRecord, Archives
<1>3. Len(ar.live) = 1
  <2>1. PICK n : n = Len(ar.live)
    OBVIOUS
  <2>2. n \in Nat \ {0} /\ n <= 1
    BY <1>2, <2>1, EmptySeq DEF IsRecord
  <2>3. n = 1
    BY <2>2
  <2>. QED
    BY <2>1, <2>3
<1>4. new = [live |-> <<s>>, previous |-> ar.previous]
  BY <1>1, <1>2 DEF Archives
<1>5. <<s>> \in Seq(StateSet) /\ Len(<<s>>) = 1 /\ <<s>>[1] = s
  OBVIOUS
<1>6. new \in Archives /\ new.live = <<s>> /\ new.previous = ar.previous /\ Len(new.live) = 1
  BY <1>2, <1>4, <1>5 DEF Archives
<1>7. PICK b : b = Len(ar.previous)
  OBVIOUS
<1>8. /\ DOMAIN States(new) = 1..(1 + b) /\ b \in Nat
      /\ States(new)[1] = s
      /\ \A i \in 2..(1 + b) : States(new)[i] = ar.previous[i - 1]
  BY <1>5, <1>6, <1>7, OneLive
<1>9. /\ DOMAIN States(ar) = 1..(1 + b)
      /\ States(ar)[1] = ar.live[1]
      /\ \A i \in 2..(1 + b) : States(ar)[i] = ar.previous[i - 1]
  BY <1>2, <1>3, <1>7, OneLive
<1>10. \A i \in 1..(1 + b) : States(new)[i] = IF i = 1 THEN s ELSE States(ar)[i]
  <2>. TAKE i \in 1..(1 + b)
  <2>1. i = 1 \/ i \in 2..(1 + b)
    BY <1>8
  <2>. QED
    BY <1>8, <1>9, <2>1
<1>11. \A i \in 1..(1 + b) : States(new)[i].base = States(ar)[i].base
  BY <1>9, <1>10
<1>12. IsRecord(new)
  BY <1>5, <1>6, <1>8, <1>9, <1>11 DEF IsRecord
<1>13. 1 \in 1..(1 + b)
  BY <1>8
<1>14. \A i \in 1..(1 + b) : i # 1 => States(ar)[i] # ar.live[1]
  BY <1>9, <1>13 DEF IsRecord
<1>15. In(new) = (In(ar) \ {ar.live[1]}) \cup {s}
  <2>1. In(new) = {States(new)[i] : i \in 1..(1 + b)} /\ In(ar) = {States(ar)[i] : i \in 1..(1 + b)}
    BY <1>8, <1>9 DEF In
  <2>2. \A t \in In(new) : t \in (In(ar) \ {ar.live[1]}) \cup {s}
    BY <1>10, <1>14, <2>1
  <2>3. \A t \in (In(ar) \ {ar.live[1]}) \cup {s} : t \in In(new)
    BY <1>9, <1>10, <1>13, <2>1
  <2>. QED
    BY <2>2, <2>3
<1>16. s \in In(new) /\ ar.live[1] \in In(ar)
  BY <1>8, <1>9, <1>13 DEF In
<1>. QED
  BY <1>1, <1>6, <1>12, <1>15, <1>16

\* openWithArchive's search: the first state that does not call the message bad.
LEMMA DeciderIs ==
  ASSUME NEW ar \in Archives, NEW m, NEW fresh
  PROVE  /\ Decider(ar, m, fresh) = 0 =>
              \A s \in In(ar) : StateVerdict(s, m, fresh) = "BadMessage"
         /\ Decider(ar, m, fresh) # 0 =>
              /\ Decider(ar, m, fresh) \in DOMAIN States(ar)
              /\ StateVerdict(States(ar)[Decider(ar, m, fresh)], m, fresh) # "BadMessage"
<1>1. PICK n : n = Len(States(ar)) /\ n \in Nat /\ DOMAIN States(ar) = 1..n
  BY StatesAre, LenProperties
<1>2. PICK I : I = {i \in 1..n : StateVerdict(States(ar)[i], m, fresh) # "BadMessage"}
  OBVIOUS
<1>3. Decider(ar, m, fresh) = IF I # {} THEN Min(I) ELSE 0
  BY <1>1, <1>2 DEF Decider, SelectInSeq
<1>4. CASE I = {}
  <2>1. Decider(ar, m, fresh) = 0
    BY <1>3, <1>4
  <2>2. \A i \in DOMAIN States(ar) : StateVerdict(States(ar)[i], m, fresh) = "BadMessage"
    BY <1>1, <1>2, <1>4
  <2>. QED
    BY <2>1, <2>2 DEF In
<1>5. CASE I # {}
  <2>1. I \subseteq 1..n
    BY <1>2
  <2>2. Decider(ar, m, fresh) \in I
    BY <1>1, <1>3, <1>5, <2>1, LeastIs
  <2>3. Decider(ar, m, fresh) # 0
    BY <1>1, <2>1, <2>2
  <2>. QED
    BY <1>1, <1>2, <2>2, <2>3
<1>. QED
  BY <1>4, <1>5

LEMMA VerdictIs ==
  ASSUME NEW ar \in Archives, NEW m, NEW fresh
  PROVE  /\ ArchiveVerdict(ar, m, fresh) = "none" =>
              /\ Decider(ar, m, fresh) # 0
              /\ StateVerdict(States(ar)[Decider(ar, m, fresh)], m, fresh) = "none"
         /\ ArchiveVerdict(ar, m, fresh) = "Replay" =>
              \E s \in In(ar) : StateVerdict(s, m, fresh) = "Replay"
         /\ ArchiveVerdict(ar, m, fresh) \in {"NoSession", "BadMessage"} =>
              \A s \in In(ar) : StateVerdict(s, m, fresh) = "BadMessage"
         /\ ArchiveVerdict(ar, m, fresh) \in {"none", "Replay", "NoSession", "BadMessage"}
<1>1. CASE States(ar) = <<>>
  <2>1. ArchiveVerdict(ar, m, fresh) = "NoSession"
    BY <1>1 DEF ArchiveVerdict
  <2>2. DOMAIN States(ar) = {}
    BY <1>1
  <2>. QED
    BY <2>1, <2>2 DEF In
<1>2. CASE States(ar) # <<>> /\ Decider(ar, m, fresh) = 0
  <2>1. ArchiveVerdict(ar, m, fresh) = "BadMessage"
    BY <1>2 DEF ArchiveVerdict
  <2>. QED
    BY <1>2, <2>1, DeciderIs
<1>3. CASE States(ar) # <<>> /\ Decider(ar, m, fresh) # 0
  <2>1. ArchiveVerdict(ar, m, fresh) = StateVerdict(States(ar)[Decider(ar, m, fresh)], m, fresh)
    BY <1>3 DEF ArchiveVerdict
  <2>2. \A s : StateVerdict(s, m, fresh) \in {"none", "Replay", "BadMessage"}
    BY DEF StateVerdict, Verdict
  <2>3. /\ States(ar)[Decider(ar, m, fresh)] \in In(ar)
        /\ StateVerdict(States(ar)[Decider(ar, m, fresh)], m, fresh) # "BadMessage"
    BY <1>3, DeciderIs DEF In
  <2>. QED
    BY <1>3, <2>1, <2>2, <2>3
<1>. QED
  BY <1>1, <1>2, <1>3

\* The record after a message: the state that opened it is in front, the others
\* are those before, or fewer.
LEMMA ArchiveAfterKeeps ==
  ASSUME NEW ar, IsRecord(ar), NEW m, NEW fresh, NEW i, i = Decider(ar, m, fresh), i # 0,
         NEW s \in StateSet, s = StateAfter(States(ar)[i], m, fresh),
         s.base = States(ar)[i].base
  PROVE  LET new == ArchiveAfter(ar, m, fresh) IN
         /\ IsRecord(new) /\ s \in In(new)
         /\ In(new) \subseteq (In(ar) \ {States(ar)[i]}) \cup {s}
<1>1. /\ ar \in Archives /\ ar.live \in Seq(StateSet) /\ ar.previous \in Seq(StateSet)
  BY DEF IsRecord, Archives
<1>2. i \in DOMAIN States(ar)
  BY <1>1, DeciderIs
<1>3. PICK a, b : a = Len(ar.live) /\ b = Len(ar.previous)
  OBVIOUS
<1>4. /\ a \in Nat /\ b \in Nat /\ i \in 1..(a + b) /\ a <= 1
      /\ States(ar)[i] = IF i <= a THEN ar.live[i] ELSE ar.previous[i - a]
  BY <1>1, <1>2, <1>3, StatesAre DEF IsRecord
<1>5. CASE i <= a
  <2>1. i = 1 /\ a = 1
    BY <1>4, <1>5
  <2>2. ar.live # <<>>
    <3>. SUFFICES ASSUME ar.live = <<>>  PROVE FALSE
      OBVIOUS
    <3>1. Len(<<>>) = 1
      BY <1>3, <2>1
    <3>. QED
      BY <3>1
  <2>3. ArchiveAfter(ar, m, fresh) = [ar EXCEPT !.live = <<s>>]
    BY <1>3, <1>5 DEF ArchiveAfter
  <2>4. States(ar)[i] = ar.live[1]
    BY <1>4, <2>1
  <2>5. LET new == [ar EXCEPT !.live = <<s>>] IN
        /\ IsRecord(new) /\ s \in In(new) /\ In(new) = (In(ar) \ {ar.live[1]}) \cup {s}
    BY <2>2, <2>4, LiveReplaced
  <2>. QED
    BY <2>3, <2>4, <2>5
<1>6. CASE ~ (i <= a)
  <2>1. i - a \in 1..b /\ States(ar)[i] = ar.previous[i - a]
    BY <1>4, <1>6
  <2>2. ArchiveAfter(ar, m, fresh) = PromoteShelved(ar, i - a, s)
    BY <1>3, <1>6 DEF ArchiveAfter
  <2>3. PICK k : k = i - a
    OBVIOUS
  <2>4. k \in 1..Len(ar.previous) /\ s.base = ar.previous[k].base
    BY <1>3, <2>1, <2>3
  <2>5. LET new == PromoteShelved(ar, k, s) IN
        /\ IsRecord(new) /\ s \in In(new)
        /\ In(new) \subseteq (In(ar) \ {ar.previous[k]}) \cup {s}
    BY <2>4, PromoteShelvedKeeps
  <2>. QED
    BY <2>1, <2>2, <2>3, <2>5
<1>. QED
  BY <1>5, <1>6

-----------------------------------------------------------------------------
(* One state and one message (engine.zig, openWithState). *)

\* The lane is there: it takes the message, and the handshake is answered.
OpensOn(d, s, m, i) ==
  /\ i \in 1..Len(d.receiving)
  /\ d.receiving[i].ratchet = m.ratchet /\ d.receiving[i].path = m.path
  /\ d.receiving[i].index > m.index => m.index \in d.receiving[i].skipped
  /\ m.index <= d.receiving[i].index + MaxForwardJump
  /\ s = [base |-> d.base, root |-> d.root, sending |-> d.sending,
          receiving |-> [d.receiving EXCEPT ![i] = Taken(d.receiving[i], m)],
          pending |-> "none", oneTimeId |-> NoKey]

\* One lane more, at the end, and perhaps the oldest gone.
Adds(old, new, lane) ==
  /\ Len(new) \in Nat \ {0} /\ new[Len(new)] = lane
  /\ \E gone \in {0, 1} :
       /\ Len(new) = Len(old) + 1 - gone
       /\ \A i \in 1..(Len(new) - 1) : new[i] = old[i + gone]

\* The ratchet turns, and the new lane takes the message.
TurnsTo(d, s, m, fresh) ==
  /\ \A i \in 1..Len(d.receiving) : d.receiving[i].ratchet # m.ratchet
  /\ m.path = Append(d.root, {d.sending.ratchet, m.ratchet})
  /\ m.index <= MaxForwardJump
  /\ s.base = d.base /\ s.root = Append(m.path, {fresh, m.ratchet})
  /\ s.sending = [ratchet |-> fresh, path |-> s.root, index |-> 0]
  /\ Adds(d.receiving, s.receiving, Taken(Lane(m.ratchet, m.path), m))
  /\ s.pending = "none" /\ s.oneTimeId = NoKey

LEMMA AddReceivingAdds ==
  ASSUME NEW lanes \in Seq(Lanes), NEW lane \in Lanes
  PROVE  AddReceiving(lanes, lane) \in Seq(Lanes) /\ Adds(lanes, AddReceiving(lanes, lane), lane)
<1>1. PICK n, all : n = Len(lanes) /\ all = Append(lanes, lane)
  OBVIOUS
<1>2. /\ n \in Nat /\ all \in Seq(Lanes) /\ all # <<>> /\ Len(all) = n + 1
      /\ \A i \in 1..n : all[i] = lanes[i]
      /\ all[n + 1] = lane
  BY <1>1, AppendProperties, LenProperties
<1>3. CASE Len(all) > MaxLanes
  <2>1. AddReceiving(lanes, lane) = Tail(all)
    BY <1>1, <1>3 DEF AddReceiving
  <2>2. /\ Tail(all) \in Seq(Lanes) /\ Len(Tail(all)) = n
        /\ \A i \in 1..n : Tail(all)[i] = all[i + 1]
    BY <1>2, HeadTailProperties
  <2>3. n >= 1
    BY <1>2, <1>3, SessionAssumption
  <2>4. \A i \in 1..(n - 1) : i + 1 \in 1..n /\ i \in 1..n
    BY <1>2
  <2>5. \A i \in 1..(n - 1) : Tail(all)[i] = lanes[i + 1]
    BY <1>2, <2>2, <2>4
  <2>6. Tail(all)[n] = lane
    BY <1>2, <2>2, <2>3
  <2>7. n = n + 1 - 1 /\ n \in Nat \ {0}
    BY <1>2, <2>3
  <2>8. \E gone \in {0, 1} :
          /\ Len(Tail(all)) = n + 1 - gone
          /\ \A i \in 1..(Len(Tail(all)) - 1) : Tail(all)[i] = lanes[i + gone]
    BY <2>2, <2>5, <2>7
  <2>. QED
    BY <1>1, <2>1, <2>2, <2>6, <2>7, <2>8 DEF Adds
<1>4. CASE ~ (Len(all) > MaxLanes)
  <2>1. AddReceiving(lanes, lane) = all
    BY <1>1, <1>4 DEF AddReceiving
  <2>2. n + 1 = n + 1 - 0 /\ (n + 1) - 1 = n /\ n + 1 \in Nat \ {0} /\ \A i \in 1..n : i + 0 = i
    BY <1>2
  <2>3. \E gone \in {0, 1} :
          /\ Len(all) = n + 1 - gone
          /\ \A i \in 1..(Len(all) - 1) : all[i] = lanes[i + gone]
    BY <1>2, <2>2
  <2>. QED
    BY <1>1, <1>2, <2>1, <2>2, <2>3 DEF Adds
<1>. QED
  BY <1>3, <1>4

\* The lane of the message's ratchet is there.
LEMMA OnALane ==
  ASSUME NEW d \in StateSet, NEW m \in MessageSet, NEW fresh, LanesOf(d, m.ratchet) # {}
  PROVE  LET i == TheLane(d, m)
             s == StateAfter(d, m, fresh) IN
         /\ Facing(d, m, fresh) = d
         /\ i \in 1..Len(d.receiving) /\ d.receiving[i].ratchet = m.ratchet
         /\ StateVerdict(d, m, fresh) = Verdict(d.receiving[i], m)
         /\ s \in StateSet /\ s.base = d.base
         /\ StateVerdict(d, m, fresh) = "none" => OpensOn(d, s, m, i)
<1>1. PICK i : i = TheLane(d, m)
  OBVIOUS
<1>2. Facing(d, m, fresh) = d
  BY DEF Facing
<1>3. d.receiving \in Seq(Lanes)
  BY DEF StateSet
<1>4. i \in 1..Len(d.receiving) /\ d.receiving[i].ratchet = m.ratchet
  <2>1. i \in LanesOf(d, m.ratchet)
    BY <1>1 DEF TheLane
  <2>. QED
    BY <1>3, <2>1, LenProperties DEF LanesOf
<1>5. StateVerdict(d, m, fresh) = Verdict(d.receiving[i], m)
  BY <1>1, <1>2 DEF StateVerdict
<1>6. PICK lane : lane = Taken(d.receiving[i], m)
  OBVIOUS
<1>7. d.receiving[i] \in Lanes
  BY <1>3, <1>4, ElementOfSeq
<1>8. lane \in Lanes
  <2>1. \A passed \in SUBSET Nat : KeepSkipped(d.receiving[i].skipped, passed) \subseteq Nat
    BY <1>7 DEF KeepSkipped, Lanes
  <2>2. d.receiving[i].index .. m.index - 1 \in SUBSET Nat /\ m.index + 1 \in Nat
    BY <1>7 DEF Lanes, MessageSet
  <2>3. [d.receiving[i] EXCEPT !.skipped = @ \ {m.index}] \in Lanes
    BY <1>7 DEF Lanes
  <2>4. [d.receiving[i] EXCEPT !.skipped = KeepSkipped(@, d.receiving[i].index .. m.index - 1),
                               !.index = m.index + 1] \in Lanes
    BY <1>7, <2>1, <2>2 DEF Lanes
  <2>. QED
    BY <1>6, <2>3, <2>4 DEF Taken
<1>9. PICK s : s = StateAfter(d, m, fresh)
  OBVIOUS
<1>10. s = [d EXCEPT !.receiving[i] = Taken(@, m), !.pending = "none", !.oneTimeId = NoKey]
  BY <1>1, <1>2, <1>9 DEF StateAfter
<1>11. s = [base |-> d.base, root |-> d.root, sending |-> d.sending,
            receiving |-> [d.receiving EXCEPT ![i] = lane],
            pending |-> "none", oneTimeId |-> NoKey]
  BY <1>4, <1>6, <1>10 DEF StateSet
<1>12. [d.receiving EXCEPT ![i] = lane] \in Seq(Lanes)
  BY <1>3, <1>4, <1>8, ExceptSeq
<1>13. s \in StateSet /\ s.base = d.base
  BY <1>11, <1>12 DEF StateSet, Ids
<1>14. ASSUME Verdict(d.receiving[i], m) = "none"  PROVE OpensOn(d, s, m, i)
  <2>1. m.index \in Nat /\ d.receiving[i].index \in Nat /\ MaxForwardJump \in Nat
    BY <1>7, SessionAssumption DEF Lanes, MessageSet
  <2>2. /\ d.receiving[i].index > m.index => m.index \in d.receiving[i].skipped
        /\ d.receiving[i].path = m.path
        /\ ~ (m.index > d.receiving[i].index + MaxForwardJump)
    BY <1>14 DEF Verdict
  <2>3. m.index <= d.receiving[i].index + MaxForwardJump
    BY <2>1, <2>2
  <2>. QED
    BY <1>4, <1>6, <1>11, <2>2, <2>3 DEF OpensOn
<1>. QED
  BY <1>1, <1>2, <1>4, <1>5, <1>9, <1>13, <1>14

\* The message has a new ratchet key.
LEMMA OnANewLane ==
  ASSUME NEW d \in StateSet, NEW m \in MessageSet, NEW fresh \in KeyPairs,
         LanesOf(d, m.ratchet) = {}
  PROVE  LET s == StateAfter(d, m, fresh)
             f == Facing(d, m, fresh)
             path == Append(d.root, {d.sending.ratchet, m.ratchet})
         IN
         /\ f # d /\ f.receiving[TheLane(f, m)] = Lane(m.ratchet, path)
         /\ StateVerdict(d, m, fresh) = Verdict(Lane(m.ratchet, path), m)
         /\ StateVerdict(d, m, fresh) \in {"none", "BadMessage"}
         /\ s \in StateSet /\ s.base = d.base
         /\ StateVerdict(d, m, fresh) = "none" => TurnsTo(d, s, m, fresh)
<1>1. PICK path : path = Append(d.root, {d.sending.ratchet, m.ratchet})
  OBVIOUS
<1>2. PICK root : root = Append(path, {fresh, m.ratchet})
  OBVIOUS
<1>3. d.receiving \in Seq(Lanes) /\ d.root \in AllPaths /\ d.sending.ratchet \in KeyPairs
      /\ d.base \in KeyPairs /\ d.sending \in Sendings
  BY DEF StateSet, Sendings
<1>4. path \in AllPaths /\ root \in AllPaths
  <2>1. {d.sending.ratchet, m.ratchet} \in SUBSET KeyPairs /\ {fresh, m.ratchet} \in SUBSET KeyPairs
    BY <1>3 DEF MessageSet
  <2>. QED
    BY <1>1, <1>2, <1>3, <2>1, AppendProperties DEF AllPaths
<1>5. PICK lane : lane = Lane(m.ratchet, path)
  OBVIOUS
<1>6. lane = [ratchet |-> m.ratchet, path |-> path, index |-> 0, skipped |-> {}] /\ lane \in Lanes
  BY <1>4, <1>5 DEF Lane, Lanes, MessageSet
<1>7. PICK lanes : lanes = AddReceiving(d.receiving, lane)
  OBVIOUS
<1>8. lanes \in Seq(Lanes) /\ Adds(d.receiving, lanes, lane)
  BY <1>3, <1>6, <1>7, AddReceivingAdds
<1>9. PICK f : f = Facing(d, m, fresh)
  OBVIOUS
<1>10. f = [d EXCEPT !.root = root, !.receiving = lanes,
                     !.sending = [ratchet |-> fresh, path |-> root, index |-> 0]]
  BY <1>1, <1>2, <1>5, <1>7, <1>9 DEF Facing, Turn
<1>11. f = [base |-> d.base, root |-> root,
            sending |-> [ratchet |-> fresh, path |-> root, index |-> 0],
            receiving |-> lanes, pending |-> d.pending, oneTimeId |-> d.oneTimeId]
  BY <1>10 DEF StateSet
<1>12. PICK n : n = Len(lanes) /\ n \in Nat \ {0} /\ lanes[n] = lane /\ DOMAIN lanes = 1..n
  BY <1>8, LenProperties DEF Adds
<1>13. PICK gone \in {0, 1} : /\ n = Len(d.receiving) + 1 - gone
                              /\ \A i \in 1..(n - 1) : lanes[i] = d.receiving[i + gone]
  BY <1>8, <1>12 DEF Adds
<1>14. Len(d.receiving) \in Nat /\ DOMAIN d.receiving = 1..Len(d.receiving)
  BY <1>3, LenProperties
<1>15. \A i \in 1..Len(d.receiving) : d.receiving[i].ratchet # m.ratchet
  BY <1>14 DEF LanesOf
<1>16. \A i \in 1..(n - 1) : lanes[i].ratchet # m.ratchet
  <2>1. \A i \in 1..(n - 1) : i + gone \in 1..Len(d.receiving)
    BY <1>12, <1>13, <1>14
  <2>. QED
    BY <1>13, <1>15, <2>1
<1>17. LanesOf(f, m.ratchet) = {n}
  <2>1. f.receiving = lanes
    BY <1>11
  <2>2. \A i \in 1..n : i = n \/ i \in 1..(n - 1)
    BY <1>12
  <2>. QED
    BY <1>6, <1>12, <1>16, <2>1, <2>2 DEF LanesOf
<1>18. TheLane(f, m) = n
  BY <1>17 DEF TheLane
<1>19. f.receiving[TheLane(f, m)] = lane
  BY <1>11, <1>12, <1>18
<1>20. f # d
  BY <1>17
<1>21. StateVerdict(d, m, fresh) = Verdict(lane, m)
  BY <1>9, <1>19 DEF StateVerdict
<1>22. m.index \in Nat /\ MaxForwardJump \in Nat
  BY SessionAssumption DEF MessageSet
<1>23. Verdict(lane, m) = IF path # m.path \/ m.index > MaxForwardJump THEN "BadMessage" ELSE "none"
  BY <1>6, <1>22 DEF Verdict
<1>24. PICK s, taken : s = StateAfter(d, m, fresh) /\ taken = Taken(lane, m)
  OBVIOUS
<1>25. taken = [ratchet |-> m.ratchet, path |-> path, index |-> m.index + 1,
                skipped |-> KeepSkipped({}, 0 .. m.index - 1)]
  <2>1. ~ (lane.index > m.index)
    BY <1>6, <1>22
  <2>2. taken = [lane EXCEPT !.skipped = KeepSkipped(@, lane.index .. m.index - 1),
                             !.index = m.index + 1]
    BY <1>24, <2>1 DEF Taken
  <2>. QED
    BY <1>6, <2>2
<1>26. taken \in Lanes
  <2>1. KeepSkipped({}, 0 .. m.index - 1) \subseteq Nat
    BY <1>22 DEF KeepSkipped
  <2>. QED
    BY <1>4, <1>22, <1>25, <2>1 DEF Lanes, MessageSet
<1>27. s = [f EXCEPT !.receiving[n] = Taken(@, m), !.pending = "none", !.oneTimeId = NoKey]
  BY <1>9, <1>18, <1>24 DEF StateAfter
<1>28. s = [base |-> d.base, root |-> root,
            sending |-> [ratchet |-> fresh, path |-> root, index |-> 0],
            receiving |-> [lanes EXCEPT ![n] = taken], pending |-> "none", oneTimeId |-> NoKey]
  BY <1>11, <1>12, <1>24, <1>27
<1>29. /\ [lanes EXCEPT ![n] = taken] \in Seq(Lanes) /\ Len([lanes EXCEPT ![n] = taken]) = n
       /\ \A j \in 1..n : [lanes EXCEPT ![n] = taken][j] = IF j = n THEN taken ELSE lanes[j]
  <2>1. n \in 1..Len(lanes)
    BY <1>12
  <2>. QED
    BY <1>8, <1>12, <1>26, <2>1, ExceptSeq
<1>30. s \in StateSet /\ s.base = d.base
  BY <1>3, <1>4, <1>28, <1>29 DEF StateSet, Sendings, Ids
<1>31. Adds(d.receiving, s.receiving, taken)
  <2>1. s.receiving = [lanes EXCEPT ![n] = taken] /\ Len(s.receiving) = n
    BY <1>28, <1>29
  <2>2. s.receiving[n] = taken
    BY <1>12, <1>29, <2>1
  <2>3. \A i \in 1..(n - 1) : s.receiving[i] = d.receiving[i + gone]
    <3>. TAKE i \in 1..(n - 1)
    <3>1. i \in 1..n /\ i # n
      BY <1>12
    <3>. QED
      BY <1>13, <1>29, <2>1, <3>1
  <2>4. \E g \in {0, 1} : /\ n = Len(d.receiving) + 1 - g
                          /\ \A i \in 1..(n - 1) : s.receiving[i] = d.receiving[i + g]
    BY <1>13, <2>3
  <2>. QED
    BY <1>12, <2>1, <2>2, <2>4 DEF Adds
<1>32. ASSUME Verdict(lane, m) = "none"  PROVE TurnsTo(d, s, m, fresh)
  <2>1. m.path = path /\ m.index <= MaxForwardJump
    BY <1>22, <1>23, <1>32
  <2>2. taken = Taken(Lane(m.ratchet, m.path), m)
    BY <1>5, <1>24, <2>1
  <2>. QED
    BY <1>1, <1>2, <1>15, <1>28, <1>31, <2>1, <2>2 DEF TurnsTo
<1>. QED
  BY <1>1, <1>5, <1>9, <1>19, <1>20, <1>21, <1>23, <1>24, <1>30, <1>32

-----------------------------------------------------------------------------
(* What holds of one state. *)

Precedes(a, b) == Len(a) < Len(b) /\ \A k \in 1..Len(a) : a[k] = b[k]

\* Every path of a state begins with its base; a receiving lane lies on the way to
\* the root, later lanes further on it, and is the only one of its ratchet key.
LaneOk(s, i) ==
  /\ Len(s.receiving[i].path) \in Nat \ {0}
  /\ Precedes(s.receiving[i].path, s.root)
  /\ \A k \in s.receiving[i].skipped : k < s.receiving[i].index
  /\ \A j \in 1..Len(s.receiving) :
       /\ i < j => Len(s.receiving[i].path) < Len(s.receiving[j].path)
       /\ i # j => s.receiving[i].ratchet # s.receiving[j].ratchet

Shape(p, s) ==
  /\ s \in StateSet
  /\ s.root = s.sending.path /\ Len(s.root) \in Nat \ {0} /\ s.root[1] = {s.base}
  /\ s.sending.ratchet[1] = p
  /\ \A i \in 1..Len(s.receiving) : LaneOk(s, i)

\* The ratchet has turned: the root was reached with a key pair of the device's own.
HasTurned(s) ==
  /\ Len(s.root) >= 2 /\ s.sending.ratchet \in s.root[Len(s.root)]
  /\ s.sending.ratchet[2] >= 1

LEMMA PeerIs ==
  ASSUME NEW p \in Parties
  PROVE  Peer(p) \in Parties /\ Peer(p) # p /\ Peer(Peer(p)) = p /\ Parties = {p, Peer(p)}
BY SessionAssumption DEF Parties, Peer

LEMMA TakenBehind ==
  ASSUME NEW lane \in Lanes, NEW m \in MessageSet, \A k \in lane.skipped : k < lane.index
  PROVE  /\ Taken(lane, m).ratchet = lane.ratchet /\ Taken(lane, m).path = lane.path
         /\ \A k \in Taken(lane, m).skipped : k < Taken(lane, m).index
         /\ Taken(lane, m).index >= lane.index
         /\ m.index < Taken(lane, m).index /\ m.index \notin Taken(lane, m).skipped
<1>1. m.index \in Nat /\ lane.index \in Nat /\ lane.skipped \subseteq Nat
  BY DEF Lanes, MessageSet
<1>2. CASE lane.index > m.index
  <2>1. Taken(lane, m) = [lane EXCEPT !.skipped = @ \ {m.index}]
    BY <1>2 DEF Taken
  <2>2. /\ Taken(lane, m).ratchet = lane.ratchet /\ Taken(lane, m).path = lane.path
        /\ Taken(lane, m).skipped = lane.skipped \ {m.index} /\ Taken(lane, m).index = lane.index
    BY <2>1 DEF Lanes
  <2>. QED
    BY <1>1, <1>2, <2>2
<1>3. CASE ~ (lane.index > m.index)
  <2>1. Taken(lane, m) = [lane EXCEPT !.skipped = KeepSkipped(@, lane.index .. m.index - 1),
                                      !.index = m.index + 1]
    BY <1>3 DEF Taken
  <2>2. /\ Taken(lane, m).ratchet = lane.ratchet /\ Taken(lane, m).path = lane.path
        /\ Taken(lane, m).skipped = KeepSkipped(lane.skipped, lane.index .. m.index - 1)
        /\ Taken(lane, m).index = m.index + 1
    BY <2>1 DEF Lanes
  <2>3. KeepSkipped(lane.skipped, lane.index .. m.index - 1)
          \subseteq lane.skipped \cup (lane.index .. m.index - 1)
    BY DEF KeepSkipped
  <2>. QED
    BY <1>1, <1>3, <2>2, <2>3
<1>. QED
  BY <1>2, <1>3

\* A message on a lane moves that lane and nothing else of the paths.
LEMMA OpensOnShape ==
  ASSUME NEW p \in Parties, NEW d, Shape(p, d), NEW m \in MessageSet, NEW s, NEW i, OpensOn(d, s, m, i)
  PROVE  /\ Shape(p, s) /\ s.base = d.base /\ s.root = d.root /\ s.sending = d.sending
         /\ Len(s.receiving) = Len(d.receiving)
         /\ s.receiving[i] = Taken(d.receiving[i], m)
         /\ \A j \in 1..Len(d.receiving) :
              /\ s.receiving[j].ratchet = d.receiving[j].ratchet
              /\ s.receiving[j].path = d.receiving[j].path
              /\ j # i => s.receiving[j] = d.receiving[j]
<1>1. d \in StateSet /\ d.receiving \in Seq(Lanes) /\ i \in 1..Len(d.receiving)
  BY DEF Shape, OpensOn, StateSet
<1>2. PICK l, t : l = d.receiving[i] /\ t = Taken(l, m)
  OBVIOUS
<1>3. l \in Lanes /\ LaneOk(d, i)
  BY <1>1, <1>2, ElementOfSeq DEF Shape
<1>4. /\ t.ratchet = l.ratchet /\ t.path = l.path
      /\ \A k \in t.skipped : k < t.index
  BY <1>2, <1>3, TakenBehind DEF LaneOk
<1>5. s = [base |-> d.base, root |-> d.root, sending |-> d.sending,
           receiving |-> [d.receiving EXCEPT ![i] = t], pending |-> "none", oneTimeId |-> NoKey]
  BY <1>2 DEF OpensOn
<1>6. t \in Lanes
  <2>1. \A passed \in SUBSET Nat : KeepSkipped(l.skipped, passed) \subseteq Nat
    BY <1>3 DEF KeepSkipped, Lanes
  <2>2. l.index .. m.index - 1 \in SUBSET Nat /\ m.index + 1 \in Nat
    BY <1>3 DEF Lanes, MessageSet
  <2>3. [l EXCEPT !.skipped = @ \ {m.index}] \in Lanes
    BY <1>3 DEF Lanes
  <2>4. [l EXCEPT !.skipped = KeepSkipped(@, l.index .. m.index - 1), !.index = m.index + 1] \in Lanes
    BY <1>3, <2>1, <2>2 DEF Lanes
  <2>. QED
    BY <1>2, <2>3, <2>4 DEF Taken
<1>7. PICK n : n = Len(d.receiving)
  OBVIOUS
<1>8. /\ s.receiving \in Seq(Lanes) /\ Len(s.receiving) = n
      /\ \A j \in 1..n : s.receiving[j] = IF j = i THEN t ELSE d.receiving[j]
  BY <1>1, <1>5, <1>6, <1>7, ExceptSeq
<1>9. s \in StateSet
  BY <1>1, <1>5, <1>8 DEF StateSet, Ids
<1>10. \A j \in 1..n : /\ s.receiving[j].ratchet = d.receiving[j].ratchet
                       /\ s.receiving[j].path = d.receiving[j].path
                       /\ j # i => s.receiving[j] = d.receiving[j]
  BY <1>2, <1>4, <1>8
<1>11. \A j \in 1..n : \A k \in s.receiving[j].skipped : k < s.receiving[j].index
  <2>1. \A j \in 1..n : \A k \in d.receiving[j].skipped : k < d.receiving[j].index
    BY <1>7 DEF Shape, LaneOk
  <2>. QED
    BY <1>4, <1>8, <2>1
<1>12. s.root = d.root /\ s.base = d.base /\ s.sending = d.sending
  BY <1>5
<1>13. \A j \in 1..n : LaneOk(d, j)
  BY <1>7 DEF Shape
<1>14. \A j \in 1..n : LaneOk(s, j)
  BY <1>7, <1>8, <1>10, <1>11, <1>12, <1>13 DEF LaneOk
<1>15. Shape(p, s)
  BY <1>8, <1>9, <1>12, <1>14 DEF Shape
<1>. QED
  BY <1>1, <1>2, <1>7, <1>8, <1>10, <1>12, <1>15

\* A turn adds a lane one step past the root and a root one step past it.
LEMMA TurnsToShape ==
  ASSUME NEW p \in Parties, NEW d, Shape(p, d), NEW m \in MessageSet, NEW s \in StateSet,
         NEW fresh \in KeyPairs, fresh[1] = p, fresh[2] >= 1, TurnsTo(d, s, m, fresh)
  PROVE  /\ Shape(p, s) /\ HasTurned(s) /\ s.base = d.base
         /\ Precedes(d.root, m.path) /\ Precedes(m.path, s.root)
         /\ Len(m.path) = Len(d.root) + 1 /\ Len(s.root) = Len(d.root) + 2
         /\ m.path[Len(m.path)] = {d.sending.ratchet, m.ratchet}
         /\ s.root[Len(s.root)] = {fresh, m.ratchet}
<1>1. /\ d \in StateSet /\ d.receiving \in Seq(Lanes) /\ d.root \in AllPaths
      /\ d.sending.ratchet \in KeyPairs /\ m.ratchet \in KeyPairs
  BY DEF Shape, StateSet, MessageSet, Sendings
<1>2. PICK r : r = Len(d.root) /\ r \in Nat \ {0} /\ d.root[1] = {d.base}
  BY DEF Shape
<1>3. PICK e1, e2 : e1 = {d.sending.ratchet, m.ratchet} /\ e2 = {fresh, m.ratchet}
  OBVIOUS
<1>4. e1 \in SUBSET KeyPairs /\ e2 \in SUBSET KeyPairs
  BY <1>1, <1>3
<1>5. /\ m.path \in AllPaths /\ Len(m.path) = r + 1 /\ m.path[r + 1] = e1
      /\ \A k \in 1..r : m.path[k] = d.root[k]
  <2>1. m.path = Append(d.root, e1)
    BY <1>3 DEF TurnsTo
  <2>. QED
    BY <1>1, <1>2, <1>4, <2>1, AppendProperties DEF AllPaths
<1>6. /\ Len(s.root) = r + 2 /\ s.root[r + 2] = e2
      /\ \A k \in 1..(r + 1) : s.root[k] = m.path[k]
  <2>1. s.root = Append(m.path, e2)
    BY <1>3 DEF TurnsTo
  <2>2. /\ Len(s.root) = Len(m.path) + 1 /\ s.root[Len(m.path) + 1] = e2
        /\ \A k \in 1..Len(m.path) : s.root[k] = m.path[k]
    BY <1>4, <1>5, <2>1, AppendProperties DEF AllPaths
  <2>3. Len(m.path) + 1 = r + 2
    BY <1>2, <1>5
  <2>. QED
    BY <1>5, <2>2, <2>3
<1>7. s.sending = [ratchet |-> fresh, path |-> s.root, index |-> 0] /\ s.base = d.base
  BY DEF TurnsTo
<1>8. s.sending.ratchet = fresh /\ s.sending.path = s.root
  BY <1>7
<1>9. Precedes(d.root, m.path) /\ Precedes(m.path, s.root)
  BY <1>2, <1>5, <1>6 DEF Precedes
<1>10. s.root[1] = {s.base}
  <2>1. 1 \in 1..r /\ 1 \in 1..(r + 1)
    BY <1>2
  <2>. QED
    BY <1>2, <1>5, <1>6, <1>7, <2>1
<1>11. HasTurned(s)
  BY <1>2, <1>3, <1>6, <1>8 DEF HasTurned
<1>12. PICK n, t : n = Len(s.receiving) /\ t = Taken(Lane(m.ratchet, m.path), m)
  OBVIOUS
<1>13. n \in Nat \ {0} /\ s.receiving[n] = t
  BY <1>12 DEF TurnsTo, Adds
<1>14. PICK gone \in {0, 1} : /\ n = Len(d.receiving) + 1 - gone
                              /\ \A i \in 1..(n - 1) : s.receiving[i] = d.receiving[i + gone]
  BY <1>12 DEF TurnsTo, Adds
<1>15. Len(d.receiving) \in Nat
  BY <1>1, LenProperties
<1>16. /\ t.ratchet = m.ratchet /\ t.path = m.path
       /\ \A k \in t.skipped : k < t.index
  <2>1. PICK l : l = Lane(m.ratchet, m.path)
    OBVIOUS
  <2>2. l \in Lanes /\ l.skipped = {} /\ l.ratchet = m.ratchet /\ l.path = m.path
    BY <1>1, <1>5, <2>1 DEF Lane, Lanes
  <2>. QED
    BY <1>12, <2>1, <2>2, TakenBehind
<1>17. ASSUME NEW i \in 1..(n - 1)
       PROVE  /\ s.receiving[i] = d.receiving[i + gone] /\ i + gone \in 1..Len(d.receiving)
              /\ LaneOk(d, i + gone)
  <2>1. i + gone \in 1..Len(d.receiving)
    BY <1>13, <1>14, <1>15
  <2>. QED
    BY <1>14, <2>1 DEF Shape
<1>18. ASSUME NEW i \in 1..(n - 1)
       PROVE  /\ Len(s.receiving[i].path) \in Nat \ {0}
              /\ Precedes(s.receiving[i].path, d.root)
              /\ Precedes(s.receiving[i].path, s.root)
              /\ s.receiving[i].ratchet # m.ratchet
  <2>1. LaneOk(d, i + gone) /\ s.receiving[i] = d.receiving[i + gone] /\ i + gone \in 1..Len(d.receiving)
    BY <1>17
  <2>2. Len(s.receiving[i].path) \in Nat \ {0} /\ Precedes(s.receiving[i].path, d.root)
    BY <2>1 DEF LaneOk
  <2>3. Precedes(s.receiving[i].path, s.root)
    <3>1. PICK q : q = s.receiving[i].path
      OBVIOUS
    <3>2. /\ Len(q) \in Nat /\ Len(q) < r
          /\ \A k \in 1..Len(q) : q[k] = d.root[k]
      BY <1>2, <2>2, <3>1 DEF Precedes
    <3>3. \A k \in 1..Len(q) : k \in 1..r /\ k \in 1..(r + 1)
      BY <1>2, <3>2
    <3>4. \A k \in 1..Len(q) : q[k] = s.root[k]
      BY <1>5, <1>6, <3>2, <3>3
    <3>5. Len(q) < Len(s.root)
      BY <1>2, <1>6, <3>2
    <3>. QED
      BY <3>1, <3>4, <3>5 DEF Precedes
  <2>4. s.receiving[i].ratchet # m.ratchet
    BY <2>1 DEF TurnsTo
  <2>. QED
    BY <2>2, <2>3, <2>4
<1>19. ASSUME NEW i \in 1..n  PROVE LaneOk(s, i)
  <2>1. CASE i = n
    <3>1. s.receiving[i].path = m.path /\ s.receiving[i].ratchet = m.ratchet
      BY <1>13, <1>16, <2>1
    <3>2. \A j \in 1..n : ~ (i < j) /\ (i # j => j \in 1..(n - 1))
      BY <1>13, <2>1
    <3>3. \A k \in s.receiving[i].skipped : k < s.receiving[i].index
      BY <1>13, <1>16, <2>1
    <3>4. Len(m.path) \in Nat \ {0}
      BY <1>2, <1>5
    <3>5. \A j \in 1..n : i # j => s.receiving[i].ratchet # s.receiving[j].ratchet
      BY <1>18, <3>1, <3>2
    <3>. QED
      BY <1>9, <1>12, <3>1, <3>2, <3>3, <3>4, <3>5 DEF LaneOk
  <2>2. CASE i # n
    <3>1. i \in 1..(n - 1)
      BY <1>13, <2>2
    <3>2. \A k \in s.receiving[i].skipped : k < s.receiving[i].index
      BY <1>17, <3>1 DEF LaneOk
    <3>3. ASSUME NEW j \in 1..n
          PROVE  /\ i < j => Len(s.receiving[i].path) < Len(s.receiving[j].path)
                 /\ i # j => s.receiving[i].ratchet # s.receiving[j].ratchet
      <4>1. CASE j = n
        <5>1. s.receiving[j].path = m.path /\ s.receiving[j].ratchet = m.ratchet
          BY <1>13, <1>16, <4>1
        <5>2. Len(s.receiving[i].path) < r /\ Len(s.receiving[i].path) \in Nat
          BY <1>2, <1>18, <3>1 DEF Precedes
        <5>3. Len(s.receiving[i].path) < Len(m.path)
          BY <1>2, <1>5, <5>2
        <5>. QED
          BY <1>18, <3>1, <5>1, <5>3
      <4>2. CASE j # n
        <5>1. j \in 1..(n - 1)
          BY <1>13, <4>2
        <5>2. /\ s.receiving[i] = d.receiving[i + gone] /\ s.receiving[j] = d.receiving[j + gone]
              /\ j + gone \in 1..Len(d.receiving) /\ LaneOk(d, i + gone)
          BY <1>17, <3>1, <5>1
        <5>3. (i < j => i + gone < j + gone) /\ (i # j => i + gone # j + gone)
          BY <3>1, <5>1
        <5>. QED
          BY <5>2, <5>3 DEF LaneOk
      <4>. QED
        BY <4>1, <4>2
    <3>. QED
      BY <1>12, <1>18, <3>1, <3>2, <3>3 DEF LaneOk
  <2>. QED
    BY <2>1, <2>2
<1>20. Len(s.root) \in Nat \ {0}
  BY <1>2, <1>6
<1>21. Shape(p, s)
  BY <1>8, <1>10, <1>12, <1>19, <1>20 DEF Shape
<1>. QED
  BY <1>2, <1>3, <1>5, <1>6, <1>7, <1>9, <1>11, <1>21

-----------------------------------------------------------------------------
(* The inductive invariant: what was drawn, and what was sealed with it. *)

Faults == {"none", "NoSession", "BadMessage", "Replay", "UnknownKeyId"}

\* Every variable holds what its declaration says.
TypeOK ==
  /\ archive \in [Parties -> Archives] /\ \A p \in Parties : IsRecord(archive[p])
  /\ made \in [Parties -> Nat]
  /\ oneTime \in [Parties -> SUBSET OneTimeIds] /\ server \in [Parties -> SUBSET OneTimeIds]
  /\ network \subseteq MessageSet /\ IsFiniteSet(network)
  /\ opened \in [Parties -> SUBSET Nat]
  /\ trimmed \in [Parties -> SUBSET (AllPaths \X Nat)]
  /\ lanesGone \in [Parties -> SUBSET AllPaths]
  /\ forgot \in [Parties -> SUBSET KeyPairs]
  /\ last \in {NoCall} \cup [fault : Faults, to : Parties, serial : Nat]

Drawn(pair) == pair[2] <= made[pair[1]]
DrawnPath(path) == \A k \in 1..Len(path) : \A pair \in path[k] : Drawn(pair)

\* What a state is named by was drawn before.
DrawnState(s) ==
  /\ DrawnPath(s.root) /\ Drawn(s.sending.ratchet)
  /\ \A i \in 1..Len(s.receiving) : Drawn(s.receiving[i].ratchet)

StatesOk ==
  \A p \in Parties : \A s \in In(archive[p]) : Shape(p, s) /\ HasTurned(s) /\ DrawnState(s)

\* A message is sealed on a chain of its sender's own, in a session that it knows.
MessageOk(m) ==
  /\ m.ratchet[1] = Peer(m.to) /\ m.ratchet[2] >= 1 /\ Drawn(m.ratchet)
  /\ Len(m.path) >= 2 /\ m.path[1] = {m.base} /\ DrawnPath(m.path)
  /\ m.base \in Knew(Peer(m.to))

MessagesOk == \A m \in network : MessageOk(m)

\* The next step of a sending chain seals nothing yet.
Unsealed ==
  \A p \in Parties : \A s \in In(archive[p]) : \A m \in network :
    /\ m.path = s.root => m.to = Peer(p) /\ m.index < s.sending.index /\ m.ratchet = s.sending.ratchet
    /\ m.ratchet = s.sending.ratchet => m.path = s.root

\* No two states stand at one root or send under one ratchet key.
OwnRoots ==
  \A p, q \in Parties : \A s \in In(archive[p]), t \in In(archive[q]) :
    s.root = t.root \/ s.sending.ratchet = t.sending.ratchet => p = q /\ s = t

\* A handshake is answered once the other device has the session.
Answered ==
  \A p \in Parties : \A s \in In(archive[p]) : s.pending = "none" => s.base \in Knew(Peer(p))

SealInv ==
  TypeOK /\ StatesOk /\ MessagesOk /\ Unsealed /\ OwnRoots /\ SealedOnce /\ Answered /\ WrappedUntilAnswered

-----------------------------------------------------------------------------
(* What the steps do to the records. *)

\* p's record becomes another, and what falls out of it is noted.
Changes(p) ==
  /\ archive' = [archive EXCEPT ![p] = archive'[p]] /\ IsRecord(archive'[p])
  /\ forgot' = [forgot EXCEPT ![p] = @ \cup (Bases(archive[p]) \ Bases(archive'[p]))]
  /\ lanesGone' = [lanesGone EXCEPT ![p] = @ \cup (Paths(archive[p]) \ Paths(archive'[p]))]

\* s is in p's record, in d's place if d was there, and nothing else is new.
Comes(p, d, s) ==
  Changes(p) /\ s \in In(archive'[p]) /\ In(archive'[p]) \subseteq (In(archive[p]) \ {d}) \cup {s}

Opening(p, id) ==
  InitiatorState(Fresh(p), SignedPreKey(Peer(p)), <<p, made[p] + 2>>, id)

Sealing(p, s) ==
  [to |-> Peer(p), serial |-> Cardinality(network) + 1,
   kind |-> IF s.pending = "waiting" THEN "first" ELSE "whisper",
   base |-> s.base, oneTimeId |-> s.oneTimeId,
   ratchet |-> s.sending.ratchet, path |-> s.sending.path, index |-> s.sending.index]

Starts(p) ==
  \E id \in server[Peer(p)] \cup {NoKey} :
    /\ Changes(p) /\ Opening(p, id) \in In(archive'[p])
    /\ In(archive'[p]) \subseteq In(archive[p]) \cup {Opening(p, id)}
    /\ server' = [server EXCEPT ![Peer(p)] = @ \ {id}]
    /\ made' = [made EXCEPT ![p] = @ + 2] /\ last' = NoCall
    /\ UNCHANGED <<oneTime, network, opened, trimmed>>

Seals(p) ==
  \E s \in In(archive[p]) :
    /\ Comes(p, s, [s EXCEPT !.sending.index = @ + 1]) /\ s.pending # "stale"
    /\ network' = network \cup {Sealing(p, s)} /\ last' = NoCall
    /\ UNCHANGED <<made, oneTime, server, opened, trimmed, lanesGone, forgot>>

Ages(p) ==
  \E s \in In(archive[p]) :
    /\ Comes(p, s, [s EXCEPT !.pending = "stale"]) /\ s.pending = "waiting" /\ last' = NoCall
    /\ UNCHANGED <<made, oneTime, server, network, opened, trimmed, lanesGone, forgot>>

Shelves(p) ==
  /\ Changes(p) /\ In(archive'[p]) \subseteq In(archive[p]) /\ last' = NoCall
  /\ UNCHANGED <<made, oneTime, server, network, opened, trimmed>>

\* d, the state that opens m, is in the record, or a new one for a first message.
Finds(p, m, d) ==
  \/ d \in In(archive[p])
  \/ /\ d = ResponderState(m.base, SignedPreKey(p)) /\ m.kind = "first"
     /\ m.base \notin Bases(archive[p]) /\ m.oneTimeId \in oneTime[p] \cup {NoKey}

OpensIn(p, m, d, s) ==
  /\ Finds(p, m, d) /\ d.base = m.base /\ Comes(p, d, s)
  /\ \/ \E i \in 1..Len(d.receiving) :
          /\ OpensOn(d, s, m, i) /\ d \in In(archive[p]) /\ made' = made
          /\ trimmed' = [trimmed EXCEPT ![p] = @ \cup {<<m.path, k>> : k \in Dropped(d.receiving[i], m)}]
     \/ /\ TurnsTo(d, s, m, Fresh(p)) /\ made' = [made EXCEPT ![p] = @ + 1]
        /\ trimmed' = [trimmed EXCEPT ![p] =
             @ \cup {<<m.path, k>> : k \in Dropped(Lane(m.ratchet, m.path), m)}]
  /\ oneTime' = IF d \in In(archive[p]) THEN oneTime ELSE [oneTime EXCEPT ![p] = @ \ {m.oneTimeId}]

Opens(p, m) ==
  /\ m.to = p /\ \E d, s \in StateSet : OpensIn(p, m, d, s)
  /\ opened' = [opened EXCEPT ![p] = @ \cup {m.serial}]
  /\ last' = [fault |-> "none", to |-> p, serial |-> m.serial]
  /\ UNCHANGED <<server, network>>

LEMMA InHas ==
  ASSUME TypeOK, NEW p \in Parties, NEW s \in In(archive[p])
  PROVE  s \in StateSet /\ s.base \in Bases(archive[p])
BY InStates DEF TypeOK

\* Promotion of a state with a new base, and shelving, as the record's set of states.
LEMMA StartIs == ASSUME TypeOK, StatesOk, NEW p \in Parties, Start(p)  PROVE Starts(p)
<1>1. PICK id \in server[Peer(p)] \cup {NoKey} :
        /\ server' = [server EXCEPT ![Peer(p)] = @ \ {id}]
        /\ Store(p, Promote(archive[p], Opening(p, id)))
  BY DEF Start, Opening
<1>2. /\ p \in Parties /\ Peer(p) \in Parties /\ made[p] \in Nat
      /\ IsRecord(archive[p]) /\ archive[p] \in Archives /\ id \in Ids
  BY <1>1, PeerIs DEF TypeOK, Ids, IsRecord
<1>3. PICK base, pair, signed : base = Fresh(p) /\ pair = <<p, made[p] + 2>> /\ signed = SignedPreKey(Peer(p))
  OBVIOUS
<1>4. base \in KeyPairs /\ pair \in KeyPairs /\ signed \in KeyPairs
  BY <1>2, <1>3 DEF KeyPairs, Fresh, SignedPreKey
<1>5. PICK root : root = Append(<<{base}>>, {pair, signed})
  OBVIOUS
<1>6. <<{base}>> \in AllPaths /\ root \in AllPaths
  <2>1. {base} \in SUBSET KeyPairs /\ {pair, signed} \in SUBSET KeyPairs
    BY <1>4
  <2>2. <<{base}>> \in AllPaths
    BY <2>1 DEF AllPaths
  <2>. QED
    BY <1>5, <2>1, <2>2, AppendProperties DEF AllPaths
<1>7. PICK s : s = Opening(p, id)
  OBVIOUS
<1>8. s = [base |-> base, root |-> root, sending |-> [ratchet |-> pair, path |-> root, index |-> 0],
           receiving |-> <<Lane(signed, <<{base}>>)>>, pending |-> "waiting", oneTimeId |-> id]
  BY <1>3, <1>5, <1>7 DEF Opening, InitiatorState
<1>9. <<Lane(signed, <<{base}>>)>> \in Seq(Lanes)
  <2>1. Lane(signed, <<{base}>>) \in Lanes
    BY <1>4, <1>6 DEF Lane, Lanes
  <2>. QED
    BY <2>1
<1>10. s \in StateSet
  BY <1>2, <1>4, <1>6, <1>8, <1>9 DEF StateSet, Sendings
<1>11. s.base \notin Bases(archive[p])
  <2>1. SUFFICES ASSUME NEW t \in In(archive[p]), t.base = base  PROVE FALSE
    BY <1>2, <1>8, InStates
  <2>2. Shape(p, t) /\ DrawnPath(t.root)
    BY DEF StatesOk, DrawnState
  <2>3. 1 \in 1..Len(t.root) /\ base \in t.root[1]
    BY <2>1, <2>2 DEF Shape
  <2>4. Drawn(base)
    BY <2>2, <2>3 DEF DrawnPath
  <2>5. base[1] = p /\ base[2] = made[p] + 1
    BY <1>3 DEF Fresh
  <2>. QED
    BY <1>2, <2>4, <2>5 DEF Drawn
<1>12. PICK ar : ar = Promote(archive[p], s)
  OBVIOUS
<1>13. /\ IsRecord(ar) /\ s \in In(ar) /\ In(ar) \subseteq In(archive[p]) \cup {s}
  BY <1>2, <1>10, <1>11, <1>12, PromoteKeeps
<1>14. Changes(p) /\ archive'[p] = ar
  <2>1. Store(p, ar)
    BY <1>1, <1>7, <1>12
  <2>2. archive'[p] = ar
    BY <2>1 DEF Store, TypeOK
  <2>. QED
    BY <1>13, <2>1, <2>2 DEF Store, Changes
<1>. QED
  BY <1>1, <1>7, <1>13, <1>14 DEF Starts, Start

LEMMA ShelveIs == ASSUME TypeOK, NEW p \in Parties, Shelve(p)  PROVE Shelves(p)
<1>1. IsRecord(archive[p])
  BY DEF TypeOK
<1>2. PICK ar : ar = Shelved(archive[p])
  OBVIOUS
<1>3. IsRecord(ar) /\ In(ar) \subseteq In(archive[p])
  BY <1>1, <1>2, ShelvedIn
<1>4. Store(p, ar)
  BY <1>2 DEF Shelve
<1>5. archive'[p] = ar
  BY <1>4 DEF Store, TypeOK
<1>. QED
  BY <1>3, <1>4, <1>5 DEF Shelves, Shelve, Store, Changes

\* A live state replaced by one with its base and its lanes' paths.
LEMMA LiveBecomes ==
  ASSUME TypeOK, NEW p \in Parties, archive[p].live # <<>>, NEW s \in StateSet,
         s.base = archive[p].live[1].base, PathsOf(s) = PathsOf(archive[p].live[1]),
         archive' = [archive EXCEPT ![p].live = <<s>>], UNCHANGED <<lanesGone, forgot>>
  PROVE  Comes(p, archive[p].live[1], s) /\ archive[p].live[1] \in In(archive[p])
<1>1. IsRecord(archive[p]) /\ archive \in [Parties -> Archives]
  BY DEF TypeOK
<1>2. PICK ar, d : ar = [archive[p] EXCEPT !.live = <<s>>] /\ d = archive[p].live[1]
  OBVIOUS
<1>3. archive' = [archive EXCEPT ![p] = ar] /\ archive'[p] = ar
  BY <1>1, <1>2
<1>4. /\ IsRecord(ar) /\ s \in In(ar) /\ d \in In(archive[p])
      /\ In(ar) = (In(archive[p]) \ {d}) \cup {s}
  BY <1>1, <1>2, LiveReplaced
<1>5. Bases(ar) = Bases(archive[p]) /\ Paths(ar) = Paths(archive[p])
  <2>1. /\ Bases(ar) = {t.base : t \in In(ar)} /\ Bases(archive[p]) = {t.base : t \in In(archive[p])}
        /\ Paths(ar) = UNION {PathsOf(t) : t \in In(ar)}
        /\ Paths(archive[p]) = UNION {PathsOf(t) : t \in In(archive[p])}
    BY <1>1, <1>4, InStates DEF IsRecord
  <2>2. s.base = d.base /\ PathsOf(s) = PathsOf(d)
    BY <1>2
  <2>3. Bases(ar) = Bases(archive[p])
    BY <1>4, <2>1, <2>2
  <2>4. Paths(ar) = Paths(archive[p])
    BY <1>4, <2>1, <2>2
  <2>. QED
    BY <2>3, <2>4
<1>6. /\ forgot' = [forgot EXCEPT ![p] = @ \cup (Bases(archive[p]) \ Bases(archive'[p]))]
      /\ lanesGone' = [lanesGone EXCEPT ![p] = @ \cup (Paths(archive[p]) \ Paths(archive'[p]))]
  BY <1>3, <1>5 DEF TypeOK
<1>. QED
  BY <1>2, <1>3, <1>4, <1>6 DEF Comes, Changes

LEMMA SealIs == ASSUME TypeOK, NEW p \in Parties, Seal(p)  PROVE Seals(p)
<1>1. PICK s, t : s = archive[p].live[1] /\ t = [s EXCEPT !.sending.index = @ + 1]
  OBVIOUS
<1>2. archive[p].live # <<>> /\ archive[p].live \in Seq(StateSet) /\ archive \in [Parties -> Archives]
  BY DEF Seal, TypeOK, Archives
<1>3. Len(archive[p].live) \in Nat \ {0}
  BY <1>2, EmptySeq
<1>4. s \in StateSet
  BY <1>1, <1>2, <1>3, ElementOfSeq
<1>5. t \in StateSet /\ t.base = s.base /\ t.receiving = s.receiving
  BY <1>1, <1>4 DEF StateSet, Sendings
<1>6. archive' = [archive EXCEPT ![p].live = <<t>>]
  <2>1. archive' = [archive EXCEPT ![p].live[1].sending.index = @ + 1]
    BY DEF Seal
  <2>2. Len(archive[p].live) = 1
    <3>1. PICK n : n = Len(archive[p].live)
      OBVIOUS
    <3>2. n \in Nat \ {0} /\ n <= 1
      BY <1>3, <3>1 DEF TypeOK, IsRecord
    <3>3. n = 1
      BY <3>2
    <3>. QED
      BY <3>1, <3>3
  <2>3. [archive[p].live EXCEPT ![1].sending.index = @ + 1] = <<t>>
    BY <1>1, <1>2, <2>2
  <2>. QED
    BY <1>2, <2>1, <2>3
<1>7. Comes(p, s, t) /\ s \in In(archive[p])
  <2>1. PathsOf(t) = PathsOf(s)
    BY <1>5 DEF PathsOf
  <2>2. UNCHANGED <<lanesGone, forgot>>
    BY DEF Seal
  <2>. QED
    BY <1>1, <1>2, <1>5, <1>6, <2>1, <2>2, LiveBecomes
<1>8. /\ s.pending # "stale" /\ network' = network \cup {Sealing(p, s)} /\ last' = NoCall
      /\ UNCHANGED <<made, oneTime, server, opened, trimmed, lanesGone, forgot>>
  BY <1>1 DEF Seal, Sealing
<1>. QED
  BY <1>1, <1>7, <1>8 DEF Seals

LEMMA AgeIs == ASSUME TypeOK, NEW p \in Parties, Age(p)  PROVE Ages(p)
<1>1. PICK s, t : s = archive[p].live[1] /\ t = [s EXCEPT !.pending = "stale"]
  OBVIOUS
<1>2. archive[p].live # <<>> /\ archive[p].live \in Seq(StateSet) /\ archive \in [Parties -> Archives]
  BY DEF Age, TypeOK, Archives
<1>3. Len(archive[p].live) \in Nat \ {0}
  BY <1>2, EmptySeq
<1>4. s \in StateSet
  BY <1>1, <1>2, <1>3, ElementOfSeq
<1>5. t \in StateSet /\ t.base = s.base /\ t.receiving = s.receiving
  BY <1>1, <1>4 DEF StateSet
<1>6. archive' = [archive EXCEPT ![p].live = <<t>>]
  <2>1. archive' = [archive EXCEPT ![p].live[1].pending = "stale"]
    BY DEF Age
  <2>2. Len(archive[p].live) = 1
    <3>1. PICK n : n = Len(archive[p].live)
      OBVIOUS
    <3>2. n \in Nat \ {0} /\ n <= 1
      BY <1>3, <3>1 DEF TypeOK, IsRecord
    <3>3. n = 1
      BY <3>2
    <3>. QED
      BY <3>1, <3>3
  <2>3. [archive[p].live EXCEPT ![1].pending = "stale"] = <<t>>
    BY <1>1, <1>2, <2>2
  <2>. QED
    BY <1>2, <2>1, <2>3
<1>7. Comes(p, s, t) /\ s \in In(archive[p])
  <2>1. PathsOf(t) = PathsOf(s)
    BY <1>5 DEF PathsOf
  <2>2. UNCHANGED <<lanesGone, forgot>>
    BY DEF Age
  <2>. QED
    BY <1>1, <1>2, <1>5, <1>6, <2>1, <2>2, LiveBecomes
<1>8. /\ s.pending = "waiting" /\ last' = NoCall
      /\ UNCHANGED <<made, oneTime, server, network, opened, trimmed, lanesGone, forgot>>
  BY <1>1 DEF Age
<1>. QED
  BY <1>1, <1>7, <1>8 DEF Ages

\* openWithArchive's success: one state of the record it was given opened the
\* message, on a lane of its own or by a turn.
LEMMA AcceptIs ==
  ASSUME TypeOK, NEW p \in Parties, NEW m \in network, NEW before, IsRecord(before),
         Accept(p, m, before)
  PROVE  \E d \in In(before), s \in StateSet :
           /\ s.base = d.base /\ Changes(p) /\ s \in In(archive'[p])
           /\ In(archive'[p]) \subseteq (In(before) \ {d}) \cup {s}
           /\ \/ \E i \in 1..Len(d.receiving) :
                   /\ OpensOn(d, s, m, i) /\ made' = made
                   /\ trimmed' = [trimmed EXCEPT ![p] =
                        @ \cup {<<m.path, k>> : k \in Dropped(d.receiving[i], m)}]
              \/ /\ TurnsTo(d, s, m, Fresh(p)) /\ made' = [made EXCEPT ![p] = @ + 1]
                 /\ trimmed' = [trimmed EXCEPT ![p] =
                      @ \cup {<<m.path, k>> : k \in Dropped(Lane(m.ratchet, m.path), m)}]
<1>1. PICK fresh, i : fresh = Fresh(p) /\ i = Decider(before, m, fresh)
  OBVIOUS
<1>2. PICK d : d = States(before)[i]
  OBVIOUS
<1>3. PICK f, lane : f = Facing(d, m, fresh) /\ lane = f.receiving[TheLane(f, m)]
  OBVIOUS
<1>4. PICK s : s = StateAfter(d, m, fresh)
  OBVIOUS
<1>5. PICK ar : ar = ArchiveAfter(before, m, fresh)
  OBVIOUS
<1>6. before \in Archives /\ m \in MessageSet /\ fresh \in KeyPairs
  BY <1>1 DEF IsRecord, TypeOK, Fresh, KeyPairs
<1>7. /\ ArchiveVerdict(before, m, fresh) = "none"
      /\ Store(p, ar)
      /\ made' = [made EXCEPT ![p] = IF f = d THEN @ ELSE @ + 1]
      /\ trimmed' = [trimmed EXCEPT ![p] = @ \cup {<<lane.path, k>> : k \in Dropped(lane, m)}]
  BY <1>1, <1>2, <1>3, <1>5 DEF Accept
<1>8. i # 0 /\ i \in DOMAIN States(before) /\ StateVerdict(d, m, fresh) = "none"
  BY <1>1, <1>2, <1>6, <1>7, VerdictIs, DeciderIs
<1>9. d \in In(before) /\ d \in StateSet
  BY <1>2, <1>6, <1>8, InStates DEF In
<1>10. s \in StateSet /\ s.base = d.base
  BY <1>4, <1>6, <1>9, OnALane, OnANewLane
<1>11. IsRecord(ar) /\ s \in In(ar) /\ In(ar) \subseteq (In(before) \ {d}) \cup {s}
  BY <1>1, <1>2, <1>4, <1>5, <1>8, <1>10, ArchiveAfterKeeps
<1>12. archive'[p] = ar
  BY <1>7 DEF Store, TypeOK
<1>13. Changes(p) /\ s \in In(archive'[p]) /\ In(archive'[p]) \subseteq (In(before) \ {d}) \cup {s}
  BY <1>7, <1>11, <1>12 DEF Store, Changes
<1>14. CASE LanesOf(d, m.ratchet) # {}
  <2>1. PICK j : j = TheLane(d, m)
    OBVIOUS
  <2>2. /\ f = d /\ j \in 1..Len(d.receiving) /\ OpensOn(d, s, m, j) /\ lane = d.receiving[j]
    BY <1>3, <1>4, <1>6, <1>8, <1>9, <1>14, <2>1, OnALane
  <2>3. lane.path = m.path /\ made' = made
    BY <1>7, <2>2 DEF OpensOn, TypeOK
  <2>4. trimmed' = [trimmed EXCEPT ![p] = @ \cup {<<m.path, k>> : k \in Dropped(d.receiving[j], m)}]
    BY <1>7, <2>2, <2>3
  <2>. QED
    BY <1>9, <1>10, <1>13, <2>2, <2>3, <2>4
<1>15. CASE LanesOf(d, m.ratchet) = {}
  <2>1. PICK path : path = Append(d.root, {d.sending.ratchet, m.ratchet})
    OBVIOUS
  <2>2. f # d /\ lane = Lane(m.ratchet, path) /\ TurnsTo(d, s, m, fresh)
    BY <1>3, <1>4, <1>6, <1>8, <1>9, <1>15, <2>1, OnANewLane
  <2>3. m.path = path /\ lane.path = m.path
    BY <2>1, <2>2 DEF TurnsTo, Lane
  <2>4. trimmed' = [trimmed EXCEPT ![p] =
                      @ \cup {<<m.path, k>> : k \in Dropped(Lane(m.ratchet, m.path), m)}]
    BY <1>7, <2>2, <2>3
  <2>5. made' = [made EXCEPT ![p] = @ + 1]
    BY <1>7, <2>2
  <2>. QED
    BY <1>1, <1>9, <1>10, <1>13, <2>2, <2>4, <2>5
<1>. QED
  BY <1>14, <1>15

LEMMA ResponderShape ==
  ASSUME NEW p \in Parties, NEW base \in KeyPairs
  PROVE  LET d == ResponderState(base, SignedPreKey(p)) IN
         /\ Shape(p, d) /\ d.base = base /\ d.root = <<{base}>> /\ Len(d.root) = 1
         /\ d.receiving = <<>> /\ Len(d.receiving) = 0 /\ d.sending.ratchet = SignedPreKey(p)
         /\ d.pending = "none" /\ d.oneTimeId = NoKey
<1>1. PICK d, signed, root :
        d = ResponderState(base, SignedPreKey(p)) /\ signed = SignedPreKey(p) /\ root = <<{base}>>
  OBVIOUS
<1>2. signed = <<p, 0>> /\ signed \in KeyPairs /\ signed[1] = p
  BY <1>1 DEF SignedPreKey, KeyPairs
<1>3. root \in AllPaths /\ Len(root) = 1 /\ root[1] = {base}
  BY <1>1 DEF AllPaths
<1>4. d = [base |-> base, root |-> root, sending |-> [ratchet |-> signed, path |-> root, index |-> 0],
           receiving |-> <<>>, pending |-> "none", oneTimeId |-> NoKey]
  BY <1>1 DEF ResponderState
<1>5. d \in StateSet
  BY <1>2, <1>3, <1>4, EmptySeq DEF StateSet, Sendings, Ids
<1>6. d.receiving = <<>> /\ Len(d.receiving) = 0
  BY <1>4, EmptySeq
<1>7. Shape(p, d)
  <2>1. d.root = root /\ d.sending.path = root /\ d.sending.ratchet = signed /\ d.base = base
    BY <1>4
  <2>2. \A i \in 1..Len(d.receiving) : LaneOk(d, i)
    BY <1>6
  <2>3. Len(d.root) \in Nat \ {0} /\ d.root[1] = {d.base} /\ d.root = d.sending.path
        /\ d.sending.ratchet[1] = p
    BY <1>2, <1>3, <2>1
  <2>. QED
    BY <1>5, <2>2, <2>3 DEF Shape
<1>. QED
  BY <1>1, <1>2, <1>3, <1>4, <1>6, <1>7

\* A state opens messages of its own session only: their paths begin with its base.
LEMMA SameBase ==
  ASSUME NEW p \in Parties, NEW d, Shape(p, d), NEW m \in MessageSet, m.path[1] = {m.base},
         NEW s, NEW fresh,
         (\E i \in 1..Len(d.receiving) : OpensOn(d, s, m, i)) \/ TurnsTo(d, s, m, fresh)
  PROVE  d.base = m.base
<1>1. d.root[1] = {d.base} /\ Len(d.root) \in Nat \ {0} /\ d.root \in AllPaths
      /\ d.sending.ratchet \in KeyPairs
  BY DEF Shape, StateSet, Sendings
<1>2. ASSUME NEW i \in 1..Len(d.receiving), OpensOn(d, s, m, i)  PROVE m.path[1] = d.root[1]
  <2>1. LaneOk(d, i) /\ m.path = d.receiving[i].path
    BY <1>2 DEF Shape, OpensOn
  <2>2. 1 \in 1..Len(m.path) /\ \A k \in 1..Len(m.path) : m.path[k] = d.root[k]
    BY <2>1 DEF LaneOk, Precedes
  <2>. QED
    BY <2>2
<1>3. ASSUME TurnsTo(d, s, m, fresh)  PROVE m.path[1] = d.root[1]
  <2>1. m.path = Append(d.root, {d.sending.ratchet, m.ratchet})
    BY <1>3 DEF TurnsTo
  <2>2. {d.sending.ratchet, m.ratchet} \in SUBSET KeyPairs
    BY <1>1 DEF MessageSet
  <2>3. PICK n : n = Len(d.root) /\ n \in Nat \ {0} /\ d.root \in Seq(SUBSET KeyPairs)
    BY <1>1 DEF AllPaths
  <2>4. \A j \in 1..Len(d.root) : Append(d.root, {d.sending.ratchet, m.ratchet})[j] = d.root[j]
    BY <2>2, <2>3, AppendProperties
  <2>5. 1 \in 1..n
    BY <2>3
  <2>. QED
    BY <2>1, <2>3, <2>4, <2>5
<1>4. m.path[1] = d.root[1]
  BY <1>2, <1>3
<1>. QED
  BY <1>1, <1>4

LEMMA WhisperIs ==
  ASSUME TypeOK, StatesOk, MessagesOk, NEW p \in Parties, NEW m \in network, m.to = p,
         Accept(p, m, archive[p]), UNCHANGED oneTime
  PROVE  Opens(p, m)
<1>1. IsRecord(archive[p]) /\ m \in MessageSet /\ m.path[1] = {m.base}
  BY DEF TypeOK, MessagesOk, MessageOk
<1>2. PICK d \in In(archive[p]), s \in StateSet :
           /\ s.base = d.base /\ Changes(p) /\ s \in In(archive'[p])
           /\ In(archive'[p]) \subseteq (In(archive[p]) \ {d}) \cup {s}
           /\ \/ \E i \in 1..Len(d.receiving) :
                   /\ OpensOn(d, s, m, i) /\ made' = made
                   /\ trimmed' = [trimmed EXCEPT ![p] =
                        @ \cup {<<m.path, k>> : k \in Dropped(d.receiving[i], m)}]
              \/ /\ TurnsTo(d, s, m, Fresh(p)) /\ made' = [made EXCEPT ![p] = @ + 1]
                 /\ trimmed' = [trimmed EXCEPT ![p] =
                      @ \cup {<<m.path, k>> : k \in Dropped(Lane(m.ratchet, m.path), m)}]
  BY <1>1, AcceptIs
<1>3. Shape(p, d) /\ d \in StateSet
  BY DEF StatesOk, Shape
<1>4. d.base = m.base
  BY <1>1, <1>2, <1>3, SameBase
<1>5. OpensIn(p, m, d, s)
  BY <1>2, <1>4 DEF OpensIn, Finds, Comes
<1>. QED
  BY <1>3, <1>5 DEF Opens, Accept

LEMMA FirstIs ==
  ASSUME TypeOK, StatesOk, MessagesOk, NEW p \in Parties, NEW m \in network, m.to = p,
         m.kind = "first",
         NEW known, known = (m.base \in Bases(archive[p])),
         known \/ m.oneTimeId \in oneTime[p] \cup {NoKey},
         Accept(p, m, IF known THEN Revive(archive[p], m.base)
                      ELSE Promote(archive[p], ResponderState(m.base, SignedPreKey(p)))),
         oneTime' = IF known THEN oneTime ELSE [oneTime EXCEPT ![p] = @ \ {m.oneTimeId}]
  PROVE  Opens(p, m)
<1>1. /\ IsRecord(archive[p]) /\ archive[p] \in Archives
      /\ m \in MessageSet /\ m.path[1] = {m.base} /\ m.base \in KeyPairs
  BY DEF TypeOK, MessagesOk, MessageOk, MessageSet, IsRecord
<1>2. PICK r : r = ResponderState(m.base, SignedPreKey(p))
  OBVIOUS
<1>3. Shape(p, r) /\ r.base = m.base /\ Len(r.receiving) = 0 /\ r \in StateSet
  BY <1>1, <1>2, ResponderShape DEF Shape
<1>4. PICK before : before = IF known THEN Revive(archive[p], m.base) ELSE Promote(archive[p], r)
  OBVIOUS
<1>5. /\ IsRecord(before) /\ In(before) \subseteq In(archive[p]) \cup {r}
      /\ known => In(before) \subseteq In(archive[p])
  BY <1>1, <1>3, <1>4, ReviveKeeps, PromoteKeeps
<1>6. PICK d \in In(before), s \in StateSet :
           /\ s.base = d.base /\ Changes(p) /\ s \in In(archive'[p])
           /\ In(archive'[p]) \subseteq (In(before) \ {d}) \cup {s}
           /\ \/ \E i \in 1..Len(d.receiving) :
                   /\ OpensOn(d, s, m, i) /\ made' = made
                   /\ trimmed' = [trimmed EXCEPT ![p] =
                        @ \cup {<<m.path, k>> : k \in Dropped(d.receiving[i], m)}]
              \/ /\ TurnsTo(d, s, m, Fresh(p)) /\ made' = [made EXCEPT ![p] = @ + 1]
                 /\ trimmed' = [trimmed EXCEPT ![p] =
                      @ \cup {<<m.path, k>> : k \in Dropped(Lane(m.ratchet, m.path), m)}]
  BY <1>2, <1>4, <1>5, AcceptIs
<1>7. Shape(p, d) /\ d \in StateSet
  BY <1>3, <1>5 DEF StatesOk, Shape
<1>8. d.base = m.base
  BY <1>1, <1>6, <1>7, SameBase
<1>9. CASE known
  <2>1. d \in In(archive[p]) /\ In(archive'[p]) \subseteq (In(archive[p]) \ {d}) \cup {s}
    BY <1>5, <1>6, <1>9
  <2>2. oneTime' = IF d \in In(archive[p]) THEN oneTime ELSE [oneTime EXCEPT ![p] = @ \ {m.oneTimeId}]
    BY <1>9, <2>1
  <2>3. OpensIn(p, m, d, s)
    BY <1>6, <1>8, <2>1, <2>2 DEF OpensIn, Finds, Comes
  <2>. QED
    BY <1>7, <2>3 DEF Opens, Accept
<1>10. CASE ~ known
  <2>1. d \notin In(archive[p])
    <3>1. Bases(archive[p]) = {t.base : t \in In(archive[p])}
      BY <1>1, InStates
    <3>2. m.base \notin Bases(archive[p])
      BY <1>10
    <3>. QED
      BY <1>8, <3>1, <3>2
  <2>2. d = r
    BY <1>5, <2>1
  <2>3. TurnsTo(d, s, m, Fresh(p)) /\ made' = [made EXCEPT ![p] = @ + 1]
        /\ trimmed' = [trimmed EXCEPT ![p] =
                         @ \cup {<<m.path, k>> : k \in Dropped(Lane(m.ratchet, m.path), m)}]
    <3>1. ~ \E i \in 1..Len(d.receiving) : OpensOn(d, s, m, i)
      BY <1>3, <2>2
    <3>. QED
      BY <1>6, <3>1
  <2>4. In(archive'[p]) \subseteq (In(archive[p]) \ {d}) \cup {s}
    BY <1>5, <1>6, <2>1, <2>2
  <2>5. oneTime' = IF d \in In(archive[p]) THEN oneTime ELSE [oneTime EXCEPT ![p] = @ \ {m.oneTimeId}]
    BY <1>10, <2>1
  <2>6. Finds(p, m, d)
    BY <1>2, <1>10, <2>2 DEF Finds
  <2>7. OpensIn(p, m, d, s)
    BY <1>6, <1>8, <2>3, <2>4, <2>5, <2>6 DEF OpensIn, Comes
  <2>. QED
    BY <1>7, <2>7 DEF Opens, Accept
<1>. QED
  BY <1>9, <1>10

LEMMA FreshIs ==
  ASSUME TypeOK, NEW p \in Parties
  PROVE  Fresh(p) \in KeyPairs /\ Fresh(p)[1] = p /\ Fresh(p)[2] = made[p] + 1 /\ Fresh(p)[2] >= 1
         /\ ~ Drawn(Fresh(p))
<1>1. made[p] \in Nat /\ Fresh(p) = <<p, made[p] + 1>>
  BY DEF TypeOK, Fresh
<1>2. Fresh(p)[1] = p /\ Fresh(p)[2] = made[p] + 1
  BY <1>1
<1>. QED
  BY <1>1, <1>2 DEF Drawn, KeyPairs

\* What a refusal says of the record: a chain is past the message's key; or the
\* state of its session takes it for another's; or the pre-key it names is gone.
Told(p, m, fault) ==
  /\ fault = "Replay" =>
       \E s \in In(archive[p]) : \E i \in 1..Len(s.receiving) :
         /\ s.receiving[i].ratchet = m.ratchet
         /\ m.index < s.receiving[i].index /\ m.index \notin s.receiving[i].skipped
  /\ fault \in {"NoSession", "BadMessage"} /\ (m.kind = "first" \/ m.base \in Bases(archive[p])) =>
       \E d : Finds(p, m, d) /\ d.base = m.base /\ StateVerdict(d, m, Fresh(p)) = "BadMessage"
  /\ fault = "UnknownKeyId" =>
       /\ m.kind = "first" /\ m.base \notin Bases(archive[p])
       /\ m.oneTimeId \notin oneTime[p] \cup {NoKey}

LEMMA ReplayOn ==
  ASSUME NEW d \in StateSet, NEW m \in MessageSet, NEW fresh \in KeyPairs,
         StateVerdict(d, m, fresh) = "Replay"
  PROVE  \E i \in 1..Len(d.receiving) :
           /\ d.receiving[i].ratchet = m.ratchet
           /\ m.index < d.receiving[i].index /\ m.index \notin d.receiving[i].skipped
<1>1. LanesOf(d, m.ratchet) # {}
  BY OnANewLane
<1>2. PICK i : i = TheLane(d, m)
  OBVIOUS
<1>3. /\ i \in 1..Len(d.receiving) /\ d.receiving[i].ratchet = m.ratchet
      /\ Verdict(d.receiving[i], m) = "Replay"
  BY <1>1, <1>2, OnALane
<1>4. m.index < d.receiving[i].index /\ m.index \notin d.receiving[i].skipped
  BY <1>3 DEF Verdict
<1>. QED
  BY <1>3, <1>4

LEMMA ToldIs ==
  ASSUME TypeOK, NEW p \in Parties, NEW m \in network, NEW before, IsRecord(before),
         \A s \in In(before) : s \in In(archive[p]) \/ Len(s.receiving) = 0,
         m.kind = "first" \/ m.base \in Bases(archive[p]) =>
           \E d \in In(before) : Finds(p, m, d) /\ d.base = m.base,
         NEW v, v = ArchiveVerdict(before, m, Fresh(p)), v # "none"
  PROVE  Told(p, m, v) /\ v \in Faults \ {"none"}
<1>1. before \in Archives /\ m \in MessageSet /\ Fresh(p) \in KeyPairs
  BY FreshIs DEF IsRecord, TypeOK
<1>2. PICK fresh : fresh = Fresh(p)
  OBVIOUS
<1>3. /\ v = "Replay" => \E s \in In(before) : StateVerdict(s, m, fresh) = "Replay"
      /\ v \in {"NoSession", "BadMessage"} =>
           \A s \in In(before) : StateVerdict(s, m, fresh) = "BadMessage"
      /\ v \in {"Replay", "NoSession", "BadMessage"}
  BY <1>1, <1>2, VerdictIs
<1>4. ASSUME v = "Replay"
      PROVE  \E s \in In(archive[p]) : \E i \in 1..Len(s.receiving) :
               /\ s.receiving[i].ratchet = m.ratchet
               /\ m.index < s.receiving[i].index /\ m.index \notin s.receiving[i].skipped
  <2>1. PICK s \in In(before) : StateVerdict(s, m, fresh) = "Replay"
    BY <1>3, <1>4
  <2>2. s \in StateSet
    BY <1>1, InStates
  <2>3. PICK i \in 1..Len(s.receiving) :
           /\ s.receiving[i].ratchet = m.ratchet
           /\ m.index < s.receiving[i].index /\ m.index \notin s.receiving[i].skipped
    BY <1>1, <1>2, <2>1, <2>2, ReplayOn
  <2>4. s \in In(archive[p])
    <3>1. Len(s.receiving) # 0
      BY <2>3
    <3>. QED
      BY <3>1
  <2>. QED
    BY <2>3, <2>4
<1>5. ASSUME v \in {"NoSession", "BadMessage"}, m.kind = "first" \/ m.base \in Bases(archive[p])
      PROVE  \E d : Finds(p, m, d) /\ d.base = m.base /\ StateVerdict(d, m, Fresh(p)) = "BadMessage"
  BY <1>2, <1>3, <1>5
<1>6. v # "UnknownKeyId" /\ v \in Faults \ {"none"}
  BY <1>3 DEF Faults
<1>. QED
  BY <1>4, <1>5, <1>6 DEF Told

\* A refusal leaves everything but the outcome.
Refuses(p, m) ==
  /\ m.to = p /\ last' = [fault |-> last'.fault, to |-> p, serial |-> m.serial]
  /\ last'.fault \in Faults \ {"none"} /\ Told(p, m, last'.fault)
  /\ UNCHANGED <<archive, made, oneTime, server, network, opened, trimmed, lanesGone, forgot>>

LEMMA StepsAre ==
  ASSUME TypeOK, StatesOk, MessagesOk, Next
  PROVE  \E p \in Parties :
           \/ Starts(p) \/ Seals(p) \/ Ages(p) \/ Shelves(p)
           \/ \E m \in network : Opens(p, m) \/ Refuses(p, m)
<1>1. PICK p \in Parties :
        \/ Start(p) \/ Seal(p) \/ Age(p) \/ Shelve(p)
        \/ \E m \in network : OpenWhisper(p, m)
        \/ \E m \in network : OpenFirst(p, m)
  BY DEF Next
<1>2. IsRecord(archive[p]) /\ archive[p] \in Archives
  BY DEF TypeOK, IsRecord
<1>3. ASSUME NEW m \in network, OpenWhisper(p, m)  PROVE Opens(p, m) \/ Refuses(p, m)
  <2>1. m.to = p
    BY <1>3 DEF OpenWhisper
  <2>2. CASE Accept(p, m, archive[p]) /\ UNCHANGED oneTime
    BY <2>1, <2>2, WhisperIs
  <2>3. ASSUME NEW v, v = ArchiveVerdict(archive[p], m, Fresh(p)), v # "none", Refuse(m, v)
        PROVE  Refuses(p, m)
    <3>1. v \in Faults \ {"none"} /\ Told(p, m, v)
      <4>1. m.kind # "first"
        BY <1>3 DEF OpenWhisper
      <4>2. ASSUME m.base \in Bases(archive[p])
            PROVE  \E d \in In(archive[p]) : Finds(p, m, d) /\ d.base = m.base
        <5>1. Bases(archive[p]) = {t.base : t \in In(archive[p])}
          BY <1>2, InStates
        <5>. QED
          BY <4>2, <5>1 DEF Finds
      <4>. QED
        BY <1>2, <2>3, <4>1, <4>2, ToldIs
    <3>2. last' = [fault |-> v, to |-> m.to, serial |-> m.serial] /\ last'.fault = v
      BY <2>3 DEF Refuse
    <3>. QED
      BY <2>1, <2>3, <3>1, <3>2 DEF Refuses, Refuse
  <2>. QED
    BY <1>3, <2>2, <2>3 DEF OpenWhisper
<1>4. ASSUME NEW m \in network, OpenFirst(p, m)  PROVE Opens(p, m) \/ Refuses(p, m)
  <2>1. PICK known, before :
          /\ known = (m.base \in Bases(archive[p]))
          /\ before = IF known THEN Revive(archive[p], m.base)
                      ELSE Promote(archive[p], ResponderState(m.base, SignedPreKey(p)))
    OBVIOUS
  <2>2. m.to = p /\ m.kind = "first"
    BY <1>4 DEF OpenFirst
  <2>3. IsRecord(before)
    <3>1. m.base \in KeyPairs
      BY DEF TypeOK, MessageSet
    <3>2. ResponderState(m.base, SignedPreKey(p)) \in StateSet
          /\ ResponderState(m.base, SignedPreKey(p)).base = m.base
      BY <3>1, ResponderShape DEF Shape
    <3>. QED
      BY <1>2, <2>1, <3>2, ReviveKeeps, PromoteKeeps
  <2>4. CASE /\ known \/ m.oneTimeId \in oneTime[p] \cup {NoKey}
             /\ Accept(p, m, before)
             /\ oneTime' = IF known THEN oneTime ELSE [oneTime EXCEPT ![p] = @ \ {m.oneTimeId}]
    BY <2>1, <2>2, <2>4, FirstIs
  <2>5. ASSUME NEW v \in Faults \ {"none"}, Refuse(m, v), Told(p, m, v)  PROVE Refuses(p, m)
    <3>1. last' = [fault |-> v, to |-> m.to, serial |-> m.serial] /\ last'.fault = v
      BY <2>5 DEF Refuse
    <3>. QED
      BY <2>2, <2>5, <3>1 DEF Refuses, Refuse
  <2>6. ASSUME known \/ m.oneTimeId \in oneTime[p] \cup {NoKey},
               NEW v, v = ArchiveVerdict(before, m, Fresh(p)), v # "none"
        PROVE  v \in Faults \ {"none"} /\ Told(p, m, v)
    <3>1. PICK r : r = ResponderState(m.base, SignedPreKey(p))
      OBVIOUS
    <3>2. m.base \in KeyPairs
      BY DEF TypeOK, MessageSet
    <3>3. r \in StateSet /\ r.base = m.base /\ Len(r.receiving) = 0
      BY <3>1, <3>2, ResponderShape DEF Shape
    <3>4. CASE known
      <4>1. before = Revive(archive[p], m.base) /\ m.base \in Bases(archive[p])
        BY <2>1, <3>4
      <4>2. In(before) \subseteq In(archive[p]) /\ m.base \in Bases(before) /\ before \in Archives
        BY <1>2, <2>3, <4>1, ReviveKeeps DEF IsRecord
      <4>3. PICK d \in In(before) : d.base = m.base
        <5>1. Bases(before) = {t.base : t \in In(before)}
          BY <4>2, InStates
        <5>. QED
          BY <4>2, <5>1
      <4>4. Finds(p, m, d)
        BY <4>2 DEF Finds
      <4>. QED
        BY <2>3, <2>6, <4>2, <4>3, <4>4, ToldIs
    <3>5. CASE ~ known
      <4>1. before = Promote(archive[p], r) /\ m.base \notin Bases(archive[p])
        BY <2>1, <3>1, <3>5
      <4>2. r \in In(before) /\ In(before) \subseteq In(archive[p]) \cup {r}
        BY <1>2, <3>3, <4>1, PromoteKeeps
      <4>3. Finds(p, m, r)
        BY <2>2, <2>6, <3>1, <3>5, <4>1 DEF Finds
      <4>. QED
        BY <2>3, <2>6, <3>3, <4>2, <4>3, ToldIs
    <3>. QED
      BY <3>4, <3>5
  <2>7. ASSUME ~ known, m.oneTimeId \notin oneTime[p] \cup {NoKey}
        PROVE  "UnknownKeyId" \in Faults \ {"none"} /\ Told(p, m, "UnknownKeyId")
    BY <2>1, <2>2, <2>7 DEF Faults, Told
  <2>8. \/ /\ known \/ m.oneTimeId \in oneTime[p] \cup {NoKey}
           /\ Accept(p, m, before)
           /\ oneTime' = IF known THEN oneTime ELSE [oneTime EXCEPT ![p] = @ \ {m.oneTimeId}]
        \/ /\ known \/ m.oneTimeId \in oneTime[p] \cup {NoKey}
           /\ ArchiveVerdict(before, m, Fresh(p)) # "none"
           /\ Refuse(m, ArchiveVerdict(before, m, Fresh(p)))
        \/ /\ ~ known /\ m.oneTimeId \notin oneTime[p] \cup {NoKey}
           /\ Refuse(m, "UnknownKeyId")
    BY <1>4, <2>1 DEF OpenFirst
  <2>. QED
    BY <2>4, <2>5, <2>6, <2>7, <2>8
<1>. QED
  BY <1>1, <1>3, <1>4, StartIs, SealIs, AgeIs, ShelveIs


-----------------------------------------------------------------------------
(* What was drawn stays drawn, and what was known stays known. *)

Grows == made' \in [Parties -> Nat] /\ \A q \in Parties : made[q] <= made'[q]

LEMMA DrawnStays ==
  ASSUME TypeOK, Grows, NEW pair \in KeyPairs, Drawn(pair)
  PROVE  Drawn(pair)'
<1>1. pair[1] \in Parties /\ pair[2] \in Nat
  BY DEF KeyPairs
<1>2. made[pair[1]] \in Nat /\ made'[pair[1]] \in Nat /\ made[pair[1]] <= made'[pair[1]]
  BY <1>1 DEF TypeOK, Grows
<1>. QED
  BY <1>1, <1>2 DEF Drawn

LEMMA PathStays ==
  ASSUME TypeOK, Grows, NEW path \in AllPaths, DrawnPath(path)
  PROVE  DrawnPath(path)'
<1>1. SUFFICES ASSUME NEW k \in 1..Len(path), NEW pair \in path[k]  PROVE Drawn(pair)'
  BY DEF DrawnPath
<1>2. pair \in KeyPairs
  BY ElementOfSeq DEF AllPaths
<1>. QED
  BY <1>2, DrawnStays DEF DrawnPath

LEMMA StateStays ==
  ASSUME TypeOK, Grows, NEW s \in StateSet, DrawnState(s)
  PROVE  DrawnState(s)'
<1>1. s.root \in AllPaths /\ s.sending.ratchet \in KeyPairs /\ s.receiving \in Seq(Lanes)
  BY DEF StateSet, Sendings
<1>2. DrawnPath(s.root)' /\ Drawn(s.sending.ratchet)'
  BY <1>1, PathStays, DrawnStays DEF DrawnState
<1>3. ASSUME NEW i \in 1..Len(s.receiving)  PROVE Drawn(s.receiving[i].ratchet)'
  <2>1. s.receiving[i] \in Lanes
    BY <1>1, ElementOfSeq
  <2>2. s.receiving[i].ratchet \in KeyPairs
    BY <2>1 DEF Lanes
  <2>. QED
    BY <2>2, DrawnStays DEF DrawnState
<1>. QED
  BY <1>2, <1>3 DEF DrawnState

LEMMA PathsTyped ==
  ASSUME NEW ar \in Archives
  PROVE  Paths(ar) \subseteq AllPaths /\ Bases(ar) \subseteq KeyPairs
<1>1. In(ar) \subseteq StateSet /\ Bases(ar) = {s.base : s \in In(ar)}
      /\ Paths(ar) = UNION {PathsOf(s) : s \in In(ar)}
  BY InStates
<1>2. ASSUME NEW s \in In(ar)  PROVE PathsOf(s) \subseteq AllPaths /\ s.base \in KeyPairs
  <2>1. s.receiving \in Seq(Lanes) /\ s.base \in KeyPairs
    BY <1>1 DEF StateSet
  <2>2. DOMAIN s.receiving = 1..Len(s.receiving)
    BY <2>1
  <2>3. ASSUME NEW i \in DOMAIN s.receiving  PROVE s.receiving[i].path \in AllPaths
    <3>1. s.receiving[i] \in Lanes
      BY <2>1, <2>2, ElementOfSeq
    <3>. QED
      BY <3>1 DEF Lanes
  <2>. QED
    BY <2>1, <2>3 DEF PathsOf
<1>. QED
  BY <1>1, <1>2

LEMMA ChangesKeeps ==
  ASSUME TypeOK, NEW p \in Parties, Changes(p)
  PROVE  /\ archive' \in [Parties -> Archives] /\ \A q \in Parties : IsRecord(archive'[q])
         /\ lanesGone' \in [Parties -> SUBSET AllPaths] /\ forgot' \in [Parties -> SUBSET KeyPairs]
         /\ \A q \in Parties : q # p => archive'[q] = archive[q] /\ forgot'[q] = forgot[q]
         /\ \A q \in Parties : Knew(q) \subseteq Knew(q)' /\ Bases(archive'[q]) \subseteq Knew(q)'
<1>1. archive \in [Parties -> Archives] /\ \A q \in Parties : IsRecord(archive[q])
  BY DEF TypeOK
<1>2. archive'[p] \in Archives /\ IsRecord(archive'[p])
  BY DEF Changes, IsRecord
<1>3. archive' = [archive EXCEPT ![p] = archive'[p]]
  BY DEF Changes
<1>4. archive' \in [Parties -> Archives] /\ \A q \in Parties : q # p => archive'[q] = archive[q]
  BY <1>1, <1>2, <1>3
<1>5. \A q \in Parties : IsRecord(archive'[q])
  BY <1>1, <1>2, <1>4
<1>6. /\ Paths(archive[p]) \subseteq AllPaths /\ Bases(archive[p]) \subseteq KeyPairs
  BY <1>1, PathsTyped
<1>7. /\ lanesGone' \in [Parties -> SUBSET AllPaths] /\ forgot' \in [Parties -> SUBSET KeyPairs]
      /\ \A q \in Parties : q # p => forgot'[q] = forgot[q]
      /\ forgot'[p] = forgot[p] \cup (Bases(archive[p]) \ Bases(archive'[p]))
  BY <1>6 DEF Changes, TypeOK
<1>8. ASSUME NEW q \in Parties  PROVE Knew(q) \subseteq Knew(q)' /\ Bases(archive'[q]) \subseteq Knew(q)'
  BY <1>4, <1>7 DEF Knew
<1>. QED
  BY <1>4, <1>5, <1>7, <1>8

LEMMA MessageStays ==
  ASSUME TypeOK, Grows, \A q \in Parties : Knew(q) \subseteq Knew(q)',
         NEW m \in MessageSet, MessageOk(m)
  PROVE  MessageOk(m)'
<1>1. m.ratchet \in KeyPairs /\ m.path \in AllPaths /\ Peer(m.to) \in Parties
  BY PeerIs DEF MessageSet
<1>2. Drawn(m.ratchet)' /\ DrawnPath(m.path)'
  BY <1>1, DrawnStays, PathStays DEF MessageOk
<1>3. m.base \in Knew(Peer(m.to))'
  BY <1>1 DEF MessageOk
<1>. QED
  BY <1>2, <1>3 DEF MessageOk

-----------------------------------------------------------------------------
(* One state comes in the place of another, or with a ratchet key of its own.  *)

\* s stands where d stood.
Like(p, d, s) ==
  /\ d \in In(archive[p]) /\ s.root = d.root /\ s.sending.ratchet = d.sending.ratchet
  /\ s.sending.index >= d.sending.index

Anew(s) == HasTurned(s) /\ ~ Drawn(s.sending.ratchet)

\* p's record loses the states of gone and gets at most one, which is like a lost
\* one or anew.
Renews(p, gone, come) ==
  /\ Changes(p) /\ Grows
  /\ In(archive'[p]) \subseteq (In(archive[p]) \ gone) \cup come
  /\ \A s, t \in come : s = t
  /\ \A s \in come :
       /\ Shape(p, s) /\ HasTurned(s) /\ DrawnState(s)'
       /\ s.pending = "none" => s.base \in Knew(Peer(p))
       /\ Anew(s) \/ \E d \in gone : Like(p, d, s)

LEMMA StatesKeep ==
  ASSUME TypeOK, StatesOk, Answered, NEW p \in Parties, NEW gone, NEW come, Renews(p, gone, come)
  PROVE  StatesOk' /\ Answered'
<1>1. /\ Changes(p) /\ Grows /\ \A q \in Parties : q # p => archive'[q] = archive[q]
      /\ \A q \in Parties : Knew(q) \subseteq Knew(q)'
  BY ChangesKeeps DEF Renews
<1>2. SUFFICES ASSUME NEW q \in Parties, NEW s \in In(archive'[q])
               PROVE  /\ Shape(q, s) /\ HasTurned(s) /\ DrawnState(s)'
                      /\ s.pending = "none" => s.base \in Knew(Peer(q))'
  BY DEF StatesOk, Answered
<1>3. Peer(q) \in Parties
  BY PeerIs
<1>4. CASE s \in In(archive[q])
  <2>1. s \in StateSet
    BY <1>4, InHas
  <2>2. DrawnState(s)'
    BY <1>1, <1>4, <2>1, StateStays DEF StatesOk
  <2>. QED
    BY <1>1, <1>3, <1>4, <2>2 DEF StatesOk, Answered
<1>5. CASE s \notin In(archive[q])
  <2>1. q = p /\ s \in come
    BY <1>1, <1>5 DEF Renews
  <2>. QED
    BY <1>1, <1>3, <2>1 DEF Renews
<1>. QED
  BY <1>4, <1>5

\* A state anew has nothing of a state, or of a message, that was there before.
LEMMA AnewIs ==
  ASSUME NEW s, Anew(s), Len(s.root) \in Nat
  PROVE  /\ \A path : DrawnPath(path) => path # s.root
         /\ \A pair : Drawn(pair) => pair # s.sending.ratchet
<1>1. s.sending.ratchet \in s.root[Len(s.root)] /\ Len(s.root) \in 1..Len(s.root)
  BY DEF Anew, HasTurned
<1>2. ASSUME NEW path, DrawnPath(path), path = s.root  PROVE FALSE
  <2>1. Drawn(s.sending.ratchet)
    BY <1>1, <1>2 DEF DrawnPath
  <2>. QED
    BY <2>1 DEF Anew
<1>. QED
  BY <1>2 DEF Anew

LEMMA OwnRootsKeep ==
  ASSUME TypeOK, StatesOk, OwnRoots, NEW p \in Parties, NEW gone, NEW come, Renews(p, gone, come)
  PROVE  OwnRoots'
<1>1. /\ Changes(p) /\ \A q \in Parties : q # p => archive'[q] = archive[q]
  BY ChangesKeeps DEF Renews
<1>2. ASSUME NEW q \in Parties, NEW s \in come, NEW t \in In(archive[q]), q = p => t \notin gone,
             s.root = t.root \/ s.sending.ratchet = t.sending.ratchet
      PROVE  FALSE
  <2>1. CASE Anew(s)
    <3>1. DrawnPath(t.root) /\ Drawn(t.sending.ratchet)
      BY DEF StatesOk, DrawnState
    <3>2. Len(s.root) \in Nat
      BY DEF Renews, Shape
    <3>. QED
      BY <1>2, <2>1, <3>1, <3>2, AnewIs
  <2>2. ASSUME NEW d \in gone, Like(p, d, s)  PROVE FALSE
    <3>1. d \in In(archive[p]) /\ (d.root = t.root \/ d.sending.ratchet = t.sending.ratchet)
      BY <1>2, <2>2 DEF Like
    <3>2. p = q /\ d = t
      BY <3>1 DEF OwnRoots
    <3>. QED
      BY <1>2, <3>2
  <2>. QED
    BY <2>1, <2>2 DEF Renews
<1>3. SUFFICES ASSUME NEW q \in Parties, NEW r \in Parties,
                      NEW s \in In(archive'[q]), NEW t \in In(archive'[r]),
                      s.root = t.root \/ s.sending.ratchet = t.sending.ratchet
               PROVE  q = r /\ s = t
  BY DEF OwnRoots
<1>4. /\ \/ s \in In(archive[q]) /\ (q = p => s \notin gone)
         \/ q = p /\ s \in come
      /\ \/ t \in In(archive[r]) /\ (r = p => t \notin gone)
         \/ r = p /\ t \in come
  BY <1>1 DEF Renews
<1>5. CASE q = p /\ s \in come /\ r = p /\ t \in come
  BY <1>5 DEF Renews
<1>6. CASE s \in In(archive[q]) /\ t \in In(archive[r])
  BY <1>3, <1>6 DEF OwnRoots
<1>. QED
  BY <1>2, <1>3, <1>4, <1>5, <1>6

\* A state's claim on a message under Unsealed.
Claims(q, s, m) ==
  /\ m.path = s.root => m.to = Peer(q) /\ m.index < s.sending.index /\ m.ratchet = s.sending.ratchet
  /\ m.ratchet = s.sending.ratchet => m.path = s.root

LEMMA UnsealedKeeps ==
  ASSUME TypeOK, StatesOk, MessagesOk, Unsealed,
         NEW p \in Parties, NEW gone, NEW come, Renews(p, gone, come),
         NEW q \in Parties, NEW s \in In(archive'[q]), NEW m \in network
  PROVE  Claims(q, s, m)
<1>1. /\ Changes(p) /\ (q # p => archive'[q] = archive[q])
  BY ChangesKeeps DEF Renews
<1>2. CASE s \in In(archive[q])
  BY <1>2 DEF Unsealed, Claims
<1>3. CASE q = p /\ s \in come
  <2>1. CASE Anew(s)
    <3>1. DrawnPath(m.path) /\ Drawn(m.ratchet)
      BY DEF MessagesOk, MessageOk
    <3>2. Len(s.root) \in Nat
      BY <1>3 DEF Renews, Shape
    <3>. QED
      BY <2>1, <3>1, <3>2, AnewIs DEF Claims
  <2>2. ASSUME NEW d \in gone, Like(p, d, s)  PROVE Claims(q, s, m)
    <3>1. Claims(p, d, m) /\ s.root = d.root /\ s.sending.ratchet = d.sending.ratchet
          /\ d.sending.index <= s.sending.index /\ d \in StateSet /\ s \in StateSet
      BY <1>3, <2>2, InHas DEF Unsealed, Claims, Like, Renews, Shape
    <3>2. d.sending.index \in Nat /\ s.sending.index \in Nat /\ m.index \in Nat
      BY <3>1 DEF StateSet, Sendings, TypeOK, MessageSet
    <3>. QED
      BY <1>3, <3>1, <3>2 DEF Claims
  <2>. QED
    BY <1>3, <2>1, <2>2 DEF Renews
<1>. QED
  BY <1>1, <1>2, <1>3 DEF Renews


-----------------------------------------------------------------------------
(* Each step renews a record. *)

\* A started session, before anything came of it.
LEMMA OpeningIs ==
  ASSUME TypeOK, NEW p \in Parties, NEW id \in Ids
  PROVE  LET s == Opening(p, id)
             base == Fresh(p)
             pair == <<p, made[p] + 2>>
             signed == SignedPreKey(Peer(p))
         IN
         /\ Shape(p, s) /\ s.base = base /\ s.root = <<{base}, {pair, signed}>>
         /\ Len(s.root) = 2 /\ s.root[1] = {base} /\ s.root[2] = {pair, signed}
         /\ s.sending = [ratchet |-> pair, path |-> s.root, index |-> 0]
         /\ Len(s.receiving) = 1 /\ s.receiving[1] = Lane(signed, <<{base}>>)
         /\ s.pending = "waiting" /\ s.oneTimeId = id
         /\ HasTurned(s) /\ Anew(s)
<1>1. /\ p \in Parties /\ Peer(p) \in Parties /\ made[p] \in Nat
  BY PeerIs DEF TypeOK
<1>2. PICK base, pair, signed : base = Fresh(p) /\ pair = <<p, made[p] + 2>> /\ signed = SignedPreKey(Peer(p))
  OBVIOUS
<1>3. /\ base \in KeyPairs /\ pair \in KeyPairs /\ signed \in KeyPairs
      /\ pair[1] = p /\ pair[2] = made[p] + 2
  BY <1>1, <1>2 DEF KeyPairs, Fresh, SignedPreKey
<1>4. PICK first, root, lane :
        /\ first = <<{base}>> /\ root = <<{base}, {pair, signed}>> /\ lane = Lane(signed, first)
  OBVIOUS
<1>5. /\ first \in AllPaths /\ Len(first) = 1 /\ first[1] = {base}
      /\ root \in AllPaths /\ Len(root) = 2 /\ root[1] = {base} /\ root[2] = {pair, signed}
      /\ root = Append(first, {pair, signed})
  <2>1. {base} \in SUBSET KeyPairs /\ {pair, signed} \in SUBSET KeyPairs
    BY <1>3
  <2>. QED
    BY <1>4, <2>1 DEF AllPaths
<1>6. lane \in Lanes /\ lane.path = first /\ lane.skipped = {} /\ lane.ratchet = signed
  BY <1>3, <1>4, <1>5 DEF Lane, Lanes
<1>7. PICK s : s = Opening(p, id)
  OBVIOUS
<1>8. s = [base |-> base, root |-> root, sending |-> [ratchet |-> pair, path |-> root, index |-> 0],
           receiving |-> <<lane>>, pending |-> "waiting", oneTimeId |-> id]
  BY <1>2, <1>4, <1>5, <1>7 DEF Opening, InitiatorState
<1>9. <<lane>> \in Seq(Lanes) /\ Len(<<lane>>) = 1 /\ <<lane>>[1] = lane
  BY <1>6
<1>10. s \in StateSet
  BY <1>3, <1>5, <1>8, <1>9 DEF StateSet, Sendings
<1>11. /\ s.base = base /\ s.root = root /\ s.sending = [ratchet |-> pair, path |-> s.root, index |-> 0]
       /\ s.receiving = <<lane>> /\ s.pending = "waiting" /\ s.oneTimeId = id
  BY <1>8
<1>12. s.sending.ratchet = pair /\ s.sending.path = s.root
  BY <1>11
<1>13. Len(s.receiving) = 1 /\ s.receiving[1] = lane
  BY <1>9, <1>11
<1>14. Precedes(first, root)
  BY <1>5 DEF Precedes
<1>15. LaneOk(s, 1)
  BY <1>5, <1>6, <1>11, <1>13, <1>14 DEF LaneOk
<1>16. Shape(p, s)
  BY <1>3, <1>5, <1>10, <1>11, <1>12, <1>13, <1>15 DEF Shape
<1>17. HasTurned(s) /\ Anew(s)
  BY <1>1, <1>3, <1>5, <1>11, <1>12 DEF HasTurned, Anew, Drawn
<1>. QED
  BY <1>2, <1>4, <1>5, <1>7, <1>11, <1>13, <1>16, <1>17

LEMMA OpeningRenews ==
  ASSUME TypeOK, NEW p \in Parties, NEW id \in server[Peer(p)] \cup {NoKey}, Changes(p),
         In(archive'[p]) \subseteq In(archive[p]) \cup {Opening(p, id)},
         made' = [made EXCEPT ![p] = @ + 2]
  PROVE  Renews(p, {}, {Opening(p, id)})
<1>1. /\ Changes(p)
      /\ In(archive'[p]) \subseteq In(archive[p]) \cup {Opening(p, id)}
      /\ made' = [made EXCEPT ![p] = @ + 2]
  OBVIOUS
<1>2. id \in Ids /\ made[p] \in Nat /\ Peer(p) \in Parties /\ Peer(p) # p
  BY <1>1, PeerIs DEF TypeOK, Ids
<1>3. PICK s, base, pair, signed :
        /\ s = Opening(p, id) /\ base = Fresh(p) /\ pair = <<p, made[p] + 2>>
        /\ signed = SignedPreKey(Peer(p))
  OBVIOUS
<1>4. /\ Shape(p, s) /\ Len(s.root) = 2 /\ s.root[1] = {base} /\ s.root[2] = {pair, signed}
      /\ s.sending = [ratchet |-> pair, path |-> s.root, index |-> 0]
      /\ Len(s.receiving) = 1 /\ s.receiving[1] = Lane(signed, <<{base}>>)
      /\ s.pending = "waiting" /\ HasTurned(s) /\ Anew(s)
  BY <1>2, <1>3, OpeningIs
<1>5. Grows /\ made'[p] = made[p] + 2
  BY <1>1, <1>2 DEF Grows, TypeOK
<1>6. Drawn(base)' /\ Drawn(pair)' /\ Drawn(signed)'
  <2>1. base[1] = p /\ base[2] = made[p] + 1 /\ pair[1] = p /\ pair[2] = made[p] + 2
        /\ signed[1] = Peer(p) /\ signed[2] = 0
    BY <1>3 DEF Fresh, SignedPreKey
  <2>2. made'[Peer(p)] \in Nat
    BY <1>2, <1>5 DEF Grows
  <2>. QED
    BY <1>2, <1>5, <2>1, <2>2 DEF Drawn
<1>7. DrawnState(s)'
  <2>1. DrawnPath(s.root)'
    <3>1. \A k \in 1..Len(s.root) : k = 1 \/ k = 2
      BY <1>4
    <3>. QED
      BY <1>4, <1>6, <3>1 DEF DrawnPath
  <2>2. s.sending.ratchet = pair /\ s.receiving[1].ratchet = signed
    BY <1>4 DEF Lane
  <2>3. \A i \in 1..Len(s.receiving) : i = 1
    BY <1>4
  <2>. QED
    BY <1>6, <2>1, <2>2, <2>3 DEF DrawnState
<1>8. Renews(p, {}, {s})
  BY <1>1, <1>3, <1>4, <1>5, <1>7 DEF Renews
<1>. QED
  BY <1>3, <1>8

LEMMA StartRenews ==
  ASSUME TypeOK, NEW p \in Parties, Starts(p)
  PROVE  \E id \in server[Peer(p)] \cup {NoKey} : Renews(p, {}, {Opening(p, id)})
BY OpeningRenews DEF Starts

\* made does not move.
LEMMA Stands == ASSUME TypeOK, made' = made  PROVE Grows
BY DEF TypeOK, Grows

LEMMA SealRenews ==
  ASSUME TypeOK, StatesOk, Answered, NEW p \in Parties, NEW s \in In(archive[p]),
         NEW t, t = [s EXCEPT !.sending.index = @ + 1], Comes(p, s, t), made' = made
  PROVE  Renews(p, {s}, {t}) /\ Like(p, s, t) /\ Shape(p, t)
         /\ t.sending.index = s.sending.index + 1 /\ t.root = s.root
         /\ t.sending.ratchet = s.sending.ratchet /\ t.receiving = s.receiving
         /\ t.base = s.base /\ t.pending = s.pending /\ t.oneTimeId = s.oneTimeId
<1>1. Shape(p, s) /\ HasTurned(s) /\ DrawnState(s) /\ s \in StateSet
  BY DEF StatesOk, Shape
<1>2. /\ t \in StateSet /\ t.base = s.base /\ t.root = s.root /\ t.receiving = s.receiving
      /\ t.pending = s.pending /\ t.oneTimeId = s.oneTimeId
      /\ t.sending = [s.sending EXCEPT !.index = @ + 1]
  BY <1>1 DEF StateSet, Sendings
<1>3. s.sending \in Sendings /\ s.sending.index \in Nat
  BY <1>1 DEF StateSet, Sendings
<1>4. /\ t.sending.ratchet = s.sending.ratchet /\ t.sending.path = s.sending.path
      /\ t.sending.index = s.sending.index + 1 /\ t.sending.index >= s.sending.index
  BY <1>2, <1>3 DEF Sendings
<1>5. Shape(p, t)
  <2>1. \A i \in 1..Len(t.receiving) : LaneOk(t, i)
    BY <1>1, <1>2 DEF Shape, LaneOk
  <2>. QED
    BY <1>1, <1>2, <1>4, <2>1 DEF Shape
<1>6. HasTurned(t) /\ DrawnState(t)
  BY <1>1, <1>2, <1>4 DEF HasTurned, DrawnState
<1>7. Grows /\ DrawnState(t)'
  BY <1>2, <1>6, Stands, StateStays
<1>8. Like(p, s, t)
  BY <1>2, <1>4 DEF Like
<1>9. t.pending = "none" => t.base \in Knew(Peer(p))
  BY <1>2 DEF Answered
<1>. QED
  BY <1>2, <1>4, <1>5, <1>6, <1>7, <1>8, <1>9 DEF Renews, Comes

LEMMA AgeRenews ==
  ASSUME TypeOK, StatesOk, NEW p \in Parties, NEW s \in In(archive[p]),
         NEW t, t = [s EXCEPT !.pending = "stale"], Comes(p, s, t), made' = made
  PROVE  Renews(p, {s}, {t}) /\ Shape(p, t) /\ t.root = s.root /\ t.sending = s.sending
         /\ t.receiving = s.receiving /\ t.base = s.base /\ t.pending = "stale"
         /\ t.oneTimeId = s.oneTimeId
<1>1. Shape(p, s) /\ HasTurned(s) /\ DrawnState(s) /\ s \in StateSet
  BY DEF StatesOk, Shape
<1>2. /\ t \in StateSet /\ t.base = s.base /\ t.root = s.root /\ t.receiving = s.receiving
      /\ t.pending = "stale" /\ t.oneTimeId = s.oneTimeId /\ t.sending = s.sending
  BY <1>1 DEF StateSet
<1>3. s.sending.index \in Nat
  BY <1>1 DEF StateSet, Sendings
<1>4. Shape(p, t)
  <2>1. \A i \in 1..Len(t.receiving) : LaneOk(t, i)
    BY <1>1, <1>2 DEF Shape, LaneOk
  <2>. QED
    BY <1>1, <1>2, <2>1 DEF Shape
<1>5. HasTurned(t) /\ DrawnState(t)
  BY <1>1, <1>2 DEF HasTurned, DrawnState
<1>6. Grows /\ DrawnState(t)'
  BY <1>2, <1>5, Stands, StateStays
<1>7. Like(p, s, t)
  BY <1>2, <1>3 DEF Like
<1>. QED
  BY <1>2, <1>4, <1>5, <1>6, <1>7 DEF Renews, Comes

LEMMA ShelveRenews ==
  ASSUME TypeOK, NEW p \in Parties, Shelves(p)
  PROVE  Renews(p, {}, {})
BY Stands DEF Shelves, Renews


\* The state that opens a message, found in the record or made for it.
LEMMA FoundIs ==
  ASSUME TypeOK, StatesOk, MessagesOk, NEW p \in Parties, NEW m \in network, m.to = p,
         NEW d, Finds(p, m, d)
  PROVE  Shape(p, d) /\ DrawnState(d) /\ d \in StateSet
<1>1. CASE d \in In(archive[p])
  BY <1>1 DEF StatesOk, Shape
<1>2. CASE d = ResponderState(m.base, SignedPreKey(p))
  <2>1. m.base \in KeyPairs /\ m.path[1] = {m.base} /\ Len(m.path) >= 2 /\ DrawnPath(m.path)
        /\ m.path \in AllPaths
    BY DEF TypeOK, MessageSet, MessagesOk, MessageOk
  <2>2. /\ Shape(p, d) /\ d.root = <<{m.base}>> /\ Len(d.root) = 1 /\ Len(d.receiving) = 0
        /\ d.sending.ratchet = SignedPreKey(p)
    BY <1>2, <2>1, ResponderShape
  <2>3. Drawn(m.base)
    <3>1. 1 \in 1..Len(m.path)
      <4>1. PICK n : n = Len(m.path) /\ n \in Nat /\ n >= 2
        BY <2>1, LenProperties DEF AllPaths
      <4>. QED
        BY <4>1
    <3>. QED
      BY <2>1, <3>1 DEF DrawnPath
  <2>4. Drawn(SignedPreKey(p))
    BY DEF Drawn, SignedPreKey, TypeOK
  <2>5. \A k \in 1..Len(d.root) : d.root[k] = {m.base}
    BY <2>2
  <2>6. DrawnPath(d.root)
    BY <2>3, <2>5 DEF DrawnPath
  <2>7. \A i \in 1..Len(d.receiving) : Drawn(d.receiving[i].ratchet)
    BY <2>2
  <2>. QED
    BY <2>2, <2>4, <2>6, <2>7 DEF DrawnState, Shape
<1>. QED
  BY <1>1, <1>2 DEF Finds

LEMMA OpenRenews ==
  ASSUME TypeOK, StatesOk, MessagesOk, NEW p \in Parties, NEW m \in network, m.to = p,
         NEW d, NEW s \in StateSet, OpensIn(p, m, d, s)
  PROVE  Renews(p, {d}, {s}) /\ s.pending = "none" /\ s.oneTimeId = NoKey
         /\ d.base = m.base /\ s.base = m.base
<1>1. Shape(p, d) /\ DrawnState(d) /\ d \in StateSet /\ d.base = m.base /\ Comes(p, d, s)
  BY FoundIs DEF OpensIn
<1>2. m \in MessageSet /\ m.base \in Knew(Peer(p)) /\ Drawn(m.ratchet) /\ DrawnPath(m.path)
  BY DEF TypeOK, MessagesOk, MessageOk
<1>3. ASSUME NEW i \in 1..Len(d.receiving), OpensOn(d, s, m, i), d \in In(archive[p]), made' = made
      PROVE  /\ Grows /\ Shape(p, s) /\ HasTurned(s) /\ DrawnState(s)' /\ Like(p, d, s)
             /\ s.pending = "none" /\ s.oneTimeId = NoKey /\ s.base = m.base
  <2>1. /\ Shape(p, s) /\ s.base = d.base /\ s.root = d.root /\ s.sending = d.sending
        /\ Len(s.receiving) = Len(d.receiving)
        /\ \A j \in 1..Len(d.receiving) : s.receiving[j].ratchet = d.receiving[j].ratchet
    BY <1>1, <1>2, <1>3, OpensOnShape
  <2>2. HasTurned(s) /\ DrawnState(s)
    BY <1>1, <1>3, <2>1 DEF StatesOk, HasTurned, DrawnState
  <2>3. Grows /\ DrawnState(s)'
    BY <1>3, <2>2, Stands, StateStays
  <2>4. s.sending.index \in Nat
    BY DEF StateSet, Sendings
  <2>5. Like(p, d, s)
    BY <1>3, <2>1, <2>4 DEF Like
  <2>6. s.pending = "none" /\ s.oneTimeId = NoKey
    BY <1>3 DEF OpensOn
  <2>. QED
    BY <1>1, <2>1, <2>2, <2>3, <2>5, <2>6
<1>4. ASSUME TurnsTo(d, s, m, Fresh(p)), made' = [made EXCEPT ![p] = @ + 1]
      PROVE  /\ Grows /\ Shape(p, s) /\ HasTurned(s) /\ DrawnState(s)' /\ Anew(s)
             /\ s.pending = "none" /\ s.oneTimeId = NoKey /\ s.base = m.base
  <2>1. PICK fresh : fresh = Fresh(p)
    OBVIOUS
  <2>2. /\ fresh \in KeyPairs /\ fresh[1] = p /\ fresh[2] = made[p] + 1 /\ fresh[2] >= 1
        /\ ~ Drawn(fresh)
    BY <2>1, FreshIs
  <2>3. TurnsTo(d, s, m, fresh)
    BY <1>4, <2>1
  <2>4. /\ Shape(p, s) /\ HasTurned(s) /\ s.base = d.base
        /\ Precedes(m.path, s.root) /\ Len(s.root) = Len(d.root) + 2 /\ Len(m.path) = Len(d.root) + 1
        /\ s.root[Len(s.root)] = {fresh, m.ratchet}
    BY <1>1, <1>2, <2>2, <2>3, TurnsToShape
  <2>5. s.sending.ratchet = fresh /\ s.pending = "none" /\ s.oneTimeId = NoKey
    BY <2>3 DEF TurnsTo
  <2>6. Anew(s)
    BY <2>2, <2>4, <2>5 DEF Anew
  <2>7. Grows /\ made'[p] = made[p] + 1
    BY <1>4 DEF Grows, TypeOK
  <2>8. Drawn(fresh)' /\ Drawn(m.ratchet)' /\ DrawnPath(m.path)' /\ DrawnState(d)'
    <3>1. Drawn(fresh)'
      BY <2>2, <2>7 DEF Drawn, TypeOK
    <3>2. m.ratchet \in KeyPairs /\ m.path \in AllPaths
      BY <1>2 DEF MessageSet
    <3>. QED
      BY <1>1, <1>2, <2>7, <3>1, <3>2, DrawnStays, PathStays, StateStays
  <2>9. DrawnPath(s.root)'
    <3>1. PICK n : n = Len(d.root) /\ n \in Nat
      BY <1>1 DEF Shape
    <3>2. ASSUME NEW k \in 1..Len(s.root), NEW pair \in s.root[k]  PROVE Drawn(pair)'
      <4>1. k \in 1..(n + 2) /\ Len(m.path) = n + 1 /\ Len(s.root) = n + 2
        BY <2>4, <3>1, <3>2
      <4>2. CASE k = n + 2
        BY <2>4, <2>8, <3>2, <4>1, <4>2
      <4>3. CASE k # n + 2
        <5>1. k \in 1..Len(m.path)
          BY <3>1, <4>1, <4>3
        <5>2. s.root[k] = m.path[k]
          BY <2>4, <5>1 DEF Precedes
        <5>. QED
          BY <2>8, <3>2, <5>1, <5>2 DEF DrawnPath
      <4>. QED
        BY <4>2, <4>3
    <3>. QED
      BY <3>2 DEF DrawnPath
  <2>10. \A i \in 1..Len(s.receiving) : Drawn(s.receiving[i].ratchet)'
    <3>1. PICK n, lane : n = Len(s.receiving) /\ lane = Taken(Lane(m.ratchet, m.path), m)
      OBVIOUS
    <3>2. n \in Nat \ {0} /\ s.receiving[n] = lane /\ lane.ratchet = m.ratchet
      <4>1. Lane(m.ratchet, m.path) \in Lanes /\ Lane(m.ratchet, m.path).skipped = {}
            /\ Lane(m.ratchet, m.path).ratchet = m.ratchet
        BY <1>2 DEF Lane, Lanes, MessageSet
      <4>2. lane.ratchet = m.ratchet
        BY <1>2, <3>1, <4>1, TakenBehind
      <4>. QED
        BY <2>3, <3>1, <4>2 DEF TurnsTo, Adds
    <3>3. PICK gone \in {0, 1} : /\ n = Len(d.receiving) + 1 - gone
                                 /\ \A i \in 1..(n - 1) : s.receiving[i] = d.receiving[i + gone]
      BY <2>3, <3>1 DEF TurnsTo, Adds
    <3>4. ASSUME NEW i \in 1..n  PROVE Drawn(s.receiving[i].ratchet)'
      <4>1. CASE i = n
        BY <2>8, <3>2, <4>1
      <4>2. CASE i # n
        <5>1. Len(d.receiving) \in Nat
          BY <1>1, LenProperties DEF StateSet
        <5>2. i \in 1..(n - 1) /\ i + gone \in 1..Len(d.receiving)
          BY <3>2, <3>3, <4>2, <5>1
        <5>3. s.receiving[i] = d.receiving[i + gone]
          BY <3>3, <5>2
        <5>4. \A j \in 1..Len(d.receiving) : Drawn(d.receiving[j].ratchet)'
          BY <2>8 DEF DrawnState
        <5>. QED
          BY <5>2, <5>3, <5>4
      <4>. QED
        BY <4>1, <4>2
    <3>. QED
      BY <3>1, <3>4
  <2>11. DrawnState(s)'
    BY <2>5, <2>8, <2>9, <2>10 DEF DrawnState
  <2>. QED
    BY <1>1, <2>4, <2>5, <2>6, <2>7, <2>11
<1>5. /\ Grows /\ Shape(p, s) /\ HasTurned(s) /\ DrawnState(s)' /\ (Anew(s) \/ Like(p, d, s))
      /\ s.pending = "none" /\ s.oneTimeId = NoKey /\ s.base = m.base
  BY <1>3, <1>4 DEF OpensIn
<1>6. Renews(p, {d}, {s})
  BY <1>1, <1>2, <1>5 DEF Renews, Comes
<1>. QED
  BY <1>1, <1>5, <1>6


-----------------------------------------------------------------------------
(* Every step keeps the types. *)

LEMMA RecordsTyped ==
  ASSUME TypeOK, NEW p \in Parties, NEW gone, NEW come, Renews(p, gone, come)
  PROVE  /\ archive' \in [Parties -> Archives] /\ \A q \in Parties : IsRecord(archive'[q])
         /\ made' \in [Parties -> Nat]
         /\ lanesGone' \in [Parties -> SUBSET AllPaths] /\ forgot' \in [Parties -> SUBSET KeyPairs]
BY ChangesKeeps DEF Renews, Grows

LEMMA SealingTyped ==
  ASSUME TypeOK, NEW p \in Parties, NEW s \in StateSet
  PROVE  /\ Sealing(p, s) \in MessageSet /\ Sealing(p, s).to = Peer(p)
         /\ Sealing(p, s).serial = Cardinality(network) + 1 /\ Cardinality(network) \in Nat
         /\ Sealing(p, s).kind = IF s.pending = "waiting" THEN "first" ELSE "whisper"
         /\ Sealing(p, s).base = s.base /\ Sealing(p, s).oneTimeId = s.oneTimeId
         /\ Sealing(p, s).ratchet = s.sending.ratchet /\ Sealing(p, s).path = s.sending.path
         /\ Sealing(p, s).index = s.sending.index
<1>1. Cardinality(network) \in Nat
  BY FS_CardinalityType DEF TypeOK
<1>2. s.base \in KeyPairs /\ s.oneTimeId \in Ids /\ s.sending \in Sendings
  BY DEF StateSet
<1>3. s.sending.ratchet \in KeyPairs /\ s.sending.path \in AllPaths /\ s.sending.index \in Nat
  BY <1>2 DEF Sendings
<1>4. Peer(p) \in Parties
  BY PeerIs
<1>. QED
  BY <1>1, <1>2, <1>3, <1>4 DEF Sealing, MessageSet

LEMMA DroppedTyped ==
  ASSUME NEW lane \in Lanes, NEW m \in MessageSet
  PROVE  Dropped(lane, m) \subseteq Nat
BY DEF Dropped, Lanes, MessageSet

LEMMA TypeKept ==
  ASSUME TypeOK, StatesOk, MessagesOk, Answered, Next
  PROVE  TypeOK'
<1>1. PICK p \in Parties :
        \/ Starts(p) \/ Seals(p) \/ Ages(p) \/ Shelves(p)
        \/ \E m \in network : Opens(p, m) \/ Refuses(p, m)
  BY StepsAre
<1>2. /\ oneTime \in [Parties -> SUBSET OneTimeIds] /\ server \in [Parties -> SUBSET OneTimeIds]
      /\ network \subseteq MessageSet /\ IsFiniteSet(network)
      /\ opened \in [Parties -> SUBSET Nat] /\ trimmed \in [Parties -> SUBSET (AllPaths \X Nat)]
  BY DEF TypeOK
<1>3. CASE Starts(p)
  <2>1. /\ archive' \in [Parties -> Archives] /\ \A q \in Parties : IsRecord(archive'[q])
        /\ made' \in [Parties -> Nat]
        /\ lanesGone' \in [Parties -> SUBSET AllPaths] /\ forgot' \in [Parties -> SUBSET KeyPairs]
    BY <1>3, StartRenews, RecordsTyped
  <2>2. /\ server' \in [Parties -> SUBSET OneTimeIds] /\ last' = NoCall
        /\ UNCHANGED <<oneTime, network, opened, trimmed>>
    BY <1>2, <1>3 DEF Starts
  <2>. QED
    BY <1>2, <2>1, <2>2 DEF TypeOK
<1>4. CASE Seals(p)
  <2>1. PICK s \in In(archive[p]) :
          /\ Comes(p, s, [s EXCEPT !.sending.index = @ + 1])
          /\ network' = network \cup {Sealing(p, s)} /\ last' = NoCall
          /\ UNCHANGED <<made, oneTime, server, opened, trimmed>>
    BY <1>4 DEF Seals
  <2>2. Sealing(p, s) \in MessageSet
    BY InHas, SealingTyped
  <2>3. network' \subseteq MessageSet /\ IsFiniteSet(network')
    BY <1>2, <2>1, <2>2, FS_AddElement
  <2>4. /\ archive' \in [Parties -> Archives] /\ \A q \in Parties : IsRecord(archive'[q])
        /\ made' \in [Parties -> Nat]
        /\ lanesGone' \in [Parties -> SUBSET AllPaths] /\ forgot' \in [Parties -> SUBSET KeyPairs]
    BY <2>1, SealRenews, RecordsTyped
  <2>. QED
    BY <1>2, <2>1, <2>3, <2>4 DEF TypeOK
<1>5. CASE Ages(p)
  <2>1. PICK s \in In(archive[p]) :
          /\ Comes(p, s, [s EXCEPT !.pending = "stale"]) /\ last' = NoCall
          /\ UNCHANGED <<made, oneTime, server, network, opened, trimmed>>
    BY <1>5 DEF Ages
  <2>2. /\ archive' \in [Parties -> Archives] /\ \A q \in Parties : IsRecord(archive'[q])
        /\ made' \in [Parties -> Nat]
        /\ lanesGone' \in [Parties -> SUBSET AllPaths] /\ forgot' \in [Parties -> SUBSET KeyPairs]
    BY <2>1, AgeRenews, RecordsTyped
  <2>. QED
    BY <1>2, <2>1, <2>2 DEF TypeOK
<1>6. CASE Shelves(p)
  <2>1. /\ archive' \in [Parties -> Archives] /\ \A q \in Parties : IsRecord(archive'[q])
        /\ made' \in [Parties -> Nat]
        /\ lanesGone' \in [Parties -> SUBSET AllPaths] /\ forgot' \in [Parties -> SUBSET KeyPairs]
    BY <1>6, ShelveRenews, RecordsTyped
  <2>. QED
    BY <1>2, <1>6, <2>1 DEF Shelves, TypeOK
<1>7. ASSUME NEW m \in network, Opens(p, m)  PROVE TypeOK'
  <2>1. PICK d \in StateSet, s \in StateSet : OpensIn(p, m, d, s)
    BY <1>7 DEF Opens
  <2>2. /\ archive' \in [Parties -> Archives] /\ \A q \in Parties : IsRecord(archive'[q])
        /\ made' \in [Parties -> Nat]
        /\ lanesGone' \in [Parties -> SUBSET AllPaths] /\ forgot' \in [Parties -> SUBSET KeyPairs]
    <3>1. m.to = p
      BY <1>7 DEF Opens
    <3>2. Renews(p, {d}, {s})
      BY <2>1, <3>1, OpenRenews
    <3>. QED
      BY <3>2, RecordsTyped
  <2>3. /\ m \in MessageSet /\ m.path \in AllPaths /\ m.ratchet \in KeyPairs /\ m.serial \in Nat
    BY <1>2 DEF MessageSet
  <2>4. trimmed' \in [Parties -> SUBSET (AllPaths \X Nat)]
    <3>1. ASSUME NEW lane \in Lanes
          PROVE  {<<m.path, k>> : k \in Dropped(lane, m)} \subseteq AllPaths \X Nat
      BY <2>3, DroppedTyped
    <3>2. Lane(m.ratchet, m.path) \in Lanes
      BY <2>3 DEF Lane, Lanes
    <3>3. \A i \in 1..Len(d.receiving) : d.receiving[i] \in Lanes
      BY ElementOfSeq DEF StateSet
    <3>4. PICK lane \in Lanes :
            trimmed' = [trimmed EXCEPT ![p] = @ \cup {<<m.path, k>> : k \in Dropped(lane, m)}]
      BY <2>1, <3>2, <3>3 DEF OpensIn
    <3>5. trimmed[p] \subseteq AllPaths \X Nat
      BY <1>2
    <3>. QED
      BY <1>2, <3>1, <3>4, <3>5
  <2>5. oneTime' \in [Parties -> SUBSET OneTimeIds]
    BY <1>2, <2>1 DEF OpensIn
  <2>6. opened' \in [Parties -> SUBSET Nat] /\ UNCHANGED <<server, network>>
    BY <1>2, <1>7, <2>3 DEF Opens
  <2>7. last' \in [fault : Faults, to : Parties, serial : Nat]
    BY <1>7, <2>3 DEF Opens, Faults
  <2>. QED
    BY <1>2, <2>2, <2>4, <2>5, <2>6, <2>7 DEF TypeOK
<1>8. ASSUME NEW m \in network, Refuses(p, m)  PROVE TypeOK'
  <2>1. m.serial \in Nat
    BY <1>2 DEF MessageSet
  <2>2. last' \in [fault : Faults, to : Parties, serial : Nat]
    BY <1>8, <2>1 DEF Refuses
  <2>. QED
    BY <1>8, <2>2 DEF Refuses, TypeOK
<1>. QED
  BY <1>1, <1>3, <1>4, <1>5, <1>6, <1>7, <1>8

-----------------------------------------------------------------------------
(* Every step keeps the rest. *)

\* A record renewed, and nothing sealed.
LEMMA RenewalKeeps ==
  ASSUME SealInv, NEW p \in Parties, NEW gone, NEW come, Renews(p, gone, come), network' = network
  PROVE  /\ StatesOk' /\ MessagesOk' /\ Unsealed' /\ OwnRoots' /\ SealedOnce'
         /\ Answered' /\ WrappedUntilAnswered'
<1>1. TypeOK /\ StatesOk /\ MessagesOk /\ Unsealed /\ OwnRoots /\ Answered /\ WrappedUntilAnswered
  BY DEF SealInv
<1>2. StatesOk' /\ Answered' /\ OwnRoots'
  BY <1>1, StatesKeep, OwnRootsKeep
<1>3. /\ Grows /\ \A q \in Parties : Knew(q) \subseteq Knew(q)'
  BY <1>1, ChangesKeeps DEF Renews
<1>4. MessagesOk'
  BY <1>1, <1>3, MessageStays DEF MessagesOk, TypeOK
<1>5. Unsealed'
  BY <1>1, UnsealedKeeps DEF Unsealed, Claims
<1>6. WrappedUntilAnswered'
  BY <1>1, <1>3 DEF WrappedUntilAnswered, TypeOK, MessageSet
<1>7. SealedOnce'
  BY DEF SealInv, SealedOnce
<1>. QED
  BY <1>2, <1>4, <1>5, <1>6, <1>7

LEMMA SealKeeps ==
  ASSUME SealInv, NEW p \in Parties, Seals(p)
  PROVE  /\ StatesOk' /\ MessagesOk' /\ Unsealed' /\ OwnRoots' /\ SealedOnce'
         /\ Answered' /\ WrappedUntilAnswered'
<1>1. TypeOK /\ StatesOk /\ MessagesOk /\ Unsealed /\ OwnRoots /\ Answered /\ WrappedUntilAnswered
      /\ SealedOnce
  BY DEF SealInv
<1>a. PICK s \in In(archive[p]) :
        /\ Comes(p, s, [s EXCEPT !.sending.index = @ + 1]) /\ s.pending # "stale"
        /\ network' = network \cup {Sealing(p, s)} /\ made' = made
  BY DEF Seals
<1>b. PICK t : t = [s EXCEPT !.sending.index = @ + 1]
  OBVIOUS
<1>2. /\ t = [s EXCEPT !.sending.index = @ + 1] /\ Comes(p, s, t) /\ s.pending # "stale"
      /\ network' = network \cup {Sealing(p, s)} /\ made' = made
  BY <1>a, <1>b
<1>3. Renews(p, {s}, {t}) /\ Like(p, s, t) /\ t.sending.index = s.sending.index + 1
      /\ t.root = s.root /\ t.sending.ratchet = s.sending.ratchet
  BY <1>1, <1>2, SealRenews
<1>4. StatesOk' /\ Answered' /\ OwnRoots'
  BY <1>1, <1>3, StatesKeep, OwnRootsKeep
<1>5. /\ Grows /\ \A q \in Parties : Knew(q) \subseteq Knew(q)'
      /\ \A q \in Parties : Bases(archive'[q]) \subseteq Knew(q)'
  BY <1>1, <1>3, ChangesKeeps DEF Renews
<1>6. s \in StateSet /\ s.base \in Bases(archive[p]) /\ Shape(p, s) /\ HasTurned(s) /\ DrawnState(s)
  BY <1>1, InHas DEF StatesOk
<1>7. PICK m : m = Sealing(p, s)
  OBVIOUS
<1>8. /\ m \in MessageSet /\ m.to = Peer(p) /\ m.base = s.base /\ m.ratchet = s.sending.ratchet
      /\ m.path = s.root /\ m.index = s.sending.index
      /\ m.kind = IF s.pending = "waiting" THEN "first" ELSE "whisper"
  BY <1>1, <1>6, <1>7, SealingTyped DEF Shape
<1>9. MessagesOk'
  <2>1. Peer(m.to) = p /\ m.base \in Knew(Peer(m.to))
    BY <1>6, <1>8, PeerIs DEF Knew
  <2>2. m.ratchet[1] = Peer(m.to) /\ m.ratchet[2] >= 1 /\ Drawn(m.ratchet)
    BY <1>6, <1>8, <2>1 DEF Shape, HasTurned, DrawnState
  <2>3. Len(m.path) >= 2 /\ m.path[1] = {m.base} /\ DrawnPath(m.path)
    BY <1>6, <1>8 DEF Shape, HasTurned, DrawnState
  <2>4. MessageOk(m)
    BY <2>1, <2>2, <2>3 DEF MessageOk
  <2>. QED
    BY <1>1, <1>2, <1>5, <1>7, <1>8, <2>4, MessageStays DEF MessagesOk, TypeOK
<1>10. Unsealed'
  <2>1. SUFFICES ASSUME NEW q \in Parties, NEW u \in In(archive'[q]), NEW n \in network'
                 PROVE  Claims(q, u, n)
    BY DEF Unsealed, Claims
  <2>2. CASE n \in network
    BY <1>1, <1>3, <2>2, UnsealedKeeps
  <2>3. CASE n = m
    <3>1. CASE q = p /\ u = t
      <4>1. s.sending.index \in Nat
        BY <1>6 DEF StateSet, Sendings
      <4>. QED
        BY <1>3, <1>8, <2>3, <3>1, <4>1 DEF Claims
    <3>2. CASE ~ (q = p /\ u = t)
      <4>1. u \in In(archive[q]) /\ ~ (q = p /\ u = s)
        BY <1>1, <1>3, <3>2, ChangesKeeps DEF Renews
      <4>2. ~ (s.root = u.root \/ s.sending.ratchet = u.sending.ratchet)
        BY <1>1, <4>1 DEF OwnRoots
      <4>. QED
        BY <1>8, <2>3, <4>2 DEF Claims
    <3>. QED
      BY <3>1, <3>2
  <2>. QED
    BY <1>2, <1>7, <2>2, <2>3
<1>11. SealedOnce'
  <2>1. ASSUME NEW n \in network, n.path = m.path, n.index = m.index  PROVE FALSE
    <3>1. n.index < s.sending.index /\ s.sending.index \in Nat
      BY <1>1, <1>6, <1>8, <2>1 DEF Unsealed, StateSet, Sendings
    <3>. QED
      BY <1>8, <2>1, <3>1
  <2>. QED
    BY <1>1, <1>2, <1>7, <2>1 DEF SealedOnce
<1>12. WrappedUntilAnswered'
  <2>1. m.kind = "whisper" => s.pending = "none"
    BY <1>2, <1>6, <1>8 DEF StateSet
  <2>2. m.kind = "whisper" => m.base \in Knew(m.to)
    BY <1>1, <1>8, <2>1 DEF Answered
  <2>. QED
    BY <1>1, <1>2, <1>5, <1>7, <1>8, <2>2 DEF WrappedUntilAnswered, TypeOK, MessageSet
<1>. QED
  BY <1>4, <1>9, <1>10, <1>11, <1>12

\* Two devices that have done nothing satisfy all of it.
LEMMA InitHolds == Init => SealInv
<1>. SUFFICES ASSUME Init  PROVE SealInv
  OBVIOUS
<1>1. /\ EmptyArchive \in Archives /\ Len(EmptyArchive.live) = 0 /\ Len(EmptyArchive.previous) = 0
  BY EmptySeq DEF EmptyArchive, Archives
<1>2. DOMAIN States(EmptyArchive) = {} /\ In(EmptyArchive) = {}
  <2>1. DOMAIN States(EmptyArchive) = 1..0
    BY <1>1, ShelfOnly
  <2>. QED
    BY <2>1 DEF In
<1>3. IsRecord(EmptyArchive)
  BY <1>1, <1>2, SessionAssumption DEF IsRecord
<1>4. IsFiniteSet({})
  BY FS_EmptySet
<1>5. TypeOK
  BY <1>1, <1>3, <1>4 DEF Init, TypeOK
<1>6. network = {} /\ \A p \in Parties : In(archive[p]) = {}
  BY <1>2 DEF Init
<1>. QED
  BY <1>5, <1>6 DEF SealInv, StatesOk, MessagesOk, Unsealed, OwnRoots, SealedOnce, Answered,
                    WrappedUntilAnswered

LEMMA NextKeeps == SealInv /\ [Next]_vars => SealInv'
<1>. SUFFICES ASSUME SealInv, [Next]_vars  PROVE SealInv'
  OBVIOUS
<1>1. CASE UNCHANGED vars
  <2>1. TypeOK'
    BY <1>1 DEF SealInv, TypeOK, vars
  <2>2. StatesOk' /\ MessagesOk' /\ Answered' /\ WrappedUntilAnswered'
    BY <1>1 DEF SealInv, StatesOk, MessagesOk, MessageOk, DrawnState, DrawnPath, Drawn, Answered,
                WrappedUntilAnswered, Knew, vars
  <2>3. Unsealed' /\ OwnRoots' /\ SealedOnce'
    BY <1>1 DEF SealInv, Unsealed, OwnRoots, SealedOnce, vars
  <2>. QED
    BY <2>1, <2>2, <2>3 DEF SealInv
<1>2. CASE Next
  <2>1. TypeOK /\ StatesOk /\ MessagesOk /\ Answered
    BY DEF SealInv
  <2>2. TypeOK'
    BY <1>2, <2>1, TypeKept
  <2>3. PICK p \in Parties :
          \/ Starts(p) \/ Seals(p) \/ Ages(p) \/ Shelves(p)
          \/ \E m \in network : Opens(p, m) \/ Refuses(p, m)
    BY <1>2, <2>1, StepsAre
  <2>4. CASE Starts(p)
    <3>1. network' = network
      BY <2>4 DEF Starts
    <3>. QED
      BY <2>1, <2>2, <2>4, <3>1, StartRenews, RenewalKeeps DEF SealInv
  <2>5. CASE Seals(p)
    BY <2>2, <2>5, SealKeeps DEF SealInv
  <2>6. CASE Ages(p)
    <3>1. \E s, t : Renews(p, {s}, {t})
      BY <2>1, <2>6, AgeRenews DEF Ages
    <3>2. network' = network
      BY <2>6 DEF Ages
    <3>. QED
      BY <2>2, <3>1, <3>2, RenewalKeeps DEF SealInv
  <2>7. CASE Shelves(p)
    <3>1. network' = network
      BY <2>7 DEF Shelves
    <3>. QED
      BY <2>1, <2>2, <2>7, <3>1, ShelveRenews, RenewalKeeps DEF SealInv
  <2>8. ASSUME NEW m \in network, Opens(p, m)  PROVE SealInv'
    <3>1. m.to = p /\ network' = network /\ \E d, s \in StateSet : OpensIn(p, m, d, s)
      BY <2>8 DEF Opens
    <3>2. \E d, s : Renews(p, {d}, {s})
      BY <2>1, <3>1, OpenRenews
    <3>. QED
      BY <2>2, <3>1, <3>2, RenewalKeeps DEF SealInv
  <2>9. ASSUME NEW m \in network, Refuses(p, m)  PROVE SealInv'
    <3>1. UNCHANGED <<archive, made, network, forgot>>
      BY <2>9 DEF Refuses
    <3>2. StatesOk' /\ MessagesOk' /\ Answered' /\ WrappedUntilAnswered'
      BY <3>1 DEF SealInv, StatesOk, MessagesOk, MessageOk, DrawnState, DrawnPath, Drawn, Answered,
                  WrappedUntilAnswered, Knew
    <3>3. Unsealed' /\ OwnRoots' /\ SealedOnce'
      BY <3>1 DEF SealInv, Unsealed, OwnRoots, SealedOnce
    <3>. QED
      BY <2>2, <3>2, <3>3 DEF SealInv
  <2>. QED
    BY <2>3, <2>4, <2>5, <2>6, <2>7, <2>8, <2>9
<1>. QED
  BY <1>1, <1>2

\* What a record holds is well formed and named by key pairs drawn before
\* (engine.zig over state.zig and archive.zig), always.
THEOREM SealInvHolds == Spec => []SealInv
BY InitHolds, NextKeeps, PTL DEF Spec

\* However sessions are started, shelved, revived and opened twice, seal never uses
\* one message key twice, on either device (engine.zig, seal).
THEOREM SealedOnceHolds == Spec => []SealedOnce
BY SealInvHolds, PTL DEF SealInv

\* seal leaves off the first message's wrapper only towards a device that has, or
\* had, the session (engine.zig, seal and the clearing of pending on an open).
THEOREM WrappedHolds == Spec => []WrappedUntilAnswered
BY SealInvHolds, PTL DEF SealInv


-----------------------------------------------------------------------------
(* What a lane says of the messages sealed on its chain. *)

\* The histories and the network only grow.
Remembers ==
  /\ network \subseteq network'
  /\ \A q \in Parties : trimmed[q] \subseteq trimmed'[q] /\ opened[q] \subseteq opened'[q]

\* Serials are drawn one after another, and a ratchet key seals on one chain of its own.
Serials ==
  /\ \A m \in network : m.serial \in 1..Cardinality(network)
  /\ \A m, n \in network : m.serial = n.serial => m = n
  /\ \A m, n \in network : m.ratchet = n.ratchet <=> m.path = n.path
  /\ \A p \in Parties : opened[p] \subseteq 1..Cardinality(network)

\* The message key at k of this chain was used for a message that p opened.
Used(p, path, k) == \E m \in network : m.to = p /\ m.path = path /\ m.index = k /\ m.serial \in opened[p]

\* A lane was made for a message, or at the start of a session; and every key it is
\* past is kept, trimmed, or used.
LaneTells(p, l) ==
  /\ (l.ratchet[2] = 0 /\ Len(l.path) = 1) \/ \E m \in network : m.to = p /\ m.ratchet = l.ratchet /\ m.path = l.path
  /\ \A k \in Nat : k < l.index => k \in l.skipped \/ <<l.path, k>> \in trimmed[p] \/ Used(p, l.path, k)

LanesTell ==
  \A p \in Parties : \A s \in In(archive[p]) : \A i \in 1..Len(s.receiving) : LaneTells(p, s.receiving[i])

LEMMA LaneTellsStays ==
  ASSUME Remembers, NEW p \in Parties, NEW l, LaneTells(p, l)
  PROVE  LaneTells(p, l)'
BY DEF Remembers, LaneTells, Used

LEMMA LanesTellKeep ==
  ASSUME TypeOK, LanesTell, Remembers, NEW p \in Parties, NEW gone, NEW come, Renews(p, gone, come),
         \A s \in come : \A i \in 1..Len(s.receiving) : LaneTells(p, s.receiving[i])'
  PROVE  LanesTell'
<1>1. SUFFICES ASSUME NEW q \in Parties, NEW s \in In(archive'[q]), NEW i \in 1..Len(s.receiving)
               PROVE  LaneTells(q, s.receiving[i])'
  BY DEF LanesTell
<1>2. s \in In(archive[q]) \/ (q = p /\ s \in come)
  BY ChangesKeeps DEF Renews
<1>3. CASE s \in In(archive[q])
  BY <1>3, LaneTellsStays DEF LanesTell
<1>4. CASE q = p /\ s \in come
  BY <1>4
<1>. QED
  BY <1>2, <1>3, <1>4

\* A lane takes a message of its chain: what it no longer keeps is trimmed or used.
LEMMA TakenTells ==
  ASSUME TypeOK, NEW p \in Parties, NEW m \in network, m.to = p,
         NEW lane \in Lanes, lane.ratchet = m.ratchet, lane.path = m.path,
         \A k \in Nat : k < lane.index =>
           k \in lane.skipped \/ <<lane.path, k>> \in trimmed[p] \/ Used(p, lane.path, k),
         Remembers, m.serial \in opened'[p],
         {<<m.path, k>> : k \in Dropped(lane, m)} \subseteq trimmed'[p]
  PROVE  LaneTells(p, Taken(lane, m))'
<1>1. m \in MessageSet /\ m.index \in Nat /\ lane.index \in Nat /\ lane.skipped \subseteq Nat
  BY DEF TypeOK, MessageSet, Lanes
<1>2. PICK new : new = Taken(lane, m)
  OBVIOUS
<1>3. Used(p, m.path, m.index)'
  BY DEF Used, Remembers
<1>4. ASSUME NEW k \in Nat, k < lane.index
      PROVE  k \in lane.skipped \/ <<m.path, k>> \in trimmed'[p] \/ Used(p, m.path, k)'
  BY <1>4 DEF Remembers, Used
<1>5. CASE lane.index > m.index
  <2>1. /\ new.ratchet = m.ratchet /\ new.path = m.path /\ new.index = lane.index
        /\ new.skipped = lane.skipped \ {m.index}
    BY <1>2, <1>5 DEF Taken, Lanes
  <2>2. \A k \in Nat : k < new.index =>
           k \in new.skipped \/ <<new.path, k>> \in trimmed'[p] \/ Used(p, new.path, k)'
    BY <1>3, <1>4, <2>1
  <2>3. \E n \in network' : n.to = p /\ n.ratchet = new.ratchet /\ n.path = new.path
    BY <2>1 DEF Remembers
  <2>. QED
    BY <1>2, <2>2, <2>3 DEF LaneTells
<1>6. CASE ~ (lane.index > m.index)
  <2>1. PICK kept, all :
          /\ kept = KeepSkipped(lane.skipped, lane.index .. m.index - 1)
          /\ all = lane.skipped \cup (lane.index .. m.index - 1)
    OBVIOUS
  <2>2. /\ new.ratchet = m.ratchet /\ new.path = m.path /\ new.index = m.index + 1
        /\ new.skipped = kept
    BY <1>2, <1>6, <2>1 DEF Taken, Lanes
  <2>3. Dropped(lane, m) = all \ kept
    BY <1>6, <2>1 DEF Dropped
  <2>4. ASSUME NEW k \in all  PROVE k \in new.skipped \/ <<m.path, k>> \in trimmed'[p]
    BY <2>2, <2>3, <2>4
  <2>5. ASSUME NEW k \in Nat, k < new.index
        PROVE  k \in new.skipped \/ <<m.path, k>> \in trimmed'[p] \/ Used(p, m.path, k)'
    <3>1. CASE k = m.index
      BY <1>3, <3>1
    <3>2. CASE k < lane.index
      BY <1>4, <2>1, <2>4, <3>2
    <3>3. CASE k # m.index /\ ~ (k < lane.index)
      <4>1. k \in lane.index .. m.index - 1
        BY <1>1, <2>2, <2>5, <3>3
      <4>. QED
        BY <2>1, <2>4, <4>1
    <3>. QED
      BY <3>1, <3>2, <3>3
  <2>6. \E n \in network' : n.to = p /\ n.ratchet = new.ratchet /\ n.path = new.path
    BY <2>2 DEF Remembers
  <2>. QED
    BY <1>2, <2>2, <2>5, <2>6 DEF LaneTells
<1>. QED
  BY <1>5, <1>6

LEMMA OpenTells ==
  ASSUME TypeOK, StatesOk, MessagesOk, LanesTell, NEW p \in Parties, NEW m \in network, m.to = p,
         NEW d, NEW s \in StateSet, OpensIn(p, m, d, s),
         opened' = [opened EXCEPT ![p] = @ \cup {m.serial}], network' = network
  PROVE  Remembers /\ \A i \in 1..Len(s.receiving) : LaneTells(p, s.receiving[i])'
<1>1. m \in MessageSet /\ m.ratchet \in KeyPairs /\ m.path \in AllPaths /\ m.index \in Nat
  BY DEF TypeOK, MessageSet
<1>2. Shape(p, d) /\ d \in StateSet /\ d.receiving \in Seq(Lanes)
  BY FoundIs DEF OpensIn, StateSet
<1>3. trimmed \in [Parties -> SUBSET (AllPaths \X Nat)] /\ opened \in [Parties -> SUBSET Nat]
  BY DEF TypeOK
<1>4. opened'[p] = opened[p] \cup {m.serial} /\ \A q \in Parties : opened[q] \subseteq opened'[q]
  BY <1>3
<1>5. ASSUME NEW i \in 1..Len(d.receiving), OpensOn(d, s, m, i), d \in In(archive[p]),
             trimmed' = [trimmed EXCEPT ![p] = @ \cup {<<m.path, k>> : k \in Dropped(d.receiving[i], m)}]
      PROVE  Remembers /\ \A j \in 1..Len(s.receiving) : LaneTells(p, s.receiving[j])'
  <2>1. Remembers
    BY <1>3, <1>4, <1>5 DEF Remembers
  <2>2. /\ Len(s.receiving) = Len(d.receiving) /\ s.receiving[i] = Taken(d.receiving[i], m)
        /\ \A j \in 1..Len(d.receiving) : j # i => s.receiving[j] = d.receiving[j]
    BY <1>1, <1>2, <1>5, OpensOnShape
  <2>3. PICK lane : lane = d.receiving[i]
    OBVIOUS
  <2>4. lane \in Lanes /\ lane.ratchet = m.ratchet /\ lane.path = m.path /\ LaneTells(p, lane)
    BY <1>2, <1>5, <2>3, ElementOfSeq DEF OpensOn, LanesTell
  <2>5. {<<m.path, k>> : k \in Dropped(lane, m)} \subseteq trimmed'[p]
    BY <1>3, <1>5, <2>3
  <2>6. LaneTells(p, Taken(lane, m))'
    BY <1>4, <2>1, <2>4, <2>5, TakenTells DEF LaneTells
  <2>7. ASSUME NEW j \in 1..Len(s.receiving)  PROVE LaneTells(p, s.receiving[j])'
    <3>1. CASE j = i
      BY <2>2, <2>3, <2>6, <3>1
    <3>2. CASE j # i
      <4>1. s.receiving[j] = d.receiving[j] /\ j \in 1..Len(d.receiving)
        BY <2>2, <3>2
      <4>. QED
        BY <1>5, <2>1, <4>1, LaneTellsStays DEF LanesTell
    <3>. QED
      BY <3>1, <3>2
  <2>. QED
    BY <2>1, <2>7
<1>6. ASSUME TurnsTo(d, s, m, Fresh(p)),
             trimmed' = [trimmed EXCEPT ![p] =
               @ \cup {<<m.path, k>> : k \in Dropped(Lane(m.ratchet, m.path), m)}]
      PROVE  Remembers /\ \A j \in 1..Len(s.receiving) : LaneTells(p, s.receiving[j])'
  <2>1. Remembers
    BY <1>3, <1>4, <1>6 DEF Remembers
  <2>2. PICK lane : lane = Lane(m.ratchet, m.path)
    OBVIOUS
  <2>3. lane \in Lanes /\ lane.ratchet = m.ratchet /\ lane.path = m.path /\ lane.index = 0
    BY <1>1, <2>2 DEF Lane, Lanes
  <2>4. {<<m.path, k>> : k \in Dropped(lane, m)} \subseteq trimmed'[p]
    BY <1>3, <1>6, <2>2
  <2>5. \A k \in Nat : k < lane.index =>
           k \in lane.skipped \/ <<lane.path, k>> \in trimmed[p] \/ Used(p, lane.path, k)
    BY <2>3
  <2>6. LaneTells(p, Taken(lane, m))'
    BY <1>4, <2>1, <2>3, <2>4, <2>5, TakenTells
  <2>7. PICK n : n = Len(s.receiving)
    OBVIOUS
  <2>8. n \in Nat \ {0} /\ s.receiving[n] = Taken(lane, m)
    BY <1>6, <2>2, <2>7 DEF TurnsTo, Adds
  <2>9. PICK gone \in {0, 1} : /\ n = Len(d.receiving) + 1 - gone
                               /\ \A j \in 1..(n - 1) : s.receiving[j] = d.receiving[j + gone]
    BY <1>6, <2>7 DEF TurnsTo, Adds
  <2>10. ASSUME NEW j \in 1..n  PROVE LaneTells(p, s.receiving[j])'
    <3>1. CASE j = n
      BY <2>6, <2>8, <3>1
    <3>2. CASE j # n
      <4>1. Len(d.receiving) \in Nat
        BY <1>2, LenProperties
      <4>2. j \in 1..(n - 1) /\ j + gone \in 1..Len(d.receiving)
        BY <2>8, <2>9, <3>2, <4>1
      <4>3. s.receiving[j] = d.receiving[j + gone]
        BY <2>9, <4>2
      <4>4. d \in In(archive[p])
        <5>1. ASSUME d = ResponderState(m.base, SignedPreKey(p))  PROVE FALSE
          <6>1. m.base \in KeyPairs
            BY <1>1 DEF MessageSet
          <6>2. Len(d.receiving) = 0
            BY <5>1, <6>1, ResponderShape
          <6>. QED
            BY <4>2, <6>2
        <5>. QED
          BY <5>1 DEF OpensIn, Finds
      <4>. QED
        BY <2>1, <4>2, <4>3, <4>4, LaneTellsStays DEF LanesTell
    <3>. QED
      BY <3>1, <3>2
  <2>. QED
    BY <2>1, <2>7, <2>10
<1>. QED
  BY <1>5, <1>6 DEF OpensIn


LEMMA MessageIs ==
  ASSUME Serials, NEW m \in network
  PROVE  Message(m.to, m.serial) = m
<1>1. \A n \in network : n.to = m.to /\ n.serial = m.serial => n = m
  BY DEF Serials
<1>. QED
  BY <1>1 DEF Message

\* A seal draws the next serial, and its ratchet key sealed on this chain only.
LEMMA SealSerial ==
  ASSUME TypeOK, StatesOk, Unsealed, Serials, NEW p \in Parties, NEW s \in In(archive[p]),
         network' = network \cup {Sealing(p, s)}, opened' = opened
  PROVE  Serials' /\ Sealing(p, s) \notin network
         /\ \A q \in Parties : Sealing(p, s).serial \notin opened[q]
<1>1. s \in StateSet /\ Shape(p, s)
  BY InHas DEF StatesOk
<1>2. PICK m, c : m = Sealing(p, s) /\ c = Cardinality(network)
  OBVIOUS
<1>3. /\ m.serial = c + 1 /\ c \in Nat /\ m.ratchet = s.sending.ratchet /\ m.path = s.root
  BY <1>1, <1>2, SealingTyped DEF Shape
<1>4. m \notin network /\ \A n \in network : n.serial \in 1..c
  BY <1>2, <1>3 DEF Serials
<1>5. Cardinality(network') = c + 1
  BY <1>2, <1>4, FS_AddElement DEF TypeOK
<1>6. \A n \in network : n.ratchet = m.ratchet <=> n.path = m.path
  BY <1>3 DEF Unsealed
<1>7. \A q \in Parties : opened[q] \subseteq 1..c
  BY <1>2 DEF Serials
<1>8. \A n \in network' : n.serial \in 1..(c + 1)
  BY <1>2, <1>3, <1>4
<1>9. \A n, k \in network' : n.serial = k.serial => n = k
  BY <1>2, <1>3, <1>4 DEF Serials
<1>10. \A n, k \in network' : n.ratchet = k.ratchet <=> n.path = k.path
  BY <1>2, <1>6 DEF Serials
<1>11. \A q \in Parties : opened'[q] \subseteq 1..(c + 1)
  BY <1>3, <1>7
<1>12. Serials'
  BY <1>5, <1>8, <1>9, <1>10, <1>11 DEF Serials
<1>. QED
  BY <1>2, <1>3, <1>4, <1>7, <1>12

LEMMA OpenSerial ==
  ASSUME TypeOK, Serials, NEW p \in Parties, NEW m \in network,
         opened' = [opened EXCEPT ![p] = @ \cup {m.serial}], network' = network
  PROVE  Serials'
<1>1. \A q \in Parties : opened'[q] \subseteq opened[q] \cup {m.serial}
  BY DEF TypeOK
<1>2. m.serial \in 1..Cardinality(network)
  BY DEF Serials
<1>3. \A q \in Parties : opened'[q] \subseteq 1..Cardinality(network')
  BY <1>1, <1>2 DEF Serials
<1>. QED
  BY <1>3 DEF Serials

\* Whoever calls a message a replay opened it, or trimmed its key.
LEMMA ReplayFor ==
  ASSUME TypeOK, MessagesOk, SealedOnce, Serials, LanesTell, NEW p \in Parties, NEW m \in network,
         m.to = p, Told(p, m, "Replay")
  PROVE  m.serial \in opened[p] \/ <<m.path, m.index>> \in trimmed[p]
<1>1. m.index \in Nat /\ m.ratchet[2] # 0
  BY DEF TypeOK, MessageSet, MessagesOk, MessageOk
<1>a. PICK s \in In(archive[p]) : \E i \in 1..Len(s.receiving) :
        /\ s.receiving[i].ratchet = m.ratchet
        /\ m.index < s.receiving[i].index /\ m.index \notin s.receiving[i].skipped
  BY DEF Told
<1>2. PICK i \in 1..Len(s.receiving) :
        /\ s.receiving[i].ratchet = m.ratchet
        /\ m.index < s.receiving[i].index /\ m.index \notin s.receiving[i].skipped
  BY <1>a
<1>3. PICK l : l = s.receiving[i]
  OBVIOUS
<1>4. LaneTells(p, l) /\ l.ratchet = m.ratchet /\ m.index < l.index /\ m.index \notin l.skipped
  BY <1>2, <1>3 DEF LanesTell
<1>5. l.path = m.path
  BY <1>1, <1>4 DEF LaneTells, Serials
<1>6. <<m.path, m.index>> \in trimmed[p] \/ Used(p, m.path, m.index)
  BY <1>1, <1>4, <1>5 DEF LaneTells
<1>. QED
  BY <1>6 DEF Used, SealedOnce

TellInv == Serials /\ LanesTell /\ ReplayExplained

LEMMA TellInit == Init => TellInv
<1>. SUFFICES ASSUME Init  PROVE TellInv
  OBVIOUS
<1>1. network = {} /\ \A p \in Parties : opened[p] = {} /\ In(archive[p]) = {}
  <2>1. /\ EmptyArchive \in Archives /\ Len(EmptyArchive.live) = 0 /\ Len(EmptyArchive.previous) = 0
    BY EmptySeq DEF EmptyArchive, Archives
  <2>2. In(EmptyArchive) = {}
    <3>1. DOMAIN States(EmptyArchive) = 1..0
      BY <2>1, ShelfOnly
    <3>. QED
      BY <3>1 DEF In
  <2>. QED
    BY <2>2 DEF Init
<1>2. last.fault # "Replay"
  BY DEF Init, NoCall
<1>. QED
  BY <1>1, <1>2 DEF TellInv, Serials, LanesTell, ReplayExplained

LEMMA TellNext == SealInv /\ TellInv /\ [Next]_vars => TellInv'
<1>. SUFFICES ASSUME SealInv, TellInv, [Next]_vars  PROVE TellInv'
  OBVIOUS
<1>0. /\ TypeOK /\ StatesOk /\ MessagesOk /\ Answered /\ Unsealed /\ SealedOnce
      /\ Serials /\ LanesTell /\ ReplayExplained
  BY DEF SealInv, TellInv
<1>1. CASE UNCHANGED vars
  BY <1>0, <1>1 DEF vars, TellInv, Serials, LanesTell, LaneTells, Used, ReplayExplained, Message
<1>2. CASE Next
  <2>3. PICK p \in Parties :
          \/ Starts(p) \/ Seals(p) \/ Ages(p) \/ Shelves(p)
          \/ \E m \in network : Opens(p, m) \/ Refuses(p, m)
    BY <1>0, <1>2, StepsAre
  <2>4. CASE Starts(p)
    <3>1. PICK id \in server[Peer(p)] \cup {NoKey} : Renews(p, {}, {Opening(p, id)})
      BY <1>0, <2>4, StartRenews
    <3>2. PICK s : s = Opening(p, id)
      OBVIOUS
    <3>3. Len(s.receiving) = 1 /\ s.receiving[1] = Lane(SignedPreKey(Peer(p)), <<{Fresh(p)}>>)
      <4>1. id \in Ids
        BY <1>0, <3>1, PeerIs DEF TypeOK, Ids
      <4>. QED
        BY <1>0, <3>2, <4>1, OpeningIs
    <3>4. LaneTells(p, s.receiving[1])'
      <4>1. s.receiving[1].ratchet[2] = 0 /\ s.receiving[1].index = 0 /\ Len(s.receiving[1].path) = 1
        BY <3>3 DEF Lane, SignedPreKey
      <4>. QED
        BY <4>1 DEF LaneTells
    <3>5. \A i \in 1..Len(s.receiving) : i = 1
      BY <3>3
    <3>6. Remembers /\ last' = NoCall
      BY <2>4 DEF Starts, Remembers
    <3>7. LanesTell'
      BY <1>0, <3>1, <3>2, <3>4, <3>5, <3>6, LanesTellKeep
    <3>8. Serials'
      BY <1>0, <2>4 DEF Starts, Serials
    <3>. QED
      BY <3>6, <3>7, <3>8 DEF TellInv, ReplayExplained, NoCall
  <2>5. CASE Seals(p)
    <3>1. PICK s \in In(archive[p]) :
            /\ Comes(p, s, [s EXCEPT !.sending.index = @ + 1])
            /\ network' = network \cup {Sealing(p, s)} /\ last' = NoCall
            /\ UNCHANGED <<made, opened, trimmed>>
      BY <2>5 DEF Seals
    <3>2. PICK t : t = [s EXCEPT !.sending.index = @ + 1]
      OBVIOUS
    <3>3. Renews(p, {s}, {t}) /\ t.receiving = s.receiving
      BY <1>0, <3>1, <3>2, SealRenews
    <3>4. Remembers
      BY <3>1 DEF Remembers
    <3>5. \A i \in 1..Len(t.receiving) : LaneTells(p, t.receiving[i])'
      BY <1>0, <3>3, <3>4, LaneTellsStays DEF LanesTell
    <3>6. LanesTell'
      BY <1>0, <3>3, <3>4, <3>5, LanesTellKeep
    <3>7. Serials'
      BY <1>0, <3>1, SealSerial
    <3>. QED
      BY <3>1, <3>6, <3>7 DEF TellInv, ReplayExplained, NoCall
  <2>6. CASE Ages(p)
    <3>1. PICK s \in In(archive[p]) :
            /\ Comes(p, s, [s EXCEPT !.pending = "stale"]) /\ last' = NoCall
            /\ UNCHANGED <<made, network, opened, trimmed>>
      BY <2>6 DEF Ages
    <3>2. PICK t : t = [s EXCEPT !.pending = "stale"]
      OBVIOUS
    <3>3. Renews(p, {s}, {t}) /\ t.receiving = s.receiving
      BY <1>0, <3>1, <3>2, AgeRenews
    <3>4. Remembers
      BY <3>1 DEF Remembers
    <3>5. \A i \in 1..Len(t.receiving) : LaneTells(p, t.receiving[i])'
      BY <1>0, <3>3, <3>4, LaneTellsStays DEF LanesTell
    <3>6. LanesTell'
      BY <1>0, <3>3, <3>4, <3>5, LanesTellKeep
    <3>7. Serials'
      BY <1>0, <3>1 DEF Serials
    <3>. QED
      BY <3>1, <3>6, <3>7 DEF TellInv, ReplayExplained, NoCall
  <2>7. CASE Shelves(p)
    <3>1. Renews(p, {}, {}) /\ last' = NoCall /\ UNCHANGED <<network, opened, trimmed>>
      BY <1>0, <2>7, ShelveRenews DEF Shelves
    <3>2. Remembers
      BY <3>1 DEF Remembers
    <3>3. LanesTell'
      BY <1>0, <3>1, <3>2, LanesTellKeep
    <3>4. Serials'
      BY <1>0, <3>1 DEF Serials
    <3>. QED
      BY <3>1, <3>3, <3>4 DEF TellInv, ReplayExplained, NoCall
  <2>8. ASSUME NEW m \in network, Opens(p, m)  PROVE TellInv'
    <3>1. PICK d \in StateSet, s \in StateSet : OpensIn(p, m, d, s)
      BY <2>8 DEF Opens
    <3>2. /\ m.to = p /\ network' = network /\ opened' = [opened EXCEPT ![p] = @ \cup {m.serial}]
          /\ last' = [fault |-> "none", to |-> p, serial |-> m.serial]
      BY <2>8 DEF Opens
    <3>3. Renews(p, {d}, {s})
      BY <1>0, <3>1, <3>2, OpenRenews
    <3>4. Remembers /\ \A i \in 1..Len(s.receiving) : LaneTells(p, s.receiving[i])'
      BY <1>0, <3>1, <3>2, OpenTells
    <3>5. LanesTell'
      BY <1>0, <3>3, <3>4, LanesTellKeep
    <3>6. Serials'
      BY <1>0, <3>2, OpenSerial
    <3>7. last'.fault # "Replay"
      BY <3>2
    <3>. QED
      BY <3>5, <3>6, <3>7 DEF TellInv, ReplayExplained
  <2>9. ASSUME NEW m \in network, Refuses(p, m)  PROVE TellInv'
    <3>1. /\ m.to = p /\ last' = [fault |-> last'.fault, to |-> p, serial |-> m.serial]
          /\ Told(p, m, last'.fault) /\ UNCHANGED <<archive, network, opened, trimmed>>
      BY <2>9 DEF Refuses
    <3>2. last'.to = m.to /\ last'.serial = m.serial
      BY <3>1
    <3>3. Message(m.to, m.serial)' = m
      BY <1>0, <3>1, MessageIs DEF Message
    <3>4. last'.fault = "Replay" => m.serial \in opened'[p] \/ <<m.path, m.index>> \in trimmed'[p]
      BY <1>0, <3>1, ReplayFor
    <3>5. ReplayExplained'
      BY <3>1, <3>2, <3>3, <3>4 DEF ReplayExplained
    <3>6. Serials' /\ LanesTell'
      BY <1>0, <3>1 DEF Serials, LanesTell, LaneTells, Used
    <3>. QED
      BY <3>5, <3>6 DEF TellInv
  <2>. QED
    BY <2>3, <2>4, <2>5, <2>6, <2>7, <2>8, <2>9
<1>. QED
  BY <1>1, <1>2

\* Serials and lanes account for every key a device's chains are past (state.zig,
\* the kept keys of a lane), always.
THEOREM TellInvHolds == Spec => [](SealInv /\ TellInv)
BY InitHolds, NextKeeps, TellInit, TellNext, PTL DEF Spec

\* engine.zig, slotFor: whoever answers AlreadyRead to a genuine message opened it
\* before, or kept its key and dropped it over max_skipped_keys.
THEOREM ReplayHolds == Spec => []ReplayExplained
BY TellInvHolds, PTL DEF TellInv


-----------------------------------------------------------------------------
(* One-time pre-keys, and messages opened a second time. *)

\* Of the messages of N: whoever started a session sends the first messages in it,
\* and only those name a one-time pre-key.
Initiated(N) ==
  /\ \A m \in N :
       /\ m.kind = "first" => m.base[1] = Peer(m.to)
       /\ m.kind = "whisper" => m.oneTimeId = NoKey
  /\ \A p \in Parties : \A s \in In(archive[p]) :
       /\ s.pending = "none" => s.oneTimeId = NoKey
       /\ s.pending # "none" => s.base[1] = p

\* A session names one pre-key, in all its first messages.
OneId(N) ==
  /\ \A m, n \in N : m.kind = "first" /\ n.kind = "first" /\ m.base = n.base => m.oneTimeId = n.oneTimeId
  /\ \A m \in N : m.kind = "first" =>
       \A s \in In(archive[Peer(m.to)]) : s.base = m.base /\ s.pending # "none" => s.oneTimeId = m.oneTimeId

\* Who answered a session used its pre-key up.
Consumed(N) ==
  \A p \in Parties : \A base \in Knew(p) : base[1] # p =>
    \E m \in N : /\ m.kind = "first" /\ m.to = p /\ m.base = base
                 /\ m.oneTimeId = NoKey \/ m.oneTimeId \notin oneTime[p]

\* A session with a one-time pre-key, once forgotten, does not come back.
Gone(N) ==
  \A m \in N : m.kind = "first" /\ m.oneTimeId # NoKey /\ m.base \in forgot[m.to] =>
    m.base \notin Bases(archive[m.to])

PreKeysOf(N) == Initiated(N) /\ OneId(N) /\ Consumed(N) /\ Gone(N)

\* Where a state that comes has its base and its pre-key from.
Continues(gone, s) ==
  \E d \in gone :
    /\ s.base = d.base
    /\ \/ s.pending = "none" /\ s.oneTimeId = NoKey
       \/ d.pending # "none" /\ s.pending # "none" /\ s.oneTimeId = d.oneTimeId
StartsNew(p, s) == ~ Drawn(s.base) /\ s.base[1] = p /\ s.pending = "waiting"
Answers(p, s) ==
  /\ s.pending = "none" /\ s.oneTimeId = NoKey
  /\ \E m \in network :
       /\ m.kind = "first" /\ m.to = p /\ m.base = s.base /\ m.base \notin Bases(archive[p])
       /\ m.oneTimeId = NoKey \/ m.oneTimeId \in oneTime[p] \ oneTime'[p]

\* Whose base was drawn: every message's.
LEMMA BaseDrawn ==
  ASSUME TypeOK, NEW m \in MessageSet, MessageOk(m)
  PROVE  Drawn(m.base) /\ m.base \in Knew(Peer(m.to))
<1>1. PICK n : n = Len(m.path)
  OBVIOUS
<1>2. n \in Nat /\ n >= 2
  BY <1>1, LenProperties DEF MessageOk, MessageSet, AllPaths
<1>3. 1 \in 1..Len(m.path) /\ m.base \in m.path[1]
  BY <1>1, <1>2 DEF MessageOk
<1>. QED
  BY <1>3 DEF MessageOk, DrawnPath

LEMMA BasesIn ==
  ASSUME TypeOK, NEW p \in Parties
  PROVE  Bases(archive[p]) = {s.base : s \in In(archive[p])}
BY InStates DEF TypeOK

LEMMA BasesInNext ==
  ASSUME TypeOK, NEW p \in Parties, Changes(p), NEW q \in Parties
  PROVE  Bases(archive'[q]) = {s.base : s \in In(archive'[q])}
BY ChangesKeeps, InStates

\* Two first messages to one device in one session that it answered: the pre-key
\* they name is used up.
LEMMA UsedUp ==
  ASSUME NEW N, PreKeysOf(N), NEW m \in N, m.kind = "first", m.to \in Parties,
         m.base \in Knew(m.to)
  PROVE  m.oneTimeId = NoKey \/ m.oneTimeId \notin oneTime[m.to]
<1>1. m.base[1] = Peer(m.to) /\ Peer(m.to) # m.to
  BY PeerIs DEF PreKeysOf, Initiated
<1>2. PICK n \in N : /\ n.kind = "first" /\ n.to = m.to /\ n.base = m.base
                     /\ n.oneTimeId = NoKey \/ n.oneTimeId \notin oneTime[m.to]
  BY <1>1 DEF PreKeysOf, Consumed
<1>3. m.oneTimeId = n.oneTimeId
  BY <1>2 DEF PreKeysOf, OneId
<1>. QED
  BY <1>2, <1>3

LEMMA PreKeysKeep ==
  ASSUME TypeOK, StatesOk, MessagesOk, NEW N, N = network, PreKeysOf(N),
         NEW p \in Parties, NEW gone, NEW come, Renews(p, gone, come),
         \A q \in Parties : oneTime'[q] \subseteq oneTime[q],
         \A s \in come : (Continues(gone \cap In(archive[p]), s) \/ StartsNew(p, s) \/ Answers(p, s))
  PROVE  PreKeysOf(N)'
<1>1. Changes(p) /\ \A q \in Parties : q # p => archive'[q] = archive[q] /\ forgot'[q] = forgot[q]
  BY ChangesKeeps DEF Renews
<1>2. \A q \in Parties : \A u \in In(archive'[q]) : u \in In(archive[q]) \/ (q = p /\ u \in come)
  BY <1>1 DEF Renews
<1>3. forgot'[p] = forgot[p] \cup (Bases(archive[p]) \ Bases(archive'[p]))
  BY <1>1 DEF Changes, TypeOK
<1>4. \A m \in N : m \in MessageSet /\ MessageOk(m) /\ m.to \in Parties /\ Peer(m.to) \in Parties
  BY PeerIs DEF TypeOK, MessagesOk, MessageSet
<1>5. \A m \in N : Drawn(m.base)
  BY <1>4, BaseDrawn
<1>6. Initiated(N)'
  <2>1. SUFFICES ASSUME NEW q \in Parties, NEW u \in In(archive'[q])
                 PROVE  /\ u.pending = "none" => u.oneTimeId = NoKey
                        /\ u.pending # "none" => u.base[1] = q
    BY DEF PreKeysOf, Initiated
  <2>2. CASE u \in In(archive[q])
    BY <2>2 DEF PreKeysOf, Initiated
  <2>3. CASE q = p /\ u \in come
    <3>1. CASE Continues(gone \cap In(archive[p]), u)
      BY <2>3, <3>1 DEF Continues, PreKeysOf, Initiated
    <3>2. CASE StartsNew(p, u)
      BY <2>3, <3>2 DEF StartsNew
    <3>3. CASE Answers(p, u)
      BY <3>3 DEF Answers
    <3>. QED
      BY <2>3, <3>1, <3>2, <3>3
  <2>. QED
    BY <1>2, <2>2, <2>3
<1>7. OneId(N)'
  <2>1. SUFFICES ASSUME NEW m \in N, m.kind = "first", NEW u \in In(archive'[Peer(m.to)]),
                        u.base = m.base, u.pending # "none"
                 PROVE  u.oneTimeId = m.oneTimeId
    BY DEF PreKeysOf, OneId
  <2>2. Peer(m.to) \in Parties
    BY <1>4
  <2>3. CASE u \in In(archive[Peer(m.to)])
    BY <2>1, <2>3 DEF PreKeysOf, OneId
  <2>4. CASE Peer(m.to) = p /\ u \in come
    <3>1. CASE Continues(gone \cap In(archive[p]), u)
      <4>1. PICK d \in gone \cap In(archive[p]) : u.base = d.base /\ d.pending # "none" /\ u.oneTimeId = d.oneTimeId
        BY <2>1, <3>1 DEF Continues
      <4>2. d.oneTimeId = m.oneTimeId
        BY <2>1, <2>4, <4>1 DEF PreKeysOf, OneId
      <4>. QED
        BY <4>1, <4>2
    <3>2. CASE StartsNew(p, u)
      BY <1>5, <2>1, <3>2 DEF StartsNew
    <3>3. CASE Answers(p, u)
      BY <2>1, <3>3 DEF Answers
    <3>. QED
      BY <2>4, <3>1, <3>2, <3>3
  <2>. QED
    BY <1>2, <2>2, <2>3, <2>4
<1>8. Consumed(N)'
  <2>1. SUFFICES ASSUME NEW q \in Parties, NEW base \in Knew(q)', base[1] # q
                 PROVE  \E m \in N : /\ m.kind = "first" /\ m.to = q /\ m.base = base
                                     /\ m.oneTimeId = NoKey \/ m.oneTimeId \notin oneTime'[q]
    BY DEF Consumed
  <2>2. CASE base \in Knew(q)
    <3>1. PICK m \in N : /\ m.kind = "first" /\ m.to = q /\ m.base = base
                         /\ m.oneTimeId = NoKey \/ m.oneTimeId \notin oneTime[q]
      BY <2>1, <2>2 DEF PreKeysOf, Consumed
    <3>. QED
      BY <3>1
  <2>3. CASE base \notin Knew(q)
    <3>1. q = p /\ base \in Bases(archive'[p])
      BY <1>1, <1>3, <2>1, <2>3 DEF Knew
    <3>2. PICK u \in In(archive'[p]) : u.base = base
      BY <1>1, <3>1, BasesInNext
    <3>3. u \notin In(archive[p])
      BY <2>3, <3>1, <3>2, BasesIn DEF Knew
    <3>4. u \in come
      BY <1>2, <3>2, <3>3
    <3>5. ~ Continues(gone \cap In(archive[p]), u)
      BY <2>3, <3>1, <3>2, BasesIn DEF Knew, Continues
    <3>6. ~ StartsNew(p, u)
      BY <2>1, <3>1, <3>2 DEF StartsNew
    <3>7. Answers(p, u)
      BY <3>4, <3>5, <3>6
    <3>. QED
      BY <3>1, <3>2, <3>7 DEF Answers
  <2>. QED
    BY <2>2, <2>3
<1>9. Gone(N)'
  <2>1. SUFFICES ASSUME NEW m \in N, m.kind = "first", m.oneTimeId # NoKey, m.base \in forgot'[m.to],
                        m.base \in Bases(archive'[m.to])
                 PROVE  FALSE
    BY DEF Gone
  <2>2. m.to \in Parties
    BY <1>4
  <2>3. m.base \in forgot[m.to]
    BY <1>1, <1>3, <2>1, <2>2
  <2>4. m.base \notin Bases(archive[m.to])
    BY <2>1, <2>3 DEF PreKeysOf, Gone
  <2>5. m.to = p
    BY <1>1, <2>1, <2>2, <2>4
  <2>6. PICK u \in In(archive'[p]) : u.base = m.base
    BY <1>1, <2>1, <2>5, BasesInNext
  <2>7. u \notin In(archive[p])
    BY <2>4, <2>5, <2>6, BasesIn
  <2>8. u \in come
    BY <1>2, <2>6, <2>7
  <2>9. ~ Continues(gone \cap In(archive[p]), u)
    BY <2>4, <2>5, <2>6, BasesIn DEF Continues
  <2>10. ~ StartsNew(p, u)
    BY <1>5, <2>6 DEF StartsNew
  <2>11. PICK n \in N : /\ n.kind = "first" /\ n.to = p /\ n.base = m.base
                        /\ n.oneTimeId = NoKey \/ n.oneTimeId \in oneTime[p]
    BY <2>6, <2>8, <2>9, <2>10 DEF Answers
  <2>12. n.oneTimeId = m.oneTimeId
    BY <2>1, <2>11 DEF PreKeysOf, OneId
  <2>13. m.oneTimeId = NoKey \/ m.oneTimeId \notin oneTime[p]
    BY <2>1, <2>2, <2>3, <2>5, UsedUp DEF Knew
  <2>. QED
    BY <2>1, <2>11, <2>12, <2>13
<1>. QED
  BY <1>6, <1>7, <1>8, <1>9 DEF PreKeysOf


LEMMA SealPreKeys ==
  ASSUME SealInv, NEW N, N = network, PreKeysOf(N), NEW p \in Parties, NEW s \in In(archive[p]),
         NEW t, t = [s EXCEPT !.sending.index = @ + 1], Comes(p, s, t), s.pending # "stale",
         made' = made, oneTime' = oneTime, NEW m, m = Sealing(p, s)
  PROVE  PreKeysOf(N \cup {m})'
<1>0. TypeOK /\ StatesOk /\ MessagesOk /\ Answered
  BY DEF SealInv
<1>1. /\ Renews(p, {s}, {t}) /\ t.base = s.base /\ t.pending = s.pending /\ t.oneTimeId = s.oneTimeId
      /\ t \in In(archive'[p])
  BY <1>0, SealRenews DEF Comes
<1>2. s \in StateSet
  BY <1>0, InHas
<1>3. (s.pending = "none" => s.oneTimeId = NoKey) /\ (s.pending # "none" => s.base[1] = p)
  BY DEF PreKeysOf, Initiated
<1>4. PreKeysOf(N)'
  <2>1. Continues({s} \cap In(archive[p]), t)
    BY <1>1, <1>3 DEF Continues
  <2>2. PICK gone, come : gone = {s} /\ come = {t}
    OBVIOUS
  <2>3. \A q \in Parties : oneTime'[q] \subseteq oneTime[q]
    OBVIOUS
  <2>4. Renews(p, gone, come) /\ \A u \in come : Continues(gone \cap In(archive[p]), u)
    BY <1>1, <2>1, <2>2
  <2>. QED
    BY <1>0, <2>3, <2>4, PreKeysKeep
<1>6. /\ m \in MessageSet /\ m.to = Peer(p) /\ m.base = s.base /\ m.oneTimeId = s.oneTimeId
      /\ m.kind = IF s.pending = "waiting" THEN "first" ELSE "whisper"
  BY <1>0, <1>2, SealingTyped
<1>7. s.pending \in {"none", "waiting"}
  BY <1>2 DEF StateSet
<1>8. /\ Peer(p) \in Parties /\ Peer(Peer(p)) = p /\ Peer(p) # p /\ Parties = {p, Peer(p)}
  BY PeerIs
<1>9. Initiated(N \cup {m})'
  <2>1. m.kind = "first" => m.base[1] = Peer(m.to)
    BY <1>3, <1>6, <1>8
  <2>2. m.kind = "whisper" => m.oneTimeId = NoKey
    BY <1>3, <1>6, <1>7
  <2>. QED
    BY <1>4, <2>1, <2>2 DEF PreKeysOf, Initiated
<1>10. ASSUME NEW n \in N, n.kind = "first", m.kind = "first", n.base = m.base
       PROVE  n.to = m.to /\ n.oneTimeId = m.oneTimeId
  <2>1. n.base[1] = Peer(n.to) /\ n.to \in Parties /\ s.pending # "none"
    BY <1>0, <1>6, <1>10 DEF PreKeysOf, Initiated, TypeOK, MessageSet
  <2>2. Peer(n.to) = p /\ n.to = m.to
    BY <1>3, <1>6, <1>8, <1>10, <2>1
  <2>. QED
    BY <1>6, <1>10, <2>1, <2>2 DEF PreKeysOf, OneId
<1>11. OneId(N \cup {m})'
  <2>1. ASSUME m.kind = "first", NEW u \in In(archive'[p]), u.base = m.base  PROVE u.oneTimeId = m.oneTimeId
    <3>1. IsRecord(archive'[p])
      BY <1>0, <1>1, ChangesKeeps DEF Renews
    <3>2. u = t
      BY <1>1, <1>6, <2>1, <3>1, OneOfABase
    <3>. QED
      BY <1>1, <1>6, <3>2
  <2>2. \A n, k \in N \cup {m} : n.kind = "first" /\ k.kind = "first" /\ n.base = k.base => n.oneTimeId = k.oneTimeId
    BY <1>4, <1>10 DEF PreKeysOf, OneId
  <2>3. Peer(m.to) = p
    BY <1>6, <1>8
  <2>. QED
    BY <1>4, <2>1, <2>2, <2>3 DEF PreKeysOf, OneId
<1>12. Consumed(N \cup {m})'
  BY <1>4 DEF PreKeysOf, Consumed
<1>13. Gone(N \cup {m})'
  <2>1. SUFFICES ASSUME m.kind = "first", m.oneTimeId # NoKey, m.base \in forgot'[m.to],
                        m.base \in Bases(archive'[m.to])
                 PROVE  FALSE
    BY <1>4 DEF PreKeysOf, Gone
  <2>2. m.base \in Knew(m.to)' /\ m.base[1] # m.to /\ m.to \in Parties
    BY <1>3, <1>6, <1>8, <2>1 DEF Knew
  <2>3. PICK n \in N : n.kind = "first" /\ n.to = m.to /\ n.base = m.base
    BY <1>4, <2>2 DEF PreKeysOf, Consumed
  <2>4. n.oneTimeId = m.oneTimeId
    BY <1>10, <2>1, <2>3
  <2>. QED
    BY <1>4, <2>1, <2>3, <2>4 DEF PreKeysOf, Gone
<1>. QED
  BY <1>9, <1>11, <1>12, <1>13 DEF PreKeysOf

\* The state is past the message: it will not open it again.
Passed(s, m) ==
  /\ Len(m.path) < Len(s.root)
  /\ \A j \in 1..Len(s.receiving) : s.receiving[j].path = m.path =>
       m.index < s.receiving[j].index /\ m.index \notin s.receiving[j].skipped

\* An opened message's session is past it, or was forgotten.
OpenedHeld ==
  \A m \in network : m.serial \in opened[m.to] =>
    \/ m.base \in forgot[m.to]
    \/ \E s \in In(archive[m.to]) : s.base = m.base /\ Passed(s, m)

LEMMA HeldKeep ==
  ASSUME TypeOK, OpenedHeld, NEW p \in Parties, NEW gone, NEW come, Renews(p, gone, come),
         NEW m \in network, m.serial \in opened[m.to],
         \A s \in come :
           \/ s.base \notin Bases(archive[p])
           \/ \E d \in In(archive[p]) : s.base = d.base /\ (Passed(d, m) => Passed(s, m))
  PROVE  \/ m.base \in forgot'[m.to]
         \/ \E s \in In(archive'[m.to]) : s.base = m.base /\ Passed(s, m)
<1>0. m.to \in Parties
  BY DEF TypeOK, MessageSet
<1>1. Changes(p) /\ \A q \in Parties : q # p => archive'[q] = archive[q] /\ forgot'[q] = forgot[q]
  BY ChangesKeeps DEF Renews
<1>2. forgot'[p] = forgot[p] \cup (Bases(archive[p]) \ Bases(archive'[p]))
  BY <1>1 DEF Changes, TypeOK
<1>3. CASE m.base \in forgot[m.to]
  BY <1>0, <1>1, <1>2, <1>3
<1>4. CASE m.base \notin forgot'[m.to]
  <2>1. PICK s \in In(archive[m.to]) : s.base = m.base /\ Passed(s, m)
    BY <1>0, <1>1, <1>2, <1>4 DEF OpenedHeld
  <2>2. CASE m.to # p
    BY <1>0, <1>1, <2>1, <2>2
  <2>3. CASE m.to = p
    <3>1. m.base \in Bases(archive[p]) /\ m.base \in Bases(archive'[p])
      BY <1>2, <1>4, <2>1, <2>3, BasesIn
    <3>2. PICK u \in In(archive'[p]) : u.base = m.base
      BY <1>1, <3>1, BasesInNext
    <3>3. CASE u \in In(archive[p])
      <4>1. u = s
        BY <2>1, <2>3, <3>2, <3>3, OneOfABase DEF TypeOK
      <4>. QED
        BY <2>1, <2>3, <3>2, <4>1
    <3>4. CASE u \in come
      <4>1. PICK d \in In(archive[p]) : u.base = d.base /\ (Passed(d, m) => Passed(u, m))
        BY <3>1, <3>2, <3>4
      <4>2. d = s
        BY <2>1, <2>3, <3>2, <4>1, OneOfABase DEF TypeOK
      <4>. QED
        BY <2>1, <2>3, <3>2, <4>1, <4>2
    <3>. QED
      BY <3>2, <3>3, <3>4 DEF Renews
  <2>. QED
    BY <2>2, <2>3
<1>. QED
  BY <1>4

\* A state that opens a message is past it then, and stays past what it was past.
LEMMA OpenPasses ==
  ASSUME TypeOK, StatesOk, MessagesOk, NEW p \in Parties, NEW m \in network, m.to = p,
         NEW d, NEW s \in StateSet, OpensIn(p, m, d, s)
  PROVE  /\ Passed(s, m) /\ ~ Passed(d, m)
         /\ \A n \in network : Passed(d, n) => Passed(s, n)
<1>1. m \in MessageSet /\ m.ratchet \in KeyPairs /\ m.path \in AllPaths /\ m.index \in Nat
  BY DEF TypeOK, MessageSet
<1>2. Shape(p, d) /\ d \in StateSet /\ d.receiving \in Seq(Lanes)
  BY FoundIs DEF OpensIn, StateSet
<1>3. \A n \in network : n.index \in Nat /\ Len(n.path) \in Nat
  BY LenProperties DEF TypeOK, MessageSet, AllPaths
<1>4. ASSUME NEW i \in 1..Len(d.receiving), OpensOn(d, s, m, i)
      PROVE  /\ Passed(s, m) /\ ~ Passed(d, m)
             /\ \A n \in network : Passed(d, n) => Passed(s, n)
  <2>1. /\ s.root = d.root /\ Len(s.receiving) = Len(d.receiving) /\ s.receiving[i] = Taken(d.receiving[i], m)
        /\ \A j \in 1..Len(d.receiving) :
             /\ s.receiving[j].path = d.receiving[j].path
             /\ j # i => s.receiving[j] = d.receiving[j]
    BY <1>1, <1>2, <1>4, OpensOnShape
  <2>2. PICK lane, new : lane = d.receiving[i] /\ new = Taken(lane, m)
    OBVIOUS
  <2>3. lane \in Lanes /\ lane.path = m.path /\ lane.index \in Nat
        /\ (lane.index > m.index => m.index \in lane.skipped)
    <3>1. lane \in Lanes
      BY <1>2, <2>2, ElementOfSeq
    <3>2. lane.path = m.path /\ (lane.index > m.index => m.index \in lane.skipped)
      BY <1>4, <2>2 DEF OpensOn
    <3>. QED
      BY <3>1, <3>2 DEF Lanes
  <2>4. LaneOk(d, i) /\ \A k \in lane.skipped : k < lane.index
    BY <1>2, <2>2 DEF Shape, LaneOk
  <2>5. /\ new.path = m.path /\ new.index >= lane.index
        /\ m.index < new.index /\ m.index \notin new.skipped
    BY <1>1, <2>2, <2>3, <2>4, TakenBehind
  <2>6. Len(m.path) < Len(s.root)
    BY <2>1, <2>2, <2>3, <2>4 DEF LaneOk, Precedes
  <2>7. \A j \in 1..Len(s.receiving) : s.receiving[j].path = m.path => j = i
    <3>1. SUFFICES ASSUME NEW j \in 1..Len(d.receiving), d.receiving[j].path = d.receiving[i].path, j # i
                   PROVE  FALSE
      BY <2>1, <2>2, <2>3
    <3>2. LaneOk(d, i) /\ LaneOk(d, j)
      BY <1>2 DEF Shape
    <3>3. i < j \/ j < i
      BY <3>1
    <3>4. Len(d.receiving[i].path) \in Nat /\ Len(d.receiving[j].path) \in Nat
      BY <3>2 DEF LaneOk
    <3>5. Len(d.receiving[i].path) < Len(d.receiving[j].path) \/ Len(d.receiving[j].path) < Len(d.receiving[i].path)
      BY <3>2, <3>3 DEF LaneOk
    <3>. QED
      BY <3>1, <3>4, <3>5
  <2>8. Passed(s, m)
    BY <2>1, <2>2, <2>5, <2>6, <2>7 DEF Passed
  <2>9. ~ Passed(d, m)
    <3>1. Passed(d, m) => m.index < lane.index /\ m.index \notin lane.skipped
      BY <1>4, <2>2, <2>3 DEF Passed
    <3>. QED
      BY <1>1, <2>3, <3>1
  <2>10. ASSUME NEW n \in network, Passed(d, n)  PROVE Passed(s, n)
    <3>1. SUFFICES ASSUME NEW j \in 1..Len(s.receiving), s.receiving[j].path = n.path
                   PROVE  n.index < s.receiving[j].index /\ n.index \notin s.receiving[j].skipped
      BY <2>1, <2>10 DEF Passed
    <3>2. n.index < d.receiving[j].index /\ n.index \notin d.receiving[j].skipped
      BY <2>1, <2>10, <3>1 DEF Passed
    <3>3. CASE j # i
      BY <2>1, <3>1, <3>2, <3>3
    <3>4. CASE j = i
      <4>1. n.index < lane.index /\ n.index \notin lane.skipped /\ n.index \in Nat
        BY <1>3, <2>2, <3>2, <3>4
      <4>2. new.skipped \subseteq lane.skipped \cup (lane.index .. m.index - 1)
        BY <2>2, <2>3 DEF Taken, KeepSkipped, Lanes
      <4>3. new.index \in Nat
        BY <1>1, <2>2, <2>3 DEF Taken, Lanes
      <4>4. n.index < new.index /\ n.index \notin new.skipped
        BY <2>3, <2>5, <4>1, <4>2, <4>3
      <4>. QED
        BY <2>1, <2>2, <3>4, <4>4
    <3>. QED
      BY <3>3, <3>4
  <2>. QED
    BY <2>8, <2>9, <2>10
<1>5. ASSUME TurnsTo(d, s, m, Fresh(p))
      PROVE  /\ Passed(s, m) /\ ~ Passed(d, m)
             /\ \A n \in network : Passed(d, n) => Passed(s, n)
  <2>1. /\ Shape(p, s) /\ Len(m.path) = Len(d.root) + 1 /\ Len(s.root) = Len(d.root) + 2
    BY <1>1, <1>2, <1>5, FreshIs, TurnsToShape
  <2>2. PICK r, k : r = Len(d.root) /\ k = Len(s.receiving) /\ r \in Nat
    BY <1>2 DEF Shape
  <2>3. PICK lane, new : lane = Lane(m.ratchet, m.path) /\ new = Taken(lane, m)
    OBVIOUS
  <2>4. lane \in Lanes /\ lane.path = m.path /\ lane.skipped = {}
    BY <1>1, <2>3 DEF Lane, Lanes
  <2>5. new.path = m.path /\ m.index < new.index /\ m.index \notin new.skipped
    BY <1>1, <2>3, <2>4, TakenBehind
  <2>6. k \in Nat \ {0} /\ s.receiving[k] = new
    BY <1>5, <2>2, <2>3 DEF TurnsTo, Adds
  <2>7. PICK g \in {0, 1} : /\ k = Len(d.receiving) + 1 - g
                            /\ \A j \in 1..(k - 1) : s.receiving[j] = d.receiving[j + g]
    BY <1>5, <2>2 DEF TurnsTo, Adds
  <2>8. ASSUME NEW j \in 1..(k - 1)
        PROVE  s.receiving[j] = d.receiving[j + g] /\ j + g \in 1..Len(d.receiving)
               /\ Len(s.receiving[j].path) < r /\ Len(s.receiving[j].path) \in Nat
    <3>1. Len(d.receiving) \in Nat
      BY <1>2, LenProperties
    <3>2. j + g \in 1..Len(d.receiving)
      BY <2>6, <2>7, <3>1
    <3>3. LaneOk(d, j + g)
      BY <1>2, <3>2 DEF Shape
    <3>. QED
      BY <2>2, <2>7, <3>2, <3>3 DEF LaneOk, Precedes
  <2>9. Passed(s, m)
    <3>1. ASSUME NEW j \in 1..k, s.receiving[j].path = m.path  PROVE j = k
      <4>1. SUFFICES ASSUME j # k  PROVE FALSE
        OBVIOUS
      <4>2. j \in 1..(k - 1)
        BY <2>6, <4>1
      <4>3. Len(m.path) < r
        BY <2>8, <3>1, <4>2
      <4>. QED
        BY <2>1, <2>2, <4>3
    <3>. QED
      BY <2>1, <2>2, <2>5, <2>6, <3>1 DEF Passed
  <2>10. ~ Passed(d, m)
    BY <2>1, <2>2 DEF Passed
  <2>11. ASSUME NEW n \in network, Passed(d, n)  PROVE Passed(s, n)
    <3>1. Len(n.path) < r /\ Len(n.path) \in Nat
      BY <1>3, <2>2, <2>11 DEF Passed
    <3>2. Len(n.path) < Len(s.root)
      BY <2>1, <2>2, <3>1
    <3>3. ASSUME NEW j \in 1..k, s.receiving[j].path = n.path
          PROVE  n.index < s.receiving[j].index /\ n.index \notin s.receiving[j].skipped
      <4>1. j # k
        BY <2>1, <2>2, <2>5, <2>6, <3>1, <3>3
      <4>2. j \in 1..(k - 1)
        BY <2>6, <4>1
      <4>. QED
        BY <2>8, <2>11, <3>3, <4>2 DEF Passed
    <3>. QED
      BY <2>2, <3>2, <3>3 DEF Passed
  <2>. QED
    BY <2>9, <2>10, <2>11
<1>. QED
  BY <1>4, <1>5 DEF OpensIn


HeldInv == PreKeysOf(network) /\ OpenedHeld

LEMMA HeldInit == Init => HeldInv
<1>. SUFFICES ASSUME Init  PROVE HeldInv
  OBVIOUS
<1>1. EmptyArchive \in Archives /\ Len(EmptyArchive.live) = 0 /\ Len(EmptyArchive.previous) = 0
  BY EmptySeq DEF EmptyArchive, Archives
<1>2. In(EmptyArchive) = {} /\ Bases(EmptyArchive) = {}
  <2>1. DOMAIN States(EmptyArchive) = 1..0
    BY <1>1, ShelfOnly
  <2>. QED
    BY <2>1 DEF In, Bases
<1>3. network = {} /\ \A p \in Parties : In(archive[p]) = {} /\ Knew(p) = {}
  BY <1>2 DEF Init, Knew
<1>. QED
  BY <1>3 DEF HeldInv, PreKeysOf, Initiated, OneId, Consumed, Gone, OpenedHeld

\* The case of every step but a seal and an open.
LEMMA HeldStep ==
  ASSUME SealInv, HeldInv, NEW p \in Parties, NEW gone, NEW come, Renews(p, gone, come),
         network' = network, opened' = opened, \A q \in Parties : oneTime'[q] \subseteq oneTime[q],
         \A s \in come : Continues(gone \cap In(archive[p]), s) \/ StartsNew(p, s),
         \A s \in come :
           \/ s.base \notin Bases(archive[p])
           \/ \E d \in In(archive[p]) : s.base = d.base /\ s.root = d.root /\ s.receiving = d.receiving
  PROVE  HeldInv'
<1>1. TypeOK /\ StatesOk /\ MessagesOk /\ PreKeysOf(network) /\ OpenedHeld
  BY DEF SealInv, HeldInv
<1>2. PICK N : N = network
  OBVIOUS
<1>3. PreKeysOf(N)'
  BY <1>1, <1>2, PreKeysKeep
<1>4. PreKeysOf(network)'
  BY <1>2, <1>3 DEF PreKeysOf, Initiated, OneId, Consumed, Gone
<1>5. ASSUME NEW m \in network, m.serial \in opened[m.to]
      PROVE  \/ m.base \in forgot'[m.to]
             \/ \E s \in In(archive'[m.to]) : s.base = m.base /\ Passed(s, m)
  <2>1. \A s \in come :
          \/ s.base \notin Bases(archive[p])
          \/ \E d \in In(archive[p]) : s.base = d.base /\ (Passed(d, m) => Passed(s, m))
    BY DEF Passed
  <2>. QED
    BY <1>1, <1>5, <2>1, HeldKeep
<1>6. OpenedHeld'
  BY <1>5 DEF OpenedHeld
<1>. QED
  BY <1>4, <1>6 DEF HeldInv

LEMMA HeldSeal ==
  ASSUME SealInv, TellInv, HeldInv, NEW p \in Parties, Seals(p)
  PROVE  HeldInv'
<1>1. TypeOK /\ StatesOk /\ MessagesOk /\ Answered /\ Unsealed /\ Serials
      /\ PreKeysOf(network) /\ OpenedHeld
  BY DEF SealInv, HeldInv, TellInv
<1>2. PICK s \in In(archive[p]) :
        /\ Comes(p, s, [s EXCEPT !.sending.index = @ + 1]) /\ s.pending # "stale"
        /\ network' = network \cup {Sealing(p, s)}
        /\ made' = made /\ oneTime' = oneTime /\ opened' = opened
  BY DEF Seals
<1>3. PICK t, m, N : t = [s EXCEPT !.sending.index = @ + 1] /\ m = Sealing(p, s) /\ N = network
  OBVIOUS
<1>4. Renews(p, {s}, {t}) /\ t.base = s.base /\ t.root = s.root /\ t.receiving = s.receiving
  BY <1>1, <1>2, <1>3, SealRenews
<1>5. PreKeysOf(N \cup {m})'
  BY <1>1, <1>2, <1>3, SealPreKeys
<1>6. PreKeysOf(network)'
  <2>1. network' = N \cup {m}
    BY <1>2, <1>3
  <2>. QED
    BY <1>5, <2>1 DEF PreKeysOf, Initiated, OneId, Consumed, Gone
<1>7. \A q \in Parties : m.serial \notin opened[q]
  BY <1>1, <1>2, <1>3, SealSerial
<1>8. ASSUME NEW n \in network, n.serial \in opened[n.to]
      PROVE  \/ n.base \in forgot'[n.to]
             \/ \E u \in In(archive'[n.to]) : u.base = n.base /\ Passed(u, n)
  <2>1. Passed(s, n) => Passed(t, n)
    BY <1>4 DEF Passed
  <2>. QED
    BY <1>1, <1>4, <1>8, <2>1, HeldKeep
<1>9. OpenedHeld'
  <2>1. m.to \in Parties
    BY <1>1, <1>3, InHas, SealingTyped, PeerIs
  <2>. QED
    BY <1>2, <1>3, <1>7, <1>8, <2>1 DEF OpenedHeld
<1>. QED
  BY <1>6, <1>9 DEF HeldInv

\* A message opened a second time was one of a session forgotten, with no pre-key.
LEMMA OpenHeld ==
  ASSUME SealInv, TellInv, HeldInv, NEW p \in Parties, NEW m \in network, Opens(p, m)
  PROVE  /\ HeldInv'
         /\ m.serial \in opened[p] => m.oneTimeId = NoKey /\ m.base \in forgot[p]
<1>1. TypeOK /\ StatesOk /\ MessagesOk /\ Serials /\ PreKeysOf(network) /\ OpenedHeld
  BY DEF SealInv, HeldInv, TellInv
<1>2. PICK d \in StateSet, s \in StateSet : OpensIn(p, m, d, s)
  BY DEF Opens
<1>3. /\ m.to = p /\ network' = network /\ opened' = [opened EXCEPT ![p] = @ \cup {m.serial}]
  BY DEF Opens
<1>a. m.to = p
  BY <1>3
<1>4. /\ Renews(p, {d}, {s}) /\ s.pending = "none" /\ s.oneTimeId = NoKey
      /\ d.base = m.base /\ s.base = m.base
  <2>1. TypeOK /\ StatesOk /\ MessagesOk
    BY <1>1
  <2>2. Renews(p, {d}, {s})
    BY <1>2, <1>a, <2>1, OpenRenews
  <2>3. s.pending = "none" /\ s.oneTimeId = NoKey
    BY <1>2 DEF OpensIn, OpensOn, TurnsTo
  <2>4. d.base = m.base /\ s.base = m.base
    <3>1. d.base = m.base
      BY <1>2 DEF OpensIn
    <3>2. s.base = d.base
      BY <1>2 DEF OpensIn, OpensOn, TurnsTo
    <3>. QED
      BY <3>1, <3>2
  <2>. QED
    BY <2>2, <2>3, <2>4
<1>5. /\ Passed(s, m) /\ ~ Passed(d, m) /\ \A n \in network : Passed(d, n) => Passed(s, n)
  BY <1>1, <1>2, <1>3, OpenPasses
<1>6. Finds(p, m, d) /\ s \in In(archive'[p])
      /\ oneTime' = IF d \in In(archive[p]) THEN oneTime ELSE [oneTime EXCEPT ![p] = @ \ {m.oneTimeId}]
  BY <1>2 DEF OpensIn, Comes
<1>7. \A q \in Parties : oneTime'[q] \subseteq oneTime[q]
  BY <1>1, <1>6 DEF TypeOK
<1>8. Continues({d} \cap In(archive[p]), s) \/ Answers(p, s)
  <2>1. CASE d \in In(archive[p])
    BY <1>4, <2>1 DEF Continues
  <2>2. CASE d \notin In(archive[p])
    <3>1. m.kind = "first" /\ m.base \notin Bases(archive[p]) /\ m.oneTimeId \in oneTime[p] \cup {NoKey}
      BY <1>6, <2>2 DEF Finds
    <3>2. oneTime'[p] = oneTime[p] \ {m.oneTimeId}
      BY <1>1, <1>6, <2>2 DEF TypeOK
    <3>. QED
      BY <1>3, <1>4, <3>1, <3>2 DEF Answers
  <2>. QED
    BY <2>1, <2>2
<1>9. PreKeysOf(network)'
  <2>1. PICK N, gone, come : N = network /\ gone = {d} /\ come = {s}
    OBVIOUS
  <2>2. \A u \in come : Continues(gone \cap In(archive[p]), u) \/ StartsNew(p, u) \/ Answers(p, u)
    BY <1>8, <2>1
  <2>3. PreKeysOf(N)'
    BY <1>1, <1>4, <1>7, <2>1, <2>2, PreKeysKeep
  <2>. QED
    BY <1>3, <2>1, <2>3 DEF PreKeysOf, Initiated, OneId, Consumed, Gone
<1>10. ASSUME NEW n \in network, n.serial \in opened[n.to]
       PROVE  \/ n.base \in forgot'[n.to]
              \/ \E u \in In(archive'[n.to]) : u.base = n.base /\ Passed(u, n)
  <2>1. s.base \notin Bases(archive[p])
        \/ \E e \in In(archive[p]) : s.base = e.base /\ (Passed(e, n) => Passed(s, n))
    BY <1>4, <1>5, <1>6 DEF Finds
  <2>. QED
    BY <1>1, <1>4, <1>10, <2>1, HeldKeep
<1>11. OpenedHeld'
  <2>1. SUFFICES ASSUME NEW n \in network, n.serial \in opened'[n.to], n.serial \notin opened[n.to]
                 PROVE  n = m
    BY <1>3, <1>4, <1>5, <1>6, <1>10 DEF OpenedHeld
  <2>2. n.to \in Parties
    BY <1>1 DEF TypeOK, MessageSet
  <2>3. n.serial = m.serial
    BY <1>1, <1>3, <2>1, <2>2 DEF TypeOK
  <2>. QED
    BY <1>1, <2>3 DEF Serials
<1>12. ASSUME m.serial \in opened[p]  PROVE m.oneTimeId = NoKey /\ m.base \in forgot[p]
  <2>1. m.base \in forgot[p]
    <3>1. SUFFICES ASSUME NEW u \in In(archive[p]), u.base = m.base, Passed(u, m)  PROVE FALSE
      BY <1>1, <1>3, <1>12 DEF OpenedHeld
    <3>2. d \in In(archive[p])
      BY <1>1, <1>6, <3>1, BasesIn DEF Finds
    <3>3. d = u
      BY <1>1, <1>4, <3>1, <3>2, OneOfABase DEF TypeOK
    <3>. QED
      BY <1>5, <3>1, <3>3
  <2>2. m.kind = "whisper" => m.oneTimeId = NoKey
    BY <1>1 DEF PreKeysOf, Initiated
  <2>3. ASSUME m.kind = "first", m.oneTimeId # NoKey  PROVE FALSE
    <3>1. m.base \notin Bases(archive[p])
      BY <1>1, <1>3, <2>1, <2>3 DEF PreKeysOf, Gone
    <3>2. d \notin In(archive[p])
      BY <1>1, <1>4, <3>1, BasesIn
    <3>3. m.oneTimeId \in oneTime[p]
      BY <1>6, <2>3, <3>2 DEF Finds
    <3>4. m.oneTimeId = NoKey \/ m.oneTimeId \notin oneTime[p]
      BY <1>1, <1>3, <2>1, <2>3, UsedUp DEF Knew
    <3>. QED
      BY <2>3, <3>3, <3>4
  <2>4. m.kind \in {"first", "whisper"}
    BY <1>1 DEF TypeOK, MessageSet
  <2>. QED
    BY <2>1, <2>2, <2>3, <2>4
<1>. QED
  BY <1>9, <1>11, <1>12 DEF HeldInv

LEMMA HeldNext == SealInv /\ TellInv /\ HeldInv /\ [Next]_vars => HeldInv'
<1>. SUFFICES ASSUME SealInv, TellInv, HeldInv, [Next]_vars  PROVE HeldInv'
  OBVIOUS
<1>0. TypeOK /\ StatesOk /\ MessagesOk /\ Answered
  BY DEF SealInv
<1>1. CASE UNCHANGED vars
  BY <1>1 DEF vars, HeldInv, PreKeysOf, Initiated, OneId, Consumed, Gone, Knew, OpenedHeld
<1>2. CASE Next
  <2>3. PICK p \in Parties :
          \/ Starts(p) \/ Seals(p) \/ Ages(p) \/ Shelves(p)
          \/ \E m \in network : Opens(p, m) \/ Refuses(p, m)
    BY <1>0, <1>2, StepsAre
  <2>4. CASE Starts(p)
    <3>1. PICK id \in server[Peer(p)] \cup {NoKey} : Renews(p, {}, {Opening(p, id)})
      BY <1>0, <2>4, StartRenews
    <3>2. PICK s : s = Opening(p, id)
      OBVIOUS
    <3>3. s.base = Fresh(p) /\ s.pending = "waiting"
      <4>1. id \in Ids
        BY <1>0, <3>1, PeerIs DEF TypeOK, Ids
      <4>. QED
        BY <1>0, <3>2, <4>1, OpeningIs
    <3>4. ~ Drawn(s.base) /\ s.base[1] = p
      BY <1>0, <3>3, FreshIs
    <3>5. s.base \notin Bases(archive[p])
      <4>1. SUFFICES ASSUME NEW u \in In(archive[p]), u.base = s.base  PROVE FALSE
        BY <1>0, BasesIn
      <4>2. Shape(p, u) /\ DrawnPath(u.root)
        BY <1>0 DEF StatesOk, DrawnState
      <4>3. 1 \in 1..Len(u.root) /\ u.base \in u.root[1]
        BY <4>2 DEF Shape
      <4>. QED
        BY <3>4, <4>1, <4>2, <4>3 DEF DrawnPath
    <3>6. network' = network /\ opened' = opened /\ oneTime' = oneTime
      BY <2>4 DEF Starts
    <3>7. StartsNew(p, s)
      BY <3>3, <3>4 DEF StartsNew
    <3>8. PICK gone, come : gone = {} /\ come = {s}
      OBVIOUS
    <3>9. Renews(p, gone, come) /\ \A u \in come : u = s
      BY <3>1, <3>2, <3>8
    <3>10. \A u \in come : Continues(gone \cap In(archive[p]), u) \/ StartsNew(p, u)
      BY <3>7, <3>9
    <3>11. \A u \in come :
             \/ u.base \notin Bases(archive[p])
             \/ \E d \in In(archive[p]) : u.base = d.base /\ u.root = d.root /\ u.receiving = d.receiving
      BY <3>5, <3>9
    <3>12. \A q \in Parties : oneTime'[q] \subseteq oneTime[q]
      BY <3>6
    <3>. QED
      BY <3>6, <3>9, <3>10, <3>11, <3>12, HeldStep
  <2>5. CASE Seals(p)
    BY <2>5, HeldSeal
  <2>6. CASE Ages(p)
    <3>1. PICK s \in In(archive[p]) :
            /\ Comes(p, s, [s EXCEPT !.pending = "stale"]) /\ s.pending = "waiting"
            /\ UNCHANGED <<made, oneTime, network, opened>>
      BY <2>6 DEF Ages
    <3>2. PICK t, gone, come : t = [s EXCEPT !.pending = "stale"] /\ gone = {s} /\ come = {t}
      OBVIOUS
    <3>3. Renews(p, gone, come) /\ t.base = s.base /\ t.root = s.root /\ t.receiving = s.receiving
          /\ t.pending = "stale" /\ t.oneTimeId = s.oneTimeId
      BY <1>0, <3>1, <3>2, AgeRenews
    <3>4. \A u \in come : Continues(gone \cap In(archive[p]), u)
      BY <3>1, <3>2, <3>3 DEF Continues
    <3>5. \A u \in come :
            \/ u.base \notin Bases(archive[p])
            \/ \E d \in In(archive[p]) : u.base = d.base /\ u.root = d.root /\ u.receiving = d.receiving
      BY <3>2, <3>3
    <3>6. \A q \in Parties : oneTime'[q] \subseteq oneTime[q]
      BY <3>1
    <3>7. network' = network /\ opened' = opened
      BY <3>1
    <3>8. \A u \in come : Continues(gone \cap In(archive[p]), u) \/ StartsNew(p, u)
      BY <3>4
    <3>. QED
      BY <3>3, <3>5, <3>6, <3>7, <3>8, HeldStep
  <2>7. CASE Shelves(p)
    <3>1. Renews(p, {}, {}) /\ UNCHANGED <<network, opened, oneTime>>
      BY <1>0, <2>7, ShelveRenews DEF Shelves
    <3>2. PICK gone, come : gone = {} /\ come = {}
      OBVIOUS
    <3>3. Renews(p, gone, come) /\ \A u \in come : FALSE
      BY <3>1, <3>2
    <3>. QED
      BY <3>1, <3>3, HeldStep
  <2>8. ASSUME NEW m \in network, Opens(p, m)  PROVE HeldInv'
    BY <2>8, OpenHeld
  <2>9. ASSUME NEW m \in network, Refuses(p, m)  PROVE HeldInv'
    <3>1. UNCHANGED <<archive, made, oneTime, network, forgot, opened>>
      BY <2>9 DEF Refuses
    <3>. QED
      BY <3>1 DEF HeldInv, PreKeysOf, Initiated, OneId, Consumed, Gone, Knew, OpenedHeld
  <2>. QED
    BY <2>3, <2>4, <2>5, <2>6, <2>7, <2>8, <2>9
<1>. QED
  BY <1>1, <1>2

\* The step of OpensOnce, from the invariants.
LEMMA ReopensFor ==
  ASSUME SealInv, TellInv, HeldInv, Next,
         last' # NoCall, last'.fault = "none", last'.serial \in opened[last'.to]
  PROVE  LET m == Message(last'.to, last'.serial)
         IN  m.oneTimeId = NoKey /\ m.base \in forgot[m.to]
<1>0. TypeOK /\ StatesOk /\ MessagesOk /\ Serials
  BY DEF SealInv, TellInv
<1>1. PICK p \in Parties :
        \/ Starts(p) \/ Seals(p) \/ Ages(p) \/ Shelves(p)
        \/ \E m \in network : Opens(p, m) \/ Refuses(p, m)
  BY <1>0, StepsAre
<1>2. ~ (Starts(p) \/ Seals(p) \/ Ages(p) \/ Shelves(p))
  BY DEF Starts, Seals, Ages, Shelves
<1>3. ASSUME NEW m \in network, Refuses(p, m)  PROVE FALSE
  BY <1>3 DEF Refuses
<1>4. PICK m \in network : Opens(p, m)
  BY <1>1, <1>2, <1>3
<1>5. m.to = p /\ last' = [fault |-> "none", to |-> p, serial |-> m.serial]
  BY <1>4 DEF Opens
<1>6. last'.to = m.to /\ last'.serial = m.serial
  BY <1>5
<1>7. Message(last'.to, last'.serial) = m
  BY <1>0, <1>6, MessageIs
<1>8. m.oneTimeId = NoKey /\ m.base \in forgot[m.to]
  BY <1>4, <1>5, <1>6, OpenHeld
<1>. QED
  BY <1>7, <1>8

\* Pre-keys are used up by the sessions that name them, and an opened message's session
\* is past it or forgotten (engine.zig, openFirst and slotFor), always.
THEOREM HeldInvHolds == Spec => [](SealInv /\ TellInv /\ HeldInv)
BY InitHolds, NextKeeps, TellInit, TellNext, HeldInit, HeldNext, PTL DEF Spec

\* openFirst and openWhisper hand a text out twice only for a first message with no
\* one-time pre-key whose session fell off the shelf in between (engine.zig, archive.zig).
THEOREM OpensOnceHolds == Spec => OpensOnce
<1>1. SealInv /\ TellInv /\ HeldInv /\ [Next]_vars =>
        [last' # NoCall /\ last'.fault = "none" /\ last'.serial \in opened[last'.to] =>
           LET m == Message(last'.to, last'.serial)
           IN  m.oneTimeId = NoKey /\ m.base \in forgot[m.to]]_vars
  BY ReopensFor
<1>. QED
  BY <1>1, HeldInvHolds, PTL DEF Spec, OpensOnce


-----------------------------------------------------------------------------
(* A one-time pre-key that a message names is there until its session is answered. *)

Names(s) == s.pending # "none" /\ s.oneTimeId # NoKey
Offers(m) == m.kind = "first" /\ m.oneTimeId # NoKey

\* No two sessions name one pre-key, the server hands out none that is named, and
\* the device still has the one of a session it does not know.
Unspent(N) ==
  /\ \A p \in Parties : server[p] \subseteq oneTime[p] \cup {NoKey}
  /\ \A p \in Parties : \A s \in In(archive[p]) : Names(s) =>
       /\ s.oneTimeId \notin server[Peer(p)]
       /\ s.base \notin Knew(Peer(p)) => s.oneTimeId \in oneTime[Peer(p)]
  /\ \A m \in N : Offers(m) =>
       /\ m.oneTimeId \notin server[m.to]
       /\ m.base \notin Knew(m.to) => m.oneTimeId \in oneTime[m.to]
  /\ \A m \in N : Offers(m) =>
       \A s \in In(archive[Peer(m.to)]) : Names(s) /\ s.oneTimeId = m.oneTimeId => s.base = m.base
  /\ \A m, n \in N : Offers(m) /\ Offers(n) /\ m.to = n.to /\ m.oneTimeId = n.oneTimeId => m.base = n.base
  /\ \A p \in Parties : \A s, t \in In(archive[p]) :
       Names(s) /\ Names(t) /\ s.oneTimeId = t.oneTimeId => s = t

\* A state that comes names no pre-key, the one of the state it replaces, or one the
\* server just handed out.
NamesAs(p, gone, s) ==
  \/ ~ Names(s)
  \/ \E d \in gone \cap In(archive[p]) : Names(d) /\ s.base = d.base /\ s.oneTimeId = d.oneTimeId
  \/ s.oneTimeId \in server[Peer(p)] \ server'[Peer(p)]

LEMMA UnspentKeep ==
  ASSUME TypeOK, NEW N, N = network, Unspent(N),
         NEW p \in Parties, NEW gone, NEW come, Renews(p, gone, come),
         \A q \in Parties : server'[q] \subseteq server[q] /\ server'[q] \subseteq oneTime'[q] \cup {NoKey},
         \A s \in come : NamesAs(p, gone, s),
         \A q \in Parties : \A id \in oneTime[q] \ oneTime'[q] : id # NoKey =>
           q = p /\ \E m \in N : Offers(m) /\ m.to = p /\ m.oneTimeId = id /\ m.base \in Knew(p)'
  PROVE  Unspent(N)'
<1>1. \A q \in Parties : Knew(q) \subseteq Knew(q)' /\ (q # p => archive'[q] = archive[q])
  BY ChangesKeeps DEF Renews
<1>2. \A q \in Parties : \A u \in In(archive'[q]) :
        (u \in In(archive[q]) /\ (q = p => u \notin gone)) \/ (q = p /\ u \in come)
  BY <1>1 DEF Renews
<1>3. \A q \in Parties : Peer(q) \in Parties /\ Peer(q) # q /\ Peer(Peer(q)) = q
  BY PeerIs
<1>4. \A m \in N : m.to \in Parties
  BY DEF TypeOK, MessageSet
<1>5. ASSUME NEW q \in Parties, NEW u \in In(archive'[q]), Names(u)
      PROVE  /\ u.oneTimeId \notin server'[Peer(q)]
             /\ u.base \notin Knew(Peer(q))' => u.oneTimeId \in oneTime'[Peer(q)]
  <2>1. PICK r : r = Peer(q) /\ r \in Parties /\ r # q /\ Peer(r) = q
    BY <1>3
  <2>2. CASE u \in In(archive[q])
    <3>1. u.oneTimeId \notin server[r] /\ (u.base \notin Knew(r) => u.oneTimeId \in oneTime[r])
      BY <1>5, <2>1, <2>2 DEF Unspent
    <3>2. ASSUME u.base \notin Knew(r)', u.oneTimeId \notin oneTime'[r]  PROVE FALSE
      <4>1. u.oneTimeId \in oneTime[r] \ oneTime'[r] /\ u.oneTimeId # NoKey
        BY <1>1, <1>5, <2>1, <3>1, <3>2 DEF Names
      <4>2. PICK m \in N : r = p /\ Offers(m) /\ m.to = p /\ m.oneTimeId = u.oneTimeId /\ m.base \in Knew(p)'
        BY <2>1, <4>1
      <4>3. u.base = m.base
        BY <1>5, <2>1, <2>2, <4>2 DEF Unspent
      <4>. QED
        BY <3>2, <4>2, <4>3
    <3>. QED
      BY <2>1, <3>1, <3>2
  <2>3. CASE q = p /\ u \in come
    <3>1. CASE \E d \in gone \cap In(archive[p]) : Names(d) /\ u.base = d.base /\ u.oneTimeId = d.oneTimeId
      <4>1. u.oneTimeId \notin server[r] /\ (u.base \notin Knew(r) => u.oneTimeId \in oneTime[r])
        BY <2>1, <2>3, <3>1 DEF Unspent
      <4>. QED
        BY <1>1, <1>5, <2>1, <2>3, <4>1 DEF Names
    <3>2. CASE u.oneTimeId \in server[Peer(p)] \ server'[Peer(p)]
      <4>1. u.oneTimeId \in oneTime[r]
        BY <1>5, <2>1, <2>3, <3>2 DEF Unspent, Names
      <4>. QED
        BY <1>5, <2>1, <2>3, <3>2, <4>1 DEF Names
    <3>. QED
      BY <1>5, <2>3, <3>1, <3>2 DEF NamesAs
  <2>. QED
    BY <1>2, <2>2, <2>3
<1>6. ASSUME NEW m \in N, Offers(m)
      PROVE  /\ m.oneTimeId \notin server'[m.to]
             /\ m.base \notin Knew(m.to)' => m.oneTimeId \in oneTime'[m.to]
  <2>1. m.oneTimeId \notin server[m.to] /\ (m.base \notin Knew(m.to) => m.oneTimeId \in oneTime[m.to])
    BY <1>6 DEF Unspent
  <2>2. ASSUME m.base \notin Knew(m.to)', m.oneTimeId \notin oneTime'[m.to]  PROVE FALSE
    <3>1. m.oneTimeId \in oneTime[m.to] \ oneTime'[m.to] /\ m.oneTimeId # NoKey
      BY <1>1, <1>4, <1>6, <2>1, <2>2 DEF Offers
    <3>2. PICK n \in N : m.to = p /\ Offers(n) /\ n.to = p /\ n.oneTimeId = m.oneTimeId /\ n.base \in Knew(p)'
      BY <1>4, <3>1
    <3>3. n.base = m.base
      BY <1>6, <3>2 DEF Unspent
    <3>. QED
      BY <2>2, <3>2, <3>3
  <2>. QED
    BY <1>4, <2>1, <2>2
<1>7. ASSUME NEW m \in N, Offers(m), NEW u \in In(archive'[Peer(m.to)]), Names(u), u.oneTimeId = m.oneTimeId
      PROVE  u.base = m.base
  <2>1. Peer(m.to) \in Parties /\ Peer(Peer(m.to)) = m.to
    BY <1>3, <1>4
  <2>2. CASE u \in In(archive[Peer(m.to)])
    BY <1>7, <2>2 DEF Unspent
  <2>3. CASE Peer(m.to) = p /\ u \in come
    <3>1. m.oneTimeId \notin server[Peer(p)]
      BY <1>7, <2>1, <2>3 DEF Unspent
    <3>2. PICK d \in gone \cap In(archive[p]) : Names(d) /\ u.base = d.base /\ u.oneTimeId = d.oneTimeId
      BY <1>7, <2>3, <3>1 DEF NamesAs
    <3>3. d \in In(archive[Peer(m.to)]) /\ Names(d) /\ d.oneTimeId = m.oneTimeId
      BY <1>7, <2>3, <3>2
    <3>4. d.base = m.base
      BY <1>7, <3>3 DEF Unspent
    <3>. QED
      BY <3>2, <3>4
  <2>. QED
    BY <1>2, <2>1, <2>2, <2>3
<1>8. ASSUME NEW q \in Parties, NEW u \in In(archive'[q]), NEW v \in In(archive'[q]),
             Names(u), Names(v), u.oneTimeId = v.oneTimeId
      PROVE  u = v
  <2>1. ASSUME NEW x \in come, NEW y \in In(archive[p]), y \notin gone, Names(x), Names(y),
               x.oneTimeId = y.oneTimeId
        PROVE  FALSE
    <3>1. y.oneTimeId \notin server[Peer(p)]
      BY <2>1 DEF Unspent
    <3>2. PICK d \in gone \cap In(archive[p]) : Names(d) /\ x.oneTimeId = d.oneTimeId
      BY <2>1, <3>1 DEF NamesAs
    <3>3. d = y
      BY <2>1, <3>2 DEF Unspent
    <3>. QED
      BY <2>1, <3>2, <3>3
  <2>2. CASE u \in In(archive[q]) /\ v \in In(archive[q])
    BY <1>8, <2>2 DEF Unspent
  <2>3. CASE u \in come /\ v \in come
    BY <2>3 DEF Renews
  <2>. QED
    BY <1>2, <1>8, <2>1, <2>2, <2>3
<1>. QED
  BY <1>5, <1>6, <1>7, <1>8 DEF Unspent

LEMMA SealUnspent ==
  ASSUME SealInv, NEW N, N = network, Unspent(N), NEW p \in Parties, NEW s \in In(archive[p]),
         NEW t, t = [s EXCEPT !.sending.index = @ + 1], Comes(p, s, t), s.pending # "stale",
         made' = made, oneTime' = oneTime, server' = server, NEW m, m = Sealing(p, s)
  PROVE  Unspent(N \cup {m})'
<1>0. TypeOK /\ StatesOk /\ Answered
  BY DEF SealInv
<1>1. /\ Renews(p, {s}, {t}) /\ t.base = s.base /\ t.pending = s.pending /\ t.oneTimeId = s.oneTimeId
      /\ t \in In(archive'[p])
  BY <1>0, SealRenews DEF Comes
<1>2. Unspent(N)'
  <2>1. PICK gone, come : gone = {s} /\ come = {t}
    OBVIOUS
  <2>2. Renews(p, gone, come) /\ \A u \in come : NamesAs(p, gone, u)
    BY <1>1, <2>1 DEF NamesAs, Names
  <2>3. \A q \in Parties : server'[q] \subseteq server[q] /\ server'[q] \subseteq oneTime'[q] \cup {NoKey}
    BY DEF Unspent
  <2>4. \A q \in Parties : \A id \in oneTime[q] \ oneTime'[q] : id # NoKey =>
           q = p /\ \E n \in N : Offers(n) /\ n.to = p /\ n.oneTimeId = id /\ n.base \in Knew(p)'
    OBVIOUS
  <2>. QED
    BY <1>0, <2>2, <2>3, <2>4, UnspentKeep
<1>3. s \in StateSet
  BY <1>0, InHas
<1>4. /\ m.to = Peer(p) /\ m.base = s.base /\ m.oneTimeId = s.oneTimeId
      /\ m.kind = IF s.pending = "waiting" THEN "first" ELSE "whisper"
  BY <1>0, <1>3, SealingTyped
<1>5. Peer(p) \in Parties /\ Peer(m.to) = p
  BY <1>4, PeerIs
<1>6. Offers(m) => Names(t) /\ Names(s)
  BY <1>1, <1>4 DEF Offers, Names
<1>7. ASSUME Offers(m)
      PROVE  /\ m.oneTimeId \notin server'[m.to]
             /\ m.base \notin Knew(m.to)' => m.oneTimeId \in oneTime'[m.to]
             /\ \A u \in In(archive'[p]) : Names(u) /\ u.oneTimeId = m.oneTimeId => u.base = m.base
             /\ \A n \in N : Offers(n) /\ n.to = m.to /\ n.oneTimeId = m.oneTimeId => n.base = m.base
  <2>1. /\ m.oneTimeId \notin server'[m.to]
        /\ m.base \notin Knew(m.to)' => m.oneTimeId \in oneTime'[m.to]
    <3>1. \A u \in In(archive'[p]) : Names(u) =>
            /\ u.oneTimeId \notin server'[Peer(p)]
            /\ u.base \notin Knew(Peer(p))' => u.oneTimeId \in oneTime'[Peer(p)]
      BY <1>2 DEF Unspent
    <3>2. Names(t) /\ t \in In(archive'[p])
      BY <1>1, <1>6, <1>7
    <3>3. /\ t.oneTimeId \notin server'[Peer(p)]
          /\ t.base \notin Knew(Peer(p))' => t.oneTimeId \in oneTime'[Peer(p)]
      BY <3>1, <3>2
    <3>4. m.to = Peer(p) /\ m.base = t.base /\ m.oneTimeId = t.oneTimeId
      BY <1>1, <1>4
    <3>. QED
      BY <3>3, <3>4
  <2>2. ASSUME NEW u \in In(archive'[p]), Names(u), u.oneTimeId = m.oneTimeId  PROVE u.base = m.base
    <3>1. Names(t) /\ u.oneTimeId = t.oneTimeId /\ t \in In(archive'[p])
      BY <1>1, <1>4, <1>6, <1>7, <2>2
    <3>2. \A v, w \in In(archive'[p]) : Names(v) /\ Names(w) /\ v.oneTimeId = w.oneTimeId => v = w
      BY <1>2 DEF Unspent
    <3>3. u = t
      BY <2>2, <3>1, <3>2
    <3>. QED
      BY <1>1, <1>4, <3>3
  <2>3. \A n \in N : Offers(n) /\ n.to = m.to /\ n.oneTimeId = m.oneTimeId => n.base = m.base
    BY <1>4, <1>5, <1>6, <1>7 DEF Unspent
  <2>. QED
    BY <2>1, <2>2, <2>3
<1>. QED
  BY <1>2, <1>5, <1>7 DEF Unspent

LEMMA UnspentOpen ==
  ASSUME SealInv, HeldInv, NEW N, N = network, Unspent(N), NEW p \in Parties, NEW m \in N, Opens(p, m)
  PROVE  Unspent(N)'
<1>1. TypeOK /\ StatesOk /\ MessagesOk /\ PreKeysOf(network)
  BY DEF SealInv, HeldInv
<1>2. PICK d \in StateSet, s \in StateSet : OpensIn(p, m, d, s)
  BY DEF Opens
<1>3. m.to = p /\ server' = server /\ m \in network
  BY DEF Opens
<1>4. Renews(p, {d}, {s}) /\ s.pending = "none" /\ s.base = m.base
  <2>1. TypeOK /\ StatesOk /\ MessagesOk /\ m \in network /\ m.to = p
    BY <1>1, <1>3
  <2>2. Renews(p, {d}, {s})
    BY <1>2, <2>1, OpenRenews
  <2>3. s.pending = "none"
    BY <1>2 DEF OpensIn, OpensOn, TurnsTo
  <2>4. d.base = m.base
    BY <1>2 DEF OpensIn
  <2>5. s.base = d.base
    BY <1>2 DEF OpensIn, OpensOn, TurnsTo
  <2>. QED
    BY <2>2, <2>3, <2>4, <2>5
<1>5. Finds(p, m, d) /\ s \in In(archive'[p])
      /\ oneTime' = IF d \in In(archive[p]) THEN oneTime ELSE [oneTime EXCEPT ![p] = @ \ {m.oneTimeId}]
  BY <1>2 DEF OpensIn, Comes
<1>6. m.base \in Knew(p)'
  <2>1. Changes(p)
    BY <1>4 DEF Renews
  <2>2. m.base \in Bases(archive'[p])
    BY <1>1, <1>4, <1>5, <2>1, BasesInNext
  <2>. QED
    BY <1>1, <2>1, <2>2, ChangesKeeps
<1>7. d \in In(archive[p]) \/ m.kind = "first"
  BY <1>5 DEF Finds
<1>8. \A q \in Parties : \A id \in oneTime[q] \ oneTime'[q] : id # NoKey =>
        q = p /\ Offers(m) /\ m.to = p /\ m.oneTimeId = id /\ m.base \in Knew(p)'
  BY <1>1, <1>3, <1>5, <1>6, <1>7 DEF Offers, TypeOK
<1>9. \A q \in Parties : server'[q] \subseteq server[q] /\ server'[q] \subseteq oneTime'[q] \cup {NoKey}
  <2>1. \A q \in Parties : server[q] \subseteq oneTime[q] \cup {NoKey}
    BY DEF Unspent
  <2>2. Offers(m) => m.oneTimeId \notin server[p]
    BY <1>3 DEF Unspent
  <2>. QED
    BY <1>3, <1>8, <2>1, <2>2
<1>10. PICK gone, come : gone = {d} /\ come = {s}
  OBVIOUS
<1>11. Renews(p, gone, come) /\ \A u \in come : NamesAs(p, gone, u)
  BY <1>4, <1>10 DEF NamesAs, Names
<1>12. \A q \in Parties : \A id \in oneTime[q] \ oneTime'[q] : id # NoKey =>
         q = p /\ \E n \in N : Offers(n) /\ n.to = p /\ n.oneTimeId = id /\ n.base \in Knew(p)'
  BY <1>8
<1>. QED
  BY <1>1, <1>9, <1>11, <1>12, UnspentKeep

\* Steps that open nothing and seal nothing.
LEMMA UnspentStep ==
  ASSUME SealInv, NEW N, N = network, Unspent(N), NEW p \in Parties, NEW gone, NEW come,
         Renews(p, gone, come), oneTime' = oneTime, \A q \in Parties : server'[q] \subseteq server[q],
         \A s \in come : NamesAs(p, gone, s)
  PROVE  Unspent(N)'
<1>1. TypeOK
  BY DEF SealInv
<1>2. \A q \in Parties : server'[q] \subseteq server[q] /\ server'[q] \subseteq oneTime'[q] \cup {NoKey}
  BY DEF Unspent
<1>3. \A q \in Parties : \A id \in oneTime[q] \ oneTime'[q] : id # NoKey =>
        q = p /\ \E m \in N : Offers(m) /\ m.to = p /\ m.oneTimeId = id /\ m.base \in Knew(p)'
  OBVIOUS
<1>. QED
  BY <1>1, <1>2, <1>3, UnspentKeep

LEMMA UnspentNext == SealInv /\ TellInv /\ HeldInv /\ Unspent(network) /\ [Next]_vars => Unspent(network)'
<1>. SUFFICES ASSUME SealInv, TellInv, HeldInv, Unspent(network), [Next]_vars  PROVE Unspent(network)'
  OBVIOUS
<1>0. TypeOK /\ StatesOk /\ MessagesOk /\ Answered
  BY DEF SealInv
<1>1. CASE UNCHANGED vars
  BY <1>1 DEF vars, Unspent, Knew
<1>2. CASE Next
  <2>1. PICK N : N = network
    OBVIOUS
  <2>2. Unspent(N)
    BY <2>1
  <2>3. PICK p \in Parties :
          \/ Starts(p) \/ Seals(p) \/ Ages(p) \/ Shelves(p)
          \/ \E m \in network : Opens(p, m) \/ Refuses(p, m)
    BY <1>0, <1>2, StepsAre
  <2>4. ASSUME network' = N, Unspent(N)'  PROVE Unspent(network)'
    BY <2>4 DEF Unspent
  <2>5. CASE Starts(p)
    <3>1. PICK id \in server[Peer(p)] \cup {NoKey} :
            /\ server' = [server EXCEPT ![Peer(p)] = @ \ {id}]
            /\ Changes(p) /\ Opening(p, id) \in In(archive'[p])
            /\ In(archive'[p]) \subseteq In(archive[p]) \cup {Opening(p, id)}
            /\ made' = [made EXCEPT ![p] = @ + 2]
            /\ oneTime' = oneTime /\ network' = network
      BY <2>5 DEF Starts
    <3>2. PICK s, come : s = Opening(p, id) /\ come = {s}
      OBVIOUS
    <3>3. id \in Ids /\ Peer(p) \in Parties
      BY <1>0, <3>1, PeerIs DEF TypeOK, Ids
    <3>4. s.oneTimeId = id
      BY <1>0, <3>2, <3>3, OpeningIs
    <3>5. Renews(p, {}, {s})
      BY <1>0, <3>1, <3>2, OpeningRenews
    <3>6. \A q \in Parties : server'[q] \subseteq server[q]
      BY <1>0, <3>1, <3>3 DEF TypeOK
    <3>7. NamesAs(p, {}, s)
      <4>1. id \notin server'[Peer(p)]
        BY <1>0, <3>1, <3>3 DEF TypeOK
      <4>. QED
        BY <3>1, <3>4, <4>1 DEF NamesAs, Names
    <3>8. PICK gone : gone = {}
      OBVIOUS
    <3>9. Renews(p, gone, come) /\ \A u \in come : NamesAs(p, gone, u)
      BY <3>2, <3>5, <3>7, <3>8
    <3>10. Unspent(N)'
      BY <2>1, <2>2, <3>1, <3>6, <3>9, UnspentStep
    <3>. QED
      BY <2>1, <2>4, <3>1, <3>10
  <2>6. CASE Seals(p)
    <3>1. PICK s \in In(archive[p]) :
            /\ Comes(p, s, [s EXCEPT !.sending.index = @ + 1]) /\ s.pending # "stale"
            /\ network' = network \cup {Sealing(p, s)}
            /\ made' = made /\ oneTime' = oneTime /\ server' = server
      BY <2>6 DEF Seals
    <3>2. PICK t, m : t = [s EXCEPT !.sending.index = @ + 1] /\ m = Sealing(p, s)
      OBVIOUS
    <3>3. Unspent(N \cup {m})'
      BY <2>1, <2>2, <3>1, <3>2, SealUnspent
    <3>4. network' = N \cup {m}
      BY <2>1, <3>1, <3>2
    <3>. QED
      BY <3>3, <3>4 DEF Unspent
  <2>7. CASE Ages(p)
    <3>1. PICK s \in In(archive[p]) :
            /\ Comes(p, s, [s EXCEPT !.pending = "stale"]) /\ s.pending = "waiting"
            /\ UNCHANGED <<made, oneTime, server, network>>
      BY <2>7 DEF Ages
    <3>2. PICK t, gone, come : t = [s EXCEPT !.pending = "stale"] /\ gone = {s} /\ come = {t}
      OBVIOUS
    <3>3. Renews(p, gone, come) /\ t.base = s.base /\ t.oneTimeId = s.oneTimeId
      BY <1>0, <3>1, <3>2, AgeRenews
    <3>4. \A u \in come : NamesAs(p, gone, u)
      BY <3>1, <3>2, <3>3 DEF NamesAs, Names
    <3>5. Unspent(N)'
      BY <2>1, <2>2, <3>1, <3>3, <3>4, UnspentStep
    <3>. QED
      BY <2>1, <2>4, <3>1, <3>5
  <2>8. CASE Shelves(p)
    <3>1. Renews(p, {}, {}) /\ UNCHANGED <<network, oneTime, server>>
      BY <1>0, <2>8, ShelveRenews DEF Shelves
    <3>2. PICK gone, come : gone = {} /\ come = {}
      OBVIOUS
    <3>3. Renews(p, gone, come) /\ \A u \in come : NamesAs(p, gone, u)
      BY <3>1, <3>2
    <3>4. Unspent(N)'
      BY <2>1, <2>2, <3>1, <3>3, UnspentStep
    <3>. QED
      BY <2>1, <2>4, <3>1, <3>4
  <2>9. ASSUME NEW m \in network, Opens(p, m)  PROVE Unspent(network)'
    <3>1. Unspent(N)'
      BY <2>1, <2>2, <2>9, UnspentOpen
    <3>2. network' = network
      BY <2>9 DEF Opens
    <3>. QED
      BY <2>1, <2>4, <3>1, <3>2
  <2>10. ASSUME NEW m \in network, Refuses(p, m)  PROVE Unspent(network)'
    <3>1. UNCHANGED <<archive, oneTime, server, network, forgot>>
      BY <2>10 DEF Refuses
    <3>. QED
      BY <3>1 DEF Unspent, Knew
  <2>. QED
    BY <2>3, <2>5, <2>6, <2>7, <2>8, <2>9, <2>10
<1>. QED
  BY <1>1, <1>2

LEMMA UnspentInit == Init => Unspent(network)
<1>. SUFFICES ASSUME Init  PROVE Unspent(network)
  OBVIOUS
<1>1. EmptyArchive \in Archives /\ Len(EmptyArchive.live) = 0 /\ Len(EmptyArchive.previous) = 0
  BY EmptySeq DEF EmptyArchive, Archives
<1>2. In(EmptyArchive) = {}
  BY <1>1, ShelfOnly DEF In
<1>3. network = {} /\ \A p \in Parties : In(archive[p]) = {} /\ server[p] = oneTime[p]
  BY <1>2 DEF Init
<1>. QED
  BY <1>3 DEF Unspent

-----------------------------------------------------------------------------
(* Two devices' states for one base, as long as neither device forgot it. *)

Kept(base) == base \notin forgot[Alice] \cup forgot[Bob]

\* y has followed x's sending ratchet key, and x has not yet followed y's.
Ahead(y, x) ==
  /\ y.root = Append(x.root, {y.sending.ratchet, x.sending.ratchet})
  /\ Len(y.receiving) \in Nat \ {0}
  /\ y.receiving[Len(y.receiving)].path = x.root
  /\ y.receiving[Len(y.receiving)].ratchet = x.sending.ratchet

\* A session as start made it, nothing received in it.
Begun(p, s) == s.root = <<{s.base}, {s.sending.ratchet, SignedPreKey(Peer(p))}>>

PairOk(p, s) ==
  /\ \A x \in In(archive[Peer(p)]) : x.base = s.base => Ahead(s, x) \/ Ahead(x, s)
  /\ s.base \notin Bases(archive[Peer(p)]) => Begun(p, s)

Paired == \A p \in Parties : \A s \in In(archive[p]) : Kept(s.base) => PairOk(p, s)

\* Where a message stands to its sender's state: of its chain, or of an older one.
Sent(x, m) == (m.path = x.root /\ m.ratchet = x.sending.ratchet) \/ Len(m.path) < Len(x.root)

AllSent(N) ==
  \A m \in N : Kept(m.base) => \A x \in In(archive[Peer(m.to)]) : x.base = m.base => Sent(x, m)

\* A message's chain is one its reader has, or dropped, or is the sender's newest.
Covered(m) ==
  \/ m.path \in lanesGone[m.to] \/ m.path \in Paths(archive[m.to])
  \/ \E x \in In(archive[Peer(m.to)]) : x.base = m.base /\ x.root = m.path

AllCovered(N) == \A m \in N : Kept(m.base) => Covered(m)

\* s stands for d in every pair.
Twin(d, s) ==
  /\ s.base = d.base /\ s.root = d.root /\ s.sending.ratchet = d.sending.ratchet
  /\ Len(s.receiving) = Len(d.receiving)
  /\ \A i \in 1..Len(d.receiving) :
       s.receiving[i].path = d.receiving[i].path /\ s.receiving[i].ratchet = d.receiving[i].ratchet

\* What a state that comes is: one that stands for the one it replaces, a session
\* begun, or one that has turned to a message.
Turned(p, gone, s) ==
  \E m \in network, d \in gone :
    m.to = p /\ Finds(p, m, d) /\ d.base = m.base /\ s \in StateSet /\ TurnsTo(d, s, m, Fresh(p))
ComesAs(p, gone, s) ==
  \/ \E d \in gone \cap In(archive[p]) : Twin(d, s)
  \/ ~ Drawn(s.base) /\ Begun(p, s)
  \/ Turned(p, gone, s)

LEMMA KeptIs ==
  ASSUME NEW p \in Parties, NEW base
  PROVE  /\ Kept(base) <=> base \notin forgot[p] /\ base \notin forgot[Peer(p)]
         /\ Kept(base)' <=> base \notin forgot'[p] /\ base \notin forgot'[Peer(p)]
<1>1. p = Alice \/ p = Bob
  BY DEF Parties
<1>. QED
  BY <1>1, SessionAssumption DEF Kept, Peer

LEMMA StillKept ==
  ASSUME TypeOK, NEW p \in Parties, Changes(p), NEW base, Kept(base)'
  PROVE  /\ Kept(base)
         /\ \A q \in Parties : base \in Knew(q) =>
              /\ \E s \in In(archive[q]) : s.base = base
              /\ \E s \in In(archive'[q]) : s.base = base
<1>1. \A q \in Parties : Knew(q) \subseteq Knew(q)'
  BY ChangesKeeps
<1>2. \A q \in Parties : forgot[q] \subseteq forgot'[q]
  BY DEF Changes, TypeOK
<1>3. \A q \in Parties : base \notin forgot'[q]
  BY KeptIs
<1>4. Kept(base)
  BY <1>2, <1>3, PeerIs, KeptIs
<1>5. ASSUME NEW q \in Parties, base \in Knew(q)
      PROVE  base \in Bases(archive[q]) /\ base \in Bases(archive'[q])
  <2>1. base \in Knew(q)'
    BY <1>1, <1>5
  <2>2. base \in Bases(archive'[q])
    BY <1>3, <2>1 DEF Knew
  <2>. QED
    BY <1>2, <1>3, <1>5, <2>2 DEF Knew
<1>6. \A q \in Parties : Bases(archive[q]) = {s.base : s \in In(archive[q])}
                         /\ Bases(archive'[q]) = {s.base : s \in In(archive'[q])}
  BY BasesIn, BasesInNext
<1>7. ASSUME NEW q \in Parties, base \in Knew(q)
      PROVE  /\ \E s \in In(archive[q]) : s.base = base
             /\ \E s \in In(archive'[q]) : s.base = base
  BY <1>5, <1>6, <1>7
<1>. QED
  BY <1>4, <1>7

LEMMA InKnown ==
  ASSUME TypeOK, NEW q \in Parties, NEW s \in In(archive[q])
  PROVE  s.base \in Knew(q)
BY InHas DEF Knew

\* One state is half a turn ahead of the other.
LEMMA AheadIs ==
  ASSUME NEW p \in Parties, NEW q \in Parties, NEW x, NEW y, Shape(p, x), Shape(q, y), Ahead(y, x)
  PROVE  Len(x.root) \in Nat /\ Len(y.root) = Len(x.root) + 1 /\ IsPrefix(x.root, y.root)
<1>1. PICK r, e : r = x.root /\ e = {y.sending.ratchet, x.sending.ratchet}
  OBVIOUS
<1>2. r \in AllPaths /\ e \in SUBSET KeyPairs /\ y.root = Append(r, e)
  <2>1. x \in StateSet /\ y \in StateSet
    BY DEF Shape
  <2>2. x.sending.ratchet \in KeyPairs /\ y.sending.ratchet \in KeyPairs
    BY <2>1 DEF StateSet, Sendings
  <2>. QED
    BY <1>1, <2>1, <2>2 DEF StateSet, Ahead
<1>3. Len(r) \in Nat /\ Len(Append(r, e)) = Len(r) + 1
  BY <1>2, AppendProperties, LenProperties DEF AllPaths
<1>4. SubSeq(Append(r, e), 1, Len(r)) = SubSeq(r, 1, Len(r))
  BY <1>2, <1>3 DEF AllPaths
<1>. QED
  BY <1>1, <1>2, <1>3, <1>4 DEF IsPrefix

LEMMA TwinAhead ==
  ASSUME NEW d, NEW s, NEW x, Twin(d, s)
  PROVE  (Ahead(d, x) => Ahead(s, x)) /\ (Ahead(x, d) => Ahead(x, s))
<1>1. ASSUME Ahead(d, x)  PROVE Ahead(s, x)
  <2>1. PICK n : n = Len(d.receiving)
    OBVIOUS
  <2>2. n \in 1..n /\ n = Len(s.receiving)
    BY <1>1, <2>1 DEF Ahead, Twin
  <2>. QED
    BY <1>1, <2>1, <2>2 DEF Ahead, Twin
<1>2. ASSUME Ahead(x, d)  PROVE Ahead(x, s)
  BY <1>2 DEF Ahead, Twin
<1>. QED
  BY <1>1, <1>2

\* A state that has turned to a message is ahead of its sender's.
LEMMA TurnAhead ==
  ASSUME NEW m \in MessageSet, NEW d, NEW s, NEW fresh, TurnsTo(d, s, m, fresh),
         NEW x, m.path = x.root, m.ratchet = x.sending.ratchet
  PROVE  Ahead(s, x)
<1>1. Lane(m.ratchet, m.path) \in Lanes /\ Lane(m.ratchet, m.path).skipped = {}
      /\ Lane(m.ratchet, m.path).ratchet = m.ratchet /\ Lane(m.ratchet, m.path).path = m.path
  BY DEF Lane, Lanes, MessageSet
<1>2. PICK lane : lane = Taken(Lane(m.ratchet, m.path), m)
  OBVIOUS
<1>3. lane.ratchet = m.ratchet /\ lane.path = m.path
  BY <1>1, <1>2, TakenBehind
<1>4. Len(s.receiving) \in Nat \ {0} /\ s.receiving[Len(s.receiving)] = lane
  BY <1>2 DEF TurnsTo, Adds
<1>5. s.root = Append(x.root, {s.sending.ratchet, x.sending.ratchet})
  <2>1. s.root = Append(m.path, {fresh, m.ratchet}) /\ s.sending.ratchet = fresh
    BY DEF TurnsTo
  <2>. QED
    BY <2>1
<1>. QED
  BY <1>3, <1>4, <1>5 DEF Ahead

\* The base of a state a device holds was drawn.
LEMMA BaseOfDrawn ==
  ASSUME TypeOK, StatesOk, NEW q \in Parties, NEW x \in In(archive[q])
  PROVE  Drawn(x.base)
<1>1. Shape(q, x) /\ DrawnPath(x.root)
  BY DEF StatesOk, DrawnState
<1>2. 1 \in 1..Len(x.root) /\ x.base \in x.root[1]
  BY <1>1 DEF Shape
<1>. QED
  BY <1>1, <1>2 DEF DrawnPath

\* The state a device turns is half a turn behind its peer's, and the message is of
\* the peer's newest chain.
LEMMA TurnMeets ==
  ASSUME TypeOK, StatesOk, MessagesOk, Paired, AllSent(network), NEW p \in Parties,
         NEW m \in network, m.to = p, NEW d, Finds(p, m, d), d.base = m.base,
         NEW s, NEW fresh, TurnsTo(d, s, m, fresh), NEW x \in In(archive[Peer(p)]), x.base = m.base,
         Kept(m.base)
  PROVE  /\ m.path = x.root /\ m.ratchet = x.sending.ratchet
         /\ d \in In(archive[p]) => Ahead(x, d)
<1>1. /\ Peer(p) \in Parties /\ Peer(Peer(p)) = p
      /\ Shape(p, d) /\ Shape(Peer(p), x) /\ m \in MessageSet
  BY FoundIs, PeerIs DEF StatesOk, TypeOK
<1>2. Sent(x, m)
  BY <1>1 DEF AllSent
<1>3. PICK r, e : r = d.root /\ e = {d.sending.ratchet, m.ratchet}
  OBVIOUS
<1>4. m.path = Append(r, e) /\ r \in AllPaths
  BY <1>1, <1>3 DEF TurnsTo, Shape, StateSet
<1>5. e \in SUBSET KeyPairs
  <2>1. d \in StateSet
    BY <1>1 DEF Shape
  <2>2. d.sending.ratchet \in KeyPairs /\ m.ratchet \in KeyPairs
    BY <1>1, <2>1 DEF StateSet, Sendings, MessageSet
  <2>. QED
    BY <1>3, <2>2
<1>6. Len(r) \in Nat /\ Len(m.path) = Len(r) + 1
  BY <1>4, <1>5, AppendProperties, LenProperties DEF AllPaths
<1>7. CASE d \in In(archive[p])
  <2>1. Ahead(d, x) \/ Ahead(x, d)
    BY <1>1, <1>7 DEF Paired, PairOk
  <2>2. ASSUME Ahead(d, x)  PROVE FALSE
    <3>1. Len(x.root) \in Nat /\ Len(r) = Len(x.root) + 1
      BY <1>1, <1>3, <2>2, AheadIs
    <3>2. m.path = x.root \/ Len(m.path) < Len(x.root)
      BY <1>2 DEF Sent
    <3>3. Len(m.path) = Len(x.root) \/ Len(m.path) < Len(x.root)
      BY <3>2
    <3>. QED
      BY <1>6, <3>1, <3>3
  <2>3. Ahead(x, d)
    BY <2>1, <2>2
  <2>4. Len(x.root) = Len(m.path)
    BY <1>1, <1>3, <1>6, <2>3, AheadIs
  <2>5. ~ (Len(m.path) < Len(x.root))
    BY <1>6, <2>4
  <2>. QED
    BY <1>2, <2>3, <2>5 DEF Sent
<1>8. CASE d \notin In(archive[p])
  <2>1. d = ResponderState(m.base, SignedPreKey(p)) /\ m.base \notin Bases(archive[p])
    BY <1>8 DEF Finds
  <2>2. Begun(Peer(p), x)
    BY <1>1, <2>1 DEF Paired, PairOk
  <2>3. PICK f : f = {x.sending.ratchet, SignedPreKey(Peer(Peer(p)))}
    OBVIOUS
  <2>4. Len(x.root) = 2
    BY <2>2, <2>3 DEF Begun
  <2>5. Len(r) = 1
    <3>1. m.base \in KeyPairs
      BY <1>1 DEF MessageSet
    <3>. QED
      BY <1>3, <2>1, <3>1, ResponderShape
  <2>6. ~ (Len(m.path) < Len(x.root))
    BY <1>6, <2>4, <2>5
  <2>. QED
    BY <1>2, <1>8, <2>6 DEF Sent
<1>. QED
  BY <1>7, <1>8

\* A state that comes pairs with the peer's.
LEMMA ComesPaired ==
  ASSUME SealInv, Paired, AllSent(network), NEW p \in Parties, NEW gone, NEW come,
         Renews(p, gone, come), NEW s \in come, ComesAs(p, gone, s), Kept(s.base)'
  PROVE  PairOk(p, s)
<1>0. TypeOK /\ StatesOk /\ MessagesOk
  BY DEF SealInv
<1>1. Changes(p) /\ Kept(s.base)
  BY <1>0, StillKept DEF Renews
<1>2. Peer(p) \in Parties /\ Peer(Peer(p)) = p
  BY PeerIs
<1>3. CASE \E d \in gone \cap In(archive[p]) : Twin(d, s)
  <2>1. PICK d \in gone \cap In(archive[p]) : Twin(d, s)
    BY <1>3
  <2>2. s.base = d.base /\ s.root = d.root /\ s.sending.ratchet = d.sending.ratchet
    BY <2>1 DEF Twin
  <2>3. PairOk(p, d)
    BY <1>1, <2>1, <2>2 DEF Paired
  <2>4. Begun(p, d) => Begun(p, s)
    BY <2>2 DEF Begun
  <2>5. \A x : Ahead(d, x) \/ Ahead(x, d) => Ahead(s, x) \/ Ahead(x, s)
    BY <2>1, TwinAhead
  <2>. QED
    BY <2>2, <2>3, <2>4, <2>5 DEF PairOk
<1>4. CASE ~ Drawn(s.base) /\ Begun(p, s)
  <2>1. ASSUME NEW x \in In(archive[Peer(p)]), x.base = s.base  PROVE FALSE
    <3>1. Drawn(x.base)
      BY <1>0, <1>2, BaseOfDrawn
    <3>. QED
      BY <1>4, <2>1, <3>1
  <2>. QED
    BY <1>4, <2>1 DEF PairOk
<1>5. CASE Turned(p, gone, s)
  <2>1. PICK m \in network, d \in gone :
          m.to = p /\ Finds(p, m, d) /\ d.base = m.base /\ s \in StateSet /\ TurnsTo(d, s, m, Fresh(p))
    BY <1>5 DEF Turned
  <2>2. m \in MessageSet /\ m.base \in Knew(Peer(p)) /\ s.base = m.base
    BY <1>0, <2>1 DEF TypeOK, MessagesOk, MessageOk, TurnsTo
  <2>3. PICK fresh : fresh = Fresh(p)
    OBVIOUS
  <2>4. TurnsTo(d, s, m, fresh)
    BY <2>1, <2>3
  <2>5. ASSUME NEW x \in In(archive[Peer(p)]), x.base = s.base  PROVE Ahead(s, x)
    <3>1. m.path = x.root /\ m.ratchet = x.sending.ratchet
      BY <1>0, <1>1, <2>1, <2>2, <2>4, <2>5, TurnMeets
    <3>. QED
      BY <2>2, <2>4, <3>1, TurnAhead
  <2>6. s.base \in Bases(archive[Peer(p)])
    <3>1. \E x \in In(archive[Peer(p)]) : x.base = s.base
      BY <1>0, <1>1, <1>2, <2>2, StillKept
    <3>. QED
      BY <1>0, <1>2, <3>1, BasesIn
  <2>. QED
    BY <2>5, <2>6 DEF PairOk
<1>. QED
  BY <1>3, <1>4, <1>5 DEF ComesAs

LEMMA PairedKeep ==
  ASSUME SealInv, Paired, AllSent(network), NEW p \in Parties, NEW gone, NEW come,
         Renews(p, gone, come), \A s \in come : ComesAs(p, gone, s)
  PROVE  Paired'
<1>0. TypeOK
  BY DEF SealInv
<1>1. Changes(p) /\ \A q \in Parties : q # p => archive'[q] = archive[q]
  BY <1>0, ChangesKeeps DEF Renews
<1>2. PICK q : q = Peer(p) /\ q \in Parties /\ q # p /\ Peer(q) = p /\ Parties = {p, q}
  BY PeerIs
<1>3. \A r \in Parties : \A s \in In(archive'[r]) :
        s \in In(archive[r]) \/ (r = p /\ s \in come)
  BY <1>1 DEF Renews
<1>4. \A s \in come : Kept(s.base)' => PairOk(p, s)
  BY ComesPaired
<1>5. ASSUME NEW s \in In(archive'[p]), Kept(s.base)'
      PROVE  PairOk(p, s) /\ PairOk(p, s)'
  <2>1. PairOk(p, s)
    <3>1. Kept(s.base)
      BY <1>0, <1>1, <1>5, StillKept
    <3>. QED
      BY <1>3, <1>4, <1>5, <3>1 DEF Paired
  <2>. QED
    BY <1>1, <1>2, <2>1 DEF PairOk
<1>6. ASSUME NEW s \in In(archive'[q]), Kept(s.base)'
      PROVE  PairOk(q, s)'
  <2>1. s \in In(archive[q]) /\ Kept(s.base)
    BY <1>0, <1>1, <1>2, <1>6, StillKept
  <2>2. PairOk(q, s)
    BY <1>2, <2>1 DEF Paired
  <2>3. ASSUME NEW x \in In(archive'[p]), x.base = s.base  PROVE Ahead(s, x) \/ Ahead(x, s)
    <3>1. PairOk(p, x)
      BY <1>5, <1>6, <2>3
    <3>. QED
      BY <1>2, <2>1, <2>3, <3>1 DEF PairOk
  <2>4. ASSUME s.base \notin Bases(archive'[p])  PROVE Begun(q, s)
    <3>1. s.base \notin Knew(p)
      <4>1. SUFFICES ASSUME s.base \in Knew(p)  PROVE FALSE
        OBVIOUS
      <4>2. \E t \in In(archive'[p]) : t.base = s.base
        BY <1>0, <1>1, <1>6, <4>1, StillKept
      <4>. QED
        BY <1>0, <1>1, <2>4, <4>2, BasesInNext
    <3>2. s.base \notin Bases(archive[p])
      BY <3>1 DEF Knew
    <3>. QED
      BY <1>2, <2>2, <3>2 DEF PairOk
  <2>. QED
    BY <1>2, <2>3, <2>4 DEF PairOk, Begun
<1>. QED
  BY <1>2, <1>5, <1>6 DEF Paired

LEMMA SentKeep ==
  ASSUME SealInv, NEW N, N = network, AllSent(N), NEW p \in Parties, NEW gone, NEW come,
         Renews(p, gone, come), \A s \in come : ComesAs(p, gone, s)
  PROVE  AllSent(N)'
<1>0. TypeOK /\ StatesOk /\ MessagesOk
  BY DEF SealInv
<1>1. Changes(p) /\ \A q \in Parties : q # p => archive'[q] = archive[q]
  BY <1>0, ChangesKeeps DEF Renews
<1>2. SUFFICES ASSUME NEW m \in N, Kept(m.base)', NEW x \in In(archive'[Peer(m.to)]), x.base = m.base
               PROVE  Sent(x, m)
  BY DEF AllSent
<1>3. m \in MessageSet /\ m.to \in Parties /\ Peer(m.to) \in Parties /\ Peer(Peer(m.to)) = m.to
      /\ MessageOk(m)
  BY <1>0, PeerIs DEF TypeOK, MessageSet, MessagesOk
<1>4. Kept(m.base)
  BY <1>0, <1>1, <1>2, StillKept
<1>5. CASE x \in In(archive[Peer(m.to)])
  BY <1>2, <1>4, <1>5 DEF AllSent
<1>6. CASE Peer(m.to) = p /\ x \in come
  <2>1. CASE \E d \in gone \cap In(archive[p]) : Twin(d, x)
    <3>1. PICK d \in gone \cap In(archive[p]) : Twin(d, x)
      BY <2>1
    <3>2. d.base = m.base /\ d \in In(archive[Peer(m.to)])
      BY <1>2, <1>6, <3>1 DEF Twin
    <3>3. Sent(d, m)
      BY <1>4, <3>2 DEF AllSent
    <3>. QED
      BY <3>1, <3>3 DEF Twin, Sent
  <2>2. CASE ~ Drawn(x.base) /\ Begun(p, x)
    BY <1>0, <1>2, <1>3, <2>2, BaseDrawn
  <2>3. CASE Turned(p, gone, x)
    <3>1. PICK n \in network, d \in gone :
            n.to = p /\ Finds(p, n, d) /\ d.base = n.base /\ x \in StateSet /\ TurnsTo(d, x, n, Fresh(p))
      BY <2>3 DEF Turned
    <3>2. n.base = m.base
      BY <1>2, <3>1 DEF TurnsTo
    <3>3. PICK y \in In(archive[p]) : y.base = m.base
      <4>1. m.base \in Knew(p)
        BY <1>3, <1>6 DEF MessageOk
      <4>. QED
        BY <1>0, <1>1, <1>2, <4>1, StillKept
    <3>4. d \in In(archive[p])
      <4>1. m.base \in Bases(archive[p])
        BY <1>0, <3>3, BasesIn
      <4>. QED
        BY <3>1, <3>2, <4>1 DEF Finds
    <3>5. Sent(d, m)
      BY <1>4, <1>6, <3>1, <3>2, <3>4 DEF AllSent
    <3>6. PICK fresh : fresh = Fresh(p)
      OBVIOUS
    <3>7. fresh \in KeyPairs /\ fresh[1] = p /\ fresh[2] >= 1 /\ TurnsTo(d, x, n, fresh)
      BY <1>0, <3>1, <3>6, FreshIs
    <3>8. Shape(p, d) /\ n \in MessageSet
      BY <1>0, <3>4 DEF StatesOk, TypeOK
    <3>9. Len(x.root) = Len(d.root) + 2
      BY <3>1, <3>7, <3>8, TurnsToShape
    <3>10. Len(d.root) \in Nat /\ Len(m.path) \in Nat
      BY <1>3, <3>8, LenProperties DEF Shape, MessageSet, AllPaths
    <3>11. Len(m.path) = Len(d.root) \/ Len(m.path) < Len(d.root)
      BY <3>5 DEF Sent
    <3>12. Len(m.path) < Len(x.root)
      BY <3>9, <3>10, <3>11
    <3>. QED
      BY <3>12 DEF Sent
  <2>. QED
    BY <1>6, <2>1, <2>2, <2>3 DEF ComesAs
<1>. QED
  BY <1>1, <1>2, <1>3, <1>5, <1>6 DEF Renews

LEMMA PathsInNext ==
  ASSUME TypeOK, NEW p \in Parties, Changes(p), NEW q \in Parties, NEW path, path \in Paths(archive[q])
  PROVE  path \in lanesGone'[q] \cup Paths(archive'[q])
<1>1. CASE q = p
  BY <1>1 DEF Changes, TypeOK
<1>2. CASE q # p
  BY <1>2, ChangesKeeps
<1>. QED
  BY <1>1, <1>2

LEMMA CoverKeep ==
  ASSUME SealInv, NEW N, N = network, Paired, AllSent(N), AllCovered(N), NEW p \in Parties,
         NEW gone, NEW come, Renews(p, gone, come), \A s \in come : ComesAs(p, gone, s)
  PROVE  AllCovered(N)'
<1>0. TypeOK /\ StatesOk /\ MessagesOk /\ AllSent(network)
  BY DEF SealInv
<1>1. Changes(p) /\ \A q \in Parties : q # p => archive'[q] = archive[q]
  BY <1>0, ChangesKeeps DEF Renews
<1>2. SUFFICES ASSUME NEW m \in N, Kept(m.base)'  PROVE Covered(m)'
  BY DEF AllCovered
<1>3. m \in MessageSet /\ m.to \in Parties /\ Peer(m.to) \in Parties /\ Peer(Peer(m.to)) = m.to
  BY <1>0, PeerIs DEF TypeOK, MessageSet
<1>4. Kept(m.base)
  BY <1>0, <1>1, <1>2, StillKept
<1>5. CASE m.path \in lanesGone[m.to]
  BY <1>0, <1>1, <1>3, <1>5 DEF Covered, Changes, TypeOK
<1>6. ASSUME m.path \in Paths(archive[m.to])  PROVE Covered(m)'
  BY <1>0, <1>1, <1>3, <1>6, PathsInNext DEF Covered
<1>7. ASSUME NEW x \in In(archive[Peer(m.to)]), x.base = m.base, x.root = m.path  PROVE Covered(m)'
  <2>1. CASE Peer(m.to) # p
    BY <1>1, <1>3, <1>7, <2>1 DEF Covered
  <2>2. CASE Peer(m.to) = p
    <3>1. PICK u \in In(archive'[p]) : u.base = m.base
      <4>1. m.base \in Knew(p)
        BY <1>0, <1>7, <2>2, InKnown
      <4>. QED
        BY <1>0, <1>1, <1>2, <4>1, StillKept
    <3>2. ASSUME u.root = x.root  PROVE Covered(m)'
      BY <1>3, <1>7, <2>2, <3>1, <3>2 DEF Covered
    <3>3. \A y \in In(archive[p]) : y.base = m.base => y = x
      BY <1>0, <1>7, <2>2, OneOfABase DEF TypeOK
    <3>4. CASE u \in In(archive[p])
      BY <3>1, <3>2, <3>3, <3>4
    <3>5. CASE u \in come
      <4>1. CASE \E d \in gone \cap In(archive[p]) : Twin(d, u)
        BY <3>1, <3>2, <3>3, <4>1 DEF Twin
      <4>2. CASE ~ Drawn(u.base) /\ Begun(p, u)
        BY <1>0, <1>7, <2>2, <3>1, <4>2, BaseOfDrawn
      <4>3. CASE Turned(p, gone, u)
        <5>1. PICK n \in network, d \in gone :
                n.to = p /\ Finds(p, n, d) /\ d.base = n.base /\ u \in StateSet /\ TurnsTo(d, u, n, Fresh(p))
          BY <4>3 DEF Turned
        <5>2. n.base = m.base /\ n \in MessageSet /\ n.base \in Knew(Peer(p))
          BY <1>0, <3>1, <5>1 DEF TurnsTo, TypeOK, MessagesOk, MessageOk
        <5>3. d = x /\ d \in In(archive[p])
          <6>1. m.base \in Bases(archive[p])
            BY <1>0, <1>7, <2>2, BasesIn
          <6>2. d \in In(archive[p])
            BY <5>1, <5>2, <6>1 DEF Finds
          <6>. QED
            BY <3>3, <5>1, <5>2, <6>2
        <5>4. PICK y \in In(archive[Peer(p)]) : y.base = m.base
          <6>1. Peer(p) \in Parties
            BY PeerIs
          <6>. QED
            BY <1>0, <1>1, <1>2, <5>2, <6>1, StillKept
        <5>5. PICK fresh : fresh = Fresh(p)
          OBVIOUS
        <5>6. TurnsTo(d, u, n, fresh)
          BY <5>1, <5>5
        <5>7. Ahead(y, d)
          BY <1>0, <1>4, <5>1, <5>2, <5>3, <5>4, <5>6, TurnMeets
        <5>8. PICK k : k = Len(y.receiving)
          OBVIOUS
        <5>9. k \in 1..Len(y.receiving) /\ y.receiving[k].path = m.path
          BY <1>7, <5>3, <5>7, <5>8 DEF Ahead
        <5>10. m.path \in PathsOf(y)
          <6>1. y \in StateSet
            BY <1>0, <1>3, <2>2, <5>4, InHas
          <6>2. DOMAIN y.receiving = 1..Len(y.receiving)
            BY <6>1 DEF StateSet
          <6>. QED
            BY <5>9, <6>2 DEF PathsOf
        <5>11. m.path \in Paths(archive[m.to])
          <6>1. archive[m.to] \in Archives /\ y \in In(archive[m.to])
            BY <1>0, <1>3, <2>2, <5>4 DEF TypeOK
          <6>. QED
            BY <5>10, <6>1, InStates
        <5>. QED
          BY <1>6, <5>11
      <4>. QED
        BY <3>5, <4>1, <4>2, <4>3 DEF ComesAs
    <3>. QED
      BY <3>1, <3>4, <3>5 DEF Renews
  <2>. QED
    BY <2>1, <2>2
<1>. QED
  BY <1>4, <1>5, <1>6, <1>7 DEF AllCovered, Covered

\* The two devices agree on every session neither forgot, as far as each has come.
MeetInv == Paired /\ AllSent(network) /\ AllCovered(network)

LEMMA MeetStep ==
  ASSUME SealInv, MeetInv, NEW p \in Parties, NEW gone, NEW come, Renews(p, gone, come),
         network' = network, \A s \in come : ComesAs(p, gone, s)
  PROVE  MeetInv'
<1>1. PICK N : N = network
  OBVIOUS
<1>2. Paired /\ AllSent(N) /\ AllCovered(N) /\ AllSent(network)
  BY <1>1 DEF MeetInv
<1>3. Paired'
  BY <1>2, PairedKeep
<1>4. AllSent(N)' /\ AllCovered(N)'
  BY <1>1, <1>2, SentKeep, CoverKeep
<1>. QED
  BY <1>1, <1>3, <1>4 DEF MeetInv, AllSent, AllCovered

LEMMA MeetSeal ==
  ASSUME SealInv, MeetInv, NEW p \in Parties, Seals(p)
  PROVE  MeetInv'
<1>1. TypeOK /\ StatesOk /\ MessagesOk /\ Answered
  BY DEF SealInv
<1>2. PICK s \in In(archive[p]) :
        /\ Comes(p, s, [s EXCEPT !.sending.index = @ + 1]) /\ s.pending # "stale"
        /\ network' = network \cup {Sealing(p, s)} /\ made' = made
  BY DEF Seals
<1>3. PICK t, m, N, gone, come :
        t = [s EXCEPT !.sending.index = @ + 1] /\ m = Sealing(p, s) /\ N = network
        /\ gone = {s} /\ come = {t}
  OBVIOUS
<1>4. /\ Renews(p, gone, come) /\ t.base = s.base /\ t.root = s.root /\ t.receiving = s.receiving
      /\ t.sending.ratchet = s.sending.ratchet /\ t \in In(archive'[p])
  BY <1>1, <1>2, <1>3, SealRenews DEF Comes
<1>5. \A u \in come : ComesAs(p, gone, u)
  BY <1>3, <1>4 DEF ComesAs, Twin
<1>6. Paired /\ AllSent(N) /\ AllCovered(N) /\ AllSent(network)
  BY <1>3 DEF MeetInv
<1>7. Paired'
  BY <1>4, <1>5, <1>6, PairedKeep
<1>8. AllSent(N)' /\ AllCovered(N)'
  BY <1>3, <1>4, <1>5, <1>6, SentKeep, CoverKeep
<1>9. /\ m.to = Peer(p) /\ m.base = t.base /\ m.ratchet = t.sending.ratchet /\ m.path = t.root
  <2>1. s \in StateSet /\ Shape(p, s)
    BY <1>1 DEF StatesOk, Shape
  <2>2. m.to = Peer(p) /\ m.base = s.base /\ m.ratchet = s.sending.ratchet /\ m.path = s.sending.path
    BY <1>1, <1>3, <2>1, SealingTyped
  <2>. QED
    BY <1>4, <2>1, <2>2 DEF Shape
<1>10. Peer(m.to) = p
  BY <1>9, PeerIs
<1>11. ASSUME NEW x \in In(archive'[p]), x.base = m.base  PROVE Sent(x, m)
  <2>1. IsRecord(archive'[p])
    BY <1>1, <1>4, ChangesKeeps DEF Renews
  <2>2. x = t
    BY <1>4, <1>9, <1>11, <2>1, OneOfABase
  <2>. QED
    BY <1>9, <2>2 DEF Sent
<1>12. Covered(m)'
  BY <1>4, <1>9, <1>10 DEF Covered
<1>13. network' = N \cup {m}
  BY <1>2, <1>3
<1>14. AllSent(network)'
  BY <1>8, <1>10, <1>11, <1>13 DEF AllSent
<1>15. AllCovered(network)'
  BY <1>8, <1>12, <1>13 DEF AllCovered
<1>. QED
  BY <1>7, <1>14, <1>15 DEF MeetInv

LEMMA MeetOpen ==
  ASSUME SealInv, MeetInv, NEW p \in Parties, NEW m \in network, Opens(p, m)
  PROVE  MeetInv'
<1>1. TypeOK /\ StatesOk /\ MessagesOk
  BY DEF SealInv
<1>2. m.to = p /\ network' = network
  BY DEF Opens
<1>3. PICK d \in StateSet, s \in StateSet : OpensIn(p, m, d, s)
  BY DEF Opens
<1>4. PICK gone, come : gone = {d} /\ come = {s}
  OBVIOUS
<1>5. Renews(p, gone, come)
  <2>1. Renews(p, {d}, {s})
    BY <1>1, <1>2, <1>3, OpenRenews
  <2>. QED
    BY <1>4, <2>1
<1>6. Shape(p, d) /\ m \in MessageSet /\ Finds(p, m, d) /\ d.base = m.base
  BY <1>1, <1>2, <1>3, FoundIs DEF OpensIn, TypeOK
<1>7. ComesAs(p, gone, s)
  <2>1. ASSUME NEW i \in 1..Len(d.receiving), OpensOn(d, s, m, i), d \in In(archive[p])
        PROVE  Twin(d, s)
    BY <1>6, <2>1, OpensOnShape DEF Twin
  <2>2. ASSUME TurnsTo(d, s, m, Fresh(p))  PROVE Turned(p, gone, s)
    BY <1>2, <1>4, <1>6, <2>2 DEF Turned
  <2>. QED
    BY <1>3, <1>4, <2>1, <2>2 DEF OpensIn, ComesAs
<1>. QED
  BY <1>2, <1>4, <1>5, <1>7, MeetStep

LEMMA MeetNext == SealInv /\ MeetInv /\ [Next]_vars => MeetInv'
<1>. SUFFICES ASSUME SealInv, MeetInv, [Next]_vars  PROVE MeetInv'
  OBVIOUS
<1>0. TypeOK /\ StatesOk /\ MessagesOk /\ Answered
  BY DEF SealInv
<1>u. ASSUME UNCHANGED <<archive, network, forgot, lanesGone>>  PROVE MeetInv'
  BY <1>u DEF MeetInv, Paired, PairOk, AllSent, AllCovered, Covered, Kept
<1>1. CASE UNCHANGED vars
  BY <1>u, <1>1 DEF vars
<1>2. CASE Next
  <2>1. PICK p \in Parties :
          \/ Starts(p) \/ Seals(p) \/ Ages(p) \/ Shelves(p)
          \/ \E m \in network : Opens(p, m) \/ Refuses(p, m)
    BY <1>0, <1>2, StepsAre
  <2>2. CASE Starts(p)
    <3>1. PICK id \in server[Peer(p)] \cup {NoKey} : Renews(p, {}, {Opening(p, id)})
      BY <1>0, <2>2, StartRenews
    <3>2. PICK s, base, pair, signed, gone, come :
            /\ s = Opening(p, id) /\ base = Fresh(p) /\ pair = <<p, made[p] + 2>>
            /\ signed = SignedPreKey(Peer(p)) /\ gone = {} /\ come = {s}
      OBVIOUS
    <3>3. id \in Ids
      BY <1>0, <3>1, PeerIs DEF TypeOK, Ids
    <3>4. /\ s.base = base /\ s.root = <<{base}, {pair, signed}>>
          /\ s.sending = [ratchet |-> pair, path |-> s.root, index |-> 0]
      BY <1>0, <3>2, <3>3, OpeningIs
    <3>5. ~ Drawn(s.base)
      BY <1>0, <3>2, <3>4, FreshIs
    <3>6. ComesAs(p, gone, s)
      <4>1. s.sending.ratchet = pair
        BY <3>4
      <4>. QED
        BY <3>2, <3>4, <3>5, <4>1 DEF ComesAs, Begun
    <3>7. Renews(p, gone, come) /\ \A u \in come : ComesAs(p, gone, u)
      BY <3>1, <3>2, <3>6
    <3>8. network' = network
      BY <2>2 DEF Starts
    <3>. QED
      BY <3>7, <3>8, MeetStep
  <2>3. CASE Seals(p)
    BY <2>3, MeetSeal
  <2>4. CASE Ages(p)
    <3>1. PICK s \in In(archive[p]) :
            /\ Comes(p, s, [s EXCEPT !.pending = "stale"]) /\ s.pending = "waiting"
            /\ UNCHANGED <<made, network>>
      BY <2>4 DEF Ages
    <3>2. PICK t, gone, come : t = [s EXCEPT !.pending = "stale"] /\ gone = {s} /\ come = {t}
      OBVIOUS
    <3>3. Renews(p, gone, come) /\ t.base = s.base /\ t.root = s.root /\ t.receiving = s.receiving
          /\ t.sending = s.sending
      BY <1>0, <3>1, <3>2, AgeRenews
    <3>4. Twin(s, t)
      BY <3>3 DEF Twin
    <3>5. \A u \in come : ComesAs(p, gone, u)
      BY <3>2, <3>4 DEF ComesAs
    <3>. QED
      BY <3>1, <3>3, <3>5, MeetStep
  <2>5. CASE Shelves(p)
    <3>1. Renews(p, {}, {}) /\ network' = network
      BY <1>0, <2>5, ShelveRenews DEF Shelves
    <3>2. PICK gone, come : gone = {} /\ come = {}
      OBVIOUS
    <3>3. Renews(p, gone, come) /\ \A u \in come : FALSE
      BY <3>1, <3>2
    <3>. QED
      BY <3>1, <3>3, MeetStep
  <2>6. ASSUME NEW m \in network, Opens(p, m)  PROVE MeetInv'
    BY <2>6, MeetOpen
  <2>7. ASSUME NEW m \in network, Refuses(p, m)  PROVE MeetInv'
    BY <1>u, <2>7 DEF Refuses
  <2>. QED
    BY <2>1, <2>2, <2>3, <2>4, <2>5, <2>6, <2>7
<1>. QED
  BY <1>1, <1>2

LEMMA MeetInit == Init => MeetInv
<1>. SUFFICES ASSUME Init  PROVE MeetInv
  OBVIOUS
<1>1. EmptyArchive \in Archives /\ Len(EmptyArchive.live) = 0 /\ Len(EmptyArchive.previous) = 0
  BY EmptySeq DEF EmptyArchive, Archives
<1>2. In(EmptyArchive) = {}
  BY <1>1, ShelfOnly DEF In
<1>3. network = {} /\ \A p \in Parties : In(archive[p]) = {}
  BY <1>2 DEF Init
<1>. QED
  BY <1>3 DEF MeetInv, Paired, AllSent, AllCovered

\* MeetInv's pairs are what RootsAgree says.
LEMMA PairsAgree ==
  ASSUME SealInv, Paired
  PROVE  RootsAgree
<1>0. TypeOK /\ StatesOk
  BY DEF SealInv
<1>1. SUFFICES ASSUME NEW i \in DOMAIN States(archive[Alice]), NEW j \in DOMAIN States(archive[Bob]),
                      NEW a, a = States(archive[Alice])[i], NEW b, b = States(archive[Bob])[j],
                      a.base = b.base, a.base \notin forgot[Alice] \cup forgot[Bob]
               PROVE  \/ IsPrefix(a.root, b.root) /\ Len(b.root) = Len(a.root) + 1
                      \/ IsPrefix(b.root, a.root) /\ Len(a.root) = Len(b.root) + 1
  BY DEF RootsAgree
<1>2. Alice \in Parties /\ Bob \in Parties /\ Peer(Alice) = Bob
  BY DEF Parties, Peer
<1>3. a \in In(archive[Alice]) /\ b \in In(archive[Bob]) /\ Kept(a.base)
  BY <1>1 DEF In, Kept
<1>4. Shape(Alice, a) /\ Shape(Bob, b)
  BY <1>0, <1>2, <1>3 DEF StatesOk
<1>5. Ahead(a, b) \/ Ahead(b, a)
  BY <1>1, <1>2, <1>3 DEF Paired, PairOk
<1>. QED
  BY <1>2, <1>4, <1>5, AheadIs

-----------------------------------------------------------------------------
(* Why a genuine message is refused. *)

\* A message read on a chain the device has: the chain is the message's own.
LEMMA LaneIsMessages ==
  ASSUME TypeOK, StatesOk, MessagesOk, TellInv, NEW p \in Parties, NEW u \in In(archive[p]),
         NEW i \in 1..Len(u.receiving), NEW m \in network,
         u.receiving[i].ratchet = m.ratchet \/ u.receiving[i].path = m.path
  PROVE  u.receiving[i].ratchet = m.ratchet /\ u.receiving[i].path = m.path
<1>1. PICK l : l = u.receiving[i]
  OBVIOUS
<1>2. \/ l.ratchet[2] = 0 /\ Len(l.path) = 1
      \/ \E n \in network : n.to = p /\ n.ratchet = l.ratchet /\ n.path = l.path
  BY <1>1 DEF TellInv, LanesTell, LaneTells
<1>3. m.ratchet[2] >= 1 /\ Len(m.path) >= 2
  BY DEF MessagesOk, MessageOk
<1>4. ~ (l.ratchet[2] = 0 /\ Len(l.path) = 1)
  <2>1. l.ratchet = m.ratchet \/ l.path = m.path
    BY <1>1
  <2>2. ASSUME l.ratchet[2] = 0, Len(l.path) = 1  PROVE FALSE
    <3>1. ~ (0 >= 1) /\ ~ (1 >= 2)
      OBVIOUS
    <3>. QED
      BY <1>3, <2>1, <2>2, <3>1
  <2>. QED
    BY <2>2
<1>5. PICK n \in network : n.ratchet = l.ratchet /\ n.path = l.path
  BY <1>2, <1>4
<1>6. n.ratchet = m.ratchet <=> n.path = m.path
  BY DEF TellInv, Serials
<1>. QED
  BY <1>1, <1>5, <1>6

\* A chain's path tells the session it is of.
LEMMA LaneOfBase ==
  ASSUME TypeOK, StatesOk, MessagesOk, NEW p \in Parties, NEW u \in In(archive[p]),
         NEW i \in 1..Len(u.receiving), NEW m \in network, u.receiving[i].path = m.path
  PROVE  u.base = m.base
<1>1. Shape(p, u) /\ LaneOk(u, i)
  BY DEF StatesOk, Shape
<1>2. u.root[1] = {u.base} /\ m.path[1] = {m.base}
  BY <1>1 DEF Shape, MessagesOk, MessageOk
<1>3. PICK n : n = Len(m.path) /\ n \in Nat \ {0}
  BY <1>1 DEF LaneOk
<1>4. 1 \in 1..Len(m.path)
  BY <1>3
<1>5. m.path[1] = u.root[1]
  BY <1>1, <1>4 DEF LaneOk, Precedes
<1>. QED
  BY <1>2, <1>5

\* Reached is the index of the one lane there is at the message's path, or 0.
LEMMA ReachedIs ==
  ASSUME TypeOK, StatesOk, MessagesOk, NEW p \in Parties, NEW m \in network
  PROVE  /\ \A u \in In(archive[p]) : \A i \in 1..Len(u.receiving) :
              u.receiving[i].path = m.path =>
                Reached(archive[p], m.path) = u.receiving[i].index
         /\ (\A u \in In(archive[p]) : \A i \in 1..Len(u.receiving) : u.receiving[i].path # m.path) =>
              Reached(archive[p], m.path) = 0
<1>1. PICK lanes : lanes = UNION {Range(States(archive[p])[i].receiving) : i \in DOMAIN States(archive[p])}
  OBVIOUS
<1>2. PICK here : here = {l \in lanes : l.path = m.path}
  OBVIOUS
<1>3. Reached(archive[p], m.path) = IF here = {} THEN 0 ELSE (CHOOSE l \in here : TRUE).index
  BY <1>1, <1>2 DEF Reached
<1>4. \A u \in In(archive[p]) : u.receiving \in Seq(Lanes) /\ DOMAIN u.receiving = 1..Len(u.receiving)
  <2>1. \A u \in In(archive[p]) : u.receiving \in Seq(Lanes)
    BY InHas DEF StateSet
  <2>. QED
    BY <2>1
<1>5. \A l : l \in lanes <=> \E u \in In(archive[p]) : \E i \in 1..Len(u.receiving) : l = u.receiving[i]
  <2>1. \A l : l \in lanes <=> \E j \in DOMAIN States(archive[p]) : l \in Range(States(archive[p])[j].receiving)
    BY <1>1
  <2>2. \A l : l \in lanes <=> \E u \in In(archive[p]) : l \in Range(u.receiving)
    BY <2>1 DEF In
  <2>3. \A u \in In(archive[p]) : \A l :
          l \in Range(u.receiving) <=> \E i \in 1..Len(u.receiving) : l = u.receiving[i]
    BY <1>4 DEF Range
  <2>4. ASSUME NEW l, l \in lanes
        PROVE  \E u \in In(archive[p]) : \E i \in 1..Len(u.receiving) : l = u.receiving[i]
    <3>1. PICK u \in In(archive[p]) : l \in Range(u.receiving)
      BY <2>2, <2>4
    <3>. QED
      BY <2>3, <3>1
  <2>5. ASSUME NEW u \in In(archive[p]), NEW i \in 1..Len(u.receiving)
        PROVE  u.receiving[i] \in lanes
    <3>1. u.receiving[i] \in Range(u.receiving)
      BY <2>3
    <3>. QED
      BY <2>2, <3>1
  <2>. QED
    BY <2>4, <2>5
<1>6. ASSUME NEW u \in In(archive[p]), NEW v \in In(archive[p]),
             NEW i \in 1..Len(u.receiving), NEW j \in 1..Len(v.receiving),
             u.receiving[i].path = m.path, v.receiving[j].path = m.path
      PROVE  u.receiving[i] = v.receiving[j]
  <2>1. u = v
    BY <1>6, LaneOfBase, OneOfABase DEF TypeOK
  <2>2. LaneOk(u, i) /\ LaneOk(u, j)
    BY <1>6, <2>1 DEF StatesOk, Shape
  <2>3. PICK n : n = Len(m.path)
    OBVIOUS
  <2>4. n \in Nat /\ ~ (i < j) /\ ~ (j < i)
    <3>1. n \in Nat
      BY <1>6, <2>2, <2>3 DEF LaneOk
    <3>2. i < j => n < n
      BY <1>6, <2>1, <2>2, <2>3 DEF LaneOk
    <3>3. j < i => n < n
      BY <1>6, <2>1, <2>2, <2>3 DEF LaneOk
    <3>. QED
      BY <3>1, <3>2, <3>3
  <2>5. Len(u.receiving) \in Nat
    BY <1>4
  <2>6. i \in Nat /\ j \in Nat
    BY <2>1, <2>5
  <2>7. i = j
    BY <2>4, <2>6
  <2>. QED
    BY <2>1, <2>7
<1>7. ASSUME NEW u \in In(archive[p]), NEW i \in 1..Len(u.receiving), u.receiving[i].path = m.path
      PROVE  Reached(archive[p], m.path) = u.receiving[i].index
  <2>1. u.receiving[i] \in here
    BY <1>2, <1>5, <1>7
  <2>2. PICK l : l = CHOOSE k \in here : TRUE
    OBVIOUS
  <2>3. l \in here
    BY <2>1, <2>2
  <2>4. PICK v \in In(archive[p]) : \E j \in 1..Len(v.receiving) : l = v.receiving[j] /\ l.path = m.path
    BY <1>2, <1>5, <2>3
  <2>5. l = u.receiving[i]
    BY <1>6, <1>7, <2>4
  <2>. QED
    BY <1>3, <2>1, <2>2, <2>5
<1>8. ASSUME \A u \in In(archive[p]) : \A i \in 1..Len(u.receiving) : u.receiving[i].path # m.path
      PROVE  Reached(archive[p], m.path) = 0
  <2>1. here = {}
    BY <1>2, <1>5, <1>8
  <2>. QED
    BY <1>3, <2>1
<1>. QED
  BY <1>7, <1>8

LEMMA PairAppended ==
  ASSUME NEW B, NEW c \in B, NEW g \in B
  PROVE  Append(<<c>>, g) = <<c, g>>
<1>1. <<c>> \in Seq(B) /\ <<c, g>> \in Seq(B) /\ Len(<<c>>) = 1 /\ Len(<<c, g>>) = 2
  OBVIOUS
<1>2. Append(<<c>>, g) \in Seq(B) /\ Len(Append(<<c>>, g)) = 2
      /\ Append(<<c>>, g)[1] = c /\ Append(<<c>>, g)[2] = g
  <2>1. <<c>>[1] = c
    OBVIOUS
  <2>. QED
    BY <1>1, <2>1, AppendProperties
<1>3. <<c, g>>[1] = c /\ <<c, g>>[2] = g
  OBVIOUS
<1>4. \A i \in 1..2 : i = 1 \/ i = 2
  OBVIOUS
<1>. QED
  BY <1>1, <1>2, <1>3, <1>4, SeqEqual

\* A message of a session neither device forgot, on a chain its reader did not drop,
\* is refused only for being too far ahead.
LEMMA RefusedFor ==
  ASSUME SealInv, TellInv, Unspent(network), MeetInv, NEW p \in Parties, NEW m \in network,
         Refuses(p, m), last'.fault \in {"NoSession", "BadMessage", "UnknownKeyId"},
         Kept(m.base), m.path \notin lanesGone[p]
  PROVE  m.index - Reached(archive[p], m.path) > MaxForwardJump
<1>0. TypeOK /\ StatesOk /\ MessagesOk /\ WrappedUntilAnswered
      /\ Paired /\ AllSent(network) /\ AllCovered(network)
  BY DEF SealInv, MeetInv
<1>1. m.to = p /\ Told(p, m, last'.fault) /\ m \in MessageSet /\ m.index \in Nat
      /\ Peer(p) \in Parties /\ Peer(Peer(p)) = p
  BY <1>0, PeerIs DEF Refuses, TypeOK, MessageSet
<1>2. m.base \notin forgot[p] /\ m.base \notin forgot[Peer(p)]
  BY KeptIs
<1>3. last'.fault # "UnknownKeyId"
  <2>1. SUFFICES ASSUME last'.fault = "UnknownKeyId"  PROVE FALSE
    OBVIOUS
  <2>2. /\ m.kind = "first" /\ m.base \notin Bases(archive[p])
        /\ m.oneTimeId \notin oneTime[p] \cup {NoKey}
    BY <1>1, <2>1 DEF Told
  <2>3. m.base \notin Knew(p)
    BY <1>2, <2>2 DEF Knew
  <2>. QED
    BY <1>1, <2>2, <2>3 DEF Unspent, Offers
<1>4. m.kind = "first" \/ m.base \in Bases(archive[p])
  <2>1. m.kind = "whisper" => m.base \in Knew(p)
    BY <1>0, <1>1 DEF WrappedUntilAnswered
  <2>. QED
    BY <1>1, <1>2, <2>1 DEF Knew, MessageSet
<1>5. PICK d : Finds(p, m, d) /\ d.base = m.base /\ StateVerdict(d, m, Fresh(p)) = "BadMessage"
  BY <1>1, <1>3, <1>4 DEF Told
<1>6. Shape(p, d) /\ d \in StateSet
  BY <1>0, <1>1, <1>5, FoundIs
<1>7. PICK fresh : fresh = Fresh(p)
  OBVIOUS
<1>8. fresh \in KeyPairs /\ StateVerdict(d, m, fresh) = "BadMessage"
  BY <1>0, <1>5, <1>7, FreshIs
<1>9. ASSUME d \notin In(archive[p])
      PROVE  /\ d = ResponderState(m.base, SignedPreKey(p)) /\ m.base \notin Bases(archive[p])
             /\ Len(d.receiving) = 0 /\ d.root = <<{m.base}>> /\ d.sending.ratchet = SignedPreKey(p)
  BY <1>1, <1>5, <1>9, ResponderShape DEF Finds, MessageSet
<1>10. CASE LanesOf(d, m.ratchet) # {}
  <2>1. PICK i : i = TheLane(d, m)
    OBVIOUS
  <2>2. /\ i \in 1..Len(d.receiving) /\ d.receiving[i].ratchet = m.ratchet
        /\ Verdict(d.receiving[i], m) = "BadMessage"
    BY <1>1, <1>6, <1>8, <1>10, <2>1, OnALane
  <2>3. d \in In(archive[p])
    <3>1. ~ (Len(d.receiving) = 0)
      BY <2>2
    <3>. QED
      BY <1>9, <3>1
  <2>4. d.receiving[i].path = m.path
    BY <1>0, <2>2, <2>3, LaneIsMessages
  <2>5. Reached(archive[p], m.path) = d.receiving[i].index
    BY <1>0, <2>2, <2>3, <2>4, ReachedIs
  <2>6. m.index > d.receiving[i].index + MaxForwardJump
    BY <2>2, <2>4 DEF Verdict
  <2>7. d.receiving[i].index \in Nat
    <3>1. d.receiving \in Seq(Lanes)
      BY <1>6 DEF StateSet
    <3>2. d.receiving[i] \in Lanes
      BY <2>2, <3>1, ElementOfSeq
    <3>. QED
      BY <3>2 DEF Lanes
  <2>. QED
    BY <1>1, <2>5, <2>6, <2>7, SessionAssumption
<1>11. CASE LanesOf(d, m.ratchet) = {}
  <2>1. \A i \in 1..Len(d.receiving) : d.receiving[i].ratchet # m.ratchet
    <3>1. DOMAIN d.receiving = 1..Len(d.receiving)
      BY <1>6 DEF StateSet
    <3>. QED
      BY <1>11, <3>1 DEF LanesOf
  <2>2. PICK path : path = Append(d.root, {d.sending.ratchet, m.ratchet})
    OBVIOUS
  <2>3. Verdict(Lane(m.ratchet, path), m) = "BadMessage"
    BY <1>1, <1>6, <1>8, <1>11, <2>2, OnANewLane
  <2>4. path # m.path \/ m.index > MaxForwardJump
    BY <1>1, <2>3, SessionAssumption DEF Verdict, Lane
  <2>5. ASSUME NEW u \in In(archive[p]), NEW i \in 1..Len(u.receiving), u.receiving[i].path = m.path
        PROVE  FALSE
    <3>1. u.base = m.base /\ u.receiving[i].ratchet = m.ratchet
      BY <1>0, <2>5, LaneOfBase, LaneIsMessages
    <3>2. d \in In(archive[p])
      BY <1>0, <1>9, <3>1, BasesIn
    <3>3. d = u
      BY <1>0, <1>5, <3>1, <3>2, OneOfABase DEF TypeOK
    <3>. QED
      BY <2>1, <3>1, <3>3
  <2>6. Reached(archive[p], m.path) = 0
    BY <1>0, <2>5, ReachedIs
  <2>7. m.path \notin Paths(archive[p])
    <3>1. SUFFICES ASSUME m.path \in Paths(archive[p])  PROVE FALSE
      OBVIOUS
    <3>2. Paths(archive[p]) = UNION {PathsOf(u) : u \in In(archive[p])}
      BY <1>0, InStates DEF TypeOK
    <3>3. PICK u \in In(archive[p]) : m.path \in PathsOf(u)
      BY <3>1, <3>2
    <3>4. DOMAIN u.receiving = 1..Len(u.receiving)
      BY <1>0, InHas DEF StateSet
    <3>. QED
      BY <2>5, <3>3, <3>4 DEF PathsOf
  <2>8. PICK x \in In(archive[Peer(p)]) : x.base = m.base /\ x.root = m.path
    BY <1>0, <1>1, <2>7 DEF AllCovered, Covered
  <2>9. m.ratchet = x.sending.ratchet
    <3>1. Sent(x, m)
      BY <1>0, <1>1, <2>8 DEF AllSent
    <3>2. Shape(Peer(p), x)
      BY <1>0, <1>1 DEF StatesOk
    <3>3. PICK n : n = Len(m.path)
      OBVIOUS
    <3>4. n \in Nat
      BY <2>8, <3>2, <3>3 DEF Shape
    <3>5. ~ (Len(m.path) < Len(x.root))
      BY <2>8, <3>3, <3>4
    <3>. QED
      BY <3>1, <3>5 DEF Sent
  <2>10. m.path = path
    <3>0. {x.sending.ratchet, d.sending.ratchet} = {d.sending.ratchet, m.ratchet}
      BY <2>9
    <3>1. CASE d \in In(archive[p])
      <4>1. Ahead(d, x) \/ Ahead(x, d)
        BY <1>0, <1>1, <1>5, <2>8, <3>1 DEF Paired, PairOk
      <4>2. ASSUME Ahead(d, x)  PROVE FALSE
        <5>1. PICK k : k = Len(d.receiving)
          OBVIOUS
        <5>2. k \in 1..Len(d.receiving) /\ d.receiving[k].ratchet = m.ratchet
          BY <2>9, <4>2, <5>1 DEF Ahead
        <5>. QED
          BY <2>1, <5>2
      <4>3. x.root = Append(d.root, {x.sending.ratchet, d.sending.ratchet})
        BY <4>1, <4>2 DEF Ahead
      <4>. QED
        BY <2>2, <2>8, <3>0, <4>3
    <3>2. CASE d \notin In(archive[p])
      <4>1. x.base \notin Bases(archive[p])
        BY <1>9, <2>8, <3>2
      <4>2. Begun(Peer(p), x)
        BY <1>0, <1>1, <2>8, <4>1 DEF Paired, PairOk
      <4>3. PICK b, e : b = {m.base} /\ e = {x.sending.ratchet, SignedPreKey(p)}
        OBVIOUS
      <4>4. x.root = <<b, e>>
        BY <1>1, <2>8, <4>2, <4>3 DEF Begun
      <4>5. path = Append(<<b>>, e)
        BY <1>9, <2>2, <3>0, <3>2, <4>3
      <4>6. Append(<<b>>, e) = <<b, e>>
        <5>1. PICK B : B = {b, e}
          OBVIOUS
        <5>2. b \in B /\ e \in B
          BY <5>1
        <5>. QED
          BY <5>2, PairAppended
      <4>. QED
        BY <2>8, <4>4, <4>5, <4>6
    <3>. QED
      BY <3>1, <3>2
  <2>. QED
    BY <1>1, <2>4, <2>6, <2>10, SessionAssumption
<1>. QED
  BY <1>10, <1>11

LEMMA RefusalNext ==
  SealInv /\ TellInv /\ Unspent(network) /\ MeetInv /\ RefusalExplained /\ [Next]_vars => RefusalExplained'
<1>. SUFFICES ASSUME SealInv, TellInv, Unspent(network), MeetInv, RefusalExplained, [Next]_vars
              PROVE  RefusalExplained'
  OBVIOUS
<1>0. TypeOK /\ StatesOk /\ MessagesOk /\ Serials
  BY DEF SealInv, TellInv
<1>1. CASE UNCHANGED vars
  BY <1>1 DEF vars, RefusalExplained, Message
<1>2. CASE Next
  <2>1. PICK p \in Parties :
          \/ Starts(p) \/ Seals(p) \/ Ages(p) \/ Shelves(p)
          \/ \E m \in network : Opens(p, m) \/ Refuses(p, m)
    BY <1>0, <1>2, StepsAre
  <2>2. CASE Starts(p) \/ Seals(p) \/ Ages(p) \/ Shelves(p)
    <3>1. last' = NoCall
      BY <2>2 DEF Starts, Seals, Ages, Shelves
    <3>2. last'.fault = "none"
      BY <3>1 DEF NoCall
    <3>. QED
      BY <3>2 DEF RefusalExplained
  <2>3. ASSUME NEW m \in network, Opens(p, m)  PROVE RefusalExplained'
    BY <2>3 DEF Opens, RefusalExplained
  <2>4. ASSUME NEW m \in network, Refuses(p, m)  PROVE RefusalExplained'
    <3>1. m.to = p /\ last'.to = m.to /\ last'.serial = m.serial
          /\ UNCHANGED <<archive, network, lanesGone, forgot>>
      BY <2>4 DEF Refuses
    <3>2. (CHOOSE n \in network' : n.to = last'.to /\ n.serial = last'.serial) = m
      <4>1. Message(m.to, m.serial) = m
        BY <1>0, MessageIs
      <4>2. (CHOOSE n \in network : n.to = m.to /\ n.serial = m.serial) = m
        BY <4>1 DEF Message
      <4>. QED
        BY <3>1, <4>2
    <3>3. Kept(m.base) <=> m.base \notin forgot[m.to] \cup forgot[Peer(m.to)]
      BY <3>1, KeptIs
    <3>4. ASSUME last'.fault \in {"NoSession", "BadMessage", "UnknownKeyId"}
          PROVE  \/ m.base \in forgot[m.to] \cup forgot[Peer(m.to)]
                 \/ m.path \in lanesGone[m.to]
                 \/ m.index - Reached(archive[m.to], m.path) > MaxForwardJump
      BY <2>4, <3>1, <3>3, <3>4, RefusedFor
    <3>. QED
      BY <3>1, <3>2, <3>4 DEF RefusalExplained, Message
  <2>. QED
    BY <2>1, <2>2, <2>3, <2>4
<1>. QED
  BY <1>1, <1>2

\* openFirst, slotFor and the pre-key store together keep the two devices half a turn
\* apart, and every pre-key that may still be named (engine.zig, state.zig), always.
THEOREM MeetInvHolds == Spec => [](SealInv /\ TellInv /\ HeldInv /\ Unspent(network) /\ MeetInv)
BY InitHolds, NextKeeps, TellInit, TellNext, HeldInit, HeldNext, UnspentInit, UnspentNext,
   MeetInit, MeetNext, PTL DEF Spec

\* laneChain's turns keep the two devices' roots for a session half a turn apart, however
\* starts, turns, loss and reordering cross (engine.zig, state.zig).
THEOREM RootsAgreeHolds == Spec => []RootsAgree
<1>1. SealInv /\ MeetInv => RootsAgree
  BY PairsAgree DEF MeetInv
<1>. QED
  BY <1>1, MeetInvHolds, PTL

\* openWhisper and openFirst refuse a genuine message only when its session or chain was
\* dropped at a limit or it is too far ahead (engine.zig, archive.zig, state.zig).
THEOREM RefusalHolds == Spec => []RefusalExplained
<1>1. Init => RefusalExplained
  BY DEF Init, RefusalExplained, NoCall
<1>. QED
  BY <1>1, MeetInvHolds, RefusalNext, PTL DEF Spec
=============================================================================
