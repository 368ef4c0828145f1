--------------------------- MODULE GroupSendProofs ---------------------------
(***************************************************************************)
(* A group message, for any addresses, groups, readers and bounds: no       *)
(* device reads a note twice, the envelope is split into what was addressed *)
(* to each device, and its registration ids tell whether the parts open.    *)
(* Installations only count up, so what the sender has of one device is     *)
(* ordered by when it was learnt: session, then pinned, then the            *)
(* installation as it is.  That parseSent undoes sealForMany is by induction *)
(* over the tokens of the buffer.                                           *)
(***************************************************************************)
EXTENDS GroupSend, SequenceTheorems, FiniteSetTheorems, WellFoundedInduction, TLAPS

-----------------------------------------------------------------------------
(* The inductive invariant. *)

\* What is listed of an account and of its devices.
Device == [device : {a.deviceId : a \in Addresses}, reg : Nat]
Entry == [service : Services, devices : Seq(Device), key : Nat]

\* This entry of a list is one of the address.
Has(r, a) == r.service = serviceId(a) /\ \E d \in ToSet(r.devices) : d.device = a.deviceId

\* An entry has a key, and each of its devices is one of the first so many that
\* the message is for.
OfGroup(r, to, n) ==
  /\ r.key # 0
  /\ \A d \in ToSet(r.devices) : \E i \in 1..n :
       serviceId(to[i]) = r.service /\ to[i].deviceId = d.device

\* The list is of those, each account in one place of it.
ListsTo(list, to, n) ==
  /\ \A i \in 1..n : \E j \in DOMAIN list : Has(list[j], to[i])
  /\ \A j \in DOMAIN list : OfGroup(list[j], to, n)
  /\ \A j, k \in DOMAIN list : list[j].service = list[k].service => j = k

\* What the sender learns of a device: the live session is not with a later
\* installation than the pinned identity is of, nor that with a later one than
\* the account is at; a session call has pinned the identity it met.
Learns ==
  /\ install \in [Services -> Nat]
  /\ pinned \in [Addresses -> Nat]
  /\ session \in [Addresses -> Nat]
  /\ meeting \in [Addresses -> Nat]
  /\ \A a \in Addresses : /\ session[a] <= pinned[a] /\ meeting[a] <= pinned[a]
                          /\ pinned[a] <= install[serviceId(a)]

\* A listed account: its first device was named with a registration id that was
\* read before the identity, and both are of installations that have been.
Dated(r) ==
  /\ r.devices # <<>>
  /\ r.devices[1].reg <= r.key /\ r.key <= install[r.service]

InNote ==
  /\ send.at = "note"
  /\ send = [at |-> "note", group |-> send.group, chain |-> send.chain]
  /\ send.group \in Groups /\ send.chain \in 0..MaxNotes

InSessions ==
  /\ send.at = "sessions"
  /\ send = [at |-> "sessions", group |-> send.group, note |-> send.note]
  /\ send.group \in Groups /\ send.note \in Notes

InIdentities ==
  /\ send.at = "identities"
  /\ send = [at |-> "identities", group |-> send.group, note |-> send.note, regs |-> send.regs,
             list |-> send.list, next |-> send.next]
  /\ send.group \in Groups /\ send.note \in Notes /\ send.next \in Nat \ {0}
  /\ \A i \in DOMAIN send.group.to :
       send.regs[i] \in Nat /\ send.regs[i] <= pinned[send.group.to[i]]
  /\ send.list \in Seq(Entry)
  /\ \A i \in DOMAIN send.list : Dated(send.list[i])
  /\ send.next - 1 <= Len(send.group.to)
  /\ ListsTo(send.list, send.group.to, send.next - 1)

\* Each envelope was made of such a list, of everyone that the message was for.
MadeOf(e, list) ==
  /\ e.envelope = SealForMany(Counted(list), Counted(e.group.excluded))
  /\ \A i \in DOMAIN list : list[i] \in Entry /\ Dated(list[i])
  /\ ListsTo(list, e.group.to, Len(e.group.to))

Envelopes ==
  \A e \in sent : /\ e.note \in Notes /\ e.group \in Groups
                  /\ \E list \in Seq(Entry) : MadeOf(e, list)

\* A note that was read, or is being read, does not open again; the text of one
\* that is being read was not returned.
Reads ==
  /\ chain \in 0..MaxNotes
  /\ circle \in [Readers -> SUBSET Nat]
  /\ reading \in [Readers -> 0..MaxNotes]
  /\ returned \in [Readers -> [Notes -> Nat]]
  /\ \A a \in Readers :
       /\ reading[a] # NoNote =>
            reading[a] \in circle[a] /\ returned[a][reading[a]] = 0
       /\ \A n \in Notes : /\ returned[a][n] <= 1
                           /\ returned[a][n] # 0 => n \in circle[a]

IInv ==
  /\ Learns
  /\ send = Idle \/ InNote \/ InSessions \/ InIdentities
  /\ Envelopes
  /\ Reads

-----------------------------------------------------------------------------
(* Installations and what the sender's store has of them. *)

\* Time goes one way: installations and pinned identities only get later.
Later ==
  /\ \A a \in Addresses : pinned[a] <= pinned'[a]
  /\ \A s \in Services : install[s] <= install'[s]

LEMMA ServiceOf == \A a \in Addresses : serviceId(a) \in Services
BY DEF Services

LEMMA LearnsStay ==
  ASSUME Learns, UNCHANGED <<install, pinned, session, meeting>>
  PROVE  Learns' /\ Later
BY ServiceOf DEF Learns, Later

LEMMA MeetLearns ==
  ASSUME Learns, NEW a \in Addresses, Meet(a) \/ Met(a)
  PROVE  Learns' /\ Later
<1>1. CASE Meet(a)
  <2>1. PICK n \in Nat : n = install[serviceId(a)]
    BY ServiceOf DEF Learns
  <2>2. /\ pinned' = [pinned EXCEPT ![a] = n] /\ meeting' = [meeting EXCEPT ![a] = n]
        /\ UNCHANGED <<install, session>>
    BY <1>1, <2>1 DEF Meet
  <2>3. /\ pinned' \in [Addresses -> Nat] /\ meeting' \in [Addresses -> Nat]
        /\ \A b \in Addresses : pinned'[b] = IF b = a THEN n ELSE pinned[b]
        /\ \A b \in Addresses : meeting'[b] = IF b = a THEN n ELSE meeting[b]
    BY <2>2 DEF Learns
  <2>4. ASSUME NEW b \in Addresses
        PROVE  /\ session[b] <= pinned'[b] /\ meeting'[b] <= pinned'[b]
               /\ pinned'[b] <= install[serviceId(b)] /\ pinned[b] <= pinned'[b]
    <3>1. /\ session[b] \in Nat /\ meeting[b] \in Nat /\ pinned[b] \in Nat
          /\ install[serviceId(b)] \in Nat
          /\ session[b] <= pinned[b] /\ meeting[b] <= pinned[b]
          /\ pinned[b] <= install[serviceId(b)]
      BY ServiceOf DEF Learns
    <3>2. CASE b = a
      BY <2>1, <2>3, <3>1, <3>2
    <3>3. CASE b # a
      BY <2>3, <3>1, <3>3
    <3>. QED
      BY <3>2, <3>3
  <2>5. \A s \in Services : install[s] <= install'[s]
    BY <2>2 DEF Learns
  <2>. QED
    BY <2>2, <2>3, <2>4, <2>5 DEF Learns, Later
<1>2. CASE Met(a)
  <2>1. /\ session' = [session EXCEPT ![a] = meeting[a]]
        /\ meeting' = [meeting EXCEPT ![a] = 0]
        /\ UNCHANGED <<install, pinned>>
    BY <1>2 DEF Met
  <2>2. /\ session' \in [Addresses -> Nat] /\ meeting' \in [Addresses -> Nat]
        /\ \A b \in Addresses : session'[b] = session[b] \/ session'[b] = meeting[b]
        /\ \A b \in Addresses : meeting'[b] = meeting[b] \/ meeting'[b] = 0
    BY <2>1 DEF Learns
  <2>3. \A b \in Addresses : session'[b] <= pinned[b] /\ meeting'[b] <= pinned[b]
    BY <2>2 DEF Learns
  <2>. QED
    BY <2>1, <2>2, <2>3, ServiceOf DEF Learns, Later
<1>. QED
  BY <1>1, <1>2

LEMMA InstallLearns ==
  ASSUME Learns, NEW s \in Services, Install(s)
  PROVE  Learns' /\ Later
<1>1. /\ install' = [install EXCEPT ![s] = @ + 1] /\ UNCHANGED <<pinned, session, meeting>>
  BY DEF Install, hosts
<1>2. /\ install' \in [Services -> Nat]
      /\ \A t \in Services : install[t] <= install'[t]
  BY <1>1 DEF Learns
<1>3. \A a \in Addresses : pinned[a] <= install'[serviceId(a)]
  <2>. SUFFICES ASSUME NEW a \in Addresses  PROVE pinned[a] <= install'[serviceId(a)]
    OBVIOUS
  <2>1. /\ pinned[a] \in Nat /\ install[serviceId(a)] \in Nat /\ install'[serviceId(a)] \in Nat
        /\ pinned[a] <= install[serviceId(a)] /\ install[serviceId(a)] <= install'[serviceId(a)]
    BY <1>2, ServiceOf DEF Learns
  <2>. QED
    BY <2>1
<1>. QED
  BY <1>1, <1>2, <1>3 DEF Learns, Later

LEMMA CrashLearns ==
  ASSUME Learns, CrashSender
  PROVE  Learns' /\ Later
<1>1. meeting' = [a \in Addresses |-> 0] /\ UNCHANGED <<install, pinned, session>>
  BY DEF CrashSender
<1>. QED
  BY <1>1, ServiceOf DEF Learns, Later

LEMMA LearnsKeeps ==
  ASSUME Learns, [Next]_vars
  PROVE  Learns' /\ Later
<1>1. \/ UNCHANGED <<install, pinned, session, meeting>>
      \/ \E a \in Addresses : Meet(a) \/ Met(a)
      \/ CrashSender
      \/ \E s \in Services : Install(s)
  BY DEF Next, vars, hosts, Return, CrashReader, Admit, Open, Begin, SealNote, LoadSessions,
         LoadIdentity, Seal
<1>. QED
  BY <1>1, LearnsStay, MeetLearns, CrashLearns, InstallLearns

-----------------------------------------------------------------------------
(* The send. *)

\* A function on a prefix of the naturals is a sequence.
LEMMA AsSeq ==
  ASSUME NEW S, NEW n \in Nat, NEW f \in [1..n -> S]
  PROVE  f \in Seq(S) /\ Len(f) = n
<1>1. f \in Seq(S)
  BY SeqDef
<1>. QED
  BY <1>1, LenProperties

\* A list stays dated.
LEMMA StaysDated ==
  ASSUME Learns, Learns', Later, NEW r \in Entry, Dated(r)
  PROVE  r.devices # <<>> /\ r.devices[1].reg <= r.key /\ r.key <= install'[r.service]
<1>1. /\ r.key \in Nat /\ install[r.service] \in Nat /\ install'[r.service] \in Nat
      /\ r.key <= install[r.service] /\ install[r.service] <= install'[r.service]
  BY DEF Entry, Learns, Later, Dated
<1>. QED
  BY <1>1 DEF Dated

\* What the other steps leave of a send under way.
LEMMA SendStays ==
  ASSUME Learns, Learns', Later, send = Idle \/ InNote \/ InSessions \/ InIdentities,
         send' = send
  PROVE  (send = Idle \/ InNote \/ InSessions \/ InIdentities)'
<1>1. CASE send = Idle \/ InNote \/ InSessions
  BY <1>1 DEF InNote, InSessions
<1>2. CASE InIdentities
  <2>1. PICK to : to = send.group.to /\ to \in Seq(Addresses)
    BY <1>2, GroupSendAssumption DEF InIdentities
  <2>2. ASSUME NEW i \in DOMAIN to
        PROVE  send.regs[i] \in Nat /\ send.regs[i] <= pinned'[to[i]]
    <3>1. to[i] \in Addresses
      BY <2>1, LenProperties, ElementOfSeq
    <3>2. /\ send.regs[i] \in Nat /\ send.regs[i] <= pinned[to[i]]
      BY <1>2, <2>1 DEF InIdentities
    <3>3. pinned[to[i]] \in Nat /\ pinned'[to[i]] \in Nat /\ pinned[to[i]] <= pinned'[to[i]]
      BY <3>1 DEF Learns, Later
    <3>. QED
      BY <3>2, <3>3
  <2>3. PICK list : list = send.list /\ list \in Seq(Entry)
    BY <1>2 DEF InIdentities
  <2>4. ASSUME NEW i \in DOMAIN list
        PROVE  /\ list[i].devices # <<>>
               /\ list[i].devices[1].reg <= list[i].key /\ list[i].key <= install'[list[i].service]
    <3>1. list[i] \in Entry /\ Dated(list[i])
      BY <1>2, <2>3, LenProperties, ElementOfSeq DEF InIdentities
    <3>. QED
      BY <3>1, StaysDated
  <2>. QED
    BY <1>2, <2>1, <2>2, <2>3, <2>4 DEF InIdentities, Dated
<1>. QED
  BY <1>1, <1>2

\* The account of an address is an account's or a phone identity's.
LEMMA ServiceIs ==
  ASSUME NEW s \in Services
  PROVE  s = [kind |-> "Pni", rawUuid |-> s.rawUuid] \/ s = [kind |-> "Aci", rawUuid |-> s.rawUuid]
<1>1. PICK a \in Addresses : s = serviceId(a) /\ s # NoService
  BY GroupSendAssumption DEF Services
<1>. QED
  BY <1>1 DEF serviceId, parseFromServiceIdString

\* Two accounts do not have the same text, and each is read back from its bytes.
LEMMA SameText ==
  ASSUME NEW s \in Services, NEW t \in Services,
         getServiceIdString(s) = getServiceIdString(t)
  PROVE  s = t
<1>1. PICK u, v, p, q, d :
        /\ u = s.rawUuid /\ v = t.rawUuid /\ d = "hyphens, lower case"
        /\ p = (IF s.kind = "Pni" THEN "PNI:" ELSE "")
        /\ q = (IF t.kind = "Pni" THEN "PNI:" ELSE "")
  OBVIOUS
<1>2. /\ getServiceIdString(s) = [[prefix |-> "", uuid |-> u, spelling |-> d] EXCEPT !.prefix = p]
      /\ getServiceIdString(t) = [[prefix |-> "", uuid |-> v, spelling |-> d] EXCEPT !.prefix = q]
  BY <1>1, Zenon DEF getServiceIdString, bytesToUuid, Text
<1>3. /\ getServiceIdString(s) = [prefix |-> p, uuid |-> u, spelling |-> d]
      /\ getServiceIdString(t) = [prefix |-> q, uuid |-> v, spelling |-> d]
  BY <1>2
<1>4. u = v /\ p = q
  <2>1. PICK x : x = getServiceIdString(s)
    OBVIOUS
  <2>2. x = [prefix |-> p, uuid |-> u, spelling |-> d] /\ x = [prefix |-> q, uuid |-> v, spelling |-> d]
    BY <1>3, <2>1
  <2>3. x.prefix = p /\ x.prefix = q /\ x.uuid = u /\ x.uuid = v
    BY <2>2
  <2>. QED
    BY <2>3
<1>5. s.kind = "Pni" <=> t.kind = "Pni"
  BY <1>1, <1>4
<1>6. /\ s = [kind |-> "Pni", rawUuid |-> u] \/ s = [kind |-> "Aci", rawUuid |-> u]
      /\ t = [kind |-> "Pni", rawUuid |-> u] \/ t = [kind |-> "Aci", rawUuid |-> u]
  BY <1>1, <1>4, ServiceIs
<1>. QED
  BY <1>5, <1>6

LEMMA SameBytes ==
  ASSUME NEW s \in Services
  PROVE  fromFixed(getServiceIdFixedWidthBinary(s)) = s
BY ServiceIs DEF fromFixed, getServiceIdFixedWidthBinary

\* An address that joins is the one more that the list is of.
LEMMA WithDeviceLists ==
  ASSUME NEW list \in Seq(Entry), NEW to \in Seq(Addresses), NEW n \in Nat, NEW a \in Addresses,
         a = to[n + 1], NEW device \in Device, device.device = a.deviceId, NEW key \in Nat, key # 0,
         ListsTo(list, to, n)
  PROVE  ListsTo(WithDevice(list, serviceId(a), device, key), to, n + 1)
<1>. PICK service \in Services : service = serviceId(a)
  BY ServiceOf
<1>. DEFINE its == {i \in DOMAIN list :
                     getServiceIdString(list[i].service) = getServiceIdString(service)}
            new == [service |-> service, devices |-> <<device>>, key |-> key]
<1>1. \A j \in DOMAIN list : /\ list[j] \in Entry /\ list[j].service \in Services
                             /\ list[j].devices \in Seq(Device)
  <2>1. \A j \in DOMAIN list : list[j] \in Entry
    BY LenProperties, ElementOfSeq
  <2>. QED
    BY <2>1 DEF Entry
<1>2. \A j \in DOMAIN list : j \in its <=> list[j].service = service
  BY <1>1, SameText
<1>3. \A i \in 1..(n + 1) : i \in 1..n \/ i = n + 1
  OBVIOUS
<1>4. 1..n \subseteq 1..(n + 1) /\ n + 1 \in 1..(n + 1)
  OBVIOUS
\* What was of the first is of one more.
<1>5. ASSUME NEW r, OfGroup(r, to, n)
      PROVE  OfGroup(r, to, n + 1)
  BY <1>4, <1>5 DEF OfGroup
<1>6. CASE its = {}
  <2>1. WithDevice(list, service, device, key) = Append(list, new)
    BY <1>6 DEF WithDevice
  <2>2. PICK long, r : long = Append(list, r) /\ r = new
    OBVIOUS
  <2>3. r \in Entry
    BY <2>2 DEF Entry
  <2>4. PICK m \in Nat : /\ m = Len(list) /\ DOMAIN list = 1..m /\ DOMAIN long = 1..(m + 1)
                         /\ \A i \in 1..m : long[i] = list[i]
                         /\ long[m + 1] = r
    BY <2>2, <2>3, AppendProperties, LenProperties
  <2>5. r.service = service /\ r.key # 0 /\ ToSet(r.devices) = {device}
    <3>1. ToSet(<<device>>) = {device}
      BY DEF ToSet
    <3>. QED
      BY <2>2, <3>1
  <2>6. \A i \in 1..(m + 1) : i \in 1..m \/ i = m + 1
    OBVIOUS
  <2>7. Has(r, a) /\ OfGroup(r, to, n + 1)
    BY <1>4, <2>5 DEF Has, OfGroup
  <2>8. \A i \in 1..(n + 1) : \E j \in DOMAIN long : Has(long[j], to[i])
    <3>. SUFFICES ASSUME NEW i \in 1..(n + 1)  PROVE \E j \in 1..(m + 1) : Has(long[j], to[i])
      BY <2>4
    <3>1. CASE i \in 1..n
      <4>1. PICK j \in 1..m : Has(list[j], to[i])
        BY <2>4, <3>1 DEF ListsTo
      <4>2. j \in 1..(m + 1) /\ long[j] = list[j]
        BY <2>4
      <4>. QED
        BY <4>1, <4>2
    <3>2. CASE i = n + 1
      <4>1. m + 1 \in 1..(m + 1)
        OBVIOUS
      <4>. QED
        BY <2>4, <2>7, <3>2, <4>1
    <3>. QED
      BY <1>3, <3>1, <3>2
  <2>9. \A j \in DOMAIN long : OfGroup(long[j], to, n + 1)
    <3>. SUFFICES ASSUME NEW j \in 1..(m + 1)  PROVE OfGroup(long[j], to, n + 1)
      BY <2>4
    <3>1. CASE j \in 1..m
      <4>1. OfGroup(list[j], to, n)
        BY <2>4, <3>1 DEF ListsTo
      <4>. QED
        BY <1>5, <2>4, <3>1, <4>1
    <3>2. CASE j = m + 1
      BY <2>4, <2>7, <3>2
    <3>. QED
      BY <2>6, <3>1, <3>2
  <2>10. \A j, k \in DOMAIN long : long[j].service = long[k].service => j = k
    <3>1. \A j \in 1..m : long[j].service # service /\ long[j].service = list[j].service
      BY <1>2, <1>6, <2>4
    <3>2. long[m + 1].service = service
      BY <2>4, <2>5
    <3>3. \A j, k \in 1..m : list[j].service = list[k].service => j = k
      BY <2>4 DEF ListsTo
    <3>4. \A j, k \in 1..m : long[j].service = long[k].service => j = k
      BY <3>1, <3>3
    <3>. SUFFICES ASSUME NEW j \in 1..(m + 1), NEW k \in 1..(m + 1),
                         long[j].service = long[k].service
                  PROVE  j = k
      BY <2>4
    <3>. QED
      BY <2>6, <3>1, <3>2, <3>4
  <2>11. ListsTo(long, to, n + 1)
    BY <2>8, <2>9, <2>10 DEF ListsTo
  <2>. QED
    BY <2>1, <2>2, <2>11
<1>7. CASE its # {}
  <2>1. PICK here \in DOMAIN list : list[here].service = service
    BY <1>2, <1>7
  <2>2. \A j \in DOMAIN list : j \in its <=> j = here
    <3>1. \A j \in DOMAIN list : list[j].service = service => j = here
      BY <2>1 DEF ListsTo
    <3>. QED
      BY <1>2, <2>1, <3>1
  <2>3. PICK old, more, r : /\ old = list[here] /\ more = Append(old.devices, device)
                            /\ r = [old EXCEPT !.devices = more]
    OBVIOUS
  <2>4. PICK joined : joined = [i \in DOMAIN list |-> IF i = here THEN r ELSE list[i]]
    OBVIOUS
  <2>5. WithDevice(list, service, device, key) = joined
    <3>1. WithDevice(list, service, device, key)
            = [i \in DOMAIN list |->
                IF i \in its THEN [list[i] EXCEPT !.devices = Append(@, device)] ELSE list[i]]
      BY <1>7 DEF WithDevice
    <3>2. [list[here] EXCEPT !.devices = Append(@, device)] = r
      BY <2>3, Zenon
    <3>. HIDE DEF its
    <3>. QED
      BY <2>2, <2>4, <3>1, <3>2
  <2>6. r.service = service /\ r.key = old.key /\ r.devices = more
    BY <1>1, <2>1, <2>3 DEF Entry
  <2>7. ToSet(more) = ToSet(old.devices) \cup {device}
    <3>1. PICK ds \in Seq(Device), m \in Nat : ds = old.devices /\ m = Len(ds) /\ DOMAIN ds = 1..m
      BY <1>1, <2>3, LenProperties
    <3>2. /\ DOMAIN more = 1..(m + 1) /\ \A i \in 1..m : more[i] = ds[i]
          /\ more[m + 1] = device
      BY <2>3, <3>1, AppendProperties, LenProperties
    <3>3. \A i : i \in 1..(m + 1) <=> i \in 1..m \/ i = m + 1
      OBVIOUS
    <3>. QED
      BY <3>1, <3>2, <3>3 DEF ToSet
  <2>8. DOMAIN joined = DOMAIN list /\ joined[here] = r
        /\ \A j \in DOMAIN list : joined[j].service = list[j].service
    BY <2>1, <2>4, <2>6
  <2>9. Has(r, a) /\ \A b : Has(old, b) => Has(r, b)
    BY <2>1, <2>3, <2>6, <2>7 DEF Has
  <2>10. OfGroup(r, to, n + 1)
    <3>1. OfGroup(old, to, n)
      BY <2>3 DEF ListsTo
    <3>2. OfGroup(old, to, n + 1)
      BY <1>5, <3>1
    <3>. QED
      BY <1>4, <2>1, <2>3, <2>6, <2>7, <3>2 DEF OfGroup
  <2>11. \A j \in DOMAIN joined : OfGroup(joined[j], to, n + 1)
    <3>. SUFFICES ASSUME NEW j \in DOMAIN list, j # here  PROVE OfGroup(joined[j], to, n + 1)
      BY <2>8, <2>10
    <3>1. OfGroup(list[j], to, n)
      BY DEF ListsTo
    <3>. QED
      BY <1>5, <2>4, <3>1
  <2>12. \A i \in 1..(n + 1) : \E j \in DOMAIN joined : Has(joined[j], to[i])
    <3>. SUFFICES ASSUME NEW i \in 1..(n + 1)  PROVE \E j \in DOMAIN list : Has(joined[j], to[i])
      BY <2>8
    <3>1. CASE i = n + 1
      BY <2>8, <2>9, <3>1
    <3>2. CASE i \in 1..n
      <4>1. PICK j \in DOMAIN list : Has(list[j], to[i])
        BY <3>2 DEF ListsTo
      <4>2. Has(joined[j], to[i])
        BY <2>3, <2>4, <2>9, <4>1
      <4>. QED
        BY <4>2
    <3>. QED
      BY <1>3, <3>1, <3>2
  <2>13. ListsTo(joined, to, n + 1)
    BY <2>8, <2>11, <2>12 DEF ListsTo
  <2>. QED
    BY <2>5, <2>13
<1>. QED
  BY <1>6, <1>7

\* An address that joins the recipients leaves the list dated: a listed account
\* keeps its first device, and another is dated by what was read for this one.
LEMMA WithDeviceDated ==
  ASSUME NEW list \in Seq(Entry), NEW service \in Services, NEW device \in Device, NEW key \in Nat,
         \A i \in DOMAIN list : Dated(list[i]),
         device.reg <= key, key <= install[service]
  PROVE  /\ WithDevice(list, service, device, key) \in Seq(Entry)
         /\ \A i \in DOMAIN WithDevice(list, service, device, key) :
              Dated(WithDevice(list, service, device, key)[i])
<1>. DEFINE its == {i \in DOMAIN list :
                     getServiceIdString(list[i].service) = getServiceIdString(service)}
            new == [service |-> service, devices |-> <<device>>, key |-> key]
            joined == [i \in DOMAIN list |->
                        IF i \in its THEN [list[i] EXCEPT !.devices = Append(@, device)]
                        ELSE list[i]]
<1>1. new \in Entry /\ Dated(new)
  BY DEF Entry, Dated
<1>2. CASE its = {}
  <2>1. WithDevice(list, service, device, key) = Append(list, new)
    BY <1>2 DEF WithDevice
  <2>2. PICK long : long = Append(list, new)
    OBVIOUS
  <2>3. /\ long \in Seq(Entry) /\ Len(long) = Len(list) + 1 /\ Len(list) \in Nat
        /\ \A i \in 1..Len(list) : long[i] = list[i]
        /\ long[Len(list) + 1] = new
        /\ DOMAIN list = 1..Len(list) /\ DOMAIN long = 1..Len(long)
    BY <1>1, <2>2, AppendProperties, LenProperties
  <2>4. \A i \in DOMAIN long : i \in DOMAIN list \/ i = Len(list) + 1
    BY <2>3
  <2>5. \A i \in DOMAIN long : Dated(long[i])
    BY <1>1, <2>3, <2>4
  <2>. QED
    BY <2>1, <2>2, <2>3, <2>5
<1>3. CASE its # {}
  <2>1. WithDevice(list, service, device, key) = joined
    BY <1>3 DEF WithDevice
  <2>2. DOMAIN list = 1..Len(list) /\ Len(list) \in Nat
    BY LenProperties
  <2>3. ASSUME NEW i \in DOMAIN list
        PROVE  joined[i] \in Entry /\ Dated(joined[i])
    <3>1. list[i] \in Entry /\ Dated(list[i])
      BY LenProperties, ElementOfSeq
    <3>2. CASE i \in its
      <4>1. PICK r \in Entry : r = list[i]
        BY <3>1
      <4>2. PICK more : more = Append(r.devices, device)
        OBVIOUS
      <4>3. /\ r.devices \in Seq(Device) /\ r.devices # <<>>
            /\ r.service \in Services /\ r.key \in Nat
            /\ r.devices[1].reg <= r.key /\ r.key <= install[r.service]
        BY <3>1, <4>1 DEF Entry, Dated
      <4>4. /\ more \in Seq(Device) /\ more # <<>>
            /\ \A j \in 1..Len(r.devices) : more[j] = r.devices[j]
        BY <4>2, <4>3, AppendProperties
      <4>5. 1 \in 1..Len(r.devices)
        BY <4>3, LenProperties, EmptySeq
      <4>6. more[1] = r.devices[1]
        BY <4>4, <4>5
      <4>7. joined[i] = [r EXCEPT !.devices = more]
        BY <3>2, <4>1, <4>2
      <4>8. joined[i] = [service |-> r.service, devices |-> more, key |-> r.key]
        BY <4>1, <4>7 DEF Entry
      <4>9. PICK q : q = [service |-> r.service, devices |-> more, key |-> r.key]
        OBVIOUS
      <4>10. q \in Entry
        BY <4>3, <4>4, <4>9 DEF Entry
      <4>11. Dated(q)
        BY <4>3, <4>4, <4>6, <4>9 DEF Dated
      <4>. QED
        BY <4>8, <4>9, <4>10, <4>11
    <3>3. CASE i \notin its
      BY <3>1, <3>3
    <3>. QED
      BY <3>2, <3>3
  <2>4. joined \in [1..Len(list) -> Entry] /\ DOMAIN joined = DOMAIN list
    BY <2>2, <2>3
  <2>5. joined \in Seq(Entry)
    BY <2>2, <2>4, AsSeq
  <2>. QED
    BY <2>1, <2>3, <2>4, <2>5
<1>. QED
  BY <1>2, <1>3

SendOk == send = Idle \/ InNote \/ InSessions \/ InIdentities

\* groupEncrypt, and the two loadings of recipientsOf.
LEMMA BeginKeeps ==
  ASSUME Reads, NEW g \in Groups, Begin(g)
  PROVE  SendOk'
<1>1. send' = [at |-> "note", group |-> g, chain |-> chain]
  BY DEF Begin
<1>. QED
  BY <1>1 DEF SendOk, InNote, Reads

LEMMA SealNoteKeeps ==
  ASSUME SendOk, SealNote
  PROVE  SendOk' /\ chain' \in 0..MaxNotes
<1>1. InNote
  BY DEF SendOk, Idle, InSessions, InIdentities, SealNote
<1>2. PICK n : n = send.chain
  OBVIOUS
<1>3. n \in 0..MaxNotes /\ n < MaxNotes /\ MaxNotes \in Nat
  BY <1>1, <1>2, GroupSendAssumption DEF InNote, SealNote
<1>4. n + 1 \in Notes /\ n + 1 \in 0..MaxNotes
  BY <1>3 DEF Notes
<1>5. send' = [at |-> "sessions", group |-> send.group, note |-> n + 1] /\ chain' = n + 1
  BY <1>2 DEF SealNote
<1>6. send.group \in Groups
  BY <1>1 DEF InNote
<1>. QED
  BY <1>4, <1>5, <1>6 DEF SendOk, InSessions

LEMMA LoadSessionsKeeps ==
  ASSUME Learns, SendOk, LoadSessions
  PROVE  SendOk'
<1>1. InSessions
  BY DEF SendOk, Idle, InNote, InIdentities, LoadSessions
<1>2. PICK g \in Groups, n \in Notes : g = send.group /\ n = send.note
  BY <1>1 DEF InSessions
<1>3. g.to \in Seq(Addresses)
  BY GroupSendAssumption
<1>4. PICK regs : regs = [i \in DOMAIN g.to |-> session[g.to[i]]]
  OBVIOUS
<1>5. \/ send' = Idle
      \/ send' = [at |-> "identities", group |-> g, note |-> n, regs |-> regs, list |-> <<>>,
                  next |-> 1]
  BY <1>2, <1>4 DEF LoadSessions
<1>6. /\ UNCHANGED pinned
      /\ \A i \in DOMAIN g.to : regs[i] \in Nat /\ regs[i] <= pinned[g.to[i]]
  <2>1. \A i \in DOMAIN g.to : g.to[i] \in Addresses
    BY <1>3, LenProperties, ElementOfSeq
  <2>. QED
    BY <1>4, <2>1 DEF Learns, LoadSessions, hosts
<1>7. PICK none \in Seq(Entry) : none = <<>> /\ DOMAIN none = {}
  <2>1. PICK none : none = <<>>
    OBVIOUS
  <2>2. none \in Seq(Entry) /\ Len(none) = 0
    BY <2>1, EmptySeq
  <2>3. DOMAIN none = 1..0
    BY <2>2, LenProperties
  <2>4. DOMAIN none = {}
    BY <2>3
  <2>. QED
    BY <2>1, <2>2, <2>4
<1>8. ListsTo(none, g.to, 1 - 1) /\ 1 - 1 <= Len(g.to)
  <2>1. 1..(1 - 1) = {} /\ Len(g.to) \in Nat
    BY <1>3, LenProperties
  <2>. QED
    BY <1>7, <2>1 DEF ListsTo
<1>9. CASE send' = [at |-> "identities", group |-> g, note |-> n, regs |-> regs, list |-> none,
                   next |-> 1]
  <2>1. InIdentities'
    BY <1>6, <1>7, <1>8, <1>9 DEF InIdentities
  <2>. QED
    BY <2>1 DEF SendOk
<1>. QED
  BY <1>5, <1>7, <1>9 DEF SendOk

LEMMA LoadIdentityKeeps ==
  ASSUME Learns, SendOk, LoadIdentity
  PROVE  SendOk'
<1>1. InIdentities
  BY DEF SendOk, Idle, InNote, InSessions, LoadIdentity
<1>2. PICK g \in Groups, n \in Notes, next \in Nat \ {0}, list \in Seq(Entry) :
        /\ g = send.group /\ n = send.note /\ next = send.next /\ list = send.list
  BY <1>1 DEF InIdentities
<1>3. PICK regs : regs = send.regs
  OBVIOUS
<1>4. g.to \in Seq(Addresses) /\ next <= Len(g.to)
  BY <1>2, GroupSendAssumption DEF LoadIdentity
<1>5. next \in DOMAIN g.to /\ g.to[next] \in Addresses
  BY <1>4, LenProperties, ElementOfSeq
<1>6. PICK a \in Addresses : a = g.to[next]
  BY <1>5
<1>7. PICK device : device = [device |-> a.deviceId, reg |-> regs[next]]
  OBVIOUS
<1>8. PICK key \in Nat : key = pinned[a]
  BY DEF Learns
<1>9. PICK longer : longer = WithDevice(list, serviceId(a), device, key)
  OBVIOUS
<1>10. \A i \in DOMAIN g.to : regs[i] \in Nat /\ regs[i] <= pinned[g.to[i]]
  BY <1>1, <1>2, <1>3 DEF InIdentities
<1>11. longer \in Seq(Entry) /\ \A i \in DOMAIN longer : Dated(longer[i])
  <2>1. regs[next] \in Nat /\ regs[next] <= key
    BY <1>5, <1>6, <1>8, <1>10
  <2>2. device \in Device /\ device.reg <= key
    BY <1>7, <2>1 DEF Device
  <2>3. key <= install[serviceId(a)] /\ serviceId(a) \in Services
    BY <1>8, ServiceOf DEF Learns
  <2>4. \A i \in DOMAIN list : Dated(list[i])
    BY <1>1, <1>2 DEF InIdentities
  <2>. QED
    BY <1>9, <2>2, <2>3, <2>4, WithDeviceDated
<1>12. send = [at |-> "identities", group |-> g, note |-> n, regs |-> regs, list |-> list,
              next |-> next]
  BY <1>1, <1>2, <1>3 DEF InIdentities
<1>13. \/ send' = Idle
       \/ send' = [at |-> "identities", group |-> g, note |-> n, regs |-> regs, list |-> longer,
                   next |-> next + 1]
  BY <1>6, <1>7, <1>8, <1>9, <1>12 DEF LoadIdentity
<1>14. UNCHANGED <<pinned, install>>
  BY DEF LoadIdentity, hosts
<1>15. send' # Idle => key # 0
  BY <1>2, <1>6, <1>8 DEF LoadIdentity
<1>16. key # 0 => ListsTo(longer, g.to, (next + 1) - 1)
  <2>. SUFFICES ASSUME key # 0  PROVE ListsTo(longer, g.to, (next + 1) - 1)
    OBVIOUS
  <2>1. PICK n0 \in Nat : n0 = next - 1 /\ n0 + 1 = next /\ (next + 1) - 1 = n0 + 1
    OBVIOUS
  <2>2. ListsTo(list, g.to, n0)
    BY <1>1, <1>2, <2>1 DEF InIdentities
  <2>3. device \in Device /\ device.device = a.deviceId
    <3>1. regs[next] \in Nat
      BY <1>5, <1>10
    <3>. QED
      BY <1>7, <3>1 DEF Device
  <2>4. a = g.to[n0 + 1]
    BY <1>6, <2>1
  <2>5. ListsTo(longer, g.to, n0 + 1)
    BY <1>4, <1>9, <2>2, <2>3, <2>4, WithDeviceLists
  <2>. QED
    BY <2>1, <2>5
<1>17. next + 1 \in Nat \ {0} /\ (next + 1) - 1 <= Len(g.to)
  BY <1>4
<1>18. CASE send' = Idle
  BY <1>18 DEF SendOk
<1>19. CASE send' # Idle
  <2>1. send' = [at |-> "identities", group |-> g, note |-> n, regs |-> regs, list |-> longer,
                 next |-> next + 1]
    BY <1>13, <1>19
  <2>2. ListsTo(longer, g.to, (next + 1) - 1)
    BY <1>15, <1>16, <1>19
  <2>3. InIdentities'
    BY <1>10, <1>11, <1>14, <1>17, <2>1, <2>2 DEF InIdentities, Dated
  <2>. QED
    BY <2>3 DEF SendOk
<1>. QED
  BY <1>18, <1>19

\* The envelope is made of what is counted of the list.
LEMMA SealKeeps ==
  ASSUME Learns, SendOk, Envelopes, Seal
  PROVE  SendOk' /\ Envelopes'
<1>1. InIdentities
  BY DEF SendOk, Idle, InNote, InSessions, Seal
<1>2. PICK list, g, next :
        /\ list \in Seq(Entry) /\ list = send.list /\ \A i \in DOMAIN list : Dated(list[i])
        /\ g \in Groups /\ g = send.group
        /\ next \in Nat \ {0} /\ next = send.next
  BY <1>1 DEF InIdentities
<1>3. ListsTo(list, g.to, Len(g.to))
  <2>1. Len(g.to) \in Nat
    BY <1>2, GroupSendAssumption, LenProperties
  <2>2. next > Len(g.to) /\ next - 1 <= Len(g.to) /\ ListsTo(list, g.to, next - 1)
    BY <1>1, <1>2 DEF InIdentities, Seal
  <2>3. next - 1 = Len(g.to)
    BY <1>2, <2>1, <2>2
  <2>. QED
    BY <2>2, <2>3
<1>4. PICK e : e = [number |-> sends, note |-> send.note, group |-> g,
                    envelope |-> SealForMany(Counted(list), Counted(g.excluded))]
  OBVIOUS
<1>5. MadeOf(e, list) /\ e.note \in Notes /\ e.group \in Groups
  <2>1. \A i \in DOMAIN list : list[i] \in Entry
    BY <1>2, LenProperties, ElementOfSeq
  <2>2. e.group = g /\ e.envelope = SealForMany(Counted(list), Counted(g.excluded)) /\ e.note = send.note
    BY <1>4
  <2>3. send.note \in Notes
    BY <1>1 DEF InIdentities
  <2>. QED
    BY <1>2, <1>3, <2>1, <2>2, <2>3 DEF MadeOf
<1>6. (sent' = sent \/ sent' = sent \cup {e}) /\ send' = Idle /\ UNCHANGED install
  BY <1>2, <1>4 DEF Seal
<1>7. \A f \in sent' : /\ f.note \in Notes /\ f.group \in Groups
                      /\ \E l \in Seq(Entry) : MadeOf(f, l)
  BY <1>2, <1>5, <1>6 DEF Envelopes
<1>. QED
  BY <1>6, <1>7 DEF SendOk, Envelopes, MadeOf, Dated

\* What was sent stays dated.
LEMMA EnvelopesStay ==
  ASSUME Learns, Learns', Later, Envelopes, sent' = sent
  PROVE  Envelopes'
<1>. SUFFICES ASSUME NEW e \in sent
             PROVE  /\ e.note \in Notes /\ e.group \in Groups
                    /\ \E list \in Seq(Entry) : MadeOf(e, list)'
  BY DEF Envelopes
<1>1. e.note \in Notes /\ e.group \in Groups
  BY DEF Envelopes
<1>2. PICK list \in Seq(Entry) : MadeOf(e, list)
  BY DEF Envelopes
<1>3. \A i \in DOMAIN list :
        /\ list[i] \in Entry /\ list[i].devices # <<>>
        /\ list[i].devices[1].reg <= list[i].key /\ list[i].key <= install'[list[i].service]
  BY <1>2, StaysDated DEF MadeOf
<1>4. MadeOf(e, list)'
  BY <1>2, <1>3 DEF MadeOf, Dated
<1>. QED
  BY <1>1, <1>4

LEMMA SendKeeps ==
  ASSUME IInv, [Next]_vars, Learns', Later
  PROVE  SendOk' /\ Envelopes'
<1>1. SendOk /\ Envelopes /\ Learns /\ Reads
  BY DEF IInv, SendOk
<1>2. CASE UNCHANGED <<send, sent>>
  BY <1>1, <1>2, SendStays, EnvelopesStay DEF SendOk
<1>3. CASE Seal
  BY <1>1, <1>3, SealKeeps
<1>4. CASE (\E g \in Groups : Begin(g)) \/ SealNote \/ LoadSessions \/ LoadIdentity
  <2>1. SendOk'
    BY <1>1, <1>4, BeginKeeps, SealNoteKeeps, LoadSessionsKeeps, LoadIdentityKeeps
  <2>2. sent' = sent
    BY <1>4 DEF Begin, SealNote, LoadSessions, LoadIdentity
  <2>. QED
    BY <1>1, <2>1, <2>2, EnvelopesStay
<1>5. CASE CrashSender
  <2>1. send' = Idle /\ sent' = sent
    BY <1>5 DEF CrashSender
  <2>. QED
    BY <1>1, <2>1, EnvelopesStay DEF SendOk
<1>6. \/ UNCHANGED <<send, sent>> \/ Seal \/ CrashSender
      \/ (\E g \in Groups : Begin(g)) \/ SealNote \/ LoadSessions \/ LoadIdentity
  BY DEF Next, vars, Meet, Met, Return, CrashReader, Admit, Open, Install
<1>. QED
  BY <1>2, <1>3, <1>4, <1>5, <1>6

-----------------------------------------------------------------------------
(* The devices. *)

\* What Reads says of one device: the notes that do not open, the note that is
\* being read, and how often each was returned.
ReadsOf(closed, at, given) ==
  /\ closed \in SUBSET Nat /\ at \in 0..MaxNotes /\ given \in [Notes -> Nat]
  /\ at # NoNote => at \in closed /\ given[at] = 0
  /\ \A n \in Notes : given[n] <= 1 /\ (given[n] # 0 => n \in closed)

LEMMA ReadsByDevice ==
  Reads <=> /\ chain \in 0..MaxNotes
            /\ circle = [a \in Readers |-> circle[a]]
            /\ reading = [a \in Readers |-> reading[a]]
            /\ returned = [a \in Readers |-> returned[a]]
            /\ \A a \in Readers : ReadsOf(circle[a], reading[a], returned[a])
BY DEF Reads, ReadsOf

\* A step of one device.
LEMMA DeviceKeeps ==
  ASSUME IInv, NEW a \in Readers,
         \/ Return(a) \/ CrashReader(a)
         \/ \E step \in Announcements : Admit(a, step)
         \/ \E e \in sent : Open(a, e)
  PROVE  Reads'
<1>. PICK closed, at, given : closed = circle[a] /\ at = reading[a] /\ given = returned[a]
  OBVIOUS
<1>1. ReadsOf(closed, at, given) /\ MaxNotes \in Nat
  BY ReadsByDevice, GroupSendAssumption DEF IInv
<1>2. PICK closed2, at2, given2 :
        /\ ReadsOf(closed2, at2, given2)
        /\ circle' = [circle EXCEPT ![a] = closed2]
        /\ reading' = [reading EXCEPT ![a] = at2]
        /\ returned' = [returned EXCEPT ![a] = given2]
  <2>1. /\ circle = [circle EXCEPT ![a] = closed] /\ reading = [reading EXCEPT ![a] = at]
        /\ returned = [returned EXCEPT ![a] = given]
    BY DEF IInv, Reads
  <2>2. CASE Return(a)
    <3>1. at \in Notes
      BY <1>1, <2>2 DEF ReadsOf, Return, Notes, NoNote
    <3>2. PICK given2 : given2 = [given EXCEPT ![at] = @ + 1]
      OBVIOUS
    <3>3. ReadsOf(closed, NoNote, given2)
      BY <1>1, <2>2, <3>1, <3>2 DEF ReadsOf, Return, NoNote
    <3>4. returned' = [returned EXCEPT ![a] = given2] /\ reading' = [reading EXCEPT ![a] = NoNote]
      BY <2>2, <3>2 DEF Return, IInv, Reads
    <3>5. circle' = [circle EXCEPT ![a] = closed]
      BY <2>1, <2>2 DEF Return
    <3>. QED
      BY <3>3, <3>4, <3>5
  <2>3. CASE CrashReader(a)
    <3>1. ReadsOf(closed, NoNote, given)
      BY <1>1 DEF ReadsOf, NoNote
    <3>. QED
      BY <2>1, <2>3, <3>1 DEF CrashReader
  <2>4. ASSUME NEW step \in Announcements, Admit(a, step)
        PROVE  \E closed2, at2, given2 :
                 /\ ReadsOf(closed2, at2, given2)
                 /\ circle' = [circle EXCEPT ![a] = closed2]
                 /\ reading' = [reading EXCEPT ![a] = at2]
                 /\ returned' = [returned EXCEPT ![a] = given2]
    <3>1. closed = {0}
      BY <2>4 DEF Admit, NoCircle
    <3>2. at = NoNote /\ \A n \in Notes : given[n] = 0
      BY <1>1, <3>1 DEF ReadsOf, NoNote, Notes
    <3>3. 1..step \in SUBSET Nat
      BY GroupSendAssumption DEF Announcements, IInv, Reads
    <3>4. ReadsOf(1..step, at, given)
      BY <1>1, <3>2, <3>3 DEF ReadsOf, NoNote
    <3>5. circle' = [circle EXCEPT ![a] = 1..step]
      BY <2>4 DEF Admit
    <3>6. reading' = [reading EXCEPT ![a] = at] /\ returned' = [returned EXCEPT ![a] = given]
      BY <2>1, <2>4 DEF Admit
    <3>. QED
      BY <3>4, <3>5, <3>6
  <2>5. ASSUME NEW e \in sent, Open(a, e)
        PROVE  \E closed2, at2, given2 :
                 /\ ReadsOf(closed2, at2, given2)
                 /\ circle' = [circle EXCEPT ![a] = closed2]
                 /\ reading' = [reading EXCEPT ![a] = at2]
                 /\ returned' = [returned EXCEPT ![a] = given2]
    <3>1. e.note \in Notes /\ e.note \notin closed /\ at = NoNote
      BY <2>5 DEF IInv, Envelopes, Open
    <3>2. ReadsOf(closed \cup {e.note}, e.note, given)
      BY <1>1, <3>1 DEF ReadsOf, Notes, NoNote
    <3>3. /\ circle' = [circle EXCEPT ![a] = closed \cup {e.note}]
          /\ reading' = [reading EXCEPT ![a] = e.note]
      BY <2>5 DEF Open
    <3>4. returned' = [returned EXCEPT ![a] = given]
      BY <2>1, <2>5 DEF Open
    <3>. QED
      BY <3>2, <3>3, <3>4
  <2>. QED
    BY <2>2, <2>3, <2>4, <2>5
<1>3. chain' = chain
  BY DEF Return, CrashReader, Admit, Open
<1>4. \A b \in Readers : ReadsOf(circle[b], reading[b], returned[b])
  BY ReadsByDevice DEF IInv
<1>5. \A b \in Readers :
        /\ circle'[b] = IF b = a THEN closed2 ELSE circle[b]
        /\ reading'[b] = IF b = a THEN at2 ELSE reading[b]
        /\ returned'[b] = IF b = a THEN given2 ELSE returned[b]
  BY <1>2 DEF IInv, Reads
<1>6. \A b \in Readers : ReadsOf(circle'[b], reading'[b], returned'[b])
  BY <1>2, <1>4, <1>5
<1>7. /\ circle' = [b \in Readers |-> circle'[b]]
      /\ reading' = [b \in Readers |-> reading'[b]]
      /\ returned' = [b \in Readers |-> returned'[b]]
  BY <1>2 DEF IInv, Reads
<1>8. chain' \in 0..MaxNotes
  BY <1>3 DEF IInv, Reads
<1>. QED
  BY <1>6, <1>7, <1>8 DEF Reads, ReadsOf

LEMMA ReadsKeeps ==
  ASSUME IInv, [Next]_vars
  PROVE  Reads'
<1>1. CASE UNCHANGED <<chain, circle, reading, returned>>
  BY <1>1 DEF IInv, Reads
<1>2. CASE SealNote
  <2>1. chain' \in 0..MaxNotes /\ UNCHANGED <<circle, reading, returned>>
    BY <1>2, SealNoteKeeps DEF IInv, SendOk, SealNote, devices
  <2>. QED
    BY <2>1 DEF IInv, Reads
<1>3. ASSUME NEW s \in Services, Install(s)
      PROVE  Reads'
  <2>1. PICK its : its = {a \in Addresses : serviceId(a) = s}
    OBVIOUS
  <2>2. PICK zero \in [Notes -> Nat] : zero = [n \in Notes |-> 0]
    OBVIOUS
  <2>3. /\ chain' = chain
        /\ circle' = [a \in Readers |-> IF a \in its THEN NoCircle ELSE circle[a]]
        /\ reading' = [a \in Readers |-> IF a \in its THEN NoNote ELSE reading[a]]
        /\ returned' = [a \in Readers |-> IF a \in its THEN zero ELSE returned[a]]
    BY <1>3, <2>1, <2>2 DEF Install
  <2>4. ReadsOf(NoCircle, NoNote, zero)
    BY <2>2, GroupSendAssumption DEF ReadsOf, NoCircle, NoNote
  <2>5. \A a \in Readers : ReadsOf(circle[a], reading[a], returned[a])
    BY ReadsByDevice DEF IInv
  <2>6. \A a \in Readers : ReadsOf(circle'[a], reading'[a], returned'[a])
    BY <2>3, <2>4, <2>5
  <2>7. chain' \in 0..MaxNotes
    BY <2>3 DEF IInv, Reads
  <2>. QED
    BY <2>3, <2>6, <2>7 DEF Reads, ReadsOf
<1>4. \/ UNCHANGED <<chain, circle, reading, returned>>
      \/ SealNote
      \/ \E s \in Services : Install(s)
      \/ \E a \in Readers :
           \/ Return(a) \/ CrashReader(a)
           \/ \E step \in Announcements : Admit(a, step)
           \/ \E e \in sent : Open(a, e)
  BY DEF Next, vars, devices, Meet, Met, Begin, LoadSessions, LoadIdentity, Seal, CrashSender
<1>. QED
  BY <1>1, <1>2, <1>3, <1>4, DeviceKeeps

-----------------------------------------------------------------------------
LEMMA InitHolds == Init => IInv
<1>. SUFFICES ASSUME Init  PROVE IInv
  OBVIOUS
<1>1. Learns
  BY ServiceOf DEF Init, Learns
<1>2. chain \in 0..MaxNotes
  BY GroupSendAssumption DEF Init
<1>3. PICK zero : zero = [n \in Notes |-> 0]
  OBVIOUS
<1>4. ReadsOf(NoCircle, NoNote, zero)
  BY <1>3, GroupSendAssumption DEF ReadsOf, NoCircle, NoNote
<1>5. /\ circle = [a \in Readers |-> NoCircle] /\ reading = [a \in Readers |-> NoNote]
      /\ returned = [a \in Readers |-> zero]
  BY <1>3 DEF Init
<1>6. Reads
  BY <1>2, <1>4, <1>5 DEF Reads, ReadsOf
<1>. QED
  BY <1>1, <1>6 DEF Init, IInv, Envelopes

LEMMA StepKeeps == IInv /\ [Next]_vars => IInv'
<1>. SUFFICES ASSUME IInv, [Next]_vars  PROVE IInv'
  OBVIOUS
<1>1. Learns' /\ Later
  BY LearnsKeeps DEF IInv
<1>. QED
  BY <1>1, SendKeeps, ReadsKeeps DEF IInv, SendOk

\* What the sender learns of a device is in the order of the loading
\* (recipientsOf) and of the storing (saveIdentity, then saveSession), and a note
\* opened is stored before its text is returned (groupDecrypt).
THEOREM WhatIsLearntIsDated == Spec => []IInv
BY InitHolds, StepKeeps, PTL DEF Spec

-----------------------------------------------------------------------------
(* What follows. *)

\* groupDecrypt stores the record before it returns the text: no installation of
\* a device gives the text of a note twice, whatever is delivered again and
\* wherever its process dies.
THEOREM NoNoteTwice == Spec => []ReadOnce
<1>1. IInv => ReadOnce
  BY DEF IInv, Reads, ReadOnce
<1>. QED
  BY <1>1, WhatIsLearntIsDated, PTL

-----------------------------------------------------------------------------
(* Induction.  The library's theorems of induction take a predicate as a      *)
(* parameter; this form takes a set, and rests on the strict inclusions of    *)
(* finite sets being well founded.                                            *)

LEMMA LeastOf ==
  ASSUME NEW T \in SUBSET Nat, T # {}
  PROVE  \E x \in T : \A y \in T : x <= y
<1>. DEFINE below == {0..x : x \in T}
<1>1. below \subseteq FiniteSubsetsOf(Nat) /\ below # {}
  <2>1. \A x \in T : IsFiniteSet(0..x) /\ 0..x \in SUBSET Nat
    BY FS_Interval
  <2>. QED
    BY <2>1 DEF FiniteSubsetsOf
<1>2. PICK A \in below : \A B \in below : ~ (<<B, A>> \in StrictSubsetOrdering(Nat))
  <2>. HIDE DEF below
  <2>. QED
    BY <1>1, FS_StrictSubsetOrderingWellFounded, WFMin
<1>3. PICK x \in T : A = 0..x
  OBVIOUS
<1>4. ASSUME NEW y \in T, ~ x <= y
      PROVE  FALSE
  <2>1. x \in 0..x /\ x \notin 0..y /\ 0..y \subseteq 0..x
    BY <1>4
  <2>2. <<0..y, 0..x>> \in StrictSubsetOrdering(Nat)
    <3>1. 0..y \in SUBSET Nat /\ 0..x \in SUBSET Nat /\ 0..y # 0..x
      BY <2>1
    <3>. QED
      BY <2>1, <3>1 DEF StrictSubsetOrdering
  <2>. QED
    BY <1>2, <1>3, <2>2
<1>. QED
  BY <1>4

LEMMA Steps ==
  ASSUME NEW T, 0 \in T, \A n \in Nat : n \in T => n + 1 \in T
  PROVE  \A n \in Nat : n \in T
<1>. SUFFICES ASSUME Nat \ T # {}  PROVE FALSE
  OBVIOUS
<1>1. PICK x \in Nat \ T : \A y \in Nat \ T : x <= y
  BY LeastOf
<1>2. x - 1 \in Nat /\ (x - 1) + 1 = x
  BY <1>1
<1>3. x - 1 \in T
  BY <1>1, <1>2
<1>. QED
  BY <1>1, <1>2, <1>3

-----------------------------------------------------------------------------
(* A buffer and its pieces. *)

\* What FlattenSeq has put together after so many sequences.
Flat(S, seqs, f, k) ==
  /\ f \in [0..k -> Seq(S)] /\ f[0] = <<>>
  /\ \A i \in 1..k : f[i] = f[i - 1] \o seqs[i]

LEMMA FlattenGrows ==
  ASSUME NEW S, NEW seqs \in Seq(Seq(S))
  PROVE  \E flat : Flat(S, seqs, flat, Len(seqs)) /\ FlattenSeq(seqs) = flat[Len(seqs)]
<1>. PICK n \in Nat : n = Len(seqs)
  BY LenProperties
<1>1. \A i \in 1..n : seqs[i] \in Seq(S)
  BY ElementOfSeq
<1>. DEFINE T == {k \in Nat : k <= n => \E f : Flat(S, seqs, f, k)}
<1>2. 0 \in T
  <2>1. PICK f : f = [i \in 0..0 |-> <<>>]
    OBVIOUS
  <2>2. Flat(S, seqs, f, 0)
    BY <2>1, EmptySeq DEF Flat
  <2>. QED
    BY <2>2
<1>3. ASSUME NEW k \in Nat, k \in T
      PROVE  k + 1 \in T
  <2>. SUFFICES ASSUME k + 1 <= n
                PROVE  \E f : Flat(S, seqs, f, k + 1)
    OBVIOUS
  <2>1. PICK f : Flat(S, seqs, f, k)
    BY <1>3
  <2>2. PICK more : more = f[k] \o seqs[k + 1]
    OBVIOUS
  <2>3. more \in Seq(S)
    BY <1>1, <2>1, <2>2, ConcatProperties DEF Flat
  <2>4. PICK g : g = [i \in 0..(k + 1) |-> IF i = k + 1 THEN more ELSE f[i]]
    OBVIOUS
  <2>5. g \in [0..(k + 1) -> Seq(S)]
    <3>1. \A i \in 0..(k + 1) : i = k + 1 \/ i \in 0..k
      OBVIOUS
    <3>. QED
      BY <2>1, <2>3, <2>4, <3>1 DEF Flat
  <2>6. \A i \in 0..k : g[i] = f[i]
    BY <2>4
  <2>7. g[k + 1] = g[k] \o seqs[k + 1]
    <3>1. k \in 0..k /\ k + 1 \in 0..(k + 1)
      OBVIOUS
    <3>. QED
      BY <2>2, <2>4, <2>6, <3>1
  <2>8. \A i \in 1..k : g[i] = g[i - 1] \o seqs[i]
    <3>1. \A i \in 1..k : i \in 0..k /\ i - 1 \in 0..k
      OBVIOUS
    <3>. QED
      BY <2>1, <2>6, <3>1 DEF Flat
  <2>9. \A i \in 1..(k + 1) : i \in 1..k \/ i = k + 1
    OBVIOUS
  <2>10. g[0] = <<>>
    BY <2>1, <2>6 DEF Flat
  <2>11. \A i \in 1..(k + 1) : g[i] = g[i - 1] \o seqs[i]
    <3>. SUFFICES ASSUME NEW i \in 1..(k + 1)  PROVE g[i] = g[i - 1] \o seqs[i]
      OBVIOUS
    <3>1. CASE i \in 1..k
      BY <2>8, <3>1
    <3>2. CASE i = k + 1
      <4>1. i - 1 = k
        BY <3>2
      <4>. QED
        BY <2>7, <3>2, <4>1
    <3>. QED
      BY <2>9, <3>1, <3>2
  <2>. QED
    BY <2>5, <2>10, <2>11 DEF Flat
<1>4. n \in T
  <2>. HIDE DEF T
  <2>. QED
    BY <1>2, <1>3, Steps
<1>5. PICK flat : Flat(S, seqs, flat, n)
  BY <1>4
<1>6. FlattenSeq(seqs) = flat[n]
  <2>1. CASE n = 0
    <3>1. seqs = <<>>
      BY <2>1, EmptySeq
    <3>. QED
      BY <1>5, <2>1, <3>1 DEF FlattenSeq, Flat
  <2>2. CASE n # 0
    <3>. DEFINE F(f) == [i \in 1..n |-> IF i = 1 THEN seqs[i] ELSE f[i - 1] \o seqs[i]]
                h == CHOOSE f : f = F(f)
    <3>1. FlattenSeq(seqs) = h[n]
      BY <2>2 DEF FlattenSeq
    <3>2. \E f : f = F(f)
      <4>1. PICK g : g = [i \in 1..n |-> flat[i]]
        OBVIOUS
      <4>2. \A i \in 1..n : g[i] = IF i = 1 THEN seqs[i] ELSE g[i - 1] \o seqs[i]
        <5>1. CASE n >= 1
          <6>1. flat[1] = <<>> \o seqs[1]
            <7>1. 1 \in 1..n /\ 1 - 1 = 0
              BY <5>1
            <7>. QED
              BY <1>5, <7>1 DEF Flat
          <6>2. seqs[1] \in Seq(S)
            BY <1>1, <5>1
          <6>3. flat[1] = seqs[1]
            BY <6>1, <6>2, ConcatEmptySeq
          <6>4. \A i \in 1..n : i # 1 => i - 1 \in 1..n
            OBVIOUS
          <6>. QED
            BY <1>5, <4>1, <6>3, <6>4 DEF Flat
        <5>. QED
          BY <2>2, <5>1
      <4>3. g = F(g)
        BY <4>1, <4>2
      <4>. QED
        BY <4>3
    <3>3. h = F(h)
      <4>. HIDE DEF F
      <4>. QED
        BY <3>2
    <3>4. PICK f : f = h
      OBVIOUS
    <3>5. \A i \in 1..n : f[i] = IF i = 1 THEN seqs[i] ELSE f[i - 1] \o seqs[i]
      <4>. HIDE DEF h
      <4>. QED
        BY <3>3, <3>4
    <3>. DEFINE U == {k \in Nat : k + 1 <= n => f[k + 1] = flat[k + 1]}
    <3>6. 0 \in U
      <4>1. 1 \in 1..n /\ 1 - 1 = 0
        BY <2>2
      <4>2. flat[1] = <<>> \o seqs[1] /\ f[1] = seqs[1]
        BY <1>5, <3>5, <4>1 DEF Flat
      <4>3. flat[1] = seqs[1]
        BY <1>1, <4>1, <4>2, ConcatEmptySeq
      <4>. QED
        BY <4>2, <4>3
    <3>7. ASSUME NEW k \in Nat, k \in U
          PROVE  k + 1 \in U
      <4>. SUFFICES ASSUME k + 2 <= n  PROVE f[k + 2] = flat[k + 2]
        OBVIOUS
      <4>1. f[k + 1] = flat[k + 1]
        BY <3>7
      <4>2. k + 2 \in 1..n /\ k + 2 # 1 /\ (k + 2) - 1 = k + 1
        OBVIOUS
      <4>3. f[k + 2] = f[k + 1] \o seqs[k + 2]
        BY <3>5, <4>2
      <4>4. flat[k + 2] = flat[k + 1] \o seqs[k + 2]
        BY <1>5, <4>2 DEF Flat
      <4>. QED
        BY <4>1, <4>3, <4>4
    <3>8. n - 1 \in U
      <4>1. n - 1 \in Nat
        BY <2>2
      <4>. HIDE DEF U
      <4>. QED
        BY <3>6, <3>7, <4>1, Steps
    <3>9. f[n] = flat[n]
      <4>1. (n - 1) + 1 = n
        OBVIOUS
      <4>. QED
        BY <3>8, <4>1
    <3>. QED
      BY <3>1, <3>4, <3>9
  <2>. QED
    BY <2>1, <2>2
<1>. QED
  BY <1>5, <1>6

\* Where each of the sequences is in what they make together.
Places(seqs, flat, off) ==
  /\ off \in [0..Len(seqs) -> Nat] /\ off[0] = 0 /\ off[Len(seqs)] = Len(flat)
  /\ \A k \in 0..Len(seqs) : off[k] <= Len(flat)
  /\ \A k \in 1..Len(seqs) :
       /\ off[k] = off[k - 1] + Len(seqs[k])
       /\ \A j \in 1..Len(seqs[k]) : flat[off[k - 1] + j] = seqs[k][j]

LEMMA FlattenPlaces ==
  ASSUME NEW S, NEW seqs \in Seq(Seq(S))
  PROVE  FlattenSeq(seqs) \in Seq(S) /\ \E off : Places(seqs, FlattenSeq(seqs), off)
<1>1. PICK n \in Nat : n = Len(seqs)
  BY LenProperties
<1>2. PICK flat : Flat(S, seqs, flat, n) /\ FlattenSeq(seqs) = flat[n]
  BY <1>1, FlattenGrows
<1>3. \A k \in 0..n : flat[k] \in Seq(S) /\ Len(flat[k]) \in Nat
  BY <1>2, LenProperties DEF Flat
<1>4. \A k \in 1..n : seqs[k] \in Seq(S) /\ Len(seqs[k]) \in Nat
  BY <1>1, ElementOfSeq, LenProperties
<1>5. ASSUME NEW k \in 1..n
      PROVE  /\ Len(flat[k]) = Len(flat[k - 1]) + Len(seqs[k])
             /\ \A j \in 1..Len(flat[k - 1]) : flat[k][j] = flat[k - 1][j]
             /\ \A j \in 1..Len(seqs[k]) : flat[k][Len(flat[k - 1]) + j] = seqs[k][j]
  <2>1. PICK s, t, u : s = flat[k - 1] /\ t = seqs[k] /\ u = flat[k]
    OBVIOUS
  <2>2. s \in Seq(S) /\ t \in Seq(S) /\ Len(s) \in Nat /\ Len(t) \in Nat
    BY <1>3, <1>4, <2>1
  <2>3. u = s \o t
    BY <1>2, <2>1 DEF Flat
  <2>4. /\ Len(u) = Len(s) + Len(t)
        /\ \A i \in 1..(Len(s) + Len(t)) : u[i] = IF i <= Len(s) THEN s[i] ELSE t[i - Len(s)]
    BY <2>2, <2>3, ConcatProperties
  <2>5. \A j \in 1..Len(s) : u[j] = s[j]
    BY <2>2, <2>4
  <2>6. \A j \in 1..Len(t) : u[Len(s) + j] = t[j]
    <3>. SUFFICES ASSUME NEW j \in 1..Len(t)  PROVE u[Len(s) + j] = t[j]
      OBVIOUS
    <3>1. /\ Len(s) + j \in 1..(Len(s) + Len(t)) /\ ~ (Len(s) + j <= Len(s))
          /\ (Len(s) + j) - Len(s) = j
      BY <2>2
    <3>. QED
      BY <2>4, <3>1
  <2>. QED
    BY <2>1, <2>4, <2>5, <2>6
\* What was put together stays as it is.
<1>6. ASSUME NEW k \in 0..n
      PROVE  /\ Len(flat[k]) <= Len(flat[n])
             /\ \A j \in 1..Len(flat[k]) : flat[n][j] = flat[k][j]
  <2>. DEFINE Kept(m) == /\ Len(flat[k]) <= Len(flat[m])
                         /\ \A j \in 1..Len(flat[k]) : flat[m][j] = flat[k][j]
              T == {i \in Nat : k + i <= n => Kept(k + i)}
  <2>1. 0 \in T
    <3>1. k + 0 = k /\ Len(flat[k]) \in Nat
      BY <1>3
    <3>. QED
      BY <3>1
  <2>2. ASSUME NEW i \in Nat, i \in T
        PROVE  i + 1 \in T
    <3>. SUFFICES ASSUME k + (i + 1) <= n  PROVE Kept(k + (i + 1))
      OBVIOUS
    <3>1. PICK m \in 1..n : m = k + (i + 1) /\ m - 1 = k + i /\ m - 1 \in 0..n
      OBVIOUS
    <3>2. Kept(m - 1)
      BY <2>2, <3>1
    <3>3. /\ Len(flat[m]) \in Nat /\ Len(flat[m - 1]) \in Nat /\ Len(flat[k]) \in Nat
          /\ Len(seqs[m]) \in Nat
      BY <1>3, <1>4, <3>1
    <3>4. /\ Len(flat[m]) = Len(flat[m - 1]) + Len(seqs[m])
          /\ \A j \in 1..Len(flat[m - 1]) : flat[m][j] = flat[m - 1][j]
      BY <1>5
    <3>5. Len(flat[k]) <= Len(flat[m])
      <4>1. PICK a \in Nat, b \in Nat, c \in Nat, d \in Nat :
              a = Len(flat[k]) /\ b = Len(flat[m - 1]) /\ c = Len(flat[m]) /\ d = Len(seqs[m])
        BY <3>3
      <4>2. a <= b /\ c = b + d
        BY <3>2, <3>4, <4>1
      <4>3. a <= c
        BY <4>2
      <4>. QED
        BY <4>1, <4>3
    <3>6. \A j \in 1..Len(flat[k]) : j \in 1..Len(flat[m - 1])
      BY <3>2, <3>3
    <3>7. Kept(m)
      BY <3>2, <3>4, <3>5, <3>6
    <3>. QED
      BY <3>1, <3>7
  <2>3. n - k \in T
    <3>1. n - k \in Nat
      OBVIOUS
    <3>. HIDE DEF T
    <3>. QED
      BY <2>1, <2>2, <3>1, Steps
  <2>4. k + (n - k) = n
    OBVIOUS
  <2>. QED
    BY <2>3, <2>4
<1>7. PICK off : off = [k \in 0..n |-> Len(flat[k])]
  OBVIOUS
<1>8. off \in [0..n -> Nat] /\ \A k \in 0..n : off[k] = Len(flat[k])
  BY <1>3, <1>7
<1>9. off[0] = 0 /\ off[n] = Len(flat[n])
  <2>1. flat[0] = <<>>
    BY <1>2 DEF Flat
  <2>. QED
    BY <1>8, <2>1, EmptySeq
<1>10. ASSUME NEW k \in 1..n
       PROVE  /\ off[k] = off[k - 1] + Len(seqs[k])
              /\ \A j \in 1..Len(seqs[k]) : flat[n][off[k - 1] + j] = seqs[k][j]
  <2>1. k \in 0..n /\ k - 1 \in 0..n
    OBVIOUS
  <2>2. off[k] = Len(flat[k]) /\ off[k - 1] = Len(flat[k - 1])
    BY <1>8, <2>1
  <2>3. off[k] = off[k - 1] + Len(seqs[k])
    BY <1>5, <2>2
  <2>4. ASSUME NEW j \in 1..Len(seqs[k])
        PROVE  flat[n][off[k - 1] + j] = seqs[k][j]
    <3>1. off[k - 1] \in Nat /\ Len(seqs[k]) \in Nat
      BY <1>4, <1>8, <2>1
    <3>2. off[k - 1] + j \in 1..Len(flat[k])
      <4>1. PICK a \in Nat, b \in Nat : a = off[k - 1] /\ b = Len(seqs[k])
        BY <3>1
      <4>2. Len(flat[k]) = a + b /\ j \in 1..b
        BY <2>2, <2>3, <4>1
      <4>3. a + j \in 1..(a + b)
        BY <4>2
      <4>. QED
        BY <4>1, <4>2, <4>3
    <3>3. flat[n][off[k - 1] + j] = flat[k][off[k - 1] + j]
      BY <1>6, <2>1, <3>2
    <3>. QED
      BY <1>5, <2>2, <3>3
  <2>. QED
    BY <2>3, <2>4
<1>11. PICK all : all = flat[n]
  OBVIOUS
<1>12. \A k \in 0..n : off[k] <= Len(all)
  BY <1>6, <1>8, <1>11
<1>13. all \in Seq(S) /\ FlattenSeq(seqs) = all
  BY <1>2, <1>3, <1>11
<1>14. Places(seqs, all, off)
  BY <1>1, <1>8, <1>9, <1>10, <1>11, <1>12 DEF Places
<1>. QED
  BY <1>13, <1>14

-----------------------------------------------------------------------------
(* The reader of a buffer. *)

\* Each token moves the reader on from what it had found before.
LEMMA ReadingSteps ==
  ASSUME NEW tokens, Len(tokens) \in Nat
  PROVE  /\ Reading(tokens)[0] = Found("id", <<>>)
         /\ \A i \in 1..Len(tokens) :
              Reading(tokens)[i] = ParseToken(Reading(tokens)[i - 1], tokens[i])
<1>. PICK n \in Nat : n = Len(tokens)
  OBVIOUS
<1>. DEFINE F(f, k) == [i \in 0..k |-> IF i = 0 THEN Found("id", <<>>)
                                       ELSE ParseToken(f[i - 1], tokens[i])]
            T == {k \in Nat : \E f : f = F(f, k)}
<1>1. 0 \in T
  <2>1. PICK f : f = [i \in 0..0 |-> Found("id", <<>>)]
    OBVIOUS
  <2>2. F(f, 0) = f
    BY <2>1
  <2>. QED
    BY <2>2
<1>2. ASSUME NEW k \in Nat, k \in T
      PROVE  k + 1 \in T
  <2>1. PICK f : f = F(f, k)
    BY <1>2
  <2>2. PICK g : g = [i \in 0..(k + 1) |-> IF i = k + 1 THEN ParseToken(f[k], tokens[k + 1])
                                           ELSE f[i]]
    OBVIOUS
  <2>3. \A i \in 0..(k + 1) : g[i] = IF i = 0 THEN Found("id", <<>>)
                                     ELSE ParseToken(g[i - 1], tokens[i])
    <3>. SUFFICES ASSUME NEW i \in 0..(k + 1)
                  PROVE  g[i] = IF i = 0 THEN Found("id", <<>>)
                                ELSE ParseToken(g[i - 1], tokens[i])
      OBVIOUS
    <3>1. CASE i = k + 1
      <4>1. i # 0 /\ i - 1 = k /\ k \in 0..(k + 1) /\ k # k + 1
        BY <3>1
      <4>2. g[k] = f[k]
        BY <2>2, <4>1
      <4>. QED
        BY <2>2, <3>1, <4>1, <4>2
    <3>2. CASE i \in 0..k
      <4>1. g[i] = f[i]
        BY <2>2, <3>2
      <4>2. f[i] = IF i = 0 THEN Found("id", <<>>) ELSE ParseToken(f[i - 1], tokens[i])
        BY <2>1, <3>2
      <4>3. i # 0 => g[i - 1] = f[i - 1]
        BY <2>2, <3>2
      <4>. QED
        BY <4>1, <4>2, <4>3
    <3>. QED
      BY <3>1, <3>2
  <2>4. g = F(g, k + 1)
    BY <2>2, <2>3
  <2>. QED
    BY <2>4
<1>3. \E f : f = F(f, n)
  <2>1. n \in T
    <3>. HIDE DEF T
    <3>. QED
      BY <1>1, <1>2, Steps
  <2>. QED
    BY <2>1
<1>4. Reading(tokens) = F(Reading(tokens), n)
  <2>1. Reading(tokens) = CHOOSE f : f = F(f, n)
    BY DEF Reading
  <2>. HIDE DEF F
  <2>. QED
    BY <1>3, <2>1
<1>5. PICK r : r = Reading(tokens)
  OBVIOUS
<1>6. r = F(r, n)
  BY <1>4, <1>5
<1>. QED
  BY <1>5, <1>6

-----------------------------------------------------------------------------
(* Recipients in the buffer. *)

\* A recipient that is read: the account, its devices, its part.
Read(U) == [service : U, devices : Seq(Device), key : Nat]

\* The tokens of a buffer.
Tokens(U) ==
  {Id(s) : s \in U} \cup {NoDevice} \cup {Part(k) : k \in Nat}
    \cup [is : {"device"}, device : {x.deviceId : x \in Addresses}, reg : Nat, more : BOOLEAN]

LEMMA SubSeqMore ==
  ASSUME NEW S, NEW s \in Seq(S), NEW k \in 0..Len(s)
  PROVE  /\ SubSeq(s, 1, k) \in Seq(S)
         /\ k + 1 <= Len(s) => SubSeq(s, 1, k + 1) = Append(SubSeq(s, 1, k), s[k + 1])
<1>1. PICK n \in Nat : n = Len(s) /\ \A i \in 1..n : s[i] \in S
  BY LenProperties, ElementOfSeq
<1>2. PICK a : a = SubSeq(s, 1, k)
  OBVIOUS
<1>3. a \in Seq(S) /\ Len(a) = k /\ \A i \in 1..k : a[i] = s[i]
  <2>1. \A i \in 1..k : s[i] \in S
    BY <1>1
  <2>. QED
    BY <1>1, <1>2, <2>1, SubSeqProperties
<1>4. ASSUME k + 1 <= n
      PROVE  SubSeq(s, 1, k + 1) = Append(a, s[k + 1])
  <2>1. PICK b, c : b = SubSeq(s, 1, k + 1) /\ c = Append(a, s[k + 1])
    OBVIOUS
  <2>2. b \in Seq(S) /\ Len(b) = k + 1 /\ \A i \in 1..(k + 1) : b[i] = s[i]
    <3>1. \A i \in 1..(k + 1) : s[i] \in S
      BY <1>1, <1>4
    <3>. QED
      BY <1>1, <1>4, <2>1, <3>1, SubSeqProperties
  <2>3. /\ c \in Seq(S) /\ Len(c) = k + 1
        /\ (\A i \in 1..k : c[i] = a[i]) /\ c[k + 1] = s[k + 1]
    BY <1>1, <1>3, <1>4, <2>1, AppendProperties
  <2>4. \A i \in 1..(k + 1) : b[i] = c[i]
    <3>1. \A i \in 1..(k + 1) : i \in 1..k \/ i = k + 1
      OBVIOUS
    <3>. QED
      BY <1>3, <2>2, <2>3, <3>1
  <2>5. b = c
    BY <2>2, <2>3, <2>4, SeqEqual
  <2>. QED
    BY <2>1, <2>5
<1>. QED
  BY <1>1, <1>2, <1>3, <1>4

\* The last of the recipients is exchanged.
LEMMA WithLastOf ==
  ASSUME NEW S, NEW rs \in Seq(S), NEW r \in S, NEW q \in S
  PROVE  /\ Last(Append(rs, r)) = r
         /\ WithLast(Append(rs, r), q) = Append(rs, q)
<1>1. PICK a, b, n : a = Append(rs, r) /\ b = Append(rs, q) /\ n = Len(rs)
  OBVIOUS
<1>2. /\ n \in Nat /\ a \in Seq(S) /\ b \in Seq(S) /\ Len(a) = n + 1 /\ Len(b) = n + 1
      /\ \A i \in 1..n : a[i] = rs[i] /\ b[i] = rs[i]
      /\ a[n + 1] = r /\ b[n + 1] = q
  BY <1>1, AppendProperties, LenProperties
<1>3. PICK c : c = [a EXCEPT ![n + 1] = q]
  OBVIOUS
<1>4. /\ c \in Seq(S) /\ Len(c) = n + 1
      /\ \A j \in 1..(n + 1) : c[j] = IF j = n + 1 THEN q ELSE a[j]
  <2>1. n + 1 \in 1..Len(a)
    BY <1>2
  <2>. QED
    BY <1>2, <1>3, <2>1, ExceptSeq
<1>5. \A j \in 1..(n + 1) : c[j] = b[j]
  <2>1. \A j \in 1..(n + 1) : j = n + 1 \/ j \in 1..n
    BY <1>2
  <2>. QED
    BY <1>2, <1>4, <2>1
<1>6. c = b
  BY <1>2, <1>4, <1>5, SeqEqual
<1>. QED
  BY <1>1, <1>2, <1>3, <1>6 DEF Last, WithLast

LEMMA RecipientTokensAre ==
  ASSUME NEW U, NEW r \in Read(U)
  PROVE  /\ RecipientTokens(r) \in Seq(Tokens(U))
         /\ Len(RecipientTokens(r)) = Len(r.devices) + 2
         /\ RecipientTokens(r)[1] = Id(r.service)
         /\ \A j \in 1..Len(r.devices) :
              RecipientTokens(r)[1 + j] = DeviceOf(r.devices[j], j < Len(r.devices))
         /\ RecipientTokens(r)[Len(r.devices) + 2] = Part(r.key)
<1>1. r.service \in U /\ r.devices \in Seq(Device) /\ r.key \in Nat
  BY DEF Read
<1>2. PICK ds \in Seq(Device), m \in Nat : ds = r.devices /\ m = Len(ds)
  BY <1>1, LenProperties
<1>3. PICK a, b, c, all :
        /\ a = <<Id(r.service)>> /\ b = DeviceTokens(ds) /\ c = <<Part(r.key)>>
        /\ all = a \o b \o c
  OBVIOUS
<1>4. a \in Seq(Tokens(U)) /\ Len(a) = 1 /\ a[1] = Id(r.service)
  BY <1>1, <1>3 DEF Tokens
<1>5. c \in Seq(Tokens(U)) /\ Len(c) = 1 /\ c[1] = Part(r.key)
  BY <1>1, <1>3 DEF Tokens
<1>6. b \in Seq(Tokens(U)) /\ Len(b) = m /\ \A j \in 1..m : b[j] = DeviceOf(ds[j], j < m)
  <2>1. b = [j \in 1..m |-> DeviceOf(ds[j], j < m)]
    BY <1>2, <1>3, LenProperties DEF DeviceTokens
  <2>2. \A j \in 1..m : DeviceOf(ds[j], j < m) \in Tokens(U)
    <3>. SUFFICES ASSUME NEW j \in 1..m  PROVE DeviceOf(ds[j], j < m) \in Tokens(U)
      OBVIOUS
    <3>1. ds[j] \in Device
      BY <1>2, ElementOfSeq
    <3>2. DeviceOf(ds[j], j < m)
            \in [is : {"device"}, device : {x.deviceId : x \in Addresses}, reg : Nat, more : BOOLEAN]
      BY <3>1 DEF DeviceOf, Device
    <3>. QED
      BY <3>2 DEF Tokens
  <2>3. b \in [1..m -> Tokens(U)]
    BY <2>1, <2>2
  <2>. QED
    BY <2>1, <2>3, AsSeq
<1>7. PICK ab, S : ab = a \o b /\ S = Tokens(U)
  OBVIOUS
<1>8. /\ ab \in Seq(Tokens(U)) /\ Len(ab) = 1 + m /\ ab[1] = a[1]
      /\ \A j \in 1..m : ab[1 + j] = b[j]
  <2>1. a \in Seq(S) /\ b \in Seq(S) /\ Len(a) = 1 /\ Len(b) = m
    BY <1>4, <1>6, <1>7
  <2>2. /\ ab \in Seq(S) /\ Len(ab) = Len(a) + Len(b)
         /\ \A i \in 1..(Len(a) + Len(b)) : ab[i] = IF i <= Len(a) THEN a[i] ELSE b[i - Len(a)]
    BY <1>7, <2>1, ConcatProperties
  <2>3. /\ ab \in Seq(S) /\ Len(ab) = 1 + m
        /\ \A i \in 1..(1 + m) : ab[i] = IF i <= 1 THEN a[i] ELSE b[i - 1]
    BY <2>1, <2>2
  <2>4. \A j \in 1..m : 1 + j \in 1..(1 + m) /\ ~ (1 + j <= 1) /\ (1 + j) - 1 = j
    OBVIOUS
  <2>5. 1 \in 1..(1 + m) /\ 1 <= 1
    OBVIOUS
  <2>. QED
    BY <1>7, <2>3, <2>4, <2>5
<1>9. /\ all \in Seq(Tokens(U)) /\ Len(all) = m + 2
      /\ \A i \in 1..(1 + m) : all[i] = ab[i]
      /\ all[m + 2] = c[1]
  <2>1. ab \in Seq(S) /\ c \in Seq(S) /\ Len(ab) = 1 + m /\ Len(c) = 1 /\ all = ab \o c
    BY <1>3, <1>5, <1>7, <1>8
  <2>2. /\ all \in Seq(S) /\ Len(all) = Len(ab) + Len(c)
         /\ \A i \in 1..(Len(ab) + Len(c)) : all[i] = IF i <= Len(ab) THEN ab[i] ELSE c[i - Len(ab)]
    BY <2>1, ConcatProperties
  <2>3. /\ all \in Seq(S) /\ Len(all) = 1 + m + 1
        /\ \A i \in 1..(1 + m + 1) : all[i] = IF i <= 1 + m THEN ab[i] ELSE c[i - (1 + m)]
    BY <2>1, <2>2
  <2>4. m + 2 \in 1..(1 + m + 1) /\ ~ (m + 2 <= 1 + m) /\ (m + 2) - (1 + m) = 1
    OBVIOUS
  <2>5. \A i \in 1..(1 + m) : i \in 1..(1 + m + 1) /\ i <= 1 + m
    OBVIOUS
  <2>6. all[m + 2] = c[1]
    BY <2>3, <2>4
  <2>7. Len(all) = m + 2
    BY <2>3
  <2>. QED
    BY <1>7, <2>3, <2>5, <2>6, <2>7
<1>10. \A j \in 1..m : all[1 + j] = DeviceOf(ds[j], j < m)
  <2>. SUFFICES ASSUME NEW j \in 1..m  PROVE all[1 + j] = DeviceOf(ds[j], j < m)
    OBVIOUS
  <2>1. 1 + j \in 1..(1 + m)
    OBVIOUS
  <2>2. all[1 + j] = ab[1 + j] /\ ab[1 + j] = b[j] /\ b[j] = DeviceOf(ds[j], j < m)
    BY <1>6, <1>8, <1>9, <2>1
  <2>. QED
    BY <2>2
<1>11. RecipientTokens(r) = all
  BY <1>2, <1>3 DEF RecipientTokens
<1>12. 1 \in 1..(1 + m)
  OBVIOUS
<1>13. all[1] = Id(r.service) /\ all[m + 2] = Part(r.key)
  BY <1>4, <1>5, <1>8, <1>9, <1>12
<1>. QED
  BY <1>2, <1>9, <1>10, <1>11, <1>13

\* The reader moves on from where it is, over these tokens.
MovesOn(read, p, its) ==
  \A j \in 1..Len(its) : read[p + j] = ParseToken(read[p + j - 1], its[j])

\* From one recipient to the next: its id, its devices with the mark on all but
\* the last of them, its part.
LEMMA RecipientIsRead ==
  ASSUME NEW U, NEW rs \in Seq(Read(U)), NEW r \in Read(U), r.devices # <<>>,
         fromFixed(getServiceIdFixedWidthBinary(r.service)) = r.service,
         NEW read, NEW p \in Nat, read[p] = Found("id", rs),
         MovesOn(read, p, RecipientTokens(r))
  PROVE  read[p + Len(RecipientTokens(r))] = Found("id", Append(rs, r))
<1>1. PICK s \in U, ds \in Seq(Device), key \in Nat, m \in Nat :
        /\ s = r.service /\ ds = r.devices /\ key = r.key /\ m = Len(ds) /\ m >= 1
        /\ r = [service |-> s, devices |-> ds, key |-> key]
  <2>1. r.devices \in Seq(Device) /\ r.devices # <<>>
    BY DEF Read
  <2>2. Len(r.devices) \in Nat /\ Len(r.devices) >= 1
    BY <2>1, EmptySeq
  <2>3. r.service \in U /\ r.key \in Nat
        /\ r = [service |-> r.service, devices |-> r.devices, key |-> r.key]
    BY DEF Read
  <2>. QED
    BY <2>1, <2>2, <2>3
<1>2. PICK its :
        /\ its = RecipientTokens(r) /\ Len(its) = m + 2 /\ its[1] = Id(s)
        /\ \A j \in 1..m : its[1 + j] = DeviceOf(ds[j], j < m)
        /\ its[m + 2] = Part(key)
  BY <1>1, RecipientTokensAre
<1>3. \A j \in 1..(m + 2) : read[p + j] = ParseToken(read[p + j - 1], its[j])
  BY <1>2 DEF MovesOn
<1>. DEFINE Now(j) == [service |-> s, devices |-> SubSeq(ds, 1, j), key |-> NoPart]
            T == {j \in Nat : j <= m =>
                    read[p + 1 + j] = Found(IF j < m THEN "device" ELSE "part", Append(rs, Now(j)))}
<1>4. \A j \in 0..m : SubSeq(ds, 1, j) \in Seq(Device)
  BY <1>1, SubSeqMore
<1>5. \A j \in 0..m : Now(j) \in Read(U)
  BY <1>1, <1>4 DEF Read, NoPart
<1>6. 0 \in T
  <2>1. SubSeq(ds, 1, 0) = <<>>
    BY SubSeqEmpty
  <2>2. read[p + 1] = ParseToken(read[p], its[1])
    <3>1. 1 \in 1..(m + 2) /\ p + 1 - 1 = p
      OBVIOUS
    <3>. QED
      BY <1>3, <3>1
  <2>3. read[p + 1] = ParseToken(Found("id", rs), Id(s))
    BY <1>2, <2>2
  <2>4. fromFixed(getServiceIdFixedWidthBinary(s)) = s
    BY <1>1
  <2>5. read[p + 1] = Found("device", Append(rs, [service |-> s, devices |-> <<>>, key |-> NoPart]))
    BY <2>3, <2>4 DEF ParseToken, Found, Id
  <2>. QED
    BY <1>1, <2>1, <2>5
<1>7. ASSUME NEW j \in Nat, j \in T
      PROVE  j + 1 \in T
  <2>. SUFFICES ASSUME j + 1 <= m
                PROVE  read[p + 1 + (j + 1)]
                         = Found(IF j + 1 < m THEN "device" ELSE "part", Append(rs, Now(j + 1)))
    OBVIOUS
  <2>1. PICK d \in Device : d = ds[j + 1]
    BY <1>1, ElementOfSeq
  <2>2. read[p + 1 + j] = Found("device", Append(rs, Now(j)))
    BY <1>7
  <2>3. its[j + 2] = DeviceOf(d, j + 1 < m)
    <3>1. j + 1 \in 1..m /\ 1 + (j + 1) = j + 2
      OBVIOUS
    <3>. QED
      BY <1>2, <2>1, <3>1
  <2>4. read[p + 1 + (j + 1)] = ParseToken(read[p + 1 + j], its[j + 2])
    <3>1. PICK i \in 1..(m + 2) : i = j + 2
      OBVIOUS
    <3>2. p + i = p + 1 + (j + 1) /\ p + i - 1 = p + 1 + j
      BY <3>1
    <3>. QED
      BY <1>3, <3>1, <3>2
  <2>5. PICK old, new : old = Now(j) /\ new = Now(j + 1)
    OBVIOUS
  <2>6. old \in Read(U) /\ new \in Read(U)
    <3>1. j \in 0..m /\ j + 1 \in 0..m
      OBVIOUS
    <3>. HIDE DEF Now
    <3>. QED
      BY <1>5, <2>5, <3>1
  <2>7. [device |-> d.device, reg |-> d.reg] = d
    BY DEF Device
  <2>8. new = [old EXCEPT !.devices = Append(@, d)]
    <3>1. SubSeq(ds, 1, j + 1) = Append(SubSeq(ds, 1, j), d)
      BY <1>1, <2>1, SubSeqMore
    <3>2. PICK a, b, none : /\ a = SubSeq(ds, 1, j) /\ b = SubSeq(ds, 1, j + 1) /\ b = Append(a, d)
                            /\ none = NoPart
      BY <3>1
    <3>3. /\ old = [service |-> s, devices |-> a, key |-> none]
          /\ new = [service |-> s, devices |-> b, key |-> none]
      BY <2>5, <3>2
    <3>4. [old EXCEPT !.devices = b] = new /\ old.devices = a
      <4>. HIDE DEF Now, T
      <4>. QED
        BY <3>3
    <3>. QED
      BY <3>2, <3>4, Zenon
  <2>9. Last(Append(rs, old)) = old /\ WithLast(Append(rs, old), new) = Append(rs, new)
    BY <2>6, WithLastOf
  <2>10. PICK f, all : f = Found("device", all) /\ all = Append(rs, old)
    OBVIOUS
  <2>11. read[p + 1 + (j + 1)] = ParseToken(f, DeviceOf(d, j + 1 < m))
    BY <2>2, <2>3, <2>4, <2>5, <2>10
  <2>12. ParseToken(f, DeviceOf(d, j + 1 < m))
           = Found(IF j + 1 < m THEN "device" ELSE "part",
                   WithLast(all, [Last(all) EXCEPT !.devices =
                                    Append(@, [device |-> d.device, reg |-> d.reg])]))
    BY <2>10 DEF ParseToken, DeviceOf, Found
  <2>. HIDE DEF Now
  <2>. QED
    BY <2>5, <2>7, <2>8, <2>9, <2>10, <2>11, <2>12
<1>8. read[p + 1 + m] = Found("part", Append(rs, Now(m)))
  <2>1. m \in T
    <3>. HIDE DEF T
    <3>. QED
      BY <1>6, <1>7, Steps
  <2>. HIDE DEF Now
  <2>. QED
    BY <2>1
<1>9. Now(m) = [service |-> s, devices |-> ds, key |-> NoPart]
  BY <1>1, SubSeqFull
<1>10. read[p + m + 2] = ParseToken(read[p + 1 + m], Part(key))
  <2>1. PICK i \in 1..(m + 2) : i = m + 2
    OBVIOUS
  <2>2. p + i = p + m + 2 /\ p + i - 1 = p + 1 + m
    BY <2>1
  <2>. QED
    BY <1>2, <1>3, <2>1, <2>2
<1>11. PICK old : old = Now(m)
  OBVIOUS
<1>12. old \in Read(U) /\ [old EXCEPT !.key = key] = r
  <2>1. m \in 0..m
    OBVIOUS
  <2>2. old \in Read(U)
    <3>. HIDE DEF Now
    <3>. QED
      BY <1>5, <1>11, <2>1
  <2>3. old = [service |-> s, devices |-> ds, key |-> NoPart]
    <3>. HIDE DEF Now
    <3>. QED
      BY <1>9, <1>11
  <2>4. [old EXCEPT !.key = key] = [service |-> s, devices |-> ds, key |-> key]
    BY <2>3
  <2>. QED
    BY <1>1, <2>2, <2>4
<1>13. Last(Append(rs, old)) = old /\ WithLast(Append(rs, old), r) = Append(rs, r)
  BY <1>12, WithLastOf
<1>14. PICK all : all = Append(rs, old)
  OBVIOUS
<1>15. read[p + m + 2] = ParseToken(Found("part", all), Part(key))
  <2>. HIDE DEF Now
  <2>. QED
    BY <1>8, <1>10, <1>11, <1>14
<1>16. ParseToken(Found("part", all), Part(key)) = Found("id", WithLast(all, [Last(all) EXCEPT !.key = key]))
  BY DEF ParseToken, Part, Found
<1>17. p + Len(RecipientTokens(r)) = p + m + 2
  BY <1>2
<1>. HIDE DEF Now
<1>. QED
  BY <1>12, <1>13, <1>14, <1>15, <1>16, <1>17

\* An excluded account has an id and no device.
LEMMA ExcludedIsRead ==
  ASSUME NEW S, NEW rs \in Seq(S), NEW s, NEW q \in S,
         q = [service |-> fromFixed(getServiceIdFixedWidthBinary(s)), devices |-> <<>>, key |-> NoPart],
         NEW read, NEW p \in Nat, read[p] = Found("id", rs),
         MovesOn(read, p, ExcludedTokens(s))
  PROVE  read[p + Len(ExcludedTokens(s))] = Found("id", Append(rs, q))
<1>1. PICK its : its = ExcludedTokens(s) /\ Len(its) = 2 /\ its[1] = Id(s) /\ its[2] = NoDevice
  BY DEF ExcludedTokens
<1>2. \A j \in 1..2 : read[p + j] = ParseToken(read[p + j - 1], its[j])
  BY <1>1 DEF MovesOn
<1>3. read[p + 1] = Found("device", Append(rs, q))
  <2>1. read[p + 1] = ParseToken(read[p], its[1])
    <3>1. 1 \in 1..2 /\ p + 1 - 1 = p
      OBVIOUS
    <3>. QED
      BY <1>2, <3>1
  <2>. QED
    BY <1>1, <2>1 DEF ParseToken, Found, Id
<1>4. Last(Append(rs, q)) = q /\ q.devices = <<>>
  BY WithLastOf
<1>5. read[p + 2] = ParseToken(Found("device", Append(rs, q)), NoDevice)
  <2>1. 2 \in 1..2 /\ p + 2 - 1 = p + 1
    OBVIOUS
  <2>. QED
    BY <1>1, <1>2, <1>3, <2>1
<1>. QED
  BY <1>1, <1>4, <1>5 DEF ParseToken, Found, NoDevice


\* What a reader finds: the listed recipients as they were written, and after them
\* some that have no device.
FoundAs(rs, list, n) ==
  /\ DOMAIN rs = 1..n /\ DOMAIN list \subseteq DOMAIN rs
  /\ \A i \in DOMAIN list : rs[i] = list[i]
  /\ \A i \in DOMAIN rs \ DOMAIN list : rs[i].devices = <<>>

\* parseSent undoes sealForMany, for every list and every list of excluded ones.
LEMMA ParsesBack ==
  ASSUME NEW U, \A s \in U : fromFixed(getServiceIdFixedWidthBinary(s)) \in U,
         NEW list \in Seq(Read(U)), NEW excluded \in Seq(U),
         \A i \in DOMAIN list :
           /\ list[i].devices # <<>>
           /\ fromFixed(getServiceIdFixedWidthBinary(list[i].service)) = list[i].service
  PROVE  FoundAs(ParseSent(SealForMany(list, excluded)), list, Len(list) + Len(excluded))
<1>1. PICK n1 \in Nat, n2 \in Nat, n \in Nat :
        /\ n1 = Len(list) /\ n2 = Len(excluded) /\ n = n1 + n2
        /\ DOMAIN list = 1..n1 /\ DOMAIN excluded = 1..n2
  BY LenProperties
<1>. DEFINE Out(s) == [service |-> fromFixed(getServiceIdFixedWidthBinary(s)),
                       devices |-> <<>>, key |-> NoPart]
<1>2. PICK want : want = [k \in 1..n |-> IF k <= n1 THEN list[k] ELSE Out(excluded[k - n1])]
  OBVIOUS
<1>3. want \in Seq(Read(U)) /\ Len(want) = n
  <2>1. ASSUME NEW k \in 1..n  PROVE want[k] \in Read(U)
    <3>1. CASE k <= n1
      BY <1>1, <1>2, <3>1, ElementOfSeq
    <3>2. CASE ~ (k <= n1)
      <4>1. PICK s \in U : s = excluded[k - n1]
        BY <1>1, <3>2, ElementOfSeq
      <4>2. <<>> \in Seq(Device)
        BY EmptySeq
      <4>3. Out(s) \in Read(U)
        BY <4>2 DEF Read, NoPart
      <4>. QED
        BY <1>2, <3>2, <4>1, <4>3
    <3>. QED
      BY <3>1, <3>2
  <2>2. want \in [1..n -> Read(U)]
    BY <1>2, <2>1
  <2>. QED
    BY <2>2, AsSeq
<1>4. PICK seqs : seqs = [i \in DOMAIN list |-> RecipientTokens(list[i])]
                           \o [i \in DOMAIN excluded |-> ExcludedTokens(excluded[i])]
  OBVIOUS
<1>5. /\ seqs \in Seq(Seq(Tokens(U))) /\ Len(seqs) = n
      /\ \A k \in 1..n : seqs[k] = IF k <= n1 THEN RecipientTokens(list[k])
                                   ELSE ExcludedTokens(excluded[k - n1])
  <2>1. PICK a, b : /\ a = [i \in 1..n1 |-> RecipientTokens(list[i])]
                    /\ b = [i \in 1..n2 |-> ExcludedTokens(excluded[i])]
    OBVIOUS
  <2>2. \A i \in 1..n1 : RecipientTokens(list[i]) \in Seq(Tokens(U))
    BY <1>1, ElementOfSeq, RecipientTokensAre
  <2>3. \A i \in 1..n2 : ExcludedTokens(excluded[i]) \in Seq(Tokens(U))
    <3>. SUFFICES ASSUME NEW i \in 1..n2  PROVE ExcludedTokens(excluded[i]) \in Seq(Tokens(U))
      OBVIOUS
    <3>1. Id(excluded[i]) \in Tokens(U) /\ NoDevice \in Tokens(U)
      BY <1>1, ElementOfSeq DEF Tokens
    <3>. QED
      BY <3>1 DEF ExcludedTokens
  <2>4. /\ a \in [1..n1 -> Seq(Tokens(U))] /\ b \in [1..n2 -> Seq(Tokens(U))]
    BY <2>1, <2>2, <2>3
  <2>5. a \in Seq(Seq(Tokens(U))) /\ b \in Seq(Seq(Tokens(U))) /\ Len(a) = n1 /\ Len(b) = n2
    BY <2>4, AsSeq
  <2>6. seqs = a \o b
    BY <1>1, <1>4, <2>1
  <2>7. /\ seqs \in Seq(Seq(Tokens(U))) /\ Len(seqs) = n1 + n2
        /\ \A k \in 1..(n1 + n2) : seqs[k] = IF k <= n1 THEN a[k] ELSE b[k - n1]
    BY <2>5, <2>6, ConcatProperties
  <2>8. \A k \in 1..n : k <= n1 => k \in 1..n1
    BY <1>1
  <2>9. \A k \in 1..n : ~ (k <= n1) => k - n1 \in 1..n2
    BY <1>1
  <2>. QED
    BY <1>1, <2>1, <2>7, <2>8, <2>9
<1>6. PICK tokens, off, N :
        /\ tokens \in Seq(Tokens(U)) /\ N \in Nat
        /\ tokens = FlattenSeq(seqs) /\ Places(seqs, tokens, off) /\ N = Len(tokens)
  <2>1. PICK S : S = Tokens(U)
    OBVIOUS
  <2>2. seqs \in Seq(Seq(S))
    BY <1>5, <2>1
  <2>3. PICK all : all = FlattenSeq(seqs)
    OBVIOUS
  <2>4. all \in Seq(S) /\ \E o : Places(seqs, all, o)
    BY <2>2, <2>3, FlattenPlaces
  <2>5. Len(all) \in Nat
    BY <2>4, LenProperties
  <2>. QED
    BY <2>1, <2>3, <2>4, <2>5
<1>7. PICK read : read = Reading(tokens)
  OBVIOUS
<1>8. /\ read[0] = Found("id", <<>>)
      /\ \A i \in 1..N : read[i] = ParseToken(read[i - 1], tokens[i])
  BY <1>6, <1>7, ReadingSteps
<1>. DEFINE T == {k \in Nat : k <= n => read[off[k]] = Found("id", SubSeq(want, 1, k))}
<1>9. 0 \in T
  <2>1. SubSeq(want, 1, 0) = <<>>
    BY SubSeqEmpty
  <2>2. off[0] = 0
    BY <1>6 DEF Places
  <2>. QED
    BY <1>8, <2>1, <2>2
<1>10. ASSUME NEW k \in Nat, k \in T
       PROVE  k + 1 \in T
  <2>. SUFFICES ASSUME k + 1 <= n
                PROVE  read[off[k + 1]] = Found("id", SubSeq(want, 1, k + 1))
    OBVIOUS
  <2>1. PICK p \in Nat, m \in Nat, next \in Nat :
          /\ p = off[k] /\ m = Len(seqs[k + 1]) /\ next = off[k + 1]
          /\ next = p + m /\ next <= N
          /\ \A j \in 1..m : tokens[p + j] = seqs[k + 1][j]
    <3>. HIDE DEF T
    <3>1. k \in 0..n /\ k + 1 \in 0..n /\ k + 1 \in 1..n /\ (k + 1) - 1 = k
      OBVIOUS
    <3>2. off[k] \in Nat /\ off[k + 1] \in Nat /\ off[k + 1] <= N
      BY <1>5, <1>6, <3>1 DEF Places
    <3>3. /\ off[k + 1] = off[k] + Len(seqs[k + 1])
          /\ \A j \in 1..Len(seqs[k + 1]) : tokens[off[k] + j] = seqs[k + 1][j]
      BY <1>5, <1>6, <3>1 DEF Places
    <3>4. Len(seqs[k + 1]) \in Nat
      BY <1>5, <3>1, ElementOfSeq, LenProperties
    <3>. QED
      BY <3>2, <3>3, <3>4
  <2>2. PICK rs : rs = SubSeq(want, 1, k) /\ read[p] = Found("id", rs)
    <3>1. read[off[k]] = Found("id", SubSeq(want, 1, k))
      BY <1>10
    <3>. HIDE DEF T
    <3>. QED
      BY <2>1, <3>1
  <2>3. PICK r \in Read(U) : r = want[k + 1]
    BY <1>3, ElementOfSeq
  <2>4. rs \in Seq(Read(U)) /\ SubSeq(want, 1, k + 1) = Append(rs, r)
    <3>1. k \in 0..Len(want) /\ k + 1 <= Len(want)
      BY <1>3
    <3>. HIDE DEF T, Out
    <3>. QED
      BY <1>3, <2>2, <2>3, <3>1, SubSeqMore
  <2>5. MovesOn(read, p, seqs[k + 1])
    <3>. SUFFICES ASSUME NEW j \in 1..m
                  PROVE  read[p + j] = ParseToken(read[p + j - 1], seqs[k + 1][j])
      BY <2>1 DEF MovesOn
    <3>1. p + j \in 1..N
      <4>1. p + m <= N
        BY <2>1
      <4>2. N \in Nat
        BY <1>6
      <4>. HIDE DEF T, Out
      <4>. QED
        BY <4>1, <4>2
    <3>2. read[p + j] = ParseToken(read[p + j - 1], tokens[p + j])
      BY <1>8, <3>1
    <3>3. tokens[p + j] = seqs[k + 1][j]
      BY <2>1
    <3>. QED
      BY <3>2, <3>3
  <2>6. CASE k + 1 <= n1
    <3>1. r = list[k + 1] /\ seqs[k + 1] = RecipientTokens(r)
      BY <1>2, <1>5, <2>3, <2>6
    <3>2. /\ r.devices # <<>>
          /\ fromFixed(getServiceIdFixedWidthBinary(r.service)) = r.service
      BY <1>1, <2>6, <3>1
    <3>3. MovesOn(read, p, RecipientTokens(r))
      BY <2>5, <3>1
    <3>4. read[p + Len(RecipientTokens(r))] = Found("id", Append(rs, r))
      <4>1. read[p] = Found("id", rs) /\ rs \in Seq(Read(U))
        BY <2>2, <2>4
      <4>. HIDE DEF T, Out
      <4>. QED
        BY <3>2, <3>3, <4>1, RecipientIsRead
    <3>. QED
      BY <2>1, <2>4, <3>1, <3>4
  <2>7. CASE ~ (k + 1 <= n1)
    <3>1. PICK s \in U : s = excluded[(k + 1) - n1]
      <4>1. (k + 1) - n1 \in 1..n2
        BY <1>1, <2>7
      <4>. QED
        BY <1>1, <4>1, ElementOfSeq
    <3>2. r = Out(s) /\ seqs[k + 1] = ExcludedTokens(s)
      BY <1>2, <1>5, <2>3, <2>7, <3>1
    <3>3. MovesOn(read, p, ExcludedTokens(s))
      BY <2>5, <3>2
    <3>4. read[p + Len(ExcludedTokens(s))] = Found("id", Append(rs, r))
      <4>1. read[p] = Found("id", rs) /\ rs \in Seq(Read(U))
        BY <2>2, <2>4
      <4>2. r = [service |-> fromFixed(getServiceIdFixedWidthBinary(s)), devices |-> <<>>, key |-> NoPart]
        BY <3>2
      <4>. HIDE DEF T, Out
      <4>. QED
        BY <3>3, <4>1, <4>2, ExcludedIsRead
    <3>. QED
      BY <2>1, <2>4, <3>2, <3>4
  <2>. QED
    BY <2>6, <2>7
<1>11. read[N] = Found("id", want)
  <2>1. n \in T
    <3>. HIDE DEF T
    <3>. QED
      BY <1>9, <1>10, Steps
  <2>2. off[n] = N
    BY <1>5, <1>6 DEF Places
  <2>3. SubSeq(want, 1, n) = want
    BY <1>3, SubSeqFull
  <2>4. read[off[n]] = Found("id", SubSeq(want, 1, n))
    BY <2>1
  <2>. HIDE DEF T
  <2>. QED
    BY <2>2, <2>3, <2>4
<1>12. PICK sealed : sealed = SealForMany(list, excluded)
  OBVIOUS
<1>13. sealed.tokens = tokens /\ sealed.count = n
  BY <1>1, <1>4, <1>6, <1>12 DEF SealForMany
<1>14. ParseSent(sealed) = want
  <2>1. Reading(sealed.tokens)[Len(sealed.tokens)] = Found("id", want)
    BY <1>6, <1>7, <1>11, <1>13
  <2>2. PICK f : f = Found("id", want)
    OBVIOUS
  <2>3. f.at = "id" /\ f.recipients = want
    BY <2>2 DEF Found
  <2>4. ParseSent(sealed) = IF f.at = "id" /\ Len(f.recipients) = sealed.count THEN f.recipients ELSE <<>>
    BY <2>1, <2>2 DEF ParseSent
  <2>. QED
    BY <1>3, <1>13, <2>3, <2>4
<1>15. FoundAs(want, list, n)
  <2>1. \A i \in 1..n1 : i \in 1..n /\ want[i] = list[i]
    BY <1>1, <1>2
  <2>2. \A i \in (1..n) \ (1..n1) : want[i].devices = <<>>
    BY <1>1, <1>2
  <2>. QED
    BY <1>1, <1>2, <2>1, <2>2 DEF FoundAs
<1>. QED
  BY <1>1, <1>12, <1>14, <1>15

\* What is counted of a list is of it, and it is the whole list when a byte counts it.
LEMMA CountedOf ==
  ASSUME NEW S, NEW list \in Seq(S)
  PROVE  /\ Counted(list) \in Seq(S)
         /\ \A i \in DOMAIN Counted(list) : i \in DOMAIN list /\ Counted(list)[i] = list[i]
         /\ Len(list) < Byte => Counted(list) = list
<1>1. PICK n \in Nat : n = Len(list) /\ DOMAIN list = 1..n
  BY LenProperties
<1>2. PICK m \in Nat : m = n % Byte /\ m <= n /\ (n < Byte => m = n)
  <2>1. PICK b \in Nat \ {0} : b = Byte
    BY ManyAssumption
  <2>2. n % b \in Nat /\ n % b < b
    BY <2>1
  <2>3. n < b => n % b = n
    BY <2>1
  <2>4. n % b <= n
    BY <2>1, <2>2, <2>3
  <2>. QED
    BY <2>1, <2>2, <2>3, <2>4
<1>3. \A i \in 1..m : list[i] \in S
  BY <1>1, <1>2, ElementOfSeq
<1>4. PICK short : short = SubSeq(list, 1, m)
  OBVIOUS
<1>5. /\ short \in Seq(S) /\ Len(short) = IF 1 <= m THEN m - 1 + 1 ELSE 0
      /\ \A i \in 1..(m - 1 + 1) : short[i] = list[1 + i - 1]
  BY <1>2, <1>3, <1>4, SubSeqProperties
<1>6. \A i \in DOMAIN short : i \in 1..m /\ short[i] = list[i]
  BY <1>5, LenProperties
<1>7. Counted(list) = short
  BY <1>1, <1>2, <1>4 DEF Counted
<1>8. n < Byte => short = list
  BY <1>1, <1>2, <1>4, SubSeqFull
<1>. QED
  BY <1>1, <1>2, <1>5, <1>6, <1>7, <1>8

\* What an excluded account is read back as is read back as it is.
LEMMA ReadAgain ==
  ASSUME NEW s, NEW t, t = fromFixed(getServiceIdFixedWidthBinary(s))
  PROVE  fromFixed(getServiceIdFixedWidthBinary(t)) = t
<1>1. PICK u : u = s.rawUuid
  OBVIOUS
<1>2. t = [kind |-> "Pni", rawUuid |-> u] \/ t = [kind |-> "Aci", rawUuid |-> u]
  BY <1>1 DEF fromFixed, getServiceIdFixedWidthBinary
<1>. QED
  BY <1>2 DEF fromFixed, getServiceIdFixedWidthBinary

\* What a server or a device reads in an envelope that was sent.
LEMMA EnvelopeReads ==
  ASSUME IInv, NEW e \in sent
  PROVE  \E list \in Seq(Entry), n \in Nat :
           MadeOf(e, list) /\ FoundAs(ParseSent(e.envelope), Counted(list), n)
<1>1. PICK list \in Seq(Entry), g \in Groups : MadeOf(e, list) /\ g = e.group
  BY DEF IInv, Envelopes
<1>2. PICK X, excluded : /\ X = {g.excluded[i] : i \in DOMAIN g.excluded}
                         /\ excluded = Counted(g.excluded) /\ excluded \in Seq(X)
  <2>1. PICK X, all : /\ X = {g.excluded[i] : i \in DOMAIN g.excluded} /\ all = g.excluded
                      /\ all \in Seq(X)
    BY GroupSendAssumption
  <2>2. Counted(all) \in Seq(X)
    BY <2>1, CountedOf
  <2>. QED
    BY <2>1, <2>2
<1>3. PICK U : U = Services \cup X \cup {fromFixed(getServiceIdFixedWidthBinary(x)) : x \in X}
  OBVIOUS
<1>4. \A s \in U : fromFixed(getServiceIdFixedWidthBinary(s)) \in U
  <2>. SUFFICES ASSUME NEW s \in U  PROVE fromFixed(getServiceIdFixedWidthBinary(s)) \in U
    OBVIOUS
  <2>1. CASE s \in Services
    BY <1>3, <2>1, SameBytes
  <2>2. CASE s \in X
    BY <1>3, <2>2
  <2>3. ASSUME NEW x \in X, s = fromFixed(getServiceIdFixedWidthBinary(x))
        PROVE  fromFixed(getServiceIdFixedWidthBinary(s)) \in U
    <3>1. fromFixed(getServiceIdFixedWidthBinary(s)) = s
      BY <2>3, ReadAgain
    <3>. QED
      BY <3>1
  <2>. QED
    BY <1>3, <2>1, <2>2, <2>3
<1>5. PICK short : /\ short = Counted(list) /\ short \in Seq(Entry)
                   /\ \A i \in DOMAIN short : i \in DOMAIN list /\ short[i] = list[i]
  BY CountedOf
<1>6. short \in Seq(Read(U)) /\ excluded \in Seq(U)
  <2>1. Entry \subseteq Read(U) /\ X \subseteq U
    BY <1>3 DEF Entry, Read
  <2>. QED
    BY <1>2, <1>5, <2>1, SeqMonotonic
<1>7. ASSUME NEW i \in DOMAIN short
      PROVE  /\ short[i].devices # <<>>
             /\ fromFixed(getServiceIdFixedWidthBinary(short[i].service)) = short[i].service
  <2>1. short[i] \in Entry /\ Dated(short[i])
    BY <1>1, <1>5, <1>7 DEF MadeOf
  <2>. QED
    BY <2>1, SameBytes DEF Entry, Dated
<1>8. FoundAs(ParseSent(SealForMany(short, excluded)), short, Len(short) + Len(excluded))
  BY <1>4, <1>6, <1>7, ParsesBack
<1>9. Len(short) + Len(excluded) \in Nat
  BY <1>2, <1>5, LenProperties
<1>10. e.envelope = SealForMany(short, excluded)
  BY <1>1, <1>2, <1>5 DEF MadeOf
<1>. QED
  BY <1>1, <1>5, <1>8, <1>9, <1>10

-----------------------------------------------------------------------------
\* getExistingSessions before getIdentity in recipientsOf, saveIdentity before
\* saveSession in the session calls: a server that compares the registration ids of
\* an envelope with those its devices have catches every part that its account
\* could not open.
THEOREM RegistrationsTellHolds == Spec => []RegistrationsTell
<1>1. ASSUME IInv  PROVE RegistrationsTell
  <2>. SUFFICES ASSUME NEW e \in sent, NEW r \in ToSet(ParseSent(e.envelope)),
                       r.devices # <<>>,
                       \A d \in ToSet(r.devices) : d.reg = install[r.service]
                PROVE  r.key = install[r.service]
    BY DEF RegistrationsTell
  <2>1. PICK list \in Seq(Entry), n \in Nat :
          MadeOf(e, list) /\ FoundAs(ParseSent(e.envelope), Counted(list), n)
    BY <1>1, EnvelopeReads
  <2>2. PICK rs, short : /\ rs = ParseSent(e.envelope) /\ short = Counted(list)
                         /\ \A i \in DOMAIN short : i \in DOMAIN list /\ short[i] = list[i]
    BY CountedOf
  <2>3. PICK i \in DOMAIN rs : r = rs[i]
    BY <2>2 DEF ToSet
  <2>4. i \in DOMAIN short /\ rs[i] = short[i]
    BY <2>1, <2>2, <2>3 DEF FoundAs
  <2>5. r \in Entry /\ Dated(r)
    BY <2>1, <2>2, <2>3, <2>4 DEF MadeOf
  <2>6. /\ r.devices \in Seq(Device)
        /\ r.devices[1].reg <= r.key /\ r.key <= install[r.service]
    BY <2>5 DEF Entry, Dated
  <2>7. 1 \in DOMAIN r.devices
    BY <2>6, EmptySeq, LenProperties
  <2>8. r.devices[1].reg = install[r.service]
    BY <2>7 DEF ToSet
  <2>9. r.key \in Nat /\ install[r.service] \in Nat
    BY <1>1, <2>5 DEF Entry, IInv, Learns
  <2>. QED
    BY <2>6, <2>8, <2>9
<1>. QED
  BY <1>1, WhatIsLearntIsDated, PTL

-----------------------------------------------------------------------------
(* Splitting. *)

\* No more entries than accounts that the message is for.
LEMMA FewListed ==
  ASSUME NEW list \in Seq(Entry), NEW to \in Seq(Addresses), ListsTo(list, to, Len(to)),
         \A j \in DOMAIN list : list[j].devices # <<>>
  PROVE  /\ Cardinality({serviceId(a) : a \in ToSet(to)}) \in Nat
         /\ Len(list) <= Cardinality({serviceId(a) : a \in ToSet(to)})
<1>1. PICK m \in Nat, n \in Nat : /\ m = Len(list) /\ DOMAIN list = 1..m
                                  /\ n = Len(to) /\ DOMAIN to = 1..n
  BY LenProperties
<1>2. PICK S, f, h : /\ S = {serviceId(a) : a \in ToSet(to)}
                     /\ f = [i \in 1..n |-> serviceId(to[i])]
                     /\ h = [j \in 1..m |-> list[j].service]
  OBVIOUS
<1>3. \A i \in 1..n : serviceId(to[i]) \in S
  BY <1>1, <1>2 DEF ToSet
<1>4. \A s \in S : \E i \in 1..n : s = f[i]
  BY <1>1, <1>2 DEF ToSet
<1>5. IsFiniteSet(S) /\ Cardinality(S) \in Nat
  <2>1. f \in Surjection(1..n, S)
    BY <1>2, <1>3, <1>4 DEF Surjection
  <2>2. IsFiniteSet(1..n)
    <3>1. 1 \in Int /\ n \in Int
      OBVIOUS
    <3>. QED
      BY <3>1, FS_Interval
  <2>. QED
    BY <2>1, <2>2, FS_Surjection, FS_CardinalityType
<1>6. ASSUME NEW j \in 1..m
      PROVE  list[j].service \in S
  <2>1. list[j] \in Entry
    BY <1>1, ElementOfSeq
  <2>2. PICK ds \in Seq(Device) : ds = list[j].devices /\ ds # <<>>
    BY <1>1, <2>1 DEF Entry
  <2>3. ds[1] \in ToSet(ds)
    BY <2>2, EmptySeq, LenProperties DEF ToSet
  <2>4. PICK i \in 1..n : serviceId(to[i]) = list[j].service
    BY <1>1, <2>2, <2>3 DEF ListsTo, OfGroup
  <2>. QED
    BY <1>3, <2>4
<1>7. h \in Injection(1..m, S)
  <2>1. h \in [1..m -> S]
    BY <1>2, <1>6
  <2>2. \A j, k \in 1..m : h[j] = h[k] => j = k
    BY <1>1, <1>2 DEF ListsTo
  <2>. QED
    BY <2>1, <2>2 DEF Injection, IsInjective
<1>8. Cardinality(1..m) = m
  BY FS_Interval
<1>9. Cardinality(1..m) <= Cardinality(S)
  BY <1>5, <1>7, FS_Injection
<1>. QED
  BY <1>1, <1>2, <1>5, <1>8, <1>9

\* An address has the part of the entry that is its, and none when there is none.
LEMMA PartIs ==
  ASSUME NEW sealed, NEW list \in Seq(Entry), NEW n \in Nat, NEW to, NEW m, ListsTo(list, to, m),
         FoundAs(ParseSent(sealed), list, n), NEW a
  PROVE  /\ \A j \in DOMAIN list :
              Has(list[j], a) => ForRecipient(sealed, serviceId(a), a.deviceId) = list[j].key
         /\ (\A j \in DOMAIN list : ~ Has(list[j], a)) =>
              ForRecipient(sealed, serviceId(a), a.deviceId) = NoPart
<1>1. PICK rs, its : /\ rs = ParseSent(sealed)
                     /\ its = {i \in DOMAIN rs : /\ rs[i].service = serviceId(a)
                                                 /\ \E d \in ToSet(rs[i].devices) : d.device = a.deviceId}
  OBVIOUS
<1>2. ForRecipient(sealed, serviceId(a), a.deviceId)
        = IF its = {} THEN NoPart ELSE rs[CHOOSE i \in its : \A j \in its : i <= j].key
  BY <1>1 DEF ForRecipient
<1>3. its = {i \in DOMAIN rs : Has(rs[i], a)}
  BY <1>1 DEF Has
<1>4. \A i \in DOMAIN rs : Has(rs[i], a) => i \in DOMAIN list
  <2>1. \A i \in DOMAIN rs : Has(rs[i], a) => rs[i].devices # <<>>
    <3>1. ToSet(<<>>) = {}
      BY DEF ToSet
    <3>. QED
      BY <3>1 DEF Has
  <2>. QED
    BY <1>1, <2>1 DEF FoundAs
<1>5. DOMAIN list \subseteq DOMAIN rs /\ \A i \in DOMAIN list : rs[i] = list[i] /\ i \in Nat
  BY <1>1, LenProperties DEF FoundAs
<1>6. ASSUME NEW j \in DOMAIN list, Has(list[j], a)
      PROVE  ForRecipient(sealed, serviceId(a), a.deviceId) = list[j].key
  <2>1. \A i \in DOMAIN list : Has(list[i], a) => i = j
    BY <1>6 DEF ListsTo, Has
  <2>2. its = {j}
    BY <1>3, <1>4, <1>5, <1>6, <2>1
  <2>3. (CHOOSE i \in its : \A k \in its : i <= k) = j
    BY <1>5, <2>2
  <2>. QED
    BY <1>2, <1>5, <2>2, <2>3
<1>7. ASSUME \A j \in DOMAIN list : ~ Has(list[j], a)
      PROVE  ForRecipient(sealed, serviceId(a), a.deviceId) = NoPart
  <2>1. its = {}
    BY <1>3, <1>4, <1>5, <1>7
  <2>. QED
    BY <1>2, <2>1
<1>. QED
  BY <1>6, <1>7

\* The part of an envelope for one, where there is only one, is that of any address.
LEMMA SingleIs ==
  ASSUME NEW sealed, NEW list \in Seq(Entry), NEW n \in Nat,
         \A j \in DOMAIN list : list[j].devices # <<>>,
         FoundAs(ParseSent(sealed), list, n), NEW j \in DOMAIN list
  PROVE  ForSingle(sealed) \in {NoPart, list[j].key}
<1>1. PICK rs, listed : /\ rs = ParseSent(sealed)
                        /\ listed = {i \in DOMAIN rs : rs[i].devices # <<>>}
  OBVIOUS
<1>2. ForSingle(sealed)
        = IF Cardinality(listed) = 1 THEN rs[CHOOSE i \in listed : TRUE].key ELSE NoPart
  BY <1>1 DEF ForSingle
<1>3. listed = DOMAIN list /\ rs[j] = list[j]
  BY <1>1 DEF FoundAs
<1>4. IsFiniteSet(listed)
  BY <1>3, LenProperties, FS_Interval
<1>5. CASE Cardinality(listed) = 1
  <2>1. PICK x : listed = {x}
    BY <1>4, <1>5, FS_Singleton
  <2>2. listed = {j}
    BY <1>3, <2>1
  <2>3. (CHOOSE i \in listed : TRUE) = j
    BY <2>2
  <2>. QED
    BY <1>2, <1>3, <1>5, <2>3
<1>. QED
  BY <1>2, <1>5

\* forRecipient and forSingle undo sealForMany for every message, every account and
\* every spelling of its name, as long as a byte counts the accounts: each device
\* that was addressed gets its own account's part and nobody else gets one.
THEOREM SplitsAsAddressedHolds == Spec => []SplitsAsAddressed
<1>1. ASSUME IInv  PROVE SplitsAsAddressed
  <2>. SUFFICES ASSUME NEW e \in sent,
                       Cardinality({serviceId(a) : a \in ToSet(e.group.to)}) < Byte
                PROVE  LET rs == ParseSent(e.envelope)
                           to == ToSet(e.group.to)
                           parts == [a \in Addresses |->
                                      ForRecipient(e.envelope, serviceId(a), a.deviceId)]
                           named(a) == \E b \in to :
                                         serviceId(a) = serviceId(b) /\ a.deviceId = b.deviceId
                       IN  /\ \A a \in Addresses : parts[a] # NoPart <=> named(a)
                           /\ \A a \in to : \E r \in ToSet(rs) :
                                r.service = serviceId(a) /\ r.key = parts[a]
                           /\ \A a, b \in to : serviceId(a) = serviceId(b) => parts[a] = parts[b]
                           /\ \A a \in to : ForSingle(e.envelope) \in {NoPart, parts[a]}
    BY DEF SplitsAsAddressed
  <2>1. PICK named, parts :
          /\ named = {a \in Addresses : \E b \in ToSet(e.group.to) :
                        serviceId(a) = serviceId(b) /\ a.deviceId = b.deviceId}
          /\ parts = [a \in Addresses |-> ForRecipient(e.envelope, serviceId(a), a.deviceId)]
    OBVIOUS
  <2>2. PICK list, n : /\ list \in Seq(Entry) /\ n \in Nat /\ MadeOf(e, list)
                       /\ FoundAs(ParseSent(e.envelope), Counted(list), n)
    BY <1>1, EnvelopeReads
  <2>3. PICK to, m : /\ to \in Seq(Addresses) /\ m \in Nat /\ to = e.group.to /\ m = Len(to)
                     /\ ToSet(to) = {to[i] : i \in 1..m} /\ \A i \in 1..m : to[i] \in Addresses
    <3>1. PICK to : to = e.group.to /\ to \in Seq(Addresses)
      BY <1>1, GroupSendAssumption DEF IInv, Envelopes
    <3>2. ToSet(to) = {to[i] : i \in 1..Len(to)} /\ Len(to) \in Nat
      BY <3>1, LenProperties DEF ToSet
    <3>3. \A i \in 1..Len(to) : to[i] \in Addresses
      BY <3>1, ElementOfSeq
    <3>. QED
      BY <3>1, <3>2, <3>3
  <2>4. ListsTo(list, to, m) /\ \A j \in DOMAIN list : list[j].devices # <<>>
    BY <2>2, <2>3 DEF MadeOf, Dated
  <2>5. Counted(list) = list
    <3>1. PICK c : c = Cardinality({serviceId(a) : a \in ToSet(to)})
      OBVIOUS
    <3>2. c \in Nat /\ Len(list) <= c
      BY <2>2, <2>3, <2>4, <3>1, FewListed
    <3>3. c < Byte /\ Len(list) \in Nat
      BY <1>1, <2>2, <2>3, <3>1, LenProperties
    <3>4. Len(list) < Byte
      BY <3>2, <3>3, ManyAssumption
    <3>. QED
      BY <2>2, <3>4, CountedOf
  <2>6. PICK rs : rs = ParseSent(e.envelope) /\ FoundAs(rs, list, n)
    BY <2>2, <2>5
  \* An address is named where some entry is its, whose key is then its part.
  <2>7. ASSUME NEW a \in Addresses
        PROVE  a \in named <=> \E j \in DOMAIN list : Has(list[j], a)
    <3>1. ASSUME NEW i \in 1..m, serviceId(a) = serviceId(to[i]), a.deviceId = to[i].deviceId
          PROVE  \E j \in DOMAIN list : Has(list[j], a)
      BY <2>4, <3>1 DEF ListsTo, Has
    <3>2. ASSUME NEW j \in DOMAIN list, Has(list[j], a)
          PROVE  \E i \in 1..m : serviceId(a) = serviceId(to[i]) /\ a.deviceId = to[i].deviceId
      BY <2>4, <3>2 DEF ListsTo, Has, OfGroup
    <3>. QED
      BY <2>1, <2>3, <3>1, <3>2
  <2>8. ASSUME NEW a \in Addresses
        PROVE  /\ \A j \in DOMAIN list : Has(list[j], a) => parts[a] = list[j].key
               /\ (\A j \in DOMAIN list : ~ Has(list[j], a)) => parts[a] = NoPart
    <3>1. parts[a] = ForRecipient(e.envelope, serviceId(a), a.deviceId)
      BY <2>1
    <3>. QED
      BY <2>2, <2>4, <2>5, <3>1, PartIs
  <2>9. \A j \in DOMAIN list : list[j].key # NoPart
    BY <2>4 DEF ListsTo, OfGroup, NoPart
  <2>10. \A a \in ToSet(to) : a \in Addresses /\ a \in named
    BY <2>1, <2>3
  <2>11. \A a \in ToSet(to) : \E j \in DOMAIN list : Has(list[j], a) /\ parts[a] = list[j].key
    BY <2>7, <2>8, <2>10
  <2>12. \A a \in Addresses : parts[a] # NoPart <=> a \in named
    BY <2>7, <2>8, <2>9
  <2>13. ASSUME NEW a \in ToSet(to)
         PROVE  \E r \in ToSet(rs) : r.service = serviceId(a) /\ r.key = parts[a]
    <3>1. PICK j \in DOMAIN list : Has(list[j], a) /\ parts[a] = list[j].key
      BY <2>11
    <3>2. rs[j] = list[j] /\ rs[j] \in ToSet(rs)
      BY <2>6 DEF FoundAs, ToSet
    <3>. QED
      BY <3>1, <3>2 DEF Has
  <2>14. ASSUME NEW a \in ToSet(to), NEW b \in ToSet(to), serviceId(a) = serviceId(b)
         PROVE  parts[a] = parts[b]
    <3>1. PICK j \in DOMAIN list, k \in DOMAIN list :
            /\ Has(list[j], a) /\ parts[a] = list[j].key
            /\ Has(list[k], b) /\ parts[b] = list[k].key
      BY <2>11
    <3>2. j = k
      BY <2>4, <2>14, <3>1 DEF ListsTo, Has
    <3>. QED
      BY <3>1, <3>2
  <2>15. ASSUME NEW a \in ToSet(to)
         PROVE  ForSingle(e.envelope) \in {NoPart, parts[a]}
    <3>1. PICK j \in DOMAIN list : parts[a] = list[j].key
      BY <2>11
    <3>. QED
      BY <2>2, <2>4, <2>5, <3>1, SingleIs
  <2>16. ASSUME NEW a \in Addresses
         PROVE  a \in named <=> \E b \in ToSet(to) : serviceId(a) = serviceId(b) /\ a.deviceId = b.deviceId
    BY <2>1, <2>3
  <2>17. /\ \A a \in Addresses : parts[a] # NoPart <=>
               \E b \in ToSet(to) : serviceId(a) = serviceId(b) /\ a.deviceId = b.deviceId
         /\ \A a \in ToSet(to) : \E r \in ToSet(rs) : r.service = serviceId(a) /\ r.key = parts[a]
         /\ \A a, b \in ToSet(to) : serviceId(a) = serviceId(b) => parts[a] = parts[b]
         /\ \A a \in ToSet(to) : ForSingle(e.envelope) \in {NoPart, parts[a]}
    BY <2>12, <2>13, <2>14, <2>15, <2>16
  <2>18. /\ to = e.group.to /\ rs = ParseSent(e.envelope)
         /\ parts = [a \in Addresses |-> ForRecipient(e.envelope, serviceId(a), a.deviceId)]
    BY <2>1, <2>3, <2>6
  <2>. QED
    BY <2>17, <2>18
<1>. QED
  BY <1>1, WhatIsLearntIsDated, PTL
=============================================================================
