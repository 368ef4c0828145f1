------------------------------ MODULE GroupSend ------------------------------
(***************************************************************************)
(* A group message from the TypeScript package: groupEncrypt on the stored  *)
(* sender key, then sealedSenderMultiRecipientEncrypt for every device of   *)
(* the group, each store access an await; the server splits the envelope    *)
(* and each device opens its form with sealedSenderDecryptMessage, a        *)
(* delivery lost or made twice.  Meanwhile the sender's session calls with  *)
(* the same devices pin identities and store sessions, accounts are         *)
(* installed again under a new identity, and processes die.  The group's    *)
(* sends run one after another, and so do the calls of each conversation.   *)
(***************************************************************************)
EXTENDS Many

CONSTANTS
  Addresses,     \* the addresses of everyone's devices, as the sender names them
  Groups,        \* what a send is made for: [to, excluded], sequences
  Readers,       \* bound: those of them whose reading is followed
  MaxInstalls,   \* bound: installations of one account
  MaxSends,      \* bound: sends begun
  MaxNotes       \* bound: steps of the sender key

ASSUME GroupSendAssumption ==
  /\ Readers \subseteq Addresses /\ \A a \in Addresses : serviceId(a) # NoService
  /\ \A g \in Groups :
       g.to \in Seq(Addresses) /\ g.excluded \in Seq({g.excluded[i] : i \in DOMAIN g.excluded})
  /\ MaxInstalls \in Nat /\ MaxSends \in Nat /\ MaxNotes \in Nat

Services == {serviceId(a) : a \in Addresses}
Installs == 1..MaxInstalls
Notes == 1..MaxNotes

VARIABLES
  install,    \* [Services -> which installation the account is at]: its identity
              \* key, and the registration ids of its devices, are of that one
  pinned,     \* the sender's store: [Addresses -> whose identity is pinned, or 0]
  session,    \* the sender's store: [Addresses -> who the live session is with, or 0]
  meeting,    \* [Addresses -> whose identity a session call has pinned, its
              \* session still to be stored, or 0]
  chain,      \* the sender's store: steps taken of the sender key
  send,       \* the send under way
  sends,      \* how many were begun
  sent,       \* the envelopes the server was given: [number, note, group, envelope]
  circle,     \* the devices' stores: [Readers -> the sender key's notes that it
              \* does not open (again), or NoCircle]
  reading,    \* [Readers -> the note opened and stored whose text is to be returned]
  returned    \* history: [Readers -> [Notes -> times this installation gave its text]]

hosts == <<pinned, session, meeting>>
devices == <<circle, reading, returned>>
vars == <<install, hosts, chain, send, sends, sent, devices>>

Idle == [at |-> "idle"]
NoCircle == {0}
NoNote == 0

Init ==
  /\ install = [s \in Services |-> 1]
  /\ pinned = [a \in Addresses |-> 0] /\ session = pinned /\ meeting = pinned
  /\ chain = 0 /\ send = Idle /\ sends = 0 /\ sent = {}
  /\ circle = [a \in Readers |-> NoCircle]
  /\ reading = [a \in Readers |-> NoNote]
  /\ returned = [a \in Readers |-> [n \in Notes |-> 0]]

-----------------------------------------------------------------------------
(* The sender's session calls with one device, as Host has them: the         *)
(* identity is stored, then the session.                                     *)

\* Mutant of Meet: a host that keeps the first identity it was given.
MeetKeepingFirst(a) ==
  /\ meeting[a] = 0
  /\ session[a] # install[serviceId(a)]
  /\ pinned' = [pinned EXCEPT ![a] = IF @ = 0 THEN install[serviceId(a)] ELSE @]
  /\ meeting' = [meeting EXCEPT ![a] = install[serviceId(a)]]
  /\ UNCHANGED <<install, session, chain, send, sends, sent, devices>>

\* saveIdentity of processBundle or commit (and the user's word on a changed one).
Meet(a) ==
  /\ meeting[a] = 0
  /\ session[a] # install[serviceId(a)]
  /\ pinned' = [pinned EXCEPT ![a] = install[serviceId(a)]]
  /\ meeting' = [meeting EXCEPT ![a] = install[serviceId(a)]]
  /\ UNCHANGED <<install, session, chain, send, sends, sent, devices>>

\* saveSession.
Met(a) ==
  /\ meeting[a] # 0
  /\ session' = [session EXCEPT ![a] = meeting[a]]
  /\ meeting' = [meeting EXCEPT ![a] = 0]
  /\ UNCHANGED <<install, pinned, chain, send, sends, sent, devices>>

-----------------------------------------------------------------------------
(* The send. *)

\* groupEncrypt: getSenderKey.
Begin(g) ==
  /\ send = Idle /\ sends < MaxSends
  /\ sends' = sends + 1
  /\ send' = [at |-> "note", group |-> g, chain |-> chain]
  /\ UNCHANGED <<install, hosts, chain, sent, devices>>

\* circleSeal and saveSenderKey.
SealNote ==
  /\ send.at = "note" /\ send.chain < MaxNotes
  /\ chain' = send.chain + 1
  /\ send' = [at |-> "sessions", group |-> send.group, note |-> send.chain + 1]
  /\ UNCHANGED <<install, hosts, sends, sent, devices>>

\* recipientsOf: getExistingSessions, which throws when one is missing.
LoadSessions ==
  LET to == send.group.to IN
  /\ send.at = "sessions"
  /\ send' = IF \E i \in DOMAIN to : session[to[i]] = 0 THEN Idle
             ELSE [at |-> "identities", group |-> send.group, note |-> send.note,
                   regs |-> [i \in DOMAIN to |-> session[to[i]]], list |-> <<>>, next |-> 1]
  /\ UNCHANGED <<install, hosts, chain, sends, sent, devices>>

\* An address joins the recipients: an account that is listed, whichever way it was
\* named, gets one more device; another is listed with the identity pinned for
\* this address.
WithDevice(list, service, device, key) ==
  LET its == {i \in DOMAIN list :
                getServiceIdString(list[i].service) = getServiceIdString(service)} IN
  IF its = {}
    THEN Append(list, [service |-> service, devices |-> <<device>>, key |-> key])
    ELSE [i \in DOMAIN list |->
           IF i \in its THEN [list[i] EXCEPT !.devices = Append(@, device)] ELSE list[i]]

\* recipientsOf: getIdentity of the next address, which throws when there is none.
LoadIdentity ==
  LET a == send.group.to[send.next]
      device == [device |-> a.deviceId, reg |-> send.regs[send.next]]
  IN
  /\ send.at = "identities" /\ send.next <= Len(send.group.to)
  /\ send' = IF pinned[a] = 0 THEN Idle
             ELSE [send EXCEPT !.next = @ + 1,
                               !.list = WithDevice(@, serviceId(a), device, pinned[a])]
  /\ UNCHANGED <<install, hosts, chain, sends, sent, devices>>

\* The blobs, envelopeSealMany, and what comes back is given to the server; a list
\* that cannot be written or sealed throws.
Seal ==
  LET list == Counted(send.list)
      excluded == Counted(send.group.excluded)
  IN
  /\ send.at = "identities" /\ send.next > Len(send.group.to)
  /\ sent' = IF Listable(send.list) /\ Sealable(list)
               THEN sent \cup {[number |-> sends, note |-> send.note, group |-> send.group,
                                envelope |-> SealForMany(list, excluded)]}
             ELSE sent
  /\ send' = Idle
  /\ UNCHANGED <<install, hosts, chain, sends, devices>>

-----------------------------------------------------------------------------
(* The devices. *)

\* SenderKeyDistributionMessage.create: the sender key as it is at some step.
Announcements == 0..chain

\* processSenderKeyDistributionMessage; one for a chain that is known changes nothing.
Admit(a, step) ==
  /\ circle[a] = NoCircle
  /\ circle' = [circle EXCEPT ![a] = 1..step]
  /\ UNCHANGED <<install, hosts, chain, send, sends, sent, reading, returned>>

\* sealedSenderDecryptToUsmc of the form that the server made for a device: it opens
\* under the identity the device has.
Unsealed(a, e) ==
  ForRecipient(e.envelope, serviceId(a), a.deviceId) = install[serviceId(a)]

\* Mutant of Open: the record is not stored.
OpenUnsaved(a, e) ==
  /\ reading[a] = NoNote /\ circle[a] # NoCircle
  /\ Unsealed(a, e)
  /\ e.note \notin circle[a]
  /\ reading' = [reading EXCEPT ![a] = e.note]
  /\ UNCHANGED <<install, hosts, chain, send, sends, sent, circle, returned>>

\* A form delivered and unsealed: groupDecrypt opens the note and stores the record.
Open(a, e) ==
  /\ reading[a] = NoNote /\ circle[a] # NoCircle
  /\ Unsealed(a, e)
  /\ e.note \notin circle[a]
  /\ circle' = [circle EXCEPT ![a] = @ \cup {e.note}]
  /\ reading' = [reading EXCEPT ![a] = e.note]
  /\ UNCHANGED <<install, hosts, chain, send, sends, sent, returned>>

Return(a) ==
  /\ reading[a] # NoNote
  /\ returned' = [returned EXCEPT ![a][reading[a]] = @ + 1]
  /\ reading' = [reading EXCEPT ![a] = NoNote]
  /\ UNCHANGED <<install, hosts, chain, send, sends, sent, circle>>

-----------------------------------------------------------------------------
\* An account is set up again: a new identity and empty stores on its devices.
Install(s) ==
  LET its == {a \in Addresses : serviceId(a) = s} IN
  /\ install[s] < MaxInstalls
  /\ install' = [install EXCEPT ![s] = @ + 1]
  /\ circle' = [a \in Readers |-> IF a \in its THEN NoCircle ELSE circle[a]]
  /\ reading' = [a \in Readers |-> IF a \in its THEN NoNote ELSE reading[a]]
  /\ returned' = [a \in Readers |-> IF a \in its THEN [n \in Notes |-> 0] ELSE returned[a]]
  /\ UNCHANGED <<hosts, chain, send, sends, sent>>

\* The sender's process dies.
CrashSender ==
  /\ send # Idle \/ \E a \in Addresses : meeting[a] # 0
  /\ send' = Idle /\ meeting' = [a \in Addresses |-> 0]
  /\ UNCHANGED <<install, pinned, session, chain, sends, sent, devices>>

\* A device's process dies.
CrashReader(a) ==
  /\ reading[a] # NoNote
  /\ reading' = [reading EXCEPT ![a] = NoNote]
  /\ UNCHANGED <<install, hosts, chain, send, sends, sent, circle, returned>>

Next ==
  \/ \E a \in Addresses : Meet(a) \/ Met(a)
  \/ \E a \in Readers :
       \/ Return(a) \/ CrashReader(a)
       \/ \E step \in Announcements : Admit(a, step)
       \/ \E e \in sent : Open(a, e)
  \/ \E g \in Groups : Begin(g)
  \/ SealNote \/ LoadSessions \/ LoadIdentity \/ Seal
  \/ CrashSender
  \/ \E s \in Services : Install(s)

Spec == Init /\ [][Next]_vars

-----------------------------------------------------------------------------
(* Properties. *)

\* api.ts:1387, "One envelope for every device of every recipient in `recipients`".
EveryDeviceServed ==
  \A e \in sent : \A a \in ToSet(e.group.to) :
    ForRecipient(e.envelope, serviceId(a), a.deviceId) # NoPart

\* forRecipient and forSingle undo sealForMany, as long as a byte counts the
\* recipients: each device that was addressed gets the part made for its own
\* account, under whatever name, and no other one gets any, an excluded account's
\* least of all; and where forSingle answers, it is what forRecipient answers.
SplitsAsAddressed ==
  \A e \in sent :
    LET rs == ParseSent(e.envelope)
        to == ToSet(e.group.to)
        parts == [a \in Addresses |-> ForRecipient(e.envelope, serviceId(a), a.deviceId)]
        named(a) == \E b \in to : serviceId(a) = serviceId(b) /\ a.deviceId = b.deviceId
    IN
    Cardinality({serviceId(a) : a \in to}) < Byte =>
      /\ \A a \in Addresses : parts[a] # NoPart <=> named(a)
      /\ \A a \in to : \E r \in ToSet(rs) : r.service = serviceId(a) /\ r.key = parts[a]
      /\ \A a, b \in to : serviceId(a) = serviceId(b) => parts[a] = parts[b]
      /\ \A a \in to : ForSingle(e.envelope) \in {NoPart, parts[a]}

\* getExistingSessions before getIdentity here, saveIdentity before saveSession
\* there: when every registration id listed for an account is that of its devices
\* as they are, which is all the server can compare, its part opens.
RegistrationsTell ==
  \A e \in sent : \A r \in ToSet(ParseSent(e.envelope)) :
    (r.devices # <<>> /\ \A d \in ToSet(r.devices) : d.reg = install[r.service]) =>
      r.key = install[r.service]

\* groupDecrypt stores the record before it returns the text: a form delivered
\* again, or again after a crash, is not read twice.
ReadOnce == \A a \in Readers, n \in Notes : returned[a][n] <= 1
=============================================================================
