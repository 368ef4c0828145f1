---------------------------- MODULE GroupSendMC ----------------------------
(* One uuid that is an account's and a phone identity's: two devices of the    *)
(* account, the second named with capital letters, and one of the identity.    *)
(* A send to everybody, and one to the account that excludes the identity.     *)
EXTENDS GroupSend

MCAccount == Text("", "u", "hyphens, lower case")
MCCapitals == Text("", "u", "hyphens, upper case")
MCIdentity == Text("PNI:", "u", "hyphens, lower case")

MCFirst == ProtocolAddress(MCAccount, 1)
MCSecond == ProtocolAddress(MCCapitals, 2)
MCOther == ProtocolAddress(MCIdentity, 1)
MCAddresses == {MCFirst, MCSecond, MCOther}
MCReaders == {MCSecond}
MCEverybody == [to |-> <<MCFirst, MCOther, MCSecond>>, excluded |-> <<>>]
MCAccountOnly == [to |-> <<MCSecond, MCFirst>>, excluded |-> <<serviceId(MCOther)>>]
MCGroups == {MCEverybody, MCAccountOnly}
MCWrapGroups == {[to |-> <<MCFirst, MCOther>>, excluded |-> <<>>]}
=============================================================================
