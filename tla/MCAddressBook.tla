---------------------------- MODULE MCAddressBook ----------------------------
(* The address book on small instances: an account that asks from two IPs, *)
(* and a visitor without an account at one of them.                        *)
EXTENDS AddressBook, TLC

CONSTANTS r1, r2, a1, a2, a3, acct, home, away

ThreeAddresses == {a1, a2, a3}
TwoRequests == {r1, r2}
AtHome == [user |-> acct, ip |-> home]
Away == [user |-> acct, ip |-> away]
Guest == [user |-> None, ip |-> home]
Everybody == {AtHome, Away, Guest}

BookSymmetry == Permutations(Addresses) \cup Permutations(Requests)
=============================================================================
