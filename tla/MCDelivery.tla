------------------------------ MODULE MCDelivery ------------------------------
(* A message to two addresses of the system and to one elsewhere; the bound *)
(* on deliveries lets every failure be followed by another one.             *)
EXTENDS Delivery

CONSTANTS own1, own2, foreign
SomeRecipients == {own1, own2, foreign}
SomeOwn == {own1, own2}
=============================================================================
