---------------------------- MODULE MCDailyQuota ----------------------------
(* DailyQuota on a small instance: two workers on one account, and a few   *)
(* midnights.                                                              *)
EXTENDS DailyQuota, TLC

CONSTANTS w1, w2, acct

TwoCallers == {w1, w2}
Account == {acct}
LimitTwo == [h \in Holders |-> 2]
=============================================================================
