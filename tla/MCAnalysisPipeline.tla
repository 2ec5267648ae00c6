------------------------- MODULE MCAnalysisPipeline -------------------------
(* The pipeline on small instances: one or two workers, and an address of  *)
(* an account beside an anonymous one generated from the same IP.          *)
EXTENDS AnalysisPipeline, TLC

CONSTANTS w1, w2, p1, s1, s2, acct, mine, guest, ip

OneWorker == {w1}
TwoWorkers == {w1, w2}
OnePoller == {p1}
OneSession == {s1}
TwoSessions == {s1, s2}

JustMine == {mine}
JustGuest == {guest}
MineAndGuest == {mine, guest}

Account == {acct}
LimitOne == [h \in Holders |-> 1]
Owners == [a \in Addresses |-> IF a = mine THEN acct ELSE Anonymous]
SameIp == [a \in Addresses |-> ip]

WorkerSymmetry == Permutations(Workers)
=============================================================================
