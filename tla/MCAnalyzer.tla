------------------------------ MODULE MCAnalyzer ------------------------------
(* The analyzer on small inputs: From domains of one to three labels, as   *)
(* many blacklists as pass their cap, mails with more domains than are     *)
(* asked about, and texts around the bounds of the content checks.         *)
EXTENDS Analyzer

SomeLevels == 0..2
SomeTargets == {0, 1, 3}
SomeSizes == {0, 60, 150, 2000}
SomeSpamPoints == {130, 810}
=============================================================================
