----------------------------- MODULE MailReport -----------------------------
(***************************************************************************)
(* What the ingest, the workers and /check together promise about a mail,  *)
(* with no process, queue or quota in sight: a stored mail is analysed by  *)
(* at most one worker at a time, gets at most one report, and a report     *)
(* that was published for it is there and stays.  A mail the quota blocks  *)
(* goes back to the mails that wait; one whose analysis broke stays        *)
(* claimed.                                                                *)
(***************************************************************************)
EXTENDS Naturals

CONSTANT Mails

VARIABLES
    stage,    \* mail |-> how far it has come
    reports   \* mail |-> reports written for it

reportVars == <<stage, reports>>

ReportInit ==
    /\ stage = [m \in Mails |-> "absent"]
    /\ reports = [m \in Mails |-> 0]

Moves(m, from, to) ==
    /\ stage[m] = from
    /\ stage' = [stage EXCEPT ![m] = to]

Receive(m) == Moves(m, "absent", "open") /\ UNCHANGED reports

Claim(m) == Moves(m, "open", "claimed") /\ UNCHANGED reports

Release(m) == Moves(m, "claimed", "open") /\ UNCHANGED reports

Write(m) ==
    /\ Moves(m, "claimed", "written")
    /\ reports' = [reports EXCEPT ![m] = @ + 1]

Publish(m) == Moves(m, "written", "published") /\ UNCHANGED reports

ReportNext ==
    \E m \in Mails : Receive(m) \/ Claim(m) \/ Release(m) \/ Write(m) \/ Publish(m)

ReportSpec == ReportInit /\ [][ReportNext]_reportVars
=============================================================================
