----------------------------- MODULE DailyQuota -----------------------------
(***************************************************************************)
(* The daily analysis budget of src/worker/limits.py.  Every account and   *)
(* every API key is a "holder": its Mongo record carries daily_used and    *)
(* reset_at.  consume_daily_quota reads the record, resets it when its day *)
(* is over, and increments it, in separate calls to Mongo, from as many    *)
(* worker processes as Celery runs (-c 4).  Time is counted in UTC days;   *)
(* reset_at, always a midnight, is the number of the day that starts then, *)
(* and 0 stands for a record that has no reset_at yet.                     *)
(***************************************************************************)
EXTENDS Integers, FiniteSets

CONSTANTS
    Callers,     \* the worker processes that may run consume_daily_quota
    Holders,     \* accounts and API keys, each with a budget of its own
    Anonymous,   \* stands for "no holder": the caller is limited by its IP
    DailyLimit,  \* holder |-> daily_limit of its record, or the default
    MaxDay       \* bound: the last day of the model

ASSUME QuotaAssumption ==
    /\ IsFiniteSet(Callers)
    /\ Callers # {}
    /\ Anonymous \notin Holders
    /\ DailyLimit \in [Holders -> Nat]
    /\ MaxDay \in Nat

VARIABLES
    day,      \* the UTC day the clocks of all the containers show
    quota,    \* holder |-> its record: daily_used and the day of reset_at
    call,     \* caller |-> its consume_daily_quota call and what it has read
    granted   \* history: holder |-> day |-> calls begun that day and allowed

quotaVars == <<day, quota, call, granted>>

Idle == [step |-> "idle", holder |-> Anonymous, now |-> 0, used |-> 0]

QuotaRecord == [used : Nat, resetDay : Nat]

CallRecord ==
    [step   : {"idle", "read", "reset", "check", "count", "allowed", "denied"},
     holder : Holders \cup {Anonymous},
     now    : Nat,
     used   : Nat]

(* Types: a call that reads or writes a record has a holder, and a call    *)
(* began today or earlier (consume_daily_quota's branch on quota_holder).  *)
QuotaTypeOK ==
    /\ day \in 0..MaxDay
    /\ quota \in [Holders -> QuotaRecord]
    /\ call \in [Callers -> CallRecord]
    /\ granted \in [Holders -> [0..MaxDay -> Nat]]
    /\ \A c \in Callers :
          /\ call[c].now <= day
          /\ call[c].step \in {"read", "reset", "check"} => call[c].holder \in Holders

QuotaInit ==
    /\ day = 0
    /\ quota = [h \in Holders |-> [used |-> 0, resetDay |-> 0]]
    /\ call = [c \in Callers |-> Idle]
    /\ granted = [h \in Holders |-> [d \in 0..MaxDay |-> 0]]

-----------------------------------------------------------------------------
(* Mutant: a record is taken for expired a day early. *)
ExpiredEarly(q, now) == q.resetDay <= now + 1

(* What get_quota_state reports: a record whose day is over counts as      *)
(* unused, without being written.                                          *)
Expired(q, now) == q.resetDay <= now

AtLeastZero(n) == IF n > 0 THEN n ELSE 0

(* Mutant: the budget shown is that of the coming day. *)
RemainingTomorrow(h, now) ==
    AtLeastZero(DailyLimit[h] - IF Expired(quota[h], now + 1) THEN 0 ELSE quota[h].used)

Remaining(h, now) ==
    AtLeastZero(DailyLimit[h] - IF Expired(quota[h], now) THEN 0 ELSE quota[h].used)

(* consume_daily_quota captures `now` and picks the holder. *)
Begin(c, h) ==
    /\ call[c].step = "idle"
    /\ call' = [call EXCEPT ![c] =
                  [step   |-> IF h = Anonymous THEN "count" ELSE "read",
                   holder |-> h, now |-> day, used |-> 0]]
    /\ UNCHANGED <<day, quota, granted>>

(* find_one of the holder: the snapshot the rest of the call works with. *)
Read(c) ==
    /\ call[c].step = "read"
    /\ LET q == quota[call[c].holder]
           over == Expired(q, call[c].now)
       IN call' = [call EXCEPT ![c].step = IF over THEN "reset" ELSE "check",
                               ![c].used = IF over THEN 0 ELSE q.used]
    /\ UNCHANGED <<day, quota, granted>>

(* Mutant: the record is reset to a day that is already over. *)
ResetToday(c) ==
    /\ call[c].step = "reset"
    /\ quota' = [quota EXCEPT ![call[c].holder] = [used |-> 0, resetDay |-> call[c].now]]
    /\ call' = [call EXCEPT ![c].step = "check"]
    /\ UNCHANGED <<day, granted>>

(* The new day's record is written from the snapshot's verdict, whatever   *)
(* the record holds by now.                                                *)
Reset(c) ==
    /\ call[c].step = "reset"
    /\ quota' = [quota EXCEPT ![call[c].holder] =
                   [used |-> 0, resetDay |-> call[c].now + 1]]
    /\ call' = [call EXCEPT ![c].step = "check"]
    /\ UNCHANGED <<day, granted>>

(* Mutant: incremented without comparing. *)
ChargeUnchecked(c) ==
    /\ call[c].step = "check"
    /\ quota' = [quota EXCEPT ![call[c].holder].used = @ + 1]
    /\ granted' = [granted EXCEPT ![call[c].holder][call[c].now] = @ + 1]
    /\ call' = [call EXCEPT ![c].step = "allowed"]
    /\ UNCHANGED day

(* The limit is compared with the snapshot; the $inc applies to the record. *)
Charge(c) ==
    /\ call[c].step = "check"
    /\ call[c].used < DailyLimit[call[c].holder]
    /\ quota' = [quota EXCEPT ![call[c].holder].used = @ + 1]
    /\ granted' = [granted EXCEPT ![call[c].holder][call[c].now] = @ + 1]
    /\ call' = [call EXCEPT ![c].step = "allowed"]
    /\ UNCHANGED day

Refuse(c) ==
    /\ call[c].step = "check"
    /\ call[c].used >= DailyLimit[call[c].holder]
    /\ call' = [call EXCEPT ![c].step = "denied"]
    /\ UNCHANGED <<day, quota, granted>>

(* Without a holder nothing is charged: the reports of the caller's IP are *)
(* counted, and free says whether fewer than ANON_DAILY_LIMIT were found.  *)
CountAnonymous(c, free) ==
    /\ call[c].step = "count"
    /\ call' = [call EXCEPT ![c].step = IF free THEN "allowed" ELSE "denied"]
    /\ UNCHANGED <<day, quota, granted>>

(* The call returns its verdict, or its worker dies in the middle of it. *)
Leave(c) ==
    /\ call[c].step # "idle"
    /\ call' = [call EXCEPT ![c] = Idle]
    /\ UNCHANGED <<day, quota, granted>>

(* Midnight UTC. *)
NextDay ==
    /\ day < MaxDay
    /\ day' = day + 1
    /\ UNCHANGED <<quota, call, granted>>

QuotaNext ==
    \/ \E c \in Callers, h \in Holders \cup {Anonymous} : Begin(c, h)
    \/ \E c \in Callers : Read(c) \/ Reset(c) \/ Charge(c) \/ Refuse(c) \/ Leave(c)
    \/ \E c \in Callers, free \in BOOLEAN : CountAnonymous(c, free)
    \/ NextDay

QuotaSpec == QuotaInit /\ [][QuotaNext]_quotaVars

-----------------------------------------------------------------------------
(* Callers that have decided to charge h but have not incremented it yet. *)
Pending(h) ==
    {c \in Callers : /\ call[c].step = "check"
                     /\ call[c].holder = h
                     /\ call[c].used < DailyLimit[h]}

(* However the reads, resets and increments of concurrent workers          *)
(* interleave, the counter of a holder plus the increments still to come   *)
(* exceeds its limit by less than the number of workers                    *)
(* (consume_daily_quota's check-then-$inc).                                *)
CounterBound ==
    \A h \in Holders :
        quota[h].used + Cardinality(Pending(h)) < DailyLimit[h] + Cardinality(Callers)

(* The documented limit: the analyses a holder was granted in calls begun  *)
(* on one day never exceed its daily limit (README, USER_DAILY_LIMIT:      *)
(* "analyses per account per day").                                        *)
DailyBudget ==
    \A h \in Holders, d \in 0..MaxDay : granted[h][d] <= DailyLimit[h]

(* A worker still at yesterday's call may reset the record to yesterday,   *)
(* and all others find the day over once more; a reset of tomorrow's lets  *)
(* in those still at today's.                                              *)
MidnightLimit(h) ==
    LET n == Cardinality(Callers)
    IN  (n * (n + 1) * (3 * DailyLimit[h] + n - 1)) \div 6 + n - 1

(* How far concurrent workers overrun the documented limit, whichever      *)
(* midnights fall into their calls (consume_daily_quota's reset from a     *)
(* snapshot and an earlier `now`).                                         *)
MidnightBound == \A h \in Holders, d \in 0..MaxDay : granted[h][d] <= MidnightLimit(h)

(* Every call ends on the day it began. *)
SameDay == \A c \in Callers : call[c].step # "idle" => call[c].now = day

(* The whole budget once for each worker that may reset the record, and    *)
(* one more for each worker that had read the record before another's $inc.*)
GrantLimit(h) ==
    LET n == Cardinality(Callers) IN n * DailyLimit[h] + (n * (n - 1)) \div 2

GrantBound == \A h \in Holders : \A d \in 0..MaxDay : granted[h][d] <= GrantLimit(h)

(* How far concurrent workers overrun the documented limit while no call   *)
(* crosses a midnight: every worker that found the day over resets the     *)
(* record, whoever has charged it since, and each of them opens the budget *)
(* again (consume_daily_quota's reset from a snapshot).                    *)
OverrunBound == []SameDay => []GrantBound

(* The record never undercounts the day it stands for: what /limits shows  *)
(* as used is at least what was granted that day (get_quota_state against  *)
(* consume_daily_quota).                                                   *)
CounterCoversGrants ==
    \A h \in Holders :
        quota[h].resetDay > 0 => granted[h][quota[h].resetDay - 1] <= quota[h].used

(* While nobody is in a call, the budget a holder is shown as remaining    *)
(* for today and what it was granted today together never exceed the limit *)
(* (get_quota_state is what /check and /limits trust).                     *)
RemainingHonest ==
    (\A c \in Callers : call[c].step = "idle") =>
        \A h \in Holders : Remaining(h, day) + granted[h][day] <= DailyLimit[h]
=============================================================================
