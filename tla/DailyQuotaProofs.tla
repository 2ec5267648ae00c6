-------------------------- MODULE DailyQuotaProofs --------------------------
(* What DailyQuota promises for any number of workers, holders, limits and *)
(* days: the state keeps its type, the counter of a holder overruns its    *)
(* limit by less than the number of workers, and what is granted of a day  *)
(* is bounded, on an ordinary day and when calls cross midnights.  With    *)
(* one worker the limit is kept.                                           *)
EXTENDS DailyQuota, FiniteSetTheorems, TLAPS

(* A step of a call leaves its holder and its day, and every other call,   *)
(* as they were.                                                           *)
LEMMA CallFrame ==
    ASSUME QuotaTypeOK, NEW c \in Callers,
           Read(c) \/ Reset(c) \/ Charge(c) \/ Refuse(c) \/ (\E b \in BOOLEAN : CountAnonymous(c, b))
    PROVE  /\ call' \in [Callers -> CallRecord]
           /\ call'[c].holder = call[c].holder
           /\ call'[c].now = call[c].now
           /\ \A d \in Callers \ {c} : call'[d] = call[d]
<1>0. /\ call \in [Callers -> CallRecord]
      /\ quota \in [Holders -> QuotaRecord]
  BY DEF QuotaTypeOK
<1>1. CASE Read(c)
  <2>1. call[c].holder \in Holders
    BY <1>1 DEF Read, QuotaTypeOK
  <2>2. PICK s \in {"reset", "check"}, u \in Nat :
           call' = [call EXCEPT ![c].step = s, ![c].used = u]
    BY <1>0, <1>1, <2>1 DEF Read, QuotaRecord
  <2> QED
    BY <1>0, <2>2 DEF CallRecord
<1>2. CASE Reset(c)
  BY <1>0, <1>2 DEF Reset, CallRecord
<1>3. CASE Charge(c)
  BY <1>0, <1>3 DEF Charge, CallRecord
<1>4. CASE Refuse(c)
  BY <1>0, <1>4 DEF Refuse, CallRecord
<1>5. ASSUME NEW b \in BOOLEAN, CountAnonymous(c, b)
      PROVE  /\ call' \in [Callers -> CallRecord]
             /\ call'[c].holder = call[c].holder
             /\ call'[c].now = call[c].now
             /\ \A d \in Callers \ {c} : call'[d] = call[d]
  BY <1>0, <1>5 DEF CountAnonymous, CallRecord
<1> QED
  BY <1>1, <1>2, <1>3, <1>4, <1>5

(* The passage of a call from one step to the next, as the guards and the  *)
(* primed records of consume_daily_quota's actions give it.                *)
LEMMA CallSteps ==
    ASSUME QuotaTypeOK, NEW c \in Callers
    PROVE  /\ Read(c) => /\ call'[c].step = IF Expired(quota[call[c].holder], call[c].now)
                                            THEN "reset" ELSE "check"
                         /\ call'[c].used = IF Expired(quota[call[c].holder], call[c].now)
                                            THEN 0 ELSE quota[call[c].holder].used
           /\ Reset(c)  => call'[c].step = "check" /\ call'[c].used = call[c].used
           /\ Charge(c) => call'[c].step = "allowed"
           /\ Refuse(c) => call'[c].step = "denied"
           /\ \A b \in BOOLEAN :
                 CountAnonymous(c, b) => call'[c].step = IF b THEN "allowed" ELSE "denied"
  BY DEF QuotaTypeOK, CallRecord, Read, Reset, Charge, Refuse, CountAnonymous

(* consume_daily_quota and the passing of days keep every variable within  *)
(* the values the Mongo records and the calls can hold.                    *)
LEMMA QuotaTypeStep == QuotaTypeOK /\ [QuotaNext]_quotaVars => QuotaTypeOK'
<1> SUFFICES ASSUME QuotaTypeOK, [QuotaNext]_quotaVars
             PROVE  QuotaTypeOK'
  OBVIOUS
<1> DEFINE Framed(c) == /\ call' \in [Callers -> CallRecord]
                        /\ call'[c].holder = call[c].holder
                        /\ call'[c].now = call[c].now
                        /\ \A d \in Callers \ {c} : call'[d] = call[d]
<1>1. ASSUME NEW c \in Callers, NEW h \in Holders \cup {Anonymous}, Begin(c, h)
      PROVE  QuotaTypeOK'
  BY <1>1, QuotaAssumption DEF Begin, QuotaTypeOK, CallRecord
<1>2. ASSUME NEW c \in Callers, Read(c)
      PROVE  QuotaTypeOK'
  <2>1. Framed(c)
    BY <1>2, CallFrame
  <2> QED
    BY <1>2, <2>1 DEF Read, QuotaTypeOK
<1>3. ASSUME NEW c \in Callers, Reset(c)
      PROVE  QuotaTypeOK'
  <2>1. Framed(c)
    BY <1>3, CallFrame
  <2>2. quota' \in [Holders -> QuotaRecord]
    BY <1>3 DEF Reset, QuotaTypeOK, QuotaRecord, CallRecord
  <2> QED
    BY <1>3, <2>1, <2>2 DEF Reset, QuotaTypeOK
<1>4. ASSUME NEW c \in Callers, Charge(c)
      PROVE  QuotaTypeOK'
  <2>1. Framed(c)
    BY <1>4, CallFrame
  <2>2. quota' \in [Holders -> QuotaRecord]
    <3>1. PICK h \in Holders : quota' = [quota EXCEPT ![h].used = quota[h].used + 1]
      BY <1>4 DEF Charge, QuotaTypeOK
    <3>2. quota[h].used + 1 \in Nat
      BY DEF QuotaTypeOK, QuotaRecord
    <3> QED
      BY <3>1, <3>2 DEF QuotaTypeOK, QuotaRecord
  <2>3. granted' \in [Holders -> [0..MaxDay -> Nat]]
    <3> DEFINE h == call[c].holder
               d == call[c].now
               g == [granted[h] EXCEPT ![d] = granted[h][d] + 1]
    <3>1. h \in Holders /\ d \in 0..MaxDay
      BY <1>4, QuotaAssumption DEF Charge, QuotaTypeOK, CallRecord
    <3>2. granted[h] \in [0..MaxDay -> Nat]
      BY <3>1 DEF QuotaTypeOK
    <3>3. g \in [0..MaxDay -> Nat]
      <4>1. granted[h][d] \in Nat
        BY <3>1, <3>2, Zenon
      <4>2. granted[h][d] + 1 \in Nat
        BY <4>1
      <4> QED
        BY <3>2, <4>2, Zenon
    <3>4. granted' = [granted EXCEPT ![h] = g]
      BY <1>4 DEF Charge
    <3> HIDE DEF g
    <3> QED
      BY <3>1, <3>3, <3>4 DEF QuotaTypeOK
  <2>4. day' = day /\ call'[c].step = "allowed"
    BY <1>4, CallSteps DEF Charge
  <2> QED
    BY <2>1, <2>2, <2>3, <2>4 DEF QuotaTypeOK
<1>5. ASSUME NEW c \in Callers, Refuse(c)
      PROVE  QuotaTypeOK'
  <2>1. Framed(c)
    BY <1>5, CallFrame
  <2> QED
    BY <1>5, <2>1 DEF Refuse, QuotaTypeOK
<1>6. ASSUME NEW c \in Callers, Leave(c)
      PROVE  QuotaTypeOK'
  BY <1>6 DEF Leave, Idle, QuotaTypeOK, CallRecord
<1>7. ASSUME NEW c \in Callers, NEW free \in BOOLEAN, CountAnonymous(c, free)
      PROVE  QuotaTypeOK'
  <2>1. Framed(c)
    BY <1>7, CallFrame
  <2>2. call'[c].step \in {"allowed", "denied"}
    BY <1>7, CallSteps
  <2> QED
    BY <1>7, <2>1, <2>2 DEF CountAnonymous, QuotaTypeOK
<1>8. CASE NextDay
  BY <1>8, QuotaAssumption DEF NextDay, QuotaTypeOK, CallRecord
<1>9. CASE UNCHANGED quotaVars
  BY <1>9 DEF quotaVars, QuotaTypeOK
<1> QED
  BY <1>1, <1>2, <1>3, <1>4, <1>5, <1>6, <1>7, <1>8, <1>9 DEF QuotaNext

(* consume_daily_quota keeps the types of the records and of the calls. *)
THEOREM QuotaTyped == QuotaSpec => []QuotaTypeOK
<1>1. QuotaInit => QuotaTypeOK
  BY QuotaAssumption DEF QuotaInit, QuotaTypeOK, QuotaRecord, CallRecord, Idle
<1> QED
  BY <1>1, QuotaTypeStep, PTL DEF QuotaSpec

(* Callers that may still charge h are finitely many, at most all workers. *)
LEMMA PendingBound ==
    ASSUME NEW h
    PROVE  /\ IsFiniteSet(Pending(h))
           /\ Cardinality(Pending(h)) \in Nat
           /\ Cardinality(Pending(h)) <= Cardinality(Callers)
           /\ Cardinality(Callers) \in Nat
           /\ Cardinality(Callers) > 0
<1>1. Pending(h) \in SUBSET Callers
  BY DEF Pending
<1> QED
  BY <1>1, FS_Subset, FS_CardinalityType, FS_EmptySet, QuotaAssumption

(* The same, of the next state. *)
LEMMA PendingBoundNext ==
    ASSUME NEW h
    PROVE  /\ IsFiniteSet(Pending(h)')
           /\ Cardinality(Pending(h)') \in Nat
           /\ Cardinality(Pending(h)') <= Cardinality(Callers)
<1>1. Pending(h)' \in SUBSET Callers
  BY DEF Pending
<1> QED
  BY <1>1, FS_Subset, FS_CardinalityType, QuotaAssumption

(* A step that leaves the records alone and adds nobody to the pending     *)
(* callers keeps the bound.                                                *)
LEMMA BoundKept ==
    ASSUME QuotaTypeOK, CounterBound, NEW h \in Holders,
           quota'[h].used = quota[h].used, Pending(h)' \subseteq Pending(h)
    PROVE  quota'[h].used + Cardinality(Pending(h)') < DailyLimit[h] + Cardinality(Callers)
<1>1. Cardinality(Pending(h)') <= Cardinality(Pending(h))
  BY FS_Subset, PendingBound
<1>2. quota[h].used \in Nat /\ DailyLimit[h] \in Nat
  BY QuotaAssumption DEF QuotaTypeOK, QuotaRecord
<1> QED
  BY <1>1, <1>2, PendingBound, PendingBoundNext DEF CounterBound

(* One step of the quota keeps the bound: only Read adds a pending caller, *)
(* and only when the counter is below the limit; only Charge increments,   *)
(* and its caller is pending no more; Reset starts again from zero.        *)
LEMMA CounterBoundStep ==
    QuotaTypeOK /\ CounterBound /\ [QuotaNext]_quotaVars => CounterBound'
<1> SUFFICES ASSUME QuotaTypeOK, CounterBound, [QuotaNext]_quotaVars, NEW h \in Holders
             PROVE  quota'[h].used + Cardinality(Pending(h)')
                       < DailyLimit[h] + Cardinality(Callers)
  BY DEF CounterBound
<1> DEFINE Goal == quota'[h].used + Cardinality(Pending(h)')
                      < DailyLimit[h] + Cardinality(Callers)
<1>0. quota[h].used \in Nat /\ DailyLimit[h] \in Nat
  BY QuotaAssumption DEF QuotaTypeOK, QuotaRecord
<1>1. ASSUME NEW c \in Callers, NEW g \in Holders \cup {Anonymous}, Begin(c, g)
      PROVE  Goal
  <2>1. Pending(h)' \subseteq Pending(h)
    BY <1>1 DEF Begin, Pending, QuotaTypeOK
  <2> QED
    BY <1>1, <2>1, BoundKept DEF Begin
<1>2. ASSUME NEW c \in Callers, Read(c)
      PROVE  Goal
  <2>0. quota' = quota /\ call[c].step = "read"
    BY <1>2 DEF Read
  <2>1. /\ call'[c].holder = call[c].holder
        /\ \A d \in Callers \ {c} : call'[d] = call[d]
    BY <1>2, CallFrame
  <2>2. CASE c \notin Pending(h)'
    <3>1. Pending(h)' \subseteq Pending(h)
      BY <2>1, <2>2 DEF Pending
    <3> QED
      BY <2>0, <3>1, BoundKept
  <2>3. CASE c \in Pending(h)'
    <3>1. call'[c].holder = h /\ call'[c].used < DailyLimit[h] /\ call'[c].step = "check"
      BY <2>3 DEF Pending
    <3>2. call'[c].used = quota[h].used
      BY <1>2, <2>1, <3>1, CallSteps
    <3> QED
      BY <1>0, <2>0, <3>1, <3>2, PendingBound, PendingBoundNext
  <2> QED
    BY <2>2, <2>3
<1>3. ASSUME NEW c \in Callers, Reset(c)
      PROVE  Goal
  <2>1. /\ call'[c].holder = call[c].holder
        /\ \A d \in Callers \ {c} : call'[d] = call[d]
    BY <1>3, CallFrame
  <2>2. CASE call[c].holder # h
    <3>1. quota'[h].used = quota[h].used
      BY <1>3, <2>2 DEF Reset, QuotaTypeOK
    <3>2. Pending(h)' \subseteq Pending(h)
      BY <2>1, <2>2 DEF Pending
    <3> QED
      BY <3>1, <3>2, BoundKept
  <2>3. CASE call[c].holder = h
    <3>1. quota'[h].used = 0
      BY <1>3, <2>3 DEF Reset, QuotaTypeOK
    <3>2. CASE DailyLimit[h] > 0
      BY <1>0, <3>1, <3>2, PendingBound, PendingBoundNext
    <3>3. CASE DailyLimit[h] = 0
      <4>1. \A d \in Callers : call'[d].used \in Nat
        BY <1>3, CallFrame DEF CallRecord
      <4>2. Pending(h)' = {}
        BY <3>3, <4>1 DEF Pending
      <4> QED
        BY <3>1, <3>3, <4>2, FS_EmptySet, PendingBound
    <3> QED
      BY <1>0, <3>2, <3>3
  <2> QED
    BY <2>2, <2>3
<1>4. ASSUME NEW c \in Callers, Charge(c)
      PROVE  Goal
  <2>1. /\ call'[c].step = "allowed"
        /\ \A d \in Callers \ {c} : call'[d] = call[d]
    BY <1>4, CallFrame, CallSteps
  <2>2. Pending(h)' = Pending(h) \ {c}
    BY <2>1 DEF Pending
  <2>3. CASE call[c].holder # h
    <3>1. quota'[h].used = quota[h].used
      BY <1>4, <2>3 DEF Charge, QuotaTypeOK
    <3> QED
      BY <2>2, <3>1, BoundKept
  <2>4. CASE call[c].holder = h
    <3>1. quota'[h].used = quota[h].used + 1
      BY <1>4, <2>4 DEF Charge, QuotaTypeOK, QuotaRecord
    <3>2. c \in Pending(h)
      BY <1>4, <2>4 DEF Charge, Pending
    <3>3. Cardinality(Pending(h)') = Cardinality(Pending(h)) - 1
      BY <2>2, <3>2, FS_RemoveElement, PendingBound
    <3> QED
      BY <1>0, <3>1, <3>3, PendingBound DEF CounterBound
  <2> QED
    BY <2>3, <2>4
<1>5. ASSUME NEW c \in Callers, Refuse(c) \/ (\E b \in BOOLEAN : CountAnonymous(c, b))
      PROVE  Goal
  <2>1. /\ call'[c].step \in {"allowed", "denied"}
        /\ \A d \in Callers \ {c} : call'[d] = call[d]
    BY <1>5, CallFrame, CallSteps
  <2>2. Pending(h)' \subseteq Pending(h)
    BY <2>1 DEF Pending
  <2> QED
    BY <1>5, <2>2, BoundKept DEF Refuse, CountAnonymous
<1>6. ASSUME NEW c \in Callers, Leave(c)
      PROVE  Goal
  <2>1. Pending(h)' \subseteq Pending(h)
    BY <1>6 DEF Leave, Idle, Pending, QuotaTypeOK
  <2> QED
    BY <1>6, <2>1, BoundKept DEF Leave
<1>7. CASE NextDay \/ UNCHANGED quotaVars
  <2>1. Pending(h)' = Pending(h)
    BY <1>7 DEF NextDay, quotaVars, Pending
  <2> QED
    BY <1>7, <2>1, BoundKept DEF NextDay, quotaVars
<1> QED
  BY <1>1, <1>2, <1>3, <1>4, <1>5, <1>6, <1>7 DEF QuotaNext

(* For every number of workers, holders, limits and days: the counter of   *)
(* an account or API key never overruns its daily limit by as much as the  *)
(* number of workers (consume_daily_quota).                                *)
THEOREM CounterBounded == QuotaSpec => []CounterBound
<1>1. QuotaInit => CounterBound
  <2> SUFFICES ASSUME QuotaInit, NEW h \in Holders
               PROVE  quota[h].used + Cardinality(Pending(h))
                         < DailyLimit[h] + Cardinality(Callers)
    BY DEF CounterBound
  <2>1. Pending(h) = {} /\ quota[h].used = 0
    BY DEF QuotaInit, Pending, Idle
  <2> QED
    BY <2>1, FS_EmptySet, PendingBound, QuotaAssumption
<1> QED
  BY <1>1, QuotaTyped, CounterBoundStep, PTL DEF QuotaSpec

-----------------------------------------------------------------------------
(* With one worker process there is nobody to interleave with, and the     *)
(* documented daily limit holds.                                           *)
Serial == \A b, c \in Callers : b = c

(* A record never undercounts its day, and no analysis was granted for a   *)
(* day after it.                                                           *)
RecordHonest(h) ==
    /\ quota[h].resetDay <= day + 1
    /\ quota[h].used <= DailyLimit[h]
    /\ \A d \in 0..MaxDay : /\ granted[h][d] <= DailyLimit[h]
                            /\ d + 1 = quota[h].resetDay => granted[h][d] <= quota[h].used
                            /\ d + 1 > quota[h].resetDay => granted[h][d] = 0

(* What the one call running has read is what the record still holds.      *)
CallHonest(c) ==
    /\ call[c].step = "read" => quota[call[c].holder].resetDay <= call[c].now + 1
    /\ call[c].step = "reset" => /\ call[c].used = 0
                                 /\ quota[call[c].holder].resetDay <= call[c].now
    /\ call[c].step = "check" => /\ call[c].used = quota[call[c].holder].used
                                 /\ quota[call[c].holder].resetDay = call[c].now + 1

SerialInv ==
    /\ \A h \in Holders : RecordHonest(h)
    /\ \A c \in Callers : CallHonest(c)

(* A step of the one worker keeps what it has read, and the records,       *)
(* honest; so does midnight.                                               *)
LEMMA SerialStep ==
    ASSUME Serial, QuotaTypeOK, SerialInv, [QuotaNext]_quotaVars
    PROVE  SerialInv'
<1> USE DEF QuotaTypeOK, QuotaRecord, CallRecord
<1>1. ASSUME NEW c \in Callers, NEW h \in Holders \cup {Anonymous}, Begin(c, h)
      PROVE  SerialInv'
  <2>1. UNCHANGED <<day, quota, granted>>
    BY <1>1 DEF Begin
  <2>2. \A b \in Callers : CallHonest(b)'
    <3> SUFFICES ASSUME NEW b \in Callers
                 PROVE  CallHonest(b)'
      OBVIOUS
    <3>1. b = c
      BY DEF Serial
    <3>2. /\ call'[c].step = IF h = Anonymous THEN "count" ELSE "read"
          /\ call'[c].holder = h /\ call'[c].now = day
      BY <1>1 DEF Begin
    <3>3. h # Anonymous => quota[h].resetDay <= day + 1
      BY DEF SerialInv, RecordHonest
    <3> QED
      BY <2>1, <3>1, <3>2, <3>3 DEF CallHonest
  <2> QED
    BY <2>1, <2>2 DEF SerialInv, RecordHonest
<1>2. ASSUME NEW c \in Callers, Read(c)
      PROVE  SerialInv'
  <2>1. UNCHANGED <<day, quota, granted>> /\ call[c].step = "read"
    BY <1>2 DEF Read
  <2>2. \A b \in Callers : CallHonest(b)'
    <3> SUFFICES ASSUME NEW b \in Callers
                 PROVE  CallHonest(b)'
      OBVIOUS
    <3>1. b = c
      BY DEF Serial
    <3>2. PICK q \in QuotaRecord : q = quota[call[c].holder]
      BY <2>1
    <3>3. /\ call'[c].step = IF Expired(q, call[c].now) THEN "reset" ELSE "check"
          /\ call'[c].used = IF Expired(q, call[c].now) THEN 0 ELSE q.used
          /\ call'[c].holder = call[c].holder /\ call'[c].now = call[c].now
      BY <1>2, <3>2 DEF Read
    <3>4. q.resetDay <= call[c].now + 1
      BY <2>1, <3>2 DEF SerialInv, CallHonest
    <3>5. call[c].now \in Nat
      OBVIOUS
    <3> QED
      BY <2>1, <3>1, <3>2, <3>3, <3>4, <3>5 DEF CallHonest, Expired
  <2> QED
    BY <2>1, <2>2 DEF SerialInv, RecordHonest
<1>3. ASSUME NEW c \in Callers, Reset(c)
      PROVE  SerialInv'
  <2>1. PICK g \in Holders : g = call[c].holder
    BY <1>3 DEF Reset
  <2>2. PICK n \in 0..MaxDay : n = call[c].now /\ n <= day
    BY <1>3, QuotaAssumption DEF Reset
  <2>3. /\ UNCHANGED <<day, granted>>
        /\ quota' = [quota EXCEPT ![g] = [used |-> 0, resetDay |-> n + 1]]
        /\ call' = [call EXCEPT ![c].step = "check"]
        /\ call[c].step = "reset"
    BY <1>3, <2>1, <2>2 DEF Reset
  <2>4. quota[g].resetDay <= n /\ call[c].used = 0
    BY <2>1, <2>2, <2>3 DEF SerialInv, CallHonest
  <2>5. quota'[g].used = 0 /\ quota'[g].resetDay = n + 1
    BY <2>3
  <2>6. \A b \in Callers : CallHonest(b)'
    <3>1. /\ call'[c].step = "check" /\ call'[c].holder = g
          /\ call'[c].used = 0 /\ call'[c].now = n
      BY <2>1, <2>2, <2>3, <2>4
    <3> QED
      BY <2>5, <3>1 DEF CallHonest, Serial
  <2>7. RecordHonest(g)'
    <3>1. DailyLimit[g] \in Nat /\ quota[g].resetDay \in Nat /\ day \in Nat
      BY QuotaAssumption
    <3>2. \A d \in 0..MaxDay : granted[g][d] <= DailyLimit[g]
      BY DEF SerialInv, RecordHonest
    <3>3. \A d \in 0..MaxDay : d + 1 >= n + 1 => granted[g][d] = 0
      BY <2>4, <3>1 DEF SerialInv, RecordHonest
    <3>4. n + 1 <= day + 1 /\ 0 <= DailyLimit[g]
      BY <2>2, <3>1
    <3>5. ASSUME NEW d \in 0..MaxDay
          PROVE  /\ granted[g][d] <= DailyLimit[g]
                 /\ d + 1 = n + 1 => granted[g][d] <= 0
                 /\ d + 1 > n + 1 => granted[g][d] = 0
      BY <3>2, <3>3, QuotaAssumption
    <3> HIDE DEF QuotaTypeOK, QuotaRecord, CallRecord
    <3> QED
      BY <2>3, <2>5, <3>4, <3>5 DEF RecordHonest
  <2>8. \A h \in Holders \ {g} : quota'[h] = quota[h]
    BY <2>3
  <2>9. \A h \in Holders \ {g} : RecordHonest(h)'
    BY <2>3, <2>8 DEF SerialInv, RecordHonest
  <2> QED
    BY <2>6, <2>7, <2>9 DEF SerialInv
<1>4. ASSUME NEW c \in Callers, Charge(c)
      PROVE  SerialInv'
  <2>1. PICK g \in Holders : g = call[c].holder
    BY <1>4 DEF Charge
  <2>2. PICK n \in 0..MaxDay : n = call[c].now
    BY <1>4, QuotaAssumption DEF Charge
  <2>3. /\ UNCHANGED day
        /\ quota' = [quota EXCEPT ![g].used = @ + 1]
        /\ granted' = [granted EXCEPT ![g][n] = @ + 1]
        /\ call' = [call EXCEPT ![c].step = "allowed"]
        /\ call[c].step = "check" /\ call[c].used < DailyLimit[g]
    BY <1>4, <2>1, <2>2 DEF Charge
  <2>4. /\ quota[g].used < DailyLimit[g] /\ quota[g].resetDay = n + 1
    BY <2>1, <2>2, <2>3 DEF SerialInv, CallHonest
  <2>5. quota'[g].used = quota[g].used + 1 /\ quota'[g].resetDay = n + 1
    BY <2>3, <2>4
  <2>6. /\ granted'[g][n] = granted[g][n] + 1
        /\ \A d \in 0..MaxDay \ {n} : granted'[g][d] = granted[g][d]
    BY <2>3
  <2>7. \A h \in Holders \ {g} : quota'[h] = quota[h] /\ granted'[h] = granted[h]
    BY <2>3
  <2>8. \A b \in Callers : CallHonest(b)'
    <3>1. call'[c].step = "allowed"
      BY <2>3
    <3> QED
      BY <3>1 DEF CallHonest, Serial
  <2>9. RecordHonest(g)'
    <3>1. /\ DailyLimit[g] \in Nat /\ quota[g].used \in Nat /\ day \in Nat
          /\ \A d \in 0..MaxDay : granted[g][d] \in Nat
      BY QuotaAssumption
    <3>2. granted[g][n] <= quota[g].used /\ n + 1 <= day + 1
      BY <2>4, <3>1 DEF SerialInv, RecordHonest
    <3>3. \A d \in 0..MaxDay : /\ granted[g][d] <= DailyLimit[g]
                               /\ d + 1 > n + 1 => granted[g][d] = 0
      BY <2>4 DEF SerialInv, RecordHonest
    <3>4. ASSUME NEW d \in 0..MaxDay
          PROVE  /\ granted'[g][d] <= DailyLimit[g]
                 /\ d + 1 = n + 1 => granted'[g][d] <= quota[g].used + 1
                 /\ d + 1 > n + 1 => granted'[g][d] = 0
      <4>1. CASE d = n
        BY <2>4, <2>6, <3>1, <3>2, <4>1
      <4>2. CASE d # n
        <5>1. granted'[g][d] = granted[g][d] /\ d + 1 # n + 1
          BY <2>6, <4>2, QuotaAssumption
        <5> QED
          BY <3>3, <5>1
      <4> QED
        BY <4>1, <4>2
    <3>5. quota[g].used + 1 <= DailyLimit[g]
      BY <2>4, <3>1
    <3> QED
      BY <2>3, <2>5, <3>2, <3>4, <3>5 DEF RecordHonest
  <2>10. \A h \in Holders \ {g} : RecordHonest(h)'
    BY <2>3, <2>7 DEF SerialInv, RecordHonest
  <2> QED
    BY <2>8, <2>9, <2>10 DEF SerialInv
<1>5. ASSUME NEW c \in Callers, NEW free \in BOOLEAN,
             Refuse(c) \/ Leave(c) \/ CountAnonymous(c, free)
      PROVE  SerialInv'
  <2>1. UNCHANGED <<day, quota, granted>>
    BY <1>5 DEF Refuse, Leave, CountAnonymous
  <2>2. call'[c].step \in {"idle", "allowed", "denied"}
    BY <1>5 DEF Refuse, Leave, CountAnonymous, Idle
  <2>3. \A b \in Callers : CallHonest(b)'
    BY <2>2 DEF CallHonest, Serial
  <2> QED
    BY <2>1, <2>3 DEF SerialInv, RecordHonest
<1>6. CASE NextDay
  <2>1. UNCHANGED <<quota, call, granted>> /\ day' = day + 1 /\ day \in Nat
    BY <1>6, QuotaAssumption DEF NextDay
  <2> QED
    BY <2>1 DEF SerialInv, RecordHonest, CallHonest
<1>7. CASE UNCHANGED quotaVars
  BY <1>7 DEF quotaVars, SerialInv, RecordHonest, CallHonest
<1> QED
  BY <1>1, <1>2, <1>3, <1>4, <1>5, <1>6, <1>7 DEF QuotaNext

(* The records of a single worker are honest at every moment. *)
LEMMA SerialHonest == Serial => (QuotaSpec => [](QuotaTypeOK /\ SerialInv))
<1> SUFFICES ASSUME Serial
             PROVE  QuotaSpec => [](QuotaTypeOK /\ SerialInv)
  OBVIOUS
<1>1. QuotaInit => SerialInv
  BY QuotaAssumption DEF QuotaInit, SerialInv, RecordHonest, CallHonest, Idle
<1>2. QuotaTypeOK /\ SerialInv /\ [QuotaNext]_quotaVars => SerialInv'
  BY SerialStep
<1> QED
  BY <1>1, <1>2, QuotaTyped, PTL DEF QuotaSpec

(* With one worker process, the analyses granted to an account or key in   *)
(* calls begun on one day never exceed its daily limit.                    *)
THEOREM SerialBudget == Serial => (QuotaSpec => []DailyBudget)
<1>1. QuotaTypeOK /\ SerialInv => DailyBudget
  BY DEF SerialInv, RecordHonest, DailyBudget
<1> QED
  BY <1>1, SerialHonest, PTL

(* With one worker process, a record never undercounts the day it stands   *)
(* for.                                                                    *)
THEOREM SerialCounter == Serial => (QuotaSpec => []CounterCoversGrants)
<1>1. QuotaTypeOK /\ SerialInv => CounterCoversGrants
  <2> SUFFICES ASSUME QuotaTypeOK, SerialInv, NEW h \in Holders, quota[h].resetDay > 0
               PROVE  granted[h][quota[h].resetDay - 1] <= quota[h].used
    BY DEF CounterCoversGrants
  <2>1. quota[h].resetDay - 1 \in 0..MaxDay
    BY QuotaAssumption DEF QuotaTypeOK, QuotaRecord, SerialInv, RecordHonest
  <2>2. (quota[h].resetDay - 1) + 1 = quota[h].resetDay
    BY DEF QuotaTypeOK, QuotaRecord
  <2> QED
    BY <2>1, <2>2 DEF SerialInv, RecordHonest
<1> QED
  BY <1>1, SerialHonest, PTL

(* With one worker process, what get_quota_state shows as remaining for    *)
(* today is what consume_daily_quota will still grant, never more.         *)
THEOREM SerialRemaining == Serial => (QuotaSpec => []RemainingHonest)
<1>1. QuotaTypeOK /\ SerialInv => RemainingHonest
  <2> SUFFICES ASSUME QuotaTypeOK, SerialInv, NEW h \in Holders
               PROVE  Remaining(h, day) + granted[h][day] <= DailyLimit[h]
    BY DEF RemainingHonest
  <2>1. /\ DailyLimit[h] \in Nat /\ granted[h][day] \in Nat /\ day \in 0..MaxDay
        /\ quota[h].used \in Nat /\ quota[h].resetDay \in Nat
    BY QuotaAssumption DEF QuotaTypeOK, QuotaRecord
  <2>2. /\ quota[h].resetDay <= day + 1 /\ quota[h].used <= DailyLimit[h]
        /\ day + 1 = quota[h].resetDay => granted[h][day] <= quota[h].used
        /\ day + 1 > quota[h].resetDay => granted[h][day] = 0
    BY <2>1 DEF SerialInv, RecordHonest
  <2>3. CASE quota[h].resetDay <= day
    <3>1. granted[h][day] = 0
      BY <2>1, <2>2, <2>3
    <3>2. Remaining(h, day) = DailyLimit[h]
      BY <2>1, <2>3 DEF Remaining, Expired, AtLeastZero
    <3> QED
      BY <2>1, <3>1, <3>2
  <2>4. CASE quota[h].resetDay = day + 1
    <3>1. granted[h][day] <= quota[h].used /\ quota[h].used <= DailyLimit[h]
      BY <2>2, <2>4
    <3>2. Remaining(h, day) = DailyLimit[h] - quota[h].used
      <4>1. ~(quota[h].resetDay <= day)
        BY <2>1, <2>4
      <4> QED
        BY <2>1, <3>1, <4>1 DEF Remaining, Expired, AtLeastZero
    <3> QED
      BY <2>1, <3>1, <3>2
  <2> QED
    BY <2>1, <2>2, <2>3, <2>4
<1> QED
  BY <1>1, SerialHonest, PTL
-----------------------------------------------------------------------------
(* How much concurrent workers can be granted in a day.  A worker that     *)
(* found the day over opens the budget again when it resets the record;    *)
(* after the first reset of a day no other worker finds it over.           *)
Resetting(h) == {c \in Callers : call[c].step = "reset" /\ call[c].holder = h}

(* Twice what was granted before the last reset, when q workers have been  *)
(* through theirs: the k-th of them found at most limit + k - 1 charged.   *)
Twice(limit, q) == q * (2 * limit + q - 1)

(* The inductive invariant.  Until the record is reset nothing is granted; *)
(* then the counter, the workers that will still charge it and those that  *)
(* will still reset it are bounded together, and what the counter has      *)
(* forgotten is bounded by the resets that are over.                       *)
DayInv(h) ==
    LET n == Cardinality(Callers)
        r == Cardinality(Resetting(h))
        q == quota[h]
    IN  /\ q.resetDay <= day + 1
        /\ \A d \in 0..MaxDay : /\ d < day => 2 * granted[h][d] <= Twice(DailyLimit[h], n)
                                /\ d > day => granted[h][d] = 0
        /\ q.resetDay <= day => granted[h][day] = 0 /\ Pending(h) = {}
        /\ q.resetDay > day =>
              /\ r < n
              /\ q.used + Cardinality(Pending(h)) + r < DailyLimit[h] + n
              /\ 2 * (granted[h][day] - q.used) <= Twice(DailyLimit[h], n - 1 - r)

(* One more reset forgets at most limit + q. *)
LEMMA TwiceStep ==
    ASSUME NEW limit \in Nat, NEW q \in Nat
    PROVE  Twice(limit, q + 1) = Twice(limit, q) + 2 * (limit + q)
BY DEF Twice

LEMMA TwiceNat ==
    ASSUME NEW limit \in Nat, NEW q \in Nat
    PROVE  Twice(limit, q) \in Nat
<1>1. CASE q = 0
  BY <1>1 DEF Twice
<1>2. CASE q # 0
  <2>1. 2 * limit + q - 1 \in Nat
    BY <1>2
  <2>2. \A a, b \in Nat : a * b \in Nat
    OBVIOUS
  <2> QED
    BY <2>1, <2>2 DEF Twice
<1> QED
  BY <1>1, <1>2

LEMMA TwiceGrows ==
    ASSUME NEW limit \in Nat, NEW q \in Nat, NEW p \in Nat, q <= p
    PROVE  Twice(limit, q) <= Twice(limit, p)
<1>1. CASE p = q
  BY <1>1, TwiceNat
<1>2. CASE p # q
  <2>1. PICK k \in Nat : k >= 1 /\ p = q + k
    <3>1. p - q \in Nat /\ p - q >= 1 /\ p = q + (p - q)
      BY <1>2
    <3> QED
      BY <3>1
  <2>2. q * k \in Nat /\ k * (2 * limit + q + k - 1) \in Nat
    <3>1. 2 * limit + q + k - 1 \in Nat
      BY <2>1
    <3>2. \A a, b \in Nat : a * b \in Nat
      OBVIOUS
    <3> QED
      BY <3>1, <3>2
  <2>3. Twice(limit, p) = Twice(limit, q) + q * k + k * (2 * limit + q + k - 1)
    BY <2>1 DEF Twice
  <2>4. Twice(limit, q) \in Nat /\ q * k \in Nat /\ k * (2 * limit + q + k - 1) \in Nat
    BY <2>2, TwiceNat
  <2> HIDE DEF Twice
  <2>5. \A a, b, c \in Nat : a <= a + b + c
    OBVIOUS
  <2>6. Twice(limit, q) <= Twice(limit, q) + q * k + k * (2 * limit + q + k - 1)
    BY <2>4, <2>5
  <2> QED
    BY <2>3, <2>6
<1> QED
  BY <1>1, <1>2

(* The workers that will charge a record and those that will reset it are  *)
(* not the same.                                                           *)
LEMMA TwoGroups ==
    ASSUME NEW S \in SUBSET Callers, NEW T \in SUBSET Callers, S \cap T = {}
    PROVE  /\ IsFiniteSet(S) /\ IsFiniteSet(T)
           /\ Cardinality(S) \in Nat /\ Cardinality(T) \in Nat
           /\ Cardinality(Callers) \in Nat /\ Cardinality(Callers) > 0
           /\ Cardinality(S) + Cardinality(T) <= Cardinality(Callers)
<1>1. IsFiniteSet(S) /\ IsFiniteSet(T) /\ IsFiniteSet(Callers)
  BY FS_Subset, QuotaAssumption
<1>2. Cardinality(S \cup T) = Cardinality(S) + Cardinality(T) - 0
  BY <1>1, FS_Union, FS_EmptySet
<1>3. Cardinality(S \cup T) <= Cardinality(Callers)
  <2>1. S \cup T \in SUBSET Callers
    OBVIOUS
  <2> QED
    BY <1>1, <2>1, FS_Subset
<1>4. /\ Cardinality(S) \in Nat /\ Cardinality(T) \in Nat
      /\ Cardinality(Callers) \in Nat /\ Cardinality(Callers) > 0
  BY <1>1, FS_CardinalityType, FS_EmptySet, QuotaAssumption
<1> QED
  BY <1>1, <1>2, <1>3, <1>4
LEMMA DayCounts ==
    ASSUME NEW h
    PROVE  /\ Cardinality(Callers) \in Nat /\ Cardinality(Callers) > 0
           /\ IsFiniteSet(Pending(h)) /\ IsFiniteSet(Resetting(h))
           /\ Cardinality(Pending(h)) \in Nat /\ Cardinality(Resetting(h)) \in Nat
           /\ Cardinality(Pending(h)) + Cardinality(Resetting(h)) <= Cardinality(Callers)
<1>1. /\ Pending(h) \in SUBSET Callers /\ Resetting(h) \in SUBSET Callers
      /\ Pending(h) \cap Resetting(h) = {}
  BY DEF Pending, Resetting
<1> HIDE DEF Pending, Resetting
<1> QED
  BY <1>1, TwoGroups

(* The same, of the next state. *)
LEMMA DayCountsNext ==
    ASSUME NEW h
    PROVE  /\ Cardinality(Pending(h)') \in Nat /\ Cardinality(Resetting(h)') \in Nat
           /\ Cardinality(Pending(h)') + Cardinality(Resetting(h)') <= Cardinality(Callers)
<1>1. /\ Pending(h)' \in SUBSET Callers /\ Resetting(h)' \in SUBSET Callers
      /\ Pending(h)' \cap Resetting(h)' = {}
  BY DEF Pending, Resetting
<1> QED
  BY <1>1, TwoGroups

(* The types of what a holder's invariant speaks of. *)
LEMMA DayTypes ==
    ASSUME QuotaTypeOK, NEW h \in Holders
    PROVE  /\ day \in Nat /\ day \in 0..MaxDay /\ DailyLimit[h] \in Nat
           /\ quota[h].used \in Nat /\ quota[h].resetDay \in Nat
           /\ \A d \in 0..MaxDay : granted[h][d] \in Nat
  BY QuotaAssumption DEF QuotaTypeOK, QuotaRecord

(* What was granted today stays within the bound of the past days. *)
LEMMA TodayWithin ==
    ASSUME QuotaTypeOK, NEW h \in Holders, DayInv(h)
    PROVE  2 * granted[h][day] <= Twice(DailyLimit[h], Cardinality(Callers))
<1> DEFINE n == Cardinality(Callers)
           r == Cardinality(Resetting(h))
           u == quota[h].used
           g == granted[h][day]
           L == DailyLimit[h]
<1>1. n \in Nat /\ r \in Nat /\ u \in Nat /\ g \in Nat /\ L \in Nat /\ quota[h].resetDay \in Nat
      /\ day \in Nat /\ Twice(L, n) \in Nat
  BY DayCounts, DayTypes, TwiceNat
<1>2. CASE quota[h].resetDay <= day
  <2>1. g = 0
    BY <1>2 DEF DayInv
  <2> HIDE DEF n, L, g
  <2>2. 2 * g <= Twice(L, n)
    BY <1>1, <2>1
  <2> QED
    BY <2>2 DEF g, L, n
<1>3. CASE quota[h].resetDay > day
  <2>1. /\ r < n /\ u + Cardinality(Pending(h)) + r < L + n
        /\ 2 * (g - u) <= Twice(L, n - 1 - r)
    BY <1>3 DEF DayInv
  <2>2. u <= L + (n - 1 - r)
    BY <1>1, <2>1, DayCounts
  <2> HIDE DEF n, r, u, g, L
  <2>3. PICK q \in Nat : q = n - 1 - r /\ q + 1 \in Nat /\ q + 1 <= n
    BY <1>1, <2>1
  <2>4. Twice(L, q + 1) = Twice(L, q) + 2 * (L + q)
    BY <1>1, TwiceStep
  <2>5. Twice(L, q + 1) <= Twice(L, n)
    BY <1>1, <2>3, TwiceGrows
  <2>6. Twice(L, q) \in Nat /\ Twice(L, q + 1) \in Nat
    BY <1>1, <2>3, TwiceNat
  <2>7. 2 * (g - u) <= Twice(L, q) /\ u <= L + q
    BY <2>1, <2>2, <2>3
  <2>8. 2 * g <= Twice(L, n)
    BY <1>1, <2>4, <2>5, <2>6, <2>7
  <2> QED
    BY <2>8 DEF g, L, n
<1> QED
  BY <1>1, <1>2, <1>3

(* A step within the day that leaves the holder's record and grants alone, *)
(* and lets nobody new charge or reset it, keeps the invariant.            *)
LEMMA DayKept ==
    ASSUME QuotaTypeOK, NEW h \in Holders, DayInv(h), day' = day,
           quota'[h] = quota[h], granted'[h] = granted[h],
           Pending(h)' \subseteq Pending(h), Resetting(h)' \subseteq Resetting(h)
    PROVE  DayInv(h)'
<1> DEFINE n == Cardinality(Callers)
           r == Cardinality(Resetting(h))
           L == DailyLimit[h]
           s == Cardinality(Resetting(h)')
<1>1. /\ Cardinality(Pending(h)') <= Cardinality(Pending(h))
      /\ s <= r /\ s \in Nat /\ r \in Nat /\ n \in Nat /\ L \in Nat
      /\ Cardinality(Pending(h)') \in Nat /\ Cardinality(Pending(h)) \in Nat
  BY FS_Subset, DayCounts, DayCountsNext, DayTypes
<1>2. CASE quota[h].resetDay <= day
  BY <1>2, DayTypes DEF DayInv
<1>3. CASE quota[h].resetDay > day
  <2>1. r < n /\ quota[h].used + Cardinality(Pending(h)) + r < L + n
        /\ 2 * (granted[h][day] - quota[h].used) <= Twice(L, n - 1 - r)
    BY <1>3 DEF DayInv
  <2>2. n - 1 - r \in Nat /\ n - 1 - s \in Nat /\ n - 1 - r <= n - 1 - s
    BY <1>1, <2>1
  <2>3. /\ Twice(L, n - 1 - r) <= Twice(L, n - 1 - s)
        /\ Twice(L, n - 1 - r) \in Nat /\ Twice(L, n - 1 - s) \in Nat
    <3> HIDE DEF n, r, s, L
    <3>1. \A i, j \in Nat : i <= j => Twice(L, i) <= Twice(L, j)
      BY <1>1, TwiceGrows
    <3> QED
      BY <1>1, <2>2, <3>1, TwiceNat
  <2>4. quota[h].used \in Nat /\ granted[h][day] \in Nat
    BY DayTypes
  <2>5. /\ s < n /\ quota[h].used + Cardinality(Pending(h)') + s < L + n
        /\ 2 * (granted[h][day] - quota[h].used) <= Twice(L, n - 1 - s)
    <3> HIDE DEF n, r, s, L
    <3> QED
      BY <1>1, <2>1, <2>3, <2>4
  <2> QED
    BY <1>3, <2>5, DayTypes DEF DayInv
<1> QED
  BY <1>2, <1>3, DayTypes

(* One call's step changes only its own place among the workers that will  *)
(* charge a record or reset it.                                            *)
LEMMA DaySets ==
    ASSUME NEW h, NEW c \in Callers, \A d \in Callers \ {c} : call'[d] = call[d]
    PROVE  /\ c \notin Pending(h)' => Pending(h)' \subseteq Pending(h) \ {c}
           /\ c \notin Resetting(h)' => Resetting(h)' = Resetting(h) \ {c}
           /\ Pending(h)' \subseteq Pending(h) \cup {c}
           /\ c \notin Resetting(h) /\ c \notin Resetting(h)' => Resetting(h)' = Resetting(h)
  BY DEF Pending, Resetting

(* The worker finds the day over, or it compares the counter it read.      *)
LEMMA ReadDay ==
    ASSUME QuotaTypeOK, NEW h \in Holders, DayInv(h), SameDay,
           NEW c \in Callers, Read(c)
    PROVE  DayInv(h)'
<1>1. /\ \A d \in Callers \ {c} : call'[d] = call[d]
      /\ call'[c].holder = call[c].holder
      /\ call'[c].step = IF quota[call[c].holder].resetDay <= day THEN "reset" ELSE "check"
      /\ call'[c].used = IF quota[call[c].holder].resetDay <= day
                         THEN 0 ELSE quota[call[c].holder].used
      /\ call[c].step = "read"
      /\ day' = day /\ quota' = quota /\ granted' = granted
  <2>1. call[c].step = "read" /\ day' = day /\ quota' = quota /\ granted' = granted
    BY DEF Read
  <2>2. call[c].now = day
    BY <2>1 DEF SameDay
  <2>3. Expired(quota[call[c].holder], call[c].now) <=> quota[call[c].holder].resetDay <= day
    BY <2>2 DEF Expired
  <2> QED
    BY <2>1, <2>3, CallFrame, CallSteps
<1>2. CASE call[c].holder # h
  <2>1. Pending(h)' \subseteq Pending(h) /\ Resetting(h)' \subseteq Resetting(h)
    BY <1>1, <1>2 DEF Pending, Resetting
  <2> QED
    BY <1>1, <2>1, DayKept
<1>3. CASE call[c].holder = h /\ quota[h].resetDay <= day
  <2>1. Pending(h)' \subseteq Pending(h)
    BY <1>1, <1>3 DEF Pending
  <2>2. granted[h][day] = 0 /\ Pending(h) = {}
    BY <1>3 DEF DayInv
  <2>3. Pending(h)' = {}
    BY <2>1, <2>2
  <2>4. ~(quota[h].resetDay > day)
    BY <1>3, DayTypes
  <2> QED
    BY <1>1, <2>2, <2>3, <2>4 DEF DayInv
<1>4. CASE call[c].holder = h /\ ~(quota[h].resetDay <= day)
  <2> DEFINE n == Cardinality(Callers)
             r == Cardinality(Resetting(h))
             p == Cardinality(Pending(h))
             t == Cardinality(Pending(h)')
             u == quota[h].used
             L == DailyLimit[h]
  <2>1. call'[c].step = "check" /\ call'[c].used = u /\ quota[h].resetDay > day
    BY <1>1, <1>4, DayTypes
  <2>2. Resetting(h)' = Resetting(h)
    BY <1>1, <2>1 DEF Resetting
  <2>3. r < n /\ u + p + r < L + n
    BY <2>1 DEF DayInv
  <2>4. u + t + r < L + n
    <3>1. CASE u < L
      <4>1. t + r <= n
        BY <2>2, DayCountsNext
      <4>2. t \in Nat /\ r \in Nat /\ n \in Nat /\ u \in Nat /\ L \in Nat
        BY DayCounts, DayCountsNext, DayTypes
      <4> HIDE DEF n, r, u, t, L
      <4> QED
        BY <3>1, <4>1, <4>2
    <3>2. CASE ~(u < L)
      <4>1. Pending(h)' \subseteq Pending(h)
        BY <1>1, <1>4, <2>1, <3>2 DEF Pending
      <4>2. t <= p
        BY <4>1, FS_Subset, DayCounts
      <4>3. t \in Nat /\ p \in Nat /\ r \in Nat /\ n \in Nat /\ u \in Nat /\ L \in Nat
        BY DayCounts, DayCountsNext, DayTypes
      <4> HIDE DEF n, r, u, t, p, L
      <4> QED
        BY <2>3, <4>2, <4>3
    <3> QED
      BY <3>1, <3>2
  <2> QED
    BY <1>1, <1>4, <2>1, <2>2, <2>4 DEF DayInv
<1> QED
  BY <1>2, <1>3, <1>4

(* The worker writes the new day's record over whatever was charged to it. *)
LEMMA ResetDay ==
    ASSUME QuotaTypeOK, NEW h \in Holders, DayInv(h), SameDay,
           NEW c \in Callers, Reset(c)
    PROVE  DayInv(h)'
<1>1. /\ \A d \in Callers \ {c} : call'[d] = call[d]
      /\ call'[c].holder = call[c].holder
      /\ call'[c].step = "check"
      /\ call[c].step = "reset" /\ call[c].holder \in Holders /\ call[c].now = day
      /\ day' = day /\ granted' = granted
      /\ quota' = [quota EXCEPT ![call[c].holder] = [used |-> 0, resetDay |-> day + 1]]
  BY CallFrame, CallSteps DEF Reset, SameDay, QuotaTypeOK
<1>2. CASE call[c].holder # h
  <2>1. Pending(h)' \subseteq Pending(h) /\ Resetting(h)' \subseteq Resetting(h)
    BY <1>1, <1>2 DEF Pending, Resetting
  <2>2. quota'[h] = quota[h]
    BY <1>1, <1>2 DEF QuotaTypeOK
  <2> QED
    BY <1>1, <2>1, <2>2, DayKept
<1>3. CASE call[c].holder = h
  <2> DEFINE n == Cardinality(Callers)
             r == Cardinality(Resetting(h))
             s == Cardinality(Resetting(h)')
             t == Cardinality(Pending(h)')
             L == DailyLimit[h]
             g == granted[h][day]
  <2>1. quota'[h].used = 0 /\ quota'[h].resetDay = day + 1
    BY <1>1, <1>3 DEF QuotaTypeOK
  <2>2. s = r - 1
    <3>1. c \in Resetting(h) /\ Resetting(h)' = Resetting(h) \ {c}
      BY <1>1, <1>3 DEF Resetting
    <3> QED
      BY <3>1, FS_RemoveElement, DayCounts
  <2>3. /\ n \in Nat /\ r \in Nat /\ s \in Nat /\ t \in Nat /\ L \in Nat /\ g \in Nat
        /\ n > 0 /\ r <= n /\ t + s <= n
    BY DayCounts, DayCountsNext, DayTypes
  <2>4. s < n
    <3> HIDE DEF n, r, s
    <3> QED
      BY <2>2, <2>3
  <2>5. t + s < L + n
    <3>1. CASE L = 0
      <4>1. Pending(h)' = {}
        <5>1. \A d \in Callers : call[d].used \in Nat
          BY DEF QuotaTypeOK, CallRecord
        <5>2. call'[c].used = call[c].used
          BY <1>1, CallSteps
        <5> QED
          BY <1>1, <3>1, <5>1, <5>2 DEF Pending
      <4>2. t = 0
        BY <4>1, FS_EmptySet
      <4> HIDE DEF n, s, t, L
      <4> QED
        BY <2>3, <2>4, <3>1, <4>2
    <3>2. CASE L # 0
      <4> HIDE DEF n, s, t, L
      <4> QED
        BY <2>3, <3>2
    <3> QED
      BY <3>1, <3>2
  <2>6. n - 1 - s \in Nat
    BY <2>3, <2>4
  <2>7. 2 * g <= Twice(L, n - 1 - s)
    <3>1. CASE quota[h].resetDay <= day
      <4>1. g = 0
        BY <3>1 DEF DayInv
      <4>2. Twice(L, n - 1 - s) \in Nat
        BY <2>3, <2>6, TwiceNat
      <4> HIDE DEF n, s, g, L
      <4> QED
        BY <4>1, <4>2
    <3>2. CASE ~(quota[h].resetDay <= day)
      <4> DEFINE u == quota[h].used
                 p == Cardinality(Pending(h))
      <4>1. r < n /\ u + p + r < L + n /\ 2 * (g - u) <= Twice(L, n - 1 - r)
        BY <3>2, DayTypes DEF DayInv
      <4>2. u \in Nat /\ p \in Nat
        BY DayTypes, DayCounts
      <4> HIDE DEF n, r, s, u, p, g, L
      <4>3. PICK q \in Nat : q = n - 1 - r /\ n - 1 - s = q + 1
        BY <2>2, <2>3, <4>1
      <4>4. Twice(L, q + 1) = Twice(L, q) + 2 * (L + q) /\ Twice(L, q) \in Nat
        BY <2>3, TwiceStep, TwiceNat
      <4>5. u <= L + q /\ 2 * (g - u) <= Twice(L, q)
        BY <2>3, <4>1, <4>2, <4>3
      <4>6. 2 * g <= Twice(L, q + 1)
        BY <2>3, <4>2, <4>4, <4>5
      <4> QED
        BY <4>3, <4>6
    <3> QED
      BY <3>1, <3>2
  <2>8. 2 * (g - 0) <= Twice(L, n - 1 - s)
    BY <2>3, <2>7
  <2>9. 0 + t + s < L + n
    BY <2>3, <2>5
  <2>10. ~(day + 1 <= day) /\ day + 1 <= day + 1
    BY DayTypes
  <2> QED
    BY <1>1, <2>1, <2>4, <2>8, <2>9, <2>10 DEF DayInv
<1> QED
  BY <1>2, <1>3

(* The worker charges the record and is granted an analysis. *)
LEMMA ChargeDay ==
    ASSUME QuotaTypeOK, NEW h \in Holders, DayInv(h), SameDay,
           NEW c \in Callers, Charge(c)
    PROVE  DayInv(h)'
<1>1. /\ \A d \in Callers \ {c} : call'[d] = call[d]
      /\ call'[c].holder = call[c].holder
      /\ call'[c].step = "allowed"
      /\ call[c].step = "check" /\ call[c].holder \in Holders /\ call[c].now = day
      /\ call[c].used < DailyLimit[call[c].holder]
      /\ day' = day
      /\ quota' = [quota EXCEPT ![call[c].holder].used = @ + 1]
      /\ granted' = [granted EXCEPT ![call[c].holder][day] = @ + 1]
  BY CallFrame, CallSteps DEF Charge, SameDay, QuotaTypeOK
<1>2. CASE call[c].holder # h
  <2>1. Pending(h)' \subseteq Pending(h) /\ Resetting(h)' \subseteq Resetting(h)
    BY <1>1, <1>2 DEF Pending, Resetting
  <2>2. quota'[h] = quota[h] /\ granted'[h] = granted[h]
    BY <1>1, <1>2 DEF QuotaTypeOK
  <2> QED
    BY <1>1, <2>1, <2>2, DayKept
<1>3. CASE call[c].holder = h
  <2> DEFINE n == Cardinality(Callers)
             r == Cardinality(Resetting(h))
             p == Cardinality(Pending(h))
             t == Cardinality(Pending(h)')
             u == quota[h].used
             g == granted[h][day]
             L == DailyLimit[h]
  <2>1. /\ quota'[h].used = u + 1 /\ quota'[h].resetDay = quota[h].resetDay
        /\ granted'[h][day] = g + 1
        /\ \A d \in 0..MaxDay : d # day => granted'[h][d] = granted[h][d]
    BY <1>1, <1>3, DayTypes DEF QuotaTypeOK, QuotaRecord
  <2>2. c \in Pending(h) /\ Pending(h)' = Pending(h) \ {c}
        /\ Resetting(h)' = Resetting(h)
    BY <1>1, <1>3 DEF Pending, Resetting
  <2>3. t = p - 1
    BY <2>2, FS_RemoveElement, DayCounts
  <2>4. ~(quota[h].resetDay <= day) /\ quota[h].resetDay > day
    BY <2>2, DayTypes DEF DayInv
  <2>5. /\ r < n /\ u + p + r < L + n
        /\ 2 * (g - u) <= Twice(L, n - 1 - r)
    BY <2>4 DEF DayInv
  <2>6. /\ p \in Nat /\ r \in Nat /\ u \in Nat /\ g \in Nat /\ L \in Nat /\ n \in Nat
    BY DayCounts, DayTypes
  <2>7. (u + 1) + t + r < L + n /\ (g + 1) - (u + 1) = g - u
    <3> HIDE DEF n, r, p, t, u, g, L
    <3> QED
      BY <2>3, <2>5, <2>6
  <2>8. 2 * ((g + 1) - (u + 1)) <= Twice(L, n - 1 - r)
    BY <2>5, <2>7
  <2>9. \A d \in 0..MaxDay : d < day \/ d > day => d # day
    BY DayTypes
  <2>10. \A d \in 0..MaxDay : /\ d < day => 2 * granted'[h][d] <= Twice(L, n)
                              /\ d > day => granted'[h][d] = 0
    BY <2>1, <2>9 DEF DayInv
  <2> HIDE DEF u, g
  <2> QED
    BY <1>1, <2>1, <2>2, <2>4, <2>5, <2>7, <2>8, <2>10 DEF DayInv
<1> QED
  BY <1>2, <1>3

(* Midnight, with nobody in a call: the day that ends was within its bound. *)
LEMMA MidnightDay ==
    ASSUME QuotaTypeOK, NEW h \in Holders, DayInv(h), SameDay, SameDay', NextDay
    PROVE  DayInv(h)'
<1>1. day' = day + 1 /\ quota' = quota /\ granted' = granted /\ call' = call /\ day < MaxDay
  BY DEF NextDay
<1>2. \A c \in Callers : call[c].step = "idle"
  <2>1. \A c \in Callers : call[c].step # "idle" => call[c].now = day /\ call[c].now = day + 1
    BY <1>1 DEF SameDay
  <2> QED
    BY <2>1, DayTypes
<1>3. Pending(h)' = {}
  BY <1>1, <1>2 DEF Pending
<1>4. 2 * granted[h][day] <= Twice(DailyLimit[h], Cardinality(Callers))
  BY TodayWithin
<1>5. quota[h].resetDay <= day + 1
  BY DEF DayInv
<1>6. \A d \in 0..MaxDay :
        /\ d < day + 1 => 2 * granted[h][d] <= Twice(DailyLimit[h], Cardinality(Callers))
        /\ d > day + 1 => granted[h][d] = 0
  <2> TAKE d \in 0..MaxDay
  <2>1. d < day + 1 => d < day \/ d = day
    BY DayTypes
  <2>2. d > day + 1 => d > day
    BY DayTypes
  <2> QED
    BY <1>4, <2>1, <2>2 DEF DayInv
<1>7. granted[h][day + 1] = 0
  <2>1. day + 1 \in 0..MaxDay /\ day + 1 > day
    BY <1>1, QuotaAssumption, DayTypes
  <2> QED
    BY <2>1 DEF DayInv
<1>8. quota[h].resetDay <= day' + 1 /\ ~(quota[h].resetDay > day')
  BY <1>1, <1>5, DayTypes
<1> QED
  BY <1>1, <1>3, <1>5, <1>6, <1>7, <1>8 DEF DayInv

(* Every step of consume_daily_quota keeps the invariant of every holder,  *)
(* as long as no call crosses midnight.                                    *)
LEMMA DayStep ==
    ASSUME QuotaTypeOK, NEW h \in Holders, DayInv(h), SameDay, SameDay', [QuotaNext]_quotaVars
    PROVE  DayInv(h)'
<1>1. ASSUME NEW c \in Callers, NEW k \in Holders \cup {Anonymous}, Begin(c, k)
      PROVE  DayInv(h)'
  <2>1. Pending(h)' \subseteq Pending(h) /\ Resetting(h)' \subseteq Resetting(h)
    BY <1>1 DEF Begin, Pending, Resetting, QuotaTypeOK
  <2> QED
    BY <1>1, <2>1, DayKept DEF Begin
<1>2. ASSUME NEW c \in Callers, Refuse(c) \/ Leave(c) \/ \E b \in BOOLEAN : CountAnonymous(c, b)
      PROVE  DayInv(h)'
  <2>1. /\ \A d \in Callers \ {c} : call'[d] = call[d]
        /\ call'[c].step \in {"idle", "allowed", "denied"}
    BY <1>2, CallFrame, CallSteps DEF Leave, Idle, QuotaTypeOK
  <2>2. Pending(h)' \subseteq Pending(h) /\ Resetting(h)' \subseteq Resetting(h)
    BY <2>1 DEF Pending, Resetting
  <2> QED
    BY <1>2, <2>2, DayKept DEF Refuse, Leave, CountAnonymous
<1>3. CASE UNCHANGED quotaVars
  <2>1. Pending(h)' \subseteq Pending(h) /\ Resetting(h)' \subseteq Resetting(h)
    BY <1>3 DEF quotaVars, Pending, Resetting
  <2> QED
    BY <1>3, <2>1, DayKept DEF quotaVars
<1> QED
  BY <1>1, <1>2, <1>3, ReadDay, ResetDay, ChargeDay, MidnightDay DEF QuotaNext

(* While no call crosses midnight, an account with limit L is granted at   *)
(* most n * L + n (n - 1) / 2 analyses a day, n workers running: however   *)
(* consume_daily_quota's reads, resets and increments interleave.          *)
THEOREM OverrunBounded == QuotaSpec => OverrunBound
<1> DEFINE Inv == QuotaTypeOK /\ \A h \in Holders : DayInv(h)
<1>1. QuotaInit => \A h \in Holders : DayInv(h)
  <2> SUFFICES ASSUME QuotaInit, NEW h \in Holders
               PROVE  DayInv(h)
    OBVIOUS
  <2>1. /\ quota[h].resetDay = 0 /\ day = 0
        /\ \A d \in 0..MaxDay : granted[h][d] = 0
        /\ Pending(h) = {}
    BY DEF QuotaInit, Pending, Idle
  <2>2. 0 \in 0..MaxDay /\ \A d \in 0..MaxDay : ~(d < 0)
    BY QuotaAssumption
  <2> QED
    BY <2>1, <2>2 DEF DayInv
<1>2. Inv /\ SameDay /\ SameDay' /\ [QuotaNext]_quotaVars => Inv'
  <2> SUFFICES ASSUME Inv, SameDay, SameDay', [QuotaNext]_quotaVars
               PROVE  Inv'
    OBVIOUS
  <2>1. QuotaTypeOK'
    BY QuotaTypeStep
  <2>2. \A h \in Holders : DayInv(h)'
    BY DayStep
  <2> QED
    BY <2>1, <2>2
<1>3. Inv => GrantBound
  <2> SUFFICES ASSUME Inv, NEW h \in Holders, NEW d \in 0..MaxDay
               PROVE  granted[h][d] <= GrantLimit(h)
    BY DEF GrantBound
  <2> DEFINE n == Cardinality(Callers)
             L == DailyLimit[h]
             g == granted[h][d]
  <2>1. n \in Nat /\ L \in Nat /\ g \in Nat
    BY DayCounts, DayTypes
  <2>2. 2 * g <= Twice(L, n)
    <3>1. d < day \/ d = day \/ d > day
      BY DayTypes
    <3>2. d < day => 2 * g <= Twice(L, n)
      BY DEF DayInv
    <3>3. d > day => g = 0
      BY DEF DayInv
    <3>4. d = day => 2 * g <= Twice(L, n)
      BY TodayWithin
    <3>5. Twice(L, n) \in Nat
      BY <2>1, TwiceNat
    <3> HIDE DEF n, L, g
    <3> QED
      BY <2>1, <3>1, <3>2, <3>3, <3>4, <3>5
  <2>3. GrantLimit(h) = n * L + (n * (n - 1)) \div 2
    BY DEF GrantLimit
  <2> HIDE DEF n, L, g
  <2>4. Twice(L, n) = 2 * (n * L) + n * (n - 1)
    BY <2>1 DEF Twice
  <2>5. n * L \in Nat /\ n * (n - 1) \in Int
    BY <2>1
  <2>6. \A x, y \in Int, z \in Nat : 2 * z <= 2 * x + y => z <= x + (y \div 2)
    OBVIOUS
  <2>7. g <= n * L + (n * (n - 1)) \div 2
    BY <2>1, <2>2, <2>4, <2>5, <2>6
  <2> QED
    BY <2>3, <2>7 DEF g
<1>4. QuotaSpec => QuotaTypeOK /\ \A h \in Holders : DayInv(h)
  <2>1. QuotaInit => QuotaTypeOK
    BY QuotaAssumption DEF QuotaInit, QuotaTypeOK, QuotaRecord, CallRecord, Idle
  <2> QED
    BY <1>1, <2>1 DEF QuotaSpec
<1> HIDE DEF Inv
<1>5. QuotaSpec => Inv
  BY <1>4 DEF Inv
<1> QED
  BY <1>2, <1>3, <1>5, PTL DEF QuotaSpec, OverrunBound
-----------------------------------------------------------------------------
(* How much they can be granted when midnights fall into their calls.  A   *)
(* worker still at an earlier day's call may reset the record to a day     *)
(* that is over; every worker of day d finds it expired once more.         *)
Behind(h, d) ==
    {c \in Callers : call[c].step \in {"read", "reset"} /\ call[c].holder = h /\ call[c].now < d}

Turning(h, d) == {c \in Resetting(h) : call[c].now = d}

Charging(h, d) == {c \in Pending(h) : call[c].now = d}

(* The calls begun on day d that may still be granted an analysis of it. *)
Flying(h, d) ==
    Charging(h, d) \cup
    {c \in Callers : call[c].step \in {"read", "reset"} /\ call[c].holder = h /\ call[c].now = d}

(* Six times what m workers were granted by the end of their last round.   *)
(* In round m the record is opened by m workers, each once; a round begins *)
(* when one more worker is done with an earlier day.                       *)
Rounds(limit, m) == m * (m - 1) * (3 * limit + m - 2)

(* While the record is expired, no more is granted than the rounds before  *)
(* allow: n workers, b of them behind, g granted and c about to be.        *)
Over(limit, n, b, g, c) == 6 * (g + c) <= Rounds(limit, n - b)

(* In a round: u charged, p workers about to charge and t about to reset. *)
Opened(limit, n, u, p, t, b, g) ==
    /\ t + b < n
    /\ u + p + t + b < limit + n
    /\ 6 * (g - u) <= Rounds(limit, n - b) + 3 * Twice(limit, n - b - 1 - t)

(* The invariant of a day that no later call has come after ... *)
OpenInv(h, d) ==
    LET n == Cardinality(Callers)
        b == Cardinality(Behind(h, d))
        q == quota[h]
    IN  /\ q.resetDay <= d + 1
        /\ q.resetDay <= d =>
              Over(DailyLimit[h], n, b, granted[h][d], Cardinality(Charging(h, d)))
        /\ q.resetDay > d =>
              Opened(DailyLimit[h], n, q.used, Cardinality(Pending(h)),
                     Cardinality(Turning(h, d)), b, granted[h][d])

(* ... and of one that is over, but for the calls that began on it. *)
PastInv(h, d) ==
    LET n == Cardinality(Callers)
    IN  6 * (granted[h][d] + Cardinality(Flying(h, d)))
            <= Rounds(DailyLimit[h], n + 1) + 6 * (n - 1)

MidnightInv(h) ==
    \A d \in 0..MaxDay :
        /\ d > day => granted[h][d] = 0
        /\ d = day => OpenInv(h, d)
        /\ d < day => IF Flying(h, d) = Callers THEN OpenInv(h, d) ELSE PastInv(h, d)

LEMMA TimesGrows ==
    ASSUME NEW a \in Nat, NEW b \in Nat, NEW c \in Nat, NEW d \in Nat, a <= c, b <= d
    PROVE  a * b <= c * d /\ a * b \in Nat
<1>1. PICK i \in Nat, j \in Nat : c = a + i /\ d = b + j
  <2>1. c - a \in Nat /\ d - b \in Nat /\ c = a + (c - a) /\ d = b + (d - b)
    OBVIOUS
  <2> QED
    BY <2>1
<1>2. \A x, y \in Nat : x * y \in Nat
  OBVIOUS
<1>3. a * b \in Nat /\ a * j \in Nat /\ i * b \in Nat /\ i * j \in Nat
  BY <1>1, <1>2
<1>4. c * d = a * b + (a * j + i * b + i * j)
  <2>1. \A x, y, z, w \in Nat : (x + y) * (z + w) = x * z + (x * w + y * z + y * w)
    OBVIOUS
  <2> QED
    BY <1>1, <2>1
<1>5. \A x, y, z, w \in Nat : x <= x + (y + z + w)
  OBVIOUS
<1> QED
  BY <1>3, <1>4, <1>5

(* A round of m workers is worth m openings. *)
LEMMA RoundStep ==
    ASSUME NEW limit \in Nat, NEW m \in Nat
    PROVE  Rounds(limit, m + 1) = Rounds(limit, m) + 3 * Twice(limit, m)
BY DEF Rounds, Twice

LEMMA RoundGrows ==
    ASSUME NEW limit \in Nat, NEW q \in Nat, NEW p \in Nat, q <= p
    PROVE  /\ Rounds(limit, q) <= Rounds(limit, p)
           /\ Rounds(limit, q) \in Nat /\ Rounds(limit, p) \in Nat
<1>1. ASSUME NEW m \in Nat, m <= 1
      PROVE  Rounds(limit, m) = 0
  BY <1>1 DEF Rounds
<1>2. ASSUME NEW m \in Nat, m > 1
      PROVE  m * (m - 1) \in Nat /\ 3 * limit + m - 2 \in Nat /\ Rounds(limit, m) \in Nat
  <2>1. m - 1 \in Nat /\ 3 * limit + m - 2 \in Nat
    BY <1>2
  <2>2. m * (m - 1) \in Nat
    BY <2>1, TimesGrows
  <2>3. \A x, y \in Nat : x * y \in Nat
    OBVIOUS
  <2> QED
    BY <2>1, <2>2, <2>3 DEF Rounds
<1>3. CASE q <= 1
  BY <1>1, <1>2, <1>3
<1>4. CASE q > 1
  <2>1. q * (q - 1) <= p * (p - 1)
    <3>1. q - 1 \in Nat /\ p - 1 \in Nat /\ q - 1 <= p - 1
      BY <1>4
    <3> QED
      BY <3>1, TimesGrows
  <2>2. p > 1 /\ 3 * limit + q - 2 <= 3 * limit + p - 2
    BY <1>4
  <2>3. (q * (q - 1)) * (3 * limit + q - 2) <= (p * (p - 1)) * (3 * limit + p - 2)
    BY <1>2, <1>4, <2>1, <2>2, TimesGrows
  <2> QED
    BY <1>2, <1>4, <2>2, <2>3 DEF Rounds
<1> QED
  BY <1>3, <1>4

LEMMA RoundNat ==
    ASSUME NEW limit \in Nat, NEW m \in Nat
    PROVE  Rounds(limit, m) \in Nat
<1>1. m <= m
  OBVIOUS
<1> QED
  BY <1>1, RoundGrows

(* The record stays as it is, and its workers get no more. *)
LEMMA OverKept ==
    ASSUME NEW limit \in Nat, NEW n \in Nat, NEW b \in Nat, NEW g \in Nat, NEW c \in Nat,
           NEW a \in Nat, NEW k \in Nat,
           Over(limit, n, b, g, c), b <= n, a <= b, k <= c
    PROVE  Over(limit, n, a, g, k)
<1>1. n - b \in Nat /\ n - a \in Nat /\ n - b <= n - a
  OBVIOUS
<1>2. /\ Rounds(limit, n - b) <= Rounds(limit, n - a)
      /\ Rounds(limit, n - b) \in Nat /\ Rounds(limit, n - a) \in Nat
  BY <1>1, RoundGrows
<1> QED
  BY <1>2 DEF Over

LEMMA OpenedTypes ==
    ASSUME NEW limit \in Nat, NEW n \in Nat, NEW t \in Nat, NEW b \in Nat, t + b < n
    PROVE  /\ n - b \in Nat /\ n - b - 1 - t \in Nat
           /\ Rounds(limit, n - b) \in Nat /\ Twice(limit, n - b - 1 - t) \in Nat
<1>1. n - b \in Nat /\ n - b - 1 - t \in Nat
  OBVIOUS
<1> QED
  BY <1>1, RoundNat, TwiceNat

LEMMA OpenedKept ==
    ASSUME NEW limit \in Nat, NEW n \in Nat, NEW u \in Nat, NEW g \in Nat,
           NEW p \in Nat, NEW t \in Nat, NEW b \in Nat,
           NEW o \in Nat, NEW s \in Nat, NEW a \in Nat,
           Opened(limit, n, u, p, t, b, g), s <= t, a <= b, o + s + a <= p + t + b
    PROVE  Opened(limit, n, u, o, s, a, g)
<1>1. t + b < n /\ s + a < n
  BY DEF Opened
<1>2. n - b <= n - a /\ n - b - 1 - t <= n - a - 1 - s
  OBVIOUS
<1>3. /\ Rounds(limit, n - b) <= Rounds(limit, n - a)
      /\ Twice(limit, n - b - 1 - t) <= Twice(limit, n - a - 1 - s)
  BY <1>1, <1>2, OpenedTypes, RoundGrows, TwiceGrows
<1>4. /\ Rounds(limit, n - b) \in Nat /\ Twice(limit, n - b - 1 - t) \in Nat
      /\ Rounds(limit, n - a) \in Nat /\ Twice(limit, n - a - 1 - s) \in Nat
  BY <1>1, OpenedTypes
<1> QED
  BY <1>1, <1>3, <1>4 DEF Opened

(* A worker that read the counter below the limit joins. *)
LEMMA OpenedReader ==
    ASSUME NEW limit \in Nat, NEW n \in Nat, NEW u \in Nat, NEW g \in Nat,
           NEW p \in Nat, NEW t \in Nat, NEW b \in Nat, NEW o \in Nat,
           Opened(limit, n, u, p, t, b, g), u < limit, o + t + b <= n
    PROVE  Opened(limit, n, u, o, t, b, g)
  BY DEF Opened

(* What an opened record will have been charged is granted in its round:   *)
(* no more than the opening after it.                                      *)
LEMMA OpenedSum ==
    ASSUME NEW limit \in Nat, NEW n \in Nat, NEW u \in Nat, NEW g \in Nat,
           NEW p \in Nat, NEW t \in Nat, NEW b \in Nat, Opened(limit, n, u, p, t, b, g)
    PROVE  /\ 6 * (g + p) <= Rounds(limit, n - b) + 3 * Twice(limit, n - b - t)
           /\ n - b - t \in Nat /\ n - b \in Nat
<1>1. t + b < n
  BY DEF Opened
<1>2. PICK q \in Nat : q = n - b - 1 - t /\ n - b - t = q + 1
  BY <1>1
<1>3. Twice(limit, q + 1) = Twice(limit, q) + 2 * (limit + q)
  BY TwiceStep
<1>4. Twice(limit, q) \in Nat /\ Rounds(limit, n - b) \in Nat
  BY <1>1, <1>2, OpenedTypes
<1>5. 6 * (g - u) <= Rounds(limit, n - b) + 3 * Twice(limit, q) /\ u + p <= limit + q
  BY <1>1, <1>2 DEF Opened
<1> HIDE DEF Rounds, Twice
<1>6. 6 * (g + p) <= Rounds(limit, n - b) + 3 * Twice(limit, q + 1)
  BY <1>3, <1>4, <1>5
<1> QED
  BY <1>1, <1>2, <1>6

(* So the rounds are over once an earlier day's call has reset the record. *)
LEMMA OpenedOver ==
    ASSUME NEW limit \in Nat, NEW n \in Nat, NEW u \in Nat, NEW g \in Nat,
           NEW p \in Nat, NEW t \in Nat, NEW b \in Nat, NEW c \in Nat,
           Opened(limit, n, u, p, t, b, g), c <= p
    PROVE  6 * (g + c) <= Rounds(limit, n - b + 1)
<1>1. /\ 6 * (g + p) <= Rounds(limit, n - b) + 3 * Twice(limit, n - b - t)
      /\ n - b - t \in Nat /\ n - b \in Nat
  BY OpenedSum
<1>2. Twice(limit, n - b - t) <= Twice(limit, n - b)
  <2>1. n - b - t <= n - b
    OBVIOUS
  <2> QED
    BY <1>1, <2>1, TwiceGrows
<1>3. Rounds(limit, n - b + 1) = Rounds(limit, n - b) + 3 * Twice(limit, n - b)
  BY <1>1, RoundStep
<1>4. /\ Twice(limit, n - b - t) \in Nat /\ Twice(limit, n - b) \in Nat
      /\ Rounds(limit, n - b) \in Nat /\ Rounds(limit, n - b + 1) \in Nat
  <2>1. n - b + 1 \in Nat
    BY <1>1
  <2> QED
    BY <1>1, <2>1, RoundNat, TwiceNat
<1> QED
  BY <1>1, <1>2, <1>3, <1>4

(* A worker of the day resets the record: the first of its round, ... *)
LEMMA OverOpened ==
    ASSUME NEW limit \in Nat, NEW n \in Nat, NEW g \in Nat, NEW b \in Nat, NEW c \in Nat,
           NEW o \in Nat, NEW s \in Nat,
           Over(limit, n, b, g, c), s + b < n, o + s + b <= n, limit = 0 => o = 0
    PROVE  Opened(limit, n, 0, o, s, b, g)
<1>1. Rounds(limit, n - b) \in Nat /\ Twice(limit, n - b - 1 - s) \in Nat
  BY OpenedTypes
<1> QED
  BY <1>1 DEF Over, Opened

(* ... or one more. *)
LEMMA OpenedAgain ==
    ASSUME NEW limit \in Nat, NEW n \in Nat, NEW u \in Nat, NEW g \in Nat,
           NEW p \in Nat, NEW t \in Nat, NEW b \in Nat, NEW o \in Nat, NEW s \in Nat,
           Opened(limit, n, u, p, t, b, g), t = s + 1, o + s + b <= n, limit = 0 => o = 0
    PROVE  Opened(limit, n, 0, o, s, b, g)
<1>1. 6 * (g + p) <= Rounds(limit, n - b) + 3 * Twice(limit, n - b - t)
  BY OpenedSum
<1>2. s + b < n /\ n - b - t = n - b - 1 - s
  BY DEF Opened
<1>3. Rounds(limit, n - b) \in Nat /\ Twice(limit, n - b - 1 - s) \in Nat
  BY <1>2, OpenedTypes
<1>4. 6 * (g - 0) <= Rounds(limit, n - b) + 3 * Twice(limit, n - b - 1 - s)
  BY <1>1, <1>2, <1>3
<1> QED
  BY <1>2, <1>4 DEF Opened

LEMMA ThreeGroups ==
    ASSUME NEW S \in SUBSET Callers, NEW T \in SUBSET Callers, NEW U \in SUBSET Callers,
           S \cap T = {}, S \cap U = {}, T \cap U = {}
    PROVE  Cardinality(S) + Cardinality(T) + Cardinality(U) <= Cardinality(Callers)
<1>1. S \cup T \in SUBSET Callers /\ (S \cup T) \cap U = {}
  OBVIOUS
<1>2. Cardinality(S \cup T) + Cardinality(U) <= Cardinality(Callers)
  BY <1>1, TwoGroups
<1>3. /\ IsFiniteSet(S) /\ IsFiniteSet(T)
      /\ Cardinality(S) \in Nat /\ Cardinality(T) \in Nat /\ Cardinality(U) \in Nat
  BY FS_Subset, FS_CardinalityType, QuotaAssumption
<1>4. Cardinality(S \cup T) = Cardinality(S) + Cardinality(T) - 0
  BY <1>3, FS_Union, FS_EmptySet
<1> QED
  BY <1>2, <1>3, <1>4

(* The workers that will charge, that reset it today and that are behind   *)
(* are three groups, those that charge it today are among the first.       *)
LEMMA GroupCounts ==
    ASSUME NEW P \in SUBSET Callers, NEW T \in SUBSET Callers, NEW B \in SUBSET Callers,
           NEW C \in SUBSET P, P \cap T = {}, P \cap B = {}, T \cap B = {}
    PROVE  /\ Cardinality(Callers) \in Nat /\ Cardinality(Callers) > 0
           /\ IsFiniteSet(P) /\ IsFiniteSet(T) /\ IsFiniteSet(B) /\ IsFiniteSet(C)
           /\ Cardinality(P) \in Nat /\ Cardinality(T) \in Nat
           /\ Cardinality(B) \in Nat /\ Cardinality(C) \in Nat
           /\ Cardinality(P) + Cardinality(T) + Cardinality(B) <= Cardinality(Callers)
           /\ Cardinality(C) <= Cardinality(P)
<1>1. \A S \in SUBSET Callers : IsFiniteSet(S) /\ Cardinality(S) \in Nat
  BY FS_Subset, FS_CardinalityType, QuotaAssumption
<1>2. C \in SUBSET Callers
  OBVIOUS
<1>3. Cardinality(C) <= Cardinality(P)
  BY <1>1, FS_Subset
<1>4. Cardinality(Callers) \in Nat /\ Cardinality(Callers) > 0
  BY FS_CardinalityType, FS_EmptySet, QuotaAssumption
<1> QED
  BY <1>1, <1>2, <1>3, <1>4, ThreeGroups

LEMMA MidnightCounts ==
    ASSUME NEW h, NEW d \in Nat
    PROVE  /\ Cardinality(Callers) \in Nat /\ Cardinality(Callers) > 0
           /\ IsFiniteSet(Pending(h)) /\ IsFiniteSet(Turning(h, d))
           /\ IsFiniteSet(Behind(h, d)) /\ IsFiniteSet(Charging(h, d))
           /\ Cardinality(Pending(h)) \in Nat /\ Cardinality(Turning(h, d)) \in Nat
           /\ Cardinality(Behind(h, d)) \in Nat /\ Cardinality(Charging(h, d)) \in Nat
           /\ Cardinality(Pending(h)) + Cardinality(Turning(h, d)) + Cardinality(Behind(h, d))
                <= Cardinality(Callers)
           /\ Cardinality(Charging(h, d)) <= Cardinality(Pending(h))
<1>1. /\ Pending(h) \in SUBSET Callers /\ Turning(h, d) \in SUBSET Callers
      /\ Behind(h, d) \in SUBSET Callers /\ Charging(h, d) \in SUBSET Pending(h)
  BY DEF Pending, Resetting, Turning, Behind, Charging
<1>2. /\ Pending(h) \cap Turning(h, d) = {} /\ Pending(h) \cap Behind(h, d) = {}
      /\ Turning(h, d) \cap Behind(h, d) = {}
  BY DEF Pending, Resetting, Turning, Behind
<1> HIDE DEF Pending, Turning, Behind, Charging
<1> QED
  BY <1>1, <1>2, GroupCounts

(* The same, of the next state. *)
LEMMA MidnightCountsNext ==
    ASSUME NEW h, NEW d \in Nat
    PROVE  /\ IsFiniteSet(Pending(h)') /\ IsFiniteSet(Turning(h, d)')
           /\ IsFiniteSet(Behind(h, d)') /\ IsFiniteSet(Charging(h, d)')
           /\ Cardinality(Pending(h)') \in Nat /\ Cardinality(Turning(h, d)') \in Nat
           /\ Cardinality(Behind(h, d)') \in Nat /\ Cardinality(Charging(h, d)') \in Nat
           /\ Cardinality(Pending(h)') + Cardinality(Turning(h, d)') + Cardinality(Behind(h, d)')
                <= Cardinality(Callers)
           /\ Cardinality(Charging(h, d)') <= Cardinality(Pending(h)')
<1>1. /\ Pending(h)' \in SUBSET Callers /\ Turning(h, d)' \in SUBSET Callers
      /\ Behind(h, d)' \in SUBSET Callers /\ Charging(h, d)' \in SUBSET Pending(h)'
  BY DEF Pending, Resetting, Turning, Behind, Charging
<1>2. /\ Pending(h)' \cap Turning(h, d)' = {} /\ Pending(h)' \cap Behind(h, d)' = {}
      /\ Turning(h, d)' \cap Behind(h, d)' = {}
  BY DEF Pending, Resetting, Turning, Behind
<1> HIDE DEF Pending, Turning, Behind, Charging
<1> QED
  BY <1>1, <1>2, GroupCounts

(* A step that leaves the holder's record and the day's grants alone keeps *)
(* the day's invariant if it does not let more workers in.                 *)
LEMMA OpenKept ==
    ASSUME QuotaTypeOK, NEW h \in Holders, NEW d \in 0..MaxDay, OpenInv(h, d),
           quota'[h] = quota[h], granted'[h][d] = granted[h][d],
           Charging(h, d)' \subseteq Charging(h, d),
           Turning(h, d)' \subseteq Turning(h, d),
           Behind(h, d)' \subseteq Behind(h, d),
           Cardinality(Pending(h)') + Cardinality(Behind(h, d)')
              <= Cardinality(Pending(h)) + Cardinality(Behind(h, d))
    PROVE  OpenInv(h, d)'
<1> DEFINE n == Cardinality(Callers)
           L == DailyLimit[h]
           u == quota[h].used
           g == granted[h][d]
           p == Cardinality(Pending(h))
           t == Cardinality(Turning(h, d))
           b == Cardinality(Behind(h, d))
           c == Cardinality(Charging(h, d))
           o == Cardinality(Pending(h)')
           s == Cardinality(Turning(h, d)')
           a == Cardinality(Behind(h, d)')
           k == Cardinality(Charging(h, d)')
<1>1. d \in Nat
  BY QuotaAssumption
<1>2. /\ n \in Nat /\ L \in Nat /\ u \in Nat /\ g \in Nat
      /\ p \in Nat /\ t \in Nat /\ b \in Nat /\ c \in Nat
      /\ o \in Nat /\ s \in Nat /\ a \in Nat /\ k \in Nat
      /\ p + t + b <= n
  BY <1>1, MidnightCounts, MidnightCountsNext, DayTypes
<1>3. s <= t /\ a <= b /\ k <= c
  BY <1>1, MidnightCounts, FS_Subset
<1>4. o + s + a <= p + t + b /\ b <= n
  <2>1. o + a <= p + b
    OBVIOUS
  <2> HIDE DEF n, p, t, b, o, s, a
  <2> QED
    BY <1>2, <1>3, <2>1
<1>5. quota[h].resetDay <= d => Over(L, n, b, g, c)
  BY DEF OpenInv
<1>6. quota[h].resetDay > d => Opened(L, n, u, p, t, b, g)
  BY DEF OpenInv
<1>7. quota[h].resetDay <= d => Over(L, n, a, g, k)
  <2> HIDE DEF n, L, g, b, c, a, k
  <2> QED
    BY <1>2, <1>3, <1>4, <1>5, OverKept
<1>8. quota[h].resetDay > d => Opened(L, n, u, o, s, a, g)
  <2> HIDE DEF n, L, u, g, p, t, b, o, s, a
  <2> QED
    BY <1>2, <1>3, <1>4, <1>6, OpenedKept
<1> QED
  BY <1>7, <1>8 DEF OpenInv

(* A step of a worker that neither resets nor charges the holder's record, *)
(* nor is about to, keeps the day's invariant.                             *)
LEMMA OpenShrinks ==
    ASSUME QuotaTypeOK, NEW h \in Holders, NEW d \in 0..MaxDay, OpenInv(h, d),
           quota'[h] = quota[h], granted'[h][d] = granted[h][d],
           NEW c, \A w \in Callers \ {c} : call'[w] = call[w],
           c \in Callers => /\ c \notin Pending(h)' /\ c \notin Turning(h, d)'
                            /\ c \notin Behind(h, d)' \ Behind(h, d)
    PROVE  OpenInv(h, d)'
<1>1. /\ Pending(h)' \subseteq Pending(h) /\ Charging(h, d)' \subseteq Charging(h, d)
      /\ Turning(h, d)' \subseteq Turning(h, d) /\ Behind(h, d)' \subseteq Behind(h, d)
  BY DEF Pending, Charging, Resetting, Turning, Behind
<1>2. d \in Nat
  BY QuotaAssumption
<1>3. /\ Cardinality(Pending(h)') <= Cardinality(Pending(h))
      /\ Cardinality(Behind(h, d)') <= Cardinality(Behind(h, d))
  BY <1>1, <1>2, MidnightCounts, FS_Subset
<1>4. Cardinality(Pending(h)') + Cardinality(Behind(h, d)')
        <= Cardinality(Pending(h)) + Cardinality(Behind(h, d))
  BY <1>2, <1>3, MidnightCounts, MidnightCountsNext
<1> QED
  BY <1>1, <1>4, OpenKept

(* The worker finds the day over, or compares the counter it read. *)
LEMMA ReadOpen ==
    ASSUME QuotaTypeOK, NEW h \in Holders, NEW d \in 0..MaxDay, OpenInv(h, d),
           NEW c \in Callers, Read(c), call[c].now <= d
    PROVE  OpenInv(h, d)'
<1> DEFINE q == quota[h]
           n == Cardinality(Callers)
<1>1. /\ \A w \in Callers \ {c} : call'[w] = call[w]
      /\ call'[c].holder = call[c].holder /\ call'[c].now = call[c].now
      /\ call[c].step = "read"
      /\ quota' = quota /\ granted' = granted
  BY CallFrame DEF Read
<1>2. d \in Nat /\ q.resetDay \in Nat /\ q.used \in Nat /\ call[c].now \in Nat
  <2>1. d \in Nat
    BY QuotaAssumption
  <2>2. call[c].now \in Nat
    BY DEF QuotaTypeOK, CallRecord
  <2> QED
    BY <2>1, <2>2, DayTypes
<1>3. CASE call[c].holder # h
  <2>1. c \notin Pending(h)' /\ c \notin Turning(h, d)' /\ c \notin Behind(h, d)'
    BY <1>1, <1>3 DEF Pending, Resetting, Turning, Behind
  <2> QED
    BY <1>1, <2>1, OpenShrinks
<1>4. ASSUME call[c].holder = h
      PROVE  /\ call'[c].step = IF q.resetDay <= call[c].now THEN "reset" ELSE "check"
             /\ call'[c].used = IF q.resetDay <= call[c].now THEN 0 ELSE q.used
  BY <1>4, CallSteps DEF Expired
<1>5. CASE call[c].holder = h /\ call[c].now < d /\ q.resetDay <= call[c].now
  <2>1. call'[c].step = "reset" /\ c \in Behind(h, d)
    BY <1>1, <1>4, <1>5 DEF Behind
  <2>2. c \notin Pending(h)' /\ c \notin Turning(h, d)'
    BY <1>1, <1>2, <1>5, <2>1 DEF Pending, Resetting, Turning
  <2> QED
    BY <1>1, <2>1, <2>2, OpenShrinks
<1>6. CASE call[c].holder = h /\ call[c].now < d /\ ~(q.resetDay <= call[c].now)
  <2>1. call'[c].step = "check" /\ c \in Behind(h, d)
    BY <1>1, <1>4, <1>6 DEF Behind
  <2>2. /\ Pending(h)' \subseteq Pending(h) \cup {c} /\ c \notin Pending(h)
        /\ Turning(h, d)' \subseteq Turning(h, d)
        /\ Charging(h, d)' \subseteq Charging(h, d)
        /\ Behind(h, d)' = Behind(h, d) \ {c}
    BY <1>1, <1>2, <1>6, <2>1 DEF Pending, Resetting, Turning, Charging, Behind
  <2>3. Cardinality(Behind(h, d)') = Cardinality(Behind(h, d)) - 1
    BY <1>2, <2>1, <2>2, MidnightCounts, FS_RemoveElement
  <2>4. Cardinality(Pending(h)') <= Cardinality(Pending(h)) + 1
    <3>1. /\ Cardinality(Pending(h) \cup {c}) = Cardinality(Pending(h)) + 1
          /\ IsFiniteSet(Pending(h) \cup {c})
      BY <1>2, <2>2, MidnightCounts, FS_AddElement
    <3> QED
      BY <2>2, <3>1, FS_Subset
  <2>5. Cardinality(Pending(h)') + Cardinality(Behind(h, d)')
          <= Cardinality(Pending(h)) + Cardinality(Behind(h, d))
    BY <1>2, <2>3, <2>4, MidnightCounts, MidnightCountsNext
  <2>6. Behind(h, d)' \subseteq Behind(h, d)
    BY <2>2
  <2> QED
    BY <1>1, <2>2, <2>5, <2>6, OpenKept
<1>7. CASE call[c].holder = h /\ call[c].now = d /\ q.resetDay <= d
  <2>1. call'[c].step = "reset"
    BY <1>4, <1>7
  <2>2. Behind(h, d)' = Behind(h, d) /\ Charging(h, d)' \subseteq Charging(h, d)
    BY <1>1, <1>2, <1>7, <2>1 DEF Pending, Charging, Behind
  <2>3. Cardinality(Charging(h, d)') <= Cardinality(Charging(h, d))
    BY <1>2, <2>2, MidnightCounts, FS_Subset
  <2>4. Over(DailyLimit[h], n, Cardinality(Behind(h, d)), granted[h][d], Cardinality(Charging(h, d)))
    BY <1>7 DEF OpenInv
  <2>5. Cardinality(Behind(h, d)) <= n
    BY <1>2, MidnightCounts
  <2>6. Over(DailyLimit[h], n, Cardinality(Behind(h, d)), granted[h][d], Cardinality(Charging(h, d)'))
    <3>1. Cardinality(Behind(h, d)) <= Cardinality(Behind(h, d))
      BY <1>2, MidnightCounts
    <3> QED
      BY <1>2, <2>3, <2>4, <2>5, <3>1, MidnightCounts, MidnightCountsNext, DayTypes, OverKept
  <2>7. ~(q.resetDay > d) /\ q.resetDay <= d + 1
    BY <1>2, <1>7
  <2> QED
    BY <1>1, <2>2, <2>6, <2>7 DEF OpenInv
<1>8. CASE call[c].holder = h /\ call[c].now = d /\ ~(q.resetDay <= d)
  <2>1. call'[c].step = "check" /\ call'[c].used = q.used
    BY <1>4, <1>8
  <2>2. Behind(h, d)' = Behind(h, d) /\ Turning(h, d)' = Turning(h, d)
    BY <1>1, <1>2, <1>8, <2>1 DEF Resetting, Turning, Behind
  <2>3. q.resetDay > d /\ q.resetDay <= d + 1
    BY <1>2, <1>8 DEF OpenInv
  <2>4. Opened(DailyLimit[h], n, q.used, Cardinality(Pending(h)), Cardinality(Turning(h, d)),
               Cardinality(Behind(h, d)), granted[h][d])
    BY <2>3 DEF OpenInv
  <2>5. Opened(DailyLimit[h], n, q.used, Cardinality(Pending(h)'), Cardinality(Turning(h, d)),
               Cardinality(Behind(h, d)), granted[h][d])
    <3>1. CASE q.used < DailyLimit[h]
      <4>1. Cardinality(Pending(h)') + Cardinality(Turning(h, d)) + Cardinality(Behind(h, d)) <= n
        BY <1>2, <2>2, MidnightCountsNext
      <4> QED
        BY <1>2, <2>4, <3>1, <4>1, MidnightCounts, MidnightCountsNext, DayTypes, OpenedReader
    <3>2. CASE ~(q.used < DailyLimit[h])
      <4>1. Pending(h)' = Pending(h)
        BY <1>1, <1>8, <2>1, <3>2 DEF Pending
      <4> QED
        BY <2>4, <4>1
    <3> QED
      BY <3>1, <3>2
  <2> QED
    BY <1>1, <1>8, <2>2, <2>3, <2>5 DEF OpenInv
<1> QED
  BY <1>2, <1>3, <1>5, <1>6, <1>7, <1>8

(* The worker writes a new record over whatever was charged to it. *)
LEMMA ResetOpen ==
    ASSUME QuotaTypeOK, NEW h \in Holders, NEW d \in 0..MaxDay, OpenInv(h, d),
           NEW c \in Callers, Reset(c), call[c].now <= d
    PROVE  OpenInv(h, d)'
<1> DEFINE n == Cardinality(Callers)
           L == DailyLimit[h]
           u == quota[h].used
           g == granted[h][d]
           p == Cardinality(Pending(h))
           t == Cardinality(Turning(h, d))
           b == Cardinality(Behind(h, d))
           k == Cardinality(Charging(h, d))
           o == Cardinality(Pending(h)')
           s == Cardinality(Turning(h, d)')
           a == Cardinality(Behind(h, d)')
           m == Cardinality(Charging(h, d)')
<1>1. /\ \A w \in Callers \ {c} : call'[w] = call[w]
      /\ call'[c].holder = call[c].holder /\ call'[c].now = call[c].now
      /\ call'[c].step = "check" /\ call'[c].used = call[c].used
      /\ call[c].step = "reset" /\ call[c].holder \in Holders
      /\ granted' = granted
      /\ quota' = [quota EXCEPT ![call[c].holder] = [used |-> 0, resetDay |-> call[c].now + 1]]
  BY CallFrame, CallSteps DEF Reset, QuotaTypeOK
<1>2. d \in Nat /\ call[c].now \in Nat /\ call[c].used \in Nat /\ quota[h].resetDay \in Nat
  <2>1. d \in Nat
    BY QuotaAssumption
  <2>2. call[c].now \in Nat /\ call[c].used \in Nat
    BY DEF QuotaTypeOK, CallRecord
  <2> QED
    BY <2>1, <2>2, DayTypes
<1>3. /\ n \in Nat /\ L \in Nat /\ u \in Nat /\ g \in Nat
      /\ p \in Nat /\ t \in Nat /\ b \in Nat /\ k \in Nat
      /\ o \in Nat /\ s \in Nat /\ a \in Nat /\ m \in Nat
      /\ p + t + b <= n /\ k <= p /\ o + s + a <= n
  BY <1>2, MidnightCounts, MidnightCountsNext, DayTypes
<1>4. CASE call[c].holder # h
  <2>1. c \notin Pending(h)' /\ c \notin Turning(h, d)' /\ c \notin Behind(h, d)'
    BY <1>1, <1>4 DEF Pending, Resetting, Turning, Behind
  <2>2. quota'[h] = quota[h]
    BY <1>1, <1>4 DEF QuotaTypeOK
  <2> QED
    BY <1>1, <2>1, <2>2, OpenShrinks
<1>5. ASSUME call[c].holder = h
      PROVE  quota'[h].used = 0 /\ quota'[h].resetDay = call[c].now + 1
  BY <1>1, <1>5 DEF QuotaTypeOK
<1>6. quota[h].resetDay <= d => Over(L, n, b, g, k)
  BY DEF OpenInv
<1>7. quota[h].resetDay > d => Opened(L, n, u, p, t, b, g)
  BY DEF OpenInv
<1>8. CASE call[c].holder = h /\ call[c].now < d
  <2>1. c \in Behind(h, d) /\ Behind(h, d)' = Behind(h, d) \ {c}
    BY <1>1, <1>8 DEF Behind
  <2>2. a = b - 1
    BY <1>2, <2>1, MidnightCounts, FS_RemoveElement
  <2>3. m <= k
    <3>1. Charging(h, d)' \subseteq Charging(h, d)
      BY <1>1, <1>2, <1>8 DEF Pending, Charging
    <3> QED
      BY <1>2, <3>1, MidnightCounts, FS_Subset
  <2>4. Over(L, n, a, g, m)
    <3> HIDE DEF n, L, u, g, p, t, b, k, o, s, a, m
    <3>1. CASE quota[h].resetDay <= d
      <4>1. a <= b /\ b <= n
        BY <1>3, <2>2
      <4> QED
        BY <1>3, <1>6, <2>3, <3>1, <4>1, OverKept
    <3>2. CASE quota[h].resetDay > d
      <4>1. 6 * (g + k) <= Rounds(L, n - b + 1)
        BY <1>3, <1>7, <3>2, OpenedOver
      <4>2. n - b + 1 = n - a /\ n - a \in Nat
        BY <1>3, <2>2
      <4>3. Rounds(L, n - a) \in Nat
        BY <1>3, <4>2, RoundNat
      <4>4. 6 * (g + m) <= Rounds(L, n - a)
        BY <1>3, <2>3, <4>1, <4>2, <4>3
      <4> QED
        BY <4>4 DEF Over
    <3> QED
      BY <1>2, <3>1, <3>2
  <2>5. quota'[h].resetDay <= d /\ quota'[h].resetDay <= d + 1 /\ ~(quota'[h].resetDay > d)
    BY <1>2, <1>5, <1>8
  <2> QED
    BY <1>1, <2>4, <2>5 DEF OpenInv
<1>9. CASE call[c].holder = h /\ call[c].now = d
  <2>1. /\ c \in Turning(h, d) /\ Turning(h, d)' = Turning(h, d) \ {c}
        /\ Behind(h, d)' = Behind(h, d) /\ c \notin Behind(h, d)
    BY <1>1, <1>2, <1>9 DEF Resetting, Turning, Behind
  <2>2. s = t - 1 /\ a = b
    <3>1. IsFiniteSet(Turning(h, d))
      BY <1>2, MidnightCounts
    <3> QED
      BY <2>1, <3>1, FS_RemoveElement
  <2>3. L = 0 => o = 0
    <3>1. ASSUME L = 0
          PROVE  Pending(h)' = {}
      <4>1. \A w \in Callers : call[w].used \in Nat
        BY DEF QuotaTypeOK, CallRecord
      <4> QED
        BY <1>1, <3>1, <4>1 DEF Pending
    <3> QED
      BY <3>1, FS_EmptySet
  <2>4. Opened(L, n, 0, o, s, b, g)
    <3> HIDE DEF n, L, u, g, p, t, b, k, o, s, a, m
    <3>1. t = s + 1 /\ s + b < n /\ o + s + b <= n
      BY <1>3, <2>2
    <3>2. CASE quota[h].resetDay <= d
      BY <1>3, <1>6, <2>3, <3>1, <3>2, OverOpened
    <3>3. CASE quota[h].resetDay > d
      BY <1>3, <1>7, <2>3, <3>1, <3>3, OpenedAgain
    <3> QED
      BY <1>2, <3>2, <3>3
  <2>5. quota'[h].resetDay <= d + 1 /\ ~(quota'[h].resetDay <= d)
    BY <1>2, <1>5, <1>9
  <2> QED
    BY <1>1, <1>5, <1>9, <2>1, <2>4, <2>5 DEF OpenInv
<1> QED
  BY <1>2, <1>4, <1>8, <1>9

(* The worker charges the record and is granted an analysis. *)
LEMMA ChargeOpen ==
    ASSUME QuotaTypeOK, NEW h \in Holders, NEW d \in 0..MaxDay, OpenInv(h, d),
           NEW c \in Callers, Charge(c), call[c].now <= d
    PROVE  OpenInv(h, d)'
<1> DEFINE n == Cardinality(Callers)
           L == DailyLimit[h]
           u == quota[h].used
           g == granted[h][d]
           p == Cardinality(Pending(h))
           t == Cardinality(Turning(h, d))
           b == Cardinality(Behind(h, d))
           k == Cardinality(Charging(h, d))
           o == Cardinality(Pending(h)')
           m == Cardinality(Charging(h, d)')
<1>1. /\ \A w \in Callers \ {c} : call'[w] = call[w]
      /\ call'[c].step = "allowed" /\ call[c].step = "check"
      /\ call[c].holder \in Holders /\ call[c].used < DailyLimit[call[c].holder]
      /\ quota' = [quota EXCEPT ![call[c].holder].used = @ + 1]
      /\ granted' = [granted EXCEPT ![call[c].holder][call[c].now] = @ + 1]
  BY CallFrame, CallSteps DEF Charge, QuotaTypeOK
<1>2. d \in Nat /\ call[c].now \in 0..MaxDay /\ quota[h].resetDay \in Nat
  <2>1. call[c].now \in Nat
    BY DEF QuotaTypeOK, CallRecord
  <2>2. d \in Nat /\ d <= MaxDay /\ MaxDay \in Nat
    BY QuotaAssumption
  <2>3. call[c].now \in 0..MaxDay
    BY <2>1, <2>2
  <2> QED
    BY <2>2, <2>3, DayTypes
<1>3. /\ n \in Nat /\ L \in Nat /\ u \in Nat /\ g \in Nat
      /\ p \in Nat /\ t \in Nat /\ b \in Nat /\ k \in Nat
      /\ o \in Nat /\ m \in Nat
  BY <1>2, MidnightCounts, MidnightCountsNext, DayTypes
<1>4. CASE call[c].holder # h
  <2>1. c \notin Pending(h)' /\ c \notin Turning(h, d)' /\ c \notin Behind(h, d)'
    BY <1>1 DEF Pending, Resetting, Turning, Behind
  <2>2. quota'[h] = quota[h] /\ granted'[h][d] = granted[h][d]
    BY <1>1, <1>4 DEF QuotaTypeOK
  <2> QED
    BY <1>1, <2>1, <2>2, OpenShrinks
<1>5. CASE call[c].holder = h
  <2>1. /\ quota'[h].used = u + 1 /\ quota'[h].resetDay = quota[h].resetDay
    BY <1>1, <1>5 DEF QuotaTypeOK, QuotaRecord
  <2>2. granted'[h][d] = IF call[c].now = d THEN g + 1 ELSE g
    BY <1>1, <1>2, <1>5 DEF QuotaTypeOK
  <2>3. /\ c \in Pending(h) /\ Pending(h)' = Pending(h) \ {c}
        /\ Turning(h, d)' = Turning(h, d) /\ Behind(h, d)' = Behind(h, d)
        /\ Charging(h, d)' = Charging(h, d) \ {c}
    BY <1>1, <1>5 DEF Pending, Resetting, Turning, Behind, Charging
  <2>4. o = p - 1
    BY <1>2, <2>3, MidnightCounts, FS_RemoveElement
  <2>5. granted'[h][d] + m = g + k /\ granted'[h][d] \in Nat /\ granted'[h][d] <= g + 1
    <3>1. CASE call[c].now = d
      <4>1. c \in Charging(h, d)
        BY <2>3, <3>1 DEF Charging
      <4>2. m = k - 1
        <5>1. IsFiniteSet(Charging(h, d))
          BY <1>2, MidnightCounts
        <5> QED
          BY <2>3, <4>1, <5>1, FS_RemoveElement
      <4>3. granted'[h][d] = g + 1
        BY <2>2, <3>1
      <4> HIDE DEF g, m, k
      <4> QED
        BY <1>3, <4>2, <4>3
    <3>2. CASE call[c].now # d
      <4>1. c \notin Charging(h, d)
        BY <3>2 DEF Charging
      <4>2. m = k
        BY <2>3, <4>1
      <4>3. granted'[h][d] = g
        BY <2>2, <3>2
      <4> HIDE DEF g, m, k
      <4> QED
        BY <1>3, <4>2, <4>3
    <3> QED
      BY <3>1, <3>2
  <2>6. quota[h].resetDay <= d => Over(L, n, b, granted'[h][d], m)
    <3>1. quota[h].resetDay <= d => Over(L, n, b, g, k)
      BY DEF OpenInv
    <3> HIDE DEF L, n, b, g, k, m
    <3> QED
      BY <2>5, <3>1 DEF Over
  <2>7. quota[h].resetDay > d => Opened(L, n, u + 1, o, t, b, granted'[h][d])
    <3> SUFFICES ASSUME quota[h].resetDay > d
                 PROVE  Opened(L, n, u + 1, o, t, b, granted'[h][d])
      OBVIOUS
    <3>1. Opened(L, n, u, p, t, b, g)
      BY DEF OpenInv
    <3> HIDE DEF L, n, u, o, p, t, b, g
    <3>2. t + b < n /\ u + p + t + b < L + n
          /\ 6 * (g - u) <= Rounds(L, n - b) + 3 * Twice(L, n - b - 1 - t)
      BY <3>1 DEF Opened
    <3>3. Rounds(L, n - b) \in Nat /\ Twice(L, n - b - 1 - t) \in Nat
      BY <1>3, <3>2, OpenedTypes
    <3>4. /\ (u + 1) + o + t + b < L + n
          /\ 6 * (granted'[h][d] - (u + 1)) <= Rounds(L, n - b) + 3 * Twice(L, n - b - 1 - t)
      BY <1>3, <2>4, <2>5, <3>2, <3>3
    <3> QED
      BY <3>2, <3>4 DEF Opened
  <2>8. quota[h].resetDay <= d + 1
    BY DEF OpenInv
  <2> QED
    BY <2>1, <2>3, <2>6, <2>7, <2>8 DEF OpenInv
<1> QED
  BY <1>4, <1>5

(* Within a day, every step keeps the invariant of a day that no later     *)
(* call has come after.                                                    *)
LEMMA OpenStep ==
    ASSUME QuotaTypeOK, NEW h \in Holders, NEW d \in 0..MaxDay, OpenInv(h, d), d <= day,
           \A c \in Callers : call[c].now <= d,
           [QuotaNext]_quotaVars, day' = day
    PROVE  OpenInv(h, d)'
<1>1. ASSUME NEW c \in Callers, NEW k \in Holders \cup {Anonymous}, Begin(c, k)
      PROVE  OpenInv(h, d)'
  <2>1. /\ \A w \in Callers \ {c} : call'[w] = call[w]
        /\ call'[c].step \in {"read", "count"} /\ call'[c].now = day
        /\ quota' = quota /\ granted' = granted
    BY <1>1 DEF Begin, QuotaTypeOK
  <2>2. ~(day < d)
    BY QuotaAssumption, DayTypes
  <2>3. c \notin Pending(h)' /\ c \notin Turning(h, d)' /\ c \notin Behind(h, d)'
    BY <2>1, <2>2 DEF Pending, Resetting, Turning, Behind
  <2> QED
    BY <2>1, <2>3, OpenShrinks
<1>2. ASSUME NEW c \in Callers, Refuse(c) \/ Leave(c) \/ \E b \in BOOLEAN : CountAnonymous(c, b)
      PROVE  OpenInv(h, d)'
  <2>1. /\ \A w \in Callers \ {c} : call'[w] = call[w]
        /\ call'[c].step \in {"idle", "allowed", "denied"}
    BY <1>2, CallFrame, CallSteps DEF Leave, Idle, QuotaTypeOK
  <2>2. quota' = quota /\ granted' = granted
    BY <1>2 DEF Refuse, Leave, CountAnonymous
  <2>3. c \notin Pending(h)' /\ c \notin Turning(h, d)' /\ c \notin Behind(h, d)'
    BY <2>1 DEF Pending, Resetting, Turning, Behind
  <2> QED
    BY <2>1, <2>2, <2>3, OpenShrinks
<1>3. CASE UNCHANGED quotaVars
  <2>1. /\ Pending(h)' = Pending(h) /\ Charging(h, d)' = Charging(h, d)
        /\ Turning(h, d)' = Turning(h, d) /\ Behind(h, d)' = Behind(h, d)
    BY <1>3 DEF quotaVars, Pending, Charging, Resetting, Turning, Behind
  <2>2. quota' = quota /\ granted' = granted
    BY <1>3 DEF quotaVars
  <2> QED
    BY <2>1, <2>2 DEF OpenInv
<1>4. ~NextDay
  BY DayTypes DEF NextDay
<1> QED
  BY <1>1, <1>2, <1>3, <1>4, ReadOpen, ResetOpen, ChargeOpen DEF QuotaNext

(* What a day without later calls was granted, and is about to be charged, *)
(* is no more than all rounds of all workers.                              *)
LEMMA OpenBound ==
    ASSUME QuotaTypeOK, NEW h \in Holders, NEW d \in 0..MaxDay, OpenInv(h, d)
    PROVE  6 * (granted[h][d] + Cardinality(Charging(h, d)))
             <= Rounds(DailyLimit[h], Cardinality(Callers) + 1)
<1> DEFINE n == Cardinality(Callers)
           L == DailyLimit[h]
           u == quota[h].used
           g == granted[h][d]
           p == Cardinality(Pending(h))
           t == Cardinality(Turning(h, d))
           b == Cardinality(Behind(h, d))
           k == Cardinality(Charging(h, d))
<1>1. d \in Nat
  BY QuotaAssumption
<1>2. /\ n \in Nat /\ L \in Nat /\ u \in Nat /\ g \in Nat
      /\ p \in Nat /\ t \in Nat /\ b \in Nat /\ k \in Nat
      /\ b <= n /\ k <= p
  BY <1>1, MidnightCounts, DayTypes
<1>3. quota[h].resetDay <= d => Over(L, n, b, g, k)
  BY DEF OpenInv
<1>4. quota[h].resetDay > d => Opened(L, n, u, p, t, b, g)
  BY DEF OpenInv
<1>5. quota[h].resetDay \in Nat
  BY DayTypes
<1> HIDE DEF n, L, u, g, p, t, b, k
<1>6. 6 * (g + k) <= Rounds(L, n - b) \/ 6 * (g + k) <= Rounds(L, n - b + 1)
  <2>1. CASE quota[h].resetDay <= d
    BY <1>3, <2>1 DEF Over
  <2>2. CASE quota[h].resetDay > d
    BY <1>2, <1>4, <2>2, OpenedOver
  <2> QED
    BY <1>1, <1>5, <2>1, <2>2
<1>7. /\ n - b \in Nat /\ n - b + 1 \in Nat /\ n + 1 \in Nat
      /\ n - b <= n + 1 /\ n - b + 1 <= n + 1
  BY <1>2
<1>8. /\ Rounds(L, n - b) <= Rounds(L, n + 1) /\ Rounds(L, n - b + 1) <= Rounds(L, n + 1)
      /\ Rounds(L, n - b) \in Nat /\ Rounds(L, n - b + 1) \in Nat /\ Rounds(L, n + 1) \in Nat
  BY <1>2, <1>7, RoundGrows
<1>9. 6 * (g + k) <= Rounds(L, n + 1)
  BY <1>2, <1>6, <1>8
<1> QED
  BY <1>9 DEF n, L, g, k

(* Once a worker is no longer in a call of the day, at most all others are *)
(* granted one more analysis of it each.                                   *)
LEMMA OpenPast ==
    ASSUME QuotaTypeOK, NEW h \in Holders, NEW d \in 0..MaxDay, OpenInv(h, d),
           Flying(h, d) # Callers
    PROVE  PastInv(h, d)
<1> DEFINE n == Cardinality(Callers)
           g == granted[h][d]
           k == Cardinality(Charging(h, d))
           F == Flying(h, d) \ Charging(h, d)
           B == Rounds(DailyLimit[h], n + 1)
<1>1. /\ Flying(h, d) \subseteq Callers /\ Charging(h, d) \subseteq Flying(h, d)
  BY DEF Flying, Charging, Pending
<1>2. /\ IsFiniteSet(Callers) /\ IsFiniteSet(Flying(h, d)) /\ IsFiniteSet(Charging(h, d))
      /\ IsFiniteSet(F)
  BY <1>1, FS_Subset, QuotaAssumption
<1>3. Cardinality(Flying(h, d)) = k + Cardinality(F)
  <2>1. Flying(h, d) = Charging(h, d) \cup F /\ Charging(h, d) \cap F = {}
    BY <1>1
  <2>2. Cardinality(Charging(h, d) \cup F) = k + Cardinality(F) - 0
    BY <1>2, <2>1, FS_Union, FS_EmptySet
  <2>3. k \in Nat /\ Cardinality(F) \in Nat
    BY <1>2, FS_CardinalityType
  <2> HIDE DEF F, k
  <2> QED
    BY <2>1, <2>2, <2>3
<1>4. Cardinality(F) <= n - 1
  <2>1. PICK w \in Callers : w \notin Flying(h, d)
    BY <1>1
  <2>2. F \subseteq Callers \ {w}
    BY <1>1, <2>1
  <2>3. Cardinality(Callers \ {w}) = n - 1 /\ IsFiniteSet(Callers \ {w})
    BY <1>2, <2>1, FS_RemoveElement
  <2> QED
    BY <2>2, <2>3, FS_Subset
<1>5. n \in Nat /\ g \in Nat /\ k \in Nat /\ Cardinality(F) \in Nat /\ B \in Nat
  <2>1. n \in Nat /\ k \in Nat /\ Cardinality(F) \in Nat
    BY <1>2, FS_CardinalityType
  <2>2. n + 1 \in Nat
    BY <2>1
  <2> QED
    BY <2>1, <2>2, DayTypes, RoundNat
<1>6. 6 * (g + k) <= B
  BY OpenBound
<1> HIDE DEF n, g, k, F, B
<1>7. 6 * (g + Cardinality(Flying(h, d))) <= B + 6 * (n - 1)
  BY <1>3, <1>4, <1>5, <1>6
<1> QED
  BY <1>7 DEF PastInv, n, g, B

LEMMA OpenPastNext ==
    ASSUME NEW h \in Holders, NEW d \in 0..MaxDay
    PROVE  (QuotaTypeOK /\ OpenInv(h, d) /\ Flying(h, d) # Callers => PastInv(h, d))'
<1>1. QuotaTypeOK /\ OpenInv(h, d) /\ Flying(h, d) # Callers => PastInv(h, d)
  BY OpenPast
<1> QED
  BY <1>1, PTL

(* No call of a day begins after it: those under way can only be granted   *)
(* their analysis or go without.                                           *)
LEMMA FlyingShrinks ==
    ASSUME QuotaTypeOK, NEW h \in Holders, NEW d \in 0..MaxDay, d < day, [QuotaNext]_quotaVars
    PROVE  Flying(h, d)' \subseteq Flying(h, d)
<1>1. ASSUME NEW c \in Callers, NEW k \in Holders \cup {Anonymous}, Begin(c, k)
      PROVE  Flying(h, d)' \subseteq Flying(h, d)
  <2>1. /\ \A w \in Callers \ {c} : call'[w] = call[w]
        /\ call'[c].now = day
    BY <1>1 DEF Begin, QuotaTypeOK
  <2>2. d # day
    BY DayTypes
  <2> QED
    BY <2>1, <2>2 DEF Flying, Charging, Pending
<1>2. ASSUME NEW c \in Callers,
             Read(c) \/ Reset(c) \/ Charge(c) \/ Refuse(c) \/ (\E b \in BOOLEAN : CountAnonymous(c, b))
      PROVE  Flying(h, d)' \subseteq Flying(h, d)
  <2>1. /\ call'[c].holder = call[c].holder /\ call'[c].now = call[c].now
        /\ \A w \in Callers \ {c} : call'[w] = call[w]
    BY <1>2, CallFrame
  <2>2. \/ call[c].step \in {"read", "reset"}
        \/ call'[c].step \in {"allowed", "denied"}
    BY <1>2, CallSteps DEF Read, Reset
  <2> QED
    BY <2>1, <2>2 DEF Flying, Charging, Pending
<1>3. ASSUME NEW c \in Callers, Leave(c)
      PROVE  Flying(h, d)' \subseteq Flying(h, d)
  BY <1>3 DEF Leave, Idle, QuotaTypeOK, Flying, Charging, Pending
<1>4. CASE NextDay
  BY <1>4 DEF NextDay, Flying, Charging, Pending
<1>5. CASE UNCHANGED quotaVars
  BY <1>5 DEF quotaVars, Flying, Charging, Pending
<1> QED
  BY <1>1, <1>2, <1>3, <1>4, <1>5 DEF QuotaNext

(* What a day was granted changes by a charge of one of its calls only. *)
LEMMA GrantStep ==
    ASSUME QuotaTypeOK, NEW h \in Holders, NEW d \in 0..MaxDay, [QuotaNext]_quotaVars
    PROVE  \/ granted'[h][d] = granted[h][d]
           \/ /\ granted'[h][d] = granted[h][d] + 1
              /\ \E c \in Charging(h, d) : c \notin Flying(h, d)'
<1>1. ASSUME NEW c \in Callers, Charge(c)
      PROVE  \/ granted'[h][d] = granted[h][d]
             \/ /\ granted'[h][d] = granted[h][d] + 1
                /\ \E w \in Charging(h, d) : w \notin Flying(h, d)'
  <2>1. /\ call[c].step = "check" /\ call[c].holder \in Holders
        /\ call[c].used < DailyLimit[call[c].holder]
        /\ call'[c].step = "allowed"
        /\ granted' = [granted EXCEPT ![call[c].holder][call[c].now] = @ + 1]
    BY <1>1, CallSteps DEF Charge, QuotaTypeOK
  <2>2. CASE call[c].holder = h /\ call[c].now = d
    <3>1. granted'[h][d] = granted[h][d] + 1
      BY <2>1, <2>2 DEF QuotaTypeOK
    <3>2. c \in Charging(h, d) /\ c \notin Flying(h, d)'
      BY <2>1, <2>2 DEF Charging, Pending, Flying
    <3> QED
      BY <3>1, <3>2
  <2>3. CASE ~(call[c].holder = h /\ call[c].now = d)
    BY <2>1, <2>3 DEF QuotaTypeOK
  <2> QED
    BY <2>2, <2>3
<1>2. CASE UNCHANGED granted
  BY <1>2
<1> QED
  BY <1>1, <1>2 DEF QuotaNext, quotaVars, Begin, Read, Reset, Refuse, Leave, CountAnonymous, NextDay

(* A day that is over stays within its bound. *)
LEMMA PastStep ==
    ASSUME QuotaTypeOK, QuotaTypeOK', NEW h \in Holders, NEW d \in 0..MaxDay, d < day,
           PastInv(h, d), [QuotaNext]_quotaVars
    PROVE  PastInv(h, d)'
<1> DEFINE f == Cardinality(Flying(h, d))
           e == Cardinality(Flying(h, d)')
           B == Rounds(DailyLimit[h], Cardinality(Callers) + 1) + 6 * (Cardinality(Callers) - 1)
<1>1. Flying(h, d)' \subseteq Flying(h, d)
  BY FlyingShrinks
<1>2. IsFiniteSet(Flying(h, d)) /\ IsFiniteSet(Flying(h, d)')
  <2>1. Flying(h, d) \subseteq Callers
    BY DEF Flying, Charging, Pending
  <2> QED
    BY <1>1, <2>1, FS_Subset, QuotaAssumption
<1>3. f \in Nat /\ e \in Nat /\ e <= f
  BY <1>1, <1>2, FS_CardinalityType, FS_Subset
<1>4. granted[h][d] \in Nat /\ B \in Int
  <2>1. Cardinality(Callers) \in Nat /\ Cardinality(Callers) + 1 \in Nat
    BY FS_CardinalityType, QuotaAssumption
  <2>2. granted[h][d] \in Nat /\ DailyLimit[h] \in Nat
    BY DayTypes
  <2>3. Rounds(DailyLimit[h], Cardinality(Callers) + 1) \in Nat
    BY <2>1, <2>2, RoundNat
  <2> QED
    BY <2>1, <2>2, <2>3
<1>5. granted'[h][d] = granted[h][d] \/ (granted'[h][d] = granted[h][d] + 1 /\ e <= f - 1)
  <2>1. ASSUME NEW c \in Charging(h, d), c \notin Flying(h, d)'
        PROVE  e <= f - 1
    <3>1. c \in Flying(h, d)
      BY DEF Flying
    <3>2. Flying(h, d)' \subseteq Flying(h, d) \ {c}
      BY <1>1, <2>1
    <3>3. Cardinality(Flying(h, d) \ {c}) = f - 1 /\ IsFiniteSet(Flying(h, d) \ {c})
      BY <1>2, <3>1, FS_RemoveElement
    <3> QED
      BY <3>2, <3>3, FS_Subset
  <2> QED
    BY <2>1, GrantStep
<1>6. 6 * (granted[h][d] + f) <= B
  BY DEF PastInv
<1> HIDE DEF f, e, B
<1>7. 6 * (granted'[h][d] + e) <= B
  BY <1>3, <1>4, <1>5, <1>6
<1> QED
  BY <1>7 DEF PastInv, e, B

(* Midnight opens the next day, for which nothing was granted yet. *)
LEMMA OpenMidnight ==
    ASSUME QuotaTypeOK, NEW h \in Holders, MidnightInv(h), NextDay,
           NEW d \in 0..MaxDay, d = day + 1
    PROVE  OpenInv(h, d)'
<1> DEFINE n == Cardinality(Callers)
           b == Cardinality(Behind(h, d)')
<1>1. /\ day' = day + 1 /\ quota' = quota /\ granted' = granted /\ call' = call
      /\ day \in Nat /\ day \in 0..MaxDay /\ d \in Nat /\ d > day
  BY DayTypes DEF NextDay
<1>2. granted'[h][d] = 0
  BY <1>1 DEF MidnightInv
<1>3. quota[h].resetDay <= d
  BY <1>1 DEF MidnightInv, OpenInv
<1>4. Charging(h, d)' = {}
  <2>1. \A c \in Callers : call'[c].now # d
    <3>1. \A c \in Callers : call[c].now <= day
      BY DEF QuotaTypeOK
    <3> QED
      BY <1>1, <3>1
  <2> QED
    BY <2>1 DEF Charging, Pending
<1>5. Over(DailyLimit[h], n, b, 0, 0)
  <2>1. n \in Nat /\ b \in Nat /\ b <= n
    BY <1>1, MidnightCounts, MidnightCountsNext
  <2> HIDE DEF n, b
  <2>2. n - b \in Nat
    BY <2>1
  <2>3. Rounds(DailyLimit[h], n - b) \in Nat
    BY <2>2, DayTypes, RoundNat
  <2> QED
    BY <2>3 DEF Over
<1>6. Over(DailyLimit[h], n, b, granted'[h][d], Cardinality(Charging(h, d)'))
  BY <1>2, <1>4, <1>5, FS_EmptySet
<1>7. quota'[h].resetDay <= d + 1 /\ ~(quota'[h].resetDay > d)
  BY <1>1, <1>3, DayTypes
<1> QED
  BY <1>1, <1>6, <1>7 DEF OpenInv

(* Every step of consume_daily_quota, and midnight, keep the invariant of  *)
(* every holder and day.                                                   *)
LEMMA MidnightStep ==
    ASSUME QuotaTypeOK, QuotaTypeOK', NEW h \in Holders, MidnightInv(h), [QuotaNext]_quotaVars
    PROVE  MidnightInv(h)'
<1> SUFFICES ASSUME NEW d \in 0..MaxDay
             PROVE  /\ d > day' => granted'[h][d] = 0
                    /\ d = day' => OpenInv(h, d)'
                    /\ d < day' => IF Flying(h, d)' = Callers
                                   THEN OpenInv(h, d)' ELSE PastInv(h, d)'
  BY DEF MidnightInv
<1>1. d \in Nat /\ day \in Nat /\ day \in 0..MaxDay
  BY QuotaAssumption, DayTypes
<1>2. \A c \in Callers : call[c].now <= day
  BY DEF QuotaTypeOK
<1>3. ASSUME OpenInv(h, d)'
      PROVE  IF Flying(h, d)' = Callers THEN OpenInv(h, d)' ELSE PastInv(h, d)'
  BY <1>3, OpenPastNext
<1>4. ASSUME d < day, PastInv(h, d), Flying(h, d) # Callers
      PROVE  Flying(h, d)' # Callers /\ PastInv(h, d)'
  <2>1. Flying(h, d) \subseteq Callers /\ Flying(h, d)' \subseteq Flying(h, d)
    BY <1>4, FlyingShrinks DEF Flying, Charging, Pending
  <2> QED
    BY <1>4, <2>1, PastStep
<1>5. CASE day' = day
  <2>1. CASE d > day
    <3>1. granted[h][d] = 0
      BY <2>1 DEF MidnightInv
    <3>2. Charging(h, d) = {}
      <4>1. \A c \in Callers : call[c].now # d
        BY <1>1, <1>2, <2>1
      <4> QED
        BY <4>1 DEF Charging, Pending
    <3>3. granted'[h][d] = 0
      BY <3>1, <3>2, GrantStep
    <3> QED
      BY <1>1, <1>5, <2>1, <3>3
  <2>2. CASE d = day
    <3>1. OpenInv(h, d)
      BY <2>2 DEF MidnightInv
    <3>2. d <= day
      BY <1>1, <2>2
    <3>3. OpenInv(h, d)'
      BY <1>2, <1>5, <2>2, <3>1, <3>2, OpenStep
    <3> QED
      BY <1>1, <1>5, <2>2, <3>3
  <2>3. CASE d < day /\ Flying(h, d) = Callers
    <3>1. OpenInv(h, d)
      BY <2>3 DEF MidnightInv
    <3>2. \A c \in Callers : call[c].now = d
      BY <2>3 DEF Flying, Charging
    <3>3. d <= day /\ \A c \in Callers : call[c].now <= d
      BY <1>1, <2>3, <3>2
    <3>4. OpenInv(h, d)'
      BY <1>5, <3>1, <3>3, OpenStep
    <3> QED
      BY <1>1, <1>3, <1>5, <2>3, <3>4
  <2>4. CASE d < day /\ Flying(h, d) # Callers
    <3>1. PastInv(h, d)
      BY <2>4 DEF MidnightInv
    <3> QED
      BY <1>1, <1>4, <1>5, <2>4, <3>1
  <2> QED
    BY <1>1, <2>1, <2>2, <2>3, <2>4
<1>6. CASE NextDay
  <2>1. /\ day' = day + 1 /\ quota' = quota /\ granted' = granted /\ call' = call
    BY <1>6 DEF NextDay
  <2>2. OpenInv(h, d) => OpenInv(h, d)'
    BY <2>1 DEF OpenInv, Charging, Pending, Turning, Resetting, Behind
  <2>3. CASE d > day + 1
    <3>1. d > day
      BY <1>1, <2>3
    <3> QED
      BY <1>1, <2>1, <2>3, <3>1 DEF MidnightInv
  <2>4. CASE d = day + 1
    <3>1. OpenInv(h, d)'
      BY <1>6, <2>4, OpenMidnight
    <3>2. ~(d > day') /\ ~(d < day') /\ day' = d
      BY <1>1, <2>1, <2>4
    <3> QED
      BY <3>1, <3>2
  <2>5. CASE d = day
    <3>1. OpenInv(h, d)'
      BY <2>2, <2>5 DEF MidnightInv
    <3> QED
      BY <1>1, <1>3, <2>1, <2>5, <3>1
  <2>6. CASE d < day /\ Flying(h, d) = Callers
    <3>1. OpenInv(h, d)'
      BY <2>2, <2>6 DEF MidnightInv
    <3> QED
      BY <1>1, <1>3, <2>1, <2>6, <3>1
  <2>7. CASE d < day /\ Flying(h, d) # Callers
    <3>1. PastInv(h, d)
      BY <2>7 DEF MidnightInv
    <3> QED
      BY <1>1, <1>4, <2>1, <2>7, <3>1
  <2> QED
    BY <1>1, <2>3, <2>4, <2>5, <2>6, <2>7
<1>7. day' = day \/ NextDay
  BY DEF QuotaNext, quotaVars, Begin, Read, Reset, Charge, Refuse, Leave, CountAnonymous
<1> QED
  BY <1>5, <1>6, <1>7

(* Whichever midnights fall into their calls, n workers grant a holder     *)
(* with limit L at most n (n + 1) (3 L + n - 1) / 6 + n - 1 analyses of    *)
(* one day (consume_daily_quota).                                          *)
THEOREM MidnightBounded == QuotaSpec => []MidnightBound
<1> DEFINE Inv == QuotaTypeOK /\ \A h \in Holders : MidnightInv(h)
<1>1. QuotaInit => Inv
  <2> SUFFICES ASSUME QuotaInit
               PROVE  Inv
    OBVIOUS
  <2>1. QuotaTypeOK
    BY QuotaAssumption DEF QuotaInit, QuotaTypeOK, QuotaRecord, CallRecord, Idle
  <2>2. ASSUME NEW h \in Holders
        PROVE  MidnightInv(h)
    <3>1. /\ quota[h].resetDay = 0 /\ day = 0
          /\ \A d \in 0..MaxDay : granted[h][d] = 0
          /\ Pending(h) = {}
      BY DEF QuotaInit, Pending, Idle
    <3>2. 0 \in 0..MaxDay /\ \A d \in 0..MaxDay : ~(d < 0)
      BY QuotaAssumption
    <3>3. Charging(h, 0) = {}
      BY <3>1 DEF Charging
    <3>4. Rounds(DailyLimit[h], Cardinality(Callers) - Cardinality(Behind(h, 0))) \in Nat
      <4>1. /\ Cardinality(Callers) \in Nat /\ Cardinality(Behind(h, 0)) \in Nat
            /\ Cardinality(Pending(h)) \in Nat /\ Cardinality(Turning(h, 0)) \in Nat
            /\ Cardinality(Pending(h)) + Cardinality(Turning(h, 0)) + Cardinality(Behind(h, 0))
                  <= Cardinality(Callers)
        BY MidnightCounts
      <4>2. Cardinality(Callers) - Cardinality(Behind(h, 0)) \in Nat
        BY <4>1
      <4> QED
        BY <2>1, <4>2, DayTypes, RoundNat
    <3>5. Over(DailyLimit[h], Cardinality(Callers), Cardinality(Behind(h, 0)), 0, 0)
      BY <3>4 DEF Over
    <3>6. OpenInv(h, 0)
      BY <3>1, <3>2, <3>3, <3>5, FS_EmptySet DEF OpenInv
    <3> QED
      BY <3>1, <3>2, <3>6 DEF MidnightInv
  <2> QED
    BY <2>1, <2>2
<1>2. Inv /\ [QuotaNext]_quotaVars => Inv'
  <2> SUFFICES ASSUME Inv, [QuotaNext]_quotaVars
               PROVE  Inv'
    OBVIOUS
  <2>1. QuotaTypeOK'
    BY QuotaTypeStep
  <2>2. ASSUME NEW h \in Holders
        PROVE  MidnightInv(h)'
    BY <2>1, MidnightStep
  <2> QED
    BY <2>1, <2>2
<1>3. Inv => MidnightBound
  <2> SUFFICES ASSUME Inv, NEW h \in Holders, NEW d \in 0..MaxDay
               PROVE  granted[h][d] <= MidnightLimit(h)
    BY DEF MidnightBound
  <2> DEFINE n == Cardinality(Callers)
             L == DailyLimit[h]
             g == granted[h][d]
             x == n * (n + 1) * (3 * L + n - 1)
  <2>1. n \in Nat /\ n > 0 /\ L \in Nat /\ g \in Nat
    BY DayCounts, DayTypes
  <2>2. 6 * g <= Rounds(L, n + 1) + 6 * (n - 1)
    <3>1. Rounds(L, n + 1) \in Nat
      <4>1. n + 1 \in Nat
        BY <2>1
      <4> QED
        BY <2>1, <4>1, RoundNat
    <3>2. CASE OpenInv(h, d)
      <4> DEFINE k == Cardinality(Charging(h, d))
      <4>1. 6 * (g + k) <= Rounds(L, n + 1)
        BY <3>2, OpenBound
      <4>2. k \in Nat
        <5>1. d \in Nat
          BY QuotaAssumption
        <5> QED
          BY <5>1, MidnightCounts
      <4> HIDE DEF n, L, g, k
      <4> QED
        BY <2>1, <3>1, <4>1, <4>2
    <3>3. CASE PastInv(h, d)
      <4> DEFINE f == Cardinality(Flying(h, d))
      <4>1. 6 * (g + f) <= Rounds(L, n + 1) + 6 * (n - 1)
        BY <3>3 DEF PastInv
      <4>2. f \in Nat
        <5>1. Flying(h, d) \subseteq Callers
          BY DEF Flying, Charging, Pending
        <5> QED
          BY <5>1, FS_Subset, FS_CardinalityType, QuotaAssumption
      <4> HIDE DEF n, L, g, f
      <4> QED
        BY <2>1, <3>1, <4>1, <4>2
    <3>4. CASE g = 0
      <4> HIDE DEF n, L, g
      <4> QED
        BY <2>1, <3>1, <3>4
    <3>5. d > day \/ d = day \/ d < day
      BY DayTypes, QuotaAssumption
    <3> QED
      BY <3>2, <3>3, <3>4, <3>5 DEF MidnightInv
  <2>3. MidnightLimit(h) = x \div 6 + n - 1
    BY DEF MidnightLimit
  <2>4. Rounds(L, n + 1) = x
    <3> HIDE DEF n, L
    <3> QED
      BY <2>1 DEF Rounds
  <2>5. x \in Int
    <3> HIDE DEF n, L
    <3> QED
      BY <2>1
  <2> HIDE DEF n, L, g, x
  <2>6. \A y \in Int, z, w \in Nat : 6 * z <= y + 6 * (w - 1) => z <= y \div 6 + w - 1
    OBVIOUS
  <2>7. g <= x \div 6 + n - 1
    BY <2>1, <2>2, <2>4, <2>5, <2>6
  <2> QED
    BY <2>3, <2>7 DEF g
<1> HIDE DEF Inv
<1> QED
  BY <1>1, <1>2, <1>3, PTL DEF QuotaSpec
=============================================================================
