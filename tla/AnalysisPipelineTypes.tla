----------------------- MODULE AnalysisPipelineTypes ------------------------
(* The types of the pipeline, for any number of workers, deliveries, polls,*)
(* addresses, mails and troubles; and that each of its steps is a step of  *)
(* DailyQuota or leaves the budget records alone.                          *)
EXTENDS AnalysisPipeline, DailyQuotaProofs, SequenceTheorems

(* The actions that write mails or count charges; no other does. *)
MailStep ==
    \/ \E s \in Sessions : Insert(s)
    \/ \E w \in Workers : \/ ClaimWon(w) \/ ClaimFails(w) \/ QuotaCharge(w) \/ DenyMail(w)
                          \/ Analyze(w) \/ Publish(w) \/ ExceptMail(w)
    \/ \E p \in Pollers : CheckClear(p)

LEMMA MailFrame == [Next]_vars => MailStep \/ UNCHANGED <<mailVars, charged>>
<1> SUFFICES ASSUME Next
             PROVE  MailStep \/ UNCHANGED <<mailVars, charged>>
  BY DEF vars, mailVars
<1> USE DEF MailStep
<1>1. ASSUME NEW a \in Addresses, NEW s \in Sessions, Lookup(s, a)
      PROVE  UNCHANGED <<mailVars, charged>>
  BY <1>1 DEF Lookup
<1>8. ASSUME NEW a \in Addresses, Expire(a)
      PROVE  UNCHANGED <<mailVars, charged>>
  BY <1>8 DEF Expire
<1>2. ASSUME NEW s \in Sessions, Ingest(s) \/ DeliveryFails(s)
      PROVE  Insert(s) \/ UNCHANGED <<mailVars, charged>>
  BY <1>2 DEF Ingest, UpdateAddress, Delay, DeliveryFails
<1>3. ASSUME NEW w \in Workers, Take(w) \/ Trouble(w)
      PROVE  ClaimFails(w) \/ UNCHANGED <<mailVars, charged>>
  BY <1>3 DEF Take, Trouble, Fault, ExceptFails, Crash
<1>4. ASSUME NEW w \in Workers, Work(w)
      PROVE  MailStep \/ UNCHANGED <<mailVars, charged>>
  BY <1>4 DEF Work, ClaimLost, Consume, QuotaStep, DenyAddress, MarkProcessing, Finish,
              ExceptAddress
<1>5. ASSUME NEW p \in Pollers, NEW e \in Mails, Check(p, e)
      PROVE  UNCHANGED <<mailVars, charged>>
  BY <1>5 DEF Check, CheckBlocked, CheckUnclaimed
<1>6. ASSUME NEW p \in Pollers, Answer(p) \/ CheckFails(p)
      PROVE  CheckClear(p) \/ UNCHANGED <<mailVars, charged>>
  BY <1>6 DEF Answer, CheckQuota, CheckDelay, CheckFails
<1>7. CASE Midnight
  BY <1>7 DEF Midnight
<1> QED
  BY <1>1, <1>2, <1>3, <1>4, <1>5, <1>6, <1>7, <1>8 DEF Next

(* The stored mails keep their types, and none is ever removed. *)
LEMMA MailTypeStep == TypeOK /\ [Next]_vars => MailTypeOK' /\ received <= received'
<1> SUFFICES ASSUME TypeOK, [Next]_vars
             PROVE  MailTypeOK' /\ received <= received'
  OBVIOUS
<1>0. /\ MailTypeOK
      /\ received \in Nat
      /\ \A w \in Workers : ~At(w, "idle") => worker[w].mail \in Mails
  BY PipelineAssumption DEF TypeOK, WorkerTypeOK, MailTypeOK, Mails
<1> USE DEF MailTypeOK
<1>1. ASSUME NEW s \in Sessions, Insert(s)
      PROVE  MailTypeOK' /\ received <= received'
  <2>1. /\ session[s].from \in Origin
        /\ session[s].from.to \in Addresses
    BY <1>1 DEF Insert, TypeOK, SessionTypeOK
  <2>2. received + 1 \in Mails
    BY <1>0, <1>1, PipelineAssumption DEF Insert, Mails
  <2> QED
    BY <1>0, <1>1, <2>1, <2>2 DEF Insert, Mails
<1>2. ASSUME NEW w \in Workers, ClaimWon(w)
      PROVE  MailTypeOK' /\ received <= received'
  <2>1. started' \in [Mails -> BOOLEAN]
    BY <1>0, <1>2 DEF ClaimWon
  <2> QED
    BY <1>0, <1>2, <2>1 DEF ClaimWon
<1>3. ASSUME NEW w \in Workers, QuotaCharge(w)
      PROVE  MailTypeOK' /\ received <= received'
  <2>1. charged' \in [Mails -> Nat]
    BY <1>0, <1>3 DEF QuotaCharge, At
  <2> QED
    BY <1>0, <1>3, <2>1 DEF QuotaCharge, mailVars
<1>4. ASSUME NEW w \in Workers, DenyMail(w)
      PROVE  MailTypeOK' /\ received <= received'
  <2>1. /\ started' \in [Mails -> BOOLEAN]
        /\ error' \in [Mails -> {"none", "limit", "failure"}]
    BY <1>0, <1>4 DEF DenyMail
  <2> QED
    BY <1>0, <1>4, <2>1 DEF DenyMail
<1>5. ASSUME NEW w \in Workers, Analyze(w)
      PROVE  MailTypeOK' /\ received <= received'
  <2>1. reports' \in [Mails -> Nat]
    BY <1>0, <1>5 DEF Analyze, At
  <2> QED
    BY <1>0, <1>5, <2>1 DEF Analyze
<1>6. ASSUME NEW w \in Workers, Publish(w)
      PROVE  MailTypeOK' /\ received <= received'
  <2>1. /\ reported' \in [Mails -> BOOLEAN]
        /\ analyzedOn' \in [Mails -> 0..MaxDay]
    BY <1>0, <1>6 DEF Publish, TypeOK, QuotaTypeOK
  <2> QED
    BY <1>0, <1>6, <2>1 DEF Publish
<1>7. ASSUME NEW w \in Workers, ExceptMail(w)
      PROVE  MailTypeOK' /\ received <= received'
  <2>1. error' \in [Mails -> {"none", "limit", "failure"}]
    BY <1>0, <1>7 DEF ExceptMail
  <2> QED
    BY <1>0, <1>7, <2>1 DEF ExceptMail
<1>8. ASSUME NEW p \in Pollers, CheckClear(p)
      PROVE  MailTypeOK' /\ received <= received'
  <2>1. error' \in [Mails -> {"none", "limit", "failure"}]
    BY <1>0, <1>8 DEF CheckClear
  <2> QED
    BY <1>0, <1>8, <2>1 DEF CheckClear
<1>9. CASE UNCHANGED <<mailVars, charged>>
  BY <1>0, <1>9 DEF mailVars
<1>10. ASSUME NEW w \in Workers, ClaimFails(w)
       PROVE  MailTypeOK' /\ received <= received'
  <2>1. started' \in [Mails -> BOOLEAN]
    BY <1>0, <1>10 DEF ClaimFails
  <2> QED
    BY <1>0, <1>10, <2>1 DEF ClaimFails
<1> QED
  BY <1>1, <1>2, <1>3, <1>4, <1>5, <1>6, <1>7, <1>8, <1>9, <1>10, MailFrame DEF MailStep

(* Whatever the pipeline does, the budget records see a step of DailyQuota *)
(* or none.                                                                *)
LEMMA QuotaSteps == TypeOK /\ [Next]_vars => [QuotaNext]_quotaVars
<1> SUFFICES ASSUME TypeOK, Next
             PROVE  QuotaNext \/ UNCHANGED quotaVars
  BY DEF vars, quotaVars
<1>1. ASSUME NEW a \in Addresses, NEW s \in Sessions, Lookup(s, a)
      PROVE  UNCHANGED quotaVars
  BY <1>1 DEF Lookup
<1>2. ASSUME NEW a \in Addresses, Expire(a)
      PROVE  UNCHANGED quotaVars
  BY <1>2 DEF Expire
<1>3. ASSUME NEW s \in Sessions, Ingest(s) \/ DeliveryFails(s)
      PROVE  UNCHANGED quotaVars
  BY <1>3 DEF Ingest, Insert, UpdateAddress, Delay, DeliveryFails
<1>4. ASSUME NEW p \in Pollers, NEW e \in Mails, Check(p, e)
      PROVE  UNCHANGED quotaVars
  BY <1>4 DEF Check, CheckBlocked, CheckUnclaimed
<1>5. ASSUME NEW p \in Pollers, Answer(p) \/ CheckFails(p)
      PROVE  UNCHANGED quotaVars
  BY <1>5 DEF Answer, CheckQuota, CheckClear, CheckDelay, CheckFails
<1>6. CASE Midnight
  BY <1>6 DEF Midnight, QuotaNext
<1>7. ASSUME NEW w \in Workers, Take(w) \/ ClaimWon(w) \/ ClaimLost(w) \/ DenyAddress(w)
                              \/ Analyze(w) \/ Publish(w) \/ Finish(w)
                              \/ ExceptMail(w) \/ ExceptAddress(w)
      PROVE  UNCHANGED quotaVars
  BY <1>7 DEF Take, ClaimWon, ClaimLost, DenyAddress, Analyze, Publish, Finish,
              ExceptMail, ExceptAddress
<1>8. ASSUME NEW w \in Workers, Consume(w)
      PROVE  QuotaNext
  <2>1. worker[w].mail \in Mails
    BY <1>8, PipelineAssumption DEF Consume, At, TypeOK, WorkerTypeOK, MailTypeOK, Mails
  <2>2. origin[worker[w].mail].account \in Holders \cup {Anonymous}
    BY <2>1 DEF TypeOK, MailTypeOK, Origin
  <2> QED
    BY <1>8, <2>2 DEF Consume, QuotaNext, Workers
<1>9. ASSUME NEW w \in Workers, QuotaStep(w) \/ QuotaCharge(w)
      PROVE  QuotaNext
  <2>1. (AnonymousUsage(origin[worker[w].mail].ip, call[w].now) < AnonLimit) \in BOOLEAN
    OBVIOUS
  <2> QED
    BY <1>9, <2>1 DEF QuotaStep, QuotaCharge, QuotaNext, Workers
<1>10. ASSUME NEW w \in Workers, DenyMail(w) \/ MarkProcessing(w)
       PROVE  QuotaNext
  BY <1>10 DEF DenyMail, MarkProcessing, QuotaNext, Workers
<1>11. ASSUME NEW w \in Workers, Trouble(w)
       PROVE  QuotaNext \/ UNCHANGED quotaVars
  BY <1>11 DEF Trouble, Fault, ClaimFails, ExceptFails, Crash, AbandonCall, QuotaNext, Workers
<1> QED
  BY <1>1, <1>2, <1>3, <1>4, <1>5, <1>6, <1>7, <1>8, <1>9, <1>10, <1>11 DEF Next, Work

(* The queue holds stored mails only, and stays within its bound. *)
LEMMA BrokerTypeStep == TypeOK /\ [Next]_vars => BrokerTypeOK'
<1> SUFFICES ASSUME TypeOK, [Next]_vars
             PROVE  BrokerTypeOK'
  OBVIOUS
<1> DEFINE Statuses == {"pending", "received", "processing", "limit",
                        "analyzed", "error", "gone"}
           StatusOK == status' \in [Addresses -> Statuses]
           QueueOK  == queue' \in Seq(1..received') /\ Len(queue') <= MaxTasks
<1>1. received \in Nat /\ received' \in Nat /\ received <= received' /\ MaxTasks \in Nat
  BY MailTypeStep, PipelineAssumption DEF TypeOK, MailTypeOK
<1>2. /\ status \in [Addresses -> Statuses]
      /\ queue \in Seq(1..received')
      /\ Len(queue) <= MaxTasks
  <2>1. 1..received \subseteq 1..received'
    BY <1>1
  <2>2. BrokerTypeOK
    BY DEF TypeOK
  <2>3. queue \in Seq(1..received')
    BY <2>1, <2>2, SeqMonotonic DEF BrokerTypeOK
  <2> QED
    BY <2>2, <2>3 DEF BrokerTypeOK
<1>3. ASSUME NEW w \in Workers,
             DenyAddress(w) \/ MarkProcessing(w) \/ Finish(w) \/ ExceptAddress(w)
      PROVE  StatusOK /\ queue' = queue
  BY <1>2, <1>3 DEF DenyAddress, MarkProcessing, Finish, ExceptAddress, SetStatus
<1>4. ASSUME NEW w \in Workers, Work(w)
      PROVE  StatusOK /\ queue' = queue
  BY <1>2, <1>3, <1>4 DEF Work, ClaimWon, ClaimLost, Consume, QuotaStep, QuotaCharge,
                          DenyMail, Analyze, Publish, ExceptMail
<1>5. ASSUME NEW w \in Workers, Trouble(w)
      PROVE  UNCHANGED <<status, queue>>
  BY <1>5 DEF Trouble, Fault, ClaimFails, ExceptFails, Crash
<1>6. ASSUME NEW w \in Workers, Take(w)
      PROVE  UNCHANGED status /\ QueueOK
  BY <1>1, <1>2, <1>6 DEF Take
<1>7. ASSUME NEW e \in 1..received, Enqueue(e)
      PROVE  QueueOK
  <2>1. e \in 1..received'
    BY <1>1
  <2>2. queue' = Append(queue, e) /\ Len(queue) < MaxTasks
    BY <1>7 DEF Enqueue
  <2> QED
    BY <1>1, <1>2, <2>1, <2>2
<1>8. ASSUME NEW s \in Sessions, Delay(s)
      PROVE  UNCHANGED status /\ QueueOK
  <2>1. session[s].mail \in 1..received
    BY <1>1, <1>8 DEF Delay, TypeOK, SessionTypeOK
  <2> QED
    BY <1>7, <1>8, <2>1 DEF Delay
<1>9. ASSUME NEW s \in Sessions, UpdateAddress(s)
      PROVE  StatusOK /\ queue' = queue
  BY <1>2, <1>9 DEF UpdateAddress, SetStatus
<1>10. ASSUME NEW s \in Sessions,
Insert(s) \/ DeliveryFails(s) \/ \E a \in Addresses : Lookup(s, a)
       PROVE  UNCHANGED <<status, queue>>
  BY <1>10 DEF Insert, DeliveryFails, Lookup
<1>11. ASSUME NEW a \in Addresses, Expire(a)
       PROVE  StatusOK /\ queue' = queue
  BY <1>2, <1>11 DEF Expire
<1>12. ASSUME NEW p \in Pollers, CheckDelay(p)
       PROVE  UNCHANGED status /\ QueueOK
  <2>1. poller[p].mail \in 1..received
    BY <1>1, <1>12 DEF CheckDelay, TypeOK, PollerTypeOK
  <2> QED
    BY <1>7, <1>12, <2>1 DEF CheckDelay
<1>13. ASSUME NEW p \in Pollers, NEW e \in Mails, Check(p, e)
       PROVE  UNCHANGED <<status, queue>>
  BY <1>13 DEF Check, CheckBlocked, CheckUnclaimed
<1>14. CASE Midnight
  BY <1>2, <1>14 DEF Midnight, BrokerTypeOK
<1>15. CASE UNCHANGED vars
  BY <1>2, <1>15 DEF vars, BrokerTypeOK
<1>16. ASSUME NEW p \in Pollers, CheckQuota(p) \/ CheckClear(p) \/ CheckFails(p)
       PROVE  UNCHANGED <<status, queue>>
  BY <1>16 DEF CheckQuota, CheckClear, CheckFails
<1>17. StatusOK /\ QueueOK
  BY <1>2, <1>4, <1>5, <1>6, <1>8, <1>9, <1>10, <1>11, <1>12, <1>13, <1>14, <1>15, <1>16
     DEF Next, Ingest, Answer, BrokerTypeOK
<1> QED
  BY <1>17 DEF BrokerTypeOK

(* A delivery past its insert has a stored mail. *)
LEMMA SessionTypeStep == TypeOK /\ [Next]_vars => SessionTypeOK'
<1> SUFFICES ASSUME TypeOK, [Next]_vars
             PROVE  SessionTypeOK'
  OBVIOUS
<1>1. /\ received \in Nat /\ received' \in Nat /\ received <= received'
      /\ 0..received \subseteq 0..received'
  BY MailTypeStep, PipelineAssumption DEF TypeOK, MailTypeOK
<1>2. /\ session \in [Sessions -> [step : {"idle", "insert", "address", "delay"},
                                   from : Origin, mail : 0..received']]
      /\ SessionTypeOK
  BY <1>1 DEF TypeOK, SessionTypeOK
<1>3. NoOrigin \in Origin
  BY DEF NoOrigin, Origin
<1>4. CASE UNCHANGED session
  BY <1>2, <1>4 DEF SessionTypeOK
<1>5. ASSUME NEW s \in Sessions, session' = [session EXCEPT ![s] = NoMail]
      PROVE  SessionTypeOK'
  BY <1>1, <1>2, <1>3, <1>5 DEF NoMail, SessionTypeOK
<1>6. ASSUME NEW s \in Sessions, NEW a \in Addresses, Lookup(s, a)
      PROVE  SessionTypeOK'
  <2> DEFINE gone  == [to |-> a, account |-> Anonymous, ip |-> None]
             owned == [to |-> a, account |-> AccountOf[a], ip |-> IpOf[a]]
  <2>0. gone \in Origin /\ owned \in Origin /\ gone.to = a /\ owned.to = a
    BY PipelineAssumption DEF Origin
  <2>1. PICK from \in {gone, owned} :
           session' = [session EXCEPT ![s] = [step |-> "insert", from |-> from, mail |-> 0]]
    BY <1>6 DEF Lookup
  <2> HIDE DEF gone, owned
  <2> QED
    BY <1>1, <1>2, <2>0, <2>1 DEF SessionTypeOK
<1>7. ASSUME NEW s \in Sessions, Insert(s)
      PROVE  SessionTypeOK'
  <2>1. /\ session[s].from \in Origin /\ session[s].from.to \in Addresses
        /\ received + 1 \in 0..received' /\ received + 1 # 0
    BY <1>1, <1>2, <1>7 DEF Insert, SessionTypeOK
  <2> QED
    BY <1>2, <1>7, <2>1 DEF Insert, SessionTypeOK
<1>8. ASSUME NEW s \in Sessions, UpdateAddress(s)
      PROVE  SessionTypeOK'
  <2>1. /\ session[s].from \in Origin /\ session[s].from.to \in Addresses
        /\ session[s].mail \in 0..received' /\ session[s].mail # 0
    BY <1>1, <1>2, <1>8 DEF UpdateAddress, SessionTypeOK
  <2> QED
    BY <1>2, <1>8, <2>1 DEF UpdateAddress, SessionTypeOK
<1>9. ASSUME NEW s \in Sessions, Delay(s) \/ DeliveryFails(s)
      PROVE  SessionTypeOK'
  BY <1>5, <1>9 DEF Delay, DeliveryFails
<1>10. ASSUME NEW w \in Workers, Take(w) \/ Work(w) \/ Trouble(w)
       PROVE  UNCHANGED session
  BY <1>10 DEF Take, Trouble, Fault, ClaimFails, ExceptFails, Crash, Work, ClaimWon,
     ClaimLost, Consume, QuotaStep,
     QuotaCharge, DenyMail, DenyAddress, MarkProcessing, Analyze, Publish, Finish,
     ExceptMail, ExceptAddress, processes
<1>11. ASSUME NEW p \in Pollers, NEW e \in Mails, Check(p, e)
       PROVE  UNCHANGED session
  BY <1>11 DEF Check, CheckBlocked, CheckUnclaimed
<1>12. ASSUME NEW p \in Pollers, Answer(p) \/ CheckFails(p)
       PROVE  UNCHANGED session
  BY <1>12 DEF Answer, CheckQuota, CheckClear, CheckDelay, CheckFails
<1>13. ASSUME NEW a \in Addresses, Expire(a)
       PROVE  UNCHANGED session
  BY <1>13 DEF Expire, processes
<1>14. CASE Midnight \/ UNCHANGED vars
  BY <1>4, <1>14 DEF Midnight, vars, processes
<1> QED
  BY <1>4, <1>6, <1>7, <1>8, <1>9, <1>10, <1>11, <1>12, <1>13, <1>14 DEF Next, Ingest

(* A /check request in the middle of something has a stored mail. *)
LEMMA PollerTypeStep == TypeOK /\ [Next]_vars => PollerTypeOK'
<1> SUFFICES ASSUME TypeOK, [Next]_vars
             PROVE  PollerTypeOK'
  OBVIOUS
<1>1. /\ received \in Nat /\ received' \in Nat /\ received <= received'
      /\ 0..received \subseteq 0..received'
  BY MailTypeStep, PipelineAssumption DEF TypeOK, MailTypeOK
<1>2. /\ poller \in [Pollers -> [step : {"idle", "quota", "clear", "delay"},
                                 mail : 0..received', started : BOOLEAN]]
      /\ PollerTypeOK
  BY <1>1 DEF TypeOK, PollerTypeOK
<1>3. CASE UNCHANGED poller
  BY <1>2, <1>3 DEF PollerTypeOK
<1>4. ASSUME NEW p \in Pollers, poller' = [poller EXCEPT ![p] = NoCheck]
      PROVE  PollerTypeOK'
  BY <1>1, <1>2, <1>4 DEF NoCheck, PollerTypeOK
<1>5. ASSUME NEW p \in Pollers, NEW step \in {"quota", "clear", "delay"},
             NEW e \in 1..received, NEW b \in BOOLEAN,
             poller' = [poller EXCEPT ![p] = [step |-> step, mail |-> e, started |-> b]]
      PROVE  PollerTypeOK'
  BY <1>1, <1>2, <1>5 DEF PollerTypeOK
<1>6. ASSUME NEW p \in Pollers, NEW e \in Mails, Check(p, e)
      PROVE  PollerTypeOK'
  <2>1. e \in 1..received /\ started[e] \in BOOLEAN
    BY <1>6 DEF Check, CheckBlocked, CheckUnclaimed, Newest, TypeOK, MailTypeOK
  <2> QED
    BY <1>5, <1>6, <2>1 DEF Check, CheckBlocked, CheckUnclaimed
<1>7. ASSUME NEW p \in Pollers, Answer(p) \/ CheckFails(p)
      PROVE  PollerTypeOK'
  <2>1. CASE poller' = [poller EXCEPT ![p] = NoCheck]
    BY <1>4, <2>1
  <2>2. CASE CheckQuota(p) \/ CheckClear(p)
    <3>1. /\ poller[p].mail \in 1..received
          /\ poller[p].started \in BOOLEAN
      BY <1>1, <2>2 DEF CheckQuota, CheckClear, TypeOK, PollerTypeOK
    <3>2. CASE poller' = [poller EXCEPT ![p] = CheckGoesTo(p, "clear")]
      BY <1>5, <3>1, <3>2 DEF CheckGoesTo
    <3>3. CASE poller' = [poller EXCEPT ![p] = CheckGoesTo(p, "delay")]
      BY <1>5, <3>1, <3>3 DEF CheckGoesTo
    <3> QED
      BY <2>1, <2>2, <3>2, <3>3 DEF CheckQuota, CheckClear
  <2> QED
    BY <1>7, <2>1, <2>2 DEF Answer, CheckDelay, CheckFails
<1>8. ASSUME NEW w \in Workers, Take(w) \/ Work(w) \/ Trouble(w)
      PROVE  UNCHANGED poller
  BY <1>8 DEF Take, Trouble, Fault, ClaimFails, ExceptFails, Crash, Work, ClaimWon,
     ClaimLost, Consume, QuotaStep,
     QuotaCharge, DenyMail, DenyAddress, MarkProcessing, Analyze, Publish, Finish,
     ExceptMail, ExceptAddress, processes
<1>9. ASSUME NEW s \in Sessions,
Ingest(s) \/ DeliveryFails(s) \/ \E a \in Addresses : Lookup(s, a)
      PROVE  UNCHANGED poller
  BY <1>9 DEF Ingest, Insert, UpdateAddress, Delay, DeliveryFails, Lookup
<1>10. ASSUME NEW a \in Addresses, Expire(a)
       PROVE  UNCHANGED poller
  BY <1>10 DEF Expire, processes
<1>11. CASE Midnight \/ UNCHANGED vars
  BY <1>3, <1>11 DEF Midnight, vars, processes
<1> QED
  BY <1>3, <1>6, <1>7, <1>8, <1>9, <1>10, <1>11 DEF Next

(* The call of a worker after one of its budget steps, and that no step    *)
(* touches the call of another worker.                                     *)
LEMMA CallAfter ==
    ASSUME TypeOK, NEW w \in Workers
    PROVE  /\ Consume(w) => /\ call'[w].step \in {"read", "count"}
                            /\ call'[w].holder = origin[worker[w].mail].account
                            /\ call'[w].step = "count" <=> call'[w].holder = Anonymous
           /\ QuotaStep(w) \/ QuotaCharge(w) =>
                  /\ call'[w].step \in {"reset", "check", "allowed", "denied"}
                  /\ call'[w].holder = call[w].holder
           /\ DenyMail(w) \/ MarkProcessing(w) \/ Fault(w) \/ Crash(w) =>
                  call'[w].step = "idle"
           /\ Consume(w) \/ QuotaStep(w) \/ QuotaCharge(w) \/ DenyMail(w)
                 \/ MarkProcessing(w) \/ Fault(w) \/ Crash(w) =>
                  \A v \in Workers \ {w} : call'[v] = call[v]
<1> USE DEF Workers
<1>1. QuotaTypeOK
  BY DEF TypeOK
<1>2. ASSUME Consume(w)
      PROVE  /\ call'[w].step \in {"read", "count"}
             /\ call'[w].holder = origin[worker[w].mail].account
             /\ call'[w].step = "count" <=> call'[w].holder = Anonymous
             /\ \A v \in Workers \ {w} : call'[v] = call[v]
  BY <1>1, <1>2 DEF Consume, Begin, QuotaTypeOK
<1>3. ASSUME QuotaStep(w) \/ QuotaCharge(w)
      PROVE  /\ call'[w].step \in {"reset", "check", "allowed", "denied"}
             /\ call'[w].holder = call[w].holder
             /\ \A v \in Workers \ {w} : call'[v] = call[v]
  <2>1. (AnonymousUsage(origin[worker[w].mail].ip, call[w].now) < AnonLimit) \in BOOLEAN
    OBVIOUS
  <2>2. PICK free \in BOOLEAN : Read(w) \/ Reset(w) \/ Refuse(w) \/ CountAnonymous(w, free) \/ Charge(w)
    BY <1>3, <2>1 DEF QuotaStep, QuotaCharge
  <2> QED
    BY <1>1, <2>2, CallFrame, CallSteps
<1>4. ASSUME Leave(w) \/ AbandonCall(w)
      PROVE  /\ call'[w].step = "idle"
             /\ \A v \in Workers \ {w} : call'[v] = call[v]
  BY <1>1, <1>4 DEF Leave, AbandonCall, Idle, QuotaTypeOK, quotaVars
<1> QED
  BY <1>2, <1>3, <1>4 DEF DenyMail, MarkProcessing, Fault, Crash

(* A worker with a task has a stored mail, and is in a call to             *)
(* consume_daily_quota exactly while it waits for its verdict.              *)
LEMMA WorkerTypeStep == TypeOK /\ [Next]_vars => WorkerTypeOK'
<1> SUFFICES ASSUME TypeOK, [Next]_vars
             PROVE  WorkerTypeOK'
  OBVIOUS
<1> USE DEF At
<1>1. /\ received \in Nat /\ received' \in Nat /\ received <= received'
      /\ 0..received \subseteq 0..received'
  BY MailTypeStep, PipelineAssumption DEF TypeOK, MailTypeOK
<1>2. /\ worker \in [Workers -> [step : WorkerStep, mail : 0..received']]
      /\ WorkerTypeOK
  BY <1>1 DEF TypeOK, WorkerTypeOK
<1>3. CASE UNCHANGED <<worker, call>>
  BY <1>2, <1>3 DEF WorkerTypeOK
<1>4. ASSUME NEW w \in Workers, NEW step \in WorkerStep, NEW e \in 0..received',
             worker' = [worker EXCEPT ![w] = [step |-> step, mail |-> e]],
             e = 0 <=> step = "idle",
             call'[w].step = "idle" <=> step # "quota",
             \A v \in Workers \ {w} : call'[v] = call[v]
      PROVE  WorkerTypeOK'
  BY <1>2, <1>4 DEF WorkerTypeOK
<1>5. ASSUME NEW w \in Workers, NEW step \in WorkerStep, ~At(w, "idle"), step # "idle",
             GoTo(w, step),
             call'[w].step = "idle" <=> step # "quota",
             \A v \in Workers \ {w} : call'[v] = call[v]
      PROVE  WorkerTypeOK'
  <2>1. worker[w].mail \in 0..received' /\ worker[w].mail # 0
    BY <1>2, <1>5 DEF WorkerTypeOK
  <2> QED
    BY <1>4, <1>5, <2>1 DEF GoTo
<1>6. ASSUME NEW w \in Workers, EndTask(w), call'[w].step = "idle",
             \A v \in Workers \ {w} : call'[v] = call[v]
      PROVE  WorkerTypeOK'
  <2>1. "idle" \in WorkerStep /\ 0 \in 0..received'
    BY <1>1 DEF WorkerStep
  <2>2. worker' = [worker EXCEPT ![w] = [step |-> "idle", mail |-> 0]]
    BY <1>6 DEF EndTask, NoTask
  <2> QED
    BY <1>4, <1>6, <2>1, <2>2
<1> USE DEF WorkerStep, TryStep
<1>7. ASSUME NEW w \in Workers, Take(w)
      PROVE  WorkerTypeOK'
  <2>1. Head(queue) \in 1..received
    <3>1. queue \in Seq(1..received) /\ queue # <<>>
      BY <1>7 DEF Take, TypeOK, BrokerTypeOK
    <3> QED
      BY <3>1, HeadTailProperties
  <2>2. call' = call /\ call[w].step = "idle"
    BY <1>2, <1>7 DEF Take, quotaVars, WorkerTypeOK
  <2> QED
    <3>1. PICK e \in 1..received :
             worker' = [worker EXCEPT ![w] = [step |-> "claim", mail |-> e]]
      <4>1. worker' = [worker EXCEPT ![w] = [step |-> "claim", mail |-> Head(queue)]]
        BY <1>7 DEF Take
      <4> QED
        BY <2>1, <4>1, Zenon
    <3>2. "claim" \in WorkerStep /\ e \in 0..received' /\ e # 0
      BY <1>1
    <3> HIDE DEF WorkerStep
    <3> QED
      BY <1>4, <2>2, <3>1, <3>2
<1>8. ASSUME NEW w \in Workers, ClaimWon(w) \/ Analyze(w) \/ Publish(w) \/ ExceptMail(w)
      PROVE  WorkerTypeOK'
  <2>1. call' = call /\ call[w].step = "idle"
    BY <1>2, <1>8 DEF ClaimWon, Analyze, Publish, ExceptMail, quotaVars, WorkerTypeOK
  <2> QED
    BY <1>5, <1>8, <2>1 DEF ClaimWon, Analyze, Publish, ExceptMail
<1>9. ASSUME NEW w \in Workers,
             \/ ClaimLost(w) \/ DenyAddress(w) \/ Finish(w) \/ ExceptAddress(w)
             \/ ClaimFails(w) \/ ExceptFails(w)
      PROVE  WorkerTypeOK'
  <2>1. call' = call /\ call[w].step = "idle"
    BY <1>2, <1>9 DEF ClaimLost, DenyAddress, Finish, ExceptAddress, ClaimFails, ExceptFails,
                      quotaVars, WorkerTypeOK
  <2> QED
    BY <1>6, <1>9, <2>1 DEF ClaimLost, DenyAddress, Finish, ExceptAddress, ClaimFails,
       ExceptFails
<1>10. ASSUME NEW w \in Workers, Consume(w)
       PROVE  WorkerTypeOK'
  BY <1>5, <1>10, CallAfter DEF Consume
<1>11. ASSUME NEW w \in Workers, QuotaStep(w) \/ QuotaCharge(w)
       PROVE  WorkerTypeOK'
  <2>1. /\ UNCHANGED worker /\ worker[w].step = "quota" /\ call'[w].step # "idle"
        /\ \A v \in Workers \ {w} : call'[v] = call[v]
    BY <1>11, CallAfter DEF QuotaStep, QuotaCharge, processes
  <2> QED
    BY <1>2, <2>1 DEF WorkerTypeOK
<1>12. ASSUME NEW w \in Workers, DenyMail(w) \/ MarkProcessing(w)
       PROVE  WorkerTypeOK'
  BY <1>5, <1>12, CallAfter DEF DenyMail, MarkProcessing
<1>13. ASSUME NEW w \in Workers, Fault(w)
       PROVE  WorkerTypeOK'
  BY <1>5, <1>13, CallAfter DEF Fault
<1>14. ASSUME NEW w \in Workers, Crash(w)
       PROVE  WorkerTypeOK'
  BY <1>6, <1>14, CallAfter DEF Crash
<1>15. ASSUME NEW p \in Pollers, NEW e \in Mails, Check(p, e)
       PROVE  UNCHANGED <<worker, call>>
  BY <1>15 DEF Check, CheckBlocked, CheckUnclaimed, quotaVars
<1>16. ASSUME NEW p \in Pollers, Answer(p) \/ CheckFails(p)
       PROVE  UNCHANGED <<worker, call>>
  BY <1>16 DEF Answer, CheckQuota, CheckClear, CheckDelay, CheckFails, quotaVars
<1>17. ASSUME NEW s \in Sessions,
Ingest(s) \/ DeliveryFails(s) \/ \E a \in Addresses : Lookup(s, a)
       PROVE  UNCHANGED <<worker, call>>
  BY <1>17 DEF Ingest, Insert, UpdateAddress, Delay, DeliveryFails, Lookup, quotaVars
<1>18. ASSUME NEW a \in Addresses, Expire(a)
       PROVE  UNCHANGED <<worker, call>>
  BY <1>18 DEF Expire, processes, quotaVars
<1>19. CASE Midnight \/ UNCHANGED vars
  BY <1>3, <1>19 DEF Midnight, NextDay, vars, processes, quotaVars
<1> QED
  BY <1>3, <1>7, <1>8, <1>9, <1>10, <1>11, <1>12, <1>13, <1>14, <1>15, <1>16, <1>17,
     <1>18, <1>19
     DEF Next, Work, Trouble

(* The counts of troubles stay naturals: an exception is reclassified only *)
(* where one was counted.                                                  *)
LEMMA TroublesStep == TypeOK /\ [Next]_vars => ({faults, broken, lost} \subseteq Nat)'
<1> SUFFICES ASSUME {faults, broken, lost} \subseteq Nat, Next
             PROVE  ({faults, broken, lost} \subseteq Nat)'
  BY DEF TypeOK, vars, troubles
<1> USE DEF troubles
<1>1. ASSUME NEW s \in Sessions,
Ingest(s) \/ DeliveryFails(s) \/ \E a \in Addresses : Lookup(s, a)
      PROVE  ({faults, broken, lost} \subseteq Nat)'
  BY <1>1 DEF Ingest, Insert, UpdateAddress, Delay, DeliveryFails, Lookup
<1>2. ASSUME NEW w \in Workers, Take(w) \/ Trouble(w)
      PROVE  ({faults, broken, lost} \subseteq Nat)'
  BY <1>2 DEF Take, Trouble, Fault, ClaimFails, ExceptFails, Crash
<1>3. ASSUME NEW w \in Workers, Work(w)
      PROVE  UNCHANGED troubles
  BY <1>3 DEF Work, ClaimWon, ClaimLost, Consume, QuotaStep, QuotaCharge, DenyMail,
     DenyAddress,
     MarkProcessing, Analyze, Publish, Finish, ExceptMail, ExceptAddress
<1>4. ASSUME NEW p \in Pollers, Answer(p) \/ CheckFails(p) \/ \E e \in Mails : Check(p, e)
      PROVE  ({faults, broken, lost} \subseteq Nat)'
  BY <1>4 DEF Answer, CheckQuota, CheckClear, CheckDelay, CheckFails, Check, CheckBlocked,
     CheckUnclaimed
<1>5. ASSUME NEW a \in Addresses, Expire(a)
      PROVE  UNCHANGED troubles
  BY <1>5 DEF Expire
<1>6. CASE Midnight
  BY <1>6 DEF Midnight
<1> QED
  BY <1>1, <1>2, <1>3, <1>4, <1>5, <1>6 DEF Next

(* Every process, document and queue entry of the pipeline keeps its type, *)
(* and no process works on a mail that is not stored.                      *)
THEOREM PipelineTyped == Spec => []TypeOK
<1>1. Init => TypeOK
  BY PipelineAssumption, QuotaAssumption
  DEF Init, QuotaInit, TypeOK, QuotaTypeOK, QuotaRecord, CallRecord, Idle, MailTypeOK, Origin,
      NoOrigin, BrokerTypeOK, SessionTypeOK, NoMail, WorkerTypeOK, NoTask, WorkerStep,
      TryStep, At,
      PollerTypeOK, NoCheck, Mails, Workers
<1>2. TypeOK /\ [Next]_vars => TypeOK'
  BY QuotaSteps, QuotaTypeStep, MailTypeStep, BrokerTypeStep, SessionTypeStep, WorkerTypeStep,
     PollerTypeStep, TroublesStep DEF TypeOK
<1> QED
  BY <1>1, <1>2, PTL DEF Spec
=============================================================================
