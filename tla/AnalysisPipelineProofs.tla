----------------------- MODULE AnalysisPipelineProofs -----------------------
(* What holds of the pipeline whatever its processes, addresses, mails and *)
(* troubles are: a mail is analysed by one worker at a time, charged at    *)
(* most once and reported at most once, it goes through the life           *)
(* MailReport describes, it is left unattended only by a trouble, and an   *)
(* anonymous IP overruns its limit by less than the number of workers.     *)
EXTENDS AnalysisPipelineTypes

(* The inductive invariant: the safety properties, what each statement     *)
(* implies of the mail in hand, and that only stored mails are claimed.    *)
OnlyStored == \A e \in Mails : e > received => ~started[e]

SafetyInv ==
    /\ OneReport
    /\ ExclusiveWork
    /\ PaidOnce
    /\ OpenUnpaid
    /\ ReportBacked
    /\ WorkProgress
    /\ OnlyStored

mailFacts == <<received, origin, started, reported, reports, charged>>

(* A step that changes nothing of the mails and gives nobody a new mail to *)
(* hold keeps the invariant.                                               *)
LEMMA SafetyKept ==
    ASSUME TypeOK, SafetyInv, UNCHANGED mailFacts,
           \A v \in Workers, e \in Mails :
              Holds(v, e)' => worker'[v] = worker[v] /\ call'[v] = call[v]
    PROVE  SafetyInv'
<1>1. \A v \in Workers, e \in Mails : Holds(v, e)' => Holds(v, e)
  BY DEF Holds
<1>2. OneReport' /\ PaidOnce' /\ OpenUnpaid' /\ ReportBacked' /\ OnlyStored'
  BY DEF SafetyInv, OneReport, PaidOnce, OpenUnpaid, ReportBacked, OnlyStored, mailFacts
<1>3. ExclusiveWork'
  BY <1>1 DEF SafetyInv, ExclusiveWork, mailFacts
<1>4. WorkProgress'
  BY <1>1 DEF SafetyInv, WorkProgress, WorkState, mailFacts, At
<1> QED
  BY <1>2, <1>3, <1>4 DEF SafetyInv

(* GoTo and EndTask move one worker. *)
LEMMA WorkerMoves ==
    ASSUME TypeOK, NEW w \in Workers
    PROVE  /\ EndTask(w) => /\ worker'[w] = NoTask
                            /\ \A v \in Workers \ {w} : worker'[v] = worker[v]
           /\ \A step : GoTo(w, step) =>
                  /\ worker'[w].step = step /\ worker'[w].mail = worker[w].mail
                  /\ \A v \in Workers \ {w} : worker'[v] = worker[v]
  BY DEF TypeOK, WorkerTypeOK, EndTask, GoTo

(* The mail of a working worker is stored; only the budget steps and the   *)
(* ends of a task move a call.                                             *)
LEMMA MailInHand ==
    ASSUME TypeOK, NEW w \in Workers, ~At(w, "idle")
    PROVE  worker[w].mail \in Mails /\ worker[w].mail <= received
  BY PipelineAssumption DEF TypeOK, WorkerTypeOK, MailTypeOK, Mails

(* The steps of the other processes keep the invariant. *)
LEMMA SafetyBystanders ==
    ASSUME TypeOK, SafetyInv, [Next]_vars,
           ~\E s \in Sessions : Insert(s),
           ~\E w \in Workers : Take(w) \/ Work(w) \/ Trouble(w)
    PROVE  SafetyInv'
<1>1. ASSUME NEW s \in Sessions, UpdateAddress(s) \/ Delay(s) \/ DeliveryFails(s)
                                 \/ \E a \in Addresses : Lookup(s, a)
      PROVE  UNCHANGED <<mailFacts, worker, call>>
  BY <1>1 DEF UpdateAddress, Delay, DeliveryFails, Lookup, mailFacts, mailVars, quotaVars
<1>2. ASSUME NEW p \in Pollers, Answer(p) \/ CheckFails(p) \/ \E e \in Mails : Check(p, e)
      PROVE  UNCHANGED <<mailFacts, worker, call>>
  BY <1>2 DEF Answer, CheckQuota, CheckClear, CheckDelay, CheckFails, Check, CheckBlocked,
     CheckUnclaimed, mailFacts, mailVars, quotaVars
<1>3. ASSUME NEW a \in Addresses, Expire(a)
      PROVE  UNCHANGED <<mailFacts, worker, call>>
  BY <1>3 DEF Expire, mailFacts, mailVars, quotaVars, processes
<1>4. CASE Midnight \/ UNCHANGED vars
  BY <1>4, SafetyKept DEF Midnight, NextDay, vars, mailFacts, mailVars, quotaVars, processes
<1>5. CASE UNCHANGED <<mailFacts, worker, call>>
  BY <1>5, SafetyKept
<1> QED
  BY <1>1, <1>2, <1>3, <1>4, <1>5 DEF Next, Ingest

(* Taking a task, losing the claim, and every end of a task leave the      *)
(* worker with nothing to hold.                                            *)
LEMMA SafetyHandsOff ==
    ASSUME TypeOK, SafetyInv, NEW w \in Workers,
           \/ Take(w) \/ ClaimLost(w) \/ DenyAddress(w) \/ Finish(w)
           \/ Fault(w) \/ ExceptMail(w) \/ ExceptAddress(w) \/ ExceptFails(w) \/ Crash(w)
    PROVE  SafetyInv'
<1>1. UNCHANGED mailFacts
  BY DEF Take, ClaimLost, DenyAddress, Finish, Fault, ExceptMail, ExceptAddress, ExceptFails,
     Crash, mailFacts, mailVars
<1>2. \A v \in Workers \ {w} : worker'[v] = worker[v]
  BY WorkerMoves DEF Take, ClaimLost, DenyAddress, Finish, Fault, ExceptMail, ExceptAddress,
     ExceptFails, Crash, TypeOK, WorkerTypeOK
<1>3. worker'[w].step \in {"idle", "claim", "exceptMail", "exceptAddress"}
  BY WorkerMoves DEF Take, ClaimLost, DenyAddress, Finish, Fault, ExceptMail, ExceptAddress,
     ExceptFails, Crash, NoTask, TypeOK, WorkerTypeOK
<1>4. \A v \in Workers \ {w} : call'[v] = call[v]
  <2>1. CASE Fault(w) \/ Crash(w)
    BY <2>1, CallAfter
  <2>2. CASE ~(Fault(w) \/ Crash(w))
    BY <2>2 DEF Take, ClaimLost, DenyAddress, Finish, ExceptMail, ExceptAddress, ExceptFails,
                quotaVars
  <2> QED
    BY <2>1, <2>2
<1>5. \A e \in Mails : ~Holds(w, e)'
  BY <1>3 DEF Holds
<1> QED
  BY <1>1, <1>2, <1>4, <1>5, SafetyKept

(* claim_mail_event: nobody held the mail, and it was neither charged nor  *)
(* reported.                                                               *)
LEMMA SafetyClaim ==
    ASSUME TypeOK, TypeOK', SafetyInv, NEW w \in Workers, ClaimWon(w)
    PROVE  SafetyInv'
<1> DEFINE m == worker[w].mail
<1>1. m \in Mails /\ m <= received /\ ~started[m] /\ At(w, "claim")
  BY MailInHand DEF ClaimWon, At
<1>2. /\ \A e \in Mails : started'[e] <=> (started[e] \/ e = m)
      /\ UNCHANGED <<received, origin, reported, reports, charged, call>>
  BY <1>1 DEF ClaimWon, quotaVars, TypeOK, MailTypeOK
<1>3. /\ worker'[w].step = "consume" /\ worker'[w].mail = m
      /\ \A v \in Workers \ {w} : worker'[v] = worker[v]
  BY WorkerMoves DEF ClaimWon
<1>4. \A v \in Workers, e \in Mails :
         /\ Holds(v, e)' <=> (v = w /\ e = m) \/ (v # w /\ Holds(v, e))
         /\ Holds(v, e) => e # m /\ v # w
  <2>1. \A v \in Workers : ~Holds(v, m)
    BY <1>1 DEF SafetyInv, ExclusiveWork
  <2>2. \A e \in Mails : ~Holds(w, e)
    BY <1>1 DEF Holds, At
  <2> QED
    BY <1>3, <2>1, <2>2 DEF Holds
<1>5. OneReport' /\ PaidOnce' /\ OpenUnpaid' /\ ReportBacked' /\ OnlyStored'
  <2>1. OneReport' /\ PaidOnce' /\ ReportBacked'
    BY <1>2 DEF SafetyInv, OneReport, PaidOnce, ReportBacked
  <2>2. OpenUnpaid'
    BY <1>2 DEF SafetyInv, OpenUnpaid
  <2>3. \A e \in Mails : e > received => e # m
    <3>1. received \in Nat /\ m \in Nat
      BY <1>1, PipelineAssumption DEF Mails, TypeOK, MailTypeOK
    <3>2. ~(m > received)
      BY <1>1, <3>1
    <3> QED
      BY <3>2
  <2>4. OnlyStored'
    BY <1>2, <2>3 DEF SafetyInv, OnlyStored
  <2> QED
    BY <2>1, <2>2, <2>4
<1>6. ExclusiveWork'
  BY <1>2, <1>4 DEF SafetyInv, ExclusiveWork
<1>7. WorkProgress'
  <2> SUFFICES ASSUME NEW v \in Workers, NEW e \in Mails, Holds(v, e)'
               PROVE  WorkState(v, e)'
    BY DEF WorkProgress
  <2> QED
    BY <1>1, <1>2, <1>3, <1>4 DEF SafetyInv, WorkProgress, OpenUnpaid, ReportBacked, At,
       WorkState
<1> QED
  BY <1>5, <1>6, <1>7 DEF SafetyInv

(* A claim that raises may have been made, but gives nobody a mail to hold. *)
LEMMA SafetyClaimFails ==
    ASSUME TypeOK, SafetyInv, NEW w \in Workers, ClaimFails(w)
    PROVE  SafetyInv'
<1> DEFINE m == worker[w].mail
<1>1. m \in Mails /\ m <= received
  BY MailInHand DEF ClaimFails, At
<1>2. /\ \A e \in Mails : started[e] => started'[e]
      /\ \A e \in Mails \ {m} : started'[e] = started[e]
      /\ UNCHANGED <<received, origin, reported, reports, charged, call>>
  BY <1>1 DEF ClaimFails, quotaVars, TypeOK, MailTypeOK
<1>3. \A v \in Workers, e \in Mails : Holds(v, e)' => v # w /\ worker'[v] = worker[v] /\ Holds(v, e)
  BY WorkerMoves DEF ClaimFails, NoTask, Holds
<1>4. OneReport' /\ PaidOnce' /\ OpenUnpaid' /\ ReportBacked'
  BY <1>2 DEF SafetyInv, OneReport, PaidOnce, OpenUnpaid, ReportBacked
<1>5. OnlyStored'
  <2>1. received \in Nat /\ \A e \in Mails : e > received => e # m
    BY <1>1 DEF Mails, TypeOK, MailTypeOK
  <2> QED
    BY <1>2, <2>1 DEF SafetyInv, OnlyStored
<1>6. ExclusiveWork'
  BY <1>2, <1>3 DEF SafetyInv, ExclusiveWork
<1>7. WorkProgress'
  BY <1>2, <1>3 DEF SafetyInv, WorkProgress, WorkState, At
<1> QED
  BY <1>4, <1>5, <1>6, <1>7 DEF SafetyInv

(* The mail a worker holds is its own, claimed, and where WorkState says.  *)
LEMMA HeldAlone ==
    ASSUME TypeOK, SafetyInv, NEW w \in Workers,
           worker[w].step \in {"consume", "quota", "analyze", "publish", "finish"}
    PROVE  LET m == worker[w].mail
           IN /\ m \in Mails
              /\ started[m]
              /\ Holds(w, m)
              /\ WorkState(w, m)
              /\ \A v \in Workers \ {w} : ~Holds(v, m)
              /\ \A e \in Mails : Holds(w, e) => e = m
<1>1. worker[w].mail \in Mails
  BY MailInHand DEF At
<1> QED
  BY <1>1 DEF Holds, SafetyInv, ExclusiveWork, WorkProgress

(* A step of the worker that holds m, and goes on holding it, keeps the    *)
(* invariant if it leaves the other mails alone and what it writes to m    *)
(* agrees with its next statement.                                         *)
LEMMA SafetyOwnMail ==
    ASSUME TypeOK, SafetyInv, NEW w \in Workers, NEW m \in Mails,
           Holds(w, m), Holds(w, m)', WorkState(w, m)',
           UNCHANGED <<received, origin, started>>,
           \A v \in Workers \ {w} : worker'[v] = worker[v] /\ call'[v] = call[v],
           \A e \in Mails \ {m} : /\ reported'[e] = reported[e] /\ reports'[e] = reports[e]
                                  /\ charged'[e] = charged[e],
           reports'[m] <= 1, charged'[m] <= 1,
           origin[m].account # Anonymous => reports'[m] <= charged'[m],
           reported'[m] => reports'[m] = 1
    PROVE  SafetyInv'
<1>1. /\ started[m]
      /\ \A v \in Workers \ {w} : ~Holds(v, m)
      /\ \A e \in Mails : Holds(w, e) => e = m
  BY DEF SafetyInv, ExclusiveWork, Holds
<1>2. \A v \in Workers, e \in Mails : Holds(v, e)' <=> Holds(v, e)
  BY <1>1 DEF Holds
<1>3. OneReport' /\ PaidOnce' /\ ReportBacked'
  BY DEF SafetyInv, OneReport, PaidOnce, ReportBacked
<1>4. OpenUnpaid' /\ OnlyStored'
  BY <1>1 DEF SafetyInv, OpenUnpaid, OnlyStored
<1>5. ExclusiveWork'
  BY <1>2 DEF SafetyInv, ExclusiveWork
<1>6. WorkProgress'
  <2> SUFFICES ASSUME NEW v \in Workers, NEW e \in Mails, Holds(v, e)'
               PROVE  WorkState(v, e)'
    BY DEF WorkProgress
  <2>1. CASE v = w
    BY <1>1, <1>2, <2>1
  <2>2. CASE v # w
    <3>1. e # m /\ WorkState(v, e)
      BY <1>1, <1>2, <2>2 DEF SafetyInv, WorkProgress
    <3> QED
      BY <2>2, <3>1 DEF WorkState, At
  <2> QED
    BY <2>1, <2>2
<1> QED
  BY <1>3, <1>4, <1>5, <1>6 DEF SafetyInv

(* The call for the budget begins before anything was charged. *)
LEMMA SafetyConsume ==
    ASSUME TypeOK, SafetyInv, NEW w \in Workers, Consume(w)
    PROVE  SafetyInv'
<1> DEFINE m == worker[w].mail
<1>1. /\ At(w, "consume") /\ m \in Mails /\ started[m] /\ Holds(w, m) /\ WorkState(w, m)
  BY HeldAlone DEF Consume, At
<1>2. /\ worker'[w].step = "quota" /\ worker'[w].mail = m
      /\ \A v \in Workers \ {w} : worker'[v] = worker[v]
  BY WorkerMoves DEF Consume
<1>3. UNCHANGED mailFacts
  BY DEF Consume, mailFacts, mailVars
<1>4. Holds(w, m)' /\ WorkState(w, m)'
  BY <1>1, <1>2, <1>3, CallAfter DEF Holds, WorkState, At, mailFacts
<1> QED
  BY <1>1, <1>2, <1>3, <1>4, CallAfter, SafetyOwnMail
     DEF mailFacts, SafetyInv, OneReport, PaidOnce, ReportBacked

(* Inside the call, until the charge, nothing of the mail changes. *)
LEMMA SafetyQuotaStep ==
    ASSUME TypeOK, SafetyInv, NEW w \in Workers, QuotaStep(w)
    PROVE  SafetyInv'
<1> DEFINE m == worker[w].mail
<1>1. /\ At(w, "quota") /\ m \in Mails /\ started[m] /\ Holds(w, m) /\ WorkState(w, m)
  BY HeldAlone DEF QuotaStep, At
<1>2. UNCHANGED <<mailFacts, worker>>
  BY DEF QuotaStep, mailFacts, mailVars, processes
<1>3. /\ call[w].step # "allowed" /\ call'[w].step # "count"
      /\ call'[w].step = "allowed" => call[w].step = "count"
  <2>1. (AnonymousUsage(origin[worker[w].mail].ip, call[w].now) < AnonLimit) \in BOOLEAN
    OBVIOUS
  <2>2. PICK free \in BOOLEAN : Read(w) \/ Reset(w) \/ Refuse(w) \/ CountAnonymous(w, free)
    BY <2>1 DEF QuotaStep
  <2> QED
    BY <2>2, CallSteps DEF Read, Reset, Refuse, CountAnonymous, TypeOK, Workers
<1>4. Holds(w, m)' /\ WorkState(w, m)'
  BY <1>1, <1>2, <1>3, CallAfter DEF Holds, WorkState, At, mailFacts
<1> QED
  BY <1>1, <1>2, <1>4, CallAfter, SafetyOwnMail
     DEF mailFacts, SafetyInv, OneReport, PaidOnce, ReportBacked

(* The one charge of the mail in hand. *)
LEMMA SafetyCharge ==
    ASSUME TypeOK, SafetyInv, NEW w \in Workers, QuotaCharge(w)
    PROVE  SafetyInv'
<1> DEFINE m == worker[w].mail
<1>1. /\ At(w, "quota") /\ m \in Mails /\ started[m] /\ Holds(w, m) /\ WorkState(w, m)
  BY HeldAlone DEF QuotaCharge, At
<1>2. UNCHANGED <<received, origin, started, reported, reports, worker>>
  BY DEF QuotaCharge, mailVars, processes
<1>3. call[w].step = "check" /\ call'[w].step = "allowed" /\ call[w].holder # Anonymous
  BY CallSteps, QuotaAssumption DEF QuotaCharge, Charge, TypeOK, QuotaTypeOK, Workers
<1>4. /\ charged[m] = 0 /\ reports[m] = 0 /\ ~reported[m]
  BY <1>1, <1>3 DEF WorkState, At
<1>5. /\ charged'[m] = 1
      /\ \A e \in Mails \ {m} : charged'[e] = charged[e]
  BY <1>1, <1>4 DEF QuotaCharge, TypeOK, MailTypeOK
<1>6. Holds(w, m)' /\ WorkState(w, m)'
  BY <1>1, <1>2, <1>3, <1>5, CallAfter DEF Holds, WorkState, At
<1> QED
  BY <1>1, <1>2, <1>4, <1>5, <1>6, CallAfter, SafetyOwnMail

(* An allowed call has charged the account, if there is one. *)
LEMMA SafetyMark ==
    ASSUME TypeOK, SafetyInv, NEW w \in Workers, MarkProcessing(w)
    PROVE  SafetyInv'
<1> DEFINE m == worker[w].mail
<1>1. /\ At(w, "quota") /\ m \in Mails /\ started[m] /\ Holds(w, m) /\ WorkState(w, m)
      /\ call[w].step = "allowed"
  BY HeldAlone DEF MarkProcessing, At
<1>2. /\ worker'[w].step = "analyze" /\ worker'[w].mail = m
      /\ \A v \in Workers \ {w} : worker'[v] = worker[v]
  BY WorkerMoves DEF MarkProcessing
<1>3. UNCHANGED mailFacts
  BY DEF MarkProcessing, mailFacts, mailVars
<1>4. Holds(w, m)' /\ WorkState(w, m)'
  BY <1>1, <1>2, <1>3 DEF Holds, WorkState, At, mailFacts
<1> QED
  BY <1>1, <1>2, <1>3, <1>4, CallAfter, SafetyOwnMail
     DEF mailFacts, SafetyInv, OneReport, PaidOnce, ReportBacked

(* The one report of the mail in hand. *)
LEMMA SafetyAnalyze ==
    ASSUME TypeOK, SafetyInv, NEW w \in Workers, Analyze(w)
    PROVE  SafetyInv'
<1> DEFINE m == worker[w].mail
<1>1. /\ At(w, "analyze") /\ m \in Mails /\ started[m] /\ Holds(w, m) /\ WorkState(w, m)
  BY HeldAlone DEF Analyze, At
<1>2. /\ worker'[w].step = "publish" /\ worker'[w].mail = m
      /\ \A v \in Workers \ {w} : worker'[v] = worker[v]
  BY WorkerMoves DEF Analyze
<1>3. /\ UNCHANGED <<received, origin, started, reported, charged, call>>
      /\ charged[m] \in Nat /\ charged[m] <= 1
  BY <1>1 DEF Analyze, quotaVars, SafetyInv, PaidOnce, TypeOK, MailTypeOK
<1>4. /\ reports[m] = 0 /\ ~reported[m]
      /\ (charged[m] = 1 <=> origin[m].account # Anonymous)
  BY <1>1 DEF WorkState, At
<1>5. /\ reports'[m] = 1
      /\ \A e \in Mails \ {m} : reports'[e] = reports[e]
  BY <1>1, <1>4 DEF Analyze, TypeOK, MailTypeOK
<1>6. Holds(w, m)' /\ WorkState(w, m)'
  BY <1>1, <1>2, <1>3, <1>4, <1>5 DEF Holds, WorkState, At
<1> QED
  BY <1>1, <1>2, <1>3, <1>4, <1>5, <1>6, SafetyOwnMail

(* The mail names the report that was written for it. *)
LEMMA SafetyPublish ==
    ASSUME TypeOK, SafetyInv, NEW w \in Workers, Publish(w)
    PROVE  SafetyInv'
<1> DEFINE m == worker[w].mail
<1>1. /\ At(w, "publish") /\ m \in Mails /\ started[m] /\ Holds(w, m) /\ WorkState(w, m)
  BY HeldAlone DEF Publish, At
<1>2. /\ worker'[w].step = "finish" /\ worker'[w].mail = m
      /\ \A v \in Workers \ {w} : worker'[v] = worker[v]
  BY WorkerMoves DEF Publish
<1>3. UNCHANGED <<received, origin, started, reports, charged, call>>
  BY DEF Publish, quotaVars
<1>4. /\ reports[m] = 1
      /\ charged[m] <= 1 /\ (origin[m].account # Anonymous => reports[m] <= charged[m])
  BY <1>1 DEF WorkState, At, SafetyInv, PaidOnce
<1>5. /\ reported'[m]
      /\ \A e \in Mails \ {m} : reported'[e] = reported[e]
  BY <1>1 DEF Publish, TypeOK, MailTypeOK
<1>6. Holds(w, m)' /\ WorkState(w, m)'
  BY <1>1, <1>2, <1>3, <1>4, <1>5 DEF Holds, WorkState, At
<1> QED
  BY <1>1, <1>2, <1>3, <1>4, <1>5, <1>6, SafetyOwnMail

(* A denied mail is released uncharged and without a report. *)
LEMMA SafetyDeny ==
    ASSUME TypeOK, SafetyInv, NEW w \in Workers, DenyMail(w)
    PROVE  SafetyInv'
<1> DEFINE m == worker[w].mail
<1>1. /\ At(w, "quota") /\ m \in Mails /\ Holds(w, m) /\ WorkState(w, m)
      /\ call[w].step = "denied"
      /\ \A v \in Workers \ {w} : ~Holds(v, m)
  BY HeldAlone DEF DenyMail, At
<1>2. /\ worker'[w].step = "denyAddress"
      /\ \A v \in Workers \ {w} : worker'[v] = worker[v] /\ call'[v] = call[v]
  BY WorkerMoves, CallAfter DEF DenyMail
<1>3. UNCHANGED <<received, origin, reported, reports, charged>>
  BY DEF DenyMail
<1>4. charged[m] = 0 /\ reports[m] = 0
  BY <1>1 DEF WorkState, At
<1>5. \A e \in Mails : started'[e] <=> (started[e] /\ e # m)
  BY <1>1 DEF DenyMail, TypeOK, MailTypeOK
<1>6. \A v \in Workers, e \in Mails : Holds(v, e)' => v # w /\ e # m /\ Holds(v, e)
  BY <1>1, <1>2 DEF Holds
<1>7. OneReport' /\ PaidOnce' /\ ReportBacked'
  BY <1>3 DEF SafetyInv, OneReport, PaidOnce, ReportBacked
<1>8. OpenUnpaid' /\ OnlyStored'
  BY <1>3, <1>4, <1>5 DEF SafetyInv, OpenUnpaid, OnlyStored
<1>9. ExclusiveWork'
  BY <1>5, <1>6 DEF SafetyInv, ExclusiveWork
<1>10. WorkProgress'
  <2> SUFFICES ASSUME NEW v \in Workers, NEW e \in Mails, Holds(v, e)'
               PROVE  WorkState(v, e)'
    BY DEF WorkProgress
  <2>1. v # w /\ WorkState(v, e)
    BY <1>6 DEF SafetyInv, WorkProgress
  <2> QED
    BY <1>2, <1>3, <2>1 DEF WorkState, At
<1> QED
  BY <1>7, <1>8, <1>9, <1>10 DEF SafetyInv

(* A mail that is being stored was not claimed, charged or reported.       *)
LEMMA SafetyInsert ==
    ASSUME TypeOK, SafetyInv, NEW s \in Sessions, Insert(s)
    PROVE  SafetyInv'
<1> DEFINE n == received + 1
<1>1. /\ n \in Mails /\ received' = n /\ ~started[n] /\ charged[n] = 0 /\ reports[n] = 0
      /\ \A e \in Mails : e > n => e > received
  <2>1. received \in Nat /\ n \in Mails /\ received' = n
    BY PipelineAssumption DEF Insert, TypeOK, MailTypeOK, Mails
  <2> QED
    BY <2>1 DEF SafetyInv, OnlyStored, OpenUnpaid, Mails
<1>2. /\ UNCHANGED <<started, reported, reports, charged, worker, call>>
      /\ \A e \in Mails \ {n} : origin'[e] = origin[e]
  BY DEF Insert, quotaVars, TypeOK, MailTypeOK
<1>3. \A v \in Workers : ~Holds(v, n)
  BY <1>1 DEF SafetyInv, ExclusiveWork
<1>4. OneReport' /\ PaidOnce' /\ ReportBacked'
  BY <1>1, <1>2 DEF SafetyInv, OneReport, PaidOnce, ReportBacked
<1>5. OpenUnpaid' /\ OnlyStored'
  BY <1>1, <1>2 DEF SafetyInv, OpenUnpaid, OnlyStored
<1>6. ExclusiveWork'
  BY <1>2 DEF SafetyInv, ExclusiveWork, Holds
<1>7. WorkProgress'
  <2> SUFFICES ASSUME NEW v \in Workers, NEW e \in Mails, Holds(v, e)'
               PROVE  WorkState(v, e)'
    BY DEF WorkProgress
  <2>1. Holds(v, e) /\ e # n /\ WorkState(v, e)
    BY <1>2, <1>3 DEF Holds, SafetyInv, WorkProgress
  <2> QED
    BY <1>2, <2>1 DEF WorkState, At
<1> QED
  BY <1>4, <1>5, <1>6, <1>7 DEF SafetyInv

(* Every step keeps the invariant. *)
LEMMA SafetyStep == TypeOK /\ TypeOK' /\ SafetyInv /\ [Next]_vars => SafetyInv'
<1> SUFFICES ASSUME TypeOK, TypeOK', SafetyInv, [Next]_vars
             PROVE  SafetyInv'
  OBVIOUS
<1>1. ASSUME NEW w \in Workers, Work(w)
      PROVE  SafetyInv'
  BY <1>1, SafetyHandsOff, SafetyClaim, SafetyConsume, SafetyQuotaStep, SafetyCharge,
     SafetyDeny, SafetyMark, SafetyAnalyze, SafetyPublish DEF Work
<1>2. ASSUME NEW w \in Workers, Take(w) \/ Trouble(w)
      PROVE  SafetyInv'
  BY <1>2, SafetyHandsOff, SafetyClaimFails DEF Trouble
<1>3. ASSUME NEW s \in Sessions, Insert(s)
      PROVE  SafetyInv'
  BY <1>3, SafetyInsert
<1> QED
  BY <1>1, <1>2, <1>3, SafetyBystanders

(* The inductive invariant holds of the pipeline. *)
LEMMA PipelineSafe == Spec => [](TypeOK /\ SafetyInv)
<1>1. Init => SafetyInv
  BY DEF Init, SafetyInv, OneReport, ExclusiveWork, PaidOnce, OpenUnpaid, ReportBacked,
         WorkProgress, OnlyStored, Holds, NoTask
<1> QED
  BY <1>1, PipelineTyped, SafetyStep, PTL DEF Spec

(* However many workers, polls and copies of its task there are, and       *)
(* whatever breaks off, a mail never gets a second report.                 *)
THEOREM OneReportOnly == Spec => []OneReport
  BY PipelineSafe, PTL DEF SafetyInv

(* Two workers never analyse one mail at a time. *)
THEOREM WorkIsExclusive == Spec => []ExclusiveWork
  BY PipelineSafe, PTL DEF SafetyInv

(* An account is charged at most once for a mail, and never gets a report  *)
(* without a charge.                                                       *)
THEOREM ChargedOnce == Spec => []PaidOnce
  BY PipelineSafe, PTL DEF SafetyInv

(* What the quota releases was neither charged nor reported. *)
THEOREM ReleasedUnpaid == Spec => []OpenUnpaid
  BY PipelineSafe, PTL DEF SafetyInv

(* A mail that names a report has exactly one. *)
THEOREM ReportsExist == Spec => []ReportBacked
  BY PipelineSafe, PTL DEF SafetyInv

-----------------------------------------------------------------------------
(* The pipeline drives the budget records only as consume_daily_quota      *)
(* does, so what holds of DailyQuota holds of it.                          *)
THEOREM RefinesQuota == Spec => ImplementsQuota
<1>1. Init => QuotaInit
  BY DEF Init
<1> QED
  BY <1>1, PipelineTyped, QuotaSteps, PTL DEF Spec, ImplementsQuota, QuotaSpec

(* In the running pipeline the counter of an account or key overruns its   *)
(* limit by less than the number of workers.                               *)
THEOREM PipelineCounterBounded == Spec => []CounterBound
  BY RefinesQuota, CounterBounded, PTL DEF ImplementsQuota

(* With one worker process, the running pipeline keeps the documented      *)
(* daily limit of every account and key.                                   *)
THEOREM SerialPipelineBudget == Serial => (Spec => []DailyBudget)
  BY RefinesQuota, SerialBudget, PTL DEF ImplementsQuota

(* What holds of consume_daily_quota with one worker process holds of the  *)
(* running pipeline: a record never undercounts its day, ...               *)
THEOREM SerialPipelineCounter == Serial => (Spec => []CounterCoversGrants)
  BY RefinesQuota, SerialCounter, PTL DEF ImplementsQuota

(* ... and what is shown as remaining, while no call is running, is what   *)
(* will still be granted today.                                            *)
THEOREM SerialPipelineRemaining == Serial => (Spec => []RemainingHonest)
  BY RefinesQuota, SerialRemaining, PTL DEF ImplementsQuota

(* Any number of workers, whichever midnights fall into their calls, grant *)
(* an account or key no more of one day than concurrent callers can.       *)
THEOREM PipelineMidnightBounded == Spec => []MidnightBound
  BY RefinesQuota, MidnightBounded, PTL DEF ImplementsQuota

(* While no call of consume_daily_quota crosses midnight, the pipeline's   *)
(* workers overrun a daily limit by no more than concurrent callers can.   *)
THEOREM PipelineOverrunBounded == Spec => OverrunBound
  BY RefinesQuota, OverrunBounded, PTL DEF ImplementsQuota

(* A published report is final. *)
THEOREM ReportsFinal == Spec => ReportFinal
<1>1. TypeOK /\ SafetyInv /\ [Next]_vars => [ReportKept]_vars
  <2> SUFFICES ASSUME TypeOK, SafetyInv, [Next]_vars, NEW e \in Mails, reported[e]
               PROVE  /\ reported'[e] /\ reports'[e] = reports[e]
                      /\ analyzedOn'[e] = analyzedOn[e]
    BY DEF ReportKept
  <2>1. ASSUME NEW w \in Workers, Analyze(w)
        PROVE  /\ reported'[e] /\ reports'[e] = reports[e]
               /\ analyzedOn'[e] = analyzedOn[e]
    <3>1. worker[w].mail \in Mails /\ ~reported[worker[w].mail]
      BY <2>1, HeldAlone DEF Analyze, At, WorkState
    <3> QED
      BY <2>1, <3>1 DEF Analyze, TypeOK, MailTypeOK
  <2>2. ASSUME NEW w \in Workers, Publish(w)
        PROVE  /\ reported'[e] /\ reports'[e] = reports[e]
               /\ analyzedOn'[e] = analyzedOn[e]
    <3>1. worker[w].mail \in Mails /\ ~reported[worker[w].mail]
      BY <2>2, HeldAlone DEF Publish, At, WorkState
    <3> QED
      BY <2>2, <3>1 DEF Publish, TypeOK, MailTypeOK
  <2>3. ASSUME NEW w \in Workers,
               ClaimWon(w) \/ ClaimFails(w) \/ QuotaCharge(w) \/ DenyMail(w) \/ ExceptMail(w)
        PROVE  UNCHANGED <<reported, reports, analyzedOn>>
    BY <2>3 DEF ClaimWon, ClaimFails, QuotaCharge, DenyMail, ExceptMail, mailVars
  <2>4. ASSUME NEW s \in Sessions, Insert(s)
        PROVE  UNCHANGED <<reported, reports, analyzedOn>>
    BY <2>4 DEF Insert
  <2>5. ASSUME NEW p \in Pollers, CheckClear(p)
        PROVE  UNCHANGED <<reported, reports, analyzedOn>>
    BY <2>5 DEF CheckClear
  <2>6. CASE UNCHANGED mailVars
    BY <2>6 DEF mailVars
  <2> QED
    BY <2>1, <2>2, <2>3, <2>4, <2>5, <2>6, MailFrame DEF MailStep
<1> QED
  BY <1>1, PipelineSafe, PTL DEF Spec, ReportFinal

-----------------------------------------------------------------------------
(* A mail whose fields a step leaves alone stays where it is in its life. *)
LEMMA StageKept ==
    ASSUME NEW e \in Mails, (e > received)' <=> e > received,
           started'[e] = started[e], reported'[e] = reported[e], reports'[e] = reports[e]
    PROVE  StageOf(e)' = StageOf(e)
BY DEF StageOf

(* When one mail moves and the others stay, the abstract life moves. *)
LEMMA StageMoves ==
    ASSUME NEW m \in Mails, NEW from, NEW to, StageOf(m) = from, StageOf(m)' = to,
           \A e \in Mails \ {m} : StageOf(e)' = StageOf(e)
    PROVE  Report!Moves(m, from, to)
BY DEF Report!Moves, Stage

(* Storing a mail is its first step in the abstract life. *)
LEMMA ReceiveStep ==
    ASSUME TypeOK, TypeOK', SafetyInv, NEW s \in Sessions, Insert(s)
    PROVE  Report!ReportNext
<1>0. PICK n \in Mails : n = received + 1
  BY PipelineAssumption DEF Insert, TypeOK, MailTypeOK, Mails
<1>1. received' = n /\ n > received /\ n = received + 1 /\ received \in Nat
  BY <1>0, PipelineAssumption DEF Insert, TypeOK, MailTypeOK, Mails
<1>2. UNCHANGED <<started, reported, reports>>
  BY DEF Insert
<1>3. ~started[n] /\ reports[n] = 0 /\ ~reported[n]
  <2>1. ~started[n] /\ reports[n] = 0
    BY <1>1 DEF SafetyInv, OnlyStored, OpenUnpaid
  <2> QED
    BY <1>1, <2>1 DEF SafetyInv, ReportBacked
<1>4. StageOf(n) = "absent"
  BY <1>1 DEF StageOf
<1>5. StageOf(n)' = "open"
  BY <1>1, <1>2, <1>3 DEF StageOf
<1>6. \A e \in Mails \ {n} : StageOf(e)' = StageOf(e)
  <2> SUFFICES ASSUME NEW e \in Mails \ {n}
               PROVE  StageOf(e)' = StageOf(e)
    OBVIOUS
  <2>1. (e > received)' <=> e > received
    BY <1>1 DEF Mails
  <2> QED
    BY <1>2, <2>1, StageKept
<1>7. Report!Receive(n)
  BY <1>1, <1>2, <1>4, <1>5, <1>6, StageMoves DEF Report!Receive
<1> QED
  BY <1>1, <1>7 DEF Report!ReportNext

(* What a worker writes to the mail it holds moves that mail alone. *)
LEMMA OthersStay ==
    ASSUME TypeOK, NEW m \in Mails, UNCHANGED received,
           \A e \in Mails \ {m} : /\ started'[e] = started[e]
                                  /\ reported'[e] = reported[e]
                                  /\ reports'[e] = reports[e]
    PROVE  \A e \in Mails \ {m} : StageOf(e)' = StageOf(e)
BY StageKept

(* A worker's step is a step of the life of the mail it holds, or none. *)
LEMMA WorkStep ==
    ASSUME TypeOK, SafetyInv, NEW w \in Workers,
           \/ ClaimWon(w) \/ DenyMail(w) \/ Analyze(w) \/ Publish(w)
           \/ ClaimFails(w) /\ started' # started
    PROVE  Report!ReportNext
<1>1. PICK m \in Mails : m = worker[w].mail
  BY MailInHand DEF ClaimWon, ClaimFails, DenyMail, Analyze, Publish, At
<1>2. ~(m > received) /\ UNCHANGED received
  BY <1>1, PipelineAssumption
     DEF ClaimWon, ClaimFails, DenyMail, Analyze, Publish, TypeOK, MailTypeOK,
     WorkerTypeOK, Mails
<1>3. CASE ClaimWon(w) \/ (ClaimFails(w) /\ started' # started)
  <2>0. started' = [started EXCEPT ![m] = TRUE] /\ UNCHANGED <<reported, reports>>
    BY <1>1, <1>3 DEF ClaimWon, ClaimFails
  <2>1. /\ started' = [started EXCEPT ![m] = TRUE] /\ ~started[m]
        /\ UNCHANGED <<reported, reports>>
    BY <1>1, <1>3, <2>0 DEF ClaimWon, TypeOK, MailTypeOK
  <2>2. /\ started'[m]
        /\ \A e \in Mails \ {m} : started'[e] = started[e]
    BY <2>1 DEF TypeOK, MailTypeOK
  <2>3. reports[m] = 0 /\ ~reported[m]
    BY <2>1 DEF SafetyInv, OpenUnpaid, ReportBacked
  <2>4. StageOf(m) = "open" /\ StageOf(m)' = "claimed"
    BY <1>2, <2>1, <2>2, <2>3 DEF StageOf
  <2>5. Report!Claim(m)
    BY <1>2, <2>1, <2>2, <2>4, OthersStay, StageMoves DEF Report!Claim
  <2> QED
    BY <2>5 DEF Report!ReportNext
<1>4. CASE DenyMail(w)
  <2>1. /\ started' = [started EXCEPT ![m] = FALSE]
        /\ UNCHANGED <<reported, reports>>
    BY <1>1, <1>4 DEF DenyMail
  <2>2. /\ ~started'[m]
        /\ \A e \in Mails \ {m} : started'[e] = started[e]
    BY <2>1 DEF TypeOK, MailTypeOK
  <2>3. started[m] /\ reports[m] = 0 /\ ~reported[m]
    BY <1>1, <1>4, HeldAlone DEF DenyMail, WorkState, At
  <2>4. StageOf(m) = "claimed" /\ StageOf(m)' = "open"
    BY <1>2, <2>1, <2>2, <2>3 DEF StageOf
  <2>5. Report!Release(m)
    BY <1>2, <2>1, <2>2, <2>4, OthersStay, StageMoves DEF Report!Release
  <2> QED
    BY <2>5 DEF Report!ReportNext
<1>5. CASE Analyze(w)
  <2>1. /\ reports' = [reports EXCEPT ![m] = @ + 1]
        /\ UNCHANGED <<started, reported>>
    BY <1>1, <1>5 DEF Analyze
  <2>2. /\ reports'[m] = reports[m] + 1
        /\ \A e \in Mails \ {m} : reports'[e] = reports[e]
    BY <2>1 DEF TypeOK, MailTypeOK
  <2>3. started[m] /\ reports[m] = 0 /\ ~reported[m]
    BY <1>1, <1>5, HeldAlone DEF Analyze, WorkState, At
  <2>4. StageOf(m) = "claimed" /\ StageOf(m)' = "written"
    BY <1>2, <2>1, <2>2, <2>3 DEF StageOf
  <2>5. Report!Write(m)
    BY <1>2, <2>1, <2>2, <2>4, OthersStay, StageMoves DEF Report!Write
  <2> QED
    BY <2>5 DEF Report!ReportNext
<1>6. CASE Publish(w)
  <2>1. /\ reported' = [reported EXCEPT ![m] = TRUE]
        /\ UNCHANGED <<started, reports>>
    BY <1>1, <1>6 DEF Publish
  <2>2. /\ reported'[m]
        /\ \A e \in Mails \ {m} : reported'[e] = reported[e]
    BY <2>1 DEF TypeOK, MailTypeOK
  <2>3. reports[m] = 1 /\ ~reported[m]
    BY <1>1, <1>6, HeldAlone DEF Publish, WorkState, At
  <2>4. StageOf(m) = "written" /\ StageOf(m)' = "published"
    BY <1>2, <2>1, <2>2, <2>3 DEF StageOf
  <2>5. Report!Publish(m)
    BY <1>2, <2>1, <2>2, <2>4, OthersStay, StageMoves DEF Report!Publish
  <2> QED
    BY <2>5 DEF Report!ReportNext
<1> QED
  BY <1>3, <1>4, <1>5, <1>6

(* Every mail goes through the life MailReport describes: stored, claimed, *)
(* perhaps released and claimed again, written, published, and then left   *)
(* alone.                                                                  *)
THEOREM RefinesReport == Spec => ImplementsReport
<1>1. Init => Report!ReportInit
  <2> SUFFICES ASSUME Init
               PROVE  Report!ReportInit
    OBVIOUS
  <2>1. \A e \in Mails : e > received
    BY PipelineAssumption DEF Init, Mails
  <2> QED
    BY <2>1 DEF Init, Report!ReportInit, Stage, StageOf
<1>2. TypeOK /\ TypeOK' /\ SafetyInv /\ [Next]_vars =>
          [Report!ReportNext]_(Report!reportVars)
  <2> SUFFICES ASSUME TypeOK, TypeOK', SafetyInv, [Next]_vars
               PROVE  Report!ReportNext \/ UNCHANGED Report!reportVars
    OBVIOUS
  <2>1. CASE UNCHANGED <<received, started, reported, reports>>
    BY <2>1 DEF Report!reportVars, Stage, StageOf
  <2>2. ASSUME NEW w \in Workers,
               QuotaCharge(w) \/ ExceptMail(w) \/ (ClaimFails(w) /\ started' = started)
        PROVE  UNCHANGED <<received, started, reported, reports>>
    BY <2>2 DEF QuotaCharge, ExceptMail, ClaimFails, mailVars
  <2>3. ASSUME NEW p \in Pollers, CheckClear(p)
        PROVE  UNCHANGED <<received, started, reported, reports>>
    BY <2>3 DEF CheckClear
  <2>4. CASE UNCHANGED mailVars
    BY <2>1, <2>4 DEF mailVars
  <2> QED
    BY <2>1, <2>2, <2>3, <2>4, MailFrame, ReceiveStep, WorkStep DEF MailStep
<1> QED
  BY <1>1, <1>2, PipelineSafe, PTL DEF Spec, ImplementsReport, Report!ReportSpec
-----------------------------------------------------------------------------
(* How far the limit per IP can be overrun.  The usage of an IP is counted *)
(* over the reports that exist; an analysis that is allowed is counted     *)
(* only once its report is published, so every worker may get one past it. *)
ForAnonymous(e, a) == origin[e].account = Anonymous /\ origin[e].ip = IpOf[a]

(* The workers that were allowed an analysis for the IP of a and have not  *)
(* published its report yet.                                               *)
Unpublished(a) ==
    {w \in Workers : /\ \/ At(w, "quota") /\ call[w].step = "allowed"
                        \/ worker[w].step \in {"analyze", "publish"}
                     /\ ForAnonymous(worker[w].mail, a)}

AnonymousBound ==
    \A a \in WithIp, d \in 0..MaxDay :
        Cardinality(AnonymousReports(a, d)) < AnonLimit + Cardinality(Workers)

(* The inductive invariant: today's reports and those still to come are    *)
(* bounded together, and none is to come where the limit is zero; so the   *)
(* bound survives midnight, when those to come fall on the next day.       *)
NoneAhead == \A e \in Mails : reported[e] => analyzedOn[e] <= day

TodayBound ==
    \A a \in WithIp :
        /\ Cardinality(AnonymousReports(a, day)) + Cardinality(Unpublished(a))
              < AnonLimit + Cardinality(Workers)
        /\ Unpublished(a) # {} => AnonLimit > 0

AnonymousInv == NoneAhead /\ TodayBound /\ AnonymousBound

LEMMA AnonymousCounts ==
    ASSUME NEW a
    PROVE  /\ AnonLimit \in Nat /\ Cardinality(Workers) \in Nat /\ Cardinality(Workers) > 0
           /\ IsFiniteSet(Unpublished(a)) /\ Cardinality(Unpublished(a)) \in Nat
           /\ Cardinality(Unpublished(a)) <= Cardinality(Workers)
           /\ \A d : /\ IsFiniteSet(AnonymousReports(a, d))
                     /\ Cardinality(AnonymousReports(a, d)) \in Nat
<1>1. IsFiniteSet(Mails)
  BY FS_Interval, PipelineAssumption DEF Mails
<1>2. Unpublished(a) \in SUBSET Workers /\ \A d : AnonymousReports(a, d) \in SUBSET Mails
  BY DEF Unpublished, AnonymousReports
<1>3. \A d : IsFiniteSet(AnonymousReports(a, d))
  BY <1>1, <1>2, FS_Subset
<1> QED
  BY <1>2, <1>3, FS_Subset, FS_CardinalityType, FS_EmptySet, QuotaAssumption,
     PipelineAssumption
     DEF Workers
(* The same, of the next state. *)
LEMMA AnonymousCountsNext ==
    ASSUME NEW a
    PROVE  /\ IsFiniteSet(Unpublished(a)') /\ Cardinality(Unpublished(a)') \in Nat
           /\ Cardinality(Unpublished(a)') <= Cardinality(Workers)
<1>1. Unpublished(a)' \in SUBSET Workers
  BY DEF Unpublished
<1> QED
  BY <1>1, FS_Subset, FS_CardinalityType, QuotaAssumption DEF Workers

(* A step within a day that publishes nothing, and lets no worker through, *)
(* keeps the bounds.                                                       *)
LEMMA AnonymousKept ==
    ASSUME AnonymousInv, UNCHANGED <<day, reported, analyzedOn>>,
           \A e \in Mails : reported[e] => origin'[e] = origin[e],
           \A a \in WithIp : Unpublished(a)' \subseteq Unpublished(a)
    PROVE  AnonymousInv'
<1>1. \A a, d : AnonymousReports(a, d)' = AnonymousReports(a, d)
  BY DEF AnonymousReports
<1>2. NoneAhead' /\ AnonymousBound'
  BY <1>1 DEF AnonymousInv, NoneAhead, AnonymousBound
<1>3. TodayBound'
  <2> SUFFICES ASSUME NEW a \in WithIp
               PROVE  /\ Cardinality(AnonymousReports(a, day)) + Cardinality(Unpublished(a)')
                            < AnonLimit + Cardinality(Workers)
                      /\ Unpublished(a)' # {} => AnonLimit > 0
    BY <1>1 DEF TodayBound
  <2>1. Cardinality(Unpublished(a)') <= Cardinality(Unpublished(a))
    BY FS_Subset, AnonymousCounts
  <2> QED
    BY <2>1, AnonymousCounts, AnonymousCountsNext DEF AnonymousInv, TodayBound
<1> QED
  BY <1>2, <1>3 DEF AnonymousInv

(* What a step of w does to the workers let through, when it writes        *)
(* neither the origin of a mail nor another worker's call.                 *)
LEMMA UnpublishedMoves ==
    ASSUME TypeOK, NEW w \in Workers, UNCHANGED origin, NEW a,
           \A v \in Workers \ {w} : worker'[v] = worker[v] /\ call'[v] = call[v]
    PROVE  /\ Unpublished(a)' \subseteq Unpublished(a) \cup {w}
           /\ w \notin Unpublished(a)' => Unpublished(a)' = Unpublished(a) \ {w}
           /\ w \in Unpublished(a)' =>
                 /\ \/ At(w, "quota")' /\ call'[w].step = "allowed"
                    \/ worker'[w].step \in {"analyze", "publish"}
                 /\ ForAnonymous(worker'[w].mail, a)
  BY DEF Unpublished, At, ForAnonymous
(* Most steps of a worker let nobody through: they are before the verdict, *)
(* or after it and keep the mail, or end the work on it; and a charge is   *)
(* an account's.                                                           *)
LEMMA AnonymousQuiet ==
    ASSUME TypeOK, SafetyInv, AnonymousInv, NEW w \in Workers,
           \/ Take(w) \/ ClaimWon(w) \/ ClaimLost(w) \/ Consume(w) \/ QuotaCharge(w)
           \/ DenyMail(w) \/ DenyAddress(w) \/ MarkProcessing(w) \/ Analyze(w) \/ Finish(w)
           \/ ExceptMail(w) \/ ExceptAddress(w) \/ Trouble(w)
    PROVE  AnonymousInv'
<1>1. UNCHANGED <<day, reported, analyzedOn, origin>>
  BY DEF Take, ClaimWon, ClaimLost, Consume, QuotaCharge, DenyMail, DenyAddress,
     MarkProcessing,
     Analyze, Finish, ExceptMail, ExceptAddress, Trouble, Fault, ClaimFails, ExceptFails,
     Crash,
     mailVars, quotaVars, Begin, Charge, Leave, AbandonCall
<1>2. \A v \in Workers \ {w} : worker'[v] = worker[v] /\ call'[v] = call[v]
  <2>1. CASE UNCHANGED call
    BY <2>1, WorkerMoves DEF Take, ClaimWon, ClaimLost, Consume, QuotaCharge, DenyMail,
       DenyAddress, MarkProcessing, Analyze, Finish, ExceptMail, ExceptAddress, Trouble, Fault,
       ClaimFails, ExceptFails, Crash, processes, TypeOK, WorkerTypeOK
  <2>2. CASE \/ Consume(w) \/ QuotaCharge(w) \/ DenyMail(w) \/ MarkProcessing(w)
             \/ Fault(w) \/ Crash(w)
    BY <2>2, CallAfter, WorkerMoves DEF Consume, QuotaCharge, DenyMail, MarkProcessing, Fault,
       Crash, processes
  <2> QED
    BY <2>1, <2>2 DEF Take, ClaimWon, ClaimLost, DenyAddress, Analyze, Finish, ExceptMail,
       ExceptAddress, Trouble, ClaimFails, ExceptFails, quotaVars
<1>3. ASSUME NEW a \in WithIp, w \in Unpublished(a)'
      PROVE  w \in Unpublished(a)
  <2>1. /\ \/ At(w, "quota")' /\ call'[w].step = "allowed"
           \/ worker'[w].step \in {"analyze", "publish"}
        /\ ForAnonymous(worker'[w].mail, a)
    BY <1>1, <1>2, <1>3, UnpublishedMoves
  <2>2. CASE MarkProcessing(w) \/ Analyze(w)
    BY <2>1, <2>2, WorkerMoves DEF MarkProcessing, Analyze, At, Unpublished
  <2>3. CASE QuotaCharge(w)
    <3>1. /\ worker'[w].mail = worker[w].mail
          /\ call[w].holder = origin[worker[w].mail].account /\ call[w].step = "check"
      BY <2>3, HeldAlone DEF QuotaCharge, Charge, At, WorkState, processes
    <3>2. call[w].holder # Anonymous
      BY <3>1, QuotaAssumption DEF TypeOK, QuotaTypeOK, Workers
    <3> QED
      BY <2>1, <3>1, <3>2 DEF ForAnonymous
  <2>4. CASE Consume(w)
    BY <2>1, <2>4, CallAfter, WorkerMoves DEF Consume, At
  <2>5. CASE \/ Take(w) \/ ClaimWon(w) \/ ClaimLost(w) \/ DenyMail(w) \/ DenyAddress(w)
             \/ Finish(w) \/ ExceptMail(w) \/ ExceptAddress(w) \/ Trouble(w)
    <3>1. worker'[w].step \in {"idle", "claim", "consume", "denyAddress", "exceptMail",
                              "exceptAddress"}
      BY <2>5, WorkerMoves DEF Take, ClaimWon, ClaimLost, DenyMail, DenyAddress, Finish,
         ExceptMail, ExceptAddress, Trouble, Fault, ClaimFails, ExceptFails, Crash,
         NoTask, TypeOK, WorkerTypeOK
    <3> QED
      BY <2>1, <3>1 DEF At
  <2> QED
    BY <2>2, <2>3, <2>4, <2>5
<1>4. \A a \in WithIp : Unpublished(a)' \subseteq Unpublished(a)
  <2> SUFFICES ASSUME NEW a \in WithIp
               PROVE  Unpublished(a)' \subseteq Unpublished(a)
    OBVIOUS
  <2>1. Unpublished(a)' \subseteq Unpublished(a) \cup {w}
    BY <1>1, <1>2, UnpublishedMoves
  <2> QED
    BY <1>3, <2>1
<1> QED
  BY <1>1, <1>4, AnonymousKept

(* The verdict for an IP: a worker is let through only when the reports of *)
(* today, which are among those the usage counts, are below the limit.     *)
LEMMA AnonymousVerdict ==
    ASSUME TypeOK, SafetyInv, AnonymousInv, NEW w \in Workers, QuotaStep(w)
    PROVE  AnonymousInv'
<1> DEFINE m == worker[w].mail
           free == AnonymousUsage(origin[m].ip, call[w].now) < AnonLimit
<1>1. /\ UNCHANGED <<day, reported, analyzedOn, origin, worker>>
      /\ \A v \in Workers \ {w} : worker'[v] = worker[v] /\ call'[v] = call[v]
  BY CallAfter DEF QuotaStep, mailVars, processes, Read, Reset, Refuse, CountAnonymous
<1>2. CASE \A a \in WithIp : w \notin Unpublished(a)'
  <2>1. \A a \in WithIp : Unpublished(a)' \subseteq Unpublished(a)
    BY <1>1, <1>2, UnpublishedMoves
  <2> QED
    BY <1>1, <2>1, AnonymousKept
<1>3. CASE \E a \in WithIp : w \in Unpublished(a)'
  <2>1. m \in Mails /\ At(w, "quota")
    BY HeldAlone DEF QuotaStep, At
  <2>2. call'[w].step = "allowed"
    BY <1>1, <1>3, <2>1, UnpublishedMoves DEF At
  <2>3. free
    <3>1. free \in BOOLEAN
      OBVIOUS
    <3> HIDE DEF free
    <3>2. CASE CountAnonymous(w, free)
      BY <2>2, <3>1, <3>2, CallSteps DEF TypeOK, Workers
    <3>3. CASE Read(w) \/ Reset(w) \/ Refuse(w)
      BY <2>2, <3>3, CallSteps DEF TypeOK, Workers
    <3> QED
      BY <3>2, <3>3 DEF QuotaStep, free
  <2>4. ASSUME NEW a \in WithIp, w \in Unpublished(a)'
        PROVE  Cardinality(AnonymousReports(a, day)) < AnonLimit
    <3> DEFINE counted == {e \in Mails : /\ origin[e].ip = AskedFor(origin[m].ip)
                                         /\ reported[e] /\ analyzedOn[e] >= call[w].now}
    <3>1. AskedFor(origin[m].ip) = IpOf[a]
      BY <1>1, <2>4, UnpublishedMoves DEF ForAnonymous, WithIp, AskedFor
    <3>2. /\ call[w].now \in Nat /\ day \in Nat /\ call[w].now <= day
      BY DEF TypeOK, QuotaTypeOK, CallRecord, Workers
    <3>3. AnonymousReports(a, day) \in SUBSET counted
      BY <3>1, <3>2 DEF AnonymousReports
    <3>4. IsFiniteSet(counted)
      <4>1. IsFiniteSet(Mails) /\ counted \in SUBSET Mails
        BY FS_Interval, PipelineAssumption DEF Mails
      <4> QED
        BY <4>1, FS_Subset
    <3>5. Cardinality(AnonymousReports(a, day)) <= Cardinality(counted)
      BY <3>3, <3>4, FS_Subset
    <3>6. Cardinality(counted) < AnonLimit /\ Cardinality(counted) \in Nat
      BY <2>3, <3>4, FS_CardinalityType DEF AnonymousUsage
    <3> HIDE DEF counted
    <3> QED
      BY <3>5, <3>6, AnonymousCounts
  <2>5. TodayBound'
    <3> SUFFICES ASSUME NEW a \in WithIp
                 PROVE  /\ Cardinality(AnonymousReports(a, day)') + Cardinality(Unpublished(a)')
                              < AnonLimit + Cardinality(Workers)
                        /\ Unpublished(a)' # {} => AnonLimit > 0
      BY DEF TodayBound
    <3>0. AnonymousReports(a, day)' = AnonymousReports(a, day)
      BY <1>1 DEF AnonymousReports
    <3>1. CASE w \in Unpublished(a)'
      BY <2>4, <3>0, <3>1, AnonymousCounts, AnonymousCountsNext
    <3>2. CASE w \notin Unpublished(a)'
      <4>1. Unpublished(a)' \in SUBSET Unpublished(a)
        BY <1>1, <3>2, UnpublishedMoves
      <4>2. Cardinality(Unpublished(a)') <= Cardinality(Unpublished(a))
        BY <4>1, FS_Subset, AnonymousCounts
      <4> QED
        BY <3>0, <4>1, <4>2, AnonymousCounts, AnonymousCountsNext DEF AnonymousInv, TodayBound
    <3> QED
      BY <3>1, <3>2
  <2> QED
    BY <1>1, <2>5 DEF AnonymousInv, NoneAhead, AnonymousBound, AnonymousReports
<1> QED
  BY <1>2, <1>3
(* Publishing moves one report from those to come to those of today.       *)
LEMMA AnonymousPublish ==
    ASSUME TypeOK, SafetyInv, AnonymousInv, NEW w \in Workers, Publish(w)
    PROVE  AnonymousInv'
<1> DEFINE m == worker[w].mail
<1>1. /\ At(w, "publish") /\ m \in Mails /\ ~reported[m]
      /\ day \in Nat /\ day \in 0..MaxDay
  BY HeldAlone DEF Publish, At, WorkState, TypeOK, QuotaTypeOK
<1>2. /\ worker'[w].step = "finish"
      /\ \A v \in Workers \ {w} : worker'[v] = worker[v] /\ call'[v] = call[v]
      /\ UNCHANGED <<day, origin>>
  BY WorkerMoves DEF Publish, quotaVars
<1>3. /\ reported'[m] /\ analyzedOn'[m] = day
      /\ \A e \in Mails \ {m} : reported'[e] = reported[e] /\ analyzedOn'[e] = analyzedOn[e]
  BY <1>1 DEF Publish, TypeOK, MailTypeOK
<1>4. NoneAhead'
  BY <1>1, <1>2, <1>3 DEF AnonymousInv, NoneAhead
<1>5. \A a :
         /\ AnonymousReports(a, day)' = IF ForAnonymous(m, a)
                                        THEN AnonymousReports(a, day) \cup {m}
                                        ELSE AnonymousReports(a, day)
         /\ \A d : d # day => AnonymousReports(a, d)' = AnonymousReports(a, d)
  BY <1>1, <1>2, <1>3 DEF AnonymousReports, ForAnonymous
<1>6. \A a \in WithIp :
         /\ Unpublished(a)' = Unpublished(a) \ {w}
         /\ ForAnonymous(m, a) => w \in Unpublished(a)
  <2>1. \A a : w \notin Unpublished(a)'
    BY <1>2 DEF Unpublished, At
  <2> QED
    BY <1>1, <1>2, <2>1, UnpublishedMoves DEF Unpublished, At
<1>7. ASSUME NEW a \in WithIp
      PROVE  /\ Cardinality(AnonymousReports(a, day)') + Cardinality(Unpublished(a)')
                    < AnonLimit + Cardinality(Workers)
             /\ Unpublished(a)' # {} => AnonLimit > 0
  <2>1. Cardinality(Unpublished(a)') = IF w \in Unpublished(a)
                                       THEN Cardinality(Unpublished(a)) - 1
                                       ELSE Cardinality(Unpublished(a))
    BY <1>6, FS_RemoveElement, AnonymousCounts
  <2>2. CASE ForAnonymous(m, a)
    <3>1. m \notin AnonymousReports(a, day)
      BY <1>1 DEF AnonymousReports
    <3>2. Cardinality(AnonymousReports(a, day)') = Cardinality(AnonymousReports(a, day)) + 1
      <4>1. AnonymousReports(a, day)' = AnonymousReports(a, day) \cup {m}
        BY <1>5, <2>2
      <4>2. IsFiniteSet(AnonymousReports(a, day))
        BY AnonymousCounts
      <4> QED
        BY <3>1, <4>1, <4>2, FS_AddElement
    <3> QED
      BY <1>6, <2>1, <2>2, <3>2, AnonymousCounts DEF AnonymousInv, TodayBound
  <2>3. CASE ~ForAnonymous(m, a)
    <3>1. AnonymousReports(a, day)' = AnonymousReports(a, day)
      BY <1>1, <1>5, <2>3
    <3> QED
      BY <1>6, <2>1, <3>1, AnonymousCounts DEF AnonymousInv, TodayBound
  <2> QED
    BY <2>2, <2>3
<1>8. TodayBound'
  BY <1>7 DEF TodayBound
<1>9. AnonymousBound'
  <2> SUFFICES ASSUME NEW a \in WithIp, NEW d \in 0..MaxDay
               PROVE  Cardinality(AnonymousReports(a, d)') < AnonLimit + Cardinality(Workers)
    BY DEF AnonymousBound
  <2>1. CASE d = day
    <3>1. AnonymousReports(a, d)' = AnonymousReports(a, day)'
      BY <1>2, <2>1 DEF AnonymousReports
    <3>2. Cardinality(AnonymousReports(a, d)') \in Nat
      <4>1. AnonymousReports(a, d)' \in SUBSET Mails /\ IsFiniteSet(Mails)
        BY FS_Interval, PipelineAssumption DEF AnonymousReports, Mails
      <4> QED
        BY <4>1, FS_Subset, FS_CardinalityType
    <3> QED
      BY <1>7, <3>1, <3>2, AnonymousCounts, AnonymousCountsNext
  <2>2. CASE d # day
    BY <1>5, <2>2 DEF AnonymousInv, AnonymousBound
  <2> QED
    BY <2>1, <2>2
<1> QED
  BY <1>4, <1>8, <1>9 DEF AnonymousInv

(* At midnight the analyses that are still to be published become those of *)
(* the new day, which has no report yet.                                   *)
LEMMA AnonymousMidnight ==
    ASSUME TypeOK, AnonymousInv, Midnight
    PROVE  AnonymousInv'
<1>1. /\ UNCHANGED <<origin, reported, analyzedOn, worker, call>>
      /\ day' = day + 1 /\ day \in Nat
  BY DEF Midnight, NextDay, mailVars, processes, TypeOK, QuotaTypeOK
<1>2. /\ \A a, d : AnonymousReports(a, d)' = AnonymousReports(a, d)
      /\ \A a : Unpublished(a)' = Unpublished(a)
  BY <1>1 DEF AnonymousReports, Unpublished, ForAnonymous, At
<1>3. \A a : AnonymousReports(a, day + 1) = {}
  BY <1>1 DEF AnonymousReports, AnonymousInv, NoneAhead, TypeOK, MailTypeOK
<1>4. NoneAhead' /\ AnonymousBound'
  BY <1>1, <1>2 DEF AnonymousInv, NoneAhead, AnonymousBound, TypeOK, MailTypeOK
<1>5. TodayBound'
  <2> SUFFICES ASSUME NEW a \in WithIp
               PROVE  /\ Cardinality(AnonymousReports(a, day + 1)) + Cardinality(Unpublished(a))
                            < AnonLimit + Cardinality(Workers)
                      /\ Unpublished(a) # {} => AnonLimit > 0
    <3>1. \A b : AnonymousReports(b, day)' = AnonymousReports(b, day + 1)
      BY <1>1 DEF AnonymousReports
    <3> QED
      BY <1>2, <3>1 DEF TodayBound
  <2>1. Cardinality(AnonymousReports(a, day + 1)) = 0
    BY <1>3, FS_EmptySet
  <2>2. Unpublished(a) = {} => Cardinality(Unpublished(a)) = 0
    BY FS_EmptySet
  <2> QED
    BY <2>1, <2>2, AnonymousCounts DEF AnonymousInv, TodayBound
<1> QED
  BY <1>4, <1>5 DEF AnonymousInv
(* The steps of the other processes publish nothing and let nobody        *)
(* through; a mail that is being stored is in nobody's hands.              *)
LEMMA AnonymousBystanders ==
    ASSUME TypeOK, SafetyInv, AnonymousInv, [Next]_vars, ~Midnight,
           ~\E w \in Workers : Take(w) \/ Work(w) \/ Trouble(w)
    PROVE  AnonymousInv'
<1>1. UNCHANGED <<day, worker, call>>
  BY DEF Next, vars, quotaVars, processes, Expire, Lookup, Ingest, Insert, UpdateAddress,
     Delay,
     DeliveryFails, Answer, CheckQuota, CheckClear, CheckDelay, CheckFails, Check,
     CheckBlocked,
     CheckUnclaimed
<1>2. ASSUME NEW s \in Sessions, Insert(s)
      PROVE  AnonymousInv'
  <2> DEFINE n == received + 1
  <2>1. /\ UNCHANGED <<reported, analyzedOn>>
        /\ \A e \in Mails \ {n} : origin'[e] = origin[e]
    BY <1>2 DEF Insert, TypeOK, MailTypeOK
  <2>2. n \in Mails /\ n > received /\ ~started[n] /\ reports[n] = 0 /\ ~reported[n]
    <3>1. n \in Mails /\ n > received
      BY <1>2, PipelineAssumption DEF Insert, TypeOK, MailTypeOK, Mails
    <3>2. ~started[n] /\ reports[n] = 0
      BY <3>1 DEF SafetyInv, OnlyStored, OpenUnpaid
    <3> QED
      BY <3>1, <3>2 DEF SafetyInv, ReportBacked
  <2>3. ASSUME NEW a \in WithIp
        PROVE  Unpublished(a)' \subseteq Unpublished(a)
    <3> SUFFICES ASSUME NEW v \in Unpublished(a)'
                 PROVE  v \in Unpublished(a)
      OBVIOUS
    <3>1. /\ v \in Workers /\ worker'[v] = worker[v] /\ call'[v] = call[v]
          /\ worker[v].step \in {"quota", "analyze", "publish"}
      BY <1>1 DEF Unpublished, At
    <3>2. worker[v].mail \in Mails /\ worker[v].mail # n
      BY <2>2, <3>1, HeldAlone
    <3> QED
      BY <2>1, <3>1, <3>2 DEF Unpublished, ForAnonymous, At
  <2> QED
    BY <1>1, <2>1, <2>2, <2>3, AnonymousKept
<1>3. CASE ~\E s \in Sessions : Insert(s)
  <2>1. UNCHANGED <<reported, analyzedOn, origin>>
    <3>1. CASE UNCHANGED mailVars
      BY <3>1 DEF mailVars
    <3>2. ASSUME NEW p \in Pollers, CheckClear(p)
          PROVE  UNCHANGED <<reported, analyzedOn, origin>>
      BY <3>2 DEF CheckClear
    <3> QED
      BY <1>3, <3>1, <3>2, MailFrame DEF MailStep, Work, Trouble
  <2>2. \A a : Unpublished(a)' = Unpublished(a)
    BY <1>1, <2>1 DEF Unpublished, ForAnonymous, At
  <2> QED
    BY <1>1, <2>1, <2>2, AnonymousKept
<1> QED
  BY <1>2, <1>3

LEMMA AnonymousStep == TypeOK /\ SafetyInv /\ AnonymousInv /\ [Next]_vars => AnonymousInv'
<1> SUFFICES ASSUME TypeOK, SafetyInv, AnonymousInv, [Next]_vars
             PROVE  AnonymousInv'
  OBVIOUS
<1>1. ASSUME NEW w \in Workers, Take(w) \/ Work(w) \/ Trouble(w)
      PROVE  AnonymousInv'
  BY <1>1, AnonymousQuiet, AnonymousVerdict, AnonymousPublish DEF Work
<1> QED
  BY <1>1, AnonymousMidnight, AnonymousBystanders

(* However many workers there are, an anonymous IP gets less than one      *)
(* report a day per worker beyond ANON_DAILY_LIMIT: the reports that were  *)
(* allowed before the first of them was published (consume_daily_quota     *)
(* counts published reports only).                                         *)
THEOREM AnonymousBounded == Spec => []AnonymousBound
<1>1. Init => AnonymousInv
  <2> SUFFICES ASSUME Init
               PROVE  AnonymousInv
    OBVIOUS
  <2>1. \A a, d : AnonymousReports(a, d) = {} /\ Unpublished(a) = {}
    BY DEF Init, AnonymousReports, Unpublished, At, NoTask
  <2>2. \A a, d : Cardinality(AnonymousReports(a, d)) = 0 /\ Cardinality(Unpublished(a)) = 0
    BY <2>1, FS_EmptySet
  <2>3. NoneAhead
    BY DEF Init, NoneAhead
  <2>4. AnonLimit \in Nat /\ Cardinality(Workers) \in Nat /\ Cardinality(Workers) > 0
    BY AnonymousCounts
  <2> QED
    BY <2>1, <2>2, <2>3, <2>4 DEF AnonymousInv, TodayBound, AnonymousBound
<1>2. AnonymousInv => AnonymousBound
  BY DEF AnonymousInv
<1> QED
  BY <1>1, <1>2, PipelineSafe, AnonymousStep, PTL DEF Spec

(* With one worker process, no IP gets more than its limit on a day.       *)
THEOREM SerialAnonymousBudget == Serial => (Spec => []AnonymousBudget)
<1> SUFFICES ASSUME Serial
             PROVE  Spec => []AnonymousBudget
  OBVIOUS
<1>1. Cardinality(Workers) = 1
  <2>1. PICK w : w \in Callers
    BY QuotaAssumption
  <2>2. Workers = {w}
    BY <2>1 DEF Serial, Workers
  <2>3. Cardinality({w}) = 1
    BY FS_Singleton
  <2> QED
    BY <2>2, <2>3
<1>2. AnonymousBound => AnonymousBudget
  <2> SUFFICES ASSUME AnonymousBound, NEW a \in WithIp, NEW d \in 0..MaxDay
               PROVE  Cardinality(AnonymousReports(a, d)) <= AnonLimit
    BY DEF AnonymousBudget
  <2>1. /\ Cardinality(AnonymousReports(a, d)) < AnonLimit + Cardinality(Workers)
        /\ Cardinality(AnonymousReports(a, d)) \in Nat /\ AnonLimit \in Nat
    BY AnonymousCounts DEF AnonymousBound
  <2> QED
    BY <1>1, <2>1
<1> QED
  BY <1>2, AnonymousBounded, PTL
-----------------------------------------------------------------------------
(* What a step leaves alone, and its worker keeps in hand, is not abandoned *)
(* by it.                                                                   *)
LEMMA StaysInHand ==
    ASSUME NEW e \in Mails, ~Abandoned(e),
           started'[e] = started[e], reported'[e] = reported[e], error'[e] = error[e],
           \A v \in Workers : InHand(v, e) => InHand(v, e)'
    PROVE  ~Abandoned(e)'
BY DEF Abandoned

(* A task that breaks off ends there, and is one more of its kind. *)
LEMMA BreaksOffWhen ==
    ASSUME TypeOK, NEW w \in Workers, ClaimFails(w) \/ ExceptFails(w) \/ Crash(w)
    PROVE  /\ BreaksOff(w)
           /\ \A v \in Workers \ {w} : worker'[v] = worker[v]
BY WorkerMoves DEF ClaimFails, ExceptFails, Crash, BreaksOff, TypeOK, WorkerTypeOK

(* A worker's step abandons no mail, but the worker's own when it breaks   *)
(* off: it writes the fate of the mail it has in hand before it lets go    *)
(* of it.                                                                  *)
LEMMA WorkAbandonsNone ==
    ASSUME TypeOK, SafetyInv, NEW w \in Workers, Take(w) \/ Work(w) \/ Trouble(w),
           NEW e \in Mails, ~Abandoned(e), ~(worker[w].mail = e /\ BreaksOff(w))
    PROVE  ~Abandoned(e)'
<1> DEFINE m == worker[w].mail
           Same == started'[e] = started[e] /\ reported'[e] = reported[e] /\ error'[e] = error[e]
<1>1. \A v \in Workers \ {w} : worker'[v] = worker[v]
  BY WorkerMoves, BreaksOffWhen DEF Trouble, Take, Work, ClaimWon, ClaimLost, Consume,
     QuotaStep, QuotaCharge, DenyMail,
     DenyAddress, MarkProcessing, Analyze, Publish, Finish, Fault, ExceptMail, ExceptAddress,
     processes, TypeOK, WorkerTypeOK
<1>2. \A v \in Workers \ {w} : InHand(v, e)' <=> InHand(v, e)
  BY <1>1 DEF InHand, Holds, At
<1>3. CASE \/ Take(w) \/ ClaimLost(w) \/ DenyAddress(w) \/ ExceptAddress(w)
  <2>1. Same
    BY <1>3 DEF Take, ClaimLost, DenyAddress, ExceptAddress, mailVars
  <2>2. ~InHand(w, e)
    BY <1>3 DEF Take, ClaimLost, DenyAddress, ExceptAddress, InHand, Holds, At
  <2> QED
    BY <1>2, <2>1, <2>2, StaysInHand
<1>4. CASE \/ Consume(w) \/ QuotaStep(w) \/ QuotaCharge(w) \/ MarkProcessing(w)
           \/ Analyze(w) \/ Fault(w)
  <2>1. Same
    BY <1>4 DEF Consume, QuotaStep, QuotaCharge, MarkProcessing, Analyze, Fault, mailVars
  <2>2. /\ worker'[w].mail = m
        /\ worker'[w].step \in {"quota", "analyze", "publish", "exceptMail"}
    BY <1>4, WorkerMoves DEF Consume, QuotaStep, QuotaCharge, MarkProcessing, Analyze, Fault,
       processes, At
  <2>3. InHand(w, e) => InHand(w, e)'
    BY <2>2 DEF InHand, Holds, At
  <2> QED
    BY <1>2, <2>1, <2>3, StaysInHand
<1>5. CASE ClaimWon(w)
  <2>1. worker'[w].mail = m /\ worker'[w].step = "consume" /\ ~InHand(w, e)
    BY <1>5, WorkerMoves DEF ClaimWon, InHand, Holds, At
  <2>2. CASE e = m
    BY <2>1, <2>2 DEF Abandoned, InHand, Holds
  <2>3. CASE e # m
    BY <1>2, <1>5, <2>1, <2>3, StaysInHand DEF ClaimWon, TypeOK, MailTypeOK
  <2> QED
    BY <2>2, <2>3
<1>6. CASE DenyMail(w) \/ Publish(w) \/ Finish(w) \/ ExceptMail(w)
  <2>1. m \in Mails
    BY <1>6, MailInHand DEF DenyMail, Publish, Finish, ExceptMail, At
  <2>2. CASE e = m
    <3>1. CASE DenyMail(w)
      BY <2>1, <2>2, <3>1 DEF DenyMail, Abandoned, TypeOK, MailTypeOK
    <3>2. CASE Publish(w)
      BY <2>1, <2>2, <3>2 DEF Publish, Abandoned, TypeOK, MailTypeOK
    <3>3. CASE Finish(w)
      BY <2>2, <3>3, HeldAlone DEF Finish, WorkState, At, Abandoned, mailVars
    <3>4. CASE ExceptMail(w)
      BY <2>1, <2>2, <3>4 DEF ExceptMail, Abandoned, TypeOK, MailTypeOK
    <3> QED
      BY <1>6, <3>1, <3>2, <3>3, <3>4
  <2>3. CASE e # m
    <3>1. Same
      BY <1>6, <2>3 DEF DenyMail, Publish, Finish, ExceptMail, mailVars, TypeOK, MailTypeOK
    <3>2. ~InHand(w, e)
      BY <2>3 DEF InHand, Holds, At
    <3> QED
      BY <1>2, <3>1, <3>2, StaysInHand
  <2> QED
    BY <2>2, <2>3
<1>7. CASE ClaimFails(w) \/ ExceptFails(w) \/ Crash(w)
  <2>1. e # m
    BY <1>7, BreaksOffWhen
  <2>2. Same
    BY <1>7, <2>1 DEF ClaimFails, ExceptFails, Crash, mailVars, TypeOK, MailTypeOK
  <2>3. ~InHand(w, e)
    BY <2>1 DEF InHand, Holds
  <2> QED
    BY <1>2, <2>2, <2>3, StaysInHand
<1> QED
  BY <1>3, <1>4, <1>5, <1>6, <1>7 DEF Work, Trouble

(* The other processes take nothing out of a worker's hands; of them only  *)
(* a poll writes last_error.                                               *)
LEMMA OthersAbandonNone ==
    ASSUME TypeOK, [Next]_vars, ~\E w \in Workers : Take(w) \/ Work(w) \/ Trouble(w),
           NEW e \in Mails, ~Abandoned(e), ~(error[e] = "failure" /\ error'[e] = "none")
    PROVE  ~Abandoned(e)'
<1>1. UNCHANGED <<worker, started, reported>>
  BY DEF Next, vars, mailVars, processes, Expire, Lookup, Ingest, Insert, UpdateAddress, Delay,
     DeliveryFails, Answer, CheckQuota, CheckClear, CheckDelay, CheckFails, Check,
     CheckBlocked,
     CheckUnclaimed, Midnight
<1>2. ASSUME NEW p \in Pollers, CheckClear(p)
      PROVE  error' = [error EXCEPT ![poller[p].mail] = "none"]
  BY <1>2 DEF CheckClear
<1>3. CASE error' = error
  BY <1>1, <1>3, StaysInHand DEF InHand, Holds, At
<1>4. CASE \E p \in Pollers : CheckClear(p)
  BY <1>1, <1>2, <1>4 DEF Abandoned, InHand, Holds, At, TypeOK, MailTypeOK
<1>5. error' = error \/ \E p \in Pollers : CheckClear(p)
  <2>1. UNCHANGED mailVars => error' = error
    BY DEF mailVars
  <2>2. \A s \in Sessions : Insert(s) => error' = error
    BY DEF Insert
  <2> QED
    BY <2>1, <2>2, MailFrame DEF MailStep, Work, Trouble
<1> QED
  BY <1>3, <1>4, <1>5

(* A mail that is claimed, and shows neither report nor failure, is in the *)
(* hands of a worker, unless the task that had it broke off, by a death or *)
(* by an exception that nothing of the task recorded, or a poll cleared    *)
(* its failure (analyze_received_mail, check_address).                     *)
THEOREM AbandonedOnlyByTrouble == Spec => AbandonedByTrouble
<1>1. TypeOK /\ SafetyInv /\ [Next]_vars => [TroubleAbandons]_vars
  <2> SUFFICES ASSUME TypeOK, SafetyInv, [Next]_vars, NEW e \in Mails, ~Abandoned(e),
                      ~\E w \in Workers : worker[w].mail = e /\ BreaksOff(w),
                      ~(error[e] = "failure" /\ error'[e] = "none")
               PROVE  ~Abandoned(e)'
    BY DEF TroubleAbandons
  <2> QED
    BY WorkAbandonsNone, OthersAbandonNone
<1> QED
  BY <1>1, PipelineSafe, PTL DEF Spec, AbandonedByTrouble

(* As long as no worker died and no exception was raised, ...              *)
Untroubled == faults = 0 /\ broken = 0

(* ... no failure is recorded, so none can be cleared: what /check answers *)
(* "processing" to is in the hands of a worker.                            *)
ProcessingHeld == Untroubled => \A e \in Mails : Processing(e) => \E w \in Workers : Holds(w, e)

UntroubledInv ==
    Untroubled => /\ \A e \in Mails : error[e] # "failure" /\ ~Abandoned(e)
                  /\ \A w \in Workers : ~At(w, "exceptMail")

LEMMA UntroubledStep ==
    TypeOK /\ SafetyInv /\ UntroubledInv /\ [Next]_vars /\ [TroubleAbandons]_vars => UntroubledInv'
<1> SUFFICES ASSUME TypeOK, SafetyInv, UntroubledInv, [Next]_vars,
[TroubleAbandons]_vars, Untroubled'
             PROVE  /\ \A e \in Mails : error'[e] # "failure" /\ ~Abandoned(e)'
                    /\ \A w \in Workers : ~At(w, "exceptMail")'
  BY DEF UntroubledInv
<1>1. ~\E w \in Workers : Trouble(w)
  BY DEF Trouble, Fault, ClaimFails, ExceptFails, Crash, Untroubled, TypeOK
<1>2. Untroubled
  <2>1. ASSUME NEW w \in Workers, Take(w) \/ Work(w)
        PROVE  UNCHANGED <<faults, broken>>
    BY <2>1 DEF Take, Work, ClaimWon, ClaimLost, Consume, QuotaStep, QuotaCharge, DenyMail,
       DenyAddress, MarkProcessing, Analyze, Publish, Finish, ExceptMail, ExceptAddress,
       troubles
  <2>2. ASSUME ~\E w \in Workers : Take(w) \/ Work(w) \/ Trouble(w)
        PROVE  UNCHANGED <<faults, broken>>
    BY <2>2 DEF Next, vars, troubles, Expire, Lookup, Ingest, Insert, UpdateAddress, Delay,
       DeliveryFails, Answer, CheckQuota, CheckClear, CheckDelay, CheckFails, Check,
       CheckBlocked,
       CheckUnclaimed, Midnight
  <2> QED
    BY <1>1, <2>1, <2>2 DEF Untroubled
<1>3. ASSUME NEW w \in Workers
      PROVE  ~At(w, "exceptMail")'
  <2>1. \A v \in Workers : Take(v) \/ Work(v) =>
           worker'[w].step = worker[w].step \/ worker'[w].step # "exceptMail"
    BY WorkerMoves DEF Take, Work, ClaimWon, ClaimLost, Consume, QuotaStep, QuotaCharge,
       DenyMail,
       DenyAddress, MarkProcessing, Analyze, Publish, Finish, ExceptMail, ExceptAddress,
       processes, TypeOK, WorkerTypeOK, NoTask
  <2>2. ~(\E v \in Workers : Take(v) \/ Work(v)) => worker' = worker
    BY <1>1 DEF Next, vars, processes, Expire, Lookup, Ingest, Insert, UpdateAddress, Delay,
       DeliveryFails, Answer, CheckQuota, CheckClear, CheckDelay, CheckFails, Check,
       CheckBlocked,
       CheckUnclaimed, Midnight
  <2> QED
    BY <1>2, <2>1, <2>2 DEF At, UntroubledInv
<1>4. ASSUME NEW e \in Mails
      PROVE  error'[e] # "failure"
  <2>1. \A w \in Workers :
           (ClaimWon(w) \/ QuotaCharge(w) \/ DenyMail(w) \/ Analyze(w) \/ Publish(w)) =>
               error'[e] \in {error[e], "limit"}
    BY DEF ClaimWon, QuotaCharge, DenyMail, Analyze, Publish, mailVars, TypeOK, MailTypeOK
  <2>2. \A p \in Pollers : CheckClear(p) => error'[e] \in {error[e], "none"}
    BY DEF CheckClear, TypeOK, MailTypeOK
  <2>3. \A s \in Sessions : Insert(s) => error' = error
    BY DEF Insert
  <2>4. error[e] # "failure"
    BY <1>2 DEF UntroubledInv
  <2>5. \A w \in Workers : ~ExceptMail(w)
    BY <1>2 DEF UntroubledInv, ExceptMail
  <2>6. MailStep \/ error' = error
    BY MailFrame DEF mailVars, MailStep
  <2>7. error'[e] \in {error[e], "limit", "none"}
    BY <1>1, <2>1, <2>2, <2>3, <2>5, <2>6 DEF MailStep, Trouble
  <2> QED
    BY <2>4, <2>7
<1>5. ASSUME NEW e \in Mails
      PROVE  ~Abandoned(e)'
  <2>1. CASE UNCHANGED vars
    BY <1>2, <2>1 DEF vars, mailVars, processes, UntroubledInv, Abandoned, InHand, Holds, At
  <2>2. CASE TroubleAbandons
    BY <1>2, <2>2 DEF TroubleAbandons, BreaksOff, UntroubledInv, Untroubled
  <2> QED
    BY <2>1, <2>2
<1> QED
  BY <1>3, <1>4, <1>5

(* Without exceptions and deaths, every mail that is "processing" is being *)
(* worked on: neither the denials nor the polls and the tasks they queue   *)
(* can leave one behind.  This is the safety half of ProcessingEnds.       *)
THEOREM ProcessingIsHeld == Spec => []ProcessingHeld
<1>1. Init => UntroubledInv
  BY DEF Init, UntroubledInv, Abandoned, At, NoTask
<1>2. TypeOK /\ UntroubledInv => ProcessingHeld
  BY DEF UntroubledInv, ProcessingHeld, Processing, Abandoned, InHand, Mails
<1> QED
  BY <1>1, <1>2, PipelineSafe, UntroubledStep, AbandonedOnlyByTrouble, PTL DEF Spec,
     AbandonedByTrouble
-----------------------------------------------------------------------------
(* A task stays in the queue until it is the first and a worker takes it.  *)
LEMMA QueueMoves ==
    ASSUME TypeOK
    PROVE  /\ \A m \in 1..received : queue' = Append(queue, m) =>
                 /\ \E i \in 1..Len(queue') : queue'[i] = m
                 /\ \A i \in 1..Len(queue) : i \in 1..Len(queue') /\ queue'[i] = queue[i]
           /\ queue # <<>> /\ queue' = Tail(queue) =>
                 \A i \in 1..Len(queue) :
                    \/ queue[i] = Head(queue)
                    \/ \E j \in 1..Len(queue') : queue'[j] = queue[i]
<1>1. queue \in Seq(1..received) /\ Len(queue) \in Nat
  BY DEF TypeOK, BrokerTypeOK
<1>2. ASSUME NEW m \in 1..received, queue' = Append(queue, m)
      PROVE  /\ \E i \in 1..Len(queue') : queue'[i] = m
             /\ \A i \in 1..Len(queue) : i \in 1..Len(queue') /\ queue'[i] = queue[i]
  <2>1. Len(queue') = Len(queue) + 1 /\ queue'[Len(queue) + 1] = m
    BY <1>1, <1>2
  <2>2. Len(queue) + 1 \in 1..Len(queue')
    BY <1>1, <2>1
  <2> QED
    BY <1>1, <1>2, <2>1, <2>2
<1>3. ASSUME queue # <<>>, queue' = Tail(queue), NEW i \in 1..Len(queue)
      PROVE  \/ queue[i] = Head(queue)
             \/ \E j \in 1..Len(queue') : queue'[j] = queue[i]
  <2>1. CASE i = 1
    BY <1>1, <1>3, <2>1
  <2>2. CASE i # 1
    <3>1. Len(queue') = Len(queue) - 1
      BY <1>1, <1>3
    <3>2. i - 1 \in 1..Len(queue')
      BY <1>1, <2>2, <3>1
    <3>3. queue'[i - 1] = queue[i]
      BY <1>1, <1>3, <3>1, <3>2
    <3> QED
      BY <3>2, <3>3
  <2> QED
    BY <2>1, <2>2
<1> QED
  BY <1>2, <1>3

(* What a step leaves alone, and keeps on its way, is not forgotten by it. *)
LEMMA StaysOnItsWay ==
    ASSUME NEW e \in Mails, ~Forgotten(e), received' = received,
           ~started'[e] => ~started[e], error'[e] = "none" => error[e] = "none",
           OnItsWay(e) => OnItsWay(e)'
    PROVE  ~Forgotten(e)'
BY DEF Forgotten

(* The ingest keeps a mail in hand from its insert until its task is       *)
(* queued.                                                                 *)
LEMMA IngestForgetsNone ==
    ASSUME TypeOK, NEW s \in Sessions, Ingest(s) \/ (\E a \in Addresses : Lookup(s, a)),
           NEW e \in Mails, ~Forgotten(e)
    PROVE  ~Forgotten(e)'
<1> DEFINE Others == /\ \A t \in Sessions \ {s} : session'[t] = session[t]
                     /\ worker' = worker /\ poller' = poller
                     /\ started' = started /\ error' = error
<1>1. session \in [Sessions -> [step : {"idle", "insert", "address", "delay"},
                                from : Origin, mail : 0..received]]
  BY DEF TypeOK, SessionTypeOK
<1>2. CASE Insert(s)
  <2>1. /\ Others /\ queue' = queue /\ received' = received + 1
        /\ session'[s].step = "address" /\ session'[s].mail = received + 1
        /\ session[s].step = "insert" /\ received \in Nat
    BY <1>1, <1>2, PipelineAssumption DEF Insert, TypeOK, MailTypeOK
  <2>2. OnItsWay(e) => OnItsWay(e)'
    BY <2>1 DEF OnItsWay, At
  <2>3. CASE e = received + 1
    BY <2>1, <2>3 DEF OnItsWay, Forgotten
  <2>4. CASE e # received + 1
    <3>1. e \in 1..received' => e \in 1..received
      BY <2>1, <2>4 DEF Mails
    <3> QED
      BY <2>1, <2>2, <3>1 DEF Forgotten
  <2> QED
    BY <2>3, <2>4
<1>3. CASE UpdateAddress(s)
  <2>1. /\ Others /\ queue' = queue /\ received' = received
        /\ session'[s].step = "delay" /\ session'[s].mail = session[s].mail
    BY <1>1, <1>3 DEF UpdateAddress, mailVars
  <2>2. OnItsWay(e) => OnItsWay(e)'
    BY <2>1 DEF OnItsWay, At
  <2> QED
    BY <2>1, <2>2, StaysOnItsWay
<1>4. CASE Delay(s)
  <2>1. /\ Others /\ received' = received
        /\ queue' = Append(queue, session[s].mail) /\ session[s].step = "delay"
    BY <1>1, <1>4 DEF Delay, Enqueue, mailVars
  <2>2. session[s].mail \in 1..received
    BY <1>1, <2>1 DEF TypeOK, SessionTypeOK, MailTypeOK
  <2>3. /\ \E i \in 1..Len(queue') : queue'[i] = session[s].mail
        /\ \A i \in 1..Len(queue) : i \in 1..Len(queue') /\ queue'[i] = queue[i]
    BY <2>1, <2>2, QueueMoves
  <2>4. OnItsWay(e) => OnItsWay(e)'
    BY <2>1, <2>3 DEF OnItsWay, At
  <2> QED
    BY <2>1, <2>4, StaysOnItsWay
<1>5. CASE \E a \in Addresses : Lookup(s, a)
  <2>1. /\ Others /\ queue' = queue /\ received' = received
        /\ session[s].step = "idle"
    BY <1>1, <1>5 DEF Lookup, mailVars
  <2>2. OnItsWay(e) => OnItsWay(e)'
    BY <2>1 DEF OnItsWay, At
  <2> QED
    BY <2>1, <2>2, StaysOnItsWay
<1> QED
  BY <1>2, <1>3, <1>4, <1>5 DEF Ingest

(* A worker claims the mail whose task it took, or finds it claimed, if    *)
(* the task does not break off before; after that, no task is on its way   *)
(* by this worker, and it releases the mail only with the quota's error.   *)
LEMMA WorkForgetsNone ==
    ASSUME TypeOK, NEW w \in Workers, Take(w) \/ Work(w) \/ Trouble(w),
           NEW e \in Mails, ~Forgotten(e),
           ~(At(w, "claim") /\ worker[w].mail = e /\ BreaksOff(w))
    PROVE  ~Forgotten(e)'
<1> DEFINE m == worker[w].mail
<1>1. /\ \A v \in Workers \ {w} : worker'[v] = worker[v]
      /\ session' = session /\ poller' = poller /\ received' = received
  <2>1. \A v \in Workers \ {w} : worker'[v] = worker[v]
    BY WorkerMoves, BreaksOffWhen DEF Trouble, Take, Work, ClaimWon, ClaimLost, Consume,
       QuotaStep, QuotaCharge, DenyMail,
       DenyAddress, MarkProcessing, Analyze, Publish, Finish, Fault, ExceptMail, ExceptAddress,
       processes, TypeOK, WorkerTypeOK
  <2> QED
    BY <2>1 DEF Trouble, ClaimFails, ExceptFails, Crash, Take, Work, ClaimWon, ClaimLost,
       Consume, QuotaStep, QuotaCharge, DenyMail,
       DenyAddress, MarkProcessing, Analyze, Publish, Finish, Fault, ExceptMail, ExceptAddress,
       processes, mailVars
<1>2. CASE Take(w)
  <2>1. /\ queue # <<>> /\ queue' = Tail(queue) /\ started' = started /\ error' = error
        /\ ~At(w, "claim") /\ worker'[w].step = "claim" /\ worker'[w].mail = Head(queue)
    BY <1>2 DEF Take, mailVars, At, TypeOK, WorkerTypeOK
  <2>2. OnItsWay(e) => OnItsWay(e)'
    BY <1>1, <2>1, QueueMoves DEF OnItsWay, At
  <2> QED
    BY <1>1, <2>1, <2>2, StaysOnItsWay
<1>3. CASE ClaimWon(w) \/ ClaimLost(w)
  <2>1. /\ queue' = queue /\ error' = error
        /\ \A v \in Workers \ {w} : At(v, "claim")' <=> At(v, "claim")
    BY <1>1, <1>3 DEF ClaimWon, ClaimLost, mailVars, At
  <2>2. m \in Mails
    BY <1>3, MailInHand DEF ClaimWon, ClaimLost, At
  <2>3. started'[m] /\ (e # m => started'[e] = started[e])
    BY <1>3, <2>2 DEF ClaimWon, ClaimLost, mailVars, TypeOK, MailTypeOK
  <2>4. CASE e = m
    BY <2>3, <2>4 DEF Forgotten
  <2>5. CASE e # m
    <3>1. OnItsWay(e) => OnItsWay(e)'
      BY <1>1, <2>1, <2>5 DEF OnItsWay, At
    <3> QED
      BY <1>1, <2>1, <2>3, <2>5, <3>1, StaysOnItsWay
  <2> QED
    BY <2>4, <2>5
<1>4. CASE \/ Fault(w)
           \/ Work(w) /\ ~ClaimWon(w) /\ ~ClaimLost(w)
  <2>1. ~At(w, "claim") /\ queue' = queue
    BY <1>4 DEF Work, Consume, QuotaStep, QuotaCharge, DenyMail, DenyAddress, MarkProcessing,
       Analyze, Publish, Finish, Fault, ExceptMail, ExceptAddress, At, TryStep
  <2>2. OnItsWay(e) => OnItsWay(e)'
    BY <1>1, <2>1 DEF OnItsWay, At
  <2>3. CASE DenyMail(w)
    <3>1. m \in Mails
      BY <2>3, MailInHand DEF DenyMail, At
    <3>2. error'[m] = "limit" /\ (e # m => started'[e] = started[e] /\ error'[e] = error[e])
      BY <2>3, <3>1 DEF DenyMail, TypeOK, MailTypeOK
    <3>3. CASE e = m
      BY <3>2, <3>3 DEF Forgotten
    <3> QED
      BY <1>1, <2>2, <3>2, <3>3, StaysOnItsWay
  <2>4. CASE ExceptMail(w)
    <3>1. started' = started /\ error'[e] \in {error[e], "failure"}
      BY <2>4 DEF ExceptMail, TypeOK, MailTypeOK
    <3> QED
      BY <1>1, <2>2, <3>1, StaysOnItsWay
  <2>5. CASE ~DenyMail(w) /\ ~ExceptMail(w)
    <3>1. started' = started /\ error' = error
      BY <1>4, <2>5 DEF Work, Consume, QuotaStep, QuotaCharge, DenyAddress, MarkProcessing,
         Analyze, Publish, Finish, Fault, ExceptAddress, mailVars
    <3> QED
      BY <1>1, <2>2, <3>1, StaysOnItsWay
  <2> QED
    BY <2>3, <2>4, <2>5
<1>5. CASE ClaimFails(w) \/ ExceptFails(w) \/ Crash(w)
  <2>1. /\ queue' = queue /\ error' = error
        /\ \A f \in Mails : ~started'[f] => ~started[f]
    BY <1>5 DEF ClaimFails, ExceptFails, Crash, mailVars, TypeOK, MailTypeOK
  <2>2. ~(At(w, "claim") /\ m = e)
    BY <1>5, BreaksOffWhen
  <2>3. OnItsWay(e) => OnItsWay(e)'
    BY <1>1, <2>1, <2>2 DEF OnItsWay, At
  <2> QED
    BY <1>1, <2>1, <2>3, StaysOnItsWay
<1> QED
  BY <1>2, <1>3, <1>4, <1>5 DEF Trouble

(* A poll that makes a mail free for analysis queues its task, unless it   *)
(* took the mail for claimed.                                              *)
LEMMA PollForgetsNone ==
    ASSUME TypeOK, NEW p \in Pollers, Answer(p) \/ (\E m \in Mails : Check(p, m)),
           NEW e \in Mails, ~Forgotten(e), ~StaleClear(e)
    PROVE  ~Forgotten(e)'
<1>1. /\ poller \in [Pollers -> [step : {"idle", "quota", "clear", "delay"},
                                 mail : 0..received, started : BOOLEAN]]
      /\ \A q \in Pollers : poller[q].mail = 0 <=> poller[q].step = "idle"
  BY DEF TypeOK, PollerTypeOK
<1>2. /\ \A q \in Pollers \ {p} : poller'[q] = poller[q]
      /\ session' = session /\ worker' = worker /\ received' = received /\ started' = started
  BY <1>1 DEF Answer, CheckQuota, CheckClear, CheckDelay, Check, CheckBlocked,
     CheckUnclaimed, mailVars
<1>3. CASE CheckQuota(p) \/ \E m \in Mails : Check(p, m)
  <2>1. poller[p].step # "delay" /\ queue' = queue /\ error' = error
    BY <1>3 DEF CheckQuota, Check, CheckBlocked, CheckUnclaimed, mailVars
  <2>2. OnItsWay(e) => OnItsWay(e)'
    BY <1>2, <2>1 DEF OnItsWay, At
  <2> QED
    BY <1>2, <2>1, <2>2, StaysOnItsWay
<1>4. CASE CheckClear(p)
  <2> DEFINE m == poller[p].mail
  <2>1. /\ poller[p].step = "clear" /\ queue' = queue
        /\ error' = [error EXCEPT ![m] = "none"]
        /\ ~poller[p].started => poller'[p].step = "delay" /\ poller'[p].mail = m
    BY <1>1, <1>4 DEF CheckClear, CheckGoesTo
  <2>2. OnItsWay(e) => OnItsWay(e)'
    BY <1>2, <2>1 DEF OnItsWay, At
  <2>3. error'[e] = IF e = m THEN "none" ELSE error[e]
    BY <2>1 DEF TypeOK, MailTypeOK
  <2>4. CASE e = m /\ ~poller[p].started
    BY <2>1, <2>4 DEF OnItsWay, Forgotten
  <2>5. CASE e = m /\ poller[p].started
    <3>1. error[e] = "none"
      BY <2>1, <2>3, <2>5 DEF StaleClear
    <3> QED
      BY <1>2, <2>2, <3>1, StaysOnItsWay
  <2>6. CASE e # m
    BY <1>2, <2>2, <2>3, <2>6, StaysOnItsWay
  <2> QED
    BY <2>4, <2>5, <2>6
<1>5. CASE CheckDelay(p)
  <2>1. queue' = Append(queue, poller[p].mail) /\ error' = error /\ poller[p].step = "delay"
    BY <1>5 DEF CheckDelay, Enqueue, mailVars
  <2>2. poller[p].mail \in 1..received
    BY <1>1, <2>1 DEF TypeOK, MailTypeOK
  <2>3. /\ \E i \in 1..Len(queue') : queue'[i] = poller[p].mail
        /\ \A i \in 1..Len(queue) : i \in 1..Len(queue') /\ queue'[i] = queue[i]
    BY <2>1, <2>2, QueueMoves
  <2>4. OnItsWay(e) => OnItsWay(e)'
    BY <1>2, <2>1, <2>3 DEF OnItsWay, At
  <2> QED
    BY <1>2, <2>1, <2>4, StaysOnItsWay
<1> QED
  BY <1>3, <1>4, <1>5 DEF Answer

(* A stored mail that is neither claimed nor blocked has a task, or        *)
(* somebody is about to queue one, unless its task broke off before the    *)
(* claim, a delivery or a poll broke off, or a poll cleared its error from *)
(* a stale claim (handle_DATA, analyze_received_mail, check_address).      *)
THEOREM ForgottenOnlyByTrouble == Spec => ForgottenByTrouble
<1>1. TypeOK /\ [Next]_vars => [TroubleForgets]_vars
  <2> SUFFICES ASSUME TypeOK, [Next]_vars, NEW e \in Mails, ~Forgotten(e),
                      ~\E w \in Workers : At(w, "claim") /\ worker[w].mail = e /\ BreaksOff(w),
                      ~(lost' > lost), ~StaleClear(e)
               PROVE  ~Forgotten(e)'
    BY DEF TroubleForgets
  <2>1. /\ ~\E s \in Sessions : DeliveryFails(s)
        /\ ~\E p \in Pollers : CheckFails(p)
    BY DEF DeliveryFails, CheckFails, TypeOK
  <2>2. CASE UNCHANGED vars \/ Midnight \/ \E a \in Addresses : Expire(a)
    <3>1. /\ received' = received /\ started' = started /\ error' = error
          /\ queue' = queue /\ session' = session /\ worker' = worker /\ poller' = poller
      BY <2>2 DEF vars, mailVars, processes, Midnight, Expire
    <3> QED
      BY <3>1 DEF Forgotten, OnItsWay, At
  <2> QED
    BY <2>1, <2>2, IngestForgetsNone, WorkForgetsNone, PollForgetsNone DEF Next
<1> QED
  BY <1>1, PipelineTyped, PTL DEF Spec, ForgottenByTrouble
=============================================================================
