-------------------------- MODULE AnalysisPipeline --------------------------
(***************************************************************************)
(* From a mail that reaches the ingest to its published report:            *)
(*   src/ingest/lmtp_server.py  store_message and handle_DATA,             *)
(*   src/worker/tasks.py        analyze_received_mail,                     *)
(*   src/worker/limits.py       claim_mail_event, the anonymous usage,     *)
(*   src/api/mail_tests.py      check_address.                             *)
(* Each call to Mongo or to the broker is a step of its own; the processes *)
(* interleave between them.  The budget calls are those of DailyQuota.     *)
(***************************************************************************)
EXTENDS DailyQuota, Sequences

CONSTANTS
    Addresses,    \* test addresses that were generated
    AccountOf,    \* address |-> the holder it was generated by, or Anonymous
    IpOf,         \* address |-> the IP it was generated from
    None,         \* Python's None: no address, no IP
    Unknown,      \* the IP "unknown": a client or a mail that shows none
    AnonLimit,    \* ANON_DAILY_LIMIT
    Sessions,     \* LMTP deliveries the ingest runs at a time
    Pollers,      \* /check requests the API runs at a time
    MaxMails,     \* bound: mails stored
    MaxTasks,     \* bound: tasks in the queue
    MaxFaults,    \* bound: exceptions raised in the task's try block
    MaxBroken,    \* bound: tasks that break off, by the death of their worker or
                  \* by an exception outside the try block or in its handler
    MaxTroubles,  \* bound: the two together
    MaxLost       \* bound: ingest or /check calls that fail half way

Workers == Callers
Mails == 1..MaxMails

ASSUME PipelineAssumption ==
    /\ None \notin Addresses
    /\ AccountOf \in [Addresses -> Holders \cup {Anonymous}]
    /\ DOMAIN IpOf = Addresses /\ Unknown # None
    /\ {AnonLimit, MaxMails, MaxTasks, MaxFaults, MaxBroken, MaxTroubles, MaxLost} \subseteq Nat

VARIABLES
    received,    \* mail_events: mails 1..received are stored, by _id
    origin,      \* mail |-> its address, and the owner copied from there
    started,     \* mail |-> analysis_started_at is set
    error,       \* mail |-> last_error: none, the quota's, or an exception
    reported,    \* mail |-> analysis_id is set
    analyzedOn,  \* mail |-> day of analyzed_at, once reported
    reports,     \* analyses: mail |-> documents inserted for it
    status,      \* test_emails: address |-> status, "gone" once deleted
    queue,       \* Celery: the Redis list of tasks, each the mail to analyse
    session,     \* LMTP delivery |-> what it is doing and has read
    worker,      \* worker |-> its task, and the statement it is at
    poller,      \* /check request |-> what it is doing and has read
    charged,     \* history: mail |-> times the quota was charged for it
    faults, broken, lost    \* troubles so far

mailVars  == <<received, origin, started, error, reported, analyzedOn, reports>>
troubles  == <<faults, broken, lost>>
processes == <<session, worker, poller>>
vars == <<quotaVars, mailVars, status, queue, processes, charged, troubles>>

NoOrigin == [to |-> None, account |-> Anonymous, ip |-> None]
NoTask   == [step |-> "idle", mail |-> 0]
NoCheck  == [step |-> "idle", mail |-> 0, started |-> FALSE]
NoMail   == [step |-> "idle", from |-> NoOrigin, mail |-> 0]

(* The steps of analyze_received_mail, in the order of the code; those     *)
(* from "consume" on, but the two of the except clause, are its try block. *)
TryStep    == {"consume", "quota", "denyAddress", "analyze", "publish", "finish"}
WorkerStep == {"idle", "claim", "exceptMail", "exceptAddress"} \cup TryStep

Init ==
    /\ QuotaInit
    /\ received = 0
    /\ origin = [e \in Mails |-> NoOrigin]
    /\ started = [e \in Mails |-> FALSE]
    /\ error = [e \in Mails |-> "none"]
    /\ reported = [e \in Mails |-> FALSE]
    /\ analyzedOn = [e \in Mails |-> 0]
    /\ reports = [e \in Mails |-> 0]
    /\ status = [a \in Addresses |-> "pending"]
    /\ queue = <<>>
    /\ session = [s \in Sessions |-> NoMail]
    /\ worker = [w \in Workers |-> NoTask]
    /\ poller = [p \in Pollers |-> NoCheck]
    /\ charged = [e \in Mails |-> 0]
    /\ faults = 0 /\ broken = 0 /\ lost = 0

-----------------------------------------------------------------------------
(* update_one on test_emails matches nothing once the record is deleted.   *)
SetStatus(a, s) ==
    status' = IF status[a] = "gone" THEN status ELSE [status EXCEPT ![a] = s]

Enqueue(e) ==
    /\ Len(queue) < MaxTasks
    /\ queue' = Append(queue, e)

(* The TTL index of test_emails deletes an address that has expired. *)
Expire(a) ==
    /\ status[a] # "gone"
    /\ status' = [status EXCEPT ![a] = "gone"]
    /\ UNCHANGED <<quotaVars, mailVars, queue, processes, charged, troubles>>

Midnight ==
    /\ NextDay
    /\ UNCHANGED <<mailVars, status, queue, processes, charged, troubles>>

-----------------------------------------------------------------------------
(* store_message: the owner is copied from the address's record, or from   *)
(* nothing when there is no such record any more.                          *)
Lookup(s, a) ==
    /\ session[s].step = "idle"
    /\ received < MaxMails
    /\ LET from == IF status[a] = "gone"
                   THEN [to |-> a, account |-> Anonymous, ip |-> None]
                   ELSE [to |-> a, account |-> AccountOf[a], ip |-> IpOf[a]]
       IN session' = [session EXCEPT ![s] = [step |-> "insert", from |-> from, mail |-> 0]]
    /\ UNCHANGED <<quotaVars, mailVars, status, queue, worker, poller, charged, troubles>>

(* Mutant: the task is queued with the id the mail before it got. *)
InsertStaleId(s) ==
    /\ session[s].step = "insert"
    /\ received < MaxMails
    /\ received' = received + 1
    /\ origin' = [origin EXCEPT ![received + 1] = session[s].from]
    /\ session' = [session EXCEPT ![s] =
                     [step |-> "address", from |-> session[s].from, mail |-> received]]
    /\ UNCHANGED <<quotaVars, started, error, reported, analyzedOn, reports, status,
                   queue, worker, poller, charged, troubles>>

Insert(s) ==
    /\ session[s].step = "insert"
    /\ received < MaxMails
    /\ received' = received + 1
    /\ origin' = [origin EXCEPT ![received + 1] = session[s].from]
    /\ session' = [session EXCEPT ![s] =
                     [step |-> "address", from |-> session[s].from, mail |-> received + 1]]
    /\ UNCHANGED <<quotaVars, started, error, reported, analyzedOn, reports, status,
                   queue, worker, poller, charged, troubles>>

UpdateAddress(s) ==
    /\ session[s].step = "address"
    /\ SetStatus(session[s].from.to, "received")
    /\ session' = [session EXCEPT ![s] =
                     [step |-> "delay", from |-> session[s].from, mail |-> session[s].mail]]
    /\ UNCHANGED <<quotaVars, mailVars, queue, worker, poller, charged, troubles>>

(* handle_DATA: the task is queued once the mail is stored. *)
Delay(s) ==
    /\ session[s].step = "delay"
    /\ Enqueue(session[s].mail)
    /\ session' = [session EXCEPT ![s] = NoMail]
    /\ UNCHANGED <<quotaVars, mailVars, status, worker, poller, charged, troubles>>

(* Mongo or the broker fails, or the ingest dies: what was written stays.  *)
DeliveryFails(s) ==
    /\ session[s].step # "idle"
    /\ lost < MaxLost
    /\ lost' = lost + 1
    /\ session' = [session EXCEPT ![s] = NoMail]
    /\ UNCHANGED <<quotaVars, mailVars, status, queue, worker, poller, charged,
                   faults, broken>>

Ingest(s) == Insert(s) \/ UpdateAddress(s) \/ Delay(s)

-----------------------------------------------------------------------------
(* client_ip or "unknown" *)
AskedFor(ip) == IF ip = None THEN Unknown ELSE ip

(* Mutant: only reports of later days are counted. *)
AnonymousUsageLate(ip, now) ==
    Cardinality({e \in Mails : /\ origin[e].ip = AskedFor(ip)
                               /\ reported[e] /\ analyzedOn[e] > now})

(* get_anonymous_daily_usage: the reports of that IP analysed since the    *)
(* start of the day, whoever owns them.  A mail without an IP asks for     *)
(* those of "unknown", and counts for nobody itself.                       *)
AnonymousUsage(ip, now) ==
    Cardinality({e \in Mails : /\ origin[e].ip = AskedFor(ip)
                               /\ reported[e] /\ analyzedOn[e] >= now})

At(w, step) == worker[w].step = step

GoTo(w, step) == worker' = [worker EXCEPT ![w] = [step |-> step, mail |-> worker[w].mail]]

EndTask(w) == worker' = [worker EXCEPT ![w] = NoTask]

(* A worker takes the next task, acknowledging it at once, and reads its   *)
(* event.                                                                  *)
Take(w) ==
    /\ At(w, "idle")
    /\ queue # <<>>
    /\ queue' = Tail(queue)
    /\ worker' = [worker EXCEPT ![w] = [step |-> "claim", mail |-> Head(queue)]]
    /\ UNCHANGED <<quotaVars, mailVars, status, session, poller, charged, troubles>>

(* Mutant: the claim does not ask for an unclaimed mail. *)
ClaimUnguarded(w) ==
    /\ At(w, "claim")
    /\ started' = [started EXCEPT ![worker[w].mail] = TRUE]
    /\ GoTo(w, "consume")
    /\ UNCHANGED <<quotaVars, received, origin, error, reported, analyzedOn, reports,
                   status, queue, session, poller, charged, troubles>>

(* claim_mail_event: one atomic update, won by whoever finds the mail      *)
(* unclaimed; the others return.                                           *)
ClaimWon(w) ==
    /\ At(w, "claim")
    /\ ~started[worker[w].mail]
    /\ started' = [started EXCEPT ![worker[w].mail] = TRUE]
    /\ GoTo(w, "consume")
    /\ UNCHANGED <<quotaVars, received, origin, error, reported, analyzedOn, reports,
                   status, queue, session, poller, charged, troubles>>

ClaimLost(w) ==
    /\ At(w, "claim")
    /\ started[worker[w].mail]
    /\ EndTask(w)
    /\ UNCHANGED <<quotaVars, mailVars, status, queue, session, poller, charged, troubles>>

(* consume_daily_quota, step by step, for the owner copied into the mail.  *)
Consume(w) ==
    /\ At(w, "consume")
    /\ Begin(w, origin[worker[w].mail].account)
    /\ GoTo(w, "quota")
    /\ UNCHANGED <<mailVars, status, queue, session, poller, charged, troubles>>

QuotaStep(w) ==
    /\ At(w, "quota")
    /\ \/ Read(w) \/ Reset(w) \/ Refuse(w)
       \/ CountAnonymous(w, AnonymousUsage(origin[worker[w].mail].ip, call[w].now) < AnonLimit)
    /\ UNCHANGED <<mailVars, status, queue, processes, charged, troubles>>

QuotaCharge(w) ==
    /\ At(w, "quota")
    /\ Charge(w)
    /\ charged' = [charged EXCEPT ![worker[w].mail] = @ + 1]
    /\ UNCHANGED <<mailVars, status, queue, processes, troubles>>

(* Mutant: the denied mail stays claimed. *)
DenyKeepsClaim(w) ==
    /\ At(w, "quota")
    /\ call[w].step = "denied"
    /\ Leave(w)
    /\ error' = [error EXCEPT ![worker[w].mail] = "limit"]
    /\ GoTo(w, "denyAddress")
    /\ UNCHANGED <<received, origin, started, reported, analyzedOn, reports,
                   status, queue, session, poller, charged, troubles>>

(* Mutant: a denied mail gives back a charge it never made. *)
DenyRefunds(w) ==
    /\ At(w, "quota")
    /\ call[w].step = "denied"
    /\ quota' = [h \in Holders |-> IF h = call[w].holder THEN [quota[h] EXCEPT !.used = @ - 1]
                                                        ELSE quota[h]]
    /\ call' = [call EXCEPT ![w] = Idle]
    /\ error' = [error EXCEPT ![worker[w].mail] = "limit"]
    /\ started' = [started EXCEPT ![worker[w].mail] = FALSE]
    /\ GoTo(w, "denyAddress")
    /\ UNCHANGED <<day, granted, received, origin, reported, analyzedOn, reports,
                   status, queue, session, poller, charged, troubles>>

(* Mutant: the denied mail is released without the quota's error. *)
DenySilently(w) ==
    /\ At(w, "quota")
    /\ call[w].step = "denied"
    /\ Leave(w)
    /\ started' = [started EXCEPT ![worker[w].mail] = FALSE]
    /\ GoTo(w, "denyAddress")
    /\ UNCHANGED <<received, origin, error, reported, analyzedOn, reports,
                   status, queue, session, poller, charged, troubles>>

(* Not allowed: the mail is released with the quota's error, in one        *)
(* update, and then its address is marked.                                 *)
DenyMail(w) ==
    /\ At(w, "quota")
    /\ call[w].step = "denied"
    /\ Leave(w)
    /\ error' = [error EXCEPT ![worker[w].mail] = "limit"]
    /\ started' = [started EXCEPT ![worker[w].mail] = FALSE]
    /\ GoTo(w, "denyAddress")
    /\ UNCHANGED <<received, origin, reported, analyzedOn, reports,
                   status, queue, session, poller, charged, troubles>>

DenyAddress(w) ==
    /\ At(w, "denyAddress")
    /\ SetStatus(origin[worker[w].mail].to, "limit")
    /\ EndTask(w)
    /\ UNCHANGED <<quotaVars, mailVars, queue, session, poller, charged, troubles>>

MarkProcessing(w) ==
    /\ At(w, "quota")
    /\ call[w].step = "allowed"
    /\ Leave(w)
    /\ SetStatus(origin[worker[w].mail].to, "processing")
    /\ GoTo(w, "analyze")
    /\ UNCHANGED <<mailVars, queue, session, poller, charged, troubles>>

(* The raw mail is read and analysed, and the report inserted. *)
Analyze(w) ==
    /\ At(w, "analyze")
    /\ reports' = [reports EXCEPT ![worker[w].mail] = @ + 1]
    /\ GoTo(w, "publish")
    /\ UNCHANGED <<quotaVars, received, origin, started, error, reported, analyzedOn,
                   status, queue, session, poller, charged, troubles>>

(* analysis_id and analyzed_at are set on the mail, in one update. *)
Publish(w) ==
    /\ At(w, "publish")
    /\ reported' = [reported EXCEPT ![worker[w].mail] = TRUE]
    /\ analyzedOn' = [analyzedOn EXCEPT ![worker[w].mail] = day]
    /\ GoTo(w, "finish")
    /\ UNCHANGED <<quotaVars, received, origin, started, error, reports,
                   status, queue, session, poller, charged, troubles>>

Finish(w) ==
    /\ At(w, "finish")
    /\ SetStatus(origin[worker[w].mail].to, "analyzed")
    /\ EndTask(w)
    /\ UNCHANGED <<quotaVars, mailVars, queue, session, poller, charged, troubles>>

(* The call to consume_daily_quota, if one is running, ends with its task. *)
AbandonCall(w) == IF call[w].step = "idle" THEN UNCHANGED quotaVars ELSE Leave(w)

(* An exception in the try block: Mongo, GridFS, the analyser, a mail that *)
(* cannot be parsed.                                                       *)
Fault(w) ==
    /\ worker[w].step \in TryStep
    /\ faults < MaxFaults /\ faults + broken < MaxTroubles
    /\ faults' = faults + 1
    /\ AbandonCall(w)
    /\ GoTo(w, "exceptMail")
    /\ UNCHANGED <<mailVars, status, queue, session, poller, charged, broken, lost>>

(* Mutant: a failed analysis also releases its claim. *)
ExceptRelease(w) ==
    /\ At(w, "exceptMail")
    /\ error' = [error EXCEPT ![worker[w].mail] = "failure"]
    /\ started' = [started EXCEPT ![worker[w].mail] = FALSE]
    /\ GoTo(w, "exceptAddress")
    /\ UNCHANGED <<quotaVars, received, origin, reported, analyzedOn, reports,
                   status, queue, session, poller, charged, troubles>>

(* except: the error is recorded and raised; the claim is kept. *)
ExceptMail(w) ==
    /\ At(w, "exceptMail")
    /\ error' = [error EXCEPT ![worker[w].mail] = "failure"]
    /\ GoTo(w, "exceptAddress")
    /\ UNCHANGED <<quotaVars, received, origin, started, reported, analyzedOn, reports,
                   status, queue, session, poller, charged, troubles>>

ExceptAddress(w) ==
    /\ At(w, "exceptAddress")
    /\ SetStatus(origin[worker[w].mail].to, "error")
    /\ EndTask(w)
    /\ UNCHANGED <<quotaVars, mailVars, queue, session, poller, charged, troubles>>

(* The task raises before its try block: reading the event, or claiming    *)
(* it, with the claim made or not when the error is seen.                  *)
ClaimFails(w) ==
    /\ At(w, "claim")
    /\ broken < MaxBroken /\ faults + broken < MaxTroubles
    /\ broken' = broken + 1
    /\ \/ UNCHANGED started
       \/ started' = [started EXCEPT ![worker[w].mail] = TRUE]
    /\ EndTask(w)
    /\ UNCHANGED <<quotaVars, received, origin, error, reported, analyzedOn, reports,
                   status, queue, session, poller, charged, faults, lost>>

(* An update of the except clause raises in its turn, which the outage     *)
(* behind the first exception makes likely: the two count as one trouble.  *)
(* What the update was to write is missing.                                *)
ExceptFails(w) ==
    /\ worker[w].step \in {"exceptMail", "exceptAddress"}
    /\ faults > 0 /\ faults' = faults - 1
    /\ broken < MaxBroken /\ broken' = broken + 1
    /\ EndTask(w)
    /\ UNCHANGED <<quotaVars, mailVars, status, queue, session, poller, charged, lost>>

(* The worker process dies; its task was acknowledged and does not return. *)
Crash(w) ==
    /\ ~At(w, "idle")
    /\ broken < MaxBroken /\ faults + broken < MaxTroubles
    /\ broken' = broken + 1
    /\ AbandonCall(w)
    /\ EndTask(w)
    /\ UNCHANGED <<mailVars, status, queue, session, poller, charged, faults, lost>>

Trouble(w) == Fault(w) \/ ClaimFails(w) \/ ExceptFails(w) \/ Crash(w)

Work(w) ==
    \/ ClaimWon(w) \/ ClaimLost(w) \/ Consume(w) \/ QuotaStep(w) \/ QuotaCharge(w)
    \/ DenyMail(w) \/ DenyAddress(w)
    \/ MarkProcessing(w) \/ Analyze(w) \/ Publish(w) \/ Finish(w)
    \/ ExceptMail(w) \/ ExceptAddress(w)

-----------------------------------------------------------------------------
(* newest_event: the last mail stored for an address. *)
Newest(e, a) ==
    /\ e \in 1..received
    /\ origin[e].to = a
    /\ \A f \in (e + 1)..received : origin[f].to # a

(* The budget get_quota_state finds left for the owner of a mail. *)
BudgetLeft(e) ==
    IF origin[e].account = Anonymous
    THEN AtLeastZero(AnonLimit - AnonymousUsage(origin[e].ip, day))
    ELSE Remaining(origin[e].account, day)

(* check_address reads the newest mail of the address.  Answers that have  *)
(* no effect (waiting, expired, analyzed, error, processing) are not       *)
(* steps.  The quota's error is looked into; an unclaimed mail is queued.  *)
CheckBlocked(p, e) ==
    /\ poller[p].step = "idle"
    /\ Newest(e, origin[e].to)
    /\ ~reported[e] /\ error[e] = "limit"
    /\ poller' = [poller EXCEPT ![p] = [step |-> "quota", mail |-> e, started |-> started[e]]]
    /\ UNCHANGED <<quotaVars, mailVars, status, queue, session, worker, charged, troubles>>

CheckUnclaimed(p, e) ==
    /\ poller[p].step = "idle"
    /\ Newest(e, origin[e].to)
    /\ ~reported[e] /\ error[e] = "none" /\ ~started[e]
    /\ poller' = [poller EXCEPT ![p] = [step |-> "delay", mail |-> e, started |-> FALSE]]
    /\ UNCHANGED <<quotaVars, mailVars, status, queue, session, worker, charged, troubles>>

CheckGoesTo(p, step) == [step |-> step, mail |-> poller[p].mail, started |-> poller[p].started]

(* Mutant: the last analysis of the budget is not given out. *)
CheckQuotaStrict(p) ==
    /\ poller[p].step = "quota"
    /\ poller' = [poller EXCEPT ![p] = IF BudgetLeft(poller[p].mail) <= 1 THEN NoCheck
                                       ELSE CheckGoesTo(p, "clear")]
    /\ UNCHANGED <<quotaVars, mailVars, status, queue, session, worker, charged, troubles>>

CheckQuota(p) ==
    /\ poller[p].step = "quota"
    /\ poller' = [poller EXCEPT ![p] = IF BudgetLeft(poller[p].mail) <= 0 THEN NoCheck
                                       ELSE CheckGoesTo(p, "clear")]
    /\ UNCHANGED <<quotaVars, mailVars, status, queue, session, worker, charged, troubles>>

(* last_error is cleared, whatever it holds by now; whether the task is    *)
(* queued depends on the claim as it was read.                             *)
CheckClear(p) ==
    /\ poller[p].step = "clear"
    /\ error' = [error EXCEPT ![poller[p].mail] = "none"]
    /\ poller' = [poller EXCEPT ![p] = IF poller[p].started THEN NoCheck
                                       ELSE CheckGoesTo(p, "delay")]
    /\ UNCHANGED <<quotaVars, received, origin, started, reported, analyzedOn, reports,
                   status, queue, session, worker, charged, troubles>>

CheckDelay(p) ==
    /\ poller[p].step = "delay"
    /\ Enqueue(poller[p].mail)
    /\ poller' = [poller EXCEPT ![p] = NoCheck]
    /\ UNCHANGED <<quotaVars, mailVars, status, session, worker, charged, troubles>>

(* The request fails (Mongo, the broker) or the API dies in the middle.    *)
CheckFails(p) ==
    /\ poller[p].step # "idle"
    /\ lost < MaxLost
    /\ lost' = lost + 1
    /\ poller' = [poller EXCEPT ![p] = NoCheck]
    /\ UNCHANGED <<quotaVars, mailVars, status, queue, session, worker, charged,
                   faults, broken>>

Check(p, e) == CheckBlocked(p, e) \/ CheckUnclaimed(p, e)
Answer(p) == CheckQuota(p) \/ CheckClear(p) \/ CheckDelay(p)

-----------------------------------------------------------------------------
Next ==
    \/ \E a \in Addresses : Expire(a) \/ (\E s \in Sessions : Lookup(s, a))
    \/ \E s \in Sessions : Ingest(s) \/ DeliveryFails(s)
    \/ \E w \in Workers : Take(w) \/ Work(w) \/ Trouble(w)
    \/ \E p \in Pollers : \/ \E e \in Mails : Check(p, e)
                          \/ Answer(p) \/ CheckFails(p)
    \/ Midnight

Spec == Init /\ [][Next]_vars

(* Running processes go on, and idle workers take what is queued; browsers *)
(* poll until the report is ready, and the API serves each of them; days   *)
(* pass.                                                                   *)
Fairness ==
    /\ \A s \in Sessions : WF_vars(Ingest(s))
    /\ \A w \in Workers : WF_vars(Work(w))
    /\ \A p \in Pollers : WF_vars(Answer(p))
    /\ WF_vars(\E w \in Workers : Take(w))
    /\ \A e \in Mails : SF_vars(\E p \in Pollers : Check(p, e))
    /\ WF_vars(Midnight)

FairSpec == Spec /\ Fairness

-----------------------------------------------------------------------------
(* Types; a process in the middle of something has a mail that is stored,  *)
(* and a worker's call to consume_daily_quota runs while it is in "quota". *)
Origin ==
    [to      : Addresses \cup {None},
     account : Holders \cup {Anonymous},
     ip      : {IpOf[a] : a \in Addresses} \cup {None}]

MailTypeOK ==
    /\ received \in 0..MaxMails
    /\ origin \in [Mails -> Origin]
    /\ \A e \in 1..received : origin[e].to \in Addresses
    /\ started \in [Mails -> BOOLEAN]
    /\ error \in [Mails -> {"none", "limit", "failure"}]
    /\ reported \in [Mails -> BOOLEAN]
    /\ analyzedOn \in [Mails -> 0..MaxDay]
    /\ reports \in [Mails -> Nat]
    /\ charged \in [Mails -> Nat]

BrokerTypeOK ==
    /\ status \in [Addresses -> {"pending", "received", "processing", "limit",
                                 "analyzed", "error", "gone"}]
    /\ queue \in Seq(1..received)
    /\ Len(queue) <= MaxTasks

SessionTypeOK ==
    /\ session \in [Sessions -> [step : {"idle", "insert", "address", "delay"},
                                 from : Origin, mail : 0..received]]
    /\ \A s \in Sessions :
          /\ session[s].step # "idle" => session[s].from.to \in Addresses
          /\ session[s].step \in {"address", "delay"} => session[s].mail # 0

WorkerTypeOK ==
    /\ worker \in [Workers -> [step : WorkerStep, mail : 0..received]]
    /\ \A w \in Workers :
          /\ worker[w].mail = 0 <=> At(w, "idle")
          /\ call[w].step = "idle" <=> ~At(w, "quota")

PollerTypeOK ==
    /\ poller \in [Pollers -> [step : {"idle", "quota", "clear", "delay"},
                               mail : 0..received, started : BOOLEAN]]
    /\ \A p \in Pollers : poller[p].mail = 0 <=> poller[p].step = "idle"

TypeOK ==
    /\ QuotaTypeOK
    /\ MailTypeOK
    /\ BrokerTypeOK
    /\ SessionTypeOK
    /\ WorkerTypeOK
    /\ PollerTypeOK
    /\ {faults, broken, lost} \subseteq Nat

(* The worker that won the claim of e and has not released it. *)
Holds(w, e) ==
    /\ worker[w].mail = e
    /\ worker[w].step \in {"consume", "quota", "analyze", "publish", "finish"}

(* However many copies of its task are queued, by the ingest and by every  *)
(* poll, a mail never gets a second report (claim_mail_event).             *)
OneReport == \A e \in Mails : reports[e] <= 1

(* Two workers never analyse one mail at a time, and a mail that is being  *)
(* analysed is claimed (claim_mail_event and the release on denial).       *)
ExclusiveWork ==
    \A e \in Mails, v, w \in Workers :
        /\ Holds(w, e) => started[e]
        /\ Holds(v, e) /\ Holds(w, e) => v = w

(* A mail of an account is charged at most once, through denials, retries  *)
(* and troubles, and no report of an account is written without a charge    *)
(* (consume_daily_quota inside the claim).                                 *)
PaidOnce ==
    \A e \in Mails :
        /\ charged[e] <= 1
        /\ origin[e].account # Anonymous => reports[e] <= charged[e]

(* A mail that nobody has claimed has not been charged and has no report:  *)
(* what the quota releases can be retried from the start.                  *)
OpenUnpaid == \A e \in Mails : ~started[e] => charged[e] = 0 /\ reports[e] = 0

(* A mail that names a report has one: /check and /result never answer     *)
(* "analysis missing".                                                     *)
ReportBacked == \A e \in Mails : reported[e] => reports[e] = 1

(* What the statement a worker is at says of the mail it holds: the charge *)
(* and the report come in the order of analyze_received_mail, each once.   *)
(* This is what makes the five invariants above inductive.                 *)
WorkState(w, e) ==
    /\ reports[e] = IF worker[w].step \in {"publish", "finish"} THEN 1 ELSE 0
    /\ reported[e] <=> At(w, "finish")
    /\ At(w, "consume") => charged[e] = 0
    /\ At(w, "quota") =>
          /\ call[w].holder = origin[e].account
          /\ call[w].step = "count" => call[w].holder = Anonymous
          /\ charged[e] = IF call[w].step = "allowed" /\ call[w].holder # Anonymous
                          THEN 1 ELSE 0
    /\ worker[w].step \in {"analyze", "publish", "finish"} =>
          (charged[e] = 1 <=> origin[e].account # Anonymous)

WorkProgress ==
    \A w \in Workers, e \in Mails : Holds(w, e) => WorkState(w, e)

ReportKept ==
    \A e \in Mails :
        reported[e] => /\ reported'[e]
                       /\ reports'[e] = reports[e]
                       /\ analyzedOn'[e] = analyzedOn[e]

(* A published report is final: no later task, denial, error or poll       *)
(* withdraws it, writes another, or moves its day (which is what the       *)
(* anonymous usage counts).                                                *)
ReportFinal == [][ReportKept]_vars

(* The reports an IP got on a day without an account. *)
AnonymousReports(a, d) ==
    {e \in Mails : /\ origin[e].account = Anonymous /\ origin[e].ip = IpOf[a]
                   /\ reported[e] /\ analyzedOn[e] = d}

(* w is to write the fate of e: it holds it, or is to record its failure.  *)
InHand(w, e) == Holds(w, e) \/ (worker[w].mail = e /\ At(w, "exceptMail"))

(* A claimed mail without a report or a failure, which nobody works on: no *)
(* task will take it, and /check answers "processing" once nothing blocks. *)
Abandoned(e) ==
    /\ started[e] /\ ~reported[e] /\ error[e] # "failure"
    /\ ~\E w \in Workers : InHand(w, e)

(* The worker's process dies, or its task ends with an exception that      *)
(* nothing of the task records.                                            *)
BreaksOff(w) == worker'[w] = NoTask /\ broken' > broken

TroubleAbandons ==
    \A e \in Mails :
        ~Abandoned(e) /\ Abandoned(e)' =>
            \/ \E w \in Workers : worker[w].mail = e /\ BreaksOff(w)
            \/ error[e] = "failure" /\ error'[e] = "none"

(* A mail is abandoned in two ways only: the task that claimed it breaks   *)
(* off, by the death of its worker or by an exception outside the try      *)
(* block or in the except clause, or a poll that read the quota's error    *)
(* clears the failure recorded since.  No exception inside the try block,  *)
(* and no interleaving of tasks, denials and polls, does it otherwise, nor *)
(* a trouble of another mail's worker (analyze_received_mail's release and *)
(* except clause, check_address).                                          *)
AbandonedByTrouble == [][TroubleAbandons]_vars

(* A task for e is queued, or somebody is about to claim it or to queue it. *)
OnItsWay(e) ==
    \/ \E i \in 1..Len(queue) : queue[i] = e
    \/ \E w \in Workers : At(w, "claim") /\ worker[w].mail = e
    \/ \E s \in Sessions : session[s].step \in {"address", "delay"} /\ session[s].mail = e
    \/ \E p \in Pollers : poller[p].step = "delay" /\ poller[p].mail = e

(* A stored mail that nothing blocks, and nobody will analyse unless asked. *)
Forgotten(e) == e \in 1..received /\ ~started[e] /\ error[e] = "none" /\ ~OnItsWay(e)

(* A poll clears the error of a mail that was claimed when the poll read it. *)
StaleClear(e) ==
    /\ error[e] # "none" /\ error'[e] = "none"
    /\ \E p \in Pollers : poller[p].step = "clear" /\ poller[p].mail = e /\ poller[p].started

TroubleForgets ==
    \A e \in Mails :
        ~Forgotten(e) /\ Forgotten(e)' =>
            \/ \E w \in Workers : At(w, "claim") /\ worker[w].mail = e /\ BreaksOff(w)
            \/ lost' > lost
            \/ StaleClear(e)

(* A mail that is neither claimed nor blocked has a task, or somebody is   *)
(* about to queue one: only a delivery or a poll that breaks off, a task   *)
(* that breaks off before its claim, or a poll that takes the mail for     *)
(* claimed while it is denied once more, leaves one without (handle_DATA,  *)
(* check_address, claim_mail_event).                                       *)
ForgottenByTrouble == [][TroubleForgets]_vars

(* The addresses that carry an IP. *)
WithIp == {a \in Addresses : IpOf[a] # None}

(* An anonymous IP, "unknown" among them, gets no more reports on a day    *)
(* than ANON_DAILY_LIMIT, its mails from signed-in addresses left aside    *)
(* (consume_daily_quota).  Mails that carry no IP are counted for nobody.  *)
AnonymousBudget ==
    \A a \in WithIp, d \in 0..MaxDay : Cardinality(AnonymousReports(a, d)) <= AnonLimit

(* The pipeline drives the budget records only as consume_daily_quota      *)
(* does: it implements DailyQuota.                                         *)
ImplementsQuota == QuotaSpec

(* Every mail goes through the life MailReport describes. *)
StageOf(e) ==
    IF e > received THEN "absent"
    ELSE IF reported[e] THEN "published"
    ELSE IF reports[e] # 0 THEN "written"
    ELSE IF started[e] THEN "claimed" ELSE "open"

Stage == [e \in Mails |-> StageOf(e)]

Report == INSTANCE MailReport WITH stage <- Stage

ImplementsReport == Report!ReportSpec

(* A mail that is claimed and shows neither report nor error: what /check  *)
(* answers "processing" to.                                                *)
Processing(e) == e \in 1..received /\ started[e] /\ ~reported[e] /\ error[e] = "none"

(* The browser polls until it is ready: no mail is "processing" for ever.  *)
ProcessingEnds == \A e \in Mails : []<>~Processing(e)

(* The newest mail of an address does not wait for ever while its owner    *)
(* has budget left, be it blocked by the quota or without a task.          *)
NewestServed ==
    \A e \in Mails :
        []<>~(/\ Newest(e, origin[e].to)
              /\ ~reported[e] /\ error[e] # "failure" /\ BudgetLeft(e) > 0)

(* README: "A mail blocked by the quota is retried once the quota frees    *)
(* up."                                                                    *)
BlockedRetried ==
    \A e \in Mails :
        []<>~(error[e] = "limit" /\ ~started[e] /\ ~reported[e] /\ BudgetLeft(e) > 0)
=============================================================================
