# Mail Tester: the verification project

TLA+ models of the Mail Tester (`src/`), TLC runs that check them on small
instances, and TLAPS proofs of what matters most for every instance.

## 1. The system

A browser (or a server with an API key) asks for a disposable address, a mail is
sent to it, and a report with a score comes back.

```
sender -> postfix -LMTP-> ingest -> Mongo + GridFS
             | Redis: does the address exist?   |
browser <- api <-------- Mongo <---- workers <- Redis task queue <- ingest, api
```

| Component | State it keeps | Operations | Source |
|---|---|---|---|
| Daily quota | `users.quota.analyze`, `api_keys.quota`: `daily_limit`, `daily_used`, `reset_at`; for anonymous mails nothing, their reports are counted | `consume_daily_quota`, `get_quota_state` | `worker/limits.py` |
| Analysis task | the mail's `analysis_started_at`, `analysis_id`, `analyzed_at`, `last_error`; `analyses`; the status of the address | `analyze_received_mail`, `claim_mail_event` | `worker/tasks.py`, `worker/limits.py` |
| Ingest | `mail_events`, `raw_mails` | `store_message`, `handle_DATA` | `ingest/lmtp_server.py` |
| Polling API | none of its own; clears `last_error`, queues tasks | `/check`, `/result`, `/limits` | `api/mail_tests.py` |
| Address book | `test_emails`, a Redis key per live address | `/generate`, Postfix's lookup, the TTL index | `api/mail_tests.py`, `ingest/recipient_map.py` |
| Rate limiter | one Redis counter per scope and identity | `hit`, `enforce` | `api/rate_limit.py` |
| API keys | `api_keys` | create, list, revoke, resolve | `api/api_keys.py` |
| Accounts and tokens | `users`, `tokens` | register, login, logout, `current_user` | `api/auth.py`, `api/token.py` |
| History | none | a page of reports, one report | `api/history.py` |
| Scoring | the score of one analysis | `Analyzer.analyze`, `Score` | `processor/analyzer.py`, `score.py` |
| Mail checks | none | SPF, DKIM, DMARC, reverse DNS, blacklists, content, SpamAssassin | `processor/service.py`, `content.py` |

The components share nothing but Mongo and Redis, and no two calls to either are
in a transaction. Every handler is therefore a sequence of atomic calls, and all
processes interleave between them: four worker processes (`docker-compose.yml`,
`-c 4`), the ingest's threads, the API's threads, the TTL monitor of Mongo. That
is where this code is hard: check-then-act over two calls (the quota, the number
of keys), snapshots used after they are stale (`/check`), tasks queued twice (the
ingest queues one and every poll of an unclaimed mail another), exceptions and
crashes between two writes, a retry that only comes from polling browsers, and
midnight in the middle of a call.

What makes each component correct:

- *Daily quota*: a day grants no more than its limit (true with one worker; with
  more, by how much they can overrun it is known); the record never undercounts;
  what is shown as remaining is really left.
- *Analysis task, ingest, polling*: however often its task is queued, a mail is
  analysed by one worker at a time, charged once, reported once, the report is
  final; a denied mail is as good as new; a mail is neither left in "processing"
  nor without a task but by a failure; the newest mail of an address does not
  wait while there is budget.
- *Address book*: an owner has one live address (as many as requests ran side by
  side), and what Postfix accepts is what Mongo calls live, whichever of the calls
  to Mongo and Redis fails.
- *Ingest*: no mail that was answered 250 is lost, a message delivered again has a
  failure or an answer not heard for everyone that explains it, and each failure leaves
  one copy at most without its task.
- *Scoring and mail checks*: the score stays within 0 and 10 and says what was lost,
  no check costs more than README has it, and neither a failing DNS nor a blacklist
  that refuses to answer is held against the sender.
- *Accounts, tokens, API keys*: a token that login returned stays good until it
  expires or is logged out, one that was logged out is not accepted again, and the
  tokens and keys of an account stay bounded however its requests interleave.
- *Rate limiter*: no identity is locked out for ever, whatever call to Redis fails: a
  counter that lost its window gets one from the next request. Which client of an
  account gets through is left open.
- *History*: a walk through the pages returns every report once.

## 2. Modules

| Module | Models | State and actions against the code |
|---|---|---|
| `DailyQuota` | `worker/limits.py`: the budget of accounts and API keys | `quota` is the Mongo record of a holder; `call` is one running `consume_daily_quota` with what it has read; `Begin`, `Read`, `Reset`, `Charge`, `Refuse`, `CountAnonymous` are the calls it makes, in its order; `Remaining` is `get_quota_state`; `granted` is history |
| `AnalysisPipeline` | `tasks.py`, `lmtp_server.py`, `check_address`, the anonymous usage | extends `DailyQuota`: `QuotaStep` and `QuotaCharge` run its actions for the mail in the worker's hand. `received`, `origin`, `started`, `error`, `reported`, `analyzedOn` are the fields of `mail_events`; `reports` counts documents in `analyses`; `status` is that of `test_emails`; `queue` is Celery's Redis list; `session`, `worker`, `poller` are the running handlers, each with the statement it is at and what it has read |
| `AddressBook` | `/generate`, `address_is_live`, the lookup Postfix makes, the TTL index, the expiry of Redis | `record` is `test_emails`, `key` the Redis keys with the time they expire; `request` is one running `/generate` with the call it is at and what it has read: `Find`, `Forget` (one key at a time), `Retire` (`update_many`), `Insert`, `SetKey`, in the code's order, and `BreakOff` anywhere between them |
| `MailReport` | abstract: the life of a mail, absent, open, claimed, written, published | the pipeline implements it with `stage <- Stage` |
| `Delivery` | `handle_DATA` and `store_message` for a message with several recipients, and the sender's retries | `queue` is what Postfix has left to deliver to, `step`, `current` and `todo` are the handler's loop, `raws`, `mails` and `tasks` count a recipient's documents in GridFS and `mail_events` and its queued tasks. One action per call: `StoreRaw`, `StoreMail`, `Update`, `Queue`; the answers are `TooLarge` (552), `StoreFails` (451), `QueueFails` (an exception outside the `try`: 500), `Accept` (250) |
| `Analyzer` | `Analyzer.analyze`, the checks of `service.py` and `content.py` it calls, `spamd_check`, `Score` | `phase` is the check that runs next, one action each in the code's order; `auth` is what SPF and DKIM hand to DMARC, `walk` the names `check_dmarc_record` has asked for, `queries` the blacklist queries still out; `total` is 10 less `_score`, `last` what the last check cost |
| `Access` | `login`, `logout`, `token_save`, `current_user`, `create_key`, `revoke_key` | `sessions` are the documents in `tokens`, `keys` the active ones in `api_keys`, `request` is a running request with the call it is at: `DeleteOld` and `SaveNew` are the two calls of `token_save`, `Authenticate` and `CreateKey` the count and the insert of `create_key` |
| `RateLimit` | `hit`, `enforce` | `used` and `ttl` are the counters in Redis; a request is at `Hit` (INCR and TTL in one transaction) or `Expire`, and both may fail, open |
| `History` | `list_history`, `get_report` | extends `RateLimit`: a request passes its counters before the endpoint. `mine` are the account's documents in `analyses`; `Page` is one page of a client that follows `next_cursor`, whose state is `before` |
| `MCDailyQuota`, `MCAnalysisPipeline`, `MCAddressBook`, `MCDelivery`, `MCAnalyzer`, `MCAccess`, `MCHistory` | | the sets the configurations use |
| `DailyQuotaProofs` | | types, the bound on the counter, both bounds on what is granted, and with one worker the limit |
| `AnalysisPipelineTypes` | | types of the pipeline; every step is a step of `DailyQuota` or leaves it alone |
| `AnalysisPipelineProofs` | | the safety invariants, finality, both refinements, the budget of an anonymous IP, how a mail is abandoned or forgotten |
| `AddressBookProofs`, `DeliveryProofs`, `AnalyzerProofs`, `AccessProofs`, `HistoryProofs` | | every invariant of their module's run |

What is abstracted, and why nothing is lost by it:

- Time is counted in UTC days, as `reset_at` and `utc_day_start` do; `Midnight`
  may come between any two calls. `reset_at` is always a midnight and is the
  number of the day it starts; 0 stands for none.
- A read of the clock and the call to Mongo that follows it are one step in
  `get_quota_state` and at the `analyzed_at` of a report; in
  `consume_daily_quota`, whose `now` is used over several calls, it is kept.
- `fs.put`, parsing, and the analysis itself touch nothing another process reads:
  they are part of the step of the next write. They may raise (`Fault`,
  `DeliveryFails`).
- An address keeps the owner it was generated for; `gone` is a record the TTL index
  deleted. A mail that reaches a gone address has no owner and no IP, as in
  `test_email.get(...)` of `{}`.
- `/check` answers that change nothing (`waiting`, `expired`, `analyzed`, `error`,
  `processing` of a claimed mail) are no steps. `?after` narrows the newest mail to
  the same mail or to none.
- The task is acknowledged when a worker takes it (Celery's default), so it is lost
  when it breaks off: when its worker dies (`Crash`), when reading the event or the
  claim raises, which lie before the `try` (`ClaimFails`; the claim may have been made
  by then), and when an update of the except clause raises in its turn (`ExceptFails`,
  likely in the outage that raised the first exception, so the two count as one
  trouble). An exception after a write that took effect is the write followed by the
  exception.
- A client whose address is not known has the IP "unknown" (`get_request_info`), an IP
  like any other, which all such clients share. A mail to a gone address, or one
  generated with an empty IP, has none (`None`), asks for the usage of "unknown"
  (`limits.py:81`) and is counted for nobody. `serial` runs with `Unknown` the IP of
  its addresses.
- In `AddressBook` time is a counter of ticks, `TTL` of them to an address's life; a
  name drawn at random is one that is new. The rate limit of `/generate` only
  refuses requests, and the budget it shows changes nothing: neither is modelled
  there. A record is deleted (`Reap`) at any time after its `expires_at`; a key is
  gone at the tick it expires.
- `Delivery` follows one message; its messages share nothing but the address record,
  which `AnalysisPipeline` has. LMTP wants an answer for each recipient and
  `handle_DATA` gives one: what the sender makes of it is not in `src/`, so it takes
  it for any of them (`HeardFor`), and the history `misheard` counts when that is
  not for all.
- `Analyzer` counts points in hundredths and in integers. The code subtracts floats
  and rounds to two places at the end; every penalty is a multiple of 0.01 and there
  are at most some forty of them, so rounding gives back the exact sum. Domains are
  known by how they relate to the From domain, texts by their length, and a lookup
  answers, answers that there is nothing, or fails. Labels of a domain are counted,
  not named. SPF's `temperror` is a verdict like the others, as `check_dmarc` takes it:
  with a DMARC record found and no DKIM signature aligned, an SPF evaluation that raised
  costs the mail the point for DMARC, and `DmarcFair` allows it. What SpamAssassin's
  content rules sum up to is any of a set.
- In `Access` a token is its payload, account and expiry, since the JWT of both is
  the same; the API's threads run any number of requests. Passwords, the account's
  status and the log decide nothing that is modelled. Two logins that make a token at
  one time may delete each other's: the history `raced` names those accounts, and
  `SessionsHold` and `LogoutEnds` speak of the others.
- In `RateLimit` a counter above its limit stays where it is (`Raised`): all such
  values are refused alike. In `History` ids are numbers in the order of `_id`, and
  reports are inserted in any order of them, as several workers make them.
- A holder stands for an account or for an API key: `quota_holder` gives both the
  same code.

## 3. Runs

| Run | Instance | Question | Result |
|---|---|---|---|
| `quota_concurrent` | 2 workers, 1 account with limit 2, 3 days | how far can the counter, and what is granted of a day, run over? | `CounterBound`, `MidnightBound`, `OverrunBound` |
| `account` | 2 workers, 1 address of an account with limit 1, 2 mails, 2 days, an exception or a task that breaks off | duplicates, denials, retries, crashes, a failing except clause; the abstract life of a mail; what leaves one unattended? | `TypeOK`, `OneReport`, `ExclusiveWork`, `PaidOnce`, `OpenUnpaid`, `ImplementsReport`, `ReportFinal`, `AbandonedByTrouble`, `ForgottenByTrouble` |
| `serial` | 1 worker, 3 mails to an anonymous address and to an account's of the same IP, "unknown", limits 1, 2 days | is any budget overrun with nobody to race? is what is shown as left really left? is the budget implemented? | `AnonymousBudget`, `DailyBudget`, `CounterCoversGrants`, `RemainingHonest`, `ImplementsQuota` |
| `live` | 1 worker, 2 mails, 2 days, a lost call, fairness | does the newest mail get its report? | `NewestServed`, `ProcessingEnds` |
| `anonymous_overrun` | 2 workers | the IP's budget with two | `AnonymousBudget` violated |
| `older` | 3 mails to one address | is every blocked mail retried? | `BlockedRetried` violated |
| `stale_clear` | an exception | is any mail left in "processing"? | `ProcessingEnds` violated |
| `book` | 2 requests of an account at two IPs and of a visitor without one, 3 addresses, a broken request | how many addresses of an owner live, and do Redis and Mongo agree? | `BookTypeOK`, `LiveBound`, `ReplacedRefused`, `WaitingAccepted` |
| `analysis` | From domains of 1 to 3 labels, 6 blacklists for the IP and 2 for domains, 0 to 3 domains, texts around every bound | caps, outages, DMARC, the score, for every combination of answers | `CapsKept`, `OutageForgiven`, `DmarcFair`, `ResultHonest` |
| `access` | 2 requests, 2 accounts, 1 key each, a token's life of 2 ticks, a broken request | do logins, logouts and keys survive each other? | `SessionBound`, `KeyBound`, `SessionsHold`, `LogoutEnds` |
| `delivery` | 3 recipients, one of another domain, 4 deliveries, 3 failures or crashes | is a mail lost, or delivered twice without a reason? is a message without trouble stored once? what does one failure leave behind? | `AcceptedQueued`, `LeftoversBounded`, `LeftoverByFailure`, `CopiesExplained`, `ExactlyOnce` |
| `history` | 2 clients of an API key, its limit 2 a tick and the history's 1 in 2 ticks, 3 reports, pages of 1 and 2, a failure | does a walk return every report once? does a counter keep its window? is everybody locked out? | `WalkExact`, `WindowOrFailure`, `WalkAdvances`, `NoLockout` |

Types are theorems of every module with proofs (`QuotaTyped`, `PipelineTyped`,
`BookTyped`, `DeliveryTyped`, `AnalyzerTyped`, `AccessTyped`, `HistoryTyped`); the runs
spend a check on those of the pipeline, which include the quota's, and of the address
book, which say that no two requests draw one name. `ReportBacked` is a theorem too,
and what `ImplementsReport` checks implies it: a mail is published from "written" only.

Bounds. Two workers are what a race needs: every race here is between two calls
of `consume_daily_quota` or two claims of one mail, and the proofs cover any
number. Two mails let one use the budget the other is denied; three let a newer
one hide a blocked one. Two queued tasks are a duplicate. Two days (days 0 and 1)
are a midnight in the middle of a call and a retry after it; the quota's own run
has two midnights, so that a call can straddle one while the record is already of
the next day. Three addresses are one that lives, one that replaces it and one
drawn beside it; `TTL` 2 is the least with a tick strictly inside a life. Six
blacklists at 0.4 are one more than the cap of 2.0 needs, and two at 1.0 for each of
two domains two more; up to three labels let the DMARC walk find a record, find nothing and
fail, in every order; a SpamAssassin total lies on either side of its cap. Two
requests of an account are two logins, or a login beside a logout, and the clock
reaches the expiry of a first token, so that a login replaces it. With two own
recipients a failure can come before, between and after their copies; with three
failures and four deliveries it can do so three times and still be followed by a
delivery without one. Three reports are a page, the one that tells that more follows
and one inserted late; two scopes with different windows let one of them refuse
while the other lets pass. The proofs cover every other size.

`MaxTasks`, `MaxFaults`, `MaxBroken` (tasks that break off), `MaxTroubles` (the two
together), `MaxLost`, `MaxClock`, `MaxFailures` and `MaxId` bound what would grow for
ever; with every bound reached the model stops, and so does a message that is settled:
deadlock is not checked for the pipeline, the address book, the delivery and the
history. `account` runs with `MaxLost` 0: a lost call there is for the theorem
(`ForgottenOnlyByTrouble`) and for `live`. The full queue is a bound of the model alone: Redis has
none.

Fairness. In `AnalysisPipeline` (`Fairness`, used by the runs of liveness only): a
handler that is running goes on (weak fairness per delivery, per worker and per
request): these are processes nobody suspends. Idle workers take what is queued:
`WF` of some worker taking. Browsers poll until the report is ready (README: "the
browser polls until it is ready") and the API has a thread for each of them, so a
check of a mail that is possible again and again happens: `SF` per mail, since
other requests may occupy the model's one poller in between. Days pass. Nothing is
assumed of deliveries, expiry, exceptions and tasks that break off. Under the same
assumptions `BlockedRetried` fails, and, with one exception, so does `ProcessingEnds`:
the runs `older` and `stale_clear`. With one task that breaks off `ProcessingEnds`
cannot hold either: nothing releases the claim it made (`tasks.py:32`; the task was
acknowledged when it was taken), so `live` excludes them.

In `HistorySpec` a request goes on while its process lives (`WF` of
`Page`, and of each client's limiter and `GetReport`), time passes, and the walker
asks again after a 429 or an answer it did not get. Nothing is assumed of inserts, of
failures and of the other clients' requests, which have no bound either: they may take
every window before the walker does, for ever, and the limiter promises the walker
nothing against that. So `NoLockout` says that a walk ends or another client of the
account gets through, again and again.

## 4. What the runs found

- `anonymous_overrun`: finished reports are counted, so analyses of one IP that
  run at the same time do not see each other.
- `older`: only the newest mail of an address is ever retried.
- `stale_clear`: `/check` clears `last_error` from an event it read earlier. If a
  worker claimed the mail and failed in between, its error is gone, and the mail
  is "processing" for ever.

Four more things the models show, which no run of their own is spent on:

- The limit of an account is compared with a `daily_used` read in an earlier call
  (`limits.py:75`), so two workers can both grant the last analysis of a day:
  `CounterBound` says that the counter passes the limit by less than the number of
  workers. That is not what is granted. A worker that found the day over resets the
  record unconditionally (`limits.py:70`), whoever has charged it since, and opens the
  whole budget again. While no call crosses midnight (`SameDay`), `n` workers grant a
  limit of `L` up to `n L + n (n - 1) / 2` times a day (`OverrunBound`), with the four
  workers of `docker-compose.yml` 4 L + 6. When a call does, its reset, computed from
  the day it began on, closes the record for the others and starts them again:
  `n (n + 1) (3 L + n - 1) / 6 + n - 1` (`MidnightBound`), with four workers 10 L + 13.
  TLC reaches both for two workers, and the second for three and a limit of 1: there
  the bounds are exact. It takes a reset that lies between its read and
  its write while another worker runs through a budget.
- A poll that read a mail as claimed clears its error after the claim was released
  (`check_address`). If the mail was denied once more in between, it is left without an
  error and without a task, until the next poll queues one: `StaleClear`, one of the
  three ways to be forgotten that `ForgottenByTrouble` allows, and reached by its run.
- The reports of accounts count for the IP they were generated from
  (`limits.py:31`; `AnonymousUsage`), while README says each scope has its own budget.
- Without an account, `/generate` replaces whatever was generated from the same IP,
  addresses of accounts included (`mail_tests.py:95`; `SameOwner`). And a request that
  runs beside another of its owner may retire an address between the insert and the
  key of the one that made it; the key then stays until it expires. `ReplacedRefused`
  says that this is the only way (`raced`).

## 5. Proofs

Assumed are the constants' assumptions, `QuotaAssumption`, `PipelineAssumption`,
`BookAssumption`, `DeliveryAssumption`, `AnalyzerAssumption`, `AccessAssumption`,
`RateAssumption` and `HistoryAssumption`: the workers, and the requests of
`AddressBook` and `Access`, are finitely many and at least one, the addresses of
`AddressBook` finitely many; limits, bounds and points are naturals, a life, a window,
a limit of requests and a page size at least one; `Anonymous` is no holder and `None`
no address or recipient; the walker is one of the clients. All else is for any
workers, holders, limits, addresses, visitors, deliveries, pollers, mails, days,
recipients, lookups, accounts, reports and troubles.

`DailyQuotaProofs`

- `QuotaTyped`: types.
- `CounterBounded`: `used` plus the callers that have passed the comparison and
  not incremented yet (`Pending`) stays below the limit plus the number of
  workers. The property is inductive with the types: a `Read` adds a pending
  caller only when it found the counter below the limit, so that at most all
  workers are pending and the sum stays below; a `Charge` moves one unit from
  pending to used; a `Reset` starts from zero.
- `OverrunBounded`: the hypothesis of `OverrunBound` is that every call ends on the day
  it began (`[]SameDay`), which is so but for the seconds around midnight. `DayInv`
  follows a day's record: until its first reset nothing is granted of the day and
  nobody is pending; from then on, what was granted before the last reset is bounded by
  the number of workers that are no longer to reset it, and what was charged since by
  the limit and the workers still pending. A day that is over keeps its bound, since
  nobody charges it any more.
- `MidnightBounded` has no hypothesis. A call may carry an old `now` (`Behind`), be
  about to reset for the day in question (`Turning`), or have been allowed on it
  (`Charging`; `Flying` are all that may still charge it). A reset by a call that is
  behind expires the record, and that call is then done with its old day: a day has at
  most one round of resets for each worker, and the `m`-th round at most `m` resets,
  each opening the budget once (`Rounds`). `OpenInv` keeps that count while the day is
  today; once a later day has begun, `PastInv` says what was granted together with
  what may still be: a call of the later day resets the record for good. In between,
  while every worker still runs a call of the day, `OpenInv` goes on.
- `SerialBudget`, `SerialCounter`, `SerialRemaining`: with one worker no day grants
  more than the documented limit, the record counts every grant, and what is shown as
  remaining is left. None of the three is inductive: `SerialInv` adds that
  nothing was granted for a day after the record's (so a reset may start from
  zero) and that what the running call has read is what the record still holds.

`AnalysisPipelineTypes`: `PipelineTyped`, and `QuotaSteps` (each step of the
pipeline is one of `DailyQuota` or leaves the budget alone), from which
`RefinesQuota` follows, and with it the bounds of `DailyQuotaProofs` in the running
pipeline (`PipelineCounterBounded`, `PipelineOverrunBounded`,
`PipelineMidnightBounded`, and for one worker `SerialPipelineBudget`,
`SerialPipelineCounter`, `SerialPipelineRemaining`).

`AnalysisPipelineProofs`: the inductive invariant is `SafetyInv`. `OneReport`,
`ExclusiveWork`, `PaidOnce`, `OpenUnpaid` and `ReportBacked` say nothing of what
the statement a worker is at implies, so they are not inductive; `WorkProgress` adds
it: a worker that holds a mail is past the writes its statement comes after and
before all others (a report exists exactly from "publish" on, a charge exactly
from the allowed verdict on). `OnlyStored` adds that a mail being stored is
unclaimed. The proof rests on two lemmas: `SafetyOwnMail` (a worker that writes to
the mail it holds keeps the invariant if what it writes agrees with its next
statement) and `SafetyKept` (a step that gives nobody a mail to hold and writes
nothing of the mails). From it follow `OneReportOnly`, `WorkIsExclusive`,
`ChargedOnce`, `ReleasedUnpaid`, `ReportsExist`, the finality of reports
(`ReportsFinal`) and the refinement of `MailReport` (`RefinesReport`): insert, claim,
denial, report and publication are the five steps of a mail's life, everything
else stutters. On `SafetyInv` rest three more:

- `AnonymousBounded`: whatever the number of workers, an IP gets less than one report a
  day per worker beyond its limit. The reports are counted, not a counter, so the
  invariant adds to them the mails of that IP and day whose worker was allowed and has
  not published yet; the comparison bounds the first, the workers the second. With one
  worker the bound is the limit (`SerialAnonymousBudget`).
- `AbandonedOnlyByTrouble`: a claimed mail without a report or a failure that no worker
  holds became so when the task that had it broke off (a death, an exception before
  the `try` or in the except clause) or by a poll that cleared its failure: one case
  per statement of the handler, for its own mail and for every other, which a step,
  troubles included, never abandons. Without exceptions and tasks that break off
  nothing is abandoned at all (`ProcessingIsHeld`), the safety half of
  `ProcessingEnds`.
- `ForgottenOnlyByTrouble`: whoever takes a mail off its way to a claim puts it back on
  it, claims it, blocks it with an error that the next poll retries, or breaks off. The
  queue gives up one entry to a worker about to claim it, and its others keep their
  order (`QueueMoves`, `StaysOnItsWay`).

`AddressBookProofs`

- `BookTyped`: types, and that no two requests hold one name, which a request's
  insert needs to find its name unused.
- `LiveBounded`: `LiveBound` is inductive with the types. Its sum counts, beside the
  live addresses, the requests about to insert one: `Insert` moves one unit from
  the second to the first, and only `Retire` adds to the second, when it has just
  left its owner no live address (`RetireEmpties`).
- `ReplacedAreRefused`, `WaitingAreAccepted`: neither is inductive. `Neighbours` says
  that requests that run at one time know each other's names; `KeysRetired` adds, for
  every statement a request is at, which of the addresses it replaces have lost their
  key; `KeysOutlive` that any other live address has a key that expires no earlier.

`DeliveryProofs`: the inductive invariant is `DeliveryInv`: the types, the properties,
and three parts they need. `Stored` follows the recipient in hand from call to call;
`Passed` says that whoever the loop has passed has a task, which makes 250 safe to
answer (`AcceptedAreQueued`); `Tries` that a recipient gets at most one copy per
delivery, and that a further delivery has a failure or an answer not taken for
everyone behind it (`CopiesAreExplained`). `LeftoversByFailure` follows step by step:
storing and queueing a copy move it into the handler's hands and out of them, and only
a failure drops what is in hand, one copy of all recipients together. `DeliveredOnce`
needs one more, `Undisturbed`: while nothing went wrong, everyone is still to be
delivered to or everyone was heard to be accepted; with `Tries` there was then one
delivery.

`AnalyzerProofs`: `CapsAreKept` is inductive with the types (each check's cost is
bounded on its own, `SpfCosts`, `ContentCosts`, for any number of lists).
`OutageIsForgiven` needs `Silence`: while nothing answers, the DMARC walk holds
failures only and no list has named the mail. `DmarcIsFair` and `ResultIsHonest`
hold where they are first said, at the step of DMARC and of the score (`Arrivals`),
and nothing changes what they read before the next step.

`AccessProofs`: `SessionBound` and `KeyBound` count the documents of an account and the
requests about to insert one; a step moves one unit from one set to the other, and
adds one only when the other set leaves room (`Counting`). `TokensHold` and
`LogoutsEnd` need `OneAtATime`: an account whose logins did not race has one document
at most and one login at most that makes a token, whose old document has expired;
`Followed` adds that no document is left of a token that was logged out.

`HistoryProofs`: `HistoryInv` adds to types and `WalkExact` that nothing among `before`
has been returned (`Ahead`) and that a walk that is over has no request (`Rests`). The
core is what a page is: the reports on it are above every other below the cursor
(`PageIsTop`), and if no more follow, it holds them all (`LastPage`), by `Least` and
`Greatest` of a set of ids, from the well-foundedness of `Under`. Two action properties
are what `NoLockout` and a walk's end rest on, without fairness: `WindowsAreGiven` (a counter stays
without a window only after a failure and while nobody asks: every other step leaves
it a window, or a request about to set it, counter by counter) and `WalkIsAdvanced` (a
page that is followed by more has a report, by `SomePage`, and its next cursor is below
that).

Only model-checked: liveness (`NewestServed`, `ProcessingEnds`, `NoLockout`), which
needs fairness and ENABLED, out of the prover's reach. Every other property that a run
finds to hold is a theorem, under the hypothesis the run has (one worker, for the
properties of `serial`).

## 6. Plan

In this order, the most important behaviour first; 1 to 7 are done:

1. `DailyQuota`, `AnalysisPipeline`, `MailReport`: the budget and the life of a mail.
2. `AddressBook`: Mongo and Redis against each other.
3. `Delivery`: several recipients, failures, redelivery.
4. `Analyzer`: the checks and the score.
5. `Access`, `RateLimit`, `History`: tokens and keys, the limiter, the cursor walk.
6. The bounds on what concurrent workers grant, the anonymous budget, and the ways a
   mail is left unattended: stated, checked and proved.
7. The steps towards liveness that need no fairness: windows are given, a walk
   advances, a message without trouble is stored once.
8. Left: the same for the pipeline (a poll of a denied mail in a day with budget brings
   its report nearer); `Delivery` as an implementation of at-least-once delivery.

## 7. Not modelled

- Registration (`auth.py:19`): a check for the address and an insert. Of two at a time
  that both find nobody, the unique index on `users.email` (README.md:68) lets one
  succeed; the insert of the other raises.
- Read-only endpoints (`/me`, `/keys`, `/result`, `/limits` beyond `Remaining`) and
  `last_used_at`, `last_login_at`, the system log: nothing decides on them.
- Parsing of mails, `Received` headers, HTML, DNS records and SpamAssassin's report:
  text handling, of which the models have the outcomes. The MX and SMTP checks of
  `service.py` are called by nobody.
- The web pages, settings and container configuration: no state of their own.
