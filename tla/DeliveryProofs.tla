---------------------------- MODULE DeliveryProofs ----------------------------
(* What Delivery promises for any number of recipients, deliveries and     *)
(* failures: its types, that an accepted message is stored and queued,     *)
(* what a failure leaves behind, and that without one there is one copy.   *)
EXTENDS Delivery, TLAPS

Counts == [Recipients -> Nat]

(* The copies of the recipient the handler is at, call by call; between    *)
(* deliveries there is no loop.                                            *)
Stored ==
    /\ step = "idle" => todo = {}
    /\ step = "event" => mails[current] < raws[current]
    /\ step \in {"address", "delay"} => tasks[current] < mails[current]

(* Whoever the loop has passed has a task.                                 *)
Passed ==
    step # "idle" /\ ~oversize =>
        \A r \in (queue \cap Own) \ todo : r # current => tasks[r] >= 1

(* A recipient gets one copy at most per delivery, and there is no further *)
(* delivery but for a failure or an answer that was not for everyone.      *)
Tries ==
    /\ \A r \in Recipients :
          raws[r] <= attempts - (IF step # "idle" /\ r \in todo THEN 1 ELSE 0)
    /\ attempts <= failures + misheard + (IF step = "idle" /\ queue # {} THEN 0 ELSE 1)

DeliveryInv ==
    /\ DeliveryTypeOK
    /\ Stored /\ Passed /\ Tries
    /\ AcceptedQueued /\ LeftoversBounded

(* Arithmetic of the deliveries: a failure or a misheard answer pays for   *)
(* the next one.                                                           *)
LEMMA Sums ==
    ASSUME NEW a \in Nat, NEW f \in Nat, NEW m \in Nat, NEW f1 \in Nat, NEW m1 \in Nat,
           a <= f + m + 1, f1 >= f, m1 >= m
    PROVE  /\ a <= f1 + m1 + 1
           /\ f1 + m1 > f + m => a <= f1 + m1
OBVIOUS

(* The end of a delivery, whatever ended it: what was stored stays.        *)
LEMMA Ended ==
    ASSUME DeliveryInv, step # "idle", NEW heard \in SUBSET queue, Answered(heard),
           UNCHANGED stored, failures' \in 0..MaxFailures, misheard' \in Nat,
           accepted' \subseteq Recipients,
           \A r \in accepted' \cap Own : r \in accepted \/ tasks[r] >= 1,
           failures' >= failures, misheard' >= misheard,
           heard # queue => failures' + misheard' > failures + misheard,
           current # None => failures' > failures
    PROVE  DeliveryInv'
<1> USE DeliveryAssumption DEF Counts
<1>0. /\ raws \in Counts /\ mails \in Counts /\ tasks \in Counts
      /\ attempts \in Nat /\ failures \in Nat /\ misheard \in Nat
      /\ failures' \in Nat /\ queue \subseteq Recipients
  BY DEF DeliveryInv, DeliveryTypeOK
<1>1. /\ queue' = queue \ heard /\ step' = "idle" /\ current' = None /\ todo' = {}
      /\ UNCHANGED <<oversize, attempts, raws, mails, tasks>>
  BY DEF Answered, stored
<1>2. DeliveryTypeOK' /\ Stored'
  BY <1>1 DEF DeliveryInv, DeliveryTypeOK, Stored
<1>3. Passed' /\ AcceptedQueued'
  BY <1>1 DEF DeliveryInv, Passed, AcceptedQueued
<1>4. Tries'
  <2>1. \A r \in Recipients : raws[r] <= attempts
    BY <1>0 DEF DeliveryInv, Tries
  <2>2. attempts <= failures + misheard + 1
    BY <1>0 DEF DeliveryInv, Tries
  <2>3. misheard' \in Nat /\ failures' >= failures /\ misheard' >= misheard
    OBVIOUS
  <2>4. queue' # {} => heard # queue
    BY <1>1
  <2>5. queue' # {} => failures' + misheard' > failures + misheard
    BY <2>4
  <2>6. /\ attempts <= failures' + misheard' + 1
        /\ failures' + misheard' > failures + misheard => attempts <= failures' + misheard'
    BY <1>0, <2>2, <2>3, Sums
  <2>7. attempts' = attempts /\ step' = "idle"
    BY <1>1
  <2>8. ASSUME NEW r \in Recipients
        PROVE  raws'[r] <= attempts' - (IF step' # "idle" /\ r \in todo' THEN 1 ELSE 0)
    BY <1>0, <1>1, <2>1
  <2>9. attempts' <= failures' + misheard' + (IF step' = "idle" /\ queue' # {} THEN 0 ELSE 1)
    <3>1. CASE queue' # {}
      BY <2>5, <2>6, <2>7, <3>1
    <3>2. CASE queue' = {}
      BY <2>6, <2>7, <3>2
    <3> QED
      BY <3>1, <3>2
  <2> QED
    BY <2>8, <2>9 DEF Tries
<1>5. LeftoversBounded'
  <2>1. ASSUME NEW r \in Recipients
        PROVE  /\ tasks[r] <= mails[r] /\ mails[r] <= raws[r]
               /\ raws[r] <= tasks[r] + failures'
    <3>1. /\ tasks[r] <= mails[r] /\ mails[r] <= raws[r]
          /\ raws[r] <= tasks[r] + failures + (IF r = current THEN 1 ELSE 0)
      BY DEF DeliveryInv, LeftoversBounded
    <3>2. r = current => failures' >= failures + 1
      BY <1>0
    <3> QED
      <4>1. raws[r] \in Nat /\ tasks[r] \in Nat
        BY <1>0
      <4> QED
        BY <1>0, <3>1, <3>2, <4>1
  <2> QED
    BY <1>0, <1>1, <2>1 DEF LeftoversBounded
<1> QED
  BY <1>2, <1>3, <1>4, <1>5 DEF DeliveryInv

(* Each call of the handler, each failure and each step of Postfix.        *)
LEMMA DeliveryStep == DeliveryInv /\ [DeliveryNext]_deliveryVars => DeliveryInv'
<1> SUFFICES ASSUME DeliveryInv, [DeliveryNext]_deliveryVars
             PROVE  DeliveryInv'
  OBVIOUS
<1> USE DeliveryAssumption
<1>0. /\ raws \in Counts /\ mails \in Counts /\ tasks \in Counts
      /\ attempts \in Nat /\ failures \in Nat /\ misheard \in Nat
      /\ queue \subseteq Recipients /\ todo \subseteq queue /\ accepted \subseteq Recipients
  BY DEF DeliveryInv, DeliveryTypeOK, Counts
<1>1. CASE Send
  <2>1. current = None
    BY <1>1 DEF Send, DeliveryInv, DeliveryTypeOK
  <2>2. DeliveryTypeOK' /\ Stored'
    BY <1>0, <1>1, <2>1 DEF Send, stored, DeliveryInv, DeliveryTypeOK, Stored
  <2>3. AcceptedQueued' /\ LeftoversBounded'
    BY <1>1 DEF Send, stored, DeliveryInv, AcceptedQueued, LeftoversBounded
  <2>4. Passed'
    BY <1>1 DEF Send, Passed
  <2>5. Tries'
    BY <1>0, <1>1 DEF Send, stored, DeliveryInv, Tries, Counts
  <2> QED
    BY <2>2, <2>3, <2>4, <2>5 DEF DeliveryInv
<1>2. CASE GiveUp
  <2>1. /\ queue' = {} /\ step = "idle" /\ todo = {}
        /\ UNCHANGED <<oversize, step, current, todo, raws, mails, tasks, accepted,
                       attempts, failures, misheard>>
    BY <1>2 DEF GiveUp, sender, stored, DeliveryInv, Stored
  <2>2. DeliveryTypeOK' /\ Stored'
    BY <2>1 DEF DeliveryInv, DeliveryTypeOK, Stored
  <2>3. Passed' /\ AcceptedQueued' /\ LeftoversBounded'
    BY <2>1 DEF DeliveryInv, Passed, AcceptedQueued, LeftoversBounded
  <2>4. Tries'
    BY <1>0, <2>1 DEF DeliveryInv, Tries, Counts
  <2> QED
    BY <2>2, <2>3, <2>4 DEF DeliveryInv
<1>3. CASE Skip
  <2>1. PICK r \in todo \ Own : todo' = todo \ {r}
    BY <1>3 DEF Skip
  <2>2. UNCHANGED <<oversize, queue, step, current, raws, mails, tasks, accepted,
                   attempts, failures, misheard>> /\ step = "loop"
    BY <1>3 DEF Skip, sender, stored
  <2>3. DeliveryTypeOK' /\ Stored'
    BY <2>1, <2>2 DEF DeliveryInv, DeliveryTypeOK, Stored
  <2>4. Passed' /\ AcceptedQueued' /\ LeftoversBounded'
    BY <2>1, <2>2 DEF DeliveryInv, Passed, AcceptedQueued, LeftoversBounded
  <2>5. Tries'
    BY <1>0, <2>1, <2>2 DEF DeliveryInv, Tries, Counts
  <2> QED
    BY <2>3, <2>4, <2>5 DEF DeliveryInv
<1>4. CASE StoreRaw
  <2>1. PICK r \in todo \cap Own : /\ todo' = todo \ {r} /\ current' = r
                                  /\ raws' = [raws EXCEPT ![r] = @ + 1]
    BY <1>4 DEF StoreRaw
  <2>2. /\ UNCHANGED <<oversize, queue, mails, tasks, accepted, attempts, failures, misheard>>
        /\ step = "loop" /\ step' = "event" /\ current = None
    BY <1>4 DEF StoreRaw, sender, DeliveryInv, DeliveryTypeOK
  <2>3. /\ raws' \in Counts /\ raws'[r] = raws[r] + 1
        /\ \A q \in Recipients \ {r} : raws'[q] = raws[q]
    BY <1>0, <2>1 DEF Counts
  <2>4. r \in Recipients /\ r # None /\ mails[r] \in Nat /\ raws[r] \in Nat /\ tasks[r] \in Nat
    BY <1>0, <2>1 DEF Counts
  <2>5. DeliveryTypeOK'
    BY <1>0, <2>1, <2>2, <2>3 DEF DeliveryInv, DeliveryTypeOK, Counts
  <2>6. LeftoversBounded'
    <3>1. \A q \in Recipients : /\ tasks[q] <= mails[q] /\ mails[q] <= raws[q]
                                /\ raws[q] <= tasks[q] + failures
      BY <1>0, <2>2 DEF DeliveryInv, LeftoversBounded, Counts
    <3> QED
      BY <1>0, <2>1, <2>2, <2>3, <2>4, <3>1 DEF LeftoversBounded, Counts
  <2>7. Stored'
    BY <2>1, <2>2, <2>3, <2>4 DEF DeliveryInv, LeftoversBounded, Stored
  <2>8. Passed' /\ AcceptedQueued'
    BY <2>1, <2>2 DEF DeliveryInv, Passed, AcceptedQueued
  <2>9. Tries'
    <3>1. \A q \in Recipients : raws'[q] <= attempts - (IF q \in todo' THEN 1 ELSE 0)
      BY <1>0, <2>1, <2>2, <2>3, <2>4 DEF DeliveryInv, Tries, Counts
    <3> QED
      BY <2>2, <3>1 DEF DeliveryInv, Tries
  <2> QED
    BY <2>5, <2>6, <2>7, <2>8, <2>9 DEF DeliveryInv
<1>5. CASE StoreMail
  <2>1. /\ UNCHANGED <<oversize, queue, current, todo, raws, tasks, accepted, attempts,
                       failures, misheard>>
        /\ step = "event" /\ step' = "address"
        /\ mails' = [mails EXCEPT ![current] = @ + 1]
    BY <1>5 DEF StoreMail, sender
  <2>2. current \in Recipients /\ current # None
    BY <1>0, <2>1 DEF DeliveryInv, DeliveryTypeOK
  <2>3. /\ mails' \in Counts /\ mails'[current] = mails[current] + 1
        /\ \A q \in Recipients \ {current} : mails'[q] = mails[q]
    BY <1>0, <2>1, <2>2 DEF Counts
  <2>4. DeliveryTypeOK'
    BY <2>1, <2>3 DEF DeliveryInv, DeliveryTypeOK, Counts
  <2>5. mails[current] < raws[current] /\ tasks[current] <= mails[current]
    BY <2>1, <2>2 DEF DeliveryInv, Stored, LeftoversBounded
  <2>6. mails[current] \in Nat /\ raws[current] \in Nat /\ tasks[current] \in Nat
    BY <1>0, <2>2 DEF Counts
  <2>7. Stored'
    BY <2>1, <2>3, <2>5, <2>6 DEF DeliveryInv, Stored
  <2>8. LeftoversBounded'
    BY <1>0, <2>1, <2>3, <2>5, <2>6 DEF DeliveryInv, LeftoversBounded, Counts
  <2>9. Passed' /\ AcceptedQueued' /\ Tries'
    BY <2>1 DEF DeliveryInv, Passed, AcceptedQueued, Tries
  <2> QED
    BY <2>4, <2>7, <2>8, <2>9 DEF DeliveryInv
<1>6. CASE Update
  <2>1. /\ UNCHANGED <<oversize, queue, current, todo, raws, mails, tasks, accepted,
                       attempts, failures, misheard>>
        /\ step = "address" /\ step' = "delay"
    BY <1>6 DEF Update, sender, stored
  <2> QED
    BY <2>1 DEF DeliveryInv, DeliveryTypeOK, Stored, Passed, Tries, AcceptedQueued,
                LeftoversBounded
<1>7. CASE Queue
  <2>1. /\ UNCHANGED <<oversize, queue, todo, raws, mails, accepted, attempts, failures,
                       misheard>>
        /\ step = "delay" /\ step' = "loop" /\ current' = None
        /\ tasks' = [tasks EXCEPT ![current] = @ + 1]
    BY <1>7 DEF Queue, sender
  <2>2. current \in Recipients /\ current # None
    BY <1>0, <2>1 DEF DeliveryInv, DeliveryTypeOK
  <2>3. /\ tasks' \in Counts /\ tasks'[current] = tasks[current] + 1
        /\ \A q \in Recipients \ {current} : tasks'[q] = tasks[q]
    BY <1>0, <2>1, <2>2 DEF Counts
  <2>4. DeliveryTypeOK' /\ Stored'
    BY <2>1, <2>3 DEF DeliveryInv, DeliveryTypeOK, Stored, Counts
  <2>5. mails[current] \in Nat /\ raws[current] \in Nat /\ tasks[current] \in Nat
    BY <1>0, <2>2 DEF Counts
  <2>6. LeftoversBounded'
    <3>1. ASSUME NEW r \in Recipients
          PROVE  /\ tasks'[r] <= mails'[r] /\ mails'[r] <= raws'[r]
                 /\ raws'[r] <= tasks'[r] + failures
      <4>1. /\ tasks[r] <= mails[r] /\ mails[r] <= raws[r]
            /\ raws[r] <= tasks[r] + failures + (IF r = current THEN 1 ELSE 0)
        BY DEF DeliveryInv, LeftoversBounded
      <4>2. tasks[current] < mails[current]
        BY <2>1 DEF DeliveryInv, Stored
      <4> QED
        BY <1>0, <2>1, <2>3, <2>5, <4>1, <4>2 DEF Counts
    <3> QED
      BY <1>0, <2>1, <2>3, <3>1 DEF LeftoversBounded, Counts
  <2>7. \A r \in Recipients : tasks[r] >= 1 => tasks'[r] >= 1
    BY <1>0, <2>3, <2>5 DEF Counts
  <2>8. tasks'[current] >= 1
    BY <2>3, <2>5
  <2>9. Passed' /\ AcceptedQueued'
    BY <1>0, <2>1, <2>7, <2>8 DEF DeliveryInv, Passed, AcceptedQueued
  <2>10. Tries'
    BY <2>1 DEF DeliveryInv, Tries
  <2> QED
    BY <2>4, <2>6, <2>9, <2>10 DEF DeliveryInv
<1>8. CASE Accept
  <2>1. PICK heard \in SUBSET queue : accepted' = accepted \cup heard /\ HeardFor(heard)
    BY <1>8 DEF Accept
  <2>2. /\ step = "loop" /\ ~oversize /\ todo = {} /\ current = None
        /\ UNCHANGED stored /\ failures' = failures
    BY <1>8 DEF Accept, DeliveryInv, DeliveryTypeOK
  <2>3. \A r \in heard \cap Own : tasks[r] >= 1
    BY <1>0, <2>2 DEF DeliveryInv, Passed
  <2>4. /\ Answered(heard)
        /\ misheard' = IF heard = queue THEN misheard ELSE misheard + 1
    BY <2>1 DEF HeardFor
  <2>5. failures' \in 0..MaxFailures
    BY <2>2 DEF DeliveryInv, DeliveryTypeOK
  <2>6. accepted' \subseteq Recipients /\ \A r \in accepted' \cap Own : r \in accepted \/ tasks[r] >= 1
    BY <1>0, <2>1, <2>3
  <2>7. /\ misheard' \in Nat /\ misheard' >= misheard /\ failures' >= failures
        /\ heard # queue => failures' + misheard' > failures + misheard
    BY <1>0, <2>2, <2>4
  <2> QED
    BY <2>2, <2>4, <2>5, <2>6, <2>7, Ended
<1>9. CASE TooLarge
  <2>1. PICK heard \in SUBSET queue : HeardFor(heard)
    BY <1>9 DEF TooLarge
  <2>2. /\ step = "loop" /\ current = None
        /\ UNCHANGED stored /\ failures' = failures /\ accepted' = accepted
    BY <1>9 DEF TooLarge, DeliveryInv, DeliveryTypeOK
  <2>3. /\ Answered(heard)
        /\ misheard' = IF heard = queue THEN misheard ELSE misheard + 1
    BY <2>1 DEF HeardFor
  <2>4. failures' \in 0..MaxFailures
    BY <2>2 DEF DeliveryInv, DeliveryTypeOK
  <2>5. /\ misheard' \in Nat /\ misheard' >= misheard /\ failures' >= failures
        /\ heard # queue => failures' + misheard' > failures + misheard
    BY <1>0, <2>2, <2>3
  <2> QED
    BY <1>0, <2>2, <2>3, <2>4, <2>5, Ended
<1>10. CASE StoreFails \/ QueueFails \/ Crash
  <2>1. PICK heard \in SUBSET queue : Answered(heard)
    BY <1>10 DEF StoreFails, QueueFails, Crash
  <2>2. /\ step # "idle" /\ UNCHANGED <<stored, accepted, misheard>>
        /\ failures < MaxFailures /\ failures' = failures + 1
    BY <1>10 DEF StoreFails, QueueFails, Crash
  <2>3. failures' \in 0..MaxFailures /\ failures' > failures
    BY <1>0, <2>2
  <2>4. /\ misheard' \in Nat /\ misheard' >= misheard /\ failures' >= failures
        /\ heard # queue => failures' + misheard' > failures + misheard
    BY <1>0, <2>2
  <2> QED
    BY <1>0, <2>1, <2>2, <2>3, <2>4, Ended
<1>11. CASE UNCHANGED deliveryVars
  BY <1>11 DEF deliveryVars, DeliveryInv, DeliveryTypeOK, Stored, Passed, Tries,
               AcceptedQueued, LeftoversBounded
<1> QED
  BY <1>1, <1>2, <1>3, <1>4, <1>5, <1>6, <1>7, <1>8, <1>9, <1>10, <1>11
     DEF DeliveryNext, Handler

LEMMA DeliveryKept == DeliverySpec => []DeliveryInv
<1>1. ASSUME DeliveryInit
      PROVE  DeliveryInv
  <2>1. DeliveryTypeOK
    BY <1>1, DeliveryAssumption DEF DeliveryInit, DeliveryTypeOK
  <2>2. Stored /\ Passed /\ Tries /\ AcceptedQueued /\ LeftoversBounded
    BY <1>1, DeliveryAssumption DEF DeliveryInit, Stored, Passed, Tries, AcceptedQueued,
                                    LeftoversBounded
  <2> QED
    BY <2>1, <2>2 DEF DeliveryInv
<1> QED
  BY <1>1, DeliveryStep, PTL DEF DeliverySpec

(* The types, for any number of recipients.                                *)
THEOREM DeliveryTyped == DeliverySpec => []DeliveryTypeOK
<1>1. DeliveryInv => DeliveryTypeOK
  BY DEF DeliveryInv
<1> QED
  BY <1>1, DeliveryKept, PTL

(* No accepted message is lost, for any number of recipients, deliveries   *)
(* and failures.                                                           *)
THEOREM AcceptedAreQueued == DeliverySpec => []AcceptedQueued
<1>1. DeliveryInv => AcceptedQueued
  BY DEF DeliveryInv
<1> QED
  BY <1>1, DeliveryKept, PTL

(* No recipient has more copies without a task than there were failures.   *)
THEOREM LeftoversAreBounded == DeliverySpec => []LeftoversBounded
<1>1. DeliveryInv => LeftoversBounded
  BY DEF DeliveryInv
<1> QED
  BY <1>1, DeliveryKept, PTL

(* Of any number of recipients together, each failure leaves one copy at   *)
(* most without its task, and no other step leaves any.                    *)
THEOREM LeftoversByFailure == DeliverySpec => LeftoverByFailure
<1>1. ASSUME DeliveryInv, [DeliveryNext]_deliveryVars
      PROVE  [LeftByFailure]_deliveryVars
  <2> DEFINE Kept == \A r \in Recipients : Leftover(r)' = Leftover(r)
  <2>0. /\ raws \in Counts /\ tasks \in Counts /\ failures \in Nat
        /\ None \notin Recipients
    BY <1>1, DeliveryAssumption DEF DeliveryInv, DeliveryTypeOK, Counts
  <2>1. \A r \in Recipients : raws[r] \in Nat /\ tasks[r] \in Nat /\ Leftover(r) \in Int
    BY <2>0 DEF Counts, Leftover
  <2>2. CASE Send \/ GiveUp \/ Skip \/ StoreMail \/ Update
    <3>1. UNCHANGED <<raws, tasks, current>>
      BY <2>2 DEF Send, GiveUp, Skip, StoreMail, Update, stored
    <3> QED
      BY <2>1, <3>1 DEF LeftByFailure, Leftover
  <2>3. CASE StoreRaw
    <3>1. PICK r \in Recipients : current' = r /\ raws' = [raws EXCEPT ![r] = @ + 1]
      BY <1>1, <2>3 DEF StoreRaw, DeliveryInv, DeliveryTypeOK
    <3>2. current = None /\ tasks' = tasks
      BY <1>1, <2>3 DEF StoreRaw, DeliveryInv, DeliveryTypeOK
    <3>3. \A q \in Recipients : raws'[q] = raws[q] + (IF q = r THEN 1 ELSE 0)
      BY <2>0, <2>1, <3>1 DEF Counts
    <3>4. Kept
      BY <2>0, <2>1, <3>1, <3>2, <3>3 DEF Leftover
    <3> QED
      BY <2>1, <3>4 DEF LeftByFailure
  <2>4. CASE Queue
    <3>1. /\ current \in Recipients /\ current' = None /\ raws' = raws
          /\ tasks' = [tasks EXCEPT ![current] = @ + 1]
      BY <1>1, <2>4, DeliveryAssumption DEF Queue, DeliveryInv, DeliveryTypeOK
    <3>2. \A q \in Recipients : tasks'[q] = tasks[q] + (IF q = current THEN 1 ELSE 0)
      BY <2>0, <2>1, <3>1 DEF Counts
    <3>3. Kept
      BY <2>0, <2>1, <3>1, <3>2 DEF Leftover
    <3> QED
      BY <2>1, <3>3 DEF LeftByFailure
  <2>5. CASE Accept \/ TooLarge
    <3>1. UNCHANGED <<raws, tasks, current>>
      BY <1>1, <2>5 DEF Accept, TooLarge, HeardFor, Answered, stored, DeliveryInv, DeliveryTypeOK
    <3> QED
      BY <2>1, <3>1 DEF LeftByFailure, Leftover
  <2>6. CASE StoreFails \/ QueueFails \/ Crash
    <3>1. failures' > failures /\ current' = None /\ UNCHANGED <<raws, tasks>>
      BY <2>0, <2>6 DEF StoreFails, QueueFails, Crash, Answered, stored
    <3>2. \A r \in Recipients : Leftover(r)' = Leftover(r) + (IF r = current THEN 1 ELSE 0)
      BY <2>0, <2>1, <3>1 DEF Leftover
    <3> QED
      BY <2>1, <3>1, <3>2 DEF LeftByFailure
  <2> QED
    BY <1>1, <2>2, <2>3, <2>4, <2>5, <2>6 DEF DeliveryNext, Handler
<1> QED
  BY <1>1, DeliveryKept, PTL DEF DeliverySpec, LeftoverByFailure

(* Copies beyond the first come of failures and of answers not taken for   *)
(* everyone.                                                               *)
THEOREM CopiesAreExplained == DeliverySpec => []CopiesExplained
<1>1. ASSUME DeliveryInv
      PROVE  CopiesExplained
  <2>1. /\ raws \in Counts /\ attempts \in Nat /\ failures \in Nat /\ misheard \in Nat
        /\ attempts <= 1 + failures + misheard
    BY <1>1 DEF DeliveryInv, DeliveryTypeOK, Tries, Counts
  <2>2. ASSUME NEW r \in Recipients
        PROVE  raws[r] <= 1 + failures + misheard
    <3>1. raws[r] \in Nat
      BY <2>1 DEF Counts
    <3>2. raws[r] <= attempts - (IF step # "idle" /\ r \in todo THEN 1 ELSE 0)
      BY <1>1 DEF DeliveryInv, Tries
    <3> QED
      BY <2>1, <3>1, <3>2
  <2> QED
    BY <2>2 DEF CopiesExplained
<1> QED
  BY <1>1, DeliveryKept, PTL

-----------------------------------------------------------------------------
(* What nothing went wrong with: everyone is still to be delivered to, or  *)
(* everyone was heard to be accepted.                                      *)
Undisturbed ==
    failures = 0 /\ misheard = 0 /\ ~oversize =>
        queue = Recipients \/ (queue = {} /\ accepted = Recipients)

LEMMA UndisturbedStep ==
    ASSUME DeliveryInv, Undisturbed, [DeliveryNext]_deliveryVars
    PROVE  Undisturbed'
<1>0. /\ failures \in Nat /\ misheard \in Nat /\ attempts \in Nat
      /\ queue \subseteq Recipients /\ accepted \subseteq Recipients
  BY DeliveryAssumption DEF DeliveryInv, DeliveryTypeOK
<1>1. CASE StoreFails \/ QueueFails \/ Crash
  <2>1. failures' = failures + 1
    BY <1>1 DEF StoreFails, QueueFails, Crash
  <2>2. failures' # 0
    BY <1>0, <2>1
  <2> QED
    BY <2>2 DEF Undisturbed
<1>2. CASE TooLarge
  BY <1>2 DEF TooLarge, HeardFor, Answered, Undisturbed
<1>3. CASE Accept
  <2>1. PICK heard \in SUBSET queue : accepted' = accepted \cup heard /\ HeardFor(heard)
    BY <1>3 DEF Accept
  <2>2. failures' = failures /\ oversize' = oversize
    BY <1>3 DEF Accept, HeardFor, Answered
  <2>3. CASE heard = queue
    <3>1. queue' = {} /\ accepted' = accepted \cup queue /\ misheard' = misheard
      BY <2>1, <2>3 DEF HeardFor, Answered
    <3> QED
      BY <1>0, <2>2, <3>1 DEF Undisturbed
  <2>4. CASE heard # queue
    <3>1. misheard' = misheard + 1
      BY <2>1, <2>4 DEF HeardFor
    <3>2. misheard' # 0
      BY <1>0, <3>1
    <3> QED
      BY <3>2 DEF Undisturbed
  <2> QED
    BY <2>3, <2>4
<1>4. CASE GiveUp
  <2>1. attempts <= failures + misheard
    BY <1>0, <1>4 DEF GiveUp, DeliveryInv, Tries
  <2>2. ~(failures = 0 /\ misheard = 0)
    BY <1>0, <1>4, <2>1 DEF GiveUp
  <2> QED
    BY <1>4, <2>2 DEF GiveUp, sender, Undisturbed
<1>5. CASE Send \/ Skip \/ StoreRaw \/ StoreMail \/ Update \/ Queue \/ UNCHANGED deliveryVars
  <2>1. UNCHANGED <<failures, misheard, oversize, queue, accepted>>
    BY <1>5 DEF Send, Skip, StoreRaw, StoreMail, Update, Queue, sender, deliveryVars
  <2> QED
    BY <2>1 DEF Undisturbed
<1> QED
  BY <1>1, <1>2, <1>3, <1>4, <1>5 DEF DeliveryNext, Handler

(* A message that met no trouble is stored and queued exactly once for     *)
(* each of its recipients here, however many there are (handle_DATA).      *)
THEOREM DeliveredOnce == DeliverySpec => []ExactlyOnce
<1>1. DeliveryInit => Undisturbed
  BY DEF DeliveryInit, Undisturbed
<1>2. ASSUME DeliveryInv, Undisturbed
      PROVE  ExactlyOnce
  <2> SUFFICES ASSUME queue = {}, ~oversize, failures = 0, misheard = 0, NEW r \in Own
               PROVE  raws[r] = 1 /\ mails[r] = 1 /\ tasks[r] = 1
    BY DEF ExactlyOnce
  <2>1. r \in Recipients /\ raws \in Counts /\ mails \in Counts /\ tasks \in Counts
    BY <1>2, DeliveryAssumption DEF DeliveryInv, DeliveryTypeOK, Counts
  <2>2. raws[r] \in Nat /\ mails[r] \in Nat /\ tasks[r] \in Nat /\ attempts \in Nat
    BY <1>2, <2>1 DEF DeliveryInv, DeliveryTypeOK, Counts
  <2>3. tasks[r] >= 1
    BY <1>2, <2>1 DEF Undisturbed, DeliveryInv, AcceptedQueued
  <2>4. tasks[r] <= mails[r] /\ mails[r] <= raws[r]
    BY <1>2, <2>1 DEF DeliveryInv, LeftoversBounded
  <2>5. attempts <= 1
    BY <1>2, <2>2 DEF DeliveryInv, Tries
  <2>6. raws[r] <= attempts
    BY <1>2, <2>1, <2>2 DEF DeliveryInv, Tries
  <2> QED
    BY <2>2, <2>3, <2>4, <2>5, <2>6
<1> QED
  BY <1>1, <1>2, DeliveryKept, UndisturbedStep, PTL DEF DeliverySpec
=============================================================================
