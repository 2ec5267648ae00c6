------------------------------- MODULE Delivery -------------------------------
(***************************************************************************)
(* The way of one message from Postfix into the system: handle_DATA and    *)
(* store_message of src/ingest/lmtp_server.py.  The message has several    *)
(* recipients; the handler stores a copy for each and queues its analysis, *)
(* and answers once.  Whoever Postfix did not hear to be done with it      *)
(* delivers again, until the message is too old.  What Postfix makes of    *)
(* one answer to several recipients is not this program's to say: it takes *)
(* it for some of them.                                                    *)
(***************************************************************************)
EXTENDS Integers

CONSTANTS
    Recipients,    \* the recipients of the message (smtpd_recipient_limit)
    Own,           \* those in MAIL_DOMAIN
    None,          \* no recipient
    MaxAttempts,   \* deliveries Postfix makes within maximal_queue_lifetime
    MaxFailures    \* bound: calls that fail, and crashes of the ingest process

ASSUME DeliveryAssumption ==
    /\ Own \subseteq Recipients /\ None \notin Recipients
    /\ {MaxAttempts, MaxFailures} \subseteq Nat

VARIABLES
    oversize,  \* the message is longer than MESSAGE_SIZE_LIMIT
    queue,     \* Postfix: recipients it has to deliver to
    step,      \* the call the handler is at
    current,   \* the recipient it is at
    todo,      \* recipients its loop has not come to
    raws,      \* recipient |-> copies in GridFS
    mails,     \* recipient |-> mail_events
    tasks,     \* recipient |-> mails whose analysis was queued
    accepted,  \* recipients Postfix heard 250 for
    attempts,  \* deliveries so far
    failures,  \* failures so far
    misheard   \* history: answers Postfix did not take for every recipient

deliveryVars == <<oversize, queue, step, current, todo, raws, mails, tasks,
                  accepted, attempts, failures, misheard>>

stored == <<raws, mails, tasks>>
sender == <<oversize, attempts, misheard>>

DeliveryInit ==
    /\ oversize \in BOOLEAN
    /\ queue = Recipients
    /\ step = "idle" /\ current = None /\ todo = {}
    /\ raws = [r \in Recipients |-> 0]
    /\ mails = [r \in Recipients |-> 0]
    /\ tasks = [r \in Recipients |-> 0]
    /\ accepted = {}
    /\ attempts = 0 /\ failures = 0 /\ misheard = 0

-----------------------------------------------------------------------------
(* Postfix delivers to everyone left. *)
Send ==
    /\ step = "idle" /\ queue # {} /\ attempts < MaxAttempts
    /\ attempts' = attempts + 1
    /\ step' = "loop" /\ todo' = queue
    /\ UNCHANGED <<oversize, queue, current, stored, accepted, failures, misheard>>

(* The message is too old: Postfix returns it. *)
GiveUp ==
    /\ step = "idle" /\ queue # {} /\ attempts > 0
    /\ queue' = {}
    /\ UNCHANGED <<sender, step, current, todo, stored, accepted, failures>>

(* The handler has returned or raised, and Postfix heard for which         *)
(* recipients it is done with the message.                                 *)
Answered(heard) ==
    /\ queue' = queue \ heard
    /\ step' = "idle" /\ current' = None /\ todo' = {}
    /\ UNCHANGED <<oversize, attempts>>

(* One answer for several recipients. *)
HeardFor(heard) ==
    /\ heard # {} /\ heard \subseteq queue
    /\ misheard' = IF heard = queue THEN misheard ELSE misheard + 1
    /\ Answered(heard)

(* "552 Message too large", before anything else. *)
TooLarge ==
    /\ step = "loop" /\ oversize
    /\ \E heard \in SUBSET queue : HeardFor(heard)
    /\ UNCHANGED <<stored, accepted, failures>>

(* A recipient of another domain. *)
Skip ==
    /\ step = "loop" /\ ~oversize
    /\ \E r \in todo \ Own : todo' = todo \ {r}
    /\ UNCHANGED <<sender, queue, step, current, stored, accepted, failures>>

(* store_message, in to_thread: GridFS first, *)
StoreRaw ==
    /\ step = "loop" /\ ~oversize
    /\ \E r \in todo \cap Own :
          /\ todo' = todo \ {r} /\ current' = r
          /\ raws' = [raws EXCEPT ![r] = @ + 1]
    /\ step' = "event"
    /\ UNCHANGED <<sender, queue, mails, tasks, accepted, failures>>

(* then the mail, *)
StoreMail ==
    /\ step = "event"
    /\ mails' = [mails EXCEPT ![current] = @ + 1]
    /\ step' = "address"
    /\ UNCHANGED <<sender, queue, current, todo, raws, tasks, accepted, failures>>

(* Mutant: the loop goes on without a task. *)
UpdateOnly ==
    /\ step = "address"
    /\ step' = "loop" /\ current' = None
    /\ UNCHANGED <<sender, queue, todo, stored, accepted, failures>>

(* then its address, whose record AnalysisPipeline has. *)
Update ==
    /\ step = "address"
    /\ step' = "delay"
    /\ UNCHANGED <<sender, queue, current, todo, stored, accepted, failures>>

(* analyze_received_mail.delay *)
Queue ==
    /\ step = "delay"
    /\ tasks' = [tasks EXCEPT ![current] = @ + 1]
    /\ step' = "loop" /\ current' = None
    /\ UNCHANGED <<sender, queue, todo, raws, mails, accepted, failures>>

(* Mutant: the mail that could not be stored is passed over. *)
StoreFailsQuietly ==
    /\ \/ step = "loop" /\ ~oversize /\ \E r \in todo \cap Own : todo' = todo \ {r}
       \/ step \in {"event", "address"} /\ UNCHANGED todo
    /\ failures < MaxFailures /\ failures' = failures + 1
    /\ step' = "loop" /\ current' = None
    /\ UNCHANGED <<sender, queue, stored, accepted>>

(* A call of store_message raises: "451 Temporary failure, try again". *)
StoreFails ==
    /\ \/ step = "loop" /\ ~oversize /\ todo \cap Own # {}
       \/ step \in {"event", "address"}
    /\ failures < MaxFailures /\ failures' = failures + 1
    /\ Answered({})
    /\ UNCHANGED <<stored, accepted, misheard>>

(* delay raises outside the try: the server answers 500, which is final    *)
(* for the sender, and no later recipient is stored; or not at all.        *)
QueueFails ==
    /\ step = "delay"
    /\ failures < MaxFailures /\ failures' = failures + 1
    /\ \E heard \in SUBSET queue : Answered(heard)
    /\ UNCHANGED <<stored, accepted, misheard>>

(* The process dies: the connection is gone. *)
Crash ==
    /\ step # "idle"
    /\ failures < MaxFailures /\ failures' = failures + 1
    /\ Answered({})
    /\ UNCHANGED <<stored, accepted, misheard>>

(* Mutant: the last answer is temporary. *)
AcceptTemporarily ==
    /\ step = "loop" /\ ~oversize /\ todo = {}
    /\ Answered({})
    /\ UNCHANGED <<stored, accepted, failures, misheard>>

(* "250 Message accepted" *)
Accept ==
    /\ step = "loop" /\ ~oversize /\ todo = {}
    /\ \E heard \in SUBSET queue :
          /\ accepted' = accepted \cup heard
          /\ HeardFor(heard)
    /\ UNCHANGED <<stored, failures>>

Handler ==
    \/ TooLarge \/ Skip \/ StoreRaw \/ StoreMail \/ Update \/ Queue \/ Accept

DeliveryNext ==
    \/ Send \/ GiveUp \/ Handler \/ StoreFails \/ QueueFails \/ Crash

DeliverySpec == DeliveryInit /\ [][DeliveryNext]_deliveryVars

-----------------------------------------------------------------------------
(* Types; the loop is at a recipient exactly between storing and queueing. *)
DeliveryTypeOK ==
    /\ oversize \in BOOLEAN
    /\ queue \subseteq Recipients /\ todo \subseteq queue /\ accepted \subseteq Recipients
    /\ step \in {"idle", "loop", "event", "address", "delay"}
    /\ IF step \in {"event", "address", "delay"}
       THEN current \in (queue \cap Own) \ todo ELSE current = None
    /\ {raws, mails, tasks} \subseteq [Recipients -> Nat]
    /\ attempts \in 0..MaxAttempts /\ failures \in 0..MaxFailures /\ misheard \in Nat

(* Postfix hears 250 for a recipient only when a mail of it is stored and  *)
(* its analysis queued, whatever failed before: none is lost on the way    *)
(* (the answer comes after the loop, and a failure ends it).               *)
AcceptedQueued ==
    \A r \in accepted \cap Own : tasks[r] >= 1

(* A recipient has no more copies that no task belongs to, in GridFS alone *)
(* or as mails only a poll will queue, than there were failures: a         *)
(* redelivery adds none of its own (store_message's order, handle_DATA).   *)
LeftoversBounded ==
    \A r \in Recipients :
        /\ tasks[r] <= mails[r] /\ mails[r] <= raws[r]
        /\ raws[r] <= tasks[r] + failures + (IF r = current THEN 1 ELSE 0)

(* A recipient gets a message twice, and its owner is charged twice, only  *)
(* by a failure or by an answer Postfix did not take for everyone.         *)
CopiesExplained ==
    \A r \in Recipients : raws[r] <= 1 + failures + misheard

(* A message that met neither a failure nor an answer that was not taken   *)
(* for everyone is, once it is settled, stored and queued exactly once for *)
(* each recipient of MAIL_DOMAIN (handle_DATA's loop and its one answer).  *)
ExactlyOnce ==
    queue = {} /\ ~oversize /\ failures = 0 /\ misheard = 0 =>
        \A r \in Own : raws[r] = 1 /\ mails[r] = 1 /\ tasks[r] = 1

(* The copies of a recipient that no task belongs to, the one in hand not  *)
(* counted.                                                                *)
Leftover(r) == raws[r] - tasks[r] - (IF r = current THEN 1 ELSE 0)

LeftByFailure ==
    \A r \in Recipients :
        Leftover(r)' > Leftover(r) =>
            /\ failures' > failures
            /\ Leftover(r)' = Leftover(r) + 1
            /\ \A q \in Recipients \ {r} : Leftover(q)' <= Leftover(q)

(* Of all recipients together, a failure leaves one copy at most without a *)
(* task, and nothing else leaves any: the answers and the redeliveries     *)
(* take none out of the handler's hands (handle_DATA's loop, which queues  *)
(* a copy before it stores the next, and returns at the first failure).    *)
LeftoverByFailure == [][LeftByFailure]_deliveryVars
=============================================================================
