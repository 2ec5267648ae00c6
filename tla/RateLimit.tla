------------------------------ MODULE RateLimit ------------------------------
(***************************************************************************)
(* The rate limiter of src/api/rate_limit.py: enforce and hit, on the      *)
(* counters in Redis that the requests of one account share.  A request    *)
(* passes the counters of its scopes one after the other (resolve_api_key  *)
(* has "api_key", then the endpoint has its own).  A counter is raised and *)
(* read in one transaction and given its window in a second call, and      *)
(* either can fail.                                                        *)
(***************************************************************************)
EXTENDS Naturals, Sequences

CONSTANTS
    Clients,     \* who sends requests, each one at a time
    Scopes,      \* the scopes of a request, in the order they are enforced
    Limit,       \* scope |-> requests per window
    Window,      \* scope |-> its window
    NoExpiry,    \* TTL of a key without one
    MaxFailures  \* bound: calls of Redis that fail, and requests that are lost

Counters == {Scopes[i] : i \in DOMAIN Scopes}

ASSUME RateAssumption ==
    /\ Scopes \in Seq(Counters) /\ Scopes # <<>>
    /\ Limit \in [Counters -> Nat \ {0}] /\ Window \in [Counters -> Nat \ {0}]
    /\ NoExpiry \notin Nat /\ MaxFailures \in Nat

VARIABLES
    used,     \* scope |-> its counter; 0: there is no key
    ttl,      \* scope |-> ticks to its expiry, or NoExpiry
    step,     \* client |-> what its request does next
    at,       \* client |-> the scope its request is at
    allowed,  \* client |-> the counter's verdict
    failures  \* failures so far

rateVars == <<used, ttl, step, at, allowed, failures>>

RateInit ==
    /\ used = [k \in Counters |-> 0] /\ ttl = [k \in Counters |-> NoExpiry]
    /\ step = [c \in Clients |-> "idle"] /\ at = [c \in Clients |-> 1]
    /\ allowed = [c \in Clients |-> TRUE] /\ failures = 0

-----------------------------------------------------------------------------
Scope(c) == Scopes[at[c]]

Request(c) ==
    /\ step[c] = "idle"
    /\ step' = [step EXCEPT ![c] = "hit"]
    /\ UNCHANGED <<used, ttl, at, allowed, failures>>

(* What a counter is raised to; above the limit all values are alike. *)
Raised(k) == IF used[k] > Limit[k] THEN used[k] ELSE used[k] + 1

(* enforce: 429, or the next scope, or the endpoint. *)
Enforce(c, ok) ==
    /\ allowed' = [allowed EXCEPT ![c] = ok]
    /\ step' = [step EXCEPT ![c] =
                   IF ~ok THEN "refused"
                   ELSE IF at[c] < Len(Scopes) THEN "hit" ELSE "endpoint"]
    /\ at' = [at EXCEPT ![c] = IF ok /\ @ < Len(Scopes) THEN @ + 1 ELSE @]

(* Mutant: only the first request of a key gives it its window. *)
NeedsWindowOnce(k) == Raised(k) = 1

(* used == 1 or ttl < 0 *)
NeedsWindow(k) == Raised(k) = 1 \/ ttl[k] = NoExpiry

(* INCR and TTL in one transaction. *)
Hit(c) ==
    LET k == Scope(c) IN
    /\ step[c] = "hit"
    /\ used' = [used EXCEPT ![k] = Raised(k)]
    /\ IF NeedsWindow(k)
       THEN /\ step' = [step EXCEPT ![c] = "expire"]
            /\ allowed' = [allowed EXCEPT ![c] = Raised(k) <= Limit[k]]
            /\ UNCHANGED at
       ELSE Enforce(c, Raised(k) <= Limit[k])
    /\ UNCHANGED <<ttl, failures>>

(* The transaction fails, before or after Redis ran it: the limiter fails  *)
(* open.                                                                   *)
HitFails(c) ==
    LET k == Scope(c) IN
    /\ step[c] = "hit"
    /\ failures < MaxFailures /\ failures' = failures + 1
    /\ \/ UNCHANGED used
       \/ used' = [used EXCEPT ![k] = Raised(k)]
    /\ Enforce(c, TRUE)
    /\ UNCHANGED ttl

(* EXPIRE, which does nothing to a key that is gone. *)
Expire(c) ==
    LET k == Scope(c) IN
    /\ step[c] = "expire"
    /\ ttl' = [ttl EXCEPT ![k] = IF used[k] > 0 THEN Window[k] ELSE @]
    /\ Enforce(c, allowed[c])
    /\ UNCHANGED <<used, failures>>

(* except Exception: pass *)
ExpireFails(c) ==
    /\ step[c] = "expire"
    /\ failures < MaxFailures /\ failures' = failures + 1
    /\ Enforce(c, allowed[c])
    /\ UNCHANGED <<used, ttl>>

(* The request is over, and what it knew is gone with it. *)
Return(c) ==
    /\ step' = [step EXCEPT ![c] = "idle"] /\ at' = [at EXCEPT ![c] = 1]
    /\ allowed' = [allowed EXCEPT ![c] = TRUE]
    /\ UNCHANGED <<used, ttl>>

Refused(c) == step[c] = "refused" /\ Return(c) /\ UNCHANGED failures

(* The process dies under the request, or its answer is lost. *)
Lost(c) ==
    /\ step[c] # "idle"
    /\ failures < MaxFailures /\ failures' = failures + 1
    /\ Return(c)

(* Time passes, and a key whose time is over goes. *)
Tick ==
    /\ \E k \in Counters : ttl[k] # NoExpiry
    /\ ttl' = [k \in Counters |-> IF ttl[k] \in {NoExpiry, 1} THEN NoExpiry ELSE ttl[k] - 1]
    /\ used' = [k \in Counters |-> IF ttl[k] = 1 THEN 0 ELSE used[k]]
    /\ UNCHANGED <<step, at, allowed, failures>>

Limiter(c) == Hit(c) \/ Expire(c) \/ Refused(c)
Fault(c) == HitFails(c) \/ ExpireFails(c) \/ Lost(c)

RateTypeOK ==
    /\ used \in [Counters -> Nat] /\ ttl \in [Counters -> {NoExpiry} \cup Nat]
    /\ \A k \in Counters :
          /\ used[k] <= Limit[k] + 1 /\ ttl[k] \in {NoExpiry} \cup 1..Window[k]
          /\ used[k] = 0 => ttl[k] = NoExpiry
    /\ step \in [Clients -> {"idle", "hit", "expire", "refused", "endpoint"}]
    /\ at \in [Clients -> DOMAIN Scopes] /\ allowed \in [Clients -> BOOLEAN]
    /\ failures \in 0..MaxFailures

(* A counter that has no window, and no request about to give it one: it   *)
(* counts for ever.                                                        *)
Windowless(k) ==
    /\ used[k] > 0 /\ ttl[k] = NoExpiry
    /\ \A c \in Clients : step[c] = "expire" => Scope(c) # k

(* No request goes on at the counter k. *)
Untouched(k) ==
    \A c \in Clients :
        step[c] \in {"hit", "expire"} /\ Scope(c) = k =>
            step'[c] = step[c] /\ at'[c] = at[c]

GivenWindow ==
    \A k \in Counters :
        Windowless(k)' => \/ failures' > failures
                          \/ Windowless(k) /\ Untouched(k)

(* A counter is left without a window only by a failure, and the next      *)
(* request that passes it gives it one again: without a further failure,   *)
(* a counter stays windowless only while nobody asks (hit's second call,   *)
(* and its test for ttl < 0).                                              *)
WindowOrFailure == [][GivenWindow]_rateVars
=============================================================================
