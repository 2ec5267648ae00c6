----------------------------- MODULE AddressBook -----------------------------
(***************************************************************************)
(* The disposable addresses: POST /generate (generate_random in            *)
(* src/api/mail_tests.py), the record it keeps in Mongo and the key it     *)
(* sets in Redis, the TTL index of the one and the expiry of the other,    *)
(* and who reads them: address_is_live for /check and /result, lookup of   *)
(* src/ingest/recipient_map.py for Postfix.  A request makes its calls to  *)
(* Mongo and Redis one by one, and requests interleave between them.       *)
(***************************************************************************)
EXTENDS Integers, FiniteSets

CONSTANTS
    Addresses,    \* names generate_random_email may draw
    Visitors,     \* who may ask: records of a user and an IP
    None,         \* the user of a visitor that is not signed in
    Requests,     \* /generate requests the API runs at a time
    TTL,          \* TEST_ADDRESS_TTL_MINUTES, in ticks of the clock
    MaxClock,     \* bound: the last tick
    MaxFailures   \* bound: requests that break off half way

ASSUME BookAssumption ==
    /\ IsFiniteSet(Requests)
    /\ Requests # {}
    /\ IsFiniteSet(Addresses) /\ None \notin Addresses
    /\ TTL \in Nat \ {0}
    /\ {MaxClock, MaxFailures} \subseteq Nat

VARIABLES
    clock,     \* the time
    record,    \* test_emails: address |-> its document
    key,       \* Redis: address |-> when its key expires, 0 when there is none
    request,   \* request |-> the call it is at, and what it has read
    failures,  \* requests that broke off so far
    raced      \* history: addresses retired by a request that ran beside the
               \* one that made them

bookVars == <<clock, record, key, request, failures, raced>>

(* expires is expires_at, 0 when it is unset. *)
NoRecord  == [state |-> "unused", by |-> None, expires |-> 0]
NoRequest == [step |-> "idle", by |-> None, now |-> 0, to |-> None,
              found |-> {}, beside |-> {}]

Documents == [state : {"unused", "stored", "deleted"},
              by : Visitors \cup {None}, expires : Nat]

RequestRecords == [step : {"idle", "find", "forget", "retire", "insert", "key"},
                   by : Visitors \cup {None}, now : 0..MaxClock,
                   to : Addresses \cup {None}, found : SUBSET Addresses,
                   beside : SUBSET Addresses]

Running(r) == request[r].step # "idle"

BookInit ==
    /\ clock = 0
    /\ record = [a \in Addresses |-> NoRecord]
    /\ key = [a \in Addresses |-> 0]
    /\ request = [r \in Requests |-> NoRequest]
    /\ failures = 0
    /\ raced = {}

-----------------------------------------------------------------------------
(* address_is_live: what /check calls waiting, and otherwise expired. *)
Live(a) == record[a].state = "stored" /\ record[a].expires > clock

(* lookup: what Postfix accepts. *)
Accepted(a) == key[a] > clock

(* Mutant: an account is told apart by its IP as well. *)
SameOwnerHere(v, b) ==
    IF v.user # None THEN b.user = v.user /\ b.ip = v.ip ELSE b.ip = v.ip

(* Whose addresses a visitor replaces: an account's own, and without an    *)
(* account whatever was generated from the same IP.                        *)
SameOwner(v, b) == IF v.user # None THEN b.user = v.user ELSE b.ip = v.ip

(* The query "previous": the owner's addresses that were live when the     *)
(* request began.                                                          *)
Previous(r) ==
    {a \in Addresses : /\ record[a].state = "stored"
                       /\ record[a].expires > request[r].now
                       /\ SameOwner(request[r].by, record[a].by)}

(* Names that running requests have drawn. *)
Drawn == {request[q].to : q \in Requests} \ {None}

(* A request begins with the name a.  beside is history: the names drawn   *)
(* by requests that ran at the same time as this one.                      *)
Begun(r, v, a) ==
    [q \in Requests |->
        IF q = r
        THEN [step |-> "find", by |-> v, now |-> clock, to |-> a,
              found |-> {}, beside |-> Drawn]
        ELSE IF Running(q)
             THEN [request[q] EXCEPT !.beside = request[q].beside \cup {a}]
             ELSE request[q]]

(* Mutant: a name that another request has drawn already. *)
GenerateSame(r, v, a) ==
    /\ ~Running(r)
    /\ record[a].state = "unused"
    /\ request' = Begun(r, v, a)
    /\ UNCHANGED <<clock, record, key, failures, raced>>

(* A visitor asks for an address; a random name is drawn that is new. *)
Generate(r, v, a) ==
    /\ ~Running(r)
    /\ record[a].state = "unused"
    /\ a \notin Drawn
    /\ request' = Begun(r, v, a)
    /\ UNCHANGED <<clock, record, key, failures, raced>>

Find(r) ==
    /\ request[r].step = "find"
    /\ request' = [request EXCEPT
                     ![r].step = IF Previous(r) = {} THEN "retire" ELSE "forget",
                     ![r].found = Previous(r)]
    /\ UNCHANGED <<clock, record, key, failures, raced>>

(* Mutant: the keys of the replaced addresses are left to expire. *)
ForgetNothing(r, a) ==
    /\ request[r].step = "forget"
    /\ a \in request[r].found
    /\ request' = [request EXCEPT
                     ![r].step = IF request[r].found = {a} THEN "retire" ELSE "forget",
                     ![r].found = @ \ {a}]
    /\ UNCHANGED <<clock, record, key, failures, raced>>

(* The Redis key of each address found is deleted. *)
Forget(r, a) ==
    /\ request[r].step = "forget"
    /\ a \in request[r].found
    /\ key' = [key EXCEPT ![a] = 0]
    /\ request' = [request EXCEPT
                     ![r].step = IF request[r].found = {a} THEN "retire" ELSE "forget",
                     ![r].found = @ \ {a}]
    /\ UNCHANGED <<clock, record, failures, raced>>

(* update_many: every address that matches by now loses its expires_at. *)
Retire(r) ==
    /\ request[r].step = "retire"
    /\ record' = [a \in Addresses |-> IF a \in Previous(r)
                                      THEN [record[a] EXCEPT !.expires = 0]
                                      ELSE record[a]]
    /\ raced' = raced \cup (Previous(r) \cap request[r].beside)
    /\ request' = [request EXCEPT ![r].step = "insert"]
    /\ UNCHANGED <<clock, key, failures>>

Insert(r) ==
    /\ request[r].step = "insert"
    /\ record' = [record EXCEPT ![request[r].to] =
                    [state |-> "stored", by |-> request[r].by,
                     expires |-> request[r].now + TTL]]
    /\ request' = [request EXCEPT ![r].step = "key"]
    /\ UNCHANGED <<clock, key, failures, raced>>

(* Mutant: the key lives shorter than the record. *)
SetKeyShort(r) ==
    /\ request[r].step = "key"
    /\ key' = [key EXCEPT ![request[r].to] = clock + TTL - 1]
    /\ request' = [request EXCEPT ![r] = NoRequest]
    /\ UNCHANGED <<clock, record, failures, raced>>

(* The key is set, and the address returned to the visitor. *)
SetKey(r) ==
    /\ request[r].step = "key"
    /\ key' = [key EXCEPT ![request[r].to] = clock + TTL]
    /\ request' = [request EXCEPT ![r] = NoRequest]
    /\ UNCHANGED <<clock, record, failures, raced>>

(* Mongo or Redis fails, or the API dies: what was written stays. *)
BreakOff(r) ==
    /\ Running(r)
    /\ failures < MaxFailures
    /\ failures' = failures + 1
    /\ request' = [request EXCEPT ![r] = NoRequest]
    /\ UNCHANGED <<clock, record, key, raced>>

(* The TTL index deletes a record some time after its expires_at; one      *)
(* without expires_at stays.                                               *)
Reap(a) ==
    /\ record[a].state = "stored"
    /\ record[a].expires # 0
    /\ record[a].expires <= clock
    /\ record' = [record EXCEPT ![a].state = "deleted"]
    /\ UNCHANGED <<clock, key, request, failures, raced>>

Tick ==
    /\ clock < MaxClock
    /\ clock' = clock + 1
    /\ UNCHANGED <<record, key, request, failures, raced>>

BookNext ==
    \/ \E r \in Requests :
          \/ \E v \in Visitors, a \in Addresses : Generate(r, v, a)
          \/ Find(r) \/ Retire(r) \/ Insert(r) \/ SetKey(r) \/ BreakOff(r)
          \/ \E a \in Addresses : Forget(r, a)
    \/ \E a \in Addresses : Reap(a)
    \/ Tick

BookSpec == BookInit /\ [][BookNext]_bookVars

-----------------------------------------------------------------------------
(* Types; a request past its start has drawn a name no other has, which is *)
(* not stored before the request inserts it.                               *)
BookTypeOK ==
    /\ clock \in 0..MaxClock
    /\ record \in [Addresses -> Documents]
    /\ key \in [Addresses -> Nat]
    /\ request \in [Requests -> RequestRecords]
    /\ failures \in Nat
    /\ raced \subseteq Addresses
    /\ \A a \in Addresses : record[a].state # "unused" => record[a].by \in Visitors
    /\ \A r \in Requests :
          Running(r) => /\ request[r].by \in Visitors
                        /\ request[r].to \in Addresses
                        /\ request[r].now <= clock
                        /\ request[r].step # "key" => record[request[r].to].state = "unused"
                        /\ \A q \in Requests \ {r} : request[q].to # request[r].to

(* An owner is an account, or an IP without one. *)
OwnedBy(b, v) == b.user = v.user /\ (v.user = None => b.ip = v.ip)

LiveOf(v) == {a \in Addresses : Live(a) /\ OwnedBy(record[a].by, v)}

Inserting(v) == {r \in Requests : request[r].step = "insert" /\ OwnedBy(request[r].by, v)}

(* A new address replaces the owner's others: an owner has no more live    *)
(* addresses than requests ran side by side, one when they came one after  *)
(* another (generate_random).                                              *)
LiveBound ==
    \A v \in Visitors :
        Cardinality(LiveOf(v)) + Cardinality(Inserting(v)) <= Cardinality(Requests)

(* Postfix accepts no mail for an address that was never stored, nor for   *)
(* one that was replaced, wherever a request broke off (generate_random's  *)
(* deletes before its update, its insert before its key).  Only a request  *)
(* that ran beside the maker of an address can retire it and leave its key.*)
ReplacedRefused ==
    \A a \in Addresses :
        Accepted(a) => /\ record[a].state # "unused"
                       /\ record[a].expires # 0 \/ a \in raced

(* Unless a request broke off, an address /check calls waiting is one that *)
(* Postfix accepts, as soon as its visitor knows it.                       *)
WaitingAccepted ==
    failures = 0 /\ (\A r \in Requests : ~Running(r)) =>
        \A a \in Addresses : Live(a) => Accepted(a)
=============================================================================
