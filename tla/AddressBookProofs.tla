------------------------- MODULE AddressBookProofs -------------------------
(* What AddressBook promises for any number of requests, addresses and     *)
(* visitors, any TTL and any clock: types, the bound on an owner's live     *)
(* addresses, and that Mongo and Redis agree.                              *)
EXTENDS AddressBook, FiniteSetTheorems, TLAPS

(* A request's own calls leave every other request, and what this one      *)
(* asked for, as they were.                                                *)
LEMMA RequestFrame ==
    ASSUME BookTypeOK, NEW r \in Requests,
           Find(r) \/ (\E a \in Addresses : Forget(r, a)) \/ Retire(r) \/ Insert(r)
    PROVE  /\ request' \in [Requests -> RequestRecords]
           /\ \A q \in Requests : /\ request'[q].by = request[q].by
                                  /\ request'[q].now = request[q].now
                                  /\ request'[q].to = request[q].to
                                  /\ request'[q].beside = request[q].beside
           /\ \A q \in Requests \ {r} : request'[q] = request[q]
<1>0. request \in [Requests -> RequestRecords]
  BY DEF BookTypeOK
<1>1. CASE Find(r)
  <2>1. Previous(r) \in SUBSET Addresses
    BY DEF Previous
  <2>2. PICK s \in {"retire", "forget"} :
           request' = [request EXCEPT ![r].step = s, ![r].found = Previous(r)]
    BY <1>1 DEF Find
  <2> QED
    BY <1>0, <2>1, <2>2 DEF RequestRecords
<1>2. ASSUME NEW a \in Addresses, Forget(r, a)
      PROVE  \E s \in {"retire", "forget"} :
                request' = [request EXCEPT ![r].step = s, ![r].found = @ \ {a}]
  BY <1>2 DEF Forget
<1>3. CASE \E a \in Addresses : Forget(r, a)
  <2>1. PICK a \in Addresses, s \in {"retire", "forget"} :
           request' = [request EXCEPT ![r].step = s, ![r].found = @ \ {a}]
    BY <1>2, <1>3
  <2> QED
    BY <1>0, <2>1 DEF RequestRecords
<1>4. CASE Retire(r)
  BY <1>0, <1>4 DEF Retire, RequestRecords
<1>5. CASE Insert(r)
  BY <1>0, <1>5 DEF Insert, RequestRecords
<1> QED
  BY <1>1, <1>3, <1>4, <1>5

(* A request that begins draws a name no running one has, and each is      *)
(* beside the other.                                                       *)
LEMMA BeginFrame ==
    ASSUME BookTypeOK, NEW r \in Requests, NEW v \in Visitors, NEW a \in Addresses,
           Generate(r, v, a)
    PROVE  /\ request' \in [Requests -> RequestRecords]
           /\ request'[r].step = "find" /\ request'[r].to = a
           /\ request'[r].by = v /\ request'[r].now = clock
           /\ request'[r].beside = Drawn
           /\ \A q \in Requests \ {r} :
                 /\ request'[q].step = request[q].step
                 /\ request'[q].by = request[q].by
                 /\ request'[q].now = request[q].now
                 /\ request'[q].to = request[q].to
                 /\ request'[q].found = request[q].found
                 /\ Running(q) => request'[q].beside = request[q].beside \cup {a}
<1>0. request \in [Requests -> RequestRecords] /\ clock \in 0..MaxClock
  BY DEF BookTypeOK
<1>1. Drawn \in SUBSET Addresses
  BY DEF Drawn, BookTypeOK, RequestRecords
<1>2. request' = Begun(r, v, a)
  BY DEF Generate
<1>3. \A q \in Requests :
         [request[q] EXCEPT !.beside = request[q].beside \cup {a}] \in RequestRecords
  BY <1>0 DEF RequestRecords
<1>4. [step |-> "find", by |-> v, now |-> clock, to |-> a,
       found |-> {}, beside |-> Drawn] \in RequestRecords
  BY <1>0, <1>1 DEF RequestRecords
<1>5. request' \in [Requests -> RequestRecords]
  BY <1>0, <1>2, <1>3, <1>4 DEF Begun
<1>6. request'[r] = [step |-> "find", by |-> v, now |-> clock, to |-> a,
                     found |-> {}, beside |-> Drawn]
  BY <1>2 DEF Begun
<1>7. ASSUME NEW q \in Requests \ {r}
      PROVE  /\ request'[q].step = request[q].step
             /\ request'[q].by = request[q].by
             /\ request'[q].now = request[q].now
             /\ request'[q].to = request[q].to
             /\ request'[q].found = request[q].found
             /\ Running(q) => request'[q].beside = request[q].beside \cup {a}
  <2>1. request'[q] = IF Running(q)
                      THEN [request[q] EXCEPT !.beside = request[q].beside \cup {a}]
                      ELSE request[q]
    BY <1>2 DEF Begun
  <2> QED
    BY <1>0, <2>1 DEF RequestRecords
<1> QED
  BY <1>5, <1>6, <1>7

(* Every call of /generate, the TTL index and the clock keep the types,    *)
(* and no two requests come to hold one name.                              *)
LEMMA BookTypeStep == BookTypeOK /\ [BookNext]_bookVars => BookTypeOK'
<1> SUFFICES ASSUME BookTypeOK, [BookNext]_bookVars
             PROVE  BookTypeOK'
  OBVIOUS
<1> USE BookAssumption
<1>1. ASSUME NEW r \in Requests, NEW v \in Visitors, NEW a \in Addresses, Generate(r, v, a)
      PROVE  BookTypeOK'
  <2>1. /\ record[a].state = "unused" /\ a \notin Drawn
        /\ UNCHANGED <<clock, record, key, failures, raced>>
    BY <1>1 DEF Generate
  <2>2. \A q \in Requests : request[q].to # a
    BY <2>1 DEF Drawn
  <2> QED
    BY <1>1, <2>1, <2>2, BeginFrame DEF BookTypeOK, Running
<1>2. ASSUME NEW r \in Requests, Find(r) \/ (\E a \in Addresses : Forget(r, a))
      PROVE  BookTypeOK'
  <2>1. key' = key \/ (\E a \in Addresses : key' = [key EXCEPT ![a] = 0])
    BY <1>2 DEF Find, Forget
  <2>3. key' \in [Addresses -> Nat]
    BY <2>1 DEF BookTypeOK
  <2>2. /\ request[r].step \notin {"idle", "key"}
        /\ UNCHANGED <<clock, record, failures, raced>>
    BY <1>2 DEF Find, Forget
  <2> QED
    BY <1>2, <2>3, <2>2, RequestFrame DEF BookTypeOK, Running
<1>3. ASSUME NEW r \in Requests, Retire(r)
      PROVE  BookTypeOK'
  <2>1. record' \in [Addresses -> Documents]
    BY <1>3 DEF Retire, BookTypeOK, Documents
  <2>2. \A a \in Addresses : record'[a].state = record[a].state /\ record'[a].by = record[a].by
    BY <1>3 DEF Retire, BookTypeOK, Documents
  <2>3. request[r].step = "retire" /\ UNCHANGED <<clock, key, failures>>
    BY <1>3 DEF Retire
  <2>4. raced' \subseteq Addresses
    BY <1>3 DEF Retire, Previous, BookTypeOK
  <2> QED
    BY <1>3, <2>1, <2>2, <2>3, <2>4, RequestFrame DEF BookTypeOK, Running
<1>4. ASSUME NEW r \in Requests, Insert(r)
      PROVE  BookTypeOK'
  <2>1. /\ request[r].step = "insert"
        /\ request[r].to \in Addresses
        /\ request[r].by \in Visitors
        /\ request[r].now + TTL \in Nat
    BY <1>4 DEF Insert, BookTypeOK, Running, RequestRecords
  <2>2. /\ record' \in [Addresses -> Documents]
        /\ \A a \in Addresses : a # request[r].to => record'[a] = record[a]
        /\ record'[request[r].to].by = request[r].by
    BY <1>4, <2>1 DEF Insert, BookTypeOK, Documents
  <2>3. request'[r].step = "key" /\ UNCHANGED <<clock, key, failures, raced>>
    BY <1>4 DEF Insert, BookTypeOK, RequestRecords
  <2> QED
    BY <1>4, <2>1, <2>2, <2>3, RequestFrame DEF BookTypeOK, Running
<1>5. ASSUME NEW r \in Requests, SetKey(r) \/ BreakOff(r)
      PROVE  BookTypeOK'
  <2>1. /\ clock + TTL \in Nat
        /\ failures' \in Nat
        /\ request' = [request EXCEPT ![r] = NoRequest]
        /\ UNCHANGED <<clock, record, raced>>
    BY <1>5 DEF SetKey, BreakOff, BookTypeOK
  <2>2. key' \in [Addresses -> Nat]
    BY <1>5, <2>1 DEF SetKey, BreakOff, BookTypeOK
  <2>3. NoRequest \in RequestRecords
    BY DEF NoRequest, RequestRecords, BookTypeOK
  <2>4. /\ request' \in [Requests -> RequestRecords]
        /\ request'[r].step = "idle" /\ request'[r].to = None
        /\ \A q \in Requests \ {r} : request'[q] = request[q]
    BY <2>1, <2>3 DEF BookTypeOK, NoRequest
  <2>5. \A q \in Requests : Running(q) => request[q].to # None
    BY DEF BookTypeOK
  <2> QED
    BY <2>1, <2>2, <2>4, <2>5 DEF BookTypeOK, Running
<1>6. ASSUME NEW a \in Addresses, Reap(a)
      PROVE  BookTypeOK'
  BY <1>6 DEF Reap, BookTypeOK, Running, Documents
<1>7. CASE Tick
  <2>1. clock' \in 0..MaxClock /\ clock <= clock'
    BY <1>7 DEF Tick, BookTypeOK
  <2> QED
    BY <1>7, <2>1 DEF Tick, BookTypeOK, Running, RequestRecords
<1>8. CASE UNCHANGED bookVars
  BY <1>8 DEF bookVars, BookTypeOK, Running
<1> QED
  BY <1>1, <1>2, <1>3, <1>4, <1>5, <1>6, <1>7, <1>8 DEF BookNext

(* BookTypeOK for any number of requests, addresses and visitors.          *)
THEOREM BookTyped == BookSpec => []BookTypeOK
<1>1. BookInit => BookTypeOK
  BY BookAssumption DEF BookInit, BookTypeOK, NoRecord, NoRequest, Running,
                        Documents, RequestRecords
<1> QED
  BY <1>1, BookTypeStep, PTL DEF BookSpec

-----------------------------------------------------------------------------
(* An owner's live addresses and the requests about to insert one are      *)
(* finitely many.                                                          *)
LEMMA OwnersFinite ==
    ASSUME NEW v
    PROVE  /\ IsFiniteSet(LiveOf(v)) /\ Cardinality(LiveOf(v)) \in Nat
           /\ IsFiniteSet(Inserting(v)) /\ Cardinality(Inserting(v)) \in Nat
           /\ Cardinality(Requests) \in Nat
<1>1. LiveOf(v) \subseteq Addresses /\ Inserting(v) \subseteq Requests
  BY DEF LiveOf, Inserting
<1>2. IsFiniteSet(LiveOf(v)) /\ IsFiniteSet(Inserting(v))
  BY <1>1, BookAssumption, FS_Subset
<1> QED
  BY <1>2, BookAssumption, FS_CardinalityType

(* A step that adds to neither keeps the bound.                            *)
LEMMA NoMore ==
    ASSUME LiveBound, NEW v \in Visitors,
           LiveOf(v)' \subseteq LiveOf(v), Inserting(v)' \subseteq Inserting(v)
    PROVE  Cardinality(LiveOf(v)') + Cardinality(Inserting(v)') <= Cardinality(Requests)
<1>1. /\ IsFiniteSet(LiveOf(v)) /\ IsFiniteSet(Inserting(v))
      /\ Cardinality(LiveOf(v)) \in Nat /\ Cardinality(Inserting(v)) \in Nat
      /\ Cardinality(Requests) \in Nat
  BY OwnersFinite
<1>2. /\ IsFiniteSet(LiveOf(v)') /\ IsFiniteSet(Inserting(v)')
      /\ Cardinality(LiveOf(v)') <= Cardinality(LiveOf(v))
      /\ Cardinality(Inserting(v)') <= Cardinality(Inserting(v))
  BY <1>1, FS_Subset
<1>3. Cardinality(LiveOf(v)') \in Nat /\ Cardinality(Inserting(v)') \in Nat
  BY <1>2, FS_CardinalityType
<1> QED
  BY <1>1, <1>2, <1>3 DEF LiveBound

(* A request's update_many leaves its owner no live address.               *)
LEMMA RetireEmpties ==
    ASSUME BookTypeOK, NEW r \in Requests, Retire(r), NEW v \in Visitors,
           OwnedBy(request[r].by, v)
    PROVE  LiveOf(v)' = {}
<1> SUFFICES ASSUME NEW a \in Addresses, a \in LiveOf(v)'
             PROVE  FALSE
  BY DEF LiveOf
<1>1. record'[a].state = "stored" /\ record'[a].expires > clock /\ OwnedBy(record'[a].by, v)
  BY DEF LiveOf, Live, Retire
<1>2. record'[a] = IF a \in Previous(r) THEN [record[a] EXCEPT !.expires = 0] ELSE record[a]
  BY DEF Retire
<1>3. record[a] \in Documents /\ clock \in Nat
  BY DEF BookTypeOK
<1>4. a \notin Previous(r)
  BY <1>1, <1>2, <1>3 DEF Documents
<1>5. record[a].state = "stored" /\ record[a].expires > clock /\ OwnedBy(record[a].by, v)
  BY <1>1, <1>2, <1>4
<1>6. request[r].now <= clock /\ request[r].now \in Nat
  BY DEF BookTypeOK, Retire, Running, RequestRecords
<1>7. SameOwner(request[r].by, record[a].by)
  BY <1>5 DEF SameOwner, OwnedBy
<1> QED
  BY <1>3, <1>4, <1>5, <1>6, <1>7 DEF Previous, Documents

(* The step of LiveBound: only an insert adds a live address, and the      *)
(* request that makes it is no longer about to.                            *)
LEMMA LiveStep == BookTypeOK /\ LiveBound /\ [BookNext]_bookVars => LiveBound'
<1> SUFFICES ASSUME BookTypeOK, LiveBound, [BookNext]_bookVars, NEW v \in Visitors
             PROVE  Cardinality(LiveOf(v)') + Cardinality(Inserting(v)') <= Cardinality(Requests)
  BY DEF LiveBound
<1>1. ASSUME NEW r \in Requests,
             \/ \E w \in Visitors, a \in Addresses : Generate(r, w, a)
             \/ Find(r) \/ (\E a \in Addresses : Forget(r, a)) \/ SetKey(r) \/ BreakOff(r)
      PROVE  LiveOf(v)' \subseteq LiveOf(v) /\ Inserting(v)' \subseteq Inserting(v)
  <2>1. UNCHANGED <<clock, record>>
    BY <1>1 DEF Generate, Find, Forget, SetKey, BreakOff
  <2>2. \/ \E w \in Visitors, a \in Addresses : Generate(r, w, a)
        \/ Find(r) \/ (\E a \in Addresses : Forget(r, a))
        \/ request' = [request EXCEPT ![r] = NoRequest]
    BY <1>1 DEF SetKey, BreakOff
  <2>3. request'[r].step # "insert"
    BY <2>2, BeginFrame DEF BookTypeOK, Find, Forget, RequestRecords, NoRequest
  <2>4. \A q \in Requests \ {r} :
           request'[q].step = request[q].step /\ request'[q].by = request[q].by
    BY <2>2, RequestFrame, BeginFrame DEF BookTypeOK
  <2> QED
    BY <2>1, <2>3, <2>4 DEF LiveOf, Live, Inserting
<1>2. ASSUME NEW r \in Requests, Retire(r)
      PROVE  Cardinality(LiveOf(v)') + Cardinality(Inserting(v)') <= Cardinality(Requests)
  <2>1. CASE OwnedBy(request[r].by, v)
    <3>1. LiveOf(v)' = {}
      BY <1>2, <2>1, RetireEmpties
    <3>2. Inserting(v)' \subseteq Requests
      BY DEF Inserting
    <3>3. IsFiniteSet(Inserting(v)') /\ Cardinality(Inserting(v)') <= Cardinality(Requests)
      BY <3>2, BookAssumption, FS_Subset
    <3>4. Cardinality(Inserting(v)') \in Nat /\ Cardinality(LiveOf(v)') = 0
      BY <3>1, <3>3, FS_CardinalityType, FS_EmptySet
    <3> QED
      BY <3>3, <3>4, OwnersFinite
  <2>2. CASE ~OwnedBy(request[r].by, v)
    <3>1. LiveOf(v)' \subseteq LiveOf(v)
      BY <1>2 DEF Retire, LiveOf, Live, BookTypeOK, Documents
    <3>2. Inserting(v)' \subseteq Inserting(v)
      BY <1>2, <2>2, RequestFrame DEF Inserting
    <3> QED
      BY <3>1, <3>2, NoMore
  <2> QED
    BY <2>1, <2>2
<1>3. ASSUME NEW r \in Requests, Insert(r)
      PROVE  Cardinality(LiveOf(v)') + Cardinality(Inserting(v)') <= Cardinality(Requests)
  <2>1. /\ request[r].to \in Addresses
        /\ request[r].step = "insert"
        /\ request'[r].step = "key"
        /\ clock' = clock
        /\ record' = [record EXCEPT ![request[r].to] =
                        [state |-> "stored", by |-> request[r].by,
                         expires |-> request[r].now + TTL]]
    BY <1>3 DEF Insert, BookTypeOK, Running, RequestRecords
  <2>2. Inserting(v)' = Inserting(v) \ {r}
    BY <1>3, <2>1, RequestFrame DEF Inserting
  <2>3. CASE OwnedBy(request[r].by, v)
    <3>1. r \in Inserting(v)
      BY <2>1, <2>3 DEF Inserting
    <3>2. LiveOf(v)' \subseteq LiveOf(v) \cup {request[r].to}
      BY <2>1 DEF LiveOf, Live, BookTypeOK
    <3>a. IsFiniteSet(LiveOf(v)) /\ Cardinality(LiveOf(v)) \in Nat
      BY OwnersFinite
    <3>b. /\ IsFiniteSet(LiveOf(v) \cup {request[r].to})
          /\ Cardinality(LiveOf(v) \cup {request[r].to}) =
                IF request[r].to \in LiveOf(v) THEN Cardinality(LiveOf(v))
                                               ELSE Cardinality(LiveOf(v)) + 1
      BY <3>a, FS_AddElement, Zenon
    <3>3. /\ IsFiniteSet(LiveOf(v) \cup {request[r].to})
          /\ Cardinality(LiveOf(v) \cup {request[r].to}) <= Cardinality(LiveOf(v)) + 1
      BY <3>a, <3>b
    <3>4. /\ Cardinality(Inserting(v) \ {r}) = Cardinality(Inserting(v)) - 1
          /\ IsFiniteSet(LiveOf(v)')
          /\ Cardinality(LiveOf(v)') <= Cardinality(LiveOf(v) \cup {request[r].to})
      BY <3>1, <3>2, <3>3, OwnersFinite, FS_RemoveElement, FS_Subset
    <3>5. Cardinality(LiveOf(v)') \in Nat /\ Cardinality(LiveOf(v) \cup {request[r].to}) \in Nat
      BY <3>3, <3>4, FS_CardinalityType
    <3> QED
      BY <2>2, <3>3, <3>4, <3>5, OwnersFinite DEF LiveBound
  <2>4. CASE ~OwnedBy(request[r].by, v)
    <3>1. LiveOf(v)' \subseteq LiveOf(v)
      BY <2>1, <2>4 DEF LiveOf, Live, BookTypeOK
    <3> QED
      BY <2>2, <3>1, NoMore
  <2> QED
    BY <2>3, <2>4
<1>4. ASSUME NEW a \in Addresses, Reap(a)
      PROVE  LiveOf(v)' \subseteq LiveOf(v) /\ Inserting(v)' \subseteq Inserting(v)
  BY <1>4 DEF Reap, LiveOf, Live, Inserting, BookTypeOK
<1>5. CASE Tick
  <2>1. LiveOf(v)' \subseteq LiveOf(v)
    BY <1>5, BookAssumption DEF Tick, LiveOf, Live, BookTypeOK, Documents
  <2> QED
    BY <1>5, <2>1, NoMore DEF Tick, Inserting
<1>6. CASE UNCHANGED bookVars
  <2>1. LiveOf(v)' \subseteq LiveOf(v) /\ Inserting(v)' \subseteq Inserting(v)
    BY <1>6 DEF bookVars, LiveOf, Live, Inserting
  <2> QED
    BY <2>1, NoMore
<1> QED
  BY <1>1, <1>2, <1>3, <1>4, <1>5, <1>6, NoMore DEF BookNext

(* However /generate requests interleave and break off, an owner has no    *)
(* more live addresses than requests ran side by side.                     *)
THEOREM LiveBounded == BookSpec => []LiveBound
<1>1. BookInit => LiveBound
  <2> SUFFICES ASSUME BookInit, NEW v \in Visitors
               PROVE  Cardinality(LiveOf(v)) + Cardinality(Inserting(v)) <= Cardinality(Requests)
    BY DEF LiveBound
  <2>1. LiveOf(v) = {} /\ Inserting(v) = {}
    BY DEF BookInit, NoRecord, NoRequest, LiveOf, Live, Inserting
  <2> QED
    BY <2>1, OwnersFinite, FS_EmptySet
<1> QED
  BY <1>1, BookTyped, LiveStep, PTL DEF BookSpec
-----------------------------------------------------------------------------
(* Two requests that run at the same time know each other's names.         *)
Neighbours ==
    \A q, r \in Requests :
        q # r /\ Running(q) /\ Running(r) => request[q].to \in request[r].beside

(* No key is left to an address that was never stored, or retired by a     *)
(* request that began when its maker was done.  The request deletes every  *)
(* key before its update_many takes the records, and it has stored the     *)
(* name it returns when it sets its key.                                   *)
KeysRetired ==
    /\ \A a \in Addresses :
          /\ record[a].state = "unused" => key[a] = 0
          /\ record[a].expires = 0 => key[a] = 0 \/ a \in raced
    /\ \A r \in Requests :
          /\ request[r].step = "forget" =>
                \A a \in Previous(r) \ request[r].beside :
                   a \in request[r].found \/ key[a] = 0
          /\ request[r].step = "retire" =>
                \A a \in Previous(r) \ request[r].beside : key[a] = 0
          /\ request[r].step = "key" =>
                /\ record[request[r].to].state # "unused"
                /\ \/ record[request[r].to].expires = request[r].now + TTL
                   \/ record[request[r].to].expires = 0 /\ request[r].to \in raced

(* An address lives no longer than its key, but for those the request in   *)
(* flight is retiring, and the one it has stored and not yet set.          *)
KeysOutlive ==
    /\ \A r \in Requests :
          request[r].step = "forget" =>
             \A a \in request[r].found :
                /\ record[a].state # "unused"
                /\ SameOwner(request[r].by, record[a].by)
    /\ failures = 0 =>
          \A a \in Addresses : Live(a) =>
             \/ key[a] >= record[a].expires
             \/ \E r \in Requests : request[r].step = "key" /\ request[r].to = a
             \/ \E r \in Requests :
                   request[r].step \in {"forget", "retire"} /\ a \in Previous(r)

(* A request that begins is beside those running, and they beside it.      *)
LEMMA NeighboursStep ==
    BookTypeOK /\ BookTypeOK' /\ Neighbours /\ [BookNext]_bookVars => Neighbours'
<1> SUFFICES ASSUME BookTypeOK, BookTypeOK', Neighbours, [BookNext]_bookVars
             PROVE  Neighbours'
  OBVIOUS
<1>1. ASSUME NEW r \in Requests, NEW v \in Visitors, NEW a \in Addresses, Generate(r, v, a)
      PROVE  Neighbours'
  <2>1. /\ request'[r].to = a /\ request'[r].beside = Drawn
        /\ \A q \in Requests \ {r} :
              /\ request'[q].step = request[q].step /\ request'[q].to = request[q].to
              /\ Running(q) => request'[q].beside = request[q].beside \cup {a}
    BY <1>1, BeginFrame
  <2>2. \A q \in Requests : Running(q) => request[q].to \in Drawn
    BY BookAssumption DEF Drawn, BookTypeOK
  <2> QED
    BY <2>1, <2>2 DEF Neighbours, Running
<1>2. ASSUME NEW r \in Requests,
             \/ Find(r) \/ (\E a \in Addresses : Forget(r, a)) \/ Retire(r) \/ Insert(r)
      PROVE  Neighbours'
  <2>1. request[r].step # "idle"
    BY <1>2 DEF Find, Forget, Retire, Insert
  <2> QED
    BY <1>2, <2>1, RequestFrame DEF Neighbours, Running
<1>3. ASSUME NEW r \in Requests, SetKey(r) \/ BreakOff(r)
      PROVE  Neighbours'
  BY <1>3 DEF SetKey, BreakOff, Neighbours, Running, NoRequest, BookTypeOK
<1>4. ASSUME UNCHANGED request
      PROVE  Neighbours'
  BY <1>4 DEF Neighbours, Running
<1> QED
  BY <1>1, <1>2, <1>3, <1>4 DEF BookNext, Reap, Tick, bookVars

(* Mongo and Redis stay in step, call by call.                             *)
LEMMA KeysStep ==
    BookTypeOK /\ BookTypeOK' /\ Neighbours /\ KeysRetired /\ KeysOutlive /\ [BookNext]_bookVars
        => KeysRetired' /\ KeysOutlive'
<1> SUFFICES ASSUME BookTypeOK, BookTypeOK', Neighbours, KeysRetired, KeysOutlive,
                    [BookNext]_bookVars
             PROVE  KeysRetired' /\ KeysOutlive'
  OBVIOUS
<1>0. /\ clock \in Nat /\ TTL \in Nat /\ TTL > 0
      /\ record \in [Addresses -> Documents] /\ key \in [Addresses -> Nat]
      /\ \A a \in Addresses : record[a].expires \in Nat
      /\ \A r \in Requests : request[r].now \in Nat
  BY BookAssumption DEF BookTypeOK, Documents, RequestRecords
<1>a. \A r \in Requests : request[r].step = "forget" =>
         \A a \in request[r].found : /\ a \in Addresses
                                     /\ record[a].state # "unused"
                                     /\ SameOwner(request[r].by, record[a].by)
  BY DEF BookTypeOK, RequestRecords, KeysOutlive
<1>1. ASSUME NEW r \in Requests, NEW v \in Visitors, NEW a \in Addresses, Generate(r, v, a)
      PROVE  KeysRetired' /\ KeysOutlive'
  <2>1. request'[r].step = "find" /\ UNCHANGED <<clock, record, key, failures, raced>>
    BY <1>1, BeginFrame DEF Generate
  <2>2. \A q \in Requests \ {r} :
           /\ request'[q].step = request[q].step /\ request'[q].by = request[q].by
           /\ request'[q].now = request[q].now /\ request'[q].to = request[q].to
           /\ request'[q].found = request[q].found
           /\ Previous(q)' = Previous(q)
           /\ Running(q) => request[q].beside \subseteq request'[q].beside
    BY <1>1, <2>1, BeginFrame DEF Previous
  <2>3. request[r].step = "idle"
    BY <1>1 DEF Generate, Running
  <2>4. KeysRetired'
    BY <2>1, <2>2, <2>3 DEF KeysRetired, Running
  <2>5. KeysOutlive'
    BY <2>1, <2>2, <2>3 DEF KeysOutlive, Live
  <2> QED
    BY <2>4, <2>5
<1>2. ASSUME NEW r \in Requests, Find(r)
      PROVE  KeysRetired' /\ KeysOutlive'
  <2>1. /\ request[r].step = "find"
        /\ request'[r].step = IF Previous(r) = {} THEN "retire" ELSE "forget"
        /\ request'[r].found = Previous(r)
        /\ UNCHANGED <<clock, record, key, failures, raced>>
    BY <1>2 DEF Find, BookTypeOK, RequestRecords
  <2>2. /\ \A q \in Requests : Previous(q)' = Previous(q)
        /\ \A q \in Requests : /\ request'[q].beside = request[q].beside
                               /\ request'[q].by = request[q].by
        /\ \A q \in Requests \ {r} : request'[q] = request[q]
    BY <1>2, <2>1, RequestFrame DEF Previous
  <2>3. \A a \in Previous(r) : record'[a].state # "unused" /\ SameOwner(request'[r].by, record'[a].by)
    BY <2>1, <2>2 DEF Previous
  <2>4. KeysRetired'
    BY <2>1, <2>2 DEF KeysRetired
  <2>5. KeysOutlive'
    BY <2>1, <2>2, <2>3 DEF KeysOutlive, Live
  <2> QED
    BY <2>4, <2>5
<1>3. ASSUME NEW r \in Requests, NEW b \in Addresses, Forget(r, b)
      PROVE  KeysRetired' /\ KeysOutlive'
  <2>1. /\ request[r].step = "forget" /\ b \in request[r].found
        /\ request'[r].step = IF request[r].found = {b} THEN "retire" ELSE "forget"
        /\ request'[r].found = request[r].found \ {b}
        /\ key'[b] = 0 /\ (\A a \in Addresses \ {b} : key'[a] = key[a])
        /\ UNCHANGED <<clock, record, failures, raced>>
    BY <1>0, <1>3 DEF Forget, BookTypeOK, RequestRecords
  <2>2. /\ \A q \in Requests : Previous(q)' = Previous(q)
        /\ \A q \in Requests : /\ request'[q].beside = request[q].beside
                               /\ request'[q].by = request[q].by
        /\ \A q \in Requests \ {r} : request'[q] = request[q]
    BY <1>3, <2>1, RequestFrame DEF Previous
  <2>3. request[r].now <= clock
    BY <2>1 DEF BookTypeOK, Running
  <2>4. Live(b) => b \in Previous(r)
    BY <1>0, <2>1, <2>3 DEF KeysOutlive, Live, Previous
  <2>5. KeysRetired'
    <3>1. \A a \in Addresses : key[a] = 0 => key'[a] = 0
      BY <2>1
    <3>2. Previous(r) \subseteq Addresses
      BY DEF Previous
    <3>3. \A a \in Previous(r) \ request[r].beside :
             a = b \/ a \in request'[r].found \/ key'[a] = 0
      BY <2>1, <3>1, <3>2 DEF KeysRetired
    <3>4. request'[r].step \in {"forget", "retire"}
          /\ (request'[r].step = "retire" => request'[r].found = {})
      BY <2>1
    <3>5. \A q \in Requests : Previous(q) \subseteq Addresses
      BY DEF Previous
    <3> QED
      BY <2>1, <2>2, <3>1, <3>3, <3>4, <3>5 DEF KeysRetired
  <2>6. KeysOutlive'
    <3>1. \A a \in Addresses : Live(a)' => Live(a)
      BY <2>1 DEF Live
    <3>2. request'[r].step \in {"forget", "retire"}
      BY <2>1
    <3> QED
      BY <2>1, <2>2, <2>4, <3>1, <3>2 DEF KeysOutlive
  <2> QED
    BY <2>5, <2>6
<1>4. ASSUME NEW r \in Requests, Retire(r)
      PROVE  KeysRetired' /\ KeysOutlive'
  <2>1. /\ request[r].step = "retire" /\ request'[r].step = "insert"
        /\ raced' = raced \cup (Previous(r) \cap request[r].beside)
        /\ UNCHANGED <<clock, key, failures>>
    BY <1>4 DEF Retire, BookTypeOK, RequestRecords
  <2>2. \A a \in Addresses :
           /\ record'[a].state = record[a].state
           /\ record'[a].by = record[a].by
           /\ record'[a].expires = IF a \in Previous(r) THEN 0 ELSE record[a].expires
    BY <1>0, <1>4 DEF Retire, Documents
  <2>3. /\ \A q \in Requests : /\ request'[q].beside = request[q].beside
                               /\ request'[q].by = request[q].by
                               /\ request'[q].now = request[q].now
        /\ \A q \in Requests \ {r} : request'[q] = request[q]
    BY <1>4, RequestFrame
  <2>4. \A q \in Requests : Previous(q)' = Previous(q) \ Previous(r)
    BY <1>0, <2>2, <2>3 DEF Previous
  <2>5. \A q \in Requests \ {r} : request[q].step = "key" =>
           /\ request[q].to \in Addresses
           /\ request[q].to \in Previous(r) => request[q].to \in raced'
    BY <2>1 DEF Neighbours, Running, BookTypeOK
  <2>6. KeysRetired'
    <3>1. \A a \in Previous(r) : key[a] = 0 \/ a \in raced'
      BY <2>1 DEF KeysRetired
    <3>2. \A q \in Requests : request'[q].step = "key" =>
             /\ request'[q] = request[q] /\ request[q].step = "key"
             /\ request[q].to \in Addresses
             /\ request[q].to \in Previous(r) => request[q].to \in raced'
      BY <2>1, <2>3, <2>5
    <3>3. \A q \in Requests : request'[q].step = "key" =>
             /\ record'[request'[q].to].state # "unused"
             /\ \/ record'[request'[q].to].expires = request'[q].now + TTL
                \/ record'[request'[q].to].expires = 0 /\ request'[q].to \in raced'
      BY <2>1, <2>2, <3>2 DEF KeysRetired
    <3>4. \A a \in Addresses :
             /\ record'[a].state = "unused" => key'[a] = 0
             /\ record'[a].expires = 0 => key'[a] = 0 \/ a \in raced'
      BY <2>1, <2>2, <3>1 DEF KeysRetired
    <3>5. \A q \in Requests : request'[q].step \in {"forget", "retire"} =>
             request'[q] = request[q] /\ q # r
      BY <2>1, <2>3
    <3> QED
      BY <2>1, <2>4, <3>3, <3>4, <3>5 DEF KeysRetired
  <2>7. KeysOutlive'
    <3>1. \A a \in Addresses : Live(a)' => Live(a) /\ a \notin Previous(r)
                                           /\ record'[a].expires = record[a].expires
      BY <1>0, <2>1, <2>2 DEF Live
    <3>2. \A q \in Requests : request[q].step \in {"forget", "key"} =>
             request'[q] = request[q] /\ q # r
      BY <2>1, <2>3
    <3>3. \A q \in Requests \ {r} : request'[q] = request[q]
      BY <2>3
    <3>4. \A q \in Requests : request'[q].step = "forget" =>
             \A a \in request'[q].found :
                record'[a].state # "unused" /\ SameOwner(request'[q].by, record'[a].by)
      BY <1>a, <2>1, <2>2, <3>2, <3>3
    <3> QED
      BY <2>1, <2>4, <3>1, <3>2, <3>3, <3>4 DEF KeysOutlive
  <2> QED
    BY <2>6, <2>7
<1>5. ASSUME NEW r \in Requests, Insert(r)
      PROVE  KeysRetired' /\ KeysOutlive'
  <2>1. /\ request[r].step = "insert" /\ request'[r].step = "key"
        /\ request[r].to \in Addresses /\ record[request[r].to].state = "unused"
        /\ request'[r].to = request[r].to /\ request'[r].now = request[r].now
        /\ UNCHANGED <<clock, key, failures, raced>>
    BY <1>5 DEF Insert, BookTypeOK, RequestRecords, Running
  <2>2. /\ record'[request[r].to].state = "stored"
        /\ record'[request[r].to].expires = request[r].now + TTL
        /\ \A a \in Addresses : a # request[r].to => record'[a] = record[a]
    BY <1>0, <1>5, <2>1 DEF Insert
  <2>3. /\ \A q \in Requests : /\ request'[q].beside = request[q].beside
                               /\ request'[q].by = request[q].by
                               /\ request'[q].now = request[q].now
        /\ \A q \in Requests \ {r} : request'[q] = request[q]
    BY <1>5, RequestFrame
  <2>4. \A q \in Requests : /\ Previous(q)' \subseteq Previous(q) \cup {request[r].to}
                            /\ Previous(q) \subseteq Previous(q)'
    BY <2>1, <2>2, <2>3 DEF Previous
  <2>5. \A q \in Requests \ {r} : request[q].step # "idle" =>
           /\ request[r].to \in request[q].beside
           /\ request[q].to \in Addresses /\ request[q].to # request[r].to
    BY <2>1 DEF Neighbours, Running, BookTypeOK
  <2>6. \A q \in Requests : request'[q].step \in {"forget", "retire"} =>
           request'[q] = request[q] /\ q # r
    BY <2>1, <2>3
  <2>7. KeysRetired'
    <3>1. \A q \in Requests : request'[q].step = "key" =>
             /\ record'[request'[q].to].state # "unused"
             /\ \/ record'[request'[q].to].expires = request'[q].now + TTL
                \/ record'[request'[q].to].expires = 0 /\ request'[q].to \in raced'
      BY <2>1, <2>2, <2>3, <2>5 DEF KeysRetired
    <3>2. \A a \in Addresses :
             /\ record'[a].state = "unused" => key'[a] = 0
             /\ record'[a].expires = 0 => key'[a] = 0 \/ a \in raced'
      BY <1>0, <2>1, <2>2 DEF KeysRetired
    <3>3. \A q \in Requests : request'[q].step \in {"forget", "retire"} =>
             Previous(q)' \ request'[q].beside \subseteq Previous(q) \ request[q].beside
      BY <2>3, <2>4, <2>5, <2>6
    <3> QED
      BY <2>1, <2>6, <3>1, <3>2, <3>3 DEF KeysRetired
  <2>8. KeysOutlive'
    <3>1. \A q \in Requests : request'[q].step = "forget" =>
             \A a \in request'[q].found :
                record'[a].state # "unused" /\ SameOwner(request'[q].by, record'[a].by)
      BY <1>a, <2>1, <2>2, <2>6
    <3>2. \A a \in Addresses : Live(a)' => a = request[r].to \/ (Live(a) /\ record'[a] = record[a])
      BY <2>1, <2>2 DEF Live
    <3>3. \A q \in Requests : request[q].step \in {"forget", "retire", "key"} =>
             request'[q] = request[q]
      BY <2>1, <2>3
    <3> QED
      BY <2>1, <2>4, <3>1, <3>2, <3>3 DEF KeysOutlive
  <2> QED
    BY <2>7, <2>8
<1>6. ASSUME NEW r \in Requests, SetKey(r)
      PROVE  KeysRetired' /\ KeysOutlive'
  <2>1. /\ request[r].step = "key" /\ request'[r].step = "idle"
        /\ request[r].to \in Addresses /\ request[r].now <= clock
        /\ key'[request[r].to] = clock + TTL
        /\ \A a \in Addresses : a # request[r].to => key'[a] = key[a]
        /\ \A q \in Requests \ {r} : request'[q] = request[q]
        /\ UNCHANGED <<clock, record, failures, raced>>
    BY <1>0, <1>6 DEF SetKey, BookTypeOK, RequestRecords, Running, NoRequest
  <2>2. \A q \in Requests \ {r} : Previous(q)' = Previous(q)
    BY <2>1 DEF Previous
  <2>3. \A q \in Requests \ {r} : request[q].step # "idle" => request[r].to \in request[q].beside
    BY <2>1 DEF Neighbours, Running
  <2>4. \A q \in Requests : request'[q].step # "idle" => q # r
    BY <2>1
  <2>5. \A q \in Requests : Previous(q) \subseteq Addresses
    BY DEF Previous
  <2>6. KeysRetired'
    <3>1. \A a \in Addresses :
             /\ record'[a].state = "unused" => key'[a] = 0
             /\ record'[a].expires = 0 => key'[a] = 0 \/ a \in raced'
      BY <1>0, <2>1 DEF KeysRetired
    <3>2. \A q \in Requests \ {r} : request[q].step # "idle" =>
             \A a \in Previous(q) \ request[q].beside : key'[a] = key[a]
      BY <2>1, <2>3, <2>5
    <3> QED
      BY <2>1, <2>2, <2>4, <3>1, <3>2 DEF KeysRetired
  <2>7. KeysOutlive'
    <3>1. Live(request[r].to) => key'[request[r].to] >= record[request[r].to].expires
      BY <1>0, <2>1 DEF KeysRetired, Live
    <3>2. \A a \in Addresses : Live(a)' => Live(a)
      BY <2>1 DEF Live
    <3>3. \A q \in Requests : request[q].step \in {"forget", "retire"} => q # r
      BY <2>1
    <3> QED
      BY <2>1, <2>2, <2>4, <3>1, <3>2, <3>3 DEF KeysOutlive
  <2> QED
    BY <2>6, <2>7
<1>7. ASSUME NEW r \in Requests, BreakOff(r)
      PROVE  KeysRetired' /\ KeysOutlive'
  <2>1. /\ request'[r].step = "idle" /\ failures' # 0
        /\ \A q \in Requests \ {r} : request'[q] = request[q]
        /\ UNCHANGED <<clock, record, key, raced>>
    BY <1>7 DEF BreakOff, BookTypeOK, NoRequest
  <2>2. \A q \in Requests \ {r} : Previous(q)' = Previous(q)
    BY <2>1 DEF Previous
  <2>3. \A q \in Requests : request'[q].step # "idle" => q # r
    BY <2>1
  <2>4. KeysRetired'
    BY <2>1, <2>2, <2>3 DEF KeysRetired
  <2>5. KeysOutlive'
    BY <2>1, <2>3 DEF KeysOutlive
  <2> QED
    BY <2>4, <2>5
<1>8. ASSUME NEW b \in Addresses, Reap(b)
      PROVE  KeysRetired' /\ KeysOutlive'
  <2>1. /\ record[b].state = "stored" /\ record'[b].state = "deleted"
        /\ record[b].expires <= clock
        /\ \A a \in Addresses : /\ a # b => record'[a] = record[a]
                                /\ record'[a].expires = record[a].expires
                                /\ record'[a].by = record[a].by
        /\ UNCHANGED <<clock, key, request, failures, raced>>
    BY <1>0, <1>8 DEF Reap, Documents
  <2>2. \A r \in Requests : Previous(r)' = Previous(r) \ {b}
    BY <2>1 DEF Previous
  <2>3. \A r \in Requests : request[r].step = "key" => request[r].to \in Addresses
    BY DEF BookTypeOK, Running
  <2>4. KeysRetired'
    <3>1. \A a \in Addresses : record'[a].state = "unused" => record[a].state = "unused"
      BY <2>1
    <3>2. \A r \in Requests : request[r].step = "key" =>
             /\ record[request[r].to].state # "unused" => record'[request[r].to].state # "unused"
             /\ record'[request[r].to].expires = record[request[r].to].expires
      BY <2>1, <2>3
    <3> QED
      BY <2>1, <2>2, <3>1, <3>2 DEF KeysRetired
  <2>5. KeysOutlive'
    <3>1. \A r \in Requests : request'[r].step = "forget" =>
             \A a \in request'[r].found :
                record'[a].state # "unused" /\ SameOwner(request'[r].by, record'[a].by)
      BY <1>a, <2>1
    <3>2. \A a \in Addresses : Live(a)' => Live(a) /\ a # b
      BY <2>1 DEF Live
    <3> QED
      BY <2>1, <2>2, <3>1, <3>2 DEF KeysOutlive
  <2> QED
    BY <2>4, <2>5
<1>9. CASE Tick
  <2>1. clock' >= clock /\ clock' \in Nat /\ UNCHANGED <<record, key, request, failures, raced>>
    BY <1>0, <1>9 DEF Tick
  <2>2. \A r \in Requests : Previous(r)' = Previous(r)
    BY <2>1 DEF Previous
  <2>3. \A a \in Addresses : Live(a)' => Live(a)
    BY <1>0, <2>1 DEF Live
  <2> QED
    BY <2>1, <2>2, <2>3 DEF KeysRetired, KeysOutlive
<1>10. CASE UNCHANGED bookVars
  <2>1. \A r \in Requests : Previous(r)' = Previous(r)
    BY <1>10 DEF bookVars, Previous
  <2>2. \A a \in Addresses : Live(a)' = Live(a)
    BY <1>10 DEF bookVars, Live
  <2> QED
    BY <1>10, <2>1, <2>2 DEF bookVars, KeysRetired, KeysOutlive
<1> QED
  BY <1>1, <1>2, <1>3, <1>4, <1>5, <1>6, <1>7, <1>8, <1>9, <1>10 DEF BookNext

(* What /generate keeps between its calls, for any number of requests,     *)
(* addresses and visitors, any TTL and any failures.                       *)
LEMMA KeysAgreed == BookSpec => [](BookTypeOK /\ Neighbours /\ KeysRetired /\ KeysOutlive)
<1>1. BookInit => Neighbours /\ KeysRetired /\ KeysOutlive
  BY DEF BookInit, NoRecord, NoRequest, Neighbours, Running, KeysRetired, KeysOutlive, Live
<1> QED
  BY <1>1, NeighboursStep, KeysStep, BookTyped, PTL DEF BookSpec

(* Wherever requests break off, Postfix accepts no address that was never  *)
(* stored, and none replaced by a request that began when its maker was    *)
(* done.                                                                   *)
THEOREM ReplacedAreRefused == BookSpec => []ReplacedRefused
<1>1. BookTypeOK /\ KeysRetired => ReplacedRefused
  <2> SUFFICES ASSUME BookTypeOK, KeysRetired, NEW a \in Addresses, Accepted(a)
               PROVE  record[a].state # "unused" /\ (record[a].expires # 0 \/ a \in raced)
    BY DEF ReplacedRefused
  <2>1. key[a] # 0
    BY DEF Accepted, BookTypeOK
  <2> QED
    BY <2>1 DEF KeysRetired
<1> QED
  BY <1>1, KeysAgreed, PTL

(* While no request broke off, an address /check calls waiting is one that *)
(* Postfix accepts.                                                        *)
THEOREM WaitingAreAccepted == BookSpec => []WaitingAccepted
<1>1. BookTypeOK /\ KeysOutlive => WaitingAccepted
  <2> SUFFICES ASSUME BookTypeOK, KeysOutlive, failures = 0,
                      \A r \in Requests : ~Running(r), NEW a \in Addresses, Live(a)
               PROVE  Accepted(a)
    BY DEF WaitingAccepted
  <2>1. key[a] >= record[a].expires
    BY DEF KeysOutlive, Running
  <2>2. key[a] \in Nat /\ clock \in Nat /\ record[a].expires \in Nat
    BY BookAssumption DEF BookTypeOK, Documents
  <2> QED
    BY <2>1, <2>2 DEF Live, Accepted
<1> QED
  BY <1>1, KeysAgreed, PTL
=============================================================================
