---------------------------- MODULE HistoryProofs ----------------------------
(* What History promises for any clients, scopes, limits and reports: its  *)
(* types, and that a walk through the pages returns every report once.     *)
(* That somebody gets through is for TLC alone.                            *)
EXTENDS History, FiniteSetTheorems, WellFoundedInduction, TLAPS

Under == {p \in Nat \X Nat : p[1] < p[2]}

LEMMA UnderWellFounded == IsWellFoundedOn(Under, Nat)
BY NatLessThanWellFounded DEF OpToRel, Under

(* A set of ids has a least and a greatest element.                        *)
LEMMA Least ==
    ASSUME NEW S, S \subseteq Nat, S # {}
    PROVE  \E m \in S : \A i \in S : m <= i
<1>1. PICK m \in S : \A i \in S : ~ (<<i, m>> \in Under)
  BY UnderWellFounded, WFMin
<1>2. ASSUME NEW i \in S
      PROVE  m <= i
  <2>1. i \in Nat /\ m \in Nat
    OBVIOUS
  <2>2. i < m => <<i, m>> \in Under
    BY <2>1 DEF Under
  <2> QED
    BY <1>1, <2>1, <2>2
<1> QED
  BY <1>2

LEMMA IdsNat == Ids \subseteq Nat /\ \A i \in Ids : MaxId - i \in Nat
BY HistoryAssumption DEF Ids

LEMMA Greatest ==
    ASSUME NEW S, S \subseteq Ids, S # {}
    PROVE  \E m \in S : \A i \in S : i <= m
<1> DEFINE R == {MaxId - i : i \in S}
<1>1. R \subseteq Nat
  BY IdsNat
<1>2. R # {}
  OBVIOUS
<1>3. PICK r \in R : \A q \in R : r <= q
  <2> HIDE DEF R
  <2> QED
    BY <1>1, <1>2, Least
<1>4. PICK m \in S : r = MaxId - m
  OBVIOUS
<1>5. ASSUME NEW i \in S
      PROVE  i <= m
  <2>1. MaxId - m <= MaxId - i
    BY <1>3, <1>4
  <2>2. i \in Nat /\ m \in Nat
    BY IdsNat
  <2> QED
    BY <2>1, <2>2, HistoryAssumption
<1> QED
  BY <1>5

-----------------------------------------------------------------------------
(* The reports of a query that come before one of them.                    *)
After(found, i) == {j \in found : j > i}

LEMMA AfterFinite ==
    ASSUME NEW found \in SUBSET Ids, NEW i
    PROVE  IsFiniteSet(After(found, i)) /\ Cardinality(After(found, i)) \in Nat
<1>1. IsFiniteSet(Ids)
  BY FS_Interval, HistoryAssumption DEF Ids
<1>2. After(found, i) \subseteq Ids
  BY DEF After
<1>3. IsFiniteSet(After(found, i))
  BY <1>1, <1>2, FS_Subset
<1> QED
  BY <1>3, FS_CardinalityType

LEMMA NewestIs ==
    ASSUME NEW n
    PROVE  Newest(n) = {i \in mine \cap before :
                           Cardinality(After(mine \cap before, i)) < n}
BY DEF Newest, After

(* A page has every report found above one it has.                         *)
LEMMA PageIsTop ==
    ASSUME mine \subseteq Ids, NEW n \in Nat, NEW i \in Newest(n),
           NEW j \in mine \cap before, j >= i
    PROVE  j \in Newest(n)
<1> DEFINE found == mine \cap before
<1>1. i \in found /\ Cardinality(After(found, i)) < n
  BY NewestIs
<1>2. found \subseteq Ids /\ i \in Nat /\ j \in Nat
  BY <1>1, IdsNat
<1>3. After(found, j) \subseteq After(found, i)
  <2>1. ASSUME NEW k \in After(found, j)
        PROVE  k \in After(found, i)
    <3>1. k \in found /\ k > j
      BY DEF After
    <3>2. k \in Nat
      BY <1>2, <3>1, IdsNat
    <3>3. k > i
      BY <1>2, <3>1, <3>2
    <3> QED
      BY <3>1, <3>3 DEF After
  <2> QED
    BY <2>1
<1>4. Cardinality(After(found, j)) <= Cardinality(After(found, i))
  BY <1>2, <1>3, AfterFinite, FS_Subset
<1>5. Cardinality(After(found, j)) \in Nat /\ Cardinality(After(found, i)) \in Nat
  BY <1>2, AfterFinite
<1>6. Cardinality(After(found, j)) < n
  BY <1>1, <1>4, <1>5
<1> QED
  BY <1>6, NewestIs

(* A query that finds a report has a page.                                 *)
LEMMA SomePage ==
    ASSUME mine \subseteq Ids, NEW n \in Nat \ {0}, mine \cap before # {}
    PROVE  Newest(n) # {}
<1> DEFINE found == mine \cap before
<1>1. PICK i \in found : \A j \in found : j <= i
  BY Greatest
<1>2. After(found, i) = {}
  <2>1. ASSUME NEW j \in After(found, i)
        PROVE  FALSE
    <3>1. j \in found /\ j > i
      BY DEF After
    <3>2. j \in Nat /\ i \in Nat /\ j <= i
      BY <1>1, <3>1, IdsNat
    <3> QED
      BY <3>1, <3>2
  <2> QED
    BY <2>1
<1>3. Cardinality(After(found, i)) < n
  BY <1>2, FS_EmptySet
<1> QED
  BY <1>1, <1>3, NewestIs

(* When one report more than the page is not found, the page has all.      *)
LEMMA LastPage ==
    ASSUME mine \subseteq Ids, NEW n \in Nat \ {0}, Newest(n + 1) = Newest(n)
    PROVE  mine \cap before \subseteq Newest(n)
<1> DEFINE found == mine \cap before
<1>0. found \subseteq Ids /\ Ids \subseteq Nat
  BY IdsNat
<1> SUFFICES ASSUME found \ Newest(n) # {}
             PROVE  FALSE
  OBVIOUS
<1>1. PICK i \in found \ Newest(n) : \A j \in found \ Newest(n) : j <= i
  <2>1. found \ Newest(n) \subseteq Ids
    BY <1>0
  <2> QED
    BY <2>1, Greatest
<1> DEFINE above == After(found, i)
<1> HIDE DEF found
<1>2. IsFiniteSet(above) /\ Cardinality(above) \in Nat
  BY <1>0, AfterFinite
<1>3. ~ (Cardinality(above) < n)
  BY <1>1, NewestIs DEF found
<1>4. ~ (Cardinality(above) < n + 1)
  BY <1>1, NewestIs DEF found
<1>5. above \subseteq Newest(n)
  <2>1. ASSUME NEW j \in above
        PROVE  j \in Newest(n)
    <3>1. j \in found /\ j > i /\ j \in Nat /\ i \in Nat
      BY <1>0, <1>1 DEF After
    <3> QED
      BY <1>1, <3>1
  <2> QED
    BY <2>1
<1>6. above # {}
  <2>1. Cardinality({}) = 0
    BY FS_EmptySet
  <2> QED
    BY <1>4, <2>1
<1>7. above \subseteq Nat /\ above \subseteq found
  BY <1>0 DEF After
<1>8. PICK m \in above : \A j \in above : m <= j
  BY <1>6, <1>7, Least
<1>9. IsFiniteSet(After(found, m)) /\ Cardinality(After(found, m)) \in Nat
  BY <1>0, AfterFinite
<1>10. Cardinality(After(found, m)) < n
  BY <1>5, <1>8, NewestIs DEF found
<1>11. above = After(found, m) \cup {m}
  <2>1. ASSUME NEW j \in above
        PROVE  j \in After(found, m) \cup {m}
    BY <1>7, <1>8 DEF After
  <2>2. ASSUME NEW j \in After(found, m)
        PROVE  j \in above
    <3>1. j \in found /\ j > m /\ m > i
      BY <1>8 DEF After
    <3>2. j \in Nat /\ m \in Nat /\ i \in Nat
      BY <1>0, <1>1, <1>7, <1>8, <3>1
    <3> QED
      BY <3>1, <3>2 DEF After
  <2> QED
    BY <1>8, <2>1, <2>2
<1>12. Cardinality(above) <= Cardinality(After(found, m)) + 1
  <2>1. Cardinality(above) =
           IF m \in After(found, m) THEN Cardinality(After(found, m))
                                    ELSE Cardinality(After(found, m)) + 1
    BY <1>9, <1>11, FS_AddElement, Zenon
  <2> QED
    BY <1>9, <2>1
<1> QED
  BY <1>2, <1>4, <1>9, <1>10, <1>12

-----------------------------------------------------------------------------
(* What is left to the walk has not been returned, and its bookkeeping     *)
(* starts with it.                                                         *)
Ahead ==
    /\ walk = "before" => present = {} /\ before = Ids
    /\ walk # "done" => \A i \in before : times[i] = 0

(* A walk that is over has no request.                                     *)
Rests == walk = "done" => step[Walker] = "idle"

HistoryInv == HistoryTypeOK /\ WalkExact /\ Ahead /\ Rests

LEMMA Begins == HistoryInit => HistoryInv
<1> SUFFICES ASSUME HistoryInit
             PROVE  HistoryInv
  OBVIOUS
<1>1. RateTypeOK
  BY RateAssumption DEF HistoryInit, RateInit, RateTypeOK
<1>2. HistoryTypeOK
  BY <1>1, HistoryAssumption DEF HistoryInit, HistoryTypeOK
<1>3. WalkExact /\ Ahead /\ Rests
  BY DEF HistoryInit, WalkExact, Ahead, Rests
<1> QED
  BY <1>2, <1>3 DEF HistoryInv

(* The limiter keeps its types, whatever its requests do: those of its     *)
(* counters, and those of the requests.                                    *)
CounterOK(k, n, t) ==
    /\ n \in Nat /\ n <= Limit[k] + 1
    /\ t \in {NoExpiry} \cup 1..Window[k]
    /\ n = 0 => t = NoExpiry

CountersOK ==
    /\ used \in [Counters -> Nat] /\ ttl \in [Counters -> {NoExpiry} \cup Nat]
    /\ \A k \in Counters : CounterOK(k, used[k], ttl[k])

RequestsOK ==
    /\ step \in [Clients -> {"idle", "hit", "expire", "refused", "endpoint"}]
    /\ at \in [Clients -> DOMAIN Scopes] /\ allowed \in [Clients -> BOOLEAN]

LEMMA RateTypes == RateTypeOK <=> CountersOK /\ RequestsOK /\ failures \in 0..MaxFailures
BY DEF RateTypeOK, CountersOK, CounterOK, RequestsOK

LEMMA RateTypesNext ==
    CountersOK' /\ RequestsOK' /\ failures' \in 0..MaxFailures => RateTypeOK'
BY DEF RateTypeOK, CountersOK, CounterOK, RequestsOK

LEMMA EnforceTyped ==
    ASSUME RequestsOK, NEW c \in Clients, NEW ok \in BOOLEAN, Enforce(c, ok)
    PROVE  RequestsOK'
<1>1. DOMAIN Scopes = 1..Len(Scopes) /\ Len(Scopes) \in Nat
  BY RateAssumption
<1>2. at[c] < Len(Scopes) => at[c] + 1 \in DOMAIN Scopes
  BY <1>1 DEF RequestsOK
<1> QED
  BY <1>2 DEF Enforce, RequestsOK

LEMMA ScopeIsCounter ==
    ASSUME RequestsOK, NEW c \in Clients
    PROVE  Scope(c) \in Counters
BY DEF RequestsOK, Scope, Counters

(* One counter changes. *)
LEMMA OneCounter ==
    ASSUME CountersOK, NEW k \in Counters, NEW n, NEW t, CounterOK(k, n, t),
           used' = [used EXCEPT ![k] = n], ttl' = [ttl EXCEPT ![k] = t]
    PROVE  CountersOK'
<1>1. n \in Nat /\ t \in {NoExpiry} \cup Nat
  BY DEF CounterOK
<1>2. used' \in [Counters -> Nat] /\ ttl' \in [Counters -> {NoExpiry} \cup Nat]
  BY <1>1 DEF CountersOK
<1>3. ASSUME NEW j \in Counters
      PROVE  CounterOK(j, used'[j], ttl'[j])
  BY DEF CountersOK
<1>4. \A j \in Counters : CounterOK(j, used[j], ttl[j])'
  BY <1>3 DEF CounterOK
<1> QED
  BY <1>2, <1>4 DEF CountersOK

LEMMA RaisedTyped ==
    ASSUME CountersOK, NEW k \in Counters
    PROVE  CounterOK(k, Raised(k), ttl[k]) /\ (Raised(k) <= Limit[k]) \in BOOLEAN
<1>1. used[k] \in Nat /\ used[k] <= Limit[k] + 1 /\ Limit[k] \in Nat
  BY RateAssumption DEF CountersOK, CounterOK
<1>2. Raised(k) \in Nat /\ Raised(k) <= Limit[k] + 1 /\ Raised(k) > 0
  BY <1>1 DEF Raised
<1> QED
  BY <1>1, <1>2 DEF CountersOK, CounterOK

LEMMA LimiterTyped ==
    ASSUME RateTypeOK, NEW c \in Clients, Limiter(c) \/ Fault(c) \/ Request(c) \/ Tick
    PROVE  RateTypeOK'
<1> DEFINE k == Scope(c)
<1>0. CountersOK /\ RequestsOK /\ failures \in 0..MaxFailures
  BY RateTypes
<1>1. k \in Counters
  BY <1>0, ScopeIsCounter
<1>2. CounterOK(k, Raised(k), ttl[k]) /\ (Raised(k) <= Limit[k]) \in BOOLEAN
  BY <1>0, <1>1, RaisedTyped
<1>3. ttl = [ttl EXCEPT ![k] = ttl[k]] /\ used = [used EXCEPT ![k] = used[k]]
  BY <1>0, <1>1 DEF CountersOK
<1>4. ASSUME UNCHANGED <<used, ttl>>
      PROVE  CountersOK'
  BY <1>0, <1>4 DEF CountersOK, CounterOK
<1>5. ASSUME failures < MaxFailures, failures' = failures + 1
      PROVE  failures' \in 0..MaxFailures
  BY <1>0, <1>5, RateAssumption
<1> HIDE DEF k
<1>6. CASE Hit(c)
  <2>1. RequestsOK'
    <3>1. CASE NeedsWindow(k)
      BY <1>0, <1>2, <1>6, <3>1 DEF Hit, RequestsOK, k
    <3>2. CASE ~ NeedsWindow(k)
      <4>1. Enforce(c, Raised(k) <= Limit[k])
        BY <1>6, <3>2 DEF Hit, k
      <4> QED
        BY <1>0, <1>2, <4>1, EnforceTyped
    <3> QED
      BY <3>1, <3>2
  <2>2. used' = [used EXCEPT ![k] = Raised(k)] /\ ttl' = ttl /\ failures' = failures
    BY <1>6 DEF Hit, k
  <2>3. CountersOK'
    BY <1>0, <1>1, <1>2, <1>3, <2>2, OneCounter
  <2> QED
    BY <1>0, <2>1, <2>2, <2>3, RateTypesNext
<1>7. CASE HitFails(c)
  <2>1. /\ Enforce(c, TRUE) /\ ttl' = ttl
        /\ failures < MaxFailures /\ failures' = failures + 1
        /\ used' = used \/ used' = [used EXCEPT ![k] = Raised(k)]
    BY <1>7 DEF HitFails, k
  <2>2. RequestsOK'
    BY <1>0, <2>1, EnforceTyped
  <2>3. CountersOK'
    BY <1>0, <1>1, <1>2, <1>3, <1>4, <2>1, OneCounter
  <2> QED
    BY <1>5, <2>1, <2>2, <2>3, RateTypesNext
<1>8. CASE Expire(c)
  <2>1. /\ Enforce(c, allowed[c]) /\ used' = used /\ failures' = failures
        /\ ttl' = [ttl EXCEPT ![k] = IF used[k] > 0 THEN Window[k] ELSE @]
    BY <1>8 DEF Expire, k
  <2>2. RequestsOK'
    BY <1>0, <2>1, EnforceTyped DEF RequestsOK
  <2> DEFINE t == IF used[k] > 0 THEN Window[k] ELSE ttl[k]
  <2>3. CounterOK(k, used[k], t)
    <3>1. Window[k] \in Nat \ {0} /\ CounterOK(k, used[k], ttl[k])
      BY <1>0, <1>1, RateAssumption DEF CountersOK
    <3> QED
      BY <3>1 DEF CounterOK
  <2>4. ttl' = [ttl EXCEPT ![k] = t]
    BY <2>1
  <2>5. CountersOK'
    <3> HIDE DEF t
    <3> QED
      BY <1>0, <1>1, <1>3, <2>1, <2>3, <2>4, OneCounter
  <2> QED
    BY <1>0, <2>1, <2>2, <2>5, RateTypesNext
<1>9. CASE ExpireFails(c)
  <2>1. /\ Enforce(c, allowed[c]) /\ UNCHANGED <<used, ttl>>
        /\ failures < MaxFailures /\ failures' = failures + 1
    BY <1>9 DEF ExpireFails
  <2>2. RequestsOK'
    BY <1>0, <2>1, EnforceTyped DEF RequestsOK
  <2> QED
    BY <1>4, <1>5, <2>1, <2>2, RateTypesNext
<1>10. CASE Refused(c) \/ Lost(c)
  <2>1. /\ Return(c) /\ UNCHANGED <<used, ttl>>
        /\ failures' = failures \/ (failures < MaxFailures /\ failures' = failures + 1)
    BY <1>10 DEF Refused, Lost, Return
  <2>2. RequestsOK'
    BY <1>0, <2>1, RateAssumption DEF Return, RequestsOK
  <2> QED
    BY <1>0, <1>4, <1>5, <2>1, <2>2, RateTypesNext
<1>11. CASE Request(c)
  <2>1. step' = [step EXCEPT ![c] = "hit"] /\ UNCHANGED <<used, ttl, at, allowed, failures>>
    BY <1>11 DEF Request
  <2>3. RequestsOK'
    BY <1>0, <2>1 DEF RequestsOK
  <2> QED
    BY <1>0, <1>4, <2>1, <2>3, RateTypesNext
<1>12. CASE Tick
  <2>1. /\ used' = [j \in Counters |-> IF ttl[j] = 1 THEN 0 ELSE used[j]]
        /\ ttl' = [j \in Counters |-> IF ttl[j] \in {NoExpiry, 1} THEN NoExpiry ELSE ttl[j] - 1]
        /\ UNCHANGED <<step, at, allowed, failures>>
    BY <1>12 DEF Tick
  <2>2. ASSUME NEW j \in Counters
        PROVE  used'[j] \in Nat /\ ttl'[j] \in {NoExpiry} \cup Nat /\ CounterOK(j, used'[j], ttl'[j])
    <3>1. CounterOK(j, used[j], ttl[j]) /\ Limit[j] \in Nat /\ Window[j] \in Nat
      BY <1>0, RateAssumption DEF CountersOK
    <3>2. /\ ttl'[j] = IF ttl[j] \in {NoExpiry, 1} THEN NoExpiry ELSE ttl[j] - 1
          /\ used'[j] = IF ttl[j] = 1 THEN 0 ELSE used[j]
      BY <2>1
    <3> QED
      BY <3>1, <3>2, RateAssumption DEF CounterOK
  <2>3. used' \in [Counters -> Nat] /\ ttl' \in [Counters -> {NoExpiry} \cup Nat]
    <3>1. used' = [j \in Counters |-> used'[j]] /\ ttl' = [j \in Counters |-> ttl'[j]]
      BY <2>1
    <3> QED
      BY <2>2, <3>1
  <2>4. \A j \in Counters : CounterOK(j, used[j], ttl[j])'
    BY <2>2 DEF CounterOK
  <2>5. CountersOK' /\ RequestsOK'
    BY <1>0, <2>1, <2>3, <2>4 DEF CountersOK, RequestsOK
  <2> QED
    BY <1>0, <2>1, <2>5, RateTypesNext
<1> QED
  BY <1>6, <1>7, <1>8, <1>9, <1>10, <1>11, <1>12 DEF Limiter, Fault

-----------------------------------------------------------------------------
LEMMA ReturnTyped ==
    ASSUME RateTypeOK, NEW c \in Clients, Return(c), UNCHANGED failures
    PROVE  RateTypeOK'
<1>1. 1 \in DOMAIN Scopes
  BY RateAssumption
<1> QED
  BY <1>1 DEF RateTypeOK, Return

LEMMA PageSizeTyped ==
    ASSUME NEW limit \in Limits
    PROVE  PageSize(limit) \in Nat \ {0}
BY HistoryAssumption DEF PageSize

(* What a page is, for the walk: reports it had not returned, all there    *)
(* are above the next cursor, and all there are when it is the last.       *)
LEMMA PageOfWalk ==
    ASSUME HistoryInv, walk # "done", NEW n \in Nat \ {0}
    PROVE  /\ Newest(n) \subseteq mine \cap before
           /\ \A i \in Newest(n) : times[i] = 0
           /\ Below(Newest(n)) \subseteq Ids
           /\ \A i \in mine \cap before : i \in Newest(n) \/ i \in Below(Newest(n))
           /\ Newest(n + 1) = Newest(n) => mine \cap before \subseteq Newest(n)
<1>1. mine \subseteq Ids /\ Ids \subseteq Nat /\ before \subseteq Ids
  BY IdsNat DEF HistoryInv, HistoryTypeOK
<1>2. Newest(n) \subseteq mine \cap before
  BY DEF Newest
<1>3. \A i \in Newest(n) : times[i] = 0
  BY <1>2 DEF HistoryInv, Ahead
<1>4. ASSUME NEW i \in mine \cap before, i \notin Newest(n)
      PROVE  i \in Below(Newest(n))
  <2>1. ASSUME NEW j \in Newest(n)
        PROVE  i < j
    <3>1. i \in Nat /\ j \in Nat
      BY <1>1, <1>2
    <3>2. ~ (i >= j)
      BY <1>1, <1>4, PageIsTop
    <3> QED
      BY <3>1, <3>2
  <2> QED
    BY <1>1, <2>1 DEF Below
<1>5. Newest(n + 1) = Newest(n) => mine \cap before \subseteq Newest(n)
  BY <1>1, LastPage
<1> QED
  BY <1>2, <1>3, <1>4, <1>5 DEF Below

LEMMA PageStep == HistoryInv /\ Page => HistoryInv'
<1> SUFFICES ASSUME HistoryInv, Page
             PROVE  HistoryInv'
  OBVIOUS
<1>walking. walk # "done"
  BY DEF Page, HistoryInv, Rests
<1>0. /\ mine \subseteq Ids /\ present \subseteq mine /\ before \subseteq Ids
      /\ Ids \subseteq Nat /\ times \in [Ids -> Nat] /\ Walker \in Clients
  BY IdsNat, HistoryAssumption DEF HistoryInv, HistoryTypeOK
<1>1. PICK limit \in Limits :
         LET documents == Newest(PageSize(limit) + 1)
             page == Newest(PageSize(limit))
             more == documents # page
         IN  /\ times' = [i \in Ids |-> times[i] + (IF i \in page THEN 1 ELSE 0)]
             /\ walk' = IF more THEN "walking" ELSE "done"
             /\ before' = IF more THEN NextCursor(documents, page) ELSE before
  BY DEF Page
<1> DEFINE n == PageSize(limit)
           page == Newest(n)
<1>2. n \in Nat \ {0}
  BY PageSizeTyped
<1>3. /\ times' = [i \in Ids |-> times[i] + (IF i \in page THEN 1 ELSE 0)]
      /\ Newest(n + 1) # page => walk' = "walking" /\ before' = Below(page)
      /\ Newest(n + 1) = page => walk' = "done" /\ before' = before
  BY <1>1 DEF NextCursor
<1> HIDE DEF n
<1>4. /\ page \subseteq mine \cap before
      /\ \A i \in page : times[i] = 0
      /\ Below(page) \subseteq Ids
      /\ \A i \in mine \cap before : i \in page \/ i \in Below(page)
      /\ Newest(n + 1) = page => mine \cap before \subseteq page
  BY <1>walking, <1>2, PageOfWalk
<1> HIDE DEF page
<1>5. UNCHANGED <<mine, foreign, present>> /\ RateTypeOK'
  BY <1>0, ReturnTyped DEF Page, HistoryInv, HistoryTypeOK
<1>6. times' \in [Ids -> Nat] /\ \A i \in Ids : times'[i] = IF i \in page THEN 1 ELSE times[i]
  BY <1>0, <1>3, <1>4
<1>7. before' \subseteq Ids /\ \A i \in before', j \in Ids : j < i => j \in before'
  <2>1. CASE Newest(n + 1) = page
    BY <1>3, <2>1 DEF HistoryInv, HistoryTypeOK
  <2>2. CASE Newest(n + 1) # page
    <3>1. ASSUME NEW i \in Below(page), NEW j \in Ids, j < i
          PROVE  j \in Below(page)
      <4>1. ASSUME NEW k \in page
            PROVE  j < k
        <5>1. i < k /\ i \in Nat /\ j \in Nat /\ k \in Nat
          BY <1>0, <1>4, <3>1 DEF Below
        <5> QED
          BY <3>1, <5>1
      <4> QED
        BY <4>1 DEF Below
    <3> QED
      BY <1>3, <1>4, <2>2, <3>1
  <2> QED
    BY <2>1, <2>2
<1>8. HistoryTypeOK'
  <2>1. walk' \in {"before", "walking", "done"}
    BY <1>3
  <2> QED
    BY <1>5, <1>6, <1>7, <2>1 DEF HistoryInv, HistoryTypeOK
<1>9. WalkExact'
  <2>1. ASSUME NEW i \in Ids, times'[i] > 0
        PROVE  times'[i] = 1 /\ i \in mine
    <3>1. CASE i \in page
      BY <1>4, <1>6, <3>1
    <3>2. CASE i \notin page
      <4>1. times'[i] = times[i]
        BY <1>6, <3>2
      <4> QED
        BY <2>1, <4>1 DEF HistoryInv, WalkExact
    <3> QED
      BY <3>1, <3>2
  <2>2. ASSUME NEW i \in present, walk' # "done" => i \notin before'
        PROVE  times'[i] = 1
    <3>0. i \in mine /\ i \in Ids
      BY <1>0
    <3>1. CASE i \in before
      <4>1. i \in page
        BY <1>3, <1>4, <2>2, <3>0, <3>1
      <4> QED
        BY <1>6, <3>0, <4>1
    <3>2. CASE i \notin before
      <4>1. times[i] = 1
        BY <3>2 DEF HistoryInv, WalkExact
      <4>2. i \notin page
        BY <1>4, <3>2
      <4> QED
        BY <1>6, <3>0, <4>1, <4>2
    <3> QED
      BY <3>1, <3>2
  <2> QED
    BY <1>5, <2>1, <2>2 DEF WalkExact
<1>10. Ahead'
  <2>1. walk' # "before"
    BY <1>3
  <2>2. ASSUME walk' # "done", NEW i \in before'
        PROVE  times'[i] = 0
    <3>1. before' = Below(page) /\ i \in Ids /\ Newest(n + 1) # page
      BY <1>3, <1>7, <2>2
    <3>2. Newest(n + 1) \subseteq mine \cap before
      BY DEF Newest
    <3>3. mine \cap before # {}
      BY <1>4, <3>1, <3>2
    <3>4. PICK j \in page : TRUE
      BY <1>0, <1>2, <3>3, SomePage DEF page
    <3>5. i < j /\ j \in before
      BY <1>4, <3>1, <3>4 DEF Below
    <3>6. i \in before
      BY <3>1, <3>5 DEF HistoryInv, HistoryTypeOK
    <3>7. times[i] = 0
      BY <1>walking, <3>6 DEF HistoryInv, Ahead
    <3>8. i \notin page
      <4>1. i \in page => i < i
        BY <3>1 DEF Below
      <4> QED
        BY <1>0, <3>1, <4>1
    <3> QED
      BY <1>6, <3>1, <3>7, <3>8
  <2> QED
    BY <2>1, <2>2 DEF Ahead
<1>11. Rests'
  <2>1. step' = [step EXCEPT ![Walker] = "idle"]
    BY DEF Page, Return
  <2> QED
    BY <1>0, <2>1 DEF Rests, HistoryInv, HistoryTypeOK, RateTypeOK
<1> QED
  BY <1>8, <1>9, <1>10, <1>11 DEF HistoryInv

LEMMA HistoryStep == HistoryInv /\ [HistoryNext]_historyVars => HistoryInv'
<1> SUFFICES ASSUME HistoryInv, [HistoryNext]_historyVars
             PROVE  HistoryInv'
  OBVIOUS
<1>0. RateTypeOK /\ Walker \in Clients
  BY HistoryAssumption DEF HistoryInv, HistoryTypeOK
<1>1. CASE Ask
  <2>1. Request(Walker)
    BY <1>1 DEF Ask
  <2>2. RateTypeOK'
    BY <1>0, <2>1, LimiterTyped
  <2>3. HistoryTypeOK'
    BY <1>1, <2>2 DEF Ask, HistoryInv, HistoryTypeOK
  <2>4. WalkExact' /\ Ahead' /\ Rests'
    BY <1>1 DEF Ask, HistoryInv, HistoryTypeOK, WalkExact, Ahead, Rests
  <2> QED
    BY <2>3, <2>4 DEF HistoryInv
<1>2. CASE Page
  BY <1>2, PageStep
<1>3. ASSUME NEW i \in Ids, Insert(i)
      PROVE  HistoryInv'
  <2>1. UNCHANGED <<rateVars, walkVars>> /\ i \notin mine \cup foreign
    BY <1>3 DEF Insert
  <2>2. RateTypeOK'
    BY <1>0, <2>1 DEF rateVars, RateTypeOK
  <2>3. \/ mine' = mine \cup {i} /\ foreign' = foreign
        \/ foreign' = foreign \cup {i} /\ mine' = mine
    BY <1>3 DEF Insert
  <2>4. HistoryTypeOK'
    BY <2>1, <2>2, <2>3 DEF walkVars, HistoryInv, HistoryTypeOK
  <2>5. WalkExact' /\ Ahead' /\ Rests'
    BY <2>1, <2>3 DEF walkVars, rateVars, HistoryInv, WalkExact, Ahead, Rests
  <2> QED
    BY <2>4, <2>5 DEF HistoryInv
<1>4. ASSUME NEW c \in Clients, AskOther(c) \/ GetReport(c) \/ Enforcing(c) \/ Faults(c) \/ Time
      PROVE  HistoryInv'
  <2>1. RateTypeOK'
    <3>1. CASE GetReport(c)
      BY <1>0, <3>1, ReturnTyped DEF GetReport
    <3>2. CASE ~ GetReport(c)
      <4>1. Limiter(c) \/ Fault(c) \/ Request(c) \/ Tick
        BY <1>4, <3>2 DEF AskOther, Enforcing, Faults, Time
      <4> QED
        BY <1>0, <4>1, LimiterTyped
    <3> QED
      BY <3>1, <3>2
  <2>2. UNCHANGED <<mine, foreign, walkVars>>
    BY <1>4 DEF AskOther, GetReport, Enforcing, Faults, Time
  <2>4. HistoryTypeOK'
    BY <2>1, <2>2 DEF walkVars, HistoryInv, HistoryTypeOK
  <2>5. WalkExact' /\ Ahead'
    BY <2>2 DEF walkVars, HistoryInv, WalkExact, Ahead
  <2>6. Rests'
    <3>1. UNCHANGED step \/ \E s : /\ step' = [step EXCEPT ![c] = s]
                                   /\ step[c] # "idle" \/ c # Walker
      BY <1>4
      DEF AskOther, GetReport, Enforcing, Faults, Time, Request, Limiter, Fault, Hit, HitFails,
          Expire, ExpireFails, Enforce, Refused, Lost, Return, Tick
    <3>2. walk' = walk /\ step \in [Clients -> {"idle", "hit", "expire", "refused", "endpoint"}]
      BY <1>0, <2>2 DEF walkVars, RateTypeOK
    <3> QED
      BY <1>0, <3>1, <3>2 DEF HistoryInv, Rests
  <2> QED
    BY <2>4, <2>5, <2>6 DEF HistoryInv
<1>5. CASE UNCHANGED historyVars
  BY <1>5
  DEF historyVars, rateVars, walkVars, HistoryInv, HistoryTypeOK, RateTypeOK, WalkExact, Ahead, Rests
<1> QED
  BY <1>0, <1>1, <1>2, <1>3, <1>4, <1>5 DEF HistoryNext

LEMMA HistoryKept == HistorySpec => []HistoryInv
<1> QED
  BY Begins, HistoryStep, PTL DEF HistorySpec

(* The types of History.                                                   *)
THEOREM HistoryTyped == HistorySpec => []HistoryTypeOK
<1>1. HistoryInv => HistoryTypeOK
  BY DEF HistoryInv
<1> QED
  BY <1>1, HistoryKept, PTL

(* A walk returns every report once, and none of another account.          *)
THEOREM WalkIsExact == HistorySpec => []WalkExact
<1>1. HistoryInv => WalkExact
  BY DEF HistoryInv
<1> QED
  BY <1>1, HistoryKept, PTL

-----------------------------------------------------------------------------
(* A request that is at another counter, or at none, leaves k as it was.   *)
LEMMA OtherCounter ==
    ASSUME NEW c \in Clients, NEW k \in Counters,
           used'[k] = used[k], ttl'[k] = ttl[k],
           \A d \in Clients \ {c} : step'[d] = step[d] /\ at'[d] = at[d],
           step[c] \in {"hit", "expire"} => Scope(c) # k
    PROVE  Windowless(k)' => Windowless(k) /\ Untouched(k)
<1> SUFFICES ASSUME Windowless(k)'
             PROVE  Windowless(k) /\ Untouched(k)
  OBVIOUS
<1>1. used[k] > 0 /\ ttl[k] = NoExpiry
  BY DEF Windowless
<1>2. ASSUME NEW d \in Clients, step[d] = "expire"
      PROVE  Scope(d) # k
  <2>1. CASE d = c
    BY <1>2, <2>1
  <2>2. CASE d # c
    BY <1>2, <2>2 DEF Windowless, Scope
  <2> QED
    BY <2>1, <2>2
<1>3. Untouched(k)
  BY DEF Untouched
<1> QED
  BY <1>1, <1>2, <1>3 DEF Windowless

(* Only the limiter's step of c moves c. *)
LEMMA OnlyOne ==
    ASSUME RateTypeOK, NEW c \in Clients,
           Hit(c) \/ Expire(c) \/ Request(c) \/ Return(c)
    PROVE  \A d \in Clients \ {c} : step'[d] = step[d] /\ at'[d] = at[d]
BY DEF RateTypeOK, Hit, Expire, Request, Return, Enforce

LEMMA GivenByHit ==
    ASSUME RateTypeOK, NEW c \in Clients, Hit(c)
    PROVE  GivenWindow
<1>1. \A d \in Clients \ {c} : step'[d] = step[d] /\ at'[d] = at[d]
  BY OnlyOne
<1>2. /\ ttl' = ttl /\ step[c] = "hit"
      /\ used' = [used EXCEPT ![Scope(c)] = Raised(Scope(c))]
  BY DEF Hit
<1>3. ASSUME NEW k \in Counters, k = Scope(c)
      PROVE  ~Windowless(k)'
  <2>1. CASE NeedsWindow(k)
    <3>1. step'[c] = "expire" /\ Scope(c)' = k
      BY <1>3, <2>1 DEF Hit, RateTypeOK, Scope
    <3> QED
      BY <3>1 DEF Windowless
  <2>2. CASE ~NeedsWindow(k)
    BY <1>2, <2>2 DEF NeedsWindow, Windowless
  <2> QED
    BY <2>1, <2>2
<1>4. ASSUME NEW k \in Counters, Windowless(k)'
      PROVE  Windowless(k) /\ Untouched(k)
  <2>1. k # Scope(c)
    BY <1>3, <1>4
  <2>2. used'[k] = used[k] /\ ttl'[k] = ttl[k]
    BY <1>2, <2>1 DEF RateTypeOK
  <2> QED
    BY <1>1, <1>4, <2>1, <2>2, OtherCounter
<1> QED
  BY <1>4 DEF GivenWindow

LEMMA GivenByExpire ==
    ASSUME RateTypeOK, NEW c \in Clients, Expire(c)
    PROVE  GivenWindow
<1>1. \A d \in Clients \ {c} : step'[d] = step[d] /\ at'[d] = at[d]
  BY OnlyOne
<1>2. /\ used' = used
      /\ ttl' = [ttl EXCEPT ![Scope(c)] = IF used[Scope(c)] > 0 THEN Window[Scope(c)] ELSE @]
  BY DEF Expire
<1>4. ASSUME NEW k \in Counters, k = Scope(c)
      PROVE  ~Windowless(k)'
  <2>1. CASE used[k] > 0
    <3>1. ttl'[k] = Window[k] /\ Window[k] \in Nat
      BY <1>2, <1>4, <2>1, RateAssumption DEF RateTypeOK
    <3>2. ttl'[k] # NoExpiry
      BY <3>1, RateAssumption
    <3> QED
      BY <3>2 DEF Windowless
  <2>2. CASE ~(used[k] > 0)
    BY <1>2, <2>2 DEF Windowless
  <2> QED
    BY <2>1, <2>2
<1>5. ASSUME NEW k \in Counters, Windowless(k)'
      PROVE  Windowless(k) /\ Untouched(k)
  <2>1. k # Scope(c)
    BY <1>4, <1>5
  <2>2. used'[k] = used[k] /\ ttl'[k] = ttl[k]
    BY <1>2, <2>1 DEF RateTypeOK
  <2> QED
    BY <1>1, <1>5, <2>1, <2>2, OtherCounter
<1> QED
  BY <1>5 DEF GivenWindow

(* A step that is at no counter. *)
LEMMA GivenByOthers ==
    ASSUME RateTypeOK, NEW c \in Clients, UNCHANGED <<used, ttl>>,
           \/ UNCHANGED <<step, at>>
           \/ Request(c)
           \/ Return(c) /\ step[c] \notin {"hit", "expire"}
    PROVE  GivenWindow
<1>1. \A d \in Clients \ {c} : step'[d] = step[d] /\ at'[d] = at[d]
  BY OnlyOne
<1>2. CASE UNCHANGED <<step, at>>
  BY <1>2 DEF GivenWindow, Windowless, Untouched, Scope
<1>3. CASE step[c] \notin {"hit", "expire"}
  BY <1>1, <1>3, OtherCounter DEF GivenWindow
<1> QED
  BY <1>2, <1>3 DEF Request

LEMMA FaultFails ==
    ASSUME RateTypeOK, NEW c \in Clients, Fault(c)
    PROVE  failures' > failures
<1>1. failures \in Nat
  BY RateAssumption DEF RateTypeOK
<1>2. failures' = failures + 1
  BY DEF Fault, HitFails, ExpireFails, Lost
<1> QED
  BY <1>1, <1>2

LEMMA GivenByTick ==
    ASSUME RateTypeOK, Tick
    PROVE  GivenWindow
<1> SUFFICES ASSUME NEW k \in Counters, Windowless(k)'
             PROVE  Windowless(k) /\ Untouched(k)
  BY DEF GivenWindow
<1>1. /\ ttl' = [j \in Counters |-> IF ttl[j] \in {NoExpiry, 1} THEN NoExpiry ELSE ttl[j] - 1]
      /\ used' = [j \in Counters |-> IF ttl[j] = 1 THEN 0 ELSE used[j]]
      /\ UNCHANGED <<step, at>>
  BY DEF Tick
<1>2. used'[k] > 0 /\ ttl'[k] = NoExpiry
  BY DEF Windowless
<1>3. ttl[k] # 1 /\ used[k] > 0
  BY <1>1, <1>2
<1>4. ttl[k] = NoExpiry
  <2> SUFFICES ASSUME ttl[k] # NoExpiry
               PROVE  FALSE
    OBVIOUS
  <2>1. ttl[k] \in Nat /\ ttl[k] # 0
    BY RateAssumption DEF RateTypeOK
  <2>2. ttl[k] - 1 \in Nat
    BY <2>1
  <2> QED
    BY <1>1, <1>2, <1>3, <2>2, RateAssumption
<1> QED
  BY <1>1, <1>3, <1>4 DEF Windowless, Untouched, Scope

(* A counter is without a window, and no request about to give it one,     *)
(* only after a failure, and until somebody asks again (rate_limit.py's    *)
(* hit).                                                                   *)
THEOREM WindowsAreGiven == HistorySpec => WindowOrFailure
<1>1. ASSUME HistoryInv, [HistoryNext]_historyVars
      PROVE  [GivenWindow]_rateVars
  <2>0. RateTypeOK /\ Walker \in Clients /\ failures \in Nat
    BY <1>1, HistoryAssumption DEF HistoryInv, HistoryTypeOK, RateTypeOK
  <2>1. ASSUME NEW c \in Clients, Hit(c) \/ Expire(c)
        PROVE  GivenWindow
    BY <2>0, <2>1, GivenByHit, GivenByExpire
  <2>2. ASSUME NEW c \in Clients, Fault(c)
        PROVE  GivenWindow
    BY <2>0, <2>2, FaultFails DEF GivenWindow
  <2>3. ASSUME NEW c \in Clients, Request(c)
        PROVE  GivenWindow
    BY <2>0, <2>3, GivenByOthers DEF Request
  <2>4. ASSUME NEW c \in Clients, Return(c), step[c] \in {"refused", "endpoint"}
        PROVE  GivenWindow
    BY <2>0, <2>4, GivenByOthers DEF Return
  <2>5. CASE Tick
    BY <2>0, <2>5, GivenByTick
  <2>6. CASE UNCHANGED rateVars
    BY <2>6
  <2> QED
    BY <1>1, <2>0, <2>1, <2>2, <2>3, <2>4, <2>5, <2>6
    DEF HistoryNext, Ask, Page, Insert, AskOther, GetReport, Enforcing, Limiter, Refused,
        Faults, Time, historyVars
<1> QED
  BY <1>1, HistoryKept, PTL DEF HistorySpec, WindowOrFailure

-----------------------------------------------------------------------------
(* The next cursor is below a report of the page: it moves down, never up. *)
LEMMA CursorMoves ==
    ASSUME HistoryInv, NEW n \in Nat \ {0}, Newest(n + 1) # Newest(n)
    PROVE  Below(Newest(n)) \subseteq before /\ Below(Newest(n)) # before
<1>1. mine \subseteq Ids /\ Ids \subseteq Nat /\ before \subseteq Ids
  BY IdsNat DEF HistoryInv, HistoryTypeOK
<1>2. Newest(n) \subseteq before
  BY DEF Newest
<1>3. PICK i \in Newest(n) : TRUE
  <2>1. mine \cap before # {}
    BY DEF Newest
  <2>2. Newest(n) # {}
    BY <1>1, <2>1, SomePage
  <2> QED
    BY <2>2
<1>4. i \in before /\ i \notin Below(Newest(n))
  <2>1. i \in before /\ i \in Nat
    BY <1>1, <1>2, <1>3
  <2>2. ~(i < i)
    BY <2>1
  <2> QED
    BY <1>3, <2>1, <2>2 DEF Below
<1>5. Below(Newest(n)) \subseteq before
  <2> SUFFICES ASSUME NEW j \in Below(Newest(n))
               PROVE  j \in before
    OBVIOUS
  <2>1. j \in Ids /\ j < i
    BY <1>3 DEF Below
  <2> QED
    BY <1>4, <2>1 DEF HistoryInv, HistoryTypeOK
<1> QED
  BY <1>4, <1>5

(* Every page that is answered brings a walk nearer to its end, and no     *)
(* step takes it back: the number of pages is bounded, whatever is         *)
(* inserted, refused or lost (list_history).                               *)
THEOREM WalkIsAdvanced == HistorySpec => WalkAdvances
<1>1. ASSUME HistoryInv, [HistoryNext]_historyVars
      PROVE  [Advances]_historyVars
  <2>0. RateTypeOK /\ Walker \in Clients /\ failures \in Nat
    BY <1>1, HistoryAssumption DEF HistoryInv, HistoryTypeOK, RateTypeOK
  <2>1. CASE Page
    <3>1. PICK limit \in Limits :
             LET n == PageSize(limit)
                 more == Newest(n + 1) # Newest(n)
             IN  /\ walk' = IF more THEN "walking" ELSE "done"
                 /\ before' = IF more THEN Below(Newest(n)) ELSE before
      BY <2>1 DEF Page, NextCursor
    <3>2. PageSize(limit) \in Nat \ {0}
      BY PageSizeTyped
    <3> QED
      BY <1>1, <3>1, <3>2, CursorMoves DEF Advances
  <2>2. ASSUME NEW c \in Clients, Enforcing(c) \/ Faults(c) \/ AskOther(c) \/ GetReport(c)
        PROVE  Advances
    <3>1. before' = before
      BY <2>2 DEF Enforcing, Faults, AskOther, GetReport, walkVars
    <3>2. ~(step[Walker] = "endpoint" /\ step'[Walker] = "idle" /\ failures' = failures)
      <4>1. CASE Faults(c)
        <5>1. failures' > failures
          BY <2>0, <4>1, FaultFails DEF Faults
        <5> QED
          BY <2>0, <5>1
      <4>2. CASE c = Walker /\ Enforcing(c)
        BY <2>0, <4>2 DEF Enforcing, Limiter, Hit, Expire, Refused, Return
      <4>3. CASE c # Walker /\ (Enforcing(c) \/ AskOther(c) \/ GetReport(c))
        <5>1. step'[Walker] = step[Walker]
          BY <2>0, <4>3 DEF Enforcing, Limiter, Hit, Expire, Refused, Return, Enforce,
             AskOther, Request, GetReport, RateTypeOK
        <5> QED
          BY <5>1
      <4> QED
        BY <2>2, <4>1, <4>2, <4>3 DEF AskOther, GetReport
    <3> QED
      BY <3>1, <3>2 DEF Advances
  <2>3. CASE Ask \/ Time \/ (\E i \in Ids : Insert(i))
    <3>1. before' = before
      BY <2>3 DEF Ask, Time, Insert, walkVars
    <3>2. ~(step[Walker] = "endpoint" /\ step'[Walker] = "idle")
      BY <2>3 DEF Ask, Request, Time, Tick, Insert, rateVars
    <3> QED
      BY <3>1, <3>2 DEF Advances
  <2> QED
    BY <1>1, <2>1, <2>2, <2>3 DEF HistoryNext
<1> QED
  BY <1>1, HistoryKept, PTL DEF HistorySpec, WalkAdvances
=============================================================================
