----------------------------- MODULE AccessProofs -----------------------------
(* What Access promises for any number of accounts, requests and keys and  *)
(* any life of a token: its types, the bounds on an account's tokens and   *)
(* keys, that a login's token holds, and that a logout ends it.            *)
EXTENDS Access, FiniteSetTheorems, TLAPS

(* A request goes to its next call, with a token of an account.            *)
LEMMA Moves ==
    ASSUME AccessTypeOK, NEW r \in Requests, NEW t \in Tokens,
           NEW step \in {"delete", "insert", "logout", "key", "revoke"}, At(r, step, t)
    PROVE  /\ request' \in [Requests -> RequestRecords]
           /\ request'[r].step = step /\ request'[r].token = t
           /\ \A q \in Requests \ {r} : request'[q] = request[q]
<1>1. [step |-> step, token |-> t] \in RequestRecords
  BY DEF RequestRecords
<1> QED
  BY <1>1 DEF At, AccessTypeOK

(* A request ends.                                                         *)
LEMMA Ends ==
    ASSUME AccessTypeOK, NEW r \in Requests, Done(r)
    PROVE  /\ request' \in [Requests -> RequestRecords]
           /\ request'[r].step = "idle"
           /\ \A q \in Requests \ {r} : request'[q] = request[q]
<1>1. NoRequest \in RequestRecords /\ NoRequest.step = "idle"
  BY DEF RequestRecords, NoRequest
<1> QED
  BY <1>1 DEF Done, AccessTypeOK

(* A request that is under way has the token of an account.                *)
LEMMA Holds ==
    ASSUME AccessTypeOK, NEW r \in Requests, ~Idle(r)
    PROVE  request[r].token \in Tokens
BY DEF AccessTypeOK, Idle, RequestRecords, NoRequest

(* The calls of a request, by what they do to it and to the documents.     *)
LEMMA TypeStep == AccessTypeOK /\ [AccessNext]_accessVars => AccessTypeOK'
<1> SUFFICES ASSUME AccessTypeOK, [AccessNext]_accessVars
             PROVE  AccessTypeOK'
  OBVIOUS
<1> USE AccessAssumption
<1>1. ASSUME NEW r \in Requests, NEW u \in Users, LoginReuses(r, u)
      PROVE  AccessTypeOK'
  <2>1. handed' \subseteq Tokens
    BY <1>1 DEF LoginReuses, Tracked, SessionsOf, Sessions, AccessTypeOK
  <2> QED
    BY <1>1, <2>1 DEF LoginReuses, AccessTypeOK
<1>2. ASSUME NEW r \in Requests, NEW u \in Users, LoginNew(r, u)
      PROVE  AccessTypeOK'
  <2>1. [user |-> u, exp |-> clock + TokenLife] \in Tokens
    BY DEF AccessTypeOK, Tokens
  <2>2. At(r, "delete", [user |-> u, exp |-> clock + TokenLife])
    BY <1>2 DEF LoginNew, MakeToken
  <2>3. request' \in [Requests -> RequestRecords]
    BY <2>1, <2>2, Moves
  <2>4. raced' \subseteq Users /\ handed' \subseteq Tokens /\ ended' \subseteq Tokens
    BY <1>2 DEF LoginNew, MakeToken, AccessTypeOK
  <2> QED
    BY <1>2, <2>3, <2>4 DEF LoginNew, MakeToken, AccessTypeOK
<1>3. ASSUME NEW r \in Requests, NEW s \in sessions, Authenticate(r, s.token)
      PROVE  AccessTypeOK'
  <2>1. s.token \in Tokens /\ Holder(s.token) \in Tokens
    BY DEF AccessTypeOK, Sessions, Tokens, Holder
  <2>2. request' \in [Requests -> RequestRecords]
    BY <1>3, <2>1, Moves DEF Authenticate
  <2> QED
    BY <1>3, <2>2 DEF Authenticate, AccessTypeOK
<1>4. ASSUME NEW r \in Requests, DeleteOld(r)
      PROVE  AccessTypeOK'
  <2>1. request[r].token \in Tokens /\ At(r, "insert", request[r].token)
    BY <1>4, Holds DEF DeleteOld, Idle
  <2>2. request' \in [Requests -> RequestRecords]
    BY <2>1, Moves
  <2>3. sessions' \subseteq sessions
    BY <1>4 DEF DeleteOld
  <2> QED
    BY <1>4, <2>2, <2>3 DEF DeleteOld, AccessTypeOK
<1>5. ASSUME NEW r \in Requests, SaveNew(r)
      PROVE  AccessTypeOK'
  <2>1. request[r].token \in Tokens /\ Done(r)
    BY <1>5, Holds DEF SaveNew, Idle
  <2>2. request' \in [Requests -> RequestRecords]
    BY <2>1, Ends
  <2>3. PICK i \in Ids :
           /\ \A s \in SessionsOf(request[r].token.user) : s.id # i
           /\ sessions' = sessions \cup {[id |-> i, token |-> request[r].token]}
    BY <1>5 DEF SaveNew
  <2>4. sessions' \subseteq Sessions
    BY <2>1, <2>3 DEF AccessTypeOK, Sessions
  <2>5. \A s, t \in sessions' : s.id = t.id /\ s.token.user = t.token.user => s = t
    BY <2>3 DEF AccessTypeOK, SessionsOf
  <2>6. handed' \subseteq Tokens /\ ended' \subseteq Tokens
    BY <1>5, <2>1 DEF SaveNew, Tracked, AccessTypeOK
  <2> QED
    BY <1>5, <2>2, <2>4, <2>5, <2>6 DEF SaveNew, AccessTypeOK
<1>6. ASSUME NEW r \in Requests, Logout(r)
      PROVE  AccessTypeOK'
  <2>1. request[r].token \in Tokens /\ Done(r)
    BY <1>6, Holds DEF Logout, Idle
  <2>2. request' \in [Requests -> RequestRecords]
    BY <2>1, Ends
  <2>3. sessions' \subseteq sessions
    BY <1>6 DEF Logout
  <2>4. handed' \subseteq Tokens /\ ended' \subseteq Tokens
    BY <1>6, <2>1 DEF Logout, Tracked, AccessTypeOK
  <2> QED
    BY <1>6, <2>2, <2>3, <2>4 DEF Logout, AccessTypeOK
<1>7. ASSUME NEW r \in Requests, CreateKey(r)
      PROVE  AccessTypeOK'
  <2>1. request[r].token \in Tokens /\ Done(r)
    BY <1>7, Holds DEF CreateKey, Idle
  <2>2. request' \in [Requests -> RequestRecords]
    BY <2>1, Ends
  <2>3. keys' \subseteq Keys
    BY <1>7, <2>1 DEF CreateKey, AccessTypeOK, Keys, Tokens
  <2> QED
    BY <1>7, <2>2, <2>3 DEF CreateKey, AccessTypeOK
<1>8. ASSUME NEW r \in Requests, RevokeKey(r)
      PROVE  AccessTypeOK'
  <2>1. request' \in [Requests -> RequestRecords]
    BY <1>8, Ends DEF RevokeKey
  <2>2. keys' \subseteq keys
    BY <1>8 DEF RevokeKey
  <2> QED
    BY <1>8, <2>1, <2>2 DEF RevokeKey, AccessTypeOK
<1>9. ASSUME NEW r \in Requests, BreakOff(r)
      PROVE  AccessTypeOK'
  <2>1. request' \in [Requests -> RequestRecords]
    BY <1>9, Ends DEF BreakOff
  <2>2. failures' \in 0..MaxFailures
    BY <1>9 DEF BreakOff, AccessTypeOK
  <2> QED
    BY <1>9, <2>1, <2>2 DEF BreakOff, AccessTypeOK
<1>10. CASE Tick
  BY <1>10 DEF Tick, AccessTypeOK
<1>11. CASE UNCHANGED accessVars
  BY <1>11 DEF accessVars, AccessTypeOK
<1> QED
  BY <1>1, <1>2, <1>3, <1>4, <1>5, <1>6, <1>7, <1>8, <1>9, <1>10, <1>11 DEF AccessNext, Login

(* The types, for any number of accounts and requests.                     *)
THEOREM AccessTyped == AccessSpec => []AccessTypeOK
<1>1. AccessInit => AccessTypeOK
  BY AccessAssumption DEF AccessInit, AccessTypeOK, NoRequest, RequestRecords
<1> QED
  BY <1>1, TypeStep, PTL DEF AccessSpec

-----------------------------------------------------------------------------
(* What a step does to the documents of an account and to the requests     *)
(* that are about to insert one: delete_one comes before insert_one.       *)
LEMMA SessionSteps ==
    ASSUME AccessTypeOK, [AccessNext]_accessVars, NEW u \in Users
    PROVE  \/ SessionsOf(u)' \subseteq SessionsOf(u) /\ Inserting(u)' \subseteq Inserting(u)
           \/ SessionsOf(u)' = {}
           \/ \E s \in SessionsOf(u), r \in Requests :
                 /\ SessionsOf(u)' = SessionsOf(u) \ {s}
                 /\ Inserting(u)' \subseteq Inserting(u) \cup {r}
           \/ \E s \in Sessions, r \in Inserting(u) :
                 /\ SessionsOf(u)' = SessionsOf(u) \cup {s}
                 /\ Inserting(u)' \subseteq Inserting(u) \ {r}
<1>1. ASSUME NEW r \in Requests, NEW w \in Users, LoginReuses(r, w)
      PROVE  SessionsOf(u)' \subseteq SessionsOf(u) /\ Inserting(u)' \subseteq Inserting(u)
  BY <1>1 DEF LoginReuses, SessionsOf, Inserting
<1>2. ASSUME NEW r \in Requests, NEW w \in Users, LoginNew(r, w)
      PROVE  SessionsOf(u)' \subseteq SessionsOf(u) /\ Inserting(u)' \subseteq Inserting(u)
  <2>1. [user |-> w, exp |-> clock + TokenLife] \in Tokens
    BY AccessAssumption DEF AccessTypeOK, Tokens
  <2>2. /\ request'[r].step = "delete"
        /\ \A q \in Requests \ {r} : request'[q] = request[q]
    BY <1>2, <2>1, Moves DEF LoginNew, MakeToken
  <2> QED
    BY <1>2, <2>2 DEF LoginNew, MakeToken, SessionsOf, Inserting
<1>3. ASSUME NEW r \in Requests, NEW s \in sessions, Authenticate(r, s.token)
      PROVE  SessionsOf(u)' \subseteq SessionsOf(u) /\ Inserting(u)' \subseteq Inserting(u)
  <2>1. s.token \in Tokens /\ Holder(s.token) \in Tokens
    BY DEF AccessTypeOK, Sessions, Tokens, Holder
  <2>2. /\ request'[r].step # "insert"
        /\ \A q \in Requests \ {r} : request'[q] = request[q]
    BY <1>3, <2>1, Moves DEF Authenticate
  <2> QED
    BY <1>3, <2>2 DEF Authenticate, SessionsOf, Inserting
<1>4. ASSUME NEW r \in Requests, DeleteOld(r)
      PROVE  \/ SessionsOf(u)' \subseteq SessionsOf(u) /\ Inserting(u)' \subseteq Inserting(u)
             \/ SessionsOf(u)' = {}
             \/ \E s \in SessionsOf(u) :
                   /\ SessionsOf(u)' = SessionsOf(u) \ {s}
                   /\ Inserting(u)' \subseteq Inserting(u) \cup {r}
  <2>1. request[r].token \in Tokens /\ At(r, "insert", request[r].token)
    BY <1>4, Holds DEF DeleteOld, Idle
  <2>2. /\ request'[r].token = request[r].token
        /\ \A q \in Requests \ {r} : request'[q] = request[q]
    BY <2>1, Moves
  <2>3. CASE request[r].token.user # u
    BY <1>4, <2>2, <2>3 DEF DeleteOld, SessionsOf, Inserting
  <2>4. CASE request[r].token.user = u
    BY <1>4, <2>2, <2>4 DEF DeleteOld, SessionsOf, Inserting
  <2> QED
    BY <2>3, <2>4
<1>5. ASSUME NEW r \in Requests, SaveNew(r)
      PROVE  \/ SessionsOf(u)' \subseteq SessionsOf(u) /\ Inserting(u)' \subseteq Inserting(u)
             \/ \E s \in Sessions :
                   /\ r \in Inserting(u)
                   /\ SessionsOf(u)' = SessionsOf(u) \cup {s}
                   /\ Inserting(u)' \subseteq Inserting(u) \ {r}
  <2>1. request[r].token \in Tokens /\ request[r].step = "insert"
    BY <1>5, Holds DEF SaveNew, Idle
  <2>2. /\ request'[r].step = "idle"
        /\ \A q \in Requests \ {r} : request'[q] = request[q]
    BY <1>5, Ends DEF SaveNew
  <2>3. PICK i \in Ids : sessions' = sessions \cup {[id |-> i, token |-> request[r].token]}
    BY <1>5 DEF SaveNew
  <2>4. [id |-> i, token |-> request[r].token] \in Sessions
    BY <2>1 DEF Sessions
  <2>5. CASE request[r].token.user # u
    BY <2>2, <2>3, <2>5 DEF SessionsOf, Inserting
  <2>6. CASE request[r].token.user = u
    BY <2>1, <2>2, <2>3, <2>4, <2>6 DEF SessionsOf, Inserting
  <2> QED
    BY <2>5, <2>6
<1>6. ASSUME NEW r \in Requests,
             Logout(r) \/ CreateKey(r) \/ RevokeKey(r) \/ BreakOff(r)
      PROVE  SessionsOf(u)' \subseteq SessionsOf(u) /\ Inserting(u)' \subseteq Inserting(u)
  <2>1. /\ request'[r].step = "idle"
        /\ \A q \in Requests \ {r} : request'[q] = request[q]
    BY <1>6, Ends DEF Logout, CreateKey, RevokeKey, BreakOff
  <2>2. sessions' \subseteq sessions
    BY <1>6 DEF Logout, CreateKey, RevokeKey, BreakOff
  <2> QED
    BY <2>1, <2>2 DEF SessionsOf, Inserting
<1>7. CASE Tick \/ UNCHANGED accessVars
  BY <1>7 DEF Tick, accessVars, SessionsOf, Inserting
<1> QED
  BY <1>1, <1>2, <1>3, <1>4, <1>5, <1>6, <1>7 DEF AccessNext, Login

(* What a step does to the keys of an account and to the requests that     *)
(* have counted them.                                                      *)
LEMMA KeySteps ==
    ASSUME AccessTypeOK, [AccessNext]_accessVars, NEW u \in Users
    PROVE  \/ KeysOf(u)' \subseteq KeysOf(u) /\ Creating(u)' \subseteq Creating(u)
           \/ KeysOf(u)' = KeysOf(u) /\ Cardinality(KeysOf(u)) < API_KEYS_PER_USER
           \/ \E k \in Keys, r \in Creating(u) :
                 /\ KeysOf(u)' = KeysOf(u) \cup {k}
                 /\ Creating(u)' \subseteq Creating(u) \ {r}
<1>1. ASSUME NEW r \in Requests, NEW w \in Users, LoginReuses(r, w)
      PROVE  KeysOf(u)' \subseteq KeysOf(u) /\ Creating(u)' \subseteq Creating(u)
  BY <1>1 DEF LoginReuses, KeysOf, Creating
<1>2. ASSUME NEW r \in Requests, NEW w \in Users, LoginNew(r, w)
      PROVE  KeysOf(u)' \subseteq KeysOf(u) /\ Creating(u)' \subseteq Creating(u)
  <2>1. [user |-> w, exp |-> clock + TokenLife] \in Tokens
    BY AccessAssumption DEF AccessTypeOK, Tokens
  <2>2. /\ request'[r].step = "delete"
        /\ \A q \in Requests \ {r} : request'[q] = request[q]
    BY <1>2, <2>1, Moves DEF LoginNew, MakeToken
  <2> QED
    BY <1>2, <2>2 DEF LoginNew, MakeToken, KeysOf, Creating
<1>3. ASSUME NEW r \in Requests, NEW s \in sessions, Authenticate(r, s.token)
      PROVE  \/ KeysOf(u)' \subseteq KeysOf(u) /\ Creating(u)' \subseteq Creating(u)
             \/ KeysOf(u)' = KeysOf(u) /\ Cardinality(KeysOf(u)) < API_KEYS_PER_USER
  <2>1. s.token \in Tokens /\ Holder(s.token) \in Tokens /\ Holder(s.token).user = s.token.user
    BY DEF AccessTypeOK, Sessions, Tokens, Holder
  <2>2. keys' = keys
    BY <1>3 DEF Authenticate
  <2>3. PICK step \in {"logout", "revoke", "key"}, t \in {s.token, Holder(s.token)} :
           /\ At(r, step, t)
           /\ step = "key" => Cardinality(KeysOf(s.token.user)) < API_KEYS_PER_USER
    BY <1>3 DEF Authenticate
  <2>4. /\ request'[r].step = step /\ request'[r].token = t
        /\ \A q \in Requests \ {r} : request'[q] = request[q]
    BY <2>1, <2>3, Moves
  <2>5. CASE step = "key" /\ s.token.user = u
    BY <2>2, <2>3, <2>5 DEF KeysOf
  <2>6. CASE ~(step = "key" /\ s.token.user = u)
    BY <2>1, <2>2, <2>3, <2>4, <2>6 DEF KeysOf, Creating
  <2> QED
    BY <2>5, <2>6
<1>4. ASSUME NEW r \in Requests, DeleteOld(r)
      PROVE  KeysOf(u)' \subseteq KeysOf(u) /\ Creating(u)' \subseteq Creating(u)
  <2>1. request[r].token \in Tokens /\ At(r, "insert", request[r].token)
    BY <1>4, Holds DEF DeleteOld, Idle
  <2>2. /\ request'[r].step = "insert"
        /\ \A q \in Requests \ {r} : request'[q] = request[q]
    BY <2>1, Moves
  <2> QED
    BY <1>4, <2>2 DEF DeleteOld, KeysOf, Creating
<1>5. ASSUME NEW r \in Requests, CreateKey(r)
      PROVE  \/ KeysOf(u)' \subseteq KeysOf(u) /\ Creating(u)' \subseteq Creating(u)
             \/ \E k \in Keys :
                   /\ r \in Creating(u)
                   /\ KeysOf(u)' = KeysOf(u) \cup {k}
                   /\ Creating(u)' \subseteq Creating(u) \ {r}
  <2>1. request[r].token \in Tokens /\ request[r].step = "key"
    BY <1>5, Holds DEF CreateKey, Idle
  <2>2. /\ request'[r].step = "idle"
        /\ \A q \in Requests \ {r} : request'[q] = request[q]
    BY <1>5, Ends DEF CreateKey
  <2>3. PICK i \in Ids : keys' = keys \cup {[id |-> i, user |-> request[r].token.user]}
    BY <1>5 DEF CreateKey
  <2>4. [id |-> i, user |-> request[r].token.user] \in Keys
    BY <2>1 DEF Keys, Tokens
  <2>5. CASE request[r].token.user # u
    BY <2>2, <2>3, <2>5 DEF KeysOf, Creating
  <2>6. CASE request[r].token.user = u
    BY <2>1, <2>2, <2>3, <2>4, <2>6 DEF KeysOf, Creating
  <2> QED
    BY <2>5, <2>6
<1>6. ASSUME NEW r \in Requests,
             SaveNew(r) \/ Logout(r) \/ RevokeKey(r) \/ BreakOff(r)
      PROVE  KeysOf(u)' \subseteq KeysOf(u) /\ Creating(u)' \subseteq Creating(u)
  <2>1. /\ request'[r].step = "idle"
        /\ \A q \in Requests \ {r} : request'[q] = request[q]
    BY <1>6, Ends DEF SaveNew, Logout, RevokeKey, BreakOff
  <2>2. keys' \subseteq keys
    BY <1>6 DEF SaveNew, Logout, RevokeKey, BreakOff
  <2> QED
    BY <2>1, <2>2 DEF KeysOf, Creating
<1>7. CASE Tick \/ UNCHANGED accessVars
  BY <1>7 DEF Tick, accessVars, KeysOf, Creating
<1> QED
  BY <1>1, <1>2, <1>3, <1>4, <1>5, <1>6, <1>7 DEF AccessNext, Login

-----------------------------------------------------------------------------
(* How documents, and requests about to insert one, may change: a removal  *)
(* precedes the request's insert, and the insert ends it.                  *)
Balanced(D, D1, P, P1, X) ==
    \/ D1 \subseteq D /\ P1 \subseteq P
    \/ D1 = {}
    \/ \E s \in D, r \in Requests : D1 = D \ {s} /\ P1 \subseteq P \cup {r}
    \/ \E s \in X, r \in P : D1 = D \cup {s} /\ P1 \subseteq P \ {r}

(* Documents and requests about to insert one, counted together, grow by   *)
(* neither a removal that precedes an insert nor the insert itself.        *)
LEMMA Counting ==
    ASSUME NEW D, NEW D1, NEW P, NEW P1, NEW X, NEW bound \in Nat,
           IsFiniteSet(D), P \subseteq Requests, P1 \subseteq Requests,
           Cardinality(D) + Cardinality(P) <= bound, Cardinality(Requests) <= bound,
           Balanced(D, D1, P, P1, X)
    PROVE  IsFiniteSet(D1) /\ Cardinality(D1) + Cardinality(P1) <= bound
<1>0. IsFiniteSet(P) /\ IsFiniteSet(P1) /\ IsFiniteSet(Requests)
  BY FS_Subset, AccessAssumption
<1>1. /\ Cardinality(D) \in Nat /\ Cardinality(P) \in Nat /\ Cardinality(P1) \in Nat
      /\ Cardinality(P1) <= Cardinality(Requests) /\ Cardinality(Requests) \in Nat
  BY <1>0, FS_CardinalityType, FS_Subset
<1>2. CASE D1 \subseteq D /\ P1 \subseteq P
  <2>1. /\ IsFiniteSet(D1) /\ Cardinality(D1) <= Cardinality(D) /\ Cardinality(D1) \in Nat
        /\ Cardinality(P1) <= Cardinality(P)
    BY <1>0, <1>2, FS_Subset, FS_CardinalityType
  <2> QED
    BY <1>1, <2>1
<1>3. CASE D1 = {}
  <2>1. IsFiniteSet(D1) /\ Cardinality(D1) = 0
    BY <1>3, FS_EmptySet
  <2> QED
    BY <1>1, <2>1
<1>4. CASE \E s \in D, r \in Requests : D1 = D \ {s} /\ P1 \subseteq P \cup {r}
  <2>1. PICK s \in D, r \in Requests : D1 = D \ {s} /\ P1 \subseteq P \cup {r}
    BY <1>4
  <2>2. IsFiniteSet(D1) /\ Cardinality(D1) = Cardinality(D) - 1
    BY <2>1, FS_RemoveElement
  <2>3. /\ IsFiniteSet(P \cup {r})
        /\ Cardinality(P \cup {r}) = Cardinality(P) \/ Cardinality(P \cup {r}) = Cardinality(P) + 1
    BY <1>0, FS_AddElement, Zenon
  <2>4. Cardinality(P1) <= Cardinality(P \cup {r})
    BY <2>1, <2>3, FS_Subset
  <2> QED
    BY <1>1, <2>2, <2>3, <2>4
<1>5. CASE \E s \in X, r \in P : D1 = D \cup {s} /\ P1 \subseteq P \ {r}
  <2>1. PICK s \in X, r \in P : D1 = D \cup {s} /\ P1 \subseteq P \ {r}
    BY <1>5
  <2>2. /\ IsFiniteSet(D1)
        /\ Cardinality(D1) = Cardinality(D) \/ Cardinality(D1) = Cardinality(D) + 1
    BY <2>1, FS_AddElement, Zenon
  <2>3. IsFiniteSet(P \ {r}) /\ Cardinality(P \ {r}) = Cardinality(P) - 1
    BY <1>0, <2>1, FS_RemoveElement
  <2>4. Cardinality(P1) <= Cardinality(P \ {r})
    BY <2>1, <2>3, FS_Subset
  <2> QED
    BY <1>1, <2>2, <2>3, <2>4
<1> QED
  BY <1>2, <1>3, <1>4, <1>5 DEF Balanced

(* The collections stay finite. *)
FiniteDocs == \A u \in Users : IsFiniteSet(SessionsOf(u)) /\ IsFiniteSet(KeysOf(u))

LEMMA BoundStep ==
    AccessTypeOK /\ FiniteDocs /\ SessionBound /\ KeyBound /\ [AccessNext]_accessVars
        => FiniteDocs' /\ SessionBound' /\ KeyBound'
<1> SUFFICES ASSUME AccessTypeOK, FiniteDocs, SessionBound, KeyBound,
                    [AccessNext]_accessVars, NEW u \in Users
             PROVE  /\ IsFiniteSet(SessionsOf(u)') /\ IsFiniteSet(KeysOf(u)')
                    /\ Cardinality(SessionsOf(u)') + Cardinality(Inserting(u)')
                           <= Cardinality(Requests)
                    /\ Cardinality(KeysOf(u)') + Cardinality(Creating(u)')
                           <= API_KEYS_PER_USER + Cardinality(Requests) - 1
  BY DEF FiniteDocs, SessionBound, KeyBound
<1> DEFINE most == API_KEYS_PER_USER + Cardinality(Requests) - 1
<1>1. /\ Inserting(u) \subseteq Requests /\ Inserting(u)' \subseteq Requests
      /\ Creating(u) \subseteq Requests /\ Creating(u)' \subseteq Requests
  BY DEF Inserting, Creating
<1>2. /\ Cardinality(Requests) \in Nat /\ most \in Nat
      /\ Cardinality(Requests) <= most /\ Cardinality(Requests) <= Cardinality(Requests)
  BY AccessAssumption, FS_CardinalityType
<1>3. /\ IsFiniteSet(SessionsOf(u))
      /\ Cardinality(SessionsOf(u)) + Cardinality(Inserting(u)) <= Cardinality(Requests)
  BY DEF FiniteDocs, SessionBound
<1>4. /\ IsFiniteSet(SessionsOf(u)')
      /\ Cardinality(SessionsOf(u)') + Cardinality(Inserting(u)') <= Cardinality(Requests)
  <2> HIDE DEF most
  <2>1. Balanced(SessionsOf(u), SessionsOf(u)', Inserting(u), Inserting(u)', Sessions)
    BY SessionSteps DEF Balanced
  <2> QED
    BY <1>1, <1>2, <1>3, <2>1, Counting
<1>5. /\ IsFiniteSet(KeysOf(u))
      /\ Cardinality(KeysOf(u)) + Cardinality(Creating(u)) <= most
  BY DEF FiniteDocs, KeyBound
<1>6. IsFiniteSet(KeysOf(u)') /\ Cardinality(KeysOf(u)') + Cardinality(Creating(u)') <= most
  <2>1. CASE KeysOf(u)' = KeysOf(u) /\ Cardinality(KeysOf(u)) < API_KEYS_PER_USER
    <3>1. Cardinality(Creating(u)') <= Cardinality(Requests) /\ Cardinality(Creating(u)') \in Nat
      BY <1>1, AccessAssumption, FS_Subset, FS_CardinalityType
    <3>2. Cardinality(KeysOf(u)) \in Nat
      BY <1>5, FS_CardinalityType
    <3>3. Cardinality(KeysOf(u)) + Cardinality(Creating(u)') <= most
      BY <1>2, <2>1, <3>1, <3>2, AccessAssumption
    <3> QED
      BY <1>5, <2>1, <3>3, Zenon
  <2>2. CASE Balanced(KeysOf(u), KeysOf(u)', Creating(u), Creating(u)', Keys)
    <3> HIDE DEF most
    <3> QED
      BY <1>1, <1>2, <1>5, <2>2, Counting
  <2> QED
    BY <2>1, <2>2, KeySteps DEF Balanced
<1> QED
  BY <1>4, <1>6

LEMMA BoundInit == AccessInit => FiniteDocs /\ SessionBound /\ KeyBound
<1> SUFFICES ASSUME AccessInit, NEW u \in Users
             PROVE  /\ IsFiniteSet(SessionsOf(u)) /\ IsFiniteSet(KeysOf(u))
                    /\ Cardinality(SessionsOf(u)) + Cardinality(Inserting(u))
                           <= Cardinality(Requests)
                    /\ Cardinality(KeysOf(u)) + Cardinality(Creating(u))
                           <= API_KEYS_PER_USER + Cardinality(Requests) - 1
  BY DEF FiniteDocs, SessionBound, KeyBound
<1>1. SessionsOf(u) = {} /\ KeysOf(u) = {} /\ Inserting(u) = {} /\ Creating(u) = {}
  BY DEF AccessInit, SessionsOf, KeysOf, Inserting, Creating, NoRequest
<1>2. Cardinality(Requests) \in Nat
  BY AccessAssumption, FS_CardinalityType
<1> QED
  BY <1>1, <1>2, FS_EmptySet, AccessAssumption

(* However many logins race, an account has no more tokens than requests   *)
(* run at a time.                                                          *)
THEOREM SessionsBounded == AccessSpec => []SessionBound
BY AccessTyped, BoundInit, BoundStep, PTL DEF AccessSpec

(* An account's keys overrun API_KEYS_PER_USER by less than the number of  *)
(* requests, for any limit and any number of requests.                     *)
THEOREM KeysBounded == AccessSpec => []KeyBound
BY AccessTyped, BoundInit, BoundStep, PTL DEF AccessSpec

-----------------------------------------------------------------------------
(* An account whose logins did not race has one token document at most,    *)
(* and one login at most that makes a token; while it does, the old        *)
(* document has expired, and once that is deleted there is none.           *)
OneAtATime ==
    \A u \in Users \ raced :
        /\ \A r, q \in Saving(u) : r = q
        /\ \A s, t \in SessionsOf(u) : s = t
        /\ \A r \in Saving(u), s \in SessionsOf(u) :
              request[r].step = "delete" /\ s.token.exp <= clock

(* A step that lets no login begin to save a token or go on with it, adds  *)
(* no document and does not turn back the clock.                           *)
LEMMA Quiet ==
    ASSUME OneAtATime, NEW u \in Users \ raced, SessionsOf(u)' \subseteq SessionsOf(u),
           Saving(u)' \subseteq Saving(u), AccessTypeOK, clock' \in Nat, clock' >= clock,
           \A q \in Saving(u)' : request'[q] = request[q]
    PROVE  /\ \A r, q \in Saving(u)' : r = q
           /\ \A s, t \in SessionsOf(u)' : s = t
           /\ \A r \in Saving(u)', s \in SessionsOf(u)' :
                 request'[r].step = "delete" /\ s.token.exp <= clock'
<1>1. \A s \in SessionsOf(u) : s.token.exp \in Nat
  BY DEF AccessTypeOK, SessionsOf, Sessions, Tokens
<1>2. clock \in Nat
  BY AccessAssumption DEF AccessTypeOK
<1> QED
  BY <1>1, <1>2 DEF OneAtATime

LEMMA OneStep ==
    AccessTypeOK /\ OneAtATime /\ [AccessNext]_accessVars => OneAtATime'
<1> SUFFICES ASSUME AccessTypeOK, OneAtATime, [AccessNext]_accessVars,
                    NEW u \in Users, u \notin raced'
             PROVE  /\ \A r, q \in Saving(u)' : r = q
                    /\ \A s, t \in SessionsOf(u)' : s = t
                    /\ \A r \in Saving(u)', s \in SessionsOf(u)' :
                          request'[r].step = "delete" /\ s.token.exp <= clock'
  BY DEF OneAtATime
<1>0. clock \in Nat
  BY AccessAssumption DEF AccessTypeOK
<1>1. ASSUME NEW r \in Requests, NEW w \in Users, LoginReuses(r, w)
      PROVE  u \notin raced /\ SessionsOf(u)' = SessionsOf(u) /\ request' = request /\ clock' = clock
  BY <1>1 DEF LoginReuses, SessionsOf
<1>2. ASSUME NEW r \in Requests, NEW w \in Users, LoginNew(r, w)
      PROVE  /\ \A p, q \in Saving(u)' : p = q
             /\ \A s, t \in SessionsOf(u)' : s = t
             /\ \A q \in Saving(u)', s \in SessionsOf(u)' :
                   request'[q].step = "delete" /\ s.token.exp <= clock'
  <2>1. [user |-> w, exp |-> clock + TokenLife] \in Tokens
    BY AccessAssumption DEF AccessTypeOK, Tokens
  <2>2. /\ request'[r].step = "delete" /\ request'[r].token.user = w
        /\ \A q \in Requests \ {r} : request'[q] = request[q]
    BY <1>2, <2>1, Moves DEF LoginNew, MakeToken
  <2>3. /\ sessions' = sessions /\ clock' = clock
        /\ raced' = IF Saving(w) = {} THEN raced ELSE raced \cup {w}
    BY <1>2 DEF LoginNew, MakeToken
  <2>4. CASE w # u
    <3>1. u \notin raced /\ SessionsOf(u)' = SessionsOf(u)
      BY <2>3 DEF SessionsOf
    <3>2. Saving(u)' \subseteq Saving(u) /\ \A q \in Saving(u)' : request'[q] = request[q]
      BY <2>2, <2>4 DEF Saving
    <3> QED
      BY <1>0, <2>3, <3>1, <3>2, Quiet
  <2>5. CASE w = u
    <3>1. u \notin raced /\ Saving(u) = {}
      BY <2>3, <2>5
    <3>2. Saving(u)' \subseteq {r}
      BY <2>2, <3>1 DEF Saving
    <3>3. \A s \in SessionsOf(u) : s.token.exp <= clock
      BY <1>2, <2>5, <3>1 DEF LoginNew, OneAtATime
    <3>4. SessionsOf(u)' = SessionsOf(u)
      BY <2>3 DEF SessionsOf
    <3> QED
      BY <2>2, <2>3, <3>1, <3>2, <3>3, <3>4 DEF OneAtATime
  <2> QED
    BY <2>4, <2>5
<1>3. ASSUME NEW r \in Requests, NEW s \in sessions, Authenticate(r, s.token)
      PROVE  /\ u \notin raced /\ SessionsOf(u)' = SessionsOf(u) /\ clock' = clock
             /\ Saving(u)' \subseteq Saving(u) /\ \A q \in Saving(u)' : request'[q] = request[q]
  <2>1. s.token \in Tokens /\ Holder(s.token) \in Tokens
    BY DEF AccessTypeOK, Sessions, Tokens, Holder
  <2>2. /\ request'[r].step \notin {"delete", "insert"}
        /\ \A q \in Requests \ {r} : request'[q] = request[q]
    BY <1>3, <2>1, Moves DEF Authenticate
  <2> QED
    BY <1>3, <2>2 DEF Authenticate, SessionsOf, Saving
<1>4. ASSUME NEW r \in Requests, DeleteOld(r)
      PROVE  /\ \A p, q \in Saving(u)' : p = q
             /\ \A s, t \in SessionsOf(u)' : s = t
             /\ \A q \in Saving(u)', s \in SessionsOf(u)' :
                   request'[q].step = "delete" /\ s.token.exp <= clock'
  <2>1. /\ request[r].token \in Tokens /\ At(r, "insert", request[r].token)
        /\ request[r].step = "delete"
    BY <1>4, Holds DEF DeleteOld, Idle
  <2>2. /\ request'[r].token = request[r].token
        /\ \A q \in Requests \ {r} : request'[q] = request[q]
    BY <2>1, Moves
  <2>3. u \notin raced /\ clock' = clock /\ sessions' \subseteq sessions
    BY <1>4 DEF DeleteOld
  <2>4. Saving(u)' \subseteq Saving(u)
    BY <2>1, <2>2 DEF Saving
  <2>5. CASE request[r].token.user # u
    <3>1. \A q \in Saving(u)' : request'[q] = request[q]
      BY <2>2, <2>5 DEF Saving
    <3>2. SessionsOf(u)' \subseteq SessionsOf(u)
      BY <2>3 DEF SessionsOf
    <3> QED
      BY <1>0, <2>3, <2>4, <3>1, <3>2, Quiet
  <2>6. CASE request[r].token.user = u
    <3>1. \A s, t \in SessionsOf(u) : s = t
      BY <2>3 DEF OneAtATime
    <3>2. SessionsOf(u)' = {}
      BY <1>4, <2>6, <3>1 DEF DeleteOld, SessionsOf
    <3> QED
      BY <2>3, <2>4, <3>2 DEF OneAtATime
  <2> QED
    BY <2>5, <2>6
<1>5. ASSUME NEW r \in Requests, SaveNew(r)
      PROVE  /\ \A p, q \in Saving(u)' : p = q
             /\ \A s, t \in SessionsOf(u)' : s = t
             /\ \A q \in Saving(u)', s \in SessionsOf(u)' :
                   request'[q].step = "delete" /\ s.token.exp <= clock'
  <2>1. request[r].token \in Tokens /\ request[r].step = "insert"
    BY <1>5, Holds DEF SaveNew, Idle
  <2>2. /\ request'[r].step = "idle"
        /\ \A q \in Requests \ {r} : request'[q] = request[q]
    BY <1>5, Ends DEF SaveNew
  <2>3. PICK i \in Ids : sessions' = sessions \cup {[id |-> i, token |-> request[r].token]}
    BY <1>5 DEF SaveNew
  <2>4. u \notin raced /\ clock' = clock
    BY <1>5 DEF SaveNew
  <2>5. /\ Saving(u)' \subseteq Saving(u) \ {r}
        /\ \A q \in Saving(u)' : request'[q] = request[q]
    BY <2>2 DEF Saving
  <2>6. CASE request[r].token.user # u
    <3>1. SessionsOf(u)' \subseteq SessionsOf(u)
      BY <2>3, <2>6 DEF SessionsOf
    <3> QED
      BY <1>0, <2>4, <2>5, <3>1, Quiet
  <2>7. CASE request[r].token.user = u
    <3>1. r \in Saving(u)
      BY <2>1, <2>7 DEF Saving
    <3>2. SessionsOf(u) = {} /\ Saving(u)' = {}
      BY <2>1, <2>4, <2>5, <3>1 DEF OneAtATime
    <3>3. SessionsOf(u)' \subseteq {[id |-> i, token |-> request[r].token]}
      BY <2>3, <3>2 DEF SessionsOf
    <3> QED
      BY <3>2, <3>3
  <2> QED
    BY <2>6, <2>7
<1>6. ASSUME NEW r \in Requests,
             Logout(r) \/ CreateKey(r) \/ RevokeKey(r) \/ BreakOff(r)
      PROVE  /\ u \notin raced /\ SessionsOf(u)' \subseteq SessionsOf(u) /\ clock' = clock
             /\ Saving(u)' \subseteq Saving(u) /\ \A q \in Saving(u)' : request'[q] = request[q]
  <2>1. /\ request'[r].step = "idle"
        /\ \A q \in Requests \ {r} : request'[q] = request[q]
    BY <1>6, Ends DEF Logout, CreateKey, RevokeKey, BreakOff
  <2>2. sessions' \subseteq sessions /\ clock' = clock /\ raced' = raced
    BY <1>6 DEF Logout, CreateKey, RevokeKey, BreakOff
  <2> QED
    BY <2>1, <2>2 DEF SessionsOf, Saving
<1>7. CASE Tick
  <2>1. /\ u \notin raced /\ SessionsOf(u)' = SessionsOf(u) /\ request' = request
        /\ clock' \in Nat /\ clock' >= clock
    BY <1>0, <1>7 DEF Tick, SessionsOf
  <2> QED
    BY <2>1, Quiet DEF Saving
<1>8. CASE UNCHANGED accessVars
  BY <1>8 DEF accessVars, OneAtATime, SessionsOf, Saving
<1>9. CASE \E r \in Requests : \E w \in Users : LoginReuses(r, w)
  <2>1. u \notin raced /\ SessionsOf(u)' = SessionsOf(u) /\ request' = request /\ clock' = clock
    BY <1>1, <1>9
  <2> QED
    BY <2>1, <1>0, Quiet DEF Saving
<1>10. CASE \E r \in Requests :
               \/ \E s \in sessions : Authenticate(r, s.token)
               \/ Logout(r) \/ CreateKey(r) \/ RevokeKey(r) \/ BreakOff(r)
  <2>1. /\ u \notin raced /\ SessionsOf(u)' \subseteq SessionsOf(u) /\ clock' = clock
        /\ Saving(u)' \subseteq Saving(u) /\ \A q \in Saving(u)' : request'[q] = request[q]
    BY <1>3, <1>6, <1>10
  <2> QED
    BY <2>1, <1>0, Quiet
<1> QED
  BY <1>2, <1>4, <1>5, <1>7, <1>8, <1>9, <1>10 DEF AccessNext, Login

-----------------------------------------------------------------------------
(* The histories follow accounts that did not race, and no document is     *)
(* left of a token that was logged out.                                    *)
Followed ==
    /\ \A t \in handed \cup ended : t.user \in Users \ raced
    /\ \A t \in ended, s \in sessions : s.token # t

LEMMA FollowStep ==
    AccessTypeOK /\ OneAtATime /\ Followed /\ SessionsHold /\ [AccessNext]_accessVars
        => Followed' /\ SessionsHold'
<1> SUFFICES ASSUME AccessTypeOK, OneAtATime, Followed, SessionsHold, [AccessNext]_accessVars
             PROVE  Followed' /\ SessionsHold'
  OBVIOUS
<1>0. clock \in Nat /\ \A t \in handed \cup ended : t.exp \in Nat
  BY AccessAssumption DEF AccessTypeOK, Tokens
<1>1. ASSUME NEW r \in Requests, NEW w \in Users, LoginReuses(r, w)
      PROVE  Followed' /\ SessionsHold'
  <2>1. PICK s \in SessionsOf(w) : s.token.exp > clock /\ handed' = handed \cup Tracked(s.token)
    BY <1>1 DEF LoginReuses
  <2>2. UNCHANGED <<clock, sessions, raced, ended>>
    BY <1>1 DEF LoginReuses
  <2>3. s \in sessions /\ s.token.user \in Users
    BY DEF SessionsOf
  <2> QED
    BY <2>1, <2>2, <2>3 DEF Followed, SessionsHold, Accepted, Tracked
<1>2. ASSUME NEW r \in Requests, NEW w \in Users, LoginNew(r, w)
      PROVE  Followed' /\ SessionsHold'
  BY <1>2 DEF LoginNew, MakeToken, Followed, SessionsHold, Accepted
<1>3. ASSUME NEW r \in Requests, DeleteOld(r)
      PROVE  Followed' /\ SessionsHold'
  <2>1. UNCHANGED <<clock, raced, handed, ended>> /\ sessions' \subseteq sessions
    BY <1>3 DEF DeleteOld
  <2>2. Followed'
    BY <2>1 DEF Followed
  <2>3. ASSUME NEW t \in handed, t.exp > clock
        PROVE  \E s \in sessions' : s.token = t
    <3>1. PICK s \in sessions : s.token = t
      BY <2>3 DEF SessionsHold, Accepted
    <3>2. t.user \in Users \ raced
      BY DEF Followed
    <3>3. CASE t.user # request[r].token.user
      BY <1>3, <3>1, <3>3 DEF DeleteOld, SessionsOf
    <3>4. CASE t.user = request[r].token.user
      <4>1. r \in Saving(t.user) /\ s \in SessionsOf(t.user)
        BY <1>3, <3>1, <3>4 DEF DeleteOld, Saving, SessionsOf
      <4>2. s.token.exp <= clock
        BY <3>2, <4>1 DEF OneAtATime
      <4> QED
        BY <1>0, <2>3, <3>1, <4>2
    <3> QED
      BY <3>3, <3>4
  <2> QED
    BY <2>1, <2>2, <2>3 DEF SessionsHold, Accepted
<1>4. ASSUME NEW r \in Requests, SaveNew(r)
      PROVE  Followed' /\ SessionsHold'
  <2>1. request[r].token \in Tokens
    BY <1>4, Holds DEF SaveNew, Idle
  <2>2. PICK i \in Ids : sessions' = sessions \cup {[id |-> i, token |-> request[r].token]}
    BY <1>4 DEF SaveNew
  <2>3. /\ handed' = handed \cup Tracked(request[r].token)
        /\ ended' = ended \ {request[r].token}
        /\ UNCHANGED <<clock, raced>>
    BY <1>4 DEF SaveNew
  <2>4. request[r].token.user \in Users
    BY <2>1 DEF Tokens
  <2>5. \A t \in handed' \cup ended' : t.user \in Users \ raced'
    BY <2>3, <2>4 DEF Followed, Tracked
  <2>6. \A s \in sessions' : s \in sessions \/ s.token = request[r].token
    BY <2>2
  <2>7. \A t \in ended', s \in sessions' : s.token # t
    BY <2>3, <2>6 DEF Followed
  <2>8. ASSUME NEW t \in handed', t.exp > clock'
        PROVE  \E s \in sessions' : s.token = t
    <3>1. CASE t = request[r].token
      <4> DEFINE new == [id |-> i, token |-> request[r].token]
      <4>1. new \in sessions' /\ new.token = t
        BY <2>2, <3>1
      <4> QED
        BY <4>1
    <3>2. CASE t \in handed
      BY <2>2, <2>3, <2>8, <3>2 DEF SessionsHold, Accepted
    <3> QED
      BY <2>3, <3>1, <3>2 DEF Tracked
  <2> QED
    BY <2>5, <2>7, <2>8 DEF Followed, SessionsHold, Accepted
<1>5. ASSUME NEW r \in Requests, Logout(r)
      PROVE  Followed' /\ SessionsHold'
  <2> DEFINE token == request[r].token
             stored == {s \in sessions : s.token = token}
  <2>1. token \in Tokens /\ token.user \in Users
    BY <1>5, Holds DEF Logout, Idle, Tokens
  <2>2. \/ \E s \in stored : sessions' = sessions \ {s}
        \/ stored = {} /\ sessions' = sessions
    BY <1>5 DEF Logout
  <2>3. /\ handed' = handed \ {token} /\ ended' = ended \cup Tracked(token)
        /\ UNCHANGED <<clock, raced>>
    BY <1>5 DEF Logout
  <2>4. SessionsHold'
    BY <2>2, <2>3 DEF SessionsHold, Accepted
  <2>5. ASSUME token.user \notin raced
        PROVE  \A s \in sessions' : s.token # token
    <3>1. \A s, t \in stored : s = t
      BY <2>1, <2>5 DEF OneAtATime, SessionsOf
    <3> QED
      BY <2>2, <3>1
  <2>6. \A t \in handed' \cup ended' : t.user \in Users \ raced'
    BY <2>1, <2>3 DEF Followed, Tracked
  <2>7. ASSUME NEW t \in ended', NEW s \in sessions'
        PROVE  s.token # t
    <3>1. s \in sessions
      BY <2>2
    <3>2. t \in ended \/ (t = token /\ token.user \notin raced)
      BY <2>3 DEF Tracked
    <3> QED
      BY <2>5, <3>1, <3>2 DEF Followed
  <2> QED
    BY <2>4, <2>6, <2>7 DEF Followed
<1>6. ASSUME NEW r \in Requests,
             \/ \E s \in sessions : Authenticate(r, s.token)
             \/ CreateKey(r) \/ RevokeKey(r) \/ BreakOff(r)
      PROVE  Followed' /\ SessionsHold'
  <2>1. UNCHANGED <<clock, sessions, raced, handed, ended>>
    BY <1>6 DEF Authenticate, CreateKey, RevokeKey, BreakOff
  <2> QED
    BY <2>1 DEF Followed, SessionsHold, Accepted
<1>7. CASE Tick
  BY <1>0, <1>7 DEF Tick, Followed, SessionsHold, Accepted
<1>8. CASE UNCHANGED accessVars
  BY <1>8 DEF accessVars, Followed, SessionsHold, Accepted
<1> QED
  BY <1>1, <1>2, <1>3, <1>4, <1>5, <1>6, <1>7, <1>8 DEF AccessNext, Login

LEMMA AllFollowed == AccessSpec => [](OneAtATime /\ Followed /\ SessionsHold)
<1>1. AccessInit => OneAtATime /\ Followed /\ SessionsHold
  BY DEF AccessInit, OneAtATime, Followed, SessionsHold, SessionsOf, Saving, NoRequest
<1> QED
  BY <1>1, AccessTyped, OneStep, FollowStep, PTL DEF AccessSpec

(* A token stays accepted until it expires or is logged out, for any       *)
(* number of requests and any life of a token.                             *)
THEOREM TokensHold == AccessSpec => []SessionsHold
BY AllFollowed, PTL

(* A logged out token is not accepted, even when its account made the same *)
(* one twice.                                                              *)
THEOREM LogoutsEnd == AccessSpec => []LogoutEnds
<1>1. Followed => LogoutEnds
  BY DEF Followed, LogoutEnds, Accepted
<1> QED
  BY <1>1, AllFollowed, PTL
=============================================================================
