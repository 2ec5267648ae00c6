-------------------------------- MODULE Access --------------------------------
(***************************************************************************)
(* Accounts' tokens and API keys: login and logout of src/api/auth.py,     *)
(* get_active_or_new_token, token_save and current_user of                 *)
(* src/api/token.py, create_key and revoke_key of src/api/api_keys.py.     *)
(* A request makes its calls to Mongo one by one, and requests interleave  *)
(* between them.  A JWT is its payload: two of one account that expire at  *)
(* one time are the same token.                                            *)
(***************************************************************************)
EXTENDS Integers, FiniteSets

CONSTANTS
    Users,              \* the accounts, all of them active
    Requests,           \* requests the API runs at a time
    Ids,                \* what tells the documents of an account apart
    API_KEYS_PER_USER,  \* most active keys of an account
    TokenLife,          \* TOKEN_EXPIRE_MINUTES, in ticks of the clock
    MaxClock,           \* bound: the last tick
    MaxFailures         \* bound: requests that break off half way

ASSUME AccessAssumption ==
    /\ IsFiniteSet(Requests) /\ Requests # {}
    /\ API_KEYS_PER_USER \in Nat \ {0} /\ TokenLife \in Nat \ {0}
    /\ {MaxClock, MaxFailures} \subseteq Nat

VARIABLES
    clock,     \* the time
    sessions,  \* tokens: its documents
    keys,      \* api_keys: the documents that are not revoked
    request,   \* request |-> the call it is at, and its token
    failures,  \* requests that broke off so far
    raced,     \* history: accounts two logins of which made a token at a time
    handed,    \* history: tokens a login returned and no logout ended,
    ended      \* tokens a logout ended and no login saved again, of others

accessVars == <<clock, sessions, keys, request, failures, raced, handed, ended>>

Tokens == [user : Users, exp : Nat]
NoToken == [user |-> "nobody", exp |-> 0]
Sessions == [id : Ids, token : Tokens]
Keys == [id : Ids, user : Users]

NoRequest == [step |-> "idle", token |-> NoToken]
RequestRecords == {NoRequest} \cup
    [step : {"delete", "insert", "logout", "key", "revoke"}, token : Tokens]

SessionsOf(u) == {s \in sessions : s.token.user = u}
KeysOf(u) == {k \in keys : k.user = u}
Idle(r) == request[r].step = "idle"
At(r, step, token) == request' = [request EXCEPT ![r] = [step |-> step, token |-> token]]
Done(r) == request' = [request EXCEPT ![r] = NoRequest]

(* A token as far as the histories follow it. *)
Tracked(t) == {s \in {t} : s.user \notin raced}

(* The requests of an account that have decided to make a token, or a key. *)
Saving(u) == {r \in Requests : request[r].step \in {"delete", "insert"} /\ request[r].token.user = u}
Inserting(u) == {r \in Requests : request[r].step = "insert" /\ request[r].token.user = u}
Creating(u) == {r \in Requests : request[r].step = "key" /\ request[r].token.user = u}

AccessInit ==
    /\ clock = 0 /\ failures = 0
    /\ sessions = {} /\ keys = {}
    /\ request = [r \in Requests |-> NoRequest]
    /\ handed = {} /\ ended = {} /\ raced = {}

-----------------------------------------------------------------------------
(* current_user and check_token: the JWT and its document are in force.    *)
Accepted(t) == t.exp > clock /\ \E s \in sessions : s.token = t

(* get_active_or_new_token: find_one returns some document of the account, *)
(* and its token is given out again while it is in force.                  *)
LoginReuses(r, u) ==
    /\ Idle(r)
    /\ \E s \in SessionsOf(u) :
          /\ s.token.exp > clock
          /\ handed' = handed \cup Tracked(s.token)
    /\ UNCHANGED <<clock, sessions, keys, request, failures, raced, ended>>

(* create_access_token; what is known of a raced account is given up. *)
MakeToken(r, u) ==
    /\ At(r, "delete", [user |-> u, exp |-> clock + TokenLife])
    /\ raced' = IF Saving(u) = {} THEN raced ELSE raced \cup {u}
    /\ handed' = {t \in handed : t.user \notin raced'}
    /\ ended' = {t \in ended : t.user \notin raced'}
    /\ UNCHANGED <<clock, sessions, keys, failures>>

(* Mutant: a token in force is replaced all the same. *)
LoginAlwaysNew(r, u) == Idle(r) /\ MakeToken(r, u)

(* There is no token, or it has expired. *)
LoginNew(r, u) ==
    /\ Idle(r)
    /\ SessionsOf(u) = {} \/ \E s \in SessionsOf(u) : s.token.exp <= clock
    /\ MakeToken(r, u)

(* login, of an account that is active and a password that is right. *)
Login(r, u) == LoginReuses(r, u) \/ LoginNew(r, u)

(* Mutant: the account's old token stays. *)
DeleteNothing(r) ==
    /\ request[r].step = "delete"
    /\ At(r, "insert", request[r].token)
    /\ UNCHANGED <<clock, sessions, keys, failures, raced, handed, ended>>

(* token_save: delete_one takes one document of the account, if any.       *)
DeleteOld(r) ==
    LET mine == SessionsOf(request[r].token.user)
    IN  /\ request[r].step = "delete"
        /\ \/ \E s \in mine : sessions' = sessions \ {s}
           \/ mine = {} /\ UNCHANGED sessions
        /\ At(r, "insert", request[r].token)
        /\ UNCHANGED <<clock, keys, failures, raced, handed, ended>>

(* insert_one; login then returns the token. *)
SaveNew(r) ==
    LET token == request[r].token
    IN  /\ request[r].step = "insert"
        /\ \E i \in Ids :
              /\ \A s \in SessionsOf(token.user) : s.id # i
              /\ sessions' = sessions \cup {[id |-> i, token |-> token]}
        /\ handed' = handed \cup Tracked(token) /\ ended' = ended \ {token}
        /\ Done(r)
        /\ UNCHANGED <<clock, keys, failures, raced>>

(* token_doc["user_id"], which is all the key requests keep. *)
Holder(t) == [user |-> t.user, exp |-> 0]

(* Mutant: the key that reaches the limit is not the last. *)
AuthenticateLoosely(r, t) ==
    /\ Idle(r)
    /\ Accepted(t)
    /\ Cardinality(KeysOf(t.user)) <= API_KEYS_PER_USER /\ At(r, "key", Holder(t))
    /\ UNCHANGED <<clock, sessions, keys, failures, raced, handed, ended>>

(* A request of a token's holder passes current_user: a logout, a key it   *)
(* asks for, a key it revokes.                                             *)
Authenticate(r, t) ==
    /\ Idle(r)
    /\ Accepted(t)
    /\ \/ At(r, "logout", t)
       \/ At(r, "revoke", Holder(t))
       \/ Cardinality(KeysOf(t.user)) < API_KEYS_PER_USER /\ At(r, "key", Holder(t))
    /\ UNCHANGED <<clock, sessions, keys, failures, raced, handed, ended>>

Logout(r) ==
    LET token == request[r].token
        stored == {s \in sessions : s.token = token}
    IN  /\ request[r].step = "logout"
        /\ \/ \E s \in stored : sessions' = sessions \ {s}
           \/ stored = {} /\ UNCHANGED sessions
        /\ handed' = handed \ {token} /\ ended' = ended \cup Tracked(token)
        /\ Done(r)
        /\ UNCHANGED <<clock, keys, failures, raced>>

(* create_key counted the active keys in the call before. *)
CreateKey(r) ==
    /\ request[r].step = "key"
    /\ \E i \in Ids :
          /\ \A k \in KeysOf(request[r].token.user) : k.id # i
          /\ keys' = keys \cup {[id |-> i, user |-> request[r].token.user]}
    /\ Done(r)
    /\ UNCHANGED <<clock, sessions, failures, raced, handed, ended>>

(* revoke_key: a key of another account is not found. *)
RevokeKey(r) ==
    /\ request[r].step = "revoke"
    /\ \E k \in KeysOf(request[r].token.user) : keys' = keys \ {k}
    /\ Done(r)
    /\ UNCHANGED <<clock, sessions, failures, raced, handed, ended>>

(* Mongo fails, or the API restarts, or there is no such key. *)
BreakOff(r) ==
    /\ ~Idle(r)
    /\ \/ request[r].step = "revoke" /\ UNCHANGED failures
       \/ failures < MaxFailures /\ failures' = failures + 1
    /\ Done(r)
    /\ UNCHANGED <<clock, sessions, keys, raced, handed, ended>>

(* The histories forget what has expired. *)
Tick ==
    /\ clock < MaxClock
    /\ clock' = clock + 1
    /\ handed' = {t \in handed : t.exp > clock'}
    /\ ended' = {t \in ended : t.exp > clock'}
    /\ UNCHANGED <<sessions, keys, request, failures, raced>>

AccessNext ==
    \/ \E r \in Requests :
          \/ \E u \in Users : Login(r, u)
          \/ \E s \in sessions : Authenticate(r, s.token)
          \/ DeleteOld(r) \/ SaveNew(r) \/ Logout(r)
          \/ CreateKey(r) \/ RevokeKey(r) \/ BreakOff(r)
    \/ Tick

AccessSpec == AccessInit /\ [][AccessNext]_accessVars

-----------------------------------------------------------------------------
(* Types; the documents of an account have their ids apart. *)
AccessTypeOK ==
    /\ clock \in 0..MaxClock /\ failures \in 0..MaxFailures
    /\ sessions \subseteq Sessions /\ keys \subseteq Keys
    /\ \A s, t \in sessions : s.id = t.id /\ s.token.user = t.token.user => s = t
    /\ request \in [Requests -> RequestRecords]
    /\ handed \subseteq Tokens /\ ended \subseteq Tokens
    /\ raced \subseteq Users

(* However logins interleave and break off, an account's token documents   *)
(* never outnumber the requests that run side by side: every insert_one of *)
(* token_save has its delete_one (nothing else removes a token).           *)
SessionBound ==
    \A u \in Users :
        Cardinality(SessionsOf(u)) + Cardinality(Inserting(u)) <= Cardinality(Requests)

(* create_key counts and inserts in two calls: the keys of an account go   *)
(* beyond API_KEYS_PER_USER by less than the number of requests.           *)
KeyBound ==
    \A u \in Users :
        Cardinality(KeysOf(u)) + Cardinality(Creating(u))
            <= API_KEYS_PER_USER + Cardinality(Requests) - 1

(* A token login returned is accepted until it expires or is logged out:   *)
(* no later login deletes it (token_save deletes whatever it finds), as    *)
(* long as no two logins of the account made their tokens at one time.     *)
SessionsHold ==
    \A t \in handed : t.exp > clock => Accepted(t)

(* After a logout its token is not accepted, not even when the account     *)
(* logged in twice within a second and the two JWTs are one: delete_one of *)
(* logout needs the document to be the only one of its token.  It is,      *)
(* again unless two logins made their tokens at one time.                  *)
LogoutEnds ==
    \A t \in ended : ~Accepted(t)
=============================================================================
