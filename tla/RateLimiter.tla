---------------------------- MODULE RateLimiter -----------------------------
(***************************************************************************)
(* RateLimitMiddleware of core/middleware.py over the lazily opened Redis  *)
(* client of core/redis.py: a counter per address, kind of endpoint and    *)
(* minute.  Each request is a process whose calls to Redis interleave with *)
(* those of the others, and can fail or lose their answer at any point;    *)
(* then the request is let through.                                        *)
(***************************************************************************)
EXTENDS Integers, FiniteSets

CONSTANTS
    Request,     \* the requests that arrive
    Address,     \* client addresses
    Kind,        \* "auth" for login and register, "general" for the rest
    Limit,       \* the requests of a kind admitted per minute
    Minute,      \* 60, in ticks of the clock
    LastMinute   \* the clock's bound

ASSUME RateLimiterAssumption ==
    /\ Limit \in [Kind -> Nat \ {0}]
    /\ Minute \in Nat \ {0}
    /\ LastMinute \in Nat

VARIABLES
    now,         \* the clock: time // 60 and time % 60
    client,      \* _redis_client is set
    counter,     \* Redis: the value of a key, 0 when there is no such key
    expiry,      \* Redis: when a key expires, Never without a TTL
    asked,       \* the address and the kind of each request
    key,         \* the key each request counts under
    count,       \* the count Redis answered, 0 for none
    refusal,     \* when each request was refused, and its Retry-After
    pc,          \* how far each request has come
    hits,        \* history: the requests Redis has counted
    timely,      \* history: those it counted within the minute of their key
    wiped,       \* history: the minutes in which Redis lost its data
    unset        \* history: the keys whose EXPIRE was never done

redisVars == <<counter, expiry>>
requestVars == <<asked, key, count, refusal, pc>>
historyVars == <<hits, timely, wiped, unset>>
vars == <<now, client, redisVars, requestVars, historyVars>>

Time == [minute : Nat, second : 0 .. Minute - 1]

Minutes == 0 .. LastMinute

(* The key of a counter (rate_limit:{ip}:{endpoint_type}:{minute}).        *)
Key == [address : Address, kind : Kind, minute : Minutes]

Never == [minute |-> LastMinute + 2, second |-> 0]

NotRefused == [at |-> [minute |-> 0, second |-> 0], wait |-> 0]

NoKey == [address |-> "none"]
Unasked == [address |-> "none"]

Answered == {"passed", "refused", "dead"}

TypeOK ==
    /\ now \in [minute : Minutes, second : 0 .. Minute - 1]
    /\ client \in BOOLEAN
    /\ counter \in [Key -> Nat]
    /\ expiry \in [Key -> Time]
    /\ asked \in [Request -> [address : Address, kind : Kind] \cup {Unasked}]
    /\ key \in [Request -> Key \cup {NoKey}]
    /\ count \in [Request -> Nat]
    /\ refusal \in [Request -> [at : Time, wait : Nat]]
    /\ pc \in [Request -> {"idle", "finding", "pinging", "keying", "counting",
                           "expiring", "deciding"} \cup Answered]
    /\ hits \subseteq Request
    /\ timely \subseteq hits
    /\ wiped \subseteq Minutes
    /\ unset \subseteq Key

Init ==
    /\ now = [minute |-> 0, second |-> 0]
    /\ client = FALSE
    /\ counter = [k \in Key |-> 0]
    /\ expiry = [k \in Key |-> Never]
    /\ asked = [r \in Request |-> Unasked]
    /\ key = [r \in Request |-> NoKey]
    /\ count = [r \in Request |-> 0]
    /\ refusal = [r \in Request |-> NotRefused]
    /\ pc = [r \in Request |-> "idle"]
    /\ hits = {}
    /\ timely = {}
    /\ wiped = {}
    /\ unset = {}

Goto(r, label) == pc' = [pc EXCEPT ![r] = label]

-----------------------------------------------------------------------------
(* get_redis                                                               *)

Arrive(r) ==
    /\ pc[r] = "idle"
    /\ \E q \in [address : Address, kind : Kind] : asked' = [asked EXCEPT ![r] = q]
    /\ Goto(r, "finding")
    /\ UNCHANGED <<now, client, redisVars, key, count, refusal, historyVars>>

FindClient(r) ==
    /\ pc[r] = "finding"
    /\ Goto(r, IF client THEN "keying" ELSE "pinging")
    /\ UNCHANGED <<now, client, redisVars, asked, key, count, refusal, historyVars>>

Ping(r) ==
    /\ pc[r] = "pinging"
    /\ client' = TRUE
    /\ Goto(r, "keying")
    /\ UNCHANGED <<now, redisVars, asked, key, count, refusal, historyVars>>

(* Fail-open: get_redis returns None.                                      *)
PingFails(r) ==
    /\ pc[r] = "pinging"
    /\ Goto(r, "passed")
    /\ UNCHANGED <<now, client, redisVars, asked, key, count, refusal, historyVars>>

-----------------------------------------------------------------------------
(* dispatch                                                                *)

(* Slip: login shares the counter of the other endpoints.                  *)
KeyOfAddress(r) == [address |-> asked[r].address, kind |-> CHOOSE k \in Kind : TRUE,
                    minute |-> now.minute]

KeyOf(r) == [address |-> asked[r].address, kind |-> asked[r].kind,
             minute |-> now.minute]

BuildKey(r) ==
    /\ pc[r] = "keying"
    /\ key' = [key EXCEPT ![r] = KeyOf(r)]
    /\ Goto(r, "counting")
    /\ UNCHANGED <<now, client, redisVars, asked, count, refusal, historyVars>>

(* INCR: a key that is not there starts at 1, without a TTL.               *)
Counted(r) ==
    /\ counter' = [counter EXCEPT ![key[r]] = @ + 1]
    /\ hits' = hits \cup {r}
    /\ timely' = IF now.minute = key[r].minute THEN timely \cup {r} ELSE timely

(* Slip: a TTL only from the second request on.                            *)
IncrExpireLater(r) ==
    /\ pc[r] = "counting"
    /\ Counted(r)
    /\ count' = [count EXCEPT ![r] = counter'[key[r]]]
    /\ Goto(r, IF count'[r] = 2 THEN "expiring" ELSE "deciding")
    /\ UNCHANGED <<now, client, expiry, asked, key, refusal, wiped, unset>>

Incr(r) ==
    /\ pc[r] = "counting"
    /\ Counted(r)
    /\ count' = [count EXCEPT ![r] = counter'[key[r]]]
    /\ Goto(r, IF count'[r] = 1 THEN "expiring" ELSE "deciding")
    /\ UNCHANGED <<now, client, expiry, asked, key, refusal, wiped, unset>>

(* An error or a timeout of INCR, with or without its effect: fail-open.   *)
IncrFails(r) ==
    /\ pc[r] = "counting"
    /\ \/ /\ Counted(r)
          /\ unset' = IF counter'[key[r]] = 1 THEN unset \cup {key[r]} ELSE unset
       \/ UNCHANGED <<counter, hits, timely, unset>>
    /\ Goto(r, "passed")
    /\ UNCHANGED <<now, client, expiry, asked, key, count, refusal, wiped>>

(* Slip: the TTL ends with the last second of the minute.                  *)
TtlShort == [minute |-> now.minute, second |-> Minute - 1]

(* Sixty seconds from now.                                                 *)
Ttl == [minute |-> now.minute + 1, second |-> now.second]

(* EXPIRE does nothing to a key that is not there.                         *)
Expiring(r) ==
    /\ expiry' = [expiry EXCEPT ![key[r]] =
                     IF counter[key[r]] = 0 THEN Never ELSE Ttl]

SetExpiry(r) ==
    /\ pc[r] = "expiring"
    /\ Expiring(r)
    /\ Goto(r, "deciding")
    /\ UNCHANGED <<now, client, counter, asked, key, count, refusal, historyVars>>

(* The error is caught by the handler of INCR: fail-open.                  *)
ExpireFails(r) ==
    /\ pc[r] = "expiring"
    /\ \/ Expiring(r) /\ UNCHANGED unset
       \/ unset' = unset \cup {key[r]} /\ UNCHANGED expiry
    /\ Goto(r, "passed")
    /\ UNCHANGED <<now, client, counter, asked, key, count, refusal,
                   hits, timely, wiped>>

(* Slip: one second short.                                                 *)
RetryAfterShort == Minute - 1 - now.second

RetryAfter == Minute - now.second

Refuse(r) ==
    /\ pc[r] = "deciding"
    /\ count[r] > Limit[asked[r].kind]
    /\ refusal' = [refusal EXCEPT ![r] = [at |-> now, wait |-> RetryAfter]]
    /\ Goto(r, "refused")
    /\ UNCHANGED <<now, client, redisVars, asked, key, count, historyVars>>

Admit(r) ==
    /\ pc[r] = "deciding"
    /\ count[r] <= Limit[asked[r].kind]
    /\ Goto(r, "passed")
    /\ UNCHANGED <<now, client, redisVars, asked, key, count, refusal, historyVars>>

Advance(r) ==
    \/ FindClient(r)
    \/ Ping(r)
    \/ PingFails(r)
    \/ BuildKey(r)
    \/ Incr(r)
    \/ IncrFails(r)
    \/ SetExpiry(r)
    \/ ExpireFails(r)
    \/ Refuse(r)
    \/ Admit(r)

-----------------------------------------------------------------------------
(* The environment                                                         *)

(* The client hangs up or the worker dies: the coroutine is gone.          *)
Die(r) ==
    /\ pc[r] \notin Answered \cup {"idle"}
    /\ unset' = IF pc[r] = "expiring" THEN unset \cup {key[r]} ELSE unset
    /\ Goto(r, "dead")
    /\ UNCHANGED <<now, client, redisVars, asked, key, count, refusal,
                   hits, timely, wiped>>

NextSecond(t) == IF t.second = Minute - 1
                 THEN [minute |-> t.minute + 1, second |-> 0]
                 ELSE [minute |-> t.minute, second |-> t.second + 1]

Reached(t, clock) ==
    \/ t.minute < clock.minute
    \/ t.minute = clock.minute /\ t.second <= clock.second

(* Time passes, and Redis drops the keys that expire.                      *)
Tick ==
    /\ NextSecond(now).minute <= LastMinute
    /\ now' = NextSecond(now)
    /\ counter' = [k \in Key |-> IF Reached(expiry[k], now') THEN 0 ELSE counter[k]]
    /\ expiry' = [k \in Key |-> IF Reached(expiry[k], now') THEN Never ELSE expiry[k]]
    /\ UNCHANGED <<client, requestVars, historyVars>>

(* Redis restarts without its data.                                        *)
RedisForgets ==
    /\ counter' = [k \in Key |-> 0]
    /\ expiry' = [k \in Key |-> Never]
    /\ wiped' = wiped \cup {now.minute}
    /\ UNCHANGED <<now, client, requestVars, hits, timely, unset>>

AllAnswered ==
    /\ \A r \in Request : pc[r] \in Answered
    /\ UNCHANGED vars

Next ==
    \/ \E r \in Request : Arrive(r)
    \/ \E r \in Request : Advance(r)
    \/ \E r \in Request : Die(r)
    \/ Tick
    \/ RedisForgets
    \/ AllAnswered

Spec == Init /\ [][Next]_vars

-----------------------------------------------------------------------------
(* Properties                                                              *)

(* The requests Redis counted under k in its minute and the limiter let    *)
(* through.                                                                *)
AdmittedUnder(k) ==
    {r \in timely : pc[r] = "passed" /\ key[r] = k /\ count[r] > 0}

(* No more than the limit is admitted per minute by its count: a counter   *)
(* never starts over within its minute, unless Redis loses its data.       *)
LimitHolds ==
    \A k \in Key : k.minute \notin wiped =>
        Cardinality(AdmittedUnder(k)) <= Limit[k.kind]

(* Who is refused shares address, kind and minute with as many others as   *)
(* the limit admits: no failure of Redis, no late EXPIRE and no request of *)
(* another kind or minute turns anybody away ("fail-open").                *)
RefusedForCause ==
    \A r \in Request : pc[r] = "refused" =>
        Cardinality({q \in hits \ {r} : /\ asked[q] = asked[r]
                                        /\ key[q].minute = key[r].minute})
            >= Limit[asked[r].kind]

(* Who waits as long as Retry-After says comes back in a later minute than *)
(* the one that was full, and never waits longer than a minute.            *)
RetryIsLaterMinute ==
    \A r \in Request : pc[r] = "refused" =>
        /\ refusal[r].wait \in 1 .. Minute
        /\ \/ refusal[r].at.minute > key[r].minute
           \/ /\ refusal[r].at.minute = key[r].minute
              /\ refusal[r].at.second + refusal[r].wait >= Minute

(* A key stays without a TTL only if the request that should have set it   *)
(* is still about to, or was cut off or failed before it did.              *)
NoKeyForgotten ==
    \A k \in Key : counter[k] > 0 /\ expiry[k] = Never =>
        \/ k \in unset
        \/ \E r \in Request : key[r] = k /\ pc[r] = "expiring"

-----------------------------------------------------------------------------
(* What makes them inductive                                               *)

Uncounted == {"idle", "finding", "pinging", "keying", "counting"}

KeysInStep ==
    \A r \in Request :
        /\ pc[r] # "idle" => asked[r] \in [address : Address, kind : Kind]
        /\ r \in hits \/ pc[r] \in {"counting", "expiring", "deciding", "refused"} =>
               /\ pc[r] # "idle"
               /\ key[r] \in Key
               /\ key[r].address = asked[r].address
               /\ key[r].kind = asked[r].kind
               /\ key[r].minute <= now.minute

CountsInStep ==
    \A r \in Request :
        /\ pc[r] \in Uncounted => r \notin hits /\ count[r] = 0
        /\ count[r] > 0 => r \in hits
        /\ pc[r] = "expiring" => count[r] = 1
        /\ pc[r] = "deciding" => count[r] > 0
        /\ pc[r] = "passed" => count[r] <= Limit[asked[r].kind]
        /\ pc[r] = "refused" => count[r] > Limit[asked[r].kind]

(* No TTL ends within the minute of its key.                               *)
ExpiryIsLater == \A k \in Key : expiry[k].minute > k.minute

(* The counts that were given out within a minute that no loss disturbed.  *)
Standing == {r \in timely : count[r] > 0 /\ key[r].minute \notin wiped}

CountsBelow ==
    \A r \in Standing : key[r].minute = now.minute => count[r] <= counter[key[r]]

CountsDiffer ==
    \A q, r \in Standing : q # r /\ key[q] = key[r] => count[q] # count[r]

Under(k) == {q \in hits : key[q] = k}

CountersBacked ==
    /\ IsFiniteSet(hits)
    /\ \A k \in Key : counter[k] <= Cardinality(Under(k))
    /\ \A r \in hits : count[r] <= Cardinality(Under(key[r]))

(* The inductive invariant.                                                *)
IInv ==
    /\ TypeOK
    /\ KeysInStep
    /\ CountsInStep
    /\ ExpiryIsLater
    /\ CountsBelow
    /\ CountsDiffer
    /\ CountersBacked
    /\ RetryIsLaterMinute
    /\ NoKeyForgotten
=============================================================================
