------------------------- MODULE RateLimiterProofs --------------------------
(***************************************************************************)
(* RateLimiter for every number of requests, addresses and minutes.        *)
(***************************************************************************)
EXTENDS RateLimiter, FiniteSetTheorems, TLAPS

USE RateLimiterAssumption

LEMMA InitIInv == Init => IInv
<1>. SUFFICES ASSUME Init PROVE IInv
  OBVIOUS
<1>1. [minute |-> 0, second |-> 0] \in [minute : Minutes, second : 0 .. Minute - 1]
  BY DEF Init, Minutes
<1>2. TypeOK
  <2>1. Never \in Time
    BY DEF Never, Time
  <2>2. NotRefused \in [at : Time, wait : Nat]
    BY DEF NotRefused, Time
  <2>. QED
    BY <1>1, <2>1, <2>2 DEF Init, TypeOK
<1>3. KeysInStep /\ CountsInStep
  BY DEF Init, KeysInStep, CountsInStep, Uncounted
<1>4. ExpiryIsLater
  BY DEF Init, ExpiryIsLater, Never, Key, Minutes
<1>5. CountsBelow /\ CountsDiffer
  BY DEF Init, CountsBelow, CountsDiffer, Standing
<1>6. CountersBacked
  <2>1. \A k : Under(k) = {}
    BY DEF Init, Under
  <2>2. IsFiniteSet({}) /\ Cardinality({}) = 0
    BY FS_EmptySet
  <2>. QED
    BY <2>1, <2>2 DEF Init, CountersBacked
<1>7. RetryIsLaterMinute /\ NoKeyForgotten
  BY DEF Init, RetryIsLaterMinute, NoKeyForgotten
<1>. QED
  BY <1>2, <1>3, <1>4, <1>5, <1>6, <1>7 DEF IInv

-----------------------------------------------------------------------------
LEMMA TypeOKStep ==
    ASSUME TypeOK, KeysInStep, [Next]_vars
    PROVE  TypeOK'
<1>. USE DEF TypeOK
<1>1. ASSUME NEW r \in Request, Arrive(r) PROVE TypeOK'
  BY <1>1 DEF Arrive, Goto, redisVars, historyVars
<1>2. ASSUME NEW r \in Request, FindClient(r) \/ Ping(r) \/ PingFails(r) PROVE TypeOK'
  BY <1>2 DEF FindClient, Ping, PingFails, Goto, redisVars, historyVars, Answered
<1>3. ASSUME NEW r \in Request, BuildKey(r) PROVE TypeOK'
  BY <1>3 DEF BuildKey, KeyOf, Key, KeysInStep, Goto, redisVars, historyVars
<1>4. ASSUME NEW r \in Request, Incr(r) PROVE TypeOK'
  BY <1>4 DEF Incr, Counted, KeysInStep, Goto
<1>5. ASSUME NEW r \in Request, IncrFails(r) PROVE TypeOK'
  BY <1>5 DEF IncrFails, Counted, KeysInStep, Goto, Answered
<1>6. Ttl \in Time /\ Never \in Time
  BY DEF Ttl, Never, Time, Minutes
<1>7. ASSUME NEW r \in Request, SetExpiry(r) PROVE TypeOK'
  BY <1>6, <1>7 DEF SetExpiry, Expiring, KeysInStep, Goto, historyVars
<1>8. ASSUME NEW r \in Request, ExpireFails(r) PROVE TypeOK'
  BY <1>6, <1>8 DEF ExpireFails, Expiring, KeysInStep, Goto, Answered
<1>9. ASSUME NEW r \in Request, Refuse(r) PROVE TypeOK'
  <2>1. [at |-> now, wait |-> RetryAfter] \in [at : Time, wait : Nat]
    BY DEF RetryAfter, Time, Minutes
  <2>. QED
    BY <1>9, <2>1 DEF Refuse, Goto, redisVars, historyVars, Answered
<1>10. ASSUME NEW r \in Request, Admit(r) PROVE TypeOK'
  BY <1>10 DEF Admit, Goto, redisVars, historyVars, Answered
<1>11. ASSUME NEW r \in Request, Die(r) PROVE TypeOK'
  <2>1. pc[r] = "expiring" => key[r] \in Key
    BY DEF KeysInStep
  <2>. QED
    BY <1>11, <2>1 DEF Die, Goto, redisVars, Answered
<1>12. CASE Tick
  <2>1. now' \in [minute : Minutes, second : 0 .. Minute - 1]
    <3>1. now.minute \in Nat /\ now.second \in 0 .. Minute - 1
      BY DEF Minutes
    <3>2. CASE now.second = Minute - 1
      <4>1. now' = [minute |-> now.minute + 1, second |-> 0]
        BY <1>12, <3>2 DEF Tick, NextSecond
      <4>2. now.minute + 1 \in Minutes /\ 0 \in 0 .. Minute - 1
        BY <1>12, <3>1, <4>1 DEF Tick, Minutes
      <4>. QED
        BY <4>1, <4>2
    <3>3. CASE now.second # Minute - 1
      <4>1. now' = [minute |-> now.minute, second |-> now.second + 1]
        BY <1>12, <3>3 DEF Tick, NextSecond
      <4>2. now.second + 1 \in 0 .. Minute - 1
        BY <3>1, <3>3
      <4>. QED
        BY <4>1, <4>2
    <3>. QED
      BY <3>2, <3>3
  <2>. QED
    BY <1>6, <1>12, <2>1 DEF Tick, requestVars, historyVars
<1>13. CASE RedisForgets
  BY <1>6, <1>13 DEF RedisForgets, requestVars
<1>14. CASE UNCHANGED vars
  BY <1>14 DEF vars, redisVars, requestVars, historyVars
<1>. QED
  BY <1>1, <1>2, <1>3, <1>4, <1>5, <1>7, <1>8, <1>9, <1>10, <1>11, <1>12, <1>13, <1>14
     DEF Next, Advance, AllAnswered

(* What a step does to the counters and the counts.                        *)
LEMMA Frame ==
    ASSUME TypeOK, CountsInStep, [Next]_vars
    PROVE  \/ \E r \in Request :
                  /\ pc[r] = "counting"
                  /\ Counted(r)
                  /\ UNCHANGED <<now, key, asked, wiped>>
                  /\ \/ count' = count
                     \/ count' = [count EXCEPT ![r] = counter'[key[r]]]
           \/ Tick
           \/ RedisForgets
           \/ /\ UNCHANGED <<now, counter, hits, timely, wiped, count>>
              /\ \A q \in hits : key'[q] = key[q]
<1>1. ASSUME NEW r \in Request, Arrive(r) \/ FindClient(r) \/ Ping(r) \/ PingFails(r)
                                \/ SetExpiry(r) \/ Refuse(r) \/ Admit(r)
      PROVE  UNCHANGED <<now, counter, hits, timely, wiped, count, key>>
  BY <1>1 DEF Arrive, FindClient, Ping, PingFails, SetExpiry, Refuse, Admit,
              redisVars, historyVars
<1>2. ASSUME NEW r \in Request, ExpireFails(r) \/ Die(r)
      PROVE  UNCHANGED <<now, counter, hits, timely, wiped, count, key>>
  BY <1>2 DEF ExpireFails, Die, redisVars
<1>3. ASSUME NEW r \in Request, BuildKey(r)
      PROVE  /\ UNCHANGED <<now, counter, hits, timely, wiped, count>>
             /\ \A q \in hits : key'[q] = key[q]
  <2>1. r \notin hits
    BY <1>3 DEF BuildKey, CountsInStep, Uncounted
  <2>2. hits \subseteq Request
    BY DEF TypeOK
  <2>. QED
    BY <1>3, <2>1, <2>2 DEF BuildKey, redisVars, historyVars, TypeOK
<1>4. ASSUME NEW r \in Request, Incr(r) \/ IncrFails(r)
      PROVE  \/ /\ Counted(r)
                /\ pc[r] = "counting"
                /\ UNCHANGED <<now, key, asked, wiped>>
                /\ \/ count' = count
                   \/ count' = [count EXCEPT ![r] = counter'[key[r]]]
             \/ UNCHANGED <<now, counter, hits, timely, wiped, count, key>>
  BY <1>4 DEF Incr, IncrFails
<1>5. CASE UNCHANGED vars
  BY <1>5 DEF vars, redisVars, requestVars, historyVars
<1>. QED
  BY <1>1, <1>2, <1>3, <1>4, <1>5 DEF Next, Advance, AllAnswered

-----------------------------------------------------------------------------
LEMMA KeysStep ==
    ASSUME TypeOK, KeysInStep, CountsInStep, [Next]_vars
    PROVE  KeysInStep'
<1>. USE DEF TypeOK, KeysInStep
<1>1. ASSUME NEW r \in Request, Arrive(r) PROVE KeysInStep'
  <2>1. r \notin hits
    BY <1>1 DEF Arrive, CountsInStep, Uncounted
  <2>. QED
    BY <1>1, <2>1 DEF Arrive, Goto, redisVars, historyVars
<1>2. ASSUME NEW r \in Request, FindClient(r) \/ Ping(r) \/ PingFails(r) PROVE KeysInStep'
  <2>1. r \notin hits /\ pc[r] # "idle"
    BY <1>2 DEF FindClient, Ping, PingFails, CountsInStep, Uncounted
  <2>. QED
    BY <1>2, <2>1 DEF FindClient, Ping, PingFails, Goto, redisVars, historyVars
<1>3. ASSUME NEW r \in Request, BuildKey(r) PROVE KeysInStep'
  <2>1. r \notin hits /\ pc[r] # "idle"
    BY <1>3 DEF BuildKey, CountsInStep, Uncounted
  <2>2. /\ KeyOf(r) \in Key
        /\ KeyOf(r).address = asked[r].address
        /\ KeyOf(r).kind = asked[r].kind
        /\ KeyOf(r).minute = now.minute
        /\ now.minute \in Nat
    BY <1>3 DEF BuildKey, KeyOf, Key, Minutes
  <2>. QED
    BY <1>3, <2>1, <2>2 DEF BuildKey, Goto, redisVars, historyVars
<1>4. ASSUME NEW r \in Request, Incr(r) \/ IncrFails(r) PROVE KeysInStep'
  BY <1>4 DEF Incr, IncrFails, Counted, Goto
<1>5. ASSUME NEW r \in Request, SetExpiry(r) \/ ExpireFails(r) \/ Refuse(r) \/ Admit(r)
                                \/ Die(r)
      PROVE  KeysInStep'
  <2>1. /\ UNCHANGED <<now, asked, key, hits>>
        /\ \E l \in {"deciding", "passed", "refused", "dead"} : pc' = [pc EXCEPT ![r] = l]
        /\ pc[r] # "idle"
        /\ pc'[r] \in {"deciding", "refused"} => pc[r] \in {"expiring", "deciding"}
    BY <1>5 DEF SetExpiry, ExpireFails, Refuse, Admit, Die, Goto, redisVars, historyVars
  <2>. QED
    BY <2>1
<1>6. CASE Tick
  <2>1. now.minute \in Nat /\ now'.minute \in Nat /\ now.minute <= now'.minute
    BY <1>6 DEF Tick, NextSecond, Minutes
  <2>2. \A r \in Request : key[r] \in Key => key[r].minute \in Nat
    BY DEF Key, Minutes
  <2>. QED
    BY <1>6, <2>1, <2>2 DEF Tick, requestVars, historyVars
<1>7. CASE RedisForgets
  BY <1>7 DEF RedisForgets, requestVars
<1>8. CASE UNCHANGED vars
  BY <1>8 DEF vars, redisVars, requestVars, historyVars
<1>. QED
  BY <1>1, <1>2, <1>3, <1>4, <1>5, <1>6, <1>7, <1>8 DEF Next, Advance, AllAnswered

LEMMA CountsStep ==
    ASSUME TypeOK, KeysInStep, CountsInStep, [Next]_vars
    PROVE  CountsInStep'
<1>. USE DEF TypeOK, CountsInStep, Uncounted
<1>0. \A r \in Request : pc[r] # "idle" =>
          asked[r].kind \in Kind /\ Limit[asked[r].kind] \in Nat \ {0}
  BY DEF KeysInStep
<1>1. ASSUME NEW r \in Request, Arrive(r) PROVE CountsInStep'
  BY <1>1 DEF Arrive, Goto, redisVars, historyVars
<1>2. ASSUME NEW r \in Request, FindClient(r) \/ Ping(r) \/ PingFails(r) \/ BuildKey(r)
      PROVE  CountsInStep'
  BY <1>0, <1>2 DEF FindClient, Ping, PingFails, BuildKey, Goto, redisVars, historyVars
<1>3. ASSUME NEW r \in Request, Incr(r) PROVE CountsInStep'
  <2>1. key[r] \in Key /\ counter'[key[r]] \in Nat /\ counter'[key[r]] > 0
    BY <1>3 DEF Incr, Counted, KeysInStep
  <2>2. /\ count'[r] = counter'[key[r]]
        /\ r \in hits'
        /\ pc'[r] = IF count'[r] = 1 THEN "expiring" ELSE "deciding"
        /\ \A q \in Request \ {r} : pc'[q] = pc[q] /\ count'[q] = count[q]
                                    /\ (q \in hits' <=> q \in hits)
        /\ asked' = asked
    BY <1>3 DEF Incr, Counted, Goto
  <2>. QED
    BY <2>1, <2>2
<1>4. ASSUME NEW r \in Request, IncrFails(r) PROVE CountsInStep'
  <2>1. /\ count' = count /\ asked' = asked
        /\ pc' = [pc EXCEPT ![r] = "passed"]
        /\ hits' = hits \cup {r} \/ hits' = hits
        /\ pc[r] = "counting"
    BY <1>4 DEF IncrFails, Counted, Goto
  <2>. QED
    BY <1>0, <2>1
<1>5. ASSUME NEW r \in Request, SetExpiry(r) \/ Refuse(r) \/ Admit(r) PROVE CountsInStep'
  BY <1>0, <1>5 DEF SetExpiry, Refuse, Admit, Goto, redisVars, historyVars
<1>6. ASSUME NEW r \in Request, ExpireFails(r) PROVE CountsInStep'
  <2>1. /\ UNCHANGED <<count, asked, hits>>
        /\ pc' = [pc EXCEPT ![r] = "passed"]
        /\ count[r] = 1
        /\ Limit[asked[r].kind] \in Nat \ {0}
    BY <1>0, <1>6 DEF ExpireFails, Goto
  <2>. QED
    BY <2>1
<1>7. ASSUME NEW r \in Request, Die(r) PROVE CountsInStep'
  BY <1>7 DEF Die, Goto, redisVars
<1>8. CASE Tick
  BY <1>8 DEF Tick, requestVars, historyVars
<1>9. CASE RedisForgets
  BY <1>9 DEF RedisForgets, requestVars
<1>10. CASE UNCHANGED vars
  BY <1>10 DEF vars, redisVars, requestVars, historyVars
<1>. QED
  BY <1>1, <1>2, <1>3, <1>4, <1>5, <1>6, <1>7, <1>8, <1>9, <1>10
     DEF Next, Advance, AllAnswered

LEMMA ExpiryStep ==
    ASSUME TypeOK, KeysInStep, ExpiryIsLater, [Next]_vars
    PROVE  ExpiryIsLater'
<1>. USE DEF TypeOK, ExpiryIsLater
<1>1. \A k \in Key : k.minute \in Nat /\ Never.minute > k.minute
  BY DEF Never, Key, Minutes
<1>2. now.minute \in Nat
  BY DEF Minutes
<1>3. ASSUME NEW r \in Request, Expiring(r), pc[r] = "expiring" PROVE ExpiryIsLater'
  <2>1. key[r] \in Key /\ key[r].minute <= now.minute
    BY <1>3 DEF KeysInStep
  <2>2. Ttl.minute > key[r].minute
    BY <1>1, <1>2, <2>1 DEF Ttl
  <2>. QED
    BY <1>1, <1>3, <2>1, <2>2 DEF Expiring
<1>4. CASE Tick \/ RedisForgets
  BY <1>1, <1>4 DEF Tick, RedisForgets
<1>5. CASE UNCHANGED expiry
  BY <1>5
<1>. QED
  BY <1>3, <1>4, <1>5
     DEF Next, Advance, AllAnswered, vars, redisVars, Arrive, FindClient, Ping, PingFails,
         BuildKey, Incr, IncrFails, SetExpiry, ExpireFails, Refuse, Admit, Die

-----------------------------------------------------------------------------
(* The counts within a minute.                                             *)

LEMMA BelowStep ==
    ASSUME TypeOK, TypeOK', KeysInStep, CountsInStep, ExpiryIsLater, CountsBelow,
           [Next]_vars
    PROVE  CountsBelow'
<1>. SUFFICES ASSUME NEW q \in Standing', key'[q].minute = now'.minute
              PROVE  count'[q] <= counter'[key'[q]]
  BY DEF CountsBelow
<1>0. q \in timely' /\ q \in hits' /\ q \in Request /\ count'[q] > 0
      /\ key'[q].minute \notin wiped'
  BY DEF Standing, TypeOK
<1>1. ASSUME NEW r \in Request, pc[r] = "counting", Counted(r),
             UNCHANGED <<now, key, asked, wiped>>,
             \/ count' = count
             \/ count' = [count EXCEPT ![r] = counter'[key[r]]]
      PROVE  count'[q] <= counter'[key'[q]]
  <2>1. key[r] \in Key /\ counter[key[r]] \in Nat /\ count[r] = 0 /\ r \notin hits
    BY <1>1 DEF KeysInStep, CountsInStep, Uncounted, TypeOK
  <2>2. CASE q = r
    BY <1>0, <1>1, <2>1, <2>2 DEF TypeOK
  <2>3. CASE q # r
    <3>1. q \in timely /\ q \in hits /\ count'[q] = count[q]
      BY <1>0, <1>1, <2>3 DEF Counted, TypeOK
    <3>2. q \in Standing /\ key[q] \in Key
      BY <1>0, <1>1, <3>1 DEF Standing, KeysInStep
    <3>3. count[q] <= counter[key[q]]
      BY <1>1, <3>2 DEF CountsBelow
    <3>4. counter[key[q]] <= counter'[key[q]]
      BY <1>1, <2>1, <3>2 DEF Counted, TypeOK
    <3>. QED
      BY <1>1, <3>1, <3>2, <3>3, <3>4 DEF TypeOK
  <2>. QED
    BY <2>2, <2>3
<1>2. CASE Tick
  <2>1. /\ key' = key /\ count' = count /\ timely' = timely /\ hits' = hits
        /\ wiped' = wiped
    BY <1>2 DEF Tick, requestVars, historyVars
  <2>2. key[q] \in Key /\ key[q].minute <= now.minute /\ key[q].minute \in Nat
    BY <1>0, <2>1 DEF KeysInStep, Key, Minutes
  <2>3. now.minute \in Nat /\ now.minute <= now'.minute
    BY <1>2 DEF Tick, NextSecond, TypeOK, Minutes
  <2>4. key[q].minute = now.minute
    BY <2>1, <2>2, <2>3
  <2>5. expiry[key[q]].minute > now'.minute
    BY <2>1, <2>2 DEF ExpiryIsLater
  <2>6. expiry[key[q]].minute \in Nat /\ now'.minute \in Nat
    BY <2>2 DEF TypeOK, Time, Minutes
  <2>7. ~ Reached(expiry[key[q]], now')
    BY <2>5, <2>6 DEF Reached
  <2>8. counter'[key[q]] = counter[key[q]]
    BY <1>2, <2>2, <2>7 DEF Tick
  <2>9. q \in Standing
    BY <1>0, <2>1 DEF Standing
  <2>. QED
    BY <2>1, <2>4, <2>8, <2>9 DEF CountsBelow
<1>3. CASE RedisForgets
  BY <1>0, <1>3 DEF RedisForgets, requestVars
<1>4. CASE /\ UNCHANGED <<now, counter, hits, timely, wiped, count>>
           /\ \A p \in hits : key'[p] = key[p]
  <2>1. key'[q] = key[q] /\ q \in Standing
    BY <1>0, <1>4 DEF Standing
  <2>. QED
    BY <1>4, <2>1 DEF CountsBelow
<1>. QED
  BY <1>1, <1>2, <1>3, <1>4, Frame

LEMMA DifferStep ==
    ASSUME TypeOK, TypeOK', KeysInStep, CountsInStep, CountsBelow, CountsDiffer,
           [Next]_vars
    PROVE  CountsDiffer'
<1>1. ASSUME NEW r \in Request, pc[r] = "counting", Counted(r),
             UNCHANGED <<now, key, asked, wiped>>,
             \/ count' = count
             \/ count' = [count EXCEPT ![r] = counter'[key[r]]]
      PROVE  CountsDiffer'
  <2>1. key[r] \in Key /\ counter[key[r]] \in Nat /\ count[r] = 0 /\ r \notin hits
    BY <1>1 DEF KeysInStep, CountsInStep, Uncounted, TypeOK
  <2>2. \A q \in Standing' \ {r} : q \in Standing /\ count'[q] = count[q] /\ key[q] \in Key
    BY <1>1 DEF Standing, Counted, TypeOK, KeysInStep
  <2>3. r \in Standing' => /\ key[r].minute = now.minute
                           /\ count'[r] = counter[key[r]] + 1
    <3>. SUFFICES ASSUME r \in Standing'
                  PROVE  key[r].minute = now.minute /\ count'[r] = counter[key[r]] + 1
      OBVIOUS
    <3>1. r \in timely' /\ count'[r] > 0 /\ r \notin timely
      BY <2>1 DEF Standing, TypeOK
    <3>. QED
      BY <1>1, <2>1, <3>1 DEF Counted, TypeOK
  <2>4. \A q \in Standing' \ {r} : r \in Standing' /\ key[q] = key[r] => count'[q] < count'[r]
    <3>. SUFFICES ASSUME NEW q \in Standing' \ {r}, r \in Standing', key[q] = key[r]
                  PROVE  count'[q] < count'[r]
      OBVIOUS
    <3>1. count[q] <= counter[key[r]]
      BY <2>2, <2>3 DEF CountsBelow
    <3>2. count[q] \in Nat
      BY <2>2 DEF Standing, TypeOK
    <3>. QED
      BY <2>1, <2>2, <2>3, <3>1, <3>2
  <2>5. \A q \in Standing' : count'[q] \in Nat
    BY DEF Standing, TypeOK
  <2>. QED
    <3>. SUFFICES ASSUME NEW p \in Standing', NEW q \in Standing', p # q, key[p] = key[q]
                  PROVE  count'[p] # count'[q]
      BY <1>1 DEF CountsDiffer
    <3>1. CASE p # r /\ q # r
      BY <2>2, <3>1 DEF CountsDiffer
    <3>2. CASE p = r
      BY <2>4, <2>5, <3>2
    <3>3. CASE q = r
      BY <2>4, <2>5, <3>3
    <3>. QED
      BY <3>1, <3>2, <3>3
<1>2. CASE Tick \/ RedisForgets
  <2>1. key' = key /\ Standing' \subseteq Standing /\ count' = count
    BY <1>2 DEF Tick, RedisForgets, requestVars, historyVars, Standing
  <2>. QED
    BY <2>1 DEF CountsDiffer
<1>3. CASE /\ UNCHANGED <<now, counter, hits, timely, wiped, count>>
           /\ \A p \in hits : key'[p] = key[p]
  <2>1. \A q \in Standing' : q \in Standing /\ key'[q] = key[q] /\ count'[q] = count[q]
    BY <1>3 DEF Standing, TypeOK
  <2>. QED
    BY <2>1 DEF CountsDiffer
<1>. QED
  BY <1>1, <1>2, <1>3, Frame

LEMMA BackedStep ==
    ASSUME TypeOK, KeysInStep, CountsInStep, CountersBacked, [Next]_vars
    PROVE  CountersBacked'
<1>. DEFINE After(k) == {q \in hits' : key'[q] = k}
<1>. SUFFICES /\ IsFiniteSet(hits')
              /\ \A k \in Key : counter'[k] <= Cardinality(After(k))
              /\ \A q \in hits' : count'[q] <= Cardinality(After(key'[q]))
  BY DEF CountersBacked, Under
<1>. DEFINE Goal == /\ IsFiniteSet(hits')
                    /\ \A k \in Key : counter'[k] <= Cardinality(After(k))
                    /\ \A q \in hits' : count'[q] <= Cardinality(After(key'[q]))
<1>. USE DEF CountersBacked
<1>1. ASSUME NEW r \in Request, pc[r] = "counting", Counted(r),
             UNCHANGED <<now, key, asked, wiped>>,
             \/ count' = count
             \/ count' = [count EXCEPT ![r] = counter'[key[r]]]
      PROVE  Goal
  <2>1. key[r] \in Key /\ counter[key[r]] \in Nat /\ count[r] = 0 /\ r \notin hits
    BY <1>1 DEF KeysInStep, CountsInStep, Uncounted, TypeOK
  <2>2. IsFiniteSet(hits')
    BY <1>1, FS_AddElement DEF Counted
  <2>3. \A k : IsFiniteSet(Under(k)) /\ Cardinality(Under(k)) \in Nat
    BY FS_Subset, FS_CardinalityType DEF Under
  <2>4. After(key[r]) = Under(key[r]) \cup {r} /\ r \notin Under(key[r])
    BY <1>1, <2>1 DEF Under, Counted
  <2>5. Cardinality(After(key[r])) = Cardinality(Under(key[r])) + 1
    BY <2>3, <2>4, FS_AddElement
  <2>6. \A k : k # key[r] => After(k) = Under(k)
    BY <1>1 DEF Under, Counted
  <2>7. counter'[key[r]] = counter[key[r]] + 1
    BY <1>1, <2>1 DEF Counted, TypeOK
  <2>. HIDE DEF After
  <2>8. \A k \in Key : counter'[k] <= Cardinality(After(k))
    <3>. TAKE k \in Key
    <3>1. CASE k = key[r]
      BY <2>1, <2>3, <2>5, <2>7, <3>1
    <3>2. CASE k # key[r]
      BY <1>1, <2>1, <2>6, <3>2 DEF Counted, TypeOK
    <3>. QED
      BY <3>1, <3>2
  <2>9. \A q \in hits' : count'[q] <= Cardinality(After(key'[q]))
    <3>. TAKE q \in hits'
    <3>0. key'[q] = key[q]
      BY <1>1
    <3>1. CASE q = r
      BY <1>1, <2>1, <2>3, <2>5, <2>8, <3>0, <3>1 DEF TypeOK
    <3>2. CASE q # r
      <4>1. q \in hits /\ count'[q] = count[q] /\ count[q] \in Nat
        BY <1>1, <3>2 DEF Counted, TypeOK
      <4>2. Cardinality(Under(key[q])) \in Nat
        BY <2>3
      <4>3. /\ Cardinality(Under(key[q])) <= Cardinality(After(key[q]))
            /\ Cardinality(After(key[q])) \in Nat
        <5>1. CASE key[q] = key[r]
          BY <2>5, <4>2, <5>1
        <5>2. CASE key[q] # key[r]
          BY <2>6, <4>2, <5>2
        <5>. QED
          BY <5>1, <5>2
      <4>. QED
        BY <2>3, <3>0, <4>1, <4>2, <4>3 DEF TypeOK
    <3>. QED
      BY <3>1, <3>2
  <2>. QED
    BY <2>2, <2>8, <2>9
<1>2. ASSUME UNCHANGED hits, UNCHANGED count,
             \A q \in hits : key'[q] = key[q],
             \A k \in Key : counter'[k] = counter[k] \/ counter'[k] = 0
      PROVE  Goal
  <2>1. \A k : After(k) = Under(k)
    BY <1>2 DEF Under
  <2>2. \A q \in hits : After(key'[q]) = Under(key[q])
    BY <1>2 DEF Under
  <2>3. \A k : Cardinality(Under(k)) \in Nat
    BY FS_Subset, FS_CardinalityType DEF Under
  <2>. QED
    BY <1>2, <2>1, <2>2, <2>3
<1>3. CASE Tick \/ RedisForgets
  BY <1>2, <1>3 DEF Tick, RedisForgets, requestVars, historyVars
<1>4. CASE /\ UNCHANGED <<now, counter, hits, timely, wiped, count>>
           /\ \A p \in hits : key'[p] = key[p]
  BY <1>2, <1>4
<1>. QED
  BY <1>1, <1>3, <1>4, Frame

LEMMA RetryStep ==
    ASSUME TypeOK, KeysInStep, RetryIsLaterMinute, [Next]_vars
    PROVE  RetryIsLaterMinute'
<1>1. ASSUME NEW r \in Request, Refuse(r) PROVE RetryIsLaterMinute'
  <2>1. /\ refusal'[r].at = now /\ refusal'[r].wait = Minute - now.second
        /\ pc' = [pc EXCEPT ![r] = "refused"] /\ key' = key
        /\ \A q \in Request \ {r} : refusal'[q] = refusal[q]
    BY <1>1 DEF Refuse, RetryAfter, Goto, TypeOK
  <2>2. key[r] \in Key /\ key[r].minute <= now.minute
    BY <1>1 DEF Refuse, KeysInStep
  <2>3. now.minute \in Nat /\ now.second \in 0 .. Minute - 1 /\ key[r].minute \in Nat
    BY <2>2 DEF TypeOK, Minutes, Key
  <2>4. /\ refusal'[r].wait \in 1 .. Minute
        /\ \/ refusal'[r].at.minute > key[r].minute
           \/ /\ refusal'[r].at.minute = key[r].minute
              /\ refusal'[r].at.second + refusal'[r].wait >= Minute
    BY <2>1, <2>2, <2>3
  <2>. QED
    BY <2>1, <2>4 DEF RetryIsLaterMinute, TypeOK
<1>2. ASSUME NEW r \in Request, Arrive(r) \/ FindClient(r) \/ Ping(r) \/ PingFails(r)
                                \/ BuildKey(r) \/ Incr(r) \/ IncrFails(r)
                                \/ SetExpiry(r) \/ ExpireFails(r) \/ Admit(r) \/ Die(r)
      PROVE  RetryIsLaterMinute'
  <2>1. /\ refusal' = refusal
        /\ \E l : l # "refused" /\ pc' = [pc EXCEPT ![r] = l]
        /\ pc[r] # "refused"
        /\ \A q \in Request \ {r} : key'[q] = key[q]
    BY <1>2 DEF Arrive, FindClient, Ping, PingFails, BuildKey, Incr, IncrFails, SetExpiry,
                ExpireFails, Admit, Die, Goto, Answered, TypeOK
  <2>. QED
    BY <2>1 DEF RetryIsLaterMinute, TypeOK
<1>3. CASE Tick \/ RedisForgets \/ UNCHANGED vars
  BY <1>3 DEF Tick, RedisForgets, requestVars, vars, RetryIsLaterMinute
<1>. QED
  BY <1>1, <1>2, <1>3 DEF Next, Advance, AllAnswered

LEMMA ForgottenStep ==
    ASSUME TypeOK, KeysInStep, NoKeyForgotten, [Next]_vars
    PROVE  NoKeyForgotten'
<1>. USE DEF TypeOK, NoKeyForgotten
<1>1. ASSUME NEW r \in Request, Arrive(r) \/ FindClient(r) \/ Ping(r) \/ PingFails(r)
                                \/ BuildKey(r) \/ Refuse(r) \/ Admit(r)
      PROVE  NoKeyForgotten'
  <2>1. /\ UNCHANGED <<counter, expiry, unset>>
        /\ \E l : pc' = [pc EXCEPT ![r] = l]
        /\ pc[r] # "expiring"
        /\ \A q \in Request \ {r} : key'[q] = key[q]
    BY <1>1 DEF Arrive, FindClient, Ping, PingFails, BuildKey, Refuse, Admit, Goto,
                redisVars, historyVars
  <2>. QED
    BY <2>1
<1>2. ASSUME NEW r \in Request, Incr(r) PROVE NoKeyForgotten'
  <2>1. /\ key[r] \in Key /\ key' = key /\ expiry' = expiry /\ unset' = unset
        /\ counter' = [counter EXCEPT ![key[r]] = @ + 1]
        /\ pc[r] = "counting"
        /\ pc' = [pc EXCEPT ![r] = IF counter'[key[r]] = 1 THEN "expiring" ELSE "deciding"]
    BY <1>2 DEF Incr, Counted, Goto, KeysInStep
  <2>. SUFFICES ASSUME NEW k \in Key, counter'[k] > 0, expiry[k] = Never, k \notin unset
                PROVE  \E q \in Request : key[q] = k /\ pc'[q] = "expiring"
    BY <2>1
  <2>2. CASE k = key[r] /\ counter[k] = 0
    BY <2>1, <2>2
  <2>3. CASE k # key[r] \/ counter[k] # 0
    <3>1. counter[k] > 0
      BY <2>1, <2>3
    <3>2. PICK q \in Request : key[q] = k /\ pc[q] = "expiring"
      BY <3>1
    <3>. QED
      BY <2>1, <3>2
  <2>. QED
    BY <2>2, <2>3
<1>3. ASSUME NEW r \in Request, IncrFails(r) PROVE NoKeyForgotten'
  <2>1. /\ key[r] \in Key /\ key' = key /\ expiry' = expiry /\ unset \subseteq unset'
        /\ pc[r] = "counting" /\ pc' = [pc EXCEPT ![r] = "passed"]
        /\ \/ counter' = counter
           \/ /\ counter' = [counter EXCEPT ![key[r]] = @ + 1]
              /\ counter'[key[r]] = 1 => key[r] \in unset'
    BY <1>3 DEF IncrFails, Counted, Goto, KeysInStep
  <2>. SUFFICES ASSUME NEW k \in Key, counter'[k] > 0, expiry[k] = Never, k \notin unset'
                PROVE  \E q \in Request : key[q] = k /\ pc'[q] = "expiring"
    BY <2>1
  <2>2. counter[k] > 0
    BY <2>1
  <2>3. PICK q \in Request : key[q] = k /\ pc[q] = "expiring"
    BY <2>1, <2>2
  <2>. QED
    BY <2>1, <2>3
<1>4. Ttl # Never
  BY DEF Ttl, Never, Minutes
<1>5. ASSUME NEW r \in Request, SetExpiry(r) \/ ExpireFails(r) PROVE NoKeyForgotten'
  <2>1. /\ key[r] \in Key /\ key' = key /\ counter' = counter
        /\ \/ Expiring(r) /\ unset' = unset
           \/ expiry' = expiry /\ unset' = unset \cup {key[r]}
        /\ pc[r] = "expiring"
        /\ \E l : pc' = [pc EXCEPT ![r] = l]
    BY <1>5 DEF SetExpiry, ExpireFails, Goto, KeysInStep, historyVars
  <2>2. ASSUME Expiring(r) PROVE /\ counter[key[r]] > 0 => expiry'[key[r]] # Never
                                 /\ \A k \in Key \ {key[r]} : expiry'[k] = expiry[k]
    BY <1>4, <2>1, <2>2 DEF Expiring
  <2>3. ASSUME NEW k \in Key, counter'[k] > 0, expiry'[k] = Never
        PROVE  \/ k \in unset'
               \/ \E q \in Request : key'[q] = k /\ pc'[q] = "expiring"
    <3>1. CASE k = key[r]
      BY <2>1, <2>2, <2>3, <3>1
    <3>2. CASE k # key[r]
      <4>1. expiry[k] = Never /\ counter[k] > 0
        BY <2>1, <2>2, <2>3, <3>2
      <4>2. k \in unset \/ \E q \in Request : key[q] = k /\ pc[q] = "expiring"
        BY <4>1
      <4>. QED
        BY <2>1, <3>2, <4>2
    <3>. QED
      BY <3>1, <3>2
  <2>. QED
    BY <2>3
<1>6. ASSUME NEW r \in Request, Die(r) PROVE NoKeyForgotten'
  <2>1. /\ UNCHANGED <<counter, expiry, key>>
        /\ pc' = [pc EXCEPT ![r] = "dead"]
        /\ unset \subseteq unset'
        /\ pc[r] = "expiring" => key[r] \in unset'
    BY <1>6 DEF Die, Goto, redisVars
  <2>. QED
    BY <2>1
<1>7. CASE Tick
  <2>1. \A k \in Key : counter'[k] > 0 => counter'[k] = counter[k] /\ expiry'[k] = expiry[k]
    BY <1>7 DEF Tick
  <2>. QED
    BY <1>7, <2>1 DEF Tick, requestVars, historyVars
<1>8. CASE RedisForgets
  BY <1>8 DEF RedisForgets
<1>9. CASE UNCHANGED vars
  BY <1>9 DEF vars, redisVars, requestVars, historyVars
<1>. QED
  BY <1>1, <1>2, <1>3, <1>5, <1>6, <1>7, <1>8, <1>9 DEF Next, Advance, AllAnswered

LEMMA StepIInv == IInv /\ [Next]_vars => IInv'
<1>. SUFFICES ASSUME IInv, [Next]_vars PROVE IInv'
  OBVIOUS
<1>1. TypeOK'
  BY TypeOKStep DEF IInv
<1>2. KeysInStep' /\ CountsInStep' /\ ExpiryIsLater'
  BY KeysStep, CountsStep, ExpiryStep DEF IInv
<1>3. CountsBelow' /\ CountsDiffer' /\ CountersBacked'
  BY <1>1, BelowStep, DifferStep, BackedStep DEF IInv
<1>4. RetryIsLaterMinute' /\ NoKeyForgotten'
  BY RetryStep, ForgottenStep DEF IInv
<1>. QED
  BY <1>1, <1>2, <1>3, <1>4 DEF IInv

(* The inductive invariant of the limiter holds whatever Redis does.       *)
THEOREM Invariance == Spec => []IInv
<1>. QED
  BY InitIInv, StepIInv, PTL DEF Spec

-----------------------------------------------------------------------------
(* The counts of what was admitted under a key are different numbers from  *)
(* 1 to the limit.                                                         *)
LEMMA AdmittedCounts ==
    ASSUME IInv, NEW k \in Key, k.minute \notin wiped
    PROVE  Cardinality(AdmittedUnder(k)) <= Limit[k.kind]
<1>. DEFINE f == [r \in AdmittedUnder(k) |-> count[r]]
<1>1. \A r \in AdmittedUnder(k) : /\ r \in Request
                                  /\ r \in Standing
                                  /\ key[r] = k
                                  /\ count[r] \in 1 .. Limit[k.kind]
  <2>. SUFFICES ASSUME NEW r \in AdmittedUnder(k)
                PROVE  r \in Request /\ r \in Standing /\ key[r] = k
                       /\ count[r] \in 1 .. Limit[k.kind]
    OBVIOUS
  <2>1. /\ r \in timely /\ r \in hits /\ r \in Request
        /\ pc[r] = "passed" /\ key[r] = k /\ count[r] > 0
    BY DEF AdmittedUnder, IInv, TypeOK
  <2>2. k.kind = asked[r].kind /\ k.kind \in Kind
    BY <2>1 DEF IInv, KeysInStep, Key
  <2>3. count[r] <= Limit[k.kind] /\ count[r] \in Nat
    BY <2>1, <2>2 DEF IInv, CountsInStep, TypeOK
  <2>4. Limit[k.kind] \in Nat
    BY <2>2
  <2>. QED
    BY <2>1, <2>3, <2>4 DEF Standing
<1>2. \A q, r \in AdmittedUnder(k) : f[q] = f[r] => q = r
  BY <1>1 DEF IInv, CountsDiffer
<1>3. f \in Injection(AdmittedUnder(k), 1 .. Limit[k.kind])
  BY <1>1, <1>2 DEF Injection, IsInjective
<1>4. Limit[k.kind] \in Nat \ {0} /\ Limit[k.kind] \in Int /\ 1 \in Int
  BY DEF Key
<1>. DEFINE n == Limit[k.kind]
<1>5. IsFiniteSet(1 .. n) /\ Cardinality(1 .. n) = n
  <2>. HIDE DEF n
  <2>1. n \in Nat \ {0} /\ n \in Int /\ 1 \in Int
    BY <1>4 DEF n
  <2>2. IsFiniteSet(1 .. n) /\ Cardinality(1 .. n) = IF 1 > n THEN 0 ELSE n - 1 + 1
    BY <2>1, FS_Interval
  <2>. QED
    BY <2>1, <2>2
<1>. QED
  BY <1>3, <1>5, FS_Injection

(* dispatch: a minute admits no more than its limit by its count, as long  *)
(* as Redis keeps its data.                                                *)
THEOREM LimitAlwaysHolds == Spec => []LimitHolds
<1>1. IInv => LimitHolds
  BY AdmittedCounts DEF LimitHolds
<1>. QED
  BY <1>1, Invariance, PTL

(* dispatch: a 429 has as many other requests of its address, kind and     *)
(* minute behind it as the limit admits.                                   *)
THEOREM RefusalsHaveCause == Spec => []RefusedForCause
<1>1. IInv => RefusedForCause
  <2>. SUFFICES ASSUME IInv, NEW r \in Request, pc[r] = "refused"
                PROVE  Cardinality({q \in hits \ {r} : /\ asked[q] = asked[r]
                                                       /\ key[q].minute = key[r].minute})
                           >= Limit[asked[r].kind]
    BY DEF RefusedForCause
  <2>. DEFINE Others == {q \in hits \ {r} : /\ asked[q] = asked[r]
                                            /\ key[q].minute = key[r].minute}
  <2>1. /\ count[r] > Limit[asked[r].kind] /\ count[r] \in Nat
        /\ Limit[asked[r].kind] \in Nat \ {0}
        /\ r \in hits
    BY DEF IInv, CountsInStep, TypeOK, KeysInStep
  <2>2. IsFiniteSet(hits) /\ count[r] <= Cardinality(Under(key[r]))
    BY <2>1 DEF IInv, CountersBacked
  <2>3. IsFiniteSet(Under(key[r])) /\ Cardinality(Under(key[r])) \in Nat
    BY <2>2, FS_Subset, FS_CardinalityType DEF Under
  <2>4. /\ IsFiniteSet(Under(key[r]) \ {r})
        /\ Cardinality(Under(key[r]) \ {r}) = Cardinality(Under(key[r])) - 1
    BY <2>1, <2>3, FS_RemoveElement DEF Under
  <2>5. \A q \in hits : key[q] = key[r] => asked[q] = asked[r]
    <3>. SUFFICES ASSUME NEW q \in hits, key[q] = key[r] PROVE asked[q] = asked[r]
      OBVIOUS
    <3>1. /\ q \in Request
          /\ asked[q] \in [address : Address, kind : Kind]
          /\ asked[r] \in [address : Address, kind : Kind]
          /\ asked[q].address = asked[r].address
          /\ asked[q].kind = asked[r].kind
      BY <2>1 DEF IInv, TypeOK, KeysInStep
    <3>. QED
      BY <3>1
  <2>6. Under(key[r]) \ {r} \in SUBSET Others
    BY <2>5 DEF Under
  <2>7. IsFiniteSet(Others) /\ Cardinality(Others) \in Nat
    BY <2>2, FS_Subset, FS_CardinalityType
  <2>8. Cardinality(Under(key[r]) \ {r}) <= Cardinality(Others)
    BY <2>6, <2>7, FS_Subset
  <2>. QED
    BY <2>1, <2>2, <2>3, <2>4, <2>7, <2>8
<1>. QED
  BY <1>1, Invariance, PTL

(* dispatch: Retry-After leads into a later minute.                        *)
THEOREM RetriesAreLater == Spec => []RetryIsLaterMinute
<1>1. IInv => RetryIsLaterMinute
  BY DEF IInv
<1>. QED
  BY <1>1, Invariance, PTL

(* dispatch: only an EXPIRE that was cut off or failed leaves a key for    *)
(* good.                                                                   *)
THEOREM KeysAreNotForgotten == Spec => []NoKeyForgotten
<1>1. IInv => NoKeyForgotten
  BY DEF IInv
<1>. QED
  BY <1>1, Invariance, PTL
=============================================================================
