------------------------- MODULE SavingsGoalsProofs -------------------------
(***************************************************************************)
(* SavingsGoals for every number of goals, calls, users and amounts.       *)
(***************************************************************************)
EXTENDS SavingsGoals, WalletsProofs

USE SavingsGoalsAssumption, WalletsAssumption

LEMMA InitIInv == Init => IInv
<1>. SUFFICES ASSUME Init PROVE IInv
  OBVIOUS
<1>. USE DEF Init
<1>1. WalletsInv
  BY WalletsInitInv
<1>2. TypeOK
  <2>1. goal \in [Creation -> Row]
    <3>1. ASSUME NEW g \in Creation PROVE goal[g] \in Row
      <4>1. PICK u \in User, t \in TargetAmount :
                goal[g] = [status |-> "absent", owner |-> u, target |-> t,
                           current |-> 0, completed |-> FALSE]
        OBVIOUS
      <4>. QED
        BY <4>1 DEF Row
    <3>. QED
      BY <3>1
  <2>2. asked \in [Work -> Question] /\ seen \in [Work -> Reading]
    BY DEF Question, Unasked, Reading, Unread
  <2>3. ledger \subseteq Entry /\ notices \subseteq Notice /\ member \subseteq User
    OBVIOUS
  <2>4. /\ locker \in [Creation -> Work \cup {Nobody}]
        /\ pc \in [Call -> {"idle"}]
    OBVIOUS
  <2>. QED
    BY <1>1, <2>1, <2>2, <2>3, <2>4 DEF WalletsInv, TypeOK
<1>3. CallsInStep
  BY DEF CallsInStep, WorkInStep, Ended
<1>4. InFlightIsMove
  BY DEF InFlightIsMove, InFlight, WalletsInit, NoDelta
<1>5. ReadingStaysValid
  BY DEF ReadingStaysValid, ReadingValid
<1>. QED
  BY <1>1, <1>2, <1>3, <1>4, <1>5 DEF IInv, WalletsInv

(* What a call that is under way can rely on.                              *)
LEMMA WorkerFacts ==
    ASSUME IInv, NEW c \in Work, pc[c] \notin Ended \cup {"idle"}
    PROVE  /\ c \in Call
           /\ Target(c) \in Creation
           /\ goal[Target(c)] \in Row
           /\ Owner(c) \in User
           /\ ReadingOf(Target(c)) \in Reading
           /\ seen[c] \in Reading
           /\ seen[c].current \in Nat
           /\ seen[c].target \in Nat
           /\ asked[c].amount \in Int
<1>1. Target(c) \in Creation
  BY DEF IInv, CallsInStep, WorkInStep
<1>2. goal[Target(c)] \in Row
  BY <1>1 DEF IInv, TypeOK
<1>3. seen[c] \in Reading /\ asked[c] \in Question
  BY DEF IInv, TypeOK
<1>4. ReadingOf(Target(c)) \in Reading /\ Owner(c) \in User
  BY <1>2 DEF Row, Reading, ReadingOf, Owner
<1>5. seen[c].current \in Nat /\ seen[c].target \in Nat /\ asked[c].amount \in Int
  <2>1. TargetAmount \cup {0} \subseteq Nat /\ Amount \cup {0} \subseteq Int
    OBVIOUS
  <2>2. seen[c].current \in Nat /\ seen[c].target \in TargetAmount \cup {0}
    BY <1>3 DEF Reading
  <2>3. asked[c].amount \in Amount \cup {0}
    BY <1>3 DEF Question
  <2>. QED
    BY <2>1, <2>2, <2>3
<1>. QED
  BY <1>1, <1>2, <1>3, <1>4, <1>5

(* What a step of call c must not touch of the others, and what it has to  *)
(* leave behind.                                                           *)
LeavesOthers(c) ==
    /\ \A d \in Call \ {c} : pc'[d] = pc[d] /\ delta'[d] = delta[d]
    /\ \A d \in Work \ {c} : asked'[d] = asked[d] /\ seen'[d] = seen[d]
    /\ \A g \in Creation :
        /\ goal'[g].owner = goal[g].owner
        /\ goal[g].status = "open" /\ locker[g] \notin {c, Nobody} =>
            locker'[g] = locker[g] /\ goal'[g] = goal[g]

Posts(c) ==
    /\ pc[c] = "done" => pc'[c] = "done"
    /\ \A e \in ledger' : e \in ledger \/ (e.id = c /\ pc'[c] = "done")
    /\ \A n \in notices' : n \in notices \/ (n.call = c /\ pc'[c] = "done")

GoalsInStep == \A g \in Creation : goal[g].status # "absent" <=> pc[g] = "done"

MovesInStep(c) ==
    \A u \in User, cur \in Currency : delta[c][u][cur] = InFlight(c, u, cur)

LEMMA StepInv ==
    ASSUME IInv, TypeOK', InFlightCovered', GoalsInStep', NEW c \in Call,
           LeavesOthers(c), Posts(c),
           c \in Creation =>
                /\ pc'[c] \in {"idle", "inserting"} \cup Ended
                /\ \A u \in User, cur \in Currency : delta'[c][u][cur] = 0,
           c \in Work => WorkInStep(c)' /\ ReadingValid(c)' /\ MovesInStep(c)'
    PROVE  IInv'
<1>. USE DEF LeavesOthers
<1>1. \A d \in Work \ {c} : Target(d)' = Target(d)
  BY DEF Target
<1>2. ReadingStaysValid'
  <2>1. ASSUME NEW d \in Work \ {c}, pc[d] \in {"debiting", "saving"}
        PROVE  ReadingValid(d)'
    <3>1. /\ locker[Target(d)] = d
          /\ goal[Target(d)].status = "open"
          /\ seen[d] = ReadingOf(Target(d))
      BY <2>1 DEF IInv, ReadingStaysValid, ReadingValid
    <3>2. Target(d) \in Creation
      BY <2>1, WorkerFacts DEF Ended
    <3>3. locker'[Target(d)] = d /\ goal'[Target(d)] = goal[Target(d)]
      BY <3>1, <3>2
    <3>. QED
      BY <1>1, <3>1, <3>3 DEF ReadingValid, ReadingOf
  <2>2. ASSUME NEW d \in Work \ {c}, pc[d] \notin {"debiting", "saving"}
        PROVE  ReadingValid(d)'
    BY <2>2 DEF ReadingValid
  <2>. QED
    BY <2>1, <2>2 DEF ReadingStaysValid
<1>3. CallsInStep'
  <2>1. ASSUME NEW d \in Work \ {c} PROVE WorkInStep(d)'
    <3>1. WorkInStep(d)
      BY DEF IInv, CallsInStep
    <3>2. ASSUME Target(d) \in Creation, goal[Target(d)].status # "absent"
          PROVE  goal'[Target(d)].status # "absent"
      <4>1. pc[Target(d)] = "done"
        BY <3>2 DEF IInv, CallsInStep
      <4>2. pc'[Target(d)] = "done"
        BY <3>2, <4>1 DEF Posts
      <4>. QED
        BY <3>2, <4>2 DEF GoalsInStep
    <3>. QED
      BY <1>1, <3>1, <3>2 DEF WorkInStep, Ended
  <2>2. ASSUME NEW g \in Creation
        PROVE  pc'[g] \in {"idle", "inserting"} \cup Ended
    BY DEF IInv, CallsInStep
  <2>3. \A e \in ledger' : pc'[e.id] = "done"
    BY DEF Posts, IInv, CallsInStep, TypeOK, Entry
  <2>4. \A n \in notices' : pc'[n.call] = "done"
    BY DEF Posts, IInv, CallsInStep, TypeOK, Notice
  <2>. QED
    BY <2>1, <2>2, <2>3, <2>4 DEF CallsInStep, GoalsInStep
<1>4. InFlightIsMove'
  <2>1. ASSUME NEW d \in Work \ {c}, NEW u \in User, NEW cur \in Currency
        PROVE  delta'[d][u][cur] = InFlight(d, u, cur)'
    <3>1. delta[d][u][cur] = InFlight(d, u, cur)
      BY DEF IInv, InFlightIsMove
    <3>2. pc[d] \in {"saving", "vouching", "removing"} => Owner(d)' = Owner(d)
      BY <1>1, WorkerFacts DEF Owner, Ended
    <3>. QED
      BY <3>1, <3>2 DEF InFlight
  <2>2. ASSUME NEW g \in Creation, NEW u \in User, NEW cur \in Currency
        PROVE  delta'[g][u][cur] = 0
    BY DEF IInv, InFlightIsMove
  <2>. QED
    BY <2>1, <2>2 DEF InFlightIsMove, MovesInStep
<1>. QED
  BY <1>2, <1>3, <1>4 DEF IInv

(* create_goal                                                             *)
LEMMA CreationInv ==
    ASSUME IInv, NEW g \in Creation,
           \/ CountGoals(g)
           \/ InsertGoal(g)
           \/ CutOff(g) /\ g \notin Work
    PROVE  IInv'
<1>. USE DEF CountGoals, InsertGoal, CutOff, Goto, walletVars, goalVars, recordVars
<1>1. InFlightCovered'
  BY DEF IInv, InFlightCovered, Seen
<1>7. TypeOK'
  <2>1. WalletsTypeOK' /\ pc' \in [Call -> {"idle", "inserting", "locking",
            "debiting", "saving", "reading", "editing", "refunding", "vouching",
            "removing"} \cup Ended]
    BY DEF IInv, TypeOK, WalletsTypeOK, Ended
  <2>2. goal' \in [Creation -> Row]
    <3>1. ASSUME NEW h \in Creation
          PROVE  [goal[h] EXCEPT !.status = "open"] \in Row
      BY DEF IInv, TypeOK, Row
    <3>2. CASE goal' = goal
      BY <3>2 DEF IInv, TypeOK
    <3>3. CASE InsertGoal(g)
      BY <3>1, <3>3 DEF IInv, TypeOK
    <3>. QED
      BY <3>2, <3>3
  <2>. QED
    BY <2>1, <2>2 DEF IInv, TypeOK
<1>2. LeavesOthers(g)
  BY DEF LeavesOthers, IInv, TypeOK, CallsInStep, Row
<1>3. GoalsInStep'
  BY DEF GoalsInStep, IInv, TypeOK, CallsInStep, Row, Ended
<1>4. pc'[g] \in {"idle", "inserting"} \cup Ended
  BY DEF IInv, TypeOK, Ended
<1>5. Posts(g)
  <2>1. pc[g] # "done" /\ ledger' = ledger /\ notices' = notices
    BY DEF Ended
  <2>. QED
    BY <2>1 DEF Posts
<1>6. \A u \in User, cur \in Currency : delta'[g][u][cur] = 0
  BY DEF IInv, InFlightIsMove
<1>. QED
  BY <1>1, <1>2, <1>3, <1>4, <1>5, <1>6, <1>7, StepInv

LEMMA StartInv ==
    ASSUME IInv, NEW c \in Work, Start(c)
    PROVE  IInv'
<1>. USE DEF Start, Goto, walletVars, goalVars, recordVars
<1>1. TypeOK' /\ InFlightCovered'
  BY DEF IInv, TypeOK, WalletsTypeOK, InFlightCovered, Seen, Ended, Question
<1>2. /\ pc' = [pc EXCEPT ![c] = pc'[c]]
      /\ pc'[c] \in {"locking", "reading"}
      /\ pc[c] = "idle"
      /\ asked'[c].target \in Creation
      /\ \A d \in Work \ {c} : asked'[d] = asked[d]
  BY DEF IInv, TypeOK
<1>3. WorkInStep(c)' /\ ReadingValid(c)'
  BY <1>2 DEF WorkInStep, ReadingValid, Target
<1>4. MovesInStep(c)'
  BY <1>2 DEF MovesInStep, IInv, InFlightIsMove, InFlight
<1>5. GoalsInStep'
  BY <1>2 DEF GoalsInStep, IInv, CallsInStep, TypeOK
<1>6. LeavesOthers(c) /\ Posts(c)
  <2>1. LeavesOthers(c)
    BY <1>2 DEF LeavesOthers, IInv, TypeOK
  <2>2. ledger' = ledger /\ notices' = notices
    OBVIOUS
  <2>. QED
    BY <1>2, <2>1, <2>2 DEF Posts
<1>. QED
  BY <1>1, <1>3, <1>4, <1>5, <1>6, StepInv

(* The steps that only read, or lock a goal: what is read is a goal's row, *)
(* and a contribution goes on only with its lock and a permitted amount.   *)
LEMMA ReadingStepInv ==
    ASSUME IInv, NEW c \in Work, LockGoal(c) \/ ReadGoal(c) \/ FindMembership(c)
    PROVE  IInv'
<1>. USE DEF LockGoal, ReadGoal, FindMembership, Goto, walletVars, goalVars, recordVars
<1>1. /\ Target(c) \in Creation
      /\ c \in Call
      /\ Target(c)' = Target(c)
      /\ goal[Target(c)] \in Row
      /\ ReadingOf(Target(c)) \in Reading
  BY WorkerFacts DEF Ended, Target
<1>2. TypeOK' /\ InFlightCovered'
  <2>1. InFlightCovered'
    BY DEF IInv, InFlightCovered, Seen
  <2>2. WalletsTypeOK' /\ pc' \in [Call -> {"idle", "inserting", "locking",
            "debiting", "saving", "reading", "editing", "refunding", "vouching",
            "removing"} \cup Ended]
    BY <1>1 DEF IInv, TypeOK, WalletsTypeOK, Ended
  <2>3. seen' \in [Work -> Reading] /\ locker' \in [Creation -> Work \cup {Nobody}]
    BY <1>1 DEF IInv, TypeOK
  <2>. QED
    BY <2>1, <2>2, <2>3 DEF IInv, TypeOK
<1>3. /\ \A d \in Call \ {c} : pc'[d] = pc[d]
      /\ \A d \in Work \ {c} : seen'[d] = seen[d]
      /\ pc[c] \in {"locking", "reading", "vouching"}
      /\ pc'[c] \in {"debiting", "editing", "refunding", "removing"}
  BY DEF IInv, TypeOK
<1>4. WorkInStep(c)'
  <2>1. MayContribute(c) => asked[c].amount \in 1 .. MaxContribution
    BY DEF MayContribute
  <2>2. LockGoal(c) \/ ReadGoal(c) => goal[Target(c)].status = "open"
    OBVIOUS
  <2>3. FindMembership(c) => goal[Target(c)].status # "absent"
    BY DEF IInv, CallsInStep, WorkInStep
  <2>4. pc'[c] = "refunding" => seen'[c].current > 0
    BY <1>1 DEF IInv, TypeOK, ReadingOf
  <2>5. pc'[c] = "debiting" => LockGoal(c)
    BY DEF IInv, TypeOK
  <2>. QED
    BY <1>1, <1>3, <2>1, <2>2, <2>3, <2>4, <2>5 DEF WorkInStep
<1>5. ReadingValid(c)'
  <2>1. ASSUME pc'[c] = "debiting"
        PROVE  LockGoal(c) /\ locker'[Target(c)] = c /\ seen'[c] = ReadingOf(Target(c))
    BY <2>1, <1>1 DEF IInv, TypeOK
  <2>. QED
    BY <2>1, <1>1, <1>3 DEF ReadingValid, ReadingOf
<1>6. MovesInStep(c)'
  <2>. USE DEF MovesInStep
  <2>1. CASE FindMembership(c)
    BY <2>1, <1>1 DEF IInv, InFlightIsMove, InFlight, Owner, TypeOK
  <2>2. CASE LockGoal(c)
    BY <2>2 DEF IInv, InFlightIsMove, InFlight, TypeOK
  <2>3. CASE ReadGoal(c)
    <3>1. pc'[c] = "removing" => seen'[c].current = 0
      BY <2>3, <1>1 DEF IInv, TypeOK, ReadingOf, Row
    <3>. QED
      BY <2>3, <3>1, <1>3 DEF IInv, InFlightIsMove, InFlight
  <2>. QED
    BY <2>1, <2>2, <2>3
<1>7. GoalsInStep'
  BY <1>3 DEF GoalsInStep, IInv, CallsInStep
<1>8. LeavesOthers(c) /\ Posts(c)
  <2>1. LeavesOthers(c)
    BY <1>1, <1>3 DEF LeavesOthers, IInv, TypeOK
  <2>2. ledger' = ledger /\ notices' = notices
    OBVIOUS
  <2>. QED
    BY <1>3, <2>1, <2>2 DEF Posts
<1>. QED
  BY <1>1, <1>2, <1>4, <1>5, <1>6, <1>7, <1>8, StepInv

(* The two moves of money: what the call changed is what it has in flight. *)
LEMMA MoveInv ==
    ASSUME IInv, NEW c \in Work, DebitWallet(c) \/ RefundWallet(c)
    PROVE  IInv'
<1>. USE DEF DebitWallet, RefundWallet, Goto, goalVars, recordVars
<1>. DEFINE move == IF pc[c] = "debiting" THEN -asked[c].amount ELSE seen[c].current
<1>1. /\ c \in Call
      /\ pc[c] \in {"debiting", "refunding"}
      /\ Target(c) \in Creation
      /\ Owner(c) \in User
      /\ seen[c].current \in Int
      /\ asked[c].amount \in Int
  BY WorkerFacts DEF Ended
<1>2. WalletsInv' /\ Update(c, Owner(c), Idr, move)
  <2>. WalletsInv
    BY DEF IInv, TypeOK, WalletsInv
  <2>1. CASE DebitWallet(c)
    BY <2>1, <1>1, DebitKeepsInv DEF Debit
  <2>2. CASE RefundWallet(c)
    BY <2>2, <1>1, CreditKeepsInv DEF Credit
  <2>. QED
    BY <2>1, <2>2
<1>3. /\ \A d \in Call \ {c} : pc'[d] = pc[d] /\ delta'[d] = delta[d]
      /\ pc'[c] = (IF pc[c] = "debiting" THEN "saving" ELSE "vouching")
      /\ Target(c)' = Target(c)
      /\ Owner(c)' = Owner(c)
  BY <1>1, <1>2 DEF Update, IInv, TypeOK, WalletsTypeOK, Target, Owner
<1>4. TypeOK' /\ InFlightCovered'
  BY <1>1, <1>2, <1>3 DEF WalletsInv, IInv, TypeOK
<1>5. LeavesOthers(c)
  BY <1>3 DEF LeavesOthers
<1>6. Posts(c)
  <2>1. ledger' = ledger /\ notices' = notices
    OBVIOUS
  <2>. QED
    BY <1>1, <2>1 DEF Posts
<1>7. WorkInStep(c)' /\ ReadingValid(c)'
  <2>1. WorkInStep(c) /\ ReadingValid(c)
    BY DEF IInv, CallsInStep, ReadingStaysValid
  <2>. QED
    BY <1>1, <1>3, <2>1 DEF WorkInStep, ReadingValid, ReadingOf, Ended
<1>8. MovesInStep(c)'
  <2>1. ASSUME NEW u \in User, NEW cur \in Currency
        PROVE  delta'[c][u][cur] = InFlight(c, u, cur)'
    <3>1. delta[c][u][cur] = 0
      BY <1>1 DEF IInv, InFlightIsMove, InFlight
    <3>2. delta'[c][u][cur] = IF u = Owner(c) /\ cur = Idr THEN 0 + move ELSE 0
      BY <3>1, <1>1, <1>2 DEF Update, IInv, TypeOK, WalletsTypeOK
    <3>. QED
      BY <3>2, <1>1, <1>3 DEF InFlight
  <2>. QED
    BY <2>1 DEF MovesInStep
<1>9. GoalsInStep'
  BY <1>3 DEF GoalsInStep, IInv, CallsInStep
<1>. QED
  BY <1>1, <1>4, <1>5, <1>6, <1>7, <1>8, <1>9, StepInv

(* A call that ends leaves nothing in flight.                              *)
LEMMA EndInStep ==
    ASSUME IInv, NEW c \in Work, pc[c] \notin Ended \cup {"idle"}, pc'[c] \in Ended,
           delta' = [delta EXCEPT ![c] = NoDelta] \/ (delta' = delta /\ pc[c] = "editing")
    PROVE  WorkInStep(c)' /\ ReadingValid(c)' /\ MovesInStep(c)'
<1>1. MovesInStep(c)'
  <2>1. ASSUME NEW u \in User, NEW cur \in Currency
        PROVE  delta'[c][u][cur] = 0
    <3>1. CASE delta' = delta /\ pc[c] = "editing"
      BY <3>1 DEF IInv, InFlightIsMove, InFlight
    <3>2. CASE delta' = [delta EXCEPT ![c] = NoDelta]
      BY <3>2 DEF IInv, TypeOK, WalletsTypeOK, NoDelta
    <3>. QED
      BY <3>1, <3>2
  <2>. QED
    BY <2>1 DEF MovesInStep, InFlight, Ended
<1>. QED
  BY <1>1 DEF WorkInStep, ReadingValid, Ended

LEMMA RollbackInv ==
    ASSUME IInv, NEW c \in Work, pc[c] \notin Ended \cup {"idle"}, Rollback(c)
    PROVE  IInv'
<1>. USE DEF Rollback, Goto, Unlock, recordVars
<1>1. c \in Call /\ pc' = [pc EXCEPT ![c] = "failed"] /\ pc'[c] = "failed"
  BY DEF IInv, TypeOK
<1>2. WalletsInv' /\ delta' = [delta EXCEPT ![c] = NoDelta]
  BY <1>1, RollbackKeepsInv DEF IInv, TypeOK, WalletsInv, RollbackWallets
<1>3. TypeOK' /\ InFlightCovered'
  <2>1. locker' \in [Creation -> Work \cup {Nobody}]
    BY DEF IInv, TypeOK
  <2>. QED
    BY <1>1, <1>2, <2>1 DEF WalletsInv, IInv, TypeOK, Ended
<1>4. LeavesOthers(c)
  BY <1>1, <1>2 DEF LeavesOthers, IInv, TypeOK, WalletsTypeOK
<1>5. Posts(c)
  <2>1. ledger' = ledger /\ notices' = notices
    OBVIOUS
  <2>. QED
    BY <2>1 DEF Posts, Ended
<1>6. WorkInStep(c)' /\ ReadingValid(c)' /\ MovesInStep(c)'
  BY <1>1, <1>2, EndInStep DEF Ended
<1>7. GoalsInStep'
  BY <1>1 DEF GoalsInStep, IInv, CallsInStep, TypeOK
<1>. QED
  BY <1>1, <1>3, <1>4, <1>5, <1>6, <1>7, StepInv

(* The steps that write a goal row.  What SaveContribution writes is the   *)
(* row it has locked.                                                      *)
LEMMA SaveInv ==
    ASSUME IInv, NEW c \in Work, SaveContribution(c)
    PROVE  IInv'
<1>. USE DEF SaveContribution, Goto, Unlock
<1>. DEFINE g == Target(c)
            new == Capped(seen[c].target, seen[c].current + asked[c].amount)
<1>1. /\ c \in Call
      /\ pc[c] = "saving"
      /\ g \in Creation
      /\ seen[c].current \in Nat /\ seen[c].target \in Nat
      /\ asked[c].amount \in Nat
      /\ locker[g] = c
      /\ goal[g] \in Row
  <2>1. pc[c] \notin Ended \cup {"idle"}
    BY DEF Ended
  <2>2. ReadingValid(c) /\ WorkInStep(c)
    BY DEF IInv, ReadingStaysValid, CallsInStep
  <2>3. asked[c].amount \in Nat
    BY <2>2 DEF WorkInStep
  <2>. QED
    BY <2>1, <2>2, <2>3, WorkerFacts DEF ReadingValid
<1>2. pc' = [pc EXCEPT ![c] = "done"] /\ pc'[c] = "done"
  BY <1>1 DEF IInv, TypeOK
<1>3. WalletsInv' /\ delta' = [delta EXCEPT ![c] = NoDelta]
  BY <1>1, CommitKeepsInv DEF IInv, TypeOK, WalletsInv, CommitWallets
<1>4. new \in Nat
  BY <1>1 DEF Capped
<1>5. PICK n \in Nat, b \in BOOLEAN :
        goal' = [goal EXCEPT ![g] = [goal[g] EXCEPT !.current = n, !.completed = b]]
  <2>1. goal' = [goal EXCEPT ![g] = [goal[g] EXCEPT !.current = new,
                                     !.completed = (new = seen[c].target)]]
    BY <1>1 DEF IInv, TypeOK
  <2>. QED
    BY <1>4, <2>1
<1>6. [goal[g] EXCEPT !.current = n, !.completed = b] \in Row
  BY <1>1 DEF Row
<1>7. TypeOK' /\ InFlightCovered'
  <2>1. goal' \in [Creation -> Row]
    BY <1>5, <1>6 DEF IInv, TypeOK
  <2>2. locker' \in [Creation -> Work \cup {Nobody}]
    BY DEF IInv, TypeOK
  <2>3. notices' \subseteq Notice
    <3>1. \A m \in Crossed(seen[c].current, new, seen[c].target) :
            [about |-> g, milestone |-> m, call |-> c] \in Notice
      BY <1>1 DEF Crossed, Notice
    <3>. QED
      BY <3>1 DEF IInv, TypeOK
  <2>. QED
    BY <1>2, <1>3, <2>1, <2>2, <2>3 DEF WalletsInv, IInv, TypeOK, Ended
<1>8. LeavesOthers(c)
  <2>1. \A h \in Creation :
            /\ goal'[h].owner = goal[h].owner
            /\ h # g => goal'[h] = goal[h]
    BY <1>1, <1>5 DEF IInv, TypeOK, Row
  <2>2. \A h \in Creation : locker[h] # c => locker'[h] = locker[h]
    OBVIOUS
  <2>. QED
    BY <1>1, <1>2, <1>3, <2>1, <2>2 DEF LeavesOthers, IInv, TypeOK, WalletsTypeOK
<1>9. Posts(c)
  BY <1>2 DEF Posts
<1>10. WorkInStep(c)' /\ ReadingValid(c)' /\ MovesInStep(c)'
  BY <1>1, <1>2, <1>3, EndInStep DEF Ended
<1>11. GoalsInStep'
  <2>1. \A h \in Creation : goal'[h].status = goal[h].status
    BY <1>1, <1>5 DEF IInv, TypeOK, Row
  <2>. QED
    BY <1>2, <2>1 DEF GoalsInStep, IInv, CallsInStep, TypeOK
<1>. QED
  BY <1>1, <1>7, <1>8, <1>9, <1>10, <1>11, StepInv

LEMMA EditInv ==
    ASSUME IInv, NEW c \in Work, EditGoal(c)
    PROVE  IInv'
<1>. USE DEF EditGoal, Goto, recordVars, walletVars
<1>. DEFINE g == Target(c)
<1>1. /\ c \in Call
      /\ pc[c] = "editing"
      /\ g \in Creation
      /\ goal[g] \in Row
      /\ locker[g] = Nobody
  BY WorkerFacts DEF Ended
<1>2. pc' = [pc EXCEPT ![c] = "done"] /\ pc'[c] = "done"
  BY <1>1 DEF IInv, TypeOK
<1>3. PICK t \in TargetAmount, b \in BOOLEAN :
        goal' = [goal EXCEPT ![g] = [goal[g] EXCEPT !.target = t, !.completed = b]]
  <2>1. PICK new \in TargetAmount :
        goal' = [goal EXCEPT ![g].target = IF new = seen[c].target THEN @ ELSE new,
                             ![g].completed =
                                @ \/ (~ seen[c].completed /\ seen[c].current >= new)]
    OBVIOUS
  <2>. DEFINE t == IF new = seen[c].target THEN goal[g].target ELSE new
              b == goal[g].completed \/ (~ seen[c].completed /\ seen[c].current >= new)
  <2>2. t \in TargetAmount /\ b \in BOOLEAN
    BY <1>1 DEF Row
  <2>3. goal' = [goal EXCEPT ![g] = [goal[g] EXCEPT !.target = t, !.completed = b]]
    BY <2>1, <1>1 DEF IInv, TypeOK
  <2>. QED
    BY <2>2, <2>3
<1>4. [goal[g] EXCEPT !.target = t, !.completed = b] \in Row
  BY <1>1 DEF Row
<1>5. TypeOK' /\ InFlightCovered'
  <2>1. goal' \in [Creation -> Row]
    BY <1>3, <1>4 DEF IInv, TypeOK
  <2>2. InFlightCovered' /\ WalletsTypeOK'
    BY DEF IInv, TypeOK, WalletsTypeOK, InFlightCovered, Seen
  <2>. QED
    BY <1>2, <2>1, <2>2 DEF IInv, TypeOK, Ended
<1>6. /\ \A h \in Creation : goal'[h].owner = goal[h].owner
                             /\ goal'[h].status = goal[h].status
                             /\ (h # g => goal'[h] = goal[h])
      /\ delta' = delta /\ locker' = locker
  BY <1>1, <1>3 DEF IInv, TypeOK, Row
<1>7. LeavesOthers(c)
  BY <1>1, <1>2, <1>6 DEF LeavesOthers, IInv, TypeOK
<1>8. Posts(c)
  BY <1>2 DEF Posts
<1>9. WorkInStep(c)' /\ ReadingValid(c)' /\ MovesInStep(c)'
  BY <1>1, <1>2, <1>6, EndInStep DEF Ended
<1>10. GoalsInStep'
  BY <1>2, <1>6 DEF GoalsInStep, IInv, CallsInStep, TypeOK
<1>. QED
  BY <1>1, <1>5, <1>7, <1>8, <1>9, <1>10, StepInv

LEMMA RemoveInv ==
    ASSUME IInv, NEW c \in Work, RemoveGoal(c)
    PROVE  IInv'
<1>. USE DEF RemoveGoal, Goto
<1>. DEFINE g == Target(c)
<1>1. /\ c \in Call
      /\ pc[c] = "removing"
      /\ g \in Creation
      /\ goal[g] \in Row
      /\ goal[g].status # "absent"
      /\ seen[c].current \in Nat
      /\ Owner(c) \in User
      /\ locker[g] = Nobody
  BY WorkerFacts DEF Ended, IInv, CallsInStep, WorkInStep
<1>2. pc' = [pc EXCEPT ![c] = "done"] /\ pc'[c] = "done"
  BY <1>1 DEF IInv, TypeOK
<1>3. WalletsInv' /\ delta' = [delta EXCEPT ![c] = NoDelta]
  BY <1>1, CommitKeepsInv DEF IInv, TypeOK, WalletsInv, CommitWallets
<1>4. goal' = [goal EXCEPT ![g] = [goal[g] EXCEPT !.status = "deleted"]]
  BY <1>1 DEF IInv, TypeOK
<1>5. [goal[g] EXCEPT !.status = "deleted"] \in Row
  BY <1>1 DEF Row
<1>6. TypeOK' /\ InFlightCovered'
  <2>1. goal' \in [Creation -> Row]
    BY <1>4, <1>5 DEF IInv, TypeOK
  <2>2. ledger' \subseteq Entry
    <3>1. EntryOf(c) \in Entry
      BY <1>1 DEF EntryOf, Entry
    <3>. QED
      BY <3>1 DEF IInv, TypeOK
  <2>. QED
    BY <1>2, <1>3, <2>1, <2>2 DEF WalletsInv, IInv, TypeOK, Ended
<1>7. \A h \in Creation : /\ goal'[h].owner = goal[h].owner
                          /\ (h # g => goal'[h] = goal[h])
  BY <1>1, <1>4 DEF IInv, TypeOK, Row
<1>8. LeavesOthers(c)
  BY <1>1, <1>2, <1>3, <1>7 DEF LeavesOthers, IInv, TypeOK, WalletsTypeOK
<1>9. Posts(c)
  <2>1. EntryOf(c).id = c
    BY DEF EntryOf
  <2>. QED
    BY <1>2, <2>1 DEF Posts
<1>10. WorkInStep(c)' /\ ReadingValid(c)' /\ MovesInStep(c)'
  BY <1>1, <1>2, <1>3, EndInStep DEF Ended
<1>11. GoalsInStep'
  <2>1. goal'[g].status = "deleted"
    BY <1>1, <1>4 DEF IInv, TypeOK
  <2>. QED
    BY <1>1, <1>2, <1>7, <2>1 DEF GoalsInStep, IInv, CallsInStep, TypeOK
<1>. QED
  BY <1>1, <1>6, <1>8, <1>9, <1>10, <1>11, StepInv

(* Every step either writes a goal, moves money, reads, or ends with a     *)
(* rollback; nobody's membership matters to the invariant.                 *)
LEMMA AdvanceInv ==
    ASSUME IInv, NEW c \in Work, Advance(c)
    PROVE  IInv'
<1>1. CASE LockGoal(c) \/ ReadGoal(c) \/ FindMembership(c)
  BY <1>1, ReadingStepInv
<1>2. CASE DebitWallet(c) \/ RefundWallet(c)
  BY <1>2, MoveInv
<1>3. CASE SaveContribution(c)
  BY <1>3, SaveInv
<1>4. CASE EditGoal(c)
  BY <1>4, EditInv
<1>5. CASE RemoveGoal(c)
  BY <1>5, RemoveInv
<1>6. CASE \/ GoalNotFound(c)
           \/ RefuseContribution(c)
           \/ InsufficientBalance(c)
           \/ EditFails(c)
           \/ CreditOverflows(c)
           \/ NotInFamily(c)
           \/ DeadlockAbort(c)
  <2>1. Rollback(c) /\ pc[c] \notin Ended \cup {"idle"}
    BY <1>6 DEF GoalNotFound, RefuseContribution, InsufficientBalance, EditFails,
                CreditOverflows, NotInFamily, DeadlockAbort, BlockedBy, Ended
  <2>. QED
    BY <2>1, RollbackInv
<1>. QED
  BY <1>1, <1>2, <1>3, <1>4, <1>5, <1>6 DEF Advance

LEMMA OthersInv ==
    ASSUME IInv, UNCHANGED <<walletVars, goalVars, recordVars, callVars>>,
           member' \subseteq User
    PROVE  IInv'
<1>. USE DEF walletVars, goalVars, recordVars, callVars
<1>1. TypeOK' /\ InFlightCovered'
  BY DEF IInv, TypeOK, WalletsTypeOK, InFlightCovered, Seen
<1>2. CallsInStep'
  BY DEF IInv, CallsInStep, WorkInStep, Target
<1>3. InFlightIsMove'
  BY DEF IInv, InFlightIsMove, InFlight, Owner, Target
<1>4. ReadingStaysValid'
  BY DEF IInv, ReadingStaysValid, ReadingValid, ReadingOf, Target
<1>. QED
  BY <1>1, <1>2, <1>3, <1>4 DEF IInv

LEMMA NextIInv == IInv /\ [Next]_vars => IInv'
<1>. SUFFICES ASSUME IInv, [Next]_vars PROVE IInv'
  OBVIOUS
<1>1. ASSUME NEW g \in Creation, CountGoals(g) \/ InsertGoal(g) PROVE IInv'
  BY <1>1, CreationInv
<1>2. ASSUME NEW c \in Work, Start(c) PROVE IInv'
  BY <1>2, StartInv
<1>3. ASSUME NEW c \in Work, Advance(c) PROVE IInv'
  BY <1>3, AdvanceInv
<1>4. ASSUME NEW c \in Call, CutOff(c) PROVE IInv'
  <2>1. CASE c \in Work
    BY <1>4, <2>1, RollbackInv DEF CutOff
  <2>2. CASE c \notin Work
    BY <1>4, <2>2, CreationInv
  <2>. QED
    BY <2>1, <2>2
<1>5. ASSUME NEW u \in User, RemoveMember(u) PROVE IInv'
  <2>1. member' \subseteq User
    BY <1>5 DEF RemoveMember, IInv, TypeOK
  <2>. QED
    BY <1>5, <2>1, OthersInv DEF RemoveMember
<1>6. CASE AllEnded \/ UNCHANGED vars
  <2>1. member' \subseteq User
    BY <1>6 DEF AllEnded, vars, IInv, TypeOK
  <2>. QED
    BY <1>6, <2>1, OthersInv DEF AllEnded, vars
<1>. QED
  BY <1>1, <1>2, <1>3, <1>4, <1>5, <1>6 DEF Next

(* Wallets never overdrawn, every goal in step with the calls on it.       *)
THEOREM Invariance == Spec => []IInv
BY InitIInv, NextIInv, PTL DEF Spec

(* What contribute reads under its lock stays the committed row until it   *)
(* writes it.                                                              *)
THEOREM ReadingsStayValid == Spec => []ReadingStaysValid
<1>1. IInv => ReadingStaysValid
  BY DEF IInv
<1>. QED
  BY <1>1, Invariance, PTL

-----------------------------------------------------------------------------
(* What a commit does to money and goals                                   *)

(* Only these steps change a wallet, a goal's amount or a notification.    *)
LEMMA WhoWrites ==
    ASSUME IInv, [Next]_vars
    PROVE  \/ \E c \in Work : SaveContribution(c)
           \/ \E c \in Work : RemoveGoal(c)
           \/ /\ balance' = balance /\ notices' = notices
              /\ \A g \in Creation : goal'[g].current = goal[g].current
<1>1. ASSUME NEW g \in Creation, CountGoals(g) \/ InsertGoal(g)
      PROVE  /\ balance' = balance /\ notices' = notices
             /\ \A h \in Creation : goal'[h].current = goal[h].current
  BY <1>1 DEF CountGoals, InsertGoal, walletVars, recordVars, goalVars, IInv, TypeOK, Row
<1>2. ASSUME NEW c \in Work, EditGoal(c)
      PROVE  /\ balance' = balance /\ notices' = notices
             /\ \A h \in Creation : goal'[h].current = goal[h].current
  <2>1. PICK new \in TargetAmount :
        goal' = [goal EXCEPT
            ![Target(c)].target = IF new = seen[c].target THEN @ ELSE new,
            ![Target(c)].completed =
                @ \/ (~ seen[c].completed /\ seen[c].current >= new)]
    BY <1>2 DEF EditGoal
  <2>. QED
    BY <1>2, <2>1 DEF EditGoal, walletVars, recordVars, IInv, TypeOK, Row
<1>3. ASSUME NEW c \in Call,
             \/ CutOff(c)
             \/ c \in Work /\ Start(c)
             \/ c \in Work /\ Advance(c) /\ ~ SaveContribution(c)
                    /\ ~ RemoveGoal(c) /\ ~ EditGoal(c)
      PROVE  balance' = balance /\ notices' = notices /\ goal' = goal
  BY <1>3 DEF CutOff, Start, Advance, LockGoal, ReadGoal, FindMembership, GoalNotFound,
        RefuseContribution, InsufficientBalance, EditFails, CreditOverflows, NotInFamily,
        DeadlockAbort, Rollback, RollbackWallets, DebitWallet, RefundWallet, Debit, Credit,
        Update, walletVars, goalVars, recordVars
<1>4. ASSUME \/ \E u \in User : RemoveMember(u)
             \/ AllEnded
             \/ UNCHANGED vars
      PROVE  balance' = balance /\ notices' = notices /\ goal' = goal
  BY <1>4 DEF RemoveMember, AllEnded, vars, walletVars, goalVars, recordVars
<1>. QED
  BY <1>1, <1>2, <1>3, <1>4 DEF Next

(* An amount that stays what it was crosses no milestone.                  *)
LEMMA CrossedNothing ==
    ASSUME NEW x \in Nat, NEW t \in Nat PROVE Crossed(x, x, t) = {}
<1>1. ASSUME NEW m \in Milestones PROVE ~ (x * 100 < m * t /\ m * t <= x * 100)
  <2>1. m \in Nat
    BY DEF Milestones
  <2>2. m * t \in Nat /\ x * 100 \in Nat
    BY <2>1
  <2>. QED
    BY <2>2
<1>. QED
  BY <1>1 DEF Crossed

(* SaveContribution, seen from the committed rows.                         *)
LEMMA SaveFacts ==
    ASSUME IInv, NEW c \in Work, SaveContribution(c)
    PROVE  /\ c \in Call /\ pc[c] = "saving"
           /\ Target(c) \in Creation
           /\ Owner(c) \in User
           /\ goal[Target(c)].current \in Nat /\ goal[Target(c)].target \in Nat
           /\ asked[c].amount \in Nat \ {0}
           /\ seen[c].current = goal[Target(c)].current
           /\ seen[c].target = goal[Target(c)].target
           /\ goal'[Target(c)].current =
                Capped(goal[Target(c)].target, goal[Target(c)].current + asked[c].amount)
           /\ \A h \in Creation \ {Target(c)} : goal'[h] = goal[h]
           /\ \A u \in User : balance'[u][Idr] = balance[u][Idr] -
                (IF u = Owner(c) THEN asked[c].amount ELSE 0)
<1>1. pc[c] = "saving" /\ pc[c] \notin Ended \cup {"idle"}
  BY DEF SaveContribution, Ended
<1>2. /\ c \in Call
      /\ Target(c) \in Creation
      /\ goal[Target(c)] \in Row
      /\ Owner(c) \in User
  BY <1>1, WorkerFacts
<1>3. goal[Target(c)].current \in Nat /\ goal[Target(c)].target \in Nat
  BY <1>2 DEF Row
<1>4. asked[c].amount \in Nat \ {0}
  BY <1>1 DEF IInv, CallsInStep, WorkInStep
<1>5. /\ seen[c].current = goal[Target(c)].current
      /\ seen[c].target = goal[Target(c)].target
  <2>1. seen[c] = ReadingOf(Target(c))
    BY <1>1 DEF IInv, ReadingStaysValid, ReadingValid
  <2>. QED
    BY <2>1 DEF ReadingOf
<1>6. /\ goal'[Target(c)].current =
            Capped(goal[Target(c)].target, goal[Target(c)].current + asked[c].amount)
      /\ \A h \in Creation \ {Target(c)} : goal'[h] = goal[h]
  BY <1>2, <1>5 DEF SaveContribution, IInv, TypeOK, Row
<1>7. ASSUME NEW u \in User
      PROVE  balance'[u][Idr] = balance[u][Idr] -
                (IF u = Owner(c) THEN asked[c].amount ELSE 0)
  <2>1. balance'[u][Idr] = balance[u][Idr] + delta[c][u][Idr]
    BY DEF SaveContribution, CommitWallets, Seen
  <2>2. delta[c][u][Idr] = IF u = Owner(c) THEN -asked[c].amount ELSE 0
    BY <1>1 DEF IInv, InFlightIsMove, InFlight
  <2>3. balance[u][Idr] \in Int
    BY DEF IInv, TypeOK, WalletsTypeOK, Purses
  <2>. QED
    BY <1>4, <2>1, <2>2, <2>3
<1>. QED
  BY <1>1, <1>2, <1>3, <1>4, <1>5, <1>6, <1>7

LEMMA RemoveFacts ==
    ASSUME IInv, NEW c \in Work, RemoveGoal(c)
    PROVE  /\ c \in Call /\ pc[c] = "removing"
           /\ notices' = notices
           /\ \A h \in Creation : goal'[h].current = goal[h].current
           /\ seen[c].current \in Nat
           /\ \A u \in User : balance'[u][Idr] = balance[u][Idr] +
                (IF u = Owner(c) THEN seen[c].current ELSE 0)
<1>1. pc[c] = "removing" /\ pc[c] \notin Ended \cup {"idle"}
  BY DEF RemoveGoal, Ended
<1>2. /\ c \in Call
      /\ Target(c) \in Creation
      /\ seen[c].current \in Nat
  BY <1>1, WorkerFacts
<1>3. \A h \in Creation : goal'[h].current = goal[h].current
  BY <1>2 DEF RemoveGoal, IInv, TypeOK, Row
<1>4. ASSUME NEW u \in User
      PROVE  balance'[u][Idr] = balance[u][Idr] +
                (IF u = Owner(c) THEN seen[c].current ELSE 0)
  <2>1. balance'[u][Idr] = balance[u][Idr] + delta[c][u][Idr]
    BY DEF RemoveGoal, CommitWallets, Seen
  <2>2. delta[c][u][Idr] = IF u = Owner(c) THEN seen[c].current ELSE 0
    BY <1>1 DEF IInv, InFlightIsMove, InFlight
  <2>. QED
    BY <2>1, <2>2
<1>. QED
  BY <1>1, <1>2, <1>3, <1>4 DEF RemoveGoal

(* What a wallet loses is what its goal gains, up to the target.           *)
THEOREM ContributionsAllCount == Spec => ContributionsCount
<1>1. ASSUME IInv, [Next]_vars, NEW g \in Creation, goal'[g].current # goal[g].current
      PROVE  LET u == goal[g].owner
                 paid == balance[u][Idr] - balance'[u][Idr]
             IN  /\ paid > 0
                 /\ goal'[g].current = Capped(goal[g].target, goal[g].current + paid)
  <2>1. PICK c \in Work : SaveContribution(c)
    BY <1>1, WhoWrites, RemoveFacts
  <2>2. g = Target(c) /\ goal[g].owner = Owner(c)
    BY <1>1, <2>1, SaveFacts DEF Owner
  <2>3. balance[Owner(c)][Idr] \in Int
    BY <1>1, <2>1, SaveFacts DEF IInv, TypeOK, WalletsTypeOK, Purses
  <2>4. balance[Owner(c)][Idr] - balance'[Owner(c)][Idr] = asked[c].amount
    BY <1>1, <2>1, <2>3, SaveFacts
  <2>. QED
    BY <1>1, <2>1, <2>2, <2>4, SaveFacts
<1>2. IInv /\ [Next]_vars =>
        [\A g \in Creation : goal'[g].current # goal[g].current =>
            LET u == goal[g].owner
                paid == balance[u][Idr] - balance'[u][Idr]
            IN  /\ paid > 0
                /\ goal'[g].current = Capped(goal[g].target, goal[g].current + paid)]_goal
  BY <1>1
<1>. QED
  BY <1>2, Invariance, PTL DEF Spec, ContributionsCount

(* Nothing comes back into a wallet without its record.                    *)
THEOREM RefundsAreRecorded == Spec => RefundsRecorded
<1>1. ASSUME IInv, [Next]_vars, NEW u \in User, balance'[u][Idr] > balance[u][Idr]
      PROVE  \E e \in ledger' \ ledger :
                /\ e.destination = u
                /\ balance'[u][Idr] = balance[u][Idr] + e.amount
  <2>1. balance[u][Idr] \in Int
    BY <1>1 DEF IInv, TypeOK, WalletsTypeOK, Purses
  <2>2. ~ \E c \in Work : SaveContribution(c)
    BY <1>1, <2>1, SaveFacts
  <2>3. PICK c \in Work : RemoveGoal(c)
    BY <1>1, <2>1, <2>2, WhoWrites
  <2>4. u = Owner(c) /\ seen[c].current > 0
    BY <1>1, <2>1, <2>3, RemoveFacts
  <2>5. EntryOf(c) \in ledger'
    BY <2>3, <2>4 DEF RemoveGoal
  <2>6. EntryOf(c) \notin ledger
    BY <1>1, <2>3, RemoveFacts DEF IInv, CallsInStep, EntryOf
  <2>7. EntryOf(c).destination = u /\ EntryOf(c).amount = seen[c].current
    BY <2>4 DEF EntryOf
  <2>. QED
    BY <1>1, <2>3, <2>4, <2>5, <2>6, <2>7, RemoveFacts
<1>2. IInv /\ [Next]_vars =>
        [\A u \in User : balance'[u][Idr] > balance[u][Idr] =>
            \E e \in ledger' \ ledger :
                /\ e.destination = u
                /\ balance'[u][Idr] = balance[u][Idr] + e.amount]_balance
  BY <1>1
<1>. QED
  BY <1>2, Invariance, PTL DEF Spec, RefundsRecorded

(* No milestone is told twice, none is skipped.                            *)
THEOREM MilestonesAllMatch == Spec => MilestonesMatch
<1>. DEFINE Told(g) == {n.milestone : n \in {m \in notices' \ notices : m.about = g}}
<1>1. ASSUME IInv, [Next]_vars, NEW g \in Creation
      PROVE  Told(g) = Crossed(goal[g].current, goal'[g].current, goal[g].target)
  <2>1. goal[g].current \in Nat /\ goal[g].target \in Nat
    BY <1>1 DEF IInv, TypeOK, Row
  <2>2. CASE notices' = notices /\ goal'[g].current = goal[g].current
    <3>1. Told(g) = {}
      BY <2>2
    <3>. QED
      BY <2>1, <2>2, <3>1, CrossedNothing
  <2>3. ASSUME NEW c \in Work, SaveContribution(c)
        PROVE  Told(g) = Crossed(goal[g].current, goal'[g].current, goal[g].target)
    <3>. DEFINE Passed == Crossed(seen[c].current,
                    Capped(seen[c].target, seen[c].current + asked[c].amount),
                    seen[c].target)
    <3>1. notices' = notices \cup
            {[about |-> Target(c), milestone |-> m, call |-> c] : m \in Passed}
      BY <2>3 DEF SaveContribution
    <3>2. \A n \in notices : n.call # c
      BY <1>1, <2>3, SaveFacts DEF IInv, CallsInStep
    <3>3. notices' \ notices =
            {[about |-> Target(c), milestone |-> m, call |-> c] : m \in Passed}
      BY <3>1, <3>2
    <3>4. CASE g = Target(c)
      <4>1. Told(g) = Passed
        <5>. HIDE DEF Passed
        <5>1. {m \in notices' \ notices : m.about = g} =
                {[about |-> Target(c), milestone |-> m, call |-> c] : m \in Passed}
          BY <3>3, <3>4
        <5>2. Told(g) = {n.milestone : n \in
                {[about |-> Target(c), milestone |-> m, call |-> c] : m \in Passed}}
          BY <5>1
        <5>3. \A x \in Told(g) : x \in Passed
          BY <5>2
        <5>4. ASSUME NEW m \in Passed PROVE m \in Told(g)
          <6>1. [about |-> Target(c), milestone |-> m, call |-> c].milestone = m
            OBVIOUS
          <6>. QED
            BY <5>2, <6>1
        <5>. QED
          BY <5>3, <5>4
      <4>2. Passed = Crossed(goal[g].current, goal'[g].current, goal[g].target)
        BY <1>1, <2>3, <3>4, SaveFacts
      <4>. QED
        BY <4>1, <4>2
    <3>5. CASE g # Target(c)
      <4>1. Told(g) = {}
        BY <3>3, <3>5
      <4>2. goal'[g].current = goal[g].current
        BY <1>1, <2>3, <3>5, SaveFacts
      <4>. QED
        BY <2>1, <4>1, <4>2, CrossedNothing
    <3>. QED
      BY <3>4, <3>5
  <2>. QED
    BY <1>1, <2>2, <2>3, WhoWrites, RemoveFacts
<1>2. IInv /\ [Next]_vars =>
        [\A g \in Creation : Told(g) =
            Crossed(goal[g].current, goal'[g].current, goal[g].target)]_<<goal, notices>>
  BY <1>1
<1>. QED
  BY <1>2, Invariance, PTL DEF Spec, MilestonesMatch
=============================================================================
