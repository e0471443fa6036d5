---------------------------- MODULE SavingsGoals ----------------------------
(***************************************************************************)
(* services/savings_goal_service.py: a child puts money aside in goals.    *)
(* contribute locks the goal row and then updates the wallet; update_goal  *)
(* and delete_goal read the goal without a lock, and delete_goal refunds   *)
(* the wallet before it deletes the row.  Amounts are whole cents: a       *)
(* request with more decimals than the columns is not modelled.            *)
(*                                                                         *)
(* A goal is named by the call that creates it.  Every query names the     *)
(* owner too, so somebody else's goal is as good as absent.                *)
(***************************************************************************)
EXTENDS Wallets, FiniteSets

CONSTANTS
    Creation,         \* calls POST /savings-goals
    Work,             \* calls to contribute to, update or delete a goal
    Amount,           \* contributions asked for
    TargetAmount,     \* targets of goals
    MaxContribution,  \* the cap on one contribution
    MaxGoals,         \* MAX_GOALS_PER_USER
    Idr,              \* Currency.IDR
    Opening           \* the balances before the first call

ASSUME SavingsGoalsAssumption ==
    /\ Call = Creation \cup Work
    /\ Creation \cap Work = {}
    /\ Amount \subseteq Int
    /\ TargetAmount \subseteq Nat \ {0}
    /\ MaxContribution \in Nat
    /\ MaxGoals \in Nat \ {0}
    /\ Idr \in Currency
    /\ Opening \in Purses

VARIABLES
    goal,      \* rows of savings_goals
    locker,    \* the call that holds the lock on a goal row
    ledger,    \* committed rows of transactions
    notices,   \* committed milestone notifications
    member,    \* the users with an active membership of a family
    asked,     \* what a call was asked to do
    seen,      \* the goal row a call has read
    pc         \* how far each call has come

goalVars == <<goal, locker>>
recordVars == <<ledger, notices>>
callVars == <<asked, seen, pc>>
vars == <<walletVars, goalVars, recordVars, member, callVars>>

Row == [status : {"absent", "open", "deleted"}, owner : User,
        target : TargetAmount, current : Nat, completed : BOOLEAN]

Question == [op : {"none", "contribute", "update", "delete"},
             target : Creation \cup {Nobody}, amount : Amount \cup {0}]

Unasked == [op |-> "none", target |-> Nobody, amount |-> 0]

(* What a call has read of its goal.                                       *)
Reading == [target : TargetAmount \cup {0}, current : Nat, completed : BOOLEAN]
Unread == [target |-> 0, current |-> 0, completed |-> FALSE]
ReadingOf(g) == [target |-> goal[g].target, current |-> goal[g].current,
                 completed |-> goal[g].completed]

Milestones == {25, 50, 75, 100}

Notice == [about : Creation, milestone : Milestones, call : Work]

Entry == [id : Work, source : {Nobody}, destination : User, amount : Nat,
          currency : {Idr}, reference : Creation]

Ended == {"done", "failed"}

TypeOK ==
    /\ WalletsTypeOK
    /\ goal \in [Creation -> Row]
    /\ locker \in [Creation -> Work \cup {Nobody}]
    /\ ledger \subseteq Entry
    /\ notices \subseteq Notice
    /\ member \subseteq User
    /\ asked \in [Work -> Question]
    /\ seen \in [Work -> Reading]
    /\ pc \in [Call -> {"idle", "inserting", "locking", "debiting", "saving",
                        "reading", "editing", "refunding", "vouching",
                        "removing"} \cup Ended]

Init ==
    /\ WalletsInit(Opening)
    /\ goal \in [Creation -> {[status |-> "absent", owner |-> u, target |-> t,
                              current |-> 0, completed |-> FALSE] :
                                u \in User, t \in TargetAmount}]
    /\ locker = [g \in Creation |-> Nobody]
    /\ ledger = {}
    /\ notices = {}
    /\ member = User
    /\ asked = [c \in Work |-> Unasked]
    /\ seen = [c \in Work |-> Unread]
    /\ pc = [c \in Call |-> "idle"]

Goto(c, label) == pc' = [pc EXCEPT ![c] = label]

Target(c) == asked[c].target
Owner(c) == goal[Target(c)].owner

Unlock(c) ==
    locker' = [g \in Creation |-> IF locker[g] = c THEN Nobody ELSE locker[g]]

(* Slip: a session goes back to the pool with its transaction open.        *)
RollbackHoldingRow(c) ==
    /\ RollbackWallets(c)
    /\ Goto(c, "failed")
    /\ UNCHANGED <<goalVars, recordVars, member, asked, seen>>

Rollback(c) ==
    /\ RollbackWallets(c)
    /\ Unlock(c)
    /\ Goto(c, "failed")
    /\ UNCHANGED <<goal, recordVars, member, asked, seen>>

-----------------------------------------------------------------------------
(* create_goal                                                             *)

GoalsOf(u) == {g \in Creation : goal[g].status = "open" /\ goal[g].owner = u}

CountGoals(g) ==
    /\ pc[g] = "idle"
    /\ Goto(g, IF Cardinality(GoalsOf(goal[g].owner)) >= MaxGoals
               THEN "failed" ELSE "inserting")
    /\ UNCHANGED <<walletVars, goalVars, recordVars, member, asked, seen>>

InsertGoal(g) ==
    /\ pc[g] = "inserting"
    /\ goal' = [goal EXCEPT ![g].status = "open"]
    /\ Goto(g, "done")
    /\ UNCHANGED <<walletVars, locker, recordVars, member, asked, seen>>

-----------------------------------------------------------------------------
(* A call to contribute, update or delete arrives.                         *)
Start(c) ==
    /\ pc[c] = "idle"
    /\ \E op \in {"contribute", "update", "delete"}, g \in Creation,
          amount \in Amount \cup {0} :
        /\ op # "contribute" => amount = 0
        /\ asked' = [asked EXCEPT ![c] = [op |-> op, target |-> g, amount |-> amount]]
        /\ Goto(c, IF op = "contribute" THEN "locking" ELSE "reading")
    /\ UNCHANGED <<walletVars, goalVars, recordVars, member, seen>>

GoalNotFound(c) ==
    /\ pc[c] \in {"locking", "reading"}
    /\ goal[Target(c)].status # "open"
    /\ Rollback(c)

-----------------------------------------------------------------------------
(* contribute                                                              *)

MayContribute(c) ==
    /\ ~ goal[Target(c)].completed
    /\ asked[c].amount \in 1 .. MaxContribution

(* Slip: a plain SELECT.                                                   *)
LockGoalUnlocked(c) ==
    /\ pc[c] = "locking"
    /\ goal[Target(c)].status = "open"
    /\ MayContribute(c)
    /\ locker' = [locker EXCEPT ![Target(c)] = c]
    /\ seen' = [seen EXCEPT ![c] = ReadingOf(Target(c))]
    /\ Goto(c, "debiting")
    /\ UNCHANGED <<walletVars, goal, recordVars, member, asked>>

(* SELECT ... FOR UPDATE waits for the row, reads it, and the checks pass. *)
LockGoal(c) ==
    /\ pc[c] = "locking"
    /\ goal[Target(c)].status = "open"
    /\ locker[Target(c)] = Nobody
    /\ MayContribute(c)
    /\ locker' = [locker EXCEPT ![Target(c)] = c]
    /\ seen' = [seen EXCEPT ![c] = ReadingOf(Target(c))]
    /\ Goto(c, "debiting")
    /\ UNCHANGED <<walletVars, goal, recordVars, member, asked>>

RefuseContribution(c) ==
    /\ pc[c] = "locking"
    /\ goal[Target(c)].status = "open"
    /\ locker[Target(c)] = Nobody
    /\ ~ MayContribute(c)
    /\ Rollback(c)

DebitWallet(c) ==
    /\ pc[c] = "debiting"
    /\ Debit(c, Owner(c), Idr, asked[c].amount)
    /\ Goto(c, "saving")
    /\ UNCHANGED <<goalVars, recordVars, member, asked, seen>>

InsufficientBalance(c) ==
    /\ pc[c] = "debiting"
    /\ DebitFails(c, Owner(c), Idr, asked[c].amount)
    /\ Rollback(c)

Capped(target, amount) == IF amount >= target THEN target ELSE amount

(* Slip: old_percentage <= milestone.                                      *)
CrossedAgain(old, new, target) ==
    {m \in Milestones : old * 100 <= m * target /\ m * target <= new * 100}

(* old_percentage < milestone <= new_percentage                            *)
Crossed(old, new, target) ==
    {m \in Milestones : old * 100 < m * target /\ m * target <= new * 100}

(* UPDATE the goal from what was read, notify, commit.                     *)
SaveContribution(c) ==
    /\ pc[c] = "saving"
    /\ LET g == Target(c)
           new == Capped(seen[c].target, seen[c].current + asked[c].amount)
       IN  /\ goal' = [goal EXCEPT ![g].current = new,
                                   ![g].completed = (new = seen[c].target)]
           /\ notices' = notices \cup
                {[about |-> g, milestone |-> m, call |-> c] :
                    m \in Crossed(seen[c].current, new, seen[c].target)}
    /\ CommitWallets(c)
    /\ Unlock(c)
    /\ Goto(c, "done")
    /\ UNCHANGED <<ledger, member, asked, seen>>

-----------------------------------------------------------------------------
(* update_goal and delete_goal: _get_goal_or_404 reads without a lock      *)

ReadGoal(c) ==
    /\ pc[c] = "reading"
    /\ goal[Target(c)].status = "open"
    /\ seen' = [seen EXCEPT ![c] = ReadingOf(Target(c))]
    /\ Goto(c, IF asked[c].op = "update" THEN "editing"
               ELSE IF goal[Target(c)].current > 0 THEN "refunding"
               ELSE "removing")
    /\ UNCHANGED <<walletVars, goalVars, recordVars, member, asked>>

(* The UPDATE waits for the row and names the columns that differ from     *)
(* what was read; the name alone may change (new is the target read).      *)
EditGoal(c) ==
    /\ pc[c] = "editing"
    /\ goal[Target(c)].status = "open"
    /\ locker[Target(c)] = Nobody
    /\ \E new \in TargetAmount :
        /\ new >= seen[c].current
        /\ goal' = [goal EXCEPT
            ![Target(c)].target = IF new = seen[c].target THEN @ ELSE new,
            ![Target(c)].completed =
                @ \/ (~ seen[c].completed /\ seen[c].current >= new)]
    /\ Goto(c, "done")
    /\ UNCHANGED <<walletVars, locker, recordVars, member, asked, seen>>

(* INVALID_TARGET, or the UPDATE finds no row (StaleDataError).            *)
EditFails(c) ==
    /\ pc[c] = "editing"
    /\ \/ \E new \in TargetAmount : new < seen[c].current
       \/ goal[Target(c)].status # "open"
    /\ Rollback(c)

RefundWallet(c) ==
    /\ pc[c] = "refunding"
    /\ Credit(c, Owner(c), Idr, seen[c].current)
    /\ Goto(c, "vouching")
    /\ UNCHANGED <<goalVars, recordVars, member, asked, seen>>

CreditOverflows(c) ==
    /\ pc[c] = "refunding"
    /\ CreditFails(c, Owner(c), Idr, seen[c].current)
    /\ Rollback(c)

(* get_active_family_membership, for the family_id of the refund's record. *)
FindMembership(c) ==
    /\ pc[c] = "vouching"
    /\ Owner(c) \in member
    /\ Goto(c, "removing")
    /\ UNCHANGED <<walletVars, goalVars, recordVars, member, asked, seen>>

NotInFamily(c) ==
    /\ pc[c] = "vouching"
    /\ Owner(c) \notin member
    /\ Rollback(c)

(* Slip: the record is made from a fresh read of the goal.                 *)
EntryReread(c) ==
    [id |-> c, source |-> Nobody, destination |-> Owner(c),
     amount |-> goal[Target(c)].current, currency |-> Idr,
     reference |-> Target(c)]

EntryOf(c) ==
    [id |-> c, source |-> Nobody, destination |-> Owner(c),
     amount |-> seen[c].current, currency |-> Idr, reference |-> Target(c)]

(* The DELETE waits for the row; if the row is gone it is only a warning.  *)
RemoveGoal(c) ==
    /\ pc[c] = "removing"
    /\ locker[Target(c)] = Nobody
    /\ goal' = [goal EXCEPT ![Target(c)].status = "deleted"]
    /\ ledger' = IF seen[c].current > 0 THEN ledger \cup {EntryOf(c)} ELSE ledger
    /\ CommitWallets(c)
    /\ Goto(c, "done")
    /\ UNCHANGED <<locker, notices, member, asked, seen>>

-----------------------------------------------------------------------------
(* PostgreSQL: two transactions that wait for each other's rows, found by  *)
(* the deadlock detector, and one of them is aborted.                      *)
BlockedBy(c, d) ==
    \/ pc[c] \in {"debiting", "refunding"} /\ holder[Owner(c)] = d
    \/ pc[c] \in {"locking", "editing", "removing"} /\ locker[Target(c)] = d

DeadlockAbort(c) ==
    /\ \E d \in Work \ {c} : BlockedBy(c, d) /\ BlockedBy(d, c)
    /\ Rollback(c)

Advance(c) ==
    \/ GoalNotFound(c)
    \/ LockGoal(c)
    \/ RefuseContribution(c)
    \/ DebitWallet(c)
    \/ InsufficientBalance(c)
    \/ SaveContribution(c)
    \/ ReadGoal(c)
    \/ EditGoal(c)
    \/ EditFails(c)
    \/ RefundWallet(c)
    \/ CreditOverflows(c)
    \/ FindMembership(c)
    \/ NotInFamily(c)
    \/ RemoveGoal(c)
    \/ DeadlockAbort(c)

(* The worker or its connection dies before the commit.                    *)
CutOff(c) ==
    /\ pc[c] \notin Ended \cup {"idle"}
    /\ IF c \in Work
       THEN Rollback(c)
       ELSE /\ Goto(c, "failed")
            /\ UNCHANGED <<walletVars, goalVars, recordVars, member, asked, seen>>

(* family_service.remove_member                                            *)
RemoveMember(u) ==
    /\ u \in member
    /\ member' = member \ {u}
    /\ UNCHANGED <<walletVars, goalVars, recordVars, callVars>>

AllEnded ==
    /\ \A c \in Call : pc[c] \in Ended
    /\ UNCHANGED vars

Next ==
    \/ \E g \in Creation : CountGoals(g) \/ InsertGoal(g)
    \/ \E c \in Work : Start(c)
    \/ \E c \in Work : Advance(c)
    \/ \E c \in Call : CutOff(c)
    \/ \E u \in User : RemoveMember(u)
    \/ AllEnded

Spec == Init /\ [][Next]_vars

(* A handler that has started keeps executing statements, and the deadlock *)
(* detector runs.                                                          *)
Fairness ==
    /\ \A g \in Creation : WF_vars(InsertGoal(g))
    /\ \A c \in Work : WF_vars(Advance(c))

FairSpec == Spec /\ Fairness

-----------------------------------------------------------------------------
(* Properties                                                              *)

(* What contribute read under its lock is still the committed row when it  *)
(* writes: "Use SELECT FOR UPDATE to lock row and prevent race condition". *)
ReadingValid(c) ==
    pc[c] \in {"debiting", "saving"} =>
        /\ locker[Target(c)] = c
        /\ goal[Target(c)].status = "open"
        /\ seen[c] = ReadingOf(Target(c))

ReadingStaysValid == \A c \in Work : ReadingValid(c)

(* A call under way names a goal, contributes a permitted amount, refunds  *)
(* what is not nothing, and works on a goal that was there.                *)
WorkInStep(c) ==
    /\ pc[c] # "inserting"
    /\ pc[c] \notin Ended \cup {"idle"} => Target(c) \in Creation
    /\ pc[c] \in {"debiting", "saving"} => asked[c].amount \in 1 .. MaxContribution
    /\ pc[c] \in {"editing", "refunding", "vouching", "removing"} =>
        goal[Target(c)].status # "absent"
    /\ pc[c] \in {"refunding", "vouching"} => seen[c].current > 0

(* A goal is there exactly once its creation has committed, and whoever    *)
(* has posted or notified is over.                                         *)
CallsInStep ==
    /\ \A g \in Creation :
        /\ pc[g] \in {"idle", "inserting"} \cup Ended
        /\ goal[g].status # "absent" <=> pc[g] = "done"
    /\ \A c \in Work : WorkInStep(c)
    /\ \A e \in ledger : pc[e.id] = "done"
    /\ \A n \in notices : pc[n.call] = "done"

(* What a call has changed in a wallet and not committed: the contribution *)
(* it has debited or the refund it has credited, and nothing else.         *)
InFlight(c, u, cur) ==
    LET Mine == u = Owner(c) /\ cur = Idr
    IN  IF pc[c] = "saving" /\ Mine THEN -asked[c].amount
        ELSE IF pc[c] \in {"vouching", "removing"} /\ Mine THEN seen[c].current
        ELSE 0

InFlightIsMove ==
    \A u \in User, cur \in Currency :
        /\ \A c \in Work : delta[c][u][cur] = InFlight(c, u, cur)
        /\ \A g \in Creation : delta[g][u][cur] = 0

(* The inductive invariant of the proofs in SavingsGoalsProofs.            *)
IInv ==
    /\ TypeOK
    /\ CallsInStep
    /\ InFlightCovered
    /\ InFlightIsMove
    /\ ReadingStaysValid

(* Money only enters a goal out of its owner's wallet: in one step the     *)
(* wallet loses what was asked and the goal gains it, up to its target; no *)
(* contribution is overwritten by another.                                 *)
ContributionsCount ==
    [][\A g \in Creation : goal'[g].current # goal[g].current =>
        LET u == goal[g].owner
            paid == balance[u][Idr] - balance'[u][Idr]
        IN  /\ paid > 0
            /\ goal'[g].current = Capped(goal[g].target, goal[g].current + paid)]_goal

(* A commit notifies exactly the milestones that lie between the committed *)
(* amounts before and after it ("prevents duplicate notifications").       *)
MilestonesMatch ==
    [][\A g \in Creation :
        {n.milestone : n \in {m \in notices' \ notices : m.about = g}}
            = Crossed(goal[g].current, goal'[g].current, goal[g].target)]_<<goal, notices>>

(* Every refund is recorded: a wallet gains only by a new record of as     *)
(* much ("Record refund transaction for financial audit trail").           *)
RefundsRecorded ==
    [][\A u \in User : balance'[u][Idr] > balance[u][Idr] =>
        \E e \in ledger' \ ledger :
            /\ e.destination = u
            /\ balance'[u][Idr] = balance[u][Idr] + e.amount]_balance

(* Contributions and deletions lock the goal and the wallet in opposite    *)
(* orders; thanks to the detector every call still comes to an end.        *)
EveryCallEnds ==
    \A c \in Call : pc[c] # "idle" ~> pc[c] \in Ended

(* "Refund if not empty": the money put aside in a goal comes back once.   *)
RefundedOnce ==
    \A e, f \in ledger : e.reference = f.reference => e = f
=============================================================================
