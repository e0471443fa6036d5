------------------------------- MODULE Tasks -------------------------------
(***************************************************************************)
(* services/task_service.py: a parent sets a task with a reward, the child *)
(* submits it, a parent approves (the reward is paid) or rejects.  Unlike  *)
(* FundRequests no handler locks the task row it decides on: it reads the  *)
(* row, checks the status it saw, and writes by primary key.               *)
(*                                                                         *)
(* The UPDATE or DELETE of the task row is the last statement of a handler *)
(* that can wait or fail; the row is locked from there to the commit and   *)
(* nobody reads what is not committed, so one action stands for both.      *)
(***************************************************************************)
EXTENDS Wallets

CONSTANTS
    Task,      \* the tasks, each named by the call that creates it
    Parent,    \* users with role "parent"
    Child,     \* users with role "child"
    Admin,     \* the parent who created the family; others have their own
    Amount,    \* the rewards a task can carry
    Opening    \* the balances before the first call

ASSUME TasksAssumption ==
    /\ User = Parent \cup Child
    /\ Parent \cap Child = {}
    /\ Admin \subseteq Parent
    /\ Amount \subseteq Nat \ {0}
    /\ Opening \in Purses

VARIABLES
    task,      \* rows of tasks
    ledger,    \* committed rows of transactions
    notices,   \* committed rows of notifications
    member,    \* the users with an active membership of the family
    asked,     \* what a call was asked to do
    seen,      \* the reward a call read before it decided
    pc         \* how far each call has come

recordVars == <<ledger, notices>>
callVars == <<asked, seen, pc>>
vars == <<walletVars, task, recordVars, member, callVars>>

(* "approved" is a step of the transition table that is never stored.      *)
Status == {"absent", "created", "submitted", "rejected", "completed", "deleted"}

Terms == [amount : Amount, currency : Currency]

Row == [status : Status, creator : User, assignee : User, terms : Terms,
        tx : Call \cup {Nobody}]

Op == {"update", "delete", "submit", "approve", "reject"}

Question == [op : Op \cup {"none"}, user : User \cup {Nobody},
             target : Task \cup {Nobody}]

Unasked == [op |-> "none", user |-> Nobody, target |-> Nobody]
Unread == [amount |-> 0, currency |-> Nobody]

Entry == [id : Call, source : {Nobody}, destination : User, amount : Amount,
          currency : Currency, reference : Task]

Notice == [user : User, about : Task,
           kind : {"assigned", "submitted", "approved", "rejected"}]

Ended == {"done", "failed"}

TypeOK ==
    /\ WalletsTypeOK
    /\ task \in [Task -> Row]
    /\ ledger \subseteq Entry
    /\ notices \subseteq Notice
    /\ member \subseteq User
    /\ asked \in [Call -> Question]
    /\ seen \in [Call -> Terms \cup {Unread}]
    /\ pc \in [Call -> {"idle", "reading", "committing"} \cup Op \cup Ended]

Init ==
    /\ WalletsInit(Opening)
    /\ task \in [Task -> {r \in Row : r.status = "absent" /\ r.tx = Nobody}]
    /\ ledger = {}
    /\ notices = {}
    /\ member = Admin \cup Child
    /\ asked = [c \in Call |-> Unasked]
    /\ seen = [c \in Call |-> Unread]
    /\ pc = [c \in Call |-> "idle"]

Goto(c, label) == pc' = [pc EXCEPT ![c] = label]

Target(c) == asked[c].target
Exists(t) == task[t].status \notin {"absent", "deleted"}

Tell(u, t, what) ==
    notices' = notices \cup {[user |-> u, about |-> t, kind |-> what]}

Rollback(c) ==
    /\ RollbackWallets(c)
    /\ Goto(c, "failed")
    /\ UNCHANGED <<task, recordVars, member, asked, seen>>

-----------------------------------------------------------------------------
(* The handlers                                                            *)

(* create_task.  What the parent asks for is already in task[t]; a request *)
(* that is refused leaves the row absent.                                  *)
CreateTask(t) ==
    /\ task[t].status = "absent"
    /\ task[t].creator \in Admin \cap member
    /\ task[t].assignee \in member \ {task[t].creator}
    /\ task' = [task EXCEPT ![t].status = "created"]
    /\ Tell(task[t].assignee, t, "assigned")
    /\ UNCHANGED <<walletVars, ledger, member, callVars>>

RoleFor(op) == IF op = "submit" THEN Child ELSE Parent

(* The call arrives; its role and membership are checked.                  *)
Start(c) ==
    /\ pc[c] = "idle"
    /\ \E op \in Op, u \in User, t \in Task :
        /\ asked' = [asked EXCEPT ![c] = [op |-> op, user |-> u, target |-> t]]
        /\ Goto(c, IF u \in RoleFor(op) \cap member THEN "reading" ELSE "failed")
    /\ UNCHANGED <<walletVars, task, recordVars, member, seen>>

(* Slip: a created task can be approved.                                   *)
AllowedEarly == [created |-> {"submitted", "approved"},
                 submitted |-> {"approved", "rejected"},
                 rejected |-> {}, completed |-> {}]

(* _VALID_TRANSITIONS                                                      *)
Allowed == [created |-> {"submitted"}, submitted |-> {"approved", "rejected"},
            rejected |-> {}, completed |-> {}]

Wanted == [submit |-> "submitted", approve |-> "approved", reject |-> "rejected"]

MayAct(c) ==
    LET row == task[Target(c)]
    IN  /\ Exists(Target(c))
        /\ asked[c].op \in {"update", "delete"} => row.status = "created"
        /\ asked[c].op = "submit" => row.assignee = asked[c].user
        /\ asked[c].op \in DOMAIN Wanted => Wanted[asked[c].op] \in Allowed[row.status]

(* db.get(Task) and every check made on what it returned.                  *)
ReadTask(c) ==
    /\ pc[c] = "reading"
    /\ IF MayAct(c)
       THEN /\ seen' = [seen EXCEPT ![c] = task[Target(c)].terms]
            /\ Goto(c, asked[c].op)
       ELSE /\ Goto(c, "failed")
            /\ UNCHANGED seen
    /\ UNCHANGED <<walletVars, task, recordVars, member, asked>>

(* update_task.  The UPDATE names the columns whose new value differs from *)
(* the value that was read; a due date in the past is a CutOff.            *)
EditTask(c) ==
    /\ pc[c] = "update"
    /\ Exists(Target(c))
    /\ \E new \in Terms :
        task' = [task EXCEPT ![Target(c)].terms =
            [amount |-> IF new.amount = seen[c].amount THEN @.amount
                                                       ELSE new.amount,
             currency |-> IF new.currency = seen[c].currency THEN @.currency
                                                             ELSE new.currency]]
    /\ Goto(c, "done")
    /\ UNCHANGED <<walletVars, recordVars, member, asked, seen>>

(* delete_task.  A DELETE that finds no row is only a warning.             *)
DeleteTask(c) ==
    /\ pc[c] = "delete"
    /\ task' = [task EXCEPT ![Target(c)].status = "deleted"]
    /\ Goto(c, "done")
    /\ UNCHANGED <<walletVars, recordVars, member, asked, seen>>

SubmitTask(c) ==
    /\ pc[c] = "submit"
    /\ Exists(Target(c))
    /\ task' = [task EXCEPT ![Target(c)].status = "submitted"]
    /\ Tell(task[Target(c)].creator, Target(c), "submitted")
    /\ Goto(c, "done")
    /\ UNCHANGED <<walletVars, ledger, member, asked, seen>>

RejectTask(c) ==
    /\ pc[c] = "reject"
    /\ Exists(Target(c))
    /\ task' = [task EXCEPT ![Target(c)].status = "rejected"]
    /\ Tell(task[Target(c)].assignee, Target(c), "rejected")
    /\ Goto(c, "done")
    /\ UNCHANGED <<walletVars, ledger, member, asked, seen>>

(* approve_task pays first, by the reward it has read.                     *)
CreditReward(c) ==
    /\ pc[c] = "approve"
    /\ Credit(c, task[Target(c)].assignee, seen[c].currency, seen[c].amount)
    /\ Goto(c, "committing")
    /\ UNCHANGED <<task, recordVars, member, asked, seen>>

CreditOverflows(c) ==
    /\ pc[c] = "approve"
    /\ CreditFails(c, task[Target(c)].assignee, seen[c].currency, seen[c].amount)
    /\ Rollback(c)

(* Slip: the record is made from a fresh read of the task.                 *)
EntryReread(c) ==
    [id |-> c, source |-> Nobody, destination |-> task[Target(c)].assignee,
     amount |-> task[Target(c)].terms.amount,
     currency |-> task[Target(c)].terms.currency, reference |-> Target(c)]

EntryOf(c) ==
    [id |-> c, source |-> Nobody, destination |-> task[Target(c)].assignee,
     amount |-> seen[c].amount, currency |-> seen[c].currency,
     reference |-> Target(c)]

(* Slip: reward_transaction_id is not set.                                 *)
CompleteTaskUnlinked(c) ==
    /\ pc[c] = "committing"
    /\ Exists(Target(c))
    /\ task' = [task EXCEPT ![Target(c)].status = "completed"]
    /\ ledger' = ledger \cup {EntryOf(c)}
    /\ Tell(task[Target(c)].assignee, Target(c), "approved")
    /\ CommitWallets(c)
    /\ Goto(c, "done")
    /\ UNCHANGED <<member, asked, seen>>

(* Slip: nobody looks how many rows the UPDATE changed.                    *)
CompleteTaskBlindly(c) ==
    /\ pc[c] = "committing"
    /\ task' = IF Exists(Target(c))
               THEN [task EXCEPT ![Target(c)].status = "completed",
                                 ![Target(c)].tx = c]
               ELSE task
    /\ ledger' = ledger \cup {EntryOf(c)}
    /\ Tell(task[Target(c)].assignee, Target(c), "approved")
    /\ CommitWallets(c)
    /\ Goto(c, "done")
    /\ UNCHANGED <<member, asked, seen>>

(* The record, the UPDATE of the task, the notice and the commit.          *)
CompleteTask(c) ==
    /\ pc[c] = "committing"
    /\ Exists(Target(c))
    /\ task' = [task EXCEPT ![Target(c)].status = "completed",
                            ![Target(c)].tx = c]
    /\ ledger' = ledger \cup {EntryOf(c)}
    /\ Tell(task[Target(c)].assignee, Target(c), "approved")
    /\ CommitWallets(c)
    /\ Goto(c, "done")
    /\ UNCHANGED <<member, asked, seen>>

(* The UPDATE finds no row any more: StaleDataError.                       *)
TaskVanished(c) ==
    /\ pc[c] \in {"update", "submit", "reject", "committing"}
    /\ ~ Exists(Target(c))
    /\ Rollback(c)

Advance(c) ==
    \/ ReadTask(c)
    \/ EditTask(c)
    \/ DeleteTask(c)
    \/ SubmitTask(c)
    \/ RejectTask(c)
    \/ CreditReward(c)
    \/ CreditOverflows(c)
    \/ CompleteTask(c)
    \/ TaskVanished(c)

-----------------------------------------------------------------------------
(* The worker or its connection dies before the commit.                    *)
CutOff(c) ==
    /\ pc[c] \notin Ended \cup {"idle"}
    /\ Rollback(c)

(* family_service.remove_member                                            *)
RemoveMember(u) ==
    /\ u \in member \ Admin
    /\ member' = member \ {u}
    /\ UNCHANGED <<walletVars, task, recordVars, callVars>>

AllEnded ==
    /\ \A c \in Call : pc[c] \in Ended
    /\ UNCHANGED vars

Next ==
    \/ \E t \in Task : CreateTask(t)
    \/ \E c \in Call : Start(c)
    \/ \E c \in Call : Advance(c)
    \/ \E c \in Call : CutOff(c)
    \/ \E u \in User : RemoveMember(u)
    \/ AllEnded

Spec == Init /\ [][Next]_vars

-----------------------------------------------------------------------------
(* Properties                                                              *)

(* The child is told of a reward exactly when one was paid, and is never   *)
(* paid for a task that nobody submitted: approve_task's effects are one   *)
(* transaction and start from a submitted row, however stale its checks.   *)
RewardTold ==
    /\ \A t \in Task :
        (\E e \in ledger : e.reference = t) <=>
            [user |-> task[t].assignee, about |-> t, kind |-> "approved"] \in notices
    /\ \A e \in ledger :
        /\ e.destination = task[e.reference].assignee
        /\ [user |-> task[e.reference].creator, about |-> e.reference,
            kind |-> "submitted"] \in notices

(* A completed task refers to the record of its own reward, whatever       *)
(* reviews, edits and deletions overlapped (models/task.py,                *)
(* "Reference to the reward transaction (set after approve)").             *)
CompletedIsPaid ==
    \A t \in Task : task[t].status = "completed" =>
        \E e \in ledger : e.id = task[t].tx /\ e.reference = t

(* Nothing is paid for a task that was deleted while its approval ran: the *)
(* late UPDATE finds no row and the reward is rolled back.                 *)
PaysExistingTask ==
    [][\A e \in ledger' \ ledger : Exists(e.reference)]_ledger

(* What the proofs need besides: a call at work knows what it was asked    *)
(* and what it read, only submitted tasks have approvals under way, and    *)
(* the calls that paid are over.                                           *)
SubmitTold(t) ==
    [user |-> task[t].creator, about |-> t, kind |-> "submitted"] \in notices

CallsInStep ==
    /\ \A c \in Call :
        /\ pc[c] \notin Ended \cup {"idle"} => asked[c].target \in Task
        /\ pc[c] \in Op \cup {"committing"} =>
            seen[c] \in Terms /\ task[Target(c)].status # "absent"
        /\ pc[c] \in {"approve", "committing"} => SubmitTold(Target(c))
        /\ pc[c] = "reading" => asked[c].op \in Op
    /\ \A t \in Task :
        /\ task[t].status = "absent" => \A n \in notices : n.about # t
        /\ task[t].status = "submitted" => SubmitTold(t)
    /\ \A e \in ledger : pc[e.id] = "done"

(* A call holds nothing uncommitted but the reward it is about to record.  *)
InFlight(c, u, cur) ==
    IF /\ pc[c] = "committing"
       /\ u = task[Target(c)].assignee
       /\ cur = seen[c].currency
    THEN seen[c].amount ELSE 0

InFlightIsReward ==
    \A c \in Call, u \in User, cur \in Currency :
        delta[c][u][cur] = InFlight(c, u, cur)

(* The inductive invariant of the proofs in TasksProofs.                   *)
IInv ==
    /\ TypeOK
    /\ CallsInStep
    /\ InFlightCovered
    /\ InFlightIsReward
    /\ RewardTold
    /\ CompletedIsPaid

(* Rewards, too, implement the promise of Ledger; their source is NULL.    *)
L == INSTANCE Ledger WITH TxId <- Call, Reference <- Task
LedgerSpec == L!Spec

(* "Approving a completed task should fail" (test_task.py), "approved ->   *)
(* rejected (reward already paid)" (models/task.py): one reward per task.  *)
RewardedOnce ==
    \A e, f \in ledger : e.reference = f.reference => e = f
=============================================================================
