---------------------------- MODULE TasksProofs ----------------------------
(***************************************************************************)
(* Tasks for every number of tasks, calls, users and rewards.              *)
(***************************************************************************)
EXTENDS Tasks, WalletsProofs

USE TasksAssumption, WalletsAssumption

LEMMA InitIInv == Init => IInv
<1>. SUFFICES ASSUME Init PROVE IInv
  OBVIOUS
<1>. USE DEF Init
<1>1. WalletsInv
  BY WalletsInitInv
<1>2. TypeOK
  BY <1>1 DEF WalletsInv, TypeOK, Question, Unasked
<1>3. CallsInStep
  BY DEF CallsInStep, Ended, Op
<1>4. InFlightIsReward
  BY DEF InFlightIsReward, InFlight, WalletsInit, NoDelta
<1>5. RewardTold /\ CompletedIsPaid
  BY DEF RewardTold, CompletedIsPaid
<1>. QED
  BY <1>1, <1>2, <1>3, <1>4, <1>5 DEF IInv, WalletsInv

(* The only columns of a row that a call changes are status, terms and tx. *)
SameTask(t) ==
    /\ task'[t].creator = task[t].creator
    /\ task'[t].assignee = task[t].assignee

(* A write to a task row by a call that moves no money.  What it must not  *)
(* break: a submitted row has its notice, a completed one its record.      *)
LEMMA TaskWriteInv ==
    ASSUME IInv,
           task' \in [Task -> Row],
           \A t \in Task : SameTask(t),
           UNCHANGED <<walletVars, ledger, member, asked, seen>>,
           notices \subseteq notices', notices' \subseteq Notice,
           \A n \in notices' \ notices : n.kind # "approved",
           pc' \in [Call -> {"idle", "reading", "committing"} \cup Op \cup Ended],
           \A c \in Call : pc'[c] # pc[c] => pc'[c] \in Ended /\ pc[c] # "committing",
           \A c \in Call : pc[c] = "done" => pc'[c] = "done",
           \A t \in Task : /\ task[t].status # "absent" => task'[t].status # "absent"
                           /\ task'[t].status = "absent" =>
                                \A n \in notices' \ notices : n.about # t
                           /\ task'[t].status = "submitted" => SubmitTold(t)'
                           /\ task'[t].status = "completed" =>
                                task[t].status = "completed" /\ task'[t].tx = task[t].tx
    PROVE  IInv'
<1>. USE DEF IInv, walletVars, SameTask
<1>1. TypeOK'
  BY DEF TypeOK, WalletsTypeOK
<1>2. CallsInStep'
  <2>1. \A t \in Task : SubmitTold(t) => SubmitTold(t)'
    BY DEF SubmitTold
  <2>2. \A c \in Call : Target(c)' = Target(c)
    BY DEF Target
  <2>3. ASSUME NEW c \in Call
        PROVE  /\ pc'[c] \notin Ended \cup {"idle"} => asked'[c].target \in Task
               /\ pc'[c] \in Op \cup {"committing"} =>
                    seen'[c] \in Terms /\ task'[Target(c)].status # "absent"
               /\ pc'[c] \in {"approve", "committing"} => SubmitTold(Target(c))'
               /\ pc'[c] = "reading" => asked'[c].op \in Op
    BY <2>1, <2>2 DEF CallsInStep, Ended, Target, Op
  <2>4. \A e \in ledger' : pc'[e.id] = "done"
    BY DEF CallsInStep, TypeOK, Entry
  <2>5. \A t \in Task : task'[t].status = "absent" => \A n \in notices' : n.about # t
    BY DEF CallsInStep
  <2>. QED
    BY <2>2, <2>3, <2>4, <2>5 DEF CallsInStep
<1>3. InFlightCovered'
  BY DEF InFlightCovered, Seen
<1>4. InFlightIsReward'
  <2>1. ASSUME NEW c \in Call, NEW u \in User, NEW cur \in Currency
        PROVE  InFlight(c, u, cur)' = InFlight(c, u, cur)
    BY DEF InFlight, Target, CallsInStep, TypeOK, Ended
  <2>. QED
    BY <2>1 DEF InFlightIsReward
<1>5. RewardTold'
  <2>1. \A t \in Task :
            LET n == [user |-> task[t].assignee, about |-> t, kind |-> "approved"]
            IN  n \in notices' <=> n \in notices
    BY DEF RewardTold
  <2>2. \A e \in ledger : e.reference \in Task
    BY DEF TypeOK, Entry
  <2>. QED
    BY <2>1, <2>2 DEF RewardTold
<1>6. CompletedIsPaid'
  BY DEF CompletedIsPaid
<1>. QED
  BY <1>1, <1>2, <1>3, <1>4, <1>5, <1>6

LEMMA CreateTaskInv ==
    ASSUME IInv, NEW t \in Task, CreateTask(t)
    PROVE  IInv'
<1>. USE DEF CreateTask, Tell, callVars
<1>1. task' \in [Task -> Row] /\ task'[t].status = "created"
  BY DEF IInv, TypeOK, Row, Status
<1>2. \A q \in Task : SameTask(q) /\ (q # t => task'[q] = task[q])
  BY DEF IInv, TypeOK, Row, SameTask
<1>3. notices' \subseteq Notice
  BY DEF IInv, TypeOK, Row, Notice
<1>4. \A q \in Task : SubmitTold(q) => SubmitTold(q)'
  BY <1>2 DEF SubmitTold, SameTask
<1>5. \A q \in Task : /\ task[q].status # "absent" => task'[q].status # "absent"
                      /\ task'[q].status = "absent" =>
                           \A n \in notices' \ notices : n.about # q
                      /\ task'[q].status = "submitted" => SubmitTold(q)'
                      /\ task'[q].status = "completed" =>
                           task[q].status = "completed" /\ task'[q].tx = task[q].tx
  BY <1>1, <1>2, <1>4 DEF IInv, CallsInStep
<1>. QED
  BY <1>1, <1>2, <1>3, <1>5, TaskWriteInv DEF IInv, TypeOK

LEMMA StartInv ==
    ASSUME IInv, NEW c \in Call, Start(c)
    PROVE  IInv'
<1>. USE DEF IInv, Start, Goto, walletVars, recordVars
<1>1. TypeOK'
  BY DEF TypeOK, WalletsTypeOK, Ended, Question
<1>2. CallsInStep'
  BY DEF CallsInStep, TypeOK, Ended, Op, Question, Target, SubmitTold
<1>3. InFlightCovered'
  BY DEF InFlightCovered, Seen
<1>4. InFlightIsReward'
  BY DEF InFlightIsReward, InFlight, TypeOK, Target
<1>5. RewardTold' /\ CompletedIsPaid'
  BY DEF RewardTold, CompletedIsPaid
<1>. QED
  BY <1>1, <1>2, <1>3, <1>4, <1>5

(* An approval gets past the checks only on a row that is submitted.       *)
LEMMA AdmittedApproval ==
    ASSUME IInv, NEW c \in Call, MayAct(c), asked[c].op = "approve",
           Target(c) \in Task
    PROVE  task[Target(c)].status = "submitted"
<1>1. task[Target(c)].status \in {"created", "submitted", "rejected", "completed"}
  BY DEF MayAct, Exists, IInv, TypeOK, Row, Status
<1>2. "approved" \in Allowed[task[Target(c)].status]
  BY DEF MayAct, Wanted
<1>. QED
  BY <1>1, <1>2 DEF Allowed

LEMMA ReadTaskInv ==
    ASSUME IInv, NEW c \in Call, ReadTask(c)
    PROVE  IInv'
<1>. USE DEF IInv, ReadTask, Goto, walletVars, recordVars
<1>1. /\ Target(c) \in Task
      /\ task[Target(c)] \in Row
      /\ asked[c].op \in Op
  BY DEF CallsInStep, TypeOK, Target, Ended
<1>2. TypeOK'
  <2>1. seen' \in [Call -> Terms \cup {Unread}]
    BY <1>1 DEF TypeOK, Row
  <2>2. pc' \in [Call -> {"idle", "reading", "committing"} \cup Op \cup Ended]
    BY <1>1 DEF TypeOK, Ended
  <2>. QED
    BY <2>1, <2>2 DEF TypeOK, WalletsTypeOK
<1>3. MayAct(c) => task[Target(c)].status # "absent" /\ task[Target(c)].terms \in Terms
  BY <1>1 DEF MayAct, Exists, Row
<1>4. MayAct(c) /\ asked[c].op = "approve" => SubmitTold(Target(c))
  BY <1>1, AdmittedApproval DEF CallsInStep
<1>5. CallsInStep'
  <2>1. \A t \in Task : SubmitTold(t)' = SubmitTold(t)
    BY DEF SubmitTold
  <2>2. \A d \in Call : Target(d)' = Target(d)
    BY DEF Target
  <2>3. ASSUME NEW d \in Call
        PROVE  /\ pc'[d] \notin Ended \cup {"idle"} => asked'[d].target \in Task
               /\ pc'[d] \in Op \cup {"committing"} =>
                    seen'[d] \in Terms /\ task'[Target(d)].status # "absent"
               /\ pc'[d] \in {"approve", "committing"} => SubmitTold(Target(d))'
               /\ pc'[d] = "reading" => asked'[d].op \in Op
    <3>1. CASE d = c
      BY <3>1, <1>1, <1>3, <1>4, <2>1, <2>2 DEF TypeOK, Ended, Op, Target
    <3>2. CASE d # c
      BY <3>2, <2>1, <2>2 DEF CallsInStep, TypeOK, Ended, Target
    <3>. QED
      BY <3>1, <3>2
  <2>. QED
    BY <2>1, <2>2, <2>3 DEF CallsInStep, TypeOK, Entry
<1>6. InFlightCovered'
  BY DEF InFlightCovered, Seen
<1>7. InFlightIsReward'
  <2>1. ASSUME NEW d \in Call, NEW u \in User, NEW cur \in Currency
        PROVE  InFlight(d, u, cur)' = InFlight(d, u, cur)
    <3>1. CASE d = c
      BY <3>1, <1>1 DEF InFlight, TypeOK, Op
    <3>2. CASE d # c
      BY <3>2 DEF InFlight, TypeOK, Target
    <3>. QED
      BY <3>1, <3>2
  <2>. QED
    BY <2>1 DEF InFlightIsReward
<1>8. RewardTold' /\ CompletedIsPaid'
  BY DEF RewardTold, CompletedIsPaid
<1>. QED
  BY <1>2, <1>5, <1>6, <1>7, <1>8

(* What a write that has passed its checks can rely on.                    *)
LEMMA WriterFacts ==
    ASSUME IInv, NEW c \in Call, pc[c] \in Op \cup {"committing"}
    PROVE  /\ Target(c) \in Task
           /\ task[Target(c)] \in Row
           /\ task[Target(c)].assignee \in User
           /\ task[Target(c)].creator \in User
           /\ seen[c] \in Terms
           /\ seen[c].amount \in Amount
           /\ seen[c].amount \in Nat \ {0}
           /\ seen[c].currency \in Currency
BY DEF IInv, TypeOK, CallsInStep, Target, Row, Terms, Op, Ended

LEMMA EditTaskInv ==
    ASSUME IInv, NEW c \in Call, EditTask(c)
    PROVE  IInv'
<1>. USE DEF EditTask, Goto, recordVars
<1>. DEFINE t == Target(c)
<1>0. t \in Task /\ task[t] \in Row /\ pc[c] = "update"
  BY WriterFacts DEF Op
<1>1. PICK new \in Terms :
        task' = [task EXCEPT ![t].terms =
            [amount |-> IF new.amount = seen[c].amount THEN @.amount ELSE new.amount,
             currency |-> IF new.currency = seen[c].currency THEN @.currency
                                                             ELSE new.currency]]
  OBVIOUS
<1>2. task' \in [Task -> Row]
  BY <1>0, <1>1 DEF IInv, TypeOK, Row, Terms
<1>3. \A q \in Task : /\ SameTask(q)
                      /\ task'[q].status = task[q].status
                      /\ task'[q].tx = task[q].tx
  BY <1>0, <1>1 DEF IInv, TypeOK, Row, SameTask
<1>4. \A q \in Task : SubmitTold(q) => SubmitTold(q)'
  BY <1>3 DEF SubmitTold, SameTask
<1>5. \A q \in Task : task'[q].status = "submitted" => SubmitTold(q)'
  BY <1>3, <1>4 DEF IInv, CallsInStep
<1>. QED
  BY <1>0, <1>2, <1>3, <1>5, TaskWriteInv DEF IInv, TypeOK, Ended, walletVars

LEMMA DeleteTaskInv ==
    ASSUME IInv, NEW c \in Call, DeleteTask(c)
    PROVE  IInv'
<1>. USE DEF DeleteTask, Goto, recordVars
<1>. DEFINE t == Target(c)
<1>0. t \in Task /\ task[t] \in Row /\ pc[c] = "delete"
  BY WriterFacts DEF Op
<1>2. task' \in [Task -> Row]
  BY <1>0 DEF IInv, TypeOK, Row, Status
<1>3. \A q \in Task : /\ SameTask(q)
                      /\ task'[q].status = IF q = t THEN "deleted" ELSE task[q].status
                      /\ task'[q].tx = task[q].tx
  BY <1>0 DEF IInv, TypeOK, Row, SameTask
<1>4. \A q \in Task : SubmitTold(q) => SubmitTold(q)'
  BY <1>3 DEF SubmitTold, SameTask
<1>5. \A q \in Task : task'[q].status = "submitted" => SubmitTold(q)'
  BY <1>3, <1>4 DEF IInv, CallsInStep
<1>. QED
  BY <1>0, <1>2, <1>3, <1>5, TaskWriteInv DEF IInv, TypeOK, Ended, walletVars

LEMMA SubmitTaskInv ==
    ASSUME IInv, NEW c \in Call, SubmitTask(c)
    PROVE  IInv'
<1>. USE DEF SubmitTask, Goto, Tell
<1>. DEFINE t == Target(c)
<1>0. t \in Task /\ task[t] \in Row /\ task[t].creator \in User /\ pc[c] = "submit"
  BY WriterFacts DEF Op
<1>2. task' \in [Task -> Row]
  BY <1>0 DEF IInv, TypeOK, Row, Status
<1>3. \A q \in Task : /\ SameTask(q)
                      /\ task'[q].status = IF q = t THEN "submitted" ELSE task[q].status
                      /\ task'[q].tx = task[q].tx
  BY <1>0 DEF IInv, TypeOK, Row, SameTask
<1>4. \A q \in Task : SubmitTold(q) => SubmitTold(q)'
  BY <1>3 DEF SubmitTold, SameTask
<1>5. \A q \in Task : task'[q].status = "submitted" => SubmitTold(q)'
  <2>1. \A q \in Task : q = t => SubmitTold(q)'
    BY <1>0, <1>3 DEF SubmitTold, SameTask
  <2>2. \A q \in Task : task[q].status = "submitted" => SubmitTold(q)
    BY DEF IInv, CallsInStep
  <2>. QED
    BY <2>1, <2>2, <1>3, <1>4
<1>6. notices' \subseteq Notice
  BY <1>0 DEF IInv, TypeOK, Notice
<1>7. \A q \in Task : task'[q].status = "absent" =>
            \A n \in notices' \ notices : n.about # q
  BY <1>3
<1>. QED
  BY <1>0, <1>2, <1>3, <1>5, <1>6, <1>7, TaskWriteInv
  DEF IInv, TypeOK, Ended, walletVars

LEMMA RejectTaskInv ==
    ASSUME IInv, NEW c \in Call, RejectTask(c)
    PROVE  IInv'
<1>. USE DEF RejectTask, Goto, Tell
<1>. DEFINE t == Target(c)
<1>0. t \in Task /\ task[t] \in Row /\ task[t].assignee \in User /\ pc[c] = "reject"
  BY WriterFacts DEF Op
<1>2. task' \in [Task -> Row]
  BY <1>0 DEF IInv, TypeOK, Row, Status
<1>3. \A q \in Task : /\ SameTask(q)
                      /\ task'[q].status = IF q = t THEN "rejected" ELSE task[q].status
                      /\ task'[q].tx = task[q].tx
  BY <1>0 DEF IInv, TypeOK, Row, SameTask
<1>4. \A q \in Task : SubmitTold(q) => SubmitTold(q)'
  BY <1>3 DEF SubmitTold, SameTask
<1>5. \A q \in Task : task'[q].status = "submitted" => SubmitTold(q)'
  BY <1>3, <1>4 DEF IInv, CallsInStep
<1>6. notices' \subseteq Notice
  BY <1>0 DEF IInv, TypeOK, Notice
<1>7. \A q \in Task : task'[q].status = "absent" =>
            \A n \in notices' \ notices : n.about # q
  BY <1>3
<1>. QED
  BY <1>0, <1>2, <1>3, <1>5, <1>6, <1>7, TaskWriteInv
  DEF IInv, TypeOK, Ended, walletVars

(* credit pays into a wallet row that stays locked until the commit.       *)
LEMMA CreditRewardInv ==
    ASSUME IInv, NEW c \in Call, CreditReward(c)
    PROVE  IInv'
<1>. USE DEF IInv, CreditReward, Goto, recordVars
<1>. DEFINE k == task[Target(c)].assignee
<1>0. /\ Target(c) \in Task
      /\ k \in User
      /\ seen[c] \in Terms
      /\ seen[c].amount \in Nat \ {0}
      /\ seen[c].amount \in Int
      /\ seen[c].currency \in Currency
      /\ pc[c] = "approve"
  BY WriterFacts DEF Op
<1>1. WalletsInv'
  BY <1>0, CreditKeepsInv DEF WalletsInv, TypeOK
<1>2. TypeOK'
  BY <1>1 DEF WalletsInv, TypeOK, Ended
<1>3. CallsInStep'
  BY <1>0 DEF CallsInStep, TypeOK, Ended, Op, Target, SubmitTold
<1>4. InFlightCovered'
  BY <1>1 DEF WalletsInv
<1>5. InFlightIsReward'
  <2>1. ASSUME NEW d \in Call, NEW u \in User, NEW cur \in Currency
        PROVE  delta'[d][u][cur] = IF d = c /\ u = k /\ cur = seen[c].currency
                                   THEN delta[d][u][cur] + seen[c].amount
                                   ELSE delta[d][u][cur]
    BY <1>0 DEF Credit, Update, TypeOK, WalletsTypeOK
  <2>2. ASSUME NEW d \in Call, d # c, NEW u \in User, NEW cur \in Currency
        PROVE  InFlight(d, u, cur)' = InFlight(d, u, cur)
    BY <2>2 DEF InFlight, TypeOK, Target
  <2>3. ASSUME NEW u \in User, NEW cur \in Currency
        PROVE  /\ InFlight(c, u, cur) = 0
               /\ InFlight(c, u, cur)' =
                    IF u = k /\ cur = seen[c].currency THEN seen[c].amount ELSE 0
    BY <1>0 DEF InFlight, TypeOK, Target
  <2>. QED
    BY <2>1, <2>2, <2>3, <1>0 DEF InFlightIsReward
<1>6. RewardTold' /\ CompletedIsPaid'
  BY DEF RewardTold, CompletedIsPaid
<1>. QED
  BY <1>1, <1>2, <1>3, <1>4, <1>5, <1>6

(* The commit of an approval: the reward, its record, the notice and the   *)
(* status become visible in one step, even if the status read was stale.   *)
LEMMA CompleteTaskInv ==
    ASSUME IInv, NEW c \in Call, CompleteTask(c)
    PROVE  IInv'
<1>. USE DEF CompleteTask, Goto, Tell
<1>. DEFINE t == Target(c)
            new == [user |-> task[t].assignee, about |-> t, kind |-> "approved"]
<1>0. /\ t \in Task
      /\ task[t] \in Row
      /\ task[t].assignee \in User
      /\ seen[c] \in Terms
      /\ seen[c].amount \in Amount
      /\ seen[c].currency \in Currency
      /\ pc[c] = "committing"
      /\ SubmitTold(t)
  BY WriterFacts DEF IInv, CallsInStep
<1>1. WalletsInv'
  BY CommitKeepsInv DEF WalletsInv, IInv, TypeOK
<1>2. task' \in [Task -> Row]
  BY <1>0 DEF IInv, TypeOK, Row, Status
<1>3. \A q \in Task :
        /\ SameTask(q)
        /\ task'[q].status = IF q = t THEN "completed" ELSE task[q].status
        /\ task'[q].tx = IF q = t THEN c ELSE task[q].tx
  BY <1>0 DEF IInv, TypeOK, Row, SameTask
<1>4. /\ EntryOf(c) \in Entry
      /\ EntryOf(c).reference = t
      /\ EntryOf(c).id = c
      /\ EntryOf(c).destination = task[t].assignee
  BY <1>0 DEF EntryOf, Entry, Terms
<1>5. \A q \in Task : SubmitTold(q) => SubmitTold(q)'
  BY <1>3 DEF SubmitTold, SameTask
<1>6. TypeOK'
  <2>1. ledger' \subseteq Entry /\ notices' \subseteq Notice
    BY <1>0, <1>4 DEF IInv, TypeOK, Notice
  <2>. QED
    BY <1>1, <1>2, <2>1 DEF IInv, TypeOK, WalletsInv, Ended
<1>7. CallsInStep'
  <2>1. \A d \in Call : Target(d)' = Target(d)
    BY DEF Target
  <2>2. ASSUME NEW d \in Call
        PROVE  /\ pc'[d] \notin Ended \cup {"idle"} => asked'[d].target \in Task
               /\ pc'[d] \in Op \cup {"committing"} =>
                    seen'[d] \in Terms /\ task'[Target(d)].status # "absent"
               /\ pc'[d] \in {"approve", "committing"} => SubmitTold(Target(d))'
               /\ pc'[d] = "reading" => asked'[d].op \in Op
    BY <1>3, <1>5, <2>1 DEF IInv, CallsInStep, TypeOK, Ended, Target, Op
  <2>3. \A q \in Task :
            /\ task'[q].status = "absent" => \A n \in notices' : n.about # q
            /\ task'[q].status = "submitted" => SubmitTold(q)'
    <3>1. \A q \in Task :
            /\ task[q].status = "absent" => \A n \in notices : n.about # q
            /\ task[q].status = "submitted" => SubmitTold(q)
      BY DEF IInv, CallsInStep
    <3>2. \A n \in notices' : n \in notices \/ n.about = t
      OBVIOUS
    <3>. HIDE DEF CompleteTask
    <3>. QED
      BY <3>1, <3>2, <1>3, <1>5
  <2>4. \A e \in ledger' : pc'[e.id] = "done"
    BY <1>4 DEF IInv, CallsInStep, TypeOK, Entry
  <2>. QED
    BY <2>1, <2>2, <2>3, <2>4 DEF CallsInStep
<1>8. InFlightCovered'
  BY <1>1 DEF WalletsInv
<1>9. InFlightIsReward'
  <2>1. ASSUME NEW d \in Call, NEW u \in User, NEW cur \in Currency
        PROVE  InFlight(d, u, cur)' = IF d = c THEN 0 ELSE InFlight(d, u, cur)
    <3>1. CASE d = c
      BY <3>1 DEF InFlight, IInv, TypeOK
    <3>2. CASE d # c
      BY <3>2, <1>3 DEF InFlight, IInv, TypeOK, Target, CallsInStep, SameTask, Ended
    <3>. QED
      BY <3>1, <3>2
  <2>. QED
    BY <2>1 DEF CommitWallets, NoDelta, IInv, TypeOK, WalletsTypeOK, InFlightIsReward
<1>10. RewardTold'
  <2>1. ledger' = ledger \cup {EntryOf(c)} /\ notices' = notices \cup {new}
    OBVIOUS
  <2>2. \A e \in ledger : e.reference \in Task
    BY DEF IInv, TypeOK, Entry
  <2>3. ASSUME NEW q \in Task
        PROVE  (\E e \in ledger' : e.reference = q) <=>
                 [user |-> task'[q].assignee, about |-> q, kind |-> "approved"] \in notices'
    <3>. DEFINE told == [user |-> task[q].assignee, about |-> q, kind |-> "approved"]
    <3>1. (\E e \in ledger' : e.reference = q) <=>
            (\E e \in ledger : e.reference = q) \/ q = t
      BY <2>1, <1>4
    <3>2. told \in notices' <=> told \in notices \/ q = t
      <4>1. told = new <=> q = t
        OBVIOUS
      <4>. QED
        BY <4>1, <2>1
    <3>3. (\E e \in ledger : e.reference = q) <=> told \in notices
      BY DEF IInv, RewardTold
    <3>4. task'[q].assignee = task[q].assignee
      BY <1>3 DEF SameTask
    <3>. HIDE DEF CompleteTask
    <3>. QED
      BY <3>1, <3>2, <3>3, <3>4
  <2>4. ASSUME NEW e \in ledger'
        PROVE  /\ e.destination = task'[e.reference].assignee
               /\ [user |-> task'[e.reference].creator, about |-> e.reference,
                   kind |-> "submitted"] \in notices'
    <3>1. CASE e \in ledger
      <4>1. /\ e.destination = task[e.reference].assignee
            /\ [user |-> task[e.reference].creator, about |-> e.reference,
                kind |-> "submitted"] \in notices
        BY <3>1 DEF IInv, RewardTold
      <4>2. /\ task'[e.reference].assignee = task[e.reference].assignee
            /\ task'[e.reference].creator = task[e.reference].creator
        BY <3>1, <2>2, <1>3 DEF SameTask
      <4>. HIDE DEF CompleteTask
      <4>. QED
        BY <4>1, <4>2, <2>1
    <3>2. CASE e = EntryOf(c)
      <4>1. /\ task'[t].assignee = task[t].assignee
            /\ task'[t].creator = task[t].creator
        BY <1>0, <1>3 DEF SameTask
      <4>2. [user |-> task[t].creator, about |-> t, kind |-> "submitted"] \in notices
        BY <1>0 DEF SubmitTold
      <4>. HIDE DEF CompleteTask
      <4>. QED
        BY <3>2, <4>1, <4>2, <2>1, <1>4
    <3>. QED
      BY <2>1, <3>1, <3>2
  <2>. QED
    BY <2>3, <2>4 DEF RewardTold
<1>11. CompletedIsPaid'
  <2>1. EntryOf(c) \in ledger' /\ ledger \subseteq ledger'
    OBVIOUS
  <2>. HIDE DEF CompleteTask
  <2>. QED
    BY <2>1, <1>3, <1>4 DEF IInv, CompletedIsPaid
<1>. QED
  BY <1>6, <1>7, <1>8, <1>9, <1>10, <1>11 DEF IInv

(* Whatever the step it fails at, a call leaves nothing behind.            *)
LEMMA RollbackInv ==
    ASSUME IInv, NEW c \in Call, pc[c] \notin Ended \cup {"idle"}, Rollback(c)
    PROVE  IInv'
<1>. USE DEF IInv, Rollback, Goto, recordVars
<1>1. WalletsInv'
  BY RollbackKeepsInv DEF WalletsInv, TypeOK
<1>2. TypeOK'
  BY <1>1 DEF WalletsInv, TypeOK, Ended
<1>3. CallsInStep'
  BY DEF CallsInStep, TypeOK, Ended, Op, Target, SubmitTold
<1>4. InFlightCovered'
  BY <1>1 DEF WalletsInv
<1>5. InFlightIsReward'
  <2>1. ASSUME NEW d \in Call, NEW u \in User, NEW cur \in Currency
        PROVE  InFlight(d, u, cur)' = IF d = c THEN 0 ELSE InFlight(d, u, cur)
    BY DEF InFlight, TypeOK, Target
  <2>. QED
    BY <2>1 DEF RollbackWallets, NoDelta, TypeOK, WalletsTypeOK, InFlightIsReward
<1>6. RewardTold' /\ CompletedIsPaid'
  BY DEF RewardTold, CompletedIsPaid
<1>. QED
  BY <1>2, <1>3, <1>4, <1>5, <1>6

(* A member who leaves, or a step that changes nothing.                    *)
LEMMA OthersInv ==
    ASSUME IInv,
           UNCHANGED <<walletVars, task, recordVars, callVars>>,
           member' \subseteq member
    PROVE  IInv'
<1>. USE DEF IInv, walletVars, recordVars, callVars
<1>1. TypeOK'
  BY DEF TypeOK, WalletsTypeOK
<1>2. CallsInStep'
  BY DEF CallsInStep, Target, SubmitTold
<1>3. InFlightCovered' /\ InFlightIsReward'
  BY DEF InFlightCovered, Seen, InFlightIsReward, InFlight, Target
<1>4. RewardTold' /\ CompletedIsPaid'
  BY DEF RewardTold, CompletedIsPaid
<1>. QED
  BY <1>1, <1>2, <1>3, <1>4

LEMMA NextIInv ==
    ASSUME IInv, [Next]_vars
    PROVE  IInv'
<1>1. ASSUME NEW c \in Call, Advance(c) PROVE IInv'
  <2>1. ASSUME CreditOverflows(c) \/ TaskVanished(c) PROVE IInv'
    BY <2>1, RollbackInv DEF CreditOverflows, TaskVanished, Ended
  <2>. QED
    BY <1>1, <2>1, ReadTaskInv, EditTaskInv, DeleteTaskInv, SubmitTaskInv,
       RejectTaskInv, CreditRewardInv, CompleteTaskInv DEF Advance
<1>2. ASSUME NEW c \in Call, CutOff(c) PROVE IInv'
  BY <1>2, RollbackInv DEF CutOff
<1>3. ASSUME NEW u \in User, RemoveMember(u) PROVE IInv'
  BY <1>3, OthersInv DEF RemoveMember
<1>4. CASE UNCHANGED vars
  BY <1>4, OthersInv DEF vars
<1>. QED
  BY <1>1, <1>2, <1>3, <1>4, CreateTaskInv, StartInv DEF Next, AllEnded

(* The inductive invariant holds in every reachable state.                 *)
THEOREM Invariance == Spec => []IInv
BY InitIInv, NextIInv, PTL DEF Spec

(* approve_task: the child is told of a reward if and only if it was paid, *)
(* and it is paid only for a task that was submitted.                      *)
THEOREM RewardsAreTold == Spec => []RewardTold
<1>1. IInv => RewardTold
  BY DEF IInv
<1>. QED
  BY <1>1, Invariance, PTL

(* A completed task refers to the record that paid it.                     *)
THEOREM CompletedArePaid == Spec => []CompletedIsPaid
<1>1. IInv => CompletedIsPaid
  BY DEF IInv
<1>. QED
  BY <1>1, Invariance, PTL

(* The commit of an approval changes the balances as its record says.      *)
LEMMA CompletionIsPosted ==
    ASSUME IInv, NEW c \in Call, CompleteTask(c)
    PROVE  L!Post(EntryOf(c)) /\ EntryOf(c) \in L!Entry
<1>. DEFINE e == EntryOf(c)
<1>1. pc[c] = "committing" /\ ledger' = ledger \cup {e}
  BY DEF CompleteTask
<1>2. /\ Target(c) \in Task
      /\ task[Target(c)].assignee \in User
      /\ seen[c].amount \in Amount
      /\ seen[c].amount \in Nat
      /\ seen[c].currency \in Currency
  BY <1>1, WriterFacts
<1>3. /\ e.id = c
      /\ e.source = Nobody
      /\ e.destination = task[Target(c)].assignee
      /\ e.amount = seen[c].amount
      /\ e.currency = seen[c].currency
  BY DEF EntryOf
<1>4. e \in L!Entry
  BY <1>2 DEF EntryOf, L!Entry
<1>5. \A f \in ledger : f.id # e.id
  BY <1>1, <1>3 DEF IInv, CallsInStep
<1>6. ASSUME NEW u \in User, NEW cur \in Currency
      PROVE  Seen(c, u, cur) = balance[u][cur]
                + (IF u = e.destination /\ cur = e.currency THEN e.amount ELSE 0)
                - (IF u = e.source /\ cur = e.currency THEN e.amount ELSE 0)
  <2>1. /\ balance[u][cur] \in Int
        /\ delta[c][u][cur] = InFlight(c, u, cur)
    BY DEF IInv, InFlightIsReward, TypeOK, WalletsTypeOK, Purses
  <2>2. u # Nobody
    BY WalletsAssumption
  <2>. QED
    BY <2>1, <2>2, <1>1, <1>2, <1>3 DEF Seen, InFlight
<1>7. balance' = L!Posted(e)
  BY <1>6 DEF CompleteTask, CommitWallets, L!Posted
<1>8. \A u \in User, cur \in Currency : balance'[u][cur] >= 0
  <2>1. TypeOK'
    BY CompleteTaskInv DEF IInv
  <2>. QED
    BY <2>1 DEF TypeOK, WalletsTypeOK, Purses
<1>. QED
  BY <1>1, <1>4, <1>5, <1>7, <1>8 DEF L!Post

(* Only the commit of an approval touches a balance or the ledger.         *)
LEMMA OnlyCompletionsPost ==
    ASSUME [Next]_vars, \A c \in Call : ~ CompleteTask(c)
    PROVE  UNCHANGED <<balance, ledger>>
<1>. USE DEF vars, walletVars, recordVars, callVars
<1>1. ASSUME NEW c \in Call, Rollback(c) PROVE UNCHANGED <<balance, ledger>>
  BY <1>1 DEF Rollback, RollbackWallets
<1>2. ASSUME NEW c \in Call, Advance(c) PROVE UNCHANGED <<balance, ledger>>
  BY <1>1, <1>2
  DEF Advance, ReadTask, EditTask, DeleteTask, SubmitTask, RejectTask, CreditReward,
      CreditOverflows, TaskVanished, Credit, Update
<1>. QED
  BY <1>1, <1>2 DEF Next, CreateTask, Start, CutOff, RemoveMember, AllEnded

(* task_service implements the promise of Ledger: each reward changes the  *)
(* balance together with its own new record.                               *)
THEOREM ImplementsLedger == Spec => LedgerSpec
<1>1. Init => L!Init
  BY DEF Init, WalletsInit, Purses, L!Init
<1>2. IInv /\ [Next]_vars => [L!Next]_(L!ledgerVars)
  <2>. SUFFICES ASSUME IInv, [Next]_vars PROVE [L!Next]_(L!ledgerVars)
    OBVIOUS
  <2>1. ASSUME NEW c \in Call, CompleteTask(c) PROVE [L!Next]_(L!ledgerVars)
    BY <2>1, CompletionIsPosted DEF L!Next
  <2>2. CASE \A c \in Call : ~ CompleteTask(c)
    BY <2>2, OnlyCompletionsPost DEF L!ledgerVars
  <2>. QED
    BY <2>1, <2>2
<1>. QED
  BY <1>1, <1>2, Invariance, PTL DEF Spec, LedgerSpec, L!Spec

(* No reward is posted for a task that is no longer there.                 *)
THEOREM PaysOnlyExisting == Spec => PaysExistingTask
<1>1. [Next]_vars => [\A e \in ledger' \ ledger : Exists(e.reference)]_ledger
  <2>. SUFFICES ASSUME [Next]_vars, ledger' # ledger
                PROVE  \A e \in ledger' \ ledger : Exists(e.reference)
    OBVIOUS
  <2>1. PICK c \in Call : CompleteTask(c)
    BY OnlyCompletionsPost
  <2>. QED
    BY <2>1 DEF CompleteTask, EntryOf
<1>. QED
  BY <1>1, PTL DEF Spec, PaysExistingTask
=============================================================================
