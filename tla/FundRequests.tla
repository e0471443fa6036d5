---------------------------- MODULE FundRequests ----------------------------
(***************************************************************************)
(* services/fund_request_service.py: a child asks for money, a parent of   *)
(* the family approves (the money moves, once) or rejects.  Every call is  *)
(* a process that performs the statements of its handler one by one in one *)
(* database transaction; other calls run between any two of them, and a    *)
(* call can be cut off before its commit.                                  *)
(*                                                                         *)
(* A request is named by the call that creates it, and a transaction       *)
(* record by the review that posts it: each call inserts at most one.      *)
(***************************************************************************)
EXTENDS Wallets, FiniteSets

CONSTANTS
    Creation,    \* calls POST /fund-requests/
    Review,      \* calls POST /fund-requests/{id}/approve and .../reject
    Parent,      \* users with role "parent"
    Child,       \* users with role "child"
    Admin,       \* the parent who created the family; others have their own
    Amount,      \* amounts a request can ask for
    MaxPending,  \* the limit on a child's pending requests
    Opening      \* the balances before the first call

ASSUME FundRequestsAssumption ==
    /\ Call = Creation \cup Review
    /\ Creation \cap Review = {}
    /\ User = Parent \cup Child
    /\ Parent \cap Child = {}
    /\ Admin \subseteq Parent
    /\ Amount \subseteq Nat \ {0}
    /\ MaxPending \in Nat \ {0}
    /\ Opening \in Purses

VARIABLES
    request,     \* rows of fund_requests; "absent" until the insert commits
    reviewer,    \* the call that holds the lock on a request row
    ledger,      \* committed rows of transactions
    notices,     \* committed rows of notifications
    member,      \* the users with an active membership of the family
    asked,       \* what a review call was asked to do
    pc           \* how far each call has come

requestVars == <<request, reviewer>>
recordVars == <<ledger, notices>>
callVars == <<asked, pc>>
vars == <<walletVars, requestVars, recordVars, member, callVars>>

Status == {"absent", "pending", "approved", "rejected"}

(* long: the reason fills the 500 characters the schema admits.            *)
Row == [child : User, amount : Amount, currency : Currency, long : BOOLEAN,
        status : Status, parent : User \cup {Nobody},
        tx : Review \cup {Nobody}]

Question == [parent : User \cup {Nobody}, target : Creation \cup {Nobody},
             approve : BOOLEAN]

Unasked == [parent |-> Nobody, target |-> Nobody, approve |-> FALSE]

Entry == [id : Review, source : User, destination : User, amount : Amount,
          currency : Currency, reference : Creation]

Notice == [user : User, about : Creation,
           kind : {"created", "approved", "rejected"}]

Ended == {"done", "failed"}

TypeOK ==
    /\ WalletsTypeOK
    /\ request \in [Creation -> Row]
    /\ reviewer \in [Creation -> Review \cup {Nobody}]
    /\ ledger \subseteq Entry
    /\ notices \subseteq Notice
    /\ member \subseteq User
    /\ asked \in [Review -> Question]
    /\ pc \in [Call -> {"idle", "counting", "inserting", "locking",
                        "admitting", "debiting", "crediting", "recording",
                        "committing"} \cup Ended]

Init ==
    /\ WalletsInit(Opening)
    /\ request \in [Creation -> {r \in Row : /\ r.status = "absent"
                                             /\ r.child \in Child
                                             /\ r.parent = Nobody
                                             /\ r.tx = Nobody}]
    /\ reviewer = [r \in Creation |-> Nobody]
    /\ ledger = {}
    /\ notices = {}
    /\ member = Admin \cup Child
    /\ asked = [v \in Review |-> Unasked]
    /\ pc = [c \in Call |-> "idle"]

Goto(c, label) == pc' = [pc EXCEPT ![c] = label]

(* get_db: an exception in the handler, or a lost connection, undoes all.  *)
Rollback(c) ==
    /\ RollbackWallets(c)
    /\ reviewer' = [r \in Creation |-> IF reviewer[r] = c THEN Nobody
                                                          ELSE reviewer[r]]
    /\ Goto(c, "failed")
    /\ UNCHANGED <<request, recordVars, member, asked>>

-----------------------------------------------------------------------------
(* create_request                                                          *)

PendingOf(child) ==
    {r \in Creation : /\ request[r].status = "pending"
                      /\ request[r].child = child}

(* The call arrives (what the child asks for is already in request[c]) and *)
(* get_active_family_membership runs.                                      *)
StartCreate(c) ==
    /\ pc[c] = "idle"
    /\ Goto(c, IF request[c].child \in member THEN "counting" ELSE "failed")
    /\ UNCHANGED <<walletVars, requestVars, recordVars, member, asked>>

(* Count the child's pending requests, then check the limit.                *)
CountPending(c) ==
    /\ pc[c] = "counting"
    /\ Goto(c, IF Cardinality(PendingOf(request[c].child)) >= MaxPending
               THEN "failed" ELSE "inserting")
    /\ UNCHANGED <<walletVars, requestVars, recordVars, member, asked>>

(* INSERT the request, notify the admins, commit.                          *)
InsertRequest(c) ==
    /\ pc[c] = "inserting"
    /\ request' = [request EXCEPT ![c].status = "pending"]
    /\ notices' = notices \cup
                    {[user |-> a, about |-> c, kind |-> "created"] : a \in Admin}
    /\ Goto(c, "done")
    /\ UNCHANGED <<walletVars, reviewer, ledger, member, asked>>

Create(c) == StartCreate(c) \/ CountPending(c) \/ InsertRequest(c)

-----------------------------------------------------------------------------
(* approve_request and reject_request                                      *)

Target(v) == asked[v].target
Asker(v) == request[Target(v)].child

(* The call arrives; require_parent admits only parents.                   *)
StartReview(v) ==
    /\ pc[v] = "idle"
    /\ \E u \in User, r \in Creation, yes \in BOOLEAN :
        /\ asked' = [asked EXCEPT ![v] = [parent |-> u, target |-> r,
                                          approve |-> yes]]
        /\ Goto(v, IF u \in Parent THEN "locking" ELSE "failed")
    /\ UNCHANGED <<walletVars, requestVars, recordVars, member>>

(* Slip: a plain SELECT.                                                   *)
LockRequestUnlocked(v) ==
    /\ pc[v] = "locking"
    /\ request[Target(v)].status # "absent"
    /\ reviewer' = [reviewer EXCEPT ![Target(v)] = v]
    /\ Goto(v, "admitting")
    /\ UNCHANGED <<walletVars, request, recordVars, member, asked>>

(* SELECT ... FOR UPDATE waits for the holder of the row.                  *)
LockRequest(v) ==
    /\ pc[v] = "locking"
    /\ request[Target(v)].status # "absent"
    /\ reviewer[Target(v)] = Nobody
    /\ reviewer' = [reviewer EXCEPT ![Target(v)] = v]
    /\ Goto(v, "admitting")
    /\ UNCHANGED <<walletVars, request, recordVars, member, asked>>

RequestNotFound(v) ==
    /\ pc[v] = "locking"
    /\ request[Target(v)].status = "absent"
    /\ Rollback(v)

(* Slip: the status is not checked.                                        *)
MayReviewAgain(v) == asked[v].parent \in member

(* The membership check, then "only pending can be reviewed".              *)
MayReview(v) ==
    /\ asked[v].parent \in member
    /\ request[Target(v)].status = "pending"

AdmitReview(v) ==
    /\ pc[v] = "admitting"
    /\ MayReview(v)
    /\ Goto(v, IF asked[v].approve THEN "debiting" ELSE "committing")
    /\ UNCHANGED <<walletVars, requestVars, recordVars, member, asked>>

RefuseReview(v) ==
    /\ pc[v] = "admitting"
    /\ ~ MayReview(v)
    /\ Rollback(v)

DebitParent(v) ==
    /\ pc[v] = "debiting"
    /\ LET r == request[Target(v)]
       IN  Debit(v, asked[v].parent, r.currency, r.amount)
    /\ Goto(v, "crediting")
    /\ UNCHANGED <<requestVars, recordVars, member, asked>>

InsufficientBalance(v) ==
    /\ pc[v] = "debiting"
    /\ LET r == request[Target(v)]
       IN  DebitFails(v, asked[v].parent, r.currency, r.amount)
    /\ Rollback(v)

CreditChild(v) ==
    /\ pc[v] = "crediting"
    /\ LET r == request[Target(v)]
       IN  Credit(v, Asker(v), r.currency, r.amount)
    /\ Goto(v, "recording")
    /\ UNCHANGED <<requestVars, recordVars, member, asked>>

CreditOverflows(v) ==
    /\ pc[v] = "crediting"
    /\ LET r == request[Target(v)]
       IN  CreditFails(v, Asker(v), r.currency, r.amount)
    /\ Rollback(v)

(* INSERT the transaction record.  Its description is the reason with a    *)
(* prefix, in a column as wide as the longest reason.                      *)
RecordTransaction(v) ==
    /\ pc[v] = "recording"
    /\ ~ request[Target(v)].long
    /\ Goto(v, "committing")
    /\ UNCHANGED <<walletVars, requestVars, recordVars, member, asked>>

DescriptionTooLong(v) ==
    /\ pc[v] = "recording"
    /\ request[Target(v)].long
    /\ Rollback(v)

(* The rows a review leaves behind: the reviewed request, the record of    *)
(* the transfer and the notification of the child.  No other call can see  *)
(* them, or wait for them, before the commit.                              *)
Reviewed(v) ==
    LET r == request[Target(v)]
    IN  [r EXCEPT !.status = IF asked[v].approve THEN "approved" ELSE "rejected",
                  !.parent = asked[v].parent,
                  !.tx = IF asked[v].approve THEN v ELSE Nobody]

(* Slip: source and destination exchanged.                                 *)
EntryReversed(v) ==
    LET r == request[Target(v)]
    IN  [id |-> v, source |-> r.child, destination |-> asked[v].parent,
         amount |-> r.amount, currency |-> r.currency,
         reference |-> Target(v)]

EntryOf(v) ==
    LET r == request[Target(v)]
    IN  [id |-> v, source |-> asked[v].parent, destination |-> r.child,
         amount |-> r.amount, currency |-> r.currency,
         reference |-> Target(v)]

(* Slip: a rejection does not notify.                                      *)
CommitReviewUntold(v) ==
    /\ pc[v] = "committing"
    /\ request' = [request EXCEPT ![Target(v)] = Reviewed(v)]
    /\ ledger' = IF asked[v].approve THEN ledger \cup {EntryOf(v)} ELSE ledger
    /\ notices' = IF asked[v].approve
                  THEN notices \cup {[user |-> Asker(v), about |-> Target(v),
                                      kind |-> "approved"]}
                  ELSE notices
    /\ CommitWallets(v)
    /\ reviewer' = [r \in Creation |-> IF reviewer[r] = v THEN Nobody
                                                          ELSE reviewer[r]]
    /\ Goto(v, "done")
    /\ UNCHANGED <<member, asked>>

CommitReview(v) ==
    /\ pc[v] = "committing"
    /\ request' = [request EXCEPT ![Target(v)] = Reviewed(v)]
    /\ ledger' = IF asked[v].approve THEN ledger \cup {EntryOf(v)} ELSE ledger
    /\ notices' = notices \cup {[user |-> Asker(v), about |-> Target(v),
                                 kind |-> Reviewed(v).status]}
    /\ CommitWallets(v)
    /\ reviewer' = [r \in Creation |-> IF reviewer[r] = v THEN Nobody
                                                          ELSE reviewer[r]]
    /\ Goto(v, "done")
    /\ UNCHANGED <<member, asked>>

Advance(v) ==
    \/ LockRequest(v)
    \/ RequestNotFound(v)
    \/ AdmitReview(v)
    \/ RefuseReview(v)
    \/ DebitParent(v)
    \/ InsufficientBalance(v)
    \/ CreditChild(v)
    \/ CreditOverflows(v)
    \/ RecordTransaction(v)
    \/ DescriptionTooLong(v)
    \/ CommitReview(v)

-----------------------------------------------------------------------------
(* The environment                                                         *)

(* The worker or its connection dies before the commit.                    *)
CutOff(c) ==
    /\ pc[c] \notin Ended \cup {"idle"}
    /\ Rollback(c)

(* family_service.remove_member, by an admin, of someone who is no admin.  *)
RemoveMember(u) ==
    /\ u \in member \ Admin
    /\ member' = member \ {u}
    /\ UNCHANGED <<walletVars, requestVars, recordVars, callVars>>

AllEnded ==
    /\ \A c \in Call : pc[c] \in Ended
    /\ UNCHANGED vars

Next ==
    \/ \E c \in Creation : Create(c)
    \/ \E v \in Review : StartReview(v)
    \/ \E v \in Review : Advance(v)
    \/ \E c \in Call : CutOff(c)
    \/ \E u \in User : RemoveMember(u)
    \/ AllEnded

Spec == Init /\ [][Next]_vars

-----------------------------------------------------------------------------
(* Properties                                                              *)

(* A request is approved exactly when the ledger holds a record of it, it  *)
(* holds one record only, posted by the review that approved it, and that  *)
(* record moves what was asked from the reviewer to the asker (the comment *)
(* "prevent concurrent double-approval", approve_request).                 *)
PaidIffApproved ==
    /\ \A r \in Creation :
        request[r].status = "approved" <=> \E e \in ledger : e.reference = r
    /\ \A e, f \in ledger : e.reference = f.reference => e = f
    /\ \A e \in ledger :
        LET r == request[e.reference]
        IN  /\ r.tx = e.id
            /\ r.parent = e.source
            /\ r.child = e.destination
            /\ r.amount = e.amount
            /\ r.currency = e.currency

(* From the SELECT ... FOR UPDATE to its end a review holds the row it     *)
(* decided on: once admitted, what it read is still true when it commits.  *)
DecisionStaysValid ==
    \A v \in Review :
        /\ pc[v] \in {"admitting", "debiting", "crediting", "recording",
                      "committing"} => reviewer[Target(v)] = v
        /\ pc[v] \in {"debiting", "crediting", "recording", "committing"} =>
            request[Target(v)].status = "pending"

(* A request row exists exactly from the commit of its creation; a review  *)
(* at work has a parent and a target; the reviews that posted are over.    *)
CallsInStep ==
    /\ \A c \in Creation : request[c].status # "absent" <=> pc[c] = "done"
    /\ \A v \in Review :
        /\ pc[v] \notin {"counting", "inserting"}
        /\ pc[v] \notin Ended \cup {"idle"} =>
            asked[v].parent \in Parent /\ asked[v].target \in Creation
        /\ pc[v] \in {"debiting", "crediting", "recording"} => asked[v].approve
    /\ \A r \in Creation : request[r].child \in Child
    /\ \A e \in ledger : pc[e.id] = "done"

(* What a review has changed and not committed is, at every point, the     *)
(* part of the transfer it has performed so far, and nothing else.         *)
InFlight(v, u, cur) ==
    LET Moved == request[Target(v)].amount
        Mine == asked[v].approve /\ cur = request[Target(v)].currency
    IN  (IF pc[v] \in {"recording", "committing"} /\ Mine /\ u = Asker(v)
         THEN Moved ELSE 0)
      - (IF /\ pc[v] \in {"crediting", "recording", "committing"}
            /\ Mine /\ u = asked[v].parent
         THEN Moved ELSE 0)

InFlightIsTransfer ==
    \A u \in User, cur \in Currency :
        /\ \A v \in Review : delta[v][u][cur] = InFlight(v, u, cur)
        /\ \A c \in Creation : delta[c][u][cur] = 0

(* A child is told of a verdict exactly when it was committed: no notice   *)
(* survives a rolled back review, no review commits without its notice.    *)
VerdictTold ==
    \A r \in Creation, verdict \in {"approved", "rejected"} :
        request[r].status = verdict <=>
            [user |-> request[r].child, about |-> r, kind |-> verdict] \in notices

(* The inductive invariant of the proofs in FundRequestsProofs.            *)
IInv ==
    /\ TypeOK
    /\ CallsInStep
    /\ InFlightCovered
    /\ InFlightIsTransfer
    /\ DecisionStaysValid
    /\ PaidIffApproved
    /\ VerdictTold

(* "Double approve/reject -> 400": nothing about a reviewed request ever   *)
(* changes again, whatever calls were in flight when it was reviewed.      *)
ReviewIsFinal ==
    [][\A r \in Creation : request[r].status \in {"approved", "rejected"} =>
            request'[r] = request[r]]_request

(* The service implements the promise of module Ledger: balances change    *)
(* only together with the permanent record of the movement.                *)
L == INSTANCE Ledger WITH TxId <- Review, Reference <- Creation
LedgerSpec == L!Spec
=============================================================================
