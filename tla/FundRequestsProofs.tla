------------------------- MODULE FundRequestsProofs -------------------------
(***************************************************************************)
(* FundRequests for every number of calls, users, requests and amounts.    *)
(***************************************************************************)
EXTENDS FundRequests, WalletsProofs

USE FundRequestsAssumption, WalletsAssumption

LEMMA InitIInv == Init => IInv
<1>. SUFFICES ASSUME Init PROVE IInv
  OBVIOUS
<1>. USE DEF Init
<1>1. WalletsInv
  BY WalletsInitInv
<1>2. TypeOK
  BY <1>1 DEF WalletsInv, TypeOK, Row, Question, Unasked
<1>3. CallsInStep
  BY DEF CallsInStep, Ended
<1>4. InFlightIsTransfer
  BY DEF InFlightIsTransfer, InFlight, WalletsInit, NoDelta
<1>5. DecisionStaysValid /\ PaidIffApproved /\ VerdictTold
  BY DEF DecisionStaysValid, PaidIffApproved, VerdictTold
<1>. QED
  BY <1>1, <1>2, <1>3, <1>4, <1>5 DEF IInv, WalletsInv

(* What a review at work refers to.                                        *)
LEMMA ReviewFacts ==
    ASSUME IInv, NEW v \in Review, pc[v] \notin Ended \cup {"idle"}
    PROVE  /\ Target(v) \in Creation
           /\ asked[v].parent \in Parent
           /\ asked[v].parent \in User
           /\ Asker(v) \in Child
           /\ Asker(v) \in User
           /\ Asker(v) # asked[v].parent
           /\ request[Target(v)] \in Row
           /\ request[Target(v)].amount \in Amount
           /\ request[Target(v)].amount \in Nat \ {0}
           /\ request[Target(v)].currency \in Currency
BY DEF IInv, TypeOK, CallsInStep, Target, Asker, Row

(* create_request before its insert: it has read, and written nothing.     *)
LEMMA StartCreateInv ==
    ASSUME IInv, NEW c \in Creation, StartCreate(c)
    PROVE  IInv'
<1>. USE DEF IInv, StartCreate, Goto, walletVars, requestVars, recordVars, callVars
<1>1. TypeOK'
  BY DEF TypeOK, WalletsTypeOK, Ended
<1>2. CallsInStep'
  BY DEF CallsInStep, TypeOK, Ended
<1>3. InFlightCovered'
  BY DEF InFlightCovered, Seen
<1>4. InFlightIsTransfer'
  BY DEF InFlightIsTransfer, InFlight, TypeOK, Target, Asker
<1>5. DecisionStaysValid'
  BY DEF DecisionStaysValid, TypeOK, Target
<1>6. PaidIffApproved' /\ VerdictTold'
  BY DEF PaidIffApproved, VerdictTold
<1>. QED
  BY <1>1, <1>2, <1>3, <1>4, <1>5, <1>6

(* The count decides where the call goes, whatever it was.                 *)
LEMMA CountPendingInv ==
    ASSUME IInv, NEW c \in Creation, CountPending(c)
    PROVE  IInv'
<1>. USE DEF IInv, CountPending, Goto, walletVars, requestVars, recordVars, callVars
<1>1. TypeOK'
  BY DEF TypeOK, WalletsTypeOK, Ended
<1>2. CallsInStep'
  BY DEF CallsInStep, TypeOK, Ended
<1>3. InFlightCovered'
  BY DEF InFlightCovered, Seen
<1>4. InFlightIsTransfer'
  BY DEF InFlightIsTransfer, InFlight, TypeOK, Target, Asker
<1>5. DecisionStaysValid'
  BY DEF DecisionStaysValid, TypeOK, Target
<1>6. PaidIffApproved' /\ VerdictTold'
  BY DEF PaidIffApproved, VerdictTold
<1>. QED
  BY <1>1, <1>2, <1>3, <1>4, <1>5, <1>6

(* The insert makes a row appear that no review has asked about before.    *)
LEMMA InsertRequestInv ==
    ASSUME IInv, NEW c \in Creation, InsertRequest(c)
    PROVE  IInv'
<1>. USE DEF IInv, InsertRequest, Goto, walletVars, requestVars, recordVars, callVars
<1>1. TypeOK'
  <2>1. request' \in [Creation -> Row]
    BY DEF TypeOK, Row, Status
  <2>2. notices' \subseteq Notice
    BY DEF TypeOK, Notice
  <2>. QED
    BY <2>1, <2>2 DEF TypeOK, WalletsTypeOK, Ended
<1>2. CallsInStep'
  BY DEF CallsInStep, TypeOK, Ended
<1>3. InFlightCovered'
  BY DEF InFlightCovered, Seen
<1>4. InFlightIsTransfer'
  BY DEF InFlightIsTransfer, InFlight, TypeOK, Target, Asker, CallsInStep, Row
<1>5. DecisionStaysValid'
  BY DEF DecisionStaysValid, TypeOK, Target, Row
<1>6. request[c].status = "absent"
  BY DEF CallsInStep
<1>7. \A r \in Creation :
        /\ r # c => request'[r] = request[r]
        /\ request'[r].child = request[r].child
        /\ request'[r].status = IF r = c THEN "pending" ELSE request[r].status
  BY DEF TypeOK, Row
<1>8. PaidIffApproved'
  <2>1. \A e \in ledger : e.reference \in Creation /\ e.reference # c
    BY <1>6 DEF PaidIffApproved, TypeOK, Entry
  <2>. QED
    BY <2>1, <1>6, <1>7 DEF PaidIffApproved
<1>9. VerdictTold'
  <2>. SUFFICES ASSUME NEW r \in Creation, NEW verdict \in {"approved", "rejected"}
                PROVE  (request[r].status = verdict <=>
                          [user |-> request[r].child, about |-> r,
                           kind |-> verdict] \in notices)'
    BY DEF VerdictTold
  <2>1. \A n \in notices' : n.kind # "created" => n \in notices
    OBVIOUS
  <2>2. notices \subseteq notices'
    OBVIOUS
  <2>. DEFINE told == [user |-> request[r].child, about |-> r, kind |-> verdict]
  <2>3. told.kind # "created"
    OBVIOUS
  <2>4. told \in notices' <=> told \in notices
    BY <2>1, <2>2, <2>3
  <2>5. request[r].status = verdict <=> told \in notices
    BY DEF VerdictTold
  <2>6. request'[r].status = verdict <=> request[r].status = verdict
    BY <1>6, <1>7
  <2>7. request'[r].child = request[r].child
    BY <1>7
  <2>. HIDE DEF IInv, InsertRequest
  <2>. QED
    BY <2>4, <2>5, <2>6, <2>7
<1>. QED
  BY <1>1, <1>2, <1>3, <1>4, <1>5, <1>8, <1>9

(* A review arrives.                                                       *)
LEMMA StartReviewInv ==
    ASSUME IInv, NEW v \in Review, StartReview(v)
    PROVE  IInv'
<1>. USE DEF IInv, StartReview, Goto, walletVars, requestVars, recordVars, callVars
<1>1. TypeOK'
  BY DEF TypeOK, WalletsTypeOK, Ended, Question
<1>2. CallsInStep'
  BY DEF CallsInStep, TypeOK, Ended, Question
<1>3. InFlightCovered'
  BY DEF InFlightCovered, Seen
<1>4. InFlightIsTransfer'
  BY DEF InFlightIsTransfer, InFlight, TypeOK, Target, Asker
<1>5. DecisionStaysValid'
  BY DEF DecisionStaysValid, TypeOK, Target
<1>6. PaidIffApproved' /\ VerdictTold'
  BY DEF PaidIffApproved, VerdictTold
<1>. QED
  BY <1>1, <1>2, <1>3, <1>4, <1>5, <1>6

(* The row lock of SELECT ... FOR UPDATE is taken by one review at a time. *)
LEMMA LockRequestInv ==
    ASSUME IInv, NEW v \in Review, LockRequest(v)
    PROVE  IInv'
<1>. USE DEF IInv, LockRequest, Goto, walletVars, requestVars, recordVars, callVars
<1>1. TypeOK'
  BY DEF TypeOK, WalletsTypeOK, Ended
<1>2. CallsInStep'
  BY DEF CallsInStep, TypeOK, Ended
<1>3. InFlightCovered'
  BY DEF InFlightCovered, Seen
<1>4. InFlightIsTransfer'
  BY DEF InFlightIsTransfer, InFlight, TypeOK, Target, Asker
<1>5. DecisionStaysValid'
  BY DEF DecisionStaysValid, TypeOK, Target, CallsInStep, Ended
<1>6. PaidIffApproved' /\ VerdictTold'
  BY DEF PaidIffApproved, VerdictTold
<1>. QED
  BY <1>1, <1>2, <1>3, <1>4, <1>5, <1>6

(* The checks read a row that is locked: what they saw stays true.         *)
LEMMA AdmitReviewInv ==
    ASSUME IInv, NEW v \in Review, AdmitReview(v)
    PROVE  IInv'
<1>. USE DEF IInv, AdmitReview, Goto, walletVars, requestVars, recordVars, callVars
<1>1. TypeOK'
  BY DEF TypeOK, WalletsTypeOK, Ended
<1>2. CallsInStep'
  BY DEF CallsInStep, TypeOK, Ended
<1>3. InFlightCovered'
  BY DEF InFlightCovered, Seen
<1>4. InFlightIsTransfer'
  BY DEF InFlightIsTransfer, InFlight, TypeOK, Target, Asker
<1>5. DecisionStaysValid'
  BY DEF DecisionStaysValid, TypeOK, Target, MayReview
<1>6. PaidIffApproved' /\ VerdictTold'
  BY DEF PaidIffApproved, VerdictTold
<1>. QED
  BY <1>1, <1>2, <1>3, <1>4, <1>5, <1>6

(* debit changes only what the review holds uncommitted.                   *)
LEMMA DebitParentInv ==
    ASSUME IInv, NEW v \in Review, DebitParent(v)
    PROVE  IInv'
<1>. USE DEF IInv, DebitParent, Goto, walletVars, requestVars, recordVars, callVars
<1>. DEFINE r == request[Target(v)]
<1>0. /\ Target(v) \in Creation
      /\ asked[v].parent \in User
      /\ Asker(v) \in User
      /\ Asker(v) # asked[v].parent
      /\ r.amount \in Nat \ {0}
      /\ r.currency \in Currency
      /\ r.amount \in Int
  BY ReviewFacts DEF Ended
<1>1. WalletsInv'
  BY <1>0, DebitKeepsInv DEF WalletsInv, TypeOK
<1>2. TypeOK'
  BY <1>1 DEF WalletsInv, TypeOK, Ended
<1>3. CallsInStep'
  BY DEF CallsInStep, TypeOK, Ended
<1>4. InFlightCovered'
  BY <1>1 DEF WalletsInv
<1>5. InFlightIsTransfer'
  <2>1. ASSUME NEW c \in Call, NEW u \in User, NEW cur \in Currency
        PROVE  delta'[c][u][cur] = IF c = v /\ u = asked[v].parent /\ cur = r.currency
                                   THEN delta[c][u][cur] + (-r.amount)
                                   ELSE delta[c][u][cur]
    BY <1>0 DEF Debit, Update, TypeOK, WalletsTypeOK
  <2>2. ASSUME NEW w \in Review, w # v, NEW u \in User, NEW cur \in Currency
        PROVE  InFlight(w, u, cur)' = InFlight(w, u, cur)
    BY <2>2 DEF InFlight, TypeOK, Target, Asker
  <2>3. ASSUME NEW u \in User, NEW cur \in Currency
        PROVE  /\ InFlight(v, u, cur) = 0
               /\ InFlight(v, u, cur)' =
                    IF u = asked[v].parent /\ cur = r.currency
                    THEN -r.amount ELSE 0
    BY <1>0 DEF InFlight, TypeOK, Target, Asker, CallsInStep
  <2>. QED
    BY <2>1, <2>2, <2>3, <1>0 DEF InFlightIsTransfer
<1>6. DecisionStaysValid'
  BY DEF DecisionStaysValid, TypeOK, Target
<1>7. PaidIffApproved' /\ VerdictTold'
  BY DEF PaidIffApproved, VerdictTold
<1>. QED
  BY <1>1, <1>2, <1>3, <1>4, <1>5, <1>6, <1>7

(* credit completes the transfer, still uncommitted.                       *)
LEMMA CreditChildInv ==
    ASSUME IInv, NEW v \in Review, CreditChild(v)
    PROVE  IInv'
<1>. USE DEF IInv, CreditChild, Goto, walletVars, requestVars, recordVars, callVars
<1>. DEFINE r == request[Target(v)]
<1>0. /\ Target(v) \in Creation
      /\ asked[v].parent \in User
      /\ Asker(v) \in User
      /\ Asker(v) # asked[v].parent
      /\ r.amount \in Nat \ {0}
      /\ r.currency \in Currency
      /\ r.amount \in Int
  BY ReviewFacts DEF Ended
<1>1. WalletsInv'
  BY <1>0, CreditKeepsInv DEF WalletsInv, TypeOK
<1>2. TypeOK'
  BY <1>1 DEF WalletsInv, TypeOK, Ended
<1>3. CallsInStep'
  BY DEF CallsInStep, TypeOK, Ended
<1>4. InFlightCovered'
  BY <1>1 DEF WalletsInv
<1>5. InFlightIsTransfer'
  <2>1. ASSUME NEW c \in Call, NEW u \in User, NEW cur \in Currency
        PROVE  delta'[c][u][cur] = IF c = v /\ u = Asker(v) /\ cur = r.currency
                                   THEN delta[c][u][cur] + (r.amount)
                                   ELSE delta[c][u][cur]
    BY <1>0 DEF Credit, Update, TypeOK, WalletsTypeOK
  <2>2. ASSUME NEW w \in Review, w # v, NEW u \in User, NEW cur \in Currency
        PROVE  InFlight(w, u, cur)' = InFlight(w, u, cur)
    BY <2>2 DEF InFlight, TypeOK, Target, Asker
  <2>3. ASSUME NEW u \in User, NEW cur \in Currency
        PROVE  InFlight(v, u, cur)' =
                    IF u = Asker(v) /\ cur = r.currency
                    THEN InFlight(v, u, cur) + r.amount
                    ELSE InFlight(v, u, cur)
    BY <1>0 DEF InFlight, TypeOK, Target, Asker, CallsInStep
  <2>. QED
    BY <2>1, <2>2, <2>3, <1>0 DEF InFlightIsTransfer
<1>6. DecisionStaysValid'
  BY DEF DecisionStaysValid, TypeOK, Target
<1>7. PaidIffApproved' /\ VerdictTold'
  BY DEF PaidIffApproved, VerdictTold
<1>. QED
  BY <1>1, <1>2, <1>3, <1>4, <1>5, <1>6, <1>7

(* The transaction record is inserted, still uncommitted.                  *)
LEMMA RecordTransactionInv ==
    ASSUME IInv, NEW v \in Review, RecordTransaction(v)
    PROVE  IInv'
<1>. USE DEF IInv, RecordTransaction, Goto, walletVars, requestVars, recordVars, callVars
<1>1. TypeOK'
  BY DEF TypeOK, WalletsTypeOK, Ended
<1>2. CallsInStep'
  BY DEF CallsInStep, TypeOK, Ended
<1>3. InFlightCovered'
  BY DEF InFlightCovered, Seen
<1>4. InFlightIsTransfer'
  BY DEF InFlightIsTransfer, InFlight, TypeOK, Target, Asker
<1>5. DecisionStaysValid'
  BY DEF DecisionStaysValid, TypeOK, Target
<1>6. PaidIffApproved' /\ VerdictTold'
  BY DEF PaidIffApproved, VerdictTold
<1>. QED
  BY <1>1, <1>2, <1>3, <1>4, <1>5, <1>6

(* The commit of a review makes its four effects visible in one step.      *)
LEMMA CommitReviewInv ==
    ASSUME IInv, NEW v \in Review, CommitReview(v)
    PROVE  IInv'
<1>. USE DEF CommitReview, Goto
<1>. DEFINE t == Target(v)
            r == request[Target(v)]
<1>0. /\ t \in Creation
      /\ asked[v].parent \in Parent
      /\ asked[v].parent \in User
      /\ Asker(v) \in User
      /\ Asker(v) = r.child
      /\ r \in Row
      /\ r.amount \in Amount
      /\ r.currency \in Currency
      /\ pc[v] = "committing"
      /\ reviewer[t] = v
      /\ r.status = "pending"
  BY ReviewFacts DEF Ended, IInv, DecisionStaysValid, Asker
<1>1. WalletsInv'
  BY CommitKeepsInv DEF WalletsInv, IInv, TypeOK
<1>2. /\ Reviewed(v) \in Row
      /\ Reviewed(v).child = r.child
      /\ Reviewed(v).amount = r.amount
      /\ Reviewed(v).currency = r.currency
      /\ Reviewed(v).status = IF asked[v].approve THEN "approved" ELSE "rejected"
      /\ Reviewed(v).parent = asked[v].parent
      /\ Reviewed(v).tx = IF asked[v].approve THEN v ELSE Nobody
  BY <1>0 DEF Reviewed, Row, Status
<1>3. /\ request'[t] = Reviewed(v)
      /\ \A q \in Creation : q # t => request'[q] = request[q]
      /\ request' \in [Creation -> Row]
  BY <1>0, <1>2 DEF IInv, TypeOK
<1>4. \A w \in Review : pc[w] \in {"debiting", "crediting", "recording", "committing"}
                            /\ w # v => Target(w) # t
  BY <1>0, WalletsAssumption DEF IInv, DecisionStaysValid
<1>5. EntryOf(v) \in Entry /\ EntryOf(v).reference = t /\ EntryOf(v).id = v
  BY <1>0 DEF EntryOf, Entry
<1>6. TypeOK'
  <2>1. ledger' \subseteq Entry
    BY <1>5 DEF IInv, TypeOK
  <2>2. notices' \subseteq Notice
    BY <1>0, <1>2 DEF IInv, TypeOK, Notice
  <2>. QED
    BY <1>1, <1>3, <2>1, <2>2 DEF IInv, TypeOK, WalletsInv, Ended
<1>7. CallsInStep'
  <2>1. \A c \in Creation : request'[c].status # "absent" <=> pc'[c] = "done"
    BY <1>0, <1>2, <1>3 DEF IInv, CallsInStep, TypeOK
  <2>2. \A c \in Creation : request'[c].child \in Child
    BY <1>0, <1>2, <1>3 DEF IInv, CallsInStep
  <2>3. \A e \in ledger' : pc'[e.id] = "done"
    BY <1>5 DEF IInv, CallsInStep, TypeOK, Entry
  <2>. QED
    BY <2>1, <2>2, <2>3 DEF IInv, CallsInStep, TypeOK, Ended
<1>8. InFlightCovered'
  BY <1>1 DEF WalletsInv
<1>9. InFlightIsTransfer'
  <2>1. ASSUME NEW c \in Creation, NEW u \in User, NEW cur \in Currency
        PROVE  delta'[c][u][cur] = 0
    BY DEF CommitWallets, IInv, InFlightIsTransfer, TypeOK, WalletsTypeOK
  <2>2. ASSUME NEW w \in Review, NEW u \in User, NEW cur \in Currency
        PROVE  delta'[w][u][cur] = InFlight(w, u, cur)'
    <3>1. CASE w = v
      BY <3>1 DEF CommitWallets, IInv, TypeOK, WalletsTypeOK, NoDelta, InFlight
    <3>2. CASE w # v /\ pc[w] \in {"crediting", "recording", "committing"}
      <4>1. InFlight(w, u, cur)' = InFlight(w, u, cur)
        BY <1>3, <1>4, <3>2, ReviewFacts
        DEF IInv, TypeOK, InFlight, Target, Asker, Ended
      <4>. QED
        BY <3>2, <4>1 DEF CommitWallets, IInv, TypeOK, WalletsTypeOK, InFlightIsTransfer
    <3>3. CASE w # v /\ pc[w] \notin {"crediting", "recording", "committing"}
      <4>1. InFlight(w, u, cur)' = 0 /\ InFlight(w, u, cur) = 0
        BY <3>3 DEF IInv, TypeOK, InFlight
      <4>. QED
        BY <3>3, <4>1 DEF CommitWallets, IInv, TypeOK, WalletsTypeOK, InFlightIsTransfer
    <3>. QED
      BY <3>1, <3>2, <3>3
  <2>. QED
    BY <2>1, <2>2 DEF InFlightIsTransfer
<1>10. DecisionStaysValid'
  BY <1>3, <1>4, WalletsAssumption
  DEF IInv, TypeOK, DecisionStaysValid, Target, CallsInStep, Ended
<1>11. PaidIffApproved'
  <2>1. \A e \in ledger : e.reference \in Creation /\ e.reference # t
    BY <1>0 DEF IInv, PaidIffApproved, TypeOK, Entry
  <2>2. \A e \in ledger : request'[e.reference] = request[e.reference]
    BY <2>1, <1>3
  <2>3. CASE asked[v].approve
    <3>1. ledger' = ledger \cup {EntryOf(v)}
      BY <2>3
    <3>2. /\ request'[t].tx = EntryOf(v).id
          /\ request'[t].parent = EntryOf(v).source
          /\ request'[t].child = EntryOf(v).destination
          /\ request'[t].amount = EntryOf(v).amount
          /\ request'[t].currency = EntryOf(v).currency
          /\ request'[t].status = "approved"
      BY <2>3, <1>2, <1>3 DEF EntryOf
    <3>. HIDE DEF CommitReview
    <3>. QED
      BY <2>1, <2>2, <3>1, <3>2, <1>3, <1>5 DEF IInv, PaidIffApproved
  <2>4. CASE ~ asked[v].approve
    <3>1. ledger' = ledger /\ request'[t].status = "rejected"
      BY <2>4, <1>2, <1>3
    <3>. HIDE DEF CommitReview
    <3>. QED
      BY <2>1, <2>2, <3>1, <1>0, <1>3 DEF IInv, PaidIffApproved
  <2>. QED
    BY <2>3, <2>4
<1>12. VerdictTold'
  <2>. DEFINE new == [user |-> Asker(v), about |-> t, kind |-> Reviewed(v).status]
  <2>. SUFFICES ASSUME NEW q \in Creation, NEW verdict \in {"approved", "rejected"}
                PROVE  (request[q].status = verdict <=>
                          [user |-> request[q].child, about |-> q,
                           kind |-> verdict] \in notices)'
    BY DEF VerdictTold
  <2>. DEFINE told == [user |-> request[q].child, about |-> q, kind |-> verdict]
  <2>1. request'[q].child = request[q].child
    BY <1>2, <1>3
  <2>2. request[q].status = verdict <=> told \in notices
    BY DEF IInv, VerdictTold
  <2>3. told \in notices' <=> told \in notices \/ told = new
    BY <1>0
  <2>4. told = new <=> q = t /\ verdict = Reviewed(v).status
    BY <1>0
  <2>5. request'[q].status = verdict <=>
            request[q].status = verdict \/ (q = t /\ verdict = Reviewed(v).status)
    BY <1>0, <1>3
  <2>. HIDE DEF CommitReview, told, new
  <2>6. request'[q].status = verdict <=> told \in notices'
    BY <2>2, <2>3, <2>4, <2>5
  <2>. QED
    BY <2>6, <2>1 DEF told
<1>. QED
  BY <1>6, <1>7, <1>8, <1>9, <1>10, <1>11, <1>12 DEF IInv

(* Whatever the step it fails at, a call leaves nothing behind.            *)
LEMMA RollbackInv ==
    ASSUME IInv, NEW c \in Call, pc[c] \notin Ended \cup {"idle"}, Rollback(c)
    PROVE  IInv'
<1>. USE DEF IInv, Rollback, Goto, recordVars
<1>1. WalletsInv'
  BY RollbackKeepsInv DEF WalletsInv, TypeOK
<1>2. TypeOK'
  BY <1>1 DEF WalletsInv, TypeOK, Ended
<1>3. CallsInStep'
  BY DEF CallsInStep, TypeOK, Ended
<1>4. InFlightCovered'
  BY <1>1 DEF WalletsInv
<1>5. InFlightIsTransfer'
  <2>1. ASSUME NEW d \in Call, NEW u \in User, NEW cur \in Currency
        PROVE  delta'[d][u][cur] = IF d = c THEN 0 ELSE delta[d][u][cur]
    BY DEF RollbackWallets, TypeOK, WalletsTypeOK, NoDelta
  <2>2. ASSUME NEW w \in Review, NEW u \in User, NEW cur \in Currency
        PROVE  InFlight(w, u, cur)' = IF w = c THEN 0 ELSE InFlight(w, u, cur)
    BY DEF InFlight, TypeOK, Target, Asker
  <2>. QED
    BY <2>1, <2>2 DEF InFlightIsTransfer
<1>6. DecisionStaysValid'
  BY DEF DecisionStaysValid, TypeOK, Target, Ended, CallsInStep
<1>7. PaidIffApproved' /\ VerdictTold'
  BY DEF PaidIffApproved, VerdictTold
<1>. QED
  BY <1>2, <1>3, <1>4, <1>5, <1>6, <1>7

(* A member removed in the middle of a review changes nothing it relies on.*)
LEMMA RemoveMemberInv ==
    ASSUME IInv, NEW u \in User, RemoveMember(u)
    PROVE  IInv'
<1>. USE DEF IInv, RemoveMember, walletVars, requestVars, recordVars, callVars
<1>1. TypeOK'
  BY DEF TypeOK, WalletsTypeOK
<1>2. CallsInStep' /\ DecisionStaysValid'
  BY DEF CallsInStep, DecisionStaysValid, Target
<1>3. InFlightCovered' /\ InFlightIsTransfer'
  BY DEF InFlightCovered, Seen, InFlightIsTransfer, InFlight, Target, Asker
<1>4. PaidIffApproved' /\ VerdictTold'
  BY DEF PaidIffApproved, VerdictTold
<1>. QED
  BY <1>1, <1>2, <1>3, <1>4

LEMMA StutterInv ==
    ASSUME IInv, UNCHANGED vars
    PROVE  IInv'
<1>. USE DEF IInv, vars, walletVars, requestVars, recordVars, callVars
<1>1. TypeOK'
  BY DEF TypeOK, WalletsTypeOK
<1>2. CallsInStep' /\ DecisionStaysValid'
  BY DEF CallsInStep, DecisionStaysValid, Target
<1>3. InFlightCovered' /\ InFlightIsTransfer'
  BY DEF InFlightCovered, Seen, InFlightIsTransfer, InFlight, Target, Asker
<1>4. PaidIffApproved' /\ VerdictTold'
  BY DEF PaidIffApproved, VerdictTold
<1>. QED
  BY <1>1, <1>2, <1>3, <1>4

LEMMA NextIInv ==
    ASSUME IInv, [Next]_vars
    PROVE  IInv'
<1>1. ASSUME NEW c \in Creation, Create(c) PROVE IInv'
  BY <1>1, StartCreateInv, CountPendingInv, InsertRequestInv DEF Create
<1>2. ASSUME NEW v \in Review, StartReview(v) PROVE IInv'
  BY <1>2, StartReviewInv
<1>3. ASSUME NEW v \in Review, Advance(v) PROVE IInv'
  <2>1. ASSUME \/ RequestNotFound(v) \/ RefuseReview(v) \/ InsufficientBalance(v)
               \/ CreditOverflows(v) \/ DescriptionTooLong(v)
        PROVE  IInv'
    <3>1. Rollback(v) /\ pc[v] \notin Ended \cup {"idle"} /\ v \in Call
      BY <2>1 DEF RequestNotFound, RefuseReview, InsufficientBalance,
                  CreditOverflows, DescriptionTooLong, Ended
    <3>. QED
      BY <3>1, RollbackInv
  <2>. QED
    BY <1>3, <2>1, LockRequestInv, AdmitReviewInv, DebitParentInv, CreditChildInv,
       RecordTransactionInv, CommitReviewInv DEF Advance
<1>4. ASSUME NEW c \in Call, CutOff(c) PROVE IInv'
  BY <1>4, RollbackInv DEF CutOff
<1>5. ASSUME NEW u \in User, RemoveMember(u) PROVE IInv'
  BY <1>5, RemoveMemberInv
<1>6. CASE UNCHANGED vars
  BY <1>6, StutterInv
<1>. QED
  BY <1>1, <1>2, <1>3, <1>4, <1>5, <1>6 DEF Next, AllEnded

(* The inductive invariant holds in every reachable state.                 *)
THEOREM Invariance == Spec => []IInv
BY InitIInv, NextIInv, PTL DEF Spec

(* Every variable keeps its type; balances stay within DECIMAL(12, 2).     *)
THEOREM TypeCorrect == Spec => []TypeOK
<1>1. IInv => TypeOK
  BY DEF IInv
<1>. QED
  BY <1>1, Invariance, PTL

(* approve_request: however many reviews of a request run at once, it is   *)
(* paid at most once, and paid if and only if it is approved.              *)
THEOREM PaidExactlyOnce == Spec => []PaidIffApproved
<1>1. IInv => PaidIffApproved
  BY DEF IInv
<1>. QED
  BY <1>1, Invariance, PTL

(* SELECT ... FOR UPDATE: a review commits on what it read.                *)
THEOREM DecisionsStayValid == Spec => []DecisionStaysValid
<1>1. IInv => DecisionStaysValid
  BY DEF IInv
<1>. QED
  BY <1>1, Invariance, PTL

(* credit and debit: no interleaving of transfers overdraws a wallet.      *)
THEOREM NeverOverdrawn == Spec => []InFlightCovered
<1>1. IInv => InFlightCovered
  BY DEF IInv
<1>. QED
  BY <1>1, Invariance, PTL

(* create_notification shares the fate of the review it reports.           *)
THEOREM VerdictsAreTold == Spec => []VerdictTold
<1>1. IInv => VerdictTold
  BY DEF IInv
<1>. QED
  BY <1>1, Invariance, PTL

(* A rejected review leaves the balances as they were.                     *)
LEMMA RejectionMovesNothing ==
    ASSUME IInv, NEW v \in Review, CommitReview(v), ~ asked[v].approve
    PROVE  balance' = balance
<1>1. \A u \in User, cur \in Currency : delta[v][u][cur] = 0
  BY DEF IInv, InFlightIsTransfer, InFlight
<1>. QED
  BY <1>1 DEF CommitReview, CommitWallets, Seen, IInv, TypeOK, WalletsTypeOK, Purses

(* An approving commit changes the balances as its record says.            *)
LEMMA ApprovalIsPosted ==
    ASSUME IInv, NEW v \in Review, CommitReview(v), asked[v].approve
    PROVE  L!Post(EntryOf(v)) /\ EntryOf(v) \in L!Entry
<1>. DEFINE r == request[Target(v)]
            e == EntryOf(v)
<1>1. pc[v] = "committing"
  BY DEF CommitReview
<1>2. /\ Target(v) \in Creation
      /\ asked[v].parent \in User
      /\ Asker(v) \in User
      /\ Asker(v) # asked[v].parent
      /\ r.amount \in Amount
      /\ r.amount \in Nat \ {0}
      /\ r.currency \in Currency
  BY <1>1, ReviewFacts DEF Ended
<1>3. /\ e.id = v
      /\ e.source = asked[v].parent
      /\ e.destination = Asker(v)
      /\ e.amount = r.amount
      /\ e.currency = r.currency
  BY DEF EntryOf, Asker
<1>4. e \in L!Entry
  BY <1>2 DEF EntryOf, Asker, L!Entry
<1>5. \A f \in ledger : f.id # e.id
  BY <1>1, <1>3 DEF IInv, CallsInStep
<1>6. ledger' = ledger \cup {e}
  BY DEF CommitReview
<1>7. ASSUME NEW u \in User, NEW cur \in Currency
      PROVE  Seen(v, u, cur) = balance[u][cur]
                + (IF u = e.destination /\ cur = e.currency THEN e.amount ELSE 0)
                - (IF u = e.source /\ cur = e.currency THEN e.amount ELSE 0)
  <2>1. /\ balance[u][cur] \in Int
        /\ delta[v][u][cur] = InFlight(v, u, cur)
    BY DEF IInv, InFlightIsTransfer, TypeOK, WalletsTypeOK, Purses
  <2>2. InFlight(v, u, cur) =
            (IF u = Asker(v) /\ cur = r.currency THEN r.amount ELSE 0)
          - (IF u = asked[v].parent /\ cur = r.currency THEN r.amount ELSE 0)
    BY <1>1, <1>2 DEF InFlight
  <2>. QED
    BY <2>1, <2>2, <1>2, <1>3 DEF Seen
<1>8. balance' = L!Posted(e)
  BY <1>7 DEF CommitReview, CommitWallets, L!Posted
<1>9. \A u \in User, cur \in Currency : balance'[u][cur] >= 0
  <2>1. TypeOK'
    BY CommitReviewInv DEF IInv
  <2>. QED
    BY <2>1 DEF TypeOK, WalletsTypeOK, Purses
<1>. QED
  BY <1>4, <1>5, <1>6, <1>8, <1>9 DEF L!Post

(* Only the commit of a review touches a balance or the ledger.            *)
LEMMA OnlyCommitsPost ==
    ASSUME [Next]_vars, \A v \in Review : ~ CommitReview(v)
    PROVE  UNCHANGED <<balance, ledger>>
<1>. USE DEF vars, walletVars, requestVars, recordVars, callVars
<1>1. ASSUME NEW c \in Call, Rollback(c) PROVE UNCHANGED <<balance, ledger>>
  BY <1>1 DEF Rollback, RollbackWallets
<1>2. ASSUME NEW c \in Creation, Create(c) PROVE UNCHANGED <<balance, ledger>>
  BY <1>2 DEF Create, StartCreate, CountPending, InsertRequest
<1>3. ASSUME NEW v \in Review, Advance(v) PROVE UNCHANGED <<balance, ledger>>
  BY <1>1, <1>3
  DEF Advance, LockRequest, RequestNotFound, AdmitReview, RefuseReview, DebitParent,
      InsufficientBalance, CreditChild, CreditOverflows, RecordTransaction,
      DescriptionTooLong, Debit, Credit, Update
<1>. QED
  BY <1>1, <1>2, <1>3 DEF Next, StartReview, CutOff, RemoveMember, AllEnded

(* fund_request_service implements the promise of Ledger: every change of  *)
(* a balance is the posting of one new record, and records stay.           *)
THEOREM ImplementsLedger == Spec => LedgerSpec
<1>1. Init => L!Init
  BY DEF Init, WalletsInit, Purses, L!Init
<1>2. IInv /\ [Next]_vars => [L!Next]_(L!ledgerVars)
  <2>. SUFFICES ASSUME IInv, [Next]_vars
                PROVE  [L!Next]_(L!ledgerVars)
    OBVIOUS
  <2>1. ASSUME NEW v \in Review, CommitReview(v)
        PROVE  [L!Next]_(L!ledgerVars)
    <3>1. CASE asked[v].approve
      BY <2>1, <3>1, ApprovalIsPosted DEF L!Next
    <3>2. CASE ~ asked[v].approve
      <4>1. balance' = balance
        BY <2>1, <3>2, RejectionMovesNothing
      <4>2. ledger' = ledger
        BY <2>1, <3>2 DEF CommitReview
      <4>. QED
        BY <4>1, <4>2 DEF L!ledgerVars
    <3>. QED
      BY <3>1, <3>2
  <2>2. CASE \A v \in Review : ~ CommitReview(v)
    BY <2>2, OnlyCommitsPost DEF L!ledgerVars
  <2>. QED
    BY <2>1, <2>2
<1>. QED
  BY <1>1, <1>2, Invariance, PTL DEF Spec, LedgerSpec, L!Spec

(* "Double approve/reject": whatever runs, a reviewed request is frozen.   *)
THEOREM ReviewsAreFinal == Spec => ReviewIsFinal
<1>. DEFINE Final == \A r \in Creation :
                        request[r].status \in {"approved", "rejected"} =>
                            request'[r] = request[r]
<1>1. IInv /\ [Next]_vars => [Final]_request
  <2>. SUFFICES ASSUME IInv, [Next]_vars
                PROVE  Final \/ request' = request
    OBVIOUS
  <2>1. ASSUME NEW v \in Review, CommitReview(v) PROVE Final
    <3>1. Target(v) \in Creation /\ request[Target(v)].status = "pending"
      BY <2>1, ReviewFacts DEF CommitReview, IInv, DecisionStaysValid, Ended
    <3>. QED
      BY <2>1, <3>1 DEF CommitReview, IInv, TypeOK
  <2>2. ASSUME NEW c \in Creation, InsertRequest(c) PROVE Final
    <3>1. request[c].status = "absent"
      BY <2>2 DEF InsertRequest, IInv, CallsInStep
    <3>. QED
      BY <2>2, <3>1 DEF InsertRequest, IInv, TypeOK
  <2>3. CASE /\ \A v \in Review : ~ CommitReview(v)
             /\ \A c \in Creation : ~ InsertRequest(c)
    BY <2>3
    DEF Next, Create, StartCreate, CountPending, StartReview, Advance, LockRequest,
        RequestNotFound, AdmitReview, RefuseReview, DebitParent, InsufficientBalance,
        CreditChild, CreditOverflows, RecordTransaction, DescriptionTooLong, CutOff,
        RemoveMember, AllEnded, Rollback, vars, requestVars
  <2>. QED
    BY <2>1, <2>2, <2>3
<1>. QED
  BY <1>1, Invariance, PTL DEF Spec, ReviewIsFinal
=============================================================================
