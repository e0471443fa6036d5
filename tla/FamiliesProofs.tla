--------------------------- MODULE FamiliesProofs ---------------------------
(***************************************************************************)
(* Families for every number of calls, users, codes and seats.             *)
(***************************************************************************)
EXTENDS Families, FiniteSetTheorems, TLAPS

USE FamiliesAssumption

Labels == {"idle", "counting", "choosing", "inserting", "admitted", "seating",
           "flushing", "recounting", "committing", "writing"} \cup Ended

LEMMA InitIInv == Init => IInv
<1>. SUFFICES ASSUME Init PROVE IInv
  OBVIOUS
<1>. USE DEF Init
<1>1. TypeOK
  BY DEF TypeOK, Seat, User, SeatRow, NoSeat, InvitationRow, NoInvitation,
         Status, Question, Unasked, Ended
<1>2. RowsInStep /\ CallsInStep
  BY DEF RowsInStep, CallsInStep, NoSeat, NoInvitation, Ended, Seat, Call
<1>3. FamilyHasItsAdmin /\ AcceptedTookSeat
  BY DEF FamilyHasItsAdmin, AcceptedTookSeat, NoSeat, NoInvitation, Seat
<1>4. OneInvitationWithinSeats /\ CodesUnique
  BY DEF OneInvitationWithinSeats, CodesUnique, NoInvitation
<1>. QED
  BY <1>1, <1>2, <1>3, <1>4 DEF IInv

(* The seats taken with an invitation are finitely many.                   *)
LEMMA SeatsByFinite ==
    \A i : /\ IsFiniteSet(SeatsBy(i))
           /\ Cardinality(SeatsBy(i)) \in Nat
<1>. SUFFICES ASSUME NEW i PROVE IsFiniteSet(SeatsBy(i)) /\ Cardinality(SeatsBy(i)) \in Nat
  OBVIOUS
<1>1. SeatsBy(i) \subseteq Joining
  BY DEF SeatsBy
<1>. QED
  BY <1>1, FS_Subset, FS_CardinalityType

(* A call that has read, waited or been undone: the rows are what they     *)
(* were, and only a call that begins changes what it is about.             *)
LEMMA QuietStep ==
    ASSUME IInv, NEW c \in Call,
           UNCHANGED rows,
           pc[c] # "done",
           \A d \in Call \ {c} : asked'[d] = asked[d] /\ pc'[d] = pc[d],
           asked'[c] = asked[c] \/ pc[c] = "idle"
    PROVE  /\ RowsInStep'
           /\ FamilyHasItsAdmin'
           /\ AcceptedTookSeat'
           /\ OneInvitationWithinSeats'
           /\ CodesUnique'
           /\ \A i : SeatsBy(i)' = SeatsBy(i)
<1>. USE DEF rows
<1>1. RowsInStep'
  BY DEF IInv, RowsInStep, Call
<1>2. FamilyHasItsAdmin' /\ CodesUnique'
  BY DEF IInv, FamilyHasItsAdmin, CodesUnique
<1>3. \A d \in Joining : seat[d].family # Nobody => asked'[d] = asked[d]
  BY DEF IInv, RowsInStep, Call
<1>4. AcceptedTookSeat'
  <2>1. ASSUME NEW i \in Inviting, invitation[i].status = "accepted"
        PROVE  \E d \in Joining : /\ About(d)' = i
                                  /\ seat[d].family = invitation[i].family
                                  /\ seat[d].user = invitation[i].acceptor
    <3>1. PICK d \in Joining : /\ About(d) = i
                               /\ seat[d].family = invitation[i].family
                               /\ seat[d].user = invitation[i].acceptor
      BY <2>1 DEF IInv, AcceptedTookSeat
    <3>2. seat[d].family # Nobody
      BY <2>1, <3>1 DEF IInv, RowsInStep, Call
    <3>. QED
      BY <3>1, <3>2, <1>3 DEF About
  <2>2. ASSUME NEW d \in Joining, seat[d].family # Nobody
        PROVE  /\ seat[d].family = FamilyOf(d)'
               /\ invitation[About(d)'].status \in {"accepted", "cancelled"}
    BY <2>2, <1>3 DEF IInv, AcceptedTookSeat, About, FamilyOf
  <2>. QED
    BY <2>1, <2>2 DEF AcceptedTookSeat
<1>5. ASSUME NEW i PROVE SeatsBy(i)' = SeatsBy(i)
  <2>1. \A d \in Joining : seat[d].active => seat[d].family # Nobody
    BY DEF IInv, RowsInStep, NoSeat
  <2>. QED
    BY <2>1, <1>3 DEF SeatsBy, About
<1>6. OneInvitationWithinSeats'
  BY <1>5 DEF IInv, OneInvitationWithinSeats
<1>. QED
  BY <1>1, <1>2, <1>4, <1>5, <1>6

(* What remains to show of a step that only reads.                         *)
LEMMA ReadStep ==
    ASSUME IInv, NEW c \in Call, TypeOK', UNCHANGED rows,
           pc[c] # "done", pc'[c] # "done",
           \A d \in Call \ {c} : asked'[d] = asked[d] /\ pc'[d] = pc[d],
           asked'[c] = asked[c] \/ pc[c] = "idle",
           \A d \in Joining \ {c} :
               pc[d] \in {"recounting", "committing"} => locker'[About(d)] = d,
           c \in Founding => (pc'[c] = "inserting" => asked'[c].user \in Parent),
           c \in Inviting => (pc'[c] \in {"counting", "choosing", "inserting"} =>
               /\ asked'[c].user \in Parent
               /\ asked'[c].about \in Founding
               /\ creator[asked'[c].about] # Nobody),
           c \in Joining => (pc'[c] \notin Ended \cup {"idle"} =>
               /\ asked'[c].user \in Child
               /\ asked'[c].about \in Inviting
               /\ invitation[asked'[c].about].status # "absent"),
           c \in Joining => (pc'[c] \in {"recounting", "committing"} =>
               locker'[asked'[c].about] = c),
           c \in Joining => (pc'[c] = "committing" =>
               Cardinality(SeatsBy(asked'[c].about)) + 2 <= MaxSeats),
           c \in Removing => (pc'[c] = "writing" => asked'[c].about \in Joining),
           c \in Cancelling => (pc'[c] = "writing" =>
               /\ asked'[c].about \in Inviting
               /\ invitation[asked'[c].about].status # "absent")
    PROVE  IInv'
<1>1. \A i : SeatsBy(i)' = SeatsBy(i)
  BY QuietStep
<1>2. \A d \in Joining : seat[d].family # Nobody => d # c
  BY DEF IInv, RowsInStep
<1>. USE DEF rows
<1>3. \A d \in Founding : pc'[d] = "inserting" => asked'[d].user \in Parent
  BY DEF IInv, CallsInStep, Call
<1>4. \A d \in Inviting : pc'[d] \in {"counting", "choosing", "inserting"} =>
        /\ asked'[d].user \in Parent
        /\ asked'[d].about \in Founding
        /\ creator[asked'[d].about] # Nobody
  BY DEF IInv, CallsInStep, Call, About
<1>5. \A d \in Joining : pc'[d] \notin Ended \cup {"idle"} =>
        /\ asked'[d].user \in Child
        /\ asked'[d].about \in Inviting
        /\ invitation[asked'[d].about].status # "absent"
  BY DEF IInv, CallsInStep, Call, About
<1>6. \A d \in Joining :
        /\ pc'[d] \in {"recounting", "committing"} => locker'[asked'[d].about] = d
        /\ pc'[d] = "committing" =>
              Cardinality(SeatsBy(asked'[d].about)) + 2 <= MaxSeats
        /\ seat[d].family # Nobody => asked'[d].about \in Inviting
  BY <1>2 DEF IInv, CallsInStep, Call, About
<1>7. \A d \in Removing : pc'[d] = "writing" => asked'[d].about \in Joining
  BY DEF IInv, CallsInStep, Call, About
<1>8. \A d \in Cancelling : pc'[d] = "writing" =>
        asked'[d].about \in Inviting /\ invitation[asked'[d].about].status # "absent"
  BY DEF IInv, CallsInStep, Call, About
<1>9. CallsInStep'
  BY <1>1, <1>3, <1>4, <1>5, <1>6, <1>7, <1>8 DEF CallsInStep, About
<1>. QED
  BY <1>9, QuietStep DEF IInv

(* The locks as they are, or with those of one call released.              *)
LEMMA OthersKeepLocks ==
    ASSUME IInv, NEW c \in Call, locker' = locker \/ locker' = Unlocked(c)
    PROVE  \A d \in Joining \ {c} :
               pc[d] \in {"recounting", "committing"} => locker'[About(d)] = d
BY DEF IInv, TypeOK, CallsInStep, Unlocked, Ended

-----------------------------------------------------------------------------
(* Steps that only read                                                    *)

LEMMA RollbackInv ==
    ASSUME IInv, NEW c \in Call, pc[c] \notin Ended \cup {"idle"}, Rollback(c)
    PROVE  IInv'
<1>1. TypeOK'
  BY DEF Rollback, Goto, IInv, TypeOK, rows, Unlocked, Ended
<1>2. /\ \A d \in Call \ {c} : asked'[d] = asked[d] /\ pc'[d] = pc[d]
      /\ asked'[c] = asked[c] /\ pc[c] # "done" /\ pc'[c] = "failed"
      /\ locker' = Unlocked(c) /\ UNCHANGED rows
  BY DEF Rollback, Goto, IInv, TypeOK, Ended
<1>. QED
  BY <1>1, <1>2, ReadStep, OthersKeepLocks DEF Ended

LEMMA CheckFounderInv ==
    ASSUME IInv, NEW c \in Founding, CheckFounder(c)
    PROVE  IInv'
<1>0. c \in Call /\ c \notin Inviting \cup Joining \cup Removing \cup Cancelling
  BY DEF Call
<1>1. PICK u \in Parent : /\ Asks(c, u, c)
                          /\ Goto(c, IF MayFound(u) THEN "inserting" ELSE "failed")
  BY DEF CheckFounder
<1>2. TypeOK'
  BY <1>1 DEF CheckFounder, Goto, Asks, IInv, TypeOK, Question, User, Call, rows, Ended
<1>3. /\ \A d \in Call \ {c} : asked'[d] = asked[d] /\ pc'[d] = pc[d]
      /\ pc[c] = "idle" /\ pc'[c] \in {"inserting", "failed"}
      /\ asked'[c].user \in Parent /\ locker' = locker /\ UNCHANGED rows
  BY <1>0, <1>1 DEF CheckFounder, Goto, Asks, IInv, TypeOK, Question
<1>4. pc[c] # "done" /\ pc'[c] # "done"
  BY <1>3
<1>. QED
  BY <1>0, <1>2, <1>3, <1>4, ReadStep, OthersKeepLocks

LEMMA InviterReadsInv ==
    ASSUME IInv, NEW c \in Inviting,
           CheckInviter(c) \/ CountPending(c) \/ ChooseCode(c)
    PROVE  IInv'
<1>0. c \in Call /\ c \notin Founding \cup Joining \cup Removing \cup Cancelling
  BY DEF Call
<1>1. CASE CheckInviter(c)
  <2>0. ASSUME NEW u \in Parent, NEW s \in ActiveSeats(u) \cap Founding
        PROVE  seat[s].family \in Founding /\ creator[seat[s].family] # Nobody
    <3>1. s \in Founding /\ seat[s].active
      BY DEF ActiveSeats
    <3>2. CASE creator[s] = Nobody
      <4>1. seat[s] = NoSeat
        BY <3>1, <3>2 DEF IInv, FamilyHasItsAdmin
      <4>. QED
        BY <3>1, <4>1 DEF NoSeat
    <3>3. CASE creator[s] # Nobody
      <4>1. seat[s] = [family |-> s, user |-> creator[s], active |-> TRUE]
        BY <3>1, <3>3 DEF IInv, FamilyHasItsAdmin
      <4>. QED
        BY <3>1, <3>3, <4>1
    <3>. QED
      BY <3>2, <3>3
  <2>1. /\ pc[c] = "idle" /\ locker' = locker /\ UNCHANGED rows
        /\ \/ \E u \in Parent : \E s \in ActiveSeats(u) \cap Founding :
                /\ Asks(c, u, seat[s].family)
                /\ \E label \in {"counting", "failed"} :
                      pc' = [pc EXCEPT ![c] = label]
           \/ asked' = asked /\ pc' = [pc EXCEPT ![c] = "failed"]
    <3>1. CASE \E u \in Parent : \E s \in ActiveSeats(u) \cap Founding :
                 /\ Asks(c, u, seat[s].family)
                 /\ Goto(c, IF Cardinality(SeatsOf(seat[s].family)) < MaxSeats
                            THEN "counting" ELSE "failed")
      <4>0. PICK u \in Parent : \E s \in ActiveSeats(u) \cap Founding :
                 /\ Asks(c, u, seat[s].family)
                 /\ Goto(c, IF Cardinality(SeatsOf(seat[s].family)) < MaxSeats
                            THEN "counting" ELSE "failed")
        BY <3>1
      <4>1. PICK s \in ActiveSeats(u) \cap Founding :
                 /\ Asks(c, u, seat[s].family)
                 /\ Goto(c, IF Cardinality(SeatsOf(seat[s].family)) < MaxSeats
                            THEN "counting" ELSE "failed")
        BY <4>0
      <4>2. \E label \in {"counting", "failed"} : pc' = [pc EXCEPT ![c] = label]
        BY <4>1 DEF Goto
      <4>. QED
        BY <1>1, <4>1, <4>2 DEF CheckInviter, Asks
    <3>2. CASE Goto(c, "failed") /\ UNCHANGED asked
      BY <1>1, <3>2 DEF CheckInviter, Goto
    <3>. QED
      BY <1>1, <3>1, <3>2 DEF CheckInviter
  <2>2. TypeOK'
    BY <2>0, <2>1 DEF Asks, IInv, TypeOK, Question, User, Call, rows, Ended
  <2>3. /\ \A d \in Call \ {c} : asked'[d] = asked[d] /\ pc'[d] = pc[d]
        /\ pc'[c] \in {"counting", "failed"} /\ pc[c] # "done" /\ pc'[c] # "done"
        /\ pc[c] = "idle" /\ locker' = locker /\ UNCHANGED rows
    BY <1>0, <2>1 DEF Asks, IInv, TypeOK
  <2>4. pc'[c] \in {"counting", "choosing", "inserting"} =>
            /\ asked'[c].user \in Parent
            /\ asked'[c].about \in Founding
            /\ creator[asked'[c].about] # Nobody
    BY <1>0, <2>0, <2>1 DEF Asks, IInv, TypeOK, Question
  <2>. QED
    BY <1>0, <2>2, <2>3, <2>4, ReadStep, OthersKeepLocks
<1>2. CASE CountPending(c) \/ ChooseCode(c)
  <2>0. /\ UNCHANGED <<rows, locker>>
        /\ pc[c] \in {"counting", "choosing"}
        /\ \E label \in {"choosing", "inserting", "failed"} :
              pc' = [pc EXCEPT ![c] = label]
        /\ \/ asked' = asked
           \/ \E code \in Code : asked' = [asked EXCEPT ![c].code = code]
    BY <1>2 DEF CountPending, ChooseCode, Goto
  <2>1. TypeOK'
    BY <2>0 DEF IInv, TypeOK, Question, Call, rows, Ended
  <2>2. /\ \A d \in Call \ {c} : asked'[d] = asked[d] /\ pc'[d] = pc[d]
        /\ pc[c] \in {"counting", "choosing"}
        /\ pc'[c] \in {"choosing", "inserting", "failed"}
        /\ asked'[c].user = asked[c].user /\ asked'[c].about = asked[c].about
        /\ locker' = locker /\ UNCHANGED rows
    BY <1>0, <2>0 DEF IInv, TypeOK, Question
  <2>3. \A d \in Joining : asked'[d] = asked[d] /\ pc'[d] = pc[d]
    BY <1>0, <2>2 DEF Call
  <2>4. \A i : SeatsBy(i)' = SeatsBy(i)
    BY <2>2, <2>3 DEF SeatsBy, About, rows
  <2>5. CallsInStep'
    <3>1. \A d \in Inviting : pc'[d] \in {"counting", "choosing", "inserting"} =>
            /\ asked'[d].user \in Parent
            /\ asked'[d].about \in Founding
            /\ creator[asked'[d].about] # Nobody
      BY <2>2 DEF IInv, CallsInStep, About, Call
    <3>2. \A d \in Founding \cup Removing \cup Cancelling :
            asked'[d] = asked[d] /\ pc'[d] = pc[d]
      BY <1>0, <2>2 DEF Call
    <3>. QED
      BY <2>2, <2>3, <2>4, <3>1, <3>2 DEF IInv, CallsInStep, About, rows
  <2>6. RowsInStep' /\ FamilyHasItsAdmin' /\ CodesUnique'
    <3>1. pc[c] # "done"
      BY <2>2
    <3>. QED
      BY <2>2, <3>1 DEF IInv, RowsInStep, FamilyHasItsAdmin, CodesUnique, rows, Call
  <2>7. AcceptedTookSeat' /\ OneInvitationWithinSeats'
    BY <2>2, <2>3, <2>4
    DEF IInv, AcceptedTookSeat, OneInvitationWithinSeats, About, FamilyOf, rows
  <2>. QED
    BY <2>1, <2>5, <2>6, <2>7 DEF IInv
<1>. QED
  BY <1>1, <1>2

LEMMA JoinReadsInv ==
    ASSUME IInv, NEW c \in Joining,
           FindInvitation(c) \/ CheckMembership(c) \/ CheckSeats(c) \/ FlushJoin(c)
    PROVE  IInv'
<1>0. c \in Call /\ c \notin Founding \cup Inviting \cup Removing \cup Cancelling
  BY DEF Call
<1>. USE DEF Goto, Asks
<1>1. TypeOK'
  <2>1. CASE FindInvitation(c)
    BY <2>1 DEF FindInvitation, IInv, TypeOK, Question, User, Call, rows, Ended
  <2>2. CASE CheckMembership(c) \/ CheckSeats(c)
    BY <2>2 DEF CheckMembership, CheckSeats, IInv, TypeOK, rows, Ended
  <2>3. CASE FlushJoin(c)
    BY <2>3 DEF FlushJoin, IInv, TypeOK, rows, Ended
  <2>. QED
    BY <2>1, <2>2, <2>3
<1>2. /\ \A d \in Call \ {c} : asked'[d] = asked[d] /\ pc'[d] = pc[d]
      /\ asked'[c] = asked[c] \/ pc[c] = "idle"
      /\ pc[c] \in {"idle", "admitted", "seating", "flushing"}
      /\ pc'[c] \in {"admitted", "seating", "flushing", "recounting", "failed"}
      /\ UNCHANGED rows
  BY <1>0 DEF FindInvitation, CheckMembership, CheckSeats, FlushJoin, IInv, TypeOK
<1>3. pc'[c] \notin Ended \cup {"idle"} =>
          /\ asked'[c].user \in Child
          /\ asked'[c].about \in Inviting
          /\ invitation[asked'[c].about].status # "absent"
  <2>1. CASE FindInvitation(c)
    BY <1>0, <2>1 DEF FindInvitation, IInv, TypeOK, Usable, Question, Ended
  <2>2. CASE CheckMembership(c) \/ CheckSeats(c) \/ FlushJoin(c)
    <3>1. asked' = asked /\ pc[c] \notin Ended \cup {"idle"}
      BY <2>2 DEF CheckMembership, CheckSeats, FlushJoin, Ended
    <3>. QED
      BY <3>1 DEF IInv, CallsInStep, About
  <2>. QED
    BY <2>1, <2>2
<1>4. pc'[c] = "recounting" => locker'[asked'[c].about] = c
  <2>1. CASE FlushJoin(c)
    BY <1>0, <2>1 DEF FlushJoin, IInv, TypeOK, CallsInStep, About, Ended
  <2>2. CASE FindInvitation(c) \/ CheckMembership(c) \/ CheckSeats(c)
    BY <1>0, <2>2 DEF FindInvitation, CheckMembership, CheckSeats, IInv, TypeOK
  <2>. QED
    BY <2>1, <2>2
<1>5. \A d \in Joining \ {c} :
          pc[d] \in {"recounting", "committing"} => locker'[About(d)] = d
  <2>1. CASE FlushJoin(c)
    BY <2>1 DEF FlushJoin, IInv, TypeOK, CallsInStep, About, Ended, Call
  <2>2. CASE FindInvitation(c) \/ CheckMembership(c) \/ CheckSeats(c)
    BY <1>0, <2>2, OthersKeepLocks DEF FindInvitation, CheckMembership, CheckSeats
  <2>. QED
    BY <2>1, <2>2
<1>6. pc[c] # "done" /\ pc'[c] # "done" /\ pc'[c] # "committing"
  BY <1>2
<1>. QED
  BY <1>0, <1>1, <1>2, <1>3, <1>4, <1>5, <1>6, ReadStep

(* A lemma for the second count: what is committed holds the admin's seat  *)
(* and every seat taken with the invitation, so if it leaves one free, so  *)
(* do they.                                                                *)
LEMMA SeatsByBelowSeats ==
    ASSUME IInv, NEW i \in Inviting, invitation[i].status # "absent"
    PROVE  /\ Cardinality(SeatsOf(invitation[i].family)) \in Nat
           /\ Cardinality(SeatsBy(i)) + 1 <= Cardinality(SeatsOf(invitation[i].family))
<1>. DEFINE f == invitation[i].family
<1>1. f \in Founding /\ creator[f] # Nobody
  BY DEF IInv, RowsInStep
<1>2. seat[f] = [family |-> f, user |-> creator[f], active |-> TRUE]
  BY <1>1 DEF IInv, FamilyHasItsAdmin
<1>3. f \in SeatsOf(f)
  BY <1>1, <1>2 DEF SeatsOf, Seat
<1>4. SeatsBy(i) \subseteq SeatsOf(f)
  <2>1. ASSUME NEW c \in SeatsBy(i) PROVE c \in SeatsOf(f)
    <3>1. c \in Joining /\ seat[c].active /\ About(c) = i
      BY DEF SeatsBy
    <3>2. CASE seat[c].family = Nobody
      <4>1. seat[c] = NoSeat
        BY <3>1, <3>2 DEF IInv, RowsInStep
      <4>. QED
        BY <3>1, <4>1 DEF NoSeat
    <3>3. CASE seat[c].family # Nobody
      BY <3>1, <3>3 DEF IInv, AcceptedTookSeat, FamilyOf, SeatsOf, Seat
    <3>. QED
      BY <3>2, <3>3
  <2>. QED
    BY <2>1
<1>5. f \notin SeatsBy(i)
  BY <1>1 DEF SeatsBy
<1>6. IsFiniteSet(SeatsOf(f))
  <2>1. IsFiniteSet(Seat)
    BY FS_Union DEF Seat
  <2>2. SeatsOf(f) \subseteq Seat
    BY DEF SeatsOf
  <2>. QED
    BY <2>1, <2>2, FS_Subset
<1>7. IsFiniteSet(SeatsBy(i)) /\ Cardinality(SeatsBy(i)) \in Nat
  BY SeatsByFinite
<1>8. Cardinality(SeatsBy(i) \cup {f}) = Cardinality(SeatsBy(i)) + 1
  BY <1>5, <1>7, FS_AddElement
<1>9. SeatsBy(i) \cup {f} \subseteq SeatsOf(f)
  BY <1>3, <1>4
<1>10. Cardinality(SeatsBy(i) \cup {f}) <= Cardinality(SeatsOf(f))
  BY <1>6, <1>9, FS_Subset
<1>11. Cardinality(SeatsOf(f)) \in Nat
  BY <1>6, FS_CardinalityType
<1>. QED
  BY <1>8, <1>10, <1>11

LEMMA RecountInv ==
    ASSUME IInv, NEW c \in Joining, RecountSeats(c)
    PROVE  IInv'
<1>0. /\ c \in Call /\ c \notin Founding \cup Inviting \cup Removing \cup Cancelling
      /\ pc[c] = "recounting"
  BY DEF Call, RecountSeats
<1>1. /\ asked[c].user \in Child /\ About(c) \in Inviting
      /\ invitation[About(c)].status # "absent" /\ locker[About(c)] = c
  BY <1>0 DEF IInv, CallsInStep, Ended
<1>2. CASE Rollback(c)
  BY <1>0, <1>2, RollbackInv DEF Ended
<1>3. CASE /\ ~ (Cardinality(SeatsOf(FamilyOf(c))) + 1 > MaxSeats)
           /\ Goto(c, "committing")
           /\ UNCHANGED <<rows, locker, asked>>
  <2>1. Cardinality(SeatsBy(About(c))) + 2 <= MaxSeats
    BY <1>1, <1>3, SeatsByBelowSeats, SeatsByFinite DEF FamilyOf
  <2>2. TypeOK'
    BY <1>3 DEF Goto, IInv, TypeOK, rows, Ended
  <2>3. /\ \A d \in Call \ {c} : asked'[d] = asked[d] /\ pc'[d] = pc[d]
        /\ asked' = asked /\ pc'[c] = "committing" /\ locker' = locker /\ UNCHANGED rows
    BY <1>0, <1>3 DEF Goto, IInv, TypeOK
  <2>4. pc[c] # "done" /\ pc'[c] # "done"
    BY <1>0, <2>3
  <2>. QED
    BY <1>0, <1>1, <2>1, <2>2, <2>3, <2>4, ReadStep, OthersKeepLocks DEF About
<1>. QED
  BY <1>2, <1>3 DEF RecountSeats

LEMMA RemoverReadsInv ==
    ASSUME IInv, NEW c \in Removing, ReadMember(c)
    PROVE  IInv'
<1>0. c \in Call /\ c \notin Founding \cup Inviting \cup Joining \cup Cancelling
  BY DEF Call
<1>1. /\ pc[c] = "idle" /\ locker' = locker /\ UNCHANGED rows
      /\ \/ \E u \in Parent : \E s \in Joining :
              Asks(c, u, s) /\ pc' = [pc EXCEPT ![c] = "writing"]
         \/ asked' = asked /\ pc' = [pc EXCEPT ![c] = "failed"]
  BY DEF ReadMember, Removable, Goto
<1>2. TypeOK'
  BY <1>1 DEF Asks, IInv, TypeOK, Question, User, Call, rows, Ended
<1>3. /\ \A d \in Call \ {c} : asked'[d] = asked[d] /\ pc'[d] = pc[d]
      /\ pc'[c] = "writing" => asked'[c].about \in Joining
      /\ pc[c] # "done" /\ pc'[c] # "done"
  BY <1>0, <1>1 DEF Asks, IInv, TypeOK
<1>. QED
  BY <1>0, <1>1, <1>2, <1>3, ReadStep, OthersKeepLocks

LEMMA CancellerReadsInv ==
    ASSUME IInv, NEW c \in Cancelling, ReadInvitation(c)
    PROVE  IInv'
<1>0. c \in Call /\ c \notin Founding \cup Inviting \cup Joining \cup Removing
  BY DEF Call
<1>1. /\ pc[c] = "idle" /\ locker' = locker /\ UNCHANGED rows
      /\ \/ \E i \in Inviting :
              /\ invitation[i].status = "sent"
              /\ Asks(c, invitation[i].by, i)
              /\ pc' = [pc EXCEPT ![c] = "writing"]
         \/ asked' = asked /\ pc' = [pc EXCEPT ![c] = "failed"]
  BY DEF ReadInvitation, Goto
<1>2. TypeOK'
  <2>1. \A i \in Inviting : invitation[i].by \in User \cup {Nobody}
    BY DEF IInv, TypeOK, InvitationRow, User
  <2>2. \A i \in Inviting :
          [user |-> invitation[i].by, code |-> Nobody, about |-> i] \in Question
    BY <2>1 DEF Question
  <2>3. asked' \in [Call -> Question]
    BY <1>1, <2>2 DEF Asks, IInv, TypeOK
  <2>. QED
    BY <1>1, <2>3 DEF IInv, TypeOK, rows, Ended
<1>3. /\ \A d \in Call \ {c} : asked'[d] = asked[d] /\ pc'[d] = pc[d]
      /\ pc'[c] = "writing" =>
            asked'[c].about \in Inviting /\ invitation[asked'[c].about].status # "absent"
      /\ pc[c] # "done" /\ pc'[c] # "done"
  BY <1>0, <1>1 DEF Asks, IInv, TypeOK
<1>. QED
  BY <1>0, <1>1, <1>2, <1>3, ReadStep, OthersKeepLocks

-----------------------------------------------------------------------------
(* Steps that commit                                                       *)

LEMMA InsertFamilyInv ==
    ASSUME IInv, NEW c \in Founding, InsertFamily(c)
    PROVE  IInv'
<1>0. /\ c \in Call /\ c \in Seat
      /\ c \notin Inviting \cup Joining \cup Removing \cup Cancelling
  BY DEF Call, Seat
<1>1. /\ pc[c] = "inserting" /\ asked[c].user \in Parent /\ creator[c] = Nobody
      /\ asked[c].user # Nobody
  BY <1>0 DEF InsertFamily, IInv, CallsInStep, RowsInStep, User
<1>2. /\ creator' = [creator EXCEPT ![c] = asked[c].user]
      /\ seat' = [seat EXCEPT ![c] = [family |-> c, user |-> asked[c].user,
                                      active |-> TRUE]]
      /\ pc' = [pc EXCEPT ![c] = "done"]
      /\ UNCHANGED <<invitation, locker, asked>>
  BY DEF InsertFamily, Goto
<1>3. TypeOK'
  BY <1>0, <1>1, <1>2 DEF IInv, TypeOK, SeatRow, User, Ended
<1>4. /\ \A f \in Founding \ {c} : creator'[f] = creator[f] /\ pc'[f] = pc[f]
      /\ creator'[c] = asked[c].user /\ creator'[c] # Nobody /\ pc'[c] = "done"
      /\ \A s \in Seat \ {c} : seat'[s] = seat[s]
      /\ \A d \in Joining : seat'[d] = seat[d]
      /\ \A d \in Call \ {c} : pc'[d] = pc[d]
      /\ seat'[c] = [family |-> c, user |-> asked[c].user, active |-> TRUE]
  BY <1>0, <1>1, <1>2 DEF IInv, TypeOK, Seat, Call
<1>5. \A i : SeatsBy(i)' = SeatsBy(i)
  BY <1>2, <1>4 DEF SeatsBy, About
<1>6. RowsInStep'
  BY <1>0, <1>2, <1>4 DEF IInv, RowsInStep, Call
<1>7. CallsInStep'
  BY <1>0, <1>2, <1>4, <1>5 DEF IInv, CallsInStep, About, Call, Ended
<1>8. FamilyHasItsAdmin'
  BY <1>4 DEF IInv, FamilyHasItsAdmin, Seat
<1>9. AcceptedTookSeat' /\ OneInvitationWithinSeats' /\ CodesUnique'
  BY <1>2, <1>4, <1>5 DEF IInv, AcceptedTookSeat, OneInvitationWithinSeats,
                          CodesUnique, About, FamilyOf
<1>. QED
  BY <1>3, <1>6, <1>7, <1>8, <1>9 DEF IInv

LEMMA InsertInvitationInv ==
    ASSUME IInv, NEW c \in Inviting, InsertInvitation(c)
    PROVE  IInv'
<1>0. /\ c \in Call
      /\ c \notin Founding \cup Joining \cup Removing \cup Cancelling
  BY DEF Call
<1>1. /\ pc[c] = "inserting" /\ asked[c].user \in Parent
      /\ About(c) \in Founding /\ creator[About(c)] # Nobody
  BY DEF InsertInvitation, IInv, CallsInStep
<1>2. invitation[c] = NoInvitation
  BY <1>1 DEF IInv, RowsInStep
<1>3. CASE asked[c].code \in UsedCodes
  <2>1. /\ pc' = [pc EXCEPT ![c] = "failed"] /\ asked' = asked
        /\ locker' = locker /\ UNCHANGED rows
    BY <1>3 DEF InsertInvitation, Goto, rows
  <2>2. TypeOK'
    BY <2>1 DEF IInv, TypeOK, rows, Ended
  <2>3. /\ \A d \in Call \ {c} : asked'[d] = asked[d] /\ pc'[d] = pc[d]
        /\ pc'[c] = "failed" /\ pc[c] # "done" /\ pc'[c] # "done"
    BY <1>0, <1>1, <2>1 DEF IInv, TypeOK
  <2>. QED
    BY <1>0, <2>1, <2>2, <2>3, ReadStep, OthersKeepLocks
<1>4. CASE asked[c].code \notin UsedCodes
  <2>. DEFINE new == [status |-> "sent", family |-> About(c), by |-> asked[c].user,
                      code |-> asked[c].code, late |-> FALSE, acceptor |-> Nobody]
  <2>1. /\ invitation' = [invitation EXCEPT ![c] = new]
        /\ pc' = [pc EXCEPT ![c] = "done"]
        /\ UNCHANGED <<creator, seat, locker, asked>>
    BY <1>4 DEF InsertInvitation, Invite, Goto
  <2>2. new \in InvitationRow
    BY <1>0, <1>1 DEF IInv, TypeOK, Question, InvitationRow, Status
  <2>3. TypeOK'
    BY <2>1, <2>2 DEF IInv, TypeOK, Ended
  <2>4. /\ \A i \in Inviting \ {c} : invitation'[i] = invitation[i]
        /\ invitation'[c] = new
        /\ \A d \in Call \ {c} : pc'[d] = pc[d]
        /\ pc'[c] = "done"
    BY <1>0, <2>1 DEF IInv, TypeOK
  <2>5. \A d : About(d)' = About(d) /\ SeatsBy(d)' = SeatsBy(d)
    BY <2>1 DEF About, SeatsBy
  <2>6. RowsInStep'
    BY <1>0, <1>1, <2>1, <2>4 DEF IInv, RowsInStep, Call
  <2>7. \A d \in Joining \cup Cancelling :
          About(d) \in Inviting /\ invitation[About(d)].status # "absent"
            => invitation'[About(d)].status # "absent"
    BY <2>4
  <2>8. CallsInStep'
    BY <1>0, <2>1, <2>4, <2>5, <2>7 DEF IInv, CallsInStep, Call, Ended
  <2>9. FamilyHasItsAdmin'
    BY <2>1 DEF IInv, FamilyHasItsAdmin
  <2>10. \A d \in Joining : seat[d].family # Nobody => About(d) # c
    BY <1>2 DEF IInv, AcceptedTookSeat, NoInvitation
  <2>11. AcceptedTookSeat'
    <3>1. ASSUME NEW i \in Inviting, invitation'[i].status = "accepted"
          PROVE  \E d \in Joining : /\ About(d) = i
                                    /\ seat[d].family = invitation'[i].family
                                    /\ seat[d].user = invitation'[i].acceptor
      BY <2>4, <3>1 DEF IInv, AcceptedTookSeat
    <3>2. ASSUME NEW d \in Joining, seat[d].family # Nobody
          PROVE  /\ seat[d].family = invitation'[About(d)].family
                 /\ invitation'[About(d)].status \in {"accepted", "cancelled"}
      BY <2>4, <2>10, <3>2 DEF IInv, AcceptedTookSeat, CallsInStep, FamilyOf
    <3>. QED
      BY <2>1, <2>5, <3>1, <3>2 DEF AcceptedTookSeat, FamilyOf
  <2>12. OneInvitationWithinSeats'
    <3>1. SeatsBy(c) = {}
      <4>1. ASSUME NEW d \in Joining, seat[d].active PROVE seat[d].family # Nobody
        BY <4>1 DEF IInv, RowsInStep, NoSeat
      <4>. QED
        BY <2>10, <4>1 DEF SeatsBy
    <3>2. Cardinality(SeatsBy(c)) = 0
      BY <3>1, FS_EmptySet
    <3>3. \A i \in Inviting \ {c} : invitation'[i].status # "absent" =>
            Cardinality(SeatsBy(i)) + 1 <= MaxSeats
      BY <2>4 DEF IInv, OneInvitationWithinSeats
    <3>. QED
      BY <2>5, <3>2, <3>3 DEF OneInvitationWithinSeats
  <2>13. CodesUnique'
    <3>1. \A i \in Inviting : invitation[i].code # new.code
      BY <1>4 DEF UsedCodes
    <3>. QED
      BY <2>4, <3>1 DEF IInv, CodesUnique
  <2>. QED
    BY <2>3, <2>6, <2>8, <2>9, <2>11, <2>12, <2>13 DEF IInv
<1>. QED
  BY <1>3, <1>4

LEMMA CommitJoinInv ==
    ASSUME IInv, NEW c \in Joining, CommitJoin(c)
    PROVE  IInv'
<1>. DEFINE i == About(c)
            new == [family |-> FamilyOf(c), user |-> asked[c].user, active |-> TRUE]
<1>0. /\ c \in Call /\ c \in Seat
      /\ c \notin Founding \cup Inviting \cup Removing \cup Cancelling
  BY DEF Call, Seat
<1>1. /\ pc[c] = "committing" /\ asked[c].user \in Child /\ i \in Inviting
      /\ invitation[i].status # "absent" /\ locker[i] = c
      /\ Cardinality(SeatsBy(i)) + 2 <= MaxSeats
  BY DEF CommitJoin, IInv, CallsInStep, Ended
<1>2. seat[c] = NoSeat
  BY <1>1 DEF IInv, RowsInStep
<1>3. FamilyOf(c) \in Founding /\ FamilyOf(c) # Nobody
  BY <1>1 DEF IInv, RowsInStep, FamilyOf, Call
<1>4. /\ seat' = [seat EXCEPT ![c] = new]
      /\ invitation' = [invitation EXCEPT ![i].status = "accepted",
                                          ![i].acceptor = asked[c].user]
      /\ locker' = Unlocked(c)
      /\ pc' = [pc EXCEPT ![c] = "done"]
      /\ UNCHANGED <<creator, asked>>
  BY DEF CommitJoin, Goto
<1>5. /\ \A s \in Seat \ {c} : seat'[s] = seat[s]
      /\ seat'[c] = new
      /\ \A j \in Inviting \ {i} : invitation'[j] = invitation[j]
      /\ invitation'[i].status = "accepted"
      /\ invitation'[i].acceptor = asked[c].user
      /\ \A j \in Inviting : /\ invitation'[j].family = invitation[j].family
                              /\ invitation'[j].code = invitation[j].code
                              /\ invitation'[j] \in InvitationRow
      /\ \A d \in Call \ {c} : pc'[d] = pc[d]
      /\ pc'[c] = "done"
  <2>1. invitation[i] \in InvitationRow
    BY <1>1 DEF IInv, TypeOK
  <2>2. invitation'[i] = [invitation[i] EXCEPT !.status = "accepted",
                                               !.acceptor = asked[c].user]
    BY <1>1, <1>4 DEF IInv, TypeOK
  <2>3. /\ invitation'[i].status = "accepted"
        /\ invitation'[i].acceptor = asked[c].user
        /\ invitation'[i].family = invitation[i].family
        /\ invitation'[i].code = invitation[i].code
        /\ invitation'[i] \in InvitationRow
    BY <1>1, <2>1, <2>2 DEF InvitationRow, Status
  <2>4. \A j \in Inviting \ {i} : invitation'[j] = invitation[j]
                                    /\ invitation[j] \in InvitationRow
    BY <1>1, <1>4 DEF IInv, TypeOK
  <2>. QED
    BY <1>0, <1>4, <2>3, <2>4 DEF IInv, TypeOK
<1>6. TypeOK'
  <2>1. new \in SeatRow
    BY <1>1, <1>3 DEF SeatRow, User
  <2>2. seat' \in [Seat -> SeatRow]
    BY <1>4, <2>1 DEF IInv, TypeOK
  <2>3. invitation' \in [Inviting -> InvitationRow]
    BY <1>4, <1>5 DEF IInv, TypeOK
  <2>. QED
    BY <1>4, <2>2, <2>3 DEF IInv, TypeOK, Unlocked, Ended
<1>7. \A j \in Inviting : invitation'[j].status = "absent" =>
        j # i /\ invitation'[j] = NoInvitation
  BY <1>5 DEF IInv, RowsInStep
<1>8. RowsInStep'
  <2>1. \A j \in Inviting : invitation[j].status # "absent" =>
          pc'[j] = "done" /\ invitation'[j].family \in Founding
              /\ creator[invitation'[j].family] # Nobody
    BY <1>0, <1>5 DEF IInv, RowsInStep, Call
  <2>2. \A j \in Inviting : invitation'[j].status # "absent" =>
          invitation[j].status # "absent"
    BY <1>1, <1>5
  <2>3. \A f \in Founding : creator'[f] # Nobody => pc'[f] = "done"
    BY <1>0, <1>4, <1>5 DEF IInv, RowsInStep, Call
  <2>4. \A d \in Joining :
          IF seat'[d].family = Nobody THEN seat'[d] = NoSeat ELSE pc'[d] = "done"
    BY <1>3, <1>5 DEF IInv, RowsInStep, Call, Seat
  <2>. QED
    BY <1>4, <1>7, <2>1, <2>2, <2>3, <2>4 DEF RowsInStep
<1>9. /\ SeatsBy(i)' = SeatsBy(i) \cup {c}
      /\ \A j : j # i => SeatsBy(j)' = SeatsBy(j)
  BY <1>2, <1>4, <1>5 DEF SeatsBy, About, NoSeat, Seat
<1>10. /\ IsFiniteSet(SeatsBy(i)) /\ Cardinality(SeatsBy(i)) \in Nat
       /\ c \notin SeatsBy(i)
  <2>1. c \notin SeatsBy(i)
    BY <1>2 DEF SeatsBy, NoSeat
  <2>. QED
    BY <2>1, SeatsByFinite
<1>11. Cardinality(SeatsBy(i)') = Cardinality(SeatsBy(i)) + 1
  BY <1>9, <1>10, FS_AddElement
<1>12. \A d \in Joining \ {c} :
         pc[d] \in {"recounting", "committing"} => locker'[About(d)] = d /\ About(d) # i
  <2>1. \A d \in Joining \ {c} :
          pc[d] \in {"recounting", "committing"} => locker'[About(d)] = d
    BY <1>0, <1>4, OthersKeepLocks
  <2>2. \A d \in Joining : pc[d] \in {"recounting", "committing"} => locker[About(d)] = d
    BY DEF IInv, CallsInStep
  <2>. QED
    BY <1>1, <2>1, <2>2
<1>13. CallsInStep'
  <2>1. \A j \in Inviting : invitation[j].status # "absent" =>
          invitation'[j].status # "absent"
    BY <1>5
  <2>2. \A d \in Call : About(d)' = About(d)
    BY <1>4 DEF About
  <2>3. \A d \in Founding : pc'[d] = "inserting" => asked'[d].user \in Parent
    BY <1>0, <1>4, <1>5 DEF IInv, CallsInStep, Call
  <2>4. \A d \in Inviting : pc'[d] \in {"counting", "choosing", "inserting"} =>
          /\ asked'[d].user \in Parent
          /\ About(d) \in Founding
          /\ creator'[About(d)] # Nobody
    BY <1>0, <1>4, <1>5 DEF IInv, CallsInStep, Call
  <2>5. \A d \in Joining :
          /\ pc'[d] \notin Ended \cup {"idle"} =>
              /\ asked'[d].user \in Child
              /\ About(d) \in Inviting
              /\ invitation'[About(d)].status # "absent"
          /\ pc'[d] \in {"recounting", "committing"} => locker'[About(d)] = d
          /\ seat'[d].family # Nobody => About(d) \in Inviting
    <3>1. ASSUME NEW d \in Joining \ {c}, pc'[d] \notin Ended \cup {"idle"}
          PROVE  /\ asked'[d].user \in Child
                 /\ About(d) \in Inviting
                 /\ invitation'[About(d)].status # "absent"
      BY <1>4, <1>5, <2>1, <3>1 DEF IInv, CallsInStep, Call
    <3>2. \A d \in Joining : seat'[d].family # Nobody => About(d) \in Inviting
      BY <1>1, <1>5 DEF IInv, CallsInStep, Seat
    <3>3. \A d \in Joining :
            pc'[d] \in {"recounting", "committing"} => locker'[About(d)] = d
      BY <1>5, <1>12 DEF Call
    <3>. QED
      BY <1>5, <3>1, <3>2, <3>3 DEF Ended
  <2>6. \A d \in Joining : pc'[d] = "committing" =>
          Cardinality(SeatsBy(About(d))') + 2 <= MaxSeats
    BY <1>5, <1>9, <1>12, <2>2 DEF IInv, CallsInStep, Call
  <2>7. \A d \in Removing : pc'[d] = "writing" => About(d) \in Joining
    BY <1>0, <1>5 DEF IInv, CallsInStep, Call
  <2>8. \A d \in Cancelling : pc'[d] = "writing" =>
          About(d) \in Inviting /\ invitation'[About(d)].status # "absent"
    BY <1>0, <1>5, <2>1 DEF IInv, CallsInStep, Call
  <2>. QED
    BY <2>2, <2>3, <2>4, <2>5, <2>6, <2>7, <2>8 DEF CallsInStep, Call
<1>14. FamilyHasItsAdmin'
  BY <1>0, <1>4, <1>5 DEF IInv, FamilyHasItsAdmin, Seat
<1>15. AcceptedTookSeat'
  <2>1. \A d \in Joining : About(d)' = About(d) /\ FamilyOf(d)' = invitation'[About(d)].family
    BY <1>4 DEF About, FamilyOf
  <2>2. ASSUME NEW j \in Inviting, invitation'[j].status = "accepted"
        PROVE  \E d \in Joining : /\ About(d) = j
                                  /\ seat'[d].family = invitation'[j].family
                                  /\ seat'[d].user = invitation'[j].acceptor
    <3>1. CASE j = i
      BY <1>1, <1>5, <3>1 DEF FamilyOf
    <3>2. CASE j # i
      <4>1. PICK d \in Joining : /\ About(d) = j
                                 /\ seat[d].family = invitation[j].family
                                 /\ seat[d].user = invitation[j].acceptor
        BY <1>5, <2>2, <3>2 DEF IInv, AcceptedTookSeat
      <4>. QED
        BY <1>5, <3>2, <4>1 DEF Seat
    <3>. QED
      BY <3>1, <3>2
  <2>3. ASSUME NEW d \in Joining, seat'[d].family # Nobody
        PROVE  /\ seat'[d].family = invitation'[About(d)].family
               /\ invitation'[About(d)].status \in {"accepted", "cancelled"}
    <3>1. CASE d = c
      BY <1>1, <1>5, <3>1 DEF FamilyOf
    <3>2. CASE d # c
      BY <1>5, <2>3, <3>2 DEF IInv, AcceptedTookSeat, CallsInStep, FamilyOf, Seat
    <3>. QED
      BY <3>1, <3>2
  <2>. QED
    BY <2>1, <2>2, <2>3 DEF AcceptedTookSeat
<1>16. OneInvitationWithinSeats'
  <2>1. Cardinality(SeatsBy(i)') + 1 <= MaxSeats
    BY <1>1, <1>10, <1>11
  <2>2. \A j \in Inviting \ {i} : invitation'[j].status # "absent" =>
          Cardinality(SeatsBy(j)') + 1 <= MaxSeats
    BY <1>5, <1>9 DEF IInv, OneInvitationWithinSeats
  <2>. QED
    BY <1>4, <2>1, <2>2 DEF OneInvitationWithinSeats, About
<1>17. CodesUnique'
  BY <1>1, <1>5 DEF IInv, CodesUnique
<1>. QED
  BY <1>6, <1>8, <1>13, <1>14, <1>15, <1>16, <1>17 DEF IInv

LEMMA CommitRemovalInv ==
    ASSUME IInv, NEW c \in Removing, CommitRemoval(c)
    PROVE  IInv'
<1>. DEFINE s == About(c)
<1>0. /\ c \in Call
      /\ c \notin Founding \cup Inviting \cup Joining \cup Cancelling
  BY DEF Call
<1>1. /\ pc[c] = "writing" /\ s \in Joining /\ s \in Seat /\ s \notin Founding
  BY DEF CommitRemoval, IInv, CallsInStep, Seat
<1>2. /\ seat' = [seat EXCEPT ![s].active = FALSE]
      /\ pc' = [pc EXCEPT ![c] = "done"]
      /\ UNCHANGED <<creator, invitation, locker, asked>>
  BY DEF CommitRemoval, Goto
<1>3. /\ \A t \in Seat \ {s} : seat'[t] = seat[t]
      /\ seat'[s] = [seat[s] EXCEPT !.active = FALSE]
      /\ seat[s] \in SeatRow
      /\ \A d \in Call \ {c} : pc'[d] = pc[d]
      /\ pc'[c] = "done"
  BY <1>0, <1>1, <1>2 DEF IInv, TypeOK
<1>4. /\ seat'[s].family = seat[s].family /\ seat'[s].user = seat[s].user
      /\ ~ seat'[s].active /\ seat'[s] \in SeatRow
      /\ seat[s] = NoSeat => seat'[s] = NoSeat
  <2>1. /\ seat'[s].family = seat[s].family /\ seat'[s].user = seat[s].user
        /\ ~ seat'[s].active /\ seat'[s] \in SeatRow
    BY <1>3 DEF SeatRow
  <2>2. seat[s] = NoSeat => seat'[s] = NoSeat
    <3>1. \A t \in SeatRow : t = [family |-> t.family, user |-> t.user,
                                  active |-> t.active]
      BY DEF SeatRow
    <3>2. seat'[s] = [family |-> seat[s].family, user |-> seat[s].user,
                      active |-> FALSE]
      BY <1>3, <2>1, <3>1
    <3>. QED
      BY <3>2 DEF NoSeat
  <2>. QED
    BY <2>1, <2>2
<1>5. TypeOK'
  <2>1. seat' \in [Seat -> SeatRow]
    BY <1>2, <1>4, <1>1 DEF IInv, TypeOK
  <2>. QED
    BY <1>2, <2>1 DEF IInv, TypeOK, Ended
<1>6. \A d \in Joining : /\ seat'[d].family = seat[d].family
                         /\ seat'[d].user = seat[d].user
                         /\ seat[d] = NoSeat => seat'[d] = NoSeat
                         /\ seat'[d].active => seat[d].active
  BY <1>3, <1>4 DEF Seat
<1>7. \A f \in Founding : seat'[f] = seat[f]
  BY <1>1, <1>3 DEF Seat
<1>8. \A d : About(d)' = About(d) /\ FamilyOf(d)' = FamilyOf(d)
  BY <1>2 DEF About, FamilyOf
<1>9. \A j : Cardinality(SeatsBy(j)') <= Cardinality(SeatsBy(j))
             /\ Cardinality(SeatsBy(j)') \in Nat
  <2>1. SUFFICES ASSUME NEW j
                 PROVE  Cardinality(SeatsBy(j)') <= Cardinality(SeatsBy(j))
                        /\ Cardinality(SeatsBy(j)') \in Nat
    OBVIOUS
  <2>2. SeatsBy(j)' \subseteq SeatsBy(j)
    BY <1>6, <1>8 DEF SeatsBy
  <2>. QED
    BY <2>2, SeatsByFinite, FS_Subset, FS_CardinalityType
<1>10. RowsInStep'
  <2>1. \A d \in Joining :
          IF seat'[d].family = Nobody THEN seat'[d] = NoSeat ELSE pc'[d] = "done"
    BY <1>0, <1>3, <1>6 DEF IInv, RowsInStep, Call
  <2>. QED
    BY <1>0, <1>2, <1>3, <2>1 DEF IInv, RowsInStep, Call
<1>11. CallsInStep'
  <2>1. \A d \in Joining : pc'[d] = "committing" =>
          Cardinality(SeatsBy(About(d))') + 2 <= MaxSeats
    <3>1. SUFFICES ASSUME NEW d \in Joining, pc'[d] = "committing"
                   PROVE  Cardinality(SeatsBy(About(d))') + 2 <= MaxSeats
      OBVIOUS
    <3>2. Cardinality(SeatsBy(About(d))) + 2 <= MaxSeats
      BY <1>0, <1>3, <3>1 DEF IInv, CallsInStep, Call
    <3>3. Cardinality(SeatsBy(About(d))') <= Cardinality(SeatsBy(About(d)))
          /\ Cardinality(SeatsBy(About(d))') \in Nat
      BY <1>8, <1>9
    <3>. QED
      BY <3>2, <3>3, SeatsByFinite
  <2>2. \A d \in Founding \cup Inviting \cup Joining \cup Cancelling : pc'[d] = pc[d]
    BY <1>0, <1>3 DEF Call
  <2>3. \A d \in Removing : pc'[d] = "writing" => pc[d] = "writing"
    BY <1>3 DEF Call
  <2>. QED
    BY <1>2, <1>6, <1>8, <2>1, <2>2, <2>3 DEF IInv, CallsInStep
<1>12. FamilyHasItsAdmin' /\ CodesUnique'
  BY <1>2, <1>7 DEF IInv, FamilyHasItsAdmin, CodesUnique
<1>13. AcceptedTookSeat'
  BY <1>2, <1>6, <1>8 DEF IInv, AcceptedTookSeat
<1>14. OneInvitationWithinSeats'
  <2>1. SUFFICES ASSUME NEW j \in Inviting, invitation[j].status # "absent"
                 PROVE  Cardinality(SeatsBy(j)') + 1 <= MaxSeats
    BY <1>2 DEF OneInvitationWithinSeats
  <2>2. Cardinality(SeatsBy(j)) + 1 <= MaxSeats
    BY <2>1 DEF IInv, OneInvitationWithinSeats
  <2>. QED
    BY <1>9, <2>2, SeatsByFinite
<1>. QED
  BY <1>5, <1>10, <1>11, <1>12, <1>13, <1>14 DEF IInv

(* An invitation that is cancelled, or whose time has come.                *)
LEMMA InvitationStep ==
    ASSUME IInv, TypeOK', NEW i \in Inviting,
           invitation[i].status # "absent",
           UNCHANGED <<creator, seat, locker, asked>>,
           \A j \in Inviting \ {i} : invitation'[j] = invitation[j],
           invitation'[i].family = invitation[i].family,
           invitation'[i].code = invitation[i].code,
           \/ /\ invitation'[i].status = invitation[i].status
              /\ invitation'[i].acceptor = invitation[i].acceptor
           \/ invitation'[i].status = "cancelled",
           \A d \in Founding \cup Inviting \cup Joining \cup Removing :
               pc'[d] = pc[d],
           \A d \in Cancelling : pc'[d] = "writing" => pc[d] = "writing"
    PROVE  IInv'
<1>1. \A d : About(d)' = About(d) /\ SeatsBy(d)' = SeatsBy(d)
  BY DEF About, SeatsBy
<1>2. \A j \in Inviting : /\ invitation'[j].status = "absent"
                                <=> invitation[j].status = "absent"
                          /\ invitation'[j].family = invitation[j].family
                          /\ invitation'[j].code = invitation[j].code
  OBVIOUS
<1>3. \A j \in Inviting : invitation'[j].status = "absent" =>
        invitation'[j] = invitation[j]
  BY <1>2
<1>4. RowsInStep'
  BY <1>2, <1>3 DEF IInv, RowsInStep
<1>5. CallsInStep'
  BY <1>1, <1>2 DEF IInv, CallsInStep
<1>6. FamilyHasItsAdmin' /\ OneInvitationWithinSeats' /\ CodesUnique'
  BY <1>1, <1>2 DEF IInv, FamilyHasItsAdmin, OneInvitationWithinSeats, CodesUnique
<1>7. AcceptedTookSeat'
  <2>1. \A j \in Inviting : invitation'[j].status = "accepted" =>
          /\ invitation[j].status = "accepted"
          /\ invitation'[j].acceptor = invitation[j].acceptor
    OBVIOUS
  <2>2. ASSUME NEW d \in Joining, seat[d].family # Nobody
        PROVE  /\ seat[d].family = FamilyOf(d)'
               /\ invitation'[About(d)].status \in {"accepted", "cancelled"}
    <3>1. About(d) \in Inviting
      BY <2>2 DEF IInv, CallsInStep
    <3>2. /\ seat[d].family = invitation[About(d)].family
          /\ invitation[About(d)].status \in {"accepted", "cancelled"}
      BY <2>2 DEF IInv, AcceptedTookSeat, FamilyOf
    <3>3. FamilyOf(d)' = invitation'[About(d)].family
      BY <1>1 DEF FamilyOf
    <3>. QED
      BY <1>2, <3>1, <3>2, <3>3
  <2>3. ASSUME NEW j \in Inviting, invitation'[j].status = "accepted"
        PROVE  \E d \in Joining : /\ About(d) = j
                                  /\ seat[d].family = invitation'[j].family
                                  /\ seat[d].user = invitation'[j].acceptor
    BY <1>2, <2>1, <2>3 DEF IInv, AcceptedTookSeat
  <2>. QED
    BY <1>1, <2>2, <2>3 DEF AcceptedTookSeat
<1>. QED
  BY <1>4, <1>5, <1>6, <1>7 DEF IInv

LEMMA CommitCancellationInv ==
    ASSUME IInv, NEW c \in Cancelling, CommitCancellation(c)
    PROVE  IInv'
<1>. DEFINE i == About(c)
<1>0. /\ c \in Call
      /\ c \notin Founding \cup Inviting \cup Joining \cup Removing
  BY DEF Call
<1>1. i \in Inviting /\ invitation[i].status # "absent"
  BY DEF CommitCancellation, IInv, CallsInStep
<1>2. /\ invitation' = [invitation EXCEPT ![i].status = "cancelled"]
      /\ pc' = [pc EXCEPT ![c] = "done"]
      /\ UNCHANGED <<creator, seat, locker, asked>>
  BY DEF CommitCancellation, Goto
<1>3. /\ invitation[i] \in InvitationRow
      /\ invitation'[i] = [invitation[i] EXCEPT !.status = "cancelled"]
      /\ \A j \in Inviting \ {i} : invitation'[j] = invitation[j]
      /\ \A d \in Call \ {c} : pc'[d] = pc[d]
      /\ pc'[c] = "done"
  BY <1>0, <1>1, <1>2 DEF IInv, TypeOK
<1>4. /\ invitation'[i] \in InvitationRow
      /\ invitation'[i].status = "cancelled"
      /\ invitation'[i].family = invitation[i].family
      /\ invitation'[i].code = invitation[i].code
  BY <1>3 DEF InvitationRow, Status
<1>5. TypeOK'
  <2>1. invitation' \in [Inviting -> InvitationRow]
    BY <1>2, <1>4 DEF IInv, TypeOK
  <2>. QED
    BY <1>2, <2>1 DEF IInv, TypeOK, Ended
<1>6. /\ \A d \in Founding \cup Inviting \cup Joining \cup Removing : pc'[d] = pc[d]
      /\ \A d \in Cancelling : pc'[d] = "writing" => pc[d] = "writing"
  BY <1>0, <1>3 DEF Call
<1>. QED
  BY <1>1, <1>2, <1>3, <1>4, <1>5, <1>6, InvitationStep

LEMMA PassExpiryInv ==
    ASSUME IInv, NEW i \in Inviting, PassExpiry(i)
    PROVE  IInv'
<1>1. /\ invitation[i].status = "sent"
      /\ invitation' = [invitation EXCEPT ![i].late = TRUE]
      /\ UNCHANGED <<creator, seat, locker, asked, pc>>
  BY DEF PassExpiry
<1>2. /\ invitation[i] \in InvitationRow
      /\ invitation'[i] = [invitation[i] EXCEPT !.late = TRUE]
      /\ \A j \in Inviting \ {i} : invitation'[j] = invitation[j]
  BY <1>1 DEF IInv, TypeOK
<1>3. /\ invitation'[i] \in InvitationRow
      /\ invitation'[i].status = invitation[i].status
      /\ invitation'[i].acceptor = invitation[i].acceptor
      /\ invitation'[i].family = invitation[i].family
      /\ invitation'[i].code = invitation[i].code
  BY <1>2 DEF InvitationRow
<1>4. TypeOK'
  <2>1. invitation' \in [Inviting -> InvitationRow]
    BY <1>1, <1>3 DEF IInv, TypeOK
  <2>. QED
    BY <1>1, <2>1 DEF IInv, TypeOK
<1>. QED
  BY <1>1, <1>2, <1>3, <1>4, InvitationStep

-----------------------------------------------------------------------------
(* The theorems                                                            *)

LEMMA NextInv == IInv /\ [Next]_vars => IInv'
<1>. SUFFICES ASSUME IInv, [Next]_vars PROVE IInv'
  OBVIOUS
<1>1. ASSUME NEW c \in Founding, Found(c) PROVE IInv'
  BY <1>1, CheckFounderInv, InsertFamilyInv DEF Found
<1>2. ASSUME NEW c \in Inviting, CreateInvitation(c) PROVE IInv'
  BY <1>2, InviterReadsInv, InsertInvitationInv DEF CreateInvitation
<1>3. ASSUME NEW c \in Joining, Join(c) PROVE IInv'
  BY <1>3, JoinReadsInv, RecountInv, CommitJoinInv DEF Join
<1>4. ASSUME NEW c \in Removing, RemoveMember(c) PROVE IInv'
  BY <1>4, RemoverReadsInv, CommitRemovalInv DEF RemoveMember
<1>5. ASSUME NEW c \in Cancelling, CancelInvitation(c) PROVE IInv'
  BY <1>5, CancellerReadsInv, CommitCancellationInv DEF CancelInvitation
<1>6. ASSUME NEW c \in Call, CutOff(c) PROVE IInv'
  BY <1>6, RollbackInv DEF CutOff
<1>7. CASE UNCHANGED vars
  <2>. USE <1>7 DEF vars, rows
  <2>1. TypeOK' /\ RowsInStep' /\ FamilyHasItsAdmin' /\ CodesUnique'
    BY DEF IInv, TypeOK, RowsInStep, FamilyHasItsAdmin, CodesUnique
  <2>2. \A d : /\ About(d)' = About(d) /\ FamilyOf(d)' = FamilyOf(d)
              /\ SeatsBy(d)' = SeatsBy(d)
    BY DEF About, FamilyOf, SeatsBy
  <2>3. CallsInStep' /\ AcceptedTookSeat' /\ OneInvitationWithinSeats'
    BY <2>2 DEF IInv, CallsInStep, AcceptedTookSeat, OneInvitationWithinSeats
  <2>. QED
    BY <2>1, <2>3 DEF IInv
<1>. QED
  BY <1>1, <1>2, <1>3, <1>4, <1>5, <1>6, <1>7, PassExpiryInv DEF Next, AllEnded

(* The inductive invariant of create_family, create_invitation,            *)
(* join_family, remove_member and cancel_invitation, all together.         *)
THEOREM Invariance == Spec => []IInv
<1>1. IInv /\ [Next]_vars => IInv'
  BY NextInv
<1>. QED
  BY <1>1, InitIInv, PTL DEF Spec

(* Every row and every call stays within its type.                         *)
THEOREM TypeCorrect == Spec => []TypeOK
<1>1. IInv => TypeOK
  BY DEF IInv
<1>. QED
  BY <1>1, Invariance, PTL

(* create_family and remove_member: a family is never without its admin.   *)
THEOREM AdminStays == Spec => []FamilyHasItsAdmin
<1>1. IInv => FamilyHasItsAdmin
  BY DEF IInv
<1>. QED
  BY <1>1, Invariance, PTL

(* join_family against cancel_invitation: a seat and the invitation that   *)
(* gave it agree.                                                          *)
THEOREM JoinsMatchInvitations == Spec => []AcceptedTookSeat
<1>1. IInv => AcceptedTookSeat
  BY DEF IInv
<1>. QED
  BY <1>1, Invariance, PTL

(* join_family against itself: however many children use one invitation at *)
(* once, it does not fill more seats than the plan has.                    *)
THEOREM OneInvitationNeverOverfills == Spec => []OneInvitationWithinSeats
<1>1. IInv => OneInvitationWithinSeats
  BY DEF IInv
<1>. QED
  BY <1>1, Invariance, PTL

(* generate_unique_invite_code: a code names one invitation.               *)
THEOREM CodesStayUnique == Spec => []CodesUnique
<1>1. IInv => CodesUnique
  BY DEF IInv
<1>. QED
  BY <1>1, Invariance, PTL
=============================================================================
