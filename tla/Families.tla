------------------------------ MODULE Families ------------------------------
(***************************************************************************)
(* services/family_service.py and services/invitation_service.py: a parent *)
(* founds a family and hands out invite codes, a child joins with a code,  *)
(* the parent removes a child or cancels a code.  Every check is a plain   *)
(* SELECT; the only rows two calls ever contend for are invitations, whose *)
(* UPDATE in join_family is followed by one more statement before the      *)
(* commit, a second count of the seats.                                    *)
(*                                                                         *)
(* Rows are named by the call that inserts them: a family and the seat of  *)
(* its admin by a founding call, the seat of a member by a joining call,   *)
(* an invitation by an inviting call.  Calls of users who lack the role    *)
(* the endpoint requires (require_parent, require_child) change nothing    *)
(* and are left out, as are the endpoints that only read.                  *)
(***************************************************************************)
EXTENDS Naturals, FiniteSets

CONSTANTS
    Founding,    \* calls POST /families/
    Inviting,    \* calls POST /invitations/
    Joining,     \* calls POST /invitations/join
    Removing,    \* calls DELETE /families/{id}/members/{uid}
    Cancelling,  \* calls DELETE /invitations/{id}
    Parent,      \* users with role "parent"
    Child,       \* users with role "child"
    Code,        \* the invite codes
    MaxSeats,    \* families.max_seats; no code ever changes it
    MaxPending,  \* _MAX_PENDING_INVITATIONS
    Nobody       \* NULL

Call == Founding \cup Inviting \cup Joining \cup Removing \cup Cancelling
Seat == Founding \cup Joining
User == Parent \cup Child

ASSUME FamiliesAssumption ==
    /\ Founding \cap (Inviting \cup Joining \cup Removing \cup Cancelling) = {}
    /\ Inviting \cap (Joining \cup Removing \cup Cancelling) = {}
    /\ Joining \cap (Removing \cup Cancelling) = {}
    /\ Removing \cap Cancelling = {}
    /\ Parent \cap Child = {}
    /\ IsFiniteSet(Founding) /\ IsFiniteSet(Joining)
    /\ MaxSeats \in Nat \ {0} /\ MaxPending \in Nat
    /\ Nobody \notin Call \cup User \cup Code

VARIABLES
    creator,     \* families.created_by; Nobody until the family exists
    seat,        \* rows of family_members; family = Nobody: no such row
    invitation,  \* rows of invitations
    locker,      \* the call that holds the lock on an invitation row
    asked,       \* the user of a call and the row it is about, once read
    pc           \* how far each call has come

rows == <<creator, seat, invitation>>
vars == <<rows, locker, asked, pc>>

SeatRow == [family : Founding \cup {Nobody}, user : User \cup {Nobody},
            active : BOOLEAN]
NoSeat == [family |-> Nobody, user |-> Nobody, active |-> FALSE]

(* "expired" is written only by a call that then rolls back, so no         *)
(* committed row has it; late says whether expires_at has passed.          *)
Status == {"absent", "sent", "accepted", "cancelled"}

InvitationRow == [status : Status, family : Founding \cup {Nobody},
                  by : Parent \cup {Nobody}, code : Code \cup {Nobody},
                  late : BOOLEAN, acceptor : Child \cup {Nobody}]
NoInvitation == [status |-> "absent", family |-> Nobody, by |-> Nobody,
                 code |-> Nobody, late |-> FALSE, acceptor |-> Nobody]

Question == [user : User \cup {Nobody}, code : Code \cup {Nobody},
             about : Founding \cup Inviting \cup Joining \cup {Nobody}]
Unasked == [user |-> Nobody, code |-> Nobody, about |-> Nobody]

Ended == {"done", "failed"}

TypeOK ==
    /\ creator \in [Founding -> Parent \cup {Nobody}]
    /\ seat \in [Seat -> SeatRow]
    /\ invitation \in [Inviting -> InvitationRow]
    /\ locker \in [Inviting -> Joining \cup {Nobody}]
    /\ asked \in [Call -> Question]
    /\ pc \in [Call -> {"idle", "counting", "choosing", "inserting",
                        "admitted", "seating", "flushing", "recounting",
                        "committing", "writing"} \cup Ended]

Init ==
    /\ creator = [f \in Founding |-> Nobody]
    /\ seat = [s \in Seat |-> NoSeat]
    /\ invitation = [i \in Inviting |-> NoInvitation]
    /\ locker = [i \in Inviting |-> Nobody]
    /\ asked = [c \in Call |-> Unasked]
    /\ pc = [c \in Call |-> "idle"]

Goto(c, label) == pc' = [pc EXCEPT ![c] = label]
About(c) == asked[c].about
Asks(c, u, row) ==
    asked' = [asked EXCEPT ![c] = [user |-> u, code |-> Nobody, about |-> row]]

ActiveSeats(u) == {s \in Seat : seat[s].active /\ seat[s].user = u}
SeatsOf(f) == {s \in Seat : seat[s].active /\ seat[s].family = f}

Unlocked(c) == [i \in Inviting |-> IF locker[i] = c THEN Nobody ELSE locker[i]]

(* get_db: an exception, or a lost connection, undoes all.                 *)
Rollback(c) ==
    /\ locker' = Unlocked(c)
    /\ Goto(c, "failed")
    /\ UNCHANGED <<rows, asked>>

-----------------------------------------------------------------------------
(* create_family                                                           *)

MayFound(u) == ActiveSeats(u) = {} /\ \A f \in Founding : creator[f] # u

CheckFounder(c) ==
    /\ pc[c] = "idle"
    /\ \E u \in Parent :
        /\ Asks(c, u, c)
        /\ Goto(c, IF MayFound(u) THEN "inserting" ELSE "failed")
    /\ UNCHANGED <<rows, locker>>

(* INSERT the family and the seat of its admin, commit.                    *)
InsertFamily(c) ==
    /\ pc[c] = "inserting"
    /\ creator' = [creator EXCEPT ![c] = asked[c].user]
    /\ seat' = [seat EXCEPT ![c] = [family |-> c, user |-> asked[c].user,
                                    active |-> TRUE]]
    /\ Goto(c, "done")
    /\ UNCHANGED <<invitation, locker, asked>>

Found(c) == CheckFounder(c) \/ InsertFamily(c)

-----------------------------------------------------------------------------
(* create_invitation                                                       *)

(* The inviter's seat as admin, then the seats of that family.             *)
CheckInviter(c) ==
    /\ pc[c] = "idle"
    /\ \/ \E u \in Parent : \E s \in ActiveSeats(u) \cap Founding :
            /\ Asks(c, u, seat[s].family)
            /\ Goto(c, IF Cardinality(SeatsOf(seat[s].family)) < MaxSeats
                       THEN "counting" ELSE "failed")
       \/ /\ \E u \in Parent : ActiveSeats(u) \cap Founding = {}
          /\ Goto(c, "failed")
          /\ UNCHANGED asked
    /\ UNCHANGED <<rows, locker>>

PendingOf(f) ==
    {i \in Inviting : invitation[i].status = "sent" /\ invitation[i].family = f}

CountPending(c) ==
    /\ pc[c] = "counting"
    /\ Goto(c, IF Cardinality(PendingOf(About(c))) < MaxPending
               THEN "choosing" ELSE "failed")
    /\ UNCHANGED <<rows, locker, asked>>

UsedCodes == {invitation[i].code : i \in Inviting}

(* generate_unique_invite_code: a random code no row has; gives up after   *)
(* ten that are taken.                                                     *)
ChooseCode(c) ==
    /\ pc[c] = "choosing"
    /\ \/ \E code \in Code \ UsedCodes :
            /\ asked' = [asked EXCEPT ![c].code = code]
            /\ Goto(c, "inserting")
       \/ /\ Code \cap UsedCodes # {}
          /\ Goto(c, "failed")
          /\ UNCHANGED asked
    /\ UNCHANGED <<rows, locker>>

Invite(c) ==
    invitation' = [invitation EXCEPT ![c] =
        [status |-> "sent", family |-> About(c), by |-> asked[c].user,
         code |-> asked[c].code, late |-> FALSE, acceptor |-> Nobody]]

(* INSERT and commit; the UNIQUE constraint on the code can refuse it.     *)
InsertInvitation(c) ==
    /\ pc[c] = "inserting"
    /\ IF asked[c].code \in UsedCodes
       THEN Goto(c, "failed") /\ UNCHANGED invitation
       ELSE Invite(c) /\ Goto(c, "done")
    /\ UNCHANGED <<creator, seat, locker, asked>>

CreateInvitation(c) ==
    CheckInviter(c) \/ CountPending(c) \/ ChooseCode(c) \/ InsertInvitation(c)

-----------------------------------------------------------------------------
(* join_family                                                             *)

Usable(i) == invitation[i].status = "sent" /\ ~ invitation[i].late

(* The invitation by its code.  One that is late is set to expired and     *)
(* then the exception that tells the child so undoes it.                   *)
FindInvitation(c) ==
    /\ pc[c] = "idle"
    /\ \E u \in Child, i \in Inviting :
        /\ Asks(c, u, i)
        /\ Goto(c, IF Usable(i) THEN "admitted" ELSE "failed")
    /\ UNCHANGED <<rows, locker>>

CheckMembership(c) ==
    /\ pc[c] = "admitted"
    /\ Goto(c, IF ActiveSeats(asked[c].user) = {} THEN "seating" ELSE "failed")
    /\ UNCHANGED <<rows, locker, asked>>

FamilyOf(c) == invitation[About(c)].family

CheckSeats(c) ==
    /\ pc[c] = "seating"
    /\ Goto(c, IF Cardinality(SeatsOf(FamilyOf(c))) < MaxSeats
               THEN "flushing" ELSE "failed")
    /\ UNCHANGED <<rows, locker, asked>>

(* Slip: the invitation is updated only after the second count.            *)
FlushJoinSeatOnly(c) ==
    /\ pc[c] = "flushing"
    /\ Goto(c, "recounting")
    /\ UNCHANGED <<rows, locker, asked>>

(* INSERT the seat, UPDATE the invitation: the row lock is held from here. *)
FlushJoin(c) ==
    /\ pc[c] = "flushing"
    /\ locker[About(c)] = Nobody
    /\ locker' = [locker EXCEPT ![About(c)] = c]
    /\ Goto(c, "recounting")
    /\ UNCHANGED <<rows, asked>>

(* Slip: the second count is left out.                                     *)
RecountSkipped(c) ==
    /\ pc[c] = "recounting"
    /\ Goto(c, "committing")
    /\ UNCHANGED <<rows, locker, asked>>

(* "Post-insert seat verification": what is committed, and its own row.    *)
RecountSeats(c) ==
    /\ pc[c] = "recounting"
    /\ IF Cardinality(SeatsOf(FamilyOf(c))) + 1 > MaxSeats
       THEN Rollback(c)
       ELSE Goto(c, "committing") /\ UNCHANGED <<rows, locker, asked>>

(* Slip: accepted_by is not set.                                           *)
CommitJoinAnonymously(c) ==
    /\ pc[c] = "committing"
    /\ seat' = [seat EXCEPT ![c] = [family |-> FamilyOf(c),
                                    user |-> asked[c].user, active |-> TRUE]]
    /\ invitation' = [invitation EXCEPT ![About(c)].status = "accepted"]
    /\ locker' = Unlocked(c)
    /\ Goto(c, "done")
    /\ UNCHANGED <<creator, asked>>

CommitJoin(c) ==
    /\ pc[c] = "committing"
    /\ seat' = [seat EXCEPT ![c] = [family |-> FamilyOf(c),
                                    user |-> asked[c].user, active |-> TRUE]]
    /\ invitation' = [invitation EXCEPT ![About(c)].status = "accepted",
                                        ![About(c)].acceptor = asked[c].user]
    /\ locker' = Unlocked(c)
    /\ Goto(c, "done")
    /\ UNCHANGED <<creator, asked>>

Join(c) ==
    \/ FindInvitation(c)
    \/ CheckMembership(c)
    \/ CheckSeats(c)
    \/ FlushJoin(c)
    \/ RecountSeats(c)
    \/ CommitJoin(c)

-----------------------------------------------------------------------------
(* remove_member and cancel_invitation                                     *)

(* The seats an admin may clear: of the same family, and no admin's.       *)
Removable(u) ==
    {s \in Joining : /\ seat[s].active
                     /\ \E t \in ActiveSeats(u) \cap Founding :
                            seat[t].family = seat[s].family}

ReadMember(c) ==
    /\ pc[c] = "idle"
    /\ \/ \E u \in Parent : \E s \in Removable(u) :
            /\ Asks(c, u, s)
            /\ Goto(c, "writing")
       \/ Goto(c, "failed") /\ UNCHANGED asked
    /\ UNCHANGED <<rows, locker>>

CommitRemoval(c) ==
    /\ pc[c] = "writing"
    /\ seat' = [seat EXCEPT ![About(c)].active = FALSE]
    /\ Goto(c, "done")
    /\ UNCHANGED <<creator, invitation, locker, asked>>

RemoveMember(c) == ReadMember(c) \/ CommitRemoval(c)

(* Its sender only, and only while it is sent.                             *)
ReadInvitation(c) ==
    /\ pc[c] = "idle"
    /\ \/ \E i \in Inviting :
            /\ invitation[i].status = "sent"
            /\ Asks(c, invitation[i].by, i)
            /\ Goto(c, "writing")
       \/ Goto(c, "failed") /\ UNCHANGED asked
    /\ UNCHANGED <<rows, locker>>

(* The UPDATE, by primary key, waits for a join that has the row.          *)
CommitCancellation(c) ==
    /\ pc[c] = "writing"
    /\ locker[About(c)] = Nobody
    /\ invitation' = [invitation EXCEPT ![About(c)].status = "cancelled"]
    /\ Goto(c, "done")
    /\ UNCHANGED <<creator, seat, locker, asked>>

CancelInvitation(c) == ReadInvitation(c) \/ CommitCancellation(c)

-----------------------------------------------------------------------------
(* The environment                                                         *)

(* The clock passes expires_at.                                            *)
PassExpiry(i) ==
    /\ invitation[i].status = "sent"
    /\ ~ invitation[i].late
    /\ invitation' = [invitation EXCEPT ![i].late = TRUE]
    /\ UNCHANGED <<creator, seat, locker, asked, pc>>

(* The worker or its connection dies before the commit.                    *)
CutOff(c) ==
    /\ pc[c] \notin Ended \cup {"idle"}
    /\ Rollback(c)

AllEnded ==
    /\ \A c \in Call : pc[c] \in Ended
    /\ UNCHANGED vars

Next ==
    \/ \E c \in Founding : Found(c)
    \/ \E c \in Inviting : CreateInvitation(c)
    \/ \E c \in Joining : Join(c)
    \/ \E c \in Removing : RemoveMember(c)
    \/ \E c \in Cancelling : CancelInvitation(c)
    \/ \E i \in Inviting : PassExpiry(i)
    \/ \E c \in Call : CutOff(c)
    \/ AllEnded

Spec == Init /\ [][Next]_vars

-----------------------------------------------------------------------------
(* Properties                                                              *)

(* A family exists exactly when its creator sits in it as its admin: the   *)
(* two inserts of create_family stay together, and no removal, however     *)
(* stale what it read, clears an admin's seat ("Admin cannot be removed"). *)
FamilyHasItsAdmin ==
    \A f \in Founding :
        seat[f] = IF creator[f] = Nobody THEN NoSeat
                  ELSE [family |-> f, user |-> creator[f], active |-> TRUE]

(* An accepted invitation names a child who took a seat in its family with *)
(* it, and an invitation that gave a seat is never pending again: not by a *)
(* join that failed after it, nor by a cancellation that came too late.    *)
AcceptedTookSeat ==
    /\ \A i \in Inviting : invitation[i].status = "accepted" =>
        \E c \in Joining : /\ About(c) = i
                           /\ seat[c].family = invitation[i].family
                           /\ seat[c].user = invitation[i].acceptor
    /\ \A c \in Joining : seat[c].family # Nobody =>
        /\ seat[c].family = FamilyOf(c)
        /\ invitation[About(c)].status \in {"accepted", "cancelled"}

(* The seats taken with one invitation.                                    *)
SeatsBy(i) == {c \in Joining : seat[c].active /\ About(c) = i}

(* Calls that join with the same invitation never overfill the family: the *)
(* row lock and the second count make them take turns ("Post-insert seat   *)
(* verification (defense against race condition)").                        *)
OneInvitationWithinSeats ==
    \A i \in Inviting : invitation[i].status # "absent" =>
        Cardinality(SeatsBy(i)) + 1 <= MaxSeats

(* A code finds one invitation, whatever became of the older ones.         *)
CodesUnique ==
    \A i, j \in Inviting :
        /\ invitation[i].status # "absent"
        /\ invitation[i].code = invitation[j].code
        => i = j

(* What the proofs need besides: how far each call has come, and which     *)
(* rows it relies on.  Rows are inserted by the commit of their call only, *)
(* and never leave; a join between its flush and its commit has the lock   *)
(* of its invitation; one about to commit has counted a free seat, and no  *)
(* other join with the same invitation can have taken it since.            *)
RowsInStep ==
    /\ \A f \in Founding : creator[f] # Nobody => pc[f] = "done"
    /\ \A i \in Inviting :
        IF invitation[i].status = "absent" THEN invitation[i] = NoInvitation
        ELSE /\ pc[i] = "done"
             /\ invitation[i].family \in Founding
             /\ creator[invitation[i].family] # Nobody
    /\ \A c \in Joining :
        IF seat[c].family = Nobody THEN seat[c] = NoSeat ELSE pc[c] = "done"

CallsInStep ==
    /\ \A c \in Founding : pc[c] = "inserting" => asked[c].user \in Parent
    /\ \A c \in Inviting : pc[c] \in {"counting", "choosing", "inserting"} =>
        /\ asked[c].user \in Parent
        /\ About(c) \in Founding
        /\ creator[About(c)] # Nobody
    /\ \A c \in Joining :
        /\ pc[c] \notin Ended \cup {"idle"} =>
            /\ asked[c].user \in Child
            /\ About(c) \in Inviting
            /\ invitation[About(c)].status # "absent"
        /\ pc[c] \in {"recounting", "committing"} => locker[About(c)] = c
        /\ pc[c] = "committing" => Cardinality(SeatsBy(About(c))) + 2 <= MaxSeats
        /\ seat[c].family # Nobody => About(c) \in Inviting
    /\ \A c \in Removing : pc[c] = "writing" => About(c) \in Joining
    /\ \A c \in Cancelling : pc[c] = "writing" =>
        About(c) \in Inviting /\ invitation[About(c)].status # "absent"

(* The inductive invariant of the proofs in FamiliesProofs.                *)
IInv ==
    /\ TypeOK
    /\ RowsInStep
    /\ CallsInStep
    /\ FamilyHasItsAdmin
    /\ AcceptedTookSeat
    /\ OneInvitationWithinSeats
    /\ CodesUnique

(* "A user can only be in ONE family at a time."                           *)
OneFamily ==
    \A u \in User, s, t \in Seat :
        s \in ActiveSeats(u) /\ t \in ActiveSeats(u) => seat[s].family = seat[t].family
=============================================================================
