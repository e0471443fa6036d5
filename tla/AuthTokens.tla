----------------------------- MODULE AuthTokens -----------------------------
(***************************************************************************)
(* services/auth_service.py: the refresh tokens of one user.  login issues *)
(* a token and deletes the dead ones, refresh_tokens trades a token for    *)
(* its successor, logout revokes one, change_password revokes all.         *)
(*                                                                         *)
(* Every statement names the user or a token of theirs, so users do not    *)
(* interfere and one is enough.  A token is named by the call that inserts *)
(* it, a password by the call that sets it.  Nothing in the code ever      *)
(* deactivates a user, so is_active is left out.                           *)
(*                                                                         *)
(* An UPDATE or DELETE of several rows finds them first and then waits     *)
(* until no other call has a lock on any: what is inserted in between it   *)
(* does not see.                                                           *)
(***************************************************************************)
EXTENDS FiniteSets

CONSTANTS
    Login,       \* calls POST /auth/login
    Refresh,     \* calls POST /auth/refresh
    Logout,      \* calls POST /auth/logout
    Change,      \* calls POST /auth/change-password
    Nobody       \* NULL, and the password set at registration

Call == Login \cup Refresh \cup Logout \cup Change
Token == Login \cup Refresh
Password == Change \cup {Nobody}

ASSUME AuthTokensAssumption ==
    /\ Login \cap (Refresh \cup Logout \cup Change) = {}
    /\ Refresh \cap (Logout \cup Change) = {}
    /\ Logout \cap Change = {}
    /\ Nobody \notin Call

VARIABLES
    password,    \* users.hashed_password: the call that set it
    token,       \* rows of refresh_tokens
    late,        \* the tokens whose expires_at has passed
    holder,      \* the call that has a lock on a token's row
    about,       \* the token a refresh or a logout presents
    found,       \* the rows the statement of a login or a change has found
    checked,     \* the password in force when a call read the database
    pc           \* how far each call has come

rows == <<password, token, late>>
reads == <<about, found, checked>>
vars == <<rows, holder, reads, pc>>

Ended == {"done", "failed"}

TypeOK ==
    /\ password \in Password
    /\ token \in [Token -> {"absent", "live", "revoked", "deleted"}]
    /\ late \in SUBSET Token
    /\ holder \in [Token -> Call \cup {Nobody}]
    /\ about \in [Refresh \cup Logout -> Token \cup {Nobody}]
    /\ found \in [Login \cup Change -> SUBSET Token]
    /\ checked \in [Call -> Password]
    /\ pc \in [Call -> {"idle", "finding", "writing", "committing"} \cup Ended]

Init ==
    /\ password = Nobody
    /\ token = [t \in Token |-> "absent"]
    /\ late = {}
    /\ holder = [t \in Token |-> Nobody]
    /\ about = [c \in Refresh \cup Logout |-> Nobody]
    /\ found = [c \in Login \cup Change |-> {}]
    /\ checked = [c \in Call |-> Nobody]
    /\ pc = [c \in Call |-> "idle"]

Goto(c, label) == pc' = [pc EXCEPT ![c] = label]
Reads(c) == checked' = [checked EXCEPT ![c] = password]

Issued == {t \in Token : token[t] # "absent"}
Row == {t \in Token : token[t] \in {"live", "revoked"}}
Live == {t \in Token : token[t] = "live"}

Unlocked(c) == [t \in Token |-> IF holder[t] = c THEN Nobody ELSE holder[t]]
Free(ts) == \A t \in ts : holder[t] = Nobody

(* get_db: an exception, or a lost connection, undoes all.                 *)
Rollback(c) ==
    /\ holder' = Unlocked(c)
    /\ Goto(c, "failed")
    /\ UNCHANGED <<rows, reads>>

-----------------------------------------------------------------------------
(* login                                                                   *)

(* The user's row; the password given is the one stored there or not.      *)
VerifyLogin(c) ==
    /\ pc[c] = "idle"
    /\ Reads(c)
    /\ Goto(c, "finding") \/ Goto(c, "failed")
    /\ UNCHANGED <<rows, holder, about, found>>

(* The DELETE of what is revoked or late finds its rows ...                *)
FindDead(c) ==
    /\ pc[c] = "finding"
    /\ found' = [found EXCEPT ![c] =
                    {t \in Row : token[t] = "revoked" \/ t \in late}]
    /\ Goto(c, "writing")
    /\ UNCHANGED <<rows, holder, about, checked>>

(* ... and has them; the INSERT of the new token and the commit follow.    *)
IssueToken(c) ==
    /\ pc[c] = "writing"
    /\ Free(found[c])
    /\ token' = [t \in Token |-> IF t = c THEN "live"
                                 ELSE IF t \in found[c] THEN "deleted"
                                 ELSE token[t]]
    /\ Goto(c, "done")
    /\ UNCHANGED <<password, late, holder, reads>>

LogIn(c) == VerifyLogin(c) \/ FindDead(c) \/ IssueToken(c)

-----------------------------------------------------------------------------
(* refresh_tokens                                                          *)

(* SELECT the token if it is not revoked, look at its expiry.              *)
FindToken(c) ==
    /\ pc[c] = "idle"
    /\ \E t \in Issued :
        /\ about' = [about EXCEPT ![c] = t]
        /\ Goto(c, IF t \in Live \ late THEN "writing" ELSE "failed")
    /\ Reads(c)
    /\ UNCHANGED <<rows, holder, found>>

(* Slip: the UPDATE of no row is not noticed, nor waited for.              *)
RevokeOldBlindly(c) ==
    /\ pc[c] = "writing"
    /\ Goto(c, "committing")
    /\ UNCHANGED <<rows, holder, reads>>

(* The UPDATE by primary key waits for the row; if it is gone the flush    *)
(* raises StaleDataError.  What it says now is not looked at again.        *)
RevokeOld(c) ==
    /\ pc[c] = "writing"
    /\ Free({about[c]})
    /\ IF about[c] \in Row
       THEN /\ holder' = [holder EXCEPT ![about[c]] = c]
            /\ Goto(c, "committing")
            /\ UNCHANGED <<rows, reads>>
       ELSE Rollback(c)

(* Slip: record.is_revoked = True is left out.                             *)
CommitRefreshUnrevoked(c) ==
    /\ pc[c] = "committing"
    /\ token' = [token EXCEPT ![c] = "live"]
    /\ holder' = Unlocked(c)
    /\ Goto(c, "done")
    /\ UNCHANGED <<password, late, reads>>

CommitRefresh(c) ==
    /\ pc[c] = "committing"
    /\ token' = [token EXCEPT ![about[c]] = "revoked", ![c] = "live"]
    /\ holder' = Unlocked(c)
    /\ Goto(c, "done")
    /\ UNCHANGED <<password, late, reads>>

Rotate(c) == FindToken(c) \/ RevokeOld(c) \/ CommitRefresh(c)

-----------------------------------------------------------------------------
(* logout                                                                  *)

(* A token that is gone or revoked already leaves nothing to write.        *)
FindRecord(c) ==
    /\ pc[c] = "idle"
    /\ \E t \in Issued :
        /\ about' = [about EXCEPT ![c] = t]
        /\ Goto(c, IF t \in Live THEN "writing" ELSE "done")
    /\ Reads(c)
    /\ UNCHANGED <<rows, holder, found>>

(* Slip: a row that another call has is passed over.                       *)
RevokeOneUnlessHeld(c) ==
    /\ pc[c] = "writing"
    /\ token' = [token EXCEPT ![about[c]] =
                    IF @ = "live" /\ Free({about[c]}) THEN "revoked" ELSE @]
    /\ Goto(c, "done")
    /\ UNCHANGED <<password, late, holder, reads>>

RevokeOne(c) ==
    /\ pc[c] = "writing"
    /\ Free({about[c]})
    /\ IF about[c] \in Row
       THEN /\ token' = [token EXCEPT ![about[c]] = "revoked"]
            /\ Goto(c, "done")
            /\ UNCHANGED <<password, late, holder, reads>>
       ELSE Rollback(c)

LogOut(c) == FindRecord(c) \/ RevokeOne(c)

-----------------------------------------------------------------------------
(* change_password                                                         *)

(* The user as the authentication has read it; the current password given  *)
(* is the one stored there or not.                                         *)
VerifyCurrent(c) ==
    /\ pc[c] = "idle"
    /\ Reads(c)
    /\ Goto(c, "finding") \/ Goto(c, "failed")
    /\ UNCHANGED <<rows, holder, about, found>>

(* The UPDATE of all tokens of the user finds them ...                     *)
FindTokens(c) ==
    /\ pc[c] = "finding"
    /\ found' = [found EXCEPT ![c] = Row]
    /\ Goto(c, "writing")
    /\ UNCHANGED <<rows, holder, about, checked>>

(* Slip: rows that another call has are passed over.                       *)
LockTokensSkipHeld(c) ==
    /\ pc[c] = "writing"
    /\ holder' = [t \in Token |->
                    IF t \in found[c] \cap Row /\ Free({t}) THEN c ELSE holder[t]]
    /\ Goto(c, "committing")
    /\ UNCHANGED <<rows, reads>>

(* ... and has them, those that have not been deleted meanwhile.           *)
LockTokens(c) ==
    /\ pc[c] = "writing"
    /\ Free(found[c])
    /\ holder' = [t \in Token |-> IF t \in found[c] \cap Row THEN c ELSE holder[t]]
    /\ Goto(c, "committing")
    /\ UNCHANGED <<rows, reads>>

(* UPDATE the user's row, commit.                                          *)
CommitChange(c) ==
    /\ pc[c] = "committing"
    /\ token' = [t \in Token |-> IF holder[t] = c THEN "revoked" ELSE token[t]]
    /\ password' = c
    /\ holder' = Unlocked(c)
    /\ Goto(c, "done")
    /\ UNCHANGED <<late, reads>>

ChangePassword(c) ==
    VerifyCurrent(c) \/ FindTokens(c) \/ LockTokens(c) \/ CommitChange(c)

-----------------------------------------------------------------------------
(* The environment                                                         *)

(* The clock passes expires_at.                                            *)
PassExpiry(t) ==
    /\ t \in Row \ late
    /\ late' = late \cup {t}
    /\ UNCHANGED <<password, token, holder, reads, pc>>

(* The worker or its connection dies before the commit.                    *)
CutOff(c) ==
    /\ pc[c] \notin Ended \cup {"idle"}
    /\ Rollback(c)

(* Nothing begins: no token was ever issued, or all calls have been made.  *)
Quiet ==
    /\ \A c \in Call : \/ pc[c] \in Ended
                       \/ pc[c] = "idle" /\ c \in Refresh \cup Logout
    /\ Issued = {} \/ \A c \in Call : pc[c] \in Ended
    /\ UNCHANGED vars

Next ==
    \/ \E c \in Login : LogIn(c)
    \/ \E c \in Refresh : Rotate(c)
    \/ \E c \in Logout : LogOut(c)
    \/ \E c \in Change : ChangePassword(c)
    \/ \E t \in Token : PassExpiry(t)
    \/ \E c \in Call : CutOff(c)
    \/ Quiet

Spec == Init /\ [][Next]_vars

-----------------------------------------------------------------------------
(* Properties                                                              *)

(* A token that has a successor is dead, however many calls presented it   *)
(* and in whatever order they, a cleanup and a logout went on ("old token  *)
(* revoked on every refresh").                                             *)
RotatedIsDead ==
    \A r \in Refresh : r \in Issued => about[r] \notin Live

(* A logout that succeeded has ended its token for good, also when it met  *)
(* a refresh, a change or a cleanup on the row.                            *)
LoggedOutIsDead ==
    \A c \in Logout : pc[c] = "done" => about[c] \notin Live

(* The tokens a completed change of password found are dead, also those it *)
(* had to wait for, and no refresh that began since got a successor for    *)
(* one ("Revokes all existing refresh tokens").                            *)
ChangeEndsTokens ==
    \A c \in Change : pc[c] = "done" =>
        /\ found[c] \cap Live = {}
        /\ \A r \in Refresh : r \in Issued /\ checked[r] = c => about[r] \notin found[c]

(* A refresh issues a token only for one whose row is still there, and     *)
(* with it that one dies.                                                  *)
RotationNeedsRow ==
    [][\A r \in Refresh : r \in Issued' \ Issued =>
            about[r] \in Row /\ about[r] \notin Live']_vars

(* What the proofs need besides: how far each call has come, and on which  *)
(* rows it relies.  A refresh about to commit has the row of its token, a  *)
(* change about to commit has all rows it found; nobody else has one.      *)
CallsInStep ==
    /\ \A t \in Token : t \in Issued <=> pc[t] = "done"
    /\ \A c \in Refresh :
        /\ pc[c] \in {"writing", "committing", "done"} => about[c] \in Issued
        /\ pc[c] = "committing" => holder[about[c]] = c
    /\ \A c \in Logout : pc[c] \in {"writing", "done"} => about[c] \in Issued
    /\ \A c \in Login : pc[c] = "writing" => found[c] \subseteq Issued
    /\ \A c \in Change :
        /\ pc[c] \in {"writing", "committing", "done"} => found[c] \subseteq Issued
        /\ pc[c] = "committing" => \A t \in found[c] \cap Row : holder[t] = c

LocksInStep ==
    \A t \in Token : holder[t] # Nobody =>
        /\ t \in Row
        /\ pc[holder[t]] = "committing"
        /\ \/ holder[t] \in Refresh /\ about[holder[t]] = t
           \/ holder[t] \in Change

(* A password is in force, or was read, only once its change is complete.  *)
PasswordsInStep ==
    /\ password \in Change => pc[password] = "done"
    /\ \A c \in Call : checked[c] \in Change => pc[checked[c]] = "done"
    /\ \A r \in Refresh, c \in Change :
        checked[r] = c /\ pc[r] \in {"writing", "committing", "done"}
            => about[r] \notin found[c]

(* The inductive invariant of the proofs in SessionProofs.                 *)
IInv ==
    /\ TypeOK
    /\ CallsInStep
    /\ LocksInStep
    /\ PasswordsInStep
    /\ RotatedIsDead
    /\ LoggedOutIsDead
    /\ ChangeEndsTokens

(* Every live token was issued by a call that read the database under the  *)
(* password now in force.  This is what the same docstring promises:       *)
(* "force re-login on all devices".                                        *)
AllLoggedInAgain == \A t \in Live : checked[t] = password
=============================================================================
