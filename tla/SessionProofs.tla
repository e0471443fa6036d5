---------------------------- MODULE SessionProofs --------------------------
(***************************************************************************)
(* AuthTokens for every number of logins, refreshes, logouts and changes,  *)
(* and ClientSession for every number of requests.                         *)
(***************************************************************************)
EXTENDS AuthTokens, ClientSession, TLAPS

USE AuthTokensAssumption, ClientSessionAssumption

LEMMA InitIInv == Init => IInv
<1>. SUFFICES ASSUME Init PROVE IInv
  OBVIOUS
<1>. USE DEF Init
<1>1. TypeOK
  BY DEF TypeOK, Password, Token, Call, Ended
<1>2. CallsInStep
  BY DEF CallsInStep, Issued, Token, Call
<1>3. LocksInStep
  BY DEF LocksInStep
<1>4. PasswordsInStep
  BY DEF PasswordsInStep, Call
<1>5. RotatedIsDead /\ LoggedOutIsDead /\ ChangeEndsTokens
  BY DEF RotatedIsDead, LoggedOutIsDead, ChangeEndsTokens, Issued, Live, Call
<1>. QED
  BY <1>1, <1>2, <1>3, <1>4, <1>5 DEF IInv

(* What remains to show of a step that commits no change of a row.         *)
LEMMA ReadStep ==
    ASSUME IInv, TypeOK', LocksInStep', UNCHANGED rows, NEW c \in Call,
           pc[c] # "done",
           pc'[c] = "done" => c \in Logout,
           \A d \in Call \ {c} : pc'[d] = pc[d] /\ checked'[d] = checked[d],
           checked'[c] = checked[c] \/ checked'[c] = password,
           \A d \in (Refresh \cup Logout) \ {c} : about'[d] = about[d],
           \A d \in (Login \cup Change) \ {c} : found'[d] = found[d],
           \A d \in Refresh \ {c} : pc[d] = "committing" => holder'[about[d]] = d,
           \A d \in Change \ {c} : pc[d] = "committing" =>
               \A t \in found[d] \cap Row : holder'[t] = d,
           c \in Refresh => (pc'[c] \in {"writing", "committing"} =>
               /\ about'[c] \in Issued
               /\ \A d \in Change : checked'[c] = d => about'[c] \notin found[d]),
           c \in Refresh => (pc'[c] = "committing" => holder'[about'[c]] = c),
           c \in Logout => (pc'[c] \in {"writing", "done"} => about'[c] \in Issued),
           c \in Logout => (pc'[c] = "done" => about'[c] \notin Live),
           c \in Login => (pc'[c] = "writing" => found'[c] \subseteq Issued),
           c \in Change => (pc'[c] \in {"writing", "committing"} =>
               found'[c] \subseteq Issued),
           c \in Change => (pc'[c] = "committing" =>
               \A t \in found'[c] \cap Row : holder'[t] = c)
    PROVE  IInv'
<1>1. Issued' = Issued /\ Row' = Row /\ Live' = Live
  BY DEF rows, Issued, Row, Live
<1>2. /\ c \in Refresh => c \notin Login \cup Logout \cup Change
      /\ c \in Logout => c \notin Login \cup Refresh \cup Change
      /\ c \in Login => c \notin Refresh \cup Logout \cup Change
      /\ c \in Change => c \notin Login \cup Refresh \cup Logout
  OBVIOUS
<1>3. CallsInStep'
  <2>1. \A t \in Token : t \in Issued' <=> pc'[t] = "done"
    BY <1>1, <1>2 DEF IInv, CallsInStep, Token, Call
  <2>2. \A d \in Refresh :
          /\ pc'[d] \in {"writing", "committing", "done"} => about'[d] \in Issued
          /\ pc'[d] = "committing" => holder'[about'[d]] = d
    BY <1>2 DEF IInv, CallsInStep, Call
  <2>3. \A d \in Logout : pc'[d] \in {"writing", "done"} => about'[d] \in Issued
    BY <1>2 DEF IInv, CallsInStep, Call
  <2>4. \A d \in Login : pc'[d] = "writing" => found'[d] \subseteq Issued
    BY <1>2 DEF IInv, CallsInStep, Call
  <2>5. \A d \in Change :
          /\ pc'[d] \in {"writing", "committing", "done"} => found'[d] \subseteq Issued
          /\ pc'[d] = "committing" => \A t \in found'[d] \cap Row : holder'[t] = d
    BY <1>2 DEF IInv, CallsInStep, Call
  <2>. QED
    BY <1>1, <2>1, <2>2, <2>3, <2>4, <2>5 DEF CallsInStep
<1>4. PasswordsInStep'
  <2>1. \A d \in Call : pc[d] = "done" => pc'[d] = "done"
    OBVIOUS
  <2>2. password \in Change => pc[password] = "done"
    BY DEF IInv, PasswordsInStep
  <2>3. \A d \in Call : checked'[d] \in Change => pc[checked'[d]] = "done"
    BY <2>2 DEF IInv, PasswordsInStep
  <2>4. ASSUME NEW r \in Refresh, NEW d \in Change,
               checked'[r] = d, pc'[r] \in {"writing", "committing", "done"}
        PROVE  about'[r] \notin found'[d]
    <3>1. d # c
      BY <2>3, <2>4 DEF Call
    <3>2. CASE r = c
      BY <1>2, <2>4, <3>1, <3>2
    <3>3. CASE r # c
      BY <2>4, <3>1, <3>3 DEF IInv, PasswordsInStep, Call
    <3>. QED
      BY <3>2, <3>3
  <2>5. password' = password
    BY DEF rows
  <2>. QED
    BY <2>1, <2>2, <2>3, <2>4, <2>5 DEF PasswordsInStep, Call
<1>5. RotatedIsDead'
  BY <1>1, <1>2 DEF IInv, RotatedIsDead, CallsInStep, Token, Call
<1>6. LoggedOutIsDead'
  BY <1>1 DEF IInv, LoggedOutIsDead, Call
<1>7. ChangeEndsTokens'
  <2>1. SUFFICES ASSUME NEW d \in Change, pc'[d] = "done"
                 PROVE  /\ found'[d] \cap Live = {}
                        /\ \A r \in Refresh : r \in Issued /\ checked'[r] = d
                                => about'[r] \notin found'[d]
    BY <1>1 DEF ChangeEndsTokens
  <2>2. d # c /\ pc[d] = "done" /\ found'[d] = found[d]
    BY <1>2, <2>1 DEF Call
  <2>3. \A r \in Refresh : r \in Issued => r # c
    BY DEF IInv, CallsInStep, Token
  <2>. QED
    BY <2>2, <2>3 DEF IInv, ChangeEndsTokens, Call
<1>. QED
  BY <1>3, <1>4, <1>5, <1>6, <1>7 DEF IInv

(* The calls that have locks keep them if those of one call are released.  *)
LEMMA OthersKeepLocks ==
    ASSUME IInv, NEW c \in Call, holder' = holder \/ holder' = Unlocked(c)
    PROVE  /\ \A d \in Refresh \ {c} : pc[d] = "committing" => holder'[about[d]] = d
           /\ \A d \in Change \ {c} : pc[d] = "committing" =>
                 \A t \in found[d] \cap Row : holder'[t] = d
<1>1. \A d \in Refresh : pc[d] = "committing" => about[d] \in Token
  BY DEF IInv, CallsInStep, Issued
<1>2. \A t \in Row : t \in Token
  BY DEF Row
<1>. QED
  BY <1>1, <1>2 DEF IInv, CallsInStep, Unlocked

(* No lock is left behind, and none is taken.                              *)
LEMMA LocksReleased ==
    ASSUME IInv, NEW c \in Call, Row \subseteq Row',
           holder' = Unlocked(c) \/ (holder' = holder /\ pc[c] # "committing"),
           \A d \in Call \ {c} : pc'[d] = pc[d],
           \A d \in (Refresh \cup Logout) \ {c} : about'[d] = about[d]
    PROVE  LocksInStep'
<1>1. SUFFICES ASSUME NEW t \in Token, holder'[t] # Nobody
               PROVE  /\ t \in Row'
                      /\ pc'[holder'[t]] = "committing"
                      /\ \/ holder'[t] \in Refresh /\ about'[holder'[t]] = t
                         \/ holder'[t] \in Change
  BY DEF LocksInStep
<1>2. holder'[t] = holder[t] /\ holder[t] # Nobody /\ holder[t] # c
  BY <1>1 DEF IInv, LocksInStep, Unlocked
<1>3. holder[t] \in Call
  BY <1>2 DEF IInv, TypeOK
<1>. QED
  BY <1>2, <1>3 DEF IInv, LocksInStep

-----------------------------------------------------------------------------
(* Steps that read, lock, or undo                                          *)

LEMMA RollbackInv ==
    ASSUME IInv, NEW c \in Call, pc[c] \notin Ended \cup {"idle"}, Rollback(c)
    PROVE  IInv'
<1>1. TypeOK'
  BY DEF Rollback, Goto, IInv, TypeOK, rows, reads, Unlocked, Ended
<1>2. /\ \A d \in Call \ {c} : pc'[d] = pc[d]
      /\ pc[c] # "done" /\ pc'[c] = "failed"
      /\ holder' = Unlocked(c) /\ UNCHANGED rows /\ UNCHANGED reads
  BY DEF Rollback, Goto, IInv, TypeOK, Ended
<1>3. LocksInStep'
  BY <1>2, LocksReleased DEF rows, reads, Row
<1>. QED
  BY <1>1, <1>2, <1>3, ReadStep, OthersKeepLocks DEF reads

(* VerifyLogin and VerifyCurrent.                                          *)
LEMMA VerifyInv ==
    ASSUME IInv, NEW c \in Login \cup Change, VerifyLogin(c) \/ VerifyCurrent(c)
    PROVE  IInv'
<1>0. c \in Call /\ c \notin Refresh \cup Logout
  BY DEF Call
<1>1. /\ pc[c] = "idle"
      /\ checked' = [checked EXCEPT ![c] = password]
      /\ \E label \in {"finding", "failed"} : pc' = [pc EXCEPT ![c] = label]
      /\ UNCHANGED <<rows, holder, about, found>>
  BY DEF VerifyLogin, VerifyCurrent, Reads, Goto
<1>2. TypeOK'
  BY <1>0, <1>1 DEF IInv, TypeOK, rows, Ended
<1>3. /\ \A d \in Call \ {c} : pc'[d] = pc[d] /\ checked'[d] = checked[d]
      /\ checked'[c] = password /\ pc'[c] \in {"finding", "failed"}
      /\ pc[c] # "done" /\ pc[c] # "committing"
      /\ pc'[c] \notin {"writing", "committing", "done"}
      /\ holder' = holder /\ about' = about /\ found' = found
  BY <1>0, <1>1 DEF IInv, TypeOK
<1>4. LocksInStep'
  BY <1>0, <1>1, <1>3, LocksReleased DEF rows, Row
<1>. QED
  BY <1>0, <1>1, <1>2, <1>3, <1>4, ReadStep, OthersKeepLocks

(* FindDead and FindTokens.                                                *)
LEMMA FindRowsInv ==
    ASSUME IInv, NEW c \in Login \cup Change, FindDead(c) \/ FindTokens(c)
    PROVE  IInv'
<1>0. c \in Call /\ c \notin Refresh \cup Logout
  BY DEF Call
<1>1. /\ pc[c] = "finding"
      /\ \E ts \in SUBSET Row : found' = [found EXCEPT ![c] = ts]
      /\ pc' = [pc EXCEPT ![c] = "writing"]
      /\ UNCHANGED <<rows, holder, about, checked>>
  BY DEF FindDead, FindTokens, Goto
<1>2. Row \subseteq Issued /\ Row \subseteq Token
  BY DEF Row, Issued
<1>3. TypeOK'
  BY <1>0, <1>1, <1>2 DEF IInv, TypeOK, rows, Ended
<1>4. /\ \A d \in Call \ {c} : pc'[d] = pc[d]
      /\ \A d \in (Login \cup Change) \ {c} : found'[d] = found[d]
      /\ found'[c] \subseteq Issued
      /\ pc'[c] = "writing" /\ pc[c] # "done" /\ pc[c] # "committing"
      /\ holder' = holder /\ about' = about /\ checked' = checked
  BY <1>0, <1>1, <1>2 DEF IInv, TypeOK
<1>5. LocksInStep'
  BY <1>0, <1>1, <1>4, LocksReleased DEF rows, Row
<1>. QED
  BY <1>0, <1>1, <1>3, <1>4, <1>5, ReadStep, OthersKeepLocks

LEMMA FindTokenInv ==
    ASSUME IInv, NEW c \in Refresh, FindToken(c)
    PROVE  IInv'
<1>0. c \in Call /\ c \notin Login \cup Logout \cup Change
  BY DEF Call
<1>1. PICK t \in Issued :
        /\ about' = [about EXCEPT ![c] = t]
        /\ Goto(c, IF t \in Live \ late THEN "writing" ELSE "failed")
  BY DEF FindToken
<1>2. /\ pc[c] = "idle" /\ t \in Token
      /\ checked' = [checked EXCEPT ![c] = password]
      /\ UNCHANGED <<rows, holder, found>>
  BY <1>1 DEF FindToken, Reads, Issued
<1>3. TypeOK'
  BY <1>0, <1>1, <1>2 DEF IInv, TypeOK, Goto, rows, Ended
<1>4. /\ \A d \in Call \ {c} : pc'[d] = pc[d] /\ checked'[d] = checked[d]
      /\ \A d \in (Refresh \cup Logout) \ {c} : about'[d] = about[d]
      /\ about'[c] = t /\ checked'[c] = password
      /\ pc'[c] \in {"writing", "failed"}
      /\ pc'[c] = "writing" => t \in Live
      /\ pc[c] # "done" /\ pc[c] # "committing" /\ holder' = holder /\ found' = found
  BY <1>0, <1>1, <1>2 DEF IInv, TypeOK, Goto
<1>5. LocksInStep'
  BY <1>0, <1>2, <1>4, LocksReleased DEF rows, Row
<1>6. \A d \in Change : password = d /\ t \in Live => t \notin found[d]
  BY DEF IInv, PasswordsInStep, ChangeEndsTokens
<1>. QED
  BY <1>0, <1>2, <1>3, <1>4, <1>5, <1>6, ReadStep, OthersKeepLocks

LEMMA RevokeOldInv ==
    ASSUME IInv, NEW c \in Refresh, RevokeOld(c)
    PROVE  IInv'
<1>0. c \in Call /\ c \notin Login \cup Logout \cup Change
  BY DEF Call
<1>1. pc[c] = "writing" /\ holder[about[c]] = Nobody /\ about[c] \in Issued
  BY DEF RevokeOld, Free, IInv, CallsInStep
<1>2. CASE about[c] \in Row
  <2>1. /\ holder' = [holder EXCEPT ![about[c]] = c]
        /\ pc' = [pc EXCEPT ![c] = "committing"]
        /\ UNCHANGED <<rows, reads>>
    BY <1>2 DEF RevokeOld, Goto
  <2>2. about[c] \in Token
    BY <1>1 DEF Issued
  <2>3. TypeOK'
    BY <1>0, <2>1 DEF IInv, TypeOK, rows, reads, Ended
  <2>4. /\ \A d \in Call \ {c} : pc'[d] = pc[d]
        /\ pc'[c] = "committing" /\ pc[c] # "done" /\ pc[c] # "committing"
        /\ holder'[about[c]] = c
        /\ \A t \in Token \ {about[c]} : holder'[t] = holder[t]
        /\ about' = about /\ found' = found /\ checked' = checked
    BY <1>0, <1>1, <2>1, <2>2 DEF IInv, TypeOK, reads
  <2>5. LocksInStep'
    <3>1. Row' = Row
      BY <2>1 DEF rows, Row
    <3>2. ASSUME NEW t \in Token, t # about[c], holder[t] # Nobody
          PROVE  holder[t] \in Call \ {c}
      BY <2>4, <3>2 DEF IInv, TypeOK, LocksInStep
    <3>. QED
      BY <1>2, <2>4, <3>1, <3>2 DEF IInv, LocksInStep
  <2>6. \A d \in Refresh \ {c} : pc[d] = "committing" => holder'[about[d]] = d
    <3>1. \A d \in Refresh : pc[d] = "committing" =>
            about[d] \in Token /\ holder[about[d]] = d
      BY DEF IInv, CallsInStep, Issued
    <3>. QED
      BY <1>0, <1>1, <2>4, <3>1 DEF Call
  <2>7. \A d \in Change \ {c} : pc[d] = "committing" =>
          \A t \in found[d] \cap Row : holder'[t] = d
    <3>1. \A d \in Change : pc[d] = "committing" =>
            \A t \in found[d] \cap Row : t \in Token /\ holder[t] = d
      BY DEF IInv, CallsInStep, Row
    <3>2. \A d \in Change : d # Nobody
      BY DEF Call
    <3>. QED
      BY <1>1, <2>4, <3>1, <3>2
  <2>8. \A d \in Change : checked[c] = d => about[c] \notin found[d]
    BY <1>1 DEF IInv, PasswordsInStep
  <2>. QED
    BY <1>0, <1>1, <2>1, <2>3, <2>4, <2>5, <2>6, <2>7, <2>8, ReadStep
<1>3. CASE about[c] \notin Row
  BY <1>0, <1>1, <1>3, RollbackInv DEF RevokeOld, Ended
<1>. QED
  BY <1>2, <1>3

LEMMA FindRecordInv ==
    ASSUME IInv, NEW c \in Logout, FindRecord(c)
    PROVE  IInv'
<1>0. c \in Call /\ c \notin Login \cup Refresh \cup Change
  BY DEF Call
<1>1. PICK t \in Issued :
        /\ about' = [about EXCEPT ![c] = t]
        /\ Goto(c, IF t \in Live THEN "writing" ELSE "done")
  BY DEF FindRecord
<1>2. /\ pc[c] = "idle" /\ t \in Token
      /\ checked' = [checked EXCEPT ![c] = password]
      /\ UNCHANGED <<rows, holder, found>>
  BY <1>1 DEF FindRecord, Reads, Issued
<1>3. TypeOK'
  BY <1>0, <1>1, <1>2 DEF IInv, TypeOK, Goto, rows, Ended
<1>4. /\ \A d \in Call \ {c} : pc'[d] = pc[d] /\ checked'[d] = checked[d]
      /\ \A d \in (Refresh \cup Logout) \ {c} : about'[d] = about[d]
      /\ about'[c] = t /\ checked'[c] = password
      /\ pc'[c] \in {"writing", "done"}
      /\ pc'[c] = "done" => t \notin Live
      /\ pc[c] # "done" /\ pc[c] # "committing" /\ holder' = holder /\ found' = found
  BY <1>0, <1>1, <1>2 DEF IInv, TypeOK, Goto
<1>5. LocksInStep'
  BY <1>0, <1>2, <1>4, LocksReleased DEF rows, Row
<1>. QED
  BY <1>0, <1>2, <1>3, <1>4, <1>5, ReadStep, OthersKeepLocks

LEMMA LockTokensInv ==
    ASSUME IInv, NEW c \in Change, LockTokens(c)
    PROVE  IInv'
<1>0. c \in Call /\ c \notin Login \cup Refresh \cup Logout
  BY DEF Call
<1>1. /\ pc[c] = "writing"
      /\ \A t \in found[c] : holder[t] = Nobody
      /\ holder' = [t \in Token |-> IF t \in found[c] \cap Row THEN c ELSE holder[t]]
      /\ pc' = [pc EXCEPT ![c] = "committing"]
      /\ UNCHANGED <<rows, reads>>
  BY DEF LockTokens, Free, Goto
<1>2. TypeOK'
  BY <1>0, <1>1 DEF IInv, TypeOK, rows, reads, Ended
<1>3. /\ \A d \in Call \ {c} : pc'[d] = pc[d]
      /\ pc'[c] = "committing" /\ pc[c] # "done" /\ pc[c] # "committing"
      /\ about' = about /\ found' = found /\ checked' = checked
      /\ found[c] \subseteq Issued /\ found[c] \subseteq Token
  BY <1>0, <1>1 DEF IInv, TypeOK, CallsInStep, reads
<1>4. LocksInStep'
  <2>1. Row' = Row
    BY <1>1 DEF rows, Row
  <2>2. ASSUME NEW t \in Token, t \notin found[c] \cap Row, holder[t] # Nobody
        PROVE  holder[t] \in Call \ {c}
    BY <1>1, <2>2 DEF IInv, TypeOK, LocksInStep
  <2>3. SUFFICES ASSUME NEW t \in Token, holder'[t] # Nobody
                 PROVE  /\ t \in Row
                        /\ pc'[holder'[t]] = "committing"
                        /\ \/ holder'[t] \in Refresh /\ about[holder'[t]] = t
                           \/ holder'[t] \in Change
    BY <1>3, <2>1 DEF LocksInStep
  <2>4. CASE t \in found[c] \cap Row
    BY <1>1, <1>3, <2>4
  <2>5. CASE t \notin found[c] \cap Row
    BY <1>1, <1>3, <2>2, <2>3, <2>5 DEF IInv, LocksInStep
  <2>. QED
    BY <2>4, <2>5
<1>5. \A d \in Refresh \ {c} : pc[d] = "committing" => holder'[about[d]] = d
  <2>1. \A d \in Refresh : pc[d] = "committing" =>
          about[d] \in Token /\ holder[about[d]] = d /\ d # Nobody
    BY DEF IInv, CallsInStep, Issued, Call
  <2>. QED
    BY <1>1, <2>1
<1>6. \A d \in Change \ {c} : pc[d] = "committing" =>
        \A t \in found[d] \cap Row : holder'[t] = d
  <2>1. \A d \in Change : pc[d] = "committing" =>
          \A t \in found[d] \cap Row : t \in Token /\ holder[t] = d /\ d # Nobody
    BY DEF IInv, CallsInStep, Row, Call
  <2>. QED
    BY <1>1, <2>1
<1>7. \A t \in found[c] \cap Row : holder'[t] = c
  BY <1>1, <1>3
<1>. QED
  BY <1>0, <1>1, <1>2, <1>3, <1>4, <1>5, <1>6, <1>7, ReadStep

-----------------------------------------------------------------------------
(* Steps that commit                                                       *)

(* What remains to show of a call that writes and ends.                    *)
LEMMA CommitStep ==
    ASSUME IInv, TypeOK', LocksInStep', NEW c \in Call,
           pc[c] \in {"writing", "committing"}, pc'[c] = "done",
           c \in Refresh => pc[c] = "committing",
           c \in Logout => about[c] \in Issued,
           \A d \in Call \ {c} : pc'[d] = pc[d],
           UNCHANGED reads,
           holder' = holder \/ holder' = Unlocked(c),
           password' = password \/ (c \in Change /\ password' = c),
           \A t \in Token \ {c} : /\ t \in Issued' <=> t \in Issued
                                  /\ t \in Live' => t \in Live,
           c \in Token => c \in Issued',
           Row' \subseteq Row \cup {c},
           c \in Refresh \cup Logout => about[c] \notin Live',
           c \in Change => found[c] \cap Live' = {}
    PROVE  IInv'
<1>. USE DEF reads
<1>1. c \in Token => c \notin Issued
  BY DEF IInv, CallsInStep
<1>2. \A t \in Issued : t # c /\ t \in Token
  BY <1>1 DEF Issued
<1>3. \A t \in Issued : t \in Issued' /\ (t \in Live' => t \in Live)
  BY <1>2
<1>4. \A t \in Row' : t = c \/ t \in Row
  OBVIOUS
<1>5. /\ c \in Refresh => c \notin Login \cup Logout \cup Change
      /\ c \in Logout => c \notin Login \cup Refresh \cup Change
      /\ c \in Login => c \notin Refresh \cup Logout \cup Change
      /\ c \in Change => c \notin Login \cup Refresh \cup Logout
  OBVIOUS
<1>6. /\ \A d \in Refresh : pc'[d] \in {"writing", "committing", "done"} =>
            pc[d] \in {"writing", "committing", "done"} /\ about[d] \in Issued
      /\ \A d \in Logout : pc'[d] \in {"writing", "done"} => about[d] \in Issued
      /\ \A d \in Change : pc'[d] \in {"writing", "committing", "done"} =>
            pc[d] \in {"writing", "committing", "done"} /\ found[d] \subseteq Issued
      /\ \A d \in Login : pc'[d] = "writing" => found[d] \subseteq Issued
  BY DEF IInv, CallsInStep, Call
<1>7. CallsInStep'
  <2>1. \A t \in Token : t \in Issued' <=> pc'[t] = "done"
    BY <1>5 DEF IInv, CallsInStep, Token, Call
  <2>2. \A d \in Refresh : pc'[d] = "committing" => holder'[about[d]] = d
    BY <1>5, OthersKeepLocks DEF Call
  <2>3. \A d \in Change : pc'[d] = "committing" =>
          \A t \in found[d] \cap Row' : holder'[t] = d
    <3>1. SUFFICES ASSUME NEW d \in Change, pc'[d] = "committing",
                          NEW t \in found[d] \cap Row'
                   PROVE  holder'[t] = d
      OBVIOUS
    <3>2. d # c /\ pc[d] = "committing"
      BY <3>1 DEF Call
    <3>3. t \in Row
      BY <1>2, <1>4, <1>6, <3>1
    <3>. QED
      BY <3>1, <3>2, <3>3, OthersKeepLocks
  <2>4. \A t : t \in Issued => t \in Issued'
    BY <1>3
  <2>. QED
    BY <1>6, <2>1, <2>2, <2>3, <2>4 DEF CallsInStep
<1>8. \A d \in Call : pc[d] = "done" => pc'[d] = "done"
  OBVIOUS
<1>9. PasswordsInStep'
  <2>1. password' \in Change => pc'[password'] = "done"
    BY <1>8 DEF IInv, PasswordsInStep, Call
  <2>2. \A d \in Call : checked'[d] \in Change => pc'[checked'[d]] = "done"
    BY <1>8 DEF IInv, PasswordsInStep, Call
  <2>3. \A r \in Refresh, d \in Change :
          checked'[r] = d /\ pc'[r] \in {"writing", "committing", "done"}
              => about'[r] \notin found'[d]
    BY <1>6 DEF IInv, PasswordsInStep
  <2>. QED
    BY <2>1, <2>2, <2>3 DEF PasswordsInStep
<1>10. RotatedIsDead'
  <2>1. SUFFICES ASSUME NEW r \in Refresh, r \in Issued' PROVE about[r] \notin Live'
    BY DEF RotatedIsDead
  <2>2. CASE r = c
    BY <2>2
  <2>3. CASE r # c
    <3>1. r \in Issued
      BY <2>1, <2>3 DEF Token
    <3>2. about[r] \in Issued /\ about[r] \notin Live
      BY <3>1 DEF IInv, RotatedIsDead, CallsInStep, Token
    <3>. QED
      BY <1>3, <3>2
  <2>. QED
    BY <2>2, <2>3
<1>11. LoggedOutIsDead'
  <2>1. SUFFICES ASSUME NEW d \in Logout, pc'[d] = "done" PROVE about[d] \notin Live'
    BY DEF LoggedOutIsDead
  <2>2. CASE d = c
    BY <2>2
  <2>3. CASE d # c
    <3>1. about[d] \in Issued /\ about[d] \notin Live
      BY <1>6, <2>1, <2>3 DEF IInv, LoggedOutIsDead, Call
    <3>. QED
      BY <1>3, <3>1
  <2>. QED
    BY <2>2, <2>3
<1>12. ChangeEndsTokens'
  <2>1. SUFFICES ASSUME NEW d \in Change, pc'[d] = "done"
                 PROVE  /\ \A t \in found[d] : t \notin Live'
                        /\ \A r \in Refresh : r \in Issued' /\ checked[r] = d
                                => about[r] \notin found[d]
    BY DEF ChangeEndsTokens
  <2>2. \A t \in found[d] : t \notin Live'
    <3>1. CASE d = c
      BY <3>1
    <3>2. CASE d # c
      <4>1. pc[d] = "done"
        BY <2>1, <3>2 DEF Call
      <4>2. \A t \in found[d] : t \in Issued /\ t \notin Live
        BY <1>6, <2>1, <4>1 DEF IInv, ChangeEndsTokens
      <4>. QED
        BY <1>3, <4>2
    <3>. QED
      BY <3>1, <3>2
  <2>3. ASSUME NEW r \in Refresh, r \in Issued', checked[r] = d
        PROVE  about[r] \notin found[d]
    <3>1. r \in Issued' <=> pc'[r] = "done"
      BY <1>7 DEF CallsInStep, Token
    <3>2. pc[r] \in {"writing", "committing", "done"}
      BY <1>6, <2>3, <3>1
    <3>. QED
      BY <2>3, <3>2 DEF IInv, PasswordsInStep
  <2>. QED
    BY <2>2, <2>3
<1>. QED
  BY <1>7, <1>9, <1>10, <1>11, <1>12 DEF IInv

LEMMA IssueTokenInv ==
    ASSUME IInv, NEW c \in Login, IssueToken(c)
    PROVE  IInv'
<1>0. c \in Call /\ c \in Token /\ c \notin Refresh \cup Logout \cup Change
  BY DEF Call, Token
<1>1. /\ pc[c] = "writing"
      /\ \A t \in found[c] : holder[t] = Nobody /\ t \in Issued
      /\ token' = [t \in Token |-> IF t = c THEN "live"
                                   ELSE IF t \in found[c] THEN "deleted"
                                   ELSE token[t]]
      /\ pc' = [pc EXCEPT ![c] = "done"]
      /\ UNCHANGED <<password, late, holder, reads>>
  BY DEF IssueToken, Free, Goto, IInv, CallsInStep
<1>2. TypeOK'
  BY <1>0, <1>1 DEF IInv, TypeOK, reads, Ended
<1>3. /\ \A d \in Call \ {c} : pc'[d] = pc[d]
      /\ pc'[c] = "done"
      /\ c \in Issued' /\ Row' \subseteq Row \cup {c}
      /\ \A t \in Token \ {c} : /\ t \in Issued' <=> t \in Issued
                                /\ t \in Live' => t \in Live
  BY <1>0, <1>1 DEF IInv, TypeOK, Issued, Row, Live
<1>4. LocksInStep'
  <2>1. SUFFICES ASSUME NEW t \in Token, holder[t] # Nobody
                 PROVE  /\ t \in Row'
                        /\ pc'[holder[t]] = "committing"
                        /\ \/ holder[t] \in Refresh /\ about[holder[t]] = t
                           \/ holder[t] \in Change
    BY <1>1 DEF LocksInStep, reads
  <2>2. /\ t \in Row /\ t \notin found[c] /\ pc[holder[t]] = "committing"
        /\ holder[t] \in Call
        /\ \/ holder[t] \in Refresh /\ about[holder[t]] = t
           \/ holder[t] \in Change
    BY <1>1, <2>1 DEF IInv, TypeOK, LocksInStep
  <2>3. t \in Row'
    BY <1>1, <2>2 DEF Row
  <2>. QED
    BY <1>1, <1>3, <2>2, <2>3
<1>. QED
  BY <1>0, <1>1, <1>2, <1>3, <1>4, CommitStep

LEMMA CommitRefreshInv ==
    ASSUME IInv, NEW c \in Refresh, CommitRefresh(c)
    PROVE  IInv'
<1>0. c \in Call /\ c \in Token /\ c \notin Login \cup Logout \cup Change
  BY DEF Call, Token
<1>1. /\ pc[c] = "committing"
      /\ token' = [token EXCEPT ![about[c]] = "revoked", ![c] = "live"]
      /\ holder' = Unlocked(c)
      /\ pc' = [pc EXCEPT ![c] = "done"]
      /\ UNCHANGED <<password, late, reads>>
  BY DEF CommitRefresh, Goto
<1>2. /\ about[c] \in Token /\ about[c] \in Row /\ about[c] # c
      /\ c \notin Issued
  <2>1. c \notin Issued /\ about[c] \in Issued /\ holder[about[c]] = c
    BY <1>0, <1>1 DEF IInv, CallsInStep
  <2>2. about[c] \in Row
    BY <1>0, <2>1 DEF IInv, LocksInStep, Issued
  <2>. QED
    BY <2>1, <2>2 DEF Row
<1>3. TypeOK'
  BY <1>0, <1>1 DEF IInv, TypeOK, reads, Unlocked, Ended
<1>4. /\ \A d \in Call \ {c} : pc'[d] = pc[d]
      /\ pc'[c] = "done"
      /\ c \in Issued' /\ Row' = Row \cup {c}
      /\ about[c] \notin Live'
      /\ \A t \in Token \ {c} : /\ t \in Issued' <=> t \in Issued
                                /\ t \in Live' => t \in Live
  BY <1>0, <1>1, <1>2 DEF IInv, TypeOK, Issued, Row, Live
<1>5. LocksInStep'
  BY <1>0, <1>1, <1>4, LocksReleased DEF reads
<1>. QED
  BY <1>0, <1>1, <1>3, <1>4, <1>5, CommitStep

LEMMA RevokeOneInv ==
    ASSUME IInv, NEW c \in Logout, RevokeOne(c)
    PROVE  IInv'
<1>0. c \in Call /\ c \notin Token /\ c \notin Login \cup Refresh \cup Change
  BY DEF Call, Token
<1>1. CASE about[c] \in Row
  <2>1. /\ pc[c] = "writing"
        /\ token' = [token EXCEPT ![about[c]] = "revoked"]
        /\ pc' = [pc EXCEPT ![c] = "done"]
        /\ UNCHANGED <<password, late, holder, reads>>
    BY <1>1 DEF RevokeOne, Goto
  <2>2. TypeOK'
    BY <1>0, <2>1 DEF IInv, TypeOK, reads, Ended
  <2>3. /\ \A d \in Call \ {c} : pc'[d] = pc[d]
        /\ pc'[c] = "done" /\ pc[c] # "committing"
        /\ about[c] \in Issued /\ about[c] \notin Live' /\ Row' = Row
        /\ \A t \in Token \ {c} : /\ t \in Issued' <=> t \in Issued
                                  /\ t \in Live' => t \in Live
    BY <1>0, <1>1, <2>1 DEF IInv, TypeOK, Issued, Row, Live
  <2>4. LocksInStep'
    BY <1>0, <2>1, <2>3, LocksReleased DEF reads
  <2>. QED
    BY <1>0, <2>1, <2>2, <2>3, <2>4, CommitStep
<1>2. CASE about[c] \notin Row
  BY <1>0, <1>2, RollbackInv DEF RevokeOne, Ended
<1>. QED
  BY <1>1, <1>2

LEMMA CommitChangeInv ==
    ASSUME IInv, NEW c \in Change, CommitChange(c)
    PROVE  IInv'
<1>0. c \in Call /\ c \notin Token /\ c \notin Login \cup Refresh \cup Logout
  BY DEF Call, Token
<1>1. /\ pc[c] = "committing"
      /\ token' = [t \in Token |-> IF holder[t] = c THEN "revoked" ELSE token[t]]
      /\ password' = c
      /\ holder' = Unlocked(c)
      /\ pc' = [pc EXCEPT ![c] = "done"]
      /\ UNCHANGED <<late, reads>>
  BY DEF CommitChange, Goto
<1>2. /\ \A t \in Token : holder[t] = c => t \in Row
      /\ \A t \in found[c] \cap Row : holder[t] = c
  BY <1>0, <1>1 DEF IInv, LocksInStep, CallsInStep
<1>3. TypeOK'
  BY <1>0, <1>1 DEF IInv, TypeOK, reads, Unlocked, Password, Ended
<1>4. /\ \A d \in Call \ {c} : pc'[d] = pc[d]
      /\ pc'[c] = "done" /\ Row' = Row
      /\ \A t \in Token \ {c} : /\ t \in Issued' <=> t \in Issued
                                /\ t \in Live' => t \in Live
  BY <1>0, <1>1, <1>2 DEF IInv, TypeOK, Issued, Row, Live
<1>5. found[c] \cap Live' = {}
  BY <1>1, <1>2 DEF Row, Live
<1>6. LocksInStep'
  BY <1>0, <1>1, <1>4, LocksReleased DEF reads
<1>. QED
  BY <1>0, <1>1, <1>3, <1>4, <1>5, <1>6, CommitStep

LEMMA PassExpiryInv ==
    ASSUME IInv, NEW t \in Token, PassExpiry(t)
    PROVE  IInv'
<1>1. late' = late \cup {t} /\ UNCHANGED <<password, token, holder, reads, pc>>
  BY DEF PassExpiry
<1>2. TypeOK'
  BY <1>1 DEF IInv, TypeOK, reads
<1>3. Issued' = Issued /\ Row' = Row /\ Live' = Live
  BY <1>1 DEF Issued, Row, Live
<1>. QED
  BY <1>1, <1>2, <1>3 DEF IInv, CallsInStep, LocksInStep, PasswordsInStep,
                          RotatedIsDead, LoggedOutIsDead, ChangeEndsTokens, reads

-----------------------------------------------------------------------------
(* The theorems                                                            *)

LEMMA NextInv == IInv /\ [Next]_vars => IInv'
<1>. SUFFICES ASSUME IInv, [Next]_vars PROVE IInv'
  OBVIOUS
<1>1. ASSUME NEW c \in Login, LogIn(c) PROVE IInv'
  BY <1>1, VerifyInv, FindRowsInv, IssueTokenInv DEF LogIn
<1>2. ASSUME NEW c \in Refresh, Rotate(c) PROVE IInv'
  BY <1>2, FindTokenInv, RevokeOldInv, CommitRefreshInv DEF Rotate
<1>3. ASSUME NEW c \in Logout, LogOut(c) PROVE IInv'
  BY <1>3, FindRecordInv, RevokeOneInv DEF LogOut
<1>4. ASSUME NEW c \in Change, ChangePassword(c) PROVE IInv'
  BY <1>4, VerifyInv, FindRowsInv, LockTokensInv, CommitChangeInv DEF ChangePassword
<1>5. ASSUME NEW c \in Call, CutOff(c) PROVE IInv'
  BY <1>5, RollbackInv DEF CutOff
<1>6. CASE UNCHANGED vars
  <2>1. Issued' = Issued /\ Row' = Row /\ Live' = Live
    BY <1>6 DEF vars, rows, Issued, Row, Live
  <2>. QED
    BY <1>6, <2>1 DEF vars, rows, reads, IInv, TypeOK, CallsInStep, LocksInStep,
                      PasswordsInStep, RotatedIsDead, LoggedOutIsDead, ChangeEndsTokens
<1>. QED
  BY <1>1, <1>2, <1>3, <1>4, <1>5, <1>6, PassExpiryInv DEF Next, Quiet

(* The inductive invariant of login, refresh_tokens, logout and            *)
(* change_password, all together.                                          *)
THEOREM Invariance == Spec => []IInv
<1>1. IInv /\ [Next]_vars => IInv'
  BY NextInv
<1>. QED
  BY <1>1, InitIInv, PTL DEF Spec

(* refresh_tokens: a token that has been traded for another is dead.       *)
THEOREM RotatedTokensAreDead == Spec => []RotatedIsDead
<1>1. IInv => RotatedIsDead
  BY DEF IInv
<1>. QED
  BY <1>1, Invariance, PTL

(* logout: a token that has been logged out is dead.                       *)
THEOREM LoggedOutTokensAreDead == Spec => []LoggedOutIsDead
<1>1. IInv => LoggedOutIsDead
  BY DEF IInv
<1>. QED
  BY <1>1, Invariance, PTL

(* change_password: the tokens it found are dead and have no successor     *)
(* that began after it.                                                    *)
THEOREM ChangesEndTokens == Spec => []ChangeEndsTokens
<1>1. IInv => ChangeEndsTokens
  BY DEF IInv
<1>. QED
  BY <1>1, Invariance, PTL

(* Only its own commit gives a refresh its token.                          *)
LEMMA RotationStep ==
    IInv /\ [Next]_vars => \A r \in Refresh : r \in Issued' \ Issued =>
                               about[r] \in Row /\ about[r] \notin Live'
<1>. SUFFICES ASSUME IInv, [Next]_vars, NEW r \in Refresh, r \in Issued', r \notin Issued
              PROVE  about[r] \in Row /\ about[r] \notin Live'
  OBVIOUS
<1>0. r \in Token /\ token[r] = "absent" /\ token'[r] # "absent"
  BY DEF Token, Issued
<1>1. ASSUME NEW c \in Login, LogIn(c) PROVE FALSE
  <2>1. CASE IssueToken(c)
    <3>1. found[c] \subseteq Issued /\ r # c
      BY <2>1 DEF IssueToken, IInv, CallsInStep
    <3>. QED
      BY <1>0, <2>1, <3>1 DEF IssueToken
  <2>. QED
    BY <1>0, <1>1, <2>1 DEF LogIn, VerifyLogin, FindDead, rows
<1>2. ASSUME NEW c \in Refresh, Rotate(c) PROVE about[r] \in Row /\ about[r] \notin Live'
  <2>1. CASE CommitRefresh(c)
    <3>1. /\ about[c] \in Issued /\ about[c] \in Token /\ holder[about[c]] = c /\ c # Nobody
      BY <2>1 DEF CommitRefresh, IInv, CallsInStep, Issued, Call
    <3>2. about[c] \in Row
      BY <3>1 DEF IInv, LocksInStep
    <3>3. token' = [token EXCEPT ![about[c]] = "revoked", ![c] = "live"]
      BY <2>1 DEF CommitRefresh
    <3>4. r = c
      BY <1>0, <3>1, <3>3 DEF IInv, TypeOK
    <3>5. token'[about[c]] = "revoked"
      BY <1>0, <3>1, <3>3, <3>4 DEF IInv, TypeOK
    <3>. QED
      BY <3>2, <3>4, <3>5 DEF Live
  <2>. QED
    BY <1>0, <1>2, <2>1 DEF Rotate, FindToken, RevokeOld, Rollback, rows
<1>3. ASSUME NEW c \in Logout, LogOut(c) PROVE FALSE
  <2>1. CASE RevokeOne(c) /\ about[c] \in Row
    BY <1>0, <2>1 DEF RevokeOne, Row, IInv, TypeOK
  <2>. QED
    BY <1>0, <1>3, <2>1 DEF LogOut, FindRecord, RevokeOne, Rollback, rows
<1>4. ASSUME NEW c \in Change, ChangePassword(c) PROVE FALSE
  <2>1. CASE CommitChange(c)
    <3>1. holder[r] # c
      BY <1>0 DEF IInv, LocksInStep, Row, Call
    <3>. QED
      BY <1>0, <2>1, <3>1 DEF CommitChange
  <2>. QED
    BY <1>0, <1>4, <2>1 DEF ChangePassword, VerifyCurrent, FindTokens, LockTokens, rows
<1>5. ASSUME NEW t \in Token, PassExpiry(t) PROVE FALSE
  BY <1>0, <1>5 DEF PassExpiry
<1>6. ASSUME NEW c \in Call, CutOff(c) PROVE FALSE
  BY <1>0, <1>6 DEF CutOff, Rollback, rows
<1>7. CASE UNCHANGED vars
  BY <1>0, <1>7 DEF vars, rows
<1>. QED
  BY <1>1, <1>2, <1>3, <1>4, <1>5, <1>6, <1>7 DEF Next, Quiet

(* refresh_tokens: a new token costs an old one whose row is still there.  *)
THEOREM RotationsNeedRows == Spec => RotationNeedsRow
<1>1. IInv /\ [Next]_vars =>
        [\A r \in Refresh : r \in Issued' \ Issued =>
            about[r] \in Row /\ about[r] \notin Live']_vars
  BY RotationStep
<1>. QED
  BY <1>1, Invariance, PTL DEF Spec, RotationNeedsRow

-----------------------------------------------------------------------------
(* ClientSession: the app on the other side of these calls.                *)

LEMMA InitSessionInv == SessionInit => SessionInv
<1>. SUFFICES ASSUME SessionInit PROVE SessionInv
  OBVIOUS
<1>. USE DEF SessionInit
<1>1. SessionTypeOK
  BY DEF SessionTypeOK, Pair
<1>2. StagesInStep /\ GrantedStands
  BY DEF StagesInStep, GrantedStands, NotSaved, Refreshing
<1>3. KnownOnceSaved /\ TradedIsReplaced /\ DeadIsReplaced
  BY DEF KnownOnceSaved, TradedIsReplaced, DeadIsReplaced
<1>4. DeadForCause /\ LossHasCause
  BY DEF DeadForCause, LossHasCause, Pair, Clearing
<1>5. AloneClears
  BY DEF AloneClears, Accompanied
<1>. QED
  BY <1>1, <1>2, <1>3, <1>4, <1>5 DEF SessionInv

(* The steps of request r that leave the refresh token of the storage, the *)
(* refreshes and the history of logouts alone.                             *)
Walk(r) ==
    /\ GoOn(r, stage'[r])
    /\ UNCHANGED <<refresh, serving, used, lasting, torn>>
    /\ access' = access \/ access' = None \/ stage[r] \in Refreshing
    /\ unlucky' = unlucky \/ unlucky' = TRUE
    /\ \/ alive' = alive
       \/ /\ r \in LogoutRequest
          /\ stage'[r] = "emptying access"
          /\ alive' = alive \ {named[r]}
    /\ \A q \in Request \ {r} : named'[q] = named[q]
    /\ named'[r] = named[r] \/ (stage[r] = "idle" /\ named'[r] = refresh)
    /\ stage[r] \notin Finished \cup {"emptying access", "emptying refresh"}
    /\ stage'[r] \notin {"idle", "emptying refresh"}
    /\ r \in LogoutRequest => stage'[r] \notin Finished
    /\ r \in LogoutRequest /\ stage'[r] \in {"leaving", "telling"} =>
           stage[r] \in {"idle", "leaving", "telling"}
    /\ stage'[r] \in {"leaving", "telling", "emptying access"} => r \in LogoutRequest
    /\ stage'[r] \in NotSaved \ Refreshing =>
           stage[r] \in NotSaved \ Refreshing
    /\ stage'[r] = "taking" => refresh # None
    /\ stage'[r] \in Refreshing =>
           stage[r] \in Refreshing /\ serving[r] = "granted"
    /\ stage[r] \in Refreshing \cup Clearing =>
           stage'[r] \in Refreshing \cup Clearing
    /\ stage'[r] \in Clearing =>
           stage[r] \in Clearing \/ serving[r] \in {"denied", "lapsed"} \/ unlucky'

LEMMA WalkStep ==
    ASSUME SessionInv, SessionTypeOK', NEW r \in Request, Walk(r)
    PROVE  SessionInv'
<1>1. \A q \in Request \ {r} : stage'[q] = stage[q]
  BY DEF Walk, GoOn, SessionInv, SessionTypeOK
<1>2. StagesInStep'
  <2>1. \A q \in Request \ {r} :
            /\ stage'[q] \in NotSaved \ Refreshing =>
                   used'[q] = None /\ serving'[q] = "none"
            /\ stage'[q] \in {"leaving", "telling",
                           "emptying access", "emptying refresh"} =>
                   q \in LogoutRequest
    BY <1>1 DEF SessionInv, StagesInStep, Walk
  <2>2. /\ stage'[r] \in NotSaved \ Refreshing =>
               used'[r] = None /\ serving'[r] = "none"
        /\ stage'[r] \in {"leaving", "telling",
                       "emptying access", "emptying refresh"} =>
               r \in LogoutRequest
    BY DEF SessionInv, StagesInStep, Walk
  <2>. QED
    BY <2>1, <2>2 DEF StagesInStep
<1>3. GrantedStands'
  <2>1. \A q \in Request : q \in alive /\ stage[q] \in Refreshing => q \in alive'
    BY DEF SessionInv, KnownOnceSaved, NotSaved, Walk
  <2>. QED
    BY <1>1, <2>1 DEF SessionInv, GrantedStands, Walk, Refreshing
<1>4. KnownOnceSaved'
  <2>1. \A q \in Request : stage'[q] \in NotSaved => stage[q] \in NotSaved
    BY <1>1 DEF Walk, NotSaved
  <2>2. \A q \in Request :
           refresh' = q \/ (\E d \in Request : used'[d] = q \/ named'[d] = q) =>
           refresh = q \/ (\E d \in Request : used[d] = q \/ named[d] = q)
    BY DEF Walk
  <2>. QED
    BY <2>1, <2>2 DEF SessionInv, KnownOnceSaved
<1>5. TradedIsReplaced'
  BY <1>1 DEF SessionInv, TradedIsReplaced, Walk
<1>6. DeadIsReplaced'
  <2>. SUFFICES ASSUME refresh' \notin alive' \cup {None}, ~ torn'
                PROVE  \/ \E d \in Request :
                              /\ used'[d] = refresh'
                              /\ stage'[d] \in Refreshing \cup Clearing
                       \/ \E l \in LogoutRequest :
                              /\ named'[l] = refresh'
                              /\ stage'[l] \notin Finished
                              /\ stage'[l] \notin {"idle", "leaving", "telling"}
    BY DEF DeadIsReplaced
  <2>1. CASE refresh \in alive
    BY <2>1 DEF Walk, Finished
  <2>2. CASE \E d \in Request : /\ used[d] = refresh
                                /\ stage[d] \in Refreshing \cup Clearing
    BY <1>1, <2>2 DEF Walk
  <2>3. ASSUME NEW l \in LogoutRequest, named[l] = refresh,
               stage[l] \notin Finished \cup {"idle", "leaving", "telling"}
        PROVE  /\ named'[l] = refresh'
               /\ stage'[l] \notin Finished \cup {"idle", "leaving", "telling"}
    BY <1>1, <2>3 DEF Walk
  <2>. QED
    BY <2>1, <2>2, <2>3 DEF SessionInv, DeadIsReplaced, Walk
<1>7. LoggingOut => LoggingOut'
  BY <1>1 DEF LoggingOut, Walk
<1>8. DeadForCause'
  <2>1. \A t \in alive \ alive' : LoggingOut'
    BY DEF Walk, LoggingOut
  <2>2. UNCHANGED <<refresh, used, serving>>
    BY DEF Walk
  <2>. QED
    BY <1>7, <2>1, <2>2 DEF SessionInv, DeadForCause
<1>9. Cause => Cause'
  BY <1>7 DEF Cause, Walk
<1>10. LossHasCause'
  BY <1>1, <1>9 DEF SessionInv, LossHasCause, Walk, Cause
<1>11. AloneClears'
  <2>1. lasting \subseteq Request
    BY DEF SessionInv, SessionTypeOK
  <2>2. Accompanied => Accompanied'
    BY <1>1, <2>1 DEF Accompanied, Walk
  <2>3. r \in lasting => Accompanied'
    BY DEF Accompanied, Walk
  <2>4. ASSUME NEW q \in Request, stage'[q] = "emptying refresh", ~ Accompanied'
        PROVE  /\ access' = None
               /\ \A d \in Request \ {q} : stage'[d] \in Finished \/ d \in lasting'
    BY <1>1, <2>2, <2>3, <2>4 DEF SessionInv, AloneClears, Walk
  <2>5. ASSUME NEW l \in LogoutRequest, stage'[l] = "done", ~ Accompanied'
        PROVE  /\ access' = None /\ refresh' = None
               /\ \A d \in Request : stage'[d] \notin Refreshing \cup {"taking"}
    BY <1>1, <2>2, <2>5 DEF SessionInv, AloneClears, Walk, Finished
  <2>. QED
    BY <2>4, <2>5 DEF AloneClears
<1>. QED
  BY <1>2, <1>3, <1>4, <1>5, <1>6, <1>8, <1>10, <1>11 DEF SessionInv

(* The steps of request r that are of that kind.                           *)
LEMMA Walks ==
    ASSUME SessionInv, NEW r \in Request,
           \/ Ask(r) \/ Leave(r) \/ TellServer(r) \/ AskToLeave(r)
           \/ AskAgain(r) \/ Succeed(r) \/ Fail(r)
           \/ Unauthorized(r) \/ UnauthorizedAgain(r)
           \/ CheckRefresh(r) \/ (TakeRefresh(r) /\ refresh = None)
           \/ Granted(r) \/ Denied(r) \/ GiveUp(r)
           \/ SaveAccess(r) \/ ClearAccess(r)
    PROVE  SessionTypeOK' /\ Walk(r)
<1>. USE DEF Think, Send, Over, GoOn, SessionInv, SessionTypeOK, storageVars, serverVars, historyVars
<1>1. CASE Ask(r)
  BY <1>1 DEF Ask, Walk, NotSaved, Refreshing, Clearing, Finished
<1>2. CASE Leave(r)
  BY <1>2 DEF Leave, Walk, NotSaved, Refreshing, Clearing, Finished
<1>3. CASE TellServer(r)
  BY <1>3 DEF TellServer, StagesInStep, Walk, NotSaved, Refreshing, Clearing, Finished
<1>4. CASE AskToLeave(r)
  BY <1>4 DEF AskToLeave, StagesInStep, Walk, NotSaved, Refreshing, Clearing, Finished
<1>5. CASE AskAgain(r)
  BY <1>5 DEF AskAgain, Walk, NotSaved, Refreshing, Clearing, Finished
<1>6. CASE Succeed(r)
  BY <1>6 DEF Succeed, Served, Walk, NotSaved, Refreshing, Clearing, Finished
<1>7. CASE Fail(r)
  BY <1>7 DEF Fail, Served, Walk, NotSaved, Refreshing, Clearing, Finished
<1>8. CASE Unauthorized(r)
  BY <1>8 DEF Unauthorized, Walk, NotSaved, Refreshing, Clearing, Finished
<1>9. CASE UnauthorizedAgain(r)
  BY <1>9 DEF UnauthorizedAgain, Walk, NotSaved, Refreshing, Clearing, Finished
<1>10. CASE CheckRefresh(r)
  BY <1>10 DEF CheckRefresh, Walk, NotSaved, Refreshing, Clearing, Finished
<1>11. CASE TakeRefresh(r) /\ refresh = None
  <2>1. /\ stage[r] = "taking"
        /\ GoOn(r, Over(r, "failed"))
        /\ UNCHANGED <<storageVars, serverVars, sent, used, named, historyVars>>
    BY <1>11 DEF TakeRefresh, serverVars
  <2>. QED
    BY <2>1 DEF Walk, serverVars, NotSaved, Refreshing, Clearing, Finished
<1>12. CASE Granted(r)
  BY <1>12 DEF Granted, Walk, NotSaved, Refreshing, Clearing, Finished
<1>13. CASE Denied(r)
  BY <1>13 DEF Denied, Walk, NotSaved, Refreshing, Clearing, Finished
<1>14. CASE GiveUp(r)
  BY <1>14 DEF GiveUp, Walk, NotSaved, Refreshing, Clearing, Finished
<1>15. CASE SaveAccess(r)
  BY <1>15 DEF SaveAccess, GrantedStands, Walk, NotSaved, Refreshing, Clearing, Finished, Pair
<1>16. CASE ClearAccess(r)
  BY <1>16 DEF ClearAccess, Walk, NotSaved, Refreshing, Clearing, Finished
<1>. QED
  BY <1>1, <1>2, <1>3, <1>4, <1>5, <1>6, <1>7, <1>8, <1>9, <1>10, <1>11, <1>12, <1>13,
     <1>14, <1>15, <1>16

(* A refresh sets out with the token of the storage.                       *)
LEMMA TakeRefreshStep ==
    ASSUME SessionInv, NEW r \in Request, TakeRefresh(r), refresh # None
    PROVE  SessionInv'
<1>. USE DEF SessionInv, storageVars, historyVars
<1>1. /\ stage[r] = "taking" /\ stage' = [stage EXCEPT ![r] = "refreshing"]
      /\ used' = [used EXCEPT ![r] = refresh]
      /\ serving' = [serving EXCEPT ![r] = "reading"]
      /\ UNCHANGED <<access, refresh, alive, fresh, sent, named>>
      /\ UNCHANGED <<unlucky, lasting, torn>>
  BY DEF TakeRefresh, GoOn
<1>2. SessionTypeOK'
  BY <1>1 DEF SessionTypeOK, Refreshing
<1>3. /\ stage'[r] = "refreshing" /\ used'[r] = refresh /\ serving'[r] = "reading"
      /\ \A q \in Request \ {r} :
             stage'[q] = stage[q] /\ used'[q] = used[q] /\ serving'[q] = serving[q]
  BY <1>1 DEF SessionTypeOK
<1>4. used[r] = None /\ serving[r] = "none"
  BY <1>1 DEF StagesInStep, NotSaved, Refreshing
<1>5. StagesInStep'
  BY <1>3 DEF StagesInStep, NotSaved, Refreshing
<1>6. GrantedStands'
  BY <1>1, <1>3 DEF GrantedStands
<1>7. KnownOnceSaved'
  <2>1. ASSUME NEW q \in Request,
               refresh' = q \/ (\E d \in Request : used'[d] = q \/ named'[d] = q)
        PROVE  refresh = q \/ (\E d \in Request : used[d] = q \/ named[d] = q)
    BY <1>1, <1>3, <2>1
  <2>2. \A q \in Request : stage'[q] \in NotSaved => stage[q] \in NotSaved
    BY <1>1, <1>3 DEF NotSaved
  <2>. QED
    BY <2>1, <2>2 DEF KnownOnceSaved
<1>8. TradedIsReplaced'
  BY <1>1, <1>3 DEF TradedIsReplaced, Refreshing
<1>9. DeadIsReplaced'
  BY <1>1, <1>3 DEF DeadIsReplaced, Refreshing, Finished, StagesInStep, NotSaved
<1>10. LoggingOut => LoggingOut'
  BY <1>3 DEF LoggingOut
<1>11. DeadForCause'
  BY <1>1, <1>3, <1>4, <1>10 DEF DeadForCause
<1>12. Cause => Cause'
  BY <1>1, <1>3, <1>4, <1>10 DEF Cause
<1>13. LossHasCause'
  BY <1>1, <1>3, <1>12 DEF LossHasCause, Clearing
<1>14. AloneClears'
  <2>1. Accompanied => Accompanied'
    BY <1>1, <1>3 DEF Accompanied, SessionTypeOK
  <2>2. r \in lasting => Accompanied'
    BY <1>1, <1>3 DEF Accompanied
  <2>. QED
    BY <1>1, <1>3, <2>1, <2>2 DEF AloneClears, Refreshing, Finished
<1>. QED
  BY <1>2, <1>5, <1>6, <1>7, <1>8, <1>9, <1>11, <1>13, <1>14

(* saveTokens completes: what is stored now was granted and still counts.  *)
LEMMA SaveRefreshStep ==
    ASSUME SessionInv, NEW r \in Request, SaveRefresh(r)
    PROVE  SessionInv'
<1>. USE DEF SessionInv, historyVars, serverVars
<1>1. /\ stage[r] = "saving refresh" /\ stage' = [stage EXCEPT ![r] = "retrying"]
      /\ refresh' = r
      /\ UNCHANGED <<access, alive, fresh, serving, sent, used, named>>
      /\ UNCHANGED <<unlucky, lasting, torn>>
  BY DEF SaveRefresh, GoOn
<1>2. SessionTypeOK'
  BY <1>1 DEF SessionTypeOK, Pair
<1>3. stage'[r] = "retrying" /\ \A q \in Request \ {r} : stage'[q] = stage[q]
  BY <1>1 DEF SessionTypeOK
<1>4. r \in alive
  BY <1>1 DEF GrantedStands, Refreshing
<1>5. \A q \in Request : used[q] # r /\ named[q] # r
  BY <1>1 DEF KnownOnceSaved, NotSaved, Refreshing
<1>6. StagesInStep'
  BY <1>1, <1>3 DEF StagesInStep, NotSaved, Refreshing
<1>7. GrantedStands'
  BY <1>1, <1>3 DEF GrantedStands, Refreshing
<1>8. KnownOnceSaved'
  BY <1>1, <1>3 DEF KnownOnceSaved, NotSaved, Refreshing
<1>9. TradedIsReplaced' /\ DeadIsReplaced'
  BY <1>1, <1>4, <1>5 DEF TradedIsReplaced, DeadIsReplaced
<1>10. LoggingOut => LoggingOut'
  BY <1>1, <1>3 DEF LoggingOut
<1>11. DeadForCause'
  BY <1>1, <1>4, <1>10 DEF DeadForCause
<1>12. Cause => Cause'
  BY <1>1, <1>10 DEF Cause
<1>13. LossHasCause'
  BY <1>1, <1>3, <1>12 DEF LossHasCause, Clearing
<1>14. AloneClears'
  <2>1. Accompanied => Accompanied'
    BY <1>1, <1>3 DEF Accompanied, SessionTypeOK
  <2>2. r \in lasting => Accompanied'
    BY <1>1, <1>3 DEF Accompanied
  <2>. QED
    BY <1>1, <1>3, <2>1, <2>2 DEF AloneClears, Refreshing, Finished
<1>. QED
  BY <1>2, <1>6, <1>7, <1>8, <1>9, <1>11, <1>13, <1>14

(* clearTokens completes: no other request can lose by it what it had not  *)
(* lost before.                                                            *)
LEMMA ClearRefreshStep ==
    ASSUME SessionInv, NEW r \in Request, ClearRefresh(r)
    PROVE  SessionInv'
<1>. USE DEF SessionInv, historyVars, serverVars
<1>1. /\ stage[r] = "clearing refresh"
      /\ stage' = [stage EXCEPT ![r] = IF r \in LogoutRequest THEN "emptying access"
                                                              ELSE "failed"]
      /\ refresh' = None
      /\ UNCHANGED <<access, alive, fresh, serving, sent, used, named>>
      /\ UNCHANGED <<unlucky, lasting, torn>>
  BY DEF ClearRefresh, GoOn, Over
<1>2. SessionTypeOK'
  BY <1>1 DEF SessionTypeOK, Finished
<1>3. /\ \/ r \in LogoutRequest /\ stage'[r] = "emptying access"
         \/ r \notin LogoutRequest /\ stage'[r] = "failed"
      /\ \A q \in Request \ {r} : stage'[q] = stage[q]
  BY <1>1 DEF SessionTypeOK
<1>4. StagesInStep'
  BY <1>1, <1>3 DEF StagesInStep, NotSaved, Refreshing
<1>5. GrantedStands'
  BY <1>1, <1>3 DEF GrantedStands, Refreshing
<1>6. KnownOnceSaved'
  BY <1>1, <1>3 DEF KnownOnceSaved, NotSaved, Refreshing
<1>7. TradedIsReplaced' /\ DeadIsReplaced'
  BY <1>1 DEF TradedIsReplaced, DeadIsReplaced
<1>8. LoggingOut => LoggingOut'
  BY <1>1, <1>3 DEF LoggingOut
<1>9. DeadForCause'
  BY <1>1, <1>8 DEF DeadForCause, Pair
<1>10. Cause => Cause'
  BY <1>1, <1>8 DEF Cause
<1>11. LossHasCause'
  BY <1>1, <1>3, <1>10 DEF LossHasCause, Clearing
<1>12. AloneClears'
  <2>1. Accompanied => Accompanied'
    BY <1>1, <1>3 DEF Accompanied, SessionTypeOK
  <2>2. r \in lasting => Accompanied'
    BY <1>1, <1>3 DEF Accompanied
  <2>. QED
    BY <1>1, <1>3, <2>1, <2>2 DEF AloneClears, Refreshing, Finished
<1>. QED
  BY <1>2, <1>4, <1>5, <1>6, <1>7, <1>9, <1>11, <1>12

(* A logout starts to clear, and notes who is there.                       *)
LEMMA EmptyAccessStep ==
    ASSUME SessionInv, NEW r \in Request, EmptyAccess(r)
    PROVE  SessionInv'
<1>. USE DEF SessionInv, serverVars
<1>1. /\ stage[r] = "emptying access"
      /\ stage' = [stage EXCEPT ![r] = "emptying refresh"]
      /\ access' = None
      /\ lasting' = lasting \cup ((UnderWay \cup Unsent) \ {r})
      /\ UNCHANGED <<refresh, alive, fresh, serving, sent, used, named, unlucky, torn>>
  BY DEF EmptyAccess, GoOn
<1>2. SessionTypeOK'
  BY <1>1 DEF SessionTypeOK, UnderWay, Unsent
<1>3. stage'[r] = "emptying refresh" /\ \A q \in Request \ {r} : stage'[q] = stage[q]
  BY <1>1 DEF SessionTypeOK
<1>4. StagesInStep'
  BY <1>1, <1>3 DEF StagesInStep, NotSaved, Refreshing
<1>5. GrantedStands'
  BY <1>1, <1>3 DEF GrantedStands, Refreshing
<1>6. KnownOnceSaved'
  BY <1>1, <1>3 DEF KnownOnceSaved, NotSaved, Refreshing
<1>7. TradedIsReplaced'
  BY <1>1, <1>3 DEF TradedIsReplaced, Refreshing, Clearing
<1>8. DeadIsReplaced'
  BY <1>1, <1>3 DEF DeadIsReplaced, Refreshing, Clearing, Finished
<1>9. LoggingOut => LoggingOut'
  BY <1>3 DEF LoggingOut
<1>10. DeadForCause'
  BY <1>1, <1>9 DEF DeadForCause
<1>11. Cause => Cause'
  BY <1>1, <1>9 DEF Cause
<1>12. LossHasCause'
  BY <1>1, <1>3, <1>11 DEF LossHasCause, Clearing
<1>13. AloneClears'
  <2>1. Accompanied => Accompanied'
    BY <1>1, <1>3 DEF Accompanied, SessionTypeOK
  <2>2. r \in lasting => Accompanied'
    BY <1>1, <1>3 DEF Accompanied
  <2>3. ASSUME NEW q \in Request \ {r}, q \in UnderWay
        PROVE  Accompanied'
    BY <1>1, <1>3, <2>3 DEF Accompanied, UnderWay
  <2>4. ASSUME NEW q \in Request, stage'[q] = "emptying refresh", ~ Accompanied'
        PROVE  /\ access' = None
               /\ \A d \in Request \ {q} : stage'[d] \in Finished \/ d \in lasting'
    <3>1. q = r
      BY <1>3, <2>3, <2>4 DEF UnderWay, Finished
    <3>. QED
      BY <1>1, <1>3, <3>1 DEF UnderWay, Unsent
  <2>5. ASSUME NEW l \in LogoutRequest, stage'[l] = "done", ~ Accompanied'
        PROVE  /\ access' = None /\ refresh' = None
               /\ \A d \in Request : stage'[d] \notin Refreshing \cup {"taking"}
    BY <1>1, <1>3, <2>1, <2>5 DEF AloneClears, Refreshing
  <2>. QED
    BY <2>4, <2>5 DEF AloneClears
<1>. QED
  BY <1>2, <1>4, <1>5, <1>6, <1>7, <1>8, <1>10, <1>12, <1>13

(* A logout ends.                                                          *)
LEMMA EmptyRefreshStep ==
    ASSUME SessionInv, NEW r \in Request, EmptyRefresh(r)
    PROVE  SessionInv'
<1>. USE DEF SessionInv, serverVars
<1>1. /\ stage[r] = "emptying refresh" /\ stage' = [stage EXCEPT ![r] = "done"]
      /\ refresh' = None
      /\ lasting' = (lasting \ Unsent) \cup (UnderWay \ {r})
      /\ UNCHANGED <<access, alive, fresh, serving, sent, used, named, unlucky, torn>>
  BY DEF EmptyRefresh, GoOn
<1>2. SessionTypeOK'
  BY <1>1 DEF SessionTypeOK, UnderWay, Finished
<1>3. stage'[r] = "done" /\ \A q \in Request \ {r} : stage'[q] = stage[q]
  BY <1>1 DEF SessionTypeOK
<1>4. StagesInStep'
  BY <1>1, <1>3 DEF StagesInStep, NotSaved, Refreshing
<1>5. GrantedStands'
  BY <1>1, <1>3 DEF GrantedStands, Refreshing
<1>6. KnownOnceSaved'
  BY <1>1, <1>3 DEF KnownOnceSaved, NotSaved, Refreshing
<1>7. TradedIsReplaced' /\ DeadIsReplaced'
  BY <1>1 DEF TradedIsReplaced, DeadIsReplaced
<1>8. LoggingOut'
  BY <1>1, <1>3 DEF StagesInStep, LoggingOut
<1>9. DeadForCause' /\ LossHasCause'
  BY <1>8 DEF DeadForCause, LossHasCause, Cause
<1>10. AloneClears'
  <2>1. Accompanied => Accompanied'
    BY <1>1, <1>3 DEF Accompanied, SessionTypeOK, Unsent
  <2>2. \A q \in Request \ {r} : q \in UnderWay => Accompanied'
    BY <1>1, <1>3 DEF Accompanied, UnderWay
  <2>3. ASSUME NEW q \in Request, stage'[q] = "emptying refresh"
        PROVE  Accompanied'
    BY <1>3, <2>2, <2>3 DEF UnderWay, Finished
  <2>4. ~ Accompanied' => access' = None
    BY <1>1, <2>1 DEF AloneClears
  <2>5. ~ Accompanied' =>
            \A d \in Request : stage'[d] \notin Refreshing \cup {"taking"}
    BY <1>3, <2>2 DEF UnderWay, Refreshing, Finished
  <2>. QED
    BY <1>1, <2>3, <2>4, <2>5 DEF AloneClears
<1>. QED
  BY <1>2, <1>4, <1>5, <1>6, <1>7, <1>9, <1>10

(* The server looks at a token: one it refuses died for a cause.           *)
LEMMA ReadTokenStep ==
    ASSUME SessionInv, NEW r \in Request, ReadToken(r)
    PROVE  SessionInv'
<1>. USE DEF SessionInv, storageVars, requestVars, historyVars
<1>1. /\ serving[r] = "reading"
      /\ serving' = [serving EXCEPT ![r] = IF used[r] \in alive THEN "writing"
                                                                ELSE "denied"]
      /\ UNCHANGED <<access, refresh, alive, fresh, sent, used, named, stage,
                     unlucky, lasting, torn>>
  BY DEF ReadToken
<1>2. SessionTypeOK'
  BY <1>1 DEF SessionTypeOK
<1>3. /\ \/ used[r] \in alive /\ serving'[r] = "writing"
         \/ used[r] \notin alive /\ serving'[r] = "denied"
      /\ \A q \in Request \ {r} : serving'[q] = serving[q]
  BY <1>1 DEF SessionTypeOK
<1>4. StagesInStep'
  BY <1>1, <1>3 DEF StagesInStep
<1>5. GrantedStands'
  BY <1>1, <1>3 DEF GrantedStands
<1>6. /\ KnownOnceSaved' /\ TradedIsReplaced'
      /\ DeadIsReplaced' /\ AloneClears'
  <2>1. KnownOnceSaved' /\ TradedIsReplaced' /\ DeadIsReplaced'
    BY <1>1 DEF KnownOnceSaved, TradedIsReplaced, DeadIsReplaced
  <2>2. AloneClears'
    BY <1>1 DEF AloneClears, Accompanied
  <2>. QED
    BY <2>1, <2>2
<1>7. DeadForCause'
  BY <1>1, <1>3 DEF DeadForCause, LoggingOut
<1>8. LossHasCause'
  <2>1. Cause' <=> Cause
    BY <1>1 DEF Cause, LoggingOut
  <2>2. used[r] \in Pair
    BY <1>1 DEF SessionTypeOK
  <2>3. used[r] # None
    BY <2>2 DEF Pair
  <2>4. used[r] \notin alive => Cause
    BY <1>1, <2>2, <2>3 DEF DeadForCause, Cause
  <2>. QED
    BY <1>1, <1>3, <2>1, <2>4 DEF LossHasCause
<1>. QED
  BY <1>2, <1>4, <1>5, <1>6, <1>7, <1>8

(* The server refuses a token that lapsed.                                 *)
LEMMA ReadLapsedStep ==
    ASSUME SessionInv, NEW r \in Request, ReadLapsed(r)
    PROVE  SessionInv'
<1>. USE DEF SessionInv, storageVars, requestVars, historyVars
<1>1. /\ serving[r] = "reading"
      /\ serving' = [serving EXCEPT ![r] = "lapsed"]
      /\ UNCHANGED <<access, refresh, alive, fresh, sent, used, named, stage,
                     unlucky, lasting, torn>>
  BY DEF ReadLapsed
<1>2. SessionTypeOK'
  BY <1>1 DEF SessionTypeOK
<1>3. serving'[r] = "lapsed" /\ \A q \in Request \ {r} : serving'[q] = serving[q]
  BY <1>1 DEF SessionTypeOK
<1>4. StagesInStep' /\ GrantedStands'
  BY <1>1, <1>3 DEF StagesInStep, GrantedStands
<1>5. KnownOnceSaved' /\ TradedIsReplaced' /\ DeadIsReplaced'
  BY <1>1 DEF KnownOnceSaved, TradedIsReplaced, DeadIsReplaced
<1>6. AloneClears'
  BY <1>1 DEF AloneClears, Accompanied
<1>7. DeadForCause'
  BY <1>1, <1>3 DEF DeadForCause, LoggingOut
<1>8. LossHasCause'
  BY <1>3 DEF LossHasCause, Cause
<1>. QED
  BY <1>2, <1>4, <1>5, <1>6, <1>7, <1>8

(* The server rotates a token.                                             *)
LEMMA WriteTokenStep ==
    ASSUME SessionInv, NEW r \in Request, WriteToken(r)
    PROVE  SessionInv'
<1>. USE DEF SessionInv, storageVars, requestVars
<1>1. /\ serving[r] = "writing" /\ serving' = [serving EXCEPT ![r] = "granted"]
      /\ alive' = (alive \ {used[r]}) \cup {r}
      /\ fresh' = fresh \cup {r}
      /\ UNCHANGED <<access, refresh, sent, used, named, stage, unlucky, lasting, torn>>
  BY DEF WriteToken
<1>2. SessionTypeOK'
  BY <1>1 DEF SessionTypeOK, Pair
<1>3. serving'[r] = "granted" /\ \A q \in Request \ {r} : serving'[q] = serving[q]
  BY <1>1 DEF SessionTypeOK
<1>4. used[r] \in Pair
  BY <1>1 DEF SessionTypeOK
<1>5. StagesInStep'
  BY <1>1, <1>3 DEF StagesInStep
<1>6. GrantedStands'
  <2>1. \A q \in Request : q \in alive /\ stage[q] \in Refreshing => q \in alive'
    BY <1>1 DEF KnownOnceSaved, NotSaved
  <2>. QED
    BY <1>1, <1>3, <2>1 DEF GrantedStands
<1>7. KnownOnceSaved' /\ TradedIsReplaced' /\ AloneClears'
  <2>1. KnownOnceSaved' /\ TradedIsReplaced'
    BY <1>1 DEF KnownOnceSaved, TradedIsReplaced
  <2>2. AloneClears'
    BY <1>1 DEF AloneClears, Accompanied
  <2>. QED
    BY <2>1, <2>2
<1>8. DeadIsReplaced'
  BY <1>1, <1>4 DEF DeadIsReplaced, TradedIsReplaced
<1>9. DeadForCause'
  BY <1>1, <1>3 DEF DeadForCause, LoggingOut
<1>10. LossHasCause'
  BY <1>1, <1>3 DEF LossHasCause, Cause, LoggingOut
<1>. QED
  BY <1>2, <1>5, <1>6, <1>7, <1>8, <1>9, <1>10

(* The app is killed: what it was about to replace is torn.                *)
LEMMA KillStep ==
    ASSUME SessionInv, Kill
    PROVE  SessionInv'
<1>. USE DEF SessionInv, storageVars, serverVars
<1>1. /\ torn' = (torn \/ \E r \in Request : Tearing(r))
      /\ UNCHANGED <<access, refresh, alive, fresh, serving, sent, used, named,
                     unlucky, lasting>>
  BY DEF Kill
<1>2. SessionTypeOK'
  BY DEF Kill, SessionTypeOK, Finished
<1>3. \A q \in Request : \/ stage[q] = "idle" /\ stage'[q] = "idle"
                         \/ stage[q] = "done" /\ stage'[q] = "done"
                         \/ stage[q] \notin {"idle", "done"} /\ stage'[q] = "failed"
  BY DEF Kill
<1>4. StagesInStep'
  BY <1>1, <1>3 DEF StagesInStep, NotSaved, Refreshing
<1>5. GrantedStands'
  BY <1>1, <1>3 DEF GrantedStands, Refreshing
<1>6. KnownOnceSaved'
  BY <1>1, <1>3 DEF KnownOnceSaved, NotSaved, Refreshing
<1>7. TradedIsReplaced'
  BY <1>1 DEF TradedIsReplaced, Tearing, Clearing
<1>8. DeadIsReplaced'
  BY <1>1 DEF DeadIsReplaced, Tearing, Clearing, Finished
<1>9. LoggingOut => LoggingOut'
  BY <1>3 DEF LoggingOut
<1>10. DeadForCause'
  BY <1>1, <1>9 DEF DeadForCause
<1>11. Cause => Cause'
  BY <1>1, <1>9 DEF Cause
<1>12. LossHasCause'
  BY <1>1, <1>3, <1>11 DEF LossHasCause, Clearing
<1>13. AloneClears'
  <2>1. Accompanied => Accompanied'
    BY <1>1, <1>3 DEF Accompanied, SessionTypeOK
  <2>. QED
    BY <1>1, <1>3, <2>1 DEF AloneClears, Refreshing
<1>. QED
  BY <1>2, <1>4, <1>5, <1>6, <1>7, <1>8, <1>10, <1>12, <1>13

(* The expiry of an access token, and steps that change nothing.           *)
LEMMA ElsewhereStep ==
    ASSUME SessionInv, fresh' \subseteq fresh,
           UNCHANGED <<storageVars, alive, serving>>,
           UNCHANGED <<requestVars, historyVars>>
    PROVE  SessionInv'
<1>. USE DEF SessionInv
<1>1. /\ UNCHANGED <<access, refresh, alive, serving, sent, used, named, stage>>
      /\ UNCHANGED <<unlucky, lasting, torn>>
  BY DEF storageVars, requestVars, historyVars
<1>2. SessionTypeOK'
  BY <1>1 DEF SessionTypeOK
<1>3. StagesInStep' /\ GrantedStands'
  BY <1>1 DEF StagesInStep, GrantedStands
<1>4. KnownOnceSaved'
  BY <1>1 DEF KnownOnceSaved
<1>5. TradedIsReplaced' /\ DeadIsReplaced'
  BY <1>1 DEF TradedIsReplaced, DeadIsReplaced
<1>6. DeadForCause'
  BY <1>1 DEF DeadForCause, LoggingOut
<1>7. LossHasCause'
  BY <1>1 DEF LossHasCause, Cause, LoggingOut
<1>8. AloneClears'
  BY <1>1 DEF AloneClears, Accompanied
<1>. QED
  BY <1>2, <1>3, <1>4, <1>5, <1>6, <1>7, <1>8

(* Every step keeps the invariant.                                         *)
LEMMA NextSessionInv == SessionInv /\ [SessionNext]_sessionVars => SessionInv'
<1>. SUFFICES ASSUME SessionInv, [SessionNext]_sessionVars PROVE SessionInv'
  OBVIOUS
<1>1. ASSUME NEW r \in Request, Ask(r) \/ Leave(r) PROVE SessionInv'
  BY <1>1, Walks, WalkStep
<1>2. ASSUME NEW r \in Request, Advance(r) PROVE SessionInv'
  <2>1. CASE TakeRefresh(r) /\ refresh # None
    BY <2>1, TakeRefreshStep
  <2>2. CASE SaveRefresh(r)
    BY <2>2, SaveRefreshStep
  <2>3. CASE ClearRefresh(r)
    BY <2>3, ClearRefreshStep
  <2>4. CASE EmptyAccess(r)
    BY <2>4, EmptyAccessStep
  <2>5. CASE EmptyRefresh(r)
    BY <2>5, EmptyRefreshStep
  <2>. QED
    BY <1>2, <2>1, <2>2, <2>3, <2>4, <2>5, Walks, WalkStep DEF Advance
<1>3. ASSUME NEW r \in Request, ReadToken(r) \/ ReadLapsed(r) \/ WriteToken(r)
      PROVE  SessionInv'
  BY <1>3, ReadTokenStep, ReadLapsedStep, WriteTokenStep
<1>4. ASSUME NEW p \in Pair, AccessExpires(p) PROVE SessionInv'
  BY <1>4, ElsewhereStep DEF AccessExpires
<1>5. CASE Kill
  BY <1>5, KillStep
<1>6. CASE AllEnded
  BY <1>6, ElsewhereStep DEF AllEnded, sessionVars, serverVars
<1>7. CASE UNCHANGED sessionVars
  BY <1>7, ElsewhereStep DEF sessionVars, serverVars
<1>. QED
  BY <1>1, <1>2, <1>3, <1>4, <1>5, <1>6, <1>7 DEF SessionNext

(* The inductive invariant of the app holds in every reachable state, for  *)
(* any number of requests and logouts, whatever answers are lost and       *)
(* whenever the app is killed.                                             *)
THEOREM SessionInvariance == SessionSpec => []SessionInv
  BY InitSessionInv, NextSessionInv, PTL DEF SessionSpec

(* At rest, and unless it was killed during a refresh or a logout, the app *)
(* holds no refresh token that was traded in or logged out.                *)
THEOREM KeepsWorkingToken == SessionSpec => []KeptTokenWorks
<1>1. SessionInv => KeptTokenWorks
  BY DEF SessionInv, DeadIsReplaced, KeptTokenWorks, AtRest, Refreshing, Clearing, Finished
<1>. QED
  BY <1>1, SessionInvariance, PTL

(* The app loses its tokens only by a logout, a refresh without an answer, *)
(* a token that had lapsed, or two requests that traded in the same one.   *)
THEOREM LosesForCause == SessionSpec => []LostForCause
<1>1. SessionInv => LostForCause
  BY DEF SessionInv, SessionTypeOK, LossHasCause, Cause, LoggingOut, LostForCause, AtRest
<1>. QED
  BY <1>1, SessionInvariance, PTL

(* A logout that nothing else accompanied leaves no token behind, and none *)
(* comes back.                                                             *)
THEOREM LogoutIsFinal == SessionSpec => []LogoutClears
<1>1. SessionInv => LogoutClears
  BY DEF SessionInv, AloneClears, Accompanied, LogoutClears
<1>. QED
  BY <1>1, SessionInvariance, PTL
=============================================================================
