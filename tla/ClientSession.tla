--------------------------- MODULE ClientSession ----------------------------
(***************************************************************************)
(* The session as the app keeps it: ApiClient._requestWithRefresh and      *)
(* _tryRefreshToken of api_client.dart over token_manager.dart, and        *)
(* AuthRepository.logout, against the server's rotation of refresh tokens. *)
(* Screens load together, so several requests find their access token      *)
(* expired at once; every await is a point where another one runs.         *)
(* Answers can be lost (the client gives up after 15 seconds) and the app  *)
(* can be killed; the two entries of the storage are written one by one.   *)
(*                                                                         *)
(* An access and a refresh token are issued together and named by the      *)
(* request that obtained them; First is the pair of the login.  The server *)
(* half is the part of AuthTokens a device sees: a refresh looks at the    *)
(* old token, and only then revokes it, issues the new one and commits.    *)
(* Whether its age or a change of password on another device has ended a   *)
(* token is a choice made when the server looks at it.                     *)
(* No name is one of AuthTokens, so that a module can extend both.         *)
(***************************************************************************)
EXTENDS Integers, FiniteSets

CONSTANTS
    Request,        \* the requests the app sends
    LogoutRequest,  \* those of them that are POST /auth/logout
    First,          \* the pair of tokens the app logged in with
    None            \* no token

ASSUME ClientSessionAssumption ==
    /\ LogoutRequest \subseteq Request
    /\ First \notin Request
    /\ None \notin Request \cup {First}

Pair == Request \cup {First}

VARIABLES
    access,      \* storage: the access token
    refresh,     \* storage: the refresh token
    alive,       \* server: the tokens neither traded in nor logged out
    fresh,       \* server: the access tokens that have not expired
    serving,     \* how far the server is with the refresh of each request
    sent,        \* the access token each request was sent with
    used,        \* the refresh token each request wants to trade in
    named,       \* the refresh token each logout wants revoked
    stage,       \* how far each request has come
    unlucky,     \* history: the answer of a refresh was lost or an error
    lasting,     \* history: what was under way when a logout cleared
    torn         \* history: the app was killed during a refresh or a logout

storageVars == <<access, refresh>>
serverVars == <<alive, fresh, serving>>
requestVars == <<sent, used, named, stage>>
historyVars == <<unlucky, lasting, torn>>
sessionVars == <<storageVars, serverVars, requestVars, historyVars>>

Finished == {"done", "failed"}
Refreshing == {"refreshing", "saving access", "saving refresh"}

(* The values of every variable; a refresh is never sent without a token,  *)
(* although the token is read a second time after it was checked.          *)
SessionTypeOK ==
    /\ access \in Pair \cup {None}
    /\ refresh \in Pair \cup {None}
    /\ alive \subseteq Pair
    /\ fresh \subseteq Pair
    /\ serving \in [Request ->
           {"none", "reading", "writing", "granted", "denied", "lapsed"}]
    /\ sent \in [Request -> Pair \cup {None}]
    /\ used \in [Request -> Pair \cup {None}]
    /\ named \in [Request -> Pair \cup {None}]
    /\ stage \in [Request ->
           {"idle", "asking", "checking", "taking", "retrying", "asking again",
            "clearing access", "clearing refresh", "leaving", "telling",
            "emptying access", "emptying refresh"} \cup Refreshing \cup Finished]
    /\ unlucky \in BOOLEAN
    /\ lasting \subseteq Request
    /\ torn \in BOOLEAN
    /\ \A r \in Request : serving[r] # "none" => used[r] # None

SessionInit ==
    /\ access = First
    /\ refresh = First
    /\ alive = {First}
    /\ fresh \in {{}, {First}}
    /\ serving = [r \in Request |-> "none"]
    /\ sent = [r \in Request |-> None]
    /\ used = [r \in Request |-> None]
    /\ named = [r \in Request |-> None]
    /\ stage = [r \in Request |-> "idle"]
    /\ unlucky = FALSE
    /\ lasting = {}
    /\ torn = FALSE

GoOn(r, label) == stage' = [stage EXCEPT ![r] = label]

(* A step of the client that touches neither storage nor server.           *)
Think(r, label) ==
    /\ GoOn(r, label)
    /\ UNCHANGED <<storageVars, serverVars, historyVars>>

(* Where a request goes that has its answer: a logout still has to clear.  *)
Over(r, label) == IF r \in LogoutRequest THEN "emptying access" ELSE label

-----------------------------------------------------------------------------
(* _requestWithRefresh                                                     *)

(* getAccessToken, and the request is sent.                                *)
Send(r, label) ==
    /\ sent' = [sent EXCEPT ![r] = access]
    /\ Think(r, label)
    /\ UNCHANGED <<used, named>>

Ask(r) ==
    /\ stage[r] = "idle"
    /\ r \notin LogoutRequest
    /\ Send(r, "asking")

AskToLeave(r) ==
    /\ stage[r] = "telling"
    /\ Send(r, "asking")

Accepted(r) == sent[r] \in fresh

(* The server revokes the token named in the body of a logout.             *)
Served(r) == alive' = IF r \in LogoutRequest THEN alive \ {named[r]} ELSE alive

Succeed(r) ==
    /\ stage[r] \in {"asking", "asking again"}
    /\ Accepted(r)
    /\ Served(r)
    /\ GoOn(r, Over(r, "done"))
    /\ UNCHANGED <<storageVars, fresh, serving, sent, used, named, historyVars>>

(* The request fails with anything but 401, or its answer is lost, after   *)
(* or before it was served.  _processResponse throws.                      *)
Fail(r) ==
    /\ stage[r] \in {"asking", "asking again"}
    /\ (Accepted(r) /\ Served(r)) \/ UNCHANGED alive
    /\ GoOn(r, Over(r, "failed"))
    /\ UNCHANGED <<storageVars, fresh, serving, sent, used, named, historyVars>>

Unauthorized(r) ==
    /\ stage[r] = "asking"
    /\ ~ Accepted(r)
    /\ Think(r, "checking")
    /\ UNCHANGED <<sent, used, named>>

(* Slip: a second 401 ends the session.                                    *)
UnauthorizedAgainClears(r) ==
    /\ stage[r] = "asking again"
    /\ ~ Accepted(r)
    /\ Think(r, "clearing access")
    /\ UNCHANGED <<sent, used, named>>

(* Only one refresh is tried: a second 401 is the answer.                  *)
UnauthorizedAgain(r) ==
    /\ stage[r] = "asking again"
    /\ ~ Accepted(r)
    /\ Think(r, Over(r, "failed"))
    /\ UNCHANGED <<sent, used, named>>

(* await getRefreshToken() != null                                         *)
CheckRefresh(r) ==
    /\ stage[r] = "checking"
    /\ Think(r, IF refresh = None THEN Over(r, "failed") ELSE "taking")
    /\ UNCHANGED <<sent, used, named>>

AskAgain(r) ==
    /\ stage[r] = "retrying"
    /\ Send(r, "asking again")

-----------------------------------------------------------------------------
(* _tryRefreshToken                                                        *)

(* Slip: what was checked a moment ago is not checked again.               *)
TakeRefreshUnchecked(r) ==
    /\ stage[r] = "taking"
    /\ used' = [used EXCEPT ![r] = refresh]
    /\ serving' = [serving EXCEPT ![r] = "reading"]
    /\ GoOn(r, "refreshing")
    /\ UNCHANGED <<storageVars, alive, fresh, sent, named, historyVars>>

(* getRefreshToken once more, and POST /auth/refresh.                      *)
TakeRefresh(r) ==
    /\ stage[r] = "taking"
    /\ IF refresh = None
       THEN /\ GoOn(r, Over(r, "failed"))
            /\ UNCHANGED <<used, serving>>
       ELSE /\ used' = [used EXCEPT ![r] = refresh]
            /\ serving' = [serving EXCEPT ![r] = "reading"]
            /\ GoOn(r, "refreshing")
    /\ UNCHANGED <<storageVars, alive, fresh, sent, named, historyVars>>

Granted(r) ==
    /\ stage[r] = "refreshing"
    /\ serving[r] = "granted"
    /\ Think(r, "saving access")
    /\ UNCHANGED <<sent, used, named>>

(* 401, whatever its code says: INVALID_REFRESH_TOKEN, REFRESH_TOKEN_EXPIRED. *)
Denied(r) ==
    /\ stage[r] = "refreshing"
    /\ serving[r] \in {"denied", "lapsed"}
    /\ Think(r, "clearing access")
    /\ UNCHANGED <<sent, used, named>>

(* Slip: an exception leaves the tokens alone.                             *)
GiveUpKeeping(r) ==
    /\ stage[r] = "refreshing"
    /\ unlucky' = TRUE
    /\ GoOn(r, Over(r, "failed"))
    /\ UNCHANGED <<storageVars, serverVars, sent, used, named, lasting, torn>>

(* The timeout, a lost connection, a 429 or a 500: the server may or may   *)
(* not have done, or be about to do, what it was asked.                    *)
GiveUp(r) ==
    /\ stage[r] = "refreshing"
    /\ unlucky' = TRUE
    /\ GoOn(r, "clearing access")
    /\ UNCHANGED <<storageVars, serverVars, sent, used, named, lasting, torn>>

(* saveTokens: two awaited writes.                                         *)
SaveAccess(r) ==
    /\ stage[r] = "saving access"
    /\ access' = r
    /\ GoOn(r, "saving refresh")
    /\ UNCHANGED <<refresh, serverVars, sent, used, named, historyVars>>

SaveRefresh(r) ==
    /\ stage[r] = "saving refresh"
    /\ refresh' = r
    /\ GoOn(r, "retrying")
    /\ UNCHANGED <<access, serverVars, sent, used, named, historyVars>>

(* clearTokens: two awaited deletes.                                       *)
ClearAccess(r) ==
    /\ stage[r] = "clearing access"
    /\ access' = None
    /\ GoOn(r, "clearing refresh")
    /\ UNCHANGED <<refresh, serverVars, sent, used, named, historyVars>>

ClearRefresh(r) ==
    /\ stage[r] = "clearing refresh"
    /\ refresh' = None
    /\ GoOn(r, Over(r, "failed"))
    /\ UNCHANGED <<access, serverVars, sent, used, named, historyVars>>

-----------------------------------------------------------------------------
(* AuthRepository.logout                                                   *)

Leave(r) ==
    /\ stage[r] = "idle"
    /\ r \in LogoutRequest
    /\ named' = [named EXCEPT ![r] = refresh]
    /\ Think(r, "leaving")
    /\ UNCHANGED <<sent, used>>

(* The server is told if both tokens are there.                            *)
TellServer(r) ==
    /\ stage[r] = "leaving"
    /\ Think(r, IF named[r] # None /\ access # None THEN "telling"
                                                    ELSE "emptying access")
    /\ UNCHANGED <<sent, used, named>>

UnderWay == {q \in Request : stage[q] \notin Finished \cup {"idle"}}
Unsent == {q \in Request : stage[q] = "idle"}

EmptyAccess(r) ==
    /\ stage[r] = "emptying access"
    /\ access' = None
    /\ lasting' = lasting \cup ((UnderWay \cup Unsent) \ {r})
    /\ GoOn(r, "emptying refresh")
    /\ UNCHANGED <<refresh, serverVars, sent, used, named, unlucky, torn>>

(* Slip: the refresh token stays.                                          *)
EmptyRefreshNot(r) ==
    /\ stage[r] = "emptying refresh"
    /\ lasting' = (lasting \ Unsent) \cup (UnderWay \ {r})
    /\ GoOn(r, "done")
    /\ UNCHANGED <<storageVars, serverVars, sent, used, named, unlucky, torn>>

EmptyRefresh(r) ==
    /\ stage[r] = "emptying refresh"
    /\ refresh' = None
    /\ lasting' = (lasting \ Unsent) \cup (UnderWay \ {r})
    /\ GoOn(r, "done")
    /\ UNCHANGED <<access, serverVars, sent, used, named, unlucky, torn>>

Advance(r) ==
    \/ Succeed(r)
    \/ Fail(r)
    \/ Unauthorized(r)
    \/ UnauthorizedAgain(r)
    \/ CheckRefresh(r)
    \/ AskAgain(r)
    \/ TakeRefresh(r)
    \/ Granted(r)
    \/ Denied(r)
    \/ GiveUp(r)
    \/ SaveAccess(r)
    \/ SaveRefresh(r)
    \/ ClearAccess(r)
    \/ ClearRefresh(r)
    \/ TellServer(r)
    \/ AskToLeave(r)
    \/ EmptyAccess(r)
    \/ EmptyRefresh(r)

-----------------------------------------------------------------------------
(* The server: refresh_tokens of auth_service.py.  It goes on whether or   *)
(* not anyone waits for the answer.                                        *)

(* A token lapses seven days after it was issued, or when the password is  *)
(* changed elsewhere, and nobody sees it before a refresh presents it.     *)
FoundLapsed(t) == \E r \in Request : used[r] = t /\ serving[r] = "lapsed"

ReadToken(r) ==
    /\ serving[r] = "reading"
    /\ used[r] \in alive => ~ FoundLapsed(used[r])
    /\ serving' = [serving EXCEPT ![r] = IF used[r] \in alive THEN "writing"
                                                              ELSE "denied"]
    /\ UNCHANGED <<storageVars, alive, fresh, requestVars, historyVars>>

(* REFRESH_TOKEN_EXPIRED, or not found since the change of password.       *)
ReadLapsed(r) ==
    /\ serving[r] = "reading"
    /\ used[r] \in alive
    /\ serving' = [serving EXCEPT ![r] = "lapsed"]
    /\ UNCHANGED <<storageVars, alive, fresh, requestVars, historyVars>>

WriteToken(r) ==
    /\ serving[r] = "writing"
    /\ alive' = (alive \ {used[r]}) \cup {r}
    /\ fresh' = fresh \cup {r}
    /\ serving' = [serving EXCEPT ![r] = "granted"]
    /\ UNCHANGED <<storageVars, requestVars, unlucky, lasting, torn>>

(* An access token expires (15 minutes).                                   *)
AccessExpires(p) ==
    /\ p \in fresh
    /\ fresh' = fresh \ {p}
    /\ UNCHANGED <<storageVars, alive, serving, requestVars, historyVars>>

-----------------------------------------------------------------------------
(* The user kills the app, or the system does.                             *)
Tearing(r) ==
    \/ stage[r] \in Refreshing \cup {"clearing access", "clearing refresh"}
    \/ r \in LogoutRequest /\ stage[r] \notin Finished \cup {"idle", "leaving"}

Kill ==
    /\ UnderWay # {}
    /\ stage' = [r \in Request |-> IF stage[r] = "idle" THEN "idle"
                                   ELSE IF stage[r] = "done" THEN "done" ELSE "failed"]
    /\ torn' = (torn \/ \E r \in Request : Tearing(r))
    /\ UNCHANGED <<storageVars, serverVars, sent, used, named,
                   unlucky, lasting>>

AllEnded ==
    /\ \A r \in Request : stage[r] \in Finished
    /\ UNCHANGED sessionVars

SessionNext ==
    \/ \E r \in Request : Ask(r) \/ Leave(r)
    \/ \E r \in Request : Advance(r)
    \/ \E r \in Request : ReadToken(r) \/ ReadLapsed(r) \/ WriteToken(r)
    \/ \E p \in Pair : AccessExpires(p)
    \/ Kill
    \/ AllEnded

SessionSpec == SessionInit /\ [][SessionNext]_sessionVars

-----------------------------------------------------------------------------
(* Properties                                                              *)

AtRest == \A r \in Request : stage[r] \in Finished \cup {"idle"}

(* At rest, the refresh token in the storage was neither traded in nor     *)
(* logged out: interleaved saves and deletes of any number of requests     *)
(* never leave such a token behind, whatever answers were lost.  Only      *)
(* killing the app in the middle of a refresh or logout can.               *)
KeptTokenWorks ==
    AtRest /\ refresh # None /\ ~ torn => refresh \in alive

(* The session is lost from the storage only by a logout, by a refresh     *)
(* whose answer was lost, by a refresh with a token that its age or a      *)
(* change of password had ended, or by two requests that traded in the     *)
(* same token ("On 401, attempt token refresh once").                      *)
LostForCause ==
    AtRest /\ refresh = None =>
        \/ \E r \in LogoutRequest : stage[r] \in Finished
        \/ unlucky
        \/ \E r \in Request : serving[r] = "lapsed"
        \/ \E q, r \in Request : q # r /\ used[q] = used[r] /\ used[q] # None

(* A logout that no other request accompanied while it cleared leaves no   *)
(* token behind, whatever the server answered ("Still clear local tokens   *)
(* even if server request fails"), and none comes back later.              *)
LogoutClears ==
    (\E r \in LogoutRequest : stage[r] = "done") /\ lasting = {} =>
        access = None /\ refresh = None

-----------------------------------------------------------------------------
(* The inductive invariant                                                 *)

Clearing == {"clearing access", "clearing refresh"}

(* A request in one of these has saved nothing it obtained.                *)
NotSaved ==
    {"idle", "asking", "checking", "taking", "leaving", "telling"} \cup Refreshing

(* A request that has asked for no refresh, and one that is only a logout. *)
StagesInStep ==
    \A r \in Request :
        /\ stage[r] \in NotSaved \ Refreshing =>
               used[r] = None /\ serving[r] = "none"
        /\ stage[r] \in {"leaving", "telling",
                         "emptying access", "emptying refresh"} => r \in LogoutRequest

(* What is being saved was granted, and nobody can have used it up.        *)
GrantedStands ==
    \A q \in Request :
        /\ stage[q] \in {"saving access", "saving refresh"} => serving[q] = "granted"
        /\ stage[q] \in Refreshing /\ serving[q] = "granted" => q \in alive

(* A pair is known to nobody before its refresh token is in the storage.   *)
KnownOnceSaved ==
    \A q \in Request :
        refresh = q \/ (\E r \in Request : used[r] = q \/ named[r] = q) =>
            stage[q] \notin NotSaved

(* Who trades in the token of the storage has yet to replace or delete it. *)
TradedIsReplaced ==
    \A r \in Request :
        used[r] # None /\ used[r] = refresh =>
            stage[r] \in Refreshing \cup Clearing \/ torn

(* A dead token in the storage is about to be replaced or deleted, by the  *)
(* refresh that traded it in or by the logout that named it.               *)
DeadIsReplaced ==
    refresh \notin alive \cup {None} =>
        \/ torn
        \/ \E r \in Request :
               used[r] = refresh /\ stage[r] \in Refreshing \cup Clearing
        \/ \E l \in LogoutRequest :
               /\ named[l] = refresh
               /\ stage[l] \notin Finished \cup {"idle", "leaving", "telling"}

LoggingOut == \E l \in LogoutRequest : stage[l] # "idle"

(* A token anyone holds died by being traded in, or by a logout.           *)
DeadForCause ==
    \A t \in Pair \ alive :
        refresh = t \/ (\E r \in Request : used[r] = t) =>
            \/ \E q \in Request : used[q] = t /\ serving[q] = "granted"
            \/ LoggingOut

Cause ==
    \/ unlucky
    \/ LoggingOut
    \/ \E r \in Request : serving[r] = "lapsed"
    \/ \E q, r \in Request : q # r /\ used[q] = used[r] /\ used[q] # None

(* LostForCause, at rest or not, and how it comes about.                   *)
LossHasCause ==
    /\ refresh = None => Cause
    /\ \A r \in Request : stage[r] \in Clearing \/ serving[r] = "denied" => Cause

(* Somebody who was there while a logout cleared has run since.            *)
Accompanied == \E q \in lasting : stage[q] # "idle"

(* LogoutClears, as it survives from step to step.                         *)
AloneClears ==
    \/ Accompanied
    \/ /\ \A r \in Request : stage[r] = "emptying refresh" =>
              /\ access = None
              /\ \A q \in Request \ {r} : stage[q] \in Finished \/ q \in lasting
       /\ (\E r \in LogoutRequest : stage[r] = "done") =>
              /\ access = None /\ refresh = None
              /\ \A q \in Request : stage[q] \notin Refreshing \cup {"taking"}

(* Together they survive every step, and imply the properties above.       *)
SessionInv ==
    /\ SessionTypeOK
    /\ StagesInStep
    /\ GrantedStands
    /\ KnownOnceSaved
    /\ TradedIsReplaced
    /\ DeadIsReplaced
    /\ DeadForCause
    /\ LossHasCause
    /\ AloneClears
=============================================================================
