# Finance tracker: verification development

TLA+ models of the finance tracker (FastAPI + SQLAlchemy 2 + PostgreSQL backend
in `src/backend/app`, Flutter client in `src/frontend/lib`), model-checked with
TLC on small instances, and whose safety properties are proved with TLAPS for every
instance.  `PROJECT.json` is the machine-readable side: components,
runs, mutants, the map from definitions to source lines, hazards and theorems.

    tlc -workers 2 -config Tasks.cfg MCTasks.tla      # any cfg with its MC module
    tlapm FundRequestsProofs.tla                      # any *Proofs module

## The system and what makes it hard

A family has one parent, who founded it and is its admin, and children who joined with
an invite code (only parents may found, only children may join).  Every user has one
wallet with two balances (IDR and PTS).  Children ask for money, do tasks for
rewards, save towards goals and spend; parents approve, reward, pay allowances.
Every request of the client is one handler run in **one database transaction**
(`database.py:79-97`, `get_db`: commit when the handler returns, rollback when it
raises).  Nothing else serialises the handlers: they interleave statement by
statement at READ COMMITTED, and correctness rests on three idioms, used unevenly:

1. an atomic conditional `UPDATE` (wallet credit and debit: the row lock and the
   re-evaluation of the WHERE clause after a wait make check and change one step);
2. `SELECT ... FOR UPDATE` (fund requests, contributions to a goal);
3. nothing: read, check in Python, write by primary key (tasks, deleting and
   editing goals, joining a family, limits, refresh tokens).

The test-suite runs every handler on one SQLite session with `get_db`'s commit and
rollback replaced (`tests/conftest.py`), where FOR UPDATE does nothing, columns
have no width and calls never overlap: none of the above is tested there.

### Inventory

| component | state | operations | interacts with | hard behaviours | what makes it correct |
|---|---|---|---|---|---|
| Wallets (`wallet_service.py`, `models/wallet.py`) | balances, DECIMAL(12,2) >= 0; row locks | credit, debit, topup, exchange_pts | called by every money service in its transaction | concurrent debits, overflow after a partial transfer | never overdrawn; uncommitted money belongs to the holder of the lock |
| Ledger (`transaction_service.py`) | append-only `transactions` | create, list, get | written by every money service | money moved without record | balances change only together with a permanent record |
| Fund requests | `fund_requests` rows | create, approve, reject, list, get | wallets, ledger, notifications, membership | two reviews of one request, failing credit, failing insert | paid once, exactly if approved; a verdict is final and told |
| Tasks | `tasks` rows, state machine created/submitted/completed/rejected | create, update, submit, approve, reject, delete | wallets, ledger, notifications, membership | no row lock anywhere: every check may be stale | no reward without submission, record and notice |
| Savings goals | `savings_goals` rows | create, update, contribute, delete | wallets, ledger (refunds only), notifications, membership | lost contributions, double refund, lock order goal/wallet against wallet/goal | contributions are never lost, milestones told once, refunds recorded |
| Families and invitations (`family_service.py`, `invitation_service.py`) | `families`, `family_members`, `invitations` rows | create family, invite, join, cancel, remove member | membership is read by every other service | joins racing each other, a cancellation and expiry; seats counted twice | one family per user, a seat and its invitation agree, seats respected, codes unique |
| Subscriptions (`subscription_service.py`) | `subscriptions` row of a family | get (creates the default), upgrade, cancel | none: `families.max_seats` is not touched | two default plans inserted at once, cancel racing upgrade | a plan is what was paid for |
| Authentication (`auth_service.py`, `models/refresh_token.py`) | users, refresh tokens | register, login, refresh, logout, change password | every endpoint; client | concurrent refresh with rotation, change of password or logout racing a refresh, cleanup by a login | used, logged out and revoked tokens are dead; a change of password ends every session |
| Allowances (`allowance_service.py`) | `allowances` rows | create, update, manual transfer | wallets, ledger, notifications; membership only at the creation | terms read without a lock while an update or a deactivation commits; credit failing after the debit | a transfer pays terms that were agreed at one moment, completely or not at all |
| Expenses (`expense_service.py`) | `expenses` rows | create, update, delete | wallets, ledger, membership | hourly limit read before the insert; the record linked by a late UPDATE; a deletion that overlaps the creation | money was deducted exactly if a record says so, and such an expense stays |
| Notifications | notifications | create (called), list, mark read, mark all read | all services | read state raced by new notices | told exactly what was committed |
| Rate limiter (`core/middleware.py`, `core/redis.py`) | a counter per address, kind of endpoint and minute; the lazily opened client | INCR, EXPIRE of the first, refusal with Retry-After | every request; Redis | INCR and EXPIRE apart, each failing or losing its answer, Redis losing its data, the minute turning in between | the limit holds, nobody is refused without cause, no key is left for ever but by a failure |
| Client data layer (`api_client.dart`, `token_manager.dart`, `auth_repository.dart`) | the two stored tokens, in-memory user | requests with one retry after a refresh, login, logout | authentication | several 401 answers at once, lost answers, two awaited writes per save and delete, the app killed in between | what is stored was neither traded in nor logged out, a session is lost only for a cause, a logout leaves nothing behind |
| Client screens | view state | rendering, list refresh | data layer | none of its own | - |
| Migrations, configuration, seeding | schema, settings | run once by one process | - | none | - |

## Modules

| module | models | depends on |
|---|---|---|
| `Ledger` | **abstract**: balances change only with a new permanent record of as much | - |
| `Wallets` | wallet rows under concurrent transactions: committed balance, each call's uncommitted change, the row-lock holder; `Credit`, `Debit`, `CommitWallets`, `RollbackWallets` | - |
| `FundRequests` | `fund_request_service.py` | extends `Wallets`, implements `Ledger` |
| `Tasks` | `task_service.py` | extends `Wallets`, implements `Ledger` |
| `SavingsGoals` | `savings_goal_service.py` | extends `Wallets` |
| `Families` | `family_service.py`, `invitation_service.py`, `invite_code.py` | - |
| `AuthTokens` | `auth_service.py` but for `register`: the refresh tokens and the password of one user | - |
| `ClientSession` | the app's half of a session: `api_client.dart`, `token_manager.dart`, logout of `auth_repository.dart`, with the part of `auth_service.py` one device sees | - |
| `MoneyCalls` | what the next three share: a call's question, steps, uncommitted rows, rollback | extends `Wallets` |
| `WalletOps` | `topup` and `exchange_pts` of `wallet_service.py` | extends `MoneyCalls` |
| `Allowances` | `allowance_service.py` | extends `MoneyCalls` |
| `Expenses` | `expense_service.py` but for `update_expense` | extends `MoneyCalls` |
| `Spending` | the composition: calls of the three interleave over the same wallets, members leave, workers die | extends `WalletOps`, `Allowances`, `Expenses` |
| `RateLimiter` | `RateLimitMiddleware` and `get_redis` | - |
| `MC*` | instances for TLC | the module of that name |
| `WalletsProofs`, `FundRequestsProofs`, `TasksProofs`, `SavingsGoalsProofs`, `FamiliesProofs`, `RateLimiterProofs`, `SpendingProofs` | lemmas, theorems and proofs | the module of that name |
| `SessionProofs` | the same | `AuthTokens` and `ClientSession` |

### How the code becomes state and actions

- A handler call is a process; `pc[call]` is the point between two database
  statements it has reached, and other calls run between any two of them.
  Statements whose effect nobody else can see or wait for before the commit
  (inserts of new rows, the UPDATE of a row already locked or of no interest to a
  lock waiter) are merged into the committing action.
- `balance` is committed; `delta[call]` is what the call changed and did not
  commit; `holder[user]` is the call that holds the wallet row.  A debit by another
  call is simply not enabled until the holder ends, and then sees its result: that
  is PostgreSQL's behaviour for an UPDATE that waits.
- `Rollback` is what `get_db` does on any exception or lost connection: deltas and
  locks disappear.  `CutOff` lets it happen between any two statements.
- A plain SELECT copies what the check needs (`seen[call]` in `Tasks` and
  `SavingsGoals`); later statements use the copy, and the ORM's UPDATE writes the
  columns the handler assigned, by primary key, and fails (StaleDataError) if the
  row is gone.
- A removed member (`family_service.remove_member`) can lose their membership
  between any two statements of a call of a money service.  Because a family has one
  parent, the second parent of `fund_requests` and `tasks` belongs to another family:
  that parent's reviews and approvals exercise the refusals.
- In `Families` a row is named by the call that inserts it, so a seat is a joining (or
  founding) call and an invitation an inviting call.  The only rows calls contend for
  are invitations: `join_family` updates one and then counts the seats again before it
  commits, so `locker` says which call holds it.  A late invitation is set to
  `expired` by a call that then raises, which `get_db` undoes: no committed row ever
  has that status, and `late` says whether `expires_at` has passed.
- In `AuthTokens` a token is named by the call that issues it and a password by the call
  that sets it; `checked[call]` is the password in force when the call read.  A
  statement over many rows (the DELETE of dead tokens in `login`, the UPDATE of all
  tokens in `change_password`) is two steps: it finds its rows, then waits until none
  of them is locked by another call; rows inserted in between are not among them.
- In `Spending` a question is one member of `Ask` (operation, sender, row or user it
  names, amount, currency, a flag), so that the three services share one kind of call.
  `work[call]` is what a handler has computed or read and still needs; a call that fails
  leaves neither behind; `versions[call]`
  is a history variable, the terms that were committed while a transfer was under way;
  `counted[call]` the expenses a call saw in its hourly sum.  `Write` commits a row of an
  allowance and shows its terms to the transfers under way.  `Worth` follows `exchange_pts`
  in its order and in Python's Decimal: the amount over the rate's points with 28 digits,
  rounded half to even (`Quotient` over `Places`), times the rate's money, rounded again if
  it has more digits (`Rounded`), and only then cut to cents.  100 PTS at 3 PTS = 3 IDR give
  99.99.  `Leading` is 10^27, the least coefficient of 28 digits, and `Power` the powers of
  ten that exponents name; `Lot` and `MaxIdrPerPts` are the two 100s of `exchange_pts`.
- In `RateLimiter` time is a minute and a second, and a call to Redis is one step whose
  answer may be lost whether or not it took effect.  `hits`, `timely`, `wiped` and `unset`
  only remember what happened, for the properties.
- In `ClientSession` every `await` ends a step.  A pair of tokens is named by the request
  whose refresh obtained it; `serving[request]` is the server at work on a refresh, which
  goes on when the client has given up.  A refresh token ends without the device's doing when
  it is seven days old or the password is changed on another device; no step of the app
  can tell before the server looks at it, so this is a choice at that look (`ReadLapsed`), and a
  token once found so stays so (`FoundLapsed`).  `alive` is what rotation and logout have
  left.  `unlucky`, `torn` and `lasting` remember a lost
  answer, a kill in the middle, and what a logout ran alongside.
- The reason of a fund request is data but for one bit, `long`: it decides whether
  the prefixed description fits its column (`fund_request_service.py:246`).
- Amounts are small naturals standing for cents; `MaxBalance` is the width of the
  balance column.
- Operators commented "Slip:" are plausible mistakes in the operator that follows
  them.  No specification uses them; replacing the original by the slip makes TLC
  refute the property named in `PROJECT.json`, "mutants".

## Runs

| run | instance | question and answer |
|---|---|---|
| `fund_requests` | 2 requests of one child, 2 reviews by the family's parent or by another family's, amounts 1 and 2, balances up to 3, limit 1 | every request is paid once or not at all, verdicts are final and told, uncommitted money is covered by locks, the service implements `Ledger`. Holds. |
| `tasks` | 1 task, 3 calls of any kind, the parent and one of another family, rewards 1 and 2 | what still holds without a row lock: no reward without submission, record and notice; a completed task names its own record; nothing is paid for a deleted task; the service implements `Ledger`. Holds. |
| `tasks_twice` | 1 task, 3 calls | one reward per task. **Violated**: submit, then two approvals that both read "submitted". |
| `savings_goals` | 1 goal, 3 contributions, updates or deletions, one wallet, under `FairSpec` | what contribute read under its lock stays true, no contribution overwrites another, milestones are told when crossed, refunds are recorded, and although contribute locks goal then wallet and delete wallet then goal every call ends. Holds. |
| `savings_goals_refund` | 1 goal, 3 calls | a goal's money comes back once. **Violated**: two deletions that both read the goal. |
| `spending` | a parent, a child, 3 calls of topup, exchange, allowance creation, update and transfer, expense creation and deletion | the records explain the balances but for what the code leaves unrecorded; exchanges never beat the rate or the cap, and each gives something and is at most a cent short of the rate; a transfer pays terms agreed at one moment; only overlapping calls pass the hourly limit; deducted exactly if recorded. Holds. |
| `families` | 1 founding, 2 invitations, 3 joins by 2 children, 1 removal, 1 cancellation, 2 codes, 2 seats | what does hold of joins that race: a family has its admin, a seat agrees with the invitation that gave it, joins sharing an invitation do not overfill, codes are unique. Holds. |
| `families_one` | 2 foundings, 2 parents, 2 joins, 2 children | "A user can only be in ONE family at a time". **Violated**: two calls that both find no membership. |
| `auth_tokens` | 2 logins, 2 refreshes, 1 logout, 1 change of password of one user | a used, logged out or revoked token is dead, a refresh needs the row of the token it replaces. Holds. |
| `auth_tokens_relogin` | 2 logins, 2 refreshes, 1 change | "Revokes all existing refresh tokens (force re-login on all devices)". **Violated** by a login or refresh that overlaps the change. |
| `client_session` | 2 requests and a logout, each of which may refresh | at rest the stored refresh token was neither traded in nor logged out, unless the app was killed in the middle; a session goes only by a logout, a lost answer, a refresh token past its time or ended by a change of password elsewhere, or two requests trading in the same token; a logout nothing ran alongside leaves nothing. Holds. |
| `rate_limiter` | 3 requests, 1 address, 2 kinds with a limit of 1, 2 minutes of 2 ticks | the limit holds unless Redis lost its data; a refusal has a full minute behind it; Retry-After leads past it; a key without TTL has a failure behind it. Holds. |

Every passing run of a module that has an inductive invariant `IInv` checks it too: it
contains the type invariant and the smaller facts (in `Families` for instance that codes
are unique and a family keeps its admin) that the other properties rest on.

Why the bounds are enough to be interesting: two calls are the smallest number
that race, a third provides what they race for (a submission before two approvals,
a contribution before two deletions) or undoes a decision; opening balances
(`MCOpening`) and amounts 1 and 2 against `MaxBalance` make both the insufficient
balance and the overflow of the credit after the debit happen; `MaxPending` is 1 so that
the second creation is refused when it counts late.  Goal targets 2 and 4 make a
contribution cross several milestones at once and exceed the target; amount 3 is over the
cap.  With one goal the goal limit refuses nobody (`GoalsOf` counts before the insert):
the limit has no property.
In `families`, 3 joins for 2 children and 2 invitations let two children share
an invitation while a third call takes another, and `MaxSeats` = 2 is the free plan:
the admin and one child.  In `auth_tokens` the second login cleans up what a refresh or
the change has revoked, while the other refresh still relies on it.
In `spending` (`MCAsk`, `MCRate`, `MCAgreed`) an exchange and a transfer can fill the
child's wallet, so that the next transfer's credit fails after its debit; Decimal has 4 digits
(`Leading` = 1000), so that at one rate, 6 points for 3, 8 points are 8/6 = 1.333 times 3 and
give 3 where the exact product is 4, and 1 point gives nothing; the other rate is over the cap; an update changes amount and currency
of the one allowance while a transfer reads it, another deactivates it; and an hourly limit
of 2 is passed by three expenses of which two overlap, the first seen by both.
In `rate_limiter` one request fills the minute, another is refused and a third comes in
the next, or sets the TTL late; with two ticks the TTL of the first tick and of the second
differ.  In `client_session` two requests find the same expired token while the logout
does, and each can win, lose, lose its answer, or find its token lapsed; two logouts are not distinguished.
Symmetry is used only in runs without liveness, over calls (and creations) that no
formula tells apart.

### Fairness

`SavingsGoals` assumes weak fairness of the steps of a handler
that has started: the worker's event loop keeps executing it, and a statement
waiting for a row lock gets it once the holder has ended (the holder ends because
its own steps are fair).  The step that breaks a deadlock is
among them: PostgreSQL's detector runs after `deadlock_timeout`.  Nothing is
assumed to arrive, to be cut off, or to leave a family.  It is the module where
liveness is in question: the other services lock their rows in one order, or none.

## What is proved

For every number of calls, users, currencies, amounts, goals, requests and minutes, under
the named assumptions of the modules (`WalletsAssumption`, `FundRequestsAssumption`,
`TasksAssumption`, `SavingsGoalsAssumption`, `FamiliesAssumption`, `AuthTokensAssumption`,
`RateLimiterAssumption`, `ClientSessionAssumption`, and `MoneyCallsAssumption`, `WalletOpsAssumption`,
`ExpensesAssumption` and `SpendingAssumption` for the composition: disjoint sets of calls,
parents and children, positive limits and targets, opening balances within bounds,
finitely many founding and joining calls, questions that name an allowance or expense where
the endpoint takes one, standing allowances of a parent for a child; and `PrecisionAssumption`, that the
digits and exponents of Decimal suffice for what can be asked: six times amount times money
of the rate stays below 10^27, which the 10 digits of `ExchangePtsRequest` and DECIMAL(12,2)
of the rate keep by far):

- `WalletsProofs`: what credit, debit, commit and rollback preserve, stated once
  (types, bounds, and that only the lock holder has an uncommitted change).
- `FundRequestsProofs`: `IInv` is inductive (`Invariance`).  The properties alone are
  not: that an approval pays exactly what was asked needs to know how much of the
  transfer a review has performed when it commits (`InFlightIsTransfer`), that the
  request it read is still pending (`DecisionStaysValid`), that this is so because it
  holds the row, and which calls exist at all (`CallsInStep`).  From it:
  `TypeCorrect`, `NeverOverdrawn`, `PaidExactlyOnce`, `VerdictsAreTold`,
  `DecisionsStayValid`, the action property `ReviewsAreFinal`, and `ImplementsLedger`
  (each commit is one `Post` of the abstract module, every other step a stutter).
- `TasksProofs`: the same argument without a lock.  `InFlightIsReward` ties the
  uncommitted credit to the reward the call *read*, and `CallsInStep` carries over
  from the read only what cannot be undone since (the submission was told).  This is
  enough for `ImplementsLedger`, `RewardsAreTold`, `CompletedArePaid` and
  `PaysOnlyExisting`; it is not enough for one reward per task, which is false.
- `SavingsGoalsProofs`: `IInv` adds to `ReadingStaysValid` what each call has in flight
  (`InFlightIsMove`: the contribution it has debited, or the refund as it *read* it) and
  which calls have posted (`CallsInStep`).  A lemma states once what a step of one call
  owes to the others (`LeavesOthers`: it writes no goal that somebody else has locked).
  `WhoWrites` reduces the three action properties to the two commits, and there
  `ContributionsAllCount`, `RefundsAreRecorded` and `MilestonesAllMatch` follow from what
  was read still being the committed row.  Nothing says that a refund happens once.
- `FamiliesProofs`: `IInv` of `Families` is inductive.  `OneInvitationWithinSeats`
  needs to know that a join between its flush and its commit holds the lock of its
  invitation, that one about to commit has counted a free seat, and that nobody else
  with the same invitation can have taken that seat since (`CallsInStep`); the count of
  all seats of a family bounds the count of those given by one invitation plus the
  admin's (`SeatsByBelowSeats`).  `AdminStays`, `JoinsMatchInvitations`,
  `OneInvitationNeverOverfills` and `CodesStayUnique` follow.  That the seats of all
  invitations together stay within the plan is false, so no theorem says it.
- `SessionProofs`, for `AuthTokens`: `IInv` says besides the properties which call holds the lock of
  which token (`LocksInStep`) and that no refresh past its read relies on a token that
  the change whose password it read had found (`PasswordsInStep`); this is what makes
  `ChangesEndTokens` inductive.  The action property `RotationsNeedRows` follows from the
  same invariant: only its own commit issues a refresh's token.
- `SessionProofs`, for `ClientSession` (its `SessionInv`): a dead token in the storage is
  always about to be replaced or deleted, by the refresh that traded it in or the logout
  that named it, unless a kill stopped them (`DeadIsReplaced`).  It holds because nobody
  knows a pair before its refresh token is saved (`KnownOnceSaved`), so what is being saved
  is still alive (`GrantedStands`), whichever of several refreshes saves last; `KeptTokenWorks`
  follows.  A token that somebody holds died by being traded in or in a logout
  (`DeadForCause`), so a refresh that is denied has a cause, and with it every deletion
  (`LossHasCause`, hence `LostForCause`); a token found lapsed is a cause of its own
  (`ReadLapsedStep`).  For `LogoutClears`, either somebody who was there
  while a logout cleared has run since, or the storage is empty and no refresh is under
  way (`AloneClears`).  One step lemma (`WalkStep`) covers the sixteen actions that leave
  the stored refresh token and the refreshes of others alone.
- `RateLimiterProofs`: a TTL set in a key's minute never ends within it, so a counter
  starts over in its own minute only when Redis loses its data.  Hence the counts given
  out under a key are distinct and at most the counter, and the admitted ones inject into
  `1 .. Limit` (`LimitAlwaysHolds`); every count is backed by as many counted requests
  (`RefusalsHaveCause`).  `RetriesAreLater` and `KeysAreNotForgotten` follow from `IInv`.

- `SpendingProofs`: the composition of `WalletOps`, `Allowances` and `Expenses`.  None of
  its properties is inductive: `IInv` adds what every call has in flight, as a function of
  its statement (`InFlightIsMove`); what a call past a statement knows (`InStep`: the price
  of an exchange is its worth at the rate, the terms a transfer read are among the terms of
  its time); that rows are there exactly once their calls have committed (`RowsInStep`);
  and what an hourly sum contains (`CountsRight`: with each deduction whatever that one
  had counted and is still recent).  A step of one call leaves the others alone
  (`LeavesOthers`) and may only add to the rows they look at (`KeepsRows`); `QuietInv` then
  treats the statements before the last at once and `FinishInv` the commits, which owe a
  record, or a known omission, for what they moved (`Books`).
  From `IInv`: `BalancesExplained`, `TransfersAsAgreed`, `DeductionsRecorded`, `Covered`;
  `NeverAboveRate` bounds each exchange (`PricedFacts`) and then their sum.  Rounding half
  to even may go up, so that a bound is not evident: the errors of the quotient and of the
  product together stay below the 1/`pts` cent by which an amount that is not on a cent can
  lie below the next one (`ErrorsAreSmall`), hence the cut to cents removes them
  (`CutFacts`, `WorthAtFacts`).  The lemmas on Decimal rest on `LeastFacts`, that a set of
  naturals has a smallest member.
  `LimitKept` finds, among deductions of which each pair saw each other at least one way,
  one that counted all the others (`OneCountsAll`).

Sums over sets (`SumFunctionOnSet` of the community modules) would need induction on finite
sets, and the induction theorems of the library take an operator as a parameter.
`SpendingProofs` does without: strict inclusion is well-founded on the subsets of a finite
set, so any set of such subsets has a smallest member (`SmallestSet`), and each lemma on
sums refutes a smallest counterexample (`TotalExists`, `SumStep`, `SumTakeOut`, `SumSame`,
`SumScaled`, `SumLarger`).  `Call` may be infinite; that only finitely many calls have come
is part of the invariant (`FinitelyMany`).

Only model-checked: liveness (`EveryCallEnds`), because ENABLED and fairness are out of the
prover's reach.

## Disagreements found

- **Sessions after a change of password** (`auth_service.py:282`): a refresh or a login that
  overlaps the change inserts a token its UPDATE does not see.  Likewise a logout does
  not end a session whose refresh has already read the token, and two refreshes with
  one token both get a successor (the token itself is dead afterwards: `RotatedIsDead`).
- **Pending limit** (`fund_request_service.py:55`): count and insert are not atomic, so two
  creations that both count exceed "Check pending request limit (max 10)".  No run: the
  two steps `CountPending` and `InsertRequest` are all there is to see.
- **Reward paid twice** (`task_service.py:388`): no row lock in the task service, though
  `fund_request_service` and `contribute` have one.  The same gap lets a task be
  rejected after its reward was paid, a late submit reopen a completed task, a paid
  task be deleted, and a reward be edited after the submission.  The `tasks` run keeps
  to what survives all of these.
- **Refund twice** (`savings_goal_service.py:183`): delete reads without a lock, credits,
  then deletes; a DELETE of no row only warns.  A contribution that commits between the
  read and the delete is neither kept nor refunded.
- **Seats** (`invitation_service.py:205`): "Post-insert seat verification (defense against
  race condition)" sees committed rows and the call's own.  Two joins with different
  invitations each see only their own seat and both commit; only joins that share an
  invitation take turns (`OneInvitationWithinSeats`).  No run of its own.
- **Two families** (`family_service.py:102`, `invitation_service.py:175`): the membership
  check is not atomic with the insert, and the unique constraint that
  `models/family.py:9` mentions does not exist in the models or the migrations.
- Also visible in `Families`, without a run of its own: an expired invitation stays
  "sent" (the exception undoes the update) and counts against the pending limit; a
  cancellation that waits for a join cancels an invitation that was accepted, and a join
  that read "sent" accepts one that was cancelled (`AcceptedTookSeat` says what is left).
- Also visible in `SavingsGoals`, without a run of its own: `update_goal` compares the
  new target with an amount it read without a lock (`savings_goal_service.py:85`), so a
  goal can end above its target, and the next contribution is then debited in full
  and *lowers* the goal to the target (`Capped` in `ContributionsCount`).

- Visible in `Spending`, none with a run of its own: the hourly limit
  (`expense_service.py:67`) is passed by expenses that overlap (`LimitUnlessOverlapping`
  says what is left) and its sum adds both currencies; the "IDR only" of
  `expense_service.py:8` is nowhere enforced; a transfer looks neither at the membership of
  the child nor of the parent; `update_allowance` accepts PTS where the creation insists on
  IDR; two updates of one allowance can commit a row that nobody asked for, each its own
  columns; an exchange divides before it multiplies and so can be a cent short of the rate
  (`ExchangedAtRate`); topup and exchange outside a family leave no record, and an exchange records
  only the points; the second of two simultaneous creations of an allowance meets the
  unique constraint and gets a server error instead of the conflict that the check before
  it would give.
- Visible in `RateLimiter`: `get_redis` awaits the ping before it stores the client, so
  requests that arrive together when the attempt at startup (`main.py:54`) had failed each
  open one, and all but the last leak (`core/redis.py:45`).  The middleware's docs speak of
  auth paths; only login and register are counted as such.
- Visible in `ClientSession`: the app has no lock around its refresh, so requests that fail
  together trade in one token, and with rotation the losers clear what the winner saved
  (`LostForCause`); a logout whose access token has expired refreshes first and then still
  names the old token in its body, so the server keeps the new pair alive.

## Not modelled, and why

- Listing and reading endpoints change no state.
- `register` (a user and a wallet in one transaction), `update_expense` and marking
  notifications as read write rows that no other modelled step depends on.
- Subscriptions: the row is read by nothing else; `families.max_seats`, which joins
  compare with, is a constant of `Families` because no plan change touches it.
- Rounding of contributions with more than two decimals: amounts are whole cents; only
  the rounding of exchanges is modelled, with Decimal's 28 digits.  The cap compares the cents
  credited with 100 times the amount exactly, where the code rounds their quotient: a
  quotient of two such amounts that is not 100 differs from it by far more than 28 digits
  can hide.
- Whether the commit precedes the response (it depends on the installed FastAPI).  For the
  client it is one more way of not knowing what the server did, which `ClientSession` has
  as `GiveUp` and `Fail`.
- The clocks of the application and of Redis are one; `close_redis` and the health check's
  ping are left out.
- One device per user in `ClientSession` (another one's change of password is only the
  refusal it leads to, `ReadLapsed`), and no liveness there: the app promises to give
  up after 15 seconds, not to succeed.
- A change of an allowance's currency alone sends no notice in the code;
  `EditAllowance` always sends one, and no property looks at those notices.
- Foreign keys and cascades: no modelled operation deletes a user or a family.
- Screens, migrations, configuration, seeding: no interleaving or failure of their own.

## Plan

Done: `Ledger`, `Wallets`, `FundRequests`, `Tasks`, `SavingsGoals`, `Families`,
`AuthTokens`, `RateLimiter`, `Spending` (with its four modules) and `ClientSession`, all with
proofs.  In order of importance, what remains:

1. A weaker `Ledger`, with the records that the code omits, that `SavingsGoals` and
   `Spending` implement (today their `ContributionsCount`, `RefundsRecorded` and `Explained`
   say so), as `FundRequests` and `Tasks` implement `Ledger` itself.
2. `ClientSession` composed with `AuthTokens` in place of its short server half: two
   devices, a change of password on one of them.
3. A composition of the money services over one set of wallets, for lock order across
   services.
4. `Accounts`: register and the profile; `Subscriptions`: default plan, upgrade, cancel.
