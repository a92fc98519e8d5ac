# A TLA+ model of the event reward system

The repository is a NestJS system of three processes: a **gateway** (HTTP), an
**Auth service** and an **Event service** (TCP messages), the two services with
their documents in MongoDB.  Operators create events and rewards, users take
part in events and ask for rewards, operators decide the requests, and an
approval issues the rewards.  This directory models the handlers that change
state, checks them with TLC on small instances, and proves the central
properties for instances of every size with TLAPS.

Paths below are relative to `src/apps` unless they start with `src/`.

## 1. Inventory

### Components, their state and operations

| component | state | operations | modelled |
|---|---|---|---|
| Event rules (`event/src/event.service.ts` 449-488) | none | `verifyEventCondition` | `EventRules` |
| Reward requests (251-399, 490-553) | `RewardRequest`, `UserReward`, `Reward.issuedQuantity` | `createRewardRequest`, `updateRewardRequest`, `issueRewards` | `RewardRequests` |
| Participation (580-654, 674-737) | `EventParticipation`, `Event.participantCount` | `createParticipation`, `getParticipationStats` | `Participation` |
| Event administration (43-69, 103-156) | `Event` | `createEvent`, `updateEvent` | `EventAdmin`; in the two modules above, the write of `updateEvent` is `ChangeEvent` |
| Reward administration (159-190, 214-248) | `Reward` | `createReward`, `updateReward` | `EventAdmin`; `UpdateReward` of `RewardRequests` |
| Event log (555-578) | `EventLog` | `createEventLog` | `EventAdmin`, as far as it tells events and rewards |
| Refresh tokens (`auth/src/auth.service.ts` 42-85, 189-303) | `RefreshToken` | `login`, `refreshToken`, `revokeToken` | `RefreshTokens` |
| Accounts and access tokens (22-157) | `User`, signed JWTs | `create`, `login`, `validateToken`, `updateUserRole` | `Access` |
| Gateway guards (`gateway/src/users/guards`, `gateway/src/common/guards`) | `request.user` | `JwtAuthGuard`, `RolesGuard` | `Access` |
| Gateway health status (`gateway/src/health/health.service.ts`) | `serviceStatus` | startup check, a report with each call | `ServiceHealth` |
| Gateway proxies (`gateway/src/events`, `gateway/src/users`) | the calls that wait for an answer | one message per HTTP request, a limit on `validateToken` | `ServiceHealth` |
| Queries, bootstrap, Swagger, database module | none | `find*`, wiring | no |

### How they interact

The gateway verifies the caller (`JwtAuthGuard` asks the Auth service, with a
limit of 5 seconds, and otherwise trusts the token), checks the role
(`RolesGuard`), and forwards the body as one TCP message.  When the answer or the
error arrives, the gateway writes whether the service is up.  The Event service has
no `ValidationPipe` and trusts the user id it is sent.  Inside a service a
message is handled by one asynchronous function, and every `await` on a database
call lets the other functions in flight run.

### What is hard

* No handler uses a transaction, a lock or a conditional update.  Read, check
  and write are separate calls, and calls of different handlers interleave.
* A call can fail, or the process can stop, between any two of them, and nothing
  is rolled back or resumed.  Users and operators then repeat what they did.
* What a handler read at its start (the event, the request's status, the user)
  may be stale when it is used.
* Status changes are not restricted: `updateRewardRequest` writes any status
  over any other.
* The gateway believes an old token when the Auth service is slow, and validates
  a request twice, with a role check between.
* The status of a service is written by the startup check and by every call that
  ends, in whatever order; only some calls limit how long they wait.
* `updateEvent` announces a change of status before it writes it, from a document
  that other operators write meanwhile, and a log entry that fails is given up.

`PROJECT.json` lists each of these at its line under `hazards`, with the
properties that would catch it going wrong.

### What makes each component correct

* **Reward requests**: what is stored asks for rewards of its event, each once;
  a user does not collect open requests for the same reward; an approved request
  is an issued one, unless an operator reopened it; the rewards of a request are
  issued in order, each a bounded number of times, and counted; an approval that
  began ends.
* **Participation**: where an event forbids several participations there is one;
  `participantCount` follows the records; a report is ordered like its queries.
* **Refresh tokens**: one session per user, the last one begun, one exchange per
  token, what is delivered works.
* **Access**: who is served had the role the route asks for recently enough;
  roles change only on behalf of an admin; the last admin is lost only by calls
  that overlap.
* **Service health**: after the startup check the status is what the last answer
  said; an outage that a call meets is noticed; no error marks a service down for
  good.
* **Event administration**: the latest version of each event and reward has its
  log entry; an event shows no status that was not announced; updates lose no
  participation that was counted.

Most of these are what the code promises only when calls run one at a time.  The
modules state what is true with K calls in flight, K being the number of
`Handlers`: with K = 1, as in `RewardRequests_serial`, a bound is the exact promise.
Where less is needed the condition is named.  For refresh tokens it is enough that
the calls of that user never overlapped, and `overlapped` remembers the users for
whom this is not so.  What a reopened request breaks is said of all requests but
those in `reopened`.

## 2. Plan

| order | module | status |
|---|---|---|
| 1 | `EventRules`, `RewardRequests`, `RewardRequestsProofs`, `RewardIssuingProofs` | done |
| 2 | `RefreshTokens`, `RefreshTokensProofs` | done |
| 3 | `Participation`, `ParticipationProofs` | done |
| 4 | `Access`, `AccessProofs` | done |
| 5 | `ServiceHealth`, `ServiceHealthProofs` | done |
| 6 | `EventAdmin`, `EventAdminProofs` | done |
| 7 | `RewardLedger`, `Sessions`: what `RewardRequests` and `RefreshTokens` promise, and the refinements | done |
| 8 | `EventService`, `EventServiceProofs`: `RewardRequests` as the environment of the statistics in `Participation` | done |

Every invariant and action property that a passing run checks is proved; what is
left to TLC is liveness.  `Access` and `RefreshTokens` share the clock and the users,
but neither reads what the other writes, so their composition would add no
behaviour.

## 3. Modules

All modules share one shape.  `Handlers` are the calls in flight; `call[h]` is
`Idle` or a record whose `pc` names the database call that the handler awaits
and whose other fields are its local variables.  The step that starts a handler
includes its first query, since nothing is shared before it.  Each later call to
the database, with the code up to the next one, is one action.  MongoDB applies
an operation on one document atomically; `updateMany` is one step when it
succeeds and updates any subset when it fails (`CountFails`, `RevokeAllFails`).
`Fail(h)` ends a handler where it is: an error of the driver, or a crash.  `Tick`
advances the clock.
Definitions marked *Mutant* in a comment are not part of a model: each is a
plausible slip that the property checks must detect, and replaces the definition
after it.

**EventRules** - the pure rules: `IsActive`, `VerifyEventCondition`.  An event
document keeps the fields that the handlers read; verification data is the set
of proofs that are truthy.

**RewardRequests** - variables `events`, `rewardEvent` (the `eventId` of each
reward), `requests`, `userRewards` (the number of `UserReward` documents per
request and reward: nothing updates or deletes them), `issuedQuantity`, `now`.

| action | code (`event.service.ts`) |
|---|---|
| `CreateRewardRequest` | 251-260: reads the event |
| `FindRewards` | 262-285: counts the rewards found, judges the event it read |
| `FindExisting` | 287-297: looks for an open request that overlaps |
| `SaveRequest` | 299-326 |
| `UpdateRewardRequest` | 328-372: reads the request, decides whether to issue |
| `IssueRewards` | 490-506: rereads the request, skips the issue if APPROVED |
| `IssueReward` | 508-541: one turn of the loop |
| `CountIssued`, `CountFails` | 543-552 |
| `WriteStatus` | 374-399: writes the status that was asked for |
| `ChangeEvent`, `UpdateReward` | 103-156, 214-248: operators edit events and rewards |

`rewardIds` are sequences, so a request may name a reward twice.  The counter is
compared with `Documents(r)`, the numbered `UserReward` documents of a reward;
`StepsLeft(h)` is how many calls to the database a handler makes at most before it
answers.

An operator may send any of `OperatorStatuses` for any request (`NoStatus` is an
edit without a status), whatever its status is when the handler reads it: nothing in
328-399 compares the two.  So a closed request can be opened again, also by two
operators who decide it together: one rejects it, the APPROVED of the other then
finds it REJECTED, 342 skips the issue, and 388 writes APPROVED with nothing issued.
The history variable `reopened` holds the requests for which an operator sent PENDING
or APPROVED when the handler read them as closed; `ApprovedIsIssued`,
`OpenRequestsBounded`, `ApprovalCompletes` and the ledger say what holds of all
others, and so that this is the only way to break them.  `belonged` holds the events
each reward ever belonged to, for `StoredRewardIdsValid`.

Two properties need operators to behave in a way that they name.  `QuantityLedger`
needs that nobody sends `issuedQuantity` (`NoOverwrites`), which 227-231 writes over what
was counted.  `GrantsBounded` needs that nobody sends PENDING and no call fails
(`SteadyOperation`): a PENDING sent for a request that was read as PENDING can
overtake an approval and put a request back whose rewards were issued, and an
approval that failed after its loop leaves its request PENDING for the next.

**RewardLedger** - what `RewardRequests` promises seen from outside: requests that
are asked (`Submit`), rewards that are issued (`Issue`), statuses that are decided
(`Decide`) and requests that are reopened (`Reopen`), with `Limit` open requests of a
user for a reward, and APPROVED only once everything is issued; of a reopened
request the last two are not promised.  `Ledger` in `RewardRequests` maps `asked` and
`status` to the documents, `issued` to the rewards with a `UserReward`, and `Limit` to
`Cardinality(Handlers)`; `LedgerSpec` is the refinement.

**RefreshTokens** - variables `tokens`, `delivered` (what clients know), `now`,
and the history variables `exchanged` and `overlapped` (the users who sent a call
before the last one ended).  `Login` and `Refresh` (42-74, 214-251) start a handler
that goes through `RevokeAll`, `Insert` (`generateRefreshToken`, 189-211) and `Finish`
(the answer; a refresh first saves the old token as revoked, 253-265).
`RevokeAllFails` is a failed `updateMany` (191-194), which may have revoked some of
the user's tokens.  `Logout` and `Revoke` are `revokeToken` (275-303): `Logout` answers
at once for a token that is revoked already (287-289).  All calls may overlap.
`SingleSession`, `SingleExchange`, `DeliveredLive` and `LatestSession` are about users
who always waited for an answer before the next call, as with one device; the
calls of others run meanwhile, and a failed call ends.

A logout does not end every session: after two logins, a logout with the token
of the first finds it revoked, answers success, and the second stays open.  So the
property is `LatestSession`: what is open is the session begun last.

**Sessions** - what `RefreshTokens` promises: tokens that are issued to a user,
work until they are revoked, become known to clients, and are exchanged for
another of the same user.  `Abstract` in `RefreshTokens` maps its variables to the
stored tokens, `delivered` and `exchanged`; `SessionsSpec` is the refinement.

**Participation** - `CreateParticipation`, `FindExisting`, `SaveParticipation`,
`CountParticipant` (580-654); `GetParticipationStats`, `CountUnique`,
`CountByDay`, `CountRequests`, `CountApproved`, `Respond` (674-737), the report
being built in the handler's locals.  `participations` holds the records under
ids; two history variables say what the records do not: `limited`, the records
saved by calls that read `allowMultipleParticipation = false`, and `lost`, the calls
that failed between saving a record and counting it.  Reward requests appear as two
counters per event that the environment moves (`RequestSaved`, `RequestApproved`,
`RequestRejected`).

**EventService** - shows that `RewardRequests` is such an environment.  It maps the
two counters to what `countDocuments` finds among the stored requests (715-723)
and the clock and the events to those of `RewardRequests`; `RequestsCounted` says
that every step is then one of `Participation`.  So what is checked and proved of
reports holds of the requests that the handlers really write.

**EventAdmin** - variables `events` and `rewards` (the documents), `log`, and the
history variables `lost` (entries whose save failed) and `joined` (participations
counted).  The fields that no handler compares are one field `body`.

| action | code (`event.service.ts`) |
|---|---|
| `CreateEvent` | 43-61: inserts the event |
| `UpdateEvent` | 103-112: reads the event, compares the status sent |
| `LogStatus` | 112-124: announces the change; an error is swallowed |
| `WriteEvent` | 126-149: `findByIdAndUpdate` with the fields sent |
| `CreateReward`, `SaveReward` | 159-183: reads the event, inserts the reward |
| `UpdateReward`, `WriteReward` | 214-241: reads the reward, writes the fields sent |
| `SaveLog` | 555-574: the entry at the end of each handler |
| `CountParticipant` | 631-634: the increment of `createParticipation` |
| `NotFound`, `Fail` | 105-109; a call that fails, or a crash |

**Access** - variables `role` (the users collection), `tokens` (the access tokens
signed), `now`, and the history variable `lostAt`.  A request runs through
`Arrive` (the gateway verifies the token), twice `ValidateToken` or `FallBack`
(the Auth service answers, or the guard takes the role from the token) with
`RolesGuard` after the first and, on some routes, after the second, and is then
served.  `Routes` are kinds of routes that differ in `Roles` and `UseGuards`:
`updateUserRole`, `operate` (operators and admins), `audit`, `requestReward`, and
`own` (no role).  `UpdateUserRole`, `FindTarget`, `SaveRole` are the three calls
of `updateUserRole`; `Register` and `Create` those of `create`, whose second
relies on the unique index of `email`.

**ServiceHealth** - variables `serviceStatus`, `startup` (which service the check
asks, and its answer), `running` (whether each service runs), `wire` (the answers
under way on each connection, in order), `call`, and the history variable
`latest`, the last answer that the Event service sent since the startup check ended.
`SetsUp` and `SetsDown` say which answers to which kind of call move the status:
`EventsService` treats all calls alike, `UsersService` each in its own way.

| action | code (`gateway/src`) |
|---|---|
| `AnswerProbe`, `ReceiveProbe`, `TimeOutProbe` | `health/health.service.ts` 64-112: the startup check, with its limit |
| `Send` | `events/events.service.ts`, `users/users.service.ts`: `client.send` |
| `Reply`, `Disconnect` | what the service's controller answers; the error of a closed connection |
| `Receive` | `tap` and `catchError`, or the code after the `await` |
| `TimeOut` | `users/users.service.ts` 101-135: the timer of `validateToken` wins |
| `Stop`, `Start` | a service stops and runs again |

**MC\*** modules give TLC the instances: operators and events as named sets, and
the symmetry sets.  Symmetry is used for safety runs only.

## 4. Runs

Passing runs:

| run | bounds | shows |
|---|---|---|
| `RewardRequests_serial` | K=1, 1 user, 2 events, 2 rewards that move between them, any of 4 reward lists, events that pause and end, failures | `TypeOK`; a submission stores only rewards of its event, each once; the user opens at most one request per reward; the loop issues in order, also when it failed and is repeated; the counter of issued rewards never runs ahead |
| `RewardRequests_open` | K=2, 1 user, 3 requests, PENDING, APPROVED, REJECTED or no status sent for a request of any status, failures | at most K open requests, and APPROVED implies issued, but for reopened requests; every step is one of `RewardLedger` |
| `RewardRequests_issue` | K=2, 1 user, 2 requests for 2 rewards that move between 2 events, APPROVED, REJECTED or no status sent, weak fairness, no failures | each reward issued at most K times, in order; the counter is exact; requests are the environment that `Participation` assumes; each step of a call leaves it fewer; an approval that began completes unless its request was reopened |
| `RefreshTokens_race` | K=2, 2 users, 4 tokens, expiry, failures | `TypeOK`; users whose calls never overlapped have one session, the last begun, exchange a token once, and receive tokens that work; at most K sessions per user and K exchanges per token for all; every step is one of `Sessions`: no token is revived or given to another user |
| `Participation_race` | K=2, 2 users, 3 records, an event that pauses and whose limit is switched, failures | `TypeOK`; at most K records saved under the limit; `participantCount` accounts for every record; a report is ordered |
| `Access_race` | K=2, 2 users of whom one is the only admin at first, tokens that expire, late answers | `TypeOK`; who is served; on whose behalf roles change; that only a call whose caller was demoted while it ran takes the last admin away |
| `ServiceHealth_race` | 2 calls of every kind and the startup check, services that stop and restart at any time, fairness | `TypeOK`; the status is what the last answer said; a service that stops under a call is marked down, even when it runs again by then; no error sticks |
| `EventAdmin_race` | K=2, 2 events, 1 reward, 2 statuses, 2 bodies, 3 entries saved or lost before the last calls begin, failures | `TypeOK`; versions are logged; statuses are announced; participations are kept |

Each bound lets the property's bad case happen. The bound K is reached in the
runs that interleave: `RewardRequests_duplicate`, which states the bound 1 of
the documentation, is violated with K = 2. There are more requests, tokens or
records than handlers, so a count above K could occur. Two entries of
`EventAdmin` are what a pair of overlapping updates writes, and the third
follows them; two calls of `ServiceHealth` can be answered in either order and
time out on each other. Each property has a mutant of the code, listed in
`PROJECT.json`, that the same run reports. Expiry, pausing, failures of
`updateMany` (`CountFails`, `RevokeAllFails`) and late answers happen in the runs that
enable them.

Why the smaller bounds are enough:

* ISSUED and CANCELLED are sent in no run: every handler compares a status with
  PENDING and APPROVED only, so they are what REJECTED is.
* One user is enough for reward requests: the duplicate check compares only
  requests of the same user, and no other step looks at the user.
* `MaxApprovals = 1` in `RewardRequests_open` still lets two approvals that both read
  PENDING issue together; a later one issues a reward that is issued already, which
  neither `AllIssued` nor the ledger can tell.  `RewardRequests_issue` and
  `RewardRequests_serial` repeat approvals.
* Four tokens are one more than two overlapping calls of one user and one call of the
  other need; a user alone can log in, refresh, fail and log in again.

Runs that TLC must find violated, each a statement of the documentation or of a
comment that the code does not keep:

| run | statement | what happens |
|---|---|---|
| `RewardRequests_duplicate` | `src/README.md:82` prevents duplicate requests | two submissions pass each other between the check and the insert |
| `RewardRequests_reissue` | `src/README.md:230` prevents duplicate rewards | an approved request is rejected and asked for again |
| `RewardRequests_partial` | `src/README.md:229` issuing is atomic | the save of the second reward fails after that of the first |
| `Participation_success_rate` | `event.service.ts:719` a share of the requests | a request is approved between two queries |

Atomic issuing holds without failures (`IssuedTogether` in section 6).  With them
a request is left issued in part, and what remains is `IssuedInOrder`: however often
approvals fail and are repeated, a reward is issued at least as often as the next one
in its list, for the loop always begins at the first.

## 5. Fairness

`RewardRequests_issue` uses `FairSpec`: `WF_vars(HandlerStep(h))` for each
handler.  A handler's step is the continuation of an awaited database call, the
driver resolves or rejects each call, and the event loop runs every continuation.
Starting new calls, operators' edits and the clock have no fairness.  The run has
no failures, since a failed approval is simply not completed.

`ServiceHealth_race` uses a `FairSpec` with weak fairness of what the gateway itself
does: its timers fire (`TimeOut`; `TimeOutProbe`, unless the answer came first), its
event loop handles what a connection delivers (`Receive`), and a connection that
closed or was refused fails the calls that wait on it (`Disconnect`).  Services
need not answer, stop or start, and clients need not call: `Recovers` names the calls
and answers it needs as its hypothesis.  That the limited waits end is this assumption
itself and no property.

Neither run uses symmetry, which would not be sound for a liveness property.

Deadlock is checked in every run: a handler that is idle can always start
something or be refused, or a document be edited.

## 6. Theorems

Proved by TLAPS for all values of the constants that the named assumptions allow
(`FiniteAssumption`, `InputAssumption`, `TimeAssumption`, `TokensAssumption`,
`UsersAssumption`, `BoundsAssumption`, `OperationsAssumption`).

`RewardRequestsProofs`:

* `TypeCorrect`: `Spec => []TypeOK`.
* `ApprovedIssued`: `Spec => []ApprovedIsIssued`.  The property is not inductive
  by itself.  The strengthening says of each handler between the decision to
  issue and the write of the status how far the loop is: every reward before its
  position is issued; and that a handler about to write APPROVED has issued all
  of them, or has read a request that was APPROVED, or that it reopened.
* `OpenBounded`: `Spec => []OpenRequestsBounded`.  The invariant counts, for each
  user and reward, the open requests together with the handlers that have passed
  the duplicate check and not yet saved.  A handler that passes the check found
  no open request, so the sum is then the number of such handlers.  Requests in
  `reopened` are not counted; a write can open only these or what was open.
* `StoredIdsValid`: `Spec => []StoredRewardIdsValid`.  `ListsValid` says the same of
  the lists that handlers are about to save; it rests on the lemma that a list
  which is as long as the set of rewards found names each of them once.
* `IssuedTogether`: `~Failures => (Spec => []IssuedAtomically)`, whatever statuses
  operators send: the condition under which what `RewardRequests_partial` refutes is
  true.  `LoopInside` keeps a handler's position within its list,
  `GrantedIssued` that what the loop has passed has a document, and `PartsHeld` that
  a request issued in part is one that a handler is in the loop of.
* `GrantsBound`: `Spec => []GrantsBounded`.  `GrantInv` counts the handlers that
  have issued a reward for a request (`Giving`) and those that are going to
  (`Owing`).  While the request is PENDING, its documents are those of `Giving`, so
  documents and `Owing` are at most the handlers; once it is decided no approval
  that issues begins, and each turn of a loop moves one from `Owing` to the
  documents.
* `LedgerRefined`: `Spec => LedgerSpec`, from the invariants above: `OpenBounded`
  gives the ledger's limit, `ApprovedIssued` what `Decide` asks for, and an
  `UpdateRewardRequest` that reopens is the ledger's `Reopen`.

`RewardIssuingProofs`, which continues them:

* `QuantitiesCounted`: `Spec => []QuantityLedger`.  The invariant is the equation,
  for each reward, between the counter, the approvals between their loop and
  their count (`InFlight`) and the documents; `LoopDone` adds that a handler which
  is about to count has been through its whole list, so that the `updateMany`
  counts what it issued.  Lemmas say that one more `UserReward` makes the set
  `Documents(r)` one larger, and that a list which names each reward once makes a
  handler enter `InFlight(r)` just when it saves the document of `r`.  A failure
  takes a handler out of `InFlight` and leaves an inequality.
* `CallsEnd`: `Spec => CallsAdvance`.  `LoopInside` makes every step of a handler
  lower `StepsLeft`, and no other step changes it, since no step changes the list of
  a stored request.  With `ApprovedIssued` this is the safety half of
  `ApprovalCompletes`: what the run adds is that fairness makes the steps happen.
* `IssuedOrdered`: `Spec => []IssuedInOrder`.  `OrderInv` is the same of any two
  neighbours in a list, and that nothing is issued for what is not stored.  A turn
  of the loop adds one to a reward and puts its handler between that one and the
  next (`Between`), which makes room for the turn after it; a failure only takes a
  handler away.  It needs that a list names each reward once (`ListsValid`).
* `NoDuplicates`: `OneAtATime => (Spec => [](reopened = {} => NoDuplicateRequests))`,
  and `IssuedOnce`: `OneAtATime /\ SteadyOperation => (Spec /\ [][CarefulStep]_vars =>
  []IssuedOncePerUser)`.  These are the two statements of the documentation that
  `RewardRequests_duplicate` and `RewardRequests_reissue` refute: the theorems say
  under which conditions they are true.  The first is `OpenBounded` with one
  handler.  In the second, `CarefulStep` says that no operator reopens a request,
  takes an approval back or moves a reward; `OnceInv` says that a request with a
  `UserReward` asks for it and is still open, and that the only call there is writes
  over the status that it read; so a user's documents of a reward belong to open
  requests, of which there is one.

`EventServiceProofs`:

* `RequestsAreCounted`: `Spec => RequestsCounted`.  A save adds one element to the
  requests of one event, a write of a status adds or removes one of its APPROVED
  ones, which are a proper subset before one is added; nothing else moves them.

`RefreshTokensProofs`:

* `TypeCorrect`: `Spec => []TypeOK`.
* `SessionsBound`: `Spec => []SessionsBounded`.  The invariant `SessionsCounted`
  adds to a user's unrevoked tokens the calls that have revoked and are about to
  insert: `RevokeAll` sets the first part to zero, `Insert` moves one from the
  second part to the first.
* `ExchangesBound`: `Spec => []ExchangesBounded`.  `ExchangesCounted` adds the
  exchanges under way, and keeps that a token which was exchanged once is revoked
  for good, so that no exchange begins after the first has ended.
* `SessionsRefined`: `Spec => SessionsSpec`, from the two bounds and an invariant
  that ties what a handler holds (the token it exchanges, the one it inserted) to
  the user of the stored tokens.
* `OneSession`: `Spec => []SingleSession`, `OneExchange`: `Spec => []SingleExchange`,
  `DeliversLive`: `Spec => DeliveredLive`, and `LatestOpen`: `Spec => []LatestSession`, all
  of users outside `overlapped`, from the invariant `ApartInv`: such a user has one call
  under way at most, one unrevoked token, and none while a call is about to insert
  one; the token that a call is about to answer with works; a token under
  exchange was not exchanged before.  A step of one user's call leaves the tokens of
  all others alone.  For the last theorem `LatestInv` adds that no token expires later
  than one that would be inserted now.

`ParticipationProofs`, which covers every invariant of `Participation_race`:

* `TypeCorrect`: `Spec => []TypeOK`.
* `ParticipationsBound`: `Spec => []ParticipationsBounded`.  The invariant
  `LimitCounted` adds to the records saved under the limit the calls that have
  passed the check under it and are about to save.  A call that passes found no
  record of its user at all, so the sum is then the number of such calls.
* `LedgerBalanced`: `Spec => []ParticipantLedger`.  The equation is inductive: a
  save adds a record and a counting call, which the increment or a failure moves
  to one of the other two terms.
* `ReportsOrdered`: `Spec => []ReportOrdered`.  The invariant `ReportsCounted` keeps
  that what a report has counted is at most what is stored by now; records are
  only added, and the users of a set of records are no more than the records.

`AccessProofs`, which covers every property of `Access_race`:

* `TypeCorrect`: `Spec => []TypeOK`.
* `RequestsAuthorised`: `Spec => []ServedAuthorised`, `OnlyAdminsChangeRoles`:
  `Spec => RoleChangeAuthorised`, and `LastAdminRemains`: `Spec => AdminRemains`, all
  from one invariant, `HeldInv`: no role was lost in the future; every token was
  signed with a role that its user had then or later; and of each call in flight, what its
  step needs (the password is compared within a tick, the first verification
  happened while the token was accepted, the role that admitted a request or a
  role change was held recently enough, nobody is the target of their own call).
  The lemma `HeldGrows` says that the time at which a role was last held never
  moves back, so what was recent enough for a waiting call stays so.
* `RoutesChecked`: `Spec => []ServedRoleChecked`.

`ServiceHealthProofs`:

* `TypeCorrect`: `Spec => []TypeOK`.  That each answer under way belongs to one
  waiting call needs lemmas about sequences without duplicates: what appending,
  taking the head and removing an element leave.
* `LastAnswerCounts`: `Spec => []LatestAnswerCounts`.  The strengthening says of the
  last answer under way, or of the status once none is, that it is what the Event
  service last answered; the order of the connection carries it along.

`EventAdminProofs`, which covers every invariant of `EventAdmin_race`:

* `TypeCorrect`: `Spec => []TypeOK`.
* `ChangesAnnounced`: `Spec => []StatusAnnounced`.  `AnnouncedInv` adds that what an
  update is about to write is announced already: by its own entry, or because it is
  the status that was read.  It needs that no entry is forgotten: each one is
  saved, lost or pending.
* `LatestLogged`: `Spec => []VersionsLogged`, inductive with the same lemma.
* `CountsKept`: `Spec => []CountKept`.  `CountedInv` adds that an event that is not
  stored has no participations.

Only model-checked: liveness under fairness (`ApprovalCompletes`, `OutageNoticed`,
`Recovers`), which is out of the prover's reach.

## 7. Not modelled, and assumptions

* Queries, Swagger, bootstrap and the database module (section 1).
* `pingService`, `isServiceAvailable` and `getServicesStatus` of the health service,
  which nothing calls.  The health endpoints read both statuses and change
  nothing; the gateway's own health proxies touch no state.
* The log entries about requests, issues and participations, which copy the call
  that writes them.  An update with an empty body is covered by one whose only
  field is `body`.
* A restart of a service takes longer than the gateway needs to see that its
  connections closed.
* Passwords: `Login` is a login with the right one; a wrong one changes nothing.
* `autoReward`, `maxParticipants` and `totalQuantity` are stored and read by no
  handler, so no limit on quantities exists to check.
* Names, values, metadata and expiry dates of rewards, copied into `UserReward`.
* In `RewardRequests`, rewards exist from the start (`EventAdmin` creates them);
  nothing deletes documents.
* Operators send well-typed bodies: a DTO's fields, with any combination of the
  optional ones.  In `UpdateReward` these are `eventId` and `issuedQuantity`.
* A tick of `Access` is of the order of the lifetime of a token, and longer than
  the comparison of a password between the read of a role and the signature.
* The bounds `RequestIds`, `Tokens`, `MaxApprovals`, `ParticipationIds`,
  `MaxRequests`, `MaxTokens`, `MaxEntries`, `MaxParticipants` and `MaxTime` cap
  what TLC explores; the theorems hold for every value of them.
