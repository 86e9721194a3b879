# Population service: specifications, model checking and proofs

The repository is a Go service (`cmd/server`) over PostgreSQL and Redis that
keeps a register of citizens and households: officers of wards, districts and
provinces enter and edit citizens, enrol them in households, and move them from
one household to another through an approval workflow. This directory holds
TLA+ specifications of it, TLC configurations for small instances and TLAPS
proofs. Its core is **the household transfer workflow and everything that
writes the tables it writes**; around it are the citizen registry with its
audit log and lists, the sessions and access tokens of an account, the posts of
its officer, the rate limiter, and the row locks and the connection pool the
workflow runs on.

## 1. Inventory

| Component | Source | State | Operations | Talks to |
|---|---|---|---|---|
| Administrative scope | `transfer_service.go` (helpers), `pkg/jwt` | none (pure) | approval level, tickets, escalation target, "may this officer act here" | used by the workflow |
| Transfer workflow | `transfer_service.go`, `transfer_repository.go`, `008`/`009` SQL | `transfer_requests`, `transfer_approvals`, `residence_histories` | create, approve, reject, force-approve, escalate | households, citizens, audit |
| Households and members | `household_repository.go`, `008` SQL | `households`, `household_members` | create household, add member; leave and join inside a transfer | workflow |
| Citizen registry | `service/citizen`, `citizen_repository.go` | `citizens` (some columns encrypted) | create, PATCH, soft delete, queries | audit; its address columns are also written by transfers |
| Authentication and sessions | `auth_service.go`, `user_repository.go`, `pkg/jwt`, `pkg/middleware/auth.go` | `users`, `refresh_tokens`, blacklist in Redis | login, refresh (rotation), logout, change password, deactivate | every protected route |
| Rate limiter | `pkg/ratelimit`, `pkg/redis` | one Redis counter per caller and window | allow | every route |
| Officer assignments | `assignment_service.go`, `admin_unit_repository.go`, `010` SQL | `user_assignments`, `admin_units`, `role_permissions` | assign, end, officer at a time, permission | audit reading |
| Audit log | `audit_service.go`, `audit_repository.go`, `007` SQL | `audit_logs`, `audit_visibility` | insert (with visibility), list by scope | written by registry and workflow |
| Connection pool | `cmd/server/config.go` | 25 connections | acquire, release (implicit) | every statement |
| Router and handlers | `cmd/server/router.go`, `internal/handler`, `pkg/response` | none | HTTP binding, role lists | all |
| Field encryption | `pkg/crypto` | keys | encrypt, deterministic encrypt | registry |
| Statistics, province lists, seed data | `citizen/stats.go`, `province_repository.go`, `scripts` | none | read-only queries, data | - |

What is hard in it, and what makes each part correct:

* **Transfer workflow.** Each HTTP request runs in its own goroutine, and only
  the bodies of `WithTx` are transactions: creating a request, the override and
  the escalation job commit statement by statement, with other handlers in
  between. *Correct when:* a request moves its citizen at most once; never
  without the units that must approve; one refusal stops it; a pending request
  always waits for somebody; a decision is final.
* **Households.** Nothing stops a citizen from being a member of two
  households; the only constraint is one active row per (household, citizen).
  *Correct when:* moving is indivisible, nobody drops out of the register, and
  the citizens row says where its household is.
* **Citizen registry.** PATCH reads the whole row and writes the whole row
  back, without lock or version. `national_id` is checked for duplicates and
  then inserted, without a UNIQUE constraint. No handler opens a transaction,
  and the audit row follows its change in a statement of its own. *Correct
  when:* an update changes only what was sent; two citizens share a
  `national_id` only where calls raced; what is deleted stays deleted; the audit
  log invents nothing, misses nothing (it misses creations and deletions, see
  section 5) and replays to the row.
* **Lists.** A page is one SELECT with LIMIT and OFFSET over rows that come, go
  and tie; one audit row with a NULL snapshot fails its page. *Correct when:* a
  reader who comes to the end has seen what was there all along, and gets there.
* **Sessions.** Refresh is find, revoke, reload the user, save - four
  statements. Locking an account, changing its role or its password revoke in
  between; the first two change the row before they revoke, the last after. The
  blacklist is ignored when Redis is down. *Correct when:* a token and its
  successor are never both good; a token yields one successor; a revocation
  leaves no session with a right or a password that is gone.
* **Access tokens.** They carry the account's role and units as the call that
  signed them had read them, bcrypt or a round trip earlier; nothing but their
  end and a blacklist in Redis stops them, and Redis may be away or forget.
  *Correct when:* a logout lasts; powers taken away end within one token's life
  and that call's delay; a locked account is shut out.
* **Rate limiter.** INCR and EXPIRE are two calls, and either can fail, or run
  unheard and be repeated by the client library. *Correct when:* a bounded
  number of calls pass per window, a deadline is put off by nothing but such a
  repeat, and every counter expires.
* **Assignments.** Closed intervals of dates, no exclusion constraint, and a
  copy of the officer's role. *Correct when:* who was in charge of a unit on a
  day does not change afterwards, and the role is the one of that moment.
* **Audit visibility.** *Correct when:* exactly the units on either side of a
  move see its rows.
* **Row locks and connection pool.** Decisions lock rows in an order the calls
  do not agree on, and `ApproveTransfer` holds its transaction's connection
  while it asks the pool for another (`GetByID`, the audit insert). *Correct
  when:* what interleaves is as if it had not, and every call ends.

`PROJECT.json` lists every hazard at its line, with the property that would see
it go wrong.

## 2. Modules

| Module | Models |
|---|---|
| `AdminScope` | The geography (three codes per household, **no hierarchy assumed**, because the schema ties none of them to another) and the pure decisions on it. |
| `HouseholdRegister` | Abstract specification: what the workflow promises, in five actions, without tickets, handlers, deadlines or transactions. |
| `TransferWorkflow` | The workflow, the household endpoints, and the writes to the address columns of `citizens` (PATCH, soft delete, transfers). EXTENDS `AdminScope`, instantiates `HouseholdRegister`. |
| `MCTransferWorkflow` | The small country TLC explores. |
| `TransferTx` | Decisions, overrides and the second ticket insert statement by statement: row locks, READ COMMITTED, rollbacks, PostgreSQL's deadlock detector, the pool. Instantiates `TransferWorkflow`, which it implements up to one exception. |
| `CitizenRegistry` | POST, PATCH and DELETE on `/citizens` statement by statement: duplicate check, deterministic encryption, masked snapshots, audit rows; transfers as somebody else who writes. |
| `CitizenListing` | EXTENDS `CitizenRegistry`: a reader pages through citizens or audit rows while they change. |
| `AuthSessions` | One account: its `users` row, its `refresh_tokens` rows, the logins and refreshes in flight, and the operations that lock it or change its role or password. |
| `AccessTokens` | EXTENDS `AuthSessions`: access tokens, the middleware, the blacklist and a Redis that goes away and crashes, a clock, `UpdateUser` in its two statements. |
| `OfficerPosts` | EXTENDS `AccessTokens`: `user_assignments` of the account's officer, and the questions asked of it. |
| `RateLimiter` | `Limiter.Check` and the Redis counter of one key. |
| `MCTransferTx`, `MCCitizenListing` | What the calls of the two statement-level models are sent to do. |
| `MCAuthSessions`, `MCRateLimiter`, `MCOfficerPosts` | Their symmetry sets (and two scopes). |
| `TransferWorkflow_proofs`, `AuthSessions_proofs`, `RateLimiter_proofs`, `OfficerPosts_proofs`, `CitizenRegistry_proofs`, `CitizenListing_proofs`, `TransferTx_proofs` | Theorems and TLAPS proofs. |

What interacts is composed: the pool, the locks and the workflow (`TransferTx`
over `TransferWorkflow` over `HouseholdRegister`); the registry, its audit log
and its readers; sessions, access tokens and posts, which meet in the `users`
row. What a session claims (a role and unit codes) is an officer of
`TransferWorkflow`, whose officers are every possible claim. The rate limiter
shares nothing with the rest.

### How `TransferWorkflow` corresponds to the code

**One step of the model is one commit of the program.**

* A handler that works on the pool commits each statement, so it is several
  actions with a program counter: `creating[r]` for `CreateTransferRequest`
  (validate, INSERT the request, INSERT the source's ticket, INSERT the
  destination's, or execute at once within a ward), `forcing[a]` for
  `ForceApproveTransfer` (read and audit; execute), `patching[e]` for
  `PATCH /citizens/:id` (read and apply; write all columns), `listed`/`marked`
  for `EscalateExpiredRequests` (list; per row, mark; ticket and audit row).
* The body of `WithTx` is one action. `ApproveTransfer` locks the request with
  `FOR UPDATE`. The inserts that refer to that request (`transfer_approvals`,
  and `residence_histories` of an override) take a key-share lock on it through
  their foreign key, and the job's UPDATE a row lock, so each of them waits for
  the transaction and re-reads after it. Two executions for one citizen that
  hold no common request lock meet on the member row, the unique index or the
  citizens row. How far one step per body is true is what `TransferTx` checks
  and its theorems prove; the exception is described there.
* A transaction that rolls back leaves nothing, so it is no step (or only the
  step of its handler's counter). A statement that fails outside a transaction
  and a server that stops leave the same thing, what was committed before:
  the `Abandon...`, `SkipRequest` and `StopJob` actions.
* Constraints of the tables are guards or conditions where statements meet
  them: the CHECK on `unit_role` and on the audit `action`, UNIQUE
  `(request_id, unit_code)`, the partial unique index on active members,
  `WHERE deleted_at IS NULL`, `WHERE status='pending'`.

| State | Column or variable |
|---|---|
| `registered`, `members` | rows of `households`; active rows of `household_members` |
| `residence`, `deleted` | address columns and `deleted_at` of `citizens` |
| `transfer`, `status`, `ticket`, `overdue`, `escalatedTo` | `transfer_requests` and `transfer_approvals` |
| `history`, `audit` | count of `residence_histories` rows of a request; workflow rows in `audit_logs` |
| `edited`, `forced` | history variables: addresses a PATCH has changed since the last move; requests executed by an override |

Abstracted: ids, names, reasons, timestamps, encryption; ordering by time is
kept only as "the deadline has passed". `approval_level` is a column in the
table and a function of the immutable codes of the two households here
(`Level`): no code updates a household. The environment (`DeadlinePasses`, who
calls what with which arguments) is unconstrained. `ApproveTransfer` accepts any
`decision` the CHECK constraint accepts, so `"pending"` is a legal decision that
changes nothing; the required `reject_reason` is not modelled. An officer is
the pair of a role and the unit code of that role in the JWT.

### How `TransferTx` corresponds to the code

One step is one statement. The tables are what is committed; `did[k]` is what
the open transaction of call `k` has done, which nobody sees before `Commit`
publishes it, except through the row locks it implies (`Holds`). `pc[k]` is the
statement that comes next, `conn` the calls whose transaction has a connection.

* *Locks.* `Conflict` is PostgreSQL's table for the three modes that meet here.
  `FOR UPDATE` takes "update"; an UPDATE of a column no key uses takes
  "no_key_update"; a foreign key takes "key_share" on the row it refers to. The
  unique index makes an insert into `household_members` wait for a concurrent
  insert or removal of the same active row. A statement waits until no other
  transaction holds what it wants, then looks again at what is committed.
* *READ COMMITTED.* Reads see the tables as committed, and their own
  transaction's work. A removal does not see a row somebody else has only
  inserted, so it neither waits for it nor removes it.
* *Ends.* `Commit`; `Rollback` where the code returns an error (request no
  longer pending, no undecided ticket, duplicate member); `GiveUp` for a client
  that leaves or a statement that fails, at any point; `DeadlockAbort` for a
  cycle of lock waits.
* *Pool.* A statement on the pool needs a free connection for its moment; a
  transaction keeps one. The two `GetByID` of households and
  `InsertWithVisibility` run on the pool while the transaction is open.

`StepsAreAtomic` states the refinement: each step is a stutter or one step of
`TransferWorkflow`, unless it is a `MissedRemoval`. That one is real: of
two opposite moves A to B and B to A of a citizen who lives in A, executed at
once, the second finds no row to remove in B while the first is about to commit
one, waits for the first at the unique index of A, and inserts: the citizen is
in both households. No order of the two bodies gives that. `CallsEnd` is discussed
under fairness.

### How `CitizenRegistry` and `CitizenListing` correspond to the code

`pc[k]` is the statement call `k` runs next: `start` (the look of a create, or
the read of a PATCH or DELETE), `apply` (the duplicate check of a PATCH and the
new values), `write`, `audit` (the audit row is built), `insert` (and inserted).
`copy[k]` is the row it read or built, `before[k]` the snapshot it took of it,
and `stamp[k]` the `changed_at` of the audit row it is about to insert. Everything else a request does (binding,
responses) follows from these.

| State | Column or variable |
|---|---|
| `citizens`, `deleted` | rows and `deleted_at`; `nid` is the ciphertext of `national_id`, `place` stands for every column a PATCH writes without a check |
| `audit`, its field `at` | `audit_logs` in the order of their INSERTs; `changed_at` |
| `now`, `created` | `created_at`, as far as rows are told apart by it |
| `SeedLog` | row 0 of the audit log, left by a seed script, with a NULL snapshot |
| `query`, `page`, `ended`, `failed`, `seen` | what a reader asks for, how far they are, whether a page could not be read, what they were given |
| `met`, `giver`, `mixed`, `lost`, `was`, `early`, `left` | history variables |

A ciphertext is its plaintext, with an IV where it was random: equal
`national_id`s are found equal only if both were encrypted deterministically. A
snapshot is decrypted and masked, so two numbers may look alike in it. SQL
compares by `deleted_at IS NULL` everywhere, and `UPDATE ... WHERE` that matches
no row is `sql.ErrNoRows`. The audit row is inserted on `context.Background()`:
it is the one statement a client that leaves does not end. A creation has no old
snapshot and a deletion no new one; `helpers.go:65-76` leaves those a nil
`json.RawMessage`, lib/pq v1.10.9 sends it as an empty string, and `jsonb`
refuses that. So `Insert` adds a row only if both snapshots are JSON (`IsJSON`),
that is for updates, and the log begins with the first update of a citizen.
`changed_at` is taken when the row is built (`writeAuditLog`), so the order of
the INSERTs is not that of the list, which is sorted by `changed_at`. In the
other direction, a NULL that the table does hold cannot be scanned into
`json.RawMessage`, and the page fails (`PageFails`). The reader's page is one
SELECT; rows that tie on the order are given in any order, another one each
time. A `page_size` out of range becomes the default. The handlers of a list
change nothing.

### How `AuthSessions` corresponds to the code

No method of `authService` opens a transaction, so every statement is an action
and `call[c].at` / `admin[a].at` say which one comes next.

| State | Column or variable |
|---|---|
| `active`, `scope`, `password` | `users.is_active`; role and unit codes; `password_hash` |
| `token`, `expired` | rows of `refresh_tokens` (none, `revoked_at IS NULL` or not); `expires_at` has passed |
| `call` | `Login` (between reading the user and INSERTing the token) and `Refresh` (find; revoke; load the user; INSERT) |
| `admin` | `SetActive`, `UpdateUser` (the row, then the tokens), `ChangePassword`, `ResetPassword` (the tokens, then the row), `LogoutAll` |
| `parent`, `session`, `raced`, `quiet`, `sealed` | history variables |

`RefreshLoad` reads the user by id and so takes a locked one; `Login` does not.
`UpdateUser` may write any scope: the partial update of role and codes is
abstracted to its result. Errors the code discards (`RevokeFails`, `StopAdmin`
after the row) and errors or crashes it does not (`StopCall`) leave what was
committed. `Register` issues no token. Access tokens are in `AccessTokens`.

`sealed` is what a revocation of all tokens can promise: it met no login or
refresh in flight and the account has not changed since (or, for a password,
it changed before anybody logged in again). `SealedAccountHasNoStaleSession`
says that in that case it has no live token of a locked account, with an old
scope or begun with an old password. Without the condition the property is
false in this code: a login that has read the account before a lock saves its
token after it.

### How `AccessTokens` and `OfficerPosts` correspond to the code

Every access token comes with a refresh token, so `access[t]` is the one that
came with `t`: the scope it was signed with and when it expires. Reading the
account and signing are two steps with the clock between them: `Read` is
`FindByUsername` or `FindByID`, `Sign` is `GenerateAccessToken`, after bcrypt in
a `Login` and after the round trip in a `Refresh`; `issueTokenPair` then saves the
refresh token and hands both out. Administrators may change the account anywhere
in between, and the row is not read again. `took[t]` remembers how long it was
from the reading to the signing, and `StalePowersEnd` gives the bound that this
leaves: whoever gets in claims a role and units the account had less than
`AccessTTL + took[t]` ago. Only the one call that issued the token counts; how
many refreshes led to it, and how long each took, does not. Nothing in the code
bounds `took[t]` but the client's patience. A lock that met no call in flight
needs no such term (`LockShutsOut`).
`JWTAuth` is the middleware: the token's end, and the blacklist if
Redis answers (an error lets the request pass). `Logout` is three steps, the
request let in, the refresh token revoked, the key set with a full `AccessTTL`.
`RedisAway` is an outage or a crash; after a crash Redis has what its last
snapshot had (`--save 60 1` in `docker-compose.yml`). `UpdateUserLook` and
`UpdateUserWrite` are the two statements of `UpdateUser`: a body without a role
writes back the one that was read. The clock of the model ends far below a
refresh token's seven days, so `TokenExpires` of `AuthSessions` is left out of
this composition, and the run of `AuthSessions` has it.

`post[i]` is a row of `user_assignments`; `AssignUser` reads the user and then
inserts, `EndAssignment` updates an open row. Dates are any, in any order: an
assignment can end before it starts (then it holds for no day), and the day on
which one ends and another starts has two officers. Assignments decide nothing:
what an officer may do is in the `users` columns that tokens are signed with.

### How `RateLimiter` corresponds to the code

`Check` is INCR and everything decided from its answer; `CheckUnheard` is an INCR
that ran and whose reply was lost, after which the client library repeats the
command or `Check` fails open. `Expire` is the second command; `ExpireUnheard`
is one that ran and whose reply was lost, so that it may run again, and again,
until a reply is heard or the library gives up (`Expire`, `ExpireFails`). EXPIRE
sets the TTL whether the key has one or not, so a repeat puts off a deadline that
stands; a copy of the command that Redis executes only after the library has
given up is one more repeat. `Tick` is Redis's clock and the deletion of keys.
Reading the TTL for `Retry-After` changes nothing. Requests that pass because
Redis reported an error are not counted by anybody and are not counted here.
Redis is assumed not to lose a key within a window (`docker-compose.yml` takes
snapshots, so a Redis that restarts may).

`Patience` is the time after its first run in which an EXPIRE can run again.
`PatienceIsShort` says it is less than the window, and is an assumption about
time limits, not a consequence of the code. The shortest window of
`middleware.go` is one minute. `pkg/redis` leaves `MaxRetries` at go-redis's
default of three, with at most half a second before each, and limits dialling to
5 s, reading and writing to 3 s each; ordinarily that is a few seconds in all,
but four tries that each wait out every limit, with the pool's, come near a
minute. What rests on it: that an EXPIRE meets the counter its own request has
begun (`OneRequestSetsTheTTL`) and what a repeat does (`OnlyRepeatsMoveDeadlines`).
A repeat a window late would give its TTL to a later counter; with `Patience` as
long as `Window`, TLC finds that. `AnyWindowAdmitsTwiceTheLimit` does not rest on
it: no EXPIRE, however late, brings a deadline nearer than a window from now.

## 3. Runs

The runs of `MCTransferWorkflow` have wards w1 and w2 in one district of one
province, w3 in another province, a household in each. The approvals of ward
level and of province level are both reached, as are same-ward moves (from a
household to itself) and re-moves back. The district level takes the same code
path as the ward level, with other columns; the proofs cover it.

| Run | Shows |
|---|---|
| `requests` (1.2 M states, about 1 min) | Two requests for one citizen, all officers, an administrator and the job. `TypeOK`, `PendingAwaitsADecision`, `RefusalStops`, `SourceConsents`, `MovesOnce`, `ClosedTakesNoDecision`, and that the workflow implements `HouseholdRegister` (`KeepsThePromise`). |
| `households` (2.6 M states, about 75 s) | Two requests against manual enrolment, soft deletes, and PATCHes. `ResidenceFollowsHousehold`, `NobodyLosesTheirHousehold`. |
| `sessions` (5.1 M states, about 160 s) | Three tokens, two logins or refreshes and one administrator in flight, two scopes, two passwords. `TypeOK`, `RotationRetiresTheParent`, `OneSuccessorUnlessRaced`, `SpentTokensStaySpent`, `SealedAccountHasNoStaleSession`. |
| `rate_limiter` (248 k states, 5 s) | Three requests at once, limit 2, window 2, patience 1, clock up to 7, counter up to 4. `TypeOK`, `AnyWindowAdmitsTwiceTheLimit`, `OneRequestSetsTheTTL`, `OnlyRepeatsMoveDeadlines`. |
| `transactions` (79 k states, about 40 s) | Three calls out of seven (approve as source, as destination, refuse, a decision "pending", override either request, insert the late ticket) on two opposite requests of one citizen, from three registers, pool of three. `TypeOK`, `NoLostDecision`, `StepsAreAtomic`, `CallsEnd`. |
| `citizens` (0.9 M states, about 170 s) | Fourteen scenarios of three calls on five citizens, a transfer, and a reader. `TypeOK`, `TwinsComeFromRaces`, `DeletedIsFinal`, `AuditIsTrue`, `AuditReplays`, `PagesMissNothing`, and under fairness `EveryUpdateIsAudited`. |
| `access` (3.1 M states, about 3 min) | Two tokens, two logins or refreshes and two administrators in flight, two roles, Redis outages and crashes, two assignments over three days. `PostTypeOK`, `LogoutLasts`, `StalePowersEnd`, `LockShutsOut`, `HistoryIsSettled`, `UnnamedRolesAreCurrent`. |
| `escalation`, `early_completion`, `partial_update`, `counter_lives_on`, `creations_untold` | Each finds the behaviour of one finding of section 5. |

*Bounds.* Two requests are what it takes for one request to make another stale
(the citizen leaves the source, joins the destination twice). One citizen,
because no statement relates two citizens. One administrator and one PATCH in
flight are enough to race everything else; two overrides of one request are
still possible one after the other, up to `MaxMoves = 2` executions per
request, and the proofs hold for any number. Three tokens are a parent and the
two successors a race gives it, or a line of three; two calls are a race. The
clock of `rate_limiter` sees three windows and the counter goes two past the
limit, so counters are refused, deleted and begun again; a patience of one tick
in a window of two is the longest `PatienceIsShort` allows there. Requests, citizens,
administrators, editors, tokens, calls and callers are interchangeable
(`SYMMETRY`); the runs that use symmetry check safety only.

In `transactions`, two opposite requests are the least that lock in opposite
orders; three calls are an approval that races another one while an override
waits; three connections are three transactions that leave nothing to the pool.
In `citizens`, three calls are two that race and one that has seen them; the
scenarios pair every two kinds of call on one citizen or one number. Scenarios
that compete for numbers have no reader and those with a reader compete for
nothing, which keeps them small; of those, two add audit rows while the log is
read, one of them with the seed script's row in it; page sizes are below, at and above the bounds
(2 by default, 3 at most). A citizen two calls have worked on is not moved by a
transfer again (`UpdateResidence`). In `access`, `AccessTTL = 2`, a clock up to 4
and four calls see a token signed, powers taken away, the token expire and a
refreshed one expire; the three bounds `MaxTime`, `MaxCalls` and `MaxMoves` are
guards of the models.

*Deadlock* is not checked: requests, moves, calls, tokens and clock ticks are
finite, so a run of each model ends. Where calls may wait for each other for
ever is asked by `CallsEnd` instead.

*Fairness.* Two models state it, and both need no more than that goroutines
run.

* `TransferTx` has `WF(Step(k))`: the runtime runs a goroutine whose statement
  can go on, and a statement that waits for a lock or a connection goes on once
  it can; and `WF(DeadlockAbort(k))`: PostgreSQL looks for cycles after
  `deadlock_timeout`. Nobody is assumed to give up. `CallsEnd` then says every
  call ends unless the state is `Wedged`: all connections are with transactions
  that each wait for one more connection, or for a lock of one of the others.
  The exception is real and is what remains of the pool hazard: the requests
  have no timeout, so 25 approvals at that point end only when their clients
  leave. Weak fairness is enough because a waiting statement is disabled only
  while somebody holds what it wants, and holders end.
* `CitizenRegistry` has `WF(Step(k))`; `EveryUpdateIsAudited` needs it for the
  audit insert, which no client can cancel. Failures of the insert and answers
  that are lost are in the model and named in the property (`lost`).

The other models assume none and claim no liveness. An unanswered request being
escalated depends on a cron job that nothing in `cmd/` starts.

## 4. Proofs

`TransferWorkflow_proofs` proves, for every geography, every set of citizens,
officers, requests, administrators and editors and every bound, from the named
assumptions of the modules only (the codes of households are unit codes,
officers are claims, seeds are a register, markers are fresh values):

| Theorem | Statement |
|---|---|
| `TicketsAreForTwoUnits` | The two tickets of a request are for different units, so the unique index never refuses the second one. |
| `TypeCorrect` | `[]TypeOK` |
| `OpenRequestsAwaitADecision` | `[]PendingAwaitsADecision` |
| `OneRefusalStops` | `[]RefusalStops` |
| `NoMoveWithoutTheSource` | `[]SourceConsents` |
| `EachRequestMovesOnce` | `[]MovesOnce` |
| `AddressAndHouseholdAgree` | `[]ResidenceFollowsHousehold` |
| `DecisionsAreFinal` | `ClosedTakesNoDecision` |
| `MovingIsNeverHomeless` | `NobodyLosesTheirHousehold` |
| `WorkflowKeepsThePromise` | `KeepsThePromise`: every step is a step of `HouseholdRegister` or a stutter |

The argument is one inductive invariant, `IInv == Typing /\ Safety`.

* `Typing` is `TypeOK` with two facts typing needs: a request whose handler has
  started has its columns (`Described`), and rows exist exactly for requests
  past their INSERT, for whatever the job, an override or a deadline refers to
  (`RowsExist`).
* `Safety` is the safety invariants and `TicketPlan`, which ties the tickets to
  the program counter of the handler that writes them: there is none until the
  source's is inserted, there is one while the destination's is to come, and
  wherever there is a ticket there is the source's. It is what makes
  `SourceConsents` inductive: "all existing tickets are approved" implies the
  source's approval only if the source's ticket exists, that is, because it is
  inserted first.

Steps that leave the workflow's tables alone (PATCH, household endpoints, the
job) are dismissed together by the lemma on `core`; the rest has one lemma per
action. Every theorem about a property is obtained from `IInv`.

`AuthSessions_proofs` proves, for every number of tokens, calls and
administrators and any scopes and passwords:

| Theorem | Statement |
|---|---|
| `TypeCorrect` | `[]TypeOK` |
| `ParentsAreRetired` | `[]RotationRetiresTheParent` |
| `FamiliesAreLines` | `[]OneSuccessorUnlessRaced` |
| `SealsHold` | `[]SealedAccountHasNoStaleSession` |
| `SpentIsForGood` | `SpentTokensStaySpent` |

from `IInv == TypeOK /\ Families /\ Sealed`. `Families` adds what a refresh in
flight knows (`CallsKnow`: past its second step its token is revoked) and
`OneInLine`: a token nobody has raced for has one holder or one successor, never
both. Without it "one successor" is not inductive, since a holder may be about to
issue the second one. `Sealed` adds the same for accounts: a revocation that met
nobody leaves nothing live and nothing in flight (`QuietIsEmpty`), and what is in
flight on a sealed account will issue what the account says
(`SealedCallsAreCurrent`).

`RateLimiter_proofs` proves, for every limit, window, number of callers and
bound of clock and counter:

| Theorem | Statement |
|---|---|
| `TypeCorrect` | `[]TypeOK` |
| `OneSetterAtATime` | `[]OneRequestSetsTheTTL` |
| `DeadlinesHardlyMove` | `OnlyRepeatsMoveDeadlines` |
| `AtMostTwiceTheLimit` | `[]AnyWindowAdmitsTwiceTheLimit` |

`OneSetterAtATime` and `DeadlinesHardlyMove` assume `PatienceIsShort`, which is a
hypothesis in their statement; the other two do not. They rest on `SetterInv`:
while an EXPIRE can run, first or again, its counter is there, and a deadline it
has set lies between a window after its first run and a window after its last
possible one, so it outlives the patience. Nobody else can have a count of 1
before that counter is gone.

The bound follows from three facts of its invariant. No two admissions of one
life of the counter have the same place (`PlacesDiffer`), so a life admits at
most `Limit`. When a counter is gone, or once its deadline is set, the
admissions of the lives before it are, or will at that deadline be, a window
old (`EarlierIsOld`), because no deadline is earlier than a window after the
first count. So admissions two lives apart are a window apart
(`LivesLastAWindow`), and a window meets two lives at most.

`OfficerPosts_proofs` proves, about `AccessTokens` and `OfficerPosts`, for every
number of tokens, calls and administrators, every life of an access token and
every set of roles, units and days:

| Theorem | Statement |
|---|---|
| `PostsRunSessions` | `PostSpec => Spec`: the composition runs `AuthSessions`, so the five theorems above hold of it |
| `PostTypesHold` | `[]PostTypeOK` |
| `LogoutsLast` | `[]LogoutLasts` |
| `PowersEnd` | `[]StalePowersEnd` |
| `LocksShutOut` | `[]LockShutsOut` |
| `HistorySettles` | `HistoryIsSettled` |
| `UnnamedRolesStay` | `UnnamedRolesAreCurrent` |

The invariant is `PInv`, which takes `IInv` of the sessions as it stands. Powers
end because `EndsAreBounded` follows them from the account into the call that has
read it (what the call has read the account had no earlier than `read[c]`), and
from there into the token: none ends later than one life and `took[t]` after the
account last had what it claims. A statement about
tokens alone is not inductive, since the next token is already in a call.
`KeysOutlive` (a key lives at least as long as its token), `ShutEnds` (what a
sealed account has given out ends a life after the lock) and `LooksAreCurrent` (an
update nobody came between knows the role) do the rest. Assumed besides what
`AuthSessions` assumes: a role and some units make a scope, times are positive
numbers, "no post" is no post.

`CitizenRegistry_proofs` proves, for every set of citizens, numbers and calls,
whatever they ask for and whatever rows there were:

| Theorem | Statement |
|---|---|
| `RegistryTypesHold` | `[]RegistryTypeOK` |
| `AuditTellsTheTruth` | `[]AuditIsTrue` |
| `AuditLeadsToToday` | `[]AuditReplays` |
| `DeletionsAreFinal` | `DeletedIsFinal` |
| `TwinsNeedARace` | `TwinsComeFromRaces` |

from `RInv`. Its parts say what a call in flight may rely on:
`TakenSinceTheLook`, that whoever has the number a call is about to write took it
after the look (this is what makes twins a race); `SnapshotsAreOfRows`, that the
old and new values a call holds the row has had; `Alone` and `RowsAreAsRead`, that on a
citizen who is not mixed up one call is at work and the row is as that call left
it; `StampsArePast`, that the clock has left every `changed_at` behind and no row
of the log is a deletion's; `LogGoesOn`, that the last audit row of a citizen says
what the next one will start from, and is older than the one on its way. That
creations and deletions are missing from the log does not break the chain: no
row comes before a creation (its snapshot would be of a row there was not), and
a deletion leaves the columns as they are. Assumed: a creation carries its number (`binding:"required"`) and an
id nobody has (`uuid.New()`), and seeds are rows.

The attempt to prove `TwinsComeFromRaces` corrected it. Its third way, a seeded
number, used to be limited to citizens nobody had renumbered. But a PATCH of other
fields that had read a seeded row can write the seeded ciphertext back over a
renumbering, beside a creation that has been given the same number meanwhile; the
scenario `Reseeding` shows it to TLC. The property now says that the ciphertext is
the one the seed script wrote, which `RandomOnesAreSeeded` carries: no number
entered through the API has a random IV.

`CitizenListing_proofs` proves, for lists, pages and page sizes of any length:

| Theorem | Statement |
|---|---|
| `ReadersDoNotDisturb` | `ListSpec => RegistrySpec`: what holds of the registry holds while it is read |
| `ListTypesHold` | `[]TypeOK` |
| `ReadersMissNothing` | `[]PagesMissNothing` |

from `LInv == TypeOK /\ RInv /\ CreatedIsKept /\ ReaderGoesOn`. `ReaderGoesOn`
is the reason why OFFSET works at all: a row not yet seen, that no row which left
was ahead of and that ties with none, still has at least `page * PageSize` rows
before it, so the reader is not past it. A page that fails ends the reading
without a claim. One that does not either gives the row or puts
`PageSize` more rows before it (`PageServes`, where the cardinalities of what
OFFSET skips and LIMIT takes are counted); a change only adds rows before it,
because what is created comes last (`PlacesStay`) and `created_at` is written
back as it was (`CreatedIsKept`). Assumed: tables are finite.

`TransferTx_proofs` proves, for every geography, any number of requests and of
calls, whatever they were sent to do, and a pool of any size:

| Theorem | Statement |
|---|---|
| `TypeCorrect` | `[]TypeOK`: among it, no more connections are taken than there are |
| `LocksAreExclusive` | `[]LocksExclude`: nobody holds a lock that conflicts with somebody else's |
| `NoDecisionIsLost` | `[]NoLostDecision` |
| `CommitsAreSteps` | `StepsAreAtomic`: every step is a step of `TransferWorkflow`, or a stutter, or a `MissedRemoval` |

from `TxInv`. `InPlace` says what a transaction has done by the statement it has
come to; `LocksExclude` that the locks this implies are compatible; `StillTrue`
that what it read under them is still what is committed: the request is pending,
its ticket undecided, the tickets complete it exactly if it went on to execute,
the citizen is not in the household it has entered them in. The argument for
`StillTrue` is two lemmas on who commits beside an open transaction:
`RequestIsHeld` (not on its request row: `FOR UPDATE` also holds off the insert
of a second ticket, whose foreign key needs that row, and an override, whose
history row does) and `MemberIsHeld` (not into the member row it has inserted).
For `CommitsAreSteps` the whole body of `WithTx` is then taken to run at its commit:
each guard of the action of `TransferWorkflow` is a conjunct of `StillTrue`,
and what the statement-wise writes add up to is what the action assigns.
`RemoveMember` is the one statement without such a conjunct. When it finds a row,
the row is locked; when it finds none, nothing stops another transaction from
putting the citizen there, and that is `MissedRemoval`.

Assumed: the requests are between different wards (within one ward no unit is
asked, so there is nothing to decide); a call that decides has a unit; a request's second ticket is the destination's and one handler
inserts it; each citizen is in some household at the start; calls are finitely
many. That households and markers are what their names say is assumed as for
`TransferWorkflow`.

*Only model-checked:* liveness (`CallsEnd`, `EveryUpdateIsAudited`), which is
out of the prover's reach, and that the five statements of section 5 fail. Every
other property of a run is stated by a theorem.

## 5. Where code and words disagree

1. **The escalated unit gets no ticket** (`escalation`).
   `EscalateExpiredRequests` inserts a ticket with `unit_role` "escalated",
   which the CHECK of `008_household_transfer.sql:85` refuses, and discards the
   error. `escalated_to` is already set, so the request is never listed again.
2. **A transfer can complete without its destination** (`early_completion`).
   The two tickets are committed one after the other; an approval in between
   finds all existing tickets approved. The theorem `NoMoveWithoutTheSource`
   says how far this goes: the source's approval cannot be missed.
3. **A PATCH changes what was not sent** (`partial_update`). It writes back
   every column it read, so it undoes the address a transfer has set meanwhile.
4. **A counter may never delete itself** (`counter_lives_on`). The TTL is set by
   a second command whose error is discarded, and only after an INCR that
   answered 1. If either is lost the counter grows for ever, and its caller is
   refused for good once it has passed the limit.
5. **Creations and deletions are not audited** (`creations_untold`). The audit
   table is to record "every creation, update and deletion"
   (`007_audit_log.sql:34`), with NULL where there is no snapshot (`:13-14`). The
   driver sends a nil `json.RawMessage` as an empty string, the table refuses it,
   and the error is printed. `AuditReplays` says what the log is still good for.

Noted while modelling, without a run of their own:

* An override is not audited. Its insert uses an action `007_audit_log.sql:9`
  refuses (and has no snapshots, which is enough to be refused); the error is
  discarded and the handler answers that the audit log has been written
  (`transfer_handler.go:160`).
* `limiter.go:50` says that later EXPIREs have no effect because the key has its
  TTL. Later requests send none; but an EXPIRE whose reply was lost is repeated by
  go-redis and puts the deadline off. By how much is what
  `OnlyRepeatsMoveDeadlines` says.
* `audit_log.go:25` expects a NULL snapshot with a creation, and
  `011_seed_test.sql:293` inserts one, but it cannot be scanned into
  `json.RawMessage` (`audit_repository.go:193`): the page that holds it is
  answered with an error (`PageFails`).
* Seeded citizens have a `national_id` encrypted with a random IV
  (`scripts/seed.go:139`), so the duplicate check never finds them;
  `crypto.go:150` speaks of a UNIQUE check in the database, and no migration has
  one. `TwinsComeFromRaces` names both exceptions, and a PATCH can bring a random
  IV back over a deterministic one.
* A PATCH without `national_id` writes back the number it read, so it can undo a
  renumbering, and bring back a number somebody else has taken since.
* `update.go:15` says the snapshots serve to roll back; they are masked. The old
  value of an audit row is what the call had read, not what it overwrote
  (`007_audit_log.sql:35`), and two calls on one citizen may be told in the other
  order. Hence `mixed` in `AuditReplays`.
* The three audit actions of the workflow are refused by the table, and no other
  caller uses `InsertWithVisibility`: outside seeded data `audit_visibility` is
  empty, and officers below the national level are shown no audit row.
* `meta.page_size` echoes the size that was asked for, not the one applied.
* `UpdateUser` sets the three unit codes to what the body says, NULL where it
  says nothing, and does not call `validateScopeForRole`; `is_active` in its body
  is ignored.
* `GetActiveOfficersByUnit` and `GetOfficerAtTime` disagree about an assignment
  with an end in the future.

## 6. Not modelled, and the plan

Not modelled by choice: routing and envelopes (wiring; handlers are inside the
actions of what they call), the bytes of field encryption, statistics and
province lists (read-only), the contents of seed data, `Register` (one guarded
INSERT that UNIQUE decides), permissions and the unit tree (no route asks them),
the visibility join (nothing to join), the scope filters of the transfer lists
and `canViewTransfer` (pure reads that change nothing).

Two hazards of `PROJECT.json` have no property: the arbitrary choice of
`GetMemberHousehold`, and the escalation nobody starts.

In this order:

1. What survives a `MissedRemoval`: the invariants of `TransferWorkflow` that
   do not speak of households hold of the tables of `TransferTx` too, and
   `ResidenceFollowsHousehold` and `NobodyLosesTheirHousehold` should.
2. `AuditVisibility`, should the table ever accept the workflow's actions:
   exactly the units on either side see a move.
3. Liveness of escalation: with a cron assumed that starts the job again and
   again, and with an escalated ticket that the table would accept, every
   unanswered request below the province is escalated and can be decided.
