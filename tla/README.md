# A model of the school finance system

TLA+ modules for the school finance system in `src/`: a TypeScript API (Express,
Prisma, PostgreSQL) that keeps a school's students, enrolments, fee structures, charges
and relief, and a ledger from which every balance is computed, and the React client of
that API. The modules are translated from the code; TLC checks them on small instances
and TLAPS proves, for all instances, every safety property that the runs find to hold, but
for the types of the office as a whole, and that two components implement one abstract
account.

Paths below are relative to `src/backend/src/modules/` unless they start with `src/`.
`PROJECT.json` maps every definition to the lines it translates.

## The system

Every request is served by an `async` handler of a stateless process. A handler
reads rows, decides, and then writes in a transaction at READ COMMITTED. Requests
interleave at every `await`, several processes may serve at once, and a request
may die at any point: its transaction is then rolled back. Nothing is kept in
memory between requests, there is no queue and no scheduled job. What protects a
row from two requests is one of three things: a conditional UPDATE on version and
status (`src/backend/src/lib/optimistic-lock.ts`), a partial unique index or check
constraint, or nothing. The third is where the models look hardest.

| Component | State | Operations | What makes it correct |
| --- | --- | --- | --- |
| Ledger, one-off charges, relief (`fees/ledger`, `charge`, `relief.service.ts`) | `financial_entries` (append-only), `student_charges`, four tables of relief with one life cycle | raise, void; request, decide, cancel, reverse | entries agree with records; relief needs a second person; a charge is not relieved of more than its amount; history is kept |
| Balances (`fees/balance.service.ts`) | none: recomputed from the ledger | net position by period, what a charge is still worth | figures are those of the records that stand |
| Fee structures, charge runs (`fees/fee-structure`, `charge.service.ts`) | `fee_structures`, items, `charge_runs`, their charges and entries | create, edit items, activate, archive; preview, apply | no charge twice, no category twice, runs are whole, charged structures are locked |
| Fee categories, scholarship programmes | two reference tables | create, rename, deactivate | names unique |
| Enrolments (`enrollments/`) | `enrollments`: student, year, class, status, version | enrol, move, end | one live enrolment a year; a class is not over capacity |
| Academic structure (`academic/`) | years, terms, programmes, levels, classes | create, update, close, set current, set progression | one current year and term; terms inside their year; progression has no cycle; closed stays closed |
| Sessions (`auth/session.service.ts`) | `sessions`, `refresh_tokens` | create, rotate, revoke one, all, all but one | the chain of tokens does not fork; a consumed token ends its session; a revoked session stays so |
| Sign-in, second factor, passwords (`auth/auth`, `password.service.ts`) | user row (failed attempts, lockout, MFA secret, password hash), reset tokens | login, verify, enrol and disable MFA, change, request reset, reset | tokens are used once; a change of password ends the other sessions |
| User administration (`users/`) | users, role assignments | create, update, status, grant, revoke | the last Super Administrator stays; suspended accounts hold no session |
| Students, guardians (`students/`, `guardians/`) | students, guardians, links | register, update, link | registration is whole; identifiers are unique |
| Import (`imports/`) | none of its own | check a file, commit all its rows | all rows or none |
| Identifier sequences (`src/backend/src/lib/identifier-sequence.ts`) | one counter per school, kind and year | next value | no identifier twice |
| Audit trail (`audit/`) | `audit_logs`, append-only | record, record safely | one entry a change, telling what it was |
| Authorisation (`src/shared/src/authorization.ts`, `src/backend/src/middleware/`, `src/backend/src/lib/access-scope.ts`) | none: roles are read on every request | the check of each route | duties stay separate, whatever changes under an open session |
| HTTP layer, health, process (`src/backend/src/index.ts`, `health/`) | the listening server, open requests | start, readiness, stop | a stop ends, and does not pass for clean when it is not |
| Web client (`src/frontend/src/`) | access token, shared renewal, what each screen holds | call, renew, sign in and out, fetch, act | a renewal is not taken for theft; calls settle; screens show what was asked for; pages offer what is granted |
| Seed (`src/backend/prisma/seed/`) | every table | upserts outside any transaction | a seeding that completes leaves the fixtures, wherever earlier ones stopped |

How they interact: a charge run reads enrolments and the period, and writes charges
and ledger entries; relief reads charges and the ledger and writes the ledger;
balances read the ledger alone. Account status, passwords and MFA write sessions.
Registration writes a sequence and a student in one transaction and the enrolment in a
second statement; an import writes all of its rows in one. Every route reads the roles
of its caller; the client hides what its last renewal said the roles do not allow.

The hard behaviours of the API are of one family: something read before a write and
relied on in it. In the client it is answers that come late, in the process and the seed
being cut short. `PROJECT.json` lists each place ("hazards").

## Modules

| Module | Models | Used by |
| --- | --- | --- |
| `Balance` | the arithmetic over ledger entries, as operators | `FeeLedger` |
| `FeeLedger` | one-off charges, relief, the ledger, concurrent requests | `FeeLedgerMC`, `FeeLedgerProofs` |
| `ChargeRun` | fee structures, charge runs, and what they read, for one period | `ChargeRunMC`, `ChargeRunProofs` |
| `StudentAccount` | what the ledger promises of students' accounts, abstractly | `FeeLedger` and `ChargeRun` implement it |
| `Sessions` | sessions, refresh tokens, what creates and ends sessions | `SessionsMC`, `SessionsProofs` |
| `Requests` | requests in flight, conditional updates | all from here to `Setup` |
| `Calendar` | academic years and terms | `Registry`, `CalendarProofs` |
| `Curriculum` | departments, programmes, levels and their progression | `Registry`, `CalendarProofs` |
| `Registry` | classes, students, enrolments, identifiers, import; composes the two above | `Guardians` |
| `Guardians` | guardians and links, side by side with imports | `OfficeMC`, `RegistryProofs` |
| `Authorization` | the role catalogue and what every route requires, as operators | `Accounts`, `Access` |
| `Accounts` | sign-in, second factor, passwords, user administration | `OfficeMC` |
| `Access` | what a session may call while its account changes | `Pages` |
| `Pages` | routes of the client, what each page asks and offers | `OfficeMC` |
| `Setup` | fee categories, scholarship programmes, their audit trail | `OfficeMC` |
| `WebClient` | one tab: calls, the shared renewal, sign-in and sign-out | `ProcessesMC`, `ProcessesProofs` |
| `Screens` | fetches and actions of a screen; preview, then apply | `ProcessesMC`, `ProcessesProofs` |
| `Lifecycle` | the server process and its probes | `ProcessesMC`, `ProcessesProofs` |
| `Seed` | a seed of any statements, crashes, and people at work | `SeedData`, `ProcessesProofs` |
| `SeedData` | the statements of this seed, and what people do | `ProcessesMC` |
| `…MC` | model values and symmetry for TLC | the `.cfg` files |
| `SumTheorems` | sums over finite sets and induction over numbers, as lemmas | `FeeLedgerProofs`, `ChargeRunProofs`, `CalendarProofs` |
| `…Proofs` | theorems; `CalendarProofs` those of `Calendar` and `Curriculum`, `RegistryProofs` of `Registry` and `Guardians`, `StaffProofs` of `Accounts`, `Access`, `Pages` and `Setup`, `ProcessesProofs` of `WebClient`, `Screens`, `Lifecycle` and `Seed` | |

### FeeLedger

`charges`, `reliefs` and `ledger` are the tables: a function from the ids that may
ever exist to a row or `Absent`, and a set of entries. The four kinds of relief
share one life cycle and one code path (`relief.service.ts` is written over the
kind), so they are one table with a kind. Amounts are minor units. An entry names
the record that caused it (`ref`), the charge it is applied to (`charge`) and the
entry it undoes (`reversalOf`), as the columns do.

`task` is what a request in flight remembers. A void or a decision is split where
the code reads outside its transaction: `VoidLoad`, `VoidCommit`; `DecideLoad`,
`DecideFits`, `DecideCommit`. The transaction is one step. It begins with the
conditional UPDATE (`Matches`), which locks the row until the end, so whatever
another request does to this record is before or after all of it. `Refuse` drops a
request at any point before its commit: an error answer, a rollback or a crash
are the same to the tables. `RaiseCharge` is one step because what it reads can
only refuse it; `CancelRelief` and `ReverseRelief` because their UPDATE repeats
what they read; `RequestRelief` because a pending request moves no money and its
checks are made again at the decision.

`Account` instantiates `StudentAccount` over this state: what is in force is the charges
not void and the relief that is approved, a line is an entry without the columns a
family does not see. `AccountsAreKept == Account!Spec` says that every step posts one
item, withdraws one, or leaves the accounts alone.

Left out: permissions and access scope (`Access`), the state of the period, category and
scholarship rows (they only refuse), posting users, descriptions and the audit row.

### ChargeRun

For one academic year and term: `structures` (status, the set of places it
applies to, items, version), `placements` (the live enrolment of each student),
`period`, and what runs wrote. A place stands for the combination of programme, level,
class and residency that the applicability filters test: any set of places may be
what a structure matches, a superset of what filters can express. `RunLoad` is
everything `applyChargeRun` does before its transaction: load, plan, look for
overlaps, look for existing charges. `RunCommit` is the transaction; the database
refuses it when a charge is live already, an item is gone or an entry is not
positive (`Insertable`). Its `Account` instantiates `StudentAccount` with the charges that
are not void, each known by its run and its line; a run posts them all in one step, which
is why `StudentAccount` posts a set of lines at a time. Items are edited outside any transaction, with no version:
`EditLoad`, `EditCommit`. Activation is versioned: `ActivateLoad`, `ActivateCommit`.

The rows a run reads are read by three queries; the model reads them in one step,
since what changes between them may as well change after them. One-off charges
are in FeeLedger; a structure of another period does not touch this one.

### Sessions

`users` is what decides on sessions: status and version, whether a second factor is
on or being set up, whether a role requires one. `tokens` are refresh tokens, known
by their session and place in its chain. Anyone may present any token that was ever
issued: that is a second tab, a lost answer, a retry. `RefreshLoad` is the read of
`rotateRefreshToken`, `RotateCommit` its transaction, `ReuseDetected` the revocation
a used token leads to. `Login`, `VerifyMfa` and `EnrolCommit` lead to `CreateSession`
as a step of its own, since a sign-in that has passed its checks may be overtaken.
Password change and reset, enrolment, its undoing and a change of status commit
first and end sessions in a second statement: `EndSessions`, which a crash (`Drop`) may
keep from coming. `due` is history: the sessions that such an operation found and has
yet to end. The check of the caller and the single UPDATE that follows it in the
logout handlers are one step.

Left out: expiry (it only refuses), and what `Accounts` has: lockout, passwords, codes,
changes of role, and editing an account (here it would only move the version).

### The school office: Calendar, Curriculum, Registry, Guardians

A request begins with the reads and refusals its handler starts with and keeps in
`task` what it goes by; each later statement or transaction is one step; `Drop` ends a
request before its next step, whatever the cause. `Matches` is the versioned UPDATE.

`Calendar` has `years` and `terms` with days as numbers: creating, editing (a patch over
the row that was read, with the checks of dates, siblings and reopening), and making one
current; it has a specification of its own (`CalendarSpec`), which the proofs are about, and the
runs go through its two halves, `YearStep` and `TermStep`. `Curriculum` has programmes and the `next` level of each level;
`WouldLoop` is the code's walk with its guard. `Registry` composes both with
`capacity`, `students`, `enrollments`, the counter `lastValue`, and the two tables of
guardians that an import writes: `RegisterLoad`, `RegisterStudent` (number and student,
one transaction) and `CreateEnrollment` (another), `EnrolLoad`, `MoveLoad`, `EndLoad`
and their writes, `StatusLoad`, `SetStatus` and the ending of the enrolment after it,
`ImportLoad` (`ValidateRows`, row by row with the seats and numbers the file has used up
so far) and `ImportCommit`. An import is one step as the counter's row lock, which it
takes with its first row, makes it take turns with every registration. `Guardians` adds
guardians and links with the clearing of the primary contact as the statement of its own
that it is.

### Accounts, Authorization, Access, Pages, Setup

`Authorization` holds the role catalogue as sets of permissions and, for every route of
the API, the permissions it is behind and whether it asks for a second factor. `Accounts`
has the users table with password, stale hash, failed attempts, lock, last TOTP
counter, recovery code and reset links; `login` and `verifyMfa` are split at each write
(`Login`, `Rehash`, `IssueChallenge`, `VerifyTotp`, `RecordCounter`, …), user
administration at its checks of rank, school and last holder. `Access` keeps, of all
this, what decides a call: roles held, second factor, own password, open sessions; its
invariant quantifies over every route. `Pages` adds a browser that knows the roles its
last sign-in or renewal told it, the guards and links of the client, and for each page
the calls it makes and the permission it looks at before it offers them.
`Setup` models the two reference tables of the fees, which are written in one way, with
the audit entry as the third statement it is.

### WebClient, Screens, Lifecycle, Seed

`WebClient` is one tab with two calls at a time, the renewal they share
(`inFlight`), the one made when the provider mounts, sign-in, sign-out, reload, and of
the server the exchange of refresh tokens. Requests may be lost on either way, and an
access token may have expired whenever it is looked at. Of a session's refresh tokens
only the last is unused, so there is no bound on renewals. `Screens` has
`useAsyncResource` under a filter that changes, actions on what it shows, and the two
pages that show a preview first. `Lifecycle` is `main`, `shutdown`, the deadline and the
readiness probe over a database that comes and goes. `Seed` executes a
list of statements, each refused where a foreign key or an index refuses it, and lets
people exchange rows in between; `SeedData` has the statements of `index.ts`, with one
fixture of each kind, and what people do: register, withdraw, open a year, archive.

## Runs

Ids are finite, so a behaviour ends when they are used up, and a process may stop: the
runs do not check deadlock. Constants given as model values are interchangeable where
the configuration says `SYMMETRY`; `processes`, which checks liveness, does not.

| Run | Instance | Shows |
| --- | --- | --- |
| `fee_ledger_concurrent` | 2 students, 2 users, 2 charges, 2 adjustments, amounts 0 and 2, 50 %, 2 in flight | `TypeOK`, `LedgerMatchesRecords`, `BalanceIsExplained`, `MoneyTakesTwo`, `HistoryIsKept`, `AccountsAreKept` whatever interleaves |
| `fee_ledger_serial` | 1 charge, 3 adjustments, amounts 1 and 2, 50 %, 1 in flight | `ReliefIsBorne` when decisions and voids come one at a time |
| `fee_ledger_over_relief` | 1 charge, 2 requests, 2 in flight | `ReliefFitsCharge` fails (finding 1) |
| `fee_ledger_reversal` | 1 charge, 2 requests, 1 in flight | `ReversedReliefRestoresCharge` fails (finding 2) |
| `fee_ledger_buckets` | 1 charge, 2 adjustments, 1 in flight | `ReversalsNetOutByBucket` fails (finding 3) |
| `charge_run_concurrent` | 2 students, 1 structure, 1 category, 2 runs, 2 in flight | `NoDuplicateCharge`, `RunsAreWhole`, `AccountsAreKept` whatever interleaves |
| `charge_run_serial` | 1 student, 2 places, 2 structures, 2 runs, 1 in flight | `OneCategoryPerRun`, `LockedOnceCharged`, `RunBillsEveryone` |
| `charge_run_overlap` | 1 student, 2 structures, 2 runs, 1 in flight | `CategoryBilledOnce` fails (finding 4) |
| `charge_run_zero_fee` | 1 structure, 2 categories, amounts 0 and 1 | `PlannedRunApplies` fails (finding 5) |
| `sessions_concurrent` | 1 user, 2 sessions, 2 tokens each, 1 reset link, 1 change of status, 2 in flight | `TypeOK`, `ChainsDoNotFork`, `EndedSessionsAreOver`, `RevokedIsNotRenewed` |
| `office` | sixteen parts, see below | eighteen properties of the office, the accounts and the pages |
| `processes` | five parts: tab, list, preview, server, seed | `RenewalsAreNotTheft`, `ScreensShowWhatIsAsked`, `SeedingConverges`, `RequestsSettle`, `ShutdownEnds` |

Why these bounds are enough to be interesting: two requests in flight are what every
race in this code needs, since each is between one stale read and one write. Kind
ADJUSTMENT is the one kind of relief that goes in both directions; the others are
its CREDIT half. Two amounts, of which one is half the other, let relief fit, fill
or exceed a charge, and 50 % of what remains gives the same values; 0 tries the
refusal of empty entries. Three relief records against one charge show a sum that no pair
exceeds. Two runs on one structure give a re-run; two structures and two places
give overlap, disjoint scopes and a student who moves between runs.

Sessions of different users do not meet: every statement names one. Two sessions
let one be spared and the other ended, and let a sign-in overtake; two tokens let a
refresh succeed, race and be repeated. One change of status overlaps with any number of changes of password
and second factor.

What holds serially and not concurrently is kept apart: with two requests in flight
`ReliefIsBorne`, `LockedOnceCharged` and `RunBillsEveryone` can be broken, each by a
write that relies on a read made before another request's commit, and so is a period
closed under a run. The repository states only the bound on relief without reservation
about concurrency, and that one has a run.

### The parts of `office`

A behaviour of `OfficeMC` moves one part; the rest stands where it started, so that one
run covers modules that do not interact without multiplying their states.

| Part | Moves | Instance | Properties it can break |
| --- | --- | --- | --- |
| `years` | years | 2 years, 2 edits of each: close, reopen, move | `ClosedStaysClosed` |
| `terms` | terms | 2 terms over days 1–4 of one year | `TermsDoNotOverlap`, `ClosedStaysClosed` |
| `curriculum` ¹ | programmes, levels | 2 programmes, 3 levels | `PromotionEnds` |
| `seats` ¹ | capacities, registrations, placements, imports | 2 students, 2 classes of 1 seat or unbounded | `SeatsFit` |
| `arrivals` | registrations and imports | 2 students, 3 files | `StudentsArePlaced`, `IdentifiersAreGapless` |
| `year-end` ¹ | closing a year, the next one current | 2 years, 2 students | `StudentsArePlaced`, `SeatsFit` |
| `students` | edits, statuses, exits | 1 student registered at a time | `EndsAreFinal` |
| `guardians` ¹ | guardians, links, imports | 2 guardians, 3 links, 1 number | `OnePrimaryContact` |
| `sign-in` | passwords, codes, lockout | 1 account at an old cost, or 1 with a second factor; lock after 3 | `GuessesAreBounded`, `OneTimeCodesWorkOnce` |
| `passwords` | change, reset, rehash | 2 passwords, 2 reset links | `NewPasswordStands`, `OnlyTheLastLink` |
| `roles` | accounts made, roles granted and removed | an administrator, a bursar, a new account | `NoRankFromNowhere` |
| `system` ¹ | the same | two Super Administrators | `NoRankFromNowhere` |
| `statuses` ¹ | suspension and return | the accounts of `roles`, or of `system` | `SuspensionEndsSessions` |
| `access` | sessions under changing roles and factors | 2 accounts, 4 roles | `SeparationOfDuties` |
| `pages` ¹ | a browser on top of it | the same, and a director of studies | `PagesOfferWhatIsGranted` |
| `setup` | categories and the audit trail | 1 setting, 2 names, 2 edits | `TrailIsTrue` |

¹ One request at a time. In the other parts two are in flight; a property that begins
"as long as requests do not overlap" is then about the behaviours in which they do not,
which the history variable `overlapped` tells apart. Two requests are enough, as each race is
between one read and one write. In all of these, ids are handed out in order, clients may
send any version they were shown, and files are chosen so that a row is refused, a seat
is used up by an earlier row, and a guardian's number recurs. Every bound is a constant
of its module and is named there.

### Fairness

Only `processes` has liveness. `WebFairness` is weak fairness of what the client does
with a promise that is settled or a timer that fires: each call and each renewal has a
timeout (`src/frontend/src/lib/api-client.ts:144-188`), so an outcome arrives, good or
bad; the server need not answer, and nothing else has to happen. It assumes that an
answer whose head has arrived goes on to arrive or breaks off: the body is read after the
timer is cleared, and a peer that stalls there for ever would stall the call.
`LifecycleFairness` is weak fairness of the probe's and the deadline's timers, and of
the closing of a server without requests; neither the work of a request nor the
database has to come to an end. The API itself has no scheduler and retries
nothing, so nothing is promised to happen there, and its specifications have no fairness.

## Findings

1. **Two approvals can relieve a charge of more than it is worth**
   (`fees/relief.service.ts:444`). What remains is read before the transaction, and
   the transaction locks the relief record, not the charge.
2. **Reversing relief does not give the charge its value back**
   (`fees/ledger.service.ts:188`). The reversal loses the charge id; the student's
   balance is right, the charge's is not, and the charge cannot be voided any more.
3. **A reversed credit adjustment shows as a surcharge** (`fees/balance.service.ts:89`).
   The net is right, the breakdown is not.
4. **Overlapping structures are caught within one run only**
   (`fees/charge.service.ts:150`). Runs narrowed to one structure, one after the other,
   charge a category twice.
5. **A fee line of zero breaks the run it belongs to**
   (`ledger_constraints/migration.sql:14`). The charge may be zero, its entry may not.

## Where code and comments differ, without a run of their own

Each of these was met while modelling; the properties say by their exceptions
(`~overlapped`, `unplaced`, `cutShort`) where they stop. Most are races that take
two requests in flight.

- `docs/ROADMAP.md:92-93` counts "a term that lies inside its year" among the invariants
  later phases depend on; only the writes of terms check it, and a year may be moved or
  shortened off its terms (`academic/academic.service.ts:239`).
- `academic/academic.service.ts:267-272` says a closed period is not made current; its
  status is read before the transaction that sets the flag by id alone (288).
- `auth/auth.service.ts:125` says the database increments the count of failed attempts; it
  is read, incremented in memory and written (133), so attempts that overlap are lost.
- `auth/auth.service.ts:517` says the same code cannot be presented twice; the counter is
  compared and then written without a condition, so two requests at once both get in.
- `users/user.service.ts:540-545` refuses what leaves nobody to administer; the last two
  Super Administrators, removed at once, are each counted by the other's request (558).
- `guardians/guardian.repository.ts:240-241` says the primary contact is cleared in the
  transaction that sets the new one; there is none (`guardians/guardian.service.ts:207`),
  so that two requests may leave two primary contacts, and one cut short none.
- `students/student.service.ts:12-14` calls registration and first enrolment one
  transaction. They are two (275): a crash leaves a student with no place (`unplaced`).
- `src/backend/prisma/seed/index.ts:602` says a counter never moves backwards; the seed
  sets it, so that after real registrations a second seeding makes every later one
  collide.
- `changeStudentStatus` commits the status and then ends the enrolment; an effective
  date before the enrolment began fails the second after the first stands. A closed
  year that is still current takes registrations and imports.
- An import looks guardians up by a normalised number while `createGuardian` keeps what
  was typed, so a guardian may be doubled; a file imported twice doubles its students.
- `users/user.service.ts:259-261` says a first sign-in activates an invited account;
  no sign-in admits one.
- A rehash at a sign-in (`auth/auth.service.ts:262`) can undo a change of password that
  overlaps with it.
- `auth/auth.controller.ts:151-157` says a client is told exactly what the next request
  enforces. After the grant of a role that requires a second factor, a session without
  one is told its full menu and refused every call.
- `StudentDetailPage.tsx:192, 312` offers the guardians' forms to whoever has
  guardian.link; a director of studies may then neither add nor link one.
- `audit/audit.service.ts:15-18`: an entry that fails after the commit fails a request
  whose effect stands. The entry of an edit may show what a later edit made of the row.
- `src/frontend/src/lib/api-client.ts:275-276` says an ended session surfaces as a 401
  which signs the client out; only a failed renewal does. A reload during a renewal, or an
  answer that was lost, presents a used token and ends the session as stolen.
- `ChargeRunPage.tsx:4-8` and `StudentImportPage.tsx:4-12` say that what is applied was shown; a
  choice changed while the preview was out is applied unseen (`switched`).
- After a new year is made current the seed never completes again. It also reopens closed
  years, archived structures and suspended users, and a withdrawn student's enrolment.
- A one-off charge or a guardian whose answer was lost, and which is sent again, is
  there twice: nothing ties the repetition to the first.

## Proofs

TLAPS checks these for every value of the constants that satisfies the named
assumptions of the modules:

- `LedgerAssumption`: ids of charges and relief differ, amounts are natural numbers,
  `None` is no id; `RunAssumption`: amounts are natural numbers, `None` is no place and no
  structure, and there are finitely many students, structures and categories, since a run
  counts the lines of its plan;
- `CalendarAssumption`: what clients propose is made of days and statuses, `None` is no
  term; `CurriculumAssumption`: `None` is no level, the bound is a number;
- `RegistryAssumption`: the ids of students, enrolments, guardians and links are finite in
  number, `None` is no link and no class, each class belongs to a level and a year, what a file
  names as a class or a telephone is one or nothing, and enrolments end in one of their statuses;
- `SessionAssumption`: a session has room for a token, `None` is no user, session or
  reason; `SetupAssumption`: the bound is a number;
- `AccountsAssumption`, `InitialAccountsAssumption`: roles have a rank, who is created or
  granted to gets one at least, the limit of wrong answers is positive, counters are positive
  numbers, links are numbered as they are sent, and the first accounts are accounts;
  `AccessAssumption`: the roles in play are roles of the catalogue;
- `WebAssumption`: the renewal at startup and no renewal are told from those of calls;
  `ScreensAssumption`: the bound is a number;
- of the seed, `StatementsAssumption`: a statement that leaves a row's state alone is not
  the last on a row that earlier ones gave another state, and none removes what another
  writes; `DatabasesAssumption`: before the first seeding there is nothing but what it
  removes; `DeedsAssumption`: people keep keys and current rows unique, and what is said to
  `stand` is of rows whose state no statement writes; `SeedAssumption`: the bound is a
  number. TLC finds them true of the statements and deeds in `SeedData`.

Only `RunAssumption` and `RegistryAssumption` ask for finite sets: seats and numbers are
counted. Theorems marked "one at a time" take
`OneAtATime`, that there is one worker, as a hypothesis: what they state is false of
requests that overlap, as the violation runs show. In the office the same is said by
`~overlapped` inside the property, which allows any number of workers.

| Theorem | States |
| --- | --- |
| `FeeLedgerProofs!TypeCorrect` | `Spec => []TypeOK` |
| `FeeLedgerProofs!LedgerAgrees` | `Spec => []LedgerMatchesRecords` |
| `FeeLedgerProofs!SecondPerson` | `Spec => []MoneyTakesTwo` |
| `FeeLedgerProofs!HistoryHolds` | `Spec => HistoryIsKept` |
| `FeeLedgerProofs!LedgerKeepsAccounts` | `Spec => AccountsAreKept`: `FeeLedger` implements `StudentAccount` |
| `FeeLedgerProofs!AccountsAlwaysAddUp` | `StudentAccount`'s `Spec => []AccountsAddUp`, and so does `FeeLedger`'s |
| `FeeLedgerProofs!BalanceExplained` | `Spec => []BalanceIsExplained` |
| `FeeLedgerProofs!ReliefBorne` | `Spec => []ReliefIsBorne`, one at a time |
| `ChargeRunProofs!TypeCorrect` | `Spec => []TypeOK` |
| `ChargeRunProofs!NoDoubleCharge` | `Spec => []NoDuplicateCharge` |
| `ChargeRunProofs!NoOverlapInRun` | `Spec => []OneCategoryPerRun` |
| `ChargeRunProofs!WholeRuns` | `Spec => []RunsAreWhole` |
| `ChargeRunProofs!ChargedStructuresLocked` | `Spec => []LockedOnceCharged`, one at a time |
| `ChargeRunProofs!RunsKeepAccounts` | `Spec => AccountsAreKept`: `ChargeRun` implements `StudentAccount` |
| `ChargeRunProofs!EverybodyBilled` | `Spec => RunBillsEveryone`, one at a time |
| `SessionsProofs!SessionsTypeCorrect` | `Spec => []TypeOK` |
| `SessionsProofs!ChainsHold` | `Spec => []ChainsDoNotFork` |
| `SessionsProofs!RevokedForGood` | `Spec => RevokedIsNotRenewed` |
| `SessionsProofs!EndingsSpareNone` | `Spec => []EndedSessionsAreOver` |
| `CalendarProofs!CalendarTypeCorrect` | `CalendarSpec => []CalendarTypeOK` |
| `CalendarProofs!ClosedForGood` | `CalendarSpec => ClosedStaysClosed` |
| `CalendarProofs!TermsStayApart` | `CalendarSpec => []TermsDoNotOverlap` |
| `CalendarProofs!CurriculumTypeCorrect` | `CurriculumSpec => []CurriculumTypeOK` |
| `CalendarProofs!PromotionAlwaysEnds` | `CurriculumSpec => []PromotionEnds` |
| `RegistryProofs!SchoolTypeCorrect` | of `SchoolSpec`: its tables are typed |
| `RegistryProofs!StudentIdsAreGapless` | `SchoolSpec => []IdentifiersAreGapless` |
| `RegistryProofs!EveryoneIsPlaced` | `SchoolSpec => []StudentsArePlaced` |
| `RegistryProofs!OneIsRungFirst` | `SchoolSpec => []OnePrimaryContact` |
| `RegistryProofs!WhatIsOverStaysOver` | `SchoolSpec => EndsAreFinal` |
| `RegistryProofs!WhoeverIsPlacedFits` | `SchoolSpec => SeatsFit` |
| `StaffProofs!AccessTypeCorrect` | `AccessSpec => []AccessTypeOK` |
| `StaffProofs!DutiesStaySeparate` | `AccessSpec => []SeparationOfDuties` |
| `StaffProofs!PagesOfferTheGranted` | `PagesSpec => []PagesOfferWhatIsGranted` |
| `StaffProofs!PagesTypeCorrect` | `PagesSpec => [](AccessTypeOK /\ PagesTypeOK)` |
| `StaffProofs!AccountsTypeCorrect` | `AccountsSpec => []AccountsTypeOK` |
| `StaffProofs!RankIsHandedDown` | `AccountsSpec => []NoRankFromNowhere` |
| `StaffProofs!GuessingIsBounded` | `AccountsSpec => []GuessesAreBounded` |
| `StaffProofs!ChosenPasswordStands` | `AccountsSpec => []NewPasswordStands` |
| `StaffProofs!CodesWorkOnce` | `AccountsSpec => []OneTimeCodesWorkOnce` |
| `StaffProofs!SuspendedAreSignedOut` | `AccountsSpec => []SuspensionEndsSessions` |
| `StaffProofs!LastLinkAlone` | `AccountsSpec => OnlyTheLastLink` |
| `StaffProofs!SetupTypeCorrect` | `SetupSpec => []SetupTypeOK` |
| `StaffProofs!TrailStaysTrue` | `SetupSpec => []TrailIsTrue` |
| `ProcessesProofs!NobodyPassesForAThief` | `WebSpec => []RenewalsAreNotTheft` |
| `ProcessesProofs!NobodyWaitsInVain` | of `WebSpec`: a call that waits for a renewal waits for one that is out |
| `ProcessesProofs!LateAnswersDoNotPass` | `ScreensSpec => []ScreensShowWhatIsAsked` |
| `ProcessesProofs!StopsAreHonest` | of `LifecycleSpec`: a stop has its deadline, is clean only if nothing was cut, and is final |
| `ProcessesProofs!SeedConverges` | `SeedSpec => []SeedingConverges` |

`CurriculumSpec`, `AccessSpec`, `PagesSpec`, `AccountsSpec`, `SetupSpec`, `WebSpec`,
`ScreensSpec`, `LifecycleSpec` and `SeedSpec` are the components alone, every handler side by side; `SchoolSpec` has every request of `Calendar`, `Curriculum`,
`Registry` and `Guardians` side by side, in a school that has no students yet, whatever years
and levels it has. The runs `office` and `processes` check the same actions, part after part.

**FeeLedger.** Types alone are not inductive for what matters: that a decision posts
the first entry of its record needs that a pending record has none, and that a
reversal finds the one opening needs that approved relief has exactly that. So the
invariant is types, `LedgerMatchesRecords`, that decided relief was decided by
somebody else (`DecidedByAnother`), and that a decision in flight was taken by
somebody other than the requester (`DecisionsInFlight`), which stays true because the
requester of a record never changes. A lemma per action shows it is kept; records
an action does not touch keep their entries (a lemma of its own), and each touched
one has at most two entries, whose ids are their ordinals. `MoneyTakesTwo` follows:
only approved or reversed relief has entries.

**Sums.** `MapThenSumSet` is a fold, the choice of a function that satisfies a recursion
over the subsets. `SumTheorems` shows that there is one such function, by induction over
the finite subsets of a set (`SubsetInduction`, with a set in place of a predicate, from
the well-foundedness of strict inclusion), and from it what a sum does when an element
comes or goes, is renamed or weighs nothing. `BalanceExplained` pairs the
entries of a student off with the records behind them: every record that was ever in force
has its entry, those withdrawn have another in the opposite direction, and what the two
columns leave is what stands. `ReliefBorne` adds that what a void or a decision
in flight read of the sums is still so (`ReadsHold`).

**ChargeRun.** `NoDuplicateCharge` needs of a run's plan only that two lines for one
item are one line. `OneCategoryPerRun` needs more: a plan kept in a task has no
overlap, and the charges of a run that is not yet on record are none, so that no
second plan is ever written under one run id. `WholeRuns` counts and adds up the lines of a
plan as charges of the run; `ChargedStructuresLocked` and
`EverybodyBilled` need that what the request in hand has read is still so (`ReadsHold`): the
structure it edits may still be edited, and the plan it writes is what a plan made now would be.

**Sessions.** The tokens of a session are those of a chain of some length: the `k`th of `n`
is used and replaced by the next, unless it is the last (`ChainsAreWhole`). A refresh
that commits finds an unused token, which can only be the last, so the chain becomes one
longer whatever other refreshes of that token were begun; that the chain's set has `n`
members takes a bijection. `TasksStand` says that what a request acts on is there.
`EndedSessionsAreOver` is inductive next to types: a session becomes due in the step in
which a request takes its ending upon itself, and stops being due when ended. A lemma per
kind of step (`QuietStep`, `CallForEnding`, `EndingStep`) does most of the work.

**Calendar.** Whether an edit reopens a row is checked on a read that may be old when the
edit is written. The invariant is types and `EditsStand`: an edit in flight saw no newer
version than the row now has, and where the versions are equal it does not reopen the row
as it now is. It is kept because no step moves a status without the version, so an edit
that was overtaken no longer matches, and making a year current, which does not move the
version, leaves the status alone. `TermsStayApart` adds that, as long as requests do not
overlap, what the one in flight will write is clear of the siblings of its term (`InStep`).

**Curriculum.** `PromotionEnds` is about `Cursor`, which follows `next` so many times, and the
code checks it by a walk of its own (`WouldLoop`). The lemmas on walks take any function of
levels: a walk that comes to an end does so before a level recurs, by injectivity and a count
(`WalkEnds`); one that does not pass the changed level is the same before and after
(`SameWalk`); so linking a level to one from which it is not reached leaves no cycle
(`NoCycleAfterLink`). `CurriculumInv` adds that a link in flight was checked against the
levels as they still are, unless requests overlap (`LinkChecked`); and that a new level,
being new, is led to by none.

**Registry and Guardians.** A file is imported by a fold over its rows. Recursion over data is
out of reach, but a fold can be laid out as a trail, the function from the number of rows done
to the tables as they then are, and reasoned about by induction over numbers: `CheckedSoFar` is
what `ValidateRows` has established after `k` rows (the seats counted are at least those taken
and those that earlier rows will take), `ImportedSoFar` what holds of the tables after `k`
rows were written (they are `Sound`, nothing that was there has changed, all the new
students are enrolled, and there are ids left for the other rows). `SchoolInv` is
kept by every request: the tables are `Sound` (numbered from 1 to the counter, one live
enrolment a year in a fitting class, links of students there are), a request
in flight knows what no other can take from it (`InHand`), nobody is without a place but those
`unplaced` (`Placed`), and, as long as requests do not overlap, it also knows what another could
have changed: that there is a seat left and which contacts were cleared (`AloneInHand`).
`IdentifiersAreGapless` needs neither: an import and a registration each take the counter
and write its student in one step. The action properties are proved along with the invariant, one
lemma per request (`SchoolStep`), since `SeatsFit` of an import counts its rows by class.
TLC checked `SchoolInv` on the instances of `office` before it was proved.

**Requests that do not overlap.** The theorems on the office count on `OneWay`: unless
`overlapped`, one request at most is under way. A request that begins, goes on or ends is
one lemma each (`BeginsAlone`, `ProceedsAlone`), used by every component.

**Access and Pages.** `FactorsStand` is what sessions have to do with factors: a session
that proved one belongs to an account that has it, or is about to be ended, or should have
been. The rest is the catalogue: that each route which moves money is declared with a
second factor and a permission held only by roles meant to (`MoneyRoutesAreGuarded`,
`MoneyRolesAreMeant`), route by route. For the pages it is that what admits to a page comes
with the permission of each call it makes (`PermissionsComeTogether`, `AllCallsStand`).

**Accounts.** `AccountsInv` has what a request knows for good, however others interleave
(`Sound`: the roles it grants are within the ceiling, the link it honours is there), and
what it knows only while it is alone (`Fresh`: the attempts it counts from, the password it
rehashes). `AccountSound` and `AccountInStep` say the same of accounts, and `LinksInOrder`
that links are sent in order and only the last of a user is unused.

**Setup.** `past` is what each setting has been, and the invariant ties everything to it:
a request in flight saw a version that was (`InHand`), an entry is of one
(`OneEntryEach`), and each change is told, about to be, or lost (`EveryChangeTold`).

**WebClient and Screens.** A used token is shown when somebody begins a renewal with a cookie
that is used, or while another has it in hand. `WebInv` says, until the client gives up on a
renewal, that what renewals have in hand is unused and of different sessions (`HandsApart`),
that the renewal of a call is the one the others wait for (`OneRenews`), and that a
cookie which is spent, or could be at any time, is one nobody will begin a renewal with
(`NobodyRenews`): a call would join the renewal that is out, and before the first renewal has
settled there are no calls without a sign-in, which replaces the cookie. For lists it is that
a fetch not cancelled is for the key of now and read no less than the last action did
(`ListInv`); for previews that what is out is of what is chosen (`PageInv`).

That a renewal a call waits for is out (`NobodyWaitsInVain`) is the safety half of
`RequestsSettle`, for any number of calls: `WaitInv` says it of the one that is shared,
and it is kept because whatever ends a renewal sends those who wait on their way in the same
step, and because only a call that finds none begins one, abandoned or not.

**Lifecycle.** `StopsAreHonest` is the same of `ShutdownEnds`: the deadline that fairness
makes fire is armed in every state in which the server is stopping. A clean stop is reported
only from the state that all requests have left, so that it has cut none of them off.

**Seed.** `SeedConverges` holds of a list of statements of any length. `Followed(n)` is
what the first `n` statements leave, whatever was cut short or done before: each row they
write is there, as the last of them that writes it has it if that one rewrites, and nothing that
they remove. It has to speak of the last statement on a row among the first `n`
(`LastWords`), since a row written twice is not yet what it will be. `Known` says where a row can
come from, so that when no one has worked there is nothing but the fixtures; that no fixture
is missing is `Followed`, and that a row which is never rewritten has its state is
`StatementsAssumption`.

**The refinements.** A step of `FeeLedger` that writes an entry is a `Post` of one line or a
`Withdraw`, every other step a stutter. That a posting finds no line of its item, and a
withdrawal the one line it has to undo, is `LedgerMatchesRecords` once more, so the proof
rests on the invariant above: `EntryPosts` and `ReversalWithdraws` relate one entry to
one line, `StandingIsLive` finds the entry a reversal reverses, and each action that
writes has a lemma.

In `ChargeRun` the step that writes a run posts a line for each charge of it, and a void
withdraws one. The items are new because a run that is not on record has neither charges nor
entries, and what a void reverses is there, both of which is `RunsAreWhole`; and what is
charged is positive because the database refuses the rest (`Insertable`).

`AccountsAlwaysAddUp` then draws from `StudentAccount` alone that accounts add up, and by the
refinement it holds of the ledger's.

**Only model-checked.** What the runs check and no theorem states: the types of the office
as a whole (`OfficeTypeOK`), which is a conjunction over components that no one
specification but the run's has together; the theorems on types have it of each component,
without the capacities that a class may be set to and `unplaced`. Liveness and ENABLED are
out of the prover's reach (`RequestsSettle`, `ShutdownEnds`); what is proved of them is their
safety half.

## Not modelled

- Parsing of CSV and spreadsheets, request validation, formatting, error wording,
  rate limits (a library), logging, listing and paging: they refuse or present, and keep
  no state.
- The public pages of the client, forms and layout, and the status page, which asks one
  public probe.
- The signing of access tokens and the hashing of passwords and codes: a token or a
  password matches or does not.
- The audit entries of other services than `Setup`'s: they are written in the caller's
  transaction, where they stand or fall with it, or after it as in `Setup`.
- Which configuration variables are valid; an invalid configuration only stops the start.

## Plan

`WebClient` over `Sessions` as its server, in place of the few facts it keeps of it, as a
refinement.
