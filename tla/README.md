# A verification of the unified service scheduler

The scheduler lets a customer book a service appointment at a dealership: the
server picks a qualified technician and a compatible bay, and promises that
nobody and nothing is ever booked twice at one time, and that repeating a
request never books twice. This directory holds TLA+ modules of the parts of
the program that keep those promises, TLC configurations that check them on
small instances, and proofs, checked by TLAPS, that the most important ones hold
for every instance.

## 1. The system

| Part | Source | State it keeps | Operations | Works with |
|---|---|---|---|---|
| Booking transaction | `internal/database/booking.go`, `sqlc/*.sql.go` | `appointments`, `idempotency_requests` | `BookAppointment` | the schema's constraints; one pool connection |
| Appointment service | `internal/service/appointment.go` | none | `CreateAppointment`, `GetAvailability`, list and get | calls the store |
| Schema | `db/migrations` | the tables | exclusion constraints, primary keys, checks | called into by every insert |
| HTTP handlers | `internal/httpapi/router.go` | none | one handler per route | service, auth |
| Booking page | `assets/app.js`, `index.html` | `pendingAttempt`, the status line, the list, the availability panel and its timer | submit, availability check, reload of the list, login | HTTP |
| Admin page | `assets/admin.js`, `technicians.js` | two lists | reload, filter | HTTP |
| Authentication | `service/auth.go`, `database/auth.go` | a cookie that holds the user id, shared by the tabs of a browser | login, logout, me | handlers |
| Readers | `database/admin.go`, `database/auth.go` | none | list appointments, technicians, vehicles, options | pool |
| Start-up, shutdown | `main.go`, `config.go` | the pool, the HTTP server, the signal context | `main` | everything |
| Transaction helpers | `database/store.go` | the pool | `ExecTx` (no caller) | - |
| Key expiry | `sqlc/idempotency.sql.go` | - | `DeleteExpiredIdempotencyRequests` (no caller) | - |

What makes them hard, and what makes them correct:

* **Booking transaction.** Transactions of many goroutines, possibly of several
  server processes, run at READ COMMITTED (`pgx.TxOptions{}`), so the two
  availability queries and the insert see three different states of the tables.
  Correctness rests on two exclusion constraints, on a primary key whose insert
  waits for other transactions, and on everything being in one transaction.
  Statements fail, connections break, also around COMMIT, and inserts deadlock.
  It is correct when no two confirmed appointments of a technician or a bay
  overlap; a key makes at most one appointment; the record of a key and its
  appointment appear together; answers are true; and everyone gets one.
* **The path without a transaction.** Over a store without `BookAppointment` the
  service commits every statement by itself, so other attempts see a key that is claimed and not
  completed, and a failure leaves whatever was written. Whoever calls it may give
  a technician or a bay, which are then booked without a look at skills, capabilities or
  dealership. It is correct when it otherwise still books like the atomic specification, and
  keys are stuck for a reason only.
* **Upkeep of the tables.** A duration edited in SQL falls between two reads of it, or
  between a booking and its retry; a record that the planned cleanup job deletes
  may be one that an attempt has just found. Correct when answers stay true and a
  key never books twice within its 24 hours.
* **Booking page.** Every click starts a handler that awaits up to three fetches,
  and all handlers share one pending key, one status line and one list, which the Refresh button
  reloads too; other tabs change who is signed in. It is correct when
  repeating a click repeats the attempt, a confirmation is of what that click
  asked for, and what it confirms is in the list, as far as the page provides for that.
* **Availability panel.** Changes, a timer and submits start checks that nothing
  cancels, and answers overtake each other; an answer is put together from two
  statements. Correct when "available" was true at an instant, "unavailable" stays
  true, and a panel whose checks did not overlap is about the form.
* **HTTP handlers and readers.** The checks of the handler, of the lists the form
  is filled from and of `BookAppointment` state one rule three times; lookups may fail;
  a login in another tab changes the user. Correct when a client that
  waits for its answers may forget what was refused, and every reader shows what was booked to whom it concerns.
* **Shutdown.** Signals, a failing listener, a timeout and deferred calls meet
  requests in every stage. Correct when no transaction is cut off, whoever can be
  answered is, and the process ends.

The hazards behind this list, each at its line, are in `PROJECT.json`.

## 2. The modules

| Module | What it is |
|---|---|
| `Scheduling` | Reference tables (constants), rows, half-open overlap, the two availability queries, the two exclusion constraints. |
| `BookingData` | What a booking request carries, the record of a key, the answers; the constants' assumptions. |
| `AtomicBooking` | The abstract specification: each attempt is served in one step that sees both tables as they are, and is told nothing that is not so (`Truthful`). An attempt that was told of an error may still book, as long as it is `doubtful`. |
| `Booking` | `CreateAppointment` and `BookAppointment`, one action per SQL statement, with waits, failures and deadlocks. Safety, liveness and refinement properties. |
| `BookingInvariant` | The inductive invariant `IndInv`, in named parts. |
| `BookingLemmas` | Lemmas about rows, records, answers and the availability queries, which the proofs below share. |
| `BookingProofs` | `IndInv` is invariant, and what follows from it; `Booking` implements `AtomicBooking`. |
| `FallbackBooking` | `CreateAppointment` over a store without `BookAppointment`, one commit per statement, with or without a given technician and bay; its refinement of `AtomicBooking`, and where it departs from it. |
| `FallbackProofs` | Its invariant, its safety properties and the refinement. |
| `Upkeep`, `UpkeepProofs` | Booking while durations are edited and expired records deleted; the proofs of its safety. |
| `Readers` | The GET endpoints as functions of the committed rows. |
| `HttpApi`, `HttpApiProofs` | The POST handler with sessions and failing lookups, composed with `AtomicBooking` as its server and with `Readers`; the proofs of its safety. |
| `BookingPage`, `BookingPageProofs` | The submit handler of `app.js` and the Refresh button with their list, composed with `AtomicBooking` as its server; the proofs of its safety. |
| `AvailabilityPanel`, `AvailabilityPanelProofs` | `checkAvailability` and its timer, over the two availability queries, while others book; the proofs of its safety. |
| `Lifecycle`, `LifecycleProofs` | `main`: start-up and shutdown while requests are served; the proofs of its safety. |
| `MCCatalog`, `MC...` | Values of the constants for TLC. |

`Booking` implements `AtomicBooking`, and so does `FallbackBooking` where no technician
and no bay is given. `BookingPage` and `HttpApi` use only what
`AtomicBooking` promises: they are checked against the promise, not against
the transactions, which keeps the checks small. `Upkeep` relies on the same
refinement when it takes queries, insert, completion and commit as one step.

### Booking, and the code

An *attempt* is one run of `AppointmentService.CreateAppointment`. `pc` is the
statement it runs next, `conn` its pool connection, `technicians` and `bays` the
results of the two queries, `inserted` the row its transaction has inserted but
not committed. `appointments` and `idempotency` are the *committed* tables. The
uncommitted record of a key is not a variable: `HoldsKey` derives it from `pc`.

| Action | Code |
|---|---|
| `RejectMissingKey`, `LoadServiceType` | `appointment.go:119-148` |
| `Begin` | `booking.go:35-43` |
| `ClaimKey` | `booking.go:45-53`, `INSERT ... ON CONFLICT (key) DO NOTHING` |
| `LookUp`, `Replay` | `booking.go:53-72` |
| `CheckVehicle` | `booking.go:74-86` |
| `FindTechnicians`, `FindBays` | `booking.go:88-104` |
| `InsertRow`, `CheckTechnicianIndex`, `CheckBayIndex` | `booking.go:106-118` and the constraints of V1 |
| `Complete`, `Commit` | `booking.go:119-132` |
| `Refuse`, `Close` | every `return err`, with the deferred rollback of `booking.go:39-43` |
| `QueryFails`, `LoseConnection` | any statement that returns an error, and the death of the server |
| `AbortLost`, `CommitLost`, `BreakDeadlock` | PostgreSQL |

How PostgreSQL is modelled:

* A statement sees the rows committed when it starts (READ COMMITTED).
* `ON CONFLICT DO NOTHING` waits for an uncommitted insert of the same key, then
  claims the key if that transaction rolled back and finds it if it committed.
* An insert puts the row into the table and into the first exclusion index, looks
  there for a clash, and only then goes on to the next index. A clash with a
  committed row is an error (23P01); a clash with an uncommitted one waits for
  that transaction. Since a row is entered before it is checked, two inserts can
  wait for each other, and the deadlock detector aborts one (40P01,
  `BreakDeadlock`). An attempt that waits for a key holds nothing; one that waits
  in an index waits for a row in that same index; so a cycle of waits stays within one
  index, where waiting is symmetric, and contains two attempts that wait for
  each other.
* `CheckTechnicianIndex` refuses at once when a committed row clashes even if an
  uncommitted one also does; PostgreSQL may meet the uncommitted one first. The model
  allows both orders, since the attempt may also be overtaken before its check.
* A connection that is lost leaves its transaction, with its key and its rows,
  alive until the database notices (`AbortLost`), or until a COMMIT that was
  already under way takes effect (`CommitLost`). A rollback that runs with a
  cancelled context (`booking.go:41`) is of this kind. The attempt's caller has
  been told of an error, or nothing at all; both are the answer `"error"`. In `AtomicBooking` an
  attempt whose COMMIT was lost is `doubtful` (`InDoubt` of the refinement mapping): it books
  later (`Book`) or not at all (`GiveUp`), and until then nobody hears under its key that
  nothing is available.

Abstractions: SHA-256 is injective, so a digest is the record of its fields; an
appointment's fresh uuid is the attempt's name; the two reads of constant tables
(`booking.go:75` and `:83`) are one action; instants are numbers; reference tables
do not change, because no code changes them (`Upkeep` has what SQL may change).

### The booking page, and the code

`handler[c]` says what the submit handler of click `c` awaits: the availability
check (whose two queries run at two instants), the POST, or the reload of the
list (`"list"` before its SELECT has run, `"rows"` after). A reload that no click has begun, by
the Refresh button or after a second login, is a member of `Refreshes` (`Refresh`, `RefreshFails`). `Click` is the
code up to the first `await`; `TellUnavailable`, `Post`, `ShowAnswer`, `ListLoaded`
the stretches between awaits; `CheckTechnicians`, `CheckBays`, `QueryList` the server's part of a GET;
`FetchFails` the `catch`. `session` is the customer whom the cookie names: the POST is
made for them and the list is theirs, and other tabs change it at any time (`SwitchSession`).
Clicks are named like the attempts they post, and keys like the click that drew them. Four
history variables state a property and influence nothing: `intent` numbers maximal runs of
clicks for one payload, `overtaken` remembers a click that came while a handler for another
payload was running, `switched` that the session has changed, and `crossed` that a
booking was confirmed while a Refresh was under way whose rows lack it.

`AvailabilityPanel` has the other half of the page. `Change` is a change event of
one of the three fields, which starts the timer; `Fire` the timer; `Submit` the check of the submit
handler, which leaves the timer alone. `check[k]` is where one run of `checkAvailability` is and what its
two statements have found. `Show` writes the panel whatever the form says by
now, as the code does. `CheckFails` writes the panel for a timer's check and not for a
submit's. `Book` lets others commit bookings meanwhile.

### The path without a transaction, and the code

`FallbackBooking` is `appointment.go:119-140` and `:162-242`. Each action is a statement with its
commit; `StatementFails` is an error, before or after the statement took effect, and a process that
dies. `given` is the `TechnicianID` and the `ServiceBayID` of the input, each of which may be null: the handler
leaves both null, the unit tests, which are this path's only callers, set both. With both,
neither availability query runs (`NothingToFind`, `:186`); one that is given is inserted as it is, be it
unqualified or of another dealership (`Technician`, `Bay`, `:184-213`); and both are part of the hash (`InputHash`).
An id that no row has fails at a foreign key, which is one way in which the insert may fail.
The refinement mapping: an attempt has booked in `AtomicBooking` as soon as its row
exists (`Booked`), its key counts as recorded from then on (`BookedKeys`), and a key that is only claimed
does not exist there, nor do the answers it gives: `in_progress` and `conflict` map to the
error that `AtomicBooking` allows at any time. Nobody is `doubtful`. A booking with a given technician or
bay is no step of `AtomicBooking`, which books who can do the work; it is the step `BookGiven`, which asks of
them only that they are free. A 23P01 is an error here, because this path does not
translate it.

### Upkeep, and the code

The steps of an attempt are those between which an edit or a deletion can matter:
the hash (`HashRequest`, with the duration that the service reads), the expiry (`Begin`),
the claim, the lookup, the replay, the second read of the duration
(`ReadDuration`), and the rest of the transaction (`Book`, `FindNothing`). Making the rest one step
is sound for what is asked here: rows only take resources away, so a technician who headed the list when it was read
and is free at the commit heads the list of those free at the commit. `Edit` is an UPDATE of
`service_types` in SQL, `DeleteExpired` the query of `idempotency.sql.go:82`, which nothing
calls and `README.md:412` plans a job for.

### The HTTP API, and the code

`Receive` is `createAppointment` of `router.go` up to the call of the service: parameters in their order,
the user from header or cookie, the vehicles of the user, the start; a failed lookup
reads like an empty one (`router.go:340`). `Respond` is the switch over errors. `Login` and
`Logout` change the cookie at any time. `post[a].heard` is history: the attempts that had been answered
when `a` was sent. `Readers` has one function per GET
endpoint: status and rows for given committed rows, parameters and user, and 500 where its query
fails. Left out are the branches for a router without an `AuthService` (`router.go:248-253` and
the like): `main` always passes one.

### Shutdown, and the code

`Lifecycle` counts time in units of five seconds (`ReadHeaderTimeout`, half of
`WriteTimeout` and of the shutdown's timeout). `phase` is where `main` is; the deferred
calls run in reverse order, so `pool.Close` comes first (`ShutdownReturns`, which closes it, and
`Exit`, which waits for its connections), `stop()` after it. A failing listener calls
`stop()` early (`ListenFails`), which gives signals their default action again.
`net/http` and `pgxpool` are modelled from what `main` relies on, and marked external in the map:
Shutdown waits for connections that are not idle, also fresh ones; Close refuses new
acquisitions and waits for the others; neither cancels anything.

## 3. What is checked

Every instance has one dealership with two technicians and two bays, and one
technician and one bay of another dealership. Technician 1 and bay 1 alone can do
brakes; any of the first two of each can do oil. Two appointments exist beforehand: a completed
one that overlaps everything (so a query or a constraint that forgot the status
would fail), and a confirmed one that takes technician 1 with bay 2, so that two
requests can be given different technicians and the same bay. The page's instances
leave the other dealership out.

| Run | Question | Instance | Outcome |
|---|---|---|---|
| `booking_safety` | Are tables, records and answers consistent whatever interleaves or fails? Is `IndInv` an invariant? | 3 attempts, 9 requests, pool 2, 2 failures | holds |
| `booking_liveness` | Is booking linearizable? Is everyone answered, and does every transaction end? | 3 contending attempts, pool 2, 1 failure | holds |
| `booking_deadlock` | Is a lost race always answered 409? | 2 attempts, no failure | violated |
| `booking_refusal` | Is "no availability" given only when there is none? | 2 attempts, no failure | violated |
| `fallback` | Do statements without a transaction still book atomically? Why are keys stuck? | 3 attempts, 6 requests, also 3 with given ids, 2 failures | holds |
| `upkeep` | Do edits and the cleanup make answers false or a key book twice? | 3 attempts, 3 requests, 1 edit, retention 1, clock to 2 | holds |
| `page_safety` | Is a confirmation of one's own booking, and in the list? Does a repeated click book once? | 2 clicks, 2 payloads, 1 Refresh, 1 lost answer, 2 customers | holds |
| `page_keys` | Does a key go with one payload? | 2 clicks | violated |
| `page_retry` | Is a retry of a booking answered with it? | 2 clicks | violated |
| `panel` | Is the panel true, and about the form? Does "checking" end? | 2 checks, 3 choices, 1 booking by others | holds |
| `api_safety` | Do status codes and readers agree with what was booked, and the three vehicle checks with each other? | 2 POSTs of 9 kinds, 2 users, 1 failed lookup | holds |
| `shutdown` | Is anything cut off that need not be? Does the process end? | 3 connections | holds |

The bounds. `Attempts` (clicks, for the page; checks, for the panel; connections) is finite, so is the run of the system: it stops
when all are answered, which is why TLC's deadlock check is off. That nobody is stuck
*before* that is what the liveness properties show. Three attempts are two that conflict plus a
retry or a third competitor, and with a pool of two the third must also wait
for a connection. `MaxFailures` bounds statement failures and lost connections (failed lookups, in `HttpApi`); two allow a failed
attempt whose retry fails as well. `MaxLostAnswers` bounds failed fetches. The page has two clicks: a
double click, a retry, or a click for something else while the first one runs; with one Refresh
and any number of changes of session that is already half a million states. The proofs speak of any number of each.
In `fallback` a request also comes with a technician and a bay that cannot do it, and its competitor
with a technician alone, or with that same bay and a technician of the other dealership. In `Upkeep` each edit
happens at most once; a retention of one tick and a clock of two let a record be
fresh, expire, and be replaced by one that is still fresh. In `HttpApi` every window between
0 and `Horizon` is asked for. Two checks are
enough for an answer to overtake another; a third only repeats it. Symmetry
over attempts is used in safety runs only (the refinement of `fallback`, `Atomic!Spec`, assumes no fairness and is
safety too); an attempt's name occurs in properties
under quantifiers alone.

What the properties say, beyond the types:

* `NoDoubleBooking`: the tables never hold two confirmed overlapping rows of
  one technician or bay. A model that does not wait for uncommitted rows breaks it.
* `OneAppointmentPerKey`, `RecordsMatchBookings`: over retries, duplicates, lost commits.
* `AnswersFulfilRequests`: a replay gives the retry what *it* asked for.
* `RefusalHasCause`: nobody is refused because of a competitor that rolled back.
* `Linearizable`: every step is a step of `AtomicBooking` or invisible there. A claim of
  a key, the queries and the insert are invisible; `Publish` is the booking. In
  particular the status `in_progress` is never seen by anyone.
* `EveryAttemptAnswered`, `EveryTransactionEnds`: with waits, deadlocks, a pool
  smaller than the number of attempts, and clients that vanish.
* `BooksAtomically`: what a transaction adds is not atomicity of bookings, which the two
  constraints and the key give by themselves, but that keys do not get stuck: `StuckKeysHaveCause` says
  after which answers they do. A technician or bay that is given is booked without a question (`BookGiven`):
  it is booked once at a time, and need not be able to do the work. `ConfirmationsAreKept`: a 201 comes after
  the completion, and is of the technician and the bay that were given, or of able ones.
* `AnswersAreOfRequests`, `ConflictHasCause`: an edit between the two reads
  books by the later one, and a retry after an edit may be refused, but nobody
  else is. The first property accepts any duration that the service ever had, and the second any conflict
  after an edit, because the code promises no more; they still exclude the replay of
  another request and a conflict with nothing.
* `RebookingNeedsExpiry`, `RetainedUntilExpiry`, `GapNeedsExpiry`: deleting what has
  expired never touches a key that is still good, at any point of any attempt.
* `ConfirmationIsOwn`: what protects the page when a key is used for two
  payloads is the server's hash.
* `OneBookingPerIntent`: the pending key makes retries safe as long as
  no click overtakes a running handler.
* `ConfirmedIsListed`: the reloads of the submit handlers overtake each other, yet none can lack what the status line
  confirms, since each runs after its own booking and repeated clicks share one. Three cases are
  excluded, in which the page really ends without it: a click that overtook a handler for
  something else, a session that another tab has changed, and a Refresh (`app.js:203`) that was on its
  way with rows from before the booking. A list that shows an error shows no booking either.
* `AvailableWasTrue`, `UnavailableIsFinal`: two statements make one answer because bookings only
  take away. A cancellation feature would break both.
* `SettledPanelIsCurrent`, `CheckingEnds`: with the two exceptions the code has, a check that
  overlaps another (`overlapped`: the older answer may stay) and a submit's check that
  fails (`abandoned`: the panel stays at checking). These two go wrong, and the properties do not deny it; they say that nothing else does.
* `CreatedIsReadable`, `TechnicianViewsAgree`, `OfferedIsAccepted`: queries written in different
  files agree.
* `RefusedNeverBooks`: a client that waits for each answer before it tries again, and hears 400, 401 or 409,
  may forget the request: no attempt for it that was over by then, one answered 500 among
  them, has booked or will. An attempt whose answer was not awaited may still book. A lookup that
  fails is the exception (`router.go:340`): the 401 or 400 after it says that this attempt does
  not book, and nothing of earlier ones.
* `NoTransactionCut`, `AnswerableIsNotCut`, `StopEnds`: see *Shutdown*. The first excepts a listener that has
  failed (`broken`): its `stop()` takes the signal handler away (`main.go:62`), and a signal during the
  shutdown that follows does kill transactions. The shutdown's timeout being no shorter than
  the write timeout is what makes the second true.

Fairness. `Booking` assumes that a goroutine whose statement can run does run it
(the Go scheduler and a PostgreSQL backend each), that a deadlock is broken
(`deadlock_timeout`) and that a lost connection is noticed (TCP). All are weak; a
wait ends because what it waits for ends. Of failures, and of which way a lost
COMMIT goes, nothing is assumed. `AvailabilityPanel` assumes that a check's fetch is
answered and its callback runs; that it fails instead is allowed and not assumed. `Lifecycle` assumes that `main` and handlers go on, that
statements end (`EveryTransactionEnds` of `Booking`) and that time passes; of clients and
signals nothing. The other modules state safety only.

### Disagreements between the documents and the code

* `README.md:439`: "Return `409 Conflict` when availability changes during the
  request." A deadlock between two inserts is 40P01, which `booking.go:114` does
  not translate: the loser is answered 500 (`booking_deadlock`). A client that
  retries is served, and no appointment is lost or doubled.
* `README.md:257`: "If no valid technician/bay combination exists, the system returns
  `409 Conflict`.", `:258`: "Otherwise, the system creates the appointment and completes the
  idempotency record inside the same database transaction.", and of 409 `:157`: "No resource combination is
  available, or an idempotency key is reused with a different payload". `booking.go:108-109` tries one combination; when its technician or
  bay has gone, the attempt is refused though others are free (`booking_refusal`). The document is not of one
  mind here: `:359-367` sketches a rollback and a 409 when the second check finds a conflict, and
  `:439` wants a 409 when availability changes during the request, which is what the code does.
* `README.md:78`: "a unique idempotency key for the logical booking attempt".
  `app.js:184` reads the shared `pendingAttempt.key` after an `await`
  (`page_keys`). The server's hash check turns the mistake into a 409, or the
  first click gets the second one's key.
* `README.md:78`: "Retrying the same payload with the same key returns the original
  response". `app.js:175-178` checks availability first and, when the booking being
  retried took the last resource, never sends the retry (`page_retry`).

Further disagreements, seen while modelling and stated here without a run of their own:

* `README.md:156` promises 404 for an unknown service; the service lookup's
  `pgx.ErrNoRows` reaches the default branch of `router.go:282` and is answered 500
  (`StatusOf("error")` in `HttpApi`).
* `README.md:158` keeps 500 for unexpected failures; a failed lookup of the user or of
  the vehicles is answered 401 or 400 (`Receive` in `HttpApi`).
* `README.md:404`: a retry of the same payload gets the original response. The
  hash contains the end time (`appointment.go:129`), so after an edit of the duration it
  gets 409 (the first disjunct of `ConflictHasCause` in `Upkeep`).
* `README.md:579-580`: the page checks availability of what the user chose. When
  two checks overlap, the panel may keep the older answer (`app.js:98-113`;
  `overlapped` in `AvailabilityPanel`).
* `README.md:110` lists appointments by dates; the handler parses RFC 3339 times
  only and answers 400 (`ParseInterval` in `Readers`).

## 4. What is proved

TLAPS proves every safety property of every run that holds, the action property
`GapNeedsExpiry` and both refinements, for every value of the constants. What is
left to TLC alone is liveness (fairness and ENABLED are beyond the prover):
`EveryAttemptAnswered`, `EveryTransactionEnds`, `CheckingEnds` and `StopEnds`. No module
uses recursion. Each component has an inductive invariant `IndInv` of its own, which
TLC has checked on the instance of the run before it was proved; a proof has one
lemma per action, or per conjunct where there are many actions.

### What is assumed of the constants

| Assumption | What it says | Why |
|---|---|---|
| `SchedulingAssumption` | Ids of technicians and bays are naturals, durations positive. | `ORDER BY id`; the `CHECK` of `service_types`. |
| `BookingDataAssumption` | Identifiers do not collide; the rows there are satisfy the constraints. | fresh uuids; the exclusion constraints. |
| `BookingAssumption` | The pool is not empty. | `pgxpool` refuses that. |
| `FallbackBookingAssumption` | Requests are for vehicles of the customer. A technician or bay that is given is null or the id of a row. | This path does not check the vehicle; the handler, which calls it, does (`router.go:243-247`). Another id fails like any insert. |
| `UpkeepAssumption` | So they are, and for services that exist; edited durations are positive. | The refusals of other requests are those of `Booking` and leave no trace; the `CHECK` of `service_types`. |
| `AvailabilityPanelAssumption` | Choices name a service of the list. | the `<select>` elements |
| `BookingPageAssumption` | The requests are the payloads under drawn keys, none of which is empty, for any customer; payloads name services of the list. | `crypto.randomUUID`, the `<select>` elements |
| `ReadersAssumption`, `HttpApiAssumption` | A customer has one user; what does not parse is no id and no instant. A confirmed row that is there beforehand has a technician of its dealership. | `UNIQUE` of `users`; no constraint says the last, but `CreateAppointment` alone inserts confirmed rows, of technicians of the dealership. |

Each also says that `Null` is none of the values it stands beside. `ViewsAgree`
alone needs the technician's dealership.

### Booking

* `Invariance`: `Spec => []IndInv`;
* `TypeCorrect`, `NeverDoubleBooked`, `OneBookingPerKey`, `RecordsConsistent`,
  `AnswersHonest`, `RefusalsJustified`: each safety invariant of `booking_safety`;
* `Linearization`: `Spec => Linearizable`, the refinement.

None of the safety properties is inductive: that a commit keeps the
tables free of clashes depends on what happened when its row passed each index, and on
every other uncommitted row. `IndInv` says it in parts:

* `Progress`, `Candidates`: what an attempt knows by the statement it has reached.
* `KeyHeldOnce`: no two open transactions hold one key, and none holds a key that
  has a record. `ClaimKey` establishes it, because it waits and then looks.
* `TechniciansReserved`, `BaysReserved`: a row that has passed an index clashes in it with no
  committed row and with no other row that has passed. A row passes only when
  it need not wait, so when a second one comes to the same check it finds the
  first, which was in the index already; that a row is entered *before* it is
  checked is what makes this true. `NoDoubleBooking` follows, since a row is
  published only after both indexes.
* `Records`, `AnswersOnRecord`: the two tables match, and whoever was confirmed, or is
  about to replay, has a record with the same hash.
* `RefusalsCaused`: committed rows are never removed, so what emptied a list
  stays.

`Linearization` uses `IndInv` for the steps that change an abstract variable:
`Publish` needs `KeyHeldOnce` and the two `...Reserved` parts to be a `Book` of
the abstract specification, `Replay` needs `AnswersOnRecord`, a conflict needs
`Records` and a refusal for lack of availability `RefusalsCaused`.

### The path without a transaction

`ConfirmedForGood` (`ConfirmationsAreKept`), `StuckKeysExplained`
(`StuckKeysHaveCause`) and the refinement `BooksLikeATransaction`
(`BooksAtomically`). Here a key is held across commits, by whoever wrote its
record, until that attempt ends; and it stays taken if the attempt fails. So
`KeysBookOnce` cannot speak of open transactions: it says that of all attempts with
one key, at most one holds it or has a row, and that the key of a row is taken for
good. `Claims` says whose each record is: a complete one is of an attempt that has its
row, an incomplete one of a `Claimant`, which is still at work or was told of an error,
of a lack of availability or of a confirmation. That is the cause that `StuckKeysHaveCause` asks for.
`Supplied`: whatever was not given has been found, before the insert. `BooksAsGiven` is what `Bookings`
says of a row, since nothing says that a given technician is qualified. `UngivenImplementsAtomic`: where no
caller gives one, as the handler does not, the refinement has no exception (`Spec => Atomic!Spec`).
In the refinement `InsertRow` is the step that books; `KeysBookOnce` gives it a key that is unused in
`AtomicBooking`, where the record appears with the row.

### Upkeep

`AnsweredAsAsked`, `ConflictExplained`, `KeysOutliveRetries`, `RecordsRetained` and, for
the action property, `GapExplained`. `RebookingNeedsExpiry` is about two attempts and the
time, and what carries it is `ClaimsAreFresh`: whoever has claimed a key has no rival, finds no
record, and everybody who has booked under that key has expired by now. It
holds because `RecordsStay` keeps the record of each unexpired booking, so that a claim that
succeeds shows there is none, and because expiry is for good. `DurationsWereSet`
and `HashesAreOfRequests` say that a hash is of a duration which the service once had, so that equal hashes
are of one request (`ConflictHasCause`, `AnswersAreOfRequests`).

### Booking page

`ConfirmedIsOwn`, `BooksOnce` (`OneBookingPerIntent`) and `RestingPageLists`
(`ConfirmedIsListed`). `Promise` and `ConfirmationsOnRecord` are what the server
contributes, from the steps of `AtomicBooking`: one record per key, of the row of its
attempt. `Handlers` says what a click has sent by where its handler is. `OneKeyPerIntent` is the page's part: as long as nothing was overtaken, whatever runs is
of the latest intent and of the pending payload, all that was posted for the latest intent was posted under the pending
key, and all that was posted for any one intent under one key. `IsLatest` is what makes this
inductive, since a click that changes the intent abandons the pending key, and no
running handler may still be about to use it. Together they show that two confirmations of one intent are of
one appointment (`OneAppointmentPerIntent`), which is why it does not matter which handler's reload comes
last. `OneSession` adds that, while no other tab has changed the session, a reload after a confirmation
has what was confirmed, and `ShownIsAnswered` that a Refresh which has not crossed the booking has it too.

### Availability panel

`AvailableHonest`, `UnavailableHonest` and `PanelCurrent`. `FoundEnough` says that what
a statement has found is all that is free by now, or more, and ties the first
statement's finding to the instant at which the second could still have been true: bookings
only shrink both lists. `OneAtATime` is what the page does without an overlap.

### HTTP API

`CreatedForAllToSee` (`CreatedIsReadable`), `OffersAccepted` (`OfferedIsAccepted`), `RefusalsFinal`
(`RefusedNeverBooks`) and `ViewsAgree` (`TechnicianViewsAgree`). `PassedOn`: a request is its
body on behalf of its `Sender`, whatever the cookie says by now, and no refusal was `Due` to it.
`StatusesExplained`: a status is that of the answer or a refusal, the due one as long as no lookup
has failed; since what is due depends on body and sender alone, no earlier attempt for the same
request can have got further.
`Promise`: whoever has a row was told of it or of an error, so that a row and a
400, 401 or 409 exclude each other, also when the row is committed after an error.
`Doubts`: only who was told of an error may still book. `LastWords`: when an attempt hears that nothing is
available, no earlier one for the same request has booked or is in doubt, and a conflict is with a record
that no attempt for this request can have made.
`Local`: confirmed rows are of technicians of their dealership. That is what the admin page's list, which
is selected by dealership, needs in order to show why a technician is busy.

### Shutdown

For any set of connections: `TypeCorrect`, `TransactionsSurvive`
(`NoTransactionCut`) and `ShutdownInTime` (`AnswerableIsNotCut`).
`AnswerableIsNotCut` speaks of the moment after the return and says nothing of how
old requests are before it; `InTime` adds that a request found under way is at least as old as the
shutdown, so that the timeout that ends the one has passed for the other. `Guarded`
adds that a signal is caught unless the listener has failed or the process has ended.

## 5. What is not modelled, and the plan

Not modelled, because nothing of it could go wrong in a way that a model would show:

* the login form, the filling of the option lists and the styles of the pages, which write what
  nothing else reads; passwords (a wrong one changes nothing);
* the admin page: its two answers are in `Readers`; what is left is a list and a
  filter with the race of the availability panel (`admin.js:82`);
* `ExecTx` and `ExecTxWithOptions`, which nothing calls; configuration (a start that may fail, in `Lifecycle`); health and
  static files; sample data.

What could come next:

1. The three ways in which a page ends without what it confirms, as findings, if a document ever
   promises otherwise; `README.md:579-580` promises it of the panel only.
2. A model of several server processes that stop and start between two requests of one
   page: `Lifecycle` and `Booking` are composed on paper only, through `EveryTransactionEnds`.
3. The race of the admin page, if the page is ever to change something.
