------------------------------ MODULE Booking -------------------------------
(***************************************************************************)
(* AppointmentService.CreateAppointment over Store.BookAppointment, on a   *)
(* PostgreSQL database at its default isolation level, READ COMMITTED.     *)
(*                                                                         *)
(* Every attempt is a goroutine that runs one SQL statement per action.  A *)
(* statement reads the rows committed when it starts.  Two statements wait *)
(* for other transactions: the claim of an idempotency key, and the insert *)
(* of an appointment, which enters the row into the two exclusion indexes  *)
(* one after the other and only then looks there for a clash.              *)
(***************************************************************************)
EXTENDS BookingData, FiniteSets

CONSTANTS
  PoolSize,     \* connections in the pgxpool
  MaxFailures   \* bound on failed statements and lost connections

ASSUME BookingAssumption == PoolSize \in Nat \ {0} /\ MaxFailures \in Nat

VARIABLES
  request, appointments, idempotency, answer,  \* as in AtomicBooking
  pc,           \* the statement the attempt runs next
  conn,         \* its connection: "none", "open", or "lost" with the
                \* transaction still alive in the database
  technicians, bays,  \* results of the two availability queries
  inserted,     \* the appointment row the transaction has inserted, if any
  failures      \* failures so far

tables == <<appointments, idempotency>>
locals == <<technicians, bays>>
vars == <<request, appointments, idempotency, answer,
          pc, conn, technicians, bays, inserted, failures>>

\* Lost while their COMMIT may have been on its way.
InDoubt == {a \in Attempts : conn[a] = "lost" /\ pc[a] = "commit"}

Atomic == INSTANCE AtomicBooking WITH
            request <- request, appointments <- appointments,
            idempotency <- idempotency, answer <- answer,
            doubtful <- InDoubt

Statements ==
  {"service", "begin", "claim", "lookup", "replay", "vehicle", "technicians",
   "bays", "insert", "technicianIndex", "bayIndex", "complete", "commit"}

TypeOK ==
  /\ request \in [Attempts -> Requests]
  /\ appointments \subseteq AppointmentRows(AppointmentIds)
  /\ idempotency \subseteq IdempotencyRows
  /\ answer \in [Attempts -> Answers]
  /\ pc \in [Attempts -> Statements \cup {"end"}]
  /\ conn \in [Attempts -> {"none", "open", "lost"}]
  /\ technicians \in [Attempts -> SUBSET Technicians]
  /\ bays \in [Attempts -> SUBSET Bays]
  /\ inserted \in [Attempts -> SUBSET AppointmentRows(AppointmentIds)]
  /\ failures \in 0 .. MaxFailures

Init ==
  /\ request \in [Attempts -> Requests]
  /\ appointments = SeedAppointments
  /\ idempotency = {}
  /\ answer = [a \in Attempts |-> Pending]
  /\ pc = [a \in Attempts |-> "service"]
  /\ conn = [a \in Attempts |-> "none"]
  /\ technicians = [a \in Attempts |-> {}]
  /\ bays = [a \in Attempts |-> {}]
  /\ inserted = [a \in Attempts |-> {}]
  /\ failures = 0

-----------------------------------------------------------------------------
(* Uncommitted writes, seen by others only as something to wait for. *)

\* Past "claim" without finding the key: the transaction has inserted it.
HoldsKey(a) ==
  pc[a] \in {"vehicle", "technicians", "bays", "insert", "technicianIndex",
             "bayIndex", "complete", "commit"}

InTechnicianIndex(a) == inserted[a]
InBayIndex(a) ==
  IF pc[a] \in {"bayIndex", "complete", "commit"} THEN inserted[a] ELSE {}

MutantKeyWait(a, b) == FALSE

\* ON CONFLICT DO NOTHING waits for a transaction that has inserted the key.
KeyWait(a, b) == HoldsKey(b) /\ request[b].key = request[a].key

TechnicianWait(a, b) ==
  \E x \in inserted[a], y \in InTechnicianIndex(b) : TechnicianClash(x, y)

MutantBayWait(a, b) == FALSE

BayWait(a, b) ==
  \E x \in inserted[a], y \in InBayIndex(b) : BayClash(x, y)

\* The attempt's next statement is held up by the transaction of b.
WaitsFor(a, b) ==
  /\ a # b
  /\ \/ pc[a] = "claim" /\ KeyWait(a, b)
     \/ pc[a] = "technicianIndex" /\ TechnicianWait(a, b)
     \/ pc[a] = "bayIndex" /\ BayWait(a, b)

Unblocked(a) == \A b \in Attempts : ~WaitsFor(a, b)

PoolHasRoom == Cardinality({a \in Attempts : conn[a] = "open"}) < PoolSize

-----------------------------------------------------------------------------
(* Ends of an attempt. *)

\* The transaction is over, its connection back in the pool, its locals gone.
Close(a) ==
  /\ pc' = [pc EXCEPT ![a] = "end"]
  /\ conn' = [conn EXCEPT ![a] = "none"]
  /\ technicians' = [technicians EXCEPT ![a] = {}]
  /\ bays' = [bays EXCEPT ![a] = {}]
  /\ inserted' = [inserted EXCEPT ![a] = {}]

\* An error return without the deferred rollback.
MutantRefuse(a, outcome) ==
  /\ answer' = [answer EXCEPT ![a] = Refused(outcome)]
  /\ UNCHANGED <<request, tables, pc, conn, locals, inserted, failures>>

\* return err: the deferred function rolls the transaction back.
Refuse(a, outcome) ==
  /\ answer' = [answer EXCEPT ![a] = Refused(outcome)]
  /\ Close(a)
  /\ UNCHANGED <<request, tables, failures>>

Goto(a, statement) == pc' = [pc EXCEPT ![a] = statement]

\* The attempt runs a statement of its own: it has a caller to answer.
At(a, statement) == pc[a] = statement /\ conn[a] # "lost"

-----------------------------------------------------------------------------
(* AppointmentService.CreateAppointment, before the transaction. *)

RejectMissingKey(a) ==
  /\ At(a, "service")
  /\ request[a].key = EmptyKey
  /\ Refuse(a, "key_required")

\* GetServiceType, on a connection of its own that it returns at once.
LoadServiceType(a) ==
  /\ At(a, "service")
  /\ request[a].key # EmptyKey
  /\ PoolHasRoom
  /\ \/ /\ request[a].service \in Services
        /\ Goto(a, "begin")
        /\ UNCHANGED <<request, tables, answer, conn, locals, inserted, failures>>
     \/ /\ request[a].service \notin Services
        /\ Refuse(a, "error")

-----------------------------------------------------------------------------
(* Store.BookAppointment. *)

Begin(a) ==
  /\ At(a, "begin")
  /\ PoolHasRoom
  /\ conn' = [conn EXCEPT ![a] = "open"]
  /\ Goto(a, "claim")
  /\ UNCHANGED <<request, tables, answer, locals, inserted, failures>>

KeyTaken(a) == \E existing \in idempotency : existing.key = request[a].key

\* CreateIdempotencyRequest
ClaimKey(a) ==
  /\ At(a, "claim")
  /\ Unblocked(a)
  /\ Goto(a, IF KeyTaken(a) THEN "lookup" ELSE "vehicle")
  /\ UNCHANGED <<request, tables, answer, conn, locals, inserted, failures>>

MutantSameRequest(a, existing) == TRUE

SameRequest(a, existing) == existing.hash = RequestHash(request[a])

\* GetIdempotencyRequest
LookUp(a) ==
  /\ At(a, "lookup")
  /\ \E existing \in idempotency :
       /\ existing.key = request[a].key
       /\ \/ /\ SameRequest(a, existing)
             /\ existing.status = "completed" /\ existing.appointment # Null
             /\ Goto(a, "replay")
             /\ UNCHANGED <<request, tables, answer, conn, locals, inserted, failures>>
          \/ /\ \/ ~SameRequest(a, existing)
                \/ existing.status # "completed" \/ existing.appointment = Null
             /\ Refuse(a, IF SameRequest(a, existing) THEN "in_progress" ELSE "conflict")

\* GetAppointment and Commit.  existing is read again here: a completed row of
\* idempotency_requests is never written.
Replay(a) ==
  /\ At(a, "replay")
  /\ \E existing \in idempotency, row \in appointments :
       /\ existing.key = request[a].key
       /\ existing.appointment = row.id
       /\ answer' = [answer EXCEPT ![a] = Confirmed(row)]
  /\ Close(a)
  /\ UNCHANGED <<request, tables, failures>>

\* The same two reads on a connection of their own, while holding one.
MutantCheckVehicle(a) ==
  /\ At(a, "vehicle")
  /\ PoolHasRoom
  /\ \/ /\ OwnsVehicle(request[a])
        /\ Goto(a, "technicians")
        /\ UNCHANGED <<request, tables, answer, conn, locals, inserted, failures>>
     \/ /\ ~OwnsVehicle(request[a])
        /\ Refuse(a, "not_owned")

\* SELECT EXISTS on vehicles, then SELECT duration_minutes: both tables are
\* constant, so the two reads are one action.
CheckVehicle(a) ==
  /\ At(a, "vehicle")
  /\ \/ /\ OwnsVehicle(request[a])
        /\ Goto(a, "technicians")
        /\ UNCHANGED <<request, tables, answer, conn, locals, inserted, failures>>
     \/ /\ ~OwnsVehicle(request[a])
        /\ Refuse(a, "not_owned")

FindTechnicians(a) ==
  /\ At(a, "technicians")
  /\ technicians' =
       [technicians EXCEPT ![a] = AvailableTechnicians(appointments, request[a])]
  /\ Goto(a, "bays")
  /\ UNCHANGED <<request, tables, answer, conn, bays, inserted, failures>>

\* Refuses only when both lists are empty.
MutantFindBays(a) ==
  LET found == AvailableBays(appointments, request[a])
  IN  /\ At(a, "bays")
      /\ \/ /\ technicians[a] # {} \/ found # {}
            /\ bays' = [bays EXCEPT ![a] = found]
            /\ Goto(a, "insert")
            /\ UNCHANGED <<request, tables, answer, conn, technicians, inserted, failures>>
         \/ /\ technicians[a] = {} /\ found = {}
            /\ Refuse(a, "no_availability")

\* The query returns before either list is looked at.
FindBays(a) ==
  LET found == AvailableBays(appointments, request[a])
  IN  /\ At(a, "bays")
      /\ \/ /\ technicians[a] # {} /\ found # {}
            /\ bays' = [bays EXCEPT ![a] = found]
            /\ Goto(a, "insert")
            /\ UNCHANGED <<request, tables, answer, conn, technicians, inserted, failures>>
         \/ /\ technicians[a] = {} \/ found = {}
            /\ Refuse(a, "no_availability")

\* CreateAppointment, from here to CheckBayIndex: technicians[0] and bays[0].
\* The row enters the table and the index of the first constraint.
InsertRow(a) ==
  /\ At(a, "insert")
  /\ inserted' = [inserted EXCEPT ![a] =
       {AppointmentFor(a, request[a], First(technicians[a]), First(bays[a]))}]
  /\ technicians' = [technicians EXCEPT ![a] = {}]
  /\ bays' = [bays EXCEPT ![a] = {}]
  /\ Goto(a, "technicianIndex")
  /\ UNCHANGED <<request, tables, answer, conn, failures>>

TechnicianTaken(a) ==
  \E x \in inserted[a], y \in appointments : TechnicianClash(x, y)

BayTaken(a) ==
  \E x \in inserted[a], y \in appointments : BayClash(x, y)

\* Refuses whoever would have to wait, as under NOWAIT.
MutantCheckTechnicianIndex(a) ==
  /\ At(a, "technicianIndex")
  /\ \/ /\ TechnicianTaken(a) \/ ~Unblocked(a)
        /\ Refuse(a, "no_availability")
     \/ /\ ~TechnicianTaken(a)
        /\ Unblocked(a)
        /\ Goto(a, "bayIndex")
        /\ UNCHANGED <<request, tables, answer, conn, locals, inserted, failures>>

\* appointments_no_technician_overlap; once it holds, the row enters the
\* index of the next constraint.  A clash is SQLSTATE 23P01.
CheckTechnicianIndex(a) ==
  /\ At(a, "technicianIndex")
  /\ \/ /\ TechnicianTaken(a)
        /\ Refuse(a, "no_availability")
     \/ /\ ~TechnicianTaken(a)
        /\ Unblocked(a)
        /\ Goto(a, "bayIndex")
        /\ UNCHANGED <<request, tables, answer, conn, locals, inserted, failures>>

\* appointments_no_service_bay_overlap
CheckBayIndex(a) ==
  /\ At(a, "bayIndex")
  /\ \/ /\ BayTaken(a)
        /\ Refuse(a, "no_availability")
     \/ /\ ~BayTaken(a)
        /\ Unblocked(a)
        /\ Goto(a, "complete")
        /\ UNCHANGED <<request, tables, answer, conn, locals, inserted, failures>>

\* Answers before the transaction is committed.
MutantComplete(a) ==
  /\ At(a, "complete")
  /\ Goto(a, "commit")
  /\ \E row \in inserted[a] : answer' = [answer EXCEPT ![a] = Confirmed(row)]
  /\ UNCHANGED <<request, tables, conn, locals, inserted, failures>>

\* CompleteIdempotencyRequest
Complete(a) ==
  /\ At(a, "complete")
  /\ Goto(a, "commit")
  /\ UNCHANGED <<request, tables, answer, conn, locals, inserted, failures>>

\* Commits a key that was claimed and never completed.
MutantPublish(a) ==
  /\ appointments' = appointments \cup inserted[a]
  /\ idempotency' = idempotency \cup
       {[CompletedRow(request[a], Null) EXCEPT !.status = "in_progress"]}
  /\ Close(a)

\* Both writes become visible in one step.
Publish(a) ==
  /\ appointments' = appointments \cup inserted[a]
  /\ idempotency' = idempotency \cup {CompletedRow(request[a], a)}
  /\ Close(a)

Commit(a) ==
  /\ At(a, "commit")
  /\ Publish(a)
  /\ \E row \in inserted[a] : answer' = [answer EXCEPT ![a] = Confirmed(row)]
  /\ UNCHANGED <<request, failures>>

-----------------------------------------------------------------------------
(* Failures, and what the database does on its own. *)

\* A query fails before the transaction has begun.
QueryFails(a) ==
  /\ pc[a] \in {"service", "begin"}
  /\ failures < MaxFailures
  /\ failures' = failures + 1
  /\ answer' = [answer EXCEPT ![a] = Refused("error")]
  /\ Close(a)
  /\ UNCHANGED <<request, tables>>

\* The server dies, the request's context is cancelled or the connection
\* breaks.  The caller has no booking to show; the database does not know yet.
LoseConnection(a) ==
  /\ conn[a] = "open"
  /\ failures < MaxFailures
  /\ failures' = failures + 1
  /\ conn' = [conn EXCEPT ![a] = "lost"]
  /\ answer' = [answer EXCEPT ![a] = Refused("error")]
  /\ UNCHANGED <<request, tables, pc, locals, inserted>>

\* The database notices and rolls the transaction back.
AbortLost(a) ==
  /\ conn[a] = "lost"
  /\ Close(a)
  /\ UNCHANGED <<request, tables, answer, failures>>

\* COMMIT had reached the database before the connection was lost.
CommitLost(a) ==
  /\ conn[a] = "lost"
  /\ pc[a] = "commit"
  /\ Publish(a)
  /\ UNCHANGED <<request, answer, failures>>

\* The deadlock detector aborts a transaction of a wait cycle (SQLSTATE 40P01,
\* which BookAppointment does not translate).  Whoever waits for an insert is
\* at the same index as the transaction it waits for or behind it, so a cycle
\* contains two attempts that wait for each other.
BreakDeadlock(a) ==
  /\ conn[a] # "lost"
  /\ \E b \in Attempts : WaitsFor(a, b) /\ WaitsFor(b, a)
  /\ Refuse(a, "error")

-----------------------------------------------------------------------------

Step(a) ==
  \/ RejectMissingKey(a)
  \/ LoadServiceType(a)
  \/ Begin(a)
  \/ ClaimKey(a)
  \/ LookUp(a)
  \/ Replay(a)
  \/ CheckVehicle(a)
  \/ FindTechnicians(a)
  \/ FindBays(a)
  \/ InsertRow(a)
  \/ CheckTechnicianIndex(a)
  \/ CheckBayIndex(a)
  \/ Complete(a)
  \/ Commit(a)

Next ==
  \E a \in Attempts :
    \/ Step(a)
    \/ BreakDeadlock(a)
    \/ QueryFails(a)
    \/ LoseConnection(a)
    \/ AbortLost(a)
    \/ CommitLost(a)

Spec == Init /\ [][Next]_vars

\* Goroutines and backends are scheduled, deadlocks are detected
\* (deadlock_timeout) and lost connections are noticed.  Nothing is assumed of
\* failures, nor of which way a lost COMMIT goes.
Fairness ==
  \A a \in Attempts :
    /\ WF_vars(Step(a))
    /\ WF_vars(BreakDeadlock(a))
    /\ WF_vars(AbortLost(a))

FairSpec == Spec /\ Fairness

-----------------------------------------------------------------------------
(* Properties. *)

\* README 1, consistency: no two confirmed appointments of one technician, or
\* of one bay, overlap, whichever attempts made them and however their checks
\* interleaved.
NoDoubleBooking ==
  \A x, y \in appointments :
    x # y => ~TechnicianClash(x, y) /\ ~BayClash(x, y)

\* One idempotency key makes at most one appointment, through any number of
\* retries, concurrent duplicates, and attempts whose commit outlived them; and
\* all the attempts that are told of a booking under that key hear the same.
OneAppointmentPerKey ==
  \A a, b \in Attempts :
    request[a].key = request[b].key =>
      /\ (\E x, y \in appointments : x.id = a /\ y.id = b) => a = b
      /\ answer[a].outcome = "confirmed" /\ answer[b].outcome = "confirmed"
           => answer[a] = answer[b]

\* Appointment and idempotency record are committed together: every visible
\* record is completed and points to a visible booking of the very request
\* whose hash it stores, and every booking made here has its record.  So no
\* failure leaves a key claimed and unusable.
RecordsMatchBookings ==
  /\ \A rec \in idempotency :
       /\ rec.status = "completed"
       /\ \E row \in appointments :
            /\ row.id = rec.appointment
            /\ row.id \in Attempts
            /\ rec.key = request[row.id].key
            /\ rec.hash = RequestHash(request[row.id])
            /\ Fulfils(row, request[row.id])
  /\ \A row \in appointments :
       row.id \in Attempts => \E rec \in idempotency : rec.appointment = row.id

\* A 201 is about a committed appointment that books exactly what was asked,
\* for the caller's own vehicle, also when it replays another attempt's.
AnswersFulfilRequests ==
  \A a \in Attempts :
    answer[a].outcome = "confirmed" =>
      /\ answer[a].appointment \in appointments
      /\ Fulfils(answer[a].appointment, request[a])
      /\ OwnsVehicle(request[a])

\* 409 "no availability" is never given to a request nobody competes with: the
\* dealership cannot serve it at all, or a committed appointment overlaps it
\* on a resource that could.  A competitor that rolls back refuses nobody.
RefusalHasCause ==
  \A a \in Attempts :
    answer[a].outcome = "no_availability" => Contested(appointments, request[a])

\* Every step is a step of AtomicBooking, or invisible there.
Linearizable == Atomic!Spec

\* Every attempt is answered, with a pool smaller than the number of attempts
\* and any of them waiting for any other.
EveryAttemptAnswered == \A a \in Attempts : <>(answer[a] # Pending)

\* Every transaction ends, also one whose client is gone, so neither a key, a
\* slot nor a connection of the pool stays taken.
EveryTransactionEnds == \A a \in Attempts : <>[](pc[a] = "end" /\ conn[a] = "none")

-----------------------------------------------------------------------------
(* What the README says of refusals, which the code does not do. *)

\* README 10: "Return 409 Conflict when availability changes during the
\* request."  Where nothing fails, a valid request is never answered 500.
LosersGetConflict ==
  \A a \in Attempts :
    answer[a].outcome = "error" => failures > 0 \/ request[a].service \notin Services

\* README 5: "If no valid technician/bay combination exists, the system returns
\* 409 Conflict."  A request that is refused had no such combination left.
RefusalMeansFull ==
  [][\A a \in Attempts :
       answer'[a] = Refused("no_availability") /\ answer[a] = Pending =>
         \/ AvailableTechnicians(appointments, request[a]) = {}
         \/ AvailableBays(appointments, request[a]) = {}]_vars

=============================================================================
