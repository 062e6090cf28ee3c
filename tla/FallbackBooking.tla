-------------------------- MODULE FallbackBooking ---------------------------
(***************************************************************************)
(* AppointmentService.CreateAppointment over a store that does not offer   *)
(* BookAppointment: the same statements, each committed on its own.        *)
(*                                                                         *)
(* main.go passes a store that offers it; the stores of the unit tests do  *)
(* not.  The statements are taken to be those of database/sqlc, and the    *)
(* tables those of the migrations.  The caller has checked the vehicle, as *)
(* the HTTP handler does, and may have chosen a technician, a bay or both: *)
(* the unit tests choose both, the handler never does.  An id that no row  *)
(* has is refused by a foreign key, which is one way the insert may fail.  *)
(***************************************************************************)
EXTENDS BookingData

CONSTANTS
  Inputs,        \* what CreateAppointment is called with: a request, and the
                 \* technician and the bay it is given, each of them or Null
  MaxFailures    \* bound on statements that fail

Choices == [technician: Technicians \cup {Null}, bay: Bays \cup {Null}]

ASSUME FallbackBookingAssumption ==
  /\ \A r \in Requests : OwnsVehicle(r)
  /\ Inputs \subseteq [request: Requests, given: Choices]
  /\ Null \notin Technicians \cup Bays
  /\ MaxFailures \in Nat

VARIABLES
  request, appointments, idempotency, answer,  \* as in AtomicBooking
  given,              \* TechnicianID and ServiceBayID of the input
  pc,                 \* the statement the attempt runs next
  technicians, bays,  \* results of the two availability queries
  failures            \* failures so far

tables == <<appointments, idempotency>>
input == <<request, given>>
locals == <<technicians, bays>>
vars == <<request, appointments, idempotency, answer, given, pc, technicians, bays, failures>>

Statements ==
  {"service", "claim", "lookup", "replay", "technicians", "bays", "insert", "complete"}

\* A digest of the fields that BookAppointment takes.
MutantInputHash(a) ==
  [request |-> RequestHash(request[a]), given |-> [technician |-> Null, bay |-> Null]]

\* What hashCreateAppointmentInput digests.
InputHash(a) == [request |-> RequestHash(request[a]), given |-> given[a]]

InputRows ==
  [key: Keys, hash: [request: RequestHashes, given: Choices],
   status: {"in_progress", "completed"}, appointment: AppointmentIds \cup {Null}]

TypeOK ==
  /\ request \in [Attempts -> Requests]
  /\ given \in [Attempts -> Choices]
  /\ appointments \subseteq AppointmentRows(AppointmentIds)
  /\ idempotency \subseteq InputRows
  /\ answer \in [Attempts -> Answers]
  /\ pc \in [Attempts -> Statements \cup {"end"}]
  /\ technicians \in [Attempts -> SUBSET Technicians]
  /\ bays \in [Attempts -> SUBSET Bays]
  /\ failures \in 0 .. MaxFailures

Init ==
  /\ \E inputs \in [Attempts -> Inputs] :
       /\ request = [a \in Attempts |-> inputs[a].request]
       /\ given = [a \in Attempts |-> inputs[a].given]
  /\ appointments = SeedAppointments
  /\ idempotency = {}
  /\ answer = [a \in Attempts |-> Pending]
  /\ pc = [a \in Attempts |-> "service"]
  /\ technicians = [a \in Attempts |-> {}]
  /\ bays = [a \in Attempts |-> {}]
  /\ failures = 0

-----------------------------------------------------------------------------

Goto(a, statement) == pc' = [pc EXCEPT ![a] = statement]

\* return: nothing that has been written is taken back.
Return(a, what) ==
  /\ answer' = [answer EXCEPT ![a] = what]
  /\ Goto(a, "end")
  /\ technicians' = [technicians EXCEPT ![a] = {}]
  /\ bays' = [bays EXCEPT ![a] = {}]
  /\ UNCHANGED input

Refuse(a, outcome) == Return(a, Refused(outcome)) /\ UNCHANGED failures

RejectMissingKey(a) ==
  /\ pc[a] = "service"
  /\ request[a].key = EmptyKey
  /\ Refuse(a, "key_required")
  /\ UNCHANGED tables

\* GetServiceType
LoadServiceType(a) ==
  /\ pc[a] = "service"
  /\ request[a].key # EmptyKey
  /\ UNCHANGED tables
  /\ \/ /\ request[a].service \in Services
        /\ Goto(a, "claim")
        /\ UNCHANGED <<input, answer, locals, failures>>
     \/ /\ request[a].service \notin Services
        /\ Refuse(a, "error")

-----------------------------------------------------------------------------
(* The three statements that write, each with its commit. *)

ClaimedRow(a) ==
  [key |-> request[a].key, hash |-> InputHash(a),
   status |-> "in_progress", appointment |-> Null]

BookedRow(a, id) ==
  [key |-> request[a].key, hash |-> InputHash(a),
   status |-> "completed", appointment |-> id]

\* A claim that only a completed record stops.
MutantKeyTaken(a) ==
  \E existing \in idempotency :
    existing.key = request[a].key /\ existing.status = "completed"

KeyTaken(a) == \E existing \in idempotency : existing.key = request[a].key

WriteClaim(a) ==
  /\ ~KeyTaken(a)
  /\ idempotency' = idempotency \cup {ClaimedRow(a)}
  /\ UNCHANGED appointments

\* Whatever is given, unchecked, else technicians[0] and bays[0].
Technician(a) ==
  IF given[a].technician # Null THEN given[a].technician ELSE First(technicians[a])
Bay(a) == IF given[a].bay # Null THEN given[a].bay ELSE First(bays[a])

Candidate(a) == AppointmentFor(a, request[a], Technician(a), Bay(a))

Clash(a) ==
  \E row \in appointments :
    TechnicianClash(Candidate(a), row) \/ BayClash(Candidate(a), row)

WriteRow(a) ==
  /\ ~Clash(a)
  /\ appointments' = appointments \cup {Candidate(a)}
  /\ UNCHANGED idempotency

\* Its row is the one the claim has written.
WriteCompletion(a) ==
  LET claimed == ClaimedRow(a)
  IN  /\ claimed \in idempotency
      /\ idempotency' = (idempotency \ {claimed}) \cup {BookedRow(a, a)}
      /\ UNCHANGED appointments

NothingToFind(a) == given[a].technician # Null /\ given[a].bay # Null

\* CreateIdempotencyRequest.  With both ids given, neither list is asked for.
ClaimKey(a) ==
  /\ pc[a] = "claim"
  /\ \/ /\ WriteClaim(a)
        /\ Goto(a, IF NothingToFind(a) THEN "insert" ELSE "technicians")
     \/ /\ KeyTaken(a)
        /\ Goto(a, "lookup")
        /\ UNCHANGED tables
  /\ UNCHANGED <<input, answer, locals, failures>>

SameRequest(a, existing) == existing.hash = InputHash(a)

\* GetIdempotencyRequest
LookUp(a) ==
  /\ pc[a] = "lookup"
  /\ \E existing \in idempotency :
       /\ existing.key = request[a].key
       /\ \/ /\ SameRequest(a, existing)
             /\ existing.status = "completed" /\ existing.appointment # Null
             /\ Goto(a, "replay")
             /\ UNCHANGED <<input, answer, locals, failures>>
          \/ /\ \/ ~SameRequest(a, existing)
                \/ existing.status # "completed" \/ existing.appointment = Null
             /\ Refuse(a, IF SameRequest(a, existing) THEN "in_progress" ELSE "conflict")
  /\ UNCHANGED tables

\* GetAppointment.  existing is read again here: a completed record of
\* idempotency_requests is never written.
Replay(a) ==
  /\ pc[a] = "replay"
  /\ \E existing \in idempotency, row \in appointments :
       /\ existing.key = request[a].key
       /\ existing.appointment = row.id
       /\ Return(a, Confirmed(row))
  /\ UNCHANGED <<tables, failures>>

-----------------------------------------------------------------------------

FindTechnicians(a) ==
  /\ pc[a] = "technicians"
  /\ technicians' =
       [technicians EXCEPT ![a] = AvailableTechnicians(appointments, request[a])]
  /\ Goto(a, "bays")
  /\ UNCHANGED <<input, tables, answer, bays, failures>>

FindBays(a) ==
  LET found == AvailableBays(appointments, request[a])
  IN  /\ pc[a] = "bays"
      /\ UNCHANGED tables
      /\ \/ /\ technicians[a] # {} /\ found # {}
            /\ bays' = [bays EXCEPT ![a] = found]
            /\ Goto(a, "insert")
            /\ UNCHANGED <<input, answer, technicians, failures>>
         \/ /\ technicians[a] = {} \/ found = {}
            /\ Refuse(a, "no_availability")

\* store.CreateAppointment.  SQLSTATE 23P01 is not translated here.
InsertRow(a) ==
  /\ pc[a] = "insert"
  /\ \/ /\ WriteRow(a)
        /\ Goto(a, "complete")
        /\ UNCHANGED <<input, answer, locals, failures>>
     \/ /\ Clash(a)
        /\ Refuse(a, "error")
        /\ UNCHANGED tables

\* Answers and leaves the completion for later.
MutantComplete(a) ==
  /\ pc[a] = "complete"
  /\ \E row \in appointments : row.id = a /\ Return(a, Confirmed(row))
  /\ UNCHANGED <<tables, failures>>

\* CompleteIdempotencyRequest
Complete(a) ==
  /\ pc[a] = "complete"
  /\ WriteCompletion(a)
  /\ \E row \in appointments : row.id = a /\ Return(a, Confirmed(row))
  /\ UNCHANGED failures

\* A statement fails: the database has not run it, or has and its answer is
\* lost.  A process that dies between two statements looks like the former.
StatementFails(a) ==
  /\ pc[a] # "end"
  /\ failures < MaxFailures
  /\ failures' = failures + 1
  /\ \/ UNCHANGED tables
     \/ pc[a] = "claim" /\ WriteClaim(a)
     \/ pc[a] = "insert" /\ WriteRow(a)
     \/ pc[a] = "complete" /\ WriteCompletion(a)
  /\ Return(a, Refused("error"))

-----------------------------------------------------------------------------

Step(a) ==
  \/ RejectMissingKey(a)
  \/ LoadServiceType(a)
  \/ ClaimKey(a)
  \/ LookUp(a)
  \/ Replay(a)
  \/ FindTechnicians(a)
  \/ FindBays(a)
  \/ InsertRow(a)
  \/ Complete(a)

Next == \E a \in Attempts : Step(a) \/ StatementFails(a)

Spec == Init /\ [][Next]_vars

-----------------------------------------------------------------------------
(* What the statements amount to in AtomicBooking: an attempt has booked once *)
(* its row is there, and has thereby completed its key; a key merely claimed  *)
(* means nothing, and so do the answers that such a key gives.                *)

Booked(a) == {row \in appointments : row.id = a}

BookedKeys == UNION {{CompletedRow(request[a], a) : row \in Booked(a)} : a \in Attempts}

Outcome(a) ==
  IF Booked(a) # {} THEN Confirmed(CHOOSE row \in Booked(a) : TRUE)
  ELSE IF answer[a].outcome \in {"in_progress", "conflict"} THEN Refused("error")
  ELSE answer[a]

Atomic == INSTANCE AtomicBooking WITH
            request <- request,
            appointments <- appointments,
            idempotency <- BookedKeys,
            answer <- [a \in Attempts |-> Outcome(a)],
            doubtful <- {}

\* A technician and a bay that attempt a may book: the given one as it is, a
\* qualified or compatible one where none is given.
AsGiven(a, t, b) ==
  /\ IF given[a].technician = Null THEN Qualified(t, request[a]) ELSE t = given[a].technician
  /\ IF given[a].bay = Null THEN Compatible(b, request[a]) ELSE b = given[a].bay

\* The step by which the statements depart from AtomicBooking: what the caller has
\* given is booked without a question whether it can serve the request.
BookGiven(a) ==
  /\ given[a] # [technician |-> Null, bay |-> Null]
  /\ \E t \in Technicians, b \in Bays :
       /\ Atomic!Enter(a, t, b)
       /\ AsGiven(a, t, b)
       /\ \A row \in Busy(appointments, request[a]) : row.technician # t /\ row.bay # b

-----------------------------------------------------------------------------
(* Properties. *)

\* Even without a transaction around them the statements book atomically: one
\* appointment for a key, of resources that are free, and replayed to nobody
\* but a retry of the same request, whatever fails between the statements.  A
\* technician or a bay that is given need not be able to serve the request.
BooksAtomically ==
  Atomic!Init /\ [][Atomic!Next \/ \E a \in Attempts : BookGiven(a)]_Atomic!vars

\* The row is a booking of the input of a.
BooksAsGiven(row, a) ==
  \E t \in Technicians, b \in Bays :
    AsGiven(a, t, b) /\ row = AppointmentFor(row.id, request[a], t, b)

\* A 201 is about a committed appointment that books what was asked, with the
\* technician and the bay that were given and qualified ones where none were; and
\* by then its record is complete, so that no retry can be refused.
ConfirmationsAreKept ==
  \A a \in Attempts :
    answer[a].outcome = "confirmed" =>
      \E row \in appointments :
        /\ answer[a] = Confirmed(row)
        /\ BooksAsGiven(row, a)
        /\ BookedRow(a, row.id) \in idempotency

\* A key stays in progress when its attempt has ended only if the caller was told
\* of a failure or of no availability; and nobody hears that a request is in
\* progress, or in conflict, unless another attempt has claimed the key for it.
StuckKeysHaveCause ==
  /\ \A rec \in idempotency :
       rec.status = "in_progress" =>
         \E a \in Attempts :
           /\ rec = ClaimedRow(a)
           /\ pc[a] = "end" => answer[a].outcome \in {"error", "no_availability"}
  /\ \A a \in Attempts :
       answer[a].outcome \in {"in_progress", "conflict"} =>
         \E b \in Attempts \ {a} :
           /\ request[b].key = request[a].key
           /\ InputHash(b) = InputHash(a)
                <=> answer[a].outcome = "in_progress"
           /\ answer[b].outcome # "in_progress"

=============================================================================
