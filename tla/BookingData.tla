---------------------------- MODULE BookingData -----------------------------
(***************************************************************************)
(* What a POST /api/v1/appointments carries, the two tables it may write   *)
(* and the answer it gets.  An attempt is one run of                       *)
(* AppointmentService.CreateAppointment: a retry by the client is another  *)
(* attempt with the same request.                                          *)
(***************************************************************************)
EXTENDS Scheduling

CONSTANTS
  Attempts,          \* runs of CreateAppointment; also the uuid each one draws
  Keys, EmptyKey,    \* values of the Idempotency-Key header
  Requests,          \* the requests that are sent
  SeedIds, SeedAppointments,  \* rows the table holds before the first attempt
  Null               \* a NULL column, and what is not there (yet)

AppointmentIds == Attempts \cup SeedIds

ASSUME BookingDataAssumption ==
  /\ Requests \subseteq [key: Keys, customer: Customers, vehicle: Vehicles,
                         dealership: Dealerships, service: ServiceIds, start: Nat]
  /\ Attempts \cap SeedIds = {}
  /\ Null \notin AppointmentIds /\ Null \notin Requests
  /\ Null \notin AppointmentRows(AppointmentIds)
  /\ SeedAppointments \subseteq AppointmentRows(SeedIds)
  \* the constraints of the table hold of the rows it starts with
  /\ \A x, y \in SeedAppointments :
        x # y => x.id # y.id /\ ~TechnicianClash(x, y) /\ ~BayClash(x, y)

\* What may be hashed: the fields of a request for a service that exists.
RequestHashes ==
  [customer: Customers, vehicle: Vehicles, dealership: Dealerships,
   service: Services, start: Nat, end: Nat]

\* Rows of idempotency_requests.
IdempotencyRows ==
  [key: Keys, hash: RequestHashes, status: {"in_progress", "completed"},
   appointment: AppointmentIds \cup {Null}]

CompletedRow(r, id) ==
  [key |-> r.key, hash |-> RequestHash(r), status |-> "completed", appointment |-> id]

\* HTTP 400, 409, 409, 409, 400 and 500.  An attempt whose client never hears
\* back (the server died, the connection dropped) counts as an "error".
Refusals == {"key_required", "conflict", "in_progress", "no_availability",
             "not_owned", "error"}

Pending == [outcome |-> "none", appointment |-> Null]
Confirmed(row) == [outcome |-> "confirmed", appointment |-> row]
Refused(outcome) == [outcome |-> outcome, appointment |-> Null]

Answers ==
  [outcome: Refusals \cup {"none", "confirmed"},
   appointment: AppointmentRows(AppointmentIds) \cup {Null}]

\* The row is a booking of what the request asks for: its vehicle and its
\* service at its dealership, from its start for the service's duration, by a
\* qualified technician in a compatible bay.
Fulfils(row, r) ==
  /\ r.service \in Services
  /\ \E t \in Technicians, b \in Bays :
        /\ Qualified(t, r)
        /\ Compatible(b, r)
        /\ row = AppointmentFor(row.id, r, t, b)

=============================================================================
