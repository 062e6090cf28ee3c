--------------------------- MODULE AtomicBooking ----------------------------
(***************************************************************************)
(* What booking promises, with no transactions, locks or connections in    *)
(* sight: an attempt is answered in one indivisible step that sees both    *)
(* tables as they are.  An "error" says nothing about the attempt: the     *)
(* booking it asked for may have been made, or may yet be.  Any other      *)
(* refusal is the last word on its request: no earlier attempt for it has  *)
(* booked, and none that is over may still do so.                          *)
(***************************************************************************)
EXTENDS BookingData

VARIABLES
  request,       \* what each attempt asks for, Null before it is sent
  appointments,  \* the committed rows of appointments
  idempotency,   \* the committed rows of idempotency_requests
  answer,        \* what each attempt was told
  doubtful       \* attempts that were told of an error and may yet book

vars == <<request, appointments, idempotency, answer, doubtful>>

Init ==
  /\ request \in [Attempts -> Requests \cup {Null}]
  /\ appointments = SeedAppointments
  /\ idempotency = {}
  /\ answer = [a \in Attempts |-> Pending]
  /\ doubtful = {}

Send(a, r) ==
  /\ request[a] = Null
  /\ request' = [request EXCEPT ![a] = r]
  /\ UNCHANGED <<appointments, idempotency, answer, doubtful>>

Claimed(key) == \E existing \in idempotency : existing.key = key

\* The booking appears in both tables, under a key that claims nothing yet.
Enter(a, t, b) ==
  LET r == request[a]
      row == AppointmentFor(a, r, t, b)
  IN  /\ r # Null
      /\ r.key # EmptyKey
      /\ ~Claimed(r.key)
      /\ OwnsVehicle(r)
      /\ r.service \in Services
      /\ appointments' = appointments \cup {row}
      /\ idempotency' = idempotency \cup {CompletedRow(r, a)}
      /\ \/ /\ answer[a] = Pending
            /\ answer' = [answer EXCEPT ![a] = Confirmed(row)]
            /\ UNCHANGED doubtful
         \/ /\ a \in doubtful
            /\ doubtful' = doubtful \ {a}
            /\ UNCHANGED answer
      /\ UNCHANGED request

\* Both resources are free at the instant of the booking.
Book(a, t, b) ==
  /\ Enter(a, t, b)
  /\ t \in AvailableTechnicians(appointments, request[a])
  /\ b \in AvailableBays(appointments, request[a])

\* Replays whatever the key has booked.
MutantReplay(a, row) ==
  /\ request[a] # Null
  /\ answer[a] = Pending
  /\ \E existing \in idempotency :
       existing.key = request[a].key /\ existing.appointment = row.id
  /\ answer' = [answer EXCEPT ![a] = Confirmed(row)]
  /\ UNCHANGED <<request, appointments, idempotency, doubtful>>

\* A retry of a booking that was made gets that booking.
Replay(a, row) ==
  /\ request[a] # Null
  /\ answer[a] = Pending
  /\ request[a].service \in Services
  /\ CompletedRow(request[a], row.id) \in idempotency
  /\ answer' = [answer EXCEPT ![a] = Confirmed(row)]
  /\ UNCHANGED <<request, appointments, idempotency, doubtful>>

\* Nothing has been booked under the key, and nothing but another attempt that is
\* still to be answered may be.
Unclaimed(key) == ~Claimed(key) /\ \A d \in doubtful : request[d].key # key

\* What an attempt may be told: an error at any time, anything else only where
\* it is so.  That its own key is "in_progress" it never hears.
Truthful(a, outcome) ==
  LET r == request[a]
  IN  \/ outcome = "error"
      \/ outcome = "key_required" /\ r.key = EmptyKey
      \/ /\ r.service \in Services
         /\ \/ /\ outcome = "conflict"
               /\ \E existing \in idempotency :
                    existing.key = r.key /\ existing.hash # RequestHash(r)
            \/ outcome = "not_owned" /\ ~OwnsVehicle(r) /\ Unclaimed(r.key)
            \/ /\ outcome = "no_availability"
               /\ Contested(appointments, r)
               /\ Unclaimed(r.key)

\* A refused attempt leaves no trace, so it may be retried with the same key; an
\* error may leave a doubt behind.
Refuse(a, outcome) ==
  /\ request[a] # Null
  /\ answer[a] = Pending
  /\ Truthful(a, outcome)
  /\ answer' = [answer EXCEPT ![a] = Refused(outcome)]
  /\ \/ UNCHANGED doubtful
     \/ outcome = "error" /\ doubtful' = doubtful \cup {a}
  /\ UNCHANGED <<request, appointments, idempotency>>

\* The doubt is resolved: the attempt will not book any more.
GiveUp(a) ==
  /\ a \in doubtful
  /\ doubtful' = doubtful \ {a}
  /\ UNCHANGED <<request, appointments, idempotency, answer>>

Serve(a) ==
  \/ \E t \in Technicians, b \in Bays : Book(a, t, b)
  \/ \E row \in appointments : Replay(a, row)
  \/ \E outcome \in Refusals : Refuse(a, outcome)
  \/ GiveUp(a)

Next == \E a \in Attempts : Serve(a) \/ \E r \in Requests : Send(a, r)

Spec == Init /\ [][Next]_vars

=============================================================================
