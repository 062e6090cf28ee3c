---------------------------- MODULE BookingPage -----------------------------
(***************************************************************************)
(* The booking form of assets/app.js and the list beside it, over a server *)
(* that keeps the promise of AtomicBooking and a network that loses        *)
(* answers.                                                                *)
(*                                                                         *)
(* JavaScript runs one callback at a time, but every click starts a        *)
(* handler of its own, and handlers interleave wherever they await a       *)
(* response.  Submit handlers share pendingAttempt and the status line,    *)
(* and all of them the list.  An attempt of the server is named by the     *)
(* click that posts it, and so is a key by the click that draws it.  Other *)
(* tabs of the browser share the session cookie.                           *)
(***************************************************************************)
EXTENDS BookingData

CONSTANTS
  Payloads,        \* what the form can be filled in with
  Refreshes,       \* reloads of the list that no submit handler has begun: those of
                   \* the Refresh button, and that of a second click on the login
  MaxLostAnswers   \* bound on failed fetches

Loaders == Attempts \cup Refreshes

PayloadOf(r) ==
  [vehicle |-> r.vehicle, dealership |-> r.dealership,
   service |-> r.service, start |-> r.start]

WithKey(p, key, customer) ==
  [key |-> key, customer |-> customer, vehicle |-> p.vehicle,
   dealership |-> p.dealership, service |-> p.service, start |-> p.start]

ASSUME BookingPageAssumption ==
  /\ Null \notin Payloads
  /\ Null \notin [payload: Payloads, key: Attempts]
  /\ Null \notin Customers
  /\ Attempts \subseteq Keys \ {EmptyKey}
  /\ Refreshes \cap Attempts = {}
  /\ Requests = {WithKey(p, key, u) : p \in Payloads, key \in Attempts, u \in Customers}
  /\ \A p \in Payloads : PayloadOf(p) = p /\ p.service \in Services
  /\ MaxLostAnswers \in Nat

VARIABLES
  request, appointments, idempotency, answer, doubtful,  \* as in AtomicBooking
  session,         \* the customer whom the cookie names, or Null
  pendingAttempt,  \* payload and key of the latest attempt, or Null
  handler,         \* what the handler of a click awaits
  payload,         \* what that click was to book
  available,       \* the answer to its availability check, as far as it has
                   \* come, FALSE once it has been used
  shown,           \* the status line: which handler wrote what
  rows,            \* the appointments that a reload has been answered
  table,           \* the list, or Null where it shows an error
  lost,            \* failed fetches so far
  intent,          \* history: clicks in a row for one payload share a number
  overtaken,       \* history: a click came while a handler for another payload ran
  switched,        \* history: another tab has changed the session
  crossed          \* history: a booking was confirmed while a reload of Refreshes
                   \* was on its way without it

server == <<request, appointments, idempotency, answer, doubtful>>
tabs == <<session, switched>>
clicks == <<pendingAttempt, payload, intent, overtaken>>
lists == <<rows, table>>
vars == <<request, appointments, idempotency, answer, doubtful, session, pendingAttempt,
          handler, payload, available, shown, rows, table, lost, intent, overtaken,
          switched, crossed>>

Server == INSTANCE AtomicBooking WITH
            request <- request, appointments <- appointments,
            idempotency <- idempotency, answer <- answer, doubtful <- doubtful

Awaits == {"technicians", "bays", "available", "booked", "list", "rows"}
Running(c) == handler[c] \in Awaits

Texts == {"", "checking", "unavailable", "booking", "confirmed", "refused", "failed"}

TypeOK ==
  /\ request \in [Attempts -> Requests \cup {Null}]
  /\ appointments \subseteq AppointmentRows(AppointmentIds)
  /\ idempotency \subseteq IdempotencyRows
  /\ answer \in [Attempts -> Answers]
  /\ doubtful \subseteq Attempts
  /\ session \in Customers \cup {Null}
  /\ pendingAttempt \in [payload: Payloads, key: Attempts] \cup {Null}
  /\ handler \in [Loaders -> Awaits \cup {"none", "done"}]
  /\ payload \in [Attempts -> Payloads \cup {Null}]
  /\ available \in [Attempts -> BOOLEAN]
  /\ shown \in [by: Attempts \cup {Null}, text: Texts,
                appointment: AppointmentRows(AppointmentIds) \cup {Null}]
  /\ rows \in [Loaders -> SUBSET AppointmentRows(AppointmentIds)]
  /\ table = Null \/ table \subseteq AppointmentRows(AppointmentIds)
  /\ lost \in 0 .. MaxLostAnswers
  /\ intent \in [Attempts -> Nat]
  /\ overtaken \in BOOLEAN
  /\ switched \in BOOLEAN
  /\ crossed \in BOOLEAN

\* GET /api/v1/my/appointments, for the customer whom the cookie names.
ListOf(customer) == {row \in appointments : row.customer = customer}

\* The page is loaded: the form offers the vehicles of whoever is signed in, and the
\* list has their appointments.
Init ==
  /\ Server!Init
  /\ request = [c \in Attempts |-> Null]
  /\ session \in {u \in Customers : \A p \in Payloads : <<p.vehicle, u>> \in VehicleOwners}
  /\ pendingAttempt = Null
  /\ handler = [c \in Loaders |-> "none"]
  /\ payload = [c \in Attempts |-> Null]
  /\ available = [c \in Attempts |-> FALSE]
  /\ shown = [by |-> Null, text |-> "", appointment |-> Null]
  /\ rows = [c \in Loaders |-> {}]
  /\ table = ListOf(session)
  /\ lost = 0
  /\ intent = [c \in Attempts |-> 0]
  /\ overtaken = FALSE
  /\ switched = FALSE
  /\ crossed = FALSE

-----------------------------------------------------------------------------

Say(c, text) == shown' = [by |-> c, text |-> text, appointment |-> Null]
Await(c, next) == handler' = [handler EXCEPT ![c] = next]

SamePayload(p) == pendingAttempt # Null /\ pendingAttempt.payload = p

\* Draws a key for every click.
MutantAttemptFor(c, p) == [payload |-> p, key |-> c]

AttemptFor(c, p) ==
  IF SamePayload(p) THEN pendingAttempt ELSE [payload |-> p, key |-> c]

LatestIntent ==
  CHOOSE n \in {intent[d] : d \in Attempts} : \A d \in Attempts : intent[d] <= n

\* The handler runs from the click to the first await, in checkAvailability.
Click(c, p) ==
  /\ handler[c] = "none"
  /\ pendingAttempt' = AttemptFor(c, p)
  /\ payload' = [payload EXCEPT ![c] = p]
  /\ Say(c, "checking")
  /\ Await(c, "technicians")
  /\ intent' = [intent EXCEPT ![c] = IF SamePayload(p) THEN LatestIntent ELSE LatestIntent + 1]
  /\ overtaken' = (overtaken \/ \E d \in Attempts : Running(d) /\ payload[d] # p)
  /\ UNCHANGED <<server, tabs, available, lists, lost, crossed>>

\* The admin page of another tab logs out, or a login there changes the user.
SwitchSession(customer) ==
  /\ session' = customer
  /\ customer # session
  /\ switched' = TRUE
  /\ UNCHANGED <<server, clicks, handler, available, shown, lists, lost, crossed>>

-----------------------------------------------------------------------------
(* GET /api/v1/availability: two statements, each on the tables of its time. *)

CheckTechnicians(c) ==
  /\ handler[c] = "technicians"
  /\ available' =
       [available EXCEPT ![c] = AvailableTechnicians(appointments, payload[c]) # {}]
  /\ Await(c, "bays")
  /\ UNCHANGED <<server, tabs, clicks, shown, lists, lost, crossed>>

CheckBays(c) ==
  /\ handler[c] = "bays"
  /\ available' =
       [available EXCEPT ![c] = @ /\ AvailableBays(appointments, payload[c]) # {}]
  /\ Await(c, "available")
  /\ UNCHANGED <<server, tabs, clicks, shown, lists, lost, crossed>>

-----------------------------------------------------------------------------
(* The rest of the submit handler. *)

TellUnavailable(c) ==
  /\ handler[c] = "available"
  /\ ~available[c]
  /\ Say(c, "unavailable")
  /\ Await(c, "done")
  /\ UNCHANGED <<server, tabs, clicks, available, lists, lost, crossed>>

\* The body is the click's own, the key whatever pendingAttempt holds by now, and
\* the customer whoever is signed in.  What HttpApi's handler refuses does not get
\* further: nobody is, the vehicle is not theirs, or a lookup has failed.
Post(c) ==
  /\ handler[c] = "available"
  /\ available[c]
  /\ LET r == WithKey(payload[c], pendingAttempt.key, session)
     IN  \/ session # Null /\ OwnsVehicle(r) /\ Server!Send(c, r)
         \/ UNCHANGED server
  /\ Say(c, "booking")
  /\ Await(c, "booked")
  /\ available' = [available EXCEPT ![c] = FALSE]
  /\ UNCHANGED <<tabs, clicks, lists, lost, crossed>>

\* A 201 shows the appointment of the body and reloads the list.
ShowAnswer(c) ==
  /\ handler[c] = "booked"
  /\ \/ /\ answer[c].outcome = "confirmed"
        /\ shown' = [by |-> c, text |-> "confirmed", appointment |-> answer[c].appointment]
        /\ Await(c, "list")
        /\ crossed' = (crossed \/ \E f \in Refreshes :
             handler[f] = "rows" /\ answer[c].appointment \notin rows[f])
     \/ /\ answer[c].outcome \in Refusals \/ request[c] = Null
        /\ Say(c, "refused")
        /\ Await(c, "done")
        /\ UNCHANGED crossed
  /\ UNCHANGED <<server, tabs, clicks, available, lists, lost>>

-----------------------------------------------------------------------------
(* loadAppointments, of a submit handler or of a Refresh. *)

Refresh(f) ==
  /\ handler[f] = "none"
  /\ Await(f, "list")
  /\ UNCHANGED <<server, tabs, clicks, available, shown, lists, lost, crossed>>

QueryList(c) ==
  /\ handler[c] = "list"
  /\ session # Null
  /\ rows' = [rows EXCEPT ![c] = ListOf(session)]
  /\ Await(c, "rows")
  /\ UNCHANGED <<server, tabs, clicks, available, shown, table, lost, crossed>>

\* Never replaces a list.
MutantListLoaded(c) ==
  /\ handler[c] = "rows"
  /\ table' = IF table \in {Null, {}} THEN rows[c] ELSE table
  /\ rows' = [rows EXCEPT ![c] = {}]
  /\ Await(c, "done")
  /\ UNCHANGED <<server, tabs, clicks, available, shown, lost, crossed>>

\* Whatever reload has come before, and whatever it was of.
ListLoaded(c) ==
  /\ handler[c] = "rows"
  /\ table' = rows[c]
  /\ rows' = [rows EXCEPT ![c] = {}]
  /\ Await(c, "done")
  /\ UNCHANGED <<server, tabs, clicks, available, shown, lost, crossed>>

-----------------------------------------------------------------------------
(* What goes wrong. *)

\* A fetch fails, or asks for the list of nobody.
Fails(c) ==
  \/ lost < MaxLostAnswers /\ lost' = lost + 1
  \/ handler[c] = "list" /\ session = Null /\ UNCHANGED lost

\* catch: any of the three fetches, also after the server has booked.  The list
\* stays as it is.
FetchFails(c) ==
  /\ Running(c)
  /\ Fails(c)
  /\ Say(c, "failed")
  /\ Await(c, "done")
  /\ available' = [available EXCEPT ![c] = FALSE]
  /\ rows' = [rows EXCEPT ![c] = {}]
  /\ UNCHANGED <<server, tabs, clicks, table, crossed>>

\* The Refresh button puts the error in place of the list, a login does not.
RefreshFails(f) ==
  /\ Running(f)
  /\ Fails(f)
  /\ table' \in {Null, table}
  /\ rows' = [rows EXCEPT ![f] = {}]
  /\ Await(f, "done")
  /\ UNCHANGED <<server, tabs, clicks, available, shown, crossed>>

\* A posted request is served whether or not the page still listens.
Serve(c) ==
  /\ Server!Serve(c)
  /\ UNCHANGED <<tabs, clicks, handler, available, shown, lists, lost, crossed>>

-----------------------------------------------------------------------------

Proceed(c) ==
  \/ CheckTechnicians(c)
  \/ CheckBays(c)
  \/ TellUnavailable(c)
  \/ Post(c)
  \/ ShowAnswer(c)

Next ==
  \/ \E c \in Attempts :
       \/ \E p \in Payloads : Click(c, p)
       \/ Proceed(c)
       \/ FetchFails(c)
       \/ Serve(c)
  \/ \E f \in Refreshes : Refresh(f) \/ RefreshFails(f)
  \/ \E c \in Loaders : QueryList(c) \/ ListLoaded(c)
  \/ \E customer \in Customers \cup {Null} : SwitchSession(customer)

Spec == Init /\ [][Next]_vars

-----------------------------------------------------------------------------
(* Properties. *)

\* "Appointment confirmed" shows a committed booking of what that very click
\* asked for, for the customer who was signed in when it was posted, though its key
\* may belong to another payload by then and the session to another customer.
ConfirmationIsOwn ==
  shown.text = "confirmed" =>
    LET r == request[shown.by]
    IN  /\ shown.appointment \in appointments
        /\ r # Null
        /\ Fulfils(shown.appointment, r)
        /\ PayloadOf(r) = payload[shown.by]

\* As long as no click comes while a handler for something else is running,
\* clicking again for the same thing, doubly or after a lost answer, makes one
\* appointment at most, whatever other tabs do to the session.
OneBookingPerIntent ==
  ~overtaken =>
    \A c, d \in Attempts :
      (\E x, y \in appointments : x.id = c /\ y.id = d) /\ intent[c] = intent[d]
        => c = d

\* The booking that a page at rest confirms is in the list beside it, unless that shows
\* an error, although handlers and Refresh reload the list each by itself and the
\* answer that comes last stays.  It is not so when a booking was confirmed while a
\* Refresh was on its way with rows that lack it: those may come after the handler's.
ConfirmedIsListed ==
  /\ ~overtaken /\ ~switched /\ ~crossed
  /\ shown.text = "confirmed" /\ \A c \in Loaders : ~Running(c)
  => table = Null \/ shown.appointment \in table

-----------------------------------------------------------------------------
(* What the README says of keys and retries, which the page does not do. *)

\* README 3: "The client provides the requested start time and a unique
\* idempotency key for the logical booking attempt."  A key goes with one
\* payload.
KeyNamesOnePayload ==
  \A c, d \in Attempts :
    request[c] # Null /\ request[d] # Null /\ request[c].key = request[d].key
      => PayloadOf(request[c]) = PayloadOf(request[d])

\* README 3: "Retrying the same payload with the same key returns the original
\* response without creating another appointment."  A click whose pending
\* attempt is already booked is not told that nothing is available.
RetryIsReplayed ==
  [][\A c \in Attempts :
       TellUnavailable(c) =>
         ~\E rec \in idempotency :
            /\ rec.key = pendingAttempt.key
            /\ rec.hash = RequestHash(WithKey(payload[c], pendingAttempt.key, session))]_vars

=============================================================================
