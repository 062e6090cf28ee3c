------------------------------ MODULE HttpApi -------------------------------
(***************************************************************************)
(* The HTTP API as its clients see it: the POST handler in front of a      *)
(* server that keeps the promise of AtomicBooking, the session cookie, and *)
(* what the GET endpoints say of the appointments that POSTs have made.    *)
(*                                                                         *)
(* One browser with several tabs: the tabs share the cookie, and a login   *)
(* in one of them changes the user of the next POST of another.  The user  *)
(* is always the one of the session: main passes an AuthService, without   *)
(* which the handler would take the customer from the body.                *)
(***************************************************************************)
EXTENDS Readers

CONSTANTS
  Posts,         \* what clients send: header and body of a POST
  MaxFailures,   \* bound on failed lookups of the handler
  Horizon        \* the windows asked for lie between 0 and this instant

\* The request that the handler hands to CreateAppointment.
CreateInput(p, user) ==
  [key |-> p.key, customer |-> CustomerOf[user], vehicle |-> p.vehicle,
   dealership |-> p.dealership, service |-> p.service, start |-> p.start]

WellFormed(p) == Malformed \notin {p.vehicle, p.dealership, p.service, p.start}

ASSUME HttpApiAssumption ==
  /\ Null \notin Posts
  /\ Null \notin [body: Posts, cookie: Users \cup {Null}, found: BOOLEAN,
                  heard: SUBSET Attempts]
  /\ Requests = {CreateInput(p, u) : p \in {q \in Posts : WellFormed(q)}, u \in Users}
  /\ MaxFailures \in Nat /\ Horizon \in Nat
  \* no constraint of the schema says so, but CreateAppointment alone confirms
  /\ \A row \in SeedAppointments :
       row.status = "confirmed" => TechnicianDealership[row.technician] = row.dealership

VARIABLES
  request, appointments, idempotency, answer, doubtful,  \* as in AtomicBooking
  cookie,    \* session_user, the user it names or Null
  post,      \* what each attempt was sent as, the cookie that came with it, whether
             \* its lookups worked and, for history, which attempts were over by then
  status,    \* the status of its response, 0 before that
  failures   \* failed lookups so far

server == <<request, appointments, idempotency, answer, doubtful>>
vars == <<request, appointments, idempotency, answer, doubtful, cookie, post, status, failures>>

Server == INSTANCE AtomicBooking WITH
            request <- request, appointments <- appointments,
            idempotency <- idempotency, answer <- answer, doubtful <- doubtful

\* What is kept of a POST that has been received.
Received == [body: Posts, cookie: Users \cup {Null}, found: BOOLEAN, heard: SUBSET Attempts]

TypeOK ==
  /\ request \in [Attempts -> Requests \cup {Null}]
  /\ appointments \subseteq AppointmentRows(AppointmentIds)
  /\ idempotency \subseteq IdempotencyRows
  /\ answer \in [Attempts -> Answers]
  /\ doubtful \subseteq Attempts
  /\ cookie \in Users \cup {Null}
  /\ post \in [Attempts -> Received \cup {Null}]
  /\ status \in [Attempts -> {0, 201, 400, 401, 409, 500}]
  /\ failures \in 0 .. MaxFailures

Init ==
  /\ Server!Init
  /\ request = [a \in Attempts |-> Null]
  /\ cookie = Null
  /\ post = [a \in Attempts |-> Null]
  /\ status = [a \in Attempts |-> 0]
  /\ failures = 0

-----------------------------------------------------------------------------
(* Sessions.  A login with the wrong password changes nothing. *)

Login(u) ==
  /\ cookie' = u
  /\ UNCHANGED <<server, post, status, failures>>

Logout ==
  /\ cookie' = Null
  /\ UNCHANGED <<server, post, status, failures>>

-----------------------------------------------------------------------------
(* POST /api/v1/appointments *)

\* The status of the first check that fails, or 0.  The start is looked at last.  The
\* branch for a router without an AuthService, which main never builds, is left out.
FirstRefusal(p, user, vehicles) ==
  IF Malformed \in {p.vehicle, p.dealership, p.service} THEN 400
  ELSE IF user = Null THEN 401
  ELSE IF p.vehicle \notin vehicles \/ p.start = Malformed THEN 400
  ELSE 0

\* The handler, up to the call of CreateAppointment.  Its lookups of the user
\* and of the user's vehicles may fail; a failure reads like an empty result.
Receive(a, p, userFound, vehiclesFound) ==
  LET user == CurrentUser(p.header, cookie, userFound)
      vehicles == IF vehiclesFound /\ user # Null THEN ListVehicles(user) ELSE {}
      refusal == FirstRefusal(p, user, vehicles)
  IN  /\ post[a] = Null
      /\ post' = [post EXCEPT ![a] =
           [body |-> p, cookie |-> cookie, found |-> userFound /\ vehiclesFound,
            heard |-> {b \in Attempts : status[b] # 0}]]
      /\ failures' = IF userFound /\ vehiclesFound THEN failures ELSE failures + 1
      /\ failures' <= MaxFailures
      /\ \/ /\ refusal # 0
            /\ status' = [status EXCEPT ![a] = refusal]
            /\ UNCHANGED server
         \/ /\ refusal = 0
            /\ Server!Send(a, CreateInput(p, user))
            /\ UNCHANGED status
      /\ UNCHANGED cookie

Serve(a) ==
  /\ Server!Serve(a)
  /\ UNCHANGED <<cookie, post, status, failures>>

\* Whatever went wrong looks like a lost race.
MutantStatusOf(outcome) ==
  CASE outcome = "confirmed" -> 201
    [] outcome \in {"key_required", "not_owned"} -> 400
    [] outcome \in {"conflict", "in_progress", "no_availability", "error"} -> 409

StatusOf(outcome) ==
  CASE outcome = "confirmed" -> 201
    [] outcome \in {"key_required", "not_owned"} -> 400
    [] outcome \in {"conflict", "in_progress", "no_availability"} -> 409
    [] outcome = "error" -> 500

Respond(a) ==
  /\ answer[a] # Pending
  /\ status[a] = 0
  /\ status' = [status EXCEPT ![a] = StatusOf(answer[a].outcome)]
  /\ UNCHANGED <<server, cookie, post, failures>>

-----------------------------------------------------------------------------

Next ==
  \/ \E u \in Users : Login(u)
  \/ Logout
  \/ \E a \in Attempts :
       \/ \E p \in Posts, userFound, vehiclesFound \in BOOLEAN :
            Receive(a, p, userFound, vehiclesFound)
       \/ Serve(a)
       \/ Respond(a)

Spec == Init /\ [][Next]_vars

-----------------------------------------------------------------------------
(* Properties. *)

\* The user an attempt was sent for, when nothing failed.
Sender(a) == CurrentUser(post[a].body.header, post[a].cookie, TRUE)

\* One attempt repeats the other, for the same user.
SameRequest(a, b) == post[a].body = post[b].body /\ Sender(a) = Sender(b)

\* An appointment answered 201 belongs to the user the request came from, even
\* after other logins in the same browser; from then on that user, and no other,
\* finds it by its id and in the customer's list; and the two lists of its
\* dealership have it for exactly the windows it overlaps, for its owner and for
\* the administrator.
CreatedIsReadable ==
  \A a \in Attempts : status[a] = 201 =>
    LET row == answer[a].appointment
    IN  \A u \in Users :
          LET owner == u = Sender(a)
              shown == IF owner THEN Ok({row}) ELSE Fail(404)
          IN  /\ GetAppointment(appointments, row.id, u, TRUE) = shown
              /\ row \in ListCustomerAppointments(appointments, u, TRUE).rows <=> owner
              /\ \A from, to \in 0 .. Horizon : from < to =>
                   LET inside == Overlap(row, [start |-> from, end |-> to])
                       list == ListAppointments(appointments, row.dealership, from, to, u, TRUE)
                       details ==
                         ListAppointmentDetails(appointments, row.dealership, from, to, TRUE)
                   IN  /\ row \in list.rows <=> owner /\ inside
                       /\ row \in details.rows <=> inside

\* What the lists of the booking form offer a user is what a POST of that user may
\* ask for: it is told to come again or that it came too late, but neither that it
\* is invalid nor to log in.  Three checks have to agree on it: the list reads the
\* vehicles by user, the handler by the list, BookAppointment by customer.
OfferedIsAccepted ==
  \A a \in Attempts :
    LET p == post[a].body
    IN  /\ status[a] # 0 /\ post[a].found
        /\ p.key # EmptyKey /\ p.start # Malformed
        /\ p.vehicle \in GetVehicles(Sender(a), TRUE).rows
        /\ p.service \in ListServiceTypes(TRUE).rows
        /\ p.dealership \in ListDealerships(TRUE).rows
        => status[a] \in {201, 409, 500}

\* A client that tries again after each answer and hears 400, 401 or 409 may forget
\* the request: neither this attempt nor any that was over when it was sent, a 500
\* among them, has made an appointment for it, or will make one later.  It is not so
\* of an attempt for which a lookup failed, whose 401 or 400 speaks for itself alone.
RefusedNeverBooks ==
  \A b \in Attempts : status[b] \in {400, 401, 409} =>
    \A row \in appointments :
      /\ row.id # b
      /\ post[b].found => \A a \in post[b].heard : SameRequest(a, b) => row.id # a

\* The admin page's technicians and the availability query are two statements of
\* one rule.  Whatever has been booked, they agree on who could serve a request;
\* and for each qualified technician that they do not offer, the admin page's
\* appointments of that interval show why.
TechnicianViewsAgree ==
  \A r \in {q \in Requests : q.service \in Services} :
    LET slot == Slot(r)
        view == ListTechnicianAvailability(appointments, r.dealership, r.service,
                                           slot.start, slot.end, TRUE).rows
        list == ListAppointmentDetails(appointments, r.dealership, slot.start, slot.end,
                                       TRUE).rows
    IN  /\ {t.id : t \in {v \in view : v.available}} = AvailableTechnicians(appointments, r)
        /\ \A v \in view :
             Qualified(v.id, r) /\ ~v.available =>
               \E row \in list : row.technician = v.id /\ row.status = "confirmed"

=============================================================================
