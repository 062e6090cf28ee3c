--------------------------- MODULE HttpApiProofs ----------------------------
(***************************************************************************)
(* What a client of the HTTP API may conclude from a response, for any     *)
(* number of posts, users, tabs and failed lookups.                        *)
(***************************************************************************)
EXTENDS HttpApi, BookingLemmas

-----------------------------------------------------------------------------
(* The inductive invariant. *)

\* The server's part: an id has one row, of what its attempt asked for, and that
\* attempt has its record and has heard of it or of an error; a key has one record,
\* of an attempt's own row.
Promise ==
  /\ \A x, y \in appointments : x.id = y.id => x = y
  /\ \A x, y \in idempotency : x.key = y.key => x = y
  /\ \A a \in Attempts : \A row \in appointments :
       row.id = a =>
         /\ request[a] # Null
         /\ request[a].key # EmptyKey
         /\ Fulfils(row, request[a])
         /\ CompletedRow(request[a], a) \in idempotency
         /\ answer[a].outcome \in {"confirmed", "error"}
  /\ \A rec \in idempotency : \E a \in Attempts :
       /\ request[a] # Null /\ request[a].service \in Services
       /\ rec = CompletedRow(request[a], a)

\* Confirmed rows are worked on by technicians of their own dealership.
Local ==
  \A row \in appointments :
    row.status = "confirmed" => TechnicianDealership[row.technician] = row.dealership

\* What an answer says of the attempt.
AnswersTruthful ==
  \A a \in Attempts :
    /\ answer[a].outcome = "none" => answer[a] = Pending
    /\ answer[a] # Pending => request[a] # Null
    /\ answer[a].outcome = "confirmed" =>
         /\ answer[a].appointment \in appointments
         /\ Fulfils(answer[a].appointment, request[a])
    /\ answer[a].outcome = "key_required" => request[a].key = EmptyKey
    /\ answer[a].outcome = "not_owned" => ~OwnsVehicle(request[a])
    /\ answer[a].outcome # "in_progress"

\* The vehicles that the handler finds for a user when no lookup fails.
VehiclesOf(user) == IF user # Null THEN ListVehicles(user) ELSE {}

\* The refusal that is due to an attempt when no lookup fails, or 0.
Due(a) == FirstRefusal(post[a].body, Sender(a), VehiclesOf(Sender(a)))

\* What is passed on to the server is the body, on behalf of its sender, and nothing is
\* wrong with it.
PassedOn ==
  \A a \in Attempts :
    /\ post[a] = Null => request[a] = Null /\ status[a] = 0
    /\ request[a] # Null =>
         /\ WellFormed(post[a].body)
         /\ Sender(a) \in Users
         /\ request[a] = CreateInput(post[a].body, Sender(a))
         /\ Due(a) = 0

\* A status is that of the answer or, of what was not passed on, a refusal: the one
\* that is due unless a lookup of the attempt has failed.
StatusesExplained ==
  \A a \in Attempts : status[a] # 0 =>
    /\ request[a] # Null => answer[a] # Pending /\ status[a] = StatusOf(answer[a].outcome)
    /\ request[a] = Null =>
         /\ status[a] \in {400, 401}
         /\ post[a].found => status[a] = Due(a)

\* In doubt is only who was told of an error.
Doubts == \A d \in doubtful : request[d] # Null /\ answer[d] = Refused("error")

\* Where an attempt hears that its vehicle is not the customer's, or that nothing is
\* available, those that were over by then and asked for the same have not booked and
\* will not; a conflict is with another request that has.
LastWords ==
  \A b \in Attempts :
    /\ post[b] # Null => \A a \in post[b].heard : a \in Attempts /\ status[a] # 0
    /\ answer[b].outcome \in {"not_owned", "no_availability"} =>
         \A a \in post[b].heard : request[a] = request[b] =>
           a \notin doubtful /\ \A row \in appointments : row.id # a
    /\ answer[b].outcome = "conflict" =>
         \E rec \in idempotency :
           rec.key = request[b].key /\ rec.hash # RequestHash(request[b])

IndInv ==
  /\ TypeOK
  /\ Promise
  /\ Local
  /\ AnswersTruthful
  /\ PassedOn
  /\ StatusesExplained
  /\ Doubts
  /\ LastWords

-----------------------------------------------------------------------------
(* Facts about users, bodies and statuses. *)

\* A lookup that finds a user finds the one that header and cookie name.
LEMMA CurrentUserFacts ==
  ASSUME NEW header, NEW tab, NEW works \in BOOLEAN
  PROVE  /\ CurrentUser(header, tab, works) \in Users \cup {Null}
         /\ CurrentUser(header, tab, works) # Null =>
              CurrentUser(header, tab, works) = CurrentUser(header, tab, TRUE)
BY DEF CurrentUser

\* The input of CreateAppointment is the body, with the customer that the user is.
LEMMA CreateInputFacts ==
  ASSUME NEW p \in Posts, NEW u \in Users
  PROVE  /\ CreateInput(p, u).key = p.key
         /\ CreateInput(p, u).customer = CustomerOf[u]
         /\ CreateInput(p, u).vehicle = p.vehicle
         /\ WellFormed(p) => CreateInput(p, u) \in Requests /\ CreateInput(p, u) # Null
<1>1. /\ CreateInput(p, u).key = p.key
      /\ CreateInput(p, u).customer = CustomerOf[u]
      /\ CreateInput(p, u).vehicle = p.vehicle
  BY DEF CreateInput
<1>2. WellFormed(p) => CreateInput(p, u) \in Requests
  BY HttpApiAssumption
<1>3. QED
  BY <1>1, <1>2, BookingDataAssumption

\* Nothing is refused but by 400 and 401, and what is not refused is well formed.
LEMMA FirstRefusalFacts ==
  ASSUME NEW p \in Posts, NEW user, NEW vehicles
  PROVE  /\ FirstRefusal(p, user, vehicles) \in {0, 400, 401}
         /\ FirstRefusal(p, user, vehicles) = 0 =>
              WellFormed(p) /\ user # Null /\ p.vehicle \in vehicles
BY DEF FirstRefusal, WellFormed

\* A status tells a confirmation, an invalid request and an error apart.
LEMMA StatusOfFacts ==
  ASSUME NEW outcome \in Refusals \cup {"confirmed"}
  PROVE  /\ StatusOf(outcome) \in {201, 400, 409, 500}
         /\ StatusOf(outcome) = 201 <=> outcome = "confirmed"
         /\ StatusOf(outcome) = 400 <=> outcome \in {"key_required", "not_owned"}
         /\ StatusOf(outcome) = 500 <=> outcome = "error"
BY DEF StatusOf, Refusals

\* A row of a booking has the customer and the dealership that were asked for, and
\* a technician of that dealership.
LEMMA FulfilsFields ==
  ASSUME NEW row, NEW r, Fulfils(row, r)
  PROVE  /\ row.customer = r.customer /\ row.dealership = r.dealership
         /\ TechnicianDealership[row.technician] = row.dealership
BY DEF Fulfils, Qualified, AppointmentFor

-----------------------------------------------------------------------------
(* The server's steps. *)

\* The operators of BookingData mean the same in AtomicBooking.
LEMMA ServerOperators ==
  /\ Server!Pending = Pending /\ Server!Refusals = Refusals
  /\ \A outcome : Server!Refused(outcome) = Refused(outcome)
  /\ \A row : Server!Confirmed(row) = Confirmed(row)
  /\ \A r : Server!OwnsVehicle(r) = OwnsVehicle(r)
  /\ \A r : Server!RequestHash(r) = RequestHash(r)
  /\ \A r, id : Server!CompletedRow(r, id) = CompletedRow(r, id)
  /\ \A r, id, t, b : Server!AppointmentFor(id, r, t, b) = AppointmentFor(id, r, t, b)
  /\ \A rows, r, t : t \in Server!AvailableTechnicians(rows, r) => Qualified(t, r)
  /\ \A rows, r, b : b \in Server!AvailableBays(rows, r) => Compatible(b, r)
<1>1. /\ Server!Pending = Pending /\ Server!Refusals = Refusals
      /\ \A outcome : Server!Refused(outcome) = Refused(outcome)
      /\ \A row : Server!Confirmed(row) = Confirmed(row)
      /\ \A r : Server!OwnsVehicle(r) = OwnsVehicle(r)
  BY DEF Server!Pending, Pending, Server!Refusals, Refusals, Server!Refused, Refused,
     Server!Confirmed, Confirmed, Server!OwnsVehicle, OwnsVehicle
<1>2. \A r : Server!ServiceEnd(r) = ServiceEnd(r)
  BY DEF Server!ServiceEnd, ServiceEnd
<1>3. /\ \A r : Server!RequestHash(r) = RequestHash(r)
      /\ \A r, id : Server!CompletedRow(r, id) = CompletedRow(r, id)
  BY <1>2 DEF Server!CompletedRow, CompletedRow, Server!RequestHash, RequestHash
<1>4. \A r, id, t, b : Server!AppointmentFor(id, r, t, b) = AppointmentFor(id, r, t, b)
  BY <1>2 DEF Server!AppointmentFor, AppointmentFor
<1>5. /\ \A rows, r, t : t \in Server!AvailableTechnicians(rows, r) => Qualified(t, r)
      /\ \A rows, r, b : b \in Server!AvailableBays(rows, r) => Compatible(b, r)
  BY DEF Server!AvailableTechnicians, Server!AvailableBays, Server!Qualified, Qualified,
     Server!Compatible, Compatible
<1>6. QED
  BY <1>1, <1>3, <1>4, <1>5

\* A record is known by its fields.
LEMMA CompletedRowFields ==
  ASSUME NEW r, NEW id
  PROVE  /\ CompletedRow(r, id).key = r.key
         /\ CompletedRow(r, id).hash = RequestHash(r)
         /\ CompletedRow(r, id).appointment = id
BY DEF CompletedRow

\* What the server does leaves the handler's part of the invariant alone, as long as
\* an answer that has been given with a status is not changed.
LEMMA HandlerUndisturbed ==
  ASSUME IndInv, UNCHANGED <<request, cookie, post, status, failures>>,
         \A a \in Attempts : answer[a] # Pending => answer'[a] = answer[a]
  PROVE  PassedOn' /\ StatusesExplained'
<1>a. PassedOn /\ StatusesExplained
  BY DEF IndInv
<1>1. \A a \in Attempts : Sender(a)' = Sender(a)
  BY DEF Sender
<1>2. PassedOn'
  BY <1>a, <1>1 DEF PassedOn, Due
<1>3. StatusesExplained'
  BY <1>a, <1>1 DEF StatusesExplained, Due
<1>4. QED
  BY <1>2, <1>3

\* A step that sends at most a request and settles at most a doubt leaves the server's
\* part of the invariant alone.
LEMMA ServerUndisturbed ==
  ASSUME IndInv, UNCHANGED <<appointments, idempotency, answer>>, doubtful' \subseteq doubtful,
         \A a \in Attempts : request[a] # Null \/ status[a] # 0 => request'[a] = request[a],
         \A b \in Attempts : post[b] # Null => post'[b] = post[b],
         \A b \in Attempts : post'[b] # Null =>
           \A a \in post'[b].heard : a \in Attempts /\ status'[a] # 0
  PROVE  Promise' /\ Local' /\ AnswersTruthful' /\ Doubts' /\ LastWords'
<1>a. /\ TypeOK /\ Promise /\ Local /\ AnswersTruthful /\ PassedOn
      /\ Doubts /\ LastWords
  BY DEF IndInv
<1>1. Promise'
  <2>1. \A a \in Attempts : \A row \in appointments :
          row.id = a =>
            /\ request'[a] # Null /\ request'[a].key # EmptyKey /\ Fulfils(row, request'[a])
            /\ CompletedRow(request'[a], a) \in idempotency
            /\ answer[a].outcome \in {"confirmed", "error"}
    BY <1>a DEF Promise
  <2>2. \A rec \in idempotency : \E a \in Attempts :
          /\ request'[a] # Null /\ request'[a].service \in Services
          /\ rec = CompletedRow(request'[a], a)
    BY <1>a DEF Promise
  <2>3. QED
    BY <1>a, <2>1, <2>2 DEF Promise
<1>2. Local'
  BY <1>a DEF Local
<1>3. AnswersTruthful'
  <2>1. \A a \in Attempts : answer[a] # Pending => request'[a] = request[a]
    BY <1>a DEF AnswersTruthful
  <2>2. \A a \in Attempts :
          answer[a].outcome \in {"confirmed", "key_required", "not_owned"} =>
            request'[a] = request[a]
    BY <2>1 DEF Pending
  <2>3. QED
    BY <1>a, <2>1, <2>2 DEF AnswersTruthful
<1>4. Doubts'
  BY <1>a DEF Doubts, TypeOK
<1>5. LastWords'
  <2>1. \A b \in Attempts : post'[b] # Null =>
          \A a \in post'[b].heard : a \in Attempts /\ status'[a] # 0
    OBVIOUS
  <2>2. \A b \in Attempts :
          answer[b].outcome \in {"not_owned", "no_availability", "conflict"} =>
            request[b] # Null /\ request'[b] = request[b] /\ post[b] # Null /\ post'[b] = post[b]
    BY <1>a DEF AnswersTruthful, PassedOn, Pending
  <2>3. ASSUME NEW b \in Attempts,
               answer[b].outcome \in {"not_owned", "no_availability"},
               NEW a \in post'[b].heard, request'[a] = request'[b]
        PROVE  a \notin doubtful' /\ \A row \in appointments : row.id # a
    <3>1. a \in post[b].heard /\ a \in Attempts /\ status[a] # 0
      BY <1>a, <2>2, <2>3 DEF LastWords
    <3>2. request[a] = request[b]
      BY <2>2, <2>3, <3>1
    <3>3. a \notin doubtful /\ \A row \in appointments : row.id # a
      BY <1>a, <2>3, <3>1, <3>2 DEF LastWords
    <3>4. QED
      BY <3>3
  <2>4. \A b \in Attempts : answer[b].outcome = "conflict" =>
          \E rec \in idempotency :
            rec.key = request'[b].key /\ rec.hash # RequestHash(request'[b])
    BY <1>a, <2>2 DEF LastWords
  <2>5. QED
    BY <2>1, <2>3, <2>4 DEF LastWords
<1>6. QED
  BY <1>1, <1>2, <1>3, <1>4, <1>5

\* A booking adds a row of what was asked, and tells the attempt of it unless that
\* has been told of an error.
LEMMA BookStep ==
  ASSUME IndInv, NEW a \in Attempts, NEW t \in Technicians, NEW b \in Bays,
         Server!Book(a, t, b), UNCHANGED <<cookie, post, status, failures>>
  PROVE  IndInv'
<1>a. /\ TypeOK /\ Promise /\ Local /\ AnswersTruthful /\ PassedOn /\ StatusesExplained
      /\ Doubts /\ LastWords
  BY DEF IndInv
<1> DEFINE row == AppointmentFor(a, request[a], t, b)
           rec == CompletedRow(request[a], a)
<1>b. /\ request[a] # Null /\ request[a].service \in Services
      /\ request[a].key # EmptyKey
      /\ \A existing \in idempotency : existing.key # request[a].key
      /\ Qualified(t, request[a]) /\ Compatible(b, request[a])
      /\ request' = request
      /\ appointments' = appointments \cup {row}
      /\ idempotency' = idempotency \cup {rec}
      /\ \/ /\ answer[a] = Pending /\ answer' = [answer EXCEPT ![a] = Confirmed(row)]
            /\ doubtful' = doubtful
         \/ a \in doubtful /\ answer' = answer /\ doubtful' = doubtful \ {a}
  BY ServerOperators DEF Server!Book, Server!Enter, Server!Claimed
<1>c. /\ request[a] \in Requests
      /\ row \in AppointmentRows(AppointmentIds) /\ row.id = a
      /\ rec \in IdempotencyRows
  BY <1>a, <1>b, AppointmentForType, CompletedRowType DEF TypeOK, AppointmentFor
<1>d. Fulfils(row, request[a])
  BY <1>b, <1>c DEF Fulfils
<1>e. TechnicianDealership[row.technician] = row.dealership
  BY <1>d, FulfilsFields
<1> HIDE DEF row
<1>1. \A x \in appointments : x.id # a
  BY <1>a, <1>b, CompletedRowFields DEF Promise
<1>2. /\ \A d \in Attempts \ {a} : answer'[d] = answer[d]
      /\ \/ answer[a] = Pending /\ answer'[a] = Confirmed(row)
         \/ answer[a] = Refused("error") /\ answer'[a] = Refused("error")
  BY <1>a, <1>b DEF TypeOK, Doubts
<1>3. TypeOK'
  <2>1. answer' \in [Attempts -> Answers]
    BY <1>a, <1>b, <1>c, AnswerTypes DEF TypeOK
  <2>2. QED
    BY <1>a, <1>b, <1>c, <2>1 DEF TypeOK
<1>4. Promise'
  <2>1. \A x, y \in appointments' : x.id = y.id => x = y
    BY <1>a, <1>b, <1>c, <1>1 DEF Promise
  <2>2. \A d \in Attempts : \A x \in appointments :
          x.id = d =>
            /\ request[d] # Null /\ request[d].key # EmptyKey /\ Fulfils(x, request[d])
            /\ CompletedRow(request[d], d) \in idempotency'
            /\ answer'[d].outcome \in {"confirmed", "error"}
    BY <1>a, <1>b, <1>1, <1>2 DEF Promise
  <2>3. answer'[a].outcome \in {"confirmed", "error"} /\ rec \in idempotency'
    BY <1>b, <1>2 DEF Confirmed, Refused
  <2>4. \A d \in Attempts : \A x \in appointments' :
          x.id = d =>
            /\ request[d] # Null /\ request[d].key # EmptyKey /\ Fulfils(x, request[d])
            /\ CompletedRow(request[d], d) \in idempotency'
            /\ answer'[d].outcome \in {"confirmed", "error"}
    BY <1>b, <1>c, <1>d, <2>2, <2>3
  <2>5. \A x \in idempotency' : \E d \in Attempts :
          /\ request[d] # Null /\ request[d].service \in Services
          /\ x = CompletedRow(request[d], d)
    BY <1>a, <1>b DEF Promise
  <2>6. \A x, y \in idempotency' : x.key = y.key => x = y
    BY <1>a, <1>b, CompletedRowFields DEF Promise
  <2>7. QED
    BY <1>b, <2>1, <2>4, <2>5, <2>6 DEF Promise
<1>5. Local'
  BY <1>a, <1>b, <1>e DEF Local
<1>6. AnswersTruthful'
  <2>1. \A d \in Attempts \ {a} :
          /\ answer'[d].outcome = "none" => answer'[d] = Pending
          /\ answer'[d] # Pending => request[d] # Null
          /\ answer'[d].outcome = "confirmed" =>
               /\ answer'[d].appointment \in appointments'
               /\ Fulfils(answer'[d].appointment, request[d])
          /\ answer'[d].outcome = "key_required" => request[d].key = EmptyKey
          /\ answer'[d].outcome = "not_owned" => ~OwnsVehicle(request[d])
          /\ answer'[d].outcome # "in_progress"
    BY <1>a, <1>b, <1>2 DEF AnswersTruthful
  <2>2. \/ answer'[a].outcome = "confirmed" /\ answer'[a].appointment = row
        \/ answer'[a].outcome = "error"
    BY <1>2 DEF Confirmed, Refused
  <2>3. QED
    BY <1>b, <1>d, <2>1, <2>2 DEF AnswersTruthful
<1>7. \A d \in Attempts : answer[d] # Pending => answer'[d] = answer[d]
  BY <1>2
<1>8. Doubts'
  BY <1>a, <1>b, <1>2, <1>7 DEF Doubts, TypeOK, Pending, Refused
<1>9. LastWords'
  <2>1. answer'[a].outcome \in {"confirmed", "error"}
    BY <1>2 DEF Confirmed, Refused
  <2>2. ASSUME NEW d \in Attempts \ {a},
               answer[d].outcome \in {"not_owned", "no_availability"},
               NEW e \in post[d].heard, request[e] = request[d]
        PROVE  e \notin doubtful' /\ \A x \in appointments' : x.id # e
    <3>1. e \notin doubtful /\ \A x \in appointments : x.id # e
      BY <1>a, <2>2 DEF LastWords
    <3>2. request[d] # Null
      BY <1>a, <2>2 DEF AnswersTruthful, Pending
    <3>3. e \in Attempts /\ status[e] # 0
      BY <1>a, <2>2, <3>2 DEF LastWords, PassedOn
    <3>4. answer[e] # Pending
      BY <1>a, <2>2, <3>2, <3>3 DEF StatusesExplained
    <3>5. e # a
      BY <1>b, <3>1, <3>4
    <3>6. QED
      BY <1>b, <1>c, <3>1, <3>5
  <2>3. \A d \in Attempts \ {a} : answer'[d] = answer[d] /\ request'[d] = request[d]
    BY <1>b, <1>2
  <2>4. \A d \in Attempts : answer'[d].outcome = "conflict" =>
          \E x \in idempotency' : x.key = request[d].key /\ x.hash # RequestHash(request[d])
    BY <1>a, <1>b, <2>1, <2>3 DEF LastWords
  <2>5. QED
    BY <1>a, <1>b, <2>1, <2>2, <2>3, <2>4 DEF LastWords
<1>10. QED
  BY <1>b, <1>3, <1>4, <1>5, <1>6, <1>7, <1>8, <1>9, HandlerUndisturbed DEF IndInv

\* The server answers without booking.
LEMMA AnswerStep ==
  ASSUME IndInv, NEW a \in Attempts, request[a] # Null, answer[a] = Pending,
         NEW what \in Answers, what.outcome \notin {"none", "in_progress"},
         answer' = [answer EXCEPT ![a] = what],
         UNCHANGED <<request, appointments, idempotency, cookie, post, status, failures>>,
         what.outcome = "confirmed" =>
           /\ what.appointment \in appointments
           /\ Fulfils(what.appointment, request[a]),
         what.outcome = "key_required" => request[a].key = EmptyKey,
         what.outcome = "not_owned" => ~OwnsVehicle(request[a]),
         \/ doubtful' = doubtful
         \/ what = Refused("error") /\ doubtful' = doubtful \cup {a},
         what.outcome \in {"not_owned", "no_availability"} =>
           /\ \A rec \in idempotency : rec.key # request[a].key
           /\ \A d \in doubtful : request[d].key # request[a].key,
         what.outcome = "conflict" =>
           \E rec \in idempotency :
             rec.key = request[a].key /\ rec.hash # RequestHash(request[a])
  PROVE  IndInv'
<1>a. /\ TypeOK /\ Promise /\ Local /\ AnswersTruthful /\ PassedOn /\ StatusesExplained
      /\ Doubts /\ LastWords
  BY DEF IndInv
<1>1. answer'[a] = what /\ \A d \in Attempts \ {a} : answer'[d] = answer[d]
  BY <1>a DEF TypeOK
<1>2. TypeOK'
  BY <1>a DEF TypeOK
<1>3. Promise'
  <2>1. \A x \in appointments : x.id # a
    BY <1>a DEF Promise, Pending
  <2>2. QED
    BY <1>a, <1>1, <2>1 DEF Promise
<1>4. Local'
  BY <1>a DEF Local
<1>5. AnswersTruthful'
  <2>1. \A d \in Attempts \ {a} :
          /\ answer'[d].outcome = "none" => answer'[d] = Pending
          /\ answer'[d] # Pending => request[d] # Null
          /\ answer'[d].outcome = "confirmed" =>
               /\ answer'[d].appointment \in appointments
               /\ Fulfils(answer'[d].appointment, request[d])
          /\ answer'[d].outcome = "key_required" => request[d].key = EmptyKey
          /\ answer'[d].outcome = "not_owned" => ~OwnsVehicle(request[d])
          /\ answer'[d].outcome # "in_progress"
    BY <1>a, <1>1 DEF AnswersTruthful
  <2>2. QED
    BY <1>1, <2>1 DEF AnswersTruthful
<1>6. \A d \in Attempts : answer[d] # Pending => answer'[d] = answer[d]
  BY <1>1
<1>7. Doubts'
  BY <1>a, <1>1, <1>6 DEF Doubts, TypeOK, Pending, Refused
<1>8. LastWords'
  <2>1. \A d \in Attempts \ {a} :
          answer'[d].outcome = "conflict" =>
            \E rec \in idempotency :
              rec.key = request[d].key /\ rec.hash # RequestHash(request[d])
    BY <1>a, <1>1 DEF LastWords
  <2>2. ASSUME NEW d \in Attempts, NEW e \in post[d].heard, request[e] = request[d],
               request[d] # Null
        PROVE  e \in Attempts /\ e # a
    <3>1. e \in Attempts /\ status[e] # 0
      BY <1>a, <2>2 DEF LastWords, PassedOn
    <3>2. answer[e] # Pending
      BY <1>a, <2>2, <3>1 DEF StatusesExplained
    <3>3. QED
      BY <3>1, <3>2
  <2>3. ASSUME NEW d \in Attempts,
               answer'[d].outcome \in {"not_owned", "no_availability"},
               NEW e \in post[d].heard, request[e] = request[d]
        PROVE  e \notin doubtful' /\ \A x \in appointments : x.id # e
    <3>1. request[d] # Null
      BY <1>a, <1>1, <2>3 DEF AnswersTruthful, Pending
    <3>2. e \in Attempts /\ e # a
      BY <2>2, <2>3, <3>1
    <3>3. CASE d # a
      <4>1. e \notin doubtful /\ \A x \in appointments : x.id # e
        BY <1>a, <1>1, <2>3, <3>3 DEF LastWords
      <4>2. QED
        BY <3>2, <4>1
    <3>4. CASE d = a
      <4>1. /\ \A rec \in idempotency : rec.key # request[a].key
            /\ \A x \in doubtful : request[x].key # request[a].key
        BY <1>1, <2>3, <3>4
      <4>2. \A x \in appointments : x.id # e
        BY <1>a, <2>3, <3>2, <3>4, <4>1, CompletedRowFields DEF Promise
      <4>3. e \notin doubtful
        BY <2>3, <3>4, <4>1
      <4>4. QED
        BY <3>2, <4>2, <4>3
    <3>5. QED
      BY <3>3, <3>4
  <2>4. \A d \in Attempts : post[d] # Null =>
          \A e \in post[d].heard : e \in Attempts /\ status[e] # 0
    BY <1>a DEF LastWords
  <2>5. QED
    BY <1>1, <2>1, <2>3, <2>4 DEF LastWords
<1>9. QED
  BY <1>2, <1>3, <1>4, <1>5, <1>6, <1>7, <1>8, HandlerUndisturbed DEF IndInv

\* Whatever the server does keeps the invariant: a replay is of a row of an equal request.
LEMMA ServeStep ==
  ASSUME IndInv, NEW a \in Attempts, Serve(a)
  PROVE  IndInv'
<1>a. TypeOK /\ Promise
  BY DEF IndInv
<1>b. UNCHANGED <<cookie, post, status, failures>>
  BY DEF Serve
<1>1. CASE \E t \in Technicians, b \in Bays : Server!Book(a, t, b)
  BY <1>b, <1>1, BookStep
<1>2. ASSUME NEW row \in appointments, Server!Replay(a, row) PROVE IndInv'
  <2>1. /\ request[a] # Null /\ answer[a] = Pending
        /\ CompletedRow(request[a], row.id) \in idempotency
        /\ answer' = [answer EXCEPT ![a] = Confirmed(row)]
        /\ UNCHANGED <<request, appointments, idempotency, doubtful>>
    BY <1>2, ServerOperators DEF Server!Replay
  <2>2. PICK c \in Attempts :
          request[c] # Null /\ CompletedRow(request[a], row.id) = CompletedRow(request[c], c)
    BY <1>a, <2>1 DEF Promise
  <2>3. row.id = c /\ RequestHash(request[c]) = RequestHash(request[a])
    <3>1. /\ CompletedRow(request[a], row.id).appointment = row.id
          /\ CompletedRow(request[a], row.id).hash = RequestHash(request[a])
          /\ CompletedRow(request[c], c).appointment = c
          /\ CompletedRow(request[c], c).hash = RequestHash(request[c])
      BY CompletedRowFields
    <3>2. QED
      BY <2>2, <3>1
  <2>4. request[a] \in Requests /\ request[c] \in Requests
    BY <1>a, <2>1, <2>2 DEF TypeOK
  <2>5. Fulfils(row, request[a])
    <3>1. Fulfils(row, request[c])
      BY <1>a, <2>3 DEF Promise
    <3>2. QED
      BY <2>3, <2>4, <3>1, SameDigest
  <2>6. /\ Confirmed(row) \in Answers /\ Confirmed(row).appointment = row
        /\ Confirmed(row).outcome = "confirmed"
    BY <1>a, AnswerTypes DEF TypeOK, Confirmed
  <2>7. QED
    BY <1>b, <2>1, <2>5, <2>6, AnswerStep
<1>3. ASSUME NEW outcome \in Refusals, Server!Refuse(a, outcome) PROVE IndInv'
  <2>1. /\ request[a] # Null /\ answer[a] = Pending
        /\ answer' = [answer EXCEPT ![a] = Refused(outcome)]
        /\ UNCHANGED <<request, appointments, idempotency>>
        /\ \/ doubtful' = doubtful
           \/ Refused(outcome) = Refused("error") /\ doubtful' = doubtful \cup {a}
    BY <1>3, ServerOperators DEF Server!Refuse
  <2>2. /\ outcome = "key_required" => request[a].key = EmptyKey
        /\ outcome = "not_owned" => ~OwnsVehicle(request[a])
        /\ outcome \in {"not_owned", "no_availability"} =>
             /\ \A rec \in idempotency : rec.key # request[a].key
             /\ \A d \in doubtful : request[d].key # request[a].key
        /\ outcome = "conflict" =>
             \E rec \in idempotency :
               rec.key = request[a].key /\ rec.hash # RequestHash(request[a])
    BY <1>3, ServerOperators DEF Server!Refuse, Server!Truthful, Server!Unclaimed,
       Server!Claimed
  <2>3. Refused(outcome) \in Answers /\ Refused(outcome).outcome = outcome
    BY AnswerTypes DEF Refused
  <2>4. outcome \notin {"none", "confirmed", "in_progress"}
    BY <1>3 DEF Refusals, Server!Refuse, Server!Truthful
  <2>5. QED
    BY <1>b, <2>1, <2>2, <2>3, <2>4, AnswerStep
<1>4. CASE Server!GiveUp(a)
  <2>1. /\ doubtful' = doubtful \ {a}
        /\ UNCHANGED <<request, appointments, idempotency, answer>>
    BY <1>4 DEF Server!GiveUp
  <2>2. TypeOK'
    BY <1>a, <1>b, <2>1 DEF TypeOK
  <2>3. Promise' /\ Local' /\ AnswersTruthful' /\ Doubts' /\ LastWords'
    BY <1>b, <2>1, ServerUndisturbed DEF IndInv, LastWords
  <2>4. QED
    BY <1>b, <2>1, <2>2, <2>3, HandlerUndisturbed DEF IndInv
<1>5. QED
  BY <1>1, <1>2, <1>3, <1>4, ServerOperators DEF Serve, Server!Serve

-----------------------------------------------------------------------------
(* The handler's steps. *)

\* A login or a logout leaves everything but the cookie.
LEMMA SessionStep ==
  ASSUME IndInv, cookie' \in Users \cup {Null}, UNCHANGED <<server, post, status, failures>>
  PROVE  IndInv'
<1>a. TypeOK /\ PassedOn /\ StatusesExplained /\ LastWords
  BY DEF IndInv
<1>1. TypeOK'
  BY <1>a DEF TypeOK, server
<1>2. Promise' /\ Local' /\ AnswersTruthful' /\ Doubts' /\ LastWords'
  BY <1>a, ServerUndisturbed DEF server, LastWords
<1>3. \A a \in Attempts : Sender(a)' = Sender(a)
  BY DEF Sender
<1>4. PassedOn' /\ StatusesExplained'
  BY <1>a, <1>3 DEF PassedOn, StatusesExplained, Due, VehiclesOf, server
<1>5. QED
  BY <1>1, <1>2, <1>4 DEF IndInv

\* A body is refused for what is wrong with it, or passed on for its sender.
LEMMA ReceiveStep ==
  ASSUME IndInv, NEW a \in Attempts, NEW p \in Posts, NEW userFound \in BOOLEAN,
         NEW vehiclesFound \in BOOLEAN, Receive(a, p, userFound, vehiclesFound)
  PROVE  IndInv'
<1>a. /\ TypeOK /\ Promise /\ Local /\ AnswersTruthful /\ PassedOn /\ StatusesExplained
      /\ Doubts /\ LastWords
  BY DEF IndInv
<1> DEFINE user == CurrentUser(p.header, cookie, userFound)
           vehicles == IF vehiclesFound /\ user # Null THEN ListVehicles(user) ELSE {}
           refusal == FirstRefusal(p, user, vehicles)
           sent == [body |-> p, cookie |-> cookie, found |-> userFound /\ vehiclesFound,
                    heard |-> {b \in Attempts : status[b] # 0}]
<1>b. /\ post[a] = Null /\ post' = [post EXCEPT ![a] = sent]
      /\ failures' = IF userFound /\ vehiclesFound THEN failures ELSE failures + 1
      /\ failures' <= MaxFailures
      /\ UNCHANGED cookie
  BY DEF Receive
<1>c. \/ /\ refusal # 0
         /\ status' = [status EXCEPT ![a] = refusal]
         /\ UNCHANGED server
      \/ /\ refusal = 0
         /\ request' = [request EXCEPT ![a] = CreateInput(p, user)]
         /\ UNCHANGED <<status, appointments, idempotency, answer, doubtful>>
  BY DEF Receive, Server!Send
<1>d. request[a] = Null /\ status[a] = 0
  BY <1>a, <1>b DEF PassedOn
<1>e. /\ user \in Users \cup {Null}
      /\ user # Null => user = CurrentUser(p.header, cookie, TRUE)
      /\ userFound => user = CurrentUser(p.header, cookie, TRUE)
  BY CurrentUserFacts
<1>f. /\ refusal \in {0, 400, 401}
      /\ refusal = 0 => WellFormed(p) /\ user \in Users
  BY <1>e, FirstRefusalFacts
<1>g. refusal = 0 => CreateInput(p, user) \in Requests /\ CreateInput(p, user) # Null
  BY <1>f, CreateInputFacts
<1>h. sent \in Received
  BY <1>a DEF TypeOK, Received
<1>i. sent # Null
  BY <1>h, HttpApiAssumption DEF Received
<1>1. post'[a] = sent /\ \A d \in Attempts \ {a} : post'[d] = post[d]
  BY <1>a, <1>b DEF TypeOK
<1>2. /\ Sender(a)' = CurrentUser(p.header, cookie, TRUE)
      /\ \A d \in Attempts \ {a} : Sender(d)' = Sender(d)
  <2>1. post'[a].body = p /\ post'[a].cookie = cookie
    BY <1>1
  <2>2. Sender(a)' = CurrentUser(p.header, cookie, TRUE)
    BY <2>1 DEF Sender
  <2>3. \A d \in Attempts \ {a} : Sender(d)' = Sender(d)
    BY <1>1 DEF Sender
  <2>4. QED
    BY <2>2, <2>3
<1>3. failures \in Nat /\ failures' \in Nat
  BY <1>a, <1>b DEF TypeOK
<1>4. failures' \in 0 .. MaxFailures
  <2>1. MaxFailures \in Nat
    BY HttpApiAssumption
  <2>2. QED
    BY <1>b, <1>3, <2>1
<1>j. /\ sent.body = p /\ sent.found = (userFound /\ vehiclesFound)
      /\ sent.heard = {b \in Attempts : status[b] # 0}
  OBVIOUS
<1>k. Due(a)' = FirstRefusal(p, Sender(a)', VehiclesOf(Sender(a)'))
  BY <1>1, <1>j DEF Due, VehiclesOf
<1>l. \A d \in Attempts \ {a} : Due(d)' = Due(d)
  BY <1>1, <1>2 DEF Due, VehiclesOf
<1> HIDE DEF refusal, sent
<1>5. CASE /\ refusal # 0
           /\ status' = [status EXCEPT ![a] = refusal]
           /\ UNCHANGED server
  <2>1. status'[a] = refusal /\ \A d \in Attempts \ {a} : status'[d] = status[d]
    BY <1>a, <1>5 DEF TypeOK
  <2>2. TypeOK'
    BY <1>a, <1>b, <1>f, <1>h, <1>4, <1>5 DEF TypeOK, server
  <2>3. Promise' /\ Local' /\ AnswersTruthful' /\ Doubts' /\ LastWords'
    <3>1. \A b \in Attempts : post'[b] # Null =>
            \A d \in post'[b].heard : d \in Attempts /\ status'[d] # 0
      BY <1>a, <1>d, <1>j, <1>1, <2>1 DEF LastWords
    <3>2. \A b \in Attempts : post[b] # Null => post'[b] = post[b]
      BY <1>b, <1>1
    <3>3. QED
      BY <1>5, <3>1, <3>2, ServerUndisturbed DEF server
  <2>4. PassedOn'
    <3>1. \A d \in Attempts \ {a} :
            /\ post'[d] = Null => request[d] = Null /\ status'[d] = 0
            /\ request[d] # Null =>
                 /\ WellFormed(post'[d].body)
                 /\ Sender(d)' \in Users
                 /\ request[d] = CreateInput(post'[d].body, Sender(d)')
                 /\ Due(d)' = 0
      BY <1>a, <1>1, <1>2, <1>l, <2>1 DEF PassedOn
    <3>2. QED
      BY <1>d, <1>i, <1>1, <1>5, <3>1 DEF PassedOn, server
  <2>5. StatusesExplained'
    <3>1. userFound /\ vehiclesFound => refusal = Due(a)'
      BY <1>e, <1>k, <1>2 DEF refusal, VehiclesOf
    <3>2. \A d \in Attempts \ {a} : status'[d] # 0 =>
            /\ request[d] # Null => answer[d] # Pending /\ status'[d] = StatusOf(answer[d].outcome)
            /\ request[d] = Null =>
                 /\ status'[d] \in {400, 401}
                 /\ post'[d].found => status'[d] = Due(d)'
      BY <1>a, <1>1, <1>l, <2>1 DEF StatusesExplained
    <3>3. post'[a].found = (userFound /\ vehiclesFound)
      BY <1>j, <1>1
    <3>4. QED
      BY <1>d, <1>f, <1>5, <2>1, <3>1, <3>2, <3>3 DEF StatusesExplained, server
  <2>6. QED
    BY <2>2, <2>3, <2>4, <2>5 DEF IndInv
<1>6. CASE /\ refusal = 0
           /\ request' = [request EXCEPT ![a] = CreateInput(p, user)]
           /\ UNCHANGED <<status, appointments, idempotency, answer, doubtful>>
  <2>1. request'[a] = CreateInput(p, user) /\ \A d \in Attempts \ {a} : request'[d] = request[d]
    BY <1>a, <1>6 DEF TypeOK
  <2>2. TypeOK'
    BY <1>a, <1>b, <1>g, <1>h, <1>4, <1>6 DEF TypeOK
  <2>3. Promise' /\ Local' /\ AnswersTruthful' /\ Doubts' /\ LastWords'
    <3>1. \A b \in Attempts : post'[b] # Null =>
            \A d \in post'[b].heard : d \in Attempts /\ status'[d] # 0
      BY <1>a, <1>j, <1>1, <1>6 DEF LastWords
    <3>2. \A b \in Attempts : post[b] # Null => post'[b] = post[b]
      BY <1>b, <1>1
    <3>3. \A d \in Attempts : request[d] # Null \/ status[d] # 0 => request'[d] = request[d]
      BY <1>d, <2>1
    <3>4. QED
      BY <1>6, <3>1, <3>2, <3>3, ServerUndisturbed
  <2>4. PassedOn'
    <3>1. \A d \in Attempts \ {a} :
            /\ post'[d] = Null => request'[d] = Null /\ status[d] = 0
            /\ request'[d] # Null =>
                 /\ WellFormed(post'[d].body)
                 /\ Sender(d)' \in Users
                 /\ request'[d] = CreateInput(post'[d].body, Sender(d)')
                 /\ Due(d)' = 0
      BY <1>a, <1>1, <1>2, <1>l, <2>1 DEF PassedOn
    <3>2. post'[a].body = p
      BY <1>j, <1>1
    <3>3. Sender(a)' = user
      <4>1. Null \notin Users
        BY ReadersAssumption
      <4>2. QED
        BY <1>e, <1>f, <1>2, <1>6, <4>1
    <3>4. Due(a)' = 0
      <4>1. p.vehicle \in vehicles
        BY <1>6, FirstRefusalFacts DEF refusal
      <4>2. vehicles = VehiclesOf(user)
        BY <4>1 DEF VehiclesOf
      <4>3. QED
        BY <1>k, <1>6, <3>3, <4>2 DEF refusal
    <3>5. QED
      BY <1>f, <1>i, <1>1, <1>6, <2>1, <3>1, <3>2, <3>3, <3>4 DEF PassedOn
  <2>5. StatusesExplained'
    <3>1. \A d \in Attempts \ {a} : status[d] # 0 =>
            /\ request'[d] # Null => answer[d] # Pending /\ status[d] = StatusOf(answer[d].outcome)
            /\ request'[d] = Null =>
                 /\ status[d] \in {400, 401}
                 /\ post'[d].found => status[d] = Due(d)'
      BY <1>a, <1>1, <1>l, <2>1 DEF StatusesExplained
    <3>2. QED
      BY <1>d, <1>6, <3>1 DEF StatusesExplained
  <2>6. QED
    BY <2>2, <2>3, <2>4, <2>5 DEF IndInv
<1>7. QED
  BY <1>c, <1>5, <1>6 DEF refusal

\* The response carries the status of the answer.
LEMMA RespondStep ==
  ASSUME IndInv, NEW a \in Attempts, Respond(a)
  PROVE  IndInv'
<1>a. /\ TypeOK /\ Promise /\ Local /\ AnswersTruthful /\ PassedOn /\ StatusesExplained
      /\ Doubts /\ LastWords
  BY DEF IndInv
<1>b. /\ answer[a] # Pending /\ status[a] = 0
      /\ status' = [status EXCEPT ![a] = StatusOf(answer[a].outcome)]
      /\ UNCHANGED <<server, cookie, post, failures>>
  BY DEF Respond
<1>c. request[a] # Null /\ answer[a].outcome \in Refusals \cup {"confirmed"}
  BY <1>a, <1>b DEF AnswersTruthful, TypeOK, Answers
<1>d. StatusOf(answer[a].outcome) \in {201, 400, 409, 500}
  BY <1>c, StatusOfFacts
<1>1. /\ status'[a] = StatusOf(answer[a].outcome)
      /\ \A d \in Attempts \ {a} : status'[d] = status[d]
  BY <1>a, <1>b DEF TypeOK
<1>2. TypeOK'
  BY <1>a, <1>b, <1>d DEF TypeOK, server
<1>3. Promise' /\ Local' /\ AnswersTruthful' /\ Doubts' /\ LastWords'
  <2>1. \A d \in Attempts : post[d] # Null =>
          \A e \in post[d].heard : e \in Attempts /\ status'[e] # 0
    BY <1>a, <1>b, <1>1 DEF LastWords, PassedOn
  <2>2. QED
    BY <1>b, <2>1, ServerUndisturbed DEF server
<1>4. \A d \in Attempts : Sender(d)' = Sender(d)
  BY <1>b DEF Sender
<1>5. PassedOn'
  <2>1. post[a] # Null
    BY <1>a, <1>c DEF PassedOn
  <2>2. QED
    BY <1>a, <1>b, <1>1, <1>4, <2>1 DEF PassedOn, Due, VehiclesOf, server
<1>6. StatusesExplained'
  BY <1>a, <1>b, <1>c, <1>1, <1>4 DEF StatusesExplained, Due, server, VehiclesOf
<1>7. QED
  BY <1>2, <1>3, <1>5, <1>6 DEF IndInv

-----------------------------------------------------------------------------
(* The invariant holds. *)

\* Nothing has been sent, and the tables as they were.
LEMMA InitIndInv == Init => IndInv
<1> SUFFICES ASSUME Init PROVE IndInv
  OBVIOUS
<1>1. /\ request = [a \in Attempts |-> Null]
      /\ appointments = SeedAppointments /\ idempotency = {}
      /\ answer = [a \in Attempts |-> Pending] /\ doubtful = {}
  BY ServerOperators DEF Init, Server!Init
<1>2. SeedAppointments \subseteq AppointmentRows(AppointmentIds)
  BY BookingDataAssumption DEF AppointmentRows, AppointmentIds
<1>3. TypeOK
  <2>1. /\ request \in [Attempts -> Requests \cup {Null}]
        /\ appointments \subseteq AppointmentRows(AppointmentIds)
        /\ idempotency \subseteq IdempotencyRows
        /\ answer \in [Attempts -> Answers] /\ doubtful \subseteq Attempts
    BY <1>1, <1>2, AnswerTypes
  <2>2. /\ cookie \in Users \cup {Null}
        /\ post \in [Attempts -> Received \cup {Null}]
        /\ status \in [Attempts -> {0, 201, 400, 401, 409, 500}]
    BY DEF Init
  <2>3. failures = 0
    BY DEF Init
  <2>4. MaxFailures \in Nat
    BY HttpApiAssumption
  <2>5. failures \in 0 .. MaxFailures
    BY <2>3, <2>4
  <2>6. QED
    BY <2>1, <2>2, <2>5 DEF TypeOK
<1>4. \A x \in SeedAppointments : x.id \notin Attempts
  BY BookingDataAssumption DEF AppointmentRows
<1>5. Promise
  BY <1>1, <1>4, BookingDataAssumption DEF Promise
<1>6. Local
  BY <1>1, HttpApiAssumption DEF Local
<1>7. AnswersTruthful
  BY <1>1 DEF AnswersTruthful, Pending
<1>8. PassedOn
  BY <1>1 DEF Init, PassedOn
<1>9. StatusesExplained
  BY DEF Init, StatusesExplained
<1>10. Doubts /\ LastWords
  BY <1>1 DEF Init, Doubts, LastWords, Pending
<1>11. QED
  BY <1>3, <1>5, <1>6, <1>7, <1>8, <1>9, <1>10 DEF IndInv

\* One lemma for each kind of step.
LEMMA Inductive == IndInv /\ [Next]_vars => IndInv'
<1> SUFFICES ASSUME IndInv, [Next]_vars PROVE IndInv'
  OBVIOUS
<1>1. ASSUME NEW u \in Users, Login(u) PROVE IndInv'
  BY <1>1, SessionStep DEF Login
<1>2. CASE Logout
  BY <1>2, SessionStep DEF Logout
<1>3. ASSUME NEW a \in Attempts, NEW p \in Posts, NEW userFound \in BOOLEAN,
             NEW vehiclesFound \in BOOLEAN, Receive(a, p, userFound, vehiclesFound)
      PROVE  IndInv'
  BY <1>3, ReceiveStep
<1>4. ASSUME NEW a \in Attempts, Serve(a) PROVE IndInv'
  BY <1>4, ServeStep
<1>5. ASSUME NEW a \in Attempts, Respond(a) PROVE IndInv'
  BY <1>5, RespondStep
<1>6. CASE UNCHANGED vars
  BY <1>6, SessionStep DEF vars, server, IndInv, TypeOK
<1>7. QED
  BY <1>1, <1>2, <1>3, <1>4, <1>5, <1>6 DEF Next

\* The inductive invariant holds in every reachable state.
THEOREM Invariance == Spec => []IndInv
BY InitIndInv, Inductive, PTL DEF Spec

-----------------------------------------------------------------------------
(* What follows. *)

\* Every variable of the handler, of the session and of the server keeps its type.
THEOREM TypeCorrect == Spec => []TypeOK
<1>1. IndInv => TypeOK
  BY DEF IndInv
<1>2. QED
  BY <1>1, Invariance, PTL

\* What is neither a uuid nor an instant nor absent.
LEMMA Distinct ==
  /\ \A u \in Users : u # Null
  /\ \A id \in AppointmentIds \cup Vehicles \cup Dealerships \cup ServiceIds \cup Nat :
       id # Malformed
  /\ \A u, v \in Users : CustomerOf[u] = CustomerOf[v] => u = v
BY ReadersAssumption

\* An answered attempt was told the truth with its status.
LEMMA StatusFacts ==
  ASSUME IndInv, NEW a \in Attempts, status[a] # 0, request[a] # Null
  PROVE  /\ answer[a].outcome \in Refusals \cup {"confirmed"}
         /\ status[a] = StatusOf(answer[a].outcome)
<1>1. answer[a] # Pending /\ status[a] = StatusOf(answer[a].outcome)
  BY DEF IndInv, StatusesExplained
<1>2. QED
  BY <1>1 DEF IndInv, AnswersTruthful, TypeOK, Answers

\* A 201 is of a row that belongs to its sender.
LEMMA CreatedFacts ==
  ASSUME IndInv, NEW a \in Attempts, status[a] = 201
  PROVE  /\ answer[a].appointment \in appointments
         /\ Sender(a) \in Users
         /\ answer[a].appointment.customer = CustomerOf[Sender(a)]
<1>1. request[a] # Null
  BY DEF IndInv, StatusesExplained
<1>2. answer[a].outcome = "confirmed"
  BY <1>1, StatusFacts, StatusOfFacts
<1>3. /\ answer[a].appointment \in appointments
      /\ Fulfils(answer[a].appointment, request[a])
  BY <1>2 DEF IndInv, AnswersTruthful
<1>4. /\ Sender(a) \in Users
      /\ request[a] = CreateInput(post[a].body, Sender(a))
  BY <1>1 DEF IndInv, PassedOn
<1>5. request[a].customer = CustomerOf[Sender(a)]
  BY <1>4 DEF CreateInput
<1>6. QED
  BY <1>3, <1>4, <1>5, FulfilsFields

\* An appointment answered 201 is found by its owner, and by no other user, by its id
\* and in the list; and both lists of its dealership have it for the windows that it
\* overlaps.
THEOREM CreatedForAllToSee == Spec => []CreatedIsReadable
<1>1. IndInv => CreatedIsReadable
  <2> SUFFICES ASSUME IndInv, NEW a \in Attempts, status[a] = 201, NEW u \in Users
               PROVE  LET row == answer[a].appointment
                          owner == u = Sender(a)
                          shown == IF owner THEN Ok({row}) ELSE Fail(404)
                      IN  /\ GetAppointment(appointments, row.id, u, TRUE) = shown
                          /\ row \in ListCustomerAppointments(appointments, u, TRUE).rows <=> owner
                          /\ \A from, to \in 0 .. Horizon : from < to =>
                               LET inside == Overlap(row, [start |-> from, end |-> to])
                               IN  /\ row \in ListAppointments(appointments, row.dealership,
                                                               from, to, u, TRUE).rows
                                        <=> owner /\ inside
                                   /\ row \in ListAppointmentDetails(appointments, row.dealership,
                                                                     from, to, TRUE).rows
                                        <=> inside
    BY DEF CreatedIsReadable
  <2> DEFINE row == answer[a].appointment
             owner == u = Sender(a)
  <2>1. /\ row \in appointments /\ row \in AppointmentRows(AppointmentIds)
        /\ row.customer = CustomerOf[u] <=> owner
    BY CreatedFacts, Distinct DEF IndInv, TypeOK
  <2> HIDE DEF row
  <2>2. {r \in appointments : r.id = row.id} = {row}
    BY <2>1 DEF IndInv, Promise
  <2>3. u # Null /\ row.id # Malformed /\ row.dealership # Malformed
    BY <2>1, Distinct DEF AppointmentRows
  <2>4. GetAppointment(appointments, row.id, u, TRUE) = IF owner THEN Ok({row}) ELSE Fail(404)
    BY <2>1, <2>2, <2>3 DEF GetAppointment
  <2>5. row \in ListCustomerAppointments(appointments, u, TRUE).rows <=> owner
    BY <2>1, <2>3 DEF ListCustomerAppointments, OfCustomer, Ok
  <2>6. ASSUME NEW from \in 0 .. Horizon, NEW to \in 0 .. Horizon, from < to
        PROVE  LET inside == Overlap(row, [start |-> from, end |-> to])
               IN  /\ row \in ListAppointments(appointments, row.dealership, from, to, u, TRUE).rows
                        <=> owner /\ inside
                   /\ row \in ListAppointmentDetails(appointments, row.dealership, from, to, TRUE).rows
                        <=> inside
    <3> DEFINE inside == Overlap(row, [start |-> from, end |-> to])
    <3>1. Horizon \in Nat
      BY HttpApiAssumption
    <3>2. from \in Nat /\ to \in Nat
      BY <3>1
    <3>3. ParseInterval(from, to)
      BY <2>6, <3>2, Distinct DEF ParseInterval
    <3>4. row \in InDealership(appointments, row.dealership, from, to) <=> inside
      BY <2>1 DEF InDealership
    <3> HIDE DEF inside
    <3>5. row \in OfCustomer(appointments, CustomerOf[u]) <=> owner
      BY <2>1 DEF OfCustomer
    <3>6. row \in ListAppointments(appointments, row.dealership, from, to, u, TRUE).rows
            <=> owner /\ inside
      BY <2>3, <3>3, <3>4, <3>5 DEF ListAppointments, Ok
    <3>7. row \in ListAppointmentDetails(appointments, row.dealership, from, to, TRUE).rows
            <=> inside
      BY <2>3, <3>3, <3>4 DEF ListAppointmentDetails, Ok
    <3>8. QED
      BY <3>6, <3>7 DEF inside
  <2>7. QED
    BY <2>4, <2>5, <2>6 DEF row
<1>2. QED
  BY <1>1, Invariance, PTL

\* Whoever asks for what the lists of the form offer is not told that it is invalid,
\* nor to log in, unless a lookup has failed.
THEOREM OffersAccepted == Spec => []OfferedIsAccepted
<1>1. IndInv => OfferedIsAccepted
  <2> SUFFICES ASSUME IndInv, NEW a \in Attempts
               PROVE  LET p == post[a].body
                      IN  /\ status[a] # 0 /\ post[a].found
                          /\ p.key # EmptyKey /\ p.start # Malformed
                          /\ p.vehicle \in GetVehicles(Sender(a), TRUE).rows
                          /\ p.service \in ListServiceTypes(TRUE).rows
                          /\ p.dealership \in ListDealerships(TRUE).rows
                          => status[a] \in {201, 409, 500}
    BY Zenon DEF OfferedIsAccepted
  <2> DEFINE p == post[a].body
  <2> SUFFICES ASSUME status[a] # 0, post[a].found, p.key # EmptyKey, p.start # Malformed,
                      p.vehicle \in GetVehicles(Sender(a), TRUE).rows,
                      p.service \in ListServiceTypes(TRUE).rows,
                      p.dealership \in ListDealerships(TRUE).rows
               PROVE  status[a] \in {201, 409, 500}
    BY Zenon
  <2>1. /\ Sender(a) # Null /\ p.vehicle \in ListVehicles(Sender(a))
        /\ p.service \in Services /\ p.dealership \in Dealerships
    BY DEF GetVehicles, ListServiceTypes, ListDealerships, Ok, Fail
  <2>2. CASE request[a] = Null
    <3>1. Malformed \notin {p.vehicle, p.dealership, p.service}
      BY <2>1, Distinct, SchedulingAssumption DEF ListVehicles
    <3>2. Due(a) = 0
      BY <2>1, <3>1 DEF Due, FirstRefusal, VehiclesOf
    <3>3. QED
      BY <2>2, <3>2 DEF IndInv, StatusesExplained
  <2>3. CASE request[a] # Null
    <3>1. /\ answer[a].outcome \in Refusals \cup {"confirmed"}
          /\ status[a] = StatusOf(answer[a].outcome)
      BY <2>3, StatusFacts
    <3>2. request[a] = CreateInput(p, Sender(a))
      BY <2>3 DEF IndInv, PassedOn
    <3>3. request[a].key = p.key /\ OwnsVehicle(request[a])
      BY <2>1, <3>2 DEF CreateInput, OwnsVehicle, ListVehicles
    <3>4. answer[a].outcome \notin {"key_required", "not_owned"}
      BY <3>3 DEF IndInv, AnswersTruthful
    <3>5. QED
      BY <3>1, <3>4, StatusOfFacts
  <2>4. QED
    BY <2>2, <2>3
<1>2. QED
  BY <1>1, Invariance, PTL

\* No appointment is ever made by an attempt that was answered 400, 401 or 409, nor, if
\* its lookups worked, by any earlier one for the same request.
THEOREM RefusalsFinal == Spec => []RefusedNeverBooks
<1>1. IndInv => RefusedNeverBooks
  <2> SUFFICES ASSUME IndInv, NEW b \in Attempts, status[b] \in {400, 401, 409},
                      NEW row \in appointments
               PROVE  /\ row.id # b
                      /\ post[b].found =>
                           \A a \in post[b].heard : SameRequest(a, b) => row.id # a
    BY DEF RefusedNeverBooks
  <2>1. row.id # b
    <3>1. SUFFICES ASSUME row.id = b PROVE FALSE
      OBVIOUS
    <3>2. request[b] # Null /\ answer[b].outcome \in {"confirmed", "error"}
      BY <3>1 DEF IndInv, Promise
    <3>3. status[b] \in {201, 500}
      BY <3>2, StatusFacts, StatusOfFacts
    <3>4. QED
      BY <3>3
  <2>2. ASSUME post[b].found, NEW a \in post[b].heard, SameRequest(a, b), row.id = a
        PROVE  FALSE
    <3>1. post[b] # Null
      BY DEF IndInv, PassedOn
    <3>2. a \in Attempts
      BY <2>2, <3>1 DEF IndInv, LastWords
    <3>3. /\ request[a] # Null /\ request[a].key # EmptyKey
          /\ CompletedRow(request[a], a) \in idempotency
      BY <2>2, <3>2 DEF IndInv, Promise
    <3>4. Due(a) = Due(b) /\ Due(a) = 0
      BY <2>2, <3>2, <3>3 DEF IndInv, PassedOn, SameRequest, Due
    <3>5. request[b] # Null
      <4>1. StatusesExplained /\ status[b] # 0
        BY DEF IndInv
      <4>2. ASSUME request[b] = Null PROVE status[b] = Due(b)
        BY <2>2, <4>1, <4>2, Zenon DEF StatusesExplained
      <4>3. QED
        BY <3>4, <4>2
    <3>6. request[a] = request[b]
      BY <2>2, <3>2, <3>3, <3>5 DEF IndInv, PassedOn, SameRequest
    <3>7. answer[b].outcome \notin {"not_owned", "no_availability"}
      BY <2>2, <3>6 DEF IndInv, LastWords
    <3>8. answer[b].outcome # "conflict"
      BY <3>3, <3>6, CompletedRowFields DEF IndInv, LastWords, Promise
    <3>9. answer[b].outcome # "key_required"
      BY <3>3, <3>6 DEF IndInv, AnswersTruthful
    <3>10. /\ answer[b].outcome \in Refusals \cup {"confirmed"}
           /\ status[b] = StatusOf(answer[b].outcome)
      BY <3>5, StatusFacts
    <3>11. answer[b].outcome = "in_progress"
      BY <3>7, <3>8, <3>9, <3>10, StatusOfFacts DEF Refusals
    <3>12. QED
      BY <3>11 DEF IndInv, AnswersTruthful
  <2>3. QED
    BY <2>1, <2>2
<1>2. QED
  BY <1>1, Invariance, PTL

\* The admin page's technicians and the availability query agree, and what keeps a
\* qualified technician from being offered is in the admin page's list.
THEOREM ViewsAgree == Spec => []TechnicianViewsAgree
<1>1. IndInv => TechnicianViewsAgree
  <2> SUFFICES ASSUME IndInv, NEW r \in Requests, r.service \in Services
               PROVE  LET slot == Slot(r)
                          view == ListTechnicianAvailability(
                                    appointments, r.dealership, r.service,
                                    slot.start, slot.end, TRUE).rows
                          list == ListAppointmentDetails(
                                    appointments, r.dealership, slot.start, slot.end, TRUE).rows
                      IN  /\ {t.id : t \in {v \in view : v.available}}
                               = AvailableTechnicians(appointments, r)
                          /\ \A v \in view :
                               Qualified(v.id, r) /\ ~v.available =>
                                 \E row \in list :
                                   row.technician = v.id /\ row.status = "confirmed"
    BY Zenon DEF TechnicianViewsAgree
  <2> DEFINE from == Slot(r).start
             to == Slot(r).end
             view == ListTechnicianAvailability(appointments, r.dealership, r.service,
                                                from, to, TRUE).rows
             list == ListAppointmentDetails(appointments, r.dealership, from, to, TRUE).rows
  <2> SUFFICES /\ {t.id : t \in {v \in view : v.available}}
                    = AvailableTechnicians(appointments, r)
               /\ \A v \in view :
                    Qualified(v.id, r) /\ ~v.available =>
                      \E row \in list :
                        row.technician = v.id /\ row.status = "confirmed"
    BY Zenon
  <2> DEFINE free(t) == TechnicianAvailable(appointments, t, r.service, from, to)
             staff == {u \in Technicians : TechnicianDealership[u] = r.dealership}
  <2>1. /\ r.dealership \in Dealerships /\ r.service \in ServiceIds /\ r.start \in Nat
        /\ DurationMinutes[r.service] \in Nat \ {0}
    BY BookingDataAssumption, SchedulingAssumption
  <2>2. from \in Nat /\ to \in Nat /\ from < to /\ Slot(r) = [start |-> from, end |-> to]
    BY <2>1 DEF Slot, ServiceEnd
  <2>3. ParseInterval(from, to) /\ Malformed \notin {r.dealership, r.service}
    BY <2>1, <2>2, Distinct DEF ParseInterval
  <2>4. view = {[id |-> t, available |-> free(t)] : t \in staff}
    BY <2>3 DEF ListTechnicianAvailability, Ok
  <2>5. list = InDealership(appointments, r.dealership, from, to)
    BY <2>3 DEF ListAppointmentDetails, Ok
  <2>6. \A t \in staff :
          free(t) <=> /\ <<t, RequiredSkill[r.service]>> \in TechnicianSkills
                      /\ \A row \in Busy(appointments, r) : row.technician # t
    BY <2>2 DEF TechnicianAvailable, Busy
  <2>7. \A t \in staff : free(t) <=> t \in AvailableTechnicians(appointments, r)
    BY <2>6 DEF AvailableTechnicians, Qualified
  <2>8. AvailableTechnicians(appointments, r) \subseteq staff
    BY DEF AvailableTechnicians, Qualified
  <2> HIDE DEF free, staff
  <2>9. {t.id : t \in {v \in view : v.available}} = AvailableTechnicians(appointments, r)
    <3>1. \A t \in staff : [id |-> t, available |-> free(t)].id = t
      OBVIOUS
    <3>2. \A t \in staff : [id |-> t, available |-> free(t)].available = free(t)
      OBVIOUS
    <3>3. {v \in view : v.available} = {[id |-> t, available |-> free(t)] :
                                         t \in {u \in staff : free(u)}}
      BY <2>4, <3>2
    <3>4. {t.id : t \in {v \in view : v.available}} = {t \in staff : free(t)}
      <4> DEFINE offered == {v \in view : v.available}
                 row(t) == [id |-> t, available |-> free(t)]
      <4>1. offered = {row(t) : t \in {u \in staff : free(u)}}
        BY <3>3
      <4>2. \A t \in staff : row(t).id = t
        BY <3>1
      <4> HIDE DEF offered, row
      <4>3. {v.id : v \in offered} = {t \in staff : free(t)}
        BY <4>1, <4>2
      <4>4. QED
        BY <4>3 DEF offered
    <3>5. QED
      BY <2>7, <2>8, <3>4
  <2>10. ASSUME NEW v \in view, Qualified(v.id, r), ~v.available
        PROVE  \E row \in list : row.technician = v.id /\ row.status = "confirmed"
    <3>1. PICK t \in staff : v = [id |-> t, available |-> free(t)]
      BY <2>4, <2>10
    <3>2. ~free(t) /\ v.id = t
      BY <2>10, <3>1
    <3>3. PICK row \in Busy(appointments, r) : row.technician = t
      BY <2>6, <2>10, <3>2 DEF Qualified
    <3>4. row \in appointments /\ row.status = "confirmed"
      BY <3>3 DEF Busy
    <3>5. row.dealership = r.dealership
      BY <2>10, <3>2, <3>3, <3>4 DEF IndInv, Local, Qualified
    <3>6. row \in list
      BY <2>2, <2>5, <3>3, <3>5 DEF Busy, InDealership
    <3>7. QED
      BY <3>2, <3>3, <3>4, <3>6
  <2>11. QED
    BY <2>9, <2>10
<1>2. QED
  BY <1>1, Invariance, PTL

=============================================================================
