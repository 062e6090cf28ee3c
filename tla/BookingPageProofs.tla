------------------------- MODULE BookingPageProofs --------------------------
(***************************************************************************)
(* What the booking page shows and books, for any number of clicks,        *)
(* payloads and lost answers.                                              *)
(***************************************************************************)
EXTENDS BookingPage, BookingLemmas

-----------------------------------------------------------------------------
(* The inductive invariant. *)

\* The server's part: a row is of the request of its attempt and has its record; a
\* key has one record, of a row; and a confirmation is on record.
Promise ==
  /\ \A x, y \in appointments : x.id = y.id => x = y
  /\ \A x, y \in idempotency : x.key = y.key => x = y
  /\ \A a \in Attempts : \A row \in appointments :
       row.id = a =>
         /\ request[a] # Null
         /\ Fulfils(row, request[a])
         /\ CompletedRow(request[a], a) \in idempotency
  /\ \A rec \in idempotency : \E a \in Attempts :
       request[a] # Null /\ rec = CompletedRow(request[a], a)

ConfirmationsOnRecord ==
  \A a \in Attempts :
    answer[a].outcome = "confirmed" =>
      /\ request[a] # Null
      /\ answer[a].appointment \in appointments
      /\ Fulfils(answer[a].appointment, request[a])
      /\ CompletedRow(request[a], answer[a].appointment.id) \in idempotency

\* How far a click's handler has come, and what it has sent.
Handlers ==
  \A c \in Attempts :
    /\ handler[c] # "none" => payload[c] \in Payloads /\ pendingAttempt # Null
    /\ handler[c] \in {"none", "technicians", "bays", "available"} => request[c] = Null
    /\ handler[c] \in {"list", "rows"} => answer[c].outcome = "confirmed"
    /\ request[c] # Null =>
         \E key \in Attempts, u \in Customers : request[c] = WithKey(payload[c], key, u)

\* Unless another tab has changed the session, all that was sent is of its customer, and
\* a reload of a handler has what that handler confirmed.
OneSession ==
  ~switched =>
    /\ session \in Customers
    /\ \A c \in Attempts :
         /\ request[c] # Null => request[c].customer = session
         /\ handler[c] = "rows" => answer[c].appointment \in rows[c]

\* No click has a later intent than c.
IsLatest(c) == \A d \in Attempts : intent[d] <= intent[c]

\* Some click has the latest intent.
SomeLatest == \A c \in Attempts : \E d \in Attempts : IsLatest(d)

\* Without a click for something else, what runs is for the pending attempt, and
\* one intent is posted under one key.
OneKeyPerIntent ==
  ~overtaken =>
    /\ \A c \in Attempts :
         Running(c) => IsLatest(c) /\ payload[c] = pendingAttempt.payload
    /\ \A c \in Attempts :
         request[c] # Null /\ IsLatest(c) => request[c].key = pendingAttempt.key
    /\ \A c, d \in Attempts :
         request[c] # Null /\ request[d] # Null /\ intent[c] = intent[d] =>
           request[c].key = request[d].key

\* What is shown as confirmed has been answered so; it is of the latest intent, it is
\* in the list once its handler is done, and whatever Refresh is under way has it too.
ShownIsAnswered ==
  shown.text = "confirmed" =>
    /\ shown.by \in Attempts
    /\ handler[shown.by] \in {"list", "rows", "done"}
    /\ answer[shown.by].outcome = "confirmed"
    /\ shown.appointment = answer[shown.by].appointment
    /\ ~overtaken => IsLatest(shown.by)
    /\ ~overtaken /\ ~switched /\ ~crossed =>
         /\ handler[shown.by] = "done" => table = Null \/ shown.appointment \in table
         /\ \A f \in Refreshes : handler[f] = "rows" => shown.appointment \in rows[f]

IndInv ==
  /\ TypeOK
  /\ Promise
  /\ ConfirmationsOnRecord
  /\ Handlers
  /\ OneSession
  /\ SomeLatest
  /\ OneKeyPerIntent
  /\ ShownIsAnswered

-----------------------------------------------------------------------------
(* Facts about payloads, requests and intents. *)

\* What is posted is a request, of the customer who posts it, and asks for what its
\* payload says.
LEMMA WithKeyFacts ==
  ASSUME NEW p \in Payloads, NEW key \in Attempts, NEW u \in Customers
  PROVE  /\ WithKey(p, key, u) \in Requests
         /\ WithKey(p, key, u) # Null
         /\ WithKey(p, key, u).key = key
         /\ WithKey(p, key, u).customer = u
         /\ PayloadOf(WithKey(p, key, u)) = p
<1>1. WithKey(p, key, u) \in Requests
  BY BookingPageAssumption
<1>2. WithKey(p, key, u) # Null
  BY <1>1, BookingDataAssumption
<1>3. PayloadOf(WithKey(p, key, u)) = PayloadOf(p) /\ PayloadOf(p) = p
  BY BookingPageAssumption DEF WithKey, PayloadOf
<1>4. WithKey(p, key, u).key = key /\ WithKey(p, key, u).customer = u
  BY DEF WithKey
<1>5. QED
  BY <1>1, <1>2, <1>3, <1>4

\* A row that fulfils a request has its customer.
LEMMA FulfilsCustomer ==
  ASSUME NEW row, NEW r, Fulfils(row, r)
  PROVE  row.customer = r.customer
BY DEF Fulfils, AppointmentFor

\* LatestIntent is the greatest, and the latest clicks are those that have it.
LEMMA LatestIntentFacts ==
  ASSUME TypeOK, SomeLatest, NEW c \in Attempts
  PROVE  /\ LatestIntent \in Nat
         /\ \A d \in Attempts : intent[d] <= LatestIntent
         /\ \A d \in Attempts : IsLatest(d) <=> intent[d] = LatestIntent
<1>1. PICK d \in Attempts : IsLatest(d)
  BY DEF SomeLatest
<1>2. intent[d] \in {intent[e] : e \in Attempts} /\ \A e \in Attempts : intent[e] <= intent[d]
  BY <1>1 DEF IsLatest
<1>3. /\ LatestIntent \in {intent[e] : e \in Attempts}
      /\ \A e \in Attempts : intent[e] <= LatestIntent
  BY <1>2 DEF LatestIntent
<1>4. \A e \in Attempts : intent[e] \in Nat
  BY DEF TypeOK
<1>5. QED
  BY <1>3, <1>4 DEF IsLatest

-----------------------------------------------------------------------------
(* The server's steps. *)

\* The operators of BookingData mean the same in AtomicBooking.
LEMMA ServerOperators ==
  /\ Server!Pending = Pending /\ Server!Refusals = Refusals
  /\ \A outcome : Server!Refused(outcome) = Refused(outcome)
  /\ \A row : Server!Confirmed(row) = Confirmed(row)
  /\ \A r, id : Server!CompletedRow(r, id) = CompletedRow(r, id)
  /\ \A r, id, t, b : Server!AppointmentFor(id, r, t, b) = AppointmentFor(id, r, t, b)
  /\ \A rows_, r, t : t \in Server!AvailableTechnicians(rows_, r) => Qualified(t, r)
  /\ \A rows_, r, b : b \in Server!AvailableBays(rows_, r) => Compatible(b, r)
<1>1. /\ Server!Pending = Pending /\ Server!Refusals = Refusals
      /\ \A outcome : Server!Refused(outcome) = Refused(outcome)
      /\ \A row : Server!Confirmed(row) = Confirmed(row)
  BY DEF Server!Pending, Pending, Server!Refusals, Refusals, Server!Refused, Refused,
     Server!Confirmed, Confirmed
<1>2. \A r : Server!ServiceEnd(r) = ServiceEnd(r)
  BY DEF Server!ServiceEnd, ServiceEnd
<1>3. \A r, id : Server!CompletedRow(r, id) = CompletedRow(r, id)
  BY <1>2 DEF Server!CompletedRow, CompletedRow, Server!RequestHash, RequestHash
<1>4. \A r, id, t, b : Server!AppointmentFor(id, r, t, b) = AppointmentFor(id, r, t, b)
  BY <1>2 DEF Server!AppointmentFor, AppointmentFor
<1>5. /\ \A rows_, r, t : t \in Server!AvailableTechnicians(rows_, r) => Qualified(t, r)
      /\ \A rows_, r, b : b \in Server!AvailableBays(rows_, r) => Compatible(b, r)
  BY DEF Server!AvailableTechnicians, Server!AvailableBays, Server!Qualified, Qualified,
     Server!Compatible, Compatible
<1>6. QED
  BY <1>1, <1>3, <1>4, <1>5

\* A record is known by its fields.
LEMMA CompletedRowFields ==
  ASSUME NEW r, NEW id
  PROVE  /\ CompletedRow(r, id).key = r.key
         /\ CompletedRow(r, id).hash = RequestHash(r)
         /\ CompletedRow(r, id).appointment = id
BY DEF CompletedRow

\* A booking adds a row of what was asked and its record, under a key that is new.
LEMMA BookFacts ==
  ASSUME TypeOK, NEW a \in Attempts, NEW t \in Technicians, NEW b \in Bays,
         Server!Book(a, t, b),
         NEW row, row = AppointmentFor(a, request[a], t, b)
  PROVE  /\ request[a] \in Requests /\ request[a] # Null
         /\ \A rec \in idempotency : rec.key # request[a].key
         /\ row \in AppointmentRows(AppointmentIds) /\ row.id = a
         /\ CompletedRow(request[a], a) \in IdempotencyRows
         /\ Fulfils(row, request[a])
         /\ request' = request
         /\ appointments' = appointments \cup {row}
         /\ idempotency' = idempotency \cup {CompletedRow(request[a], a)}
         /\ \/ answer[a] = Pending /\ answer' = [answer EXCEPT ![a] = Confirmed(row)]
            \/ answer' = answer
         /\ doubtful' \subseteq doubtful
<1>1. /\ request[a] # Null /\ request[a].service \in Services
      /\ \A rec \in idempotency : rec.key # request[a].key
      /\ Qualified(t, request[a]) /\ Compatible(b, request[a])
  BY ServerOperators DEF Server!Book, Server!Enter, Server!Claimed
<1>2. request[a] \in Requests
  BY <1>1 DEF TypeOK
<1>3. /\ request' = request
      /\ appointments' = appointments \cup {row}
      /\ idempotency' = idempotency \cup {CompletedRow(request[a], a)}
      /\ \/ answer[a] = Pending /\ answer' = [answer EXCEPT ![a] = Confirmed(row)]
         \/ answer' = answer
      /\ doubtful' \subseteq doubtful
  BY ServerOperators DEF Server!Book, Server!Enter
<1>4. /\ row \in AppointmentRows(AppointmentIds) /\ row.id = a
      /\ CompletedRow(request[a], a) \in IdempotencyRows
  BY <1>1, <1>2, AppointmentForType, CompletedRowType DEF AppointmentFor
<1>5. Fulfils(row, request[a])
  BY <1>1, <1>4 DEF Fulfils
<1>6. QED
  BY <1>1, <1>2, <1>3, <1>4, <1>5

\* What the server does leaves the page's part of the invariant alone, as long as
\* what it has confirmed stays confirmed.
LEMMA PageUndisturbed ==
  ASSUME IndInv,
         UNCHANGED <<request, tabs, clicks, handler, available, shown, lists, lost, crossed>>,
         \A c \in Attempts : answer[c].outcome = "confirmed" => answer'[c] = answer[c]
  PROVE  Handlers' /\ OneSession' /\ SomeLatest' /\ OneKeyPerIntent' /\ ShownIsAnswered'
<1>a. /\ TypeOK /\ Promise /\ ConfirmationsOnRecord /\ Handlers /\ OneSession
      /\ SomeLatest /\ OneKeyPerIntent /\ ShownIsAnswered
  BY DEF IndInv
<1>1. \A c \in Attempts : (Running(c)' <=> Running(c)) /\ (IsLatest(c)' <=> IsLatest(c))
  BY DEF Running, IsLatest, clicks
<1>2. Handlers'
  BY <1>a DEF Handlers, clicks
<1>3. OneSession'
  BY <1>a DEF OneSession, Handlers, tabs, lists
<1>4. SomeLatest'
  BY <1>a, <1>1 DEF SomeLatest
<1>5. OneKeyPerIntent'
  BY <1>a, <1>1 DEF OneKeyPerIntent, clicks
<1>6. ShownIsAnswered'
  BY <1>a, <1>1 DEF ShownIsAnswered, tabs, clicks, lists
<1>7. QED
  BY <1>2, <1>3, <1>4, <1>5, <1>6

\* What is on record is so as long as the server does nothing.
LEMMA ServerUndisturbed ==
  ASSUME IndInv, UNCHANGED <<request, appointments, idempotency, answer>>
  PROVE  Promise' /\ ConfirmationsOnRecord'
BY DEF IndInv, Promise, ConfirmationsOnRecord

\* A booking is of the posted request, under a key that had no record.
LEMMA BookStep ==
  ASSUME IndInv, NEW a \in Attempts, NEW t \in Technicians, NEW b \in Bays,
         Server!Book(a, t, b),
         UNCHANGED <<tabs, clicks, handler, available, shown, lists, lost, crossed>>
  PROVE  IndInv'
<1>a. /\ TypeOK /\ Promise /\ ConfirmationsOnRecord /\ Handlers /\ OneSession
      /\ SomeLatest /\ OneKeyPerIntent /\ ShownIsAnswered
  BY DEF IndInv
<1> DEFINE row == AppointmentFor(a, request[a], t, b)
           rec == CompletedRow(request[a], a)
<1>b. /\ request[a] \in Requests /\ request[a] # Null
      /\ \A x \in idempotency : x.key # request[a].key
      /\ row \in AppointmentRows(AppointmentIds) /\ row.id = a
      /\ rec \in IdempotencyRows /\ Fulfils(row, request[a]) /\ request' = request
      /\ appointments' = appointments \cup {row}
      /\ idempotency' = idempotency \cup {rec}
      /\ \/ answer[a] = Pending /\ answer' = [answer EXCEPT ![a] = Confirmed(row)]
         \/ answer' = answer
      /\ doubtful' \subseteq doubtful
  BY <1>a, BookFacts
<1>c. rec.key = request[a].key
  BY CompletedRowFields
<1> HIDE DEF row, rec
<1>1. \A x \in appointments : x.id # a
  BY <1>a, <1>b, <1>c DEF Promise, rec
<1>2. TypeOK'
  <2>1. answer' \in [Attempts -> Answers]
    BY <1>a, <1>b, AnswerTypes DEF TypeOK
  <2>2. QED
    BY <1>a, <1>b, <2>1 DEF TypeOK, tabs, clicks, lists
<1>3. Promise'
  <2>1. \A x, y \in appointments' : x.id = y.id => x = y
    BY <1>a, <1>b, <1>1 DEF Promise
  <2>2. \A x, y \in idempotency' : x.key = y.key => x = y
    BY <1>a, <1>b, <1>c DEF Promise
  <2>3. \A c \in Attempts : \A x \in appointments' :
          x.id = c =>
            /\ request[c] # Null /\ Fulfils(x, request[c])
            /\ CompletedRow(request[c], c) \in idempotency'
    <3>1. \A c \in Attempts : \A x \in appointments :
            x.id = c =>
              /\ request[c] # Null /\ Fulfils(x, request[c])
              /\ CompletedRow(request[c], c) \in idempotency'
      BY <1>a, <1>b DEF Promise
    <3>2. CompletedRow(request[a], a) \in idempotency'
      BY <1>b DEF rec
    <3>3. QED
      BY <1>b, <3>1, <3>2
  <2>4. \A x \in idempotency' : \E c \in Attempts :
          request[c] # Null /\ x = CompletedRow(request[c], c)
    BY <1>a, <1>b DEF Promise, rec
  <2>5. QED
    BY <1>b, <2>1, <2>2, <2>3, <2>4 DEF Promise
<1>4. ConfirmationsOnRecord'
  <2> SUFFICES ASSUME NEW c \in Attempts, answer'[c].outcome = "confirmed"
               PROVE  /\ request[c] # Null
                      /\ answer'[c].appointment \in appointments'
                      /\ Fulfils(answer'[c].appointment, request[c])
                      /\ CompletedRow(request[c], answer'[c].appointment.id) \in idempotency'
    BY <1>b DEF ConfirmationsOnRecord
  <2>1. CASE answer'[c] = answer[c]
    BY <1>a, <1>b, <2>1 DEF ConfirmationsOnRecord
  <2>2. CASE c = a /\ answer'[c] = Confirmed(row)
    <3>1. answer'[c].appointment = row
      BY <2>2 DEF Confirmed
    <3>2. QED
      BY <1>b, <2>2, <3>1 DEF rec
  <2>3. QED
    BY <1>a, <1>b, <2>1, <2>2 DEF TypeOK
<1>5. \A c \in Attempts : answer[c].outcome = "confirmed" => answer'[c] = answer[c]
  BY <1>a, <1>b DEF TypeOK, Pending
<1>6. QED
  BY <1>b, <1>2, <1>3, <1>4, <1>5, PageUndisturbed DEF IndInv

\* The server answers without booking.
LEMMA AnswerStep ==
  ASSUME IndInv, NEW a \in Attempts, answer[a] = Pending, NEW what \in Answers,
         answer' = [answer EXCEPT ![a] = what],
         doubtful' \subseteq Attempts,
         UNCHANGED <<request, appointments, idempotency, tabs, clicks, handler, available,
                     shown, lists, lost, crossed>>,
         what.outcome = "confirmed" =>
           /\ request[a] # Null
           /\ what.appointment \in appointments
           /\ Fulfils(what.appointment, request[a])
           /\ CompletedRow(request[a], what.appointment.id) \in idempotency
  PROVE  IndInv'
<1>a. /\ TypeOK /\ Promise /\ ConfirmationsOnRecord /\ Handlers /\ OneSession
      /\ SomeLatest /\ OneKeyPerIntent /\ ShownIsAnswered
  BY DEF IndInv
<1>1. answer'[a] = what /\ \A c \in Attempts \ {a} : answer'[c] = answer[c]
  BY <1>a DEF TypeOK
<1>2. TypeOK'
  BY <1>a DEF TypeOK, tabs, clicks, lists
<1>3. Promise'
  BY <1>a DEF Promise
<1>4. ConfirmationsOnRecord'
  <2>1. \A c \in Attempts \ {a} :
          answer'[c].outcome = "confirmed" =>
            /\ request[c] # Null
            /\ answer'[c].appointment \in appointments
            /\ Fulfils(answer'[c].appointment, request[c])
            /\ CompletedRow(request[c], answer'[c].appointment.id) \in idempotency
    BY <1>a, <1>1 DEF ConfirmationsOnRecord
  <2>2. QED
    BY <1>1, <2>1 DEF ConfirmationsOnRecord
<1>5. \A c \in Attempts : answer[c].outcome = "confirmed" => answer'[c] = answer[c]
  BY <1>1 DEF Pending
<1>6. QED
  BY <1>2, <1>3, <1>4, <1>5, PageUndisturbed DEF IndInv

\* Whatever the server does keeps the invariant: a replay is of a row of an equal request.
LEMMA ServeStep ==
  ASSUME IndInv, NEW a \in Attempts, Serve(a)
  PROVE  IndInv'
<1>a. /\ TypeOK /\ Promise /\ ConfirmationsOnRecord /\ Handlers /\ OneSession
      /\ SomeLatest /\ OneKeyPerIntent /\ ShownIsAnswered
  BY DEF IndInv
<1>b. UNCHANGED <<tabs, clicks, handler, available, shown, lists, lost, crossed>>
  BY DEF Serve
<1>1. CASE \E t \in Technicians, b \in Bays : Server!Book(a, t, b)
  BY <1>b, <1>1, BookStep
<1>2. ASSUME NEW row \in appointments, Server!Replay(a, row) PROVE IndInv'
  <2>1. /\ request[a] # Null /\ answer[a] = Pending
        /\ CompletedRow(request[a], row.id) \in idempotency
        /\ answer' = [answer EXCEPT ![a] = Confirmed(row)]
        /\ UNCHANGED <<request, appointments, idempotency, doubtful>>
    BY <1>2, ServerOperators DEF Server!Replay
  <2>2. PICK c \in Attempts :
          request[c] # Null /\ CompletedRow(request[a], row.id) = CompletedRow(request[c], c)
    BY <1>a, <2>1 DEF Promise
  <2>3. row.id = c /\ RequestHash(request[c]) = RequestHash(request[a])
    <3>1. CompletedRow(request[a], row.id).appointment = row.id
          /\ CompletedRow(request[a], row.id).hash = RequestHash(request[a])
      BY CompletedRowFields
    <3>2. CompletedRow(request[c], c).appointment = c
          /\ CompletedRow(request[c], c).hash = RequestHash(request[c])
      BY CompletedRowFields
    <3>3. QED
      BY <2>2, <3>1, <3>2
  <2>4. request[a] \in Requests /\ request[c] \in Requests
    BY <1>a, <2>1, <2>2 DEF TypeOK
  <2>5. Fulfils(row, request[a])
    <3>1. Fulfils(row, request[c])
      BY <1>a, <2>3 DEF Promise
    <3>2. QED
      BY <2>3, <2>4, <3>1, SameDigest
  <2>6. Confirmed(row) \in Answers /\ Confirmed(row).appointment = row
    BY <1>a, AnswerTypes DEF TypeOK, Confirmed
  <2>7. QED
    BY <1>a, <1>b, <2>1, <2>5, <2>6, AnswerStep DEF TypeOK
<1>3. ASSUME NEW outcome \in Refusals, Server!Refuse(a, outcome) PROVE IndInv'
  <2>1. /\ answer[a] = Pending /\ answer' = [answer EXCEPT ![a] = Refused(outcome)]
        /\ UNCHANGED <<request, appointments, idempotency>>
        /\ doubtful' \subseteq Attempts
    BY <1>a, <1>3, ServerOperators DEF Server!Refuse, TypeOK
  <2>2. Refused(outcome) \in Answers /\ Refused(outcome).outcome # "confirmed"
    BY AnswerTypes DEF Refused, Refusals
  <2>3. QED
    BY <1>b, <2>1, <2>2, AnswerStep
<1>4. ASSUME Server!GiveUp(a) PROVE IndInv'
  <2>1. UNCHANGED <<request, appointments, idempotency, answer>> /\ doubtful' \subseteq doubtful
    BY <1>4 DEF Server!GiveUp
  <2>2. TypeOK'
    BY <1>a, <1>b, <2>1 DEF TypeOK, tabs, clicks, lists
  <2>3. Promise' /\ ConfirmationsOnRecord'
    BY <2>1, ServerUndisturbed
  <2>4. QED
    BY <1>b, <2>1, <2>2, <2>3, PageUndisturbed DEF IndInv
<1>5. QED
  BY <1>1, <1>2, <1>3, <1>4, ServerOperators DEF Serve, Server!Serve

-----------------------------------------------------------------------------
(* The page's steps. *)

\* What runs and what is latest among the clicks, when one handler ends or awaits
\* something else.
LEMMA IntentsUndisturbed ==
  ASSUME IndInv, NEW c \in Loaders, Running(c), NEW next, Await(c, next),
         UNCHANGED <<request, clicks>>
  PROVE  SomeLatest' /\ OneKeyPerIntent'
<1>a. TypeOK /\ Handlers /\ SomeLatest /\ OneKeyPerIntent
  BY DEF IndInv
<1>1. \A d \in Attempts : IsLatest(d)' <=> IsLatest(d)
  BY DEF IsLatest, clicks
<1>2. \A d \in Attempts : Running(d)' => Running(d)
  BY <1>a DEF Running, Await, TypeOK, Loaders
<1>3. SomeLatest'
  BY <1>a, <1>1 DEF SomeLatest
<1>4. OneKeyPerIntent'
  BY <1>a, <1>1, <1>2 DEF OneKeyPerIntent, clicks
<1>5. QED
  BY <1>3, <1>4

\* A click for what is pending joins the latest intent; any other begins one, and nothing
\* that still runs may be for the former, unless it has been overtaken.
LEMMA ClickStep ==
  ASSUME IndInv, NEW c \in Attempts, NEW p \in Payloads, Click(c, p)
  PROVE  IndInv'
<1>a. /\ TypeOK /\ Promise /\ ConfirmationsOnRecord /\ Handlers /\ OneSession
      /\ SomeLatest /\ OneKeyPerIntent /\ ShownIsAnswered
  BY DEF IndInv
<1>b. /\ handler[c] = "none" /\ request[c] = Null
      /\ handler' = [handler EXCEPT ![c] = "technicians"]
      /\ payload' = [payload EXCEPT ![c] = p]
      /\ shown' = [by |-> c, text |-> "checking", appointment |-> Null]
      /\ overtaken' = (overtaken \/ \E d \in Attempts : Running(d) /\ payload[d] # p)
      /\ UNCHANGED <<server, tabs, available, lists, lost, crossed>>
  BY <1>a DEF Click, Say, Await, Handlers
<1>1. /\ handler'[c] = "technicians" /\ payload'[c] = p
      /\ \A d \in Attempts \ {c} : handler'[d] = handler[d] /\ payload'[d] = payload[d]
  BY <1>a, <1>b DEF TypeOK, Loaders
<1>2. /\ pendingAttempt' \in [payload: Payloads, key: Attempts]
      /\ pendingAttempt' # Null
      /\ pendingAttempt'.payload = p
      /\ SamePayload(p) => pendingAttempt' = pendingAttempt
  <2>1. CASE SamePayload(p)
    BY <1>a, <2>1 DEF Click, AttemptFor, SamePayload, TypeOK
  <2>2. CASE ~SamePayload(p)
    BY <2>2, BookingPageAssumption DEF Click, AttemptFor
  <2>3. QED
    BY <2>1, <2>2
<1>3. /\ LatestIntent \in Nat
      /\ \A d \in Attempts : intent[d] \in Nat /\ intent[d] <= LatestIntent
      /\ \A d \in Attempts : IsLatest(d) <=> intent[d] = LatestIntent
  BY <1>a, LatestIntentFacts DEF TypeOK
<1>4. /\ intent' \in [Attempts -> Nat]
      /\ intent'[c] = IF SamePayload(p) THEN LatestIntent ELSE LatestIntent + 1
      /\ \A d \in Attempts \ {c} : intent'[d] = intent[d]
  BY <1>a, <1>3 DEF Click, TypeOK
<1>5. /\ IsLatest(c)'
      /\ \A d \in Attempts \ {c} : IsLatest(d)' <=> SamePayload(p) /\ IsLatest(d)
  <2>1. \A d \in Attempts : IsLatest(d)' <=> \A e \in Attempts : intent'[e] <= intent'[d]
    BY DEF IsLatest
  <2>2. CASE SamePayload(p)
    BY <1>3, <1>4, <2>1, <2>2
  <2>3. CASE ~SamePayload(p)
    BY <1>3, <1>4, <2>1, <2>3
  <2>4. QED
    BY <2>2, <2>3
<1>6. TypeOK'
  <2>1. /\ handler' \in [Loaders -> Awaits \cup {"none", "done"}]
        /\ payload' \in [Attempts -> Payloads \cup {Null}]
        /\ shown' \in [by: Attempts \cup {Null}, text: Texts,
                       appointment: AppointmentRows(AppointmentIds) \cup {Null}]
        /\ overtaken' \in BOOLEAN
    BY <1>a, <1>b DEF TypeOK, Awaits, Texts
  <2>2. QED
    BY <1>a, <1>b, <1>2, <1>4, <2>1 DEF TypeOK, server, tabs, lists
<1>7. Promise' /\ ConfirmationsOnRecord'
  BY <1>b, ServerUndisturbed DEF server
<1>8. Handlers'
  <2>1. \A d \in Attempts \ {c} :
          /\ handler'[d] # "none" => payload'[d] \in Payloads /\ pendingAttempt' # Null
          /\ handler'[d] \in {"none", "technicians", "bays", "available"} => request[d] = Null
          /\ handler'[d] \in {"list", "rows"} => answer[d].outcome = "confirmed"
          /\ request[d] # Null =>
               \E key \in Attempts, u \in Customers : request[d] = WithKey(payload'[d], key, u)
    BY <1>a, <1>1, <1>2 DEF Handlers
  <2>2. QED
    BY <1>b, <1>1, <1>2, <2>1 DEF Handlers, server
<1>9. OneSession'
  BY <1>a, <1>b, <1>1 DEF OneSession, server, tabs, lists
<1>10. SomeLatest'
  BY <1>5 DEF SomeLatest
<1>11. OneKeyPerIntent'
  <2> SUFFICES ASSUME ~overtaken'
               PROVE  /\ \A d \in Attempts :
                           Running(d)' => IsLatest(d)' /\ payload'[d] = pendingAttempt'.payload
                      /\ \A d \in Attempts :
                           request[d] # Null /\ IsLatest(d)' =>
                             request[d].key = pendingAttempt'.key
                      /\ \A d, e \in Attempts :
                           request[d] # Null /\ request[e] # Null /\ intent'[d] = intent'[e] =>
                             request[d].key = request[e].key
    BY <1>b DEF OneKeyPerIntent, server
  <2>1. ~overtaken /\ \A d \in Attempts : Running(d) => payload[d] = p
    BY <1>b
  <2>2. \A d \in Attempts \ {c} : Running(d)' => Running(d)
    BY <1>1 DEF Running
  <2>3. \A d \in Attempts : Running(d) => SamePayload(p)
    BY <1>a, <2>1 DEF OneKeyPerIntent, Handlers, Running, Awaits, SamePayload
  <2>4. \A d \in Attempts :
          Running(d)' => IsLatest(d)' /\ payload'[d] = pendingAttempt'.payload
    BY <1>a, <1>1, <1>2, <1>5, <2>1, <2>2, <2>3 DEF OneKeyPerIntent
  <2>5. \A d \in Attempts :
          request[d] # Null /\ IsLatest(d)' => request[d].key = pendingAttempt'.key
    BY <1>a, <1>b, <1>2, <1>5, <2>1 DEF OneKeyPerIntent
  <2>6. \A d, e \in Attempts :
          request[d] # Null /\ request[e] # Null /\ intent'[d] = intent'[e] =>
            request[d].key = request[e].key
    BY <1>a, <1>b, <1>4, <2>1 DEF OneKeyPerIntent
  <2>7. QED
    BY <2>4, <2>5, <2>6
<1>12. ShownIsAnswered'
  BY <1>b DEF ShownIsAnswered
<1>13. QED
  BY <1>6, <1>7, <1>8, <1>9, <1>10, <1>11, <1>12 DEF IndInv

\* A session that changes is not one session any more, and nothing else depends on it.
LEMMA SwitchStep ==
  ASSUME IndInv, NEW customer \in Customers \cup {Null}, SwitchSession(customer)
  PROVE  IndInv'
<1>a. /\ TypeOK /\ Promise /\ ConfirmationsOnRecord /\ Handlers /\ OneSession
      /\ SomeLatest /\ OneKeyPerIntent /\ ShownIsAnswered
  BY DEF IndInv
<1>b. /\ session' = customer /\ switched' = TRUE
      /\ UNCHANGED <<server, clicks, handler, available, shown, lists, lost, crossed>>
  BY DEF SwitchSession
<1>1. TypeOK'
  BY <1>a, <1>b DEF TypeOK, server, clicks, lists
<1>2. Promise' /\ ConfirmationsOnRecord'
  BY <1>b, ServerUndisturbed DEF server
<1>3. Handlers'
  BY <1>a, <1>b DEF Handlers, server, clicks
<1>4. OneSession'
  BY <1>b DEF OneSession
<1>5. SomeLatest' /\ OneKeyPerIntent'
  BY <1>a, <1>b DEF SomeLatest, OneKeyPerIntent, IsLatest, Running, server, clicks
<1>6. ShownIsAnswered'
  BY <1>a, <1>b DEF ShownIsAnswered, IsLatest, server, clicks
<1>7. QED
  BY <1>1, <1>2, <1>3, <1>4, <1>5, <1>6 DEF IndInv

\* Either half of the availability check: nothing but the handler and its verdict
\* changes.
LEMMA CheckStep ==
  ASSUME IndInv, NEW c \in Attempts, CheckTechnicians(c) \/ CheckBays(c)
  PROVE  IndInv'
<1>a. /\ TypeOK /\ Promise /\ ConfirmationsOnRecord /\ Handlers /\ OneSession
      /\ SomeLatest /\ OneKeyPerIntent /\ ShownIsAnswered
  BY DEF IndInv
<1>b. PICK next \in {"bays", "available"} : handler' = [handler EXCEPT ![c] = next]
  BY DEF CheckTechnicians, CheckBays, Await
<1>c. PICK is \in BOOLEAN : available' = [available EXCEPT ![c] = is]
  BY <1>a DEF CheckTechnicians, CheckBays, TypeOK
<1>d. /\ handler[c] \in {"technicians", "bays"}
      /\ UNCHANGED <<server, tabs, clicks, shown, lists, lost, crossed>>
  BY DEF CheckTechnicians, CheckBays
<1>1. handler'[c] = next /\ \A d \in Loaders \ {c} : handler'[d] = handler[d]
  BY <1>a, <1>b DEF TypeOK, Loaders
<1>2. TypeOK'
  BY <1>a, <1>b, <1>c, <1>d DEF TypeOK, server, tabs, clicks, lists, Awaits
<1>3. Promise' /\ ConfirmationsOnRecord'
  BY <1>d, ServerUndisturbed DEF server
<1>4. Handlers'
  BY <1>a, <1>d, <1>1 DEF Handlers, server, clicks, Loaders
<1>5. OneSession'
  BY <1>a, <1>d, <1>1 DEF OneSession, server, tabs, lists, Loaders
<1>6. SomeLatest' /\ OneKeyPerIntent'
  BY <1>b, <1>d, IntentsUndisturbed DEF Running, Awaits, Await, server, Loaders
<1>7. ShownIsAnswered'
  BY <1>a, <1>d, <1>1, BookingPageAssumption
  DEF ShownIsAnswered, server, tabs, clicks, lists, IsLatest, Loaders
<1>8. QED
  BY <1>2, <1>3, <1>4, <1>5, <1>6, <1>7 DEF IndInv

\* A handler that stops, with something else than a confirmation to tell.
LEMMA StopStep ==
  ASSUME IndInv, NEW c \in Attempts, Running(c), NEW text \in Texts \ {"confirmed"},
         Say(c, text), Await(c, "done"),
         available' \in [Attempts -> BOOLEAN],
         rows' \in [Loaders -> SUBSET AppointmentRows(AppointmentIds)],
         \A d \in Loaders \ {c} : rows'[d] = rows[d],
         lost' \in 0 .. MaxLostAnswers,
         UNCHANGED <<server, tabs, clicks, table, crossed>>
  PROVE  IndInv'
<1>a. /\ TypeOK /\ Promise /\ ConfirmationsOnRecord /\ Handlers /\ OneSession
      /\ SomeLatest /\ OneKeyPerIntent /\ ShownIsAnswered
  BY DEF IndInv
<1>1. handler'[c] = "done" /\ \A d \in Loaders \ {c} : handler'[d] = handler[d]
  BY <1>a DEF Await, TypeOK, Loaders
<1>2. TypeOK'
  <2>1. /\ handler' \in [Loaders -> Awaits \cup {"none", "done"}]
        /\ shown' \in [by: Attempts \cup {Null}, text: Texts,
                       appointment: AppointmentRows(AppointmentIds) \cup {Null}]
    BY <1>a DEF TypeOK, Await, Say
  <2>2. QED
    BY <1>a, <2>1 DEF TypeOK, server, tabs, clicks
<1>3. Promise' /\ ConfirmationsOnRecord'
  BY ServerUndisturbed DEF server
<1>4. Handlers'
  BY <1>a, <1>1 DEF Handlers, server, clicks, Running, Awaits, Loaders
<1>5. OneSession'
  BY <1>a, <1>1 DEF OneSession, server, tabs, Loaders
<1>6. SomeLatest' /\ OneKeyPerIntent'
  BY IntentsUndisturbed DEF server, Loaders
<1>7. ShownIsAnswered'
  BY DEF ShownIsAnswered, Say
<1>8. QED
  BY <1>2, <1>3, <1>4, <1>5, <1>6, <1>7 DEF IndInv

\* A request that the handler refuses does not reach the server.
LEMMA RefusedPostStep ==
  ASSUME IndInv, NEW c \in Attempts, handler[c] = "available",
         Say(c, "booking"), Await(c, "booked"),
         available' = [available EXCEPT ![c] = FALSE],
         UNCHANGED <<server, tabs, clicks, lists, lost, crossed>>
  PROVE  IndInv'
<1>a. /\ TypeOK /\ Promise /\ ConfirmationsOnRecord /\ Handlers /\ OneSession
      /\ SomeLatest /\ OneKeyPerIntent /\ ShownIsAnswered
  BY DEF IndInv
<1>1. handler'[c] = "booked" /\ \A d \in Loaders \ {c} : handler'[d] = handler[d]
  BY <1>a DEF Await, TypeOK, Loaders
<1>2. TypeOK'
  <2>1. /\ handler' \in [Loaders -> Awaits \cup {"none", "done"}]
        /\ available' \in [Attempts -> BOOLEAN]
        /\ shown' \in [by: Attempts \cup {Null}, text: Texts,
                       appointment: AppointmentRows(AppointmentIds) \cup {Null}]
    BY <1>a DEF TypeOK, Await, Say, Awaits, Texts
  <2>2. QED
    BY <1>a, <2>1 DEF TypeOK, server, tabs, clicks, lists
<1>3. Promise' /\ ConfirmationsOnRecord'
  BY ServerUndisturbed DEF server
<1>4. Handlers'
  BY <1>a, <1>1 DEF Handlers, server, clicks, Loaders
<1>5. OneSession'
  BY <1>a, <1>1 DEF OneSession, server, tabs, lists, Loaders
<1>6. SomeLatest' /\ OneKeyPerIntent'
  BY IntentsUndisturbed DEF server, Running, Awaits, Loaders
<1>7. ShownIsAnswered'
  BY DEF ShownIsAnswered, Say
<1>8. QED
  BY <1>2, <1>3, <1>4, <1>5, <1>6, <1>7 DEF IndInv

\* What is posted goes under the pending key, for the customer who is signed in, and its
\* click is of the latest intent.
LEMMA PostStep ==
  ASSUME IndInv, NEW c \in Attempts, Post(c), ~UNCHANGED server
  PROVE  IndInv'
<1>a. /\ TypeOK /\ Promise /\ ConfirmationsOnRecord /\ Handlers /\ OneSession
      /\ SomeLatest /\ OneKeyPerIntent /\ ShownIsAnswered
  BY DEF IndInv
<1> DEFINE r == WithKey(payload[c], pendingAttempt.key, session)
<1>b. /\ handler[c] = "available" /\ session # Null
      /\ request[c] = Null /\ request' = [request EXCEPT ![c] = r]
      /\ shown' = [by |-> c, text |-> "booking", appointment |-> Null]
      /\ handler' = [handler EXCEPT ![c] = "booked"]
      /\ available' = [available EXCEPT ![c] = FALSE]
      /\ UNCHANGED <<appointments, idempotency, answer, doubtful, tabs, clicks, lists, lost,
                     crossed>>
  BY DEF Post, Server!Send, Say, Await
<1>c. payload[c] \in Payloads /\ pendingAttempt.key \in Attempts /\ session \in Customers
  BY <1>a, <1>b DEF Handlers, TypeOK
<1>d. r \in Requests /\ r # Null /\ r.key = pendingAttempt.key /\ r.customer = session
  BY <1>c, WithKeyFacts
<1>1. /\ request'[c] = r /\ handler'[c] = "booked"
      /\ \A d \in Attempts \ {c} : request'[d] = request[d] /\ handler'[d] = handler[d]
  BY <1>a, <1>b DEF TypeOK, Loaders
<1>2. \A d \in Attempts : request[d] # Null => request'[d] = request[d]
  BY <1>b, <1>1
<1>3. TypeOK'
  <2>1. /\ request' \in [Attempts -> Requests \cup {Null}]
        /\ handler' \in [Loaders -> Awaits \cup {"none", "done"}]
        /\ available' \in [Attempts -> BOOLEAN]
    BY <1>a, <1>b, <1>d DEF TypeOK, Awaits
  <2>2. shown' \in [by: Attempts \cup {Null}, text: Texts,
                    appointment: AppointmentRows(AppointmentIds) \cup {Null}]
    BY <1>b DEF Texts
  <2>3. QED
    BY <1>a, <1>b, <2>1, <2>2 DEF TypeOK, tabs, clicks, lists
<1>4. Promise'
  <2>1. \A rec \in idempotency : \E a \in Attempts :
          request'[a] # Null /\ rec = CompletedRow(request'[a], a)
    BY <1>a, <1>2 DEF Promise
  <2>2. \A a \in Attempts : \A row \in appointments :
          row.id = a =>
            /\ request'[a] # Null /\ Fulfils(row, request'[a])
            /\ CompletedRow(request'[a], a) \in idempotency
    BY <1>a, <1>2 DEF Promise
  <2>3. QED
    BY <1>a, <1>b, <2>1, <2>2 DEF Promise
<1>5. ConfirmationsOnRecord'
  BY <1>a, <1>b, <1>2 DEF ConfirmationsOnRecord
<1>6. Handlers'
  <2>1. \A d \in Attempts \ {c} :
          /\ handler'[d] # "none" => payload[d] \in Payloads /\ pendingAttempt # Null
          /\ handler'[d] \in {"none", "technicians", "bays", "available"} => request'[d] = Null
          /\ handler'[d] \in {"list", "rows"} => answer[d].outcome = "confirmed"
          /\ request'[d] # Null =>
               \E key \in Attempts, u \in Customers : request'[d] = WithKey(payload[d], key, u)
    BY <1>a, <1>1 DEF Handlers
  <2>2. pendingAttempt # Null
    BY <1>a, <1>b DEF Handlers
  <2>3. \E key \in Attempts, u \in Customers : request'[c] = WithKey(payload[c], key, u)
    BY <1>c, <1>1
  <2>4. QED
    BY <1>b, <1>c, <1>1, <2>1, <2>2, <2>3 DEF Handlers, clicks
<1>7. OneSession'
  <2>1. \A d \in Attempts \ {c} :
          ~switched /\ request'[d] # Null => request'[d].customer = session
    BY <1>a, <1>1 DEF OneSession
  <2>2. \A d \in Attempts :
          ~switched /\ handler'[d] = "rows" => answer[d].appointment \in rows[d]
    BY <1>a, <1>1 DEF OneSession
  <2>3. QED
    BY <1>b, <1>c, <1>d, <1>1, <2>1, <2>2 DEF OneSession, tabs, lists
<1>8. \A d \in Attempts : (IsLatest(d)' <=> IsLatest(d)) /\ (Running(d)' <=> Running(d))
  BY <1>b, <1>1 DEF IsLatest, Running, Awaits, clicks
<1>9. SomeLatest'
  BY <1>a, <1>8 DEF SomeLatest
<1>10. OneKeyPerIntent'
  <2> SUFFICES ASSUME ~overtaken
               PROVE  /\ \A d \in Attempts :
                           Running(d) => IsLatest(d) /\ payload[d] = pendingAttempt.payload
                      /\ \A d \in Attempts :
                           request'[d] # Null /\ IsLatest(d) =>
                             request'[d].key = pendingAttempt.key
                      /\ \A d, e \in Attempts :
                           request'[d] # Null /\ request'[e] # Null /\ intent[d] = intent[e] =>
                             request'[d].key = request'[e].key
    BY <1>b, <1>8 DEF OneKeyPerIntent, clicks
  <2>1. IsLatest(c)
    BY <1>a, <1>b DEF OneKeyPerIntent, Running, Awaits
  <2>2. \A d \in Attempts :
          request'[d] # Null /\ IsLatest(d) => request'[d].key = pendingAttempt.key
    BY <1>a, <1>d, <1>1 DEF OneKeyPerIntent
  <2>3. \A d, e \in Attempts \ {c} :
          request'[d] # Null /\ request'[e] # Null /\ intent[d] = intent[e] =>
            request'[d].key = request'[e].key
    BY <1>a, <1>1 DEF OneKeyPerIntent
  <2>4. \A d \in Attempts : intent[d] = intent[c] => IsLatest(d)
    BY <2>1 DEF IsLatest
  <2>5. \A d \in Attempts :
          request'[d] # Null /\ intent[d] = intent[c] => request'[d].key = request'[c].key
    BY <1>d, <1>1, <2>2, <2>4
  <2>6. QED
    BY <1>a, <2>2, <2>3, <2>5 DEF OneKeyPerIntent
<1>11. ShownIsAnswered'
  BY <1>b DEF ShownIsAnswered
<1>12. QED
  BY <1>3, <1>4, <1>5, <1>6, <1>7, <1>9, <1>10, <1>11 DEF IndInv

\* A confirmation is shown as it was answered, and the list is asked for.
LEMMA ConfirmStep ==
  ASSUME IndInv, NEW c \in Attempts, handler[c] = "booked", answer[c].outcome = "confirmed",
         shown' = [by |-> c, text |-> "confirmed", appointment |-> answer[c].appointment],
         Await(c, "list"),
         crossed' = (crossed \/ \E f \in Refreshes :
           handler[f] = "rows" /\ answer[c].appointment \notin rows[f]),
         UNCHANGED <<server, tabs, clicks, available, lists, lost>>
  PROVE  IndInv'
<1>a. /\ TypeOK /\ Promise /\ ConfirmationsOnRecord /\ Handlers /\ OneSession
      /\ SomeLatest /\ OneKeyPerIntent /\ ShownIsAnswered
  BY DEF IndInv
<1>1. handler'[c] = "list" /\ \A d \in Loaders \ {c} : handler'[d] = handler[d]
  BY <1>a DEF Await, TypeOK, Loaders
<1>2. answer[c].appointment \in AppointmentRows(AppointmentIds)
  BY <1>a DEF ConfirmationsOnRecord, TypeOK
<1>3. TypeOK'
  <2>1. /\ handler' \in [Loaders -> Awaits \cup {"none", "done"}]
        /\ crossed' \in BOOLEAN
        /\ shown' \in [by: Attempts \cup {Null}, text: Texts,
                       appointment: AppointmentRows(AppointmentIds) \cup {Null}]
    BY <1>a, <1>2 DEF TypeOK, Await, Awaits, Texts
  <2>2. QED
    BY <1>a, <2>1 DEF TypeOK, server, tabs, clicks, lists
<1>4. Promise' /\ ConfirmationsOnRecord'
  BY ServerUndisturbed DEF server
<1>5. Handlers'
  BY <1>a, <1>1 DEF Handlers, server, clicks, Loaders
<1>6. OneSession'
  BY <1>a, <1>1 DEF OneSession, server, tabs, lists, Loaders
<1>7. SomeLatest' /\ OneKeyPerIntent'
  BY IntentsUndisturbed DEF server, Running, Awaits, Loaders
<1>8. ShownIsAnswered'
  <2>1. ~overtaken => IsLatest(c)
    BY <1>a DEF OneKeyPerIntent, Running, Awaits
  <2>2. ~crossed' =>
          \A f \in Refreshes : handler'[f] = "rows" => answer[c].appointment \in rows[f]
    BY <1>1, BookingPageAssumption DEF Loaders
  <2>3. QED
    BY <1>1, <2>1, <2>2 DEF ShownIsAnswered, IsLatest, server, clicks, lists
<1>9. QED
  BY <1>3, <1>4, <1>5, <1>6, <1>7, <1>8 DEF IndInv

\* What was confirmed is in the list of the customer who is signed in, unless that is
\* another one by now.
LEMMA ConfirmedIsOfSession ==
  ASSUME IndInv, ~switched, NEW c \in Attempts, answer[c].outcome = "confirmed"
  PROVE  answer[c].appointment \in ListOf(session)
<1>1. /\ request[c] # Null /\ answer[c].appointment \in appointments
      /\ Fulfils(answer[c].appointment, request[c])
  BY DEF IndInv, ConfirmationsOnRecord
<1>2. request[c].customer = session
  BY <1>1 DEF IndInv, OneSession
<1>3. QED
  BY <1>1, <1>2, FulfilsCustomer DEF ListOf

\* The rows that answer a reload have the appointment that was confirmed.
LEMMA QueryListStep ==
  ASSUME IndInv, NEW c \in Attempts, QueryList(c)
  PROVE  IndInv'
<1>a. /\ TypeOK /\ Promise /\ ConfirmationsOnRecord /\ Handlers /\ OneSession
      /\ SomeLatest /\ OneKeyPerIntent /\ ShownIsAnswered
  BY DEF IndInv
<1>b. /\ handler[c] = "list" /\ rows' = [rows EXCEPT ![c] = ListOf(session)]
      /\ Await(c, "rows")
      /\ UNCHANGED <<server, tabs, clicks, available, shown, table, lost, crossed>>
  BY DEF QueryList
<1>1. /\ handler'[c] = "rows" /\ rows'[c] = ListOf(session)
      /\ \A d \in Loaders \ {c} : handler'[d] = handler[d] /\ rows'[d] = rows[d]
  BY <1>a, <1>b DEF Await, TypeOK, Loaders
<1>2. answer[c].outcome = "confirmed"
  BY <1>a, <1>b DEF Handlers
<1>3. ~switched => answer[c].appointment \in ListOf(session)
  BY <1>2, ConfirmedIsOfSession
<1>4. TypeOK'
  <2>1. /\ handler' \in [Loaders -> Awaits \cup {"none", "done"}]
        /\ rows' \in [Loaders -> SUBSET AppointmentRows(AppointmentIds)]
    BY <1>a, <1>b DEF TypeOK, Await, Awaits, ListOf
  <2>2. QED
    BY <1>a, <1>b, <2>1 DEF TypeOK, server, tabs, clicks
<1>5. Promise' /\ ConfirmationsOnRecord'
  BY <1>b, ServerUndisturbed DEF server
<1>6. Handlers'
  BY <1>a, <1>b, <1>1, <1>2 DEF Handlers, server, clicks, Loaders
<1>7. OneSession'
  BY <1>a, <1>b, <1>1, <1>3 DEF OneSession, server, tabs, Loaders
<1>8. SomeLatest' /\ OneKeyPerIntent'
  BY <1>b, IntentsUndisturbed DEF server, Running, Awaits, Loaders
<1>9. ShownIsAnswered'
  BY <1>a, <1>b, <1>1, BookingPageAssumption
  DEF ShownIsAnswered, server, tabs, clicks, IsLatest, Loaders
<1>10. QED
  BY <1>4, <1>5, <1>6, <1>7, <1>8, <1>9 DEF IndInv

\* Two confirmations of one intent are of one appointment.
LEMMA OneAppointmentPerIntent ==
  ASSUME IndInv, ~overtaken, NEW c \in Attempts, NEW d \in Attempts,
         answer[c].outcome = "confirmed", answer[d].outcome = "confirmed",
         intent[c] = intent[d]
  PROVE  answer[c].appointment = answer[d].appointment
<1>a. Promise /\ ConfirmationsOnRecord /\ OneKeyPerIntent
  BY DEF IndInv
<1> DEFINE x == answer[c].appointment
           y == answer[d].appointment
<1>1. /\ request[c] # Null /\ request[d] # Null
      /\ x \in appointments /\ y \in appointments
      /\ CompletedRow(request[c], x.id) \in idempotency
      /\ CompletedRow(request[d], y.id) \in idempotency
  BY <1>a DEF ConfirmationsOnRecord
<1>2. request[c].key = request[d].key
  BY <1>a, <1>1 DEF OneKeyPerIntent
<1>3. CompletedRow(request[c], x.id) = CompletedRow(request[d], y.id)
  BY <1>a, <1>1, <1>2, CompletedRowFields DEF Promise
<1>4. x.id = y.id
  BY <1>3, CompletedRowFields
<1>5. QED
  BY <1>a, <1>1, <1>4 DEF Promise

\* The list that comes last has the appointment that is shown.
LEMMA ListLoadedStep ==
  ASSUME IndInv, NEW c \in Attempts, ListLoaded(c)
  PROVE  IndInv'
<1>a. /\ TypeOK /\ Promise /\ ConfirmationsOnRecord /\ Handlers /\ OneSession
      /\ SomeLatest /\ OneKeyPerIntent /\ ShownIsAnswered
  BY DEF IndInv
<1>b. /\ handler[c] = "rows" /\ table' = rows[c] /\ rows' = [rows EXCEPT ![c] = {}]
      /\ Await(c, "done")
      /\ UNCHANGED <<server, tabs, clicks, available, shown, lost, crossed>>
  BY DEF ListLoaded
<1>1. /\ handler'[c] = "done" /\ rows'[c] = {}
      /\ \A d \in Loaders \ {c} : handler'[d] = handler[d] /\ rows'[d] = rows[d]
  BY <1>a, <1>b DEF Await, TypeOK, Loaders
<1>2. /\ answer[c].outcome = "confirmed"
      /\ ~switched => answer[c].appointment \in table'
  BY <1>a, <1>b DEF Handlers, OneSession
<1>3. TypeOK'
  <2>1. /\ handler' \in [Loaders -> Awaits \cup {"none", "done"}]
        /\ rows' \in [Loaders -> SUBSET AppointmentRows(AppointmentIds)]
        /\ table' \subseteq AppointmentRows(AppointmentIds)
    BY <1>a, <1>b DEF TypeOK, Await, Loaders
  <2>2. QED
    BY <1>a, <1>b, <2>1 DEF TypeOK, server, tabs, clicks
<1>4. Promise' /\ ConfirmationsOnRecord'
  BY <1>b, ServerUndisturbed DEF server
<1>5. Handlers'
  BY <1>a, <1>b, <1>1 DEF Handlers, server, clicks, Loaders
<1>6. OneSession'
  BY <1>a, <1>b, <1>1 DEF OneSession, server, tabs, Loaders
<1>7. SomeLatest' /\ OneKeyPerIntent'
  BY <1>b, IntentsUndisturbed DEF server, Running, Awaits, Loaders
<1>8. ShownIsAnswered'
  <2> SUFFICES ASSUME shown.text = "confirmed"
               PROVE  /\ shown.by \in Attempts
                      /\ handler'[shown.by] \in {"list", "rows", "done"}
                      /\ answer[shown.by].outcome = "confirmed"
                      /\ shown.appointment = answer[shown.by].appointment
                      /\ ~overtaken => IsLatest(shown.by)
                      /\ ~overtaken /\ ~switched /\ ~crossed =>
                           /\ shown.appointment \in table'
                           /\ \A f \in Refreshes :
                                handler'[f] = "rows" => shown.appointment \in rows'[f]
    BY <1>b DEF ShownIsAnswered, server, tabs, clicks, IsLatest
  <2>1. /\ shown.by \in Attempts
        /\ handler[shown.by] \in {"list", "rows", "done"}
        /\ answer[shown.by].outcome = "confirmed"
        /\ shown.appointment = answer[shown.by].appointment
        /\ ~overtaken => IsLatest(shown.by)
        /\ ~overtaken /\ ~switched /\ ~crossed =>
             \A f \in Refreshes : handler[f] = "rows" => shown.appointment \in rows[f]
    BY <1>a DEF ShownIsAnswered
  <2>2. ASSUME ~overtaken, ~switched PROVE shown.appointment \in table'
    <3>1. IsLatest(c) /\ IsLatest(shown.by)
      BY <1>a, <1>b, <2>1, <2>2 DEF OneKeyPerIntent, Running, Awaits
    <3>2. intent[c] = intent[shown.by]
      BY <1>a, <2>1, <3>1 DEF IsLatest, TypeOK
    <3>3. answer[c].appointment = answer[shown.by].appointment
      BY <1>2, <2>1, <2>2, <3>2, OneAppointmentPerIntent
    <3>4. QED
      BY <1>2, <2>1, <2>2, <3>3
  <2>3. \A f \in Refreshes : handler'[f] = handler[f] /\ rows'[f] = rows[f]
    BY <1>1, BookingPageAssumption DEF Loaders
  <2>4. handler'[shown.by] \in {"list", "rows", "done"}
    BY <1>1, <2>1 DEF Loaders
  <2>5. QED
    BY <2>1, <2>2, <2>3, <2>4
<1>9. QED
  BY <1>3, <1>4, <1>5, <1>6, <1>7, <1>8 DEF IndInv

\* A Refresh has what was confirmed if it asks for the list after that, and loads what it
\* has; no handler knows of it.
LEMMA RefreshStep ==
  ASSUME IndInv, NEW f \in Refreshes, NEW next \in {"list", "rows", "done"}, Await(f, next),
         rows' \in [Loaders -> SUBSET AppointmentRows(AppointmentIds)],
         \A d \in Loaders \ {f} : rows'[d] = rows[d],
         next = "rows" => rows'[f] = ListOf(session),
         \/ table' \in {Null, table}
         \/ handler[f] = "rows" /\ table' = rows[f],
         lost' \in 0 .. MaxLostAnswers,
         UNCHANGED <<server, tabs, clicks, available, shown, crossed>>
  PROVE  IndInv'
<1>a. /\ TypeOK /\ Promise /\ ConfirmationsOnRecord /\ Handlers /\ OneSession
      /\ SomeLatest /\ OneKeyPerIntent /\ ShownIsAnswered
  BY DEF IndInv
<1>1. /\ handler'[f] = next
      /\ \A d \in Loaders \ {f} : handler'[d] = handler[d] /\ rows'[d] = rows[d]
  BY <1>a DEF Await, TypeOK, Loaders
<1>2. \A c \in Attempts : handler'[c] = handler[c] /\ rows'[c] = rows[c]
  BY <1>1, BookingPageAssumption DEF Loaders
<1>3. TypeOK'
  <2>1. handler' \in [Loaders -> Awaits \cup {"none", "done"}]
    BY <1>a DEF TypeOK, Await, Awaits
  <2>2. table' = Null \/ table' \subseteq AppointmentRows(AppointmentIds)
    BY <1>a DEF TypeOK, Loaders
  <2>3. QED
    BY <1>a, <2>1, <2>2 DEF TypeOK, server, tabs, clicks
<1>4. Promise' /\ ConfirmationsOnRecord'
  BY ServerUndisturbed DEF server
<1>5. Handlers'
  BY <1>a, <1>2 DEF Handlers, server, clicks
<1>6. OneSession'
  BY <1>a, <1>2 DEF OneSession, server, tabs
<1>7. SomeLatest' /\ OneKeyPerIntent'
  BY <1>a, <1>2 DEF SomeLatest, OneKeyPerIntent, IsLatest, Running, server, clicks
<1>8. ShownIsAnswered'
  <2> SUFFICES ASSUME shown.text = "confirmed", ~overtaken, ~switched, ~crossed
               PROVE  /\ handler[shown.by] = "done" =>
                           table' = Null \/ shown.appointment \in table'
                      /\ \A g \in Refreshes :
                           handler'[g] = "rows" => shown.appointment \in rows'[g]
    BY <1>a, <1>2 DEF ShownIsAnswered, server, tabs, clicks, IsLatest
  <2>1. /\ shown.by \in Attempts
        /\ answer[shown.by].outcome = "confirmed"
        /\ shown.appointment = answer[shown.by].appointment
        /\ handler[shown.by] = "done" => table = Null \/ shown.appointment \in table
        /\ \A g \in Refreshes : handler[g] = "rows" => shown.appointment \in rows[g]
    BY <1>a DEF ShownIsAnswered
  <2>2. shown.appointment \in ListOf(session)
    BY <2>1, ConfirmedIsOfSession
  <2>3. \A g \in Refreshes : handler'[g] = "rows" => shown.appointment \in rows'[g]
    BY <1>1, <2>1, <2>2 DEF Loaders
  <2>4. QED
    BY <2>1, <2>3
<1>9. QED
  BY <1>3, <1>4, <1>5, <1>6, <1>7, <1>8 DEF IndInv

-----------------------------------------------------------------------------
(* The invariant holds. *)

\* No click yet, and the tables as they were.
LEMMA InitIndInv == Init => IndInv
<1> SUFFICES ASSUME Init PROVE IndInv
  OBVIOUS
<1>1. /\ request = [a \in Attempts |-> Null]
      /\ appointments = SeedAppointments /\ idempotency = {}
      /\ answer = [a \in Attempts |-> Pending] /\ doubtful = {}
  BY ServerOperators DEF Init, Server!Init
<1>2. SeedAppointments \subseteq AppointmentRows(AppointmentIds)
  BY BookingDataAssumption DEF AppointmentRows, AppointmentIds
<1>3. TypeOK
  <2>1. /\ request \in [Attempts -> Requests \cup {Null}]
        /\ appointments \subseteq AppointmentRows(AppointmentIds)
        /\ idempotency \subseteq IdempotencyRows
        /\ answer \in [Attempts -> Answers]
        /\ doubtful \subseteq Attempts
    BY <1>1, <1>2, AnswerTypes
  <2>2. /\ session \in Customers \cup {Null}
        /\ pendingAttempt \in [payload: Payloads, key: Attempts] \cup {Null}
        /\ handler \in [Loaders -> Awaits \cup {"none", "done"}]
        /\ payload \in [Attempts -> Payloads \cup {Null}]
        /\ available \in [Attempts -> BOOLEAN]
    BY DEF Init
  <2>3. shown \in [by: Attempts \cup {Null}, text: Texts,
                   appointment: AppointmentRows(AppointmentIds) \cup {Null}]
    BY DEF Init, Texts
  <2>4. rows \in [Loaders -> SUBSET AppointmentRows(AppointmentIds)]
    BY DEF Init
  <2>5. lost \in 0 .. MaxLostAnswers
    <3>1. MaxLostAnswers \in Nat
      BY BookingPageAssumption
    <3>2. lost = 0
      BY DEF Init
    <3>3. QED
      BY <3>1, <3>2
  <2>6. table \subseteq AppointmentRows(AppointmentIds)
    BY <2>1 DEF Init, ListOf
  <2>7. /\ intent \in [Attempts -> Nat]
        /\ overtaken \in BOOLEAN /\ switched \in BOOLEAN /\ crossed \in BOOLEAN
    BY DEF Init
  <2>8. QED
    BY <2>1, <2>2, <2>3, <2>4, <2>5, <2>6, <2>7 DEF TypeOK
<1>4. \A x \in SeedAppointments : x.id \notin Attempts
  BY BookingDataAssumption DEF AppointmentRows
<1>5. Promise
  BY <1>1, <1>4, BookingDataAssumption DEF Promise
<1>6. ConfirmationsOnRecord
  BY <1>1 DEF ConfirmationsOnRecord, Pending
<1>7. Handlers
  BY <1>1 DEF Init, Handlers, Loaders
<1>8. OneSession
  BY <1>1 DEF Init, OneSession, Loaders
<1>9. SomeLatest
  <2>1. \A c \in Attempts : intent[c] = 0
    BY DEF Init
  <2>2. \A c \in Attempts : IsLatest(c)
    BY <2>1 DEF IsLatest
  <2>3. QED
    BY <2>2 DEF SomeLatest
<1>10. OneKeyPerIntent
  BY <1>1 DEF Init, OneKeyPerIntent, Running, Awaits, Loaders
<1>11. ShownIsAnswered
  BY DEF Init, ShownIsAnswered
<1>12. QED
  BY <1>3, <1>5, <1>6, <1>7, <1>8, <1>9, <1>10, <1>11 DEF IndInv

\* One lemma for each kind of step.
LEMMA Inductive == IndInv /\ [Next]_vars => IndInv'
<1> SUFFICES ASSUME IndInv, [Next]_vars PROVE IndInv'
  OBVIOUS
<1>a. TypeOK
  BY DEF IndInv
<1>b. \A c \in Loaders : Fails(c) => lost' \in 0 .. MaxLostAnswers
  BY <1>a, BookingPageAssumption DEF Fails, TypeOK
<1>1. ASSUME NEW c \in Attempts, NEW p \in Payloads, Click(c, p) PROVE IndInv'
  BY <1>1, ClickStep
<1>2. ASSUME NEW c \in Attempts, CheckTechnicians(c) \/ CheckBays(c) PROVE IndInv'
  BY <1>2, CheckStep
<1>3. ASSUME NEW c \in Attempts, TellUnavailable(c) PROVE IndInv'
  <2>1. /\ Running(c) /\ Say(c, "unavailable") /\ Await(c, "done")
        /\ UNCHANGED <<server, tabs, clicks, available, lists, lost, crossed>>
    BY <1>3 DEF TellUnavailable, Running, Awaits
  <2>2. "unavailable" \in Texts \ {"confirmed"}
    BY DEF Texts
  <2>3. /\ available' \in [Attempts -> BOOLEAN]
        /\ rows' \in [Loaders -> SUBSET AppointmentRows(AppointmentIds)]
        /\ \A d \in Loaders \ {c} : rows'[d] = rows[d]
        /\ lost' \in 0 .. MaxLostAnswers
        /\ table' = table
    BY <1>a, <2>1 DEF TypeOK, lists
  <2>4. QED
    BY <2>1, <2>2, <2>3, StopStep
<1>4. ASSUME NEW c \in Attempts, Post(c) PROVE IndInv'
  <2>1. CASE UNCHANGED server
    BY <1>4, <2>1, RefusedPostStep DEF Post
  <2>2. CASE ~UNCHANGED server
    BY <1>4, <2>2, PostStep
  <2>3. QED
    BY <2>1, <2>2
<1>5. ASSUME NEW c \in Attempts, ShowAnswer(c) PROVE IndInv'
  <2>1. CASE /\ answer[c].outcome = "confirmed" /\ Await(c, "list")
             /\ shown' = [by |-> c, text |-> "confirmed", appointment |-> answer[c].appointment]
             /\ crossed' = (crossed \/ \E f \in Refreshes :
                  handler[f] = "rows" /\ answer[c].appointment \notin rows[f])
    BY <1>5, <2>1, ConfirmStep DEF ShowAnswer
  <2>2. CASE Say(c, "refused") /\ Await(c, "done") /\ UNCHANGED crossed
    <3>1. /\ Running(c) /\ "refused" \in Texts \ {"confirmed"}
          /\ UNCHANGED <<server, tabs, clicks, available, lists, lost, crossed>>
      BY <1>5, <2>2 DEF ShowAnswer, Running, Awaits, Texts
    <3>2. /\ available' \in [Attempts -> BOOLEAN]
          /\ rows' \in [Loaders -> SUBSET AppointmentRows(AppointmentIds)]
          /\ \A d \in Loaders \ {c} : rows'[d] = rows[d]
          /\ lost' \in 0 .. MaxLostAnswers
          /\ table' = table
      BY <1>a, <3>1 DEF TypeOK, lists
    <3>3. QED
      BY <2>2, <3>1, <3>2, StopStep
  <2>3. QED
    BY <1>5, <2>1, <2>2 DEF ShowAnswer
<1>6. ASSUME NEW c \in Attempts, FetchFails(c) PROVE IndInv'
  <2>1. /\ Running(c) /\ Say(c, "failed") /\ Await(c, "done")
        /\ UNCHANGED <<server, tabs, clicks, table, crossed>>
        /\ "failed" \in Texts \ {"confirmed"}
    BY <1>6 DEF FetchFails, Texts
  <2>2. lost' \in 0 .. MaxLostAnswers
    BY <1>b, <1>6 DEF FetchFails, Loaders
  <2>3. /\ available' \in [Attempts -> BOOLEAN]
        /\ rows' \in [Loaders -> SUBSET AppointmentRows(AppointmentIds)]
        /\ \A d \in Loaders \ {c} : rows'[d] = rows[d]
    BY <1>a, <1>6 DEF FetchFails, TypeOK
  <2>4. QED
    BY <2>1, <2>2, <2>3, StopStep
<1>7. ASSUME NEW c \in Attempts, Serve(c) PROVE IndInv'
  BY <1>7, ServeStep
<1>8. ASSUME NEW f \in Refreshes, Refresh(f) PROVE IndInv'
  <2>1. /\ Await(f, "list")
        /\ UNCHANGED <<server, tabs, clicks, available, shown, lists, lost, crossed>>
    BY <1>8 DEF Refresh
  <2>2. /\ rows' \in [Loaders -> SUBSET AppointmentRows(AppointmentIds)]
        /\ \A d \in Loaders \ {f} : rows'[d] = rows[d]
        /\ table' = table /\ lost' \in 0 .. MaxLostAnswers
    BY <1>a, <2>1 DEF TypeOK, lists
  <2>3. QED
    BY <2>1, <2>2, RefreshStep
<1>9. ASSUME NEW f \in Refreshes, RefreshFails(f) PROVE IndInv'
  <2>1. /\ Await(f, "done") /\ table' \in {Null, table}
        /\ UNCHANGED <<server, tabs, clicks, available, shown, crossed>>
    BY <1>9 DEF RefreshFails
  <2>2. lost' \in 0 .. MaxLostAnswers
    BY <1>b, <1>9 DEF RefreshFails, Loaders
  <2>3. /\ rows' \in [Loaders -> SUBSET AppointmentRows(AppointmentIds)]
        /\ \A d \in Loaders \ {f} : rows'[d] = rows[d]
    BY <1>a, <1>9 DEF RefreshFails, TypeOK
  <2>4. QED
    BY <2>1, <2>2, <2>3, RefreshStep
<1>10. ASSUME NEW c \in Loaders, QueryList(c) PROVE IndInv'
  <2>1. CASE c \in Attempts
    BY <1>10, <2>1, QueryListStep
  <2>2. CASE c \in Refreshes
    <3>1. /\ Await(c, "rows")
          /\ UNCHANGED <<server, tabs, clicks, available, shown, table, lost, crossed>>
      BY <1>10 DEF QueryList
    <3>2. /\ rows' \in [Loaders -> SUBSET AppointmentRows(AppointmentIds)]
          /\ rows'[c] = ListOf(session)
          /\ \A d \in Loaders \ {c} : rows'[d] = rows[d]
          /\ lost' \in 0 .. MaxLostAnswers
      BY <1>a, <1>10, <3>1 DEF QueryList, TypeOK, ListOf
    <3>3. QED
      BY <2>2, <3>1, <3>2, RefreshStep
  <2>3. QED
    BY <2>1, <2>2 DEF Loaders
<1>11. ASSUME NEW c \in Loaders, ListLoaded(c) PROVE IndInv'
  <2>1. CASE c \in Attempts
    BY <1>11, <2>1, ListLoadedStep
  <2>2. CASE c \in Refreshes
    <3>1. /\ Await(c, "done") /\ handler[c] = "rows" /\ table' = rows[c]
          /\ UNCHANGED <<server, tabs, clicks, available, shown, lost, crossed>>
      BY <1>11 DEF ListLoaded
    <3>2. /\ rows' \in [Loaders -> SUBSET AppointmentRows(AppointmentIds)]
          /\ \A d \in Loaders \ {c} : rows'[d] = rows[d]
          /\ lost' \in 0 .. MaxLostAnswers
      BY <1>a, <1>11, <3>1 DEF ListLoaded, TypeOK
    <3>3. QED
      BY <2>2, <3>1, <3>2, RefreshStep
  <2>3. QED
    BY <2>1, <2>2 DEF Loaders
<1>12. ASSUME NEW customer \in Customers \cup {Null}, SwitchSession(customer) PROVE IndInv'
  BY <1>12, SwitchStep
<1>13. CASE UNCHANGED vars
  <2>1. UNCHANGED <<server, tabs, clicks, handler, available, shown, lists, lost, crossed>>
    BY <1>13 DEF vars, server, tabs, clicks, lists
  <2>2. Promise' /\ ConfirmationsOnRecord'
    BY <2>1, ServerUndisturbed DEF server
  <2>3. TypeOK'
    BY <1>a, <2>1 DEF TypeOK, server, tabs, clicks, lists
  <2>4. Handlers' /\ OneSession' /\ SomeLatest' /\ OneKeyPerIntent' /\ ShownIsAnswered'
    BY <2>1, PageUndisturbed DEF server
  <2>5. QED
    BY <2>2, <2>3, <2>4 DEF IndInv
<1>14. QED
  BY <1>1, <1>2, <1>3, <1>4, <1>5, <1>6, <1>7, <1>8, <1>9, <1>10, <1>11, <1>12, <1>13
  DEF Next, Proceed

\* The inductive invariant holds in every reachable state.
THEOREM Invariance == Spec => []IndInv
BY InitIndInv, Inductive, PTL DEF Spec

-----------------------------------------------------------------------------
(* What follows. *)

\* Every variable of the page and of the server behind it keeps its type.
THEOREM TypeCorrect == Spec => []TypeOK
<1>1. IndInv => TypeOK
  BY DEF IndInv
<1>2. QED
  BY <1>1, Invariance, PTL

\* "Appointment confirmed" shows a committed booking of what that click asked for,
\* whatever key it was posted under and whoever was signed in.
THEOREM ConfirmedIsOwn == Spec => []ConfirmationIsOwn
<1>1. IndInv => ConfirmationIsOwn
  <2> SUFFICES ASSUME IndInv, shown.text = "confirmed"
               PROVE  /\ shown.appointment \in appointments
                      /\ request[shown.by] # Null
                      /\ Fulfils(shown.appointment, request[shown.by])
                      /\ PayloadOf(request[shown.by]) = payload[shown.by]
    BY DEF ConfirmationIsOwn
  <2> DEFINE c == shown.by
  <2>1. /\ c \in Attempts /\ handler[c] # "none"
        /\ answer[c].outcome = "confirmed" /\ shown.appointment = answer[c].appointment
    BY DEF IndInv, ShownIsAnswered
  <2>2. /\ request[c] # Null /\ shown.appointment \in appointments
        /\ Fulfils(shown.appointment, request[c])
    BY <2>1 DEF IndInv, ConfirmationsOnRecord
  <2>3. /\ payload[c] \in Payloads
        /\ \E key \in Attempts, u \in Customers : request[c] = WithKey(payload[c], key, u)
    BY <2>1, <2>2 DEF IndInv, Handlers
  <2>4. PayloadOf(request[c]) = payload[c]
    BY <2>3, WithKeyFacts
  <2>5. QED
    BY <2>2, <2>4
<1>2. QED
  BY <1>1, Invariance, PTL

\* Clicks for one thing make one appointment at most, as long as none comes while a
\* handler for something else runs.
THEOREM BooksOnce == Spec => []OneBookingPerIntent
<1>1. IndInv => OneBookingPerIntent
  <2> SUFFICES ASSUME IndInv, ~overtaken, NEW c \in Attempts, NEW d \in Attempts,
                      NEW x \in appointments, NEW y \in appointments,
                      x.id = c, y.id = d, intent[c] = intent[d]
               PROVE  c = d
    BY DEF OneBookingPerIntent
  <2>1. /\ request[c] # Null /\ CompletedRow(request[c], c) \in idempotency
        /\ request[d] # Null /\ CompletedRow(request[d], d) \in idempotency
    BY DEF IndInv, Promise
  <2>2. request[c].key = request[d].key
    BY <2>1 DEF IndInv, OneKeyPerIntent
  <2>3. CompletedRow(request[c], c) = CompletedRow(request[d], d)
    BY <2>1, <2>2, CompletedRowFields DEF IndInv, Promise
  <2>4. QED
    BY <2>3, CompletedRowFields
<1>2. QED
  BY <1>1, Invariance, PTL

\* A page at rest has the booking that it confirms in its list, however the reloads of
\* its handlers overtake each other, and whatever Refresh comes between them, unless the
\* booking was confirmed while that was on its way without it or another tab has changed
\* the session.
THEOREM RestingPageLists == Spec => []ConfirmedIsListed
<1>1. IndInv => ConfirmedIsListed
  BY DEF IndInv, ShownIsAnswered, ConfirmedIsListed, Running, Awaits, Loaders
<1>2. QED
  BY <1>1, Invariance, PTL

=============================================================================
