---------------------------- MODULE UpkeepProofs ----------------------------
(***************************************************************************)
(* What survives edits of the durations and the cleanup of expired         *)
(* records, for any number of attempts, requests, edits and retention.     *)
(***************************************************************************)
EXTENDS Upkeep, BookingLemmas

-----------------------------------------------------------------------------
(* The inductive invariant. *)

\* The hash of a request made while its service took n minutes.
HashOf(r, n) ==
  [customer |-> r.customer, vehicle |-> r.vehicle, dealership |-> r.dealership,
   service |-> r.service, start |-> r.start, end |-> r.start + n]

\* Every duration in use is one that the service has had.
DurationsWereSet ==
  /\ \A s \in Services : duration[s] \in edited[s]
  /\ \A a \in Attempts : pc[a] = "book" => minutes[a] \in edited[request[a].service]

\* A hash is that of the attempt's request, under one of those durations.
HashesAreOfRequests ==
  \A a \in Attempts :
    pc[a] # "service" => \E n \in edited[request[a].service] : hash[a] = HashOf(request[a], n)

\* An appointment that an attempt has made is for the attempt's request; the
\* attempt has ended.
RowsAreOfRequests ==
  /\ \A x, y \in appointments : x.id = y.id => x = y
  /\ \A a \in Attempts : \A row \in appointments :
       row.id = a =>
         /\ pc[a] = "end"
         /\ <<row.customer, row.vehicle, row.dealership, row.service, row.start>>
              = <<request[a].customer, request[a].vehicle, request[a].dealership,
                  request[a].service, request[a].start>>
         /\ \E n \in edited[request[a].service] : row.end = row.start + n

\* A record is of the attempt that has booked under its key, and alone has it.
RecordsAreOfBookings ==
  /\ \A x, y \in idempotency : x.key = y.key => x = y
  /\ \A rec \in idempotency : \E a \in Attempts :
       /\ rec.appointment = a /\ Books(a)
       /\ rec.key = request[a].key /\ rec.hash = hash[a]

\* A key that is claimed has no record and no other claim, and whoever has booked
\* under it has expired.
ClaimsAreFresh ==
  \A a \in Attempts :
    pc[a] \in {"duration", "book"} =>
      /\ RecordsFor(a) = {}
      /\ KeyWait(a) = {}
      /\ \A b \in Attempts :
           Books(b) /\ request[b].key = request[a].key => expires[b] < clock

\* A retry looks up, and replays, the booking of an attempt like itself.
RetriesFollowBookings ==
  /\ \A a \in Attempts :
       pc[a] = "lookup" =>
         \E b \in Attempts : Books(b) /\ request[b].key = request[a].key
  /\ \A a \in Attempts :
       pc[a] = "replay" =>
         \E b \in Attempts : found[a] = b /\ Books(b) /\ hash[b] = hash[a]

\* The record of a booking that has not expired is there.
RecordsStay ==
  \A a \in Attempts :
    Books(a) /\ expires[a] >= clock => \E rec \in idempotency : rec.appointment = a

IndInv ==
  /\ TypeOK
  /\ DurationsWereSet
  /\ HashesAreOfRequests
  /\ RowsAreOfRequests
  /\ RecordsAreOfBookings
  /\ ClaimsAreFresh
  /\ RetriesFollowBookings
  /\ RecordsStay
  /\ AnswersAreOfRequests
  /\ ConflictHasCause
  /\ RebookingNeedsExpiry

-----------------------------------------------------------------------------
(* Facts about the rules under given durations. *)

\* What is asked for.
LEMMA RequestTypes ==
  ASSUME NEW r \in Requests
  PROVE  /\ r.key \in Keys /\ r.customer \in Customers /\ r.vehicle \in Vehicles
         /\ r.dealership \in Dealerships /\ r.service \in Services /\ r.start \in Nat
BY BookingDataAssumption, UpkeepAssumption

\* The hash under given durations.
LEMMA HashUnder ==
  ASSUME NEW d, NEW r
  PROVE  Under(d)!RequestHash(r) = HashOf(r, d[r.service])
BY DEF Under!RequestHash, Under!ServiceEnd, HashOf

\* The queries find technicians and bays, and the row that books them is for the
\* request, as long as its service takes.
LEMMA BookingUnder ==
  ASSUME NEW d \in [Services -> Nat \ {0}], NEW a \in Attempts, NEW r \in Requests,
         NEW free, free = Under(d)!AvailableTechnicians(appointments, r), free # {},
         NEW freeBays, freeBays = Under(d)!AvailableBays(appointments, r), freeBays # {},
         NEW row, row = Under(d)!AppointmentFor(a, r, First(free), First(freeBays))
  PROVE  /\ row \in AppointmentRows(AppointmentIds)
         /\ row.id = a
         /\ <<row.customer, row.vehicle, row.dealership, row.service, row.start>>
              = <<r.customer, r.vehicle, r.dealership, r.service, r.start>>
         /\ row.end = row.start + d[r.service]
<1>1. First(free) \in Technicians /\ First(freeBays) \in Bays
  <2>1. free \subseteq Technicians /\ freeBays \subseteq Bays
    BY DEF Under!AvailableTechnicians, Under!AvailableBays
  <2>2. First(free) \in free /\ First(freeBays) \in freeBays
    BY <2>1, FirstInSet, SchedulingAssumption
  <2>3. QED
    BY <2>1, <2>2
<1>2. r.start + d[r.service] \in Nat
  BY RequestTypes
<1>3. row = [id |-> a, customer |-> r.customer, vehicle |-> r.vehicle,
             dealership |-> r.dealership, technician |-> First(free),
             bay |-> First(freeBays), service |-> r.service, start |-> r.start,
             end |-> r.start + d[r.service], status |-> "confirmed"]
  BY DEF Under!AppointmentFor, Under!ServiceEnd
<1>4. row \in AppointmentRows(AppointmentIds)
  BY <1>1, <1>2, <1>3, RequestTypes DEF AppointmentRows, AppointmentIds
<1>5. QED
  BY <1>3, <1>4

\* A hash names the fields of its request.
LEMMA SameHash ==
  ASSUME NEW q \in Requests, NEW r \in Requests, NEW m \in Nat, NEW n \in Nat,
         HashOf(q, m) = HashOf(r, n)
  PROVE  /\ <<q.customer, q.vehicle, q.dealership, q.service, q.start>>
              = <<r.customer, r.vehicle, r.dealership, r.service, r.start>>
         /\ m = n
<1>1. /\ HashOf(q, m).customer = HashOf(r, n).customer
      /\ HashOf(q, m).vehicle = HashOf(r, n).vehicle
      /\ HashOf(q, m).dealership = HashOf(r, n).dealership
      /\ HashOf(q, m).service = HashOf(r, n).service
      /\ HashOf(q, m).start = HashOf(r, n).start
      /\ HashOf(q, m).end = HashOf(r, n).end
  OBVIOUS
<1>2. /\ q.customer = r.customer /\ q.vehicle = r.vehicle /\ q.dealership = r.dealership
      /\ q.service = r.service /\ q.start = r.start /\ q.start + m = r.start + n
  BY <1>1 DEF HashOf
<1>3. q.start \in Nat /\ r.start \in Nat
  BY RequestTypes
<1>4. QED
  BY <1>2, <1>3

\* A hash under a duration that the service has had is one of the request hashes.
LEMMA HashType ==
  ASSUME NEW r \in Requests, NEW n \in Nat
  PROVE  HashOf(r, n) \in RequestHashes
BY RequestTypes DEF HashOf, RequestHashes

-----------------------------------------------------------------------------
(* The invariant: upkeep. *)

\* Durations as they were, and no attempt begun.
LEMMA InitIndInv == Init => IndInv
<1> SUFFICES ASSUME Init PROVE IndInv
  OBVIOUS
<1>1. TypeOK
  <2>1. SeedAppointments \subseteq AppointmentRows(AppointmentIds)
    BY BookingDataAssumption DEF AppointmentRows, AppointmentIds
  <2>2. \A s \in Services : DurationMinutes[s] \in Nat \ {0}
    BY SchedulingAssumption
  <2>3. 0 \in 0 .. MaxClock /\ 0 \in 0 .. MaxClock + Retention
    BY UpkeepAssumption
  <2>4. QED
    BY <2>1, <2>2, <2>3, AnswerTypes, SchedulingAssumption DEF Init, TypeOK
<1>2. \A a \in Attempts : ~Books(a) /\ pc[a] = "service" /\ answer[a].outcome = "none"
  <2>1. \A row \in SeedAppointments : row.id \notin Attempts
    BY BookingDataAssumption DEF AppointmentRows
  <2>2. QED
    BY <2>1 DEF Init, Books, Pending
<1>3. DurationsWereSet /\ HashesAreOfRequests
  BY <1>2 DEF Init, DurationsWereSet, HashesAreOfRequests
<1>4. RowsAreOfRequests
  BY <1>2, BookingDataAssumption DEF Init, RowsAreOfRequests, Books
<1>5. RecordsAreOfBookings
  BY DEF Init, RecordsAreOfBookings
<1>6. ClaimsAreFresh /\ RetriesFollowBookings /\ RecordsStay /\ RebookingNeedsExpiry
  BY <1>2 DEF ClaimsAreFresh, RetriesFollowBookings, RecordsStay, RebookingNeedsExpiry
<1>7. AnswersAreOfRequests /\ ConflictHasCause
  BY <1>2 DEF AnswersAreOfRequests, ConflictHasCause
<1>8. QED
  BY <1>1, <1>3, <1>4, <1>5, <1>6, <1>7 DEF IndInv

\* A duration is edited: whatever was in use stays one that the service has had, and
\* a service that has been edited has had another duration than the one it has now.
LEMMA EditStep ==
  ASSUME IndInv, NEW e \in Edits, Edit(e[1], e[2])
  PROVE  IndInv'
<1>a. /\ TypeOK /\ DurationsWereSet /\ HashesAreOfRequests /\ RowsAreOfRequests
      /\ RecordsAreOfBookings /\ ClaimsAreFresh /\ RetriesFollowBookings /\ RecordsStay
      /\ AnswersAreOfRequests /\ ConflictHasCause /\ RebookingNeedsExpiry
  BY DEF IndInv
<1> DEFINE s == e[1]
           to == e[2]
<1>b. /\ s \in Services /\ to \in Nat \ {0} /\ to \notin edited[s]
      /\ duration' = [duration EXCEPT ![s] = to]
      /\ edited' = [edited EXCEPT ![s] = edited[s] \cup {to}]
      /\ UNCHANGED <<request, appointments, idempotency, answer, clock, pc, hash, expires,
                     minutes, found>>
  BY UpkeepAssumption DEF Edit
<1>1. /\ duration'[s] = to /\ edited'[s] = edited[s] \cup {to}
      /\ \A t \in Services \ {s} : duration'[t] = duration[t] /\ edited'[t] = edited[t]
      /\ \A t \in Services : edited[t] \subseteq edited'[t]
  BY <1>a, <1>b DEF TypeOK
<1>2. TypeOK'
  BY <1>a, <1>b DEF TypeOK
<1>3. \A a \in Attempts : request[a].service \in Services
  BY <1>a, RequestTypes DEF TypeOK
<1>4. DurationsWereSet' /\ HashesAreOfRequests' /\ RowsAreOfRequests'
  <2>1. DurationsWereSet'
    BY <1>a, <1>b, <1>1, <1>3 DEF DurationsWereSet
  <2>2. HashesAreOfRequests'
    BY <1>a, <1>b, <1>1, <1>3 DEF HashesAreOfRequests
  <2>3. RowsAreOfRequests'
    BY <1>a, <1>b, <1>1, <1>3 DEF RowsAreOfRequests
  <2>4. QED
    BY <2>1, <2>2, <2>3
<1>5. /\ RecordsAreOfBookings' /\ ClaimsAreFresh' /\ RetriesFollowBookings' /\ RecordsStay'
      /\ RebookingNeedsExpiry'
  BY <1>a, <1>b DEF RecordsAreOfBookings, ClaimsAreFresh, RetriesFollowBookings, RecordsStay,
     RebookingNeedsExpiry, Books, RecordsFor, KeyWait
<1>6. AnswersAreOfRequests'
  BY <1>a, <1>b, <1>1, <1>3 DEF AnswersAreOfRequests
<1>7. ConflictHasCause'
  <2> SUFFICES ASSUME NEW a \in Attempts, answer[a].outcome = "conflict",
                      edited'[request[a].service] = {duration'[request[a].service]}
               PROVE  \E b \in Attempts : request[b].key = request[a].key
                                          /\ request[b] # request[a]
    BY <1>b DEF ConflictHasCause
  <2>1. duration[s] \in edited[s] /\ duration[s] # to
    BY <1>a, <1>b DEF DurationsWereSet
  <2>2. request[a].service # s
    BY <1>1, <2>1
  <2>3. edited[request[a].service] = {duration[request[a].service]}
    BY <1>1, <1>3, <2>2
  <2>4. QED
    BY <1>a, <2>3 DEF ConflictHasCause
<1>8. QED
  BY <1>2, <1>4, <1>5, <1>6, <1>7 DEF IndInv

\* Time passes: what has expired stays so.
LEMMA TickStep ==
  ASSUME IndInv, Tick
  PROVE  IndInv'
<1>a. /\ TypeOK /\ DurationsWereSet /\ HashesAreOfRequests /\ RowsAreOfRequests
      /\ RecordsAreOfBookings /\ ClaimsAreFresh /\ RetriesFollowBookings /\ RecordsStay
      /\ AnswersAreOfRequests /\ ConflictHasCause /\ RebookingNeedsExpiry
  BY DEF IndInv
<1>b. /\ clock' = clock + 1 /\ clock' \in 0 .. MaxClock
      /\ UNCHANGED <<request, tables, answer, pc, hash, expires, minutes, found, edited>>
  BY <1>a, UpkeepAssumption DEF Tick, TypeOK
<1>1. TypeOK'
  BY <1>a, <1>b DEF TypeOK, tables
<1>2. \A a \in Attempts : expires[a] \in Nat /\ clock \in Nat
  BY <1>a, UpkeepAssumption DEF TypeOK
<1>3. \A a \in Attempts : expires'[a] = expires[a]
                          /\ (expires[a] < clock => expires[a] < clock')
                          /\ (expires[a] >= clock' => expires[a] >= clock)
  BY <1>b, <1>2
<1>4. /\ DurationsWereSet' /\ HashesAreOfRequests' /\ RowsAreOfRequests'
      /\ RecordsAreOfBookings' /\ RetriesFollowBookings' /\ AnswersAreOfRequests'
      /\ ConflictHasCause'
  BY <1>a, <1>b DEF DurationsWereSet, HashesAreOfRequests, RowsAreOfRequests,
     RecordsAreOfBookings, RetriesFollowBookings, AnswersAreOfRequests, ConflictHasCause,
     Books, tables
<1>5. ClaimsAreFresh'
  BY <1>a, <1>b, <1>3 DEF ClaimsAreFresh, Books, RecordsFor, KeyWait, tables
<1>6. RecordsStay'
  BY <1>a, <1>b, <1>3 DEF RecordsStay, Books, tables
<1>7. RebookingNeedsExpiry'
  BY <1>a, <1>b, <1>3 DEF RebookingNeedsExpiry, Books, tables
<1>8. QED
  BY <1>1, <1>4, <1>5, <1>6, <1>7 DEF IndInv

\* The cleanup removes the records of bookings that have expired, no other.
LEMMA DeleteExpiredStep ==
  ASSUME IndInv, DeleteExpired
  PROVE  IndInv'
<1>a. /\ TypeOK /\ DurationsWereSet /\ HashesAreOfRequests /\ RowsAreOfRequests
      /\ RecordsAreOfBookings /\ ClaimsAreFresh /\ RetriesFollowBookings /\ RecordsStay
      /\ AnswersAreOfRequests /\ ConflictHasCause /\ RebookingNeedsExpiry
  BY DEF IndInv
<1>b. /\ idempotency' = {rec \in idempotency : ~(expires[rec.appointment] < clock)}
      /\ UNCHANGED <<request, appointments, answer, duration, clock, pc, hash, expires,
                     minutes, found, edited>>
  BY DEF DeleteExpired, Expired
<1>1. idempotency' \subseteq idempotency
  BY <1>b
<1>2. TypeOK'
  BY <1>a, <1>b, <1>1 DEF TypeOK
<1>3. /\ DurationsWereSet' /\ HashesAreOfRequests' /\ RowsAreOfRequests'
      /\ RetriesFollowBookings' /\ AnswersAreOfRequests' /\ ConflictHasCause'
      /\ RebookingNeedsExpiry'
  BY <1>a, <1>b DEF DurationsWereSet, HashesAreOfRequests, RowsAreOfRequests,
     RetriesFollowBookings, AnswersAreOfRequests, ConflictHasCause, RebookingNeedsExpiry, Books
<1>4. RecordsAreOfBookings'
  BY <1>a, <1>b, <1>1 DEF RecordsAreOfBookings, Books
<1>5. ClaimsAreFresh'
  BY <1>a, <1>b, <1>1 DEF ClaimsAreFresh, Books, RecordsFor, KeyWait
<1>6. RecordsStay'
  <2> SUFFICES ASSUME NEW a \in Attempts, Books(a), expires[a] >= clock
               PROVE  \E rec \in idempotency' : rec.appointment = a
    BY <1>b DEF RecordsStay, Books
  <2>1. PICK rec \in idempotency : rec.appointment = a
    BY <1>a DEF RecordsStay
  <2>2. ~(expires[a] < clock)
    BY <1>a, UpkeepAssumption DEF TypeOK
  <2>3. QED
    BY <1>b, <2>1, <2>2
<1>7. QED
  BY <1>2, <1>3, <1>4, <1>5, <1>6 DEF IndInv

-----------------------------------------------------------------------------
(* The invariant: an attempt. *)

\* The hash is made under the duration of the moment.
LEMMA HashRequestStep ==
  ASSUME IndInv, NEW a \in Attempts, HashRequest(a)
  PROVE  IndInv'
<1>a. /\ TypeOK /\ DurationsWereSet /\ HashesAreOfRequests /\ RowsAreOfRequests
      /\ RecordsAreOfBookings /\ ClaimsAreFresh /\ RetriesFollowBookings /\ RecordsStay
      /\ AnswersAreOfRequests /\ ConflictHasCause /\ RebookingNeedsExpiry
  BY DEF IndInv
<1> DEFINE n == duration[request[a].service]
<1>b. /\ pc[a] = "service" /\ pc' = [pc EXCEPT ![a] = "begin"]
      /\ hash' = [hash EXCEPT ![a] = HashOf(request[a], n)]
      /\ UNCHANGED <<request, appointments, idempotency, duration, answer, clock, expires,
                     minutes, found, edited>>
  BY HashUnder DEF HashRequest, Goto, tables
<1>1. request[a] \in Requests /\ n \in Nat /\ n \in edited[request[a].service]
  BY <1>a, RequestTypes DEF TypeOK, DurationsWereSet
<1>2. HashOf(request[a], n) \in RequestHashes /\ HashOf(request[a], n) # Null
  BY <1>1, HashType, UpkeepAssumption
<1>3. /\ pc'[a] = "begin" /\ hash'[a] = HashOf(request[a], n)
      /\ \A b \in Attempts \ {a} : pc'[b] = pc[b] /\ hash'[b] = hash[b]
  BY <1>a, <1>b DEF TypeOK
<1>4. TypeOK'
  <2>1. /\ hash' \in [Attempts -> RequestHashes \cup {Null}]
        /\ pc' \in [Attempts -> {"service", "begin", "claim", "lookup", "replay", "duration",
                                 "book", "end"}]
    BY <1>a, <1>b, <1>2 DEF TypeOK
  <2>2. \A b \in Attempts : hash'[b] = Null <=> pc'[b] = "service"
    BY <1>a, <1>2, <1>3 DEF TypeOK
  <2>3. QED
    BY <1>a, <1>b, <2>1, <2>2 DEF TypeOK
<1>5. \A b \in Attempts : Books(b) => b # a
  BY <1>a, <1>b DEF RowsAreOfRequests, Books
<1>6. DurationsWereSet' /\ HashesAreOfRequests' /\ RowsAreOfRequests'
  BY <1>a, <1>b, <1>1, <1>3, <1>5
  DEF DurationsWereSet, HashesAreOfRequests, RowsAreOfRequests, Books
<1>7. RecordsAreOfBookings' /\ RetriesFollowBookings' /\ RecordsStay'
  BY <1>a, <1>b, <1>3, <1>5 DEF RecordsAreOfBookings, RetriesFollowBookings, RecordsStay, Books
<1>8. ClaimsAreFresh'
  BY <1>a, <1>b, <1>3 DEF ClaimsAreFresh, Books, RecordsFor, KeyWait
<1>9. AnswersAreOfRequests' /\ ConflictHasCause' /\ RebookingNeedsExpiry'
  BY <1>a, <1>b DEF AnswersAreOfRequests, ConflictHasCause, RebookingNeedsExpiry, Books
<1>10. QED
  BY <1>4, <1>6, <1>7, <1>8, <1>9 DEF IndInv

\* The expiry is drawn.
LEMMA BeginStep ==
  ASSUME IndInv, NEW a \in Attempts, Begin(a)
  PROVE  IndInv'
<1>a. /\ TypeOK /\ DurationsWereSet /\ HashesAreOfRequests /\ RowsAreOfRequests
      /\ RecordsAreOfBookings /\ ClaimsAreFresh /\ RetriesFollowBookings /\ RecordsStay
      /\ AnswersAreOfRequests /\ ConflictHasCause /\ RebookingNeedsExpiry
  BY DEF IndInv
<1>b. /\ pc[a] = "begin" /\ pc' = [pc EXCEPT ![a] = "claim"]
      /\ expires' = [expires EXCEPT ![a] = clock + Retention]
      /\ UNCHANGED <<request, appointments, idempotency, duration, answer, clock, hash,
                     minutes, found, edited>>
  BY DEF Begin, Goto, tables
<1>1. /\ pc'[a] = "claim"
      /\ \A b \in Attempts \ {a} : pc'[b] = pc[b] /\ expires'[b] = expires[b]
  BY <1>a, <1>b DEF TypeOK
<1>2. TypeOK'
  <2>1. clock + Retention \in 0 .. MaxClock + Retention
    BY <1>a, UpkeepAssumption DEF TypeOK
  <2>2. QED
    BY <1>a, <1>b, <2>1 DEF TypeOK
<1>3. \A b \in Attempts : Books(b) => b # a
  BY <1>a, <1>b DEF RowsAreOfRequests, Books
<1>4. /\ DurationsWereSet' /\ HashesAreOfRequests' /\ RowsAreOfRequests'
      /\ RecordsAreOfBookings' /\ RetriesFollowBookings'
  BY <1>a, <1>b, <1>1, <1>3 DEF DurationsWereSet, HashesAreOfRequests, RowsAreOfRequests,
     RecordsAreOfBookings, RetriesFollowBookings, Books
<1>5. RecordsStay'
  BY <1>a, <1>b, <1>1, <1>3 DEF RecordsStay, Books
<1>6. ClaimsAreFresh'
  BY <1>a, <1>b, <1>1, <1>3 DEF ClaimsAreFresh, Books, RecordsFor, KeyWait
<1>7. AnswersAreOfRequests' /\ ConflictHasCause'
  BY <1>a, <1>b DEF AnswersAreOfRequests, ConflictHasCause
<1>8. RebookingNeedsExpiry'
  BY <1>a, <1>b, <1>1, <1>3 DEF RebookingNeedsExpiry, Books
<1>9. QED
  BY <1>2, <1>4, <1>5, <1>6, <1>7, <1>8 DEF IndInv

\* A claim finds a record, and who made it; or it finds none, and then whoever has
\* booked under the key has expired.
LEMMA ClaimKeyStep ==
  ASSUME IndInv, NEW a \in Attempts, ClaimKey(a)
  PROVE  IndInv'
<1>a. /\ TypeOK /\ DurationsWereSet /\ HashesAreOfRequests /\ RowsAreOfRequests
      /\ RecordsAreOfBookings /\ ClaimsAreFresh /\ RetriesFollowBookings /\ RecordsStay
      /\ AnswersAreOfRequests /\ ConflictHasCause /\ RebookingNeedsExpiry
  BY DEF IndInv
<1>b. /\ pc[a] = "claim" /\ KeyWait(a) = {}
      /\ pc' = [pc EXCEPT ![a] = IF RecordsFor(a) = {} THEN "duration" ELSE "lookup"]
      /\ UNCHANGED <<request, appointments, idempotency, duration, answer, clock, hash,
                     expires, minutes, found, edited>>
  BY DEF ClaimKey, Goto, tables
<1>1. /\ pc'[a] = IF RecordsFor(a) = {} THEN "duration" ELSE "lookup"
      /\ \A b \in Attempts \ {a} : pc'[b] = pc[b]
  BY <1>a, <1>b DEF TypeOK
<1>2. TypeOK'
  BY <1>a, <1>b DEF TypeOK
<1>3. \A b \in Attempts : (Books(b)' <=> Books(b)) /\ RecordsFor(b)' = RecordsFor(b)
  BY <1>b DEF Books, RecordsFor
<1>4. \A b \in Attempts : Books(b) => b # a
  BY <1>a, <1>b DEF RowsAreOfRequests, Books
<1>5. DurationsWereSet' /\ HashesAreOfRequests' /\ RowsAreOfRequests'
  BY <1>a, <1>b, <1>1, <1>4 DEF DurationsWereSet, HashesAreOfRequests, RowsAreOfRequests, Books
<1>6. RecordsAreOfBookings' /\ RecordsStay' /\ RebookingNeedsExpiry'
  BY <1>a, <1>b DEF RecordsAreOfBookings, RecordsStay, RebookingNeedsExpiry, Books
<1>7. AnswersAreOfRequests' /\ ConflictHasCause'
  BY <1>a, <1>b DEF AnswersAreOfRequests, ConflictHasCause
<1>8. ClaimsAreFresh'
  <2>1. CASE RecordsFor(a) = {}
    <3>1. \A b \in Attempts :
            Books(b) /\ request[b].key = request[a].key => expires[b] < clock
      <4> SUFFICES ASSUME NEW b \in Attempts, Books(b), request[b].key = request[a].key,
                          expires[b] >= clock
                   PROVE  FALSE
        BY <1>a, UpkeepAssumption DEF TypeOK
      <4>1. PICK rec \in idempotency : rec.appointment = b
        BY <1>a DEF RecordsStay
      <4>2. rec.key = request[b].key
        BY <1>a, <4>1 DEF RecordsAreOfBookings
      <4>3. QED
        BY <2>1, <4>2 DEF RecordsFor
    <3>2. \A b \in Attempts \ {a} :
            pc[b] \in {"duration", "book"} => request[b].key # request[a].key
      BY <1>b DEF KeyWait
    <3>3. KeyWait(a)' = {}
      BY <1>b, <1>1, <3>2 DEF KeyWait
    <3>4. \A b \in Attempts \ {a} : pc[b] \in {"duration", "book"} => KeyWait(b)' = {}
      BY <1>a, <1>b, <1>1, <3>2 DEF ClaimsAreFresh, KeyWait
    <3>5. QED
      BY <1>a, <1>b, <1>1, <1>3, <2>1, <3>1, <3>3, <3>4 DEF ClaimsAreFresh
  <2>2. CASE RecordsFor(a) # {}
    BY <1>a, <1>b, <1>1, <1>3, <2>2 DEF ClaimsAreFresh, KeyWait
  <2>3. QED
    BY <2>1, <2>2
<1>9. RetriesFollowBookings'
  <2>1. RecordsFor(a) # {} => \E b \in Attempts : Books(b) /\ request[b].key = request[a].key
    BY <1>a DEF RecordsAreOfBookings, RecordsFor
  <2>2. QED
    BY <1>a, <1>b, <1>1, <1>3, <2>1 DEF RetriesFollowBookings
<1>10. QED
  BY <1>2, <1>5, <1>6, <1>7, <1>8, <1>9 DEF IndInv

\* A lookup that finds the hash of its own finds a booking to replay.
LEMMA LookUpFindsStep ==
  ASSUME IndInv, NEW a \in Attempts, pc[a] = "lookup",
         NEW rec \in RecordsFor(a), SameRequest(a, rec),
         found' = [found EXCEPT ![a] = rec.appointment], Goto(a, "replay"),
         UNCHANGED <<request, answer, duration, clock, hash, expires, minutes, edited,
                     appointments, idempotency>>
  PROVE  IndInv'
<1>a. /\ TypeOK /\ DurationsWereSet /\ HashesAreOfRequests /\ RowsAreOfRequests
      /\ RecordsAreOfBookings /\ ClaimsAreFresh /\ RetriesFollowBookings /\ RecordsStay
      /\ AnswersAreOfRequests /\ ConflictHasCause /\ RebookingNeedsExpiry
  BY DEF IndInv
<1>1. /\ pc'[a] = "replay" /\ found'[a] = rec.appointment
      /\ \A b \in Attempts \ {a} : pc'[b] = pc[b] /\ found'[b] = found[b]
  BY <1>a DEF TypeOK, Goto
<1>2. PICK b \in Attempts : rec.appointment = b /\ Books(b) /\ rec.hash = hash[b]
  BY <1>a DEF RecordsAreOfBookings, RecordsFor
<1>3. TypeOK'
  BY <1>a, <1>2 DEF TypeOK, Goto, AppointmentIds
<1>4. RetriesFollowBookings'
  <2>1. found'[a] = b /\ Books(b)' /\ hash'[b] = hash'[a]
    BY <1>1, <1>2 DEF SameRequest, Books
  <2>2. \A c \in Attempts : Books(c)' <=> Books(c)
    BY DEF Books
  <2>3. \A c \in Attempts \ {a} :
          pc'[c] = "replay" =>
            \E d \in Attempts : found'[c] = d /\ Books(d) /\ hash[d] = hash[c]
    BY <1>a, <1>1 DEF RetriesFollowBookings
  <2>4. \A c \in Attempts :
          pc'[c] = "lookup" => \E d \in Attempts : Books(d) /\ request[d].key = request[c].key
    BY <1>a, <1>1 DEF RetriesFollowBookings
  <2>5. QED
    BY <2>1, <2>2, <2>3, <2>4 DEF RetriesFollowBookings
<1>5. \A c \in Attempts : Books(c) => c # a
  BY <1>a DEF RowsAreOfRequests, Books
<1>6. DurationsWereSet' /\ HashesAreOfRequests' /\ RowsAreOfRequests'
  BY <1>a, <1>1, <1>5 DEF DurationsWereSet, HashesAreOfRequests, RowsAreOfRequests, Books
<1>7. /\ RecordsAreOfBookings' /\ RecordsStay' /\ RebookingNeedsExpiry'
      /\ AnswersAreOfRequests' /\ ConflictHasCause'
  BY <1>a DEF RecordsAreOfBookings, RecordsStay, RebookingNeedsExpiry, AnswersAreOfRequests,
     ConflictHasCause, Books
<1>8. ClaimsAreFresh'
  BY <1>a, <1>1 DEF ClaimsAreFresh, KeyWait, RecordsFor, Books
<1>9. QED
  BY <1>3, <1>4, <1>6, <1>7, <1>8 DEF IndInv

\* The duration is read again.
LEMMA ReadDurationStep ==
  ASSUME IndInv, NEW a \in Attempts, ReadDuration(a)
  PROVE  IndInv'
<1>a. /\ TypeOK /\ DurationsWereSet /\ HashesAreOfRequests /\ RowsAreOfRequests
      /\ RecordsAreOfBookings /\ ClaimsAreFresh /\ RetriesFollowBookings /\ RecordsStay
      /\ AnswersAreOfRequests /\ ConflictHasCause /\ RebookingNeedsExpiry
  BY DEF IndInv
<1> DEFINE n == duration[request[a].service]
<1>b. /\ pc[a] = "duration" /\ pc' = [pc EXCEPT ![a] = "book"]
      /\ minutes' = [minutes EXCEPT ![a] = n]
      /\ UNCHANGED <<request, appointments, idempotency, duration, answer, clock, hash,
                     expires, found, edited>>
  BY DEF ReadDuration, Goto, tables
<1>1. /\ pc'[a] = "book" /\ minutes'[a] = n
      /\ \A b \in Attempts \ {a} : pc'[b] = pc[b] /\ minutes'[b] = minutes[b]
  BY <1>a, <1>b DEF TypeOK
<1>2. n \in Nat /\ n \in edited[request[a].service]
  BY <1>a, RequestTypes DEF TypeOK, DurationsWereSet
<1>3. TypeOK'
  BY <1>a, <1>b, <1>2 DEF TypeOK
<1>4. DurationsWereSet'
  BY <1>a, <1>b, <1>1, <1>2 DEF DurationsWereSet
<1>5. \A b \in Attempts : Books(b) => b # a
  BY <1>a, <1>b DEF RowsAreOfRequests, Books
<1>6. HashesAreOfRequests' /\ RowsAreOfRequests'
  BY <1>a, <1>b, <1>1, <1>5 DEF HashesAreOfRequests, RowsAreOfRequests, Books
<1>7. /\ RecordsAreOfBookings' /\ RetriesFollowBookings' /\ RecordsStay'
      /\ AnswersAreOfRequests' /\ ConflictHasCause' /\ RebookingNeedsExpiry'
  BY <1>a, <1>b, <1>1 DEF RecordsAreOfBookings, RetriesFollowBookings, RecordsStay,
     AnswersAreOfRequests, ConflictHasCause, RebookingNeedsExpiry, Books
<1>8. ClaimsAreFresh'
  BY <1>a, <1>b, <1>1 DEF ClaimsAreFresh, KeyWait, RecordsFor, Books
<1>9. QED
  BY <1>3, <1>4, <1>6, <1>7, <1>8 DEF IndInv

\* An attempt ends without writing to the tables: what it answers has to be true.
LEMMA ReturnStep ==
  ASSUME IndInv, NEW a \in Attempts, pc[a] \notin {"service", "end"},
         NEW what \in Answers, Return(a, what), UNCHANGED <<appointments, idempotency>>,
         what.outcome = "confirmed" =>
           LET row == what.appointment
               r == request[a]
           IN  /\ row \in appointments
               /\ <<row.customer, row.vehicle, row.dealership, row.service, row.start>>
                    = <<r.customer, r.vehicle, r.dealership, r.service, r.start>>
               /\ \E n \in edited[r.service] : row.end = row.start + n,
         what.outcome = "conflict" =>
           \/ edited[request[a].service] # {duration[request[a].service]}
           \/ \E b \in Attempts : request[b].key = request[a].key /\ request[b] # request[a]
  PROVE  IndInv'
<1>a. /\ TypeOK /\ DurationsWereSet /\ HashesAreOfRequests /\ RowsAreOfRequests
      /\ RecordsAreOfBookings /\ ClaimsAreFresh /\ RetriesFollowBookings /\ RecordsStay
      /\ AnswersAreOfRequests /\ ConflictHasCause /\ RebookingNeedsExpiry
  BY DEF IndInv
<1>b. /\ answer' = [answer EXCEPT ![a] = what] /\ pc' = [pc EXCEPT ![a] = "end"]
      /\ minutes' = [minutes EXCEPT ![a] = 0] /\ found' = [found EXCEPT ![a] = Null]
      /\ UNCHANGED <<request, duration, clock, hash, expires, edited>>
  BY DEF Return, Goto
<1>1. /\ answer'[a] = what /\ pc'[a] = "end"
      /\ \A b \in Attempts \ {a} : /\ answer'[b] = answer[b] /\ pc'[b] = pc[b]
                                   /\ minutes'[b] = minutes[b] /\ found'[b] = found[b]
  BY <1>a, <1>b DEF TypeOK
<1>2. TypeOK'
  <2>1. /\ pc' \in [Attempts -> {"service", "begin", "claim", "lookup", "replay", "duration",
                                 "book", "end"}]
        /\ minutes' \in [Attempts -> Nat]
        /\ found' \in [Attempts -> AppointmentIds \cup {Null}]
    BY <1>a, <1>b DEF TypeOK
  <2>2. \A b \in Attempts : hash'[b] = Null <=> pc'[b] = "service"
    BY <1>a, <1>b, <1>1 DEF TypeOK
  <2>3. QED
    BY <1>a, <1>b, <2>1, <2>2 DEF TypeOK
<1>3. DurationsWereSet' /\ HashesAreOfRequests' /\ RowsAreOfRequests'
  BY <1>a, <1>b, <1>1 DEF DurationsWereSet, HashesAreOfRequests, RowsAreOfRequests
<1>4. /\ RecordsAreOfBookings' /\ RetriesFollowBookings' /\ RecordsStay'
      /\ RebookingNeedsExpiry'
  BY <1>a, <1>b, <1>1 DEF RecordsAreOfBookings, RetriesFollowBookings, RecordsStay,
     RebookingNeedsExpiry, Books
<1>5. ClaimsAreFresh'
  BY <1>a, <1>b, <1>1 DEF ClaimsAreFresh, KeyWait, RecordsFor, Books
<1>6. AnswersAreOfRequests'
  BY <1>a, <1>b, <1>1 DEF AnswersAreOfRequests
<1>7. ConflictHasCause'
  <2>1. \A c \in Attempts \ {a} :
          answer'[c].outcome = "conflict" =>
            \/ edited[request[c].service] # {duration[request[c].service]}
            \/ \E b \in Attempts : request[b].key = request[c].key /\ request[b] # request[c]
    BY <1>a, <1>1 DEF ConflictHasCause
  <2>2. answer'[a].outcome = "conflict" =>
          \/ edited[request[a].service] # {duration[request[a].service]}
          \/ \E b \in Attempts : request[b].key = request[a].key /\ request[b] # request[a]
    BY <1>1
  <2>3. \A c \in Attempts :
          answer'[c].outcome = "conflict" =>
            \/ edited[request[c].service] # {duration[request[c].service]}
            \/ \E b \in Attempts : request[b].key = request[c].key /\ request[b] # request[c]
    BY <2>1, <2>2
  <2>4. QED
    BY <1>b, <2>3 DEF ConflictHasCause
<1>8. QED
  BY <1>2, <1>3, <1>4, <1>5, <1>6, <1>7 DEF IndInv

\* Two hashes of one request differ only where its duration has been edited.
LEMMA ConflictCause ==
  ASSUME IndInv, NEW a \in Attempts, pc[a] = "lookup", NEW rec \in RecordsFor(a),
         ~SameRequest(a, rec)
  PROVE  \/ edited[request[a].service] # {duration[request[a].service]}
         \/ \E b \in Attempts : request[b].key = request[a].key /\ request[b] # request[a]
<1>1. PICK b \in Attempts : Books(b) /\ rec.key = request[b].key /\ rec.hash = hash[b]
  BY DEF IndInv, RecordsAreOfBookings, RecordsFor
<1>2. pc[b] = "end"
  BY <1>1 DEF IndInv, RowsAreOfRequests, Books
<1>3. PICK m \in edited[request[a].service] : hash[a] = HashOf(request[a], m)
  BY DEF IndInv, HashesAreOfRequests
<1>4. PICK n \in edited[request[b].service] : hash[b] = HashOf(request[b], n)
  BY <1>2 DEF IndInv, HashesAreOfRequests
<1>5. request[b] = request[a] => m # n
  BY <1>1, <1>3, <1>4 DEF SameRequest
<1>6. request[b].key = request[a].key
  BY <1>1 DEF RecordsFor
<1>7. QED
  BY <1>3, <1>4, <1>5, <1>6

\* The lookup.
LEMMA LookUpStep ==
  ASSUME IndInv, NEW a \in Attempts, LookUp(a)
  PROVE  IndInv'
<1>1. pc[a] = "lookup" /\ UNCHANGED <<appointments, idempotency>>
  BY DEF LookUp
<1>2. PICK rec \in RecordsFor(a) :
        \/ /\ SameRequest(a, rec)
           /\ found' = [found EXCEPT ![a] = rec.appointment]
           /\ Goto(a, "replay")
           /\ UNCHANGED <<request, answer, duration, clock, hash, expires, minutes, edited>>
        \/ ~SameRequest(a, rec) /\ Return(a, Refused("conflict"))
  BY DEF LookUp
<1>3. CASE SameRequest(a, rec)
  BY <1>1, <1>2, <1>3, LookUpFindsStep
<1>4. CASE ~SameRequest(a, rec)
  <2>1. Refused("conflict") \in Answers /\ Refused("conflict").outcome = "conflict"
    BY AnswerTypes DEF Refusals, Refused
  <2>2. QED
    BY <1>1, <1>2, <1>4, <2>1, ConflictCause, ReturnStep
<1>5. QED
  BY <1>3, <1>4

\* An attempt ends with a refusal that is no conflict.
LEMMA RefusedStep ==
  ASSUME IndInv, NEW a \in Attempts,
         LookUpMisses(a) \/ FindNothing(a) \/ Fail(a)
  PROVE  IndInv'
<1>1. PICK outcome \in {"error", "no_availability"} : Return(a, Refused(outcome))
  BY DEF LookUpMisses, FindNothing, Fail
<1>2. pc[a] \notin {"service", "end"} /\ UNCHANGED <<appointments, idempotency>>
  BY DEF LookUpMisses, FindNothing, Fail
<1>3. /\ Refused(outcome) \in Answers
      /\ Refused(outcome).outcome \notin {"confirmed", "conflict"}
  BY AnswerTypes DEF Refusals, Refused
<1>4. QED
  BY <1>1, <1>2, <1>3, ReturnStep

\* The booking that is replayed has the hash of this request, and so its fields.
LEMMA ReplayStep ==
  ASSUME IndInv, NEW a \in Attempts, Replay(a)
  PROVE  IndInv'
<1>1. pc[a] = "replay" /\ UNCHANGED <<appointments, idempotency>>
  BY DEF Replay
<1>2. PICK row \in appointments : row.id = found[a] /\ Return(a, Confirmed(row))
  BY DEF Replay
<1>3. PICK b \in Attempts : found[a] = b /\ Books(b) /\ hash[b] = hash[a]
  BY <1>1 DEF IndInv, RetriesFollowBookings
<1>4. request[a] \in Requests /\ request[b] \in Requests
  BY DEF IndInv, TypeOK
<1>5. \A s \in Services : edited[s] \subseteq Nat
  BY DEF IndInv, TypeOK
<1>6. PICK m \in edited[request[a].service] : hash[a] = HashOf(request[a], m)
  BY <1>1 DEF IndInv, HashesAreOfRequests
<1>7. pc[b] = "end"
  BY <1>3 DEF IndInv, RowsAreOfRequests, Books
<1>8. PICK n \in edited[request[b].service] : hash[b] = HashOf(request[b], n)
  BY <1>7 DEF IndInv, HashesAreOfRequests
<1>9. m \in Nat /\ n \in Nat
  BY <1>4, <1>5, <1>6, <1>8, RequestTypes
<1>10. <<request[b].customer, request[b].vehicle, request[b].dealership, request[b].service,
         request[b].start>>
         = <<request[a].customer, request[a].vehicle, request[a].dealership,
             request[a].service, request[a].start>>
  BY <1>3, <1>4, <1>6, <1>8, <1>9, SameHash
<1>11. /\ <<row.customer, row.vehicle, row.dealership, row.service, row.start>>
            = <<request[b].customer, request[b].vehicle, request[b].dealership,
                request[b].service, request[b].start>>
       /\ \E k \in edited[request[b].service] : row.end = row.start + k
  BY <1>2, <1>3 DEF IndInv, RowsAreOfRequests
<1>12. /\ Confirmed(row).outcome = "confirmed" /\ Confirmed(row).appointment = row
       /\ Confirmed(row) \in Answers
  BY <1>2, AnswerTypes DEF IndInv, TypeOK, Confirmed
<1>13. QED
  BY <1>1, <1>2, <1>10, <1>11, <1>12, ReturnStep

\* A booking: the attempt holds the key, so all that was booked under it has expired.
LEMMA BookStep ==
  ASSUME IndInv, NEW a \in Attempts, Book(a)
  PROVE  IndInv'
<1>a. /\ TypeOK /\ DurationsWereSet /\ HashesAreOfRequests /\ RowsAreOfRequests
      /\ RecordsAreOfBookings /\ ClaimsAreFresh /\ RetriesFollowBookings /\ RecordsStay
      /\ AnswersAreOfRequests /\ ConflictHasCause /\ RebookingNeedsExpiry
  BY DEF IndInv
<1> DEFINE r == request[a]
           rules == [duration EXCEPT ![r.service] = minutes[a]]
           free == Under(rules)!AvailableTechnicians(appointments, r)
           freeBays == Under(rules)!AvailableBays(appointments, r)
           row == Under(rules)!AppointmentFor(a, r, First(free), First(freeBays))
           rec == [key |-> r.key, hash |-> hash[a], status |-> "completed",
                   appointment |-> a]
<1>b. /\ pc[a] = "book" /\ free # {} /\ freeBays # {}
      /\ appointments' = appointments \cup {row}
      /\ idempotency' = idempotency \cup {rec}
  BY DEF Book
<1>c. PICK what \in {Confirmed(row), Refused("error")} : Return(a, what)
  BY DEF Book
<1>d. /\ answer' = [answer EXCEPT ![a] = what] /\ pc' = [pc EXCEPT ![a] = "end"]
      /\ minutes' = [minutes EXCEPT ![a] = 0] /\ found' = [found EXCEPT ![a] = Null]
      /\ UNCHANGED <<request, duration, clock, hash, expires, edited>>
  BY <1>c DEF Return, Goto
<1>1. r \in Requests /\ r.service \in Services
  BY <1>a, RequestTypes DEF TypeOK
<1>2. minutes[a] \in edited[r.service] /\ minutes[a] \in Nat \ {0}
  BY <1>a, <1>b, <1>1 DEF DurationsWereSet, TypeOK
<1>3. rules \in [Services -> Nat \ {0}] /\ rules[r.service] = minutes[a]
  BY <1>a, <1>1, <1>2 DEF TypeOK
<1> HIDE DEF rules, free, freeBays, row
<1>4. /\ row \in AppointmentRows(AppointmentIds) /\ row.id = a
      /\ <<row.customer, row.vehicle, row.dealership, row.service, row.start>>
           = <<r.customer, r.vehicle, r.dealership, r.service, r.start>>
      /\ row.end = row.start + minutes[a]
  BY <1>b, <1>1, <1>3, BookingUnder DEF free, freeBays, row
<1>5. rec \in IdempotencyRows
  BY <1>a, <1>b, <1>1, RequestTypes DEF TypeOK, IdempotencyRows, AppointmentIds
<1>6. /\ answer'[a] = what /\ pc'[a] = "end"
      /\ \A b \in Attempts \ {a} : /\ answer'[b] = answer[b] /\ pc'[b] = pc[b]
                                   /\ minutes'[b] = minutes[b] /\ found'[b] = found[b]
  BY <1>a, <1>d DEF TypeOK
<1>7. TypeOK'
  <2>1. what \in Answers
    BY <1>4, AnswerTypes DEF Refusals
  <2>2. /\ pc' \in [Attempts -> {"service", "begin", "claim", "lookup", "replay", "duration",
                                 "book", "end"}]
        /\ minutes' \in [Attempts -> Nat]
        /\ found' \in [Attempts -> AppointmentIds \cup {Null}]
        /\ answer' \in [Attempts -> Answers]
    BY <1>a, <1>d, <2>1 DEF TypeOK
  <2>3. \A b \in Attempts : hash'[b] = Null <=> pc'[b] = "service"
    BY <1>a, <1>b, <1>d, <1>6 DEF TypeOK
  <2>4. appointments' \subseteq AppointmentRows(AppointmentIds)
        /\ idempotency' \subseteq IdempotencyRows
    BY <1>a, <1>b, <1>4, <1>5 DEF TypeOK
  <2>5. QED
    BY <1>a, <1>d, <2>2, <2>3, <2>4 DEF TypeOK
<1>8. ~Books(a) /\ RecordsFor(a) = {} /\ KeyWait(a) = {}
  BY <1>a, <1>b DEF RowsAreOfRequests, ClaimsAreFresh, Books
<1>9. \A b \in Attempts : Books(b)' <=> Books(b) \/ b = a
  BY <1>b, <1>4 DEF Books
<1>10. DurationsWereSet' /\ HashesAreOfRequests'
  BY <1>a, <1>b, <1>d, <1>6 DEF DurationsWereSet, HashesAreOfRequests
<1>11. RowsAreOfRequests'
  <2>1. \A x, y \in appointments' : x.id = y.id => x = y
    BY <1>a, <1>b, <1>4, <1>8 DEF RowsAreOfRequests, Books
  <2>2. \A b \in Attempts : \A x \in appointments :
          x.id = b =>
            /\ pc'[b] = "end"
            /\ <<x.customer, x.vehicle, x.dealership, x.service, x.start>>
                 = <<request[b].customer, request[b].vehicle, request[b].dealership,
                     request[b].service, request[b].start>>
            /\ \E n \in edited[request[b].service] : x.end = x.start + n
    BY <1>a, <1>6 DEF RowsAreOfRequests
  <2>3. QED
    BY <1>b, <1>2, <1>4, <1>d, <1>6, <2>1, <2>2 DEF RowsAreOfRequests
<1>12. RecordsAreOfBookings'
  <2>1. \A x \in idempotency : x.key # r.key
    BY <1>8 DEF RecordsFor
  <2>2. \A x, y \in idempotency' : x.key = y.key => x = y
    BY <1>a, <1>b, <2>1 DEF RecordsAreOfBookings
  <2>3. \A x \in idempotency : \E b \in Attempts :
          /\ x.appointment = b /\ Books(b)'
          /\ x.key = request'[b].key /\ x.hash = hash'[b]
    BY <1>a, <1>d, <1>9 DEF RecordsAreOfBookings
  <2>4. /\ rec.appointment = a /\ Books(a)'
        /\ rec.key = request'[a].key /\ rec.hash = hash'[a]
    BY <1>d, <1>9
  <2>5. QED
    BY <1>b, <2>2, <2>3, <2>4 DEF RecordsAreOfBookings
<1>13. ClaimsAreFresh'
  <2> SUFFICES ASSUME NEW b \in Attempts \ {a}, pc[b] \in {"duration", "book"}
               PROVE  /\ RecordsFor(b)' = {}
                      /\ KeyWait(b)' = {}
                      /\ \A c \in Attempts :
                           Books(c)' /\ request[c].key = request[b].key => expires[c] < clock
    BY <1>6, <1>d DEF ClaimsAreFresh
  <2>1. request[b].key # r.key
    BY <1>8 DEF KeyWait
  <2>2. RecordsFor(b)' = {}
    BY <1>a, <1>b, <1>d, <2>1 DEF ClaimsAreFresh, RecordsFor
  <2>3. KeyWait(b)' = {}
    BY <1>a, <1>d, <1>6 DEF ClaimsAreFresh, KeyWait
  <2>4. QED
    BY <1>a, <1>9, <2>1, <2>2, <2>3 DEF ClaimsAreFresh
<1>14. RetriesFollowBookings'
  BY <1>a, <1>d, <1>6, <1>9 DEF RetriesFollowBookings
<1>15. RecordsStay'
  <2>1. \A b \in Attempts \ {a} :
          Books(b) /\ expires[b] >= clock => \E x \in idempotency : x.appointment = b
    BY <1>a DEF RecordsStay
  <2>2. rec \in idempotency' /\ rec.appointment = a /\ idempotency \subseteq idempotency'
    BY <1>b
  <2>3. QED
    BY <1>d, <1>9, <2>1, <2>2 DEF RecordsStay
<1>16. AnswersAreOfRequests'
  <2>1. what.outcome = "confirmed" => what.appointment = row
    BY DEF Confirmed, Refused
  <2>2. row \in appointments'
    BY <1>b
  <2>3. \A b \in Attempts \ {a} :
          answer'[b].outcome = "confirmed" =>
            LET x == answer'[b].appointment
                q == request[b]
            IN  /\ x \in appointments'
                /\ <<x.customer, x.vehicle, x.dealership, x.service, x.start>>
                     = <<q.customer, q.vehicle, q.dealership, q.service, q.start>>
                /\ \E n \in edited[q.service] : x.end = x.start + n
    BY <1>a, <1>b, <1>6 DEF AnswersAreOfRequests
  <2>4. QED
    BY <1>d, <1>2, <1>4, <1>6, <2>1, <2>2, <2>3 DEF AnswersAreOfRequests
<1>17. ConflictHasCause'
  <2>1. what.outcome # "conflict"
    BY DEF Confirmed, Refused
  <2>2. QED
    BY <1>a, <1>d, <1>6, <2>1 DEF ConflictHasCause
<1>18. RebookingNeedsExpiry'
  <2>1. \A b \in Attempts : Books(b) /\ request[b].key = r.key => expires[b] < clock
    BY <1>a, <1>b DEF ClaimsAreFresh
  <2>2. QED
    BY <1>a, <1>d, <1>9, <2>1 DEF RebookingNeedsExpiry
<1>19. QED
  BY <1>7, <1>10, <1>11, <1>12, <1>13, <1>14, <1>15, <1>16, <1>17, <1>18 DEF IndInv

-----------------------------------------------------------------------------
(* The theorems. *)

\* One lemma for each kind of step.
LEMMA Inductive == IndInv /\ [Next]_vars => IndInv'
<1> SUFFICES ASSUME IndInv, [Next]_vars PROVE IndInv'
  OBVIOUS
<1>1. CASE \E e \in Edits : Edit(e[1], e[2])
  BY <1>1, EditStep
<1>2. CASE Tick \/ DeleteExpired
  BY <1>2, TickStep, DeleteExpiredStep
<1>3. CASE \E a \in Attempts : HashRequest(a) \/ Begin(a) \/ ClaimKey(a) \/ ReadDuration(a)
  BY <1>3, HashRequestStep, BeginStep, ClaimKeyStep, ReadDurationStep
<1>4. CASE \E a \in Attempts : LookUp(a) \/ Replay(a) \/ Book(a)
  BY <1>4, LookUpStep, ReplayStep, BookStep
<1>5. CASE \E a \in Attempts : LookUpMisses(a) \/ FindNothing(a) \/ Fail(a)
  BY <1>5, RefusedStep
<1>6. CASE UNCHANGED vars
  BY <1>6 DEF vars, tables, IndInv, TypeOK, DurationsWereSet, HashesAreOfRequests,
     RowsAreOfRequests, RecordsAreOfBookings, ClaimsAreFresh, RetriesFollowBookings,
     RecordsStay, AnswersAreOfRequests, ConflictHasCause, RebookingNeedsExpiry, Books,
     RecordsFor, KeyWait
<1>7. QED
  BY <1>1, <1>2, <1>3, <1>4, <1>5, <1>6 DEF Next

\* The invariant holds of every behaviour: the basis of what follows.
THEOREM Invariance == Spec => []IndInv
BY InitIndInv, Inductive, PTL DEF Spec

\* Every variable keeps its type: TypeOK.
THEOREM TypeCorrect == Spec => []TypeOK
BY Invariance, PTL DEF IndInv

\* CreateAppointment answers 201 only with a committed booking of what was asked, for a
\* time that the service has taken: AnswersAreOfRequests.
THEOREM AnsweredAsAsked == Spec => []AnswersAreOfRequests
BY Invariance, PTL DEF IndInv

\* ErrIdempotencyConflict is answered for a reason: ConflictHasCause.
THEOREM ConflictExplained == Spec => []ConflictHasCause
BY Invariance, PTL DEF IndInv

\* No key books twice within its retention: RebookingNeedsExpiry.
THEOREM KeysOutliveRetries == Spec => []RebookingNeedsExpiry
BY Invariance, PTL DEF IndInv

\* DeleteExpiredIdempotencyRequests never takes a record that a retry within the
\* retention would need: RetainedUntilExpiry.
THEOREM RecordsRetained == Spec => []RetainedUntilExpiry
<1>1. IndInv => RetainedUntilExpiry
  <2> SUFFICES ASSUME IndInv, NEW a \in Attempts, Books(a), expires[a] >= clock
               PROVE  /\ {rec.appointment : rec \in RecordsFor(a)} = {a}
                      /\ \A rec \in RecordsFor(a) : rec.hash = hash[a]
    BY DEF RetainedUntilExpiry
  <2>1. PICK rec \in idempotency : rec.appointment = a
    BY DEF IndInv, RecordsStay
  <2>2. rec.key = request[a].key /\ rec.hash = hash[a]
    BY <2>1 DEF IndInv, RecordsAreOfBookings
  <2>3. RecordsFor(a) = {rec}
    BY <2>2 DEF IndInv, RecordsAreOfBookings, RecordsFor
  <2>4. QED
    BY <2>1, <2>2, <2>3
<1>2. QED
  BY <1>1, Invariance, PTL

\* GetIdempotencyRequest misses the record that the claim has found only after a booking
\* under the key has expired: GapNeedsExpiry.
THEOREM GapExplained == Spec => GapNeedsExpiry
<1> DEFINE Gap(a) == LookUpMisses(a) =>
                       \E b \in Attempts : /\ request[b].key = request[a].key
                                           /\ Books(b) /\ expires[b] < clock
<1>1. IndInv => \A a \in Attempts : Gap(a)
  <2> SUFFICES ASSUME IndInv, NEW a \in Attempts, LookUpMisses(a)
               PROVE  \E b \in Attempts : /\ request[b].key = request[a].key
                                          /\ Books(b) /\ expires[b] < clock
    OBVIOUS
  <2>1. PICK b \in Attempts : Books(b) /\ request[b].key = request[a].key
    BY DEF LookUpMisses, IndInv, RetriesFollowBookings
  <2>2. expires[b] >= clock =>
          \E rec \in idempotency : rec.appointment = b /\ rec.key = request[b].key
    BY <2>1 DEF IndInv, RecordsStay, RecordsAreOfBookings
  <2>3. ~(expires[b] >= clock)
    BY <2>1, <2>2 DEF LookUpMisses, RecordsFor
  <2>4. expires[b] < clock
    BY <2>3, UpkeepAssumption DEF IndInv, TypeOK
  <2>5. QED
    BY <2>1, <2>4
<1>2. QED
  BY <1>1, Invariance, PTL DEF GapNeedsExpiry

=============================================================================
