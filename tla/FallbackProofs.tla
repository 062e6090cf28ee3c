--------------------------- MODULE FallbackProofs ---------------------------
(***************************************************************************)
(* Statements committed one by one: what holds of FallbackBooking for any  *)
(* number of attempts, requests and failures, and that it implements       *)
(* AtomicBooking.                                                          *)
(***************************************************************************)
EXTENDS FallbackBooking, BookingLemmas

-----------------------------------------------------------------------------
(* The inductive invariant. *)

\* Statements of an attempt that has claimed its key.
Holding == {"technicians", "bays", "insert", "complete"}

\* Who may have claimed a key.
Claimant(a) ==
  \/ pc[a] \in Holding
  \/ pc[a] = "end" /\ answer[a].outcome \in {"confirmed", "error", "no_availability"}

SameKey(a, b) == request[a].key = request[b].key

\* What GetServiceType lets pass.
Valid(a) == request[a].service \in Services /\ request[a].key # EmptyKey

\* What an attempt is answered, it is answered last; it gets past GetServiceType
\* with a key and a service that exists.
Progress ==
  \A a \in Attempts :
    /\ pc[a] # "end" => answer[a] = Pending
    /\ pc[a] \notin {"service", "end"} => Valid(a)

\* Whatever was not given has been found.
Supplied(a) ==
  /\ given[a].technician = Null => technicians[a] # {}
  /\ given[a].bay = Null => bays[a] # {}

\* Both lists hold whom the request may have; an empty one has its cause.
Selections ==
  \A a \in Attempts :
    /\ \A t \in technicians[a] : Qualified(t, request[a])
    /\ \A b \in bays[a] : Compatible(b, request[a])
    /\ pc[a] = "insert" => Supplied(a)
    /\ pc[a] = "bays" /\ technicians[a] = {} => Contested(appointments, request[a])

\* An attempt has at most one row, of what it asked for, after InsertRow.
Bookings ==
  /\ \A x, y \in appointments : x.id = y.id => x = y
  /\ \A a \in Attempts :
       /\ Booked(a) # {} => pc[a] \in {"complete", "end"}
       /\ pc[a] = "complete" => Booked(a) # {}
       /\ \A row \in Booked(a) : BooksAsGiven(row, a)

\* A key has at most one record, and it is that of a claimant, complete only once
\* the row is there.
Claims ==
  /\ \A x, y \in idempotency : x.key = y.key => x = y
  /\ \A rec \in idempotency : \E a \in Attempts :
       /\ Claimant(a)
       /\ \/ rec = ClaimedRow(a)
          \/ rec = BookedRow(a, a) /\ Booked(a) # {}

\* A key has one holder at most, who has not booked before, nor anybody else with
\* the key; and it is taken for good once it has booked.
KeysBookOnce ==
  /\ \A a \in Attempts : pc[a] \in Holding => ClaimedRow(a) \in idempotency
  /\ \A a \in Attempts : Booked(a) # {} => KeyTaken(a)
  /\ \A a, b \in Attempts :
       /\ SameKey(a, b)
       /\ pc[a] \in Holding \/ Booked(a) # {}
       /\ pc[b] \in Holding \/ Booked(b) # {}
       => a = b

\* A replay follows a complete record of its own request.
ReplaysFollowRecords ==
  \A a \in Attempts :
    pc[a] = "replay" => \E b \in Attempts : BookedRow(a, b) \in idempotency

\* A refusal that names another request is about a claimant of the key.
RefusalsFollowClaims ==
  \A a \in Attempts :
    answer[a].outcome \in {"in_progress", "conflict"} =>
      \E b \in Attempts \ {a} :
        /\ Claimant(b) /\ SameKey(a, b)
        /\ InputHash(b) = InputHash(a)
             <=> answer[a].outcome = "in_progress"

IndInv ==
  /\ TypeOK
  /\ Progress
  /\ Selections
  /\ Bookings
  /\ Claims
  /\ KeysBookOnce
  /\ ReplaysFollowRecords
  /\ RefusalsFollowClaims
  /\ ConfirmationsAreKept

-----------------------------------------------------------------------------
(* Facts about the operators. *)

\* Seeds are nobody's bookings.
LEMMA InitIndInv == Init => IndInv
<1> SUFFICES ASSUME Init PROVE IndInv
  OBVIOUS
<1>1. TypeOK
  <2>1. SeedAppointments \subseteq AppointmentRows(AppointmentIds)
    BY BookingDataAssumption DEF AppointmentRows, AppointmentIds
  <2>2. 0 \in 0 .. MaxFailures
    BY FallbackBookingAssumption
  <2>3. request \in [Attempts -> Requests] /\ given \in [Attempts -> Choices]
    <3>1. PICK inputs \in [Attempts -> Inputs] :
            /\ request = [a \in Attempts |-> inputs[a].request]
            /\ given = [a \in Attempts |-> inputs[a].given]
      BY DEF Init
    <3>2. \A i \in Inputs : i.request \in Requests /\ i.given \in Choices
      BY FallbackBookingAssumption
    <3>3. QED
      BY <3>1, <3>2
  <2>4. QED
    BY <2>1, <2>2, <2>3, AnswerTypes DEF Init, TypeOK, Statements
<1>2. \A a \in Attempts : /\ pc[a] = "service" /\ answer[a] = Pending
                          /\ technicians[a] = {} /\ bays[a] = {} /\ Booked(a) = {}
  <2>1. \A row \in SeedAppointments : row.id \notin Attempts
    BY BookingDataAssumption DEF AppointmentRows
  <2>2. QED
    BY <2>1 DEF Init, Booked
<1>3. Progress /\ Selections
  BY <1>2 DEF Progress, Selections
<1>4. Bookings
  BY <1>2, BookingDataAssumption DEF Init, Bookings
<1>5. Claims /\ KeysBookOnce
  BY <1>2 DEF Init, Claims, KeysBookOnce, Holding
<1>6. ReplaysFollowRecords /\ RefusalsFollowClaims /\ ConfirmationsAreKept
  BY <1>2 DEF ReplaysFollowRecords, RefusalsFollowClaims, ConfirmationsAreKept, Pending
<1>7. QED
  BY <1>1, <1>3, <1>4, <1>5, <1>6 DEF IndInv

\* A record says whose it is by its key, and by its status how far that one came.
LEMMA RecordFields ==
  ASSUME NEW a, NEW id
  PROVE  /\ ClaimedRow(a).key = request[a].key /\ ClaimedRow(a).hash = InputHash(a)
         /\ ClaimedRow(a).status = "in_progress" /\ ClaimedRow(a).appointment = Null
         /\ BookedRow(a, id).key = request[a].key /\ BookedRow(a, id).hash = InputHash(a)
         /\ BookedRow(a, id).status = "completed" /\ BookedRow(a, id).appointment = id
BY DEF ClaimedRow, BookedRow

\* What is made of the input stays with it.
LEMMA InputStays ==
  ASSUME UNCHANGED input
  PROVE  /\ request' = request /\ given' = given
         /\ \A a : ClaimedRow(a)' = ClaimedRow(a) /\ InputHash(a)' = InputHash(a)
         /\ \A a, id : BookedRow(a, id)' = BookedRow(a, id)
         /\ \A a, t, b : AsGiven(a, t, b)' = AsGiven(a, t, b)
         /\ \A a, row : BooksAsGiven(row, a)' = BooksAsGiven(row, a)
         /\ \A a : Valid(a)' = Valid(a)
BY DEF input, ClaimedRow, BookedRow, InputHash, AsGiven, BooksAsGiven, Valid

\* The records of a claim and of a booking are records.
LEMMA RecordTypes ==
  ASSUME TypeOK, NEW a \in Attempts, request[a].service \in Services
  PROVE  ClaimedRow(a) \in InputRows /\ BookedRow(a, a) \in InputRows
<1>1. ServiceEnd(request[a]) \in Nat /\ request[a] \in Requests /\ given[a] \in Choices
  BY BookingDataAssumption, SchedulingAssumption DEF ServiceEnd, TypeOK
<1>2. RequestHash(request[a]) \in RequestHashes
  BY <1>1, BookingDataAssumption DEF RequestHashes, RequestHash
<1>3. request[a].key \in Keys /\ a \in AppointmentIds
  BY <1>1, BookingDataAssumption DEF AppointmentIds
<1>4. QED
  BY <1>1, <1>2, <1>3 DEF ClaimedRow, BookedRow, InputHash, InputRows

\* The row that is about to be inserted is for the input.
LEMMA CandidateAsGiven ==
  ASSUME IndInv, NEW a \in Attempts, pc[a] = "insert"
  PROVE  \E t \in Technicians, b \in Bays :
           /\ AsGiven(a, t, b)
           /\ Candidate(a) = AppointmentFor(a, request[a], t, b)
           /\ Candidate(a) \in AppointmentRows(AppointmentIds)
           /\ Candidate(a).id = a
           /\ BooksAsGiven(Candidate(a), a)
<1>1. /\ technicians[a] \subseteq Technicians /\ bays[a] \subseteq Bays
      /\ given[a] \in Choices
  BY DEF IndInv, TypeOK
<1>2. /\ given[a].technician = Null =>
           First(technicians[a]) \in technicians[a]
      /\ given[a].bay = Null => First(bays[a]) \in bays[a]
  BY <1>1, FirstInSet, SchedulingAssumption DEF IndInv, Selections, Supplied
<1>3. request[a] \in Requests /\ request[a].service \in Services
  BY DEF IndInv, TypeOK, Progress, Valid
<1>4. /\ Technician(a) \in Technicians
      /\ IF given[a].technician = Null THEN Qualified(Technician(a), request[a])
         ELSE Technician(a) = given[a].technician
  BY <1>1, <1>2 DEF Technician, Choices, IndInv, Selections
<1>5. /\ Bay(a) \in Bays
      /\ IF given[a].bay = Null THEN Compatible(Bay(a), request[a])
         ELSE Bay(a) = given[a].bay
  BY <1>1, <1>2 DEF Bay, Choices, IndInv, Selections
<1>6. AsGiven(a, Technician(a), Bay(a))
  BY <1>4, <1>5 DEF AsGiven
<1>7. Candidate(a) \in AppointmentRows(AppointmentIds) /\ Candidate(a).id = a
  BY <1>3, <1>4, <1>5, AppointmentForType DEF Candidate, AppointmentFor
<1>8. BooksAsGiven(Candidate(a), a)
  BY <1>4, <1>5, <1>6, <1>7 DEF BooksAsGiven, Candidate
<1>9. QED
  BY <1>4, <1>5, <1>6, <1>7, <1>8 DEF Candidate

-----------------------------------------------------------------------------
(* The invariant. *)

\* What an attempt does to its own pc, answer and lists, as opposed to the tables:
\* it goes on, or is told what ends it.
Moves(a, next, what) ==
  /\ pc[a] # "end"
  /\ pc' = [pc EXCEPT ![a] = next]
  /\ answer' = [answer EXCEPT ![a] = what]
  /\ technicians' \in [Attempts -> SUBSET Technicians]
  /\ bays' \in [Attempts -> SUBSET Bays]
  /\ \A b \in Attempts \ {a} : technicians'[b] = technicians[b] /\ bays'[b] = bays[b]
  /\ UNCHANGED input
  /\ failures' \in 0 .. MaxFailures
  /\ next \in Statements \ {"service"} => what = Pending /\ Valid(a)

\* An attempt that returns has ended, and is answered, alone.
LEMMA ReturnMoves ==
  ASSUME TypeOK, NEW a \in Attempts, NEW what, pc[a] # "end", Return(a, what),
         failures' \in 0 .. MaxFailures
  PROVE  /\ Moves(a, "end", what)
         /\ technicians'[a] = {} /\ bays'[a] = {}
<1>1. /\ technicians' = [technicians EXCEPT ![a] = {}] /\ bays' = [bays EXCEPT ![a] = {}]
      /\ pc' = [pc EXCEPT ![a] = "end"] /\ answer' = [answer EXCEPT ![a] = what]
      /\ UNCHANGED input
  BY DEF Return, Goto
<1>2. /\ technicians' \in [Attempts -> SUBSET Technicians]
      /\ bays' \in [Attempts -> SUBSET Bays]
  BY <1>1 DEF TypeOK
<1>3. /\ technicians'[a] = {} /\ bays'[a] = {}
      /\ \A b \in Attempts \ {a} : technicians'[b] = technicians[b] /\ bays'[b] = bays[b]
  BY <1>1 DEF TypeOK
<1>4. QED
  BY <1>1, <1>2, <1>3 DEF Moves, Statements

\* The parts that are about pc, answer and the lists.
LEMMA MoveStep ==
  ASSUME IndInv, NEW a \in Attempts, NEW next \in Statements \cup {"end"},
         next # "service", NEW what \in Answers, Moves(a, next, what),
         appointments \subseteq appointments',
         appointments' \subseteq AppointmentRows(AppointmentIds),
         idempotency' \subseteq InputRows,
         \A t \in technicians'[a] : Qualified(t, request[a]),
         \A b \in bays'[a] : Compatible(b, request[a]),
         next = "insert" => Supplied(a)',
         next = "bays" /\ technicians'[a] = {} => Contested(appointments, request[a])
  PROVE  /\ TypeOK' /\ Progress' /\ Selections'
         /\ pc'[a] = next /\ answer'[a] = what
         /\ \A b \in Attempts \ {a} : pc'[b] = pc[b] /\ answer'[b] = answer[b]
<1>a. /\ TypeOK /\ Progress /\ Selections /\ Bookings /\ Claims /\ KeysBookOnce
      /\ ReplaysFollowRecords /\ RefusalsFollowClaims /\ ConfirmationsAreKept
  BY DEF IndInv
<1>1. /\ pc'[a] = next /\ answer'[a] = what
      /\ \A b \in Attempts \ {a} : pc'[b] = pc[b] /\ answer'[b] = answer[b]
  BY <1>a DEF Moves, TypeOK
<1>2. TypeOK'
  BY <1>a DEF Moves, TypeOK, input
<1>3. Progress'
  BY <1>a, <1>1, InputStays DEF Moves, Progress
<1>4. Selections'
  <2>1. \A b \in Attempts \ {a} :
          /\ \A t \in technicians'[b] : Qualified(t, request'[b])
          /\ \A c \in bays'[b] : Compatible(c, request'[b])
          /\ pc'[b] = "insert" => Supplied(b)'
    BY <1>a, <1>1, InputStays DEF Moves, Selections, Supplied
  <2>2. \A b \in Attempts \ {a} :
          pc'[b] = "bays" /\ technicians'[b] = {} => Contested(appointments, request'[b])
    BY <1>a, <1>1, InputStays DEF Moves, Selections
  <2>3. \A b \in Attempts :
          Contested(appointments, request'[b]) => Contested(appointments', request'[b])
    BY ContestedGrows
  <2>4. request'[a] = request[a]
    BY DEF Moves, input
  <2>5. QED
    BY <1>1, <2>1, <2>2, <2>3, <2>4 DEF Selections
<1>5. QED
  BY <1>1, <1>2, <1>3, <1>4

\* A claimant stays one: it goes on to its end, and that is no refusal that somebody
\* else's claim would explain.
LEMMA ClaimantsStay ==
  ASSUME NEW a \in Attempts, NEW next, NEW what,
         pc'[a] = next, answer'[a] = what,
         \A b \in Attempts \ {a} : pc'[b] = pc[b] /\ answer'[b] = answer[b],
         pc[a] # "end",
         pc[a] \in Holding =>
           \/ next \in Holding
           \/ next = "end" /\ what.outcome \in {"confirmed", "error", "no_availability"}
  PROVE  \A b \in Attempts : Claimant(b) => Claimant(b)'
<1>1. Claimant(a) => Claimant(a)'
  BY DEF Claimant
<1>2. \A b \in Attempts \ {a} : Claimant(b) => Claimant(b)'
  BY DEF Claimant
<1>3. QED
  BY <1>1, <1>2

\* A refusal about a claim stays so for whoever has been told; whoever is told now
\* has been looked after.
LEMMA RefusalsStay ==
  ASSUME RefusalsFollowClaims, NEW a \in Attempts, NEW what, UNCHANGED input,
         answer'[a] = what,
         \A b \in Attempts \ {a} : answer'[b] = answer[b],
         \A b \in Attempts : Claimant(b) => Claimant(b)',
         what.outcome \in {"in_progress", "conflict"} =>
           \E b \in Attempts \ {a} :
             /\ Claimant(b) /\ SameKey(a, b)
             /\ InputHash(b) = InputHash(a)
                  <=> what.outcome = "in_progress"
  PROVE  RefusalsFollowClaims'
<1> SUFFICES ASSUME NEW c \in Attempts, answer'[c].outcome \in {"in_progress", "conflict"}
             PROVE  \E b \in Attempts \ {c} :
                      /\ Claimant(b)' /\ SameKey(c, b)'
                      /\ InputHash(b)' = InputHash(c)'
                           <=> answer'[c].outcome = "in_progress"
  BY DEF RefusalsFollowClaims
<1>1. PICK b \in Attempts \ {c} :
        /\ Claimant(b) /\ SameKey(c, b)
        /\ InputHash(b) = InputHash(c)
             <=> answer'[c].outcome = "in_progress"
  <2>1. CASE c = a
    BY <2>1
  <2>2. CASE c # a
    BY <2>2 DEF RefusalsFollowClaims
  <2>3. QED
    BY <2>1, <2>2
<1>2. Claimant(b)' /\ SameKey(c, b)'
  BY <1>1, InputStays DEF SameKey
<1>3. QED
  BY <1>1, <1>2, InputStays

\* A confirmation stays true as rows are added and complete records kept.
LEMMA ConfirmationsStay ==
  ASSUME ConfirmationsAreKept, NEW a \in Attempts, NEW what, UNCHANGED input,
         answer'[a] = what,
         \A b \in Attempts \ {a} : answer'[b] = answer[b],
         appointments \subseteq appointments',
         \A rec \in idempotency : rec.status = "completed" => rec \in idempotency',
         what.outcome = "confirmed" =>
           \E row \in appointments' :
             /\ what = Confirmed(row)
             /\ BooksAsGiven(row, a)
             /\ BookedRow(a, row.id) \in idempotency'
  PROVE  ConfirmationsAreKept'
<1> SUFFICES ASSUME NEW c \in Attempts, answer'[c].outcome = "confirmed"
             PROVE  \E row \in appointments' :
                      /\ answer'[c] = Confirmed(row)
                      /\ BooksAsGiven(row, c)
                      /\ BookedRow(c, row.id) \in idempotency'
  BY InputStays DEF ConfirmationsAreKept
<1>1. CASE c = a
  BY <1>1
<1>2. CASE c # a
  <2>1. PICK row \in appointments :
          /\ answer[c] = Confirmed(row)
          /\ BooksAsGiven(row, c)
          /\ BookedRow(c, row.id) \in idempotency
    BY <1>2 DEF ConfirmationsAreKept
  <2>2. BookedRow(c, row.id) \in idempotency'
    BY <2>1, RecordFields
  <2>3. QED
    BY <1>2, <2>1, <2>2
<1>3. QED
  BY <1>1, <1>2

\* A step that leaves both tables alone.
LEMMA QuietStep ==
  ASSUME IndInv, NEW a \in Attempts, NEW next \in (Statements \cup {"end"}) \ {"service"},
         next # "complete", NEW what \in Answers, Moves(a, next, what), UNCHANGED tables,
         \A t \in technicians'[a] : Qualified(t, request[a]),
         \A b \in bays'[a] : Compatible(b, request[a]),
         next = "insert" => Supplied(a)',
         next = "bays" /\ technicians'[a] = {} => Contested(appointments, request[a]),
         next \in Holding => pc[a] \in Holding,
         pc[a] = "complete" => next = "end",
         pc[a] \in Holding =>
           \/ next \in Holding
           \/ next = "end" /\ what.outcome \in {"confirmed", "error", "no_availability"},
         next = "replay" => \E b \in Attempts : BookedRow(a, b) \in idempotency,
         what.outcome \in {"in_progress", "conflict"} =>
           \E b \in Attempts \ {a} :
             /\ Claimant(b) /\ SameKey(a, b)
             /\ InputHash(b) = InputHash(a)
                  <=> what.outcome = "in_progress",
         what.outcome = "confirmed" =>
           \E row \in appointments :
             /\ what = Confirmed(row)
             /\ BooksAsGiven(row, a)
             /\ BookedRow(a, row.id) \in idempotency
  PROVE  IndInv'
<1>a. /\ TypeOK /\ Progress /\ Selections /\ Bookings /\ Claims /\ KeysBookOnce
      /\ ReplaysFollowRecords /\ RefusalsFollowClaims /\ ConfirmationsAreKept
  BY DEF IndInv
<1>b. /\ UNCHANGED input /\ request' = request
      /\ appointments' = appointments /\ idempotency' = idempotency
      /\ pc[a] # "end"
  BY InputStays DEF Moves, tables
<1>1. /\ TypeOK' /\ Progress' /\ Selections'
      /\ pc'[a] = next /\ answer'[a] = what
      /\ \A b \in Attempts \ {a} : pc'[b] = pc[b] /\ answer'[b] = answer[b]
  <2>1. /\ appointments \subseteq appointments'
        /\ appointments' \subseteq AppointmentRows(AppointmentIds)
        /\ idempotency' \subseteq InputRows
    BY <1>a, <1>b DEF TypeOK
  <2>2. QED
    BY <2>1, MoveStep
<1>2. \A b \in Attempts : Booked(b)' = Booked(b) /\ (KeyTaken(b)' <=> KeyTaken(b))
  BY <1>b DEF Booked, KeyTaken
<1>3. \A b \in Attempts : Claimant(b) => Claimant(b)'
  BY <1>b, <1>1, ClaimantsStay
<1>4. Bookings'
  <2>1. \A b \in Attempts \ {a} :
          /\ Booked(b)' # {} => pc'[b] \in {"complete", "end"}
          /\ pc'[b] = "complete" => Booked(b)' # {}
    BY <1>a, <1>1, <1>2 DEF Bookings
  <2>2. Booked(a)' # {} => next = "end"
    BY <1>a, <1>b, <1>2 DEF Bookings
  <2>3. QED
    BY <1>a, <1>b, <1>1, <1>2, <2>1, <2>2, InputStays DEF Bookings
<1>5. Claims'
  BY <1>a, <1>b, <1>2, <1>3, InputStays DEF Claims
<1>6. KeysBookOnce'
  <2>1. \A b \in Attempts : pc'[b] \in Holding => pc[b] \in Holding
    BY <1>1
  <2>2. QED
    BY <1>a, <1>b, <1>2, <2>1, InputStays DEF KeysBookOnce, SameKey
<1>7. ReplaysFollowRecords'
  BY <1>a, <1>b, <1>1, InputStays DEF ReplaysFollowRecords
<1>8. RefusalsFollowClaims'
  BY <1>a, <1>b, <1>1, <1>3, RefusalsStay
<1>9. ConfirmationsAreKept'
  BY <1>a, <1>b, <1>1, ConfirmationsStay
<1>10. QED
  BY <1>1, <1>4, <1>5, <1>6, <1>7, <1>8, <1>9 DEF IndInv

\* A key is claimed, whether or not the claimant hears of it.
LEMMA WriteClaimStep ==
  ASSUME IndInv, NEW a \in Attempts, pc[a] = "claim", WriteClaim(a),
         NEW next \in {"technicians", "insert", "end"},
         next = "insert" => Supplied(a)', NEW what \in {Pending, Refused("error")},
         next = "end" => what = Refused("error"), Moves(a, next, what),
         \A t \in technicians'[a] : Qualified(t, request[a]),
         \A b \in bays'[a] : Compatible(b, request[a])
  PROVE  IndInv'
<1>a. /\ TypeOK /\ Progress /\ Selections /\ Bookings /\ Claims /\ KeysBookOnce
      /\ ReplaysFollowRecords /\ RefusalsFollowClaims /\ ConfirmationsAreKept
  BY DEF IndInv
<1> DEFINE claimed == ClaimedRow(a)
<1>b. /\ UNCHANGED input /\ request' = request /\ appointments' = appointments
      /\ idempotency' = idempotency \cup {claimed} /\ ~KeyTaken(a)
  BY InputStays DEF Moves, WriteClaim
<1>c. request[a] \in Requests /\ request[a].service \in Services
  BY <1>a DEF TypeOK, Progress, Valid
<1>d. what \in Answers /\ what.outcome \notin {"in_progress", "conflict", "confirmed"}
  BY AnswerTypes DEF Refusals, Refused, Pending
<1>1. /\ TypeOK' /\ Progress' /\ Selections'
      /\ pc'[a] = next /\ answer'[a] = what
      /\ \A b \in Attempts \ {a} : pc'[b] = pc[b] /\ answer'[b] = answer[b]
  <2>1. /\ appointments \subseteq appointments'
        /\ appointments' \subseteq AppointmentRows(AppointmentIds)
        /\ idempotency' \subseteq InputRows
    BY <1>a, <1>b, <1>c, RecordTypes DEF TypeOK
  <2>2. next \in Statements \cup {"end"} /\ next \notin {"service", "bays"}
    BY DEF Statements
  <2>3. QED
    BY <1>d, <2>1, <2>2, MoveStep
<1>2. \A b \in Attempts : Booked(b)' = Booked(b) /\ (KeyTaken(b) => KeyTaken(b)')
  BY <1>b DEF Booked, KeyTaken
<1>3. \A b \in Attempts : Claimant(b) => Claimant(b)'
  <2>1. pc[a] \notin Holding
    BY DEF Holding
  <2>2. QED
    BY <1>1, <2>1, ClaimantsStay
<1>4. Claimant(a)'
  BY <1>1 DEF Claimant, Holding, Refused
<1>5. Bookings'
  <2>1. Booked(a) = {}
    BY <1>a DEF Bookings
  <2>2. QED
    BY <1>a, <1>b, <1>1, <1>2, <2>1, InputStays DEF Bookings
<1>6. Claims'
  <2>1. \A x \in idempotency : x.key # claimed.key
    BY <1>b, RecordFields DEF KeyTaken
  <2>2. \A x, y \in idempotency' : x.key = y.key => x = y
    BY <1>a, <1>b, <2>1 DEF Claims
  <2>3. \A rec \in idempotency : \E b \in Attempts :
          /\ Claimant(b)'
          /\ \/ rec = ClaimedRow(b)
             \/ rec = BookedRow(b, b) /\ Booked(b)' # {}
    BY <1>a, <1>2, <1>3 DEF Claims
  <2>4. QED
    BY <1>b, <1>4, <2>2, <2>3, InputStays DEF Claims
<1>7. KeysBookOnce'
  <2>1. \A b \in Attempts \ {a} :
          SameKey(a, b) => pc[b] \notin Holding /\ Booked(b) = {}
    <3>1. \A b \in Attempts : SameKey(a, b) => ~KeyTaken(b)
      BY <1>b DEF KeyTaken, SameKey
    <3>2. \A b \in Attempts : pc[b] \in Holding => KeyTaken(b)
      <4> SUFFICES ASSUME NEW b \in Attempts, pc[b] \in Holding PROVE KeyTaken(b)
        OBVIOUS
      <4>1. ClaimedRow(b) \in idempotency
        BY <1>a DEF KeysBookOnce
      <4>2. ClaimedRow(b).key = request[b].key
        BY RecordFields
      <4>3. QED
        BY <4>1, <4>2 DEF KeyTaken
    <3>3. QED
      BY <1>a, <3>1, <3>2 DEF KeysBookOnce
  <2>2. \A b \in Attempts : pc'[b] \in Holding => ClaimedRow(b) \in idempotency'
    BY <1>a, <1>b, <1>1 DEF KeysBookOnce
  <2>3. \A b \in Attempts : Booked(b)' # {} => KeyTaken(b)'
    BY <1>a, <1>2 DEF KeysBookOnce
  <2>4. ASSUME NEW b \in Attempts, NEW c \in Attempts, SameKey(b, c),
               pc'[b] \in Holding \/ Booked(b)' # {},
               pc'[c] \in Holding \/ Booked(c)' # {}
        PROVE  b = c
    <3>1. CASE b = a
      BY <1>1, <1>2, <2>1, <2>4, <3>1
    <3>2. CASE c = a
      BY <1>1, <1>2, <2>1, <2>4, <3>2 DEF SameKey
    <3>3. CASE b # a /\ c # a
      BY <1>a, <1>1, <1>2, <2>4, <3>3 DEF KeysBookOnce
    <3>4. QED
      BY <3>1, <3>2, <3>3
  <2>5. QED
    BY <1>b, <2>2, <2>3, <2>4, InputStays DEF KeysBookOnce, SameKey
<1>8. ReplaysFollowRecords'
  BY <1>a, <1>b, <1>1, InputStays DEF ReplaysFollowRecords
<1>9. RefusalsFollowClaims'
  BY <1>a, <1>b, <1>d, <1>1, <1>3, RefusalsStay
<1>10. ConfirmationsAreKept'
  BY <1>a, <1>b, <1>d, <1>1, ConfirmationsStay
<1>11. QED
  BY <1>1, <1>5, <1>6, <1>7, <1>8, <1>9, <1>10 DEF IndInv

\* A row is inserted, whether or not its attempt hears of it.
LEMMA WriteRowStep ==
  ASSUME IndInv, NEW a \in Attempts, pc[a] = "insert", WriteRow(a),
         NEW next \in {"complete", "end"}, NEW what \in {Pending, Refused("error")},
         next = "end" => what = Refused("error"), Moves(a, next, what),
         \A t \in technicians'[a] : Qualified(t, request[a]),
         \A b \in bays'[a] : Compatible(b, request[a])
  PROVE  IndInv'
<1>a. /\ TypeOK /\ Progress /\ Selections /\ Bookings /\ Claims /\ KeysBookOnce
      /\ ReplaysFollowRecords /\ RefusalsFollowClaims /\ ConfirmationsAreKept
  BY DEF IndInv
<1>b. /\ UNCHANGED input /\ request' = request /\ idempotency' = idempotency
      /\ appointments' = appointments \cup {Candidate(a)}
  BY InputStays DEF Moves, WriteRow
<1>c. /\ Candidate(a) \in AppointmentRows(AppointmentIds) /\ Candidate(a).id = a
      /\ BooksAsGiven(Candidate(a), a)
  BY CandidateAsGiven
<1>d. what \in Answers /\ what.outcome \notin {"in_progress", "conflict", "confirmed"}
  BY AnswerTypes DEF Refusals, Refused, Pending
<1>1. /\ TypeOK' /\ Progress' /\ Selections'
      /\ pc'[a] = next /\ answer'[a] = what
      /\ \A b \in Attempts \ {a} : pc'[b] = pc[b] /\ answer'[b] = answer[b]
  <2>1. /\ appointments \subseteq appointments'
        /\ appointments' \subseteq AppointmentRows(AppointmentIds)
        /\ idempotency' \subseteq InputRows
    BY <1>a, <1>b, <1>c DEF TypeOK
  <2>2. next \in Statements \cup {"end"} /\ next \notin {"service", "insert", "bays"}
    BY DEF Statements
  <2>3. QED
    BY <1>d, <2>1, <2>2, MoveStep
<1>2. /\ Booked(a) = {} /\ Booked(a)' = {Candidate(a)}
      /\ \A b \in Attempts \ {a} : Booked(b)' = Booked(b)
  <2>1. Booked(a) = {}
    BY <1>a DEF Bookings
  <2>2. QED
    BY <1>b, <1>c, <2>1 DEF Booked
<1>3. \A b \in Attempts : Claimant(b) => Claimant(b)'
  <2>1. CASE next = "complete"
    BY <1>1, <2>1, ClaimantsStay DEF Holding
  <2>2. CASE next = "end"
    <3>1. what.outcome = "error"
      BY <2>2 DEF Refused
    <3>2. QED
      BY <1>1, <2>2, <3>1, ClaimantsStay
  <2>3. QED
    BY <2>1, <2>2
<1>4. Bookings'
  <2>1. \A x, y \in appointments' : x.id = y.id => x = y
    BY <1>a, <1>b, <1>c, <1>2 DEF Bookings, Booked
  <2>2. \A b \in Attempts \ {a} :
          /\ Booked(b)' # {} => pc'[b] \in {"complete", "end"}
          /\ pc'[b] = "complete" => Booked(b)' # {}
          /\ \A row \in Booked(b)' : BooksAsGiven(row, b)'
    BY <1>a, <1>b, <1>1, <1>2, InputStays DEF Bookings
  <2>3. /\ pc'[a] \in {"complete", "end"} /\ Booked(a)' # {}
        /\ \A row \in Booked(a)' : BooksAsGiven(row, a)'
    BY <1>b, <1>c, <1>1, <1>2, InputStays
  <2>4. QED
    BY <2>1, <2>2, <2>3 DEF Bookings
<1>5. Claims'
  <2>1. \A b \in Attempts : Booked(b) # {} => Booked(b)' # {}
    BY <1>2
  <2>2. QED
    BY <1>a, <1>b, <1>3, <2>1, InputStays DEF Claims
<1>6. KeysBookOnce'
  <2>1. \A b \in Attempts : pc'[b] \in Holding => pc[b] \in Holding
    BY <1>1 DEF Holding
  <2>2. pc[a] \in Holding
    BY DEF Holding
  <2>3. \A b \in Attempts : pc'[b] \in Holding \/ Booked(b)' # {} =>
                              pc[b] \in Holding \/ Booked(b) # {}
    BY <1>2, <2>1, <2>2
  <2>4. \A b \in Attempts : Booked(b)' # {} => KeyTaken(b)
    BY <1>a, <1>2, <2>2, RecordFields DEF KeysBookOnce, KeyTaken
  <2>5. \A b \in Attempts : pc'[b] \in Holding => ClaimedRow(b) \in idempotency
    BY <1>a, <2>1 DEF KeysBookOnce
  <2>6. \A b, c \in Attempts :
          /\ SameKey(b, c)
          /\ pc'[b] \in Holding \/ Booked(b)' # {}
          /\ pc'[c] \in Holding \/ Booked(c)' # {}
          => b = c
    BY <1>a, <2>3 DEF KeysBookOnce
  <2>7. QED
    BY <1>b, <2>4, <2>5, <2>6, InputStays DEF KeysBookOnce, KeyTaken, SameKey
<1>7. ReplaysFollowRecords'
  BY <1>a, <1>b, <1>1, InputStays DEF ReplaysFollowRecords
<1>8. RefusalsFollowClaims'
  BY <1>a, <1>b, <1>d, <1>1, <1>3, RefusalsStay
<1>9. ConfirmationsAreKept'
  BY <1>a, <1>b, <1>d, <1>1, ConfirmationsStay
<1>10. QED
  BY <1>1, <1>4, <1>5, <1>6, <1>7, <1>8, <1>9 DEF IndInv

\* A record is completed, whether or not its attempt hears of it.
LEMMA WriteCompletionStep ==
  ASSUME IndInv, NEW a \in Attempts, pc[a] = "complete", WriteCompletion(a),
         NEW row \in Booked(a), NEW what \in {Confirmed(row), Refused("error")},
         Moves(a, "end", what),
         \A t \in technicians'[a] : Qualified(t, request[a]),
         \A b \in bays'[a] : Compatible(b, request[a])
  PROVE  IndInv'
<1>a. /\ TypeOK /\ Progress /\ Selections /\ Bookings /\ Claims /\ KeysBookOnce
      /\ ReplaysFollowRecords /\ RefusalsFollowClaims /\ ConfirmationsAreKept
  BY DEF IndInv
<1> DEFINE claimed == ClaimedRow(a)
           completed == BookedRow(a, a)
<1>b. /\ UNCHANGED input /\ request' = request /\ appointments' = appointments
      /\ claimed \in idempotency
      /\ idempotency' = (idempotency \ {claimed}) \cup {completed}
  BY InputStays DEF Moves, WriteCompletion
<1>c. /\ request[a] \in Requests /\ request[a].service \in Services
      /\ row \in appointments /\ row.id = a /\ BooksAsGiven(row, a)
  BY <1>a DEF TypeOK, Progress, Valid, Bookings, Booked
<1>d. /\ what \in Answers /\ what.outcome \in {"confirmed", "error"}
      /\ what.outcome = "confirmed" => what = Confirmed(row)
  BY <1>a, <1>c, AnswerTypes DEF TypeOK, Refusals, Refused, Confirmed
<1>1. /\ TypeOK' /\ Progress' /\ Selections'
      /\ pc'[a] = "end" /\ answer'[a] = what
      /\ \A b \in Attempts \ {a} : pc'[b] = pc[b] /\ answer'[b] = answer[b]
  <2>1. /\ appointments \subseteq appointments'
        /\ appointments' \subseteq AppointmentRows(AppointmentIds)
        /\ idempotency' \subseteq InputRows
    BY <1>a, <1>b, <1>c, RecordTypes DEF TypeOK
  <2>2. QED
    BY <1>d, <2>1, MoveStep
<1>2. \A b \in Attempts : Booked(b)' = Booked(b)
  BY <1>b DEF Booked
<1>3. \A b \in Attempts : Claimant(b) => Claimant(b)'
  BY <1>d, <1>1, ClaimantsStay
<1>4. Claimant(a)'
  BY <1>d, <1>1 DEF Claimant
<1>5. Bookings'
  BY <1>a, <1>b, <1>1, <1>2, InputStays DEF Bookings
<1>6. Claims'
  <2>1. \A x \in idempotency \ {claimed} : x.key # completed.key
    BY <1>a, <1>b, RecordFields DEF Claims
  <2>2. \A x, y \in idempotency' : x.key = y.key => x = y
    BY <1>a, <1>b, <2>1 DEF Claims
  <2>3. \A rec \in idempotency : \E b \in Attempts :
          /\ Claimant(b)'
          /\ \/ rec = ClaimedRow(b)
             \/ rec = BookedRow(b, b) /\ Booked(b)' # {}
    BY <1>a, <1>2, <1>3 DEF Claims
  <2>4. Booked(a)' # {}
    BY <1>2
  <2>5. QED
    BY <1>b, <1>4, <2>2, <2>3, <2>4, InputStays DEF Claims
<1>7. KeysBookOnce'
  <2>1. \A b \in Attempts : pc'[b] \in Holding => pc[b] \in Holding /\ b # a
    BY <1>1 DEF Holding
  <2>2. ASSUME NEW b \in Attempts, pc'[b] \in Holding
        PROVE  ClaimedRow(b) \in idempotency'
    <3>1. request[b].key # request[a].key
      BY <1>a, <2>1, <2>2 DEF KeysBookOnce, SameKey, Holding
    <3>2. QED
      BY <1>a, <1>b, <2>1, <2>2, <3>1, RecordFields DEF KeysBookOnce
  <2>3. \A b \in Attempts : KeyTaken(b) => KeyTaken(b)'
    BY <1>b, RecordFields DEF KeyTaken
  <2>4. \A b \in Attempts : Booked(b)' # {} => KeyTaken(b)'
    BY <1>a, <1>2, <2>3 DEF KeysBookOnce
  <2>5. \A b, c \in Attempts :
          /\ SameKey(b, c)
          /\ pc'[b] \in Holding \/ Booked(b)' # {}
          /\ pc'[c] \in Holding \/ Booked(c)' # {}
          => b = c
    BY <1>a, <1>2, <2>1 DEF KeysBookOnce
  <2>6. QED
    BY <1>b, <2>2, <2>4, <2>5, InputStays DEF KeysBookOnce, SameKey
<1>8. \A rec \in idempotency : rec.status = "completed" => rec \in idempotency'
  BY <1>b, RecordFields
<1>9. ReplaysFollowRecords'
  BY <1>a, <1>b, <1>1, <1>8, RecordFields, InputStays DEF ReplaysFollowRecords
<1>10. RefusalsFollowClaims'
  BY <1>a, <1>b, <1>d, <1>1, <1>3, RefusalsStay
<1>11. ConfirmationsAreKept'
  BY <1>a, <1>b, <1>c, <1>d, <1>1, <1>8, ConfirmationsStay
<1>12. QED
  BY <1>1, <1>5, <1>6, <1>7, <1>9, <1>10, <1>11 DEF IndInv

-----------------------------------------------------------------------------
(* The invariant, action by action. *)

\* A step that goes on to another statement and keeps the lists.
LEMMA GotoMoves ==
  ASSUME IndInv, NEW a \in Attempts, pc[a] # "end", NEW next \in Statements, Goto(a, next),
         UNCHANGED <<input, answer, locals, failures>>, Valid(a)
  PROVE  /\ Moves(a, next, Pending)
         /\ \A t \in technicians'[a] : Qualified(t, request[a])
         /\ \A b \in bays'[a] : Compatible(b, request[a])
<1>1. answer' = [answer EXCEPT ![a] = Pending]
  BY DEF IndInv, TypeOK, Progress
<1>2. QED
  BY <1>1 DEF input, IndInv, TypeOK, Selections, Moves, Goto, locals

\* An attempt that ends without a write: an error and no availability need no more.
LEMMA PlainRefusalStep ==
  ASSUME IndInv, NEW a \in Attempts, pc[a] # "end", NEW outcome \in Refusals,
         Return(a, Refused(outcome)), UNCHANGED tables, failures' \in 0 .. MaxFailures,
         \/ outcome \in {"error", "no_availability"}
         \/ outcome = "key_required" /\ pc[a] \notin Holding
  PROVE  IndInv'
<1>1. /\ Moves(a, "end", Refused(outcome))
      /\ technicians'[a] = {} /\ bays'[a] = {}
  BY ReturnMoves DEF IndInv
<1>2. Refused(outcome) \in Answers /\ Refused(outcome).outcome = outcome
  BY AnswerTypes DEF Refused
<1>3. "end" \notin Holding /\ "end" \in Statements \cup {"end"}
  BY DEF Holding
<1>4. QED
  BY <1>1, <1>2, <1>3, QuietStep

\* A refusal for somebody else's claim.
LEMMA ClaimedRefusalStep ==
  ASSUME IndInv, NEW a \in Attempts, pc[a] = "lookup", NEW existing \in idempotency,
         existing.key = request[a].key,
         NEW outcome \in {"in_progress", "conflict"},
         SameRequest(a, existing) <=> outcome = "in_progress",
         Refuse(a, outcome), UNCHANGED tables
  PROVE  IndInv'
<1>a. /\ TypeOK /\ Progress /\ Selections /\ Bookings /\ Claims /\ KeysBookOnce
      /\ ReplaysFollowRecords /\ RefusalsFollowClaims /\ ConfirmationsAreKept
  BY DEF IndInv
<1>1. /\ Moves(a, "end", Refused(outcome))
      /\ technicians'[a] = {} /\ bays'[a] = {}
  <2>1. Return(a, Refused(outcome)) /\ failures' \in 0 .. MaxFailures
    BY <1>a DEF Refuse, TypeOK
  <2>2. QED
    BY <1>a, <2>1, ReturnMoves
<1>2. Refused(outcome) \in Answers /\ Refused(outcome).outcome = outcome
  BY AnswerTypes DEF Refused, Refusals
<1>3. PICK c \in Attempts :
        /\ Claimant(c)
        /\ existing = ClaimedRow(c) \/ existing = BookedRow(c, c)
  BY <1>a DEF Claims
<1>4. c # a
  BY <1>3 DEF Claimant, Holding
<1>5. existing.key = request[c].key /\ existing.hash = InputHash(c)
  BY <1>3, RecordFields
<1>6. /\ SameKey(a, c)
      /\ InputHash(c) = InputHash(a) <=> outcome = "in_progress"
  BY <1>5 DEF SameKey, SameRequest
<1>7. pc[a] \notin Holding /\ "end" \notin Holding
  BY DEF Holding
<1>8. QED
  BY <1>1, <1>2, <1>3, <1>4, <1>6, <1>7, QuietStep

\* The statements before the claim.
LEMMA StartSteps ==
  ASSUME IndInv, NEW a \in Attempts, RejectMissingKey(a) \/ LoadServiceType(a)
  PROVE  IndInv'
<1>1. pc[a] = "service" /\ UNCHANGED <<tables, failures>> /\ failures \in 0 .. MaxFailures
  BY DEF RejectMissingKey, LoadServiceType, Refuse, IndInv, TypeOK
<1>2. ASSUME NEW outcome \in {"key_required", "error"}, Return(a, Refused(outcome))
      PROVE  IndInv'
  BY <1>1, <1>2, PlainRefusalStep DEF Refusals, Holding
<1>3. CASE Valid(a) /\ Goto(a, "claim")
           /\ UNCHANGED <<input, answer, locals>>
  <2>1. /\ Moves(a, "claim", Pending)
        /\ \A t \in technicians'[a] : Qualified(t, request[a])
        /\ \A b \in bays'[a] : Compatible(b, request[a])
    BY <1>1, <1>3, GotoMoves DEF Statements
  <2>2. Pending \in Answers /\ Pending.outcome = "none"
    BY AnswerTypes DEF Pending
  <2>3. pc[a] \notin Holding /\ "claim" \notin Holding /\ "claim" \in Statements
    BY <1>1 DEF Holding, Statements
  <2>4. QED
    BY <1>1, <2>1, <2>2, <2>3, QuietStep
<1>4. QED
  BY <1>1, <1>2, <1>3 DEF RejectMissingKey, LoadServiceType, Refuse, Valid

\* A claim succeeds only where the key has no record.
LEMMA ClaimKeyStep ==
  ASSUME IndInv, NEW a \in Attempts, ClaimKey(a)
  PROVE  IndInv'
<1>1. /\ pc[a] = "claim" /\ UNCHANGED <<input, answer, locals, failures>>
      /\ Valid(a)
  BY DEF ClaimKey, IndInv, Progress
<1>2. Pending \in Answers /\ Pending.outcome = "none"
  BY AnswerTypes DEF Pending
<1>3. CASE WriteClaim(a) /\ Goto(a, "technicians")
  <2>1. /\ Moves(a, "technicians", Pending)
        /\ \A t \in technicians'[a] : Qualified(t, request[a])
        /\ \A b \in bays'[a] : Compatible(b, request[a])
    BY <1>1, <1>3, GotoMoves DEF Statements
  <2>2. QED
    BY <1>1, <1>3, <2>1, WriteClaimStep
<1>4. CASE WriteClaim(a) /\ NothingToFind(a) /\ Goto(a, "insert")
  <2>1. /\ Moves(a, "insert", Pending)
        /\ \A t \in technicians'[a] : Qualified(t, request[a])
        /\ \A b \in bays'[a] : Compatible(b, request[a])
    BY <1>1, <1>4, GotoMoves DEF Statements
  <2>2. Supplied(a)'
    BY <1>1, <1>4 DEF NothingToFind, Supplied, input
  <2>3. QED
    BY <1>1, <1>4, <2>1, <2>2, WriteClaimStep
<1>5. CASE Goto(a, "lookup") /\ UNCHANGED tables
  <2>1. /\ Moves(a, "lookup", Pending)
        /\ \A t \in technicians'[a] : Qualified(t, request[a])
        /\ \A b \in bays'[a] : Compatible(b, request[a])
    BY <1>1, <1>5, GotoMoves DEF Statements
  <2>2. pc[a] \notin Holding /\ "lookup" \notin Holding /\ "lookup" \in Statements
    BY <1>1 DEF Holding, Statements
  <2>3. QED
    BY <1>1, <1>2, <1>5, <2>1, <2>2, QuietStep
<1>6. QED
  BY <1>3, <1>4, <1>5 DEF ClaimKey

\* What the lookup finds is a record of a claimant.
LEMMA LookUpStep ==
  ASSUME IndInv, NEW a \in Attempts, LookUp(a)
  PROVE  IndInv'
<1>1. /\ pc[a] = "lookup" /\ UNCHANGED tables /\ Valid(a)
  BY DEF LookUp, IndInv, Progress
<1>2. PICK existing \in idempotency :
        /\ existing.key = request[a].key
        /\ \/ /\ SameRequest(a, existing)
              /\ existing.status = "completed" /\ existing.appointment # Null
              /\ Goto(a, "replay")
              /\ UNCHANGED <<input, answer, locals, failures>>
           \/ Refuse(a, IF SameRequest(a, existing) THEN "in_progress" ELSE "conflict")
  BY DEF LookUp
<1>3. CASE Refuse(a, IF SameRequest(a, existing) THEN "in_progress" ELSE "conflict")
  <2>1. CASE SameRequest(a, existing)
    BY <1>1, <1>2, <1>3, <2>1, ClaimedRefusalStep
  <2>2. CASE ~SameRequest(a, existing)
    BY <1>1, <1>2, <1>3, <2>2, ClaimedRefusalStep
  <2>3. QED
    BY <2>1, <2>2
<1>4. CASE /\ SameRequest(a, existing)
           /\ existing.status = "completed" /\ existing.appointment # Null
           /\ Goto(a, "replay")
           /\ UNCHANGED <<input, answer, locals, failures>>
  <2>1. PICK c \in Attempts : existing = BookedRow(c, c)
    BY <1>4, RecordFields DEF IndInv, Claims
  <2>2. existing = BookedRow(a, c)
    BY <1>2, <1>4, <2>1, RecordFields DEF BookedRow, SameRequest
  <2>3. /\ Moves(a, "replay", Pending)
        /\ \A t \in technicians'[a] : Qualified(t, request[a])
        /\ \A b \in bays'[a] : Compatible(b, request[a])
    BY <1>1, <1>4, GotoMoves DEF Statements
  <2>4. Pending \in Answers /\ Pending.outcome = "none"
    BY AnswerTypes DEF Pending
  <2>5. pc[a] \notin Holding /\ "replay" \notin Holding /\ "replay" \in Statements
    BY <1>1 DEF Holding, Statements
  <2>6. QED
    BY <1>1, <2>2, <2>3, <2>4, <2>5, QuietStep
<1>5. QED
  BY <1>2, <1>3, <1>4

\* The row that is replayed is the booking of the attempt that the record names, and
\* that attempt's request is this one.
LEMMA ReplayedRow ==
  ASSUME IndInv, NEW a \in Attempts, pc[a] = "replay",
         NEW existing \in idempotency, NEW row \in appointments,
         existing.key = request[a].key, existing.appointment = row.id
  PROVE  /\ BookedRow(a, row.id) \in idempotency
         /\ \E b \in Attempts : row \in Booked(b) /\ request[b] = request[a]
         /\ BooksAsGiven(row, a)
<1>1. PICK b \in Attempts : BookedRow(a, b) \in idempotency
  BY DEF IndInv, ReplaysFollowRecords
<1>2. existing = BookedRow(a, b)
  BY <1>1, RecordFields DEF IndInv, Claims
<1>3. row.id = b
  BY <1>2, RecordFields
<1>4. PICK c \in Attempts : existing = BookedRow(c, c)
  BY <1>2, RecordFields DEF IndInv, Claims
<1>5. c = b /\ InputHash(c) = InputHash(a)
      /\ request[c].key = request[a].key
  <2>1. /\ existing.appointment = b /\ existing.hash = InputHash(a)
        /\ existing.key = request[a].key
    BY <1>2, RecordFields
  <2>2. /\ existing.appointment = c /\ existing.hash = InputHash(c)
        /\ existing.key = request[c].key
    BY <1>4, RecordFields
  <2>3. QED
    BY <2>1, <2>2
<1>6. request[a] \in Requests /\ request[c] \in Requests
  BY DEF IndInv, TypeOK
<1>7. request[b] = request[a] /\ given[b] = given[a]
  <2>1. RequestHash(request[c]) = RequestHash(request[a]) /\ given[c] = given[a]
    BY <1>5 DEF InputHash
  <2>2. QED
    BY <1>5, <1>6, <2>1, SameDigest
<1>8. row \in Booked(b) /\ BooksAsGiven(row, b)
  BY <1>3 DEF IndInv, Bookings, Booked
<1>9. BooksAsGiven(row, a)
  BY <1>7, <1>8 DEF BooksAsGiven, AsGiven
<1>10. QED
  BY <1>1, <1>3, <1>7, <1>8, <1>9

\* A replay answers with the row of the record.
LEMMA ReplayStep ==
  ASSUME IndInv, NEW a \in Attempts, Replay(a)
  PROVE  IndInv'
<1>1. pc[a] = "replay" /\ UNCHANGED <<tables, failures>> /\ failures \in 0 .. MaxFailures
  BY DEF Replay, IndInv, TypeOK
<1>2. PICK existing \in idempotency, row \in appointments :
        /\ existing.key = request[a].key
        /\ existing.appointment = row.id
        /\ Return(a, Confirmed(row))
  BY DEF Replay
<1>3. BookedRow(a, row.id) \in idempotency /\ BooksAsGiven(row, a)
  BY <1>1, <1>2, ReplayedRow
<1>4. /\ Moves(a, "end", Confirmed(row))
      /\ technicians'[a] = {} /\ bays'[a] = {}
  BY <1>1, <1>2, ReturnMoves DEF IndInv
<1>5. Confirmed(row) \in Answers /\ Confirmed(row).outcome = "confirmed"
  BY AnswerTypes DEF IndInv, TypeOK, Confirmed
<1>6. "end" \notin Holding /\ pc[a] \notin Holding
  BY <1>1 DEF Holding
<1>7. QED
  BY <1>1, <1>3, <1>4, <1>5, <1>6, QuietStep

\* The list of technicians is of those who are free.
LEMMA FindTechniciansStep ==
  ASSUME IndInv, NEW a \in Attempts, FindTechnicians(a)
  PROVE  IndInv'
<1>a. /\ TypeOK /\ Progress /\ Selections /\ Bookings /\ Claims /\ KeysBookOnce
      /\ ReplaysFollowRecords /\ RefusalsFollowClaims /\ ConfirmationsAreKept
  BY DEF IndInv
<1> DEFINE free == AvailableTechnicians(appointments, request[a])
<1>1. /\ pc[a] = "technicians" /\ technicians' = [technicians EXCEPT ![a] = free]
      /\ pc' = [pc EXCEPT ![a] = "bays"]
      /\ UNCHANGED <<input, tables, answer, bays, failures>>
  BY DEF FindTechnicians, Goto
<1>2. /\ free \subseteq Technicians /\ \A t \in free : Qualified(t, request[a])
      /\ free = {} => Contested(appointments, request[a])
  BY EmptyIsContested DEF AvailableTechnicians
<1>3. Moves(a, "bays", Pending)
  <2>1. answer' = [answer EXCEPT ![a] = Pending]
    BY <1>a, <1>1 DEF TypeOK, Progress
  <2>2. /\ technicians' \in [Attempts -> SUBSET Technicians]
        /\ \A b \in Attempts \ {a} : technicians'[b] = technicians[b]
    BY <1>a, <1>1, <1>2 DEF TypeOK
  <2>3. QED
    BY <1>a, <1>1, <2>1, <2>2 DEF TypeOK, Moves, Progress
<1>4. technicians'[a] = free /\ bays'[a] = bays[a]
  BY <1>a, <1>1 DEF TypeOK
<1>5. \A b \in bays[a] : Compatible(b, request[a])
  BY <1>a DEF Selections
<1>6. Pending \in Answers /\ Pending.outcome = "none"
  BY AnswerTypes DEF Pending
<1>7. "bays" \in Holding /\ pc[a] \in Holding /\ "bays" \in Statements
  BY <1>1 DEF Holding, Statements
<1>8. QED
  BY <1>1, <1>2, <1>3, <1>4, <1>5, <1>6, <1>7, QuietStep

\* So is the list of bays; either may be empty.
LEMMA FindBaysStep ==
  ASSUME IndInv, NEW a \in Attempts, FindBays(a)
  PROVE  IndInv'
<1>a. /\ TypeOK /\ Progress /\ Selections /\ Bookings /\ Claims /\ KeysBookOnce
      /\ ReplaysFollowRecords /\ RefusalsFollowClaims /\ ConfirmationsAreKept
  BY DEF IndInv
<1> DEFINE free == AvailableBays(appointments, request[a])
<1>1. pc[a] = "bays" /\ UNCHANGED <<tables, failures>> /\ failures \in 0 .. MaxFailures
  BY <1>a DEF FindBays, Refuse, TypeOK
<1>2. CASE Refuse(a, "no_availability")
  BY <1>1, <1>2, PlainRefusalStep DEF Refuse, Refusals
<1>3. CASE /\ technicians[a] # {} /\ free # {}
           /\ bays' = [bays EXCEPT ![a] = free]
           /\ Goto(a, "insert")
           /\ UNCHANGED <<input, answer, technicians>>
  <2>1. free \subseteq Bays /\ \A b \in free : Compatible(b, request[a])
    BY DEF AvailableBays
  <2>2. answer' = [answer EXCEPT ![a] = Pending]
    BY <1>a, <1>1, <1>3 DEF TypeOK, Progress
  <2>3. /\ bays' \in [Attempts -> SUBSET Bays] /\ bays'[a] = free
        /\ \A b \in Attempts \ {a} : bays'[b] = bays[b]
    BY <1>a, <1>3, <2>1 DEF TypeOK
  <2>4. Moves(a, "insert", Pending)
    BY <1>a, <1>1, <1>3, <2>2, <2>3 DEF TypeOK, Moves, Progress, Goto, input
  <2>5. \A t \in technicians'[a] : Qualified(t, request[a])
    BY <1>a, <1>3 DEF Selections
  <2>6. Pending \in Answers /\ Pending.outcome = "none"
    BY AnswerTypes DEF Pending
  <2>7. "insert" \in Holding /\ pc[a] \in Holding /\ "insert" \in Statements
    BY <1>1 DEF Holding, Statements
  <2>8. Supplied(a)'
    BY <1>3, <2>3 DEF Supplied
  <2>9. QED
    BY <1>1, <1>3, <2>1, <2>3, <2>4, <2>5, <2>6, <2>7, <2>8, QuietStep
<1>4. QED
  BY <1>2, <1>3 DEF FindBays

\* The insert books, under a key that only its attempt holds.
LEMMA InsertRowStep ==
  ASSUME IndInv, NEW a \in Attempts, InsertRow(a)
  PROVE  IndInv'
<1>1. pc[a] = "insert" /\ failures \in 0 .. MaxFailures /\ Valid(a)
  BY DEF InsertRow, IndInv, TypeOK, Progress
<1>2. CASE /\ WriteRow(a) /\ Goto(a, "complete")
           /\ UNCHANGED <<input, answer, locals, failures>>
  <2>1. /\ Moves(a, "complete", Pending)
        /\ \A t \in technicians'[a] : Qualified(t, request[a])
        /\ \A b \in bays'[a] : Compatible(b, request[a])
    BY <1>1, <1>2, GotoMoves DEF Statements
  <2>2. QED
    BY <1>1, <1>2, <2>1, WriteRowStep
<1>3. CASE Refuse(a, "error") /\ UNCHANGED tables
  BY <1>1, <1>3, PlainRefusalStep DEF Refuse, Refusals
<1>4. QED
  BY <1>2, <1>3 DEF InsertRow

\* The record is completed once the row is there.
LEMMA CompleteStep ==
  ASSUME IndInv, NEW a \in Attempts, Complete(a)
  PROVE  IndInv'
<1>1. /\ pc[a] = "complete" /\ WriteCompletion(a)
      /\ failures' \in 0 .. MaxFailures
  BY DEF Complete, IndInv, TypeOK
<1>2. PICK row \in Booked(a) : Return(a, Confirmed(row))
  BY DEF Complete, Booked
<1>3. /\ Moves(a, "end", Confirmed(row))
      /\ technicians'[a] = {} /\ bays'[a] = {}
  BY <1>1, <1>2, ReturnMoves DEF IndInv
<1>4. QED
  BY <1>1, <1>3, WriteCompletionStep

\* A failure ends the attempt, with or without the effect of its statement.
LEMMA StatementFailsStep ==
  ASSUME IndInv, NEW a \in Attempts, StatementFails(a)
  PROVE  IndInv'
<1>1. /\ pc[a] # "end" /\ failures' \in 0 .. MaxFailures
      /\ Return(a, Refused("error"))
  BY FallbackBookingAssumption DEF StatementFails, IndInv, TypeOK
<1>2. /\ Moves(a, "end", Refused("error"))
      /\ technicians'[a] = {} /\ bays'[a] = {}
  BY <1>1, ReturnMoves DEF IndInv
<1>3. CASE UNCHANGED tables
  BY <1>1, <1>3, PlainRefusalStep DEF Refusals
<1>4. CASE pc[a] = "claim" /\ WriteClaim(a)
  BY <1>2, <1>4, WriteClaimStep
<1>5. CASE pc[a] = "insert" /\ WriteRow(a)
  BY <1>2, <1>5, WriteRowStep
<1>6. CASE pc[a] = "complete" /\ WriteCompletion(a)
  <2>1. PICK row : row \in Booked(a)
    BY <1>6 DEF IndInv, Bookings
  <2>2. QED
    BY <1>2, <1>6, <2>1, WriteCompletionStep
<1>7. QED
  BY <1>3, <1>4, <1>5, <1>6 DEF StatementFails

\* One lemma for each statement.
LEMMA Inductive == IndInv /\ [Next]_vars => IndInv'
<1> SUFFICES ASSUME IndInv, [Next]_vars PROVE IndInv'
  OBVIOUS
<1>1. ASSUME NEW a \in Attempts, Step(a) \/ StatementFails(a) PROVE IndInv'
  BY <1>1, StartSteps, ClaimKeyStep, LookUpStep, ReplayStep, FindTechniciansStep,
     FindBaysStep, InsertRowStep, CompleteStep, StatementFailsStep DEF Step
<1>2. CASE UNCHANGED vars
  <2>1. /\ UNCHANGED input /\ UNCHANGED <<request, given, appointments, idempotency>>
        /\ UNCHANGED <<answer, pc, technicians, bays, failures>>
    <3>1. UNCHANGED input /\ UNCHANGED <<appointments, idempotency, answer>>
          /\ UNCHANGED <<pc, technicians, bays, failures>>
      BY <1>2 DEF vars, input
    <3>2. QED
      BY <3>1, InputStays
  <2>2. \A a \in Attempts : /\ Booked(a)' = Booked(a) /\ KeyTaken(a)' = KeyTaken(a)
                            /\ Claimant(a)' = Claimant(a) /\ Supplied(a)' = Supplied(a)
    BY <2>1 DEF Booked, KeyTaken, Claimant, Supplied
  <2>3. TypeOK' /\ Progress' /\ Selections'
    BY <2>1, <2>2, InputStays DEF IndInv, TypeOK, Progress, Selections
  <2>4. Bookings' /\ Claims'
    BY <2>1, <2>2, InputStays DEF IndInv, Bookings, Claims
  <2>5. KeysBookOnce' /\ ReplaysFollowRecords'
    BY <2>1, <2>2, InputStays DEF IndInv, KeysBookOnce, SameKey, ReplaysFollowRecords
  <2>6. RefusalsFollowClaims' /\ ConfirmationsAreKept'
    BY <2>1, <2>2, InputStays DEF IndInv, RefusalsFollowClaims, SameKey, ConfirmationsAreKept
  <2>7. QED
    BY <2>3, <2>4, <2>5, <2>6 DEF IndInv
<1>3. QED
  BY <1>1, <1>2 DEF Next

-----------------------------------------------------------------------------
(* The theorems. *)

\* The invariant holds of every behaviour: the basis of what follows.
THEOREM Invariance == Spec => []IndInv
BY InitIndInv, Inductive, PTL DEF Spec

\* Every variable keeps its type: TypeOK.
THEOREM TypeCorrect == Spec => []TypeOK
BY Invariance, PTL DEF IndInv

\* CreateAppointment answers with an appointment only once its record is complete,
\* whatever fails between its statements: ConfirmationsAreKept.
THEOREM ConfirmedForGood == Spec => []ConfirmationsAreKept
BY Invariance, PTL DEF IndInv

\* A key stays in progress only for a failure or a lack of availability that somebody
\* was told of: StuckKeysHaveCause.
THEOREM StuckKeysExplained == Spec => []StuckKeysHaveCause
<1>1. ASSUME IndInv, NEW rec \in idempotency, rec.status = "in_progress"
      PROVE  \E a \in Attempts :
               /\ rec = ClaimedRow(a)
               /\ pc[a] = "end" => answer[a].outcome \in {"error", "no_availability"}
  <2>1. PICK a \in Attempts : Claimant(a) /\ rec = ClaimedRow(a)
    BY <1>1, RecordFields DEF IndInv, Claims
  <2>2. answer[a].outcome # "confirmed"
    <3> SUFFICES ASSUME answer[a].outcome = "confirmed" PROVE FALSE
      OBVIOUS
    <3>1. PICK id : BookedRow(a, id) \in idempotency
      BY <1>1 DEF IndInv, ConfirmationsAreKept
    <3>2. rec = BookedRow(a, id)
      BY <1>1, <2>1, <3>1, RecordFields DEF IndInv, Claims
    <3>3. QED
      BY <1>1, <3>2, RecordFields
  <2>3. pc[a] = "end" => answer[a].outcome \in {"error", "no_availability"}
    BY <2>1, <2>2 DEF Claimant, Holding
  <2>4. QED
    BY <2>1, <2>3
<1>2. ASSUME IndInv, NEW a \in Attempts, answer[a].outcome \in {"in_progress", "conflict"}
      PROVE  \E b \in Attempts \ {a} :
               /\ request[b].key = request[a].key
               /\ InputHash(b) = InputHash(a)
                    <=> answer[a].outcome = "in_progress"
               /\ answer[b].outcome # "in_progress"
  <2>1. PICK b \in Attempts \ {a} :
          /\ Claimant(b) /\ SameKey(a, b)
          /\ InputHash(b) = InputHash(a)
               <=> answer[a].outcome = "in_progress"
    BY <1>2 DEF IndInv, RefusalsFollowClaims
  <2>2. answer[b].outcome # "in_progress"
    BY <1>2, <2>1 DEF IndInv, Progress, Claimant, Holding, Pending
  <2>3. QED
    BY <2>1, <2>2 DEF SameKey
<1>3. IndInv => StuckKeysHaveCause
  BY <1>1, <1>2 DEF StuckKeysHaveCause
<1>4. QED
  BY <1>3, Invariance, PTL

-----------------------------------------------------------------------------
(* FallbackBooking implements AtomicBooking, but for what the caller gives. *)
(* An attempt takes effect there when its row is inserted, when it reads    *)
(* the booking it replays, or when it is refused; a claim and a completion  *)
(* are invisible.                                                           *)

\* The operators of BookingData mean the same in both specifications.
LEMMA AtomicOperators ==
  /\ Atomic!Pending = Pending /\ Atomic!Refusals = Refusals
  /\ \A outcome : Atomic!Refused(outcome) = Refused(outcome)
  /\ \A row : Atomic!Confirmed(row) = Confirmed(row)
  /\ \A r : Atomic!OwnsVehicle(r) = OwnsVehicle(r)
  /\ \A r : Atomic!RequestHash(r) = RequestHash(r)
  /\ \A r, id : Atomic!CompletedRow(r, id) = CompletedRow(r, id)
  /\ \A r, id, t, b : Atomic!AppointmentFor(id, r, t, b) = AppointmentFor(id, r, t, b)
  /\ \A rows, r : /\ Atomic!AvailableTechnicians(rows, r) = AvailableTechnicians(rows, r)
                  /\ Atomic!AvailableBays(rows, r) = AvailableBays(rows, r)
                  /\ Atomic!Contested(rows, r) = Contested(rows, r)
<1>1. /\ Atomic!Pending = Pending /\ Atomic!Refusals = Refusals
      /\ \A outcome : Atomic!Refused(outcome) = Refused(outcome)
      /\ \A row : Atomic!Confirmed(row) = Confirmed(row)
  BY DEF Atomic!Pending, Pending, Atomic!Refusals, Refusals, Atomic!Refused, Refused,
     Atomic!Confirmed, Confirmed
<1>2. \A r : Atomic!OwnsVehicle(r) = OwnsVehicle(r)
  BY DEF Atomic!OwnsVehicle, OwnsVehicle
<1>3. \A r : Atomic!ServiceEnd(r) = ServiceEnd(r)
  BY DEF Atomic!ServiceEnd, ServiceEnd
<1>4. \A r : Atomic!RequestHash(r) = RequestHash(r)
  BY <1>3 DEF Atomic!RequestHash, RequestHash
<1>5. \A r, id : Atomic!CompletedRow(r, id) = CompletedRow(r, id)
  BY <1>4 DEF Atomic!CompletedRow, CompletedRow
<1>6. \A r, id, t, b : Atomic!AppointmentFor(id, r, t, b) = AppointmentFor(id, r, t, b)
  BY <1>3 DEF Atomic!AppointmentFor, AppointmentFor
<1>7. \A rows, r : Atomic!Busy(rows, r) = Busy(rows, r)
  BY <1>3 DEF Atomic!Busy, Busy, Atomic!Overlap, Overlap, Atomic!Slot, Slot
<1>8. ASSUME NEW rows, NEW r
      PROVE  /\ Atomic!AvailableTechnicians(rows, r) = AvailableTechnicians(rows, r)
             /\ Atomic!AvailableBays(rows, r) = AvailableBays(rows, r)
  BY <1>7 DEF Atomic!AvailableTechnicians, AvailableTechnicians, Atomic!AvailableBays,
     AvailableBays, Atomic!Qualified, Qualified, Atomic!Compatible, Compatible
<1>9. \A rows, r : Atomic!Contested(rows, r) = Contested(rows, r)
  BY <1>7, <1>8 DEF Atomic!Contested, Contested, Atomic!Qualified, Qualified,
     Atomic!Compatible, Compatible
<1>10. QED
  BY <1>1, <1>2, <1>4, <1>5, <1>6, <1>8, <1>9

NextOrGiven == Atomic!Next \/ \E a \in Attempts : BookGiven(a)

Outcomes == [a \in Attempts |-> Outcome(a)]

\* What an attempt shows there: its row once that is there, nothing as long as it is
\* under way without.
LEMMA OutcomeOf ==
  ASSUME IndInv, NEW a \in Attempts
  PROVE  /\ \A row \in Booked(a) : Booked(a) = {row} /\ Outcome(a) = Confirmed(row)
         /\ pc[a] # "end" /\ Booked(a) = {} => Outcome(a) = Pending
<1>1. ASSUME NEW row \in Booked(a)
      PROVE  Booked(a) = {row} /\ Outcome(a) = Confirmed(row)
  <2>1. Booked(a) = {row}
    BY DEF IndInv, Bookings, Booked
  <2>2. QED
    BY <2>1 DEF Outcome
<1>2. ASSUME pc[a] # "end", Booked(a) = {}
      PROVE  Outcome(a) = Pending
  BY <1>2 DEF IndInv, Progress, Outcome, Pending
<1>3. QED
  BY <1>1, <1>2

\* Whoever has no new row, and has one or is told nothing new, keeps its outcome.
LEMMA SameOutcome ==
  ASSUME IndInv, NEW a \in Attempts, Booked(a)' = Booked(a),
         Booked(a) # {} \/ answer'[a] = answer[a]
  PROVE  Outcome(a)' = Outcome(a)
<1>1. CASE Booked(a) = {}
  BY <1>1 DEF Outcome
<1>2. CASE Booked(a) # {}
  <2>1. PICK row : Booked(a) = {row}
    BY <1>2, OutcomeOf
  <2>2. Outcome(a) = Confirmed(row)
    BY <2>1 DEF Outcome
  <2>3. Outcome(a)' = Confirmed(row)
    BY <2>1 DEF Outcome
  <2>4. QED
    BY <2>2, <2>3
<1>3. QED
  BY <1>1, <1>2

\* A step that writes no row changes nobody's outcome but that of the attempt that is
\* told something.
LEMMA OnlyTold ==
  ASSUME IndInv, NEW a \in Attempts, UNCHANGED <<request, appointments>>, NEW what,
         answer' = [answer EXCEPT ![a] = what]
  PROVE  /\ BookedKeys' = BookedKeys
         /\ \A b \in Attempts \ {a} : Outcome(b)' = Outcome(b)
         /\ Booked(a) # {} => Outcomes' = Outcomes
         /\ Booked(a) = {} => Outcomes' = [Outcomes EXCEPT ![a] =
              IF what.outcome \in {"in_progress", "conflict"} THEN Refused("error") ELSE what]
<1>1. \A b \in Attempts : Booked(b)' = Booked(b)
  BY DEF Booked
<1>2. BookedKeys' = BookedKeys
  BY <1>1 DEF BookedKeys
<1>3. answer'[a] = what /\ \A b \in Attempts \ {a} : answer'[b] = answer[b]
  BY DEF IndInv, TypeOK
<1>4. \A b \in Attempts \ {a} : Outcome(b)' = Outcome(b)
  BY <1>1, <1>3, SameOutcome
<1>5. Booked(a) # {} => Outcome(a)' = Outcome(a)
  BY <1>1, SameOutcome
<1>6. Booked(a) = {} =>
        Outcome(a)' = IF what.outcome \in {"in_progress", "conflict"} THEN Refused("error")
                      ELSE what
  BY <1>1, <1>3 DEF Outcome
<1>7. QED
  BY <1>2, <1>4, <1>5, <1>6 DEF Outcomes

\* An attempt that has not booked is refused there as it is here, for what is about a
\* claim only with an error.
LEMMA RefusalRefines ==
  ASSUME IndInv, NEW a \in Attempts, pc[a] # "end", NEW outcome \in Refusals,
         Return(a, Refused(outcome)), UNCHANGED appointments,
         outcome \in {"error", "in_progress", "conflict"} \/ Atomic!Truthful(a, outcome)
  PROVE  [Atomic!Next]_Atomic!vars
<1>1. answer' = [answer EXCEPT ![a] = Refused(outcome)] /\ request' = request
  BY DEF Return, input
<1> DEFINE told == IF outcome \in {"in_progress", "conflict"} THEN "error" ELSE outcome
<1>2. /\ BookedKeys' = BookedKeys
      /\ Booked(a) # {} => Outcomes' = Outcomes
      /\ Booked(a) = {} => Outcomes' = [Outcomes EXCEPT ![a] = Refused(told)]
  BY <1>1, OnlyTold DEF Refused
<1>3. CASE Booked(a) # {}
  BY <1>1, <1>2, <1>3 DEF Atomic!vars, Outcomes
<1>4. CASE Booked(a) = {}
  <2>1. Outcomes[a] = Pending
    BY <1>4, OutcomeOf DEF Outcomes
  <2>2. request[a] # Null
    BY BookingDataAssumption DEF IndInv, TypeOK
  <2>3. Atomic!Truthful(a, told) /\ told \in Refusals
    BY AtomicOperators DEF Atomic!Truthful, Refusals
  <2>4. Atomic!Refuse(a, told)
    BY <1>1, <1>2, <1>4, <2>1, <2>2, <2>3, AtomicOperators DEF Atomic!Refuse, Outcomes
  <2>5. QED
    BY <2>3, <2>4, AtomicOperators DEF Atomic!Next, Atomic!Serve
<1>5. QED
  BY <1>3, <1>4

\* Whoever holds a key and has not booked: nobody has under that key.
LEMMA HolderUnclaimed ==
  ASSUME IndInv, NEW a \in Attempts, pc[a] \in Holding, Booked(a) = {}
  PROVE  Atomic!Unclaimed(request[a].key)
<1>1. \A c \in Attempts : Booked(c) # {} => request[c].key # request[a].key
  BY DEF IndInv, KeysBookOnce, SameKey
<1>2. \A c \in Attempts : CompletedRow(request[c], c).key = request[c].key
  BY DEF CompletedRow
<1>3. QED
  BY <1>1, <1>2 DEF BookedKeys, Atomic!Unclaimed, Atomic!Claimed

\* A row is inserted: its key has booked nothing yet and both resources are free.  If
\* nothing is given, both are known to be fit.
LEMMA InsertRefines ==
  ASSUME IndInv, NEW a \in Attempts, pc[a] = "insert", WriteRow(a), request' = request,
         NEW what, answer' = [answer EXCEPT ![a] = what]
  PROVE  NextOrGiven
<1>1. PICK t \in Technicians, b \in Bays :
        /\ AsGiven(a, t, b)
        /\ Candidate(a) = AppointmentFor(a, request[a], t, b)
        /\ Candidate(a) \in AppointmentRows(AppointmentIds)
        /\ Candidate(a).id = a
  BY CandidateAsGiven
<1> DEFINE r == request[a]
           row == AppointmentFor(a, r, t, b)
<1>2. /\ appointments' = appointments \cup {row}
      /\ \A y \in appointments : ~TechnicianClash(row, y) /\ ~BayClash(row, y)
  BY <1>1 DEF WriteRow, Clash
<1>3. /\ r \in Requests /\ r # Null /\ OwnsVehicle(r) /\ r.service \in Services
      /\ r.key # EmptyKey
  BY BookingDataAssumption, FallbackBookingAssumption DEF IndInv, TypeOK, Progress, Valid
<1>4. \A y \in Busy(appointments, r) : y.technician # t /\ y.bay # b
  <2> SUFFICES ASSUME NEW y \in Busy(appointments, r)
               PROVE  y.technician # t /\ y.bay # b
    OBVIOUS
  <2>1. y \in appointments /\ y \in AppointmentRows(AppointmentIds)
    BY DEF Busy, IndInv, TypeOK
  <2>2. /\ row.start = Slot(r).start /\ row.end = Slot(r).end
        /\ row.status = "confirmed" /\ row.technician = t /\ row.bay = b
    BY DEF AppointmentFor, Slot
  <2>3. BothConfirmed(row, y)
    BY <1>1, <2>1, <2>2 DEF Busy, BothConfirmed, Overlap, AppointmentRows
  <2>4. QED
    BY <1>2, <2>1, <2>2, <2>3 DEF TechnicianClash, BayClash
<1>5. Booked(a) = {}
  BY DEF IndInv, Bookings
<1>6. ~Atomic!Claimed(r.key)
  BY <1>5, HolderUnclaimed DEF Holding, Atomic!Unclaimed
<1>7. /\ Booked(a)' = {row}
      /\ \A c \in Attempts \ {a} : Booked(c)' = Booked(c)
  BY <1>1, <1>2, <1>5 DEF Booked
<1>8. BookedKeys' = BookedKeys \cup {CompletedRow(r, a)}
  <2>1. \A key : key \in BookedKeys <=>
          \E c \in Attempts : Booked(c) # {} /\ key = CompletedRow(request[c], c)
    BY DEF BookedKeys
  <2>2. \A key : key \in BookedKeys' <=>
          \E c \in Attempts : Booked(c)' # {} /\ key = CompletedRow(request'[c], c)
    BY DEF BookedKeys
  <2>3. \A c \in Attempts : Booked(c)' # {} <=> Booked(c) # {} \/ c = a
    BY <1>7
  <2>4. \A key : key \in BookedKeys' <=>
          key \in BookedKeys \/ key = CompletedRow(request[a], a)
    BY <2>1, <2>2, <2>3
  <2>5. QED
    BY <2>4
<1>9. Outcomes[a] = Pending /\ Outcomes' = [Outcomes EXCEPT ![a] = Confirmed(row)]
  <2>1. Outcome(a) = Pending
    BY <1>5, OutcomeOf
  <2>2. Outcome(a)' = Confirmed(row)
    BY <1>7 DEF Outcome
  <2>3. \A c \in Attempts \ {a} : Outcome(c)' = Outcome(c)
    BY <1>7, SameOutcome DEF IndInv, TypeOK
  <2>4. QED
    BY <2>1, <2>2, <2>3 DEF Outcomes
<1>10. Atomic!Enter(a, t, b)
  BY <1>2, <1>3, <1>6, <1>8, <1>9, AtomicOperators DEF Atomic!Enter, Outcomes
<1>11. CASE given[a] = [technician |-> Null, bay |-> Null]
  <2>1. /\ t \in AvailableTechnicians(appointments, r)
        /\ b \in AvailableBays(appointments, r)
    BY <1>1, <1>4, <1>11 DEF AsGiven, AvailableTechnicians, AvailableBays
  <2>2. Atomic!Book(a, t, b)
    BY <1>10, <2>1, AtomicOperators DEF Atomic!Book
  <2>3. QED
    BY <2>2 DEF NextOrGiven, Atomic!Next, Atomic!Serve
<1>12. CASE given[a] # [technician |-> Null, bay |-> Null]
  BY <1>1, <1>4, <1>10, <1>12 DEF BookGiven, NextOrGiven
<1>13. QED
  BY <1>11, <1>12

\* Every step is a step of AtomicBooking or a stutter there, or books what was given.
LEMMA StepRefines ==
  ASSUME IndInv, [Next]_vars
  PROVE  [NextOrGiven]_Atomic!vars
<1>a. TypeOK /\ Progress /\ Selections /\ Bookings
  BY DEF IndInv
<1>b. UNCHANGED <<request, appointments, answer>> => [Atomic!Next]_Atomic!vars
  BY DEF Atomic!vars, BookedKeys, Booked, Outcome
<1>c. [Atomic!Next]_Atomic!vars => [NextOrGiven]_Atomic!vars
  BY DEF NextOrGiven
<1>d. ASSUME NEW a \in Attempts, pc[a] # "end", Return(a, Refused("error")),
             UNCHANGED appointments
      PROVE  [Atomic!Next]_Atomic!vars
  BY <1>d, RefusalRefines DEF Refusals
<1>1. ASSUME NEW a \in Attempts, RejectMissingKey(a) PROVE [Atomic!Next]_Atomic!vars
  <2>1. Atomic!Truthful(a, "key_required")
    BY <1>1 DEF RejectMissingKey, Atomic!Truthful
  <2>2. QED
    BY <1>1, <2>1, RefusalRefines DEF RejectMissingKey, Refuse, Refusals, tables
<1>2. ASSUME NEW a \in Attempts, LoadServiceType(a) PROVE [Atomic!Next]_Atomic!vars
  BY <1>b, <1>d, <1>2 DEF LoadServiceType, Refuse, tables, input
<1>3. ASSUME NEW a \in Attempts, ClaimKey(a) PROVE [Atomic!Next]_Atomic!vars
  BY <1>b, <1>3 DEF ClaimKey, WriteClaim, tables, input
<1>4. ASSUME NEW a \in Attempts, LookUp(a) PROVE [Atomic!Next]_Atomic!vars
  <2>1. \/ UNCHANGED <<request, answer, appointments>>
        \/ \E outcome \in {"in_progress", "conflict"} :
             pc[a] # "end" /\ Return(a, Refused(outcome)) /\ UNCHANGED appointments
    BY <1>4 DEF LookUp, Refuse, tables, input
  <2>2. QED
    BY <1>b, <2>1, RefusalRefines DEF Refusals
<1>5. ASSUME NEW a \in Attempts, Replay(a) PROVE [Atomic!Next]_Atomic!vars
  <2>1. PICK existing \in idempotency, row \in appointments :
          /\ existing.key = request[a].key
          /\ existing.appointment = row.id
          /\ Return(a, Confirmed(row))
    BY <1>5 DEF Replay
  <2>2. /\ pc[a] = "replay" /\ UNCHANGED <<request, appointments>>
        /\ answer' = [answer EXCEPT ![a] = Confirmed(row)]
    BY <1>5, <2>1 DEF Replay, Return, tables, input
  <2>3. PICK b \in Attempts : row \in Booked(b) /\ request[b] = request[a]
    BY <2>1, <2>2, ReplayedRow
  <2>4. CompletedRow(request[a], row.id) \in BookedKeys
    BY <2>3 DEF BookedKeys, Booked
  <2>5. Booked(a) = {}
    BY <1>a, <2>2 DEF Bookings
  <2>6. /\ BookedKeys' = BookedKeys
        /\ Outcomes' = [Outcomes EXCEPT ![a] = Confirmed(row)]
    BY <2>2, <2>5, OnlyTold DEF Confirmed
  <2>7. Outcomes[a] = Pending
    BY <2>2, <2>5, OutcomeOf DEF Outcomes
  <2>8. request[a] # Null /\ request[a].service \in Services
    BY <1>a, <2>2, BookingDataAssumption DEF TypeOK, Progress, Valid
  <2>9. Atomic!Replay(a, row)
    BY <2>2, <2>4, <2>6, <2>7, <2>8, AtomicOperators DEF Atomic!Replay, Outcomes
  <2>10. QED
    BY <2>9 DEF Atomic!Next, Atomic!Serve
<1>6. ASSUME NEW a \in Attempts, FindTechnicians(a) PROVE [Atomic!Next]_Atomic!vars
  BY <1>b, <1>6 DEF FindTechnicians, tables, input
<1>7. ASSUME NEW a \in Attempts, FindBays(a) PROVE [Atomic!Next]_Atomic!vars
  <2>1. CASE UNCHANGED <<input, answer>>
    BY <1>b, <1>7, <2>1 DEF FindBays, tables, input
  <2>2. CASE /\ technicians[a] = {} \/ AvailableBays(appointments, request[a]) = {}
             /\ Refuse(a, "no_availability")
    <3>1. Contested(appointments, request[a])
      BY <1>a, <1>7, <2>2, EmptyIsContested DEF FindBays, Selections
    <3>2. Atomic!Unclaimed(request[a].key)
      BY <1>a, <1>7, HolderUnclaimed DEF FindBays, Bookings, Holding
    <3>3. Atomic!Truthful(a, "no_availability")
      BY <1>a, <1>7, <3>1, <3>2, AtomicOperators DEF FindBays, Progress, Valid, Atomic!Truthful
    <3>4. QED
      BY <1>7, <2>2, <3>3, RefusalRefines DEF FindBays, Refuse, Refusals, tables
  <2>3. QED
    BY <1>7, <2>1, <2>2 DEF FindBays
<1>8. ASSUME NEW a \in Attempts, InsertRow(a) PROVE [NextOrGiven]_Atomic!vars
  <2>1. CASE WriteRow(a) /\ UNCHANGED <<input, answer>>
    <3>1. answer' = [answer EXCEPT ![a] = answer[a]] /\ request' = request
      BY <1>a, <2>1 DEF TypeOK, input
    <3>2. QED
      BY <1>8, <2>1, <3>1, InsertRefines DEF InsertRow
  <2>2. CASE Refuse(a, "error") /\ UNCHANGED tables
    BY <1>c, <1>d, <1>8, <2>2 DEF InsertRow, Refuse, tables
  <2>3. QED
    BY <1>8, <2>1, <2>2 DEF InsertRow
<1>9. ASSUME NEW a \in Attempts, Complete(a) PROVE [Atomic!Next]_Atomic!vars
  <2>1. PICK row \in appointments : row.id = a /\ Return(a, Confirmed(row))
    BY <1>9 DEF Complete
  <2>2. /\ UNCHANGED <<request, appointments>>
        /\ answer' = [answer EXCEPT ![a] = Confirmed(row)]
    BY <1>9, <2>1 DEF Complete, WriteCompletion, Return, input
  <2>3. Booked(a) # {}
    BY <2>1 DEF Booked
  <2>4. BookedKeys' = BookedKeys /\ Outcomes' = Outcomes
    BY <2>2, <2>3, OnlyTold
  <2>5. QED
    BY <2>2, <2>4 DEF Atomic!vars, Outcomes
<1>10. ASSUME NEW a \in Attempts, StatementFails(a) PROVE [NextOrGiven]_Atomic!vars
  <2>1. CASE UNCHANGED appointments
    BY <1>c, <1>d, <1>10, <2>1 DEF StatementFails
  <2>2. CASE pc[a] = "insert" /\ WriteRow(a)
    BY <1>10, <2>2, InsertRefines DEF StatementFails, Return, input
  <2>3. QED
    BY <1>10, <2>1, <2>2 DEF StatementFails, WriteClaim, WriteCompletion, tables
<1>11. ASSUME UNCHANGED vars PROVE [Atomic!Next]_Atomic!vars
  <2>1. UNCHANGED <<request, appointments, answer>>
    BY <1>11, InputStays DEF vars
  <2>2. QED
    BY <1>b, <2>1
<1>12. QED
  BY <1>c, <1>1, <1>2, <1>3, <1>4, <1>5, <1>6, <1>7, <1>8, <1>9, <1>10, <1>11
  DEF Next, Step

\* Without a transaction around them the statements book atomically: every step is one
\* of AtomicBooking, or books an unchecked technician or bay that the caller has given,
\* in one step too, where both are free and the key has booked nothing.
THEOREM BooksLikeATransaction == Spec => BooksAtomically
<1>1. Init => Atomic!Init
  <2> SUFFICES ASSUME Init PROVE Atomic!Init
    OBVIOUS
  <2>1. \A a \in Attempts : Booked(a) = {}
    BY BookingDataAssumption DEF Init, Booked, AppointmentRows
  <2>2. BookedKeys = {}
    BY <2>1 DEF BookedKeys
  <2>3. \A a \in Attempts : Outcome(a) = Pending
    BY <2>1 DEF Init, Outcome, Pending
  <2>4. QED
    BY <2>2, <2>3, AtomicOperators, InitIndInv DEF Init, Atomic!Init, IndInv, TypeOK
<1>2. IndInv /\ [Next]_vars =>
        [Atomic!Next \/ \E a \in Attempts : BookGiven(a)]_Atomic!vars
  BY StepRefines DEF NextOrGiven
<1>3. QED
  BY <1>1, <1>2, Invariance, PTL DEF Spec, BooksAtomically

\* Where no caller gives anything, as the handler does not, FallbackBooking implements
\* AtomicBooking.
THEOREM UngivenImplementsAtomic ==
  ASSUME \A i \in Inputs : i.given = [technician |-> Null, bay |-> Null]
  PROVE  Spec => Atomic!Spec
<1> DEFINE Ungiven == \A a \in Attempts : given[a] = [technician |-> Null, bay |-> Null]
<1>1. Init => Ungiven
  BY DEF Init
<1>2. Ungiven /\ [Next]_vars => Ungiven'
  BY DEF Next, Step, vars, input, RejectMissingKey, LoadServiceType, ClaimKey, LookUp, Replay,
     FindTechnicians, FindBays, InsertRow, Complete, StatementFails, Refuse, Return
<1>3. /\ Ungiven
      /\ [Atomic!Next \/ \E a \in Attempts : BookGiven(a)]_Atomic!vars
      => [Atomic!Next]_Atomic!vars
  BY DEF BookGiven
<1>4. Spec => []Ungiven
  <2> HIDE DEF Ungiven
  <2>1. QED
    BY <1>1, <1>2, PTL DEF Spec
<1>5. QED
  <2> HIDE DEF Ungiven
  <2>1. QED
    BY <1>3, <1>4, BooksLikeATransaction, PTL DEF BooksAtomically, Atomic!Spec

=============================================================================
