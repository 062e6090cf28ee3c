--------------------------- MODULE BookingLemmas ----------------------------
(***************************************************************************)
(* Facts about the operators every module on booking is made of: the first *)
(* row of a query, the types of the rows, clashes and digests, and lack of *)
(* availability.                                                           *)
(***************************************************************************)
EXTENDS BookingData, WellFoundedInduction, TLAPS

Below == {p \in Nat \X Nat : p[1] < p[2]}

\* ORDER BY id: element 0 of a list of ids that is not empty is one of them.
LEMMA FirstInSet ==
  ASSUME NEW S, S \subseteq Nat, S # {}
  PROVE  First(S) \in S
<1>1. OpToRel(<, Nat) = Below
  BY Zenon DEF OpToRel, Below
<1>2. PICK x \in S : \A y \in S : <<y, x>> \notin Below
  BY <1>1, NatLessThanWellFounded, WFMin
<1>3. ASSUME NEW y \in S PROVE x <= y
  <2>1. x \in Nat /\ y \in Nat
    OBVIOUS
  <2>2. y < x => <<y, x>> \in Below
    BY <2>1 DEF Below
  <2>3. QED
    BY <1>2, <2>1, <2>2
<1>4. QED
  BY <1>3 DEF First

\* The exclusion constraints do not care which row came first.
LEMMA ClashSymmetric ==
  ASSUME NEW x \in AppointmentRows(AppointmentIds), NEW y \in AppointmentRows(AppointmentIds)
  PROVE  /\ TechnicianClash(x, y) <=> TechnicianClash(y, x)
         /\ BayClash(x, y) <=> BayClash(y, x)
BY DEF AppointmentRows, TechnicianClash, BayClash, BothConfirmed, Overlap

\* The row that books a valid request is a row of the table.
LEMMA AppointmentForType ==
  ASSUME NEW a \in Attempts, NEW r \in Requests, r.service \in Services,
         NEW t \in Technicians, NEW b \in Bays
  PROVE  AppointmentFor(a, r, t, b) \in AppointmentRows(AppointmentIds)
<1>1. r.start \in Nat /\ DurationMinutes[r.service] \in Nat
  BY BookingDataAssumption, SchedulingAssumption
<1>2. ServiceEnd(r) \in Nat
  BY <1>1 DEF ServiceEnd
<1>3. QED
  BY <1>1, <1>2, BookingDataAssumption
  DEF AppointmentFor, AppointmentRows, AppointmentIds

\* The record of a valid request is a record of its table.
LEMMA CompletedRowType ==
  ASSUME NEW r \in Requests, r.service \in Services, NEW a \in Attempts
  PROVE  CompletedRow(r, a) \in IdempotencyRows
<1>1. ServiceEnd(r) \in Nat
  BY BookingDataAssumption, SchedulingAssumption DEF ServiceEnd
<1>2. QED
  BY <1>1, BookingDataAssumption
  DEF CompletedRow, IdempotencyRows, RequestHashes, RequestHash, AppointmentIds

\* What an attempt may be answered.
LEMMA AnswerTypes ==
  /\ Pending \in Answers
  /\ \A outcome \in Refusals : Refused(outcome) \in Answers
  /\ \A row \in AppointmentRows(AppointmentIds) : Confirmed(row) \in Answers
BY DEF Pending, Refused, Confirmed, Answers

\* Two requests of one digest ask for the same booking; under one key they are equal.
LEMMA SameDigest ==
  ASSUME NEW r \in Requests, NEW s \in Requests, RequestHash(r) = RequestHash(s)
  PROVE  /\ OwnsVehicle(r) <=> OwnsVehicle(s)
         /\ \A row : Fulfils(row, r) <=> Fulfils(row, s)
         /\ r.key = s.key => r = s
<1>1. /\ r.customer = s.customer /\ r.vehicle = s.vehicle
      /\ r.dealership = s.dealership /\ r.service = s.service
      /\ r.start = s.start
  BY DEF RequestHash
<1>2. r.key = s.key => r = s
  BY <1>1, BookingDataAssumption
<1>3. QED
  BY <1>1, <1>2 DEF OwnsVehicle, Fulfils, Qualified, Compatible, AppointmentFor, ServiceEnd

\* A request that finds an empty list is contested.
LEMMA EmptyIsContested ==
  ASSUME NEW rows, NEW r, AvailableTechnicians(rows, r) = {} \/ AvailableBays(rows, r) = {}
  PROVE  Contested(rows, r)
BY DEF AvailableTechnicians, AvailableBays, Contested, Busy

\* A request that is contested stays so as rows are added.
LEMMA ContestedGrows ==
  ASSUME NEW rows, NEW more, NEW r, rows \subseteq more, Contested(rows, r)
  PROVE  Contested(more, r)
BY DEF Contested, Busy

=============================================================================
