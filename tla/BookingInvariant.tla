-------------------------- MODULE BookingInvariant --------------------------
(***************************************************************************)
(* The inductive invariant behind the safety properties of Booking: what   *)
(* has been established by the statement an attempt has reached, and what  *)
(* uncommitted transactions may never share with each other or with the    *)
(* committed tables.                                                       *)
(***************************************************************************)
EXTENDS Booking

\* Statements that follow each of these successes.
Inserted == {"technicianIndex", "bayIndex", "complete", "commit"}
PastTechnicianIndex == {"bayIndex", "complete", "commit"}
PastBayIndex == {"complete", "commit"}
OwnerKnown == {"technicians", "bays", "insert"} \cup Inserted

\* Who has a transaction, who is still to be answered, how the others were.
Progress ==
  \A a \in Attempts :
    /\ conn[a] = "none" <=> pc[a] \in {"service", "begin", "end"}
    /\ pc[a] # "end" /\ conn[a] # "lost" => answer[a] = Pending
    /\ conn[a] = "lost" => answer[a] = Refused("error")
    /\ pc[a] \in Statements \ {"service"} =>
         request[a].service \in Services /\ request[a].key # EmptyKey
    /\ pc[a] \in OwnerKnown => OwnsVehicle(request[a])

\* The candidates, and the row made of the first of each kind.
Candidates ==
  \A a \in Attempts :
    /\ \A t \in technicians[a] : Qualified(t, request[a])
    /\ \A b \in bays[a] : Compatible(b, request[a])
    /\ pc[a] = "insert" => technicians[a] # {} /\ bays[a] # {}
    /\ pc[a] \in Inserted =>
         \E t \in Technicians, b \in Bays :
           /\ Qualified(t, request[a])
           /\ Compatible(b, request[a])
           /\ inserted[a] = {AppointmentFor(a, request[a], t, b)}
    /\ pc[a] \notin Inserted => inserted[a] = {}

\* At most one open transaction holds a key, and only an unused one.
KeyHeldOnce ==
  \A a \in Attempts :
    HoldsKey(a) =>
      /\ ~KeyTaken(a)
      /\ \A b \in Attempts :
           HoldsKey(b) /\ request[a].key = request[b].key => a = b

\* A row that has passed an index clashes there with no other that has.
TechniciansReserved ==
  /\ \A x, y \in appointments : x # y => ~TechnicianClash(x, y)
  /\ \A a \in Attempts :
       pc[a] \in PastTechnicianIndex =>
         /\ ~TechnicianTaken(a)
         /\ \A b \in Attempts \ {a} :
              pc[b] \in PastTechnicianIndex => ~TechnicianWait(a, b)

BaysReserved ==
  /\ \A x, y \in appointments : x # y => ~BayClash(x, y)
  /\ \A a \in Attempts :
       pc[a] \in PastBayIndex =>
         /\ ~BayTaken(a)
         /\ \A b \in Attempts \ {a} :
              pc[b] \in PastBayIndex => ~BayWait(a, b)

\* The committed rows: at most one of an id or a key, each made by an attempt
\* that is over and matched in the other table.
Records ==
  /\ \A x, y \in appointments : x.id = y.id => x = y
  /\ \A x, y \in idempotency : x.key = y.key => x = y
  /\ \A row \in appointments :
       row.id \in Attempts => pc[row.id] = "end" /\ OwnsVehicle(request[row.id])
  /\ RecordsMatchBookings

\* A record made by a for the very request of a.
Mine(a, rec) == rec.key = request[a].key /\ rec.hash = RequestHash(request[a])

\* What was answered, or is about to be, is on record.
AnswersOnRecord ==
  \A a \in Attempts :
    /\ pc[a] = "replay" => \E rec \in idempotency : Mine(a, rec)
    /\ answer[a].outcome = "confirmed" =>
         /\ answer[a].appointment \in appointments
         /\ request[a].service \in Services
         /\ \E rec \in idempotency :
              Mine(a, rec) /\ rec.appointment = answer[a].appointment.id

\* An empty list of technicians has a cause, and so has a refusal.
Cause(a) == Contested(appointments, request[a])

RefusalsCaused ==
  \A a \in Attempts :
    \/ pc[a] = "bays" /\ technicians[a] = {}
    \/ answer[a].outcome = "no_availability"
    => Cause(a)

IndInv ==
  /\ TypeOK
  /\ Progress
  /\ Candidates
  /\ KeyHeldOnce
  /\ TechniciansReserved
  /\ BaysReserved
  /\ Records
  /\ AnswersOnRecord
  /\ RefusalsCaused

=============================================================================
