----------------------------- MODULE Scheduling -----------------------------
(***************************************************************************)
(* The reference tables of the scheduler (dealership staff, bays, services *)
(* and vehicles), the rows of its appointments table, and the rules its    *)
(* SQL is made of: half-open interval overlap, the two availability        *)
(* queries, and the two exclusion constraints.                             *)
(*                                                                         *)
(* No code of the repository writes the reference tables, so they are      *)
(* constants.  Instants are numbers of minutes.                            *)
(***************************************************************************)
EXTENDS Naturals

CONSTANTS
  Customers, Vehicles, Dealerships, ServiceIds,  \* identifiers a request may carry
  Technicians, Bays,     \* ids of those tables; uuids, ordered like numbers
  Services,              \* ids of the rows of service_types
  DurationMinutes,       \* service_types.duration_minutes
  RequiredSkill,         \* service_types.required_skill
  TechnicianDealership,  \* technicians.dealership_id
  TechnicianSkills,      \* technician_skills: <<technician, skill>>
  BayDealership,         \* service_bays.dealership_id
  BayCapabilities,       \* service_bay_capabilities: <<bay, service>>
  VehicleOwners          \* vehicles: <<vehicle, customer>>

ASSUME SchedulingAssumption ==
  /\ Technicians \subseteq Nat
  /\ Bays \subseteq Nat
  /\ Services \subseteq ServiceIds
  /\ DurationMinutes \in [Services -> Nat \ {0}]  \* CHECK (duration_minutes > 0)

-----------------------------------------------------------------------------
(* Rows and intervals. *)

\* The rows of appointments whose id is in ids.
AppointmentRows(ids) ==
  [id: ids, customer: Customers, vehicle: Vehicles, dealership: Dealerships,
   technician: Technicians, bay: Bays, service: Services,
   start: Nat, end: Nat, status: {"confirmed", "cancelled", "completed"}]

ServiceEnd(r) == r.start + DurationMinutes[r.service]

\* The interval a request asks for.
Slot(r) == [start |-> r.start, end |-> ServiceEnd(r)]

\* [start, end) intervals that share an instant.
Overlap(x, y) == x.start < y.end /\ x.end > y.start

\* The row that books technician t and bay b for request r.
AppointmentFor(id, r, t, b) ==
  [id |-> id, customer |-> r.customer, vehicle |-> r.vehicle,
   dealership |-> r.dealership, technician |-> t, bay |-> b,
   service |-> r.service, start |-> r.start, end |-> ServiceEnd(r),
   status |-> "confirmed"]

\* A digest taken before the end of the appointment is known.
MutantRequestHash(r) ==
  [customer |-> r.customer, vehicle |-> r.vehicle, dealership |-> r.dealership,
   service |-> r.service, start |-> r.start]

\* What hashCreateAppointmentInput digests.  SHA-256 is taken to be injective,
\* so the digest is represented by the fields themselves.  TechnicianID and
\* ServiceBayID are digested too; the handler leaves both null, and FallbackBooking,
\* where they need not be, adds them.
RequestHash(r) ==
  [customer |-> r.customer, vehicle |-> r.vehicle, dealership |-> r.dealership,
   service |-> r.service, start |-> r.start, end |-> ServiceEnd(r)]

-----------------------------------------------------------------------------
(* Who can serve a request, and who is free to. *)

OwnsVehicle(r) == <<r.vehicle, r.customer>> \in VehicleOwners

Qualified(t, r) ==
  /\ TechnicianDealership[t] = r.dealership
  /\ <<t, RequiredSkill[r.service]>> \in TechnicianSkills

Compatible(b, r) ==
  /\ BayDealership[b] = r.dealership
  /\ <<b, r.service>> \in BayCapabilities

\* The appointments that make a resource unavailable for request r.
Busy(rows, r) ==
  {row \in rows : row.status = "confirmed" /\ Overlap(row, Slot(r))}

AvailableTechnicians(rows, r) ==
  {t \in Technicians : /\ Qualified(t, r)
                       /\ \A row \in Busy(rows, r) : row.technician # t}

AvailableBays(rows, r) ==
  {b \in Bays : /\ Compatible(b, r)
                /\ \A row \in Busy(rows, r) : row.bay # b}

\* The dealership could not serve r on an empty calendar, or an appointment
\* overlaps it on a resource that could.
Contested(rows, r) ==
  \/ AvailableTechnicians({}, r) = {}
  \/ AvailableBays({}, r) = {}
  \/ \E row \in Busy(rows, r) : Qualified(row.technician, r) \/ Compatible(row.bay, r)

\* ORDER BY id, element 0.
First(S) == CHOOSE i \in S : \A j \in S : i <= j

-----------------------------------------------------------------------------
(* The exclusion constraints: pairs of rows the table may not both hold. *)

BothConfirmed(x, y) ==
  /\ x.status = "confirmed" /\ y.status = "confirmed"
  /\ Overlap(x, y)

TechnicianClash(x, y) == x.technician = y.technician /\ BothConfirmed(x, y)

BayClash(x, y) == x.bay = y.bay /\ BothConfirmed(x, y)

=============================================================================
