------------------------------ MODULE Readers -------------------------------
(***************************************************************************)
(* The GET endpoints of the API.  A handler checks its parameters, runs    *)
(* one SELECT on the committed rows, and answers with a status and rows.   *)
(* Nothing is changed, so each is a function of the rows it sees, and of   *)
(* whether its query works.                                                *)
(*                                                                         *)
(* The joins of the detail queries neither lose nor double a row: their    *)
(* columns are foreign keys, and users.customer_id is unique.              *)
(*                                                                         *)
(* main passes an AuthService to the router, so the branches for a handler *)
(* that has none are left out: in them nobody has a list of their own, and *)
(* whoever asks sees the appointments of all customers.                    *)
(***************************************************************************)
EXTENDS BookingData

CONSTANTS
  Users,       \* ids of the rows of users
  CustomerOf,  \* users.customer_id, unique
  Malformed    \* a parameter that does not parse, as uuid or as RFC 3339 time

ASSUME ReadersAssumption ==
  /\ CustomerOf \in [Users -> Customers]
  /\ \A u, v \in Users : CustomerOf[u] = CustomerOf[v] => u = v
  /\ Null \notin Users
  /\ Malformed \notin AppointmentIds \cup Vehicles \cup Dealerships \cup ServiceIds \cup Nat

Ok(rows) == [status |-> 200, rows |-> rows]
Fail(status) == [status |-> status, rows |-> {}]

\* currentUser: the X-User-ID header if it is a uuid, else the cookie; a uuid of
\* no user, and a lookup that fails, both leave the caller without a user.
CurrentUser(header, cookie, lookupWorks) ==
  LET id == IF header # Null THEN header ELSE cookie
  IN  IF lookupWorks /\ id \in Users THEN id ELSE Null

\* Any vehicle, whoever owns it.
MutantListVehicles(user) == Vehicles

\* The vehicles of the customer that the user is.
ListVehicles(user) == {v \in Vehicles : <<v, CustomerOf[user]>> \in VehicleOwners}

\* What the option lists of the booking form are filled with.
GetVehicles(user, works) ==
  IF user = Null THEN Fail(401) ELSE IF works THEN Ok(ListVehicles(user)) ELSE Fail(500)
ListServiceTypes(works) == IF works THEN Ok(Services) ELSE Fail(500)
ListDealerships(works) == IF works THEN Ok(Dealerships) ELSE Fail(500)

ParseInterval(from, to) == from # Malformed /\ to # Malformed /\ from < to

\* Only the appointments that begin in the window.
MutantInDealership(rows, dealership, from, to) ==
  {row \in rows : row.dealership = dealership /\ from <= row.start /\ row.start < to}

\* WHERE dealership_id = $1 AND start_time_utc < $2 AND end_time_utc > $3
InDealership(rows, dealership, from, to) ==
  {row \in rows : /\ row.dealership = dealership
                  /\ Overlap(row, [start |-> from, end |-> to])}

\* ListAppointmentDetailsForCustomer
OfCustomer(rows, customer) == {row \in rows : row.customer = customer}

GetAppointment(rows, id, user, works) ==
  LET found == {row \in rows : row.id = id}
  IN  IF id = Malformed THEN Fail(400)
      ELSE IF ~works THEN Fail(500)
      ELSE IF found = {} THEN Fail(404)
      ELSE IF user = Null THEN Fail(401)
      ELSE IF \E row \in found : row.customer # CustomerOf[user] THEN Fail(404)
      ELSE Ok(found)

\* The user is looked up after the query.
ListAppointments(rows, dealership, from, to, user, works) ==
  IF dealership = Malformed \/ ~ParseInterval(from, to) THEN Fail(400)
  ELSE IF ~works THEN Fail(500)
  ELSE IF user = Null THEN Fail(401)
  ELSE Ok(InDealership(rows, dealership, from, to) \cap OfCustomer(rows, CustomerOf[user]))

\* The admin page's list.
ListAppointmentDetails(rows, dealership, from, to, works) ==
  IF dealership = Malformed \/ ~ParseInterval(from, to) THEN Fail(400)
  ELSE IF ~works THEN Fail(500)
  ELSE Ok(InDealership(rows, dealership, from, to))

\* The user is looked up before the query.
ListCustomerAppointments(rows, user, works) ==
  IF user = Null THEN Fail(401)
  ELSE IF ~works THEN Fail(500)
  ELSE Ok(OfCustomer(rows, CustomerOf[user]))

\* Leaves the skill to the caller.
MutantTechnicianAvailable(rows, t, service, from, to) ==
  ~\E row \in rows : /\ row.technician = t
                     /\ row.status = "confirmed"
                     /\ Overlap(row, [start |-> from, end |-> to])

\* EXISTS (a qualifying skill) AND NOT EXISTS (a confirmed overlap)
TechnicianAvailable(rows, t, service, from, to) ==
  /\ service \in Services
  /\ <<t, RequiredSkill[service]>> \in TechnicianSkills
  /\ ~\E row \in rows : /\ row.technician = t
                        /\ row.status = "confirmed"
                        /\ Overlap(row, [start |-> from, end |-> to])

\* The admin page's technicians: every one of the dealership, with a flag.
ListTechnicianAvailability(rows, dealership, service, from, to, works) ==
  IF Malformed \in {dealership, service} \/ ~ParseInterval(from, to) THEN Fail(400)
  ELSE IF ~works THEN Fail(500)
  ELSE Ok({[id |-> t, available |-> TechnicianAvailable(rows, t, service, from, to)] :
             t \in {u \in Technicians : TechnicianDealership[u] = dealership}})

=============================================================================
