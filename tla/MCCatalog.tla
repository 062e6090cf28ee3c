----------------------------- MODULE MCCatalog ------------------------------
(***************************************************************************)
(* Reference tables for small instances.  One dealership d1 with two       *)
(* technicians and two bays, and a technician and a bay of another, d2.    *)
(* An oil change takes two units of time and any technician or bay of d1;  *)
(* a brake inspection takes three and needs technician 1 and bay 1.        *)
(***************************************************************************)
EXTENDS Naturals

MCCustomers == {"c1", "c2"}
MCVehicles == {"v1", "v2"}
MCDealerships == {"d1", "d2"}
MCServiceIds == {"oil", "brakes", "unknown"}
MCServices == {"oil", "brakes"}
MCDurationMinutes == [s \in MCServices |-> IF s = "oil" THEN 2 ELSE 3]
MCRequiredSkill == [s \in MCServices |-> IF s = "oil" THEN "general" ELSE "brakes"]
MCTechnicianDealership == [t \in 1..3 |-> IF t = 3 THEN "d2" ELSE "d1"]
MCTechnicianSkills ==
  {<<1, "general">>, <<1, "brakes">>, <<2, "general">>, <<3, "general">>, <<3, "brakes">>}
MCBayDealership == [b \in 1..3 |-> IF b = 3 THEN "d2" ELSE "d1"]
MCBayCapabilities ==
  {<<1, "oil">>, <<1, "brakes">>, <<2, "oil">>, <<3, "oil">>, <<3, "brakes">>}
MCVehicleOwners == {<<"v1", "c1">>, <<"v2", "c2">>}

SeedRow(id, t, b, start, end, status) ==
  [id |-> id, customer |-> "c1", vehicle |-> "v1", dealership |-> "d1",
   technician |-> t, bay |-> b, service |-> "oil", start |-> start, end |-> end,
   status |-> status]

\* A completed appointment that overlaps everything, and a confirmed one that
\* takes technician 1 and bay 2 from 7 to 9.
MCSeedAppointments ==
  {SeedRow("s1", 1, 1, 0, 9, "completed"), SeedRow("s2", 1, 2, 7, 9, "confirmed")}

=============================================================================
