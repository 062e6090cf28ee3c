------------------------- MODULE MCFallbackBooking --------------------------
(***************************************************************************)
(* Small instances of FallbackBooking.                                     *)
(***************************************************************************)
EXTENDS FallbackBooking, MCCatalog, TLC

Ask(key, c, v, service, start) ==
  [key |-> key, customer |-> c, vehicle |-> v, dealership |-> "d1",
   service |-> service, start |-> start]

\* A request that is sent twice, two that compete with it for technician 1 and
\* bay 1, one of them under its key, and two that are refused at once.
MCRequests ==
  {Ask("k1", "c1", "v1", "brakes", 1), Ask("k1", "c1", "v1", "brakes", 2),
   Ask("k2", "c2", "v2", "brakes", 2), Ask("k2", "c2", "v2", "oil", 5),
   Ask("", "c1", "v1", "oil", 1), Ask("k3", "c1", "v1", "unknown", 1)}

Call(r, technician, bay) ==
  [request |-> r, given |-> [technician |-> technician, bay |-> bay]]

\* Each request with nothing given; the first one also with a technician and a
\* bay that cannot do it, and its competitor with its technician alone, or with a
\* technician of the other dealership and that same bay.
MCInputs ==
  {Call(r, Null, Null) : r \in MCRequests} \cup
  {Call(Ask("k1", "c1", "v1", "brakes", 1), 2, 2),
   Call(Ask("k2", "c2", "v2", "brakes", 2), 1, Null),
   Call(Ask("k2", "c2", "v2", "brakes", 2), 3, 2)}

Symmetry == Permutations(Attempts)

=============================================================================
