----------------------------- MODULE MCBooking ------------------------------
(***************************************************************************)
(* Small instances of Booking.                                             *)
(***************************************************************************)
EXTENDS BookingInvariant, MCCatalog, TLC

Ask(key, c, v, service, start) ==
  [key |-> key, customer |-> c, vehicle |-> v, dealership |-> "d1",
   service |-> service, start |-> start]

\* Two customers compete for the brake technician; one sends it twice, and
\* reuses the key for another time.
Contention ==
  {Ask("k1", "c1", "v1", "brakes", 1),
   Ask("k1", "c1", "v1", "brakes", 4),
   Ask("k2", "c2", "v2", "brakes", 2)}

\* Services that share technicians and bays.  At 6 only technician 2 and bay 1
\* are free, at 5 both technicians and both bays are: the two requests find
\* different technicians and the same bay.
Overlapping ==
  {Ask("k1", "c1", "v1", "oil", 5),
   Ask("k2", "c2", "v2", "oil", 6),
   Ask("k3", "c1", "v1", "brakes", 4)}

\* Requests that are refused before they reach an index.
Invalid ==
  {Ask("", "c1", "v1", "oil", 1),
   Ask("k3", "c1", "v2", "oil", 1),
   Ask("k3", "c1", "v1", "unknown", 1)}

Valid == Contention \cup Overlapping

Everything == Valid \cup Invalid

Symmetry == Permutations(Attempts)

=============================================================================
