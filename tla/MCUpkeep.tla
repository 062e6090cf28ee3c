------------------------------ MODULE MCUpkeep ------------------------------
(***************************************************************************)
(* Small instances of Upkeep.                                              *)
(***************************************************************************)
EXTENDS Upkeep, MCCatalog, TLC

Ask(key, c, v, service, start) ==
  [key |-> key, customer |-> c, vehicle |-> v, dealership |-> "d1",
   service |-> service, start |-> start]

\* One that can be booked twice, another under its key, and a competitor of both.
MCRequests ==
  {Ask("k1", "c1", "v1", "oil", 2), Ask("k1", "c1", "v1", "oil", 5),
   Ask("k2", "c2", "v2", "oil", 4)}

MCEdits == {<<"oil", 3>>}

Symmetry == Permutations(Attempts)

=============================================================================
