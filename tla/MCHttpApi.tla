----------------------------- MODULE MCHttpApi ------------------------------
(***************************************************************************)
(* Small instances of HttpApi: two users, who own one vehicle each, and a  *)
(* third vehicle that belongs to neither.                                  *)
(***************************************************************************)
EXTENDS HttpApi, MCCatalog, TLC

MCUsers == {"u1", "u2"}
MCCustomerOf == [u \in MCUsers |-> IF u = "u1" THEN "c1" ELSE "c2"]

Body(header, key, vehicle, dealership, service, start) ==
  [header |-> header, key |-> key, vehicle |-> vehicle, dealership |-> dealership,
   service |-> service, start |-> start]

\* Bookings of both vehicles that compete for technician 1 and bay 1, one
\* of a key for two times, and one of each kind that is refused.
MCPosts ==
  {Body(Null, "k1", "v1", "d1", "brakes", 1),
   Body(Null, "k1", "v1", "d1", "oil", 3),
   Body(Null, "k2", "v2", "d1", "brakes", 2),
   Body("u2", "k2", "v2", "d1", "oil", 7),
   Body(Null, "k3", "v1", "d2", "oil", 1),
   Body(Null, "k3", "v1", "d1", "unknown", 1),
   Body(Null, "", "v2", "d1", "oil", 1),
   Body(Null, "k3", "v1", "d1", "oil", Malformed),
   Body("stranger", "k3", Malformed, "d1", "oil", 1)}

MCRequests ==
  {CreateInput(p, u) : p \in {q \in MCPosts : WellFormed(q)}, u \in MCUsers}

Symmetry == Permutations(Attempts)

=============================================================================
