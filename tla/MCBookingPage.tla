--------------------------- MODULE MCBookingPage ----------------------------
(***************************************************************************)
(* Small instances of BookingPage: the owner of one vehicle, who wants an  *)
(* oil change or a brake inspection of it at overlapping times, and a      *)
(* customer who owns another and may sign in meanwhile.                    *)
(***************************************************************************)
EXTENDS BookingPage, MCCatalog, TLC

Form(service, start) ==
  [vehicle |-> "v1", dealership |-> "d1", service |-> service, start |-> start]

\* Technician 1 and bay 1 alone can do the brakes.
MCPayloads == {Form("oil", 1), Form("brakes", 2)}

MCRequests ==
  {WithKey(p, key, u) : p \in MCPayloads, key \in Attempts, u \in MCCustomers}

Symmetry == Permutations(Attempts)

=============================================================================
