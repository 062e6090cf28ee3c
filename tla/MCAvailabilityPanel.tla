------------------------ MODULE MCAvailabilityPanel -------------------------
(***************************************************************************)
(* Small instances of AvailabilityPanel.  The choices share technicians    *)
(* and bays, and one begins when another ends.                             *)
(***************************************************************************)
EXTENDS AvailabilityPanel, MCCatalog

Choice(service, start) == [dealership |-> "d1", service |-> service, start |-> start]

MCChoices == {Choice("oil", 5), Choice("brakes", 2), Choice("oil", 6)}

=============================================================================
