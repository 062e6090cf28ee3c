CONSTANTS
  Customers = {"c1"}
  Vehicles = {"v1"}
  Dealerships <- MCDealerships
  ServiceIds <- MCServiceIds
  Technicians = {1, 2}
  Bays = {1, 2}
  Services <- MCServices
  DurationMinutes <- MCDurationMinutes
  RequiredSkill <- MCRequiredSkill
  TechnicianDealership <- MCTechnicianDealership
  TechnicianSkills <- MCTechnicianSkills
  BayDealership <- MCBayDealership
  BayCapabilities <- MCBayCapabilities
  VehicleOwners <- MCVehicleOwners
  SeedAppointments <- MCSeedAppointments
  Null = Null
  Checks = {k1, k2}
  Choices <- MCChoices
  Bookings = {b1}
SPECIFICATION FairSpec
CHECK_DEADLOCK FALSE
INVARIANTS
  TypeOK
  AvailableWasTrue
  UnavailableIsFinal
  SettledPanelIsCurrent
PROPERTY CheckingEnds
