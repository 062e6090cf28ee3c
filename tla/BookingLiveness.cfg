CONSTANTS
  Customers <- MCCustomers
  Vehicles <- MCVehicles
  Dealerships <- MCDealerships
  ServiceIds <- MCServiceIds
  Technicians = {1, 2, 3}
  Bays = {1, 2, 3}
  Services <- MCServices
  DurationMinutes <- MCDurationMinutes
  RequiredSkill <- MCRequiredSkill
  TechnicianDealership <- MCTechnicianDealership
  TechnicianSkills <- MCTechnicianSkills
  BayDealership <- MCBayDealership
  BayCapabilities <- MCBayCapabilities
  VehicleOwners <- MCVehicleOwners
  Keys = {"k1", "k2", "k3", ""}
  EmptyKey = ""
  SeedIds = {"s1", "s2"}
  SeedAppointments <- MCSeedAppointments
  Null = Null
  Attempts = {a1, a2, a3}
  Requests <- Contention
  PoolSize = 2
  MaxFailures = 1
SPECIFICATION FairSpec
CHECK_DEADLOCK FALSE
PROPERTIES
  Linearizable
  EveryAttemptAnswered
  EveryTransactionEnds
