CONSTANTS
  Customers <- MCCustomers
  Vehicles <- MCVehicles
  Dealerships <- MCDealerships
  ServiceIds <- MCServiceIds
  Technicians = {1, 2}
  Bays = {1, 2}
  Services <- MCServices
  DurationMinutes <- MCDurationMinutes
  RequiredSkill <- MCRequiredSkill
  TechnicianDealership <- MCTechnicianDealership
  TechnicianSkills <- MCTechnicianSkills
  BayDealership <- MCBayDealership
  BayCapabilities <- MCBayCapabilities
  VehicleOwners <- MCVehicleOwners
  Attempts = {a1, a2}
  Keys = {a1, a2}
  EmptyKey = ""
  Payloads <- MCPayloads
  Refreshes = {}
  Requests <- MCRequests
  SeedIds = {"s1", "s2"}
  SeedAppointments <- MCSeedAppointments
  Null = Null
  MaxLostAnswers = 0
SPECIFICATION Spec
CHECK_DEADLOCK FALSE
INVARIANT KeyNamesOnePayload
