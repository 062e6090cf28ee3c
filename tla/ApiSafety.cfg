CONSTANTS
  Customers <- MCCustomers
  Vehicles <- MCVehicles
  Dealerships <- MCDealerships
  ServiceIds <- MCServiceIds
  Technicians = {1, 2, 3}
  Bays = {1, 2, 3}
  Services <- MCServices
  DurationMinutes <- MCDurationMinutes
  RequiredSkill <- MCRequiredSkill
  TechnicianDealership <- MCTechnicianDealership
  TechnicianSkills <- MCTechnicianSkills
  BayDealership <- MCBayDealership
  BayCapabilities <- MCBayCapabilities
  VehicleOwners <- MCVehicleOwners
  Keys = {"k1", "k2", "k3", ""}
  EmptyKey = ""
  SeedIds = {"s1", "s2"}
  SeedAppointments <- MCSeedAppointments
  Null = Null
  Attempts = {a1, a2}
  Requests <- MCRequests
  Users <- MCUsers
  CustomerOf <- MCCustomerOf
  Malformed = Malformed
  Posts <- MCPosts
  MaxFailures = 1
  Horizon = 9
SPECIFICATION Spec
SYMMETRY Symmetry
CHECK_DEADLOCK FALSE
INVARIANTS
  TypeOK
  CreatedIsReadable
  OfferedIsAccepted
  RefusedNeverBooks
  TechnicianViewsAgree
