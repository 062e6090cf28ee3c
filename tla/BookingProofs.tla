--------------------------- MODULE BookingProofs ----------------------------
(***************************************************************************)
(* The safety properties of Booking, for any number of attempts, keys,     *)
(* technicians, bays and connections and any number of failures.  IndInv   *)
(* holds initially and is preserved by every statement an attempt runs and *)
(* by every failure; there is one lemma for each of its parts.             *)
(***************************************************************************)
EXTENDS BookingInvariant, BookingLemmas

\* Tables as they were seeded, and no attempt begun.
LEMMA InitIndInv == Init => IndInv
<1> SUFFICES ASSUME Init PROVE IndInv
  OBVIOUS
<1>1. TypeOK
  <2>1. SeedAppointments \subseteq AppointmentRows(AppointmentIds)
    BY BookingDataAssumption DEF AppointmentRows, AppointmentIds
  <2>2. QED
    BY <2>1, AnswerTypes, BookingAssumption DEF Init, TypeOK, Statements
<1>2. Progress /\ Candidates /\ KeyHeldOnce
  BY DEF Init, Progress, Candidates, KeyHeldOnce, HoldsKey, Statements, OwnerKnown, Inserted
<1>3. TechniciansReserved /\ BaysReserved
  BY BookingDataAssumption
  DEF Init, TechniciansReserved, BaysReserved, PastTechnicianIndex, PastBayIndex
<1>4. Records
  <2>1. \A row \in SeedAppointments : row.id \notin Attempts
    BY BookingDataAssumption DEF AppointmentRows
  <2>2. \A x, y \in SeedAppointments : x.id = y.id => x = y
    BY BookingDataAssumption
  <2>3. QED
    BY <2>1, <2>2 DEF Init, Records, RecordsMatchBookings
<1>5. AnswersOnRecord /\ RefusalsCaused
  BY DEF Init, AnswersOnRecord, RefusalsCaused, Pending
<1>6. QED
  BY <1>1, <1>2, <1>3, <1>4, <1>5 DEF IndInv

\* Every statement leaves well-typed rows, answers and locals: the row that is
\* inserted is made of the first candidates, which exist.
LEMMA TypeStep ==
  ASSUME IndInv, [Next]_vars
  PROVE  TypeOK'
<1> USE DEF TypeOK, tables, locals
<1>a. TypeOK /\ Progress /\ Candidates
  BY DEF IndInv
<1>b. ASSUME NEW a \in Attempts, NEW outcome \in Refusals, Refuse(a, outcome)
      PROVE  TypeOK'
  BY <1>a, <1>b, AnswerTypes DEF Refuse, Close
<1>c. ASSUME NEW a \in Attempts, NEW s \in Statements, Goto(a, s),
             UNCHANGED <<request, tables, answer, conn, locals, inserted, failures>>
      PROVE  TypeOK'
  BY <1>a, <1>c DEF Goto
<1>d. ASSUME NEW a \in Attempts, pc[a] = "commit", Publish(a),
             request' = request, failures' = failures,
             answer' \in [Attempts -> Answers]
      PROVE  TypeOK'
  <2>1. request[a].service \in Services /\ request[a] \in Requests
    BY <1>a, <1>d DEF Progress, Statements
  <2>2. QED
    BY <1>a, <1>d, <2>1, CompletedRowType DEF Publish, Close
<1>1. ASSUME NEW a \in Attempts, RejectMissingKey(a) PROVE TypeOK'
  BY <1>b, <1>1 DEF RejectMissingKey, Refusals
<1>2. ASSUME NEW a \in Attempts, LoadServiceType(a) PROVE TypeOK'
  BY <1>b, <1>c, <1>2 DEF LoadServiceType, Refusals, Statements
<1>3. ASSUME NEW a \in Attempts, Begin(a) PROVE TypeOK'
  BY <1>a, <1>3 DEF Begin, Goto, Statements
<1>4. ASSUME NEW a \in Attempts, ClaimKey(a) PROVE TypeOK'
  BY <1>c, <1>4 DEF ClaimKey, Statements
<1>5. ASSUME NEW a \in Attempts, LookUp(a) PROVE TypeOK'
  BY <1>b, <1>c, <1>5 DEF LookUp, Refusals, Statements
<1>6. ASSUME NEW a \in Attempts, Replay(a) PROVE TypeOK'
  BY <1>a, <1>6, AnswerTypes DEF Replay, Close
<1>7. ASSUME NEW a \in Attempts, CheckVehicle(a) PROVE TypeOK'
  BY <1>b, <1>c, <1>7 DEF CheckVehicle, Refusals, Statements
<1>8. ASSUME NEW a \in Attempts, FindTechnicians(a) PROVE TypeOK'
  BY <1>a, <1>8 DEF FindTechnicians, Goto, AvailableTechnicians, Statements
<1>9. ASSUME NEW a \in Attempts, FindBays(a) PROVE TypeOK'
  BY <1>a, <1>b, <1>9 DEF FindBays, Goto, AvailableBays, Statements, Refusals
<1>10. ASSUME NEW a \in Attempts, InsertRow(a) PROVE TypeOK'
  <2>1. First(technicians[a]) \in Technicians /\ First(bays[a]) \in Bays
    BY <1>a, <1>10, FirstInSet, SchedulingAssumption DEF InsertRow, At, Candidates
  <2>2. request[a].service \in Services /\ request[a] \in Requests
    BY <1>a, <1>10 DEF InsertRow, At, Progress, Statements
  <2>3. AppointmentFor(a, request[a], First(technicians[a]), First(bays[a]))
          \in AppointmentRows(AppointmentIds)
    BY <2>1, <2>2, AppointmentForType
  <2>4. QED
    BY <1>a, <1>10, <2>3 DEF InsertRow, Goto, Statements
<1>11. ASSUME NEW a \in Attempts, CheckTechnicianIndex(a) PROVE TypeOK'
  BY <1>b, <1>c, <1>11 DEF CheckTechnicianIndex, Refusals, Statements
<1>12. ASSUME NEW a \in Attempts, CheckBayIndex(a) PROVE TypeOK'
  BY <1>b, <1>c, <1>12 DEF CheckBayIndex, Refusals, Statements
<1>13. ASSUME NEW a \in Attempts, Complete(a) PROVE TypeOK'
  BY <1>c, <1>13 DEF Complete, Statements
<1>14. ASSUME NEW a \in Attempts, Commit(a) PROVE TypeOK'
  BY <1>a, <1>d, <1>14, AnswerTypes DEF Commit, At
<1>15. ASSUME NEW a \in Attempts, BreakDeadlock(a) PROVE TypeOK'
  BY <1>b, <1>15 DEF BreakDeadlock, Refusals
<1>16. ASSUME NEW a \in Attempts, QueryFails(a) PROVE TypeOK'
  BY <1>a, <1>16, AnswerTypes, BookingAssumption DEF QueryFails, Close, Refusals
<1>17. ASSUME NEW a \in Attempts, LoseConnection(a) PROVE TypeOK'
  BY <1>a, <1>17, AnswerTypes, BookingAssumption DEF LoseConnection, Refusals
<1>18. ASSUME NEW a \in Attempts, AbortLost(a) PROVE TypeOK'
  BY <1>a, <1>18 DEF AbortLost, Close
<1>19. ASSUME NEW a \in Attempts, CommitLost(a) PROVE TypeOK'
  BY <1>a, <1>d, <1>19 DEF CommitLost
<1>20. CASE UNCHANGED vars
  BY <1>a, <1>20 DEF vars
<1>21. QED
  BY <1>1, <1>2, <1>3, <1>4, <1>5, <1>6, <1>7, <1>8, <1>9, <1>10, <1>11, <1>12,
     <1>13, <1>14, <1>15, <1>16, <1>17, <1>18, <1>19, <1>20
  DEF Next, Step

\* An attempt has a connection exactly while its transaction is open, and is
\* answered exactly once.
LEMMA ProgressStep ==
  ASSUME IndInv, [Next]_vars
  PROVE  Progress'
<1> USE DEF TypeOK, Progress, Statements, OwnerKnown, Inserted, tables, locals
<1>a. TypeOK /\ Progress
  BY DEF IndInv
<1>1. ASSUME NEW a \in Attempts, RejectMissingKey(a) PROVE Progress'
  BY <1>a, <1>1 DEF RejectMissingKey, Refuse, Close, At
<1>2. ASSUME NEW a \in Attempts, LoadServiceType(a) PROVE Progress'
  BY <1>a, <1>2 DEF LoadServiceType, Refuse, Close, Goto, At
<1>3. ASSUME NEW a \in Attempts, Begin(a) PROVE Progress'
  BY <1>a, <1>3 DEF Begin, Goto, At
<1>4. ASSUME NEW a \in Attempts, ClaimKey(a) PROVE Progress'
  BY <1>a, <1>4 DEF ClaimKey, Goto, At
<1>5. ASSUME NEW a \in Attempts, LookUp(a) PROVE Progress'
  BY <1>a, <1>5 DEF LookUp, Refuse, Close, Goto, At
<1>6. ASSUME NEW a \in Attempts, Replay(a) PROVE Progress'
  BY <1>a, <1>6 DEF Replay, Close, At
<1>7. ASSUME NEW a \in Attempts, CheckVehicle(a) PROVE Progress'
  BY <1>a, <1>7 DEF CheckVehicle, Refuse, Close, Goto, At
<1>8. ASSUME NEW a \in Attempts, FindTechnicians(a) PROVE Progress'
  BY <1>a, <1>8 DEF FindTechnicians, Goto, At
<1>9. ASSUME NEW a \in Attempts, FindBays(a) PROVE Progress'
  BY <1>a, <1>9 DEF FindBays, Refuse, Close, Goto, At
<1>10. ASSUME NEW a \in Attempts, InsertRow(a) PROVE Progress'
  BY <1>a, <1>10 DEF InsertRow, Goto, At
<1>11. ASSUME NEW a \in Attempts, CheckTechnicianIndex(a) PROVE Progress'
  BY <1>a, <1>11 DEF CheckTechnicianIndex, Refuse, Close, Goto, At
<1>12. ASSUME NEW a \in Attempts, CheckBayIndex(a) PROVE Progress'
  BY <1>a, <1>12 DEF CheckBayIndex, Refuse, Close, Goto, At
<1>13. ASSUME NEW a \in Attempts, Complete(a) PROVE Progress'
  BY <1>a, <1>13 DEF Complete, Goto, At
<1>14. ASSUME NEW a \in Attempts, Commit(a) PROVE Progress'
  BY <1>a, <1>14 DEF Commit, Publish, Close, At
<1>15. ASSUME NEW a \in Attempts, BreakDeadlock(a) PROVE Progress'
  BY <1>a, <1>15 DEF BreakDeadlock, Refuse, Close
<1>16. ASSUME NEW a \in Attempts, QueryFails(a) PROVE Progress'
  BY <1>a, <1>16 DEF QueryFails, Close
<1>17. ASSUME NEW a \in Attempts, LoseConnection(a) PROVE Progress'
  BY <1>a, <1>17 DEF LoseConnection
<1>18. ASSUME NEW a \in Attempts, AbortLost(a) PROVE Progress'
  BY <1>a, <1>18 DEF AbortLost, Close
<1>19. ASSUME NEW a \in Attempts, CommitLost(a) PROVE Progress'
  BY <1>a, <1>19 DEF CommitLost, Publish, Close
<1>20. CASE UNCHANGED vars
  BY <1>a, <1>20 DEF vars
<1>21. QED
  BY <1>1, <1>2, <1>3, <1>4, <1>5, <1>6, <1>7, <1>8, <1>9, <1>10, <1>11, <1>12,
     <1>13, <1>14, <1>15, <1>16, <1>17, <1>18, <1>19, <1>20
  DEF Next, Step

\* What an attempt inserts is a booking of its request.
LEMMA CandidatesStep ==
  ASSUME IndInv, [Next]_vars
  PROVE  Candidates'
<1> USE DEF TypeOK, Candidates, Statements, Inserted, tables, locals
<1>a. TypeOK /\ Candidates
  BY DEF IndInv
<1>1. ASSUME NEW a \in Attempts, RejectMissingKey(a) PROVE Candidates'
  BY <1>a, <1>1 DEF RejectMissingKey, Refuse, Close, At
<1>2. ASSUME NEW a \in Attempts, LoadServiceType(a) PROVE Candidates'
  BY <1>a, <1>2 DEF LoadServiceType, Refuse, Close, Goto, At
<1>3. ASSUME NEW a \in Attempts, Begin(a) PROVE Candidates'
  BY <1>a, <1>3 DEF Begin, Goto, At
<1>4. ASSUME NEW a \in Attempts, ClaimKey(a) PROVE Candidates'
  BY <1>a, <1>4 DEF ClaimKey, Goto, At
<1>5. ASSUME NEW a \in Attempts, LookUp(a) PROVE Candidates'
  BY <1>a, <1>5 DEF LookUp, Refuse, Close, Goto, At
<1>6. ASSUME NEW a \in Attempts, Replay(a) PROVE Candidates'
  BY <1>a, <1>6 DEF Replay, Close, At
<1>7. ASSUME NEW a \in Attempts, CheckVehicle(a) PROVE Candidates'
  BY <1>a, <1>7 DEF CheckVehicle, Refuse, Close, Goto, At
<1>8. ASSUME NEW a \in Attempts, FindTechnicians(a) PROVE Candidates'
  BY <1>a, <1>8 DEF FindTechnicians, AvailableTechnicians, At, Goto
<1>9. ASSUME NEW a \in Attempts, FindBays(a) PROVE Candidates'
  BY <1>a, <1>9 DEF FindBays, AvailableBays, Refuse, Close, Goto, At
<1>10. ASSUME NEW a \in Attempts, InsertRow(a) PROVE Candidates'
  <2>1. First(technicians[a]) \in technicians[a] /\ First(bays[a]) \in bays[a]
    BY <1>a, <1>10, FirstInSet, SchedulingAssumption DEF InsertRow, At
  <2>2. First(technicians[a]) \in Technicians /\ First(bays[a]) \in Bays
    BY <1>a, <2>1
  <2>3. QED
    BY <1>a, <1>10, <2>1, <2>2 DEF InsertRow, At, Goto
<1>11. ASSUME NEW a \in Attempts, CheckTechnicianIndex(a) PROVE Candidates'
  BY <1>a, <1>11 DEF CheckTechnicianIndex, Refuse, Close, Goto, At
<1>12. ASSUME NEW a \in Attempts, CheckBayIndex(a) PROVE Candidates'
  BY <1>a, <1>12 DEF CheckBayIndex, Refuse, Close, Goto, At
<1>13. ASSUME NEW a \in Attempts, Complete(a) PROVE Candidates'
  BY <1>a, <1>13 DEF Complete, Goto, At
<1>14. ASSUME NEW a \in Attempts, Commit(a) PROVE Candidates'
  BY <1>a, <1>14 DEF Commit, Publish, Close, At
<1>15. ASSUME NEW a \in Attempts, BreakDeadlock(a) PROVE Candidates'
  BY <1>a, <1>15 DEF BreakDeadlock, Refuse, Close
<1>16. ASSUME NEW a \in Attempts, QueryFails(a) PROVE Candidates'
  BY <1>a, <1>16 DEF QueryFails, Close
<1>17. ASSUME NEW a \in Attempts, LoseConnection(a) PROVE Candidates'
  BY <1>a, <1>17 DEF LoseConnection
<1>18. ASSUME NEW a \in Attempts, AbortLost(a) PROVE Candidates'
  BY <1>a, <1>18 DEF AbortLost, Close
<1>19. ASSUME NEW a \in Attempts, CommitLost(a) PROVE Candidates'
  BY <1>a, <1>19 DEF CommitLost, Publish, Close
<1>20. CASE UNCHANGED vars
  BY <1>a, <1>20 DEF vars
<1>21. QED
  BY <1>1, <1>2, <1>3, <1>4, <1>5, <1>6, <1>7, <1>8, <1>9, <1>10, <1>11, <1>12,
     <1>13, <1>14, <1>15, <1>16, <1>17, <1>18, <1>19, <1>20
  DEF Next, Step

\* CreateIdempotencyRequest waits for other holders of the key, so the key
\* that is claimed is claimed by one open transaction and by no record.
LEMMA KeyHeldOnceStep ==
  ASSUME IndInv, [Next]_vars
  PROVE  KeyHeldOnce'
<1> USE DEF TypeOK, KeyHeldOnce, HoldsKey, KeyTaken, tables, locals
<1>a. TypeOK /\ KeyHeldOnce
  BY DEF IndInv
<1>1. ASSUME NEW a \in Attempts, RejectMissingKey(a) PROVE KeyHeldOnce'
  BY <1>a, <1>1 DEF RejectMissingKey, Refuse, Close, At
<1>2. ASSUME NEW a \in Attempts, LoadServiceType(a) PROVE KeyHeldOnce'
  BY <1>a, <1>2 DEF LoadServiceType, Refuse, Close, Goto, At
<1>3. ASSUME NEW a \in Attempts, Begin(a) PROVE KeyHeldOnce'
  BY <1>a, <1>3 DEF Begin, Goto, At
<1>4. ASSUME NEW a \in Attempts, ClaimKey(a) PROVE KeyHeldOnce'
  BY <1>a, <1>4 DEF ClaimKey, Unblocked, WaitsFor, KeyWait, At, Goto
<1>5. ASSUME NEW a \in Attempts, LookUp(a) PROVE KeyHeldOnce'
  BY <1>a, <1>5 DEF LookUp, Refuse, Close, Goto, At
<1>6. ASSUME NEW a \in Attempts, Replay(a) PROVE KeyHeldOnce'
  BY <1>a, <1>6 DEF Replay, Close, At
<1>7. ASSUME NEW a \in Attempts, CheckVehicle(a) PROVE KeyHeldOnce'
  BY <1>a, <1>7 DEF CheckVehicle, Refuse, Close, Goto, At
<1>8. ASSUME NEW a \in Attempts, FindTechnicians(a) PROVE KeyHeldOnce'
  BY <1>a, <1>8 DEF FindTechnicians, Goto, At
<1>9. ASSUME NEW a \in Attempts, FindBays(a) PROVE KeyHeldOnce'
  BY <1>a, <1>9 DEF FindBays, Refuse, Close, Goto, At
<1>10. ASSUME NEW a \in Attempts, InsertRow(a) PROVE KeyHeldOnce'
  BY <1>a, <1>10 DEF InsertRow, Goto, At
<1>11. ASSUME NEW a \in Attempts, CheckTechnicianIndex(a) PROVE KeyHeldOnce'
  BY <1>a, <1>11 DEF CheckTechnicianIndex, Refuse, Close, Goto, At
<1>12. ASSUME NEW a \in Attempts, CheckBayIndex(a) PROVE KeyHeldOnce'
  BY <1>a, <1>12 DEF CheckBayIndex, Refuse, Close, Goto, At
<1>13. ASSUME NEW a \in Attempts, Complete(a) PROVE KeyHeldOnce'
  BY <1>a, <1>13 DEF Complete, Goto, At
<1>14. ASSUME NEW a \in Attempts, Commit(a) PROVE KeyHeldOnce'
  BY <1>a, <1>14 DEF Commit, Publish, CompletedRow, Close, At
<1>15. ASSUME NEW a \in Attempts, BreakDeadlock(a) PROVE KeyHeldOnce'
  BY <1>a, <1>15 DEF BreakDeadlock, Refuse, Close
<1>16. ASSUME NEW a \in Attempts, QueryFails(a) PROVE KeyHeldOnce'
  BY <1>a, <1>16 DEF QueryFails, Close
<1>17. ASSUME NEW a \in Attempts, LoseConnection(a) PROVE KeyHeldOnce'
  BY <1>a, <1>17 DEF LoseConnection
<1>18. ASSUME NEW a \in Attempts, AbortLost(a) PROVE KeyHeldOnce'
  BY <1>a, <1>18 DEF AbortLost, Close
<1>19. ASSUME NEW a \in Attempts, CommitLost(a) PROVE KeyHeldOnce'
  BY <1>a, <1>19 DEF CommitLost, Publish, CompletedRow, Close
<1>20. CASE UNCHANGED vars
  BY <1>a, <1>20 DEF vars
<1>21. QED
  BY <1>1, <1>2, <1>3, <1>4, <1>5, <1>6, <1>7, <1>8, <1>9, <1>10, <1>11, <1>12,
     <1>13, <1>14, <1>15, <1>16, <1>17, <1>18, <1>19, <1>20
  DEF Next, Step

\* Of two rows that clash on a technician, the second to be checked waits for
\* the first: a row that has passed the check clashes with nothing that has.
LEMMA TechniciansReservedStep ==
  ASSUME IndInv, [Next]_vars
  PROVE  TechniciansReserved'
<1> USE DEF TypeOK, TechniciansReserved, PastTechnicianIndex, TechnicianTaken, TechnicianWait, InTechnicianIndex, tables, locals
<1>a. TypeOK /\ Candidates /\ TechniciansReserved
  BY DEF IndInv
<1>b. ASSUME NEW a \in Attempts, pc[a] = "commit", Publish(a), request' = request
      PROVE  TechniciansReserved'
  <2>1. PICK x : inserted[a] = {x} /\ x \in AppointmentRows(AppointmentIds)
    BY <1>a, <1>b DEF Candidates, Inserted
  <2>2. \A y \in appointments : ~TechnicianClash(x, y) /\ ~TechnicianClash(y, x)
    BY <1>a, <1>b, <2>1, ClashSymmetric DEF TechnicianTaken
  <2>3. ASSUME NEW c \in Attempts, c # a, pc[c] \in PastTechnicianIndex
        PROVE  \A z \in inserted[c] : ~TechnicianClash(z, x)
    BY <1>a, <1>b, <2>1, <2>3 DEF TechnicianWait, InTechnicianIndex, PastTechnicianIndex
  <2>4. appointments' = appointments \cup {x}
    BY <1>b, <2>1 DEF Publish
  <2>5. \A y, z \in appointments' : y # z => ~TechnicianClash(y, z)
    BY <1>a, <2>2, <2>4
  <2>6. ASSUME NEW c \in Attempts, (pc[c] \in PastTechnicianIndex)' PROVE ~TechnicianTaken(c)'
    <3>1. c # a /\ pc[c] \in PastTechnicianIndex /\ inserted'[c] = inserted[c]
      BY <1>a, <1>b, <2>6 DEF Publish, Close, PastTechnicianIndex
    <3>2. QED
      BY <1>a, <2>3, <2>4, <3>1 DEF TechnicianTaken
  <2>7. ASSUME NEW c \in Attempts, NEW d \in Attempts \ {c},
               (pc[c] \in PastTechnicianIndex /\ pc[d] \in PastTechnicianIndex)'
        PROVE  ~TechnicianWait(c, d)'
    <3>1. c # a /\ d # a /\ pc'[c] = pc[c] /\ pc'[d] = pc[d]
      BY <1>a, <1>b, <2>7 DEF Publish, Close, PastTechnicianIndex
    <3>2. inserted'[c] = inserted[c] /\ inserted'[d] = inserted[d]
      BY <1>a, <1>b, <3>1 DEF Publish, Close
    <3>3. QED
      BY <1>a, <2>7, <3>1, <3>2 DEF TechnicianWait, InTechnicianIndex
  <2>8. QED
    BY <2>5, <2>6, <2>7
<1>1. ASSUME NEW a \in Attempts, RejectMissingKey(a) PROVE TechniciansReserved'
  BY <1>a, <1>1 DEF RejectMissingKey, Refuse, Close, At
<1>2. ASSUME NEW a \in Attempts, LoadServiceType(a) PROVE TechniciansReserved'
  BY <1>a, <1>2 DEF LoadServiceType, Refuse, Close, Goto, At
<1>3. ASSUME NEW a \in Attempts, Begin(a) PROVE TechniciansReserved'
  BY <1>a, <1>3 DEF Begin, Goto, At
<1>4. ASSUME NEW a \in Attempts, ClaimKey(a) PROVE TechniciansReserved'
  BY <1>a, <1>4 DEF ClaimKey, Goto, At
<1>5. ASSUME NEW a \in Attempts, LookUp(a) PROVE TechniciansReserved'
  BY <1>a, <1>5 DEF LookUp, Refuse, Close, Goto, At
<1>6. ASSUME NEW a \in Attempts, Replay(a) PROVE TechniciansReserved'
  BY <1>a, <1>6 DEF Replay, Close, At
<1>7. ASSUME NEW a \in Attempts, CheckVehicle(a) PROVE TechniciansReserved'
  BY <1>a, <1>7 DEF CheckVehicle, Refuse, Close, Goto, At
<1>8. ASSUME NEW a \in Attempts, FindTechnicians(a) PROVE TechniciansReserved'
  BY <1>a, <1>8 DEF FindTechnicians, Goto, At
<1>9. ASSUME NEW a \in Attempts, FindBays(a) PROVE TechniciansReserved'
  BY <1>a, <1>9 DEF FindBays, Refuse, Close, Goto, At
<1>10. ASSUME NEW a \in Attempts, InsertRow(a) PROVE TechniciansReserved'
  BY <1>a, <1>10 DEF InsertRow, Goto, At
<1>11. ASSUME NEW a \in Attempts, CheckTechnicianIndex(a) PROVE TechniciansReserved'
  <2>1. \A x, y \in AppointmentRows(AppointmentIds) : TechnicianClash(x, y) <=> TechnicianClash(y, x)
    BY ClashSymmetric
  <2>2. QED
    BY <1>a, <1>11, <2>1 DEF CheckTechnicianIndex, Refuse, Close, Goto, At, Unblocked, WaitsFor
<1>12. ASSUME NEW a \in Attempts, CheckBayIndex(a) PROVE TechniciansReserved'
  BY <1>a, <1>12 DEF CheckBayIndex, Refuse, Close, Goto, At
<1>13. ASSUME NEW a \in Attempts, Complete(a) PROVE TechniciansReserved'
  BY <1>a, <1>13 DEF Complete, Goto, At
<1>14. ASSUME NEW a \in Attempts, Commit(a) PROVE TechniciansReserved'
  BY <1>b, <1>14 DEF Commit, At
<1>15. ASSUME NEW a \in Attempts, BreakDeadlock(a) PROVE TechniciansReserved'
  BY <1>a, <1>15 DEF BreakDeadlock, Refuse, Close
<1>16. ASSUME NEW a \in Attempts, QueryFails(a) PROVE TechniciansReserved'
  BY <1>a, <1>16 DEF QueryFails, Close
<1>17. ASSUME NEW a \in Attempts, LoseConnection(a) PROVE TechniciansReserved'
  BY <1>a, <1>17 DEF LoseConnection
<1>18. ASSUME NEW a \in Attempts, AbortLost(a) PROVE TechniciansReserved'
  BY <1>a, <1>18 DEF AbortLost, Close
<1>19. ASSUME NEW a \in Attempts, CommitLost(a) PROVE TechniciansReserved'
  BY <1>b, <1>19 DEF CommitLost
<1>20. CASE UNCHANGED vars
  BY <1>a, <1>20 DEF vars
<1>21. QED
  BY <1>1, <1>2, <1>3, <1>4, <1>5, <1>6, <1>7, <1>8, <1>9, <1>10, <1>11, <1>12,
     <1>13, <1>14, <1>15, <1>16, <1>17, <1>18, <1>19, <1>20
  DEF Next, Step

\* The same of the bays, whose index is checked after the technicians'.
LEMMA BaysReservedStep ==
  ASSUME IndInv, [Next]_vars
  PROVE  BaysReserved'
<1> USE DEF TypeOK, BaysReserved, PastBayIndex, BayTaken, BayWait, InBayIndex, tables, locals
<1>a. TypeOK /\ Candidates /\ BaysReserved
  BY DEF IndInv
<1>b. ASSUME NEW a \in Attempts, pc[a] = "commit", Publish(a), request' = request
      PROVE  BaysReserved'
  <2>1. PICK x : inserted[a] = {x} /\ x \in AppointmentRows(AppointmentIds)
    BY <1>a, <1>b DEF Candidates, Inserted
  <2>2. \A y \in appointments : ~BayClash(x, y) /\ ~BayClash(y, x)
    BY <1>a, <1>b, <2>1, ClashSymmetric DEF BayTaken
  <2>3. ASSUME NEW c \in Attempts, c # a, pc[c] \in PastBayIndex
        PROVE  \A z \in inserted[c] : ~BayClash(z, x)
    BY <1>a, <1>b, <2>1, <2>3 DEF BayWait, InBayIndex, PastTechnicianIndex
  <2>4. appointments' = appointments \cup {x}
    BY <1>b, <2>1 DEF Publish
  <2>5. \A y, z \in appointments' : y # z => ~BayClash(y, z)
    BY <1>a, <2>2, <2>4
  <2>6. ASSUME NEW c \in Attempts, (pc[c] \in PastBayIndex)' PROVE ~BayTaken(c)'
    <3>1. c # a /\ pc[c] \in PastBayIndex /\ inserted'[c] = inserted[c]
      BY <1>a, <1>b, <2>6 DEF Publish, Close, PastBayIndex
    <3>2. QED
      BY <1>a, <2>3, <2>4, <3>1 DEF BayTaken
  <2>7. ASSUME NEW c \in Attempts, NEW d \in Attempts \ {c},
               (pc[c] \in PastBayIndex /\ pc[d] \in PastBayIndex)'
        PROVE  ~BayWait(c, d)'
    <3>1. c # a /\ d # a /\ pc'[c] = pc[c] /\ pc'[d] = pc[d]
      BY <1>a, <1>b, <2>7 DEF Publish, Close, PastBayIndex
    <3>2. inserted'[c] = inserted[c] /\ inserted'[d] = inserted[d]
      BY <1>a, <1>b, <3>1 DEF Publish, Close
    <3>3. QED
      BY <1>a, <2>7, <3>1, <3>2 DEF BayWait, InBayIndex
  <2>8. QED
    BY <2>5, <2>6, <2>7
<1>1. ASSUME NEW a \in Attempts, RejectMissingKey(a) PROVE BaysReserved'
  BY <1>a, <1>1 DEF RejectMissingKey, Refuse, Close, At
<1>2. ASSUME NEW a \in Attempts, LoadServiceType(a) PROVE BaysReserved'
  BY <1>a, <1>2 DEF LoadServiceType, Refuse, Close, Goto, At
<1>3. ASSUME NEW a \in Attempts, Begin(a) PROVE BaysReserved'
  BY <1>a, <1>3 DEF Begin, Goto, At
<1>4. ASSUME NEW a \in Attempts, ClaimKey(a) PROVE BaysReserved'
  BY <1>a, <1>4 DEF ClaimKey, Goto, At
<1>5. ASSUME NEW a \in Attempts, LookUp(a) PROVE BaysReserved'
  BY <1>a, <1>5 DEF LookUp, Refuse, Close, Goto, At
<1>6. ASSUME NEW a \in Attempts, Replay(a) PROVE BaysReserved'
  BY <1>a, <1>6 DEF Replay, Close, At
<1>7. ASSUME NEW a \in Attempts, CheckVehicle(a) PROVE BaysReserved'
  BY <1>a, <1>7 DEF CheckVehicle, Refuse, Close, Goto, At
<1>8. ASSUME NEW a \in Attempts, FindTechnicians(a) PROVE BaysReserved'
  BY <1>a, <1>8 DEF FindTechnicians, Goto, At
<1>9. ASSUME NEW a \in Attempts, FindBays(a) PROVE BaysReserved'
  BY <1>a, <1>9 DEF FindBays, Refuse, Close, Goto, At
<1>10. ASSUME NEW a \in Attempts, InsertRow(a) PROVE BaysReserved'
  BY <1>a, <1>10 DEF InsertRow, Goto, At
<1>11. ASSUME NEW a \in Attempts, CheckTechnicianIndex(a) PROVE BaysReserved'
  BY <1>a, <1>11 DEF CheckTechnicianIndex, Refuse, Close, Goto, At
<1>12. ASSUME NEW a \in Attempts, CheckBayIndex(a) PROVE BaysReserved'
  <2>1. \A x, y \in AppointmentRows(AppointmentIds) : BayClash(x, y) <=> BayClash(y, x)
    BY ClashSymmetric
  <2>2. QED
    BY <1>a, <1>12, <2>1 DEF CheckBayIndex, Refuse, Close, Goto, At, Unblocked, WaitsFor
<1>13. ASSUME NEW a \in Attempts, Complete(a) PROVE BaysReserved'
  BY <1>a, <1>13 DEF Complete, Goto, At
<1>14. ASSUME NEW a \in Attempts, Commit(a) PROVE BaysReserved'
  BY <1>b, <1>14 DEF Commit, At
<1>15. ASSUME NEW a \in Attempts, BreakDeadlock(a) PROVE BaysReserved'
  BY <1>a, <1>15 DEF BreakDeadlock, Refuse, Close
<1>16. ASSUME NEW a \in Attempts, QueryFails(a) PROVE BaysReserved'
  BY <1>a, <1>16 DEF QueryFails, Close
<1>17. ASSUME NEW a \in Attempts, LoseConnection(a) PROVE BaysReserved'
  BY <1>a, <1>17 DEF LoseConnection
<1>18. ASSUME NEW a \in Attempts, AbortLost(a) PROVE BaysReserved'
  BY <1>a, <1>18 DEF AbortLost, Close
<1>19. ASSUME NEW a \in Attempts, CommitLost(a) PROVE BaysReserved'
  BY <1>b, <1>19 DEF CommitLost
<1>20. CASE UNCHANGED vars
  BY <1>a, <1>20 DEF vars
<1>21. QED
  BY <1>1, <1>2, <1>3, <1>4, <1>5, <1>6, <1>7, <1>8, <1>9, <1>10, <1>11, <1>12,
     <1>13, <1>14, <1>15, <1>16, <1>17, <1>18, <1>19, <1>20
  DEF Next, Step

\* COMMIT publishes an appointment and its record together, under a key and an
\* id that no other row has.
LEMMA RecordsStep ==
  ASSUME IndInv, [Next]_vars
  PROVE  Records'
<1> USE DEF TypeOK, Records, RecordsMatchBookings, tables, locals
<1>a. TypeOK /\ Progress /\ Candidates /\ KeyHeldOnce /\ Records
  BY DEF IndInv
<1>b. ASSUME UNCHANGED <<request, tables>>,
             \A a \in Attempts : pc[a] = "end" => pc'[a] = "end"
      PROVE  Records'
  BY <1>a, <1>b
<1>c. ASSUME NEW a \in Attempts, pc[a] = "commit", Publish(a), request' = request
      PROVE  Records'
  <2>1. PICK x : /\ inserted[a] = {x}
                 /\ x.id = a
                 /\ Fulfils(x, request[a])
    <3>1. PICK t \in Technicians, b \in Bays :
            /\ Qualified(t, request[a])
            /\ Compatible(b, request[a])
            /\ inserted[a] = {AppointmentFor(a, request[a], t, b)}
      BY <1>a, <1>c DEF Candidates, Inserted
    <3>2. AppointmentFor(a, request[a], t, b).id = a
      BY DEF AppointmentFor
    <3>3. request[a].service \in Services
      BY <1>a, <1>c DEF Progress, Statements
    <3>4. QED
      BY <3>1, <3>2, <3>3 DEF Fulfils
  <2>2. appointments' = appointments \cup {x}
    BY <1>c, <2>1 DEF Publish
  <2>3. PICK rec : /\ idempotency' = idempotency \cup {rec}
                   /\ rec.key = request[a].key
                   /\ rec.hash = RequestHash(request[a])
                   /\ rec.status = "completed"
                   /\ rec.appointment = a
    <3>1. idempotency' = idempotency \cup {CompletedRow(request[a], a)}
      BY <1>c DEF Publish
    <3>2. /\ CompletedRow(request[a], a).key = request[a].key
          /\ CompletedRow(request[a], a).hash = RequestHash(request[a])
          /\ CompletedRow(request[a], a).status = "completed"
          /\ CompletedRow(request[a], a).appointment = a
      BY DEF CompletedRow
    <3>3. QED
      BY <3>1, <3>2
  <2>4. \A y \in appointments : y.id # a
    BY <1>a, <1>c
  <2>5. \A z \in idempotency : z.key # rec.key
    BY <1>a, <1>c, <2>3 DEF KeyHeldOnce, HoldsKey, KeyTaken
  <2>6. \A y, z \in appointments' : y.id = z.id => y = z
    BY <1>a, <2>1, <2>2, <2>4
  <2>7. \A y, z \in idempotency' : y.key = z.key => y = z
    BY <1>a, <2>3, <2>5
  <2>8. \A row \in appointments' :
          row.id \in Attempts => pc'[row.id] = "end" /\ OwnsVehicle(request[row.id])
    <3>1. OwnsVehicle(request[a])
      BY <1>a, <1>c DEF Progress, OwnerKnown, Inserted
    <3>2. QED
      BY <1>a, <1>c, <2>1, <2>2, <3>1 DEF Publish, Close
  <2>9. RecordsMatchBookings'
    <3>1. ASSUME NEW z \in idempotency'
          PROVE  /\ z.status = "completed"
                 /\ \E row \in appointments' :
                      /\ row.id = z.appointment
                      /\ row.id \in Attempts
                      /\ z.key = request[row.id].key
                      /\ z.hash = RequestHash(request[row.id])
                      /\ Fulfils(row, request[row.id])
      BY <1>a, <2>1, <2>2, <2>3, <3>1
    <3>2. ASSUME NEW row \in appointments', row.id \in Attempts
          PROVE  \E z \in idempotency' : z.appointment = row.id
      BY <1>a, <2>1, <2>2, <2>3, <3>2
    <3>3. QED
      BY <1>c, <3>1, <3>2
  <2>10. QED
    BY <1>c, <2>6, <2>7, <2>8, <2>9
<1>1. ASSUME NEW a \in Attempts, RejectMissingKey(a) PROVE Records'
  BY <1>a, <1>b, <1>1 DEF RejectMissingKey, Refuse, Close, At
<1>2. ASSUME NEW a \in Attempts, LoadServiceType(a) PROVE Records'
  BY <1>a, <1>b, <1>2 DEF LoadServiceType, Refuse, Close, Goto, At
<1>3. ASSUME NEW a \in Attempts, Begin(a) PROVE Records'
  BY <1>a, <1>b, <1>3 DEF Begin, Goto, At
<1>4. ASSUME NEW a \in Attempts, ClaimKey(a) PROVE Records'
  BY <1>a, <1>b, <1>4 DEF ClaimKey, Goto, At
<1>5. ASSUME NEW a \in Attempts, LookUp(a) PROVE Records'
  BY <1>a, <1>b, <1>5 DEF LookUp, Refuse, Close, Goto, At
<1>6. ASSUME NEW a \in Attempts, Replay(a) PROVE Records'
  BY <1>a, <1>b, <1>6 DEF Replay, Close, At
<1>7. ASSUME NEW a \in Attempts, CheckVehicle(a) PROVE Records'
  BY <1>a, <1>b, <1>7 DEF CheckVehicle, Refuse, Close, Goto, At
<1>8. ASSUME NEW a \in Attempts, FindTechnicians(a) PROVE Records'
  BY <1>a, <1>b, <1>8 DEF FindTechnicians, Goto, At
<1>9. ASSUME NEW a \in Attempts, FindBays(a) PROVE Records'
  BY <1>a, <1>b, <1>9 DEF FindBays, Refuse, Close, Goto, At
<1>10. ASSUME NEW a \in Attempts, InsertRow(a) PROVE Records'
  BY <1>a, <1>b, <1>10 DEF InsertRow, Goto, At
<1>11. ASSUME NEW a \in Attempts, CheckTechnicianIndex(a) PROVE Records'
  BY <1>a, <1>b, <1>11 DEF CheckTechnicianIndex, Refuse, Close, Goto, At
<1>12. ASSUME NEW a \in Attempts, CheckBayIndex(a) PROVE Records'
  BY <1>a, <1>b, <1>12 DEF CheckBayIndex, Refuse, Close, Goto, At
<1>13. ASSUME NEW a \in Attempts, Complete(a) PROVE Records'
  BY <1>a, <1>b, <1>13 DEF Complete, Goto, At
<1>14. ASSUME NEW a \in Attempts, Commit(a) PROVE Records'
  BY <1>c, <1>14 DEF Commit, At
<1>15. ASSUME NEW a \in Attempts, BreakDeadlock(a) PROVE Records'
  BY <1>a, <1>b, <1>15 DEF BreakDeadlock, Refuse, Close
<1>16. ASSUME NEW a \in Attempts, QueryFails(a) PROVE Records'
  BY <1>a, <1>b, <1>16 DEF QueryFails, Close
<1>17. ASSUME NEW a \in Attempts, LoseConnection(a) PROVE Records'
  BY <1>a, <1>b, <1>17 DEF LoseConnection
<1>18. ASSUME NEW a \in Attempts, AbortLost(a) PROVE Records'
  BY <1>a, <1>b, <1>18 DEF AbortLost, Close
<1>19. ASSUME NEW a \in Attempts, CommitLost(a) PROVE Records'
  BY <1>c, <1>19 DEF CommitLost
<1>20. CASE UNCHANGED vars
  BY <1>a, <1>20 DEF vars
<1>21. QED
  BY <1>1, <1>2, <1>3, <1>4, <1>5, <1>6, <1>7, <1>8, <1>9, <1>10, <1>11, <1>12,
     <1>13, <1>14, <1>15, <1>16, <1>17, <1>18, <1>19, <1>20
  DEF Next, Step

\* Whatever is answered as confirmed, by commit or by replay, has a record of
\* the same request.
LEMMA AnswersOnRecordStep ==
  ASSUME IndInv, [Next]_vars
  PROVE  AnswersOnRecord'
<1> USE DEF TypeOK, AnswersOnRecord, Mine, Refused, tables, locals
<1>a. TypeOK /\ Progress /\ Candidates /\ Records /\ AnswersOnRecord
  BY DEF IndInv
<1>1. ASSUME NEW a \in Attempts, RejectMissingKey(a) PROVE AnswersOnRecord'
  BY <1>a, <1>1 DEF RejectMissingKey, Refuse, Close, At
<1>2. ASSUME NEW a \in Attempts, LoadServiceType(a) PROVE AnswersOnRecord'
  BY <1>a, <1>2 DEF LoadServiceType, Refuse, Close, Goto, At
<1>3. ASSUME NEW a \in Attempts, Begin(a) PROVE AnswersOnRecord'
  BY <1>a, <1>3 DEF Begin, Goto, At
<1>4. ASSUME NEW a \in Attempts, ClaimKey(a) PROVE AnswersOnRecord'
  BY <1>a, <1>4 DEF ClaimKey, Goto, At
<1>5. ASSUME NEW a \in Attempts, LookUp(a) PROVE AnswersOnRecord'
  BY <1>a, <1>5 DEF LookUp, SameRequest, Mine, Refuse, Close, Goto
<1>6. ASSUME NEW a \in Attempts, Replay(a) PROVE AnswersOnRecord'
  <2>1. PICK existing \in idempotency, row \in appointments :
          /\ existing.key = request[a].key
          /\ existing.appointment = row.id
          /\ answer' = [answer EXCEPT ![a] = Confirmed(row)]
    BY <1>6 DEF Replay
  <2>2. PICK rec \in idempotency : Mine(a, rec)
    BY <1>a, <1>6 DEF Replay, At
  <2>3. rec = existing
    BY <1>a, <2>1, <2>2 DEF Mine, Records
  <2>4. request[a].service \in Services
    BY <1>a, <1>6 DEF Replay, At, Progress, Statements
  <2>5. pc'[a] = "end" /\ \A b \in Attempts \ {a} : pc'[b] = pc[b]
    BY <1>a, <1>6 DEF Replay, Close
  <2>6. UNCHANGED <<request, tables>>
    BY <1>6 DEF Replay
  <2>7. QED
    BY <1>a, <2>1, <2>2, <2>3, <2>4, <2>5, <2>6 DEF Confirmed, Mine
<1>7. ASSUME NEW a \in Attempts, CheckVehicle(a) PROVE AnswersOnRecord'
  BY <1>a, <1>7 DEF CheckVehicle, Refuse, Close, Goto, At
<1>8. ASSUME NEW a \in Attempts, FindTechnicians(a) PROVE AnswersOnRecord'
  BY <1>a, <1>8 DEF FindTechnicians, Goto, At
<1>9. ASSUME NEW a \in Attempts, FindBays(a) PROVE AnswersOnRecord'
  BY <1>a, <1>9 DEF FindBays, Refuse, Close, Goto, At
<1>10. ASSUME NEW a \in Attempts, InsertRow(a) PROVE AnswersOnRecord'
  BY <1>a, <1>10 DEF InsertRow, Goto, At
<1>11. ASSUME NEW a \in Attempts, CheckTechnicianIndex(a) PROVE AnswersOnRecord'
  BY <1>a, <1>11 DEF CheckTechnicianIndex, Refuse, Close, Goto, At
<1>12. ASSUME NEW a \in Attempts, CheckBayIndex(a) PROVE AnswersOnRecord'
  BY <1>a, <1>12 DEF CheckBayIndex, Refuse, Close, Goto, At
<1>13. ASSUME NEW a \in Attempts, Complete(a) PROVE AnswersOnRecord'
  BY <1>a, <1>13 DEF Complete, Goto, At
<1>14. ASSUME NEW a \in Attempts, Commit(a) PROVE AnswersOnRecord'
  <2>1. PICK row : /\ row \in inserted[a]
                   /\ answer' = [answer EXCEPT ![a] = Confirmed(row)]
    BY <1>14 DEF Commit
  <2>2. row.id = a
    BY <1>a, <1>14, <2>1 DEF Commit, At, Candidates, Inserted, AppointmentFor
  <2>3. row \in appointments' /\ CompletedRow(request[a], a) \in idempotency'
    BY <1>14, <2>1 DEF Commit, Publish
  <2>4. Mine(a, CompletedRow(request[a], a)) /\ CompletedRow(request[a], a).appointment = a
    BY DEF Mine, CompletedRow
  <2>5. request[a].service \in Services
    BY <1>a, <1>14 DEF Commit, At, Progress, Statements
  <2>6. pc' = [pc EXCEPT ![a] = "end"] /\ request' = request
    BY <1>14 DEF Commit, Publish, Close
  <2>7. appointments \subseteq appointments' /\ idempotency \subseteq idempotency'
    BY <1>14 DEF Commit, Publish
  <2>8. QED
    BY <1>a, <2>1, <2>2, <2>3, <2>4, <2>5, <2>6, <2>7 DEF Confirmed, Mine
<1>15. ASSUME NEW a \in Attempts, BreakDeadlock(a) PROVE AnswersOnRecord'
  BY <1>a, <1>15 DEF BreakDeadlock, Refuse, Close
<1>16. ASSUME NEW a \in Attempts, QueryFails(a) PROVE AnswersOnRecord'
  BY <1>a, <1>16 DEF QueryFails, Close
<1>17. ASSUME NEW a \in Attempts, LoseConnection(a) PROVE AnswersOnRecord'
  BY <1>a, <1>17 DEF LoseConnection
<1>18. ASSUME NEW a \in Attempts, AbortLost(a) PROVE AnswersOnRecord'
  BY <1>a, <1>18 DEF AbortLost, Close
<1>19. ASSUME NEW a \in Attempts, CommitLost(a) PROVE AnswersOnRecord'
  BY <1>a, <1>19 DEF CommitLost, Publish, Close, Mine
<1>20. CASE UNCHANGED vars
  BY <1>a, <1>20 DEF vars
<1>21. QED
  BY <1>1, <1>2, <1>3, <1>4, <1>5, <1>6, <1>7, <1>8, <1>9, <1>10, <1>11, <1>12,
     <1>13, <1>14, <1>15, <1>16, <1>17, <1>18, <1>19, <1>20
  DEF Next, Step

\* A refusal is caused by a lasting fact: committed rows stay.
LEMMA RefusalsCausedStep ==
  ASSUME IndInv, [Next]_vars
  PROVE  RefusalsCaused'
<1> USE DEF TypeOK, RefusalsCaused, Refused, tables, locals
<1>a. TypeOK /\ Candidates /\ RefusalsCaused
  BY DEF IndInv
<1>b. ASSUME NEW c \in Attempts, request' = request, appointments \subseteq appointments',
             Cause(c)
      PROVE  Cause(c)'
  BY <1>b DEF Cause, Contested, Busy
<1>1. ASSUME NEW a \in Attempts, RejectMissingKey(a) PROVE RefusalsCaused'
  BY <1>a, <1>b, <1>1 DEF RejectMissingKey, Refuse, Close, At
<1>2. ASSUME NEW a \in Attempts, LoadServiceType(a) PROVE RefusalsCaused'
  BY <1>a, <1>b, <1>2 DEF LoadServiceType, Refuse, Close, Goto, At
<1>3. ASSUME NEW a \in Attempts, Begin(a) PROVE RefusalsCaused'
  BY <1>a, <1>b, <1>3 DEF Begin, Goto, At
<1>4. ASSUME NEW a \in Attempts, ClaimKey(a) PROVE RefusalsCaused'
  BY <1>a, <1>b, <1>4 DEF ClaimKey, Goto, At
<1>5. ASSUME NEW a \in Attempts, LookUp(a) PROVE RefusalsCaused'
  BY <1>a, <1>b, <1>5 DEF LookUp, Refuse, Close, Goto, At
<1>6. ASSUME NEW a \in Attempts, Replay(a) PROVE RefusalsCaused'
  BY <1>a, <1>b, <1>6 DEF Replay, Close, Confirmed
<1>7. ASSUME NEW a \in Attempts, CheckVehicle(a) PROVE RefusalsCaused'
  BY <1>a, <1>b, <1>7 DEF CheckVehicle, Refuse, Close, Goto, At
<1>8. ASSUME NEW a \in Attempts, FindTechnicians(a) PROVE RefusalsCaused'
  <2>1. ASSUME AvailableTechnicians(appointments, request[a]) = {} PROVE Cause(a)
    BY <2>1 DEF AvailableTechnicians, Cause, Contested, Busy
  <2>2. QED
    BY <1>a, <1>b, <1>8, <2>1 DEF FindTechnicians, Goto
<1>9. ASSUME NEW a \in Attempts, FindBays(a) PROVE RefusalsCaused'
  <2>1. ASSUME AvailableBays(appointments, request[a]) = {} PROVE Cause(a)
    BY <2>1 DEF AvailableBays, Cause, Contested, Busy
  <2>2. QED
    BY <1>a, <1>b, <1>9, <2>1 DEF FindBays, At, Goto, Refuse, Close
<1>10. ASSUME NEW a \in Attempts, InsertRow(a) PROVE RefusalsCaused'
  BY <1>a, <1>b, <1>10 DEF InsertRow, Goto, At
<1>11. ASSUME NEW a \in Attempts, CheckTechnicianIndex(a) PROVE RefusalsCaused'
  <2>1. CASE TechnicianTaken(a) /\ Refuse(a, "no_availability")
    <3>1. PICK x \in inserted[a], y \in appointments : TechnicianClash(x, y)
      BY <2>1 DEF TechnicianTaken
    <3>2. PICK t \in Technicians, b \in Bays :
            /\ Qualified(t, request[a])
            /\ Compatible(b, request[a])
            /\ x = AppointmentFor(a, request[a], t, b)
      BY <1>a, <1>11, <3>1 DEF CheckTechnicianIndex, At, Candidates, Inserted
    <3>3. y \in Busy(appointments, request[a])
      BY <1>a, <3>1, <3>2, ClashSymmetric
      DEF TechnicianClash, BothConfirmed, Busy, Overlap, Slot, AppointmentFor
    <3>4. Qualified(y.technician, request[a]) \/ Compatible(y.bay, request[a])
      BY <3>1, <3>2 DEF TechnicianClash, AppointmentFor
    <3>5. Cause(a)
      BY <3>3, <3>4 DEF Cause, Contested
    <3>6. QED
      BY <1>a, <1>b, <2>1, <3>5 DEF Refuse, Close
  <2>2. CASE ~TechnicianTaken(a) /\ UNCHANGED <<request, tables, answer, locals>>
    BY <1>a, <1>b, <1>11, <2>2 DEF CheckTechnicianIndex, Goto, Refuse, Close
  <2>3. QED
    BY <1>11, <2>1, <2>2 DEF CheckTechnicianIndex
<1>12. ASSUME NEW a \in Attempts, CheckBayIndex(a) PROVE RefusalsCaused'
  <2>1. CASE BayTaken(a) /\ Refuse(a, "no_availability")
    <3>1. PICK x \in inserted[a], y \in appointments : BayClash(x, y)
      BY <2>1 DEF BayTaken
    <3>2. PICK t \in Technicians, b \in Bays :
            /\ Qualified(t, request[a])
            /\ Compatible(b, request[a])
            /\ x = AppointmentFor(a, request[a], t, b)
      BY <1>a, <1>12, <3>1 DEF CheckBayIndex, At, Candidates, Inserted
    <3>3. y \in Busy(appointments, request[a])
      BY <1>a, <3>1, <3>2, ClashSymmetric
      DEF BayClash, BothConfirmed, Busy, Overlap, Slot, AppointmentFor
    <3>4. Qualified(y.technician, request[a]) \/ Compatible(y.bay, request[a])
      BY <3>1, <3>2 DEF BayClash, AppointmentFor
    <3>5. Cause(a)
      BY <3>3, <3>4 DEF Cause, Contested
    <3>6. QED
      BY <1>a, <1>b, <2>1, <3>5 DEF Refuse, Close
  <2>2. CASE ~BayTaken(a) /\ UNCHANGED <<request, tables, answer, locals>>
    BY <1>a, <1>b, <1>12, <2>2 DEF CheckBayIndex, Goto, Refuse, Close
  <2>3. QED
    BY <1>12, <2>1, <2>2 DEF CheckBayIndex
<1>13. ASSUME NEW a \in Attempts, Complete(a) PROVE RefusalsCaused'
  BY <1>a, <1>b, <1>13 DEF Complete, Goto, At
<1>14. ASSUME NEW a \in Attempts, Commit(a) PROVE RefusalsCaused'
  BY <1>a, <1>b, <1>14 DEF Commit, Publish, Close, Confirmed
<1>15. ASSUME NEW a \in Attempts, BreakDeadlock(a) PROVE RefusalsCaused'
  BY <1>a, <1>b, <1>15 DEF BreakDeadlock, Refuse, Close
<1>16. ASSUME NEW a \in Attempts, QueryFails(a) PROVE RefusalsCaused'
  BY <1>a, <1>b, <1>16 DEF QueryFails, Close
<1>17. ASSUME NEW a \in Attempts, LoseConnection(a) PROVE RefusalsCaused'
  BY <1>a, <1>b, <1>17 DEF LoseConnection
<1>18. ASSUME NEW a \in Attempts, AbortLost(a) PROVE RefusalsCaused'
  BY <1>a, <1>b, <1>18 DEF AbortLost, Close
<1>19. ASSUME NEW a \in Attempts, CommitLost(a) PROVE RefusalsCaused'
  BY <1>a, <1>b, <1>19 DEF CommitLost, Publish, Close
<1>20. CASE UNCHANGED vars
  BY <1>a, <1>20 DEF vars, Cause
<1>21. QED
  BY <1>1, <1>2, <1>3, <1>4, <1>5, <1>6, <1>7, <1>8, <1>9, <1>10, <1>11, <1>12,
     <1>13, <1>14, <1>15, <1>16, <1>17, <1>18, <1>19, <1>20
  DEF Next, Step

\* The parts together are inductive.
LEMMA IndInvStep == IndInv /\ [Next]_vars => IndInv'
BY TypeStep, ProgressStep, CandidatesStep, KeyHeldOnceStep, TechniciansReservedStep,
   BaysReservedStep, RecordsStep, AnswersOnRecordStep, RefusalsCausedStep DEF IndInv

\* The inductive invariant holds of every behaviour of BookAppointment.
THEOREM Invariance == Spec => []IndInv
BY InitIndInv, IndInvStep, PTL DEF Spec

\* Every state of the tables and of the attempts is well typed.
THEOREM TypeCorrect == Spec => []TypeOK
<1>1. IndInv => TypeOK
  BY DEF IndInv
<1>2. QED
  BY <1>1, Invariance, PTL

\* No two confirmed appointments of a technician or of a bay overlap, however
\* the checks and inserts of concurrent attempts interleave or fail.
THEOREM NeverDoubleBooked == Spec => []NoDoubleBooking
<1>1. IndInv => NoDoubleBooking
  BY DEF IndInv, TechniciansReserved, BaysReserved, NoDoubleBooking
<1>2. QED
  BY <1>1, Invariance, PTL

\* Two appointments under one key would have two records under it; two
\* answers under one key show the appointment of the same record.
LEMMA KeyMakesOneAppointment == IndInv => OneAppointmentPerKey
<1> SUFFICES ASSUME IndInv, NEW a \in Attempts, NEW b \in Attempts,
                    request[a].key = request[b].key
             PROVE  /\ (\E x, y \in appointments : x.id = a /\ y.id = b) => a = b
                    /\ answer[a].outcome = "confirmed" /\ answer[b].outcome = "confirmed"
                         => answer[a] = answer[b]
  BY DEF OneAppointmentPerKey
<1>1. TypeOK /\ Records /\ AnswersOnRecord
  BY DEF IndInv
<1>2. ASSUME NEW x \in appointments, NEW y \in appointments, x.id = a, y.id = b
      PROVE  a = b
  <2>1. PICK k \in idempotency : k.appointment = a
    BY <1>1, <1>2 DEF Records, RecordsMatchBookings
  <2>2. PICK l \in idempotency : l.appointment = b
    BY <1>1, <1>2 DEF Records, RecordsMatchBookings
  <2>3. k.key = request[a].key /\ l.key = request[b].key
    BY <1>1, <2>1, <2>2 DEF Records, RecordsMatchBookings
  <2>4. QED
    BY <1>1, <2>1, <2>2, <2>3 DEF Records
<1>3. ASSUME answer[a].outcome = "confirmed", answer[b].outcome = "confirmed"
      PROVE  answer[a] = answer[b]
  <2>1. /\ answer[a].appointment \in appointments
        /\ answer[b].appointment \in appointments
    BY <1>1, <1>3 DEF AnswersOnRecord
  <2>2. PICK k \in idempotency :
          k.key = request[a].key /\ k.appointment = answer[a].appointment.id
    BY <1>1, <1>3 DEF AnswersOnRecord, Mine
  <2>3. PICK l \in idempotency :
          l.key = request[b].key /\ l.appointment = answer[b].appointment.id
    BY <1>1, <1>3 DEF AnswersOnRecord, Mine
  <2>4. answer[a].appointment = answer[b].appointment
    BY <1>1, <2>1, <2>2, <2>3 DEF Records
  <2>5. answer[a] \in Answers /\ answer[b] \in Answers
    BY <1>1 DEF TypeOK
  <2>6. QED
    BY <1>3, <2>4, <2>5 DEF Answers
<1>4. QED
  BY <1>2, <1>3

\* Duplicates and retries of a key make one appointment and hear of that one.
THEOREM OneBookingPerKey == Spec => []OneAppointmentPerKey
BY KeyMakesOneAppointment, Invariance, PTL

\* No appointment is committed without its completed idempotency record, and
\* no record without its appointment.
THEOREM RecordsConsistent == Spec => []RecordsMatchBookings
<1>1. IndInv => RecordsMatchBookings
  BY DEF IndInv, Records
<1>2. QED
  BY <1>1, Invariance, PTL

\* The booking of a replayed record fulfils the request that replays it,
\* because their digests are equal.
LEMMA AnswersTrue == IndInv => AnswersFulfilRequests
<1> SUFFICES ASSUME IndInv, NEW a \in Attempts, answer[a].outcome = "confirmed"
             PROVE  /\ answer[a].appointment \in appointments
                    /\ Fulfils(answer[a].appointment, request[a])
                    /\ OwnsVehicle(request[a])
  BY DEF AnswersFulfilRequests
<1>1. TypeOK /\ Records /\ AnswersOnRecord
  BY DEF IndInv
<1>2. answer[a].appointment \in appointments
  BY <1>1 DEF AnswersOnRecord
<1>3. PICK rec \in idempotency : Mine(a, rec) /\ rec.appointment = answer[a].appointment.id
  BY <1>1 DEF AnswersOnRecord
<1>4. PICK row \in appointments :
        /\ row.id = rec.appointment
        /\ row.id \in Attempts
        /\ rec.hash = RequestHash(request[row.id])
        /\ Fulfils(row, request[row.id])
  BY <1>1 DEF Records, RecordsMatchBookings
<1>5. row = answer[a].appointment
  BY <1>1, <1>2, <1>3, <1>4 DEF Records
<1>6. RequestHash(request[a]) = RequestHash(request[row.id])
  BY <1>3, <1>4 DEF Mine
<1>7. request[a] \in Requests /\ request[row.id] \in Requests
  BY <1>1, <1>4 DEF TypeOK
<1>8. OwnsVehicle(request[row.id])
  BY <1>1, <1>4 DEF Records
<1>9. QED
  BY <1>2, <1>4, <1>5, <1>6, <1>7, <1>8, SameDigest

\* A 201 shows a committed booking of just what the caller asked for.
THEOREM AnswersHonest == Spec => []AnswersFulfilRequests
BY AnswersTrue, Invariance, PTL

\* "No availability" is answered only where a committed appointment competes
\* or the dealership cannot serve the request at all.
THEOREM RefusalsJustified == Spec => []RefusalHasCause
<1>1. IndInv => RefusalHasCause
  BY DEF IndInv, RefusalsCaused, Cause, RefusalHasCause
<1>2. QED
  BY <1>1, Invariance, PTL

-----------------------------------------------------------------------------
(* Booking implements AtomicBooking.  An attempt takes effect there when   *)
(* its transaction commits, when it reads the booking it replays, or when  *)
(* it is refused; every other step is invisible.                           *)

\* The operators of BookingData mean the same in both specifications.
LEMMA AtomicOperators ==
  /\ Atomic!Pending = Pending /\ Atomic!Refusals = Refusals
  /\ \A outcome : Atomic!Refused(outcome) = Refused(outcome)
  /\ \A row : Atomic!Confirmed(row) = Confirmed(row)
  /\ \A r : Atomic!OwnsVehicle(r) = OwnsVehicle(r)
  /\ \A r : Atomic!RequestHash(r) = RequestHash(r)
  /\ \A r, id : Atomic!CompletedRow(r, id) = CompletedRow(r, id)
  /\ \A r, id, t, b : Atomic!AppointmentFor(id, r, t, b) = AppointmentFor(id, r, t, b)
  /\ \A rows, r : /\ Atomic!AvailableTechnicians(rows, r) = AvailableTechnicians(rows, r)
                  /\ Atomic!AvailableBays(rows, r) = AvailableBays(rows, r)
                  /\ Atomic!Contested(rows, r) = Contested(rows, r)
<1>1. /\ Atomic!Pending = Pending /\ Atomic!Refusals = Refusals
      /\ \A outcome : Atomic!Refused(outcome) = Refused(outcome)
      /\ \A row : Atomic!Confirmed(row) = Confirmed(row)
  BY DEF Atomic!Pending, Pending, Atomic!Refusals, Refusals, Atomic!Refused, Refused,
     Atomic!Confirmed, Confirmed
<1>2. \A r : Atomic!OwnsVehicle(r) = OwnsVehicle(r)
  BY DEF Atomic!OwnsVehicle, OwnsVehicle
<1>3. \A r : Atomic!ServiceEnd(r) = ServiceEnd(r)
  BY DEF Atomic!ServiceEnd, ServiceEnd
<1>4. \A r : Atomic!RequestHash(r) = RequestHash(r)
  BY <1>3 DEF Atomic!RequestHash, RequestHash
<1>5. \A r, id : Atomic!CompletedRow(r, id) = CompletedRow(r, id)
  BY <1>4 DEF Atomic!CompletedRow, CompletedRow
<1>6. \A r, id, t, b : Atomic!AppointmentFor(id, r, t, b) = AppointmentFor(id, r, t, b)
  BY <1>3 DEF Atomic!AppointmentFor, AppointmentFor
<1>7. \A rows, r : Atomic!Busy(rows, r) = Busy(rows, r)
  BY <1>3 DEF Atomic!Busy, Busy, Atomic!Overlap, Overlap, Atomic!Slot, Slot
<1>8. ASSUME NEW rows, NEW r
      PROVE  /\ Atomic!AvailableTechnicians(rows, r) = AvailableTechnicians(rows, r)
             /\ Atomic!AvailableBays(rows, r) = AvailableBays(rows, r)
  BY <1>7 DEF Atomic!AvailableTechnicians, AvailableTechnicians, Atomic!AvailableBays,
     AvailableBays, Atomic!Qualified, Qualified, Atomic!Compatible, Compatible
<1>9. \A rows, r : Atomic!Contested(rows, r) = Contested(rows, r)
  BY <1>7, <1>8 DEF Atomic!Contested, Contested, Atomic!Qualified, Qualified,
     Atomic!Compatible, Compatible
<1>10. QED
  BY <1>1, <1>2, <1>4, <1>5, <1>6, <1>8, <1>9

\* What happens to one attempt alone, and does not lose its connection, leaves the
\* others in the doubt they were in.
LEMMA DoubtOfOthers ==
  ASSUME NEW a \in Attempts,
         \A d \in Attempts \ {a} : conn'[d] = conn[d] /\ pc'[d] = pc[d],
         ~(conn'[a] = "lost" /\ pc'[a] = "commit")
  PROVE  InDoubt' = InDoubt \ {a}
BY DEF InDoubt

\* An attempt that is over is in no doubt.
LEMMA CloseLeavesNoDoubt ==
  ASSUME TypeOK, NEW a \in Attempts, Close(a)
  PROVE  InDoubt' = InDoubt \ {a}
<1>1. /\ \A d \in Attempts \ {a} : conn'[d] = conn[d] /\ pc'[d] = pc[d]
      /\ pc'[a] = "end"
  BY DEF TypeOK, Close
<1>2. QED
  BY <1>1, DoubtOfOthers

\* The step that shows an attempt as booked: its key is unused and both its
\* resources are free at that instant.
LEMMA PublishBooks ==
  ASSUME IndInv, NEW a \in Attempts, pc[a] = "commit", Publish(a), request' = request,
         \/ /\ answer[a] = Pending
            /\ \A row \in inserted[a] : answer' = [answer EXCEPT ![a] = Confirmed(row)]
         \/ /\ a \in InDoubt
            /\ UNCHANGED answer
  PROVE  \E t \in Technicians, b \in Bays : Atomic!Book(a, t, b)
<1>1. /\ TypeOK /\ Progress /\ Candidates /\ KeyHeldOnce
      /\ TechniciansReserved /\ BaysReserved
  BY DEF IndInv
<1>2. PICK t \in Technicians, b \in Bays :
        /\ Qualified(t, request[a])
        /\ Compatible(b, request[a])
        /\ inserted[a] = {AppointmentFor(a, request[a], t, b)}
  BY <1>1 DEF Candidates, Inserted
<1> DEFINE row == AppointmentFor(a, request[a], t, b)
<1>3. \A existing \in idempotency : existing.key # request[a].key
  BY <1>1 DEF KeyHeldOnce, HoldsKey, KeyTaken
<1>4. /\ OwnsVehicle(request[a]) /\ request[a].service \in Services
      /\ request[a].key # EmptyKey
  BY <1>1 DEF Progress, OwnerKnown, Inserted, Statements
<1>5. \A y \in Busy(appointments, request[a]) : y.technician # t /\ y.bay # b
  <2> SUFFICES ASSUME NEW y \in Busy(appointments, request[a])
               PROVE  y.technician # t /\ y.bay # b
    OBVIOUS
  <2>1. ~TechnicianClash(row, y) /\ ~BayClash(row, y)
    BY <1>1, <1>2 DEF TechniciansReserved, BaysReserved, PastTechnicianIndex,
       PastBayIndex, TechnicianTaken, BayTaken, Busy
  <2>2. BothConfirmed(row, y)
    <3>1. row \in AppointmentRows(AppointmentIds) /\ y \in AppointmentRows(AppointmentIds)
      BY <1>1, <1>2 DEF TypeOK, Busy
    <3>2. row.start = Slot(request[a]).start /\ row.end = Slot(request[a]).end
          /\ row.status = "confirmed"
      BY DEF AppointmentFor, Slot
    <3>3. QED
      BY <3>1, <3>2 DEF Busy, BothConfirmed, Overlap, AppointmentRows
  <2>3. row.technician = t /\ row.bay = b
    BY DEF AppointmentFor
  <2>4. QED
    BY <2>1, <2>2, <2>3 DEF TechnicianClash, BayClash
<1>6. /\ t \in AvailableTechnicians(appointments, request[a])
      /\ b \in AvailableBays(appointments, request[a])
  BY <1>2, <1>5 DEF AvailableTechnicians, AvailableBays
<1>7. /\ appointments' = appointments \cup {row}
      /\ idempotency' = idempotency \cup {CompletedRow(request[a], a)}
  BY <1>2 DEF Publish
<1>8. \/ answer[a] = Pending /\ answer' = [answer EXCEPT ![a] = Confirmed(row)]
           /\ InDoubt' = InDoubt
      \/ a \in InDoubt /\ InDoubt' = InDoubt \ {a} /\ UNCHANGED answer
  <2>1. InDoubt' = InDoubt \ {a}
    BY <1>1, CloseLeavesNoDoubt DEF Publish
  <2>2. answer[a] = Pending => a \notin InDoubt
    BY <1>1 DEF Progress, InDoubt, Pending, Refused
  <2>3. QED
    BY <1>2, <2>1, <2>2
<1>9. request[a] # Null
  BY <1>1, BookingDataAssumption DEF TypeOK
<1>10. Atomic!Book(a, t, b)
  BY <1>3, <1>4, <1>6, <1>7, <1>8, <1>9, AtomicOperators
  DEF Atomic!Book, Atomic!Enter, Atomic!Claimed
<1>11. QED
  BY <1>10

\* A refusal by the code is a refusal of the promise, if it says the truth.
LEMMA RefuseRefuses ==
  ASSUME TypeOK, Progress, NEW a \in Attempts, NEW outcome \in Refusals,
         Refuse(a, outcome), answer[a] = Pending, Atomic!Truthful(a, outcome)
  PROVE  Atomic!Refuse(a, outcome)
<1>1. request[a] # Null
  BY BookingDataAssumption DEF TypeOK
<1>2. InDoubt' = InDoubt
  BY CloseLeavesNoDoubt DEF Refuse, Progress, InDoubt, Pending, Refused
<1>3. QED
  BY <1>1, <1>2, AtomicOperators DEF Refuse, tables, Atomic!Refuse

\* The key that an attempt holds, no other attempt has booked under or may yet.
LEMMA HeldIsUnclaimed ==
  ASSUME KeyHeldOnce, NEW a \in Attempts, HoldsKey(a), conn[a] # "lost"
  PROVE  Atomic!Unclaimed(request[a].key)
<1>1. ~KeyTaken(a)
  BY DEF KeyHeldOnce
<1>2. \A d \in InDoubt : HoldsKey(d) /\ d # a
  BY DEF InDoubt, HoldsKey
<1>3. \A d \in InDoubt : request[d].key # request[a].key
  BY <1>2 DEF KeyHeldOnce, InDoubt
<1>4. QED
  BY <1>1, <1>3 DEF Atomic!Unclaimed, Atomic!Claimed, KeyTaken

\* Whoever is refused for lack of availability is contested already: the
\* refusal changes no table, and after it the invariant says so.
LEMMA UnavailableIsTruthful ==
  ASSUME IndInv, [Next]_vars, NEW a \in Attempts, request[a].service \in Services,
         HoldsKey(a), conn[a] # "lost", Refuse(a, "no_availability")
  PROVE  Atomic!Truthful(a, "no_availability")
<1>1. RefusalsCaused'
  BY RefusalsCausedStep
<1>2. answer'[a].outcome = "no_availability"
  BY DEF IndInv, TypeOK, Refuse, Refused
<1>3. request' = request /\ appointments' = appointments
  BY DEF Refuse, tables
<1>4. Contested(appointments, request[a])
  BY <1>1, <1>2, <1>3 DEF RefusalsCaused, Cause
<1>5. Atomic!Unclaimed(request[a].key)
  BY HeldIsUnclaimed DEF IndInv
<1>6. QED
  BY <1>4, <1>5, AtomicOperators DEF Atomic!Truthful

\* Every step of an attempt is a step of AtomicBooking or a stutter there.
LEMMA StepRefines ==
  ASSUME IndInv, [Next]_vars
  PROVE  [Atomic!Next]_Atomic!vars
<1> DEFINE Same == UNCHANGED <<request, appointments, idempotency, answer, InDoubt>>
<1>a. /\ TypeOK /\ Progress /\ Candidates /\ KeyHeldOnce /\ Records /\ AnswersOnRecord
  BY DEF IndInv
<1>n. \A a \in Attempts : request[a] # Null
  BY <1>a, BookingDataAssumption DEF TypeOK
<1>b. Same => [Atomic!Next]_Atomic!vars
  BY DEF Atomic!vars
<1>u. ASSUME NEW a \in Attempts, pc[a] # "commit" \/ conn[a] # "lost",
             UNCHANGED <<request, appointments, idempotency, answer>>,
             \A d \in Attempts \ {a} : conn'[d] = conn[d] /\ pc'[d] = pc[d],
             conn'[a] # "lost"
      PROVE  [Atomic!Next]_Atomic!vars
  BY <1>b, <1>u, DoubtOfOthers DEF InDoubt
<1>g. ASSUME NEW a \in Attempts, NEW statement, conn[a] # "lost", Goto(a, statement),
             UNCHANGED <<request, appointments, idempotency, answer, conn>>
      PROVE  [Atomic!Next]_Atomic!vars
  <2>1. \A d \in Attempts \ {a} : conn'[d] = conn[d] /\ pc'[d] = pc[d]
    BY <1>a, <1>g DEF TypeOK, Goto
  <2>2. QED
    BY <1>u, <1>g, <2>1
<1>c. ASSUME NEW a \in Attempts, NEW outcome \in Refusals, Atomic!Refuse(a, outcome)
      PROVE  [Atomic!Next]_Atomic!vars
  BY <1>c, AtomicOperators DEF Atomic!Next, Atomic!Serve
<1>d. ASSUME NEW a \in Attempts,
             \E t \in Technicians, b \in Bays : Atomic!Book(a, t, b)
      PROVE  [Atomic!Next]_Atomic!vars
  BY <1>d DEF Atomic!Next, Atomic!Serve
<1>e. ASSUME NEW a \in Attempts, Refuse(a, "no_availability"), answer[a] = Pending,
             request[a].service \in Services, HoldsKey(a), conn[a] # "lost"
      PROVE  [Atomic!Next]_Atomic!vars
  BY <1>a, <1>c, <1>e, UnavailableIsTruthful, RefuseRefuses DEF Refusals
<1>1. ASSUME NEW a \in Attempts, RejectMissingKey(a) PROVE [Atomic!Next]_Atomic!vars
  BY <1>a, <1>c, <1>1, RefuseRefuses
  DEF RejectMissingKey, At, Progress, Refusals, Atomic!Truthful
<1>2. ASSUME NEW a \in Attempts, LoadServiceType(a) PROVE [Atomic!Next]_Atomic!vars
  BY <1>a, <1>c, <1>g, <1>2, RefuseRefuses
  DEF LoadServiceType, At, Progress, Refusals, tables, Atomic!Truthful
<1>3. ASSUME NEW a \in Attempts, Begin(a) PROVE [Atomic!Next]_Atomic!vars
  <2>1. /\ \A d \in Attempts \ {a} : conn'[d] = conn[d] /\ pc'[d] = pc[d]
        /\ conn'[a] = "open" /\ conn[a] # "lost"
    BY <1>a, <1>3 DEF TypeOK, Begin, Goto, At
  <2>2. QED
    BY <1>u, <1>3, <2>1 DEF Begin, tables
<1>4. ASSUME NEW a \in Attempts, ClaimKey(a) PROVE [Atomic!Next]_Atomic!vars
  BY <1>g, <1>4 DEF ClaimKey, At, tables
<1>5. ASSUME NEW a \in Attempts, LookUp(a) PROVE [Atomic!Next]_Atomic!vars
  <2>1. PICK existing \in idempotency :
          /\ existing.key = request[a].key
          /\ \/ /\ Goto(a, "replay")
                /\ UNCHANGED <<request, tables, answer, conn, locals, inserted, failures>>
             \/ /\ \/ ~SameRequest(a, existing)
                   \/ existing.status # "completed" \/ existing.appointment = Null
                /\ Refuse(a, IF SameRequest(a, existing) THEN "in_progress" ELSE "conflict")
    BY <1>5 DEF LookUp
  <2>2. CASE Goto(a, "replay")
             /\ UNCHANGED <<request, tables, answer, conn, locals, inserted, failures>>
    BY <1>g, <1>5, <2>2 DEF LookUp, At, tables
  <2>3. existing.status = "completed" /\ existing.appointment # Null
    BY <1>a, BookingDataAssumption DEF Records, RecordsMatchBookings, AppointmentIds
  <2>4. answer[a] = Pending /\ request[a].service \in Services
    BY <1>a, <1>5 DEF LookUp, At, Progress, Statements
  <2>5. CASE ~SameRequest(a, existing) /\ Refuse(a, "conflict")
    <3>1. Atomic!Refuse(a, "conflict")
      BY <1>a, <2>1, <2>4, <2>5, AtomicOperators, RefuseRefuses
      DEF Refusals, SameRequest, Atomic!Truthful
    <3>2. QED
      BY <1>c, <3>1 DEF Refusals
  <2>6. QED
    BY <2>1, <2>2, <2>3, <2>5
<1>6. ASSUME NEW a \in Attempts, Replay(a) PROVE [Atomic!Next]_Atomic!vars
  <2>1. PICK existing \in idempotency, row \in appointments :
          /\ existing.key = request[a].key
          /\ existing.appointment = row.id
          /\ answer' = [answer EXCEPT ![a] = Confirmed(row)]
    BY <1>6 DEF Replay
  <2>2. PICK rec \in idempotency : Mine(a, rec)
    BY <1>a, <1>6 DEF Replay, At, AnswersOnRecord
  <2>3. rec = existing
    BY <1>a, <2>1, <2>2 DEF Mine, Records
  <2>4. existing.status = "completed"
    BY <1>a DEF Records, RecordsMatchBookings
  <2>5. existing \in IdempotencyRows
    BY <1>a DEF TypeOK
  <2>6. existing = CompletedRow(request[a], row.id)
    BY <2>1, <2>2, <2>3, <2>4, <2>5 DEF Mine, CompletedRow, IdempotencyRows
  <2>7. answer[a] = Pending /\ request[a].service \in Services
    BY <1>a, <1>6 DEF Replay, At, Progress, Statements
  <2>8. Atomic!Replay(a, row)
    <3>1. InDoubt' = InDoubt
      BY <1>a, <1>6, <2>7, CloseLeavesNoDoubt DEF Replay, Progress, InDoubt, Pending, Refused
    <3>2. QED
      BY <1>n, <1>6, <2>1, <2>6, <2>7, <3>1, AtomicOperators DEF Replay, tables, Atomic!Replay
  <2>9. QED
    BY <2>8 DEF Atomic!Next, Atomic!Serve
<1>7. ASSUME NEW a \in Attempts, CheckVehicle(a) PROVE [Atomic!Next]_Atomic!vars
  <2>1. answer[a] = Pending /\ request[a].service \in Services
    BY <1>a, <1>7 DEF CheckVehicle, At, Progress, Statements
  <2>2. CASE ~OwnsVehicle(request[a]) /\ Refuse(a, "not_owned")
    <3>1. Atomic!Unclaimed(request[a].key)
      BY <1>a, <1>7, HeldIsUnclaimed DEF CheckVehicle, At, HoldsKey
    <3>2. QED
      BY <1>a, <1>c, <2>1, <2>2, <3>1, RefuseRefuses, AtomicOperators
      DEF Refusals, Atomic!Truthful
  <2>3. QED
    BY <1>g, <1>7, <2>2 DEF CheckVehicle, At, tables
<1>8. ASSUME NEW a \in Attempts, FindTechnicians(a) PROVE [Atomic!Next]_Atomic!vars
  BY <1>g, <1>8 DEF FindTechnicians, At, tables
<1>9. ASSUME NEW a \in Attempts, FindBays(a) PROVE [Atomic!Next]_Atomic!vars
  BY <1>a, <1>e, <1>g, <1>9 DEF FindBays, At, Progress, Statements, HoldsKey, tables
<1>10. ASSUME NEW a \in Attempts, InsertRow(a) PROVE [Atomic!Next]_Atomic!vars
  BY <1>g, <1>10 DEF InsertRow, At, tables
<1>11. ASSUME NEW a \in Attempts, CheckTechnicianIndex(a) PROVE [Atomic!Next]_Atomic!vars
  BY <1>a, <1>e, <1>g, <1>11
  DEF CheckTechnicianIndex, At, Progress, Statements, HoldsKey, tables
<1>12. ASSUME NEW a \in Attempts, CheckBayIndex(a) PROVE [Atomic!Next]_Atomic!vars
  BY <1>a, <1>e, <1>g, <1>12
  DEF CheckBayIndex, At, Progress, Statements, HoldsKey, tables
<1>13. ASSUME NEW a \in Attempts, Complete(a) PROVE [Atomic!Next]_Atomic!vars
  BY <1>g, <1>13 DEF Complete, At, tables
<1>14. ASSUME NEW a \in Attempts, Commit(a) PROVE [Atomic!Next]_Atomic!vars
  <2>1. answer[a] = Pending
    BY <1>a, <1>14 DEF Commit, At, Progress
  <2>2. \A row \in inserted[a] : answer' = [answer EXCEPT ![a] = Confirmed(row)]
    <3>1. PICK x : inserted[a] = {x}
      BY <1>a, <1>14 DEF Commit, At, Candidates, Inserted
    <3>2. QED
      BY <1>14, <3>1 DEF Commit
  <2>3. QED
    BY <1>d, <1>14, <2>1, <2>2, PublishBooks DEF Commit, At
<1>15. ASSUME NEW a \in Attempts, BreakDeadlock(a) PROVE [Atomic!Next]_Atomic!vars
  <2>1. answer[a] = Pending
    BY <1>a, <1>15 DEF BreakDeadlock, WaitsFor, Progress
  <2>2. QED
    BY <1>a, <1>c, <1>15, <2>1, RefuseRefuses DEF BreakDeadlock, Refusals, Atomic!Truthful
<1>16. ASSUME NEW a \in Attempts, QueryFails(a) PROVE [Atomic!Next]_Atomic!vars
  <2>1. answer[a] = Pending
    BY <1>a, <1>16 DEF QueryFails, Progress
  <2>2. Atomic!Refuse(a, "error")
    <3>1. InDoubt' = InDoubt
      BY <1>a, <1>16, CloseLeavesNoDoubt DEF QueryFails, InDoubt
    <3>2. QED
      BY <1>n, <1>16, <2>1, <3>1, AtomicOperators
      DEF QueryFails, tables, Atomic!Refuse, Atomic!Truthful
  <2>3. QED
    BY <1>c, <2>2 DEF Refusals
<1>17. ASSUME NEW a \in Attempts, LoseConnection(a) PROVE [Atomic!Next]_Atomic!vars
  <2>1. answer[a] = Pending
    BY <1>a, <1>17 DEF LoseConnection, Progress
  <2>2. Atomic!Refuse(a, "error")
    <3>1. InDoubt' = IF pc[a] = "commit" THEN InDoubt \cup {a} ELSE InDoubt
      BY <1>a, <1>17 DEF LoseConnection, TypeOK, InDoubt
    <3>2. QED
      BY <1>n, <1>17, <2>1, <3>1, AtomicOperators
      DEF LoseConnection, tables, Atomic!Refuse, Atomic!Truthful
  <2>3. QED
    BY <1>c, <2>2 DEF Refusals
<1>18. ASSUME NEW a \in Attempts, AbortLost(a) PROVE [Atomic!Next]_Atomic!vars
  <2>1. InDoubt' = InDoubt \ {a}
    BY <1>a, <1>18, CloseLeavesNoDoubt DEF AbortLost
  <2>2. CASE a \in InDoubt
    BY <1>18, <2>1, <2>2
    DEF AbortLost, tables, Atomic!GiveUp, Atomic!Serve, Atomic!Next
  <2>3. CASE a \notin InDoubt
    BY <1>b, <1>18, <2>1, <2>3 DEF AbortLost, tables
  <2>4. QED
    BY <2>2, <2>3
<1>19. ASSUME NEW a \in Attempts, CommitLost(a) PROVE [Atomic!Next]_Atomic!vars
  <2>1. a \in InDoubt
    BY <1>19 DEF CommitLost, InDoubt
  <2>2. QED
    BY <1>d, <1>19, <2>1, PublishBooks DEF CommitLost
<1>20. CASE UNCHANGED vars
  BY <1>b, <1>20 DEF vars, InDoubt
<1>21. QED
  BY <1>1, <1>2, <1>3, <1>4, <1>5, <1>6, <1>7, <1>8, <1>9, <1>10, <1>11, <1>12,
     <1>13, <1>14, <1>15, <1>16, <1>17, <1>18, <1>19, <1>20
  DEF Next, Step

\* Booking implements AtomicBooking: every attempt appears to be answered in one
\* indivisible step, whatever interleaves with its statements.
THEOREM Linearization == Spec => Linearizable
<1>1. Init => Atomic!Init
  BY AtomicOperators DEF Init, Atomic!Init, InDoubt
<1>2. IndInv /\ [Next]_vars => [Atomic!Next]_Atomic!vars
  BY StepRefines
<1>3. QED
  BY <1>1, <1>2, Invariance, PTL DEF Spec, Linearizable, Atomic!Spec

=============================================================================
