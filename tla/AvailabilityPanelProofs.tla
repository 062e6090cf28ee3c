---------------------- MODULE AvailabilityPanelProofs -----------------------
(***************************************************************************)
(* What the availability panel tells, for any number of overlapping        *)
(* checks, choices and bookings made meanwhile.                            *)
(***************************************************************************)
EXTENDS AvailabilityPanel, TLAPS

\* A check that is under way asks for a choice that was complete.
Asking ==
  \A k \in Checks : UnderWay(k) => check[k].choice \in Choices

\* What a check has found is all there is by now, or more; and once it has found
\* a technician, any bay that is free by now shows that both were free then.
FoundEnough ==
  \A k \in Checks :
    LET c == check[k].choice
    IN  /\ check[k].stage \in {"bays", "answered"} =>
             AvailableTechnicians(appointments, c) \subseteq check[k].technicians
        /\ check[k].stage = "answered" =>
             AvailableBays(appointments, c) \subseteq check[k].bays
        /\ check[k].stage = "bays" =>
             (check[k].technicians # {} /\ AvailableBays(appointments, c) # {}
                => check[k].free)

\* Without an overlap there is one check at a time, and the panel is about it; with
\* none under way, it is about the form unless the timer is about to see to that.
OneAtATime ==
  ~overlapped =>
    /\ \A j, k \in Checks : UnderWay(j) /\ UnderWay(k) => j = k
    /\ \A k \in Checks : UnderWay(k) => panel.choice = check[k].choice
    /\ ~timer => panel.choice = form
    /\ panel.class = "checking" /\ ~abandoned => \E k \in Checks : UnderWay(k)

\* What check maps to, as TypeOK has it.
CheckRecords ==
  [stage: Stages, by: {"timer", "submit", Null}, choice: Choices \cup {Null},
   technicians: SUBSET Technicians, bays: SUBSET Bays, free: BOOLEAN]

\* The inductive invariant.
IndInv == TypeOK /\ Asking /\ FoundEnough /\ AvailableWasTrue /\ OneAtATime

-----------------------------------------------------------------------------
(* Facts about the queries. *)

\* Another appointment only ever takes a resource away.
LEMMA AvailabilityShrinks ==
  ASSUME NEW rows, NEW more, NEW r, rows \subseteq more
  PROVE  /\ AvailableTechnicians(more, r) \subseteq AvailableTechnicians(rows, r)
         /\ AvailableBays(more, r) \subseteq AvailableBays(rows, r)
BY DEF AvailableTechnicians, AvailableBays, Busy

\* A booking made by others is a row of the table.
LEMMA BookedRowType ==
  ASSUME TypeOK, NEW id \in Bookings, NEW r \in Choices, NEW t \in Technicians,
         NEW b \in Bays, Book(id, r, t, b)
  PROVE  /\ appointments \subseteq appointments'
         /\ appointments' \subseteq
              AppointmentRows({row.id : row \in SeedAppointments} \cup Bookings)
<1>1. PICK customer \in Customers, vehicle \in Vehicles :
        appointments' = appointments \cup
          {AppointmentFor(id, [customer |-> customer, vehicle |-> vehicle,
                               dealership |-> r.dealership, service |-> r.service,
                               start |-> r.start], t, b)}
  BY DEF Book
<1>2. /\ r.dealership \in Dealerships /\ r.service \in Services /\ r.start \in Nat
      /\ DurationMinutes[r.service] \in Nat /\ r.service \in ServiceIds
  BY AvailabilityPanelAssumption, SchedulingAssumption
<1>3. ServiceEnd(r) \in Nat
  BY <1>2 DEF ServiceEnd
<1>4. \A c \in Customers, v \in Vehicles :
        AppointmentFor(id, [customer |-> c, vehicle |-> v,
                            dealership |-> r.dealership, service |-> r.service,
                            start |-> r.start], t, b)
          \in AppointmentRows({row.id : row \in SeedAppointments} \cup Bookings)
  BY <1>2, <1>3 DEF AppointmentFor, ServiceEnd, AppointmentRows
<1>5. QED
  BY <1>1, <1>4 DEF TypeOK

-----------------------------------------------------------------------------
(* The invariant. *)

\* No check is under way, and the panel is about nothing.
LEMMA InitIndInv == Init => IndInv
<1> SUFFICES ASSUME Init PROVE IndInv
  OBVIOUS
<1>1. TypeOK
  <2>1. appointments \subseteq AppointmentRows({row.id : row \in SeedAppointments} \cup Bookings)
    BY AvailabilityPanelAssumption DEF Init, AppointmentRows
  <2>2. QED
    BY <2>1 DEF Init, TypeOK, Idle, Stages
<1>2. \A k \in Checks : check[k].stage = "none"
  BY DEF Init, Idle
<1>3. Asking /\ FoundEnough /\ AvailableWasTrue
  BY <1>2 DEF Asking, FoundEnough, AvailableWasTrue, UnderWay
<1>4. OneAtATime
  BY <1>2 DEF Init, OneAtATime, UnderWay
<1>5. QED
  BY <1>1, <1>3, <1>4 DEF IndInv

\* A step that leaves the same checks under way, for the same choices, and does not
\* touch the page, leaves the panel about them.
LEMMA SameChecksUnderWay ==
  ASSUME OneAtATime, UNCHANGED <<form, timer, panel, overlapped, abandoned>>,
         \A j \in Checks : /\ UnderWay(j)' <=> UnderWay(j)
                           /\ check'[j].choice = check[j].choice
  PROVE  OneAtATime'
BY DEF OneAtATime

\* A change of the form.
LEMMA ChangeStep ==
  ASSUME IndInv, NEW c \in Choices \cup {Null}, Change(c)
  PROVE  IndInv'
BY DEF IndInv, Change, TypeOK, Asking, FoundEnough, AvailableWasTrue, OneAtATime, UnderWay,
   Available

\* A check that starts has found nothing yet, and clears the panel for its choice.
LEMMA StartStep ==
  ASSUME IndInv, NEW k \in Checks, NEW by \in {"timer", "submit"}, form \in Choices,
         StartCheck(k, by), timer' \in BOOLEAN,
         UNCHANGED <<appointments, form, abandoned>>
  PROVE  IndInv'
<1> USE DEF IndInv, StartCheck
<1>1. /\ check' \in [Checks -> CheckRecords]
      /\ check'[k].stage = "technicians" /\ check'[k].choice = form
      /\ \A j \in Checks \ {k} : check'[j] = check[j]
  BY DEF TypeOK, Idle, Stages, CheckRecords
<1>2. TypeOK'
  BY <1>1 DEF TypeOK, CheckRecords
<1>3. Asking' /\ FoundEnough' /\ AvailableWasTrue'
  BY <1>1 DEF Asking, FoundEnough, AvailableWasTrue, UnderWay, Available
<1>4. OneAtATime'
  BY <1>1 DEF OneAtATime, UnderWay
<1>5. QED
  BY <1>2, <1>3, <1>4

\* The timer fires.
LEMMA FireStep ==
  ASSUME IndInv, NEW k \in Checks, Fire(k)
  PROVE  IndInv'
<1>1. CASE form # Null /\ StartCheck(k, "timer")
  BY <1>1, StartStep DEF IndInv, TypeOK, Fire
<1>2. CASE form = Null
  <2>1. /\ timer' = FALSE /\ panel' = [class |-> "", choice |-> Null]
        /\ overlapped' = (overlapped \/ \E j \in Checks : UnderWay(j))
        /\ UNCHANGED <<appointments, form, check, abandoned>>
    BY <1>2 DEF Fire, IndInv, TypeOK
  <2>2. TypeOK'
    BY <2>1 DEF IndInv, TypeOK
  <2>3. Asking' /\ FoundEnough' /\ AvailableWasTrue'
    BY <2>1 DEF IndInv, Asking, FoundEnough, AvailableWasTrue, UnderWay, Available
  <2>4. OneAtATime'
    BY <1>2, <2>1 DEF OneAtATime, UnderWay
  <2>5. QED
    BY <2>2, <2>3, <2>4 DEF IndInv
<1>3. QED
  BY <1>1, <1>2 DEF Fire

\* The first statement of a check sees what is free now.
LEMMA QueryTechniciansStep ==
  ASSUME IndInv, NEW k \in Checks, QueryTechnicians(k)
  PROVE  IndInv'
<1> DEFINE c == check[k].choice
<1>a. TypeOK /\ Asking /\ FoundEnough /\ AvailableWasTrue /\ OneAtATime
  BY DEF IndInv
<1>b. /\ check[k].stage = "technicians"
      /\ UNCHANGED <<appointments, form, timer, panel, overlapped, abandoned>>
  BY DEF QueryTechnicians
<1>c. PICK free \in BOOLEAN :
        free <=> /\ AvailableTechnicians(appointments, c) # {}
                 /\ AvailableBays(appointments, c) # {}
  OBVIOUS
<1>d. check' = [check EXCEPT ![k].stage = "bays",
                             ![k].technicians = AvailableTechnicians(appointments, c),
                             ![k].free = free]
  BY <1>c DEF QueryTechnicians, FindTechnicians
<1>1. /\ check'[k].stage = "bays" /\ check'[k].choice = c
      /\ check'[k].technicians = AvailableTechnicians(appointments, c)
      /\ check'[k].free = free
      /\ \A j \in Checks \ {k} : check'[j] = check[j]
  BY <1>a, <1>d DEF TypeOK, CheckRecords
<1>2. TypeOK'
  <2>1. AvailableTechnicians(appointments, c) \subseteq Technicians
    BY DEF AvailableTechnicians
  <2>2. check \in [Checks -> CheckRecords] /\ check[k] \in CheckRecords
    BY <1>a DEF TypeOK, CheckRecords
  <2> DEFINE after == [check[k] EXCEPT !.stage = "bays",
                         !.technicians = AvailableTechnicians(appointments, c), !.free = free]
  <2>3. after \in CheckRecords
    BY <2>1, <2>2 DEF CheckRecords, Stages
  <2>4. check' = [check EXCEPT ![k] = after]
    BY <1>d, <2>2
  <2>5. QED
    BY <1>a, <1>b, <2>2, <2>3, <2>4 DEF TypeOK, CheckRecords
<1>3. Asking' /\ FoundEnough' /\ AvailableWasTrue'
  <2>1. check'[k].technicians # {} /\ AvailableBays(appointments, c) # {} => check'[k].free
    BY <1>c, <1>1
  <2>2. QED
    BY <1>a, <1>b, <1>1, <2>1
    DEF Asking, FoundEnough, AvailableWasTrue, UnderWay, Available
<1>4. OneAtATime'
  BY <1>a, <1>b, <1>1, SameChecksUnderWay DEF UnderWay
<1>5. QED
  BY <1>2, <1>3, <1>4 DEF IndInv

\* The second statement completes the answer: if it is "available", the first saw
\* both free.
LEMMA QueryBaysStep ==
  ASSUME IndInv, NEW k \in Checks, QueryBays(k)
  PROVE  IndInv'
<1> DEFINE c == check[k].choice
<1>a. TypeOK /\ Asking /\ FoundEnough /\ AvailableWasTrue /\ OneAtATime
  BY DEF IndInv
<1>b. /\ check[k].stage = "bays"
      /\ check' = [check EXCEPT ![k].stage = "answered",
                                ![k].bays = AvailableBays(appointments, c)]
      /\ UNCHANGED <<appointments, form, timer, panel, overlapped, abandoned>>
  BY DEF QueryBays, FindBays
<1>1. /\ check'[k].stage = "answered" /\ check'[k].choice = c
      /\ check'[k].technicians = check[k].technicians /\ check'[k].free = check[k].free
      /\ check'[k].bays = AvailableBays(appointments, c)
      /\ \A j \in Checks \ {k} : check'[j] = check[j]
  BY <1>a, <1>b DEF TypeOK, CheckRecords
<1>2. TypeOK'
  <2>1. AvailableBays(appointments, c) \subseteq Bays
    BY DEF AvailableBays
  <2>2. check \in [Checks -> CheckRecords] /\ check[k] \in CheckRecords
    BY <1>a DEF TypeOK, CheckRecords
  <2> DEFINE after == [check[k] EXCEPT !.stage = "answered",
                                       !.bays = AvailableBays(appointments, c)]
  <2>3. after \in CheckRecords
    BY <2>1, <2>2 DEF CheckRecords, Stages
  <2>4. check' = [check EXCEPT ![k] = after]
    BY <1>b, <2>2
  <2>5. QED
    BY <1>a, <1>b, <2>2, <2>3, <2>4 DEF TypeOK, CheckRecords
<1>3. Asking' /\ FoundEnough'
  <2>1. Asking'
    BY <1>a, <1>b, <1>1 DEF Asking, UnderWay
  <2>2. AvailableTechnicians(appointments, c) \subseteq check[k].technicians
    BY <1>a, <1>b DEF FoundEnough
  <2>3. FoundEnough'
    <3>1. ASSUME NEW j \in Checks \ {k}
          PROVE  LET d == check[j].choice
                 IN  /\ check[j].stage \in {"bays", "answered"} =>
                          AvailableTechnicians(appointments, d) \subseteq check[j].technicians
                     /\ check[j].stage = "answered" =>
                          AvailableBays(appointments, d) \subseteq check[j].bays
                     /\ check[j].stage = "bays" =>
                          (check[j].technicians # {} /\ AvailableBays(appointments, d) # {}
                             => check[j].free)
      BY <1>a DEF FoundEnough
    <3>2. /\ AvailableTechnicians(appointments', check'[k].choice)
               \subseteq check'[k].technicians
          /\ AvailableBays(appointments', check'[k].choice) \subseteq check'[k].bays
          /\ check'[k].stage # "bays"
      BY <1>b, <1>1, <2>2
    <3>3. \A j \in Checks \ {k} : check'[j] = check[j] /\ appointments' = appointments
      BY <1>b, <1>1
    <3>4. QED
      BY <3>1, <3>2, <3>3 DEF FoundEnough
  <2>4. QED
    BY <2>1, <2>3
<1>4. AvailableWasTrue'
  <2>1. check[k].technicians # {} /\ AvailableBays(appointments, c) # {} => check[k].free
    BY <1>a, <1>b DEF FoundEnough
  <2>2. QED
    BY <1>a, <1>b, <1>1, <2>1 DEF AvailableWasTrue, Available
<1>5. OneAtATime'
  BY <1>a, <1>b, <1>1, SameChecksUnderWay DEF UnderWay
<1>6. QED
  BY <1>2, <1>3, <1>4, <1>5 DEF IndInv

\* The check ends, with its answer shown or with an error.
LEMMA EndStep ==
  ASSUME IndInv, NEW k \in Checks, Show(k) \/ CheckFails(k)
  PROVE  IndInv'
<1>a. TypeOK /\ Asking /\ FoundEnough /\ AvailableWasTrue /\ OneAtATime
  BY DEF IndInv
<1>b. /\ UnderWay(k)
      /\ check' = [check EXCEPT ![k] = Finished]
      /\ UNCHANGED <<appointments, form, timer, overlapped>>
  BY DEF Show, CheckFails, UnderWay
<1>c. /\ \/ panel'.choice = check[k].choice /\ panel'.class \in {"available", "unavailable"}
            /\ panel' = [class |-> panel'.class, choice |-> panel'.choice]
            /\ abandoned' = abandoned
         \/ panel' = panel /\ abandoned' = TRUE
  BY DEF Show, CheckFails
<1>1. /\ check'[k].stage = "done"
      /\ \A j \in Checks \ {k} : check'[j] = check[j]
  BY <1>a, <1>b DEF TypeOK, Finished, Idle
<1>2. TypeOK'
  <2>1. check' \in [Checks -> CheckRecords]
    BY <1>a, <1>b DEF TypeOK, CheckRecords, Stages, Finished, Idle
  <2>2. check[k].choice \in Choices
    BY <1>a, <1>b DEF Asking
  <2>3. panel' \in [class: {"", "checking", "available", "unavailable"},
                    choice: Choices \cup {Null}]
    BY <1>a, <1>c, <2>2 DEF TypeOK
  <2>4. abandoned' \in BOOLEAN
    BY <1>a, <1>c DEF TypeOK
  <2>5. QED
    BY <1>a, <1>b, <2>1, <2>3, <2>4 DEF TypeOK, CheckRecords
<1>3. Asking' /\ FoundEnough' /\ AvailableWasTrue'
  BY <1>a, <1>b, <1>1 DEF Asking, FoundEnough, AvailableWasTrue, UnderWay, Available
<1>4. OneAtATime'
  <2> SUFFICES ASSUME ~overlapped PROVE OneAtATime'
    BY <1>b DEF OneAtATime
  <2>1. \A j \in Checks : UnderWay(j) => j = k
    BY <1>a, <1>b DEF OneAtATime
  <2>2. \A j \in Checks : ~UnderWay(j)'
    BY <1>1, <2>1 DEF UnderWay
  <2>3. panel'.choice = panel.choice
    BY <1>a, <1>b, <1>c DEF OneAtATime
  <2>4. panel'.class = "checking" => abandoned'
    BY <1>c
  <2>5. QED
    BY <1>a, <1>b, <2>2, <2>3, <2>4 DEF OneAtATime
<1>5. QED
  BY <1>2, <1>3, <1>4 DEF IndInv

\* Others book: whatever was found is still all there is, or more.
LEMMA BookStep ==
  ASSUME IndInv, NEW id \in Bookings, NEW r \in Choices, NEW t \in Technicians, NEW b \in Bays,
         Book(id, r, t, b)
  PROVE  IndInv'
<1>1. /\ appointments \subseteq appointments'
      /\ appointments' \subseteq
           AppointmentRows({row.id : row \in SeedAppointments} \cup Bookings)
  BY BookedRowType DEF IndInv
<1>2. UNCHANGED <<form, timer, check, panel, overlapped, abandoned>>
  BY DEF Book
<1>3. TypeOK' /\ Asking' /\ AvailableWasTrue' /\ OneAtATime'
  BY <1>1, <1>2 DEF IndInv, TypeOK, Asking, AvailableWasTrue, OneAtATime, UnderWay, Available
<1>4. FoundEnough'
  <2> SUFFICES ASSUME NEW k \in Checks
               PROVE  LET c == check[k].choice
                      IN  /\ check[k].stage \in {"bays", "answered"} =>
                               AvailableTechnicians(appointments', c)
                                 \subseteq check[k].technicians
                          /\ check[k].stage = "answered" =>
                               AvailableBays(appointments', c) \subseteq check[k].bays
                          /\ check[k].stage = "bays" =>
                               (check[k].technicians # {}
                                /\ AvailableBays(appointments', c) # {} => check[k].free)
    BY <1>2 DEF FoundEnough
  <2>1. /\ AvailableTechnicians(appointments', check[k].choice)
             \subseteq AvailableTechnicians(appointments, check[k].choice)
        /\ AvailableBays(appointments', check[k].choice)
             \subseteq AvailableBays(appointments, check[k].choice)
    BY <1>1, AvailabilityShrinks
  <2>2. QED
    BY <2>1 DEF IndInv, FoundEnough
<1>5. QED
  BY <1>3, <1>4 DEF IndInv

-----------------------------------------------------------------------------

\* The invariant holds in every reachable state.
THEOREM Invariance == Spec => []IndInv
<1>1. Init => IndInv
  BY InitIndInv
<1>2. IndInv /\ [Next]_vars => IndInv'
  <2> SUFFICES ASSUME IndInv, [Next]_vars PROVE IndInv'
    OBVIOUS
  <2>1. CASE \E c \in Choices \cup {Null} : Change(c)
    BY <2>1, ChangeStep
  <2>2. ASSUME NEW k \in Checks, Fire(k) PROVE IndInv'
    BY <2>2, FireStep
  <2>3. ASSUME NEW k \in Checks, Submit(k) PROVE IndInv'
    BY <2>3, StartStep DEF Submit, IndInv, TypeOK
  <2>4. ASSUME NEW k \in Checks, Proceed(k) PROVE IndInv'
    BY <2>4, QueryTechniciansStep, QueryBaysStep, EndStep DEF Proceed
  <2>5. ASSUME NEW k \in Checks, CheckFails(k) PROVE IndInv'
    BY <2>5, EndStep
  <2>6. CASE \E id \in Bookings, r \in Choices, t \in Technicians, b \in Bays : Book(id, r, t, b)
    BY <2>6, BookStep
  <2>7. CASE UNCHANGED vars
    BY <2>7 DEF vars, IndInv, TypeOK, Asking, FoundEnough, AvailableWasTrue, OneAtATime,
       UnderWay, Available
  <2>8. QED
    BY <2>1, <2>2, <2>3, <2>4, <2>5, <2>6, <2>7 DEF Next
<1>3. QED
  BY <1>1, <1>2, PTL DEF Spec

\* Every variable of page and server keeps its type.
THEOREM TypeCorrect == Spec => []TypeOK
<1>1. IndInv => TypeOK
  BY DEF IndInv
<1>2. QED
  BY <1>1, Invariance, PTL

\* "Both resources can be assigned" was true at the instant of the first statement.
THEOREM AvailableHonest == Spec => []AvailableWasTrue
<1>1. IndInv => AvailableWasTrue
  BY DEF IndInv
<1>2. QED
  BY <1>1, Invariance, PTL

\* Who gives up on "unavailable" loses nothing by it.
THEOREM UnavailableHonest == Spec => []UnavailableIsFinal
<1>1. IndInv => UnavailableIsFinal
  BY DEF IndInv, FoundEnough, UnavailableIsFinal, Available
<1>2. QED
  BY <1>1, Invariance, PTL

\* A panel at rest whose checks did not overlap is about the form.
THEOREM PanelCurrent == Spec => []SettledPanelIsCurrent
<1>1. IndInv => SettledPanelIsCurrent
  BY DEF IndInv, OneAtATime, SettledPanelIsCurrent, Quiet
<1>2. QED
  BY <1>1, Invariance, PTL

=============================================================================
