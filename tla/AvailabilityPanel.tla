------------------------- MODULE AvailabilityPanel --------------------------
(***************************************************************************)
(* The availability panel of the booking page: checkAvailability of        *)
(* assets/app.js over GET /api/v1/availability.                            *)
(*                                                                         *)
(* A change of the form starts a timer, the timer starts a check, and      *)
(* so does a submit, which also goes on with the answer.  Checks overlap:  *)
(* nothing cancels one that is under way, and answers arrive in any order. *)
(* The server reads technicians and bays in two statements, between which  *)
(* others book.                                                            *)
(***************************************************************************)
EXTENDS Scheduling

CONSTANTS
  Checks,        \* runs of checkAvailability that reach the server
  Choices,       \* dealership, service and start, once all are filled in
  Bookings,      \* ids of the appointments that others make meanwhile
  SeedAppointments,
  Null

ASSUME AvailabilityPanelAssumption ==
  /\ Choices \subseteq [dealership: Dealerships, service: Services, start: Nat]
  /\ SeedAppointments \subseteq AppointmentRows({row.id : row \in SeedAppointments})
  /\ Null \notin Choices

VARIABLES
  appointments,  \* the committed rows
  form,          \* the choice in the form, Null while it is incomplete
  timer,         \* availabilityTimer is running
  check,         \* where each check is, what it asks for and has been told
  panel,         \* the class of the panel and, history, the choice it is about
  overlapped,    \* history: the panel was begun anew while a check was under way
  abandoned      \* history: a submit whose check failed

vars == <<appointments, form, timer, check, panel, overlapped, abandoned>>

Stages == {"none", "technicians", "bays", "answered", "done"}

Idle == [stage |-> "none", by |-> Null, choice |-> Null, technicians |-> {}, bays |-> {},
         free |-> FALSE]
Finished == [Idle EXCEPT !.stage = "done"]

TypeOK ==
  /\ appointments \subseteq AppointmentRows({row.id : row \in SeedAppointments} \cup Bookings)
  /\ form \in Choices \cup {Null}
  /\ timer \in BOOLEAN
  /\ check \in [Checks -> [stage: Stages, by: {"timer", "submit", Null},
                           choice: Choices \cup {Null}, technicians: SUBSET Technicians,
                           bays: SUBSET Bays, free: BOOLEAN]]
  /\ panel \in [class: {"", "checking", "available", "unavailable"},
                choice: Choices \cup {Null}]
  /\ overlapped \in BOOLEAN
  /\ abandoned \in BOOLEAN

Init ==
  /\ appointments = SeedAppointments
  /\ form = Null
  /\ timer = FALSE
  /\ check = [k \in Checks |-> Idle]
  /\ panel = [class |-> "", choice |-> Null]
  /\ overlapped = FALSE
  /\ abandoned = FALSE

UnderWay(k) == check[k].stage \in {"technicians", "bays", "answered"}
Quiet == ~timer /\ \A k \in Checks : ~UnderWay(k)

-----------------------------------------------------------------------------
(* The page. *)

\* A service picked without a word to the panel.
MutantChange(c) ==
  /\ form' = c
  /\ timer' = (timer \/ form = Null \/ c = Null)
  /\ UNCHANGED <<appointments, check, panel, overlapped, abandoned>>

\* A change event of one of the three fields: scheduleAvailabilityCheck.
Change(c) ==
  /\ c # form
  /\ form' = c
  /\ timer' = TRUE
  /\ UNCHANGED <<appointments, check, panel, overlapped, abandoned>>

\* checkAvailability, up to the fetch.
StartCheck(k, by) ==
  /\ check[k].stage = "none"
  /\ check' = [check EXCEPT ![k] =
                 [Idle EXCEPT !.stage = "technicians", !.by = by, !.choice = form]]
  /\ panel' = [class |-> "checking", choice |-> form]
  /\ overlapped' = (overlapped \/ \E j \in Checks : UnderWay(j))

\* The timer has run for 250 ms.  An incomplete form resets the panel.
Fire(k) ==
  /\ timer
  /\ timer' = FALSE
  /\ \/ /\ form # Null
        /\ StartCheck(k, "timer")
     \/ /\ form = Null
        /\ panel' = [class |-> "", choice |-> Null]
        /\ overlapped' = (overlapped \/ \E j \in Checks : UnderWay(j))
        /\ UNCHANGED check
  /\ UNCHANGED <<appointments, form, abandoned>>

\* A submit checks at once; a timer that runs is left running.
Submit(k) ==
  /\ form # Null
  /\ StartCheck(k, "submit")
  /\ UNCHANGED <<appointments, form, timer, abandoned>>

Available(c) == c.technicians # {} /\ c.bays # {}

\* Writes a class that the style sheet does not have.
MutantShow(k) ==
  /\ check[k].stage = "answered"
  /\ check' = [check EXCEPT ![k] = Finished]
  /\ panel' = [class |-> IF Available(check[k]) THEN "available" ELSE "none",
               choice |-> check[k].choice]
  /\ UNCHANGED <<appointments, form, timer, overlapped, abandoned>>

\* The answer is shown, whatever the form says by now.
Show(k) ==
  /\ check[k].stage = "answered"
  /\ check' = [check EXCEPT ![k] = Finished]
  /\ panel' = [class |-> IF Available(check[k]) THEN "available" ELSE "unavailable",
               choice |-> check[k].choice]
  /\ UNCHANGED <<appointments, form, timer, overlapped, abandoned>>

\* Nobody catches what the timer's check throws.
MutantCheckFails(k) ==
  /\ UnderWay(k)
  /\ check' = [check EXCEPT ![k] = Finished]
  /\ abandoned' = (abandoned \/ check[k].by = "submit")
  /\ UNCHANGED <<appointments, form, timer, panel, overlapped>>

\* The fetch fails or answers an error.  The timer's catch writes to the
\* panel, the submit handler's does not.
CheckFails(k) ==
  /\ UnderWay(k)
  /\ check' = [check EXCEPT ![k] = Finished]
  /\ \/ /\ check[k].by = "timer"
        /\ panel' = [class |-> "unavailable", choice |-> check[k].choice]
        /\ UNCHANGED abandoned
     \/ /\ check[k].by = "submit"
        /\ abandoned' = TRUE
        /\ UNCHANGED panel
  /\ UNCHANGED <<appointments, form, timer, overlapped>>

-----------------------------------------------------------------------------
(* The server: GetAvailability, and bookings made meanwhile. *)

FindTechnicians(c) == AvailableTechnicians(appointments, c)

\* Counts an appointment that begins when the service would end.
MutantFindBays(c) ==
  {b \in Bays : /\ Compatible(b, c)
                /\ \A row \in appointments :
                     row.bay = b /\ row.status = "confirmed" =>
                       row.start > ServiceEnd(c) \/ row.end <= c.start}

\* Looks at the first instant of the service only.
MutantFindFreeBays(c) ==
  {b \in Bays : /\ Compatible(b, c)
                /\ \A row \in appointments :
                     row.bay = b /\ row.status = "confirmed" =>
                       row.start > c.start \/ row.end <= c.start}

FindBays(c) == AvailableBays(appointments, c)

QueryTechnicians(k) ==
  LET c == check[k].choice
  IN  /\ check[k].stage = "technicians"
      /\ check' = [check EXCEPT
           ![k].stage = "bays",
           ![k].technicians = FindTechnicians(c),
           ![k].free = /\ AvailableTechnicians(appointments, c) # {}
                       /\ AvailableBays(appointments, c) # {}]
      /\ UNCHANGED <<appointments, form, timer, panel, overlapped, abandoned>>

QueryBays(k) ==
  /\ check[k].stage = "bays"
  /\ check' = [check EXCEPT ![k].stage = "answered", ![k].bays = FindBays(check[k].choice)]
  /\ UNCHANGED <<appointments, form, timer, panel, overlapped, abandoned>>

\* BookAppointment commits for someone, as AtomicBooking allows it to.
Book(id, r, t, b) ==
  /\ \A row \in appointments : row.id # id
  /\ t \in AvailableTechnicians(appointments, r)
  /\ b \in AvailableBays(appointments, r)
  /\ \E customer \in Customers, vehicle \in Vehicles :
       LET asked == [customer |-> customer, vehicle |-> vehicle, dealership |-> r.dealership,
                     service |-> r.service, start |-> r.start]
       IN  /\ OwnsVehicle(asked)
           /\ appointments' = appointments \cup {AppointmentFor(id, asked, t, b)}
  /\ UNCHANGED <<form, timer, check, panel, overlapped, abandoned>>

-----------------------------------------------------------------------------

Proceed(k) == QueryTechnicians(k) \/ QueryBays(k) \/ Show(k)

Next ==
  \/ \E c \in Choices \cup {Null} : Change(c)
  \/ \E k \in Checks : Fire(k) \/ Submit(k) \/ Proceed(k) \/ CheckFails(k)
  \/ \E id \in Bookings, r \in Choices, t \in Technicians, b \in Bays : Book(id, r, t, b)

Spec == Init /\ [][Next]_vars

\* A fetch ends one way or the other; the timer needs no help to be stated.
FairSpec == Spec /\ \A k \in Checks : WF_vars(Proceed(k))

-----------------------------------------------------------------------------
(* Properties. *)

\* "Both resources can be assigned" was true at an instant, though the answer
\* puts together what two statements saw at two: bookings only ever take
\* resources away, so what is free at the second was free at the first.
AvailableWasTrue ==
  \A k \in Checks :
    check[k].stage = "answered" /\ Available(check[k]) => check[k].free

\* A submit that is told "unavailable" gives up, and is right to: nothing that
\* was unavailable becomes available while the answer is on its way, or after.
UnavailableIsFinal ==
  \A k \in Checks :
    LET c == check[k].choice
    IN  check[k].stage = "answered" /\ ~Available(check[k]) =>
          AvailableTechnicians(appointments, c) = {} \/ AvailableBays(appointments, c) = {}

\* As long as no check is overtaken and no submit's check has failed, a panel at rest
\* is about the choice in the form.
SettledPanelIsCurrent ==
  Quiet /\ ~overlapped /\ ~abandoned => panel.choice = form /\ panel.class # "checking"

\* "Checking..." does not stay, unless it is a submit's check that failed.
CheckingEnds ==
  \A k \in Checks : UnderWay(k) ~> panel.class # "checking" \/ abandoned

=============================================================================
