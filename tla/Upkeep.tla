------------------------------- MODULE Upkeep -------------------------------
(***************************************************************************)
(* Booking while the tables are looked after.  Two things happen to them   *)
(* that no code of the repository does and that its code has to stand:     *)
(* service_types.duration_minutes is edited in SQL, and the cleanup job    *)
(* that README 8 plans calls DeleteExpiredIdempotencyRequests.             *)
(*                                                                         *)
(* CreateAppointment reads the duration for the request hash, BookAppointment *)
(* again for the appointment; it draws an expiry before it claims the key, *)
(* and reads a record after it has found that there is one.  These are     *)
(* steps of their own here; the queries, insert, completion and commit     *)
(* are one, as BookingProofs!Linearization lets them be, and a transaction *)
(* that fails does so when the database notices.                           *)
(***************************************************************************)
EXTENDS BookingData

CONSTANTS
  Edits,        \* <<service, minutes>>: what may be edited, each at most once
  Retention,    \* 24 hours
  MaxClock      \* bound on the clock

ASSUME UpkeepAssumption ==
  /\ Edits \subseteq Services \X (Nat \ {0})
  /\ Retention \in Nat \ {0} /\ MaxClock \in Nat
  /\ \A r \in Requests : r.service \in Services /\ OwnsVehicle(r)
  /\ Null \notin RequestHashes

VARIABLES
  request, appointments, idempotency, answer,  \* as in AtomicBooking
  duration,  \* service_types.duration_minutes
  clock,     \* the time; all clocks agree
  pc,        \* the step an attempt takes next
  hash,      \* its request hash, made before its transaction
  expires,   \* the expires_at_utc it claims its key with
  minutes,   \* the duration its transaction has read
  found,     \* the appointment id its lookup has read
  edited     \* history: the durations that each service has had

tables == <<appointments, idempotency, duration>>
vars == <<request, appointments, idempotency, answer, duration, clock,
          pc, hash, expires, minutes, found, edited>>

\* The rules under given durations.
Under(durations) == INSTANCE BookingData WITH DurationMinutes <- durations

TypeOK ==
  /\ request \in [Attempts -> Requests]
  /\ appointments \subseteq AppointmentRows(AppointmentIds)
  /\ idempotency \subseteq IdempotencyRows
  /\ answer \in [Attempts -> Answers]
  /\ duration \in [Services -> Nat \ {0}]
  /\ clock \in 0 .. MaxClock
  /\ pc \in [Attempts -> {"service", "begin", "claim", "lookup", "replay", "duration",
                          "book", "end"}]
  /\ hash \in [Attempts -> RequestHashes \cup {Null}]
  /\ \A a \in Attempts : hash[a] = Null <=> pc[a] = "service"
  /\ expires \in [Attempts -> 0 .. MaxClock + Retention]
  /\ minutes \in [Attempts -> Nat]
  /\ found \in [Attempts -> AppointmentIds \cup {Null}]
  /\ edited \in [Services -> SUBSET (Nat \ {0})]

Init ==
  /\ request \in [Attempts -> Requests]
  /\ appointments = SeedAppointments
  /\ idempotency = {}
  /\ answer = [a \in Attempts |-> Pending]
  /\ duration = DurationMinutes
  /\ clock = 0
  /\ pc = [a \in Attempts |-> "service"]
  /\ hash = [a \in Attempts |-> Null]
  /\ expires = [a \in Attempts |-> 0]
  /\ minutes = [a \in Attempts |-> 0]
  /\ found = [a \in Attempts |-> Null]
  /\ edited = [s \in Services |-> {DurationMinutes[s]}]

-----------------------------------------------------------------------------
(* Upkeep. *)

Edit(s, to) ==
  /\ to \notin edited[s]
  /\ duration' = [duration EXCEPT ![s] = to]
  /\ edited' = [edited EXCEPT ![s] = @ \cup {to}]
  /\ UNCHANGED <<request, appointments, idempotency, answer, clock, pc, hash, expires,
                 minutes, found>>

Tick ==
  /\ clock < MaxClock
  /\ clock' = clock + 1
  /\ UNCHANGED <<request, tables, answer, pc, hash, expires, minutes, found, edited>>

\* Also what expires at this very moment.
MutantExpired(rec) == expires[rec.appointment] <= clock

\* A record keeps the expiry of the attempt that claimed it, whose id it holds.
Expired(rec) == expires[rec.appointment] < clock

\* DeleteExpiredIdempotencyRequests(now): committed records only.
DeleteExpired ==
  /\ \E rec \in idempotency : Expired(rec)
  /\ idempotency' = {rec \in idempotency : ~Expired(rec)}
  /\ UNCHANGED <<request, appointments, answer, duration, clock, pc, hash, expires,
                 minutes, found, edited>>

-----------------------------------------------------------------------------
(* An attempt. *)

Goto(a, next) == pc' = [pc EXCEPT ![a] = next]

\* Forgets the hash on the way to the transaction.
MutantHashRequest(a) ==
  /\ pc[a] = "service"
  /\ Goto(a, "begin")
  /\ UNCHANGED <<request, tables, answer, clock, hash, expires, minutes, found, edited>>

\* GetServiceType and hashCreateAppointmentInput.
HashRequest(a) ==
  /\ pc[a] = "service"
  /\ hash' = [hash EXCEPT ![a] = Under(duration)!RequestHash(request[a])]
  /\ Goto(a, "begin")
  /\ UNCHANGED <<request, tables, answer, clock, expires, minutes, found, edited>>

\* BeginTx, and the parameters of the first statement.
Begin(a) ==
  /\ pc[a] = "begin"
  /\ expires' = [expires EXCEPT ![a] = clock + Retention]
  /\ Goto(a, "claim")
  /\ UNCHANGED <<request, tables, answer, clock, hash, minutes, found, edited>>

MutantKeyWait(a) == {}

\* The open transactions whose claim of the key the claim waits for.
KeyWait(a) ==
  {b \in Attempts \ {a} : request[b].key = request[a].key /\ pc[b] \in {"duration", "book"}}

\* A lookup without its WHERE key = $1.
MutantRecordsFor(a) == idempotency

RecordsFor(a) == {rec \in idempotency : rec.key = request[a].key}

\* Takes an open claim for a record.
MutantClaimKey(a) ==
  /\ pc[a] = "claim"
  /\ Goto(a, IF RecordsFor(a) = {} /\ KeyWait(a) = {} THEN "duration" ELSE "lookup")
  /\ UNCHANGED <<request, tables, answer, clock, hash, expires, minutes, found, edited>>

\* CreateIdempotencyRequest
ClaimKey(a) ==
  /\ pc[a] = "claim"
  /\ KeyWait(a) = {}
  /\ Goto(a, IF RecordsFor(a) = {} THEN "duration" ELSE "lookup")
  /\ UNCHANGED <<request, tables, answer, clock, hash, expires, minutes, found, edited>>

\* The attempt ends.
Return(a, what) ==
  /\ answer' = [answer EXCEPT ![a] = what]
  /\ Goto(a, "end")
  /\ minutes' = [minutes EXCEPT ![a] = 0]
  /\ found' = [found EXCEPT ![a] = Null]
  /\ UNCHANGED <<request, duration, clock, hash, expires, edited>>

MutantSameRequest(a, rec) == TRUE

SameRequest(a, rec) == rec.hash = hash[a]

\* GetIdempotencyRequest, where the record is still there.
LookUp(a) ==
  /\ pc[a] = "lookup"
  /\ \E rec \in RecordsFor(a) :
       \/ /\ SameRequest(a, rec)
          /\ found' = [found EXCEPT ![a] = rec.appointment]
          /\ Goto(a, "replay")
          /\ UNCHANGED <<request, answer, duration, clock, hash, expires, minutes, edited>>
       \/ ~SameRequest(a, rec) /\ Return(a, Refused("conflict"))
  /\ UNCHANGED <<appointments, idempotency>>

\* The record has been removed since the claim found it: pgx.ErrNoRows.
LookUpMisses(a) ==
  /\ pc[a] = "lookup"
  /\ RecordsFor(a) = {}
  /\ Return(a, Refused("error"))
  /\ UNCHANGED <<appointments, idempotency>>

\* GetAppointment by the id that was read, and Commit.
Replay(a) ==
  /\ pc[a] = "replay"
  /\ \E row \in appointments : row.id = found[a] /\ Return(a, Confirmed(row))
  /\ UNCHANGED <<appointments, idempotency>>

\* SELECT duration_minutes, in the transaction.
ReadDuration(a) ==
  /\ pc[a] = "duration"
  /\ minutes' = [minutes EXCEPT ![a] = duration[request[a].service]]
  /\ Goto(a, "book")
  /\ UNCHANGED <<request, tables, answer, clock, hash, expires, found, edited>>

\* The interval is made of the duration that was read last, the record holds the
\* hash that was made first; and the answer may be lost.  Rows only ever take resources
\* away, so what was first in a list and is still free is first of what is free.
Book(a) ==
  LET rules == [duration EXCEPT ![request[a].service] = minutes[a]]
      free == Under(rules)!AvailableTechnicians(appointments, request[a])
      freeBays == Under(rules)!AvailableBays(appointments, request[a])
      row == Under(rules)!AppointmentFor(a, request[a], First(free), First(freeBays))
  IN  /\ pc[a] = "book"
      /\ free # {} /\ freeBays # {}
      /\ appointments' = appointments \cup {row}
      /\ idempotency' = idempotency \cup
           {[key |-> request[a].key, hash |-> hash[a], status |-> "completed",
             appointment |-> a]}
      /\ Return(a, Confirmed(row)) \/ Return(a, Refused("error"))

FindNothing(a) ==
  LET rules == [duration EXCEPT ![request[a].service] = minutes[a]]
  IN  /\ pc[a] = "book"
      /\ Under(rules)!Contested(appointments, request[a])
      /\ Return(a, Refused("no_availability"))
      /\ UNCHANGED <<appointments, idempotency>>

\* Any statement fails.
Fail(a) ==
  /\ pc[a] \notin {"service", "end"}
  /\ Return(a, Refused("error"))
  /\ UNCHANGED <<appointments, idempotency>>

-----------------------------------------------------------------------------

Next ==
  \/ \E e \in Edits : Edit(e[1], e[2])
  \/ Tick
  \/ DeleteExpired
  \/ \E a \in Attempts :
       \/ HashRequest(a)
       \/ Begin(a)
       \/ ClaimKey(a)
       \/ LookUp(a)
       \/ LookUpMisses(a)
       \/ Replay(a)
       \/ ReadDuration(a)
       \/ Book(a)
       \/ FindNothing(a)
       \/ Fail(a)

Spec == Init /\ [][Next]_vars

-----------------------------------------------------------------------------
(* Properties. *)

Books(a) == \E row \in appointments : row.id = a

\* Wherever the duration is edited, between the two reads or between a booking and
\* its replay, and wherever the cleanup falls, a 201 is about a committed booking of
\* what was asked, for a time that the service has taken at some moment.
AnswersAreOfRequests ==
  \A a \in Attempts :
    LET row == answer[a].appointment
        r == request[a]
    IN  answer[a].outcome = "confirmed" =>
          /\ row \in appointments
          /\ <<row.customer, row.vehicle, row.dealership, row.service, row.start>>
               = <<r.customer, r.vehicle, r.dealership, r.service, r.start>>
          /\ \E n \in edited[r.service] : row.end = row.start + n

\* "Idempotency key was reused with a different request" is told only where another
\* request has used the key, or where the duration has been edited.
ConflictHasCause ==
  \A a \in Attempts :
    answer[a].outcome = "conflict" =>
      \/ edited[request[a].service] # {duration[request[a].service]}
      \/ \E b \in Attempts : request[b].key = request[a].key /\ request[b] # request[a]

\* A key is good for its retention: of two appointments made under one key, the
\* first had expired before the second was committed.  So nobody who retries within
\* 24 hours of the first attempt books twice, whatever has been edited.
RebookingNeedsExpiry ==
  \A a, b \in Attempts :
    a # b /\ request[a].key = request[b].key /\ Books(a) /\ Books(b) =>
      \E c \in {a, b} : expires[c] < clock

\* What a booking is replayed from outlives every retry within its retention: its
\* record is there until it expires, and no other record has its key.
RetainedUntilExpiry ==
  \A a \in Attempts :
    Books(a) /\ expires[a] >= clock =>
      /\ {rec.appointment : rec \in RecordsFor(a)} = {a}
      /\ \A rec \in RecordsFor(a) : rec.hash = hash[a]

\* The error of a record that is gone between claim and lookup strikes only a retry
\* of a booking that has expired.
GapNeedsExpiry ==
  [][\A a \in Attempts :
       LookUpMisses(a) =>
         \E b \in Attempts : /\ request[b].key = request[a].key
                             /\ Books(b) /\ expires[b] < clock]_vars

=============================================================================
