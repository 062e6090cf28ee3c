----------------------------- MODULE Lifecycle ------------------------------
(***************************************************************************)
(* main: start-up, and the orderly shutdown of the server while requests   *)
(* are being served.                                                       *)
(*                                                                         *)
(* The unit of time is five seconds.  Time passes at any point; an action  *)
(* may be late, and a deadline says only when it may be taken at the       *)
(* earliest or at the latest.  net/http and pgxpool are modelled from what *)
(* main asks of them.                                                      *)
(***************************************************************************)
EXTENDS Naturals

CONSTANT Conns   \* TCP connections, with one request each

ReadHeaderTimeout == 1
WriteTimeout == 2

MutantShutdownTimeout == 1

ShutdownTimeout == 2

VARIABLES
  phase,      \* where main is
  exit,       \* how the process has ended
  ctxDone,    \* the context of signal.NotifyContext is cancelled
  caught,     \* signals go to that context, not to the default action
  broken,     \* the listener has failed
  poolOpen,   \* pool.Close has not been called
  drain,      \* time since Shutdown was called
  stage,      \* where each connection is
  age,        \* time since it was accepted, then since its header was read
  late        \* history: its header was read after Shutdown was called

server == <<phase, exit, ctxDone, caught, broken, poolOpen, drain>>
clients == <<stage, age, late>>
vars == <<server, clients>>

Stages == {"none", "new", "gone", "working", "transaction", "committed", "failed",
           "answered", "lost"}

TypeOK ==
  /\ phase \in {"starting", "serving", "draining", "closing", "exited"}
  /\ exit \in {"none", "failed", "returned", "killed"}
  /\ exit = "none" <=> phase # "exited"
  /\ ctxDone \in BOOLEAN /\ caught \in BOOLEAN /\ broken \in BOOLEAN
  /\ poolOpen \in BOOLEAN
  /\ drain \in 0 .. ShutdownTimeout
  /\ stage \in [Conns -> Stages]
  /\ age \in [Conns -> 0 .. WriteTimeout]
  /\ late \in [Conns -> BOOLEAN]

Init ==
  /\ phase = "starting" /\ exit = "none"
  /\ ctxDone = FALSE /\ caught = TRUE /\ broken = FALSE
  /\ poolOpen = TRUE
  /\ drain = 0
  /\ stage = [c \in Conns |-> "none"]
  /\ age = [c \in Conns |-> 0]
  /\ late = [c \in Conns |-> FALSE]

Running == phase # "exited"

Listening == phase = "serving" /\ ~broken

-----------------------------------------------------------------------------
(* main *)

\* Configuration, pool and Ping; a Ping under a cancelled context fails.
Ready ==
  /\ phase = "starting"
  /\ ~ctxDone
  /\ phase' = "serving"
  /\ UNCHANGED <<exit, ctxDone, caught, broken, poolOpen, drain, clients>>

\* Returns without a status.
MutantStartFails ==
  /\ phase = "starting"
  /\ phase' = "exited"
  /\ UNCHANGED <<exit, ctxDone, caught, broken, poolOpen, drain, clients>>

\* os.Exit(1), for which no deferred call runs.
StartFails ==
  /\ phase = "starting"
  /\ phase' = "exited" /\ exit' = "failed"
  /\ UNCHANGED <<ctxDone, caught, broken, poolOpen, drain, clients>>

\* SIGINT or SIGTERM, any number of times.  Only stop() lets one kill.
Signal ==
  /\ Running
  /\ \/ /\ caught
        /\ ctxDone' = TRUE
        /\ UNCHANGED <<phase, exit>>
     \/ /\ ~caught
        /\ phase' = "exited" /\ exit' = "killed"
        /\ UNCHANGED ctxDone
  /\ UNCHANGED <<caught, broken, poolOpen, drain, clients>>

\* Logs the error only.
MutantListenFails ==
  /\ Listening
  /\ broken' = TRUE
  /\ UNCHANGED <<phase, exit, ctxDone, caught, poolOpen, drain, clients>>

\* ListenAndServe returns an error: stop().
ListenFails ==
  /\ Listening
  /\ broken' = TRUE
  /\ ctxDone' = TRUE /\ caught' = FALSE
  /\ UNCHANGED <<phase, exit, poolOpen, drain, clients>>

\* <-ctx.Done(), and the call of Shutdown.
BeginShutdown ==
  /\ phase = "serving"
  /\ ctxDone
  /\ phase' = "draining"
  /\ UNCHANGED <<exit, ctxDone, caught, broken, poolOpen, drain, clients>>

Quiet == \A c \in Conns : stage[c] \in {"none", "gone", "answered", "lost"}

\* Every connection is idle, or the timeout has passed.  Then the deferred calls
\* run, pool.Close first: it takes effect at once and returns later.
ShutdownReturns ==
  /\ phase = "draining"
  /\ Quiet \/ drain >= ShutdownTimeout
  /\ phase' = "closing"
  /\ poolOpen' = FALSE
  /\ UNCHANGED <<exit, ctxDone, caught, broken, drain, clients>>

\* Does not wait for the pool.
MutantExit ==
  /\ phase = "closing"
  /\ phase' = "exited" /\ exit' = "returned"
  /\ caught' = FALSE
  /\ UNCHANGED <<ctxDone, broken, poolOpen, drain, clients>>

\* pool.Close returns when all its connections are back; stop() and the end of main
\* follow.  Handlers that hold no connection end with the process.
Exit ==
  /\ phase = "closing"
  /\ \A c \in Conns : stage[c] # "transaction"
  /\ phase' = "exited" /\ exit' = "returned"
  /\ caught' = FALSE
  /\ UNCHANGED <<ctxDone, broken, poolOpen, drain, clients>>

-----------------------------------------------------------------------------
(* net/http and the handlers. *)

Move(c, to) == stage' = [stage EXCEPT ![c] = to]

Accept(c) ==
  /\ Listening
  /\ stage[c] = "none"
  /\ Move(c, "new")
  /\ UNCHANGED <<server, age, late>>

\* Also while Shutdown waits, which treats a fresh connection as busy.
ReadHeader(c) ==
  /\ Running
  /\ stage[c] = "new"
  /\ age[c] < ReadHeaderTimeout
  /\ Move(c, "working")
  /\ age' = [age EXCEPT ![c] = 0]
  /\ late' = [late EXCEPT ![c] = phase # "serving"]
  /\ UNCHANGED server

DropSilent(c) ==
  /\ Running
  /\ stage[c] = "new"
  /\ age[c] >= ReadHeaderTimeout
  /\ Move(c, "gone")
  /\ UNCHANGED <<server, age, late>>

\* The handler takes a connection of the pool, which a closed pool refuses.
Acquire(c) ==
  /\ Running
  /\ stage[c] = "working"
  /\ Move(c, IF poolOpen THEN "transaction" ELSE "failed")
  /\ UNCHANGED <<server, age, late>>

\* BookAppointment returns; Shutdown and pool.Close cancel nothing.
EndTransaction(c) ==
  /\ Running
  /\ stage[c] = "transaction"
  /\ Move(c, "committed") \/ Move(c, "failed")
  /\ UNCHANGED <<server, age, late>>

Respond(c) ==
  /\ Running
  /\ stage[c] \in {"committed", "failed"}
  /\ Move(c, IF age[c] < WriteTimeout THEN "answered" ELSE "lost")
  /\ UNCHANGED <<server, age, late>>

\* Counts no further than anybody looks.
Tick ==
  /\ Running
  /\ age' = [c \in Conns |->
               IF stage[c] \in {"new", "working", "transaction", "committed", "failed"}
                  /\ age[c] < WriteTimeout
               THEN age[c] + 1 ELSE age[c]]
  /\ drain' = IF phase = "draining" /\ drain < ShutdownTimeout THEN drain + 1 ELSE drain
  /\ UNCHANGED <<phase, exit, ctxDone, caught, broken, poolOpen, stage, late>>

-----------------------------------------------------------------------------

Main == Ready \/ StartFails \/ BeginShutdown \/ ShutdownReturns \/ Exit

Handle(c) == DropSilent(c) \/ Acquire(c) \/ EndTransaction(c) \/ Respond(c)

Next ==
  \/ Main
  \/ Signal
  \/ ListenFails
  \/ Tick
  \/ \E c \in Conns : Accept(c) \/ ReadHeader(c) \/ Handle(c)

Spec == Init /\ [][Next]_vars

\* Goroutines run, statements end and time passes; clients need do nothing.
FairSpec ==
  /\ Spec
  /\ WF_vars(Main)
  /\ WF_vars(Tick)
  /\ \A c \in Conns : WF_vars(Handle(c))

-----------------------------------------------------------------------------
(* Properties. *)

\* No number of signals cuts a transaction off, also one that outlives the ten
\* seconds of Shutdown; unless the listener has failed, which calls stop() early, so
\* that the next signal kills.
NoTransactionCut ==
  phase = "exited" /\ ~broken => \A c \in Conns : stage[c] # "transaction"

\* When main returns, every request whose header had been read when the shutdown
\* began has been answered, or is past the write timeout and could not be answered
\* any more.
AnswerableIsNotCut ==
  exit = "returned" =>
    \A c \in Conns :
      stage[c] \in {"working", "transaction", "committed", "failed"} /\ ~late[c] =>
        age[c] >= WriteTimeout

\* The process ends after a signal or a failure of its listener, whatever clients do
\* and however long they take.
StopEnds == ctxDone \/ broken ~> phase = "exited"

=============================================================================
