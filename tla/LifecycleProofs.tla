-------------------------- MODULE LifecycleProofs ---------------------------
(***************************************************************************)
(* The safety of an orderly shutdown, for any number of connections.       *)
(***************************************************************************)
EXTENDS Lifecycle, TLAPS

Busy(c) == stage[c] \in {"working", "transaction", "committed", "failed"}

\* Nobody is served before main is ready, and signals stay harmless until the
\* listener fails or the process ends.
Guarded ==
  /\ phase = "starting" => \A c \in Conns : stage[c] = "none"
  /\ caught \/ broken \/ phase = "exited"

\* A request that the shutdown has found under way is as old as the shutdown, and
\* past the write timeout if it is still there when Shutdown has returned.
InTime ==
  /\ phase \in {"starting", "serving"} => drain = 0
  /\ \A c \in Conns :
       Busy(c) /\ ~late[c] =>
         /\ phase = "draining" => age[c] >= drain
         /\ phase = "closing" \/ exit = "returned" => age[c] >= WriteTimeout

\* The inductive invariant.
IndInv == TypeOK /\ Guarded /\ NoTransactionCut /\ InTime

\* The process has not begun to listen.
LEMMA InitIndInv == Init => IndInv
<1> SUFFICES ASSUME Init PROVE IndInv
  OBVIOUS
<1>1. TypeOK
  <2>1. stage \in [Conns -> Stages] /\ late \in [Conns -> BOOLEAN]
    BY DEF Init, Stages
  <2>2. drain \in 0 .. ShutdownTimeout /\ age \in [Conns -> 0 .. WriteTimeout]
    BY DEF Init, ShutdownTimeout, WriteTimeout
  <2> QED BY <2>1, <2>2 DEF Init, TypeOK
<1>2. Guarded /\ NoTransactionCut
  BY DEF Init, Guarded, NoTransactionCut
<1>3. InTime
  BY DEF Init, InTime, Busy
<1> QED BY <1>1, <1>2, <1>3 DEF IndInv

\* main's own steps, and the signals it waits for.
LEMMA MainIndInv ==
  ASSUME IndInv, Main \/ Signal \/ ListenFails
  PROVE  IndInv'
<1> USE DEF server, clients
<1> USE DEF IndInv, TypeOK, Guarded, NoTransactionCut, InTime, Busy, Stages,
            ShutdownTimeout, WriteTimeout
<1>1. CASE Ready
  BY <1>1 DEF Ready
<1>2. CASE StartFails
  BY <1>2 DEF StartFails
<1>3. CASE BeginShutdown
  BY <1>3 DEF BeginShutdown
<1>4. CASE ShutdownReturns
  <2>1. TypeOK' /\ Guarded' /\ NoTransactionCut'
    BY <1>4 DEF ShutdownReturns
  <2>2. ASSUME NEW c \in Conns, Busy(c), ~late[c]
        PROVE  age[c] >= WriteTimeout
    BY <1>4, <2>2 DEF ShutdownReturns, Quiet
  <2>3. InTime'
    BY <1>4, <2>2 DEF ShutdownReturns
  <2> QED BY <2>1, <2>3
<1>5. CASE Exit
  BY <1>5 DEF Exit
<1>6. CASE Signal
  BY <1>6 DEF Signal, Running
<1>7. CASE ListenFails
  BY <1>7 DEF ListenFails, Listening
<1> QED BY <1>1, <1>2, <1>3, <1>4, <1>5, <1>6, <1>7 DEF Main

\* The steps of a connection and its handler.
LEMMA ConnIndInv ==
  ASSUME IndInv, NEW c \in Conns, Accept(c) \/ ReadHeader(c) \/ Handle(c)
  PROVE  IndInv'
<1> USE DEF server, clients, Move, Running
<1> USE DEF IndInv, TypeOK, Guarded, NoTransactionCut, InTime, Busy, Stages,
            ShutdownTimeout, WriteTimeout, ReadHeaderTimeout
<1>1. CASE Accept(c)
  BY <1>1 DEF Accept, Listening
<1>2. CASE ReadHeader(c)
  BY <1>2 DEF ReadHeader
<1>3. CASE DropSilent(c)
  BY <1>3 DEF DropSilent
<1>4. CASE Acquire(c)
  BY <1>4 DEF Acquire
<1>5. CASE EndTransaction(c)
  BY <1>5 DEF EndTransaction
<1>6. CASE Respond(c)
  BY <1>6 DEF Respond
<1> QED BY <1>1, <1>2, <1>3, <1>4, <1>5, <1>6 DEF Handle

\* Time ages the requests and the shutdown alike.
LEMMA TickIndInv ==
  ASSUME IndInv, Tick
  PROVE  IndInv'
BY DEF Tick, IndInv, TypeOK, Guarded, NoTransactionCut, InTime, Busy, Stages,
       Running, ShutdownTimeout, WriteTimeout

\* The invariant holds in every reachable state, for any set of connections.
THEOREM Invariance == Spec => []IndInv
<1>1. Init => IndInv
  BY InitIndInv
<1>2. IndInv /\ [Next]_vars => IndInv'
  <2> SUFFICES ASSUME IndInv, [Next]_vars PROVE IndInv'
    OBVIOUS
  <2>1. CASE Main \/ Signal \/ ListenFails
    BY <2>1, MainIndInv
  <2>2. CASE Tick
    BY <2>2, TickIndInv
  <2>3. CASE \E c \in Conns : Accept(c) \/ ReadHeader(c) \/ Handle(c)
    BY <2>3, ConnIndInv
  <2>4. CASE UNCHANGED vars
    BY <2>4 DEF vars, server, clients, IndInv, TypeOK, Guarded, NoTransactionCut,
                InTime, Busy
  <2> QED BY <2>1, <2>2, <2>3, <2>4 DEF Next
<1> QED BY <1>1, <1>2, PTL DEF Spec

\* Every variable of the process keeps its type.
THEOREM TypeCorrect == Spec => []TypeOK
<1>1. IndInv => TypeOK
  BY DEF IndInv
<1> QED BY <1>1, Invariance, PTL

\* No signal cuts a transaction off while the listener is sound.
THEOREM TransactionsSurvive == Spec => []NoTransactionCut
<1>1. IndInv => NoTransactionCut
  BY DEF IndInv
<1> QED BY <1>1, Invariance, PTL

\* Whoever could still be answered has been when main returns.
THEOREM ShutdownInTime == Spec => []AnswerableIsNotCut
<1>1. IndInv => AnswerableIsNotCut
  BY DEF IndInv, InTime, Busy, AnswerableIsNotCut
<1> QED BY <1>1, Invariance, PTL

=============================================================================
