-------------------------- MODULE LifecycleProofs ---------------------------
(***************************************************************************)
(* Proofs about a plugin process, for any number of faults and signals.    *)
(* That the flags stay Boolean is left to Zenon, the rest to SMT.          *)
(***************************************************************************)
EXTENDS Lifecycle, TLAPS

(* The inductive invariant behind ServingIsReachable. *)

\* How far main has come says what it has started and written, and bounds
\* when the first signal can have come.
MainOK ==
    /\ pc \notin {"boot", "exited"} => stopper # "none"
    /\ pc \in {"liveness", "listen", "serve", "serving"} /\ IsNode => entry
    /\ pc \in {"listen", "serve", "serving"} /\ IsNode => closer # "none"
    /\ pc = "boot" => when = "never"
    /\ pc = "server" => when \in {"never", "server"}
    /\ pc = "register" => Early \/ when = "never"

\* Nothing is stopped without a signal, and stop leaves the server running
\* only after an early one.
SignalOK ==
    /\ pending \/ stopCh \/ catcher \in {"closing", "closed"} => when # "never"
    /\ closer = "done" => stopCh
    /\ closer = "waiting" /\ Runs => probe
    /\ stopper = "done" => stopped \/ Early

IInv == TypeOK /\ MainOK /\ SignalOK

-----------------------------------------------------------------------------
\* A fresh process satisfies the invariant.
LEMMA InitInv == Init => IInv
<1> SUFFICES ASSUME Init PROVE IInv
  OBVIOUS
<1>1. 0 \in 0 .. MaxFaults
  BY LifecycleAssumption
<1>2. TypeOK
  BY <1>1, Zenon DEF Init, TypeOK, Steps
<1>3. MainOK /\ SignalOK
  BY DEF Init, MainOK, SignalOK, Early, Runs
<1> QED BY <1>2, <1>3 DEF IInv

\* The end of the process keeps it: nothing is asked of a dead one.
LEMMA ExitInv ==
    ASSUME IInv, Exit, faults' \in 0 .. MaxFaults
    PROVE  IInv'
<1>1. TypeOK'
  BY Zenon DEF IInv, TypeOK, Exit, signal, run
<1>2. MainOK' /\ SignalOK'
  BY DEF IInv, TypeOK, MainOK, SignalOK, Early, Runs, Exit, signal, run
<1> QED BY <1>1, <1>2 DEF IInv

\* The main goroutine keeps the state well formed...
LEMMA MainType ==
    ASSUME TypeOK, Boot \/ NewServer \/ Register \/ Liveness \/ Listen
    PROVE  TypeOK'
<1>0. pc' \in Steps \cup {"exited"}
  BY DEF Steps, Goto, Boot, NewServer, Register, Liveness, Listen
<1>1. CASE Boot
  BY <1>0, <1>1, Zenon DEF TypeOK, Goto, res, Boot
<1>2. CASE NewServer
  BY <1>0, <1>2, SMT DEF TypeOK, Goto, signal, run, res, NewServer
<1>3. CASE Register
  <2>1. IsNode \in BOOLEAN
    BY SMT DEF IsNode
  <2>2. entry' \in BOOLEAN /\ UNCHANGED <<role, faults, signal, run, stopped, probe, socket>>
    BY <1>3, <2>1, Zenon DEF Goto, Register
  <2> QED BY <1>0, <2>2, SMT DEF TypeOK, signal, run
<1>4. CASE Liveness
  BY <1>0, <1>4, Zenon DEF TypeOK, Goto, signal, Liveness
<1>5. CASE Listen
  BY <1>0, <1>5, Zenon DEF TypeOK, Goto, signal, run, Listen
<1> QED BY <1>1, <1>2, <1>3, <1>4, <1>5

\* ... and the invariant.
LEMMA MainInv ==
    ASSUME IInv, Main
    PROVE  IInv'
<1>1. CASE Boot \/ NewServer \/ Register \/ Liveness \/ Listen
  <2>1. TypeOK'
    BY <1>1, MainType DEF IInv
  <2>2. MainOK' /\ SignalOK'
    <3> USE DEF IInv, TypeOK, MainOK, SignalOK, Early, Runs, IsNode, Goto, signal, run, res
    <3>1. CASE Boot
      BY <3>1 DEF Boot
    <3>2. CASE NewServer
      BY <3>2 DEF NewServer
    <3>3. CASE Register
      BY <3>3 DEF Register
    <3>4. CASE Liveness
      BY <3>4 DEF Liveness
    <3>5. CASE Listen
      BY <3>5 DEF Listen
    <3> QED BY <1>1, <3>1, <3>2, <3>3, <3>4, <3>5
  <2> QED BY <2>1, <2>2 DEF IInv
<1>2. CASE Serve
  <2>1. TypeOK'
    <3>1. CASE pc' = "serving"
      BY <1>2, <3>1, Zenon DEF IInv, TypeOK, Steps, Goto, signal, run, res, Serve
    <3>2. CASE pc' = "exited"
      BY <1>2, <3>2, Zenon DEF IInv, TypeOK, Goto, signal, run, res, Serve
    <3> QED BY <1>2, <3>1, <3>2 DEF Serve, Goto
  <2>2. MainOK' /\ SignalOK'
    BY <1>2 DEF IInv, TypeOK, MainOK, SignalOK, Early, Runs, IsNode, Goto, signal, run, res,
       Serve
  <2> QED BY <2>1, <2>2 DEF IInv
<1>3. CASE ServeReturns
  BY <1>3, ExitInv DEF ServeReturns, IInv, TypeOK
<1> QED BY <1>1, <1>2, <1>3 DEF Main

\* So do the goroutines that a signal sets off.
LEMMA GoroutineInv ==
    ASSUME IInv, Catch \/ CloseStop \/ CloseSignal \/ Stop \/ CloseProbe
    PROVE  IInv'
<1>1. TypeOK'
  <2>1. CASE Catch
    BY <2>1, Zenon DEF IInv, TypeOK, run, res, Catch
  <2>2. CASE CloseStop
    BY <2>2, Zenon DEF IInv, TypeOK, run, res, CloseStop
  <2>3. CASE CloseSignal
    BY <2>3, Zenon DEF IInv, TypeOK, run, res, CloseSignal
  <2>4. CASE Stop
    BY <2>4, Zenon DEF IInv, TypeOK, signal, Stop
  <2>5. CASE CloseProbe
    BY <2>5, Zenon DEF IInv, TypeOK, signal, CloseProbe
  <2> QED BY <2>1, <2>2, <2>3, <2>4, <2>5
<1>2. MainOK' /\ SignalOK'
  BY DEF IInv, TypeOK, MainOK, SignalOK, Early, Runs, IsNode, signal, run, res,
     Catch, CloseStop, CloseSignal, Stop, CloseProbe
<1> QED BY <1>1, <1>2 DEF IInv

\* So do signals, failures, crashes and restarts.
LEMMA FaultInv ==
    ASSUME IInv, Fail \/ Signal \/ Kill \/ Restart
    PROVE  IInv'
<1>0. Fault => faults' \in 0 .. MaxFaults
  BY LifecycleAssumption DEF Fault, IInv, TypeOK
<1>1. CASE Fail \/ Kill
  BY <1>0, <1>1, ExitInv DEF Fail, Kill
<1>2. CASE Signal
  <2>1. CASE Exit
    BY <1>0, <1>2, <2>1, ExitInv DEF Signal
  <2>2. CASE ~Exit
    <3>1. /\ pending' = TRUE
          /\ when' = (IF when = "never" THEN pc ELSE when)
          /\ UNCHANGED <<role, pc, catcher, stopCh, run, res>>
          /\ faults' \in 0 .. MaxFaults
          /\ pc # "boot" /\ pc # "exited"
      BY <1>0, <1>2, <2>2 DEF Signal, Runs
    <3>2. when' \in Steps \cup {"never"}
      BY <3>1 DEF IInv, TypeOK
    <3>3. TypeOK'
      BY <3>1, <3>2, Zenon DEF IInv, TypeOK, run, res
    <3>4. MainOK' /\ SignalOK'
      BY <3>1 DEF IInv, TypeOK, MainOK, SignalOK, Steps, Early, Runs, IsNode, run, res
    <3> QED BY <3>3, <3>4 DEF IInv
  <2> QED BY <2>1, <2>2
<1>3. CASE Restart
  <2>1. TypeOK'
    BY <1>3, Zenon DEF Restart, Fresh, IInv, TypeOK, Steps
  <2>2. MainOK' /\ SignalOK'
    BY <1>3 DEF Restart, Fresh, MainOK, SignalOK, Early, Runs, IsNode
  <2> QED BY <2>1, <2>2 DEF IInv
<1> QED BY <1>1, <1>2, <1>3

\* The invariant holds in every reachable state.
THEOREM Invariance == Spec => []IInv
<1>1. IInv /\ [Next]_vars => IInv'
  <2> SUFFICES ASSUME IInv, [Next]_vars PROVE IInv'
    OBVIOUS
  <2>1. CASE UNCHANGED vars
    BY <2>1 DEF vars, signal, run, res, IInv, TypeOK, MainOK, SignalOK, Early, Runs, IsNode
  <2> QED BY <2>1, MainInv, GoroutineInv, FaultInv DEF Next
<1> QED BY <1>1, InitInv, PTL DEF Spec

\* A node plugin that serves is listed and answers probes, unless a signal is
\* about to stop it or came too early to.
THEOREM ServingReachable == Spec => []ServingIsReachable
<1>1. IInv => ServingIsReachable
  BY DEF IInv, TypeOK, MainOK, SignalOK, ServingIsReachable, Runs, Early
<1> QED BY <1>1, Invariance, PTL
=============================================================================
