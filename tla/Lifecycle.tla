------------------------------ MODULE Lifecycle ------------------------------
(***************************************************************************)
(* One plugin process from start to exit: main (cmd/csi-driver/main.go),   *)
(* Driver.Run and stop (pkg/driver/driver.go), NodeLivenessServer.Run      *)
(* (liveness.go) and makeListener (utils.go).  Besides the main goroutine  *)
(* there are one that waits for a signal and closes stopCh, one that waits *)
(* for stopCh and stops the gRPC server, and one that waits for stopCh and *)
(* closes the liveness listener.                                           *)
(*                                                                         *)
(* External: the gRPC server, signals, the socket file of the node, and    *)
(* the kubelet that restarts the container.                                *)
(***************************************************************************)
EXTENDS Naturals

CONSTANTS
    Roles,      \* the roles a plugin may have
    MaxFaults   \* bound: failed start-up steps, crashes and signals

ASSUME LifecycleAssumption ==
    /\ Roles \subseteq {"node", "controller", "all"}
    /\ MaxFaults \in Nat

VARIABLES
    role,     \* config.Role
    pc,       \* the main goroutine: what it does next
    pending,  \* a signal waits in signalCh
    catcher,  \* the goroutine that waits for a signal
    stopCh,   \* closed?
    stopper,  \* Driver.Run's goroutine that calls stop
    closer,   \* NodeLivenessServer.Run's goroutine
    stopped,  \* grpcServer.Stop has been called
    probe,    \* the liveness listener is open
    socket,   \* the CSI socket: free, bound, or a file of a dead process
    entry,    \* history: this process has written its node map entry
    when,     \* history: where main was when the first signal was caught
    faults

signal == <<pending, catcher, stopCh, when>>     \* what main's goroutine works with
run    == <<stopper, closer>>                    \* the goroutines of Run
res    == <<stopped, probe, socket, entry>>      \* what the process holds and has done
vars   == <<role, pc, signal, run, res, faults>>

Steps == {"boot", "server", "register", "liveness", "listen", "serve", "serving"}

TypeOK ==
    /\ role \in Roles
    /\ pc \in Steps \cup {"exited"}
    /\ pending \in BOOLEAN /\ stopCh \in BOOLEAN /\ stopped \in BOOLEAN
    /\ probe \in BOOLEAN /\ entry \in BOOLEAN
    /\ catcher \in {"none", "waiting", "closing", "closed"}
    /\ stopper \in {"none", "waiting", "done"}
    /\ closer \in {"none", "waiting", "done"}
    /\ socket \in {"free", "bound", "stale"}
    /\ when \in Steps \cup {"never"}
    /\ faults \in 0 .. MaxFaults

Fresh ==
    /\ pc' = "boot"
    /\ pending' = FALSE /\ stopCh' = FALSE /\ stopped' = FALSE
    /\ probe' = FALSE /\ entry' = FALSE
    /\ catcher' = "none" /\ stopper' = "none" /\ closer' = "none"
    /\ when' = "never"

Init ==
    /\ role \in Roles
    /\ pc = "boot"
    /\ pending = FALSE /\ stopCh = FALSE /\ stopped = FALSE
    /\ probe = FALSE /\ entry = FALSE
    /\ catcher = "none" /\ stopper = "none" /\ closer = "none"
    /\ socket = "free"
    /\ when = "never"
    /\ faults = 0

IsNode == role \in {"node", "all"}

Fault == faults < MaxFaults /\ faults' = faults + 1

\* The process ends and its listeners with it.  A socket that was not closed
\* leaves its file behind.
Exit ==
    /\ pc' = "exited"
    /\ probe' = FALSE
    /\ socket' = IF socket = "bound" THEN "stale" ELSE socket
    /\ UNCHANGED <<role, signal, run, stopped, entry>>

-----------------------------------------------------------------------------
(* The main goroutine. *)

Goto(here, there) == pc = here /\ pc' = there /\ UNCHANGED <<role, faults>>

\* main up to drv.Run: signal.Notify, and the goroutines of main and Run.
\* Until stopCh is closed these wait, so that it does not matter in which
\* order they are started.
Boot ==
    /\ Goto("boot", "server")
    /\ catcher' = "waiting" /\ stopper' = "waiting"
    /\ UNCHANGED <<pending, stopCh, when, closer, res>>

\* d.grpcServer is set.
NewServer ==
    /\ Goto("server", "register")
    /\ UNCHANGED <<signal, run, res>>

\* The services are registered; a node writes its entry.
Register ==
    /\ Goto("register", IF IsNode THEN "liveness" ELSE "listen")
    /\ entry' = IsNode
    /\ UNCHANGED <<signal, run, stopped, probe, socket>>

\* NodeLivenessServer.Run.
Liveness ==
    /\ Goto("liveness", "listen")
    /\ probe' = TRUE /\ closer' = "waiting"
    /\ UNCHANGED <<signal, stopper, stopped, socket, entry>>

\* Mutant: the socket file of an earlier process is not removed.
ListenOver ==
    /\ Goto("listen", "serve")
    /\ socket = "free" /\ socket' = "bound"
    /\ UNCHANGED <<signal, run, stopped, probe, entry>>

\* makeListener removes the file of an earlier process and binds anew.
Listen ==
    /\ Goto("listen", "serve")
    /\ socket' = "bound"
    /\ UNCHANGED <<signal, run, stopped, probe, entry>>

\* grpcServer.Serve: a server that was stopped closes the listener and returns
\* ErrServerStopped, which ends main.
Serve ==
    \/ /\ ~stopped /\ Goto("serve", "serving")
       /\ UNCHANGED <<signal, run, res>>
    \/ /\ pc = "serve" /\ stopped
       /\ pc' = "exited" /\ probe' = FALSE /\ socket' = "free"
       /\ UNCHANGED <<role, signal, run, stopped, entry, faults>>

\* Serve returns once the server is stopped, and main with it.
ServeReturns ==
    /\ pc = "serving" /\ stopped
    /\ Exit /\ UNCHANGED faults

\* A start-up step fails, and main exits.
Fail ==
    /\ pc \in {"boot", "register", "liveness", "listen"}
    /\ Fault /\ Exit

Main == Boot \/ NewServer \/ Register \/ Liveness \/ Listen \/ Serve \/ ServeReturns

-----------------------------------------------------------------------------
(* The other goroutines.  They run while the process does. *)

Runs == pc # "exited"

\* <-signalCh
Catch ==
    /\ Runs /\ catcher = "waiting" /\ pending
    /\ catcher' = "closing" /\ pending' = FALSE
    /\ UNCHANGED <<role, pc, stopCh, when, run, res, faults>>

\* Mutant: stopCh is not closed.
CloseStopForgotten ==
    /\ Runs /\ catcher = "closing"
    /\ catcher' = "closed"
    /\ UNCHANGED <<role, pc, pending, stopCh, when, run, res, faults>>

\* close(stopCh), and then the deferred close(signalCh).
CloseStop ==
    /\ Runs /\ catcher = "closing" /\ ~stopCh
    /\ stopCh' = TRUE
    /\ UNCHANGED <<role, pc, pending, catcher, when, run, res, faults>>

CloseSignal ==
    /\ Runs /\ catcher = "closing" /\ stopCh
    /\ catcher' = "closed"
    /\ UNCHANGED <<role, pc, pending, stopCh, when, run, res, faults>>

\* Mutant: the server is stopped only if it serves already.
StopServing ==
    /\ Runs /\ stopCh /\ stopper = "waiting"
    /\ stopper' = "done"
    /\ stopped' = (pc = "serving")
    /\ socket' = IF pc = "serving" THEN "free" ELSE socket
    /\ UNCHANGED <<role, pc, signal, closer, probe, entry, faults>>

\* stop: it reads d.grpcServer, which main sets without synchronisation.  A
\* read close to the write may see either value; nothing is tried again.  A
\* server that is stopped closes its listener, which removes the socket file.
Stop ==
    /\ Runs /\ stopCh /\ stopper = "waiting"
    /\ stopper' = "done"
    /\ \/ pc \in {"server", "register"} /\ UNCHANGED <<stopped, socket>>
       \/ /\ pc # "server"
          /\ stopped' = TRUE
          /\ socket' = IF pc = "serving" THEN "free" ELSE socket
    /\ UNCHANGED <<role, pc, signal, closer, probe, entry, faults>>

\* The liveness listener is closed.
CloseProbe ==
    /\ Runs /\ stopCh /\ closer = "waiting"
    /\ closer' = "done" /\ probe' = FALSE
    /\ UNCHANGED <<role, pc, signal, stopper, stopped, socket, entry, faults>>

-----------------------------------------------------------------------------
(* Signals, crashes and restarts, external. *)

\* Before signal.Notify a signal ends the process; after close(signalCh) its
\* delivery panics; otherwise signalCh holds one.
Signal ==
    /\ Runs /\ Fault
    /\ \/ pc = "boot" /\ Exit
       \/ catcher = "closed" /\ Exit
       \/ /\ pc # "boot" /\ catcher # "closed"
          /\ pending' = TRUE
          /\ when' = IF when = "never" THEN pc ELSE when
          /\ UNCHANGED <<role, pc, catcher, stopCh, run, res>>

Kill == Runs /\ Fault /\ Exit

Restart ==
    /\ pc = "exited"
    /\ Fresh
    /\ UNCHANGED <<role, socket, faults>>

Next ==
    \/ Main \/ Fail
    \/ Catch \/ CloseStop \/ CloseSignal \/ Stop \/ CloseProbe
    \/ Signal \/ Kill \/ Restart

Spec == Init /\ [][Next]_vars

\* Every goroutine that can run does, and the kubelet restarts the container.
Fairness ==
    /\ WF_vars(Main) /\ WF_vars(Restart)
    /\ WF_vars(Catch) /\ WF_vars(CloseStop) /\ WF_vars(CloseSignal)
    /\ WF_vars(Stop) /\ WF_vars(CloseProbe)

FairSpec == Spec /\ Fairness

-----------------------------------------------------------------------------
(* Properties. *)

\* The signal came before stop could be sure to see the server.
Early == when \in {"server", "register"}

\* A node plugin that answers on its socket is in the node map and answers
\* probes, so that volumes can be published to it, unless a signal came, which
\* closes the probe's listener before or after it stops the server: only an
\* early one leaves a plugin that serves without a probe for good.
ServingIsReachable ==
    pc = "serving" /\ IsNode =>
        /\ entry
        /\ probe \/ (when # "never" /\ (stopped \/ stopper = "waiting" \/ Early))

\* A signal ends the process, wherever it meets the start-up after the server
\* was made: before the liveness listener exists, between listening and
\* serving, or while serving.
SignalEnds == when # "never" /\ ~Early ~> pc = "exited"

\* Whatever crashes, failures and signals came before, the plugin ends up
\* serving: no remains of an earlier process are in its way.
ServesAgain == <>[](pc = "serving")

\* What main says a signal does, "notify all coroutines to terminate".
SignalTerminates == when # "never" ~> pc = "exited"
=============================================================================
