---------------------------- MODULE Attachments -----------------------------
(***************************************************************************)
(* What the controller service promises the orchestrator, volume by        *)
(* volume: a disk comes to a node and goes from it only while one or the   *)
(* other is asked for there and not yet answered, the volume is destroyed  *)
(* only on request and when nobody has it, and each answer says what is    *)
(* the case.  There are no calls, no mutexes, no tasks and no failures     *)
(* here.                                                                   *)
(***************************************************************************)
CONSTANTS Volume, Node, Sharing

VARIABLES
    status,  \* what the orchestrator was told of each volume on each node
    phase,   \* and of each volume
    disk,    \* the nodes that have each volume as a disk
    there,   \* the volumes that exist
    trusted  \* the volumes the promise is made for

attVars == <<status, phase, disk, there, trusted>>

AttInit ==
    /\ status = [v \in Volume |-> [n \in Node |-> "detached"]]
    /\ phase = [v \in Volume |-> "bound"]
    /\ disk = [v \in Volume |-> {}]
    /\ there = Volume
    /\ trusted = Volume

Becomes(v, s, p, d, t) ==
    status'[v] = s /\ phase'[v] = p /\ disk'[v] = d /\ (v \in there' <=> t)

\* What is told of v on n.
Told(v, n, s) == [status[v] EXCEPT ![n] = s]

AskAttach(v, n) ==
    /\ phase[v] = "bound" /\ status[v][n] \in {"detached", "attaching"}
    /\ v \in Sharing \/ \A m \in Node \ {n} : status[v][m] = "detached"
    /\ Becomes(v, Told(v, n, "attaching"), phase[v], disk[v], v \in there)

AskDetach(v, n) ==
    /\ status[v][n] # "detached"
    /\ Becomes(v, Told(v, n, "detaching"), phase[v], disk[v], v \in there)

AskDelete(v) ==
    /\ phase[v] # "gone"
    /\ Becomes(v, status[v], "deleting", disk[v], v \in there)

\* The disk appears; the answer may come with it.  An orchestrator that asks
\* for the opposite before it has its answer may still see the disk come, or
\* go; one that has its answer does not.
Plug(v, n) ==
    /\ status[v][n] # "detached"
    /\ v \in there /\ n \notin disk[v] /\ (v \in Sharing \/ disk[v] = {})
    /\ \E s \in {status[v][n]} \cup {t \in {"attached"} : status[v][n] = "attaching"} :
          Becomes(v, Told(v, n, s), phase[v], disk[v] \cup {n}, TRUE)

Unplug(v, n) ==
    /\ status[v][n] \in {"attaching", "detaching"} /\ n \in disk[v]
    /\ \E s \in {status[v][n]} \cup {t \in {"detached"} : status[v][n] = "detaching"} :
          Becomes(v, Told(v, n, s), phase[v], disk[v] \ {n}, v \in there)

Destroy(v) ==
    /\ phase[v] = "deleting" /\ v \in there /\ disk[v] = {}
    /\ \E p \in {"deleting", "gone"} : Becomes(v, status[v], p, {}, FALSE)

\* The answers.  Nothing is promised of an answer about a shared volume.
Attached(v, n) ==
    /\ status[v][n] = "attaching" /\ (v \in Sharing \/ n \in disk[v])
    /\ Becomes(v, Told(v, n, "attached"), phase[v], disk[v], v \in there)

Detached(v, n) ==
    /\ status[v][n] = "detaching" /\ n \notin disk[v]
    /\ Becomes(v, Told(v, n, "detached"), phase[v], disk[v], v \in there)

Gone(v) ==
    /\ phase[v] = "deleting" /\ v \notin there
    /\ Becomes(v, status[v], "gone", disk[v], FALSE)

Step(v) ==
    \/ AskDelete(v) \/ Destroy(v) \/ Gone(v)
    \/ \E n \in Node : \/ AskAttach(v, n) \/ Plug(v, n) \/ Attached(v, n)
                       \/ AskDetach(v, n) \/ Unplug(v, n) \/ Detached(v, n)

\* Volumes go their ways independently of one another.
AttNext ==
    /\ trusted' \subseteq trusted
    /\ \A v \in trusted' : Step(v) \/ Becomes(v, status[v], phase[v], disk[v], v \in there)

AttSpec == AttInit /\ [][AttNext]_attVars
=============================================================================
