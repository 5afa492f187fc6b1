------------------------------- MODULE Mounts -------------------------------
(***************************************************************************)
(* What the node service promises the kubelet for one volume: it appears   *)
(* at a path only while it is asked for there and staged, and goes only    *)
(* while it is asked to go, or when the node restarts; each answer says    *)
(* what is the case; what a pod has stored stays.  There are no calls, no  *)
(* stacked mounts, no directories and no failures here.                    *)
(***************************************************************************)
CONSTANTS Target, Staging

VARIABLES
    status,  \* what the kubelet was told of each path
    shown,   \* the paths at which the volume is found
    held,    \* the volume is a disk of the node
    stored   \* a pod has stored data, which is there

mountVars == <<status, shown, held, stored>>

MountPath == Target \cup {Staging}

MountInit ==
    /\ status = [p \in MountPath |-> "no"]
    /\ shown = {} /\ held = FALSE /\ stored = FALSE

AskMount(p) ==
    /\ held /\ status[p] # "yes"
    /\ p = Staging \/ (status[Staging] = "yes" /\ status[p] # "closing")
    /\ status' = [status EXCEPT ![p] = "maybe"]
    /\ UNCHANGED <<shown, held, stored>>

AskUnmount(p) ==
    /\ status[p] # "no"
    /\ p = Staging => \A t \in Target : status[t] = "no"
    /\ status' = [status EXCEPT ![p] = "closing"]
    /\ UNCHANGED <<shown, held, stored>>

\* The volume appears; the answer may come with it.
Appear(p) ==
    /\ held /\ status[p] = "maybe" /\ p \notin shown
    /\ p = Staging \/ Staging \in shown
    /\ shown' = shown \cup {p}
    /\ \E s \in {"maybe", "yes"} : status' = [status EXCEPT ![p] = s]
    /\ UNCHANGED <<held, stored>>

Vanish(p) ==
    /\ status[p] = "closing" /\ p \in shown
    /\ p = Staging => shown = {Staging}
    /\ shown' = shown \ {p}
    /\ UNCHANGED <<status, held, stored>>

\* The answers.
Mounted(p) ==
    /\ status[p] = "maybe" /\ p \in shown
    /\ status' = [status EXCEPT ![p] = "yes"]
    /\ UNCHANGED <<shown, held, stored>>

Unmounted(p) ==
    /\ status[p] = "closing" /\ p \notin shown
    /\ status' = [status EXCEPT ![p] = "no"]
    /\ UNCHANGED <<shown, held, stored>>

\* The disk comes, and goes when the kubelet has no use for it.
Come == held' = TRUE /\ UNCHANGED <<status, shown, stored>>

Go ==
    /\ shown = {} /\ \A p \in MountPath : status[p] = "no"
    /\ held' = FALSE
    /\ UNCHANGED <<status, shown, stored>>

Store(t) ==
    /\ held /\ t \in shown /\ status[t] = "yes"
    /\ stored' = TRUE
    /\ UNCHANGED <<status, shown, held>>

NodeRestart ==
    /\ shown' = {}
    /\ status' = [p \in MountPath |-> IF status[p] = "yes" THEN "maybe" ELSE status[p]]
    /\ UNCHANGED <<held, stored>>

MountNext ==
    \/ \E p \in MountPath : \/ AskMount(p) \/ Appear(p) \/ Mounted(p)
                            \/ AskUnmount(p) \/ Vanish(p) \/ Unmounted(p)
    \/ \E t \in Target : Store(t)
    \/ Come \/ Go \/ NodeRestart

MountSpec == MountInit /\ [][MountNext]_mountVars
=============================================================================
