------------------------------ MODULE Provision ------------------------------
(***************************************************************************)
(* Making and removing volumes (pkg/driver/controller.go): CreateVolume    *)
(* with createVmVolume, reconcileVolumeLabel, upsertLabel and              *)
(* addVolumeLabels, and DeleteVolume.  Nothing is locked: each handler     *)
(* looks a name or a label up and creates it some steps later.             *)
(*                                                                         *)
(* External: CloudTower (volumes, labels, tasks) and the provisioner       *)
(* sidecar, which retries each claim until it has an answer, one call at a *)
(* time, and may give a call up while its handler runs on.                 *)
(***************************************************************************)
EXTENDS VolumeRequest, FiniteSets

CONSTANTS
    Claim,      \* the names of the volumes that are asked for
    ToLower,    \* strings.ToLower on these names
    Ask,        \* what may be asked for: [range, modes]
    Vol,        \* ids of CloudTower volumes
    Label,      \* ids of CloudTower labels with the cluster's key and value
    Call,       \* slots for RPCs in flight
    MaxFaults,  \* bound: errors, lost answers, crashes, deadlines
    None

ASSUME ProvisionAssumption ==
    /\ \A a, b \in Claim : ToLower[a] = ToLower[b] => a = b
    /\ \A a \in Ask : a.range \in CapacityRange
    /\ MaxFaults \in Nat
    /\ None \notin Vol \cup Label \cup Claim \cup {ToLower[a] : a \in Claim}

VARIABLES
    pc,       \* where the handler of each call is
    op,       \* the operation each call performs, on which claim
    at,       \* the volume a handler works on
    seen,     \* the labels that volume had when the handler read it
    label,    \* the label a handler is about to add
    open,     \* the calls whose client still waits
    vol,      \* CloudTower's volumes
    labels,   \* CloudTower's labels with the cluster's key and value
    ask,      \* what is asked for under each name
    claim,    \* the provisioner's state of each claim
    rec,      \* the volume id it has recorded
    overlap,  \* history: claims with two creations at work at once
    faults

handler == <<pc, op, at, seen, label>>
tower   == <<vol, labels>>
co      == <<open, claim, rec>>
vars    == <<handler, tower, co, ask, overlap, faults>>

Creating == {"args", "find", "create", "wait", "label", "newlabel", "add", "added"}
Deleting == {"get", "remove", "removed"}

NoVol == [state |-> "none", name |-> None, size |-> 0, sharing |-> FALSE,
          labels |-> {}, dying |-> FALSE]

VMVolume == [state : {"none", "creating", "live", "failed", "deleted"},
             name : {ToLower[a] : a \in Claim} \cup {None},
             size : Int, sharing : BOOLEAN, labels : SUBSET Label, dying : BOOLEAN]

TypeOK ==
    /\ pc \in [Call -> Creating \cup Deleting \cup {"idle"}]
    /\ op \in [Call -> Claim \cup {None}]
    /\ at \in [Call -> Vol \cup {None}]
    /\ seen \in [Call -> SUBSET Label]
    /\ label \in [Call -> Label \cup {None}]
    /\ open \subseteq Call
    /\ vol \in [Vol -> VMVolume]
    /\ labels \subseteq Label
    /\ ask \in [Claim -> Ask]
    /\ claim \in [Claim -> {"new", "creating", "bound", "deleting", "gone"}]
    /\ rec \in [Claim -> Vol \cup {None}]
    /\ overlap \subseteq Claim
    /\ faults \in 0 .. MaxFaults

Init ==
    /\ pc = [c \in Call |-> "idle"]
    /\ op = [c \in Call |-> None]
    /\ at = [c \in Call |-> None]
    /\ seen = [c \in Call |-> {}]
    /\ label = [c \in Call |-> None]
    /\ open = {}
    /\ vol = [i \in Vol |-> NoVol]
    /\ labels = {}
    /\ ask \in [Claim -> Ask]
    /\ claim = [a \in Claim |-> "new"]
    /\ rec = [a \in Claim |-> None]
    /\ overlap = {}
    /\ faults = 0

-----------------------------------------------------------------------------
(* CloudTower, external. *)

\* A volume that CloudTower knows of.  It has an id, and may be listed, while
\* the task that creates it runs.
Exists(i) == vol[i].state \in {"creating", "live"}

Named(i, a) == vol[i].name = ToLower[a]

\* An id that nobody refers to.
Spare(i) ==
    /\ ~Exists(i)
    /\ \A c \in Call : at[c] # i
    /\ \A a \in Claim : rec[a] # i

Fault == faults < MaxFaults /\ faults' = faults + 1

CreateTask(i) ==
    /\ vol[i].state = "creating"
    /\ \/ vol' = [vol EXCEPT ![i].state = "live"] /\ UNCHANGED faults
       \/ vol' = [vol EXCEPT ![i].state = "failed"] /\ Fault
    /\ UNCHANGED <<handler, labels, co, ask, overlap>>

DeleteTask(i) ==
    /\ Exists(i) /\ vol[i].dying
    /\ \/ vol' = [vol EXCEPT ![i].state = "deleted", ![i].dying = FALSE] /\ UNCHANGED faults
       \/ vol' = [vol EXCEPT ![i].dying = FALSE] /\ Fault
    /\ UNCHANGED <<handler, labels, co, ask, overlap>>

-----------------------------------------------------------------------------
(* The handlers. *)

At(c, place) == pc[c] = place

Goto(c, place) == pc' = [pc EXCEPT ![c] = place] /\ UNCHANGED <<op, co, ask, overlap>>

\* The handler returns; its client, if it still waits, records a success.
Return(c, ok) ==
    LET a == op[c]  told == ok /\ c \in open IN
    /\ pc' = [pc EXCEPT ![c] = "idle"]
    /\ op' = [op EXCEPT ![c] = None]
    /\ at' = [at EXCEPT ![c] = None]
    /\ seen' = [seen EXCEPT ![c] = {}]
    /\ label' = [label EXCEPT ![c] = None]
    /\ open' = open \ {c}
    /\ IF told
       THEN /\ claim' = [claim EXCEPT ![a] = IF pc[c] \in Creating THEN "bound" ELSE "gone"]
            /\ rec' = [rec EXCEPT ![a] = IF pc[c] \in Creating THEN at[c] ELSE @]
       ELSE UNCHANGED <<claim, rec>>
    /\ UNCHANGED <<ask, overlap>>

\* CreateVolume's checks of its arguments.
ValidAsk(a) == ValidRange(ask[a].range) /\ ModesKnown(ask[a].modes)

Size(a) == ToInt64(getVolumeSize(ask[a].range))

Args(c) ==
    /\ At(c, "args") /\ ValidAsk(op[c])
    /\ Goto(c, "find")
    /\ UNCHANGED <<at, seen, label, tower, faults>>

\* Mutant: the volume is created without looking the name up.
FindNothing(c) ==
    /\ At(c, "find")
    /\ Goto(c, "create")
    /\ UNCHANGED <<at, seen, label, tower, faults>>

\* createVmVolume looks the name up: the first of the volumes listed, or none.
Find(c) ==
    LET found == {i \in Vol : Exists(i) /\ Named(i, op[c])} IN
    /\ At(c, "find")
    /\ \/ \E i \in found :
             /\ at' = [at EXCEPT ![c] = i]
             /\ seen' = [seen EXCEPT ![c] = vol[i].labels]
             /\ Goto(c, "label")
       \/ /\ \A i \in found : vol[i].state = "creating"
          /\ Goto(c, "create")
          /\ UNCHANGED <<at, seen>>
    /\ UNCHANGED <<label, tower, faults>>

\* GetClusters and CreateVMVolume: taken with a task, or done at once (waitTask
\* returns at once without a task id).  CloudTower refuses a size that is not
\* positive.
Create(c) ==
    LET a == op[c] IN
    /\ At(c, "create") /\ Size(a) > 0
    /\ \E i \in Vol, now \in BOOLEAN :
          /\ Spare(i)
          /\ vol' = [vol EXCEPT ![i] =
                        [NoVol EXCEPT !.state = IF now THEN "live" ELSE "creating",
                                      !.name = ToLower[a], !.size = Size(a),
                                      !.sharing = checkNeedSharing(ask[a].modes)]]
          /\ at' = [at EXCEPT ![c] = i]
          /\ Goto(c, IF now THEN "label" ELSE "wait")
    /\ UNCHANGED <<seen, label, labels, faults>>

\* waitTask for the creation.
WaitCreate(c) ==
    /\ At(c, "wait") /\ vol[at[c]].state \in {"live", "deleted"}
    /\ Goto(c, "label")
    /\ UNCHANGED <<at, seen, label, tower, faults>>

\* Mutant: a volume that was there already is taken to be labelled.
UpsertLabelFound(c) ==
    /\ At(c, "label")
    /\ \/ \E l \in labels :
             /\ label' = [label EXCEPT ![c] = l]
             /\ Goto(c, "add")
             /\ UNCHANGED <<at, seen>>
       \/ labels # {} /\ Return(c, TRUE)
       \/ labels = {} /\ Goto(c, "newlabel") /\ UNCHANGED <<at, seen, label>>
    /\ UNCHANGED <<tower, faults>>

\* upsertLabel looks the label up (any one, if there are several), and
\* reconcileVolumeLabel looks for it among the labels the volume had.
UpsertLabel(c) ==
    /\ At(c, "label")
    /\ \/ \E l \in labels :
             IF l \in seen[c] THEN Return(c, TRUE)
             ELSE /\ label' = [label EXCEPT ![c] = l]
                  /\ Goto(c, "add")
                  /\ UNCHANGED <<at, seen>>
       \/ labels = {} /\ Goto(c, "newlabel") /\ UNCHANGED <<at, seen, label>>
    /\ UNCHANGED <<tower, faults>>

CreateLabel(c) ==
    /\ At(c, "newlabel")
    /\ \E l \in Label \ labels :
          /\ labels' = labels \cup {l}
          /\ label' = [label EXCEPT ![c] = l]
    /\ Goto(c, "add")
    /\ UNCHANGED <<at, seen, vol, faults>>

Labelled(c) == vol' = [vol EXCEPT ![at[c]].labels = @ \cup {label[c]}]

\* addVolumeLabels: done at once, or taken with a task that runs now or later.
AddLabels(c) ==
    /\ At(c, "add") /\ Exists(at[c])
    /\ \/ Labelled(c) /\ Return(c, TRUE)
       \/ /\ Labelled(c) \/ UNCHANGED vol
          /\ Goto(c, "added")
          /\ UNCHANGED <<at, seen, label>>
    /\ UNCHANGED <<labels, faults>>

\* waitTask for the label.
WaitAdd(c) ==
    /\ At(c, "added") /\ Exists(at[c])
    /\ Labelled(c)
    /\ Return(c, TRUE)
    /\ UNCHANGED <<labels, faults>>

\* Mutant: the volume is looked up by its name.
GetVolumeByName(c) ==
    /\ At(c, "get")
    /\ \E i \in Vol : Exists(i) /\ Named(i, op[c]) /\ at' = [at EXCEPT ![c] = i]
    /\ Goto(c, "remove")
    /\ UNCHANGED <<seen, label, tower, faults>>

\* DeleteVolume's look at the volume.
GetVolume(c) ==
    /\ At(c, "get") /\ Exists(at[c])
    /\ Goto(c, "remove")
    /\ UNCHANGED <<at, seen, label, tower, faults>>

\* DeleteVMVolumeFromVM, done at once or taken with a task.
Remove(c) ==
    /\ At(c, "remove") /\ Exists(at[c])
    /\ \/ vol' = [vol EXCEPT ![at[c]].state = "deleted", ![at[c]].dying = FALSE] /\ Return(c, TRUE)
       \/ /\ vol' = [vol EXCEPT ![at[c]].dying = TRUE]
          /\ Goto(c, "removed")
          /\ UNCHANGED <<at, seen, label>>
    /\ UNCHANGED <<labels, faults>>

\* waitTask for the deletion.
WaitRemove(c) ==
    /\ At(c, "removed") /\ vol[at[c]].state = "deleted"
    /\ Return(c, TRUE)
    /\ UNCHANGED <<tower, faults>>

Step(c) ==
    \/ Args(c) \/ Find(c) \/ Create(c) \/ WaitCreate(c)
    \/ UpsertLabel(c) \/ CreateLabel(c) \/ AddLabels(c) \/ WaitAdd(c)
    \/ GetVolume(c) \/ Remove(c) \/ WaitRemove(c)

\* Mutant: waitTask does not see that the creation has failed.
HopelessNotCreate(c) ==
    \/ At(c, "args") /\ ~ValidAsk(op[c])
    \/ At(c, "create") /\ Size(op[c]) <= 0
    \/ pc[c] \in {"add", "added", "get", "remove"} /\ ~Exists(at[c])
    \/ /\ At(c, "removed") /\ vol[at[c]].state # "deleted"
       /\ Exists(at[c]) => ~vol[at[c]].dying

\* Mutant: waitTask does not see that the deletion has failed.
HopelessNotRemove(c) ==
    \/ At(c, "args") /\ ~ValidAsk(op[c])
    \/ At(c, "create") /\ Size(op[c]) <= 0
    \/ At(c, "wait") /\ vol[at[c]].state = "failed"
    \/ pc[c] \in {"add", "added", "get", "remove"} /\ ~Exists(at[c])

\* Mutant: a delete goes on looking for a volume that is gone.
HopelessNotGone(c) ==
    \/ At(c, "args") /\ ~ValidAsk(op[c])
    \/ At(c, "create") /\ Size(op[c]) <= 0
    \/ At(c, "wait") /\ vol[at[c]].state = "failed"
    \/ pc[c] \in {"add", "added"} /\ ~Exists(at[c])
    \/ /\ At(c, "removed") /\ vol[at[c]].state # "deleted"
       /\ Exists(at[c]) => ~vol[at[c]].dying

\* What makes a handler return an error whatever it does.
Hopeless(c) ==
    \/ At(c, "args") /\ ~ValidAsk(op[c])
    \/ At(c, "create") /\ Size(op[c]) <= 0
    \/ At(c, "wait") /\ vol[at[c]].state = "failed"
    \/ pc[c] \in {"add", "added", "get", "remove"} /\ ~Exists(at[c])
    \/ /\ At(c, "removed") /\ vol[at[c]].state # "deleted"
       /\ Exists(at[c]) => ~vol[at[c]].dying

Refuse(c) ==
    /\ Hopeless(c)
    /\ Return(c, FALSE)
    /\ UNCHANGED <<tower, faults>>

\* An API error, a time limit of waitTask, or the end of the process: what was
\* done stays, tasks go on.
Fail(c) ==
    /\ pc[c] # "idle" /\ Fault
    /\ Return(c, FALSE)
    /\ UNCHANGED tower

-----------------------------------------------------------------------------
(* The provisioner, external. *)

Quiet(a) == \A d \in open : op[d] # a

Start(c, a, place) ==
    /\ pc[c] = "idle" /\ Quiet(a)
    /\ pc' = [pc EXCEPT ![c] = place]
    /\ op' = [op EXCEPT ![c] = a]
    /\ open' = open \cup {c}
    /\ UNCHANGED <<seen, label, tower, rec, ask, faults>>

\* A second creation of a claim starts while the first is still at work, in
\* its handler or as a task.
Overlaps(a) ==
    \/ \E d \in Call : op[d] = a
    \/ \E i \in Vol : Named(i, a) /\ vol[i].state = "creating"

StartCreate(c, a) ==
    /\ claim[a] \in {"new", "creating"}
    /\ Start(c, a, "args")
    /\ claim' = [claim EXCEPT ![a] = "creating"]
    /\ overlap' = IF Overlaps(a) THEN overlap \cup {a} ELSE overlap
    /\ UNCHANGED at

StartDelete(c, a) ==
    /\ claim[a] \in {"bound", "deleting"}
    /\ Start(c, a, "get")
    /\ claim' = [claim EXCEPT ![a] = "deleting"]
    /\ at' = [at EXCEPT ![c] = rec[a]]
    /\ UNCHANGED overlap

GiveUp(c) ==
    /\ c \in open /\ Fault
    /\ open' = open \ {c}
    /\ UNCHANGED <<handler, tower, claim, rec, ask, overlap>>

Next ==
    \/ \E c \in Call :
          \/ Step(c) \/ Refuse(c) \/ Fail(c) \/ GiveUp(c)
          \/ \E a \in Claim : StartCreate(c, a) \/ StartDelete(c, a)
    \/ \E i \in Vol : CreateTask(i) \/ DeleteTask(i)

Spec == Init /\ [][Next]_vars

\* Handlers move on, tasks end, and the provisioner retries.
Fairness ==
    /\ \A c \in Call : WF_vars(Step(c) \/ Refuse(c))
    /\ \A i \in Vol : WF_vars(CreateTask(i)) /\ WF_vars(DeleteTask(i))
    /\ \A a \in Claim : /\ WF_vars(\E c \in Call : StartCreate(c, a))
                        /\ WF_vars(claim[a] = "deleting" /\ \E c \in Call : StartDelete(c, a))

FairSpec == Spec /\ Fairness

-----------------------------------------------------------------------------
(* Properties. *)

\* A claim that was reported as provisioned has a volume with the cluster's
\* label, which is how the cluster's volumes are found, although creation and
\* labelling are separate steps and a retry labels what it finds from a list
\* of labels it read earlier.
ProvisionedIsLabelled ==
    \A a \in Claim : claim[a] = "bound" => vol[rec[a]].labels \cap labels # {}

\* The volume fits what was asked for: its name, at least the size, in whole
\* units, shared if it is to be used on several nodes.
ProvisionedFits ==
    \A a \in Claim : claim[a] = "bound" =>
        LET v == vol[rec[a]]  r == ask[a].range IN
        /\ v.name = ToLower[a]
        /\ v.size >= r.required /\ v.size > 0 /\ v.size % GB = 0
        /\ v.sharing <=> \E i \in DOMAIN ask[a].modes : ask[a].modes[i] \in MultiNode

\* Errors, crashes and retries between look-up and creation make neither a
\* second volume of the same name nor a claim without a volume, unless two
\* creations of that claim overlapped.
OneVolume ==
    \A a \in Claim \ overlap :
        /\ \A i, j \in Vol : Exists(i) /\ Exists(j) /\ Named(i, a) /\ Named(j, a) => i = j
        /\ claim[a] = "bound" => vol[rec[a]].state = "live"
        /\ claim[a] = "gone" => \A i \in Vol : ~(Exists(i) /\ Named(i, a))

\* Only the volume that was reported is ever removed, and only once its claim
\* has been released: neither a late call nor a second volume of the same name,
\* left by overlapping creations, makes a delete hit anything else.
RemovesOnlyReleased ==
    [][\A i \in Vol, a \in Claim :
          Exists(i) /\ Named(i, a) /\ vol'[i].state = "deleted"
          => claim[a] \in {"deleting", "gone"} /\ i = rec[a]]_vars

\* A claim that can be met is, once errors stop, from wherever earlier
\* attempts left off.
ClaimsEnd ==
    \A a \in Claim : claim[a] = "creating" /\ ValidAsk(a) /\ Size(a) > 0 ~> claim[a] # "creating"

\* A released volume is removed in the end, though the provisioner may never
\* be told: a delete repeated after it was done is an error.
ReleasedIsRemoved ==
    \A a \in Claim : claim[a] = "deleting" ~> \A i \in Vol : i = rec[a] => ~Exists(i)

\* Every RPC returns, whether what it waits for succeeds, fails, or is undone
\* by another call.
CallsEnd == \A c \in Call : pc[c] # "idle" ~> pc[c] = "idle"
=============================================================================
