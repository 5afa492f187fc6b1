------------------------------ MODULE NodeMap -------------------------------
(***************************************************************************)
(* The node registry: every node plugin writes its address into one shared *)
(* ConfigMap when it starts (Driver.Run, registerNodeEntry, nodeMap.Put,   *)
(* utils.Retry), then listens for liveness probes (NodeLivenessServer.Run);*)
(* the controller looks a node up and probes it before it publishes a      *)
(* volume there (nodeMap.Get, canPublishToNode).                           *)
(*                                                                         *)
(* External: the API server, which applies an update only if it carries    *)
(* the current resourceVersion, and keeps that version when the update     *)
(* changes nothing; the network, which delays requests beyond  *)
(* their sender's patience or life; the kubelet, which restarts a plugin   *)
(* that exited.                                                            *)
(***************************************************************************)
EXTENDS Naturals

CONSTANTS
    Node,        \* node names
    Address,     \* node IPs
    RetryLimit,  \* attempts of registerNodeEntry (5 in the code)
    MaxFaults,   \* bound: API errors, timeouts and crashes in one behaviour
    None

ASSUME NodeMapAssumption ==
    /\ RetryLimit \in Nat \ {0}
    /\ MaxFaults \in Nat
    /\ None \notin Address \cup Node

VARIABLES
    cm,       \* the ConfigMap's BinaryData
    rv,       \* its resourceVersion
    wire,     \* update requests on their way to the API server
    reply,    \* the API server's answer to each node's update
    pc,       \* where each node plugin is in Driver.Run
    ip,       \* the address of each node, read anew at each start
    copy,     \* the ConfigMap as each node last read it
    copyRv,
    tries,    \* failed attempts of the current registration
    faults,   \* faults so far
    probe,    \* the controller's latest probe
    stale     \* history: nodes whose latest registration changed nothing
              \* while an earlier update of theirs could still be applied

server == <<cm, rv, wire, reply, stale>>
plugin == <<pc, ip, copy, copyRv, tries>>
vars   == <<server, plugin, faults, probe>>

Table   == [Node -> Address \cup {None}]
Message == [node : Node, rv : Nat, data : Table, awaited : BOOLEAN]
Probe   == [node : Node \cup {None}, addr : Address \cup {None}, by : Node \cup {None}]
NoProbe == [node |-> None, addr |-> None, by |-> None]

TypeOK ==
    /\ cm \in Table /\ rv \in Nat
    /\ wire \subseteq Message
    /\ reply \in [Node -> {"none", "ok", "conflict"}]
    /\ pc \in [Node -> {"down", "get", "update", "await", "listen", "serving"}]
    /\ ip \in [Node -> Address \cup {None}]
    /\ copy \in [Node -> Table] /\ copyRv \in [Node -> Nat]
    /\ tries \in [Node -> 0 .. RetryLimit - 1]
    /\ faults \in 0 .. MaxFaults
    /\ probe \in Probe
    /\ stale \subseteq Node

Init ==
    /\ cm = [n \in Node |-> None] /\ rv = 0
    /\ wire = {}
    /\ reply = [n \in Node |-> "none"]
    /\ pc = [n \in Node |-> "down"]
    /\ ip = [n \in Node |-> None]
    /\ copy = [n \in Node |-> [m \in Node |-> None]]
    /\ copyRv = [n \in Node |-> 0]
    /\ tries = [n \in Node |-> 0]
    /\ faults = 0
    /\ probe = NoProbe
    /\ stale = {}

Fault == faults < MaxFaults /\ faults' = faults + 1

-----------------------------------------------------------------------------
(* The API server, external. *)

Reply(m, answer) ==
    reply' = IF m.awaited THEN [reply EXCEPT ![m.node] = answer] ELSE reply

\* A version that the update leaves as it is still admits an earlier update of
\* the same node.
Rival(m) == m.data = cm /\ \E k \in wire : k.node = m.node /\ k.rv = rv /\ k.data # cm

\* Optimistic locking: an update that carries the current version is applied.
\* One that changes nothing makes no new version.
Commit(m) ==
    /\ m.rv = rv
    /\ cm' = m.data
    /\ rv' = IF m.data = cm THEN rv ELSE rv + 1
    /\ stale' = IF ~m.awaited THEN stale
                ELSE IF Rival(m) THEN stale \cup {m.node} ELSE stale \ {m.node}
    /\ wire' = wire \ {m}
    /\ Reply(m, "ok")
    /\ UNCHANGED <<plugin, faults, probe>>

\* Any other is refused.
Reject(m) ==
    /\ m.rv # rv
    /\ wire' = wire \ {m}
    /\ Reply(m, "conflict")
    /\ UNCHANGED <<cm, rv, stale, plugin, faults, probe>>

-----------------------------------------------------------------------------
(* A node plugin. *)

\* The plugin stops waiting: what it sent stays on the wire.
Abandon(n) ==
    /\ wire' = {[m EXCEPT !.awaited = m.awaited /\ m.node # n] : m \in wire}
    /\ reply' = [reply EXCEPT ![n] = "none"]

\* An attempt of Retry failed: sleep and try again, or, at the limit, Run
\* returns the error and main exits.
FailTry(n) ==
    /\ IF tries[n] + 1 < RetryLimit
       THEN /\ tries' = [tries EXCEPT ![n] = @ + 1]
            /\ pc' = [pc EXCEPT ![n] = "get"]
       ELSE /\ tries' = [tries EXCEPT ![n] = 0]
            /\ pc' = [pc EXCEPT ![n] = "down"]
    /\ UNCHANGED <<ip, copy, copyRv>>

\* The plugin (re)starts and reads the node's IP, which may have changed.
Boot(n, a) ==
    /\ pc[n] = "down"
    /\ \A m \in Node \ {n} : pc[m] # "down" => ip[m] # a
    /\ ip' = [ip EXCEPT ![n] = a]
    /\ tries' = [tries EXCEPT ![n] = 0]
    /\ pc' = [pc EXCEPT ![n] = "get"]
    /\ UNCHANGED <<server, copy, copyRv, faults, probe>>

\* Mutant: an entry that is already there makes the registration fail.
PutGetOnce(n) ==
    /\ pc[n] = "get"
    /\ \/ /\ cm[n] = None
          /\ copy' = [copy EXCEPT ![n] = cm]
          /\ copyRv' = [copyRv EXCEPT ![n] = rv]
          /\ pc' = [pc EXCEPT ![n] = "update"]
          /\ UNCHANGED <<ip, tries, faults>>
       \/ cm[n] # None /\ FailTry(n) /\ UNCHANGED faults
    /\ UNCHANGED <<server, probe>>

\* Put: client.Get.
PutGet(n) ==
    /\ pc[n] = "get"
    /\ \/ /\ copy' = [copy EXCEPT ![n] = cm]
          /\ copyRv' = [copyRv EXCEPT ![n] = rv]
          /\ pc' = [pc EXCEPT ![n] = "update"]
          /\ UNCHANGED <<ip, tries, faults>>
       \/ Fault /\ FailTry(n)
    /\ UNCHANGED <<server, probe>>

\* Mutant: the old copy is sent under the latest version.
PutUpdateForced(n) ==
    /\ pc[n] = "update"
    /\ wire' = wire \cup {[node |-> n, rv |-> rv,
                           data |-> [copy[n] EXCEPT ![n] = ip[n]], awaited |-> TRUE]}
    /\ pc' = [pc EXCEPT ![n] = "await"]
    /\ UNCHANGED <<cm, rv, reply, stale, ip, copy, copyRv, tries, faults, probe>>

\* Put: set the node's key in the copy and send it with client.Update.
PutUpdate(n) ==
    /\ pc[n] = "update"
    /\ wire' = wire \cup {[node |-> n, rv |-> copyRv[n],
                           data |-> [copy[n] EXCEPT ![n] = ip[n]], awaited |-> TRUE]}
    /\ pc' = [pc EXCEPT ![n] = "await"]
    /\ UNCHANGED <<cm, rv, reply, stale, ip, copy, copyRv, tries, faults, probe>>

\* Put returns.
PutReturn(n) ==
    /\ pc[n] = "await"
    /\ \/ /\ reply[n] = "ok"
          /\ pc' = [pc EXCEPT ![n] = "listen"]
          /\ UNCHANGED <<ip, copy, copyRv, tries>>
       \/ reply[n] = "conflict" /\ FailTry(n)
    /\ reply' = [reply EXCEPT ![n] = "none"]
    /\ UNCHANGED <<cm, rv, wire, stale, faults, probe>>

\* Mutant: the last attempt's error is dropped.
PutTimeoutDropped(n) ==
    /\ pc[n] = "await" /\ Fault
    /\ Abandon(n)
    /\ pc' = [pc EXCEPT ![n] = "listen"]
    /\ UNCHANGED <<cm, rv, stale, ip, copy, copyRv, tries, probe>>

\* Put returns an error because no answer came, whether or not the request
\* was, or will be, applied.
PutTimeout(n) ==
    /\ pc[n] = "await" /\ Fault
    /\ Abandon(n)
    /\ FailTry(n)
    /\ UNCHANGED <<cm, rv, stale, probe>>

\* NodeLivenessServer.Run, then Serve.
Listen(n) ==
    /\ pc[n] = "listen"
    /\ pc' = [pc EXCEPT ![n] = "serving"]
    /\ UNCHANGED <<server, ip, copy, copyRv, tries, faults, probe>>

\* The plugin dies, or cannot listen.
Crash(n) ==
    /\ pc[n] # "down" /\ Fault
    /\ pc' = [pc EXCEPT ![n] = "down"]
    /\ Abandon(n)
    /\ UNCHANGED <<cm, rv, stale, ip, copy, copyRv, tries, probe>>

-----------------------------------------------------------------------------
(* The controller. *)

\* nodeMap.Get of a registered node.  (An unknown node fails the publish.)
Lookup(n) ==
    /\ cm[n] # None
    /\ probe' = [node |-> n, addr |-> cm[n], by |-> None]
    /\ UNCHANGED <<server, plugin, faults>>

\* canPublishToNode: whoever listens at that address answers that it is
\* healthy.  (If nobody does, the dial fails and so does the publish.)
Dial(m) ==
    /\ probe.node # None /\ probe.by = None
    /\ pc[m] = "serving" /\ ip[m] = probe.addr
    /\ probe' = [probe EXCEPT !.by = m]
    /\ UNCHANGED <<server, plugin, faults>>

PluginStep(n) == PutGet(n) \/ PutUpdate(n) \/ PutReturn(n) \/ Listen(n)

Next ==
    \/ \E n \in Node : \/ PluginStep(n) \/ PutTimeout(n) \/ Crash(n)
                       \/ Lookup(n) \/ Dial(n)
                       \/ \E a \in Address : Boot(n, a)
    \/ \E m \in wire : Commit(m) \/ Reject(m)

Spec == Init /\ [][Next]_vars

\* The plugin's own steps, a restart by the kubelet and the API server's
\* answer to whoever still waits for one.
Fairness ==
    /\ \A n \in Node : /\ WF_vars(PluginStep(n))
                       /\ WF_vars(\E a \in Address : Boot(n, a))
                       /\ WF_vars(\E m \in wire : m.node = n /\ m.awaited /\ (Commit(m) \/ Reject(m)))

FairSpec == Spec /\ Fairness

-----------------------------------------------------------------------------
(* Properties. *)

\* A node that finished registering is listed under its current address,
\* whatever other nodes write and whatever late requests, its own earlier ones
\* included, arrive afterwards.  The exception is a node that went back to the
\* address it was listed with while its update to another was on its way.
ServingIsListed ==
    \A n \in Node \ stale : pc[n] \in {"listen", "serving"} => cm[n] = ip[n]

\* The address under which each node answers, with the same exception.
Serving == [n \in Node |-> IF pc[n] = "serving" /\ n \notin stale THEN ip[n] ELSE None]

R == INSTANCE Registry WITH entry <- cm, serving <- Serving

\* The ConfigMap implements the registry: no update is lost to, or
\* overwritten by, another node's.
ImplementsRegistry == R!RegSpec

\* Once the faults are over every node gets registered and stays so, although
\* nodes that start together make each other's attempts fail.
EventuallyServing == \A n \in Node : <>[](pc[n] = "serving")

\* A probe that found a node healthy was answered by that node.
ProbeReachesTarget == probe.by \in {None, probe.node}
=============================================================================
