--------------------------- MODULE NodeMapProofs ----------------------------
(* Proofs about NodeMap: IInv is inductive; the ConfigMap implements Registry. *)
EXTENDS NodeMap, TLAPS

(* The inductive invariant behind ServingIsListed and the refinement. *)

\* A copy of the current version is a copy of the current table; a request
\* that can still be applied changes its sender's entry only, and that only
\* if its sender has not registered since, or is stale.
CopyOK(n) ==
    /\ copyRv[n] <= rv
    /\ pc[n] = "update" /\ copyRv[n] = rv => copy[n] = cm

WireOK(m) ==
    /\ m.rv <= rv
    /\ m.data[m.node] \in Address
    /\ m.awaited => /\ pc[m.node] = "await" /\ reply[m.node] = "none"
                    /\ m.data[m.node] = ip[m.node]
    /\ m.rv = rv => /\ m.data = [cm EXCEPT ![m.node] = m.data[m.node]]
                    /\ \/ m.data = cm \/ m.node \in stale
                       \/ pc[m.node] \notin {"listen", "serving"} /\ reply[m.node] # "ok"

NodeOK(n) ==
    /\ pc[n] # "down" => ip[n] \in Address
    /\ reply[n] # "none" => pc[n] = "await"
    /\ reply[n] = "ok" /\ n \notin stale => cm[n] = ip[n]

IInv ==
    /\ TypeOK
    /\ \A n \in Node : CopyOK(n) /\ NodeOK(n)
    /\ \A m \in wire : WireOK(m)
    /\ \A k, m \in wire : k.awaited /\ m.awaited /\ k.node = m.node => k = m
    /\ ServingIsListed

-----------------------------------------------------------------------------
OneAwaited == \A k, m \in wire : k.awaited /\ m.awaited /\ k.node = m.node => k = m

\* What an applied update does to the entries, the version and the answers.
LEMMA CommitFacts ==
    ASSUME IInv, NEW m \in wire, Commit(m)
    PROVE  /\ m \in Message /\ m.node \in Node /\ m.data \in Table /\ m.rv = rv /\ rv \in Nat
           /\ WireOK(m) /\ NodeOK(m.node)
           /\ cm' = m.data /\ wire' = wire \ {m}
           /\ m.data = cm => rv' = rv
           /\ m.data # cm => rv' = rv + 1
           /\ stale' \subseteq Node
           /\ \A k \in Node \ {m.node} : /\ cm'[k] = cm[k] /\ reply'[k] = reply[k]
                                         /\ k \in stale' <=> k \in stale
           /\ UNCHANGED <<pc, ip, copy, copyRv, tries, faults, probe>>
           /\ m.awaited => /\ reply' = [reply EXCEPT ![m.node] = "ok"]
                           /\ m.node \in stale' <=> Rival(m)
           /\ ~m.awaited => reply' = reply /\ stale' = stale
<1>1. /\ m \in Message /\ m.node \in Node /\ m.data \in Table /\ m.rv = rv /\ rv \in Nat
      /\ WireOK(m) /\ NodeOK(m.node)
  BY DEF IInv, TypeOK, Commit, Message
<1>2. /\ cm' = m.data /\ rv' = (IF m.data = cm THEN rv ELSE rv + 1) /\ wire' = wire \ {m}
      /\ UNCHANGED <<pc, ip, copy, copyRv, tries, faults, probe>>
      /\ reply' = IF m.awaited THEN [reply EXCEPT ![m.node] = "ok"] ELSE reply
      /\ stale' = IF ~m.awaited THEN stale
                  ELSE IF Rival(m) THEN stale \cup {m.node} ELSE stale \ {m.node}
  BY DEF Commit, plugin, Reply
<1>3. \A k \in Node \ {m.node} : cm'[k] = cm[k] /\ reply'[k] = reply[k]
  BY <1>1, <1>2 DEF IInv, TypeOK, WireOK, Table
<1>4. stale' \subseteq Node /\ \A k \in Node \ {m.node} : k \in stale' <=> k \in stale
  BY <1>1, <1>2 DEF IInv, TypeOK
<1> QED BY <1>1, <1>2, <1>3, <1>4

\* The API server applies an update.  If it changes something, every other
\* request on the wire is out of date; if not, the requests of the same node
\* change nothing either, or the node is stale.
LEMMA CommitInv ==
    ASSUME IInv, NEW m \in wire, Commit(m) PROVE IInv'
<1> DEFINE n == m.node
<1>0. /\ m \in Message /\ n \in Node /\ m.data \in Table /\ m.rv = rv /\ rv \in Nat
      /\ WireOK(m) /\ NodeOK(n)
  BY CommitFacts
<1>1. /\ cm' = m.data /\ wire' = wire \ {m}
      /\ m.data = cm => rv' = rv
      /\ m.data # cm => rv' = rv + 1
      /\ UNCHANGED <<pc, ip, copy, copyRv, tries, faults, probe>>
      /\ m.awaited => reply' = [reply EXCEPT ![n] = "ok"] /\ (n \in stale' <=> Rival(m))
      /\ ~m.awaited => reply' = reply /\ stale' = stale
  BY CommitFacts
<1>2. TypeOK'
  BY <1>0, <1>1, CommitFacts DEF IInv, TypeOK
<1>3. \A k \in Node \ {n} : cm'[k] = cm[k] /\ reply'[k] = reply[k] /\ (k \in stale' <=> k \in stale)
  BY CommitFacts
<1>4. ASSUME NEW k \in Node PROVE CopyOK(k)'
  BY <1>0, <1>1 DEF IInv, TypeOK, CopyOK
<1>5. ASSUME NEW k \in Node PROVE NodeOK(k)'
  <2>1. CASE k = n /\ m.awaited
    BY <1>0, <1>1, <2>1 DEF IInv, TypeOK, NodeOK, WireOK
  <2>2. CASE k = n /\ ~m.awaited
    BY <1>0, <1>1, <2>2 DEF IInv, TypeOK, NodeOK, WireOK
  <2>3. CASE k # n
    BY <1>1, <1>3, <2>3 DEF IInv, NodeOK
  <2> QED BY <2>1, <2>2, <2>3
<1>6. ASSUME NEW k \in wire' PROVE WireOK(k)'
  <2>1. k \in wire /\ k # m /\ WireOK(k)
    BY <1>1 DEF IInv
  <2>2. k.node \in Node /\ k.rv \in Nat
    BY <2>1 DEF IInv, TypeOK, Message
  <2>3. k.rv <= rv' /\ (k.rv = rv' => m.data = cm /\ rv' = rv /\ cm' = cm)
    BY <1>0, <1>1, <2>1, <2>2 DEF WireOK
  <2>4. k.awaited => ~(m.awaited /\ k.node = n)
    BY <2>1 DEF IInv
  <2>5. k.awaited => reply'[k.node] = "none"
    BY <1>0, <1>1, <2>1, <2>2, <2>4 DEF IInv, TypeOK, WireOK
  <2>6. ASSUME k.rv = rv'
        PROVE  \/ k.data = cm \/ k.node \in stale'
               \/ pc'[k.node] \notin {"listen", "serving"} /\ reply'[k.node] # "ok"
    <3>1. CASE k.node = n /\ m.awaited
      BY <1>1, <2>1, <2>3, <2>6, <3>1 DEF Rival
    <3>2. CASE k.node = n /\ ~m.awaited
      BY <1>1, <2>1, <2>3, <2>6, <3>2 DEF WireOK
    <3>3. CASE k.node # n
      BY <1>1, <1>3, <2>1, <2>2, <2>3, <2>6, <3>3 DEF WireOK
    <3> QED BY <3>1, <3>2, <3>3
  <2> QED BY <1>1, <2>1, <2>3, <2>5, <2>6 DEF WireOK
<1>7. ServingIsListed'
  <2> SUFFICES ASSUME NEW k \in Node, k \notin stale', pc'[k] \in {"listen", "serving"}
               PROVE  cm'[k] = ip'[k]
    BY DEF ServingIsListed
  <2>1. CASE k # n
    BY <1>1, <1>3, <2>1 DEF IInv, ServingIsListed
  <2>2. CASE k = n
    <3>1. ~m.awaited
      BY <1>0, <1>1, <2>2 DEF WireOK
    <3> QED BY <1>0, <1>1, <2>2, <3>1 DEF IInv, ServingIsListed, WireOK
  <2> QED BY <2>1, <2>2
<1>8. OneAwaited'
  BY <1>1 DEF IInv, OneAwaited
<1> QED BY <1>2, <1>4, <1>5, <1>6, <1>7, <1>8 DEF IInv, OneAwaited

\* An update that the API server rejects.
LEMMA RejectInv ==
    ASSUME IInv, NEW m \in wire, Reject(m) PROVE IInv'
<1> DEFINE n == m.node
<1>0. m \in Message /\ n \in Node /\ m.rv # rv /\ WireOK(m)
  BY DEF IInv, TypeOK, Reject, Message
<1>1. /\ wire' = wire \ {m}
      /\ UNCHANGED <<cm, rv, stale, pc, ip, copy, copyRv, tries, faults, probe>>
      /\ reply' = IF m.awaited THEN [reply EXCEPT ![n] = "conflict"] ELSE reply
  BY DEF Reject, plugin, Reply
<1>2. TypeOK'
  BY <1>0, <1>1 DEF IInv, TypeOK
<1>3. ASSUME NEW k \in Node PROVE CopyOK(k)' /\ NodeOK(k)'
  BY <1>0, <1>1 DEF IInv, TypeOK, CopyOK, NodeOK, WireOK
<1>4. ASSUME NEW k \in wire' PROVE WireOK(k)'
  <2>1. k \in wire /\ k # m /\ k.node \in Node
    BY <1>1 DEF IInv, TypeOK, Message
  <2>2. k.awaited => reply'[k.node] = "none"
    BY <1>0, <1>1, <2>1 DEF IInv, TypeOK, WireOK
  <2>3. reply'[k.node] = reply[k.node] \/ reply'[k.node] = "conflict"
    BY <1>0, <1>1, <2>1 DEF IInv, TypeOK
  <2> QED BY <1>1, <2>1, <2>2, <2>3 DEF IInv, WireOK
<1>5. OneAwaited' /\ ServingIsListed'
  BY <1>1 DEF IInv, OneAwaited, ServingIsListed
<1> QED BY <1>2, <1>3, <1>4, <1>5 DEF IInv, OneAwaited

-----------------------------------------------------------------------------
(* Steps of node n that leave the ConfigMap alone, move the plugin from a  *)
(* state without an awaited answer to `label', and may read the ConfigMap. *)

\* A plugin that moves on without touching the ConfigMap.
LEMMA MoveInv ==
    ASSUME IInv, NEW n \in Node, NEW label \in {"down", "get", "update", "listen", "serving"},
           pc' = [pc EXCEPT ![n] = label],
           reply' = [reply EXCEPT ![n] = "none"],
           wire' \subseteq Message,
           \A k \in wire' : /\ k.awaited => k \in wire /\ k.node # n
                            /\ \E m \in wire : /\ k.node = m.node /\ k.rv = m.rv
                                               /\ k.data = m.data,
           UNCHANGED <<cm, rv, stale>>, TypeOK',
           \A k \in Node \ {n} : ip'[k] = ip[k] /\ copy'[k] = copy[k] /\ copyRv'[k] = copyRv[k],
           CopyOK(n)', label # "down" => ip'[n] \in Address,
           label \in {"listen", "serving"} /\ n \notin stale =>
                   /\ cm[n] = ip'[n]
                   /\ \A m \in wire : m.node = n => m.rv # rv \/ m.data = cm
    PROVE  IInv'
<1>1. /\ \A k \in Node \ {n} : pc'[k] = pc[k] /\ reply'[k] = reply[k]
      /\ pc'[n] = label /\ reply'[n] = "none"
  BY DEF IInv, TypeOK
<1>2. ASSUME NEW k \in Node PROVE CopyOK(k)' /\ NodeOK(k)'
  BY <1>1 DEF IInv, CopyOK, NodeOK
<1>3. ASSUME NEW k \in wire' PROVE WireOK(k)'
  <2>1. PICK m \in wire : k.node = m.node /\ k.rv = m.rv /\ k.data = m.data
    OBVIOUS
  <2>2. WireOK(m) /\ k.node \in Node
    BY <2>1 DEF IInv, TypeOK, Message
  <2>3. k.awaited => WireOK(k) /\ k.node # n
    BY DEF IInv
  <2>4. k.awaited => /\ pc'[k.node] = "await" /\ reply'[k.node] = "none"
                     /\ k.data[k.node] = ip'[k.node]
    BY <1>1, <2>2, <2>3 DEF WireOK
  <2>5. k.rv = rv => \/ k.data = cm \/ k.node \in stale
                     \/ pc'[k.node] \notin {"listen", "serving"} /\ reply'[k.node] # "ok"
    BY <1>1, <2>1, <2>2 DEF WireOK
  <2> QED BY <2>1, <2>2, <2>4, <2>5 DEF WireOK
<1>4. OneAwaited' /\ ServingIsListed'
  BY <1>1 DEF IInv, OneAwaited, ServingIsListed
<1> QED BY <1>2, <1>3, <1>4 DEF IInv, OneAwaited

\* FailTry sends the plugin back, or down.
LEMMA FailTryFacts ==
    ASSUME IInv, NEW n \in Node, FailTry(n)
    PROVE  /\ \E label \in {"get", "down"} : pc' = [pc EXCEPT ![n] = label]
           /\ tries' \in [Node -> 0 .. RetryLimit - 1]
           /\ UNCHANGED <<ip, copy, copyRv>>
BY NodeMapAssumption DEF FailTry, IInv, TypeOK

\* What counting a fault leaves alone.
LEMMA FaultFacts ==
    ASSUME IInv, Fault PROVE faults' \in 0 .. MaxFaults
BY NodeMapAssumption DEF Fault, IInv, TypeOK

\* What stays on the wire when a plugin stops waiting.
LEMMA AbandonFacts ==
    ASSUME IInv, NEW n \in Node, Abandon(n)
    PROVE  /\ wire' \subseteq Message
           /\ \A k \in wire' : /\ k.awaited => k \in wire /\ k.node # n
                               /\ \E m \in wire : /\ k.node = m.node /\ k.rv = m.rv
                                                  /\ k.data = m.data
           /\ reply' = [reply EXCEPT ![n] = "none"]
<1>1. wire \subseteq Message
  BY DEF IInv, TypeOK
<1>2. ASSUME NEW m \in wire, NEW k, k = [m EXCEPT !.awaited = m.awaited /\ m.node # n]
      PROVE  /\ k \in Message /\ k.node = m.node /\ k.rv = m.rv /\ k.data = m.data
             /\ k.awaited => k = m /\ k.node # n
  BY <1>1, <1>2 DEF Message
<1> QED BY <1>2 DEF Abandon

\* While no answer is awaited, the wire and the replies stay as they are.
LEMMA QuietFacts ==
    ASSUME IInv, NEW n \in Node, pc[n] # "await" \/ reply[n] # "none"
    PROVE  /\ wire \subseteq Message
           /\ \A k \in wire : k.awaited => k.node # n
           /\ pc[n] # "await" => reply = [reply EXCEPT ![n] = "none"]
<1>1. wire \subseteq Message /\ reply \in [Node -> {"none", "ok", "conflict"}]
  BY DEF IInv, TypeOK
<1>2. \A k \in wire : k.awaited => k.node # n
  BY DEF IInv, WireOK
<1>3. pc[n] # "await" => reply[n] = "none"
  BY DEF IInv, NodeOK
<1> QED BY <1>1, <1>2, <1>3

\* A plugin that starts.
LEMMA BootInv ==
    ASSUME IInv, NEW n \in Node, NEW a \in Address, Boot(n, a) PROVE IInv'
<1>1. /\ pc[n] = "down" /\ pc' = [pc EXCEPT ![n] = "get"] /\ ip' = [ip EXCEPT ![n] = a]
      /\ tries' = [tries EXCEPT ![n] = 0]
      /\ UNCHANGED <<cm, rv, wire, reply, stale, copy, copyRv, faults, probe>>
  BY DEF Boot, server
<1>2. TypeOK'
  BY <1>1, NodeMapAssumption DEF IInv, TypeOK
<1>3. CopyOK(n)' /\ ip'[n] = a /\ \A k \in Node \ {n} : ip'[k] = ip[k]
  BY <1>1 DEF IInv, TypeOK, CopyOK
<1>4. /\ wire' \subseteq Message
      /\ \A k \in wire' : k.awaited => k.node # n
      /\ reply' = [reply EXCEPT ![n] = "none"]
  BY <1>1, QuietFacts
<1> QED BY <1>1, <1>2, <1>3, <1>4, MoveInv

\* Put's read of the ConfigMap.
LEMMA PutGetInv ==
    ASSUME IInv, NEW n \in Node, PutGet(n) PROVE IInv'
<1>1. pc[n] = "get" /\ UNCHANGED <<cm, rv, wire, reply, stale, probe>>
  BY DEF PutGet, server
<1>2. /\ wire' \subseteq Message
      /\ \A k \in wire' : k.awaited => k.node # n
      /\ reply' = [reply EXCEPT ![n] = "none"]
      /\ ip[n] \in Address
  BY <1>1, QuietFacts DEF IInv, NodeOK
<1>3. CASE /\ copy' = [copy EXCEPT ![n] = cm] /\ copyRv' = [copyRv EXCEPT ![n] = rv]
           /\ pc' = [pc EXCEPT ![n] = "update"] /\ UNCHANGED <<ip, tries, faults>>
  <2>1. TypeOK'
    BY <1>1, <1>3 DEF IInv, TypeOK
  <2>2. CopyOK(n)' /\ \A k \in Node \ {n} : copy'[k] = copy[k] /\ copyRv'[k] = copyRv[k]
    BY <1>1, <1>3 DEF IInv, TypeOK, CopyOK
  <2> QED BY <1>1, <1>2, <1>3, <2>1, <2>2, MoveInv
<1>4. CASE Fault /\ FailTry(n)
  <2>1. PICK label \in {"get", "down"} : pc' = [pc EXCEPT ![n] = label]
    BY <1>4, FailTryFacts
  <2>2. TypeOK'
    BY <1>1, <1>4, <2>1, FailTryFacts, FaultFacts DEF IInv, TypeOK
  <2>3. UNCHANGED <<ip, copy, copyRv>>
    BY <1>4, FailTryFacts
  <2>4. CopyOK(n)'
    BY <1>1, <2>1, <2>3 DEF IInv, TypeOK, CopyOK
  <2> QED BY <1>1, <1>2, <2>1, <2>2, <2>3, <2>4, MoveInv
<1> QED BY <1>3, <1>4 DEF PutGet

\* Put's answer.
LEMMA PutReturnInv ==
    ASSUME IInv, NEW n \in Node, PutReturn(n) PROVE IInv'
<1>1. /\ pc[n] = "await" /\ reply[n] # "none" /\ reply' = [reply EXCEPT ![n] = "none"]
      /\ UNCHANGED <<cm, rv, wire, stale, faults, probe>>
  BY DEF PutReturn
<1>2. /\ wire' \subseteq Message
      /\ \A k \in wire' : k.awaited => k.node # n
      /\ ip[n] \in Address
  BY <1>1, QuietFacts DEF IInv, NodeOK
<1>3. CASE reply[n] = "ok" /\ pc' = [pc EXCEPT ![n] = "listen"] /\ UNCHANGED <<ip, copy, copyRv, tries>>
  <2>1. TypeOK'
    BY <1>1, <1>3 DEF IInv, TypeOK
  <2>2. CopyOK(n)'
    BY <1>1, <1>3 DEF IInv, TypeOK, CopyOK
  <2>3. n \notin stale => /\ cm[n] = ip[n]
                         /\ \A m \in wire : m.node = n => m.rv # rv \/ m.data = cm
    BY <1>3 DEF IInv, NodeOK, WireOK
  <2> QED BY <1>1, <1>2, <1>3, <2>1, <2>2, <2>3, MoveInv
<1>4. CASE FailTry(n)
  <2>1. PICK label \in {"get", "down"} : pc' = [pc EXCEPT ![n] = label]
    BY <1>4, FailTryFacts
  <2>2. TypeOK'
    BY <1>1, <1>4, <2>1, FailTryFacts DEF IInv, TypeOK
  <2>3. UNCHANGED <<ip, copy, copyRv>>
    BY <1>4, FailTryFacts
  <2>4. CopyOK(n)'
    BY <1>1, <2>1, <2>3 DEF IInv, TypeOK, CopyOK
  <2> QED BY <1>1, <1>2, <2>1, <2>2, <2>3, <2>4, MoveInv
<1> QED BY <1>3, <1>4 DEF PutReturn

\* Put's update times out and is tried again.
LEMMA PutTimeoutInv ==
    ASSUME IInv, NEW n \in Node, PutTimeout(n) PROVE IInv'
<1>1. pc[n] = "await" /\ Fault /\ Abandon(n) /\ FailTry(n) /\ UNCHANGED <<cm, rv, stale, probe>>
  BY DEF PutTimeout
<1>2. PICK label \in {"get", "down"} : pc' = [pc EXCEPT ![n] = label]
  BY <1>1, FailTryFacts
<1>3. /\ UNCHANGED <<ip, copy, copyRv>> /\ wire' \subseteq Message
      /\ reply' = [reply EXCEPT ![n] = "none"]
      /\ tries' \in [Node -> 0 .. RetryLimit - 1] /\ faults' \in 0 .. MaxFaults
  BY <1>1, FailTryFacts, FaultFacts, AbandonFacts
<1>4. TypeOK'
  BY <1>1, <1>2, <1>3 DEF IInv, TypeOK
<1>5. CopyOK(n)' /\ ip[n] \in Address
  BY <1>1, <1>2, <1>3 DEF IInv, TypeOK, CopyOK, NodeOK
<1> QED BY <1>1, <1>2, <1>3, <1>4, <1>5, AbandonFacts, MoveInv

\* A plugin that dies, its update perhaps still under way.
LEMMA CrashInv ==
    ASSUME IInv, NEW n \in Node, Crash(n) PROVE IInv'
<1>1. /\ Fault /\ Abandon(n) /\ pc' = [pc EXCEPT ![n] = "down"]
      /\ UNCHANGED <<cm, rv, stale, ip, copy, copyRv, tries, probe>>
  BY DEF Crash
<1>2. /\ wire' \subseteq Message /\ reply' = [reply EXCEPT ![n] = "none"]
      /\ faults' \in 0 .. MaxFaults
  BY <1>1, FaultFacts, AbandonFacts
<1>3. TypeOK'
  BY <1>1, <1>2 DEF IInv, TypeOK
<1>4. CopyOK(n)'
  BY <1>1 DEF IInv, TypeOK, CopyOK
<1> QED BY <1>1, <1>2, <1>3, <1>4, AbandonFacts, MoveInv

\* A plugin that starts to serve after a successful Put.
LEMMA ListenInv ==
    ASSUME IInv, NEW n \in Node, Listen(n) PROVE IInv'
<1>1. /\ pc[n] = "listen" /\ pc' = [pc EXCEPT ![n] = "serving"]
      /\ UNCHANGED <<cm, rv, wire, reply, stale, ip, copy, copyRv, tries, faults, probe>>
  BY DEF Listen, server
<1>2. /\ wire' \subseteq Message
      /\ \A k \in wire' : k.awaited => k.node # n
      /\ reply' = [reply EXCEPT ![n] = "none"]
  BY <1>1, QuietFacts
<1>3. TypeOK'
  BY <1>1 DEF IInv, TypeOK
<1>4. CopyOK(n)'
  BY <1>1 DEF IInv, TypeOK, CopyOK
<1>5. ip[n] \in Address /\ (n \notin stale => cm[n] = ip[n])
  BY <1>1 DEF IInv, NodeOK, ServingIsListed
<1>6. n \notin stale => \A m \in wire : m.node = n => m.rv # rv \/ m.data = cm
  BY <1>1 DEF IInv, WireOK
<1> QED BY <1>1, <1>2, <1>3, <1>4, <1>5, <1>6, MoveInv

\* Put's update is sent.
LEMMA PutUpdateInv ==
    ASSUME IInv, NEW n \in Node, PutUpdate(n) PROVE IInv'
<1> DEFINE new == [node |-> n, rv |-> copyRv[n],
                   data |-> [copy[n] EXCEPT ![n] = ip[n]], awaited |-> TRUE]
<1>1. /\ pc[n] = "update" /\ pc' = [pc EXCEPT ![n] = "await"] /\ wire' = wire \cup {new}
      /\ UNCHANGED <<cm, rv, reply, stale, ip, copy, copyRv, tries, faults, probe>>
  BY DEF PutUpdate
<1>2. /\ ip[n] \in Address /\ copy[n] \in Table /\ copyRv[n] \in Nat /\ reply[n] = "none"
      /\ copyRv[n] <= rv /\ (copyRv[n] = rv => copy[n] = cm)
      /\ \A k \in wire : k.awaited => k.node # n
  BY <1>1, QuietFacts DEF IInv, TypeOK, NodeOK, CopyOK
<1>3. /\ new.data \in Table /\ new.data[n] = ip[n] /\ new.node = n /\ new.rv = copyRv[n]
      /\ new.data = [copy[n] EXCEPT ![n] = ip[n]]
  BY <1>2 DEF Table
<1>4. new \in Message
  BY <1>2, <1>3 DEF Message
<1>5. TypeOK'
  BY <1>1, <1>4 DEF IInv, TypeOK
<1>6. ASSUME NEW k \in Node PROVE CopyOK(k)' /\ NodeOK(k)'
  BY <1>1 DEF IInv, TypeOK, CopyOK, NodeOK
<1>7. ASSUME NEW k \in wire' PROVE WireOK(k)'
  <2>1. CASE k = new
    <3>1. k.node = n /\ k.rv = copyRv[n] /\ k.data[n] = ip[n]
      BY <1>3, <2>1
    <3>2. pc'[n] = "await" /\ reply'[n] = "none" /\ ip'[n] = ip[n]
      BY <1>1, <1>2 DEF IInv, TypeOK
    <3>3. k.rv = rv => k.data = [cm EXCEPT ![n] = k.data[n]]
      BY <1>2, <1>3, <2>1
    <3> QED BY <1>1, <1>2, <3>1, <3>2, <3>3 DEF WireOK
  <2>2. CASE k \in wire
    <3>1. k.node \in Node /\ WireOK(k)
      BY <2>2 DEF IInv, TypeOK, Message
    <3>2. pc'[k.node] = pc[k.node] \/ (k.node = n /\ pc'[k.node] = "await" /\ ~k.awaited)
      BY <1>1, <1>2, <2>2, <3>1 DEF IInv, TypeOK
    <3> QED BY <1>1, <3>1, <3>2 DEF WireOK
  <2> QED BY <1>1, <2>1, <2>2
<1>8. OneAwaited'
  <2> SUFFICES ASSUME NEW k \in wire', NEW m \in wire', k.awaited, m.awaited, k.node = m.node
               PROVE  k = m
    BY DEF OneAwaited
  <2>1. new.node = n
    OBVIOUS
  <2> HIDE DEF new
  <2>2. (k \in wire \/ k = new) /\ (m \in wire \/ m = new)
    BY <1>1
  <2>3. CASE k \in wire /\ m \in wire
    BY <2>3 DEF IInv
  <2>4. CASE k = new \/ m = new
    BY <1>2, <2>1, <2>2, <2>4
  <2> QED BY <2>2, <2>3, <2>4
<1>9. ServingIsListed'
  BY <1>1 DEF IInv, TypeOK, ServingIsListed
<1> QED BY <1>5, <1>6, <1>7, <1>8, <1>9 DEF IInv, OneAwaited

\* Steps that change no variable but the probe.
LEMMA ProbeInv ==
    ASSUME IInv, probe' \in Probe,
           UNCHANGED <<cm, rv, wire, reply, stale, pc, ip, copy, copyRv, tries, faults>>
    PROVE  IInv'
<1>1. TypeOK'
  BY DEF IInv, TypeOK
<1>2. \A n \in Node : CopyOK(n)' /\ NodeOK(n)'
  BY DEF IInv, CopyOK, NodeOK
<1>3. \A m \in wire' : WireOK(m)'
  BY DEF IInv, WireOK
<1>4. OneAwaited' /\ ServingIsListed'
  BY DEF IInv, OneAwaited, ServingIsListed
<1> QED BY <1>1, <1>2, <1>3, <1>4 DEF IInv, OneAwaited

\* The invariant holds initially.
LEMMA InitInv == Init => IInv
<1> SUFFICES ASSUME Init PROVE IInv
  OBVIOUS
<1>1. TypeOK
  BY NodeMapAssumption DEF Init, TypeOK, Table, Probe, NoProbe
<1>2. \A n \in Node : CopyOK(n) /\ NodeOK(n)
  <2>1. \A n \in Node : pc[n] = "down" /\ reply[n] = "none" /\ copyRv[n] = 0 /\ rv = 0
    BY DEF Init
  <2>2. ASSUME NEW n \in Node PROVE CopyOK(n)
    BY <2>1 DEF CopyOK
  <2>3. ASSUME NEW n \in Node PROVE NodeOK(n)
    BY <2>1 DEF NodeOK
  <2> QED BY <2>2, <2>3
<1>3. (\A m \in wire : WireOK(m)) /\ OneAwaited /\ ServingIsListed
  BY DEF Init, OneAwaited, ServingIsListed
<1> QED BY <1>1, <1>2, <1>3 DEF IInv, OneAwaited

\* Every step keeps the invariant.
LEMMA NextInv == IInv /\ [Next]_vars => IInv'
<1> SUFFICES ASSUME IInv, [Next]_vars PROVE IInv'
  OBVIOUS
<1>1. ASSUME NEW n \in Node, PluginStep(n) PROVE IInv'
  BY <1>1, PutGetInv, PutUpdateInv, PutReturnInv, ListenInv DEF PluginStep
<1>2. ASSUME NEW n \in Node, PutTimeout(n) \/ Crash(n) PROVE IInv'
  BY <1>2, PutTimeoutInv, CrashInv
<1>3. ASSUME NEW n \in Node, Lookup(n) PROVE IInv'
  <2>1. probe' \in Probe
    BY <1>3 DEF Lookup, Probe, IInv, TypeOK, Table
  <2> QED BY <1>3, <2>1, ProbeInv DEF Lookup, server, plugin
<1>4. ASSUME NEW n \in Node, Dial(n) PROVE IInv'
  <2>1. probe' \in Probe
    BY <1>4 DEF Dial, Probe, IInv, TypeOK
  <2> QED BY <1>4, <2>1, ProbeInv DEF Dial, server, plugin
<1>5. ASSUME NEW n \in Node, NEW a \in Address, Boot(n, a) PROVE IInv'
  BY <1>5, BootInv
<1>6. ASSUME NEW m \in wire, Commit(m) \/ Reject(m) PROVE IInv'
  BY <1>6, CommitInv, RejectInv
<1>7. CASE UNCHANGED vars
  BY <1>7, ProbeInv DEF vars, server, plugin, IInv, TypeOK
<1> QED BY <1>1, <1>2, <1>3, <1>4, <1>5, <1>6, <1>7 DEF Next

-----------------------------------------------------------------------------
(* The theorems. *)

\* The state of the registry, of the plugins and of the wire stays well formed.
THEOREM TypeCorrect == Spec => []TypeOK
<1>1. IInv => TypeOK
  BY DEF IInv
<1> QED BY <1>1, InitInv, NextInv, PTL DEF Spec

\* A registered node is listed under its current address, for any number of
\* nodes, any retry limit and any number of faults.
THEOREM RegisteredIsListed == Spec => []ServingIsListed
<1>1. IInv => ServingIsListed
  BY DEF IInv
<1> QED BY <1>1, InitInv, NextInv, PTL DEF Spec

\* Every step of the nodes and of the API server is a step of the registry.
LEMMA StepRefines ==
    ASSUME IInv, [Next]_vars PROVE [R!RegNext]_(R!regVars)
<1> DEFINE S(n) == IF pc[n] = "serving" /\ n \notin stale THEN ip[n] ELSE None
           T(n) == IF pc'[n] = "serving" /\ n \notin stale' THEN ip'[n] ELSE None
<1> USE DEF R!RegNext, R!regVars
<1>0. /\ Serving = [n \in Node |-> S(n)] /\ Serving' = [n \in Node |-> T(n)]
      /\ pc \in [Node -> {"down", "get", "update", "await", "listen", "serving"}]
      /\ ip \in [Node -> Address \cup {None}] /\ cm \in Table
  BY DEF Serving, IInv, TypeOK
<1>q. ASSUME NEW n \in Node, pc[n] # "serving", NEW label, label # "serving",
             pc' = [pc EXCEPT ![n] = label], UNCHANGED stale,
             \A k \in Node \ {n} : ip'[k] = ip[k]
      PROVE  Serving' = Serving
  BY <1>0, <1>q DEF Serving
<1>1. ASSUME NEW n \in Node, PutGet(n) \/ PutUpdate(n) \/ PutReturn(n) \/ PutTimeout(n)
      PROVE  UNCHANGED <<cm, Serving>>
  <2>1. /\ pc[n] # "serving" /\ UNCHANGED <<cm, ip, stale>>
        /\ \E label \in {"down", "get", "update", "await", "listen"} : pc' = [pc EXCEPT ![n] = label]
    BY <1>1 DEF PutGet, PutUpdate, PutReturn, PutTimeout, FailTry, server
  <2> QED BY <1>q, <2>1
<1>2. ASSUME NEW n \in Node, NEW a \in Address, Boot(n, a)
      PROVE  UNCHANGED <<cm, Serving>>
  BY <1>0, <1>2, <1>q DEF Boot, server
<1>3. ASSUME NEW n \in Node, Listen(n) PROVE R!Serve(n) \/ UNCHANGED <<cm, Serving>>
  <2>1. /\ pc[n] = "listen" /\ pc' = [pc EXCEPT ![n] = "serving"] /\ UNCHANGED <<cm, ip, stale>>
        /\ (n \notin stale => cm[n] = ip[n]) /\ ip[n] # None
    BY <1>3, NodeMapAssumption DEF Listen, server, IInv, ServingIsListed, NodeOK
  <2>2. CASE n \notin stale
    <3>1. Serving' = [Serving EXCEPT ![n] = cm[n]] /\ Serving[n] = None
      BY <1>0, <2>1, <2>2
    <3> QED BY <2>1, <2>2, <3>1 DEF R!Serve
  <2>3. CASE n \in stale
    BY <1>0, <2>1, <2>3
  <2> QED BY <2>2, <2>3
<1>4. ASSUME NEW n \in Node, Crash(n) PROVE R!Leave(n)
  <2>1. pc' = [pc EXCEPT ![n] = "down"] /\ UNCHANGED <<cm, ip, stale>>
    BY <1>4 DEF Crash
  <2>2. Serving' = [Serving EXCEPT ![n] = None]
    BY <1>0, <2>1
  <2> QED BY <2>1, <2>2 DEF R!Leave
<1>5. ASSUME NEW n \in Node, Lookup(n) \/ Dial(n) PROVE UNCHANGED <<cm, Serving>>
  BY <1>5 DEF Lookup, Dial, server, plugin, Serving
<1>6. ASSUME NEW m \in wire, Commit(m)
      PROVE  R!Put(m.node, m.data[m.node]) \/ UNCHANGED <<cm, Serving>>
  <2>1. UNCHANGED <<pc, ip>> /\ cm' = m.data /\ m.rv = rv /\ WireOK(m) /\ m.node \in Node
    BY <1>6, CommitFacts
  <2>2. \A k \in Node : S(k) = T(k)
    <3>1. ASSUME NEW k \in Node, k # m.node PROVE S(k) = T(k)
      BY <1>6, <2>1, <3>1, CommitFacts
    <3>2. CASE m.awaited
      BY <2>1, <3>1, <3>2 DEF WireOK
    <3>3. CASE ~m.awaited
      BY <1>6, <2>1, <3>3, CommitFacts
    <3> QED BY <3>2, <3>3
  <2>3. UNCHANGED Serving
    BY <1>0, <2>2
  <2>4. cm' = [cm EXCEPT ![m.node] = m.data[m.node]]
    BY <2>1 DEF WireOK
  <2>5. cm' = cm \/ Serving[m.node] = None
    BY <1>0, <2>1 DEF WireOK
  <2> QED BY <2>3, <2>4, <2>5 DEF R!Put
<1>7. ASSUME NEW m \in wire, Reject(m) PROVE UNCHANGED <<cm, Serving>>
  BY <1>7 DEF Reject, plugin, Serving
<1>8. CASE UNCHANGED vars
  BY <1>8 DEF vars, server, plugin, Serving
<1>9. ASSUME NEW m \in wire PROVE m.node \in Node /\ m.data[m.node] \in Address
  BY DEF IInv, TypeOK, Message, WireOK
<1>10. CASE \E n \in Node : \/ PluginStep(n) \/ PutTimeout(n) \/ Crash(n)
                            \/ Lookup(n) \/ Dial(n)
                            \/ \E a \in Address : Boot(n, a)
  BY <1>1, <1>2, <1>3, <1>4, <1>5, <1>10 DEF PluginStep
<1>11. CASE \E m \in wire : Commit(m) \/ Reject(m)
  BY <1>6, <1>7, <1>9, <1>11
<1> QED BY <1>8, <1>10, <1>11 DEF Next

\* The ConfigMap with its optimistic locking implements the registry: no
\* node's entry is lost to another node's update or to a late request.
THEOREM Refinement == Spec => ImplementsRegistry
<1>1. Init => R!RegInit
  <2> SUFFICES ASSUME Init PROVE R!RegInit
    OBVIOUS
  <2>1. Serving = [n \in Node |-> None]
    BY DEF Init, Serving
  <2> QED BY <2>1 DEF Init, R!RegInit
<1>2. IInv /\ [Next]_vars => [R!RegNext]_(R!regVars)
  BY StepRefines
<1> QED BY <1>1, <1>2, InitInv, NextInv, PTL DEF Spec, ImplementsRegistry, R!RegSpec
=============================================================================
