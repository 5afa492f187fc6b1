---------------------------- MODULE AttachProofs ----------------------------
(* Proofs about Attach: IInv is inductive and implies its safety properties. *)
EXTENDS Attach, TLAPS

(* The inductive invariant behind the safety properties.                   *)

\* A call is idle, running or orphaned, and its request and task say so.
CallOK(c) ==
    /\ pc[c] = "idle" <=> req[c] = NoReq
    /\ c \in open => pc[c] \in Running
    /\ pc[c] \notin {"wait", "orphan"} => task[c] = "none"
    /\ pc[c] = "wait" => task[c] # "none"
    /\ pc[c] = "orphan" => task[c] \in Submitted
    /\ pc[c] # "idle" =>
          /\ req[c].node = NoNode <=> req[c].op = "delete"
          /\ req[c].op = "delete" => pc[c] \notin {"check", "lock"}
          /\ req[c].op = "delete" => pv[req[c].vol] # "bound"

\* A call in its critical section holds its mutex.
LockOK(c) ==
    UsesLock(c) /\ pc[c] \in Critical => holder[req[c].rep][HashKey[req[c].node]] = c

\* What the CO believes while it waits for call c.
OpenOK(c) ==
    c \in open =>
        /\ req[c].op = "publish" => va[req[c].vol][req[c].node] = "attaching"
        /\ req[c].op = "unpublish" => va[req[c].vol][req[c].node] = "detaching"
        /\ \A d \in open : req[d].vol = req[c].vol /\ req[d].node = req[c].node => d = c

\* Nothing at work on call c's volume, unless it is in sus, does the opposite:
\* no unpublish of the same node beside a publish, no delete beside a publish.
Unopposed(c, sus) ==
    \A d \in Call \ {c} :
        Working(d) /\ req[d].vol = req[c].vol /\ req[c].vol \notin sus =>
            /\ req[d].node = req[c].node =>
                  /\ ~(req[c].op = "publish" /\ req[d].op = "unpublish")
                  /\ ~(req[c].op = "unpublish" /\ req[d].op = "publish")
            /\ ~(req[c].op = "publish" /\ req[d].op = "delete")
            /\ ~(req[c].op = "delete" /\ req[d].op = "publish")

\* The CO was not told the opposite of what call c asks for, and a delete
\* still finds what it saw.
Ready(c, sus) ==
    LET v == req[c].vol  n == req[c].node IN
    v \notin sus =>
        /\ req[c].op = "publish" => va[v][n] # "detached"
        /\ req[c].op = "unpublish" => va[v][n] # "attached"
        /\ req[c].op = "delete" => disks[v] = {}

\* A call that has looked at CloudTower, on a volume that is not suspect: what
\* it saw stands, and a finished task's effect lasts as long as its call.
CalmOK(c) ==
    LET v == req[c].vol  n == req[c].node IN
    Working(c) =>
        /\ Unopposed(c, suspect)
        /\ Ready(c, suspect)
        /\ v \notin suspect /\ task[c] = "SUCCESSED" =>
              /\ req[c].op = "publish" => n \in disks[v]
              /\ req[c].op = "unpublish" => n \notin disks[v]

DeleteDone ==
    \A c \in Call : pc[c] # "idle" /\ req[c].op = "delete" /\ task[c] = "SUCCESSED"
                    => req[c].vol \notin live

\* A volume that is not shared is attached, or on its way, at one node.
OneNode ==
    \A v \in Volume \ Sharing, m, n \in Node :
        va[v][m] # "detached" /\ va[v][n] # "detached" => m = n

IInv ==
    /\ TypeOK
    /\ \A c \in Call : CallOK(c) /\ LockOK(c) /\ OpenOK(c) /\ CalmOK(c)
    /\ DeleteDone
    /\ OneNode
    /\ AttachedIsAttached
    /\ DetachedIsDetached
    /\ DeleteSparesAttached
    /\ GoneIsGone

-----------------------------------------------------------------------------
Status == Submitted \cup Ended \cup {"none"}

-----------------------------------------------------------------------------
(* What a step of CloudTower may do to its disks `dk' and volumes `lv'.    *)

DiskType(dk, lv) == dk \in [Volume -> SUBSET Node] /\ lv \subseteq live

\* The properties that speak of the disks hold of dk and lv.
DiskOK(dk, lv) ==
    /\ DiskType(dk, lv)
    /\ \A v \in Volume \ suspect, n \in Node : va[v][n] = "detached" => n \notin dk[v]
    /\ \A v \in Volume \ (Sharing \cup suspect), n \in Node :
          va[v][n] = "attached" => n \in dk[v]
    /\ \A v \in Volume \ (lv \cup suspect) : dk[v] = {}

\* The effects that finished tasks and passed checks rely on hold of dk.
CallDiskOK(d, dk) ==
    LET v == req[d].vol  n == req[d].node IN
    Working(d) /\ v \notin suspect =>
        /\ req[d].op = "publish" /\ task[d] = "SUCCESSED" => n \in dk[v]
        /\ req[d].op = "unpublish" /\ task[d] = "SUCCESSED" => n \notin dk[v]
        /\ req[d].op = "delete" => dk[v] = {}

\* What call c asked for has been done in dk and lv.
Applied(c, dk, lv) ==
    LET v == req[c].vol  n == req[c].node IN
    /\ req[c].op = "publish" => n \in dk[v]
    /\ req[c].op = "unpublish" => n \notin dk[v]
    /\ req[c].op = "delete" => v \notin lv

\* Facts about a call that is not idle.
LEMMA BusyCall ==
    ASSUME IInv, NEW c \in Call, pc[c] # "idle"
    PROVE  /\ req[c] \in Request
           /\ req[c].op \in {"publish", "unpublish", "delete"}
           /\ req[c].vol \in Volume
           /\ req[c].rep \in Replica
           /\ req[c].op # "delete" => req[c].node \in Node
           /\ req[c].op = "delete" => req[c].node = NoNode
BY DEF IInv, CallOK, TypeOK, Request

\* Doing nothing keeps the disks right.
LEMMA SameDisks ==
    ASSUME IInv
    PROVE  DiskOK(disks, live) /\ \A d \in Call : CallDiskOK(d, disks)
BY DEF IInv, TypeOK, DiskOK, DiskType, CallDiskOK, CalmOK, Ready, AttachedIsAttached,
       DetachedIsDetached, DeleteSparesAttached

\* Carrying out what a call asked for keeps the disks right: a publish of a
\* volume that is not suspect meets neither an unpublish nor a delete.
LEMMA ApplyDisks ==
    ASSUME IInv, NEW c \in Call, Apply(c), Working(c)
    PROVE  /\ DiskOK(disks', live')
           /\ \A d \in Call : CallDiskOK(d, disks')
           /\ Applied(c, disks', live')
<1> DEFINE v == req[c].vol
           n == req[c].node
<1>0. /\ pc[c] # "idle" /\ v \in Volume
      /\ req[c].op # "delete" => n \in Node
      /\ req[c].op \in {"publish", "unpublish", "delete"}
  BY BusyCall DEF Working
<1>a. Unopposed(c, suspect) /\ Ready(c, suspect)
  BY DEF IInv, CalmOK
<1>b. \A d \in Call : Working(d) => req[d].vol \in Volume
  BY BusyCall DEF Working
<1>1. DiskType(disks', live')
  BY <1>0 DEF IInv, TypeOK, Apply, DiskType
<1>2. CASE req[c].op = "publish"
  <2>1. /\ disks' = [disks EXCEPT ![v] = @ \cup {n}] /\ live' = live
        /\ v \in live
    BY <1>2 DEF Apply
  <2>2. v \notin suspect => va[v][n] # "detached"
    BY <1>2, <1>a DEF Ready
  <2>3. DiskOK(disks', live')
    BY <1>0, <1>1, <1>2, <2>1, <2>2 DEF IInv, TypeOK, DiskOK, AttachedIsAttached,
       DetachedIsDetached, DeleteSparesAttached
  <2>4. ASSUME NEW d \in Call PROVE CallDiskOK(d, disks')
    <3>1. Working(d) /\ req[d].vol = v /\ v \notin suspect =>
             /\ req[d].op # "delete"
             /\ req[d].op = "unpublish" => req[d].node # n
      BY <1>2, <1>a DEF Unopposed
    <3> QED BY <1>0, <1>b, <2>1, <3>1, SameDisks DEF CallDiskOK, IInv, TypeOK
  <2> QED BY <1>0, <1>2, <2>1, <2>3, <2>4 DEF Applied, IInv, TypeOK
<1>3. CASE req[c].op = "unpublish"
  <2>1. disks' = [disks EXCEPT ![v] = @ \ {n}] /\ live' = live
    BY <1>3 DEF Apply
  <2>2. v \notin suspect => va[v][n] # "attached"
    BY <1>3, <1>a DEF Ready
  <2>3. DiskOK(disks', live')
    BY <1>0, <1>1, <1>3, <2>1, <2>2 DEF IInv, TypeOK, DiskOK, AttachedIsAttached,
       DetachedIsDetached, DeleteSparesAttached
  <2>4. ASSUME NEW d \in Call PROVE CallDiskOK(d, disks')
    <3>1. Working(d) /\ req[d].vol = v /\ v \notin suspect =>
             (req[d].op = "publish" => req[d].node # n)
      BY <1>3, <1>a DEF Unopposed
    <3> QED BY <1>0, <1>b, <2>1, <3>1, SameDisks DEF CallDiskOK, IInv, TypeOK
  <2> QED BY <1>0, <1>3, <2>1, <2>3, <2>4 DEF Applied, IInv, TypeOK
<1>4. CASE req[c].op = "delete"
  <2>1. disks' = disks /\ live' = live \ {v}
    BY <1>4 DEF Apply
  <2>2. v \notin suspect => disks[v] = {}
    BY <1>4, <1>a DEF Ready
  <2>3. DiskOK(disks', live')
    BY <1>0, <1>1, <2>1, <2>2 DEF IInv, DiskOK, AttachedIsAttached,
       DetachedIsDetached, DeleteSparesAttached
  <2>4. \A d \in Call : CallDiskOK(d, disks')
    BY <2>1, SameDisks
  <2> QED BY <1>4, <2>1, <2>3, <2>4 DEF Applied
<1> QED BY <1>0, <1>2, <1>3, <1>4

\* A step after which no call is at work that was not before opposes nobody
\* anew.
LEMMA StillUnopposed ==
    ASSUME NEW d \in Call, Working(d)', Unopposed(d, suspect), suspect \subseteq suspect',
           \A e \in Call : Working(e)' => Working(e) /\ req'[e] = req[e]
    PROVE  Unopposed(d, suspect)'
<1>1. req'[d] = req[d]
  OBVIOUS
<1> QED BY <1>1 DEF Unopposed

-----------------------------------------------------------------------------
(* A handler that returns keeps IInv if its answer is true.                *)

\* What the CO will conclude from a success of call c, about a volume that is
\* not in sus.
TrueAnswer(c, dk, lv, sus) ==
    LET v == req[c].vol  n == req[c].node IN
    /\ req[c].op = "publish" /\ v \notin Sharing \cup sus => n \in dk[v]
    /\ req[c].op = "unpublish" /\ v \notin sus => n \notin dk[v]
    /\ req[c].op = "delete" => v \notin lv

\* A handler that returns, releases its mutex and answers its client keeps the
\* invariant, if what it answers is true and nobody is about to undo it.
LEMMA ReturnInv ==
    ASSUME IInv, NEW c \in Call, pc[c] \in Running,
           NEW ok \in BOOLEAN, NEW status \in Status,
           Return(c, ok, status),
           suspect \subseteq suspect', suspect' \subseteq Volume,
           status \in Submitted => pc[c] \in {"submit", "wait"} /\ ~ok,
           DiskOK(disks', live'), \A d \in Call : CallDiskOK(d, disks'),
           ok /\ c \in open =>
               TrueAnswer(c, disks', live', suspect') /\ Unopposed(c, suspect')
    PROVE  IInv'
<1> DEFINE v == req[c].vol
           n == req[c].node
           told == ok /\ c \in open
<1> USE DEF Status
<1>0. /\ pc[c] # "idle" /\ v \in Volume /\ req[c] \in Request /\ req[c].rep \in Replica
      /\ req[c].op # "delete" => n \in Node
      /\ req[c].op = "delete" => n = NoNode
      /\ req[c].op \in {"publish", "unpublish", "delete"}
  BY BusyCall DEF Running
<1>1. TypeOK'
  BY <1>0 DEF IInv, TypeOK, Return, Unlock, Answer, DiskOK, DiskType, Submitted
<1>2. /\ \A d \in Call \ {c} : /\ pc'[d] = pc[d] /\ req'[d] = req[d]
                               /\ task'[d] = task[d] /\ (d \in open' <=> d \in open)
      /\ c \notin open'
      /\ pc'[c] = "idle" \/ (pc'[c] = "orphan" /\ status \in Submitted)
      /\ pc'[c] = "idle" => req'[c] = NoReq /\ task'[c] = "none"
      /\ pc'[c] = "orphan" => req'[c] = req[c] /\ task'[c] = status
  BY DEF IInv, TypeOK, Return, Answer
<1>3. /\ \A w \in Volume, m \in Node :
            va'[w][m] = va[w][m] \/ (told /\ req[c].op # "delete" /\ w = v /\ m = n)
      /\ told /\ req[c].op = "publish" => va'[v][n] = "attached" /\ va[v][n] = "attaching"
      /\ told /\ req[c].op = "unpublish" => va'[v][n] = "detached" /\ va[v][n] = "detaching"
      /\ \A w \in Volume : pv'[w] = pv[w] \/ (told /\ req[c].op = "delete" /\ w = v /\ pv'[w] = "gone")
  BY <1>0 DEF IInv, TypeOK, Return, Answer, OpenOK
<1>4. ASSUME NEW d \in Call, d # c, pc[d] # "idle"
      PROVE  /\ req[d] \in Request /\ req[d].vol \in Volume /\ req[d].rep \in Replica
             /\ req[d].op # "delete" => req[d].node \in Node
             /\ req[d].op = "delete" => req[d].node = NoNode
             /\ req[d].op \in {"publish", "unpublish", "delete"}
  BY <1>4, BusyCall
<1>5. ASSUME NEW d \in Call PROVE CallOK(d)'
  <2>1. CASE d = c
    BY <1>0, <1>2, <1>3, <2>1, NoReqAssumption DEF IInv, CallOK, Running, Submitted
  <2>2. CASE d # c
    BY <1>2, <1>3, <1>4, <2>2 DEF IInv, CallOK
  <2> QED BY <2>1, <2>2
<1>6. ASSUME NEW d \in Call PROVE LockOK(d)'
  <2>1. CASE d = c
    BY <1>2, <2>1 DEF LockOK, Critical
  <2>2. CASE d # c
    <3> SUFFICES ASSUME UsesLock(d)', pc'[d] \in Critical
                 PROVE  holder'[req'[d].rep][HashKey[req'[d].node]] = d
      BY DEF LockOK
    <3>1. UsesLock(d) /\ pc[d] \in Critical /\ req'[d] = req[d]
      BY <1>2, <2>2 DEF UsesLock
    <3>2. req[d].rep \in Replica /\ HashKey[req[d].node] \in Mutex
      BY <1>4, <2>2, <3>1, AttachAssumption DEF UsesLock, Critical
    <3>3. holder[req[d].rep][HashKey[req[d].node]] = d
      BY <3>1 DEF IInv, LockOK
    <3> QED BY <2>2, <3>1, <3>2, <3>3 DEF Return, Unlock
  <2> QED BY <2>1, <2>2
<1>7. ASSUME NEW d \in Call PROVE OpenOK(d)'
  <2> SUFFICES ASSUME d \in open' PROVE OpenOK(d)'
    BY DEF OpenOK
  <2>1. d # c /\ d \in open /\ pc[d] # "idle"
    BY <1>2 DEF IInv, CallOK, Running
  <2>2. told => ~(req[d].vol = v /\ req[d].node = n)
    BY <2>1 DEF IInv, OpenOK
  <2>3. \A e \in open' : e \in Call /\ e \in open /\ req'[e] = req[e]
    BY <1>1, <1>2 DEF TypeOK
  <2> QED BY <1>3, <1>4, <2>1, <2>2, <2>3 DEF IInv, OpenOK
<1>8. ASSUME NEW d \in Call PROVE CalmOK(d)'
  <2> SUFFICES ASSUME Working(d)' PROVE CalmOK(d)'
    BY DEF CalmOK
  <2>1. \A e \in Call : Working(e)' => Working(e) /\ req'[e] = req[e]
    BY <1>2 DEF Working
  <2>2. Working(d) /\ req'[d] = req[d] /\ pc[d] # "idle" /\ CalmOK(d) /\ CallDiskOK(d, disks')
    BY <2>1 DEF Working, IInv
  <2>3. Unopposed(d, suspect)'
    BY <2>1, <2>2, StillUnopposed DEF CalmOK
  <2> DEFINE w == req[d].vol
             m == req[d].node
  <2>4. w \in Volume /\ (req[d].op # "delete" => m \in Node)
    BY <2>2, BusyCall
  <2>5. Ready(d, suspect)'
    <3> SUFFICES ASSUME w \notin suspect' PROVE Ready(d, suspect)'
      BY <2>2 DEF Ready
    <3>1. w \notin suspect
      OBVIOUS
    <3>2. /\ req[d].op = "publish" => va[w][m] # "detached"
          /\ req[d].op = "unpublish" => va[w][m] # "attached"
          /\ req[d].op = "delete" => disks'[w] = {}
      BY <2>2, <3>1 DEF CalmOK, Ready, CallDiskOK
    <3>3. CASE d = c
      <4>1. ~ok
        BY <1>2, <3>3 DEF Working
      <4> QED BY <1>3, <2>2, <2>4, <3>2, <4>1 DEF Ready
    <3>4. CASE d # c
      <4>1. told /\ w = v /\ m = n => /\ ~(req[c].op = "publish" /\ req[d].op = "unpublish")
                                      /\ ~(req[c].op = "unpublish" /\ req[d].op = "publish")
        BY <2>2, <3>4 DEF Unopposed
      <4>2. /\ req[d].op = "publish" => va'[w][m] # "detached"
            /\ req[d].op = "unpublish" => va'[w][m] # "attached"
        BY <1>0, <1>3, <2>4, <3>2, <4>1
      <4> QED BY <2>2, <3>2, <4>2 DEF Ready
    <3> QED BY <3>3, <3>4
  <2>6. task'[d] = "SUCCESSED" => task[d] = "SUCCESSED"
    BY <1>2 DEF Working, Submitted
  <2> QED BY <2>2, <2>3, <2>5, <2>6 DEF CalmOK, CallDiskOK
<1>9. DeleteDone'
  BY <1>2 DEF IInv, DeleteDone, DiskOK, DiskType, Submitted
<1>10. OneNode'
  BY <1>0, <1>3 DEF IInv, OneNode
<1>11. AttachedIsAttached' /\ DetachedIsDetached'
  BY <1>0, <1>2, <1>3 DEF AttachedIsAttached, DetachedIsDetached, DiskOK, TrueAnswer
<1>12. DeleteSparesAttached'
  BY <1>2 DEF DeleteSparesAttached, DiskOK
<1>13. GoneIsGone'
  BY <1>3 DEF IInv, TypeOK, GoneIsGone, DiskOK, DiskType, TrueAnswer
<1> QED BY <1>1, <1>5, <1>6, <1>7, <1>8, <1>9, <1>10, <1>11, <1>12, <1>13 DEF IInv

-----------------------------------------------------------------------------
(* A handler that moves on to `label' keeps IInv.                          *)

\* A handler that moves on to its next step, holding what it needs there.
LEMMA GotoInv ==
    ASSUME IInv, NEW c \in Call, pc[c] \in Running, NEW label \in Running,
           Goto(c, label), UNCHANGED <<disks, live>>,
           \/ label # "wait" /\ pc[c] # "wait" /\ UNCHANGED task
           \/ label = "wait" /\ task' = [task EXCEPT ![c] = "PENDING"],
           holder' \in [Replica -> [Mutex -> Call \cup {NoCall}]],
           \A d \in Call : UsesLock(d) /\ pc'[d] \in Critical =>
               holder'[req[d].rep][HashKey[req[d].node]] = d,
           req[c].op = "delete" => label \notin {"check", "lock"},
           suspect \subseteq suspect', suspect' \subseteq Volume,
           label \in {"submit", "wait"} => Unopposed(c, suspect') /\ Ready(c, suspect')
    PROVE  IInv'
<1>1. /\ \A d \in Call \ {c} : pc'[d] = pc[d] /\ task'[d] = task[d]
      /\ pc'[c] = label /\ pc[c] # "idle" /\ pc'[c] # "idle"
      /\ label # "wait" => task'[c] = "none"
      /\ label = "wait" => task'[c] = "PENDING"
      /\ UNCHANGED <<req, open, va, pv, disks, live>>
  BY DEF Goto, co, IInv, TypeOK, CallOK, Running
<1>2. TypeOK'
  BY <1>1 DEF IInv, TypeOK, Goto, Running, Submitted, Ended
<1>3. ASSUME NEW d \in Call PROVE CallOK(d)'
  <2>1. CASE d = c
    BY <1>1, <2>1 DEF IInv, CallOK, Running
  <2>2. CASE d # c
    BY <1>1, <2>2 DEF IInv, CallOK
  <2> QED BY <2>1, <2>2
<1>4. ASSUME NEW d \in Call PROVE LockOK(d)'
  BY <1>1 DEF LockOK, UsesLock
<1>5. ASSUME NEW d \in Call PROVE OpenOK(d)'
  BY <1>1 DEF IInv, OpenOK
<1>6. ASSUME NEW d \in Call PROVE CalmOK(d)'
  <2> SUFFICES ASSUME Working(d)' PROVE CalmOK(d)'
    BY DEF CalmOK
  <2>1. /\ \A e \in Call \ {c} : Working(e)' <=> Working(e)
        /\ Working(c)' => label \in {"submit", "wait"}
    BY <1>1 DEF Working, Running
  <2>2. CASE d = c
    <3>1. Unopposed(c, suspect') /\ Ready(c, suspect') /\ task'[c] # "SUCCESSED"
      BY <1>1, <2>1, <2>2
    <3>2. Unopposed(c, suspect)' /\ Ready(c, suspect)'
      BY <1>1, <2>1, <3>1 DEF Unopposed, Ready
    <3> QED BY <2>2, <3>1, <3>2 DEF CalmOK
  <2>3. CASE d # c
    <3>1. Working(d) /\ CalmOK(d) /\ task'[d] = task[d]
      BY <1>1, <2>1, <2>3 DEF IInv
    <3>2. Unopposed(d, suspect)'
      <4> SUFFICES ASSUME NEW e \in Call \ {d}, Working(e)', req[e].vol = req[d].vol,
                          req[d].vol \notin suspect'
                   PROVE  /\ req[e].node = req[d].node =>
                                /\ ~(req[d].op = "publish" /\ req[e].op = "unpublish")
                                /\ ~(req[d].op = "unpublish" /\ req[e].op = "publish")
                          /\ ~(req[d].op = "publish" /\ req[e].op = "delete")
                          /\ ~(req[d].op = "delete" /\ req[e].op = "publish")
        BY <1>1 DEF Unopposed
      <4>1. CASE e = c
        <5>1. Unopposed(c, suspect')
          BY <2>1, <4>1
        <5> QED BY <2>3, <3>1, <4>1, <5>1 DEF Unopposed
      <4>2. CASE e # c
        BY <2>1, <3>1, <4>2 DEF CalmOK, Unopposed
      <4> QED BY <4>1, <4>2
    <3>3. Ready(d, suspect)'
      BY <1>1, <3>1 DEF CalmOK, Ready
    <3> QED BY <1>1, <3>1, <3>2, <3>3 DEF CalmOK
  <2> QED BY <2>2, <2>3
<1>7. DeleteDone'
  BY <1>1 DEF IInv, DeleteDone
<1>8. OneNode' /\ AttachedIsAttached' /\ DetachedIsDetached' /\ DeleteSparesAttached' /\ GoneIsGone'
  BY <1>1 DEF IInv, OneNode, AttachedIsAttached, DetachedIsDetached, DeleteSparesAttached, GoneIsGone
<1> QED BY <1>2, <1>3, <1>4, <1>5, <1>6, <1>7, <1>8 DEF IInv

\* A move within the critical section, or before it, leaves the mutexes alone.
LEMMA PlainGotoInv ==
    ASSUME IInv, NEW c \in Call, pc[c] \in Running, NEW label \in Running,
           Goto(c, label), UNCHANGED <<holder, disks, live>>,
           \/ label # "wait" /\ pc[c] # "wait" /\ UNCHANGED task
           \/ label = "wait" /\ task' = [task EXCEPT ![c] = "PENDING"],
           label \in Critical => pc[c] \in Critical,
           req[c].op = "delete" => label \notin {"check", "lock"},
           suspect \subseteq suspect', suspect' \subseteq Volume,
           label \in {"submit", "wait"} => Unopposed(c, suspect') /\ Ready(c, suspect')
    PROVE  IInv'
<1>1. holder' \in [Replica -> [Mutex -> Call \cup {NoCall}]]
  BY DEF IInv, TypeOK
<1>2. ASSUME NEW d \in Call, UsesLock(d), pc'[d] \in Critical
      PROVE  holder'[req[d].rep][HashKey[req[d].node]] = d
  <2>1. pc[d] \in Critical
    BY <1>2 DEF Goto, IInv, TypeOK
  <2> QED BY <1>2, <2>1 DEF IInv, LockOK
<1> QED BY <1>1, <1>2, GotoInv

\* A failed RPC keeps IInv.
LEMMA FailInv ==
    ASSUME IInv, NEW c \in Call, pc[c] \in Running, NEW status \in Status,
           Return(c, FALSE, status), UNCHANGED <<disks, live, suspect>>,
           status \in Submitted => pc[c] \in {"submit", "wait"}
    PROVE  IInv'
<1>1. DiskOK(disks', live') /\ \A d \in Call : CallDiskOK(d, disks')
  BY SameDisks
<1>2. suspect \subseteq suspect' /\ suspect' \subseteq Volume
  BY DEF IInv, TypeOK
<1> QED BY <1>1, <1>2, ReturnInv

-----------------------------------------------------------------------------
(* Every step of a handler keeps IInv.                                     *)

\* ControllerPublishVolume's checks.
LEMMA CheckInv ==
    ASSUME IInv, NEW c \in Call, Check(c) PROVE IInv'
<1>0. pc[c] = "check" /\ pc[c] \in Running /\ req[c].op # "delete"
  BY DEF Check, Running, IInv, CallOK
<1>a. UNCHANGED <<disks, live, suspect>> /\ suspect' \subseteq Volume
  BY DEF Check, IInv, TypeOK
<1>1. CASE Goto(c, "lock") /\ UNCHANGED <<holder, task>>
  BY <1>0, <1>1, <1>a, PlainGotoInv DEF Running, Critical
<1>2. CASE Return(c, FALSE, "none")
  BY <1>0, <1>2, FailInv DEF Check, Status, Submitted
<1> QED BY <1>1, <1>2 DEF Check

\* LockKey takes a free mutex, so nobody loses one.
LEMMA LockKeyInv ==
    ASSUME IInv, NEW c \in Call, LockKey(c) PROVE IInv'
<1> DEFINE r == req[c].rep
           m == HashKey[req[c].node]
<1>1. pc[c] = "lock" /\ pc[c] \in Running /\ "read" \in Running /\ req[c].op # "delete"
  BY DEF LockKey, Running, IInv, CallOK
<1>2. r \in Replica /\ m \in Mutex
  BY <1>1, BusyCall, AttachAssumption
<1>3. holder' = [holder EXCEPT ![r][m] = c] /\ holder[r][m] = NoCall
  BY DEF LockKey
<1>4. holder' \in [Replica -> [Mutex -> Call \cup {NoCall}]]
  BY <1>2, <1>3 DEF IInv, TypeOK
<1>5. ASSUME NEW d \in Call, UsesLock(d), pc'[d] \in Critical
      PROVE  holder'[req[d].rep][HashKey[req[d].node]] = d
  <2>1. CASE d = c
    BY <1>2, <1>3, <2>1 DEF IInv, TypeOK
  <2>2. CASE d # c
    <3>1. pc[d] \in Critical
      BY <1>5, <2>2 DEF LockKey, Goto, IInv, TypeOK
    <3>2. holder[req[d].rep][HashKey[req[d].node]] = d
      BY <1>5, <3>1 DEF IInv, LockOK
    <3>3. req[d].rep \in Replica /\ HashKey[req[d].node] \in Mutex
      BY <1>5, <3>1, BusyCall, AttachAssumption DEF UsesLock, Critical
    <3>4. ~(req[d].rep = r /\ HashKey[req[d].node] = m)
      BY <1>3, <3>2, AttachAssumption
    <3> QED BY <1>2, <1>3, <3>2, <3>3, <3>4 DEF IInv, TypeOK
  <2> QED BY <2>1, <2>2
<1>6. Goto(c, "read") /\ UNCHANGED <<task, disks, live, suspect>> /\ suspect' \subseteq Volume
  BY DEF LockKey, tower, IInv, TypeOK
<1> QED BY <1>1, <1>4, <1>5, <1>6, GotoInv

\* A look: unless the volume becomes suspect, nothing at work opposes the call,
\* because the mutex keeps the others of its replica away, and the CO was not
\* told the opposite.
LEMMA LookCalm ==
    ASSUME IInv, NEW c \in Call, pc[c] = "read", Look(c)
    PROVE  /\ suspect \subseteq suspect' /\ suspect' \subseteq Volume
           /\ Unopposed(c, suspect')
           /\ req[c].vol \notin suspect' => ~Outdated(c) /\ \A d \in Call : ~Clashes(c, d)
<1>0. pc[c] # "idle" /\ req[c].vol \in Volume
  BY BusyCall
<1>1. /\ suspect \subseteq suspect' /\ suspect' \subseteq Volume
      /\ req[c].vol \notin suspect' => ~Outdated(c) /\ \A d \in Call : ~Clashes(c, d)
  BY <1>0 DEF Look, IInv, TypeOK
<1>2. ASSUME NEW d \in Call \ {c}, Working(d), req[d].vol = req[c].vol,
             req[c].vol \notin suspect'
      PROVE  /\ req[d].node = req[c].node =>
                   /\ ~(req[c].op = "publish" /\ req[d].op = "unpublish")
                   /\ ~(req[c].op = "unpublish" /\ req[d].op = "publish")
             /\ ~(req[c].op = "publish" /\ req[d].op = "delete")
             /\ ~(req[c].op = "delete" /\ req[d].op = "publish")
  <2>1. ~Clashes(c, d)
    BY <1>1, <1>2
  <2>2. ~(req[c].op = "publish" /\ req[d].op = "delete") /\ ~(req[c].op = "delete" /\ req[d].op = "publish")
    BY <1>2, <2>1 DEF Clashes
  <2>3. ASSUME req[d].node = req[c].node, "delete" \notin {req[c].op, req[d].op}
        PROVE  ~SameMutex(c, d)
    <3> SUFFICES ASSUME SameMutex(c, d) PROVE FALSE
      OBVIOUS
    <3>1. UsesLock(c) /\ UsesLock(d) /\ pc[c] \in Critical /\ pc[d] \in Critical
      BY <1>0, <1>2, <2>3, NoReqAssumption DEF SameMutex, Working, Critical, UsesLock, IInv, CallOK
    <3> QED BY <1>2, <2>3, <3>1 DEF SameMutex, IInv, LockOK
  <2> QED BY <1>2, <2>1, <2>2, <2>3 DEF Clashes
<1>3. Unopposed(c, suspect')
  BY <1>2 DEF Unopposed
<1> QED BY <1>1, <1>3

\* The shortcut of publishVolumeToVm tells the truth: a volume that is
\* mounting, and does not become suspect, is a disk of this very node.
LEMMA MountingHere ==
    ASSUME IInv, NEW c \in Call, c \in open, pc[c] = "read", req[c].op = "publish",
           Look(c), req[c].vol \notin Sharing \cup suspect', Mounting(req[c].vol)
    PROVE  req[c].node \in disks[req[c].vol]
<1> DEFINE v == req[c].vol
           n == req[c].node
<1>0. v \in Volume /\ n \in Node /\ disks[v] \subseteq Node
  BY BusyCall DEF IInv, TypeOK
<1>a. v \notin suspect /\ \A d \in Call : ~Clashes(c, d)
  BY LookCalm
<1>1. va[v][n] = "attaching"
  BY DEF IInv, OpenOK
<1>2. ASSUME NEW m \in Node, va[v][m] # "detached" PROVE m = n
  BY <1>0, <1>1, <1>2 DEF IInv, OneNode
<1>3. CASE disks[v] # {}
  <2>1. PICK m \in Node : m \in disks[v]
    BY <1>0, <1>3
  <2>2. va[v][m] # "detached"
    BY <1>0, <1>a, <2>1 DEF IInv, DetachedIsDetached
  <2> QED BY <1>2, <2>1, <2>2
<1>4. CASE \E d \in Call : Op(d, "publish", v) /\ task[d] = "EXECUTING"
  <2>1. PICK d \in Call : Op(d, "publish", v) /\ task[d] = "EXECUTING"
    BY <1>4
  <2>2. pc[d] # "idle" /\ req[d].op = "publish" /\ req[d].vol = v /\ pc[d] \in {"wait", "orphan"}
    BY <2>1 DEF Op, IInv, CallOK
  <2>3. req[d].node \in Node /\ Working(d)
    BY <2>2, BusyCall DEF Working
  <2>4. va[v][req[d].node] # "detached"
    BY <1>a, <2>2, <2>3 DEF IInv, CalmOK, Ready
  <2>5. req[d].node = n
    BY <1>2, <2>3, <2>4
  <2>6. SameMutex(c, d)
    BY <1>a, <2>1, <2>2, <2>3, <2>5 DEF Clashes
  <2>7. pc[d] = "wait" /\ req[d].rep = req[c].rep
    BY <2>2, <2>6 DEF SameMutex
  <2>8. UsesLock(c) /\ UsesLock(d)
    BY <2>2, NoReqAssumption, BusyCall DEF UsesLock
  <2>9. c = d
    BY <2>5, <2>7, <2>8 DEF IInv, LockOK, Critical
  <2> QED BY <2>7, <2>9
<1> QED BY <1>3, <1>4 DEF Mounting

\* A successful answer at a look that is true of CloudTower's state.
LEMMA LookReturnInv ==
    ASSUME IInv, NEW c \in Call, pc[c] = "read", Look(c), Return(c, TRUE, "none"),
           UNCHANGED <<disks, live>>, c \in open => TrueAnswer(c, disks', live', suspect')
    PROVE  IInv'
<1>1. /\ suspect \subseteq suspect' /\ suspect' \subseteq Volume
      /\ Unopposed(c, suspect')
  BY LookCalm
<1>2. DiskOK(disks', live') /\ \A d \in Call : CallDiskOK(d, disks')
  BY SameDisks
<1>3. "none" \in Status /\ "none" \notin Submitted /\ pc[c] \in Running
  BY DEF Status, Submitted, Running
<1> QED BY <1>1, <1>2, <1>3, ReturnInv

\* A look after which the handler goes on to ask CloudTower.
LEMMA LookGotoInv ==
    ASSUME IInv, NEW c \in Call, pc[c] = "read", Look(c), Goto(c, "submit"),
           UNCHANGED <<holder, task, disks, live>>,
           req[c].op = "delete" => disks[req[c].vol] = {}
    PROVE  IInv'
<1>1. /\ suspect \subseteq suspect' /\ suspect' \subseteq Volume
      /\ Unopposed(c, suspect')
      /\ req[c].vol \notin suspect' => ~Outdated(c)
  BY LookCalm
<1>2. Ready(c, suspect')
  BY <1>1 DEF Ready, Outdated
<1>3. pc[c] \in Running /\ "submit" \in Running /\ pc[c] \in Critical
  BY DEF Running, Critical
<1> QED BY <1>1, <1>2, <1>3, PlainGotoInv

\* publishVolumeToVm's reads: the shortcut answers are true of volumes that
\* are not shared.
LEMMA PublishReadInv ==
    ASSUME IInv, NEW c \in Call, PublishRead(c) PROVE IInv'
<1>0. pc[c] = "read" /\ pc[c] \in Running /\ req[c].op = "publish"
  BY DEF PublishRead, Running
<1>a. UNCHANGED <<disks, live>>
  BY DEF PublishRead
<1>1. CASE Return(c, FALSE, "none") /\ UNCHANGED suspect
  BY <1>0, <1>1, <1>a, FailInv DEF Status, Submitted
<1>2. CASE Mounting(req[c].vol) /\ Look(c) /\ Return(c, TRUE, "none")
  <2>1. c \in open => TrueAnswer(c, disks', live', suspect')
    BY <1>0, <1>2, <1>a, MountingHere DEF TrueAnswer
  <2> QED BY <1>0, <1>2, <1>a, <2>1, LookReturnInv
<1>3. CASE Look(c) /\ Goto(c, "submit") /\ UNCHANGED <<holder, task>>
  BY <1>0, <1>3, <1>a, LookGotoInv
<1> QED BY <1>1, <1>2, <1>3 DEF PublishRead

\* unpublishVolumeFromVm's read: a volume that is no disk of the VM stays so.
LEMMA UnpublishReadInv ==
    ASSUME IInv, NEW c \in Call, UnpublishRead(c) PROVE IInv'
<1>0. pc[c] = "read" /\ pc[c] \in Running /\ req[c].op = "unpublish"
  BY DEF UnpublishRead, Running
<1>a. UNCHANGED <<disks, live>>
  BY DEF UnpublishRead
<1>1. CASE Return(c, FALSE, "none") /\ UNCHANGED suspect
  BY <1>0, <1>1, <1>a, FailInv DEF Status, Submitted
<1>2. CASE req[c].node \notin disks[req[c].vol] /\ Look(c) /\ Return(c, TRUE, "none")
  <2>1. TrueAnswer(c, disks', live', suspect')
    BY <1>0, <1>2, <1>a DEF TrueAnswer
  <2> QED BY <1>0, <1>2, <1>a, <2>1, LookReturnInv
<1>3. CASE Look(c) /\ Goto(c, "submit") /\ UNCHANGED <<holder, task>>
  BY <1>0, <1>3, <1>a, LookGotoInv
<1> QED BY <1>1, <1>2, <1>3 DEF UnpublishRead

\* DeleteVolume's check of Mounting still holds when it acts on it.
LEMMA DeleteReadInv ==
    ASSUME IInv, NEW c \in Call, DeleteRead(c) PROVE IInv'
<1>0. pc[c] = "read" /\ pc[c] \in Running /\ req[c].op = "delete"
  BY DEF DeleteRead, Running
<1>a. UNCHANGED <<disks, live>>
  BY DEF DeleteRead
<1>1. CASE Return(c, FALSE, "none") /\ UNCHANGED suspect
  BY <1>0, <1>1, <1>a, FailInv DEF Status, Submitted
<1>2. CASE /\ ~Mounting(req[c].vol) /\ Look(c)
           /\ Goto(c, "submit") /\ UNCHANGED <<holder, task>>
  <2>1. disks[req[c].vol] = {}
    BY <1>2 DEF Mounting
  <2> QED BY <1>0, <1>2, <1>a, <2>1, LookGotoInv
<1> QED BY <1>1, <1>2 DEF DeleteRead

\* The request to CloudTower, whatever becomes of its answer.
LEMMA SubmitInv ==
    ASSUME IInv, NEW c \in Call, Submit(c) PROVE IInv'
<1>0. pc[c] = "submit" /\ pc[c] \in Running /\ pc[c] \in Critical /\ Working(c)
  BY DEF Submit, Running, Critical, Working
<1>s. {"none", "PENDING"} \subseteq Status /\ "none" \notin Submitted
  BY DEF Status, Submitted
<1>a. /\ suspect' = suspect /\ suspect' \subseteq Volume
      /\ Unopposed(c, suspect') /\ Ready(c, suspect')
  BY <1>0 DEF Submit, IInv, TypeOK, CalmOK
<1>1. CASE Return(c, FALSE, "none") /\ UNCHANGED <<disks, live>>
  BY <1>0, <1>s, <1>1, <1>a, FailInv
<1>2. CASE Return(c, FALSE, "PENDING") /\ UNCHANGED <<disks, live>>
  BY <1>0, <1>s, <1>2, <1>a, FailInv
<1>3. CASE /\ Goto(c, "wait")
           /\ task' = [task EXCEPT ![c] = "PENDING"]
           /\ UNCHANGED <<holder, disks, live>>
  BY <1>0, <1>3, <1>a, PlainGotoInv DEF Running
<1>4. CASE Return(c, TRUE, "none") /\ Apply(c)
  <2>1. /\ DiskOK(disks', live') /\ \A d \in Call : CallDiskOK(d, disks')
        /\ TrueAnswer(c, disks', live', suspect')
    BY <1>0, <1>4, ApplyDisks DEF Applied, TrueAnswer
  <2> QED BY <1>0, <1>s, <1>4, <1>a, <2>1, ReturnInv
<1> QED BY <1>1, <1>2, <1>3, <1>4 DEF Submit

\* waitTask: a success is reported only for a task that succeeded.
LEMMA WaitTaskInv ==
    ASSUME IInv, NEW c \in Call, WaitTask(c) PROVE IInv'
<1>0. pc[c] = "wait" /\ pc[c] \in Running /\ task[c] \in Status /\ Working(c)
  BY DEF WaitTask, Running, Status, Working, IInv, TypeOK
<1>a. UNCHANGED <<disks, live, suspect>> /\ suspect' \subseteq Volume /\ Unopposed(c, suspect')
  BY <1>0 DEF WaitTask, IInv, TypeOK, CalmOK
<1>1. CASE task[c] = "SUCCESSED" /\ Return(c, TRUE, task[c])
  <2>1. TrueAnswer(c, disks', live', suspect')
    BY <1>0, <1>1, <1>a DEF IInv, CalmOK, DeleteDone, TrueAnswer
  <2>2. DiskOK(disks', live') /\ \A d \in Call : CallDiskOK(d, disks')
    BY <1>a, SameDisks
  <2>3. task[c] \notin Submitted
    BY <1>1 DEF Submitted
  <2> QED BY <1>0, <1>1, <1>a, <2>1, <2>2, <2>3, ReturnInv
<1>2. CASE Return(c, FALSE, task[c])
  BY <1>0, <1>2, <1>a, FailInv
<1> QED BY <1>1, <1>2 DEF WaitTask

\* Every step of a handler.
LEMMA HandlerInv ==
    ASSUME IInv, NEW c \in Call, Handler(c) PROVE IInv'
BY CheckInv, LockKeyInv, PublishReadInv, UnpublishReadInv, DeleteReadInv, SubmitInv,
   WaitTaskInv DEF Handler

-----------------------------------------------------------------------------
(* Every step of CloudTower keeps IInv.                                    *)

\* A step that changes only the state of call c's task, its request's slot if
\* it is an orphan, and the disks.
LEMMA TaskInv ==
    ASSUME IInv, NEW c \in Call, pc[c] \in {"wait", "orphan"},
           UNCHANGED <<holder, open, va, pv, suspect>>,
           NEW status \in Status \ {"none"},
           \/ /\ pc[c] = "orphan" /\ status \notin Submitted
              /\ pc' = [pc EXCEPT ![c] = "idle"]
              /\ req' = [req EXCEPT ![c] = NoReq]
              /\ task' = [task EXCEPT ![c] = "none"]
           \/ /\ pc[c] = "wait" \/ status \in Submitted
              /\ UNCHANGED <<pc, req>>
              /\ task' = [task EXCEPT ![c] = status],
           DiskOK(disks', live'), \A d \in Call : CallDiskOK(d, disks'),
           status = "SUCCESSED" => Applied(c, disks', live')
    PROVE  IInv'
<1> USE DEF Status
<1>1. /\ \A d \in Call \ {c} : pc'[d] = pc[d] /\ req'[d] = req[d] /\ task'[d] = task[d]
      /\ \/ pc'[c] = "idle" /\ req'[c] = NoReq /\ task'[c] = "none" /\ pc[c] = "orphan"
         \/ /\ pc'[c] = pc[c] /\ req'[c] = req[c] /\ task'[c] = status
            /\ pc[c] = "wait" \/ status \in Submitted
      /\ UNCHANGED <<holder, open, va, pv, suspect>>
  BY DEF IInv, TypeOK
<1>2. TypeOK'
  <2>1. /\ pc' \in [Call -> Running \cup {"idle", "orphan"}]
        /\ req' \in [Call -> Request \cup {NoReq}]
        /\ task' \in [Call -> Submitted \cup Ended \cup {"none"}]
    BY DEF IInv, TypeOK
  <2>2. disks' \in [Volume -> SUBSET Node] /\ live' \subseteq Volume
    BY DEF IInv, TypeOK, DiskOK, DiskType
  <2> QED BY <1>1, <2>1, <2>2 DEF IInv, TypeOK
<1>3. ASSUME NEW d \in Call PROVE CallOK(d)'
  <2>1. CASE d = c
    BY <1>1, <2>1 DEF IInv, CallOK, Running
  <2>2. CASE d # c
    BY <1>1, <2>2 DEF IInv, CallOK
  <2> QED BY <2>1, <2>2
<1>4. ASSUME NEW d \in Call PROVE LockOK(d)'
  BY <1>1 DEF IInv, LockOK, UsesLock, Critical
<1>5. ASSUME NEW d \in Call PROVE OpenOK(d)'
  <2>1. \A e \in open : e \in Call /\ req'[e] = req[e]
    BY <1>1 DEF IInv, TypeOK, CallOK, Running
  <2> QED BY <1>1, <2>1 DEF IInv, OpenOK
<1>6. ASSUME NEW d \in Call PROVE CalmOK(d)'
  <2> SUFFICES ASSUME Working(d)' PROVE CalmOK(d)'
    BY DEF CalmOK
  <2>1. \A e \in Call : Working(e)' => Working(e) /\ req'[e] = req[e]
    BY <1>1 DEF Working
  <2>2. Working(d) /\ req'[d] = req[d] /\ CalmOK(d) /\ CallDiskOK(d, disks') /\ suspect' = suspect
    BY <1>1, <2>1 DEF IInv
  <2>3. Unopposed(d, suspect)'
    BY <2>1, <2>2, StillUnopposed DEF CalmOK
  <2>4. Ready(d, suspect)'
    BY <1>1, <2>2 DEF CalmOK, Ready, CallDiskOK
  <2>5. task'[d] = task[d] \/ (d = c /\ task'[d] = status)
    BY <1>1, <2>1 DEF Working
  <2>6. CASE task'[d] = task[d]
    BY <2>2, <2>3, <2>4, <2>6 DEF CalmOK, CallDiskOK
  <2>7. CASE d = c /\ task'[d] = status
    BY <2>2, <2>3, <2>4, <2>7 DEF CalmOK, Applied
  <2> QED BY <2>5, <2>6, <2>7
<1>7. DeleteDone'
  BY <1>1 DEF IInv, DeleteDone, DiskOK, DiskType, Applied
<1>8. OneNode' /\ AttachedIsAttached' /\ DetachedIsDetached' /\ DeleteSparesAttached' /\ GoneIsGone'
  BY <1>1 DEF IInv, OneNode, AttachedIsAttached, DetachedIsDetached, DeleteSparesAttached,
     GoneIsGone, DiskOK, DiskType
<1> QED BY <1>2, <1>3, <1>4, <1>5, <1>6, <1>7, <1>8 DEF IInv

\* Every step of CloudTower.
LEMMA TowerInv ==
    ASSUME IInv, NEW c \in Call, TaskExecute(c) \/ TaskSucceed(c) \/ TaskFail(c)
    PROVE  IInv'
<1>0. task[c] \in Submitted /\ pc[c] \in {"wait", "orphan"}
  BY DEF TaskExecute, TaskSucceed, TaskFail, TaskEnd, Submitted, IInv, TypeOK, CallOK, Running
<1>s. /\ {"EXECUTING", "SUCCESSED", "FAILED"} \subseteq Status \ {"none"}
      /\ "EXECUTING" \in Submitted /\ "SUCCESSED" \notin Submitted /\ "FAILED" \notin Submitted
  BY DEF Status, Submitted, Ended
<1>1. CASE TaskExecute(c)
  <2>1. DiskOK(disks', live') /\ \A d \in Call : CallDiskOK(d, disks')
    BY <1>1, SameDisks DEF TaskExecute
  <2>2. /\ UNCHANGED <<pc, req, holder, open, va, pv, suspect>>
        /\ task' = [task EXCEPT ![c] = "EXECUTING"]
    BY <1>1 DEF TaskExecute, driver, co
  <2> QED BY <1>0, <1>s, <2>1, <2>2, TaskInv
<1>2. ASSUME NEW status \in {"SUCCESSED", "FAILED"}, TaskEnd(c, status)
      PROVE  /\ UNCHANGED <<holder, open, va, pv, suspect>>
             /\ \/ /\ pc[c] = "orphan" /\ status \notin Submitted
                   /\ pc' = [pc EXCEPT ![c] = "idle"]
                   /\ req' = [req EXCEPT ![c] = NoReq]
                   /\ task' = [task EXCEPT ![c] = "none"]
                \/ /\ pc[c] = "wait" \/ status \in Submitted
                   /\ UNCHANGED <<pc, req>>
                   /\ task' = [task EXCEPT ![c] = status]
  BY <1>0, <1>s, <1>2 DEF TaskEnd, co, IInv, TypeOK
<1>3. CASE TaskSucceed(c)
  <2>1. /\ DiskOK(disks', live') /\ \A d \in Call : CallDiskOK(d, disks')
        /\ Applied(c, disks', live')
    BY <1>0, <1>3, ApplyDisks DEF TaskSucceed, Working
  <2> QED BY <1>0, <1>s, <1>2, <1>3, <2>1, TaskInv DEF TaskSucceed
<1>4. CASE TaskFail(c)
  <2>1. DiskOK(disks', live') /\ \A d \in Call : CallDiskOK(d, disks')
    BY <1>4, SameDisks DEF TaskFail
  <2> QED BY <1>0, <1>s, <1>2, <1>4, <2>1, TaskInv DEF TaskFail
<1> QED BY <1>1, <1>3, <1>4

-----------------------------------------------------------------------------
(* So do a crash and the steps of the CO.                                  *)

\* A crash of a replica: mutexes vanish with the calls that hold them.
LEMMA CrashInv ==
    ASSUME IInv, NEW r \in Replica, Crash(r) PROVE IInv'
<1> DEFINE dead == {c \in Call : pc[c] \in Running /\ req[c].rep = r}
           left == {c \in dead : task[c] \in Submitted}
<1>1. /\ \A d \in Call \ dead : pc'[d] = pc[d] /\ req'[d] = req[d] /\ task'[d] = task[d]
      /\ \A d \in dead \ left : pc'[d] = "idle" /\ req'[d] = NoReq /\ task'[d] = "none"
      /\ \A d \in left : pc'[d] = "orphan" /\ req'[d] = req[d] /\ task'[d] = task[d]
      /\ holder' = [holder EXCEPT ![r] = [m \in Mutex |-> NoCall]]
      /\ open' = open \ dead
      /\ UNCHANGED <<disks, live, va, pv, suspect>>
  BY DEF Crash, IInv, TypeOK
<1>2. TypeOK'
  BY <1>1 DEF Crash, IInv, TypeOK
<1>3. ASSUME NEW d \in Call PROVE CallOK(d)'
  <2>1. CASE d \notin dead
    BY <1>1, <2>1 DEF IInv, CallOK
  <2>2. CASE d \in left
    <3>1. pc[d] \in Running /\ task[d] \in Submitted
      BY <2>2
    <3> QED BY <1>1, <2>2, <3>1 DEF IInv, CallOK, Running
  <2>3. CASE d \in dead \ left
    BY <1>1, <2>3 DEF IInv, CallOK
  <2> QED BY <2>1, <2>2, <2>3
<1>4. ASSUME NEW d \in Call PROVE LockOK(d)'
  <2> SUFFICES ASSUME UsesLock(d)', pc'[d] \in Critical
               PROVE  holder'[req'[d].rep][HashKey[req'[d].node]] = d
    BY DEF LockOK
  <2>1. d \notin dead /\ pc[d] \in Critical /\ req'[d] = req[d]
    BY <1>1 DEF Critical
  <2>2. req[d].rep \in Replica /\ req[d].rep # r
    BY <2>1, BusyCall DEF Critical, Running
  <2>3. holder[req[d].rep][HashKey[req[d].node]] = d
    BY <2>1 DEF IInv, LockOK, UsesLock
  <2> QED BY <1>1, <2>1, <2>2, <2>3 DEF IInv, TypeOK
<1>5. ASSUME NEW d \in Call PROVE OpenOK(d)'
  <2>1. \A e \in open' : e \in Call /\ e \in open /\ req'[e] = req[e]
    BY <1>1 DEF IInv, TypeOK
  <2> QED BY <1>1, <2>1 DEF IInv, OpenOK
<1>6. ASSUME NEW d \in Call PROVE CalmOK(d)'
  <2> SUFFICES ASSUME Working(d)' PROVE CalmOK(d)'
    BY DEF CalmOK
  <2>1. \A e \in Call : Working(e)' => Working(e) /\ req'[e] = req[e] /\ task'[e] = task[e]
    <3> SUFFICES ASSUME NEW e \in Call, Working(e)'
                 PROVE  Working(e) /\ req'[e] = req[e] /\ task'[e] = task[e]
      OBVIOUS
    <3>1. CASE e \in left
      <4>1. task[e] \in Submitted /\ pc[e] \in Running
        BY <3>1
      <4> QED BY <1>1, <3>1, <4>1 DEF Working, IInv, CallOK, Running, Submitted
    <3>2. CASE e \notin left
      BY <1>1, <3>2 DEF Working
    <3> QED BY <3>1, <3>2
  <2>2. Working(d) /\ req'[d] = req[d] /\ task'[d] = task[d] /\ CalmOK(d)
    BY <2>1 DEF IInv
  <2>3. Unopposed(d, suspect)'
    BY <1>1, <2>1, <2>2, StillUnopposed DEF CalmOK
  <2> QED BY <1>1, <2>2, <2>3 DEF CalmOK, Ready
<1>7. DeleteDone'
  BY <1>1 DEF IInv, DeleteDone, Submitted, Running
<1>8. OneNode' /\ AttachedIsAttached' /\ DetachedIsDetached' /\ DeleteSparesAttached' /\ GoneIsGone'
  BY <1>1 DEF IInv, OneNode, AttachedIsAttached, DetachedIsDetached, DeleteSparesAttached, GoneIsGone
<1> QED BY <1>2, <1>3, <1>4, <1>5, <1>6, <1>7, <1>8 DEF IInv

\* A client that gives up.
LEMMA GiveUpInv ==
    ASSUME IInv, NEW c \in Call, GiveUp(c) PROVE IInv'
<1>1. UNCHANGED <<pc, req, holder, task, disks, live, va, pv, suspect>> /\ open' = open \ {c}
  BY DEF GiveUp, driver, tower
<1>2. TypeOK'
  BY <1>1 DEF IInv, TypeOK
<1>3. ASSUME NEW d \in Call PROVE CallOK(d)' /\ LockOK(d)' /\ OpenOK(d)'
  BY <1>1 DEF IInv, CallOK, LockOK, OpenOK, UsesLock
<1>4. ASSUME NEW d \in Call PROVE CalmOK(d)'
  BY <1>1 DEF IInv, CalmOK, Working, Unopposed, Ready
<1>5. /\ DeleteDone' /\ OneNode' /\ AttachedIsAttached' /\ DetachedIsDetached'
      /\ DeleteSparesAttached' /\ GoneIsGone'
  BY <1>1 DEF IInv, DeleteDone, OneNode, AttachedIsAttached, DetachedIsDetached,
     DeleteSparesAttached, GoneIsGone
<1> QED BY <1>2, <1>3, <1>4, <1>5 DEF IInv

\* The CO starts a call.  Its record of the pair becomes `belief', that of the
\* volume `phase'.
LEMMA StartInv ==
    ASSUME IInv, NEW c \in Call, NEW op \in {"publish", "unpublish", "delete"},
           NEW v \in Volume, NEW n \in Node \cup {NoNode}, NEW r \in Replica,
           NEW label \in {"check", "lock", "read"}, Start(c, op, v, n, r, label),
           n = NoNode <=> op = "delete", label = "read" <=> op = "delete",
           ~Busy(v, n), op = "delete" => pv'[v] # "bound",
           \A w \in Volume : pv[w] # "bound" => pv'[w] # "bound",
           \A w \in Volume : pv'[w] = "gone" => pv[w] = "gone",
           pv' \in [Volume -> {"bound", "deleting", "gone"}],
           va' \in [Volume -> [Node -> {"detached", "attaching", "attached", "detaching"}]],
           \A w \in Volume, m \in Node : va'[w][m] = va[w][m] \/ (w = v /\ m = n),
           op = "publish" => va'[v][n] = "attaching",
           op = "unpublish" => va'[v][n] = "detaching",
           OneNode'
    PROVE  IInv'
<1>1. /\ \A d \in Call \ {c} : pc'[d] = pc[d] /\ req'[d] = req[d]
      /\ pc'[c] = label /\ pc[c] = "idle"
      /\ req'[c] = [op |-> op, vol |-> v, node |-> n, rep |-> r]
      /\ open' = open \cup {c}
      /\ UNCHANGED <<holder, task, disks, live, suspect>>
  BY DEF Start, tower, IInv, TypeOK
<1>2. TypeOK'
  <2>1. pc' \in [Call -> Running \cup {"idle", "orphan"}]
    BY DEF Start, Running, IInv, TypeOK
  <2>2. req' \in [Call -> Request \cup {NoReq}]
    BY DEF Start, Request, IInv, TypeOK
  <2> QED BY <1>1, <2>1, <2>2 DEF IInv, TypeOK
<1>3. ASSUME NEW d \in Call PROVE CallOK(d)'
  <2>1. CASE d = c
    <3>1. req'[c] \in Request
      BY <1>1 DEF Request
    <3> QED BY <1>1, <2>1, <3>1, NoReqAssumption DEF IInv, CallOK, Running
  <2>2. CASE d # c
    <3>1. pc[d] # "idle" => req[d].vol \in Volume
      BY BusyCall
    <3> QED BY <1>1, <2>2, <3>1 DEF IInv, CallOK
  <2> QED BY <2>1, <2>2
<1>4. ASSUME NEW d \in Call PROVE LockOK(d)'
  <2>1. CASE d = c
    BY <1>1, <2>1 DEF LockOK, UsesLock, Critical
  <2>2. CASE d # c
    BY <1>1, <2>2 DEF IInv, LockOK, UsesLock
  <2> QED BY <2>1, <2>2
<1>5. ASSUME NEW d \in Call PROVE OpenOK(d)'
  <2> SUFFICES ASSUME d \in open' PROVE OpenOK(d)'
    BY DEF OpenOK
  <2>1. \A e \in open : /\ e \in Call /\ e # c /\ req'[e] = req[e]
                        /\ ~(req[e].vol = v /\ req[e].node = n)
    BY <1>1 DEF IInv, TypeOK, CallOK, Running, Busy
  <2>2. \A e \in open : /\ req[e].vol \in Volume
                        /\ req[e].op # "delete" => req[e].node \in Node
    BY <2>1, BusyCall DEF IInv, CallOK, Running
  <2>3. CASE d = c
    <3>1. req'[c].op = op /\ req'[c].vol = v /\ req'[c].node = n
      BY <1>1
    <3>2. \A e \in open' : req'[e].vol = v /\ req'[e].node = n => e = c
      BY <1>1, <2>1
    <3> QED BY <2>3, <3>1, <3>2 DEF OpenOK
  <2>4. CASE d # c
    <3>1. /\ d \in open /\ req'[d] = req[d] /\ OpenOK(d) /\ ~(req[d].vol = v /\ req[d].node = n)
      BY <1>1, <2>1, <2>4 DEF IInv
    <3>2. req[d].op # "delete" => va'[req[d].vol][req[d].node] = va[req[d].vol][req[d].node]
      BY <2>2, <3>1
    <3>3. \A e \in open' : req'[e].vol = req[d].vol /\ req'[e].node = req[d].node => e = d
      BY <1>1, <2>1, <3>1 DEF OpenOK
    <3> QED BY <3>1, <3>2, <3>3 DEF OpenOK
  <2> QED BY <2>3, <2>4
<1>6. DeleteDone'
  BY <1>1 DEF IInv, DeleteDone, CallOK
<1>7. AttachedIsAttached' /\ DetachedIsDetached'
  <2>1. \A w \in Volume, m \in Node :
           va'[w][m] = va[w][m] \/ va'[w][m] \in {"attaching", "detaching"}
    BY AttachAssumption
  <2> QED BY <1>1, <2>1 DEF IInv, AttachedIsAttached, DetachedIsDetached
<1>8. DeleteSparesAttached' /\ GoneIsGone'
  BY <1>1 DEF IInv, TypeOK, DeleteSparesAttached, GoneIsGone
<1>9. ASSUME NEW d \in Call PROVE CalmOK(d)'
  <2> SUFFICES ASSUME Working(d)' PROVE CalmOK(d)'
    BY DEF CalmOK
  <2>1. \A e \in Call : Working(e)' => e # c /\ Working(e) /\ req'[e] = req[e]
    BY <1>1 DEF Working
  <2>2. d # c /\ Working(d) /\ req'[d] = req[d] /\ CalmOK(d) /\ task'[d] = task[d]
    BY <1>1, <2>1 DEF IInv
  <2>3. Unopposed(d, suspect)'
    BY <1>1, <2>1, <2>2, StillUnopposed DEF CalmOK
  <2>4. req[d].vol \in Volume /\ (req[d].op # "delete" => req[d].node \in Node)
    BY <2>2, BusyCall DEF Working
  <2>5. Ready(d, suspect)'
    BY <1>1, <2>2, <2>4, AttachAssumption DEF CalmOK, Ready
  <2> QED BY <1>1, <2>2, <2>3, <2>5 DEF CalmOK
<1> QED BY <1>2, <1>3, <1>4, <1>5, <1>6, <1>7, <1>8, <1>9 DEF IInv

\* A new ControllerPublishVolume.
LEMMA StartPublishInv ==
    ASSUME IInv, NEW c \in Call, NEW v \in Volume, NEW n \in Node, NEW r \in Replica,
           StartPublish(c, v, n, r)
    PROVE  IInv'
<1>1. /\ Start(c, "publish", v, n, r, "check") /\ pv' = pv /\ ~Busy(v, n)
      /\ va' = [va EXCEPT ![v][n] = "attaching"]
      /\ v \in Sharing \/ \A m \in Node \ {n} : va[v][m] = "detached"
  BY DEF StartPublish
<1>2. /\ \A w \in Volume, m \in Node : va'[w][m] = va[w][m] \/ (w = v /\ m = n)
      /\ va'[v][n] = "attaching"
      /\ va' \in [Volume -> [Node -> {"detached", "attaching", "attached", "detaching"}]]
  BY <1>1 DEF IInv, TypeOK
<1>3. OneNode'
  BY <1>1, <1>2 DEF IInv, OneNode
<1>4. n # NoNode
  BY AttachAssumption
<1>5. pv' \in [Volume -> {"bound", "deleting", "gone"}]
  BY <1>1 DEF IInv, TypeOK
<1> QED
  BY <1>1, <1>2, <1>3, <1>4, <1>5, StartInv

\* A new ControllerUnpublishVolume.
LEMMA StartUnpublishInv ==
    ASSUME IInv, NEW c \in Call, NEW v \in Volume, NEW n \in Node, NEW r \in Replica,
           StartUnpublish(c, v, n, r)
    PROVE  IInv'
<1>1. /\ Start(c, "unpublish", v, n, r, "lock") /\ pv' = pv /\ ~Busy(v, n)
      /\ va' = [va EXCEPT ![v][n] = "detaching"] /\ va[v][n] # "detached"
  BY DEF StartUnpublish
<1>2. /\ \A w \in Volume, m \in Node : va'[w][m] = va[w][m] \/ (w = v /\ m = n)
      /\ va'[v][n] = "detaching"
      /\ va' \in [Volume -> [Node -> {"detached", "attaching", "attached", "detaching"}]]
  BY <1>1 DEF IInv, TypeOK
<1>3. OneNode'
  BY <1>1, <1>2 DEF IInv, OneNode
<1>4. n # NoNode
  BY AttachAssumption
<1>5. pv' \in [Volume -> {"bound", "deleting", "gone"}]
  BY <1>1 DEF IInv, TypeOK
<1> QED
  BY <1>1, <1>2, <1>3, <1>4, <1>5, StartInv

\* A new DeleteVolume.
LEMMA StartDeleteInv ==
    ASSUME IInv, NEW c \in Call, NEW v \in Volume, NEW r \in Replica, StartDelete(c, v, r)
    PROVE  IInv'
<1>1. /\ Start(c, "delete", v, NoNode, r, "read") /\ va' = va /\ ~Busy(v, NoNode)
      /\ pv' = [pv EXCEPT ![v] = "deleting"] /\ pv[v] # "gone"
  BY DEF StartDelete
<1>2. /\ pv' \in [Volume -> {"bound", "deleting", "gone"}] /\ pv'[v] = "deleting"
      /\ \A w \in Volume : pv'[w] = pv[w] \/ w = v
  BY <1>1 DEF IInv, TypeOK
<1>3. OneNode'
  BY <1>1 DEF IInv, OneNode
<1>4. va' \in [Volume -> [Node -> {"detached", "attaching", "attached", "detaching"}]]
  BY <1>1 DEF IInv, TypeOK
<1> QED
  BY <1>1, <1>2, <1>3, <1>4, StartInv

-----------------------------------------------------------------------------
(* Facts about single steps, for compositions. *)

\* A volume once suspect stays so.
LEMMA SuspectGrows == [Next]_vars => suspect \subseteq suspect'
<1> SUFFICES ASSUME [Next]_vars PROVE suspect \subseteq suspect'
  OBVIOUS
<1>1. ASSUME NEW c \in Call, Handler(c) PROVE suspect \subseteq suspect'
  BY <1>1 DEF Handler, Check, LockKey, PublishRead, UnpublishRead, DeleteRead, Submit,
     WaitTask, Look
<1>2. ASSUME NEW c \in Call, TaskExecute(c) \/ TaskSucceed(c) \/ TaskFail(c) \/ GiveUp(c)
      PROVE  suspect \subseteq suspect'
  BY <1>2 DEF TaskExecute, TaskSucceed, TaskFail, TaskEnd, GiveUp
<1>3. ASSUME NEW c \in Call, NEW v \in Volume, NEW n \in Node, NEW r \in Replica,
             StartDelete(c, v, r) \/ StartPublish(c, v, n, r) \/ StartUnpublish(c, v, n, r)
      PROVE  suspect \subseteq suspect'
  BY <1>3 DEF StartDelete, StartPublish, StartUnpublish, Start
<1>4. ASSUME NEW c \in Call, NEW v \in Volume, NEW r \in Replica, StartDelete(c, v, r)
      PROVE  suspect \subseteq suspect'
  BY <1>4 DEF StartDelete, Start
<1>5. ASSUME NEW r \in Replica, Crash(r) PROVE suspect \subseteq suspect'
  BY <1>5 DEF Crash
<1>6. CASE UNCHANGED vars
  BY <1>6 DEF vars
<1> QED BY <1>1, <1>2, <1>3, <1>4, <1>5, <1>6 DEF Next

\* A record "attached" is left by a new ControllerUnpublishVolume for that
\* volume and node, and by nothing else: not by an answer...
LEMMA AnswerKeepsAttached ==
    ASSUME IInv, NEW c \in Call, Handler(c), NEW v \in Volume, NEW n \in Node,
           va[v][n] = "attached"
    PROVE  va'[v][n] = "attached"
<1>1. CASE va' = va
  BY <1>1
<1>2. CASE va' # va
  <2>1. PICK ok \in BOOLEAN : Answer(c, ok) /\ pc[c] # "idle"
    BY <1>2 DEF Handler, Check, LockKey, PublishRead, UnpublishRead, DeleteRead, Submit,
       WaitTask, Return, Goto, co
  <2>2. /\ c \in open /\ req[c].op # "delete"
        /\ va' = [va EXCEPT ![req[c].vol][req[c].node] =
                     IF req[c].op = "publish" THEN "attached" ELSE "detached"]
    BY <1>2, <2>1 DEF Answer
  <2>3. /\ req[c].vol \in Volume /\ req[c].node \in Node
        /\ req[c].op \in {"publish", "unpublish"}
    BY <2>1, <2>2, BusyCall
  <2>4. req[c].op = "unpublish" => va[req[c].vol][req[c].node] = "detaching"
    BY <2>2 DEF IInv, OpenOK
  <2>5. va \in [Volume -> [Node -> {"detached", "attaching", "attached", "detaching"}]]
    BY DEF IInv, TypeOK
  <2> QED BY <2>2, <2>3, <2>4, <2>5
<1> QED BY <1>1, <1>2

\* ... nor by any other call or event.
LEMMA OthersKeepAttached ==
    ASSUME IInv, NEW v \in Volume, NEW n \in Node, va[v][n] = "attached",
           \/ \E c \in Call :
                 \/ TaskExecute(c) \/ TaskSucceed(c) \/ TaskFail(c) \/ GiveUp(c)
                 \/ \E w \in Volume, r \in Replica :
                       \/ StartDelete(c, w, r)
                       \/ \E m \in Node :
                             \/ StartPublish(c, w, m, r)
                             \/ StartUnpublish(c, w, m, r) /\ ~(w = v /\ m = n)
           \/ \E r \in Replica : Crash(r)
    PROVE  va'[v][n] = "attached"
<1>1. va \in [Volume -> [Node -> {"detached", "attaching", "attached", "detaching"}]]
  BY DEF IInv, TypeOK
<1>2. ASSUME NEW c \in Call, NEW w \in Volume, NEW r \in Replica, NEW m \in Node,
             \/ StartPublish(c, w, m, r)
             \/ StartUnpublish(c, w, m, r) /\ ~(w = v /\ m = n)
      PROVE  va'[v][n] = "attached"
  BY <1>1, <1>2 DEF StartPublish, StartUnpublish
<1>3. ASSUME NEW c \in Call, TaskExecute(c) \/ TaskSucceed(c) \/ TaskFail(c) \/ GiveUp(c)
      PROVE  va' = va
  BY <1>3 DEF TaskExecute, TaskSucceed, TaskFail, TaskEnd, GiveUp, co
<1>4. ASSUME NEW c \in Call, NEW w \in Volume, NEW r \in Replica, StartDelete(c, w, r)
      PROVE  va' = va
  BY <1>4 DEF StartDelete
<1>5. ASSUME NEW r \in Replica, Crash(r) PROVE va' = va
  BY <1>5 DEF Crash
<1> QED BY <1>2, <1>3, <1>4, <1>5

-----------------------------------------------------------------------------
(* The refinement of Attachments. *)

\* What a step has to do to each volume that is vouched for.
Kept(v) == Promise!Becomes(v, va[v], pv[v], disks[v], v \in live)

StepMaps == \A v \in Volume \ suspect' : Promise!Step(v) \/ Kept(v)

\* A step that leaves records, disks and volumes alone is a stutter.
LEMMA QuietMaps ==
    ASSUME UNCHANGED <<va, pv, disks, live>> PROVE StepMaps
BY DEF StepMaps, Kept, Promise!Becomes

\* Which record an answer changes, and how.
LEMMA AnswerEffect ==
    ASSUME IInv, NEW c \in Call, pc[c] # "idle", NEW ok \in BOOLEAN, Answer(c, ok)
    PROVE  LET v == req[c].vol  n == req[c].node IN
           /\ \A w \in Volume \ {v} : va'[w] = va[w] /\ pv'[w] = pv[w]
           /\ \/ va' = va /\ pv' = pv
              \/ /\ req[c].op = "publish" /\ va[v][n] = "attaching" /\ pv' = pv
                 /\ va'[v] = Promise!Told(v, n, "attached")
              \/ /\ req[c].op = "unpublish" /\ va[v][n] = "detaching" /\ pv' = pv
                 /\ va'[v] = Promise!Told(v, n, "detached")
              \/ req[c].op = "delete" /\ va' = va /\ pv'[v] = "gone"
<1> DEFINE v == req[c].vol
           n == req[c].node
<1>1. /\ v \in Volume /\ req[c].op \in {"publish", "unpublish", "delete"}
      /\ req[c].op # "delete" => n \in Node
  BY BusyCall
<1>2. CASE ~(ok /\ c \in open)
  BY <1>2 DEF Answer
<1>3. CASE ok /\ c \in open /\ req[c].op = "delete"
  BY <1>1, <1>3 DEF Answer, IInv, TypeOK
<1>4. CASE ok /\ c \in open /\ req[c].op = "publish"
  <2>1. va' = [va EXCEPT ![v][n] = "attached"] /\ pv' = pv
    BY <1>4 DEF Answer
  <2>2. va[v][n] = "attaching"
    BY <1>4 DEF IInv, OpenOK
  <2>3. va'[v] = [va[v] EXCEPT ![n] = "attached"] /\ \A w \in Volume \ {v} : va'[w] = va[w]
    BY <1>1, <2>1 DEF IInv, TypeOK
  <2> QED BY <1>4, <2>1, <2>2, <2>3 DEF Promise!Told
<1>5. CASE ok /\ c \in open /\ req[c].op = "unpublish"
  <2>1. va' = [va EXCEPT ![v][n] = "detached"] /\ pv' = pv
    BY <1>5 DEF Answer
  <2>2. va[v][n] = "detaching"
    BY <1>5 DEF IInv, OpenOK
  <2>3. va'[v] = [va[v] EXCEPT ![n] = "detached"] /\ \A w \in Volume \ {v} : va'[w] = va[w]
    BY <1>1, <2>1 DEF IInv, TypeOK
  <2> QED BY <1>5, <2>1, <2>2, <2>3 DEF Promise!Told
<1> QED BY <1>1, <1>2, <1>3, <1>4, <1>5

\* An answer without a change at CloudTower is Attached, Detached or Gone:
\* that it is true is what the invariant says of the state after it.
LEMMA AnswerMaps ==
    ASSUME IInv, IInv', suspect \subseteq suspect', NEW c \in Call, pc[c] # "idle",
           NEW ok \in BOOLEAN, Answer(c, ok), UNCHANGED <<disks, live>>
    PROVE  StepMaps
<1> DEFINE v == req[c].vol
           n == req[c].node
<1>1. /\ v \in Volume /\ req[c].op \in {"publish", "unpublish", "delete"}
      /\ req[c].op # "delete" => n \in Node
  BY BusyCall
<1>2. \A w \in Volume \ {v} : Kept(w)
  BY AnswerEffect DEF Kept, Promise!Becomes
<1>3. ASSUME v \notin suspect' PROVE Promise!Step(v) \/ Kept(v)
  <2>1. CASE va' = va /\ pv' = pv
    BY <2>1 DEF Kept, Promise!Becomes
  <2>2. CASE /\ req[c].op = "publish" /\ va[v][n] = "attaching" /\ pv' = pv
             /\ va'[v] = Promise!Told(v, n, "attached")
    <3>1. va'[v][n] = "attached"
      BY <1>1, <2>2 DEF Promise!Told, IInv, TypeOK
    <3>2. v \in Sharing \/ n \in disks[v]
      BY <1>1, <1>3, <2>2, <3>1 DEF IInv, AttachedIsAttached
    <3>3. Promise!Attached(v, n)
      BY <2>2, <3>2 DEF Promise!Attached, Promise!Becomes
    <3> QED BY <1>1, <2>2, <3>3 DEF Promise!Step
  <2>3. CASE /\ req[c].op = "unpublish" /\ va[v][n] = "detaching" /\ pv' = pv
             /\ va'[v] = Promise!Told(v, n, "detached")
    <3>1. va'[v][n] = "detached"
      BY <1>1, <2>3 DEF Promise!Told, IInv, TypeOK
    <3>2. n \notin disks[v]
      BY <1>1, <1>3, <2>3, <3>1 DEF IInv, DetachedIsDetached
    <3>3. Promise!Detached(v, n)
      BY <2>3, <3>2 DEF Promise!Detached, Promise!Becomes
    <3> QED BY <1>1, <2>3, <3>3 DEF Promise!Step
  <2>4. CASE req[c].op = "delete" /\ va' = va /\ pv'[v] = "gone"
    <3>1. v \notin live
      BY <1>1, <2>4 DEF IInv, GoneIsGone
    <3>2. pv[v] \in {"deleting", "gone"}
      BY <1>1, <2>4 DEF IInv, TypeOK, CallOK
    <3>3. CASE pv[v] = "gone"
      BY <2>4, <3>3 DEF Kept, Promise!Becomes
    <3>4. CASE pv[v] = "deleting"
      <4>1. Promise!Gone(v)
        BY <2>4, <3>1, <3>4 DEF Promise!Gone, Promise!Becomes
      <4> QED BY <4>1 DEF Promise!Step
    <3> QED BY <3>2, <3>3, <3>4
  <2> QED BY <2>1, <2>2, <2>3, <2>4, AnswerEffect
<1> QED BY <1>2, <1>3 DEF StepMaps

\* What CloudTower does for a call is Plug, Unplug or Destroy, whether the
\* answer comes with it or later: a task that is still around is still wanted.
LEMMA ApplyMaps ==
    ASSUME IInv, suspect \subseteq suspect', NEW c \in Call, Apply(c),
           Working(c),
           (va' = va /\ pv' = pv) \/ Answer(c, TRUE)
    PROVE  StepMaps
<1> DEFINE v == req[c].vol
           n == req[c].node
<1>1. /\ v \in Volume /\ req[c].op \in {"publish", "unpublish", "delete"}
      /\ req[c].op # "delete" => n \in Node
      /\ pc[c] # "idle"
  BY BusyCall DEF Working
<1>2. /\ \A w \in Volume \ {v} : va'[w] = va[w] /\ pv'[w] = pv[w]
      /\ \/ va' = va /\ pv' = pv
         \/ /\ req[c].op = "publish" /\ va[v][n] = "attaching" /\ pv' = pv
            /\ va'[v] = Promise!Told(v, n, "attached")
         \/ /\ req[c].op = "unpublish" /\ va[v][n] = "detaching" /\ pv' = pv
            /\ va'[v] = Promise!Told(v, n, "detached")
         \/ req[c].op = "delete" /\ va' = va /\ pv'[v] = "gone"
  BY <1>1, AnswerEffect
<1>3. ASSUME NEW w \in Volume \ {v} PROVE Kept(w)
  <2>1. disks'[w] = disks[w] /\ (w \in live' <=> w \in live)
    BY <1>1 DEF Apply, IInv, TypeOK
  <2> QED BY <1>2, <2>1 DEF Kept, Promise!Becomes
<1>4. va[v] = Promise!Told(v, n, va[v][n])
  BY <1>1 DEF Promise!Told, IInv, TypeOK
<1>5. ASSUME v \notin suspect' PROVE Promise!Step(v)
  <2>0. v \notin suspect
    BY <1>5
  <2>1. CASE req[c].op = "publish"
    <3>1. /\ v \in live /\ n \notin disks[v] /\ (v \in Sharing \/ disks[v] = {})
          /\ disks'[v] = disks[v] \cup {n} /\ live' = live
      BY <1>1, <2>1 DEF Apply, IInv, TypeOK
    <3>2. va[v][n] # "detached"
      BY <1>1, <2>0, <2>1 DEF IInv, CalmOK, Ready
    <3>3. /\ pv' = pv
          /\ \E s \in {va[v][n]} \cup {t \in {"attached"} : va[v][n] = "attaching"} :
                va'[v] = Promise!Told(v, n, s)
      BY <1>2, <1>4, <2>1
    <3>4. Promise!Plug(v, n)
      BY <3>1, <3>2, <3>3 DEF Promise!Plug, Promise!Becomes
    <3> QED BY <1>1, <2>1, <3>4 DEF Promise!Step
  <2>2. CASE req[c].op = "unpublish"
    <3>1. n \in disks[v] /\ disks'[v] = disks[v] \ {n} /\ live' = live
      BY <1>1, <2>2 DEF Apply, IInv, TypeOK
    <3>2. va[v][n] \in {"attaching", "detaching"}
      BY <1>1, <2>0, <2>2, <3>1 DEF IInv, TypeOK, CalmOK, Ready, DetachedIsDetached
    <3>3. /\ pv' = pv
          /\ \E s \in {va[v][n]} \cup {t \in {"detached"} : va[v][n] = "detaching"} :
                va'[v] = Promise!Told(v, n, s)
      BY <1>2, <1>4, <2>2, <3>2
    <3>4. Promise!Unplug(v, n)
      BY <3>1, <3>2, <3>3 DEF Promise!Unplug, Promise!Becomes
    <3> QED BY <1>1, <2>2, <3>4 DEF Promise!Step
  <2>3. CASE req[c].op = "delete"
    <3>1. v \in live /\ disks' = disks /\ v \notin live'
      BY <2>3 DEF Apply
    <3>2. disks[v] = {}
      BY <1>1, <2>0, <2>3 DEF IInv, CalmOK, Ready
    <3>3. pv[v] = "deleting"
      BY <1>1, <2>3, <3>1 DEF IInv, TypeOK, CallOK, GoneIsGone
    <3>4. va' = va /\ pv'[v] \in {"deleting", "gone"}
      BY <1>2, <2>3, <3>3
    <3>5. Promise!Destroy(v)
      BY <3>1, <3>2, <3>3, <3>4 DEF Promise!Destroy, Promise!Becomes
    <3> QED BY <3>5 DEF Promise!Step
  <2> QED BY <1>1, <2>1, <2>2, <2>3
<1> QED BY <1>3, <1>5 DEF StepMaps

\* The steps of the handlers.
LEMMA HandlerMaps ==
    ASSUME IInv, IInv', suspect \subseteq suspect', NEW c \in Call, Handler(c)
    PROVE  StepMaps
<1>1. pc[c] # "idle"
  BY DEF Handler, Check, LockKey, PublishRead, UnpublishRead, DeleteRead, Submit, WaitTask
<1>2. ASSUME NEW ok \in BOOLEAN, NEW s, Return(c, ok, s), UNCHANGED <<disks, live>>
      PROVE  StepMaps
  BY <1>1, <1>2, AnswerMaps DEF Return
<1>3. ASSUME NEW label, Goto(c, label), UNCHANGED <<disks, live>> PROVE StepMaps
  BY <1>3, QuietMaps DEF Goto, co
<1>4. CASE Check(c)
  BY <1>2, <1>3, <1>4 DEF Check
<1>5. CASE LockKey(c)
  BY <1>3, <1>5 DEF LockKey, tower
<1>6. CASE PublishRead(c) \/ UnpublishRead(c) \/ DeleteRead(c)
  BY <1>2, <1>3, <1>6 DEF PublishRead, UnpublishRead, DeleteRead
<1>7. CASE Submit(c)
  <2>1. CASE Return(c, TRUE, "none") /\ Apply(c)
    BY <1>7, <2>1, ApplyMaps DEF Submit, Return, Working
  <2>2. CASE ~(Return(c, TRUE, "none") /\ Apply(c))
    BY <1>2, <1>3, <1>7, <2>2 DEF Submit
  <2> QED BY <2>1, <2>2
<1>8. CASE WaitTask(c)
  BY <1>2, <1>8 DEF WaitTask
<1> QED BY <1>4, <1>5, <1>6, <1>7, <1>8 DEF Handler

\* The requests of the CO.
LEMMA StartMaps ==
    ASSUME IInv, NEW c \in Call, NEW v \in Volume, NEW r \in Replica,
           \/ StartDelete(c, v, r)
           \/ \E n \in Node : StartPublish(c, v, n, r) \/ StartUnpublish(c, v, n, r)
    PROVE  StepMaps
<1>1. CASE StartDelete(c, v, r)
  <2>1. /\ va' = va /\ disks' = disks /\ live' = live /\ pv'[v] = "deleting"
        /\ \A w \in Volume \ {v} : pv'[w] = pv[w]
    BY <1>1 DEF StartDelete, Start, tower, IInv, TypeOK
  <2>2. Promise!AskDelete(v)
    BY <1>1, <2>1 DEF StartDelete, Promise!AskDelete, Promise!Becomes
  <2>3. \A w \in Volume \ {v} : Kept(w)
    BY <2>1 DEF Kept, Promise!Becomes
  <2> QED BY <2>2, <2>3 DEF StepMaps, Promise!Step
<1>2. ASSUME NEW n \in Node, StartPublish(c, v, n, r) PROVE StepMaps
  <2>1. /\ pv' = pv /\ disks' = disks /\ live' = live
        /\ va'[v] = [va[v] EXCEPT ![n] = "attaching"]
        /\ \A w \in Volume \ {v} : va'[w] = va[w]
    BY <1>2 DEF StartPublish, Start, tower, IInv, TypeOK
  <2>2. Promise!AskAttach(v, n)
    BY <1>2, <2>1 DEF StartPublish, Promise!AskAttach, Promise!Becomes, Promise!Told
  <2>3. \A w \in Volume \ {v} : Kept(w)
    BY <2>1 DEF Kept, Promise!Becomes
  <2> QED BY <2>2, <2>3 DEF StepMaps, Promise!Step
<1>3. ASSUME NEW n \in Node, StartUnpublish(c, v, n, r) PROVE StepMaps
  <2>1. /\ pv' = pv /\ disks' = disks /\ live' = live
        /\ va'[v] = [va[v] EXCEPT ![n] = "detaching"]
        /\ \A w \in Volume \ {v} : va'[w] = va[w]
    BY <1>3 DEF StartUnpublish, Start, tower, IInv, TypeOK
  <2>2. Promise!AskDetach(v, n)
    BY <1>3, <2>1 DEF StartUnpublish, Promise!AskDetach, Promise!Becomes, Promise!Told
  <2>3. \A w \in Volume \ {v} : Kept(w)
    BY <2>1 DEF Kept, Promise!Becomes
  <2> QED BY <2>2, <2>3 DEF StepMaps, Promise!Step
<1> QED BY <1>1, <1>2, <1>3

\* Every step is one of Attachments, or none.
LEMMA StepRefines == IInv /\ IInv' /\ [Next]_vars => [Promise!AttNext]_(Promise!attVars)
<1> SUFFICES ASSUME IInv, IInv', [Next]_vars PROVE [Promise!AttNext]_(Promise!attVars)
  OBVIOUS
<1>1. suspect \subseteq suspect'
  BY SuspectGrows
<1>2. CASE UNCHANGED vars
  BY <1>2 DEF vars, tower, co, Promise!attVars
<1>3. CASE Next
  <2>1. ASSUME NEW c \in Call, Handler(c) PROVE StepMaps
    BY <1>1, <2>1, HandlerMaps
  <2>2. ASSUME NEW c \in Call, TaskExecute(c) \/ TaskFail(c) \/ GiveUp(c) PROVE StepMaps
    BY <2>2, QuietMaps DEF TaskExecute, TaskFail, TaskEnd, GiveUp, co, tower
  <2>3. ASSUME NEW c \in Call, TaskSucceed(c) PROVE StepMaps
    <3>1. Working(c) /\ Apply(c) /\ va' = va /\ pv' = pv
      BY <2>3 DEF TaskSucceed, TaskEnd, Working, co, IInv, CallOK
    <3> QED BY <1>1, <3>1, ApplyMaps
  <2>4. ASSUME NEW c \in Call, NEW v \in Volume, NEW r \in Replica,
               \/ StartDelete(c, v, r)
               \/ \E n \in Node : StartPublish(c, v, n, r) \/ StartUnpublish(c, v, n, r)
        PROVE  StepMaps
    BY <2>4, StartMaps
  <2>5. ASSUME NEW r \in Replica, Crash(r) PROVE StepMaps
    BY <2>5, QuietMaps DEF Crash
  <2>6. StepMaps
    BY <1>3, <2>1, <2>2, <2>3, <2>4, <2>5 DEF Next
  <2> QED BY <1>1, <2>6 DEF StepMaps, Kept, Promise!AttNext
<1> QED BY <1>2, <1>3

-----------------------------------------------------------------------------
(* The theorems. *)

\* The initial states satisfy the invariant.
LEMMA InitInv == Init => IInv
<1> SUFFICES ASSUME Init PROVE IInv
  OBVIOUS
<1>1. TypeOK
  BY DEF Init, TypeOK
<1>2. \A c \in Call : CallOK(c) /\ LockOK(c) /\ OpenOK(c) /\ CalmOK(c)
  BY DEF Init, CallOK, LockOK, OpenOK, CalmOK, Working, UsesLock, Critical
<1>3. DeleteDone /\ OneNode /\ AttachedIsAttached /\ DetachedIsDetached
  BY DEF Init, DeleteDone, OneNode, AttachedIsAttached, DetachedIsDetached
<1>4. DeleteSparesAttached /\ GoneIsGone
  BY DEF Init, DeleteSparesAttached, GoneIsGone
<1> QED BY <1>1, <1>2, <1>3, <1>4 DEF IInv

\* Every step keeps it.
LEMMA NextInv == IInv /\ [Next]_vars => IInv'
<1> SUFFICES ASSUME IInv, [Next]_vars PROVE IInv'
  OBVIOUS
<1>1. ASSUME NEW c \in Call, Handler(c) PROVE IInv'
  BY <1>1, HandlerInv
<1>2. ASSUME NEW c \in Call, TaskExecute(c) \/ TaskSucceed(c) \/ TaskFail(c) PROVE IInv'
  BY <1>2, TowerInv
<1>3. ASSUME NEW c \in Call, GiveUp(c) PROVE IInv'
  BY <1>3, GiveUpInv
<1>4. ASSUME NEW c \in Call, NEW v \in Volume, NEW r \in Replica, StartDelete(c, v, r)
      PROVE  IInv'
  BY <1>4, StartDeleteInv
<1>5. ASSUME NEW c \in Call, NEW v \in Volume, NEW r \in Replica, NEW n \in Node,
             StartPublish(c, v, n, r) \/ StartUnpublish(c, v, n, r)
      PROVE  IInv'
  BY <1>5, StartPublishInv, StartUnpublishInv
<1>6. ASSUME NEW r \in Replica, Crash(r) PROVE IInv'
  BY <1>6, CrashInv
<1>7. CASE UNCHANGED vars
  <2>1. UNCHANGED <<pc, req, open, holder, task, disks, live, va, pv, suspect>>
    BY <1>7 DEF vars, driver, tower, co
  <2>2. TypeOK'
    BY <2>1 DEF IInv, TypeOK
  <2>3. \A c \in Call : CallOK(c)' /\ LockOK(c)' /\ OpenOK(c)' /\ CalmOK(c)'
    BY <2>1 DEF IInv, CallOK, LockOK, OpenOK, CalmOK, Working, Unopposed, Ready, UsesLock
  <2>4. /\ DeleteDone' /\ OneNode' /\ AttachedIsAttached' /\ DetachedIsDetached'
        /\ DeleteSparesAttached' /\ GoneIsGone'
    BY <2>1 DEF IInv, DeleteDone, OneNode, AttachedIsAttached, DetachedIsDetached,
       DeleteSparesAttached, GoneIsGone
  <2> QED BY <2>2, <2>3, <2>4 DEF IInv
<1> QED BY <1>1, <1>2, <1>3, <1>4, <1>5, <1>6, <1>7 DEF Next

\* The inductive invariant: see IInv for its parts.
THEOREM Invariance == Spec => []IInv
  BY InitInv, NextInv, PTL DEF Spec

\* The state of the driver, of CloudTower and of the CO stays well formed.
THEOREM TypeCorrect == Spec => []TypeOK
<1>1. IInv => TypeOK
  BY DEF IInv
<1> QED BY <1>1, Invariance, PTL

\* keyMutex excludes two updates of one VM within a replica, for any number of
\* nodes, calls, mutexes and whatever the hash.
THEOREM LockExcludes == Spec => []OneUpdatePerVM
<1>1. IInv => OneUpdatePerVM
  BY DEF IInv, LockOK, OneUpdatePerVM
<1> QED BY <1>1, Invariance, PTL

\* What the CO was told by ControllerPublishVolume is true of CloudTower's
\* disks, for a volume whose calls did not interfere (Look).
THEOREM PublishIsTrue == Spec => []AttachedIsAttached
<1>1. IInv => AttachedIsAttached
  BY DEF IInv
<1> QED BY <1>1, Invariance, PTL

\* So is, and stays, what it was told by ControllerUnpublishVolume, although
\* late publishes run on: on the same replica the mutex has made the unpublish
\* wait for them; those it does not order are excepted (Look).
THEOREM UnpublishIsTrue == Spec => []DetachedIsDetached
<1>1. IInv => DetachedIsDetached
  BY DEF IInv
<1> QED BY <1>1, Invariance, PTL

\* DeleteVolume deletes no attached volume, and none that is deleted becomes
\* attached, unless a publish and a delete had both passed their checks before
\* either took effect (Look).
THEOREM DeleteIsSafe == Spec => []DeleteSparesAttached
<1>1. IInv => DeleteSparesAttached
  BY DEF IInv
<1> QED BY <1>1, Invariance, PTL

\* DeleteVolume reports no volume deleted that still exists.
THEOREM DeleteIsTrue == Spec => []GoneIsGone
<1>1. IInv => GoneIsGone
  BY DEF IInv
<1> QED BY <1>1, Invariance, PTL

\* The controller service, with any number of replicas, calls, volumes and
\* nodes, does nothing to a volume that Attachments does not allow, as long as
\* the volume's calls did not interfere (Look).
THEOREM Refinement == Spec => ImplementsAttachments
<1>1. Init => Promise!AttInit
  BY DEF Init, Promise!AttInit
<1>2. IInv /\ IInv' /\ [Next]_vars => [Promise!AttNext]_(Promise!attVars)
  BY StepRefines
<1> QED BY <1>1, <1>2, InitInv, NextInv, PTL DEF Spec, ImplementsAttachments, Promise!AttSpec
=============================================================================
