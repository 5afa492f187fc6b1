-------------------------- MODULE ProvisionProofs ---------------------------
(***************************************************************************)
(* Proofs about making and removing volumes, for any number of claims,     *)
(* volumes, labels, calls and faults, any unit and any width of integers.  *)
(***************************************************************************)
EXTENDS Provision, TLAPS

(* The inductive invariant behind the properties of bound and deleted claims. *)

Before == {"idle", "args", "find", "create"}

\* A handler that has a volume has one of its claim's name, which has kept the
\* labels that were read.
PlaceOK(c) ==
    /\ op[c] = None <=> pc[c] = "idle"
    /\ pc[c] \in Before => at[c] = None /\ seen[c] = {}
    /\ pc[c] \notin Before => at[c] \in Vol /\ Named(at[c], op[c]) /\ seen[c] \subseteq vol[at[c]].labels
    /\ pc[c] \in {"add", "added"} => label[c] \in labels
    /\ c \in open => /\ pc[c] \in Creating => claim[op[c]] = "creating"
                     /\ pc[c] \in Deleting => claim[op[c]] = "deleting"
                     /\ pc[c] # "idle"
                     /\ \A d \in open : op[d] = op[c] => d = c

\* A volume is what was asked for under its name.
VolOK(i) ==
    \A a \in Claim : Named(i, a) => /\ vol[i].size = Size(a) /\ Size(a) > 0
                                    /\ vol[i].sharing = checkNeedSharing(ask[a].modes)

Recorded == {"bound", "deleting", "gone"}

ClaimOK(a) ==
    claim[a] \in Recorded => /\ rec[a] \in Vol /\ Named(rec[a], a)
                             /\ vol[rec[a]].labels \cap labels # {}

\* A claim whose creations did not overlap: its creation runs alone, from a
\* look-up that finds every volume of the name, and only its deletions touch
\* the volume afterwards.
CreatesAlone(c, a) ==
    /\ claim[a] = "creating" /\ \A d \in Call : op[d] = a => d = c
    /\ pc[c] \in {"args", "find"} => \A i \in Vol : Named(i, a) => vol[i].state # "creating"
    /\ pc[c] = "create" => \A i \in Vol : Named(i, a) => ~Exists(i)
    /\ pc[c] = "wait" => vol[at[c]].state # "deleted"
    /\ pc[c] \in {"label", "newlabel", "add", "added"} => vol[at[c]].state = "live"

SoleOK(a) ==
    /\ \A i, j \in Vol : Exists(i) /\ Exists(j) /\ Named(i, a) /\ Named(j, a) => i = j
    /\ \A c \in Call : op[c] = a /\ pc[c] \in Creating => CreatesAlone(c, a)
    /\ \A c \in Call : op[c] = a /\ pc[c] \in Deleting => claim[a] \in {"deleting", "gone"} /\ at[c] = rec[a]
    /\ \A i \in Vol : Named(i, a) /\ vol[i].dying => claim[a] \in {"deleting", "gone"}
    /\ claim[a] \in Recorded => \A i \in Vol : Exists(i) /\ Named(i, a) => i = rec[a]
    /\ claim[a] = "bound" => vol[rec[a]].state = "live"
    /\ claim[a] = "gone" => ~Exists(rec[a])

IInv ==
    /\ TypeOK
    /\ \A c \in Call : PlaceOK(c)
    /\ \A i \in Vol : VolOK(i)
    /\ \A a \in Claim : ClaimOK(a)
    /\ \A a \in Claim \ overlap : SoleOK(a)

-----------------------------------------------------------------------------
\* Arithmetic of roundUp.
LEMMA ModSmall == ASSUME NEW x \in Nat, NEW m \in Nat, x < m PROVE x % m = x
OBVIOUS

\* A multiple leaves no rest.
LEMMA ModMultiple == ASSUME NEW k \in Nat, NEW g \in Nat \ {0} PROVE (k * g) % g = 0
OBVIOUS

\* Quotient and rest.
LEMMA DivMod == ASSUME NEW x \in Nat, NEW g \in Nat \ {0}
 PROVE /\ x = (x \div g) * g + (x % g) /\ x % g \in 0 .. (g-1) /\ x \div g \in Nat
OBVIOUS

\* roundUp of an int64 is the next multiple of the unit: the product does not
\* wrap around in a uint64.
LEMMA Units ==
  ASSUME NEW num \in Nat, num <= MaxInt64, num > 0
  PROVE  \E k \in Nat : roundUp(num, GB) = k * GB /\ k * GB >= num /\ k * GB < 2 * (MaxInt64 + 1)
<1> DEFINE q == num \div GB
           k == IF num % GB > 0 THEN q + 1 ELSE q
<1>0. GB \in Nat \ {0} /\ MaxInt64 \in Nat /\ GB <= MaxInt64
  BY VolumeRequestAssumption
<1>1. num = q * GB + (num % GB) /\ num % GB \in 0 .. (GB - 1) /\ q \in Nat
  BY <1>0, DivMod
<1>2. k \in Nat /\ k * GB \in Nat
  BY <1>0, <1>1
<1>3. k * GB >= num /\ k * GB < num + GB
  <2>1. (q + 1) * GB = q * GB + GB /\ q * GB \in Nat
    BY <1>0, <1>1
  <2> QED BY <1>0, <1>1, <2>1
<1>4. k * GB < 2 * (MaxInt64 + 1) /\ 2 * (MaxInt64 + 1) \in Nat
  BY <1>0, <1>2, <1>3
<1>5. (k * GB) % (2 * (MaxInt64 + 1)) = k * GB
  BY <1>2, <1>4, ModSmall
<1>6. roundUp(num, GB) = (k * GB) % (2 * (MaxInt64 + 1))
  BY Zenon DEF roundUp, UInt64
<1> QED BY <1>2, <1>3, <1>4, <1>5, <1>6

\* The size is a number of units, which a uint64 holds.
LEMMA SizeUnits ==
  ASSUME NEW r \in CapacityRange
  PROVE  \E k \in Nat : getVolumeSize(r) = k * GB /\ k * GB >= r.required /\ k * GB < 2 * (MaxInt64 + 1)
<1>0. GB \in Nat \ {0} /\ MaxInt64 \in Nat /\ GB <= MaxInt64
  BY VolumeRequestAssumption
<1>1. r.required \in Int /\ r.required <= MaxInt64 /\ r.limit \in Int /\ r.limit <= MaxInt64
  BY <1>0 DEF CapacityRange, Int64
<1>2. CASE r.required > 0
  <2>1. getVolumeSize(r) = roundUp(r.required, GB)
    BY <1>2 DEF getVolumeSize
  <2> QED BY <1>1, <1>2, <2>1, Units
<1>3. CASE ~(r.required > 0) /\ r.limit > 0
  <2>1. getVolumeSize(r) = roundUp(r.limit, GB)
    BY <1>3 DEF getVolumeSize
  <2>2. PICK k \in Nat : roundUp(r.limit, GB) = k * GB /\ k * GB >= r.limit /\ k * GB < 2 * (MaxInt64 + 1)
    BY <1>1, <1>3, Units
  <2>3. k * GB >= r.required
    BY <1>0, <1>1, <1>3, <2>2
  <2> QED BY <2>1, <2>2, <2>3
<1>4. CASE ~(r.required > 0) /\ ~(r.limit > 0)
  <2>1. getVolumeSize(r) = 1 * GB /\ 1 * GB >= r.required /\ 1 * GB < 2 * (MaxInt64 + 1)
    BY <1>0, <1>1, <1>4 DEF getVolumeSize
  <2> QED BY <2>1
<1> QED BY <1>2, <1>3, <1>4

\* A size that is still positive as an int64 is whole units and enough.
LEMMA SizeFits ==
  ASSUME NEW r \in CapacityRange
  PROVE  /\ ToInt64(getVolumeSize(r)) \in Int
         /\ ToInt64(getVolumeSize(r)) > 0 => /\ ToInt64(getVolumeSize(r)) >= r.required
                                             /\ ToInt64(getVolumeSize(r)) % GB = 0
<1>0. GB \in Nat \ {0} /\ MaxInt64 \in Nat
  BY VolumeRequestAssumption
<1>1. PICK k \in Nat : getVolumeSize(r) = k * GB /\ k * GB >= r.required /\ k * GB < 2 * (MaxInt64 + 1)
  BY SizeUnits
<1>2. k * GB \in Nat
  BY <1>0
<1>3. CASE k * GB <= MaxInt64
  <2>1. ToInt64(getVolumeSize(r)) = k * GB
    BY <1>1, <1>3 DEF ToInt64
  <2>2. (k * GB) % GB = 0 /\ k * GB \in Int
    BY <1>0, <1>2, ModMultiple
  <2> QED BY <1>1, <2>1, <2>2, Zenon
<1>4. CASE ~(k * GB <= MaxInt64)
  BY <1>0, <1>1, <1>2, <1>4 DEF ToInt64
<1> QED BY <1>3, <1>4

-----------------------------------------------------------------------------
(* What a step leaves alone. *)

\* What a volume is, and how its labels may change.
Kept(i) ==
    /\ vol'[i].name = vol[i].name /\ vol'[i].size = vol[i].size
    /\ vol'[i].sharing = vol[i].sharing /\ vol[i].labels \subseteq vol'[i].labels

\* What becomes of a volume.
Still(i) == vol'[i].state = vol[i].state /\ vol'[i].dying = vol[i].dying

\* What a handler works with.
Idle(d) ==
    /\ pc'[d] = pc[d] /\ op'[d] = op[d] /\ at'[d] = at[d]
    /\ seen'[d] = seen[d] /\ label'[d] = label[d]

\* A name belongs to one claim, and to none before the volume is made.
LEMMA Names ==
    /\ None \notin Vol /\ None \notin Label /\ None \notin Claim
    /\ \A a \in Claim : ToLower[a] # None
    /\ \A a, b \in Claim : ToLower[a] = ToLower[b] => a = b
BY ProvisionAssumption

\* Counting a fault keeps the bound.
LEMMA FaultFacts == ASSUME TypeOK, Fault PROVE faults' \in 0 .. MaxFaults
BY ProvisionAssumption DEF TypeOK, Fault

\* Handlers that a step leaves alone keep their part of the invariant.
LEMMA OtherPlaces ==
    ASSUME IInv, NEW D \in SUBSET Call, \A d \in D : Idle(d) /\ (d \in open' => d \in open),
           \A d \in D : at[d] \in Vol => Kept(at[d]),
           labels \subseteq labels',
           \A d \in D : d \in open => claim'[op[d]] = claim[op[d]],
           \A d \in D, e \in open' : d \in open' /\ op'[e] = op'[d] => e = d
    PROVE  \A d \in D : PlaceOK(d)'
<1> SUFFICES ASSUME NEW d \in D PROVE PlaceOK(d)'
  OBVIOUS
<1>0. d \in Call /\ PlaceOK(d) /\ Idle(d)
  BY DEF IInv
<1>1. (op[d] = None <=> pc[d] = "idle")'
  BY <1>0, Zenon DEF PlaceOK, Idle
<1>2. (pc[d] \in Before => at[d] = None /\ seen[d] = {})'
  BY <1>0 DEF PlaceOK, Idle
<1>3. (pc[d] \notin Before => at[d] \in Vol /\ Named(at[d], op[d]) /\ seen[d] \subseteq vol[at[d]].labels)'
  BY <1>0 DEF PlaceOK, Idle, Kept, Named
<1>4. (pc[d] \in {"add", "added"} => label[d] \in labels)'
  BY <1>0 DEF PlaceOK, Idle
<1>5. (d \in open => /\ pc[d] \in Creating => claim[op[d]] = "creating"
                     /\ pc[d] \in Deleting => claim[op[d]] = "deleting"
                     /\ pc[d] # "idle"
                     /\ \A e \in open : op[e] = op[d] => e = d)'
  BY <1>0 DEF PlaceOK, Idle
<1> QED BY <1>1, <1>2, <1>3, <1>4, <1>5 DEF PlaceOK

\* So do claims whose record a step leaves alone.
LEMMA OtherClaims ==
    ASSUME IInv, NEW a \in Claim, rec'[a] = rec[a],
           claim'[a] \in Recorded => claim[a] \in Recorded,
           rec[a] \in Vol => Kept(rec[a]), labels \subseteq labels'
    PROVE  ClaimOK(a)'
<1>1. ClaimOK(a)
  BY DEF IInv
<1> QED BY <1>1 DEF ClaimOK, Kept, Named

\* And volumes that stay what they are.
LEMMA OtherVols ==
    ASSUME IInv, NEW i \in Vol, Kept(i), UNCHANGED ask
    PROVE  VolOK(i)'
<1>1. VolOK(i)
  BY DEF IInv
<1> QED BY <1>1 DEF VolOK, Kept, Named, Size

\* A claim whose calls and volumes a step leaves alone stays alone.
LEMMA OtherSole ==
    ASSUME IInv, NEW a \in Claim, a \notin overlap, claim'[a] = claim[a], rec'[a] = rec[a],
           \A d \in Call : \/ op'[d] = op[d] /\ pc'[d] = pc[d] /\ at'[d] = at[d]
                           \/ op[d] # a /\ op'[d] # a,
           \A i \in Vol : \/ vol'[i].name = vol[i].name /\ Still(i)
                          \/ ~Named(i, a) /\ ~Named(i, a)'
                          \/ Spare(i) /\ ~Named(i, a)'
    PROVE  SoleOK(a)'
<1>0. SoleOK(a) /\ ClaimOK(a)
  BY DEF IInv
<1>1. \A i \in Vol : Named(i, a)' => Named(i, a) /\ Still(i)
  BY DEF Named
<1>2. ASSUME NEW d \in Call, op'[d] = a
      PROVE  op[d] = a /\ pc'[d] = pc[d] /\ at'[d] = at[d]
  BY <1>2
<1>3. ASSUME NEW d \in Call, op'[d] = a, pc[d] \notin Before
      PROVE  vol'[at[d]].state = vol[at[d]].state
  <2>1. at[d] \in Vol /\ Named(at[d], a)
    BY <1>2, <1>3 DEF IInv, PlaceOK
  <2> QED BY <2>1 DEF Still, Spare
<1>4. claim[a] \in Recorded => vol'[rec[a]].state = vol[rec[a]].state
  BY <1>0 DEF ClaimOK, Still, Spare
<1>5. (\A i, j \in Vol : Exists(i) /\ Exists(j) /\ Named(i, a) /\ Named(j, a) => i = j)'
  BY <1>0, <1>1 DEF SoleOK, Exists, Still
<1>6. ASSUME NEW c \in Call, op'[c] = a, pc'[c] \in Creating PROVE CreatesAlone(c, a)'
  <2>1. CreatesAlone(c, a) /\ op[c] = a /\ pc'[c] = pc[c] /\ at'[c] = at[c]
    BY <1>0, <1>2, <1>6 DEF SoleOK
  <2>2. (claim[a] = "creating" /\ \A d \in Call : op[d] = a => d = c)'
    BY <1>2, <2>1 DEF CreatesAlone
  <2>3. (pc[c] \in {"args", "find"} => \A i \in Vol : Named(i, a) => vol[i].state # "creating")'
    BY <1>1, <2>1 DEF CreatesAlone, Still
  <2>4. (pc[c] = "create" => \A i \in Vol : Named(i, a) => ~Exists(i))'
    BY <1>1, <2>1 DEF CreatesAlone, Still, Exists
  <2>5. /\ (pc[c] = "wait" => vol[at[c]].state # "deleted")'
        /\ (pc[c] \in {"label", "newlabel", "add", "added"} => vol[at[c]].state = "live")'
    BY <1>3, <1>6, <2>1 DEF CreatesAlone, Before
  <2> QED BY <2>2, <2>3, <2>4, <2>5 DEF CreatesAlone
<1>7. ASSUME NEW c \in Call, op'[c] = a, pc'[c] \in Deleting
      PROVE  claim'[a] \in {"deleting", "gone"} /\ at'[c] = rec'[a]
  BY <1>0, <1>2, <1>7 DEF SoleOK
<1>8. (\A i \in Vol : Named(i, a) /\ vol[i].dying => claim[a] \in {"deleting", "gone"})'
  BY <1>0, <1>1 DEF SoleOK, Still
<1>9. (claim[a] \in Recorded => \A i \in Vol : Exists(i) /\ Named(i, a) => i = rec[a])'
  BY <1>0, <1>1 DEF SoleOK, Exists, Still
<1>10. /\ (claim[a] = "bound" => vol[rec[a]].state = "live")'
       /\ (claim[a] = "gone" => ~Exists(rec[a]))'
  BY <1>0, <1>4 DEF SoleOK, Exists, Recorded
<1> QED BY <1>5, <1>6, <1>7, <1>8, <1>9, <1>10 DEF SoleOK

-----------------------------------------------------------------------------
(* Steps of a handler. *)

\* A handler that goes on.  Its volume, if it deletes it, may be marked.
LEMMA GoInv ==
    ASSUME IInv, TypeOK', NEW c \in Call, NEW a \in Claim, op[c] = a,
           NEW place \in Creating \cup Deleting, Goto(c, place),
           pc[c] \in Creating => place \in Creating,
           pc[c] \in Deleting => place \in Deleting /\ at'[c] = at[c],
           \A d \in Call \ {c} : at'[d] = at[d] /\ seen'[d] = seen[d] /\ label'[d] = label[d],
           labels \subseteq labels',
           \A i \in Vol : Kept(i),
           \A i \in Vol : \/ Still(i)
                          \/ i = at[c] /\ pc[c] \in Deleting /\ vol'[i].state = vol[i].state,
           place \in Before => at'[c] = None /\ seen'[c] = {},
           place \notin Before => /\ at'[c] \in Vol /\ vol'[at'[c]].name = ToLower[a]
                                  /\ seen'[c] \subseteq vol'[at'[c]].labels,
           place \in {"add", "added"} => label'[c] \in labels',
           a \notin overlap /\ pc[c] \in Creating => CreatesAlone(c, a)'
    PROVE  IInv'
<1>0. TypeOK /\ PlaceOK(c) /\ a # None /\ pc[c] # "idle"
  BY Names DEF IInv, PlaceOK
<1>1. /\ pc'[c] = place /\ \A d \in Call \ {c} : pc'[d] = pc[d]
      /\ UNCHANGED <<op, open, claim, rec, ask, overlap>>
  BY <1>0 DEF Goto, TypeOK, co
<1>2. \A d \in Call \ {c} : PlaceOK(d)'
  <2>1. \A d \in Call \ {c} : Idle(d) /\ (d \in open' => d \in open)
    BY <1>1 DEF Idle
  <2>2. \A d \in Call \ {c}, e \in open' : d \in open' /\ op'[e] = op'[d] => e = d
    BY <1>1 DEF IInv, PlaceOK
  <2> QED BY <1>1, <2>1, <2>2, OtherPlaces
<1>3. PlaceOK(c)'
  <2>1. op'[c] = a /\ place # "idle"
    BY <1>1 DEF Creating, Deleting
  <2>3. c \in open => /\ place \in Creating => claim[a] = "creating"
                      /\ place \in Deleting => claim[a] = "deleting"
                      /\ \A d \in open : op[d] = a => d = c
    <3>1. pc[c] \in Creating \/ pc[c] \in Deleting
      BY <1>0 DEF TypeOK
    <3>2. ~(place \in Creating /\ place \in Deleting)
      BY DEF Creating, Deleting
    <3> QED BY <1>0, <3>1, <3>2 DEF PlaceOK
  <2>4. (op[c] = None <=> pc[c] = "idle")'
    BY <1>0, <1>1, <2>1
  <2>5. (pc[c] \in Before => at[c] = None /\ seen[c] = {})'
    BY <1>1
  <2>6. (pc[c] \notin Before => at[c] \in Vol /\ Named(at[c], op[c]) /\ seen[c] \subseteq vol[at[c]].labels)'
    BY <1>1, <2>1 DEF Named
  <2> QED BY <1>1, <2>1, <2>3, <2>4, <2>5, <2>6 DEF PlaceOK
<1>4. \A i \in Vol : VolOK(i)'
  BY <1>1, OtherVols
<1>5. \A b \in Claim : ClaimOK(b)'
  BY <1>1, OtherClaims
<1>6. ASSUME NEW b \in Claim \ overlap', b # a PROVE SoleOK(b)'
  <2>1. \A d \in Call : \/ op'[d] = op[d] /\ pc'[d] = pc[d] /\ at'[d] = at[d]
                        \/ op[d] # b /\ op'[d] # b
    BY <1>1, <1>6
  <2>2. \A i \in Vol : \/ vol'[i].name = vol[i].name /\ Still(i)
                       \/ ~Named(i, b) /\ ~Named(i, b)'
    <3>1. ASSUME NEW i \in Vol, ~Still(i) PROVE ~Named(i, b) /\ ~Named(i, b)'
      <4>1. i = at[c] /\ pc[c] \in Deleting /\ pc[c] \notin Before
        BY <3>1 DEF Deleting, Before
      <4>2. Named(i, a)
        BY <1>0, <4>1 DEF PlaceOK
      <4> QED BY <1>6, <4>2, Names DEF Named, Kept
    <3> QED BY <3>1 DEF Kept
  <2> QED BY <1>1, <1>6, <2>1, <2>2, OtherSole
<1>7. ASSUME a \notin overlap' PROVE SoleOK(a)'
  <2>0. SoleOK(a) /\ a \notin overlap
    BY <1>1, <1>7 DEF IInv
  <2>1. \A i \in Vol : /\ (Named(i, a)' <=> Named(i, a)) /\ (Exists(i)' <=> Exists(i))
                       /\ vol'[i].state = vol[i].state
    BY DEF Named, Exists, Kept, Still
  <2>2. (\A i, j \in Vol : Exists(i) /\ Exists(j) /\ Named(i, a) /\ Named(j, a) => i = j)'
    BY <2>0, <2>1 DEF SoleOK
  <2>3. ASSUME NEW d \in Call, op'[d] = a, pc'[d] \in Creating PROVE CreatesAlone(d, a)'
    <3>1. CASE d = c
      <4>1. pc[c] \in Creating
        BY <1>0, <1>1, <2>3, <3>1 DEF TypeOK, Creating, Deleting
      <4> QED BY <2>0, <3>1, <4>1
    <3>2. CASE d # c
      <4>1. op[d] = a /\ pc[d] \in Creating /\ op[c] = a
        BY <1>1, <2>3, <3>2
      <4> QED BY <2>0, <3>2, <4>1 DEF SoleOK, CreatesAlone
    <3> QED BY <3>1, <3>2
  <2>4. ASSUME NEW d \in Call, op'[d] = a, pc'[d] \in Deleting
        PROVE  claim'[a] \in {"deleting", "gone"} /\ at'[d] = rec'[a]
    <3>1. pc[d] \in Deleting /\ at'[d] = at[d]
      BY <1>0, <1>1, <2>4 DEF TypeOK, Creating, Deleting
    <3> QED BY <1>1, <2>0, <2>4, <3>1 DEF SoleOK
  <2>5. ASSUME NEW i \in Vol, Named(i, a)', vol'[i].dying PROVE claim'[a] \in {"deleting", "gone"}
    <3>1. CASE vol[i].dying
      BY <1>1, <2>0, <2>1, <2>5, <3>1 DEF SoleOK
    <3>2. CASE ~vol[i].dying
      <4>1. pc[c] \in Deleting
        BY <2>5, <3>2 DEF Still
      <4> QED BY <1>1, <2>0, <4>1 DEF SoleOK
    <3> QED BY <3>1, <3>2
  <2>6. (claim[a] \in Recorded => \A i \in Vol : Exists(i) /\ Named(i, a) => i = rec[a])'
    BY <1>1, <2>0, <2>1 DEF SoleOK
  <2>7. claim[a] \in Recorded => rec[a] \in Vol
    BY DEF IInv, ClaimOK
  <2>8. /\ (claim[a] = "bound" => vol[rec[a]].state = "live")'
        /\ (claim[a] = "gone" => ~Exists(rec[a]))'
    BY <1>1, <2>0, <2>1, <2>7 DEF SoleOK, Exists, Recorded
  <2> QED BY <2>2, <2>3, <2>4, <2>5, <2>6, <2>8 DEF SoleOK
<1> QED BY <1>1, <1>2, <1>3, <1>4, <1>5, <1>6, <1>7 DEF IInv

\* What a handler that returns leaves behind.
LEMMA ReturnFacts ==
    ASSUME TypeOK, NEW c \in Call, NEW a \in Claim, op[c] = a, NEW ok \in BOOLEAN, Return(c, ok)
    PROVE  /\ pc' \in [Call -> Creating \cup Deleting \cup {"idle"}] /\ pc'[c] = "idle"
           /\ op' \in [Call -> Claim \cup {None}] /\ op'[c] = None
           /\ at' \in [Call -> Vol \cup {None}] /\ at'[c] = None
           /\ seen' \in [Call -> SUBSET Label] /\ seen'[c] = {}
           /\ label' \in [Call -> Label \cup {None}]
           /\ \A d \in Call \ {c} : Idle(d)
           /\ open' = open \ {c}
           /\ UNCHANGED <<ask, overlap>>
<1>1. /\ pc' = [pc EXCEPT ![c] = "idle"] /\ op' = [op EXCEPT ![c] = None]
      /\ at' = [at EXCEPT ![c] = None] /\ seen' = [seen EXCEPT ![c] = {}]
      /\ label' = [label EXCEPT ![c] = None] /\ open' = open \ {c}
      /\ UNCHANGED <<ask, overlap>>
  BY DEF Return
<1> QED BY <1>1 DEF TypeOK, Idle

\* And what its client makes of the answer.
LEMMA ReturnClient ==
    ASSUME TypeOK, NEW c \in Call, NEW a \in Claim, op[c] = a, NEW ok \in BOOLEAN, Return(c, ok)
    PROVE  /\ \A b \in Claim \ {a} : claim'[b] = claim[b] /\ rec'[b] = rec[b]
           /\ ~(ok /\ c \in open) => UNCHANGED <<claim, rec>>
           /\ ok /\ c \in open /\ pc[c] \in Creating => claim'[a] = "bound" /\ rec'[a] = at[c]
           /\ ok /\ c \in open /\ pc[c] \notin Creating => claim'[a] = "gone" /\ rec'[a] = rec[a]
           /\ claim' \in [Claim -> {"new", "creating", "bound", "deleting", "gone"}]
           /\ rec' \in [Claim -> Vol \cup {None}]
<1>1. CASE ok /\ c \in open
  <2>1. /\ claim' = [claim EXCEPT ![a] = IF pc[c] \in Creating THEN "bound" ELSE "gone"]
        /\ rec' = [rec EXCEPT ![a] = IF pc[c] \in Creating THEN at[c] ELSE @]
    BY <1>1 DEF Return
  <2> QED BY <1>1, <2>1 DEF TypeOK
<1>2. CASE ~(ok /\ c \in open)
  BY <1>2 DEF Return, TypeOK
<1> QED BY <1>1, <1>2

\* A handler that returns.  A creation that succeeds has labelled its volume,
\* a deletion that succeeds has removed it.
LEMMA ReturnInv ==
    ASSUME IInv, NEW c \in Call, NEW a \in Claim, op[c] = a, NEW ok \in BOOLEAN, Return(c, ok),
           vol' \in [Vol -> VMVolume], UNCHANGED labels, faults' \in 0 .. MaxFaults,
           \A i \in Vol : Kept(i),
           \A i \in Vol : \/ Still(i)
                          \/ /\ i = at[c] /\ pc[c] \in Deleting
                             /\ vol'[i].state = "deleted" /\ ~vol'[i].dying,
           ok /\ pc[c] \in Creating => /\ pc[c] \in {"label", "add", "added"}
                                       /\ vol'[at[c]].labels \cap labels # {},
           ok /\ pc[c] \in Deleting => vol'[at[c]].state = "deleted"
    PROVE  IInv'
<1>0. /\ TypeOK /\ PlaceOK(c) /\ a # None /\ pc[c] # "idle"
      /\ pc[c] \in Creating \/ pc[c] \in Deleting
      /\ ~(pc[c] \in Creating /\ pc[c] \in Deleting)
  BY Names DEF IInv, PlaceOK, TypeOK, Creating, Deleting
<1>1. TypeOK'
  BY <1>0, ReturnFacts, ReturnClient DEF TypeOK
<1>2. pc[c] \notin Before => at[c] \in Vol /\ Named(at[c], a)
  BY <1>0 DEF PlaceOK
<1>10. /\ ok /\ c \in open /\ pc[c] \in Creating => claim'[a] = "bound" /\ rec'[a] = at[c]
       /\ ok /\ c \in open /\ pc[c] \notin Creating => claim'[a] = "gone" /\ rec'[a] = rec[a]
  <2>1. CASE ok /\ c \in open
    <3>1. /\ claim' = [claim EXCEPT ![a] = IF pc[c] \in Creating THEN "bound" ELSE "gone"]
          /\ rec' = [rec EXCEPT ![a] = IF pc[c] \in Creating THEN at[c] ELSE @]
      BY <2>1 DEF Return
    <3> QED BY <1>0, <2>1, <3>1 DEF TypeOK
  <2> QED BY <2>1
<1>3. \A d \in Call : PlaceOK(d)'
  <2>1. \A d \in Call \ {c} : Idle(d) /\ (d \in open' => d \in open)
    BY <1>0, ReturnFacts
  <2>2. \A d \in Call \ {c} : d \in open => claim'[op[d]] = claim[op[d]]
    <3>1. ASSUME NEW d \in Call \ {c}, d \in open PROVE claim'[op[d]] = claim[op[d]]
      <4>1. PlaceOK(d) /\ op[d] \in Claim
        BY <1>0, <3>1 DEF IInv, PlaceOK, TypeOK
      <4>2. CASE c \in open
        <5>1. op[d] # a
          BY <3>1, <4>1, <4>2 DEF PlaceOK
        <5> QED BY <1>0, <4>1, <5>1, ReturnClient
      <4>3. CASE c \notin open
        BY <1>0, <4>3, ReturnClient
      <4> QED BY <4>2, <4>3
    <3> QED BY <3>1
  <2>3. \A d \in Call \ {c}, e \in open' : d \in open' /\ op'[e] = op'[d] => e = d
    <3>1. ASSUME NEW d \in Call \ {c}, NEW e \in open', d \in open', op'[e] = op'[d] PROVE e = d
      <4>1. e \in open /\ d \in open /\ e # c /\ e \in Call
        BY <1>0, <3>1, ReturnFacts DEF TypeOK
      <4>2. op[e] = op[d]
        BY <2>1, <3>1, <4>1 DEF Idle
      <4> QED BY <4>1, <4>2 DEF IInv, PlaceOK
    <3> QED BY <3>1
  <2>4. \A d \in Call \ {c} : PlaceOK(d)'
    BY <2>1, <2>2, <2>3, OtherPlaces
  <2>5. PlaceOK(c)'
    <3>1. /\ pc'[c] = "idle" /\ op'[c] = None /\ at'[c] = None /\ seen'[c] = {} /\ c \notin open'
      BY <1>0, ReturnFacts
    <3> QED BY <3>1 DEF PlaceOK, Before
  <2> QED BY <2>4, <2>5
<1>4. \A i \in Vol : VolOK(i)'
  BY <1>0, ReturnFacts, OtherVols
<1>5. \A b \in Claim : ClaimOK(b)'
  <2>1. ASSUME NEW b \in Claim, b # a PROVE ClaimOK(b)'
    BY <1>0, <2>1, ReturnClient, OtherClaims
  <2>2. CASE ~(ok /\ c \in open)
    BY <1>0, <2>1, <2>2, ReturnClient, OtherClaims
  <2>3. CASE ok /\ c \in open /\ pc[c] \in Creating
    <3>1. claim'[a] = "bound" /\ rec'[a] = at[c]
      BY <1>10, <2>3, Zenon
    <3>2. at[c] \in Vol /\ Named(at[c], a) /\ vol'[at[c]].labels \cap labels' # {}
      BY <1>2, <2>3 DEF Before
    <3>3. ClaimOK(a)'
      BY <3>1, <3>2 DEF ClaimOK, Named, Kept
    <3> QED BY <2>1, <3>3
  <2>4. CASE ok /\ c \in open /\ pc[c] \in Deleting
    <3>1. claim[a] \in Recorded /\ rec'[a] = rec[a]
      BY <1>0, <2>4, ReturnClient DEF PlaceOK, Recorded
    <3>2. ClaimOK(a)'
      BY <3>1, OtherClaims
    <3> QED BY <2>1, <3>2
  <2> QED BY <1>0, <2>2, <2>3, <2>4
<1>6. ASSUME NEW b \in Claim \ overlap', b # a PROVE SoleOK(b)'
  <2>1. \A d \in Call : \/ op'[d] = op[d] /\ pc'[d] = pc[d] /\ at'[d] = at[d]
                        \/ op[d] # b /\ op'[d] # b
    BY <1>0, <1>6, ReturnFacts, Names DEF Idle
  <2>2. \A i \in Vol : \/ vol'[i].name = vol[i].name /\ Still(i)
                       \/ ~Named(i, b) /\ ~Named(i, b)'
    <3>1. ASSUME NEW i \in Vol, ~Still(i) PROVE ~Named(i, b) /\ ~Named(i, b)'
      <4>1. Named(i, a)
        BY <1>2, <3>1 DEF Deleting, Before
      <4> QED BY <1>6, <4>1, Names DEF Named, Kept
    <3> QED BY <3>1 DEF Kept
  <2>3. b \notin overlap /\ claim'[b] = claim[b] /\ rec'[b] = rec[b]
    BY <1>0, <1>6, ReturnFacts, ReturnClient
  <2> QED BY <2>1, <2>2, <2>3, OtherSole
<1>7. ASSUME a \notin overlap' PROVE SoleOK(a)'
  <2>0. SoleOK(a) /\ a \notin overlap
    BY <1>0, <1>7, ReturnFacts DEF IInv
  <2>1. ASSUME NEW i \in Vol
        PROVE  /\ Named(i, a)' <=> Named(i, a)
               /\ Exists(i)' => Exists(i)
               /\ vol'[i].dying => vol[i].dying
    BY DEF Named, Exists, Kept, Still
  <2>2. (\A i, j \in Vol : Exists(i) /\ Exists(j) /\ Named(i, a) /\ Named(j, a) => i = j)'
    BY <2>0, <2>1 DEF SoleOK
  <2>3. ASSUME NEW d \in Call, op'[d] = a PROVE op[d] = a /\ d # c /\ pc'[d] = pc[d] /\ at'[d] = at[d]
    BY <1>0, <2>3, ReturnFacts DEF Idle
  <2>4. ASSUME NEW d \in Call, op'[d] = a PROVE pc'[d] \notin Creating
    BY <2>0, <2>3, <2>4 DEF SoleOK, CreatesAlone
  <2>5. CASE ~(ok /\ c \in open)
    <3>1. claim' = claim /\ rec' = rec
      BY <1>0, <2>5, ReturnClient
    <3>2. claim[a] \in Recorded => rec[a] \in Vol
      BY DEF IInv, ClaimOK
    <3>3. claim[a] = "bound" => vol'[rec[a]].state = "live"
      <4>1. claim[a] = "bound" => pc[c] \notin Deleting
        BY <2>0 DEF SoleOK
      <4> QED BY <2>0, <3>2, <4>1 DEF SoleOK, Still, Recorded
    <3>4. claim[a] = "gone" => ~Exists(rec[a])'
      BY <2>0, <2>1, <3>1, <3>2 DEF SoleOK, Recorded
    <3>5. ASSUME NEW d \in Call, op'[d] = a, pc'[d] \in Deleting
          PROVE  claim'[a] \in {"deleting", "gone"} /\ at'[d] = rec'[a]
      BY <2>0, <2>3, <3>1, <3>5 DEF SoleOK
    <3>6. (\A i \in Vol : Named(i, a) /\ vol[i].dying => claim[a] \in {"deleting", "gone"})'
      BY <2>0, <2>1, <3>1 DEF SoleOK
    <3>7. (claim[a] \in Recorded => \A i \in Vol : Exists(i) /\ Named(i, a) => i = rec[a])'
      BY <2>0, <2>1, <3>1 DEF SoleOK
    <3> QED BY <2>2, <2>4, <3>1, <3>3, <3>4, <3>5, <3>6, <3>7 DEF SoleOK
  <2>6. CASE ok /\ c \in open /\ pc[c] \in Creating
    <3>1. claim'[a] = "bound" /\ rec'[a] = at[c]
      BY <1>10, <2>6, Zenon
    <3>2. /\ at[c] \in Vol /\ Named(at[c], a) /\ vol[at[c]].state = "live" /\ claim[a] = "creating"
          /\ \A d \in Call : op[d] = a => d = c
      BY <1>2, <2>0, <2>6 DEF SoleOK, CreatesAlone, Before
    <3>3. vol'[at[c]].state = "live"
      BY <1>0, <2>6, <3>2 DEF Still
    <3>4. \A d \in Call : op'[d] # a
      BY <2>3, <3>2
    <3>5. \A i \in Vol : ~(Named(i, a)' /\ vol'[i].dying)
      BY <2>0, <2>1, <3>2 DEF SoleOK
    <3>6. \A i \in Vol : Exists(i)' /\ Named(i, a)' => i = rec'[a]
      BY <2>0, <2>1, <3>1, <3>2 DEF SoleOK, Exists
    <3> QED BY <2>2, <3>1, <3>3, <3>4, <3>5, <3>6 DEF SoleOK
  <2>7. CASE ok /\ c \in open /\ pc[c] \in Deleting
    <3>1. claim'[a] = "gone" /\ rec'[a] = rec[a] /\ claim[a] = "deleting" /\ at[c] = rec[a]
      <4>1. claim'[a] = "gone" /\ rec'[a] = rec[a]
        BY <1>0, <1>10, <2>7, Zenon
      <4> QED BY <1>0, <2>0, <2>7, <4>1 DEF PlaceOK, SoleOK
    <3>2. ~Exists(rec[a])'
      BY <2>7, <3>1 DEF Exists
    <3>3. ASSUME NEW d \in Call, op'[d] = a, pc'[d] \in Deleting
          PROVE  claim'[a] \in {"deleting", "gone"} /\ at'[d] = rec'[a]
      BY <2>0, <2>3, <3>1, <3>3 DEF SoleOK
    <3>4. \A i \in Vol : Exists(i)' /\ Named(i, a)' => i = rec'[a]
      BY <2>0, <2>1, <3>1 DEF SoleOK, Recorded
    <3> QED BY <2>2, <2>4, <3>1, <3>2, <3>3, <3>4 DEF SoleOK
  <2> QED BY <1>0, <2>5, <2>6, <2>7
<1> QED BY <1>0, <1>1, <1>3, <1>4, <1>5, <1>6, <1>7, ReturnFacts DEF IInv

\* A handler at work has a claim.
LEMMA Works ==
    ASSUME IInv, NEW c \in Call, pc[c] # "idle"
    PROVE  \E a \in Claim :
              /\ op[c] = a /\ TypeOK /\ PlaceOK(c)
              /\ a \notin overlap /\ pc[c] \in Creating => CreatesAlone(c, a)
<1>1. TypeOK /\ PlaceOK(c) /\ op[c] \in Claim
  BY DEF IInv, PlaceOK, TypeOK
<1>2. PICK a \in Claim : a = op[c]
  BY <1>1
<1>3. a \notin overlap => SoleOK(a)
  BY DEF IInv
<1> QED BY <1>1, <1>2, <1>3 DEF SoleOK

\* What a handler that goes on leaves alone.
LEMMA GoFacts ==
    ASSUME TypeOK, NEW c \in Call, NEW place \in Creating \cup Deleting, Goto(c, place)
    PROVE  /\ pc' \in [Call -> Creating \cup Deleting \cup {"idle"}]
           /\ pc'[c] = place /\ \A d \in Call \ {c} : pc'[d] = pc[d]
           /\ UNCHANGED <<op, open, claim, rec, ask, overlap>>
BY DEF Goto, TypeOK, co

\* A handler that goes on and leaves its volume and all others alone.
LEMMA GoQuiet ==
    ASSUME IInv, NEW c \in Call, NEW a \in Claim, op[c] = a,
           NEW place \in Creating \cup Deleting, Goto(c, place),
           pc[c] \in Creating => place \in Creating,
           pc[c] \in Deleting => place \in Deleting,
           UNCHANGED <<at, seen, vol, faults>>,
           label' \in [Call -> Label \cup {None}],
           \A d \in Call \ {c} : label'[d] = label[d],
           labels \subseteq labels', labels' \subseteq Label,
           place \in Before <=> pc[c] \in Before,
           place \in {"add", "added"} => label'[c] \in labels',
           a \notin overlap /\ pc[c] \in Creating => CreatesAlone(c, a)'
    PROVE  IInv'
<1>0. TypeOK /\ PlaceOK(c)
  BY DEF IInv
<1>1. TypeOK'
  BY <1>0, GoFacts DEF TypeOK
<1>2. \A i \in Vol : Kept(i) /\ Still(i)
  BY DEF Kept, Still
<1>3. /\ place \in Before => at'[c] = None /\ seen'[c] = {}
      /\ place \notin Before => /\ at'[c] \in Vol /\ vol'[at'[c]].name = ToLower[a]
                                /\ seen'[c] \subseteq vol'[at'[c]].labels
  BY <1>0 DEF PlaceOK, Named
<1> QED BY <1>0, <1>1, <1>2, <1>3, GoInv

\* CreateVolume accepts its arguments.
LEMMA ArgsInv == ASSUME IInv, NEW c \in Call, Args(c) PROVE IInv'
<1>1. /\ pc[c] = "args" /\ Goto(c, "find")
      /\ UNCHANGED <<at, seen, label, vol, labels, faults>>
  BY DEF Args, At, tower
<1>2. PICK a \in Claim : op[c] = a /\ TypeOK /\ (a \notin overlap => CreatesAlone(c, a))
  BY <1>1, Works DEF Creating
<1>3. "find" \in Creating /\ "args" \in Creating /\ "find" \in Before /\ "args" \in Before
      /\ "args" \notin Deleting
  BY DEF Creating, Deleting, Before
<1>4. a \notin overlap => CreatesAlone(c, a)'
  <2>1. pc'[c] = "find" /\ UNCHANGED <<op, claim>>
    BY <1>1, <1>2, <1>3, GoFacts
  <2> QED BY <1>1, <1>2, <2>1 DEF CreatesAlone, Named
<1> QED BY <1>1, <1>2, <1>3, <1>4, GoQuiet DEF TypeOK

\* The task of a creation has ended well, or its volume is gone again.
LEMMA WaitCreateInv == ASSUME IInv, NEW c \in Call, WaitCreate(c) PROVE IInv'
<1>1. /\ pc[c] = "wait" /\ vol[at[c]].state \in {"live", "deleted"} /\ Goto(c, "label")
      /\ UNCHANGED <<at, seen, label, vol, labels, faults>>
  BY DEF WaitCreate, At, tower
<1>2. PICK a \in Claim : op[c] = a /\ TypeOK /\ (a \notin overlap => CreatesAlone(c, a))
  BY <1>1, Works DEF Creating
<1>3. "label" \in Creating /\ "wait" \in Creating /\ "label" \notin Before /\ "wait" \notin Before
      /\ "wait" \notin Deleting
  BY DEF Creating, Deleting, Before
<1>4. a \notin overlap => CreatesAlone(c, a)'
  <2>1. pc'[c] = "label" /\ UNCHANGED <<op, claim>>
    BY <1>1, <1>2, <1>3, GoFacts
  <2> QED BY <1>1, <1>2, <2>1 DEF CreatesAlone
<1> QED BY <1>1, <1>2, <1>3, <1>4, GoQuiet DEF TypeOK

\* A look-up that finds nothing finished, for a claim that creates alone, means
\* that there is no volume of its name.
LEMMA FindInv == ASSUME IInv, NEW c \in Call, Find(c) PROVE IInv'
<1>1. pc[c] = "find" /\ UNCHANGED <<label, vol, labels, faults>>
  BY DEF Find, At, tower
<1>2. PICK a \in Claim : op[c] = a /\ TypeOK /\ PlaceOK(c) /\ (a \notin overlap => CreatesAlone(c, a))
  BY <1>1, Works DEF Creating
<1>3. CASE (\A i \in Vol : Exists(i) /\ Named(i, op[c]) => vol[i].state = "creating")
           /\ Goto(c, "create") /\ UNCHANGED <<at, seen>>
  <2>1. "create" \in Creating /\ "create" \in Before /\ "find" \in Before
        /\ "find" \notin Deleting
    BY DEF Creating, Deleting, Before
  <2>2. pc'[c] = "create" /\ UNCHANGED <<op, claim>>
    BY <1>2, <1>3, <2>1, GoFacts
  <2>3. a \notin overlap => CreatesAlone(c, a)'
    BY <1>1, <1>2, <1>3, <2>2 DEF CreatesAlone, Named, Exists
  <2> QED BY <1>1, <1>2, <1>3, <2>1, <2>3, GoQuiet DEF TypeOK
<1>4. ASSUME NEW i \in Vol, Exists(i), Named(i, op[c]), at' = [at EXCEPT ![c] = i],
             seen' = [seen EXCEPT ![c] = vol[i].labels], Goto(c, "label")
      PROVE  IInv'
  <2>1. "label" \in Creating /\ "label" \notin Before /\ pc[c] \notin Deleting
    BY <1>1 DEF Creating, Deleting, Before
  <2>2. pc'[c] = "label" /\ UNCHANGED <<op, claim>>
    BY <1>2, <1>4, <2>1, GoFacts
  <2>3. at'[c] = i /\ seen'[c] = vol[i].labels /\ vol[i].labels \in SUBSET Label
    BY <1>2, <1>4 DEF TypeOK, VMVolume
  <2>4. TypeOK'
    BY <1>1, <1>2, <1>4, <2>1, <2>3, GoFacts DEF TypeOK
  <2>5. a \notin overlap => CreatesAlone(c, a)'
    BY <1>1, <1>2, <1>4, <2>2, <2>3 DEF CreatesAlone, Named, Exists
  <2>6. \A j \in Vol : Kept(j) /\ Still(j)
    BY <1>1 DEF Kept, Still
  <2>7. \A d \in Call \ {c} : at'[d] = at[d] /\ seen'[d] = seen[d] /\ label'[d] = label[d]
    BY <1>1, <1>2, <1>4 DEF TypeOK
  <2>8. at'[c] \in Vol /\ vol'[at'[c]].name = ToLower[a] /\ seen'[c] \subseteq vol'[at'[c]].labels
    BY <1>1, <1>2, <1>4, <2>3 DEF Named
  <2> QED BY <1>1, <1>2, <1>4, <2>1, <2>4, <2>5, <2>6, <2>7, <2>8, GoInv
<1> QED BY <1>3, <1>4 DEF Find

\* A handler that goes on with the labelling of its volume.
LEMMA LabelStepInv ==
    ASSUME IInv, NEW c \in Call, NEW place \in {"newlabel", "add", "added"}, Goto(c, place),
           pc[c] \in {"label", "newlabel", "add"}, UNCHANGED <<at, seen, faults, vol>>,
           label' \in [Call -> Label \cup {None}],
           \A d \in Call \ {c} : label'[d] = label[d],
           labels \subseteq labels', labels' \subseteq Label,
           place \in {"add", "added"} => label'[c] \in labels'
    PROVE  IInv'
<1>1. place \in Creating /\ pc[c] \in Creating /\ pc[c] \notin Deleting
      /\ place \notin Before /\ pc[c] \notin Before /\ pc[c] # "idle"
  BY DEF Creating, Deleting, Before
<1>2. PICK a \in Claim : op[c] = a /\ TypeOK /\ (a \notin overlap => CreatesAlone(c, a))
  BY <1>1, Works
<1>3. a \notin overlap => CreatesAlone(c, a)'
  <2>1. pc'[c] = place /\ UNCHANGED <<op, claim>>
    BY <1>1, <1>2, GoFacts
  <2> QED BY <1>2, <2>1 DEF CreatesAlone
<1> QED BY <1>1, <1>2, <1>3, GoQuiet

\* upsertLabel: a label among those the volume had is still one of its labels.
LEMMA UpsertLabelInv == ASSUME IInv, NEW c \in Call, UpsertLabel(c) PROVE IInv'
<1>1. pc[c] = "label" /\ UNCHANGED <<vol, labels, faults>>
  BY DEF UpsertLabel, At, tower
<1>2. PICK a \in Claim : op[c] = a /\ TypeOK /\ PlaceOK(c)
  BY <1>1, Works
<1>3. ASSUME NEW l \in labels, l \in seen[c], Return(c, TRUE) PROVE IInv'
  <2>1. \A i \in Vol : Kept(i) /\ Still(i)
    BY <1>1 DEF Kept, Still
  <2>2. vol'[at[c]].labels \cap labels # {}
    BY <1>1, <1>2, <1>3 DEF PlaceOK, Before
  <2>3. vol' \in [Vol -> VMVolume] /\ faults' \in 0 .. MaxFaults
    BY <1>1, <1>2 DEF TypeOK
  <2>4. pc[c] \notin Deleting
    BY <1>1 DEF Deleting
  <2> QED BY <1>1, <1>2, <1>3, <2>1, <2>2, <2>3, <2>4, ReturnInv
<1>4. ASSUME NEW l \in labels, label' = [label EXCEPT ![c] = l], Goto(c, "add"), UNCHANGED <<at, seen>>
      PROVE  IInv'
  <2>1. /\ label' \in [Call -> Label \cup {None}] /\ label'[c] = l
        /\ \A d \in Call \ {c} : label'[d] = label[d]
        /\ labels' \subseteq Label
    BY <1>1, <1>2, <1>4 DEF TypeOK
  <2> QED BY <1>1, <1>4, <2>1, LabelStepInv
<1>5. CASE Goto(c, "newlabel") /\ UNCHANGED <<at, seen, label>>
  BY <1>1, <1>2, <1>5, LabelStepInv DEF TypeOK
<1> QED BY <1>3, <1>4, <1>5 DEF UpsertLabel

\* upsertLabel makes the label.
LEMMA CreateLabelInv == ASSUME IInv, NEW c \in Call, CreateLabel(c) PROVE IInv'
<1>1. /\ pc[c] = "newlabel" /\ Goto(c, "add") /\ UNCHANGED <<at, seen, vol, faults>>
  BY DEF CreateLabel, At
<1>2. PICK l \in Label \ labels : labels' = labels \cup {l} /\ label' = [label EXCEPT ![c] = l]
  BY DEF CreateLabel
<1>3. TypeOK
  BY DEF IInv
<1>4. /\ label' \in [Call -> Label \cup {None}] /\ label'[c] = l
      /\ \A d \in Call \ {c} : label'[d] = label[d]
      /\ labels \subseteq labels' /\ labels' \subseteq Label /\ l \in labels'
  BY <1>2, <1>3 DEF TypeOK
<1> QED BY <1>1, <1>4, LabelStepInv

\* DeleteVolume finds the volume.
LEMMA GetVolumeInv == ASSUME IInv, NEW c \in Call, GetVolume(c) PROVE IInv'
<1>1. /\ pc[c] = "get" /\ Goto(c, "remove")
      /\ UNCHANGED <<at, seen, label, vol, labels, faults>>
  BY DEF GetVolume, At, tower
<1>2. PICK a \in Claim : op[c] = a /\ TypeOK
  BY <1>1, Works
<1>3. /\ "remove" \in Deleting /\ "get" \notin Creating
      /\ "remove" \notin Before /\ "get" \notin Before
  BY DEF Creating, Deleting, Before
<1> QED BY <1>1, <1>2, <1>3, GoQuiet DEF TypeOK

\* The label of a handler's volume is added to what the volume has.
LEMMA LabelledFacts ==
    ASSUME IInv, NEW c \in Call, pc[c] \in {"add", "added"}, Labelled(c)
    PROVE  /\ vol' \in [Vol -> VMVolume] /\ \A i \in Vol : Kept(i) /\ Still(i)
           /\ vol'[at[c]].labels \cap labels # {}
<1>1. TypeOK /\ PlaceOK(c)
  BY DEF IInv
<1>2. at[c] \in Vol /\ label[c] \in labels /\ labels \subseteq Label /\ vol \in [Vol -> VMVolume]
  BY <1>1 DEF PlaceOK, TypeOK, Before
<1>3. vol' = [vol EXCEPT ![at[c]].labels = @ \cup {label[c]}]
  BY DEF Labelled
<1>4. vol'[at[c]] = [vol[at[c]] EXCEPT !.labels = @ \cup {label[c]}]
  BY <1>2, <1>3
<1>5. vol[at[c]] \in VMVolume
  BY <1>2
<1>6. vol'[at[c]] \in VMVolume /\ label[c] \in vol'[at[c]].labels
      /\ Kept(at[c]) /\ Still(at[c])
  BY <1>2, <1>4, <1>5 DEF VMVolume, Kept, Still
<1>7. \A i \in Vol \ {at[c]} : vol'[i] = vol[i]
  BY <1>2, <1>3
<1>8. vol' \in [Vol -> VMVolume]
  BY <1>2, <1>3, <1>6, <1>7
<1>9. \A i \in Vol : Kept(i) /\ Still(i)
  BY <1>6, <1>7 DEF Kept, Still
<1> QED BY <1>2, <1>6, <1>8, <1>9

\* addVolumeLabels and its task: a creation that succeeds has a label on its volume.
LEMMA LabelledReturnInv ==
    ASSUME IInv, NEW c \in Call, pc[c] \in {"add", "added"}, Labelled(c), Return(c, TRUE),
           UNCHANGED <<labels, faults>>
    PROVE  IInv'
<1>1. PICK a \in Claim : op[c] = a /\ TypeOK
  BY Works
<1>2. pc[c] \notin Deleting
  BY DEF Deleting
<1>3. faults' \in 0 .. MaxFaults
  BY <1>1 DEF TypeOK
<1> QED BY <1>1, <1>2, <1>3, LabelledFacts, ReturnInv

\* addVolumeLabels: at once, or with a task that may already have run.
LEMMA AddLabelsInv == ASSUME IInv, NEW c \in Call, AddLabels(c) PROVE IInv'
<1>1. pc[c] = "add" /\ UNCHANGED <<labels, faults>>
  BY DEF AddLabels, At
<1>2. CASE Labelled(c) /\ Return(c, TRUE)
  BY <1>1, <1>2, LabelledReturnInv
<1>3. PICK a \in Claim : op[c] = a /\ TypeOK /\ PlaceOK(c) /\ (a \notin overlap => CreatesAlone(c, a))
  BY <1>1, Works DEF Creating
<1>4. CASE UNCHANGED vol /\ Goto(c, "added") /\ UNCHANGED <<at, seen, label>>
  BY <1>1, <1>3, <1>4, LabelStepInv DEF TypeOK, PlaceOK
<1>5. CASE Labelled(c) /\ Goto(c, "added") /\ UNCHANGED <<at, seen, label>>
  <2>1. "added" \in Creating /\ "added" \notin Before /\ pc[c] \notin Deleting /\ pc[c] \notin Before
    BY <1>1 DEF Creating, Deleting, Before
  <2>2. pc'[c] = "added" /\ UNCHANGED <<op, claim>>
    BY <1>3, <1>5, <2>1, GoFacts
  <2>3. vol' \in [Vol -> VMVolume] /\ \A i \in Vol : Kept(i) /\ Still(i)
    BY <1>1, <1>5, LabelledFacts
  <2>4. TypeOK'
    BY <1>1, <1>3, <1>5, <2>1, <2>3, GoFacts DEF TypeOK
  <2>5. /\ at'[c] \in Vol /\ vol'[at'[c]].name = ToLower[a]
        /\ seen'[c] \subseteq vol'[at'[c]].labels /\ label'[c] \in labels'
    BY <1>1, <1>3, <1>5, <2>1, <2>3 DEF PlaceOK, Kept, Named
  <2>6. a \notin overlap => CreatesAlone(c, a)'
    BY <1>1, <1>3, <1>5, <2>2, <2>3, <2>5 DEF CreatesAlone, Still
  <2>7. \A d \in Call \ {c} : at'[d] = at[d] /\ seen'[d] = seen[d] /\ label'[d] = label[d]
    BY <1>5
  <2> QED BY <1>1, <1>3, <1>5, <2>1, <2>3, <2>4, <2>5, <2>6, <2>7, GoInv
<1> QED BY <1>2, <1>4, <1>5 DEF AddLabels

\* The task of the label has ended.
LEMMA WaitAddInv == ASSUME IInv, NEW c \in Call, WaitAdd(c) PROVE IInv'
BY LabelledReturnInv DEF WaitAdd, At

\* A handler that returns without a change of any volume.
LEMMA QuietReturnInv ==
    ASSUME IInv, NEW c \in Call, pc[c] # "idle", NEW ok \in BOOLEAN, Return(c, ok),
           UNCHANGED <<vol, labels>>, faults' \in 0 .. MaxFaults,
           ok => pc[c] \in Deleting /\ vol[at[c]].state = "deleted"
    PROVE  IInv'
<1>1. PICK a \in Claim : op[c] = a /\ TypeOK
  BY Works
<1>2. \A i \in Vol : Kept(i) /\ Still(i)
  BY DEF Kept, Still
<1>3. ~(pc[c] \in Deleting /\ pc[c] \in Creating) /\ vol' \in [Vol -> VMVolume]
  BY <1>1 DEF Creating, Deleting, TypeOK
<1> QED BY <1>1, <1>2, <1>3, ReturnInv

\* The task of a deletion has ended.
LEMMA WaitRemoveInv == ASSUME IInv, NEW c \in Call, WaitRemove(c) PROVE IInv'
<1>1. /\ pc[c] = "removed" /\ vol[at[c]].state = "deleted" /\ Return(c, TRUE)
      /\ UNCHANGED <<vol, labels, faults>>
  BY DEF WaitRemove, At, tower
<1>2. faults' \in 0 .. MaxFaults /\ pc[c] \in Deleting
  BY <1>1 DEF IInv, TypeOK, Deleting
<1> QED BY <1>1, <1>2, QuietReturnInv

\* A handler that cannot succeed.
LEMMA RefuseInv == ASSUME IInv, NEW c \in Call, Refuse(c) PROVE IInv'
<1>1. pc[c] # "idle" /\ Return(c, FALSE) /\ UNCHANGED <<vol, labels, faults>>
  BY DEF Refuse, Hopeless, At, tower
<1>2. faults' \in 0 .. MaxFaults
  BY <1>1 DEF IInv, TypeOK
<1> QED BY <1>1, <1>2, QuietReturnInv

\* A handler that fails.
LEMMA FailInv == ASSUME IInv, NEW c \in Call, Fail(c) PROVE IInv'
<1>1. pc[c] # "idle" /\ Return(c, FALSE) /\ UNCHANGED <<vol, labels>> /\ Fault
  BY DEF Fail, tower
<1>2. faults' \in 0 .. MaxFaults
  BY <1>1, FaultFacts DEF IInv
<1> QED BY <1>1, <1>2, QuietReturnInv

\* DeleteVMVolumeFromVM.
LEMMA RemoveInv == ASSUME IInv, NEW c \in Call, Remove(c) PROVE IInv'
<1>1. pc[c] = "remove" /\ UNCHANGED <<labels, faults>>
  BY DEF Remove, At
<1>2. PICK a \in Claim : op[c] = a /\ TypeOK /\ PlaceOK(c)
  BY <1>1, Works
<1>3. /\ pc[c] \in Deleting /\ pc[c] \notin Creating /\ pc[c] \notin Before
      /\ "removed" \in Deleting /\ "removed" \notin Before
  BY <1>1 DEF Creating, Deleting, Before
<1>4. at[c] \in Vol /\ vol[at[c]] \in VMVolume /\ vol \in [Vol -> VMVolume]
  BY <1>2, <1>3 DEF PlaceOK, TypeOK
<1>5. CASE /\ vol' = [vol EXCEPT ![at[c]].state = "deleted", ![at[c]].dying = FALSE]
           /\ Return(c, TRUE)
  <2>1. vol'[at[c]] = [vol[at[c]] EXCEPT !.state = "deleted", !.dying = FALSE]
    BY <1>4, <1>5
  <2>2. \A i \in Vol \ {at[c]} : vol'[i] = vol[i]
    BY <1>4, <1>5
  <2>3. vol'[at[c]] \in VMVolume /\ Kept(at[c])
        /\ vol'[at[c]].state = "deleted" /\ ~vol'[at[c]].dying
    BY <1>4, <2>1 DEF VMVolume, Kept
  <2>4. vol' \in [Vol -> VMVolume]
    BY <1>4, <1>5, <2>2, <2>3
  <2>5. \A i \in Vol : Kept(i) /\ (Still(i) \/ i = at[c])
    BY <2>2, <2>3 DEF Kept, Still
  <2>6. faults' \in 0 .. MaxFaults
    BY <1>1, <1>2 DEF TypeOK
  <2> QED BY <1>1, <1>2, <1>3, <1>5, <2>3, <2>4, <2>5, <2>6, ReturnInv
<1>6. CASE /\ vol' = [vol EXCEPT ![at[c]].dying = TRUE]
           /\ Goto(c, "removed") /\ UNCHANGED <<at, seen, label>>
  <2>1. vol'[at[c]] = [vol[at[c]] EXCEPT !.dying = TRUE]
    BY <1>4, <1>6
  <2>2. \A i \in Vol \ {at[c]} : vol'[i] = vol[i]
    BY <1>4, <1>6
  <2>3. vol'[at[c]] \in VMVolume /\ Kept(at[c]) /\ vol'[at[c]].state = vol[at[c]].state
    BY <1>4, <2>1 DEF VMVolume, Kept
  <2>4. vol' \in [Vol -> VMVolume]
    BY <1>4, <1>6, <2>2, <2>3
  <2>5. \A i \in Vol : Kept(i) /\ (Still(i) \/ i = at[c])
    BY <2>2, <2>3 DEF Kept, Still
  <2>6. TypeOK'
    BY <1>1, <1>2, <1>3, <1>6, <2>4, GoFacts DEF TypeOK
  <2>7. at'[c] \in Vol /\ vol'[at'[c]].name = ToLower[a] /\ seen'[c] \subseteq vol'[at'[c]].labels
    BY <1>2, <1>3, <1>6, <2>5 DEF PlaceOK, Kept, Named
  <2>8. \A d \in Call \ {c} : at'[d] = at[d] /\ seen'[d] = seen[d] /\ label'[d] = label[d]
    BY <1>6
  <2>9. \A i \in Vol : \/ Still(i)
                       \/ i = at[c] /\ pc[c] \in Deleting /\ vol'[i].state = vol[i].state
    BY <1>3, <2>3, <2>5
  <2> QED BY <1>1, <1>2, <1>3, <1>6, <2>5, <2>6, <2>7, <2>8, <2>9, GoInv
<1> QED BY <1>5, <1>6 DEF Remove

-----------------------------------------------------------------------------
(* A new volume. *)

\* CreateVMVolume, under an id that nobody refers to.
LEMMA CreateInv == ASSUME IInv, NEW c \in Call, Create(c) PROVE IInv'
<1>1. pc[c] = "create" /\ Size(op[c]) > 0 /\ UNCHANGED <<seen, label, labels, faults>>
  BY DEF Create, At
<1>2. PICK a \in Claim : /\ op[c] = a /\ TypeOK /\ PlaceOK(c)
                         /\ a \notin overlap => CreatesAlone(c, a)
  BY <1>1, Works DEF Creating
<1> DEFINE new(now) == [NoVol EXCEPT !.state = IF now THEN "live" ELSE "creating",
                                     !.name = ToLower[a], !.size = Size(a),
                                     !.sharing = checkNeedSharing(ask[a].modes)]
           place(now) == IF now THEN "label" ELSE "wait"
<1>3. PICK i \in Vol, now \in BOOLEAN :
        /\ Spare(i) /\ vol' = [vol EXCEPT ![i] = new(now)]
        /\ at' = [at EXCEPT ![c] = i] /\ Goto(c, place(now))
  BY <1>2 DEF Create
<1>4. place(now) \in {"label", "wait"} /\ place(now) \in Creating /\ place(now) \notin Before
      /\ place(now) \notin Deleting
  BY DEF Creating, Deleting, Before
<1>5. /\ pc' \in [Call -> Creating \cup Deleting \cup {"idle"}] /\ pc'[c] = place(now)
      /\ \A d \in Call \ {c} : pc'[d] = pc[d]
      /\ UNCHANGED <<op, open, claim, rec, ask, overlap>>
  BY <1>2, <1>3, <1>4, GoFacts
<1>6. /\ vol'[i] = new(now) /\ \A j \in Vol \ {i} : vol'[j] = vol[j]
      /\ at' \in [Call -> Vol \cup {None}] /\ at'[c] = i /\ \A d \in Call \ {c} : at'[d] = at[d]
  BY <1>2, <1>3 DEF TypeOK
<1>7. /\ vol'[i].state = (IF now THEN "live" ELSE "creating") /\ vol'[i].name = ToLower[a]
      /\ vol'[i].size = Size(a) /\ vol'[i].sharing = checkNeedSharing(ask[a].modes)
      /\ vol'[i].labels = {} /\ vol'[i].dying = FALSE
  BY <1>6 DEF NoVol
<1>8. TypeOK'
  <2>1. Size(a) \in Int
    <3>1. ask[a].range \in CapacityRange
      BY <1>2, ProvisionAssumption DEF TypeOK
    <3> QED BY <3>1, SizeFits DEF Size
  <2>2. new(now) \in VMVolume
    BY <2>1 DEF NoVol, VMVolume, checkNeedSharing
  <2>3. vol' \in [Vol -> VMVolume]
    BY <1>2, <1>3, <2>2 DEF TypeOK
  <2> QED BY <1>1, <1>2, <1>5, <1>6, <2>3 DEF TypeOK
<1>9. \A j \in Vol \ {i} : Kept(j) /\ Still(j)
  BY <1>6 DEF Kept, Still
<1>10. \A d \in Call : at[d] # i
  BY <1>3 DEF Spare
<1>11. \A d \in Call \ {c} : PlaceOK(d)'
  <2>1. \A d \in Call \ {c} : Idle(d) /\ (d \in open' => d \in open)
    BY <1>1, <1>5, <1>6 DEF Idle
  <2>2. \A d \in Call \ {c}, e \in open' : d \in open' /\ op'[e] = op'[d] => e = d
    BY <1>5 DEF IInv, PlaceOK
  <2>3. \A d \in Call \ {c} : at[d] \in Vol => Kept(at[d])
    BY <1>9, <1>10
  <2> QED BY <1>1, <1>5, <2>1, <2>2, <2>3, OtherPlaces
<1>12. PlaceOK(c)'
  <2>1. seen'[c] = {} /\ op'[c] = a /\ a # None
    BY <1>1, <1>2, <1>5, Names DEF PlaceOK, Before
  <2>2. (pc[c] \notin Before => at[c] \in Vol /\ Named(at[c], op[c]) /\ seen[c] \subseteq vol[at[c]].labels)'
    BY <1>6, <1>7, <2>1 DEF Named
  <2>3. c \in open' => claim'[a] = "creating" /\ \A d \in open' : op'[d] = op'[c] => d = c
    BY <1>1, <1>2, <1>5 DEF PlaceOK, Creating
  <2> QED BY <1>4, <1>5, <2>1, <2>2, <2>3 DEF PlaceOK
<1>13. ASSUME NEW j \in Vol PROVE VolOK(j)'
  <2>1. CASE j = i
    BY <1>1, <1>2, <1>5, <1>7, <2>1, Names DEF VolOK, Named, Size
  <2>2. CASE j # i
    BY <1>5, <1>9, <2>2, OtherVols
  <2> QED BY <2>1, <2>2
<1>14. \A b \in Claim : ClaimOK(b)'
  <2>1. \A b \in Claim : rec[b] \in Vol => Kept(rec[b])
    BY <1>3, <1>9 DEF Spare
  <2> QED BY <1>1, <1>5, <2>1, OtherClaims
<1>15. ASSUME NEW b \in Claim \ overlap', b # a PROVE SoleOK(b)'
  <2>1. \A d \in Call : \/ op'[d] = op[d] /\ pc'[d] = pc[d] /\ at'[d] = at[d]
                        \/ op[d] # b /\ op'[d] # b
    BY <1>2, <1>5, <1>6, <1>15
  <2>2. ~Named(i, b)'
    BY <1>7, <1>15, Names DEF Named
  <2>3. \A j \in Vol \ {i} : vol'[j].name = vol[j].name /\ Still(j)
    BY <1>9 DEF Kept
  <2> QED BY <1>3, <1>5, <1>15, <2>1, <2>2, <2>3, OtherSole
<1>16. ASSUME a \notin overlap' PROVE SoleOK(a)'
  <2>0. SoleOK(a) /\ CreatesAlone(c, a)
    BY <1>2, <1>5, <1>16 DEF IInv
  <2>1. /\ claim'[a] = "creating" /\ \A d \in Call : op'[d] = a => d = c
        /\ \A j \in Vol : Named(j, a) => ~Exists(j)
    BY <1>1, <1>5, <2>0 DEF CreatesAlone
  <2>2. \A j \in Vol : Exists(j)' /\ Named(j, a)' => j = i
    BY <1>9, <2>1 DEF Exists, Named, Kept, Still
  <2>3. CreatesAlone(c, a)'
    BY <1>4, <1>5, <1>6, <1>7, <2>1 DEF CreatesAlone
  <2>4. \A j \in Vol : ~(Named(j, a)' /\ vol'[j].dying)
    <3>1. \A j \in Vol : ~(Named(j, a) /\ vol[j].dying)
      BY <1>5, <2>0, <2>1 DEF SoleOK
    <3> QED BY <1>7, <1>9, <3>1 DEF Named, Kept, Still
  <2>5. \A d \in Call : op'[d] = a => pc'[d] \notin Deleting
    BY <1>4, <1>5, <2>1
  <2> QED BY <2>1, <2>2, <2>3, <2>4, <2>5 DEF SoleOK, Recorded
<1> QED BY <1>5, <1>8, <1>11, <1>12, <1>13, <1>14, <1>15, <1>16 DEF IInv

-----------------------------------------------------------------------------
(* Tasks of CloudTower. *)

\* How a task that ends may leave a volume.
Ended(i) ==
    \/ Still(i)
    \/ vol[i].state = "creating" /\ vol'[i].state \in {"live", "failed"} /\ vol'[i].dying = vol[i].dying
    \/ vol[i].dying /\ vol'[i].state \in {vol[i].state, "deleted"} /\ ~vol'[i].dying

\* No task makes a volume of a claim whose creation is past its look-up, and
\* only a deletion marks a volume.
LEMMA TaskInv ==
    ASSUME IInv, UNCHANGED <<pc, op, at, seen, label, labels, open, claim, rec, ask, overlap>>,
           vol' \in [Vol -> VMVolume], faults' \in 0 .. MaxFaults,
           \A i \in Vol : Kept(i) /\ Ended(i)
    PROVE  IInv'
<1>1. TypeOK'
  BY DEF IInv, TypeOK
<1>2. \A c \in Call : PlaceOK(c)'
  <2>1. \A d, e \in open : op[e] = op[d] => e = d
    BY DEF IInv, PlaceOK, TypeOK
  <2>2. \A d \in Call : Idle(d)
    BY DEF Idle
  <2> QED BY <2>1, <2>2, OtherPlaces
<1>3. \A i \in Vol : VolOK(i)'
  BY OtherVols
<1>4. \A a \in Claim : ClaimOK(a)'
  BY OtherClaims
<1>5. ASSUME NEW a \in Claim \ overlap' PROVE SoleOK(a)'
  <2>0. SoleOK(a) /\ ClaimOK(a)
    BY <1>5 DEF IInv
  <2>1. ASSUME NEW i \in Vol, Named(i, a)
        PROVE  /\ Exists(i)' => Exists(i)
               /\ vol'[i].dying => vol[i].dying
               /\ vol'[i].state = "creating" => vol[i].state = "creating"
               /\ claim[a] \notin {"deleting", "gone"} => /\ vol'[i].state = "deleted" => vol[i].state = "deleted"
                                                          /\ vol[i].state = "live" => vol'[i].state = "live"
    BY <2>0, <2>1 DEF SoleOK, Ended, Still, Exists
  <2>2. \A i \in Vol : Named(i, a)' <=> Named(i, a)
    BY DEF Named, Kept
  <2>3. (\A i, j \in Vol : Exists(i) /\ Exists(j) /\ Named(i, a) /\ Named(j, a) => i = j)'
    BY <2>0, <2>1, <2>2 DEF SoleOK
  <2>4. ASSUME NEW c \in Call, op'[c] = a, pc'[c] \in Creating PROVE CreatesAlone(c, a)'
    <3>1. CreatesAlone(c, a) /\ claim[a] = "creating"
      BY <2>0, <2>4 DEF SoleOK, CreatesAlone
    <3>2. pc[c] \notin Before => at[c] \in Vol /\ Named(at[c], a)
      BY <2>4 DEF IInv, PlaceOK
    <3>3. (pc[c] \in {"args", "find"} => \A i \in Vol : Named(i, a) => vol[i].state # "creating")'
      BY <2>1, <2>2, <3>1 DEF CreatesAlone
    <3>4. (pc[c] = "create" => \A i \in Vol : Named(i, a) => ~Exists(i))'
      BY <2>1, <2>2, <3>1 DEF CreatesAlone
    <3>5. /\ (pc[c] = "wait" => vol[at[c]].state # "deleted")'
          /\ (pc[c] \in {"label", "newlabel", "add", "added"} => vol[at[c]].state = "live")'
      BY <2>1, <3>1, <3>2 DEF CreatesAlone, Before
    <3> QED BY <3>1, <3>3, <3>4, <3>5 DEF CreatesAlone
  <2>5. ASSUME NEW c \in Call, op'[c] = a, pc'[c] \in Deleting
        PROVE  claim'[a] \in {"deleting", "gone"} /\ at'[c] = rec'[a]
    BY <2>0, <2>5 DEF SoleOK
  <2>6. (\A i \in Vol : Named(i, a) /\ vol[i].dying => claim[a] \in {"deleting", "gone"})'
    BY <2>0, <2>1, <2>2 DEF SoleOK
  <2>7. (claim[a] \in Recorded => \A i \in Vol : Exists(i) /\ Named(i, a) => i = rec[a])'
    BY <2>0, <2>1, <2>2 DEF SoleOK
  <2>8. claim[a] \in Recorded => rec[a] \in Vol /\ Named(rec[a], a)
    BY <2>0 DEF ClaimOK
  <2>9. claim'[a] = "bound" => vol'[rec'[a]].state = "live"
    BY <2>0, <2>1, <2>8 DEF SoleOK, Recorded
  <2>10. (claim[a] = "gone" => ~Exists(rec[a]))'
    BY <2>0, <2>1, <2>8 DEF SoleOK, Recorded, Exists
  <2> QED BY <2>3, <2>4, <2>5, <2>6, <2>7, <2>9, <2>10 DEF SoleOK
<1> QED BY <1>1, <1>2, <1>3, <1>4, <1>5 DEF IInv

\* The task of a creation ends.
LEMMA CreateTaskInv == ASSUME IInv, NEW i \in Vol, CreateTask(i) PROVE IInv'
<1>1. /\ vol[i].state = "creating"
      /\ UNCHANGED <<pc, op, at, seen, label, labels, open, claim, rec, ask, overlap>>
  BY DEF CreateTask, handler, co
<1>2. vol \in [Vol -> VMVolume] /\ vol[i] \in VMVolume /\ TypeOK
  BY DEF IInv, TypeOK
<1>3. faults' \in 0 .. MaxFaults
  <2>1. UNCHANGED faults \/ Fault
    BY DEF CreateTask
  <2> QED BY <1>2, <2>1, FaultFacts DEF TypeOK
<1>4. PICK st \in {"live", "failed"} : vol' = [vol EXCEPT ![i].state = st]
  BY DEF CreateTask
<1>5. vol'[i] = [vol[i] EXCEPT !.state = st] /\ \A j \in Vol \ {i} : vol'[j] = vol[j]
  BY <1>2, <1>4
<1>6. vol'[i] \in VMVolume /\ Kept(i) /\ Ended(i)
  BY <1>1, <1>2, <1>5 DEF VMVolume, Kept, Ended
<1>7. \A j \in Vol : Kept(j) /\ Ended(j)
  BY <1>5, <1>6 DEF Kept, Ended, Still
<1>8. vol' \in [Vol -> VMVolume]
  BY <1>2, <1>4, <1>5, <1>6
<1> QED BY <1>1, <1>3, <1>7, <1>8, TaskInv

\* The task of a deletion ends.
LEMMA DeleteTaskInv == ASSUME IInv, NEW i \in Vol, DeleteTask(i) PROVE IInv'
<1>1. /\ vol[i].dying
      /\ UNCHANGED <<pc, op, at, seen, label, labels, open, claim, rec, ask, overlap>>
  BY DEF DeleteTask, handler, co
<1>2. vol \in [Vol -> VMVolume] /\ vol[i] \in VMVolume /\ TypeOK
  BY DEF IInv, TypeOK
<1>3. faults' \in 0 .. MaxFaults
  <2>1. UNCHANGED faults \/ Fault
    BY DEF DeleteTask
  <2> QED BY <1>2, <2>1, FaultFacts DEF TypeOK
<1>4. /\ vol'[i] \in VMVolume /\ Kept(i) /\ Ended(i)
      /\ \A j \in Vol \ {i} : vol'[j] = vol[j]
      /\ vol' \in [Vol -> VMVolume]
  <2>1. CASE vol' = [vol EXCEPT ![i].state = "deleted", ![i].dying = FALSE]
    <3>1. /\ vol'[i] = [vol[i] EXCEPT !.state = "deleted", !.dying = FALSE]
          /\ \A j \in Vol \ {i} : vol'[j] = vol[j]
      BY <1>2, <2>1
    <3>2. vol'[i] \in VMVolume /\ Kept(i) /\ vol'[i].state = "deleted" /\ vol'[i].dying = FALSE
      BY <1>2, <3>1 DEF VMVolume, Kept
    <3>3. Ended(i)
      BY <1>1, <3>2 DEF Ended
    <3> QED BY <1>2, <2>1, <3>1, <3>2, <3>3
  <2>2. CASE vol' = [vol EXCEPT ![i].dying = FALSE]
    <3>1. /\ vol'[i] = [vol[i] EXCEPT !.dying = FALSE]
          /\ \A j \in Vol \ {i} : vol'[j] = vol[j]
      BY <1>2, <2>2
    <3>2. vol'[i] \in VMVolume /\ Kept(i) /\ vol'[i].state = vol[i].state /\ vol'[i].dying = FALSE
      BY <1>2, <3>1 DEF VMVolume, Kept
    <3>3. Ended(i)
      BY <1>1, <3>2 DEF Ended
    <3> QED BY <1>2, <2>2, <3>1, <3>2, <3>3
  <2> QED BY <2>1, <2>2 DEF DeleteTask
<1>5. \A j \in Vol : Kept(j) /\ Ended(j)
  BY <1>4 DEF Kept, Ended, Still
<1> QED BY <1>1, <1>3, <1>4, <1>5, TaskInv

-----------------------------------------------------------------------------
(* The provisioner. *)

\* What a call that starts leaves alone.
LEMMA StartFacts ==
    ASSUME IInv, NEW c \in Call, NEW a \in Claim, NEW place \in {"args", "get"}, Start(c, a, place)
    PROVE  /\ pc' \in [Call -> Creating \cup Deleting \cup {"idle"}] /\ pc'[c] = place
           /\ op' \in [Call -> Claim \cup {None}] /\ op'[c] = a
           /\ \A d \in Call \ {c} : pc'[d] = pc[d] /\ op'[d] = op[d]
           /\ open' = open \cup {c} /\ \A d \in open : op[d] # a
           /\ pc[c] = "idle" /\ op[c] = None /\ at[c] = None /\ seen[c] = {} /\ c \notin open
           /\ UNCHANGED <<seen, label, vol, labels, rec, ask, faults>>
<1>1. /\ pc[c] = "idle" /\ pc' = [pc EXCEPT ![c] = place] /\ op' = [op EXCEPT ![c] = a]
      /\ open' = open \cup {c} /\ \A d \in open : op[d] # a
      /\ UNCHANGED <<seen, label, vol, labels, rec, ask, faults>>
  BY DEF Start, Quiet, tower
<1>2. TypeOK /\ PlaceOK(c)
  BY DEF IInv
<1>3. op[c] = None /\ at[c] = None /\ seen[c] = {} /\ c \notin open
  BY <1>1, <1>2 DEF PlaceOK, Before
<1>4. place \in Creating \cup Deleting
  BY DEF Creating, Deleting
<1> QED BY <1>1, <1>2, <1>3, <1>4 DEF TypeOK

\* The other handlers and claims when a call starts.
LEMMA StartOthers ==
    ASSUME IInv, NEW c \in Call, NEW a \in Claim, NEW place \in {"args", "get"}, Start(c, a, place),
           \A d \in Call \ {c} : at'[d] = at[d], overlap \subseteq overlap',
           \A b \in Claim \ {a} : claim'[b] = claim[b]
    PROVE  /\ \A d \in Call \ {c} : PlaceOK(d)'
           /\ \A i \in Vol : VolOK(i)'
           /\ \A b \in Claim \ {a} : ClaimOK(b)'
           /\ \A b \in Claim \ overlap' : b # a => SoleOK(b)'
<1>0. /\ \A d \in Call \ {c} : pc'[d] = pc[d] /\ op'[d] = op[d]
      /\ op'[c] = a /\ op[c] = None /\ open' = open \cup {c} /\ \A d \in open : op[d] # a
      /\ UNCHANGED <<seen, label, vol, labels, rec, ask>>
  BY StartFacts
<1>1. \A i \in Vol : Kept(i) /\ Still(i)
  BY <1>0 DEF Kept, Still
<1>2. \A d \in Call \ {c} : PlaceOK(d)'
  <2>1. \A d \in Call \ {c} : Idle(d) /\ (d \in open' => d \in open)
    BY <1>0 DEF Idle
  <2>2. \A d \in Call \ {c} : d \in open => claim'[op[d]] = claim[op[d]]
    BY <1>0 DEF IInv, PlaceOK, TypeOK
  <2>3. \A d \in Call \ {c}, e \in open' : d \in open' /\ op'[e] = op'[d] => e = d
    <3>1. ASSUME NEW d \in Call \ {c}, NEW e \in open', d \in open', op'[e] = op'[d] PROVE e = d
      <4>1. d \in open /\ op'[d] = op[d] /\ op[d] # a
        BY <1>0, <3>1
      <4>2. e # c /\ e \in open /\ e \in Call
        BY <1>0, <3>1, <4>1 DEF IInv, TypeOK
      <4>3. op'[e] = op[e]
        BY <1>0, <4>2
      <4> QED BY <3>1, <4>1, <4>2, <4>3 DEF IInv, PlaceOK
    <3> QED BY <3>1
  <2> QED BY <1>0, <1>1, <2>1, <2>2, <2>3, OtherPlaces
<1>3. \A i \in Vol : VolOK(i)'
  BY <1>0, <1>1, OtherVols
<1>4. ASSUME NEW b \in Claim \ {a} PROVE ClaimOK(b)'
  BY <1>0, <1>1, <1>4, OtherClaims
<1>5. ASSUME NEW b \in Claim \ overlap', b # a PROVE SoleOK(b)'
  <2>1. \A d \in Call : \/ op'[d] = op[d] /\ pc'[d] = pc[d] /\ at'[d] = at[d]
                        \/ op[d] # b /\ op'[d] # b
    BY <1>0, <1>5, Names
  <2>2. \A i \in Vol : vol'[i].name = vol[i].name /\ Still(i)
    BY <1>1 DEF Kept
  <2> QED BY <1>0, <1>5, <2>1, <2>2, OtherSole
<1> QED BY <1>2, <1>3, <1>4, <1>5

\* A creation starts.  A claim that has not overlapped has no handler at work
\* and no volume that is being made.
LEMMA StartCreateInv == ASSUME IInv, NEW c \in Call, NEW a \in Claim, StartCreate(c, a) PROVE IInv'
<1>1. /\ claim[a] \in {"new", "creating"} /\ Start(c, a, "args")
      /\ claim' = [claim EXCEPT ![a] = "creating"]
      /\ overlap' = (IF Overlaps(a) THEN overlap \cup {a} ELSE overlap) /\ UNCHANGED at
  BY DEF StartCreate
<1>2. /\ pc' \in [Call -> Creating \cup Deleting \cup {"idle"}] /\ pc'[c] = "args"
      /\ op' \in [Call -> Claim \cup {None}] /\ op'[c] = a
      /\ \A d \in Call \ {c} : pc'[d] = pc[d] /\ op'[d] = op[d]
      /\ open' = open \cup {c} /\ \A d \in open : op[d] # a
      /\ pc[c] = "idle" /\ op[c] = None /\ at[c] = None /\ seen[c] = {} /\ c \notin open
      /\ UNCHANGED <<seen, label, vol, labels, rec, ask, faults>>
  BY <1>1, StartFacts
<1>3. TypeOK /\ claim'[a] = "creating" /\ \A b \in Claim \ {a} : claim'[b] = claim[b]
  BY <1>1 DEF IInv, TypeOK
<1>4. TypeOK'
  BY <1>1, <1>2, <1>3 DEF TypeOK
<1>5. /\ \A d \in Call \ {c} : PlaceOK(d)'
      /\ \A i \in Vol : VolOK(i)'
      /\ \A b \in Claim \ {a} : ClaimOK(b)'
      /\ \A b \in Claim \ overlap' : b # a => SoleOK(b)'
  BY <1>1, <1>3, StartOthers
<1>6. PlaceOK(c)'
  <2>1. a # None
    BY Names
  <2>2. \A d \in open' : op'[d] = op'[c] => d = c
    BY <1>2, <1>3 DEF TypeOK
  <2> QED BY <1>1, <1>2, <1>3, <2>1, <2>2 DEF PlaceOK, Before, Creating, Deleting
<1>7. ClaimOK(a)'
  BY <1>3 DEF ClaimOK, Recorded
<1>8. ASSUME a \notin overlap' PROVE SoleOK(a)'
  <2>0. a \notin overlap /\ ~Overlaps(a) /\ SoleOK(a)
    BY <1>1, <1>8 DEF IInv
  <2>1. \A d \in Call : op'[d] = a => d = c
    BY <1>2, <2>0 DEF Overlaps
  <2>2. \A i \in Vol : Named(i, a)' => Named(i, a) /\ vol'[i].state # "creating" /\ ~vol'[i].dying
    BY <1>1, <1>2, <2>0 DEF Overlaps, Named, SoleOK
  <2>3. CreatesAlone(c, a)'
    BY <1>2, <1>3, <2>1, <2>2 DEF CreatesAlone
  <2>4. (\A i, j \in Vol : Exists(i) /\ Exists(j) /\ Named(i, a) /\ Named(j, a) => i = j)'
    BY <1>2, <2>0, <2>2 DEF SoleOK, Exists
  <2>5. \A d \in Call : op'[d] = a => pc'[d] \notin Deleting
    BY <1>2, <2>1 DEF Deleting
  <2> QED BY <1>3, <2>1, <2>2, <2>3, <2>4, <2>5 DEF SoleOK, Recorded
<1> QED BY <1>4, <1>5, <1>6, <1>7, <1>8 DEF IInv

\* A deletion starts, of the volume that was recorded.
LEMMA StartDeleteInv == ASSUME IInv, NEW c \in Call, NEW a \in Claim, StartDelete(c, a) PROVE IInv'
<1>1. /\ claim[a] \in {"bound", "deleting"} /\ Start(c, a, "get")
      /\ claim' = [claim EXCEPT ![a] = "deleting"]
      /\ at' = [at EXCEPT ![c] = rec[a]] /\ UNCHANGED overlap
  BY DEF StartDelete
<1>2. /\ pc' \in [Call -> Creating \cup Deleting \cup {"idle"}] /\ pc'[c] = "get"
      /\ op' \in [Call -> Claim \cup {None}] /\ op'[c] = a
      /\ \A d \in Call \ {c} : pc'[d] = pc[d] /\ op'[d] = op[d]
      /\ open' = open \cup {c} /\ \A d \in open : op[d] # a
      /\ pc[c] = "idle" /\ op[c] = None /\ at[c] = None /\ seen[c] = {} /\ c \notin open
      /\ UNCHANGED <<seen, label, vol, labels, rec, ask, faults>>
  BY <1>1, StartFacts
<1>3. /\ TypeOK /\ claim'[a] = "deleting" /\ \A b \in Claim \ {a} : claim'[b] = claim[b]
      /\ rec[a] \in Vol /\ Named(rec[a], a)
      /\ at'[c] = rec[a] /\ \A d \in Call \ {c} : at'[d] = at[d]
  BY <1>1 DEF IInv, TypeOK, ClaimOK, Recorded
<1>4. TypeOK'
  BY <1>1, <1>2, <1>3 DEF TypeOK
<1>5. /\ \A d \in Call \ {c} : PlaceOK(d)'
      /\ \A i \in Vol : VolOK(i)'
      /\ \A b \in Claim \ {a} : ClaimOK(b)'
      /\ \A b \in Claim \ overlap' : b # a => SoleOK(b)'
  BY <1>1, <1>3, StartOthers
<1>6. PlaceOK(c)'
  <2>1. a # None
    BY Names
  <2>2. \A d \in open' : op'[d] = op'[c] => d = c
    BY <1>2, <1>3 DEF TypeOK
  <2>3. at'[c] \in Vol /\ vol'[at'[c]].name = ToLower[op'[c]] /\ seen'[c] = {}
    BY <1>2, <1>3 DEF Named
  <2> QED BY <1>2, <1>3, <2>1, <2>2, <2>3 DEF PlaceOK, Before, Creating, Deleting, Named
<1>7. ClaimOK(a)'
  <2>1. Kept(rec[a])
    BY <1>2 DEF Kept
  <2> QED BY <1>1, <1>2, <2>1, OtherClaims DEF Recorded
<1>8. ASSUME a \notin overlap' PROVE SoleOK(a)'
  <2>0. SoleOK(a)
    BY <1>1, <1>8 DEF IInv
  <2>1. ASSUME NEW d \in Call, op'[d] = a
        PROVE  pc'[d] \notin Creating /\ (pc'[d] \in Deleting => at'[d] = rec'[a])
    <3>1. CASE d = c
      BY <1>2, <1>3, <3>1 DEF Creating
    <3>2. CASE d # c
      <4>1. op[d] = a /\ pc'[d] = pc[d] /\ at'[d] = at[d]
        BY <1>2, <1>3, <2>1, <3>2
      <4>2. pc[d] \notin Creating
        BY <1>1, <2>0, <4>1 DEF SoleOK, CreatesAlone
      <4> QED BY <1>2, <2>0, <4>1, <4>2 DEF SoleOK
    <3> QED BY <3>1, <3>2
  <2>2. (\A i, j \in Vol : Exists(i) /\ Exists(j) /\ Named(i, a) /\ Named(j, a) => i = j)'
    BY <1>2, <2>0 DEF SoleOK, Exists, Named
  <2>3. \A i \in Vol : Exists(i)' /\ Named(i, a)' => i = rec'[a]
    BY <1>1, <1>2, <2>0 DEF SoleOK, Exists, Named, Recorded
  <2> QED BY <1>3, <2>1, <2>2, <2>3 DEF SoleOK
<1> QED BY <1>1, <1>4, <1>5, <1>6, <1>7, <1>8 DEF IInv

\* The provisioner gives a call up; the handler goes on.
LEMMA GiveUpInv == ASSUME IInv, NEW c \in Call, GiveUp(c) PROVE IInv'
<1>1. /\ Fault /\ open' = open \ {c}
      /\ UNCHANGED <<pc, op, at, seen, label, vol, labels, claim, rec, ask, overlap>>
  BY DEF GiveUp, handler, tower
<1>2. faults' \in 0 .. MaxFaults /\ TypeOK
  BY <1>1, FaultFacts DEF IInv
<1>3. TypeOK'
  BY <1>1, <1>2 DEF TypeOK
<1>4. \A i \in Vol : Kept(i) /\ Still(i) /\ vol'[i].name = vol[i].name
  BY <1>1 DEF Kept, Still
<1>5. \A d \in Call : PlaceOK(d)'
  <2>1. \A d \in Call : Idle(d) /\ (d \in open' => d \in open)
    BY <1>1 DEF Idle
  <2>2. \A d \in Call, e \in open' : d \in open' /\ op'[e] = op'[d] => e = d
    BY <1>1 DEF IInv, PlaceOK
  <2> QED BY <1>1, <1>4, <2>1, <2>2, OtherPlaces
<1>6. \A i \in Vol : VolOK(i)'
  BY <1>1, <1>4, OtherVols
<1>7. \A a \in Claim : ClaimOK(a)'
  BY <1>1, <1>4, OtherClaims
<1>8. \A a \in Claim \ overlap' : SoleOK(a)'
  BY <1>1, <1>4, OtherSole
<1> QED BY <1>3, <1>5, <1>6, <1>7, <1>8 DEF IInv

-----------------------------------------------------------------------------
(* What deletions touch, whether creations overlapped or not. *)

Released(a) == claim[a] \in {"deleting", "gone"}

\* A deletion, in its handler or as a task, is one of the volume that was
\* recorded for a claim that has been released.
RemovalOK ==
    /\ \A c \in Call : pc[c] \in Deleting => Released(op[c]) /\ at[c] = rec[op[c]]
    /\ \A i \in Vol, a \in Claim : Named(i, a) /\ vol[i].dying => Released(a) /\ i = rec[a]

\* A handler at work has a claim.
LEMMA HasClaim ==
    ASSUME IInv, NEW c \in Call, pc[c] # "idle" PROVE op[c] \in Claim
BY DEF IInv, TypeOK, PlaceOK

\* What a return does to the records: an answer to a creation binds its claim,
\* an answer to a deletion ends it.
LEMMA ReturnRecords ==
    ASSUME IInv, NEW c \in Call, pc[c] # "idle", NEW ok \in BOOLEAN, Return(c, ok),
           NEW a \in Claim, Released(a)
    PROVE  Released(a)' /\ rec'[a] = rec[a]
<1>1. CASE UNCHANGED <<claim, rec>>
  BY <1>1 DEF Released
<1>2. CASE ok /\ c \in open
  <2>1. /\ claim' = [claim EXCEPT ![op[c]] = IF pc[c] \in Creating THEN "bound" ELSE "gone"]
        /\ rec' = [rec EXCEPT ![op[c]] = IF pc[c] \in Creating THEN at[c] ELSE @]
    BY <1>2 DEF Return
  <2>2. pc[c] \in Creating => op[c] # a
    BY <1>2 DEF IInv, PlaceOK, Released
  <2> QED BY <2>1, <2>2, HasClaim DEF IInv, TypeOK, Released
<1> QED BY <1>1, <1>2 DEF Return

\* What a step does to the records, the deletions and the marked volumes, if
\* no deletion starts or is submitted.
Undisturbed ==
    /\ \A a \in Claim : Released(a) => Released(a)' /\ rec'[a] = rec[a]
    /\ \A c \in Call : pc'[c] \in Deleting =>
          pc[c] \in Deleting /\ op'[c] = op[c] /\ at'[c] = at[c]
    /\ \A i \in Vol, a \in Claim : Named(i, a)' /\ vol'[i].dying => Named(i, a) /\ vol[i].dying

\* Such a step is harmless.
LEMMA UndisturbedKeeps == ASSUME IInv, RemovalOK, Undisturbed PROVE RemovalOK'
<1>1. ASSUME NEW c \in Call, pc'[c] \in Deleting PROVE Released(op[c])' /\ at'[c] = rec'[op'[c]]
  <2>1. pc[c] \in Deleting /\ op'[c] = op[c] /\ at'[c] = at[c] /\ pc[c] # "idle"
    BY <1>1 DEF Undisturbed, Deleting
  <2>2. PICK a \in Claim : a = op[c]
    BY <2>1, HasClaim
  <2>3. Released(a) /\ at[c] = rec[a]
    BY <2>1, <2>2 DEF RemovalOK
  <2>4. Released(a)' /\ rec'[a] = rec[a]
    BY <2>3 DEF Undisturbed
  <2> QED BY <2>1, <2>2, <2>3, <2>4 DEF Released
<1>2. ASSUME NEW i \in Vol, NEW a \in Claim, Named(i, a)', vol'[i].dying
      PROVE  Released(a)' /\ i = rec'[a]
  BY <1>2 DEF Undisturbed, RemovalOK
<1> QED BY <1>1, <1>2 DEF RemovalOK

\* A handler that returns and leaves the volumes' marks alone.
LEMMA ReturnUndisturbed ==
    ASSUME IInv, NEW c \in Call, pc[c] # "idle", NEW ok \in BOOLEAN, Return(c, ok),
           \A i \in Vol, a \in Claim : Named(i, a)' /\ vol'[i].dying => Named(i, a) /\ vol[i].dying
    PROVE  Undisturbed
<1>1. ASSUME NEW d \in Call, pc'[d] \in Deleting
      PROVE  pc[d] \in Deleting /\ op'[d] = op[d] /\ at'[d] = at[d]
  BY <1>1 DEF Return, IInv, TypeOK, Deleting
<1> QED BY <1>1, ReturnRecords DEF Undisturbed

\* A handler that goes on and leaves the volumes' marks alone.
LEMMA GoUndisturbed ==
    ASSUME IInv, NEW c \in Call, NEW place, Goto(c, place),
           place \in Deleting => pc[c] \in Deleting /\ at'[c] = at[c],
           \A d \in Call \ {c} : at'[d] = at[d],
           \A i \in Vol, a \in Claim : Named(i, a)' /\ vol'[i].dying => Named(i, a) /\ vol[i].dying
    PROVE  Undisturbed
<1>1. /\ UNCHANGED <<op, claim, rec>>
      /\ \A d \in Call : pc'[d] = IF d = c THEN place ELSE pc[d]
  BY DEF Goto, co, IInv, TypeOK
<1> QED BY <1>1 DEF Undisturbed, Released

\* Labelling a volume does not mark it.
LEMMA LabelledUnmarked ==
    ASSUME IInv, NEW c \in Call, Labelled(c) \/ UNCHANGED vol
    PROVE  \A i \in Vol, a \in Claim : Named(i, a)' /\ vol'[i].dying => Named(i, a) /\ vol[i].dying
<1>1. vol \in [Vol -> VMVolume]
  BY DEF IInv, TypeOK
<1>2. ASSUME NEW i \in Vol PROVE vol'[i].name = vol[i].name /\ vol'[i].dying = vol[i].dying
  BY <1>1, <1>2 DEF Labelled, VMVolume
<1> QED BY <1>2 DEF Named

\* The steps of a creation.
LEMMA CreationUndisturbed ==
    ASSUME IInv, NEW c \in Call,
           \/ Args(c) \/ Find(c) \/ Create(c) \/ WaitCreate(c)
           \/ UpsertLabel(c) \/ CreateLabel(c) \/ AddLabels(c) \/ WaitAdd(c)
    PROVE  Undisturbed
<1> USE DEF At, tower
<1>0. at \in [Call -> Vol \cup {None}] /\ vol \in [Vol -> VMVolume]
  BY DEF IInv, TypeOK
<1>1. ASSUME UNCHANGED vol
      PROVE  \A i \in Vol, a \in Claim : Named(i, a)' /\ vol'[i].dying => Named(i, a) /\ vol[i].dying
  BY <1>1 DEF Named
<1>2. CASE Args(c) \/ WaitCreate(c)
  BY <1>1, <1>2, GoUndisturbed DEF Args, WaitCreate, Deleting
<1>3. CASE Find(c)
  <2>1. \A d \in Call \ {c} : at'[d] = at[d]
    BY <1>0, <1>3 DEF Find
  <2> QED BY <1>1, <1>3, <2>1, GoUndisturbed DEF Find, Deleting
<1>4. CASE Create(c)
  <2>1. PICK i \in Vol, now \in BOOLEAN :
           /\ vol' = [vol EXCEPT ![i] =
                         [NoVol EXCEPT !.state = IF now THEN "live" ELSE "creating",
                                       !.name = ToLower[op[c]], !.size = Size(op[c]),
                                       !.sharing = checkNeedSharing(ask[op[c]].modes)]]
           /\ at' = [at EXCEPT ![c] = i]
           /\ Goto(c, IF now THEN "label" ELSE "wait")
    BY <1>4, Zenon DEF Create
  <2>2. vol'[i].dying = FALSE
    BY <1>0, <2>1 DEF NoVol
  <2>3. \A j \in Vol \ {i} : vol'[j] = vol[j]
    BY <1>0, <2>1
  <2>4. \A d \in Call \ {c} : at'[d] = at[d]
    BY <1>0, <2>1
  <2>5. \A j \in Vol, a \in Claim : Named(j, a)' /\ vol'[j].dying => Named(j, a) /\ vol[j].dying
    BY <2>2, <2>3 DEF Named
  <2> QED BY <2>1, <2>4, <2>5, GoUndisturbed DEF Deleting
<1>5. CASE UpsertLabel(c)
  BY <1>1, <1>5, GoUndisturbed, ReturnUndisturbed DEF UpsertLabel, Deleting
<1>6. CASE CreateLabel(c)
  BY <1>1, <1>6, GoUndisturbed DEF CreateLabel, Deleting
<1>7. CASE AddLabels(c) \/ WaitAdd(c)
  BY <1>7, LabelledUnmarked, GoUndisturbed, ReturnUndisturbed DEF AddLabels, WaitAdd, Deleting
<1> QED BY <1>2, <1>3, <1>4, <1>5, <1>6, <1>7

\* CreateTask and DeleteTask mark nothing.
LEMMA TaskUndisturbed ==
    ASSUME IInv, NEW i \in Vol, CreateTask(i) \/ DeleteTask(i) PROVE Undisturbed
<1>0. vol \in [Vol -> VMVolume]
  BY DEF IInv, TypeOK
<1>1. UNCHANGED <<pc, op, at, claim, rec>>
  BY DEF CreateTask, DeleteTask, handler, co
<1>2. \/ vol' = [vol EXCEPT ![i].state = "live"]
      \/ vol' = [vol EXCEPT ![i].state = "failed"]
      \/ vol' = [vol EXCEPT ![i].state = "deleted", ![i].dying = FALSE]
      \/ vol' = [vol EXCEPT ![i].dying = FALSE]
  BY DEF CreateTask, DeleteTask
<1>3. /\ \A j \in Vol \ {i} : vol'[j] = vol[j]
      /\ vol'[i].name = vol[i].name /\ (vol'[i].dying => vol[i].dying)
  BY <1>0, <1>2 DEF VMVolume
<1>4. \A j \in Vol, a \in Claim : Named(j, a)' /\ vol'[j].dying => Named(j, a) /\ vol[j].dying
  BY <1>3 DEF Named
<1> QED BY <1>1, <1>4 DEF Undisturbed, Released

\* DeleteVolume: it marks or removes the volume it was started for.
LEMMA RemoveKeeps == ASSUME IInv, RemovalOK, NEW c \in Call, Remove(c) PROVE RemovalOK'
<1>0. /\ vol \in [Vol -> VMVolume] /\ pc[c] = "remove" /\ pc[c] \in Deleting
      /\ PlaceOK(c) /\ op[c] \in Claim /\ at[c] \in Vol /\ Named(at[c], op[c])
  BY HasClaim DEF IInv, TypeOK, PlaceOK, Before, Remove, At, Deleting
<1>1. CASE vol' = [vol EXCEPT ![at[c]].state = "deleted", ![at[c]].dying = FALSE] /\ Return(c, TRUE)
  <2>1. /\ \A j \in Vol \ {at[c]} : vol'[j] = vol[j]
        /\ vol'[at[c]].dying = FALSE
    BY <1>0, <1>1 DEF VMVolume
  <2>2. \A j \in Vol, a \in Claim : Named(j, a)' /\ vol'[j].dying => Named(j, a) /\ vol[j].dying
    BY <2>1 DEF Named
  <2> QED BY <1>0, <1>1, <2>2, ReturnUndisturbed, UndisturbedKeeps
<1>2. CASE /\ vol' = [vol EXCEPT ![at[c]].dying = TRUE] /\ Goto(c, "removed")
           /\ UNCHANGED <<at, seen, label>>
  <2>1. /\ \A j \in Vol \ {at[c]} : vol'[j] = vol[j]
        /\ vol'[at[c]].name = vol[at[c]].name
    BY <1>0, <1>2 DEF VMVolume
  <2>2. /\ UNCHANGED <<op, claim, rec, at>>
        /\ \A d \in Call : pc'[d] = IF d = c THEN "removed" ELSE pc[d]
    BY <1>2 DEF Goto, co, IInv, TypeOK
  <2>3. \A d \in Call : pc'[d] \in Deleting => Released(op[d])' /\ at'[d] = rec'[op'[d]]
    BY <1>0, <2>2 DEF RemovalOK, Released
  <2>4. ASSUME NEW j \in Vol, NEW a \in Claim, Named(j, a)', vol'[j].dying
        PROVE  Released(a)' /\ j = rec'[a]
    <3>1. CASE j = at[c]
      <4>1. a = op[c]
        BY <1>0, <2>1, <2>4, <3>1, Names DEF Named
      <4> QED BY <1>0, <2>2, <3>1, <4>1 DEF RemovalOK, Released
    <3>2. CASE j # at[c]
      BY <2>1, <2>2, <2>4, <3>2 DEF RemovalOK, Released, Named
    <3> QED BY <3>1, <3>2
  <2> QED BY <2>3, <2>4 DEF RemovalOK
<1> QED BY <1>1, <1>2 DEF Remove

\* A new deletion has the recorded volume.
LEMMA StartDeleteKeeps ==
    ASSUME IInv, RemovalOK, NEW c \in Call, NEW b \in Claim, StartDelete(c, b) PROVE RemovalOK'
<1>1. /\ UNCHANGED <<vol, rec>>
      /\ claim' = [claim EXCEPT ![b] = "deleting"] /\ claim[b] \in {"bound", "deleting"}
      /\ pc' = [pc EXCEPT ![c] = "get"] /\ op' = [op EXCEPT ![c] = b]
      /\ at' = [at EXCEPT ![c] = rec[b]]
  BY DEF StartDelete, Start, tower
<1>2. \A a \in Claim : Released(a) \/ a = b => Released(a)'
  BY <1>1 DEF Released, IInv, TypeOK
<1>3. ASSUME NEW d \in Call, pc'[d] \in Deleting PROVE Released(op[d])' /\ at'[d] = rec'[op'[d]]
  <2>1. CASE d = c
    <3>1. op'[d] = b /\ at'[d] = rec[b] /\ Released(b)'
      BY <1>1, <1>2, <2>1 DEF IInv, TypeOK
    <3> QED BY <1>1, <3>1 DEF Released
  <2>2. CASE d # c
    <3>1. pc[d] \in Deleting /\ op'[d] = op[d] /\ at'[d] = at[d] /\ pc[d] # "idle"
      BY <1>1, <1>3, <2>2 DEF IInv, TypeOK, Deleting
    <3>2. PICK a \in Claim : a = op[d]
      BY <3>1, HasClaim
    <3>3. Released(a) /\ Released(a)' /\ at[d] = rec[a]
      BY <1>2, <3>1, <3>2 DEF RemovalOK
    <3> QED BY <1>1, <3>1, <3>2, <3>3 DEF Released
  <2> QED BY <2>1, <2>2
<1>4. ASSUME NEW i \in Vol, NEW a \in Claim, Named(i, a)', vol'[i].dying
      PROVE  Released(a)' /\ i = rec'[a]
  BY <1>1, <1>2, <1>4 DEF RemovalOK, Named
<1> QED BY <1>3, <1>4 DEF RemovalOK

\* Every step keeps deletions to what was released.
LEMMA NextRemoval == ASSUME IInv, RemovalOK, [Next]_vars PROVE RemovalOK'
<1>0. ASSUME UNCHANGED vol
      PROVE  \A i \in Vol, a \in Claim : Named(i, a)' /\ vol'[i].dying => Named(i, a) /\ vol[i].dying
  BY <1>0 DEF Named
<1>1. ASSUME NEW c \in Call, Step(c) PROVE RemovalOK'
  <2>1. CASE \/ Args(c) \/ Find(c) \/ Create(c) \/ WaitCreate(c)
             \/ UpsertLabel(c) \/ CreateLabel(c) \/ AddLabels(c) \/ WaitAdd(c)
    BY <2>1, CreationUndisturbed, UndisturbedKeeps
  <2>2. CASE GetVolume(c)
    BY <1>0, <2>2, GoUndisturbed, UndisturbedKeeps DEF GetVolume, At, tower, Deleting
  <2>3. CASE Remove(c)
    BY <2>3, RemoveKeeps
  <2>4. CASE WaitRemove(c)
    BY <1>0, <2>4, ReturnUndisturbed, UndisturbedKeeps DEF WaitRemove, At, tower
  <2> QED BY <1>1, <2>1, <2>2, <2>3, <2>4 DEF Step
<1>2. ASSUME NEW c \in Call, Refuse(c) \/ Fail(c) PROVE RemovalOK'
  <2>1. pc[c] # "idle" /\ Return(c, FALSE) /\ UNCHANGED vol
    BY <1>2 DEF Refuse, Fail, Hopeless, At, tower
  <2> QED BY <1>0, <2>1, ReturnUndisturbed, UndisturbedKeeps
<1>3. ASSUME NEW c \in Call, GiveUp(c) PROVE RemovalOK'
  BY <1>3 DEF GiveUp, handler, tower, RemovalOK, Released, Named
<1>4. ASSUME NEW c \in Call, NEW a \in Claim, StartCreate(c, a) PROVE RemovalOK'
  <2>1. /\ UNCHANGED <<vol, rec, at>> /\ claim[a] \in {"new", "creating"}
        /\ claim' = [claim EXCEPT ![a] = "creating"]
        /\ pc' = [pc EXCEPT ![c] = "args"] /\ op' = [op EXCEPT ![c] = a]
    BY <1>4 DEF StartCreate, Start, tower
  <2>2. Undisturbed
    BY <1>0, <2>1 DEF Undisturbed, Released, Deleting, IInv, TypeOK
  <2> QED BY <2>2, UndisturbedKeeps
<1>5. ASSUME NEW c \in Call, NEW a \in Claim, StartDelete(c, a) PROVE RemovalOK'
  BY <1>5, StartDeleteKeeps
<1>6. ASSUME NEW i \in Vol, CreateTask(i) \/ DeleteTask(i) PROVE RemovalOK'
  BY <1>6, TaskUndisturbed, UndisturbedKeeps
<1>7. CASE UNCHANGED vars
  BY <1>7 DEF vars, handler, tower, co, RemovalOK, Released, Named
<1> QED BY <1>1, <1>2, <1>3, <1>4, <1>5, <1>6, <1>7 DEF Next

\* A volume that goes is the one of a deletion.
LEMMA RemovalStep ==
    ASSUME IInv, RemovalOK, Next, NEW i \in Vol, NEW a \in Claim,
           Exists(i), Named(i, a), vol'[i].state = "deleted"
    PROVE  Released(a) /\ i = rec[a]
<1>0. /\ vol \in [Vol -> VMVolume] /\ vol[i].state # "deleted" /\ vol'[i] # vol[i]
  BY DEF IInv, TypeOK, Exists
<1>1. ASSUME NEW c \in Call, Labelled(c) PROVE FALSE
  BY <1>0, <1>1 DEF Labelled, VMVolume
<1>2. ASSUME NEW c \in Call, Create(c) PROVE FALSE
  <2>1. PICK j \in Vol, now \in BOOLEAN :
           /\ Spare(j)
           /\ vol' = [vol EXCEPT ![j] =
                         [NoVol EXCEPT !.state = IF now THEN "live" ELSE "creating",
                                       !.name = ToLower[op[c]], !.size = Size(op[c]),
                                       !.sharing = checkNeedSharing(ask[op[c]].modes)]]
    BY <1>2, Zenon DEF Create
  <2>2. i # j
    BY <2>1 DEF Spare
  <2> QED BY <1>0, <2>1, <2>2
<1>3. ASSUME NEW c \in Call, Remove(c) PROVE Released(a) /\ i = rec[a]
  <2>1. /\ pc[c] \in Deleting /\ op[c] \in Claim /\ at[c] \in Vol /\ Named(at[c], op[c])
    BY <1>3, HasClaim DEF IInv, TypeOK, PlaceOK, Before, Remove, At, Deleting
  <2>2. i = at[c]
    BY <1>0, <1>3, <2>1 DEF Remove
  <2>3. a = op[c]
    BY <2>1, <2>2, Names DEF Named
  <2> QED BY <2>1, <2>2, <2>3 DEF RemovalOK
<1>4. ASSUME NEW j \in Vol, CreateTask(j) PROVE FALSE
  <2>1. vol' = [vol EXCEPT ![j].state = "live"] \/ vol' = [vol EXCEPT ![j].state = "failed"]
    BY <1>4 DEF CreateTask
  <2> QED BY <1>0, <2>1 DEF VMVolume
<1>5. ASSUME NEW j \in Vol, DeleteTask(j) PROVE Released(a) /\ i = rec[a]
  <2>1. i = j /\ vol[j].dying
    BY <1>0, <1>5 DEF DeleteTask
  <2> QED BY <2>1 DEF RemovalOK
<1>6. ASSUME NEW c \in Call, Step(c) PROVE Released(a) /\ i = rec[a]
  <2>1. CASE AddLabels(c) \/ WaitAdd(c)
    BY <1>0, <1>1, <2>1 DEF AddLabels, WaitAdd
  <2>2. CASE \/ Args(c) \/ Find(c) \/ WaitCreate(c) \/ UpsertLabel(c) \/ CreateLabel(c)
             \/ GetVolume(c) \/ WaitRemove(c)
    BY <1>0, <2>2 DEF Args, Find, WaitCreate, UpsertLabel, CreateLabel, GetVolume, WaitRemove, tower
  <2> QED BY <1>2, <1>3, <1>6, <2>1, <2>2 DEF Step
<1>7. ASSUME NEW c \in Call, Refuse(c) \/ Fail(c) \/ GiveUp(c) PROVE FALSE
  BY <1>0, <1>7 DEF Refuse, Fail, GiveUp, tower
<1>8. ASSUME NEW c \in Call, NEW b \in Claim, StartCreate(c, b) \/ StartDelete(c, b) PROVE FALSE
  BY <1>0, <1>8 DEF StartCreate, StartDelete, Start, tower
<1> QED BY <1>4, <1>5, <1>6, <1>7, <1>8 DEF Next

-----------------------------------------------------------------------------
(* The theorems. *)

\* At first nothing has been asked for and nothing exists.
LEMMA InitInv == ASSUME Init PROVE IInv
<1>1. TypeOK
  BY ProvisionAssumption DEF Init, TypeOK, VMVolume, NoVol
<1>2. \A c \in Call : PlaceOK(c)
  BY DEF Init, PlaceOK, Before
<1>3. \A i \in Vol, a \in Claim : ~Named(i, a) /\ ~Exists(i)
  BY Names DEF Init, Named, NoVol, Exists
<1>4. \A a \in Claim : ClaimOK(a) /\ claim[a] = "new"
  BY DEF Init, ClaimOK, Recorded
<1>5. \A a \in Claim, c \in Call : op[c] # a
  BY Names DEF Init
<1> QED BY <1>1, <1>2, <1>3, <1>4, <1>5 DEF IInv, VolOK, SoleOK, Recorded

\* Every step keeps the invariant.
LEMMA NextInv == ASSUME IInv, [Next]_vars PROVE IInv'
<1>1. CASE UNCHANGED vars
  <2>1. UNCHANGED <<pc, op, at, seen, label, vol, labels, open, claim, rec, ask, overlap, faults>>
    BY <1>1 DEF vars, handler, tower, co
  <2>2. \A i \in Vol : Kept(i) /\ Ended(i)
    BY <2>1 DEF Kept, Ended, Still
  <2> QED BY <2>1, <2>2, TaskInv DEF IInv, TypeOK
<1>2. ASSUME NEW c \in Call, Step(c) PROVE IInv'
  BY <1>2, ArgsInv, FindInv, CreateInv, WaitCreateInv, UpsertLabelInv, CreateLabelInv,
     AddLabelsInv, WaitAddInv, GetVolumeInv, RemoveInv, WaitRemoveInv DEF Step
<1>3. ASSUME NEW c \in Call, Refuse(c) \/ Fail(c) \/ GiveUp(c) PROVE IInv'
  BY <1>3, RefuseInv, FailInv, GiveUpInv
<1>4. ASSUME NEW c \in Call, NEW a \in Claim, StartCreate(c, a) \/ StartDelete(c, a) PROVE IInv'
  BY <1>4, StartCreateInv, StartDeleteInv
<1>5. ASSUME NEW i \in Vol, CreateTask(i) \/ DeleteTask(i) PROVE IInv'
  BY <1>5, CreateTaskInv, DeleteTaskInv
<1> QED BY <1>1, <1>2, <1>3, <1>4, <1>5 DEF Next

\* Whatever handlers overlap, fail or are given up, each works on a volume of
\* its claim's name that is what was asked for, and a claim whose creations did
\* not overlap has at most one.
THEOREM Invariance == Spec => []IInv
<1>1. Init => IInv
  BY InitInv
<1>2. IInv /\ [Next]_vars => IInv'
  BY NextInv
<1> QED BY <1>1, <1>2, PTL DEF Spec

\* CreateVolume answers only with a volume that has the cluster's label.
THEOREM ProvisionedLabelled == Spec => []ProvisionedIsLabelled
<1>1. IInv => ProvisionedIsLabelled
  BY DEF IInv, ClaimOK, Recorded, ProvisionedIsLabelled
<1> QED BY <1>1, Invariance, PTL

\* The volume CreateVolume answers with has the claim's name, at least the size
\* asked for in whole units, and the sharing its access modes need, for every
\* unit and every width of the integers.
THEOREM ProvisionedAsAsked == Spec => []ProvisionedFits
<1>1. IInv => ProvisionedFits
  <2> SUFFICES ASSUME IInv, NEW a \in Claim, claim[a] = "bound"
               PROVE  /\ vol[rec[a]].name = ToLower[a]
                      /\ vol[rec[a]].size >= ask[a].range.required /\ vol[rec[a]].size > 0
                      /\ vol[rec[a]].size % GB = 0
                      /\ vol[rec[a]].sharing <=> \E i \in DOMAIN ask[a].modes : ask[a].modes[i] \in MultiNode
    BY DEF ProvisionedFits
  <2>1. rec[a] \in Vol /\ Named(rec[a], a)
    BY DEF IInv, ClaimOK, Recorded
  <2>2. /\ vol[rec[a]].size = Size(a) /\ Size(a) > 0
        /\ vol[rec[a]].sharing = checkNeedSharing(ask[a].modes)
    BY <2>1 DEF IInv, VolOK
  <2>3. ask[a].range \in CapacityRange
    BY ProvisionAssumption DEF IInv, TypeOK
  <2>4. Size(a) >= ask[a].range.required /\ Size(a) % GB = 0
    BY <2>2, <2>3, SizeFits DEF Size
  <2> QED BY <2>1, <2>2, <2>4 DEF Named, checkNeedSharing
<1> QED BY <1>1, Invariance, PTL

\* Without overlapping creations a claim has one volume, which is there while
\* the claim is bound, and none once it is gone.
THEOREM SoleVolume == Spec => []OneVolume
<1>1. IInv => OneVolume
  <2> SUFFICES ASSUME IInv, NEW a \in Claim \ overlap
               PROVE  /\ \A i, j \in Vol : Exists(i) /\ Exists(j) /\ Named(i, a) /\ Named(j, a) => i = j
                      /\ claim[a] = "bound" => vol[rec[a]].state = "live"
                      /\ claim[a] = "gone" => \A i \in Vol : ~(Exists(i) /\ Named(i, a))
    BY DEF OneVolume
  <2>1. SoleOK(a)
    BY DEF IInv
  <2> QED BY <2>1 DEF SoleOK, Recorded
<1> QED BY <1>1, Invariance, PTL

\* However calls overlap, are repeated or run late, DeleteVolume removes only
\* the volume that was reported for a claim, and only after its release.
THEOREM RemovalIsReleased == Spec => RemovesOnlyReleased
<1>1. Init => RemovalOK
  <2> SUFFICES ASSUME Init PROVE RemovalOK
    OBVIOUS
  <2>1. \A i \in Vol, a \in Claim : ~Named(i, a)
    BY Names DEF Init, Named, NoVol
  <2> QED BY <2>1 DEF Init, RemovalOK, Deleting
<1>2. IInv /\ RemovalOK /\ [Next]_vars => RemovalOK'
  BY NextRemoval
<1>3. IInv /\ RemovalOK /\ [Next]_vars =>
        [\A i \in Vol, a \in Claim :
            Exists(i) /\ Named(i, a) /\ vol'[i].state = "deleted"
            => claim[a] \in {"deleting", "gone"} /\ i = rec[a]]_vars
  BY RemovalStep DEF Released
<1> QED BY <1>1, <1>2, <1>3, Invariance, PTL DEF Spec, RemovesOnlyReleased
=============================================================================
