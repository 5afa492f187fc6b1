---------------------------- MODULE ExpandProofs ----------------------------
(* Proofs about growing a volume: the device found for a client that waits *)
(* is the volume's, and no more is reported than there is, for any number  *)
(* of disks, names, calls, sizes, attempts and faults, and whatever udev   *)
(* has for the serials of the disks as long as the volume's is told apart. *)
EXTENDS Expand, WellFoundedInduction, TLAPS

(* The inductive invariant behind RightDevice and ReportedIsThere. *)

\* Where kernel and udev both have a disk for a name, it is the same one.
UdevOK == \A n \in Name : dev[n] # None /\ udev[n] # None => dev[n] = udev[n]

\* A handler whose client waits has found the volume's device or none, if no
\* other disk has its serial, and past the comparison of ResizeBlock that
\* device is as large as the volume was when its size was read.
CallOK(c) ==
    /\ pc[c] = "idle" => device[c] = None
    /\ pc[c] = "scan" => list[c] # {}
    /\ pc[c] \in Using => device[c] # None
    /\ size[c] <= volSize
    /\ c \in open => pc[c] # "idle"
    /\ UniqueSerial /\ c \in open =>
         /\ device[c] # None => dev[device[c]] = Vol
         /\ pc[c] \in {"format", "resizefs"} => size[c] <= devSize

IInv ==
    /\ TypeOK
    /\ UdevOK
    /\ \A c \in Call : CallOK(c)
    /\ devSize <= volSize /\ fsSize <= devSize
    /\ ReportedIsThere

-----------------------------------------------------------------------------
\* What is used of the assumption.
LEMMA Constants ==
    /\ Sizes \subseteq Nat /\ MaxFaults \in Nat /\ RetryLimit \in Nat
    /\ Name \subseteq Nat /\ None \notin Name
    /\ Vol \in Disk /\ None \notin Disk
BY ExpandAssumption

\* Sizes are numbers.
LEMMA SizeNat == \A s \in Sizes \cup {0} : s \in Nat
BY Constants

\* So are the sizes the state holds.
LEMMA SizeType ==
    TypeOK => /\ volSize \in Nat /\ devSize \in Nat /\ fsSize \in Nat /\ told \in Nat
              /\ \A c \in Call : size[c] \in Nat
BY SizeNat, Zenon DEF TypeOK

\* The first name of a list is one of it.
LEMMA MinIsMember ==
    ASSUME NEW S, S \subseteq Nat, S # {} PROVE Min(S) \in S
<1>1. PICK x \in S : \A y \in S : ~(<<y, x>> \in OpToRel(<, Nat))
  BY WFMin, NatLessThanWellFounded
<1>2. ASSUME NEW y \in S PROVE x <= y
  <2>1. <<y, x>> \in Nat \X Nat /\ <<y, x>>[1] = y /\ <<y, x>>[2] = x
    OBVIOUS
  <2>2. ~(y < x)
    BY <1>1, <2>1, Zenon DEF OpToRel
  <2> QED BY <2>2
<1> QED BY <1>2 DEF Min

\* Counting a fault keeps the bound.
LEMMA FaultFacts == ASSUME TypeOK, Fault PROVE faults' \in 0 .. MaxFaults
BY Constants DEF TypeOK, Fault

\* The calls that a step leaves alone keep their part of the invariant, if
\* sizes only grow and the volume's disk stays while a client waits.
LEMMA OthersInv ==
    ASSUME IInv, TypeOK', NEW D \in SUBSET Call,
           \A d \in D : /\ pc'[d] = pc[d] /\ size'[d] = size[d] /\ list'[d] = list[d]
                        /\ device'[d] = device[d] /\ (d \in open' => d \in open),
           volSize <= volSize', devSize <= devSize',
           open' # {} => \A n \in Name : dev[n] = Vol => dev'[n] = Vol
    PROVE  \A d \in D : CallOK(d)'
<1> SUFFICES ASSUME NEW d \in D PROVE CallOK(d)'
  OBVIOUS
<1>0. d \in Call /\ CallOK(d)
  BY DEF IInv
<1>1. size[d] \in Nat /\ volSize \in Nat /\ volSize' \in Nat /\ devSize \in Nat /\ devSize' \in Nat
  BY <1>0, SizeType, SizeNat, Zenon DEF IInv, TypeOK
<1>2. device[d] \in Name \cup {None} /\ None \notin Name
  BY <1>0, Constants DEF IInv, TypeOK
<1>3. UniqueSerial /\ d \in open' /\ device'[d] # None => dev'[device'[d]] = Vol
  BY <1>0, <1>2 DEF CallOK
<1>4. UniqueSerial /\ d \in open' /\ pc'[d] \in {"format", "resizefs"} => size'[d] <= devSize'
  BY <1>0, <1>1 DEF CallOK
<1>5. size'[d] <= volSize'
  BY <1>0, <1>1 DEF CallOK
<1> QED BY <1>0, <1>3, <1>4, <1>5 DEF CallOK

-----------------------------------------------------------------------------
(* Steps of a handler. *)

\* What a handler that goes on leaves alone.
LEMMA GotoFacts ==
    ASSUME TypeOK, NEW c \in Call, NEW place \in Steps, Goto(c, place)
    PROVE  /\ pc' \in [Call -> Steps \cup {"idle"}] /\ pc'[c] = place
           /\ \A d \in Call \ {c} : pc'[d] = pc[d]
           /\ UNCHANGED <<open, told>>
BY DEF Goto, TypeOK

\* What a handler that returns leaves behind.
LEMMA ReturnFacts ==
    ASSUME TypeOK, NEW c \in Call, NEW ok \in BOOLEAN, Return(c, ok)
    PROVE  /\ pc' \in [Call -> Steps \cup {"idle"}] /\ pc'[c] = "idle"
           /\ size' \in [Call -> Sizes \cup {0}] /\ size'[c] = 0
           /\ list' \in [Call -> SUBSET Name]
           /\ device' \in [Call -> Name \cup {None}] /\ device'[c] = None
           /\ tries' \in [Call -> 0 .. RetryLimit]
           /\ open' = open \ {c}
           /\ told' \in Sizes \cup {0}
           /\ told' = told \/ (ok /\ c \in open /\ told' = size[c])
           /\ \A d \in Call \ {c} : /\ pc'[d] = pc[d] /\ size'[d] = size[d] /\ list'[d] = list[d]
                                    /\ device'[d] = device[d]
<1>1. RetryLimit \in Nat
  BY Constants
<1>2. told' \in Sizes \cup {0} /\ (told' = told \/ (ok /\ c \in open /\ told' = size[c]))
  BY DEF Return, TypeOK
<1> QED BY <1>1, <1>2 DEF Return, TypeOK

\* A handler returns; what it reports, if its client waits, is there.
LEMMA ReturnInv ==
    ASSUME IInv, NEW c \in Call, NEW ok \in BOOLEAN, Return(c, ok),
           UNCHANGED <<volSize, dev, udev, devSize, cap>>,
           faults' \in 0 .. MaxFaults, fsSize' \in {fsSize, devSize},
           UniqueSerial /\ ok /\ c \in open => /\ size[c] <= devSize
                                               /\ Format \in Resizable => size[c] <= fsSize'
    PROVE  IInv'
<1>0. TypeOK /\ CallOK(c) /\ ReportedIsThere /\ devSize <= volSize /\ fsSize <= devSize
  BY DEF IInv
<1>1. TypeOK'
  BY <1>0, ReturnFacts DEF TypeOK
<1>2. UdevOK'
  BY DEF IInv, UdevOK
<1>3. volSize \in Nat /\ devSize \in Nat /\ fsSize \in Nat /\ told \in Nat
  BY <1>0, SizeType
<1>4. \A d \in Call \ {c} : CallOK(d)'
  <2>1. \A d \in Call \ {c} : /\ pc'[d] = pc[d] /\ size'[d] = size[d] /\ list'[d] = list[d]
                               /\ device'[d] = device[d] /\ (d \in open' => d \in open)
    BY <1>0, ReturnFacts
  <2>2. volSize <= volSize' /\ devSize <= devSize'
    BY <1>3
  <2> QED BY <1>1, <2>1, <2>2, OthersInv, Zenon
<1>5. CallOK(c)'
  BY <1>0, <1>3, ReturnFacts DEF CallOK, Using
<1>6. ReportedIsThere' /\ devSize' <= volSize' /\ fsSize' <= devSize'
  BY <1>0, <1>3, ReturnFacts DEF ReportedIsThere
<1> QED BY <1>1, <1>2, <1>4, <1>5, <1>6 DEF IInv

\* A handler goes on; only the kernel's size of the device may change with it.
LEMMA GoInv ==
    ASSUME IInv, NEW c \in Call, NEW place \in Steps, Goto(c, place), TypeOK', CallOK(c)',
           \A d \in Call \ {c} : /\ size'[d] = size[d] /\ list'[d] = list[d]
                                 /\ device'[d] = device[d],
           UNCHANGED <<volSize, dev, udev, fsSize, cap>>,
           devSize' \in {devSize, volSize}
    PROVE  IInv'
<1>0. TypeOK /\ ReportedIsThere /\ devSize <= volSize /\ fsSize <= devSize
  BY DEF IInv
<1>1. UdevOK'
  BY DEF IInv, UdevOK
<1>2. volSize \in Nat /\ devSize \in Nat /\ fsSize \in Nat /\ told \in Nat
  BY <1>0, SizeType
<1>3. \A d \in Call \ {c} : CallOK(d)'
  <2>1. \A d \in Call \ {c} : /\ pc'[d] = pc[d] /\ size'[d] = size[d] /\ list'[d] = list[d]
                               /\ device'[d] = device[d] /\ (d \in open' => d \in open)
    BY <1>0, GotoFacts
  <2>2. volSize <= volSize' /\ devSize <= devSize'
    BY <1>0, <1>2
  <2> QED BY <2>1, <2>2, OthersInv, Zenon
<1>4. ReportedIsThere' /\ devSize' <= volSize' /\ fsSize' <= devSize'
  BY <1>0, <1>2, GotoFacts DEF ReportedIsThere
<1> QED BY <1>1, <1>3, <1>4 DEF IInv

\* ResizeBlock tries again or gives up.
LEMMA AgainInv ==
    ASSUME IInv, NEW c \in Call, Again(c), pc[c] \in {"rescan", "size"},
           UNCHANGED <<volSize, host, cap>>, faults' \in 0 .. MaxFaults
    PROVE  IInv'
<1>0. TypeOK /\ CallOK(c)
  BY DEF IInv
<1>1. CASE tries[c] + 1 < RetryLimit
  <2>1. /\ Goto(c, "rescan") /\ "rescan" \in Steps /\ UNCHANGED <<size, list, device>>
        /\ tries' = [tries EXCEPT ![c] = @ + 1]
    BY <1>1 DEF Again, Steps
  <2>2. tries' \in [Call -> 0 .. RetryLimit]
    BY <1>0, <1>1, <2>1, Constants DEF TypeOK
  <2>3. TypeOK'
    BY <1>0, <2>1, <2>2, GotoFacts DEF TypeOK, host
  <2>4. CallOK(c)'
    BY <1>0, <2>1, GotoFacts DEF CallOK, Using, host
  <2> QED BY <2>1, <2>3, <2>4, GoInv DEF host
<1>2. CASE ~(tries[c] + 1 < RetryLimit)
  <2>1. Return(c, FALSE)
    BY <1>2 DEF Again
  <2> QED BY <1>0, <2>1, ReturnInv DEF host
<1> QED BY <1>1, <1>2

\* The steps up to the search.
LEMMA SearchInv ==
    ASSUME IInv, NEW c \in Call, GetVolume(c) \/ GetDisk(c) \/ Lsblk(c) PROVE IInv'
<1>0. TypeOK /\ CallOK(c) /\ volSize \in Nat
  BY Constants DEF IInv, TypeOK
<1>1. CASE GetVolume(c)
  <2>1. /\ pc[c] = "volume" /\ Goto(c, "disk") /\ "disk" \in Steps
        /\ size' = [size EXCEPT ![c] = volSize]
        /\ UNCHANGED <<list, device, tries, volSize, dev, udev, devSize, fsSize, cap, faults>>
    BY <1>1 DEF GetVolume, At, Steps, host
  <2>2. TypeOK' /\ size'[c] = volSize /\ \A d \in Call \ {c} : size'[d] = size[d]
    BY <1>0, <2>1, GotoFacts DEF TypeOK
  <2>3. CallOK(c)'
    BY <1>0, <2>1, <2>2, GotoFacts DEF CallOK, Using
  <2> QED BY <2>1, <2>2, <2>3, GoInv
<1>2. CASE GetDisk(c)
  <2>1. /\ pc[c] = "disk" /\ Goto(c, "lsblk") /\ "lsblk" \in Steps
        /\ UNCHANGED <<size, list, device, tries, volSize, dev, udev, devSize, fsSize, cap, faults>>
    BY <1>2 DEF GetDisk, At, Steps, host
  <2>2. TypeOK'
    BY <1>0, <2>1, GotoFacts DEF TypeOK
  <2>3. CallOK(c)'
    BY <1>0, <2>1, GotoFacts DEF CallOK, Using
  <2> QED BY <2>1, <2>2, <2>3, GoInv
<1>3. CASE Lsblk(c)
  <2>1. /\ pc[c] = "lsblk" /\ Goto(c, "scan") /\ "scan" \in Steps
        /\ list' = [list EXCEPT ![c] = {n \in Name : dev[n] # None}] /\ list'[c] # {}
        /\ UNCHANGED <<size, device, tries, volSize, dev, udev, devSize, fsSize, cap, faults>>
    BY <1>3 DEF Lsblk, At, Steps, host
  <2>2. TypeOK' /\ \A d \in Call \ {c} : list'[d] = list[d]
    BY <1>0, <2>1, GotoFacts DEF TypeOK
  <2>3. CallOK(c)'
    BY <1>0, <2>1, GotoFacts DEF CallOK, Using
  <2> QED BY <2>1, <2>2, <2>3, GoInv
<1> QED BY <1>1, <1>2, <1>3

\* One name of the search: what udev takes for the volume is the volume, as
\* the kernel has a disk for that name too.
LEMMA ScanInv ==
    ASSUME IInv, NEW c \in Call, Scan(c) PROVE IInv'
<1> DEFINE n == Min(list[c])
           rest == list[c] \ {n}
           place == IF rest = {} THEN "rescan" ELSE "scan"
           found == IF Matches(n) THEN n ELSE device[c]
<1>0. TypeOK /\ CallOK(c) /\ UdevOK /\ None \notin Name
  BY Constants DEF IInv
<1>1. /\ pc[c] = "scan" /\ Answered(n)
      /\ rest # {} \/ device[c] # None \/ Matches(n)
      /\ device' = [device EXCEPT ![c] = found] /\ list' = [list EXCEPT ![c] = rest]
      /\ Goto(c, place) /\ place \in Steps
      /\ UNCHANGED <<size, tries, volSize, dev, udev, devSize, fsSize, cap, faults>>
  BY DEF Scan, At, Steps, host
<1>2. n \in Name
  <2>1. list[c] \subseteq Name /\ list[c] # {} /\ Name \subseteq Nat
    BY <1>0, <1>1, Constants DEF TypeOK, CallOK
  <2> QED BY <2>1, MinIsMember
<1> HIDE DEF n
<1>3. /\ TypeOK' /\ device'[c] = found /\ list'[c] = rest
      /\ \A d \in Call \ {c} : device'[d] = device[d] /\ list'[d] = list[d]
  <2>1. found \in Name \cup {None} /\ rest \in SUBSET Name
    BY <1>0, <1>2 DEF TypeOK
  <2> HIDE DEF found, rest, place
  <2> QED BY <1>0, <1>1, <2>1, GotoFacts DEF TypeOK
<1>4. UniqueSerial /\ Matches(n) => dev[n] = Vol
  BY <1>0, <1>1, <1>2, Constants DEF Answered, Matches, UdevOK, UniqueSerial
<1>5. UniqueSerial /\ c \in open /\ found # None => dev[found] = Vol
  BY <1>0, <1>4 DEF CallOK
<1>6. place = "rescan" => found # None
  BY <1>0, <1>1, <1>2
<1>7. pc'[c] = place /\ open' = open
  BY <1>0, <1>1, GotoFacts
<1>8. CallOK(c)'
  <2>1. /\ pc'[c] = "scan" => list'[c] # {}
        /\ pc'[c] \in Using => device'[c] # None
        /\ pc'[c] \notin {"idle", "format", "resizefs"}
    BY <1>3, <1>6, <1>7 DEF Using
  <2>2. size'[c] <= volSize'
    BY <1>0, <1>1 DEF CallOK
  <2>3. UniqueSerial /\ c \in open' /\ device'[c] # None => dev'[device'[c]] = Vol
    BY <1>1, <1>3, <1>5, <1>7
  <2> QED BY <2>1, <2>2, <2>3 DEF CallOK
<1> HIDE DEF found, rest, place
<1> QED BY <1>1, <1>3, <1>8, GoInv

\* ResizeBlock's rescan.
LEMMA RescanInv ==
    ASSUME IInv, NEW c \in Call, Rescan(c) PROVE IInv'
<1>0. TypeOK /\ CallOK(c)
  BY DEF IInv
<1>1. pc[c] = "rescan" /\ UNCHANGED <<volSize, dev, udev, fsSize, cap>>
  BY DEF Rescan, At
<1>2. CASE Again(c) /\ UNCHANGED <<devSize, faults>>
  BY <1>0, <1>1, <1>2, AgainInv DEF TypeOK, host
<1>3. CASE /\ Goto(c, "size") /\ UNCHANGED <<size, list, device, tries>>
           /\ \/ devSize' = (IF dev[device[c]] = Vol THEN volSize ELSE devSize) /\ UNCHANGED faults
              \/ UNCHANGED devSize /\ Fault
  <2>1. "size" \in Steps /\ devSize' \in {devSize, volSize} /\ faults' \in 0 .. MaxFaults
    BY <1>0, <1>3, FaultFacts DEF Steps, TypeOK
  <2>2. TypeOK'
    BY <1>0, <1>1, <1>3, <2>1, GotoFacts DEF TypeOK
  <2>3. CallOK(c)'
    BY <1>0, <1>1, <1>3, <2>1, GotoFacts DEF CallOK, Using
  <2> QED BY <1>1, <1>3, <2>1, <2>2, <2>3, GoInv
<1> QED BY <1>2, <1>3 DEF Rescan

\* ResizeBlock's comparison.
LEMMA GetDeviceSizeInv ==
    ASSUME IInv, NEW c \in Call, GetDeviceSize(c) PROVE IInv'
<1>0. TypeOK /\ CallOK(c)
  BY DEF IInv
<1>1. pc[c] = "size" /\ UNCHANGED <<volSize, host, cap, faults>>
  BY DEF GetDeviceSize, At
<1>2. CASE Again(c)
  BY <1>0, <1>1, <1>2, AgainInv DEF TypeOK
<1>3. CASE /\ dev[device[c]] # None /\ DeviceSize(device[c]) >= size[c]
           /\ Goto(c, "format") /\ UNCHANGED <<size, list, device, tries>>
  <2>1. "format" \in Steps /\ device[c] # None
    BY <1>0, <1>1 DEF Steps, CallOK, Using
  <2>2. TypeOK' /\ pc'[c] = "format" /\ UNCHANGED open
    BY <1>0, <1>1, <1>3, <2>1, GotoFacts DEF TypeOK, host
  <2>3. UniqueSerial /\ c \in open => dev[device[c]] = Vol /\ size[c] <= devSize
    BY <1>0, <1>3, <2>1, SizeType DEF CallOK, DeviceSize
  <2>4. CallOK(c)'
    BY <1>0, <1>1, <1>3, <2>2, <2>3 DEF CallOK, Using, host
  <2> QED BY <1>1, <1>3, <2>1, <2>2, <2>4, GoInv DEF host
<1> QED BY <1>2, <1>3 DEF GetDeviceSize

\* The file system, if there is one, is grown.
LEMMA GrowFSInv ==
    ASSUME IInv, NEW c \in Call, GetDiskFormat(c) \/ ResizeFS(c) PROVE IInv'
<1>0. TypeOK /\ CallOK(c) /\ faults \in 0 .. MaxFaults
  BY DEF IInv, TypeOK
<1>1. CASE GetDiskFormat(c)
  <2>1. pc[c] = "format" /\ UNCHANGED <<volSize, dev, udev, devSize, fsSize, cap, faults>>
    BY <1>1 DEF GetDiskFormat, At, host
  <2>2. device[c] # None
    BY <1>0, <2>1 DEF CallOK, Using
  <2>3. CASE /\ (IF dev[device[c]] = Vol THEN Format ELSE "ext4") = ""
             /\ Return(c, TRUE)
    <3>1. UniqueSerial /\ c \in open => size[c] <= devSize /\ Format \notin Resizable
      BY <1>0, <2>1, <2>2, <2>3 DEF CallOK, Resizable
    <3> QED BY <1>0, <2>1, <2>3, <3>1, ReturnInv
  <2>4. CASE Goto(c, "resizefs") /\ UNCHANGED <<size, list, device, tries>>
    <3>1. "resizefs" \in Steps
      BY DEF Steps
    <3>2. TypeOK'
      BY <1>0, <2>1, <2>4, <3>1, GotoFacts DEF TypeOK
    <3>3. CallOK(c)'
      BY <1>0, <2>1, <2>2, <2>4, <3>1, GotoFacts DEF CallOK, Using
    <3> QED BY <2>1, <2>4, <3>1, <3>2, <3>3, GoInv
  <2> QED BY <1>1, <2>3, <2>4 DEF GetDiskFormat
<1>2. CASE ResizeFS(c)
  <2>1. /\ pc[c] = "resizefs" /\ Return(c, TRUE)
        /\ fsSize' = IF dev[device[c]] = Vol THEN devSize ELSE fsSize
        /\ UNCHANGED <<volSize, dev, udev, devSize, cap, faults>>
    BY <1>2 DEF ResizeFS, At
  <2>2. UniqueSerial /\ c \in open => dev[device[c]] = Vol /\ size[c] <= devSize
    BY <1>0, <2>1 DEF CallOK, Using
  <2> QED BY <1>0, <2>1, <2>2, ReturnInv
<1> QED BY <1>1, <1>2

\* A handler that fails.
LEMMA FailInv ==
    ASSUME IInv, NEW c \in Call, Refuse(c) \/ Fail(c) PROVE IInv'
<1>1. UNCHANGED <<volSize, dev, udev, devSize, fsSize, cap>> /\ faults' \in 0 .. MaxFaults
  BY FaultFacts DEF IInv, TypeOK, Refuse, Fail, host
<1>2. CASE Return(c, FALSE)
  BY <1>1, <1>2, ReturnInv
<1>3. CASE Again(c) /\ pc[c] \in {"rescan", "size"}
  BY <1>1, <1>3, AgainInv DEF host
<1> QED BY <1>2, <1>3 DEF Refuse, Fail

\* The process ends: no handler is left, what was reported stays.
LEMMA CrashInv ==
    ASSUME IInv, Crash PROVE IInv'
<1>0. TypeOK /\ volSize \in Nat /\ RetryLimit \in Nat
  BY SizeType, Constants DEF IInv
<1>1. /\ pc' = [c \in Call |-> "idle"] /\ size' = [c \in Call |-> 0] /\ open' = {}
      /\ list' = [c \in Call |-> {}] /\ device' = [c \in Call |-> None]
      /\ tries' = [c \in Call |-> 0]
      /\ UNCHANGED <<volSize, dev, udev, devSize, fsSize, cap, told>>
      /\ faults' \in 0 .. MaxFaults
  BY <1>0, FaultFacts DEF Crash, host
<1>2. TypeOK'
  BY <1>0, <1>1 DEF TypeOK
<1>3. \A c \in Call : CallOK(c)'
  BY <1>0, <1>1 DEF CallOK, Using
<1>4. UdevOK' /\ ReportedIsThere' /\ devSize' <= volSize' /\ fsSize' <= devSize'
  BY <1>1 DEF IInv, UdevOK, ReportedIsThere
<1> QED BY <1>2, <1>3, <1>4 DEF IInv

-----------------------------------------------------------------------------
(* The kubelet, CloudTower and the kernel. *)

\* A step that leaves the handlers alone.
LEMMA WorldInv ==
    ASSUME IInv, TypeOK', UdevOK', UNCHANGED <<handler, told, fsSize>>, open' \subseteq open,
           volSize <= volSize', devSize <= devSize', devSize' <= volSize', cap' <= volSize',
           open' # {} => \A n \in Name : dev[n] = Vol => dev'[n] = Vol
    PROVE  IInv'
<1>0. TypeOK /\ ReportedIsThere /\ fsSize <= devSize
  BY DEF IInv
<1>1. \A d \in Call : CallOK(d)'
  <2>1. \A d \in Call : /\ pc'[d] = pc[d] /\ size'[d] = size[d] /\ list'[d] = list[d]
                        /\ device'[d] = device[d] /\ (d \in open' => d \in open)
    BY DEF handler
  <2>2. Call \in SUBSET Call
    OBVIOUS
  <2> QED BY <2>1, <2>2, OthersInv, Zenon
<1>2. devSize' \in Nat /\ volSize' \in Nat
  BY SizeNat, Zenon DEF TypeOK
<1>3. ReportedIsThere' /\ fsSize' <= devSize'
  BY <1>0, <1>2, SizeType DEF ReportedIsThere
<1> QED BY <1>1, <1>3 DEF IInv

\* What others do, apart from a new call.
LEMMA OutsideInv ==
    ASSUME IInv,
           \/ \E c \in Call : GiveUp(c)
           \/ \E a \in Ask : ControllerExpandVolume(a)
           \/ Grow
           \/ \E n \in Name : Unplug(n) \/ Settle(n) \/ \E d \in Disk : Plug(d, n)
    PROVE  IInv'
<1>0. /\ TypeOK /\ UdevOK /\ volSize \in Nat /\ devSize \in Nat
      /\ devSize <= volSize /\ cap <= volSize /\ faults \in 0 .. MaxFaults
      /\ None \notin Disk /\ Vol \in Disk
  BY SizeType, Constants DEF IInv, TypeOK, ReportedIsThere
<1>1. ASSUME NEW c \in Call, GiveUp(c) PROVE IInv'
  <2>1. /\ open' = open \ {c} /\ faults' \in 0 .. MaxFaults
        /\ UNCHANGED <<handler, volSize, dev, udev, devSize, fsSize, cap, told>>
    BY <1>0, <1>1, FaultFacts DEF GiveUp, host
  <2>2. TypeOK' /\ UdevOK'
    BY <1>0, <2>1 DEF TypeOK, UdevOK, handler
  <2> QED BY <1>0, <2>1, <2>2, WorldInv
<1>2. ASSUME NEW a \in Ask, ControllerExpandVolume(a) PROVE IInv'
  <2>1. /\ cap' = volSize
        /\ UNCHANGED <<handler, open, volSize, dev, udev, devSize, fsSize, told, faults>>
    BY <1>2 DEF ControllerExpandVolume, host
  <2>2. TypeOK' /\ UdevOK'
    BY <1>0, <2>1 DEF TypeOK, UdevOK, handler
  <2> QED BY <1>0, <2>1, <2>2, WorldInv
<1>3. CASE Grow
  <2>1. /\ volSize' \in Sizes /\ volSize' > volSize
        /\ UNCHANGED <<handler, open, dev, udev, devSize, fsSize, cap, told, faults>>
    BY <1>3 DEF Grow, host
  <2>2. TypeOK' /\ UdevOK'
    BY <1>0, <2>1 DEF TypeOK, UdevOK, handler
  <2>3. volSize <= volSize' /\ devSize <= volSize' /\ cap' <= volSize'
    <3>1. volSize' \in Nat /\ cap \in Nat
      BY <1>0, <2>1, SizeNat, Zenon DEF TypeOK
    <3> QED BY <1>0, <2>1, <3>1
  <2> QED BY <1>0, <2>1, <2>2, <2>3, WorldInv
<1>4. ASSUME NEW n \in Name, Unplug(n) PROVE IInv'
  <2>1. /\ dev[n] = Vol => open = {}
        /\ faults' \in 0 .. MaxFaults /\ dev' = [dev EXCEPT ![n] = None]
        /\ UNCHANGED <<handler, open, volSize, udev, devSize, fsSize, cap, told>>
    BY <1>0, <1>4, FaultFacts DEF Unplug
  <2>2. TypeOK' /\ UdevOK'
    BY <1>0, <2>1 DEF TypeOK, UdevOK, handler
  <2>3. open' # {} => \A m \in Name : dev[m] = Vol => dev'[m] = Vol
    BY <1>0, <2>1 DEF TypeOK
  <2> QED BY <1>0, <2>1, <2>2, <2>3, WorldInv
<1>5. ASSUME NEW n \in Name, Settle(n) PROVE IInv'
  <2>1. /\ udev' = [udev EXCEPT ![n] = dev[n]]
        /\ UNCHANGED <<handler, open, volSize, dev, devSize, fsSize, cap, told, faults>>
    BY <1>5 DEF Settle
  <2>2. TypeOK' /\ UdevOK'
    BY <1>0, <2>1 DEF TypeOK, UdevOK, handler
  <2> QED BY <1>0, <2>1, <2>2, WorldInv
<1>6. ASSUME NEW n \in Name, NEW d \in Disk, Plug(d, n) PROVE IInv'
  <2>1. /\ dev[n] = None /\ udev[n] = None /\ dev' = [dev EXCEPT ![n] = d]
        /\ devSize' \in {volSize, devSize}
        /\ UNCHANGED <<handler, open, volSize, udev, fsSize, cap, told, faults>>
    BY <1>6 DEF Plug
  <2>2. TypeOK' /\ UdevOK'
    BY <1>0, <2>1 DEF TypeOK, UdevOK, handler
  <2>3. \A m \in Name : dev[m] = Vol => dev'[m] = Vol
    BY <1>0, <2>1 DEF TypeOK
  <2> QED BY <1>0, <2>1, <2>2, <2>3, WorldInv
<1> QED BY <1>1, <1>2, <1>3, <1>4, <1>5, <1>6

\* A new call has found nothing yet.
LEMMA StartInv ==
    ASSUME IInv, NEW c \in Call, NodeExpandVolume(c) PROVE IInv'
<1>0. TypeOK /\ CallOK(c) /\ volSize \in Nat /\ devSize \in Nat
  BY SizeType DEF IInv
<1>1. /\ pc[c] = "idle" /\ open = {} /\ pc' = [pc EXCEPT ![c] = "volume"] /\ open' = {c}
      /\ UNCHANGED <<size, list, device, tries, volSize, dev, udev, devSize, fsSize, cap, told, faults>>
  BY DEF NodeExpandVolume, host
<1>2. TypeOK' /\ pc'[c] = "volume" /\ \A d \in Call \ {c} : pc'[d] = pc[d]
  BY <1>0, <1>1 DEF TypeOK, Steps
<1>3. \A d \in Call \ {c} : CallOK(d)'
  <2>1. \A d \in Call \ {c} : d \in open' => d \in open
    BY <1>1
  <2>2. volSize <= volSize' /\ devSize <= devSize'
    BY <1>0, <1>1
  <2> QED BY <1>1, <1>2, <2>1, <2>2, OthersInv
<1>4. CallOK(c)'
  BY <1>0, <1>1, <1>2 DEF CallOK, Using
<1>5. UdevOK' /\ ReportedIsThere' /\ devSize' <= volSize' /\ fsSize' <= devSize'
  BY <1>1 DEF IInv, UdevOK, ReportedIsThere
<1> QED BY <1>2, <1>3, <1>4, <1>5 DEF IInv

-----------------------------------------------------------------------------
(* The theorems. *)

\* The invariant holds initially.
LEMMA InitInv == Init => IInv
<1> SUFFICES ASSUME Init PROVE IInv
  OBVIOUS
<1>1. volSize \in Nat /\ 0 \in 0 .. MaxFaults /\ 0 \in 0 .. RetryLimit
  BY SizeNat, Constants DEF Init
<1>2. PICK n \in Name : dev = [m \in Name |-> IF m = n THEN Vol ELSE None]
  BY DEF Init
<1>3. TypeOK
  BY <1>1, <1>2, Constants DEF Init, TypeOK
<1>4. UdevOK
  BY DEF Init, UdevOK
<1>5. \A c \in Call : CallOK(c)
  BY <1>1 DEF Init, CallOK, Using
<1>6. ReportedIsThere /\ devSize <= volSize /\ fsSize <= devSize
  BY <1>1 DEF Init, ReportedIsThere
<1> QED BY <1>3, <1>4, <1>5, <1>6 DEF IInv

\* Every step keeps it.
LEMMA NextInv == IInv /\ [Next]_vars => IInv'
<1> SUFFICES ASSUME IInv, [Next]_vars PROVE IInv'
  OBVIOUS
<1>1. ASSUME NEW c \in Call, Step(c) PROVE IInv'
  BY <1>1, SearchInv, ScanInv, RescanInv, GetDeviceSizeInv, GrowFSInv DEF Step
<1>2. ASSUME NEW c \in Call, Refuse(c) \/ Fail(c) \/ NodeExpandVolume(c) PROVE IInv'
  BY <1>2, FailInv, StartInv
<1>3. CASE \/ \E c \in Call : GiveUp(c)
           \/ \E a \in Ask : ControllerExpandVolume(a)
           \/ Grow
           \/ \E n \in Name : Unplug(n) \/ Settle(n) \/ \E d \in Disk : Plug(d, n)
  BY <1>3, OutsideInv
<1>4. CASE Crash
  BY <1>4, CrashInv
<1>5. CASE UNCHANGED vars
  <2>1. TypeOK' /\ UdevOK'
    BY <1>5 DEF IInv, TypeOK, UdevOK, vars, handler, host
  <2>2. volSize \in Nat /\ devSize \in Nat /\ devSize <= volSize /\ cap <= volSize
    BY SizeType DEF IInv, ReportedIsThere
  <2>3. UNCHANGED <<handler, told, fsSize, open, volSize, devSize, cap, dev>>
    BY <1>5 DEF vars, host
  <2> QED BY <2>1, <2>2, <2>3, WorldInv
<1> QED BY <1>1, <1>2, <1>3, <1>4, <1>5 DEF Next

\* The inductive invariant: see IInv for its parts.
THEOREM Invariance == Spec => []IInv
  BY InitInv, NextInv, PTL DEF Spec

\* What is resized for a client that waits is the disk of its volume, if no
\* other disk matches the volume's serial.
THEOREM ResizesTheVolume == Spec => []RightDevice
<1>1. IInv => RightDevice
  BY DEF IInv, TypeOK, CallOK, RightDevice
<1> QED BY <1>1, Invariance, PTL

\* Neither service reports more than there is; for the node, if no other disk
\* matches the volume's serial.
THEOREM ReportsWhatIsThere == Spec => []ReportedIsThere
<1>1. IInv => ReportedIsThere
  BY DEF IInv
<1> QED BY <1>1, Invariance, PTL
=============================================================================
