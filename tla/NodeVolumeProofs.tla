-------------------------- MODULE NodeVolumeProofs --------------------------
(***************************************************************************)
(* Proofs about NodeVolume, for a kubelet that waits for its calls: the    *)
(* invariant IInv is inductive, and with it a published target shows the   *)
(* volume, an unmounted path is clean and stored data is kept, for every   *)
(* number of pods and calls, block volume or not.                          *)
(***************************************************************************)
EXTENDS NodeVolume, SequenceTheorems, TLAPS

(* The inductive invariant behind the safety properties, for a kubelet     *)
(* that waits for its calls (Spec).                                        *)

\* What a call asks for, what the kubelet thinks meanwhile, and which other
\* calls it lets run.
CallOK(c) ==
    LET p == req[c].path IN
    /\ pc[c] = "idle" <=> req[c] = NoReq
    /\ pc[c] = "idle" <=> c \notin open
    /\ pc[c] \in Mounting =>
          /\ req[c].op = "mount" /\ known[p] = "maybe"
          /\ attached
          /\ p # Staging => known[Staging] = "yes"
          /\ open = {c}
    /\ pc[c] \in Unmounting =>
          /\ req[c].op = "unmount" /\ known[p] = "closing"
          /\ p = Staging => Unused /\ open = {c}
          /\ \A d \in open : c # d => req[d].op = "unmount" /\ req[d].path \in Target \ {p}

\* What the handler has seen still holds when it acts on it.
SeenOK(c) ==
    LET p == req[c].path IN
    /\ pc[c] \in {"check", "format", "mkfs", "mount", "bind", "remount"} => p \in exists
    /\ pc[c] \in {"format", "mkfs", "mount", "bind", "remove"} => mnt[p] = << >>
    /\ pc[c] \in {"format", "mkfs", "mount"} => ~Block /\ p = Staging
    /\ pc[c] = "bind" => Block \/ p # Staging
    /\ pc[c] \in {"remount", "umount"} => mnt[p] # << >>
    /\ pc[c] = "mkfs" => ~fs
    /\ pc[c] = "mount" => fs

\* A path carries at most one mount, of the volume; it exists, and its file
\* system was made.
MountOK(p) ==
    /\ Len(mnt[p]) <= 1
    /\ mnt[p] # << >> => mnt[p][1].vol /\ p \in exists /\ (Block \/ fs)
    /\ known[p] = "yes" => mnt[p] # << >>
    /\ known[p] = "no" => mnt[p] = << >>
    /\ ~attached => known[p] = "no"

IInv ==
    /\ TypeOK
    /\ \A c \in Call : CallOK(c) /\ SeenOK(c)
    /\ \A p \in Path : MountOK(p)
    /\ written => data /\ (Block \/ fs)

-----------------------------------------------------------------------------
\* A push on an empty stack of mounts.
LEMMA PushEmpty ==
    ASSUME NEW x \in Layer
    PROVE  /\ Append(<< >>, x) \in Seq(Layer)
           /\ Append(<< >>, x) # << >>
           /\ Len(Append(<< >>, x)) = 1
           /\ Append(<< >>, x)[1] = x
  OBVIOUS

\* A stack of at most one mount that is not empty; a pop empties it.
LEMMA PopSingle ==
    ASSUME NEW s \in Seq(Layer), Len(s) <= 1, s # << >>
    PROVE  Len(s) = 1 /\ s[1] \in Layer /\ SubSeq(s, 1, Len(s) - 1) = << >>
<1>0. Len(s) \in Nat \ {0}
  BY EmptySeq, Zenon
<1>1. Len(s) = 1
  <2>1. \A n \in Nat \ {0} : n <= 1 => n = 1
    OBVIOUS
  <2> QED
    BY <1>0, <2>1, Zenon
<1>2. s[1] \in Layer
  BY <1>1
<1>3. SubSeq(s, 1, Len(s) - 1) = << >>
  BY <1>1
<1> QED
  BY <1>1, <1>2, <1>3

\* The options of the only mount of a stack are changed.
LEMMA SetSingle ==
    ASSUME NEW s \in Seq(Layer), Len(s) = 1, NEW b \in BOOLEAN
    PROVE  LET r == [s EXCEPT ![1].ro = b] IN
           r \in Seq(Layer) /\ Len(r) = 1 /\ r # << >> /\ r[1].vol = s[1].vol
<1> DEFINE e == [s[1] EXCEPT !.ro = b]
<1>0. s[1] \in Layer
  <2>1. 1 \in 1 .. 1
    OBVIOUS
  <2> QED
    BY <2>1, ElementOfSeq, Zenon
<1>1. e \in Layer /\ e.vol = s[1].vol
  BY <1>0 DEF Layer
<1>2. [s EXCEPT ![1].ro = b] = [s EXCEPT ![1] = e]
  OBVIOUS
<1> HIDE DEF e
<1>3. /\ [s EXCEPT ![1] = e] \in Seq(Layer)
      /\ Len([s EXCEPT ![1] = e]) = 1
      /\ [s EXCEPT ![1] = e][1] = e
  BY <1>1, ExceptSeq
<1>4. [s EXCEPT ![1] = e] # << >>
  BY <1>3
<1> QED
  BY <1>1, <1>2, <1>3, <1>4

\* A running handler serves a request.
LEMMA Requested ==
    ASSUME IInv, NEW c \in Call, pc[c] # "idle"
    PROVE  req[c] \in Request /\ req[c].path \in Path
  BY DEF IInv, TypeOK, CallOK, Request

\* What a returning handler leaves: its slot free, its caller told the truth
\* or nothing.
LEMMA ReturnFacts ==
    ASSUME IInv, NEW c \in Call, pc[c] # "idle", NEW ok \in BOOLEAN, Return(c, ok)
    PROVE  /\ pc' \in [Call -> Mounting \cup Unmounting \cup {"idle"}]
           /\ req' \in [Call -> Request \cup {NoReq}]
           /\ open' \subseteq Call
           /\ known' \in [Path -> {"no", "maybe", "yes", "closing"}]
           /\ drain' \in BOOLEAN
  BY Requested DEF IInv, TypeOK, Return

\* An error answer undoes nothing and is safe.
LEMMA FailInv ==
    ASSUME IInv, NEW c \in Call, Fail(c)
    PROVE  IInv'
PROOF
<1>1. TypeOK'
  BY NodeVolumeAssumption DEF IInv, TypeOK, Mounting, Unmounting, Fail, Return,
      handler, host, disk, kubelet, Path, Request
<1>2. ASSUME NEW d \in Call PROVE CallOK(d)'
  BY NodeVolumeAssumption DEF IInv, TypeOK, CallOK, Unused, Mounting, Unmounting,
      Fail, Return, handler, host, disk, kubelet, Path, Request
<1>3. ASSUME NEW d \in Call PROVE SeenOK(d)'
  BY NodeVolumeAssumption DEF IInv, TypeOK, CallOK, SeenOK, MountOK, Mounting,
      Unmounting, Fail, Return, handler, host, disk, kubelet, Path, Request
<1>4. ASSUME NEW p \in Path PROVE MountOK(p)'
  BY NodeVolumeAssumption DEF IInv, TypeOK, CallOK, SeenOK, MountOK, Mounting,
      Unmounting, Fail, Return, handler, host, disk, kubelet, Path, Request
<1>5. (written => data /\ (Block \/ fs))'
  BY NodeVolumeAssumption DEF IInv, TypeOK, SeenOK, MountOK, Fail, Return, handler,
      host, disk, kubelet, Path, Request
<1> QED
  BY <1>1, <1>2, <1>3, <1>4, <1>5 DEF IInv

\* Finding the device: the volume stays attached while a mount runs.
LEMMA GetVolumeDeviceInv ==
    ASSUME IInv, NEW c \in Call, GetVolumeDevice(c)
    PROVE  IInv'
PROOF
<1>1. TypeOK'
  BY NodeVolumeAssumption DEF IInv, TypeOK, Mounting, Unmounting, GetVolumeDevice,
      Goto, At, handler, host, disk, kubelet, Path, Request
<1>2. ASSUME NEW d \in Call PROVE CallOK(d)'
  BY NodeVolumeAssumption DEF IInv, TypeOK, CallOK, Unused, Mounting, Unmounting,
      GetVolumeDevice, Goto, At, handler, host, disk, kubelet, Path, Request
<1>3. ASSUME NEW d \in Call PROVE SeenOK(d)'
  BY NodeVolumeAssumption DEF IInv, TypeOK, CallOK, SeenOK, MountOK, Mounting,
      Unmounting, GetVolumeDevice, Goto, At, handler, host, disk, kubelet, Path,
      Request
<1>4. ASSUME NEW p \in Path PROVE MountOK(p)'
  BY NodeVolumeAssumption DEF IInv, TypeOK, CallOK, SeenOK, MountOK, Mounting,
      Unmounting, GetVolumeDevice, Goto, At, handler, host, disk, kubelet, Path,
      Request
<1>5. (written => data /\ (Block \/ fs))'
  BY NodeVolumeAssumption DEF IInv, TypeOK, SeenOK, MountOK, GetVolumeDevice, Goto,
      At, handler, host, disk, kubelet, Path, Request
<1> QED
  BY <1>1, <1>2, <1>3, <1>4, <1>5 DEF IInv

\* Creating the path: no other call is at work on it.
LEMMA CreateDirInv ==
    ASSUME IInv, NEW c \in Call, CreateDir(c)
    PROVE  IInv'
PROOF
<1>0. req[c].path \in Path
  BY Requested DEF CreateDir, At
<1>1. TypeOK'
  BY <1>0, NodeVolumeAssumption DEF IInv, TypeOK, Mounting, Unmounting, CreateDir,
      Goto, At, handler, host, disk, kubelet, Path, Request
<1>2. ASSUME NEW d \in Call PROVE CallOK(d)'
  BY NodeVolumeAssumption DEF IInv, TypeOK, CallOK, Unused, Mounting, Unmounting,
      CreateDir, Goto, At, handler, host, disk, kubelet, Path, Request
<1>3. ASSUME NEW d \in Call PROVE SeenOK(d)'
  BY NodeVolumeAssumption DEF IInv, TypeOK, CallOK, SeenOK, MountOK, Mounting,
      Unmounting, CreateDir, Goto, At, handler, host, disk, kubelet, Path, Request
<1>4. ASSUME NEW p \in Path PROVE MountOK(p)'
  BY NodeVolumeAssumption DEF IInv, TypeOK, CallOK, SeenOK, MountOK, Mounting,
      Unmounting, CreateDir, Goto, At, handler, host, disk, kubelet, Path, Request
<1>5. (written => data /\ (Block \/ fs))'
  BY NodeVolumeAssumption DEF IInv, TypeOK, SeenOK, MountOK, CreateDir, Goto, At,
      handler, host, disk, kubelet, Path, Request
<1> QED
  BY <1>1, <1>2, <1>3, <1>4, <1>5 DEF IInv

\* Looking at the mount table: a success is reported only with the volume
\* mounted, and a bind is tried only while nothing is.
LEMMA CheckMountPointInv ==
    ASSUME IInv, NEW c \in Call, CheckMountPoint(c)
    PROVE  IInv'
PROOF
<1>1. TypeOK'
  <2>1. CASE Return(c, TRUE)
    <3>1. pc[c] # "idle" /\ UNCHANGED <<host, attached, disk>>
      BY DEF CheckMountPoint, At
    <3> QED
      BY <2>1, <3>1, ReturnFacts DEF IInv, TypeOK, host, disk
  <2>2. CASE ~IsMountPoint(req[c].path)
    BY <2>2 DEF IInv, TypeOK, Mounting, Unmounting, CheckMountPoint, Goto, host, disk, kubelet
  <2> QED
    BY <2>1, <2>2 DEF CheckMountPoint
<1>2. ASSUME NEW d \in Call PROVE CallOK(d)'
  BY NodeVolumeAssumption DEF IInv, TypeOK, CallOK, Unused, Mounting, Unmounting,
      CheckMountPoint, IsMountPoint, Shows, Top, GetMountPoint, Return, Goto, At,
      handler, host, disk, kubelet, Path, Request
<1>3. ASSUME NEW d \in Call PROVE SeenOK(d)'
  BY NodeVolumeAssumption DEF IInv, TypeOK, CallOK, SeenOK, MountOK, Mounting,
      Unmounting, CheckMountPoint, IsMountPoint, Shows, Top, GetMountPoint, Return,
      Goto, At, handler, host, disk, kubelet, Path, Request
<1>4. ASSUME NEW p \in Path PROVE MountOK(p)'
  BY NodeVolumeAssumption DEF IInv, TypeOK, CallOK, SeenOK, MountOK, Mounting,
      Unmounting, CheckMountPoint, IsMountPoint, Shows, Top, GetMountPoint, Return,
      Goto, At, handler, host, disk, kubelet, Path, Request
<1>5. (written => data /\ (Block \/ fs))'
  BY NodeVolumeAssumption DEF IInv, TypeOK, SeenOK, MountOK, CheckMountPoint,
      IsMountPoint, Shows, Top, GetMountPoint, Return, Goto, At, handler, host,
      disk, kubelet, Path, Request
<1> QED
  BY <1>1, <1>2, <1>3, <1>4, <1>5 DEF IInv

\* Reading the disk's format.
LEMMA GetDiskFormatInv ==
    ASSUME IInv, NEW c \in Call, GetDiskFormat(c)
    PROVE  IInv'
PROOF
<1>1. TypeOK'
  BY NodeVolumeAssumption DEF IInv, TypeOK, Mounting, Unmounting, GetDiskFormat,
      Goto, At, handler, host, disk, kubelet, Path, Request
<1>2. ASSUME NEW d \in Call PROVE CallOK(d)'
  BY NodeVolumeAssumption DEF IInv, TypeOK, CallOK, Unused, Mounting, Unmounting,
      GetDiskFormat, Goto, At, handler, host, disk, kubelet, Path, Request
<1>3. ASSUME NEW d \in Call PROVE SeenOK(d)'
  BY NodeVolumeAssumption DEF IInv, TypeOK, CallOK, SeenOK, MountOK, Mounting,
      Unmounting, GetDiskFormat, Goto, At, handler, host, disk, kubelet, Path,
      Request
<1>4. ASSUME NEW p \in Path PROVE MountOK(p)'
  BY NodeVolumeAssumption DEF IInv, TypeOK, CallOK, SeenOK, MountOK, Mounting,
      Unmounting, GetDiskFormat, Goto, At, handler, host, disk, kubelet, Path,
      Request
<1>5. (written => data /\ (Block \/ fs))'
  BY NodeVolumeAssumption DEF IInv, TypeOK, SeenOK, MountOK, GetDiskFormat, Goto,
      At, handler, host, disk, kubelet, Path, Request
<1> QED
  BY <1>1, <1>2, <1>3, <1>4, <1>5 DEF IInv

\* Formatting: the disk is still blank, so no data is on it.
LEMMA MkfsInv ==
    ASSUME IInv, NEW c \in Call, Mkfs(c)
    PROVE  IInv'
PROOF
<1>1. TypeOK'
  BY NodeVolumeAssumption DEF IInv, TypeOK, Mounting, Unmounting, Mkfs, Goto, At,
      handler, host, disk, kubelet, Path, Request
<1>2. ASSUME NEW d \in Call PROVE CallOK(d)'
  BY NodeVolumeAssumption DEF IInv, TypeOK, CallOK, Unused, Mounting, Unmounting,
      Mkfs, Goto, At, handler, host, disk, kubelet, Path, Request
<1>3. ASSUME NEW d \in Call PROVE SeenOK(d)'
  BY NodeVolumeAssumption DEF IInv, TypeOK, CallOK, SeenOK, MountOK, Mounting,
      Unmounting, Mkfs, Goto, At, handler, host, disk, kubelet, Path, Request
<1>4. ASSUME NEW p \in Path PROVE MountOK(p)'
  BY NodeVolumeAssumption DEF IInv, TypeOK, CallOK, SeenOK, MountOK, Mounting,
      Unmounting, Mkfs, Goto, At, handler, host, disk, kubelet, Path, Request
<1>5. (written => data /\ (Block \/ fs))'
  BY NodeVolumeAssumption DEF IInv, TypeOK, SeenOK, MountOK, Mkfs, Goto, At,
      handler, host, disk, kubelet, Path, Request
<1> QED
  BY <1>1, <1>2, <1>3, <1>4, <1>5 DEF IInv

\* Mounting the device: the first mount on the staging path.
LEMMA MountInv ==
    ASSUME IInv, NEW c \in Call, Mount(c)
    PROVE  IInv'
PROOF
<1> DEFINE q == req[c].path  x == [vol |-> TRUE, ro |-> FALSE]
<1>a. q \in Path /\ mnt[q] = << >> /\ x \in Layer
  BY Requested DEF Mount, At, IInv, SeenOK, Layer
<1>b. mnt' = [mnt EXCEPT ![q] = Append(<< >>, x)]
  BY <1>a DEF Mount, Push
<1>c. Append(<< >>, x) \in Seq(Layer)
  BY <1>a, PushEmpty
<1>1. TypeOK'
  BY <1>a, <1>b, <1>c, NodeVolumeAssumption DEF IInv, TypeOK, Mounting, Unmounting,
      Mount, Push, Return, At, handler, host, disk, kubelet, Path, Request
<1>2. ASSUME NEW d \in Call PROVE CallOK(d)'
  BY NodeVolumeAssumption DEF IInv, TypeOK, CallOK, Unused, Mounting, Unmounting,
      Mount, Push, Return, At, handler, host, disk, kubelet, Path, Request
<1>3. ASSUME NEW d \in Call PROVE SeenOK(d)'
  BY NodeVolumeAssumption DEF IInv, TypeOK, CallOK, SeenOK, MountOK, Mounting,
      Unmounting, Mount, Push, Return, At, handler, host, disk, kubelet, Path,
      Request
<1>4. ASSUME NEW p \in Path PROVE MountOK(p)'
  BY NodeVolumeAssumption DEF IInv, TypeOK, CallOK, SeenOK, MountOK, Mounting,
      Unmounting, Mount, Push, Return, At, handler, host, disk, kubelet, Path,
      Request
<1>5. (written => data /\ (Block \/ fs))'
  BY NodeVolumeAssumption DEF IInv, TypeOK, SeenOK, MountOK, Mount, Push, Return,
      At, handler, host, disk, kubelet, Path, Request
<1> QED
  BY <1>1, <1>2, <1>3, <1>4, <1>5 DEF IInv

\* Binding: the first mount on the target, and the staging path shows the
\* volume.
LEMMA BindInv ==
    ASSUME IInv, NEW c \in Call, Bind(c)
    PROVE  IInv'
PROOF
<1> DEFINE q == req[c].path  x == [vol |-> Block \/ Shows(Staging), ro |-> FALSE]
<1>a. q \in Path /\ mnt[q] = << >> /\ x \in Layer
  BY Requested DEF Bind, At, IInv, SeenOK, Layer
<1>b. mnt' = [mnt EXCEPT ![q] = Append(<< >>, x)]
  BY <1>a DEF Bind, Push
<1>c. Append(<< >>, x) \in Seq(Layer)
  BY <1>a, PushEmpty
<1>1. TypeOK'
  BY <1>a, <1>b, <1>c, NodeVolumeAssumption DEF IInv, TypeOK, Mounting, Unmounting,
      Bind, Push, Shows, Top, Goto, At, handler, host, disk, kubelet, Path, Request
<1>2. ASSUME NEW d \in Call PROVE CallOK(d)'
  BY NodeVolumeAssumption DEF IInv, TypeOK, CallOK, Unused, Mounting, Unmounting,
      Bind, Push, Shows, Top, Goto, At, handler, host, disk, kubelet, Path, Request
<1>3. ASSUME NEW d \in Call PROVE SeenOK(d)'
  BY NodeVolumeAssumption DEF IInv, TypeOK, CallOK, SeenOK, MountOK, Mounting,
      Unmounting, Bind, Push, Shows, Top, Goto, At, handler, host, disk, kubelet,
      Path, Request
<1>4. ASSUME NEW p \in Path PROVE MountOK(p)'
  BY NodeVolumeAssumption DEF IInv, TypeOK, CallOK, SeenOK, MountOK, Mounting,
      Unmounting, Bind, Push, Shows, Top, Goto, At, handler, host, disk, kubelet,
      Path, Request
<1>5. (written => data /\ (Block \/ fs))'
  BY NodeVolumeAssumption DEF IInv, TypeOK, SeenOK, MountOK, Bind, Push, Shows, Top,
      Goto, At, handler, host, disk, kubelet, Path, Request
<1> QED
  BY <1>1, <1>2, <1>3, <1>4, <1>5 DEF IInv

\* Setting the options of the bind.
LEMMA RemountInv ==
    ASSUME IInv, NEW c \in Call, Remount(c)
    PROVE  IInv'
PROOF
<1> DEFINE q == req[c].path  r == [mnt[q] EXCEPT ![1].ro = q \in ReadOnly]
<1>a. q \in Path /\ mnt[q] \in Seq(Layer) /\ Len(mnt[q]) = 1
  BY Requested, PopSingle DEF Remount, At, IInv, TypeOK, MountOK
<1>b. mnt' = [mnt EXCEPT ![q] = r]
  BY <1>a DEF Remount
<1>c. r \in Seq(Layer) /\ Len(r) = 1 /\ r # << >> /\ r[1].vol = mnt[q][1].vol
  <2>1. (q \in ReadOnly) \in BOOLEAN
    OBVIOUS
  <2> QED
    BY <1>a, <2>1, SetSingle
<1>1. TypeOK'
  BY <1>a, <1>b, <1>c, NodeVolumeAssumption DEF IInv, TypeOK, Mounting, Unmounting,
      Remount, Return, At, handler, host, disk, kubelet, Path, Request
<1>2. ASSUME NEW d \in Call PROVE CallOK(d)'
  BY NodeVolumeAssumption DEF IInv, TypeOK, CallOK, Unused, Mounting, Unmounting,
      Remount, Return, At, handler, host, disk, kubelet, Path, Request
<1>3. ASSUME NEW d \in Call PROVE SeenOK(d)'
  BY NodeVolumeAssumption DEF IInv, TypeOK, CallOK, SeenOK, MountOK, Mounting,
      Unmounting, Remount, Return, At, handler, host, disk, kubelet, Path, Request
<1>4. ASSUME NEW p \in Path PROVE MountOK(p)'
  <2>1. known'[p] # known[p] => p = q /\ known'[p] = "yes"
    BY <1>a DEF Remount, Return, At, IInv, TypeOK, CallOK, Mounting
  <2>2. mnt'[p] = IF p = q THEN r ELSE mnt[p]
    BY <1>a, <1>b DEF IInv, TypeOK
  <2>3. known[q] = "maybe" /\ mnt[q] # << >> /\ attached /\ UNCHANGED <<exists, attached, fs>>
    BY DEF Remount, At, IInv, CallOK, Mounting, disk
  <2>4. MountOK(p) /\ MountOK(q)
    BY <1>a DEF IInv
  <2> HIDE DEF q, r
  <2>5. CASE p = q
    <3>1. mnt'[p] = r /\ Len(r) <= 1 /\ r # << >> /\ r[1].vol
      <4>1. mnt[q][1].vol
        BY <2>3, <2>4 DEF MountOK
      <4> QED
        BY <4>1, <2>5, <1>c, <2>2
    <3>2. known'[p] \in {"maybe", "yes"}
      BY <2>5, <2>1, <2>3
    <3>3. p \in exists' /\ (Block \/ fs') /\ attached'
      BY <2>5, <2>3, <2>4 DEF MountOK
    <3> QED
      BY <3>1, <3>2, <3>3 DEF MountOK
  <2>6. CASE p # q
    BY <2>6, <2>1, <2>2, <2>3, <2>4 DEF MountOK
  <2> QED
    BY <2>5, <2>6
<1>5. (written => data /\ (Block \/ fs))'
  BY NodeVolumeAssumption DEF IInv, TypeOK, SeenOK, MountOK, Remount, Return, At,
      handler, host, disk, kubelet, Path, Request
<1> QED
  BY <1>1, <1>2, <1>3, <1>4, <1>5 DEF IInv

\* Looking before unmounting: a path that is not there is clean.
LEMMA StatInv ==
    ASSUME IInv, NEW c \in Call, Stat(c)
    PROVE  IInv'
PROOF
<1>1. TypeOK'
  BY NodeVolumeAssumption DEF IInv, TypeOK, Mounting, Unmounting, Stat,
      IsMountPoint, Shows, Top, Return, Goto, At, handler, host, disk, kubelet,
      Path, Request
<1>2. ASSUME NEW d \in Call PROVE CallOK(d)'
  BY NodeVolumeAssumption DEF IInv, TypeOK, CallOK, Unused, Mounting, Unmounting,
      Stat, IsMountPoint, Shows, Top, Return, Goto, At, handler, host, disk,
      kubelet, Path, Request
<1>3. ASSUME NEW d \in Call PROVE SeenOK(d)'
  BY NodeVolumeAssumption DEF IInv, TypeOK, CallOK, SeenOK, MountOK, Mounting,
      Unmounting, Stat, IsMountPoint, Shows, Top, Return, Goto, At, handler, host,
      disk, kubelet, Path, Request
<1>4. ASSUME NEW p \in Path PROVE MountOK(p)'
  BY NodeVolumeAssumption DEF IInv, TypeOK, CallOK, SeenOK, MountOK, Mounting,
      Unmounting, Stat, IsMountPoint, Shows, Top, Return, Goto, At, handler, host,
      disk, kubelet, Path, Request
<1>5. (written => data /\ (Block \/ fs))'
  BY NodeVolumeAssumption DEF IInv, TypeOK, SeenOK, MountOK, Stat, IsMountPoint,
      Shows, Top, Return, Goto, At, handler, host, disk, kubelet, Path, Request
<1> QED
  BY <1>1, <1>2, <1>3, <1>4, <1>5 DEF IInv

\* Unmounting: the one mount was the only one.
LEMMA UnmountInv ==
    ASSUME IInv, NEW c \in Call, Unmount(c)
    PROVE  IInv'
PROOF
<1> DEFINE q == req[c].path
<1>a. q \in Path /\ mnt[q] \in Seq(Layer) /\ Len(mnt[q]) <= 1 /\ mnt[q] # << >>
  BY Requested DEF Unmount, Pop, At, IInv, TypeOK, MountOK
<1>b. mnt' = [mnt EXCEPT ![q] = << >>]
  BY <1>a, PopSingle DEF Unmount, Pop
<1>1. TypeOK'
  BY <1>a, <1>b, NodeVolumeAssumption DEF IInv, TypeOK, Mounting, Unmounting,
      Unmount, Pop, Goto, At, handler, host, disk, kubelet, Path, Request
<1>2. ASSUME NEW d \in Call PROVE CallOK(d)'
  BY NodeVolumeAssumption DEF IInv, TypeOK, CallOK, Unused, Mounting, Unmounting,
      Unmount, Pop, Goto, At, handler, host, disk, kubelet, Path, Request
<1>3. ASSUME NEW d \in Call PROVE SeenOK(d)'
  BY NodeVolumeAssumption DEF IInv, TypeOK, CallOK, SeenOK, MountOK, Mounting,
      Unmounting, Unmount, Pop, Goto, At, handler, host, disk, kubelet, Path,
      Request
<1>4. ASSUME NEW p \in Path PROVE MountOK(p)'
  BY NodeVolumeAssumption DEF IInv, TypeOK, CallOK, SeenOK, MountOK, Mounting,
      Unmounting, Unmount, Pop, Goto, At, handler, host, disk, kubelet, Path,
      Request
<1>5. (written => data /\ (Block \/ fs))'
  BY NodeVolumeAssumption DEF IInv, TypeOK, SeenOK, MountOK, Unmount, Pop, Goto, At,
      handler, host, disk, kubelet, Path, Request
<1> QED
  BY <1>1, <1>2, <1>3, <1>4, <1>5 DEF IInv

\* Removing: nothing is mounted any more, so no data is lost.
LEMMA RemoveAllInv ==
    ASSUME IInv, NEW c \in Call, RemoveAll(c)
    PROVE  IInv'
PROOF
<1>1. TypeOK'
  BY NodeVolumeAssumption DEF IInv, TypeOK, Mounting, Unmounting, RemoveAll, Shows,
      Top, Return, At, handler, host, disk, kubelet, Path, Request
<1>2. ASSUME NEW d \in Call PROVE CallOK(d)'
  BY NodeVolumeAssumption DEF IInv, TypeOK, CallOK, Unused, Mounting, Unmounting,
      RemoveAll, Shows, Top, Return, At, handler, host, disk, kubelet, Path, Request
<1>3. ASSUME NEW d \in Call PROVE SeenOK(d)'
  BY NodeVolumeAssumption DEF IInv, TypeOK, CallOK, SeenOK, MountOK, Mounting,
      Unmounting, RemoveAll, Shows, Top, Return, At, handler, host, disk, kubelet,
      Path, Request
<1>4. ASSUME NEW p \in Path PROVE MountOK(p)'
  BY NodeVolumeAssumption DEF IInv, TypeOK, CallOK, SeenOK, MountOK, Mounting,
      Unmounting, RemoveAll, Shows, Top, Return, At, handler, host, disk, kubelet,
      Path, Request
<1>5. (written => data /\ (Block \/ fs))'
  BY NodeVolumeAssumption DEF IInv, TypeOK, SeenOK, MountOK, RemoveAll, Shows, Top,
      Return, At, handler, host, disk, kubelet, Path, Request
<1> QED
  BY <1>1, <1>2, <1>3, <1>4, <1>5 DEF IInv

\* A crash of the plugin forgets handlers only.
LEMMA CrashInv ==
    ASSUME IInv, Crash
    PROVE  IInv'
PROOF
<1>1. TypeOK'
  BY NodeVolumeAssumption DEF IInv, TypeOK, Mounting, Unmounting, Crash, handler,
      host, disk, kubelet, Path, Request
<1>2. ASSUME NEW d \in Call PROVE CallOK(d)'
  BY NodeVolumeAssumption DEF IInv, TypeOK, CallOK, Unused, Mounting, Unmounting,
      Crash, handler, host, disk, kubelet, Path, Request
<1>3. ASSUME NEW d \in Call PROVE SeenOK(d)'
  BY NodeVolumeAssumption DEF IInv, TypeOK, CallOK, SeenOK, MountOK, Mounting,
      Unmounting, Crash, handler, host, disk, kubelet, Path, Request
<1>4. ASSUME NEW p \in Path PROVE MountOK(p)'
  BY NodeVolumeAssumption DEF IInv, TypeOK, CallOK, SeenOK, MountOK, Mounting,
      Unmounting, Crash, handler, host, disk, kubelet, Path, Request
<1>5. (written => data /\ (Block \/ fs))'
  BY NodeVolumeAssumption DEF IInv, TypeOK, SeenOK, MountOK, Crash, handler, host,
      disk, kubelet, Path, Request
<1> QED
  BY <1>1, <1>2, <1>3, <1>4, <1>5 DEF IInv

\* After a reboot nothing is mounted and nothing is known to be.
LEMMA RebootInv ==
    ASSUME IInv, Reboot
    PROVE  IInv'
PROOF
<1>1. TypeOK'
  BY NodeVolumeAssumption DEF IInv, TypeOK, Mounting, Unmounting, Reboot, handler,
      host, disk, kubelet, Path, Request
<1>2. ASSUME NEW d \in Call PROVE CallOK(d)'
  BY NodeVolumeAssumption DEF IInv, TypeOK, CallOK, Unused, Mounting, Unmounting,
      Reboot, handler, host, disk, kubelet, Path, Request
<1>3. ASSUME NEW d \in Call PROVE SeenOK(d)'
  BY NodeVolumeAssumption DEF IInv, TypeOK, CallOK, SeenOK, MountOK, Mounting,
      Unmounting, Reboot, handler, host, disk, kubelet, Path, Request
<1>4. ASSUME NEW p \in Path PROVE MountOK(p)'
  BY NodeVolumeAssumption DEF IInv, TypeOK, CallOK, SeenOK, MountOK, Mounting,
      Unmounting, Reboot, handler, host, disk, kubelet, Path, Request
<1>5. (written => data /\ (Block \/ fs))'
  BY NodeVolumeAssumption DEF IInv, TypeOK, SeenOK, MountOK, Reboot, handler, host,
      disk, kubelet, Path, Request
<1> QED
  BY <1>1, <1>2, <1>3, <1>4, <1>5 DEF IInv

\* The kubelet's call to stage.
LEMMA StageInv ==
    ASSUME IInv, NEW c \in Call, NodeStageVolume(c)
    PROVE  IInv'
PROOF
<1>1. TypeOK'
  BY NodeVolumeAssumption DEF IInv, TypeOK, Mounting, Unmounting, NodeStageVolume,
      Start, handler, host, disk, kubelet, Path, Request
<1>2. ASSUME NEW d \in Call PROVE CallOK(d)'
  BY NodeVolumeAssumption DEF IInv, TypeOK, CallOK, Unused, Mounting, Unmounting,
      NodeStageVolume, Start, handler, host, disk, kubelet, Path, Request
<1>3. ASSUME NEW d \in Call PROVE SeenOK(d)'
  BY NodeVolumeAssumption DEF IInv, TypeOK, CallOK, SeenOK, MountOK, Mounting,
      Unmounting, NodeStageVolume, Start, handler, host, disk, kubelet, Path,
      Request
<1>4. ASSUME NEW p \in Path PROVE MountOK(p)'
  BY NodeVolumeAssumption DEF IInv, TypeOK, CallOK, SeenOK, MountOK, Mounting,
      Unmounting, NodeStageVolume, Start, handler, host, disk, kubelet, Path,
      Request
<1>5. (written => data /\ (Block \/ fs))'
  BY NodeVolumeAssumption DEF IInv, TypeOK, SeenOK, MountOK, NodeStageVolume, Start,
      handler, host, disk, kubelet, Path, Request
<1> QED
  BY <1>1, <1>2, <1>3, <1>4, <1>5 DEF IInv

\* The kubelet's call to unstage, when no target is in use.
LEMMA UnstageInv ==
    ASSUME IInv, NEW c \in Call, NodeUnstageVolume(c)
    PROVE  IInv'
PROOF
<1>1. TypeOK'
  BY NodeVolumeAssumption DEF IInv, TypeOK, Mounting, Unmounting, NodeUnstageVolume,
      Start, Unused, handler, host, disk, kubelet, Path, Request
<1>2. ASSUME NEW d \in Call PROVE CallOK(d)'
  BY NodeVolumeAssumption DEF IInv, TypeOK, CallOK, Unused, Mounting, Unmounting,
      NodeUnstageVolume, Start, Unused, handler, host, disk, kubelet, Path, Request
<1>3. ASSUME NEW d \in Call PROVE SeenOK(d)'
  BY NodeVolumeAssumption DEF IInv, TypeOK, CallOK, SeenOK, MountOK, Mounting,
      Unmounting, NodeUnstageVolume, Start, Unused, handler, host, disk, kubelet,
      Path, Request
<1>4. ASSUME NEW p \in Path PROVE MountOK(p)'
  BY NodeVolumeAssumption DEF IInv, TypeOK, CallOK, SeenOK, MountOK, Mounting,
      Unmounting, NodeUnstageVolume, Start, Unused, handler, host, disk, kubelet,
      Path, Request
<1>5. (written => data /\ (Block \/ fs))'
  BY NodeVolumeAssumption DEF IInv, TypeOK, SeenOK, MountOK, NodeUnstageVolume,
      Start, Unused, handler, host, disk, kubelet, Path, Request
<1> QED
  BY <1>1, <1>2, <1>3, <1>4, <1>5 DEF IInv

\* The kubelet's call to publish.
LEMMA PublishInv ==
    ASSUME IInv, NEW c \in Call, NEW t \in Target, NodePublishVolume(c, t)
    PROVE  IInv'
PROOF
<1>1. TypeOK'
  BY NodeVolumeAssumption DEF IInv, TypeOK, Mounting, Unmounting, NodePublishVolume,
      Start, handler, host, disk, kubelet, Path, Request
<1>2. ASSUME NEW d \in Call PROVE CallOK(d)'
  BY NodeVolumeAssumption DEF IInv, TypeOK, CallOK, Unused, Mounting, Unmounting,
      NodePublishVolume, Start, handler, host, disk, kubelet, Path, Request
<1>3. ASSUME NEW d \in Call PROVE SeenOK(d)'
  BY NodeVolumeAssumption DEF IInv, TypeOK, CallOK, SeenOK, MountOK, Mounting,
      Unmounting, NodePublishVolume, Start, handler, host, disk, kubelet, Path,
      Request
<1>4. ASSUME NEW p \in Path PROVE MountOK(p)'
  BY NodeVolumeAssumption DEF IInv, TypeOK, CallOK, SeenOK, MountOK, Mounting,
      Unmounting, NodePublishVolume, Start, handler, host, disk, kubelet, Path,
      Request
<1>5. (written => data /\ (Block \/ fs))'
  BY NodeVolumeAssumption DEF IInv, TypeOK, SeenOK, MountOK, NodePublishVolume,
      Start, handler, host, disk, kubelet, Path, Request
<1> QED
  BY <1>1, <1>2, <1>3, <1>4, <1>5 DEF IInv

\* The kubelet's call to unpublish, beside others for other targets.
LEMMA UnpublishInv ==
    ASSUME IInv, NEW c \in Call, NEW t \in Target, NodeUnpublishVolume(c, t)
    PROVE  IInv'
PROOF
<1>1. TypeOK'
  BY NodeVolumeAssumption DEF IInv, TypeOK, Mounting, Unmounting,
      NodeUnpublishVolume, Start, handler, host, disk, kubelet, Path, Request
<1>2. ASSUME NEW d \in Call PROVE CallOK(d)'
  BY NodeVolumeAssumption DEF IInv, TypeOK, CallOK, Unused, Mounting, Unmounting,
      NodeUnpublishVolume, Start, handler, host, disk, kubelet, Path, Request
<1>3. ASSUME NEW d \in Call PROVE SeenOK(d)'
  BY NodeVolumeAssumption DEF IInv, TypeOK, CallOK, SeenOK, MountOK, Mounting,
      Unmounting, NodeUnpublishVolume, Start, handler, host, disk, kubelet, Path,
      Request
<1>4. ASSUME NEW p \in Path PROVE MountOK(p)'
  BY NodeVolumeAssumption DEF IInv, TypeOK, CallOK, SeenOK, MountOK, Mounting,
      Unmounting, NodeUnpublishVolume, Start, handler, host, disk, kubelet, Path,
      Request
<1>5. (written => data /\ (Block \/ fs))'
  BY NodeVolumeAssumption DEF IInv, TypeOK, SeenOK, MountOK, NodeUnpublishVolume,
      Start, handler, host, disk, kubelet, Path, Request
<1> QED
  BY <1>1, <1>2, <1>3, <1>4, <1>5 DEF IInv

\* The disk is attached.
LEMMA AttachInv ==
    ASSUME IInv, Attach
    PROVE  IInv'
PROOF
<1>1. TypeOK'
  BY NodeVolumeAssumption DEF IInv, TypeOK, Mounting, Unmounting, Attach, handler,
      host, disk, kubelet, Path, Request
<1>2. ASSUME NEW d \in Call PROVE CallOK(d)'
  BY NodeVolumeAssumption DEF IInv, TypeOK, CallOK, Unused, Mounting, Unmounting,
      Attach, handler, host, disk, kubelet, Path, Request
<1>3. ASSUME NEW d \in Call PROVE SeenOK(d)'
  BY NodeVolumeAssumption DEF IInv, TypeOK, CallOK, SeenOK, MountOK, Mounting,
      Unmounting, Attach, handler, host, disk, kubelet, Path, Request
<1>4. ASSUME NEW p \in Path PROVE MountOK(p)'
  BY NodeVolumeAssumption DEF IInv, TypeOK, CallOK, SeenOK, MountOK, Mounting,
      Unmounting, Attach, handler, host, disk, kubelet, Path, Request
<1>5. (written => data /\ (Block \/ fs))'
  BY NodeVolumeAssumption DEF IInv, TypeOK, SeenOK, MountOK, Attach, handler, host,
      disk, kubelet, Path, Request
<1> QED
  BY <1>1, <1>2, <1>3, <1>4, <1>5 DEF IInv

\* The disk is detached: every path is known to be unmounted.
LEMMA DetachInv ==
    ASSUME IInv, Detach
    PROVE  IInv'
PROOF
<1>1. TypeOK'
  BY NodeVolumeAssumption DEF IInv, TypeOK, Mounting, Unmounting, Detach, Unused,
      handler, host, disk, kubelet, Path, Request
<1>2. ASSUME NEW d \in Call PROVE CallOK(d)'
  BY NodeVolumeAssumption DEF IInv, TypeOK, CallOK, Unused, Mounting, Unmounting,
      Detach, Unused, handler, host, disk, kubelet, Path, Request
<1>3. ASSUME NEW d \in Call PROVE SeenOK(d)'
  BY NodeVolumeAssumption DEF IInv, TypeOK, CallOK, SeenOK, MountOK, Mounting,
      Unmounting, Detach, Unused, handler, host, disk, kubelet, Path, Request
<1>4. ASSUME NEW p \in Path PROVE MountOK(p)'
  BY NodeVolumeAssumption DEF IInv, TypeOK, CallOK, SeenOK, MountOK, Mounting,
      Unmounting, Detach, Unused, handler, host, disk, kubelet, Path, Request
<1>5. (written => data /\ (Block \/ fs))'
  BY NodeVolumeAssumption DEF IInv, TypeOK, SeenOK, MountOK, Detach, Unused,
      handler, host, disk, kubelet, Path, Request
<1> QED
  BY <1>1, <1>2, <1>3, <1>4, <1>5 DEF IInv

\* The last pod is deleted.
LEMMA DrainInv ==
    ASSUME IInv, Drain
    PROVE  IInv'
PROOF
<1>1. TypeOK'
  BY NodeVolumeAssumption DEF IInv, TypeOK, Mounting, Unmounting, Drain, handler,
      host, disk, kubelet, Path, Request
<1>2. ASSUME NEW d \in Call PROVE CallOK(d)'
  BY NodeVolumeAssumption DEF IInv, TypeOK, CallOK, Unused, Mounting, Unmounting,
      Drain, handler, host, disk, kubelet, Path, Request
<1>3. ASSUME NEW d \in Call PROVE SeenOK(d)'
  BY NodeVolumeAssumption DEF IInv, TypeOK, CallOK, SeenOK, MountOK, Mounting,
      Unmounting, Drain, handler, host, disk, kubelet, Path, Request
<1>4. ASSUME NEW p \in Path PROVE MountOK(p)'
  BY NodeVolumeAssumption DEF IInv, TypeOK, CallOK, SeenOK, MountOK, Mounting,
      Unmounting, Drain, handler, host, disk, kubelet, Path, Request
<1>5. (written => data /\ (Block \/ fs))'
  BY NodeVolumeAssumption DEF IInv, TypeOK, SeenOK, MountOK, Drain, handler, host,
      disk, kubelet, Path, Request
<1> QED
  BY <1>1, <1>2, <1>3, <1>4, <1>5 DEF IInv

\* A pod stores data on what its target path shows.
LEMMA WriteInv ==
    ASSUME IInv, NEW t \in Target, Write(t)
    PROVE  IInv'
PROOF
<1>1. TypeOK'
  BY NodeVolumeAssumption DEF IInv, TypeOK, Mounting, Unmounting, Write, Shows, Top,
      handler, host, disk, kubelet, Path, Request
<1>2. ASSUME NEW d \in Call PROVE CallOK(d)'
  BY NodeVolumeAssumption DEF IInv, TypeOK, CallOK, Unused, Mounting, Unmounting,
      Write, Shows, Top, handler, host, disk, kubelet, Path, Request
<1>3. ASSUME NEW d \in Call PROVE SeenOK(d)'
  BY NodeVolumeAssumption DEF IInv, TypeOK, CallOK, SeenOK, MountOK, Mounting,
      Unmounting, Write, Shows, Top, handler, host, disk, kubelet, Path, Request
<1>4. ASSUME NEW p \in Path PROVE MountOK(p)'
  BY NodeVolumeAssumption DEF IInv, TypeOK, CallOK, SeenOK, MountOK, Mounting,
      Unmounting, Write, Shows, Top, handler, host, disk, kubelet, Path, Request
<1>5. (written => data /\ (Block \/ fs))'
  BY NodeVolumeAssumption DEF IInv, TypeOK, SeenOK, MountOK, Write, Shows, Top,
      handler, host, disk, kubelet, Path, Request
<1> QED
  BY <1>1, <1>2, <1>3, <1>4, <1>5 DEF IInv

\* Every step keeps the invariant.
LEMMA NextInv == IInv /\ [Next]_vars => IInv'
PROOF
<1> SUFFICES ASSUME IInv, [Next]_vars PROVE IInv'
  OBVIOUS
<1>1. ASSUME NEW c \in Call, Step(c) \/ Fail(c) PROVE IInv'
  BY <1>1, FailInv, GetVolumeDeviceInv, CreateDirInv, CheckMountPointInv,
     GetDiskFormatInv, MkfsInv, MountInv, BindInv, RemountInv, StatInv,
     UnmountInv, RemoveAllInv DEF Step
<1>2. ASSUME NEW c \in Call, NodeStageVolume(c) \/ NodeUnstageVolume(c) PROVE IInv'
  BY <1>2, StageInv, UnstageInv
<1>3. ASSUME NEW c \in Call, NEW t \in Target,
             NodePublishVolume(c, t) \/ NodeUnpublishVolume(c, t)
      PROVE  IInv'
  BY <1>3, PublishInv, UnpublishInv
<1>4. ASSUME NEW t \in Target, Write(t) PROVE IInv'
  BY <1>4, WriteInv
<1>5. CASE UNCHANGED vars
  BY <1>5 DEF IInv, TypeOK, CallOK, SeenOK, MountOK, Unused, vars, handler, host, disk, kubelet
<1> QED
  BY <1>1, <1>2, <1>3, <1>4, <1>5, CrashInv, RebootInv, AttachInv, DetachInv, DrainInv
     DEF Next

\* A path known to be unmounted stays so unless the kubelet mounts it.
LEMMA UnmountedStays ==
    ASSUME IInv, NEW p \in Path, known[p] = "no",
           \/ \E c \in Call :
                 \/ Step(c) \/ Fail(c) \/ NodeUnstageVolume(c)
                 \/ \E t \in Target : NodeUnpublishVolume(c, t)
           \/ Crash \/ Reboot \/ Drain \/ \E t \in Target : Write(t)
    PROVE  known'[p] = "no"
PROOF
<1>0. known \in [Path -> {"no", "maybe", "yes", "closing"}]
  BY DEF IInv, TypeOK
<1>1. ASSUME NEW c \in Call, NEW ok \in BOOLEAN, pc[c] # "idle", Return(c, ok)
      PROVE  known'[p] = "no"
  <2>1. req[c].path \in Path /\ known[req[c].path] # "no"
    BY <1>1, Requested DEF IInv, TypeOK, CallOK
  <2> QED BY <1>0, <1>1, <2>1 DEF Return
<1>2. ASSUME NEW c \in Call, Step(c) \/ Fail(c) PROVE known'[p] = "no"
  <2>1. known' = known \/ (pc[c] # "idle" /\ \E ok \in BOOLEAN : Return(c, ok))
    BY <1>2 DEF Step, Fail, GetVolumeDevice, CreateDir, CheckMountPoint, GetDiskFormat,
       Mkfs, Mount, Bind, Remount, Stat, Unmount, RemoveAll, Goto, At, kubelet
  <2> QED BY <1>1, <2>1
<1>3. ASSUME NEW c \in Call, NEW t \in Target, NodeUnstageVolume(c) \/ NodeUnpublishVolume(c, t)
      PROVE  known'[p] = "no"
  BY <1>0, <1>3 DEF NodeUnstageVolume, NodeUnpublishVolume, Start, Path
<1>4. ASSUME NEW c \in Call, NodeUnstageVolume(c) PROVE known'[p] = "no"
  BY <1>0, <1>4 DEF NodeUnstageVolume, Start, Path
<1>5. ASSUME Crash \/ Reboot \/ Drain \/ \E t \in Target : Write(t) PROVE known'[p] = "no"
  BY <1>0, <1>5 DEF Crash, Reboot, Drain, Write, kubelet
<1> QED BY <1>2, <1>3, <1>4, <1>5

\* The initial state satisfies the invariant.
LEMMA InitInv == Init => IInv
PROOF
<1> SUFFICES ASSUME Init PROVE IInv
  OBVIOUS
<1>1. << >> \in Seq(Layer) /\ Len(<< >>) = 0
  OBVIOUS
<1>2. TypeOK
  BY <1>1 DEF Init, TypeOK
<1>3. \A c \in Call : CallOK(c) /\ SeenOK(c)
  BY DEF Init, CallOK, SeenOK, Mounting, Unmounting
<1>4. \A p \in Path : MountOK(p)
  BY <1>1 DEF Init, MountOK
<1> QED
  BY <1>2, <1>3, <1>4 DEF IInv, Init

\* With a kubelet that waits for its calls, IInv holds in every reachable
\* state: what a handler has seen in the mount table, on the disk and among
\* the directories still holds when it acts on it.
THEOREM Invariance ==
    Spec => []IInv
PROOF
  BY InitInv, NextInv, PTL DEF Spec

\* In such a state a published target carries the one mount of the volume.
LEMMA PublishedInv == IInv => PublishedIsVolume
PROOF
<1> SUFFICES ASSUME IInv, NEW t \in Target, known[t] = "yes" PROVE Shows(t)
  BY DEF PublishedIsVolume
<1>1. mnt[t] \in Seq(Layer) /\ Len(mnt[t]) <= 1 /\ mnt[t] # << >> /\ mnt[t][1].vol
  BY DEF IInv, TypeOK, MountOK, Path
<1>2. Len(mnt[t]) = 1
  BY <1>1, PopSingle
<1> QED
  BY <1>1, <1>2 DEF Shows, Top

\* A published target shows the volume, whatever crashes, reboots and half
\* done mounts came before.
THEOREM PublishedTargets ==
    Spec => []PublishedIsVolume
PROOF
  BY PublishedInv, Invariance, PTL

\* A path reported as unmounted has no mount left.
THEOREM UnmountedPaths ==
    Spec => []UnmountedIsClean
PROOF
<1>1. IInv => UnmountedIsClean
  BY DEF IInv, MountOK, UnmountedIsClean
<1> QED
  BY <1>1, Invariance, PTL

\* What a pod has stored is kept.
THEOREM StoredData ==
    Spec => []DataKept
PROOF
<1>1. IInv => DataKept
  BY DEF IInv, DataKept
<1> QED
  BY <1>1, Invariance, PTL

-----------------------------------------------------------------------------
(* The refinement of Mounts.  Under IInv a path shows the volume if and    *)
(* only if something is mounted on it.                                     *)

\* A step of Mounts, or none.
Maps == [Promise!MountNext]_(Promise!mountVars)

\* A stack of mounts of the volume shows it, unless it is empty.
LEMMA TopSingle ==
    ASSUME NEW s \in Seq(Layer), Len(s) <= 1, s # << >> => s[1].vol
    PROVE  (s # << >> /\ s[Len(s)].vol) <=> s # << >>
<1>1. CASE s # << >>
  <2>1. Len(s) = 1
    BY <1>1, PopSingle
  <2> QED BY <1>1, <2>1
<1> QED BY <1>1

LEMMA ShownMounts ==
    ASSUME IInv
    PROVE  Shown \subseteq Path /\ \A p \in Path : p \in Shown <=> mnt[p] # << >>
<1> SUFFICES ASSUME NEW p \in Path PROVE Shows(p) <=> mnt[p] # << >>
  BY DEF Shown
<1>1. mnt[p] \in Seq(Layer) /\ Len(mnt[p]) <= 1 /\ (mnt[p] # << >> => mnt[p][1].vol)
  BY DEF IInv, TypeOK, MountOK
<1>2. (mnt[p] # << >> /\ mnt[p][Len(mnt[p])].vol) <=> mnt[p] # << >>
  BY <1>1, TopSingle
<1> QED BY <1>2 DEF Shows, Top

LEMMA ShownMountsNext ==
    ASSUME IInv'
    PROVE  Shown' \subseteq Path /\ \A p \in Path : p \in Shown' <=> mnt'[p] # << >>
<1> SUFFICES ASSUME NEW p \in Path PROVE Shows(p)' <=> mnt'[p] # << >>
  BY DEF Shown
<1>1. mnt'[p] \in Seq(Layer) /\ Len(mnt'[p]) <= 1 /\ (mnt'[p] # << >> => mnt'[p][1].vol)
  BY DEF IInv, TypeOK, MountOK
<1>2. PICK s \in Seq(Layer) : s = mnt'[p]
  BY <1>1
<1>3. (s # << >> /\ s[Len(s)].vol) <=> s # << >>
  BY <1>1, <1>2, TopSingle
<1> QED BY <1>2, <1>3 DEF Shows, Top

\* Stored data is there, and only Write adds to it.
LEMMA StoredKept ==
    ASSUME IInv, IInv', written' = written
    PROVE  Stored' = Stored
  BY DEF Stored, IInv, TypeOK

LEMMA ShownKept ==
    ASSUME mnt' = mnt
    PROVE  Shown' = Shown
  BY DEF Shown, Shows, Top

\* A step the kubelet does not see and that mounts nothing.
LEMMA QuietMaps ==
    ASSUME known' = known, Shown' = Shown, attached' = attached, Stored' = Stored
    PROVE  Maps
  BY DEF Maps, Promise!mountVars

\* What the kubelet learns with an answer.
LEMMA ReturnEffect ==
    ASSUME IInv, NEW c \in Call, pc[c] # "idle", NEW ok \in BOOLEAN, Return(c, ok)
    PROVE  LET p == req[c].path IN
           /\ p \in Path
           /\ \/ known' = known
              \/ /\ ok /\ pc[c] \in Mounting /\ known[p] = "maybe"
                 /\ known' = [known EXCEPT ![p] = "yes"]
              \/ /\ ok /\ pc[c] \in Unmounting /\ known[p] = "closing"
                 /\ known' = [known EXCEPT ![p] = "no"]
<1>1. req[c].path \in Path
  BY Requested
<1>2. pc[c] \in Mounting \/ pc[c] \in Unmounting
  BY DEF IInv, TypeOK
<1>3. CASE pc[c] \in Mounting
  <2>1. req[c].op = "mount" /\ known[req[c].path] = "maybe"
    BY <1>3 DEF IInv, CallOK
  <2> QED BY <1>1, <1>3, <2>1 DEF Return
<1>4. CASE pc[c] \in Unmounting
  <2>1. req[c].op = "unmount" /\ known[req[c].path] = "closing"
    BY <1>4 DEF IInv, CallOK
  <2> QED BY <1>1, <1>4, <2>1 DEF Return
<1> QED BY <1>2, <1>3, <1>4

\* An answer is Mounted or Unmounted, or says nothing, when it is true.
LEMMA ReturnMaps ==
    ASSUME IInv, NEW c \in Call, pc[c] # "idle", NEW ok \in BOOLEAN, Return(c, ok),
           Shown' = Shown, attached' = attached, Stored' = Stored,
           ok => (req[c].path \in Shown <=> pc[c] \in Mounting)
    PROVE  Maps
<1> DEFINE p == req[c].path
<1>1. p \in Promise!MountPath
  BY Requested DEF Promise!MountPath, Path
<1>2. CASE known' = known
  BY <1>2, QuietMaps
<1>3. CASE /\ ok /\ pc[c] \in Mounting /\ known[p] = "maybe"
           /\ known' = [known EXCEPT ![p] = "yes"]
  <2>1. Promise!Mounted(p)
    BY <1>3 DEF Promise!Mounted
  <2> QED BY <1>1, <2>1 DEF Maps, Promise!MountNext
<1>4. CASE /\ ok /\ pc[c] \in Unmounting /\ known[p] = "closing"
           /\ known' = [known EXCEPT ![p] = "no"]
  <2>1. p \notin Shown
    BY <1>4 DEF Mounting, Unmounting
  <2>2. Promise!Unmounted(p)
    BY <1>4, <2>1 DEF Promise!Unmounted
  <2> QED BY <1>1, <2>2 DEF Maps, Promise!MountNext
<1> QED BY <1>2, <1>3, <1>4, ReturnEffect

\* The volume appears at the path of a call that mounts it, with or without
\* the answer.
LEMMA AppearMaps ==
    ASSUME IInv, IInv', NEW c \in Call, pc[c] \in Mounting,
           known' = known \/ Return(c, TRUE),
           mnt[req[c].path] = << >>, mnt'[req[c].path] # << >>,
           \A p \in Path \ {req[c].path} : mnt'[p] = mnt[p],
           attached' = attached, Stored' = Stored
    PROVE  Maps
<1> DEFINE p == req[c].path
<1>1. pc[c] # "idle" /\ pc[c] \notin Unmounting
  BY DEF Mounting, Unmounting
<1>2. p \in Path
  BY <1>1, Requested
<1>3. /\ attached /\ known[p] = "maybe"
      /\ p # Staging => known[Staging] = "yes"
  BY DEF IInv, CallOK
<1>4. p \notin Shown /\ Shown' = Shown \cup {p}
  <2>1. p \notin Shown /\ p \in Shown'
    BY <1>2, ShownMounts, ShownMountsNext
  <2>2. \A q \in Path \ {p} : q \in Shown' <=> q \in Shown
    BY ShownMounts, ShownMountsNext
  <2> QED BY <2>1, <2>2, ShownMounts, ShownMountsNext, <1>2
<1>5. p = Staging \/ Staging \in Shown
  <2>1. Staging \in Path
    BY DEF Path
  <2>2. known[Staging] = "yes" => mnt[Staging] # << >>
    BY <2>1 DEF IInv, MountOK
  <2> QED BY <1>3, <2>1, <2>2, ShownMounts
<1>6. \E s \in {"maybe", "yes"} : known' = [known EXCEPT ![p] = s]
  <2>1. known = [known EXCEPT ![p] = "maybe"]
    BY <1>2, <1>3 DEF IInv, TypeOK
  <2>2. known' = known \/ known' = [known EXCEPT ![p] = "yes"]
    BY <1>1, ReturnEffect
  <2> QED BY <2>1, <2>2
<1>7. Promise!Appear(p)
  BY <1>3, <1>4, <1>5, <1>6 DEF Promise!Appear
<1>8. p \in Promise!MountPath
  BY <1>2 DEF Promise!MountPath, Path
<1> QED BY <1>7, <1>8 DEF Maps, Promise!MountNext

\* Mounting the device, and binding.
LEMMA MountMaps ==
    ASSUME IInv, IInv', NEW c \in Call, Mount(c) \/ Bind(c)
    PROVE  Maps
<1> DEFINE p == req[c].path
<1>1. pc[c] \in Mounting /\ pc[c] # "idle"
  BY DEF Mount, Bind, At, Mounting
<1>2. p \in Path /\ mnt[p] = << >>
  BY <1>1, Requested DEF Mount, Bind, At, IInv, SeenOK
<1>3. PICK x : mnt' = [mnt EXCEPT ![p] = Append(<< >>, x)]
  BY <1>2 DEF Mount, Bind, Push
<1>4. mnt'[p] # << >> /\ \A q \in Path \ {p} : mnt'[q] = mnt[q]
  <2>1. Append(<< >>, x) # << >>
    OBVIOUS
  <2> QED BY <1>2, <1>3, <2>1 DEF IInv, TypeOK
<1>5. attached' = attached /\ written' = written /\ (known' = known \/ Return(c, TRUE))
  BY DEF Mount, Bind, Goto, disk, kubelet
<1>6. Stored' = Stored
  BY <1>5, StoredKept
<1> QED BY <1>1, <1>2, <1>4, <1>5, <1>6, AppearMaps

\* Setting the options of a mount leaves it there.
LEMMA RemountMaps ==
    ASSUME IInv, IInv', NEW c \in Call, Remount(c)
    PROVE  Maps
<1> DEFINE p == req[c].path
<1>1. pc[c] \in Mounting /\ pc[c] # "idle"
  BY DEF Remount, At, Mounting
<1>2. p \in Path /\ mnt[p] \in Seq(Layer) /\ Len(mnt[p]) = 1
  BY <1>1, Requested, PopSingle DEF Remount, At, IInv, TypeOK, MountOK
<1>3. mnt' = [mnt EXCEPT ![p] = [mnt[p] EXCEPT ![1].ro = p \in ReadOnly]]
  BY <1>2 DEF Remount
<1>4. [mnt[p] EXCEPT ![1].ro = p \in ReadOnly] # << >>
  <2>1. (p \in ReadOnly) \in BOOLEAN
    OBVIOUS
  <2> QED BY <1>2, <2>1, SetSingle
<1>5. \A q \in Path : mnt'[q] # << >> <=> mnt[q] # << >>
  BY <1>2, <1>3, <1>4 DEF IInv, TypeOK, Remount
<1>6. Shown' = Shown
  BY <1>5, ShownMounts, ShownMountsNext
<1>7. Return(c, TRUE) /\ attached' = attached /\ written' = written /\ mnt[p] # << >>
  BY DEF Remount, disk
<1>8. Stored' = Stored
  BY <1>7, StoredKept
<1> QED BY <1>1, <1>2, <1>6, <1>7, <1>8, ReturnMaps, ShownMounts

\* Looking at the mount table.
LEMMA CheckMountPointMaps ==
    ASSUME IInv, IInv', NEW c \in Call, CheckMountPoint(c)
    PROVE  Maps
<1>1. pc[c] \in Mounting /\ pc[c] # "idle"
  BY DEF CheckMountPoint, At, Mounting
<1>2. mnt' = mnt /\ attached' = attached /\ written' = written
  BY DEF CheckMountPoint, host, disk
<1>3. Shown' = Shown /\ Stored' = Stored
  BY <1>2, ShownKept, StoredKept
<1>4. CASE Return(c, TRUE) /\ IsMountPoint(req[c].path)
  <2>1. req[c].path \in Shown
    BY <1>1, <1>4, Requested DEF Shown, IsMountPoint
  <2> QED BY <1>1, <1>2, <1>3, <1>4, <2>1, ReturnMaps
<1>5. CASE ~IsMountPoint(req[c].path)
  <2>1. known' = known
    BY <1>5 DEF CheckMountPoint, Goto, kubelet
  <2> QED BY <1>2, <1>3, <2>1, QuietMaps
<1> QED BY <1>4, <1>5 DEF CheckMountPoint

\* The steps of the handlers that mount nothing and answer nothing.
LEMMA SilentMaps ==
    ASSUME IInv, IInv', NEW c \in Call,
           GetVolumeDevice(c) \/ CreateDir(c) \/ GetDiskFormat(c) \/ Mkfs(c)
    PROVE  Maps
<1>1. mnt' = mnt /\ attached' = attached /\ written' = written /\ known' = known
  BY DEF GetVolumeDevice, CreateDir, GetDiskFormat, Mkfs, Goto, host, disk, kubelet
<1> QED BY <1>1, ShownKept, StoredKept, QuietMaps

\* An unmount that finds no path, or one that another call has removed.
LEMMA StatMaps ==
    ASSUME IInv, IInv', NEW c \in Call, Stat(c)
    PROVE  Maps
<1> DEFINE p == req[c].path
<1>1. pc[c] # "idle" /\ pc[c] \notin Mounting
  BY DEF Stat, At, Mounting
<1>2. mnt' = mnt /\ attached' = attached /\ written' = written
  BY DEF Stat, host, disk
<1>3. Shown' = Shown /\ Stored' = Stored
  BY <1>2, ShownKept, StoredKept
<1>4. CASE p \notin exists
  <2>1. p \in Path
    BY <1>1, Requested
  <2>2. p \notin Shown
    BY <1>4, <2>1, ShownMounts DEF IInv, MountOK
  <2>3. Return(c, TRUE)
    BY <1>4 DEF Stat
  <2> QED BY <1>1, <1>2, <1>3, <2>2, <2>3, ReturnMaps
<1>5. CASE p \in exists
  <2>1. known' = known
    BY <1>5 DEF Stat, Goto, kubelet
  <2> QED BY <1>2, <1>3, <2>1, QuietMaps
<1> QED BY <1>4, <1>5

\* The unmount itself: of the staging path only when no target shows the
\* volume any more.
LEMMA UnmountMaps ==
    ASSUME IInv, IInv', NEW c \in Call, Unmount(c)
    PROVE  Maps
<1> DEFINE p == req[c].path
<1>1. pc[c] # "idle" /\ pc[c] \in Unmounting
  BY DEF Unmount, At, Unmounting
<1>2. p \in Path /\ mnt[p] \in Seq(Layer) /\ Len(mnt[p]) <= 1 /\ mnt[p] # << >>
  BY <1>1, Requested DEF Unmount, Pop, IInv, TypeOK, MountOK
<1>3. mnt' = [mnt EXCEPT ![p] = << >>]
  <2>1. SubSeq(mnt[p], 1, Len(mnt[p]) - 1) = << >>
    BY <1>2, PopSingle
  <2> QED BY <2>1 DEF Unmount, Pop
<1>4. known' = known /\ attached' = attached /\ written' = written
  BY DEF Unmount, Goto, disk, kubelet
<1>5. Stored' = Stored
  BY <1>4, StoredKept
<1>6. known[p] = "closing" /\ (p = Staging => Unused)
  BY <1>1 DEF IInv, CallOK
<1>7. p \in Shown /\ Shown' = Shown \ {p}
  <2>1. mnt'[p] = << >> /\ \A q \in Path \ {p} : mnt'[q] = mnt[q]
    BY <1>2, <1>3 DEF IInv, TypeOK
  <2>2. p \in Shown /\ p \notin Shown'
    BY <1>2, <2>1, ShownMounts, ShownMountsNext
  <2>3. \A q \in Path \ {p} : q \in Shown' <=> q \in Shown
    BY <2>1, ShownMounts, ShownMountsNext
  <2> QED BY <2>2, <2>3, ShownMounts, ShownMountsNext
<1>8. p = Staging => Shown = {Staging}
  <2>1. ASSUME Unused PROVE \A t \in Target : t \notin Shown
    BY <2>1, ShownMounts DEF Unused, IInv, MountOK, Path
  <2> QED BY <1>6, <1>7, <2>1, ShownMounts DEF Path
<1>9. Promise!Vanish(p)
  BY <1>4, <1>5, <1>6, <1>7, <1>8 DEF Promise!Vanish
<1>10. p \in Promise!MountPath
  BY <1>2 DEF Promise!MountPath, Path
<1> QED BY <1>9, <1>10 DEF Maps, Promise!MountNext

\* Removing the path: nothing is mounted there any more.
LEMMA RemoveAllMaps ==
    ASSUME IInv, IInv', NEW c \in Call, RemoveAll(c)
    PROVE  Maps
<1> DEFINE p == req[c].path
<1>1. pc[c] # "idle" /\ pc[c] \notin Mounting
  BY DEF RemoveAll, At, Mounting
<1>2. p \in Path /\ mnt[p] = << >>
  BY <1>1, Requested DEF RemoveAll, At, IInv, SeenOK
<1>3. mnt' = mnt /\ attached' = attached /\ written' = written /\ Return(c, TRUE)
  BY <1>2 DEF RemoveAll
<1>4. Shown' = Shown /\ Stored' = Stored /\ p \notin Shown
  BY <1>2, <1>3, ShownKept, StoredKept, ShownMounts
<1> QED BY <1>1, <1>3, <1>4, ReturnMaps

\* An error says nothing.
LEMMA FailMaps ==
    ASSUME IInv, IInv', NEW c \in Call, Fail(c)
    PROVE  Maps
<1>1. mnt' = mnt /\ attached' = attached /\ written' = written /\ known' = known
  BY DEF Fail, Return, host, disk
<1> QED BY <1>1, ShownKept, StoredKept, QuietMaps

\* The kubelet's calls.
LEMMA CallMaps ==
    ASSUME IInv, IInv', NEW c \in Call,
           \/ NodeStageVolume(c) \/ NodeUnstageVolume(c)
           \/ \E t \in Target : NodePublishVolume(c, t) \/ NodeUnpublishVolume(c, t)
    PROVE  Maps
<1>1. ASSUME NEW op, NEW p, Start(c, op, p)
      PROVE  /\ Shown' = Shown /\ attached' = attached /\ Stored' = Stored
             /\ known' = [known EXCEPT ![p] = IF op = "mount" THEN "maybe" ELSE "closing"]
  BY <1>1, ShownKept, StoredKept DEF Start, host, disk
<1>2. CASE NodeStageVolume(c)
  <2>1. Promise!AskMount(Staging)
    BY <1>1, <1>2 DEF NodeStageVolume, Promise!AskMount
  <2> QED BY <2>1 DEF Maps, Promise!MountNext, Promise!MountPath
<1>3. CASE NodeUnstageVolume(c)
  <2>1. Promise!AskUnmount(Staging)
    BY <1>1, <1>3 DEF NodeUnstageVolume, Unused, Promise!AskUnmount
  <2> QED BY <2>1 DEF Maps, Promise!MountNext, Promise!MountPath
<1>4. ASSUME NEW t \in Target, NodePublishVolume(c, t) PROVE Maps
  <2>1. Promise!AskMount(t)
    BY <1>1, <1>4 DEF NodePublishVolume, Promise!AskMount
  <2> QED BY <2>1 DEF Maps, Promise!MountNext, Promise!MountPath
<1>5. ASSUME NEW t \in Target, NodeUnpublishVolume(c, t) PROVE Maps
  <2>1. Promise!AskUnmount(t)
    BY <1>1, <1>5, NodeVolumeAssumption DEF NodeUnpublishVolume, Promise!AskUnmount
  <2> QED BY <2>1 DEF Maps, Promise!MountNext, Promise!MountPath
<1> QED BY <1>2, <1>3, <1>4, <1>5

\* The node: crashes, restarts, the disk and the pods.
LEMMA NodeMaps ==
    ASSUME IInv, IInv',
           Crash \/ Reboot \/ Attach \/ Detach \/ Drain \/ \E t \in Target : Write(t)
    PROVE  Maps
<1>1. CASE Crash \/ Drain
  <2>1. mnt' = mnt /\ attached' = attached /\ written' = written /\ known' = known
    BY <1>1 DEF Crash, Drain, host, disk
  <2> QED BY <2>1, ShownKept, StoredKept, QuietMaps
<1>2. CASE Reboot
  <2>1. Shown' = {}
    BY <1>2, ShownMountsNext DEF Reboot
  <2>2. attached' = attached /\ Stored' = Stored
    BY <1>2, StoredKept DEF Reboot, disk
  <2>3. known' = [p \in Promise!MountPath |-> IF known[p] = "yes" THEN "maybe" ELSE known[p]]
    BY <1>2 DEF Reboot, Promise!MountPath, Path
  <2> QED BY <2>1, <2>2, <2>3 DEF Maps, Promise!MountNext, Promise!NodeRestart
<1>3. CASE Attach
  <2>1. Promise!Come
    BY <1>3, ShownKept, StoredKept DEF Attach, Promise!Come, host, disk, kubelet
  <2> QED BY <2>1 DEF Maps, Promise!MountNext
<1>4. CASE Detach
  <2>1. \A p \in Promise!MountPath : known[p] = "no"
    BY <1>4 DEF Detach, Unused, Promise!MountPath
  <2>2. Shown = {}
    BY <2>1, ShownMounts DEF IInv, MountOK, Promise!MountPath, Path
  <2>3. UNCHANGED <<known, Shown, Stored>> /\ attached' = FALSE
    BY <1>4, ShownKept, StoredKept DEF Detach, host, disk, kubelet
  <2>4. Promise!Go
    BY <2>1, <2>2, <2>3 DEF Promise!Go
  <2> QED BY <2>4 DEF Maps, Promise!MountNext
<1>5. ASSUME NEW t \in Target, Write(t) PROVE Maps
  <2>1. attached /\ t \in Shown /\ known[t] = "yes"
    BY <1>5 DEF Write, Shown, Path
  <2>2. Stored' = TRUE /\ UNCHANGED <<known, Shown, attached>>
    BY <1>5, ShownKept DEF Write, Stored, host, kubelet
  <2>3. Promise!Store(t)
    BY <2>1, <2>2 DEF Promise!Store
  <2> QED BY <2>3 DEF Maps, Promise!MountNext
<1> QED BY <1>1, <1>2, <1>3, <1>4, <1>5

\* Every step is one of Mounts, or none.
LEMMA StepRefines == IInv /\ IInv' /\ [Next]_vars => Maps
<1> SUFFICES ASSUME IInv, IInv', [Next]_vars PROVE Maps
  OBVIOUS
<1>1. CASE UNCHANGED vars
  BY <1>1, ShownKept, QuietMaps DEF vars, host, disk, kubelet, Stored
<1>2. ASSUME NEW c \in Call, Step(c) \/ Fail(c) PROVE Maps
  BY <1>2, SilentMaps, CheckMountPointMaps, MountMaps, RemountMaps, StatMaps,
     UnmountMaps, RemoveAllMaps, FailMaps DEF Step
<1> QED BY <1>1, <1>2, CallMaps, NodeMaps DEF Next

\* The node service, for any number of pods and calls and for both kinds of
\* volume, does what Mounts promises: whatever crashes, reboots, failures and
\* retries come between, a volume goes from under a pod only when it is asked
\* to, and stored data stays.
THEOREM Refinement == Spec => ImplementsMounts
<1>1. Init => Promise!MountInit
  BY DEF Init, Promise!MountInit, Promise!MountPath, Path, Shown, Shows, Stored
<1>2. IInv /\ IInv' /\ [Next]_vars => [Promise!MountNext]_(Promise!mountVars)
  BY StepRefines DEF Maps
<1> QED BY <1>1, <1>2, InitInv, NextInv, PTL DEF Spec, ImplementsMounts, Promise!MountSpec
=============================================================================
