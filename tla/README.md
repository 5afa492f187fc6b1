# TLA+ models of the ELF CSI driver

A verification development for the CSI driver that lets Kubernetes use SMTX ELF
volumes: TLA+ modules for the parts with state, TLC runs on small instances and
TLAPS proofs for instances of any size. `PROJECT.json` lists components, runs,
the source lines of every definition, hazards, findings and theorems.

Parse with `tlasany M.tla`, check with `tlc -workers 2 -config X.cfg M`, prove
with `tlapm M.tla`.

## The system

| Component | State | Operations | Talks to |
|---|---|---|---|
| Controller service (`controller.go`) | a hashed `keyMutex` per process; everything else is CloudTower's | Create, Delete, Publish, Unpublish, Expand | CloudTower over HTTP (asynchronous tasks polled by `waitTask`), the node map, the liveness probe of a node |
| Node registry (`node_map.go`, `registerNodeEntry`) | one ConfigMap for all nodes | Put (read, modify, write, retried five times), Get | Kubernetes API server |
| Liveness probe (`liveness.go`, `canPublishToNode`) | a listener per node | Liveness (always healthy) | controller, over net/rpc |
| Node service (`node.go`, `mount.go`) | none: the mount table, the directories and the disk are the state | Stage, Publish, Unpublish, Unstage, Expand | CloudTower (which disk), kernel, mkfs |
| Driver lifecycle (`driver.go`, `main.go`) | gRPC server, stop channel | Run, stop | all of the above |
| Helpers (`utils.go`, `unmarshal_map.go`, `resizer.go`) | none | sizes, capabilities, flags, resizing | |

Sidecars and the kubelet call the services with deadlines and retry. No handler
looks at its context, so a call whose client gave up runs on next to its retry.
The chart runs two controller replicas. What is hard, and what the properties
are for, follows from that: handlers that outlive their callers, tasks that
outlive handlers, requests applied late, crashes between two steps, and checks
whose result is used some steps later.

## Modules

`Attach` - publish, unpublish and delete. Each call is a state machine (`pc`):
`check` (arguments, `NodeMap.Get`, `canPublishToNode`), `lock`
(`keyMutex.LockKey`), `read` (what CloudTower says), `submit` (AddVMDisk,
RemoveVMDisk, DeleteVMVolumeFromVM) and `wait` (`waitTask`). Unpublish starts at
`lock`, delete at `read`: it takes no lock. `holder` is the mutex table of each
replica. External: CloudTower's tasks, applied when they succeed (`Apply`); a
request may be refused, taken with the answer lost, taken with a task id, or
done at once (a nil task id, for which `waitTask` returns at once). A VM disk is
identified with its volume and VM. The orchestrator (CO) keeps `va` and `pv`,
what it was told; it runs one call at a time per volume and node, may give up at
any time, and may ask to delete a volume that is attached or being attached,
which the driver must refuse. The arithmetic of `Boot` and the time limits of
`waitTask` are left out: the wait may end with an error at any time.

`suspect` is a history variable: the volumes for which two calls were at work in
a way the code does not guard against. Each handler looks at CloudTower once
(`read`) and acts or answers later; `Look` marks the volume when what the call
sees then may not last:
- a publish and an unpublish for the same node overlap, each past its look, and no
  mutex orders them: they run on different replicas, or the earlier one's handler
  is gone and its task is not (`Clashes`);
- a publish and a delete of the volume overlap in the same way (delete takes no
  mutex);
- a publish finds the volume Mounting because of the executing task of another
  replica, or of a handler that is gone: the task may still fail;
- a handler gets to work after the CO, which had given it up, was told the opposite
  (`Outdated`).

In these cases the code can leave a disk on a node that is recorded as detached,
none on one recorded as attached, or both delete and attach a volume: the
properties about the CO's record would be false, and are claimed for all other
volumes. What they do cover is everything else that goes on beside a call: late
handlers of the same replica, which the mutex makes the opposite call wait for;
retries of the same operation anywhere; tasks left behind by dead handlers that
end before the opposite call looks; deletes asked for while publishes are under
way; answers that are lost; crashes.

`Attachments` - the abstract specification of the controller service, volume by
volume: what the orchestrator asked for and was told, the disks, whether the
volume is there. A disk comes (`Plug`) or goes (`Unplug`) only while one of the two
is asked for on that node and not yet answered; as the CO may change its mind
before it has an answer, a disk may come while it is to go, and the other way
round. The volume is destroyed only on request and when nobody has it
(`Destroy`), and an answer says what is the case. There
are no calls, mutexes, tasks or failures in it. `Attach` implements it with
`trusted <- Volume \ suspect`: a volume that is not trusted may change in any way.

`NodeMap` - registration and probing. `wire` holds updates that may arrive after
their sender has stopped waiting or died; `reply` what the API server answered;
`pc` where `Driver.Run` is. A node boots with any free address. The API server
applies an update that carries the current version and makes a new version of
it, unless the update changes nothing. `Lookup` and `Dial` are the controller's
side.

`stale` is a history variable: the nodes that registered without changing
anything while an earlier update of theirs, to another address, still carried
the current version. Such an update may be applied after the registration, and
the node serves without being listed; the properties are claimed for all others.

`Registry` - the abstract specification of the node map: a node replaces its own
entry only, and serves under the address it is listed with. `NodeMap` implements
it with `entry <- cm` and the address of each serving node (none for a stale one).

`NodeVolume` - one volume on one node. `mnt` is the stack of mounts of each path
(each of the volume, or of a directory of the node when an unmounted staging path
was bound), `exists` the paths that exist, `fs`, `written` and `data` the disk,
`known` what the kubelet was told. Stage runs `device`, `create`, `check`,
`format`, `mkfs`, `mount`; publish (and a block volume's stage) `device`,
`create`, `check`, `bind`, `remount`; the two unmounts `stat`, `umount`,
`remove`. `Fail` returns an error at any step and leaves what was done. External:
the kernel (a second mount of the same file system on the same mount point is
refused, a second bind is not; `IsLikelyNotMountPoint` compares device numbers,
so a bind of the node's own disk goes unnoticed, assuming the kubelet's
directories are on one file system), mkfs (ext4, the default; refuses a mounted
disk, overwrites anything else), RemoveAll (empties what is mounted, then fails
on the mount point) and the kubelet (serialises its calls, except for unpublishes
of different pods; never publishes a path again once it began to unpublish it;
unstages when no target is in use; detaches after unstaging). In `Spec` the kubelet
waits for each call; in `LateSpec` it may give one up while the handler runs
(`GiveUp`). A nil mount entry that the code
dereferences kills the process, which is `Crash`. Mount flags, xfs options and
the fs type of the request are data no property tells apart.

`Mounts` - the abstract specification of the node service for one volume: what the
kubelet was told of each path, the paths at which the volume is found, whether
the disk is there, and whether data is stored. The volume appears at a path only
while it is asked for there and staged (`Appear`), goes only while it is asked to
go (`Vanish`) or when the node restarts, answers are true, and nothing takes
stored data away. There are no calls, stacked mounts, directories or failures in
it. `NodeVolume` implements it with the paths whose visible mount is the volume's
(`Shown`) and the data that was written and is there (`Stored`).

`VolumePath` - the controller service and the service of one node, for one volume:
`Attach` and `NodeVolume` instantiated side by side, where the disk the kernel
sees is CloudTower's (`attached <- Here \in disks[Vol]`). No other state is
shared. The orchestrator passes on what each service answered: the kubelet stages
and publishes a volume reported as attached, and the volume is unpublished from
the node when the kubelet has reported it as no longer in use (there is no forced
detach). The parts are instantiated through their proof modules so that their
lemmas can be cited.

`VolumeRequest` - the pure functions of `utils.go`: `roundUp` and `getVolumeSize`
with the wrap-around of a uint64 and its conversion to an int64 (`MaxInt64`
scales the width down), `checkNeedSharing`, which stops at the first mode that
needs sharing, and `checkVolumeCapabilities` for one capability.

`Provision` - CreateVolume and DeleteVolume. A creation runs `args`, `find` (by
lower-cased name), `create`, `wait`, `label` (the look-up in `upsertLabel`),
`newlabel`, `add` and `added` (the wait for the label's task); a deletion `get`,
`remove` and `removed`. `at`, `seen` and `label` are the handler's variables:
`seen` is the list of labels from the look-up, which is stale by the time it is
used. External: CloudTower lists a volume, or does not, while the task that
creates it runs; tasks outlive their handlers and may fail; the label's task may
take effect before or after the handler waits, at the latest when it has been
waited for; a size that is not positive is refused. The provisioner retries one
call at a time per claim and may give a call up. That a volume is attached is
left out here; `Attach` has that side of DeleteVolume. `overlap` is a history
variable: the claims for which a creation started while another was at work,
which may make two volumes of one name and which the driver does not prevent.

`Expand` - ControllerExpandVolume (`expandVolume` is a stub: the present size is
answered) and NodeExpandVolume: `volume`, `disk`, `lsblk`, `scan` (one step per
name, each an `udevadm` of its own), then on the name that was found `rescan`,
`size`, `format` and `resizefs`. ResizeBlock's polling is `tries` with
`RetryLimit`. External: `dev` is the disk behind each name, `udev` what udev's
database says, which follows by `Settle`. A name is used again only after udev
has seen its last bearer go. getVolumeDevice takes the last name whose serial, as
udev has it, is a prefix of the volume's; an empty or shortened serial may fit
another disk, so which disks match is a parameter, `Alike`. The properties about
the device are claimed when no other disk with a single line matches
(`UniqueSerial`); with a second match the code resizes whichever comes last.
Commands that fail or run into their five seconds are `Fail`, which within
ResizeBlock counts as a try; `Crash` ends the process. The volume's disk goes only
while no client waits.

`Lifecycle` - one process: `pc` is the main goroutine, `catcher` the one that
waits for a signal and closes `stopCh`, `stopper` the one that calls `stop`,
`closer` the one that closes the probe's listener. `stop` reads `d.grpcServer`
without synchronisation, so that near the write it may see either value. A second
signal after `close(signalCh)` panics, which is an exit like `Kill`. A process
that ends without closing its socket leaves the file behind (`stale`), which
`makeListener` removes. Reading the configuration is one step that may fail; the
pprof server is left out.

`MCAttach`, `MCProvision`, `MCExpand` and `MCVolumePath` hold what a cfg cannot
write: the hash function (all nodes on one mutex), names and their lower case,
the requests, and how each disk answers udev. The other modules are checked as
they stand. `path` checks safety only and takes the slots for calls as
symmetric; the other runs use no symmetry, as liveness forbids it or they need
none. Definitions marked *Mutant* are plausible bugs; each property has one that
breaks it.

## Runs

| Run | Instance | States | Shows |
|---|---|---|---|
| `attach` | 1 volume, 2 nodes on 1 mutex, 2 replicas, 2 calls | 149,480 | `OneUpdatePerVM`, `AttachedIsAttached`, `DetachedIsDetached`, `DeleteSparesAttached`, `GoneIsGone`: exclusion, true records, safe deletes; the refinement `ImplementsAttachments`; `EveryCallReturns` |
| `attach_rwx` (violation) | 1 shared volume, 2 nodes | | `SharedIsAttached`: the second node of a shared volume gets no disk |
| `nodemap` | 2 nodes, 2 addresses, 2 attempts, 2 faults | 195,015 | `ServingIsListed`, the refinement `ImplementsRegistry`, `EventuallyServing` |
| `nodemap_probe` (violation) | 2 nodes, 2 addresses | | `ProbeReachesTarget`: a stale address is answered by another node |
| `node_volume` | 2 pods, 2 calls, file system | 4,932 | `PublishedIsVolume`, `UnmountedIsClean`, `DataKept`, the refinement `ImplementsMounts`; `DrainEnds` |
| `node_late` (violation) | 1 pod, 2 calls, `LateSpec` | | `DataKept`: a late handler deletes a volume's data |
| `node_ro` (violation) | 1 read-only pod | | `ReadOnlyIsKept`: a retry forgets read-only |
| `path` | 1 volume, 2 nodes of which 1 is watched, 1 replica, 2 controller calls, 1 pod, 2 node calls, symmetry | 227,288 | `MountedIsDisk`, `DeviceStays`, and the refinement `NodeImplements` |
| `provision` | 1 claim of 4 kinds, 3 volume ids, 2 labels, 2 calls, 2 faults | 139,190 | `ProvisionedIsLabelled`, `ProvisionedFits`, `OneVolume`; what a step may remove (`RemovesOnlyReleased`); `ClaimsEnd`, `ReleasedIsRemoved`, `CallsEnd` |
| `expand` | 3 disks, 2 names, 2 calls, 2 sizes, 2 faults | 444,161 | `RightDevice`, `ReportedIsThere`; `GrowthArrives` |
| `lifecycle` | a node or a controller plugin, 3 faults | 2,782 | `ServingIsReachable`; `SignalEnds`, `ServesAgain` |
| `lifecycle_early` (violation) | a node plugin, 1 signal | | `SignalTerminates`: a signal during start-up is lost |

Bounds. Call slots are reused, so behaviours are of any length; two at once are a
call and its retry, or a call and its opposite. Two nodes and two replicas are
the smallest numbers for which a mutex collides or fails to cover. `MaxFaults`
caps errors, timeouts, signals and crashes where each adds states; two are a fault
and a fault during the recovery from it. `RetryLimit` is scaled down from 5
(registration) and from the resizer's limit, `MaxLayers` caps stacked mounts (two
suffice to lose data). Three volume ids are one per fault and one more, two labels
one duplicate. `GB` = 2 and `MaxInt64` = 7 put requests between units, at the
limit, beyond it and below zero. Two names hold the volume and one other disk, and
let the volume come back under the other's name; of the other two disks one has a
serial of its own and one has a serial that fits but two lines, so it is passed
over. The parameters of `path` are the
smallest with a competing node and a retry; that more replicas, calls and pods
change nothing is what its proof adds.

Deadlock checking is off where the system may really stop: `attach*` and
`provision` end when everything is deleted, `lifecycle*` when the plugin serves
and no further fault comes.

Fairness. `Attach`: handlers past `check` make progress, because every request
to CloudTower has the HTTP client's default time limit and `waitTask` its own;
`LockKey` is strongly fair, because `sync.Mutex` hands itself to a waiter that
starves. `check` is not fair: `client.Call` has no time limit. Nothing is
assumed of CloudTower. `NodeMap`: the plugin's own steps, a restart by the
kubelet, and an answer of the API server to whoever still waits. `NodeVolume`: a
handler moves on or fails, unmount steps do not fail for ever, answers are not
lost for ever, and the kubelet retries; crashes and reboots may go on.
`Provision`: handlers move on, CloudTower's tasks end one way or the other, and
the provisioner retries, as its queue does. `Expand`: handlers move on: the
commands of `resizer.go` have a time limit, but the lsblk and udevadm of
`getVolumeDevice` and `GetDiskFormat` have none, and that they end is an
assumption the code does not back; udev catches up, a volume that was detached
is attached again, and the kubelet retries. `Lifecycle`: every goroutine that
can run does, and the kubelet restarts the container. Faults are bounded in
these three, so their liveness says what happens once faults stop.

## Findings

1. `attach_rwx`: `publishVolumeToVm` takes a volume that is a disk of any VM for
   one published on the requested node.
2. `nodemap_probe`: the probe does not say, or ask, which node it is meant for.
3. `node_late`: `unmountVolume` may empty a mounted volume. TLC's trace is an
   unstage that outlives the kubelet's deadline and calls RemoveAll after a newer
   stage has mounted the volume. Two overlapping publishes that stack two binds,
   followed by an unpublish, which takes one off, have the same effect. `DrainEnds`
   does not survive `LateSpec` either: a late unstage lets a publish bind the bare
   staging directory, `IsLikelyNotMountPoint` never notices that bind, and
   RemoveAll fails on it for ever.
4. `node_ro`: the retry of a read-only publish that stopped between bind and
   remount succeeds without making the mount read-only.
5. `lifecycle_early`: a signal that is handled before `Run` has set `grpcServer`
   closes `stopCh` and the probe's listener, and the plugin goes on to serve.
   `main` says the signal is to "notify all coroutines to terminate".

## Proofs

All hold for every value of the constants that satisfies the assumptions named
`...Assumption` in the module that declares them (for instance `AttachAssumption`
and `NoReqAssumption` of `Attach`), which TLC evaluates in every run. Each proof
module begins with the inductive invariant `IInv` of its component, which the
component itself does not need.

`AttachProofs`: `IInv` is inductive (`Invariance`); from it `TypeCorrect`,
`LockExcludes` (`OneUpdatePerVM`), `PublishIsTrue` (`AttachedIsAttached`),
`UnpublishIsTrue` (`DetachedIsDetached`), `DeleteIsSafe` (`DeleteSparesAttached`)
and `DeleteIsTrue` (`GoneIsGone`), shared volumes included where the property is
about them, and for volumes that are not suspect. The properties are not
inductive. An unpublish that finds no disk answers at once, so its truth depends
on every publish that may still be at work: `CalmOK` says that beside a call that
has looked at CloudTower none is at work that does the opposite (`Unopposed`), that
the CO was not told the opposite of what it asks for (`Ready`), that no disk has
come since a delete looked, and that a finished task's effect lasts as long as its
call. When a call looks, `Look` vouches for what the mutex does not
order, and for the rest `LockOK`: calls in their critical sections hold their
mutex, so two of one replica and node are never past their looks together
(`LookCalm`). `OpenOK` ties the CO's record to its open calls, and `OneNode` says
that a volume that is not shared is at one node.
`Refinement` (`ImplementsAttachments`) follows step by step (`StepRefines`): under
`IInv` a request of the CO is an `Ask...` (`StartMaps`), what CloudTower does for
a call `Plug`, `Unplug` or `Destroy`, with the answer or before it (`ApplyMaps`),
an answer one of Attachments' (`AnswerMaps`), and everything else changes nothing
(`QuietMaps`). `CalmOK` is what makes a task that is carried out late one that was
not answered in the opposite sense.

`NodeMapProofs`: `TypeCorrect`, `RegisteredIsListed` and `Refinement`. The heart of
`IInv` is `WireOK`: an update that still carries the current version differs from
the current table in its sender's entry only, and if it differs its sender has not
registered since, or is stale. So applying it is a `Put` of the registry or
nothing.

`NodeVolumeProofs`, for `Spec`, the kubelet that waits: `Invariance`,
`PublishedTargets`, `UnmountedPaths` and `StoredData` (`DataKept`). `SeenOK` says
that what a handler saw still holds when it acts, `CallOK` that no other call
could have changed it, `MountOK` that no path carries more than one mount.
`Refinement` (`ImplementsMounts`): under `IInv` a path shows the volume if and
only if something is mounted on it (`ShownMounts`), so a mount or bind is
`Appear`, an unmount `Vanish`, an answer `Mounted` or `Unmounted` (`ReturnMaps`)
and every other step of a handler nothing, however often it failed before.
`node_late` shows that they fail for `LateSpec`.

`VolumePathProofs`: `MountsKeepTheirDisk`, `DevicesStay` (`DeviceStays`),
`NodeRefinement` and `PromisesCompose`, all for a volume that is not suspect.
Every step of the composition is a step of `Attach` or leaves it alone, so
`Attach`'s `IInv` holds. `Link` - the volume is not in use on the node, or the
orchestrator has it as attached there - is what `Attach`'s `AttachedIsAttached`
turns into a disk of the VM. While the volume is not suspect every step is
therefore one of `NodeVolume` or nothing: a controller step that changes the
disk is its `Attach` or `Detach`. So `NodeVolume`'s `IInv` is kept too, by its
own lemmas, and with both invariants the two refinements carry over to the
composition.

`LifecycleProofs`: `Invariance` and `ServingReachable`. `MainOK` ties how far main
has come to what it has started, and to when a first signal can have come;
`SignalOK` says that nothing is stopped without a signal and that `stop` leaves a
server running only after an early one.

`ProvisionProofs`: `Invariance`, `ProvisionedLabelled` (`ProvisionedIsLabelled`),
`ProvisionedAsAsked` (`ProvisionedFits`), `SoleVolume` (`OneVolume`) and
`RemovalIsReleased` (`RemovesOnlyReleased`). `PlaceOK`
says that a handler past its look-up has a volume of its claim's name, which has
kept the labels that were read: no step takes a label away, so an old list is safe
to rely on. `VolOK` says that a volume is what is asked for under its name;
`SizeFits` that a size which is positive as an int64 is whole units and enough, so
`roundUp` wraps around only into sizes CloudTower refuses. `SoleOK`, for claims
whose creations did not overlap, says that a creation has no other handler of its
claim beside it, that past its look-up there is no volume of the name but its own
(`CreatesAlone`), and that only deletions of the recorded volume follow. A step
that concerns one claim leaves the others alone (`OtherPlaces`, `OtherClaims`,
`OtherVols`, `OtherSole`), and a handler's step goes on (`GoInv`) or returns
(`ReturnInv`). `RemovalIsReleased` holds for overlapping creations too and has an
invariant of its own, `RemovalOK`: a deletion, in its handler or as a task, is one
of the volume that was recorded for a claim that has been released.

`ExpandProofs`: `Invariance`, `ResizesTheVolume` (`RightDevice`) and
`ReportsWhatIsThere` (`ReportedIsThere`), for every set of disks, whatever they
answer. `UdevOK`: where kernel and udev both have a disk for a name, they agree.
`CallOK`: if the serial tells the volume apart, the device that an open call has
found is the volume's, and past the comparison of sizes it has at least the size
that was read; file system, device and volume have sizes in this order. A call
whose client has gone may hold a name that has passed to another disk, and
`RightDevice` does not speak of it.

Left to TLC: liveness (`EveryCallReturns`, `EventuallyServing`, `DrainEnds`,
`ClaimsEnd`, `ReleasedIsRemoved`, `CallsEnd`, `GrowthArrives`, `SignalEnds`,
`ServesAgain`), as the prover does not do fairness or ENABLED.

## Not modelled, and the plan

Not modelled: constant RPCs (capabilities, identity, snapshots, listing) and
ValidateVolumeCapabilities, which change nothing; storage policies and mount
flags, which are passed on; client set-up and pprof; test code. `UnmarshalMap`
fills a struct by reflection and has no caller in the driver.

Left: `Provision` and `Attach` composed through the set of volumes, so that one
deletion meets both the retries of `Provision` and the attachments of `Attach`.
