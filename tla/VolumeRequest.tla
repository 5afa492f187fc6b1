---------------------------- MODULE VolumeRequest ----------------------------
(***************************************************************************)
(* What a request asks for, as pure functions of pkg/driver/utils.go: the  *)
(* size of a volume (roundUp, getVolumeSize), whether it is shared         *)
(* (checkNeedSharing) and whether it can be had (checkVolumeCapabilities). *)
(***************************************************************************)
EXTENDS Integers, Sequences

CONSTANTS
    GB,       \* the unit volumes are sized in
    MaxInt64  \* the largest int64

ASSUME VolumeRequestAssumption ==
    /\ GB \in Nat \ {0}
    /\ MaxInt64 \in Nat /\ GB <= MaxInt64

Int64 == -(MaxInt64 + 1) .. MaxInt64

\* A conversion of a uint64 to an int64, and the wrap-around of a uint64.
ToInt64(x) == IF x <= MaxInt64 THEN x ELSE x - 2 * (MaxInt64 + 1)
UInt64(x) == x % (2 * (MaxInt64 + 1))

roundUp(num, base) ==
    UInt64((IF num % base > 0 THEN num \div base + 1 ELSE num \div base) * base)

\* csi.CapacityRange
CapacityRange == [required : Int64, limit : Int64]

ValidRange(range) == ~(range.required < 0 /\ range.limit < 0)

\* Mutant: the size is cut off instead of rounded up.
getVolumeSizeDown(range) ==
    IF range.required > 0 THEN (range.required \div GB) * GB
    ELSE IF range.limit > 0 THEN roundUp(range.limit, GB)
    ELSE GB

\* The size asked for; the default of one GB when nothing is.
getVolumeSize(range) ==
    IF range.required > 0 THEN roundUp(range.required, GB)
    ELSE IF range.limit > 0 THEN roundUp(range.limit, GB)
    ELSE GB

-----------------------------------------------------------------------------

SingleNode == {"SINGLE_NODE_READER_ONLY", "SINGLE_NODE_WRITER"}
MultiNode  == {"MULTI_NODE_MULTI_WRITER", "MULTI_NODE_READER_ONLY", "MULTI_NODE_SINGLE_WRITER"}

\* accessModesNeedSharing is looked up until a mode that needs sharing is
\* found: an unknown mode after that one goes unnoticed.
ModesKnown(modes) ==
    \A i \in DOMAIN modes :
        modes[i] \notin SingleNode \cup MultiNode => \E j \in 1 .. i - 1 : modes[j] \in MultiNode

checkNeedSharing(modes) == \E i \in DOMAIN modes : modes[i] \in MultiNode

supportedFS == {"ext2", "ext3", "ext4", "xfs"}
defaultFS   == "ext4"

\* checkVolumeCapabilities on one capability: a mount with a type of file
\* system ("" for the default), or a block device.
checkVolumeCapability(cap) ==
    IF cap.mount
    THEN cap.mode \in SingleNode /\ (IF cap.fs = "" THEN defaultFS ELSE cap.fs) \in supportedFS
    ELSE cap.mode \in SingleNode \cup MultiNode
=============================================================================
