----------------------------- MODULE DiskSelect -----------------------------
(***************************************************************************)
(* The choice of the NVMe disk (storage_utils.cpp).  There are two disks,  *)
(* 0 and 1.  What statvfs says of a disk is a level: a number, the larger  *)
(* the more free bytes, Unreadable when the call fails, Gone when the      *)
(* directory does not exist either.  The two reserves are levels too.      *)
(***************************************************************************)
EXTENDS Integers

CONSTANTS
  MaxLevel,       \* bound: the level of an empty disk
  SwitchReserve,  \* kDiskFileSwitchMinFreeBytes, 3 GiB
  StartReserve    \* kDiskRunStartMinFreeBytes, 5 GiB

ASSUME ReserveAssumption ==
  /\ MaxLevel \in Nat /\ SwitchReserve \in Nat /\ StartReserve \in Nat
  /\ 0 < SwitchReserve /\ SwitchReserve < StartReserve /\ StartReserve <= MaxLevel

Disks == {0, 1}
Unreadable == -1
Gone == -2
Levels == Gone .. MaxLevel

NoDisk == -1
Pick == [path : Disks \cup {NoDisk}, ok : BOOLEAN]

(* GetFreeBytes: no value when statvfs fails. *)
HasValue(level) == level >= 0

Enough(level, min) == HasValue(level) /\ level >= min

PickMaxFreeLast(free, min) ==       \* mutant: the last readable disk wins
  LET path == IF HasValue(free[1]) THEN 1 ELSE IF HasValue(free[0]) THEN 0 ELSE NoDisk
  IN [path |-> path, ok |-> path # NoDisk /\ free[path] >= min]

(* The readable disk with most free space, the first of two equal ones.  *)
PickMaxFree(free, min) ==
  LET readable == {d \in Disks : HasValue(free[d])}
      best == CHOOSE d \in readable :
                \A e \in readable : free[e] < free[d] \/ (free[e] = free[d] /\ d <= e)
  IN IF readable = {} THEN [path |-> NoDisk, ok |-> FALSE]
     ELSE [path |-> best, ok |-> free[best] >= min]

(* Disk 0 if it has min, else disk 1 if it has min, else the better one.  *)
PickSsd0First(free, min) ==
  CASE Enough(free[0], min) -> [path |-> 0, ok |-> TRUE]
    [] ~Enough(free[0], min) /\ Enough(free[1], min) -> [path |-> 1, ok |-> TRUE]
    [] OTHER -> [path |-> IF HasValue(free[1]) /\ free[1] > free[0] THEN 1
                          ELSE IF HasValue(free[0]) THEN 0 ELSE NoDisk,
                 ok |-> FALSE]

SelectNvmeDataDir(pick_max_free, free, min) ==
  IF pick_max_free THEN PickMaxFree(free, min) ELSE PickSsd0First(free, min)

AllNvmeDisksBelowMinFree(free, min) == \A d \in Disks : ~Enough(free[d], min)
=============================================================================
