---------------------------- MODULE DurableStore ----------------------------
(***************************************************************************)
(* What a store that keeps its state in memory and on the disk promises:   *)
(* the disk only moves forward through versions the memory has had, a      *)
(* version acknowledged as durable is never undone, and a crash loses only *)
(* what was not acknowledged.                                              *)
(***************************************************************************)
EXTENDS Integers

VARIABLES
    mem,      \* the version held in memory
    disk,     \* the version in the file
    acked     \* the newest version a caller was told is durable

storeVars == <<mem, disk, acked>>

StoreInit == mem = 0 /\ disk = 0 /\ acked = 0

Change == mem' = mem + 1 /\ UNCHANGED <<disk, acked>>

Persist ==
  /\ disk' \in Nat /\ disk <= disk' /\ disk' <= mem
  /\ UNCHANGED <<mem, acked>>

Acknowledge == acked' \in Nat /\ acked <= acked' /\ acked' <= disk /\ UNCHANGED <<mem, disk>>

Crash == mem' = disk /\ UNCHANGED <<disk, acked>>

StoreNext == Change \/ Persist \/ Acknowledge \/ Crash

StoreSpec == StoreInit /\ [][StoreNext]_storeVars
=============================================================================
