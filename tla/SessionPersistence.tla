------------------------- MODULE SessionPersistence -------------------------
(***************************************************************************)
(* The session file of the messaging bots (messaging/session/store.py over *)
(* persistence.py).  The event loop's thread changes the store and         *)
(* schedules a debounced save; each save's timer is a thread of its own;   *)
(* flush and clear_scope write from the loop's thread.  A generation counts *)
(* the saves: a writer claims it, takes a snapshot, and under the writer   *)
(* lock gives up if a newer one has been scheduled meanwhile.              *)
(*                                                                         *)
(* A version of the content is the number of changes made so far.  A       *)
(* writer is 0, the loop, or the generation whose timer it is.  Steps that *)
(* one lock covers are one action; only clear_scope holds the store lock   *)
(* across steps.                                                           *)
(***************************************************************************)
EXTENDS Integers

CONSTANT MaxSaves    \* bound on the versions and on the generations

ASSUME BoundAssumption == MaxSaves \in Nat

VARIABLES
    mem,          \* version of SessionStore._conversation and _managed_messages
    disk,         \* version in the storage file
    dirty,        \* SessionStore._dirty
    generation,   \* _save_generation
    timer,        \* _save_timer, by its generation; 0 is None
    armed,        \* timers started whose thread has not passed its wait
    pc,           \* where each writer is
    claimed,      \* the generation of each writer's _PendingWrite
    copy,         \* the version of its snapshot
    writerLock,   \* the writer that holds _writer_lock, or NoWriter
    clearing,     \* clear_scope holds the store lock
    acked,        \* history: newest version a flush or a clear has returned for
    failed        \* history: newest generation a writer failed to write

loop == 0
NoWriter == -1
Writers == 0..MaxSaves
Timers == 1..MaxSaves

vars == <<mem, disk, dirty, generation, timer, armed, pc, claimed, copy, writerLock,
          clearing, acked, failed>>

Phases == {"idle", "claim", "snapshot", "wait", "write", "mark", "clean", "failed"}

TypeOK ==
  /\ mem \in Nat /\ disk \in Nat /\ acked \in Nat
  /\ dirty \in BOOLEAN /\ clearing \in BOOLEAN
  /\ generation \in 0..MaxSaves /\ timer \in 0..MaxSaves /\ failed \in 0..MaxSaves
  /\ armed \subseteq Timers
  /\ pc \in [Writers -> Phases]
  /\ claimed \in [Writers -> 0..MaxSaves]
  /\ copy \in [Writers -> Nat]
  /\ writerLock \in Writers \cup {NoWriter}

Init ==
  /\ mem = 0 /\ disk = 0 /\ acked = 0
  /\ dirty = FALSE /\ clearing = FALSE
  /\ generation = 0 /\ timer = 0 /\ failed = 0 /\ armed = {}
  /\ pc = [p \in Writers |-> "idle"]
  /\ claimed = [p \in Writers |-> 0]
  /\ copy = [p \in Writers |-> 0]
  /\ writerLock = NoWriter

(* The store lock is free for p: it is held across steps by a clear alone. *)
StoreFree(p) == clearing => p = loop

Moves(p, phase) == pc' = [pc EXCEPT ![p] = phase]

-----------------------------------------------------------------------------
(* The event loop's thread.                                                *)

(* Mutant: the timer of a save is never started.                          *)
SaveUnstarted ==
  /\ pc[loop] = "idle"
  /\ mem < MaxSaves /\ generation < MaxSaves
  /\ mem' = mem + 1
  /\ dirty' = TRUE
  /\ generation' = generation + 1
  /\ timer' = generation + 1
  /\ armed' = armed \ {timer}
  /\ UNCHANGED <<disk, pc, claimed, copy, writerLock, clearing, acked, failed>>

(* A change of the store and its schedule_save, under the store lock.      *)
Save ==
  /\ pc[loop] = "idle"
  /\ mem < MaxSaves /\ generation < MaxSaves
  /\ mem' = mem + 1
  /\ dirty' = TRUE
  /\ generation' = generation + 1
  /\ timer' = generation + 1
  /\ armed' = (armed \ {timer}) \cup {generation + 1}
  /\ UNCHANGED <<disk, pc, claimed, copy, writerLock, clearing, acked, failed>>

(* flush: take the timer's work over.                                      *)
Flush ==
  /\ pc[loop] = "idle"
  /\ dirty' = TRUE
  /\ armed' = armed \ {timer}
  /\ timer' = 0
  /\ claimed' = [claimed EXCEPT ![loop] = generation]
  /\ Moves(loop, "snapshot")
  /\ UNCHANGED <<mem, disk, generation, copy, writerLock, clearing, acked, failed>>

(* Mutant: write_data invalidates no older snapshot.                      *)
ClearScopeQuiet ==
  /\ pc[loop] = "idle"
  /\ mem < MaxSaves /\ generation < MaxSaves
  /\ clearing' = TRUE
  /\ mem' = mem + 1
  /\ dirty' = TRUE
  /\ armed' = armed \ {timer}
  /\ timer' = 0
  /\ generation' = generation
  /\ claimed' = [claimed EXCEPT ![loop] = generation]
  /\ copy' = [copy EXCEPT ![loop] = mem + 1]
  /\ Moves(loop, "wait")
  /\ UNCHANGED <<disk, writerLock, acked, failed>>

(* clear_scope: change the store and start its authoritative write, with   *)
(* the store lock held until that returns.                                 *)
ClearScope ==
  /\ pc[loop] = "idle"
  /\ mem < MaxSaves /\ generation < MaxSaves
  /\ clearing' = TRUE
  /\ mem' = mem + 1
  /\ dirty' = TRUE
  /\ armed' = armed \ {timer}
  /\ timer' = 0
  /\ generation' = generation + 1
  /\ claimed' = [claimed EXCEPT ![loop] = generation + 1]
  /\ copy' = [copy EXCEPT ![loop] = mem + 1]
  /\ Moves(loop, "wait")
  /\ UNCHANGED <<disk, writerLock, acked, failed>>

-----------------------------------------------------------------------------
(* A writer: a timer's thread, or the loop in a flush or a clear.          *)

Fire(g) ==
  /\ g \in armed
  /\ armed' = armed \ {g}
  /\ Moves(g, "claim")
  /\ UNCHANGED <<mem, disk, dirty, generation, timer, claimed, copy, writerLock, clearing, acked, failed>>

(* Mutant: a superseded timer claims as well, its own generation.         *)
ClaimTimerOwn(g) ==
  /\ pc[g] = "claim"
  /\ IF timer = 0
       THEN Moves(g, "idle") /\ UNCHANGED <<timer, claimed>>
       ELSE /\ Moves(g, "snapshot")
            /\ timer' = 0
            /\ claimed' = [claimed EXCEPT ![g] = g]
  /\ UNCHANGED <<mem, disk, dirty, generation, armed, copy, writerLock, clearing, acked, failed>>

(* _claim_timer: a superseded timer, or one whose work was taken, ends.    *)
ClaimTimer(g) ==
  /\ pc[g] = "claim"
  /\ IF g # generation \/ timer = 0
       THEN Moves(g, "idle") /\ UNCHANGED <<timer, claimed>>
       ELSE /\ Moves(g, "snapshot")
            /\ timer' = 0
            /\ claimed' = [claimed EXCEPT ![g] = generation]
  /\ UNCHANGED <<mem, disk, dirty, generation, armed, copy, writerLock, clearing, acked, failed>>

Snapshot(p) ==
  /\ pc[p] = "snapshot" /\ StoreFree(p)
  /\ copy' = [copy EXCEPT ![p] = mem]
  /\ Moves(p, "wait")
  /\ UNCHANGED <<mem, disk, dirty, generation, timer, armed, claimed, writerLock, clearing, acked, failed>>

(* The loop's flush or clear returns to its caller.                        *)
Returns(p) ==
  /\ clearing' = (clearing /\ p # loop)
  /\ acked' = IF p = loop THEN copy[p] ELSE acked

(* Mutant: a superseded snapshot is written too.                          *)
AcquireUnchecked(p) ==
  /\ pc[p] = "wait" /\ writerLock = NoWriter
  /\ Moves(p, "write")
  /\ writerLock' = p
  /\ UNCHANGED <<mem, disk, dirty, generation, timer, armed, claimed, copy, clearing,
                 acked, failed>>

(* _write_if_current: with the writer lock, look at the generation.        *)
Acquire(p) ==
  /\ pc[p] = "wait" /\ writerLock = NoWriter
  /\ IF claimed[p] # generation
       THEN Moves(p, "idle") /\ Returns(p) /\ UNCHANGED writerLock
       ELSE Moves(p, "write") /\ writerLock' = p /\ UNCHANGED <<clearing, acked>>
  /\ UNCHANGED <<mem, disk, dirty, generation, timer, armed, claimed, copy, failed>>

(* _write_file replaces the whole file.                                    *)
Write(p) ==
  /\ pc[p] = "write"
  /\ disk' = copy[p]
  /\ writerLock' = NoWriter
  /\ Moves(p, "mark")
  /\ UNCHANGED <<mem, dirty, generation, timer, armed, claimed, copy, clearing, acked, failed>>

NotesFailure(p) == failed' = IF claimed[p] > failed THEN claimed[p] ELSE failed

(* Mutant: a failed write keeps the writer lock.                          *)
WriteFailsLocked(p) ==
  /\ pc[p] = "write"
  /\ NotesFailure(p)
  /\ Moves(p, "failed")
  /\ UNCHANGED <<mem, disk, dirty, generation, timer, armed, claimed, copy, writerLock, clearing, acked>>

(* The write raises, and the file is as it was; ...                        *)
WriteFails(p) ==
  /\ pc[p] = "write"
  /\ writerLock' = NoWriter
  /\ NotesFailure(p)
  /\ Moves(p, "failed")
  /\ UNCHANGED <<mem, disk, dirty, generation, timer, armed, claimed, copy, clearing, acked>>

(* ... or the snapshot does, which a flush leaves to its caller.  The      *)
(* persistence is given its snapshot as a function and provides for one    *)
(* that raises; the store's own only copies what it holds.                 *)
SnapshotFails(p) ==
  /\ pc[p] = "snapshot" /\ StoreFree(p)
  /\ NotesFailure(p)
  /\ Moves(p, IF p = loop THEN "idle" ELSE "failed")
  /\ UNCHANGED <<mem, disk, dirty, generation, timer, armed, claimed, copy, writerLock, clearing, acked>>

StaysDirty(p) ==
  /\ pc[p] = "failed" /\ StoreFree(p)
  /\ dirty' = TRUE
  /\ clearing' = (clearing /\ p # loop)
  /\ Moves(p, "idle")
  /\ UNCHANGED <<mem, disk, generation, timer, armed, claimed, copy, writerLock, acked, failed>>

(* _mark_clean_if_current decides under the timer lock ...                 *)
Mark(p) ==
  /\ pc[p] = "mark"
  /\ IF timer = 0 /\ claimed[p] = generation
       THEN Moves(p, "clean") /\ UNCHANGED <<clearing, acked>>
       ELSE Moves(p, "idle") /\ Returns(p)
  /\ UNCHANGED <<mem, disk, dirty, generation, timer, armed, claimed, copy, writerLock, failed>>

(* ... and clears the flag after it has released it.                       *)
Clean(p) ==
  /\ pc[p] = "clean" /\ StoreFree(p)
  /\ dirty' = FALSE
  /\ Moves(p, "idle")
  /\ Returns(p)
  /\ UNCHANGED <<mem, disk, generation, timer, armed, claimed, copy, writerLock, failed>>

(* The process dies between two steps and loads the file again.            *)
Crash ==
  /\ mem' = disk
  /\ dirty' = FALSE /\ clearing' = FALSE
  /\ generation' = 0 /\ timer' = 0 /\ failed' = 0 /\ armed' = {}
  /\ pc' = [p \in Writers |-> "idle"]
  /\ claimed' = [p \in Writers |-> 0]
  /\ copy' = [p \in Writers |-> 0]
  /\ writerLock' = NoWriter
  /\ UNCHANGED <<disk, acked>>

-----------------------------------------------------------------------------
WriterStep(p) ==
  \/ Snapshot(p) \/ SnapshotFails(p) \/ Acquire(p) \/ Write(p) \/ WriteFails(p)
  \/ StaysDirty(p) \/ Mark(p) \/ Clean(p)

Next ==
  \/ Save \/ Flush \/ ClearScope
  \/ \E g \in Timers : Fire(g) \/ ClaimTimer(g)
  \/ \E p \in Writers : WriterStep(p)
  \/ Crash

Spec == Init /\ [][Next]_vars

(* Every started thread is scheduled, and every lock it waits for is fair. *)
Fairness ==
  /\ \A g \in Timers : WF_vars(Fire(g)) /\ WF_vars(ClaimTimer(g))
  /\ \A p \in Writers : SF_vars(WriterStep(p))

FairSpec == Spec /\ Fairness

-----------------------------------------------------------------------------
(* A writer whose generation is still the newest holds the newest content, *)
(* so the generation check alone decides which snapshot may reach the file.*)
CurrentIsNewest ==
  \A p \in Writers :
    pc[p] \in {"wait", "write"} /\ claimed[p] = generation => copy[p] = mem

(* Whatever is in memory only will be written: by the armed timer, by its  *)
(* thread, or by a writer on its way, unless writing it has failed.        *)
NothingForgotten ==
  disk # mem =>
    \/ timer = generation /\ (generation \in armed \/ pc[generation] = "claim")
    \/ \E p \in Writers : pc[p] \in {"snapshot", "wait", "write"} /\ claimed[p] = generation
    \/ failed = generation

(* The file implements a durable store: it never goes back to an older     *)
(* version, and what a flush or a /clear returned for survives a crash.    *)
Store == INSTANCE DurableStore WITH mem <- mem, disk <- disk, acked <- acked
Durable == Store!StoreSpec

(* Every change reaches the file unless its write fails, and no flush or   *)
(* clear waits for ever on the locks.                                      *)
EventuallySaved == disk # mem ~> disk = mem \/ failed = generation
LoopReturns == pc[loop] # "idle" ~> pc[loop] = "idle"
=============================================================================
