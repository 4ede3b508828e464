---------------------- MODULE SessionPersistenceProofs ----------------------
(***************************************************************************)
(* The session file is a durable store, for any number of saves, timers    *)
(* and crashes, and for failing writes and snapshots of a timer or a flush. *)
(***************************************************************************)
EXTENDS SessionPersistence, TLAPS

(* No writer holds a generation from the future, and one that is current   *)
(* holds what is in memory: newer content would have drawn a newer one.    *)
Generations ==
  /\ \A p \in Writers : claimed[p] <= generation
  /\ CurrentIsNewest

(* The loop draws the generations, so its own writer is never superseded.  *)
LoopIsCurrent ==
  pc[loop] \in {"snapshot", "wait"} => claimed[loop] = generation

(* The writer that passed the generation check carries content at least as *)
(* new as the file's, and nobody else writes until it is done.             *)
WriterIsNewer ==
  \A p \in Writers :
    pc[p] = "write" => /\ writerLock = p
                       /\ disk <= copy[p] /\ copy[p] <= mem

(* What the loop is about to acknowledge is in the file.                   *)
LoopHasWritten ==
  pc[loop] \in {"mark", "clean"} => acked <= copy[loop] /\ copy[loop] <= disk

Inv == /\ TypeOK
       /\ acked <= disk /\ disk <= mem
       /\ Generations
       /\ LoopIsCurrent
       /\ WriterIsNewer
       /\ LoopHasWritten

(* The initial state satisfies the invariant.                              *)
LEMMA InitInv == Init => Inv
<1> SUFFICES ASSUME Init PROVE Inv
  OBVIOUS
<1> USE BoundAssumption
<1>1. loop \in Writers
  BY DEF Writers, loop
<1>2. pc \in [Writers -> Phases] /\ \A p \in Writers : pc[p] = "idle"
  BY DEF Init, Phases
<1>3. /\ claimed \in [Writers -> 0..MaxSaves] /\ \A p \in Writers : claimed[p] = 0
      /\ copy \in [Writers -> Nat]
  BY DEF Init
<1>4. TypeOK
  <2>1. armed \subseteq Timers /\ writerLock \in Writers \cup {NoWriter}
    BY DEF Init
  <2>2. generation \in 0..MaxSaves /\ timer \in 0..MaxSaves /\ failed \in 0..MaxSaves
    BY DEF Init
  <2> QED BY <1>2, <1>3, <2>1, <2>2 DEF Init, TypeOK
<1>5. Generations /\ LoopIsCurrent /\ WriterIsNewer /\ LoopHasWritten
  BY <1>1, <1>2, <1>3 DEF Init, Generations, CurrentIsNewest, LoopIsCurrent, WriterIsNewer,
                          LoopHasWritten
<1> QED
  BY <1>4, <1>5 DEF Inv, Init

(* Every step keeps the types.                                             *)
LEMMA TypeStep == ASSUME TypeOK, Next PROVE TypeOK'
<1> USE BoundAssumption
<1> USE DEF TypeOK, Moves, Writers, Timers, loop, NoWriter, Phases
<1>0. loop \in Writers
  OBVIOUS
<1>1. CASE Save
  <2>1. generation' \in 0..MaxSaves /\ generation' \in Timers /\ mem' \in Nat
    BY <1>1 DEF Save
  <2>2. armed' \subseteq Timers
    BY <1>1, <2>1 DEF Save
  <2> QED BY <1>1, <2>1, <2>2 DEF Save
<1>2. CASE Flush
  <2>1. armed' \subseteq Timers
    BY <1>2 DEF Flush
  <2> QED BY <1>0, <1>2, <2>1 DEF Flush
<1>3. CASE ClearScope
  <2>1. generation' \in 0..MaxSaves /\ mem' \in Nat
    BY <1>3 DEF ClearScope
  <2>2. armed' \subseteq Timers
    BY <1>3 DEF ClearScope
  <2> QED BY <1>0, <1>3, <2>1, <2>2 DEF ClearScope
<1>5. ASSUME NEW g \in Timers, Fire(g) PROVE TypeOK' BY <1>5 DEF Fire
<1>6. ASSUME NEW g \in Timers, ClaimTimer(g) PROVE TypeOK'
  <2>1. CASE g # generation \/ timer = 0 BY <1>6, <2>1 DEF ClaimTimer
  <2>2. CASE ~(g # generation \/ timer = 0)
    <3>1. g \in Writers /\ generation \in 0..MaxSaves
      OBVIOUS
    <3>2. /\ pc' = [pc EXCEPT ![g] = "snapshot"]
          /\ claimed' = [claimed EXCEPT ![g] = generation]
      BY <1>6, <2>2, Zenon DEF ClaimTimer
    <3>3. pc' \in [Writers -> Phases] /\ claimed' \in [Writers -> 0..MaxSaves]
      BY <3>1, <3>2
    <3>4. timer' \in 0..MaxSaves
      BY <1>6, <2>2 DEF ClaimTimer
    <3> HIDE DEF Writers, Timers, Phases, NoWriter
    <3> QED BY <1>6, <3>3, <3>4 DEF ClaimTimer
  <2> QED BY <2>1, <2>2
<1>7. ASSUME NEW p \in Writers, WriterStep(p) PROVE TypeOK'
  <2>1. CASE Snapshot(p) BY <2>1 DEF Snapshot
  <2>2. CASE SnapshotFails(p) BY <2>2 DEF SnapshotFails, NotesFailure
  <2>3. CASE Acquire(p) BY <2>3 DEF Acquire, Returns
  <2>4. CASE Write(p) BY <2>4 DEF Write
  <2>5. CASE WriteFails(p) BY <2>5 DEF WriteFails, NotesFailure
  <2>6. CASE StaysDirty(p) BY <2>6 DEF StaysDirty
  <2>7. CASE Mark(p) BY <2>7 DEF Mark, Returns
  <2>8. CASE Clean(p) BY <2>8 DEF Clean, Returns
  <2> QED BY <1>7, <2>1, <2>2, <2>3, <2>4, <2>5, <2>6, <2>7, <2>8 DEF WriterStep
<1>8. CASE Crash
  <2>1. /\ pc' \in [Writers -> Phases]
        /\ claimed' \in [Writers -> 0..MaxSaves]
        /\ copy' \in [Writers -> Nat]
    BY <1>8 DEF Crash
  <2>2. armed' \subseteq Timers /\ writerLock' \in Writers \cup {NoWriter}
    BY <1>8 DEF Crash
  <2> QED BY <1>8, <2>1, <2>2 DEF Crash
<1> QED BY <1>1, <1>2, <1>3, <1>5, <1>6, <1>7, <1>8 DEF Next

(* What one step does to the versions and to the other invariants.         *)
Progress == Inv' /\ (Store!StoreNext \/ UNCHANGED <<mem, disk, acked>>)

(* The steps of the loop that start a save, a flush or a clear.            *)
LEMMA LoopStep == ASSUME Inv, TypeOK', Save \/ Flush \/ ClearScope PROVE Progress
<1> USE DEF Inv, TypeOK, Writers, Timers, loop, Moves, Progress, Generations,
            CurrentIsNewest, LoopIsCurrent, WriterIsNewer, LoopHasWritten
<1>1. CASE Save
  <2>1. Store!Change BY <1>1 DEF Save, Store!Change
  <2>2. Generations'
    <3>1. generation' = generation + 1 /\ generation \in Nat BY <1>1 DEF Save
    <3>2. UNCHANGED <<pc, claimed, copy>> BY <1>1 DEF Save
    <3>3. \A p \in Writers : claimed[p] \in Nat /\ claimed[p] <= generation
      <4>1. claimed \in [Writers -> 0..MaxSaves] /\ \A p \in Writers : claimed[p] <= generation
        BY Zenon
      <4> HIDE DEF TypeOK, CurrentIsNewest, LoopIsCurrent, LoopHasWritten, WriterIsNewer
      <4> QED BY <4>1
    <3> HIDE DEF TypeOK, LoopIsCurrent, LoopHasWritten, WriterIsNewer
    <3>4. \A p \in Writers : claimed'[p] <= generation' /\ claimed'[p] # generation'
      BY <3>1, <3>2, <3>3
    <3> QED BY <3>4
  <2>3. LoopIsCurrent' /\ LoopHasWritten' BY <1>1 DEF Save
  <2>4. WriterIsNewer' BY <1>1 DEF Save
  <2>5. acked' <= disk' /\ disk' <= mem' BY <1>1 DEF Save
  <2> HIDE DEF TypeOK, Generations, LoopIsCurrent, LoopHasWritten, WriterIsNewer
  <2> QED BY <2>1, <2>2, <2>3, <2>4, <2>5 DEF Store!StoreNext
<1>2. CASE Flush
  <2>1. \A p \in Writers : claimed'[p] <= generation BY <1>2 DEF Flush
  <2>2. CurrentIsNewest' BY <1>2 DEF Flush
  <2>3. LoopIsCurrent' BY <1>2 DEF Flush
  <2>4. WriterIsNewer' /\ LoopHasWritten' BY <1>2 DEF Flush
  <2> QED BY <1>2, <2>1, <2>2, <2>3, <2>4 DEF Flush
<1>3. CASE ClearScope
  <2>1. Store!Change BY <1>3 DEF ClearScope, Store!Change
  <2>2. \A p \in Writers : claimed'[p] <= generation' BY <1>3 DEF ClearScope
  <2>3. CurrentIsNewest' BY <1>3 DEF ClearScope
  <2>4. LoopIsCurrent' BY <1>3 DEF ClearScope
  <2>5. WriterIsNewer' /\ LoopHasWritten' BY <1>3 DEF ClearScope
  <2> QED BY <1>3, <2>1, <2>2, <2>3, <2>4, <2>5 DEF ClearScope, Store!StoreNext
<1> QED BY <1>1, <1>2, <1>3

(* The steps of a writer.                                                  *)
LEMMA WriterProgress ==
  ASSUME Inv, TypeOK', NEW p \in Writers, WriterStep(p) PROVE Progress
<1> USE DEF Inv, TypeOK, Writers, Timers, loop, Moves, Progress, Generations,
            CurrentIsNewest, LoopIsCurrent, WriterIsNewer, LoopHasWritten
<1>1. CASE Snapshot(p) BY <1>1 DEF Snapshot
<1>2. CASE Acquire(p)
  <2>1. CASE claimed[p] # generation
    <3>1. p # loop BY <1>2, <2>1 DEF Acquire
    <3>2. pc' = [pc EXCEPT ![p] = "idle"] /\ UNCHANGED <<mem, disk, acked, generation, claimed, copy, writerLock>>
      BY <1>2, <2>1, <3>1, Zenon DEF Acquire, Returns
    <3>3. Generations' /\ LoopIsCurrent' BY <3>2
    <3>4. WriterIsNewer' /\ LoopHasWritten' BY <3>2
    <3> HIDE DEF TypeOK, Generations, LoopIsCurrent, LoopHasWritten, WriterIsNewer
    <3> QED BY <3>2, <3>3, <3>4
  <2>2. CASE claimed[p] = generation
    <3>1. copy[p] = mem BY <1>2, <2>2 DEF Acquire
    <3>2. WriterIsNewer' BY <1>2, <2>2, <3>1 DEF Acquire, NoWriter
    <3>3. pc' = [pc EXCEPT ![p] = "write"] /\ UNCHANGED <<mem, disk, acked, generation, claimed, copy>>
      BY <1>2, <2>2, Zenon DEF Acquire
    <3>4. Generations' BY <2>2, <3>1, <3>3
    <3>5. LoopIsCurrent' /\ LoopHasWritten' BY <3>3
    <3> HIDE DEF TypeOK, Generations, LoopIsCurrent, LoopHasWritten, WriterIsNewer
    <3> QED BY <3>2, <3>3, <3>4, <3>5
  <2> QED BY <2>1, <2>2
<1>3. CASE Write(p)
  <2>1. Store!Persist BY <1>3 DEF Write, Store!Persist
  <2>2. WriterIsNewer' BY <1>3 DEF Write
  <2>3. LoopHasWritten'
    <3>1. pc'[p] = "mark" /\ \A q \in Writers \ {p} : pc'[q] = pc[q] BY <1>3 DEF Write
    <3>2. CASE p = loop BY <1>3, <3>1, <3>2 DEF Write
    <3>3. CASE p # loop
      <4>1. disk <= disk' BY <1>3 DEF Write
      <4>2. pc'[loop] = pc[loop] /\ UNCHANGED <<acked, copy>> BY <1>3, <3>1, <3>3 DEF Write
      <4>3. loop \in Writers /\ copy[loop] \in Nat /\ disk' \in Nat
        BY BoundAssumption
      <4>4. pc[loop] \in {"mark", "clean"} => acked <= copy[loop] /\ copy[loop] <= disk
        OBVIOUS
      <4>5. disk \in Nat /\ acked \in Nat
        OBVIOUS
      <4> HIDE DEF Inv, TypeOK, Generations, CurrentIsNewest, LoopIsCurrent, WriterIsNewer
      <4> QED BY <4>1, <4>2, <4>3, <4>4, <4>5
    <3> QED BY <3>2, <3>3
  <2>4. Generations' /\ LoopIsCurrent' BY <1>3 DEF Write
  <2>5. acked' <= disk' /\ disk' <= mem' BY <1>3 DEF Write
  <2> HIDE DEF TypeOK, Generations, LoopIsCurrent, LoopHasWritten, WriterIsNewer
  <2> QED BY <2>1, <2>2, <2>3, <2>4, <2>5 DEF Store!StoreNext
<1>4. CASE WriteFails(p) BY <1>4 DEF WriteFails
<1>7. CASE SnapshotFails(p)
  <2>1. \E x \in {"idle", "failed"} : pc' = [pc EXCEPT ![p] = x]
    BY <1>7, Zenon DEF SnapshotFails
  <2>2. UNCHANGED <<mem, disk, acked, generation, claimed, copy, writerLock>>
    BY <1>7 DEF SnapshotFails
  <2>3. Generations' /\ LoopIsCurrent' BY <2>1, <2>2
  <2>4. WriterIsNewer' /\ LoopHasWritten' BY <2>1, <2>2
  <2> HIDE DEF TypeOK, Generations, LoopIsCurrent, LoopHasWritten, WriterIsNewer
  <2> QED BY <2>2, <2>3, <2>4
<1>5. CASE StaysDirty(p) BY <1>5 DEF StaysDirty
<1>6. CASE Mark(p) \/ Clean(p)
  <2>1. \/ UNCHANGED <<mem, disk, acked>>
        \/ pc[loop] \in {"mark", "clean"} /\ acked' = copy[loop] /\ UNCHANGED <<mem, disk>>
    BY <1>6 DEF Mark, Clean, Returns
  <2>2. Store!Acknowledge \/ UNCHANGED <<mem, disk, acked>>
    BY <2>1 DEF Store!Acknowledge
  <2>3. LoopHasWritten'
    <3>1. \/ pc' = [pc EXCEPT ![p] = "clean"] /\ pc[p] = "mark" /\ UNCHANGED acked
          \/ pc' = [pc EXCEPT ![p] = "idle"] /\ (p = loop \/ UNCHANGED acked)
      BY <1>6, Zenon DEF Mark, Clean, Returns
    <3>2. UNCHANGED <<disk, copy>> BY <1>6 DEF Mark, Clean
    <3>3. loop \in Writers /\ p \in Writers BY BoundAssumption
    <3>4. CASE p = loop
      <4>1. CASE pc' = [pc EXCEPT ![p] = "clean"] /\ pc[p] = "mark" /\ UNCHANGED acked
        BY <3>2, <4>1, <3>4
      <4>2. CASE pc' = [pc EXCEPT ![p] = "idle"]
        <5>1. pc'[loop] = "idle" BY <3>3, <3>4, <4>2
        <5> QED BY <5>1
      <4> QED BY <3>1, <4>1, <4>2
    <3>5. CASE p # loop
      <4>1. pc'[loop] = pc[loop] /\ UNCHANGED acked BY <3>1, <3>3, <3>5
      <4> QED BY <3>2, <4>1
    <3> QED BY <3>4, <3>5
  <2>4. acked' <= disk' /\ disk' <= mem' BY <2>1
  <2>5. LoopIsCurrent' /\ Generations'
    <3>1. \E x \in {"idle", "clean"} : pc' = [pc EXCEPT ![p] = x]
      BY <1>6, Zenon DEF Mark, Clean
    <3>2. UNCHANGED <<mem, generation, claimed, copy>> BY <1>6 DEF Mark, Clean
    <3> QED BY <3>1, <3>2
  <2>6. WriterIsNewer' BY <1>6 DEF Mark, Clean
  <2> QED BY <2>2, <2>3, <2>4, <2>5, <2>6 DEF Store!StoreNext
<1> QED BY <1>1, <1>2, <1>3, <1>4, <1>5, <1>6, <1>7 DEF WriterStep

(* Every step keeps the invariant and is a step of a durable store.        *)
LEMMA Step == ASSUME Inv, Next PROVE Progress
<1>1. TypeOK' BY TypeStep DEF Inv
<1>2. CASE Save \/ Flush \/ ClearScope BY <1>1, <1>2, LoopStep
<1>4. ASSUME NEW g \in Timers, Fire(g) \/ ClaimTimer(g) PROVE Progress
  <2> USE DEF Inv, TypeOK, Writers, Timers, loop, Moves, Progress, Generations,
              CurrentIsNewest, LoopIsCurrent, WriterIsNewer, LoopHasWritten
  <2>1. g \in Writers /\ g # loop OBVIOUS
  <2>2. CASE Fire(g) BY <1>1, <2>1, <2>2 DEF Fire
  <2>3. CASE ClaimTimer(g)
    <3>0. /\ \/ pc' = [pc EXCEPT ![g] = "idle"] /\ claimed' = claimed
             \/ /\ pc' = [pc EXCEPT ![g] = "snapshot"]
                /\ claimed' = [claimed EXCEPT ![g] = generation]
          /\ pc[g] = "claim"
          /\ UNCHANGED <<mem, disk, acked, generation, copy, writerLock>>
      <4>1. CASE g # generation \/ timer = 0 BY <2>3, <4>1 DEF ClaimTimer
      <4>2. CASE ~(g # generation \/ timer = 0) BY <2>3, <4>2, Zenon DEF ClaimTimer
      <4> QED BY <4>1, <4>2
    <3>1. \A q \in Writers : claimed'[q] <= generation'
      <4> SUFFICES ASSUME NEW q \in Writers PROVE claimed'[q] <= generation'
        OBVIOUS
      <4>1. claimed'[q] \in {claimed[q], generation} /\ generation' = generation
        BY <2>1, <3>0
      <4>2. generation \in Nat /\ claimed[q] <= generation
        OBVIOUS
      <4> QED BY <4>1, <4>2
    <3>2. CurrentIsNewest' BY <2>1, <3>0
    <3>3. LoopIsCurrent' /\ LoopHasWritten'
      <4>1. loop \in Writers BY BoundAssumption
      <4>2. pc'[loop] = pc[loop] /\ claimed'[loop] = claimed[loop] BY <2>1, <3>0, <4>1
      <4> QED BY <3>0, <4>2
    <3>4. WriterIsNewer' BY <2>1, <3>0
    <3> QED BY <1>1, <3>0, <3>1, <3>2, <3>3, <3>4
  <2> QED BY <1>4, <2>2, <2>3
<1>5. ASSUME NEW p \in Writers, WriterStep(p) PROVE Progress
  BY <1>1, <1>5, WriterProgress
<1>6. CASE Crash
  <2>1. \A p \in Writers : pc'[p] = "idle" /\ claimed'[p] = 0 BY <1>6 DEF Crash
  <2>2. loop \in Writers BY BoundAssumption DEF loop, Writers
  <2>3. Generations' /\ LoopIsCurrent' /\ WriterIsNewer' /\ LoopHasWritten'
    BY <1>6, <2>1, <2>2 DEF Crash, Generations, CurrentIsNewest, LoopIsCurrent,
                            WriterIsNewer, LoopHasWritten
  <2>4. Store!Crash /\ acked' <= disk' /\ disk' <= mem'
    BY <1>6 DEF Crash, Store!Crash, Inv, TypeOK
  <2> QED BY <1>1, <2>3, <2>4 DEF Progress, Inv, Store!StoreNext
<1> QED BY <1>2, <1>4, <1>5, <1>6 DEF Next

(* The session file implements the durable store: whatever the timers, the *)
(* flushes, the clears, the failing writes and the crashes do, the file    *)
(* never goes back and what was acknowledged is never lost.                *)
THEOREM FileIsDurable == Spec => Durable
<1>1. Init => Inv BY InitInv
<1>2. Inv /\ [Next]_vars => Inv' /\ [Store!StoreNext]_(Store!storeVars)
  <2> SUFFICES ASSUME Inv, [Next]_vars PROVE Inv' /\ [Store!StoreNext]_(Store!storeVars)
    OBVIOUS
  <2>1. CASE Next BY <2>1, Step DEF Progress, Store!storeVars
  <2>2. CASE UNCHANGED vars
    BY <2>2 DEF vars, Inv, TypeOK, Generations, CurrentIsNewest, LoopIsCurrent,
                WriterIsNewer, LoopHasWritten, Store!storeVars
  <2> QED BY <2>1, <2>2
<1>3. Init => Store!StoreInit BY DEF Init, Store!StoreInit
<1> QED BY <1>1, <1>2, <1>3, PTL DEF Spec, Durable, Store!StoreSpec

(* A writer whose generation is the newest holds the newest content.       *)
THEOREM NewestIsCurrent == Spec => []CurrentIsNewest
<1>1. Init => Inv BY InitInv
<1>2. Inv /\ [Next]_vars => Inv'
  <2> SUFFICES ASSUME Inv, [Next]_vars PROVE Inv'
    OBVIOUS
  <2>1. CASE Next BY <2>1, Step DEF Progress
  <2>2. CASE UNCHANGED vars
    BY <2>2 DEF vars, Inv, TypeOK, Generations, CurrentIsNewest, LoopIsCurrent,
                WriterIsNewer, LoopHasWritten
  <2> QED BY <2>1, <2>2
<1>3. Inv => CurrentIsNewest BY DEF Inv, Generations
<1> QED BY <1>1, <1>2, <1>3, PTL DEF Spec

-----------------------------------------------------------------------------
(* A timer is started once: one that is armed, or that belongs to a         *)
(* generation still to come, has no thread at work.                        *)
TimersInv ==
  /\ failed <= generation
  /\ \A g \in Timers : /\ g \in armed => g <= generation
                       /\ g \in armed \/ g > generation => pc[g] = "idle"

(* Who is going to write what is in memory only.                           *)
TimerComes == timer = generation /\ (generation \in armed \/ pc[generation] = "claim")
Carries(p) == pc[p] \in {"snapshot", "wait", "write"} /\ claimed[p] = generation
OnItsWay   == TimerComes \/ (\E p \in Writers : Carries(p)) \/ failed = generation

ForgetInv == Inv /\ TimersInv /\ NothingForgotten

(* Every step keeps what is said of the timers.                            *)
LEMMA TimersStep ==
  ASSUME TypeOK, TimersInv, \A p \in Writers : claimed[p] <= generation, Next
  PROVE  TimersInv'
<1>t. /\ pc \in [Writers -> Phases] /\ generation \in 0..MaxSaves /\ failed \in 0..MaxSaves
      /\ \A g \in Timers : g \in Writers /\ g # loop
      /\ \A p \in Writers : claimed[p] \in Nat
  <2>1. claimed \in [Writers -> 0..MaxSaves]
    BY Zenon DEF TypeOK
  <2>2. \A i \in 0..MaxSaves : i \in Nat
    OBVIOUS
  <2>3. \A p \in Writers : claimed[p] \in Nat
    BY <2>1, <2>2, Zenon
  <2>4. \A g \in Timers : g \in Writers /\ g # loop
    BY BoundAssumption DEF Timers, Writers, loop
  <2>5. pc \in [Writers -> Phases] /\ generation \in 0..MaxSaves /\ failed \in 0..MaxSaves
    BY Zenon DEF TypeOK
  <2> QED BY <2>3, <2>4, <2>5
<1> USE BoundAssumption DEF TimersInv, Timers, Writers, loop, Moves
<1>g. ASSUME NEW p \in Writers, NEW x, pc' = [pc EXCEPT ![p] = x], pc[p] # "idle",
             UNCHANGED <<generation, armed>>, failed' <= generation
      PROVE  TimersInv'
  BY <1>t, <1>g
<1>1. CASE Save
  BY <1>1, <1>t DEF Save
<1>2. CASE Flush
  BY <1>2, <1>t DEF Flush
<1>3. CASE ClearScope
  BY <1>3, <1>t DEF ClearScope
<1>4. ASSUME NEW g \in Timers, Fire(g) PROVE TimersInv'
  BY <1>4, <1>t DEF Fire
<1>5. ASSUME NEW g \in Timers, ClaimTimer(g) PROVE TimersInv'
  <2>1. \E x : pc' = [pc EXCEPT ![g] = x]
    BY <1>5, Zenon DEF ClaimTimer
  <2>2. UNCHANGED <<generation, armed, failed>> /\ pc[g] = "claim"
    BY <1>5 DEF ClaimTimer
  <2> QED BY <1>g, <1>t, <2>1, <2>2
<1>6. ASSUME NEW p \in Writers, WriterStep(p) PROVE TimersInv'
  <2>1. \E x : pc' = [pc EXCEPT ![p] = x]
    BY <1>6, Zenon DEF WriterStep, Snapshot, SnapshotFails, Acquire, Write, WriteFails, StaysDirty, Mark, Clean
  <2>2. UNCHANGED <<generation, armed>> /\ pc[p] # "idle"
    BY <1>6 DEF WriterStep, Snapshot, SnapshotFails, Acquire, Write, WriteFails, StaysDirty, Mark, Clean
  <2>3. failed' = failed \/ failed' = claimed[p]
    BY <1>6 DEF WriterStep, Snapshot, SnapshotFails, Acquire, Write, WriteFails, StaysDirty, Mark, Clean,
       NotesFailure
  <2>4. failed' <= generation
    BY <1>6, <1>t, <2>3
  <2> QED BY <1>g, <2>1, <2>2, <2>4
<1>7. CASE Crash
  BY <1>7, <1>t DEF Crash
<1> QED BY <1>1, <1>2, <1>3, <1>4, <1>5, <1>6, <1>7 DEF Next

(* A writer that moves leaves the timer that is to come as it is.          *)
LEMMA TimerStays ==
  ASSUME TypeOK, TimerComes, NEW p \in Writers, NEW x, pc' = [pc EXCEPT ![p] = x],
         pc[p] # "claim", UNCHANGED <<generation, armed, timer>>
  PROVE  TimerComes'
<1>1. pc \in [Writers -> Phases] /\ generation \in Writers
  BY BoundAssumption DEF TypeOK, Writers
<1> QED BY <1>1 DEF TimerComes

(* Another writer's move leaves a writer that is on its way where it is.   *)
LEMMA CarrierStays ==
  ASSUME TypeOK, NEW q \in Writers, Carries(q), NEW p \in Writers, p # q,
         NEW x, pc' = [pc EXCEPT ![p] = x], UNCHANGED <<generation, claimed>>
  PROVE  Carries(q)'
BY DEF TypeOK, Carries

(* As long as something is in memory only, somebody is going to write it   *)
(* or its write has failed, whatever step comes next.                      *)
LEMMA ForgottenStep == ASSUME Inv, TimersInv, NothingForgotten, Next PROVE NothingForgotten'
<1> SUFFICES ASSUME disk' # mem' PROVE OnItsWay'
  BY DEF NothingForgotten, OnItsWay, TimerComes, Carries
<1>t. /\ TypeOK /\ pc \in [Writers -> Phases] /\ claimed \in [Writers -> 0..MaxSaves]
      /\ generation \in 0..MaxSaves /\ failed \in 0..MaxSaves
      /\ disk \in Nat /\ mem \in Nat /\ failed <= generation
      /\ loop \in Writers /\ Timers \subseteq Writers /\ loop \notin Timers
  <2>1. TypeOK /\ TimersInv
    BY DEF Inv
  <2>2. /\ pc \in [Writers -> Phases] /\ claimed \in [Writers -> 0..MaxSaves]
        /\ generation \in 0..MaxSaves /\ failed \in 0..MaxSaves /\ disk \in Nat /\ mem \in Nat
    BY <2>1, Zenon DEF TypeOK
  <2>3. failed <= generation
    BY <2>1, Zenon DEF TimersInv
  <2>4. loop \in Writers /\ Timers \subseteq Writers /\ loop \notin Timers
    BY BoundAssumption DEF Timers, Writers, loop
  <2> QED BY <2>1, <2>2, <2>3, <2>4
<1>w. disk # mem => OnItsWay
  BY DEF NothingForgotten, OnItsWay, TimerComes, Carries
<1>1. CASE Save
  <2>1. TimerComes'
    BY <1>1 DEF Save, TimerComes
  <2> QED BY <2>1 DEF OnItsWay
<1>2. CASE Flush
  <2>1. Carries(loop)'
    BY <1>2, <1>t DEF Flush, Carries, Moves
  <2> QED BY <1>t, <2>1 DEF OnItsWay
<1>3. CASE ClearScope
  <2>1. Carries(loop)'
    BY <1>3, <1>t DEF ClearScope, Carries, Moves
  <2> QED BY <1>t, <2>1 DEF OnItsWay
<1>4. ASSUME NEW g \in Timers, Fire(g) PROVE OnItsWay'
  <2>1. /\ g \in armed /\ armed' = armed \ {g} /\ pc' = [pc EXCEPT ![g] = "claim"]
        /\ UNCHANGED <<generation, timer, claimed, failed, disk, mem>>
    BY <1>4 DEF Fire, Moves
  <2>2. OnItsWay /\ pc[g] = "idle" /\ g \in Writers
    BY <1>4, <1>t, <1>w, <2>1 DEF TimersInv
  <2>3. CASE TimerComes
    <3>1. TimerComes'
      BY <1>t, <2>1, <2>2, <2>3 DEF TimerComes
    <3> QED BY <3>1 DEF OnItsWay
  <2>4. ASSUME NEW q \in Writers, Carries(q) PROVE OnItsWay'
    <3>1. q # g
      BY <2>2, <2>4 DEF Carries
    <3>2. Carries(q)'
      BY <1>t, <2>1, <2>2, <2>4, <3>1, CarrierStays
    <3> QED BY <3>2 DEF OnItsWay
  <2>5. CASE failed = generation
    BY <2>1, <2>5 DEF OnItsWay
  <2> QED BY <2>2, <2>3, <2>4, <2>5 DEF OnItsWay
<1>5. ASSUME NEW g \in Timers, ClaimTimer(g) PROVE OnItsWay'
  <2>1. OnItsWay /\ pc[g] = "claim" /\ g \in Writers /\ UNCHANGED <<generation, armed, failed>>
    BY <1>5, <1>t, <1>w DEF ClaimTimer
  <2>2. CASE g # generation \/ timer = 0
    <3>1. pc' = [pc EXCEPT ![g] = "idle"] /\ UNCHANGED <<timer, claimed>>
      BY <1>5, <2>2 DEF ClaimTimer, Moves
    <3>2. CASE TimerComes
      <4>1. g # generation
        BY <1>t, <2>2, <3>2, BoundAssumption DEF TimerComes, Timers
      <4>2. TimerComes'
        BY <1>t, <2>1, <3>1, <3>2, <4>1 DEF TimerComes, Writers
      <4> QED BY <4>2 DEF OnItsWay
    <3>3. ASSUME NEW q \in Writers, Carries(q) PROVE OnItsWay'
      <4>1. q # g
        BY <2>1, <3>3 DEF Carries
      <4>2. Carries(q)'
        BY <1>t, <2>1, <3>1, <3>3, <4>1, CarrierStays
      <4> QED BY <4>2 DEF OnItsWay
    <3>4. CASE failed = generation
      BY <2>1, <3>4 DEF OnItsWay
    <3> QED BY <2>1, <3>2, <3>3, <3>4 DEF OnItsWay
  <2>3. CASE ~(g # generation \/ timer = 0)
    <3>1. /\ pc' = [pc EXCEPT ![g] = "snapshot"]
          /\ claimed' = [claimed EXCEPT ![g] = generation]
      BY <1>5, <2>3, Zenon DEF ClaimTimer, Moves
    <3>2. Carries(g)'
      BY <1>t, <2>1, <3>1 DEF Carries
    <3> QED BY <2>1, <3>2 DEF OnItsWay
  <2> QED BY <2>2, <2>3
<1>6. ASSUME NEW p \in Writers, WriterStep(p) PROVE OnItsWay'
  <2> DEFINE Changes == Snapshot(p) \/ SnapshotFails(p) \/ Acquire(p) \/ Write(p) \/ WriteFails(p)
                        \/ StaysDirty(p) \/ Mark(p) \/ Clean(p)
  <2>0. Changes
    BY <1>6 DEF WriterStep
  <2>1. PICK x : pc' = [pc EXCEPT ![p] = x]
    BY <2>0, Zenon DEF Snapshot, SnapshotFails, Acquire, Write, WriteFails, StaysDirty, Mark, Clean, Moves
  <2>2. UNCHANGED <<generation, armed, timer, claimed, mem>> /\ pc[p] \notin {"idle", "claim"}
    BY <2>0 DEF Snapshot, SnapshotFails, Acquire, Write, WriteFails, StaysDirty, Mark, Clean
  <2>3. failed' \in {failed, claimed[p]} /\ failed' >= failed
    BY <2>0, <1>t DEF Snapshot, SnapshotFails, Acquire, Write, WriteFails, StaysDirty, Mark, Clean,
                 NotesFailure
  <2>4. claimed[p] <= generation
    BY DEF Inv, Generations
  <2>5. disk # mem
    <3>1. CASE Write(p)
      <4>1. disk <= copy[p] /\ copy[p] <= mem /\ copy[p] \in Nat /\ disk' = copy[p]
        BY <3>1, BoundAssumption DEF Inv, WriterIsNewer, Write, TypeOK
      <4> QED BY <1>t, <2>2, <4>1
    <3>2. CASE ~Write(p)
      <4>1. disk' = disk
        BY <2>0, <3>2 DEF Snapshot, SnapshotFails, Acquire, WriteFails, StaysDirty, Mark, Clean
      <4> QED BY <2>2, <4>1
    <3> QED BY <3>1, <3>2
  <2>6. CASE TimerComes
    <3>1. TimerComes'
      BY <1>t, <2>1, <2>2, <2>6, TimerStays
    <3> QED BY <3>1 DEF OnItsWay
  <2>7. ASSUME NEW q \in Writers, Carries(q), q # p PROVE OnItsWay'
    <3>1. Carries(q)'
      BY <1>t, <2>1, <2>2, <2>7, CarrierStays
    <3> QED BY <3>1 DEF OnItsWay
  <2>8. CASE Carries(p)
    <3>1. CASE Snapshot(p)
      <4>1. Carries(p)'
        BY <1>t, <2>2, <2>8, <3>1 DEF Snapshot, Moves, Carries
      <4> QED BY <4>1 DEF OnItsWay
    <3>2. CASE Acquire(p)
      <4>1. Carries(p)'
        BY <1>t, <2>2, <2>8, <3>2 DEF Acquire, Moves, Carries
      <4> QED BY <4>1 DEF OnItsWay
    <3>3. CASE Write(p)
      <4>1. disk' = mem'
        BY <2>2, <2>8, <3>3 DEF Write, Carries, Inv, Generations, CurrentIsNewest
      <4> QED BY <4>1
    <3>4. CASE SnapshotFails(p) \/ WriteFails(p)
      <4>1. failed' = generation'
        BY <1>t, <2>2, <2>8, <3>4 DEF SnapshotFails, WriteFails, NotesFailure, Carries
      <4> QED BY <4>1 DEF OnItsWay
    <3>5. ~(StaysDirty(p) \/ Mark(p) \/ Clean(p))
      BY <2>8 DEF StaysDirty, Mark, Clean, Carries
    <3> QED BY <2>0, <3>1, <3>2, <3>3, <3>4, <3>5
  <2>9. CASE failed = generation
    <3>1. failed' = generation'
      BY <1>t, <2>2, <2>3, <2>4, <2>9
    <3> QED BY <3>1 DEF OnItsWay
  <2> QED BY <1>w, <2>5, <2>6, <2>7, <2>8, <2>9 DEF OnItsWay
<1>7. CASE Crash
  BY <1>7 DEF Crash
<1> HIDE DEF OnItsWay
<1> QED BY <1>1, <1>2, <1>3, <1>4, <1>5, <1>6, <1>7 DEF Next

(* Whatever is in memory only will be written, or its write has failed: no *)
(* order of saves, timers, flushes and clears leaves a change behind with  *)
(* nobody to write it.                                                     *)
THEOREM NoChangeIsForgotten == Spec => []NothingForgotten
<1>1. Init => ForgetInv
  BY InitInv, BoundAssumption DEF Init, ForgetInv, TimersInv, NothingForgotten, Timers, Writers
<1>2. ForgetInv /\ [Next]_vars => ForgetInv'
  <2> SUFFICES ASSUME ForgetInv, [Next]_vars PROVE ForgetInv'
    OBVIOUS
  <2>1. CASE Next
    <3>1. Inv'
      BY <2>1, Step DEF Progress, ForgetInv
    <3>2. TimersInv'
      BY <2>1, TimersStep DEF ForgetInv, Inv, Generations
    <3>3. NothingForgotten'
      BY <2>1, ForgottenStep DEF ForgetInv
    <3> QED BY <3>1, <3>2, <3>3 DEF ForgetInv
  <2>2. CASE UNCHANGED vars
    BY <2>2 DEF vars, ForgetInv, Inv, TypeOK, Generations, CurrentIsNewest, LoopIsCurrent,
                WriterIsNewer, LoopHasWritten, TimersInv, NothingForgotten
  <2> QED BY <2>1, <2>2
<1>3. ForgetInv => NothingForgotten BY DEF ForgetInv
<1> QED BY <1>1, <1>2, <1>3, PTL DEF Spec
=============================================================================
