------------------------- MODULE TreeQueueProcessor -------------------------
(***************************************************************************)
(* One message tree under its manager and its task processor               *)
(* (messaging/trees/manager.py, processor.py, node_runner.py).  The manager *)
(* publishes the tree, serialises every transition on its lock and never   *)
(* suspends while it holds it, so a transition and the task it launches or *)
(* cancels are one action.  Between those, the claim's task takes its own  *)
(* steps, and the asyncio loop may run it late, or not at all when it is   *)
(* cancelled before its first step.                                        *)
(***************************************************************************)
EXTENDS MessageTree

CONSTANT NoTask       \* no slot in TreeQueueProcessor._tasks

VARIABLES
    published,        \* the repository maps the root to this tree
    task              \* TreeQueueProcessor._tasks, by claim id

procVars == <<published, task>>
allVars  == <<vars, procVars>>

(* created: scheduled, its body not entered; dead: cancelled before that;  *)
(* announcing: in the started and queue callbacks; running: the node       *)
(* runner; failed: in the failure callback after the runner raised.        *)
Phases == {"created", "dead", "announcing", "running", "failed"}

Task == [phase : Phases, announce : BOOLEAN, cancelled : BOOLEAN]

ASSUME NoTaskAssumption == NoTask \notin Task

Live(id) == task[id] # NoTask

RunnerStarted(id) == task[id].phase \in {"running", "failed"}

ProcTypeOK == published \in BOOLEAN /\ task \in [Claims -> Task \cup {NoTask}]

-----------------------------------------------------------------------------
(* Slots.                                                                  *)

Launched(announce) == [phase |-> "created", announce |-> announce, cancelled |-> FALSE]

Enters(id, phase) == task' = [task EXCEPT ![id].phase = phase]

(* Cancel the task of the active claim when its node is one of S.          *)
CancelTask(S) ==
  task' = IF active # NoClaim /\ active.node \in S /\ Live(active.id)
            THEN [task EXCEPT ![active.id].cancelled = TRUE] ELSE task

ProcInit ==
  /\ Init
  /\ published = TRUE
  /\ task = [c \in Claims |-> IF c = active.id THEN Launched(FALSE) ELSE NoTask]

-----------------------------------------------------------------------------
(* The manager's transitions.                                              *)

(* admit: a reply claimed at once gets its task in the same step.          *)
Admit(n, ref, c) ==
  /\ published /\ ~Live(c)
  /\ AddAndEnqueue(n, ref, c)
  /\ task' = IF active = NoClaim THEN [task EXCEPT ![c] = Launched(FALSE)] ELSE task
  /\ UNCHANGED published

Readmit(n, c) ==
  /\ published /\ ~Live(c)
  /\ EnqueueOrClaim(n, c)
  /\ UNCHANGED procVars

StopNode(n) ==
  /\ published
  /\ CancelNode(n)
  /\ CancelTask({n})
  /\ UNCHANGED published

StopAll ==
  /\ published
  /\ CancelAll
  /\ CancelTask(nodes)
  /\ UNCHANGED published

(* Clearing the root's subtree detaches the tree from the repository.      *)
ClearReply(ref) ==
  /\ published
  /\ RemoveMessageSubtree(ref)
  /\ CancelTask(ReplySubtree(ref) \cup (IF ref[2] = "status" THEN {ref[1]} ELSE {}))
  /\ published' = (Root \in nodes')

(* /clear of the chat: the tree is detached unless cancel_all raises.      *)
ClearScope ==
  /\ published
  /\ CancelAll
  /\ CancelTask(nodes)
  /\ published' = LacksTarget(nodes)

-----------------------------------------------------------------------------
(* The steps of a claim's task.                                            *)

(* The first step of the body; a task cancelled before it never has one.   *)
Enter(id) ==
  /\ Live(id) /\ task[id].phase = "created"
  /\ Enters(id, IF task[id].cancelled THEN "dead"
                ELSE IF task[id].announce THEN "announcing" ELSE "running")
  /\ UNCHANGED <<vars, published>>

(* Mutant: the cancellation request is not looked at after the callbacks.  *)
AnnouncedRegardless(id) ==
  /\ Live(id) /\ task[id].phase = "announcing"
  /\ Enters(id, "running")
  /\ UNCHANGED <<vars, published>>

(* Both callbacks have returned and no cancellation came in.               *)
Announced(id) ==
  /\ Live(id) /\ task[id].phase = "announcing" /\ ~task[id].cancelled
  /\ Enters(id, "running")
  /\ UNCHANGED <<vars, published>>

Reports(id) == published /\ Live(id) /\ task[id].phase = "running"

RunnerRecords(id, s) == Reports(id) /\ RecordSession(id, s) /\ UNCHANGED procVars

RunnerCompletes(id, s) == Reports(id) /\ CompleteClaim(id, s) /\ UNCHANGED procVars

RunnerFails(id, propagate) == Reports(id) /\ FailClaim(id, propagate) /\ UNCHANGED procVars

(* The runner raised: the processor fails the claim with its descendants,  *)
(* where the aggregate still lets it.                                      *)
RunnerRaises(id) ==
  /\ Reports(id)
  /\ \/ FailClaim(id, TRUE)
     \/ /\ ~MayReport(id) \/ state[active.node] = "completed"
        /\ UNCHANGED vars
  /\ Enters(id, "failed")
  /\ UNCHANGED published

(* Mutant: a claim may be finished while its runner is still at work.      *)
BodyOverEarly(id) == Live(id) /\ task[id].phase # "created"

(* Mutant: a claim whose runner raised is not finished.                    *)
BodyOverReturned(id) ==
  /\ Live(id)
  /\ \/ task[id].phase = "dead"
     \/ task[id].phase = "announcing" /\ task[id].cancelled
     \/ task[id].phase = "running" /\ RunnerLeft(id)

(* The body is over: the runner returned, it was cancelled out of the      *)
(* callbacks, or it never began and the recovery task takes its place.     *)
BodyOver(id) ==
  /\ Live(id)
  /\ \/ task[id].phase \in {"dead", "failed"}
     \/ task[id].phase = "announcing" /\ task[id].cancelled
     \/ task[id].phase = "running" /\ RunnerLeft(id)

(* Mutant: the successor is claimed and gets no task.                      *)
FinishUnlaunched(id, c) ==
  /\ BodyOver(id) /\ ~Live(c)
  /\ FinishAndClaimNext(id, c)
  /\ task' = [task EXCEPT ![id] = NoTask]
  /\ UNCHANGED published

(* _finish_and_continue: release the claim, launch its successor while the *)
(* tree is published, and give up the slot.                                *)
Finish(id, c) ==
  /\ BodyOver(id) /\ ~Live(c)
  /\ FinishAndClaimNext(id, c)
  /\ task' = [task EXCEPT ![id] = NoTask,
                          ![c] = IF published /\ active' # NoClaim
                                   THEN Launched(TRUE) ELSE NoTask]
  /\ UNCHANGED published

(* The process stops and starts again from the saved graph.                *)
Reboot ==
  /\ published
  /\ Restart
  /\ task' = [c \in Claims |-> NoTask]
  /\ UNCHANGED published

-----------------------------------------------------------------------------
TaskStep(id) ==
  \/ Enter(id)
  \/ Announced(id)
  \/ \E s \in Sessions : RunnerRecords(id, s)
  \/ \E s \in Sessions \cup {NoSession} : RunnerCompletes(id, s)
  \/ \E propagate \in BOOLEAN : RunnerFails(id, propagate)
  \/ RunnerRaises(id)
  \/ \E c \in Claims : Finish(id, c)

ProcNext ==
  \/ \E n \in Prompts, ref \in Refs, c \in Claims : Admit(n, ref, c)
  \/ \E n \in Prompts, c \in Claims : Readmit(n, c)
  \/ \E n \in Prompts : StopNode(n)
  \/ StopAll
  \/ \E ref \in Refs : ClearReply(ref)
  \/ ClearScope
  \/ \E id \in Claims : TaskStep(id)
  \/ Reboot

ProcSpec == ProcInit /\ [][ProcNext]_allVars

(* The loop runs every task that is ready; a CLI run ends by itself, with  *)
(* a verdict, and a cancelled runner winds down.                           *)
RunEnds(id) ==
  /\ Holds(id) /\ state[active.node] = "in_progress"
  /\ \/ \E s \in Sessions : RunnerCompletes(id, s)
     \/ RunnerFails(id, TRUE)

Fairness ==
  \A id \in Claims :
    /\ WF_allVars(Enter(id) \/ Announced(id) \/ \E c \in Claims : Finish(id, c))
    /\ WF_allVars(RunEnds(id))

FairSpec == ProcSpec /\ Fairness

-----------------------------------------------------------------------------
(* Every claim that is out belongs to exactly one live task, and every     *)
(* live task holds the claim that is out: no prompt is in progress with    *)
(* nobody working on it, and no second task works on the same tree.        *)
TaskIsClaim == \A id \in Claims : Live(id) <=> Holds(id)

(* A detached tree has nothing waiting, so the release of its last claim   *)
(* claims no successor that would never get a task.                        *)
DetachedIsDrained == ~published => Runnable = {} /\ queue = << >>

(* No claim is stranded, neither behind a task nor in a detached tree, and *)
(* wait_idle, which waits for the tasks, returns only when all is done.    *)
NoneStranded == TaskIsClaim /\ DetachedIsDrained

(* A task cancelled before its runner began never begins it.               *)
StoppedNeverStarts ==
  [][\A id \in Claims :
       Live(id) /\ task[id].cancelled /\ ~RunnerStarted(id) /\ task'[id] # NoTask
         => task'[id].phase \notin {"running", "failed"}]_allVars

(* Every prompt that waits is settled or started in the end.               *)
EveryPromptServed == \A n \in Prompts : state[n] = "pending" ~> state[n] # "pending"

(* A cancelled task always ends and gives up its slot.                     *)
StopEnds == \A id \in Claims : (Live(id) /\ task[id].cancelled) ~> ~Live(id)

(* Nobody waits for ever: neither a prompt for its turn, whoever releases  *)
(* the claim before it and however, nor a stop for the task it cancelled.  *)
NobodyWaits == EveryPromptServed /\ StopEnds
=============================================================================
