---------------------------- MODULE MessageTree ----------------------------
(***************************************************************************)
(* The runtime aggregate of one conversation tree of the messaging bots    *)
(* (messaging/trees/runtime.py over graph.py, queue.py and node.py): the   *)
(* reply graph, the FIFO of prompts that wait, and the one claim that is   *)
(* being executed.  Every method runs under the aggregate's lock and never *)
(* suspends inside it, so each is one action.                              *)
(*                                                                         *)
(* A prompt is a node; the bot answers it with one status message.  A      *)
(* message reference is the prompt itself or its status, and a reply hangs *)
(* below the exact reference it was sent to.  The id of a status message   *)
(* is fresh in the platform, so <<prompt, "status">> stands for it.        *)
(***************************************************************************)
EXTENDS MessageNodeQueue

CONSTANTS
    Prompts,      \* the prompt messages users send to this chat
    Root,         \* the prompt the tree was created for
    Claims,       \* claim identities: a fresh one is unlike every other in use
    Sessions,     \* the CLI sessions a runner may report
    NoClaim,      \* _active is None
    NoRef,        \* parent_reference_id is None
    NoSession     \* session_id is None

Refs == Prompts \X {"prompt", "status"}

ActiveClaim == [id : Claims, node : Prompts, cancelled : BOOLEAN,
                resume : Sessions \cup {NoSession}]

ASSUME RootAssumption == Root \in Prompts
ASSUME NoneAssumption == /\ NoSession \notin Sessions
                         /\ NoRef \notin Refs
                         /\ NoClaim \notin ActiveClaim

VARIABLES
    state,        \* MessageNode.state, "absent" for a prompt not in the graph
    parentRef,    \* MessageNode.parent_reference_id (it fixes parent_id)
    hasStatus,    \* MessageNode.status_message_id is not None
    session,      \* MessageNode.session_id
    queue,        \* MessageTree._queue
    active        \* MessageTree._active

graph == <<state, parentRef, hasStatus, session>>
vars  == <<state, parentRef, hasStatus, session, queue, active>>

-----------------------------------------------------------------------------
(* Reading the graph.                                                      *)

nodes    == {n \in Prompts : state[n] # "absent"}
Runnable == {n \in Prompts : state[n] \in {"pending", "in_progress"}}
Pending  == {n \in Prompts : state[n] = "pending"}

(* resolve_reference: a prompt of the graph, or the live status of one.    *)
Resolves(ref) == ref[1] \in nodes /\ (ref[2] = "status" => hasStatus[ref[1]])

Parent(n) == parentRef[n][1]
IsReply(n) == parentRef[n] # NoRef

(* get_descendants: n and every node below it, the least set of nodes that *)
(* holds n and the replies to its members.                                 *)
KeepsChildren(S) == \A k \in nodes : IsReply(k) /\ Parent(k) \in S => k \in S

Descendants(n) ==
  LET closed == {S \in SUBSET nodes : n \in S /\ KeepsChildren(S)}
  IN  {m \in nodes : \A S \in closed : m \in S}

(* get_reference_descendants, restricted to its prompts: what was sent, at *)
(* any depth, in reply to one exact message.                               *)
KeepsReplies(S, ref) ==
  \A k \in nodes : IsReply(k) =>
    (parentRef[k] = ref \/ (Parent(k) \in S /\ Resolves(parentRef[k])) => k \in S)

(* Mutant: only the direct replies are collected.                          *)
ReplySubtreeShallow(ref) ==
  {m \in nodes : parentRef[m] = ref \/ (ref[2] = "prompt" /\ m = ref[1])}

ReplySubtree(ref) ==
  LET closed == {S \in SUBSET nodes :
                   (ref[2] = "prompt" => ref[1] \in S) /\ KeepsReplies(S, ref)}
  IN  {m \in nodes : \A S \in closed : m \in S}

-----------------------------------------------------------------------------
TypeOK ==
  /\ state \in [Prompts -> {"absent", "pending", "in_progress", "completed", "error"}]
  /\ parentRef \in [Prompts -> Refs \cup {NoRef}]
  /\ hasStatus \in [Prompts -> BOOLEAN]
  /\ session \in [Prompts -> Sessions \cup {NoSession}]
  /\ queue \in Seq(Prompts)
  /\ active \in ActiveClaim \cup {NoClaim}

(* MessageTree(root) followed by enqueue_or_claim(root): the manager       *)
(* publishes a new tree only with its root already claimed.                *)
Init ==
  /\ state = [n \in Prompts |-> IF n = Root THEN "in_progress" ELSE "absent"]
  /\ parentRef = [n \in Prompts |-> NoRef]
  /\ hasStatus = [n \in Prompts |-> n = Root]
  /\ session = [n \in Prompts |-> NoSession]
  /\ queue = << >>
  /\ \E c \in Claims : active = [id |-> c, node |-> Root, cancelled |-> FALSE,
                                 resume |-> NoSession]

(* What a node hands on to the runner: the session its parent left.        *)
SessionBehind(ref) == IF ref = NoRef THEN NoSession ELSE session[ref[1]]

Claim(n, ref, c) ==
  /\ state' = [state EXCEPT ![n] = "in_progress"]
  /\ active' = [id |-> c, node |-> n, cancelled |-> FALSE, resume |-> SessionBehind(ref)]

(* Claim a waiting node at once when nothing runs, queue it otherwise.     *)
ClaimOrQueue(n, ref, c) ==
  IF active = NoClaim
    THEN Claim(n, ref, c) /\ UNCHANGED queue
    ELSE /\ state' = [state EXCEPT ![n] = "pending"]
         /\ queue' = Put(queue, n)
         /\ UNCHANGED active

(* Admission of a reply, below the exact reference it was sent to.         *)
AddAndEnqueue(n, ref, c) ==
  /\ n \notin nodes
  /\ Resolves(ref)
  /\ parentRef' = [parentRef EXCEPT ![n] = ref]
  /\ hasStatus' = [hasStatus EXCEPT ![n] = TRUE]
  /\ session' = [session EXCEPT ![n] = NoSession]
  /\ ClaimOrQueue(n, ref, c)

(* Mutant: a prompt that failed is admitted again like a waiting one.      *)
EnqueueOrClaimRetry(n, c) ==
  /\ n \in nodes
  /\ IF state[n] \in {"pending", "error"}
       THEN ClaimOrQueue(n, parentRef[n], c) /\ UNCHANGED <<parentRef, hasStatus, session>>
       ELSE UNCHANGED vars

(* A second admission of a prompt the tree already holds.                  *)
EnqueueOrClaim(n, c) ==
  /\ n \in nodes
  /\ IF state[n] = "pending"
       THEN ClaimOrQueue(n, parentRef[n], c) /\ UNCHANGED <<parentRef, hasStatus, session>>
       ELSE UNCHANGED vars

Holds(id) == active # NoClaim /\ active.id = id

(* A runner that was not cancelled leaves only after it has reported its    *)
(* node completed or failed; a cancelled one leaves its node failed.       *)
RunnerLeft(id) == Holds(id) /\ state[active.node] # "in_progress"

(* Mutant: the newest waiting prompt is claimed first.                     *)
FinishAndClaimLast(id, c) ==
  /\ Holds(id) /\ c # id
  /\ UNCHANGED <<parentRef, hasStatus, session>>
  /\ \/ /\ queue = << >>
        /\ active' = NoClaim
        /\ UNCHANGED <<queue, state>>
     \/ /\ queue # << >>
        /\ Claim(queue[Len(queue)], parentRef[queue[Len(queue)]], c)
        /\ queue' = SubSeq(queue, 1, Len(queue) - 1)

(* Release the matching claim and give the tree to the first prompt that   *)
(* still waits, under the fresh claim c.                                   *)
FinishAndClaimNext(id, c) ==
  LET waiting == {i \in 1..Len(queue) : state[queue[i]] = "pending"}
  IN  /\ Holds(id) /\ c # id
      /\ UNCHANGED <<parentRef, hasStatus, session>>
      /\ \/ /\ waiting = {}
            /\ active' = NoClaim
            /\ queue' = << >>
            /\ UNCHANGED state
         \/ \E i \in waiting :
              /\ \A j \in waiting : i <= j
              /\ Claim(queue[i], parentRef[queue[i]], c)
              /\ queue' = SubSeq(queue, i + 1, Len(queue))

-----------------------------------------------------------------------------
(* Cancellation and removal.                                               *)

(* The active claim after the cancellation of a set of nodes.              *)
Interrupted(S) ==
  IF active # NoClaim /\ active.node \in S
    THEN [active EXCEPT !.cancelled = TRUE] ELSE active

(* The node states after the runnable nodes of a set were marked failed.   *)
Failed(S) == [n \in Prompts |-> IF n \in S \cap Runnable THEN "error" ELSE state[n]]

(* _ui_target raises for an active node whose status message was cleared   *)
(* while its runner was still winding down.                                *)
LacksTarget(S) ==
  /\ active # NoClaim
  /\ active.node \in S \cap nodes
  /\ state[active.node] = "error"
  /\ ~hasStatus[active.node]

(* Mutant: the cancelled prompt stays in the queue.                        *)
CancelNodeQueued(n) ==
  /\ n \in nodes
  /\ active' = Interrupted({n})
  /\ state' = Failed({n})
  /\ UNCHANGED <<queue, parentRef, hasStatus, session>>

CancelNode(n) ==
  /\ n \in nodes
  /\ active' = Interrupted({n})
  /\ state' = Failed({n})
  /\ queue' = Without(queue, {n})
  /\ UNCHANGED <<parentRef, hasStatus, session>>

(* The ValueError of _ui_target leaves the method before the queue is      *)
(* drained.                                                                *)
CancelAll ==
  /\ nodes # {}
  /\ active' = Interrupted(nodes)
  /\ UNCHANGED <<parentRef, hasStatus, session>>
  /\ \/ /\ LacksTarget(nodes)
        /\ UNCHANGED <<state, queue>>
     \/ /\ ~LacksTarget(nodes)
        /\ state' = Failed(Prompts)
        /\ queue' = << >>

(* /clear in reply to one message: the replies below it are cancelled and  *)
(* leave the graph; the owner of a cleared status stays without status and *)
(* session.  When _ui_target raises half way through the affected nodes,   *)
(* the nodes met before it are cancelled and nothing is removed.           *)
RemoveMessageSubtree(ref) ==
  LET removed  == ReplySubtree(ref)
      affected == removed \cup (IF ref[2] = "status" THEN {ref[1]} ELSE {})
  IN  /\ Resolves(ref)
      /\ active' = Interrupted(affected)
      /\ \/ /\ ~LacksTarget(affected)
            /\ state' = [n \in Prompts |-> IF n \in removed THEN "absent"
                                           ELSE IF n \in affected THEN "error"
                                           ELSE state[n]]
            /\ parentRef' = [n \in Prompts |-> IF n \in removed THEN NoRef ELSE parentRef[n]]
            /\ hasStatus' = [n \in Prompts |-> hasStatus[n] /\ n \notin affected]
            /\ session' = [n \in Prompts |-> IF n \in affected THEN NoSession ELSE session[n]]
            /\ queue' = Without(queue, affected)
         \/ /\ LacksTarget(affected)
            /\ \E met \in SUBSET (affected \ {active.node}) :
                 /\ state' = Failed(met)
                 /\ queue' = Without(queue, met)
            /\ UNCHANGED <<parentRef, hasStatus, session>>

-----------------------------------------------------------------------------
(* What the runner reports under its claim.                                *)

MayReport(id) == Holds(id) /\ ~active.cancelled /\ active.node \in nodes

RecordSession(id, s) ==
  /\ MayReport(id)
  /\ state[active.node] = "in_progress"
  /\ session' = [session EXCEPT ![active.node] = s]
  /\ UNCHANGED <<state, parentRef, hasStatus, queue, active>>

CompleteClaim(id, s) ==
  /\ MayReport(id)
  /\ state[active.node] \in {"in_progress", "error"}
  /\ state' = [state EXCEPT ![active.node] = "completed"]
  /\ session' = IF s = NoSession THEN session ELSE [session EXCEPT ![active.node] = s]
  /\ UNCHANGED <<parentRef, hasStatus, queue, active>>

(* The failure of a claim may take the prompts waiting below it with it.   *)
FailClaim(id, propagate) ==
  LET below == IF propagate THEN Descendants(active.node) \cap Pending ELSE {}
  IN  /\ MayReport(id)
      /\ state[active.node] # "completed"
      /\ state' = [n \in Prompts |-> IF n \in below \cup {active.node} THEN "error" ELSE state[n]]
      /\ queue' = Without(queue, below)
      /\ UNCHANGED <<parentRef, hasStatus, session, active>>

-----------------------------------------------------------------------------
(* A snapshot of the graph that from_snapshot accepts.                     *)
Restorable ==
  /\ Root \in nodes /\ parentRef[Root] = NoRef
  /\ \A n \in nodes \ {Root} : parentRef[n] # NoRef /\ Resolves(parentRef[n])
  /\ \A n \in Runnable : hasStatus[n]
  /\ Descendants(Root) = nodes

(* The process stops at any point and the tree is rebuilt from the graph   *)
(* it saved: what was waiting or running is interrupted for good.          *)
Restart ==
  /\ Restorable
  /\ state' = Failed(Prompts)
  /\ queue' = << >>
  /\ active' = NoClaim
  /\ UNCHANGED <<parentRef, hasStatus, session>>

Next ==
  \/ \E n \in Prompts, ref \in Refs, c \in Claims : AddAndEnqueue(n, ref, c)
  \/ \E n \in Prompts, c \in Claims : EnqueueOrClaim(n, c)
  \/ \E id, c \in Claims : RunnerLeft(id) /\ FinishAndClaimNext(id, c)
  \/ \E n \in Prompts : CancelNode(n)
  \/ CancelAll
  \/ \E ref \in Refs : RemoveMessageSubtree(ref)
  \/ \E id \in Claims, s \in Sessions : RecordSession(id, s)
  \/ \E id \in Claims, s \in Sessions \cup {NoSession} : CompleteClaim(id, s)
  \/ \E id \in Claims, propagate \in BOOLEAN : FailClaim(id, propagate)
  \/ Restart

Spec == Init /\ [][Next]_vars

-----------------------------------------------------------------------------
(* Safety.                                                                 *)

(* The queue holds exactly the pending prompts, each once: no transition   *)
(* strands a prompt outside the queue or leaves a settled one in it.       *)
QueueIsPending == Range(queue) = Pending /\ IsInjective(queue)

(* Work is conserved: prompts wait only while a claim is out, so the       *)
(* release of that claim is bound to pick them up.                         *)
WaitingHasClaim == queue # << >> => active # NoClaim

(* At most one node is in progress, and it is the one whose claim is out   *)
(* and not cancelled: a cancelled claim never leaves a node looking busy.  *)
InProgressIsActive ==
  \A n \in Prompts : state[n] = "in_progress" =>
    active # NoClaim /\ active.node = n /\ ~active.cancelled

(* The queue, the graph and the claim agree on who waits and who runs,     *)
(* whatever removals and failures cut out of the queue.                    *)
ScheduleAgrees == QueueIsPending /\ WaitingHasClaim /\ InProgressIsActive

(* A claim that was not cancelled still has its node, and that node is not *)
(* back in the queue: what its runner reports reaches the right prompt.    *)
ClaimKeepsNode ==
  active # NoClaim /\ ~active.cancelled =>
    state[active.node] \in {"in_progress", "completed", "error"}

(* Every graph the aggregate can be in is one a restart accepts, whatever  *)
(* subtrees and statuses were cleared before: no conversation is skipped.  *)
SnapshotRestorable == nodes # {} => Restorable

(* A reply runs only after every prompt above it has settled, so its       *)
(* resume session can no longer be about to change.                        *)
AncestorsSettled ==
  \A n \in Runnable : \A m \in nodes :
    state[n] = "in_progress" /\ m # n /\ n \in Descendants(m) => m \notin Runnable

(* No overtaking: a prompt is not started while one queued before it is    *)
(* still waiting.                                                          *)
NoOvertaking ==
  [][\A i, j \in 1..Len(queue) :
       i < j /\ state'[queue[j]] = "in_progress" => state'[queue[i]] # "pending"]_vars

(* A prompt that has settled never waits or runs again; only its removal   *)
(* from the graph makes it a prompt that can be admitted anew.             *)
SettledNeverRuns ==
  [][\A n \in Prompts : state[n] \in {"completed", "error"}
       => state'[n] \in {"completed", "error", "absent"}]_vars

(* A stopped prompt is never reported as completed: the answer of a runner *)
(* that lost the race with its cancellation is discarded.                  *)
CancelledNeverCompletes ==
  [][\A n \in Prompts : state[n] # "completed" /\ state'[n] = "completed"
       => active # NoClaim /\ active.node = n /\ ~active.cancelled /\ active' = active]_vars

(* A verdict on a prompt stands: neither the late report of a stopped      *)
(* runner nor a new delivery of the message overturns it.  (The runner of   *)
(* a claim that was not stopped may report an error and then completion.)  *)
VerdictsStand == SettledNeverRuns /\ CancelledNeverCompletes
=============================================================================
