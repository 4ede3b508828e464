------------------------- MODULE MessagingWorkflow -------------------------
(***************************************************************************)
(* The messaging workflow (messaging/workflow.py, turn_intake.py,          *)
(* commands.py) over the trees of several chats (trees/manager.py,         *)
(* repository.py), the conversation in memory of the session store and the *)
(* log of the bot's own messages (session/store.py, managed_message_log).  *)
(*                                                                         *)
(* The asyncio loop interleaves the steps below; a step runs from one real *)
(* suspension of the code to the next.  The manager's lock is never held   *)
(* across a suspension and does not appear; the workflow's _state_lock is, *)
(* by the commands that drain cancelled tasks.  What a tree does with its  *)
(* queue and a task with its phases is the business of MessageTree and     *)
(* TreeQueueProcessor: here a tree is the set of its prompts, and which    *)
(* waiting prompt is claimed next is left open.                            *)
(***************************************************************************)
EXTENDS Integers

CONSTANTS
    Prompts,          \* inbound prompts, each delivered once
    Commands,         \* inbound /stop and /clear commands
    Chats,            \* message scopes
    Shapes,           \* what the users and the platform may send
    NoRef,            \* not a reply
    Free,             \* nobody holds _state_lock
    NoticeChat        \* where the startup notice goes

(* A reply is in the chat of the message it replies to.                     *)
ASSUME ShapesAssumption ==
  \A s \in Shapes :
    /\ s.chat \in [Prompts -> Chats]
    /\ \A p \in Prompts : s.to[p] # NoRef => s.chat[s.to[p][1]] = s.chat[p]
ASSUME FreeAssumption   == Free \notin Commands

VARIABLES
    shape,            \* the chat and reply target of every prompt, rigid
    stopGen,          \* _stop_generation
    clearGen,         \* _clear_generations
    lock,             \* who holds _state_lock
    turn,             \* each prompt's handler: where it is, its token
    home,             \* the root of the tree a prompt was admitted to
    state,            \* MessageNode.state; absent: not in the repository
    bare,             \* nodes whose status message was cleared
    runner,           \* the task of a node's claim
    stored,           \* the node's state in SessionStore._conversation
    log,              \* ManagedMessageLog, the bot's messages only
    shown,            \* the bot's messages the chats show
    refused,          \* messages the platform failed to delete
    op,               \* the command handlers
    notice            \* the publisher of the startup notice

gens   == <<stopGen, clearGen>>
trees  == <<home, state, bare, runner>>
chats  == <<log, shown, refused>>
wfVars == <<shape, gens, lock, turn, trees, stored, chats, op, notice>>

Refs == Prompts \X {"prompt", "status"}

Chat(p)     == shape.chat[p]
Status(p)   == <<"status", p>>
Feedback(c) == <<"feedback", c>>
Notice      == <<"notice", NoticeChat>>

(* The bot's messages in a chat; feedback goes where the command came from. *)
In(m, chat) ==
  \/ m[1] = "status"   /\ Chat(m[2]) = chat
  \/ m[1] = "feedback" /\ op[m[2]].chat = chat
  \/ m[1] = "notice"   /\ m[2] = chat

-----------------------------------------------------------------------------
(* Reading the repository.                                                 *)

Present  == {p \in Prompts : state[p] # "absent"}
Runnable == {p \in Prompts : state[p] \in {"pending", "in_progress"}}
Tree(r)  == {p \in Present : home[p] = r}
Roots    == {home[p] : p \in Present}
RootsIn(chat) == {r \in Roots : Chat(r) = chat}
Busy(r)  == \E p \in Prompts : home[p] = r /\ runner[p] # "none"

Resolves(ref) == ref[1] \in Present /\ (ref[2] = "status" => ref[1] \notin bare)

(* The prompts sent, at any depth, in reply to one exact message.          *)
Subtree(ref) ==
  LET closed == {S \in SUBSET Present :
        /\ ref[2] = "prompt" => ref[1] \in S
        /\ \A p \in Present : turn[p].parent # NoRef
             /\ (turn[p].parent = ref \/ turn[p].parent[1] \in S) => p \in S}
  IN  {p \in Present : \A S \in closed : p \in S}

(* Every prompt below one of S in the same tree.                           *)
Below(p) == Subtree(<<p, "prompt">>) \ {p}

(* _ui_target raises for an active node whose status was cleared while its *)
(* runner still winds down.                                                *)
Lacks(S) == \E p \in S : runner[p] # "none" /\ state[p] = "error" /\ p \in bare

(* What the workflow reports as cancelled of a set of nodes.               *)
Cancelled(S) == {p \in S : p \in Runnable \/ (runner[p] # "none" /\ state[p] = "error")}

-----------------------------------------------------------------------------
(* Writing the trees and the store.                                        *)

Fail(S)   == [p \in Prompts |-> IF p \in S \cap Runnable THEN "error" ELSE state[p]]
Detach(S) == [p \in Prompts |-> IF p \in S THEN "absent" ELSE state[p]]
Wind(S)   == [p \in Prompts |-> IF p \in S /\ runner[p] = "running" THEN "winding"
                                ELSE runner[p]]

(* save_tree_snapshot of the whole tree of r, as it is after the step.     *)
SaveTree(r) == stored' = [p \in Prompts |-> IF home'[p] = r THEN state'[p] ELSE stored[p]]

(* A new tree claims its root, a tree at rest the reply; a busy tree       *)
(* queues it.                                                              *)
Admitted(p, r) ==
  /\ home' = [home EXCEPT ![p] = r]
  /\ state' = [state EXCEPT ![p] = IF Busy(r) THEN "pending" ELSE "in_progress"]
  /\ runner' = [runner EXCEPT ![p] = IF Busy(r) THEN "none" ELSE "running"]
  /\ UNCHANGED bare

-----------------------------------------------------------------------------
(* A prompt and its handler.                                               *)

Goes(p, at) == turn' = [turn EXCEPT ![p].at = at]

(* The token is read and the reply target looked up before the status      *)
(* message is sent; an unknown target makes the prompt a root.             *)
Receive(p) ==
  /\ turn[p].at = "new" /\ lock = Free
  /\ turn' = [turn EXCEPT ![p] =
       [at |-> "sending", stop |-> stopGen, clear |-> clearGen[Chat(p)],
        parent |-> IF shape.to[p] # NoRef /\ Resolves(shape.to[p])
                     THEN shape.to[p] ELSE NoRef]]
  /\ UNCHANGED <<shape, gens, lock, trees, stored, chats, op, notice>>

(* The status message is out and recorded, without the lock; without a     *)
(* message id the handler gives up.                                        *)
StatusSent(p) ==
  /\ turn[p].at = "sending"
  /\ \/ /\ Goes(p, "asking")
        /\ log' = log \cup {Status(p)}
        /\ shown' = shown \cup {Status(p)}
     \/ /\ Goes(p, "done")
        /\ UNCHANGED <<log, shown>>
  /\ UNCHANGED <<shape, gens, lock, trees, stored, refused, op, notice>>

(* Mutant: the token is compared with the stop generation alone.           *)
CurrentStop(p) == turn[p].stop = stopGen

Current(p) == turn[p].stop = stopGen /\ turn[p].clear = clearGen[Chat(p)]

(* _admit_if_current: the token is compared, the prompt admitted and its   *)
(* tree saved in one step under the lock.  A resolved parent that is gone  *)
(* rejects its reply.                                                      *)
Admit(p) ==
  /\ turn[p].at = "asking" /\ lock = Free
  /\ LET parent   == turn[p].parent
         accepted == Current(p) /\ (parent # NoRef => Resolves(parent))
         root     == IF parent = NoRef THEN p ELSE home[parent[1]]
     IN  /\ Goes(p, IF accepted THEN "done" ELSE "rejected")
         /\ IF accepted THEN Admitted(p, root) /\ SaveTree(root)
                        ELSE UNCHANGED <<trees, stored>>
  /\ UNCHANGED <<shape, gens, lock, chats, op, notice>>

(* Mutant: the rejected status is forgotten and not deleted.               *)
DiscardForgets(p) ==
  /\ turn[p].at = "rejected"
  /\ Goes(p, "done")
  /\ log' = log \ {Status(p)}
  /\ UNCHANGED <<shape, gens, lock, trees, stored, shown, refused, op, notice>>

(* The delivery of a deletion, which the platform may refuse.              *)
DeleteMessages(S) ==
  \/ shown' = shown \ S /\ UNCHANGED refused
  \/ refused' = refused \cup (S \cap shown) /\ UNCHANGED shown

(* _discard_rejected_messages: the status leaves the log in either case.   *)
Discard(p) ==
  /\ turn[p].at = "rejected"
  /\ Goes(p, "done")
  /\ DeleteMessages({Status(p)})
  /\ log' = log \ {Status(p)}
  /\ UNCHANGED <<shape, gens, lock, trees, stored, op, notice>>

-----------------------------------------------------------------------------
(* A node's runner.  The manager looks its tree up by name, and a claim    *)
(* that was cancelled gets no snapshot to save.                            *)

Reports(p) == runner[p] = "running" /\ p \in Present

Report(p, s) ==
  /\ state' = s
  /\ UNCHANGED <<shape, gens, lock, turn, home, bare, runner, chats, op, notice>>
  /\ SaveTree(home[p])

RecordSession(p) == Reports(p) /\ state[p] = "in_progress" /\ Report(p, state)

Complete(p) ==
  /\ Reports(p) /\ state[p] \in {"in_progress", "error"}
  /\ Report(p, [state EXCEPT ![p] = "completed"])

FailClaim(p, propagate) ==
  LET below == IF propagate THEN {q \in Below(p) : state[q] = "pending"} ELSE {}
  IN  /\ Reports(p) /\ state[p] # "completed"
      /\ Report(p, [q \in Prompts |-> IF q \in below \cup {p} THEN "error" ELSE state[q]])

(* finish_and_claim_next: nothing is saved when the successor is claimed.  *)
Leave(p) ==
  LET waiting == {q \in Tree(home[p]) : state[q] = "pending"}
  IN  /\ runner[p] # "none"
      /\ runner[p] = "running" => state[p] # "in_progress"
      /\ \/ /\ waiting = {}
            /\ runner' = [runner EXCEPT ![p] = "none"]
            /\ UNCHANGED state
         \/ \E q \in waiting :
              /\ runner' = [runner EXCEPT ![p] = "none", ![q] = "running"]
              /\ state' = [state EXCEPT ![q] = "in_progress"]
      /\ UNCHANGED <<shape, gens, lock, turn, home, bare, stored, chats, op, notice>>

-----------------------------------------------------------------------------
(* The commands.  Each runs its owned operation to the end whatever        *)
(* happens to its caller.  The voices it joins first come before the lock, *)
(* and between the lock and the transition nothing that it reads changes.  *)

Begins(c) == op[c].at = "idle" /\ lock = Free

Command(kind, chat, ref) ==
  [kind |-> kind, chat |-> chat, ref |-> ref, gen |-> 0, at |-> "reporting",
   snap |-> << >>, ids |-> {}, failed |-> FALSE, say |-> FALSE]

(* The operation is over; the rest of the handler has only ids to delete.  *)
Ends(c, at, ids) ==
  op' = [op EXCEPT ![c] = [Command(@.kind, @.chat, IF at = "deleting" THEN @.ref ELSE NoRef)
                             EXCEPT !.gen = op[c].gen, !.at = at, !.ids = ids]]

(* _current_snapshot of the trees of a set of roots.                       *)
Snapshot(R, s) == [p \in {q \in Prompts : home[q] \in R} |-> s[p]]

(* The transition of a command is made.  It drains the cancelled tasks of  *)
(* S under the lock, or goes on with the snapshots of the trees of R.      *)
Transits(c, o, S, R) ==
  LET drains == \E p \in S : runner[p] # "none"
  IN  /\ lock' = c
      /\ op' = [op EXCEPT ![c] = [o EXCEPT !.at = IF drains THEN "draining" ELSE "handing",
                                           !.snap = IF drains THEN << >> ELSE Snapshot(R, state')]]

StopReply(c, ref) ==
  LET o == Command("stop_reply", Chat(ref[1]), ref)
      S == {ref[1]}
  IN  /\ Begins(c)
      /\ \/ /\ ~Resolves(ref)
            /\ op' = [op EXCEPT ![c] = o]
            /\ UNCHANGED <<lock, state, runner>>
         \/ /\ Resolves(ref) /\ Lacks(S)
            /\ op' = [op EXCEPT ![c] = [o EXCEPT !.at = "failed", !.ref = NoRef]]
            /\ UNCHANGED <<lock, state, runner>>
         \/ /\ Resolves(ref) /\ ~Lacks(S)
            /\ state' = Fail(S)
            /\ runner' = Wind(S)
            /\ Transits(c, [o EXCEPT !.say = (Cancelled(S) = {})], S, {home[ref[1]]})
      /\ UNCHANGED <<shape, gens, turn, home, bare, stored, chats, notice>>

(* A tree that raises ends the operation: the trees met before it are      *)
(* cancelled and not saved, the others go on.                              *)
StopAll(c, chat) ==
  LET o == [Command("stop_all", chat, NoRef) EXCEPT !.gen = stopGen + 1,
              !.say = (Cancelled(Present) = {} \/ \E p \in Cancelled(Present) : Chat(p) # chat)]
  IN  /\ Begins(c)
      /\ stopGen' = stopGen + 1
      /\ \/ /\ ~Lacks(Present)
            /\ state' = Fail(Present)
            /\ runner' = Wind(Present)
            /\ Transits(c, o, Present, Roots)
         \/ /\ Lacks(Present)
            /\ \E met \in SUBSET {r \in Roots : ~Lacks(Tree(r))} :
                 LET S == {p \in Present : home[p] \in met}
                 IN  state' = Fail(S) /\ runner' = Wind(S)
            /\ op' = [op EXCEPT ![c] = [o EXCEPT !.at = "failed", !.ids = {}, !.ref = NoRef, !.say = FALSE]]
            /\ UNCHANGED lock
      /\ UNCHANGED <<shape, clearGen, turn, home, bare, stored, chats, notice>>

(* Clearing a status keeps its prompt, without status; clearing a prompt   *)
(* removes it with everything below it.                                    *)
ClearReply(c, ref) ==
  LET removed  == Subtree(ref)
      owner    == IF ref[2] = "status" THEN {ref[1]} ELSE {}
      affected == removed \cup owner
      o == [Command("clear_reply", Chat(ref[1]), ref) EXCEPT
              !.ids = {Status(p) : p \in affected \ bare}]
  IN  /\ Begins(c)
      /\ \/ /\ ~Resolves(ref)
            /\ op' = [op EXCEPT ![c] = Command("clear_reply", Chat(ref[1]), ref)]
            /\ UNCHANGED <<lock, state, bare, runner>>
         \/ /\ Resolves(ref) /\ ~Lacks(affected)
            /\ state' = [p \in Prompts |-> IF p \in removed THEN "absent" ELSE Fail(affected)[p]]
            /\ bare' = (bare \cup owner) \ removed
            /\ runner' = Wind(affected)
            /\ Transits(c, o, affected, {home[ref[1]]})
         \/ /\ Resolves(ref) /\ Lacks(affected)
            /\ \E met \in SUBSET affected : state' = Fail(met)
            /\ op' = [op EXCEPT ![c] = [o EXCEPT !.at = "failed", !.ids = {}, !.ref = NoRef, !.say = FALSE]]
            /\ UNCHANGED <<lock, bare, runner>>
      /\ UNCHANGED <<shape, gens, turn, home, stored, chats, notice>>

(* The ids to delete are collected first, then the generation is advanced  *)
(* and the chat's trees are detached; a tree that raises leaves itself and *)
(* the trees not met yet in the repository.                                *)
ClearChat(c, chat) ==
  LET here == {p \in Present : Chat(p) = chat}
      o == [Command("clear_chat", chat, NoRef) EXCEPT !.gen = clearGen[chat] + 1,
              !.ids = {m \in log : In(m, chat)} \cup {Status(p) : p \in here \ bare}]
  IN  /\ Begins(c)
      /\ clearGen' = [clearGen EXCEPT ![chat] = @ + 1]
      /\ \/ /\ ~Lacks(here)
            /\ state' = Detach(here)
            /\ bare' = bare \ here
            /\ runner' = Wind(here)
            /\ Transits(c, o, here, {})
         \/ /\ Lacks(here)
            /\ \E met \in SUBSET {r \in RootsIn(chat) : ~Lacks(Tree(r))} :
                 LET S == {p \in Present : home[p] \in met}
                 IN  /\ state' = Detach(S)
                     /\ bare' = bare \ S
                     /\ runner' = Wind(S)
            /\ lock' = c
            /\ op' = [op EXCEPT ![c] = [o EXCEPT !.at = "handing", !.failed = TRUE]]
      /\ UNCHANGED <<shape, stopGen, turn, home, stored, chats, notice>>

(* Mutant: the lock is released before the snapshots are saved.            *)
DrainedUnlocks(c) ==
  LET o == op[c]
      R == CASE o.kind = "stop_all"   -> Roots
             [] o.kind = "clear_chat" -> {}
             [] OTHER                 -> {home[o.ref[1]]}
  IN  /\ o.at = "draining"
      /\ lock' = Free
      /\ op' = [op EXCEPT ![c].at = "handing", ![c].snap = Snapshot(R, state)]
      /\ UNCHANGED <<shape, gens, turn, trees, stored, chats, notice>>

(* _drain_cancelled_tasks returns when the tasks have ended or, after five *)
(* seconds, without them; then the snapshots are taken.                    *)
Drained(c) ==
  LET o == op[c]
      R == CASE o.kind = "stop_all"   -> Roots
             [] o.kind = "clear_chat" -> {}
             [] OTHER                 -> {home[o.ref[1]]}
  IN  /\ o.at = "draining"
      /\ op' = [op EXCEPT ![c].at = "handing", ![c].snap = Snapshot(R, state)]
      /\ UNCHANGED <<shape, gens, lock, turn, trees, stored, chats, notice>>

(* The operation resumes with its result, writes it to the store and       *)
(* releases the lock.  A stop then reports what no status covers, a clear  *)
(* deletes what it collected.  The clear of a chat writes the file at once *)
(* and fails when that fails, with its state in memory gone all the same.  *)
HandOver(c) ==
  LET o     == op[c]
      clear == o.kind \in {"clear_reply", "clear_chat"}
  IN  /\ o.at = "handing"
      /\ lock' = Free
      /\ stored' = [p \in Prompts |->
           IF p \in DOMAIN o.snap THEN o.snap[p]
           ELSE IF o.kind = "clear_chat" /\ Chat(p) = o.chat THEN "absent"
           ELSE stored[p]]
      /\ log' = IF o.kind = "clear_chat" THEN {m \in log : ~In(m, o.chat)} ELSE log
      /\ \/ /\ o.failed \/ o.kind = "clear_chat"
            /\ Ends(c, "failed", {})
         \/ ~o.failed /\ clear          /\ Ends(c, "deleting", o.ids)
         \/ ~o.failed /\ ~clear /\ o.say  /\ Ends(c, "reporting", {})
         \/ ~o.failed /\ ~clear /\ ~o.say /\ Ends(c, "done", {})
      /\ UNCHANGED <<shape, gens, turn, trees, shown, refused, notice>>

(* Only a reply-scoped clear forgets the ids: the chat's log is empty.     *)
DeleteCollected(c) ==
  /\ op[c].at = "deleting"
  /\ DeleteMessages(op[c].ids)
  /\ log' = IF op[c].kind = "clear_reply" THEN log \ op[c].ids ELSE log
  /\ Ends(c, "done", {})
  /\ UNCHANGED <<shape, gens, lock, turn, trees, stored, notice>>

(* The feedback is sent and recorded, without the lock; or it is not sent. *)
SendFeedback(c) ==
  /\ op[c].at = "reporting"
  /\ Ends(c, "done", {})
  /\ \/ /\ log' = log \cup {Feedback(c)}
        /\ shown' = shown \cup {Feedback(c)}
     \/ UNCHANGED <<log, shown>>
  /\ UNCHANGED <<shape, gens, lock, turn, trees, stored, refused, notice>>

-----------------------------------------------------------------------------
(* The startup notice.                                                     *)

NoticeStep ==
  UNCHANGED <<shape, gens, lock, turn, trees, stored, op>>

ReserveNotice ==
  /\ notice.at = "new" /\ lock = Free
  /\ notice' = [at |-> "sending", gen |-> clearGen[NoticeChat]]
  /\ UNCHANGED chats
  /\ NoticeStep

NoticeSent ==
  /\ notice.at = "sending"
  /\ \/ /\ notice' = [notice EXCEPT !.at = "finalizing"]
        /\ shown' = shown \cup {Notice}
     \/ /\ notice' = [notice EXCEPT !.at = "done"]
        /\ UNCHANGED shown
  /\ UNCHANGED <<log, refused>>
  /\ NoticeStep

(* The receipt is recorded, or the notice is given up: a clear came in     *)
(* between, or the publisher is being cancelled.                           *)
FinalizeNotice ==
  /\ notice.at = "finalizing" /\ lock = Free
  /\ \/ /\ notice.gen = clearGen[NoticeChat]
        /\ notice' = [notice EXCEPT !.at = "done"]
        /\ log' = log \cup {Notice}
     \/ /\ notice' = [notice EXCEPT !.at = "discarding"]
        /\ UNCHANGED log
  /\ UNCHANGED <<shown, refused>>
  /\ NoticeStep

(* A notice the platform would not delete goes into the log after all.     *)
DiscardNotice ==
  /\ notice.at = "discarding"
  /\ \/ /\ shown' = shown \ {Notice}
        /\ notice' = [notice EXCEPT !.at = "forgetting"]
     \/ /\ notice' = [notice EXCEPT !.at = "restoring"]
        /\ UNCHANGED shown
  /\ UNCHANGED <<log, refused>>
  /\ NoticeStep

SettleNotice ==
  /\ notice.at \in {"forgetting", "restoring"} /\ lock = Free
  /\ log' = IF notice.at = "restoring" THEN log \cup {Notice} ELSE log \ {Notice}
  /\ notice' = [notice EXCEPT !.at = "done"]
  /\ UNCHANGED <<shown, refused>>
  /\ NoticeStep

-----------------------------------------------------------------------------
Init ==
  /\ shape \in Shapes
  /\ stopGen = 0
  /\ clearGen = [k \in Chats |-> 0]
  /\ lock = Free
  /\ turn = [p \in Prompts |-> [at |-> IF p \in shape.sent THEN "new" ELSE "done",
                                stop |-> 0, clear |-> 0, parent |-> NoRef]]
  /\ home = [p \in Prompts |-> NoRef]
  /\ state = [p \in Prompts |-> "absent"]
  /\ bare = {}
  /\ runner = [p \in Prompts |-> "none"]
  /\ stored = [p \in Prompts |-> "absent"]
  /\ log = {} /\ shown = {} /\ refused = {}
  /\ op = [c \in Commands |-> [at |-> "idle"]]
  /\ notice = [at |-> IF shape.notice THEN "new" ELSE "done", gen |-> 0]

TurnStep(p) == StatusSent(p) \/ Admit(p) \/ Discard(p)

RunnerStep(p) ==
  RecordSession(p) \/ Complete(p) \/ (\E b \in BOOLEAN : FailClaim(p, b)) \/ Leave(p)

Take(c) ==
  \/ \E ref \in Refs : StopReply(c, ref) \/ ClearReply(c, ref)
  \/ \E k \in Chats : StopAll(c, k) \/ ClearChat(c, k)

OpStep(c) == Drained(c) \/ HandOver(c) \/ DeleteCollected(c) \/ SendFeedback(c)

PublishStep == ReserveNotice \/ NoticeSent \/ FinalizeNotice \/ DiscardNotice \/ SettleNotice

Next ==
  \/ \E p \in Prompts : Receive(p) \/ TurnStep(p) \/ RunnerStep(p)
  \/ \E c \in Commands : Take(c) \/ OpStep(c)
  \/ PublishStep

Spec == Init /\ [][Next]_wfVars

-----------------------------------------------------------------------------
(* The commands that were told, so far, that their boundary is drawn.      *)
Acknowledged(c, kind) ==
  op[c].at \in {"deleting", "reporting", "done"} /\ op[c].kind = kind

(* A clear whose trees raised: its caller is told that it failed.          *)
ClearFailed(chat) ==
  \E c \in Commands : op[c].at = "failed" /\ op[c].kind = "clear_chat" /\ op[c].chat = chat

(* A message some clear or some handler is still going to delete or track. *)
InHand(m) ==
  \/ \E c \in Commands :
       op[c].at \in {"draining", "handing", "deleting"} /\ m \in op[c].ids
  \/ m[1] = "status" /\ turn[m[2]].at \in {"asking", "rejected"}
  \/ m[1] = "notice" /\ notice.at \in {"finalizing", "discarding", "restoring"}

(* Whoever was told that a chat is cleared or that everything is stopped:  *)
(* no prompt received before that is in the chat's trees or in the store,  *)
(* or waits or runs, then or at any later time, however late its handler   *)
(* and its runner come.                                                    *)
OlderTurnsGone ==
  \A c \in Commands, p \in Prompts : turn[p].at # "new" =>
    /\ Acknowledged(c, "clear_chat") /\ Chat(p) = op[c].chat /\ turn[p].clear < op[c].gen
         => state[p] = "absent" /\ stored[p] = "absent"
    /\ Acknowledged(c, "stop_all") /\ turn[p].stop < op[c].gen => p \notin Runnable

(* Between the commands the store holds exactly the prompts the repository *)
(* holds, and no completion they do not have: a snapshot that is handed    *)
(* over late revives nothing.  A clear that failed is the exception.       *)
StoreAgrees ==
  lock = Free => \A p \in Prompts :
    /\ ClearFailed(Chat(p)) \/ (stored[p] = "absent" <=> state[p] = "absent")
    /\ stored[p] = "completed" => state[p] = "completed"

(* Every status message and notice a chat shows can still be cleared: it   *)
(* is in the log, or in a tree, or somebody is about to delete or track    *)
(* it, or the platform refused to delete it.                               *)
Accountable ==
  \A m \in shown : m[1] # "feedback" =>
    \/ m \in log \/ m \in refused \/ InHand(m)
    \/ m[1] = "status" /\ Resolves(<<m[2], "status">>)
    \/ \E k \in Chats : In(m, k) /\ ClearFailed(k)

=============================================================================
