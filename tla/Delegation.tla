----------------------------- MODULE Delegation -----------------------------
(***************************************************************************)
(* The delegation broker: task/delegate, the turn that runs a task, its    *)
(* approvals and its cancellation, the session graph with the one-level    *)
(* breaker, and the two files (session-graph.json, tasks.json) from which  *)
(* a restarted core continues.                                             *)
(*                                                                         *)
(* One task opens one session, so a task and its session have one name.    *)
(* Every await of the code is a boundary between actions.  Where the code  *)
(* writes one file and then the other without an await, `saving' keeps the *)
(* two writes together: only a crash of the process comes between them.    *)
(***************************************************************************)
EXTENDS Naturals, FiniteSets

CONSTANTS
  Tasks,        \* tasks, each also the name of the session it opens
  Roots,        \* agent sessions nobody delegated
  Human,        \* the pseudo node of the person at the shell
  MaxPending,   \* permission requests one session has open at a time
  MaxCrashes    \* crashes of the core (bound for model checking)

ASSUME DelegationConstants ==
  /\ Tasks \cap Roots = {} /\ Human \notin Tasks \cup Roots
  /\ MaxPending \in Nat /\ MaxCrashes \in Nat

Sessions == Tasks \cup Roots

VARIABLES
  up,          \* is the core running?
  crashes,     \* crashes so far
  saving,      \* what is between its two writes: Nothing, or what and whose
  session,     \* session[s]: "none", "live" or "gone"
  call,        \* call[t]: how far the delegate call for t has come
  caller,      \* caller[t]: callerRef of that call, Human when undefined
  task,        \* task[t]: TaskRecord.status, "none" without a record
  delegates,   \* delegate edges of the graph
  results,     \* result edges of the graph
  diskTask,    \* the statuses in tasks.json
  diskGraph,   \* the edges in session-graph.json
  turn,        \* turn[t]: the task's own turn
  cancelling,  \* cancelling[t]: where task/cancel stands
  notified,    \* sessions the agent was told to cancel
  pending      \* pending[t]: permission requests open in t's session

graphVars == <<delegates, results>>
diskVars == <<diskTask, diskGraph>>
cancelVars == <<cancelling, notified>>
vars == <<up, crashes, saving, session, call, caller, task, graphVars, diskVars,
          turn, cancelVars, pending>>

Nothing == <<>>
Recording(t) == <<"task", t>>
Resulting(t) == <<"result", t>>

Terminal == {"done", "failed", "cancelled"}
Statuses == Terminal \cup {"none", "running", "awaiting_approval"}

(* delegate() is over, one way or the other. *)
Ended == {"returned", "refused", "failed"}

Delegate(from, to, via) == [from |-> from, to |-> to, via |-> via]
Result(t, status) == [task |-> t, status |-> status]

(* Mutant: the breaker looks at the wrong end of the edge. *)
IsDelegationParent(s) == \E e \in delegates : e.from = s /\ e.via = "agent"

(* The breaker: only an edge an agent made counts. *)
IsDelegationChild(s) == \E e \in delegates : e.to = s /\ e.via = "agent"

CoreFree == up /\ saving = Nothing

(* update(): the new status in memory and in tasks.json. *)
SetStatus(t, status) ==
  /\ task' = [task EXCEPT ![t] = status]
  /\ diskTask' = task'

(* Mutant: an edge does not make the graph dirty, nothing is written. *)
SkipSaveGraph == UNCHANGED diskGraph

(* graph.save() *)
SaveGraph == diskGraph' = [delegates |-> delegates', results |-> results']

(* Mutant: the mark ignores the status the task is in. *)
MarkWhateverStatus(t, awaiting) ==
  SetStatus(t, IF awaiting THEN "awaiting_approval" ELSE "running")

(* markAwaitingApproval: only between running and awaiting_approval. *)
MarkAwaitingApproval(t, awaiting) ==
  LET from == IF awaiting THEN "running" ELSE "awaiting_approval"
      to   == IF awaiting THEN "awaiting_approval" ELSE "running"
  IN  IF task[t] = from THEN SetStatus(t, to) ELSE UNCHANGED <<task, diskTask>>

(* Mutant: load() takes every status as it finds it. *)
RecoveredAsIs(status) == status

(* load(): a task that had not ended is failed. *)
Recovered(status) ==
  IF status \in {"running", "awaiting_approval"} THEN "failed" ELSE status
-----------------------------------------------------------------------------
(***************************************************************************)
(* task/delegate                                                           *)
(***************************************************************************)

(* An agent calls from a session of its own, and only once that session    *)
(* has been prompted, hence after the call that opened it has ended.       *)
MayCall(c) ==
  \/ c = Human
  \/ /\ c \in Sessions
     /\ session[c] = "live"
     /\ c \in Tasks => call[c] \in {"returned", "failed"}

(* assertMayDelegate, then newSession is awaited. *)
CallDelegate(t) ==
  /\ CoreFree
  /\ call[t] = "idle"
  /\ \E c \in {Human} \cup (Sessions \ {t}) :
       /\ MayCall(c)
       /\ caller' = [caller EXCEPT ![t] = c]
       /\ call' = [call EXCEPT ![t] =
                     IF c # Human /\ IsDelegationChild(c) THEN "refused" ELSE "opening"]
  /\ UNCHANGED <<up, crashes, saving, session, task, graphVars, diskVars, turn,
                 cancelVars, pending>>

(* newSession has failed: its process is stopped, the error goes on. *)
OpenFails(t) ==
  /\ CoreFree
  /\ call[t] = "opening"
  /\ call' = [call EXCEPT ![t] = "failed"]
  /\ UNCHANGED <<up, crashes, saving, session, caller, task, graphVars, diskVars,
                 turn, cancelVars, pending>>

(* The session is there.  A model or effort the agent does not know closes *)
(* it again; one it knows is set first.                                    *)
SessionOpened(t) ==
  /\ CoreFree
  /\ call[t] = "opening"
  /\ session' = [session EXCEPT ![t] = "live"]
  /\ \E next \in {"configuring", "closing", "ready"} :
       call' = [call EXCEPT ![t] = next]
  /\ UNCHANGED <<up, crashes, saving, caller, task, graphVars, diskVars, turn,
                 cancelVars, pending>>

(* set_config_option has been answered.  An error leaves delegate() at     *)
(* once; nothing closes the session.                                       *)
Configured(t) ==
  /\ CoreFree
  /\ call[t] = "configuring"
  /\ \E next \in (IF session[t] = "live" THEN {"closing", "ready", "failed"}
                  ELSE {"failed"}) :
       call' = [call EXCEPT ![t] = next]
  /\ UNCHANGED <<up, crashes, saving, session, caller, task, graphVars, diskVars,
                 turn, cancelVars, pending>>

ClosedAfterRefusal(t) ==
  /\ CoreFree
  /\ call[t] = "closing"
  /\ session' = [session EXCEPT ![t] = "gone"]
  /\ call' = [call EXCEPT ![t] = "failed"]
  /\ UNCHANGED <<up, crashes, saving, caller, task, graphVars, diskVars, turn,
                 cancelVars, pending>>

(* The node the edge starts from: the calling session, the session the     *)
(* shell had open, or the human.                                           *)
Origins(t) == IF caller[t] = Human THEN {Human} \cup Roots ELSE {caller[t]}

Via(t) == IF caller[t] = Human THEN "human" ELSE "agent"

(* The record and the delegate edge; the graph is written first. *)
RecordTask(t) ==
  /\ CoreFree
  /\ call[t] = "ready"
  /\ task' = [task EXCEPT ![t] = "running"]
  /\ \E o \in Origins(t) :
       delegates' = delegates \cup {Delegate(o, t, Via(t))}
  /\ UNCHANGED results
  /\ SaveGraph
  /\ saving' = Recording(t)
  /\ UNCHANGED <<up, crashes, session, call, caller, diskTask, turn, cancelVars,
                 pending>>

(* Then the tasks; runTurn starts and delegate() returns. *)
StartTask(t) ==
  /\ up /\ saving = Recording(t)
  /\ saving' = Nothing
  /\ diskTask' = task
  /\ turn' = [turn EXCEPT ![t] = IF session[t] = "live" THEN "running" ELSE "rejected"]
  /\ call' = [call EXCEPT ![t] = "returned"]
  /\ UNCHANGED <<up, crashes, session, caller, task, graphVars, diskGraph,
                 cancelVars, pending>>
-----------------------------------------------------------------------------
(***************************************************************************)
(* The task's turn                                                         *)
(***************************************************************************)

(* The agent ends its turn.  It waits for what it has asked, unless it has *)
(* been told to cancel; a cancel that comes too late changes nothing.      *)
AgentEndsTurn(t) ==
  /\ CoreFree
  /\ turn[t] = "running"
  /\ pending[t] = 0 \/ t \in notified
  /\ \E stop \in {"ended"} \cup (IF t \in notified THEN {"cancelled"} ELSE {}) :
       turn' = [turn EXCEPT ![t] = stop]
  /\ UNCHANGED <<up, crashes, saving, session, call, caller, task, graphVars,
                 diskVars, cancelVars, pending>>

(* session/close, or the agent process exits: its requests are rejected. *)
SessionEnds(s) ==
  /\ CoreFree
  /\ session[s] = "live"
  /\ session' = [session EXCEPT ![s] = "gone"]
  /\ turn' = [t \in Tasks |->
                IF t = s /\ turn[t] = "running" THEN "rejected" ELSE turn[t]]
  /\ UNCHANGED <<up, crashes, saving, call, caller, task, graphVars, diskVars,
                 cancelVars, pending>>

(* The status that runTurn gives a task whose prompt was answered. *)
EndStatus(t) == IF turn[t] = "cancelled" THEN "cancelled" ELSE "done"

(* runTurn after a prompt that was answered: the status, then the edge. *)
TurnReturns(t) ==
  /\ CoreFree
  /\ turn[t] \in {"ended", "cancelled"}
  /\ SetStatus(t, EndStatus(t))
  /\ saving' = Resulting(t)
  /\ UNCHANGED <<up, crashes, session, call, caller, graphVars, diskGraph, turn,
                 cancelVars, pending>>

RecordResult(t) ==
  /\ up /\ saving = Resulting(t)
  /\ results' = results \cup {Result(t, EndStatus(t))}
  /\ UNCHANGED delegates
  /\ SaveGraph
  /\ saving' = Nothing
  /\ turn' = [turn EXCEPT ![t] = "over"]
  /\ UNCHANGED <<up, crashes, session, call, caller, task, diskTask, cancelVars,
                 pending>>

(* runTurn after a prompt that was rejected. *)
TurnFails(t) ==
  /\ CoreFree
  /\ turn[t] = "rejected"
  /\ SetStatus(t, "failed")
  /\ turn' = [turn EXCEPT ![t] = "over"]
  /\ UNCHANGED <<up, crashes, saving, session, call, caller, graphVars, diskGraph,
                 cancelVars, pending>>

(* A permission request of the session: markAwaitingApproval(ref, true). *)
PermissionRequested(t) ==
  /\ CoreFree
  /\ turn[t] = "running"
  /\ pending[t] < MaxPending
  /\ pending' = [pending EXCEPT ![t] = @ + 1]
  /\ MarkAwaitingApproval(t, TRUE)
  /\ UNCHANGED <<up, crashes, saving, session, call, caller, graphVars, diskGraph,
                 turn, cancelVars>>

(* It is settled, by a client or by its timer; the answer and the mark     *)
(* follow without a pause: markAwaitingApproval(ref, false).               *)
PermissionSettled(t) ==
  /\ CoreFree
  /\ pending[t] > 0
  /\ pending' = [pending EXCEPT ![t] = @ - 1]
  /\ MarkAwaitingApproval(t, FALSE)
  /\ UNCHANGED <<up, crashes, saving, session, call, caller, graphVars, diskGraph,
                 turn, cancelVars>>

(* task/cancel: a finished task says so, a session that is gone throws,    *)
(* else the notification is awaited.                                       *)
CancelTask(t) ==
  /\ CoreFree
  /\ task[t] # "none"
  /\ cancelling[t] = "none"
  /\ LET answer == IF task[t] \in Terminal THEN "refused"
                   ELSE IF session[t] = "live" THEN "notifying" ELSE "failed"
     IN  /\ cancelling' = [cancelling EXCEPT ![t] = answer]
         /\ notified' = IF answer = "notifying" THEN notified \cup {t} ELSE notified
  /\ UNCHANGED <<up, crashes, saving, session, call, caller, task, graphVars,
                 diskVars, turn, pending>>

(* The notification has been written: the status is set whatever it is by *)
(* now, and the caller gets ok.                                           *)
CancelReturns(t) ==
  /\ CoreFree
  /\ cancelling[t] = "notifying"
  /\ SetStatus(t, "cancelled")
  /\ cancelling' = [cancelling EXCEPT ![t] = "ok"]
  /\ UNCHANGED <<up, crashes, saving, session, call, caller, graphVars, diskGraph,
                 turn, notified, pending>>
-----------------------------------------------------------------------------
(***************************************************************************)
(* Crash, restart, resume                                                  *)
(***************************************************************************)

(* The process dies, also between two writes.  Memory, open calls and the *)
(* agent processes go with it.                                            *)
Crash ==
  /\ up
  /\ crashes < MaxCrashes
  /\ up' = FALSE
  /\ crashes' = crashes + 1
  /\ saving' = Nothing
  /\ session' = [s \in Sessions |-> IF session[s] = "live" THEN "gone" ELSE session[s]]
  /\ call' = [t \in Tasks |->
                IF call[t] \in Ended \cup {"idle"} THEN call[t] ELSE "failed"]
  /\ task' = [t \in Tasks |-> "none"]
  /\ delegates' = {} /\ results' = {}
  /\ turn' = [t \in Tasks |-> IF turn[t] = "none" THEN "none" ELSE "over"]
  /\ cancelling' = [t \in Tasks |->
                      IF cancelling[t] = "notifying" THEN "failed" ELSE cancelling[t]]
  /\ pending' = [t \in Tasks |-> 0]
  /\ UNCHANGED <<caller, diskVars, notified>>

(* The constructors load both files; what they change is in memory only,   *)
(* until the next save.                                                    *)
Restart ==
  /\ ~up
  /\ up' = TRUE
  /\ task' = [t \in Tasks |-> Recovered(diskTask[t])]
  /\ delegates' = diskGraph.delegates
  /\ results' = diskGraph.results
  /\ UNCHANGED <<crashes, saving, session, call, caller, diskVars, turn, cancelVars,
                 pending>>

(* session/resume of a session the agent still knows. *)
Resume(s) ==
  /\ CoreFree
  /\ session[s] = "gone"
  /\ session' = [session EXCEPT ![s] = "live"]
  /\ UNCHANGED <<up, crashes, saving, call, caller, task, graphVars, diskVars, turn,
                 cancelVars, pending>>
-----------------------------------------------------------------------------
Init ==
  /\ up = TRUE
  /\ crashes = 0
  /\ saving = Nothing
  /\ session = [s \in Sessions |-> IF s \in Roots THEN "live" ELSE "none"]
  /\ call = [t \in Tasks |-> "idle"]
  /\ caller = [t \in Tasks |-> Human]
  /\ task = [t \in Tasks |-> "none"]
  /\ delegates = {} /\ results = {}
  /\ diskTask = [t \in Tasks |-> "none"]
  /\ diskGraph = [delegates |-> {}, results |-> {}]
  /\ turn = [t \in Tasks |-> "none"]
  /\ cancelling = [t \in Tasks |-> "none"]
  /\ notified = {}
  /\ pending = [t \in Tasks |-> 0]

(* What the core and the approval timers do on their own. *)
BrokerStep(t) ==
  \/ OpenFails(t)
  \/ SessionOpened(t)
  \/ Configured(t)
  \/ ClosedAfterRefusal(t)
  \/ RecordTask(t)
  \/ StartTask(t)
  \/ TurnReturns(t)
  \/ RecordResult(t)
  \/ TurnFails(t)
  \/ CancelReturns(t)

Next ==
  \/ \E t \in Tasks : CallDelegate(t)
  \/ \E t \in Tasks : BrokerStep(t)
  \/ \E t \in Tasks : AgentEndsTurn(t)
  \/ \E s \in Sessions : SessionEnds(s)
  \/ \E t \in Tasks : PermissionRequested(t)
  \/ \E t \in Tasks : PermissionSettled(t)
  \/ \E t \in Tasks : CancelTask(t)
  \/ Crash
  \/ Restart
  \/ \E s \in Sessions : Resume(s)

Spec == Init /\ [][Next]_vars

(* Agents answer session/new and do not ask for permission for ever, every *)
(* request is settled by its timer at the latest, and a core that crashed  *)
(* is started again.                                                       *)
Fairness ==
  /\ \A t \in Tasks : WF_vars(BrokerStep(t))
  /\ \A t \in Tasks : SF_vars(AgentEndsTurn(t))
  /\ \A t \in Tasks : WF_vars(PermissionSettled(t))
  /\ WF_vars(Restart)

FairSpec == Spec /\ Fairness
-----------------------------------------------------------------------------
(***************************************************************************)
(* Properties                                                              *)
(***************************************************************************)

Edges == [from : Sessions \cup {Human}, to : Tasks, via : {"human", "agent"}]
Endings == [task : Tasks, status : {"done", "cancelled"}]

(* Every variable has its type. *)
TypeOK ==
  /\ up \in BOOLEAN /\ crashes \in 0 .. MaxCrashes
  /\ saving \in {Nothing} \cup {Recording(t) : t \in Tasks}
                           \cup {Resulting(t) : t \in Tasks}
  /\ session \in [Sessions -> {"none", "live", "gone"}]
  /\ call \in [Tasks -> Ended \cup {"idle", "opening", "configuring", "closing",
                                    "ready"}]
  /\ caller \in [Tasks -> Sessions \cup {Human}]
  /\ task \in [Tasks -> Statuses]
  /\ delegates \subseteq Edges /\ results \subseteq Endings
  /\ diskTask \in [Tasks -> Statuses]
  /\ diskGraph \in [delegates : SUBSET Edges, results : SUBSET Endings]
  /\ turn \in [Tasks -> {"none", "running", "ended", "cancelled", "rejected", "over"}]
  /\ cancelling \in [Tasks -> {"none", "notifying", "ok", "refused", "failed"}]
  /\ notified \subseteq Tasks
  /\ pending \in [Tasks -> 0 .. MaxPending]

(* t runs on behalf of an agent. *)
DelegatedByAgent(t) == call[t] = "returned" /\ caller[t] # Human

(* The one-level breaker: a session an agent has delegated to never gets a *)
(* delegation of its own through, whatever is awaited meanwhile and        *)
(* through crashes, restarts and resumed sessions.                         *)
OneLevel ==
  \A t, u \in Tasks :
    DelegatedByAgent(u) /\ caller[u] = t => ~DelegatedByAgent(t)

(* Wherever a crash strikes, the two files agree: every task on disk has   *)
(* its delegate edge, so that a restarted core never knows a task whose    *)
(* breaker is open; and a result edge belongs to a task that is recorded   *)
(* as ended.                                                               *)
TaskHasEdge ==
  \A t \in Tasks :
    diskTask[t] # "none" => \E e \in diskGraph.delegates : e.to = t

ResultImpliesEnded ==
  \A r \in diskGraph.results : diskTask[r.task] \in Terminal

FilesAgree == TaskHasEdge /\ ResultImpliesEnded

(* A status that claims work in progress is true: it has a turn behind it, *)
(* so that no task hangs in "running" after a rejected prompt, a cancel or *)
(* a restart, and a task that waits for an approval has an open request.   *)
LiveStatusHasTurn ==
  \A t \in Tasks :
    task[t] \in {"running", "awaiting_approval"} =>
      turn[t] \notin {"none", "over"} \/ saving = Recording(t)

AwaitingHasRequest ==
  \A t \in Tasks : task[t] = "awaiting_approval" => pending[t] > 0

LiveStatusIsTrue == LiveStatusHasTurn /\ AwaitingHasRequest

(* A task nobody cancels stays as it ended, in memory and on disk.  (With  *)
(* task/cancel the status is written twice, by the cancel and by the turn, *)
(* and the later one stands.)                                              *)
EndIsFinal ==
  [][\A t \in Tasks \ notified :
         /\ up /\ up' /\ task[t] \in Terminal => task'[t] = task[t]
         /\ diskTask[t] \in Terminal => diskTask'[t] = diskTask[t]]_vars

(* Every task that was handed out ends, across crashes of the core, exits  *)
(* of its agent and cancellations.                                         *)
TaskEnds ==
  \A t \in Tasks : call[t] = "returned" ~> task[t] \in Terminal
=============================================================================
