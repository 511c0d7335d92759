------------------------- MODULE Delegation_proofs -------------------------
(***************************************************************************)
(* Proofs about Delegation, for any set of tasks and sessions, any number  *)
(* of open requests and any number of crashes.                             *)
(***************************************************************************)
EXTENDS Delegation, TLAPS

(* The core starts with every variable in its type. *)
LEMMA TypeInitial == Init => TypeOK
  BY DelegationConstants DEF Init, TypeOK, Sessions, Statuses, Ended, Terminal,
     Nothing, Edges, Endings

(* Every variable keeps its type through every step. *)
LEMMA TypeInductive == TypeOK /\ [Next]_vars => TypeOK'
<1> SUFFICES ASSUME TypeOK, [Next]_vars PROVE TypeOK'
  OBVIOUS
<1> USE DelegationConstants DEF TypeOK, Sessions, Statuses, Terminal, Ended, Nothing,
          Recording, Resulting, CoreFree
<1>1. ASSUME NEW t \in Tasks, CallDelegate(t) PROVE TypeOK'
  BY <1>1 DEF CallDelegate, graphVars, diskVars, cancelVars
<1>2. ASSUME NEW t \in Tasks, OpenFails(t) PROVE TypeOK'
  BY <1>2 DEF OpenFails, graphVars, diskVars, cancelVars
<1>3. ASSUME NEW t \in Tasks, SessionOpened(t) PROVE TypeOK'
  BY <1>3 DEF SessionOpened, graphVars, diskVars, cancelVars
<1>4. ASSUME NEW t \in Tasks, Configured(t) PROVE TypeOK'
  BY <1>4 DEF Configured, graphVars, diskVars, cancelVars
<1>5. ASSUME NEW t \in Tasks, ClosedAfterRefusal(t) PROVE TypeOK'
  BY <1>5 DEF ClosedAfterRefusal, graphVars, diskVars, cancelVars
<1>6. ASSUME NEW t \in Tasks, RecordTask(t) PROVE TypeOK'
  <2>1. PICK o \in Origins(t) : delegates' = delegates \cup {Delegate(o, t, Via(t))}
    BY <1>6 DEF RecordTask
  <2>2. Delegate(o, t, Via(t)) \in Edges
    BY <2>1 DEF Delegate, Via, Origins, Edges
  <2> QED
    BY <1>6, <2>1, <2>2 DEF RecordTask, SaveGraph, cancelVars
<1>7. ASSUME NEW t \in Tasks, StartTask(t) PROVE TypeOK'
  BY <1>7 DEF StartTask, graphVars, cancelVars
<1>8. ASSUME NEW t \in Tasks, AgentEndsTurn(t) PROVE TypeOK'
  BY <1>8 DEF AgentEndsTurn, graphVars, diskVars, cancelVars
<1>9. ASSUME NEW s \in Sessions, SessionEnds(s) PROVE TypeOK'
  BY <1>9 DEF SessionEnds, graphVars, diskVars, cancelVars
<1>10. ASSUME NEW t \in Tasks, TurnReturns(t) PROVE TypeOK'
  BY <1>10 DEF TurnReturns, SetStatus, EndStatus, graphVars, cancelVars
<1>11. ASSUME NEW t \in Tasks, RecordResult(t) PROVE TypeOK'
  BY <1>11 DEF RecordResult, SaveGraph, Result, EndStatus, Endings, cancelVars
<1>12. ASSUME NEW t \in Tasks, TurnFails(t) PROVE TypeOK'
  BY <1>12 DEF TurnFails, SetStatus, graphVars, cancelVars
<1>13. ASSUME NEW t \in Tasks, PermissionRequested(t) PROVE TypeOK'
  BY <1>13 DEF PermissionRequested, MarkAwaitingApproval, SetStatus, graphVars,
               cancelVars
<1>14. ASSUME NEW t \in Tasks, PermissionSettled(t) PROVE TypeOK'
  <2>1. pending' \in [Tasks -> 0 .. MaxPending]
    BY <1>14 DEF PermissionSettled
  <2>2. task' \in [Tasks -> Statuses] /\ diskTask' \in [Tasks -> Statuses]
    <3>1. MarkAwaitingApproval(t, FALSE)
      BY <1>14 DEF PermissionSettled
    <3>2. SetStatus(t, "running") \/ UNCHANGED <<task, diskTask>>
      BY <3>1 DEF MarkAwaitingApproval
    <3>3. CASE SetStatus(t, "running")
      <4>1. "running" \in Statuses /\ task \in [Tasks -> Statuses]
        OBVIOUS
      <4>2. task' = [task EXCEPT ![t] = "running"] /\ diskTask' = task'
        BY <3>3 DEF SetStatus
      <4> HIDE DEF Statuses, TypeOK
      <4> QED
        BY <4>1, <4>2
    <3> QED
      BY <3>2, <3>3
  <2> QED
    BY <1>14, <2>1, <2>2 DEF PermissionSettled, graphVars, cancelVars
<1>15. ASSUME NEW t \in Tasks, CancelTask(t) PROVE TypeOK'
  BY <1>15 DEF CancelTask, graphVars, diskVars
<1>16. ASSUME NEW t \in Tasks, CancelReturns(t) PROVE TypeOK'
  BY <1>16 DEF CancelReturns, SetStatus, graphVars
<1>17. CASE Crash
  <2>1. /\ up' \in BOOLEAN /\ saving' = Nothing /\ caller' = caller
        /\ diskTask' = diskTask /\ diskGraph' = diskGraph /\ notified' = notified
        /\ delegates' = {} /\ results' = {}
    BY <1>17 DEF Crash, diskVars
  <2>7. crashes < MaxCrashes /\ crashes' = crashes + 1
    BY <1>17 DEF Crash
  <2>8. crashes' \in 0 .. MaxCrashes
    BY <2>7
  <2>2. session' \in [Sessions -> {"none", "live", "gone"}]
    BY <1>17 DEF Crash
  <2>3. call' \in [Tasks -> Ended \cup {"idle", "opening", "configuring", "closing",
                                        "ready"}]
    BY <1>17 DEF Crash
  <2>4. task' \in [Tasks -> Statuses] /\ pending' \in [Tasks -> 0 .. MaxPending]
    BY <1>17 DEF Crash
  <2>5. turn' \in [Tasks -> {"none", "running", "ended", "cancelled", "rejected",
                             "over"}]
    BY <1>17 DEF Crash
  <2>6. cancelling' \in [Tasks -> {"none", "notifying", "ok", "refused", "failed"}]
    BY <1>17 DEF Crash
  <2> QED
    BY <2>1, <2>2, <2>3, <2>4, <2>5, <2>6, <2>8
<1>18. CASE Restart
  BY <1>18 DEF Restart, Recovered, diskVars, cancelVars
<1>19. ASSUME NEW s \in Sessions, Resume(s) PROVE TypeOK'
  BY <1>19 DEF Resume, graphVars, diskVars, cancelVars
<1>20. CASE UNCHANGED vars
  BY <1>20 DEF vars, graphVars, diskVars, cancelVars
<1> QED
  BY <1>1, <1>2, <1>3, <1>4, <1>5, <1>6, <1>7, <1>8, <1>9, <1>10, <1>11, <1>12,
     <1>13, <1>14, <1>15, <1>16, <1>17, <1>18, <1>19, <1>20 DEF Next, BrokerStep

(* Type correctness of the broker. *)
THEOREM TypeCorrect == Spec => []TypeOK
  BY TypeInitial, TypeInductive, PTL DEF Spec
-----------------------------------------------------------------------------
(***************************************************************************)
(* The one-level breaker.  A call that is under way has read the graph     *)
(* before an await and writes to it after one.  What keeps its answer      *)
(* right is that the caller's own delegation was over by then, so that no  *)
(* edge can arrive at it any more; and the answer survives a crash because *)
(* the edge is on disk before the task is handed out.                      *)
(***************************************************************************)

BlockedIn(es, s) == \E e \in es : e.to = s /\ e.via = "agent"

Blocked(s) == BlockedIn(diskGraph.delegates, s)

InProgress == {"opening", "configuring", "closing", "ready"}

(* Memory and disk agree on the edges while the core runs. *)
GraphSaved == up => delegates = diskGraph.delegates

(* Between the two writes of a task its call is still open. *)
RecordingIsReady == \A t \in Tasks : saving = Recording(t) => call[t] = "ready"

(* A task handed out to an agent's account is blocked, also on disk. *)
HandedOutIsBlocked ==
  \A t \in Tasks :
    (call[t] = "returned" \/ saving = Recording(t)) /\ caller[t] # Human => Blocked(t)

(* The caller of a delegation is not blocked and will not be. *)
CallerIsFree ==
  \A t \in Tasks :
    call[t] \in InProgress \cup {"returned"} /\ caller[t] # Human =>
      /\ caller[t] \in Tasks => call[caller[t]] \in {"returned", "failed"}
      /\ ~Blocked(caller[t])

OneLevelInv ==
  TypeOK /\ GraphSaved /\ RecordingIsReady /\ HandedOutIsBlocked /\ CallerIsFree

(* A blocked session that was a caller would contradict CallerIsFree. *)
LEMMA OneLevelInvImpliesOneLevel == OneLevelInv => OneLevel
  BY DEF OneLevelInv, HandedOutIsBlocked, CallerIsFree, OneLevel, DelegatedByAgent,
         TypeOK

(* Steps that touch neither the graph nor a call keep the invariant. *)
LEMMA OneLevelFrame ==
  ASSUME OneLevelInv, TypeOK',
         up' = up, saving' # saving => \A t \in Tasks : saving' # Recording(t),
         call' = call, caller' = caller,
         delegates' = delegates, diskGraph'.delegates = diskGraph.delegates
  PROVE  OneLevelInv'
<1>1. GraphSaved'
  BY DEF OneLevelInv, GraphSaved
<1>2. RecordingIsReady'
  BY DEF OneLevelInv, RecordingIsReady
<1>3. HandedOutIsBlocked'
  BY DEF OneLevelInv, HandedOutIsBlocked, Blocked
<1>4. CallerIsFree'
  BY DEF OneLevelInv, CallerIsFree, Blocked
<1> QED
  BY <1>1, <1>2, <1>3, <1>4 DEF OneLevelInv

(* Steps of a call before its record: it goes on, or it fails. *)
LEMMA OneLevelCallGoesOn ==
  ASSUME OneLevelInv, TypeOK', NEW t \in Tasks, saving = Nothing,
         call[t] \in InProgress,
         NEW next \in InProgress \cup {"failed"}, call' = [call EXCEPT ![t] = next],
         UNCHANGED <<up, saving, caller, delegates, diskGraph>>
  PROVE  OneLevelInv'
<1>1. GraphSaved'
  BY DEF OneLevelInv, GraphSaved
<1>2. RecordingIsReady'
  BY DEF RecordingIsReady, Recording, Nothing
<1>3. HandedOutIsBlocked'
  BY DEF OneLevelInv, TypeOK, HandedOutIsBlocked, Blocked, InProgress, Recording, Nothing
<1>4. CallerIsFree'
  BY DEF OneLevelInv, TypeOK, CallerIsFree, Blocked, InProgress
<1> QED
  BY <1>1, <1>2, <1>3, <1>4 DEF OneLevelInv

(* Every step keeps the invariant. *)
LEMMA OneLevelInductive == OneLevelInv /\ [Next]_vars => OneLevelInv'
<1> SUFFICES ASSUME OneLevelInv, [Next]_vars PROVE OneLevelInv'
  OBVIOUS
<1>type. TypeOK /\ TypeOK'
  BY TypeInductive DEF OneLevelInv
<1>tags. \A t \in Tasks, u \in Tasks :
           /\ Recording(t) # Nothing /\ Resulting(t) # Nothing
           /\ Recording(t) # Resulting(u)
           /\ t # u => Recording(t) # Recording(u)
  BY DEF Recording, Resulting, Nothing
<1>1. ASSUME NEW t \in Tasks, CallDelegate(t) PROVE OneLevelInv'
  <2>1. PICK c \in {Human} \cup (Sessions \ {t}) :
          /\ MayCall(c)
          /\ caller' = [caller EXCEPT ![t] = c]
          /\ call' = [call EXCEPT ![t] =
                        IF c # Human /\ IsDelegationChild(c) THEN "refused" ELSE "opening"]
    BY <1>1 DEF CallDelegate
  <2>2. /\ up /\ saving = Nothing /\ call[t] = "idle"
        /\ UNCHANGED <<up, saving, delegates, diskGraph>>
    BY <1>1 DEF CallDelegate, CoreFree, graphVars, diskVars
  <2>3. GraphSaved'
    BY <2>2 DEF OneLevelInv, GraphSaved
  <2>4. RecordingIsReady'
    BY <2>2, <1>tags DEF RecordingIsReady
  <2>5. HandedOutIsBlocked'
    BY <2>1, <2>2, <1>type, <1>tags DEF OneLevelInv, TypeOK, HandedOutIsBlocked, Blocked
  <2>6. CallerIsFree'
    <3> SUFFICES ASSUME NEW u \in Tasks,
                        call'[u] \in InProgress \cup {"returned"}, caller'[u] # Human
                 PROVE  /\ caller'[u] \in Tasks =>
                             call'[caller'[u]] \in {"returned", "failed"}
                        /\ ~BlockedIn(diskGraph'.delegates, caller'[u])
      BY DEF CallerIsFree, Blocked
    <3>1. CASE u = t
      <4>1. caller'[u] = c /\ c # Human /\ ~IsDelegationChild(c)
        BY <2>1, <3>1, <1>type DEF TypeOK, InProgress
      <4>2. ~BlockedIn(diskGraph'.delegates, c)
        BY <4>1, <2>2 DEF IsDelegationChild, BlockedIn, OneLevelInv, GraphSaved
      <4>3. c # t /\ (c \in Tasks => call[c] \in {"returned", "failed"})
        BY <2>1, <4>1, DelegationConstants DEF MayCall
      <4> QED
        BY <2>1, <4>1, <4>2, <4>3, <1>type DEF TypeOK
    <3>2. CASE u # t
      <4>1. caller'[u] = caller[u] /\ call'[u] = call[u]
        BY <2>1, <3>2, <1>type DEF TypeOK
      <4>2. /\ caller[u] \in Tasks => call[caller[u]] \in {"returned", "failed"}
            /\ ~Blocked(caller[u])
        BY <4>1 DEF OneLevelInv, CallerIsFree
      <4> QED
        BY <2>1, <2>2, <4>1, <4>2, <1>type DEF TypeOK, Blocked
    <3> QED
      BY <3>1, <3>2
  <2> QED
    BY <2>3, <2>4, <2>5, <2>6, <1>type DEF OneLevelInv
<1>2. ASSUME NEW t \in Tasks, OpenFails(t) PROVE OneLevelInv'
  BY <1>2, <1>type, OneLevelCallGoesOn
     DEF OpenFails, CoreFree, InProgress, graphVars, diskVars
<1>3. ASSUME NEW t \in Tasks, SessionOpened(t) PROVE OneLevelInv'
  BY <1>3, <1>type, OneLevelCallGoesOn
     DEF SessionOpened, CoreFree, InProgress, graphVars, diskVars
<1>4. ASSUME NEW t \in Tasks, Configured(t) PROVE OneLevelInv'
  BY <1>4, <1>type, OneLevelCallGoesOn
     DEF Configured, CoreFree, InProgress, graphVars, diskVars
<1>5. ASSUME NEW t \in Tasks, ClosedAfterRefusal(t) PROVE OneLevelInv'
  BY <1>5, <1>type, OneLevelCallGoesOn
     DEF ClosedAfterRefusal, CoreFree, InProgress, graphVars, diskVars
<1>6. ASSUME NEW t \in Tasks, RecordTask(t) PROVE OneLevelInv'
  <2>1. PICK o \in Origins(t) : delegates' = delegates \cup {Delegate(o, t, Via(t))}
    BY <1>6 DEF RecordTask
  <2>2. /\ up /\ saving = Nothing /\ saving' = Recording(t) /\ call[t] = "ready"
        /\ diskGraph'.delegates = delegates' /\ UNCHANGED <<up, call, caller>>
    BY <1>6 DEF RecordTask, CoreFree, SaveGraph
  <2>3. diskGraph'.delegates = diskGraph.delegates \cup {Delegate(o, t, Via(t))}
    BY <2>1, <2>2 DEF OneLevelInv, GraphSaved
  <2>e. Delegate(o, t, Via(t)).to = t /\ Delegate(o, t, Via(t)).via = Via(t)
    BY DEF Delegate
  <2>4. /\ caller[t] # Human => BlockedIn(diskGraph'.delegates, t)
        /\ \A s : s # t => (BlockedIn(diskGraph'.delegates, s) <=> Blocked(s))
        /\ \A s : Blocked(s) => BlockedIn(diskGraph'.delegates, s)
    BY <2>3, <2>e DEF Blocked, BlockedIn, Via
  <2>5. GraphSaved'
    BY <2>2 DEF GraphSaved
  <2>6. RecordingIsReady'
    BY <2>2, <1>tags DEF RecordingIsReady
  <2>7. HandedOutIsBlocked'
    BY <2>2, <2>4, <1>tags DEF OneLevelInv, HandedOutIsBlocked, Blocked
  <2>8. CallerIsFree'
    BY <2>2, <2>4 DEF OneLevelInv, CallerIsFree, InProgress, Blocked
  <2> QED
    BY <2>5, <2>6, <2>7, <2>8, <1>type DEF OneLevelInv
<1>7. ASSUME NEW t \in Tasks, StartTask(t) PROVE OneLevelInv'
  <2>1. /\ up /\ saving = Recording(t) /\ saving' = Nothing
        /\ call' = [call EXCEPT ![t] = "returned"]
        /\ UNCHANGED <<up, caller, delegates, diskGraph>>
    BY <1>7 DEF StartTask, graphVars
  <2>2. call[t] = "ready"
    BY <2>1 DEF OneLevelInv, RecordingIsReady
  <2>3. GraphSaved'
    BY <2>1 DEF OneLevelInv, GraphSaved
  <2>4. RecordingIsReady'
    BY <2>1, <1>tags DEF RecordingIsReady
  <2>5. HandedOutIsBlocked'
    BY <2>1, <1>type, <1>tags DEF OneLevelInv, TypeOK, HandedOutIsBlocked, Blocked
  <2>6. CallerIsFree'
    BY <2>1, <2>2, <1>type DEF OneLevelInv, TypeOK, CallerIsFree, Blocked, InProgress
  <2> QED
    BY <2>3, <2>4, <2>5, <2>6, <1>type DEF OneLevelInv
<1>8. ASSUME NEW t \in Tasks, AgentEndsTurn(t) PROVE OneLevelInv'
  BY <1>8, <1>type, OneLevelFrame DEF AgentEndsTurn, graphVars, diskVars
<1>9. ASSUME NEW s \in Sessions, SessionEnds(s) PROVE OneLevelInv'
  BY <1>9, <1>type, OneLevelFrame DEF SessionEnds, graphVars, diskVars
<1>10. ASSUME NEW t \in Tasks, TurnReturns(t) PROVE OneLevelInv'
  BY <1>10, <1>type, <1>tags, OneLevelFrame DEF TurnReturns, graphVars
<1>11. ASSUME NEW t \in Tasks, RecordResult(t) PROVE OneLevelInv'
  <2>1. /\ up /\ saving' = Nothing /\ delegates' = delegates
        /\ diskGraph'.delegates = delegates' /\ UNCHANGED <<up, call, caller>>
    BY <1>11 DEF RecordResult, SaveGraph
  <2> QED
    BY <2>1, <1>type, <1>tags, OneLevelFrame DEF OneLevelInv, GraphSaved
<1>12. ASSUME NEW t \in Tasks, TurnFails(t) PROVE OneLevelInv'
  BY <1>12, <1>type, OneLevelFrame DEF TurnFails, graphVars
<1>13. ASSUME NEW t \in Tasks, PermissionRequested(t) PROVE OneLevelInv'
  BY <1>13, <1>type, OneLevelFrame DEF PermissionRequested, graphVars
<1>14. ASSUME NEW t \in Tasks, PermissionSettled(t) PROVE OneLevelInv'
  BY <1>14, <1>type, OneLevelFrame DEF PermissionSettled, graphVars
<1>15. ASSUME NEW t \in Tasks, CancelTask(t) PROVE OneLevelInv'
  BY <1>15, <1>type, OneLevelFrame DEF CancelTask, graphVars, diskVars
<1>16. ASSUME NEW t \in Tasks, CancelReturns(t) PROVE OneLevelInv'
  BY <1>16, <1>type, OneLevelFrame DEF CancelReturns, graphVars
<1>17. CASE Crash
  <2>1. /\ ~up' /\ saving' = Nothing /\ UNCHANGED <<caller, diskGraph>>
        /\ \A u \in Tasks : call'[u] = IF call[u] \in Ended \cup {"idle"} THEN call[u]
                                       ELSE "failed"
    BY <1>17 DEF Crash, diskVars
  <2>2. GraphSaved' /\ RecordingIsReady'
    BY <2>1, <1>tags DEF GraphSaved, RecordingIsReady
  <2>3. HandedOutIsBlocked'
    BY <2>1, <1>tags DEF OneLevelInv, HandedOutIsBlocked, Blocked
  <2>4. CallerIsFree'
    BY <2>1 DEF OneLevelInv, CallerIsFree, Blocked, InProgress, Ended
  <2> QED
    BY <2>2, <2>3, <2>4, <1>type DEF OneLevelInv
<1>18. CASE Restart
  <2>1. /\ delegates' = diskGraph.delegates /\ UNCHANGED <<saving, call, caller, diskGraph>>
    BY <1>18 DEF Restart, diskVars
  <2>2. GraphSaved'
    BY <2>1 DEF GraphSaved
  <2>3. RecordingIsReady' /\ HandedOutIsBlocked' /\ CallerIsFree'
    BY <2>1 DEF OneLevelInv, RecordingIsReady, HandedOutIsBlocked, CallerIsFree, Blocked
  <2> QED
    BY <2>2, <2>3, <1>type DEF OneLevelInv
<1>19. ASSUME NEW s \in Sessions, Resume(s) PROVE OneLevelInv'
  BY <1>19, <1>type, OneLevelFrame DEF Resume, graphVars, diskVars
<1>20. CASE UNCHANGED vars
  BY <1>20, <1>type, OneLevelFrame DEF vars, graphVars, diskVars
<1> QED
  BY <1>1, <1>2, <1>3, <1>4, <1>5, <1>6, <1>7, <1>8, <1>9, <1>10, <1>11, <1>12,
     <1>13, <1>14, <1>15, <1>16, <1>17, <1>18, <1>19, <1>20 DEF Next, BrokerStep

(* No session an agent delegated to ever gets a delegation through, across *)
(* any interleaving of calls, crashes, restarts and resumed sessions.      *)
THEOREM OneLevelHolds == Spec => []OneLevel
<1>1. Init => OneLevelInv
  BY TypeInitial DEF Init, OneLevelInv, GraphSaved, RecordingIsReady, HandedOutIsBlocked,
     CallerIsFree, InProgress, Recording, Nothing
<1> QED
  BY <1>1, OneLevelInductive, OneLevelInvImpliesOneLevel, PTL DEF Spec

-----------------------------------------------------------------------------
(***************************************************************************)
(* The two files, the statuses of tasks, and what is final.  Four writers  *)
(* set the status of a task: the call that hands it out, its turn,         *)
(* task/cancel and its permission requests.  StatusInv says what each of   *)
(* them may rely on when its await is over.                                *)
(***************************************************************************)

HasEdge(t) == \E e \in diskGraph.delegates : e.to = t

UnderWay == {"running", "ended", "cancelled", "rejected"}

(* Memory and disk agree on the graph while the core runs, and a core that *)
(* has died is writing nothing.                                            *)
GraphOnDisk ==
  /\ up => delegates = diskGraph.delegates /\ results = diskGraph.results
  /\ ~up => saving = Nothing

(* Anything that is known of t. *)
Known(t) ==
  \/ task[t] # "none" \/ diskTask[t] # "none" \/ turn[t] # "none"
  \/ saving = Recording(t) \/ cancelling[t] = "notifying"

(* Whatever is known of a task, its edge was on disk before; and only the  *)
(* call that hands a task out makes its record, once.                      *)
RecordedOnce(t) ==
  /\ Known(t) => HasEdge(t)
  /\ saving = Recording(t) => call[t] = "ready" /\ task[t] = "running"
  /\ task[t] # "none" /\ saving # Recording(t) => call[t] = "returned"
  /\ diskTask[t] # "none" \/ turn[t] # "none" \/ cancelling[t] = "notifying" =>
       call[t] = "returned"

(* What has ended on disk has ended so in memory; a turn that is under way *)
(* has not ended its task yet, unless somebody cancels it.                 *)
EndedForGood(t) ==
  /\ up /\ diskTask[t] \in Terminal => task[t] = diskTask[t]
  /\ saving = Resulting(t) =>
       /\ task[t] \in Terminal /\ diskTask[t] \in Terminal
       /\ turn[t] \in UnderWay
  /\ cancelling[t] = "notifying" => t \in notified
  /\ ~up => turn[t] \notin UnderWay
  /\ up /\ t \notin notified /\ turn[t] \in UnderWay /\ saving # Resulting(t) =>
       task[t] \notin Terminal

StatusInv ==
  /\ TypeOK /\ GraphOnDisk /\ ResultImpliesEnded /\ LiveStatusIsTrue
  /\ \A t \in Tasks : RecordedOnce(t) /\ EndedForGood(t)

(* The invariant contains what is to be shown of every state. *)
LEMMA StatusInvImplies == StatusInv => FilesAgree /\ LiveStatusIsTrue
  BY DEF StatusInv, FilesAgree, TaskHasEdge, RecordedOnce, Known, HasEdge
-----------------------------------------------------------------------------
(* Steps of a call before its record, and steps of sessions, leave every   *)
(* status, turn and file alone.                                            *)
LEMMA StatusFrame ==
  ASSUME StatusInv, TypeOK',
         UNCHANGED <<up, saving, task, delegates, results, diskTask, diskGraph, turn,
                     cancelling, notified, pending>>,
         \A u \in Tasks : \/ call'[u] = call[u]
                          \/ call[u] # "returned" /\ saving = Nothing
  PROVE  StatusInv'
<1>1. GraphOnDisk' /\ ResultImpliesEnded' /\ LiveStatusIsTrue'
  BY DEF StatusInv, GraphOnDisk, ResultImpliesEnded, LiveStatusIsTrue,
         LiveStatusHasTurn, AwaitingHasRequest
<1>2. ASSUME NEW u \in Tasks PROVE RecordedOnce(u)'
  BY DEF StatusInv, RecordedOnce, Known, HasEdge, Recording, Nothing
<1>3. ASSUME NEW u \in Tasks PROVE EndedForGood(u)'
  BY DEF StatusInv, EndedForGood
<1> QED
  BY <1>1, <1>2, <1>3 DEF StatusInv

(* A step that changes the status of t alone, in memory and on disk, to    *)
(* one that is as live as it was or terminal.                              *)
LEMMA StatusSet ==
  ASSUME StatusInv, TypeOK', NEW t \in Tasks, NEW status, SetStatus(t, status),
         up, up', saving = Nothing, saving' \in {Nothing, Resulting(t)},
         HasEdge(t), call[t] = "returned",
         UNCHANGED <<call, delegates, results, diskGraph>>,
         \A u \in Tasks \ {t} :
           /\ turn'[u] = turn[u] /\ cancelling'[u] = cancelling[u]
           /\ pending'[u] = pending[u] /\ (u \in notified' <=> u \in notified),
         turn[t] # "none" => turn'[t] # "none",
         diskTask[t] \in Terminal => status \in Terminal,
         status # "none",
         EndedForGood(t)',
         status \in {"running", "awaiting_approval"} => turn'[t] \in UnderWay,
         status = "awaiting_approval" => pending'[t] > 0
  PROVE  StatusInv'
<1> USE DEF SetStatus
<1>1. /\ \A u \in Tasks : task'[u] = IF u = t THEN status ELSE task[u]
      /\ \A u \in Tasks : diskTask'[u] = task'[u]
  BY DEF StatusInv, TypeOK
<1>2. GraphOnDisk'
  BY DEF StatusInv, GraphOnDisk
<1>3. ASSUME NEW u \in Tasks, diskTask[u] \in Terminal PROVE diskTask'[u] \in Terminal
  BY <1>1, <1>3 DEF StatusInv, EndedForGood
<1>4. ResultImpliesEnded'
  <2>1. \A r \in diskGraph.results : r.task \in Tasks
    BY DEF StatusInv, TypeOK, Endings
  <2> QED
    BY <1>3, <2>1 DEF StatusInv, ResultImpliesEnded
<1>5. LiveStatusIsTrue'
  BY <1>1 DEF StatusInv, LiveStatusIsTrue, LiveStatusHasTurn, AwaitingHasRequest,
              UnderWay, Recording, Nothing
<1>6. ASSUME NEW u \in Tasks PROVE RecordedOnce(u)'
  BY <1>1 DEF StatusInv, RecordedOnce, Known, HasEdge, Recording, Resulting, Nothing
<1>7. ASSUME NEW u \in Tasks, u # t PROVE EndedForGood(u)'
  BY <1>1, <1>7 DEF StatusInv, EndedForGood, Resulting, Nothing
<1> QED
  BY <1>2, <1>4, <1>5, <1>6, <1>7 DEF StatusInv

(* A turn that goes on or stops is still under way. *)
LEMMA StatusTurn ==
  ASSUME StatusInv, TypeOK',
         UNCHANGED <<up, saving, call, task, delegates, results, diskTask, diskGraph,
                     cancelling, notified, pending>>,
         \A u \in Tasks : /\ turn'[u] \in UnderWay <=> turn[u] \in UnderWay
                          /\ turn'[u] = "none" <=> turn[u] = "none"
  PROVE  StatusInv'
<1>1. GraphOnDisk' /\ ResultImpliesEnded'
  BY DEF StatusInv, GraphOnDisk, ResultImpliesEnded
<1>2. LiveStatusIsTrue'
  BY DEF StatusInv, TypeOK, LiveStatusIsTrue, LiveStatusHasTurn, AwaitingHasRequest, UnderWay
<1>3. ASSUME NEW u \in Tasks PROVE RecordedOnce(u)'
  BY DEF StatusInv, RecordedOnce, Known, HasEdge
<1>4. ASSUME NEW u \in Tasks PROVE EndedForGood(u)'
  BY DEF StatusInv, EndedForGood
<1> QED
  BY <1>1, <1>2, <1>3, <1>4 DEF StatusInv

(* The mark of a request: the status of a task whose turn is under way     *)
(* goes from one live status to the other.                                 *)
LEMMA MarkKeepsStatus ==
  ASSUME StatusInv, TypeOK', NEW t \in Tasks, NEW status \in {"running", "awaiting_approval"},
         SetStatus(t, status), task[t] \in {"running", "awaiting_approval"},
         turn[t] \in UnderWay, up, up', saving = Nothing, saving' = Nothing,
         UNCHANGED <<call, delegates, results, diskGraph, turn, cancelling, notified>>,
         \A u \in Tasks \ {t} : pending'[u] = pending[u],
         status = "awaiting_approval" => pending'[t] > 0
  PROVE  StatusInv'
<1>1. HasEdge(t) /\ call[t] = "returned"
  BY DEF StatusInv, RecordedOnce, Known, UnderWay
<1>2. task'[t] = status /\ diskTask'[t] = status /\ status \notin Terminal \cup {"none"}
  BY DEF StatusInv, TypeOK, SetStatus, Terminal
<1>3. diskTask[t] \notin Terminal
  BY DEF StatusInv, EndedForGood, Terminal
<1>4. EndedForGood(t)'
  BY <1>2 DEF StatusInv, EndedForGood, Resulting, Nothing
<1> QED
  BY <1>1, <1>2, <1>3, <1>4, StatusSet

(* A request that leaves the status alone. *)
LEMMA PendingGrows ==
  ASSUME StatusInv, TypeOK', NEW t \in Tasks,
         UNCHANGED <<up, saving, call, task, delegates, results, diskTask, diskGraph, turn,
                     cancelling, notified>>,
         \A u \in Tasks \ {t} : pending'[u] = pending[u],
         task[t] = "awaiting_approval" => pending'[t] > 0
  PROVE  StatusInv'
<1>1. GraphOnDisk' /\ ResultImpliesEnded' /\ LiveStatusIsTrue'
  BY DEF StatusInv, GraphOnDisk, ResultImpliesEnded, LiveStatusIsTrue,
         LiveStatusHasTurn, AwaitingHasRequest
<1>2. ASSUME NEW u \in Tasks PROVE RecordedOnce(u)'
  BY DEF StatusInv, RecordedOnce, Known, HasEdge
<1>3. ASSUME NEW u \in Tasks PROVE EndedForGood(u)'
  BY DEF StatusInv, EndedForGood
<1> QED
  BY <1>1, <1>2, <1>3 DEF StatusInv
-----------------------------------------------------------------------------
(* Every step keeps the invariant. *)
LEMMA StatusInductive == StatusInv /\ [Next]_vars => StatusInv'
<1> SUFFICES ASSUME StatusInv, [Next]_vars PROVE StatusInv'
  OBVIOUS
<1>type. TypeOK /\ TypeOK'
  BY TypeInductive DEF StatusInv
<1>tags. \A t \in Tasks, u \in Tasks :
           /\ Recording(t) # Nothing /\ Resulting(t) # Nothing
           /\ Recording(t) # Resulting(u)
           /\ t # u => Recording(t) # Recording(u) /\ Resulting(t) # Resulting(u)
  BY DEF Recording, Resulting, Nothing
<1>1. ASSUME NEW t \in Tasks, CallDelegate(t) PROVE StatusInv'
  BY <1>1, <1>type, StatusFrame DEF CallDelegate, CoreFree, TypeOK, graphVars, diskVars,
     cancelVars
<1>2. ASSUME NEW t \in Tasks, OpenFails(t) PROVE StatusInv'
  BY <1>2, <1>type, StatusFrame DEF OpenFails, CoreFree, TypeOK, graphVars, diskVars,
     cancelVars
<1>3. ASSUME NEW t \in Tasks, SessionOpened(t) PROVE StatusInv'
  BY <1>3, <1>type, StatusFrame DEF SessionOpened, CoreFree, TypeOK, graphVars, diskVars,
     cancelVars
<1>4. ASSUME NEW t \in Tasks, Configured(t) PROVE StatusInv'
  BY <1>4, <1>type, StatusFrame DEF Configured, CoreFree, TypeOK, graphVars, diskVars,
     cancelVars
<1>5. ASSUME NEW t \in Tasks, ClosedAfterRefusal(t) PROVE StatusInv'
  BY <1>5, <1>type, StatusFrame DEF ClosedAfterRefusal, CoreFree, TypeOK, graphVars,
     diskVars, cancelVars
<1>6. ASSUME NEW t \in Tasks, RecordTask(t) PROVE StatusInv'
  <2>1. PICK o \in Origins(t) : delegates' = delegates \cup {Delegate(o, t, Via(t))}
    BY <1>6 DEF RecordTask
  <2>2. /\ up /\ up' /\ saving = Nothing /\ saving' = Recording(t) /\ call[t] = "ready"
        /\ \A u \in Tasks : task'[u] = IF u = t THEN "running" ELSE task[u]
        /\ UNCHANGED <<call, diskTask, turn, cancelling, notified, pending, results>>
    BY <1>6, <1>type DEF RecordTask, CoreFree, TypeOK, cancelVars
  <2>3. diskGraph'.delegates = delegates' /\ diskGraph'.results = results'
    BY <1>6 DEF RecordTask, SaveGraph
  <2>4. /\ diskGraph'.delegates = diskGraph.delegates \cup {Delegate(o, t, Via(t))}
        /\ diskGraph'.results = diskGraph.results
    BY <2>1, <2>2, <2>3 DEF StatusInv, GraphOnDisk
  <2>5. HasEdge(t)' /\ \A u \in Tasks : HasEdge(u) => HasEdge(u)'
    <3>1. Delegate(o, t, Via(t)).to = t
      BY DEF Delegate
    <3> QED
      BY <2>4, <3>1 DEF HasEdge
  <2>6. task[t] = "none" /\ diskTask[t] = "none" /\ turn[t] = "none"
    BY <2>2, <1>tags DEF StatusInv, RecordedOnce
  <2>7. GraphOnDisk'
    BY <2>2, <2>3 DEF GraphOnDisk
  <2>8. ResultImpliesEnded'
    BY <2>2, <2>4 DEF StatusInv, ResultImpliesEnded
  <2>9. LiveStatusIsTrue'
    BY <2>2, <1>tags DEF StatusInv, LiveStatusIsTrue, LiveStatusHasTurn, AwaitingHasRequest
  <2>10. ASSUME NEW u \in Tasks PROVE RecordedOnce(u)'
    BY <2>2, <2>5, <2>6, <1>tags DEF StatusInv, RecordedOnce, Known
  <2>11. ASSUME NEW u \in Tasks PROVE EndedForGood(u)'
    BY <2>2, <2>6, <1>tags DEF StatusInv, EndedForGood, UnderWay, Terminal
  <2> QED
    BY <2>7, <2>8, <2>9, <2>10, <2>11, <1>type DEF StatusInv
<1>7. ASSUME NEW t \in Tasks, StartTask(t) PROVE StatusInv'
  <2>1. /\ up /\ up' /\ saving = Recording(t) /\ saving' = Nothing
        /\ diskTask' = task /\ call' = [call EXCEPT ![t] = "returned"]
        /\ turn'[t] \in {"running", "rejected"}
        /\ \A u \in Tasks \ {t} : turn'[u] = turn[u]
        /\ UNCHANGED <<task, delegates, results, diskGraph, cancelling, notified, pending>>
    BY <1>7, <1>type DEF StartTask, TypeOK, graphVars, cancelVars
  <2>2. call'[t] = "returned" /\ \A u \in Tasks \ {t} : call'[u] = call[u]
    BY <2>1, <1>type DEF TypeOK
  <2>3. HasEdge(t) /\ task[t] = "running"
    BY <2>1 DEF StatusInv, RecordedOnce, Known
  <2>4. ASSUME NEW u \in Tasks, diskTask[u] \in Terminal PROVE task[u] \in Terminal
    BY <2>1, <2>4 DEF StatusInv, EndedForGood
  <2>5. GraphOnDisk'
    BY <2>1 DEF StatusInv, GraphOnDisk
  <2>6. ResultImpliesEnded'
    BY <2>1, <2>4, <1>type DEF StatusInv, ResultImpliesEnded, TypeOK, Endings
  <2>7. LiveStatusIsTrue'
    BY <2>1, <1>tags DEF StatusInv, LiveStatusIsTrue, LiveStatusHasTurn, AwaitingHasRequest
  <2>8. ASSUME NEW u \in Tasks PROVE RecordedOnce(u)'
    BY <2>1, <2>2, <2>3, <1>tags DEF StatusInv, RecordedOnce, Known, HasEdge
  <2>9. ASSUME NEW u \in Tasks PROVE EndedForGood(u)'
    BY <2>1, <2>3, <1>tags DEF StatusInv, EndedForGood, Terminal
  <2> QED
    BY <2>5, <2>6, <2>7, <2>8, <2>9, <1>type DEF StatusInv
<1>8. ASSUME NEW t \in Tasks, AgentEndsTurn(t) PROVE StatusInv'
  <2>1. /\ turn[t] = "running" /\ turn'[t] \in UnderWay
        /\ \A u \in Tasks \ {t} : turn'[u] = turn[u]
        /\ UNCHANGED <<up, saving, call, task, delegates, results, diskTask, diskGraph,
                       cancelling, notified, pending>>
    BY <1>8, <1>type DEF AgentEndsTurn, TypeOK, UnderWay, graphVars, diskVars, cancelVars
  <2>2. \A u \in Tasks : turn'[u] \in UnderWay <=> turn[u] \in UnderWay
    BY <2>1 DEF UnderWay
  <2>3. \A u \in Tasks : turn'[u] = "none" <=> turn[u] = "none"
    BY <2>1 DEF UnderWay
  <2> QED
    BY <2>1, <2>2, <2>3, <1>type, StatusTurn
<1>9. ASSUME NEW s \in Sessions, SessionEnds(s) PROVE StatusInv'
  <2>1. /\ \A u \in Tasks : turn'[u] = IF u = s /\ turn[u] = "running" THEN "rejected"
                                       ELSE turn[u]
        /\ UNCHANGED <<up, saving, call, task, delegates, results, diskTask, diskGraph,
                       cancelling, notified, pending>>
    BY <1>9 DEF SessionEnds, graphVars, diskVars, cancelVars
  <2>2. \A u \in Tasks : /\ turn'[u] \in UnderWay <=> turn[u] \in UnderWay
                         /\ turn'[u] = "none" <=> turn[u] = "none"
    BY <2>1 DEF UnderWay
  <2> QED
    BY <2>1, <2>2, <1>type, StatusTurn
<1>10. ASSUME NEW t \in Tasks, TurnReturns(t) PROVE StatusInv'
  <2>1. /\ up /\ up' /\ saving = Nothing /\ saving' = Resulting(t)
        /\ turn[t] \in {"ended", "cancelled"} /\ SetStatus(t, EndStatus(t))
        /\ UNCHANGED <<call, delegates, results, diskGraph, turn, cancelling, notified,
                       pending>>
    BY <1>10 DEF TurnReturns, CoreFree, graphVars, cancelVars
  <2>2. EndStatus(t) \in Terminal /\ EndStatus(t) \notin {"none", "running", "awaiting_approval"}
    BY DEF EndStatus, Terminal
  <2>3. call[t] = "returned" /\ HasEdge(t)
    BY <2>1 DEF StatusInv, RecordedOnce, Known
  <2>4. task'[t] = EndStatus(t) /\ diskTask'[t] = EndStatus(t)
    BY <2>1, <1>type DEF SetStatus, TypeOK
  <2>5. EndedForGood(t)'
    BY <2>1, <2>2, <2>4 DEF StatusInv, EndedForGood, UnderWay
  <2> QED
    BY <2>1, <2>2, <2>3, <2>5, <1>type, StatusSet
<1>11. ASSUME NEW t \in Tasks, RecordResult(t) PROVE StatusInv'
  <2>1. /\ up /\ up' /\ saving = Resulting(t) /\ saving' = Nothing
        /\ results' = results \cup {Result(t, EndStatus(t))} /\ delegates' = delegates
        /\ turn'[t] = "over" /\ \A u \in Tasks \ {t} : turn'[u] = turn[u]
        /\ UNCHANGED <<call, task, diskTask, cancelling, notified, pending>>
    BY <1>11, <1>type DEF RecordResult, TypeOK, cancelVars
  <2>2. diskGraph'.delegates = delegates' /\ diskGraph'.results = results'
    BY <1>11 DEF RecordResult, SaveGraph
  <2>3. /\ diskGraph'.delegates = diskGraph.delegates
        /\ diskGraph'.results = diskGraph.results \cup {Result(t, EndStatus(t))}
    BY <2>1, <2>2 DEF StatusInv, GraphOnDisk
  <2>4. /\ task[t] \in Terminal /\ diskTask[t] \in Terminal /\ call[t] = "returned"
    BY <2>1 DEF StatusInv, EndedForGood, RecordedOnce, UnderWay
  <2>5. GraphOnDisk'
    BY <2>1, <2>2 DEF GraphOnDisk
  <2>6. ResultImpliesEnded'
    BY <2>1, <2>3, <2>4 DEF StatusInv, ResultImpliesEnded, Result
  <2>7. LiveStatusIsTrue'
    BY <2>1, <2>4, <1>tags DEF StatusInv, LiveStatusIsTrue, LiveStatusHasTurn,
       AwaitingHasRequest, Terminal
  <2>8. ASSUME NEW u \in Tasks PROVE RecordedOnce(u)'
    <3>1. HasEdge(u)' <=> HasEdge(u)
      BY <2>3 DEF HasEdge
    <3>2. saving # Recording(u) /\ saving' # Recording(u)
      BY <2>1, <1>tags
    <3>3. task[t] # "none"
      BY <2>4 DEF Terminal
    <3> QED
      BY <2>1, <2>4, <3>1, <3>2, <3>3 DEF StatusInv, RecordedOnce, Known
  <2>9. ASSUME NEW u \in Tasks PROVE EndedForGood(u)'
    BY <2>1, <1>tags DEF StatusInv, EndedForGood, UnderWay
  <2> QED
    BY <2>5, <2>6, <2>7, <2>8, <2>9, <1>type DEF StatusInv
<1>12. ASSUME NEW t \in Tasks, TurnFails(t) PROVE StatusInv'
  <2>1. /\ up /\ up' /\ saving = Nothing /\ saving' = Nothing
        /\ turn[t] = "rejected" /\ SetStatus(t, "failed")
        /\ turn'[t] = "over" /\ \A u \in Tasks \ {t} : turn'[u] = turn[u]
        /\ UNCHANGED <<call, delegates, results, diskGraph, cancelling, notified, pending>>
    BY <1>12, <1>type DEF TurnFails, CoreFree, TypeOK, graphVars, cancelVars
  <2>2. call[t] = "returned" /\ HasEdge(t)
    BY <2>1 DEF StatusInv, RecordedOnce, Known
  <2>3. task'[t] = "failed" /\ diskTask'[t] = "failed"
    BY <2>1, <1>type DEF SetStatus, TypeOK
  <2>4. EndedForGood(t)'
    BY <2>1, <2>3, <1>tags DEF StatusInv, EndedForGood, UnderWay
  <2> QED
    BY <2>1, <2>2, <2>4, <1>type, StatusSet DEF Terminal
<1>13. ASSUME NEW t \in Tasks, PermissionRequested(t) PROVE StatusInv'
  <2>1. /\ up /\ up' /\ saving = Nothing /\ saving' = Nothing /\ turn[t] = "running"
        /\ \A u \in Tasks \ {t} : pending'[u] = pending[u]
        /\ MarkAwaitingApproval(t, TRUE)
        /\ UNCHANGED <<up, saving, call, delegates, results, diskGraph, turn, cancelling,
                       notified>>
    BY <1>13, <1>type DEF PermissionRequested, CoreFree, TypeOK, graphVars, cancelVars
  <2>2. pending'[t] > 0
    <3>1. pending[t] \in Nat /\ pending'[t] = pending[t] + 1
      BY <1>13, <1>type, DelegationConstants DEF PermissionRequested, TypeOK
    <3> QED
      BY <3>1
  <2>3. CASE task[t] = "running"
    BY <2>1, <2>2, <2>3, <1>type, MarkKeepsStatus DEF MarkAwaitingApproval, UnderWay
  <2>4. CASE task[t] # "running"
    BY <2>1, <2>2, <2>4, <1>type, PendingGrows DEF MarkAwaitingApproval
  <2> QED
    BY <2>3, <2>4
<1>14. ASSUME NEW t \in Tasks, PermissionSettled(t) PROVE StatusInv'
  <2>1. /\ up /\ up' /\ saving = Nothing /\ saving' = Nothing
        /\ \A u \in Tasks \ {t} : pending'[u] = pending[u]
        /\ MarkAwaitingApproval(t, FALSE)
        /\ UNCHANGED <<up, saving, call, delegates, results, diskGraph, turn, cancelling,
                       notified>>
    BY <1>14, <1>type DEF PermissionSettled, CoreFree, TypeOK, graphVars, cancelVars
  <2>2. CASE task[t] = "awaiting_approval"
    <3>1. turn[t] \in UnderWay
      BY <2>1, <2>2, <1>tags, <1>type DEF StatusInv, LiveStatusIsTrue, LiveStatusHasTurn,
         TypeOK, UnderWay
    <3> QED
      BY <2>1, <2>2, <3>1, <1>type, MarkKeepsStatus DEF MarkAwaitingApproval
  <2>3. CASE task[t] # "awaiting_approval"
    BY <2>1, <2>3, <1>type, PendingGrows DEF MarkAwaitingApproval
  <2> QED
    BY <2>2, <2>3
<1>15. ASSUME NEW t \in Tasks, CancelTask(t) PROVE StatusInv'
  <2>1. /\ saving = Nothing /\ task[t] # "none"
        /\ \A u \in Tasks \ {t} : cancelling'[u] = cancelling[u]
        /\ notified' \in {notified, notified \cup {t}}
        /\ cancelling'[t] = "notifying" => t \in notified'
        /\ UNCHANGED <<up, saving, call, task, delegates, results, diskTask, diskGraph, turn,
                       pending>>
    BY <1>15, <1>type DEF CancelTask, CoreFree, TypeOK, graphVars, diskVars
  <2>2. GraphOnDisk' /\ ResultImpliesEnded' /\ LiveStatusIsTrue'
    BY <2>1 DEF StatusInv, GraphOnDisk, ResultImpliesEnded, LiveStatusIsTrue,
       LiveStatusHasTurn, AwaitingHasRequest
  <2>3. ASSUME NEW u \in Tasks PROVE RecordedOnce(u)'
    BY <2>1, <1>tags DEF StatusInv, RecordedOnce, Known, HasEdge
  <2>4. ASSUME NEW u \in Tasks PROVE EndedForGood(u)'
    BY <2>1 DEF StatusInv, EndedForGood
  <2> QED
    BY <2>2, <2>3, <2>4, <1>type DEF StatusInv
<1>16. ASSUME NEW t \in Tasks, CancelReturns(t) PROVE StatusInv'
  <2>1. /\ up /\ up' /\ saving = Nothing /\ saving' = Nothing
        /\ cancelling[t] = "notifying" /\ cancelling'[t] = "ok"
        /\ SetStatus(t, "cancelled")
        /\ \A u \in Tasks \ {t} : cancelling'[u] = cancelling[u]
        /\ UNCHANGED <<call, delegates, results, diskGraph, turn, notified, pending>>
    BY <1>16, <1>type DEF CancelReturns, CoreFree, TypeOK, graphVars
  <2>2. t \in notified /\ HasEdge(t) /\ call[t] = "returned"
    BY <2>1 DEF StatusInv, EndedForGood, RecordedOnce, Known
  <2>3. task'[t] = "cancelled" /\ diskTask'[t] = "cancelled"
    BY <2>1, <1>type DEF SetStatus, TypeOK
  <2>4. EndedForGood(t)'
    BY <2>1, <2>2, <2>3, <1>tags DEF StatusInv, EndedForGood
  <2> QED
    BY <2>1, <2>2, <2>4, <1>type, StatusSet DEF Terminal
<1>17. CASE Crash
  <2>1. /\ ~up' /\ saving' = Nothing /\ UNCHANGED <<diskTask, diskGraph, notified>>
        /\ \A u \in Tasks :
             /\ call'[u] = IF call[u] \in Ended \cup {"idle"} THEN call[u] ELSE "failed"
             /\ task'[u] = "none"
             /\ turn'[u] = IF turn[u] = "none" THEN "none" ELSE "over"
             /\ cancelling'[u] # "notifying"
    BY <1>17, <1>type DEF Crash, diskVars, TypeOK
  <2>2. GraphOnDisk' /\ ResultImpliesEnded' /\ LiveStatusIsTrue'
    BY <2>1 DEF StatusInv, GraphOnDisk, ResultImpliesEnded, LiveStatusIsTrue,
       LiveStatusHasTurn, AwaitingHasRequest
  <2>3. ASSUME NEW u \in Tasks PROVE RecordedOnce(u)'
    BY <2>1, <1>tags DEF StatusInv, RecordedOnce, Known, HasEdge, Ended
  <2>4. ASSUME NEW u \in Tasks PROVE EndedForGood(u)'
    BY <2>1, <1>tags DEF StatusInv, EndedForGood, UnderWay, Terminal
  <2> QED
    BY <2>2, <2>3, <2>4, <1>type DEF StatusInv
<1>18. CASE Restart
  <2>1. /\ ~up /\ up' /\ delegates' = diskGraph.delegates /\ results' = diskGraph.results
        /\ \A u \in Tasks : task'[u] = Recovered(diskTask[u])
        /\ UNCHANGED <<saving, call, diskTask, diskGraph, turn, cancelling, notified, pending>>
    BY <1>18 DEF Restart, diskVars, cancelVars
  <2>2. \A u \in Tasks :
          /\ task'[u] \notin {"running", "awaiting_approval"}
          /\ task'[u] = "none" <=> diskTask[u] = "none"
          /\ diskTask[u] \in Terminal => task'[u] = diskTask[u]
    BY <2>1 DEF Recovered, Terminal
  <2>3. GraphOnDisk' /\ ResultImpliesEnded' /\ LiveStatusIsTrue'
    BY <2>1, <2>2 DEF StatusInv, GraphOnDisk, ResultImpliesEnded, LiveStatusIsTrue,
       LiveStatusHasTurn, AwaitingHasRequest
  <2>4. ASSUME NEW u \in Tasks PROVE RecordedOnce(u)'
    <3>1. saving # Recording(u) /\ saving' # Recording(u)
      BY <2>1, <1>tags DEF StatusInv, GraphOnDisk
    <3> QED
      BY <2>1, <2>2, <3>1 DEF StatusInv, RecordedOnce, Known, HasEdge
  <2>5. ASSUME NEW u \in Tasks PROVE EndedForGood(u)'
    BY <2>1, <2>2 DEF StatusInv, EndedForGood
  <2> QED
    BY <2>3, <2>4, <2>5, <1>type DEF StatusInv
<1>19. ASSUME NEW s \in Sessions, Resume(s) PROVE StatusInv'
  BY <1>19, <1>type, StatusFrame DEF Resume, graphVars, diskVars, cancelVars
<1>20. CASE UNCHANGED vars
  BY <1>20, <1>type, StatusFrame DEF vars, graphVars, diskVars, cancelVars
<1> QED
  BY <1>1, <1>2, <1>3, <1>4, <1>5, <1>6, <1>7, <1>8, <1>9, <1>10, <1>11, <1>12,
     <1>13, <1>14, <1>15, <1>16, <1>17, <1>18, <1>19, <1>20 DEF Next, BrokerStep
(* The invariant holds before anything has been handed out. *)
LEMMA StatusInitial == Init => StatusInv
  BY TypeInitial DEF Init, StatusInv, GraphOnDisk, ResultImpliesEnded, LiveStatusIsTrue,
     LiveStatusHasTurn, AwaitingHasRequest, RecordedOnce, Known, EndedForGood, UnderWay,
     Terminal, Recording, Resulting, Nothing

(* The two files agree wherever a crash strikes. *)
THEOREM FilesAgreeHolds == Spec => []FilesAgree
  BY StatusInitial, StatusInductive, StatusInvImplies, PTL DEF Spec

(* A task that is said to run or to wait has a turn, or a request. *)
THEOREM LiveStatusHolds == Spec => []LiveStatusIsTrue
  BY StatusInitial, StatusInductive, StatusInvImplies, PTL DEF Spec
-----------------------------------------------------------------------------
(***************************************************************************)
(* Finality.  The step that would revive an ended task is one of a call    *)
(* that has its record to make, of a turn that is under way or of a cancel *)
(* that is being written: RecordedOnce and EndedForGood exclude the first  *)
(* two, and somebody cancels in the third.                                 *)
(***************************************************************************)

Kept(t) ==
  /\ up /\ up' /\ task[t] \in Terminal => task'[t] = task[t]
  /\ diskTask[t] \in Terminal => diskTask'[t] = diskTask[t]

(* A step that sets the status of a task keeps those of all others, and    *)
(* that of a task that has not ended may be set.                           *)
LEMMA SetStatusKeeps ==
  ASSUME StatusInv, NEW t \in Tasks, NEW status, SetStatus(t, status), up,
         task[t] \notin Terminal \/ t \in notified
  PROVE  \A u \in Tasks \ notified : Kept(u)
<1> SUFFICES ASSUME NEW u \in Tasks \ notified PROVE Kept(u)
  OBVIOUS
<1>1. diskTask[u] \in Terminal => task[u] = diskTask[u]
  BY DEF StatusInv, EndedForGood
<1>2. task[u] \in Terminal => task'[u] = task[u] /\ diskTask'[u] = task[u]
  BY DEF StatusInv, TypeOK, SetStatus
<1> QED
  BY <1>1, <1>2 DEF Kept

(* Every step keeps the end of a task that nobody has cancelled. *)
LEMMA EndsAreKept ==
  StatusInv /\ [Next]_vars => \A t \in Tasks \ notified : Kept(t)
<1> SUFFICES ASSUME StatusInv, [Next]_vars PROVE \A u \in Tasks \ notified : Kept(u)
  OBVIOUS
<1>type. TypeOK
  BY DEF StatusInv
<1>1. ASSUME NEW t \in Tasks, RecordTask(t) PROVE \A u \in Tasks \ notified : Kept(u)
  <2>1. /\ call[t] = "ready" /\ saving = Nothing /\ diskTask' = diskTask
        /\ \A u \in Tasks : u # t => task'[u] = task[u]
    BY <1>1, <1>type DEF RecordTask, CoreFree, TypeOK
  <2>2. task[t] = "none"
    BY <2>1 DEF StatusInv, RecordedOnce, Recording, Nothing
  <2> QED
    BY <2>1, <2>2 DEF Kept, Terminal
<1>2. ASSUME NEW t \in Tasks, StartTask(t) PROVE \A u \in Tasks \ notified : Kept(u)
  BY <1>2 DEF StartTask, StatusInv, EndedForGood, Kept
<1>3. ASSUME NEW t \in Tasks, TurnReturns(t) PROVE \A u \in Tasks \ notified : Kept(u)
  <2>1. SetStatus(t, EndStatus(t)) /\ up /\ saving = Nothing /\ turn[t] \in UnderWay
    BY <1>3 DEF TurnReturns, CoreFree, UnderWay
  <2>2. task[t] \notin Terminal \/ t \in notified
    BY <2>1 DEF StatusInv, EndedForGood, Resulting, Nothing
  <2> QED
    BY <2>1, <2>2, SetStatusKeeps
<1>4. ASSUME NEW t \in Tasks, TurnFails(t) PROVE \A u \in Tasks \ notified : Kept(u)
  <2>1. SetStatus(t, "failed") /\ up /\ saving = Nothing /\ turn[t] \in UnderWay
    BY <1>4 DEF TurnFails, CoreFree, UnderWay
  <2>2. task[t] \notin Terminal \/ t \in notified
    BY <2>1 DEF StatusInv, EndedForGood, Resulting, Nothing
  <2> QED
    BY <2>1, <2>2, SetStatusKeeps
<1>5. ASSUME NEW t \in Tasks, NEW awaiting \in BOOLEAN, up, MarkAwaitingApproval(t, awaiting)
      PROVE \A u \in Tasks \ notified : Kept(u)
  <2>1. CASE UNCHANGED <<task, diskTask>>
    BY <2>1 DEF Kept
  <2>2. CASE /\ task[t] \in {"running", "awaiting_approval"}
             /\ SetStatus(t, IF awaiting THEN "awaiting_approval" ELSE "running")
    BY <1>5, <2>2, SetStatusKeeps DEF Terminal
  <2> QED
    BY <1>5, <2>1, <2>2 DEF MarkAwaitingApproval
<1>6. ASSUME NEW t \in Tasks, CancelReturns(t) PROVE \A u \in Tasks \ notified : Kept(u)
  BY <1>6, SetStatusKeeps DEF CancelReturns, CoreFree, StatusInv, EndedForGood
<1>7. CASE Crash
  BY <1>7 DEF Crash, diskVars, Kept
<1>8. CASE Restart
  BY <1>8 DEF Restart, diskVars, Kept
<1>9. CASE UNCHANGED <<task, diskTask>>
  BY <1>9 DEF Kept
<1>10. ASSUME NEW t \in Tasks,
              \/ CallDelegate(t) \/ OpenFails(t) \/ SessionOpened(t) \/ Configured(t)
              \/ ClosedAfterRefusal(t) \/ AgentEndsTurn(t) \/ RecordResult(t)
              \/ CancelTask(t)
       PROVE  UNCHANGED <<task, diskTask>>
  BY <1>10 DEF CallDelegate, OpenFails, SessionOpened, Configured, ClosedAfterRefusal,
     AgentEndsTurn, RecordResult, CancelTask, diskVars
<1>11. ASSUME NEW s \in Sessions, SessionEnds(s) \/ Resume(s)
       PROVE  UNCHANGED <<task, diskTask>>
  BY <1>11 DEF SessionEnds, Resume, diskVars
<1>12. ASSUME NEW t \in Tasks, PermissionRequested(t) \/ PermissionSettled(t)
       PROVE  \A u \in Tasks \ notified : Kept(u)
  BY <1>5, <1>12 DEF PermissionRequested, PermissionSettled, CoreFree
<1>13. CASE UNCHANGED vars
  BY <1>13, <1>9 DEF vars, diskVars
<1> QED
  BY <1>1, <1>2, <1>3, <1>4, <1>6, <1>7, <1>8, <1>9, <1>10, <1>11, <1>12, <1>13
     DEF Next, BrokerStep

(* A task nobody cancels stays as it ended, in memory and on disk. *)
THEOREM EndIsFinalHolds == Spec => EndIsFinal
<1>1. StatusInv /\ [Next]_vars =>
        [\A t \in Tasks \ notified :
           /\ up /\ up' /\ task[t] \in Terminal => task'[t] = task[t]
           /\ diskTask[t] \in Terminal => diskTask'[t] = diskTask[t]]_vars
  BY EndsAreKept DEF Kept
<1> QED
  BY <1>1, StatusInitial, StatusInductive, PTL DEF Spec, EndIsFinal
=============================================================================
