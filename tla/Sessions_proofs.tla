-------------------------- MODULE Sessions_proofs --------------------------
(***************************************************************************)
(* Proofs about Sessions, for any calls, closes, companions and sessions.  *)
(***************************************************************************)
EXTENDS Sessions, TLAPS

\* The stop of the core finds every process: what lives is in the table, and
\* nothing lives once the stop has begun.
StopFindsAll ==
  /\ \A c \in Calls : proc[c] \in Alive => c \in all
  /\ kernel # "running" => \A c \in Calls : proc[c] \notin Alive

\* A process whose session is open, or is being closed, has a call that is
\* done: no rejection of it can leave that call as failed.
OpenedByDone ==
  /\ \A s \in Sessions : sessions[s] # None => step[sessions[s]] = "done"
  /\ \A x \in Closes :
       closing[x] # "idle" => target[x].proc \in Calls /\ step[target[x].proc] = "done"

\* Only a call to a control process waits for a mere answer.
AskersOpenNothing ==
  \A c \in Calls : step[c] = "asking" => kind[c] \notin Opening

TableInv ==
  /\ TypeOK /\ StopFindsAll /\ OpenedByDone /\ AskersOpenNothing
  /\ NoProcessIsLeft /\ NobodyWaitsForKnown
-----------------------------------------------------------------------------
\* What closing the connections of processes does to the calls: those that
\* are done stay done, and nobody starts to ask.
LEMMA RejectedCalls ==
  ASSUME TypeOK, NEW P \in SUBSET Calls
  PROVE  /\ Rejected(P) \in [Calls -> Waits \cup {"idle", "done", "failed"}]
         /\ \A c \in Calls :
              /\ step[c] = "done" => Rejected(P)[c] = "done"
              /\ Rejected(P)[c] = "asking" => step[c] = "asking"
              /\ Rejected(P)[c] = "failed" /\ step[c] # "failed" =>
                   step[c] = "asking" \/ (step[c] = "starting" /\ c \in P)
  BY DEF TypeOK, Rejected, Waits

\* What stopping processes does to them.
LEMMA StoppedProcesses ==
  ASSUME TypeOK, NEW P
  PROVE  /\ Stopped(P) \in [Calls -> Running \cup {"none", "dead"}]
         /\ \A c \in Calls :
              /\ Stopped(P)[c] \in Alive => proc[c] \in Alive /\ c \notin P
              /\ Stopped(P)[c] # proc[c] => proc[c] \in Alive /\ c \in P
  BY DEF TypeOK, Stopped, Running, Alive

\* The variables have their types in the beginning.
LEMMA TypeInitial == Init => TypeOK
  BY DEF Init, TypeOK, Running, Waits, Opening

\* Every variable keeps its type; that a close has a process to stop is part
\* of the invariant.
LEMMA TypeInductive == TableInv /\ [Next]_vars => TypeOK'
<1> SUFFICES ASSUME TableInv, [Next]_vars PROVE TypeOK'
  OBVIOUS
<1>type. TypeOK
  BY DEF TableInv
<1> USE DEF TypeOK
<1>1. ASSUME NEW c \in Calls, NewSession(c) \/ AskOnNewProcess(c)
      PROVE  TypeOK'
  BY <1>type, <1>1 DEF NewSession, AskOnNewProcess, Spawn, Tracked, closeVars, tokenVars,
     Opening, Running, Waits
<1>2. ASSUME NEW c \in Calls, NEW s \in Sessions, ResumeSession(c, s) \/ ResumeOpenSession(c, s)
      PROVE  TypeOK'
  BY <1>type, <1>2 DEF ResumeSession, ResumeOpenSession, Spawn, Tracked, closeVars,
     tokenVars, Opening, Running, Waits
<1>3. ASSUME NEW c \in Calls, NEW s \in Sessions, OpenAnswered(c, s)
      PROVE  TypeOK'
  BY <1>type, <1>3 DEF OpenAnswered, closeVars, tokenVars, Waits
<1>4. ASSUME NEW c \in Calls, RefuseWhileStopping(c) \/ FailedOpenReturns(c) \/ ControlAnswered(c)
      PROVE  TypeOK'
  BY <1>type, <1>4 DEF RefuseWhileStopping, FailedOpenReturns, ControlAnswered, closeVars,
     tokenVars, Waits
<1>5. ASSUME NEW c \in Calls, InitializeAnswered(c)
      PROVE  TypeOK'
  BY <1>type, <1>5 DEF InitializeAnswered, closeVars, tokenVars, Running, Waits
<1>6. ASSUME NEW c \in Calls, InitializeRefused(c) \/ SpawnFails(c)
      PROVE  TypeOK'
  BY <1>type, <1>6 DEF InitializeRefused, SpawnFails, closeVars, tokenVars, Running, Waits
<1>7. ASSUME NEW c \in Calls, OpenRefused(c)
      PROVE  TypeOK'
  BY <1>type, <1>7, StoppedProcesses DEF OpenRefused, closeVars, tokenVars, Waits
<1>8. ASSUME NEW c \in Calls, SessionOpened(c)
      PROVE  TypeOK'
  <2>1. Woken(c) \in [Calls \X Askers -> {"idle", "waiting", "answered", "refused"}]
    BY <1>type DEF Woken
  <2> QED
    BY <1>type, <1>8, <2>1 DEF SessionOpened, closeVars, Waits
<1>9. ASSUME NEW c \in Calls, NEW p \in Calls, AskOn(c, p)
      PROVE  TypeOK'
  BY <1>type, <1>9 DEF AskOn, closeVars, tokenVars, Waits
<1>10. ASSUME NEW p \in Calls, AgentExits(p)
       PROVE  TypeOK'
  BY <1>type, <1>10, RejectedCalls DEF AgentExits, closeVars, tokenVars
<1>11. ASSUME NEW x \in Closes, NEW s \in Sessions, CloseSession(x, s)
       PROVE  TypeOK'
  BY <1>type, <1>11 DEF CloseSession, callVars, tokenVars
<1>12. ASSUME NEW x \in Closes, CloseAnswered(x)
       PROVE  TypeOK'
  <2>1. {target[x].proc} \in SUBSET Calls
    BY <1>12 DEF CloseAnswered, TableInv, OpenedByDone
  <2> QED
    BY <1>type, <1>12, <2>1, RejectedCalls, StoppedProcesses DEF CloseAnswered, tokenVars
<1>13. ASSUME NEW x \in Closes, CloseEnds(x)
       PROVE  TypeOK'
  BY <1>type, <1>13 DEF CloseEnds, callVars, tokenVars
<1>14. CASE Shutdown
  BY <1>type, <1>14, RejectedCalls, StoppedProcesses DEF Shutdown, closeVars, tokenVars
<1>15. CASE ShutdownEnds
  BY <1>type, <1>15 DEF ShutdownEnds, callVars, closeVars, tokenVars
<1>16. ASSUME NEW c \in Calls, NEW a \in Askers, Identify(c, a) \/ IdentifyTimesOut(c, a)
       PROVE  TypeOK'
  BY <1>type, <1>16 DEF Identify, IdentifyTimesOut, callVars, closeVars
<1>17. CASE UNCHANGED vars
  BY <1>type, <1>17 DEF vars, callVars, closeVars, tokenVars
<1> QED
  BY <1>1, <1>2, <1>3, <1>4, <1>5, <1>6, <1>7, <1>8, <1>9, <1>10, <1>11, <1>12, <1>13,
     <1>14, <1>15, <1>16, <1>17 DEF Next, CallStep, CloseStep
-----------------------------------------------------------------------------
\* A step that keeps what is in the tables and the processes that live, and
\* fails no call of a process that is still there, keeps the invariant.
LEMMA CallGoesOn ==
  ASSUME TableInv, TypeOK', UNCHANGED <<kernel, all, sessions, closeVars, tokenVars>>,
         NEW c \in Calls, step[c] # "done",
         \A d \in Calls \ {c} : /\ proc'[d] = proc[d] /\ step'[d] = step[d]
                                /\ kind'[d] = kind[d],
         proc'[c] \in Alive => proc[c] \in Alive,
         proc[c] \in {"none", "dead"} => proc'[c] \in {"none", "dead"},
         kernel = "stopped" => proc'[c] # "stopping",
         step'[c] = "asking" => kind'[c] \notin Opening,
         step'[c] = "failed" /\ kind'[c] \in Opening =>
           proc'[c] \in {"none", "dead", "refused"} \/ kernel # "running"
  PROVE  TableInv'
<1>1. StopFindsAll'
  BY DEF TableInv, StopFindsAll
<1>2. OpenedByDone'
  BY DEF TableInv, TypeOK, OpenedByDone, closeVars
<1>3. AskersOpenNothing'
  BY DEF TableInv, AskersOpenNothing
<1>4. NoProcessIsLeft'
  BY DEF TableInv, TypeOK, Running, NoProcessIsLeft, StopLeavesNothing,
         FailedOpenLeavesNothing
<1>5. NobodyWaitsForKnown'
  BY DEF TableInv, NobodyWaitsForKnown, tokenVars
<1> QED
  BY <1>1, <1>2, <1>3, <1>4, <1>5 DEF TableInv

\* A process that is spawned is in the table at once, and only while nobody
\* has asked for the stop.
LEMMA SpawnKeeps ==
  ASSUME TableInv, TypeOK', NEW c \in Calls, step[c] = "idle", kernel = "running", Spawn(c),
         \A d \in Calls \ {c} : kind'[d] = kind[d]
  PROVE  TableInv'
<1>1. /\ \A d \in Calls \ {c} : proc'[d] = proc[d] /\ step'[d] = step[d]
      /\ step'[c] = "starting" /\ all' = all \cup {c}
      /\ UNCHANGED <<kernel, sessions, closing, target, known, ask>>
  BY DEF TableInv, TypeOK, Spawn, Tracked, closeVars, tokenVars
<1>2. StopFindsAll'
  BY <1>1 DEF TableInv, StopFindsAll
<1>3. OpenedByDone'
  BY <1>1 DEF TableInv, TypeOK, OpenedByDone
<1>4. AskersOpenNothing'
  BY <1>1 DEF TableInv, AskersOpenNothing
<1>5. NoProcessIsLeft'
  BY <1>1 DEF TableInv, NoProcessIsLeft, StopLeavesNothing, FailedOpenLeavesNothing
<1>6. NobodyWaitsForKnown'
  BY <1>1 DEF TableInv, NobodyWaitsForKnown
<1> QED
  BY <1>2, <1>3, <1>4, <1>5, <1>6 DEF TableInv

\* Closing the connections of processes keeps what is said of calls, if each
\* call that fails then has no process left to stop, or the core is stopping.
LEMMA RejectionKeeps ==
  ASSUME TableInv, TypeOK', NEW P \in SUBSET Calls, step' = Rejected(P),
         UNCHANGED <<kind, known, ask, closing, target>>, kernel = "running" \/ kernel' # "running",
         \A s \in Sessions : sessions'[s] \in {sessions[s], None},
         \A c \in Calls : proc'[c] \in Alive => proc[c] \in Alive /\ c \in all',
         kernel' # "running" => \A c \in Calls : proc'[c] \notin Alive,
         kernel' = "stopped" => \A c \in Calls : proc'[c] \in {"none", "dead"},
         \A c \in Calls : step[c] = "failed" /\ proc'[c] # proc[c] => proc'[c] = "dead",
         \A c \in P : step[c] = "starting" => proc'[c] = "dead" \/ kernel' # "running"
  PROVE  TableInv'
<1>1. StopFindsAll'
  BY DEF StopFindsAll
<1>2. OpenedByDone'
  BY RejectedCalls DEF TableInv, TypeOK, OpenedByDone
<1>3. AskersOpenNothing'
  BY RejectedCalls DEF TableInv, AskersOpenNothing
<1>4. NoProcessIsLeft'
  BY RejectedCalls DEF TableInv, AskersOpenNothing, NoProcessIsLeft, StopLeavesNothing,
     FailedOpenLeavesNothing
<1>5. NobodyWaitsForKnown'
  BY DEF TableInv, NobodyWaitsForKnown
<1> QED
  BY <1>1, <1>2, <1>3, <1>4, <1>5 DEF TableInv

\* Every step keeps the invariant.
LEMMA TableInductive == TableInv /\ [Next]_vars => TableInv'
<1> SUFFICES ASSUME TableInv, [Next]_vars PROVE TableInv'
  OBVIOUS
<1>type. TypeOK /\ TypeOK'
  BY TypeInductive DEF TableInv
<1>1. ASSUME NEW c \in Calls, NewSession(c) \/ AskOnNewProcess(c)
      PROVE  TableInv'
  BY <1>type, <1>1, SpawnKeeps DEF NewSession, AskOnNewProcess, TypeOK
<1>2. ASSUME NEW c \in Calls, NEW s \in Sessions, ResumeSession(c, s)
      PROVE  TableInv'
  BY <1>type, <1>2, SpawnKeeps DEF ResumeSession, TypeOK
<1>3. ASSUME NEW c \in Calls, NEW s \in Sessions, ResumeOpenSession(c, s) \/ OpenAnswered(c, s)
      PROVE  TableInv'
  <2>1. /\ step[c] # "done" /\ step'[c] \in {"done", "describing"}
        /\ \A d \in Calls \ {c} : step'[d] = step[d] /\ kind'[d] = kind[d]
        /\ UNCHANGED <<kernel, proc, all, sessions, closeVars, tokenVars>>
    BY <1>type, <1>3 DEF ResumeOpenSession, OpenAnswered, TypeOK
  <2>2. kernel = "stopped" => proc[c] # "stopping"
    BY DEF TableInv, NoProcessIsLeft, StopLeavesNothing
  <2> QED
    BY <1>type, <2>1, <2>2, CallGoesOn
<1>4. ASSUME NEW c \in Calls, RefuseWhileStopping(c) \/ FailedOpenReturns(c) \/ ControlAnswered(c)
      PROVE  TableInv'
  <2>1. /\ step[c] # "done" /\ step'[c] \in {"done", "failed"}
        /\ step'[c] = "failed" => kernel # "running" \/ proc[c] = "dead"
        /\ \A d \in Calls \ {c} : step'[d] = step[d]
        /\ UNCHANGED <<kernel, proc, all, sessions, kind, closeVars, tokenVars>>
    BY <1>type, <1>4 DEF RefuseWhileStopping, FailedOpenReturns, ControlAnswered, TypeOK
  <2>2. kernel = "stopped" => proc[c] # "stopping"
    BY DEF TableInv, NoProcessIsLeft, StopLeavesNothing
  <2> QED
    BY <1>type, <2>1, <2>2, CallGoesOn
<1>5. ASSUME NEW c \in Calls, InitializeAnswered(c)
      PROVE  TableInv'
  BY <1>type, <1>5, CallGoesOn DEF InitializeAnswered, TypeOK, Alive
<1>6. ASSUME NEW c \in Calls, InitializeRefused(c) \/ SpawnFails(c)
      PROVE  TableInv'
  BY <1>type, <1>6, CallGoesOn DEF InitializeRefused, SpawnFails, TypeOK, Alive
<1>7. ASSUME NEW c \in Calls, OpenRefused(c)
      PROVE  TableInv'
  <2>1. kernel # "stopped"
    BY <1>7 DEF OpenRefused, TableInv, NoProcessIsLeft, StopLeavesNothing
  <2>2. \A d \in Calls \ {c} : proc'[d] = proc[d] /\ step'[d] = step[d]
    BY <1>type, <1>7, StoppedProcesses DEF OpenRefused, TypeOK
  <2>3. proc'[c] \notin Alive /\ step'[c] = "stopping" /\ proc[c] = "up" /\ step[c] = "opening"
    BY <1>type, <1>7, StoppedProcesses DEF OpenRefused, TypeOK
  <2> QED
    BY <1>type, <1>7, <2>1, <2>2, <2>3, CallGoesOn DEF OpenRefused
<1>8. ASSUME NEW c \in Calls, SessionOpened(c)
      PROVE  TableInv'
  <2>1. /\ step[c] = "describing" /\ step'[c] = "done"
        /\ \A d \in Calls \ {c} : step'[d] = step[d]
        /\ \A s \in Sessions : sessions'[s] \in {sessions[s], c}
        /\ UNCHANGED <<kernel, proc, all, kind, closing, target>>
    BY <1>type, <1>8 DEF SessionOpened, TypeOK, closeVars
  <2>2. OpenedByDone'
    BY <1>type, <2>1 DEF TableInv, OpenedByDone, TypeOK
  <2>3. StopFindsAll' /\ AskersOpenNothing' /\ NoProcessIsLeft'
    BY <2>1 DEF TableInv, StopFindsAll, AskersOpenNothing, NoProcessIsLeft,
       StopLeavesNothing, FailedOpenLeavesNothing
  <2>4. NobodyWaitsForKnown'
    <3> SUFFICES ASSUME NEW d \in known \cup {c}, NEW a \in Askers
                 PROVE  ask'[<<d, a>>] # "waiting"
      BY <1>8 DEF SessionOpened, NobodyWaitsForKnown
    <3>1. <<d, a>> \in Calls \X Askers
      BY <1>type DEF TypeOK
    <3>2. ask'[<<d, a>>] = IF d = c /\ ask[<<d, a>>] = "waiting" THEN "answered"
                                                                 ELSE ask[<<d, a>>]
      BY <1>8, <3>1 DEF SessionOpened, Woken
    <3> QED
      BY <3>2 DEF TableInv, NobodyWaitsForKnown
  <2> QED
    BY <1>type, <2>2, <2>3, <2>4 DEF TableInv
<1>9. ASSUME NEW c \in Calls, NEW p \in Calls, AskOn(c, p)
      PROVE  TableInv'
  <2>1. /\ step[c] = "idle" /\ step'[c] = "asking" /\ kind'[c] \notin Opening
        /\ \A d \in Calls \ {c} : step'[d] = step[d] /\ kind'[d] = kind[d]
        /\ UNCHANGED <<kernel, proc, all, sessions, closeVars, tokenVars>>
    BY <1>type, <1>9 DEF AskOn, TypeOK, Opening
  <2>2. kernel = "stopped" => proc[c] # "stopping"
    BY DEF TableInv, NoProcessIsLeft, StopLeavesNothing
  <2> QED
    BY <1>type, <2>1, <2>2, CallGoesOn
<1>10. ASSUME NEW p \in Calls, AgentExits(p)
       PROVE  TableInv'
  <2>1. /\ proc'[p] = "dead" /\ \A c \in Calls \ {p} : proc'[c] = proc[c]
        /\ all' = all \ {p} /\ step' = Rejected({p})
        /\ \A s \in Sessions : sessions'[s] \in {sessions[s], None}
        /\ UNCHANGED <<kernel, kind, closing, target, known, ask>>
    BY <1>type, <1>10 DEF AgentExits, TypeOK, closeVars, tokenVars
  <2>2. /\ \A c \in Calls : proc'[c] \in Alive => proc[c] \in Alive /\ c \in all'
        /\ kernel' # "running" => \A c \in Calls : proc'[c] \notin Alive
    BY <2>1 DEF TableInv, StopFindsAll, Alive
  <2>3. kernel' = "stopped" => \A c \in Calls : proc'[c] \in {"none", "dead"}
    BY <2>1 DEF TableInv, NoProcessIsLeft, StopLeavesNothing
  <2> QED
    BY <1>type, <2>1, <2>2, <2>3, RejectionKeeps
<1>11. ASSUME NEW x \in Closes, NEW s \in Sessions, CloseSession(x, s)
       PROVE  TableInv'
  <2>1. OpenedByDone'
    BY <1>type, <1>11 DEF CloseSession, TableInv, OpenedByDone, TypeOK, callVars
  <2>2. StopFindsAll' /\ AskersOpenNothing' /\ NoProcessIsLeft' /\ NobodyWaitsForKnown'
    BY <1>11 DEF CloseSession, TableInv, StopFindsAll, AskersOpenNothing, NoProcessIsLeft,
       StopLeavesNothing, FailedOpenLeavesNothing, NobodyWaitsForKnown, callVars, tokenVars
  <2> QED
    BY <1>type, <2>1, <2>2 DEF TableInv
<1>12. ASSUME NEW x \in Closes, CloseAnswered(x)
       PROVE  TableInv'
  <2> DEFINE p == target[x].proc
  <2>1. p \in Calls /\ step[p] = "done"
    BY <1>12 DEF CloseAnswered, TableInv, OpenedByDone
  <2>2. /\ proc' = Stopped({p}) /\ step' = Rejected({p})
        /\ \A s \in Sessions : sessions'[s] \in {sessions[s], None}
        /\ UNCHANGED <<kernel, all, kind, target, known, ask>>
    BY <1>type, <1>12 DEF CloseAnswered, TypeOK, tokenVars
  <2>3. /\ \A c \in Calls : proc'[c] \in Alive => proc[c] \in Alive
        /\ \A c \in Calls : proc'[c] # proc[c] => kernel = "running" /\ c = p
    BY <1>type, <2>2, StoppedProcesses DEF TableInv, StopFindsAll
  <2>4. StopFindsAll'
    BY <2>2, <2>3 DEF TableInv, StopFindsAll
  <2>5. OpenedByDone'
    <3>1. {p} \in SUBSET Calls /\ \A c \in Calls : step[c] = "done" => step'[c] = "done"
      BY <1>type, <2>1, <2>2, RejectedCalls
    <3>2. \A y \in Closes : closing'[y] # "idle" => closing[y] # "idle"
      BY <1>type, <1>12 DEF CloseAnswered, TypeOK
    <3>3. ASSUME NEW s \in Sessions, sessions'[s] # None PROVE step'[sessions'[s]] = "done"
      <4>1. sessions'[s] = sessions[s] /\ sessions[s] \in Calls /\ step[sessions[s]] = "done"
        BY <1>type, <2>2, <3>3 DEF TableInv, TypeOK, OpenedByDone
      <4> QED
        BY <3>1, <4>1
    <3>4. ASSUME NEW y \in Closes, closing'[y] # "idle"
          PROVE  target'[y].proc \in Calls /\ step'[target'[y].proc] = "done"
      BY <2>2, <3>1, <3>2, <3>4 DEF TableInv, OpenedByDone
    <3> QED
      BY <3>3, <3>4 DEF OpenedByDone
  <2>6. AskersOpenNothing'
    BY <1>type, <2>1, <2>2, RejectedCalls DEF TableInv, AskersOpenNothing
  <2>7. NoProcessIsLeft'
    BY <1>type, <2>1, <2>2, <2>3, RejectedCalls DEF TableInv, AskersOpenNothing,
       NoProcessIsLeft, StopLeavesNothing, FailedOpenLeavesNothing
  <2> QED
    BY <1>type, <2>2, <2>4, <2>5, <2>6, <2>7 DEF TableInv, NobodyWaitsForKnown
<1>13. ASSUME NEW x \in Closes, CloseEnds(x)
       PROVE  TableInv'
  <2>1. /\ proc[target[x].proc] = "dead" /\ all' = all \ {target[x].proc}
        /\ \A y \in Closes : closing[y] = "idle" => closing'[y] = "idle"
        /\ \A y \in Closes : closing'[y] # "idle" => closing[y] # "idle"
        /\ UNCHANGED <<kernel, proc, sessions, step, kind, target, known, ask>>
    BY <1>type, <1>13 DEF CloseEnds, callVars, tokenVars, TypeOK
  <2>2. StopFindsAll'
    BY <2>1 DEF TableInv, StopFindsAll, Alive
  <2> QED
    BY <1>type, <2>1, <2>2 DEF TableInv, OpenedByDone, AskersOpenNothing, NoProcessIsLeft,
       StopLeavesNothing, FailedOpenLeavesNothing, NobodyWaitsForKnown
<1>14. CASE Shutdown
  <2>1. /\ kernel' = "stopping" /\ all \in SUBSET Calls /\ step' = Rejected(all)
        /\ proc' = Stopped(all) /\ \A s \in Sessions : sessions'[s] \in {sessions[s], None}
        /\ UNCHANGED <<kind, closing, target, known, ask>>
    BY <1>type, <1>14 DEF Shutdown, TypeOK, closeVars, tokenVars
  <2>2. \A c \in Calls : proc'[c] \notin Alive
    BY <1>type, <2>1, StoppedProcesses DEF TableInv, StopFindsAll
  <2>3. OpenedByDone'
    BY <1>type, <2>1, RejectedCalls DEF TableInv, TypeOK, OpenedByDone
  <2>4. AskersOpenNothing'
    BY <1>type, <2>1, RejectedCalls DEF TableInv, AskersOpenNothing
  <2>5. StopFindsAll' /\ NoProcessIsLeft' /\ NobodyWaitsForKnown'
    BY <2>1, <2>2 DEF TableInv, StopFindsAll, NoProcessIsLeft, StopLeavesNothing,
       FailedOpenLeavesNothing, NobodyWaitsForKnown
  <2> QED
    BY <1>type, <2>3, <2>4, <2>5 DEF TableInv
<1>15. CASE ShutdownEnds
  <2>1. /\ kernel' = "stopped"
        /\ UNCHANGED <<proc, all, sessions, step, kind, closing, target, known, ask>>
    BY <1>15 DEF ShutdownEnds, callVars, closeVars, tokenVars
  <2>2. \A c \in Calls : proc[c] \in {"none", "dead"}
    BY <1>type, <1>15 DEF ShutdownEnds, TypeOK, TableInv, StopFindsAll, Running, Alive
  <2> QED
    BY <1>type, <2>1, <2>2 DEF TableInv, StopFindsAll, OpenedByDone, AskersOpenNothing,
       NoProcessIsLeft, StopLeavesNothing, FailedOpenLeavesNothing, NobodyWaitsForKnown, Alive
<1>16. ASSUME NEW c \in Calls, NEW a \in Askers, Identify(c, a) \/ IdentifyTimesOut(c, a)
       PROVE  TableInv'
  <2>1. /\ \A d \in known, b \in Askers : ask'[<<d, b>>] # "waiting"
        /\ UNCHANGED <<kernel, proc, all, sessions, step, kind, closing, target, known>>
    BY <1>type, <1>16 DEF Identify, IdentifyTimesOut, TypeOK, TableInv, NobodyWaitsForKnown,
       callVars, closeVars
  <2> QED
    BY <1>type, <2>1 DEF TableInv, StopFindsAll, OpenedByDone, AskersOpenNothing,
       NoProcessIsLeft, StopLeavesNothing, FailedOpenLeavesNothing, NobodyWaitsForKnown
<1>17. CASE UNCHANGED vars
  BY <1>type, <1>17 DEF vars, TableInv, StopFindsAll, OpenedByDone, AskersOpenNothing,
     NoProcessIsLeft, StopLeavesNothing, FailedOpenLeavesNothing, NobodyWaitsForKnown,
     callVars, closeVars, tokenVars
<1> QED
  BY <1>1, <1>2, <1>3, <1>4, <1>5, <1>6, <1>7, <1>8, <1>9, <1>10, <1>11, <1>12, <1>13,
     <1>14, <1>15, <1>16, <1>17 DEF Next, CallStep, CloseStep

\* The invariant holds in the beginning, when nothing has been spawned.
LEMMA TableInitial == Init => TableInv
  BY TypeInitial, NoneAssumption DEF Init, TableInv, StopFindsAll, OpenedByDone,
     AskersOpenNothing, NoProcessIsLeft, StopLeavesNothing, FailedOpenLeavesNothing,
     NobodyWaitsForKnown, Alive
-----------------------------------------------------------------------------
\* The table of sessions, the processes and the calls keep their types: in
\* particular a close always has a process to stop (kernel.ts, closeSession).
THEOREM TypeCorrect == Spec => []TypeOK
<1>1. TableInv => TypeOK
  BY DEF TableInv
<1> QED
  BY <1>1, TableInitial, TableInductive, PTL DEF Spec

\* No agent process outlives the stop of the core, whatever calls were under
\* way, and a failed session/new or session/resume leaves none behind
\* (kernel.ts, spawnProcess, newSession, resumeSession, shutdown).
THEOREM NoProcessIsLeftHolds == Spec => []NoProcessIsLeft
<1>1. TableInv => NoProcessIsLeft
  BY DEF TableInv
<1> QED
  BY <1>1, TableInitial, TableInductive, PTL DEF Spec

\* No companion waits for a token that is registered already (kernel.ts,
\* registerCompanionToken, resolveCompanionToken).
THEOREM NobodyWaitsHolds == Spec => []NobodyWaitsForKnown
<1>1. TableInv => NobodyWaitsForKnown
  BY DEF TableInv
<1> QED
  BY <1>1, TableInitial, TableInductive, PTL DEF Spec
=============================================================================
