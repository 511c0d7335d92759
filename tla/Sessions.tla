------------------------------ MODULE Sessions ------------------------------
(***************************************************************************)
(* The session table of the kernel (core/src/acp/kernel.ts) and the agent  *)
(* processes behind it (core/src/acp/agent.ts): session/new,               *)
(* session/resume, session/close, the calls served by a control process    *)
(* (session/list, session/load), exits of agents, the stop of the core,    *)
(* and the tokens by which a companion learns which session it is in.      *)
(*                                                                         *)
(* Every await of these functions is a boundary between two actions.  A    *)
(* call spawns at most one process, which has the name of the call; so has *)
(* the token that is handed to the companion of that process.              *)
(***************************************************************************)
EXTENDS Naturals, FiniteSets

CONSTANTS Calls,      \* calls of session/new, session/resume, session/list
          Closes,     \* calls of session/close
          Askers,     \* requests for its identity by one companion
          Sessions,   \* session refs (one agent, one working directory)
          None        \* no process, no session

ASSUME NoneAssumption == None \notin Calls \cup Sessions

VARIABLES
  kernel,     \* running, stopping (shutdown() waits), stopped
  proc,       \* the process a call has spawned
  all,        \* AcpKernel.all: the processes shutdown() will stop
  sessions,   \* AcpKernel.sessions: the process of the handle of a session
  control,    \* AcpKernel.controls: the resident control process
  step,       \* the await at which a call stands
  kind,       \* which method a call is
  for,        \* the session a call asks for or has been given, or the
              \* process it asks
  closing,    \* the await at which a call of session/close stands
  target,     \* [ref, proc] of the handle a close has taken from the table
  known,      \* AcpKernel.companionTokens
  ask         \* what has become of a companion's requests

vars == <<kernel, proc, all, sessions, control, step, kind, for, closing,
          target, known, ask>>

callVars  == <<step, kind, for>>
closeVars == <<closing, target>>
tokenVars == <<known, ask>>

Running == {"starting", "up", "refused", "stopping"}
Alive   == {"starting", "up", "refused"}    \* AgentProcess.alive
Opening == {"new", "resume"}
Waits   == {"starting", "opening", "stopping", "describing", "asking"}

TypeOK ==
  /\ kernel \in {"running", "stopping", "stopped"}
  /\ proc \in [Calls -> Running \cup {"none", "dead"}]
  /\ all \subseteq Calls
  /\ sessions \in [Sessions -> Calls \cup {None}]
  /\ control \in Calls \cup {None}
  /\ step \in [Calls -> Waits \cup {"idle", "done", "failed"}]
  /\ kind \in [Calls -> Opening \cup {"none", "control"}]
  /\ for \in [Calls -> Sessions \cup Calls \cup {None}]
  /\ closing \in [Closes -> {"idle", "asking", "stopping", "done"}]
  /\ target \in [Closes -> [ref : Sessions \cup {None}, proc : Calls \cup {None}]]
  /\ known \subseteq Calls
  /\ ask \in [Calls \X Askers -> {"idle", "waiting", "answered", "refused"}]

Init ==
  /\ kernel = "running"
  /\ proc = [c \in Calls |-> "none"]
  /\ all = {}
  /\ sessions = [s \in Sessions |-> None]
  /\ control = None
  /\ step = [c \in Calls |-> "idle"]
  /\ kind = [c \in Calls |-> "none"]
  /\ for = [c \in Calls |-> None]
  /\ closing = [x \in Closes |-> "idle"]
  /\ target = [x \in Closes |-> [ref |-> None, proc |-> None]]
  /\ known = {}
  /\ ask = [w \in Calls \X Askers |-> "idle"]

-----------------------------------------------------------------------------
(* Processes.                                                              *)

LiveHandle(s) == sessions[s] # None /\ proc[sessions[s]] \in Alive

\* AgentProcess.stop() of the processes P: the connection is closed, the
\* child is killed, and the caller waits for its exit.
Stopped(P) ==
  [p \in Calls |-> IF p \in P /\ proc[p] \in Alive THEN "stopping" ELSE proc[p]]

\* Mutant: the process enters the table only when it has been initialized.
TrackedWhenUp(c) == all

\* The process is in the table before initialize is sent, so that a stop of
\* the core that comes meanwhile finds it.
Tracked(c) == all \cup {c}

Spawn(c) ==
  /\ proc' = [proc EXCEPT ![c] = "starting"]
  /\ all' = Tracked(c)
  /\ step' = [step EXCEPT ![c] = "starting"]
  /\ UNCHANGED <<kernel, sessions, control, closeVars, tokenVars>>

\* Mutant: only the call that has spawned the process is rejected.
RejectedOwn(P) ==
  [c \in Calls |->
     IF c \notin P THEN step[c]
     ELSE IF step[c] = "starting" THEN "failed"
     ELSE IF step[c] = "opening" THEN "stopping"
     ELSE step[c]]

\* What the connection of process p still owes is rejected when it closes.
\* Only an open that has got past initialize stops its process itself.
Rejected(P) ==
  [c \in Calls |->
     IF for[c] \in P /\ step[c] = "asking" THEN "failed"
     ELSE IF c \notin P THEN step[c]
     ELSE IF step[c] = "starting" THEN "failed"
     ELSE IF step[c] = "opening" THEN "stopping"
     ELSE step[c]]

\* The agent exits, on its own or because it is being stopped.
AgentExits(p) ==
  /\ proc[p] \in Running
  /\ proc' = [proc EXCEPT ![p] = "dead"]
  /\ all' = all \ {p}
  /\ sessions' = [s \in Sessions |-> IF sessions[s] = p THEN None ELSE sessions[s]]
  /\ control' = IF control = p THEN None ELSE control
  /\ step' = Rejected({p})
  /\ UNCHANGED <<kernel, kind, for, closeVars, tokenVars>>

-----------------------------------------------------------------------------
(* session/new and session/resume.                                         *)

NewSession(c) ==
  /\ step[c] = "idle" /\ kernel = "running"
  /\ kind' = [kind EXCEPT ![c] = "new"]
  /\ Spawn(c)
  /\ UNCHANGED for

ResumeSession(c, s) ==
  /\ step[c] = "idle" /\ kernel = "running"
  /\ ~LiveHandle(s)
  /\ kind' = [kind EXCEPT ![c] = "resume"]
  /\ for' = [for EXCEPT ![c] = s]
  /\ Spawn(c)

\* A session that is open is not resumed again.
ResumeOpenSession(c, s) ==
  /\ step[c] = "idle"
  /\ LiveHandle(s)
  /\ kind' = [kind EXCEPT ![c] = "resume"]
  /\ for' = [for EXCEPT ![c] = s]
  /\ step' = [step EXCEPT ![c] = "done"]
  /\ UNCHANGED <<kernel, proc, all, sessions, control, closeVars, tokenVars>>

RefuseWhileStopping(c) ==
  /\ step[c] = "idle" /\ kernel # "running"
  /\ step' = [step EXCEPT ![c] = "failed"]
  /\ UNCHANGED <<kernel, proc, all, sessions, control, kind, for, closeVars, tokenVars>>

InitializeAnswered(c) ==
  /\ step[c] = "starting" /\ proc[c] = "starting"
  /\ proc' = [proc EXCEPT ![c] = "up"]
  /\ step' = [step EXCEPT ![c] = IF kind[c] \in Opening THEN "opening" ELSE "asking"]
  /\ IF kind[c] \in Opening
     THEN UNCHANGED <<control, for>>
     ELSE control' = c /\ for' = [for EXCEPT ![c] = c]
  /\ UNCHANGED <<kernel, all, sessions, kind, closeVars, tokenVars>>

\* start() throws; the process that has been spawned is left as it is.
InitializeRefused(c) ==
  /\ step[c] = "starting" /\ proc[c] = "starting"
  /\ proc' = [proc EXCEPT ![c] = "refused"]
  /\ step' = [step EXCEPT ![c] = "failed"]
  /\ UNCHANGED <<kernel, all, sessions, control, kind, for, closeVars, tokenVars>>

\* The command cannot be run: no exit is reported, the process that never
\* was stays in the table.
SpawnFails(c) ==
  /\ step[c] = "starting" /\ proc[c] = "starting"
  /\ proc' = [proc EXCEPT ![c] = "dead"]
  /\ step' = [step EXCEPT ![c] = "failed"]
  /\ UNCHANGED <<kernel, all, sessions, control, kind, for, closeVars, tokenVars>>

\* A new session gets a ref that no session has had.
Fresh(s) ==
  /\ sessions[s] = None
  /\ \A c \in Calls : for[c] # s
  /\ \A x \in Closes : target[x].ref # s

OpenAnswered(c, s) ==
  /\ step[c] = "opening" /\ proc[c] = "up"
  /\ IF kind[c] = "new" THEN Fresh(s) ELSE s = for[c]
  /\ for' = [for EXCEPT ![c] = s]
  /\ step' = [step EXCEPT ![c] = "describing"]
  /\ UNCHANGED <<kernel, proc, all, sessions, control, kind, closeVars, tokenVars>>

\* An error, or an answer without a session id.
OpenRefused(c) ==
  /\ step[c] = "opening" /\ proc[c] = "up"
  /\ proc' = Stopped({c})
  /\ step' = [step EXCEPT ![c] = "stopping"]
  /\ UNCHANGED <<kernel, all, sessions, control, kind, for, closeVars, tokenVars>>

FailedOpenReturns(c) ==
  /\ step[c] = "stopping" /\ proc[c] = "dead"
  /\ step' = [step EXCEPT ![c] = "failed"]
  /\ UNCHANGED <<kernel, proc, all, sessions, control, kind, for, closeVars, tokenVars>>

\* Mutant: the waiters of a registered token are left to their timers.
WokenByTimer(c) == ask

\* registerCompanionToken: everybody who waits for the token is woken.
Woken(c) ==
  [w \in Calls \X Askers |->
     IF w[1] = c /\ ask[w] = "waiting" THEN "answered" ELSE ask[w]]

\* The descriptor is complete: the handle goes into the table, whether or not
\* its process is still there and whoever was in the table before.
SessionOpened(c) ==
  /\ step[c] = "describing"
  /\ sessions' = [sessions EXCEPT ![for[c]] = c]
  /\ known' = known \cup {c}
  /\ ask' = Woken(c)
  /\ step' = [step EXCEPT ![c] = "done"]
  /\ UNCHANGED <<kernel, proc, all, control, kind, for, closeVars>>

-----------------------------------------------------------------------------
(* session/list and session/load: on the process of a session that is not  *)
(* in a turn, on the resident control process, or on a new one.  Whether a *)
(* session is in a turn is left open.                                      *)

AskOn(c, p) ==
  /\ step[c] = "idle"
  /\ p # None /\ proc[p] \in Alive
  /\ \/ p = control
     \/ \E s \in Sessions : sessions[s] = p
  /\ kind' = [kind EXCEPT ![c] = "control"]
  /\ for' = [for EXCEPT ![c] = p]
  /\ step' = [step EXCEPT ![c] = "asking"]
  /\ UNCHANGED <<kernel, proc, all, sessions, control, closeVars, tokenVars>>

AskOnNewProcess(c) ==
  /\ step[c] = "idle" /\ kernel = "running"
  /\ control # None => proc[control] \notin Alive
  /\ kind' = [kind EXCEPT ![c] = "control"]
  /\ Spawn(c)
  /\ UNCHANGED for

ControlAnswered(c) ==
  /\ step[c] = "asking" /\ proc[for[c]] \in Alive
  /\ step' = [step EXCEPT ![c] = "done"]
  /\ UNCHANGED <<kernel, proc, all, sessions, control, kind, for, closeVars, tokenVars>>

-----------------------------------------------------------------------------
(* session/close.                                                          *)

CloseSession(x, s) ==
  /\ closing[x] = "idle" /\ sessions[s] # None
  /\ target' = [target EXCEPT ![x] = [ref |-> s, proc |-> sessions[s]]]
  /\ closing' = [closing EXCEPT ![x] = "asking"]
  /\ UNCHANGED <<kernel, proc, all, sessions, control, callVars, tokenVars>>

\* The agent has answered, has refused, has gone, or cannot be asked: the
\* finally block takes out of the table whatever is there under the ref.
CloseAnswered(x) ==
  /\ closing[x] = "asking"
  /\ sessions' = [sessions EXCEPT ![target[x].ref] = None]
  /\ proc' = Stopped({target[x].proc})
  /\ step' = Rejected({target[x].proc})
  /\ closing' = [closing EXCEPT ![x] = "stopping"]
  /\ UNCHANGED <<kernel, all, control, kind, for, target, tokenVars>>

CloseEnds(x) ==
  /\ closing[x] = "stopping" /\ proc[target[x].proc] = "dead"
  /\ all' = all \ {target[x].proc}
  /\ closing' = [closing EXCEPT ![x] = "done"]
  /\ UNCHANGED <<kernel, proc, sessions, control, callVars, target, tokenVars>>

-----------------------------------------------------------------------------
(* The stop of the core.                                                   *)

Shutdown ==
  /\ kernel = "running"
  /\ kernel' = "stopping"
  /\ proc' = Stopped(all)
  /\ step' = Rejected(all)
  /\ sessions' = [s \in Sessions |-> None]
  /\ control' = None
  /\ all' = {}
  /\ UNCHANGED <<kind, for, closeVars, tokenVars>>

\* shutdown() returns when every process it stops has exited; those that do
\* not want to are killed after three seconds.
ShutdownEnds ==
  /\ kernel = "stopping"
  /\ \A p \in Calls : proc[p] # "stopping"
  /\ kernel' = "stopped"
  /\ UNCHANGED <<proc, all, sessions, control, callVars, closeVars, tokenVars>>

-----------------------------------------------------------------------------
(* companion/identify.  The token goes out with session/new, before the    *)
(* session has a ref.                                                      *)

HasToken(c) == kind[c] \in Opening /\ proc[c] = "up"

Identify(c, a) ==
  /\ HasToken(c)
  /\ ask[<<c, a>>] \in {"idle", "refused"}
  /\ ask' = [ask EXCEPT ![<<c, a>>] = IF c \in known THEN "answered" ELSE "waiting"]
  /\ UNCHANGED <<kernel, proc, all, sessions, control, callVars, closeVars, known>>

IdentifyTimesOut(c, a) ==
  /\ ask[<<c, a>>] = "waiting"
  /\ ask' = [ask EXCEPT ![<<c, a>>] = "refused"]
  /\ UNCHANGED <<kernel, proc, all, sessions, control, callVars, closeVars, known>>

-----------------------------------------------------------------------------
CallStep(c) ==
  \/ NewSession(c)
  \/ \E s \in Sessions :
       ResumeSession(c, s) \/ ResumeOpenSession(c, s) \/ OpenAnswered(c, s)
  \/ RefuseWhileStopping(c)
  \/ InitializeAnswered(c) \/ InitializeRefused(c) \/ SpawnFails(c)
  \/ OpenRefused(c) \/ FailedOpenReturns(c) \/ SessionOpened(c)
  \/ \E p \in Calls : AskOn(c, p)
  \/ AskOnNewProcess(c) \/ ControlAnswered(c)

CloseStep(x) ==
  \/ \E s \in Sessions : CloseSession(x, s)
  \/ CloseAnswered(x) \/ CloseEnds(x)

Next ==
  \/ \E c \in Calls : CallStep(c) \/ AgentExits(c)
  \/ \E x \in Closes : CloseStep(x)
  \/ Shutdown \/ ShutdownEnds
  \/ \E c \in Calls, a \in Askers : Identify(c, a) \/ IdentifyTimesOut(c, a)

\* Agents answer their requests or exit, a process that is stopped exits,
\* the core runs its continuations and its timers.
Fairness ==
  /\ \A c \in Calls :
       /\ WF_vars(InitializeAnswered(c) \/ InitializeRefused(c))
       /\ WF_vars(OpenRefused(c) \/ \E s \in Sessions : OpenAnswered(c, s))
       /\ WF_vars(FailedOpenReturns(c) \/ SessionOpened(c) \/ ControlAnswered(c))
       /\ WF_vars(proc[c] = "stopping" /\ AgentExits(c))
       /\ \A a \in Askers : WF_vars(IdentifyTimesOut(c, a))
  /\ \A x \in Closes : WF_vars(CloseAnswered(x) \/ CloseEnds(x))
  /\ WF_vars(ShutdownEnds)

Spec == Init /\ [][Next]_vars /\ Fairness

-----------------------------------------------------------------------------
(* Properties.                                                             *)

\* No agent process outlives the stop of the core, whatever calls were under
\* way when the stop came (kernel.ts, spawnProcess and shutdown); and a
\* session/new or session/resume that the agent refuses, or that dies under
\* the call, leaves no process behind (kernel.ts, newSession, the catch
\* blocks).  An agent that refuses initialize does stay: proc[c] is "refused".
StopLeavesNothing ==
  kernel = "stopped" => \A p \in Calls : proc[p] \in {"none", "dead"}

FailedOpenLeavesNothing ==
  \A c \in Calls :
    step[c] = "failed" /\ kind[c] \in Opening =>
      \/ proc[c] \in {"none", "dead", "refused"}
      \/ kernel # "running"

NoProcessIsLeft == StopLeavesNothing /\ FailedOpenLeavesNothing

\* A companion never waits for a token that is registered already, so that
\* it never runs into its timeout although the answer is there (kernel.ts,
\* registerCompanionToken, resolveCompanionToken).
NobodyWaitsForKnown ==
  \A c \in known, a \in Askers : ask[<<c, a>>] # "waiting"

\* Every call that opens, asks or closes returns, if agents answer or exit.
CallsReturn ==
  /\ \A c \in Calls : step[c] \in Waits ~> step[c] \in {"done", "failed"}
  /\ \A x \in Closes : closing[x] # "idle" ~> closing[x] = "done"
  /\ kernel = "stopping" ~> kernel = "stopped"

=============================================================================
