----------------------------- MODULE TurnLedger -----------------------------
(***************************************************************************)
(* The bookkeeping of turns: the events turn_started and turn_finished,    *)
(* the turn a session is thought to be in (PulpoDaemon.turnOf), and the    *)
(* ledger of TurnSnapshotStore with the paths the tools of a turn report.  *)
(*                                                                         *)
(* Turns of one session overlap, begin() and finish() wait for git, and    *)
(* sessions are closed, resumed and lost meanwhile.  The order of starts   *)
(* stands for startedAt.  What the trees hold is in TurnRevert.            *)
(***************************************************************************)
EXTENDS Naturals, FiniteSets

CONSTANTS
  Paths,          \* paths of the repository
  TurnIds,        \* turns
  Sessions,       \* sessions
  SessionOf,      \* SessionOf[t]: the session turn t is prompted in
  Keep,           \* keepPerSession, at least 1
  MaxLosses       \* agent processes and cores that are lost (bound)

NoCurrent == "no turn"

ASSUME LedgerConstants ==
  /\ IsFiniteSet(TurnIds) /\ NoCurrent \notin TurnIds
  /\ SessionOf \in [TurnIds -> Sessions]
  /\ Keep \in Nat \ {0} /\ MaxLosses \in Nat

VARIABLES
  live,        \* sessions the kernel has a handle of
  losses,      \* losses so far
  closing,     \* sessions whose close waits for the process to stop
  cut,         \* turns whose agent process has gone
  stage,       \* stage[t]: how far turn t has come
  startedAt,   \* startedAt[t], 0 before the turn starts
  turnOf,      \* turnOf[s]: the turn session s is thought to be in
  ledger,      \* the turns in TurnSnapshotStore.turns
  touched,     \* touched[t]: snap.touched
  disk,        \* turns.json: its turns, and what each had touched
  edits,       \* edits[t]: paths the tools of t have edited (history)
  disturbed    \* turns that ran beside another of their session, or began
               \* while it was being closed (history)

sessionVars == <<live, losses, closing, cut>>
storeVars == <<ledger, touched, disk>>
bookVars == <<edits, disturbed>>
ledgerVars == <<sessionVars, stage, startedAt, turnOf, storeVars, bookVars>>

(* The turn has started and its agent may still be at work. *)
UnderWay == {"opening", "running"}

OfSession(s, ts) == {t \in ts : SessionOf[t] = s}

Newer(t, ts) == {u \in ts : startedAt[u] > startedAt[t]}

(* save(): turns.json gets what the map holds. *)
Save == disk' = [t \in TurnIds |-> IF t \in ledger' THEN <<touched'[t]>> ELSE <<>>]
-----------------------------------------------------------------------------
(***************************************************************************)
(* A turn                                                                  *)
(***************************************************************************)

(* turn_started, and the head of begin(), which then waits for git. *)
StartTurn(t) ==
  LET s == SessionOf[t]
      beside == {u \in OfSession(s, TurnIds) : stage[u] \in UnderWay}
  IN  /\ s \in live
      /\ stage[t] = "none"
      /\ stage' = [stage EXCEPT ![t] = "opening"]
      /\ startedAt' = [startedAt EXCEPT ![t] =
                         1 + Cardinality({u \in TurnIds : startedAt[u] > 0})]
      /\ turnOf' = [turnOf EXCEPT ![s] = t]
      /\ disturbed' = disturbed \cup beside
                        \cup (IF beside # {} \/ s \in closing THEN {t} ELSE {})
      /\ UNCHANGED <<sessionVars, storeVars, edits>>

(* prune(): of the turns of the session the newest Keep stay. *)
Prune(s, ts) ==
  LET mine == OfSession(s, ts)
  IN  {t \in ts : t \in mine => Cardinality(Newer(t, mine)) < Keep}

(* The end of begin(); the prompt goes to the agent. *)
EnterTurn(t) ==
  /\ stage[t] = "opening"
  /\ stage' = [stage EXCEPT ![t] = "running"]
  /\ ledger' = Prune(SessionOf[t], ledger \cup {t})
  /\ UNCHANGED touched
  /\ Save
  /\ UNCHANGED <<sessionVars, startedAt, turnOf, bookVars>>

(* The prompt has been answered or rejected: finish() looks the turn up,   *)
(* and waits for git if it finds it.                                       *)
EndPrompt(t) ==
  /\ stage[t] = "running"
  /\ stage' = [stage EXCEPT ![t] = IF t \in ledger THEN "finishing" ELSE "forgotten"]
  /\ UNCHANGED <<sessionVars, startedAt, turnOf, storeVars, bookVars>>

(* Mutant: turn_finished clears the session's turn, whichever it is. *)
ForgetAnyTurn(t) == turnOf' = [turnOf EXCEPT ![SessionOf[t]] = NoCurrent]

(* turnOf is deleted if it still is this turn. *)
ForgetTurn(t) ==
  turnOf' = [turnOf EXCEPT ![SessionOf[t]] = IF @ = t THEN NoCurrent ELSE @]

(* The notification turn_finished goes to the clients. *)
Announce(t) ==
  /\ stage' = [stage EXCEPT ![t] = "over"]
  /\ ForgetTurn(t)
  /\ UNCHANGED <<sessionVars, startedAt, ledger, touched, bookVars>>

FinishTurn(t) ==
  /\ stage[t] = "finishing"
  /\ Announce(t)
  /\ Save

(* Mutant: a turn that is not in the ledger is not announced. *)
FinishForgottenTurnSilently(t) ==
  /\ stage[t] = "forgotten"
  /\ UNCHANGED ledgerVars

(* finish() and summary() of a turn that was pruned find nothing. *)
FinishForgottenTurn(t) ==
  /\ stage[t] = "forgotten"
  /\ Announce(t)
  /\ UNCHANGED disk

(* A tool of turn t has edited a path; the changeStat is booked on the     *)
(* turn its session is thought to be in.                                   *)
AgentEdits(t, p) ==
  /\ stage[t] = "running"
  /\ t \notin cut
  /\ edits' = [edits EXCEPT ![t] = @ \cup {p}]
  /\ LET current == turnOf[SessionOf[t]]
     IN  touched' = [u \in TurnIds |-> IF u = current /\ u \in ledger
                                     THEN touched[u] \cup {p} ELSE touched[u]]
  /\ UNCHANGED <<sessionVars, stage, startedAt, turnOf, ledger, disk, disturbed>>
-----------------------------------------------------------------------------
(***************************************************************************)
(* Sessions come and go                                                    *)
(***************************************************************************)

(* The handle leaves the kernel and the agent's process goes. *)
LoseSession(s) ==
  /\ s \in live
  /\ losses < MaxLosses
  /\ losses' = losses + 1
  /\ live' = live \ {s}
  /\ cut' = cut \cup {t \in OfSession(s, TurnIds) : stage[t] \in UnderWay}
  /\ UNCHANGED <<stage, startedAt, storeVars, bookVars>>

(* session_closed *)
ForgetSession(s) == turnOf' = [turnOf EXCEPT ![s] = NoCurrent]

(* The process exits by itself. *)
AgentExits(s) ==
  /\ LoseSession(s)
  /\ ForgetSession(s)
  /\ UNCHANGED closing

(* closeSession deletes the handle, waits for the process to stop, ... *)
CloseBegins(s) ==
  /\ s \notin closing
  /\ LoseSession(s)
  /\ closing' = closing \cup {s}
  /\ UNCHANGED turnOf

(* ... and emits session_closed after that. *)
CloseEnds(s) ==
  /\ s \in closing
  /\ closing' = closing \ {s}
  /\ ForgetSession(s)
  /\ UNCHANGED <<live, losses, cut, stage, startedAt, storeVars, bookVars>>

ResumeSession(s) ==
  /\ s \notin live
  /\ live' = live \cup {s}
  /\ UNCHANGED <<losses, closing, cut, stage, startedAt, turnOf, storeVars, bookVars>>

(* The core dies and is started again: of the turns it knows turns.json,   *)
(* and those that were not over are never announced.                       *)
Restart ==
  /\ losses < MaxLosses
  /\ losses' = losses + 1
  /\ live' = {} /\ closing' = {}
  /\ stage' = [t \in TurnIds |-> IF stage[t] \in {"none", "over"} THEN stage[t] ELSE "lost"]
  /\ turnOf' = [s \in Sessions |-> NoCurrent]
  /\ ledger' = {t \in TurnIds : disk[t] # <<>>}
  /\ touched' = [t \in TurnIds |-> IF t \in ledger' THEN disk[t][1] ELSE {}]
  /\ UNCHANGED <<cut, startedAt, disk, bookVars>>
-----------------------------------------------------------------------------
LedgerInit ==
  /\ live = Sessions /\ losses = 0 /\ closing = {} /\ cut = {}
  /\ stage = [t \in TurnIds |-> "none"]
  /\ startedAt = [t \in TurnIds |-> 0]
  /\ turnOf = [s \in Sessions |-> NoCurrent]
  /\ ledger = {}
  /\ touched = [t \in TurnIds |-> {}]
  /\ disk = [t \in TurnIds |-> <<>>]
  /\ edits = [t \in TurnIds |-> {}]
  /\ disturbed = {}

(* What the core does once git has answered. *)
CoreStep(t) == EnterTurn(t) \/ FinishTurn(t) \/ FinishForgottenTurn(t)

SessionStep(s) == AgentExits(s) \/ CloseBegins(s) \/ CloseEnds(s) \/ ResumeSession(s)

LedgerNext ==
  \/ \E t \in TurnIds : StartTurn(t) \/ EndPrompt(t) \/ CoreStep(t)
  \/ \E t \in TurnIds, p \in Paths : AgentEdits(t, p)
  \/ \E s \in Sessions : SessionStep(s)
  \/ Restart

LedgerSpec == LedgerInit /\ [][LedgerNext]_ledgerVars

(* The prompt of a process that has gone is rejected. *)
PromptIsRejected(t) == t \in cut /\ EndPrompt(t)

(* git returns.  That an agent ever answers a prompt is not assumed. *)
LedgerFairness == \A t \in TurnIds : WF_ledgerVars(CoreStep(t)) /\ WF_ledgerVars(PromptIsRejected(t))
-----------------------------------------------------------------------------
(***************************************************************************)
(* Properties                                                              *)
(***************************************************************************)

(* Every variable has its type. *)
LedgerTypeOK ==
  /\ live \subseteq Sessions /\ closing \subseteq Sessions /\ losses \in 0 .. MaxLosses
  /\ cut \subseteq TurnIds /\ disturbed \subseteq TurnIds
  /\ stage \in [TurnIds -> UnderWay \cup {"none", "finishing", "forgotten", "over", "lost"}]
  /\ startedAt \in [TurnIds -> Nat]
  /\ turnOf \in [Sessions -> TurnIds \cup {NoCurrent}]
  /\ ledger \subseteq TurnIds
  /\ touched \in [TurnIds -> SUBSET Paths] /\ edits \in [TurnIds -> SUBSET Paths]
  /\ disk \in [TurnIds -> {<<>>} \cup {<<ps>> : ps \in SUBSET Paths}]

(* Neither the ledger nor turns.json ever holds more than keepPerSession   *)
(* turns of a session, though overlapping turns reach the ledger in        *)
(* another order than they were started in; and a turn that is over and    *)
(* can no longer be reverted has made room for keepPerSession newer turns  *)
(* of its own session: neither other sessions nor a restart push it out.   *)
LedgerBounded ==
  \A s \in Sessions :
    /\ Cardinality(OfSession(s, ledger)) <= Keep
    /\ Cardinality({t \in OfSession(s, TurnIds) : disk[t] # <<>>}) <= Keep

RecentTurnsKept ==
  \A t \in TurnIds \ ledger :
    LET later == {u \in OfSession(SessionOf[t], TurnIds) : stage[u] \notin {"none", "opening"}}
    IN  stage[t] = "over" => Cardinality(Newer(t, later)) >= Keep

(* A turn that ran alone is booked exactly the paths its tools edited,     *)
(* though the end of the turn before it may be announced while it runs,    *)
(* and they survive a restart.                                             *)
SoleTurnNoted ==
  \A t \in ledger \ disturbed : stage[t] = "over" => touched[t] = edits[t]

(* The ledger holds the turns it should, and they hold what they should.   *)
LedgerIsTrue == LedgerBounded /\ RecentTurnsKept /\ SoleTurnNoted

(* A turn whose prompt has been answered, or whose agent has gone, is      *)
(* followed by turn_finished, also when it was pruned while it ran or its  *)
(* session was closed; unless the core dies.                               *)
TurnIsAnnounced ==
  \A t \in TurnIds :
    t \in cut \/ stage[t] \in {"finishing", "forgotten"} ~> stage[t] \in {"over", "lost"}
=============================================================================
