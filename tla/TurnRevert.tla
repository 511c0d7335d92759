----------------------------- MODULE TurnRevert -----------------------------
(***************************************************************************)
(* What turns do to the files of a repository, and its undoing: the trees  *)
(* taken around a turn (TurnSnapshotStore.begin and finish) and            *)
(* session/revert.                                                         *)
(*                                                                         *)
(* Files are written by several processes: the agents, the user's editor   *)
(* and the core.  What the core has read may have been changed by one of   *)
(* the others when it acts on it.  A tree is taken in one instant, and a   *)
(* hash is the content it is of.  Which turns the ledger still holds is    *)
(* left to TurnLedger: a call for a turn it has dropped is one not made.   *)
(***************************************************************************)
EXTENDS Naturals

CONSTANTS
  Files,          \* paths of the repository
  Turns,          \* turns; an agent's edit in a turn has the turn as content
  UserContents,   \* what the user may write by hand, each once (bound)
  Original,       \* the content of a file nobody has changed
  Absent,         \* the "content" of a file that does not exist
  Calls           \* calls of session/revert

NoTurn == "no turn"
NoBlob == "no blob"

(* Contents differ from each other, and what is no content from all.       *)
ASSUME TurnRevertConstants ==
  /\ Original # Absent /\ Turns \cap UserContents = {}
  /\ {Original, Absent, NoBlob} \cap (Turns \cup UserContents) = {}
  /\ NoBlob \notin {Original, Absent}

Contents == Turns \cup UserContents \cup {Original}

States == Contents \cup {Absent}

VARIABLES
  file,        \* the working tree
  phase,       \* phase[t]: how far turn t has come
  available,   \* the turns whose snapshot has revert: "available"
  before,      \* before[t]: the tree taken when t began
  after,       \* after[t]: the tree taken when t had ended
  changed,     \* changed[t]: the paths in snap.files of t
  blob,        \* blob[t][p]: afterBlob, NoBlob where there is none
  call,        \* call[c]: a revert and where it stands
  used,        \* what the user has written so far (history)
  byHand,      \* byHand[t]: paths the user was the last to write, after t
               \* was over (history)
  quiet        \* turns since whose beginning nobody else has written, and git
               \* has told every revert what it was asked (history)

treeVars == <<available, before, after, changed, blob>>
historyVars == <<used, byHand, quiet>>
vars == <<file, phase, treeVars, call, historyVars>>
-----------------------------------------------------------------------------
(***************************************************************************)
(* The trees around a turn                                                 *)
(***************************************************************************)

(* begin(): outside a repository, or when git fails, the turn goes on      *)
(* without a tree.                                                         *)
BeginTurn(t) ==
  /\ phase[t] = "none"
  /\ phase' = [phase EXCEPT ![t] = "running"]
  /\ \/ /\ before' = [before EXCEPT ![t] = file]
        /\ available' = available \cup {t}
        /\ quiet' = quiet \cup {t}
     \/ UNCHANGED <<before, available, quiet>>
  /\ UNCHANGED <<file, after, changed, blob, call, used, byHand>>

(* The prompt has been answered or rejected. *)
EndTurn(t) ==
  /\ phase[t] = "running"
  /\ phase' = [phase EXCEPT ![t] = "finishing"]
  /\ UNCHANGED <<file, treeVars, call, historyVars>>

(* finish(): the second tree. *)
CaptureAfter(t) ==
  /\ phase[t] = "finishing"
  /\ t \in available
  /\ phase' = [phase EXCEPT ![t] = "comparing"]
  /\ after' = [after EXCEPT ![t] = file]
  /\ UNCHANGED <<file, available, before, changed, blob, call, historyVars>>

(* afterBlob is of the file as it is now, not as it is in the tree. *)
AfterBlob(p) == IF file[p] = Absent THEN NoBlob ELSE file[p]

(* TurnFileChange.status *)
Deleted(t, p) == after[t][p] = Absent

(* diffTrees, and the end of finish(). *)
Compare(t) ==
  /\ phase[t] = "comparing"
  /\ phase' = [phase EXCEPT ![t] = "over"]
  /\ LET paths == {p \in Files : before[t][p] # after[t][p]}
     IN  /\ changed' = [changed EXCEPT ![t] = paths]
         /\ blob' = [blob EXCEPT ![t] =
                       [p \in Files |-> IF p \in paths /\ ~Deleted(t, p)
                                        THEN AfterBlob(p) ELSE NoBlob]]
  /\ UNCHANGED <<file, available, before, after, call, historyVars>>

(* A git call of finish() fails, or there was no first tree, or the turn   *)
(* has left the ledger meanwhile: it stays without a comparison.           *)
NoComparison(t) ==
  /\ phase[t] \in {"finishing", "comparing"}
  /\ phase' = [phase EXCEPT ![t] = "over"]
  /\ available' = available \ {t}
  /\ UNCHANGED <<file, before, after, changed, blob, call, historyVars>>

(* The core dies: its turns are left in the ledger without a comparison,  *)
(* and the reverts that were under way are broken off.                     *)
Crash ==
  /\ phase' = [t \in Turns |-> IF phase[t] \in {"running", "finishing", "comparing"}
                               THEN "lost" ELSE phase[t]]
  /\ call' = [c \in Calls |-> IF call[c].stage \in {"checking", "writing"}
                              THEN [call[c] EXCEPT !.stage = "broken"] ELSE call[c]]
  /\ <<phase, call>>' # <<phase, call>>
  /\ UNCHANGED <<file, treeVars, historyVars>>
-----------------------------------------------------------------------------
(***************************************************************************)
(* Who else writes files                                                   *)
(***************************************************************************)

(* An agent edits a file, creates it or deletes it. *)
AgentWrites(t, p) ==
  /\ phase[t] = "running"
  /\ \E content \in {t, Absent} \ {file[p]} :
       file' = [file EXCEPT ![p] = content]
  /\ byHand' = [u \in Turns |-> byHand[u] \ {p}]
  /\ quiet' = quiet \cap {t}
  /\ UNCHANGED <<phase, treeVars, call, used>>

(* The user saves a new content, or removes the file. *)
UserWrites(p) ==
  /\ \E content \in (UserContents \cup {Absent}) \ (used \cup {file[p]}) :
       /\ file' = [file EXCEPT ![p] = content]
       /\ used' = used \cup {content}
  /\ byHand' = [t \in Turns |-> IF phase[t] = "over" THEN byHand[t] \cup {p}
                                ELSE byHand[t]]
  /\ quiet' = {}
  /\ UNCHANGED <<phase, treeVars, call>>
-----------------------------------------------------------------------------
(***************************************************************************)
(* session/revert                                                          *)
(***************************************************************************)

NoCall == [stage |-> "none", turn |-> NoTurn, todo |-> {}, path |-> {}, exists |-> FALSE,
           skipped |-> {}, reverted |-> {}]

(* Without paths the turn's own are meant.  A turn without a snapshot is   *)
(* refused at once; one that still runs has changed nothing yet.           *)
CallRevert(c, t) ==
  /\ call[c].stage = "none"
  /\ t \in available
  /\ \E wanted \in {changed[t]} \cup (SUBSET Files \ {{}}) :
       call' = [call EXCEPT ![c] = [NoCall EXCEPT !.stage = "checking", !.turn = t,
                                                  !.todo = wanted]]
  /\ UNCHANGED <<file, phase, treeVars, historyVars>>

(* Mutant: the hash is not compared. *)
PassesAlways(t, p) == p \in changed[t]

(* Mutant: a path the turn has not changed passes if it has no hash. *)
PassesUnknown(t, p) ==
  Deleted(t, p) \/ blob[t][p] = file[p] \/ p \notin changed[t]

(* The two safety lines: the turn has changed the path, and the file is as *)
(* the turn left it.  The second is not drawn for a file the turn deleted. *)
Passes(t, p) ==
  /\ p \in changed[t]
  /\ Deleted(t, p) \/ blob[t][p] = file[p]

(* The next path: skipped, or looked for in the tree with an await; that   *)
(* the file exists is remembered.                                          *)
CheckPath(c, p) ==
  /\ call[c].stage = "checking"
  /\ p \in call[c].todo
  /\ LET rest == [call[c] EXCEPT !.todo = @ \ {p}]
     IN  call' = [call EXCEPT ![c] =
                    IF Passes(call[c].turn, p)
                    THEN [rest EXCEPT !.stage = "writing", !.path = {p},
                                      !.exists = file[p] # Absent]
                    ELSE [rest EXCEPT !.skipped = @ \cup {p}]]
  /\ UNCHANGED <<file, phase, treeVars, historyVars>>

(* treeHasPath: where git fails, the answer is no. *)
TreeHasPath(t, p, answered) == answered /\ before[t][p] # Absent

(* Mutant: a file that is new is left where it is. *)
RestoredIfKnown(c, p, answered) ==
  IF TreeHasPath(call[c].turn, p, answered) THEN before[call[c].turn][p] ELSE file[p]

(* What the path becomes.  A file that is not in the tree and exists is    *)
(* taken for one the turn has created, and removed.                        *)
Restored(c, p, answered) ==
  CASE TreeHasPath(call[c].turn, p, answered) -> before[call[c].turn][p]
    [] call[c].exists /\ ~TreeHasPath(call[c].turn, p, answered) -> Absent
    [] OTHER -> file[p]

(* It is written, or reading the tree or the write fails. *)
WritePath(c, p) ==
  /\ call[c].stage = "writing"
  /\ call[c].path = {p}
  /\ LET next == [call[c] EXCEPT !.stage = "checking", !.path = {}]
     IN  \/ \E answered \in BOOLEAN :
              /\ file' = [file EXCEPT ![p] = Restored(c, p, answered)]
              /\ call' = [call EXCEPT ![c] = [next EXCEPT !.reverted = @ \cup {p}]]
              /\ byHand' = IF file' = file THEN byHand
                           ELSE [u \in Turns |-> byHand[u] \ {p}]
              /\ quiet' = IF answered THEN quiet \cap {call[c].turn} ELSE {}
         \/ /\ call' = [call EXCEPT ![c] = [next EXCEPT !.skipped = @ \cup {p}]]
            /\ UNCHANGED <<file, byHand, quiet>>
  /\ UNCHANGED <<phase, treeVars, used>>

RevertReturns(c) ==
  /\ call[c].stage = "checking"
  /\ call[c].todo = {}
  /\ call' = [call EXCEPT ![c].stage = "done"]
  /\ UNCHANGED <<file, phase, treeVars, historyVars>>
-----------------------------------------------------------------------------
Init ==
  /\ file \in [Files -> {Original, Absent}]
  /\ phase = [t \in Turns |-> "none"]
  /\ available = {}
  /\ before = [t \in Turns |-> file] /\ after = [t \in Turns |-> file]
  /\ changed = [t \in Turns |-> {}]
  /\ blob = [t \in Turns |-> [p \in Files |-> NoBlob]]
  /\ call = [c \in Calls |-> NoCall]
  /\ used = {}
  /\ byHand = [t \in Turns |-> {}]
  /\ quiet = {}

Next ==
  \/ \E t \in Turns : BeginTurn(t) \/ EndTurn(t)
  \/ \E t \in Turns : CaptureAfter(t) \/ Compare(t) \/ NoComparison(t)
  \/ \E t \in Turns, p \in Files : AgentWrites(t, p)
  \/ \E p \in Files : UserWrites(p)
  \/ \E c \in Calls, t \in Turns : CallRevert(c, t)
  \/ \E c \in Calls, p \in Files : CheckPath(c, p) \/ WritePath(c, p)
  \/ \E c \in Calls : RevertReturns(c)
  \/ Crash

Spec == Init /\ [][Next]_vars
-----------------------------------------------------------------------------
(***************************************************************************)
(* Properties                                                              *)
(***************************************************************************)

CallType == [stage : {"none", "checking", "writing", "done", "broken"},
             turn : Turns \cup {NoTurn}, todo : SUBSET Files, path : SUBSET Files,
             exists : BOOLEAN, skipped : SUBSET Files, reverted : SUBSET Files]

(* Every variable has its type. *)
TypeOK ==
  /\ file \in [Files -> States]
  /\ phase \in [Turns -> {"none", "running", "finishing", "comparing", "over", "lost"}]
  /\ available \subseteq Turns
  /\ before \in [Turns -> [Files -> States]] /\ after \in [Turns -> [Files -> States]]
  /\ changed \in [Turns -> SUBSET Files]
  /\ blob \in [Turns -> [Files -> Contents \cup {NoBlob}]]
  /\ call \in [Calls -> CallType]
  /\ used \subseteq UserContents \cup {Absent}
  /\ byHand \in [Turns -> SUBSET Files] /\ quiet \subseteq Turns

(* Call c writes path p, or decides to. *)
Writes(c, p) ==
  call[c].stage = "writing" /\ call[c].path = {p} /\ p \in call'[c].reverted

Decides(c, p) ==
  call[c].stage = "checking" /\ call'[c].stage = "writing" /\ call'[c].path = {p}

(* PROTOCOL: a path the turn has not touched is left alone.  A revert      *)
(* writes only where the two trees of its turn differ, also when a caller  *)
(* names other paths, or the turn still runs or was lost.                  *)
RevertStaysInTurn ==
  [][\A c \in Calls, p \in Files :
       LET t == call[c].turn IN Writes(c, p) => before[t][p] # after[t][p]]_vars

(* A file the turn has left and the user has written since, however long   *)
(* ago and whatever else was reverted meanwhile, is never chosen for a     *)
(* revert.  (Files the turn deleted are not covered: HandEditsSurvive.)    *)
HandEditsAreSkipped ==
  [][\A c \in Calls, p \in Files :
       LET t == call[c].turn
       IN  Decides(c, p) /\ ~Deleted(t, p) => p \notin byHand[t]]_vars

(* The promise as PROTOCOL and the tests make it: what the user has        *)
(* written by hand after the turn is never overwritten by its revert.      *)
HandEditsSurvive ==
  [][\A c \in Calls, p \in Files :
       Writes(c, p) /\ file[p] \in UserContents => p \notin byHand[call[c].turn]]_vars

(* The promise as PROTOCOL makes it: a path that is listed as reverted is  *)
(* as it was when the turn began, written back or removed.                 *)
RevertedIsRestored ==
  [][\A c \in Calls, p \in Files :
       Writes(c, p) => file'[p] = before[call[c].turn][p]]_vars

(* If nobody but the turn has written since it began, a revert that skips  *)
(* nothing brings the whole tree back: files it changed, created, deleted. *)
(* (Git has answered: RevertedIsRestored says what it does otherwise.)     *)
RevertUndoesTurn ==
  \A c \in Calls :
    LET t == call[c].turn
    IN  /\ call[c].stage = "done" /\ phase[t] = "over" /\ t \in quiet \cap available
        /\ call[c].skipped = {} /\ call[c].reverted = changed[t]
        => file = before[t]
=============================================================================
