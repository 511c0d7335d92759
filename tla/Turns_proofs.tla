---------------------------- MODULE Turns_proofs ----------------------------
(***************************************************************************)
(* Proofs about turns: the files they change and their undoing             *)
(* (TurnRevert), for any files, turns, contents and calls; and which turns *)
(* the ledger and turns.json hold, and which paths a turn is booked        *)
(* (TurnLedger), for any turns, sessions and losses and any                *)
(* keepPerSession.                                                         *)
(***************************************************************************)
EXTENDS TurnRevert, TurnLedger, FiniteSetTheorems, TLAPS

-----------------------------------------------------------------------------
(***************************************************************************)
(* The files                                                               *)
(***************************************************************************)

(* A call under way is about a turn, and the path it is about to write is  *)
(* one the turn has changed, which the first tree has or which exists.     *)
CallsAreChecked ==
  \A c \in Calls :
    call[c].stage \in {"checking", "writing"} =>
      /\ call[c].turn \in Turns /\ call[c].path \subseteq changed[call[c].turn]
      /\ \A p \in call[c].path : call[c].exists \/ before[call[c].turn][p] # Absent

(* The paths of a turn are where its trees differ; before it is compared   *)
(* it has none, and afterwards its trees stay as they are.                 *)
ChangedDiffers ==
  \A t \in Turns :
    /\ \A p \in changed[t] : before[t][p] # after[t][p]
    /\ phase[t] \in {"none", "running", "finishing", "comparing"} => changed[t] = {}

RevertInv == TypeOK /\ CallsAreChecked /\ ChangedDiffers
-----------------------------------------------------------------------------
(* Nothing has been changed or called in the beginning. *)
LEMMA RevertInitial == Init => RevertInv
<1> SUFFICES ASSUME Init
             PROVE  RevertInv
  OBVIOUS
<1>1. file \in [Files -> States]
  BY DEF Init, States, Contents
<1>2. NoCall \in CallType
  BY DEF NoCall, CallType
<1>3. TypeOK
  BY <1>1, <1>2 DEF Init, TypeOK
<1>4. CallsAreChecked /\ ChangedDiffers
  BY DEF Init, CallsAreChecked, ChangedDiffers, NoCall
<1> QED
  BY <1>3, <1>4 DEF RevertInv

(* Every variable keeps its type: the steps of a turn, ... *)
LEMMA TurnStepType ==
  ASSUME TypeOK, NEW t \in Turns,
         BeginTurn(t) \/ EndTurn(t) \/ CaptureAfter(t) \/ Compare(t) \/ NoComparison(t)
  PROVE  TypeOK'
<1> USE DEF TypeOK
<1>1. CASE BeginTurn(t)
  BY <1>1 DEF BeginTurn
<1>2. CASE EndTurn(t)
  BY <1>2 DEF EndTurn, treeVars, historyVars
<1>3. CASE CaptureAfter(t)
  BY <1>3 DEF CaptureAfter, historyVars
<1>4. CASE Compare(t)
  <2> DEFINE paths == {p \in Files : before[t][p] # after[t][p]}
             blobs == [p \in Files |-> IF p \in paths /\ ~Deleted(t, p)
                                       THEN AfterBlob(p) ELSE NoBlob]
  <2>1. blobs \in [Files -> Contents \cup {NoBlob}]
    <3> SUFFICES ASSUME NEW p \in Files
                 PROVE  AfterBlob(p) \in Contents \cup {NoBlob}
      OBVIOUS
    <3> QED
      BY DEF AfterBlob, States
  <2>2. changed' = [changed EXCEPT ![t] = paths] /\ blob' = [blob EXCEPT ![t] = blobs]
    BY <1>4 DEF Compare
  <2>3. changed' \in [Turns -> SUBSET Files] /\ blob' \in [Turns -> [Files -> Contents \cup {NoBlob}]]
    <3> HIDE DEF blobs
    <3> QED
      BY <2>1, <2>2
  <2> QED
    BY <1>4, <2>3 DEF Compare, historyVars
<1>5. CASE NoComparison(t)
  BY <1>5 DEF NoComparison, historyVars
<1> QED
  BY <1>1, <1>2, <1>3, <1>4, <1>5

(* ... what others write, and the crash of the core, ... *)
LEMMA OutsideStepType ==
  ASSUME TypeOK,
         \/ \E t \in Turns, p \in Files : AgentWrites(t, p)
         \/ \E p \in Files : UserWrites(p)
         \/ Crash
  PROVE  TypeOK'
<1> USE DEF TypeOK
<1>1. ASSUME NEW t \in Turns, NEW p \in Files, AgentWrites(t, p)
      PROVE  TypeOK'
  <2>1. \A content \in {t, Absent} : content \in States
    BY DEF States, Contents
  <2>2. file' \in [Files -> States]
    BY <1>1, <2>1 DEF AgentWrites
  <2> QED
    BY <1>1, <2>2 DEF AgentWrites, treeVars
<1>2. ASSUME NEW p \in Files, UserWrites(p)
      PROVE  TypeOK'
  <2>1. PICK content \in UserContents \cup {Absent} :
          file' = [file EXCEPT ![p] = content] /\ used' = used \cup {content}
    BY <1>2 DEF UserWrites
  <2>2. content \in States
    BY DEF States, Contents
  <2>3. byHand' \in [Turns -> SUBSET Files]
    BY <1>2 DEF UserWrites
  <2> QED
    BY <1>2, <2>1, <2>2, <2>3 DEF UserWrites, treeVars
<1>3. CASE Crash
  <2>1. call' \in [Calls -> CallType]
    <3>1. \A c \in Calls : [call[c] EXCEPT !.stage = "broken"] \in CallType
      BY DEF CallType
    <3> QED
      BY <1>3, <3>1 DEF Crash
  <2>2. phase' \in [Turns -> {"none", "running", "finishing", "comparing", "over", "lost"}]
    BY <1>3 DEF Crash
  <2> QED
    BY <1>3, <2>1, <2>2 DEF Crash, treeVars, historyVars
<1> QED
  BY <1>1, <1>2, <1>3

(* ... and the steps of session/revert. *)
LEMMA CallStepType ==
  ASSUME TypeOK, CallsAreChecked, NEW c \in Calls,
         \/ \E t \in Turns : CallRevert(c, t)
         \/ \E p \in Files : CheckPath(c, p) \/ WritePath(c, p)
         \/ RevertReturns(c)
  PROVE  TypeOK'
<1>1. call[c] \in CallType
  BY DEF TypeOK
<1>2. ASSUME NEW t \in Turns, CallRevert(c, t)
      PROVE  TypeOK'
  <2>1. PICK wanted \in SUBSET Files :
          call' = [call EXCEPT ![c] = [NoCall EXCEPT !.stage = "checking", !.turn = t,
                                                     !.todo = wanted]]
    BY <1>2 DEF CallRevert, TypeOK
  <2>2. [NoCall EXCEPT !.stage = "checking", !.turn = t, !.todo = wanted] \in CallType
    BY DEF NoCall, CallType
  <2> QED
    BY <1>2, <2>1, <2>2 DEF CallRevert, TypeOK, treeVars, historyVars
<1>3. ASSUME NEW p \in Files, CheckPath(c, p)
      PROVE  TypeOK'
  <2> DEFINE rest == [call[c] EXCEPT !.todo = @ \ {p}]
  <2>1. rest \in CallType
    BY <1>1 DEF CallType
  <2>2. /\ [rest EXCEPT !.stage = "writing", !.path = {p}, !.exists = file[p] # Absent]
             \in CallType
        /\ [rest EXCEPT !.skipped = @ \cup {p}] \in CallType
    BY <2>1 DEF CallType
  <2>3. call' \in [Calls -> CallType]
    BY <1>3, <2>2 DEF CheckPath, TypeOK
  <2> QED
    BY <1>3, <2>3 DEF CheckPath, TypeOK, treeVars, historyVars
<1>4. ASSUME NEW p \in Files, WritePath(c, p)
      PROVE  TypeOK'
  <2> DEFINE next == [call[c] EXCEPT !.stage = "checking", !.path = {}]
  <2>1. next \in CallType
    BY <1>1 DEF CallType
  <2>2. /\ [next EXCEPT !.reverted = @ \cup {p}] \in CallType
        /\ [next EXCEPT !.skipped = @ \cup {p}] \in CallType
    BY <2>1 DEF CallType
  <2>3. call' \in [Calls -> CallType]
    BY <1>4, <2>2 DEF WritePath, TypeOK
  <2>4. call[c].turn \in Turns
    BY <1>4 DEF WritePath, CallsAreChecked
  <2>5. file' \in [Files -> States]
    <3>1. \A answered \in BOOLEAN : Restored(c, p, answered) \in States
      BY <2>4 DEF Restored, TypeOK, States
    <3>2. \/ \E answered \in BOOLEAN :
                file' = [file EXCEPT ![p] = Restored(c, p, answered)]
          \/ file' = file
      BY <1>4 DEF WritePath
    <3> QED
      BY <3>1, <3>2 DEF TypeOK
  <2>6. byHand' \in [Turns -> SUBSET Files] /\ quiet' \subseteq Turns
    <3>1. \/ byHand' = byHand
          \/ byHand' = [u \in Turns |-> byHand[u] \ {p}]
      BY <1>4 DEF WritePath
    <3>2. quiet' \subseteq quiet
      BY <1>4 DEF WritePath
    <3> QED
      BY <3>1, <3>2 DEF TypeOK
  <2> QED
    BY <1>4, <2>3, <2>5, <2>6 DEF WritePath, TypeOK, treeVars
<1>5. CASE RevertReturns(c)
  BY <1>1, <1>5 DEF RevertReturns, TypeOK, CallType, treeVars, historyVars
<1> QED
  BY <1>2, <1>3, <1>4, <1>5
-----------------------------------------------------------------------------
(* A path that passes exists, or the first tree has it: a file the turn    *)
(* has not deleted must be there to be as the turn left it.                *)
LEMMA PassedExists ==
  ASSUME TypeOK, ChangedDiffers, NEW t \in Turns, NEW p \in Files, Passes(t, p)
  PROVE  file[p] # Absent \/ before[t][p] # Absent
<1>1. before[t][p] # after[t][p]
  BY DEF Passes, ChangedDiffers
<1>2. CASE Deleted(t, p)
  BY <1>1, <1>2 DEF Deleted
<1>3. CASE blob[t][p] = file[p]
  <2>1. Absent \notin Contents \cup {NoBlob}
    BY TurnRevertConstants DEF Contents
  <2>2. blob[t][p] \in Contents \cup {NoBlob}
    BY DEF TypeOK
  <2> QED
    BY <1>3, <2>1, <2>2
<1> QED
  BY <1>2, <1>3 DEF Passes

(* The trees and the paths of a turn are only written before it is over,   *)
(* and a call only chooses paths of its turn.                              *)
LEMMA StepKeepsPaths == RevertInv /\ [Next]_vars => (CallsAreChecked /\ ChangedDiffers)'
<1> SUFFICES ASSUME RevertInv, [Next]_vars
             PROVE  (CallsAreChecked /\ ChangedDiffers)'
  OBVIOUS
<1> USE DEF RevertInv
<1>1. ASSUME UNCHANGED <<call, before, after, changed>>,
             \A t \in Turns : \/ phase'[t] \notin {"none", "running", "finishing", "comparing"}
                             \/ phase[t] \in {"none", "running", "finishing", "comparing"}
      PROVE  (CallsAreChecked /\ ChangedDiffers)'
  BY <1>1 DEF CallsAreChecked, ChangedDiffers
<1>2. ASSUME UNCHANGED <<phase, before, after, changed>>, CallsAreChecked'
      PROVE  (CallsAreChecked /\ ChangedDiffers)'
  BY <1>2 DEF ChangedDiffers
<1>3. ASSUME NEW t \in Turns,
             BeginTurn(t) \/ EndTurn(t) \/ CaptureAfter(t) \/ NoComparison(t)
      PROVE  (CallsAreChecked /\ ChangedDiffers)'
  <2>1. UNCHANGED <<call, changed>>
    BY <1>3 DEF BeginTurn, EndTurn, CaptureAfter, NoComparison, treeVars
  <2>2. /\ phase[t] \in {"none", "running", "finishing", "comparing"}
        /\ changed[t] = {}
    BY <1>3 DEF BeginTurn, EndTurn, CaptureAfter, NoComparison, ChangedDiffers
  <2>3. \A u \in Turns \ {t} :
          phase'[u] = phase[u] /\ before'[u] = before[u] /\ after'[u] = after[u]
    BY <1>3 DEF BeginTurn, EndTurn, CaptureAfter, NoComparison, treeVars, TypeOK
  <2> QED
    BY <2>1, <2>2, <2>3 DEF CallsAreChecked, ChangedDiffers
<1>4. ASSUME NEW t \in Turns, Compare(t)
      PROVE  (CallsAreChecked /\ ChangedDiffers)'
  <2>1. UNCHANGED <<call, before, after>> /\ changed[t] = {} /\ phase'[t] = "over"
    BY <1>4 DEF Compare, ChangedDiffers, TypeOK
  <2>2. changed'[t] = {p \in Files : before[t][p] # after[t][p]}
    BY <1>4 DEF Compare, TypeOK
  <2>3. \A u \in Turns \ {t} : phase'[u] = phase[u] /\ changed'[u] = changed[u]
    BY <1>4 DEF Compare, TypeOK
  <2> QED
    BY <2>1, <2>2, <2>3 DEF CallsAreChecked, ChangedDiffers
<1>5. ASSUME NEW t \in Turns, NEW p \in Files, AgentWrites(t, p)
      PROVE  (CallsAreChecked /\ ChangedDiffers)'
  BY <1>1, <1>5 DEF AgentWrites, treeVars
<1>6. ASSUME NEW p \in Files, UserWrites(p)
      PROVE  (CallsAreChecked /\ ChangedDiffers)'
  BY <1>1, <1>6 DEF UserWrites, treeVars
<1>7. CASE Crash
  <2>1. UNCHANGED <<before, after, changed>>
    BY <1>7 DEF Crash, treeVars
  <2>2. \A c \in Calls : call'[c] = call[c] \/ call'[c].stage = "broken"
    BY <1>7 DEF Crash, TypeOK, CallType
  <2>3. CallsAreChecked'
    BY <2>1, <2>2 DEF CallsAreChecked
  <2>4. ChangedDiffers'
    BY <1>7, <2>1 DEF Crash, ChangedDiffers
  <2> QED
    BY <2>3, <2>4
<1>8. ASSUME NEW c \in Calls,
             \/ \E t \in Turns : CallRevert(c, t)
             \/ \E p \in Files : CheckPath(c, p) \/ WritePath(c, p)
             \/ RevertReturns(c)
      PROVE  (CallsAreChecked /\ ChangedDiffers)'
  <2>1. UNCHANGED <<phase, before, after, changed>>
    BY <1>8 DEF CallRevert, CheckPath, WritePath, RevertReturns, treeVars
  <2>2. \A d \in Calls \ {c} : call'[d] = call[d]
    BY <1>8 DEF CallRevert, CheckPath, WritePath, RevertReturns, TypeOK
  <2>3. call'[c].stage \in {"checking", "writing"} =>
          /\ call'[c].turn \in Turns /\ call'[c].path \subseteq changed[call'[c].turn]
          /\ \A q \in call'[c].path : call'[c].exists \/ before[call'[c].turn][q] # Absent
    <3>1. ASSUME NEW t \in Turns, CallRevert(c, t)
          PROVE  call'[c].turn \in Turns /\ call'[c].path = {}
      BY <3>1 DEF CallRevert, NoCall, TypeOK
    <3>2. ASSUME NEW p \in Files, CheckPath(c, p)
          PROVE  /\ call'[c].turn = call[c].turn
                 /\ call'[c].path \subseteq changed[call[c].turn]
                 /\ \A q \in call'[c].path :
                      call'[c].exists \/ before[call[c].turn][q] # Absent
      <4> DEFINE rest == [call[c] EXCEPT !.todo = @ \ {p}]
      <4>1. /\ call[c] \in CallType /\ call \in [Calls -> CallType]
            /\ call[c].stage = "checking" /\ call[c].turn \in Turns
            /\ call[c].path \subseteq changed[call[c].turn]
            /\ \A q \in call[c].path : call[c].exists \/ before[call[c].turn][q] # Absent
        BY <3>2 DEF CheckPath, CallsAreChecked, TypeOK
      <4>2. /\ rest \in CallType /\ rest.turn = call[c].turn
            /\ rest.path = call[c].path /\ rest.exists = call[c].exists
        BY <4>1 DEF CallType
      <4>3. CASE Passes(call[c].turn, p)
        <5>1. call'[c] = [rest EXCEPT !.stage = "writing", !.path = {p},
                                      !.exists = file[p] # Absent]
          BY <3>2, <4>1, <4>3 DEF CheckPath
        <5>2. /\ call'[c].turn = call[c].turn /\ call'[c].path = {p}
              /\ call'[c].exists = (file[p] # Absent)
          BY <4>2, <5>1 DEF CallType
        <5>3. file[p] # Absent \/ before[call[c].turn][p] # Absent
          BY <4>1, <4>3, PassedExists DEF ChangedDiffers
        <5>4. p \in changed[call[c].turn]
          BY <4>3 DEF Passes
        <5> QED
          BY <5>2, <5>3, <5>4
      <4>4. CASE ~Passes(call[c].turn, p)
        <5>1. call'[c] = [rest EXCEPT !.skipped = @ \cup {p}]
          BY <3>2, <4>1, <4>4 DEF CheckPath
        <5>2. /\ call'[c].turn = call[c].turn /\ call'[c].path = call[c].path
              /\ call'[c].exists = call[c].exists
          BY <4>2, <5>1 DEF CallType
        <5> QED
          BY <4>1, <5>2
      <4> QED
        BY <4>3, <4>4
    <3>3. ASSUME NEW p \in Files, WritePath(c, p)
          PROVE  call'[c].turn = call[c].turn /\ call'[c].path = {}
      <4> DEFINE next == [call[c] EXCEPT !.stage = "checking", !.path = {}]
      <4>1. \/ call' = [call EXCEPT ![c] = [next EXCEPT !.reverted = @ \cup {p}]]
            \/ call' = [call EXCEPT ![c] = [next EXCEPT !.skipped = @ \cup {p}]]
        BY <3>3 DEF WritePath
      <4>2. call[c] \in CallType /\ call \in [Calls -> CallType]
        BY DEF TypeOK
      <4>3. next \in CallType /\ next.turn = call[c].turn /\ next.path = {}
        BY <4>2 DEF CallType
      <4>4. \/ call'[c] = [next EXCEPT !.reverted = @ \cup {p}]
            \/ call'[c] = [next EXCEPT !.skipped = @ \cup {p}]
        <5> HIDE DEF next
        <5> QED
          BY <4>1, <4>2
      <4> HIDE DEF next
      <4> QED
        BY <4>3, <4>4 DEF CallType
    <3>4. CASE RevertReturns(c)
      BY <3>4 DEF RevertReturns, TypeOK, CallType
    <3>5. call[c].stage \in {"checking", "writing"} => call[c].turn \in Turns
      BY DEF CallsAreChecked
    <3>6. ASSUME NEW p \in Files, CheckPath(c, p) \/ WritePath(c, p)
          PROVE  call[c].turn \in Turns
      BY <3>5, <3>6 DEF CheckPath, WritePath
    <3> QED
      BY <1>8, <3>1, <3>2, <3>3, <3>4, <3>6
  <2>4. CallsAreChecked'
    BY <2>1, <2>2, <2>3 DEF CallsAreChecked
  <2> QED
    BY <1>2, <2>1, <2>4
<1>9. CASE UNCHANGED vars
  BY <1>1, <1>9 DEF vars, treeVars
<1> QED
  BY <1>3, <1>4, <1>5, <1>6, <1>7, <1>8, <1>9 DEF Next

(* Every variable keeps its type. *)
LEMMA StepKeepsType == RevertInv /\ [Next]_vars => TypeOK'
<1> SUFFICES ASSUME RevertInv, [Next]_vars
             PROVE  TypeOK'
  OBVIOUS
<1>1. CASE UNCHANGED vars
  BY <1>1 DEF vars, treeVars, historyVars, RevertInv, TypeOK
<1>2. CASE Next
  BY <1>2, TurnStepType, OutsideStepType, CallStepType DEF Next, RevertInv
<1> QED
  BY <1>1, <1>2

(* The two together are an invariant. *)
LEMMA RevertInvHolds == Spec => []RevertInv
<1>1. RevertInv /\ [Next]_vars => RevertInv'
  BY StepKeepsPaths, StepKeepsType DEF RevertInv
<1> QED
  BY RevertInitial, <1>1, PTL DEF Spec
-----------------------------------------------------------------------------
(* Every variable of the model has its type, for any number of files,      *)
(* turns and reverts.                                                      *)
THEOREM RevertTypeCorrect == Spec => []TypeOK
<1>1. RevertInv => TypeOK
  BY DEF RevertInv
<1> QED
  BY <1>1, RevertInvHolds, PTL

(* A revert never writes a path on which the trees around its turn agree,  *)
(* whatever the agents, the user and other reverts do meanwhile, and       *)
(* whichever paths its caller names.                                       *)
THEOREM RevertStaysInTurnHolds == Spec => RevertStaysInTurn
<1>1. RevertInv /\ [Next]_vars =>
        [\A c \in Calls, p \in Files :
           LET t == call[c].turn IN Writes(c, p) => before[t][p] # after[t][p]]_vars
  <2> SUFFICES ASSUME RevertInv, NEW c \in Calls, NEW p \in Files, Writes(c, p)
               PROVE  before[call[c].turn][p] # after[call[c].turn][p]
    OBVIOUS
  <2>1. call[c].turn \in Turns /\ p \in changed[call[c].turn]
    BY DEF Writes, RevertInv, CallsAreChecked
  <2> QED
    BY <2>1 DEF RevertInv, ChangedDiffers
<1> QED
  BY <1>1, RevertInvHolds, PTL DEF Spec, RevertStaysInTurn
-----------------------------------------------------------------------------
(* What the user writes is new, and so is told apart from what a turn has  *)
(* left: everything the core has read was there before.                    *)
KnownContents == Turns \cup {Original, Absent} \cup used

ContentsAreKnown ==
  \A p \in Files :
    /\ file[p] \in KnownContents
    /\ \A t \in Turns : before[t][p] \in KnownContents /\ blob[t][p] \in KnownContents \cup {NoBlob}

(* A file the user has written last does not look as a turn has left it. *)
HandIsVisible ==
  \A t \in Turns : \A p \in byHand[t] : phase[t] = "over" /\ file[p] # blob[t][p]

(* A call, while it runs and afterwards, has reverted paths of its turn. *)
RevertedOfTurn ==
  \A c \in Calls :
    call[c].stage # "none" =>
      call[c].turn \in Turns /\ call[c].reverted \subseteq changed[call[c].turn]

(* While nobody but a turn and its reverts writes, the files are as its    *)
(* second tree has them, and later the files it has not changed and those  *)
(* a call has reverted are as its first tree has them.                     *)
OnlyTurnWrites(t) ==
  /\ phase[t] # "none"
  /\ phase[t] = "comparing" => file = after[t]
  /\ phase[t] = "over" =>
       /\ changed[t] = {p \in Files : before[t][p] # after[t][p]}
       /\ \A p \in Files \ changed[t] : file[p] = before[t][p]
       /\ \A c \in Calls :
            call[c].stage # "none" /\ call[c].turn = t =>
              \A p \in call[c].reverted : file[p] = before[t][p]

QuietInv == \A t \in quiet \cap available : OnlyTurnWrites(t)

HistoryInv ==
  RevertInv /\ ContentsAreKnown /\ HandIsVisible /\ RevertedOfTurn /\ QuietInv

(* The invariant holds before any turn, with the contents of the beginning. *)
LEMMA HistoryInitial == Init => HistoryInv
<1> SUFFICES ASSUME Init PROVE HistoryInv
  OBVIOUS
<1>1. ContentsAreKnown
  BY DEF Init, ContentsAreKnown, KnownContents
<1>2. HandIsVisible /\ QuietInv
  BY DEF Init, HandIsVisible, QuietInv
<1>3. RevertedOfTurn
  BY DEF Init, RevertedOfTurn, NoCall
<1> QED
  BY <1>1, <1>2, <1>3, RevertInitial DEF HistoryInv

(* What the steps of a call do to it: it stays with its turn, and its      *)
(* reverted paths grow by the one it writes.                               *)
LEMMA CheckedPath ==
  ASSUME TypeOK, NEW c \in Calls, NEW p \in Files, CheckPath(c, p)
  PROVE  /\ call[c].stage # "none"
         /\ call'[c].turn = call[c].turn /\ call'[c].reverted = call[c].reverted
         /\ \A d \in Calls \ {c} : call'[d] = call[d]
  BY DEF CheckPath, TypeOK, CallType

(* What the write of p leaves of the user's last words. *)
ByHandAfter(p) ==
  \/ byHand' = [u \in Turns |-> byHand[u] \ {p}]
  \/ file' = file /\ byHand' = byHand

(* What the write of a path does: where git answers it is restored, and    *)
(* whoever else had a hand in it forgotten; where git fails it is removed  *)
(* or stays as it is; or it is skipped and everything stays.               *)
LEMMA WrittenPath ==
  ASSUME RevertInv, NEW c \in Calls, NEW p \in Files, WritePath(c, p)
  PROVE  /\ call[c].stage # "none" /\ call[c].turn \in Turns /\ p \in changed[call[c].turn]
         /\ call'[c].turn = call[c].turn
         /\ \A d \in Calls \ {c} : call'[d] = call[d]
         /\ \/ /\ file' = [file EXCEPT ![p] = before[call[c].turn][p]]
               /\ call'[c].reverted = call[c].reverted \cup {p}
               /\ ByHandAfter(p)
               /\ quiet' = quiet \cap {call[c].turn}
            \/ /\ file' = [file EXCEPT ![p] = Absent] \/ file' = file
               /\ call'[c].reverted = call[c].reverted \cup {p}
               /\ ByHandAfter(p)
               /\ quiet' = {}
            \/ /\ call'[c].reverted = call[c].reverted
               /\ UNCHANGED <<file, byHand, quiet>>
<1> DEFINE next == [call[c] EXCEPT !.stage = "checking", !.path = {}]
<1>1. call[c] \in CallType /\ call \in [Calls -> CallType]
  BY DEF RevertInv, TypeOK
<1>2. /\ next \in CallType /\ next.turn = call[c].turn
      /\ next.reverted = call[c].reverted
  BY <1>1 DEF CallType
<1>write. call[c].stage = "writing" /\ call[c].path = {p} /\ call[c].turn \in Turns
  BY DEF WritePath, RevertInv, CallsAreChecked
<1>known. Restored(c, p, TRUE) = before[call[c].turn][p]
  <2>1. call[c].exists \/ before[call[c].turn][p] # Absent
    BY <1>write DEF RevertInv, CallsAreChecked
  <2> QED
    BY <2>1 DEF Restored, TreeHasPath
<1>unknown. Restored(c, p, FALSE) \in {Absent, file[p]}
  BY DEF Restored, TreeHasPath
<1>same. [file EXCEPT ![p] = file[p]] = file
  BY DEF RevertInv, TypeOK
<1>3. \/ /\ file' = [file EXCEPT ![p] = before[call[c].turn][p]]
         /\ call' = [call EXCEPT ![c] = [next EXCEPT !.reverted = @ \cup {p}]]
         /\ ByHandAfter(p)
         /\ quiet' = quiet \cap {call[c].turn}
      \/ /\ file' = [file EXCEPT ![p] = Absent] \/ file' = file
         /\ call' = [call EXCEPT ![c] = [next EXCEPT !.reverted = @ \cup {p}]]
         /\ ByHandAfter(p)
         /\ quiet' = {}
      \/ /\ call' = [call EXCEPT ![c] = [next EXCEPT !.skipped = @ \cup {p}]]
         /\ UNCHANGED <<file, byHand, quiet>>
  <2>1. CASE UNCHANGED <<file, byHand, quiet>> /\
             call' = [call EXCEPT ![c] = [next EXCEPT !.skipped = @ \cup {p}]]
    BY <2>1
  <2>2. ASSUME NEW answered \in BOOLEAN,
               file' = [file EXCEPT ![p] = Restored(c, p, answered)],
               call' = [call EXCEPT ![c] = [next EXCEPT !.reverted = @ \cup {p}]],
               byHand' = IF file' = file THEN byHand ELSE [u \in Turns |-> byHand[u] \ {p}],
               quiet' = IF answered THEN quiet \cap {call[c].turn} ELSE {}
        PROVE  <1>3!:
    <3>1. ByHandAfter(p)
      BY <2>2 DEF ByHandAfter
    <3>2. CASE answered
      <4>1. file' = [file EXCEPT ![p] = before[call[c].turn][p]]
        BY <1>known, <2>2, <3>2
      <4> QED
        BY <2>2, <3>1, <3>2, <4>1
    <3>3. CASE ~answered
      <4>1. file' = [file EXCEPT ![p] = Absent] \/ file' = file
        BY <1>unknown, <1>same, <2>2, <3>3
      <4> QED
        BY <2>2, <3>1, <3>3, <4>1
    <3> QED
      BY <3>2, <3>3
  <2> QED
    BY <2>1, <2>2 DEF WritePath
<1> HIDE DEF next
<1>4. [next EXCEPT !.reverted = @ \cup {p}].reverted = call[c].reverted \cup {p}
  BY <1>2 DEF CallType
<1>5. [next EXCEPT !.skipped = @ \cup {p}].reverted = call[c].reverted
  BY <1>2 DEF CallType
<1>6. /\ [next EXCEPT !.reverted = @ \cup {p}].turn = call[c].turn
      /\ [next EXCEPT !.skipped = @ \cup {p}].turn = call[c].turn
  BY <1>2 DEF CallType
<1>7. /\ call[c].turn \in Turns /\ p \in changed[call[c].turn]
      /\ \A d \in Calls \ {c} : call'[d] = call[d]
  BY <1>1, <1>write, <1>3 DEF RevertInv, CallsAreChecked
<1>8. \/ call'[c] = [next EXCEPT !.reverted = @ \cup {p}]
      \/ call'[c] = [next EXCEPT !.skipped = @ \cup {p}]
  BY <1>1, <1>3
<1> QED
  BY <1>1, <1>write, <1>3, <1>4, <1>5, <1>6, <1>7, <1>8

(* What the comparison does: the paths of the turn are where its trees     *)
(* differ, and a hash it records is of the file as it is now.              *)
LEMMA ComparedTurn ==
  ASSUME TypeOK, NEW t \in Turns, Compare(t)
  PROVE  /\ phase[t] = "comparing" /\ phase'[t] = "over"
         /\ changed'[t] = {p \in Files : before[t][p] # after[t][p]}
         /\ \A p \in Files : blob'[t][p] \in {file[p], NoBlob}
         /\ \A u \in Turns \ {t} : UNCHANGED <<blob[u], phase[u], changed[u]>>
         /\ UNCHANGED <<file, available, before, after, call, used, byHand, quiet>>
<1> DEFINE paths == {p \in Files : before[t][p] # after[t][p]}
           blobs == [p \in Files |-> IF p \in paths /\ ~Deleted(t, p)
                                     THEN AfterBlob(p) ELSE NoBlob]
<1>1. /\ changed' = [changed EXCEPT ![t] = paths] /\ blob' = [blob EXCEPT ![t] = blobs]
      /\ phase[t] = "comparing" /\ phase' = [phase EXCEPT ![t] = "over"]
      /\ UNCHANGED <<file, available, before, after, call, used, byHand, quiet>>
  BY DEF Compare, historyVars
<1>2. \A p \in Files : blobs[p] \in {file[p], NoBlob}
  BY DEF AfterBlob
<1> HIDE DEF blobs, paths
<1>3. /\ phase'[t] = "over" /\ changed'[t] = paths /\ blob'[t] = blobs
      /\ \A u \in Turns \ {t} : UNCHANGED <<blob[u], phase[u], changed[u]>>
  BY <1>1 DEF TypeOK
<1> QED
  BY <1>1, <1>2, <1>3 DEF paths

(* What the user writes is new to the core. *)
LEMMA NewByHand ==
  ASSUME TypeOK, ContentsAreKnown, NEW p \in Files, UserWrites(p), NEW t \in Turns
  PROVE  file'[p] # blob[t][p]
<1>1. PICK content \in (UserContents \cup {Absent}) \ used : file' = [file EXCEPT ![p] = content]
  BY DEF UserWrites
<1>2. file'[p] = content
  BY <1>1 DEF TypeOK
<1>3. blob[t][p] \in Contents \cup {NoBlob} /\ blob[t][p] \in KnownContents \cup {NoBlob}
  BY DEF TypeOK, ContentsAreKnown
<1> QED
  BY <1>1, <1>2, <1>3, TurnRevertConstants DEF Contents, KnownContents

(* Contents the core and the agents know are never made up. *)
LEMMA ContentsInductive ==
  ASSUME RevertInv, ContentsAreKnown, [Next]_vars PROVE ContentsAreKnown'
<1> USE DEF ContentsAreKnown, KnownContents
<1>type. TypeOK
  BY DEF RevertInv
<1>1. ASSUME NEW t \in Turns, BeginTurn(t) PROVE ContentsAreKnown'
  BY <1>1, <1>type DEF BeginTurn, TypeOK
<1>2. ASSUME NEW t \in Turns, Compare(t) PROVE ContentsAreKnown'
  BY <1>2, <1>type, ComparedTurn
<1>3. ASSUME NEW t \in Turns, NEW p \in Files, AgentWrites(t, p) PROVE ContentsAreKnown'
  BY <1>3, <1>type DEF AgentWrites, TypeOK, treeVars
<1>4. ASSUME NEW p \in Files, UserWrites(p) PROVE ContentsAreKnown'
  BY <1>4, <1>type DEF UserWrites, TypeOK, treeVars
<1>5. ASSUME NEW c \in Calls, NEW p \in Files, WritePath(c, p) PROVE ContentsAreKnown'
  <2>1. /\ call[c].turn \in Turns
        /\ \/ file' = [file EXCEPT ![p] = before[call[c].turn][p]]
           \/ file' = [file EXCEPT ![p] = Absent]
           \/ file' = file
        /\ UNCHANGED <<before, blob, used>>
    BY <1>5, WrittenPath DEF WritePath, treeVars
  <2> QED
    BY <1>type, <2>1 DEF TypeOK
<1>6. ASSUME UNCHANGED <<file, before, blob, used>> PROVE ContentsAreKnown'
  BY <1>6
<1> QED
  BY <1>1, <1>2, <1>3, <1>4, <1>5, <1>6 DEF Next, EndTurn, CaptureAfter, NoComparison,
     CallRevert, CheckPath, RevertReturns, Crash, vars, treeVars, historyVars

(* The user's last word on a file stays visible until somebody else writes *)
(* the file: a turn that is over is not compared again.                    *)
LEMMA HandInductive ==
  ASSUME RevertInv, ContentsAreKnown, HandIsVisible, [Next]_vars PROVE HandIsVisible'
<1> USE DEF HandIsVisible
<1>type. TypeOK
  BY DEF RevertInv
<1>1. ASSUME UNCHANGED <<file, blob, byHand>>, \A t \in Turns : phase[t] = "over" => phase'[t] = "over"
      PROVE  HandIsVisible'
  BY <1>1
<1>2. ASSUME NEW t \in Turns, BeginTurn(t) \/ EndTurn(t) \/ CaptureAfter(t) \/ NoComparison(t)
      PROVE  HandIsVisible'
  BY <1>1, <1>2, <1>type DEF BeginTurn, EndTurn, CaptureAfter, NoComparison, TypeOK, treeVars,
     historyVars
<1>3. ASSUME NEW t \in Turns, Compare(t) PROVE HandIsVisible'
  BY <1>3, <1>type, ComparedTurn
<1>4. ASSUME NEW t \in Turns, NEW p \in Files, AgentWrites(t, p) PROVE HandIsVisible'
  BY <1>4, <1>type DEF AgentWrites, TypeOK, treeVars
<1>5. ASSUME NEW p \in Files, UserWrites(p) PROVE HandIsVisible'
  <2>1. /\ \A q \in Files \ {p} : file'[q] = file[q]
        /\ UNCHANGED <<phase, blob>>
    BY <1>5, <1>type DEF UserWrites, TypeOK, treeVars
  <2>2. \A t \in Turns : byHand'[t] = IF phase[t] = "over" THEN byHand[t] \cup {p}
                                      ELSE byHand[t]
    BY <1>5 DEF UserWrites
  <2>3. ASSUME NEW t \in Turns, NEW q \in byHand'[t]
        PROVE  phase[t] = "over" /\ file'[q] # blob[t][q]
    <3>1. CASE q = p
      BY <1>5, <1>type, <2>2, <3>1, NewByHand
    <3>2. CASE q # p
      BY <1>type, <2>1, <2>2, <3>2 DEF TypeOK
    <3> QED
      BY <3>1, <3>2
  <2> QED
    BY <2>1, <2>3
<1>6. ASSUME NEW c \in Calls, NEW p \in Files, WritePath(c, p) PROVE HandIsVisible'
  <2>1. UNCHANGED <<phase, blob>>
    BY <1>6 DEF WritePath, treeVars
  <2>2. \/ UNCHANGED <<file, byHand>>
        \/ /\ \A q \in Files \ {p} : file'[q] = file[q]
           /\ byHand' = [u \in Turns |-> byHand[u] \ {p}]
    BY <1>6, <1>type, WrittenPath DEF TypeOK, ByHandAfter
  <2> QED
    BY <1>type, <2>1, <2>2 DEF TypeOK
<1>7. CASE Crash
  BY <1>1, <1>7, <1>type DEF Crash, TypeOK, treeVars, historyVars
<1>8. ASSUME UNCHANGED <<file, phase, blob, byHand>> PROVE HandIsVisible'
  BY <1>1, <1>8
<1> QED
  BY <1>2, <1>3, <1>4, <1>5, <1>6, <1>7, <1>8 DEF Next, CallRevert, CheckPath, RevertReturns,
     vars, treeVars, historyVars

(* A call stays with its turn, and what it has reverted the turn has       *)
(* changed: the paths of a turn are settled once.                          *)
LEMMA RevertedInductive ==
  ASSUME RevertInv, RevertedOfTurn, [Next]_vars PROVE RevertedOfTurn'
<1> USE DEF RevertedOfTurn
<1>type. TypeOK
  BY DEF RevertInv
<1>1. ASSUME UNCHANGED <<call, changed>> PROVE RevertedOfTurn'
  BY <1>1
<1>2. ASSUME NEW t \in Turns, Compare(t) PROVE RevertedOfTurn'
  <2>1. changed[t] = {} /\ UNCHANGED call /\ \A u \in Turns \ {t} : changed'[u] = changed[u]
    BY <1>2, <1>type, ComparedTurn DEF RevertInv, ChangedDiffers
  <2> QED
    BY <2>1
<1>3. ASSUME NEW c \in Calls, NEW t \in Turns, CallRevert(c, t) PROVE RevertedOfTurn'
  <2>1. /\ call'[c].turn = t /\ call'[c].reverted = {} /\ UNCHANGED changed
        /\ \A d \in Calls \ {c} : call'[d] = call[d]
    BY <1>3, <1>type DEF CallRevert, NoCall, TypeOK, treeVars
  <2> QED
    BY <2>1
<1>4. ASSUME NEW c \in Calls, NEW p \in Files, CheckPath(c, p) PROVE RevertedOfTurn'
  BY <1>4, <1>type, CheckedPath DEF CheckPath, treeVars
<1>5. ASSUME NEW c \in Calls, NEW p \in Files, WritePath(c, p) PROVE RevertedOfTurn'
  <2>1. UNCHANGED changed
    BY <1>5 DEF WritePath, treeVars
  <2>2. /\ call[c].stage # "none" /\ p \in changed[call[c].turn]
        /\ call'[c].turn = call[c].turn
        /\ call'[c].reverted \subseteq call[c].reverted \cup {p}
        /\ \A d \in Calls \ {c} : call'[d] = call[d]
    BY <1>5, WrittenPath
  <2> QED
    BY <2>1, <2>2
<1>6. ASSUME NEW c \in Calls, RevertReturns(c) PROVE RevertedOfTurn'
  <2>1. /\ call[c].stage = "checking" /\ UNCHANGED changed
        /\ call'[c].turn = call[c].turn /\ call'[c].reverted = call[c].reverted
        /\ \A d \in Calls \ {c} : call'[d] = call[d]
    BY <1>6, <1>type DEF RevertReturns, TypeOK, CallType, treeVars
  <2> QED
    BY <2>1
<1>7. CASE Crash
  <2>1. UNCHANGED changed /\ \A c \in Calls : /\ call'[c].turn = call[c].turn
                                              /\ call'[c].reverted = call[c].reverted
                                              /\ call'[c].stage = "none" <=> call[c].stage = "none"
    BY <1>7, <1>type DEF Crash, TypeOK, CallType, treeVars
  <2> QED
    BY <2>1
<1> QED
  BY <1>1, <1>2, <1>3, <1>4, <1>5, <1>6, <1>7 DEF Next, BeginTurn, EndTurn, CaptureAfter,
     NoComparison, AgentWrites, UserWrites, vars, treeVars, historyVars

(* While only a turn writes: every step either is the turn's own, or makes *)
(* the turn one that is not alone any more.                                *)
LEMMA QuietInductive ==
  ASSUME RevertInv, RevertedOfTurn, QuietInv, [Next]_vars PROVE QuietInv'
<1> SUFFICES ASSUME NEW t \in Turns, t \in quiet' \cap available' PROVE OnlyTurnWrites(t)'
  BY StepKeepsType DEF QuietInv, TypeOK
<1>type. TypeOK
  BY DEF RevertInv
<1>begun. changed[t] # {} => phase[t] \in {"over", "lost"}
  BY <1>type DEF RevertInv, ChangedDiffers, TypeOK
<1>1. ASSUME t \in quiet \cap available, UNCHANGED <<file, before[t], after[t], changed[t]>>,
             phase'[t] = phase[t] \/ (phase'[t] \in {"running", "finishing", "lost"}),
             \A c \in Calls :
               call'[c].stage # "none" /\ call'[c].turn = t =>
                 \/ call'[c].reverted = {}
                 \/ /\ call[c].stage # "none" /\ call[c].turn = t
                    /\ call'[c].reverted = call[c].reverted
      PROVE  OnlyTurnWrites(t)'
  BY <1>1 DEF QuietInv, OnlyTurnWrites
<1>2. ASSUME NEW u \in Turns, BeginTurn(u) PROVE OnlyTurnWrites(t)'
  <2>1. phase'[u] = "running" /\ UNCHANGED <<file, after, changed, call>>
    BY <1>2, <1>type DEF BeginTurn, TypeOK
  <2>2. CASE u = t
    BY <2>1, <2>2 DEF OnlyTurnWrites
  <2>3. CASE u # t
    <3>1. t \in quiet \cap available /\ UNCHANGED <<before[t], phase[t]>>
      BY <1>2, <1>type, <2>3 DEF BeginTurn, TypeOK
    <3> QED
      BY <1>1, <2>1, <3>1
  <2> QED
    BY <2>2, <2>3
<1>3. ASSUME NEW u \in Turns, EndTurn(u) \/ NoComparison(u) PROVE OnlyTurnWrites(t)'
  <2>1. t \in quiet \cap available /\ UNCHANGED <<file, before, after, changed, call>>
    BY <1>3 DEF EndTurn, NoComparison, treeVars, historyVars
  <2>2. phase'[t] = phase[t] \/ phase'[t] = "finishing"
    BY <1>3, <1>type DEF EndTurn, NoComparison, TypeOK
  <2> QED
    BY <1>1, <2>1, <2>2
<1>4. ASSUME NEW u \in Turns, CaptureAfter(u) PROVE OnlyTurnWrites(t)'
  <2>1. /\ t \in quiet \cap available /\ UNCHANGED <<file, before, changed, call>>
        /\ after'[u] = file /\ phase'[u] = "comparing"
        /\ \A w \in Turns \ {u} : after'[w] = after[w] /\ phase'[w] = phase[w]
    BY <1>4, <1>type DEF CaptureAfter, historyVars, TypeOK
  <2>2. CASE u = t
    BY <2>1, <2>2 DEF OnlyTurnWrites
  <2>3. CASE u # t
    BY <1>1, <2>1, <2>3
  <2> QED
    BY <2>2, <2>3
<1>5. ASSUME NEW u \in Turns, Compare(u) PROVE OnlyTurnWrites(t)'
  <2>1. t \in quiet \cap available /\ UNCHANGED <<file, before, after, call>>
    BY <1>5, <1>type, ComparedTurn
  <2>2. CASE u = t
    <3>1. /\ file = after[t] /\ phase'[t] = "over"
          /\ changed'[t] = {p \in Files : before[t][p] # after[t][p]}
      BY <1>5, <1>type, <2>1, <2>2, ComparedTurn DEF QuietInv, OnlyTurnWrites
    <3>2. \A c \in Calls : call[c].stage # "none" /\ call[c].turn = t => call[c].reverted = {}
      BY <1>5, <2>2, <1>type, ComparedTurn DEF RevertInv, ChangedDiffers, RevertedOfTurn
    <3> QED
      BY <2>1, <3>1, <3>2 DEF OnlyTurnWrites
  <2>3. CASE u # t
    BY <1>1, <1>5, <1>type, <2>1, <2>3, ComparedTurn
  <2> QED
    BY <2>2, <2>3
<1>6. ASSUME NEW u \in Turns, NEW p \in Files, AgentWrites(u, p) PROVE OnlyTurnWrites(t)'
  <2>1. t = u /\ phase'[t] = "running"
    BY <1>6 DEF AgentWrites
  <2> QED
    BY <2>1 DEF OnlyTurnWrites
<1>7. ASSUME NEW p \in Files, UserWrites(p) PROVE OnlyTurnWrites(t)'
  BY <1>7 DEF UserWrites
<1>8. ASSUME NEW c \in Calls, NEW u \in Turns, CallRevert(c, u) PROVE OnlyTurnWrites(t)'
  <2>1. /\ t \in quiet \cap available /\ UNCHANGED <<file, before, after, changed, phase>>
        /\ call'[c].reverted = {} /\ \A d \in Calls \ {c} : call'[d] = call[d]
    BY <1>8, <1>type DEF CallRevert, NoCall, TypeOK, treeVars, historyVars
  <2> QED
    BY <1>1, <2>1
<1>9. ASSUME NEW c \in Calls, NEW p \in Files, CheckPath(c, p) PROVE OnlyTurnWrites(t)'
  <2>1. t \in quiet \cap available /\ UNCHANGED <<file, before, after, changed, phase>>
    BY <1>9 DEF CheckPath, treeVars, historyVars
  <2> QED
    BY <1>1, <1>9, <1>type, <2>1, CheckedPath
<1>10. ASSUME NEW c \in Calls, NEW p \in Files, WritePath(c, p) PROVE OnlyTurnWrites(t)'
  <2>1. UNCHANGED <<available, before, after, changed, phase>>
    BY <1>10 DEF WritePath, treeVars
  <2>2. CASE UNCHANGED <<file, quiet>> /\ call'[c].reverted = call[c].reverted
    BY <1>1, <1>10, <2>1, <2>2, WrittenPath
  <2>3. CASE /\ file' = [file EXCEPT ![p] = before[call[c].turn][p]]
             /\ call'[c].reverted = call[c].reverted \cup {p}
             /\ quiet' = quiet \cap {call[c].turn}
    <3>1. t = call[c].turn /\ t \in quiet \cap available /\ p \in changed[t]
      BY <1>10, <2>1, <2>3, WrittenPath
    <3>2. phase[t] \in {"over", "lost"} /\ OnlyTurnWrites(t)
      BY <1>begun, <3>1 DEF QuietInv
    <3>3. file'[p] = before[t][p] /\ \A q \in Files \ {p} : file'[q] = file[q]
      BY <1>type, <2>3, <3>1 DEF TypeOK
    <3>4. /\ call[c].stage # "none" /\ call[c].turn = t
          /\ \A d \in Calls \ {c} : call'[d] = call[d]
      BY <1>10, <3>1, WrittenPath
    <3>5. ASSUME NEW d \in Calls, call'[d].stage # "none" /\ call'[d].turn = t
          PROVE  /\ call[d].stage # "none" /\ call[d].turn = t
                 /\ call'[d].reverted \subseteq call[d].reverted \cup {p}
      BY <2>3, <3>4, <3>5
    <3>6. \A d \in Calls : call[d].reverted \subseteq Files
      BY <1>type DEF TypeOK, CallType
    <3> QED
      BY <2>1, <3>1, <3>2, <3>3, <3>5, <3>6 DEF OnlyTurnWrites
  <2>4. CASE quiet' = {}
    BY <2>4
  <2> QED
    BY <1>10, <2>2, <2>3, <2>4, WrittenPath
<1>11. ASSUME NEW c \in Calls, RevertReturns(c) PROVE OnlyTurnWrites(t)'
  <2>1. /\ t \in quiet \cap available /\ UNCHANGED <<file, before, after, changed, phase>>
        /\ call[c].stage = "checking"
        /\ call'[c].turn = call[c].turn /\ call'[c].reverted = call[c].reverted
        /\ \A d \in Calls \ {c} : call'[d] = call[d]
    BY <1>11, <1>type DEF RevertReturns, TypeOK, CallType, treeVars, historyVars
  <2> QED
    BY <1>1, <2>1
<1>12. CASE Crash
  <2>1. /\ t \in quiet \cap available /\ UNCHANGED <<file, before, after, changed>>
        /\ phase'[t] = phase[t] \/ phase'[t] = "lost"
        /\ \A c \in Calls : /\ call'[c].turn = call[c].turn
                            /\ call'[c].reverted = call[c].reverted
                            /\ call'[c].stage = "none" <=> call[c].stage = "none"
    BY <1>12, <1>type DEF Crash, TypeOK, CallType, treeVars, historyVars
  <2> QED
    BY <1>1, <2>1
<1>13. CASE UNCHANGED vars
  BY <1>1, <1>13 DEF vars, treeVars, historyVars
<1> QED
  BY <1>2, <1>3, <1>4, <1>5, <1>6, <1>7, <1>8, <1>9, <1>10, <1>11, <1>12, <1>13 DEF Next

(* The whole is an invariant. *)
LEMMA HistoryHolds == Spec => []HistoryInv
<1>1. HistoryInv /\ [Next]_vars => HistoryInv'
  BY StepKeepsPaths, StepKeepsType, ContentsInductive, HandInductive, RevertedInductive,
     QuietInductive DEF HistoryInv, RevertInv
<1> QED
  BY HistoryInitial, <1>1, PTL DEF Spec

(* If nobody but a turn has written since it began, and a revert of it has *)
(* reverted all it changed, the tree is as it was (snapshot.ts, finish and *)
(* revert): also when several reverts of the turn run at once, or one was  *)
(* broken off by a crash before.  It is said of reverts git has answered:  *)
(* of the others it is false (RevertedIsRestored).                         *)
THEOREM RevertUndoesTurnHolds == Spec => []RevertUndoesTurn
<1>1. HistoryInv => RevertUndoesTurn
  <2> SUFFICES ASSUME HistoryInv, NEW c \in Calls, call[c].stage = "done",
                      phase[call[c].turn] = "over", call[c].turn \in quiet \cap available,
                      call[c].reverted = changed[call[c].turn]
               PROVE  file = before[call[c].turn]
    BY DEF RevertUndoesTurn
  <2> DEFINE t == call[c].turn
  <2>1. t \in Turns /\ OnlyTurnWrites(t)
    BY DEF HistoryInv, RevertedOfTurn, QuietInv
  <2>2. \A p \in Files : file[p] = before[t][p]
    BY <2>1 DEF OnlyTurnWrites
  <2>3. file \in [Files -> States] /\ before[t] \in [Files -> States]
    BY <2>1 DEF HistoryInv, RevertInv, TypeOK
  <2> QED
    BY <2>2, <2>3
<1> QED
  BY <1>1, HistoryHolds, PTL

(* A file the user was the last to write since a turn was over is never    *)
(* chosen by a revert of that turn, unless the turn had deleted the file   *)
(* (turnSnapshot.ts, the hash line of revert).                             *)
THEOREM HandEditsAreSkippedHolds == Spec => HandEditsAreSkipped
<1>1. HistoryInv /\ [Next]_vars =>
        [\A c \in Calls, p \in Files :
           LET t == call[c].turn
           IN  Decides(c, p) /\ ~Deleted(t, p) => p \notin byHand[t]]_vars
  <2> SUFFICES ASSUME HistoryInv, [Next]_vars, NEW c \in Calls, NEW p \in Files,
                      Decides(c, p), ~Deleted(call[c].turn, p)
               PROVE  p \notin byHand[call[c].turn]
    OBVIOUS
  <2>type. TypeOK /\ call[c] \in CallType /\ call[c].turn \in Turns
    BY DEF HistoryInv, RevertInv, TypeOK, RevertedOfTurn, Decides
  <2>1. PICK q \in Files : CheckPath(c, q)
    <3>1. ASSUME NEW d \in Calls, d # c,
                 \/ \E t \in Turns : CallRevert(d, t)
                 \/ \E q \in Files : CheckPath(d, q) \/ WritePath(d, q)
                 \/ RevertReturns(d)
          PROVE  call'[c] = call[c]
      BY <2>type, <3>1 DEF CallRevert, CheckPath, WritePath, RevertReturns, TypeOK
    <3>2. call'[c] # call[c] /\ call[c].stage = "checking" /\ call'[c].stage = "writing"
      BY DEF Decides
    <3>3. ~Crash
      BY <2>type, <3>2 DEF Crash, TypeOK, CallType
    <3>4. ~RevertReturns(c)
      BY <2>type, <3>2 DEF RevertReturns, TypeOK, CallType
    <3>5. \A t \in Turns : ~CallRevert(c, t)
      BY <3>2 DEF CallRevert
    <3>6. \A q \in Files : ~WritePath(c, q)
      BY <3>2 DEF WritePath
    <3> QED
      BY <3>1, <3>2, <3>3, <3>4, <3>5, <3>6 DEF Next, BeginTurn, EndTurn, CaptureAfter,
         Compare, NoComparison, AgentWrites, UserWrites, vars
  <2>2. q = p /\ Passes(call[c].turn, p)
    BY <2>type, <2>1 DEF CheckPath, Decides, TypeOK, CallType
  <2>3. blob[call[c].turn][p] = file[p]
    BY <2>2 DEF Passes
  <2> QED
    BY <2>type, <2>3 DEF HistoryInv, HandIsVisible
<1> QED
  BY <1>1, HistoryHolds, PTL DEF Spec, HandEditsAreSkipped
-----------------------------------------------------------------------------
(***************************************************************************)
(* The ledger                                                              *)
(***************************************************************************)

(* The turns that have begun: git has answered for their start, or the     *)
(* core died before.                                                       *)
Begun == {t \in TurnIds : stage[t] \notin {"none", "opening"}}

(* Turns are numbered as they are started. *)
Started == {t \in TurnIds : startedAt[t] > 0}

StartsDiffer ==
  /\ \A t \in TurnIds : startedAt[t] <= Cardinality(Started)
  /\ \A t \in TurnIds : startedAt[t] = 0 <=> stage[t] = "none"
  /\ \A t, u \in Started : startedAt[t] = startedAt[u] => t = u

(* turns.json holds the turns of the ledger. *)
DiskIsLedger == \A t \in TurnIds : disk[t] # <<>> <=> t \in ledger

(* A turn enters the ledger when it has begun, and what has gone from it   *)
(* has made room.                                                          *)
LedgerIsBegun ==
  \A t \in TurnIds :
    /\ t \in ledger => t \in Begun /\ stage[t] # "forgotten"
    /\ t \notin ledger /\ t \in Begun /\ stage[t] # "lost" =>
         Cardinality(Newer(t, OfSession(SessionOf[t], Begun))) >= Keep

(* A session is thought to be in a turn of its own that has not ended, and *)
(* a turn that began while another was under way is known to be disturbed. *)
CurrentTurn ==
  \A t \in TurnIds :
    /\ \A s \in Sessions : turnOf[s] = t => SessionOf[t] = s
    /\ turnOf[SessionOf[t]] = t =>
         /\ stage[t] \notin {"none", "over", "lost"}
         /\ \A u \in TurnIds :
              SessionOf[u] = SessionOf[t] /\ stage[u] \in UnderWay /\ u # t => t \in disturbed

(* A turn whose agent may still edit is the one its session is thought to  *)
(* be in.                                                                  *)
SoleTurnIsCurrent ==
  \A t \in TurnIds \ (disturbed \cup cut) :
    stage[t] \in UnderWay => turnOf[SessionOf[t]] = t /\ SessionOf[t] \notin closing

(* Such a turn is booked what it edits, and when it is over it stays so.   *)
SoleTurnBooked ==
  \A t \in TurnIds :
    /\ t \notin Begun => touched[t] = {} /\ edits[t] = {}
    /\ t \in ledger \ disturbed /\ stage[t] # "lost" =>
         /\ touched[t] = edits[t]
         /\ stage[t] = "over" => disk[t] = <<touched[t]>>

LedgerInv ==
  /\ LedgerTypeOK /\ StartsDiffer /\ DiskIsLedger /\ LedgerIsBegun
  /\ CurrentTurn /\ SoleTurnIsCurrent /\ SoleTurnBooked
  /\ \A s \in Sessions : Cardinality(OfSession(s, ledger)) <= Keep

-----------------------------------------------------------------------------
(* Sets of turns and the order of their starts.                            *)

(* Whatever set of turns one looks at is finite.                           *)
LEMMA TurnsAreFinite ==
  ASSUME NEW S \in SUBSET TurnIds
  PROVE  IsFiniteSet(S) /\ Cardinality(S) \in Nat
BY FS_Subset, FS_CardinalityType, LedgerConstants
(* More turns, no fewer that are newer.                                    *)
LEMMA NewerGrows ==
  ASSUME NEW R \in SUBSET TurnIds, NEW S \in SUBSET TurnIds, R \subseteq S, NEW t \in TurnIds
  PROVE  /\ Cardinality(Newer(t, R)) \in Nat /\ Cardinality(Newer(t, S)) \in Nat
         /\ Cardinality(Newer(t, R)) <= Cardinality(Newer(t, S))
<1>1. Newer(t, R) \in SUBSET Newer(t, S) /\ Newer(t, S) \in SUBSET TurnIds
  BY DEF Newer
<1> QED
  BY <1>1, TurnsAreFinite, FS_Subset

(* Of turns that were started one after the other at most K have fewer     *)
(* than K newer ones: each of them has another number of newer ones.       *)
LEMMA NewestAreFew ==
  ASSUME NEW S \in SUBSET TurnIds, NEW K \in Nat,
         startedAt \in [TurnIds -> Nat],
         \A t, u \in S : startedAt[t] = startedAt[u] => t = u
  PROVE  Cardinality({t \in S : Cardinality(Newer(t, S)) < K}) <= K
<1> DEFINE T == {t \in S : Cardinality(Newer(t, S)) < K}
           f == [t \in T |-> Cardinality(Newer(t, S)) + 1]
<1>1. IsFiniteSet(T) /\ Cardinality(T) \in Nat
  BY TurnsAreFinite
<1>2. \A t \in TurnIds : Newer(t, S) \in SUBSET TurnIds
  BY DEF Newer
<1>3. \A t \in T : f[t] \in 1..K
  BY <1>2, TurnsAreFinite
<1>4. ASSUME NEW t \in T, NEW u \in T, startedAt[t] < startedAt[u]
      PROVE  f[t] # f[u]
  <2>1. Newer(u, S) \in SUBSET Newer(t, S) /\ u \in Newer(t, S) /\ u \notin Newer(u, S)
    BY <1>4 DEF Newer
  <2>2. Cardinality(Newer(u, S)) # Cardinality(Newer(t, S))
    BY <2>1, <1>2, TurnsAreFinite, FS_Subset
  <2>3. Cardinality(Newer(u, S)) \in Nat /\ Cardinality(Newer(t, S)) \in Nat
    BY <1>2, TurnsAreFinite
  <2> QED
    BY <2>2, <2>3
<1>5. \A t, u \in T : f[t] = f[u] => t = u
  BY <1>4
<1>6. IsFiniteSet(1..K) /\ Cardinality(1..K) = K
  BY FS_Interval
<1>7. f \in [T -> 1..K]
  BY <1>3
<1> HIDE DEF f, T
<1>8. ~(K < Cardinality(T))
  BY <1>1, <1>5, <1>6, <1>7, FS_PigeonHole
<1> QED
  BY <1>1, <1>8 DEF T

-----------------------------------------------------------------------------
(* What most steps leave alone.                                            *)

(* The order of the starts is that of the turns that are no longer "none". *)
LEMMA OrderIsKept ==
  ASSUME StartsDiffer, UNCHANGED startedAt,
         \A t \in TurnIds : stage'[t] = "none" <=> stage[t] = "none"
  PROVE  StartsDiffer'
BY DEF StartsDiffer, Started

(* A turn for which there was no room has none when more turns have begun. *)
LEMMA RoomIsKept ==
  ASSUME Begun \subseteq Begun', \A u \in Begun : startedAt'[u] = startedAt[u],
         NEW t \in Begun, Cardinality(Newer(t, OfSession(SessionOf[t], Begun))) >= Keep
  PROVE  Cardinality(Newer(t, OfSession(SessionOf[t], Begun))') >= Keep
<1> DEFINE A == Newer(t, OfSession(SessionOf[t], Begun))
           B == Newer(t, OfSession(SessionOf[t], Begun))'
<1>1. A \in SUBSET B /\ B \in SUBSET TurnIds
  BY DEF Newer, OfSession, Begun
<1>2. /\ IsFiniteSet(B) /\ Cardinality(B) \in Nat /\ Cardinality(A) \in Nat
      /\ Cardinality(A) <= Cardinality(B)
  BY <1>1, TurnsAreFinite, FS_Subset
<1> QED
  BY <1>2, LedgerConstants
(* So it is with the ledger as a whole when it does not change.            *)
LEMMA LedgerIsKept ==
  ASSUME LedgerTypeOK, LedgerIsBegun, UNCHANGED ledger, Begun \subseteq Begun',
         \A u \in Begun : startedAt'[u] = startedAt[u],
         \A t \in TurnIds :
           /\ stage'[t] = "forgotten" => t \notin ledger
           /\ t \in Begun' /\ t \notin ledger /\ stage'[t] # "lost" =>
                t \in Begun /\ stage[t] # "lost"
  PROVE  LedgerIsBegun'
<1> SUFFICES ASSUME NEW t \in TurnIds
             PROVE  /\ t \in ledger' => t \in Begun' /\ stage'[t] # "forgotten"
                    /\ t \notin ledger' /\ t \in Begun' /\ stage'[t] # "lost" =>
                         Cardinality(Newer(t, OfSession(SessionOf[t], Begun))') >= Keep
  BY DEF LedgerIsBegun
<1>1. t \in ledger' => t \in Begun' /\ stage'[t] # "forgotten"
  BY DEF LedgerIsBegun
<1>2. ASSUME t \notin ledger', t \in Begun', stage'[t] # "lost"
      PROVE  Cardinality(Newer(t, OfSession(SessionOf[t], Begun))') >= Keep
  <2>1. /\ t \in Begun
        /\ Cardinality(Newer(t, OfSession(SessionOf[t], Begun))) >= Keep
    BY <1>2 DEF LedgerIsBegun
  <2> QED
    BY <2>1, RoomIsKept
<1> QED
  BY <1>1, <1>2

(* And with the number of turns it holds.                                  *)
Bounded == \A s \in Sessions : Cardinality(OfSession(s, ledger)) <= Keep

(* A step that leaves the ledger alone keeps its limit.                    *)
LEMMA BoundIsKept ==
  ASSUME Bounded, UNCHANGED ledger
  PROVE  Bounded'
BY DEF Bounded, OfSession
-----------------------------------------------------------------------------
(* Steps.                                                                  *)

(* The invariant holds of a core without turns.                            *)
LEMMA LedgerInitial == LedgerInit => LedgerInv
<1> SUFFICES ASSUME LedgerInit PROVE LedgerInv
  OBVIOUS
<1>1. LedgerTypeOK
  BY LedgerConstants DEF LedgerInit, LedgerTypeOK
<1>2. Started = {} /\ Begun = {} /\ \A s \in Sessions : OfSession(s, ledger) = {}
  BY DEF LedgerInit, Started, Begun, OfSession
<1>3. StartsDiffer
  BY <1>2, FS_EmptySet DEF LedgerInit, StartsDiffer
<1>4. DiskIsLedger /\ LedgerIsBegun
  BY <1>2, LedgerConstants DEF LedgerInit, DiskIsLedger, LedgerIsBegun
<1>5. CurrentTurn /\ SoleTurnIsCurrent /\ SoleTurnBooked
  BY <1>2, LedgerConstants DEF LedgerInit, CurrentTurn, SoleTurnIsCurrent, SoleTurnBooked, UnderWay
<1> QED
  BY <1>1, <1>2, <1>3, <1>4, <1>5, FS_EmptySet, LedgerConstants DEF LedgerInv
(* A turn starts: it is the newest, and disturbs what it runs beside.      *)
LEMMA StartPreserves ==
  ASSUME LedgerInv, NEW t \in TurnIds, StartTurn(t)
  PROVE  LedgerInv'
<1> USE DEF sessionVars, storeVars
<1>0. /\ LedgerTypeOK /\ StartsDiffer /\ DiskIsLedger /\ LedgerIsBegun
      /\ CurrentTurn /\ SoleTurnIsCurrent /\ SoleTurnBooked /\ Bounded
  BY DEF LedgerInv, Bounded
<1>1. /\ stage[t] = "none" /\ SessionOf[t] \in live /\ SessionOf[t] \in Sessions
      /\ stage' = [stage EXCEPT ![t] = "opening"]
      /\ startedAt' = [startedAt EXCEPT ![t] = 1 + Cardinality(Started)]
      /\ turnOf' = [turnOf EXCEPT ![SessionOf[t]] = t]
      /\ UNCHANGED <<sessionVars, storeVars, edits>>
  BY LedgerConstants DEF StartTurn, Started
<1>2. /\ \A u \in TurnIds : SessionOf[u] = SessionOf[t] /\ stage[u] \in UnderWay =>
           u \in disturbed' /\ t \in disturbed'
      /\ SessionOf[t] \in closing => t \in disturbed'
      /\ disturbed \subseteq disturbed' /\ disturbed' \subseteq TurnIds
  BY <1>0 DEF StartTurn, OfSession, LedgerTypeOK
<1>3. Cardinality(Started) \in Nat /\ IsFiniteSet(Started)
  BY TurnsAreFinite DEF Started
<1>4. LedgerTypeOK'
  BY <1>0, <1>1, <1>2, <1>3 DEF LedgerTypeOK, UnderWay
<1>5. StartsDiffer'
  <2>1. t \notin Started /\ \A u \in Started : u # t /\ startedAt[u] <= Cardinality(Started)
    BY <1>0, <1>1 DEF StartsDiffer, Started
  <2>2. \A u \in TurnIds : startedAt'[u] = IF u = t THEN 1 + Cardinality(Started) ELSE startedAt[u]
    BY <1>0, <1>1 DEF LedgerTypeOK
  <2>3. Started' = Started \cup {t}
    <3>1. \A u \in TurnIds : startedAt'[u] > 0 <=> u = t \/ startedAt[u] > 0
      BY <2>2, <1>3
    <3> QED
      BY <3>1 DEF Started
  <2>4. Cardinality(Started') = Cardinality(Started) + 1
    BY <2>1, <2>3, <1>3, FS_AddElement
  <2>5. \A u \in TurnIds : stage'[u] = IF u = t THEN "opening" ELSE stage[u]
    BY <1>0, <1>1 DEF LedgerTypeOK
  <2>6. \A u \in TurnIds : startedAt[u] <= Cardinality(Started) /\ startedAt[u] \in Nat
    BY <1>0 DEF StartsDiffer, LedgerTypeOK
  <2>7. \A u \in TurnIds : startedAt'[u] <= Cardinality(Started')
    BY <2>4, <2>2, <2>6, <1>3
  <2>8. \A u \in TurnIds : startedAt'[u] = 0 <=> stage'[u] = "none"
    BY <2>2, <2>5, <1>0, <1>3 DEF StartsDiffer
  <2>9. \A u, v \in Started' : startedAt'[u] = startedAt'[v] => u = v
    <3> SUFFICES ASSUME NEW u \in Started', NEW v \in Started', startedAt'[u] = startedAt'[v]
                 PROVE  u = v
      OBVIOUS
    <3>1. u \in TurnIds /\ v \in TurnIds
      BY DEF Started
    <3>2. CASE u # t /\ v # t
      BY <3>1, <3>2, <2>3, <2>2, <1>0 DEF StartsDiffer
    <3>3. CASE u = t \/ v = t
      BY <3>1, <3>3, <2>2, <2>6, <1>3
    <3> QED
      BY <3>2, <3>3
  <2> QED
    BY <2>7, <2>8, <2>9 DEF StartsDiffer
<1>6. Begun' = Begun /\ t \notin Begun
  BY <1>0, <1>1 DEF Begun, LedgerTypeOK
<1>7. LedgerIsBegun'
  BY <1>0, <1>1, <1>6, LedgerIsKept DEF Begun, LedgerTypeOK, LedgerIsBegun
<1>8. CurrentTurn'
  BY <1>0, <1>1, <1>2, LedgerConstants DEF CurrentTurn, LedgerTypeOK, UnderWay
<1>9. SoleTurnIsCurrent'
  BY <1>0, <1>1, <1>2, LedgerConstants DEF SoleTurnIsCurrent, LedgerTypeOK, UnderWay
<1>10. SoleTurnBooked'
  BY <1>0, <1>1, <1>2, <1>6 DEF SoleTurnBooked, LedgerIsBegun, LedgerTypeOK
<1>11. DiskIsLedger' /\ Bounded'
  BY <1>0, <1>1, BoundIsKept DEF DiskIsLedger
<1> QED
  BY <1>4, <1>5, <1>7, <1>8, <1>9, <1>10, <1>11 DEF LedgerInv, Bounded

(* What prune() keeps of a session is no more than it may.                 *)
LEMMA PruneIsBounded ==
  ASSUME LedgerTypeOK, StartsDiffer, Bounded, NEW s \in Sessions, NEW ts \in SUBSET TurnIds,
         \A u \in ts : stage[u] # "none",
         \A r \in Sessions \ {s} : OfSession(r, ts) = OfSession(r, ledger),
         ledger' = Prune(s, ts)
  PROVE  Bounded'
<1>1. \A u, v \in OfSession(s, ts) : startedAt[u] = startedAt[v] => u = v
  BY DEF StartsDiffer, Started, OfSession, LedgerTypeOK
<1>2. OfSession(s, ts) \in SUBSET TurnIds
  BY DEF OfSession
<1>3. Cardinality({u \in OfSession(s, ts) : Cardinality(Newer(u, OfSession(s, ts))) < Keep}) <= Keep
  BY <1>1, <1>2, NewestAreFew, LedgerConstants DEF LedgerTypeOK
<1>4. OfSession(s, ledger)'
        = {u \in OfSession(s, ts) : Cardinality(Newer(u, OfSession(s, ts))) < Keep}
  BY DEF Prune, OfSession
<1>5. \A r \in Sessions \ {s} : OfSession(r, ledger)' = OfSession(r, ledger)
  BY DEF Prune, OfSession
<1>6. Cardinality(OfSession(s, ledger)') <= Keep
  BY <1>3, <1>4
<1>7. \A r \in Sessions \ {s} : Cardinality(OfSession(r, ledger)') <= Keep
  BY <1>5 DEF Bounded
<1> QED
  BY <1>6, <1>7 DEF Bounded

(* What prune() drops has as many newer turns as the session may keep.     *)
LEMMA DroppedHasNoRoom ==
  ASSUME LedgerTypeOK, NEW s \in Sessions, NEW ts \in SUBSET TurnIds, ts \subseteq Begun',
         UNCHANGED startedAt, NEW u \in ts, u \notin Prune(s, ts)
  PROVE  Cardinality(Newer(u, OfSession(SessionOf[u], Begun))') >= Keep
<1> DEFINE mine == OfSession(s, ts)
           A == Newer(u, mine)
           B == Newer(u, OfSession(SessionOf[u], Begun))'
<1>1. u \in mine /\ ~(Cardinality(A) < Keep)
  BY DEF Prune
<1>2. SessionOf[u] = s
  BY <1>1 DEF OfSession
<1>3. A \in SUBSET B /\ B \in SUBSET TurnIds
  BY <1>2 DEF Newer, OfSession, Begun
<1>4. Cardinality(A) \in Nat /\ Cardinality(B) \in Nat /\ Cardinality(A) <= Cardinality(B)
  BY <1>3, TurnsAreFinite, FS_Subset
<1> HIDE DEF A, B
<1>5. Cardinality(B) >= Keep
  BY <1>1, <1>4, LedgerConstants
<1> QED
  BY <1>5 DEF B

(* A turn has begun and is in the ledger, which makes room for it.         *)
LEMMA BeginPreserves ==
  ASSUME LedgerInv, NEW t \in TurnIds, EnterTurn(t)
  PROVE  LedgerInv'
<1> USE DEF sessionVars, bookVars
<1> DEFINE ts == ledger \cup {t}
<1>0. /\ LedgerTypeOK /\ StartsDiffer /\ DiskIsLedger /\ LedgerIsBegun
      /\ CurrentTurn /\ SoleTurnIsCurrent /\ SoleTurnBooked /\ Bounded
      /\ SessionOf[t] \in Sessions
  BY LedgerConstants DEF LedgerInv, Bounded
<1>1. /\ stage[t] = "opening" /\ stage' = [stage EXCEPT ![t] = "running"]
      /\ ledger' = Prune(SessionOf[t], ts)
      /\ disk' = [u \in TurnIds |-> IF u \in ledger' THEN <<touched[u]>> ELSE <<>>]
      /\ UNCHANGED <<sessionVars, touched, startedAt, turnOf, bookVars>>
  BY DEF EnterTurn, Save
<1>2. ledger' \subseteq ts /\ ts \in SUBSET TurnIds
  BY <1>0, <1>1 DEF Prune, LedgerTypeOK
<1>3. \A u \in TurnIds : stage'[u] = IF u = t THEN "running" ELSE stage[u]
  BY <1>0, <1>1 DEF LedgerTypeOK
<1>4. Begun' = Begun \cup {t} /\ t \notin Begun /\ t \notin ledger
  <2>1. Begun' = Begun \cup {t} /\ t \notin Begun
    BY <1>1, <1>3 DEF Begun
  <2> QED
    BY <2>1, <1>0 DEF LedgerIsBegun
<1>5. LedgerTypeOK'
  <2>1. disk' \in [TurnIds -> {<<>>} \cup {<<ps>> : ps \in SUBSET Paths}]
    BY <1>0, <1>1 DEF LedgerTypeOK
  <2> QED
    BY <1>0, <1>1, <1>2, <2>1 DEF LedgerTypeOK, UnderWay
<1>6. StartsDiffer'
  BY <1>0, <1>1, <1>3, OrderIsKept
<1>7. DiskIsLedger'
  BY <1>1 DEF DiskIsLedger
<1>8. LedgerIsBegun'
  <2> SUFFICES ASSUME NEW u \in TurnIds
               PROVE  /\ u \in ledger' => u \in Begun' /\ stage'[u] # "forgotten"
                      /\ u \notin ledger' /\ u \in Begun' /\ stage'[u] # "lost" =>
                           Cardinality(Newer(u, OfSession(SessionOf[u], Begun))') >= Keep
    BY DEF LedgerIsBegun
  <2>1. u \in ledger' => u \in Begun' /\ stage'[u] # "forgotten"
    BY <1>0, <1>2, <1>3, <1>4 DEF LedgerIsBegun
  <2>2. ASSUME u \notin ledger', u \in Begun', stage'[u] # "lost"
        PROVE  Cardinality(Newer(u, OfSession(SessionOf[u], Begun))') >= Keep
    <3>1. CASE u \in ts
      <4>1. ts \subseteq Begun'
        BY <1>0, <1>4 DEF LedgerIsBegun, LedgerTypeOK
      <4>2. u \notin Prune(SessionOf[t], ts)
        BY <2>2, <1>1
      <4> HIDE DEF ts
      <4> QED
        BY <3>1, <4>1, <4>2, <1>0, <1>1, <1>2, DroppedHasNoRoom
    <3>2. CASE u \notin ts
      <4>1. u \in Begun /\ Cardinality(Newer(u, OfSession(SessionOf[u], Begun))) >= Keep
        BY <1>0, <1>3, <1>4, <2>2, <3>2 DEF LedgerIsBegun
      <4> QED
        BY <4>1, <1>1, <1>4, RoomIsKept
    <3> QED
      BY <3>1, <3>2
  <2> QED
    BY <2>1, <2>2
<1>9. CurrentTurn'
  BY <1>0, <1>1, <1>3 DEF CurrentTurn, UnderWay
<1>10. SoleTurnIsCurrent'
  BY <1>0, <1>1, <1>3 DEF SoleTurnIsCurrent, UnderWay
<1>11. SoleTurnBooked'
  BY <1>0, <1>1, <1>2, <1>3, <1>4 DEF SoleTurnBooked
<1>12. Bounded'
  <2>1. \A u \in ts : stage[u] # "none"
    BY <1>0, <1>1 DEF LedgerIsBegun, Begun, LedgerTypeOK
  <2>2. \A r \in Sessions \ {SessionOf[t]} : OfSession(r, ts) = OfSession(r, ledger)
    BY DEF OfSession
  <2> HIDE DEF ts
  <2> QED
    BY <2>1, <2>2, <1>0, <1>1, <1>2, PruneIsBounded
<1> QED
  BY <1>5, <1>6, <1>7, <1>8, <1>9, <1>10, <1>11, <1>12 DEF LedgerInv, Bounded

(* The prompt of a turn has been answered.                                 *)
LEMMA EndPreserves ==
  ASSUME LedgerInv, NEW t \in TurnIds, EndPrompt(t)
  PROVE  LedgerInv'
<1> USE DEF sessionVars, storeVars, bookVars
<1>0. /\ LedgerTypeOK /\ StartsDiffer /\ DiskIsLedger /\ LedgerIsBegun
      /\ CurrentTurn /\ SoleTurnIsCurrent /\ SoleTurnBooked /\ Bounded
  BY DEF LedgerInv, Bounded
<1>1. /\ stage[t] = "running"
      /\ \A u \in TurnIds : stage'[u] = IF u = t
                                      THEN IF t \in ledger THEN "finishing" ELSE "forgotten"
                                      ELSE stage[u]
      /\ UNCHANGED <<sessionVars, startedAt, turnOf, storeVars, bookVars>>
  BY <1>0 DEF EndPrompt, LedgerTypeOK
<1>2. LedgerTypeOK'
  BY <1>0 DEF EndPrompt, LedgerTypeOK
<1>3. Begun' = Begun /\ t \in Begun
  BY <1>1 DEF Begun
<1>4. StartsDiffer'
  BY <1>0, <1>1, OrderIsKept
<1>5. LedgerIsBegun'
  BY <1>0, <1>1, <1>3, LedgerIsKept DEF LedgerIsBegun
<1>6. CurrentTurn' /\ SoleTurnIsCurrent'
  BY <1>0, <1>1 DEF CurrentTurn, SoleTurnIsCurrent, UnderWay
<1>7. SoleTurnBooked'
  BY <1>0, <1>1, <1>3 DEF SoleTurnBooked
<1> QED
  BY <1>0, <1>1, <1>2, <1>4, <1>5, <1>6, <1>7, BoundIsKept DEF LedgerInv, Bounded, DiskIsLedger

(* The end of a turn is announced, whether or not the ledger knows it; of  *)
(* a turn it knows turns.json gets what was booked.                        *)
LEMMA FinishPreserves ==
  ASSUME LedgerInv, NEW t \in TurnIds, FinishTurn(t) \/ FinishForgottenTurn(t)
  PROVE  LedgerInv'
<1> USE DEF sessionVars, bookVars
<1>0. /\ LedgerTypeOK /\ StartsDiffer /\ DiskIsLedger /\ LedgerIsBegun
      /\ CurrentTurn /\ SoleTurnIsCurrent /\ SoleTurnBooked /\ Bounded
      /\ SessionOf \in [TurnIds -> Sessions] /\ NoCurrent \notin TurnIds
  BY LedgerConstants DEF LedgerInv, Bounded
<1>1. /\ stage[t] \in {"finishing", "forgotten"}
      /\ \A u \in TurnIds : stage'[u] = IF u = t THEN "over" ELSE stage[u]
      /\ \A s \in Sessions : turnOf'[s] = IF turnOf[s] = t /\ s = SessionOf[t]
                                          THEN NoCurrent ELSE turnOf[s]
      /\ UNCHANGED <<sessionVars, startedAt, ledger, touched, bookVars>>
  BY <1>0 DEF FinishTurn, FinishForgottenTurn, Announce, ForgetTurn, LedgerTypeOK
<1>2. \/ /\ stage[t] = "finishing"
         /\ disk' = [u \in TurnIds |-> IF u \in ledger THEN <<touched[u]>> ELSE <<>>]
      \/ stage[t] = "forgotten" /\ disk' = disk
  BY <1>1 DEF FinishTurn, FinishForgottenTurn, Save
<1>3. LedgerTypeOK'
  <2>1. disk' \in [TurnIds -> {<<>>} \cup {<<ps>> : ps \in SUBSET Paths}]
    BY <1>0, <1>2 DEF LedgerTypeOK
  <2>2. /\ stage' \in [TurnIds -> UnderWay \cup {"none", "finishing", "forgotten", "over", "lost"}]
        /\ turnOf' \in [Sessions -> TurnIds \cup {NoCurrent}]
    BY <1>0 DEF FinishTurn, FinishForgottenTurn, Announce, ForgetTurn, LedgerTypeOK
  <2> QED
    BY <1>0, <1>1, <2>1, <2>2 DEF LedgerTypeOK
<1>4. Begun' = Begun /\ t \in Begun
  BY <1>1 DEF Begun
<1>5. StartsDiffer'
  BY <1>0, <1>1, OrderIsKept
<1>6. DiskIsLedger'
  BY <1>0, <1>1, <1>2 DEF DiskIsLedger
<1>7. LedgerIsBegun'
  BY <1>0, <1>1, <1>4, LedgerIsKept DEF LedgerIsBegun
<1>8. CurrentTurn'
  BY <1>0, <1>1 DEF CurrentTurn, UnderWay
<1>9. SoleTurnIsCurrent'
  BY <1>0, <1>1 DEF SoleTurnIsCurrent, UnderWay
<1>10. SoleTurnBooked'
  <2>1. stage[t] = "forgotten" => t \notin ledger
    BY <1>0 DEF LedgerIsBegun
  <2>2. \A u \in ledger : disk'[u] \in {disk[u], <<touched[u]>>}
    BY <1>0, <1>2 DEF LedgerTypeOK
  <2>3. stage[t] = "finishing" /\ t \in ledger => disk'[t] = <<touched[t]>>
    BY <1>2
  <2> QED
    BY <1>0, <1>1, <1>4, <2>1, <2>2, <2>3 DEF SoleTurnBooked
<1> QED
  BY <1>0, <1>1, <1>3, <1>5, <1>6, <1>7, <1>8, <1>9, <1>10, BoundIsKept DEF LedgerInv, Bounded

(* A tool edits a path: the turn its session is thought to be in is booked *)
(* it, which for a turn that runs alone is the one that edits.             *)
LEMMA EditPreserves ==
  ASSUME LedgerInv, NEW t \in TurnIds, NEW p \in Paths, AgentEdits(t, p)
  PROVE  LedgerInv'
<1> USE DEF sessionVars
<1> DEFINE current == turnOf[SessionOf[t]]
<1>0. /\ LedgerTypeOK /\ StartsDiffer /\ DiskIsLedger /\ LedgerIsBegun
      /\ CurrentTurn /\ SoleTurnIsCurrent /\ SoleTurnBooked /\ Bounded
      /\ SessionOf \in [TurnIds -> Sessions]
  BY LedgerConstants DEF LedgerInv, Bounded
<1>1. /\ stage[t] = "running" /\ t \notin cut
      /\ edits' \in [TurnIds -> SUBSET Paths] /\ touched' \in [TurnIds -> SUBSET Paths]
      /\ \A u \in TurnIds : edits'[u] = IF u = t THEN edits[u] \cup {p} ELSE edits[u]
      /\ \A u \in TurnIds : touched'[u] = IF u = current /\ u \in ledger
                                        THEN touched[u] \cup {p} ELSE touched[u]
      /\ UNCHANGED <<sessionVars, stage, startedAt, turnOf, ledger, disk, disturbed>>
  BY <1>0 DEF AgentEdits, LedgerTypeOK
<1>2. LedgerTypeOK'
  BY <1>0, <1>1 DEF LedgerTypeOK
<1>3. Begun' = Begun /\ t \in Begun
  BY <1>1 DEF Begun
<1>4. StartsDiffer'
  BY <1>0, <1>1, OrderIsKept
<1>5. LedgerIsBegun'
  BY <1>0, <1>1, <1>3, LedgerIsKept DEF LedgerIsBegun
<1>6. CurrentTurn' /\ SoleTurnIsCurrent'
  BY <1>1 DEF LedgerInv, CurrentTurn, SoleTurnIsCurrent
<1>7. SoleTurnBooked'
  <2>1. t \notin disturbed => current = t
    BY <1>0, <1>1 DEF SoleTurnIsCurrent, UnderWay
  <2>2. ASSUME NEW u \in ledger \ disturbed, u = current
        PROVE  u = t /\ stage[u] # "over"
    <3>1. u \in TurnIds /\ SessionOf[t] \in Sessions
      BY <1>0 DEF LedgerTypeOK
    <3>2. SessionOf[u] = SessionOf[t]
      BY <1>0, <2>2, <3>1 DEF CurrentTurn
    <3> QED
      BY <1>0, <1>1, <2>2, <3>1, <3>2 DEF CurrentTurn, UnderWay
  <2>3. ASSUME NEW u \in TurnIds, u \in ledger \ disturbed, stage[u] # "lost"
        PROVE  /\ touched'[u] = edits'[u]
               /\ stage[u] = "over" => disk[u] = <<touched'[u]>>
    <3>1. CASE u = t
      BY <3>1, <2>1, <2>3, <1>0, <1>1 DEF SoleTurnBooked
    <3>2. CASE u # t
      BY <3>2, <2>2, <2>3, <1>0, <1>1 DEF SoleTurnBooked
    <3> QED
      BY <3>1, <3>2
  <2>4. ASSUME NEW u \in TurnIds, u \notin Begun
        PROVE  touched'[u] = {} /\ edits'[u] = {}
    BY <2>4, <1>0, <1>1, <1>3 DEF SoleTurnBooked, LedgerIsBegun
  <2> QED
    BY <2>3, <2>4, <1>1, <1>3 DEF SoleTurnBooked
<1> QED
  BY <1>0, <1>1, <1>2, <1>4, <1>5, <1>6, <1>7, BoundIsKept DEF LedgerInv, Bounded, DiskIsLedger

(* What becomes of a session leaves its turns as they are, but for what it *)
(* is thought to be in and whose agent has gone.                           *)
LEMMA SessionFrame ==
  ASSUME LedgerInv, LedgerTypeOK', CurrentTurn', SoleTurnIsCurrent',
         UNCHANGED <<stage, startedAt, storeVars, bookVars>>
  PROVE  LedgerInv'
<1> USE DEF storeVars, bookVars
<1>1. Begun' = Begun
  BY DEF Begun
<1>2. StartsDiffer' /\ DiskIsLedger' /\ LedgerIsBegun' /\ Bounded'
  BY <1>1, OrderIsKept, LedgerIsKept, BoundIsKept
  DEF LedgerInv, DiskIsLedger, Bounded, LedgerIsBegun
<1>3. SoleTurnBooked'
  BY <1>1 DEF LedgerInv, SoleTurnBooked
<1> QED
  BY <1>2, <1>3 DEF LedgerInv, Bounded

(* Sessions are lost, closed and resumed.                                  *)
LEMMA SessionPreserves ==
  ASSUME LedgerInv, NEW s \in Sessions, SessionStep(s)
  PROVE  LedgerInv'
<1> USE DEF storeVars, bookVars
<1>0. /\ LedgerTypeOK /\ CurrentTurn /\ SoleTurnIsCurrent
      /\ SessionOf \in [TurnIds -> Sessions] /\ NoCurrent \notin TurnIds /\ MaxLosses \in Nat
  BY LedgerConstants DEF LedgerInv
<1>1. CASE AgentExits(s)
  <2>1. /\ turnOf' = [turnOf EXCEPT ![s] = NoCurrent]
        /\ cut' = cut \cup {t \in OfSession(s, TurnIds) : stage[t] \in UnderWay}
        /\ UNCHANGED <<closing, stage, startedAt, storeVars, bookVars>>
    BY <1>1 DEF AgentExits, LoseSession, ForgetSession
  <2>2. LedgerTypeOK'
    BY <1>0, <1>1 DEF AgentExits, LoseSession, ForgetSession, LedgerTypeOK, OfSession
  <2>3. CurrentTurn'
    BY <1>0, <2>1 DEF CurrentTurn, LedgerTypeOK
  <2>4. SoleTurnIsCurrent'
    BY <1>0, <2>1 DEF SoleTurnIsCurrent, LedgerTypeOK, OfSession
  <2> QED
    BY <2>1, <2>2, <2>3, <2>4, SessionFrame
<1>2. CASE CloseBegins(s)
  <2>1. /\ closing' = closing \cup {s}
        /\ cut' = cut \cup {t \in OfSession(s, TurnIds) : stage[t] \in UnderWay}
        /\ UNCHANGED <<turnOf, stage, startedAt, storeVars, bookVars>>
    BY <1>2 DEF CloseBegins, LoseSession
  <2>2. LedgerTypeOK'
    BY <1>0, <1>2 DEF CloseBegins, LoseSession, LedgerTypeOK, OfSession
  <2>3. CurrentTurn'
    BY <1>0, <2>1 DEF CurrentTurn
  <2>4. SoleTurnIsCurrent'
    BY <1>0, <2>1 DEF SoleTurnIsCurrent, OfSession
  <2> QED
    BY <2>1, <2>2, <2>3, <2>4, SessionFrame
<1>3. CASE CloseEnds(s)
  <2>1. /\ s \in closing /\ closing' = closing \ {s}
        /\ turnOf' = [turnOf EXCEPT ![s] = NoCurrent]
        /\ UNCHANGED <<live, losses, cut, stage, startedAt, storeVars, bookVars>>
    BY <1>3 DEF CloseEnds, ForgetSession
  <2>2. LedgerTypeOK'
    BY <1>0, <2>1 DEF LedgerTypeOK
  <2>3. CurrentTurn'
    BY <1>0, <2>1 DEF CurrentTurn, LedgerTypeOK
  <2>4. SoleTurnIsCurrent'
    BY <1>0, <2>1 DEF SoleTurnIsCurrent, LedgerTypeOK
  <2> QED
    BY <2>1, <2>2, <2>3, <2>4, SessionFrame
<1>4. CASE ResumeSession(s)
  <2>1. LedgerTypeOK' /\ CurrentTurn' /\ SoleTurnIsCurrent'
    BY <1>0, <1>4 DEF ResumeSession, LedgerTypeOK, CurrentTurn, SoleTurnIsCurrent
  <2> QED
    BY <1>4, <2>1, SessionFrame DEF ResumeSession
<1> QED
  BY <1>1, <1>2, <1>3, <1>4 DEF SessionStep

(* The core comes back with the turns of turns.json, which are those of    *)
(* the ledger it had.                                                      *)
LEMMA RestartPreserves ==
  ASSUME LedgerInv, Restart
  PROVE  LedgerInv'
<1> USE DEF bookVars
<1>0. /\ LedgerTypeOK /\ StartsDiffer /\ DiskIsLedger /\ LedgerIsBegun
      /\ CurrentTurn /\ SoleTurnIsCurrent /\ SoleTurnBooked /\ Bounded
      /\ SessionOf \in [TurnIds -> Sessions] /\ NoCurrent \notin TurnIds /\ MaxLosses \in Nat
  BY LedgerConstants DEF LedgerInv, Bounded
<1>1. /\ \A u \in TurnIds : stage'[u] = IF stage[u] \in {"none", "over"} THEN stage[u] ELSE "lost"
      /\ \A s \in Sessions : turnOf'[s] = NoCurrent
      /\ ledger' = {t \in TurnIds : disk[t] # <<>>}
      /\ \A u \in TurnIds : touched'[u] = IF u \in ledger' THEN disk[u][1] ELSE {}
      /\ UNCHANGED <<cut, startedAt, disk, bookVars>>
  BY DEF Restart
<1>2. ledger' = ledger
  BY <1>0, <1>1 DEF DiskIsLedger, LedgerTypeOK
<1>3. LedgerTypeOK'
  <2>1. \A u \in ledger : disk[u][1] \in SUBSET Paths
    BY <1>0 DEF DiskIsLedger, LedgerTypeOK
  <2>2. touched' \in [TurnIds -> SUBSET Paths]
    BY <2>1, <1>2 DEF Restart
  <2>3. /\ stage' \in [TurnIds -> UnderWay \cup {"none", "finishing", "forgotten", "over", "lost"}]
        /\ turnOf' \in [Sessions -> TurnIds \cup {NoCurrent}]
    BY <1>0 DEF Restart, LedgerTypeOK
  <2> QED
    BY <1>0, <1>2, <2>2, <2>3 DEF Restart, LedgerTypeOK
<1>4. /\ Begun \subseteq Begun'
      /\ \A u \in TurnIds : u \in Begun' /\ stage'[u] # "lost" => stage[u] = "over"
  BY <1>1 DEF Begun
<1>5. StartsDiffer'
  BY <1>0, <1>1, OrderIsKept
<1>6. LedgerIsBegun'
  BY <1>0, <1>1, <1>2, <1>4, LedgerIsKept DEF LedgerIsBegun, Begun
<1>7. CurrentTurn' /\ SoleTurnIsCurrent'
  BY <1>0, <1>1 DEF CurrentTurn, SoleTurnIsCurrent, UnderWay
<1>8. SoleTurnBooked'
  <2>1. ASSUME NEW u \in TurnIds, u \notin Begun'
        PROVE  touched'[u] = {} /\ edits'[u] = {}
    BY <2>1, <1>0, <1>1, <1>2, <1>4 DEF SoleTurnBooked, LedgerIsBegun
  <2>2. ASSUME NEW u \in TurnIds, u \in ledger' \ disturbed', stage'[u] # "lost"
        PROVE  touched'[u] = edits'[u] /\ disk'[u] = <<touched'[u]>>
    <3>1. u \in ledger \ disturbed /\ u \in Begun /\ stage[u] = "over"
      BY <2>2, <1>0, <1>1, <1>2, <1>4 DEF LedgerIsBegun
    <3>2. touched[u] = edits[u] /\ disk[u] = <<touched[u]>>
      BY <3>1, <1>0 DEF SoleTurnBooked
    <3> QED
      BY <3>1, <3>2, <1>1, <1>2
  <2> QED
    BY <2>1, <2>2 DEF SoleTurnBooked
<1>9. DiskIsLedger' /\ Bounded'
  BY <1>0, <1>1, <1>2, BoundIsKept DEF DiskIsLedger
<1> QED
  BY <1>3, <1>5, <1>6, <1>7, <1>8, <1>9 DEF LedgerInv, Bounded

(* Every step of the core preserves the invariant.                         *)
LEMMA LedgerPreserved ==
  ASSUME LedgerInv, [LedgerNext]_ledgerVars
  PROVE  LedgerInv'
<1>1. CASE UNCHANGED ledgerVars
  <2>1. LedgerTypeOK' /\ CurrentTurn' /\ SoleTurnIsCurrent'
    BY <1>1 DEF ledgerVars, sessionVars, storeVars, bookVars, LedgerInv, LedgerTypeOK, CurrentTurn,
       SoleTurnIsCurrent
  <2> QED
    BY <1>1, <2>1, SessionFrame DEF ledgerVars
<1> QED
  BY <1>1, StartPreserves, BeginPreserves, EndPreserves, FinishPreserves, EditPreserves,
     SessionPreserves, RestartPreserves DEF LedgerNext, CoreStep

(* The types of the ledger and of all that is known of turns.              *)
THEOREM LedgerTypeCorrect == LedgerSpec => []LedgerTypeOK
<1>1. LedgerInit => LedgerInv
  BY LedgerInitial
<1>2. LedgerInv /\ [LedgerNext]_ledgerVars => LedgerInv'
  BY LedgerPreserved
<1>3. LedgerInv => LedgerTypeOK
  BY DEF LedgerInv
<1> QED
  BY <1>1, <1>2, <1>3, PTL DEF LedgerSpec

(* The ledger and turns.json stay within keepPerSession, a turn is dropped *)
(* only for newer turns of its session, and a turn that ran alone is       *)
(* booked exactly what its tools edited, with any number of turns,         *)
(* sessions, losses and any keepPerSession (TurnStore.begin, finish, prune,*)
(* noteTouched, save and load; daemon.ts, wireEvents).                     *)
THEOREM LedgerIsTrueHolds == LedgerSpec => []LedgerIsTrue
<1>1. LedgerInit => LedgerInv
  BY LedgerInitial
<1>2. LedgerInv /\ [LedgerNext]_ledgerVars => LedgerInv'
  BY LedgerPreserved
<1>3. LedgerInv => LedgerIsTrue
  <2> SUFFICES ASSUME LedgerInv PROVE LedgerIsTrue
    OBVIOUS
  <2>1. LedgerBounded
    <3>1. \A s \in Sessions : {t \in OfSession(s, TurnIds) : disk[t] # <<>>} = OfSession(s, ledger)
      BY DEF LedgerInv, DiskIsLedger, LedgerTypeOK, OfSession
    <3> QED
      BY <3>1 DEF LedgerBounded, LedgerInv
  <2>2. RecentTurnsKept
    <3>1. \A t \in TurnIds :
            {u \in OfSession(SessionOf[t], TurnIds) : stage[u] \notin {"none", "opening"}}
              = OfSession(SessionOf[t], Begun)
      BY DEF OfSession, Begun
    <3>2. \A t \in TurnIds : stage[t] = "over" => t \in Begun /\ stage[t] # "lost"
      BY DEF Begun
    <3> QED
      BY <3>1, <3>2 DEF RecentTurnsKept, LedgerInv, LedgerIsBegun
  <2>3. SoleTurnNoted
    BY DEF SoleTurnNoted, LedgerInv, SoleTurnBooked, LedgerTypeOK
  <2> QED
    BY <2>1, <2>2, <2>3 DEF LedgerIsTrue
<1> QED
  BY <1>1, <1>2, <1>3, PTL DEF LedgerSpec
=============================================================================
