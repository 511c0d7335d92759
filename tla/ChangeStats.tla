---------------------------- MODULE ChangeStats ----------------------------
(***************************************************************************)
(* The change statistics of tool calls (core/src/derive/changeStat.ts):    *)
(* the line diff and the count of its lines, the sum over the files of a   *)
(* tool call, and the tracker that holds a statistic back until the result *)
(* of its tool call is known.                                              *)
(*                                                                         *)
(* Lines are members of a small set.  The tracker hears a history of       *)
(* updates; the statistic of an update is known by the update's number.    *)
(***************************************************************************)
EXTENDS Naturals, Sequences, FiniteSets, SequencesExt

CONSTANTS MaxCells,     \* MAX_LCS_CELLS
          MaxLines,     \* MAX_DIFF_LINES
          Context,      \* DIFF_CONTEXT_LINES
          MaxFiles,     \* MAX_DIFF_FILES
          ToolCalls,    \* tool calls of a session
          MaxUpdates    \* updates of a history

ASSUME LimitsAssumption ==
  /\ {MaxCells, MaxLines, Context, MaxFiles, MaxUpdates} \subseteq Nat

-----------------------------------------------------------------------------
(* diffLines.                                                              *)

CommonHead(a, b) ==
  Max({h \in 0..Len(a) : h <= Len(b) /\ SubSeq(a, 1, h) = SubSeq(b, 1, h)})

\* Mutant: the ends may overlap the common head.
TailOverlapping(a, b) == CommonHead(Reverse(a), Reverse(b))

\* The common end of what the common head leaves.
CommonTail(a, b) ==
  LET h == CommonHead(a, b)
  IN CommonHead(Reverse(SubSeq(a, h + 1, Len(a))), Reverse(SubSeq(b, h + 1, Len(b))))

Op(k, list) == [i \in DOMAIN list |-> [kind |-> k, line |-> list[i]]]

\* The table: the length of a longest common subsequence from i and j on.
Table(a, b) ==
  LET t[p \in (1..Len(a) + 1) \X (1..Len(b) + 1)] ==
        LET i == p[1] j == p[2] IN
        IF i > Len(a) \/ j > Len(b) THEN 0
        ELSE IF a[i] = b[j] THEN t[<<i + 1, j + 1>>] + 1
        ELSE Max({t[<<i + 1, j>>], t[<<i, j + 1>>]})
  IN t

\* The walk through the table, from i and j on.
Walk(a, b) ==
  LET t == Table(a, b)
      w[p \in (1..Len(a) + 1) \X (1..Len(b) + 1)] ==
        LET i == p[1] j == p[2] IN
        IF i > Len(a) THEN Op("add", SubSeq(b, j, Len(b)))
        ELSE IF j > Len(b) THEN Op("del", SubSeq(a, i, Len(a)))
        ELSE IF a[i] = b[j] THEN Op("same", <<a[i]>>) \o w[<<i + 1, j + 1>>]
        ELSE IF t[<<i + 1, j>>] >= t[<<i, j + 1>>]
        THEN Op("del", <<a[i]>>) \o w[<<i + 1, j>>]
        ELSE Op("add", <<b[j]>>) \o w[<<i, j + 1>>]
  IN w

\* What differs between head and tail; too much of it is not compared.
Middle(a, b) ==
  IF Len(a) * Len(b) > MaxCells THEN Op("del", a) \o Op("add", b)
  ELSE Walk(a, b)[<<1, 1>>]

DiffLines(old, new) ==
  LET h == CommonHead(old, new)
      t == CommonTail(old, new)
  IN Op("same", SubSeq(old, 1, h))
     \o Middle(SubSeq(old, h + 1, Len(old) - t), SubSeq(new, h + 1, Len(new) - t))
     \o Op("same", SubSeq(new, Len(new) - t + 1, Len(new)))

\* unifiedDiffCount: the lines of the hunks, up to a limit.
OfKind(ops, ks) == {i \in DOMAIN ops : ops[i].kind \in ks}

Hunks(ops) ==
  {i \in DOMAIN ops :
     \E j \in OfKind(ops, {"add", "del"}) : i <= j + Context /\ j <= i + Context}

Counted(ops) ==
  LET shown == Hunks(ops)
      emitted == {i \in shown : Cardinality({j \in shown : j < i}) < MaxLines}
  IN [added |-> Cardinality(emitted \cap OfKind(ops, {"add"})),
      removed |-> Cardinality(emitted \cap OfKind(ops, {"del"})),
      truncated |-> Cardinality(shown) > MaxLines]

-----------------------------------------------------------------------------
(* The files of one tool call: blocks [path, added, removed].              *)

\* merge(): a block of a file that is there is added to it; no file comes
\* beyond the limit.
AddTo(out, b) ==
  LET at == {i \in DOMAIN out : out[i].path = b.path} IN
  IF at # {}
  THEN LET i == CHOOSE j \in at : TRUE IN
       [out EXCEPT ![i].added = @ + b.added, ![i].removed = @ + b.removed]
  ELSE IF Len(out) >= MaxFiles THEN out ELSE Append(out, b)

Merged(blocks) ==
  LET out[n \in 0..Len(blocks)] ==
        IF n = 0 THEN << >> ELSE AddTo(out[n - 1], blocks[n])
  IN out[Len(blocks)]

-----------------------------------------------------------------------------
(* ChangeStatTracker.                                                      *)

VARIABLES
  history,   \* what the tracker has heard since the session was opened
  staged,    \* pending: the number of the statistic held back, 0 if none
  named,     \* whether the tool's name was kept with it
  committed, \* the tool calls that have been counted
  counts     \* what was counted: [tool, stat, at]

trackerVars == <<history, staged, named, committed, counts>>

\* diff: a diff block; input: arguments that count lines if the tool is known
\* by name; named: the update names the tool.
Updates == [tool : ToolCalls, diff : BOOLEAN, input : BOOLEAN, named : BOOLEAN,
            status : {"in_progress", "completed", "failed"}]

TrackerInit ==
  /\ history = << >>
  /\ staged = [c \in ToolCalls |-> 0]
  /\ named = [c \in ToolCalls |-> FALSE]
  /\ committed = {}
  /\ counts = {}

\* changeStatOf: a diff block, or the arguments of a tool known by name.
HasStat(u) == u.diff \/ (u.input /\ (u.named \/ named[u.tool]))

\* Mutant: a failed result leaves what was staged.
KeptOnError(c) == staged

DroppedOnError(c) == [staged EXCEPT ![c] = 0]

ErrorResult(u) ==
  /\ u.status = "failed"
  /\ staged' = DroppedOnError(u.tool)
  /\ named' = [named EXCEPT ![u.tool] = FALSE]
  /\ UNCHANGED <<committed, counts>>

Progress(u) ==
  /\ u.status = "in_progress"
  /\ staged' = IF HasStat(u) THEN [staged EXCEPT ![u.tool] = Len(history')] ELSE staged
  /\ named' = IF HasStat(u) THEN [named EXCEPT ![u.tool] = @ \/ u.named] ELSE named
  /\ UNCHANGED <<committed, counts>>

\* Only the result is counted, and each tool call once.
Settled(u) ==
  LET stat == IF HasStat(u) THEN Len(history') ELSE staged[u.tool] IN
  /\ u.status = "completed"
  /\ staged' = [staged EXCEPT ![u.tool] = 0]
  /\ named' = [named EXCEPT ![u.tool] = FALSE]
  /\ IF stat = 0 \/ u.tool \in committed
     THEN UNCHANGED <<committed, counts>>
     ELSE /\ committed' = committed \cup {u.tool}
          /\ counts' = counts \cup {[tool |-> u.tool, stat |-> stat, at |-> Len(history')]}

OnUpdate(u) ==
  /\ Len(history) < MaxUpdates
  /\ history' = Append(history, u)
  /\ ErrorResult(u) \/ Progress(u) \/ Settled(u)

TrackerNext == \E u \in Updates : OnUpdate(u)

TrackerSpec == TrackerInit /\ [][TrackerNext]_trackerVars

-----------------------------------------------------------------------------
(* Properties.                                                             *)

\* The lines of a and b that a diff may keep.
Matchings(a, b) ==
  {M \in SUBSET ((DOMAIN a) \X (DOMAIN b)) :
     \A p \in M : a[p[1]] = b[p[2]] /\ \A q \in M : p[1] < q[1] <=> p[2] < q[2]}

LcsLength(a, b) == Max({Cardinality(M) : M \in Matchings(a, b)})

\* The lines of the kinds ks are those of the text, in its order.
Spells(ops, ks, text) ==
  LET at == OfKind(ops, ks) IN
  /\ Cardinality(at) = Len(text)
  /\ \A i \in at : ops[i].line = text[Cardinality({j \in at : j <= i})]

\* The diff turns the old text into the new one; where it is computed exactly
\* no diff keeps more lines; and the count is that of the diff unless the
\* limit cuts it, which it says (changeStat.ts, diffLines, unifiedDiffCount).
DiffIsRightFor(old, new) ==
  LET ops == DiffLines(old, new)
      count == Counted(ops)
  IN /\ Spells(ops, {"same", "del"}, old)
     /\ Spells(ops, {"same", "add"}, new)
     /\ Len(old) * Len(new) <= MaxCells =>
          Cardinality(OfKind(ops, {"same"})) = LcsLength(old, new)
     /\ IF count.truncated
        THEN count.added + count.removed <= MaxLines
        ELSE count.added + Len(old) = count.removed + Len(new)

\* The sums of a file's lines, after the first n blocks.
Sums(blocks, p) ==
  LET sum[n \in 0..Len(blocks)] ==
        IF n = 0 THEN [added |-> 0, removed |-> 0]
        ELSE IF blocks[n].path # p THEN sum[n - 1]
        ELSE [added |-> sum[n - 1].added + blocks[n].added,
              removed |-> sum[n - 1].removed + blocks[n].removed]
  IN sum

\* Every file has the sums of its blocks, and the files are the first ones of
\* the tool call, as many as the limit allows (changeStat.ts, merge,
\* changeStatFromDiffBlocks).
MergeIsRightFor(blocks) ==
  LET out == Merged(blocks)
      paths(list) == {list[i].path : i \in DOMAIN list}
      firsts == {i \in DOMAIN blocks : \A j \in 1..(i - 1) : blocks[j].path # blocks[i].path}
  IN /\ Len(out) = Min({MaxFiles, Cardinality(paths(blocks))})
     /\ paths(out) = {blocks[i].path : i \in {i \in firsts :
                        Cardinality({j \in firsts : j < i}) < MaxFiles}}
     /\ \A i \in DOMAIN out :
          LET sum == Sums(blocks, out[i].path)[Len(blocks)] IN
          out[i].added = sum.added /\ out[i].removed = sum.removed

\* What is counted for a tool call is the last statistic it has given before
\* its first good result, given since its last failure; a failed edit is
\* never counted and no call is counted twice (changeStat.ts, onUpdate).
CountedAreGood ==
  \A x \in counts :
    /\ x.stat \in 1..x.at /\ history[x.at].tool = x.tool /\ history[x.stat].tool = x.tool
    /\ history[x.at].status = "completed"
    /\ history[x.stat].diff \/ history[x.stat].input
    /\ \A i \in x.stat..x.at : history[i].tool = x.tool => history[i].status # "failed"
    /\ \A i \in (x.stat + 1)..x.at :
         history[i].tool = x.tool => ~history[i].diff
    /\ \A y \in counts : y.tool = x.tool => y = x

=============================================================================
