------------------------------ MODULE MCReads ------------------------------
(* What the core derives and serves (transcripts in pages, change          *)
(* statistics, descriptors, the session graph) and what the shell makes of *)
(* it (the list of a directory, the blocks of a chat and their numbers),   *)
(* for TLC.  They share no state: one behaviour follows one of Parts.      *)
(*                                                                         *)
(* Transcripts: two clients, so that one joins the read of another; four   *)
(* messages in pages of two; two engines, one to die.  Diffs: all pairs of *)
(* texts of up to four lines of two kinds, beyond and within the limits.   *)
(* Files: up to three blocks, one too many.  Tracker: three updates, of    *)
(* two tool calls or of one that fails and is repeated.  Descriptors: two  *)
(* sessions in two directories, one of them a repository, and restarts.    *)
(* Graph: three sessions and a human, two edges.                           *)
(* Directory: one session of the agent and one to come, three calls of the *)
(* store, two at a time.                                                   *)
(* Views: two sessions and four items, to arrive in either while the user  *)
(* clicks.  Numbers: every chat of up to four items, tools in every state  *)
(* and of every source.                                                    *)
EXTENDS Transcripts, ChangeStats, Capabilities, SessionGraph, ShellDirectory, ShellViews

CONSTANTS
  Parts,                \* what the behaviours follow
  Lines, MaxLen, Paths

VARIABLES part, old, new, blocks

inputVars == <<part, old, new, blocks>>

Texts == UNION {[1..n -> Lines] : n \in 0..MaxLen}
Blocks == [path : Paths, added : {1, 2}, removed : {0, 1}]

Card(kind, status, path, stats) ==
  [kind |-> kind, sniffed |-> "edit", status |-> status, local |-> NotSet,
   path |-> path, changeStat |-> << >>, diffs |-> << >>, input |-> stats]

Edit(status, path) == Card("edit", status, path, <<[added |-> 1, removed |-> 0]>>)

\* An edit counted by the core, one counted from a diff and of a kind ACP does
\* not know, one without a path, one without numbers, one that failed, one
\* that runs, one the user denied; and a command.
ToolCards ==
  {[Edit("completed", "x") EXCEPT !.changeStat =
      <<[path |-> "x", added |-> 2, removed |-> 1], [path |-> "y", added |-> 1, removed |-> 0]>>],
   [Card("patch", "completed", "y", << >>) EXCEPT !.diffs =
      <<[old |-> <<"a", "b">>, new |-> <<"a", "c", "b">>]>>],
   Edit("completed", NoPath), Card("delete", "completed", NoPath, << >>),
   Edit("failed", "x"), Edit("in_progress", "x"),
   [Edit("pending", "x") EXCEPT !.local = "denied"],
   Command("completed")}

ItemsAt(s, n) ==
  {Thought(n)} \cup {Tool(s, n, c) : c \in ToolCards}
    \cup {Other(n, k) : k \in {"body", "blank", "turn-end"}}

ChatsOf(s, n) ==
  {f \in [1..n -> UNION {ItemsAt(s, i) : i \in 1..n}] : \A i \in 1..n : f[i].id[2] = i}

MCInit ==
  /\ part \in Parts
  /\ IF part = "diff" THEN old \in Texts /\ new \in Texts ELSE old = << >> /\ new = << >>
  /\ IF part = "files"
     THEN blocks \in UNION {[1..n -> Blocks] : n \in 0..3} ELSE blocks = << >>
  /\ selected = CHOOSE s \in Tabs : TRUE
  /\ \E chat \in IF part = "numbers" THEN UNION {ChatsOf(selected, n) : n \in 0..MaxItems}
                  ELSE {<< >>} :
       column = [s \in Tabs |-> IF s = selected THEN chat ELSE << >>]
  /\ ReadInit /\ (part # "transcript" => written = 0)
  /\ TrackerInit /\ CapInit /\ GraphInit /\ ViewInit
  /\ DirInit /\ listed = (IF part = "directory" THEN {CHOOSE c \in Chats : TRUE} ELSE {})

MCNext ==
  /\ UNCHANGED inputVars
  /\ \/ /\ part = "transcript" /\ ReadNext
        /\ UNCHANGED <<trackerVars, capVars, graphVars, dirVars, viewVars>>
     \/ /\ part = "tracker" /\ TrackerNext
        /\ UNCHANGED <<readVars, capVars, graphVars, dirVars, viewVars>>
     \/ /\ part = "descriptor" /\ CapNext
        /\ UNCHANGED <<readVars, trackerVars, graphVars, dirVars, viewVars>>
     \/ /\ part = "graph" /\ GraphNext
        /\ UNCHANGED <<readVars, trackerVars, capVars, dirVars, viewVars>>
     \/ /\ part = "directory" /\ DirNext
        /\ UNCHANGED <<readVars, trackerVars, capVars, graphVars, viewVars>>
     \/ /\ part = "views" /\ ViewNext
        /\ UNCHANGED <<readVars, trackerVars, capVars, graphVars, dirVars>>

MCSpec ==
  /\ MCInit
  /\ [][MCNext]_<<inputVars, readVars, trackerVars, capVars, graphVars, dirVars, viewVars>>
  /\ \A w \in Clients : WF_readVars(LoadStep(w))

\* What the shell puts together from items, cards, groups and segments is
\* neither counted twice nor left out: the blocks of every chat have each item
\* once, and its numbers add up (segments.ts, changes.ts).
ViewsAddUp == \A s \in Tabs : BlocksAreExact(column[s]) /\ NumbersAddUp(column[s])

\* The diff of two texts, and the sum over the files of a tool call, are
\* what they should be (changeStat.ts, diffLines, unifiedDiffCount, merge);
\* the shell's own count of a diff is a bound of them (changes.ts,
\* statFromDiff).
CountsAreRight ==
  LET exact == DiffLines(old, new)
  IN  /\ DiffIsRightFor(old, new) /\ MergeIsRightFor(blocks)
      /\ TrimIsBound(old, new, Cardinality(OfKind(exact, {"add"})),
                     Cardinality(OfKind(exact, {"del"})))

\* No statistic of the core or the shell counts what it should not, or twice.
StatsAreRight == CountsAreRight /\ ViewsAddUp
=============================================================================
