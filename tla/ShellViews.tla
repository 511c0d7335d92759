---------------------------- MODULE ShellViews ----------------------------
(***************************************************************************)
(* What the shell makes of the items of its chats: the blocks of a column  *)
(* (segments.ts), the numbers on them (changes.ts), and which of the       *)
(* segments stand open (viewstate.ts and the effects of WorkSegment.tsx).  *)
(*                                                                         *)
(* Items are appended to any chat, the tools among them come to an end,    *)
(* React draws the column of the chat that is shown some time later, the   *)
(* user clicks on what was drawn and shows another chat.  What is open is  *)
(* kept in one table for all chats, under the name of a segment: that of   *)
(* its first item.  A tool is named by its callId, in no other chat; a     *)
(* thought by its number in its chat, so that chats share these names.     *)
(* Items are never put before others: no page of older messages is read    *)
(* (ShellChats).                                                           *)
(***************************************************************************)
EXTENDS Naturals, SequencesExt

CONSTANTS
  Tabs,         \* sessions with a chat in the shell
  NoTab,        \* in the name of an item: of no session
  MaxItems,     \* items of all chats (bound)
  MaxParts      \* groups named in the label of a segment

ASSUME TabAssumption == NoTab \notin Tabs

VARIABLES
  column,       \* column[s]: ChatState.items of session s
  selected,        \* the session whose column is drawn
  openState,    \* openState, by segment
  touched,      \* segments the user has clicked
  drawn,        \* drawn[b]: what segment b, if mounted, was last drawn with
  ran,          \* segments with wasRunning.current
  due,          \* segments with a timer that will fold them
  choice,       \* choice[s][b]: the user's last click on b in s (history)
  clicked       \* clicked[b]: the session of the last click on b (history)

viewVars == <<column, selected, openState, touched, drawn, ran, due, choice, clicked>>

NoPath == "no path"
NotSet == "not set"

Ids == 1 .. MaxItems

(* The names of items: their session, if that tells them apart, and number.*)
Names == (Tabs \cup {NoTab}) \X Ids

(* The numbers of f at the places of I, added up. *)
SumOver(f, I) ==
  LET sum[n \in 0 .. Len(f)] ==
        IF n = 0 THEN 0 ELSE IF n \in I THEN sum[n - 1] + f[n] ELSE sum[n - 1]
  IN  sum[Len(f)]

(* What q has at the places of I, in its order. *)
Those(q, I) ==
  LET kept[n \in 0 .. Len(q)] ==
        IF n = 0 THEN << >> ELSE IF n \in I THEN Append(kept[n - 1], q[n]) ELSE kept[n - 1]
  IN  kept[Len(q)]
-----------------------------------------------------------------------------
(***************************************************************************)
(* Tool cards and their numbers                                            *)
(***************************************************************************)

(* toolState: the shell's own word goes before the agent's.                *)
ToolState(card) == IF card.local # NotSet THEN card.local ELSE card.status

Kinds == {"edit", "delete", "move", "execute", "read", "search", "fetch", "think",
          "switch_mode", "other"}

(* effectiveKind: the declared kind if ACP knows it, or else a guess.      *)
EffectiveKind(card) == IF card.kind \in Kinds THEN card.kind ELSE card.sniffed

(* statFromDiff: what is left between the common head and the common tail. *)
StatFromDiff(a, b) ==
  LET shorter == Min({Len(a), Len(b)})
      head == Min({k \in 0 .. shorter : k = shorter \/ a[k + 1] # b[k + 1]})
      tail == Min({k \in 0 .. shorter - head :
                     k = shorter - head \/ a[Len(a) - k] # b[Len(b) - k]})
  IN  [added |-> Len(b) - head - tail, removed |-> Len(a) - head - tail]

Stat(path, lines) == [path |-> path, added |-> lines.added, removed |-> lines.removed]

(* cardStat: the core's numbers, those of the diffs in the result, or the  *)
(* lines of the input; << >> where the code has null.                      *)
CardStat(card) ==
  IF card.changeStat # << >> THEN card.changeStat
  ELSE IF card.diffs # << >>
  THEN [i \in DOMAIN card.diffs |->
          Stat(card.path, StatFromDiff(card.diffs[i].old, card.diffs[i].new))]
  ELSE [i \in DOMAIN card.input |-> Stat(card.path, card.input[i])]

CountsTowardChanges(card) ==
  ToolState(card) = "completed" /\ EffectiveKind(card) \in {"edit", "delete", "move"}

(* summarizeStats: the lines by path, those without a path beside them.    *)
SummarizeStats(stats, pathless) ==
  LET total(I) == [added |-> SumOver([i \in DOMAIN stats |-> stats[i].added], I),
                   removed |-> SumOver([i \in DOMAIN stats |-> stats[i].removed], I)]
      Of(p) == {i \in DOMAIN stats : stats[i].path = p}
      all == total(DOMAIN stats)
  IN  [files |-> [p \in {stats[i].path : i \in DOMAIN stats} \ {NoPath} |-> total(Of(p))],
       added |-> all.added, removed |-> all.removed,
       pathless |-> pathless + Cardinality(Of(NoPath))]

(* aggregateChanges *)
AggregateChanges(cards) ==
  LET counted == Those(cards, {i \in DOMAIN cards : CountsTowardChanges(cards[i])})
      unknown == {i \in DOMAIN counted : CardStat(counted[i]) = << >>}
  IN  SummarizeStats(FlattenSeq([i \in DOMAIN counted |-> CardStat(counted[i])]),
                     Cardinality(unknown))
-----------------------------------------------------------------------------
(***************************************************************************)
(* Blocks                                                                  *)
(***************************************************************************)

IsTool(item) == item.kind = "tool"

(* isTimelineItem *)
IsTimelineItem(item) == item.kind = "thought" \/ IsTool(item)

Cards(its) ==
  LET tools == Those(its, {i \in DOMAIN its : IsTool(its[i])})
  IN  [i \in DOMAIN tools |-> tools[i].card]

(* bucketOf *)
BucketOf(item) ==
  IF ~IsTool(item) THEN "think"
  ELSE LET kind == EffectiveKind(item.card)
       IN  CASE kind \in {"edit", "delete", "move"}  -> "changes"
             [] kind = "execute"                     -> "terminal"
             [] kind \in {"read", "search", "fetch"} -> "explore"
             [] kind = "think"                       -> "think"
             [] OTHER                                -> "other"

(* bucketize: neighbours of one kind form a group. *)
Bucketize(its) ==
  LET Into(groups, item) ==
        IF groups # << >> /\ Last(groups).bucket = BucketOf(item)
        THEN [groups EXCEPT ![Len(groups)].items = Append(@, item)]
        ELSE Append(groups, [bucket |-> BucketOf(item), items |-> <<item>>])
  IN  FoldLeft(Into, << >>, its)

Content(item) == [kind |-> "content", id |-> item.id, items |-> <<item>>]

(* Mutant: the segment is named after its newest item. *)
SegmentNamedLast(its) == [kind |-> "segment", id |-> Last(its).id, items |-> its]

(* A segment is remembered by its first item. *)
Segment(its) == [kind |-> "segment", id |-> Head(its).id, items |-> its]

(* flush(): a single tool makes no segment, a single thought does. *)
FlushBlocks(blocks, pending) ==
  CASE pending = << >>                             -> blocks
    [] Len(pending) = 1 /\ IsTool(Head(pending))   -> Append(blocks, Content(Head(pending)))
    [] OTHER                                       -> Append(blocks, Segment(pending))

(* Visible text ends a segment, text still empty does not. *)
IntoBlocks(acc, item) ==
  CASE IsTimelineItem(item)  -> [acc EXCEPT !.pending = Append(@, item)]
    [] item.kind = "blank"   -> acc
    [] OTHER -> [blocks |-> Append(FlushBlocks(acc.blocks, acc.pending), Content(item)),
                 pending |-> << >>]

(* splitBlocks *)
SplitBlocks(its) ==
  LET end == FoldLeft(IntoBlocks, [blocks |-> << >>, pending |-> << >>], its)
  IN  FlushBlocks(end.blocks, end.pending)

Segments(its) == {b \in ToSet(SplitBlocks(its)) : b.kind = "segment"}

IsSettled(card) == ToolState(card) \in {"completed", "failed", "denied", "stopped"}

(* labelCards: the settled tools, or the last one if none is. *)
LabelCards(its) ==
  LET cards == Cards(its)
      settled == Those(cards, {i \in DOMAIN cards : IsSettled(cards[i])})
  IN  IF settled # << >> \/ cards = << >> THEN settled ELSE <<Last(cards)>>

HasFailed(card) == ToolState(card) = "failed"

Failures(cards) == Those(cards, {i \in DOMAIN cards : HasFailed(cards[i])})

(* groupSummary: how many items, and how many files for changes. *)
GroupSummary(group) ==
  LET paths == {card.path : card \in ToSet(Cards(group.items))}
      lost == Cardinality({i \in DOMAIN Cards(group.items) : Cards(group.items)[i].path = NoPath})
  IN  [bucket |-> group.bucket, count |-> Len(group.items),
       files |-> IF group.bucket = "changes" /\ paths # {NoPath}
                 THEN Cardinality(paths \ {NoPath}) + lost ELSE 0]

(* segmentLabel: the largest groups (of two as large the first), the rest  *)
(* together, the failures, and the lines, if a file is known.              *)
SegmentLabel(its) ==
  LET groups == Bucketize(its)
      parts == [i \in DOMAIN groups |-> GroupSummary(groups[i])]
      ahead(i) == {j \in DOMAIN parts : \/ parts[j].count > parts[i].count
                                        \/ parts[j].count = parts[i].count /\ j < i}
      named == {i \in DOMAIN parts : Cardinality(ahead(i)) < MaxParts}
      cards == FlattenSeq([i \in DOMAIN groups |-> LabelCards(groups[i].items)])
      stat == AggregateChanges(cards)
  IN  [parts |-> [i \in named |-> parts[i]],
       rest |-> SumOver([i \in DOMAIN parts |-> parts[i].count], DOMAIN parts \ named),
       failed |-> Len(Failures(cards)),
       stat |-> IF DOMAIN stat.files = {} THEN << >> ELSE <<stat>>]

(* segmentRunning, segmentHasFailure *)
SegmentRunning(its) == \E c \in ToSet(Cards(its)) : ToolState(c) \in {"pending", "in_progress"}
SegmentHasFailure(its) == \E c \in ToSet(Cards(its)) : HasFailed(c)

(* cardsByTurn: the cards before each end of a turn. *)
CardsByTurn(its) ==
  LET ends == {i \in DOMAIN its : its[i].kind = "turn-end"}
  IN  [i \in ends |-> Cards(SubSeq(its, Max({0} \cup {j \in ends : j < i}) + 1, i))]
-----------------------------------------------------------------------------
(***************************************************************************)
(* Items arrive                                                            *)
(***************************************************************************)

(* "t<seq>" and the like, counted in each chat; the callId of a tool.      *)
Thought(n) == [id |-> <<NoTab, n>>, kind |-> "thought"]
Other(n, kind) == [id |-> <<NoTab, n>>, kind |-> kind]
Tool(s, n, card) == [id |-> <<s, n>>, kind |-> "tool", card |-> card]

Command(status) ==
  [kind |-> "execute", sniffed |-> "execute", status |-> status, local |-> NotSet,
   path |-> NoPath, changeStat |-> << >>, diffs |-> << >>, input |-> << >>]

ItemArrives(s) ==
  LET n == Len(column[s]) + 1
  IN  /\ Cardinality(UNION {{t} \X DOMAIN column[t] : t \in Tabs}) < MaxItems
      /\ \E item \in {Thought(n), Tool(s, n, Command("in_progress")), Other(n, "body"),
                      Other(n, "blank")} :
           column' = [column EXCEPT ![s] = Append(@, item)]
      /\ UNCHANGED <<selected, openState, touched, drawn, ran, due, choice, clicked>>

(* The text of the newest item is no longer empty. *)
TextArrives(s) ==
  /\ column[s] # << >> /\ Last(column[s]).kind = "blank"
  /\ column' = [column EXCEPT ![s][Len(column[s])].kind = "body"]
  /\ UNCHANGED <<selected, openState, touched, drawn, ran, due, choice, clicked>>

(* A tool ends, or is stopped by a cancel. *)
ToolEnds(s, n) ==
  /\ n \in DOMAIN column[s] /\ IsTool(column[s][n]) /\ ~IsSettled(column[s][n].card)
  /\ \/ \E status \in {"completed", "failed"} :
          column' = [column EXCEPT ![s][n].card.status = status]
     \/ column' = [column EXCEPT ![s][n].card.local = "stopped"]
  /\ UNCHANGED <<selected, openState, touched, drawn, ran, due, choice, clicked>>
-----------------------------------------------------------------------------
(***************************************************************************)
(* Segments open and close                                                 *)
(***************************************************************************)

(* Map.set *)
Put(map, key, value) ==
  [k \in DOMAIN map \cup {key} |-> IF k = key THEN value ELSE map[k]]

(* readOpen *)
ReadOpen(b, fallback) == IF b \in DOMAIN openState THEN openState[b] ELSE fallback

Look(segment) ==
  [running |-> SegmentRunning(segment.items), failed |-> SegmentHasFailure(segment.items)]

IsOpen(b) == ReadOpen(b, drawn[b].running \/ drawn[b].failed)

(* The segments of a session and how they look.                            *)
Looks(s) ==
  [b \in {seg.id : seg \in Segments(column[s])} |->
     Look(CHOOSE seg \in Segments(column[s]) : seg.id = b)]

(* Those that look other than they were last drawn, or were not drawn.     *)
Differ(s) == {b \in DOMAIN Looks(s) : b \in DOMAIN drawn => drawn[b] # Looks(s)[b]}

(* The column of session s is drawn: segments of other names go, with      *)
(* their timers, one of the same name is taken for the same.  The effects  *)
(* of the segments that look different run: each takes its old timer back, *)
(* and sets one if its tools have just come to an end and none has failed. *)
Redraw(s) ==
  LET kept == DOMAIN Looks(s)
      running == {b \in Differ(s) : Looks(s)[b].running}
      ended == (Differ(s) \cap ran) \ running
  IN  /\ drawn' = Looks(s)
      /\ ran' = ((ran \cap kept) \ ended) \cup running
      /\ due' = ((due \cap kept) \ Differ(s)) \cup {b \in ended : ~Looks(s)[b].failed}
      /\ UNCHANGED <<column, openState, touched, choice, clicked>>

Draw ==
  /\ Differ(selected) # {}
  /\ Redraw(selected)
  /\ UNCHANGED selected

(* Another session is selected and drawn.                                  *)
Show(s) ==
  /\ s # selected
  /\ selected' = s
  /\ Redraw(s)

(* autoOpen: what the user has clicked is left alone. *)
AutoOpen(b, value) ==
  openState' = IF b \in touched THEN openState ELSE Put(openState, b, value)

(* The timer fires. *)
Fold(b) ==
  /\ b \in due
  /\ due' = due \ {b}
  /\ AutoOpen(b, FALSE)
  /\ UNCHANGED <<column, selected, touched, drawn, ran, choice, clicked>>

(* toggleOpen, with what was last drawn. *)
Toggle(b) ==
  /\ b \in DOMAIN drawn
  /\ openState' = Put(openState, b, ~IsOpen(b))
  /\ touched' = touched \cup {b}
  /\ choice' = [choice EXCEPT ![selected] = Put(@, b, ~IsOpen(b))]
  /\ clicked' = Put(clicked, b, selected)
  /\ UNCHANGED <<column, selected, drawn, ran, due>>
-----------------------------------------------------------------------------
ViewInit ==
  /\ selected \in Tabs
  /\ choice = [s \in Tabs |-> << >>]
  /\ openState = << >> /\ clicked = << >> /\ drawn = << >>
  /\ touched = {} /\ ran = {} /\ due = {}

ViewNext ==
  \/ Draw
  \/ \E s \in Tabs : ItemArrives(s) \/ TextArrives(s) \/ Show(s)
  \/ \E s \in Tabs, n \in Ids : ToolEnds(s, n)
  \/ \E b \in Names : Fold(b) \/ Toggle(b)

ViewSpec == column = [s \in Tabs |-> << >>] /\ ViewInit /\ [][ViewNext]_viewVars
-----------------------------------------------------------------------------
(***************************************************************************)
(* Properties                                                              *)
(***************************************************************************)

(* The blocks show what is to be shown, each item once and in its order;   *)
(* two segments never follow one another, and a group is as long as it can *)
(* be (segments.ts, splitBlocks and bucketize).                            *)
BlocksAreExact(its) ==
  LET blocks == SplitBlocks(its)
      groups(b) == Bucketize(b.items)
  IN  /\ FlattenSeq([i \in DOMAIN blocks |-> blocks[i].items])
           = Those(its, {i \in DOMAIN its : its[i].kind # "blank"})
      /\ \A i \in DOMAIN blocks \ {1} :
           "content" \in {blocks[i - 1].kind, blocks[i].kind}
      /\ \A b \in Segments(its) :
           /\ FlattenSeq([i \in DOMAIN groups(b) |-> groups(b)[i].items]) = b.items
           /\ \A i \in DOMAIN groups(b) \ {1} :
                groups(b)[i].bucket # groups(b)[i - 1].bucket

(* A completed write is counted once: the label of a segment, put together *)
(* from groups and from the tools that have settled, has the lines, the    *)
(* failures and the items of the whole segment, and the turns of a chat    *)
(* add up to the writes before its last end of a turn.                     *)
Written(cards) ==
  {i \in DOMAIN cards : ToolState(cards[i]) = "completed"
                        /\ EffectiveKind(cards[i]) \in {"edit", "delete", "move"}}

LinesOf(cards) ==
  SumOver([i \in DOMAIN cards |->
             LET stats == CardStat(cards[i])
             IN  SumOver([j \in DOMAIN stats |-> stats[j].added], DOMAIN stats)],
          Written(cards))

NumbersAddUp(its) ==
  /\ \A b \in Segments(its) :
       LET label == SegmentLabel(b.items)
           shown == [i \in DOMAIN Bucketize(b.items) |->
                       IF i \in DOMAIN label.parts THEN label.parts[i].count ELSE 0]
       IN  /\ \A i \in DOMAIN label.stat : label.stat[i].added = LinesOf(Cards(b.items))
           /\ label.failed = Len(Failures(Cards(b.items)))
           /\ SumOver(shown, DOMAIN shown) + label.rest = Len(b.items)
  /\ LET turns == CardsByTurn(its)
         counts == [i \in DOMAIN its |->
                      IF i \in DOMAIN turns THEN AggregateChanges(turns[i]).added ELSE 0]
     IN  SumOver(counts, DOMAIN counts)
           = LinesOf(Cards(SubSeq(its, 1, Max({0} \cup DOMAIN turns))))

(* The shell's count of a diff is none when nothing differs, and never     *)
(* less than the core's, by the same number of lines on both sides.        *)
TrimIsBound(a, b, added, removed) ==
  LET stat == StatFromDiff(a, b)
  IN  /\ a = b => stat.added = 0 /\ stat.removed = 0
      /\ added <= stat.added /\ stat.added - added = stat.removed - removed

(* "The user's own click goes before the automatic rule from then on": a   *)
(* segment the user has folded or unfolded stays so, and stays a segment,  *)
(* while more items reach it, its tools end and sessions are switched,     *)
(* unless it begins with a thought and the user has since clicked the      *)
(* segment of the same name in another session (viewstate.ts, autoOpen;    *)
(* segments.ts, the key of a segment).                                     *)
ChoiceStands ==
  \A s \in Tabs : \A b \in DOMAIN choice[s] :
    /\ b \in {seg.id : seg \in Segments(column[s])}
    /\ openState[b] = choice[s][b] \/ (b[1] = NoTab /\ clicked[b] # s)

(* "A failure that is hidden automatically is a bug, not a feature"        *)
(* (segments.ts:254): a segment with a failed tool that the user has never *)
(* clicked stands open.                                                    *)
FailureIsShown ==
  \A b \in DOMAIN drawn \ touched : drawn[b].failed => IsOpen(b)
=============================================================================
