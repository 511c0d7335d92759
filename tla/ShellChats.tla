----------------------------- MODULE ShellChats -----------------------------
(***************************************************************************)
(* The chat of one session in the shell: the stream of session/update      *)
(* notifications and its throttling (shell/src/lib/store.ts), the reducer  *)
(* that merges it into items (shell/src/lib/chat.ts), the messages a user  *)
(* sends, the boundaries of turns, and the pages of the transcript that    *)
(* are put in front.                                                       *)
(*                                                                         *)
(* Notifications and answers come over one ordered connection, so the core *)
(* says something and the shell hears it in one step; what the shell asks  *)
(* is answered in a later one.  What is heard is numbered.  An item keeps  *)
(* the numbers of what the stream has put there, and an item of a page the *)
(* numbers of what the page says again.                                    *)
(***************************************************************************)
EXTENDS Naturals, Sequences, FiniteSets, SequencesExt

CONSTANTS Text,        \* kinds of text chunks: assistant, thought
          Tools,       \* tool calls of the agent
          MaxHeard,    \* notifications the stream has
          MaxSends,    \* messages the user sends
          Loads,       \* reads of the transcript
          BatchSize,   \* 256: as many updates are shown at once
          None         \* nothing

ASSUME BoundsAssumption ==
  /\ MaxHeard \in Nat /\ MaxSends \in Nat /\ BatchSize \in Nat \ {0}
  /\ None \notin Tools \cup Nat
  /\ "assistant" \in Text /\ Text \subseteq {"assistant", "thought"}

VARIABLES
  items,      \* ChatState.items
  toolIndex,  \* ChatState.toolIndex: where the card of a tool is, 0 if nowhere
  pending,    \* AppStore.pending: updates heard and not shown yet
  timer,      \* flushTimer: none, armed, or spent (not null, nothing runs)
  heard,      \* how many notifications there were
  modern,     \* whether the core tells the boundaries of turns
  saw,        \* sawTurnNotification
  active,     \* turnActive of the session
  request,    \* the request that carries message m
  turn,       \* the turn of message m at the core: none, open, over
  load,       \* idle, reading, done, failed
  cancels     \* cancels that were answered

vars == <<items, toolIndex, pending, timer, heard, modern, saw, active,
          request, turn, load, cancels>>

chatVars   == <<items, toolIndex>>
streamVars == <<pending, timer, heard>>
turnVars   == <<modern, saw, active, request, turn>>

Sends    == 1..MaxSends
Statuses == {"in_progress", "completed"}

Item(k, o, s, p) ==
  [kind |-> k, of |-> o, status |-> s, local |-> FALSE, parts |-> p, again |-> {},
   live |-> TRUE]

Numbers == Seq(1..MaxHeard)

ChatItem ==
  [kind : Text \cup {"user", "tool", "turn-end", "notice"}, of : Tools \cup Sends \cup {None},
   status : Statuses \cup {None}, local : BOOLEAN, parts : Numbers,
   again : SUBSET (1..MaxHeard), live : BOOLEAN]

SessionUpdate ==
  [kind : Text, of : {None}, status : {None}, parts : Numbers]
    \cup [kind : {"tool"}, of : Tools, status : Statuses, parts : Numbers]

TypeOK ==
  /\ items \in Seq(ChatItem) /\ pending \in Seq(SessionUpdate)
  /\ toolIndex \in [Tools -> Nat]
  /\ timer \in {"none", "armed", "spent"}
  /\ heard \in 0..MaxHeard
  /\ modern \in BOOLEAN /\ saw \in BOOLEAN /\ active \in BOOLEAN
  /\ request \in [Sends -> {"unsent", "prompt", "delivery", "waiting",
                         "done", "delivered", "failed"}]
  /\ turn \in [Sends -> {"none", "open", "over"}]
  /\ load \in [Loads -> {"idle", "reading", "done", "failed"}]
  /\ cancels \in 0..1

Init ==
  /\ items = << >> /\ toolIndex = [c \in Tools |-> 0]
  /\ pending = << >> /\ timer = "none" /\ heard = 0
  /\ modern \in BOOLEAN /\ saw = FALSE /\ active = FALSE
  /\ request = [m \in Sends |-> "unsent"]
  /\ turn = [m \in Sends |-> "none"]
  /\ load = [l \in Loads |-> "idle"]
  /\ cancels = 0

-----------------------------------------------------------------------------
(* The reducer (chat.ts) on a chat [items, index].                         *)

AppendItem(chat, item) == [chat EXCEPT !.items = Append(@, item)]

\* appendChunk: text goes on in the last item if that is of its kind.
AppendChunk(chat, u) ==
  LET n == Len(chat.items) IN
  IF n > 0 /\ chat.items[n].kind = u.kind
  THEN [chat EXCEPT !.items[n].parts = @ \o u.parts]
  ELSE AppendItem(chat, Item(u.kind, None, None, u.parts))

\* upsertTool: the index says where the card is; if no card is there, the
\* update makes a new one.
UpsertTool(chat, u) ==
  LET n == chat.index[u.of] IN
  IF n # 0 /\ chat.items[n].kind = "tool"
  THEN [chat EXCEPT !.items[n].parts = @ \o u.parts, !.items[n].status = u.status]
  ELSE [AppendItem(chat, Item("tool", u.of, u.status, u.parts))
          EXCEPT !.index[u.of] = Len(chat.items) + 1]

ApplyUpdate(chat, u) ==
  IF u.kind \in Text THEN AppendChunk(chat, u) ELSE UpsertTool(chat, u)

\* coalesceUpdates: neighbours of one kind of text become one update.
Joined(out, u) ==
  IF out # << >> /\ u.kind \in Text /\ Last(out).kind = u.kind
  THEN [out EXCEPT ![Len(out)].parts = @ \o u.parts]
  ELSE Append(out, u)

Coalesce(batch) == FoldLeft(Joined, << >>, batch)

Flushed(batch) ==
  FoldLeft(ApplyUpdate, [items |-> items, index |-> toolIndex], Coalesce(batch))

\* Mutant: the timer is cleared and the field is not.
TimerLeft == IF timer = "armed" THEN "spent" ELSE timer

TimerCleared == "none"

\* Mutant: what is held back stays held back.
FlushSkipped(chat) ==
  /\ items' = chat.items /\ toolIndex' = chat.index
  /\ UNCHANGED <<pending, timer>>

\* flushUpdates(), then the chat that is made of what was held back.
FlushInto(chat) ==
  /\ items' = chat.items /\ toolIndex' = chat.index
  /\ pending' = << >>
  /\ timer' = TimerCleared

-----------------------------------------------------------------------------
(* The stream.                                                             *)

Hear(u) ==
  LET batch == Append(pending, u) IN
  /\ heard < MaxHeard
  /\ heard' = heard + 1
  /\ IF Len(batch) >= BatchSize
     THEN FlushInto(Flushed(batch))
     ELSE /\ pending' = batch
          /\ timer' = IF timer = "none" THEN "armed" ELSE timer
          /\ UNCHANGED chatVars
  /\ UNCHANGED <<turnVars, load, cancels>>

HearText(k) == Hear([kind |-> k, of |-> None, status |-> None, parts |-> <<heard + 1>>])

HearTool(c, s) ==
  Hear([kind |-> "tool", of |-> c, status |-> s, parts |-> <<heard + 1>>])

FlushTimerFires ==
  /\ timer = "armed"
  /\ FlushInto(Flushed(pending))
  /\ UNCHANGED <<heard, turnVars, load, cancels>>

\* turn_started: what was heard before it is shown before it.  A message that
\* was delivered may start a turn of its own.
TurnStarts(m) ==
  /\ turn[m] = "none"
  /\ request[m] \in {"prompt", "delivered"}
  /\ turn' = [turn EXCEPT ![m] = "open"]
  /\ IF modern
     THEN saw' = TRUE /\ active' = TRUE /\ FlushInto(Flushed(pending))
     ELSE UNCHANGED <<saw, active, chatVars, pending, timer>>
  /\ UNCHANGED <<heard, modern, request, load, cancels>>

TurnEnd(chat, m, p) == AppendItem(chat, Item("turn-end", m, None, p))

\* Mutant: the boundary overtakes what was heard before it.
TurnFinishesUnflushed(m) ==
  /\ modern /\ turn[m] = "open" /\ heard < MaxHeard
  /\ turn' = [turn EXCEPT ![m] = "over"]
  /\ heard' = heard + 1
  /\ FlushSkipped(TurnEnd([items |-> items, index |-> toolIndex], m, <<heard + 1>>))
  /\ active' = FALSE
  /\ UNCHANGED <<modern, saw, request, load, cancels>>

\* turn_finished comes before or after the answer of the prompt.
TurnFinishes(m) ==
  /\ modern /\ turn[m] = "open" /\ heard < MaxHeard
  /\ turn' = [turn EXCEPT ![m] = "over"]
  /\ heard' = heard + 1
  /\ FlushInto(TurnEnd(Flushed(pending), m, <<heard + 1>>))
  /\ active' = FALSE
  /\ UNCHANGED <<modern, saw, request, load, cancels>>

-----------------------------------------------------------------------------
(* The user.                                                               *)

\* send(): a message goes up the delivery ladder while a turn is shown as
\* active, and starts a turn otherwise.
Send(m) ==
  /\ request[m] = "unsent" /\ \A i \in 1..(m - 1) : request[i] # "unsent"
  /\ items' = Append(items, Item("user", m, None, << >>))
  /\ request' = [request EXCEPT ![m] = IF active THEN "delivery" ELSE "prompt"]
  /\ active' = TRUE
  /\ UNCHANGED <<toolIndex, streamVars, modern, saw, turn, load, cancels>>

\* The receipt is put on the message; one that is refused starts no turn.
DeliveryAnswered(m) ==
  /\ request[m] = "delivery"
  /\ request' = [request EXCEPT ![m] = "delivered"]
  /\ UNCHANGED <<chatVars, streamVars, modern, saw, active, turn, load, cancels>>

\* The answer of session/prompt, after which send() waits for 300 ms.
PromptAnswered(m) ==
  /\ request[m] = "prompt" /\ turn[m] # "none"
  /\ request' = [request EXCEPT ![m] = "waiting"]
  /\ FlushInto(Flushed(pending))
  /\ UNCHANGED <<heard, modern, saw, active, turn, load, cancels>>

\* Refused, or the connection is lost while the turn goes on.
PromptFails(m) ==
  /\ request[m] = "prompt"
  /\ request' = [request EXCEPT ![m] = "failed"]
  /\ FlushInto(AppendItem(Flushed(pending), Item("notice", m, None, << >>)))
  /\ active' = FALSE
  /\ UNCHANGED <<heard, modern, saw, turn, load, cancels>>

\* Mutant: the boundary is made up whoever has told one.
LocalEndAlways(m) == TRUE

\* A core that has never told a boundary will not tell this one.
LocalEnd(m) == ~saw

WaitOver(m) ==
  /\ request[m] = "waiting"
  /\ request' = [request EXCEPT ![m] = "done"]
  /\ items' = IF LocalEnd(m)
              THEN Append(items, Item("turn-end", m, None, << >>))
              ELSE items
  /\ active' = FALSE
  /\ UNCHANGED <<toolIndex, streamVars, modern, saw, turn, load, cancels>>

\* refreshOpen: what session/open has said of the session, where turns of
\* other clients and of tasks run as well.
OpenRefreshed ==
  /\ active' \in BOOLEAN
  /\ (\E m \in Sends : turn[m] = "open" /\ request[m] = "prompt") => active'
  /\ UNCHANGED <<chatVars, streamVars, modern, saw, request, turn, load, cancels>>

\* The answer of session/cancel: cards that run are marked as stopped.
MarkRunningStopped(list) ==
  [i \in DOMAIN list |->
     IF list[i].kind = "tool" /\ list[i].status = "in_progress"
     THEN [list[i] EXCEPT !.local = TRUE] ELSE list[i]]

\* Mutant: cards are marked before what is held back is shown.
CancelAnsweredUnflushed ==
  /\ cancels = 0 /\ active
  /\ cancels' = 1
  /\ FlushSkipped([items |-> MarkRunningStopped(items), index |-> toolIndex])
  /\ UNCHANGED <<heard, turnVars, load>>

CancelAnswered ==
  LET chat == Flushed(pending) IN
  /\ cancels = 0 /\ active
  /\ cancels' = 1
  /\ FlushInto([chat EXCEPT !.items = MarkRunningStopped(@)])
  /\ UNCHANGED <<heard, turnVars, load>>

-----------------------------------------------------------------------------
(* The transcript.                                                         *)

\* Selecting a session reads the last 50 messages if nothing is shown of it.
\* If that fails there is a button for it, whatever is shown by then; once it
\* has been read there may be a button for the page before.
LoadTranscript(l) ==
  /\ \/ load[l] = "failed"
     \/ load[l] = "idle" /\ (items = << >> \/ \E k \in Loads : load[k] = "done")
  /\ load' = [load EXCEPT ![l] = "reading"]
  /\ UNCHANGED <<chatVars, streamVars, turnVars, cancels>>

OldItem(k) == [Item(k, None, IF k = "tool" THEN "completed" ELSE None, << >>)
                 EXCEPT !.live = FALSE]

\* What the transcript has of what the shell has heard or sent.
Messages(list) ==
  {i \in DOMAIN list : \/ list[i].kind = "user" /\ list[i].live
                       \/ list[i].kind \in Text \cup {"tool"} /\ list[i].parts # << >>}

\* transcriptToChat: an item of its own for what is shown by another one.
Repeated(x) ==
  [x EXCEPT !.live = FALSE, !.local = FALSE, !.parts = << >>, !.again = ToSet(x.parts)]

\* The first of some places, in their order.
Beginnings(places) ==
  UNION {{f \in [1..k -> places] :
            /\ \A i, j \in 1..k : i < j => f[i] < f[j]
            /\ \A n \in places : n \in Range(f) \/ \A i \in 1..k : f[i] < n}
          : k \in 0..Cardinality(places)}

\* Messages of before the shell, then as many of the others as there were when
\* the agent was asked.  All of that is less than 50.
PageOf(old, list, f) == old \o [i \in DOMAIN f |-> Repeated(list[f[i]])]

Pages ==
  LET list == Flushed(pending).items
  IN  {PageOf(old, list, f) : old \in {<< >>, <<OldItem("assistant")>>, <<OldItem("tool")>>},
                            f \in Beginnings(Messages(list))}

\* The page goes in front of what is shown when it comes.
Prepended(page, list) == page \o list

PageRead(l, page) ==
  /\ load[l] = "reading"
  /\ load' = [load EXCEPT ![l] = "done"]
  /\ items' = Prepended(page, items)
  /\ UNCHANGED <<toolIndex, streamVars, turnVars, cancels>>

PageFails(l) ==
  /\ load[l] = "reading"
  /\ load' = [load EXCEPT ![l] = "failed"]
  /\ UNCHANGED <<chatVars, streamVars, turnVars, cancels>>

-----------------------------------------------------------------------------
Next ==
  \/ \E k \in Text : HearText(k)
  \/ \E c \in Tools, s \in Statuses : HearTool(c, s)
  \/ FlushTimerFires
  \/ \E m \in Sends :
       \/ TurnStarts(m) \/ TurnFinishes(m)
       \/ Send(m) \/ DeliveryAnswered(m)
       \/ PromptAnswered(m) \/ PromptFails(m) \/ WaitOver(m)
  \/ OpenRefreshed \/ CancelAnswered
  \/ \E l \in Loads :
       \/ LoadTranscript(l) \/ PageFails(l)
       \/ \E page \in Pages : PageRead(l, page)

Spec == Init /\ [][Next]_vars

-----------------------------------------------------------------------------
(* Properties.                                                             *)

PartsAt(i) == ToSet(items[i].parts)
Streamed   == {i \in DOMAIN items : items[i].live /\ items[i].parts # << >>}

Increasing(p) == \A x, y \in DOMAIN p : x < y => p[x] < p[y]

\* The stream shows what the agent says exactly once, in the order in which it
\* was said, with each boundary of a turn behind what was said before it,
\* however the updates are held back, merged and put behind pages: nothing is
\* lost, nothing is in two items (store.ts, flushUpdates, coalesceUpdates;
\* chat.ts, applyUpdate).  What a page says again is not counted here.
StreamOrder ==
  /\ \A i, j \in Streamed :
       i < j => /\ Head(items[i].parts) < Head(items[j].parts)
                /\ items[i].kind \in Text =>
                     Last(items[i].parts) < Head(items[j].parts)
  /\ \A i \in Streamed, j \in DOMAIN pending :
       Last(items[i].parts) < Head(pending[j].parts)
  /\ \A i, j \in DOMAIN items : i # j => PartsAt(i) \cap PartsAt(j) = {}
  /\ \A i \in DOMAIN items : Increasing(items[i].parts)
  /\ \A n \in 1..heard :
       \/ \E i \in DOMAIN items : n \in PartsAt(i)
       \/ \E j \in DOMAIN pending : n \in ToSet(pending[j].parts)

\* Nothing is stranded in the queue when the agent falls silent: as long as an
\* update is held back there is a timer that will show it, whoever has emptied
\* the queue before, and cleared or used up the timer (store.ts, scheduleFlush,
\* which arms none while the field is set, and flushUpdates).
NothingIsStranded == pending # << >> => timer = "armed"

Ends(m) == Cardinality({i \in DOMAIN items : items[i].kind = "turn-end" /\ items[i].of = m})

\* A turn has one boundary in the chat: that of the core, or that which the
\* shell makes up for a core that tells none (store.ts:858, "otherwise an old
\* core and a new one would each give a boundary").
OneBoundaryPerTurn ==
  \A m \in Sends :
    Ends(m) = IF modern THEN IF turn[m] = "over" THEN 1 ELSE 0
              ELSE IF request[m] = "done" THEN 1 ELSE 0

\* When a cancel has been answered no card of what was said before it goes on
\* as running, nor can one appear from the queue (store.ts, cancel).
CancelSettles ==
  [][cancels' # cancels =>
       /\ pending' = << >>
       /\ \A i \in DOMAIN items' :
            items'[i].kind = "tool" /\ items'[i].status = "in_progress" =>
              items'[i].local]_vars

\* The index leads to the card of its tool (chat.ts:103, "toolCallId -> index
\* in items").  A page put in front moves the cards and not the index.
ToolIndexPointsAtCard ==
  \A c \in Tools :
    toolIndex[c] # 0 =>
      /\ toolIndex[c] \in DOMAIN items
      /\ items[toolIndex[c]].kind = "tool" /\ items[toolIndex[c]].of = c

=============================================================================
