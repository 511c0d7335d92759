# TLA+ verification of pulpo

Pulpo is a local daemon ("core") between clients (a desktop shell, scripts, the agents
themselves) and coding agents that speak ACP over stdio. It opens agent sessions, proxies
prompts, injects supplementary messages into running turns, lets one agent delegate a task to
another, asks the user for permissions, takes git snapshots around turns so that they can be
undone, and serves the transcripts agents keep. Everything is asynchronous JavaScript: no two
handlers run at once, but every `await` lets every other handler run, agents are separate
processes that may die at any time, and clients send what they like. That is where the hazards
are, and what these modules model.

Paths below are relative to `packages/` of the repository; `core/` means
`packages/core/src/`, `shell/` and `companion/` mean the `src/` of those packages.

## 1. The system

| Component | State | Operations | Interacts with |
|---|---|---|---|
| Kernel (`core/acp/kernel.ts`, `acp/agent.ts`) | `sessions` (handles by ref, each with `turns`, `turnActive`), agent processes `all`, `controls`, companion tokens and their waiters | newSession, resumeSession, closeSession, listSessions, prompt, cancel, shutdown; exit of a process | agents (ACP requests and notifications), events to the daemon |
| Delivery ladder (`core/delivery/ladder.ts`) | `queues` per session | deliver (five tiers, one retry), drain | kernel turns, steering extension of the agent, descriptor |
| Descriptor (`core/descriptor/*`) | descriptor per session, cache per agent, overlay | build, correct by overlay and by evidence, cache, probe | ladder reads the steering tier |
| Delegation broker (`core/broker/delegate.ts`) | task records, `tasks.json` | delegate, runTurn, cancelTask, markAwaitingApproval, load | kernel, graph, ladder (drain), approvals |
| Session graph (`core/graph/sessionGraph.ts`) | nodes, edges, subagent parents, `session-graph.json` | upsertNode, add edges, isDelegationChild, tree, load/save | broker, methods, daemon |
| Approval hub (`core/server/approvals.ts`) | `pending` map, timers | request, respond, cancelForSession, shutdown | agents wait for answers, clients give them |
| Turn snapshots (`core/git/snapshot.ts`) | ledger of turns, `turns.json` | begin, noteTouched, finish, changes, revert | git, the working tree, which agents and user write |
| Daemon and methods (`core/server/daemon.ts`, `methods.ts`, `rpc.ts`, `cli.ts`) | connections, `turnOf`, socket file, port | RPC methods; wiring of the events; start and stop | all of the above |
| Change statistics (`core/derive/changeStat.ts`) | statistics held back per tool call | line diff, count, merge, onUpdate | daemon, shell |
| Read layer (`core/read/*`) | page cursors, transcript cache, one engine process with a request table | list, read, page | the engine and the store of the agent |
| Companion (`companion/*`, `core/companion/inject.ts`) | socket, pending table, identity | identify, call, reconnect | core, on behalf of an agent |
| Shell client (`shell/lib/rpc.ts`) | socket, pending table, retry timer | connect, call, reconnect, dispose | core |
| Shell store and chat model (`shell/lib/*`) | chats, queue of updates, cards, directories, open segments | reduce events, send, cancel, load pages, answer cards, list and open sessions | shell client, the user |
| Desktop host (`shell/src-tauri`) | the core it has spawned | ensure_core, end of the window | core |

What is hard, component by component, and what makes it correct:

* **Kernel turns.** Prompts of one session overlap: a client, a task and the ladder's concurrent
  tier may each have one in flight. `turnActive` must be up exactly while one is.
* **Kernel tables.** Calls race for handles and processes over many awaits, an agent may refuse, exit
  or be slow at each, and the stop of the core comes at any time. Every call returns, and what was
  spawned is stopped.
* **Ladder.** `turnActive`, the descriptor and the agent's answers are all stale by the time they
  are used. A receipt must be true: "injected" got in, nothing is taken twice by retry or redelivery,
  no turn starts unasked, every call returns, and a queued message leaves the queue towards the agent.
* **Broker and graph.** The breaker is checked before three awaits and the edge written after them;
  status is written by the turn, by cancel and by approvals; two files are written one after the
  other. One level of delegation, statuses that mean something, a disk that is consistent wherever the
  process dies, every task ends, and a tree that loses no session over a restart.
* **Approvals.** Client, second client, timer, cancel and shutdown race for one request. It is
  settled once, granted only by somebody who may, and somebody told "ok" really decided.
* **Snapshots.** Two comparisons of trees and a hash decide what a revert may overwrite while
  other processes write the same files. It must undo the turn and nothing else. The ledger must
  keep its limit, and book edits on the right turn while turns overlap and sessions come and go.
* **Start, stop and connections.** Several cores and shells share one socket file, and one port, unless
  they are told otherwise. Old sockets, retry timers and dials overlap with new ones. No file of a live core
  is removed, no call is forgotten, no client stays down.
* **Reads.** The engine reads only sessions that are active in it, so each read changes it; pages come
  from different snapshots. Pages join, reads do not disturb one another, every read returns.
* **Derived data.** Line counts with limits, a statistic that waits for the result of its tool call, a
  descriptor corrected in four ways and cached in one. They must say what is so, or admit less.
* **Shell.** Updates are held back while answers and turn boundaries are not; lists are answered
  late and under several names; timers fold what a user clicks on. The chat shows all that
  was said, once and in order; what waits for the user is on the screen; a choice of the user stands.

Not all of that is so: section 5 says where the code falls short, and the properties say how far it goes.

`PROJECT.json` lists every hazard at its line with the properties that watch it, and the source
lines behind every definition.

## 2. Modules

| Module | Models | Run through |
|---|---|---|
| `DeliveryTiers` | tier order, `candidateTiers`, `mapSteeringOutcome`: pure decisions | `Delivery`, `Capabilities` |
| `Delivery` | kernel turns, ladder, queue, drain, agent answers | `MCDelivery` |
| `Delegation` | broker, edges of the graph, both files, crash and restart | `MCDelegation` |
| `Consent` | what the approval hub promises (abstract) | refined by `Approvals` |
| `Approvals` | approval hub, its clients, timers, cancels, stop | `MCSessions` |
| `TurnRevert` | trees around a turn, writers of the working tree, session/revert | `MCTurnRevert`, `MCTurns` |
| `TurnLedger` | turn events, `turnOf`, ledger and `turns.json` | `MCTurns` |
| `Sessions` | handles, agent processes, control processes, shutdown, companion tokens | `MCSessions` |
| `Startup` | cores, socket file, port, desktop hosts | `MCClients` |
| `Connections` | one client (shell or companion) and the core's end of its sockets | `MCClients` |
| `Transcripts` | pages, transcript cache, the calls to the engine | `MCReads` |
| `ChangeStats` | line diff, count, merge, tracker of tool calls | `MCReads` |
| `Capabilities` | descriptors: words, overlay, evidence, cache, probe | `MCReads` |
| `SessionGraph` | every writer of nodes and edges, the file, the tree | `MCReads` |
| `ShellDirectory` | the sessions of a directory in the store | `MCReads` |
| `ShellViews` | blocks of a chat, numbers on cards, which segments stand open | `MCReads` |
| `ShellChats` | stream, reducer, sends, boundaries, cancels, pages | `MCShell` |
| `ShellCards` | approval cards over a connection that is lost | `MCShell` |
| `*_proofs` | theorems for every value of the constants (section 6) | TLAPS |

How they meet: `Delivery` EXTENDS `DeliveryTiers` and composes kernel, ladder and the
one place of the broker that drains the queue, since the properties of receipts are about all
three. `Delegation` takes from the hub only what it does to a task (a request opens, a request is
settled), `Approvals` takes from the kernel only which sessions are open. `Sessions` is the kernel
without turns. `TurnRevert` and `TurnLedger` split one component: the first has the contents of files
and no sessions, the second sessions and no contents. Their common ground is that
revert looks the turn up in the ledger, and in `TurnRevert` a turn that the ledger has dropped is
a call not made, or a comparison not made (`NoComparison`). `Connections` is both ends of a
connection; `Startup` what has to happen before there is one. `ShellChats` and `ShellCards` hear
what the core of `Delivery`, `TurnLedger` and `Approvals` says, over a connection they assume ordered,
which is what `Connections` gives them until it breaks. `SessionGraph` has every writer of the graph but saves in one
step; `Delegation` has the crash between its file and that of the tasks.

**One behaviour, one part.** `MCSessions`, `MCTurns`, `MCClients`, `MCReads` and `MCShell` hold several modules
that share no state. Their product would only multiply interleavings of steps that commute, so a variable `part`,
chosen in the initial state and kept, says which module the behaviour follows; the variables of the others stay at
their initial values. Every property is checked in every part, and in those of other modules it holds by the
initial state.

### Correspondence

*An await is a boundary between actions; what runs without an await is one action.* In
`Delivery` the synchronous head of `deliver` walks several tiers; it is modelled tier by tier, and
the variable `loop` lets nothing else run in between. In `Delegation` two files are written
without an await; `saving` keeps the two writes together for everybody but a crash.

* `Delivery`: `phase[x]` follows `AcpKernel.prompt` (none, snapshot = `onTurnStart` is awaited,
  sent, running, answered = the finally block has not run yet, over). `startedAt` and `spoken` are
  the fields of `TurnInfo`; `step[m]` is the await at which the `deliver` call for `m` stands;
  `word[m]` the steering answer on its way; `receipt[m]` what the call returned. An agent takes a
  content at most when it is prompted with it or steered with it; `taken` counts.
* `Delegation`: `call[t]` is the await at which `task/delegate` stands (opening = newSession,
  configuring = setConfigOption, closing after a breaker refusal, ready = recorded, the turn not yet
  begun), `turn[t]` that of `runTurn`, `cancelling[t]` that of `cancelTask`. `task`/`diskTask` are
  the statuses in memory and in `tasks.json`; `delegates`, `results` and `diskGraph` the graph and
  its file.
* `Approvals`: `pending` is the map of the hub; the resolution of the promise and the answer to the
  agent follow in microtasks, so they are one action. `told` and `chose` remember what each client
  was answered and what it had asked for.
* `TurnRevert`: `file` is the working tree; `before`, `after`, `changed`, `blob` are treeBefore,
  treeAfter, the paths in files, and afterBlob. A call of revert goes path by path: `CheckPath` is
  the part before the awaits of `treeHasPath`/`readFromTree`, `WritePath` the part after. `TreeHasPath` is no
  whenever git has not answered; the history variable `quiet` forgets a turn where that was so.
* `TurnLedger`: `stage` opening = begin() waits for git, finishing = finish() does, forgotten =
  finish() has not found the turn. `startedAt` is the order of starts.
* `Sessions`: a call spawns at most one process, which bears its name, and so does the token of
  that process's companion. `step[c]` is the await of the call, `closing[x]` that of a
  `session/close`, with the handle it has taken in `target[x]`; `all`, `sessions`, `control` and
  `known` are the tables of the kernel.
* `Startup`: `wants[c]` is what the command line of a core asks for: the socket file or none, a port or none.
  `core[c]` follows `start()` (probing = a connection to the file is tried, clearing = nobody answered, binding,
  onSocket, serving) and `stop()`; `file` is whose socket file is at the path, `port[q]` who listens on port `q`;
  `host[h]` follows `ensure_core`, which starts a core with the defaults and looks at the default port. A core
  with a socket file elsewhere is one without: it has nothing to do with this one.
* `Connections`: sockets are numbered as they are opened; `sock[n]` is the client's view (broken: lost,
  its close event has not come yet; shut: the client has closed it). `cur` is the field `ws` or `conn`,
  `dial` the promise `connecting`, `retry` the timer.
* `Transcripts`: `loading[w]` is the engine call at which the load of client `w` stands; `cached`,
  `fresh`, `inflight` are the fields of the cache entry; a cursor is the number of a message. `engines[n]`
  tells an engine that has exited (dead) from one that a signal has killed, which `alive` takes for running.
  `unsure[n]` is history: a call to the engine was late, or it has refused to close, and it has not closed since.
* `Capabilities`: a descriptor is its steering tier, the risk of one mode and the ability to revert,
  with the words it was made of (`said`) and the corrections it admits.
* `SessionGraph`: `graph` is the object of three fields the class keeps, `disk` the file; `Tree` is the
  recursion of `tree()` with its set `seen`.
* `ShellChats`: what is heard is numbered and an item keeps the numbers it shows. `pending` and
  `timer` are the queue of updates and its `flushTimer`, `toolIndex` is that of the chat. A page is what was
  said before the shell was there, then any beginning of what has been heard and sent since; its items
  have the numbers they say again in `again`, and `live` tells the items that a page has brought from others.
  `load[l]` is one call of `loadTranscript`.
* `ShellCards`: `hub` is the request at the core, `cards` how many cards show it, `boot` the progress of
  `bootstrap()`.
* `ShellDirectory`: each call of the store is a thread; `known`, `rows`, `nativeIds`, `shown`
  are `openSessions`, `directories`, `nativeIds`, `activeRef`. A name is a sequence, so that one may be
  the end of the other, as `sameSession` compares them.
* `ShellViews`: `column[s]` is the chat of session `s` and `selected` the session on the screen. The name of a
  segment is that of its first item: of a tool, which no other session has, or of a thought, which is its number in
  the chat (`NoTab`). `drawn[b]` is what React last drew segment `b` with, `ran` and `due` are the ref and the
  timer of the effect in `WorkSegment`; `openState` and `touched` are the tables of `viewstate.ts`, one for all
  sessions. `choice` and `clicked` are history: how the user has left a segment of a session, and in which
  session a name was clicked last.

Variables called history in the modules are not in the code; they remember what properties need
(who wrote a file last, which turns overlapped), and no guard reads them, except for `used`, which
bounds what the user writes.

## 3. Runs

| Run | Instance | Shows |
|---|---|---|
| `Delivery_safe` | 2 messages, 1 prompt, 1 task; two agents; five preferences | receipts are true; `turnActive` is exact; nothing twice; no unasked turn, no refused extension asked again |
| `Delivery_live` | same, three agents, two preferences, fairness | every deliver call returns; what is drained reaches an agent that takes prompts |
| `Delegation_safe` | 2 tasks, 1 root, 1 request, 1 crash, fairness | breaker, statuses, files, finality; every task ends |
| `Sessions_kept` | kernel: 2 calls, 2 closes, 1 companion, 2 sessions, the stop; requests: a permission and a question in 2 sessions, 2 clients, a policy | no process is left; nobody waits for a known token; every call returns; Consent is implemented; ok is true; session/cancel settles; requests are settled |
| `Turns_kept` | files: 1 file, 2 turns, 1 hand edit and 1 removal by hand, 1 revert; ledger: 3 turns, 2 sessions, Keep = 1, 1 loss | revert stays in its turn, skips hand edits, undoes the turn; the ledger keeps its limit, loses nothing else, books rightly; every turn is announced |
| `Clients_connect` | address: 3 cores with any options, 2 shells, 1 socket file, 2 ports; connection: 1 client, 2 calls, 4 sockets, 2 crashes | the files of live cores are spared; no call, socket or way back is forgotten; clients recover |
| `Reads_served` | see below | pages join, reads do not disturb one another and return; counted statistics, descriptors, trees and directory rows are right; line counts, blocks and their numbers are right; segments stay as the user left them |
| `Shell_store` | 3 notifications, batches of 3, 1 send, 1 page; 2 permissions, 1 question, 2 losses | order, completeness and boundaries of a chat; nothing is stranded in its queue; a card for every request; cancels settle |
| `TurnRevert_by_hand` | violation | a hand edit overwritten by a revert |
| `TurnRevert_git_fails` | violation | a file removed by a revert that should have restored it |
| `Shell_tool_index` | violation | an index that leads to another item than its tool |
| `Shell_fold` | violation | a failed tool in a segment that has folded by itself |

**Why the bounds are enough.** The hazards are races between two parties about one thing, and
each instance has two parties and the thing.

* Deliveries: two messages are what it takes for one delivery to
  see the correction another has caused, for one to be queued while one steers, and for the order of
  a drained queue; with the prompt and the task four turns may overlap. The agents of
  `SteeringAgents` between them pass through every tier and every answer; the five preferences are
  the default and each of the fields turned.
* Delegation: two tasks and a root give the chains human–task–task,
  root–task–task and a task that is called back; the breaker is about two edges. One crash between
  any two writes reaches every combination of the files.
* Approvals: two clients are one that wins and one that is late.
* Turns: revert treats path after path
  independently, except for the writes of others in between, which the second turn and the user
  make on the one file. In the ledger `Keep = 1` makes two turns exceed the limit, and the third
  turn, in another session, is the one that must not count.
* Sessions: two calls may race for one session, one may ask on the process of the other while that is
  closed; two closes may have taken the same handle. A process has the name of its call, so two processes
  at most, which is one that stays and one that goes.
* Startup: a thief needs a victim, and a third core must have left its file behind; two shells may each
  start a core. Two ports are one in common and one apart. Connections: four sockets are an old one whose close event is late, one in use, one that is
  dialled and one that is opened after a restart; two crashes are one more than a retry recovers from.
* Transcripts: two clients, so that one joins or overtakes the read of another; four messages in pages of
  two, so that a transcript grows across the border of a page; two engines, one to exit, after which another is started, or to be killed, after which none is. Line counts: all
  pairs of texts up to four lines of two kinds, with the limits of the code scaled to 9 cells, 5 lines, 1 line
  of context and 2 files, so that each is passed and not passed. Tracker: three updates of two tool calls,
  or of one that fails and is repeated. Descriptors: two sessions in two directories, one of them a
  repository. Graph: three sessions and two edges, which is a delegation of a delegate and every cycle of two.
* Directory: a session the agent has and one to come, three calls of the store, two at a time, so that two
  refreshes, or a refresh and an open, overlap. Views: four items in two sessions, which is a segment that is split, one that
  pauses, one that fails after it has folded, and two of one name; for the numbers every chat of up to four items with tools in
  every state and from every source of numbers.
* Shell: three notifications are text around a card or a card around the end of a turn; batches of three make a
  full batch happen (the code has 256); one page is put in front before, in or after a turn, and may have
  failed and been asked for again meanwhile.
  Losses of the
  connection: one during `bootstrap()`, one after.

Symmetry is used in `Delivery_safe`, over messages, and in `Clients_connect`, over cores and over shells; no definition
tells these apart. The first checks no liveness property. In the second the liveness property is about the part of the
connection, where the cores and shells of the address all stay as they were in the initial state, which every
permutation maps to itself: there the symmetry identifies no two states.

`CHECK_DEADLOCK FALSE` is given where everything that can happen has happened: all messages
delivered, all requests settled, all turns over, all calls made, all sockets used, all items drawn.
`Delegation_safe` checks deadlock.

**Fairness.** WF of the core's own steps in every module: the event loop runs continuations that are
ready, git and file writes return. Beyond that:

* `Approvals`: WF of the timer of a request (`Expire`). Nobody has to answer.
* `Delivery`: `AgentAnswers` (a steering request is answered), because the code has no timeout there and
  waits. An agent is *not* assumed to end its turns.
* `Delegation`: the end of tasks needs an agent that ends its turn if it is let (SF of
  `AgentEndsTurn`: requests for permission, which disable it, are not made for ever); WF of
  `PermissionSettled`, which the timer of the hub brings about at the latest; a crashed core is started
  again.
* `TurnLedger`: the prompt of a process that has gone is rejected. Agents need not end their turns.
* `Sessions`: an agent answers `initialize` and the call that opens a session, or exits (the code has no
  timeout for either); a process that is being stopped exits, by SIGKILL at the latest; the timer of a
  companion's request fires.
* `Connections`: the retry timer fires, a socket that is dialled opens or fails, a socket that is lost gets its
  close event, the core answers what it has received, and a core that crashed is started again.
* `Transcripts`: a call to the engine is answered or times out (`zcodeEngine.ts`, `call`).
* `Startup`, `ShellChats`, `ShellDirectory`, `ShellViews` and the rest have no liveness property and no fairness. That an
  update held back is shown in the end follows from `NothingIsStranded` and a timer that fires.

The type invariants (`TypeOK`) are not among the properties of the runs; those of `Delivery`, `Delegation`,
`Approvals`, `TurnRevert`, `TurnLedger`, `Sessions`, `Startup`, `Connections` and `ShellChats` are theorems.

## 4. Assumptions of the models

* Timers may fire at any time; time itself is not modelled. A retry or a delay of the code is a
  step that may come at any time.
* An agent calls companion tools in a turn, that is after the call that opened its session has
  returned (`MayCall`), and edits files only in its turns.
* An agent has one permission request open at a time in `Delegation_safe` (`MaxPending = 1`).
* An elicitation has no options, so a reject option is a matter of permission requests
  (`Rejectable`).
* A git tree is taken in one instant, and equal hashes mean equal contents.
* `turns.json`, `tasks.json`, `session-graph.json` and the descriptor cache are each written atomically
  (temporary file and rename, as the code does).
* Date.now() tells the starts of turns apart.
* A connection is ordered and loses nothing until it breaks.
* An engine forgets which session is active when it exits or is killed; a call that has timed out may still
  take effect. `ReadsSpareEngine` does not speak of an engine that was late or has refused to close, until
  it has closed the session after all (`unsure`).
* All cores share the default port of the host's environment (`PULPO_WS_PORT` is the same for both).
* A page of the transcript holds everything (it is shorter than the 50 messages that are asked for), up to a
  point at which the agent was asked: `Beginnings`.
* `human` is the name of no session; the order of siblings in a tree is left open.
* No native id of a session is the end of the id of another (`sameSession` compares by suffix).

## 5. Findings

Each is a run that TLC must find violated; `PROJECT.json` quotes the documents.

1. `TurnRevert_by_hand`: the comparison that protects hand edits is skipped for files the turn
   deleted, and is made before two awaits for the others.
2. `TurnRevert_git_fails`: `treeHasPath` takes any failure of git for "not there", and the revert removes a
   file it should restore, and reports it as reverted. `RevertUndoesTurn` is about reverts that git has answered.
3. `Shell_tool_index`: `loadTranscript` puts a page in front of the items of a chat and leaves
   `toolIndex` as it was. The next update of a running tool overwrites another card or makes a second one.
4. `Shell_fold`: a segment that pauses between two tools folds itself for good, and hides the failure
   of the tool that follows.

Noted while modelling, without a run of their own. Deliveries, delegation, approvals:

* `runTurn` delivers the queue again without reading the receipts (`delegate.ts:329`). With an agent
  whose steering tier is "extension" the first tier is steering; an idle agent refuses that, and
  the message is neither queued nor delivered, though its sender was told "queued".
  `DrainedReachesAgent` is about agents that take prompts.
* Only `runTurn` drains, after the first turn of a task. In other sessions a queued message stays queued
  (`ladder.ts:57` says otherwise).
* `cancelTask` does not look at the status again after its await (`delegate.ts:395`): a task that has
  ended meanwhile is answered `ok: true` and its status overwritten. `EndIsFinal` leaves out tasks that
  somebody cancels.
* A rejected prompt ends a task without a result edge (`delegate.ts:322`).
* If `set_config_option` fails during `task/delegate`, the session just opened stays open without a
  task (`delegate.ts:181`).
* `task/cancel` and a soft interrupt do not settle the approvals of the session, only
  `session/cancel` does (`approvals.ts:129`, `delegate.ts:394`).
* With two permission requests open in one task, settling one sets the status back to running
  (`delegate.ts:362`). `AwaitingHasRequest` is stated in the direction that does hold.
* A request an agent makes while `stop()` is under way is never answered (`approvals.ts:143`).
* After an exit or close the approvals of the session stay pending until their timers, and a
  client that answers one is told ok.
* "injected" of the concurrent tier is lost when the session ends before the prompt is sent;
  `InjectedIsOnItsWay` says "while the session lives".
* An agent without overlay entry is asked for steering again in each delivery although it
  answered -32601; `NothingUncalledFor` is about the correctable ones.

Turns and snapshots:

* A revert without paths covers the whole comparison, so it takes back what the user wrote
  *during* the turn as well; `session/revert` does not compare `sessionRef` with the turn's; a
  revert of a turn that still runs changes nothing and reports success with empty lists.
* `afterBlob` is read from the file after `git diff`, not from the tree: what is written in that
  gap counts as the end of the turn.
* The shell's comment at `shell/lib/store.ts:947` says a revert is all or nothing; the core
  reverts what it may and lists the rest.
* `closeSession` emits `session_closed` after the process has stopped; a turn begun in a session
  resumed meanwhile loses its `turnOf`, and its edits are booked nowhere. Of overlapping turns
  the newest gets the edits of all. `SoleTurnNoted` leaves both out by `disturbed`.
* More than `keepPerSession` overlapping turns prune one that still runs: it ends without a
  comparison and without a summary (`FinishForgottenTurn`), but it is announced.

Sessions, cores and connections:

* One process per session does not hold: two resumes both spawn (`kernel.ts:326`), and a close that
  has waited deletes the handle a resume has entered since (`kernel.ts:409`). The process left over runs until
  the core stops, which is what `NoProcessIsLeft` says of it.
* An agent that refuses `initialize` is left running until then (`kernel.ts:183`).
* Two cores may serve on one socket path, one of them without its file, if they have no port in common (`--no-ws`,
  `--ws-port`): the check of the file and its removal are awaits apart (`daemon.ts:379`, `394`), and `stop()` removes whatever
  is there (`daemon.ts:492`). `FileIsSpared` says what holds: a core that listened when another looked is not robbed,
  and of two on one port the one that stops spares the one that serves.
* A core may serve the port without its socket file: between its bind and its port another core may find
  nobody answering, and remove the file it bound, with one port in common as well (`FileIsSpared` does not
  deny it).
* A shell whose spawned core has died never spawns another (`lib.rs:234` sees that it has spawned one,
  and waits), so that `ensure_core` does not keep what `lib.rs:2` promises; and a shell that found a core
  another shell has spawned loses it when that one ends.

Reads and derived data:

* A refused or late `session/close` is swallowed (`zcode.ts:145`), and the session that was activated to be read stays
  active, though the comment at `zcode.ts:52` says it is closed at once. `ReadsSpareEngine` says what holds with an
  engine that closes when it is told to.
* An engine that a signal has killed has no exit code, so that `alive` (`zcodeEngine.ts:98`) takes it for running
  and it is never replaced: every later read ends by its timer. `ReadsReturn` says that it ends.
* The descriptor cache may keep words an agent no longer says, until it is described again; a cached
  ability to revert is that of another working directory (`cache.ts`).
* `session/fork` adds no node to the graph.

Shell:

* Which segments are open is one table for all sessions (`viewstate.ts:7`), and segments that begin with a thought have
  the same names in each, so that a click in one session folds the segment of that name in another, though
  `viewstate.ts:4` says that switching sessions leaves it as it was. `ChoiceStands` says what holds: nothing but such a
  click undoes a choice. (Items of two pages of one chat are both numbered from h1, which makes for two segments of one
  name in one chat; `ShellViews` has no pages.)
* The first page of a transcript is the newest messages, read while the chat streams, and is put in front of what has been
  streamed meanwhile (`store.ts:734`), so that it is shown twice, though `store.ts:730` says that the two do not
  overwrite one another. `StreamOrder` is about the stream: each update is shown by it exactly once, and in order,
  whatever pages say again.
* Two loads of one transcript at once both put their page in front. Items of two pages have the same ids
  h1, h2, ... (`store.ts:1361`); `Loads` has one page, and the items of `ShellChats` have no ids.
* A card that a page has brought is never updated: the stream goes on in a card of its own, or, where `toolIndex`
  leads to it by chance, in that of the page (`Shell_tool_index`). What it adds there is counted by
  `StreamOrder`, but not put in its order.
* An approval that could not be sent is logged and its card collapsed as if it had been
  (`store.ts:1129`).
* A question that is listed by `bootstrap` while `absorbElicitation` looks it up gets two cards; one
  settled before it is absorbed leaves a card nobody waits for. `EveryRequestHasCard` is about at least one card.
* `turnActive` of the shell is down while the second of two overlapping turns runs, and a late answer
  to `session/open` may set it either way.
* A tool that is still reported after a cancel has been answered runs on the screen again.
* `closeSession` deletes the chat; an update that comes later makes a new one (not modelled).
* With a core that sends no boundaries a prompt that fails leaves none either.
* A session that `read/list` names and `session/list` does not name yet is shown as not live, under its native
  id; opening it makes that id the active one, which the core does not know (`store.ts:659`, `1311`).
* A segment of thoughts alone never runs, so `THINK_DELAY` is never used (`WorkSegment.tsx`).

## 6. Proofs

TLAPS proves for every value of the constants that satisfies the named assumptions. Every inductive
invariant below was first checked with TLC on the instance of its run. "Steps" means that the
proof has one lemma or step per action and, under it, one per part of the invariant the action disturbs.

**`Delivery_proofs`** (assumes `DeliveryConstants`).
`TurnActiveIsExactHolds`: the property is not inductive, since `FinishTurn` recomputes the flag from the
turns left in `handle.turns`, so it must be known that these are exactly the prompts in flight. `TurnInv` adds
that (`startedAt[x] > 0 <=> phase[x] \in InFlight`).
`TypeCorrect`, `TakenAtMostOnceHolds`, `InjectedIsOnItsWayHolds`, `NothingUncalledForHolds` rest on `LadderInv`.
That a message is taken once is decided in three places: the answer to a steering request, the prompt of the two
tiers that begin one, and the queue. `MessageInv` says what the agent may have taken by then: nothing until a
call of the ladder is answered, and an answer to a steering request that is on its way says whether the agent took
the message. `QueueInv` says that what is in the queue is untouched, so that it may be delivered
again. `CorrectionInv` says that a refused extension has weakened the descriptor, which is what the next plan is made
from. The candidate tiers are a set in the model; the code's array is that set in the order of `TierOrder`.

**`Delegation_proofs`** (assumes `DelegationConstants`).
`TypeCorrect` and `OneLevelHolds`: the breaker is checked in one action and the edge exists several awaits later.
`OneLevelInv` states what holds in between: while the core runs the edges in memory are those on disk
(`GraphSaved`), the call of a task between its two writes is still open (`RecordingIsReady`), a
session handed out by an agent has its edge on disk (`HandedOutIsBlocked`), and the caller of a call that passed
the breaker has no such edge, and its own call is over so that none can come (`CallerIsFree`). The last rests on
`MayCall`.
`FilesAgreeHolds`, `LiveStatusHolds`, `EndIsFinalHolds`: four writers set the status of a task, each after an await: the
delegate call, the turn, `task/cancel` and the permission requests. `StatusInv` says what each may rely on by
then: memory and disk agree on the graph while the core runs (`GraphOnDisk`); whatever is known of a
task, its edge was on disk before, and only its call makes its record, once (`RecordedOnce`); a turn under
way has not ended its task yet unless somebody cancels it, and what has ended on disk has ended so in memory
(`EndedForGood`). Finality is then one case per writer.

**`Approvals_proofs`** (assumes `ApprovalsConstants`).
`TypeCorrect`, `OkMeansDecidedHolds`, `HubKeepsPromise`, `SessionCancelSettlesHolds`. `HubInv` adds `Undecided`: what
is pending or not yet asked has no decision and no settler. That is what makes each settling the first.
The refinement: Init maps to Consent's Init; each action maps to `Ask`, to `Decide` of the set it
settles, or to a stutter. For the cancel, only one step ends it, and that one settles what is pending by then.

**`Sessions_proofs`** (assumes that `None` is no call and no session).
`TypeCorrect`, `NoProcessIsLeftHolds`, `NobodyWaitsHolds`. That no process is left is not inductive: a process whose
open fails is stopped through the table, and one that lives when the core stops must be in it. `TableInv`
adds that what lives is in the table and that nothing lives once the stop has begun (`StopFindsAll`);
that an open session, also while it is being closed, belongs to a call that is done, so that no rejection of its process can
make that call a failed one (`OpenedByDone`); and that only a call to a control process waits for
a mere answer (`AskersOpenNothing`).

**`Turns_proofs`**, revert (assumes `TurnRevertConstants`: the contents of turns, of the user and of the beginning are
told apart, and no content is the hash that is missing).
`RevertTypeCorrect` and `RevertStaysInTurnHolds`: `RevertInv` says that the path a call is about to write is one of its turn
(`CallsAreChecked`), and that a turn's paths are where its trees differ and are empty until it is compared
(`ChangedDiffers`); the second part is what keeps the trees from moving under a call.
`HandEditsAreSkippedHolds`: the user writes what nobody has written before (`ContentsAreKnown`), so that a
file the user wrote last differs from the blob of the turn's end (`HandIsVisible`), whatever else has been written, and
is not chosen. `RevertUndoesTurnHolds`: while only the turn and its reverts write and git answers these (`quiet`), the files are those of the second
tree, and later every path is either unchanged or as in the first tree once a call has
reverted it (`OnlyTurnWrites`).

**`Turns_proofs`**, ledger (assumes `LedgerConstants` of `TurnLedger`).
`LedgerTypeCorrect` and `LedgerIsTrueHolds`. Turns reach the ledger in another order than they started, and the limit is about
the order of starts, so the invariant counts: starts are numbered without repetition (`StartsDiffer`),
and a turn that is not in the ledger though it has begun has `Keep` newer ones of its session that have begun
(`LedgerIsBegun`). Both bounds of `prune` follow from lemmas on the cardinality of the newer turns. For the touched paths, the
entry of `turnOf` must survive the end of the turn before: it is the turn's own while its agent may edit
(`SoleTurnIsCurrent`) unless another was under way, which is noted (`CurrentTurn`). `SoleTurnBooked` and
`DiskIsLedger` carry the booking to the file.

**`Clients_proofs`** (assumes `NoneAssumption` of `MCClients` and `BoundsAssumption` of `Connections`).
`AddressTypeCorrect`, `FileIsSparedHolds`, about `Startup`, for any options: a port in common is what orders two
cores. `AddressInv` says that who serves or stops still has the port it was told to use (`PortIsHeld`), that a core seen to listen never comes to bind again (`HaveBound`), and that
a core about to remove the file does not see there that of a core that answered (`ClearsLeftovers`).
`ConnectionTypeCorrect`, `NothingIsForgottenHolds`, about `Connections`: the shell forgets a socket only with its own
event (`ShellSees`); a companion forgets the socket in use at the close of any, which is
harmless because it has one at a time (`CompanionSees`). Sockets are numbered as they are opened (`OpenedInOrder`),
and a call under way was sent on one (`PendingIsSent`).

**`Reads_proofs`** (extends `MCReads`, whose property `StatsAreRight` is about four modules, and `Shell_proofs`; assumes `PagesAssumption` of
`Transcripts`, `BoundsAssumption` of `ShellChats`, `LossesAssumption` of `ShellCards`, `HumanAssumption` of `SessionGraph`, `LimitsAssumption` of `ChangeStats`).
* `PagesJoinHolds`, `ReadsSpareEngineHolds`: one load is under way at a time, that of the client the others join
  (`OneLoad`), on an engine that exists (`LoadHasEngine`); what is active in an engine that has neither been late nor
  refused to close will be closed by that load (`ActiveIsClosed`). That the pages join needs no more of the snapshot than that it is one: the cursor is a number of a
  message, not of a page.
* `CountedAreGoodHolds`: `StagedStands` says of a staged statistic what the property says of a counted one, up to
  now; each kind of update keeps, replaces or drops it.
* `DescriptorsAreHonestHolds`: `CapInv` adds that a descriptor that is still being made, and the cached one, show the tier
  as it was said. The overlay's three cases are lemmas (`DescribedIsHonest`, `WeakeningIsHonest`, `RevertIsApart`).
* `OneRowEachHolds`: `NamesOfSessions` shows by the definition of suffixes that `sameSession` tells sessions apart under
  both names, `RowsOfMerged` computes the rows that `mergeDirectory` makes of any lists for one session. The rest says
  that every answer a call of the store holds names sessions (`StoreCalls`).
* `EveryRequestHasCardHolds`: the property is inductive together with the types.
* `TreesOnlyGrowHolds`: the tree of a session is what `tree()` visits, depth first, without the nodes it has seen.
  `GraphInv` says that the file is the object, that what a session names as its child or subagent is a node, and
  that nobody is the father of the human. The lemmas are about `Build`, for any graph and any starting list. It is
  defined: a tail-recursive function is, whether or not it comes to an end (`TailCall`). It does come to an end,
  whatever cycles the graph has: what is still to be visited and what hangs on unseen nodes become fewer at each
  step (`VisitShrinks`, `BuildRuns`). It returns the least set of nodes that is closed under children
  (`BuildGrows`), so that a graph that loses no child loses nothing from its trees, though an edge may come to a
  node that another tree has seen already (`TreeGrows`, `TreesExtend`). Each way to write the graph is such a step
  (`NodeExtends`, `EdgeExtends`, `ParentExtends`).
* `DiffIsRight`, `MergeIsRight`, `TrimIsBoundOfDiff`, `CountsAreRightHolds`: for texts of any length over any lines, and any
  limits. Table and walk of the diff are functions on the cells of the table; `Descent` proves once that a function
  that asks only for cells of a lower rank is what its equation says, and `TableFilled` and `WalkGoes` are its
  instances. The walk spells the rest of both texts from wherever it starts and keeps as many lines as the table
  says there (`WalkIsRight`); no matching keeps more, because one line fewer on either side costs at most one
  (`TableBounds`). It costs nothing to keep the common lines at both ends (`EndsAdd`):
  a matching may pair one of them with another line, but not to any advantage. `DiffOfParts` puts head, middle and tail together, also when
  the middle is too large to compare, and `KeptIsMatching` says that what a diff keeps is a matching, so that
  the bound is reached (`LcsIs`). The merge: `MergeInv` says after n blocks which files are there, in which order
  and with which sums; a block is of a file that is there, of one the limit has left out, or of a new one
  (`SeenFileMerges`, `LaterFileIsLeft`, `NewFileMerges`). The shell's count cuts the same ends off (`ShellTrims`).
* `StatsAreRightHolds`: `CountsAreRightHolds` together with `ViewsAddUpHolds`, which takes the two theorems of
  `Shell_proofs` about columns to the columns of the run: a column is a chat of typed items (`ViewsInv`), from the
  start (`CardsAreTyped`, `ChatsAreTyped`) and after every step of the shell.

**`Shell_proofs`** (assumes `BoundsAssumption` of `ShellChats`: batches hold something, and the kinds of text are
those of `chat.ts`). The reducer and the column are folds over sequences of any length; the first section proves,
from the well-foundedness of the natural numbers, that a fold is what its steps make of the sequence (`Induction`,
`FoldDefined`, `FoldRun`). The proofs that follow never look into a fold again.
* `ChatInvHolds`, `ChatTypeCorrect`, `StreamIsInOrder`: `StreamInv` says that the stream shows what was said up to
  some notification, all of it (`Complete`), and that what is held back is the rest, without a gap (`Fills`); and that `toolIndex` never leads beyond the end of the items; it says no more
  about the index, since that is what `Shell_tool_index` refutes: an update through a stale index lengthens another
  card, which ends later and begins where it did. A flush keeps it because each update of a batch does
  (`FlushedFits`); joining neighbours of one kind in a batch loses no number; a page of the transcript is not
  heard, and its items have no parts of the stream, though they may say it again (`PageIsPaged`).
* `NothingIsStrandedHolds`: the property is inductive together with `timer # "spent"`: `scheduleFlush` arms no timer while
  the field is set, so whoever empties the queue must clear it.
* `OneBoundary`: core and shell may each tell the end of a turn. `TurnInv` says that a boundary stands if and only
  if the one responsible has told it, which is the core if it is modern and the answer to the prompt otherwise; that
  a modern core has been seen to be one (`saw`) as soon as one of its turns has begun; and that a request which
  waits has begun its turn.
* `CancelsSettle`: from the same invariant and the definition of settling.
* `ChoiceStandsHolds`: `ViewsInv` says that the segments that are drawn, and those the user has clicked, are
  segments of their column still, that a name of one session is not clicked in another unless it is that of a
  thought, and that what the user chose last under a name is in the table. The work is in `SegmentsStay`: a
  column that has grown, whose last text is no longer blank, or one of whose tools has ended, has all the segments
  it had before, under their names. The two columns are folded in step (`Alike`), the second being allowed to run
  on.
* `BlocksAreExactForAll`: a statement about all lists follows from the empty list and one thing more at the end
  (`ListInduction`). `BlockedInv` says of `splitBlocks` after some items that its blocks and what is pending hold what
  is to be shown, in its order, and that no segment is open to the next; `bucketize` goes by `IntoGroups`.
* `NumbersAddUpForAll`: every number on a segment or a turn is a sum of weights (`Weigh`): of the lines of a card that
  counts, of a failure, of an item. What is filtered out has no weight (`WeighSel`), what is flattened or concatenated
  weighs what its parts do (`WeighFlat`, `WeighBoth`), and the cards of a label leave out only what has not settled
  and has no weight (`WeighLabel`). So the groups of a segment, whichever the label names, have what the segment has
  (`WeighGroups`, `LabelHasItems`); and the end of a turn counts what has come since the end before (`TurnsStep`).
  The numbers of a card are those of the code, from its three sources (`CardStatIsTyped`).

Only model-checked:
* All liveness properties (`DeliverReturns`, `DrainedReachesAgent`, `TaskEnds`, `RequestsAreSettled`,
  `TurnIsAnnounced`, `CallsReturn`, `ClientsRecover`, `ReadsReturn`): fairness and ENABLED are
  out of the prover's reach.

Every safety property of a run that is expected to pass is also the property of a theorem.

Induction over data is within reach where the recursion is a fold, a tail call or a descent along a rank, since the
well-foundedness of Nat can be cited without an operator as parameter; that is how `Shell_proofs` and `Reads_proofs` do it. No module of a
theorem uses RECURSIVE.

## 7. Not modelled

Texts, labels, token usage, file formats, JSON framing, the checks of parameters, subscriptions
(every connection hears every event), drawing, settings, composer drafts, markdown and the diff view of
the shell, and the build scripts. `session/changes` and the methods that return a table change
nothing. `session/fork`, `set_mode` and `session/request` pass requests on; what fork means for the shell
is in `ShellDirectory`. The conversions of engine rows and of agents' diff formats are formats. A page put
in front of the first segment of a chat may merge with it and rename it; `ShellViews` only appends.

## 8. Plan

1. Proofs: the types of `ShellCards`, `ShellDirectory` and `Transcripts` as theorems of their own (their proofs
   contain them); that the files and the removed lines of a label are those of its segment,
   which `NumbersAddUp` does not say.
2. Pages in front of segments, with the names of segments, in `ShellViews`; two pages at once in
   `ShellChats`.
3. Subscriptions: which events a client that connects in the middle of a turn misses.
4. `policy.ts` and the settings of the shell.
