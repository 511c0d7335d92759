--------------------------- MODULE ShellDirectory ---------------------------
(***************************************************************************)
(* The sessions of one agent in one directory, as the shell lists them     *)
(* (store.ts): session/list and read/list, answered at different times and *)
(* under different names, merged with the sessions the core has open,      *)
(* while the user creates, opens, forks and closes sessions.               *)
(*                                                                         *)
(* Each call of the store is a thread of its own.  session/open is         *)
(* answered without a wait, so that its answers come in order.             *)
(***************************************************************************)
EXTENDS Naturals, FiniteSets, SequencesExt

CONSTANTS
  Chats,      \* sessions
  Threads,    \* calls of the store under way at a time (bound)
  MaxCalls    \* calls of the store, one after the other (bound)

VARIABLES
  opened,     \* the sessions open in the core
  listed,     \* those the agent names in session/list
  stored,     \* those read/list names
  known,      \* state.openSessions
  rows,       \* state.directories
  nativeIds,  \* state.nativeIds: the sessions whose native id is known
  shown,      \* state.activeRef, by its session id; << >> for null
  thread,     \* the calls of the store
  calls       \* how many have been made

coreVars == <<opened, listed, stored>>
storeVars == <<known, rows, nativeIds, shown>>
dirVars == <<coreVars, storeVars, thread, calls>>

(* The names of a session in ACP, with a prefix of the adapter, and in the *)
(* engine's store.                                                         *)
AcpId(s) == <<"zc", s>>
NativeId(s) == <<s>>

(* Mutant: only names that are the same. *)
SameText(a, n) == a = n

(* sameSession: one is the end of the other. *)
SameSession(a, n) == IsSuffix(n, a) \/ IsSuffix(a, n)

Row(acp, native, live) == [acp |-> acp, native |-> native, live |-> live]

NoId == << >>

(* mergeDirectory: what ACP names, joined with what the engine names; then *)
(* the rest of that; then what is open and in neither list.                *)
MergeDirectory(acp, native, open) ==
  LET Match(a) == {n \in native : SameSession(a, n)}
      used == UNION {Match(a) : a \in acp}
      both == {Row(a, IF Match(a) = {} THEN NoId ELSE CHOOSE n \in Match(a) : TRUE,
                   a \in open) : a \in acp}
      more == {Row(NoId, n, FALSE) : n \in native \ used}
      unlisted == {o \in open : \A k \in acp \cup native : ~SameSession(o, k)}
  IN  both \cup more \cup {Row(o, NoId, TRUE) : o \in unlisted}

Idle == [does |-> "nothing"]
Does(what, s) == [does |-> what, of |-> s]

Asked == [state |-> "asked", ids |-> {}]
Rejected == [state |-> "rejected", ids |-> {}]
Fulfilled(ids) == [state |-> "fulfilled", ids |-> ids]
Refreshing == [does |-> "refresh", acp |-> Asked, native |-> Asked]

Become(w, t) == thread' = [thread EXCEPT ![w] = t]

Begin(w, t) ==
  /\ thread[w] = Idle /\ calls < MaxCalls
  /\ calls' = calls + 1
  /\ Become(w, t)

RowsOf(s, rs) ==
  {r \in rs : (r.acp # NoId /\ SameSession(r.acp, AcpId(s)))
              \/ (r.native # NoId /\ NativeId(s) = r.native)}

(* No session yet. *)
IsNew(s) ==
  /\ s \notin opened \cup listed \cup stored
  /\ AcpId(s) \notin known /\ RowsOf(s, rows) = {}
  /\ \A w \in Threads : "of" \in DOMAIN thread[w] => thread[w].of # s
-----------------------------------------------------------------------------
(* newSession, openSession of a row with an ACP id, closeSession and       *)
(* forkSession call the core.                                              *)
CallCore(w) ==
  /\ \E s \in Chats :
       \/ IsNew(s) /\ Begin(w, Does("new", s))
       \/ IsNew(s) /\ opened # {} /\ Begin(w, Does("fork", s))
       \/ \E r \in rows : r.acp = AcpId(s) /\ Begin(w, Does("resume", s))
       \/ AcpId(s) \in known /\ Begin(w, Does("close", s))
  /\ UNCHANGED <<coreVars, storeVars>>

(* The core does it, or it fails and the store shows the error. *)
CoreAnswers(w) ==
  /\ thread[w].does \in {"new", "fork", "resume", "close"}
  /\ LET s == thread[w].of
     IN  \/ /\ opened' = IF thread[w].does = "close" THEN opened \ {s} ELSE opened \cup {s}
            /\ Become(w, [thread[w] EXCEPT !.does =
                            CASE @ = "new" -> "made" [] @ = "fork" -> "forked"
                              [] @ = "resume" -> "resumed" [] @ = "close" -> "closed"])
         \/ UNCHANGED opened /\ Become(w, Idle)
  /\ UNCHANGED <<listed, stored, storeVars, calls>>

(* The store notes the answer.  A fork is shown after session/open.        *)
NoteAnswer(w) ==
  /\ thread[w].does \in {"made", "forked", "resumed", "closed"}
  /\ LET s == thread[w].of
     IN  /\ shown' = CASE thread[w].does \in {"made", "resumed"} -> AcpId(s)
                        [] thread[w].does = "closed" /\ shown = AcpId(s) -> NoId
                        [] OTHER -> shown
         /\ nativeIds' = IF thread[w].does = "resumed"
                            /\ \E r \in rows : r.acp = AcpId(s) /\ r.native # NoId
                         THEN nativeIds \cup {s} ELSE nativeIds
  /\ Become(w, [thread[w] EXCEPT !.does =
                  CASE @ = "made" -> "open, then list" [] @ = "forked" -> "open, then show"
                    [] @ = "resumed" -> "open, then read" [] OTHER -> "open"])
  /\ UNCHANGED <<coreVars, known, rows, calls>>

(* refreshOpen has its answer.  A new session has its directory listed;    *)
(* the transcript of a resumed one, if it is read, wants the native id.    *)
OpenAnswered(w) ==
  /\ thread[w].does \in {"open", "open, then list", "open, then show", "open, then read"}
  /\ known' = {AcpId(s) : s \in opened}
  /\ shown' = IF thread[w].does = "open, then show" THEN AcpId(thread[w].of) ELSE shown
  /\ \/ /\ \/ thread[w].does = "open, then list"
           \/ thread[w].does = "open, then read" /\ thread[w].of \notin nativeIds
        /\ Become(w, Refreshing)
     \/ thread[w].does # "open, then list" /\ Become(w, Idle)
  /\ UNCHANGED <<coreVars, rows, nativeIds, calls>>

(* A row without an ACP id is shown under its native id; nothing is called *)
(* but session/open.                                                       *)
OpenNativeRow(w) ==
  /\ \E s \in Chats :
       /\ Row(NoId, NativeId(s), FALSE) \in rows
       /\ shown' = NativeId(s)
       /\ Begin(w, Does("open", s))
  /\ UNCHANGED <<coreVars, known, rows, nativeIds>>

(* refreshDirectory, and its two answers. *)
RefreshDirectory(w) ==
  /\ Begin(w, Refreshing)
  /\ UNCHANGED <<coreVars, storeVars>>

ListAnswered(w) ==
  /\ thread[w].does = "refresh" /\ thread[w].acp = Asked
  /\ \E answer \in {Fulfilled({AcpId(s) : s \in listed}), Rejected} :
       Become(w, [thread[w] EXCEPT !.acp = answer])
  /\ UNCHANGED <<coreVars, storeVars, calls>>

ReadAnswered(w) ==
  /\ thread[w].does = "refresh" /\ thread[w].native = Asked
  /\ \E answer \in {Fulfilled({NativeId(s) : s \in stored}), Rejected} :
       Become(w, [thread[w] EXCEPT !.native = answer])
  /\ UNCHANGED <<coreVars, storeVars, calls>>

(* Both have come: merged with what is open by now, unless both failed.    *)
ShowRows(w) ==
  LET acp == thread[w].acp
      native == thread[w].native
      merged == MergeDirectory(acp.ids, native.ids, known)
  IN  /\ thread[w].does = "refresh" /\ acp # Asked /\ native # Asked
      /\ IF acp = Rejected /\ native = Rejected THEN UNCHANGED <<rows, nativeIds>>
         ELSE /\ rows' = merged
              /\ nativeIds' = nativeIds \cup
                   {s \in Chats : \E r \in merged : r.acp = AcpId(s) /\ r.native # NoId}
      /\ Become(w, Idle)
      /\ UNCHANGED <<coreVars, known, shown, calls>>
-----------------------------------------------------------------------------
(* An agent lists a session late, some only after its first turn; its      *)
(* store may be ahead or behind.                                           *)
AgentLists(s) ==
  /\ s \in opened \ listed
  /\ listed' = listed \cup {s}
  /\ UNCHANGED <<opened, stored, storeVars, thread, calls>>

AgentStores(s) ==
  /\ s \in opened \ stored
  /\ stored' = stored \cup {s}
  /\ UNCHANGED <<opened, listed, storeVars, thread, calls>>

(* The agent's process exits. *)
AgentLoses(s) ==
  /\ s \in opened
  /\ opened' = opened \ {s}
  /\ UNCHANGED <<listed, stored, storeVars, thread, calls>>

DirInit ==
  /\ opened = {} /\ listed \in SUBSET Chats /\ stored = listed
  /\ known = {} /\ rows = {} /\ nativeIds = {} /\ shown = NoId
  /\ thread = [w \in Threads |-> Idle] /\ calls = 0

DirNext ==
  \/ \E w \in Threads :
       \/ CallCore(w) \/ CoreAnswers(w) \/ NoteAnswer(w) \/ OpenAnswered(w)
       \/ OpenNativeRow(w)
       \/ RefreshDirectory(w) \/ ListAnswered(w) \/ ReadAnswered(w) \/ ShowRows(w)
  \/ \E s \in Chats : AgentLists(s) \/ AgentStores(s) \/ AgentLoses(s)

DirSpec == DirInit /\ [][DirNext]_dirVars
-----------------------------------------------------------------------------
(* A session the shell knows to be open, once it has a row, keeps exactly  *)
(* one, and no session ever has two: also when an older refresh ends after *)
(* a newer one, one of the lists fails, or the lists lag behind one        *)
(* another and the core (store.ts, refreshDirectory and mergeDirectory).   *)
OneRowEach ==
  [][\A s \in Chats :
       /\ Cardinality(RowsOf(s, rows')) <= 1
       /\ AcpId(s) \in known' /\ RowsOf(s, rows) # {} => RowsOf(s, rows') # {}]_dirVars
=============================================================================
