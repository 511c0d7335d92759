---------------------------- MODULE Transcripts ----------------------------
(***************************************************************************)
(* read/transcript (core/src/server/methods.ts): pages of the history of   *)
(* one session, cut from a snapshot that is cached for a while             *)
(* (core/src/read/paging.ts), which a reader fetches from the engine of    *)
(* the agent (core/src/read/zcode.ts, zcodeEngine.ts).  The engine reads   *)
(* only a session that is active, so a read lists, pushes the providers,   *)
(* resumes, reads and closes; the engine may answer, refuse, be late or    *)
(* exit at each of these calls.                                            *)
(*                                                                         *)
(* Messages are numbered; the cursor of a message is its number, which     *)
(* stands for its id or, if it has none, for its index.  Each client walks *)
(* from the newest page to the oldest while the session goes on.           *)
(***************************************************************************)
EXTENDS Naturals, Sequences, SequencesExt

CONSTANTS Clients,      \* those who page through the transcript
          MaxMessages,  \* messages the session gets
          Limit,        \* messages of a page
          MaxEngines,   \* engine processes
          NoValue

ASSUME PagesAssumption ==
  /\ MaxMessages \in Nat /\ MaxEngines \in Nat /\ Limit \in Nat \ {0}
  /\ NoValue \notin Clients \cup Nat

VARIABLES
  written,   \* messages in the store of the agent
  cached,    \* TranscriptCache: the length of the snapshot, or NoValue
  fresh,     \* whether the snapshot is within its time to live
  inflight,  \* the client whose call loads a snapshot, or NoValue
  loading,   \* the call to the engine at which the load of a client stands
  on,        \* the engine a load talks to
  found,     \* the length of the transcript a load has got, or NoValue
  asking,    \* whether a client has a page to come, by whose load
  cursor,    \* what a client asks for next: before this message, or NoValue
  got,       \* the messages a client has collected
  engines,   \* the engine processes
  resumed,   \* whether the session is active in an engine
  unsure     \* whether, since an engine has last closed the session, it was
             \* late with a call or has refused to close (history)

readVars == <<written, cached, fresh, inflight, loading, on, found, asking, cursor,
              got, engines, resumed, unsure>>

cacheVars  == <<cached, fresh, inflight>>
loadVars   == <<loading, on, found>>
clientVars == <<asking, cursor, got>>
engineVars == <<engines, resumed, unsure>>

Engines == 1..MaxEngines
Steps   == {"list", "push", "resume", "asked", "read", "close"}
First   == MaxMessages + 1   \* no message: the walk has not begun

ReadTypeOK ==
  /\ written \in 0..MaxMessages
  /\ cached \in 0..MaxMessages \cup {NoValue}
  /\ fresh \in BOOLEAN
  /\ inflight \in Clients \cup {NoValue}
  /\ loading \in [Clients -> Steps \cup {"none"}]
  /\ on \in [Clients -> 0..MaxEngines]
  /\ found \in [Clients -> 0..MaxMessages \cup {NoValue}]
  /\ asking \in [Clients -> Clients \cup {NoValue}]
  /\ cursor \in [Clients -> 1..First \cup {NoValue}]
  /\ got \in [Clients -> Seq(1..MaxMessages)]
  /\ engines \in [Engines -> {"none", "alive", "dead", "killed"}]
  /\ resumed \in [Engines -> BOOLEAN]
  /\ unsure \in [Engines -> BOOLEAN]

ReadInit ==
  /\ written \in 0..MaxMessages
  /\ cached = NoValue /\ fresh = FALSE /\ inflight = NoValue
  /\ loading = [w \in Clients |-> "none"]
  /\ on = [w \in Clients |-> 0]
  /\ found = [w \in Clients |-> NoValue]
  /\ asking = [w \in Clients |-> NoValue]
  /\ cursor = [w \in Clients |-> First]
  /\ got = [w \in Clients |-> << >>]
  /\ engines = [n \in Engines |-> "none"]
  /\ resumed = [n \in Engines |-> FALSE]
  /\ unsure = [n \in Engines |-> FALSE]

-----------------------------------------------------------------------------
(* paginate.                                                               *)

\* Mutant: the message of the cursor is part of the page before it.
EndOfPageIncluded(n, before) == IF before = First THEN n ELSE before

\* How many of the n messages lie before the cursor.
EndOfPage(n, before) == IF before = First THEN n ELSE before - 1

StartOfPage(end) == IF end > Limit THEN end - Limit ELSE 0

Page(start, end) == [i \in 1..(end - start) |-> start + i]

\* The clients C get their pages from a snapshot of n messages.
Served(C, n) ==
  LET end(w)   == EndOfPage(n, cursor[w])
      start(w) == StartOfPage(end(w))
  IN  /\ got' = [w \in Clients |->
           IF w \in C THEN Page(start(w), end(w)) \o got[w] ELSE got[w]]
      /\ cursor' = [w \in Clients |->
           IF w \notin C THEN cursor[w]
           ELSE IF start(w) = 0 THEN NoValue ELSE start(w) + 1]

-----------------------------------------------------------------------------
(* TranscriptCache.get.                                                    *)

\* A call gets the fresh snapshot, or waits for the load that is under way,
\* or starts one.
PageFromCache(w) ==
  /\ asking[w] = NoValue /\ cursor[w] # NoValue
  /\ cached # NoValue /\ fresh
  /\ Served({w}, cached)
  /\ UNCHANGED <<written, cacheVars, loadVars, asking, engineVars>>

\* Mutant: a load that is under way is not shared.
JoinsNobody(w) == FALSE

Joins(w) == inflight # NoValue

JoinLoad(w) ==
  /\ asking[w] = NoValue /\ cursor[w] # NoValue
  /\ ~(cached # NoValue /\ fresh)
  /\ Joins(w)
  /\ asking' = [asking EXCEPT ![w] = inflight]
  /\ UNCHANGED <<written, cacheVars, loadVars, cursor, got, engineVars>>

\* ZcodeEngine.alive: there is no exit code, and a process that was killed by a
\* signal never gets one.
LooksAlive(n) == engines[n] \in {"alive", "killed"}

\* ensureEngine replaces an engine that has exited.
StartLoad(w) ==
  /\ asking[w] = NoValue /\ cursor[w] # NoValue /\ loading[w] = "none"
  /\ ~(cached # NoValue /\ fresh)
  /\ ~Joins(w)
  /\ \E n \in Engines :
       /\ \/ LooksAlive(n)
          \/ engines[n] = "none" /\ \A m \in Engines : ~LooksAlive(m)
       /\ engines' = [engines EXCEPT ![n] = IF @ = "none" THEN "alive" ELSE @]
       /\ on' = [on EXCEPT ![w] = n]
  /\ loading' = [loading EXCEPT ![w] = "list"]
  /\ found' = [found EXCEPT ![w] = NoValue]
  /\ asking' = [asking EXCEPT ![w] = w]
  /\ cached' = NoValue
  /\ inflight' = w
  /\ UNCHANGED <<written, fresh, cursor, got, resumed, unsure>>

\* The load of client w is over: the snapshot is kept if there is one, and
\* those who wait get their pages or the error.
LoadEnds(w) ==
  LET waiting == {v \in Clients : asking[v] = w}
  IN  /\ asking' = [v \in Clients |-> IF v \in waiting THEN NoValue ELSE asking[v]]
      /\ cached' = found'[w]
      /\ fresh' = (found'[w] # NoValue)
      /\ inflight' = NoValue
      /\ IF found'[w] = NoValue THEN UNCHANGED <<cursor, got>> ELSE Served(waiting, found'[w])

\* Mutant: the entry of a load that fails stays in the cache.
LoadFailsAndStays(w) == UNCHANGED <<cacheVars, clientVars>>

LoadFails(w) == LoadEnds(w)

-----------------------------------------------------------------------------
(* ZcodeReader.read and the engine.                                        *)

Goes(w, to) == loading' = [loading EXCEPT ![w] = to]

\* The engine answers.  A resume first asks the reader for preferences.
Then(step) ==
  CASE step = "list" -> "push" [] step = "push" -> "resume"
    [] step = "resume" -> "asked" [] step = "asked" -> "read"
    [] step = "read" -> "close" [] step = "close" -> "none"

EngineAnswers(w) ==
  /\ loading[w] \in Steps /\ engines[on[w]] = "alive"
  /\ loading[w] = "read" => resumed[on[w]]
  /\ Goes(w, Then(loading[w]))
  /\ resumed' = CASE loading[w] = "asked" -> [resumed EXCEPT ![on[w]] = TRUE]
                 [] loading[w] = "close" -> [resumed EXCEPT ![on[w]] = FALSE]
                 [] OTHER -> resumed
  /\ unsure' = IF loading[w] = "close" THEN [unsure EXCEPT ![on[w]] = FALSE] ELSE unsure
  /\ found' = IF loading[w] \in {"asked", "read"} THEN [found EXCEPT ![w] = written] ELSE found
  /\ IF loading[w] = "close" THEN LoadEnds(w) ELSE UNCHANGED <<cacheVars, clientVars>>
  /\ UNCHANGED <<written, on, engines>>

\* Without a key of any provider nothing is pushed.
NothingToPush(w) ==
  /\ loading[w] = "push"
  /\ Goes(w, "resume")
  /\ UNCHANGED <<written, cacheVars, on, found, clientVars, engineVars>>

\* finally: a session that has been resumed is closed.
AfterFailure(step) == IF step = "read" THEN "close" ELSE "none"

\* A call fails; the error of close alone is ignored.
Failed(w) ==
  /\ Goes(w, AfterFailure(loading[w]))
  /\ found' = IF loading[w] = "close" THEN found ELSE [found EXCEPT ![w] = NoValue]
  /\ IF loading'[w] # "none" THEN UNCHANGED <<cacheVars, clientVars>>
     ELSE IF loading[w] = "close" THEN LoadEnds(w) ELSE LoadFails(w)

\* A close that is refused leaves the session as it is.
EngineRefuses(w) ==
  /\ loading[w] \in Steps /\ engines[on[w]] = "alive"
  /\ Failed(w)
  /\ unsure' = IF loading[w] = "close" THEN [unsure EXCEPT ![on[w]] = TRUE] ELSE unsure
  /\ UNCHANGED <<written, on, engines, resumed>>

\* The timer of a call, which is also all that ends a call to an engine that
\* has exited before; what the engine has been asked may still happen.
CallTimesOut(w) ==
  /\ loading[w] \in Steps
  /\ Failed(w)
  /\ unsure' = [unsure EXCEPT ![on[w]] = TRUE]
  /\ \/ resumed' = resumed
     \/ loading[w] \in {"resume", "asked"} /\ engines[on[w]] = "alive"
        /\ resumed' = [resumed EXCEPT ![on[w]] = TRUE]
     \/ loading[w] = "close" /\ resumed' = [resumed EXCEPT ![on[w]] = FALSE]
  /\ UNCHANGED <<written, on, engines>>

\* The engine exits or is killed, and the call that is under way fails at once.
EngineExits(n) ==
  /\ engines[n] = "alive"
  /\ \E end \in {"dead", "killed"} : engines' = [engines EXCEPT ![n] = end]
  /\ resumed' = [resumed EXCEPT ![n] = FALSE]
  /\ IF \E w \in Clients : on[w] = n /\ loading[w] # "none"
     THEN \E w \in Clients : on[w] = n /\ loading[w] # "none" /\ Failed(w)
     ELSE UNCHANGED <<loading, found, cacheVars, clientVars>>
  /\ UNCHANGED <<written, on, unsure>>

-----------------------------------------------------------------------------
\* The session goes on, and time passes.
MessageWritten ==
  /\ written < MaxMessages
  /\ written' = written + 1
  /\ UNCHANGED <<cacheVars, loadVars, clientVars, engineVars>>

SnapshotExpires ==
  /\ fresh
  /\ fresh' = FALSE
  /\ UNCHANGED <<written, cached, inflight, loadVars, clientVars, engineVars>>

LoadStep(w) == EngineAnswers(w) \/ NothingToPush(w) \/ EngineRefuses(w) \/ CallTimesOut(w)

ReadNext ==
  \/ \E w \in Clients : PageFromCache(w) \/ JoinLoad(w) \/ StartLoad(w) \/ LoadStep(w)
  \/ \E n \in Engines : EngineExits(n)
  \/ MessageWritten \/ SnapshotExpires

\* Calls to the engine are answered or time out.
ReadSpec == ReadInit /\ [][ReadNext]_readVars /\ \A w \in Clients : WF_readVars(LoadStep(w))

-----------------------------------------------------------------------------
(* Properties.                                                             *)

\* The pages a client collects are a part of the history without a gap and
\* without a message twice, and reach its beginning, though the session goes
\* on and the pages come from different snapshots (paging.ts, paginate).
PagesJoin ==
  \A w \in Clients :
    LET n == Len(got[w]) IN
    /\ \A i \in 1..n-1 : got[w][i + 1] = got[w][i] + 1
    /\ n > 0 => got[w][1] = IF cursor[w] = NoValue THEN 1 ELSE cursor[w]

\* No read closes the session under another read that is about to read it,
\* and when no read is under way the session is not left active in an engine,
\* whatever has failed, unless the engine has refused to close it or was late
\* with a call, and has not closed it since (paging.ts, get: one load at a
\* time; zcode.ts, read and its finally).
ReadsSpareEngine ==
  /\ \A w \in Clients :
       loading[w] = "read" /\ engines[on[w]] = "alive" => resumed[on[w]]
  /\ \A n \in Engines :
       (\A w \in Clients : loading[w] = "none") /\ ~unsure[n] => ~resumed[n]

\* Every call of read/transcript returns, whatever the engine does
\* (paging.ts, get; zcodeEngine.ts, call).
ReadsReturn ==
  \A w \in Clients : asking[w] # NoValue ~> asking[w] = NoValue
=============================================================================
