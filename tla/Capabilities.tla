---------------------------- MODULE Capabilities ----------------------------
(***************************************************************************)
(* The capability descriptors of one agent: how the words of the agent     *)
(* become a descriptor (core/src/descriptor/build.ts), how the overlay     *)
(* corrects it (overrides.ts), when and what is cached (cache.ts), and     *)
(* which one agent/descriptor serves (server/methods.ts, acp/kernel.ts,    *)
(* aggregateDescriptor and probeDescriptor).                               *)
(*                                                                         *)
(* A descriptor stands for its steering tier and the risk of one mode, the *)
(* two that are ever corrected, and for the ability to revert, which is    *)
(* that of a working directory.  It keeps the words it was made of.        *)
(***************************************************************************)
EXTENDS DeliveryTiers, FiniteSets

CONSTANTS Open,       \* session/new calls, by clients or to probe
          Dirs,       \* working directories; in some of them turns can be reverted
          Revertible, \* the directories that are git repositories
          Claims,     \* the steering tiers an agent may advertise
          Risks,      \* the risks an agent may give the mode; 0: none
          NoDir

VARIABLES
  step,      \* none, describing, open, closing, closed
  desc,      \* the descriptor of a session
  dir,       \* its directory
  probing,   \* the sessions opened by a probe
  age,       \* the sessions in the order in which they were opened
  cache,     \* DescriptorCache and its file: [dir, desc, of], or no directory
  served     \* the last answer of agent/descriptor: [source, desc, dir]

capVars == <<step, desc, dir, probing, age, cache, served>>

Words == [tier : Claims, risk : Risks]
Blank == [said |-> [tier |-> "queue", risk |-> 0], tier |-> "queue", risk |-> 0,
          revert |-> FALSE, corrections |-> {}]
Nothing == [source |-> "none", desc |-> Blank, dir |-> NoDir]

CapInit ==
  /\ step = [s \in Open |-> "none"]
  /\ desc = [s \in Open |-> Blank]
  /\ dir = [s \in Open |-> NoDir]
  /\ probing = {}
  /\ age = << >>
  /\ cache = [dir |-> NoDir, desc |-> Blank, of |-> {}]
  /\ served = Nothing

-----------------------------------------------------------------------------
(* The overlay.                                                            *)

\* isTightening: weaker tiers and higher risks.
Tightens(path, from, to) ==
  IF path = "tier" THEN TierRank(to) > TierRank(from) ELSE to > from

\* applyCorrection: what would loosen is rejected, what is so already is not
\* recorded, and a correction is recorded once.
Corrected(d, path, to) ==
  IF ~Tightens(path, d[path], to) \/ \E c \in d.corrections : c.path = path
  THEN d
  ELSE [d EXCEPT ![path] = to,
                 !.corrections = @ \cup {[path |-> path, from |-> d[path], to |-> to]}]

\* descriptorFromInitialize and mergeSessionSelfDescription take the agent at
\* its word; a mode for which it has given no risk gets that of the overlay.
ModeRisk == 3

Described(words) ==
  LET d == [Blank EXCEPT !.said = words, !.tier = words.tier, !.risk = words.risk]
  IN IF words.risk = 0 THEN Corrected(d, "risk", ModeRisk) ELSE d

-----------------------------------------------------------------------------
(* Sessions.                                                               *)

\* The agent has answered session/new; the core asks git for the directory.
SessionAnswered(s, w, words, probe) ==
  /\ step[s] = "none"
  /\ step' = [step EXCEPT ![s] = "describing"]
  /\ desc' = [desc EXCEPT ![s] = Described(words)]
  /\ dir' = [dir EXCEPT ![s] = w]
  /\ probing' = IF probe THEN probing \cup {s} ELSE probing
  /\ UNCHANGED <<age, cache, served>>

\* aggregateDescriptor returns: the cache gets a copy, for any directory.
Aggregated(s) ==
  LET d == [desc[s] EXCEPT !.revert = dir[s] \in Revertible] IN
  /\ step[s] = "describing"
  /\ desc' = [desc EXCEPT ![s] = d]
  /\ cache' = [dir |-> dir[s], desc |-> d, of |-> {s}]
  /\ step' = [step EXCEPT ![s] = IF s \in probing THEN "closing" ELSE "open"]
  /\ age' = Append(age, s)
  /\ UNCHANGED <<dir, probing, served>>

\* Mutant: the cache holds the descriptor of the session itself.
CacheShared(s, d) == IF s \in cache.of THEN [cache EXCEPT !.desc = d] ELSE cache

CacheCopied(s, d) == cache

\* The ladder has tried to steer and the method is not there: the overlay
\* weakens the descriptor of that session.
SteeringMissing(s) ==
  LET d == Corrected(desc[s], "tier", "concurrent") IN
  /\ step[s] = "open" /\ desc[s].tier \in {"native", "extension"}
  /\ desc' = [desc EXCEPT ![s] = d]
  /\ cache' = CacheCopied(s, d)
  /\ UNCHANGED <<step, dir, probing, age, served>>

Close(s) ==
  /\ step[s] = "open"
  /\ step' = [step EXCEPT ![s] = "closed"]
  /\ UNCHANGED <<desc, dir, probing, age, cache, served>>

\* The core starts again and reads its cache; everything else is gone.
Restart ==
  /\ age # << >>
  /\ step' = [s \in Open |-> IF step[s] = "none" THEN "none" ELSE "closed"]
  /\ probing' = {} /\ age' = << >>
  /\ UNCHANGED <<desc, dir, cache, served>>

-----------------------------------------------------------------------------
(* agent/descriptor: live, else cached, else probed.                       *)

Live == {s \in Open : step[s] \in {"open", "closing"}}
Older(s, t) == \E i, j \in DOMAIN age : i < j /\ age[i] = s /\ age[j] = t

Serve(source, d, w) == served' = [source |-> source, desc |-> d, dir |-> w]

ServeLive(s) ==
  /\ s \in Live /\ ~\E t \in Live : Older(s, t)
  /\ Serve("live", desc[s], dir[s])
  /\ UNCHANGED <<step, desc, dir, probing, age, cache>>

ServeCached ==
  /\ Live = {} /\ cache.dir # NoDir
  /\ Serve("cached", cache.desc, cache.dir)
  /\ UNCHANGED <<step, desc, dir, probing, age, cache>>

\* Nothing is cached, or the client wants it fresh.
Probe(s, words) ==
  /\ Live = {}
  /\ \E w \in Dirs : SessionAnswered(s, w, words, TRUE)

\* The session of the probe is closed, whatever the agent says to that.
ProbeReturns(s) ==
  /\ step[s] = "closing"
  /\ step' = [step EXCEPT ![s] = "closed"]
  /\ probing' = probing \ {s}
  /\ Serve("probed", desc[s], dir[s])
  /\ UNCHANGED <<desc, dir, age, cache>>

CapNext ==
  \/ \E s \in Open :
       \/ \E w \in Dirs, words \in Words : SessionAnswered(s, w, words, FALSE)
       \/ \E words \in Words : Probe(s, words)
       \/ Aggregated(s) \/ SteeringMissing(s) \/ Close(s)
       \/ ServeLive(s) \/ ProbeReturns(s)
  \/ ServeCached \/ Restart

CapSpec == CapInit /\ [][CapNext]_capVars

-----------------------------------------------------------------------------
(* Properties.                                                             *)

Recorded(d, path) == {c \in d.corrections : c.path = path}

Honest(d, path) ==
  IF Recorded(d, path) = {} THEN d[path] = d.said[path]
  ELSE \A c \in Recorded(d, path) :
         /\ c.from = d.said[path] /\ c.to = d[path]
         /\ Tightens(path, c.from, c.to)

\* Whatever is shown of an agent, live, from the cache or by a probe, is what
\* the agent has said, but for weaker tiers and higher risks that the
\* descriptor accounts for one by one (overrides.ts:14-18); and what a session
\* has found out at run time stays with that session (cache.ts:71), so that
\* an agent that has been mended is believed again.
OnlyTightened ==
  \A d \in {desc[s] : s \in Live} \cup {cache.desc, served.desc} :
    Honest(d, "tier") /\ Honest(d, "risk")

CacheKeepsWords ==
  cache.dir # NoDir => cache.desc.tier = cache.desc.said.tier

DescriptorsAreHonest == OnlyTightened /\ CacheKeepsWords

=============================================================================
