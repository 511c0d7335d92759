---------------------------- MODULE Reads_proofs ----------------------------
(***************************************************************************)
(* Proofs about what the core derives and serves, and what the shell shows *)
(* of it: the pages of transcripts and the loads behind them               *)
(* (Transcripts), the change statistics of tool calls (ChangeStats: the    *)
(* diff, the merge and the tracker; ShellViews: the count of the shell),   *)
(* the descriptors of an agent (Capabilities), the list of a directory     *)
(* (ShellDirectory), the cards of requests (ShellCards) and the trees of   *)
(* the session graph (SessionGraph).                                       *)
(***************************************************************************)
EXTENDS MCReads, ShellCards, Shell_proofs,
        FiniteSetTheorems, SequenceTheorems, WellFoundedInduction, TLAPS

-----------------------------------------------------------------------------
(* Transcripts.                                                            *)

\* One load is under way at a time, that of the client the others join.
OneLoad == \A w \in Clients : loading[w] # "none" <=> inflight = w

LoadHasEngine == \A w \in Clients : loading[w] # "none" => on[w] \in Engines

\* A session that is active in an engine will be closed by the load that has
\* resumed it, unless the engine has been late or has refused to.
ActiveIsClosed ==
  \A n \in Engines :
    resumed[n] /\ ~unsure[n] => \E w \in Clients : on[w] = n /\ loading[w] \in {"read", "close"}

ReadIsActive ==
  \A w \in Clients : loading[w] = "read" /\ engines[on[w]] = "alive" => resumed[on[w]]

EngineInv == OneLoad /\ LoadHasEngine /\ ActiveIsClosed /\ ReadIsActive

\* Who waits for a page has not got the first one.
AskersGoOn == \A w \in Clients : asking[w] # NoValue => cursor[w] # NoValue

\* The invariant of the loads, and that of the clients.
LoadsOK ==
  /\ written \in 0..MaxMessages
  /\ cached \in 0..MaxMessages \cup {NoValue} /\ fresh \in BOOLEAN
  /\ inflight \in Clients \cup {NoValue}
  /\ loading \in [Clients -> Steps \cup {"none"}]
  /\ on \in [Clients -> 0..MaxEngines]
  /\ found \in [Clients -> 0..MaxMessages \cup {NoValue}]
  /\ engines \in [Engines -> {"none", "alive", "dead", "killed"}]
  /\ resumed \in [Engines -> BOOLEAN] /\ unsure \in [Engines -> BOOLEAN]
  /\ EngineInv

ClientsOK ==
  /\ asking \in [Clients -> Clients \cup {NoValue}]
  /\ got \in [Clients -> Seq(1..MaxMessages)]
  /\ cursor \in [Clients -> 1..First \cup {NoValue}]
  /\ AskersGoOn /\ PagesJoin

ReadsInv == LoadsOK /\ ClientsOK

-----------------------------------------------------------------------------
(* Pages.                                                                  *)

\* Numbers that follow one another.
Consecutive(g) == \A i \in 1..Len(g)-1 : g[i + 1] = g[i] + 1

\* A page in front of what has been collected from the cursor on joins it,
\* and begins where the next cursor says.
LEMMA PageJoins ==
  ASSUME NEW n \in 0..MaxMessages, NEW c \in 1..First, NEW g \in Seq(1..MaxMessages),
         Consecutive(g), Len(g) > 0 => g[1] = c
  PROVE  LET e == EndOfPage(n, c)
             s == StartOfPage(e)
             h == Page(s, e) \o g
         IN  /\ s \in 0..MaxMessages
             /\ h \in Seq(1..MaxMessages) /\ Consecutive(h)
             /\ Len(h) > 0 => h[1] = s + 1
<1> DEFINE e == EndOfPage(n, c)
           s == StartOfPage(e)
           pg == Page(s, e)
           h == pg \o g
<1>1. MaxMessages \in Nat /\ Limit \in Nat \ {0}
  BY PagesAssumption
<1>2. Len(g) \in Nat /\ \A i \in 1..Len(g) : g[i] \in 1..MaxMessages
  BY LenProperties, ElementOfSeq
<1>3. e \in 0..MaxMessages /\ (Len(g) > 0 => e = c - 1)
  BY <1>1, <1>2 DEF EndOfPage, First
<1>4. s \in 0..e /\ (s = e => e = 0)
  BY <1>1, <1>3 DEF StartOfPage
<1> HIDE DEF e, s
<1>d. PICK d \in Nat : d = e - s
  BY <1>1, <1>3, <1>4
<1>5. /\ pg \in Seq(1..MaxMessages) /\ Len(pg) = d
      /\ \A i \in 1..d : pg[i] = s + i
  BY <1>1, <1>3, <1>4, <1>d DEF Page
<1> HIDE DEF pg
<1>6. /\ h \in Seq(1..MaxMessages) /\ Len(h) = d + Len(g)
      /\ \A i \in 1..(d + Len(g)) : h[i] = IF i <= d THEN pg[i] ELSE g[i - d]
  <2>1. pg \in Seq(1..MaxMessages) /\ g \in Seq(1..MaxMessages)
    BY <1>5
  <2>2. /\ h \in Seq(1..MaxMessages) /\ Len(h) = Len(pg) + Len(g)
        /\ \A i \in 1..(Len(pg) + Len(g)) : h[i] = IF i <= Len(pg) THEN pg[i] ELSE g[i - Len(pg)]
    BY <2>1, ConcatProperties
  <2> QED
    BY <2>2, <1>5
<1> HIDE DEF h
<1>7. Len(h) > 0 => h[1] = s + 1
  <2>1. CASE d > 0
    <3>1. 1 \in 1..(d + Len(g)) /\ 1 \in 1..d
      BY <2>1, <1>2
    <3> QED
      BY <3>1, <1>5, <1>6
  <2>2. CASE d = 0
    <3>1. s = 0 /\ e = 0
      BY <2>2, <1>1, <1>3, <1>4, <1>d
    <3>2. ASSUME Len(g) > 0
          PROVE  h[1] = g[1] /\ c = 1 /\ g[1] = c
      BY <3>2, <3>1, <2>2, <1>2, <1>3, <1>6
    <3> QED
      BY <3>1, <3>2, <2>2, <1>2, <1>6
  <2> QED
    BY <2>1, <2>2
<1>8. Consecutive(h)
  <2> SUFFICES ASSUME NEW i \in 1..Len(h)-1 PROVE h[i + 1] = h[i] + 1
    BY DEF Consecutive
  <2>1. i \in Nat /\ i >= 1 /\ i + 1 <= d + Len(g)
    BY <1>2, <1>6
  <2>2. CASE i + 1 <= d
    BY <2>1, <2>2, <1>2, <1>4, <1>5, <1>6
  <2>3. CASE i = d
    <3>1. h[i] = s + i /\ h[i + 1] = g[1] /\ Len(g) > 0
      BY <2>1, <2>3, <1>2, <1>5, <1>6
    <3> QED
      BY <3>1, <2>3, <1>1, <1>3, <1>4, <1>d
  <2>4. CASE i > d
    <3>1. PICK j \in Nat : j = i - d
      BY <2>1, <2>4
    <3>2. j \in 1..Len(g)-1 /\ i + 1 - d = j + 1
      BY <3>1, <2>1, <2>4, <1>2
    <3>3. h[i] = g[j]
      BY <3>1, <2>1, <2>4, <1>2, <1>6
    <3>4. h[i + 1] = g[i + 1 - d]
      BY <2>1, <2>4, <1>2, <1>6
    <3> QED
      BY <3>2, <3>3, <3>4 DEF Consecutive
  <2> QED
    BY <2>1, <2>2, <2>3, <2>4
<1>9. s \in 0..MaxMessages
  BY <1>1, <1>3, <1>4
<1> QED
  BY <1>6, <1>7, <1>8, <1>9 DEF h, pg, s, e

\* What a client has collected, and where it goes on.
CollectedOK(g, c) ==
  /\ g \in Seq(1..MaxMessages) /\ c \in 1..First \cup {NoValue}
  /\ Consecutive(g)
  /\ Len(g) > 0 => g[1] = IF c = NoValue THEN 1 ELSE c

\* The same client by client.
LEMMA ClientByClient ==
  ASSUME got \in [Clients -> Seq(1..MaxMessages)], cursor \in [Clients -> 1..First \cup {NoValue}]
  PROVE  PagesJoin <=> \A w \in Clients : CollectedOK(got[w], cursor[w])
BY DEF PagesJoin, CollectedOK, Consecutive

\* Those who are served a page of any snapshot, and go on, have joined pages.
LEMMA ServedJoin ==
  ASSUME ClientsOK, NEW C \in SUBSET Clients, NEW n \in 0..MaxMessages,
         \A w \in C : cursor[w] # NoValue, Served(C, n)
  PROVE  /\ got' \in [Clients -> Seq(1..MaxMessages)]
         /\ cursor' \in [Clients -> 1..First \cup {NoValue}]
         /\ PagesJoin'
         /\ \A w \in Clients \ C : cursor'[w] = cursor[w]
<1> DEFINE e(w) == EndOfPage(n, cursor[w])
           s(w) == StartOfPage(e(w))
<1>1. /\ got' = [w \in Clients |-> IF w \in C THEN Page(s(w), e(w)) \o got[w] ELSE got[w]]
      /\ cursor' = [w \in Clients |-> IF w \notin C THEN cursor[w]
                                      ELSE IF s(w) = 0 THEN NoValue ELSE s(w) + 1]
  BY DEF Served
<1>2. ASSUME NEW w \in C
      PROVE  CollectedOK(got'[w], cursor'[w])
  <2>1. w \in Clients /\ cursor[w] \in 1..First /\ CollectedOK(got[w], cursor[w])
    BY ClientByClient DEF ClientsOK
  <2>2. Consecutive(got[w]) /\ (Len(got[w]) > 0 => got[w][1] = cursor[w])
    BY <2>1 DEF CollectedOK
  <2>3. /\ s(w) \in 0..MaxMessages
        /\ Page(s(w), e(w)) \o got[w] \in Seq(1..MaxMessages)
        /\ Consecutive(Page(s(w), e(w)) \o got[w])
        /\ Len(Page(s(w), e(w)) \o got[w]) > 0 => (Page(s(w), e(w)) \o got[w])[1] = s(w) + 1
    <3>1. got[w] \in Seq(1..MaxMessages)
      BY <2>1 DEF CollectedOK
    <3> QED
      BY <2>1, <2>2, <3>1, PageJoins
  <2>4. /\ got'[w] = Page(s(w), e(w)) \o got[w]
        /\ cursor'[w] = IF s(w) = 0 THEN NoValue ELSE s(w) + 1
    BY <1>1, <2>1
  <2> HIDE DEF s, e
  <2>5. cursor'[w] \in 1..First \cup {NoValue}
    BY <2>3, <2>4, PagesAssumption DEF First
  <2>6. Len(got'[w]) > 0 => got'[w][1] = IF cursor'[w] = NoValue THEN 1 ELSE cursor'[w]
    <3>1. Len(got'[w]) > 0 => got'[w][1] = s(w) + 1
      BY <2>3, <2>4
    <3>2. CASE s(w) = 0
      BY <3>1, <3>2, <2>4
    <3>3. CASE s(w) # 0
      <4>1. cursor'[w] = s(w) + 1 /\ s(w) + 1 # NoValue
        BY <3>3, <2>3, <2>4, PagesAssumption
      <4> QED
        BY <3>1, <4>1
    <3> QED
      BY <3>2, <3>3
  <2> QED
    BY <2>3, <2>4, <2>5, <2>6 DEF CollectedOK
<1> HIDE DEF s, e
<1>3. ASSUME NEW w \in Clients \ C
      PROVE  /\ got'[w] = got[w] /\ cursor'[w] = cursor[w]
             /\ CollectedOK(got'[w], cursor'[w])
  <2>1. got'[w] = got[w] /\ cursor'[w] = cursor[w]
    BY <1>1
  <2> QED
    BY <2>1, ClientByClient DEF ClientsOK
<1>4. \A w \in Clients : CollectedOK(got'[w], cursor'[w])
  BY <1>2, <1>3
<1>5. /\ got' \in [Clients -> Seq(1..MaxMessages)]
      /\ cursor' \in [Clients -> 1..First \cup {NoValue}]
  BY <1>1, <1>4 DEF CollectedOK
<1>6. PagesJoin'
  BY <1>4, <1>5 DEF PagesJoin, CollectedOK, Consecutive
<1> QED
  BY <1>3, <1>5, <1>6

-----------------------------------------------------------------------------
(* Loads.                                                                  *)

\* The invariant holds before any read.
LEMMA ReadsInitial == ReadInit => ReadsInv
<1> SUFFICES ASSUME ReadInit PROVE ReadsInv
  OBVIOUS
<1>1. LoadsOK
  <2>1. EngineInv
    BY PagesAssumption DEF ReadInit, EngineInv, OneLoad, LoadHasEngine, ActiveIsClosed, ReadIsActive
  <2>2. 0 \in 0..MaxEngines
    BY PagesAssumption
  <2> QED
    BY <2>1, <2>2 DEF ReadInit, LoadsOK
<1>2. << >> \in Seq(1..MaxMessages) /\ Len(<< >>) = 0
  BY EmptySeq
<1>3. ClientsOK
  BY <1>2, PagesAssumption DEF ReadInit, ClientsOK, AskersGoOn, PagesJoin, First
<1> QED
  BY <1>1, <1>3 DEF ReadsInv

\* Who waits for nobody is left alone.
LEMMA ClientFrame ==
  ASSUME ClientsOK, UNCHANGED clientVars
  PROVE  ClientsOK'
BY DEF ClientsOK, clientVars, AskersGoOn, PagesJoin

\* The end of a load serves those who have waited for it, or fails them.
LEMMA LoadEndServes ==
  ASSUME ClientsOK, NEW w \in Clients, LoadEnds(w), found'[w] \in 0..MaxMessages \cup {NoValue}
  PROVE  /\ ClientsOK' /\ inflight' = NoValue
         /\ cached' \in 0..MaxMessages \cup {NoValue} /\ fresh' \in BOOLEAN
<1> DEFINE waiting == {v \in Clients : asking[v] = w}
<1>1. /\ asking' = [v \in Clients |-> IF v \in waiting THEN NoValue ELSE asking[v]]
      /\ cached' = found'[w] /\ fresh' = (found'[w] # NoValue) /\ inflight' = NoValue
  BY DEF LoadEnds
<1>2. fresh' \in BOOLEAN
  BY <1>1
<1>3. \A v \in waiting : v \in Clients /\ cursor[v] # NoValue
  BY PagesAssumption DEF ClientsOK, AskersGoOn
<1>4. CASE found'[w] = NoValue
  BY <1>1, <1>2, <1>4 DEF LoadEnds, ClientsOK, AskersGoOn, PagesJoin
<1>5. CASE found'[w] # NoValue
  <2>1. Served(waiting, found'[w]) /\ found'[w] \in 0..MaxMessages /\ waiting \in SUBSET Clients
    BY <1>5 DEF LoadEnds
  <2>2. /\ got' \in [Clients -> Seq(1..MaxMessages)]
        /\ cursor' \in [Clients -> 1..First \cup {NoValue}]
        /\ PagesJoin'
        /\ \A v \in Clients \ waiting : cursor'[v] = cursor[v]
    BY <1>3, <2>1, ServedJoin
  <2>3. asking' \in [Clients -> Clients \cup {NoValue}] /\ AskersGoOn'
    BY <1>1, <2>2 DEF ClientsOK, AskersGoOn
  <2> QED
    BY <1>1, <1>2, <2>2, <2>3 DEF ClientsOK
<1> QED
  BY <1>4, <1>5

\* A page out of the cache, and a call that joins a load, leave the loads.
LEMMA PagePreserves ==
  ASSUME ReadsInv, NEW w \in Clients, PageFromCache(w) \/ JoinLoad(w)
  PROVE  ReadsInv'
<1>1. LoadsOK /\ ClientsOK
  BY DEF ReadsInv
<1>2. UNCHANGED <<written, cacheVars, loadVars, engineVars>>
  BY DEF PageFromCache, JoinLoad
<1>3. LoadsOK'
  BY <1>1, <1>2 DEF LoadsOK, EngineInv, OneLoad, LoadHasEngine, ActiveIsClosed, ReadIsActive,
     cacheVars, loadVars, engineVars
<1>4. CASE PageFromCache(w)
  <2>1. /\ cursor[w] # NoValue /\ cached \in 0..MaxMessages
        /\ Served({w}, cached) /\ asking' = asking
    BY <1>1, <1>4 DEF PageFromCache, LoadsOK
  <2>2. /\ got' \in [Clients -> Seq(1..MaxMessages)]
        /\ cursor' \in [Clients -> 1..First \cup {NoValue}]
        /\ PagesJoin' /\ \A v \in Clients \ {w} : cursor'[v] = cursor[v]
    BY <1>1, <2>1, ServedJoin
  <2>3. AskersGoOn'
    BY <1>1, <1>4, <2>1, <2>2 DEF PageFromCache, ClientsOK, AskersGoOn
  <2>4. ClientsOK'
    BY <1>1, <2>1, <2>2, <2>3 DEF ClientsOK
  <2> QED
    BY <1>3, <2>4 DEF ReadsInv
<1>5. CASE JoinLoad(w)
  <2>1. ClientsOK'
    BY <1>1, <1>5 DEF JoinLoad, Joins, ClientsOK, LoadsOK, AskersGoOn, PagesJoin
  <2> QED
    BY <1>3, <2>1 DEF ReadsInv
<1> QED
  BY <1>4, <1>5

\* A load starts where none is under way.
LEMMA StartPreserves ==
  ASSUME ReadsInv, NEW w \in Clients, StartLoad(w)
  PROVE  ReadsInv'
<1> USE PagesAssumption
<1>1. LoadsOK /\ ClientsOK
  BY DEF ReadsInv
<1>2. \A v \in Clients : loading[v] = "none"
  BY <1>1 DEF StartLoad, Joins, LoadsOK, EngineInv, OneLoad
<1>3. PICK n \in Engines :
        /\ engines' = [engines EXCEPT ![n] = IF @ = "none" THEN "alive" ELSE @]
        /\ on' = [on EXCEPT ![w] = n]
  BY DEF StartLoad
<1>4. /\ loading' = [loading EXCEPT ![w] = "list"] /\ found' = [found EXCEPT ![w] = NoValue]
      /\ asking' = [asking EXCEPT ![w] = w] /\ cached' = NoValue /\ inflight' = w
      /\ cursor[w] # NoValue
      /\ UNCHANGED <<written, fresh, cursor, got, resumed, unsure>>
  BY DEF StartLoad
<1>5. ClientsOK'
  BY <1>1, <1>4 DEF ClientsOK, AskersGoOn, PagesJoin
<1>6. n \in 0..MaxEngines
  BY DEF Engines
<1>7. OneLoad'
  BY <1>1, <1>2, <1>4 DEF OneLoad, LoadsOK
<1>8. LoadHasEngine' /\ ActiveIsClosed' /\ ReadIsActive'
  BY <1>1, <1>2, <1>3, <1>4
  DEF LoadHasEngine, ActiveIsClosed, ReadIsActive, LoadsOK, EngineInv
<1>9. LoadsOK'
  BY <1>1, <1>3, <1>4, <1>6, <1>7, <1>8 DEF LoadsOK, EngineInv, Steps
<1> QED
  BY <1>5, <1>9 DEF ReadsInv

\* Where the one load goes, and that it is over when it is.
LoadGoes(w, to) ==
  /\ loading' = [loading EXCEPT ![w] = to]
  /\ inflight' = IF to = "none" THEN NoValue ELSE inflight
  /\ UNCHANGED <<written, on>>

\* What all steps of a load have in common.
LEMMA LoadStepKeeps ==
  ASSUME LoadsOK, NEW w \in Clients, loading[w] # "none",
         NEW to \in Steps \cup {"none"}, LoadGoes(w, to)
  PROVE  /\ inflight = w /\ on[w] \in Engines
         /\ \A v \in Clients : v # w => loading[v] = "none" /\ loading'[v] = "none"
         /\ loading'[w] = to /\ loading' \in [Clients -> Steps \cup {"none"}]
         /\ inflight' \in Clients \cup {NoValue}
         /\ OneLoad' /\ LoadHasEngine'
BY PagesAssumption DEF LoadGoes, LoadsOK, EngineInv, OneLoad, LoadHasEngine

\* What is active after the step of a load is active in its engine.
LEMMA ActiveOfLoad ==
  ASSUME LoadsOK, NEW w \in Clients, loading[w] # "none"
  PROVE  \A n \in Engines : resumed[n] /\ ~unsure[n] => n = on[w] /\ loading[w] \in {"read", "close"}
BY PagesAssumption DEF LoadsOK, EngineInv, OneLoad, ActiveIsClosed

\* A call that fails ends the load, or has the session closed first.
LEMMA FailedServes ==
  ASSUME ReadsInv, NEW w \in Clients, loading[w] # "none", Failed(w), UNCHANGED <<written, on>>
  PROVE  /\ LoadGoes(w, AfterFailure(loading[w]))
         /\ ClientsOK'
         /\ cached' \in 0..MaxMessages \cup {NoValue} /\ fresh' \in BOOLEAN
         /\ found' \in [Clients -> 0..MaxMessages \cup {NoValue}]
<1> DEFINE to == AfterFailure(loading[w])
<1>1. LoadsOK /\ ClientsOK
  BY DEF ReadsInv
<1>2. loading' = [loading EXCEPT ![w] = to] /\ loading'[w] = to
  BY <1>1 DEF Failed, Goes, LoadsOK
<1>3. found' \in [Clients -> 0..MaxMessages \cup {NoValue}]
  BY <1>1 DEF Failed, LoadsOK
<1>4. CASE to # "none"
  <2>1. UNCHANGED <<cacheVars, clientVars>>
    BY <1>2, <1>4 DEF Failed
  <2>2. ClientsOK'
    BY <1>1, <2>1, ClientFrame
  <2> QED
    BY <1>1, <1>2, <1>3, <1>4, <2>1, <2>2 DEF LoadGoes, cacheVars, LoadsOK
<1>5. CASE to = "none"
  <2>1. LoadEnds(w)
    BY <1>2, <1>5 DEF Failed, LoadFails
  <2>2. found'[w] \in 0..MaxMessages \cup {NoValue}
    BY <1>3
  <2>3. /\ ClientsOK' /\ inflight' = NoValue
        /\ cached' \in 0..MaxMessages \cup {NoValue} /\ fresh' \in BOOLEAN
    BY <1>1, <2>1, <2>2, LoadEndServes
  <2> QED
    BY <1>2, <1>3, <1>5, <2>3 DEF LoadGoes
<1> QED
  BY <1>4, <1>5

\* The engine answers: a resumed session is active until it is closed.
LEMMA AnswerPreserves ==
  ASSUME ReadsInv, NEW w \in Clients, EngineAnswers(w)
  PROVE  ReadsInv'
<1> DEFINE to == Then(loading[w])
<1>1. LoadsOK /\ ClientsOK
  BY DEF ReadsInv
<1>2. loading[w] \in Steps /\ loading[w] # "none" /\ engines[on[w]] = "alive"
  BY DEF EngineAnswers, Steps
<1>3. to \in Steps \cup {"none"} /\ (to = "none" <=> loading[w] = "close")
  BY <1>2 DEF Then, Steps
<1>4. found' \in [Clients -> 0..MaxMessages \cup {NoValue}]
  BY <1>1 DEF EngineAnswers, LoadsOK
<1>5. /\ LoadGoes(w, to) /\ ClientsOK'
      /\ cached' \in 0..MaxMessages \cup {NoValue} /\ fresh' \in BOOLEAN
  <2>1. CASE loading[w] = "close"
    <3>1. LoadEnds(w) /\ found'[w] \in 0..MaxMessages \cup {NoValue}
      BY <1>4, <2>1 DEF EngineAnswers
    <3>2. /\ ClientsOK' /\ inflight' = NoValue
          /\ cached' \in 0..MaxMessages \cup {NoValue} /\ fresh' \in BOOLEAN
      BY <1>1, <3>1, LoadEndServes
    <3> QED
      BY <1>3, <2>1, <3>2 DEF LoadGoes, EngineAnswers, Goes
  <2>2. CASE loading[w] # "close"
    <3>1. UNCHANGED <<cacheVars, clientVars>>
      BY <2>2 DEF EngineAnswers
    <3>2. ClientsOK'
      BY <1>1, <3>1, ClientFrame
    <3> QED
      BY <1>1, <1>3, <2>2, <3>1, <3>2 DEF LoadGoes, EngineAnswers, Goes, cacheVars, LoadsOK
  <2> QED
    BY <2>1, <2>2
<1> HIDE DEF to
<1>6. /\ on[w] \in Engines /\ loading'[w] = to /\ OneLoad' /\ LoadHasEngine'
      /\ \A v \in Clients : v # w => loading'[v] = "none"
      /\ loading' \in [Clients -> Steps \cup {"none"}] /\ inflight' \in Clients \cup {NoValue}
  BY <1>1, <1>2, <1>3, <1>5, LoadStepKeeps
<1>7. \A n \in Engines : resumed[n] /\ ~unsure[n] => n = on[w] /\ loading[w] \in {"read", "close"}
  BY <1>1, <1>2, ActiveOfLoad
<1>8. /\ on' = on /\ engines' = engines
      /\ unsure' = IF loading[w] = "close" THEN [unsure EXCEPT ![on[w]] = FALSE] ELSE unsure
      /\ loading[w] = "read" => resumed[on[w]]
      /\ resumed' = IF loading[w] = "asked" THEN [resumed EXCEPT ![on[w]] = TRUE]
                   ELSE IF loading[w] = "close" THEN [resumed EXCEPT ![on[w]] = FALSE] ELSE resumed
  BY DEF EngineAnswers
<1>9. /\ loading[w] = "asked" <=> to = "read"
      /\ loading[w] = "read" <=> to = "close"
  BY <1>2 DEF to, Then, Steps
<1>10. resumed' \in [Engines -> BOOLEAN] /\ unsure' \in [Engines -> BOOLEAN]
  BY <1>1, <1>6, <1>8 DEF LoadsOK
<1>11. ReadIsActive'
  BY <1>1, <1>6, <1>8, <1>9 DEF ReadIsActive, LoadsOK
<1>12. ActiveIsClosed'
  <2> SUFFICES ASSUME NEW n \in Engines, resumed'[n], ~unsure'[n]
               PROVE  n = on[w] /\ to \in {"read", "close"}
    BY <1>6, <1>8 DEF ActiveIsClosed
  <2>1. CASE loading[w] = "asked"
    BY <2>1, <1>1, <1>6, <1>7, <1>8, <1>9 DEF LoadsOK
  <2>2. CASE loading[w] = "close"
    BY <2>2, <1>1, <1>6, <1>7, <1>8 DEF LoadsOK
  <2>3. CASE loading[w] \notin {"asked", "close"}
    BY <2>3, <1>7, <1>8, <1>9
  <2> QED
    BY <2>1, <2>2, <2>3
<1>13. LoadsOK'
  BY <1>1, <1>4, <1>5, <1>6, <1>8, <1>10, <1>11, <1>12 DEF LoadsOK, EngineInv, LoadGoes
<1> QED
  BY <1>5, <1>13 DEF ReadsInv

\* A call that is not made, and one that the engine refuses or is late with.
LEMMA FailurePreserves ==
  ASSUME ReadsInv, NEW w \in Clients, NothingToPush(w) \/ EngineRefuses(w) \/ CallTimesOut(w)
  PROVE  ReadsInv'
<1>1. LoadsOK /\ ClientsOK
  BY DEF ReadsInv
<1>2. CASE NothingToPush(w)
  <2>1. /\ loading[w] = "push" /\ LoadGoes(w, "resume") /\ "resume" \in Steps
        /\ UNCHANGED <<cached, fresh, found, engines, resumed, unsure>>
    BY <1>2 DEF NothingToPush, Goes, LoadGoes, cacheVars, engineVars, Steps
  <2>2. ClientsOK'
    BY <1>1, <1>2, ClientFrame DEF NothingToPush
  <2>3. /\ on[w] \in Engines /\ loading'[w] = "resume" /\ OneLoad' /\ LoadHasEngine'
        /\ \A v \in Clients : v # w => loading'[v] = "none"
        /\ loading' \in [Clients -> Steps \cup {"none"}] /\ inflight' \in Clients \cup {NoValue}
    BY <1>1, <2>1, LoadStepKeeps
  <2>4. \A n \in Engines : resumed[n] /\ ~unsure[n] => n = on[w] /\ loading[w] \in {"read", "close"}
    BY <1>1, <2>1, ActiveOfLoad
  <2>5. LoadsOK'
    BY <1>1, <2>1, <2>3, <2>4 DEF LoadsOK, EngineInv, LoadGoes, ActiveIsClosed, ReadIsActive
  <2> QED
    BY <2>2, <2>5 DEF ReadsInv
<1>3. CASE EngineRefuses(w) \/ CallTimesOut(w)
  <2> DEFINE to == AfterFailure(loading[w])
  <2>1. loading[w] # "none" /\ Failed(w) /\ UNCHANGED <<written, on>> /\ engines' = engines
    BY <1>3 DEF EngineRefuses, CallTimesOut, Steps, engineVars
  <2>2. /\ LoadGoes(w, to) /\ ClientsOK'
        /\ cached' \in 0..MaxMessages \cup {NoValue} /\ fresh' \in BOOLEAN
        /\ found' \in [Clients -> 0..MaxMessages \cup {NoValue}]
    BY <2>1, FailedServes
  <2>3. to \in {"close", "none"} /\ (to = "close" <=> loading[w] = "read")
    BY DEF AfterFailure
  <2> HIDE DEF to
  <2>4. to \in Steps \cup {"none"}
    BY <2>3 DEF Steps
  <2>5. /\ on[w] \in Engines /\ loading'[w] = to /\ OneLoad' /\ LoadHasEngine'
        /\ \A v \in Clients : v # w => loading'[v] = "none"
        /\ loading' \in [Clients -> Steps \cup {"none"}] /\ inflight' \in Clients \cup {NoValue}
    BY <1>1, <2>1, <2>2, <2>4, LoadStepKeeps
  <2>6. \A n \in Engines : resumed[n] /\ ~unsure[n] => n = on[w] /\ loading[w] \in {"read", "close"}
    BY <1>1, <2>1, ActiveOfLoad
  <2>7. /\ resumed' \in [Engines -> BOOLEAN] /\ unsure' \in [Engines -> BOOLEAN]
        /\ \A n \in Engines : resumed'[n] /\ ~unsure'[n] => resumed[n] /\ ~unsure[n] /\ loading[w] # "close"
    <3>1. CASE EngineRefuses(w)
      <4>1. /\ resumed' = resumed
            /\ unsure' = IF loading[w] = "close" THEN [unsure EXCEPT ![on[w]] = TRUE] ELSE unsure
        BY <3>1 DEF EngineRefuses
      <4> QED
        BY <4>1, <1>1, <2>5, <2>6 DEF LoadsOK
    <3>2. CASE CallTimesOut(w)
      <4>1. unsure' = [unsure EXCEPT ![on[w]] = TRUE] /\ unsure' \in [Engines -> BOOLEAN]
        BY <3>2, <1>1 DEF CallTimesOut, LoadsOK
      <4>2. /\ resumed' \in [Engines -> BOOLEAN]
            /\ \A n \in Engines : n # on[w] => resumed'[n] = resumed[n]
        BY <3>2, <1>1, <2>5 DEF CallTimesOut, LoadsOK
      <4> QED
        BY <4>1, <4>2, <1>1, <2>5, <2>6 DEF LoadsOK
    <3> QED
      BY <1>3, <3>1, <3>2
  <2>8. ActiveIsClosed'
    BY <2>2, <2>3, <2>5, <2>6, <2>7 DEF ActiveIsClosed, LoadGoes
  <2>9. ReadIsActive'
    BY <2>3, <2>5 DEF ReadIsActive
  <2>10. LoadsOK'
    BY <1>1, <2>1, <2>2, <2>5, <2>7, <2>8, <2>9 DEF LoadsOK, EngineInv, LoadGoes
  <2> QED
    BY <2>2, <2>10 DEF ReadsInv
<1> QED
  BY <1>2, <1>3

\* The engine exits, with or without a call under way.
LEMMA ExitPreserves ==
  ASSUME ReadsInv, NEW n \in Engines, EngineExits(n)
  PROVE  ReadsInv'
<1>1. LoadsOK /\ ClientsOK
  BY DEF ReadsInv
<1>2. /\ \E end \in {"dead", "killed"} : engines' = [engines EXCEPT ![n] = end]
      /\ resumed' = [resumed EXCEPT ![n] = FALSE]
      /\ UNCHANGED <<written, on, unsure>>
      /\ engines' \in [Engines -> {"none", "alive", "dead", "killed"}]
      /\ resumed' \in [Engines -> BOOLEAN]
  BY <1>1 DEF EngineExits, LoadsOK
<1>3. CASE \E w \in Clients : on[w] = n /\ loading[w] # "none"
  <2>1. PICK w \in Clients : on[w] = n /\ loading[w] # "none" /\ Failed(w)
    BY <1>3 DEF EngineExits
  <2> DEFINE to == AfterFailure(loading[w])
  <2>2. /\ LoadGoes(w, to) /\ ClientsOK'
        /\ cached' \in 0..MaxMessages \cup {NoValue} /\ fresh' \in BOOLEAN
        /\ found' \in [Clients -> 0..MaxMessages \cup {NoValue}]
    BY <2>1, <1>2, FailedServes
  <2>3. to \in {"close", "none"} /\ to \in Steps \cup {"none"}
    BY DEF AfterFailure, Steps
  <2> HIDE DEF to
  <2>4. /\ loading'[w] = to /\ OneLoad' /\ LoadHasEngine'
        /\ \A v \in Clients : v # w => loading'[v] = "none"
        /\ loading' \in [Clients -> Steps \cup {"none"}] /\ inflight' \in Clients \cup {NoValue}
    BY <1>1, <2>1, <2>2, <2>3, LoadStepKeeps
  <2>5. \A m \in Engines : resumed[m] /\ ~unsure[m] => m = n
    BY <1>1, <2>1, ActiveOfLoad
  <2>6. ActiveIsClosed'
    BY <1>1, <1>2, <2>5 DEF ActiveIsClosed, LoadsOK
  <2>7. ReadIsActive'
    BY <2>3, <2>4 DEF ReadIsActive
  <2>8. LoadsOK'
    BY <1>1, <1>2, <2>2, <2>4, <2>6, <2>7 DEF LoadsOK, EngineInv, LoadGoes
  <2> QED
    BY <2>2, <2>8 DEF ReadsInv
<1>4. CASE ~\E w \in Clients : on[w] = n /\ loading[w] # "none"
  <2>1. UNCHANGED <<loading, found, cached, fresh, inflight>> /\ UNCHANGED clientVars
    BY <1>4 DEF EngineExits, cacheVars
  <2>2. ActiveIsClosed' /\ ReadIsActive'
    BY <1>1, <1>2, <1>4, <2>1 DEF ActiveIsClosed, ReadIsActive, LoadsOK, EngineInv, LoadHasEngine
  <2>3. LoadsOK'
    BY <1>1, <1>2, <2>1, <2>2 DEF LoadsOK, EngineInv, OneLoad, LoadHasEngine
  <2>4. ClientsOK'
    BY <1>1, <2>1, ClientFrame
  <2> QED
    BY <2>3, <2>4 DEF ReadsInv
<1> QED
  BY <1>3, <1>4

\* Every step preserves the invariant; the session that goes on and the
\* snapshot that expires touch no read.
LEMMA ReadsPreserved ==
  ASSUME ReadsInv, [ReadNext]_readVars
  PROVE  ReadsInv'
<1>1. CASE MessageWritten \/ SnapshotExpires \/ UNCHANGED readVars
  <2>1. UNCHANGED <<cached, inflight, loading, on, found, engines, resumed, unsure>>
        /\ UNCHANGED clientVars
    BY <1>1 DEF MessageWritten, SnapshotExpires, readVars, loadVars, engineVars, cacheVars, clientVars
  <2>2. EngineInv'
    BY <2>1 DEF ReadsInv, LoadsOK, EngineInv, OneLoad, LoadHasEngine, ActiveIsClosed, ReadIsActive
  <2>3. written' \in 0..MaxMessages
    BY <1>1, PagesAssumption DEF MessageWritten, SnapshotExpires, readVars, ReadsInv, LoadsOK
  <2>4. fresh' \in BOOLEAN
    BY <1>1 DEF MessageWritten, SnapshotExpires, readVars, cacheVars, ReadsInv, LoadsOK
  <2>5. LoadsOK'
    BY <2>1, <2>2, <2>3, <2>4 DEF ReadsInv, LoadsOK
  <2> QED
    BY <2>1, <2>5, ClientFrame DEF ReadsInv
<1> QED
  BY <1>1, PagePreserves, StartPreserves, AnswerPreserves, FailurePreserves, ExitPreserves
  DEF ReadNext, LoadStep

\* The invariant holds in every state.
LEMMA ReadsInvHolds == ReadSpec => []ReadsInv
<1>1. ReadInit => ReadsInv
  BY ReadsInitial
<1>2. ReadsInv /\ [ReadNext]_readVars => ReadsInv'
  BY ReadsPreserved
<1> QED
  BY <1>1, <1>2, PTL DEF ReadSpec

\* The pages a client collects join without a gap or an overlap, and reach
\* the beginning, with any limit, any number of clients and any snapshots in
\* between (paging.ts, paginate).
THEOREM PagesJoinHolds == ReadSpec => []PagesJoin
<1>1. ReadsInv => PagesJoin
  BY DEF ReadsInv, ClientsOK
<1> QED
  BY <1>1, ReadsInvHolds, PTL

\* No read closes the session under another, and none leaves it active in an
\* engine that has not been late with a call, nor refused to close, since it
\* last did, with any number of clients and of engines, whichever of them exit
\* or are killed (paging.ts, get; zcode.ts, read and its finally).
THEOREM ReadsSpareEngineHolds == ReadSpec => []ReadsSpareEngine
<1>1. ReadsInv => ReadsSpareEngine
  BY DEF ReadsInv, LoadsOK, EngineInv, ReadIsActive, ActiveIsClosed, ReadsSpareEngine
<1> QED
  BY <1>1, ReadsInvHolds, PTL

-----------------------------------------------------------------------------
(* ChangeStats, the tracker.                                               *)

\* What n says of a tool call may still be counted when at has been heard:
\* it is a statistic of the call, which has not failed since and has given no
\* newer one.
StandsUntil(c, n, at) ==
  /\ n \in 1..at /\ history[n].tool = c
  /\ history[n].diff \/ history[n].input
  /\ \A i \in n..at : history[i].tool = c => history[i].status # "failed"
  /\ \A i \in (n + 1)..at : history[i].tool = c => ~history[i].diff

StagedStands == \A c \in ToolCalls : staged[c] # 0 => StandsUntil(c, staged[c], Len(history))

CountStands(x) ==
  /\ x.tool \in ToolCalls /\ x.at \in 1..Len(history)
  /\ history[x.at].tool = x.tool /\ history[x.at].status = "completed"
  /\ StandsUntil(x.tool, x.stat, x.at)

CountedAreCommitted ==
  /\ \A x \in counts : CountStands(x) /\ x.tool \in committed
  /\ \A x, y \in counts : x.tool = y.tool => x = y

TrackerInv ==
  /\ history \in Seq(Updates)
  /\ staged \in [ToolCalls -> Nat] /\ named \in [ToolCalls -> BOOLEAN]
  /\ StagedStands /\ CountedAreCommitted

\* Nothing has been heard, staged or counted at first.
LEMMA TrackerInitial == TrackerInit => TrackerInv
  BY DEF TrackerInit, TrackerInv, StagedStands, CountedAreCommitted

\* The history grows at its end: what it says at a number stays.
LEMMA HistoryGrows ==
  ASSUME TrackerInv, NEW u \in Updates, history' = Append(history, u)
  PROVE  /\ Len(history) \in Nat /\ Len(history') = Len(history) + 1
         /\ history' \in Seq(Updates) /\ history'[Len(history')] = u
         /\ \A i \in 1..Len(history) : history'[i] = history[i]
  BY DEF TrackerInv

\* What stands goes on standing while the history grows, unless the update is
\* a failure or a diff of the same tool call; what has been counted stands at
\* its own number, whatever follows.
LEMMA StandsOn ==
  ASSUME TrackerInv, NEW u \in Updates, history' = Append(history, u), NEW c, NEW n
  PROVE  /\ \A at \in 1..Len(history) : StandsUntil(c, n, at) => StandsUntil(c, n, at)'
         /\ StandsUntil(c, n, Len(history)) /\ (u.tool = c => u.status # "failed" /\ ~u.diff)
              => StandsUntil(c, n, Len(history))'
  BY HistoryGrows DEF StandsUntil

\* A statistic stands from the update on that gives it.
LEMMA StandsFromHere ==
  ASSUME TrackerInv, NEW u \in Updates, history' = Append(history, u), HasStat(u),
         u.status # "failed", NEW n, n = Len(history')
  PROVE  StandsUntil(u.tool, n, Len(history))'
  BY HistoryGrows DEF StandsUntil, HasStat

\* What was staged for other tool calls stays staged, and stands.
LEMMA OthersStand ==
  ASSUME TrackerInv, NEW u \in Updates, history' = Append(history, u),
         NEW c \in ToolCalls, c # u.tool, staged'[c] = staged[c], staged'[c] # 0
  PROVE  StandsUntil(c, staged[c], Len(history))'
  BY StandsOn DEF TrackerInv, StagedStands

\* What has been counted stays as it is.
LEMMA CountsStand ==
  ASSUME TrackerInv, NEW u \in Updates, history' = Append(history, u),
         NEW x \in counts
  PROVE  CountStands(x)'
<1>1. CountStands(x) /\ x.at \in 1..Len(history)
  BY DEF TrackerInv, CountedAreCommitted, CountStands
<1>2. StandsUntil(x.tool, x.stat, x.at)'
  BY <1>1, StandsOn DEF CountStands
<1> QED
  BY <1>1, <1>2, HistoryGrows DEF CountStands

\* A failed result drops what is staged for its tool call.
LEMMA ErrorPreserves ==
  ASSUME TrackerInv, NEW u \in Updates, history' = Append(history, u), ErrorResult(u)
  PROVE  TrackerInv'
<1>1. u.tool \in ToolCalls
  BY DEF Updates
<1>2. /\ staged' = [staged EXCEPT ![u.tool] = 0] /\ named' = [named EXCEPT ![u.tool] = FALSE]
      /\ UNCHANGED <<committed, counts>>
  BY DEF ErrorResult, DroppedOnError
<1>3. /\ staged' \in [ToolCalls -> Nat] /\ named' \in [ToolCalls -> BOOLEAN]
      /\ history' \in Seq(Updates)
  BY <1>2, HistoryGrows DEF TrackerInv
<1>4. StagedStands'
  <2> SUFFICES ASSUME NEW c \in ToolCalls, staged'[c] # 0
               PROVE  StandsUntil(c, staged[c], Len(history))'
    BY DEF StagedStands
  <2>1. c # u.tool /\ staged'[c] = staged[c]
    BY <1>1, <1>2 DEF TrackerInv
  <2> QED
    BY <2>1, OthersStand
<1>5. CountedAreCommitted'
  BY <1>2, CountsStand DEF TrackerInv, CountedAreCommitted
<1> QED
  BY <1>3, <1>4, <1>5 DEF TrackerInv

\* A statistic of a tool call that goes on replaces the staged one; an update
\* without one gives no diff, and the staged one stands.
LEMMA ProgressPreserves ==
  ASSUME TrackerInv, NEW u \in Updates, history' = Append(history, u), Progress(u)
  PROVE  TrackerInv'
<1>1. u.tool \in ToolCalls /\ u.status = "in_progress" /\ u.named \in BOOLEAN
  BY DEF Updates, Progress
<1>2. /\ staged' = IF HasStat(u) THEN [staged EXCEPT ![u.tool] = Len(history')] ELSE staged
      /\ UNCHANGED <<committed, counts>>
  BY DEF Progress
<1>3. staged' \in [ToolCalls -> Nat] /\ history' \in Seq(Updates)
  BY <1>1, <1>2, HistoryGrows DEF TrackerInv
<1>4. named' \in [ToolCalls -> BOOLEAN]
  BY <1>1, Zenon DEF Progress, TrackerInv
<1>5. StagedStands'
  <2> SUFFICES ASSUME NEW c \in ToolCalls, staged'[c] # 0
               PROVE  StandsUntil(c, staged[c], Len(history))'
    BY DEF StagedStands
  <2>1. CASE c # u.tool
    <3>1. staged'[c] = staged[c]
      BY <1>1, <1>2, <2>1 DEF TrackerInv
    <3> QED
      BY <2>1, <3>1, OthersStand
  <2>2. CASE c = u.tool /\ HasStat(u)
    <3>1. staged'[c] = Len(history')
      BY <1>1, <1>2, <2>2 DEF TrackerInv
    <3> QED
      BY <1>1, <2>2, <3>1, StandsFromHere
  <2>3. CASE c = u.tool /\ ~HasStat(u)
    <3>1. staged'[c] = staged[c] /\ ~u.diff
      BY <1>2, <2>3 DEF HasStat
    <3>2. StandsUntil(c, staged[c], Len(history))
      BY <3>1 DEF TrackerInv, StagedStands
    <3> QED
      BY <1>1, <3>1, <3>2, StandsOn
  <2> QED
    BY <2>1, <2>2, <2>3
<1>6. CountedAreCommitted'
  BY <1>2, CountsStand DEF TrackerInv, CountedAreCommitted
<1> QED
  BY <1>3, <1>4, <1>5, <1>6 DEF TrackerInv

\* A good result counts the statistic it gives, or else the staged one, for a
\* tool call that has not been counted.
LEMMA SettledPreserves ==
  ASSUME TrackerInv, NEW u \in Updates, history' = Append(history, u), Settled(u)
  PROVE  TrackerInv'
<1> PICK stat : stat = IF HasStat(u) THEN Len(history') ELSE staged[u.tool]
  OBVIOUS
<1> PICK at : at = Len(history')
  OBVIOUS
<1> DEFINE count == [tool |-> u.tool, stat |-> stat, at |-> at]
<1>1. u.tool \in ToolCalls /\ u.status = "completed"
  BY DEF Updates, Settled
<1>2. staged' = [staged EXCEPT ![u.tool] = 0] /\ named' = [named EXCEPT ![u.tool] = FALSE]
  BY DEF Settled
<1>3. /\ staged' \in [ToolCalls -> Nat] /\ named' \in [ToolCalls -> BOOLEAN]
      /\ history' \in Seq(Updates)
  BY <1>2, HistoryGrows DEF TrackerInv
<1>4. StagedStands'
  <2> SUFFICES ASSUME NEW c \in ToolCalls, staged'[c] # 0
               PROVE  StandsUntil(c, staged[c], Len(history))'
    BY DEF StagedStands
  <2>1. c # u.tool /\ staged'[c] = staged[c]
    BY <1>1, <1>2 DEF TrackerInv
  <2> QED
    BY <2>1, OthersStand
<1>5. CASE stat = 0 \/ u.tool \in committed
  <2>1. UNCHANGED <<committed, counts>>
    BY <1>5 DEF Settled
  <2>2. CountedAreCommitted'
    BY <2>1, CountsStand DEF TrackerInv, CountedAreCommitted
  <2> QED
    BY <1>3, <1>4, <2>2 DEF TrackerInv
<1>6. CASE stat # 0 /\ u.tool \notin committed
  <2>1. committed' = committed \cup {u.tool} /\ counts' = counts \cup {count}
    BY <1>6 DEF Settled
  <2>2. StandsUntil(u.tool, stat, at)'
    <3>1. CASE HasStat(u)
      BY <1>1, <3>1, StandsFromHere
    <3>2. CASE ~HasStat(u)
      <4>1. stat = staged[u.tool] /\ ~u.diff
        BY <3>2 DEF HasStat
      <4>2. StandsUntil(u.tool, stat, Len(history))
        BY <1>1, <1>6, <4>1 DEF TrackerInv, StagedStands
      <4> QED
        BY <1>1, <4>1, <4>2, StandsOn
    <3> QED
      BY <3>1, <3>2
  <2>3. CountStands(count)'
    BY <1>1, <2>2, HistoryGrows DEF CountStands
  <2>4. \A x \in counts : x.tool # u.tool
    BY <1>6 DEF TrackerInv, CountedAreCommitted
  <2>5. CountedAreCommitted'
    BY <2>1, <2>3, <2>4, CountsStand DEF TrackerInv, CountedAreCommitted
  <2> QED
    BY <1>3, <1>4, <2>5 DEF TrackerInv
<1> QED
  BY <1>5, <1>6

\* The invariant holds in every state.
LEMMA TrackerInvHolds == TrackerSpec => []TrackerInv
<1>1. TrackerInv /\ [TrackerNext]_trackerVars => TrackerInv'
  <2> SUFFICES ASSUME TrackerInv, [TrackerNext]_trackerVars
               PROVE  TrackerInv'
    OBVIOUS
  <2>1. CASE UNCHANGED trackerVars
    BY <2>1 DEF trackerVars, TrackerInv, StagedStands, CountedAreCommitted, CountStands, StandsUntil
  <2>2. CASE TrackerNext
    BY <2>2, ErrorPreserves, ProgressPreserves, SettledPreserves DEF TrackerNext, OnUpdate
  <2> QED
    BY <2>1, <2>2
<1> QED
  BY <1>1, TrackerInitial, PTL DEF TrackerSpec

\* What is counted for a tool call is the last statistic it has given before
\* its first good result, given since its last failure, and no call is
\* counted twice, for any number of tool calls and any history
\* (changeStat.ts, onUpdate).
THEOREM CountedAreGoodHolds == TrackerSpec => []CountedAreGood
<1>1. TrackerInv => CountedAreGood
  BY DEF TrackerInv, CountedAreCommitted, CountStands, StandsUntil, CountedAreGood
<1> QED
  BY <1>1, TrackerInvHolds, PTL

-----------------------------------------------------------------------------
(* Capabilities.                                                           *)

TierSaid == Claims \cup {"queue", "concurrent"}
RiskSaid == Risks \cup {0, ModeRisk}

Corrections ==
  [path : {"tier"}, from : TierSaid, to : TierSaid]
    \cup [path : {"risk"}, from : RiskSaid, to : RiskSaid]

Descriptors ==
  [said : [tier : TierSaid, risk : RiskSaid], tier : TierSaid, risk : RiskSaid,
   revert : BOOLEAN, corrections : SUBSET Corrections]

AllHonest(d) == d \in Descriptors /\ Honest(d, "tier") /\ Honest(d, "risk")

\* No tier has been corrected yet: that of the agent's words is shown.
TierAsSaid(d) == d.tier = d.said.tier /\ Recorded(d, "tier") = {}

CapInv ==
  /\ step \in [Open -> {"none", "describing", "open", "closing", "closed"}]
  /\ desc \in [Open -> Descriptors]
  /\ \A s \in Open : AllHonest(desc[s])
  /\ \A s \in Open : step[s] \in {"none", "describing"} => TierAsSaid(desc[s])
  /\ AllHonest(cache.desc) /\ TierAsSaid(cache.desc)
  /\ AllHonest(served.desc)

\* The ranks of the tiers the overlay deals with.
LEMMA RanksOfTiers ==
  /\ TierRank("native") = 1 /\ TierRank("extension") = 2 /\ TierRank("concurrent") = 3
<1>1. /\ TierOrder[1] = "native" /\ TierOrder[2] = "extension" /\ TierOrder[3] = "concurrent"
      /\ TierOrder[4] = "soft-interrupt" /\ TierOrder[5] = "queue"
  BY DEF TierOrder
<1>2. \A i \in 1 .. 5 : i = 1 \/ i = 2 \/ i = 3 \/ i = 4 \/ i = 5
  OBVIOUS
<1> HIDE DEF TierOrder
<1>3. \A i \in 1 .. 5 : TierOrder[i] = "native" <=> i = 1
  BY <1>1, <1>2
<1>4. \A i \in 1 .. 5 : TierOrder[i] = "extension" <=> i = 2
  BY <1>1, <1>2
<1>5. \A i \in 1 .. 5 : TierOrder[i] = "concurrent" <=> i = 3
  BY <1>1, <1>2
<1> QED
  BY <1>3, <1>4, <1>5 DEF TierRank

\* The overlay weakens a tier that is native or an extension, once, and says
\* so; the risk is left alone.
LEMMA WeakeningIsHonest ==
  ASSUME NEW d, AllHonest(d), d.tier \in {"native", "extension"}
  PROVE  AllHonest(Corrected(d, "tier", "concurrent"))
<1> DEFINE c == [path |-> "tier", from |-> d.tier, to |-> "concurrent"]
           e == [d EXCEPT !.tier = "concurrent", !.corrections = @ \cup {c}]
<1>1. CASE \E x \in d.corrections : x.path = "tier"
  BY <1>1 DEF Corrected
<1>2. CASE ~\E x \in d.corrections : x.path = "tier"
  <2>1. Tightens("tier", d.tier, "concurrent")
    BY RanksOfTiers DEF Tightens
  <2>2. Corrected(d, "tier", "concurrent") = e
    BY <1>2, <2>1 DEF Corrected
  <2>3. /\ e.said = d.said /\ e.risk = d.risk
        /\ e.tier = "concurrent" /\ e.corrections = d.corrections \cup {c}
        /\ e \in Descriptors
    <3>1. d \in Descriptors /\ d.tier \in TierSaid /\ "concurrent" \in TierSaid
      BY DEF AllHonest, Descriptors, TierSaid
    <3>2. c \in Corrections
      BY <3>1 DEF Corrections
    <3> HIDE DEF c
    <3> QED
      BY <3>1, <3>2 DEF Descriptors
  <2>4. c.path = "tier" /\ c.from = d.tier /\ c.to = "concurrent"
    OBVIOUS
  <2> HIDE DEF c, e
  <2>5. Recorded(d, "tier") = {} /\ d.tier = d.said.tier
    BY <1>2 DEF AllHonest, Honest, Recorded
  <2>6. Recorded(e, "tier") = {c} /\ Recorded(e, "risk") = Recorded(d, "risk")
    BY <2>3, <2>5, <2>4 DEF Recorded
  <2>7. Honest(e, "tier")
    BY <2>1, <2>3, <2>5, <2>6, <2>4 DEF Honest
  <2>8. Honest(e, "risk")
    BY <2>3, <2>6 DEF Honest, AllHonest
  <2> QED
    BY <2>2, <2>3, <2>7, <2>8 DEF AllHonest
<1> QED
  BY <1>1, <1>2

\* A descriptor of nothing is what nobody has said.
LEMMA BlankIsHonest == AllHonest(Blank) /\ TierAsSaid(Blank)
  BY DEF AllHonest, TierAsSaid, Honest, Recorded, Blank, Descriptors, TierSaid, RiskSaid

\* A descriptor made of an agent's words shows the tier as it was said; a
\* risk the agent has not given is that of the overlay.
LEMMA DescribedIsHonest ==
  ASSUME NEW words \in Words
  PROVE  AllHonest(Described(words)) /\ TierAsSaid(Described(words))
<1> DEFINE d == [Blank EXCEPT !.said = words, !.tier = words.tier, !.risk = words.risk]
           c == [path |-> "risk", from |-> 0, to |-> ModeRisk]
           e == [d EXCEPT !.risk = ModeRisk, !.corrections = @ \cup {c}]
<1>1. /\ d.said = words /\ d.tier = words.tier /\ d.risk = words.risk
      /\ d.corrections = {}
  BY DEF Blank
<1>2. d \in Descriptors /\ d.tier = d.said.tier /\ d.risk = d.said.risk /\ d.corrections = {}
  <2>1. words \in [tier : TierSaid, risk : RiskSaid] /\ words.tier \in TierSaid
        /\ words.risk \in RiskSaid
    BY DEF Words, TierSaid, RiskSaid
  <2>2. d \in Descriptors
    BY <2>1, BlankIsHonest DEF Descriptors, AllHonest
  <2> HIDE DEF d
  <2> QED
    BY <1>1, <2>2
<1> HIDE DEF d
<1>3. AllHonest(d) /\ TierAsSaid(d)
  BY <1>2 DEF AllHonest, TierAsSaid, Honest, Recorded
<1>4. CASE words.risk # 0
  BY <1>3, <1>4 DEF Described, d
<1>5. CASE words.risk = 0
  <2>1. Tightens("risk", 0, ModeRisk) /\ d.risk = 0 /\ d.said.risk = 0
    BY <1>1, <1>5 DEF Tightens, ModeRisk
  <2>2. Described(words) = e
    BY <1>2, <1>5, <2>1 DEF Described, Corrected, d
  <2>3. /\ e.said = d.said /\ e.tier = d.tier /\ e.risk = ModeRisk /\ e.corrections = {c}
        /\ e \in Descriptors
    <3>1. c \in Corrections /\ ModeRisk \in RiskSaid
      BY DEF Corrections, RiskSaid
    <3> HIDE DEF c
    <3> QED
      BY <1>2, <3>1 DEF Descriptors
  <2>4. c.path = "risk" /\ c.from = 0 /\ c.to = ModeRisk
    OBVIOUS
  <2> HIDE DEF c, e
  <2>5. Recorded(e, "tier") = {} /\ Recorded(e, "risk") = {c}
    BY <2>3, <2>4 DEF Recorded
  <2>6. Honest(e, "tier") /\ TierAsSaid(e)
    BY <1>2, <2>3, <2>5 DEF Honest, TierAsSaid
  <2>7. Honest(e, "risk")
    BY <2>1, <2>3, <2>5, <2>4 DEF Honest
  <2> QED
    BY <2>2, <2>3, <2>6, <2>7 DEF AllHonest
<1> QED
  BY <1>4, <1>5

\* What the directory adds changes neither tier nor risk.
LEMMA RevertIsApart ==
  ASSUME NEW d, AllHonest(d), NEW r \in BOOLEAN
  PROVE  /\ AllHonest([d EXCEPT !.revert = r])
         /\ TierAsSaid(d) => TierAsSaid([d EXCEPT !.revert = r])
<1> DEFINE e == [d EXCEPT !.revert = r]
<1>1. /\ e.said = d.said /\ e.tier = d.tier /\ e.risk = d.risk
      /\ e.corrections = d.corrections /\ e \in Descriptors
  BY DEF AllHonest, Descriptors
<1> HIDE DEF e
<1>2. Honest(e, "tier")
  BY <1>1 DEF AllHonest, Honest, Recorded
<1>3. Honest(e, "risk")
  BY <1>1 DEF AllHonest, Honest, Recorded
<1>4. AllHonest(e) /\ (TierAsSaid(d) => TierAsSaid(e))
  BY <1>1, <1>2, <1>3 DEF AllHonest, TierAsSaid, Recorded
<1> QED
  BY <1>4 DEF e

\* At first no descriptor has been made.
LEMMA CapInitial == CapInit => CapInv
  BY BlankIsHonest DEF CapInit, CapInv, Nothing, AllHonest

\* The actions that change a descriptor.
LEMMA AnsweredPreserves ==
  ASSUME CapInv, NEW s \in Open, NEW w, NEW words \in Words, NEW probe,
         SessionAnswered(s, w, words, probe)
  PROVE  CapInv'
<1>1. AllHonest(Described(words)) /\ TierAsSaid(Described(words)) /\ Described(words) \in Descriptors
  BY DescribedIsHonest DEF AllHonest
<1>2. /\ desc' = [desc EXCEPT ![s] = Described(words)] /\ step' = [step EXCEPT ![s] = "describing"]
      /\ cache' = cache /\ served' = served
  BY DEF SessionAnswered
<1> QED
  BY <1>1, <1>2 DEF CapInv

\* The cache gets a copy of a descriptor nobody has corrected the tier of.
LEMMA AggregatedPreserves ==
  ASSUME CapInv, NEW s \in Open, Aggregated(s)
  PROVE  CapInv'
<1> DEFINE d == [desc[s] EXCEPT !.revert = dir[s] \in Revertible]
<1>1. AllHonest(d) /\ TierAsSaid(d) /\ d \in Descriptors
  <2>1. AllHonest(desc[s]) /\ TierAsSaid(desc[s])
    BY DEF Aggregated, CapInv
  <2>2. (dir[s] \in Revertible) \in BOOLEAN
    OBVIOUS
  <2>3. AllHonest(d) /\ TierAsSaid(d)
    BY <2>1, <2>2, RevertIsApart, Zenon
  <2> QED
    BY <2>3 DEF AllHonest
<1> HIDE DEF d
<1>2. /\ desc' = [desc EXCEPT ![s] = d] /\ cache'.desc = d /\ served' = served
      /\ step' = [step EXCEPT ![s] = IF s \in probing THEN "closing" ELSE "open"]
  BY DEF Aggregated, d
<1> QED
  BY <1>1, <1>2 DEF CapInv

\* A session that steers in vain corrects its own descriptor only.
LEMMA SteeringPreserves ==
  ASSUME CapInv, NEW s \in Open, SteeringMissing(s)
  PROVE  CapInv'
<1> DEFINE d == Corrected(desc[s], "tier", "concurrent")
<1>1. AllHonest(d) /\ d \in Descriptors
  BY WeakeningIsHonest DEF SteeringMissing, CapInv, AllHonest
<1> HIDE DEF d
<1>2. /\ desc' = [desc EXCEPT ![s] = d] /\ cache' = cache /\ served' = served /\ step' = step
      /\ step[s] = "open"
  BY DEF SteeringMissing, CacheCopied, d
<1> QED
  BY <1>1, <1>2 DEF CapInv

\* The other steps close sessions, or show what there is.
LEMMA CapOthersPreserve ==
  ASSUME CapInv,
         \/ \E s \in Open : Close(s) \/ ServeLive(s) \/ ProbeReturns(s)
         \/ ServeCached \/ Restart \/ UNCHANGED capVars
  PROVE  CapInv'
<1>1. CASE \E s \in Open : Close(s)
  BY <1>1 DEF Close, CapInv
<1>2. CASE \E s \in Open : ServeLive(s)
  BY <1>2 DEF ServeLive, Serve, Live, CapInv
<1>3. CASE \E s \in Open : ProbeReturns(s)
  BY <1>3 DEF ProbeReturns, Serve, CapInv
<1>4. CASE ServeCached
  BY <1>4 DEF ServeCached, Serve, CapInv
<1>5. CASE Restart
  BY <1>5 DEF Restart, CapInv
<1>6. CASE UNCHANGED capVars
  BY <1>6 DEF capVars, CapInv
<1> QED
  BY <1>1, <1>2, <1>3, <1>4, <1>5, <1>6

\* The invariant holds in every state.
LEMMA CapInvHolds == CapSpec => []CapInv
<1>1. CapInv /\ [CapNext]_capVars => CapInv'
  BY AnsweredPreserves, AggregatedPreserves, SteeringPreserves, CapOthersPreserve
  DEF CapNext, Probe
<1> QED
  BY <1>1, CapInitial, PTL DEF CapSpec

\* Whatever is shown of an agent is what it has said, but for weaker tiers
\* and higher risks that the descriptor accounts for, and the cache keeps no
\* tier that a session has found missing, for all words of an agent and any
\* number of sessions and restarts (overrides.ts, cache.ts).
THEOREM DescriptorsAreHonestHolds == CapSpec => []DescriptorsAreHonest
<1>1. CapInv => OnlyTightened
  BY DEF CapInv, AllHonest, OnlyTightened, Live
<1>2. CapInv => CacheKeepsWords
  BY DEF CapInv, TierAsSaid, CacheKeepsWords
<1> QED
  BY <1>1, <1>2, CapInvHolds, PTL DEF DescriptorsAreHonest

-----------------------------------------------------------------------------
(* ShellDirectory.                                                         *)

AcpIds    == {AcpId(s) : s \in Chats}
NativeIds == {NativeId(s) : s \in Chats}

Answers(ids) == [state : {"asked", "rejected", "fulfilled"}, ids : SUBSET ids]

\* A call that the core answers, and what follows its answer.
CoreCalls ==
  {"new", "fork", "resume", "close", "made", "forked", "resumed", "closed",
   "open", "open, then list", "open, then show", "open, then read"}

StoreCalls ==
  {Idle} \cup [does : CoreCalls, of : Chats]
         \cup [does : {"refresh"}, acp : Answers(AcpIds), native : Answers(NativeIds)]

\* No session has two rows.
AtMostOneRow(rs) == \A s \in Chats : \A r, q \in RowsOf(s, rs) : r = q

DirInv ==
  /\ opened \subseteq Chats /\ listed \subseteq Chats /\ stored \subseteq Chats
  /\ known \subseteq AcpIds
  /\ thread \in [Threads -> StoreCalls]
  /\ AtMostOneRow(rows)

\* A session has the same name with and without its prefix, and two sessions
\* share no name.
LEMMA NamesOfSessions ==
  ASSUME NEW s, NEW t
  PROVE  /\ SameSession(AcpId(s), AcpId(t)) <=> s = t
         /\ SameSession(AcpId(s), NativeId(t)) <=> s = t
         /\ AcpId(s) = AcpId(t) <=> s = t
         /\ NativeId(s) = NativeId(t) <=> s = t
         /\ AcpId(s) # NoId /\ NativeId(s) # NoId /\ AcpId(s) # NativeId(t)
<1>1. /\ Len(AcpId(s)) = 2 /\ AcpId(s)[1] = "zc" /\ AcpId(s)[2] = s
      /\ Len(AcpId(t)) = 2 /\ AcpId(t)[1] = "zc" /\ AcpId(t)[2] = t
      /\ Len(NativeId(s)) = 1 /\ NativeId(s)[1] = s
      /\ Len(NativeId(t)) = 1 /\ NativeId(t)[1] = t
      /\ Len(NoId) = 0
  BY DEF AcpId, NativeId, NoId
<1>2. Reverse(AcpId(s)) = <<s, "zc">> /\ Reverse(AcpId(t)) = <<t, "zc">>
  BY DEF AcpId, Reverse
<1>3. Reverse(NativeId(t)) = <<t>>
  BY DEF NativeId, Reverse
<1>4. SameSession(AcpId(s), AcpId(t)) <=> s = t
  BY <1>2 DEF SameSession, IsSuffix, IsPrefix
<1>5. SameSession(AcpId(s), NativeId(t)) <=> s = t
  BY <1>2, <1>3 DEF SameSession, IsSuffix, IsPrefix
<1>6. AcpId(s) = AcpId(t) <=> s = t
  BY <1>1
<1>7. NativeId(s) = NativeId(t) <=> s = t
  BY <1>1
<1>8. AcpId(s) # NoId /\ NativeId(s) # NoId /\ AcpId(s) # NativeId(t)
  BY <1>1
<1> QED
  BY <1>4, <1>5, <1>6, <1>7, <1>8

\* The rows that mergeDirectory makes of a session.
LEMMA RowsOfMerged ==
  ASSUME NEW acp \in SUBSET AcpIds, NEW native \in SUBSET NativeIds, NEW open \in SUBSET AcpIds,
         NEW s \in Chats
  PROVE  LET rs == RowsOf(s, MergeDirectory(acp, native, open))
             joined == Row(AcpId(s), IF NativeId(s) \in native THEN NativeId(s) ELSE NoId,
                           AcpId(s) \in open)
         IN rs = IF AcpId(s) \in acp THEN {joined}
                 ELSE IF NativeId(s) \in native THEN {Row(NoId, NativeId(s), FALSE)}
                 ELSE IF AcpId(s) \in open THEN {Row(AcpId(s), NoId, TRUE)}
                 ELSE {}
<1> DEFINE Match(a) == {n \in native : SameSession(a, n)}
           used == UNION {Match(a) : a \in acp}
           Paired(a) == Row(a, IF Match(a) = {} THEN NoId ELSE CHOOSE n \in Match(a) : TRUE,
                            a \in open)
           both == {Paired(a) : a \in acp}
           more == {Row(NoId, n, FALSE) : n \in native \ used}
           unlisted == {o \in open : \A k \in acp \cup native : ~SameSession(o, k)}
           rest == {Row(o, NoId, TRUE) : o \in unlisted}
<1>1. MergeDirectory(acp, native, open) = both \cup more \cup rest
  BY DEF MergeDirectory
<1>2. \A t \in Chats : Match(AcpId(t)) = IF NativeId(t) \in native THEN {NativeId(t)} ELSE {}
  BY NamesOfSessions DEF NativeIds
<1>3. \A t \in Chats :
        Paired(AcpId(t)) = Row(AcpId(t), IF NativeId(t) \in native THEN NativeId(t) ELSE NoId,
                               AcpId(t) \in open)
  BY <1>2
<1>4. \A t \in Chats : NativeId(t) \in used <=> NativeId(t) \in native /\ AcpId(t) \in acp
  BY <1>2, NamesOfSessions DEF AcpIds
<1>5. \A t \in Chats :
        AcpId(t) \in unlisted
          <=> AcpId(t) \in open /\ AcpId(t) \notin acp /\ NativeId(t) \notin native
  BY NamesOfSessions DEF AcpIds, NativeIds
<1> HIDE DEF Match, Paired, used, unlisted
<1>6. \A r \in both : r \in RowsOf(s, both) <=> r = Paired(AcpId(s)) /\ AcpId(s) \in acp
  <2> SUFFICES ASSUME NEW t \in Chats, AcpId(t) \in acp, NEW r, r = Paired(AcpId(t))
               PROVE  r \in RowsOf(s, both) <=> r = Paired(AcpId(s)) /\ AcpId(s) \in acp
    BY DEF AcpIds
  <2>1. r \in both /\ r.acp = AcpId(t) /\ r.native \in {NativeId(t), NoId}
    BY <1>3 DEF Row
  <2>2. Paired(AcpId(s)).acp = AcpId(s)
    BY <1>3 DEF Row
  <2> HIDE DEF both
  <2>3. CASE t = s
    BY <2>1, <2>3, NamesOfSessions DEF RowsOf
  <2>4. CASE t # s
    BY <2>1, <2>2, <2>4, NamesOfSessions DEF RowsOf
  <2> QED
    BY <2>3, <2>4
<1>7. \A r \in more : r \in RowsOf(s, more) <=> r = Row(NoId, NativeId(s), FALSE)
  <2> SUFFICES ASSUME NEW t \in Chats, NativeId(t) \in native \ used, NEW r,
                      r = Row(NoId, NativeId(t), FALSE)
               PROVE  r \in RowsOf(s, more) <=> r = Row(NoId, NativeId(s), FALSE)
    BY DEF NativeIds
  <2>1. r \in more /\ r.acp = NoId /\ r.native = NativeId(t)
    BY DEF Row
  <2>2. Row(NoId, NativeId(s), FALSE).native = NativeId(s)
    BY DEF Row
  <2> HIDE DEF more
  <2> QED
    BY <2>1, <2>2, NamesOfSessions DEF RowsOf
<1> DEFINE OpenRow(t) == Row(AcpId(t), NoId, TRUE)
<1>8. \A r \in rest : r \in RowsOf(s, rest) <=> r = OpenRow(s)
  <2> SUFFICES ASSUME NEW t \in Chats, OpenRow(t) \in rest
               PROVE  OpenRow(t) \in RowsOf(s, rest) <=> OpenRow(t) = OpenRow(s)
    BY DEF AcpIds, unlisted
  <2>1. OpenRow(t).acp = AcpId(t) /\ OpenRow(t).native = NoId /\ OpenRow(s).acp = AcpId(s)
    BY DEF Row
  <2> HIDE DEF rest, OpenRow
  <2>2. OpenRow(t) \in RowsOf(s, rest) <=> t = s
    BY <2>1, NamesOfSessions DEF RowsOf
  <2>3. OpenRow(t) = OpenRow(s) => t = s
    BY <2>1, NamesOfSessions
  <2> QED
    BY <2>2, <2>3
<1>9. RowsOf(s, both \cup more \cup rest)
        = RowsOf(s, both) \cup RowsOf(s, more) \cup RowsOf(s, rest)
  <2> HIDE DEF both, more, rest
  <2> QED
    BY DEF RowsOf
<1>10. RowsOf(s, both) = IF AcpId(s) \in acp THEN {Paired(AcpId(s))} ELSE {}
  <2>1. RowsOf(s, both) \subseteq both
    BY DEF RowsOf
  <2>2. AcpId(s) \in acp => Paired(AcpId(s)) \in both
    OBVIOUS
  <2> HIDE DEF both
  <2> QED
    BY <1>6, <2>1, <2>2
<1>11. RowsOf(s, more) = IF NativeId(s) \in native /\ AcpId(s) \notin acp
                         THEN {Row(NoId, NativeId(s), FALSE)} ELSE {}
  <2>1. RowsOf(s, more) \subseteq more
    BY DEF RowsOf
  <2>2. Row(NoId, NativeId(s), FALSE) \in more <=> NativeId(s) \in native \ used
    BY DEF Row
  <2> HIDE DEF more
  <2> QED
    BY <1>4, <1>7, <2>1, <2>2
<1>12. RowsOf(s, rest) = IF AcpId(s) \in open /\ AcpId(s) \notin acp /\ NativeId(s) \notin native
                         THEN {OpenRow(s)} ELSE {}
  <2>1. RowsOf(s, rest) \subseteq rest
    BY DEF RowsOf
  <2>2. OpenRow(s) \in rest <=> AcpId(s) \in unlisted
    BY DEF Row
  <2> HIDE DEF rest, OpenRow
  <2> QED
    BY <1>5, <1>8, <2>1, <2>2
<1> HIDE DEF both, more, rest
<1>13. RowsOf(s, MergeDirectory(acp, native, open))
         = RowsOf(s, both) \cup RowsOf(s, more) \cup RowsOf(s, rest)
  BY <1>1, <1>9
<1>14. CASE AcpId(s) \in acp
  BY <1>3, <1>10, <1>11, <1>12, <1>13, <1>14
<1>15. CASE AcpId(s) \notin acp /\ NativeId(s) \in native
  BY <1>10, <1>11, <1>12, <1>13, <1>15
<1>16. CASE AcpId(s) \notin acp /\ NativeId(s) \notin native
  BY <1>10, <1>11, <1>12, <1>13, <1>16
<1> QED
  BY <1>14, <1>15, <1>16

\* The list has at most one row of a session, and one of each that is open.
LEMMA MergedHasOneRow ==
  ASSUME NEW acp \in SUBSET AcpIds, NEW native \in SUBSET NativeIds, NEW open \in SUBSET AcpIds
  PROVE  /\ AtMostOneRow(MergeDirectory(acp, native, open))
         /\ \A s \in Chats : AcpId(s) \in open => RowsOf(s, MergeDirectory(acp, native, open)) # {}
<1> SUFFICES ASSUME NEW s \in Chats
             PROVE  /\ \A r, q \in RowsOf(s, MergeDirectory(acp, native, open)) : r = q
                    /\ AcpId(s) \in open => RowsOf(s, MergeDirectory(acp, native, open)) # {}
  BY DEF AtMostOneRow
<1> DEFINE rs == RowsOf(s, MergeDirectory(acp, native, open))
           joined == Row(AcpId(s), IF NativeId(s) \in native THEN NativeId(s) ELSE NoId,
                         AcpId(s) \in open)
<1>1. rs = IF AcpId(s) \in acp THEN {joined}
           ELSE IF NativeId(s) \in native THEN {Row(NoId, NativeId(s), FALSE)}
           ELSE IF AcpId(s) \in open THEN {Row(AcpId(s), NoId, TRUE)}
           ELSE {}
  BY RowsOfMerged, Zenon
<1> HIDE DEF rs, joined
<1>2. (\A r, q \in rs : r = q) /\ (AcpId(s) \in open => rs # {})
  BY <1>1
<1> QED
  BY <1>2 DEF rs

\* At first the shell has asked nothing.
LEMMA DirInitial == DirInit => DirInv
  BY DEF DirInit, DirInv, StoreCalls, Idle, AtMostOneRow, RowsOf

\* A thread takes another call, or goes on with its own.
LEMMA BecomeKeeps ==
  ASSUME thread \in [Threads -> StoreCalls], NEW w \in Threads, NEW t \in StoreCalls, Become(w, t)
  PROVE  thread' \in [Threads -> StoreCalls]
  BY DEF Become

\* A call of the core that goes on is a call of the core.
LEMMA GoesOn ==
  ASSUME NEW t \in StoreCalls, t.does # "refresh", t.does # "nothing",
         NEW what \in {"made", "forked", "resumed", "closed", "open", "open, then list",
                       "open, then show", "open, then read"}
  PROVE  t.of \in Chats /\ [t EXCEPT !.does = what] \in StoreCalls
<1>1. t = Idle \/ t \in [does : CoreCalls, of : Chats] \/ t.does = "refresh"
  BY DEF StoreCalls
<1>2. Idle.does = "nothing"
  BY DEF Idle
<1>3. t \in [does : CoreCalls, of : Chats]
  BY <1>1, <1>2
<1>4. what \in CoreCalls
  BY DEF CoreCalls
<1>5. t.of \in Chats /\ [t EXCEPT !.does = what] \in [does : CoreCalls, of : Chats]
  BY <1>3, <1>4
<1> QED
  BY <1>5 DEF StoreCalls

\* What the calls of the store begin with.
LEMMA CallsBegin ==
  /\ Idle \in StoreCalls /\ Refreshing \in StoreCalls
  /\ \A s \in Chats : \A what \in {"new", "fork", "resume", "close", "open"} :
       Does(what, s) \in StoreCalls
  BY DEF StoreCalls, CoreCalls, Idle, Refreshing, Does, Answers, Asked

\* A refresh has its answers from the agent and from its store.
LEMMA RefreshIsTyped ==
  ASSUME NEW t \in StoreCalls, t.does = "refresh"
  PROVE  t \in [does : {"refresh"}, acp : Answers(AcpIds), native : Answers(NativeIds)]
<1>1. \/ t = Idle \/ t \in [does : CoreCalls, of : Chats]
      \/ t \in [does : {"refresh"}, acp : Answers(AcpIds), native : Answers(NativeIds)]
  BY DEF StoreCalls
<1>2. t \in [does : CoreCalls, of : Chats] => t.does # "refresh"
  BY DEF CoreCalls
<1>3. Idle.does # "refresh"
  BY DEF Idle
<1> QED
  BY <1>1, <1>2, <1>3

\* The steps of the store's calls that change no row.
LEMMA CallPreserves ==
  ASSUME DirInv, NEW w \in Threads,
         CallCore(w) \/ OpenNativeRow(w) \/ RefreshDirectory(w)
  PROVE  DirInv' /\ rows' = rows
<1>1. \E t \in StoreCalls : Become(w, t)
  BY CallsBegin DEF CallCore, OpenNativeRow, RefreshDirectory, Begin
<1>2. thread' \in [Threads -> StoreCalls]
  BY <1>1, BecomeKeeps DEF DirInv
<1>3. UNCHANGED <<opened, listed, stored, known, rows>>
  BY DEF CallCore, OpenNativeRow, RefreshDirectory, coreVars, storeVars
<1> QED
  BY <1>2, <1>3 DEF DirInv, AtMostOneRow, RowsOf

\* What the core opens or closes is a session.
LEMMA CoreAnswersPreserves ==
  ASSUME DirInv, NEW w \in Threads, CoreAnswers(w)
  PROVE  DirInv' /\ rows' = rows
<1>1. thread[w] \in StoreCalls /\ thread[w].does # "refresh" /\ thread[w].does # "nothing"
  BY DEF CoreAnswers, DirInv
<1>2. thread[w].of \in Chats
  BY <1>1, GoesOn
<1>3. \/ Become(w, Idle)
      \/ \E what \in {"made", "forked", "resumed", "closed"} :
           Become(w, [thread[w] EXCEPT !.does = what])
  BY DEF CoreAnswers
<1>4. \E t \in StoreCalls : Become(w, t)
  BY <1>1, <1>3, GoesOn, CallsBegin
<1>5. thread' \in [Threads -> StoreCalls]
  BY <1>4, BecomeKeeps DEF DirInv
<1>6. opened' \subseteq Chats /\ UNCHANGED <<listed, stored, known, rows>>
  BY <1>2 DEF CoreAnswers, storeVars, DirInv
<1> QED
  BY <1>5, <1>6 DEF DirInv, AtMostOneRow, RowsOf

\* An answer is followed by session/open.
LEMMA NoteAnswerPreserves ==
  ASSUME DirInv, NEW w \in Threads, NoteAnswer(w)
  PROVE  DirInv' /\ rows' = rows
<1>1. thread[w] \in StoreCalls /\ thread[w].does # "refresh" /\ thread[w].does # "nothing"
  BY DEF NoteAnswer, DirInv
<1>2. \E what \in {"open, then list", "open, then show", "open, then read", "open"} :
        Become(w, [thread[w] EXCEPT !.does = what])
  BY DEF NoteAnswer
<1>3. \E t \in StoreCalls : Become(w, t)
  BY <1>1, <1>2, GoesOn
<1>4. thread' \in [Threads -> StoreCalls]
  BY <1>3, BecomeKeeps DEF DirInv
<1>5. UNCHANGED <<opened, listed, stored, known, rows>>
  BY DEF NoteAnswer, coreVars
<1> QED
  BY <1>4, <1>5 DEF DirInv, AtMostOneRow, RowsOf

\* What is open is known by its name.
LEMMA OpenAnsweredPreserves ==
  ASSUME DirInv, NEW w \in Threads, OpenAnswered(w)
  PROVE  DirInv' /\ rows' = rows
<1>1. \E t \in StoreCalls : Become(w, t)
  BY CallsBegin DEF OpenAnswered
<1>2. thread' \in [Threads -> StoreCalls]
  BY <1>1, BecomeKeeps DEF DirInv
<1>3. known' \subseteq AcpIds /\ UNCHANGED <<opened, listed, stored, rows>>
  BY DEF OpenAnswered, coreVars, DirInv, AcpIds
<1> QED
  BY <1>2, <1>3 DEF DirInv, AtMostOneRow, RowsOf

\* The answers to a refresh name sessions.
LEMMA AnswersPreserve ==
  ASSUME DirInv, NEW w \in Threads, ListAnswered(w) \/ ReadAnswered(w)
  PROVE  DirInv' /\ rows' = rows
<1> DEFINE typed == [does : {"refresh"}, acp : Answers(AcpIds), native : Answers(NativeIds)]
<1>1. thread[w] \in typed
  BY RefreshIsTyped DEF ListAnswered, ReadAnswered, DirInv
<1>2. Rejected \in Answers(AcpIds) /\ Rejected \in Answers(NativeIds)
  BY DEF Rejected, Answers
<1>3. /\ Fulfilled({AcpId(s) : s \in listed}) \in Answers(AcpIds)
      /\ Fulfilled({NativeId(s) : s \in stored}) \in Answers(NativeIds)
  BY DEF Fulfilled, Answers, DirInv, AcpIds, NativeIds
<1>4. \/ \E answer \in Answers(AcpIds) : Become(w, [thread[w] EXCEPT !.acp = answer])
      \/ \E answer \in Answers(NativeIds) : Become(w, [thread[w] EXCEPT !.native = answer])
  BY <1>2, <1>3 DEF ListAnswered, ReadAnswered
<1>5. \E t \in typed : Become(w, t)
  BY <1>1, <1>4
<1>6. \E t \in StoreCalls : Become(w, t)
  BY <1>5 DEF StoreCalls
<1>7. thread' \in [Threads -> StoreCalls]
  BY <1>6, BecomeKeeps DEF DirInv
<1>8. UNCHANGED <<opened, listed, stored, known, rows>>
  BY DEF ListAnswered, ReadAnswered, coreVars, storeVars
<1> QED
  BY <1>7, <1>8 DEF DirInv, AtMostOneRow, RowsOf

\* The rows are those of the answers and of what is open by now.
LEMMA ShowRowsPreserves ==
  ASSUME DirInv, NEW w \in Threads, ShowRows(w)
  PROVE  /\ DirInv' /\ known' = known
         /\ \/ rows' = rows
            \/ \A s \in Chats : AcpId(s) \in known => RowsOf(s, rows') # {}
<1> DEFINE acp == thread[w].acp.ids
           native == thread[w].native.ids
<1>1. thread[w] \in [does : {"refresh"}, acp : Answers(AcpIds), native : Answers(NativeIds)]
  BY RefreshIsTyped DEF ShowRows, DirInv
<1>2. acp \in SUBSET AcpIds /\ native \in SUBSET NativeIds /\ known \in SUBSET AcpIds
  BY <1>1 DEF Answers, DirInv
<1>3. /\ rows' = rows \/ rows' = MergeDirectory(acp, native, known)
      /\ Become(w, Idle) /\ UNCHANGED <<opened, listed, stored, known>>
  BY DEF ShowRows, coreVars
<1> HIDE DEF acp, native
<1>4. /\ AtMostOneRow(MergeDirectory(acp, native, known))
      /\ \A s \in Chats : AcpId(s) \in known => RowsOf(s, MergeDirectory(acp, native, known)) # {}
  BY <1>2, MergedHasOneRow
<1>5. thread' \in [Threads -> StoreCalls]
  BY <1>3, CallsBegin, BecomeKeeps DEF DirInv
<1>6. AtMostOneRow(rows')
  BY <1>3, <1>4 DEF DirInv
<1> QED
  BY <1>3, <1>4, <1>5, <1>6 DEF DirInv, AtMostOneRow

\* The agent and its store change no row.
LEMMA AgentPreserves ==
  ASSUME DirInv, NEW s \in Chats, AgentLists(s) \/ AgentStores(s) \/ AgentLoses(s)
  PROVE  DirInv' /\ rows' = rows
  BY DEF AgentLists, AgentStores, AgentLoses, storeVars, DirInv, AtMostOneRow, RowsOf

\* Every step preserves the invariant, and a new list has every session the
\* shell knows to be open.
LEMMA DirPreserved ==
  ASSUME DirInv, [DirNext]_dirVars
  PROVE  /\ DirInv'
         /\ \/ rows' = rows
            \/ \A s \in Chats : AcpId(s) \in known' => RowsOf(s, rows') # {}
<1>1. CASE UNCHANGED dirVars
  BY <1>1 DEF dirVars, coreVars, storeVars, DirInv, AtMostOneRow, RowsOf
<1>2. CASE \E w \in Threads : ShowRows(w)
  BY <1>2, ShowRowsPreserves
<1>3. CASE \/ \E w \in Threads :
                \/ CallCore(w) \/ CoreAnswers(w) \/ NoteAnswer(w) \/ OpenAnswered(w)
                \/ OpenNativeRow(w)
                \/ RefreshDirectory(w) \/ ListAnswered(w) \/ ReadAnswered(w)
           \/ \E s \in Chats : AgentLists(s) \/ AgentStores(s) \/ AgentLoses(s)
  BY <1>3, CallPreserves, CoreAnswersPreserves, NoteAnswerPreserves, OpenAnsweredPreserves,
     AnswersPreserve, AgentPreserves
<1> QED
  BY <1>1, <1>2, <1>3 DEF DirNext

\* A session the shell knows to be open, once it has a row, keeps exactly
\* one, and no session ever has two, for any sessions, any number of calls
\* under way and any answers of the agent, in any order (store.ts,
\* refreshDirectory and mergeDirectory).
THEOREM OneRowEachHolds == DirSpec => OneRowEach
<1> DEFINE Step ==
      \A s \in Chats :
        /\ Cardinality(RowsOf(s, rows')) <= 1
        /\ AcpId(s) \in known' /\ RowsOf(s, rows) # {} => RowsOf(s, rows') # {}
<1>1. DirInv /\ [DirNext]_dirVars => DirInv'
  BY DirPreserved
<1>2. DirInv /\ [DirNext]_dirVars => Step
  <2> SUFFICES ASSUME DirInv, [DirNext]_dirVars, NEW s \in Chats
               PROVE  /\ Cardinality(RowsOf(s, rows')) <= 1
                      /\ AcpId(s) \in known' /\ RowsOf(s, rows) # {} => RowsOf(s, rows') # {}
    OBVIOUS
  <2>1. \A r, q \in RowsOf(s, rows') : r = q
    BY DirPreserved DEF DirInv, AtMostOneRow
  <2>2. RowsOf(s, rows') = {} \/ \E r : RowsOf(s, rows') = {r}
    BY <2>1
  <2>3. Cardinality(RowsOf(s, rows')) <= 1
    <3>1. CASE RowsOf(s, rows') = {}
      BY <3>1, FS_EmptySet
    <3>2. ASSUME NEW r, RowsOf(s, rows') = {r}
          PROVE  Cardinality(RowsOf(s, rows')) <= 1
      <4>1. Cardinality({r}) = 1
        BY FS_Singleton
      <4> QED
        BY <3>2, <4>1
    <3> QED
      BY <2>2, <3>1, <3>2
  <2>4. AcpId(s) \in known' /\ RowsOf(s, rows) # {} => RowsOf(s, rows') # {}
    BY DirPreserved
  <2> QED
    BY <2>3, <2>4
<1> QED
  BY <1>1, <1>2, DirInitial, PTL DEF DirSpec, OneRowEach

-----------------------------------------------------------------------------
(* ShellCards.                                                             *)

\* The cards of a connection that is ready are its own invariant, given the
\* types: the list replaces what was shown, and later requests come with a
\* card or with a lookup.
LEMMA CardsPreserved ==
  ASSUME CardsTypeOK, EveryRequestHasCard, [CardsNext]_cardVars
  PROVE  CardsTypeOK' /\ EveryRequestHasCard'
<1> USE DEF CardsTypeOK, EveryRequestHasCard, Pending
<1>1. ASSUME NEW r \in Requests, Requested(r)
      PROVE  CardsTypeOK' /\ EveryRequestHasCard'
  BY <1>1 DEF Requested, Requests, Subscribed
<1>2. ASSUME NEW r \in Requests, SettledElsewhere(r) \/ Respond(r)
      PROVE  CardsTypeOK' /\ EveryRequestHasCard'
  BY <1>2 DEF SettledElsewhere, Respond
<1>3. ASSUME NEW r \in Requests, Absorbed(r)
      PROVE  CardsTypeOK' /\ EveryRequestHasCard'
  BY <1>3 DEF Absorbed
<1>4. ASSUME NEW r \in Requests, RespondOffline(r)
      PROVE  CardsTypeOK' /\ EveryRequestHasCard'
  BY <1>4 DEF RespondOffline
<1>5. ASSUME NEW r \in Requests, ResponseArrives(r)
      PROVE  CardsTypeOK' /\ EveryRequestHasCard'
  BY <1>5 DEF ResponseArrives
<1>6. CASE Connected \/ SubscribeAnswered \/ BootstrapFails
  BY <1>6 DEF Connected, SubscribeAnswered, BootstrapFails
<1>7. CASE PendingListed
  BY <1>7 DEF PendingListed, ListedCards
<1>8. CASE ConnectionLost
  BY <1>8, LossesAssumption DEF ConnectionLost
<1>9. CASE UNCHANGED cardVars
  BY <1>9 DEF cardVars
<1> QED
  BY <1>1, <1>2, <1>3, <1>4, <1>5, <1>6, <1>7, <1>8, <1>9 DEF CardsNext

\* Once the shell has connected, every request an agent waits on is shown or
\* is being looked up, for any requests and any losses of the connection
\* (store.ts, bootstrap, refreshApprovals, respondApproval).
THEOREM EveryRequestHasCardHolds == CardsSpec => []EveryRequestHasCard
<1>1. CardsInit => CardsTypeOK /\ EveryRequestHasCard
  BY LossesAssumption DEF CardsInit, CardsTypeOK, EveryRequestHasCard
<1>2. CardsTypeOK /\ EveryRequestHasCard /\ [CardsNext]_cardVars
        => (CardsTypeOK /\ EveryRequestHasCard)'
  BY CardsPreserved
<1> QED
  BY <1>1, <1>2, PTL DEF CardsSpec

-----------------------------------------------------------------------------
(***************************************************************************)
(* The session graph.                                                      *)
(***************************************************************************)

\* A set of numbers has a least one.
LEMMA LeastOne ==
  ASSUME NEW T \in SUBSET Nat, T # {}
  PROVE  \E m \in T : \A n \in T : m <= n
<1> DEFINE R == OpToRel(<, Nat)
<1>1. IsWellFoundedOn(R, Nat)
  BY NatLessThanWellFounded
<1> HIDE DEF R
<1>2. PICK m \in T : \A n \in T : <<n, m>> \notin R
  BY <1>1, WFMin
<1>3. ASSUME NEW n \in T
      PROVE  m <= n
  <2>1. <<n, m>> \notin {ss \in Nat \X Nat : ss[1] < ss[2]}
    BY <1>2 DEF R, OpToRel
  <2> QED
    BY <2>1
<1> QED
  BY <1>2, <1>3

\* The elements of a finite set in a row.
LEMMA SetInARow ==
  ASSUME NEW S, IsFiniteSet(S)
  PROVE  /\ SetToSeq(S) \in Seq(S) /\ Len(SetToSeq(S)) = Cardinality(S)
         /\ ToSet(SetToSeq(S)) = S
<1> DEFINE n == Cardinality(S)
           q == SetToSeq(S)
<1>1. n \in Nat /\ ExistsBijection(1..n, S)
  BY FS_CardinalityType
<1>2. PICK f \in [1..n -> S] : IsInjective(f)
  BY <1>1 DEF ExistsBijection, Bijection, Injection
<1>3. q \in [1..n -> S] /\ IsInjective(q)
  BY <1>2 DEF SetToSeq
<1> HIDE DEF n, q
<1>4. q \in Injection(1..n, S)
  BY <1>3 DEF Injection
<1>5. Cardinality(1..n) = Cardinality(S)
  <2>1. Cardinality(1..n) = n
    BY <1>1, FS_Interval
  <2> QED
    BY <2>1 DEF n
<1>6. q \in Surjection(1..n, S)
  BY <1>4, <1>5, FS_Injection
<1>7. q \in Seq(S) /\ Len(q) = n /\ DOMAIN q = 1..n
  BY <1>1, <1>3
<1>8. ToSet(q) = S
  BY <1>3, <1>6, <1>7 DEF ToSet, Surjection
<1> QED
  BY <1>7, <1>8 DEF n, q

\* What is in a sequence that was put together.
LEMMA InConcat ==
  ASSUME NEW S, NEW s \in Seq(S), NEW t \in Seq(S)
  PROVE  /\ s \o t \in Seq(S) /\ Len(s \o t) = Len(s) + Len(t)
         /\ ToSet(s \o t) = ToSet(s) \cup ToSet(t)
<1> DEFINE r == s \o t
<1>1. /\ Len(s) \in Nat /\ Len(t) \in Nat /\ DOMAIN s = 1..Len(s) /\ DOMAIN t = 1..Len(t)
      /\ r \in Seq(S) /\ Len(r) = Len(s) + Len(t) /\ DOMAIN r = 1..(Len(s) + Len(t))
      /\ \A i \in 1..Len(s) : r[i] = s[i]
      /\ \A i \in 1..Len(t) : r[Len(s) + i] = t[i]
  OBVIOUS
<1> HIDE DEF r
<1>2. ASSUME NEW i \in DOMAIN r
      PROVE  r[i] \in ToSet(s) \cup ToSet(t)
  <2>1. CASE i <= Len(s)
    BY <1>1, <2>1 DEF ToSet
  <2>2. CASE i > Len(s)
    <3>1. i - Len(s) \in 1..Len(t) /\ Len(s) + (i - Len(s)) = i
      BY <1>1, <2>2
    <3>2. r[i] = t[i - Len(s)]
      BY <1>1, <3>1
    <3> QED
      BY <1>1, <3>1, <3>2 DEF ToSet
  <2> QED
    BY <1>1, <2>1, <2>2
<1>3. ASSUME NEW i \in DOMAIN s
      PROVE  s[i] \in ToSet(r)
  <2>1. i \in DOMAIN r
    BY <1>1
  <2> QED
    BY <1>1, <2>1 DEF ToSet
<1>4. ASSUME NEW i \in DOMAIN t
      PROVE  t[i] \in ToSet(r)
  <2>1. Len(s) + i \in DOMAIN r
    BY <1>1
  <2> QED
    BY <1>1, <2>1 DEF ToSet
<1>5. ToSet(r) = ToSet(s) \cup ToSet(t)
  BY <1>2, <1>3, <1>4 DEF ToSet
<1> QED
  BY <1>1, <1>5 DEF r

LEMMA InAppend ==
  ASSUME NEW S, NEW s \in Seq(S), NEW x \in S
  PROVE  Append(s, x) \in Seq(S) /\ ToSet(Append(s, x)) = ToSet(s) \cup {x}
<1>1. <<x>> \in Seq(S) /\ ToSet(<<x>>) = {x}
  BY DEF ToSet
<1>2. s \o <<x>> \in Seq(S) /\ ToSet(s \o <<x>>) = ToSet(s) \cup ToSet(<<x>>)
  BY <1>1, InConcat
<1>3. Append(s, x) = s \o <<x>>
  OBVIOUS
<1> QED
  BY <1>1, <1>2, <1>3

LEMMA InTail ==
  ASSUME NEW S, NEW s \in Seq(S), s # << >>
  PROVE  /\ Head(s) \in S /\ Tail(s) \in Seq(S) /\ Len(Tail(s)) = Len(s) - 1
         /\ ToSet(s) = {Head(s)} \cup ToSet(Tail(s))
<1>1. /\ Head(s) \in S /\ Tail(s) \in Seq(S) /\ Len(Tail(s)) = Len(s) - 1 /\ Head(s) = s[1]
      /\ Len(s) \in Nat /\ Len(s) # 0 /\ DOMAIN s = 1..Len(s)
      /\ DOMAIN Tail(s) = 1..(Len(s) - 1)
      /\ \A i \in 1..(Len(s) - 1) : Tail(s)[i] = s[i + 1]
  OBVIOUS
<1>2. ASSUME NEW i \in DOMAIN s, i # 1
      PROVE  s[i] \in ToSet(Tail(s))
  <2>1. i - 1 \in DOMAIN Tail(s) /\ (i - 1) + 1 = i
    BY <1>1, <1>2
  <2>2. s[i] = Tail(s)[i - 1]
    BY <1>1, <2>1
  <2> QED
    BY <2>1, <2>2 DEF ToSet
<1>3. ASSUME NEW i \in DOMAIN Tail(s)
      PROVE  Tail(s)[i] \in ToSet(s)
  <2>1. i + 1 \in DOMAIN s /\ Tail(s)[i] = s[i + 1]
    BY <1>1
  <2> QED
    BY <2>1 DEF ToSet
<1>4. Head(s) \in ToSet(s)
  BY <1>1 DEF ToSet
<1>5. ToSet(s) \subseteq {Head(s)} \cup ToSet(Tail(s))
  BY <1>1, <1>2 DEF ToSet
<1>6. ToSet(Tail(s)) \subseteq ToSet(s)
  BY <1>3 DEF ToSet
<1> QED
  BY <1>1, <1>4, <1>5, <1>6

Distinct(s) == \A i, j \in DOMAIN s : s[i] = s[j] => i = j

LEMMA DistinctCounts ==
  ASSUME NEW S, NEW s \in Seq(S), Distinct(s)
  PROVE  Cardinality(ToSet(s)) = Len(s)
<1>1. Len(s) \in Nat /\ DOMAIN s = 1..Len(s) /\ s \in [1..Len(s) -> ToSet(s)]
  BY DEF ToSet
<1>2. s \in Bijection(1..Len(s), ToSet(s))
  BY <1>1 DEF Bijection, Injection, Surjection, IsInjective, Distinct, ToSet
<1>3. ExistsBijection(1..Len(s), ToSet(s))
  BY <1>2 DEF ExistsBijection
<1> QED
  BY <1>1, <1>3, FS_CountingElements

LEMMA DistinctGrows ==
  ASSUME NEW S, NEW s \in Seq(S), Distinct(s), NEW x \in S, x \notin ToSet(s)
  PROVE  Distinct(Append(s, x))
<1> DEFINE r == Append(s, x)
<1>1. /\ Len(s) \in Nat /\ DOMAIN s = 1..Len(s) /\ DOMAIN r = (1..Len(s)) \cup {Len(s) + 1}
      /\ \A i \in 1..Len(s) : r[i] = s[i]
      /\ r[Len(s) + 1] = x
  OBVIOUS
<1> HIDE DEF r
<1>2. \A i \in 1..Len(s) : s[i] # x
  BY <1>1 DEF ToSet
<1>3. Distinct(r)
  BY <1>1, <1>2 DEF Distinct
<1> QED
  BY <1>3 DEF r

\* f calls itself last, unless it is done.
CallsItself(f, D, Done, next, out) ==
  f = [x \in D |-> IF x \in Done THEN out[x] ELSE f[next[x]]]

GoesOnIn(D, Done, next) == Done \subseteq D /\ \A x \in D \ Done : next[x] \in D

\* A function that calls itself last is well defined, whether or not it comes
\* to an end.
LEMMA TailCall ==
  ASSUME NEW D, NEW Done, NEW next, NEW out, GoesOnIn(D, Done, next)
  PROVE  \E f : CallsItself(f, D, Done, next, out)
<1>0. Done \subseteq D /\ \A x \in D \ Done : next[x] \in D
  BY DEF GoesOnIn
<1> DEFINE Run(x, n, s) ==
             /\ s[0] = x /\ s[n] \in Done
             /\ \A i \in 0..(n - 1) : s[i] \notin Done /\ s[i + 1] = next[s[i]]
           Reached(x) == {y \in Done : \E n \in Nat : \E s \in [0..n -> D] : Run(x, n, s) /\ s[n] = y}
           f == [x \in D |-> IF x \in Done THEN out[x] ELSE out[CHOOSE y : y \in Reached(x)]]
<1>1. ASSUME NEW x \in D \ Done
      PROVE  Reached(next[x]) \subseteq Reached(x)
  <2> SUFFICES ASSUME NEW y \in Done, NEW n \in Nat, NEW s \in [0..n -> D],
                      Run(next[x], n, s), s[n] = y
               PROVE  y \in Reached(x)
    OBVIOUS
  <2> DEFINE r == [i \in 0..(n + 1) |-> IF i = 0 THEN x ELSE s[i - 1]]
  <2>1. n + 1 \in Nat /\ r \in [0..(n + 1) -> D]
    <3>1. \A i \in 0..(n + 1) : i # 0 => i - 1 \in 0..n
      OBVIOUS
    <3> QED
      BY <3>1
  <2>2. r[0] = x /\ r[n + 1] = s[n]
    OBVIOUS
  <2>3. ASSUME NEW i \in 0..((n + 1) - 1)
        PROVE  r[i] \notin Done /\ r[i + 1] = next[r[i]]
    <3>1. i + 1 \in 0..(n + 1) /\ i \in 0..(n + 1) /\ r[i + 1] = s[i]
      OBVIOUS
    <3>2. CASE i = 0
      BY <3>1, <3>2
    <3>3. CASE i # 0
      <4>1. i - 1 \in 0..(n - 1) /\ (i - 1) + 1 = i /\ r[i] = s[i - 1]
        BY <3>3
      <4> QED
        BY <3>1, <4>1
    <3> QED
      BY <3>2, <3>3
  <2>4. Run(x, n + 1, r)
    BY <2>2, <2>3
  <2> HIDE DEF r
  <2> QED
    BY <2>1, <2>2, <2>4
<1>2. ASSUME NEW x \in D \ Done
      PROVE  Reached(x) \subseteq Reached(next[x])
  <2> SUFFICES ASSUME NEW y \in Done, NEW n \in Nat, NEW s \in [0..n -> D],
                      Run(x, n, s), s[n] = y
               PROVE  y \in Reached(next[x])
    OBVIOUS
  <2>1. n # 0
    OBVIOUS
  <2> DEFINE m == n - 1
             r == [i \in 0..m |-> s[i + 1]]
  <2>2. m \in Nat /\ m + 1 = n /\ r \in [0..m -> D]
    <3>1. m \in Nat /\ \A i \in 0..m : i + 1 \in 0..n
      BY <2>1
    <3> QED
      BY <3>1
  <2>3. r[0] = next[x] /\ r[m] = s[n]
    <3>1. 0 \in 0..(n - 1) /\ 0 \in 0..m /\ m \in 0..m
      BY <2>2
    <3>2. s[0 + 1] = next[s[0]]
      BY <3>1
    <3> QED
      BY <2>2, <3>1, <3>2
  <2>4. ASSUME NEW i \in 0..(m - 1)
        PROVE  r[i] \notin Done /\ r[i + 1] = next[r[i]]
    <3>1. i \in 0..m /\ i + 1 \in 0..m /\ i + 1 \in 0..(n - 1)
      BY <2>2
    <3> QED
      BY <3>1
  <2>5. Run(next[x], m, r)
    BY <2>3, <2>4
  <2> HIDE DEF r, m
  <2> QED
    BY <2>2, <2>3, <2>5
<1>3. \A x \in Done : f[x] = out[x]
  BY <1>0
<1>4. ASSUME NEW x \in D \ Done
      PROVE  f[x] = f[next[x]]
  <2>1. Reached(x) = Reached(next[x]) /\ next[x] \in D
    BY <1>0, <1>1, <1>2
  <2>2. CASE next[x] \in Done
    <3> DEFINE z == next[x]
    <3>1. \A y : y \in Reached(z) => y = z
      <4> SUFFICES ASSUME NEW y \in Done, NEW n \in Nat, NEW s \in [0..n -> D],
                          Run(z, n, s), s[n] = y
                   PROVE  y = z
        OBVIOUS
      <4>1. n = 0
        <5>1. n # 0 => 0 \in 0..(n - 1)
          OBVIOUS
        <5> QED
          BY <2>2, <5>1
      <4> QED
        BY <4>1
    <3>2. z \in Reached(z)
      <4> DEFINE s == [i \in 0..0 |-> z]
      <4>1. s \in [0..0 -> D] /\ s[0] = z /\ 0 \in Nat
        BY <2>1
      <4>2. Run(z, 0, s)
        BY <2>2, <4>1
      <4> HIDE DEF s
      <4> QED
        BY <2>2, <4>1, <4>2
    <3> HIDE DEF Reached
    <3>3. (CHOOSE y : y \in Reached(x)) = z
      BY <2>1, <3>1, <3>2
    <3> QED
      BY <1>0, <2>1, <2>2, <3>3
  <2>3. CASE next[x] \notin Done
    <3> HIDE DEF Reached
    <3> QED
      BY <1>0, <2>1, <2>3
  <2> QED
    BY <2>2, <2>3
<1>5. f = [x \in D |-> IF x \in Done THEN out[x] ELSE f[next[x]]]
  <2> HIDE DEF Reached
  <2>1. DOMAIN f = D
    OBVIOUS
  <2>2. \A x \in D : f[x] = IF x \in Done THEN out[x] ELSE f[next[x]]
    BY <1>0, <1>3, <1>4
  <2>3. f = [x \in D |-> f[x]]
    OBVIOUS
  <2> HIDE DEF f
  <2> QED
    BY <2>2, <2>3
<1> QED
  BY <1>5 DEF CallsItself

GraphEdge == [kind : {"delegate", "supplement", "result"}, from : Nodes, to : Nodes]

\* What a graph names as a child is a node of it, and nobody is the father of
\* the human.
Known(g) ==
  /\ g = [nodes |-> g.nodes, edges |-> g.edges, parents |-> g.parents]
  /\ g.edges \in Seq(GraphEdge)
  /\ DOMAIN g.nodes \subseteq Nodes
  /\ Human \in DOMAIN g.nodes => g.nodes[Human] = "root"
  /\ IsFiniteSet(DOMAIN g.parents) /\ DOMAIN g.parents \subseteq Refs \cap DOMAIN g.nodes
  /\ \A s \in DOMAIN g.parents : g.parents[s] \in Refs
  /\ \A i \in DOMAIN g.edges : g.edges[i].kind = "delegate" => g.edges[i].to \in DOMAIN g.nodes

Pairs == Seq(Nodes) \X Seq(Nodes)

\* The edges that leave what is not built yet, and the subagents of it.
LeftEdges(g, built) ==
  {i \in DOMAIN g.edges : g.edges[i].kind = "delegate" /\ g.edges[i].from \notin ToSet(built)}
LeftParents(g, built) == {s \in DOMAIN g.parents : g.parents[s] \notin ToSet(built)}

\* How many more sessions build can be called for.
Size(g, todo, built) ==
  Len(todo) + Cardinality(LeftEdges(g, built)) + Cardinality(LeftParents(g, built))

LEMMA EdgesAreFinite ==
  ASSUME NEW g, Known(g)
  PROVE  IsFiniteSet(DOMAIN g.edges)
<1>1. Len(g.edges) \in Nat /\ DOMAIN g.edges = 1..Len(g.edges)
  BY DEF Known
<1>2. 1 \in Int /\ Len(g.edges) \in Int
  BY <1>1
<1>3. IsFiniteSet(1..Len(g.edges))
  BY <1>2, FS_Interval
<1> QED
  BY <1>1, <1>3

\* The children of a session are nodes, and no more than the edges and the
\* entries that make them so.
LEMMA ChildrenAreNodes ==
  ASSUME NEW g, Known(g), NEW r
  PROVE  /\ Children(g, r) \in Seq(Nodes)
         /\ ToSet(Children(g, r)) = Delegated(g, r) \cup Natives(g, r)
         /\ ToSet(Children(g, r)) \subseteq DOMAIN g.nodes
         /\ Len(Children(g, r)) = Cardinality(Delegated(g, r)) + Cardinality(Natives(g, r))
         /\ IsFiniteSet(Delegated(g, r)) /\ IsFiniteSet(Natives(g, r))
<1> DEFINE at == {j \in DOMAIN g.edges : g.edges[j].kind = "delegate" /\ g.edges[j].from = r}
<1>1. /\ IsFiniteSet(DOMAIN g.edges) /\ IsFiniteSet(DOMAIN g.parents)
      /\ DOMAIN g.nodes \subseteq Nodes
  BY EdgesAreFinite DEF Known
<1>2. IsFiniteSet(at)
  BY <1>1, FS_Subset
<1>3. IsFiniteSet(Delegated(g, r))
  <2> DEFINE f == [j \in at |-> g.edges[j].to]
  <2>1. f \in Surjection(at, Delegated(g, r))
    BY DEF Surjection, Delegated
  <2> HIDE DEF f, at
  <2> QED
    BY <1>2, <2>1, FS_Surjection
<1>4. Natives(g, r) \in SUBSET DOMAIN g.parents
  BY DEF Natives
<1>5. IsFiniteSet(Natives(g, r))
  BY <1>1, <1>4, FS_Subset
<1>6. Delegated(g, r) \subseteq DOMAIN g.nodes /\ Natives(g, r) \subseteq DOMAIN g.nodes
  BY DEF Known, Delegated, Natives
<1> DEFINE d == SetToSeq(Delegated(g, r))
           n == SetToSeq(Natives(g, r))
<1>7. /\ d \in Seq(Delegated(g, r)) /\ Len(d) = Cardinality(Delegated(g, r))
      /\ ToSet(d) = Delegated(g, r)
  BY <1>3, SetInARow
<1>8. /\ n \in Seq(Natives(g, r)) /\ Len(n) = Cardinality(Natives(g, r))
      /\ ToSet(n) = Natives(g, r)
  BY <1>5, SetInARow
<1> HIDE DEF d, n
<1>9. d \in Seq(Nodes) /\ n \in Seq(Nodes)
  <2>1. Delegated(g, r) \subseteq Nodes /\ Natives(g, r) \subseteq Nodes
    BY <1>1, <1>6
  <2> QED
    BY <1>7, <1>8, <2>1, SeqMonotonic
<1>10. /\ d \o n \in Seq(Nodes) /\ Len(d \o n) = Len(d) + Len(n)
       /\ ToSet(d \o n) = ToSet(d) \cup ToSet(n)
  BY <1>9, InConcat
<1>11. Children(g, r) = d \o n
  BY DEF Children, d, n
<1> QED
  BY <1>3, <1>5, <1>6, <1>7, <1>8, <1>10, <1>11

\* A visit leaves less to do.
LEMMA VisitShrinks ==
  ASSUME NEW g, Known(g), NEW todo \in Seq(Nodes), todo # << >>, NEW built \in Seq(Nodes)
  PROVE  /\ Size(g, todo, built) \in Nat
         /\ Visit(g, todo, built) \in Pairs
         /\ Size(g, Visit(g, todo, built)[1], Visit(g, todo, built)[2]) < Size(g, todo, built)
<1> DEFINE r == Head(todo)
           E == LeftEdges(g, built)
           P == LeftParents(g, built)
<1>1. /\ r \in Nodes /\ Tail(todo) \in Seq(Nodes) /\ Len(Tail(todo)) = Len(todo) - 1
      /\ Len(todo) \in Nat
  BY InTail
<1>2. IsFiniteSet(E) /\ IsFiniteSet(P) /\ Cardinality(E) \in Nat /\ Cardinality(P) \in Nat
  <2>1. IsFiniteSet(DOMAIN g.edges)
    BY EdgesAreFinite
  <2>2. E \in SUBSET DOMAIN g.edges /\ P \in SUBSET DOMAIN g.parents
    BY DEF LeftEdges, LeftParents
  <2>3. IsFiniteSet(E) /\ IsFiniteSet(P)
    BY <2>1, <2>2, FS_Subset DEF Known
  <2> HIDE DEF E, P
  <2> QED
    BY <2>3, FS_CardinalityType
<1>3. Size(g, todo, built) = Len(todo) + Cardinality(E) + Cardinality(P)
  BY DEF Size
<1>4. CASE r \notin DOMAIN g.nodes \ ToSet(built)
  <2>1. Visit(g, todo, built) = <<Tail(todo), built>>
    BY <1>4 DEF Visit
  <2>2. Size(g, Tail(todo), built) = Len(todo) - 1 + Cardinality(E) + Cardinality(P)
    BY <1>1 DEF Size
  <2>3. Size(g, todo, built) \in Nat /\ Size(g, Tail(todo), built) < Size(g, todo, built)
    <3> HIDE DEF E, P
    <3> QED
      BY <1>1, <1>2, <1>3, <2>2
  <2>4. <<Tail(todo), built>> \in Pairs
    BY <1>1 DEF Pairs
  <2> QED
    BY <2>1, <2>3, <2>4
<1>5. CASE r \in DOMAIN g.nodes \ ToSet(built)
  <2> DEFINE c == Children(g, r)
             next == Append(built, r)
             E1 == {i \in DOMAIN g.edges : g.edges[i].kind = "delegate" /\ g.edges[i].from = r}
             P1 == {s \in DOMAIN g.parents : g.parents[s] = r}
  <2>1. Visit(g, todo, built) = <<c \o Tail(todo), next>>
    BY <1>5 DEF Visit
  <2>2. next \in Seq(Nodes) /\ ToSet(next) = ToSet(built) \cup {r}
    BY <1>1, InAppend
  <2>3. /\ c \in Seq(Nodes) /\ Len(c) = Cardinality(Delegated(g, r)) + Cardinality(Natives(g, r))
        /\ IsFiniteSet(Delegated(g, r)) /\ IsFiniteSet(Natives(g, r))
    BY ChildrenAreNodes
  <2>4. /\ c \o Tail(todo) \in Seq(Nodes) /\ Len(c \o Tail(todo)) = Len(c) + Len(Tail(todo))
    BY <1>1, <2>3, InConcat
  <2>5. LeftEdges(g, next) = E \ E1 /\ E1 \in SUBSET E
    BY <1>5, <2>2 DEF LeftEdges
  <2>6. LeftParents(g, next) = P \ P1 /\ P1 \in SUBSET P
    BY <1>5, <2>2 DEF LeftParents
  <2>7. /\ IsFiniteSet(E1) /\ IsFiniteSet(P1) /\ Cardinality(E1) \in Nat /\ Cardinality(P1) \in Nat
    <3>1. IsFiniteSet(E1) /\ IsFiniteSet(P1)
      BY <1>2, <2>5, <2>6, FS_Subset
    <3> HIDE DEF E1, P1
    <3> QED
      BY <3>1, FS_CardinalityType
  <2>8. /\ Cardinality(E \ E1) = Cardinality(E) - Cardinality(E1)
        /\ Cardinality(P \ P1) = Cardinality(P) - Cardinality(P1)
    <3>1. E \cap E1 = E1 /\ P \cap P1 = P1
      BY <2>5, <2>6
    <3> HIDE DEF E, P, E1, P1
    <3>2. /\ Cardinality(E \ E1) = Cardinality(E) - Cardinality(E \cap E1)
          /\ Cardinality(P \ P1) = Cardinality(P) - Cardinality(P \cap P1)
      BY <1>2, FS_Difference
    <3> QED
      BY <3>1, <3>2
  <2>9. Cardinality(Delegated(g, r)) <= Cardinality(E1)
    <3> DEFINE f == [j \in E1 |-> g.edges[j].to]
    <3>1. f \in Surjection(E1, Delegated(g, r))
      BY DEF Surjection, Delegated
    <3> HIDE DEF f, E1
    <3> QED
      BY <2>7, <3>1, FS_Surjection
  <2>10. Cardinality(Natives(g, r)) <= Cardinality(P1)
    <3>1. Natives(g, r) \in SUBSET P1
      BY DEF Natives
    <3> HIDE DEF P1
    <3> QED
      BY <2>7, <3>1, FS_Subset
  <2>11. Cardinality(Delegated(g, r)) \in Nat /\ Cardinality(Natives(g, r)) \in Nat
    BY <2>3, FS_CardinalityType
  <2>12. Size(g, c \o Tail(todo), next)
           = Len(c \o Tail(todo)) + Cardinality(E \ E1) + Cardinality(P \ P1)
    BY <2>5, <2>6 DEF Size
  <2> HIDE DEF E, P, E1, P1, c, next
  <2>13. Size(g, c \o Tail(todo), next) < Size(g, todo, built)
    <3>1. Len(c \o Tail(todo)) <= Cardinality(E1) + Cardinality(P1) + Len(todo) - 1
      BY <1>1, <2>3, <2>4, <2>7, <2>9, <2>10, <2>11
    <3>2. Len(c \o Tail(todo)) \in Nat
      BY <2>4
    <3> QED
      BY <1>1, <1>2, <1>3, <2>7, <2>8, <2>12, <3>1, <3>2
  <2>14. Size(g, todo, built) \in Nat
    BY <1>1, <1>2, <1>3
  <2>15. <<c \o Tail(todo), next>> \in Pairs
    BY <2>2, <2>4 DEF Pairs
  <2> QED
    BY <2>1, <2>13, <2>14, <2>15
<1> QED
  BY <1>4, <1>5

\* Build does what its definition says.
LEMMA BuildRuns ==
  ASSUME NEW g, Known(g), NEW todo \in Seq(Nodes), NEW built \in Seq(Nodes)
  PROVE  Build(g)[<<todo, built>>] =
           IF todo = << >> THEN built ELSE Build(g)[Visit(g, todo, built)]
<1> DEFINE Done == {p \in Pairs : p[1] = << >>}
           next == [p \in Pairs |-> Visit(g, p[1], p[2])]
           out == [p \in Pairs |-> p[2]]
           Def(f) == [p \in Pairs |-> IF p[1] = << >> THEN p[2] ELSE f[Visit(g, p[1], p[2])]]
<1>1. GoesOnIn(Pairs, Done, next)
  <2> SUFFICES ASSUME NEW p \in Pairs \ Done
               PROVE  Visit(g, p[1], p[2]) \in Pairs
    BY DEF GoesOnIn
  <2>1. p[1] \in Seq(Nodes) /\ p[1] # << >> /\ p[2] \in Seq(Nodes)
    BY DEF Pairs
  <2> QED
    BY <2>1, VisitShrinks
<1> HIDE DEF Done, next, out
<1>3. PICK f : CallsItself(f, Pairs, Done, next, out)
  BY <1>1, TailCall
<1>4. f = Def(f)
  <2>1. \A x \in Pairs : (IF x \in Done THEN out[x] ELSE f[next[x]])
                           = IF x[1] = << >> THEN x[2] ELSE f[Visit(g, x[1], x[2])]
    BY DEF Done, out, next
  <2> QED
    BY <1>3, <2>1 DEF CallsItself
<1>5. Build(g) = CHOOSE b : b = Def(b)
  BY DEF Build, Pairs
<1>6. Build(g) = Def(Build(g))
  BY <1>4, <1>5
<1>7. <<todo, built>> \in Pairs
  BY DEF Pairs
<1>8. Build(g)[<<todo, built>>] = Def(Build(g))[<<todo, built>>]
  BY <1>6
<1> QED
  BY <1>7, <1>8

\* What build rests on: the sessions that are built are told apart, and
\* whatever is below them is built or still to do; nothing outside of C is
\* met if C has all that is below its sessions.
Below(g, C) == \A s \in C : ToSet(Children(g, s)) \subseteq C

Walking(g, C, root, todo, built) ==
  /\ todo \in Seq(Nodes) /\ built \in Seq(Nodes) /\ Distinct(built)
  /\ ToSet(todo) \subseteq DOMAIN g.nodes
  /\ ToSet(todo) \cup ToSet(built) \subseteq C
  /\ root \in ToSet(todo) \cup ToSet(built)
  /\ \A s \in ToSet(built) : ToSet(Children(g, s)) \subseteq ToSet(todo) \cup ToSet(built)

Grown(g, C, root, tree) ==
  /\ tree \in Seq(Nodes) /\ Distinct(tree) /\ ToSet(tree) \subseteq C /\ root \in ToSet(tree)
  /\ Below(g, ToSet(tree))

LEMMA VisitWalksOn ==
  ASSUME NEW g, Known(g), NEW C, Below(g, C), NEW root, NEW todo, NEW built,
         Walking(g, C, root, todo, built), todo # << >>
  PROVE  Walking(g, C, root, Visit(g, todo, built)[1], Visit(g, todo, built)[2])
<1> DEFINE r == Head(todo)
           rest == Tail(todo)
<1>1. todo \in Seq(Nodes) /\ built \in Seq(Nodes)
  BY DEF Walking
<1>2. r \in Nodes /\ rest \in Seq(Nodes) /\ ToSet(todo) = {r} \cup ToSet(rest)
  BY <1>1, InTail
<1>3. r \in DOMAIN g.nodes /\ r \in C
  BY <1>2 DEF Walking
<1> HIDE DEF r, rest
<1>4. CASE r \in ToSet(built)
  <2>1. Visit(g, todo, built) = <<rest, built>>
    BY <1>4 DEF Visit, r, rest
  <2>2. Walking(g, C, root, rest, built)
    BY <1>2, <1>4 DEF Walking
  <2> QED
    BY <2>1, <2>2
<1>5. CASE r \notin ToSet(built)
  <2> DEFINE c == Children(g, r)
             more == c \o rest
             next == Append(built, r)
  <2>1. Visit(g, todo, built) = <<more, next>>
    BY <1>3, <1>5 DEF Visit, r, rest
  <2>2. c \in Seq(Nodes) /\ ToSet(c) \subseteq DOMAIN g.nodes /\ ToSet(c) \subseteq C
    BY <1>3, ChildrenAreNodes DEF Below
  <2>3. next \in Seq(Nodes) /\ ToSet(next) = ToSet(built) \cup {r}
    BY <1>1, <1>2, InAppend
  <2>4. Distinct(next)
    BY <1>1, <1>2, <1>5, DistinctGrows DEF Walking
  <2>5. more \in Seq(Nodes) /\ ToSet(more) = ToSet(c) \cup ToSet(rest)
    BY <1>2, <2>2, InConcat
  <2>6. \A s \in ToSet(next) : ToSet(Children(g, s)) \subseteq ToSet(more) \cup ToSet(next)
    BY <1>2, <2>3, <2>5 DEF Walking
  <2> HIDE DEF c, more, next
  <2>7. Walking(g, C, root, more, next)
    BY <1>2, <1>3, <2>2, <2>3, <2>4, <2>5, <2>6 DEF Walking
  <2> QED
    BY <2>1, <2>7
<1> QED
  BY <1>4, <1>5

\* What build makes of what is built and still to do.
LEMMA BuildGrows ==
  ASSUME NEW g, Known(g), NEW C, Below(g, C), NEW root, NEW todo, NEW built,
         Walking(g, C, root, todo, built)
  PROVE  Grown(g, C, root, Build(g)[<<todo, built>>])
<1> DEFINE Bad(p) == Walking(g, C, root, p[1], p[2]) /\ ~Grown(g, C, root, Build(g)[p])
           Sizes == {Size(g, p[1], p[2]) : p \in {q \in Pairs : Bad(q)}}
<1>1. \A p \in Pairs : Size(g, p[1], p[2]) \in Nat
  <2> SUFFICES ASSUME NEW p \in Pairs
               PROVE  Size(g, p[1], p[2]) \in Nat
    OBVIOUS
  <2>1. p[1] \in Seq(Nodes) /\ p[2] \in Seq(Nodes)
    BY DEF Pairs
  <2>2. CASE p[1] # << >>
    BY <2>1, <2>2, VisitShrinks
  <2>3. CASE p[1] = << >>
    <3>1. IsFiniteSet(DOMAIN g.edges)
      BY EdgesAreFinite
    <3>2. /\ LeftEdges(g, p[2]) \in SUBSET DOMAIN g.edges
          /\ LeftParents(g, p[2]) \in SUBSET DOMAIN g.parents
      BY DEF LeftEdges, LeftParents
    <3>3. IsFiniteSet(LeftEdges(g, p[2])) /\ IsFiniteSet(LeftParents(g, p[2]))
      BY <3>1, <3>2, FS_Subset DEF Known
    <3>4. /\ Cardinality(LeftEdges(g, p[2])) \in Nat /\ Cardinality(LeftParents(g, p[2])) \in Nat
          /\ Len(p[1]) \in Nat
      BY <2>1, <3>3, FS_CardinalityType
    <3> QED
      BY <3>4 DEF Size
  <2> QED
    BY <2>2, <2>3
<1>2. ASSUME NEW p \in Pairs, Bad(p)
      PROVE  \E q \in Pairs : Bad(q) /\ Size(g, q[1], q[2]) < Size(g, p[1], p[2])
  <2>1. PICK t \in Seq(Nodes), b \in Seq(Nodes) : p = <<t, b>>
    BY DEF Pairs
  <2>2. Walking(g, C, root, t, b) /\ ~Grown(g, C, root, Build(g)[<<t, b>>])
    BY <1>2, <2>1
  <2>3. t # << >>
    <3> SUFFICES ASSUME t = << >> PROVE FALSE
      OBVIOUS
    <3>1. Build(g)[<<t, b>>] = b
      BY BuildRuns
    <3>2. ToSet(t) = {}
      BY DEF ToSet
    <3>3. Grown(g, C, root, b)
      BY <2>2, <3>2 DEF Walking, Grown, Below
    <3> QED
      BY <2>2, <3>1, <3>3
  <2> DEFINE q == Visit(g, t, b)
  <2>4. q \in Pairs /\ Size(g, q[1], q[2]) < Size(g, t, b)
    BY <2>3, VisitShrinks
  <2>5. Walking(g, C, root, q[1], q[2])
    BY <2>2, <2>3, VisitWalksOn
  <2>6. Build(g)[<<t, b>>] = Build(g)[q]
    BY <2>3, BuildRuns
  <2> HIDE DEF q
  <2>7. Bad(q) /\ Size(g, q[1], q[2]) < Size(g, p[1], p[2])
    BY <2>1, <2>2, <2>4, <2>5, <2>6
  <2> QED
    BY <2>4, <2>7
<1>3. ~ \E p \in Pairs : Bad(p)
  <2> SUFFICES ASSUME \E p \in Pairs : Bad(p) PROVE FALSE
    OBVIOUS
  <2> HIDE DEF Bad
  <2>1. Sizes \in SUBSET Nat /\ Sizes # {}
    BY <1>1
  <2> HIDE DEF Sizes
  <2>2. PICK m \in Sizes : \A n \in Sizes : m <= n
    BY <2>1, LeastOne
  <2>3. PICK p \in Pairs : Bad(p) /\ m = Size(g, p[1], p[2])
    BY <2>2 DEF Sizes
  <2>4. PICK q \in Pairs : Bad(q) /\ Size(g, q[1], q[2]) < m
    BY <1>2, <2>3
  <2>5. Size(g, q[1], q[2]) \in Sizes
    BY <2>4 DEF Sizes
  <2>6. m <= Size(g, q[1], q[2]) /\ m \in Nat /\ Size(g, q[1], q[2]) \in Nat
    BY <1>1, <2>1, <2>2, <2>5
  <2> QED
    BY <2>4, <2>6
<1>4. <<todo, built>> \in Pairs
  BY DEF Walking, Pairs
<1> QED
  BY <1>3, <1>4

\* The tree of a node has it and all that is below it, and no more than that.
LEMMA TreeGrows ==
  ASSUME NEW g, Known(g), NEW r \in DOMAIN g.nodes
  PROVE  /\ Cardinality(ToSet(Tree(g, r))) = Len(Tree(g, r))
         /\ r \in ToSet(Tree(g, r)) /\ Below(g, ToSet(Tree(g, r)))
         /\ \A C : r \in C /\ Below(g, C) => ToSet(Tree(g, r)) \subseteq C
<1>1. ASSUME NEW C, r \in C, Below(g, C)
      PROVE  Grown(g, C, r, Tree(g, r))
  <2>1. << >> \in Seq(Nodes) /\ <<r>> \in Seq(Nodes) /\ ToSet(<<r>>) = {r} /\ ToSet(<< >>) = {}
        /\ Distinct(<< >>)
    BY DEF Known, ToSet, Distinct
  <2>2. Walking(g, C, r, <<r>>, << >>)
    BY <1>1, <2>1 DEF Walking
  <2> QED
    BY <1>1, <2>2, BuildGrows DEF Tree
<1>2. Below(g, DOMAIN g.nodes)
  BY ChildrenAreNodes DEF Below
<1>3. Grown(g, DOMAIN g.nodes, r, Tree(g, r))
  BY <1>1, <1>2
<1>4. Tree(g, r) \in Seq(Nodes) /\ Distinct(Tree(g, r))
  BY <1>3 DEF Grown
<1>5. Cardinality(ToSet(Tree(g, r))) = Len(Tree(g, r))
  BY <1>4, DistinctCounts
<1> QED
  BY <1>1, <1>3, <1>5 DEF Grown

\* A graph in which nothing loses a child loses nothing from its trees.
Extends(h, g) ==
  /\ DOMAIN g.nodes \subseteq DOMAIN h.nodes
  /\ \A r \in DOMAIN g.nodes : g.nodes[r] # "root" => h.nodes[r] # "root"
  /\ \A r : Delegated(g, r) \subseteq Delegated(h, r) /\ Natives(g, r) \subseteq Natives(h, r)

LEMMA TreesExtend ==
  ASSUME NEW g, Known(g), NEW h, Known(h), Extends(h, g), NEW r \in DOMAIN g.nodes
  PROVE  ToSet(Tree(g, r)) \subseteq ToSet(Tree(h, r))
<1>1. r \in DOMAIN h.nodes
  BY DEF Extends
<1>2. r \in ToSet(Tree(h, r)) /\ Below(h, ToSet(Tree(h, r)))
  BY <1>1, TreeGrows
<1>3. \A s : ToSet(Children(g, s)) \subseteq ToSet(Children(h, s))
  BY ChildrenAreNodes DEF Extends
<1>4. Below(g, ToSet(Tree(h, r)))
  BY <1>2, <1>3 DEF Below
<1> QED
  BY <1>2, <1>4, TreeGrows

LEMMA ExtendsOn ==
  ASSUME NEW f, NEW g, NEW h, Extends(g, f), Extends(h, g)
  PROVE  Extends(h, f)
<1>1. DOMAIN f.nodes \subseteq DOMAIN h.nodes
  BY DEF Extends
<1>2. \A r \in DOMAIN f.nodes : f.nodes[r] # "root" => h.nodes[r] # "root"
  BY DEF Extends
<1>3. \A r : Delegated(f, r) \subseteq Delegated(h, r) /\ Natives(f, r) \subseteq Natives(h, r)
  BY DEF Extends
<1> QED
  BY <1>1, <1>2, <1>3 DEF Extends

\* A node keeps its kind, or becomes a subagent.
LEMMA NodeExtends ==
  ASSUME NEW g, Known(g), NEW r \in Nodes, NEW kind, r = Human => kind = "root",
         r \in DOMAIN g.nodes => kind = g.nodes[r] \/ kind = "native-subagent"
  PROVE  /\ Known(WithNode(g, r, kind)) /\ Extends(WithNode(g, r, kind), g)
         /\ DOMAIN WithNode(g, r, kind).nodes = DOMAIN g.nodes \cup {r}
         /\ WithNode(g, r, kind).edges = g.edges /\ WithNode(g, r, kind).parents = g.parents
<1> DEFINE h == WithNode(g, r, kind)
           n == Upserted(g.nodes, r, kind)
<1>1. h = [nodes |-> n, edges |-> g.edges, parents |-> g.parents]
  BY DEF WithNode, Known
<1>2. /\ DOMAIN n = DOMAIN g.nodes \cup {r} /\ n[r] = kind
      /\ \A k \in DOMAIN g.nodes : k # r => n[k] = g.nodes[k]
  BY DEF Upserted
<1> HIDE DEF n
<1>3. h.nodes = n /\ h.edges = g.edges /\ h.parents = g.parents
  BY <1>1
<1>4. Known(h)
  BY <1>1, <1>2, <1>3 DEF Known
<1>5. \A k \in DOMAIN g.nodes : n[k] = g.nodes[k] \/ n[k] = "native-subagent"
  BY <1>2
<1>6. \A k : Delegated(g, k) = Delegated(h, k)
  BY <1>3 DEF Delegated
<1>7. \A k : Natives(g, k) \subseteq Natives(h, k)
  <2>1. DOMAIN g.parents \subseteq DOMAIN g.nodes
    BY DEF Known
  <2> QED
    BY <1>3, <1>5, <2>1 DEF Natives
<1> HIDE DEF h
<1>8. Extends(h, g)
  BY <1>2, <1>3, <1>5, <1>6, <1>7 DEF Extends
<1> QED
  BY <1>2, <1>3, <1>4, <1>8 DEF h

LEMMA EdgeExtends ==
  ASSUME NEW g, Known(g), NEW kind \in {"delegate", "supplement", "result"},
         NEW from \in Nodes, NEW to \in Nodes, kind = "delegate" => to \in DOMAIN g.nodes
  PROVE  Known(WithEdge(g, kind, from, to)) /\ Extends(WithEdge(g, kind, from, to), g)
<1> DEFINE h == WithEdge(g, kind, from, to)
           e == Edge(kind, from, to)
           l == Append(g.edges, e)
<1>1. h = [nodes |-> g.nodes, edges |-> l, parents |-> g.parents]
  <2>1. h = [g EXCEPT !.edges = l]
    BY Zenon DEF WithEdge
  <2> HIDE DEF l, h
  <2> QED
    BY <2>1 DEF Known
<1>2. e \in GraphEdge /\ e.kind = kind /\ e.to = to
  BY DEF Edge, GraphEdge
<1>3. /\ Len(g.edges) \in Nat /\ DOMAIN g.edges = 1..Len(g.edges) /\ l \in Seq(GraphEdge)
      /\ DOMAIN l = (1..Len(g.edges)) \cup {Len(g.edges) + 1}
      /\ \A i \in 1..Len(g.edges) : l[i] = g.edges[i]
      /\ l[Len(g.edges) + 1] = e
  <2>1. g.edges \in Seq(GraphEdge)
    BY DEF Known
  <2> HIDE DEF e
  <2> QED
    BY <1>2, <2>1
<1> HIDE DEF e, l
<1>4. h.nodes = g.nodes /\ h.edges = l /\ h.parents = g.parents
  BY <1>1
<1>5. \A i \in DOMAIN l : l[i].kind = "delegate" => l[i].to \in DOMAIN g.nodes
  BY <1>2, <1>3 DEF Known
<1>6. Known(h)
  BY <1>1, <1>3, <1>4, <1>5 DEF Known
<1>7. \A k : Delegated(g, k) \subseteq Delegated(h, k) /\ Natives(g, k) = Natives(h, k)
  BY <1>3, <1>4 DEF Delegated, Natives
<1> HIDE DEF h
<1>8. Extends(h, g)
  BY <1>4, <1>7 DEF Extends
<1> QED
  BY <1>6, <1>8 DEF h

\* A subagent keeps its father.
LEMMA ParentExtends ==
  ASSUME NEW g, Known(g), NEW r \in Refs, r \in DOMAIN g.nodes, NEW parent \in Refs,
         r \in DOMAIN g.parents => g.parents[r] = parent
  PROVE  /\ Known([g EXCEPT !.parents = Upserted(g.parents, r, parent)])
         /\ Extends([g EXCEPT !.parents = Upserted(g.parents, r, parent)], g)
<1> DEFINE n == Upserted(g.parents, r, parent)
           h == [g EXCEPT !.parents = n]
<1>1. h = [nodes |-> g.nodes, edges |-> g.edges, parents |-> n]
  BY DEF Known
<1>2. /\ DOMAIN n = DOMAIN g.parents \cup {r} /\ n[r] = parent
      /\ \A k \in DOMAIN g.parents : n[k] = g.parents[k]
  BY DEF Upserted
<1>3. IsFiniteSet(DOMAIN g.parents \cup {r})
  BY FS_AddElement DEF Known
<1> HIDE DEF n
<1>4. h.nodes = g.nodes /\ h.edges = g.edges /\ h.parents = n
  BY <1>1
<1> HIDE DEF h
<1>5. \A s \in DOMAIN n : n[s] \in Refs
  BY <1>2 DEF Known
<1>6. DOMAIN n \subseteq Refs \cap DOMAIN g.nodes
  BY <1>2 DEF Known
<1>7. Known(h)
  BY <1>1, <1>2, <1>3, <1>4, <1>5, <1>6 DEF Known
<1>8. \A k : Delegated(g, k) = Delegated(h, k) /\ Natives(g, k) \subseteq Natives(h, k)
  BY <1>2, <1>4 DEF Delegated, Natives
<1>9. Extends(h, g)
  BY <1>4, <1>8 DEF Extends
<1> QED
  BY <1>7, <1>9 DEF h, n

\* The graph on disk is the one in memory.
GraphInv == disk = graph /\ Known(graph)

LEMMA GraphInitial == GraphInit => GraphInv
<1> SUFFICES ASSUME GraphInit PROVE GraphInv
  OBVIOUS
<1>1. graph = [nodes |-> << >>, edges |-> << >>, parents |-> << >>] /\ disk = graph
  BY DEF GraphInit, Empty
<1>2. DOMAIN << >> = {} /\ IsFiniteSet({}) /\ << >> \in Seq(GraphEdge)
  BY FS_EmptySet
<1> QED
  BY <1>1, <1>2 DEF GraphInv, Known

LEMMA SameExtends == \A g : Extends(g, g)
BY DEF Extends

\* What is known stays known, however the graph is written.
LEMMA GraphStep ==
  ASSUME GraphInv, GraphNext
  PROVE  GraphInv' /\ Extends(graph', graph)
<1> USE HumanAssumption
<1>1. Known(graph) /\ disk = graph
  BY DEF GraphInv
<1>2. ASSUME LoadGraph
      PROVE  graph' = graph /\ disk' = graph'
  BY <1>1, <1>2 DEF LoadGraph
<1>3. ASSUME NEW i \in 1..MaxEdges, ResultAdded(i)
      PROVE  disk' = graph' /\ Known(graph') /\ Extends(graph', graph)
  <2>1. /\ i \in DOMAIN graph.edges /\ disk' = graph'
        /\ graph' = WithEdge(graph, "result", graph.edges[i].to, graph.edges[i].from)
    BY <1>3 DEF ResultAdded, Save
  <2>2. graph.edges[i] \in GraphEdge
    BY <1>1, <2>1, ElementOfSeq DEF Known
  <2>3. graph.edges[i].to \in Nodes /\ graph.edges[i].from \in Nodes
    BY <2>2 DEF GraphEdge
  <2> QED
    BY <1>1, <2>1, <2>3, EdgeExtends
<1>4. ASSUME NEW r \in Refs, NewSessionNode(r)
      PROVE  disk' = graph' /\ Known(graph') /\ Extends(graph', graph)
  <2>1. r \notin DOMAIN graph.nodes /\ graph' = WithNode(graph, r, "root") /\ disk' = graph'
    BY <1>4 DEF NewSessionNode, Save
  <2> QED
    BY <1>1, <2>1, NodeExtends DEF Nodes
<1>5. ASSUME NEW r \in Refs, ResumedNode(r)
      PROVE  disk' = graph' /\ Known(graph') /\ Extends(graph', graph)
  <2> DEFINE kind == IF r \in DOMAIN graph.nodes THEN graph.nodes[r] ELSE "root"
  <2>1. graph' = WithNode(graph, r, kind) /\ disk' = graph'
    BY <1>5 DEF ResumedNode, Save
  <2>2. r \in Nodes /\ r # Human /\ (r \in DOMAIN graph.nodes => kind = graph.nodes[r])
    BY DEF Nodes
  <2> HIDE DEF kind
  <2> QED
    BY <1>1, <2>1, <2>2, NodeExtends
<1>6. ASSUME NEW r \in Refs, NEW from \in Refs, SubagentSpawned(from, r)
      PROVE  disk' = graph' /\ Known(graph') /\ Extends(graph', graph)
  <2> DEFINE g == WithNode(graph, r, "native-subagent")
  <2>1. /\ r \in DOMAIN graph.parents => graph.parents[r] = from
        /\ graph' = [g EXCEPT !.parents = Upserted(g.parents, r, from)]
        /\ disk' = graph'
    BY <1>6 DEF SubagentSpawned, Save
  <2>2. /\ Known(g) /\ Extends(g, graph) /\ r \in DOMAIN g.nodes
        /\ g.parents = graph.parents
    BY <1>1, NodeExtends DEF Nodes
  <2> HIDE DEF g
  <2>3. /\ Known([g EXCEPT !.parents = Upserted(g.parents, r, from)])
        /\ Extends([g EXCEPT !.parents = Upserted(g.parents, r, from)], g)
    BY <2>1, <2>2, ParentExtends
  <2> QED
    BY <2>1, <2>2, <2>3, ExtendsOn
<1>7. ASSUME NEW r \in Refs, NEW from \in Refs \cup {Human}, DelegatedNode(from, r)
      PROVE  disk' = graph' /\ Known(graph') /\ Extends(graph', graph)
  <2> DEFINE origin == IF from = Human THEN WithNode(graph, Human, "root") ELSE graph
             g == WithNode(origin, r, "delegation-child")
  <2>1. r \notin DOMAIN graph.nodes /\ disk' = graph'
        /\ graph' = WithEdge(g, "delegate", from, r)
    BY <1>7 DEF DelegatedNode, Save
  <2>2. /\ Known(origin) /\ Extends(origin, graph) /\ r \notin DOMAIN origin.nodes
    <3>1. CASE from = Human
      <4>1. Human \in Nodes /\ (Human \in DOMAIN graph.nodes => graph.nodes[Human] = "root")
        BY <1>1 DEF Nodes, Known
      <4>2. /\ Known(WithNode(graph, Human, "root"))
            /\ Extends(WithNode(graph, Human, "root"), graph)
            /\ DOMAIN WithNode(graph, Human, "root").nodes = DOMAIN graph.nodes \cup {Human}
        BY <1>1, <4>1, NodeExtends
      <4>3. r # Human
        OBVIOUS
      <4> QED
        BY <2>1, <3>1, <4>2, <4>3
    <3>2. CASE from # Human
      BY <1>1, <2>1, <3>2, SameExtends
    <3> QED
      BY <3>1, <3>2
  <2> HIDE DEF origin
  <2>3. Known(g) /\ Extends(g, origin) /\ r \in DOMAIN g.nodes
    BY <2>2, NodeExtends DEF Nodes
  <2> HIDE DEF g
  <2>4. Known(graph') /\ Extends(graph', g)
    BY <2>1, <2>3, EdgeExtends DEF Nodes
  <2>5. Extends(graph', graph)
    BY <2>2, <2>3, <2>4, ExtendsOn
  <2> QED
    BY <2>1, <2>4, <2>5
<1>8. ASSUME NEW r \in Refs, NEW from \in Refs \cup {Human}, SupplementAdded(from, r)
      PROVE  disk' = graph' /\ Known(graph') /\ Extends(graph', graph)
  <2>1. graph' = WithEdge(graph, "supplement", from, r) /\ disk' = graph'
    BY <1>8 DEF SupplementAdded, Save
  <2> QED
    BY <1>1, <2>1, EdgeExtends DEF Nodes
<1>9. CASE LoadGraph
  BY <1>1, <1>2, <1>9, SameExtends DEF GraphInv
<1>10. CASE ~LoadGraph
  BY <1>3, <1>4, <1>5, <1>6, <1>7, <1>8, <1>10 DEF GraphNext, GraphInv
<1> QED
  BY <1>9, <1>10

\* The tree of a session shows each session once, with all that is below it;
\* it loses none over results, resumes and restarts, and what was delegated to
\* or spawned never becomes a root (sessionGraph.ts, tree).
THEOREM TreesOnlyGrowHolds == GraphSpec => TreesOnlyGrow
<1>1. GraphInv /\ [GraphNext]_graphVars => GraphInv'
  <2> SUFFICES ASSUME GraphInv, [GraphNext]_graphVars PROVE GraphInv'
    OBVIOUS
  <2>1. CASE UNCHANGED graphVars
    BY <2>1 DEF graphVars, GraphInv
  <2> QED
    BY <2>1, GraphStep
<1>2. ASSUME GraphInv, [GraphNext]_graphVars
      PROVE  [\A r \in DOMAIN graph.nodes :
                LET tree == Tree(graph', r)
                IN  /\ ToSet(Tree(graph, r)) \subseteq ToSet(tree)
                    /\ Cardinality(ToSet(tree)) = Len(tree)
                    /\ \A s \in ToSet(tree) : ToSet(Children(graph', s)) \subseteq ToSet(tree)
                    /\ graph.nodes[r] # "root" => graph'.nodes[r] # "root"]_graphVars
  <2>1. CASE GraphNext
    <3>1. Known(graph) /\ Known(graph') /\ Extends(graph', graph)
      BY <1>2, <2>1, GraphStep DEF GraphInv
    <3>2. ASSUME NEW r \in DOMAIN graph.nodes
          PROVE  /\ ToSet(Tree(graph, r)) \subseteq ToSet(Tree(graph', r))
                 /\ Cardinality(ToSet(Tree(graph', r))) = Len(Tree(graph', r))
                 /\ \A s \in ToSet(Tree(graph', r)) :
                      ToSet(Children(graph', s)) \subseteq ToSet(Tree(graph', r))
                 /\ graph.nodes[r] # "root" => graph'.nodes[r] # "root"
      <4>1. r \in DOMAIN graph'.nodes /\ (graph.nodes[r] # "root" => graph'.nodes[r] # "root")
        BY <3>1 DEF Extends
      <4>2. ToSet(Tree(graph, r)) \subseteq ToSet(Tree(graph', r))
        BY <3>1, TreesExtend
      <4>3. /\ Cardinality(ToSet(Tree(graph', r))) = Len(Tree(graph', r))
            /\ Below(graph', ToSet(Tree(graph', r)))
        BY <3>1, <4>1, TreeGrows
      <4> QED
        BY <4>1, <4>2, <4>3 DEF Below
    <3> QED
      BY <3>2
  <2>2. CASE UNCHANGED graphVars
    BY <2>2
  <2> QED
    BY <1>2, <2>1, <2>2
<1> QED
  BY <1>1, <1>2, GraphInitial, PTL DEF GraphSpec, TreesOnlyGrow

-----------------------------------------------------------------------------
(***************************************************************************)
(* The diff of two texts, and the sum of blocks.                           *)
(***************************************************************************)

\* Of those that break a rule, one of least rank.
LEMMA LeastRank ==
  ASSUME NEW D, NEW rank \in [D -> Nat], NEW S \in SUBSET D, S # {}
  PROVE  \E x \in S : \A y \in S : rank[x] <= rank[y]
<1> DEFINE T == {rank[x] : x \in S}
<1>1. T \in SUBSET Nat /\ T # {}
  OBVIOUS
<1> HIDE DEF T
<1>2. PICK m \in T : \A n \in T : m <= n
  BY <1>1, LeastOne
<1>3. PICK x \in S : m = rank[x]
  BY DEF T
<1>4. ASSUME NEW y \in S
      PROVE  rank[x] <= rank[y]
  <2>1. rank[y] \in T
    BY DEF T
  <2> QED
    BY <1>2, <1>3, <2>1
<1> QED
  BY <1>4

\* A function that asks for up to three of its own values, all of lower rank,
\* and makes its value of them by F.
Descends(D, Done, rank, next) ==
  /\ Done \subseteq D /\ rank \in [D -> Nat]
  /\ \A x \in D \ Done : \A c \in 1..3 : next[x][c] \in D /\ rank[next[x][c]] < rank[x]

Makes(D, Done, A, out, F) ==
  F \in [D \X A \X A \X A -> A] /\ \A x \in Done : out[x] \in A

Asks(f, x, Done, next, out, F) ==
  IF x \in Done THEN out[x] ELSE F[<<x, f[next[x][1]], f[next[x][2]], f[next[x][3]]>>]

LEMMA Descent ==
  ASSUME NEW D, NEW Done, NEW rank, NEW next, Descends(D, Done, rank, next),
         NEW A, NEW out, NEW F, Makes(D, Done, A, out, F),
         NEW N \in Nat, \A x \in D : rank[x] <= N
  PROVE  \E f \in [D -> A] : \A x \in D : f[x] = Asks(f, x, Done, next, out, F)
<1> USE DEF Makes
<1> DEFINE Under(k) == {x \in D : rank[x] < k}
           Good(k) == \E f \in [Under(k) -> A] :
                        \A x \in Under(k) : f[x] = Asks(f, x, Done, next, out, F)
           Bad == {k \in Nat : ~Good(k)}
<1>1. Good(0)
  <2>1. Under(0) = {}
    BY DEF Descends
  <2>2. [x \in {} |-> x] \in [{} -> A]
    OBVIOUS
  <2> QED
    BY <2>1, <2>2
<1>2. ASSUME NEW k \in Nat, Good(k)
      PROVE  Good(k + 1)
  <2>1. PICK f \in [Under(k) -> A] : \A x \in Under(k) : f[x] = Asks(f, x, Done, next, out, F)
    BY <1>2
  <2> DEFINE g == [x \in Under(k + 1) |->
                     IF rank[x] < k THEN f[x] ELSE Asks(f, x, Done, next, out, F)]
  <2>2. ASSUME NEW x \in Under(k + 1)
        PROVE  g[x] = Asks(g, x, Done, next, out, F) /\ g[x] \in A
    <3>1. rank[x] \in Nat /\ x \in D /\ rank[x] < k + 1
      BY DEF Descends
    <3>2. g[x] = Asks(f, x, Done, next, out, F)
      <4>1. rank[x] < k => x \in Under(k)
        BY <3>1
      <4> QED
        BY <2>1, <4>1
    <3>3. CASE x \in Done
      BY <3>2, <3>3 DEF Asks
    <3>4. CASE x \notin Done
      <4>1. ASSUME NEW c \in 1..3
            PROVE  /\ next[x][c] \in Under(k) /\ next[x][c] \in Under(k + 1)
                   /\ rank[next[x][c]] < k
        <5>1. next[x][c] \in D /\ rank[next[x][c]] < rank[x] /\ rank[next[x][c]] \in Nat
          BY <3>1, <3>4 DEF Descends
        <5> QED
          BY <3>1, <5>1
      <4>2. \A c \in 1..3 : g[next[x][c]] = f[next[x][c]] /\ f[next[x][c]] \in A
        BY <4>1
      <4>3. /\ g[next[x][1]] = f[next[x][1]] /\ g[next[x][2]] = f[next[x][2]]
            /\ g[next[x][3]] = f[next[x][3]]
            /\ f[next[x][1]] \in A /\ f[next[x][2]] \in A /\ f[next[x][3]] \in A
        BY <4>2
      <4> HIDE DEF g
      <4>4. Asks(g, x, Done, next, out, F) = Asks(f, x, Done, next, out, F)
        BY <3>4, <4>3 DEF Asks
      <4>5. Asks(f, x, Done, next, out, F) \in A
        BY <3>1, <3>4, <4>3 DEF Asks
      <4> QED
        BY <3>2, <4>4, <4>5
    <3> QED
      BY <3>3, <3>4
  <2>3. g \in [Under(k + 1) -> A]
    BY <2>2
  <2> HIDE DEF g
  <2> QED
    BY <2>2, <2>3
<1> HIDE DEF Good
<1>3. Good(N + 1)
  <2> SUFFICES ASSUME ~Good(N + 1) PROVE FALSE
    OBVIOUS
  <2>1. Bad \in SUBSET Nat /\ N + 1 \in Bad
    OBVIOUS
  <2> HIDE DEF Bad
  <2>2. PICK m \in Bad : \A n \in Bad : m <= n
    BY <2>1, LeastOne
  <2>3. m \in Nat /\ ~Good(m)
    BY DEF Bad
  <2>4. m # 0 /\ m - 1 \in Nat
    BY <1>1, <2>3
  <2>5. m - 1 \notin Bad
    BY <2>2, <2>3, <2>4
  <2>6. Good(m - 1)
    BY <2>4, <2>5 DEF Bad
  <2>7. Good((m - 1) + 1)
    BY <1>2, <2>4, <2>6
  <2> QED
    BY <2>3, <2>7
<1>4. Under(N + 1) = D
  BY DEF Descends
<1> QED
  BY <1>3, <1>4 DEF Good

-----------------------------------------------------------------------------
\* Max of a set of numbers that has a largest one.
LEMMA MaxIsIn ==
  ASSUME NEW S, NEW m \in S, \A x \in S : x \in Int /\ m >= x
  PROVE  Max(S) = m
<1>1. \E x \in S : \A y \in S : x >= y
  OBVIOUS
<1>2. Max(S) \in S /\ \A y \in S : Max(S) >= y
  BY <1>1 DEF Max
<1> QED
  BY <1>2

LEMMA MaxOfTwo ==
  ASSUME NEW x \in Nat, NEW y \in Nat
  PROVE  Max({x, y}) = IF x >= y THEN x ELSE y
<1>1. CASE x >= y
  BY <1>1, MaxIsIn
<1>2. CASE ~(x >= y)
  BY <1>2, MaxIsIn
<1> QED
  BY <1>1, <1>2

\* The largest of a set of numbers below a bound.
LEMMA MaxBelow ==
  ASSUME NEW n \in Nat, NEW S \in SUBSET (0..n), S # {}
  PROVE  Max(S) \in S /\ \A x \in S : x <= Max(S)
<1> DEFINE T == {k \in Nat : n - k \in S}
<1>1. T \in SUBSET Nat /\ T # {}
  <2>1. PICK x \in S : TRUE
    OBVIOUS
  <2>2. n - x \in Nat /\ n - (n - x) = x
    OBVIOUS
  <2> QED
    BY <2>1, <2>2
<1>2. PICK k \in T : \A j \in T : k <= j
  <2> HIDE DEF T
  <2> QED
    BY <1>1, LeastOne
<1>3. ASSUME NEW x \in S
      PROVE  x <= n - k
  <2>1. n - x \in T
    <3>1. n - x \in Nat /\ n - (n - x) = x
      OBVIOUS
    <3> QED
      BY <3>1
  <2> QED
    BY <1>2, <2>1
<1>4. Max(S) = n - k
  <2>1. n - k \in S /\ \A x \in S : x \in Int /\ n - k >= x
    BY <1>2, <1>3
  <2> QED
    BY <2>1, MaxIsIn
<1> QED
  BY <1>2, <1>3, <1>4

Cells(a, b) == (1..Len(a) + 1) \X (1..Len(b) + 1)

\* How far a cell is from the end.
Ahead(a, b) == [p \in Cells(a, b) |-> (Len(a) + 1 - p[1]) + (Len(b) + 1 - p[2])]

LEMMA CellsAhead ==
  ASSUME NEW L, NEW a \in Seq(L), NEW b \in Seq(L)
  PROVE  /\ Len(a) \in Nat /\ Len(b) \in Nat
         /\ Ahead(a, b) \in [Cells(a, b) -> Nat]
         /\ \A p \in Cells(a, b) : Ahead(a, b)[p] <= Len(a) + Len(b)
         /\ \A p \in Cells(a, b) : p[1] <= Len(a) /\ p[2] <= Len(b) =>
              /\ a[p[1]] \in L /\ b[p[2]] \in L
              /\ \A q \in {<<p[1] + 1, p[2]>>, <<p[1], p[2] + 1>>, <<p[1] + 1, p[2] + 1>>} :
                   q \in Cells(a, b) /\ Ahead(a, b)[q] < Ahead(a, b)[p]
<1>1. Len(a) \in Nat /\ Len(b) \in Nat
  OBVIOUS
<1>2. ASSUME NEW p \in Cells(a, b)
      PROVE  /\ Ahead(a, b)[p] = (Len(a) + 1 - p[1]) + (Len(b) + 1 - p[2])
             /\ p[1] \in 1..(Len(a) + 1) /\ p[2] \in 1..(Len(b) + 1)
             /\ Ahead(a, b)[p] \in Nat /\ Ahead(a, b)[p] <= Len(a) + Len(b)
  <2>1. p[1] \in 1..(Len(a) + 1) /\ p[2] \in 1..(Len(b) + 1)
    BY DEF Cells
  <2>2. Ahead(a, b)[p] = (Len(a) + 1 - p[1]) + (Len(b) + 1 - p[2])
    BY DEF Ahead
  <2> QED
    BY <1>1, <2>1, <2>2
<1>3. DOMAIN Ahead(a, b) = Cells(a, b)
  BY DEF Ahead
<1>4. Ahead(a, b) \in [Cells(a, b) -> Nat]
  BY <1>2, <1>3 DEF Ahead
<1>5. ASSUME NEW p \in Cells(a, b), p[1] <= Len(a), p[2] <= Len(b),
             NEW q \in {<<p[1] + 1, p[2]>>, <<p[1], p[2] + 1>>, <<p[1] + 1, p[2] + 1>>}
      PROVE  q \in Cells(a, b) /\ Ahead(a, b)[q] < Ahead(a, b)[p]
  <2>1. p[1] \in 1..Len(a) /\ p[2] \in 1..Len(b)
    BY <1>1, <1>2, <1>5
  <2>2. q \in Cells(a, b)
    BY <1>1, <2>1 DEF Cells
  <2>3. q[1] + q[2] > p[1] + p[2]
    BY <2>1
  <2>4. Ahead(a, b)[q] = (Len(a) + 1 - q[1]) + (Len(b) + 1 - q[2])
    BY <1>2, <2>2
  <2>5. q[1] \in Int /\ q[2] \in Int
    BY <2>1
  <2>6. Ahead(a, b)[p] = (Len(a) + 1 - p[1]) + (Len(b) + 1 - p[2])
    BY <1>2
  <2> DEFINE s == q[1] + q[2]
             r == p[1] + p[2]
             n == Len(a) + Len(b) + 2
  <2>7. s \in Int /\ r \in Int /\ n \in Int
    BY <1>1, <2>1, <2>5
  <2>8. Ahead(a, b)[q] = n - s
    BY <1>1, <2>4, <2>5
  <2>9. Ahead(a, b)[p] = n - r
    BY <1>1, <2>1, <2>6
  <2>10. s > r
    BY <2>3
  <2> HIDE DEF s, r, n
  <2> QED
    BY <2>2, <2>7, <2>8, <2>9, <2>10
<1>6. ASSUME NEW p \in Cells(a, b), p[1] <= Len(a), p[2] <= Len(b)
      PROVE  a[p[1]] \in L /\ b[p[2]] \in L
  <2>1. p[1] \in 1..Len(a) /\ p[2] \in 1..Len(b)
    BY <1>1, <1>2, <1>6
  <2> QED
    BY <2>1
<1> QED
  BY <1>1, <1>2, <1>4, <1>5, <1>6

\* The table is filled in as its definition says.
FilledAt(t, a, b, p) ==
  t[p] = IF p[1] > Len(a) \/ p[2] > Len(b) THEN 0
         ELSE IF a[p[1]] = b[p[2]] THEN t[<<p[1] + 1, p[2] + 1>>] + 1
         ELSE Max({t[<<p[1] + 1, p[2]>>], t[<<p[1], p[2] + 1>>]})

LEMMA TableFilled ==
  ASSUME NEW L, NEW a \in Seq(L), NEW b \in Seq(L)
  PROVE  /\ Table(a, b) \in [Cells(a, b) -> Nat]
         /\ \A p \in Cells(a, b) : FilledAt(Table(a, b), a, b, p)
<1> DEFINE D == Cells(a, b)
           Done == {p \in D : p[1] > Len(a) \/ p[2] > Len(b)}
           next == [p \in D |-> <<<<p[1] + 1, p[2]>>, <<p[1], p[2] + 1>>, <<p[1] + 1, p[2] + 1>>>>]
           out == [p \in D |-> 0]
           F == [v \in D \X Nat \X Nat \X Nat |->
                   IF a[v[1][1]] = b[v[1][2]] THEN v[4] + 1 ELSE Max({v[2], v[3]})]
           Def(f) == [p \in D |->
                        IF p[1] > Len(a) \/ p[2] > Len(b) THEN 0
                        ELSE IF a[p[1]] = b[p[2]] THEN f[<<p[1] + 1, p[2] + 1>>] + 1
                        ELSE Max({f[<<p[1] + 1, p[2]>>], f[<<p[1], p[2] + 1>>]})]
<1>1. Descends(D, Done, Ahead(a, b), next)
  <2> SUFFICES ASSUME NEW p \in D \ Done, NEW c \in 1..3
               PROVE  next[p][c] \in D /\ Ahead(a, b)[next[p][c]] < Ahead(a, b)[p]
    BY CellsAhead DEF Descends
  <2>1. p[1] <= Len(a) /\ p[2] <= Len(b)
    <3>1. p[1] \in Nat /\ p[2] \in Nat /\ Len(a) \in Nat /\ Len(b) \in Nat
      BY CellsAhead DEF Cells
    <3> QED
      BY <3>1
  <2>2. next[p][c] \in {<<p[1] + 1, p[2]>>, <<p[1], p[2] + 1>>, <<p[1] + 1, p[2] + 1>>}
    OBVIOUS
  <2> QED
    BY <2>1, <2>2, CellsAhead
<1>2. F \in [D \X Nat \X Nat \X Nat -> Nat]
  <2>1. \A x, y \in Nat : Max({x, y}) \in Nat
    BY MaxOfTwo
  <2> QED
    BY <2>1
<1>3. \A p \in Done : out[p] \in Nat
  OBVIOUS
<1>4. Len(a) + Len(b) \in Nat /\ \A p \in D : Ahead(a, b)[p] <= Len(a) + Len(b)
  BY CellsAhead
<1> HIDE DEF F
<1>5. PICK f \in [D -> Nat] : \A p \in D : f[p] = Asks(f, p, Done, next, out, F)
  <2> DEFINE rank == Ahead(a, b)
             N == Len(a) + Len(b)
  <2>1. Descends(D, Done, rank, next) /\ N \in Nat /\ \A p \in D : rank[p] <= N
    BY <1>1, <1>4
  <2>2. Makes(D, Done, Nat, out, F)
    BY <1>2, <1>3 DEF Makes
  <2> HIDE DEF D, Done, next, out, rank, N
  <2> QED
    BY <2>1, <2>2, Descent
<1>6. ASSUME NEW p \in D
      PROVE  f[p] = Def(f)[p]
  <2>1. CASE p \in Done
    BY <1>5, <2>1 DEF Asks
  <2>2. CASE p \notin Done
    <3>1. next[p] = <<<<p[1] + 1, p[2]>>, <<p[1], p[2] + 1>>, <<p[1] + 1, p[2] + 1>>>>
      OBVIOUS
    <3>2. next[p][1] \in D /\ next[p][2] \in D /\ next[p][3] \in D
      <4> HIDE DEF D, Done, next
      <4> QED
        BY <1>1, <2>2 DEF Descends
    <3>3. f[next[p][1]] \in Nat /\ f[next[p][2]] \in Nat /\ f[next[p][3]] \in Nat
      BY <3>2
    <3>4. f[p] = F[<<p, f[next[p][1]], f[next[p][2]], f[next[p][3]]>>]
      BY <1>5, <2>2 DEF Asks
    <3>5. F[<<p, f[next[p][1]], f[next[p][2]], f[next[p][3]]>>]
            = IF a[p[1]] = b[p[2]] THEN f[next[p][3]] + 1
              ELSE Max({f[next[p][1]], f[next[p][2]]})
      BY <3>3 DEF F
    <3> QED
      BY <2>2, <3>1, <3>4, <3>5
  <2> QED
    BY <2>1, <2>2
<1>7. f = Def(f)
  <2>1. f = [p \in D |-> f[p]]
    OBVIOUS
  <2> QED
    BY <1>6, <2>1
<1>8. Table(a, b) = CHOOSE t : t = Def(t)
  BY DEF Table, Cells
<1>9. Table(a, b) = Def(Table(a, b))
  <2> HIDE DEF Def
  <2> QED
    BY <1>7, <1>8
<1> DEFINE t == Table(a, b)
<1>10. t = Def(t)
  BY <1>9
<1> HIDE DEF t
<1>11. \A p \in D : t[p] = Def(t)[p]
  BY <1>10
<1>12. ASSUME NEW p \in D
       PROVE  t[p] \in Nat
  <2> DEFINE Bad == {q \in D : t[q] \notin Nat}
  <2> SUFFICES ASSUME Bad # {} PROVE FALSE
    OBVIOUS
  <2>1. Bad \in SUBSET D /\ Ahead(a, b) \in [D -> Nat]
    BY CellsAhead
  <2>2. PICK q \in Bad : \A r \in Bad : Ahead(a, b)[q] <= Ahead(a, b)[r]
    <3> HIDE DEF Bad, D
    <3> QED
      BY <2>1, LeastRank
  <2>3. q \in D /\ t[q] = Def(t)[q]
    BY <1>11
  <2>4. CASE q \in Done
    BY <2>2, <2>3, <2>4
  <2>5. CASE q \notin Done
    <3>1. \A c \in 1..3 : next[q][c] \in D /\ Ahead(a, b)[next[q][c]] < Ahead(a, b)[q]
      BY <1>1, <2>3, <2>5 DEF Descends
    <3>2. \A c \in 1..3 : next[q][c] \notin Bad
      <4> HIDE DEF next, Bad, D
      <4> SUFFICES ASSUME NEW c \in 1..3, next[q][c] \in Bad PROVE FALSE
        OBVIOUS
      <4>1. Ahead(a, b)[q] <= Ahead(a, b)[next[q][c]]
        BY <2>2
      <4>2. Ahead(a, b)[q] \in Nat /\ Ahead(a, b)[next[q][c]] \in Nat
        BY <2>1, <2>3, <3>1
      <4> QED
        BY <3>1, <4>1, <4>2
    <3>3. \A c \in 1..3 : t[next[q][c]] \in Nat
      BY <3>1, <3>2
    <3>4. /\ t[<<q[1] + 1, q[2]>>] \in Nat /\ t[<<q[1], q[2] + 1>>] \in Nat
          /\ t[<<q[1] + 1, q[2] + 1>>] \in Nat
      BY <2>3, <3>3
    <3>5. t[q] \in Nat
      <4>1. Max({t[<<q[1] + 1, q[2]>>], t[<<q[1], q[2] + 1>>]}) \in Nat
        BY <3>4, MaxOfTwo
      <4> QED
        BY <2>3, <2>5, <3>4, <4>1
    <3> QED
      BY <2>2, <3>5
  <2> QED
    BY <2>4, <2>5
<1>13. DOMAIN t = D
  BY <1>10
<1>14. t \in [D -> Nat]
  <2>1. t = [p \in D |-> t[p]]
    BY <1>10
  <2> QED
    BY <1>12, <2>1
<1>15. \A p \in D : FilledAt(t, a, b, p)
  BY <1>11 DEF FilledAt
<1> QED
  BY <1>14, <1>15 DEF t

-----------------------------------------------------------------------------
OpOf(L) == [kind : {"same", "add", "del"}, line : L]

LEMMA ShiftCounts ==
  ASSUME NEW n \in Nat, NEW S \in SUBSET Nat, IsFiniteSet(S)
  PROVE  /\ IsFiniteSet({n + j : j \in S}) /\ Cardinality({n + j : j \in S}) = Cardinality(S)
<1> DEFINE T == {n + j : j \in S}
           f == [j \in S |-> n + j]
<1>1. f \in Bijection(S, T)
  <2>1. f \in [S -> T] /\ \A t \in T : \E j \in S : f[j] = t
    OBVIOUS
  <2>2. \A i, j \in S : f[i] = f[j] => i = j
    OBVIOUS
  <2> HIDE DEF f, T
  <2> QED
    BY <2>1, <2>2 DEF Bijection, Injection, Surjection, IsInjective
<1> HIDE DEF f, T
<1>2. IsFiniteSet(T) /\ Cardinality(T) = Cardinality(S)
  <2>1. ExistsBijection(S, T)
    BY <1>1 DEF ExistsBijection
  <2> QED
    BY <2>1, FS_Bijection
<1> QED
  BY <1>2 DEF T

\* Places of a sequence.
LEMMA PlacesOf ==
  ASSUME NEW A, NEW x \in Seq(A), NEW ks
  PROVE  /\ OfKind(x, ks) \subseteq 1..Len(x) /\ Len(x) \in Nat
         /\ IsFiniteSet(OfKind(x, ks)) /\ Cardinality(OfKind(x, ks)) \in Nat
<1>1. Len(x) \in Nat /\ OfKind(x, ks) \subseteq 1..Len(x)
  BY DEF OfKind
<1>2. IsFiniteSet(1..Len(x))
  BY <1>1, FS_Interval
<1> QED
  BY <1>1, <1>2, FS_Subset, FS_CardinalityType

LEMMA PlacesConcat ==
  ASSUME NEW A, NEW x \in Seq(A), NEW y \in Seq(A), NEW ks
  PROVE  /\ x \o y \in Seq(A)
         /\ OfKind(x \o y, ks) = OfKind(x, ks) \cup {Len(x) + j : j \in OfKind(y, ks)}
         /\ Cardinality(OfKind(x \o y, ks))
              = Cardinality(OfKind(x, ks)) + Cardinality(OfKind(y, ks))
<1> DEFINE at == OfKind(x, ks)
           bt == OfKind(y, ks)
           sh == {Len(x) + j : j \in bt}
           n == Len(x)
           r == x \o y
<1>1. /\ n \in Nat /\ Len(y) \in Nat /\ r \in Seq(A) /\ DOMAIN r = 1..(n + Len(y))
      /\ DOMAIN x = 1..n /\ DOMAIN y = 1..Len(y)
      /\ \A i \in 1..n : r[i] = x[i]
      /\ \A i \in 1..Len(y) : r[n + i] = y[i]
  OBVIOUS
<1> HIDE DEF n, r
<1>2. ASSUME NEW i \in DOMAIN r
      PROVE  r[i].kind \in ks <=> i \in at \cup sh
  <2>1. CASE i <= n
    <3>1. i \in 1..n /\ i \notin sh
      BY <1>1, <2>1 DEF OfKind, n
    <3> QED
      BY <1>1, <3>1 DEF OfKind
  <2>2. CASE i > n
    <3>1. i - n \in 1..Len(y) /\ n + (i - n) = i /\ i \notin at
      BY <1>1, <2>2 DEF OfKind
    <3>2. r[i] = y[i - n]
      BY <1>1, <3>1
    <3>3. i \in sh <=> i - n \in bt
      <4>1. \A j \in bt : j \in Nat /\ (n + j = i => j = i - n)
        BY <1>1, <3>1 DEF OfKind
      <4> QED
        BY <3>1, <4>1 DEF n
    <3> QED
      BY <1>1, <3>1, <3>2, <3>3 DEF OfKind
  <2> QED
    BY <1>1, <2>1, <2>2
<1>3. at \cup sh \subseteq DOMAIN r
  BY <1>1 DEF OfKind, n
<1>4. OfKind(r, ks) = at \cup sh
  BY <1>2, <1>3 DEF OfKind
<1>5. at \cap sh = {}
  BY <1>1 DEF OfKind, n
<1>6. /\ IsFiniteSet(at) /\ IsFiniteSet(bt) /\ bt \subseteq Nat
      /\ Cardinality(at) \in Nat /\ Cardinality(bt) \in Nat
  BY PlacesOf
<1>7. IsFiniteSet(sh) /\ Cardinality(sh) = Cardinality(bt)
  <2> HIDE DEF bt
  <2> QED
    BY <1>1, <1>6, ShiftCounts DEF n
<1>8. Cardinality(at \cup sh) = Cardinality(at) + Cardinality(bt)
  <2> HIDE DEF at, sh, bt
  <2>1. Cardinality(at \cup sh) = Cardinality(at) + Cardinality(sh) - Cardinality(at \cap sh)
    BY <1>6, <1>7, FS_Union
  <2>2. Cardinality(at \cap sh) = 0
    BY <1>5, FS_EmptySet
  <2> QED
    BY <1>6, <1>7, <2>1, <2>2
<1> QED
  BY <1>1, <1>4, <1>8 DEF r

\* What is spelt by two lists, one after the other.
LEMMA SpellsConcat ==
  ASSUME NEW L, NEW A, NEW x \in Seq(A), NEW y \in Seq(A), NEW ks,
         NEW s \in Seq(L), NEW t \in Seq(L), Spells(x, ks, s), Spells(y, ks, t)
  PROVE  Spells(x \o y, ks, s \o t)
<1> DEFINE at == OfKind(x, ks)
           bt == OfKind(y, ks)
           n == Len(x)
           r == x \o y
           ct == OfKind(r, ks)
           u == s \o t
<1>1. /\ n \in Nat /\ Len(y) \in Nat /\ r \in Seq(A)
      /\ \A i \in 1..n : r[i] = x[i]
      /\ \A i \in 1..Len(y) : r[n + i] = y[i]
      /\ Len(s) \in Nat /\ Len(t) \in Nat /\ u \in Seq(L) /\ Len(u) = Len(s) + Len(t)
      /\ \A i \in 1..Len(s) : u[i] = s[i]
      /\ \A i \in 1..Len(t) : u[Len(s) + i] = t[i]
  OBVIOUS
<1>2. /\ at \subseteq 1..n /\ IsFiniteSet(at) /\ Cardinality(at) = Len(s)
      /\ bt \subseteq 1..Len(y) /\ IsFiniteSet(bt) /\ Cardinality(bt) = Len(t)
  BY PlacesOf DEF Spells
<1>3. ct = at \cup {n + j : j \in bt} /\ Cardinality(ct) = Len(u)
  <2>1. /\ ct = at \cup {n + j : j \in bt}
        /\ Cardinality(ct) = Cardinality(at) + Cardinality(bt)
    BY PlacesConcat
  <2> QED
    BY <1>1, <1>2, <2>1
<1>4. /\ \A i \in at : x[i].line = s[Cardinality({j \in at : j <= i})]
      /\ \A i \in bt : y[i].line = t[Cardinality({j \in bt : j <= i})]
  BY DEF Spells
<1> HIDE DEF at, bt, ct, n, r, u
<1>5. ASSUME NEW i \in at
      PROVE  r[i].line = u[Cardinality({j \in ct : j <= i})]
  <2>1. {j \in ct : j <= i} = {j \in at : j <= i}
    BY <1>1, <1>2, <1>3
  <2>2. Cardinality({j \in at : j <= i}) \in 1..Len(s)
    <3> DEFINE z == {j \in at : j <= i}
    <3>1. z \in SUBSET at /\ i \in z
      BY <1>1, <1>2
    <3> HIDE DEF z
    <3>2. IsFiniteSet(z) /\ Cardinality(z) <= Cardinality(at)
      BY <1>2, <3>1, FS_Subset
    <3>3. Cardinality(z) \in Nat /\ Cardinality(z) # 0
      BY <3>1, <3>2, FS_CardinalityType, FS_EmptySet
    <3> QED
      BY <1>1, <1>2, <3>2, <3>3 DEF z
  <2>3. r[i] = x[i]
    BY <1>1, <1>2
  <2> QED
    BY <1>1, <1>4, <2>1, <2>2, <2>3
<1>6. ASSUME NEW k \in bt
      PROVE  r[n + k].line = u[Cardinality({j \in ct : j <= n + k})]
  <2> DEFINE z == {j \in bt : j <= k}
             zs == {n + j : j \in z}
  <2>1. {j \in ct : j <= n + k} = at \cup zs
    <3>1. \A j \in bt : n + j <= n + k <=> j <= k
      BY <1>1, <1>2
    <3>2. \A j \in at : j <= n + k
      BY <1>1, <1>2
    <3> QED
      BY <1>3, <3>1, <3>2
  <2>2. z \in SUBSET bt /\ k \in z /\ z \in SUBSET Nat
    <3>1. bt \subseteq Nat /\ k \in Nat /\ k <= k
      BY <1>1, <1>2
    <3>2. z \in SUBSET bt /\ k \in z
      BY <3>1
    <3> HIDE DEF z
    <3> QED
      BY <3>1, <3>2
  <2>3. at \cap zs = {}
    BY <1>1, <1>2
  <2> HIDE DEF z
  <2>4. IsFiniteSet(z) /\ Cardinality(z) <= Cardinality(bt)
    BY <1>2, <2>2, FS_Subset
  <2>5. Cardinality(z) \in Nat /\ Cardinality(z) # 0
    BY <2>2, <2>4, FS_CardinalityType, FS_EmptySet
  <2>6. Cardinality(z) \in 1..Len(t)
    BY <1>1, <1>2, <2>4, <2>5
  <2>7. IsFiniteSet(zs) /\ Cardinality(zs) = Cardinality(z)
    BY <1>1, <2>2, <2>4, ShiftCounts
  <2> HIDE DEF zs
  <2>8. Cardinality(at \cup zs) = Len(s) + Cardinality(z)
    <3>1. Cardinality(at \cup zs) = Cardinality(at) + Cardinality(zs) - Cardinality(at \cap zs)
      BY <1>2, <2>7, FS_Union
    <3>2. Cardinality(at \cap zs) = 0
      BY <2>3, FS_EmptySet
    <3> QED
      BY <1>1, <1>2, <2>5, <2>7, <3>1, <3>2
  <2>9. u[Len(s) + Cardinality(z)] = t[Cardinality(z)]
    BY <1>1, <2>6
  <2>10. r[n + k] = y[k]
    BY <1>1, <1>2
  <2>11. y[k].line = t[Cardinality(z)]
    BY <1>4 DEF z
  <2> QED
    BY <2>1, <2>8, <2>9, <2>10, <2>11
<1>7. \A i \in ct : r[i].line = u[Cardinality({j \in ct : j <= i})]
  <2> SUFFICES ASSUME NEW i \in ct
               PROVE  r[i].line = u[Cardinality({j \in ct : j <= i})]
    OBVIOUS
  <2>1. CASE i \in at
    BY <1>5, <2>1
  <2>2. CASE i \notin at
    <3>1. PICK k \in bt : i = n + k
      BY <1>3, <2>2
    <3> QED
      BY <1>6, <3>1
  <2> QED
    BY <2>1, <2>2
<1> QED
  BY <1>3, <1>7 DEF Spells, ct, r, u

\* What is spelt by a text that is kept, added or deleted as a whole.
LEMMA OpSpells ==
  ASSUME NEW L, NEW list \in Seq(L), NEW k \in {"same", "add", "del"}, NEW ks
  PROVE  /\ Op(k, list) \in Seq(OpOf(L)) /\ Len(Op(k, list)) = Len(list)
         /\ k \in ks => /\ Spells(Op(k, list), ks, list)
                        /\ Cardinality(OfKind(Op(k, list), ks)) = Len(list)
         /\ k \notin ks => /\ Spells(Op(k, list), ks, << >>)
                           /\ Cardinality(OfKind(Op(k, list), ks)) = 0
<1> DEFINE n == Len(list)
           r == Op(k, list)
<1>1. /\ n \in Nat /\ DOMAIN list = 1..n /\ r \in [1..n -> OpOf(L)]
      /\ \A i \in 1..n : r[i].kind = k /\ r[i].line = list[i]
  BY DEF Op, OpOf
<1> HIDE DEF n, r
<1>2. r \in Seq(OpOf(L)) /\ Len(r) = n /\ DOMAIN r = 1..n
  BY <1>1
<1>3. ASSUME k \in ks
      PROVE  Spells(r, ks, list) /\ Cardinality(OfKind(r, ks)) = n
  <2>1. OfKind(r, ks) = 1..n
    BY <1>1, <1>2, <1>3 DEF OfKind
  <2>2. Cardinality(1..n) = n
    <3>1. n \in Int /\ 1 \in Int /\ (IF 1 > n THEN 0 ELSE n - 1 + 1) = n
      BY <1>1
    <3>2. Cardinality(1..n) = IF 1 > n THEN 0 ELSE n - 1 + 1
      BY ONLY <3>1, FS_Interval
    <3> QED
      BY <3>1, <3>2
  <2>3. \A i \in 1..n : {j \in 1..n : j <= i} = 1..i /\ Cardinality(1..i) = i
    <3> SUFFICES ASSUME NEW i \in 1..n
                 PROVE  {j \in 1..n : j <= i} = 1..i /\ Cardinality(1..i) = i
      OBVIOUS
    <3>1. {j \in 1..n : j <= i} = 1..i /\ i \in Int /\ 1 <= i
      BY <1>1
    <3>2. Cardinality(1..i) = i - 1 + 1
      BY <3>1, FS_Interval
    <3> QED
      BY <3>1, <3>2
  <2>4. \A i \in 1..n : r[i].line = list[Cardinality({j \in 1..n : j <= i})]
    BY <1>1, <2>3
  <2> QED
    BY <2>1, <2>2, <2>4 DEF Spells, n
<1>4. ASSUME k \notin ks
      PROVE  Spells(r, ks, << >>) /\ Cardinality(OfKind(r, ks)) = 0
  <2>1. OfKind(r, ks) = {}
    BY <1>1, <1>2, <1>4 DEF OfKind
  <2>2. Cardinality({}) = 0
    BY FS_EmptySet
  <2> QED
    BY <2>1, <2>2 DEF Spells
<1> QED
  BY <1>2, <1>3, <1>4 DEF n, r

-----------------------------------------------------------------------------
LEMMA SuffixOf ==
  ASSUME NEW L, NEW a \in Seq(L)
  PROVE  /\ \A i \in 1..(Len(a) + 1) : /\ SubSeq(a, i, Len(a)) \in Seq(L)
                                       /\ Len(SubSeq(a, i, Len(a))) = Len(a) + 1 - i
         /\ \A i \in 1..Len(a) :
              SubSeq(a, i, Len(a)) = <<a[i]>> \o SubSeq(a, i + 1, Len(a)) /\ <<a[i]>> \in Seq(L)
         /\ SubSeq(a, Len(a) + 1, Len(a)) = << >> /\ SubSeq(a, 1, Len(a)) = a
<1>1. Len(a) \in Nat
  OBVIOUS
<1>2. ASSUME NEW i \in 1..(Len(a) + 1)
      PROVE  /\ SubSeq(a, i, Len(a)) \in Seq(L)
             /\ Len(SubSeq(a, i, Len(a))) = Len(a) + 1 - i
             /\ \A k \in 1..(Len(a) + 1 - i) : SubSeq(a, i, Len(a))[k] = a[i + k - 1]
  <2>1. \A k \in i..Len(a) : a[k] \in L
    BY <1>1
  <2>2. SubSeq(a, i, Len(a)) \in Seq(L)
    BY <1>1, <2>1
  <2> QED
    BY <1>1, <2>2
<1>3. ASSUME NEW i \in 1..Len(a)
      PROVE  SubSeq(a, i, Len(a)) = <<a[i]>> \o SubSeq(a, i + 1, Len(a)) /\ <<a[i]>> \in Seq(L)
  <2> DEFINE s == SubSeq(a, i, Len(a))
             r == SubSeq(a, i + 1, Len(a))
             t == <<a[i]>> \o r
  <2>1. i \in 1..(Len(a) + 1) /\ i + 1 \in 1..(Len(a) + 1) /\ <<a[i]>> \in Seq(L)
    BY <1>1
  <2>2. /\ s \in Seq(L) /\ Len(s) = Len(a) + 1 - i
        /\ \A k \in 1..(Len(a) + 1 - i) : s[k] = a[i + k - 1]
    BY <1>2, <2>1
  <2>3. /\ r \in Seq(L) /\ Len(r) = Len(a) + 1 - (i + 1)
        /\ \A k \in 1..(Len(a) + 1 - (i + 1)) : r[k] = a[(i + 1) + k - 1]
    BY <1>2, <2>1
  <2> HIDE DEF s, r
  <2>4. t \in Seq(L) /\ Len(t) = 1 + Len(r) /\ t[1] = a[i]
        /\ \A k \in 1..Len(r) : t[1 + k] = r[k]
    BY <2>1, <2>3
  <2> HIDE DEF t
  <2>5. Len(s) = Len(t) /\ Len(s) \in Nat
    BY <1>1, <2>2, <2>3, <2>4
  <2>6. ASSUME NEW k \in 1..Len(s)
        PROVE  s[k] = t[k]
    <3>1. CASE k = 1
      BY <1>1, <2>2, <2>4, <3>1
    <3>2. CASE k # 1
      <4>1. k - 1 \in 1..Len(r) /\ 1 + (k - 1) = k /\ (i + 1) + (k - 1) - 1 = i + k - 1
        BY <1>1, <2>2, <2>3, <3>2
      <4> QED
        BY <2>2, <2>3, <2>4, <4>1
    <3> QED
      BY <3>1, <3>2
  <2>7. s = t
    <3>1. s \in Seq(L) /\ t \in Seq(L)
      BY <2>2, <2>4
    <3> HIDE DEF s
    <3> QED
      BY <2>5, <2>6, <3>1
  <2> QED
    BY <2>1, <2>7 DEF s, t, r
<1>4. SubSeq(a, Len(a) + 1, Len(a)) = << >> /\ SubSeq(a, 1, Len(a)) = a
  OBVIOUS
<1>5. \A i \in 1..(Len(a) + 1) : /\ SubSeq(a, i, Len(a)) \in Seq(L)
                                 /\ Len(SubSeq(a, i, Len(a))) = Len(a) + 1 - i
  BY <1>2
<1> QED
  BY <1>3, <1>4, <1>5

\* The walk goes as its definition says.
GoesAt(w, t, a, b, p) ==
  w[p] = IF p[1] > Len(a) THEN Op("add", SubSeq(b, p[2], Len(b)))
         ELSE IF p[2] > Len(b) THEN Op("del", SubSeq(a, p[1], Len(a)))
         ELSE IF a[p[1]] = b[p[2]] THEN Op("same", <<a[p[1]]>>) \o w[<<p[1] + 1, p[2] + 1>>]
         ELSE IF t[<<p[1] + 1, p[2]>>] >= t[<<p[1], p[2] + 1>>]
         THEN Op("del", <<a[p[1]]>>) \o w[<<p[1] + 1, p[2]>>]
         ELSE Op("add", <<b[p[2]]>>) \o w[<<p[1], p[2] + 1>>]

LEMMA WalkGoes ==
  ASSUME NEW L, NEW a \in Seq(L), NEW b \in Seq(L), NEW p \in Cells(a, b)
  PROVE  GoesAt(Walk(a, b), Table(a, b), a, b, p)
<1> DEFINE D == Cells(a, b)
           A == Seq(OpOf(L))
           t == Table(a, b)
           Done == {q \in D : q[1] > Len(a) \/ q[2] > Len(b)}
           next == [q \in D |-> <<<<q[1] + 1, q[2]>>, <<q[1], q[2] + 1>>, <<q[1] + 1, q[2] + 1>>>>]
           out == [q \in D |-> IF q[1] > Len(a) THEN Op("add", SubSeq(b, q[2], Len(b)))
                                                ELSE Op("del", SubSeq(a, q[1], Len(a)))]
           Longer(q, u, v, w) ==
             IF a[q[1]] = b[q[2]] THEN Op("same", <<a[q[1]]>>) \o w
             ELSE IF t[<<q[1] + 1, q[2]>>] >= t[<<q[1], q[2] + 1>>]
             THEN Op("del", <<a[q[1]]>>) \o u ELSE Op("add", <<b[q[2]]>>) \o v
           F == [z \in D \X A \X A \X A |->
                   IF z[1] \in Done THEN z[2] ELSE Longer(z[1], z[2], z[3], z[4])]
           Def(f) == [q \in D |->
             IF q[1] > Len(a) THEN Op("add", SubSeq(b, q[2], Len(b)))
             ELSE IF q[2] > Len(b) THEN Op("del", SubSeq(a, q[1], Len(a)))
             ELSE IF a[q[1]] = b[q[2]] THEN Op("same", <<a[q[1]]>>) \o f[<<q[1] + 1, q[2] + 1>>]
             ELSE IF t[<<q[1] + 1, q[2]>>] >= t[<<q[1], q[2] + 1>>]
             THEN Op("del", <<a[q[1]]>>) \o f[<<q[1] + 1, q[2]>>]
             ELSE Op("add", <<b[q[2]]>>) \o f[<<q[1], q[2] + 1>>]]
<1> HIDE DEF t
<1>1. Descends(D, Done, Ahead(a, b), next)
  <2> SUFFICES ASSUME NEW q \in D \ Done, NEW c \in 1..3
               PROVE  next[q][c] \in D /\ Ahead(a, b)[next[q][c]] < Ahead(a, b)[q]
    BY CellsAhead DEF Descends
  <2>1. q[1] <= Len(a) /\ q[2] <= Len(b)
    <3>1. q[1] \in Nat /\ q[2] \in Nat /\ Len(a) \in Nat /\ Len(b) \in Nat
      BY CellsAhead DEF Cells
    <3> QED
      BY <3>1
  <2>2. next[q][c] \in {<<q[1] + 1, q[2]>>, <<q[1], q[2] + 1>>, <<q[1] + 1, q[2] + 1>>}
    OBVIOUS
  <2> QED
    BY <2>1, <2>2, CellsAhead
<1>2. ASSUME NEW q \in D \ Done, NEW u \in A, NEW v \in A, NEW w \in A
      PROVE  Longer(q, u, v, w) \in A
  <2>1. a[q[1]] \in L /\ b[q[2]] \in L
    <3>1. q[1] \in Nat /\ q[2] \in Nat /\ Len(a) \in Nat /\ Len(b) \in Nat
      BY CellsAhead DEF Cells
    <3>2. q[1] <= Len(a) /\ q[2] <= Len(b)
      BY <3>1
    <3> QED
      BY <3>2, CellsAhead
  <2>2. <<a[q[1]]>> \in Seq(L) /\ <<b[q[2]]>> \in Seq(L)
    BY <2>1
  <2>3. /\ Op("same", <<a[q[1]]>>) \in A /\ Op("del", <<a[q[1]]>>) \in A
        /\ Op("add", <<b[q[2]]>>) \in A
    BY <2>2, OpSpells
  <2>4. \A x, y \in A : x \o y \in A
    OBVIOUS
  <2> HIDE DEF A
  <2> QED
    BY <2>3, <2>4
<1>3. Makes(D, Done, A, out, F)
  <2>1. ASSUME NEW q \in Done
        PROVE  out[q] \in A
    <3>1. q[1] \in 1..(Len(a) + 1) /\ q[2] \in 1..(Len(b) + 1) /\ q \in D
      BY DEF Cells
    <3>2. SubSeq(a, q[1], Len(a)) \in Seq(L) /\ SubSeq(b, q[2], Len(b)) \in Seq(L)
      BY <3>1, SuffixOf
    <3>3. Op("add", SubSeq(b, q[2], Len(b))) \in A /\ Op("del", SubSeq(a, q[1], Len(a))) \in A
      BY <3>2, OpSpells
    <3> QED
      BY <3>1, <3>3
  <2>2. F \in [D \X A \X A \X A -> A]
    <3> HIDE DEF D, A, Done, Longer
    <3> QED
      BY <1>2
  <2> QED
    BY <2>1, <2>2 DEF Makes
<1>4. PICK f \in [D -> A] : \A q \in D : f[q] = Asks(f, q, Done, next, out, F)
  <2> DEFINE rank == Ahead(a, b)
             N == Len(a) + Len(b)
  <2>1. N \in Nat /\ \A q \in D : rank[q] <= N
    BY CellsAhead
  <2>2. Descends(D, Done, rank, next)
    BY <1>1
  <2> HIDE DEF D, Done, next, out, rank, N, F, A
  <2> QED
    BY <1>3, <2>1, <2>2, Descent
<1>5. ASSUME NEW q \in D
      PROVE  f[q] = Def(f)[q]
  <2>1. CASE q \in Done
    <3>1. f[q] = out[q]
      BY <1>4, <2>1 DEF Asks
    <3>2. q[1] \in Nat /\ q[2] \in Nat /\ Len(a) \in Nat /\ Len(b) \in Nat
      BY CellsAhead DEF Cells
    <3> QED
      BY <2>1, <3>1, <3>2
  <2>2. CASE q \notin Done
    <3>1. next[q] = <<<<q[1] + 1, q[2]>>, <<q[1], q[2] + 1>>, <<q[1] + 1, q[2] + 1>>>>
      OBVIOUS
    <3>2. next[q][1] \in D /\ next[q][2] \in D /\ next[q][3] \in D
      <4> HIDE DEF D, Done, next
      <4> QED
        BY <1>1, <2>2 DEF Descends
    <3>3. f[next[q][1]] \in A /\ f[next[q][2]] \in A /\ f[next[q][3]] \in A
      <4> HIDE DEF A, D, next
      <4> QED
        BY <3>2
    <3>4. f[q] = F[<<q, f[next[q][1]], f[next[q][2]], f[next[q][3]]>>]
      <4> HIDE DEF A, D, next, F, out, Done
      <4> QED
        BY <1>4, <2>2 DEF Asks
    <3>5. F[<<q, f[next[q][1]], f[next[q][2]], f[next[q][3]]>>]
            = Longer(q, f[next[q][1]], f[next[q][2]], f[next[q][3]])
      <4> HIDE DEF A, D, Done, next, Longer
      <4> QED
        BY <2>2, <3>3
    <3>6. f[q] = Longer(q, f[<<q[1] + 1, q[2]>>], f[<<q[1], q[2] + 1>>], f[<<q[1] + 1, q[2] + 1>>])
      <4> HIDE DEF F, next, Longer
      <4> QED
        BY <3>1, <3>4, <3>5
    <3> QED
      BY <2>2, <3>6
  <2> QED
    BY <2>1, <2>2
<1>6. f = Def(f)
  <2>1. f = [q \in D |-> f[q]]
    OBVIOUS
  <2> QED
    BY <1>5, <2>1
<1>7. Walk(a, b) = CHOOSE w : w = Def(w)
  BY DEF Walk, Cells, t
<1>8. Walk(a, b) = Def(Walk(a, b))
  <2> HIDE DEF Def
  <2> QED
    BY <1>6, <1>7
<1>9. Walk(a, b)[p] = Def(Walk(a, b))[p]
  BY <1>8
<1> QED
  BY <1>9 DEF t, GoesAt

\* What a list of operations makes of the rest of two texts.
WalkRight(L, a, b, p, w) ==
  /\ w \in Seq(OpOf(L))
  /\ Spells(w, {"same", "del"}, SubSeq(a, p[1], Len(a)))
  /\ Spells(w, {"same", "add"}, SubSeq(b, p[2], Len(b)))
  /\ Cardinality(OfKind(w, {"same"})) = Table(a, b)[p]

\* One more operation in front.
LEMMA OpInFront ==
  ASSUME NEW L, NEW s \in Seq(L), NEW t \in Seq(L), NEW w \in Seq(OpOf(L)),
         Spells(w, {"same", "del"}, s), Spells(w, {"same", "add"}, t), NEW x \in L
  PROVE  LET same == Op("same", <<x>>) \o w
             del  == Op("del", <<x>>) \o w
             add  == Op("add", <<x>>) \o w
             kept(r) == Cardinality(OfKind(r, {"same"}))
         IN  /\ {same, del, add} \subseteq Seq(OpOf(L))
             /\ Spells(same, {"same", "del"}, <<x>> \o s)
             /\ Spells(same, {"same", "add"}, <<x>> \o t) /\ kept(same) = kept(w) + 1
             /\ Spells(del, {"same", "del"}, <<x>> \o s)
             /\ Spells(del, {"same", "add"}, t) /\ kept(del) = kept(w)
             /\ Spells(add, {"same", "del"}, s)
             /\ Spells(add, {"same", "add"}, <<x>> \o t) /\ kept(add) = kept(w)
<1> DEFINE A == OpOf(L)
           was == {"same", "del"}
           now == {"same", "add"}
           both == {"same"}
<1>1. /\ <<x>> \in Seq(L) /\ << >> \in Seq(L) /\ Len(<<x>>) = 1
      /\ << >> \o s = s /\ << >> \o t = t
  OBVIOUS
<1>2. /\ Op("same", <<x>>) \in Seq(A) /\ Op("del", <<x>>) \in Seq(A) /\ Op("add", <<x>>) \in Seq(A)
      /\ Spells(Op("same", <<x>>), was, <<x>>) /\ Spells(Op("same", <<x>>), now, <<x>>)
      /\ Spells(Op("del", <<x>>), was, <<x>>) /\ Spells(Op("del", <<x>>), now, << >>)
      /\ Spells(Op("add", <<x>>), was, << >>) /\ Spells(Op("add", <<x>>), now, <<x>>)
      /\ Cardinality(OfKind(Op("same", <<x>>), both)) = 1
      /\ Cardinality(OfKind(Op("del", <<x>>), both)) = 0
      /\ Cardinality(OfKind(Op("add", <<x>>), both)) = 0
  BY <1>1, OpSpells
<1>3. Cardinality(OfKind(w, both)) \in Nat
  BY PlacesOf
<1> DEFINE same == Op("same", <<x>>)
           del  == Op("del", <<x>>)
           add  == Op("add", <<x>>)
<1> HIDE DEF A, was, now, both, same, del, add
<1>4. /\ same \o w \in Seq(A) /\ del \o w \in Seq(A) /\ add \o w \in Seq(A)
      /\ Cardinality(OfKind(same \o w, both)) = 1 + Cardinality(OfKind(w, both))
      /\ Cardinality(OfKind(del \o w, both)) = 0 + Cardinality(OfKind(w, both))
      /\ Cardinality(OfKind(add \o w, both)) = 0 + Cardinality(OfKind(w, both))
  BY <1>2, PlacesConcat DEF same, del, add, A
<1>5. Spells(w, was, s) /\ Spells(w, now, t) /\ w \in Seq(A)
  BY DEF was, now, A
<1>6. /\ Spells(same \o w, was, <<x>> \o s) /\ Spells(same \o w, now, <<x>> \o t)
  BY <1>1, <1>2, <1>5, SpellsConcat DEF same
<1>7. /\ Spells(del \o w, was, <<x>> \o s) /\ Spells(del \o w, now, << >> \o t)
  BY <1>1, <1>2, <1>5, SpellsConcat DEF del
<1>8. /\ Spells(add \o w, was, << >> \o s) /\ Spells(add \o w, now, <<x>> \o t)
  BY <1>1, <1>2, <1>5, SpellsConcat DEF add
<1> QED
  BY <1>1, <1>3, <1>4, <1>6, <1>7, <1>8 DEF same, del, add, A, was, now, both

\* The walk deletes what is left of a and adds what is left of b, and keeps
\* as many lines as the table says.
LEMMA WalkIsRight ==
  ASSUME NEW L, NEW a \in Seq(L), NEW b \in Seq(L)
  PROVE  \A p \in Cells(a, b) : WalkRight(L, a, b, p, Walk(a, b)[p])
<1> DEFINE Bad == {p \in Cells(a, b) : ~WalkRight(L, a, b, p, Walk(a, b)[p])}
           t == Table(a, b)
           m == Len(a)
           n == Len(b)
<1> SUFFICES ASSUME Bad # {} PROVE FALSE
  OBVIOUS
<1>1. PICK p \in Bad : \A q \in Bad : Ahead(a, b)[p] <= Ahead(a, b)[q]
  <2>1. Bad \in SUBSET Cells(a, b) /\ Ahead(a, b) \in [Cells(a, b) -> Nat]
    BY CellsAhead
  <2> HIDE DEF Bad
  <2> QED
    BY <2>1, LeastRank
<1> DEFINE i == p[1]
           j == p[2]
           w == Walk(a, b)[p]
           next(q) == Walk(a, b)[q]
<1>2. /\ p \in Cells(a, b) /\ p = <<i, j>> /\ i \in 1..(m + 1) /\ j \in 1..(n + 1)
      /\ m \in Nat /\ n \in Nat
  BY DEF Cells
<1>3. /\ w = IF i > m THEN Op("add", SubSeq(b, j, n))
             ELSE IF j > n THEN Op("del", SubSeq(a, i, m))
             ELSE IF a[i] = b[j] THEN Op("same", <<a[i]>>) \o next(<<i + 1, j + 1>>)
             ELSE IF t[<<i + 1, j>>] >= t[<<i, j + 1>>]
             THEN Op("del", <<a[i]>>) \o next(<<i + 1, j>>)
             ELSE Op("add", <<b[j]>>) \o next(<<i, j + 1>>)
  <2>1. p \in Cells(a, b)
    BY <1>2
  <2>2. GoesAt(Walk(a, b), t, a, b, p)
    BY <2>1, WalkGoes
  <2> QED
    BY <2>2 DEF GoesAt
<1>4. t[p] = IF i > m \/ j > n THEN 0
             ELSE IF a[i] = b[j] THEN t[<<i + 1, j + 1>>] + 1
             ELSE Max({t[<<i + 1, j>>], t[<<i, j + 1>>]})
  <2>1. p \in Cells(a, b)
    BY <1>2
  <2>2. FilledAt(t, a, b, p)
    BY <2>1, TableFilled
  <2> QED
    BY <2>2 DEF FilledAt
<1>5. /\ SubSeq(a, i, m) \in Seq(L) /\ SubSeq(b, j, n) \in Seq(L)
      /\ i = m + 1 => SubSeq(a, i, m) = << >>
      /\ j = n + 1 => SubSeq(b, j, n) = << >>
      /\ i <= m => /\ SubSeq(a, i, m) = <<a[i]>> \o SubSeq(a, i + 1, m)
                   /\ SubSeq(a, i + 1, m) \in Seq(L)
      /\ j <= n => /\ SubSeq(b, j, n) = <<b[j]>> \o SubSeq(b, j + 1, n)
                   /\ SubSeq(b, j + 1, n) \in Seq(L)
  <2>1. SubSeq(a, i, m) \in Seq(L) /\ SubSeq(b, j, n) \in Seq(L)
    BY <1>2, SuffixOf
  <2>2. i = m + 1 => SubSeq(a, i, m) = << >>
    BY SuffixOf
  <2>3. j = n + 1 => SubSeq(b, j, n) = << >>
    BY SuffixOf
  <2>4. ASSUME i <= m
        PROVE  SubSeq(a, i, m) = <<a[i]>> \o SubSeq(a, i + 1, m) /\ SubSeq(a, i + 1, m) \in Seq(L)
    <3>1. i \in 1..m /\ i + 1 \in 1..(m + 1)
      BY <1>2, <2>4
    <3> HIDE DEF i
    <3> QED
      BY <3>1, SuffixOf
  <2>5. ASSUME j <= n
        PROVE  SubSeq(b, j, n) = <<b[j]>> \o SubSeq(b, j + 1, n) /\ SubSeq(b, j + 1, n) \in Seq(L)
    <3>1. j \in 1..n /\ j + 1 \in 1..(n + 1)
      BY <1>2, <2>5
    <3> HIDE DEF j
    <3> QED
      BY <3>1, SuffixOf
  <2> QED
    BY <2>1, <2>2, <2>3, <2>4, <2>5
<1>6. ASSUME i <= m, j <= n
      PROVE  \A q \in {<<i + 1, j>>, <<i, j + 1>>, <<i + 1, j + 1>>} :
               /\ q \in Cells(a, b) /\ t[q] \in Nat
               /\ WalkRight(L, a, b, q, Walk(a, b)[q])
  <2> SUFFICES ASSUME NEW q \in {<<i + 1, j>>, <<i, j + 1>>, <<i + 1, j + 1>>}
               PROVE  /\ q \in Cells(a, b) /\ t[q] \in Nat
                      /\ WalkRight(L, a, b, q, Walk(a, b)[q])
    OBVIOUS
  <2>1. q \in Cells(a, b) /\ Ahead(a, b)[q] < Ahead(a, b)[p]
    BY <1>2, <1>6, CellsAhead
  <2>2. Ahead(a, b)[q] \in Nat /\ Ahead(a, b)[p] \in Nat
    BY <1>2, <2>1, CellsAhead
  <2>3. q \notin Bad
    <3> HIDE DEF Bad
    <3> QED
      BY <1>1, <2>1, <2>2
  <2>4. t[q] \in Nat
    BY <2>1, TableFilled
  <2> QED
    BY <2>1, <2>3, <2>4
<1>7. a[i] \in L \/ i > m
  BY <1>2
<1>8. b[j] \in L \/ j > n
  BY <1>2
<1>9. WalkRight(L, a, b, p, w)
       <=> /\ w \in Seq(OpOf(L))
           /\ Spells(w, {"same", "del"}, SubSeq(a, i, m))
           /\ Spells(w, {"same", "add"}, SubSeq(b, j, n))
           /\ Cardinality(OfKind(w, {"same"})) = t[p]
  BY DEF WalkRight
<1> HIDE DEF t
<1>10. CASE i > m
  <2>1. i = m + 1 /\ t[p] = 0 /\ w = Op("add", SubSeq(b, j, n)) /\ SubSeq(a, i, m) = << >>
    BY <1>2, <1>3, <1>4, <1>5, <1>10
  <2> HIDE DEF i, j, w, m, n
  <2> DEFINE s == SubSeq(b, j, n)
  <2>4. s \in Seq(L)
    BY <1>5
  <2> HIDE DEF s
  <2>5. /\ Op("add", s) \in Seq(OpOf(L))
        /\ Spells(Op("add", s), {"same", "del"}, << >>)
        /\ Spells(Op("add", s), {"same", "add"}, s)
        /\ Cardinality(OfKind(Op("add", s), {"same"})) = 0
    BY <2>4, OpSpells
  <2>3. /\ w \in Seq(OpOf(L))
        /\ Spells(w, {"same", "del"}, SubSeq(a, i, m))
        /\ Spells(w, {"same", "add"}, SubSeq(b, j, n))
        /\ Cardinality(OfKind(w, {"same"})) = 0
    BY <2>1, <2>5 DEF s
  <2>2. WalkRight(L, a, b, p, w)
    BY <1>9, <2>1, <2>3
  <2> QED
    BY <2>2 DEF w
<1>11. CASE i <= m /\ j > n
  <2>1. j = n + 1 /\ t[p] = 0 /\ w = Op("del", SubSeq(a, i, m)) /\ SubSeq(b, j, n) = << >>
    BY <1>2, <1>3, <1>4, <1>5, <1>11
  <2> HIDE DEF i, j, w, m, n
  <2> DEFINE s == SubSeq(a, i, m)
  <2>4. s \in Seq(L)
    BY <1>5
  <2> HIDE DEF s
  <2>5. /\ Op("del", s) \in Seq(OpOf(L))
        /\ Spells(Op("del", s), {"same", "del"}, s)
        /\ Spells(Op("del", s), {"same", "add"}, << >>)
        /\ Cardinality(OfKind(Op("del", s), {"same"})) = 0
    BY <2>4, OpSpells
  <2>3. /\ w \in Seq(OpOf(L))
        /\ Spells(w, {"same", "del"}, SubSeq(a, i, m))
        /\ Spells(w, {"same", "add"}, SubSeq(b, j, n))
        /\ Cardinality(OfKind(w, {"same"})) = 0
    BY <2>1, <2>5 DEF s
  <2>2. WalkRight(L, a, b, p, w)
    BY <1>9, <2>1, <2>3
  <2> QED
    BY <2>2 DEF w
<1>12. CASE i <= m /\ j <= n /\ a[i] = b[j]
  <2> DEFINE q == <<i + 1, j + 1>>
             v == Walk(a, b)[q]
  <2>1. /\ v \in Seq(OpOf(L)) /\ Spells(v, {"same", "del"}, SubSeq(a, i + 1, m))
        /\ Spells(v, {"same", "add"}, SubSeq(b, j + 1, n))
        /\ Cardinality(OfKind(v, {"same"})) = t[q] /\ t[q] \in Nat
    BY <1>6, <1>12 DEF WalkRight, t
  <2>2. w = Op("same", <<a[i]>>) \o v /\ t[p] = t[q] + 1
    BY <1>2, <1>3, <1>4, <1>12
  <2>3. a[i] \in L /\ a[i] = b[j]
    BY <1>2, <1>12
  <2>4. /\ SubSeq(a, i, m) = <<a[i]>> \o SubSeq(a, i + 1, m) /\ SubSeq(a, i + 1, m) \in Seq(L)
        /\ SubSeq(b, j, n) = <<a[i]>> \o SubSeq(b, j + 1, n) /\ SubSeq(b, j + 1, n) \in Seq(L)
    BY <1>5, <1>12
  <2> DEFINE s == SubSeq(a, i + 1, m)
             r == SubSeq(b, j + 1, n)
             x == a[i]
  <2>5. /\ s \in Seq(L) /\ r \in Seq(L) /\ x \in L /\ v \in Seq(OpOf(L))
        /\ Spells(v, {"same", "del"}, s) /\ Spells(v, {"same", "add"}, r)
        /\ w = Op("same", <<x>>) \o v
    BY <2>1, <2>2, <2>3, <2>4
  <2> HIDE DEF i, j, w, m, n, v, q, s, r, x
  <2>6. /\ w \in Seq(OpOf(L))
        /\ Spells(w, {"same", "del"}, <<x>> \o s) /\ Spells(w, {"same", "add"}, <<x>> \o r)
        /\ Cardinality(OfKind(w, {"same"})) = Cardinality(OfKind(v, {"same"})) + 1
    BY <2>5, OpInFront
  <2>7. WalkRight(L, a, b, p, w)
    BY <1>9, <2>1, <2>2, <2>4, <2>6 DEF s, r, x
  <2> QED
    BY <2>7 DEF w
<1>13. CASE i <= m /\ j <= n /\ a[i] # b[j] /\ t[<<i + 1, j>>] >= t[<<i, j + 1>>]
  <2> DEFINE q == <<i + 1, j>>
             v == Walk(a, b)[q]
  <2>1. /\ v \in Seq(OpOf(L)) /\ Spells(v, {"same", "del"}, SubSeq(a, i + 1, m))
        /\ Spells(v, {"same", "add"}, SubSeq(b, j, n))
        /\ Cardinality(OfKind(v, {"same"})) = t[q] /\ t[q] \in Nat /\ t[<<i, j + 1>>] \in Nat
    BY <1>6, <1>13 DEF WalkRight, t
  <2>2. w = Op("del", <<a[i]>>) \o v /\ t[p] = Max({t[q], t[<<i, j + 1>>]})
    BY <1>2, <1>3, <1>4, <1>13, SMTT(30)
  <2>3. t[p] = t[q]
    BY <1>13, <2>1, <2>2, MaxOfTwo
  <2>4. a[i] \in L
    BY <1>2, <1>13
  <2>5. SubSeq(a, i, m) = <<a[i]>> \o SubSeq(a, i + 1, m) /\ SubSeq(a, i + 1, m) \in Seq(L)
    BY <1>5, <1>13
  <2> DEFINE s == SubSeq(a, i + 1, m)
             r == SubSeq(b, j, n)
             x == a[i]
  <2>6. /\ s \in Seq(L) /\ r \in Seq(L) /\ x \in L /\ v \in Seq(OpOf(L))
        /\ Spells(v, {"same", "del"}, s) /\ Spells(v, {"same", "add"}, r)
        /\ w = Op("del", <<x>>) \o v
    BY <1>5, <2>1, <2>2, <2>4, <2>5
  <2> HIDE DEF i, j, w, m, n, v, q, s, r, x
  <2>7. /\ w \in Seq(OpOf(L))
        /\ Spells(w, {"same", "del"}, <<x>> \o s) /\ Spells(w, {"same", "add"}, r)
        /\ Cardinality(OfKind(w, {"same"})) = Cardinality(OfKind(v, {"same"}))
    BY <2>6, OpInFront
  <2>8. WalkRight(L, a, b, p, w)
    BY <1>9, <2>1, <2>3, <2>5, <2>7 DEF s, r, x
  <2> QED
    BY <2>8 DEF w
<1>14. CASE i <= m /\ j <= n /\ a[i] # b[j] /\ ~(t[<<i + 1, j>>] >= t[<<i, j + 1>>])
  <2> DEFINE q == <<i, j + 1>>
             v == Walk(a, b)[q]
  <2>1. /\ v \in Seq(OpOf(L)) /\ Spells(v, {"same", "del"}, SubSeq(a, i, m))
        /\ Spells(v, {"same", "add"}, SubSeq(b, j + 1, n))
        /\ Cardinality(OfKind(v, {"same"})) = t[q] /\ t[q] \in Nat /\ t[<<i + 1, j>>] \in Nat
    BY <1>6, <1>14 DEF WalkRight, t
  <2>2. w = Op("add", <<b[j]>>) \o v /\ t[p] = Max({t[<<i + 1, j>>], t[q]})
    BY <1>2, <1>3, <1>4, <1>14, SMTT(30)
  <2>3. t[p] = t[q]
    BY <1>14, <2>1, <2>2, MaxOfTwo
  <2>4. b[j] \in L
    BY <1>2, <1>14
  <2>5. SubSeq(b, j, n) = <<b[j]>> \o SubSeq(b, j + 1, n) /\ SubSeq(b, j + 1, n) \in Seq(L)
    BY <1>5, <1>14
  <2> DEFINE s == SubSeq(a, i, m)
             r == SubSeq(b, j + 1, n)
             x == b[j]
  <2>6. /\ s \in Seq(L) /\ r \in Seq(L) /\ x \in L /\ v \in Seq(OpOf(L))
        /\ Spells(v, {"same", "del"}, s) /\ Spells(v, {"same", "add"}, r)
        /\ w = Op("add", <<x>>) \o v
    BY <1>5, <2>1, <2>2, <2>4, <2>5
  <2> HIDE DEF i, j, w, m, n, v, q, s, r, x
  <2>7. /\ w \in Seq(OpOf(L))
        /\ Spells(w, {"same", "del"}, s) /\ Spells(w, {"same", "add"}, <<x>> \o r)
        /\ Cardinality(OfKind(w, {"same"})) = Cardinality(OfKind(v, {"same"}))
    BY <2>6, OpInFront
  <2>8. WalkRight(L, a, b, p, w)
    BY <1>9, <2>1, <2>3, <2>5, <2>7 DEF s, r, x
  <2> QED
    BY <2>8 DEF w
<1> QED
  BY <1>2, <1>10, <1>11, <1>12, <1>13, <1>14

-----------------------------------------------------------------------------
\* No matching of two texts, between lines i and k of one and j and l of the
\* other, is larger than c.
Within(o, u, i, j, k, l) ==
  {M \in Matchings(o, u) : \A p \in M : i <= p[1] /\ p[1] <= k /\ j <= p[2] /\ p[2] <= l}

Bounded(o, u, i, j, k, l, c) == \A M \in Within(o, u, i, j, k, l) : Cardinality(M) <= c

LEMMA MatchingOf ==
  ASSUME NEW L, NEW o \in Seq(L), NEW u \in Seq(L), NEW M \in Matchings(o, u)
  PROVE  /\ \A p \in M : /\ p[1] \in 1..Len(o) /\ p[2] \in 1..Len(u) /\ p = <<p[1], p[2]>>
                         /\ o[p[1]] = u[p[2]]
         /\ \A p, q \in M : p[1] < q[1] <=> p[2] < q[2]
         /\ SUBSET M \subseteq Matchings(o, u)
         /\ IsFiniteSet(M) /\ Cardinality(M) \in Nat
<1>1. /\ M \in SUBSET ((DOMAIN o) \X (DOMAIN u))
      /\ \A p \in M : o[p[1]] = u[p[2]] /\ \A q \in M : p[1] < q[1] <=> p[2] < q[2]
  BY DEF Matchings
<1>2. Len(o) \in Nat /\ Len(u) \in Nat /\ DOMAIN o = 1..Len(o) /\ DOMAIN u = 1..Len(u)
  OBVIOUS
<1>3. ASSUME NEW N \in SUBSET M
      PROVE  N \in Matchings(o, u)
  BY <1>1 DEF Matchings
<1>4. IsFiniteSet(1..Len(o)) /\ IsFiniteSet(1..Len(u))
  BY <1>2, FS_Interval
<1>5. IsFiniteSet((1..Len(o)) \X (1..Len(u)))
  BY <1>4, FS_Product
<1>6. IsFiniteSet(M) /\ Cardinality(M) \in Nat
  BY <1>1, <1>2, <1>5, FS_Subset, FS_CardinalityType
<1>7. \A p \in M : p[1] \in 1..Len(o) /\ p[2] \in 1..Len(u) /\ p = <<p[1], p[2]>>
  BY <1>1, <1>2
<1> QED
  BY <1>1, <1>3, <1>6, <1>7

\* A line more on both sides adds at most one pair, in front ...
LEMMA OneMoreInFront ==
  ASSUME NEW L, NEW o \in Seq(L), NEW u \in Seq(L),
         NEW i \in Nat, NEW j \in Nat, NEW k \in Nat, NEW l \in Nat, NEW c \in Nat,
         Bounded(o, u, i + 1, j + 1, k, l, c)
  PROVE  Bounded(o, u, i, j, k, l, c + 1)
<1> SUFFICES ASSUME NEW M \in Within(o, u, i, j, k, l)
             PROVE  Cardinality(M) <= c + 1
  BY DEF Bounded
<1> DEFINE N == {p \in M : i < p[1] /\ j < p[2]}
<1>1. M \in Matchings(o, u) /\ \A p \in M : i <= p[1] /\ p[1] <= k /\ j <= p[2] /\ p[2] <= l
  BY DEF Within
<1>2. /\ \A p \in M : p[1] \in Nat /\ p[2] \in Nat /\ p = <<p[1], p[2]>>
      /\ \A p, q \in M : p[1] < q[1] <=> p[2] < q[2]
      /\ IsFiniteSet(M) /\ Cardinality(M) \in Nat /\ SUBSET M \subseteq Matchings(o, u)
  BY <1>1, MatchingOf
<1>3. N \in Within(o, u, i + 1, j + 1, k, l)
  <2>1. N \in Matchings(o, u)
    BY <1>2
  <2>2. \A p \in N : i + 1 <= p[1] /\ p[1] <= k /\ j + 1 <= p[2] /\ p[2] <= l
    BY <1>1, <1>2
  <2> HIDE DEF N
  <2> QED
    BY <2>1, <2>2 DEF Within
<1>4. IsFiniteSet(N) /\ Cardinality(N) \in Nat /\ Cardinality(N) <= c
  <2>1. N \in SUBSET M
    OBVIOUS
  <2> HIDE DEF N
  <2>2. IsFiniteSet(N) /\ Cardinality(N) \in Nat
    BY <1>2, <2>1, FS_Subset, FS_CardinalityType
  <2> QED
    BY <1>3, <2>2 DEF Bounded
<1>5. ASSUME NEW p \in M \ N, NEW q \in M \ N
      PROVE  p = q
  <2>1. (p[1] = i \/ p[2] = j) /\ (q[1] = i \/ q[2] = j)
    BY <1>1, <1>2
  <2>2. p[1] = q[1] /\ p[2] = q[2]
    <3>1. /\ p[1] < q[1] <=> p[2] < q[2]
          /\ q[1] < p[1] <=> q[2] < p[2]
      BY <1>2
    <3>2. i <= p[1] /\ i <= q[1] /\ j <= p[2] /\ j <= q[2]
      BY <1>1
    <3> QED
      BY <1>2, <2>1, <3>1, <3>2
  <2> QED
    BY <1>2, <2>2
<1>6. CASE M \ N = {}
  <2>1. M = N
    BY <1>6
  <2> HIDE DEF N
  <2> QED
    BY <1>4, <2>1
<1>7. CASE M \ N # {}
  <2>1. PICK e \in M \ N : TRUE
    BY <1>7
  <2>2. M = N \cup {e} /\ e \notin N
    BY <1>5
  <2> HIDE DEF N
  <2>3. Cardinality(N \cup {e}) = Cardinality(N) + 1
    BY <1>4, <2>2, FS_AddElement
  <2> QED
    BY <1>4, <2>2, <2>3
<1> QED
  BY <1>6, <1>7

\* ... or at the end.
LEMMA OneMoreAtEnd ==
  ASSUME NEW L, NEW o \in Seq(L), NEW u \in Seq(L),
         NEW i \in Nat, NEW j \in Nat, NEW k \in Nat, NEW l \in Nat, NEW c \in Nat,
         Bounded(o, u, i, j, k, l, c)
  PROVE  Bounded(o, u, i, j, k + 1, l + 1, c + 1)
<1> SUFFICES ASSUME NEW M \in Within(o, u, i, j, k + 1, l + 1)
             PROVE  Cardinality(M) <= c + 1
  BY DEF Bounded
<1> DEFINE N == {p \in M : p[1] < k + 1 /\ p[2] < l + 1}
<1>1. /\ M \in Matchings(o, u)
      /\ \A p \in M : i <= p[1] /\ p[1] <= k + 1 /\ j <= p[2] /\ p[2] <= l + 1
  BY DEF Within
<1>2. /\ \A p \in M : p[1] \in Nat /\ p[2] \in Nat /\ p = <<p[1], p[2]>>
      /\ \A p, q \in M : p[1] < q[1] <=> p[2] < q[2]
      /\ IsFiniteSet(M) /\ Cardinality(M) \in Nat /\ SUBSET M \subseteq Matchings(o, u)
  BY <1>1, MatchingOf
<1>3. N \in Within(o, u, i, j, k, l)
  <2>1. N \in Matchings(o, u)
    BY <1>2
  <2>2. \A p \in N : i <= p[1] /\ p[1] <= k /\ j <= p[2] /\ p[2] <= l
    BY <1>1, <1>2
  <2> HIDE DEF N
  <2> QED
    BY <2>1, <2>2 DEF Within
<1>4. IsFiniteSet(N) /\ Cardinality(N) \in Nat /\ Cardinality(N) <= c
  <2>1. N \in SUBSET M
    OBVIOUS
  <2> HIDE DEF N
  <2>2. IsFiniteSet(N) /\ Cardinality(N) \in Nat
    BY <1>2, <2>1, FS_Subset, FS_CardinalityType
  <2> QED
    BY <1>3, <2>2 DEF Bounded
<1>5. ASSUME NEW p \in M \ N, NEW q \in M \ N
      PROVE  p = q
  <2>1. (p[1] = k + 1 \/ p[2] = l + 1) /\ (q[1] = k + 1 \/ q[2] = l + 1)
    BY <1>1, <1>2
  <2>2. p[1] = q[1] /\ p[2] = q[2]
    <3>1. /\ p[1] < q[1] <=> p[2] < q[2]
          /\ q[1] < p[1] <=> q[2] < p[2]
      BY <1>2
    <3>2. p[1] <= k + 1 /\ q[1] <= k + 1 /\ p[2] <= l + 1 /\ q[2] <= l + 1
      BY <1>1
    <3> QED
      BY <1>2, <2>1, <3>1, <3>2
  <2> QED
    BY <1>2, <2>2
<1>6. CASE M \ N = {}
  <2>1. M = N
    BY <1>6
  <2> HIDE DEF N
  <2> QED
    BY <1>4, <2>1
<1>7. CASE M \ N # {}
  <2>1. PICK e \in M \ N : TRUE
    BY <1>7
  <2>2. M = N \cup {e} /\ e \notin N
    BY <1>5
  <2> HIDE DEF N
  <2>3. Cardinality(N \cup {e}) = Cardinality(N) + 1
    BY <1>4, <2>2, FS_AddElement
  <2> QED
    BY <1>4, <2>2, <2>3
<1> QED
  BY <1>6, <1>7

\* Where two lines differ, one of them is not matched.
LEMMA OneIsLeftOut ==
  ASSUME NEW L, NEW o \in Seq(L), NEW u \in Seq(L),
         NEW i \in 1..Len(o), NEW j \in 1..Len(u), NEW k \in Nat, NEW l \in Nat, o[i] # u[j],
         NEW M \in Within(o, u, i, j, k, l)
  PROVE  M \in Within(o, u, i + 1, j, k, l) \/ M \in Within(o, u, i, j + 1, k, l)
<1>1. M \in Matchings(o, u) /\ \A p \in M : i <= p[1] /\ p[1] <= k /\ j <= p[2] /\ p[2] <= l
  BY DEF Within
<1>2. /\ \A p \in M : p[1] \in Nat /\ p[2] \in Nat /\ o[p[1]] = u[p[2]]
      /\ \A p, q \in M : p[1] < q[1] <=> p[2] < q[2]
  <2>1. /\ \A p \in M : p[1] \in 1..Len(o) /\ p[2] \in 1..Len(u) /\ o[p[1]] = u[p[2]]
        /\ \A p, q \in M : p[1] < q[1] <=> p[2] < q[2]
    BY <1>1, MatchingOf
  <2> QED
    BY <2>1
<1>3. i \in Nat /\ j \in Nat
  OBVIOUS
<1>4. CASE \A p \in M : p[1] # i
  <2>1. \A p \in M : i + 1 <= p[1]
    BY <1>1, <1>2, <1>3, <1>4
  <2> QED
    BY <1>1, <2>1 DEF Within
<1>5. CASE \E p \in M : p[1] = i
  <2>1. PICK p \in M : p[1] = i
    BY <1>5
  <2>2. ASSUME NEW q \in M
        PROVE  j + 1 <= q[2]
    <3>1. p[1] < q[1] <=> p[2] < q[2]
      BY <1>2
    <3>2. q[1] < p[1] <=> q[2] < p[2]
      BY <1>2
    <3>3. i <= q[1] /\ j <= q[2] /\ j <= p[2] /\ q[1] \in Nat /\ q[2] \in Nat /\ p[2] \in Nat
      BY <1>1, <1>2
    <3>4. q[2] # j
      <4> SUFFICES ASSUME q[2] = j PROVE FALSE
        OBVIOUS
      <4>1. q[1] = i
        BY <1>3, <2>1, <3>1, <3>3
      <4> QED
        BY <1>2, <4>1
    <3> QED
      BY <1>3, <3>3, <3>4
  <2> QED
    BY <1>1, <2>2 DEF Within
<1> QED
  BY <1>4, <1>5

\* The table bounds the matchings of what is left of a and b, as parts of o
\* and u that begin behind h lines.
LEMMA TableBounds ==
  ASSUME NEW L, NEW o \in Seq(L), NEW u \in Seq(L), NEW a \in Seq(L), NEW b \in Seq(L),
         NEW h \in Nat, h + Len(a) <= Len(o), h + Len(b) <= Len(u),
         \A i \in 1..Len(a) : a[i] = o[h + i], \A j \in 1..Len(b) : b[j] = u[h + j]
  PROVE  \A p \in Cells(a, b) :
           Bounded(o, u, h + p[1], h + p[2], h + Len(a), h + Len(b), Table(a, b)[p])
<1> DEFINE m == Len(a)
           n == Len(b)
           t == Table(a, b)
           Reaches(p) == Bounded(o, u, h + p[1], h + p[2], h + m, h + n, t[p])
           Bad == {p \in Cells(a, b) : ~Reaches(p)}
<1> SUFFICES ASSUME Bad # {} PROVE FALSE
  OBVIOUS
<1>1. PICK p \in Bad : \A q \in Bad : Ahead(a, b)[p] <= Ahead(a, b)[q]
  <2>1. Bad \in SUBSET Cells(a, b) /\ Ahead(a, b) \in [Cells(a, b) -> Nat]
    BY CellsAhead
  <2> HIDE DEF Bad
  <2> QED
    BY <2>1, LeastRank
<1>2. p \in Cells(a, b) /\ ~Reaches(p)
  BY <1>1
<1> HIDE DEF Reaches
<1> DEFINE i == p[1]
           j == p[2]
<1>3. /\ i \in 1..(m + 1) /\ j \in 1..(n + 1) /\ m \in Nat /\ n \in Nat
      /\ Len(o) \in Nat /\ Len(u) \in Nat
  BY <1>2 DEF Cells
<1>4. t[p] = IF i > m \/ j > n THEN 0
             ELSE IF a[i] = b[j] THEN t[<<i + 1, j + 1>>] + 1
             ELSE Max({t[<<i + 1, j>>], t[<<i, j + 1>>]})
  <2>1. FilledAt(t, a, b, p)
    BY <1>2, TableFilled
  <2> QED
    BY <2>1 DEF FilledAt
<1>5. ASSUME i <= m, j <= n
      PROVE  \A q \in {<<i + 1, j>>, <<i, j + 1>>, <<i + 1, j + 1>>} : t[q] \in Nat /\ Reaches(q)
  <2> SUFFICES ASSUME NEW q \in {<<i + 1, j>>, <<i, j + 1>>, <<i + 1, j + 1>>}
               PROVE  t[q] \in Nat /\ Reaches(q)
    OBVIOUS
  <2>1. q \in Cells(a, b) /\ Ahead(a, b)[q] < Ahead(a, b)[p]
    BY <1>2, <1>5, CellsAhead
  <2>2. Ahead(a, b)[q] \in Nat /\ Ahead(a, b)[p] \in Nat
    <3> HIDE DEF Reaches, Bad
    <3>1. Ahead(a, b) \in [Cells(a, b) -> Nat]
      BY CellsAhead
    <3> QED
      BY <1>2, <2>1, <3>1
  <2>3. q \notin Bad
    <3> HIDE DEF Bad
    <3> QED
      BY <1>1, <2>1, <2>2
  <2>4. t[q] \in Nat
    BY <2>1, TableFilled
  <2> QED
    BY <2>1, <2>3, <2>4
<1> HIDE DEF t, m, n
<1>6. Reaches(p) <=> Bounded(o, u, h + i, h + j, h + m, h + n, t[p])
  BY DEF Reaches
<1> HIDE DEF i, j
<1>7. /\ h + i \in Nat /\ h + j \in Nat /\ h + m \in Nat /\ h + n \in Nat
      /\ h + (i + 1) = (h + i) + 1 /\ h + (j + 1) = (h + j) + 1
      /\ h + m <= Len(o) /\ h + n <= Len(u)
  BY <1>3 DEF m, n
<1>8. CASE i > m \/ j > n
  <2>1. ASSUME NEW M \in Within(o, u, h + i, h + j, h + m, h + n)
        PROVE  Cardinality(M) <= 0
    <3>1. M \in Matchings(o, u)
      BY DEF Within
    <3>2. \A x \in M : x[1] \in 1..Len(o) /\ x[2] \in 1..Len(u)
      BY <3>1, MatchingOf
    <3>3. \A x \in M : x[1] \in Nat /\ x[2] \in Nat
      BY <3>2
    <3>4. \A x \in M : h + i <= x[1] /\ x[1] <= h + m /\ h + j <= x[2] /\ x[2] <= h + n
      BY DEF Within
    <3>5. M = {}
      <4> SUFFICES ASSUME NEW x \in M PROVE FALSE
        OBVIOUS
      <4>1. /\ x[1] \in Nat /\ x[2] \in Nat
            /\ h + i <= x[1] /\ x[1] <= h + m /\ h + j <= x[2] /\ x[2] <= h + n
        BY <3>3, <3>4
      <4>2. i \in Nat /\ j \in Nat /\ m \in Nat /\ n \in Nat /\ (i > m \/ j > n)
        BY <1>3, <1>8
      <4> DEFINE u1 == x[1]
                 u2 == x[2]
      <4>3. /\ u1 \in Nat /\ u2 \in Nat
            /\ h + i <= u1 /\ u1 <= h + m /\ h + j <= u2 /\ u2 <= h + n
        BY <4>1
      <4> HIDE DEF i, j, m, n, u1, u2
      <4> QED
        BY ONLY <4>2, <4>3, h \in Nat
    <3> QED
      BY <3>5, FS_EmptySet
  <2>2. Bounded(o, u, h + i, h + j, h + m, h + n, 0)
    BY <2>1 DEF Bounded
  <2> QED
    BY <1>2, <1>4, <1>6, <1>8, <2>2
<1>9. CASE i <= m /\ j <= n /\ a[i] = b[j]
  <2> DEFINE q == <<i + 1, j + 1>>
  <2>1. t[q] \in Nat /\ Bounded(o, u, h + (i + 1), h + (j + 1), h + m, h + n, t[q])
    BY <1>5, <1>9, SMTT(30) DEF Reaches
  <2>2. t[p] = t[q] + 1
    BY <1>3, <1>4, <1>9
  <2> HIDE DEF q
  <2>3. Bounded(o, u, h + i, h + j, h + m, h + n, t[q] + 1)
    BY <1>7, <2>1, OneMoreInFront
  <2> QED
    BY <1>2, <1>6, <2>2, <2>3
<1>10. CASE i <= m /\ j <= n /\ a[i] # b[j]
  <2> DEFINE x == t[<<i + 1, j>>]
             y == t[<<i, j + 1>>]
  <2>1. /\ x \in Nat /\ Bounded(o, u, (h + i) + 1, h + j, h + m, h + n, x)
        /\ y \in Nat /\ Bounded(o, u, h + i, (h + j) + 1, h + m, h + n, y)
    BY <1>5, <1>7, <1>10, SMTT(30) DEF Reaches
  <2>2. t[p] = IF x >= y THEN x ELSE y
    <3>1. t[p] = Max({x, y})
      BY <1>3, <1>4, <1>10
    <3> HIDE DEF x, y
    <3> QED
      BY <2>1, <3>1, MaxOfTwo
  <2>3. h + i \in 1..Len(o) /\ h + j \in 1..Len(u) /\ o[h + i] # u[h + j]
    <3>1. i \in 1..m /\ j \in 1..n
      BY <1>3, <1>10
    <3>2. a[i] = o[h + i] /\ b[j] = u[h + j]
      BY <3>1 DEF m, n
    <3>3. a[i] # b[j]
      BY <1>10
    <3>4. h + i \in 1..Len(o) /\ h + j \in 1..Len(u)
      <4>1. i \in Nat /\ j \in Nat /\ m \in Nat /\ n \in Nat /\ 1 <= i /\ i <= m /\ 1 <= j /\ j <= n
            /\ Len(o) \in Nat /\ Len(u) \in Nat
        BY <1>3, <3>1
      <4> HIDE DEF i, j, m, n
      <4> QED
        BY <1>7, <4>1
    <3> HIDE DEF i, j
    <3> QED
      BY <3>2, <3>3, <3>4
  <2> HIDE DEF x, y
  <2>4. ASSUME NEW M \in Within(o, u, h + i, h + j, h + m, h + n)
        PROVE  Cardinality(M) <= t[p]
    <3>1. \/ M \in Within(o, u, (h + i) + 1, h + j, h + m, h + n)
          \/ M \in Within(o, u, h + i, (h + j) + 1, h + m, h + n)
      BY <1>7, <2>3, OneIsLeftOut
    <3>2. Cardinality(M) <= x \/ Cardinality(M) <= y
      BY <2>1, <3>1 DEF Bounded
    <3>3. Cardinality(M) \in Nat
      <4>1. M \in Matchings(o, u)
        BY DEF Within
      <4> QED
        BY <4>1, MatchingOf
    <3> QED
      BY <2>1, <2>2, <3>2, <3>3
  <2>5. Bounded(o, u, h + i, h + j, h + m, h + n, t[p])
    BY <2>4 DEF Bounded
  <2> QED
    BY <1>2, <1>6, <2>5
<1> QED
  BY <1>3, <1>8, <1>9, <1>10

\* What the common ends of two texts add to a bound.
LEMMA EndsAdd ==
  ASSUME NEW L, NEW o \in Seq(L), NEW u \in Seq(L), NEW h \in Nat, NEW k \in Nat, NEW l \in Nat,
         NEW c \in Nat, Bounded(o, u, h + 1, h + 1, k, l, c), NEW t \in Nat
  PROVE  Bounded(o, u, 1, 1, k + t, l + t, c + h + t)
<1> DEFINE Bad == {s \in Nat : ~Bounded(o, u, h + 1, h + 1, k + s, l + s, c + s)}
           Worse == {s \in Nat : s <= h /\ ~Bounded(o, u, h - s + 1, h - s + 1, k + t, l + t, c + t + s)}
<1>1. Bad = {}
  <2> SUFFICES ASSUME Bad # {} PROVE FALSE
    OBVIOUS
  <2>1. Bad \in SUBSET Nat
    OBVIOUS
  <2>2. PICK s \in Bad : \A r \in Bad : s <= r
    <3> HIDE DEF Bad
    <3> QED
      BY <2>1, LeastOne
  <2>3. k + 0 = k /\ l + 0 = l /\ c + 0 = c
    OBVIOUS
  <2>4. s # 0
    BY <2>3
  <2>5. s - 1 \in Nat /\ s - 1 \notin Bad
    <3>1. s \in Nat
      OBVIOUS
    <3>2. s - 1 \in Nat /\ ~(s <= s - 1)
      BY <2>4, <3>1
    <3> HIDE DEF Bad
    <3> QED
      BY <2>2, <3>2
  <2> DEFINE r == s - 1
  <2>6. /\ r \in Nat /\ k + r \in Nat /\ l + r \in Nat /\ c + r \in Nat /\ h + 1 \in Nat
        /\ (k + r) + 1 = k + s /\ (l + r) + 1 = l + s /\ (c + r) + 1 = c + s
    BY <2>5
  <2>7. Bounded(o, u, h + 1, h + 1, k + r, l + r, c + r)
    BY <2>5
  <2> HIDE DEF r
  <2>8. Bounded(o, u, h + 1, h + 1, (k + r) + 1, (l + r) + 1, (c + r) + 1)
    BY <2>6, <2>7, OneMoreAtEnd
  <2>9. Bounded(o, u, h + 1, h + 1, k + s, l + s, c + s)
    BY <2>6, <2>8
  <2> QED
    BY <2>9
<1>2. Bounded(o, u, h + 1, h + 1, k + t, l + t, c + t)
  BY <1>1
<1> HIDE DEF Bad
<1>3. Worse = {}
  <2> SUFFICES ASSUME Worse # {} PROVE FALSE
    OBVIOUS
  <2>1. Worse \in SUBSET Nat
    OBVIOUS
  <2>2. PICK s \in Worse : \A r \in Worse : s <= r
    <3> HIDE DEF Worse
    <3> QED
      BY <2>1, LeastOne
  <2>3. h - 0 + 1 = h + 1 /\ c + t + 0 = c + t
    OBVIOUS
  <2>4. s # 0
    BY <1>2, <2>3
  <2>5. s \in Nat /\ s <= h /\ s - 1 \in Nat /\ s - 1 <= h /\ s - 1 \notin Worse
    <3>1. s \in Nat /\ s <= h
      OBVIOUS
    <3>2. s - 1 \in Nat /\ s - 1 <= h /\ ~(s <= s - 1)
      BY <2>4, <3>1
    <3> HIDE DEF Worse
    <3> QED
      BY <2>2, <3>1, <3>2
  <2> DEFINE r == s - 1
             d == h - s + 1
  <2>6. /\ r \in Nat /\ d \in Nat /\ d + 1 = h - r + 1 /\ c + t + r \in Nat
        /\ k + t \in Nat /\ l + t \in Nat /\ (c + t + r) + 1 = c + t + s
    BY <2>5
  <2>7. Bounded(o, u, h - r + 1, h - r + 1, k + t, l + t, c + t + r)
    BY <2>5
  <2>8. ~Bounded(o, u, d, d, k + t, l + t, c + t + s)
    OBVIOUS
  <2> HIDE DEF r, d
  <2>9. Bounded(o, u, d + 1, d + 1, k + t, l + t, c + t + r)
    BY <2>6, <2>7
  <2>10. Bounded(o, u, d, d, k + t, l + t, (c + t + r) + 1)
    BY <2>6, <2>9, OneMoreInFront
  <2> QED
    BY <2>6, <2>8, <2>10
<1>4. h - h + 1 = 1 /\ c + t + h = c + h + t /\ h <= h
  OBVIOUS
<1>5. Bounded(o, u, h - h + 1, h - h + 1, k + t, l + t, c + t + h)
  BY <1>3, <1>4
<1> QED
  BY <1>4, <1>5

-----------------------------------------------------------------------------
LEMMA CommonHeadIs ==
  ASSUME NEW L, NEW a \in Seq(L), NEW b \in Seq(L)
  PROVE  /\ CommonHead(a, b) \in Nat
         /\ CommonHead(a, b) <= Len(a) /\ CommonHead(a, b) <= Len(b)
         /\ \A i \in 1..CommonHead(a, b) : a[i] = b[i]
         /\ CommonHead(a, b) = Len(a) \/ CommonHead(a, b) = Len(b)
              \/ a[CommonHead(a, b) + 1] # b[CommonHead(a, b) + 1]
<1> DEFINE S == {h \in 0..Len(a) : h <= Len(b) /\ SubSeq(a, 1, h) = SubSeq(b, 1, h)}
           h == CommonHead(a, b)
<1>1. Len(a) \in Nat /\ Len(b) \in Nat
  OBVIOUS
<1>2. S \in SUBSET (0..Len(a)) /\ 0 \in S
  <2>1. SubSeq(a, 1, 0) = << >> /\ SubSeq(b, 1, 0) = << >>
    OBVIOUS
  <2> QED
    BY <1>1, <2>1
<1>3. h \in S /\ \A k \in S : k <= h
  <2>1. h = Max(S)
    BY DEF CommonHead
  <2> HIDE DEF S, h
  <2> QED
    BY <1>1, <1>2, <2>1, MaxBelow
<1>4. h \in Nat /\ h <= Len(a) /\ h <= Len(b) /\ SubSeq(a, 1, h) = SubSeq(b, 1, h)
  <2> HIDE DEF h
  <2> QED
    BY <1>1, <1>3
<1> HIDE DEF h
<1>5. ASSUME NEW i \in 1..h
      PROVE  a[i] = b[i]
  <2>1. SubSeq(a, 1, h)[i] = a[i] /\ SubSeq(b, 1, h)[i] = b[i]
    BY <1>1, <1>4
  <2> QED
    BY <1>4, <2>1
<1>6. ASSUME h # Len(a), h # Len(b), a[h + 1] = b[h + 1]
      PROVE  FALSE
  <2> DEFINE k == h + 1
             x == SubSeq(a, 1, k)
             y == SubSeq(b, 1, k)
  <2>1. k \in Nat /\ k <= Len(a) /\ k <= Len(b) /\ ~(k <= h)
        /\ \A i \in 1..k : i \in 1..h \/ i = k
    BY <1>1, <1>4, <1>6
  <2>2. a[k] = b[k]
    BY <1>6
  <2> HIDE DEF k
  <2>3. \A i \in 1..k : a[i] = b[i]
    BY <1>5, <2>1, <2>2
  <2>4. /\ x \in Seq(L) /\ Len(x) = k /\ \A i \in 1..k : x[i] = a[i]
        /\ y \in Seq(L) /\ Len(y) = k /\ \A i \in 1..k : y[i] = b[i]
    BY <1>1, <2>1
  <2> HIDE DEF x, y
  <2>5. x = y
    BY <2>3, <2>4
  <2>6. k \in S
    BY <1>1, <2>1, <2>5 DEF x, y
  <2> HIDE DEF S
  <2> QED
    BY <1>3, <2>1, <2>6
<1> QED
  BY <1>4, <1>5, <1>6 DEF h

\* What a text has behind its first h lines, from its end.
ReversedRest(c, h) == Reverse(SubSeq(c, h + 1, Len(c)))

LEMMA ReversedRestIs ==
  ASSUME NEW L, NEW c \in Seq(L), NEW h \in Nat, h <= Len(c)
  PROVE  /\ ReversedRest(c, h) \in Seq(L)
         /\ Len(ReversedRest(c, h)) = Len(c) - h
         /\ \A i \in 1..(Len(c) - h) : ReversedRest(c, h)[i] = c[Len(c) + 1 - i]
<1> DEFINE s == SubSeq(c, h + 1, Len(c))
           r == Reverse(s)
           k == Len(c) - h
<1>1. h + 1 \in 1..(Len(c) + 1) /\ k \in Nat /\ Len(c) + 1 - (h + 1) = k /\ Len(c) \in Nat
  OBVIOUS
<1>2. s \in Seq(L) /\ Len(s) = k
  BY <1>1, SuffixOf
<1>3. \A i \in 1..k : s[i] = c[h + i]
  <2> SUFFICES ASSUME NEW i \in 1..k PROVE s[i] = c[h + i]
    OBVIOUS
  <2>1. s[i] = c[(h + 1) + i - 1]
    BY <1>1
  <2>2. (h + 1) + i - 1 = h + i
    BY <1>1
  <2> QED
    BY <2>1, <2>2
<1>4. Len(c) - h = k
  OBVIOUS
<1> HIDE DEF s, k
<1>5. r \in [1..k -> L] /\ \A i \in 1..k : r[i] = s[(k - i) + 1]
  <2>1. r = [i \in 1..k |-> s[(k - i) + 1]]
    BY <1>2 DEF Reverse
  <2>2. \A i \in 1..k : (k - i) + 1 \in 1..k
    BY <1>1
  <2>3. \A i \in 1..k : s[(k - i) + 1] \in L
    BY <1>2, <2>2
  <2> QED
    BY <2>1, <2>3
<1>6. r \in Seq(L) /\ Len(r) = k
  <2> HIDE DEF r
  <2> QED
    BY <1>1, <1>5
<1>7. ASSUME NEW i \in 1..k
      PROVE  r[i] = c[Len(c) + 1 - i]
  <2>1. (k - i) + 1 \in 1..k /\ h + ((k - i) + 1) = Len(c) + 1 - i
    BY <1>1, <1>4
  <2> QED
    BY <1>3, <1>5, <2>1
<1> QED
  BY <1>4, <1>6, <1>7 DEF s, ReversedRest

LEMMA CommonTailIs ==
  ASSUME NEW L, NEW a \in Seq(L), NEW b \in Seq(L)
  PROVE  /\ CommonTail(a, b) \in Nat
         /\ CommonHead(a, b) + CommonTail(a, b) <= Len(a)
         /\ CommonHead(a, b) + CommonTail(a, b) <= Len(b)
         /\ \A i \in 1..CommonTail(a, b) : a[Len(a) + 1 - i] = b[Len(b) + 1 - i]
<1> DEFINE h == CommonHead(a, b)
           m == Len(a)
           n == Len(b)
           ra == ReversedRest(a, h)
           rb == ReversedRest(b, h)
           t == CommonHead(ra, rb)
<1>1. h \in Nat /\ h <= m /\ h <= n /\ m \in Nat /\ n \in Nat
  BY CommonHeadIs
<1> HIDE DEF h
<1>2. /\ ra \in Seq(L) /\ Len(ra) = m - h /\ \A i \in 1..(m - h) : ra[i] = a[m + 1 - i]
  BY <1>1, ReversedRestIs
<1>3. /\ rb \in Seq(L) /\ Len(rb) = n - h /\ \A i \in 1..(n - h) : rb[i] = b[n + 1 - i]
  BY <1>1, ReversedRestIs
<1>4. CommonTail(a, b) = t
  BY DEF CommonTail, ReversedRest, h
<1> HIDE DEF ra, rb
<1>5. /\ t \in Nat /\ t <= m - h /\ t <= n - h /\ \A i \in 1..t : ra[i] = rb[i]
  <2>1. /\ CommonHead(ra, rb) \in Nat
        /\ CommonHead(ra, rb) <= Len(ra) /\ CommonHead(ra, rb) <= Len(rb)
        /\ \A i \in 1..CommonHead(ra, rb) : ra[i] = rb[i]
    <3>1. ra \in Seq(L) /\ rb \in Seq(L)
      BY <1>2, <1>3
    <3> QED
      BY ONLY <3>1, CommonHeadIs, Zenon
  <2> QED
    BY <1>2, <1>3, <2>1 DEF t
<1> HIDE DEF t, m, n
<1>6. ASSUME NEW i \in 1..t
      PROVE  a[m + 1 - i] = b[n + 1 - i]
  <2>1. i \in 1..(m - h) /\ i \in 1..(n - h)
    BY <1>1, <1>5
  <2> QED
    BY <1>2, <1>3, <1>5, <2>1
<1> QED
  BY <1>1, <1>4, <1>5, <1>6 DEF m, n, h

\* What is compared: the walk, or everything deleted and added.
LEMMA MiddleIsRight ==
  ASSUME NEW L, NEW a \in Seq(L), NEW b \in Seq(L)
  PROVE  /\ Middle(a, b) \in Seq(OpOf(L))
         /\ Spells(Middle(a, b), {"same", "del"}, a)
         /\ Spells(Middle(a, b), {"same", "add"}, b)
         /\ Len(a) * Len(b) <= MaxCells =>
              Cardinality(OfKind(Middle(a, b), {"same"})) = Table(a, b)[<<1, 1>>]
<1>1. CASE Len(a) * Len(b) > MaxCells
  <2> DEFINE A == OpOf(L)
             del == Op("del", a)
             add == Op("add", b)
             was == {"same", "del"}
             now == {"same", "add"}
  <2>1. /\ del \in Seq(A) /\ Spells(del, was, a) /\ Spells(del, now, << >>)
        /\ add \in Seq(A) /\ Spells(add, was, << >>) /\ Spells(add, now, b)
    BY OpSpells
  <2>2. << >> \in Seq(L) /\ a \o << >> = a /\ << >> \o b = b
    OBVIOUS
  <2>3. Middle(a, b) = del \o add
    BY <1>1 DEF Middle
  <2> HIDE DEF A, del, add, was, now
  <2>4. Spells(del \o add, was, a \o << >>) /\ Spells(del \o add, now, << >> \o b)
    BY <2>1, <2>2, SpellsConcat
  <2>5. del \o add \in Seq(A)
    BY <2>1, PlacesConcat
  <2>6. ~(Len(a) * Len(b) <= MaxCells)
    <3>1. Len(a) * Len(b) \in Nat /\ MaxCells \in Nat
      BY LimitsAssumption
    <3> QED
      BY <1>1, <3>1
  <2> QED
    BY <2>2, <2>3, <2>4, <2>5, <2>6 DEF A, was, now
<1>2. CASE ~(Len(a) * Len(b) > MaxCells)
  <2> DEFINE p == <<1, 1>>
             w == Walk(a, b)[p]
  <2>1. p \in Cells(a, b) /\ p[1] = 1 /\ p[2] = 1
    BY CellsAhead DEF Cells
  <2>2. WalkRight(L, a, b, p, w)
    <3> HIDE DEF p
    <3> QED
      BY <2>1, WalkIsRight
  <2>3. Middle(a, b) = w
    BY <1>2 DEF Middle
  <2>4. SubSeq(a, 1, Len(a)) = a /\ SubSeq(b, 1, Len(b)) = b
    BY SuffixOf
  <2>5. /\ w \in Seq(OpOf(L)) /\ Spells(w, {"same", "del"}, a) /\ Spells(w, {"same", "add"}, b)
        /\ Cardinality(OfKind(w, {"same"})) = Table(a, b)[p]
    <3> HIDE DEF w, p
    <3> QED
      BY <2>1, <2>2, <2>4 DEF WalkRight
  <2> HIDE DEF w
  <2> QED
    BY <2>3, <2>5
<1> QED
  BY <1>1, <1>2

\* Three parts of a text: h lines, and t lines at its end.
InParts(L, c, h, t, x, y, z) ==
  /\ x \in Seq(L) /\ y \in Seq(L) /\ z \in Seq(L) /\ c = x \o y \o z
  /\ Len(x) = h /\ Len(y) = Len(c) - t - h /\ Len(z) = t
  /\ \A i \in 1..h : x[i] = c[i]
  /\ \A i \in 1..Len(y) : y[i] = c[h + i]
  /\ \A i \in 1..t : z[i] = c[Len(c) - t + i]

LEMMA TextInParts ==
  ASSUME NEW L, NEW c \in Seq(L), NEW h \in Nat, NEW t \in Nat, h + t <= Len(c)
  PROVE  InParts(L, c, h, t, SubSeq(c, 1, h), SubSeq(c, h + 1, Len(c) - t),
                 SubSeq(c, Len(c) - t + 1, Len(c)))
<1> DEFINE n == Len(c)
           x == SubSeq(c, 1, h)
           y == SubSeq(c, h + 1, n - t)
           z == SubSeq(c, n - t + 1, n)
           k == n - t - h
<1>1. n \in Nat /\ k \in Nat /\ k + h = n - t /\ h <= n /\ t <= n
  OBVIOUS
<1>2. /\ x \in Seq(L) /\ Len(x) = h /\ \A i \in 1..h : x[i] = c[i]
  BY <1>1
<1>3. /\ y \in Seq(L) /\ Len(y) = k /\ \A i \in 1..k : y[i] = c[h + i]
  <2>1. /\ \A i \in (h + 1)..(n - t) : c[i] \in L
        /\ h + 1 \in 1..(n - t + 1) /\ n - t \in Nat /\ n - t - (h + 1) + 1 = k
    BY <1>1
  <2>2. y \in Seq(L) /\ Len(y) = k
    <3> DEFINE e == n - t
               f == h + 1
    <3>1. \A i \in f..e : c[i] \in L
      BY <2>1
    <3>2. f \in 1..(e + 1) /\ e \in Nat /\ e - f + 1 = k
      BY <2>1
    <3>3. y = SubSeq(c, f, e)
      OBVIOUS
    <3> HIDE DEF e, f, k, y
    <3> QED
      BY <3>1, <3>2, <3>3, SubSeqProperties
  <2>3. ASSUME NEW i \in 1..k
        PROVE  y[i] = c[h + i]
    <3>1. y[i] = c[(h + 1) + i - 1] /\ (h + 1) + i - 1 = h + i
      BY <1>1
    <3> QED
      BY <3>1
  <2> QED
    BY <2>2, <2>3
<1>4. /\ z \in Seq(L) /\ Len(z) = t /\ \A i \in 1..t : z[i] = c[n - t + i]
  <2>1. \A i \in (n - t + 1)..n : c[i] \in L
    BY <1>1
  <2>2. z \in Seq(L) /\ Len(z) = t
    BY <1>1, <2>1
  <2>3. ASSUME NEW i \in 1..t
        PROVE  z[i] = c[n - t + i]
    <3>1. z[i] = c[(n - t + 1) + i - 1] /\ (n - t + 1) + i - 1 = n - t + i
      BY <1>1
    <3> QED
      BY <3>1
  <2> QED
    BY <2>2, <2>3
<1> HIDE DEF x, y, z, k, n
<1> DEFINE xy == x \o y
           r == xy \o z
<1>5. /\ xy \in Seq(L) /\ Len(xy) = h + k
      /\ (\A i \in 1..h : xy[i] = x[i]) /\ (\A j \in 1..k : xy[h + j] = y[j])
  <2>1. /\ xy \in Seq(L) /\ Len(xy) = Len(x) + Len(y)
        /\ \A i \in 1..(Len(x) + Len(y)) :
             xy[i] = IF i <= Len(x) THEN x[i] ELSE y[i - Len(x)]
    BY <1>2, <1>3, ConcatProperties
  <2> HIDE DEF xy
  <2>2. Len(x) = h /\ Len(y) = k
    BY <1>2, <1>3
  <2>3. \A i \in 1..h : xy[i] = x[i]
    BY <1>1, <2>1, <2>2
  <2>4. ASSUME NEW j \in 1..k
        PROVE  xy[h + j] = y[j]
    <3>1. h + j \in 1..(h + k) /\ ~(h + j <= h) /\ (h + j) - h = j
      BY <1>1
    <3> QED
      BY <2>1, <2>2, <3>1
  <2> QED
    BY <2>1, <2>2, <2>3, <2>4
<1> HIDE DEF xy
<1>6. /\ r \in Seq(L) /\ Len(r) = n
      /\ (\A i \in 1..(h + k) : r[i] = xy[i]) /\ (\A j \in 1..t : r[h + k + j] = z[j])
  <2>1. xy \in Seq(L) /\ z \in Seq(L) /\ h + k \in Nat /\ h + k + t = n
    BY <1>1, <1>4, <1>5
  <2>2. /\ r \in Seq(L) /\ Len(r) = Len(xy) + Len(z)
        /\ \A i \in 1..(Len(xy) + Len(z)) : r[i] = IF i <= Len(xy) THEN xy[i] ELSE z[i - Len(xy)]
    BY <2>1, ConcatProperties
  <2> HIDE DEF r
  <2> QED
    BY <1>1, <1>4, <1>5, <2>1, <2>2
<1> HIDE DEF r
<1>7. ASSUME NEW i \in 1..n
      PROVE  r[i] = c[i]
  <2>1. CASE i <= h
    <3>1. i \in 1..h /\ i \in 1..(h + k)
      BY <1>1, <2>1
    <3> QED
      BY <1>2, <1>5, <1>6, <3>1
  <2>2. CASE h < i /\ i <= h + k
    <3>1. i - h \in 1..k /\ i \in 1..(h + k) /\ h + (i - h) = i
      BY <1>1, <2>2
    <3>2. xy[h + (i - h)] = y[i - h]
      <4>1. \A j \in 1..k : xy[h + j] = y[j]
        BY <1>5
      <4> QED
        BY <3>1, <4>1
    <3> QED
      BY <1>3, <1>6, <3>1, <3>2
  <2>3. CASE h + k < i
    <3>1. i - (h + k) \in 1..t /\ h + k + (i - (h + k)) = i /\ n - t + (i - (h + k)) = i
      BY <1>1, <2>3
    <3>2. r[h + k + (i - (h + k))] = z[i - (h + k)]
      <4>1. \A j \in 1..t : r[h + k + j] = z[j]
        BY <1>6
      <4> QED
        BY <3>1, <4>1
    <3> QED
      BY <1>4, <3>1, <3>2
  <2> QED
    BY <1>1, <2>1, <2>2, <2>3
<1>8. r = c
  <2>1. Len(r) = Len(c) /\ \A i \in 1..Len(r) : r[i] = c[i]
    BY <1>6, <1>7 DEF n
  <2> QED
    BY <1>6, <2>1, SeqEqual
<1> QED
  BY <1>2, <1>3, <1>4, <1>8 DEF InParts, r, xy, x, y, z, k, n

-----------------------------------------------------------------------------
LEMMA ProductGrows ==
  ASSUME NEW a \in Nat, NEW b \in Nat, NEW c \in Nat, NEW d \in Nat, a <= c, b <= d
  PROVE  a * b <= c * d
<1> DEFINE e == c - a
           f == d - b
<1>1. e \in Nat /\ f \in Nat /\ c = a + e /\ d = b + f
  OBVIOUS
<1> HIDE DEF e, f
<1>2. c * d = a * b + a * f + e * b + e * f
  BY <1>1
<1>3. a * b \in Nat /\ a * f \in Nat /\ e * b \in Nat /\ e * f \in Nat
  BY <1>1
<1> DEFINE w == a * b
           x == a * f
           y == e * b
           z == e * f
           v == c * d
<1>4. w \in Nat /\ x \in Nat /\ y \in Nat /\ z \in Nat /\ v = w + x + y + z
  BY <1>2, <1>3
<1> HIDE DEF w, x, y, z, v
<1>5. w <= v
  BY <1>4
<1> QED
  BY <1>5 DEF w, v

\* The lines kept on both sides, in front of what is compared and behind it.
LEMMA DiffOfParts ==
  ASSUME NEW L, NEW was \in Seq(L), NEW now \in Seq(L)
  PROVE  /\ DiffLines(was, now) \in Seq(OpOf(L))
         /\ Spells(DiffLines(was, now), {"same", "del"}, was)
         /\ Spells(DiffLines(was, now), {"same", "add"}, now)
         /\ CommonHead(was, now) + CommonTail(was, now)
              <= Cardinality(OfKind(DiffLines(was, now), {"same"}))
         /\ Len(was) * Len(now) <= MaxCells =>
              Bounded(was, now, 1, 1, Len(was), Len(now),
                      Cardinality(OfKind(DiffLines(was, now), {"same"})))
<1> DEFINE m == Len(was)
           n == Len(now)
           h == CommonHead(was, now)
           t == CommonTail(was, now)
           x == SubSeq(was, 1, h)
           a == SubSeq(was, h + 1, m - t)
           z == SubSeq(was, m - t + 1, m)
           x2 == SubSeq(now, 1, h)
           b == SubSeq(now, h + 1, n - t)
           z2 == SubSeq(now, n - t + 1, n)
<1>1. /\ h \in Nat /\ t \in Nat /\ m \in Nat /\ n \in Nat /\ h + t <= m /\ h + t <= n
      /\ \A i \in 1..h : was[i] = now[i]
      /\ \A i \in 1..t : was[m + 1 - i] = now[n + 1 - i]
  BY CommonHeadIs, CommonTailIs
<1> HIDE DEF h, t
<1>2. InParts(L, was, h, t, x, a, z) /\ InParts(L, now, h, t, x2, b, z2)
  BY <1>1, TextInParts
<1>3. DiffLines(was, now) = Op("same", x) \o Middle(a, b) \o Op("same", z2)
  BY DEF DiffLines, h, t
<1> HIDE DEF x, a, z, x2, b, z2
<1>4. /\ x \in Seq(L) /\ a \in Seq(L) /\ z \in Seq(L) /\ was = x \o a \o z
      /\ Len(x) = h /\ Len(a) = m - t - h /\ Len(z) = t
      /\ \A i \in 1..h : x[i] = was[i]
      /\ \A i \in 1..Len(a) : a[i] = was[h + i]
      /\ \A i \in 1..t : z[i] = was[m - t + i]
  BY <1>2 DEF InParts
<1>5. /\ x2 \in Seq(L) /\ b \in Seq(L) /\ z2 \in Seq(L) /\ now = x2 \o b \o z2
      /\ Len(x2) = h /\ Len(b) = n - t - h /\ Len(z2) = t
      /\ \A i \in 1..h : x2[i] = now[i]
      /\ \A i \in 1..Len(b) : b[i] = now[h + i]
      /\ \A i \in 1..t : z2[i] = now[n - t + i]
  BY <1>2 DEF InParts
<1>6. x = x2
  <2>1. \A i \in 1..h : x[i] = x2[i]
    BY <1>1, <1>4, <1>5
  <2> QED
    BY <1>4, <1>5, <2>1
<1>7. z = z2
  <2>1. ASSUME NEW i \in 1..t
        PROVE  z[i] = z2[i]
    <3>1. t + 1 - i \in 1..t /\ m + 1 - (t + 1 - i) = m - t + i /\ n + 1 - (t + 1 - i) = n - t + i
      BY <1>1
    <3>2. was[m + 1 - (t + 1 - i)] = now[n + 1 - (t + 1 - i)]
      BY <1>1, <3>1
    <3>3. was[m - t + i] = now[n - t + i]
      BY <3>1, <3>2
    <3> QED
      BY <1>4, <1>5, <3>3
  <2> QED
    BY <1>4, <1>5, <2>1
<1> DEFINE A == OpOf(L)
           X == Op("same", x)
           M == Middle(a, b)
           Z == Op("same", z)
           o == {"same", "del"}
           u == {"same", "add"}
           s == {"same"}
           S(ops) == Cardinality(OfKind(ops, s))
<1>8. /\ X \in Seq(A) /\ Spells(X, o, x) /\ Spells(X, u, x) /\ S(X) = h
      /\ Z \in Seq(A) /\ Spells(Z, o, z) /\ Spells(Z, u, z) /\ S(Z) = t
  BY <1>4, OpSpells
<1>9. /\ M \in Seq(A) /\ Spells(M, o, a) /\ Spells(M, u, b)
      /\ Len(a) * Len(b) <= MaxCells => S(M) = Table(a, b)[<<1, 1>>]
  <2>1. a \in Seq(L) /\ b \in Seq(L)
    BY <1>4, <1>5
  <2> QED
    BY ONLY <2>1, MiddleIsRight
<1> DEFINE XM == X \o M
           D == XM \o Z
<1>10. DiffLines(was, now) = D /\ was = (x \o a) \o z /\ now = (x \o b) \o z
  BY <1>4, <1>5, <1>3, <1>6, <1>7
<1> HIDE DEF A, X, M, Z, o, u, s
<1>11. /\ XM \in Seq(A) /\ S(XM) = S(X) + S(M) /\ S(M) \in Nat
       /\ Spells(XM, o, x \o a) /\ Spells(XM, u, x \o b)
  <2>1. XM \in Seq(A) /\ S(XM) = S(X) + S(M) /\ S(M) \in Nat
    BY <1>8, <1>9, PlacesConcat, PlacesOf
  <2>2. Spells(XM, o, x \o a)
    BY <1>4, <1>8, <1>9, SpellsConcat
  <2>3. Spells(XM, u, x \o b)
    BY <1>4, <1>5, <1>8, <1>9, SpellsConcat
  <2> QED
    BY <2>1, <2>2, <2>3
<1> HIDE DEF XM
<1>12. x \o a \in Seq(L) /\ x \o b \in Seq(L)
  BY <1>4, <1>5
<1>13. /\ D \in Seq(A) /\ S(D) = S(XM) + S(Z)
       /\ Spells(D, o, (x \o a) \o z) /\ Spells(D, u, (x \o b) \o z)
  <2>1. D \in Seq(A) /\ S(D) = S(XM) + S(Z)
    BY <1>8, <1>11, PlacesConcat
  <2>2. Spells(D, o, (x \o a) \o z)
    BY <1>4, <1>8, <1>11, <1>12, SpellsConcat
  <2>3. Spells(D, u, (x \o b) \o z)
    BY <1>4, <1>8, <1>11, <1>12, SpellsConcat
  <2> QED
    BY <2>1, <2>2, <2>3
<1> HIDE DEF D
<1>14. ASSUME m * n <= MaxCells
       PROVE  Bounded(was, now, 1, 1, m, n, S(D))
  <2> DEFINE k == Len(a)
             l == Len(b)
             p == <<1, 1>>
             c == Table(a, b)[p]
  <2>1. k \in Nat /\ l \in Nat /\ k <= m /\ l <= n /\ h + k + t = m /\ h + l + t = n
    BY <1>1, <1>4, <1>5
  <2>2. k * l <= MaxCells
    <3>1. k * l <= m * n
      BY <1>1, <2>1, ProductGrows
    <3>2. k * l \in Nat /\ m * n \in Nat /\ MaxCells \in Nat
      BY <1>1, <2>1, LimitsAssumption
    <3> QED
      BY <1>14, <3>1, <3>2
  <2>3. S(M) = c /\ c \in Nat
    BY <1>9, <1>11, <2>2
  <2>4. p \in Cells(a, b) /\ p[1] = 1 /\ p[2] = 1
    BY ONLY <1>4, <1>5, SMTT(30) DEF Cells, p
  <2> HIDE DEF p
  <2>5. Bounded(was, now, h + p[1], h + p[2], h + k, h + l, c)
    <3>1. /\ h + Len(a) <= Len(was) /\ h + Len(b) <= Len(now)
          /\ \A i \in 1..Len(a) : a[i] = was[h + i]
          /\ \A j \in 1..Len(b) : b[j] = now[h + j]
      <4>1. h + Len(a) <= Len(was) /\ h + Len(b) <= Len(now)
        <5> HIDE DEF k, l
        <5>1. h + k <= m /\ h + l <= n
          BY <1>1, <2>1
        <5> QED
          BY <5>1 DEF k, l
      <4> QED
        BY <1>4, <1>5, <4>1
    <3>2. \A q \in Cells(a, b) :
            Bounded(was, now, h + q[1], h + q[2], h + Len(a), h + Len(b), Table(a, b)[q])
      BY <1>1, <1>4, <1>5, <3>1, TableBounds, Zenon
    <3> QED
      BY <2>4, <3>2
  <2>6. Bounded(was, now, h + 1, h + 1, h + k, h + l, c)
    BY <2>4, <2>5
  <2>7. S(D) = c + h + t
    BY <1>1, <1>8, <1>11, <1>13, <2>3
  <2>8. h + k \in Nat /\ h + l \in Nat
    BY <1>1, <2>1
  <2> HIDE DEF k, l, c
  <2>9. Bounded(was, now, 1, 1, h + k + t, h + l + t, c + h + t)
    BY <1>1, <2>3, <2>6, <2>8, EndsAdd
  <2> QED
    BY <2>1, <2>7, <2>9
<1>15. h + t <= S(D)
  <2> DEFINE d == S(D)
             c == S(M)
  <2>1. d = h + c + t /\ c \in Nat
    BY <1>1, <1>8, <1>11, <1>13
  <2> HIDE DEF d, c
  <2>2. h + t <= d
    BY <1>1, <2>1
  <2> QED
    BY <2>2 DEF d
<1> QED
  BY <1>10, <1>13, <1>14, <1>15 DEF A, o, u, s, h, t

-----------------------------------------------------------------------------
\* The rank of a place, and the lines a diff keeps as pairs of ranks.
RankAt(S, i) == Cardinality({j \in S : j <= i})

LEMMA RanksGrow ==
  ASSUME NEW S \in SUBSET Nat, IsFiniteSet(S)
  PROVE  /\ \A i \in S : RankAt(S, i) \in 1..Cardinality(S)
         /\ \A i, j \in S : i < j => RankAt(S, i) < RankAt(S, j)
<1> DEFINE upTo(i) == {j \in S : j <= i}
<1>1. ASSUME NEW i \in S
      PROVE  /\ upTo(i) \subseteq S /\ i \in upTo(i)
             /\ IsFiniteSet(upTo(i)) /\ Cardinality(upTo(i)) \in 1..Cardinality(S)
  <2> DEFINE T == upTo(i)
  <2>1. T \in SUBSET S /\ i \in T
    OBVIOUS
  <2> HIDE DEF T
  <2>2. IsFiniteSet(T) /\ Cardinality(T) <= Cardinality(S)
    BY <2>1, FS_Subset
  <2>3. Cardinality(T) \in Nat /\ Cardinality(S) \in Nat
    BY <2>2, FS_CardinalityType
  <2>4. Cardinality(T) # 0
    BY <2>1, <2>2, FS_EmptySet
  <2>5. Cardinality(T) \in 1..Cardinality(S)
    BY <2>2, <2>3, <2>4
  <2> QED
    BY <2>1, <2>2, <2>5 DEF T
<1>2. ASSUME NEW i \in S, NEW j \in S, i < j
      PROVE  Cardinality(upTo(i)) < Cardinality(upTo(j))
  <2>1. upTo(i) \in SUBSET upTo(j) /\ j \notin upTo(i)
    <3>1. i \in Nat /\ j \in Nat /\ ~(j <= i)
      BY <1>2
    <3>2. \A x \in S : x \in Nat /\ (x <= i => x <= j)
      BY <1>2, <3>1
    <3> QED
      BY <3>1, <3>2
  <2>2. /\ IsFiniteSet(upTo(j)) /\ Cardinality(upTo(j)) \in Nat /\ j \in upTo(j)
        /\ Cardinality(upTo(i)) \in Nat
    BY <1>1
  <2> HIDE DEF upTo
  <2>3. Cardinality(upTo(i)) <= Cardinality(upTo(j)) /\ Cardinality(upTo(i)) # Cardinality(upTo(j))
    BY <2>1, <2>2, FS_Subset
  <2> QED
    BY <2>2, <2>3
<1> QED
  BY <1>1, <1>2 DEF RankAt

LEMMA KeptIsMatching ==
  ASSUME NEW L, NEW A, NEW was \in Seq(L), NEW now \in Seq(L), NEW ops \in Seq(A),
         Spells(ops, {"same", "del"}, was), Spells(ops, {"same", "add"}, now)
  PROVE  \E M \in Matchings(was, now) : Cardinality(M) = Cardinality(OfKind(ops, {"same"}))
<1> DEFINE S == OfKind(ops, {"same"})
           O == OfKind(ops, {"same", "del"})
           N == OfKind(ops, {"same", "add"})
           r == [i \in S |-> RankAt(O, i)]
           s == [i \in S |-> RankAt(N, i)]
           f == [i \in S |-> <<r[i], s[i]>>]
           M == {f[i] : i \in S}
<1>1. /\ S \subseteq O /\ S \subseteq N /\ S \subseteq Nat /\ O \subseteq Nat /\ N \subseteq Nat
      /\ IsFiniteSet(S) /\ IsFiniteSet(O) /\ IsFiniteSet(N)
  <2>1. S \subseteq O /\ S \subseteq N
    BY DEF OfKind
  <2>2. /\ S \subseteq 1..Len(ops) /\ O \subseteq 1..Len(ops) /\ N \subseteq 1..Len(ops)
        /\ Len(ops) \in Nat /\ IsFiniteSet(S) /\ IsFiniteSet(O) /\ IsFiniteSet(N)
    BY PlacesOf
  <2> QED
    BY <2>1, <2>2
<1>2. /\ Cardinality(O) = Len(was) /\ Cardinality(N) = Len(now)
      /\ \A i \in O : ops[i].line = was[RankAt(O, i)]
      /\ \A i \in N : ops[i].line = now[RankAt(N, i)]
  BY DEF Spells, RankAt
<1> HIDE DEF S, O, N
<1>3. /\ \A i \in O : RankAt(O, i) \in 1..Len(was)
      /\ \A i \in N : RankAt(N, i) \in 1..Len(now)
      /\ \A i, j \in O : i < j => RankAt(O, i) < RankAt(O, j)
      /\ \A i, j \in N : i < j => RankAt(N, i) < RankAt(N, j)
  BY <1>1, <1>2, RanksGrow
<1>4. ASSUME NEW i \in S
      PROVE  /\ r[i] \in 1..Len(was) /\ s[i] \in 1..Len(now) /\ was[r[i]] = now[s[i]]
             /\ f[i][1] = r[i] /\ f[i][2] = s[i] /\ f[i] \in (1..Len(was)) \X (1..Len(now))
  BY <1>1, <1>2, <1>3
<1>5. ASSUME NEW i \in S, NEW j \in S, i < j
      PROVE  r[i] < r[j] /\ s[i] < s[j]
  BY <1>1, <1>3, <1>5
<1>6. DOMAIN f = S /\ M = {f[i] : i \in S}
  OBVIOUS
<1> HIDE DEF r, s, f
<1>7. ASSUME NEW i \in S, NEW j \in S
      PROVE  (r[i] < r[j] <=> i < j) /\ (s[i] < s[j] <=> i < j)
  <2>1. i \in Nat /\ j \in Nat /\ r[i] \in Nat /\ r[j] \in Nat /\ s[i] \in Nat /\ s[j] \in Nat
    BY <1>1, <1>4
  <2>2. CASE i < j
    <3>1. r[i] < r[j] /\ s[i] < s[j]
      BY <1>5, <2>2
    <3> QED
      BY <2>2, <3>1
  <2>3. CASE i = j
    BY <2>1, <2>3
  <2>4. CASE j < i
    <3>1. r[j] < r[i] /\ s[j] < s[i]
      BY <1>5, <2>4
    <3> QED
      BY <2>1, <2>4, <3>1
  <2> QED
    BY <2>1, <2>2, <2>3, <2>4
<1>8. M \in Matchings(was, now)
  <2>1. DOMAIN was = 1..Len(was) /\ DOMAIN now = 1..Len(now)
    OBVIOUS
  <2>2. M \in SUBSET ((DOMAIN was) \X (DOMAIN now))
    BY <1>4, <2>1
  <2>3. ASSUME NEW p \in M
        PROVE  was[p[1]] = now[p[2]] /\ \A q \in M : p[1] < q[1] <=> p[2] < q[2]
    <3>1. PICK i \in S : p = f[i]
      OBVIOUS
    <3>2. was[p[1]] = now[p[2]]
      BY <1>4, <3>1
    <3>3. ASSUME NEW q \in M
          PROVE  p[1] < q[1] <=> p[2] < q[2]
      <4>1. PICK j \in S : q = f[j]
        OBVIOUS
      <4>2. (r[i] < r[j] <=> i < j) /\ (s[i] < s[j] <=> i < j)
        BY <1>7
      <4> QED
        BY <1>4, <3>1, <4>1, <4>2
    <3> QED
      BY <3>2, <3>3
  <2> QED
    BY <2>2, <2>3 DEF Matchings
<1>9. Cardinality(M) = Cardinality(S)
  <2>1. \A i, j \in S : f[i] = f[j] => i = j
    <3> SUFFICES ASSUME NEW i \in S, NEW j \in S, f[i] = f[j] PROVE i = j
      OBVIOUS
    <3>1. r[i] = r[j] /\ r[i] \in Nat /\ i \in Nat /\ j \in Nat
      BY <1>1, <1>4
    <3>2. ~(r[i] < r[j]) /\ ~(r[j] < r[i])
      BY <3>1
    <3>3. ~(i < j) /\ ~(j < i)
      BY <1>7, <3>2
    <3> QED
      BY <3>1, <3>3
  <2>2. f \in [S -> M]
    BY <1>4, <1>6 DEF f
  <2>3. f \in Bijection(S, M)
    <3>1. f \in Injection(S, M)
      BY <2>1, <2>2 DEF Injection, IsInjective
    <3>2. f \in Surjection(S, M)
      BY <2>2 DEF Surjection
    <3> QED
      BY <3>1, <3>2 DEF Bijection
  <2>4. ExistsBijection(S, M)
    BY <2>3 DEF ExistsBijection
  <2> HIDE DEF M
  <2> QED
    BY <1>1, <2>4, FS_Bijection
<1> QED
  BY <1>8, <1>9 DEF S

LEMMA LcsIs ==
  ASSUME NEW L, NEW was \in Seq(L), NEW now \in Seq(L), NEW c,
         Bounded(was, now, 1, 1, Len(was), Len(now), c),
         \E M \in Matchings(was, now) : Cardinality(M) = c
  PROVE  LcsLength(was, now) = c
<1> DEFINE S == {Cardinality(M) : M \in Matchings(was, now)}
<1>1. c \in S
  OBVIOUS
<1>2. ASSUME NEW M \in Matchings(was, now)
      PROVE  Cardinality(M) \in Nat /\ Cardinality(M) <= c
  <2>1. /\ \A p \in M : p[1] \in 1..Len(was) /\ p[2] \in 1..Len(now)
        /\ Cardinality(M) \in Nat
    BY MatchingOf
  <2>2. M \in Within(was, now, 1, 1, Len(was), Len(now))
    BY <2>1 DEF Within
  <2> QED
    BY <2>1, <2>2 DEF Bounded
<1>3. c \in Nat
  BY <1>2
<1>4. \A x \in S : x \in Int /\ c >= x
  BY <1>2, <1>3
<1>5. LcsLength(was, now) = Max(S)
  BY DEF LcsLength
<1> HIDE DEF S
<1> QED
  BY <1>1, <1>4, <1>5, MaxIsIn

-----------------------------------------------------------------------------
\* The first lines of the hunks: all of them, if they are no more than the
\* limit, and else no more than the limit.
LEMMA FirstOnes ==
  ASSUME NEW S \in SUBSET Nat, IsFiniteSet(S), NEW n \in Nat
  PROVE  LET first == {i \in S : Cardinality({j \in S : j < i}) < n} IN
         /\ Cardinality(S) <= n => first = S
         /\ IsFiniteSet(first) /\ Cardinality(first) <= n
<1> DEFINE below(i) == {j \in S : j < i}
           first == {i \in S : Cardinality(below(i)) < n}
<1>1. Cardinality(S) \in Nat
  BY FS_CardinalityType
<1>2. ASSUME NEW i \in S
      PROVE  IsFiniteSet(below(i)) /\ Cardinality(below(i)) \in Nat
             /\ Cardinality(below(i)) < Cardinality(S)
  <2> DEFINE T == below(i)
  <2>1. T \in SUBSET S /\ i \notin T
    OBVIOUS
  <2> HIDE DEF T
  <2>2. IsFiniteSet(T) /\ Cardinality(T) <= Cardinality(S) /\ Cardinality(S) # Cardinality(T)
    BY <2>1, FS_Subset
  <2>3. Cardinality(T) \in Nat
    BY <2>2, FS_CardinalityType
  <2>4. Cardinality(T) < Cardinality(S)
    BY <1>1, <2>2, <2>3
  <2> QED
    BY <2>2, <2>3, <2>4 DEF T
<1>3. ASSUME NEW i \in S, NEW j \in S, i < j
      PROVE  Cardinality(below(i)) < Cardinality(below(j))
  <2> DEFINE T == below(i)
             U == below(j)
  <2>1. T \in SUBSET U /\ i \in U /\ i \notin T
    <3>1. i \in Nat /\ j \in Nat /\ ~(i < i)
      OBVIOUS
    <3>2. \A x \in S : x \in Nat /\ (x < i => x < j)
      BY <1>3, <3>1
    <3> QED
      BY <1>3, <3>1, <3>2
  <2>2. /\ IsFiniteSet(U) /\ Cardinality(T) \in Nat /\ Cardinality(U) \in Nat
    BY <1>2
  <2> HIDE DEF T, U
  <2>3. Cardinality(T) <= Cardinality(U) /\ Cardinality(U) # Cardinality(T)
    BY <2>1, <2>2, FS_Subset
  <2>4. Cardinality(T) < Cardinality(U)
    BY <2>2, <2>3
  <2> QED
    BY <2>4 DEF T, U
<1>4. ASSUME Cardinality(S) <= n
      PROVE  first = S
  <2> SUFFICES ASSUME NEW i \in S PROVE Cardinality(below(i)) < n
    OBVIOUS
  <2>1. /\ Cardinality(below(i)) \in Nat /\ Cardinality(below(i)) < Cardinality(S)
    BY <1>2
  <2> HIDE DEF below
  <2> QED
    BY <1>1, <1>4, <2>1
<1>5. IsFiniteSet(first) /\ Cardinality(first) <= n
  <2> DEFINE f == [i \in first |-> Cardinality(below(i))]
             R == 0..(n - 1)
  <2>1. IsFiniteSet(R) /\ Cardinality(R) = n
    <3>1. n - 1 \in Int /\ 0 \in Int
      OBVIOUS
    <3>2. IsFiniteSet(R) /\ Cardinality(R) = IF 0 > n - 1 THEN 0 ELSE (n - 1) - 0 + 1
      BY <3>1, FS_Interval
    <3> QED
      BY <3>2
  <2>2. f \in [first -> R]
    <3> SUFFICES ASSUME NEW i \in first PROVE Cardinality(below(i)) \in R
      OBVIOUS
    <3>1. i \in S /\ Cardinality(below(i)) < n
      OBVIOUS
    <3>2. Cardinality(below(i)) \in Nat
      BY <1>2, <3>1
    <3> HIDE DEF below
    <3> QED
      BY <3>1, <3>2
  <2>3. \A i, j \in first : f[i] = f[j] => i = j
    <3> SUFFICES ASSUME NEW i \in first, NEW j \in first, f[i] = f[j] PROVE i = j
      OBVIOUS
    <3>1. i \in S /\ j \in S /\ i \in Nat /\ j \in Nat
      OBVIOUS
    <3>2. /\ Cardinality(below(i)) = Cardinality(below(j))
          /\ Cardinality(below(i)) \in Nat /\ Cardinality(below(j)) \in Nat
      <4>1. Cardinality(below(i)) = Cardinality(below(j))
        OBVIOUS
      <4> QED
        BY <1>2, <3>1, <4>1
    <3>3. ~(i < j) /\ ~(j < i)
      <4>1. i < j => Cardinality(below(i)) < Cardinality(below(j))
        BY <1>3, <3>1
      <4>2. j < i => Cardinality(below(j)) < Cardinality(below(i))
        BY <1>3, <3>1
      <4> HIDE DEF below
      <4> QED
        BY <3>2, <4>1, <4>2
    <3> QED
      BY <3>1, <3>3
  <2>4. f \in Injection(first, R)
    BY <2>2, <2>3 DEF Injection, IsInjective
  <2> HIDE DEF f, R, first
  <2> QED
    BY <2>1, <2>4, FS_Injection
<1> QED
  BY <1>4, <1>5

\* The lines kept, deleted and added make up both texts.
LEMMA KindsAdd ==
  ASSUME NEW L, NEW was \in Seq(L), NEW now \in Seq(L), NEW ops \in Seq(OpOf(L)),
         Spells(ops, {"same", "del"}, was), Spells(ops, {"same", "add"}, now)
  PROVE  LET kept == Cardinality(OfKind(ops, {"same"}))
             added == Cardinality(OfKind(ops, {"add"}))
             removed == Cardinality(OfKind(ops, {"del"}))
         IN  /\ kept \in Nat /\ added \in Nat /\ removed \in Nat
             /\ Len(was) = kept + removed /\ Len(now) = kept + added
<1> DEFINE S == OfKind(ops, {"same"})
           A == OfKind(ops, {"add"})
           D == OfKind(ops, {"del"})
           O == OfKind(ops, {"same", "del"})
           N == OfKind(ops, {"same", "add"})
<1>1. /\ S \cap A = {} /\ S \cap D = {} /\ O = S \cup D /\ N = S \cup A
  BY DEF OfKind
<1>2. /\ IsFiniteSet(S) /\ IsFiniteSet(A) /\ IsFiniteSet(D)
      /\ Cardinality(S) \in Nat /\ Cardinality(A) \in Nat /\ Cardinality(D) \in Nat
  BY PlacesOf
<1>3. Cardinality(O) = Len(was) /\ Cardinality(N) = Len(now)
  BY DEF Spells
<1> HIDE DEF S, A, D, O, N
<1>4. /\ Cardinality(S \cup D) = Cardinality(S) + Cardinality(D) - Cardinality(S \cap D)
      /\ Cardinality(S \cup A) = Cardinality(S) + Cardinality(A) - Cardinality(S \cap A)
  BY <1>2, FS_Union
<1>5. Cardinality(S \cap D) = 0 /\ Cardinality(S \cap A) = 0
  BY <1>1, FS_EmptySet
<1>6. Len(was) = Cardinality(S) + Cardinality(D) /\ Len(now) = Cardinality(S) + Cardinality(A)
  BY <1>1, <1>2, <1>3, <1>4, <1>5
<1> QED
  BY <1>2, <1>6 DEF S, A, D

\* The count of a diff that spells both texts.
LEMMA CountIsRight ==
  ASSUME NEW L, NEW was \in Seq(L), NEW now \in Seq(L), NEW ops \in Seq(OpOf(L)),
         Spells(ops, {"same", "del"}, was), Spells(ops, {"same", "add"}, now)
  PROVE  IF Counted(ops).truncated
         THEN Counted(ops).added + Counted(ops).removed <= MaxLines
         ELSE Counted(ops).added + Len(was) = Counted(ops).removed + Len(now)
<1> DEFINE S == OfKind(ops, {"same"})
           A == OfKind(ops, {"add"})
           D == OfKind(ops, {"del"})
           O == OfKind(ops, {"same", "del"})
           N == OfKind(ops, {"same", "add"})
           H == Hunks(ops)
           E == {i \in H : Cardinality({j \in H : j < i}) < MaxLines}
<1>1. /\ Counted(ops).added = Cardinality(E \cap A)
      /\ Counted(ops).removed = Cardinality(E \cap D)
      /\ Counted(ops).truncated = (Cardinality(H) > MaxLines)
  BY DEF Counted
<1>2. /\ S \cap A = {} /\ S \cap D = {} /\ A \cap D = {} /\ O = S \cup D /\ N = S \cup A
  BY DEF OfKind
<1>3. /\ IsFiniteSet(S) /\ IsFiniteSet(A) /\ IsFiniteSet(D)
      /\ Cardinality(S) \in Nat /\ Cardinality(A) \in Nat /\ Cardinality(D) \in Nat
      /\ A \subseteq 1..Len(ops) /\ D \subseteq 1..Len(ops)
  BY PlacesOf
<1>4. Cardinality(O) = Len(was) /\ Cardinality(N) = Len(now)
  BY DEF Spells
<1>5. A \subseteq H /\ D \subseteq H /\ H \subseteq 1..Len(ops) /\ Len(ops) \in Nat
  <2>1. Len(ops) \in Nat /\ DOMAIN ops = 1..Len(ops) /\ Context \in Nat
    BY LimitsAssumption
  <2>2. \A i \in 1..Len(ops) : i <= i + Context
    BY <2>1
  <2> QED
    BY <2>1, <2>2 DEF Hunks, OfKind
<1>6. IsFiniteSet(H) /\ Cardinality(H) \in Nat /\ H \in SUBSET Nat
  <2>1. IsFiniteSet(1..Len(ops))
    BY <1>5, FS_Interval
  <2> HIDE DEF H
  <2>2. IsFiniteSet(H)
    BY <1>5, <2>1, FS_Subset
  <2> QED
    BY <1>5, <2>2, FS_CardinalityType
<1>7. MaxLines \in Nat
  BY LimitsAssumption
<1> HIDE DEF S, A, D, O, N, H
<1>8. /\ Cardinality(H) <= MaxLines => E = H
      /\ IsFiniteSet(E) /\ Cardinality(E) <= MaxLines
  BY <1>6, <1>7, FirstOnes
<1>9. E \subseteq H
  OBVIOUS
<1> HIDE DEF E
<1>10. CASE Cardinality(H) > MaxLines
  <2> DEFINE X == E \cap A
             Y == E \cap D
  <2>1. X \in SUBSET E /\ Y \in SUBSET E /\ X \cup Y \in SUBSET E /\ X \cap Y = {}
    BY <1>2
  <2> HIDE DEF X, Y
  <2>2. IsFiniteSet(X) /\ IsFiniteSet(Y) /\ Cardinality(X \cup Y) <= Cardinality(E)
    BY <1>8, <2>1, FS_Subset
  <2>3. /\ Cardinality(X) \in Nat /\ Cardinality(Y) \in Nat /\ Cardinality(E) \in Nat
        /\ Cardinality(X \cap Y) = 0
    BY <1>8, <2>1, <2>2, FS_CardinalityType, FS_EmptySet
  <2>4. Cardinality(X \cup Y) = Cardinality(X) + Cardinality(Y) - Cardinality(X \cap Y)
    BY <2>2, FS_Union
  <2>5. Cardinality(X) + Cardinality(Y) <= MaxLines
    BY <1>7, <1>8, <2>2, <2>3, <2>4
  <2> QED
    BY <1>1, <1>10, <2>5 DEF X, Y
<1>11. CASE ~(Cardinality(H) > MaxLines)
  <2>1. E = H
    BY <1>6, <1>7, <1>8, <1>11
  <2>2. E \cap A = A /\ E \cap D = D
    BY <1>5, <2>1
  <2>3. Len(was) = Cardinality(S) + Cardinality(D) /\ Len(now) = Cardinality(S) + Cardinality(A)
    BY KindsAdd DEF S, D, A
  <2>4. Cardinality(A) + Len(was) = Cardinality(D) + Len(now)
    BY <1>3, <2>3
  <2> QED
    BY <1>1, <1>11, <2>2, <2>4
<1> QED
  BY <1>10, <1>11

\* The diff of any two texts turns the old one into the new one; it keeps as
\* many lines as any diff could, unless the texts are too large to compare;
\* and the count of its lines is exact or says that it is cut
\* (changeStat.ts, diffLines, unifiedDiffCount).
THEOREM DiffIsRight ==
  ASSUME NEW L
  PROVE  \A was, now \in Seq(L) : DiffIsRightFor(was, now)
<1> SUFFICES ASSUME NEW was \in Seq(L), NEW now \in Seq(L) PROVE DiffIsRightFor(was, now)
  OBVIOUS
<1> DEFINE ops == DiffLines(was, now)
           kept == Cardinality(OfKind(ops, {"same"}))
<1>1. /\ ops \in Seq(OpOf(L))
      /\ Spells(ops, {"same", "del"}, was) /\ Spells(ops, {"same", "add"}, now)
      /\ Len(was) * Len(now) <= MaxCells =>
           Bounded(was, now, 1, 1, Len(was), Len(now), kept)
  BY DiffOfParts
<1> HIDE DEF ops
<1>2. \E M \in Matchings(was, now) : Cardinality(M) = kept
  BY <1>1, KeptIsMatching
<1>3. Len(was) * Len(now) <= MaxCells => kept = LcsLength(was, now)
  <2> HIDE DEF kept
  <2> QED
    BY <1>1, <1>2, LcsIs
<1>4. IF Counted(ops).truncated
      THEN Counted(ops).added + Counted(ops).removed <= MaxLines
      ELSE Counted(ops).added + Len(was) = Counted(ops).removed + Len(now)
  BY <1>1, CountIsRight
<1> QED
  BY <1>1, <1>3, <1>4 DEF DiffIsRightFor, ops

-----------------------------------------------------------------------------
\* A value made step by step.
StepRule(N, A, base, F) == N \in Nat /\ base \in A /\ F \in [(1..N) \X A -> A]

StepsThrough(N, A, base, F, f) ==
  f \in [0..N -> A] /\ f[0] = base /\ \A n \in 1..N : f[n] = F[<<n, f[n - 1]>>]

LEMMA StepByStep ==
  ASSUME NEW N, NEW A, NEW base, NEW F, StepRule(N, A, base, F)
  PROVE  \E f : StepsThrough(N, A, base, F, f)
<1>1. N \in Nat /\ base \in A /\ F \in [(1..N) \X A -> A]
  BY DEF StepRule
<1> DEFINE D == 0..N
           Done == {0}
           rank == [n \in D |-> n]
           next == [n \in D |-> <<n - 1, n - 1, n - 1>>]
           out == [n \in D |-> base]
           G == [v \in D \X A \X A \X A |->
                   IF v[1] \in 1..N THEN F[<<v[1], v[2]>>] ELSE base]
<1>2. Descends(D, Done, rank, next)
  <2>1. ASSUME NEW n \in D \ Done, NEW c \in 1..3
        PROVE  next[n][c] \in D /\ rank[next[n][c]] < rank[n]
    <3>1. n - 1 \in D /\ n \in D /\ n - 1 < n
      BY <1>1
    <3>2. next[n][c] = n - 1
      BY <3>1
    <3> QED
      BY <3>1, <3>2
  <2>2. Done \subseteq D /\ rank \in [D -> Nat]
    BY <1>1
  <2> HIDE DEF D, Done, rank, next
  <2> QED
    BY <2>1, <2>2 DEF Descends
<1>3. Makes(D, Done, A, out, G)
  <2>1. G \in [D \X A \X A \X A -> A]
    BY <1>1
  <2>2. \A n \in Done : out[n] \in A
    BY <1>1
  <2> HIDE DEF D, Done, out, G
  <2> QED
    BY <2>1, <2>2 DEF Makes
<1>4. \A n \in D : rank[n] <= N
  BY <1>1
<1>5. PICK f \in [D -> A] : \A n \in D : f[n] = Asks(f, n, Done, next, out, G)
  <2> HIDE DEF D, Done, rank, next, out, G
  <2> QED
    BY <1>2, <1>3, <1>4, <1>1, Descent
<1>6. f[0] = base
  <2>1. 0 \in D /\ 0 \in Done /\ out[0] = base
    BY <1>1
  <2>2. f[0] = Asks(f, 0, Done, next, out, G)
    BY <1>5, <2>1
  <2> HIDE DEF D, Done, next, out, G
  <2> QED
    BY <2>1, <2>2 DEF Asks
<1>7. ASSUME NEW n \in 1..N
      PROVE  f[n] = F[<<n, f[n - 1]>>]
  <2>1. n \in D /\ n \notin Done /\ n - 1 \in D
    BY <1>1
  <2>2. next[n][1] = n - 1 /\ next[n][2] = n - 1 /\ next[n][3] = n - 1
    BY <2>1
  <2>3. f[n] = G[<<n, f[n - 1], f[n - 1], f[n - 1]>>]
    <3> HIDE DEF D, Done, next, G
    <3> QED
      BY <1>5, <2>1, <2>2 DEF Asks
  <2>4. f[n - 1] \in A
    BY <2>1
  <2> QED
    BY <1>1, <2>1, <2>3, <2>4
<1> QED
  BY <1>6, <1>7 DEF StepsThrough

\* What it means that a block is added to the file at place i.
BlockOf(P) == [path : P, added : Nat, removed : Nat]

AddedAt(o, b, r, i) ==
  /\ o[i].path = b.path /\ Len(r) = Len(o)
  /\ r[i] = [path |-> o[i].path, added |-> o[i].added + b.added,
             removed |-> o[i].removed + b.removed]
  /\ \A j \in 1..Len(o) : j # i => r[j] = o[j]

LEMMA AddToDoes ==
  ASSUME NEW P, NEW o \in Seq(BlockOf(P)), NEW b \in BlockOf(P)
  PROVE  /\ AddTo(o, b) \in Seq(BlockOf(P))
         /\ \/ \E i \in 1..Len(o) : AddedAt(o, b, AddTo(o, b), i)
            \/ /\ \A i \in 1..Len(o) : o[i].path # b.path
               /\ AddTo(o, b) = IF Len(o) >= MaxFiles THEN o ELSE Append(o, b)
<1> DEFINE at == {i \in DOMAIN o : o[i].path = b.path}
           r == AddTo(o, b)
           B == BlockOf(P)
<1>1. DOMAIN o = 1..Len(o) /\ Len(o) \in Nat
  OBVIOUS
<1>2. CASE at = {}
  <2>1. r = IF Len(o) >= MaxFiles THEN o ELSE Append(o, b)
    BY <1>2 DEF AddTo
  <2>2. r \in Seq(B)
    BY <2>1
  <2>3. \A i \in 1..Len(o) : o[i].path # b.path
    BY <1>1, <1>2
  <2> HIDE DEF r
  <2> QED
    BY <2>1, <2>2, <2>3 DEF r
<1>3. CASE at # {}
  <2> DEFINE i == CHOOSE j \in at : TRUE
             v == [path |-> o[i].path, added |-> o[i].added + b.added,
                   removed |-> o[i].removed + b.removed]
  <2>1. i \in at
    BY <1>3
  <2>2. r = [o EXCEPT ![i].added = @ + b.added, ![i].removed = @ + b.removed]
    BY <1>3 DEF AddTo
  <2> HIDE DEF i
  <2>3. i \in 1..Len(o) /\ o[i].path = b.path /\ o[i] \in B
    BY <1>1, <2>1
  <2>4. o[i] = [path |-> o[i].path, added |-> o[i].added, removed |-> o[i].removed]
    BY <2>3 DEF BlockOf
  <2>5. v \in B
    BY <2>3 DEF BlockOf
  <2>6. r = [o EXCEPT ![i] = v]
    BY <2>2, <2>3, <2>4
  <2> HIDE DEF v, r, B
  <2>7. r \in Seq(B) /\ Len(r) = Len(o) /\ r[i] = v /\ \A j \in 1..Len(o) : j # i => r[j] = o[j]
    BY <1>1, <2>3, <2>5, <2>6 DEF B
  <2> QED
    BY <2>3, <2>7 DEF AddedAt, v, r, B
<1> QED
  BY <1>2, <1>3


\* The files, block by block.
MergedGoesBy(edits, B, o) ==
  /\ o \in [0..Len(edits) -> Seq(B)] /\ o[0] = << >>
  /\ \A n \in 1..Len(edits) : o[n] = AddTo(o[n - 1], edits[n])
  /\ Merged(edits) = o[Len(edits)]

LEMMA MergedGoes ==
  ASSUME NEW P, NEW edits \in Seq(BlockOf(P))
  PROVE  \E o : MergedGoesBy(edits, BlockOf(P), o)
<1> DEFINE N == Len(edits)
           B == BlockOf(P)
           A == Seq(B)
           F == [v \in (1..N) \X A |-> AddTo(v[2], edits[v[1]])]
           Def(f) == [n \in 0..N |-> IF n = 0 THEN << >> ELSE AddTo(f[n - 1], edits[n])]
           o == CHOOSE f : f = Def(f)
<1>1. N \in Nat /\ << >> \in A /\ \A n \in 1..N : edits[n] \in B
  OBVIOUS
<1>2. \A v \in (1..N) \X A : AddTo(v[2], edits[v[1]]) \in A
  BY <1>1, AddToDoes
<1>3. F \in [(1..N) \X A -> A]
  BY <1>2
<1> DEFINE empty == << >>
<1>4. PICK f : StepsThrough(N, A, empty, F, f)
  <2>1. StepRule(N, A, empty, F)
    BY <1>1, <1>3 DEF StepRule
  <2> HIDE DEF A, F, N, empty
  <2> QED
    BY <2>1, StepByStep
<1> USE DEF StepsThrough
<1>5. ASSUME NEW n \in 0..N
      PROVE  f[n] = Def(f)[n]
  <2>1. CASE n = 0
    BY <1>4, <2>1
  <2>2. CASE n # 0
    <3>1. n \in 1..N /\ n - 1 \in 0..N
      BY <1>1, <2>2
    <3>2. f[n - 1] \in A /\ f[n] = F[<<n, f[n - 1]>>]
      BY <1>4, <3>1
    <3>3. F[<<n, f[n - 1]>>] = AddTo(f[n - 1], edits[n])
      BY <3>1, <3>2
    <3> QED
      BY <2>2, <3>1, <3>2, <3>3
  <2> QED
    BY <2>1, <2>2
<1>6. f = Def(f)
  <2>1. f = [n \in 0..N |-> f[n]]
    BY <1>4
  <2> QED
    BY <1>5, <2>1
<1>7. o = Def(o)
  <2> HIDE DEF Def
  <2> QED
    BY <1>6
<1>8. Merged(edits) = o[N]
  BY DEF Merged
<1> HIDE DEF o
<1>9. /\ DOMAIN o = 0..N /\ o = [n \in 0..N |-> o[n]] /\ o[0] = << >>
      /\ \A n \in 1..N : o[n] = AddTo(o[n - 1], edits[n])
  <2>1. \A n \in 0..N : o[n] = IF n = 0 THEN << >> ELSE AddTo(o[n - 1], edits[n])
    BY <1>7
  <2>2. DOMAIN o = 0..N /\ o = [n \in 0..N |-> o[n]]
    BY <1>7
  <2>3. 0 \in 0..N /\ \A n \in 1..N : n \in 0..N /\ n # 0
    BY <1>1
  <2> QED
    BY <2>1, <2>2, <2>3
<1>10. \A n \in 0..N : o[n] \in A
  <2> DEFINE Bad == {n \in 0..N : o[n] \notin A}
  <2> SUFFICES ASSUME Bad # {} PROVE FALSE
    OBVIOUS
  <2>1. Bad \in SUBSET Nat
    BY <1>1
  <2>2. PICK n \in Bad : \A k \in Bad : n <= k
    <3> HIDE DEF Bad
    <3> QED
      BY <2>1, LeastOne
  <2>3. n # 0
    BY <1>1, <1>9
  <2>4. n \in 1..N /\ n - 1 \in 0..N /\ ~(n <= n - 1)
    BY <1>1, <2>3
  <2>5. o[n - 1] \in A
    BY <2>2, <2>4
  <2>6. AddTo(o[n - 1], edits[n]) \in A
    BY <1>1, <2>4, <2>5, AddToDoes
  <2> QED
    BY <1>9, <2>4, <2>6
<1>11. o \in [0..N -> A]
  BY <1>9, <1>10
<1>12. MergedGoesBy(edits, B, o)
  BY <1>8, <1>9, <1>11 DEF MergedGoesBy
<1> QED
  BY <1>12

\* The sums of a file, block by block.
SumsGoBy(edits, p, s) ==
  /\ s[0] = [added |-> 0, removed |-> 0]
  /\ \A n \in 1..Len(edits) :
       s[n] = IF edits[n].path # p THEN s[n - 1]
              ELSE [added |-> s[n - 1].added + edits[n].added,
                    removed |-> s[n - 1].removed + edits[n].removed]

LEMMA SumsGo ==
  ASSUME NEW P, NEW edits \in Seq(BlockOf(P)), NEW p
  PROVE  SumsGoBy(edits, p, Sums(edits, p))
<1> DEFINE N == Len(edits)
           A == [added : Nat, removed : Nat]
           zero == [added |-> 0, removed |-> 0]
           F == [v \in (1..N) \X A |->
                   IF edits[v[1]].path # p THEN v[2]
                   ELSE [added |-> v[2].added + edits[v[1]].added,
                         removed |-> v[2].removed + edits[v[1]].removed]]
           Def(f) == [n \in 0..N |->
                        IF n = 0 THEN zero
                        ELSE IF edits[n].path # p THEN f[n - 1]
                        ELSE [added |-> f[n - 1].added + edits[n].added,
                              removed |-> f[n - 1].removed + edits[n].removed]]
           s == Sums(edits, p)
<1>1. /\ N \in Nat /\ zero \in A
      /\ \A n \in 1..N : edits[n].added \in Nat /\ edits[n].removed \in Nat
  <2>1. N \in Nat /\ zero \in A
    OBVIOUS
  <2>2. \A n \in 1..N : edits[n] \in BlockOf(P)
    OBVIOUS
  <2> QED
    BY <2>1, <2>2 DEF BlockOf
<1>2. F \in [(1..N) \X A -> A]
  BY <1>1
<1>3. PICK f : StepsThrough(N, A, zero, F, f)
  <2>1. StepRule(N, A, zero, F)
    BY <1>1, <1>2 DEF StepRule
  <2> HIDE DEF A, F, N, zero
  <2> QED
    BY <2>1, StepByStep
<1> USE DEF StepsThrough
<1> HIDE DEF zero
<1>4. ASSUME NEW n \in 0..N
      PROVE  f[n] = Def(f)[n]
  <2>1. CASE n = 0
    BY <1>3, <2>1
  <2>2. CASE n # 0
    <3>1. n \in 1..N /\ n - 1 \in 0..N
      BY <1>1, <2>2
    <3>2. f[n - 1] \in A /\ f[n] = F[<<n, f[n - 1]>>]
      BY <1>3, <3>1
    <3> DEFINE v == <<n, f[n - 1]>>
    <3>3. v \in (1..N) \X A /\ v[1] = n /\ v[2] = f[n - 1]
      BY <3>1, <3>2
    <3> HIDE DEF v
    <3>4. F[v] = IF edits[n].path # p THEN f[n - 1]
                 ELSE [added |-> f[n - 1].added + edits[n].added,
                       removed |-> f[n - 1].removed + edits[n].removed]
      BY <3>3
    <3> QED
      BY <2>2, <3>1, <3>2, <3>4 DEF v
  <2> QED
    BY <2>1, <2>2
<1>5. f = Def(f)
  <2>1. f = [n \in 0..N |-> f[n]]
    BY <1>3
  <2> QED
    BY <1>4, <2>1
<1>6. s = CHOOSE g : g = Def(g)
  BY DEF Sums, zero
<1>7. s = Def(s)
  <2> HIDE DEF Def, s
  <2> QED
    BY <1>5, <1>6
<1> HIDE DEF s
<1>8. \A n \in 0..N : s[n] = Def(s)[n]
  BY <1>7
<1>9. 0 \in 0..N /\ \A n \in 1..N : n \in 0..N /\ n # 0
  BY <1>1
<1> QED
  BY <1>8, <1>9 DEF SumsGoBy, s, zero


LEMMA UnseenHasNone ==
  ASSUME NEW P, NEW edits \in Seq(BlockOf(P)), NEW p, NEW n \in 0..Len(edits),
         \A k \in 1..n : edits[k].path # p
  PROVE  Sums(edits, p)[n] = [added |-> 0, removed |-> 0]
<1> DEFINE s == Sums(edits, p)
           zero == [added |-> 0, removed |-> 0]
           Bad == {m \in 0..n : s[m] # zero}
<1>1. SumsGoBy(edits, p, s)
  BY SumsGo
<1> HIDE DEF s, zero
<1>2. s[0] = zero /\ \A m \in 1..Len(edits) : edits[m].path # p => s[m] = s[m - 1]
  BY <1>1 DEF SumsGoBy, zero
<1>3. n \in Nat /\ n <= Len(edits) /\ Len(edits) \in Nat
  OBVIOUS
<1>4. Bad = {}
  <2> SUFFICES ASSUME Bad # {} PROVE FALSE
    OBVIOUS
  <2>1. Bad \in SUBSET Nat
    BY <1>3
  <2>2. PICK m \in Bad : \A k \in Bad : m <= k
    <3> HIDE DEF Bad
    <3> QED
      BY <2>1, LeastOne
  <2>3. m \in 0..n /\ s[m] # zero
    OBVIOUS
  <2>4. m # 0
    BY <1>2, <2>3
  <2>5. m \in 1..n /\ m \in 1..Len(edits) /\ m - 1 \in 0..n /\ ~(m <= m - 1)
    BY <1>3, <2>3, <2>4
  <2>6. s[m - 1] = zero
    BY <2>2, <2>5
  <2> QED
    BY <1>2, <2>3, <2>5, <2>6
<1>5. n \in 0..n
  BY <1>3
<1> QED
  BY <1>4, <1>5 DEF s, zero

\* The files of a list, and the blocks that are the first ones of a file that
\* the limit allows.
PathsIn(list) == {list[i].path : i \in DOMAIN list}

Firsts(edits) ==
  {i \in DOMAIN edits : \A j \in 1..(i - 1) : edits[j].path # edits[i].path}

KeptFiles(edits) ==
  {i \in Firsts(edits) : Cardinality({j \in Firsts(edits) : j < i}) < MaxFiles}

KeptUpTo(edits, n) == {k \in KeptFiles(edits) : k <= n}

MergeInv(edits, n, o) ==
  /\ \A i, j \in 1..Len(o) : o[i].path = o[j].path => i = j
  /\ Len(o) <= MaxFiles
  /\ PathsIn(o) = {edits[k].path : k \in KeptUpTo(edits, n)}
  /\ Len(o) = Cardinality(KeptUpTo(edits, n))
  /\ Len(o) < MaxFiles => \A k \in 1..n : edits[k].path \in PathsIn(o)
  /\ \A i \in 1..Len(o) :
       Sums(edits, o[i].path)[n] = [added |-> o[i].added, removed |-> o[i].removed]

LEMMA KeptGrows ==
  ASSUME NEW P, NEW edits \in Seq(BlockOf(P)), NEW n \in 1..Len(edits)
  PROVE  /\ KeptUpTo(edits, n) = KeptUpTo(edits, n - 1)
                                    \cup (IF n \in KeptFiles(edits) THEN {n} ELSE {})
         /\ n \notin KeptUpTo(edits, n - 1) /\ KeptUpTo(edits, n - 1) \subseteq 1..(n - 1)
         /\ IsFiniteSet(KeptUpTo(edits, n - 1))
         /\ Cardinality(KeptUpTo(edits, n - 1)) \in Nat
         /\ Cardinality(KeptUpTo(edits, n))
              = Cardinality(KeptUpTo(edits, n - 1)) + IF n \in KeptFiles(edits) THEN 1 ELSE 0
<1> DEFINE K == KeptFiles(edits)
           X == KeptUpTo(edits, n)
           Y == KeptUpTo(edits, n - 1)
<1>1. K \subseteq 1..Len(edits) /\ Len(edits) \in Nat
  BY DEF KeptFiles, Firsts
<1>2. X = {k \in K : k <= n} /\ Y = {k \in K : k <= n - 1}
  BY DEF KeptUpTo
<1> HIDE DEF K, X, Y
<1>3. \A k \in K : k \in Nat /\ k >= 1 /\ (k <= n <=> k <= n - 1 \/ k = n)
  BY <1>1
<1>4. n \notin Y /\ Y \subseteq 1..(n - 1)
  <2>1. ~(n <= n - 1) /\ \A k \in K : k <= n - 1 => k \in 1..(n - 1)
    BY <1>3
  <2> QED
    BY <1>2, <2>1
<1>5. X = Y \cup (IF n \in K THEN {n} ELSE {})
  <2>1. \A k : k \in X <=> k \in Y \/ (k = n /\ n \in K)
    BY <1>2, <1>3
  <2> QED
    BY <2>1
<1>6. IsFiniteSet(Y) /\ Cardinality(Y) \in Nat
  <2>1. IsFiniteSet(1..(n - 1))
    BY FS_Interval
  <2>2. IsFiniteSet(Y)
    BY <1>4, <2>1, FS_Subset
  <2> QED
    BY <2>2, FS_CardinalityType
<1>7. Cardinality(X) = Cardinality(Y) + IF n \in K THEN 1 ELSE 0
  <2>1. CASE n \in K
    <3>1. X = Y \cup {n}
      BY <1>5, <2>1
    <3>2. Cardinality(Y \cup {n}) = Cardinality(Y) + 1
      BY <1>4, <1>6, FS_AddElement
    <3> QED
      BY <2>1, <3>1, <3>2
  <2>2. CASE n \notin K
    <3>1. X = Y
      BY <1>5, <2>2
    <3> QED
      BY <1>6, <2>2, <3>1
  <2> QED
    BY <2>1, <2>2
<1> QED
  BY <1>4, <1>5, <1>6, <1>7 DEF K, X, Y

\* A block of a file that is there already.
LEMMA SeenFileMerges ==
  ASSUME NEW P, NEW edits \in Seq(BlockOf(P)), NEW n \in 1..Len(edits),
         NEW o \in Seq(BlockOf(P)), MergeInv(edits, n - 1, o),
         NEW r \in Seq(BlockOf(P)), NEW i \in 1..Len(o), AddedAt(o, edits[n], r, i)
  PROVE  MergeInv(edits, n, r)
<1> DEFINE b == edits[n]
<1>1. /\ \A x, y \in 1..Len(o) : o[x].path = o[y].path => x = y
      /\ Len(o) <= MaxFiles
      /\ PathsIn(o) = {edits[k].path : k \in KeptUpTo(edits, n - 1)}
      /\ Len(o) = Cardinality(KeptUpTo(edits, n - 1))
      /\ Len(o) < MaxFiles => \A k \in 1..(n - 1) : edits[k].path \in PathsIn(o)
      /\ \A x \in 1..Len(o) :
           Sums(edits, o[x].path)[n - 1] = [added |-> o[x].added, removed |-> o[x].removed]
  BY DEF MergeInv
<1>2. /\ o[i].path = b.path /\ Len(r) = Len(o)
      /\ r[i] = [path |-> o[i].path, added |-> o[i].added + b.added,
                 removed |-> o[i].removed + b.removed]
      /\ \A x \in 1..Len(o) : x # i => r[x] = o[x]
  BY DEF AddedAt
<1>3. DOMAIN o = 1..Len(o) /\ DOMAIN r = 1..Len(o)
  BY <1>2
<1>4. \A x \in 1..Len(o) : r[x].path = o[x].path
  BY <1>2
<1>5. PathsIn(r) = PathsIn(o)
  BY <1>3, <1>4 DEF PathsIn
<1>6. b.path \in PathsIn(o)
  BY <1>2, <1>3 DEF PathsIn
<1>7. n \notin KeptFiles(edits)
  <2>1. PICK k \in KeptUpTo(edits, n - 1) : b.path = edits[k].path
    BY <1>1, <1>6
  <2>2. k \in 1..(n - 1)
    BY KeptGrows
  <2>3. n \notin Firsts(edits)
    BY <2>1, <2>2 DEF Firsts
  <2> QED
    BY <2>3 DEF KeptFiles
<1>8. /\ KeptUpTo(edits, n) = KeptUpTo(edits, n - 1)
      /\ Cardinality(KeptUpTo(edits, n)) = Cardinality(KeptUpTo(edits, n - 1))
  <2>1. KeptUpTo(edits, n) = KeptUpTo(edits, n - 1) \cup {}
    BY <1>7, KeptGrows
  <2> QED
    BY <2>1
<1>9. \A k \in 1..n : k = n \/ k \in 1..(n - 1)
  OBVIOUS
<1>10. ASSUME NEW x \in 1..Len(o)
       PROVE  Sums(edits, r[x].path)[n] = [added |-> r[x].added, removed |-> r[x].removed]
  <2> DEFINE s == Sums(edits, o[x].path)
  <2>1. s[n] = IF b.path # o[x].path THEN s[n - 1]
               ELSE [added |-> s[n - 1].added + b.added, removed |-> s[n - 1].removed + b.removed]
    <3>1. SumsGoBy(edits, o[x].path, s)
      BY SumsGo
    <3> HIDE DEF s
    <3> QED
      BY <3>1 DEF SumsGoBy
  <2>2. s[n - 1] = [added |-> o[x].added, removed |-> o[x].removed]
    BY <1>1
  <2> HIDE DEF s
  <2>3. CASE x = i
    BY <1>2, <2>1, <2>2, <2>3 DEF s
  <2>4. CASE x # i
    <3>1. b.path # o[x].path
      BY <1>1, <1>2, <2>4
    <3>2. r[x] = o[x]
      BY <1>2, <2>4
    <3> QED
      BY <2>1, <2>2, <3>1, <3>2 DEF s
  <2> QED
    BY <2>3, <2>4
<1>11. Len(r) < MaxFiles => \A k \in 1..n : edits[k].path \in PathsIn(r)
  BY <1>1, <1>2, <1>5, <1>6, <1>9
<1>12. \A x, y \in 1..Len(r) : r[x].path = r[y].path => x = y
  BY <1>1, <1>2, <1>4
<1> QED
  BY <1>1, <1>2, <1>5, <1>8, <1>10, <1>11, <1>12 DEF MergeInv


\* A block of a file that is not there, behind the limit and before it.
LEMMA LaterFileIsLeft ==
  ASSUME NEW P, NEW edits \in Seq(BlockOf(P)), NEW n \in 1..Len(edits),
         NEW o \in Seq(BlockOf(P)), MergeInv(edits, n - 1, o), Len(o) >= MaxFiles,
         \A i \in 1..Len(o) : o[i].path # edits[n].path
  PROVE  MergeInv(edits, n, o)
<1>1. /\ Len(o) <= MaxFiles /\ Len(o) \in Nat /\ MaxFiles \in Nat
      /\ Len(o) = Cardinality(KeptUpTo(edits, n - 1))
  BY LimitsAssumption DEF MergeInv
<1>2. n \notin KeptFiles(edits)
  <2> SUFFICES ASSUME n \in KeptFiles(edits) PROVE FALSE
    OBVIOUS
  <2> DEFINE E == {j \in Firsts(edits) : j < n}
             Y == KeptUpTo(edits, n - 1)
  <2>1. Cardinality(E) < MaxFiles
    BY DEF KeptFiles
  <2>2. Y \subseteq 1..(n - 1) /\ Y \subseteq Firsts(edits)
    <3>1. Y \subseteq 1..(n - 1)
      BY KeptGrows
    <3> QED
      BY <3>1 DEF KeptUpTo, KeptFiles
  <2>3. \A k \in 1..(n - 1) : k < n
    OBVIOUS
  <2>4. E \subseteq 1..(n - 1)
    <3>1. Firsts(edits) \subseteq 1..Len(edits)
      BY DEF Firsts
    <3> QED
      BY <3>1
  <2> HIDE DEF Y
  <2>5. Y \in SUBSET E
    BY <2>2, <2>3
  <2> HIDE DEF E
  <2>6. IsFiniteSet(E)
    <3>1. IsFiniteSet(1..(n - 1))
      BY FS_Interval
    <3> QED
      BY <2>4, <3>1, FS_Subset
  <2>7. Cardinality(Y) <= Cardinality(E) /\ Cardinality(E) \in Nat
    BY <2>5, <2>6, FS_Subset, FS_CardinalityType
  <2> QED
    BY <1>1, <2>1, <2>7 DEF Y
<1>3. /\ KeptUpTo(edits, n) = KeptUpTo(edits, n - 1)
      /\ Cardinality(KeptUpTo(edits, n)) = Cardinality(KeptUpTo(edits, n - 1))
  <2>1. KeptUpTo(edits, n) = KeptUpTo(edits, n - 1) \cup {}
    BY <1>2, KeptGrows
  <2> QED
    BY <2>1
<1>4. ASSUME NEW x \in 1..Len(o)
      PROVE  Sums(edits, o[x].path)[n] = [added |-> o[x].added, removed |-> o[x].removed]
  <2> DEFINE s == Sums(edits, o[x].path)
  <2>1. s[n] = s[n - 1]
    <3>1. SumsGoBy(edits, o[x].path, s)
      BY SumsGo
    <3> HIDE DEF s
    <3> QED
      BY <3>1 DEF SumsGoBy
  <2>2. s[n - 1] = [added |-> o[x].added, removed |-> o[x].removed]
    BY DEF MergeInv
  <2> HIDE DEF s
  <2> QED
    BY <2>1, <2>2 DEF s
<1>5. ~(Len(o) < MaxFiles)
  BY <1>1
<1> QED
  BY <1>1, <1>3, <1>4, <1>5 DEF MergeInv

LEMMA NewFileMerges ==
  ASSUME NEW P, NEW edits \in Seq(BlockOf(P)), NEW n \in 1..Len(edits),
         NEW o \in Seq(BlockOf(P)), MergeInv(edits, n - 1, o), ~(Len(o) >= MaxFiles),
         \A i \in 1..Len(o) : o[i].path # edits[n].path
  PROVE  MergeInv(edits, n, Append(o, edits[n]))
<1> DEFINE b == edits[n]
           r == Append(o, b)
           l == Len(o)
           K == KeptUpTo(edits, n - 1)
<1>1. /\ \A x, y \in 1..l : o[x].path = o[y].path => x = y
      /\ PathsIn(o) = {edits[k].path : k \in K}
      /\ l = Cardinality(K)
      /\ \A x \in 1..l :
           Sums(edits, o[x].path)[n - 1] = [added |-> o[x].added, removed |-> o[x].removed]
  BY DEF MergeInv
<1>2. l \in Nat /\ MaxFiles \in Nat /\ l < MaxFiles /\ b \in BlockOf(P)
  BY LimitsAssumption
<1>3. \A k \in 1..(n - 1) : edits[k].path \in PathsIn(o)
  BY <1>2 DEF MergeInv
<1>4. b.path \notin PathsIn(o)
  BY DEF PathsIn
<1>5. \A k \in 1..(n - 1) : edits[k].path # b.path
  BY <1>3, <1>4
<1>6. /\ r \in Seq(BlockOf(P)) /\ Len(r) = l + 1 /\ r[l + 1] = b /\ \A x \in 1..l : r[x] = o[x]
      /\ \A x \in 1..(l + 1) : x \in 1..l \/ x = l + 1
  BY <1>2
<1> HIDE DEF r
<1>7. n \in Firsts(edits)
  BY <1>5 DEF Firsts
<1>8. {j \in Firsts(edits) : j < n} = K
  <2>1. /\ K \subseteq 1..(n - 1) /\ K \subseteq Firsts(edits)
        /\ Firsts(edits) \subseteq 1..Len(edits)
    <3>1. K \subseteq 1..(n - 1)
      BY KeptGrows
    <3> QED
      BY <3>1 DEF KeptUpTo, KeptFiles, Firsts
  <2>2. ASSUME NEW j \in Firsts(edits), j < n
        PROVE  j \in K
    <3>1. j \in 1..(n - 1)
      BY <2>1, <2>2
    <3>2. PICK k \in K : edits[j].path = edits[k].path
      BY <1>1, <1>3, <3>1
    <3>3. k \in Firsts(edits) /\ k \in Nat /\ j \in Nat /\ k >= 1 /\ j >= 1
      BY <2>1, <3>1
    <3>4. ~(j < k)
      <4> SUFFICES ASSUME j < k PROVE FALSE
        OBVIOUS
      <4>1. j \in 1..(k - 1)
        BY <3>3
      <4> QED
        BY <3>2, <3>3, <4>1 DEF Firsts
    <3>5. ~(k < j)
      <4> SUFFICES ASSUME k < j PROVE FALSE
        OBVIOUS
      <4>1. k \in 1..(j - 1)
        BY <3>3
      <4> QED
        BY <3>2, <3>3, <4>1 DEF Firsts
    <3>6. j = k
      BY <3>3, <3>4, <3>5
    <3> QED
      BY <3>6
  <2>3. \A k \in 1..(n - 1) : k < n
    OBVIOUS
  <2> HIDE DEF K
  <2> QED
    BY <2>1, <2>2, <2>3
<1>9. n \in KeptFiles(edits)
  BY <1>1, <1>2, <1>7, <1>8 DEF KeptFiles
<1>10. /\ KeptUpTo(edits, n) = K \cup {n}
       /\ Cardinality(KeptUpTo(edits, n)) = l + 1
  BY <1>1, <1>9, KeptGrows
<1>11. PathsIn(r) = PathsIn(o) \cup {b.path}
  <2>1. DOMAIN r = 1..(l + 1) /\ DOMAIN o = 1..l
    BY <1>6
  <2>2. 1..(l + 1) = 1..l \cup {l + 1}
    BY <1>2
  <2> QED
    BY <1>6, <2>1, <2>2 DEF PathsIn
<1>12. PathsIn(r) = {edits[k].path : k \in KeptUpTo(edits, n)}
  <2> HIDE DEF K
  <2> QED
    BY <1>1, <1>10, <1>11
<1>13. \A k \in 1..n : edits[k].path \in PathsIn(r)
  <2>1. \A k \in 1..n : k = n \/ k \in 1..(n - 1)
    OBVIOUS
  <2> QED
    BY <1>3, <1>11, <2>1
<1>14. \A x, y \in 1..(l + 1) : r[x].path = r[y].path => x = y
  <2>1. \A x \in 1..l : r[x].path # b.path
    BY <1>6
  <2> QED
    BY <1>1, <1>6, <2>1
<1>15. ASSUME NEW x \in 1..(l + 1)
       PROVE  Sums(edits, r[x].path)[n] = [added |-> r[x].added, removed |-> r[x].removed]
  <2> DEFINE s == Sums(edits, r[x].path)
  <2>1. s[n] = IF b.path # r[x].path THEN s[n - 1]
               ELSE [added |-> s[n - 1].added + b.added, removed |-> s[n - 1].removed + b.removed]
    <3>1. SumsGoBy(edits, r[x].path, s)
      BY SumsGo
    <3> HIDE DEF s
    <3> QED
      BY <3>1 DEF SumsGoBy
  <2>2. CASE x \in 1..l
    <3>1. r[x] = o[x] /\ b.path # r[x].path
      BY <1>6, <2>2
    <3>2. s[n - 1] = [added |-> o[x].added, removed |-> o[x].removed]
      BY <1>1, <2>2, <3>1
    <3> HIDE DEF s
    <3> QED
      BY <2>1, <3>1, <3>2 DEF s
  <2>3. CASE x = l + 1
    <3>1. r[x] = b
      BY <1>6, <2>3
    <3>2. s[n - 1] = [added |-> 0, removed |-> 0]
      <4> DEFINE k == n - 1
                 p == r[x].path
      <4>1. k \in 0..Len(edits)
        OBVIOUS
      <4>2. \A j \in 1..k : edits[j].path # p
        BY <1>5, <3>1
      <4> HIDE DEF k, p
      <4>3. Sums(edits, p)[k] = [added |-> 0, removed |-> 0]
        BY <4>1, <4>2, UnseenHasNone
      <4> QED
        BY <4>3 DEF k, p
    <3>3. b.added \in Nat /\ b.removed \in Nat
      BY <1>2 DEF BlockOf
    <3> HIDE DEF s
    <3> QED
      BY <2>1, <3>1, <3>2, <3>3 DEF s
  <2> QED
    BY <1>6, <2>2, <2>3
<1>16. l + 1 <= MaxFiles
  BY <1>2
<1> QED
  BY <1>6, <1>10, <1>12, <1>13, <1>14, <1>15, <1>16 DEF MergeInv, r


LEMMA MergeInvAtEnd ==
  ASSUME NEW P, NEW edits \in Seq(BlockOf(P))
  PROVE  Merged(edits) \in Seq(BlockOf(P)) /\ MergeInv(edits, Len(edits), Merged(edits))
<1> DEFINE N == Len(edits)
           B == BlockOf(P)
<1>1. PICK o : MergedGoesBy(edits, B, o)
  BY MergedGoes
<1>2. /\ o \in [0..N -> Seq(B)] /\ o[0] = << >>
      /\ \A n \in 1..N : o[n] = AddTo(o[n - 1], edits[n])
      /\ Merged(edits) = o[N]
  BY <1>1 DEF MergedGoesBy
<1>3. N \in Nat
  OBVIOUS
<1> DEFINE Bad == {n \in 0..N : ~MergeInv(edits, n, o[n])}
<1>4. MergeInv(edits, 0, o[0])
  <2>1. PathsIn(<< >>) = {} /\ Len(<< >>) = 0 /\ MaxFiles \in Nat
    BY LimitsAssumption DEF PathsIn
  <2>2. KeptUpTo(edits, 0) = {}
    <3>1. \A k \in KeptFiles(edits) : k \in 1..N
      BY DEF KeptFiles, Firsts
    <3> QED
      BY <1>3, <3>1 DEF KeptUpTo
  <2>3. Cardinality(KeptUpTo(edits, 0)) = 0
    BY <2>2, FS_EmptySet
  <2> QED
    BY <1>2, <2>1, <2>2, <2>3 DEF MergeInv
<1>5. Bad = {}
  <2> SUFFICES ASSUME Bad # {} PROVE FALSE
    OBVIOUS
  <2>1. Bad \in SUBSET Nat
    BY <1>3
  <2>2. PICK n \in Bad : \A k \in Bad : n <= k
    <3> HIDE DEF Bad
    <3> QED
      BY <2>1, LeastOne
  <2>3. n \in 0..N /\ n # 0
    BY <1>4
  <2>4. n \in 1..N /\ n - 1 \in 0..N /\ ~(n <= n - 1)
    BY <1>3, <2>3
  <2>5. MergeInv(edits, n - 1, o[n - 1])
    BY <2>2, <2>4
  <2> DEFINE q == o[n - 1]
             b == edits[n]
  <2>6. q \in Seq(B) /\ b \in B /\ o[n] = AddTo(q, b)
    <3>1. b \in B
      BY <2>4
    <3> HIDE DEF B, N, Bad
    <3> QED
      BY <1>2, <2>4, <3>1
  <2> HIDE DEF q
  <2>7. MergeInv(edits, n - 1, q)
    BY <2>5 DEF q
  <2>8. /\ AddTo(q, b) \in Seq(B)
        /\ \/ \E i \in 1..Len(q) : AddedAt(q, b, AddTo(q, b), i)
           \/ /\ \A i \in 1..Len(q) : q[i].path # b.path
              /\ AddTo(q, b) = IF Len(q) >= MaxFiles THEN q ELSE Append(q, b)
    BY <2>6, AddToDoes
  <2>9. CASE \E i \in 1..Len(q) : AddedAt(q, b, AddTo(q, b), i)
    BY <2>2, <2>4, <2>6, <2>7, <2>8, <2>9, SeenFileMerges
  <2>10. CASE /\ \A i \in 1..Len(q) : q[i].path # b.path
              /\ AddTo(q, b) = IF Len(q) >= MaxFiles THEN q ELSE Append(q, b)
    <3>1. CASE Len(q) >= MaxFiles
      <4>1. MergeInv(edits, n, q)
        BY <2>4, <2>6, <2>7, <2>10, <3>1, LaterFileIsLeft
      <4> QED
        BY <2>2, <2>6, <2>10, <3>1, <4>1
    <3>2. CASE ~(Len(q) >= MaxFiles)
      <4>1. MergeInv(edits, n, Append(q, b))
        BY <2>4, <2>6, <2>7, <2>10, <3>2, NewFileMerges
      <4> QED
        BY <2>2, <2>6, <2>10, <3>2, <4>1
    <3> QED
      BY <3>1, <3>2
  <2> QED
    BY <2>8, <2>9, <2>10
<1>6. N \in 0..N /\ o[N] \in Seq(B)
  BY <1>2, <1>3
<1>7. MergeInv(edits, N, o[N])
  BY <1>5, <1>6
<1> QED
  BY <1>2, <1>6, <1>7

\* The files of a tool call, for any blocks: the sums of each file are those
\* of its blocks, and the files are the first ones, as many as the limit
\* allows (changeStat.ts, merge, changeStatFromDiffBlocks).
THEOREM MergeIsRight ==
  ASSUME NEW P
  PROVE  \A edits \in Seq(BlockOf(P)) : MergeIsRightFor(edits)
<1> SUFFICES ASSUME NEW edits \in Seq(BlockOf(P)) PROVE MergeIsRightFor(edits)
  OBVIOUS
<1> DEFINE N == Len(edits)
           out == Merged(edits)
           l == Len(out)
           c == Cardinality(PathsIn(edits))
<1>1. out \in Seq(BlockOf(P)) /\ MergeInv(edits, N, out)
  BY MergeInvAtEnd
<1> HIDE DEF out
<1>2. /\ \A x, y \in 1..l : out[x].path = out[y].path => x = y
      /\ l <= MaxFiles
      /\ PathsIn(out) = {edits[k].path : k \in KeptUpTo(edits, N)}
      /\ l < MaxFiles => \A k \in 1..N : edits[k].path \in PathsIn(out)
      /\ \A x \in 1..l :
           Sums(edits, out[x].path)[N] = [added |-> out[x].added, removed |-> out[x].removed]
  BY <1>1 DEF MergeInv
<1>3. /\ N \in Nat /\ l \in Nat /\ MaxFiles \in Nat
      /\ DOMAIN out = 1..l /\ DOMAIN edits = 1..N
  BY <1>1, LimitsAssumption
<1>4. KeptUpTo(edits, N) = KeptFiles(edits)
  <2>1. \A k \in KeptFiles(edits) : k <= N
    BY <1>3 DEF KeptFiles, Firsts
  <2> QED
    BY <2>1 DEF KeptUpTo
<1>5. PathsIn(out) = {edits[i].path : i \in KeptFiles(edits)}
  BY <1>2, <1>4
<1>6. IsFiniteSet(PathsIn(out)) /\ Cardinality(PathsIn(out)) = l
  <2> DEFINE f == [x \in 1..l |-> out[x].path]
             T == PathsIn(out)
  <2>1. T = {out[x].path : x \in 1..l}
    BY <1>3 DEF PathsIn
  <2>2. f \in [1..l -> T]
    BY <2>1
  <2>3. f \in Injection(1..l, T)
    BY <1>2, <2>2 DEF Injection, IsInjective
  <2>4. f \in Surjection(1..l, T)
    BY <2>1, <2>2 DEF Surjection
  <2>5. ExistsBijection(1..l, T)
    BY <2>3, <2>4 DEF ExistsBijection, Bijection
  <2>6. IsFiniteSet(1..l) /\ Cardinality(1..l) = l
    <3>1. IsFiniteSet(1..l) /\ Cardinality(1..l) = IF 1 > l THEN 0 ELSE l - 1 + 1
      <4> HIDE DEF l
      <4>1. 1 \in Int /\ l \in Int
        BY <1>3
      <4> QED
        BY <4>1, FS_Interval
    <3> QED
      BY <1>3, <3>1
  <2> HIDE DEF T
  <2>7. IsFiniteSet(T) /\ Cardinality(T) = Cardinality(1..l)
    BY <2>5, <2>6, FS_Bijection
  <2> QED
    BY <2>6, <2>7 DEF T
<1>7. PathsIn(out) \subseteq PathsIn(edits)
  BY <1>5 DEF PathsIn, KeptFiles, Firsts
<1>8. IsFiniteSet(PathsIn(edits)) /\ c \in Nat
  <2>1. IsFiniteSet(1..N)
    BY <1>3, FS_Interval
  <2> DEFINE f == [k \in 1..N |-> edits[k].path]
             T == PathsIn(edits)
  <2>2. f \in Surjection(1..N, T)
    BY <1>3 DEF PathsIn, Surjection
  <2> HIDE DEF T
  <2>3. IsFiniteSet(T)
    BY <2>1, <2>2, FS_Surjection
  <2> QED
    BY <2>3, FS_CardinalityType DEF T
<1>9. l <= c
  BY <1>6, <1>7, <1>8, FS_Subset
<1>10. l < MaxFiles => l = c
  <2> SUFFICES ASSUME l < MaxFiles PROVE l = c
    OBVIOUS
  <2>1. PathsIn(edits) \subseteq PathsIn(out)
    BY <1>2, <1>3 DEF PathsIn
  <2>2. PathsIn(edits) = PathsIn(out)
    BY <1>7, <2>1
  <2> QED
    BY <1>6, <2>2
<1> HIDE DEF l, c, N
<1>11. l = Min({MaxFiles, c})
  <2>1. l \in {MaxFiles, c} /\ l <= MaxFiles /\ l <= c
    BY <1>2, <1>3, <1>8, <1>9, <1>10
  <2>2. \A x \in {MaxFiles, c} : l <= x /\ x \in Nat
    BY <1>3, <1>8, <2>1
  <2>3. \A m \in {MaxFiles, c} : (\A x \in {MaxFiles, c} : m <= x) => m = l
    BY <1>3, <2>1, <2>2
  <2> QED
    BY <2>1, <2>2, <2>3 DEF Min
<1>12. ASSUME NEW i \in DOMAIN out
       PROVE  LET sum == Sums(edits, out[i].path)[N] IN
              out[i].added = sum.added /\ out[i].removed = sum.removed
  <2>1. i \in 1..l
    BY <1>3
  <2> DEFINE sum == Sums(edits, out[i].path)[N]
  <2>2. sum = [added |-> out[i].added, removed |-> out[i].removed]
    BY <1>2, <2>1
  <2> HIDE DEF sum
  <2>3. out[i].added = sum.added /\ out[i].removed = sum.removed
    BY <2>2
  <2> QED
    BY <2>3 DEF sum
<1> QED
  BY <1>5, <1>11, <1>12
     DEF MergeIsRightFor, PathsIn, KeptFiles, Firsts, out, l, c, N


-----------------------------------------------------------------------------
\* The shell counts from the first line that differs; that is as far as the
\* common head goes.
FirstDifference(s, x, y) == Min({k \in 0..s : k = s \/ x[k + 1] # y[k + 1]})

LEMMA MinIsIn ==
  ASSUME NEW S, NEW m \in S, \A x \in S : x \in Int /\ m <= x
  PROVE  Min(S) = m
<1>1. \A y \in S : (\A x \in S : y <= x) => y = m
  OBVIOUS
<1> QED
  BY <1>1 DEF Min

LEMMA FirstDifferenceIs ==
  ASSUME NEW L, NEW x \in Seq(L), NEW y \in Seq(L), NEW s \in Nat, s <= Len(x), s <= Len(y),
         s = Len(x) \/ s = Len(y)
  PROVE  FirstDifference(s, x, y) = CommonHead(x, y)
<1> DEFINE h == CommonHead(x, y)
           S == {k \in 0..s : k = s \/ x[k + 1] # y[k + 1]}
<1>1. /\ h \in Nat /\ h <= Len(x) /\ h <= Len(y) /\ \A i \in 1..h : x[i] = y[i]
      /\ h = Len(x) \/ h = Len(y) \/ x[h + 1] # y[h + 1]
  BY CommonHeadIs
<1>2. Len(x) \in Nat /\ Len(y) \in Nat
  OBVIOUS
<1> HIDE DEF h
<1>3. h \in S
  BY <1>1, <1>2
<1>4. ASSUME NEW k \in S
      PROVE  k \in Int /\ h <= k
  <2>1. k \in Nat /\ k <= s
    OBVIOUS
  <2>2. CASE k = s
    BY <1>1, <1>2, <2>2
  <2>3. CASE x[k + 1] # y[k + 1]
    <3>1. k + 1 \notin 1..h
      BY <1>1, <2>3
    <3> QED
      BY <1>1, <2>1, <3>1
  <2> QED
    BY <2>2, <2>3
<1>5. Min(S) = h
  <2> HIDE DEF S
  <2> QED
    BY <1>3, <1>4, MinIsIn
<1> QED
  BY <1>5 DEF FirstDifference, h


LEMMA ShellTrims ==
  ASSUME NEW L, NEW a \in Seq(L), NEW b \in Seq(L)
  PROVE  StatFromDiff(a, b) = [added |-> Len(b) - CommonHead(a, b) - CommonTail(a, b),
                               removed |-> Len(a) - CommonHead(a, b) - CommonTail(a, b)]
<1> DEFINE m == Len(a)
           n == Len(b)
           h == CommonHead(a, b)
           s == Min({m, n})
           ra == ReversedRest(a, h)
           rb == ReversedRest(b, h)
           tails == {k \in 0..(s - h) : k = s - h \/ a[m - k] # b[n - k]}
           firsts == {k \in 0..(s - h) : k = s - h \/ ra[k + 1] # rb[k + 1]}
<1>1. m \in Nat /\ n \in Nat /\ h \in Nat /\ h <= m /\ h <= n
  BY CommonHeadIs
<1>2. s \in {m, n} /\ s <= m /\ s <= n
  <2> HIDE DEF m, n
  <2>1. CASE m <= n
    <3>1. s = m
      <4> DEFINE S == {m, n}
      <4>1. m \in S /\ \A x \in S : x \in Int /\ m <= x
        BY <1>1, <2>1
      <4> HIDE DEF S
      <4>2. Min(S) = m
        BY <4>1, MinIsIn
      <4> QED
        BY <4>2 DEF s, S
    <3> QED
      BY <1>1, <2>1, <3>1
  <2>2. CASE n <= m
    <3>1. s = n
      <4> DEFINE S == {m, n}
      <4>1. n \in S /\ \A x \in S : x \in Int /\ n <= x
        BY <1>1, <2>2
      <4> HIDE DEF S
      <4>2. Min(S) = n
        BY <4>1, MinIsIn
      <4> QED
        BY <4>2 DEF s, S
    <3> QED
      BY <1>1, <2>2, <3>1
  <2> QED
    BY <1>1, <2>1, <2>2
<1> HIDE DEF s
<1>3. FirstDifference(s, a, b) = h
  BY <1>1, <1>2, FirstDifferenceIs
<1> HIDE DEF h
<1>4. /\ ra \in Seq(L) /\ Len(ra) = m - h /\ \A i \in 1..(m - h) : ra[i] = a[m + 1 - i]
      /\ rb \in Seq(L) /\ Len(rb) = n - h /\ \A i \in 1..(n - h) : rb[i] = b[n + 1 - i]
  BY <1>1, ReversedRestIs
<1>5. CommonTail(a, b) = CommonHead(ra, rb)
  BY DEF CommonTail, ReversedRest, h
<1> HIDE DEF ra, rb
<1>6. tails = firsts
  <2>1. ASSUME NEW k \in 0..(s - h), k # s - h
        PROVE  ra[k + 1] = a[m - k] /\ rb[k + 1] = b[n - k]
    <3>1. k + 1 \in 1..(m - h) /\ k + 1 \in 1..(n - h) /\ m + 1 - (k + 1) = m - k
          /\ n + 1 - (k + 1) = n - k
      BY <1>1, <1>2, <2>1
    <3> QED
      BY <1>4, <3>1
  <2> QED
    BY <2>1
<1>7. Min(firsts) = CommonHead(ra, rb)
  <2> DEFINE r == s - h
  <2>1. /\ r \in Nat /\ r <= Len(ra) /\ r <= Len(rb) /\ (r = Len(ra) \/ r = Len(rb))
    <3>1. Len(ra) = m - h /\ Len(rb) = n - h /\ h <= s
      BY <1>1, <1>2, <1>4
    <3> HIDE DEF m, n
    <3> QED
      BY <1>1, <1>2, <3>1
  <2>2. Min(firsts) = FirstDifference(r, ra, rb)
    BY DEF FirstDifference
  <2> HIDE DEF r, firsts
  <2> QED
    BY <1>4, <2>1, <2>2, FirstDifferenceIs
<1>8. StatFromDiff(a, b) = LET tail == Min(tails)
                           IN  [added |-> n - h - tail, removed |-> m - h - tail]
  BY <1>3 DEF StatFromDiff, FirstDifference, s
<1> HIDE DEF tails, firsts
<1> QED
  BY <1>5, <1>6, <1>7, <1>8 DEF h


\* The shell's count of any diff is a bound of the core's (changes.ts,
\* statFromDiff; changeStat.ts, diffLines).
THEOREM TrimIsBoundOfDiff ==
  ASSUME NEW L
  PROVE  \A was, now \in Seq(L) :
           TrimIsBound(was, now, Cardinality(OfKind(DiffLines(was, now), {"add"})),
                       Cardinality(OfKind(DiffLines(was, now), {"del"})))
<1> SUFFICES ASSUME NEW was \in Seq(L), NEW now \in Seq(L)
             PROVE  TrimIsBound(was, now, Cardinality(OfKind(DiffLines(was, now), {"add"})),
                                Cardinality(OfKind(DiffLines(was, now), {"del"})))
  OBVIOUS
<1> DEFINE ops == DiffLines(was, now)
           h == CommonHead(was, now)
           t == CommonTail(was, now)
           m == Len(was)
           n == Len(now)
           kept == Cardinality(OfKind(ops, {"same"}))
           added == Cardinality(OfKind(ops, {"add"}))
           removed == Cardinality(OfKind(ops, {"del"}))
<1>1. /\ h \in Nat /\ t \in Nat /\ m \in Nat /\ n \in Nat /\ h + t <= m /\ h + t <= n
      /\ h = m \/ h = n \/ was[h + 1] # now[h + 1]
  BY CommonHeadIs, CommonTailIs
<1>2. /\ ops \in Seq(OpOf(L)) /\ h + t <= kept
      /\ Spells(ops, {"same", "del"}, was) /\ Spells(ops, {"same", "add"}, now)
  BY DiffOfParts
<1>3. StatFromDiff(was, now) = [added |-> n - h - t, removed |-> m - h - t]
  BY ShellTrims
<1> HIDE DEF ops
<1>4. /\ kept \in Nat /\ added \in Nat /\ removed \in Nat /\ m = kept + removed /\ n = kept + added
  BY <1>2, KindsAdd
<1>5. was = now => n - h - t = 0 /\ m - h - t = 0
  <2> SUFFICES ASSUME was = now PROVE n - h - t = 0 /\ m - h - t = 0
    OBVIOUS
  <2>1. h = m /\ m = n
    BY <1>1
  <2> HIDE DEF h, t, m, n
  <2> QED
    BY <1>1, <2>1
<1> HIDE DEF h, t, m, n, kept, added, removed
<1>6. added <= n - h - t /\ (n - h - t) - added = (m - h - t) - removed
  BY <1>1, <1>2, <1>4
<1>7. TrimIsBound(was, now, added, removed)
  BY <1>3, <1>5, <1>6 DEF TrimIsBound
<1> QED
  BY <1>7 DEF added, removed, ops


\* Two texts and the blocks of a tool call.
InputsTyped ==
  /\ old \in Seq(Lines) /\ new \in Seq(Lines)
  /\ blocks \in Seq(BlockOf(Paths))

\* What the core and the shell count for any two texts, and for any blocks of
\* a tool call, is what it should be: the first part of StatsAreRight, for all
\* sizes of the texts, of their lines and of the limits (changeStat.ts;
\* changes.ts, statFromDiff).
THEOREM CountsAreRightHolds == MCSpec => []CountsAreRight
<1>1. MCInit => InputsTyped
  <2> SUFFICES ASSUME MCInit PROVE InputsTyped
    OBVIOUS
  <2>1. Texts \subseteq Seq(Lines)
    BY DEF Texts
  <2>2. Blocks \subseteq BlockOf(Paths)
    BY DEF Blocks, BlockOf
  <2>3. UNION {[1..n -> Blocks] : n \in 0..3} \subseteq Seq(BlockOf(Paths))
    <3> SUFFICES ASSUME NEW n \in 0..3, NEW f \in [1..n -> Blocks]
                 PROVE  f \in Seq(BlockOf(Paths))
      OBVIOUS
    <3>1. n \in Nat
      OBVIOUS
    <3>2. f \in [1..n -> BlockOf(Paths)]
      BY <2>2
    <3> QED
      BY <3>1, <3>2
  <2>4. << >> \in Seq(Lines) /\ << >> \in Seq(BlockOf(Paths))
    OBVIOUS
  <2>5. old \in Seq(Lines) /\ new \in Seq(Lines)
    BY <2>1, <2>4 DEF MCInit
  <2>6. blocks \in Seq(BlockOf(Paths))
    BY <2>3, <2>4 DEF MCInit
  <2> QED
    BY <2>5, <2>6 DEF InputsTyped
<1>2. InputsTyped /\ [MCNext]_<<inputVars, readVars, trackerVars, capVars, graphVars, dirVars, viewVars>>
        => InputsTyped'
  BY DEF InputsTyped, MCNext, inputVars
<1>3. InputsTyped => CountsAreRight
  BY DiffIsRight, MergeIsRight, TrimIsBoundOfDiff DEF InputsTyped, CountsAreRight
<1> QED
  BY <1>1, <1>2, <1>3, PTL DEF MCSpec

\* The words on the cards of the chats that are numbered.
CardWords ==
  Said \cup {"edit", "patch", "delete", "pending", "denied", "x", "y", "a", "b", "c"}

\* Each of their cards is one.
LEMMA CardsAreTyped == ToolCards \subseteq ViewCard(CardWords)
<1> DEFINE K == ViewCard(CardWords)
           none == << >>
           two == <<[path |-> "x", added |-> 2, removed |-> 1],
                    [path |-> "y", added |-> 1, removed |-> 0]>>
           line == <<[added |-> 1, removed |-> 0]>>
           diff == <<[old |-> <<"a", "b">>, new |-> <<"a", "c", "b">>]>>
<1>1. /\ "execute" \in CardWords /\ "in_progress" \in CardWords /\ "completed" \in CardWords
      /\ "failed" \in CardWords /\ "pending" \in CardWords /\ "denied" \in CardWords
      /\ "edit" \in CardWords /\ "patch" \in CardWords /\ "delete" \in CardWords
      /\ "x" \in CardWords /\ "y" \in CardWords
      /\ "a" \in CardWords /\ "b" \in CardWords /\ "c" \in CardWords
      /\ NoPath \in CardWords /\ NotSet \in CardWords
  BY DEF CardWords, Said
<1> HIDE DEF K
<1>2. none \in Seq(ViewStat(CardWords)) /\ none \in Seq(ViewDiff(CardWords)) /\ none \in Seq(Counts)
  BY EmptySeq
<1>3. two \in Seq(ViewStat(CardWords))
  <2>1. /\ [path |-> "x", added |-> 2, removed |-> 1] \in ViewStat(CardWords)
        /\ [path |-> "y", added |-> 1, removed |-> 0] \in ViewStat(CardWords)
    BY <1>1 DEF ViewStat
  <2> QED
    BY <2>1
<1>4. line \in Seq(Counts)
  BY DEF Counts
<1>5. diff \in Seq(ViewDiff(CardWords))
  <2>1. <<"a", "b">> \in Seq(CardWords) /\ <<"a", "c", "b">> \in Seq(CardWords)
    BY <1>1
  <2>2. [old |-> <<"a", "b">>, new |-> <<"a", "c", "b">>] \in ViewDiff(CardWords)
    BY <2>1 DEF ViewDiff
  <2> QED
    BY <2>2
<1> HIDE DEF none, two, line, diff
<1>6. ASSUME NEW kind \in CardWords, NEW status \in CardWords, NEW path \in CardWords,
             NEW stats \in Seq(Counts)
      PROVE  Card(kind, status, path, stats) \in K
  BY <1>1, <1>2 DEF Card, K, ViewCard, none
<1>7. /\ \A status \in CardWords, path \in CardWords : Edit(status, path) \in K
      /\ Command("completed") \in K /\ Card("delete", "completed", NoPath, none) \in K
      /\ Card("patch", "completed", "y", none) \in K
  <2>1. \A status \in CardWords, path \in CardWords : Edit(status, path) \in K
    BY <1>1, <1>4, <1>6 DEF Edit, line
  <2>2. Command("completed") \in K
    BY <1>1, <1>2 DEF Command, K, ViewCard, none
  <2> QED
    BY <1>1, <1>2, <1>6, <2>1, <2>2
<1>8. /\ \A c \in K : /\ [c EXCEPT !.changeStat = two] \in K /\ [c EXCEPT !.diffs = diff] \in K
                      /\ [c EXCEPT !.local = "denied"] \in K
  BY <1>1, <1>3, <1>5 DEF K, ViewCard
<1>9. ToolCards =
        {[Edit("completed", "x") EXCEPT !.changeStat = two],
         [Card("patch", "completed", "y", none) EXCEPT !.diffs = diff],
         Edit("completed", NoPath), Card("delete", "completed", NoPath, none),
         Edit("failed", "x"), Edit("in_progress", "x"),
         [Edit("pending", "x") EXCEPT !.local = "denied"],
         Command("completed")}
  BY DEF ToolCards, two, diff, none
<1> QED
  BY <1>1, <1>7, <1>8, <1>9 DEF K

\* The chats that are numbered are chats.
LEMMA ChatsAreTyped ==
  ASSUME NEW s \in Tabs, NEW n \in Nat, NEW f \in ChatsOf(s, n)
  PROVE  /\ f \in Seq(ViewItem(CardWords))
         /\ \A i \in DOMAIN f : f[i].id[1] \in {s, NoTab}
<1>1. ASSUME NEW i \in 1..n, NEW x \in ItemsAt(s, i)
      PROVE  x \in ViewItem(CardWords) /\ x.id[1] \in {s, NoTab}
  <2>1. i \in Nat
    OBVIOUS
  <2>2. x \in ViewItem(CardWords)
    BY <2>1, CardsAreTyped DEF ItemsAt, ViewItem
  <2>3. \A m, k, c : /\ Thought(m).id[1] = NoTab /\ Other(m, k).id[1] = NoTab
                     /\ Tool(s, m, c).id[1] = s
    BY DEF Thought, Tool, Other
  <2>4. x.id[1] \in {s, NoTab}
    BY <2>3 DEF ItemsAt
  <2> QED
    BY <2>2, <2>4
<1>2. f \in [1..n -> UNION {ItemsAt(s, i) : i \in 1..n}]
  BY DEF ChatsOf
<1>3. \A i \in 1..n : f[i] \in ViewItem(CardWords) /\ f[i].id[1] \in {s, NoTab}
  BY <1>1, <1>2
<1>4. f \in [1..n -> ViewItem(CardWords)]
  BY <1>2, <1>3
<1> QED
  BY <1>3, <1>4

\* The shell's numbers add up and its blocks are exact in every chat that can
\* come about (segments.ts, splitBlocks, bucketize, segmentLabel; changes.ts,
\* aggregateChanges).
LEMMA ViewsAddUpHolds == MCSpec => []ViewsAddUp
<1>1. MCInit => ViewsInv(CardWords)
  <2> SUFFICES ASSUME MCInit PROVE ViewsInv(CardWords)
    OBVIOUS
  <2>1. PICK chat : /\ column = [s \in Tabs |-> IF s = selected THEN chat ELSE << >>]
                    /\ chat \in IF part = "numbers"
                                THEN UNION {ChatsOf(selected, n) : n \in 0..MaxItems}
                                ELSE {<< >>}
    BY DEF MCInit
  <2>2. /\ selected \in Tabs /\ DOMAIN drawn = {} /\ DOMAIN choice = Tabs
        /\ \A s \in Tabs : DOMAIN choice[s] = {}
    BY DEF MCInit, ViewInit
  <2>3. << >> \in Seq(ViewItem(CardWords)) /\ DOMAIN << >> = {}
    BY EmptySeq
  <2>4. /\ chat \in Seq(ViewItem(CardWords))
        /\ \A i \in DOMAIN chat : chat[i].id[1] \in {selected, NoTab}
    <3>1. CASE part = "numbers"
      <4>1. PICK n \in 0..MaxItems : chat \in ChatsOf(selected, n)
        BY <2>1, <3>1
      <4>2. n \in Nat
        OBVIOUS
      <4> QED
        BY <2>2, <4>1, <4>2, ChatsAreTyped
    <3>2. CASE part # "numbers"
      BY <2>1, <2>3, <3>2
    <3> QED
      BY <3>1, <3>2
  <2>5. /\ DOMAIN column = Tabs
        /\ \A s \in Tabs : /\ column[s] \in Seq(ViewItem(CardWords))
                           /\ \A i \in DOMAIN column[s] : column[s][i].id[1] \in {s, NoTab}
    <3>1. \A s \in Tabs : column[s] = IF s = selected THEN chat ELSE << >>
      BY <2>1
    <3>2. DOMAIN column = Tabs
      BY <2>1
    <3> QED
      BY <2>3, <2>4, <3>1, <3>2
  <2> QED
    BY <2>2, <2>5 DEF ViewsInv
<1>2. ViewsInv(CardWords)
      /\ [MCNext]_<<inputVars, readVars, trackerVars, capVars, graphVars, dirVars, viewVars>>
        => ViewsInv(CardWords)'
  <2> SUFFICES ASSUME ViewsInv(CardWords),
                      [MCNext]_<<inputVars, readVars, trackerVars, capVars, graphVars, dirVars,
                                 viewVars>>
               PROVE  ViewsInv(CardWords)'
    OBVIOUS
  <2>1. [ViewNext]_viewVars
    BY DEF MCNext
  <2>2. Said \subseteq CardWords
    BY DEF CardWords
  <2> QED
    BY <2>1, <2>2, ViewsStep
<1>3. ViewsInv(CardWords) => ViewsAddUp
  BY BlocksAreExactForAll, NumbersAddUpForAll DEF ViewsInv, ViewsAddUp
<1> QED
  BY <1>1, <1>2, <1>3, PTL DEF MCSpec

\* No statistic counts what it should not, or twice: the property of the run
\* Reads_served, for all texts, blocks of a tool call, limits and chats.
THEOREM StatsAreRightHolds == MCSpec => []StatsAreRight
<1>1. CountsAreRight /\ ViewsAddUp => StatsAreRight
  BY DEF StatsAreRight
<1> QED
  BY <1>1, CountsAreRightHolds, ViewsAddUpHolds, PTL
=============================================================================
