-------------------------- MODULE SentinelProofs ---------------------------
(***************************************************************************)
(* The properties of whole runs, for any number of chains, filters and     *)
(* runs, and any thresholds, caps and cooldown.                            *)
(*                                                                         *)
(* The invariant says where the truth about a chain is at any moment: for  *)
(* a chain of a real run in the state map, for every other one in its      *)
(* file; while a pull request is opened and not yet counted, the map lacks *)
(* its stamp.  With it go the flows' working sets (only loaded chains, and *)
(* in the fix flows no dying ones) and the stamps, which are never in the  *)
(* future.  The notices have an invariant of their own, WordInv, and so    *)
(* have the caps, Counted.                                                 *)
(***************************************************************************)
EXTENDS Sentinel, FiniteSetTheorems, TLAPS

\* A pull request is open, or being labelled or announced, and not counted yet.
Posting == {"label", "noticeEndpoint", "noticeHash", "count"}

\* Before a run the process has no memory; only a real run saves or opens; the
\* flows come after the measurement; only the status flow posts notices.
Control ==
  /\ pc = "idle" => loaded = {} /\ mode = "real"
  /\ pc = "save" => mode # "dry"
  /\ pc \in {"idle", "probe"} => flow = "start"
  /\ pc \in {"enter", "loop"} \cup Posting => flow \in Flow
  /\ pc \in Posting => mode = "real" /\ next \in 1..Len(Order) /\ Order[next] \in loaded
  /\ pc \in {"noticeEndpoint", "noticeHash"} => flow = "status"

\* A stamp changes one flow's time of one chain.
Stamp(s, c, f, n) == [s EXCEPT ![c].last[f] = n]

\* The state map, with the stamp that an uncounted pull request still lacks.
Memory(c) == IF Underway(c) THEN Stamp(mem, c, flow, now)[c] ELSE mem[c]

Recorded ==
  \A c \in Chain \ lost :
    IF c \in loaded /\ mode # "dry" THEN truth[c] = Memory(c) ELSE disk[c] = truth[c]

TodoRight ==
  /\ \A c \in Chain : verdict[c] = "dead" => c \in loaded
  /\ pc \in {"loop"} \cup Posting =>
       \A c \in todo :
         /\ c \in loaded
         /\ IF flow = "status" THEN verdict[c] = "dead" /\ mem[c].death >= MinRuns
            ELSE verdict[c] # "dead"

Stamped == \A c \in Chain, f \in Flow : truth[c].last[f] <= now

IInv == TypeOK /\ Control /\ Recorded /\ TodoRight /\ Stamped

-----------------------------------------------------------------------------
(* The operators on a chain's state.                                        *)

\* A measurement leaves the stamps alone.
LEMMA MeasuredType ==
  ASSUME NEW s \in ChainState, NEW answer \in {"pass", "fail", "skip", "none"},
         NEW v \in {"none", "dead", "alive"}
  PROVE  Measured(s, answer, v) \in ChainState /\ Measured(s, answer, v).last = s.last
<1> DEFINE fails == CASE answer = "fail" -> s.fails + 1 [] answer = "skip" -> s.fails [] OTHER -> 0
           death == CASE v = "dead" -> s.death + 1 [] v = "alive" -> 0 [] OTHER -> s.death
<1>1. s.fails \in Nat /\ s.death \in Nat
  BY DEF ChainState
<1>2. fails \in Nat
  <2>1. CASE answer = "fail"
    BY <1>1, <2>1
  <2>2. CASE answer = "skip"
    BY <1>1, <2>2
  <2>3. CASE answer \in {"pass", "none"}
    BY <2>3
  <2> QED BY <2>1, <2>2, <2>3
<1>3. death \in Nat
  <2>1. CASE v = "dead"
    BY <1>1, <2>1
  <2>2. CASE v = "alive"
    BY <2>2
  <2>3. CASE v = "none"
    BY <1>1, <2>3
  <2> QED BY <2>1, <2>2, <2>3
<1>4. Measured(s, answer, v) = [s EXCEPT !.fails = fails, !.death = death]
  BY Zenon DEF Measured
<1> HIDE DEF fails, death
<1> QED BY <1>2, <1>3, <1>4 DEF ChainState

LEMMA StampedType ==
  ASSUME NEW s \in [Chain -> ChainState], NEW c \in Chain, NEW f \in Flow, NEW n \in Nat
  PROVE  /\ Stamp(s, c, f, n) \in [Chain -> ChainState]
         /\ \A d \in Chain : Stamp(s, c, f, n)[d].death = s[d].death
         /\ \A d \in Chain, g \in Flow :
              Stamp(s, c, f, n)[d].last[g] = IF d = c /\ g = f THEN n ELSE s[d].last[g]
<1> DEFINE u == [s[c].last EXCEPT ![f] = n]
           r == [s[c] EXCEPT !.last = u]
<1>1. s[c] \in ChainState /\ s[c].last \in [Flow -> Nat]
  BY DEF ChainState
<1>2. u \in [Flow -> Nat] /\ \A g \in Flow : u[g] = IF g = f THEN n ELSE s[c].last[g]
  BY <1>1
<1> HIDE DEF u
<1>3. r \in ChainState /\ r.last = u /\ r.death = s[c].death
  BY <1>1, <1>2 DEF ChainState
<1> HIDE DEF r
<1>4. Stamp(s, c, f, n) = [s EXCEPT ![c] = r]
  BY DEF Stamp, r, u
<1>5. /\ Stamp(s, c, f, n) \in [Chain -> ChainState]
      /\ \A d \in Chain : Stamp(s, c, f, n)[d] = IF d = c THEN r ELSE s[d]
  BY <1>3, <1>4
<1> QED BY <1>2, <1>3, <1>5

\* Proceed goes on to a flow, or out.
LEMMA ProceedControl ==
  ASSUME TypeOK, Proceed
  PROVE  /\ pc' \in {"done", "enter"}
         /\ flow' \in Flow \cup {"start"}
         /\ pc' = "enter" => flow' \in Flow
BY DEF TypeOK, Proceed, After, Flow

\* Outside of CreatePR and what follows it the state map lacks nothing.
LEMMA MemoryComplete ==
  ASSUME NEW c \in Chain, pc \notin Posting
  PROVE  ~Underway(c) /\ Memory(c) = mem[c]
BY DEF Underway, Memory, Posting

LEMMA FreshType == Fresh \in ChainState
BY DEF Fresh, ChainState

-----------------------------------------------------------------------------
(* The actions.                                                             *)

LEMMA InitIInv == Init => IInv
<1> SUFFICES ASSUME Init PROVE IInv
  OBVIOUS
<1> USE SentinelAssumption, FreshType
<1>1. TypeOK
  BY DEF Init, TypeOK, Unjudged
<1>2. Control /\ Recorded /\ TodoRight
  BY DEF Init, Control, Recorded, TodoRight, Unjudged, Posting
<1>3. Stamped
  BY DEF Init, Stamped, Fresh
<1> QED BY <1>1, <1>2, <1>3 DEF IInv

LEMMA StartRunKeeps == IInv /\ StartRun => IInv'
<1> SUFFICES ASSUME IInv, StartRun PROVE IInv'
  OBVIOUS
<1> USE SentinelAssumption, FreshType DEF IInv
<1>0. pc = "idle" /\ loaded = {} /\ now' = now + 1 /\ loaded' \subseteq Chain
  BY DEF StartRun, Control
<1>1. TypeOK'
  BY <1>0 DEF StartRun, TypeOK, githubVars, loopVars, historyVars
<1>2. Control'
  BY <1>0 DEF StartRun, Control, loopVars, Posting
<1>3. Recorded'
  BY <1>0, <1>1 DEF StartRun, Recorded, TypeOK, historyVars, Memory, Underway
<1>4. TodoRight'
  BY <1>0 DEF StartRun, TodoRight, Posting
<1>5. Stamped'
  BY <1>0 DEF StartRun, Stamped, TypeOK, ChainState, historyVars
<1> QED BY <1>1, <1>2, <1>3, <1>4, <1>5

LEMMA MeasureKeeps == IInv /\ Measure => IInv'
<1> SUFFICES ASSUME IInv, Measure PROVE IInv'
  OBVIOUS
<1> USE DEF IInv
<1>0. PICK answer \in [loaded -> {"pass", "fail", "skip", "none"}],
           v \in [Chain -> {"none", "dead", "alive"}] :
        /\ \A c \in Chain : v[c] # "none" => c \in loaded
        /\ verdict' = v
        /\ mem' = [c \in Chain |-> IF c \in loaded THEN Measured(mem[c], answer[c], v[c])
                                   ELSE mem[c]]
        /\ truth' = [c \in Chain |->
                       IF c \in loaded /\ mode # "dry" THEN Measured(truth[c], answer[c], v[c])
                       ELSE truth[c]]
  BY DEF Measure
<1>1. /\ pc = "probe"
      /\ flow' = IF mode = "dry" THEN "status" ELSE "start"
      /\ pc' = IF mode = "dry" THEN "enter" ELSE "save"
      /\ UNCHANGED <<registry, prs, disk, now, mode, checkout, loaded, todo, next, opened, made, lost,
                     unheard>>
  BY DEF Measure, githubVars
<1>2. \A c \in loaded : /\ Measured(mem[c], answer[c], v[c]) \in ChainState
                        /\ Measured(truth[c], answer[c], v[c]) \in ChainState
                        /\ Measured(truth[c], answer[c], v[c]).last = truth[c].last
  BY MeasuredType DEF TypeOK
<1>3. mem' \in [Chain -> ChainState] /\ truth' \in [Chain -> ChainState]
  BY <1>0, <1>2 DEF TypeOK
<1>4. TypeOK'
  BY <1>0, <1>1, <1>3 DEF TypeOK, Flow
<1>5. Control'
  BY <1>1 DEF Control, Flow, Posting
<1>6. Recorded'
  BY <1>0, <1>1 DEF Recorded, Memory, Underway
<1>7. TodoRight'
  BY <1>0, <1>1 DEF TodoRight, Posting
<1>8. \A c \in Chain : truth'[c].last = truth[c].last
  BY <1>0, <1>2
<1>9. Stamped'
  BY <1>1, <1>8 DEF Stamped
<1> QED BY <1>4, <1>5, <1>6, <1>7, <1>9

LEMMA SaveKeeps == IInv /\ SaveStateMap => IInv'
<1> SUFFICES ASSUME IInv, SaveStateMap PROVE IInv'
  OBVIOUS
<1> USE DEF IInv
<1>0. PICK ok \in SUBSET loaded : disk' = [c \in Chain |-> IF c \in ok THEN mem[c] ELSE disk[c]]
  BY DEF SaveStateMap
<1>1. /\ pc = "save"
      /\ UNCHANGED <<registry, prs, now, mode, checkout, loaded, verdict, mem, todo, next, opened,
                     truth, made, lost, unheard>>
  BY DEF SaveStateMap, githubVars, runVars, historyVars
<1>2. /\ pc' \in {"done", "enter"}
      /\ flow' \in Flow \cup {"start"}
      /\ pc' = "enter" => flow' \in Flow
  BY ProceedControl DEF SaveStateMap
<1>3. TypeOK'
  BY <1>0, <1>1, <1>2 DEF TypeOK
<1>4. Control'
  BY <1>1, <1>2 DEF Control, Posting
<1>5. Recorded'
  BY <1>0, <1>1, <1>2 DEF Recorded, Control, Memory, Underway
<1>6. TodoRight' /\ Stamped'
  BY <1>1, <1>2 DEF TodoRight, Stamped, Posting
<1> QED BY <1>3, <1>4, <1>5, <1>6

LEMMA EnterKeeps == IInv /\ (EnterStatus \/ EnterHash) => IInv'
<1> SUFFICES ASSUME IInv, EnterStatus \/ EnterHash PROVE IInv'
  OBVIOUS
<1> USE DEF IInv
<1>1. /\ pc = "enter" /\ pc' = "loop" /\ next' = 1 /\ opened' = 0
      /\ UNCHANGED <<registry, prs, disk, flow, now, mode, checkout, loaded, verdict, mem, truth,
                     made, lost, unheard>>
  BY DEF EnterStatus, EnterHash, EnterFlow, githubVars, runVars
<1>2. /\ todo' \subseteq loaded
      /\ flow = "status" => \A c \in todo' : verdict[c] = "dead" /\ mem[c].death >= MinRuns
      /\ flow # "status" => \A c \in todo' : verdict[c] # "dead"
  <2>1. CASE EnterStatus
    BY <2>1 DEF EnterStatus, EnterFlow, Matured, TodoRight
  <2>2. CASE EnterHash
    BY <2>2 DEF EnterHash, EnterFlow, Mismatched, LooksDead, TypeOK
  <2> QED BY <2>1, <2>2
<1>3. TypeOK'
  BY <1>1, <1>2 DEF TypeOK
<1>4. Control' /\ Recorded' /\ Stamped'
  BY <1>1 DEF Control, Recorded, Stamped, Posting, Memory, Underway
<1>5. TodoRight'
  BY <1>1, <1>2 DEF TodoRight, Posting
<1> QED BY <1>3, <1>4, <1>5

LEMMA EnterEndpointKeeps == IInv /\ EnterEndpoint => IInv'
<1> SUFFICES ASSUME IInv, EnterEndpoint PROVE IInv'
  OBVIOUS
<1> USE DEF IInv
<1> DEFINE reset(s, passed) ==
             [c \in Chain |-> IF c \in passed THEN [s[c] EXCEPT !.fails = 0] ELSE s[c]]
<1>0. PICK passed \in SUBSET Flagged :
        /\ EnterFlow(Flagged \ passed)
        /\ mem' = reset(mem, passed)
        /\ truth' = IF mode = "dry" THEN truth ELSE reset(truth, passed)
  BY Zenon DEF EnterEndpoint
<1>1. /\ flow = "endpoint" /\ pc = "enter" /\ pc' = "loop" /\ next' = 1 /\ opened' = 0
      /\ todo' = Flagged \ passed
      /\ UNCHANGED <<registry, prs, disk, flow, now, mode, checkout, loaded, verdict, made, lost,
                     unheard>>
  BY <1>0 DEF EnterEndpoint, EnterFlow, githubVars, runVars
<1>2. Flagged \subseteq loaded /\ \A c \in Flagged : verdict[c] # "dead"
  BY DEF Flagged, LooksDead, TypeOK
<1>3. ASSUME NEW s \in [Chain -> ChainState]
      PROVE  /\ reset(s, passed) \in [Chain -> ChainState]
             /\ \A c \in Chain : reset(s, passed)[c].last = s[c].last
  BY DEF ChainState
<1>4. TypeOK'
  BY <1>0, <1>1, <1>2, <1>3 DEF TypeOK
<1>5. Control'
  BY <1>1 DEF Control, Posting
<1>6. Recorded'
  BY <1>0, <1>1, <1>2 DEF Recorded, Memory, Underway
<1>7. TodoRight'
  BY <1>1, <1>2 DEF TodoRight, Posting
<1>8. Stamped'
  BY <1>0, <1>1, <1>3 DEF Stamped, TypeOK
<1> QED BY <1>4, <1>5, <1>6, <1>7, <1>8

\* The steps that only move the run along.
LEMMA QuietKeeps ==
  ASSUME IInv, PassFlow \/ EndLoop \/ \E c \in Chain : Skip(c) \/ PrintPR(c) \/ NoPR(c)
  PROVE  IInv' /\ UNCHANGED <<truth, made>>
<1> USE DEF IInv
<1>0. UNCHANGED <<registry, prs, disk, now, mode, checkout, loaded, verdict, mem, todo, truth,
                  made, lost, unheard>>
  BY DEF PassFlow, EndLoop, Skip, PrintPR, NoPR, githubVars, runVars, historyVars
<1>1. CASE PassFlow \/ EndLoop
  <2>1. /\ pc' \in {"done", "enter", "save"}
        /\ flow' \in Flow \cup {"start"}
        /\ pc' = "enter" => flow' \in Flow
        /\ pc' = "save" => mode # "dry"
        /\ pc \notin Posting
        /\ UNCHANGED <<next, opened>>
    BY <1>1, ProceedControl DEF PassFlow, EndLoop, TypeOK, Posting
  <2> QED BY <1>0, <2>1 DEF TypeOK, Control, Recorded, TodoRight, Stamped, Posting, Memory, Underway
<1>2. CASE \E c \in Chain : Skip(c) \/ PrintPR(c) \/ NoPR(c)
  <2>1. pc = "loop" /\ next' = next + 1 /\ UNCHANGED <<pc, flow>> /\ opened' \in {opened, opened + 1}
    BY <1>2 DEF Skip, PrintPR, NoPR, Opening, Looking
  <2> QED BY <1>0, <2>1 DEF TypeOK, Control, Recorded, TodoRight, Stamped, Posting, Memory, Underway
<1> QED BY <1>0, <1>1, <1>2

\* What a step that opens a pull request does.
LEMMA CreatePRFacts ==
  ASSUME IInv, NEW c \in Chain, CreatePR(c)
  PROVE  /\ pc = "loop" /\ pc' = "label" /\ mode = "real" /\ flow \in Flow
         /\ c \in todo /\ c \in loaded /\ next \in 1..Len(Order) /\ c = Order[next]
         /\ opened < Cap[flow]
         /\ ~InCooldown(c)
         /\ prs' = prs \cup {NewPR(c)}
         /\ truth' = Stamp(truth, c, flow, now)
         /\ UNCHANGED <<registry, disk, flow, now, mode, checkout, loaded, verdict, mem, todo, next,
                        opened, made, lost, unheard>>
<1>1. /\ pc = "loop" /\ mode = "real" /\ c \in todo /\ ~InCooldown(c) /\ opened < Cap[flow]
      /\ next \in 1..Len(Order) /\ c = Order[next]
  BY DEF CreatePR, Opening, Looking
<1>2. flow \in Flow /\ c \in loaded
  BY <1>1 DEF IInv, Control, TodoRight
<1>3. /\ prs' = prs \cup {NewPR(c)} /\ pc' = "label"
      /\ truth' = Stamp(truth, c, flow, now)
      /\ UNCHANGED <<registry, disk, flow, now, mode, checkout, loaded, verdict, mem, todo, next,
                     opened, made, lost, unheard>>
  BY Zenon DEF CreatePR, runVars, loopVars, Stamp
<1> QED BY <1>1, <1>2, <1>3, Zenon

LEMMA CreatePRKeeps == ASSUME IInv, NEW c \in Chain, CreatePR(c) PROVE IInv'
<1> USE DEF IInv
<1>0. /\ pc = "loop" /\ pc' = "label" /\ mode = "real" /\ flow \in Flow /\ c \in loaded
      /\ next \in 1..Len(Order) /\ c = Order[next] /\ now \in Nat
      /\ prs' = prs \cup {NewPR(c)}
      /\ truth' = Stamp(truth, c, flow, now)
      /\ UNCHANGED <<registry, disk, flow, now, mode, checkout, loaded, verdict, mem, todo, next,
                     opened, made, lost, unheard>>
  BY CreatePRFacts, Zenon DEF TypeOK
<1>1. prs' \subseteq PullRequest
  <2>1. NewPR(c) \in PullRequest
    BY <1>0 DEF NewPR, PullRequest
  <2> QED BY <1>0, <2>1 DEF TypeOK
<1>2. mem \in [Chain -> ChainState] /\ truth \in [Chain -> ChainState]
  BY DEF TypeOK
<1>3. /\ truth' \in [Chain -> ChainState]
      /\ \A d \in Chain, f \in Flow :
           truth'[d].last[f] = IF d = c /\ f = flow THEN now ELSE truth[d].last[f]
  BY <1>0, <1>2, StampedType
<1>4. TypeOK'
  BY <1>0, <1>1, <1>3 DEF TypeOK
<1>5. Control'
  BY <1>0 DEF Control, Posting
<1>6. Recorded'
  <2> SUFFICES ASSUME NEW d \in Chain \ lost
               PROVE  IF d \in loaded THEN truth'[d] = Memory(d)' ELSE disk[d] = truth'[d]
    BY <1>0 DEF Recorded
  <2>1. Underway(d)' <=> d = c
    BY <1>0 DEF Underway
  <2>2. d \in loaded => truth[d] = mem[d]
    BY <1>0, MemoryComplete DEF Recorded, Posting
  <2>3. CASE d = c
    <3>1. truth[c] = mem[c]
      BY <1>0, <2>2, <2>3
    <3>2. Stamp(truth, c, flow, now)[c] = Stamp(mem, c, flow, now)[c]
      BY <1>2, <3>1 DEF Stamp
    <3>3. Memory(d)' = Stamp(mem, c, flow, now)[c]
      BY <1>0, <2>1, <2>3, Zenon DEF Memory
    <3> QED BY <1>0, <2>3, <3>2, <3>3
  <2>4. CASE d # c
    <3>1. truth'[d] = truth[d]
      BY <1>0, <1>2, <2>4 DEF Stamp
    <3>2. Memory(d)' = mem[d]
      BY <1>0, <2>1, <2>4, Zenon DEF Memory
    <3> QED BY <1>0, <2>2, <3>1, <3>2 DEF Recorded
  <2> QED BY <2>3, <2>4
<1>7. TodoRight'
  BY <1>0 DEF TodoRight, Posting
<1>8. Stamped'
  BY <1>0, <1>3 DEF Stamped, TypeOK
<1> QED BY <1>4, <1>5, <1>6, <1>7, <1>8

LEMMA TitleType == Title \in Flow \ {"status"}
BY DEF Title, Flow

\* The labels and the notices do not touch the state map.
LEMMA PostKeeps ==
  ASSUME IInv, NEW c \in Chain, AddLabels(c) \/ Notice(c) \/ NoticeFails(c)
  PROVE  IInv' /\ UNCHANGED truth
<1> USE DEF IInv
<1>0. /\ pc \in Posting /\ pc' \in {"noticeEndpoint", "noticeHash", "count"}
      /\ pc' # "count" => flow = "status"
      /\ UNCHANGED <<registry, disk, flow, now, mode, checkout, loaded, verdict, mem, todo, next,
                     opened, truth, lost>>
  BY DEF AddLabels, Notice, NoticeFails, AfterNotice, Posting, Control, githubVars, runVars, loopVars,
         historyVars
<1>1. now \in Nat /\ flow \in Flow /\ prs \subseteq PullRequest /\ unheard \subseteq Flow \X Chain
      /\ made \subseteq Flow \X Chain
  BY <1>0 DEF TypeOK, Control
<1>2. prs' \subseteq PullRequest
  <2>1. \A q \in prs : /\ [q EXCEPT !.label = TRUE] \in PullRequest
                        /\ [q EXCEPT !.notice = now] \in PullRequest
    BY <1>1 DEF PullRequest
  <2>2. CASE AddLabels(c)
    BY <1>1, <2>1, <2>2 DEF AddLabels
  <2>3. CASE Notice(c)
    BY <1>1, <2>1, <2>3 DEF Notice, FindOpenPR
  <2>4. CASE NoticeFails(c)
    BY <1>1, <2>4 DEF NoticeFails, githubVars
  <2> QED BY <2>2, <2>3, <2>4
<1>3. made' \subseteq Flow \X Chain /\ unheard' \subseteq Flow \X Chain
  BY <1>1, TitleType DEF AddLabels, Notice, NoticeFails, historyVars
<1>4. TypeOK'
  BY <1>0, <1>2, <1>3 DEF TypeOK
<1>5. Control'
  BY <1>0 DEF Control, Posting
<1>6. Recorded'
  <2>1. \A d \in Chain : Memory(d)' = Memory(d)
    BY <1>0 DEF Memory, Underway, Posting
  <2> QED BY <1>0, <2>1 DEF Recorded
<1>7. TodoRight' /\ Stamped'
  BY <1>0 DEF TodoRight, Stamped, Posting
<1> QED BY <1>0, <1>4, <1>5, <1>6, <1>7

\* A refused label: the stamp is lost.
LEMMA LabelFailsKeeps ==
  ASSUME IInv, NEW c \in Chain, LabelFails(c)
  PROVE  IInv' /\ UNCHANGED truth
<1> USE DEF IInv
<1>0. /\ pc = "label" /\ pc' = "loop" /\ next' = next + 1 /\ lost' = lost \cup {c}
      /\ next \in 1..Len(Order) /\ c = Order[next]
      /\ UNCHANGED <<registry, prs, disk, flow, now, mode, checkout, loaded, verdict, mem, todo, opened,
                     truth, made, unheard>>
  BY DEF LabelFails, Underway, githubVars, runVars
<1>1. TypeOK'
  BY <1>0 DEF TypeOK
<1>2. Control' /\ TodoRight' /\ Stamped'
  BY <1>0 DEF Control, TodoRight, Stamped, Posting
<1>3. Recorded'
  <2>1. \A d \in Chain \ lost' : Memory(d) = mem[d] /\ Memory(d)' = mem[d]
    BY <1>0 DEF Memory, Underway
  <2> QED BY <1>0, <2>1 DEF Recorded
<1> QED BY <1>0, <1>1, <1>2, <1>3

\* The stamp reaches the state map.
LEMMA CountPRKeeps ==
  ASSUME IInv, NEW c \in Chain, CountPR(c)
  PROVE  IInv' /\ UNCHANGED truth
<1> USE DEF IInv
<1>0. /\ pc = "count" /\ pc' = "loop" /\ next' = next + 1 /\ opened' = opened + 1
      /\ next \in 1..Len(Order) /\ c = Order[next]
      /\ mem' = Stamp(mem, c, flow, now)
      /\ UNCHANGED <<registry, prs, disk, flow, now, mode, checkout, loaded, verdict, todo, truth, made,
                     lost, unheard>>
  BY Zenon DEF CountPR, Underway, githubVars, runVars, historyVars, Stamp
<1>1. mem \in [Chain -> ChainState] /\ flow \in Flow /\ now \in Nat
  BY <1>0 DEF TypeOK, Control, Posting
<1>2. /\ mem' \in [Chain -> ChainState]
      /\ \A d \in Chain : mem'[d].death = mem[d].death
  BY <1>0, <1>1, StampedType
<1>3. TypeOK'
  BY <1>0, <1>2 DEF TypeOK
<1>4. Control' /\ Stamped'
  BY <1>0 DEF Control, Stamped, Posting
<1>5. TodoRight'
  BY <1>0, <1>2 DEF TodoRight, Posting, TypeOK
<1>6. Recorded'
  <2>1. ASSUME NEW d \in Chain PROVE Memory(d)' = Memory(d)
    <3>1. Memory(d)' = mem'[d]
      BY <1>0 DEF Memory, Underway
    <3>2. CASE d = c
      <4>1. Underway(d)
        BY <1>0, <3>2 DEF Underway
      <4> QED BY <1>0, <3>1, <3>2, <4>1, Zenon DEF Memory
    <3>3. CASE d # c
      <4>1. ~Underway(d)
        BY <1>0, <3>3 DEF Underway
      <4>2. mem'[d] = mem[d]
        BY <1>0, <1>1, <3>3 DEF Stamp
      <4> QED BY <3>1, <4>1, <4>2 DEF Memory
    <3> QED BY <3>2, <3>3
  <2> QED BY <1>0, <2>1 DEF Recorded
<1> QED BY <1>0, <1>3, <1>4, <1>5, <1>6

LEMMA ExitKeeps == IInv /\ Exit => IInv'
<1> SUFFICES ASSUME IInv, Exit PROVE IInv'
  OBVIOUS
<1> USE FreshType DEF IInv
<1>1. TypeOK'
  BY DEF Exit, TypeOK, Unjudged, githubVars
<1>2. Control' /\ TodoRight'
  BY DEF Exit, Control, TodoRight, Unjudged, Posting
<1>3. Recorded'
  <2>1. /\ loaded' = {} /\ UNCHANGED <<disk, truth>>
        /\ lost' = IF mode = "dry" THEN lost
                   ELSE lost \cup {c \in loaded : mem[c] # disk[c] \/ Underway(c)}
    BY DEF Exit
  <2>2. \A c \in Chain \ lost' : disk[c] = truth[c]
    BY <2>1 DEF Recorded, Memory
  <2> QED BY <2>1, <2>2 DEF Recorded
<1>4. Stamped'
  BY DEF Exit, Stamped
<1> QED BY <1>1, <1>2, <1>3, <1>4

LEMMA MaintainerKeeps == IInv /\ Maintainer => IInv' /\ UNCHANGED <<truth, made>>
<1> SUFFICES ASSUME IInv, Maintainer PROVE IInv' /\ UNCHANGED <<truth, made>>
  OBVIOUS
<1> USE DEF IInv
<1>1. UNCHANGED <<disk, pc, flow, now, mode, checkout, loaded, verdict, mem, todo, next, opened,
                  truth, made, lost, unheard>>
  BY DEF Maintainer, MergePR, ClosePR, Revive, Declare, runVars, loopVars, historyVars
<1>2. prs' \subseteq PullRequest
  BY DEF Maintainer, MergePR, ClosePR, Revive, Declare, TypeOK
<1>3. registry' \in [Chain -> Entry]
  <2>1. ASSUME NEW p \in prs, MergePR(p) PROVE registry' \in [Chain -> Entry]
    <3>1. p.flow \in Flow /\ \A e \in Entry : Merged(e, p.flow) \in Entry
      BY DEF TypeOK, PullRequest, Flow, Merged, Entry
    <3> QED BY <2>1, <3>1 DEF MergePR, TypeOK
  <2>2. ASSUME NEW c \in Chain, Revive(c) \/ Declare(c) PROVE registry' \in [Chain -> Entry]
    <3>1. /\ [registry[c] EXCEPT !.live = TRUE] \in Entry
          /\ [registry[c] EXCEPT !.declared = TRUE] \in Entry
      BY DEF Entry, TypeOK
    <3>2. \/ registry' = [registry EXCEPT ![c] = [registry[c] EXCEPT !.live = TRUE]]
          \/ registry' = [registry EXCEPT ![c] = [registry[c] EXCEPT !.declared = TRUE]]
      BY <2>2 DEF Revive, Declare
    <3>3. PICK e \in Entry : registry' = [registry EXCEPT ![c] = e]
      BY <3>1, <3>2 DEF TypeOK
    <3> QED BY <3>3 DEF TypeOK
  <2> QED BY <2>1, <2>2 DEF Maintainer, ClosePR, TypeOK
<1>4. TypeOK'
  BY <1>1, <1>2, <1>3 DEF TypeOK
<1>5. Control' /\ Recorded' /\ TodoRight' /\ Stamped'
  BY <1>1 DEF Control, Recorded, TodoRight, Stamped, Memory, Underway
<1> QED BY <1>1, <1>4, <1>5

LEMMA NextIInv == IInv /\ [Next]_vars => IInv'
<1> SUFFICES ASSUME IInv, [Next]_vars PROVE IInv'
  OBVIOUS
<1>1. CASE UNCHANGED vars
  BY <1>1 DEF IInv, TypeOK, Control, Recorded, TodoRight, Stamped, Memory, Underway, vars, githubVars,
              runVars, loopVars, historyVars
<1>2. CASE Process
  BY <1>2, StartRunKeeps, MeasureKeeps, SaveKeeps, EnterKeeps, EnterEndpointKeeps, QuietKeeps,
     CreatePRKeeps, PostKeeps, LabelFailsKeeps, CountPRKeeps, ExitKeeps DEF Process, Finish, Crash
<1>3. CASE Maintainer
  BY <1>3, MaintainerKeeps
<1> QED BY <1>1, <1>2, <1>3 DEF Next

THEOREM Inductive == Spec => []IInv
<1>1. Init => IInv
  BY InitIInv
<1>2. IInv /\ [Next]_vars => IInv'
  BY NextIInv
<1> QED BY <1>1, <1>2, PTL DEF Spec

\* Every variable of a whole run keeps its type.
THEOREM RunTypes == Spec => []TypeOK
<1>1. IInv => TypeOK
  BY DEF IInv
<1> QED BY <1>1, Inductive, PTL

\* No flow overwrites what another one recorded, no filtered run touches other
\* chains' files, and a later save makes up for a failed one (saveStateMap).
THEOREM RunsSaveExactly == Spec => []SavedStateExact
<1>1. IInv => SavedStateExact
  BY DEF IInv, Control, Recorded, SavedStateExact
<1> QED BY <1>1, Inductive, PTL

-----------------------------------------------------------------------------
(* What a step that opens a pull request may do.                            *)

\* Only CreatePR stamps a chain, the one it is called for in the current flow.
LEMMA WhoOpens ==
  ASSUME IInv, [Next]_vars, NEW fc \in NewlyOpened
  PROVE  CreatePR(fc[2]) /\ fc[1] = flow /\ fc[2] \in Chain
<1> USE DEF IInv
<1>0. fc[1] \in Flow /\ fc[2] \in Chain /\ truth'[fc[2]].last[fc[1]] # truth[fc[2]].last[fc[1]]
  BY DEF NewlyOpened
<1>1. CASE UNCHANGED truth
  BY <1>0, <1>1
<1>2. CASE Measure
  <2>1. PICK answer \in [loaded -> {"pass", "fail", "skip", "none"}],
             v \in [Chain -> {"none", "dead", "alive"}] :
          truth' = [c \in Chain |->
                      IF c \in loaded /\ mode # "dry" THEN Measured(truth[c], answer[c], v[c])
                      ELSE truth[c]]
    BY <1>2 DEF Measure
  <2>2. truth'[fc[2]].last = truth[fc[2]].last
    BY <1>0, <2>1, MeasuredType DEF TypeOK
  <2> QED BY <1>0, <2>2
<1>3. CASE EnterEndpoint
  <2>1. PICK passed \in SUBSET Flagged :
          truth' = IF mode = "dry" THEN truth
                   ELSE [c \in Chain |-> IF c \in passed THEN [truth[c] EXCEPT !.fails = 0]
                                         ELSE truth[c]]
    BY <1>3 DEF EnterEndpoint
  <2>2. truth'[fc[2]].last = truth[fc[2]].last
    BY <1>0, <2>1 DEF TypeOK, ChainState
  <2> QED BY <1>0, <2>2
<1>4. ASSUME NEW c \in Chain, CreatePR(c) PROVE CreatePR(fc[2]) /\ fc[1] = flow
  <2>1. /\ truth' = Stamp(truth, c, flow, now)
        /\ flow \in Flow /\ now \in Nat /\ truth \in [Chain -> ChainState]
    BY <1>4, CreatePRFacts, Zenon DEF TypeOK
  <2>2. \A d \in Chain, g \in Flow :
          truth'[d].last[g] = IF d = c /\ g = flow THEN now ELSE truth[d].last[g]
    BY <2>1, StampedType
  <2>3. fc[2] = c /\ fc[1] = flow
    BY <1>0, <2>2
  <2> QED BY <1>4, <2>3
<1>5. \/ UNCHANGED truth \/ Measure \/ EnterEndpoint \/ \E c \in Chain : CreatePR(c)
  <2>1. CASE UNCHANGED vars
    BY <2>1 DEF vars, historyVars
  <2>2. CASE Process
    BY <2>2 DEF Process, StartRun, SaveStateMap, EnterStatus, EnterHash, PassFlow, Skip, PrintPR,
                NoPR, AddLabels, LabelFails, Notice, NoticeFails, CountPR, EndLoop, Finish, Crash,
                Exit, historyVars
  <2>3. CASE Maintainer
    BY <2>3, MaintainerKeeps
  <2> QED BY <2>1, <2>2, <2>3 DEF Next
<1> QED BY <1>0, <1>1, <1>2, <1>3, <1>4, <1>5

\* Fixes go to chains that were not found dying in the same run; a chain that is
\* proposed as killed was, for MinRuns judged runs unless its state was lost
\* (openPRFlows and the excluded set of the two later flows).
THEOREM RunsOpenTheRightFlow == Spec => RightFlow
<1>1. ASSUME IInv, [Next]_vars, NEW fc \in NewlyOpened
      PROVE  IF fc[1] = "status"
             THEN verdict[fc[2]] = "dead" /\ (fc[2] \in lost \/ truth[fc[2]].death >= MinRuns)
             ELSE verdict[fc[2]] # "dead"
  <2> DEFINE c == fc[2]
  <2>1. CreatePR(c) /\ fc[1] = flow /\ c \in Chain
    BY <1>1, WhoOpens
  <2>2. pc = "loop" /\ mode = "real" /\ c \in todo
    BY <2>1, <1>1, CreatePRFacts
  <2>3. /\ c \in loaded
        /\ IF flow = "status" THEN verdict[c] = "dead" /\ mem[c].death >= MinRuns
           ELSE verdict[c] # "dead"
    BY <1>1, <2>2 DEF IInv, TodoRight
  <2>4. c \in lost \/ mem[c] = truth[c]
    BY <1>1, <2>1, <2>2, <2>3, MemoryComplete DEF IInv, Recorded, Posting
  <2> QED BY <2>1, <2>3, <2>4
<1>2. IInv /\ [Next]_vars =>
        [\A fc \in NewlyOpened :
           LET c == fc[2]
           IN  IF fc[1] = "status"
               THEN verdict[c] = "dead" /\ (c \in lost \/ truth[c].death >= MinRuns)
               ELSE verdict[c] # "dead"]_vars
  BY <1>1
<1> QED BY <1>2, Inductive, PTL DEF RightFlow, Spec

\* A flow's pull requests for one chain are a cooldown apart, whatever the other
\* flows open and save in between (inCooldown and the stamp of the three flows).
THEOREM RunsKeepTheCooldown == Spec => FlowCooldown
<1>1. ASSUME IInv, [Next]_vars, NEW fc \in NewlyOpened
      PROVE  \/ fc[2] \in lost
             \/ truth[fc[2]].last[fc[1]] = 0
             \/ now >= truth[fc[2]].last[fc[1]] + Cooldown
  <2> DEFINE c == fc[2]
  <2>1. CreatePR(c) /\ fc[1] = flow /\ c \in Chain
    BY <1>1, WhoOpens
  <2>2. pc = "loop" /\ mode = "real" /\ flow \in Flow /\ c \in loaded /\ ~InCooldown(c)
    BY <2>1, <1>1, CreatePRFacts
  <2>3. c \in lost \/ mem[c] = truth[c]
    BY <1>1, <2>1, <2>2, MemoryComplete DEF IInv, Recorded, Posting
  <2>4. /\ truth[c].last[flow] \in Nat /\ now \in Nat /\ Cooldown \in Nat
        /\ truth[c].last[flow] <= now
    BY <1>1, <2>1, <2>2, SentinelAssumption DEF IInv, TypeOK, Stamped, ChainState
  <2>5. CASE mem[c] = truth[c]
    BY <2>1, <2>2, <2>4, <2>5 DEF InCooldown
  <2> QED BY <2>1, <2>3, <2>5
<1>2. IInv /\ [Next]_vars =>
        [\A fc \in NewlyOpened :
           LET f == fc[1]  c == fc[2]
           IN  c \in lost \/ truth[c].last[f] = 0 \/ now >= truth[c].last[f] + Cooldown]_vars
  BY <1>1
<1> QED BY <1>2, Inductive, PTL DEF FlowCooldown, Spec

-----------------------------------------------------------------------------
(* The pull requests on GitHub and the notices on them.                     *)

OpenedInPast == \A p \in prs : p.at <= now

\* Two labelled pull requests have two titles, since every flow searches first
\* and one run at a time opens.
OneLabelled ==
  \A p, q \in prs : p.flow = q.flow /\ p.chain = q.chain /\ p.label /\ q.label => p = q

NoneLabelledYet ==
  \A c \in Chain : pc = "label" /\ Underway(c) => FindOpenPR(flow, c) = {}

\* The status pull request that the notices are about is the run's own.
LabelledNow ==
  \A c \in Chain : pc \in {"noticeEndpoint", "noticeHash"} /\ Underway(c) =>
    \A p \in FindOpenPR("status", c) : p.at = now

WordInv == OpenedInPast /\ OneLabelled /\ NoneLabelledYet /\ LabelledNow /\ SupersededNoticed

\* What the proofs use of a record of prs.
LEMMA LabelTyped ==
  ASSUME NEW q \in PullRequest
  PROVE  LET r == [q EXCEPT !.label = TRUE]
         IN  r.flow = q.flow /\ r.chain = q.chain /\ r.at = q.at /\ r.label /\ r.notice = q.notice
BY DEF PullRequest

LEMMA NoticeTyped ==
  ASSUME NEW q \in PullRequest, NEW n \in Nat
  PROVE  LET r == [q EXCEPT !.notice = n]
         IN  r.flow = q.flow /\ r.chain = q.chain /\ r.at = q.at /\ r.label = q.label /\ r.notice = n
BY DEF PullRequest

\* A new pull request has no label yet and concerns no pair.
LEMMA WordCreate ==
  ASSUME IInv, WordInv, NEW c \in Chain, CreatePR(c)
  PROVE  WordInv'
<1>0. /\ pc = "loop" /\ pc' = "label" /\ FindOpenPR(flow, c) = {}
      /\ next \in 1..Len(Order) /\ c = Order[next]
      /\ prs' = prs \cup {NewPR(c)} /\ now \in Nat
      /\ UNCHANGED <<flow, now, next, unheard>>
  BY CreatePRFacts, Zenon DEF CreatePR, IInv, TypeOK
<1>1. ~NewPR(c).label /\ NewPR(c).at = now
  BY DEF NewPR
<1>2. OpenedInPast' /\ OneLabelled'
  BY <1>0, <1>1 DEF WordInv, OpenedInPast, OneLabelled
<1>3. NoneLabelledYet'
  BY <1>0, <1>1 DEF NoneLabelledYet, Underway, FindOpenPR
<1>4. LabelledNow'
  BY <1>0 DEF LabelledNow
<1>5. SupersededNoticed'
  <2>1. \A f, d : ~Pending(f, d)
    BY <1>0 DEF Pending
  <2> QED BY <1>0, <1>1, <2>1 DEF WordInv, SupersededNoticed
<1> QED BY <1>2, <1>3, <1>4, <1>5 DEF WordInv

\* The label: a status pull request now has its two notices to come, a fix is
\* newer than every status pull request.
LEMMA WordLabel ==
  ASSUME IInv, WordInv, NEW c \in Chain, AddLabels(c)
  PROVE  WordInv'
<1> DEFINE n == [NewPR(c) EXCEPT !.label = TRUE]
<1>0. /\ pc = "label" /\ Underway(c) /\ flow \in Flow /\ now \in Nat /\ prs \subseteq PullRequest
      /\ prs' = {IF p = NewPR(c) THEN n ELSE p : p \in prs}
      /\ FindOpenPR(flow, c) = {}
      /\ UNCHANGED <<flow, now, next>>
  BY DEF AddLabels, runVars, loopVars, IInv, TypeOK, Control, Posting, WordInv, NoneLabelledYet
<1>1. \/ flow = "status" /\ pc' = "noticeEndpoint" /\ unheard' = {fc \in unheard : fc[2] # c}
      \/ flow # "status" /\ pc' = "count" /\ unheard' = unheard
  BY DEF AddLabels
<1>2. n.flow = flow /\ n.chain = c /\ n.at = now /\ n.label
  BY DEF NewPR
<1> HIDE DEF n
<1>3. prs' \subseteq prs \cup {n}
  BY <1>0
<1>4. \A p \in prs : p.flow = flow /\ p.chain = c => ~p.label
  BY <1>0 DEF FindOpenPR
<1>5. OpenedInPast'
  BY <1>0, <1>2, <1>3 DEF WordInv, OpenedInPast
<1>6. OneLabelled'
  BY <1>2, <1>3, <1>4 DEF WordInv, OneLabelled
<1>7. NoneLabelledYet'
  BY <1>1 DEF NoneLabelledYet
<1>8. LabelledNow'
  <2> SUFFICES ASSUME NEW d \in Chain, pc' = "noticeEndpoint", Underway(d)',
                      NEW p \in prs', p.flow = "status", p.chain = d, p.label
               PROVE  p.at = now'
    BY <1>1 DEF LabelledNow, FindOpenPR
  <2>1. d = c /\ flow = "status"
    BY <1>0, <1>1 DEF Underway
  <2> QED BY <1>0, <1>2, <1>3, <1>4, <2>1
<1>9. SupersededNoticed'
  <2> SUFFICES ASSUME NEW p \in prs', NEW q \in prs',
                      p.flow = "status", q.flow # "status", q.chain = p.chain,
                      p.label, q.label, q.at < p.at
               PROVE  \/ q.notice = p.at
                      \/ Pending(q.flow, q.chain)'
                      \/ <<q.flow, q.chain>> \in unheard'
    BY DEF SupersededNoticed
  <2>1. CASE p = n
    <3>1. q \in prs /\ flow = "status" /\ q.chain = c
      BY <1>2, <1>3, <2>1
    <3>2. q.flow \in {"endpoint", "hash"}
      BY <1>0, <3>1 DEF PullRequest, Flow
    <3>3. Underway(c)' /\ pc' = "noticeEndpoint"
      BY <1>0, <1>1, <3>1 DEF Underway
    <3> QED BY <3>1, <3>2, <3>3 DEF Pending
  <2>2. CASE p # n /\ q = n
    <3>1. p.at <= now /\ p.at \in Nat
      BY <1>0, <1>3, <2>2 DEF WordInv, OpenedInPast, PullRequest
    <3> QED BY <1>0, <1>2, <2>2, <3>1
  <2>3. CASE p # n /\ q # n
    <3>1. p \in prs /\ q \in prs
      BY <1>3, <2>3
    <3>2. ~Pending(q.flow, q.chain)
      BY <1>0 DEF Pending
    <3>3. q.notice = p.at \/ <<q.flow, q.chain>> \in unheard
      BY <3>1, <3>2 DEF WordInv, SupersededNoticed
    <3>4. flow = "status" => q.chain # c
      BY <1>4, <3>1
    <3> QED BY <1>1, <3>3, <3>4
  <2> QED BY <2>1, <2>2, <2>3
<1> QED BY <1>5, <1>6, <1>7, <1>8, <1>9 DEF WordInv

\* One title: the fix with it is told of this run's status pull request, or the
\* failure is on record.
LEMMA WordNotice ==
  ASSUME IInv, WordInv, NEW c \in Chain, Notice(c) \/ NoticeFails(c)
  PROVE  WordInv'
<1>0. /\ pc \in {"noticeEndpoint", "noticeHash"} /\ Underway(c) /\ flow = "status"
      /\ now \in Nat /\ prs \subseteq PullRequest
      /\ pc' = IF pc = "noticeEndpoint" THEN "noticeHash" ELSE "count"
      /\ UNCHANGED <<flow, now, next>>
  BY DEF Notice, NoticeFails, AfterNotice, runVars, loopVars, IInv, TypeOK, Control
<1>1. \/ prs' = prs /\ unheard' = unheard /\ FindOpenPR(Title, c) = {}
      \/ prs' = prs /\ unheard' = unheard \cup {<<Title, c>>}
      \/ unheard' = unheard /\ \E q \in FindOpenPR(Title, c) :
                                 prs' = (prs \ {q}) \cup {[q EXCEPT !.notice = now]}
  BY DEF Notice, NoticeFails, historyVars, githubVars
<1>2. PICK q0 \in PullRequest, r0 \in PullRequest :
        /\ r0.flow = q0.flow /\ r0.chain = q0.chain /\ r0.at = q0.at /\ r0.label = q0.label
        /\ \/ prs' = prs /\ unheard' = unheard /\ FindOpenPR(Title, c) = {}
           \/ prs' = prs /\ unheard' = unheard \cup {<<Title, c>>}
           \/ /\ prs' = (prs \ {q0}) \cup {r0} /\ unheard' = unheard
              /\ q0 \in FindOpenPR(Title, c) /\ r0.notice = now
  <2>1. CASE \/ prs' = prs /\ unheard' = unheard /\ FindOpenPR(Title, c) = {}
             \/ prs' = prs /\ unheard' = unheard \cup {<<Title, c>>}
    <3>1. NewPR(c) \in PullRequest
      BY <1>0 DEF NewPR, PullRequest, Flow
    <3> QED BY <2>1, <3>1
  <2>2. CASE unheard' = unheard /\ \E q \in FindOpenPR(Title, c) :
                                    prs' = (prs \ {q}) \cup {[q EXCEPT !.notice = now]}
    <3>1. PICK q \in FindOpenPR(Title, c) : prs' = (prs \ {q}) \cup {[q EXCEPT !.notice = now]}
      BY <2>2
    <3>2. q \in PullRequest /\ [q EXCEPT !.notice = now] \in PullRequest
      BY <1>0 DEF FindOpenPR, PullRequest
    <3> DEFINE r == [q EXCEPT !.notice = now]
    <3>3. /\ r.flow = q.flow /\ r.chain = q.chain /\ r.at = q.at /\ r.label = q.label
          /\ r.notice = now
      BY <1>0, <3>2, NoticeTyped
    <3>4. q \in PullRequest /\ r \in PullRequest /\ prs' = (prs \ {q}) \cup {r}
      BY <3>1, <3>2
    <3> HIDE DEF r
    <3> QED BY <2>2, <3>3, <3>4
  <2> QED BY <1>1, <2>1, <2>2
<1>3. prs' \subseteq prs \cup {r0} /\ (prs' = prs \/ (q0 \in prs /\ prs' = (prs \ {q0}) \cup {r0}))
  BY <1>2 DEF FindOpenPR
<1>4. OpenedInPast'
  BY <1>0, <1>2, <1>3 DEF WordInv, OpenedInPast
<1>5. OneLabelled'
  BY <1>2, <1>3 DEF WordInv, OneLabelled
<1>6. NoneLabelledYet'
  BY <1>0 DEF NoneLabelledYet
<1>7. \A d \in Chain : Underway(d)' => d = c
  BY <1>0 DEF Underway
<1>8. \A p \in prs' : p.flow = "status" /\ p.chain = c /\ p.label => p.at = now
  <2>1. \A p \in prs : p.flow = "status" /\ p.chain = c /\ p.label => p.at = now
    BY <1>0 DEF WordInv, LabelledNow, FindOpenPR
  <2> QED BY <1>2, <1>3, <2>1
<1>9. LabelledNow'
  BY <1>0, <1>7, <1>8 DEF LabelledNow, FindOpenPR
<1>10. SupersededNoticed'
  <2> SUFFICES ASSUME NEW p \in prs', NEW q \in prs',
                      p.flow = "status", q.flow # "status", q.chain = p.chain,
                      p.label, q.label, q.at < p.at
               PROVE  \/ q.notice = p.at
                      \/ Pending(q.flow, q.chain)'
                      \/ <<q.flow, q.chain>> \in unheard'
    BY DEF SupersededNoticed
  <2>0. unheard \subseteq unheard'
    BY <1>2
  <2>1. p \in prs
    BY <1>2, <1>3, TitleType DEF FindOpenPR
  <2>2. CASE q.chain = c /\ q.flow = Title
    <3>1. p.at = now
      BY <1>8, <2>2
    <3>2. CASE <<Title, c>> \in unheard'
      BY <2>2, <3>2
    <3>3. CASE prs' = prs /\ FindOpenPR(Title, c) = {}
      BY <2>2, <3>3 DEF FindOpenPR
    <3>4. CASE prs' = (prs \ {q0}) \cup {r0} /\ q0 \in FindOpenPR(Title, c) /\ r0.notice = now
      <4>1. q \in prs => q = q0
        BY <2>2, <3>4 DEF WordInv, OneLabelled, FindOpenPR
      <4> QED BY <3>1, <3>4, <4>1
    <3> QED BY <1>2, <3>2, <3>3, <3>4
  <2>3. CASE q.chain = c /\ q.flow # Title /\ pc = "noticeEndpoint"
    <3>1. q.flow = "hash"
      BY <1>0, <1>2, <1>3, <2>3 DEF Title, PullRequest, Flow
    <3>2. Underway(c)' /\ pc' = "noticeHash"
      BY <1>0, <2>3 DEF Underway
    <3> QED BY <2>3, <3>1, <3>2 DEF Pending
  <2>4. CASE ~Pending(q.flow, q.chain) /\ ~(q.chain = c /\ q.flow = Title)
    <3>1. q \in prs
      BY <1>2, <1>3, <2>4 DEF FindOpenPR
    <3>2. q.notice = p.at \/ <<q.flow, q.chain>> \in unheard
      BY <2>1, <2>4, <3>1 DEF WordInv, SupersededNoticed
    <3> QED BY <2>0, <3>2
  <2>5. Pending(q.flow, q.chain) =>
          q.chain = c /\ (q.flow = Title \/ pc = "noticeEndpoint")
    BY <1>0 DEF Pending, Underway, Title
  <2> QED BY <2>2, <2>3, <2>4, <2>5
<1> QED BY <1>4, <1>5, <1>6, <1>9, <1>10 DEF WordInv

\* The rest of a run leaves the pull requests alone; a run that ends before a
\* notice puts it on record.
LEMMA WordQuiet ==
  ASSUME IInv, WordInv, prs' = prs, now' \in {now, now + 1},
         pc' \notin {"label", "noticeEndpoint", "noticeHash"},
         \A fc \in Flow \X Chain :
           fc \in unheard \/ Pending(fc[1], fc[2]) => fc \in unheard'
  PROVE  WordInv'
<1>0. prs \subseteq PullRequest /\ now \in Nat
  BY DEF IInv, TypeOK
<1>1. OpenedInPast'
  BY <1>0 DEF WordInv, OpenedInPast, PullRequest
<1>2. OneLabelled' /\ NoneLabelledYet' /\ LabelledNow'
  BY DEF WordInv, OneLabelled, NoneLabelledYet, LabelledNow
<1>3. SupersededNoticed'
  <2>1. \A q \in prs : <<q.flow, q.chain>> \in Flow \X Chain
    BY <1>0 DEF PullRequest
  <2>2. \A q \in prs : <<q.flow, q.chain>> \in unheard \/ Pending(q.flow, q.chain) =>
                       <<q.flow, q.chain>> \in unheard'
    BY <2>1
  <2> QED BY <2>2 DEF WordInv, SupersededNoticed
<1> QED BY <1>1, <1>2, <1>3 DEF WordInv

\* Between steps of a run pull requests only disappear.
LEMMA WordMaintainer ==
  ASSUME IInv, WordInv, prs' \subseteq prs, UNCHANGED <<now, pc, flow, next, unheard>>
  PROVE  WordInv'
<1>1. OpenedInPast' /\ OneLabelled'
  BY DEF WordInv, OpenedInPast, OneLabelled
<1>2. \A c \in Chain : Underway(c)' = Underway(c)
  BY DEF Underway
<1>3. NoneLabelledYet' /\ LabelledNow'
  BY <1>2 DEF WordInv, NoneLabelledYet, LabelledNow, FindOpenPR
<1>4. SupersededNoticed'
  BY DEF WordInv, SupersededNoticed, Pending, Underway
<1> QED BY <1>1, <1>3, <1>4 DEF WordInv

LEMMA WordHolds == Spec => []WordInv
<1>1. Init => WordInv
  BY DEF Init, WordInv, OpenedInPast, OneLabelled, NoneLabelledYet, LabelledNow, SupersededNoticed
<1>2. ASSUME IInv, WordInv, [Next]_vars PROVE WordInv'
  <2>1. CASE \E c \in Chain : CreatePR(c) \/ AddLabels(c) \/ Notice(c) \/ NoticeFails(c)
    BY <1>2, <2>1, WordCreate, WordLabel, WordNotice
  <2>2. CASE UNCHANGED vars \/ Maintainer
    <3>1. prs' \subseteq prs /\ UNCHANGED <<now, pc, flow, next, unheard>>
      BY <2>2 DEF vars, githubVars, runVars, loopVars, historyVars, Maintainer, MergePR, ClosePR,
                  Revive, Declare
    <3> QED BY <1>2, <3>1, WordMaintainer
  <2>3. CASE Finish \/ Crash
    <3>1. /\ prs' = prs /\ now' = now /\ pc' = "idle"
          /\ unheard' = unheard \cup {fc \in Flow \X Chain : Pending(fc[1], fc[2])}
      BY <2>3 DEF Finish, Crash, Exit, githubVars
    <3> QED BY <1>2, <3>1, WordQuiet
  <2>4. CASE \/ StartRun \/ Measure \/ SaveStateMap
             \/ EnterStatus \/ EnterEndpoint \/ EnterHash \/ PassFlow \/ EndLoop
             \/ \E c \in Chain : Skip(c) \/ PrintPR(c) \/ NoPR(c) \/ LabelFails(c) \/ CountPR(c)
    <3>1. /\ prs' = prs /\ unheard' = unheard /\ now' \in {now, now + 1}
          /\ pc' \notin {"label", "noticeEndpoint", "noticeHash"}
          /\ pc \notin {"noticeEndpoint", "noticeHash"}
      BY <2>4 DEF StartRun, Measure, SaveStateMap, Proceed, EnterStatus, EnterEndpoint, EnterHash,
                  EnterFlow, PassFlow, EndLoop, Skip, PrintPR, NoPR, Opening, Looking, LabelFails,
                  CountPR, githubVars, runVars, historyVars
    <3>2. \A f, d : ~Pending(f, d)
      BY <3>1 DEF Pending
    <3> QED BY <1>2, <3>1, <3>2, WordQuiet
  <2> QED BY <1>2, <2>1, <2>2, <2>3, <2>4 DEF Next, Process
<1> QED BY <1>1, <1>2, Inductive, PTL DEF Spec

\* No open fix is left without word of a newer open status pull request for its
\* chain: the last comment on it points to that one, unless the run has yet to
\* come to the notice or a call of just this notice failed (notifySuperseded).
THEOREM SupersededGetWord == Spec => []SupersededNoticed
<1>1. WordInv => SupersededNoticed
  BY DEF WordInv
<1> QED BY <1>1, WordHolds, PTL

-----------------------------------------------------------------------------
(* The caps: while a flow's loop runs, opened counts its pull requests but  *)
(* for the one that is being posted, and the flows after it have made none  *)
(* yet.                                                                     *)

Of(f, s) == {fc \in s : fc[1] = f}

Later(f) ==
  CASE f = "start" -> Flow [] f = "status" -> {"endpoint", "hash"}
    [] f = "endpoint" -> {"hash"} [] f = "hash" -> {}

Counted ==
  /\ IsFiniteSet(made)
  /\ \A f \in Later(flow) : Of(f, made) = {}
  /\ pc = "enter" => Of(flow, made) = {}
  /\ pc \in {"loop", "label"} => Cardinality(Of(flow, made)) <= opened
  /\ pc = "label" => opened < Cap[flow]
  /\ pc \in Posting => Cardinality(Of(flow, made)) <= opened + 1
  /\ \A f \in Flow : Cardinality(Of(f, made)) <= Cap[f]

\* Nothing made, nothing counted.
LEMMA NoneMade == \A f \in Flow : Of(f, {}) = {} /\ Cardinality({}) <= Cap[f]
<1>1. \A f \in Flow : Cap[f] \in Nat
  BY SentinelAssumption
<1> QED BY <1>1, FS_EmptySet DEF Of

OneMore(s, f, c) == s \cup {<<f, c>>}

\* One more pull request of a flow adds one to its count and to no other.
LEMMA OneMoreMade ==
  ASSUME NEW s, IsFiniteSet(s), NEW f, NEW c
  PROVE  /\ IsFiniteSet(OneMore(s, f, c))
         /\ Cardinality(Of(f, s)) \in Nat
         /\ Cardinality(Of(f, OneMore(s, f, c))) <= Cardinality(Of(f, s)) + 1
         /\ \A g : g # f => Of(g, OneMore(s, f, c)) = Of(g, s)
<1> DEFINE t == OneMore(s, f, c)
<1> USE DEF OneMore
<1>1. IsFiniteSet(Of(f, s))
  BY FS_Subset DEF Of
<1>2. Of(f, t) = Of(f, s) \cup {<<f, c>>}
  BY DEF Of
<1>3. IsFiniteSet(t)
  BY FS_AddElement
<1>4. /\ Cardinality(Of(f, s)) \in Nat
      /\ Cardinality(Of(f, s) \cup {<<f, c>>}) <= Cardinality(Of(f, s)) + 1
  <2>1. ASSUME NEW u, IsFiniteSet(u), NEW x
        PROVE  Cardinality(u) \in Nat /\ Cardinality(u \cup {x}) <= Cardinality(u) + 1
    <3>1. Cardinality(u) \in Nat
      BY <2>1, FS_CardinalityType
    <3>2. Cardinality(u \cup {x}) = IF x \in u THEN Cardinality(u) ELSE Cardinality(u) + 1
      BY <2>1, FS_AddElement, Zenon
    <3>3. ASSUME NEW m, NEW k \in Nat, NEW P, m = IF P THEN k ELSE k + 1 PROVE m <= k + 1
      BY <3>3
    <3> QED BY <3>1, <3>2, <3>3, Zenon
  <2> QED BY <1>1, <2>1
<1>5. \A g : g # f => Of(g, t) = Of(g, s)
  BY DEF Of
<1> QED BY <1>2, <1>3, <1>4, <1>5

LEMMA InitCounted == Init => Counted
<1>1. Init => made = {} /\ flow = "start" /\ pc = "idle"
  BY DEF Init
<1> QED BY <1>1, NoneMade, FS_EmptySet DEF Counted, Later, Posting

\* Passing on to the next flow: it has made none.
LEMMA ProceedCounted ==
  ASSUME IInv, Counted, Proceed, pc \in {"save", "enter", "loop"}, UNCHANGED <<made, opened>>
  PROVE  Counted'
<1>1. CASE flow = "hash"
  BY <1>1 DEF Proceed, Counted, Posting
<1>2. CASE flow \in {"start", "status", "endpoint"}
  <2>1. pc' = "enter" /\ flow' = After(flow)
    BY <1>2 DEF Proceed
  <2>2. flow' \in Later(flow) /\ Later(flow') \subseteq Later(flow)
    BY <1>2, <2>1 DEF After, Later, Flow
  <2> QED BY <2>1, <2>2 DEF Counted, Posting
<1> QED BY <1>1, <1>2 DEF IInv, TypeOK, Flow

LEMMA NextCounted == IInv /\ Counted /\ [Next]_vars => Counted'
<1> SUFFICES ASSUME IInv, Counted, [Next]_vars PROVE Counted'
  OBVIOUS
<1>1. CASE UNCHANGED vars
  BY <1>1 DEF vars, loopVars, historyVars, Counted, Posting
<1>2. CASE StartRun
  BY <1>2 DEF StartRun, loopVars, historyVars, Counted, Posting
<1>3. CASE Measure
  <2>1. /\ UNCHANGED made /\ pc' \in {"enter", "save"} /\ flow = "start"
        /\ flow' = "start" \/ (flow' = "status" /\ mode = "dry")
        /\ pc' = "enter" => flow' = "status"
    BY <1>3 DEF Measure, IInv, Control
  <2>2. Later("start") = Flow /\ Later("status") = {"endpoint", "hash"}
    BY DEF Later
  <2> QED BY <2>1, <2>2 DEF Counted, Flow, Posting
<1>4. CASE SaveStateMap \/ PassFlow
  BY <1>4, ProceedCounted DEF SaveStateMap, PassFlow, historyVars
<1>5. CASE EndLoop
  <2>1. CASE mode = "dry"
    BY <1>5, <2>1, ProceedCounted DEF EndLoop, historyVars
  <2>2. CASE mode # "dry"
    BY <1>5, <2>2 DEF EndLoop, historyVars, Counted, Posting
  <2> QED BY <2>1, <2>2
<1>6. CASE EnterStatus \/ EnterEndpoint \/ EnterHash
  <2>1. pc = "enter" /\ pc' = "loop" /\ opened' = 0 /\ UNCHANGED <<flow, made>>
    BY <1>6 DEF EnterStatus, EnterEndpoint, EnterHash, EnterFlow
  <2> QED BY <2>1, FS_EmptySet DEF Counted, Posting
<1>7. ASSUME NEW c \in Chain, Skip(c) \/ PrintPR(c) \/ NoPR(c) PROVE Counted'
  <2>1. UNCHANGED <<pc, flow, made>> /\ opened' \in {opened, opened + 1} /\ pc = "loop"
    BY <1>7 DEF Skip, PrintPR, NoPR, Opening, Looking, historyVars
  <2>2. Cardinality(Of(flow, made)) \in Nat /\ opened \in Nat
    BY FS_Subset, FS_CardinalityType DEF Counted, Of, IInv, TypeOK
  <2> QED BY <2>1, <2>2 DEF Counted, Posting
<1>8. ASSUME NEW c \in Chain, CreatePR(c) PROVE Counted'
  <2>1. /\ pc = "loop" /\ pc' = "label" /\ opened < Cap[flow] /\ flow \in Flow
        /\ UNCHANGED <<flow, opened, made>>
    BY <1>8, CreatePRFacts, Zenon
  <2>2. Cardinality(Of(flow, made)) \in Nat /\ opened \in Nat
    BY FS_Subset, FS_CardinalityType DEF Counted, Of, IInv, TypeOK
  <2> QED BY <2>1, <2>2 DEF Counted, Posting
<1>11. ASSUME NEW c \in Chain, AddLabels(c) PROVE Counted'
  <2>1. /\ pc = "label" /\ pc' \in {"noticeEndpoint", "count"} /\ flow \in Flow
        /\ made' = made \cup {<<flow, c>>} /\ UNCHANGED <<flow, opened>>
    BY <1>11 DEF AddLabels, loopVars, IInv, Control, Posting
  <2>2. /\ IsFiniteSet(made')
        /\ Cardinality(Of(flow, made)) \in Nat
        /\ Cardinality(Of(flow, made')) <= Cardinality(Of(flow, made)) + 1
        /\ \A g : g # flow => Of(g, made') = Of(g, made)
    <3>1. IsFiniteSet(made)
      BY DEF Counted
    <3>2. made' = OneMore(made, flow, c)
      BY <2>1 DEF OneMore
    <3> QED BY <3>1, <3>2, OneMoreMade
  <2>0. IsFiniteSet(Of(flow, made'))
    <3>1. Of(flow, made') \subseteq made'
      BY DEF Of
    <3> QED BY <2>2, <3>1, FS_Subset
  <2>3. /\ Cardinality(Of(flow, made')) \in Nat /\ opened \in Nat /\ Cap[flow] \in Nat
    BY <2>0, <2>1, FS_CardinalityType, SentinelAssumption DEF IInv, TypeOK
  <2>4. Cardinality(Of(flow, made')) <= opened + 1 /\ opened + 1 <= Cap[flow]
    BY <2>1, <2>2, <2>3 DEF Counted
  <2>5. \A f \in Later(flow) : f # flow
    BY <2>1 DEF Later, Flow
  <2>6. \A f \in Later(flow) : Of(f, made') = {}
    BY <2>2, <2>5 DEF Counted
  <2>7. \A f \in Flow : Cardinality(Of(f, made')) <= Cap[f]
    <3>1. Cardinality(Of(flow, made')) <= Cap[flow]
      BY <2>3, <2>4
    <3>2. \A f \in Flow : f # flow => Cardinality(Of(f, made')) <= Cap[f]
      BY <2>2 DEF Counted
    <3> QED BY <3>1, <3>2
  <2> QED BY <2>1, <2>2, <2>4, <2>6, <2>7 DEF Counted
<1>12. ASSUME NEW c \in Chain, Notice(c) \/ NoticeFails(c) PROVE Counted'
  <2>1. pc \in Posting /\ pc' \in {"noticeHash", "count"} /\ UNCHANGED <<flow, opened, made>>
    BY <1>12 DEF Notice, NoticeFails, AfterNotice, loopVars, historyVars, Posting
  <2> QED BY <2>1 DEF Counted
<1>13. ASSUME NEW c \in Chain, LabelFails(c) \/ CountPR(c) PROVE Counted'
  <2>1. /\ pc' = "loop" /\ UNCHANGED <<flow, made>>
        /\ (pc = "label" /\ opened' = opened) \/ (pc = "count" /\ opened' = opened + 1)
    BY <1>13 DEF LabelFails, CountPR, historyVars
  <2> QED BY <2>1 DEF Counted, Posting
<1>9. CASE Finish \/ Crash
  <2>1. made' = {} /\ flow' = "start" /\ pc' = "idle"
    BY <1>9 DEF Finish, Crash, Exit
  <2>2. Later("start") = Flow
    BY DEF Later
  <2> QED BY <2>1, <2>2, NoneMade, FS_EmptySet DEF Counted, Posting
<1>10. CASE Maintainer
  <2>1. UNCHANGED <<made, flow, pc, opened>>
    BY <1>10 DEF Maintainer, MergePR, ClosePR, Revive, Declare, loopVars, historyVars
  <2> QED BY <2>1 DEF Counted
<1> QED BY <1>1, <1>2, <1>3, <1>4, <1>5, <1>6, <1>7, <1>8, <1>9, <1>10, <1>11, <1>12,
        <1>13 DEF Next, Process

\* Each of the three flows of a run keeps to its own cap (--max-status-prs,
\* --max-endpoint-prs, --max-hash-prs), however many chains qualify.
THEOREM RunsKeepTheCaps == Spec => []FlowCaps
<1>1. Counted => FlowCaps
  BY DEF Counted, FlowCaps, Of
<1> QED BY <1>1, InitCounted, NextCounted, Inductive, PTL DEF Spec

=============================================================================
