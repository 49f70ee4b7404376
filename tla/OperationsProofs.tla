--------------------------- MODULE OperationsProofs ---------------------------
(***************************************************************************)
(* Theorems about the programs around a conversation: the chip of the LLM, *)
(* the settings it runs with, the download of the models, the release      *)
(* builder and the forensic tools.  Each component has its own theorem,    *)
(* for every value of its constants; they share no state.                  *)
(***************************************************************************)
EXTENDS LlmStatus, LlmRuntime, ModelDownload, ReleaseBuild, LatencyForensics, TraceFile,
        ReplayServers, ReplayVerdict, FiniteSetTheorems, SequenceTheorems, TLAPS

(***************************************************************************)
(* The methods of a chip.                                                  *)
(***************************************************************************)

\* Painting changes the state only (set_ready, set_error).
LEMMA SetFacts ==
    ASSUME NEW c \in Chip, NEW s \in ChipStates
    PROVE  /\ Set(c, s) \in Chip
           /\ Set(c, s).state = s
           /\ Set(c, s).prev = c.prev
  BY DEF Set, Chip

\* A span comes from a state that is not a span's (begin).
LEMMA BegunFacts ==
    ASSUME NEW c \in Chip
    PROVE  /\ Begun(c) \in Chip
           /\ Begun(c).state = "processing"
           /\ Begun(c).prev \in {c.prev, c.state}
           /\ Begun(c).prev = "processing" => c.prev = "processing"
  BY DEF Begun, Chip, ChipStates

\* A completed span leaves the chip green, unless a model is missing (end).
LEMMA CompletedFacts ==
    ASSUME NEW c \in Chip, c.prev \notin {"processing", "missing"}, c.state # "missing"
    PROVE  /\ Completed(c) \in Chip
           /\ Completed(c).state = "ready"
           /\ Completed(c).prev = ""
  <1>1. /\ Ended(c) \in Chip
        /\ Ended(c).state \in {"ready", "error"}
        /\ Ended(c).prev = ""
    BY DEF Ended, Before, Chip, ChipStates
  <1>2. Set(Ended(c), "ready") \in Chip /\ Set(Ended(c), "ready").state = "ready"
          /\ Set(Ended(c), "ready").prev = ""
    BY <1>1, SetFacts DEF ChipStates
  <1> QED
    BY <1>1, <1>2 DEF Completed

-----------------------------------------------------------------------------
(***************************************************************************)
(* The chip is honest.  What keeps a failed probe red is that the loop     *)
(* probes only while nothing is verified, so a verified server has no      *)
(* failed probe behind it; what keeps the chip from staying busy is that   *)
(* no span begins in another.                                              *)
(***************************************************************************)

Probing ==
    /\ verified => ~probeFailed
    /\ loop = "probe" => ~verified /\ attempts \in 1 .. MaxAttempts

Spans ==
    /\ chip.state # "missing"
    /\ chip.prev \notin {"processing", "missing"}

HonestInv == ChipHonest /\ Probing /\ Spans

LEMMA HonestInit == Init => HonestInv
  <1> SUFFICES ASSUME Init PROVE HonestInv
    OBVIOUS
  <1>1. chip \in Chip /\ chip.state = "ready" /\ chip.prev = ""
    BY DEF Init, NewChip, Chip, ChipStates
  <1>2. TypeOK
    <2>1. turn \in [Sessions -> {"none", "prompt", "started", "stream"}]
      BY DEF Init
    <2>2. attempts \in 0 .. MaxAttempts
      BY StatusAssumption DEF Init
    <2> QED
      BY <1>1, <2>1, <2>2 DEF Init, TypeOK
  <1> QED
    BY <1>1, <1>2
       DEF Init, HonestInv, ChipHonest, GreenMeansAnswered, ProcessingIsWork, Probing, Spans

\* A chip painted green or red is no longer busy; whether it may be green is
\* for the painter to know.
LEMMA PaintHonest ==
    ASSUME HonestInv, NEW s \in {"ready", "error"}, chip' = Set(chip, s)
    PROVE  /\ chip' \in Chip
           /\ chip'.state = s
           /\ Spans'
           /\ ProcessingIsWork'
  BY SetFacts DEF HonestInv, ChipHonest, TypeOK, ChipStates, ProcessingIsWork, Spans

LEMMA HonestNext == HonestInv /\ [Next]_vars => HonestInv'
  <1> SUFFICES ASSUME HonestInv, [Next]_vars PROVE HonestInv'
    OBVIOUS
  <1> USE StatusAssumption
  <1>0. TypeOK /\ GreenMeansAnswered /\ ProcessingIsWork /\ Probing /\ Spans /\ chip \in Chip
    BY DEF HonestInv, ChipHonest, TypeOK
  <1>1. CASE UNCHANGED vars
    BY <1>0, <1>1 DEF vars, probeVars, HonestInv, ChipHonest, TypeOK, GreenMeansAnswered,
                      ProcessingIsWork, Probing, Spans
  <1>2. CASE ServerChanges
    BY <1>0, <1>2 DEF ServerChanges, probeVars, HonestInv, ChipHonest, TypeOK,
                      GreenMeansAnswered, ProcessingIsWork, Probing, Spans
  <1>3. CASE HealthLoop
    <2>1. CASE Ask
      BY <1>0, <2>1 DEF Ask, Health, Answers, probeVars, HonestInv, ChipHonest, TypeOK,
                        GreenMeansAnswered, ProcessingIsWork, Probing, Spans
    <2>2. CASE Healthy
      <3>1. CASE ~verified /\ attempts < MaxAttempts
        BY <1>0, <2>2, <3>1 DEF Healthy, HonestInv, ChipHonest, TypeOK, GreenMeansAnswered,
                                ProcessingIsWork, Probing, Spans
      <3>2. CASE ~(~verified /\ attempts < MaxAttempts)
        <4>1. /\ PaintHealthy(verified) /\ loop' = "sleep" /\ attempts' = attempts
              /\ UNCHANGED <<server, selected, verified, probeFailed, asked, turn, answered,
                             cut>>
          BY <2>2, <3>2 DEF Healthy
        <4>2. CASE UNCHANGED <<chip, detail>>
          BY <1>0, <4>1, <4>2 DEF HonestInv, ChipHonest, TypeOK, GreenMeansAnswered,
                                  ProcessingIsWork, Probing, Spans
        <4>3. CASE /\ chip' = Set(chip, "ready") /\ detail' = selected
                   /\ chip.state # "processing" /\ (verified \/ chip.state # "error")
          <5>1. chip' \in Chip /\ chip'.state = "ready" /\ Spans' /\ ProcessingIsWork'
            BY <4>3, PaintHonest
          <5>2. TypeOK' /\ Probing'
            BY <1>0, <4>1, <4>3, <5>1 DEF TypeOK, Probing
          <5>3. GreenMeansAnswered'
            <6>1. CASE verified
              BY <1>0, <4>1, <6>1 DEF Probing, GreenMeansAnswered
            <6>2. CASE chip.state = "ready"
              BY <1>0, <4>1, <6>2 DEF GreenMeansAnswered
            <6> QED
              BY <1>0, <4>3, <6>1, <6>2 DEF Spans, Chip, ChipStates
          <5> QED
            BY <5>1, <5>2, <5>3 DEF HonestInv, ChipHonest
        <4> QED
          BY <4>1, <4>2, <4>3 DEF PaintHealthy
      <3> QED
        BY <3>1, <3>2
    <2>3. CASE Unhealthy
      <3>1. chip' \in Chip /\ chip'.state = "error" /\ Spans' /\ ProcessingIsWork'
        BY <2>3, PaintHonest DEF Unhealthy
      <3>2. attempts' \in 0 .. MaxAttempts
        BY <2>3 DEF Unhealthy
      <3>3. TypeOK' /\ Probing'
        BY <1>0, <2>3, <3>1, <3>2 DEF Unhealthy, TypeOK, Probing
      <3> QED
        BY <3>1, <3>3 DEF HonestInv, ChipHonest, GreenMeansAnswered
    <2>4. CASE ProbeAnswered
      <3>1. CASE UNCHANGED <<chip, detail>>
        BY <1>0, <2>4, <3>1 DEF ProbeAnswered, HonestInv, ChipHonest, TypeOK,
                                GreenMeansAnswered, ProcessingIsWork, Probing, Spans
      <3>2. CASE chip' = Set(chip, "ready") /\ detail' = selected
        <4>1. chip' \in Chip /\ Spans' /\ ProcessingIsWork'
          BY <3>2, PaintHonest
        <4>2. TypeOK' /\ Probing' /\ GreenMeansAnswered'
          BY <1>0, <2>4, <3>2, <4>1 DEF ProbeAnswered, TypeOK, Probing, GreenMeansAnswered
        <4> QED
          BY <4>1, <4>2 DEF HonestInv, ChipHonest
      <3> QED
        BY <2>4, <3>1, <3>2 DEF ProbeAnswered, PaintHealthy
    <2>5. CASE ProbeFails
      <3>1. chip' \in Chip /\ chip'.state = "error" /\ Spans' /\ ProcessingIsWork'
        BY <2>5, PaintHonest DEF ProbeFails
      <3>2. TypeOK' /\ Probing'
        BY <1>0, <2>5, <3>1 DEF ProbeFails, TypeOK, Probing
      <3> QED
        BY <3>1, <3>2 DEF HonestInv, ChipHonest, GreenMeansAnswered
    <2> QED
      BY <1>3, <2>1, <2>2, <2>3, <2>4, <2>5 DEF HealthLoop
  <1>4. CASE Requests
    <2>1. CASE ApiAsk
      BY <1>0, <2>1 DEF ApiAsk, Health, Answers, probeVars, HonestInv, ChipHonest, TypeOK,
                        GreenMeansAnswered, ProcessingIsWork, Probing, Spans
    <2>2. CASE ApiAnswer
      <3>1. asked' = "none" /\ UNCHANGED <<server, selected, loop, probeVars, turn, answered, cut>>
        BY <2>2 DEF ApiAnswer
      <3>2. CASE UNCHANGED <<chip, detail>>
        BY <1>0, <3>1, <3>2 DEF probeVars, HonestInv, ChipHonest, TypeOK, GreenMeansAnswered,
                                ProcessingIsWork, Probing, Spans
      <3>3. ASSUME NEW s \in {"ready", "error"}, chip' = Set(chip, s),
                   detail' \in {detail, "url"}, s = "ready" => ~probeFailed
            PROVE  HonestInv'
        <4>1. chip' \in Chip /\ chip'.state = s /\ Spans' /\ ProcessingIsWork'
          BY <3>3, PaintHonest
        <4>2. TypeOK' /\ Probing' /\ GreenMeansAnswered'
          BY <1>0, <3>1, <3>3, <4>1 DEF probeVars, TypeOK, Probing, GreenMeansAnswered
        <4> QED
          BY <4>1, <4>2 DEF HonestInv, ChipHonest
      <3> QED
        BY <2>2, <3>2, <3>3 DEF ApiAnswer, Repaints
    <2>3. ASSUME NEW m \in Models, Select(m) PROVE HonestInv'
      BY <1>0, <2>3 DEF Select, probeVars, HonestInv, ChipHonest, TypeOK, GreenMeansAnswered,
                        ProcessingIsWork, Probing, Spans
    <2> QED
      BY <1>4, <2>1, <2>2, <2>3 DEF Requests
  <1>5. ASSUME NEW s \in Sessions, TurnOf(s) PROVE HonestInv'
    <2>1. CASE TurnBegins(s)
      <3>1. turn' \in [Sessions -> {"none", "prompt", "started", "stream"}]
        BY <1>0, <2>1 DEF TurnBegins, TurnStep, TypeOK
      <3>2. ProcessingIsWork'
        BY <1>0, <2>1 DEF TurnBegins, TurnStep, TypeOK, ProcessingIsWork
      <3> QED
        BY <1>0, <2>1, <3>1, <3>2
           DEF TurnBegins, TurnStep, probeVars, HonestInv, ChipHonest, TypeOK,
               GreenMeansAnswered, Probing, Spans
    <2>2. CASE LlmBegins(s)
      <3>1. turn'[s] \in {"started", "stream"}
              /\ turn' \in [Sessions -> {"none", "prompt", "started", "stream"}]
        BY <1>0, <2>2 DEF LlmBegins, TurnStep, TypeOK
      <3>2. chip' \in Chip /\ chip'.state = "processing" /\ Spans'
        BY <1>0, <2>2, BegunFacts DEF LlmBegins, Spans
      <3>3. TypeOK' /\ Probing'
        BY <1>0, <2>2, <3>1, <3>2 DEF LlmBegins, TurnStep, probeVars, TypeOK, Probing
      <3> QED
        BY <3>1, <3>2, <3>3 DEF HonestInv, ChipHonest, GreenMeansAnswered, ProcessingIsWork
    <2>3. ASSUME \E from \in {"prompt", "started", "stream"} : TurnStep(s, from, "none")
          PROVE  /\ turn' \in [Sessions -> {"none", "prompt", "started", "stream"}]
                 /\ \A t \in Sessions \ {s} : turn'[t] = turn[t]
                 /\ turn[s] \in {"prompt", "started", "stream"}
                 /\ UNCHANGED <<server, detail, selected, loop, probeVars, asked>>
      BY <1>0, <2>3 DEF TurnStep, TypeOK
    <2>4. CASE Replied(s)
      <3>1. chip' \in Chip /\ chip'.state = "ready" /\ chip'.prev = ""
        BY <1>0, <2>4, CompletedFacts DEF Replied, Spans
      <3>2. /\ TurnStep(s, "stream", "none")
            /\ answered' = TRUE /\ cut' = cut
        BY <2>4 DEF Replied
      <3>3. /\ turn' \in [Sessions -> {"none", "prompt", "started", "stream"}]
            /\ UNCHANGED <<server, detail, selected, loop, probeVars, asked>>
        BY <2>3, <3>2
      <3>4. TypeOK' /\ Probing'
        BY <1>0, <3>1, <3>2, <3>3 DEF probeVars, TypeOK, Probing
      <3> QED
        BY <3>1, <3>2, <3>4
           DEF HonestInv, ChipHonest, GreenMeansAnswered, ProcessingIsWork, Spans
    <2>5. ASSUME chip' = Set(chip, "error"), UNCHANGED <<answered, cut>>,
                 \E from \in {"prompt", "started", "stream"} : TurnStep(s, from, "none")
          PROVE  HonestInv'
      <3>1. chip' \in Chip /\ chip'.state = "error" /\ Spans' /\ ProcessingIsWork'
        BY <2>5, PaintHonest
      <3>2. TypeOK' /\ Probing'
        BY <1>0, <2>3, <2>5, <3>1 DEF probeVars, TypeOK, Probing
      <3> QED
        BY <3>1, <3>2 DEF HonestInv, ChipHonest, GreenMeansAnswered
    <2>6. ASSUME UNCHANGED <<chip, answered>>, cut' \in BOOLEAN,
                 chip.state = "processing" /\ turn[s] # "prompt" => cut',
                 cut => cut',
                 \E from \in {"prompt", "started", "stream"} : TurnStep(s, from, "none")
          PROVE  HonestInv'
      <3>1. TypeOK' /\ Probing' /\ Spans' /\ GreenMeansAnswered'
        BY <1>0, <2>3, <2>6 DEF probeVars, TypeOK, Probing, Spans, GreenMeansAnswered
      <3>2. ProcessingIsWork'
        BY <1>0, <2>3, <2>6 DEF ProcessingIsWork
      <3> QED
        BY <3>1, <3>2 DEF HonestInv, ChipHonest
    <2>7. CASE LlmFails(s)
      BY <2>5, <2>7 DEF LlmFails
    <2>8. CASE TurnCrashes(s)
      BY <1>0, <2>5, <2>6, <2>8 DEF TurnCrashes, TypeOK
    <2>9. CASE TurnCut(s)
      <3>1. cut' \in BOOLEAN
        BY <1>0, <2>9 DEF TurnCut, TypeOK
      <3> QED
        BY <2>6, <2>9, <3>1 DEF TurnCut
    <2> QED
      BY <1>5, <2>1, <2>2, <2>4, <2>7, <2>8, <2>9 DEF TurnOf
  <1> QED
    BY <1>1, <1>2, <1>3, <1>4, <1>5 DEF Next

\* After a failed probe the chip is green only once the server has replied
\* ("/health == 200 does NOT prove the model answers"), and a chip that says
\* "processing" has a turn in its LLM call unless one was cancelled there,
\* whatever the loop, the requests and the turns of all sessions paint.
THEOREM ChipIsHonest == Spec => []ChipHonest
  <1>1. HonestInv => ChipHonest
    BY DEF HonestInv
  <1> QED
    BY <1>1, HonestInit, HonestNext, PTL DEF Spec

-----------------------------------------------------------------------------
(***************************************************************************)
(* The settings of the LLM.                                                *)
(***************************************************************************)

Counts == [edits : Nat, starts : Nat, requests : Nat, edited : BOOLEAN]

LEMMA CountsFacts ==
    ASSUME NEW c \in Counts, NEW b \in BOOLEAN
    PROVE  /\ [c EXCEPT !.edits = @ + 1, !.edited = b] \in Counts
           /\ [c EXCEPT !.edits = @ + 1, !.edited = b].edited = b
           /\ [c EXCEPT !.starts = @ + 1, !.edited = b] \in Counts
           /\ [c EXCEPT !.starts = @ + 1, !.edited = b].edited = b
           /\ [c EXCEPT !.requests = @ + 1] \in Counts
           /\ [c EXCEPT !.requests = @ + 1].edited = c.edited
  <1>1. PICK i \in Nat, j \in Nat, k \in Nat, e \in BOOLEAN :
            c = [edits |-> i, starts |-> j, requests |-> k, edited |-> e]
    BY DEF Counts
  <1>2. i + 1 \in Nat /\ j + 1 \in Nat /\ k + 1 \in Nat
    OBVIOUS
  <1> QED
    BY <1>1, <1>2 DEF Counts

\* Where the parts of a reply, a program and the files stand.
RuntimeTypes ==
    /\ files \in [ConfigPlaces -> WrittenConfig \cup {Missing, Broken}]
    /\ agent.runs \in BOOLEAN /\ llama.runs \in BOOLEAN
    /\ agent.runs => agent.place \in ConfigPlaces /\ agent.number \in Numbers
    /\ counts \in Counts

\* Since the last edit that both programs have seen, each runs with what its
\* start would give now.
AsStarted ==
    ~counts.edited =>
        /\ llama.runs => /\ llama.number = Launched.number /\ llama.thinks = Launched.thinks
                         /\ llama.bridged = Launched.bridged
        /\ agent.runs => LET loaded == AgentLoads(agent.place)
                         IN  loaded.ok /\ agent.number = loaded.number /\ agent.thinks = loaded.thinks

\* A reply is of the agent that runs, and says why it has no content.
RepliesTold ==
    /\ ~agent.runs => reply = NoReply
    /\ NeverSilent

RuntimeInv == RuntimeTypes /\ AsStarted /\ RepliesTold

\* What the loader gives: an accepted number, the one of the file when nothing
\* overrides it.
LEMMA LoadFacts ==
    ASSUME NEW yaml \in WrittenConfig \cup {Missing, Broken}, NEW o, Load(yaml, o).ok
    PROVE  /\ Load(yaml, o).number \in Numbers
           /\ yaml # Broken
           /\ o = NoOverride /\ yaml # Missing => Load(yaml, o).number = yaml.number
  BY DEF Load, Refused, WrittenConfig, Missing, Broken, Shipped, NoOverride

LEMMA FileForFacts ==
    ASSUME RuntimeTypes, NEW p \in ConfigPlaces
    PROVE  /\ FileFor(p) \in WrittenConfig \cup {Missing, Broken}
           /\ files[p] # Missing => FileFor(p) = files[p]
           /\ p = "root" \/ files["other"] = Missing => FileFor(p) = files["root"]
  BY DEF RuntimeTypes, FileFor, ConfigPlaces

\* Two programs with one configuration and the same overrides load the same.
LEMMA OneProfileHolds == RuntimeInv => OneProfile
  <1> SUFFICES ASSUME RuntimeInv PROVE OneProfile
    OBVIOUS
  <1>1. agent.runs => agent.number \in Numbers
    BY DEF RuntimeInv, RuntimeTypes
  <1>2. ASSUME BothRun, ~counts.edited, llama.bridged, window["server"] = window["agent"],
               agent.place = "root" \/ files["other"] = Missing
        PROVE  llama.number = agent.number /\ llama.thinks = agent.thinks
    <2>1. FileFor(agent.place) = files["root"] /\ FileFor("root") = files["root"]
      BY <1>2, FileForFacts DEF RuntimeInv, RuntimeTypes, BothRun, ConfigPlaces
    <2>2. Load(FileFor("root"), window["server"]) = AgentLoads(agent.place)
      BY <1>2, <2>1 DEF AgentLoads
    <2>3. AgentLoads(agent.place).ok
      BY <1>2 DEF RuntimeInv, AsStarted, BothRun
    <2> QED
      BY <1>2, <2>2, <2>3 DEF RuntimeInv, AsStarted, BothRun, Launched
  <1>3. ASSUME agent.runs, ~counts.edited, window["agent"] = NoOverride,
               files[agent.place] # Missing
        PROVE  files[agent.place] # Broken /\ agent.number = files[agent.place].number
    <2>1. /\ FileFor(agent.place) = files[agent.place]
          /\ files[agent.place] \in WrittenConfig \cup {Missing, Broken}
      BY <1>3, FileForFacts DEF RuntimeInv, RuntimeTypes
    <2>2. LET loaded == AgentLoads(agent.place) IN loaded.ok /\ agent.number = loaded.number
      BY <1>3 DEF RuntimeInv, AsStarted
    <2> QED
      BY <1>3, <2>1, <2>2, LoadFacts DEF AgentLoads
  <1> QED
    BY <1>1, <1>2, <1>3 DEF OneProfile

LEMMA RuntimeStart == RuntimeInit => RuntimeInv
  <1> SUFFICES ASSUME RuntimeInit PROVE RuntimeInv
    OBVIOUS
  <1>1. Shipped \in WrittenConfig /\ NotUp.runs = FALSE /\ NoReply.outcome = "none"
    BY LlmRuntimeAssumption DEF Shipped, WrittenConfig, NotUp, NoReply
  <1>2. RuntimeTypes
    BY <1>1 DEF RuntimeInit, RuntimeTypes, Counts
  <1> QED
    BY <1>1, <1>2 DEF RuntimeInit, RuntimeInv, AsStarted, RepliesTold, NeverSilent

LEMMA RuntimeStep == RuntimeInv /\ [RuntimeNext]_runtimeVars => RuntimeInv'
  <1> SUFFICES ASSUME RuntimeInv, [RuntimeNext]_runtimeVars PROVE RuntimeInv'
    OBVIOUS
  <1>1. CASE UNCHANGED runtimeVars
    BY <1>1 DEF runtimeVars, RuntimeInv, RuntimeTypes, AsStarted, RepliesTold, NeverSilent, Launched,
                AgentLoads, FileFor
  <1>2. CASE EditFile \/ SetWindow
    <2>1. files' \in [ConfigPlaces -> WrittenConfig \cup {Missing, Broken}]
      BY <1>2 DEF EditFile, SetWindow, RuntimeInv, RuntimeTypes
    <2>2. /\ counts' \in Counts
          /\ counts'.edited /\ UNCHANGED <<llama, agent, reply>>
      <3>1. /\ counts' = [counts EXCEPT !.edits = @ + 1, !.edited = TRUE]
            /\ UNCHANGED <<llama, agent, reply>>
        BY <1>2 DEF EditFile, SetWindow
      <3> QED
        BY <3>1, CountsFacts DEF RuntimeInv, RuntimeTypes
    <2> QED
      BY <2>1, <2>2 DEF RuntimeInv, RuntimeTypes, AsStarted, RepliesTold, NeverSilent
  <1>3. CASE StartServer
    <2>1. UNCHANGED <<files, window, agent, reply>>
      BY <1>3 DEF StartServer
    <2>2. Launched' = Launched /\ \A p : AgentLoads(p)' = AgentLoads(p)
      BY <2>1 DEF Launched, AgentLoads, FileFor
    <2>3. RuntimeTypes'
      <3>1. counts' \in Counts
        <4>1. counts' = [counts EXCEPT !.starts = @ + 1,
                                       !.edited = IF agent.runs THEN counts.edited ELSE FALSE]
          BY <1>3 DEF StartServer
        <4> QED
          BY <4>1, CountsFacts DEF RuntimeInv, RuntimeTypes, Counts
      <3> QED
        BY <1>3, <2>1, <3>1 DEF StartServer, NotUp, RuntimeInv, RuntimeTypes
    <2>4. AsStarted'
      <3>1. agent.runs /\ ~counts'.edited => ~counts.edited
        BY <1>3 DEF StartServer
      <3>2. llama'.runs => /\ llama'.number = Launched.number /\ llama'.thinks = Launched.thinks
                           /\ llama'.bridged = Launched.bridged
        BY <1>3 DEF StartServer, NotUp
      <3> QED
        BY <2>1, <2>2, <3>1, <3>2 DEF RuntimeInv, AsStarted
    <2> QED
      BY <2>1, <2>3, <2>4 DEF RuntimeInv, RepliesTold, NeverSilent
  <1>4. CASE \E place \in ConfigPlaces : StartAgent(place)
    <2>1. PICK place \in ConfigPlaces : StartAgent(place)
      BY <1>4
    <2>2. UNCHANGED <<files, window, llama, reply>> /\ ~agent.runs
      BY <2>1 DEF StartAgent
    <2>3. Launched' = Launched /\ \A p : AgentLoads(p)' = AgentLoads(p)
      BY <2>2 DEF Launched, AgentLoads, FileFor
    <2>4. agent'.runs => /\ agent'.place = place /\ AgentLoads(place).ok
                         /\ agent'.number = AgentLoads(place).number
                         /\ agent'.thinks = AgentLoads(place).thinks
      BY <2>1 DEF StartAgent, NotUp
    <2>5. agent'.runs \in BOOLEAN
      BY <2>1 DEF StartAgent, NotUp
    <2>6. AgentLoads(place).ok => AgentLoads(place).number \in Numbers
      BY FileForFacts, LoadFacts DEF RuntimeInv, AgentLoads
    <2>7. RuntimeTypes'
      <3>1. counts' \in Counts
        <4>1. counts' = [counts EXCEPT !.starts = @ + 1,
                                       !.edited = IF llama.runs THEN counts.edited ELSE FALSE]
          BY <2>1 DEF StartAgent
        <4> QED
          BY <4>1, CountsFacts DEF RuntimeInv, RuntimeTypes, Counts
      <3> QED
        BY <2>2, <2>4, <2>5, <2>6, <3>1 DEF RuntimeInv, RuntimeTypes
    <2>8. AsStarted'
      <3>1. llama.runs /\ ~counts'.edited => ~counts.edited
        BY <2>1 DEF StartAgent
      <3> QED
        BY <2>2, <2>3, <2>4, <3>1 DEF RuntimeInv, AsStarted
    <2>9. RepliesTold'
      <3>1. reply' = NoReply /\ NoReply.outcome = "none"
        BY <2>2 DEF RuntimeInv, RepliesTold, NoReply
      <3> QED
        BY <3>1 DEF RepliesTold, NeverSilent
    <2> QED
      BY <2>7, <2>8, <2>9 DEF RuntimeInv
  <1>5. CASE Stop
    <2>1. /\ UNCHANGED <<files, window, counts>> /\ reply' = NoReply
          /\ llama' \in {llama, NotUp} /\ agent' \in {agent, NotUp}
      BY <1>5 DEF Stop
    <2>2. Launched' = Launched /\ \A p : AgentLoads(p)' = AgentLoads(p)
      BY <2>1 DEF Launched, AgentLoads, FileFor
    <2>3. NotUp.runs = FALSE /\ NoReply.outcome = "none"
      BY DEF NotUp, NoReply
    <2> QED
      BY <2>1, <2>2, <2>3 DEF RuntimeInv, RuntimeTypes, AsStarted, RepliesTold, NeverSilent
  <1>6. CASE Request
    <2>1. UNCHANGED <<files, window, llama, agent>> /\ agent.runs
      BY <1>6 DEF Request
    <2>2. /\ counts' \in Counts
          /\ counts'.edited = counts.edited
      BY <1>6, CountsFacts DEF Request, RuntimeInv, RuntimeTypes
    <2>3. RuntimeTypes' /\ AsStarted'
      BY <2>1, <2>2 DEF RuntimeInv, RuntimeTypes, AsStarted, Launched, AgentLoads, FileFor
    <2>4. \/ reply'.outcome = "unavailable"
          \/ \E n \in 0 .. MaxLines, ending \in {"closed", "late", "broken"} :
             \E lines \in [1 .. n -> Kinds] :
                reply' = [outcome |-> Outcome(lines, ending), lines |-> lines]
      BY <1>6 DEF Request
    <2>5. ASSUME NEW n \in 0 .. MaxLines, NEW ending, NEW lines \in [1 .. n -> Kinds],
                 reply' = [outcome |-> Outcome(lines, ending), lines |-> lines]
          PROVE  NeverSilent'
      <3>1. Outcome(lines, ending) = "answered" => Has(lines, "content")
        BY DEF Outcome
      <3>2. Outcome(lines, ending) = "only thinking" => Has(lines, "thinking")
        BY DEF Outcome
      <3>3. Has(lines, "thinking") => "thinking" \in Kinds
        BY DEF Has
      <3>4. "thinking" \in Kinds => agent.thinks
        BY DEF Kinds, MayThink
      <3> QED
        BY <2>1, <2>5, <3>1, <3>2, <3>3, <3>4 DEF NeverSilent
    <2>6. NeverSilent'
      BY <2>4, <2>5 DEF NeverSilent
    <2> QED
      BY <2>1, <2>3, <2>6 DEF RuntimeInv, RepliesTold
  <1> QED
    BY <1>1, <1>2, <1>3, <1>4, <1>5, <1>6 DEF RuntimeNext

\* Programs that were started on the same files and overrides have the same
\* settings, an agent keeps to the loader's range, no reply is empty without an
\* error, and none is lost to the thinking channel the agent switched off.
THEOREM SettingsAreHeld == RuntimeSpec => []SettingsHold
  <1>1. RuntimeInv => SettingsHold
    BY OneProfileHolds DEF RuntimeInv, RepliesTold, SettingsHold
  <1> QED
    BY <1>1, RuntimeStart, RuntimeStep, PTL DEF RuntimeSpec

-----------------------------------------------------------------------------
(***************************************************************************)
(* The downloads.                                                          *)
(***************************************************************************)

Sources == [repo : Repos \cup {"none"}, commit : Nat]
DiskFiles == [repo : Repos \cup {"none"}, commit : Nat, full : BOOLEAN]
Tallies == [runs : Nat, damage : Nat, pushes : Nat, interrupted : BOOLEAN,
            done : {"none", "ok", "failed"}]
FetchPlaces == {"entry", "fetch", "mirror", "over"}
Fetchings ==
    [at : FetchPlaces, left : SUBSET Components, only : SUBSET Components, verifyOnly : BOOLEAN,
     files : Seq(Places), ok : BOOLEAN, last : Sources, records : [Components -> Sources]]

DownloadTypes ==
    /\ disk \in [Places -> DiskFiles] /\ head \in [Repos -> Nat]
    /\ records \in [Components -> Sources]
    /\ fetching = NotRunning \/ fetching \in Fetchings
    /\ fetching.at \in {"fetch", "mirror"} => fetching.left # {}
    /\ tally \in Tallies

\* A component with one source has its files from there, the pinned one at its commit.
OwnFiles ==
    /\ \A p \in {"config", "weights"} : disk[p].full =>
            disk[p].repo = "nvidia" /\ disk[p].commit = PinnedCommit
    /\ \A p \in {"probe", "payload", "extra"} : disk[p].full => disk[p].repo = "intfloat"
    /\ disk["onnx"].full => disk["onnx"].repo # "none"

\* Its record says so.
OwnRecords(r) ==
    /\ r["asr"] # NoRecord => r["asr"].repo = "nvidia" /\ r["asr"].commit \in {0, PinnedCommit}
    /\ r["embedding"] # NoRecord => r["embedding"].repo = "intfloat"

\* The record of the component with two is true of the file.
VadRecord(r) == disk["onnx"].full /\ r["vad"] # NoRecord => r["vad"].repo = disk["onnx"].repo

Fetching(c) == fetching.at \in {"fetch", "mirror"} /\ Current = c

\* What a component that is fetched has come to.
InFetch ==
    /\ Fetching("asr") =>
        /\ fetching.at = "fetch"
        /\ fetching.files \in {<<"config", "weights">>, <<"weights">>, <<>>}
        /\ fetching.ok /\ fetching.files # <<"config", "weights">> => fetching.last.repo = "nvidia"
    /\ Fetching("embedding") =>
        /\ fetching.at = "fetch"
        /\ fetching.files \in {<<"probe", "payload", "extra">>, <<"payload", "extra">>, <<"extra">>, <<>>}
        /\ fetching.ok /\ fetching.files # <<"probe", "payload", "extra">> =>
                fetching.last.repo = "intfloat"
    /\ Fetching("vad") =>
        /\ fetching.at = "mirror" \/ fetching.files \in {<<"onnx">>, <<>>}
        /\ fetching.at = "mirror" \/ fetching.files = <<"onnx">> => fetching.ok
        /\ fetching.at = "mirror" \/ fetching.files = <<"onnx">> \/ ~fetching.ok => ~disk["onnx"].full
        /\ disk["onnx"].full => fetching.last.repo = disk["onnx"].repo

\* The records that count: those of the file, or of the run that will write them.
RunRecords ==
    /\ OwnRecords(records)
    /\ fetching = NotRunning \/ fetching.at = "over" => VadRecord(records)
    /\ fetching # NotRunning /\ fetching.at # "over" =>
        /\ OwnRecords(fetching.records)
        /\ ~Fetching("vad") => VadRecord(fetching.records)
        /\ \A c \in Components : fetching.records[c] = NoRecord => records[c] = NoRecord

DownloadInv == DownloadTypes /\ OwnFiles /\ InFetch /\ (~tally.interrupted => RunRecords)

-----------------------------------------------------------------------------
LEMMA Tables ==
    /\ FilesOf["asr"] = <<"config", "weights">> /\ FilesOf["vad"] = <<"onnx">>
    /\ FilesOf["embedding"] = <<"probe", "payload", "extra">>
    /\ Elements(FilesOf["asr"]) = {"config", "weights"} /\ Elements(FilesOf["vad"]) = {"onnx"}
    /\ Elements(FilesOf["embedding"]) = {"probe", "payload", "extra"}
    /\ Own["asr"] = "nvidia" /\ Own["vad"] = "tphakala" /\ Own["embedding"] = "intfloat"
  <1>1. /\ FilesOf["asr"] = <<"config", "weights">> /\ FilesOf["vad"] = <<"onnx">>
        /\ FilesOf["embedding"] = <<"probe", "payload", "extra">>
    BY DEF FilesOf
  <1>2. Elements(<<"config", "weights">>) = {"config", "weights"}
    BY DEF Elements
  <1>3. Elements(<<"onnx">>) = {"onnx"}
    BY DEF Elements
  <1>4. Elements(<<"probe", "payload", "extra">>) = {"probe", "payload", "extra"}
    BY DEF Elements
  <1>5. Own["asr"] = "nvidia" /\ Own["vad"] = "tphakala" /\ Own["embedding"] = "intfloat"
    BY DEF Own
  <1> QED
    BY <1>1, <1>2, <1>3, <1>4, <1>5

\* The component in turn, by what is left.
LEMMA CurrentIs ==
    ASSUME fetching.left \in SUBSET Components, fetching.left # {}
    PROVE  /\ Current \in fetching.left /\ Current \in Components
           /\ Current = "vad" => fetching.left = {"vad"}
  <1>1. \E c \in fetching.left :
            c = "asr" \/ (c = "embedding" /\ "asr" \notin fetching.left) \/ fetching.left = {"vad"}
    BY DEF Components
  <1>2. /\ Current \in fetching.left
        /\ \/ Current = "asr" \/ (Current = "embedding" /\ "asr" \notin fetching.left)
           \/ fetching.left = {"vad"}
    BY <1>1 DEF Current
  <1> QED
    BY <1>2

\* What the manifest says of a file is the record of its component.
LEMMA AttributedTo ==
    ASSUME NEW c \in Components, NEW p \in Elements(FilesOf[c])
    PROVE  Attributed(p) = records[c]
  <1> DEFINE Of(d) == p \in Elements(FilesOf[d]) \cup (IF d = "vad" THEN {Nested} ELSE {})
  <1>1. Of(c)
    OBVIOUS
  <1>2. \A d \in Components : Of(d) => d = c
    BY Tables DEF Components, Nested
  <1>3. (CHOOSE d \in Components : Of(d)) = c
    BY <1>1, <1>2
  <1> QED
    BY <1>3 DEF Attributed

LEMMA SourcesHold == DownloadInv => SourcesAreTrue
  <1> SUFFICES ASSUME DownloadInv, ~tally.interrupted, fetching = NotRunning,
                      NEW c \in Components, NEW p \in Elements(FilesOf[c]),
                      disk[p].full, Attributed(p) # NoRecord
               PROVE  /\ Attributed(p).repo = disk[p].repo
                      /\ c \in Pinned => Attributed(p).commit \in {0, disk[p].commit}
    BY DEF SourcesAreTrue
  <1>1. Attributed(p) = records[c]
    BY AttributedTo
  <1>2. OwnFiles /\ OwnRecords(records) /\ VadRecord(records)
    BY DEF DownloadInv, RunRecords
  <1>3. CASE c = "asr"
    BY <1>1, <1>2, <1>3, Tables DEF OwnFiles, OwnRecords
  <1>4. CASE c = "vad"
    BY <1>1, <1>2, <1>4, Tables DEF VadRecord, Pinned
  <1>5. CASE c = "embedding"
    BY <1>1, <1>2, <1>5, Tables DEF OwnFiles, OwnRecords, Pinned
  <1> QED
    BY <1>3, <1>4, <1>5 DEF Components

LEMMA DownloadStart == ModelInit => DownloadInv
  <1> SUFFICES ASSUME ModelInit PROVE DownloadInv
    OBVIOUS
  <1>1. NoFile \in DiskFiles /\ NoRecord \in Sources /\ ~NoFile.full
    BY DEF NoFile, NoRecord, DiskFiles, Sources
  <1>2. NotRunning.at = "none"
    BY DEF NotRunning
  <1>3. tally.interrupted = FALSE
    BY DEF ModelInit
  <1>4. DownloadTypes
    <2>1. tally \in Tallies
      BY DEF ModelInit, Tallies
    <2> QED
      BY <1>1, <1>2, <2>1 DEF ModelInit, DownloadTypes
  <1>5. \A p \in Places : ~disk[p].full
    BY <1>1 DEF ModelInit
  <1>6. OwnFiles
    BY <1>5 DEF OwnFiles, Places
  <1>7. InFetch
    BY <1>2 DEF ModelInit, InFetch, Fetching
  <1>8. RunRecords
    BY <1>2 DEF ModelInit, RunRecords, OwnRecords, VadRecord, Components
  <1> QED
    BY <1>4, <1>6, <1>7, <1>8 DEF DownloadInv

-----------------------------------------------------------------------------
\* The downloader that goes on, field by field.
LEMMA FetchingFields ==
    ASSUME NEW f \in Fetchings
    PROVE  /\ f.at \in FetchPlaces /\ f.left \in SUBSET Components /\ f.only \in SUBSET Components
           /\ f.verifyOnly \in BOOLEAN /\ f.files \in Seq(Places) /\ f.ok \in BOOLEAN
           /\ f.last \in Sources /\ f.records \in [Components -> Sources]
  BY DEF Fetchings

\* g is f at another place, with what else may have changed.
Becomes(g, f, at, left, pending, ok, last, entries) ==
    /\ g \in Fetchings /\ g.at = at /\ g.left = left /\ g.files = pending /\ g.ok = ok
    /\ g.last = last /\ g.records = entries /\ g.only = f.only /\ g.verifyOnly = f.verifyOnly

\* The updates the actions make.
LEMMA Updates ==
    ASSUME NEW f \in Fetchings, NEW at \in FetchPlaces, NEW left \in SUBSET Components,
           NEW pending \in Seq(Places), NEW ok \in BOOLEAN, NEW last \in Sources,
           NEW entries \in [Components -> Sources]
    PROVE  /\ Becomes([f EXCEPT !.at = at], f, at, f.left, f.files, f.ok, f.last, f.records)
           /\ Becomes([f EXCEPT !.left = left], f, f.at, left, f.files, f.ok, f.last, f.records)
           /\ Becomes([f EXCEPT !.at = at, !.left = left], f, at, left, f.files, f.ok, f.last, f.records)
           /\ Becomes([f EXCEPT !.files = pending, !.ok = ok], f, f.at, f.left, pending, ok, f.last, f.records)
           /\ Becomes([f EXCEPT !.files = pending, !.last = last], f, f.at, f.left, pending, f.ok, last, f.records)
           /\ Becomes([f EXCEPT !.at = at, !.files = pending, !.ok = ok],
                      f, at, f.left, pending, ok, f.last, f.records)
           /\ Becomes([f EXCEPT !.at = at, !.files = pending, !.last = last],
                      f, at, f.left, pending, f.ok, last, f.records)
           /\ Becomes([f EXCEPT !.at = at, !.left = left, !.last = last, !.records = entries],
                      f, at, left, f.files, f.ok, last, entries)
  <1> DEFINE Of(a, l, o, v, fs, k, z, r) ==
                [at |-> a, left |-> l, only |-> o, verifyOnly |-> v,
                 files |-> fs, ok |-> k, last |-> z, records |-> r]
  <1>1. PICK a \in FetchPlaces, l \in SUBSET Components, o \in SUBSET Components, v \in BOOLEAN,
             fs \in Seq(Places), k \in BOOLEAN, z \in Sources, r \in [Components -> Sources] :
            f = Of(a, l, o, v, fs, k, z, r)
    BY DEF Fetchings
  <1> DEFINE R(a1, l1, fs1, k1, z1, r1) == Of(a1, l1, o, v, fs1, k1, z1, r1)
  <1>2. [f EXCEPT !.at = at] =
            R(at, l, fs, k, z, r)
    BY <1>1
  <1>3. [f EXCEPT !.left = left] =
            R(a, left, fs, k, z, r)
    BY <1>1
  <1>4. [f EXCEPT !.at = at, !.left = left] =
            R(at, left, fs, k, z, r)
    <2>1. [f EXCEPT !.at = at, !.left = left] =
            [[f EXCEPT !.at = at] EXCEPT !.left = left]
      OBVIOUS
    <2>2. [f EXCEPT !.at = at] = R(at, l, fs, k, z, r)
      BY <1>1
    <2>3. [R(at, l, fs, k, z, r) EXCEPT !.left = left] = R(at, left, fs, k, z, r)
      OBVIOUS
    <2> HIDE DEF R
    <2> QED
      BY <2>1, <2>2, <2>3
  <1>5. [f EXCEPT !.files = pending, !.ok = ok] =
            R(a, l, pending, ok, z, r)
    <2>1. [f EXCEPT !.files = pending, !.ok = ok] =
            [[f EXCEPT !.files = pending] EXCEPT !.ok = ok]
      OBVIOUS
    <2>2. [f EXCEPT !.files = pending] = R(a, l, pending, k, z, r)
      BY <1>1
    <2>3. [R(a, l, pending, k, z, r) EXCEPT !.ok = ok] = R(a, l, pending, ok, z, r)
      OBVIOUS
    <2> HIDE DEF R
    <2> QED
      BY <2>1, <2>2, <2>3
  <1>6. [f EXCEPT !.files = pending, !.last = last] =
            R(a, l, pending, k, last, r)
    <2>1. [f EXCEPT !.files = pending, !.last = last] =
            [[f EXCEPT !.files = pending] EXCEPT !.last = last]
      OBVIOUS
    <2>2. [f EXCEPT !.files = pending] = R(a, l, pending, k, z, r)
      BY <1>1
    <2>3. [R(a, l, pending, k, z, r) EXCEPT !.last = last] = R(a, l, pending, k, last, r)
      OBVIOUS
    <2> HIDE DEF R
    <2> QED
      BY <2>1, <2>2, <2>3
  <1>7. [f EXCEPT !.at = at, !.files = pending, !.ok = ok] =
            R(at, l, pending, ok, z, r)
    <2>1. [f EXCEPT !.at = at, !.files = pending, !.ok = ok] =
            [[[f EXCEPT !.at = at] EXCEPT !.files = pending] EXCEPT !.ok = ok]
      OBVIOUS
    <2>2. [f EXCEPT !.at = at] = R(at, l, fs, k, z, r)
      BY <1>1
    <2>3. [R(at, l, fs, k, z, r) EXCEPT !.files = pending] = R(at, l, pending, k, z, r)
      OBVIOUS
    <2>4. [R(at, l, pending, k, z, r) EXCEPT !.ok = ok] = R(at, l, pending, ok, z, r)
      OBVIOUS
    <2> HIDE DEF R
    <2> QED
      BY <2>1, <2>2, <2>3, <2>4
  <1>8. [f EXCEPT !.at = at, !.files = pending, !.last = last] =
            R(at, l, pending, k, last, r)
    <2>1. [f EXCEPT !.at = at, !.files = pending, !.last = last] =
            [[[f EXCEPT !.at = at] EXCEPT !.files = pending] EXCEPT !.last = last]
      OBVIOUS
    <2>2. [f EXCEPT !.at = at] = R(at, l, fs, k, z, r)
      BY <1>1
    <2>3. [R(at, l, fs, k, z, r) EXCEPT !.files = pending] = R(at, l, pending, k, z, r)
      OBVIOUS
    <2>4. [R(at, l, pending, k, z, r) EXCEPT !.last = last] = R(at, l, pending, k, last, r)
      OBVIOUS
    <2> HIDE DEF R
    <2> QED
      BY <2>1, <2>2, <2>3, <2>4
  <1>9. [f EXCEPT !.at = at, !.left = left, !.last = last, !.records = entries] =
            R(at, left, fs, k, last, entries)
    <2>1. [f EXCEPT !.at = at, !.left = left, !.last = last, !.records = entries] =
            [[[[f EXCEPT !.at = at] EXCEPT !.left = left] EXCEPT !.last = last] EXCEPT !.records = entries]
      OBVIOUS
    <2>2. [f EXCEPT !.at = at] = R(at, l, fs, k, z, r)
      BY <1>1
    <2>3. [R(at, l, fs, k, z, r) EXCEPT !.left = left] = R(at, left, fs, k, z, r)
      OBVIOUS
    <2>4. [R(at, left, fs, k, z, r) EXCEPT !.last = last] = R(at, left, fs, k, last, r)
      OBVIOUS
    <2>5. [R(at, left, fs, k, last, r) EXCEPT !.records = entries] = R(at, left, fs, k, last, entries)
      OBVIOUS
    <2> HIDE DEF R
    <2> QED
      BY <2>1, <2>2, <2>3, <2>4, <2>5
  <1> USE <1>1 DEF Becomes, Fetchings
  <1>10. Becomes([f EXCEPT !.at = at], f, at, f.left, f.files, f.ok, f.last, f.records)
    BY <1>2
  <1>11. Becomes([f EXCEPT !.left = left], f, f.at, left, f.files, f.ok, f.last, f.records)
    BY <1>3
  <1>12. Becomes([f EXCEPT !.at = at, !.left = left], f, at, left, f.files, f.ok, f.last, f.records)
    BY <1>4
  <1>13. Becomes([f EXCEPT !.files = pending, !.ok = ok], f, f.at, f.left, pending, ok, f.last, f.records)
    BY <1>5
  <1>14. Becomes([f EXCEPT !.files = pending, !.last = last], f, f.at, f.left, pending, f.ok, last, f.records)
    BY <1>6
  <1>15. Becomes([f EXCEPT !.at = at, !.files = pending, !.ok = ok],
                      f, at, f.left, pending, ok, f.last, f.records)
    BY <1>7
  <1>16. Becomes([f EXCEPT !.at = at, !.files = pending, !.last = last],
                      f, at, f.left, pending, f.ok, last, f.records)
    BY <1>8
  <1>17. Becomes([f EXCEPT !.at = at, !.left = left, !.last = last, !.records = entries],
                      f, at, left, f.files, f.ok, last, entries)
    BY <1>9
  <1> QED
    BY <1>10, <1>11, <1>12, <1>13, <1>14, <1>15, <1>16, <1>17

\* The counts the actions change.
LEMMA TallyUpdates ==
    ASSUME NEW t \in Tallies, NEW n \in Nat, NEW s \in {"none", "ok", "failed"}
    PROVE  /\ [t EXCEPT !.runs = n, !.done = s] \in Tallies
           /\ [t EXCEPT !.damage = n, !.done = s] \in Tallies
           /\ [t EXCEPT !.pushes = n] \in Tallies /\ [t EXCEPT !.done = s] \in Tallies
           /\ [t EXCEPT !.interrupted = TRUE] \in Tallies
           /\ [t EXCEPT !.runs = n, !.done = s].interrupted = t.interrupted
           /\ [t EXCEPT !.damage = n, !.done = s].interrupted = t.interrupted
           /\ [t EXCEPT !.pushes = n].interrupted = t.interrupted
           /\ [t EXCEPT !.done = s].interrupted = t.interrupted
           /\ [t EXCEPT !.interrupted = TRUE].interrupted = TRUE
  <1>1. [t EXCEPT !.done = s] \in Tallies /\ [t EXCEPT !.done = s].interrupted = t.interrupted
    BY DEF Tallies
  <1>2. [t EXCEPT !.pushes = n] \in Tallies /\ [t EXCEPT !.pushes = n].interrupted = t.interrupted
    BY DEF Tallies
  <1>3. [t EXCEPT !.interrupted = TRUE] \in Tallies /\ [t EXCEPT !.interrupted = TRUE].interrupted = TRUE
    BY DEF Tallies
  <1>4. /\ [t EXCEPT !.runs = n, !.done = s] \in Tallies
        /\ [t EXCEPT !.runs = n, !.done = s].interrupted = t.interrupted
    <2> DEFINE u == [t EXCEPT !.runs = n]
    <2>1. u \in Tallies /\ u.interrupted = t.interrupted
      BY DEF Tallies
    <2>2. [t EXCEPT !.runs = n, !.done = s] = [u EXCEPT !.done = s]
      OBVIOUS
    <2> HIDE DEF u
    <2>3. [u EXCEPT !.done = s] \in Tallies /\ [u EXCEPT !.done = s].interrupted = u.interrupted
      BY <2>1 DEF Tallies
    <2> QED
      BY <2>1, <2>2, <2>3
  <1>5. /\ [t EXCEPT !.damage = n, !.done = s] \in Tallies
        /\ [t EXCEPT !.damage = n, !.done = s].interrupted = t.interrupted
    <2> DEFINE u == [t EXCEPT !.damage = n]
    <2>1. u \in Tallies /\ u.interrupted = t.interrupted
      BY DEF Tallies
    <2>2. [t EXCEPT !.damage = n, !.done = s] = [u EXCEPT !.done = s]
      OBVIOUS
    <2> HIDE DEF u
    <2>3. [u EXCEPT !.done = s] \in Tallies /\ [u EXCEPT !.done = s].interrupted = u.interrupted
      BY <2>1 DEF Tallies
    <2> QED
      BY <2>1, <2>2, <2>3
  <1> QED
    BY <1>1, <1>2, <1>3, <1>4, <1>5

\* Only the place tells the downloader that runs from the one that does not.
LEMMA Runs ==
    ASSUME DownloadTypes, fetching.at \in FetchPlaces
    PROVE  fetching \in Fetchings /\ fetching # NotRunning
  BY DEF DownloadTypes, NotRunning, FetchPlaces

LEMMA CurrentStays == fetching'.left = fetching.left => Current' = Current
  BY DEF Current

\* Of the disk the invariant asks only what is full.
LEMMA DiskLoses ==
    ASSUME DownloadInv, disk' \in [Places -> DiskFiles],
           (\A p \in Places : disk'[p].full => disk'[p] = disk[p]),
           UNCHANGED <<head, records, fetching>>, tally' \in Tallies,
           tally'.interrupted = tally.interrupted
    PROVE  DownloadInv'
  <1>1. DownloadTypes'
    BY DEF DownloadInv, DownloadTypes
  <1>2. OwnFiles'
    BY DEF DownloadInv, OwnFiles, Places
  <1>3. "onnx" \in Places
    BY DEF Places
  <1>4. Current' = Current
    BY CurrentStays
  <1>5. InFetch'
    BY <1>3, <1>4 DEF DownloadInv, InFetch, Fetching
  <1>6. ~tally'.interrupted => RunRecords'
    BY <1>3, <1>4 DEF DownloadInv, RunRecords, OwnRecords, VadRecord, Fetching
  <1> QED
    BY <1>1, <1>2, <1>5, <1>6 DEF DownloadInv

LEMMA DamageStep == DownloadInv /\ Damage => DownloadInv'
  <1> SUFFICES ASSUME DownloadInv, Damage PROVE DownloadInv'
    OBVIOUS
  <1>0. PICK p \in Places : \E f \in {NoFile, [disk[p] EXCEPT !.full = FALSE]} :
            disk' = [disk EXCEPT ![p] = f]
    BY DEF Damage
  <1>1. PICK f \in {NoFile, [disk[p] EXCEPT !.full = FALSE]} : disk' = [disk EXCEPT ![p] = f]
    BY <1>0
  <1>2. disk \in [Places -> DiskFiles] /\ tally \in Tallies
    BY DEF DownloadInv, DownloadTypes
  <1>3. f \in DiskFiles /\ ~f.full
    <2>1. NoFile \in DiskFiles /\ ~NoFile.full
      BY DEF DiskFiles, NoFile
    <2>2. disk[p] \in DiskFiles
      BY <1>2
    <2>3. [disk[p] EXCEPT !.full = FALSE] \in DiskFiles /\ ~[disk[p] EXCEPT !.full = FALSE].full
      BY <2>2 DEF DiskFiles
    <2> QED
      BY <2>1, <2>3, <1>1
  <1>4. /\ disk' \in [Places -> DiskFiles]
        /\ \A q \in Places : disk'[q].full => disk'[q] = disk[q]
    BY <1>1, <1>2, <1>3
  <1>5. tally.damage + 1 \in Nat
    BY <1>2 DEF Tallies
  <1>6. tally' \in Tallies /\ tally'.interrupted = tally.interrupted
    BY <1>2, <1>5, TallyUpdates DEF Damage
  <1> QED
    BY <1>4, <1>6, DiskLoses DEF Damage

LEMMA PushStep == ASSUME DownloadInv, NEW r \in Repos, Push(r) PROVE DownloadInv'
  <1>1. tally \in Tallies /\ head \in [Repos -> Nat]
    BY DEF DownloadInv, DownloadTypes
  <1>2. tally.pushes + 1 \in Nat
    BY <1>1 DEF Tallies
  <1>3. tally' \in Tallies /\ tally'.interrupted = tally.interrupted
    BY <1>1, <1>2, TallyUpdates DEF Push
  <1>4. head' \in [Repos -> Nat]
    BY <1>1 DEF Push
  <1>5. DownloadTypes'
    BY <1>3, <1>4 DEF DownloadInv, DownloadTypes, Push
  <1>6. Current' = Current
    BY CurrentStays DEF Push
  <1>7. OwnFiles' /\ InFetch' /\ (RunRecords => RunRecords')
    BY <1>6 DEF DownloadInv, OwnFiles, InFetch, RunRecords, VadRecord, OwnRecords, Fetching, Push
  <1> QED
    BY <1>3, <1>5, <1>7 DEF DownloadInv

LEMMA StartStep ==
    ASSUME DownloadInv, NEW only \in SUBSET Components, NEW verifyOnly \in BOOLEAN,
           StartDownload(only, verifyOnly)
    PROVE  DownloadInv'
  <1>1. tally \in Tallies /\ records \in [Components -> Sources] /\ NoRecord \in Sources
    BY DEF DownloadInv, DownloadTypes, NoRecord, Sources
  <1>2. tally.runs + 1 \in Nat
    BY <1>1 DEF Tallies
  <1>3. tally' \in Tallies /\ tally'.interrupted = tally.interrupted
    BY <1>1, <1>2, TallyUpdates DEF StartDownload
  <1>4. fetching' \in Fetchings /\ fetching'.at = "entry" /\ fetching'.records = records
    BY <1>1 DEF StartDownload, Fetchings, FetchPlaces
  <1>5. DownloadTypes'
    BY <1>3, <1>4 DEF DownloadInv, DownloadTypes, StartDownload
  <1>6. OwnFiles' /\ InFetch'
    BY <1>4 DEF DownloadInv, OwnFiles, InFetch, Fetching, StartDownload
  <1>7. RunRecords => RunRecords'
    BY <1>4 DEF RunRecords, VadRecord, OwnRecords, Fetching, StartDownload, NotRunning
  <1> QED
    BY <1>3, <1>5, <1>6, <1>7 DEF DownloadInv

\* Between the components nothing but the records is asked.
LEMMA ToEntry ==
    ASSUME DownloadInv, fetching \in Fetchings, fetching # NotRunning, fetching.at = "entry",
           NEW left \in SUBSET Components,
           Becomes(fetching', fetching, "entry", left, fetching.files, fetching.ok,
                   fetching.last, fetching.records),
           UNCHANGED <<disk, head, records, tally>>
    PROVE  DownloadInv'
  <1>1. DownloadTypes'
    BY DEF DownloadInv, DownloadTypes, Becomes
  <1>2. OwnFiles'
    BY DEF DownloadInv, OwnFiles
  <1>3. InFetch'
    BY DEF InFetch, Fetching, Becomes
  <1>4. /\ fetching' # NotRunning' /\ fetching'.at = "entry" /\ ~Fetching("vad") /\ ~Fetching("vad")'
        /\ fetching'.records = fetching.records
    BY DEF Becomes, Fetching, NotRunning
  <1>5. RunRecords => RunRecords'
    BY <1>4 DEF RunRecords, VadRecord, OwnRecords
  <1> QED
    BY <1>1, <1>2, <1>3, <1>5 DEF DownloadInv

\* A step of the downloader into a component, or past it.
LEMMA EnterStep == DownloadInv /\ Enter => DownloadInv'
  <1> SUFFICES ASSUME DownloadInv, Enter PROVE DownloadInv'
    OBVIOUS
  <1>1. fetching \in Fetchings /\ fetching # NotRunning
    BY Runs DEF DownloadInv, Enter, FetchPlaces
  <1>2. Current \in Components /\ fetching.left \in SUBSET Components
    BY <1>1, FetchingFields, CurrentIs DEF Enter
  <1>3. FilesOf[Current] \in Seq(Places)
    <2>1. /\ <<"config", "weights">> \in Seq(Places) /\ <<"onnx">> \in Seq(Places)
          /\ <<"probe", "payload", "extra">> \in Seq(Places)
      BY DEF Places
    <2> QED
      BY <1>2, <2>1, Tables DEF Components
  <1>4. fetching.left \ {Current} \in SUBSET Components /\ "fetch" \in FetchPlaces
    BY <1>2 DEF FetchPlaces
  <1>5. CASE Verified(Current) \/ fetching.verifyOnly
    <2>1. Becomes(fetching', fetching, "entry", fetching.left \ {Current}, fetching.files,
                  fetching.ok, fetching.last, fetching.records)
      <3>1. Becomes([fetching EXCEPT !.left = fetching.left \ {Current}], fetching, fetching.at,
                    fetching.left \ {Current}, fetching.files, fetching.ok, fetching.last,
                    fetching.records)
        BY <1>1, <1>4, FetchingFields, Updates
      <3> QED
        BY <1>5, <3>1 DEF Enter
    <2>2. fetching.at = "entry" /\ UNCHANGED <<disk, head, records, tally>>
      BY DEF Enter
    <2> QED
      BY <1>1, <1>4, <2>1, <2>2, ToEntry
  <1>6. CASE ~(Verified(Current) \/ fetching.verifyOnly)
    <2>1. Becomes(fetching', fetching, "fetch", fetching.left, FilesOf[Current], TRUE,
                  fetching.last, fetching.records)
      <3>1. Becomes([fetching EXCEPT !.at = "fetch", !.files = FilesOf[Current], !.ok = TRUE],
                    fetching, "fetch", fetching.left, FilesOf[Current], TRUE, fetching.last,
                    fetching.records)
        BY <1>1, <1>3, <1>4, FetchingFields, Updates
      <3> QED
        BY <1>6, <3>1 DEF Enter
    <2>2. Current' = Current
      BY <2>1, CurrentStays DEF Becomes
    <2>3. DownloadTypes'
      BY <2>1 DEF DownloadInv, DownloadTypes, Becomes, Enter
    <2>4. OwnFiles'
      BY DEF DownloadInv, OwnFiles, Enter
    <2>5. Current = "vad" => ~disk["onnx"].full
      BY <1>6, Tables DEF Verified
    <2>6. InFetch'
      BY <2>1, <2>2, <2>5, Tables DEF InFetch, Fetching, Becomes, Enter
    <2>7. RunRecords => RunRecords'
      BY <2>1, <2>2, <1>1 DEF RunRecords, VadRecord, OwnRecords, Fetching, Becomes, Enter, NotRunning
    <2> QED
      BY <2>3, <2>4, <2>6, <2>7 DEF DownloadInv, Enter
  <1> QED
    BY <1>5, <1>6

\* What is left of each list.
LEMMA Tails ==
    /\ Tail(<<"config", "weights">>) = <<"weights">> /\ Tail(<<"weights">>) = <<>>
    /\ Tail(<<"onnx">>) = <<>>
    /\ Tail(<<"probe", "payload", "extra">>) = <<"payload", "extra">>
    /\ Tail(<<"payload", "extra">>) = <<"extra">> /\ Tail(<<"extra">>) = <<>>
    /\ <<>> # <<"onnx">>
  OBVIOUS

\* A file arrives.
LEMMA FetchStep == DownloadInv /\ Fetch => DownloadInv'
  <1> SUFFICES ASSUME DownloadInv, Fetch PROVE DownloadInv'
    OBVIOUS
  <1>1. fetching \in Fetchings /\ fetching # NotRunning
    BY Runs DEF DownloadInv, Fetch, FetchPlaces
  <1>2. /\ Current \in Components /\ disk \in [Places -> DiskFiles] /\ tally \in Tallies
        /\ fetching.at = "fetch" /\ fetching.files \in Seq(Places) /\ fetching.files # <<>>
    BY <1>1, FetchingFields, CurrentIs DEF Fetch, DownloadInv, DownloadTypes
  <1> DEFINE p == Head(fetching.files)
             got == [repo |-> Own[Current], commit |-> Commit(Current)]
             arrived == [repo |-> Own[Current], commit |-> Commit(Current), full |-> TRUE]
  <1>3. p \in Places /\ Tail(fetching.files) \in Seq(Places)
    BY <1>2
  <1>4. Own[Current] \in Repos /\ Own[Current] # "none"
    BY <1>2, Tables DEF Components, Repos
  <1>5. Commit(Current) \in Nat
    BY <1>2, <1>4 DEF DownloadInv, DownloadTypes, Commit, PinnedCommit
  <1>6. got \in Sources /\ arrived \in DiskFiles
    BY <1>4, <1>5 DEF Sources, DiskFiles
  <1>7. /\ Becomes(fetching', fetching, "fetch", fetching.left, Tail(fetching.files),
                   fetching.ok, got, fetching.records)
        /\ disk' = [disk EXCEPT ![p] = arrived]
        /\ UNCHANGED <<head, records, tally>>
    <2>1. Becomes([fetching EXCEPT !.files = Tail(fetching.files), !.last = got], fetching,
                  fetching.at, fetching.left, Tail(fetching.files), fetching.ok, got,
                  fetching.records)
      BY <1>1, <1>3, <1>6, FetchingFields, Updates
    <2> QED
      BY <2>1, <1>2 DEF Fetch, Fetched
  <1>8. got.repo = Own[Current] /\ arrived.repo = Own[Current] /\ arrived.commit = Commit(Current) /\ arrived.full
    OBVIOUS
  <1> HIDE DEF p, got, arrived
  <1>9. Current' = Current
    BY <1>7, CurrentStays DEF Becomes
  <1>10. /\ disk' \in [Places -> DiskFiles] /\ disk'[p] = arrived
         /\ \A q \in Places : q # p => disk'[q] = disk[q]
    BY <1>2, <1>3, <1>6, <1>7
  <1>11. DownloadTypes'
    BY <1>1, <1>7, <1>10, <1>9 DEF DownloadInv, DownloadTypes, Becomes, Fetch
  <1>12. /\ Current = "asr" => p \in {"config", "weights"}
         /\ Current = "vad" => p = "onnx" /\ fetching.files = <<"onnx">>
         /\ Current = "embedding" => p \in {"probe", "payload", "extra"}
    BY <1>2 DEF DownloadInv, InFetch, Fetching, p
  <1>13. OwnFiles'
    <2>1. OwnFiles /\ {"config", "weights", "probe", "payload", "extra", "onnx"} \subseteq Places
      BY DEF DownloadInv, Places
    <2>2. Commit("asr") = PinnedCommit
      BY DEF Commit, Pinned
    <2>3. CASE Current = "asr"
      BY <1>8, <1>10, <1>12, <2>1, <2>2, <2>3, Tables DEF OwnFiles
    <2>4. CASE Current = "vad"
      BY <1>8, <1>10, <1>12, <2>1, <2>4, Tables DEF OwnFiles
    <2>5. CASE Current = "embedding"
      BY <1>8, <1>10, <1>12, <2>1, <2>5, Tables DEF OwnFiles
    <2> QED
      BY <1>2, <2>3, <2>4, <2>5 DEF Components
  <1>14. /\ fetching'.at = "fetch" /\ fetching'.files = Tail(fetching.files)
         /\ fetching'.last = got /\ fetching'.ok = fetching.ok /\ fetching'.records = fetching.records
    BY <1>7 DEF Becomes
  <1>15. InFetch'
    <2>1. CASE Current = "asr"
      <3>1. fetching.files \in {<<"config", "weights">>, <<"weights">>}
        BY <1>2, <2>1 DEF DownloadInv, InFetch, Fetching
      <3>2. fetching'.files \in {<<"weights">>, <<>>}
        BY <3>1, <1>14, Tails
      <3> QED
        BY <1>8, <1>9, <1>14, <2>1, <3>2, Tables DEF InFetch, Fetching
    <2>2. CASE Current = "vad"
      <3>1. fetching'.files = <<>> /\ fetching'.ok /\ <<>> # <<"onnx">>
        BY <1>2, <1>12, <1>14, <2>2, Tails DEF DownloadInv, InFetch, Fetching
      <3>2. disk'["onnx"].repo = got.repo
        BY <1>8, <1>10, <1>12, <2>2
      <3> QED
        BY <1>9, <1>14, <2>2, <3>1, <3>2 DEF InFetch, Fetching
    <2>3. CASE Current = "embedding"
      <3>1. fetching.files \in {<<"probe", "payload", "extra">>, <<"payload", "extra">>, <<"extra">>}
        BY <1>2, <2>3 DEF DownloadInv, InFetch, Fetching
      <3>2. fetching'.files \in {<<"payload", "extra">>, <<"extra">>, <<>>}
        BY <3>1, <1>14, Tails
      <3> QED
        BY <1>8, <1>9, <1>14, <2>3, <3>2, Tables DEF InFetch, Fetching
    <2> QED
      BY <1>2, <2>1, <2>2, <2>3 DEF Components
  <1>16. RunRecords => RunRecords'
    <2>1. fetching' # NotRunning' /\ (Fetching("vad")' <=> Fetching("vad"))
      BY <1>2, <1>9, <1>14 DEF NotRunning, Fetching
    <2>2. ~Fetching("vad") => disk'["onnx"] = disk["onnx"]
      <3>1. CASE Current = "vad"
        BY <1>2, <3>1 DEF Fetching
      <3>2. CASE Current # "vad"
        <4>1. p # "onnx" /\ "onnx" \in Places
          BY <3>2, <1>2, <1>12 DEF Components, Places
        <4> QED
          BY <4>1, <1>10
      <3> QED
        BY <3>1, <3>2
    <2> QED
      BY <2>1, <2>2, <1>1, <1>2, <1>7, <1>14 DEF RunRecords, VadRecord, OwnRecords
  <1> QED
    BY <1>7, <1>11, <1>13, <1>15, <1>16 DEF DownloadInv

\* While a component is fetched its record is not touched.
LEMMA RecordsWait ==
    ASSUME RunRecords, fetching \in Fetchings, fetching # NotRunning,
           fetching.at \in {"fetch", "mirror"}, fetching'.at \in {"fetch", "mirror"},
           Current' = Current, fetching'.records = fetching.records, records' = records,
           ~Fetching("vad") => disk'["onnx"] = disk["onnx"]
    PROVE  RunRecords'
  <1>1. fetching' # NotRunning' /\ fetching'.at # "over" /\ fetching.at # "over"
    BY DEF NotRunning
  <1>2. Fetching("vad")' <=> Fetching("vad")
    BY DEF Fetching
  <1> QED
    BY <1>1, <1>2 DEF RunRecords, VadRecord, OwnRecords

LEMMA FetchFailsStep == DownloadInv /\ FetchFails => DownloadInv'
  <1> SUFFICES ASSUME DownloadInv, FetchFails PROVE DownloadInv'
    OBVIOUS
  <1>1. fetching \in Fetchings /\ fetching # NotRunning /\ DownloadTypes
    BY Runs DEF DownloadInv, FetchFails, FetchPlaces
  <1>2. /\ Current \in Components /\ fetching.left \in SUBSET Components /\ fetching.left # {}
        /\ fetching.at = "fetch" /\ fetching.files \in Seq(Places) /\ fetching.files # <<>>
        /\ UNCHANGED <<disk, head, records, tally>>
    BY <1>1, FetchingFields, CurrentIs DEF FetchFails, DownloadTypes
  <1>3. Tail(fetching.files) \in Seq(Places) /\ <<>> \in Seq(Places) /\ "mirror" \in FetchPlaces
    BY <1>2 DEF FetchPlaces
  <1>4. /\ Current = "asr" =>
            Becomes(fetching', fetching, "fetch", fetching.left, Tail(fetching.files), FALSE,
                    fetching.last, fetching.records)
        /\ Current = "embedding" =>
            Becomes(fetching', fetching, "fetch", fetching.left, <<>>, FALSE,
                    fetching.last, fetching.records)
        /\ Current = "vad" =>
            Becomes(fetching', fetching, "mirror", fetching.left, fetching.files, fetching.ok,
                    fetching.last, fetching.records)
    <2>1. /\ Becomes([fetching EXCEPT !.files = Tail(fetching.files), !.ok = FALSE], fetching,
                     fetching.at, fetching.left, Tail(fetching.files), FALSE, fetching.last,
                     fetching.records)
      BY <1>1, <1>3, FetchingFields, Updates
    <2>2. /\ Becomes([fetching EXCEPT !.files = <<>>, !.ok = FALSE], fetching,
                     fetching.at, fetching.left, <<>>, FALSE, fetching.last, fetching.records)
      BY <1>1, <1>3, FetchingFields, Updates
    <2>3. /\ Becomes([fetching EXCEPT !.at = "mirror"], fetching, "mirror", fetching.left,
                     fetching.files, fetching.ok, fetching.last, fetching.records)
      BY <1>1, <1>3, FetchingFields, Updates
    <2>4. CASE Current = "asr"
      BY <2>1, <2>4, <1>2 DEF FetchFails
    <2>5. CASE Current = "embedding"
      BY <2>2, <2>5, <1>2 DEF FetchFails
    <2>6. CASE Current = "vad"
      BY <2>3, <2>6, <1>2 DEF FetchFails
    <2> QED
      BY <1>2, <2>4, <2>5, <2>6 DEF Components
  <1>5. /\ fetching' \in Fetchings /\ fetching'.left = fetching.left
        /\ fetching'.at \in {"fetch", "mirror"} /\ fetching'.records = fetching.records
    BY <1>2, <1>4 DEF Components, Becomes
  <1>6. Current' = Current
    BY <1>5, CurrentStays
  <1>7. DownloadTypes'
    BY <1>1, <1>2, <1>5 DEF DownloadTypes
  <1>8. OwnFiles'
    BY <1>2 DEF DownloadInv, OwnFiles
  <1>9. InFetch'
    <2>1. CASE Current = "asr"
      <3>1. fetching.files \in {<<"config", "weights">>, <<"weights">>}
        BY <1>2, <2>1 DEF DownloadInv, InFetch, Fetching
      <3>2. fetching'.files \in {<<"weights">>, <<>>} /\ ~fetching'.ok /\ fetching'.at = "fetch"
        BY <3>1, <1>4, <2>1, Tails DEF Becomes
      <3> QED
        BY <1>6, <2>1, <3>2 DEF InFetch, Fetching
    <2>2. CASE Current = "vad"
      <3>1. fetching.files = <<"onnx">> /\ fetching.ok /\ ~disk["onnx"].full
        BY <1>2, <2>2 DEF DownloadInv, InFetch, Fetching
      <3>2. fetching'.files = <<"onnx">> /\ fetching'.ok /\ fetching'.at = "mirror"
        BY <3>1, <1>4, <2>2 DEF Becomes
      <3> QED
        BY <1>2, <1>6, <2>2, <3>1, <3>2 DEF InFetch, Fetching
    <2>3. CASE Current = "embedding"
      <3>1. fetching'.files = <<>> /\ ~fetching'.ok /\ fetching'.at = "fetch"
        BY <1>4, <2>3 DEF Becomes
      <3> QED
        BY <1>6, <2>3, <3>1 DEF InFetch, Fetching
    <2> QED
      BY <1>2, <2>1, <2>2, <2>3 DEF Components
  <1>10. RunRecords => RunRecords'
    BY <1>1, <1>2, <1>5, <1>6, RecordsWait
  <1> QED
    BY <1>2, <1>7, <1>8, <1>9, <1>10 DEF DownloadInv

\* The second source of the VAD, which arrives or not.
LEMMA MirrorStep == DownloadInv /\ (FetchMirror \/ MirrorFails) => DownloadInv'
  <1> SUFFICES ASSUME DownloadInv, FetchMirror \/ MirrorFails PROVE DownloadInv'
    OBVIOUS
  <1>1. fetching \in Fetchings /\ fetching # NotRunning /\ DownloadTypes
    BY Runs DEF DownloadInv, FetchMirror, MirrorFails, FetchPlaces
  <1>2. /\ Current \in Components /\ fetching.left \in SUBSET Components /\ fetching.left # {}
        /\ fetching.at = "mirror" /\ UNCHANGED <<head, records, tally>>
        /\ disk \in [Places -> DiskFiles]
    BY <1>1, FetchingFields, CurrentIs DEF FetchMirror, MirrorFails, DownloadTypes
  <1>3. Current = "vad" /\ Fetching("vad")
    BY <1>2 DEF DownloadInv, InFetch, Fetching, Components
  <1>4. fetching.ok /\ ~disk["onnx"].full
    BY <1>2, <1>3 DEF DownloadInv, InFetch
  <1> DEFINE got == [repo |-> Mirror, commit |-> PinnedCommit]
             arrived == [repo |-> Mirror, commit |-> PinnedCommit, full |-> TRUE]
  <1>5. /\ got \in Sources /\ got.repo = Mirror /\ arrived \in DiskFiles /\ arrived.full
        /\ arrived.repo = Mirror /\ <<>> \in Seq(Places) /\ "fetch" \in FetchPlaces
        /\ Mirror # "none" /\ "onnx" \in Places /\ Nested \in Places
        /\ Nested \notin {"onnx", "config", "weights", "probe", "payload", "extra"}
        /\ {"config", "weights", "probe", "payload", "extra"} \subseteq Places
    BY DEF Sources, DiskFiles, FetchPlaces, PinnedCommit, Repos, Mirror, Places, Nested
  <1> HIDE DEF got, arrived
  <1>6. CASE FetchMirror
    <2>1. Becomes(fetching', fetching, "fetch", fetching.left, <<>>, fetching.ok, got, fetching.records)
      <3>1. Becomes([fetching EXCEPT !.at = "fetch", !.files = <<>>, !.last = got], fetching,
                    "fetch", fetching.left, <<>>, fetching.ok, got, fetching.records)
        BY <1>1, <1>5, FetchingFields, Updates
      <3> QED
        BY <3>1, <1>6 DEF FetchMirror, got
    <2>2. /\ fetching' \in Fetchings /\ fetching'.left = fetching.left /\ fetching'.at = "fetch"
          /\ fetching'.files = <<>> /\ fetching'.ok /\ fetching'.last = got
          /\ fetching'.records = fetching.records
      BY <1>4, <2>1 DEF Becomes
    <2>3. Current' = Current
      BY <2>2, CurrentStays
    <2>4. /\ disk' \in [Places -> DiskFiles]
          /\ disk'["onnx"].full => disk'["onnx"].repo = Mirror
          /\ \A p \in {"config", "weights", "probe", "payload", "extra"} : disk'[p] = disk[p]
      <3>1. NoFile \in DiskFiles
        BY DEF NoFile, DiskFiles
      <3>2. CASE disk["onnx"] = NoFile
        <4>1. disk' = [disk EXCEPT !["onnx"] = arrived, ![Nested] = NoFile]
          BY <1>6, <3>2 DEF FetchMirror, arrived
        <4>2. disk' = [[disk EXCEPT !["onnx"] = arrived] EXCEPT ![Nested] = NoFile]
          BY <4>1
        <4> DEFINE d == [disk EXCEPT !["onnx"] = arrived]
        <4>3. /\ d \in [Places -> DiskFiles] /\ d["onnx"] = arrived
              /\ \A p \in {"config", "weights", "probe", "payload", "extra"} : d[p] = disk[p]
          BY <1>2, <1>5
        <4>4. disk' = [d EXCEPT ![Nested] = NoFile]
          BY <4>2
        <4> HIDE DEF d
        <4>5. /\ disk' \in [Places -> DiskFiles] /\ disk'["onnx"] = d["onnx"]
              /\ \A p \in {"config", "weights", "probe", "payload", "extra"} : disk'[p] = d[p]
          BY <1>5, <3>1, <4>3, <4>4
        <4> QED
          BY <1>5, <4>3, <4>5
      <3>3. CASE disk["onnx"] # NoFile
        <4>1. disk' = [disk EXCEPT ![Nested] = arrived]
          BY <1>6, <3>3 DEF FetchMirror, arrived
        <4> QED
          BY <4>1, <1>2, <1>4, <1>5
      <3> QED
        BY <3>2, <3>3
    <2>5. DownloadTypes'
      BY <1>1, <1>2, <2>2, <2>4 DEF DownloadTypes
    <2>6. OwnFiles'
      BY <2>4, <1>5 DEF DownloadInv, OwnFiles
    <2>7. InFetch'
      BY <1>3, <1>5, <2>2, <2>3, <2>4 DEF InFetch, Fetching
    <2>8. RunRecords => RunRecords'
      BY <1>1, <1>2, <1>3, <2>2, <2>3, RecordsWait
    <2> QED
      BY <1>2, <2>5, <2>6, <2>7, <2>8 DEF DownloadInv
  <1>7. CASE MirrorFails
    <2>1. Becomes(fetching', fetching, "fetch", fetching.left, <<>>, FALSE, fetching.last, fetching.records)
      <3>1. Becomes([fetching EXCEPT !.at = "fetch", !.files = <<>>, !.ok = FALSE], fetching,
                    "fetch", fetching.left, <<>>, FALSE, fetching.last, fetching.records)
        BY <1>1, <1>5, FetchingFields, Updates
      <3> QED
        BY <3>1, <1>7 DEF MirrorFails
    <2>2. /\ fetching' \in Fetchings /\ fetching'.left = fetching.left /\ fetching'.at = "fetch"
          /\ fetching'.files = <<>> /\ ~fetching'.ok /\ fetching'.records = fetching.records
          /\ disk' = disk
      BY <2>1, <1>7 DEF Becomes, MirrorFails
    <2>3. Current' = Current
      BY <2>2, CurrentStays
    <2>4. DownloadTypes'
      BY <1>1, <1>2, <2>2 DEF DownloadTypes
    <2>5. OwnFiles'
      BY <2>2 DEF DownloadInv, OwnFiles
    <2>6. InFetch'
      BY <1>3, <1>4, <2>2, <2>3 DEF InFetch, Fetching
    <2>7. RunRecords => RunRecords'
      BY <1>1, <1>2, <1>3, <2>2, <2>3, RecordsWait
    <2> QED
      BY <1>2, <2>4, <2>5, <2>6, <2>7 DEF DownloadInv
  <1> QED
    BY <1>6, <1>7

\* Between the components, with the records as they are or with a new one.
LEMMA BackToEntry ==
    ASSUME DownloadInv, fetching \in Fetchings, fetching # NotRunning,
           NEW left \in SUBSET Components, NEW last \in Sources,
           NEW entries \in [Components -> Sources],
           Becomes(fetching', fetching, "entry", left, fetching.files, fetching.ok, last, entries),
           UNCHANGED <<disk, head, records, tally>>,
           RunRecords => OwnRecords(entries) /\ VadRecord(entries),
           RunRecords => \A c \in Components : entries[c] = NoRecord => records[c] = NoRecord
    PROVE  DownloadInv'
  <1>1. /\ fetching' # NotRunning' /\ fetching'.at = "entry" /\ ~Fetching("vad")'
        /\ fetching'.records = entries
    BY DEF Becomes, Fetching, NotRunning
  <1>2. DownloadTypes'
    BY DEF DownloadInv, DownloadTypes, Becomes
  <1>3. OwnFiles'
    BY DEF DownloadInv, OwnFiles
  <1>4. InFetch'
    BY <1>1 DEF InFetch, Fetching
  <1>5. RunRecords => RunRecords'
    BY <1>1 DEF RunRecords, VadRecord, OwnRecords
  <1> QED
    BY <1>2, <1>3, <1>4, <1>5 DEF DownloadInv

LEMMA LeaveStep == DownloadInv /\ LeaveComponent => DownloadInv'
  <1> SUFFICES ASSUME DownloadInv, LeaveComponent PROVE DownloadInv'
    OBVIOUS
  <1> DEFINE c == Current
             left == fetching.left \ {c}
  <1>1. fetching \in Fetchings /\ fetching # NotRunning /\ DownloadTypes
    BY Runs DEF DownloadInv, LeaveComponent, FetchPlaces
  <1>2. /\ c \in Components /\ fetching.left \in SUBSET Components /\ fetching.left # {}
        /\ fetching.at = "fetch" /\ fetching.files = <<>> /\ UNCHANGED <<disk, head, records, tally>>
        /\ fetching.last \in Sources /\ fetching.records \in [Components -> Sources]
        /\ disk \in [Places -> DiskFiles] /\ records \in [Components -> Sources]
        /\ head \in [Repos -> Nat]
    BY <1>1, FetchingFields, CurrentIs DEF LeaveComponent, DownloadTypes
  <1>3. left \in SUBSET Components /\ "entry" \in FetchPlaces /\ NoRecord \in Sources
    BY <1>2 DEF FetchPlaces, NoRecord, Sources
  <1>4. PICK resolved \in BOOLEAN :
            fetching' = IF ~Verified(c) \/ ~fetching.ok
               THEN [fetching EXCEPT !.at = "entry", !.left = @ \ {c}]
               ELSE [fetching EXCEPT !.at = "entry", !.left = @ \ {c}, !.last = NoRecord,
                                !.records[c] =
                                    IF resolved THEN Source(c)
                                    ELSE [Source(c) EXCEPT !.commit = 0]]
    BY DEF LeaveComponent
  <1>5. RunRecords =>
            /\ OwnRecords(fetching.records) /\ (~Fetching("vad") => VadRecord(fetching.records))
            /\ \A d \in Components : fetching.records[d] = NoRecord => records[d] = NoRecord
    BY <1>1, <1>2 DEF RunRecords
  <1>6. Fetching(c) /\ (Fetching("vad") <=> c = "vad") /\ <<>> # <<"config", "weights">>
        /\ <<>> # <<"probe", "payload", "extra">>
    BY <1>2 DEF Fetching
  <1>7. c = "vad" => (Verified(c) <=> disk["onnx"].full) /\ (~fetching.ok => ~disk["onnx"].full)
    <2>1. c = "vad" => (Verified(c) <=> disk["onnx"].full)
      BY Tables DEF Verified
    <2>2. c = "vad" => (~fetching.ok => ~disk["onnx"].full)
      BY <1>6 DEF DownloadInv, InFetch
    <2> QED
      BY <2>1, <2>2
  <1> HIDE DEF c
  <1>8. CASE ~Verified(c) \/ ~fetching.ok
    <2>1. Becomes(fetching', fetching, "entry", left, fetching.files, fetching.ok,
                  fetching.last, fetching.records)
      <3>1. Becomes([fetching EXCEPT !.at = "entry", !.left = left], fetching, "entry", left,
                    fetching.files, fetching.ok, fetching.last, fetching.records)
        BY <1>1, <1>3, FetchingFields, Updates
      <3> QED
        BY <3>1, <1>4, <1>8
    <2>2. RunRecords => VadRecord(fetching.records)
      BY <1>5, <1>6, <1>7, <1>8 DEF VadRecord
    <2> HIDE DEF left
    <2> QED
      BY <1>1, <1>2, <1>3, <1>5, <2>1, <2>2, BackToEntry
  <1>9. CASE ~(~Verified(c) \/ ~fetching.ok)
    <2> DEFINE x == IF resolved THEN Source(c) ELSE [Source(c) EXCEPT !.commit = 0]
               entries == [fetching.records EXCEPT ![c] = x]
    <2>1. /\ c = "asr" => fetching.last.repo = "nvidia"
          /\ c = "embedding" => fetching.last.repo = "intfloat"
          /\ c = "vad" => disk["onnx"].full /\ fetching.last.repo = disk["onnx"].repo
                          /\ fetching.last.repo # "none"
      BY <1>2, <1>6, <1>7, <1>9 DEF DownloadInv, InFetch, OwnFiles
    <2>2. fetching.last.repo \in Repos
      BY <1>2, <2>1 DEF Sources, Repos, Components
    <2>3. /\ Source(c).repo = fetching.last.repo /\ Source(c) \in Sources
          /\ c = "asr" => Source(c).commit = PinnedCommit
      BY <1>2, <2>2 DEF Source, Sources, Pinned, PinnedCommit
    <2>4. /\ x \in Sources /\ x.repo = fetching.last.repo
          /\ c = "asr" => x.commit \in {0, PinnedCommit}
      <3>1. /\ [Source(c) EXCEPT !.commit = 0] \in Sources
            /\ [Source(c) EXCEPT !.commit = 0].repo = Source(c).repo
            /\ [Source(c) EXCEPT !.commit = 0].commit = 0
        BY <2>3 DEF Sources
      <3>2. CASE resolved
        BY <2>3, <3>2
      <3>3. CASE ~resolved
        BY <2>3, <3>1, <3>3
      <3> QED
        BY <3>2, <3>3
    <2> HIDE DEF x
    <2>5. /\ entries \in [Components -> Sources] /\ entries[c] = x
          /\ \A d \in Components : d # c => entries[d] = fetching.records[d]
      BY <1>2, <2>4
    <2>6. Becomes(fetching', fetching, "entry", left, fetching.files, fetching.ok, NoRecord, entries)
      <3>1. fetching' = [fetching EXCEPT !.at = "entry", !.left = @ \ {c}, !.last = NoRecord,
                                         !.records[c] = x]
        BY <1>4, <1>9 DEF x
      <3>2. [fetching EXCEPT !.at = "entry", !.left = @ \ {c}, !.last = NoRecord, !.records[c] = x]
            = [fetching EXCEPT !.at = "entry", !.left = left, !.last = NoRecord, !.records = entries]
        OBVIOUS
      <3> HIDE DEF entries, left
      <3>3. Becomes([fetching EXCEPT !.at = "entry", !.left = left, !.last = NoRecord,
                                     !.records = entries],
                    fetching, "entry", left, fetching.files, fetching.ok, NoRecord, entries)
        BY <1>1, <1>3, <2>5, FetchingFields, Updates
      <3> QED
        BY <3>1, <3>2, <3>3
    <2> HIDE DEF entries, left
    <2>7. NoRecord.repo = "none" /\ x # NoRecord
      BY <2>1, <2>2, <2>4, <1>2 DEF NoRecord, Repos, Mirror
    <2>8. RunRecords => OwnRecords(entries)
      BY <1>2, <1>5, <2>1, <2>4, <2>5 DEF OwnRecords, Components
    <2>9. RunRecords => VadRecord(entries)
      BY <1>2, <1>5, <1>6, <2>1, <2>4, <2>5 DEF VadRecord, Components
    <2>10. RunRecords => \A d \in Components : entries[d] = NoRecord => records[d] = NoRecord
      BY <1>5, <2>5, <2>7
    <2> QED
      BY <1>1, <1>2, <1>3, <2>5, <2>6, <2>8, <2>9, <2>10, BackToEntry
  <1> QED
    BY <1>8, <1>9

\* The end of a run.
LEMMA FinishStep == DownloadInv /\ Finish => DownloadInv'
  <1> SUFFICES ASSUME DownloadInv, Finish PROVE DownloadInv'
    OBVIOUS
  <1>1. /\ fetching \in Fetchings /\ fetching # NotRunning /\ DownloadTypes
        /\ fetching.at = "entry"
    BY Runs DEF DownloadInv, Finish, FetchPlaces
  <1>2. tally \in Tallies /\ fetching.records \in [Components -> Sources]
        /\ records \in [Components -> Sources]
    BY <1>1, FetchingFields DEF DownloadTypes
  <1>3. tally' \in Tallies /\ tally'.interrupted = tally.interrupted
    <2>1. (IF \A c \in fetching.only : Verified(c) THEN "ok" ELSE "failed") \in {"none", "ok", "failed"}
      OBVIOUS
    <2> QED
      BY <1>2, <2>1, TallyUpdates DEF Finish
  <1>4. fetching' \in Fetchings /\ fetching'.at = "over"
    <2>1. "over" \in FetchPlaces
      BY DEF FetchPlaces
    <2>2. Becomes([fetching EXCEPT !.at = "over"], fetching, "over", fetching.left,
                  fetching.files, fetching.ok, fetching.last, fetching.records)
      BY <1>1, <2>1, FetchingFields, Updates
    <2> QED
      BY <2>2 DEF Finish, Becomes
  <1>5. records' \in [Components -> Sources] /\ disk' = disk /\ head' = head
    BY <1>2 DEF Finish
  <1>6. DownloadTypes'
    BY <1>1, <1>3, <1>4, <1>5 DEF DownloadTypes
  <1>7. OwnFiles'
    BY <1>5 DEF DownloadInv, OwnFiles
  <1>8. InFetch'
    BY <1>4 DEF InFetch, Fetching
  <1>9. RunRecords => RunRecords'
    <2> SUFFICES ASSUME RunRecords PROVE RunRecords'
      OBVIOUS
    <2>1. /\ OwnRecords(fetching.records) /\ VadRecord(fetching.records) /\ OwnRecords(records)
          /\ \A c \in Components : fetching.records[c] = NoRecord => records[c] = NoRecord
      BY <1>1 DEF RunRecords, Fetching
    <2>2. OwnRecords(records') /\ VadRecord(records')
      <3>1. CASE fetching.records = [c \in Components |-> NoRecord]
        BY <2>1, <3>1 DEF Finish, VadRecord, Components
      <3>2. CASE fetching.records # [c \in Components |-> NoRecord]
        BY <2>1, <3>2 DEF Finish
      <3> QED
        BY <3>1, <3>2
    <2> QED
      BY <1>4, <1>5, <2>2 DEF RunRecords, VadRecord, OwnRecords
  <1> QED
    BY <1>3, <1>6, <1>7, <1>8, <1>9 DEF DownloadInv

LEMMA ExitStep == DownloadInv /\ Exit => DownloadInv'
  <1> SUFFICES ASSUME DownloadInv, Exit PROVE DownloadInv'
    OBVIOUS
  <1>1. fetching' = NotRunning /\ NotRunning.at = "none"
    BY DEF Exit, NotRunning
  <1>2. DownloadTypes'
    BY <1>1 DEF DownloadInv, DownloadTypes, Exit, NotRunning
  <1>3. OwnFiles' /\ InFetch'
    BY <1>1 DEF DownloadInv, OwnFiles, InFetch, Fetching, Exit
  <1>4. RunRecords => RunRecords'
    BY <1>1 DEF RunRecords, VadRecord, OwnRecords, Exit, NotRunning
  <1> QED
    BY <1>2, <1>3, <1>4 DEF DownloadInv, Exit

\* A run that is interrupted promises nothing of its records.
LEMMA StopStep == DownloadInv /\ (InterruptDownload \/ TornRecord) => DownloadInv'
  <1> SUFFICES ASSUME DownloadInv, InterruptDownload \/ TornRecord PROVE DownloadInv'
    OBVIOUS
  <1>1. fetching' = NotRunning /\ NotRunning.at = "none" /\ disk' = disk /\ head' = head
    BY DEF InterruptDownload, TornRecord, NotRunning
  <1>2. records' \in [Components -> Sources]
    BY DEF DownloadInv, DownloadTypes, InterruptDownload, TornRecord, NoRecord, Sources
  <1>3. tally' \in Tallies /\ tally'.interrupted
    <2>1. tally \in Tallies
      BY DEF DownloadInv, DownloadTypes
    <2>2. [tally EXCEPT !.interrupted = TRUE] \in Tallies
          /\ [tally EXCEPT !.interrupted = TRUE].interrupted
      BY <2>1, TallyUpdates
    <2> QED
      BY <2>2 DEF InterruptDownload, TornRecord
  <1>4. DownloadTypes'
    BY <1>1, <1>2, <1>3 DEF DownloadInv, DownloadTypes
  <1>5. OwnFiles' /\ InFetch'
    BY <1>1 DEF DownloadInv, OwnFiles, InFetch, Fetching
  <1> QED
    BY <1>3, <1>4, <1>5 DEF DownloadInv

LEMMA DownloadStep == DownloadInv /\ [ModelNext]_modelVars => DownloadInv'
  <1> SUFFICES ASSUME DownloadInv, [ModelNext]_modelVars PROVE DownloadInv'
    OBVIOUS
  <1>1. ASSUME NEW r \in Repos \ {Mirror}, Push(r) PROVE DownloadInv'
    BY <1>1, PushStep
  <1>2. ASSUME NEW only \in {Components, {"vad"}}, NEW verifyOnly \in BOOLEAN,
               StartDownload(only, verifyOnly)
        PROVE  DownloadInv'
    <2>1. only \in SUBSET Components
      BY DEF Components
    <2> QED
      BY <1>2, <2>1, StartStep
  <1>3. CASE UNCHANGED modelVars
    <2>1. UNCHANGED <<disk, head, records, fetching, tally>>
      BY <1>3 DEF modelVars
    <2>2. Current' = Current
      BY <2>1, CurrentStays
    <2> QED
      BY <2>1, <2>2 DEF DownloadInv, DownloadTypes, OwnFiles, InFetch, Fetching, RunRecords,
                        VadRecord, OwnRecords
  <1> QED
    BY <1>1, <1>2, <1>3, DamageStep, EnterStep, FetchStep, FetchFailsStep, MirrorStep, LeaveStep,
       FinishStep, ExitStep, StopStep DEF ModelNext

\* As long as no run was interrupted, the record of a file that is there in full
\* names the repository it came from, and for a pinned component its commit.
THEOREM SourcesAreRecorded == ModelSpec => []SourcesAreTrue
  <1>1. DownloadInv /\ [ModelNext]_modelVars => DownloadInv'
    BY DownloadStep
  <1> QED
    BY <1>1, DownloadStart, SourcesHold, PTL DEF ModelSpec

-----------------------------------------------------------------------------
(***************************************************************************)
(* The releases.                                                           *)
(***************************************************************************)

\* What the fingerprint tells of a tree.
Covered ==
    [body : Bodies, builder : Versions, page : Versions, version : Versions,
     log : Seq(Versions \X Nat)]

ReleaseRecords ==
    [verdict : {"GREEN", "RED"}, version : Versions, fingerprint : [sha256 : Covered], gated : Trees,
     raced : BOOLEAN]
Lefts == {Packages, Tail(Packages), Tail(Tail(Packages)), <<>>}
Gates ==
    [fingerprint : [sha256 : Covered], gated : Trees, version : Versions, left : Lefts,
     failing : BOOLEAN, raced : BOOLEAN]
Indexes == [Versions -> Trees \cup {Absent}]
Zips == [Versions -> Trees \cup {Absent, TornZip}]
BuildSteps ==
    {"app", "scripts", "web", "root", "unlink", "zip", "check", "sidecar", "index", "indexing",
     "changelog", "history"}
Builds ==
    [at : BuildSteps, new : Versions, record : ReleaseRecords, staged : Trees, run : Nat,
     raced : BOOLEAN, old : Indexes]
PageEntries == [version : Versions, zip : Trees, record : ReleaseRecords, raced : BOOLEAN]
Uses == [edits : Nat, gates : Nat, builds : Nat, kills : Nat]

ReleaseTypes ==
    /\ tree \in Trees /\ record \in ReleaseRecords \cup {Absent}
    /\ gate \in Gates \cup {Absent} /\ build \in Builds \cup {Absent}
    /\ zips \in Zips /\ sidecars \in Indexes /\ index \in Indexes \cup {TornIndex}
    /\ history \in Seq(Versions \X Nat) /\ published \in SUBSET PageEntries /\ used \in Uses

\* A run of the gate that was not disturbed tells of the tree there is.
GateTells ==
    gate # Absent =>
        /\ gate.left = Packages => ~gate.failing
        /\ ~gate.raced =>
            /\ gate.fingerprint = Fingerprint(tree)
            /\ gate.left # Packages => (gate.failing <=> Regresses(tree))

Passed(r) == ~Regresses(r.fingerprint.sha256)

RecordTells == record # Absent => (record.verdict = "GREEN" /\ ~record.raced => Passed(record))

SameButLog(t, u) ==
    t.body = u.body /\ t.builder = u.builder /\ t.page = u.page /\ t.version = u.version

OneEntry(log) == \A i, k \in DOMAIN log : log[i][1] = log[k][1] => i = k

\* A run that was not disturbed stages the tree that passed, and the stamp of
\* its log tells its zip from those of the other runs.
BuildTells ==
    build # Absent =>
        /\ build.run <= used.builds
        /\ OneEntry(build.staged.log)
        /\ ~build.raced =>
            /\ Passed(build.record) /\ build.record.fingerprint.sha256.version = build.new
            /\ SameButLog(build.staged, build.record.fingerprint.sha256)
            /\ Staging => SameButLog(tree, build.record.fingerprint.sha256)
        /\ ~Staging => build.staged.log # <<>> /\ build.staged.log[1] = <<build.new, build.run>>
        /\ build.at \in {"check", "sidecar"} => zips[build.new] = build.staged
        /\ build.at \in {"sidecar", "index", "indexing"} => build.staged.page = build.staged.version
        /\ build.at \in {"index", "indexing"} => sidecars[build.new] = build.staged
        /\ build.at \notin {"changelog", "history"} =>
            \A p \in published : p.zip.log[1][2] < build.run

PassedGate(p) ==
    ~p.raced => /\ ~Regresses(p.zip) /\ p.zip.version = p.version
                /\ SameButLog(p.zip, p.record.fingerprint.sha256)

PublishedTells ==
    /\ IsFiniteSet(published)
    /\ \A p \in published :
        PassedGate(p) /\ p.zip.log # <<>> /\ p.zip.log[1][2] <= used.builds

LogsOnce ==
    /\ OneEntry(tree.log)
    /\ \A v \in Versions : zips[v] \notin {Absent, TornZip} => OneEntry(zips[v].log)

\* What the index comes to when the run that writes it is done.
Indexed == IF build # Absent /\ build.at = "indexing" THEN build.old ELSE index

Ledgers ==
    used.kills = 0 =>
        /\ Indexed \in Indexes
        /\ \A v \in Versions :
            (build # Absent /\ build.at \in {"index", "indexing"} => v # build.new) =>
                Indexed[v] = sidecars[v]
        /\ \A p \in published : Indexed[p.version] # Absent
        /\ Cardinality(published) =
            Len(history) + (IF build # Absent /\ build.at \in {"changelog", "history"} THEN 1 ELSE 0)

ReleaseInv ==
    /\ ReleaseTypes /\ GateTells /\ RecordTells /\ BuildTells /\ PublishedTells /\ LogsOnce
    /\ PageFitsVersion /\ Ledgers

-----------------------------------------------------------------------------
\* What is absent is no record.
LEMMA NotAbsent ==
    /\ \A x \in Trees : x # Absent /\ x # TornZip
    /\ \A x \in Gates : x # Absent
    /\ \A x \in Builds : x # Absent
    /\ \A x \in ReleaseRecords : x # Absent
    /\ TornZip # Absent
  <1>1. DOMAIN Absent = {"none"} /\ DOMAIN TornZip = {"torn"}
    BY DEF Absent, TornZip
  <1>2. \A x \in Trees : "body" \in DOMAIN x
    BY DEF Trees
  <1>3. \A x \in Gates : "left" \in DOMAIN x
    BY DEF Gates
  <1>4. \A x \in Builds : "at" \in DOMAIN x
    BY DEF Builds
  <1>5. \A x \in ReleaseRecords : "verdict" \in DOMAIN x
    BY DEF ReleaseRecords
  <1> QED
    BY <1>1, <1>2, <1>3, <1>4, <1>5

LEMMA FingerprintCovers ==
    ASSUME NEW t \in Trees
    PROVE  /\ Fingerprint(t) \in [sha256 : Covered] /\ SameButLog(t, Fingerprint(t).sha256)
           /\ Fingerprint(t).sha256.version = t.version
           /\ Regresses(t) <=> Regresses(Fingerprint(t).sha256)
  <1> DEFINE c == [body |-> t.body, builder |-> t.builder, page |-> t.page,
                   version |-> t.version, log |-> t.log]
  <1>1. c \in Covered
    BY DEF Trees, Covered
  <1>2. /\ c.body = t.body /\ c.builder = t.builder /\ c.page = t.page
        /\ c.version = t.version
    OBVIOUS
  <1>3. Fingerprint(t) = [sha256 |-> c]
    BY DEF Fingerprint
  <1> HIDE DEF c
  <1> QED
    BY <1>1, <1>2, <1>3 DEF SameButLog, Regresses

LEMMA IndexIsNotTorn ==
    ASSUME Versions # {}
    PROVE  /\ \A x \in Indexes : x # TornIndex
           /\ NoEntries \in Indexes /\ NoEntries \in Zips
  <1>1. \A x \in Indexes : DOMAIN x = Versions
    BY DEF Indexes
  <1>2. DOMAIN TornIndex = {}
    BY DEF TornIndex
  <1> QED
    BY <1>1, <1>2 DEF NoEntries, Indexes, Zips

\* One entry goes from a log.
LEMMA RemovedAt ==
    ASSUME NEW T, NEW s \in Seq(T), NEW i \in DOMAIN s
    PROVE  /\ RemoveAt(s, i) \in Seq(T) /\ Len(RemoveAt(s, i)) = Len(s) - 1
           /\ \A k \in 1 .. Len(s) - 1 : RemoveAt(s, i)[k] = IF k < i THEN s[k] ELSE s[k + 1]
  <1> DEFINE a == SubSeq(s, 1, i - 1)
             b == SubSeq(s, i + 1, Len(s))
  <1>1. i \in 1 .. Len(s) /\ Len(s) \in Nat
    OBVIOUS
  <1>2. a \in Seq(T) /\ Len(a) = i - 1 /\ \A k \in 1 .. i - 1 : a[k] = s[k]
    BY <1>1
  <1>3. /\ b \in Seq(T) /\ Len(b) = Len(s) - i
        /\ \A k \in 1 .. Len(s) - i : b[k] = s[k + i]
    BY <1>1
  <1>4. RemoveAt(s, i) = a \o b
    BY DEF RemoveAt
  <1> HIDE DEF a, b
  <1>5. /\ a \o b \in Seq(T) /\ Len(a \o b) = Len(s) - 1
        /\ \A k \in 1 .. Len(s) - 1 : (a \o b)[k] = IF k <= i - 1 THEN a[k] ELSE b[k - (i - 1)]
    <2>1. /\ a \o b \in Seq(T) /\ Len(a \o b) = Len(a) + Len(b)
          /\ \A k \in 1 .. Len(a) + Len(b) :
                (a \o b)[k] = IF k <= Len(a) THEN a[k] ELSE b[k - Len(a)]
      BY <1>2, <1>3
    <2>2. Len(a) + Len(b) = Len(s) - 1
      BY <1>1, <1>2, <1>3
    <2> QED
      BY <1>2, <2>1, <2>2
  <1>6. ASSUME NEW k \in 1 .. Len(s) - 1
        PROVE  (a \o b)[k] = IF k < i THEN s[k] ELSE s[k + 1]
    <2>1. CASE k < i
      BY <2>1, <1>1, <1>2, <1>5
    <2>2. CASE ~(k < i)
      <3>1. k - (i - 1) \in 1 .. Len(s) - i /\ (k - (i - 1)) + i = k + 1
        BY <2>2, <1>1
      <3>2. b[k - (i - 1)] = s[k + 1]
        BY <3>1, <1>3
      <3> QED
        BY <2>2, <3>2, <1>1, <1>5
    <2> QED
      BY <2>1, <2>2
  <1> QED
    BY <1>4, <1>5, <1>6

Logs == Seq(Versions \X Nat)

\* The entry of the version is gone, and the others are there once.
LEMMA StrippedLog ==
    ASSUME NEW log \in Logs, OneEntry(log), NEW v \in Versions
    PROVE  /\ Stripped(log, v) \in Logs /\ OneEntry(Stripped(log, v))
           /\ \A k \in DOMAIN Stripped(log, v) : Stripped(log, v)[k][1] # v
  <1> DEFINE own == {i \in DOMAIN log : log[i][1] = v}
  <1>1. CASE own = {}
    BY <1>1 DEF Stripped, OneEntry
  <1>2. CASE own # {}
    <2>1. PICK i \in own : TRUE
      BY <1>2
    <2>2. \A k \in own : k = i
      BY <2>1 DEF OneEntry
    <2>3. (CHOOSE j \in own : \A k \in own : j <= k) = i
      <3>1. i \in Nat
        BY <2>1 DEF Logs
      <3> QED
        BY <2>1, <2>2, <3>1
    <2>4. Stripped(log, v) = RemoveAt(log, i)
      BY <1>2, <2>3 DEF Stripped
    <2> DEFINE r == RemoveAt(log, i)
    <2>5. /\ r \in Logs /\ Len(r) = Len(log) - 1 /\ i \in 1 .. Len(log) /\ Len(log) \in Nat
          /\ \A k \in 1 .. Len(log) - 1 : r[k] = IF k < i THEN log[k] ELSE log[k + 1]
      BY <2>1, RemovedAt DEF Logs
    <2> HIDE DEF r
    <2>6. DOMAIN r = 1 .. Len(log) - 1 /\ DOMAIN log = 1 .. Len(log)
      BY <2>5 DEF Logs
    <2> DEFINE from(k) == IF k < i THEN k ELSE k + 1
    <2>7. \A k \in DOMAIN r : from(k) \in DOMAIN log /\ from(k) # i /\ r[k] = log[from(k)]
      BY <2>5, <2>6
    <2>8. \A k, m \in DOMAIN r : from(k) = from(m) => k = m
      BY <2>5, <2>6
    <2> HIDE DEF from
    <2>9. OneEntry(r)
      BY <2>7, <2>8 DEF OneEntry
    <2>10. \A k \in DOMAIN r : r[k][1] # v
      BY <2>2, <2>7
    <2> QED
      BY <2>4, <2>5, <2>9, <2>10 DEF r
  <1> QED
    BY <1>1, <1>2

LEMMA Prepended ==
    ASSUME NEW T, NEW x \in T, NEW s \in Seq(T)
    PROVE  /\ <<x>> \o s \in Seq(T) /\ Len(<<x>> \o s) = Len(s) + 1 /\ (<<x>> \o s)[1] = x
           /\ \A k \in 2 .. Len(s) + 1 : (<<x>> \o s)[k] = s[k - 1]
  <1>1. <<x>> \in Seq(T) /\ Len(<<x>>) = 1 /\ <<x>>[1] = x
    OBVIOUS
  <1>2. <<x>> \o s \in Seq(T) /\ Len(<<x>> \o s) = Len(s) + 1
    BY <1>1
  <1>3. \A k \in 1 .. Len(s) + 1 : (<<x>> \o s)[k] = IF k <= 1 THEN <<x>>[k] ELSE s[k - 1]
    BY <1>1
  <1>4. Len(s) \in Nat
    OBVIOUS
  <1>5. (<<x>> \o s)[1] = x
    BY <1>1, <1>3, <1>4
  <1>6. \A k \in 2 .. Len(s) + 1 : (<<x>> \o s)[k] = s[k - 1]
    BY <1>3, <1>4
  <1> QED
    BY <1>2, <1>5, <1>6

\* An entry of a version that has none.
LEMMA EntryAdded ==
    ASSUME NEW log \in Logs, OneEntry(log), NEW v \in Versions, NEW n \in Nat,
           \A k \in DOMAIN log : log[k][1] # v
    PROVE  LET new == << <<v, n>> >> \o log
           IN  new \in Logs /\ OneEntry(new) /\ new # <<>> /\ new[1] = <<v, n>>
  <1> DEFINE new == << <<v, n>> >> \o log
  <1>1. <<v, n>> \in Versions \X Nat
    OBVIOUS
  <1>2. /\ new \in Logs /\ Len(new) = Len(log) + 1 /\ Len(log) \in Nat
        /\ new[1] = <<v, n>> /\ \A k \in 2 .. Len(log) + 1 : new[k] = log[k - 1]
    BY <1>1, Prepended DEF Logs
  <1> HIDE DEF new
  <1>3. DOMAIN new = 1 .. Len(log) + 1 /\ DOMAIN log = 1 .. Len(log)
    BY <1>2 DEF Logs
  <1>4. new # <<>>
    BY <1>2
  <1>5. ASSUME NEW i \in DOMAIN new, NEW k \in DOMAIN new, new[i][1] = new[k][1], i # k PROVE FALSE
    <2>1. \A j \in DOMAIN new : j # 1 => j - 1 \in DOMAIN log /\ new[j] = log[j - 1]
      BY <1>2, <1>3
    <2>2. new[1][1] = v
      BY <1>2
    <2>3. i # 1 /\ k # 1
      BY <1>5, <2>1, <2>2
    <2>4. i - 1 = k - 1
      BY <1>5, <2>1, <2>3 DEF OneEntry
    <2> QED
      BY <1>3, <1>5, <2>4
  <1> QED
    BY <1>2, <1>4, <1>5 DEF OneEntry, new

LEMMA StampedLog ==
    ASSUME NEW log \in Logs, OneEntry(log), build \in Builds
    PROVE  /\ Stamped(log) \in Logs /\ OneEntry(Stamped(log)) /\ Stamped(log) # <<>>
           /\ Stamped(log)[1] = <<build.new, build.run>>
  <1>1. build.new \in Versions /\ build.run \in Nat
    BY DEF Builds
  <1> DEFINE rest == Stripped(log, build.new)
  <1>2. rest \in Logs /\ OneEntry(rest) /\ \A k \in DOMAIN rest : rest[k][1] # build.new
    BY <1>1, StrippedLog
  <1> HIDE DEF rest
  <1>3. LET new == << <<build.new, build.run>> >> \o rest
        IN  new \in Logs /\ OneEntry(new) /\ new # <<>> /\ new[1] = <<build.new, build.run>>
    BY <1>1, <1>2, EntryAdded
  <1> QED
    BY <1>3 DEF Stamped, rest

-----------------------------------------------------------------------------
\* c is b at another step, with what else may have changed.
Moved(c, b, at, staged, raced, old) ==
    /\ c \in Builds /\ c.at = at /\ c.staged = staged /\ c.raced = raced /\ c.old = old
    /\ c.new = b.new /\ c.record = b.record /\ c.run = b.run

LEMMA BuildUpdates ==
    ASSUME NEW b \in Builds, NEW at \in BuildSteps, NEW t \in Trees, NEW old \in Indexes
    PROVE  /\ Moved([b EXCEPT !.raced = TRUE], b, b.at, b.staged, TRUE, b.old)
           /\ Moved([b EXCEPT !.at = at], b, at, b.staged, b.raced, b.old)
           /\ Moved([b EXCEPT !.at = at, !.old = old], b, at, b.staged, b.raced, old)
           /\ Moved([b EXCEPT !.staged = t, !.at = at], b, at, t, b.raced, b.old)
  <1>1. Moved([b EXCEPT !.raced = TRUE], b, b.at, b.staged, TRUE, b.old)
    BY DEF Moved, Builds
  <1>2. \A c \in Builds : Moved([c EXCEPT !.at = at], c, at, c.staged, c.raced, c.old)
    BY DEF Moved, Builds
  <1>3. \A c \in Builds : Moved([c EXCEPT !.old = old], c, c.at, c.staged, c.raced, old)
    BY DEF Moved, Builds
  <1>4. Moved([b EXCEPT !.staged = t], b, b.at, t, b.raced, b.old)
    BY DEF Moved, Builds
  <1>5. Moved([b EXCEPT !.at = at, !.old = old], b, at, b.staged, b.raced, old)
    <2> DEFINE c == [b EXCEPT !.at = at]
    <2>1. [b EXCEPT !.at = at, !.old = old] = [c EXCEPT !.old = old]
      OBVIOUS
    <2>2. Moved(c, b, at, b.staged, b.raced, b.old)
      BY <1>2
    <2> HIDE DEF c
    <2>3. Moved([c EXCEPT !.old = old], c, c.at, c.staged, c.raced, old)
      BY <1>3, <2>2 DEF Moved
    <2>4. Moved([c EXCEPT !.old = old], b, at, b.staged, b.raced, old)
      BY <2>2, <2>3 DEF Moved
    <2> QED
      BY <2>1, <2>4
  <1>6. Moved([b EXCEPT !.staged = t, !.at = at], b, at, t, b.raced, b.old)
    <2> DEFINE c == [b EXCEPT !.staged = t]
    <2>1. [b EXCEPT !.staged = t, !.at = at] = [c EXCEPT !.at = at]
      OBVIOUS
    <2>2. Moved(c, b, b.at, t, b.raced, b.old)
      BY <1>4
    <2> HIDE DEF c
    <2>3. Moved([c EXCEPT !.at = at], c, at, c.staged, c.raced, c.old)
      BY <1>2, <2>2 DEF Moved
    <2>4. Moved([c EXCEPT !.at = at], b, at, t, b.raced, b.old)
      BY <2>2, <2>3 DEF Moved
    <2> QED
      BY <2>1, <2>4
  <1> QED
    BY <1>1, <1>2, <1>5, <1>6

LEMMA BuildFields ==
    ASSUME NEW b \in Builds
    PROVE  /\ b.at \in BuildSteps /\ b.new \in Versions /\ b.record \in ReleaseRecords
           /\ b.staged \in Trees /\ b.run \in Nat /\ b.raced \in BOOLEAN /\ b.old \in Indexes
           /\ b.record.fingerprint \in [sha256 : Covered]
           /\ b.record.fingerprint.sha256 \in Covered
           /\ b.record.raced \in BOOLEAN
  BY DEF Builds, ReleaseRecords

\* The tree that a gate or the copying watches is marked when it changes.
LEMMA GateDisturbed ==
    ASSUME ReleaseTypes, GateTells, gate # Absent, gate' = [gate EXCEPT !.raced = TRUE]
    PROVE  gate' \in Gates /\ GateTells'
  <1>1. gate \in Gates
    BY DEF ReleaseTypes
  <1>2. gate' \in Gates /\ gate'.raced /\ gate'.left = gate.left
    BY <1>1 DEF Gates
  <1> QED
    BY <1>2 DEF GateTells

LEMMA UseUpdates ==
    ASSUME NEW u \in Uses, NEW what \in {"edits", "gates", "builds", "kills"}
    PROVE  /\ [u EXCEPT ![what] = @ + 1] \in Uses
           /\ what # "builds" => [u EXCEPT ![what] = @ + 1].builds = u.builds
           /\ what = "builds" => [u EXCEPT ![what] = @ + 1].builds = u.builds + 1
           /\ what # "kills" => [u EXCEPT ![what] = @ + 1].kills = u.kills
           /\ what = "kills" => [u EXCEPT ![what] = @ + 1].kills = u.kills + 1
           /\ u.builds \in Nat /\ u.kills \in Nat
  BY DEF Uses

LEMMA ReleaseHolds == ReleaseInv => ReleasesGated
  <1> SUFFICES ASSUME ReleaseInv PROVE ReleasesGated
    OBVIOUS
  <1>1. ReleaseTypes /\ PublishedTells /\ LogsOnce /\ Ledgers /\ PageFitsVersion
    BY DEF ReleaseInv
  <1>2. OnlyGatedShips
    <2> SUFFICES ASSUME NEW p \in published, ~p.raced
                 PROVE  /\ ~Regresses(p.zip)
                        /\ Fingerprint([p.zip EXCEPT !.log = p.record.fingerprint.sha256.log]) =
                                p.record.fingerprint
                        /\ p.zip.version = p.version
      BY DEF OnlyGatedShips
    <2>1. p.zip \in Trees /\ p.record \in ReleaseRecords
      BY <1>1 DEF ReleaseTypes, PageEntries
    <2>2. /\ ~Regresses(p.zip) /\ p.zip.version = p.version
          /\ SameButLog(p.zip, p.record.fingerprint.sha256)
      BY <1>1 DEF PublishedTells, PassedGate
    <2> DEFINE t == p.record.fingerprint.sha256
    <2>3. t \in Covered /\ p.record.fingerprint = [sha256 |-> t]
      BY <2>1 DEF ReleaseRecords
    <2> DEFINE z == [p.zip EXCEPT !.log = t.log]
    <2>4. /\ z.body = t.body /\ z.builder = t.builder /\ z.page = t.page
          /\ z.version = t.version /\ z.log = t.log
      BY <2>1, <2>2 DEF SameButLog, Trees
    <2>5. t = [body |-> t.body, builder |-> t.builder, page |-> t.page,
               version |-> t.version, log |-> t.log]
      BY <2>3 DEF Covered
    <2> HIDE DEF z, t
    <2>6. Fingerprint(z) = [sha256 |-> t]
      BY <2>4, <2>5 DEF Fingerprint
    <2> QED
      BY <2>2, <2>3, <2>6 DEF z, t
  <1>3. OneEntryEach
    BY <1>1 DEF LogsOnce, OneEntryEach, OneEntry
  <1>4. LedgersAgree
    <2> SUFFICES ASSUME build = Absent, used.kills = 0
                 PROVE  /\ index = sidecars
                        /\ \A p \in published : index[p.version] # Absent
                        /\ Cardinality(published) = Len(history)
      BY DEF LedgersAgree
    <2>1. /\ index \in Indexes /\ sidecars \in Indexes /\ \A v \in Versions : index[v] = sidecars[v]
          /\ \A p \in published : index[p.version] # Absent
          /\ Cardinality(published) = Len(history) + 0
      BY <1>1 DEF Ledgers, Indexed, ReleaseTypes
    <2>2. index = sidecars
      BY <2>1 DEF Indexes
    <2>3. Len(history) \in Nat
      BY <1>1 DEF ReleaseTypes
    <2> QED
      BY <2>1, <2>2, <2>3
  <1> QED
    BY <1>1, <1>2, <1>3, <1>4 DEF ReleasesGated

LEMMA ReleaseStart == ReleaseInit => ReleaseInv
  <1> SUFFICES ASSUME ReleaseInit PROVE ReleaseInv
    OBVIOUS
  <1>1. PICK v \in Versions, b \in Versions :
            tree = [body |-> "first", aside |-> "first", builder |-> b, page |-> v, version |-> v,
                    log |-> << <<v, 0>> >>]
    BY DEF ReleaseInit
  <1>2. /\ << <<v, 0>> >> \in Logs /\ OneEntry(<< <<v, 0>> >>)
    BY DEF Logs, OneEntry
  <1>3. tree \in Trees /\ tree.log = << <<v, 0>> >>
    <2>1. "first" \in Bodies /\ "first" \in Asides
      BY DEF Bodies, Asides
    <2> QED
      BY <1>1, <1>2, <2>1 DEF Trees, Logs
  <1>4. NoEntries \in Indexes /\ NoEntries \in Zips /\ \A w \in Versions : NoEntries[w] = Absent
    BY ReleaseAssumption, IndexIsNotTorn DEF NoEntries
  <1>5. used \in Uses /\ published = {} /\ history = <<>>
    BY DEF ReleaseInit, Uses
  <1>6. ReleaseTypes
    <2>1. history \in Seq(Versions \X Nat)
      BY <1>5
    <2> QED
      BY <1>3, <1>4, <1>5, <2>1 DEF ReleaseInit, ReleaseTypes
  <1>7. GateTells /\ RecordTells /\ BuildTells
    BY DEF ReleaseInit, GateTells, RecordTells, BuildTells
  <1>8. PublishedTells
    BY <1>5, FS_EmptySet DEF PublishedTells
  <1>9. LogsOnce /\ PageFitsVersion
    BY <1>2, <1>3, <1>4 DEF ReleaseInit, LogsOnce, PageFitsVersion
  <1>10. Ledgers
    BY <1>4, <1>5, FS_EmptySet DEF ReleaseInit, Ledgers, Indexed
  <1> QED
    BY <1>6, <1>7, <1>8, <1>9, <1>10 DEF ReleaseInv

-----------------------------------------------------------------------------
\* The run of the builder as it is, or marked.
LEMMA EditStep ==
    ASSUME ReleaseInv, NEW t \in Trees, OneEntry(t.log), Edit(t)
    PROVE  ReleaseInv'
  <1>1. /\ ReleaseTypes /\ GateTells /\ RecordTells /\ BuildTells /\ PublishedTells /\ LogsOnce
        /\ PageFitsVersion /\ Ledgers
    BY DEF ReleaseInv
  <1>2. tree' = t /\ UNCHANGED <<record, zips, sidecars, index, history, published>>
    BY DEF Edit
  <1>3. used' \in Uses /\ used'.builds = used.builds /\ used'.kills = used.kills
    BY <1>1, UseUpdates DEF ReleaseTypes, Edit, Count
  <1>4. gate' \in Gates \cup {Absent} /\ GateTells'
    <2>1. CASE gate = Absent
      BY <2>1 DEF Edit, GateTells
    <2>2. CASE gate # Absent
      BY <1>1, <2>2, GateDisturbed DEF Edit
    <2> QED
      BY <2>1, <2>2
  <1>5. /\ build' \in Builds \cup {Absent}
        /\ build' # Absent =>
            /\ build # Absent /\ build'.at = build.at /\ build'.staged = build.staged
            /\ build'.old = build.old /\ build'.new = build.new /\ build'.record = build.record
            /\ build'.run = build.run
            /\ ~build'.raced => ~build.raced /\ ~Staging
        /\ build # Absent => build' # Absent
    <2>1. CASE ~Staging
      BY <1>1, <2>1 DEF Edit, ReleaseTypes
    <2>2. CASE Staging
      <3>1. build \in Builds
        BY <1>1, <2>2 DEF ReleaseTypes, Staging
      <3>2. Moved(build', build, build.at, build.staged, TRUE, build.old)
        <4>1. Moved([build EXCEPT !.raced = TRUE], build, build.at, build.staged, TRUE, build.old)
          BY <3>1, BuildFields, BuildUpdates
        <4> QED
          BY <2>2, <4>1 DEF Edit
      <3> QED
        BY <2>2, <3>2, NotAbsent DEF Moved, Staging
    <2> QED
      BY <2>1, <2>2
  <1>6. ReleaseTypes'
    BY <1>1, <1>2, <1>3, <1>4, <1>5 DEF ReleaseTypes
  <1>7. RecordTells' /\ PublishedTells' /\ PageFitsVersion'
    BY <1>1, <1>2, <1>3 DEF RecordTells, PublishedTells, PageFitsVersion
  <1>8. BuildTells'
    <2> SUFFICES ASSUME build' # Absent PROVE BuildTells'
      BY DEF BuildTells
    <2>1. Staging' <=> Staging
      BY <1>5 DEF Staging
    <2> QED
      BY <1>1, <1>2, <1>3, <1>5, <2>1 DEF BuildTells
  <1>9. LogsOnce'
    BY <1>1, <1>2 DEF LogsOnce
  <1>10. Ledgers'
    BY <1>1, <1>2, <1>3, <1>5 DEF Ledgers, Indexed
  <1> QED
    BY <1>4, <1>6, <1>7, <1>8, <1>9, <1>10 DEF ReleaseInv

LEMMA EditingStep == ReleaseInv /\ Editing => ReleaseInv'
  <1> SUFFICES ASSUME ReleaseInv, Editing PROVE ReleaseInv'
    OBVIOUS
  <1>1. tree \in Trees /\ OneEntry(tree.log) /\ tree.version \in Versions /\ tree.log \in Logs
    BY DEF ReleaseInv, ReleaseTypes, LogsOnce, Trees, Logs
  <1>2. ASSUME NEW b \in Bodies, Edit([tree EXCEPT !.body = b]) PROVE ReleaseInv'
    <2>1. [tree EXCEPT !.body = b] \in Trees /\ [tree EXCEPT !.body = b].log = tree.log
      BY <1>1 DEF Trees
    <2> QED
      BY <1>1, <1>2, <2>1, EditStep
  <1>3. ASSUME NEW v \in Versions, Edit([tree EXCEPT !.version = v]) PROVE ReleaseInv'
    <2>1. [tree EXCEPT !.version = v] \in Trees /\ [tree EXCEPT !.version = v].log = tree.log
      BY <1>1 DEF Trees
    <2> QED
      BY <1>1, <1>3, <2>1, EditStep
  <1>4. ASSUME NEW v \in Versions, Edit([tree EXCEPT !.builder = v]) PROVE ReleaseInv'
    <2>1. [tree EXCEPT !.builder = v] \in Trees /\ [tree EXCEPT !.builder = v].log = tree.log
      BY <1>1 DEF Trees
    <2> QED
      BY <1>1, <1>4, <2>1, EditStep
  <1>7. ASSUME NEW a \in Asides, Edit([tree EXCEPT !.aside = a]) PROVE ReleaseInv'
    <2>1. [tree EXCEPT !.aside = a] \in Trees /\ [tree EXCEPT !.aside = a].log = tree.log
      BY <1>1 DEF Trees
    <2> QED
      BY <1>1, <1>7, <2>1, EditStep
  <1>5. CASE SyncPage
    <2>1. /\ [tree EXCEPT !.page = tree.version] \in Trees
          /\ [tree EXCEPT !.page = tree.version].log = tree.log
      BY <1>1 DEF Trees
    <2>2. Edit([tree EXCEPT !.page = tree.version])
      BY <1>5 DEF SyncPage
    <2> QED
      BY <1>1, <2>1, <2>2, EditStep
  <1>6. CASE AddEntry
    <2>1. PICK v \in Versions : /\ \A i \in DOMAIN tree.log : tree.log[i][1] # v
                                /\ Edit([tree EXCEPT !.log = << <<v, 0>> >> \o @])
      BY <1>6 DEF AddEntry
    <2> DEFINE new == << <<v, 0>> >> \o tree.log
    <2>2. new \in Logs /\ OneEntry(new)
      BY <1>1, <2>1, EntryAdded
    <2>3. Edit([tree EXCEPT !.log = new])
      BY <2>1
    <2> HIDE DEF new
    <2>4. [tree EXCEPT !.log = new] \in Trees /\ [tree EXCEPT !.log = new].log = new
      BY <1>1, <2>2 DEF Trees, Logs
    <2> QED
      BY <2>2, <2>3, <2>4, EditStep
  <1> QED
    BY <1>2, <1>3, <1>4, <1>5, <1>6, <1>7
       DEF Editing, EditBody, EditAside, BumpVersion, BumpBuilder

-----------------------------------------------------------------------------
\* The gate.
LEMMA Remaining ==
    /\ Packages # <<>> /\ Tail(Packages) # Packages /\ Tail(Tail(Packages)) # Packages
    /\ \A l \in Lefts : l # <<>> => Tail(l) \in Lefts /\ Tail(l) # Packages
  <1>1. Packages # <<>>
    BY DEF Packages
  <1>2. Tail(Packages) = <<"tests/integration", "tests/validation">>
    BY DEF Packages
  <1>3. Tail(<<"tests/integration", "tests/validation">>) = <<"tests/validation">>
    OBVIOUS
  <1>4. Tail(<<"tests/validation">>) = <<>>
    OBVIOUS
  <1>5. <<"tests/integration", "tests/validation">> # Packages /\ <<"tests/validation">> # Packages
    BY DEF Packages
  <1> QED
    BY <1>1, <1>2, <1>3, <1>4, <1>5 DEF Lefts

\* What a step of the gate leaves alone.
LEMMA GateOnly ==
    ASSUME ReleaseInv, used' \in Uses, used'.builds = used.builds, used'.kills = used.kills,
           gate' \in Gates \cup {Absent}, GateTells', record' \in ReleaseRecords \cup {Absent},
           RecordTells', UNCHANGED <<tree, build, zips, sidecars, index, history, published>>
    PROVE  ReleaseInv'
  <1>1. /\ ReleaseTypes /\ BuildTells /\ PublishedTells /\ LogsOnce /\ PageFitsVersion /\ Ledgers
    BY DEF ReleaseInv
  <1>2. ReleaseTypes'
    BY <1>1 DEF ReleaseTypes
  <1>3. BuildTells'
    BY <1>1 DEF BuildTells, Staging
  <1>4. PublishedTells' /\ LogsOnce' /\ PageFitsVersion'
    BY <1>1 DEF PublishedTells, LogsOnce, PageFitsVersion
  <1>5. Ledgers'
    BY <1>1 DEF Ledgers, Indexed
  <1> QED
    BY <1>2, <1>3, <1>4, <1>5 DEF ReleaseInv

LEMMA GatingStep == ReleaseInv /\ Gating => ReleaseInv'
  <1> SUFFICES ASSUME ReleaseInv, Gating PROVE ReleaseInv'
    OBVIOUS
  <1>1. ReleaseTypes /\ GateTells /\ RecordTells
    BY DEF ReleaseInv
  <1>2. /\ used \in Uses /\ tree \in Trees /\ record \in ReleaseRecords \cup {Absent}
        /\ tree.version \in Versions /\ Fingerprint(tree) \in [sha256 : Covered]
        /\ (Regresses(tree) <=> Regresses(Fingerprint(tree).sha256))
        /\ UNCHANGED <<tree, build, zips, sidecars, index, history, published>>
    <2>1. used \in Uses /\ tree \in Trees /\ record \in ReleaseRecords \cup {Absent}
      BY <1>1 DEF ReleaseTypes
    <2>2. tree.version \in Versions
      BY <2>1 DEF Trees
    <2>3. UNCHANGED <<tree, build, zips, sidecars, index, history, published>>
      BY DEF Gating, GateStart, GatePackage, GateRecords, GateGivesUp
    <2> QED
      BY <2>1, <2>2, <2>3, FingerprintCovers
  <1>3. CASE GateStart
    <2>1. used' \in Uses /\ used'.builds = used.builds /\ used'.kills = used.kills
      BY <1>2, <1>3, UseUpdates DEF GateStart, Count
    <2>2. gate' = [fingerprint |-> Fingerprint(tree), gated |-> tree, version |-> tree.version,
                   left |-> Packages, failing |-> FALSE, raced |-> FALSE]
      BY <1>3 DEF GateStart
    <2>3. /\ gate' \in Gates /\ gate'.left = Packages /\ gate'.fingerprint = Fingerprint(tree)
          /\ ~gate'.failing
      BY <1>2, <2>2 DEF Gates, Lefts
    <2>4. GateTells' /\ RecordTells'
      BY <1>1, <1>2, <1>3, <2>3 DEF GateTells, RecordTells, GateStart
    <2> QED
      BY <1>2, <1>3, <2>1, <2>3, <2>4, GateOnly DEF GateStart
  <1>4. CASE GatePackage
    <2>1. gate \in Gates /\ gate # Absent /\ gate.left # <<>> /\ used' = used /\ record' = record
      BY <1>1, <1>4 DEF ReleaseTypes, GatePackage
    <2>2. gate.left \in Lefts /\ gate.failing \in BOOLEAN /\ gate.raced \in BOOLEAN
      BY <2>1 DEF Gates
    <2>3. Tail(gate.left) \in Lefts /\ Tail(gate.left) # Packages
      BY <2>1, <2>2, Remaining
    <2> DEFINE y == (gate.failing \/ Regresses(tree))
               l == Tail(gate.left)
    <2>4. gate' = [gate EXCEPT !.left = l, !.failing = y]
      BY <1>4 DEF GatePackage
    <2>5. l \in Lefts /\ y \in BOOLEAN /\ (y <=> gate.failing \/ Regresses(tree))
      BY <2>3
    <2> HIDE DEF y, l
    <2>6. /\ gate' \in Gates /\ gate'.left = l /\ gate'.failing = y /\ gate'.raced = gate.raced
          /\ gate'.fingerprint = gate.fingerprint
      <3> DEFINE k == [gate EXCEPT !.left = l]
      <3>1. gate' = [k EXCEPT !.failing = y]
        BY <2>4
      <3>2. k \in Gates /\ k.left = l /\ k.raced = gate.raced /\ k.fingerprint = gate.fingerprint
        BY <2>1, <2>5 DEF Gates
      <3> HIDE DEF k
      <3>3. /\ [k EXCEPT !.failing = y] \in Gates /\ [k EXCEPT !.failing = y].left = k.left
            /\ [k EXCEPT !.failing = y].failing = y /\ [k EXCEPT !.failing = y].raced = k.raced
            /\ [k EXCEPT !.failing = y].fingerprint = k.fingerprint
        BY <2>5, <3>2 DEF Gates
      <3> QED
        BY <3>1, <3>2, <3>3
    <2>7. GateTells' /\ RecordTells'
      BY <1>1, <1>2, <2>1, <2>3, <2>5, <2>6 DEF GateTells, RecordTells, l
    <2> QED
      BY <1>2, <2>1, <2>6, <2>7, GateOnly
  <1>5. CASE GateRecords
    <2>1. gate \in Gates /\ gate # Absent /\ gate.left = <<>> /\ used' = used /\ gate' = Absent
      BY <1>1, <1>5 DEF ReleaseTypes, GateRecords
    <2>2. record' = [verdict |-> Verdict(gate.failing), version |-> gate.version,
                     fingerprint |-> gate.fingerprint, gated |-> gate.gated, raced |-> gate.raced]
      BY <1>5 DEF GateRecords
    <2>3. /\ gate.version \in Versions /\ gate.fingerprint \in [sha256 : Covered]
          /\ gate.gated \in Trees /\ gate.raced \in BOOLEAN
      BY <2>1 DEF Gates
    <2>4. Verdict(gate.failing) \in {"GREEN", "RED"} /\ (Verdict(gate.failing) = "GREEN" => ~gate.failing)
      BY DEF Verdict
    <2>5. record' \in ReleaseRecords
      BY <2>2, <2>3, <2>4 DEF ReleaseRecords
    <2>6. ~gate.raced => gate.fingerprint = Fingerprint(tree) /\ (gate.failing <=> Regresses(tree))
      BY <1>1, <2>1, Remaining DEF GateTells
    <2>7. GateTells' /\ RecordTells'
      BY <1>2, <2>1, <2>2, <2>4, <2>6 DEF GateTells, RecordTells, Passed
    <2> QED
      BY <1>2, <2>1, <2>5, <2>7, GateOnly
  <1>6. CASE GateGivesUp
    <2>1. gate' = Absent /\ used' = used /\ record' = record
      BY <1>6 DEF GateGivesUp
    <2>2. GateTells' /\ RecordTells'
      BY <1>1, <2>1 DEF GateTells, RecordTells
    <2> QED
      BY <1>2, <2>1, <2>2, GateOnly
  <1> QED
    BY <1>3, <1>4, <1>5, <1>6 DEF Gating

-----------------------------------------------------------------------------
\* The builder.
LEMMA Building1 ==
    ASSUME ReleaseInv, build # Absent
    PROVE  /\ build \in Builds /\ build.at \in BuildSteps /\ build.new \in Versions
           /\ build.record \in ReleaseRecords /\ build.staged \in Trees /\ build.run \in Nat
           /\ build.raced \in BOOLEAN /\ build.old \in Indexes
           /\ build.record.fingerprint.sha256 \in Covered
           /\ tree \in Trees /\ tree.log \in Logs /\ OneEntry(tree.log)
           /\ tree.body \in Bodies /\ tree.builder \in Versions
           /\ tree.page \in Versions /\ tree.version \in Versions /\ tree.aside \in Asides
           /\ zips \in Zips /\ sidecars \in Indexes /\ index \in Indexes \cup {TornIndex}
           /\ used \in Uses /\ history \in Seq(Versions \X Nat) /\ published \in SUBSET PageEntries
  <1>1. build \in Builds /\ ReleaseTypes /\ LogsOnce
    BY DEF ReleaseInv, ReleaseTypes
  <1>2. tree \in Trees
    BY <1>1 DEF ReleaseTypes
  <1>3. /\ tree.log \in Logs /\ tree.body \in Bodies /\ tree.builder \in Versions
        /\ tree.page \in Versions /\ tree.version \in Versions /\ tree.aside \in Asides
    BY <1>2 DEF Trees, Logs
  <1> QED
    BY <1>1, <1>2, <1>3, BuildFields DEF ReleaseTypes, LogsOnce

Counting(b) == b # Absent /\ b.at \in {"index", "indexing", "changelog", "history"}

\* The ledgers are not touched before the index is read.
LEMMA LedgersStay ==
    ASSUME Ledgers, UNCHANGED <<index, sidecars, published, history>>, ~Counting(build),
           ~Counting(build'), used'.kills = 0 => used.kills = 0
    PROVE  Ledgers'
  <1>1. Indexed' = Indexed
    BY DEF Indexed, Counting
  <1> QED
    BY <1>1 DEF Ledgers, Counting

LEMMA BuildStartStep == ReleaseInv /\ BuildStart => ReleaseInv'
  <1> SUFFICES ASSUME ReleaseInv, BuildStart PROVE ReleaseInv'
    OBVIOUS
  <1>1. /\ ReleaseTypes /\ GateTells /\ RecordTells /\ BuildTells /\ PublishedTells /\ LogsOnce
        /\ PageFitsVersion /\ Ledgers
    BY DEF ReleaseInv
  <1>2. build = Absent /\ UNCHANGED <<tree, record, gate, zips, sidecars, index, history, published>>
    BY DEF BuildStart
  <1>3. /\ used' \in Uses /\ used'.builds = used.builds + 1 /\ used'.kills = used.kills
        /\ used.builds \in Nat
    BY <1>1, UseUpdates DEF ReleaseTypes, BuildStart, Count
  <1>4. GateTells' /\ RecordTells' /\ LogsOnce' /\ PageFitsVersion'
    BY <1>1, <1>2 DEF GateTells, RecordTells, LogsOnce, PageFitsVersion
  <1>5. \A p \in published : p.zip.log[1][2] \in Nat
    <2> SUFFICES ASSUME NEW p \in published PROVE p.zip.log[1][2] \in Nat
      OBVIOUS
    <2>1. p.zip.log \in Seq(Versions \X Nat) /\ p.zip.log # <<>>
      BY <1>1 DEF ReleaseTypes, PageEntries, Trees, PublishedTells
    <2>2. p.zip.log[1] \in Versions \X Nat
      BY <2>1
    <2> QED
      BY <2>2
  <1>6. \A p \in published : p.zip.log[1][2] < used.builds + 1 /\ p.zip.log[1][2] <= used'.builds
    BY <1>1, <1>3, <1>5 DEF PublishedTells
  <1>7. PublishedTells'
    BY <1>1, <1>2, <1>6 DEF PublishedTells
  <1>8. CASE ~RecordHolds(tree.builder)
    <2>1. build' = Absent
      BY <1>8 DEF BuildStart
    <2>2. ReleaseTypes'
      BY <1>1, <1>2, <1>3, <2>1 DEF ReleaseTypes
    <2>3. BuildTells'
      BY <2>1 DEF BuildTells
    <2>4. Ledgers'
      BY <1>1, <1>2, <1>3, <2>1, LedgersStay DEF Counting
    <2> QED
      BY <1>4, <1>7, <2>2, <2>3, <2>4 DEF ReleaseInv
  <1>9. CASE RecordHolds(tree.builder)
    <2>1. /\ record \in ReleaseRecords /\ record # Absent /\ record.verdict = "GREEN"
          /\ record.fingerprint = Fingerprint(tree) /\ tree.version = tree.builder
      BY <1>1, <1>9 DEF RecordHolds, ReleaseTypes
    <2>2. /\ tree \in Trees /\ tree.builder \in Versions /\ record.raced \in BOOLEAN
          /\ OneEntry(tree.log)
      BY <1>1, <2>1 DEF ReleaseTypes, Trees, ReleaseRecords, LogsOnce
    <2>3. build' = [at |-> "app", new |-> tree.builder, record |-> record, staged |-> tree,
                    run |-> used.builds + 1, raced |-> record.raced, old |-> NoEntries]
      BY <1>9 DEF BuildStart
    <2>4. NoEntries \in Indexes /\ "app" \in BuildSteps /\ used.builds + 1 \in Nat
      BY <1>3, ReleaseAssumption, IndexIsNotTorn DEF BuildSteps
    <2>5. build' \in Builds
      BY <2>1, <2>2, <2>3, <2>4 DEF Builds
    <2>6. ReleaseTypes'
      BY <1>1, <1>2, <1>3, <2>5 DEF ReleaseTypes
    <2>7. /\ build'.at = "app" /\ build'.new = tree.builder /\ build'.record = record
          /\ build'.staged = tree /\ build'.run = used.builds + 1 /\ build'.raced = record.raced
      BY <2>3
    <2>8. Staging' /\ build' # Absent
      BY <2>5, <2>7, NotAbsent DEF Staging
    <2>9. ~record.raced => Passed(record)
      BY <1>1, <2>1 DEF RecordTells
    <2>10. /\ SameButLog(tree, record.fingerprint.sha256)
           /\ record.fingerprint.sha256.version = tree.builder
      BY <2>1, <2>2, FingerprintCovers
    <2>11. BuildTells'
      BY <1>2, <1>3, <1>6, <2>1, <2>2, <2>4, <2>7, <2>8, <2>9, <2>10 DEF BuildTells
    <2>12. Ledgers'
      BY <1>1, <1>2, <1>3, <2>7, LedgersStay DEF Counting
    <2> QED
      BY <1>4, <1>7, <2>6, <2>11, <2>12 DEF ReleaseInv
  <1> QED
    BY <1>8, <1>9

\* One directory after the other.
LEMMA Copied ==
    ASSUME ReleaseInv, Staging, NEW at \in {"scripts", "web", "root", "unlink"}, NEW s \in Trees,
           Moved(build', build, at, s, build.raced, build.old), OneEntry(s.log),
           ~build.raced => SameButLog(s, build.record.fingerprint.sha256),
           at = "unlink" => s.log # <<>> /\ s.log[1] = <<build.new, build.run>>,
           UNCHANGED <<tree, record, gate, zips, sidecars, index, history, published, used>>
    PROVE  ReleaseInv'
  <1>1. /\ ReleaseTypes /\ GateTells /\ RecordTells /\ BuildTells /\ PublishedTells /\ LogsOnce
        /\ PageFitsVersion /\ Ledgers
    BY DEF ReleaseInv
  <1>2. /\ build # Absent /\ build' # Absent /\ build' \in Builds /\ build'.at = at /\ build'.staged = s
        /\ build'.raced = build.raced /\ build'.new = build.new /\ build'.record = build.record
        /\ build'.run = build.run /\ build.at \in {"app", "scripts", "web", "root"}
    BY NotAbsent DEF Moved, Staging
  <1>3. ReleaseTypes'
    BY <1>1, <1>2 DEF ReleaseTypes
  <1>4. GateTells' /\ RecordTells' /\ PublishedTells' /\ LogsOnce' /\ PageFitsVersion'
    BY <1>1 DEF GateTells, RecordTells, PublishedTells, LogsOnce, PageFitsVersion
  <1>5. Staging' <=> at # "unlink"
    BY <1>2 DEF Staging
  <1>6. BuildTells'
    BY <1>1, <1>2, <1>5 DEF BuildTells
  <1>7. Ledgers'
    BY <1>1, <1>2, LedgersStay DEF Counting
  <1> QED
    BY <1>3, <1>4, <1>6, <1>7 DEF ReleaseInv

LEMMA StageStep == ReleaseInv /\ (StageApp \/ StageScripts \/ StageWeb \/ StageRoot) => ReleaseInv'
  <1> SUFFICES ASSUME ReleaseInv, StageApp \/ StageScripts \/ StageWeb \/ StageRoot
               PROVE  ReleaseInv'
    OBVIOUS
  <1>1. /\ build # Absent /\ Staging
        /\ UNCHANGED <<tree, record, gate, zips, sidecars, index, history, published, used>>
    BY DEF StageApp, StageScripts, StageWeb, StageRoot, AtStep, Staging
  <1>2. /\ build \in Builds /\ build.staged \in Trees /\ build.old \in Indexes
        /\ tree.log \in Logs /\ OneEntry(tree.log) /\ tree.body \in Bodies
        /\ tree.builder \in Versions /\ tree.page \in Versions /\ tree.version \in Versions
        /\ tree.aside \in Asides
    BY <1>1, Building1
  <1> DEFINE t == build.record.fingerprint.sha256
             w == build.staged
  <1>3. OneEntry(w.log) /\ (~build.raced => SameButLog(w, t) /\ SameButLog(tree, t))
    BY <1>1 DEF ReleaseInv, BuildTells
  <1>4. {"scripts", "web", "root", "unlink"} \subseteq BuildSteps
    BY DEF BuildSteps
  <1> HIDE DEF t, w
  <1>5. CASE StageApp
    <2> DEFINE s == [w EXCEPT !.body = tree.body]
    <2>1. s \in Trees /\ s.log = w.log /\ s.body = tree.body /\ s.builder = w.builder
          /\ s.page = w.page /\ s.version = w.version
      BY <1>2 DEF Trees, w
    <2>2. build' = [build EXCEPT !.staged = s, !.at = "scripts"]
      BY <1>5 DEF StageApp, w
    <2> HIDE DEF s
    <2>3. Moved(build', build, "scripts", s, build.raced, build.old)
      BY <1>2, <1>4, <2>1, <2>2, BuildUpdates
    <2>4. ~build.raced => SameButLog(s, t)
      BY <1>3, <2>1 DEF SameButLog
    <2> QED
      BY <1>1, <1>3, <2>1, <2>3, <2>4, Copied DEF t
  <1>6. CASE StageScripts
    <2> DEFINE s == [w EXCEPT !.builder = tree.builder]
    <2>1. s \in Trees /\ s.log = w.log /\ s.body = w.body /\ s.builder = tree.builder
          /\ s.page = w.page /\ s.version = w.version
      BY <1>2 DEF Trees, w
    <2>2. build' = [build EXCEPT !.staged = s, !.at = "web"]
      BY <1>6 DEF StageScripts, w
    <2> HIDE DEF s
    <2>3. Moved(build', build, "web", s, build.raced, build.old)
      BY <1>2, <1>4, <2>1, <2>2, BuildUpdates
    <2>4. ~build.raced => SameButLog(s, t)
      BY <1>3, <2>1 DEF SameButLog
    <2> QED
      BY <1>1, <1>3, <2>1, <2>3, <2>4, Copied DEF t
  <1>7. CASE StageWeb
    <2> DEFINE s == [w EXCEPT !.page = tree.page]
    <2>1. s \in Trees /\ s.log = w.log /\ s.body = w.body /\ s.builder = w.builder
          /\ s.page = tree.page /\ s.version = w.version
      BY <1>2 DEF Trees, w
    <2>2. build' = [build EXCEPT !.staged = s, !.at = "root"]
      BY <1>7 DEF StageWeb, w
    <2> HIDE DEF s
    <2>3. Moved(build', build, "root", s, build.raced, build.old)
      BY <1>2, <1>4, <2>1, <2>2, BuildUpdates
    <2>4. ~build.raced => SameButLog(s, t)
      BY <1>3, <2>1 DEF SameButLog
    <2> QED
      BY <1>1, <1>3, <2>1, <2>3, <2>4, Copied DEF t
  <1>8. CASE StageRoot
    <2> DEFINE log == Stamped(tree.log)
               x == [w EXCEPT !.version = tree.version]
               u == [x EXCEPT !.aside = tree.aside]
               s == [u EXCEPT !.log = log]
    <2>1. log \in Logs /\ OneEntry(log) /\ log # <<>> /\ log[1] = <<build.new, build.run>>
      BY <1>2, StampedLog
    <2>2. build' = [build EXCEPT !.staged.version = tree.version, !.staged.aside = tree.aside,
                                 !.staged.log = log, !.at = "unlink"]
      BY <1>8 DEF StageRoot
    <2> HIDE DEF log
    <2>3. [build EXCEPT !.staged.version = tree.version, !.staged.aside = tree.aside,
                        !.staged.log = log, !.at = "unlink"]
          = [build EXCEPT !.staged = s, !.at = "unlink"]
      BY <1>2 DEF w
    <2>4. u \in Trees /\ u.body = w.body /\ u.builder = w.builder /\ u.page = w.page
          /\ u.version = tree.version
      BY <1>2 DEF Trees, w
    <2> HIDE DEF u
    <2>5. s \in Trees /\ s.log = log /\ s.body = u.body /\ s.builder = u.builder
          /\ s.page = u.page /\ s.version = u.version
      BY <2>1, <2>4 DEF Trees, Logs
    <2> HIDE DEF s
    <2>6. Moved(build', build, "unlink", s, build.raced, build.old)
      BY <1>2, <1>4, <2>2, <2>3, <2>5, BuildUpdates
    <2>7. ~build.raced => SameButLog(s, t)
      BY <1>3, <2>4, <2>5 DEF SameButLog
    <2> QED
      BY <1>1, <2>1, <2>5, <2>6, <2>7, Copied DEF t
  <1> QED
    BY <1>5, <1>6, <1>7, <1>8

\* The zip is written, in two steps.
LEMMA ZipStep == ReleaseInv /\ (Unlink \/ WriteZip) => ReleaseInv'
  <1> SUFFICES ASSUME ReleaseInv, Unlink \/ WriteZip PROVE ReleaseInv'
    OBVIOUS
  <1>1. /\ ReleaseTypes /\ GateTells /\ RecordTells /\ BuildTells /\ PublishedTells /\ LogsOnce
        /\ PageFitsVersion /\ Ledgers
    BY DEF ReleaseInv
  <1>2. /\ build # Absent /\ UNCHANGED <<tree, record, gate, sidecars, index, history, published, used>>
        /\ build.at \in {"unlink", "zip"}
    BY DEF Unlink, WriteZip, AtStep
  <1>3. /\ build \in Builds /\ build.staged \in Trees /\ build.new \in Versions /\ build.old \in Indexes
        /\ zips \in Zips
    BY <1>2, Building1
  <1>4. \E at \in {"zip", "check"}, z \in {TornZip, build.staged} :
            /\ Moved(build', build, at, build.staged, build.raced, build.old)
            /\ zips' = [zips EXCEPT ![build.new] = z] /\ (at = "check" => z = build.staged)
    <2>1. "zip" \in BuildSteps /\ "check" \in BuildSteps
      BY DEF BuildSteps
    <2>2. /\ Moved([build EXCEPT !.at = "zip"], build, "zip", build.staged, build.raced, build.old)
      BY <1>3, <2>1, BuildUpdates
    <2>3. /\ Moved([build EXCEPT !.at = "check"], build, "check", build.staged, build.raced, build.old)
      BY <1>3, <2>1, BuildUpdates
    <2>4. CASE Unlink
      BY <2>2, <2>4 DEF Unlink
    <2>5. CASE WriteZip
      BY <2>3, <2>5 DEF WriteZip
    <2> QED
      BY <2>4, <2>5
  <1>5. PICK at \in {"zip", "check"}, z \in Trees \cup {TornZip} :
            /\ Moved(build', build, at, build.staged, build.raced, build.old)
            /\ zips' = [zips EXCEPT ![build.new] = z] /\ z \in {TornZip, build.staged}
            /\ (at = "check" => z = build.staged)
    BY <1>3, <1>4
  <1>6. /\ zips' \in Zips /\ zips'[build.new] = z
        /\ \A v \in Versions : v # build.new => zips'[v] = zips[v]
    BY <1>3, <1>5 DEF Zips
  <1>7. /\ build' # Absent /\ build' \in Builds /\ build'.at = at /\ build'.staged = build.staged
        /\ build'.raced = build.raced /\ build'.new = build.new /\ build'.record = build.record
        /\ build'.run = build.run
    BY <1>5, NotAbsent DEF Moved
  <1>8. ReleaseTypes'
    BY <1>1, <1>2, <1>6, <1>7 DEF ReleaseTypes
  <1>9. GateTells' /\ RecordTells' /\ PublishedTells' /\ PageFitsVersion'
    BY <1>1, <1>2 DEF GateTells, RecordTells, PublishedTells, PageFitsVersion
  <1>10. ~Staging /\ ~Staging'
    BY <1>2, <1>7 DEF Staging
  <1>11. BuildTells'
    BY <1>1, <1>2, <1>5, <1>6, <1>7, <1>10 DEF BuildTells
  <1>12. LogsOnce'
    BY <1>1, <1>2, <1>5, <1>6 DEF LogsOnce, BuildTells
  <1>13. Ledgers'
    BY <1>1, <1>2, <1>7, LedgersStay DEF Counting
  <1> QED
    BY <1>8, <1>9, <1>11, <1>12, <1>13 DEF ReleaseInv

\* The zip is read back: the run goes on, or ends with it or without it.
LEMMA SelfCheckStep == ReleaseInv /\ SelfCheck => ReleaseInv'
  <1> SUFFICES ASSUME ReleaseInv, SelfCheck PROVE ReleaseInv'
    OBVIOUS
  <1>1. /\ ReleaseTypes /\ GateTells /\ RecordTells /\ BuildTells /\ PublishedTells /\ LogsOnce
        /\ PageFitsVersion /\ Ledgers
    BY DEF ReleaseInv
  <1>2. /\ build # Absent /\ build.at = "check"
        /\ UNCHANGED <<tree, record, gate, sidecars, index, history, published, used>>
    BY DEF SelfCheck, AtStep
  <1>3. /\ build \in Builds /\ build.staged \in Trees /\ build.new \in Versions /\ build.old \in Indexes
        /\ zips \in Zips
    BY <1>2, Building1
  <1>4. zips[build.new] = build.staged
    BY <1>1, <1>2 DEF BuildTells
  <1>5. \/ build' = Absent /\ (zips' = zips \/ zips' = [zips EXCEPT ![build.new] = Absent])
        \/ /\ build' = [build EXCEPT !.at = "sidecar"] /\ zips' = zips
           /\ build.staged.page = build.staged.version
    BY <1>4 DEF SelfCheck, Asserted
  <1>6. /\ zips' \in Zips /\ \A v \in Versions : zips'[v] = zips[v] \/ zips'[v] = Absent
    BY <1>3, <1>5 DEF Zips
  <1>7. \/ build' = Absent
        \/ /\ Moved(build', build, "sidecar", build.staged, build.raced, build.old)
           /\ zips' = zips /\ build.staged.page = build.staged.version
    <2>1. "sidecar" \in BuildSteps
      BY DEF BuildSteps
    <2>2. Moved([build EXCEPT !.at = "sidecar"], build, "sidecar", build.staged, build.raced, build.old)
      BY <1>3, <2>1, BuildUpdates
    <2> QED
      BY <1>5, <2>2
  <1>8. /\ build' \in Builds \cup {Absent}
        /\ build' # Absent =>
            /\ build'.at = "sidecar" /\ build'.staged = build.staged
            /\ build'.raced = build.raced /\ build'.new = build.new /\ build'.record = build.record
            /\ build'.run = build.run
            /\ zips' = zips /\ build.staged.page = build.staged.version
    BY <1>7 DEF Moved
  <1>9. ReleaseTypes'
    BY <1>1, <1>2, <1>6, <1>8 DEF ReleaseTypes
  <1>10. GateTells' /\ RecordTells' /\ PublishedTells' /\ PageFitsVersion'
    BY <1>1, <1>2 DEF GateTells, RecordTells, PublishedTells, PageFitsVersion
  <1>11. ~Staging /\ ~Staging'
    BY <1>2, <1>8 DEF Staging
  <1>12. BuildTells'
    BY <1>1, <1>2, <1>4, <1>8, <1>11 DEF BuildTells
  <1>13. LogsOnce'
    BY <1>1, <1>2, <1>6 DEF LogsOnce
  <1>14. Ledgers'
    BY <1>1, <1>2, <1>8, LedgersStay DEF Counting
  <1> QED
    BY <1>9, <1>10, <1>12, <1>13, <1>14 DEF ReleaseInv

\* The .sha256, of a zip that passed the self-check.
LEMMA SidecarStep == ReleaseInv /\ WriteSidecar => ReleaseInv'
  <1> SUFFICES ASSUME ReleaseInv, WriteSidecar PROVE ReleaseInv'
    OBVIOUS
  <1>1. /\ ReleaseTypes /\ GateTells /\ RecordTells /\ BuildTells /\ PublishedTells /\ LogsOnce
        /\ PageFitsVersion /\ Ledgers
    BY DEF ReleaseInv
  <1>2. /\ build # Absent /\ build.at = "sidecar"
        /\ UNCHANGED <<tree, record, gate, zips, index, history, published, used>>
    BY DEF WriteSidecar, AtStep
  <1>3. /\ build \in Builds /\ build.staged \in Trees /\ build.new \in Versions /\ build.old \in Indexes
        /\ sidecars \in Indexes
    BY <1>2, Building1
  <1>4. zips[build.new] = build.staged /\ build.staged.page = build.staged.version
    BY <1>1, <1>2 DEF BuildTells
  <1>5. sidecars' = [sidecars EXCEPT ![build.new] = build.staged]
    BY <1>4 DEF WriteSidecar
  <1>6. /\ sidecars' \in Indexes /\ sidecars'[build.new] = build.staged
        /\ \A v \in Versions : v # build.new => sidecars'[v] = sidecars[v]
    BY <1>3, <1>5 DEF Indexes
  <1>7. Moved(build', build, "index", build.staged, build.raced, build.old)
    <2>1. "index" \in BuildSteps
      BY DEF BuildSteps
    <2>2. Moved([build EXCEPT !.at = "index"], build, "index", build.staged, build.raced, build.old)
      BY <1>3, <2>1, BuildUpdates
    <2> QED
      BY <2>2 DEF WriteSidecar
  <1>8. /\ build' \in Builds /\ build' # Absent /\ build'.at = "index" /\ build'.staged = build.staged
        /\ build'.raced = build.raced /\ build'.new = build.new /\ build'.record = build.record
        /\ build'.run = build.run
    BY <1>7, NotAbsent DEF Moved
  <1>9. ReleaseTypes'
    BY <1>1, <1>2, <1>6, <1>8 DEF ReleaseTypes
  <1>10. GateTells' /\ RecordTells' /\ PublishedTells' /\ LogsOnce'
    BY <1>1, <1>2 DEF GateTells, RecordTells, PublishedTells, LogsOnce
  <1>11. PageFitsVersion'
    BY <1>1, <1>4, <1>6 DEF PageFitsVersion
  <1>12. ~Staging /\ ~Staging'
    BY <1>2, <1>8 DEF Staging
  <1>13. BuildTells'
    BY <1>1, <1>2, <1>4, <1>6, <1>8, <1>12 DEF BuildTells
  <1>14. Ledgers'
    <2>1. Indexed' = Indexed
      BY <1>2, <1>8 DEF Indexed
    <2> QED
      BY <1>1, <1>2, <1>6, <1>8, <2>1 DEF Ledgers
  <1> QED
    BY <1>9, <1>10, <1>11, <1>13, <1>14 DEF ReleaseInv

\* The index is read; while it is written it is torn.
LEMMA OpenIndexStep == ReleaseInv /\ OpenIndex => ReleaseInv'
  <1> SUFFICES ASSUME ReleaseInv, OpenIndex PROVE ReleaseInv'
    OBVIOUS
  <1>1. /\ ReleaseTypes /\ GateTells /\ RecordTells /\ BuildTells /\ PublishedTells /\ LogsOnce
        /\ PageFitsVersion /\ Ledgers
    BY DEF ReleaseInv
  <1>2. /\ build # Absent /\ build.at = "index"
        /\ UNCHANGED <<tree, record, gate, zips, sidecars, history, published, used>>
        /\ index' = TornIndex
    BY DEF OpenIndex, AtStep
  <1>3. /\ build \in Builds /\ build.staged \in Trees /\ build.new \in Versions
        /\ index \in Indexes \cup {TornIndex}
    BY <1>2, Building1
  <1> DEFINE old == IF index = TornIndex THEN NoEntries ELSE index
  <1>4. old \in Indexes /\ (index \in Indexes => old = index)
    BY <1>3, ReleaseAssumption, IndexIsNotTorn
  <1>5. build' = [build EXCEPT !.at = "indexing", !.old = old]
    BY DEF OpenIndex
  <1> HIDE DEF old
  <1>6. Moved(build', build, "indexing", build.staged, build.raced, old)
    <2>1. "indexing" \in BuildSteps
      BY DEF BuildSteps
    <2> QED
      BY <1>3, <1>4, <1>5, <2>1, BuildUpdates
  <1>7. /\ build' \in Builds /\ build' # Absent /\ build'.at = "indexing" /\ build'.staged = build.staged
        /\ build'.raced = build.raced /\ build'.new = build.new /\ build'.record = build.record
        /\ build'.run = build.run /\ build'.old = old
    BY <1>6, NotAbsent DEF Moved
  <1>8. ReleaseTypes'
    BY <1>1, <1>2, <1>7 DEF ReleaseTypes
  <1>9. GateTells' /\ RecordTells' /\ PublishedTells' /\ LogsOnce' /\ PageFitsVersion'
    BY <1>1, <1>2 DEF GateTells, RecordTells, PublishedTells, LogsOnce, PageFitsVersion
  <1>10. ~Staging /\ ~Staging'
    BY <1>2, <1>7 DEF Staging
  <1>11. BuildTells'
    BY <1>1, <1>2, <1>7, <1>10 DEF BuildTells
  <1>12. Ledgers'
    <2>1. Indexed = index /\ Indexed' = old
      BY <1>2, <1>7 DEF Indexed
    <2> QED
      BY <1>1, <1>2, <1>4, <1>7, <2>1 DEF Ledgers
  <1> QED
    BY <1>8, <1>9, <1>11, <1>12 DEF ReleaseInv

\* The entry of the version is replaced, and what it names is on record.
LEMMA WriteIndexStep == ReleaseInv /\ WriteIndex => ReleaseInv'
  <1> SUFFICES ASSUME ReleaseInv, WriteIndex PROVE ReleaseInv'
    OBVIOUS
  <1>1. /\ ReleaseTypes /\ GateTells /\ RecordTells /\ BuildTells /\ PublishedTells /\ LogsOnce
        /\ PageFitsVersion /\ Ledgers
    BY DEF ReleaseInv
  <1>2. /\ build # Absent /\ build.at = "indexing"
        /\ UNCHANGED <<tree, record, gate, zips, sidecars, history, used>>
    BY DEF WriteIndex, AtStep
  <1>3. /\ build \in Builds /\ build.staged \in Trees /\ build.new \in Versions /\ build.old \in Indexes
        /\ build.record \in ReleaseRecords /\ build.raced \in BOOLEAN /\ build.run \in Nat
        /\ sidecars \in Indexes /\ history \in Seq(Versions \X Nat) /\ published \in SUBSET PageEntries
        /\ used \in Uses
    BY <1>2, Building1
  <1>4. ~Staging
    BY <1>2 DEF Staging
  <1>5. /\ sidecars[build.new] = build.staged /\ build.staged.page = build.staged.version
        /\ build.staged.log # <<>> /\ build.staged.log[1] = <<build.new, build.run>>
        /\ build.run <= used.builds /\ \A p \in published : p.zip.log[1][2] < build.run
    BY <1>1, <1>2, <1>4 DEF BuildTells
  <1> DEFINE e == [version |-> build.new, zip |-> build.staged, record |-> build.record,
                   raced |-> build.raced]
  <1>6. /\ index' = [build.old EXCEPT ![build.new] = build.staged] /\ published' = published \cup {e}
    BY <1>5 DEF WriteIndex, Entered
  <1>7. /\ index' \in Indexes /\ index'[build.new] = build.staged
        /\ \A v \in Versions : v # build.new => index'[v] = build.old[v]
    BY <1>3, <1>6 DEF Indexes
  <1>8. /\ e \in PageEntries /\ e.zip = build.staged /\ e.version = build.new /\ e.record = build.record
        /\ e.raced = build.raced
    BY <1>3 DEF PageEntries
  <1> HIDE DEF e
  <1>9. Moved(build', build, "changelog", build.staged, build.raced, build.old)
    <2>1. "changelog" \in BuildSteps
      BY DEF BuildSteps
    <2>2. Moved([build EXCEPT !.at = "changelog"], build, "changelog", build.staged, build.raced, build.old)
      BY <1>3, <2>1, BuildUpdates
    <2> QED
      BY <2>2 DEF WriteIndex
  <1>10. /\ build' \in Builds /\ build' # Absent /\ build'.at = "changelog"
         /\ build'.staged = build.staged
         /\ build'.raced = build.raced /\ build'.new = build.new /\ build'.record = build.record
         /\ build'.run = build.run
    BY <1>9, NotAbsent DEF Moved
  <1>11. ReleaseTypes'
    BY <1>1, <1>2, <1>3, <1>6, <1>7, <1>8, <1>10 DEF ReleaseTypes
  <1>12. GateTells' /\ RecordTells' /\ LogsOnce' /\ PageFitsVersion'
    BY <1>1, <1>2 DEF GateTells, RecordTells, LogsOnce, PageFitsVersion
  <1>13. ~Staging'
    BY <1>10 DEF Staging
  <1>14. BuildTells'
    BY <1>1, <1>2, <1>4, <1>10, <1>13 DEF BuildTells
  <1>15. e \notin published
    <2>1. e.zip.log[1][2] = build.run
      BY <1>5, <1>8
    <2> QED
      BY <1>3, <1>5, <2>1
  <1>16. /\ IsFiniteSet(published') /\ Cardinality(published') = Cardinality(published) + 1
    BY <1>1, <1>6, <1>15, FS_AddElement DEF PublishedTells
  <1>17. PublishedTells'
    <2>1. PassedGate(e)
      <3> SUFFICES ASSUME ~build.raced
                   PROVE  /\ ~Regresses(build.staged) /\ build.staged.version = build.new
                          /\ SameButLog(build.staged, build.record.fingerprint.sha256)
        BY <1>8 DEF PassedGate
      <3>1. /\ Passed(build.record) /\ build.record.fingerprint.sha256.version = build.new
            /\ SameButLog(build.staged, build.record.fingerprint.sha256)
        BY <1>1, <1>2 DEF BuildTells
      <3> QED
        BY <3>1 DEF Passed, Regresses, SameButLog
    <2>2. e.zip.log # <<>> /\ e.zip.log[1][2] <= used.builds
      BY <1>5, <1>8
    <2> QED
      BY <1>1, <1>2, <1>6, <1>16, <2>1, <2>2 DEF PublishedTells
  <1>18. Ledgers'
    <2> SUFFICES ASSUME used'.kills = 0 PROVE Ledgers'
      BY DEF Ledgers
    <2>1. Indexed = build.old /\ Indexed' = index'
      BY <1>2, <1>10 DEF Indexed
    <2>2. /\ \A v \in Versions : v # build.new => build.old[v] = sidecars[v]
          /\ \A p \in published : build.old[p.version] # Absent
          /\ Cardinality(published) = Len(history) + 0
      BY <1>1, <1>2, <2>1 DEF Ledgers
    <2>3. \A v \in Versions : index'[v] = sidecars'[v]
      BY <1>2, <1>5, <1>7, <2>2
    <2>4. build.staged # Absent
      BY <1>3, NotAbsent
    <2>5. \A p \in published' : index'[p.version] # Absent
      BY <1>3, <1>6, <1>7, <1>8, <2>2, <2>4 DEF PageEntries
    <2>6. Cardinality(published') = Len(history') + 1
      <3>1. Len(history) \in Nat
        BY <1>3
      <3> QED
        BY <1>2, <1>16, <2>2, <3>1
    <2> QED
      BY <1>7, <1>10, <2>1, <2>3, <2>5, <2>6 DEF Ledgers
  <1> QED
    BY <1>11, <1>12, <1>14, <1>17, <1>18 DEF ReleaseInv

\* The entry goes into the log of the tree too.
LEMMA StampStep == ReleaseInv /\ StampTree => ReleaseInv'
  <1> SUFFICES ASSUME ReleaseInv, StampTree PROVE ReleaseInv'
    OBVIOUS
  <1>1. /\ ReleaseTypes /\ GateTells /\ RecordTells /\ BuildTells /\ PublishedTells /\ LogsOnce
        /\ PageFitsVersion /\ Ledgers
    BY DEF ReleaseInv
  <1>2. /\ build # Absent /\ build.at = "changelog"
        /\ UNCHANGED <<record, zips, sidecars, index, history, published, used>>
    BY DEF StampTree, AtStep
  <1>3. /\ build \in Builds /\ build.staged \in Trees /\ build.new \in Versions /\ build.old \in Indexes
        /\ tree \in Trees /\ tree.log \in Logs /\ OneEntry(tree.log)
    BY <1>2, Building1
  <1> DEFINE log == Stamped(tree.log)
  <1>4. log \in Logs /\ OneEntry(log)
    BY <1>3, StampedLog
  <1>5. tree' = [tree EXCEPT !.log = log]
    BY DEF StampTree
  <1> HIDE DEF log
  <1>6. tree' \in Trees /\ tree'.log = log
    BY <1>3, <1>4, <1>5 DEF Trees, Logs
  <1>7. gate' \in Gates \cup {Absent} /\ GateTells'
    <2>1. CASE gate = Absent
      BY <2>1 DEF StampTree, GateTells
    <2>2. CASE gate # Absent
      BY <1>1, <2>2, GateDisturbed DEF StampTree
    <2> QED
      BY <2>1, <2>2
  <1>8. Moved(build', build, "history", build.staged, build.raced, build.old)
    <2>1. "history" \in BuildSteps
      BY DEF BuildSteps
    <2>2. Moved([build EXCEPT !.at = "history"], build, "history", build.staged, build.raced, build.old)
      BY <1>3, <2>1, BuildUpdates
    <2> QED
      BY <2>2 DEF StampTree
  <1>9. /\ build' \in Builds /\ build' # Absent /\ build'.at = "history"
        /\ build'.staged = build.staged
        /\ build'.raced = build.raced /\ build'.new = build.new /\ build'.record = build.record
        /\ build'.run = build.run
    BY <1>8, NotAbsent DEF Moved
  <1>10. ReleaseTypes'
    BY <1>1, <1>2, <1>6, <1>7, <1>9 DEF ReleaseTypes
  <1>11. RecordTells' /\ PublishedTells' /\ PageFitsVersion'
    BY <1>1, <1>2 DEF RecordTells, PublishedTells, PageFitsVersion
  <1>12. LogsOnce'
    BY <1>1, <1>2, <1>4, <1>6 DEF LogsOnce
  <1>13. ~Staging /\ ~Staging'
    BY <1>2, <1>9 DEF Staging
  <1>14. BuildTells'
    BY <1>1, <1>2, <1>9, <1>13 DEF BuildTells
  <1>15. Ledgers'
    <2>1. Indexed' = Indexed
      BY <1>2, <1>9 DEF Indexed
    <2> QED
      BY <1>1, <1>2, <1>9, <2>1 DEF Ledgers
  <1> QED
    BY <1>7, <1>10, <1>11, <1>12, <1>14, <1>15 DEF ReleaseInv

\* The end of a run, by its last write or before.
LEMMA EndStep == ReleaseInv /\ (AppendHistory \/ KillBuild) => ReleaseInv'
  <1> SUFFICES ASSUME ReleaseInv, AppendHistory \/ KillBuild PROVE ReleaseInv'
    OBVIOUS
  <1>1. /\ ReleaseTypes /\ GateTells /\ RecordTells /\ BuildTells /\ PublishedTells /\ LogsOnce
        /\ PageFitsVersion /\ Ledgers
    BY DEF ReleaseInv
  <1>2. /\ build # Absent /\ build' = Absent
        /\ UNCHANGED <<tree, record, gate, zips, sidecars, index, published>>
    BY DEF AppendHistory, KillBuild, AtStep
  <1>3. /\ build.new \in Versions /\ build.run \in Nat /\ used \in Uses
        /\ history \in Seq(Versions \X Nat)
    BY <1>2, Building1
  <1>4. GateTells' /\ RecordTells' /\ LogsOnce' /\ PageFitsVersion' /\ BuildTells'
    BY <1>1, <1>2 DEF GateTells, RecordTells, LogsOnce, PageFitsVersion, BuildTells
  <1>5. CASE AppendHistory
    <2>1. build.at = "history" /\ used' = used
      BY <1>5 DEF AppendHistory, AtStep
    <2>2. /\ history' \in Seq(Versions \X Nat) /\ Len(history') = Len(history) + 1
          /\ Len(history) \in Nat
      <3>1. <<build.new, build.run>> \in Versions \X Nat
        BY <1>3
      <3> QED
        BY <1>3, <1>5, <3>1 DEF AppendHistory
    <2>3. ReleaseTypes' /\ PublishedTells'
      BY <1>1, <1>2, <2>1, <2>2 DEF ReleaseTypes, PublishedTells
    <2>4. Indexed' = Indexed
      BY <1>2, <2>1 DEF Indexed
    <2>5. Ledgers'
      BY <1>1, <1>2, <2>1, <2>2, <2>4 DEF Ledgers
    <2> QED
      BY <1>4, <2>3, <2>5 DEF ReleaseInv
  <1>6. CASE KillBuild
    <2>1. /\ used' \in Uses /\ used'.builds = used.builds /\ used'.kills = used.kills + 1
          /\ used.kills \in Nat /\ history' = history
      BY <1>3, <1>6, UseUpdates DEF KillBuild, Count
    <2>2. ReleaseTypes' /\ PublishedTells'
      BY <1>1, <1>2, <2>1 DEF ReleaseTypes, PublishedTells
    <2>3. Ledgers'
      BY <2>1 DEF Ledgers
    <2> QED
      BY <1>4, <2>2, <2>3 DEF ReleaseInv
  <1> QED
    BY <1>5, <1>6

LEMMA ReleaseStep == ReleaseInv /\ [ReleaseNext]_releaseVars => ReleaseInv'
  <1> SUFFICES ASSUME ReleaseInv, [ReleaseNext]_releaseVars PROVE ReleaseInv'
    OBVIOUS
  <1>1. CASE Building
    BY <1>1, BuildStartStep, StageStep, ZipStep, SelfCheckStep, SidecarStep, OpenIndexStep,
       WriteIndexStep, StampStep, EndStep DEF Building
  <1>2. CASE UNCHANGED releaseVars
    BY <1>2 DEF releaseVars, ReleaseInv, ReleaseTypes, GateTells, RecordTells, BuildTells, Staging,
                PublishedTells, LogsOnce, PageFitsVersion, Ledgers, Indexed
  <1> QED
    BY <1>1, <1>2, EditingStep, GatingStep DEF ReleaseNext

\* What is on record as released passed the gate in every file the fingerprint
\* covers, is stamped as one version and is what the ledgers say.
THEOREM ReleasesAreGated == ReleaseSpec => []ReleasesGated
  <1>1. ReleaseInv /\ [ReleaseNext]_releaseVars => ReleaseInv'
    BY ReleaseStep
  <1> QED
    BY <1>1, ReleaseStart, ReleaseHolds, PTL DEF ReleaseSpec

-----------------------------------------------------------------------------
(***************************************************************************)
(* The measurements.                                                       *)
(***************************************************************************)

Llamas == [config : STRING, port : {0, 8080, 8180}, run : Nat, place : Nat, answered : Nat]
AtRest == [at |-> "rest"]
Stages ==
    [at : {"inspected", "capture", "measure", "waiting", "first", "ollama"}, stop : BOOLEAN,
     benchmarks : BOOLEAN, next : Nat \ {0}]
TimedEntries == [config : STRING, by : STRING, cold : BOOLEAN, alone : BOOLEAN, error : BOOLEAN]
Invocations == [tools : Nat, starts : Nat, disturbed : BOOLEAN, missed : BOOLEAN]

ForensicsTypes ==
    /\ processes \in SUBSET Llamas
    /\ stage = AtRest \/ stage \in Stages
    /\ stage.at \in {"waiting", "first"} => stage.next <= Len(Matrix)
    /\ results \in Seq(TimedEntries)
    /\ invoked \in Invocations

OwnLlama == Process(Matrix[stage.next], 8180, invoked.tools, stage.next)

\* Of the servers that are not the one of the measurement, only production may be
\* there, and only if it came in between.
Expected(p) == p.port = 8080 /\ invoked.disturbed

\* Unless a query or a kill failed, the tool has its port to itself from the time
\* it looked for other servers, with one server of its own at most.
Alone ==
    /\ stage.at \in {"measure", "waiting", "first"} => stage.benchmarks
    /\ ~invoked.missed =>
        /\ stage.at \in {"capture", "measure"} /\ stage.benchmarks =>
                \A p \in processes : Expected(p)
        /\ stage.at \in {"waiting", "first"} =>
                \A p \in processes : Expected(p) \/ p = OwnLlama

ForensicsInv == ForensicsTypes /\ Alone /\ MeasuredFresh

\* What an entry is under the flags d of a disturbance and m of a miss.
Fair(entry, d, m) ==
    m \/ entry.error
      \/ (entry.by = entry.config /\ entry.cold /\ (d \/ entry.alone))

LEMMA FreshIsFair ==
    MeasuredFresh <=> \A i \in DOMAIN results : Fair(results[i], invoked.disturbed, invoked.missed)
  BY DEF MeasuredFresh, Fair

\* A stage that moves on, as a record.
LEMMA StageMoves ==
    ASSUME NEW s \in Stages, NEW to \in {"inspected", "capture", "measure", "waiting", "first", "ollama"}
    PROVE  /\ [s EXCEPT !.at = to] \in Stages
           /\ [s EXCEPT !.at = to].at = to
           /\ [s EXCEPT !.at = to].next = s.next
           /\ [s EXCEPT !.at = to].benchmarks = s.benchmarks
           /\ [s EXCEPT !.at = to].stop = s.stop
  BY DEF Stages

\* What a query or a kill leaves on record.
LEMMA MissesAre ==
    ASSUME ForensicsTypes, NEW slip, Misses(slip)
    PROVE  /\ invoked' \in Invocations /\ invoked'.tools = invoked.tools
           /\ invoked'.disturbed = invoked.disturbed
           /\ ~invoked'.missed => ~invoked.missed /\ ~slip
  <1>1. PICK a \in Nat, b \in Nat, d \in BOOLEAN, m \in BOOLEAN :
            invoked = [tools |-> a, starts |-> b, disturbed |-> d, missed |-> m]
    BY DEF ForensicsTypes, Invocations
  <1>2. invoked' = [tools |-> a, starts |-> b, disturbed |-> d, missed |-> m \/ slip]
    BY <1>1 DEF Misses
  <1>3. (m \/ slip) \in BOOLEAN
    OBVIOUS
  <1>4. /\ invoked'.tools = a /\ invoked'.disturbed = d /\ invoked'.missed = (m \/ slip)
        /\ invoked.tools = a /\ invoked.disturbed = d /\ invoked.missed = m
    BY <1>1, <1>2
  <1>5. invoked' \in Invocations
    BY <1>2, <1>3 DEF Invocations
  <1>6. ~invoked'.missed => ~invoked.missed /\ ~slip
    BY <1>4, Zenon
  <1> QED
    BY <1>4, <1>5, <1>6

\* Nothing is reported, and what was stays fair if no flag is lowered.
LEMMA FreshStays ==
    ASSUME ForensicsInv, UNCHANGED results,
           ~invoked'.missed => ~invoked.missed, ~invoked'.disturbed => ~invoked.disturbed
    PROVE  results' \in Seq(TimedEntries) /\ MeasuredFresh'
  <1>1. results' \in Seq(TimedEntries)
    BY DEF ForensicsInv, ForensicsTypes
  <1>2. MeasuredFresh'
    BY DEF ForensicsInv, MeasuredFresh
  <1> QED
    BY <1>1, <1>2

\* A result more, and the results are still fair.
LEMMA FairAppended ==
    ASSUME ForensicsInv, NEW entry \in TimedEntries, results' = Append(results, entry),
           ~invoked'.missed => ~invoked.missed, invoked'.disturbed = invoked.disturbed,
           ~invoked'.missed => Fair(entry, invoked.disturbed, invoked.missed)
    PROVE  results' \in Seq(TimedEntries) /\ MeasuredFresh'
  <1>1. results \in Seq(TimedEntries)
    BY DEF ForensicsInv, ForensicsTypes
  <1>2. results' \in Seq(TimedEntries) /\ Len(results') = Len(results) + 1
    BY <1>1
  <1>3. ASSUME ~invoked'.missed, NEW i \in DOMAIN results'
        PROVE  Fair(results'[i], invoked.disturbed, invoked.missed)
    <2>1. i \in 1 .. Len(results) \/ i = Len(results) + 1
      BY <1>1, <1>2, <1>3
    <2>2. CASE i \in 1 .. Len(results)
      <3>1. results'[i] = results[i] /\ i \in DOMAIN results
        BY <1>1, <2>2
      <3> QED
        BY <3>1, FreshIsFair DEF ForensicsInv
    <2>3. CASE i = Len(results) + 1
      <3>1. results'[i] = entry
        BY <1>1, <2>3
      <3> QED
        BY <1>3, <3>1
    <2> QED
      BY <2>1, <2>2, <2>3
  <1>4. MeasuredFresh'
    BY <1>3 DEF MeasuredFresh, Fair
  <1> QED
    BY <1>2, <1>4

LEMMA ForensicsStart == ForensicsInit => ForensicsInv
  BY DEF ForensicsInit, ForensicsInv, ForensicsTypes, Invocations, AtRest, Alone, MeasuredFresh

\* Production is started, or a server ends.
LEMMA ServersChange ==
    ASSUME ForensicsInv, ProductionStarts \/ ServerEnds
    PROVE  ForensicsInv'
  <1>1. UNCHANGED <<stage, results>>
    BY DEF ProductionStarts, ServerEnds
  <1>2. CASE ServerEnds
    <2>1. processes' \subseteq processes /\ invoked' = invoked
      BY <1>2 DEF ServerEnds
    <2>2. OwnLlama' = OwnLlama /\ \A p : Expected(p)' = Expected(p)
      BY <1>1, <2>1 DEF OwnLlama, Expected
    <2>3. ForensicsTypes'
      BY <1>1, <2>1 DEF ForensicsInv, ForensicsTypes
    <2>4. Alone'
      BY <1>1, <2>1, <2>2 DEF ForensicsInv, Alone
    <2>5. MeasuredFresh'
      BY <1>1, <2>1 DEF ForensicsInv, MeasuredFresh
    <2> QED
      BY <2>3, <2>4, <2>5 DEF ForensicsInv
  <1>3. CASE ProductionStarts
    <2> DEFINE new == Process(Production, 8080, 0, 0)
    <2>1. processes' = processes \cup {new}
      BY <1>3 DEF ProductionStarts
    <2>2. new \in Llamas /\ new.port = 8080
      BY ForensicsAssumption DEF Process, Llamas
    <2>3. PICK a \in Nat, b \in Nat, d \in BOOLEAN, m \in BOOLEAN :
              invoked = [tools |-> a, starts |-> b, disturbed |-> d, missed |-> m]
      BY DEF ForensicsInv, ForensicsTypes, Invocations
    <2>4. invoked' = [tools |-> a, starts |-> b + 1,
                      disturbed |-> d \/ stage.at \notin {"rest", "inspected"}, missed |-> m]
      <3>1. invoked' = [invoked EXCEPT !.starts = @ + 1,
                          !.disturbed = @ \/ stage.at \notin {"rest", "inspected"}]
        BY <1>3 DEF ProductionStarts
      <3> QED
        BY <2>3, <3>1
    <2>5. (d \/ stage.at \notin {"rest", "inspected"}) \in BOOLEAN
      OBVIOUS
    <2>6. invoked' \in Invocations
      BY <2>4, <2>5 DEF Invocations
    <2>7. /\ invoked'.tools = a /\ invoked'.missed = m
          /\ invoked'.disturbed = (d \/ stage.at \notin {"rest", "inspected"})
          /\ invoked.tools = a /\ invoked.missed = m /\ invoked.disturbed = d
      BY <2>3, <2>4
    <2>8. /\ invoked.disturbed => invoked'.disturbed
          /\ stage.at \notin {"rest", "inspected"} => invoked'.disturbed
      BY <2>7, Zenon
    <2> HIDE DEF new
    <2>9. OwnLlama' = OwnLlama
      BY <1>1, <2>7 DEF OwnLlama
    <2>10. Alone'
      <3>1. \A p : Expected(p) => Expected(p)'
        BY <2>8 DEF Expected
      <3>2. stage.at \in {"capture", "measure", "waiting", "first"} => Expected(new)'
        BY <2>2, <2>8 DEF Expected
      <3> QED
        BY <1>1, <2>1, <2>7, <2>9, <3>1, <3>2 DEF ForensicsInv, Alone
    <2>11. results' \in Seq(TimedEntries) /\ MeasuredFresh'
      BY <1>1, <2>7, <2>8, FreshStays
    <2>12. ForensicsTypes'
      BY <1>1, <2>1, <2>2, <2>6, <2>11 DEF ForensicsInv, ForensicsTypes
    <2> QED
      BY <2>10, <2>11, <2>12 DEF ForensicsInv
  <1> QED
    BY <1>2, <1>3

LEMMA InvokeStep ==
    ASSUME ForensicsInv, Invoke PROVE ForensicsInv'
  <1>1. PICK stop \in BOOLEAN, benchmarks \in BOOLEAN :
            stage' = [at |-> "inspected", stop |-> stop, benchmarks |-> benchmarks, next |-> 1]
    BY DEF Invoke
  <1>2. stage' \in Stages /\ stage'.at = "inspected"
    BY <1>1 DEF Stages
  <1>3. invoked' \in Invocations
    <2>1. PICK a \in Nat, b \in Nat, d \in BOOLEAN, m \in BOOLEAN :
              invoked = [tools |-> a, starts |-> b, disturbed |-> d, missed |-> m]
      BY DEF ForensicsInv, ForensicsTypes, Invocations
    <2>2. invoked' = [tools |-> a + 1, starts |-> b, disturbed |-> FALSE, missed |-> FALSE]
      BY <2>1 DEF Invoke
    <2> QED
      BY <2>2 DEF Invocations
  <1>4. results' = <<>> /\ UNCHANGED processes
    BY DEF Invoke
  <1> QED
    BY <1>2, <1>3, <1>4 DEF ForensicsInv, ForensicsTypes, Alone, MeasuredFresh

LEMMA LookStep ==
    ASSUME ForensicsInv, LookForServers PROVE ForensicsInv'
  <1>1. stage \in Stages /\ stage.at = "inspected" /\ UNCHANGED results
    BY DEF ForensicsInv, ForensicsTypes, AtRest, LookForServers
  <1>2. PICK failed \in BOOLEAN :
            LET found == IF failed THEN {} ELSE Found
            IN  IF ~stage.benchmarks \/ found = {}
                THEN /\ stage' = [stage EXCEPT !.at = "capture"] /\ UNCHANGED <<processes, results, onDisk>>
                     /\ Misses(failed /\ processes # {})
                ELSE IF stage.stop
                THEN \E left \in SUBSET found :
                        /\ processes' = processes \ (found \ left) /\ Misses(left # {})
                        /\ stage' = [stage EXCEPT !.at = "capture"] /\ UNCHANGED <<results, onDisk>>
                ELSE stage' = [at |-> "rest"] /\ UNCHANGED <<processes, results, invoked>> /\ Saved
    BY DEF LookForServers
  \* The tool goes on, with what it did not see or could not kill.
  <1>3. ASSUME NEW slip, Misses(slip), stage' = [stage EXCEPT !.at = "capture"],
               processes' \subseteq processes, stage.benchmarks /\ ~slip => processes' = {}
        PROVE  ForensicsInv'
    <2>1. /\ invoked' \in Invocations /\ invoked'.tools = invoked.tools
          /\ invoked'.disturbed = invoked.disturbed
          /\ ~invoked'.missed => ~invoked.missed /\ ~slip
      BY <1>3, MissesAre DEF ForensicsInv
    <2>2. stage' \in Stages /\ stage'.at = "capture" /\ stage'.benchmarks = stage.benchmarks
      BY <1>1, <1>3, StageMoves
    <2>3. results' \in Seq(TimedEntries) /\ MeasuredFresh'
      BY <1>1, <2>1, FreshStays
    <2>4. ForensicsTypes'
      BY <1>3, <2>1, <2>2, <2>3 DEF ForensicsInv, ForensicsTypes
    <2>5. Alone'
      BY <1>3, <2>1, <2>2 DEF Alone
    <2> QED
      BY <2>3, <2>4, <2>5 DEF ForensicsInv
  <1> DEFINE found == IF failed THEN {} ELSE Found
  <1>4. CASE ~stage.benchmarks \/ found = {}
    <2>1. /\ stage' = [stage EXCEPT !.at = "capture"] /\ processes' = processes
          /\ Misses(failed /\ processes # {})
      BY <1>2, <1>4
    <2>2. stage.benchmarks /\ ~(failed /\ processes # {}) => processes' = {}
      BY <1>4, <2>1 DEF Found
    <2> QED
      BY <1>3, <2>1, <2>2
  <1>5. CASE ~(~stage.benchmarks \/ found = {}) /\ stage.stop
    <2>1. PICK left \in SUBSET found :
            /\ processes' = processes \ (found \ left) /\ Misses(left # {})
            /\ stage' = [stage EXCEPT !.at = "capture"]
      BY <1>2, <1>5
    <2>2. found = processes
      BY <1>5 DEF Found
    <2>3. ~(left # {}) => processes' = {}
      BY <2>1, <2>2
    <2> QED
      BY <1>3, <2>1, <2>3
  <1>6. CASE ~(~stage.benchmarks \/ found = {}) /\ ~stage.stop
    <2>1. stage' = AtRest /\ UNCHANGED <<processes, invoked>>
      BY <1>2, <1>6 DEF AtRest
    <2> QED
      BY <1>1, <2>1 DEF AtRest, ForensicsInv, ForensicsTypes, Alone, MeasuredFresh
  <1> QED
    BY <1>4, <1>5, <1>6

\* A step that moves the stage only.
LEMMA StageAlone ==
    ASSUME ForensicsInv, UNCHANGED <<processes, results, invoked>>,
           \/ stage' = AtRest
           \/ /\ stage' \in Stages /\ stage'.next = stage.next /\ stage'.benchmarks = stage.benchmarks
              /\ \/ stage.at = "capture" /\ stage'.at = "measure" /\ stage.benchmarks
                 \/ stage'.at = "ollama"
                 \/ stage.at = "waiting" /\ stage'.at = "first"
    PROVE  ForensicsInv'
  <1>1. \A p : Expected(p)' = Expected(p)
    BY DEF Expected
  <1>2. MeasuredFresh'
    BY DEF ForensicsInv, MeasuredFresh
  <1>3. CASE stage' = AtRest
    BY <1>2, <1>3 DEF AtRest, ForensicsInv, ForensicsTypes, Alone
  <1>4. CASE /\ stage' \in Stages /\ stage'.next = stage.next /\ stage'.benchmarks = stage.benchmarks
             /\ \/ stage.at = "capture" /\ stage'.at = "measure" /\ stage.benchmarks
                \/ stage'.at = "ollama"
                \/ stage.at = "waiting" /\ stage'.at = "first"
    <2>1. OwnLlama' = OwnLlama
      BY <1>4 DEF OwnLlama
    <2>2. ForensicsTypes'
      BY <1>4 DEF ForensicsInv, ForensicsTypes
    <2>3. Alone'
      BY <1>1, <1>4, <2>1 DEF ForensicsInv, Alone
    <2> QED
      BY <1>2, <2>2, <2>3 DEF ForensicsInv
  <1> QED
    BY <1>3, <1>4

LEMMA CaptureStep ==
    ASSUME ForensicsInv, CaptureRequest PROVE ForensicsInv'
  <1>1. stage \in Stages /\ stage.at = "capture" /\ UNCHANGED <<processes, results, invoked>>
    BY DEF CaptureRequest, ForensicsInv, ForensicsTypes, AtRest
  <1>2. CASE stage.benchmarks
    <2>1. stage' = [stage EXCEPT !.at = "measure"]
      BY <1>2 DEF CaptureRequest
    <2> QED
      BY <1>1, <1>2, <2>1, StageMoves, StageAlone
  <1>3. CASE ~stage.benchmarks
    <2>1. stage' = [stage EXCEPT !.at = "ollama"]
      BY <1>3 DEF CaptureRequest
    <2> QED
      BY <1>1, <2>1, StageMoves, StageAlone
  <1> QED
    BY <1>2, <1>3

LEMMA StartTestStep ==
    ASSUME ForensicsInv, StartTestServer PROVE ForensicsInv'
  <1> DEFINE new == Process(Matrix[stage.next], IF Listening = {} THEN 8180 ELSE 0,
                            invoked.tools, stage.next)
  <1>1. /\ stage \in Stages /\ stage.at = "measure" /\ stage.next <= Len(Matrix)
        /\ UNCHANGED <<results, invoked>> /\ processes' = processes \cup {new}
    BY DEF StartTestServer, ForensicsInv, ForensicsTypes, AtRest
  <1>2. stage' \in Stages /\ stage'.at = "waiting" /\ stage'.next = stage.next
          /\ stage'.benchmarks = stage.benchmarks
    <2>1. stage' = [stage EXCEPT !.at = "waiting"]
      BY DEF StartTestServer
    <2> QED
      BY <1>1, <2>1, StageMoves
  <1>3. new \in Llamas
    <2>1. stage.next \in 1 .. Len(Matrix)
      BY <1>1, ForensicsAssumption DEF Stages
    <2>2. Matrix[stage.next] \in STRING
      BY <2>1, ForensicsAssumption
    <2>3. invoked.tools \in Nat
      BY DEF ForensicsInv, ForensicsTypes, Invocations
    <2> QED
      BY <2>1, <2>2, <2>3 DEF Process, Llamas
  <1>4. /\ \A p : Expected(p)' = Expected(p)
        /\ OwnLlama' = Process(Matrix[stage.next], 8180, invoked.tools, stage.next)
    BY <1>1, <1>2 DEF Expected, OwnLlama
  <1>5. ~invoked.missed => \A p \in processes' : Expected(p)' \/ p = OwnLlama'
    <2> SUFFICES ASSUME ~invoked.missed PROVE \A p \in processes' : Expected(p)' \/ p = OwnLlama'
      OBVIOUS
    <2>1. \A p \in processes : Expected(p)
      BY <1>1 DEF ForensicsInv, Alone
    <2>2. Listening = {}
      BY <2>1 DEF Listening, Expected
    <2>3. new = OwnLlama'
      BY <1>4, <2>2
    <2> HIDE DEF new
    <2> QED
      BY <1>1, <1>4, <2>1, <2>3
  <1> HIDE DEF new
  <1>6. ForensicsTypes'
    BY <1>1, <1>2, <1>3 DEF ForensicsInv, ForensicsTypes
  <1>7. Alone'
    BY <1>1, <1>2, <1>5 DEF ForensicsInv, Alone
  <1>8. MeasuredFresh'
    BY <1>1 DEF ForensicsInv, MeasuredFresh
  <1> QED
    BY <1>6, <1>7, <1>8 DEF ForensicsInv

\* The end of a measurement with the servers all: the own one is stopped, or not.
LEMMA MeasurementEnds ==
    ASSUME ForensicsInv, stage.at \in {"waiting", "first"},
           NEW all \in SUBSET Llamas, StopServer(all),
           NEW entry \in TimedEntries, Record(entry),
           Fair(entry, invoked.disturbed, invoked.missed),
           ~invoked.missed => \A p \in all : Expected(p) \/ Owned(p)
    PROVE  ForensicsInv'
  <1>1. PICK survives \in BOOLEAN :
            /\ processes' = IF survives THEN all ELSE {p \in all : ~Owned(p)}
            /\ Misses(survives /\ \E p \in all : Owned(p))
    BY DEF StopServer
  <1>2. /\ invoked' \in Invocations /\ invoked'.tools = invoked.tools
        /\ invoked'.disturbed = invoked.disturbed
        /\ ~invoked'.missed => ~invoked.missed /\ ~(survives /\ \E p \in all : Owned(p))
    BY <1>1, MissesAre DEF ForensicsInv
  <1>3. results' \in Seq(TimedEntries) /\ MeasuredFresh'
    <2>1. results' = Append(results, entry)
      BY DEF Record
    <2> QED
      BY <1>2, <2>1, FairAppended
  <1>4. /\ stage' \in Stages /\ stage'.at = "measure" /\ stage'.benchmarks = stage.benchmarks
        /\ stage.benchmarks
    <2>1. stage \in Stages /\ stage.benchmarks
      BY DEF ForensicsInv, ForensicsTypes, Alone, AtRest
    <2>2. stage' = [stage EXCEPT !.at = "measure", !.next = stage.next + 1]
      BY DEF Record
    <2>3. PICK a \in {"inspected", "capture", "measure", "waiting", "first", "ollama"}, b \in BOOLEAN, c \in BOOLEAN, n \in Nat \ {0} :
              stage = [at |-> a, stop |-> b, benchmarks |-> c, next |-> n]
      BY <2>1 DEF Stages
    <2>4. stage' = [at |-> "measure", stop |-> b, benchmarks |-> c, next |-> n + 1]
      BY <2>2, <2>3
    <2> QED
      BY <2>1, <2>3, <2>4 DEF Stages
  <1>5. \A p : Expected(p)' = Expected(p)
    BY <1>2 DEF Expected
  <1>6. ~invoked'.missed => \A p \in processes' : Expected(p)'
    <2> SUFFICES ASSUME ~invoked'.missed, NEW p \in processes' PROVE Expected(p)
      BY <1>5
    <2>1. p \in all /\ ~Owned(p)
      BY <1>1, <1>2
    <2> QED
      BY <1>2, <2>1
  <1>7. ForensicsTypes'
    <2>1. processes' \in SUBSET Llamas
      BY <1>1
    <2> QED
      BY <1>2, <1>3, <1>4, <2>1 DEF ForensicsTypes
  <1>8. Alone'
    BY <1>4, <1>6 DEF Alone
  <1> QED
    BY <1>3, <1>7, <1>8 DEF ForensicsInv

LEMMA NoResultIs ==
    ASSUME ForensicsInv, stage.at \in {"waiting", "first"}
    PROVE  /\ Matrix[stage.next] \in STRING /\ NoResult \in TimedEntries
           /\ \A d, m : Fair(NoResult, d, m)
           /\ ~invoked.missed => \A p \in processes : Expected(p) \/ p = OwnLlama
           /\ OwnLlama.run = invoked.tools /\ OwnLlama.place = stage.next
           /\ OwnLlama.config = Matrix[stage.next] /\ OwnLlama.answered = 0
           /\ OwnLlama.port = 8180
  <1>1. stage.next \in 1 .. Len(Matrix)
    BY ForensicsAssumption DEF ForensicsInv, ForensicsTypes, Stages, AtRest
  <1>2. Matrix[stage.next] \in STRING
    BY <1>1, ForensicsAssumption
  <1>3. NoResult \in TimedEntries
    BY <1>2 DEF NoResult, TimedEntries
  <1>4. ~invoked.missed => \A p \in processes : Expected(p) \/ p = OwnLlama
    BY DEF ForensicsInv, Alone
  <1> QED
    BY <1>2, <1>3, <1>4 DEF OwnLlama, Process, NoResult, Fair

LEMMA UnhealthyStep ==
    ASSUME ForensicsInv, StopServer(processes), Record(NoResult), stage.at \in {"waiting", "first"}
    PROVE  ForensicsInv'
  <1>1. processes \in SUBSET Llamas
    BY DEF ForensicsInv, ForensicsTypes
  <1>2. ~invoked.missed => \A p \in processes : Expected(p) \/ Owned(p)
    BY NoResultIs DEF Owned
  <1> QED
    BY <1>1, <1>2, NoResultIs, MeasurementEnds

LEMMA MeasureStep ==
    ASSUME ForensicsInv, MeasureServer PROVE ForensicsInv'
  <1>1. stage.at = "first"
    BY DEF MeasureServer
  <1>2. CASE Listening = {} /\ StopServer(processes) /\ Record(NoResult)
    BY <1>1, <1>2, UnhealthyStep
  <1>3. ASSUME NEW probed \in Listening, NEW error \in BOOLEAN,
               StopServer((processes \ {probed}) \cup {[probed EXCEPT !.answered = 2]}),
               Record(ResultOf(probed, error))
        PROVE  ForensicsInv'
    <2> DEFINE again == [probed EXCEPT !.answered = 2]
    <2> DEFINE all == (processes \ {probed}) \cup {again}
    <2>1. probed \in Llamas /\ probed \in processes /\ probed.port = 8180 /\ processes \in SUBSET Llamas
      BY <1>3 DEF Listening, ForensicsInv, ForensicsTypes
    <2>2. /\ again \in Llamas /\ again.run = probed.run /\ again.place = probed.place
      BY <2>1 DEF Llamas
    <2>3. ~invoked.missed => probed = OwnLlama
      BY <1>1, <2>1, NoResultIs DEF Expected
    <2>4. ResultOf(probed, error) \in TimedEntries
      <3>1. (probed.answered = 0) \in BOOLEAN /\ (Cardinality(processes) = 1) \in BOOLEAN
        OBVIOUS
      <3>2. probed.config \in STRING /\ Matrix[stage.next] \in STRING
        BY <1>1, <2>1, NoResultIs DEF Llamas
      <3> QED
        BY <1>3, <3>1, <3>2, Zenon DEF ResultOf, TimedEntries
    <2>5. Fair(ResultOf(probed, error), invoked.disturbed, invoked.missed)
      <3> SUFFICES ASSUME ~invoked.missed
                   PROVE  Fair(ResultOf(probed, error), invoked.disturbed, invoked.missed)
        BY DEF Fair
      <3>1. probed.config = Matrix[stage.next] /\ probed.answered = 0
        BY <1>1, <2>3, NoResultIs
      <3>2. ~invoked.disturbed => Cardinality(processes) = 1
        <4> SUFFICES ASSUME ~invoked.disturbed PROVE Cardinality(processes) = 1
          OBVIOUS
        <4>1. processes = {probed}
          BY <1>1, <2>1, <2>3, NoResultIs DEF Expected
        <4>2. Cardinality({probed}) = 1
          BY FS_Singleton, Zenon
        <4> QED
          BY <4>1, <4>2
      <3> QED
        BY <3>1, <3>2 DEF Fair, ResultOf
    <2>6. ~invoked.missed => \A p \in all : Expected(p) \/ Owned(p)
      <3> SUFFICES ASSUME ~invoked.missed, NEW p \in all PROVE Expected(p) \/ Owned(p)
        OBVIOUS
      <3>1. OwnLlama.run = invoked.tools /\ OwnLlama.place = stage.next
        BY <1>1, NoResultIs
      <3>2. CASE p = again
        BY <2>2, <2>3, <3>1, <3>2 DEF Owned
      <3>3. CASE p \in processes
        BY <1>1, <3>1, <3>3, NoResultIs DEF Owned
      <3> QED
        BY <3>2, <3>3
    <2>7. all \in SUBSET Llamas
      BY <2>1, <2>2
    <2>8. StopServer(all)
      BY <1>3
    <2> HIDE DEF all
    <2> QED
      BY <1>1, <1>3, <2>4, <2>5, <2>6, <2>7, <2>8, MeasurementEnds
  <1> QED
    BY <1>2, <1>3 DEF MeasureServer

LEMMA ForensicsStep == ForensicsInv /\ [ForensicsNext]_forensicVars => ForensicsInv'
  <1> SUFFICES ASSUME ForensicsInv, [ForensicsNext]_forensicVars PROVE ForensicsInv'
    OBVIOUS
  <1>1. CASE UNCHANGED forensicVars
    BY <1>1 DEF forensicVars, ForensicsInv, ForensicsTypes, Alone, MeasuredFresh, OwnLlama, Expected
  <1>2. CASE ServerHealthy
    <2>1. stage \in Stages /\ stage.at = "waiting" /\ UNCHANGED <<processes, results, invoked>>
          /\ stage' = [stage EXCEPT !.at = "first"]
      BY <1>2 DEF ServerHealthy, ForensicsInv, ForensicsTypes, AtRest
    <2> QED
      BY <2>1, StageMoves, StageAlone
  <1>3. CASE NeverHealthy
    BY <1>3, UnhealthyStep DEF NeverHealthy
  <1>4. CASE Finished \/ Dies
    <2>1. stage' = AtRest /\ UNCHANGED <<processes, results, invoked>>
      BY <1>4 DEF Finished, Dies, AtRest
    <2> QED
      BY <2>1, StageAlone
  <1> QED
    BY <1>1, <1>2, <1>3, <1>4, ServersChange, InvokeStep, LookStep, CaptureStep, StartTestStep,
       MeasureStep DEF ForensicsNext

\* What is reported of a configuration was measured on it: its own server
\* answered its first request, unless a query for servers or a kill failed in the
\* run, and with the GPU to itself unless production was started after the tool
\* had looked for it.
THEOREM MeasurementsAreFresh == ForensicsSpec => []MeasuredFresh
  <1>1. ForensicsInv => MeasuredFresh
    BY DEF ForensicsInv
  <1> QED
    BY <1>1, ForensicsStart, ForensicsStep, PTL DEF ForensicsSpec

-----------------------------------------------------------------------------
(***************************************************************************)
(* The trace of the turns.                                                 *)
(***************************************************************************)

EventKinds == {"start", "wire", "headers", "end"}
Events == [kind : EventKinds, turn : Traced, token : BOOLEAN, delta : SUBSET Nat]
WrapperPlaces ==
    {"new", "asked", "open", "sent", "served", "headers", "streaming", "closing", "gone"}
Wrappers == [at : WrapperPlaces, before : Nat, token : BOOLEAN]

TraceTypes ==
    /\ wrapper \in [Traced -> Wrappers] /\ file \in Seq(Events) /\ served \in Nat \ {0}
    /\ \A t \in Traced : wrapper[t].before <= served

Never(kind, t) == At(kind, t) = {}
Once(kind, t) == \E i \in Nat : At(kind, t) = {i}

\* What a turn has left in the file, by the place its wrapper has come to.
Left(t) ==
    /\ IF wrapper[t].at = "new" THEN Never("start", t) ELSE Once("start", t)
    /\ wrapper[t].at \in {"new", "asked", "open"} => Never("wire", t)
    /\ wrapper[t].at \in {"new", "asked", "open", "sent", "served"} => Never("headers", t)
    /\ wrapper[t].at \in {"sent", "served", "headers", "streaming"} \/ wrapper[t].token =>
            Once("wire", t)
    /\ wrapper[t].at \in {"headers", "streaming"} \/ wrapper[t].token => Once("headers", t)
    /\ wrapper[t].at # "gone" => Never("end", t)
    /\ wrapper[t].token => wrapper[t].at \in {"streaming", "closing", "gone"}

Follows(kind, later, t) == \A i \in At(kind, t), k \in At(later, t) : i < k

\* Its events are in the file in the order of the turn.
InOrder(t) ==
    Follows("start", "wire", t) /\ Follows("wire", "headers", t) /\ Follows("headers", "end", t)

\* Its own prompt is among those the server worked on after the first snapshot.
Worked(t) ==
    wrapper[t].at \in {"served", "headers", "streaming"} \/ wrapper[t].token =>
        wrapper[t].before < served

EndsOf(t) ==
    /\ Never("end", t) \/ Once("end", t)
    /\ \A i \in At("end", t) :
        file[i].token => wrapper[t].token /\ file[i].delta \subseteq 1 .. served - wrapper[t].before

TraceInv == TraceTypes /\ \A t \in Traced : Left(t) /\ InOrder(t) /\ Worked(t) /\ EndsOf(t)

\* A wrapper that is moved, as a record.
LEMMA MovedRecord ==
    ASSUME NEW w \in Wrappers, NEW to, NEW c
    PROVE  /\ [w EXCEPT !.at = to] = [at |-> to, before |-> w.before, token |-> w.token]
           /\ [w EXCEPT !.at = to, !.token = c] = [at |-> to, before |-> w.before, token |-> c]
  <1>1. [w EXCEPT !.at = to] = [at |-> to, before |-> w.before, token |-> w.token]
    BY DEF Wrappers
  <1>2. [w EXCEPT !.at = to, !.token = c] = [[w EXCEPT !.at = to] EXCEPT !.token = c]
    OBVIOUS
  <1>4. [[at |-> to, before |-> w.before, token |-> w.token] EXCEPT !.token = c]
            = [at |-> to, before |-> w.before, token |-> c]
    OBVIOUS
  <1> QED
    BY <1>1, <1>2, <1>4

LEMMA MovedWrapper ==
    ASSUME TraceTypes, NEW t \in Traced, NEW to, NEW c
    PROVE  /\ [wrapper EXCEPT ![t].at = to] =
                [wrapper EXCEPT ![t] = [at |-> to, before |-> wrapper[t].before,
                                        token |-> wrapper[t].token]]
           /\ [wrapper EXCEPT ![t].at = to, ![t].token = c] =
                [wrapper EXCEPT ![t] = [at |-> to, before |-> wrapper[t].before, token |-> c]]
  <1>1. wrapper[t] \in Wrappers
    BY DEF TraceTypes
  <1>2. [wrapper EXCEPT ![t].at = to] = [wrapper EXCEPT ![t] = [wrapper[t] EXCEPT !.at = to]]
    OBVIOUS
  <1>4. [wrapper EXCEPT ![t].at = to, ![t].token = c] =
                [wrapper EXCEPT ![t] = [wrapper[t] EXCEPT !.at = to, !.token = c]]
    BY DEF TraceTypes
  <1>5. /\ [wrapper[t] EXCEPT !.at = to]
                = [at |-> to, before |-> wrapper[t].before, token |-> wrapper[t].token]
        /\ [wrapper[t] EXCEPT !.at = to, !.token = c]
                = [at |-> to, before |-> wrapper[t].before, token |-> c]
    BY <1>1, MovedRecord
  <1>6. [wrapper EXCEPT ![t].at = to] =
                [wrapper EXCEPT ![t] = [at |-> to, before |-> wrapper[t].before,
                                        token |-> wrapper[t].token]]
    BY <1>2, <1>5
  <1>8. [wrapper EXCEPT ![t].at = to, ![t].token = c] =
                [wrapper EXCEPT ![t] = [at |-> to, before |-> wrapper[t].before, token |-> c]]
    BY <1>4, <1>5
  <1> QED
    BY <1>6, <1>8

\* An event that is appended is the last one, and leaves the others as they are.
LEMMA AppendedEvent ==
    ASSUME TraceTypes, NEW t \in Traced, NEW kind \in EventKinds, NEW event \in Events,
           event.kind = kind, event.turn = t, file' = Append(file, event)
    PROVE  /\ file' \in Seq(Events)
           /\ \A k \in EventKinds, u \in Traced :
                At(k, u)' = IF k = kind /\ u = t THEN At(k, u) \cup {Len(file) + 1} ELSE At(k, u)
           /\ \A k \in EventKinds, u \in Traced : \A i \in At(k, u) : i <= Len(file) /\ file'[i] = file[i]
           /\ Len(file) \in Nat /\ file'[Len(file) + 1] = event
  <1>1. /\ file' \in Seq(Events) /\ Len(file') = Len(file) + 1 /\ Len(file) \in Nat
        /\ \A i \in 1 .. Len(file) : file'[i] = file[i]
        /\ file'[Len(file) + 1] = event
    BY DEF TraceTypes
  <1>2. DOMAIN file = 1 .. Len(file) /\ DOMAIN file' = 1 .. Len(file) + 1
    BY <1>1 DEF TraceTypes
  <1> QED
    BY <1>1, <1>2 DEF At

\* A wrapper that goes on without a word leaves the file to say the same.
LEMMA SilentMove ==
    ASSUME TraceInv, NEW t \in Traced, NEW w \in Wrappers,
           wrapper' = [wrapper EXCEPT ![t] = w], UNCHANGED file,
           served' \in Nat, served <= served', w.before <= served',
           Left(t)', Worked(t)',
           wrapper[t].at # "gone"
    PROVE  TraceInv'
  <1>1. \A k, u : At(k, u)' = At(k, u)
    BY DEF At
  <1>2. TraceTypes'
    <2>1. \A u \in Traced : wrapper[u].before \in Nat
      BY DEF TraceInv, TraceTypes, Wrappers
    <2>2. wrapper' \in [Traced -> Wrappers] /\ file' \in Seq(Events) /\ served' \in Nat \ {0}
      BY DEF TraceInv, TraceTypes
    <2>3. \A u \in Traced : wrapper'[u] = IF u = t THEN w ELSE wrapper[u]
      BY DEF TraceInv, TraceTypes
    <2>4. served \in Nat /\ \A u \in Traced : wrapper[u].before <= served
      BY DEF TraceInv, TraceTypes
    <2> QED
      BY <2>1, <2>2, <2>3, <2>4 DEF TraceTypes
  <1>3. \A u \in Traced : InOrder(u)'
    BY <1>1 DEF TraceInv, InOrder, Follows
  <1>4. ASSUME NEW u \in Traced, u # t PROVE Left(u)' /\ Worked(u)' /\ EndsOf(u)'
    <2>1. wrapper'[u] = wrapper[u] /\ wrapper[u] \in Wrappers
      BY <1>4 DEF TraceInv, TraceTypes
    <2>2. 1 .. served - wrapper[u].before \subseteq 1 .. served' - wrapper[u].before
      BY <2>1 DEF TraceInv, TraceTypes, Wrappers
    <2>3. Left(u)'
      BY <1>1, <2>1 DEF TraceInv, Left, Never, Once
    <2>4. Worked(u)'
      BY <2>1 DEF TraceInv, TraceTypes, Worked, Wrappers
    <2>5. EndsOf(u)'
      BY <1>1, <2>1, <2>2 DEF TraceInv, EndsOf, Never, Once
    <2> QED
      BY <2>3, <2>4, <2>5
  <1>5. EndsOf(t)'
    <2>1. Never("end", t)
      BY DEF TraceInv, Left
    <2> QED
      BY <1>1, <2>1 DEF EndsOf, Never
  <1> QED
    BY <1>2, <1>3, <1>4, <1>5 DEF TraceInv

\* One that writes an event leaves the other turns as they are.
LEMMA OthersKeep ==
    ASSUME TraceInv, NEW t \in Traced, NEW kind \in EventKinds, NEW event \in Events, NEW w \in Wrappers,
           event.kind = kind, event.turn = t, file' = Append(file, event),
           wrapper' = [wrapper EXCEPT ![t] = w], UNCHANGED served, w.before <= served,
           Left(t)', InOrder(t)', Worked(t)', EndsOf(t)'
    PROVE  TraceInv'
  <1>1. TraceTypes'
    BY AppendedEvent DEF TraceInv, TraceTypes
  <1>2. ASSUME NEW u \in Traced, u # t PROVE Left(u)' /\ InOrder(u)' /\ Worked(u)' /\ EndsOf(u)'
    <2>1. wrapper'[u] = wrapper[u]
      BY <1>2 DEF TraceInv, TraceTypes
    <2>2. \A k \in EventKinds : At(k, u)' = At(k, u)
      BY <1>2, AppendedEvent DEF TraceInv
    <2>3. At("start", u)' = At("start", u) /\ At("wire", u)' = At("wire", u)
            /\ At("headers", u)' = At("headers", u) /\ At("end", u)' = At("end", u)
      BY <2>2 DEF EventKinds
    <2>4. Left(u)'
      BY <2>1, <2>3 DEF TraceInv, Left, Never, Once
    <2>5. InOrder(u)' /\ Worked(u)'
      BY <2>1, <2>3 DEF TraceInv, InOrder, Follows, Worked
    <2>6. \A i \in At("end", u) : file'[i] = file[i]
      BY AppendedEvent DEF TraceInv, EventKinds
    <2>7. EndsOf(u)'
      <3>1. EndsOf(u)
        BY DEF TraceInv
      <3>2. (Never("end", u) \/ Once("end", u))'
        BY <2>3, <3>1 DEF EndsOf, Never, Once
      <3>3. ASSUME NEW i \in At("end", u)', file'[i].token
            PROVE  /\ wrapper'[u].token
                   /\ file'[i].delta \subseteq 1 .. served' - wrapper'[u].before
        <4>1. i \in At("end", u) /\ file'[i] = file[i] /\ file[i].token
          BY <2>3, <2>6, <3>3
        <4>2. wrapper[u].token /\ file[i].delta \subseteq 1 .. served - wrapper[u].before
          BY <3>1, <4>1 DEF EndsOf
        <4> QED
          BY <2>1, <4>1, <4>2
      <3> QED
        BY <3>2, <3>3 DEF EndsOf
    <2> QED
      BY <2>4, <2>5, <2>7
  <1> QED
    BY <1>1, <1>2 DEF TraceInv

LEMMA TraceStart == TraceInit => TraceInv
  <1> SUFFICES ASSUME TraceInit PROVE TraceInv
    OBVIOUS
  <1>1. TraceTypes
    BY DEF TraceInit, TraceTypes, Wrappers, WrapperPlaces, Unknown
  <1>2. \A k, u : At(k, u) = {}
    BY DEF TraceInit, At
  <1> QED
    BY <1>1, <1>2 DEF TraceInit, TraceInv, Left, Never, InOrder, Follows, Worked, EndsOf

LEMMA TraceStep == TraceInv /\ [TraceNext]_traceVars => TraceInv'
  <1> SUFFICES ASSUME TraceInv, [TraceNext]_traceVars PROVE TraceInv'
    OBVIOUS
  <1>1. CASE UNCHANGED traceVars
    BY <1>1 DEF traceVars, TraceInv, TraceTypes, Left, Never, Once, InOrder, Follows, Worked, EndsOf, At
  <1>2. CASE ServeChain
    <2>1. UNCHANGED <<wrapper, file>> /\ served' = served + 1 /\ served \in Nat \ {0}
      BY <1>2 DEF ServeChain, TraceInv, TraceTypes
    <2>2. \A k, u : At(k, u)' = At(k, u)
      BY <2>1 DEF At
    <2>3. ASSUME NEW u \in Traced PROVE Left(u)' /\ InOrder(u)' /\ Worked(u)' /\ EndsOf(u)'
      <3>1. wrapper[u].before \in Nat
        BY DEF TraceInv, TraceTypes, Wrappers
      <3>2. 1 .. served - wrapper[u].before \subseteq 1 .. served' - wrapper[u].before
        BY <2>1, <3>1
      <3>3. Left(u)' /\ InOrder(u)'
        BY <2>1, <2>2 DEF TraceInv, Left, Never, Once, InOrder, Follows
      <3>4. Worked(u)'
        BY <2>1, <3>1 DEF TraceInv, Worked
      <3>5. EndsOf(u)'
        BY <2>1, <2>2, <3>2 DEF TraceInv, EndsOf, Never, Once
      <3> QED
        BY <3>3, <3>4, <3>5
    <2>4. TraceTypes'
      <3>1. \A u \in Traced : wrapper[u].before \in Nat
        BY DEF TraceInv, TraceTypes, Wrappers
      <3> QED
        BY <2>1, <3>1 DEF TraceInv, TraceTypes
    <2> QED
      BY <2>3, <2>4 DEF TraceInv
  <1>3. ASSUME NEW t \in Traced,
               \/ Begin(t) \/ SnapshotBefore(t) \/ Send(t) \/ Serve(t) \/ Headers(t) \/ FirstDelta(t)
               \/ LeaveStream(t) \/ CancelledInside(t) \/ End(t)
        PROVE  TraceInv'
    <2>1. /\ TraceTypes /\ wrapper[t] \in Wrappers /\ wrapper[t].before \in Nat
          /\ wrapper[t].before <= served /\ served \in Nat /\ served # 0 /\ wrapper[t].token \in BOOLEAN
          /\ Left(t) /\ InOrder(t) /\ Worked(t) /\ EndsOf(t)
      BY DEF TraceInv, TraceTypes, Wrappers
    <2>2. CASE SnapshotBefore(t) \/ Serve(t) \/ FirstDelta(t) \/ LeaveStream(t) \/ CancelledInside(t)
      <3>1. \A k, u : At(k, u)' = At(k, u)
        BY <2>2 DEF SnapshotBefore, Serve, FirstDelta, LeaveStream, CancelledInside, At
      <3> DEFINE Goes(to, before, token) ==
                    wrapper' = [wrapper EXCEPT ![t] = [at |-> to, before |-> before, token |-> token]]
      <3>2. PICK to \in WrapperPlaces, before \in 0 .. served, token \in BOOLEAN :
                /\ Goes(to, before, token) /\ UNCHANGED file
                /\ served' \in {served, served + 1}
                /\ \/ /\ wrapper[t].at = "asked" /\ to = "open" /\ token = wrapper[t].token
                      /\ UNCHANGED served
                   \/ /\ wrapper[t].at = "sent" /\ to = "served" /\ served' = served + 1
                      /\ before = wrapper[t].before /\ token = wrapper[t].token
                   \/ /\ wrapper[t].at = "headers" /\ to = "streaming" /\ UNCHANGED served
                      /\ before = wrapper[t].before /\ token = TRUE
                   \/ /\ wrapper[t].at \in {"open", "sent", "served", "headers", "streaming"}
                      /\ to = "closing" /\ UNCHANGED served
                      /\ before = wrapper[t].before /\ token = wrapper[t].token
                   \/ /\ wrapper[t].at \in {"asked", "closing"} /\ to = "gone" /\ UNCHANGED served
                      /\ before = wrapper[t].before /\ token = wrapper[t].token
        <4>1. CASE SnapshotBefore(t)
          <5>1. PICK n \in Snapshot : wrapper' = [wrapper EXCEPT ![t].at = "open", ![t].before = n]
            BY <4>1 DEF SnapshotBefore
          <5>2. n \in 0 .. served
            BY <2>1, <5>1 DEF Snapshot, Unknown
          <5>3. [wrapper EXCEPT ![t].at = "open", ![t].before = n]
                    = [wrapper EXCEPT ![t] = [at |-> "open", before |-> n, token |-> wrapper[t].token]]
            <6>1. PICK r \in Wrappers : r = wrapper[t]
              BY <2>1
            <6>2. [r EXCEPT !.at = "open", !.before = n] = [at |-> "open", before |-> n, token |-> r.token]
              <7>1. [r EXCEPT !.at = "open", !.before = n] = [[r EXCEPT !.at = "open"] EXCEPT !.before = n]
                OBVIOUS
              <7>2. [r EXCEPT !.at = "open"] = [at |-> "open", before |-> r.before, token |-> r.token]
                BY DEF Wrappers
              <7>3. [[at |-> "open", before |-> r.before, token |-> r.token] EXCEPT !.before = n]
                        = [at |-> "open", before |-> n, token |-> r.token]
                OBVIOUS
              <7> QED
                BY <7>1, <7>2, <7>3
            <6>3. [wrapper EXCEPT ![t].at = "open", ![t].before = n]
                    = [wrapper EXCEPT ![t] = [wrapper[t] EXCEPT !.at = "open", !.before = n]]
              BY <2>1 DEF TraceTypes
            <6> QED
              BY <6>1, <6>2, <6>3
          <5>4. Goes("open", n, wrapper[t].token)
            BY <5>1, <5>3
          <5> QED
            BY <2>1, <4>1, <5>2, <5>4 DEF SnapshotBefore, WrapperPlaces
        <4>2. wrapper[t].before \in 0 .. served
          BY <2>1
        <4>3. CASE Serve(t)
          <5>1. Goes("served", wrapper[t].before, wrapper[t].token)
            BY <2>1, <4>3, MovedWrapper DEF Serve, Move
          <5> QED
            BY <2>1, <4>2, <4>3, <5>1 DEF Serve, WrapperPlaces
        <4>4. CASE FirstDelta(t)
          <5>1. [wrapper EXCEPT ![t].at = "streaming", ![t].token = TRUE]
                    = [wrapper EXCEPT ![t] = [at |-> "streaming", before |-> wrapper[t].before,
                                              token |-> TRUE]]
            BY <2>1, MovedWrapper
          <5>2. Goes("streaming", wrapper[t].before, TRUE)
            BY <4>4, <5>1 DEF FirstDelta
          <5> QED
            BY <2>1, <4>2, <4>4, <5>2 DEF FirstDelta, WrapperPlaces
        <4>5. CASE LeaveStream(t)
          <5>1. Goes("closing", wrapper[t].before, wrapper[t].token)
            BY <2>1, <4>5, MovedWrapper DEF LeaveStream, Move
          <5> QED
            BY <2>1, <4>2, <4>5, <5>1 DEF LeaveStream, WrapperPlaces
        <4>6. CASE CancelledInside(t)
          <5>1. Goes("gone", wrapper[t].before, wrapper[t].token)
            BY <2>1, <4>6, MovedWrapper DEF CancelledInside, Move
          <5> QED
            BY <2>1, <4>2, <4>6, <5>1 DEF CancelledInside, WrapperPlaces
        <4> QED
          BY <2>2, <4>1, <4>3, <4>4, <4>5, <4>6
      <3> DEFINE w == [at |-> to, before |-> before, token |-> token]
      <3>3. /\ w \in Wrappers /\ w.at = to /\ w.before = before /\ w.token = token
            /\ wrapper' = [wrapper EXCEPT ![t] = w] /\ wrapper'[t] = w
        BY <2>1, <3>2 DEF Wrappers, TraceTypes
      <3> HIDE DEF w, Goes
      <3>4. Left(t)'
        BY <2>1, <3>1, <3>2, <3>3 DEF Left, Never, Once
      <3>5. Worked(t)'
        BY <2>1, <3>2, <3>3 DEF Left, Worked
      <3>6. served' \in Nat /\ served <= served' /\ w.before <= served' /\ wrapper[t].at # "gone"
        BY <2>1, <3>2, <3>3
      <3> QED
        BY <3>2, <3>3, <3>4, <3>5, <3>6, SilentMove
    <2>3. CASE Begin(t) \/ Send(t) \/ Headers(t)
      <3>1. PICK kind \in {"start", "wire", "headers"}, to \in {"asked", "sent", "headers"} :
                /\ file' = Append(file, [kind |-> kind, turn |-> t, token |-> FALSE, delta |-> {}])
                /\ wrapper' = [wrapper EXCEPT ![t] = [wrapper[t] EXCEPT !.at = to]]
                /\ UNCHANGED served
                /\ \/ kind = "start" /\ to = "asked" /\ wrapper[t].at = "new"
                   \/ kind = "wire" /\ to = "sent" /\ wrapper[t].at = "open"
                   \/ kind = "headers" /\ to = "headers" /\ wrapper[t].at = "served"
        BY <2>1, <2>3 DEF Begin, Send, Headers, Move, Event, TraceTypes
      <3> DEFINE event == [kind |-> kind, turn |-> t, token |-> FALSE, delta |-> {}]
                 w == [wrapper[t] EXCEPT !.at = to]
      <3>2. event \in Events /\ event.kind = kind /\ event.turn = t /\ kind \in EventKinds
        BY DEF Events, EventKinds
      <3>3. w \in Wrappers /\ w.before = wrapper[t].before /\ w.at = to /\ w.token = wrapper[t].token
        BY <2>1 DEF Wrappers, WrapperPlaces
      <3>4. wrapper'[t] = w
        BY <2>1, <3>1 DEF TraceTypes
      <3> HIDE DEF event, w
      <3>5. /\ \A k \in EventKinds : At(k, t)' = IF k = kind THEN At(k, t) \cup {Len(file) + 1} ELSE At(k, t)
            /\ \A k \in EventKinds : \A i \in At(k, t) : i <= Len(file)
            /\ Len(file) \in Nat
        BY <2>1, <3>1, <3>2, AppendedEvent DEF event
      <3>6. /\ kind # "start" => At("start", t)' = At("start", t)
            /\ kind # "wire" => At("wire", t)' = At("wire", t)
            /\ kind # "headers" => At("headers", t)' = At("headers", t)
            /\ At("end", t)' = At("end", t)
            /\ At(kind, t)' = At(kind, t) \cup {Len(file) + 1}
        BY <3>5 DEF EventKinds
      <3>7. Never("end", t) /\ Never("end", t)'
        BY <2>1, <3>1, <3>6 DEF Left, Never
      <3>8. Left(t)'
        <4>1. \A k \in EventKinds : Never(k, t) => At(k, t) \cup {Len(file) + 1} = {Len(file) + 1}
          BY DEF Never
        <4>2. Never(kind, t)
          BY <2>1, <3>1 DEF Left
        <4>3. At(kind, t)' = {Len(file) + 1} /\ Len(file) + 1 \in Nat
          BY <3>2, <3>5, <3>6, <4>1, <4>2
        <4>4. wrapper'[t].token = FALSE
          BY <2>1, <3>1, <3>3, <3>4 DEF Left
        <4>5. CASE kind = "start"
          BY <2>1, <3>1, <3>3, <3>4, <3>6, <3>7, <4>3, <4>4, <4>5 DEF Left, Never, Once
        <4>6. CASE kind = "wire"
          BY <2>1, <3>1, <3>3, <3>4, <3>6, <3>7, <4>3, <4>4, <4>6 DEF Left, Never, Once
        <4>7. CASE kind = "headers"
          BY <2>1, <3>1, <3>3, <3>4, <3>6, <3>7, <4>3, <4>4, <4>7 DEF Left, Never, Once
        <4> QED
          BY <3>1, <4>5, <4>6, <4>7
      <3>9. InOrder(t)'
        <4>1. CASE kind = "start"
          BY <2>1, <3>1, <3>6, <3>7, <4>1 DEF InOrder, Follows, Left, Never
        <4>2. CASE kind = "wire"
          <5>1. Never("headers", t) /\ Never("wire", t) /\ \A i \in At("start", t) : i < Len(file) + 1
            BY <2>1, <3>1, <3>5, <4>2 DEF Left, EventKinds, At, TraceTypes
          <5> QED
            BY <2>1, <3>6, <3>7, <4>2, <5>1 DEF InOrder, Follows, Never
        <4>3. CASE kind = "headers"
          <5>1. Never("headers", t) /\ \A i \in At("wire", t) : i < Len(file) + 1
            BY <2>1, <3>1, <3>5, <4>3 DEF Left, EventKinds, At, TraceTypes
          <5> QED
            BY <2>1, <3>6, <3>7, <4>3, <5>1 DEF InOrder, Follows, Never
        <4> QED
          BY <4>1, <4>2, <4>3, <3>1
      <3>10. Worked(t)' /\ EndsOf(t)'
        BY <2>1, <3>1, <3>3, <3>4, <3>7 DEF Worked, EndsOf, Never
      <3> QED
        BY <2>1, <3>1, <3>2, <3>3, <3>8, <3>9, <3>10, OthersKeep DEF w, event
    <2>4. CASE End(t)
      <3>1. PICK counters \in Snapshot :
                file' = Append(file, [kind |-> "end", turn |-> t, token |-> wrapper[t].token,
                              delta |-> IF Unknown \in {counters, wrapper[t].before} THEN {}
                                        ELSE {counters - wrapper[t].before}])
        BY <2>4 DEF End
      <3> DEFINE delta == IF Unknown \in {counters, wrapper[t].before} THEN {}
                          ELSE {counters - wrapper[t].before}
                 event == [kind |-> "end", turn |-> t, token |-> wrapper[t].token, delta |-> delta]
                 w == [wrapper[t] EXCEPT !.at = "gone"]
      <3>2. delta \subseteq Nat /\ (wrapper[t].token => delta \subseteq 1 .. served - wrapper[t].before)
        BY <2>1, <3>1 DEF Snapshot, Unknown, Worked
      <3>3. /\ event \in Events /\ event.kind = "end" /\ event.turn = t
            /\ event.token = wrapper[t].token /\ event.delta = delta
        BY <2>1, <3>2 DEF Events, EventKinds
      <3>4. w \in Wrappers /\ w.before = wrapper[t].before /\ w.at = "gone" /\ w.token = wrapper[t].token
        BY <2>1 DEF Wrappers, WrapperPlaces
      <3>5. /\ wrapper' = [wrapper EXCEPT ![t] = w] /\ wrapper'[t] = w /\ UNCHANGED served
            /\ file' = Append(file, event) /\ wrapper[t].at = "closing"
        BY <2>1, <2>4, <3>1 DEF End, Move, TraceTypes
      <3> HIDE DEF delta, event, w
      <3>6. /\ \A k \in EventKinds : At(k, t)' = IF k = "end" THEN At(k, t) \cup {Len(file) + 1} ELSE At(k, t)
            /\ \A k \in EventKinds : \A i \in At(k, t) : i <= Len(file)
            /\ Len(file) \in Nat /\ file'[Len(file) + 1] = event
        BY <2>1, <3>3, <3>5, AppendedEvent DEF EventKinds
      <3>7. /\ At("start", t)' = At("start", t) /\ At("wire", t)' = At("wire", t)
            /\ At("headers", t)' = At("headers", t)
            /\ At("end", t)' = {Len(file) + 1}
            /\ \A i \in At("headers", t) : i < Len(file) + 1
        BY <2>1, <3>5, <3>6 DEF EventKinds, Left, Never, At, TraceTypes
      <3>8. Left(t)' /\ InOrder(t)'
        BY <2>1, <3>4, <3>5, <3>6, <3>7 DEF Left, Never, Once, InOrder, Follows
      <3>9. Worked(t)'
        BY <2>1, <3>4, <3>5 DEF Worked
      <3>10. EndsOf(t)'
        <4>1. Once("end", t)'
          BY <3>6, <3>7 DEF Once
        <4>2. file'[Len(file) + 1].token = wrapper[t].token /\ file'[Len(file) + 1].delta = delta
          BY <3>3, <3>6
        <4> QED
          BY <3>2, <3>4, <3>5, <3>7, <4>1, <4>2 DEF EndsOf
      <3> QED
        BY <2>1, <3>3, <3>4, <3>5, <3>8, <3>9, <3>10, OthersKeep DEF EventKinds
    <2> QED
      BY <1>3, <2>2, <2>3, <2>4
  <1> QED
    BY <1>1, <1>2, <1>3 DEF TraceNext

\* A turn that the replay tool can choose has its request in the file, each of
\* its events once and in order, and its own prompt in what the counters moved
\* by, whatever the other turns and the memory chain did meanwhile.
THEOREM TracesTellTheTurn == TraceSpec => []TraceTellsTheTurn
  <1>1. TraceInv => TraceTellsTheTurn
    <2> SUFFICES ASSUME TraceInv, NEW t \in Traced, NEW e \in At("end", t), file[e].token
                 PROVE  /\ \A kind \in {"start", "wire", "headers", "end"} :
                                Cardinality(At(kind, t)) = 1
                        /\ LET The(kind) == CHOOSE i \in At(kind, t) : TRUE
                           IN  /\ The("start") < The("wire") /\ The("wire") < The("headers")
                               /\ The("headers") < The("end")
                               /\ file[The("end")].delta \subseteq 1 .. served - wrapper[t].before
      BY DEF TraceTellsTheTurn, Choosable
    <2>1. wrapper[t].token /\ file[e].delta \subseteq 1 .. served - wrapper[t].before
      BY DEF TraceInv, EndsOf
    <2>2. wrapper[t].at # "new"
      BY <2>1 DEF TraceInv, Left
    <2>3. Once("start", t) /\ Once("wire", t) /\ Once("headers", t) /\ At("end", t) = {e}
      BY <2>1, <2>2 DEF TraceInv, Left, EndsOf, Never, Once
    <2>4. PICK a \in Nat, b \in Nat, c \in Nat :
              At("start", t) = {a} /\ At("wire", t) = {b} /\ At("headers", t) = {c}
      BY <2>3 DEF Once
    <2>5. a < b /\ b < c /\ c < e
      BY <2>3, <2>4 DEF TraceInv, InOrder, Follows
    <2>6. Cardinality({a}) = 1 /\ Cardinality({b}) = 1 /\ Cardinality({c}) = 1 /\ Cardinality({e}) = 1
      BY FS_Singleton
    <2> QED
      BY <2>1, <2>3, <2>4, <2>5, <2>6
  <1> QED
    BY <1>1, TraceStart, TraceStep, PTL DEF TraceSpec

-----------------------------------------------------------------------------
(***************************************************************************)
(* The replays.                                                            *)
(***************************************************************************)

\* g is a run of the tool.
ToolIs(g, at, mode, wanted, noise, warm, fresh, own, found) ==
    g = [at |-> at, mode |-> mode, turn |-> wanted, noise |-> noise, warm |-> warm,
         fresh |-> fresh, own |-> own, found |-> found]

PortIs(g, live, bound, held) == g = [live |-> live, bound |-> bound, cache |-> held]

Failed == [failed |-> TRUE]
WithServer == {"health", "replay", "stop"}
ToolPlaces == {"warm", "merge", "start", "write"} \cup WithServer

ServersShape ==
    /\ \/ tool = Idle
       \/ \E at \in ToolPlaces, noise \in Nat : \E mode, wanted, warm, fresh, own, found :
            ToolIs(tool, at, mode, wanted, noise, warm, fresh, own, found)
    /\ \E live, bound, held : PortIs(port, live, bound, held)
    /\ runs \in [started : Nat, interrupted : Nat]

\* A warm replay is of the turn, and a hit found it in the cache.
WarmOf(warm, wanted) == warm # None => warm.turn = wanted /\ (warm.hit => warm.was = wanted)

WarmTold ==
    /\ tool # Idle => WarmOf(tool.warm, tool.turn)
    /\ result # None => WarmOf(result.warm, result.turn)

Cold(fresh) == fresh \in {None, Failed} \/ fresh.cold

\* As long as no run was interrupted there is no server but that of the run.
FreshTold ==
    runs.interrupted = 0 =>
        /\ tool # Idle => Cold(tool.fresh)
        /\ result # None => Cold(result.fresh)
        /\ tool.at \in WithServer => port.live \subseteq {tool.own} /\ port.bound \in {0, tool.own}
        /\ tool.at \notin WithServer => port.live = {} /\ port.bound = 0
        /\ tool.at \in {"health", "replay"} /\ port.bound # 0 => port.cache = 0

ServersInv == ServersShape /\ WarmTold /\ FreshTold

LEMMA ToolFields ==
    ASSUME NEW g, NEW at, NEW mode, NEW wanted, NEW noise, NEW warm, NEW fresh, NEW own, NEW found,
           ToolIs(g, at, mode, wanted, noise, warm, fresh, own, found)
    PROVE  /\ g.at = at /\ g.mode = mode /\ g.turn = wanted /\ g.noise = noise /\ g.warm = warm
           /\ g.fresh = fresh /\ g.own = own
           /\ \A x : ToolIs([g EXCEPT !.noise = x], at, mode, wanted, x, warm, fresh, own, found)
           /\ \A x : ToolIs([g EXCEPT !.at = x], x, mode, wanted, noise, warm, fresh, own, found)
           /\ \A x, y : ToolIs([g EXCEPT !.at = x, !.own = y],
                               x, mode, wanted, noise, warm, fresh, y, found)
           /\ \A x, y : ToolIs([g EXCEPT !.at = x, !.fresh = y],
                               x, mode, wanted, noise, warm, y, own, found)
           /\ \A x, y : ToolIs([g EXCEPT !.at = x, !.warm = y],
                               x, mode, wanted, noise, y, fresh, own, found)
           /\ \A x, y, z : ToolIs([g EXCEPT !.at = x, !.warm = y, !.found = z],
                                  x, mode, wanted, noise, y, fresh, own, z)
  <1> USE DEF ToolIs
  <1>1. /\ g.at = at /\ g.mode = mode /\ g.turn = wanted /\ g.noise = noise /\ g.warm = warm
        /\ g.fresh = fresh /\ g.own = own
    OBVIOUS
  <1>2. ASSUME NEW x PROVE ToolIs([g EXCEPT !.noise = x], at, mode, wanted, x, warm, fresh, own, found)
    OBVIOUS
  <1>3. ASSUME NEW x, NEW y, NEW z
        PROVE  /\ ToolIs([g EXCEPT !.at = x], x, mode, wanted, noise, warm, fresh, own, found)
               /\ ToolIs([g EXCEPT !.at = x, !.own = y],
                         x, mode, wanted, noise, warm, fresh, y, found)
               /\ ToolIs([g EXCEPT !.at = x, !.fresh = y],
                         x, mode, wanted, noise, warm, y, own, found)
               /\ ToolIs([g EXCEPT !.at = x, !.warm = y],
                         x, mode, wanted, noise, y, fresh, own, found)
               /\ ToolIs([g EXCEPT !.at = x, !.warm = y, !.found = z],
                         x, mode, wanted, noise, y, fresh, own, z)
    <2> DEFINE h == [g EXCEPT !.at = x]
               k == [h EXCEPT !.warm = y]
    <2>1. ToolIs(h, x, mode, wanted, noise, warm, fresh, own, found)
      OBVIOUS
    <2>2. /\ [g EXCEPT !.at = x, !.own = y] = [h EXCEPT !.own = y]
          /\ [g EXCEPT !.at = x, !.fresh = y] = [h EXCEPT !.fresh = y]
          /\ [g EXCEPT !.at = x, !.warm = y] = k
          /\ [g EXCEPT !.at = x, !.warm = y, !.found = z] = [k EXCEPT !.found = z]
      OBVIOUS
    <2> HIDE DEF h
    <2>3. ToolIs([h EXCEPT !.own = y], x, mode, wanted, noise, warm, fresh, y, found)
      BY <2>1
    <2>4. ToolIs([h EXCEPT !.fresh = y], x, mode, wanted, noise, warm, y, own, found)
      BY <2>1
    <2>5. ToolIs(k, x, mode, wanted, noise, y, fresh, own, found)
      BY <2>1
    <2> HIDE DEF k
    <2>6. ToolIs([k EXCEPT !.found = z], x, mode, wanted, noise, y, fresh, own, z)
      BY <2>5
    <2> HIDE DEF ToolIs
    <2> QED
      BY <2>1, <2>2, <2>3, <2>4, <2>5, <2>6 DEF h
  <1> HIDE DEF ToolIs
  <1> QED
    BY <1>1, <1>2, <1>3

LEMMA PortFields ==
    ASSUME NEW g, NEW live, NEW bound, NEW held, PortIs(g, live, bound, held)
    PROVE  /\ g.live = live /\ g.bound = bound /\ g.cache = held
           /\ \A x : PortIs([g EXCEPT !.live = x], x, bound, held)
           /\ \A x : PortIs([g EXCEPT !.cache = x], live, bound, x)
           /\ \A x, y : PortIs([g EXCEPT !.bound = x, !.cache = y], live, x, y)
           /\ \A x, y : PortIs([g EXCEPT !.live = x, !.bound = y], x, y, held)
  <1> USE DEF PortIs
  <1>1. g.live = live /\ g.bound = bound /\ g.cache = held
    OBVIOUS
  <1>2. ASSUME NEW x, NEW y
        PROVE  /\ PortIs([g EXCEPT !.live = x], x, bound, held)
               /\ PortIs([g EXCEPT !.cache = x], live, bound, x)
               /\ PortIs([g EXCEPT !.bound = x, !.cache = y], live, x, y)
               /\ PortIs([g EXCEPT !.live = x, !.bound = y], x, y, held)
    <2> DEFINE h == [g EXCEPT !.bound = x]
               k == [g EXCEPT !.live = x]
    <2>1. PortIs(h, live, x, held)
      OBVIOUS
    <2>2. PortIs(k, x, bound, held)
      OBVIOUS
    <2>3. PortIs([g EXCEPT !.cache = x], live, bound, x)
      OBVIOUS
    <2>4. /\ [g EXCEPT !.bound = x, !.cache = y] = [h EXCEPT !.cache = y]
          /\ [g EXCEPT !.live = x, !.bound = y] = [k EXCEPT !.bound = y]
      OBVIOUS
    <2> HIDE DEF h, k
    <2>5. PortIs([h EXCEPT !.cache = y], live, x, y)
      BY <2>1
    <2>6. PortIs([k EXCEPT !.bound = y], x, y, held)
      BY <2>2
    <2> HIDE DEF PortIs
    <2> QED
      BY <2>2, <2>3, <2>4, <2>5, <2>6 DEF k
  <1> HIDE DEF PortIs
  <1> QED
    BY <1>1, <1>2

LEMMA ReplaysHold == ServersInv => ReplaysAsReported
  <1> SUFFICES ASSUME ServersInv PROVE ReplaysAsReported
    OBVIOUS
  <1>1. Idle.at \notin WithServer
    BY DEF Idle, WithServer
  <1> QED
    BY <1>1 DEF ServersInv, WarmTold, WarmOf, FreshTold, Cold, Failed, ReplaysAsReported

LEMMA ServersStart == ServersInit => ServersInv
  <1> SUFFICES ASSUME ServersInit PROVE ServersInv
    OBVIOUS
  <1>1. /\ tool = Idle /\ result = None /\ port = [live |-> {}, bound |-> 0, cache |-> 0]
        /\ runs = [started |-> 0, interrupted |-> 0]
    BY DEF ServersInit
  <1>2. ServersShape
    <2>1. PortIs(port, {}, 0, 0)
      BY <1>1 DEF PortIs
    <2>2. \E live, bound, held : PortIs(port, live, bound, held)
      BY <2>1
    <2> QED
      BY <1>1, <2>2 DEF ServersShape
  <1>3. WarmTold /\ FreshTold
    BY <1>1 DEF WarmTold, FreshTold, Idle, WithServer
  <1> QED
    BY <1>2, <1>3 DEF ServersInv

-----------------------------------------------------------------------------
\* Where the run is, and what it holds.
LEMMA AtPlace ==
    ASSUME ServersShape, tool # Idle
    PROVE  \E at \in ToolPlaces, noise \in Nat : \E mode, wanted, warm, fresh, own, found :
                ToolIs(tool, at, mode, wanted, noise, warm, fresh, own, found)
  BY DEF ServersShape

LEMMA Shaped ==
    ASSUME NEW at \in ToolPlaces, NEW noise \in Nat, NEW mode, NEW wanted, NEW warm, NEW fresh,
           NEW own, NEW found, ToolIs(tool', at, mode, wanted, noise, warm, fresh, own, found),
           NEW live, NEW bound, NEW held, PortIs(port', live, bound, held),
           runs' \in [started : Nat, interrupted : Nat]
    PROVE  ServersShape' /\ tool' # Idle
  <1>1. ServersShape'
    BY DEF ServersShape
  <1>2. tool'.at = at
    BY ToolFields
  <1> QED
    BY <1>1, <1>2 DEF Idle, ToolPlaces, WithServer

LEMMA ConverseStep == ServersInv /\ Converse => ServersInv'
  <1> SUFFICES ASSUME ServersInv, Converse PROVE ServersInv'
    OBVIOUS
  <1>1. ServersShape /\ WarmTold /\ FreshTold /\ UNCHANGED <<result, port, runs>>
    BY DEF ServersInv, Converse
  <1>2. CASE tool.at # "warm"
    <2>1. tool' = tool
      BY <1>2 DEF Converse
    <2> QED
      BY <1>1, <2>1 DEF ServersInv, ServersShape, WarmTold, FreshTold
  <1>3. CASE tool.at = "warm"
    <2>1. tool # Idle
      BY <1>3 DEF Idle
    <2>2. PICK at \in ToolPlaces, noise \in Nat : \E mode, wanted, warm, fresh, own, found :
                ToolIs(tool, at, mode, wanted, noise, warm, fresh, own, found)
      BY <1>1, <2>1, AtPlace
    <2>3. PICK mode, wanted, warm, fresh, own, found :
                ToolIs(tool, at, mode, wanted, noise, warm, fresh, own, found)
      BY <2>2
    <2>4. tool.noise = noise /\ tool.at = at /\ tool.turn = wanted /\ tool.warm = warm
          /\ tool.fresh = fresh /\ tool.own = own
      BY <2>3, ToolFields
    <2>5. ToolIs(tool', at, mode, wanted, noise + 1, warm, fresh, own, found)
      <3>1. ToolIs([tool EXCEPT !.noise = noise + 1], at, mode, wanted, noise + 1, warm, fresh, own, found)
        BY <2>3, ToolFields
      <3> QED
        BY <1>3, <2>4, <3>1 DEF Converse
    <2>6. tool'.at = at /\ tool'.turn = wanted /\ tool'.warm = warm /\ tool'.fresh = fresh
          /\ tool'.own = own
      BY <2>5, ToolFields
    <2>7. ServersShape'
      <3>1. PICK live, bound, held : PortIs(port', live, bound, held)
        BY <1>1 DEF ServersShape
      <3>2. noise + 1 \in Nat /\ runs' \in [started : Nat, interrupted : Nat]
        BY <1>1 DEF ServersShape
      <3> QED
        BY <2>5, <3>1, <3>2, Shaped
    <2>8. tool' # Idle
      BY <1>3, <2>4, <2>6 DEF Idle
    <2>9. WarmTold' /\ FreshTold'
      BY <1>1, <2>1, <2>4, <2>6, <2>8 DEF WarmTold, FreshTold
    <2> QED
      BY <2>7, <2>9 DEF ServersInv
  <1> QED
    BY <1>2, <1>3

LEMMA RunStartStep == ServersInv /\ Start => ServersInv'
  <1> SUFFICES ASSUME ServersInv, Start PROVE ServersInv'
    OBVIOUS
  <1>1. ServersShape /\ WarmTold /\ FreshTold /\ UNCHANGED <<traced, cache, result, port>> /\ tool = Idle
    BY DEF ServersInv, Start
  <1>2. PICK mode, captured :
            tool' = [at |-> IF mode = "fresh-only" THEN "merge" ELSE "warm", mode |-> mode,
                     turn |-> captured,
                     noise |-> 0, warm |-> None, fresh |-> None, own |-> 0, found |-> None]
    BY DEF Start
  <1> DEFINE at == IF mode = "fresh-only" THEN "merge" ELSE "warm"
  <1>3. ToolIs(tool', at, mode, captured, 0, None, None, 0, None)
    BY <1>2 DEF ToolIs
  <1>4. at \in {"merge", "warm"} /\ at \in ToolPlaces
    BY DEF ToolPlaces
  <1> HIDE DEF at
  <1>5. tool'.at = at /\ tool'.turn = captured /\ tool'.warm = None /\ tool'.fresh = None
    BY <1>3, ToolFields
  <1>6. /\ runs' \in [started : Nat, interrupted : Nat] /\ runs'.interrupted = runs.interrupted
    BY <1>1 DEF ServersShape, Start
  <1>7. ServersShape' /\ tool' # Idle
    <2>1. PICK live, bound, held : PortIs(port', live, bound, held)
      BY <1>1 DEF ServersShape
    <2> QED
      BY <1>3, <1>4, <1>6, <2>1, Shaped
  <1>8. WarmTold'
    BY <1>1, <1>5 DEF WarmTold, WarmOf
  <1>9. FreshTold'
    <2>1. Idle.at \notin WithServer /\ at \notin WithServer
      BY <1>4 DEF Idle, WithServer
    <2> QED
      BY <1>1, <1>4, <1>5, <1>6, <1>7, <2>1 DEF FreshTold, Cold
  <1> QED
    BY <1>7, <1>8, <1>9 DEF ServersInv

LEMMA WarmStep == ServersInv /\ (Warm \/ Merge) => ServersInv'
  <1> SUFFICES ASSUME ServersInv, Warm \/ Merge PROVE ServersInv'
    OBVIOUS
  <1>1. ServersShape /\ WarmTold /\ FreshTold /\ UNCHANGED <<traced, result, port, runs>>
    BY DEF ServersInv, Warm, Merge
  <1>2. tool.at \in {"warm", "merge"} /\ tool # Idle
    BY DEF Warm, Merge, Idle
  <1>3. PICK at0 \in ToolPlaces, noise \in Nat : \E mode, wanted, warm, fresh, own, found :
                ToolIs(tool, at0, mode, wanted, noise, warm, fresh, own, found)
    BY <1>1, <1>2, AtPlace
  <1>4. PICK mode, wanted, warm, fresh, own, found :
                ToolIs(tool, at0, mode, wanted, noise, warm, fresh, own, found)
    BY <1>3
  <1>5. tool.noise = noise /\ tool.at = at0 /\ tool.turn = wanted /\ tool.warm = warm
        /\ tool.fresh = fresh /\ tool.own = own /\ tool.mode = mode
    BY <1>4, ToolFields
  <1>6. \E at \in {"start", "write"} : \E w, f :
            /\ ToolIs(tool', at, mode, wanted, noise, w, fresh, own, f) /\ WarmOf(w, wanted)
    <2>1. CASE Warm
      <3> DEFINE evaluated == noise + (IF cache = wanted THEN 0 ELSE 1)
                 w == [turn |-> wanted, hit |-> evaluated = 0, was |-> cache]
                 at == IF mode = "both" THEN "start" ELSE "write"
      <3>1. tool' = [tool EXCEPT !.at = at, !.warm = w]
        BY <2>1, <1>5 DEF Warm
      <3>2. w.turn = wanted /\ w.was = cache /\ (w.hit => evaluated = 0)
        OBVIOUS
      <3>3. evaluated = 0 => cache = wanted
        OBVIOUS
      <3>4. WarmOf(w, wanted) /\ at \in {"start", "write"}
        BY <3>2, <3>3 DEF WarmOf
      <3> HIDE DEF w, at
      <3>5. ToolIs(tool', at, mode, wanted, noise, w, fresh, own, found)
        BY <1>4, <3>1, ToolFields
      <3> QED
        BY <3>4, <3>5
    <2>2. CASE Merge
      <3> DEFINE w == Merged(result, wanted)
      <3>1. tool' = [tool EXCEPT !.at = "start", !.warm = w, !.found = result]
        BY <2>2, <1>5 DEF Merge
      <3>2. WarmOf(w, wanted)
        BY <1>1 DEF WarmTold, WarmOf, Merged
      <3> HIDE DEF w
      <3>3. ToolIs(tool', "start", mode, wanted, noise, w, fresh, own, result)
        BY <1>4, <3>1, ToolFields
      <3> QED
        BY <3>2, <3>3
    <2> QED
      BY <2>1, <2>2
  <1>7. PICK at \in {"start", "write"} : \E w, f :
            /\ ToolIs(tool', at, mode, wanted, noise, w, fresh, own, f) /\ WarmOf(w, wanted)
    BY <1>6
  <1>8. PICK w, f : ToolIs(tool', at, mode, wanted, noise, w, fresh, own, f) /\ WarmOf(w, wanted)
    BY <1>7
  <1>9. tool'.at = at /\ tool'.turn = wanted /\ tool'.warm = w /\ tool'.fresh = fresh
    BY <1>8, ToolFields
  <1>10. ServersShape' /\ tool' # Idle
    <2>1. PICK live, bound, held : PortIs(port', live, bound, held)
      BY <1>1 DEF ServersShape
    <2>2. at \in ToolPlaces /\ runs' \in [started : Nat, interrupted : Nat]
      BY <1>1 DEF ToolPlaces, ServersShape
    <2> QED
      BY <1>8, <2>1, <2>2, Shaped
  <1>11. WarmTold'
    BY <1>1, <1>8, <1>9, <1>10 DEF WarmTold
  <1>12. FreshTold'
    <2>1. tool.at \notin WithServer /\ at \notin WithServer /\ at \notin {"health", "replay"}
      BY <1>2 DEF WithServer
    <2> QED
      BY <1>1, <1>2, <1>5, <1>9, <1>10, <2>1 DEF FreshTold
  <1> QED
    BY <1>10, <1>11, <1>12 DEF ServersInv

-----------------------------------------------------------------------------
\* A step of the run and of the servers on the port.
LEMMA RunMoves ==
    ASSUME ServersInv, tool # Idle, UNCHANGED <<result, runs>>,
           NEW at \in ToolPlaces, NEW noise \in Nat, NEW mode, NEW wanted, NEW warm, NEW fresh,
           NEW own, NEW found, ToolIs(tool', at, mode, wanted, noise, warm, fresh, own, found),
           NEW live, NEW bound, NEW held, PortIs(port', live, bound, held),
           tool.turn = wanted, tool.warm = warm, runs.interrupted = 0 => Cold(fresh),
           runs.interrupted = 0 =>
                /\ at \in WithServer => live \subseteq {own} /\ bound \in {0, own}
                /\ at \notin WithServer => live = {} /\ bound = 0
                /\ at \in {"health", "replay"} /\ bound # 0 => held = 0
    PROVE  ServersInv'
  <1>1. ServersShape /\ WarmTold /\ FreshTold
    BY DEF ServersInv
  <1>2. runs' \in [started : Nat, interrupted : Nat]
    BY <1>1 DEF ServersShape
  <1>3. ServersShape' /\ tool' # Idle
    BY <1>2, Shaped
  <1>4. tool'.at = at /\ tool'.turn = wanted /\ tool'.warm = warm /\ tool'.fresh = fresh /\ tool'.own = own
    BY DEF ToolIs
  <1>5. port'.live = live /\ port'.bound = bound /\ port'.cache = held
    BY PortFields
  <1>6. WarmTold'
    BY <1>1, <1>3, <1>4 DEF WarmTold
  <1>7. FreshTold'
    BY <1>1, <1>3, <1>4, <1>5 DEF FreshTold
  <1> QED
    BY <1>3, <1>6, <1>7 DEF ServersInv

\* A server listens, or dies.
LEMMA PortMoves ==
    ASSUME ServersInv, UNCHANGED <<tool, result, runs>>,
           NEW live, NEW bound, NEW held, PortIs(port', live, bound, held),
           runs.interrupted = 0 =>
                /\ tool.at \in WithServer => live \subseteq {tool.own} /\ bound \in {0, tool.own}
                /\ tool.at \notin WithServer => live = {} /\ bound = 0
                /\ tool.at \in {"health", "replay"} /\ bound # 0 => held = 0
    PROVE  ServersInv'
  <1>1. ServersShape /\ WarmTold /\ FreshTold
    BY DEF ServersInv
  <1>2. ServersShape'
    BY <1>1 DEF ServersShape
  <1>3. port'.live = live /\ port'.bound = bound /\ port'.cache = held
    BY PortFields
  <1>4. WarmTold'
    BY <1>1 DEF WarmTold
  <1>5. FreshTold'
    BY <1>1, <1>3 DEF FreshTold
  <1> QED
    BY <1>2, <1>4, <1>5 DEF ServersInv

LEMMA ProcessStep == ASSUME ServersInv, NEW p \in port.live, Listen(p) \/ Die(p) PROVE ServersInv'
  <1>1. ServersShape /\ FreshTold /\ UNCHANGED <<tool, result, runs>>
    BY DEF ServersInv, Listen, Die
  <1>2. PICK live, bound, held : PortIs(port, live, bound, held)
    BY <1>1 DEF ServersShape
  <1>3. port.live = live /\ port.bound = bound /\ port.cache = held /\ p \in live
    BY <1>2, PortFields
  <1>4. runs.interrupted = 0 =>
            /\ tool.at \in WithServer => live \subseteq {tool.own} /\ bound \in {0, tool.own}
            /\ tool.at \notin WithServer => live = {} /\ bound = 0
            /\ tool.at \in {"health", "replay"} /\ bound # 0 => held = 0
    BY <1>1, <1>3 DEF FreshTold
  <1>5. CASE port' = [port EXCEPT !.bound = p, !.cache = 0]
    <2>1. PortIs(port', live, p, 0)
      BY <1>2, <1>5, PortFields
    <2>2. runs.interrupted = 0 =>
            /\ tool.at \in WithServer => live \subseteq {tool.own} /\ p \in {0, tool.own}
            /\ tool.at \notin WithServer => live = {} /\ p = 0
            /\ tool.at \in {"health", "replay"} /\ p # 0 => 0 = 0
      BY <1>3, <1>4
    <2> QED
      BY <1>1, <2>1, <2>2, PortMoves
  <1>6. CASE port' = [port EXCEPT !.live = @ \ {p}]
    <2>1. port' = [port EXCEPT !.live = live \ {p}]
      BY <1>3, <1>6
    <2>2. \A x : PortIs([port EXCEPT !.live = x], x, bound, held)
      BY <1>2, PortFields
    <2>3. PortIs(port', live \ {p}, bound, held)
      BY <2>1, <2>2
    <2>4. runs.interrupted = 0 =>
            /\ tool.at \in WithServer => live \ {p} \subseteq {tool.own} /\ bound \in {0, tool.own}
            /\ tool.at \notin WithServer => live \ {p} = {} /\ bound = 0
            /\ tool.at \in {"health", "replay"} /\ bound # 0 => held = 0
      BY <1>4
    <2> QED
      BY <1>1, <2>3, <2>4, PortMoves
  <1> QED
    BY <1>5, <1>6 DEF Listen, Die

\* The fresh server from its start to its end.
LEMMA FreshStep ==
    ServersInv /\ (StartFresh \/ WaitHealth \/ Fresh \/ StopFresh) => ServersInv'
  <1> SUFFICES ASSUME ServersInv, StartFresh \/ WaitHealth \/ Fresh \/ StopFresh PROVE ServersInv'
    OBVIOUS
  <1>1. ServersShape /\ FreshTold /\ UNCHANGED <<result, runs>>
    BY DEF ServersInv, StartFresh, WaitHealth, Fresh, StopFresh
  <1>2. tool.at \in {"start", "health", "replay", "stop"} /\ tool # Idle
    BY DEF StartFresh, WaitHealth, Fresh, StopFresh, Idle
  <1>3. PICK at0 \in ToolPlaces, noise \in Nat : \E mode, wanted, warm, fresh, own, found :
                ToolIs(tool, at0, mode, wanted, noise, warm, fresh, own, found)
    BY <1>1, <1>2, AtPlace
  <1>4. PICK mode, wanted, warm, fresh, own, found :
                ToolIs(tool, at0, mode, wanted, noise, warm, fresh, own, found)
    BY <1>3
  <1>5. tool.at = at0 /\ tool.turn = wanted /\ tool.warm = warm /\ tool.fresh = fresh /\ tool.own = own
    BY <1>4, ToolFields
  <1>6. PICK live, bound, held : PortIs(port, live, bound, held)
    BY <1>1 DEF ServersShape
  <1>7. port.live = live /\ port.bound = bound /\ port.cache = held
    BY <1>6, PortFields
  <1>8. runs.interrupted = 0 =>
            /\ Cold(fresh)
            /\ at0 \in WithServer => live \subseteq {own} /\ bound \in {0, own}
            /\ at0 \notin WithServer => live = {} /\ bound = 0
            /\ at0 \in {"health", "replay"} /\ bound # 0 => held = 0
    BY <1>1, <1>2, <1>5, <1>7 DEF FreshTold
  <1>9. /\ {"health", "replay", "stop", "write"} \subseteq ToolPlaces
        /\ {"health", "replay", "stop"} \subseteq WithServer
        /\ "start" \notin WithServer /\ "write" \notin WithServer /\ Cold(Failed)
    BY DEF ToolPlaces, WithServer, Cold
  <1>10. CASE StartFresh
    <2>1. at0 = "start"
      BY <1>5, <1>10 DEF StartFresh
    <2>2. CASE tool' = [tool EXCEPT !.at = "health", !.own = runs.started]
               /\ port' = [port EXCEPT !.live = @ \cup {runs.started}]
      <3>1. ToolIs(tool', "health", mode, wanted, noise, warm, fresh, runs.started, found)
        BY <1>4, <2>2, ToolFields
      <3>2. port' = [port EXCEPT !.live = live \cup {runs.started}]
        BY <1>7, <2>2
      <3>3. \A x : PortIs([port EXCEPT !.live = x], x, bound, held)
        BY <1>6, PortFields
      <3>4. PortIs(port', live \cup {runs.started}, bound, held)
        BY <3>2, <3>3
      <3>5. runs.interrupted = 0 =>
                live \cup {runs.started} \subseteq {runs.started} /\ bound = 0
        BY <1>8, <1>9, <2>1
      <3> QED
        BY <1>1, <1>2, <1>5, <1>8, <1>9, <3>1, <3>4, <3>5, RunMoves
    <2>3. CASE tool' = [tool EXCEPT !.at = "write", !.fresh = Failed] /\ port' = port
      <3>1. ToolIs(tool', "write", mode, wanted, noise, warm, Failed, own, found)
        BY <1>4, <2>3, ToolFields
      <3>2. PortIs(port', live, bound, held)
        BY <1>6, <2>3
      <3> QED
        BY <1>1, <1>2, <1>5, <1>8, <1>9, <2>1, <3>1, <3>2, RunMoves
    <2> QED
      BY <1>10, <2>2, <2>3 DEF StartFresh, Failed
  <1>11. CASE WaitHealth
    <2>1. at0 = "health" /\ PortIs(port', live, bound, held)
      BY <1>5, <1>6, <1>11 DEF WaitHealth
    <2>2. CASE tool' = [tool EXCEPT !.at = "replay"]
      <3>1. ToolIs(tool', "replay", mode, wanted, noise, warm, fresh, own, found)
        BY <1>4, <2>2, ToolFields
      <3> QED
        BY <1>1, <1>2, <1>5, <1>8, <1>9, <2>1, <3>1, RunMoves
    <2>3. CASE tool' = [tool EXCEPT !.at = "stop", !.fresh = Failed]
      <3>1. ToolIs(tool', "stop", mode, wanted, noise, warm, Failed, own, found)
        BY <1>4, <2>3, ToolFields
      <3> QED
        BY <1>1, <1>2, <1>5, <1>8, <1>9, <2>1, <3>1, RunMoves
    <2> QED
      BY <1>11, <2>2, <2>3 DEF WaitHealth, Failed
  <1>12. CASE Fresh
    <2>1. at0 = "replay"
      BY <1>5, <1>12 DEF Fresh
    <2>2. CASE bound = 0
      <3>1. tool' = [tool EXCEPT !.at = "stop", !.fresh = Failed] /\ port' = port
        BY <1>7, <1>12, <2>2 DEF Fresh, Failed
      <3>2. ToolIs(tool', "stop", mode, wanted, noise, warm, Failed, own, found)
        BY <1>4, <3>1, ToolFields
      <3>3. PortIs(port', live, bound, held)
        BY <1>6, <3>1
      <3> QED
        BY <1>1, <1>2, <1>5, <1>8, <1>9, <2>1, <3>2, <3>3, RunMoves
    <2>3. CASE bound # 0
      <3> DEFINE f == [turn |-> wanted, cold |-> held = 0]
      <3>1. tool' = [tool EXCEPT !.at = "stop", !.fresh = f] /\ port' = [port EXCEPT !.cache = wanted]
        BY <1>5, <1>7, <1>12, <2>3 DEF Fresh
      <3>2. runs.interrupted = 0 => Cold(f)
        BY <1>8, <2>1, <2>3 DEF Cold
      <3> HIDE DEF f
      <3>3. ToolIs(tool', "stop", mode, wanted, noise, warm, f, own, found)
        BY <1>4, <3>1, ToolFields
      <3>4. PortIs(port', live, bound, wanted)
        BY <1>6, <3>1, PortFields
      <3> QED
        BY <1>1, <1>2, <1>5, <1>8, <1>9, <2>1, <3>2, <3>3, <3>4, RunMoves
    <2> QED
      BY <2>2, <2>3
  <1>13. CASE StopFresh
    <2>1. at0 = "stop"
      BY <1>5, <1>13 DEF StopFresh
    <2> DEFINE b == IF bound \in {own} THEN 0 ELSE bound
    <2>2. tool' = [tool EXCEPT !.at = "write"]
          /\ port' = [port EXCEPT !.live = live \ {own}, !.bound = b]
      BY <1>5, <1>7, <1>13 DEF StopFresh, Gone
    <2>3. ToolIs(tool', "write", mode, wanted, noise, warm, fresh, own, found)
      BY <1>4, <2>2, ToolFields
    <2>4. runs.interrupted = 0 => live \ {own} = {} /\ b = 0
      BY <1>8, <1>9, <2>1
    <2> HIDE DEF b
    <2>5. PortIs(port', live \ {own}, b, held)
      BY <1>6, <2>2, PortFields
    <2> QED
      BY <1>1, <1>2, <1>5, <1>8, <1>9, <2>3, <2>4, <2>5, RunMoves
  <1> QED
    BY <1>10, <1>11, <1>12, <1>13

\* The run is over, with its result or without.
LEMMA OverStep == ServersInv /\ (Write \/ Interrupt) => ServersInv'
  <1> SUFFICES ASSUME ServersInv, Write \/ Interrupt PROVE ServersInv'
    OBVIOUS
  <1>1. /\ ServersShape /\ WarmTold /\ FreshTold /\ UNCHANGED port /\ tool' = Idle /\ tool # Idle
        /\ Idle.at \notin WithServer /\ Idle.at \notin {"health", "replay"}
    BY DEF ServersInv, Write, Interrupt, Idle, WithServer
  <1>2. CASE Write
    <2>1. /\ result'.turn = tool.turn /\ result'.warm = tool.warm /\ result'.fresh = tool.fresh
          /\ runs' = runs /\ tool.at \notin WithServer
      BY <1>2 DEF Write, Written, WithServer
    <2>2. ServersShape'
      BY <1>1, <2>1 DEF ServersShape
    <2>3. WarmTold'
      BY <1>1, <2>1 DEF WarmTold
    <2>4. FreshTold'
      BY <1>1, <2>1 DEF FreshTold
    <2> QED
      BY <2>2, <2>3, <2>4 DEF ServersInv
  <1>3. CASE Interrupt
    <2>1. /\ result' = result /\ runs' \in [started : Nat, interrupted : Nat]
          /\ runs'.interrupted # 0
      BY <1>1, <1>3 DEF Interrupt, ServersShape
    <2>2. ServersShape' /\ WarmTold' /\ FreshTold'
      BY <1>1, <2>1 DEF ServersShape, WarmTold, FreshTold
    <2> QED
      BY <2>2 DEF ServersInv
  <1> QED
    BY <1>2, <1>3

\* A replay reported as a hit was one, a fresh one met an empty cache, and no
\* server of the tool outlives a run that was not interrupted.
THEOREM ReplaysAreReported == ServersSpec => []ReplaysAsReported
  <1>1. ServersInv /\ [ServersNext]_serverVars => ServersInv'
    <2> SUFFICES ASSUME ServersInv, [ServersNext]_serverVars PROVE ServersInv'
      OBVIOUS
    <2>1. ASSUME NEW p \in port.live, Listen(p) \/ Die(p) PROVE ServersInv'
      BY <2>1, ProcessStep
    <2>2. CASE UNCHANGED serverVars
      BY <2>2 DEF serverVars, ServersInv, ServersShape, WarmTold, FreshTold
    <2> QED
      BY <2>1, <2>2, ConverseStep, RunStartStep, WarmStep, FreshStep, OverStep DEF ServersNext
  <1> QED
    BY <1>1, ServersStart, ReplaysHold, PTL DEF ServersSpec

-----------------------------------------------------------------------------
(***************************************************************************)
(* The verdict on a captured turn.  What makes the match work is the order *)
(* of the log: the lines of a turn stand together, start, token and end,   *)
(* and no later turn begins before them.  So a turn that came to its end   *)
(* has it two lines behind its start, and the next token and the next end  *)
(* after a start are its own.                                              *)
(***************************************************************************)

LineKinds == {"start", "token", "done"}
LogLine == [kind : LineKinds, turn : Nat, chars : Nat]

\* Between two lines, the turn has gone on, or they are of one turn in order.
LineFollows(a, b) ==
    \/ a.turn < b.turn
    \/ a.turn = b.turn /\ a.kind = "start" /\ b.kind # "start"
    \/ a.turn = b.turn /\ a.kind = "token" /\ b.kind = "done"

LinesInOrder == \A i \in DOMAIN chain : \A k \in DOMAIN chain : i < k => LineFollows(chain[i], chain[k])

\* A token and an end stand right behind the line they belong to.
Together ==
    \A i \in DOMAIN chain :
        /\ chain[i].kind = "token" =>
                i - 1 \in DOMAIN chain /\ chain[i - 1].kind = "start" /\ chain[i - 1].turn = chain[i].turn
        /\ chain[i].kind = "done" =>
                i - 1 \in DOMAIN chain /\ chain[i - 1].kind = "token"
                  /\ chain[i - 1].turn = chain[i].turn

VerdictInv ==
    /\ chain \in Seq(LogLine)
    /\ LinesInOrder
    /\ Together
    /\ sample = NoSample \/ sample \in {s \in Samples : Possible(s)}

LEMMA VerdictStart == VerdictInit => VerdictInv
  BY DEF VerdictInit, VerdictInv, LinesInOrder, Together

\* A line that follows every line, and stands behind the one it belongs to.
LEMMA LineAdded ==
    ASSUME VerdictInv, NEW l \in LogLine, chain' = Append(chain, l),
           \A i \in DOMAIN chain : LineFollows(chain[i], l),
           l.kind = "token" =>
                chain # <<>> /\ chain[Len(chain)].kind = "start" /\ chain[Len(chain)].turn = l.turn,
           l.kind = "done" =>
                chain # <<>> /\ chain[Len(chain)].kind = "token" /\ chain[Len(chain)].turn = l.turn
    PROVE  chain' \in Seq(LogLine) /\ LinesInOrder' /\ Together'
  <1>1. chain \in Seq(LogLine) /\ LinesInOrder /\ Together
    BY DEF VerdictInv
  <1> DEFINE n == Len(chain)
  <1>2. n \in Nat /\ DOMAIN chain = 1 .. n /\ (chain # <<>> => n \in 1 .. n)
    BY <1>1, EmptySeq, LenProperties
  <1>3. /\ chain' \in Seq(LogLine) /\ Len(chain') = n + 1
        /\ \A i \in 1 .. n : chain'[i] = chain[i]
        /\ chain'[n + 1] = l
    BY <1>1, AppendProperties
  <1>6. DOMAIN chain' = 1 .. n + 1
    BY <1>3, LenProperties
  <1> HIDE DEF n
  <1>4. LinesInOrder'
    <2> SUFFICES ASSUME NEW i \in 1 .. n + 1, NEW k \in 1 .. n + 1, i < k
                 PROVE  LineFollows(chain'[i], chain'[k])
      BY <1>6 DEF LinesInOrder
    <2>1. i \in 1 .. n /\ i \in DOMAIN chain /\ chain'[i] = chain[i]
      BY <1>2, <1>3
    <2>2. CASE k = n + 1
      BY <1>3, <2>1, <2>2
    <2>3. CASE k # n + 1
      <3>1. k \in DOMAIN chain /\ chain'[k] = chain[k]
        BY <1>2, <1>3, <2>3
      <3> QED
        BY <1>1, <2>1, <3>1 DEF LinesInOrder
    <2> QED
      BY <2>2, <2>3
  <1>5. Together'
    <2> SUFFICES ASSUME NEW i \in 1 .. n + 1
                 PROVE  /\ chain'[i].kind = "token" =>
                            /\ i - 1 \in DOMAIN chain' /\ chain'[i - 1].kind = "start"
                            /\ chain'[i - 1].turn = chain'[i].turn
                        /\ chain'[i].kind = "done" =>
                            /\ i - 1 \in DOMAIN chain' /\ chain'[i - 1].kind = "token"
                            /\ chain'[i - 1].turn = chain'[i].turn
      BY <1>6 DEF Together
    <2>1. CASE i = n + 1
      <3>1. i - 1 = n /\ chain'[i] = l
        BY <1>2, <1>3, <2>1
      <3>2. chain # <<>> => i - 1 \in DOMAIN chain' /\ chain'[i - 1] = chain[n]
        BY <1>2, <1>3, <1>6, <3>1
      <3> QED
        BY <3>1, <3>2 DEF n
    <2>2. CASE i # n + 1
      <3>1. i \in DOMAIN chain /\ chain'[i] = chain[i]
        BY <1>2, <1>3, <2>2
      <3>2. i - 1 \in DOMAIN chain => i - 1 \in DOMAIN chain' /\ chain'[i - 1] = chain[i - 1]
        BY <1>2, <1>3, <1>6
      <3> QED
        BY <1>1, <3>1, <3>2 DEF Together
    <2> QED
      BY <2>1, <2>2
  <1> QED
    BY <1>3, <1>4, <1>5

LEMMA LogStep == VerdictInv /\ Log => VerdictInv'
  <1> SUFFICES ASSUME VerdictInv, Log PROVE VerdictInv'
    OBVIOUS
  <1> DEFINE none == [kind |-> "done", turn |-> 0, chars |-> 0]
             last == IF chain = <<>> THEN none ELSE chain[Len(chain)]
  <1>1. chain \in Seq(LogLine) /\ LinesInOrder /\ Together /\ UNCHANGED sample
    BY DEF VerdictInv, Log
  <1>2. /\ chain # <<>> => Len(chain) \in DOMAIN chain /\ chain[Len(chain)] \in LogLine
        /\ \A i \in DOMAIN chain : i \in 1 .. Len(chain) /\ chain[i] \in LogLine
    BY <1>1
  <1>3. last \in LogLine /\ last.kind \in LineKinds /\ last.turn \in Nat
    BY <1>2 DEF LogLine, LineKinds
  <1>4. ASSUME NEW i \in DOMAIN chain
        PROVE  chain # <<>> /\ last = chain[Len(chain)] /\ (i = Len(chain) \/ LineFollows(chain[i], last))
                /\ chain[i].turn \in Nat
    BY <1>1, <1>2 DEF LinesInOrder, LogLine
  <1>5. \/ chain' = Append(chain, [kind |-> "start", turn |-> last.turn + 1, chars |-> 0])
        \/ last.kind = "start" /\ chain' = Append(chain, [last EXCEPT !.kind = "token"])
        \/ /\ last.kind = "token"
           /\ \E n \in 1 .. MaxChars : chain' = Append(chain, [last EXCEPT !.kind = "done", !.chars = n])
    BY DEF Log, Last
  <1> HIDE DEF last
  <1>6. CASE chain' = Append(chain, [kind |-> "start", turn |-> last.turn + 1, chars |-> 0])
    <2> DEFINE l == [kind |-> "start", turn |-> last.turn + 1, chars |-> 0]
    <2>1. l \in LogLine /\ l.kind = "start" /\ l.turn = last.turn + 1
      BY <1>3 DEF LogLine, LineKinds
    <2>2. \A i \in DOMAIN chain : LineFollows(chain[i], l)
      BY <1>3, <1>4, <2>1 DEF LineFollows
    <2>3. chain' = Append(chain, l)
      BY <1>6
    <2> HIDE DEF l
    <2> QED
      BY <1>1, <2>1, <2>2, <2>3, LineAdded DEF VerdictInv
  <1>7. CASE last.kind = "start" /\ chain' = Append(chain, [last EXCEPT !.kind = "token"])
    <2> DEFINE l == [last EXCEPT !.kind = "token"]
    <2>1. l \in LogLine /\ l.kind = "token" /\ l.turn = last.turn
      BY <1>3 DEF LogLine, LineKinds
    <2>2. \A i \in DOMAIN chain : LineFollows(chain[i], l)
      BY <1>3, <1>4, <1>7, <2>1 DEF LineFollows
    <2>3. chain' = Append(chain, l)
      BY <1>7
    <2>4. chain # <<>> /\ last = chain[Len(chain)]
      BY <1>7 DEF last
    <2> HIDE DEF l
    <2> QED
      BY <1>1, <1>7, <2>1, <2>2, <2>3, <2>4, LineAdded DEF VerdictInv
  <1>8. CASE /\ last.kind = "token"
             /\ \E n \in 1 .. MaxChars : chain' = Append(chain, [last EXCEPT !.kind = "done", !.chars = n])
    <2>1. PICK n \in 1 .. MaxChars : chain' = Append(chain, [last EXCEPT !.kind = "done", !.chars = n])
      BY <1>8
    <2> DEFINE l == [last EXCEPT !.kind = "done", !.chars = n]
    <2>2. l \in LogLine /\ l.kind = "done" /\ l.turn = last.turn
      <3> DEFINE h == [last EXCEPT !.kind = "done"]
      <3>1. n \in Nat
        BY ReplayVerdictAssumption
      <3>2. h \in LogLine /\ h.kind = "done" /\ h.turn = last.turn
        BY <1>3 DEF LogLine, LineKinds
      <3>3. l = [h EXCEPT !.chars = n]
        OBVIOUS
      <3> HIDE DEF h, l
      <3> QED
        BY <3>1, <3>2, <3>3 DEF LogLine
    <2>3. \A i \in DOMAIN chain : LineFollows(chain[i], l)
      BY <1>3, <1>4, <1>8, <2>2 DEF LineFollows
    <2>4. chain' = Append(chain, l)
      BY <2>1
    <2>5. chain # <<>> /\ last = chain[Len(chain)]
      BY <1>8 DEF last
    <2> HIDE DEF l
    <2> QED
      BY <1>1, <1>8, <2>2, <2>3, <2>4, <2>5, LineAdded DEF VerdictInv
  <1> QED
    BY <1>5, <1>6, <1>7, <1>8

-----------------------------------------------------------------------------
\* A kind of line is there once in a turn.
LEMMA OnceInTurn ==
    ASSUME VerdictInv, NEW i \in DOMAIN chain, NEW k \in DOMAIN chain,
           chain[i].turn = chain[k].turn, chain[i].kind = chain[k].kind
    PROVE  i = k
  <1>1. /\ chain \in Seq(LogLine) /\ DOMAIN chain = 1 .. Len(chain) /\ Len(chain) \in Nat
        /\ chain[i] \in LogLine /\ chain[k] \in LogLine /\ LinesInOrder
    BY DEF VerdictInv
  <1>2. ~(i < k) /\ ~(k < i)
    BY <1>1 DEF LinesInOrder, LineFollows, LogLine
  <1> QED
    BY <1>1, <1>2

\* A turn that came to its end has its three lines in a row, and they are what
\* the tool looks for.
LEMMA ThreeInARow ==
    ASSUME VerdictInv, NEW t \in Turns, Complete(t)
    PROVE  \E i \in OfKind("start") :
              /\ i + 1 \in DOMAIN chain /\ i + 2 \in DOMAIN chain
              /\ chain[i].turn = t /\ chain[i + 2].turn = t
              /\ NextOf("token", i) = i + 1 /\ NextOf("done", i) = i + 2
              /\ LineOf(t, "start") = {i} /\ LineOf(t, "done") = {i + 2}
  <1>1. /\ chain \in Seq(LogLine) /\ DOMAIN chain = 1 .. Len(chain) /\ Len(chain) \in Nat
        /\ Together
    BY DEF VerdictInv
  <1>2. PICK d \in DOMAIN chain : chain[d].kind = "done" /\ chain[d].turn = t
    BY DEF Complete, LineOf, OfKind
  <1>3. d - 1 \in DOMAIN chain /\ chain[d - 1].kind = "token" /\ chain[d - 1].turn = t
    BY <1>1, <1>2 DEF Together
  <1>4. (d - 1) - 1 \in DOMAIN chain /\ chain[(d - 1) - 1].kind = "start" /\ chain[(d - 1) - 1].turn = t
    BY <1>1, <1>3 DEF Together
  <1> DEFINE i == (d - 1) - 1
  <1>5. i \in Nat /\ i + 1 = d - 1 /\ i + 2 = d /\ d \in Nat /\ d <= Len(chain)
    BY <1>1, <1>2, <1>4
  <1>6. i \in OfKind("start") /\ i + 1 \in OfKind("token") /\ i + 2 \in OfKind("done")
    BY <1>2, <1>3, <1>4, <1>5 DEF OfKind
  <1> HIDE DEF i
  <1>7. NextOf("token", i) = i + 1
    <2> DEFINE S == {k \in OfKind("token") : k > i} \cup {Len(chain) + 1}
    <2>1. i + 1 \in S /\ \A k \in S : k \in Nat /\ i + 1 <= k
      BY <1>1, <1>5, <1>6 DEF OfKind
    <2>2. Min(S) = i + 1
      <3> HIDE DEF S
      <3> QED
        BY <1>5, <2>1 DEF Min
    <2> QED
      BY <2>2 DEF NextOf
  <1>8. NextOf("done", i) = i + 2
    <2> DEFINE S == {k \in OfKind("done") : k > i} \cup {Len(chain) + 1}
    <2>1. i + 2 \in S
      BY <1>5, <1>6
    <2>2. i + 1 \notin OfKind("done")
      BY <1>6 DEF OfKind
    <2>3. \A k \in S : k \in Nat /\ i + 2 <= k
      BY <1>1, <1>5, <2>2 DEF OfKind
    <2>4. Min(S) = i + 2
      <3> HIDE DEF S
      <3> QED
        BY <1>5, <2>1, <2>3 DEF Min
    <2> QED
      BY <2>4 DEF NextOf
  <1>9. chain[i].turn = t /\ chain[i + 2].turn = t
    BY <1>2, <1>4, <1>5 DEF i
  <1>10. LineOf(t, "start") = {i}
    <2>1. i \in LineOf(t, "start")
      BY <1>6, <1>9 DEF LineOf
    <2>2. ASSUME NEW k \in LineOf(t, "start") PROVE k = i
      BY <1>6, <1>9, OnceInTurn DEF LineOf, OfKind
    <2> QED
      BY <2>1, <2>2
  <1>11. LineOf(t, "done") = {i + 2}
    <2>1. i + 2 \in LineOf(t, "done")
      BY <1>6, <1>9 DEF LineOf
    <2>2. ASSUME NEW k \in LineOf(t, "done") PROVE k = i + 2
      BY <1>6, <1>9, OnceInTurn DEF LineOf, OfKind
    <2> QED
      BY <2>1, <2>2
  <1>12. i + 1 \in DOMAIN chain /\ i + 2 \in DOMAIN chain
    BY <1>6 DEF OfKind
  <1> QED
    BY <1>6, <1>7, <1>8, <1>9, <1>10, <1>11, <1>12

\* The turn is matched with its own lines.
LEMMA Matched == VerdictInv => MatchedWithItself
  <1> SUFFICES ASSUME VerdictInv, \A t \in Turns : Complete(t),
                      NEW t \in Turns, \A u \in Turns \ {t} : LengthOf(u) # LengthOf(t)
               PROVE  Chosen(LengthOf(t), SecondsOf(t)) = StartOf(t)
    BY DEF MatchedWithItself
  <1>1. PICK i \in OfKind("start") :
              /\ i + 1 \in DOMAIN chain /\ i + 2 \in DOMAIN chain
              /\ chain[i].turn = t /\ chain[i + 2].turn = t
              /\ NextOf("token", i) = i + 1 /\ NextOf("done", i) = i + 2
              /\ LineOf(t, "start") = {i} /\ LineOf(t, "done") = {i + 2}
    BY ThreeInARow
  <1>2. LengthOf(t) = chain[i + 2].chars /\ StartOf(t) = i
    BY <1>1 DEF LengthOf, StartOf
  <1> DEFINE fitting == {k \in Candidates : chain[NextOf("done", k)].chars = LengthOf(t)}
  <1>3. i \in fitting
    BY <1>1, <1>2 DEF Candidates
  <1>4. ASSUME NEW k \in fitting PROVE k = i
    <2>1. k \in OfKind("start") /\ k \in DOMAIN chain /\ chain[k].turn \in Turns
      BY DEF Candidates, OfKind, Turns
    <2> DEFINE u == chain[k].turn
    <2>2. PICK j \in OfKind("start") :
              /\ j + 1 \in DOMAIN chain /\ j + 2 \in DOMAIN chain
              /\ chain[j].turn = u /\ chain[j + 2].turn = u
              /\ NextOf("token", j) = j + 1 /\ NextOf("done", j) = j + 2
              /\ LineOf(u, "start") = {j} /\ LineOf(u, "done") = {j + 2}
      BY <2>1, ThreeInARow
    <2>3. k \in LineOf(u, "start") /\ k = j
      BY <2>1, <2>2 DEF LineOf
    <2>4. LengthOf(u) = chain[j + 2].chars
      BY <2>2 DEF LengthOf
    <2>5. chain[NextOf("done", k)].chars = LengthOf(t)
      OBVIOUS
    <2>6. LengthOf(u) = LengthOf(t)
      BY <2>2, <2>3, <2>4, <2>5
    <2>7. u = t
      BY <2>1, <2>6
    <2> QED
      BY <1>1, <2>2, <2>3, <2>7
  <1>5. fitting = {i}
    BY <1>3, <1>4
  <1>6. Min({i}) = i
    <2>1. i \in Nat
      BY <1>1 DEF OfKind, VerdictInv
    <2> QED
      BY <2>1 DEF Min
  <1>7. Chosen(LengthOf(t), SecondsOf(t)) = Min(fitting)
    BY <1>5 DEF Chosen
  <1> QED
    BY <1>2, <1>5, <1>6, <1>7

\* The delay is put where it was.
LEMMA Located == VerdictInv => DelayLocated
  <1> SUFFICES ASSUME VerdictInv, sample # NoSample, FirstToken(sample) >= SlowThreshold
               PROVE  /\ sample.long = "entry" => Case(sample) = "E"
                      /\ sample.long = "token" => Case(sample) = "G"
                      /\ sample.long \in {"headers", "line"} => Case(sample) \in {"A", "B", "C", "F"}
                      /\ Case(sample) \in {"B", "C"} => ReproducesOn(sample)
    BY DEF DelayLocated
  <1> DEFINE d == sample.delay
             s == sample.short
             p == sample.prompt
  <1>1. /\ sample.long \in Phases /\ d \in Delays /\ s \in Shorts
        /\ p \in Shorts \cup Delays \cup {NotMeasured} /\ Possible(sample)
    BY DEF VerdictInv, Samples
  <1>2. d \in Nat /\ s \in Nat /\ p \in Int /\ 2 * s <= d
    <2>1. d \in Nat /\ s \in Nat /\ p \in Int
      <3>1. Delays \subseteq Nat /\ Shorts \subseteq Nat /\ NotMeasured \in Int
        BY ReplayVerdictAssumption DEF NotMeasured
      <3> HIDE DEF d, s, p
      <3> QED
        BY <1>1, <3>1
    <2>2. \A delay \in Delays, short \in Shorts : 2 * short <= delay
      BY ReplayVerdictAssumption
    <2>3. 2 * s <= d
      BY <1>1, <2>2
    <2> QED
      BY <2>1, <2>3
  <1>3. d + 4 * s >= 30 /\ FirstToken(sample) = d + 4 * s /\ ~(FirstToken(sample) < SlowThreshold)
    BY <1>2 DEF FirstToken, SlowThreshold
  <1>4. d >= 10
    BY <1>2, <1>3
  <1>5. p > s => sample.long \in {"headers", "line"} /\ p <= d
    BY <1>1 DEF Possible
  <1> HIDE DEF d, s, p
  <1>6. ASSUME NEW phase \in Phases
        PROVE  Time(sample, phase) = IF sample.long = phase THEN d ELSE s
    BY DEF Time, d, s
  <1>7. sample.long = "entry" => BeforeHttp(sample)
    BY <1>2, <1>3, <1>4, <1>6 DEF BeforeHttp, PreHttp, Phases
  <1>8. sample.long # "entry" => ~BeforeHttp(sample)
    BY <1>2, <1>3, <1>4, <1>6 DEF BeforeHttp, PreHttp, Phases
  <1>9. sample.long = "token" => Streaming(sample)
    <2> SUFFICES ASSUME sample.long = "token" PROVE Streaming(sample)
      OBVIOUS
    <2>1. Time(sample, "token") = d
      BY <1>6 DEF Phases
    <2>2. ~(p > s)
      BY <1>5
    <2>3. 10 * p < 3 * (d + 4 * s)
      BY <1>2, <1>4, <2>2
    <2> QED
      BY <1>2, <1>3, <1>4, <2>1, <2>3 DEF Streaming, p
  <1>10. sample.long = "token" => ~InsideServer(sample)
    <2> SUFFICES ASSUME sample.long = "token" PROVE ~InsideServer(sample)
      OBVIOUS
    <2>1. Time(sample, "headers") = s /\ Time(sample, "line") = s
      BY <1>6 DEF Phases
    <2>2. ~(p > s)
      BY <1>5
    <2>3. ~(2 * (s + s) >= d + 4 * s) /\ ~(2 * p >= d + 4 * s)
      BY <1>2, <1>4, <2>2
    <2> QED
      BY <1>3, <2>1, <2>3 DEF InsideServer, p
  <1>11. sample.long \in {"headers", "line"} => InsideServer(sample)
    <2> SUFFICES ASSUME sample.long \in {"headers", "line"} PROVE InsideServer(sample)
      OBVIOUS
    <2>1. Time(sample, "headers") + Time(sample, "line") = d + s
      BY <1>2, <1>6 DEF Phases
    <2>2. 2 * (d + s) >= d + 4 * s /\ d + s >= 5
      BY <1>2, <1>4
    <2> QED
      BY <1>3, <2>1, <2>2 DEF InsideServer
  <1> QED
    BY <1>3, <1>7, <1>8, <1>9, <1>10, <1>11 DEF Case

-----------------------------------------------------------------------------
\* The turn of the log that the report speaks of is the captured one, whenever
\* the log tells the turns apart, and the place it names is that of the delay.
THEOREM VerdictsAreTrue == VerdictSpec => []VerdictIsTheTurns
  <1>1. VerdictInit => VerdictInv
    BY VerdictStart
  <1>2. VerdictInv /\ [VerdictNext]_verdictVars => VerdictInv'
    <2> SUFFICES ASSUME VerdictInv, [VerdictNext]_verdictVars PROVE VerdictInv'
      OBVIOUS
    <2>1. CASE Log
      BY <2>1, LogStep
    <2>2. CASE Measure
      BY <2>2 DEF Measure, VerdictInv, LinesInOrder, Together, LineFollows
    <2>3. CASE UNCHANGED verdictVars
      BY <2>3 DEF verdictVars, VerdictInv, LinesInOrder, Together, LineFollows
    <2> QED
      BY <2>1, <2>2, <2>3 DEF VerdictNext
  <1>3. VerdictInv => VerdictIsTheTurns
    BY Matched, Located DEF VerdictIsTheTurns
  <1> QED
    BY <1>1, <1>2, <1>3, PTL DEF VerdictSpec
=============================================================================
