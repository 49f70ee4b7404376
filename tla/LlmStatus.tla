----------------------------- MODULE LlmStatus ------------------------------
(***************************************************************************)
(* What the pipeline panel shows of the language model, and everything     *)
(* that paints it (app/web_server.py): the turns of all sessions begin and *)
(* end processing spans on the chip, the health loop and /api/pipeline     *)
(* repaint it from answers of llama-server, the startup probe asks the     *)
(* server for one real reply, and the selection of another model renames   *)
(* the chip.                                                               *)
(***************************************************************************)
EXTENDS Naturals, ComponentStatus

CONSTANTS
    Sessions,    \* browser sessions
    Models,      \* GGUF files that can be selected
    MaxAttempts  \* startup probes before the loop gives up

ASSUME StatusAssumption == MaxAttempts \in Nat \ {0} /\ Models # {}

VARIABLES
    server,      \* llama-server: "down", "mute" (healthy, no reply), "up"
    chip,        \* the LLM chip
    detail,      \* the model it names, or "url"
    selected,    \* the model selected
    loop,        \* health loop: "sleep", the answer in flight, or "probe"
    verified, attempts,
    probeFailed, \* llm_probe_failed
    asked,       \* the answer in flight to an /api/pipeline request
    turn,        \* where each session's turn is
    answered,    \* history: the server has replied since the last failed probe
    cut          \* history: a turn was cancelled in its LLM span

probeVars == <<verified, attempts, probeFailed>>
vars == <<server, chip, detail, selected, loop, verified, attempts, probeFailed, asked,
          turn, answered, cut>>

Answers == {"healthy", "unhealthy"}

TypeOK ==
    /\ server \in {"down", "mute", "up"}
    /\ chip \in Chip
    /\ detail \in Models \cup {"url"} /\ selected \in Models
    /\ loop \in {"sleep", "probe"} \cup Answers
    /\ verified \in BOOLEAN /\ attempts \in 0 .. MaxAttempts /\ probeFailed \in BOOLEAN
    /\ asked \in {"none"} \cup Answers
    /\ turn \in [Sessions -> {"none", "prompt", "started", "stream"}]
    /\ answered \in BOOLEAN /\ cut \in BOOLEAN

\* WebComponents.build: nothing was asked yet, the chip is optimistic.
Init ==
    /\ server \in {"down", "mute", "up"}
    /\ chip = NewChip("ready")
    /\ selected \in Models /\ detail = selected
    /\ loop = "sleep" /\ verified = FALSE /\ attempts = 0 /\ probeFailed = FALSE
    /\ asked = "none"
    /\ turn = [s \in Sessions |-> "none"]
    /\ answered = FALSE /\ cut = FALSE

-----------------------------------------------------------------------------
(* The health loop and the startup probe.                                  *)

Health == IF server = "down" THEN "unhealthy" ELSE "healthy"

\* The server is stopped, started, or stops answering.
ServerChanges ==
    /\ server' \in {"down", "mute", "up"} \ {server}
    /\ UNCHANGED <<chip, detail, selected, loop, probeVars, asked, turn, answered, cut>>

Ask ==
    /\ loop = "sleep" /\ loop' = Health
    /\ UNCHANGED <<server, chip, detail, selected, probeVars, asked, turn, answered, cut>>

\* The end of a round in which the server was healthy: a turn keeps the chip,
\* and so does an error until a reply was verified.
PaintHealthy(v) ==
    IF chip.state # "processing" /\ (v \/ chip.state # "error")
    THEN chip' = Set(chip, "ready") /\ detail' = selected
    ELSE UNCHANGED <<chip, detail>>

\* The answer arrives: a probe is sent while none has been answered.
Healthy ==
    /\ loop = "healthy"
    /\ IF ~verified /\ attempts < MaxAttempts
       THEN /\ attempts' = attempts + 1 /\ loop' = "probe"
            /\ UNCHANGED <<chip, detail>>
       ELSE /\ PaintHealthy(verified) /\ loop' = "sleep"
            /\ attempts' = attempts
    /\ UNCHANGED <<server, selected, verified, probeFailed, asked, turn, answered, cut>>

\* Variant of Unhealthy: what was verified before the outage stays verified.
UnhealthyKeepsVerified ==
    /\ loop = "unhealthy" /\ loop' = "sleep"
    /\ probeFailed' = FALSE
    /\ IF verified THEN chip' = chip ELSE chip' = Set(chip, "error")
    /\ UNCHANGED <<server, detail, selected, verified, attempts, asked, turn, answered, cut>>

\* An outage starts the verification over.
Unhealthy ==
    /\ loop = "unhealthy" /\ loop' = "sleep"
    /\ verified' = FALSE /\ attempts' = 0 /\ probeFailed' = FALSE
    /\ chip' = Set(chip, "error")
    /\ UNCHANGED <<server, detail, selected, asked, turn, answered, cut>>

\* _verify_llm_reply is answered with text, or not: no reply, an exception,
\* 60 s.
ProbeAnswered ==
    /\ loop = "probe" /\ loop' = "sleep" /\ server = "up"
    /\ verified' = TRUE /\ probeFailed' = FALSE /\ answered' = TRUE
    /\ PaintHealthy(TRUE)
    /\ UNCHANGED <<server, selected, attempts, asked, turn, cut>>

ProbeFails ==
    /\ loop = "probe" /\ loop' = "sleep"
    /\ probeFailed' = TRUE /\ answered' = FALSE
    /\ chip' = Set(chip, "error")
    /\ UNCHANGED <<server, detail, selected, verified, attempts, asked, turn, cut>>

HealthLoop == Ask \/ Healthy \/ Unhealthy \/ ProbeAnswered \/ ProbeFails

-----------------------------------------------------------------------------
(* Requests.                                                               *)

ApiAsk ==
    /\ asked = "none" /\ asked' = Health
    /\ UNCHANGED <<server, chip, detail, selected, loop, probeVars, turn, answered, cut>>

\* Variant of Repaints: /health is proof enough.
RepaintsTrusting == asked = "healthy" /\ chip.state = "error"

\* An error the probe itself reported stays.
Repaints == asked = "healthy" /\ chip.state = "error" /\ ~probeFailed

\* api_pipeline gets its own answer and repaints the chip.
ApiAnswer ==
    /\ asked # "none" /\ asked' = "none"
    /\ \/ asked = "unhealthy" /\ chip' = Set(chip, "error") /\ detail' = detail
       \/ Repaints /\ chip' = Set(chip, "ready") /\ detail' = "url"
       \/ asked = "healthy" /\ ~Repaints /\ UNCHANGED <<chip, detail>>
    /\ UNCHANGED <<server, selected, loop, probeVars, turn, answered, cut>>

\* apply_llm_model_selection, reset_llm_model_selection: a turn that is in
\* its LLM call keeps the chip.
Select(m) ==
    /\ m # selected /\ selected' = m
    /\ detail' = IF chip.state = "processing" THEN detail ELSE m
    /\ UNCHANGED <<server, chip, loop, probeVars, asked, turn, answered, cut>>

Requests == ApiAsk \/ ApiAnswer \/ \E m \in Models : Select(m)

-----------------------------------------------------------------------------
(* Turns.                                                                  *)

TurnStep(s, from, to) ==
    /\ turn[s] = from /\ turn' = [turn EXCEPT ![s] = to]
    /\ UNCHANGED <<server, detail, selected, loop, probeVars, asked>>

TurnBegins(s) == TurnStep(s, "none", "prompt") /\ UNCHANGED <<chip, answered, cut>>

\* The stage event begins the span, and begin() again before the call.
LlmBegins(s) ==
    /\ TurnStep(s, "prompt", "started") \/ TurnStep(s, "started", "stream")
    /\ chip' = Begun(chip)
    /\ UNCHANGED <<answered, cut>>

Replied(s) ==
    /\ TurnStep(s, "stream", "none") /\ server = "up"
    /\ chip' = Completed(chip) /\ answered' = TRUE /\ cut' = cut

\* LlmUnavailableError.
LlmFails(s) ==
    /\ TurnStep(s, "stream", "none")
    /\ chip' = Set(chip, "error") /\ UNCHANGED <<answered, cut>>

\* _guarded_turn marks the chip as failed when it is processing.
TurnCrashes(s) ==
    /\ \E from \in {"prompt", "started", "stream"} : TurnStep(s, from, "none")
    /\ chip' = IF chip.state = "processing" THEN Set(chip, "error") ELSE chip
    /\ UNCHANGED <<answered, cut>>

\* A barge-in, a superseding turn or a disconnect cancels the turn, which
\* closes no span.
TurnCut(s) ==
    /\ \E from \in {"prompt", "started", "stream"} : TurnStep(s, from, "none")
    /\ cut' = (cut \/ turn[s] # "prompt")
    /\ UNCHANGED <<chip, answered>>

TurnOf(s) ==
    \/ TurnBegins(s) \/ LlmBegins(s) \/ Replied(s) \/ LlmFails(s)
    \/ TurnCrashes(s) \/ TurnCut(s)

Next == ServerChanges \/ HealthLoop \/ Requests \/ \E s \in Sessions : TurnOf(s)

Spec == Init /\ [][Next]_vars

\* The health loop runs for ever: its requests and its probe have timeouts.
FairSpec == Spec /\ WF_vars(HealthLoop)

-----------------------------------------------------------------------------
(* Properties.                                                             *)

\* "/health == 200 does NOT prove the model answers": after a failed probe
\* the chip is green only once the server has really replied, whatever
\* /api/pipeline, the loop and the turns of all sessions painted in between.
GreenMeansAnswered == probeFailed /\ chip.state = "ready" => answered

\* A chip that says "processing" has a turn in its LLM call, unless a turn
\* was cancelled there: neither a failure nor a crash leaves it so.
ProcessingIsWork ==
    chip.state = "processing" => cut \/ \E s \in Sessions : turn[s] \in {"started", "stream"}

\* A server that stays down is shown as down again and again, however turns
\* repaint the chip.
DownIsShown == <>[](server = "down") => []<>(chip.state = "error")

\* The chip is neither green nor busy without a reason.
ChipHonest == TypeOK /\ GreenMeansAnswered /\ ProcessingIsWork

=============================================================================
