------------------------------ MODULE WebTurns ------------------------------
(***************************************************************************)
(* The turns of one web session (WebSession in app/web_server.py): how     *)
(* they are started, superseded, interrupted and torn down.                *)
(*                                                                         *)
(* Two tasks of the session act on its turns: the receive loop (typed      *)
(* turns, teardown) and the audio loop (spoken turns, barge-in).  Both     *)
(* cancel the current turn's task, wait for its end and then go on, with   *)
(* one field, _turn_task, between them.  Code between two suspensions is   *)
(* atomic; a step here is what a task does from one suspension to the next.*)
(***************************************************************************)
EXTENDS Integers, Sequences, FiniteSets

CONSTANTS
    MaxTurns,   \* bound on the turns of the session
    Inputs      \* the sets of inputs users may use: "voice", "text"

ASSUME TurnsAssumption == MaxTurns \in Nat
ASSUME InputsAssumption == Inputs \subseteq SUBSET {"voice", "text"}

VARIABLES
    inputs,     \* the inputs the user of this session uses
    closed,     \* _closed
    at,         \* program counters of the receive and the audio loop
    awaited,    \* the turns whose end each loop awaits
    turnTask,   \* _turn_task, or None
    turn,       \* program counter of each turn's task
    cancelled,  \* turns whose task was asked to cancel
    inSpeech,   \* _in_speech
    tail,       \* _playback_tail_active()
    gate,       \* the memory gate: "armed", or "free" to open
    heard,      \* turns with audio sent (a non-empty sent_text)
    voice,      \* the turn that sent audio last, or None
    loose,      \* turns whose speak worker outlives them
    history,    \* _history, an entry for each exchange
    submitted   \* turns submitted to the memory gate

vars == <<inputs, closed, at, awaited, turnTask, turn, cancelled, inSpeech, tail,
          gate, heard, voice, loose, history, submitted>>

-----------------------------------------------------------------------------
Turns == 1 .. MaxTurns
None == 0
Loops == {"receive", "audio"}

\* prepare: memory search and emotion; stream: the LLM answers and the speak
\* worker speaks; telling: the user is told that the LLM is unavailable; drain:
\* the rest is spoken; report: answer_done is sent; failing: a failure is sent.
Phases == {"unborn", "prepare", "stream", "telling", "drain", "report", "failing", "done"}

\* A turn in history was answered, cut off while heard, or cut off unheard.
Entries == [turn : Turns, how : {"answered", "cut", "asked"}]

Live(n) == turn[n] \notin {"unborn", "done"}

Answering == turnTask # None /\ Live(turnTask)

Hearing == Answering \/ tail

Born == Cardinality({n \in Turns : turn[n] # "unborn"})

\* Operations under way that may start a turn.
Starting == (IF inSpeech THEN 1 ELSE 0)
              + Cardinality({p \in Loops : at[p] \in {"asr", "superseding", "announcing"}})

MayStart == Born + Starting < MaxTurns

TypeOK ==
    /\ inputs \in Inputs
    /\ closed \in BOOLEAN
    /\ at \in [Loops -> {"idle", "asr", "superseding", "announcing", "breaking",
                         "closing", "ended"}]
    /\ awaited \in [Loops -> SUBSET Turns]
    /\ turnTask \in Turns \cup {None}
    /\ turn \in [Turns -> Phases]
    /\ cancelled \subseteq Turns
    /\ inSpeech \in BOOLEAN
    /\ tail \in BOOLEAN
    /\ gate \in {"armed", "free"}
    /\ heard \subseteq Turns
    /\ voice \in Turns \cup {None}
    /\ loose \subseteq Turns
    /\ history \in Seq(Entries)
    /\ submitted \subseteq Turns

Init ==
    /\ inputs \in Inputs
    /\ closed = FALSE
    /\ at = [p \in Loops |-> "idle"]
    /\ awaited = [p \in Loops |-> {}]
    /\ turnTask = None
    /\ turn = [n \in Turns |-> "unborn"]
    /\ cancelled = {}
    /\ inSpeech = FALSE
    /\ tail = FALSE
    /\ gate = "free"
    /\ heard = {}
    /\ voice = None
    /\ loose = {}
    /\ history = <<>>
    /\ submitted = {}

-----------------------------------------------------------------------------
(* Starting a turn: _cancel_turn and _start_turn.                          *)

\* The loops run as long as the session is not closed.
Home == IF closed THEN "ended" ELSE "idle"

\* The last part of _start_turn: a typed turn drops a partial utterance.
Begin(p) ==
    LET n == Born + 1 IN
    /\ turn' = [turn EXCEPT ![n] = "prepare"]
    /\ turnTask' = n
    /\ gate' = "armed"
    /\ inSpeech' = (inSpeech /\ p = "audio")
    /\ at' = [at EXCEPT ![p] = Home]

\* _start_turn behind _cancel_turn: what the browser still plays is stopped
\* by a message, the sending of which may suspend the loop.
Takeover(p) ==
    /\ awaited' = [awaited EXCEPT ![p] = {}]
    /\ tail' = FALSE
    /\ IF tail /\ ~closed
         THEN /\ at' = [at EXCEPT ![p] = "announcing"]
              /\ turnTask' = None
              /\ UNCHANGED <<turn, gate, inSpeech>>
         ELSE Begin(p)

\* Cancel the current turn's task and wait for it.
AwaitCancelled(p, pc) ==
    /\ at' = [at EXCEPT ![p] = pc]
    /\ awaited' = [awaited EXCEPT ![p] = {turnTask}]
    /\ cancelled' = cancelled \cup {turnTask}

\* Variants of Supersede: the running turn is not cancelled; its end is not awaited.
SupersedeUnseen(p) ==
    Takeover(p) /\ UNCHANGED cancelled
SupersedeAtOnce(p) ==
    /\ Takeover(p)
    /\ cancelled' = IF Answering THEN cancelled \cup {turnTask} ELSE cancelled

Supersede(p) ==
    \/ /\ Answering
       /\ AwaitCancelled(p, "superseding")
       /\ UNCHANGED <<turnTask, turn, gate, inSpeech, tail>>
    \/ /\ ~Answering
       /\ Takeover(p)
       /\ UNCHANGED cancelled

TypedTurn ==
    /\ "text" \in inputs
    /\ at["receive"] = "idle"
    /\ MayStart
    /\ Supersede("receive")
    /\ UNCHANGED <<inputs, closed, heard, voice, loose, history, submitted>>

\* The loop whose victim has ended goes on.
Superseded(p) ==
    /\ at[p] = "superseding"
    /\ \A n \in awaited[p] : turn[n] = "done"
    /\ Takeover(p)
    /\ UNCHANGED <<inputs, closed, cancelled, heard, voice, loose, history, submitted>>

Announced(p) ==
    /\ at[p] = "announcing"
    /\ Begin(p)
    /\ UNCHANGED <<inputs, closed, awaited, cancelled, tail, heard, voice, loose, history,
                   submitted>>

-----------------------------------------------------------------------------
(* The audio loop: _on_vad_frame and _interrupt_turn.                      *)

SpeechStart ==
    /\ "voice" \in inputs
    /\ at["audio"] = "idle"
    /\ ~Hearing
    /\ ~inSpeech
    /\ MayStart
    /\ inSpeech' = TRUE
    /\ gate' = "armed"
    /\ UNCHANGED <<inputs, closed, at, awaited, turnTask, turn, cancelled, tail, heard,
                   voice, loose, history, submitted>>

SpeechEnd ==
    /\ at["audio"] = "idle"
    /\ ~Hearing
    /\ inSpeech
    /\ inSpeech' = FALSE
    /\ at' = [at EXCEPT !["audio"] = "asr"]
    /\ UNCHANGED <<inputs, closed, awaited, turnTask, turn, cancelled, tail, gate, heard,
                   voice, loose, history, submitted>>

SpokenTurn ==
    /\ at["audio"] = "asr"
    /\ Supersede("audio")
    /\ UNCHANGED <<inputs, closed, heard, voice, loose, history, submitted>>

NoTranscript ==
    /\ at["audio"] = "asr"
    /\ at' = [at EXCEPT !["audio"] = "idle"]
    /\ UNCHANGED <<inputs, closed, awaited, turnTask, turn, cancelled, inSpeech, tail, gate,
                   heard, voice, loose, history, submitted>>

\* _interrupt_turn behind its wait.
Interrupt ==
    /\ turnTask' = None
    /\ tail' = FALSE
    /\ gate' = "free"
    /\ awaited' = [awaited EXCEPT !["audio"] = {}]
    /\ at' = [at EXCEPT !["audio"] = Home]

BargeIn ==
    /\ "voice" \in inputs
    /\ at["audio"] = "idle"
    /\ Hearing
    /\ \/ /\ Answering
          /\ AwaitCancelled("audio", "breaking")
          /\ UNCHANGED <<turnTask, tail, gate>>
       \/ /\ ~Answering
          /\ Interrupt
          /\ UNCHANGED cancelled
    /\ UNCHANGED <<inputs, closed, turn, inSpeech, heard, voice, loose, history, submitted>>

Interrupted ==
    /\ at["audio"] = "breaking"
    /\ \A n \in awaited["audio"] : turn[n] = "done"
    /\ Interrupt
    /\ UNCHANGED <<inputs, closed, turn, cancelled, inSpeech, heard, voice, loose, history,
                   submitted>>

-----------------------------------------------------------------------------
(* Teardown: the end of run and _cancel_session_tasks.                     *)

\* All tasks known now are cancelled.  A loop that awaits its victim takes
\* the cancellation for the victim's and goes on; elsewhere it ends.
Disconnect ==
    /\ at["receive"] = "idle"
    /\ closed' = TRUE
    /\ cancelled' = cancelled \cup {n \in Turns : Live(n)}
    /\ awaited' = [awaited EXCEPT !["receive"] = {n \in Turns : Live(n)}]
    /\ at' = [at EXCEPT !["receive"] = "closing",
                        !["audio"] = IF @ \in {"superseding", "breaking"}
                                       THEN @ ELSE "ended"]
    /\ UNCHANGED <<inputs, turnTask, turn, inSpeech, tail, gate, heard, voice, loose, history,
                   submitted>>

TornDown ==
    /\ at["receive"] = "closing"
    /\ at["audio"] = "ended"
    /\ \A n \in awaited["receive"] : turn[n] = "done"
    /\ at' = [at EXCEPT !["receive"] = "ended"]
    /\ awaited' = [awaited EXCEPT !["receive"] = {}]
    /\ turnTask' = None
    /\ UNCHANGED <<inputs, closed, turn, cancelled, inSpeech, tail, gate, heard, voice, loose,
                   history, submitted>>

-----------------------------------------------------------------------------
(* A turn's task: _guarded_turn and _run_turn.                             *)

Goto(n, from, to) ==
    /\ turn[n] \in from
    /\ n \notin cancelled
    /\ turn' = [turn EXCEPT ![n] = to]
    /\ UNCHANGED <<inputs, closed, at, awaited, turnTask, cancelled, inSpeech, heard, voice>>

\* Answer_start; a fresh answer starts a fresh playback ledger.
Prepared(n) ==
    /\ Goto(n, {"prepare"}, "stream")
    /\ tail' = FALSE
    /\ UNCHANGED <<gate, loose, history, submitted>>

\* The speak worker sends a chunk; the task that awaits it passes its own
\* cancellation on at once.  A loose worker goes on with what it has.
Speak(n) ==
    /\ \/ turn[n] \in {"stream", "telling"} \/ n \in loose
       \/ turn[n] = "drain" /\ n \notin cancelled
    /\ ~closed
    /\ heard' = heard \cup {n}
    /\ voice' = n
    /\ tail' = TRUE
    /\ UNCHANGED <<inputs, closed, at, awaited, turnTask, turn, cancelled, inSpeech, gate,
                   loose, history, submitted>>

\* The stream has ended.
Streamed(n) ==
    Goto(n, {"stream"}, "drain") /\ UNCHANGED <<tail, gate, loose, history, submitted>>

\* LlmUnavailableError, on opening the stream or in it: a stage event and an
\* error are sent.
Unavailable(n) ==
    Goto(n, {"stream"}, "telling") /\ UNCHANGED <<tail, gate, loose, history, submitted>>

Told(n) ==
    Goto(n, {"telling"}, "drain") /\ UNCHANGED <<tail, gate, loose, history, submitted>>

Spoken(n) ==
    Goto(n, {"drain"}, "report") /\ UNCHANGED <<tail, gate, loose, history, submitted>>

\* A failed LLM, behind the last audio, or a crash: in the preparation, or
\* on opening the stream, whose own failures count as a failed LLM.
Fail(n) ==
    /\ turn[n] = "stream" => n \notin heard
    /\ Goto(n, {"prepare", "stream", "drain"}, "failing")
    /\ gate' = "free"
    /\ UNCHANGED <<tail, loose, history, submitted>>

Failed(n) ==
    Goto(n, {"failing"}, "done") /\ UNCHANGED <<tail, gate, loose, history, submitted>>

Answered(n) ==
    /\ Goto(n, {"report"}, "done")
    /\ gate' = "free"
    /\ history' = Append(history, [turn |-> n, how |-> "answered"])
    /\ submitted' = submitted \cup {n}
    /\ UNCHANGED <<tail, loose>>

\* The reply is empty.
AnsweredNothing(n) ==
    /\ Goto(n, {"report"}, "done")
    /\ gate' = "free"
    /\ UNCHANGED <<tail, loose, history, submitted>>

\* Variants: the drain takes its cancellation for the speak worker's and the
\* turn completes; the drain waits for the worker again.
CutGoesOn(n) ==
    /\ n \in cancelled
    /\ Live(n)
    /\ turn' = [turn EXCEPT ![n] = "done"]
    /\ IF turn[n] = "drain"
         THEN /\ history' = Append(history, [turn |-> n, how |-> "answered"])
              /\ submitted' = submitted \cup {n}
         ELSE UNCHANGED <<history, submitted>>
    /\ UNCHANGED <<inputs, closed, at, awaited, turnTask, cancelled, inSpeech, tail, gate,
                   heard, voice, loose>>
CutStays(n) ==
    /\ n \in cancelled
    /\ Live(n)
    /\ turn' = [turn EXCEPT ![n] = IF @ = "drain" THEN "drain" ELSE "done"]
    /\ UNCHANGED <<inputs, closed, at, awaited, turnTask, cancelled, inSpeech, tail, gate,
                   heard, voice, loose, history, submitted>>

\* The cancellation arrives.  Only a turn that is draining writes history; one
\* that tells of the unavailable LLM neither cancels nor ends its speak worker.
Cut(n) ==
    /\ n \in cancelled
    /\ Live(n)
    /\ turn' = [turn EXCEPT ![n] = "done"]
    /\ history' = IF turn[n] = "drain"
                    THEN Append(history, [turn |-> n,
                                          how |-> IF n \in heard THEN "cut" ELSE "asked"])
                    ELSE history
    /\ loose' = IF turn[n] = "telling" THEN loose \cup {n} ELSE loose
    /\ UNCHANGED <<inputs, closed, at, awaited, turnTask, cancelled, inSpeech, tail, gate,
                   heard, voice, submitted>>

TurnStep(n) ==
    \/ Prepared(n)
    \/ Streamed(n)
    \/ Unavailable(n)
    \/ Told(n)
    \/ Spoken(n)
    \/ Fail(n)
    \/ Failed(n)
    \/ Answered(n)
    \/ AnsweredNothing(n)
    \/ Cut(n)

\* The browser has played all that was sent.
TailEnds ==
    /\ tail
    /\ tail' = FALSE
    /\ UNCHANGED <<inputs, closed, at, awaited, turnTask, turn, cancelled, inSpeech, gate,
                   heard, voice, loose, history, submitted>>

LoopStep(p) == Superseded(p) \/ Announced(p)

Next ==
    \/ TypedTurn
    \/ SpeechStart
    \/ SpeechEnd
    \/ SpokenTurn
    \/ NoTranscript
    \/ BargeIn
    \/ Interrupted
    \/ Disconnect
    \/ TornDown
    \/ TailEnds
    \/ \E p \in Loops : LoopStep(p)
    \/ \E n \in Turns : TurnStep(n) \/ Speak(n)

Spec == Init /\ [][Next]_vars

\* Ready tasks run; the memory search, the LLM stream and the synthesis of a
\* turn end, all under a timeout or in a thread that returns.
Fairness ==
    /\ \A n \in Turns : WF_vars(TurnStep(n))
    /\ \A p \in Loops : WF_vars(LoopStep(p))
    /\ WF_vars(Interrupted)
    /\ WF_vars(TornDown)

FairSpec == Spec /\ Fairness

-----------------------------------------------------------------------------
(* Properties.                                                             *)

\* With one input only one of the loops starts turns.
OneInput == Cardinality(inputs) <= 1

\* At most one turn is neither finished nor being cancelled (_start_turn).
OneTurnAnswers ==
    OneInput => Cardinality({n \in Turns : Live(n) /\ n \notin cancelled}) <= 1

\* The gate is armed as long as a turn has the LLM or speaks, also while its
\* cancellation is under way: the release comes behind the end of the turn.
GateHeld ==
    OneInput =>
        \A n \in Turns : turn[n] \in {"prepare", "stream", "telling", "drain", "report"}
            => gate = "armed"

\* The history, which the next prompt is built from, has the turns in the
\* order they were started and each at most once, though an interrupted turn
\* writes its entry as it dies (_run_turn).
HistoryInOrder ==
    OneInput =>
        \A i, j \in 1 .. Len(history) : i < j => history[i].turn < history[j].turn

\* A turn is not heard again behind a later one, though the speak worker of a
\* cancelled turn goes on until the cancellation arrives (_start_turn), unless
\* it was cancelled while it told of an unavailable LLM and left a worker that
\* nobody ends.
OneVoice ==
    [][OneInput /\ voice' # voice => voice' \in loose \/ \A m \in heard : m <= voice']_vars

\* What _start_turn says: a new turn stops all that is queued for the browser,
\* "otherwise the old reply's tail and the new reply interleave on the same
\* speaker".
RepliesStayApart == [][OneInput => voice' >= voice]_vars

\* A turn that was cancelled is not answered after all: it enters history as
\* cut off and is not submitted to the memory ("Swallowing the cancellation
\* let the cancelled turn run to completion", _run_turn).
CutStaysCut ==
    \A n \in cancelled :
        /\ n \notin submitted
        /\ \A i \in 1 .. Len(history) :
               history[i].turn = n => history[i].how # "answered"

\* Every turn ends, and no loop waits for ever for a turn it has cancelled.
TurnsEnd ==
    /\ \A n \in Turns : turn[n] = "prepare" ~> turn[n] = "done"
    /\ \A p \in Loops : at[p] \in {"superseding", "breaking", "closing"}
                          ~> at[p] \in {"idle", "ended"}

\* With one input the turns do not get into each other's way: one at a time is
\* answered, under the gate, and history has them in their order.
TurnsApart == TypeOK /\ OneTurnAnswers /\ GateHeld /\ HistoryInOrder

=============================================================================
