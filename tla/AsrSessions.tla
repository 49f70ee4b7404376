---------------------------- MODULE AsrSessions -----------------------------
(***************************************************************************)
(* Speech recognition for several browser sessions on one shared model.    *)
(*                                                                         *)
(* Each session's audio loop (app/web_server.py) cuts the microphone's     *)
(* frames into utterances and drives an engine object of its own; a        *)
(* streaming engine (app/asr_nemotron.py) opens a stream at the start of   *)
(* an utterance, is fed every captured frame and finished at its end,      *)
(* another (app/asr_parakeet.py) is given the whole utterance.  All        *)
(* engine objects share one model behind one lock, which a stream holds    *)
(* from the moment its worker runs to the end of the stream.  The engine   *)
(* test of the web page is one more user of the model.                     *)
(*                                                                         *)
(* The audio loop awaits each engine call; the call runs on a thread and   *)
(* goes on when the session that awaits it is torn down.                   *)
(***************************************************************************)
EXTENDS Integers, Sequences, SequencesExt

CONSTANTS
    Connections,       \* browser connections
    Test,           \* the engine test of the page
    MaxTyped,       \* bound on the typed turns
    MaxSpeech,      \* _MAX_UTTERANCE_MS, in frames
    Window          \* frames in one window of the cache-aware encoder

ASSUME AsrAssumption ==
    /\ Test \notin Connections
    /\ MaxTyped \in Nat
    /\ MaxSpeech \in Nat \ {0, 1} /\ Window \in Nat \ {0}

VARIABLES
    engine,     \* the configured engine
    cached,     \* _BACKEND_CACHE holds the model
    lock,       \* the thread that holds _BACKEND_LOCK
    backend,    \* _backend and _load_error of each engine object
    call,       \* the engine call of each session that runs
    ear,        \* the audio loop of each session
    link,       \* the session delivers frames, is connected but mute, or is gone
    turn,       \* the session answers, or its answer still plays
    typed,      \* typed turns so far
    stream      \* the stream of each session's engine

asrVars == <<engine, cached, lock, backend, call, ear, link, turn, typed, stream>>

Free == <<"free">>
Caller(u) == <<"call", u>>      \* the thread of an engine call
Worker(x) == <<"gen", x>>       \* _generate_worker of a stream
End == <<"end">>                \* the sentinel
AsrFrame(n) == <<"frame", n>>      \* the nth of an utterance
Frames == {AsrFrame(n) : n \in 1 .. MaxSpeech}

NoStream == [queue |-> <<>>, gen |-> "none", rest |-> <<>>, text |-> <<>>, error |-> FALSE, late |-> FALSE]
Quiet == [capturing |-> FALSE, streaming |-> FALSE, utterance |-> <<>>, clip |-> <<>>]

AsrTypeOK ==
    /\ engine \in {"nemotron", "parakeet", "unloadable", "unavailable"}
    /\ cached \in BOOLEAN
    /\ lock \in {Free} \cup {Caller(u) : u \in Connections \cup {Test}} \cup {Worker(x) : x \in Connections}
    /\ backend \in [Connections -> {"none", "ready", "failed"}]
    /\ call \in [Connections -> {"none", "start", "transcribe", "inference", "finish"}]
    /\ \A x \in Connections :
        /\ ear[x].utterance \in Seq(Frames) /\ Len(ear[x].utterance) <= MaxSpeech
        /\ ear[x].capturing \in BOOLEAN /\ (ear[x].streaming => ear[x].capturing)
        /\ ear[x].clip \in Seq(Frames)
        /\ stream[x].gen \in {"none", "wait", "run", "ended"}
        /\ stream[x].queue \in Seq(Frames \cup {End})
        /\ stream[x].rest \in Seq(Frames) /\ Len(stream[x].rest) < Window
        /\ stream[x].text \in Seq(Frames)
        /\ stream[x].error \in BOOLEAN /\ stream[x].late \in BOOLEAN
    /\ link \in [Connections -> {"live", "mute", "gone"}]
    /\ turn \in [Connections -> BOOLEAN] /\ typed \in 0 .. MaxTyped

AsrInit ==
    /\ engine \in {"nemotron", "parakeet", "unloadable", "unavailable"}
    /\ cached = FALSE /\ lock = Free
    /\ backend = [x \in Connections |-> "none"]
    /\ call = [x \in Connections |-> "none"]
    /\ ear = [x \in Connections |-> Quiet]
    /\ link = [x \in Connections |-> "live"]
    /\ turn = [x \in Connections |-> FALSE] /\ typed = 0
    /\ stream = [x \in Connections |-> NoStream]

Streaming == engine \in {"nemotron", "unloadable"}                        \* capabilities.streaming
Alive(x) == stream[x].gen \in {"wait", "run"}           \* _gen_thread.is_alive()

-----------------------------------------------------------------------------
(* The model behind the lock.                                              *)

Present == engine \notin {"unloadable", "unavailable"}

\* _shared_backend: the first user loads the model, the others find it.  A
\* model that cannot be loaded is remembered as such by each engine object.
Load(x) ==
    /\ call[x] \in {"start", "transcribe"} /\ backend[x] = "none" /\ engine # "unavailable"
    /\ lock = Free
    /\ cached' = Present
    /\ backend' = [backend EXCEPT ![x] = IF Present THEN "ready" ELSE "failed"]
    /\ UNCHANGED <<engine, lock, call, ear, link, turn, typed, stream>>

\* What the audio loop does with the outcome of finish or transcribe: a
\* transcript that is not blank becomes a turn of the session.  A result
\* nobody awaits any more is dropped.
Outcome(x, ok) ==
    /\ call' = [call EXCEPT ![x] = "none"]
    /\ ear' = [ear EXCEPT ![x].clip = <<>>]
    /\ \E answered \in {FALSE, ok /\ link[x] # "gone"} :
         turn' = [turn EXCEPT ![x] = @ \/ answered]

Rejected(x) == engine = "unavailable" \/ backend[x] = "failed" \/ Alive(x)
Loaded(x) == engine = "unavailable" \/ backend[x] # "none"

\* transcribe() answers at once that it cannot: no model, or a stream of the
\* same engine still runs.
TranscribeRejected(x) ==
    /\ call[x] = "transcribe" /\ Loaded(x) /\ Rejected(x)
    /\ Outcome(x, FALSE)
    /\ UNCHANGED <<engine, cached, lock, backend, link, typed, stream>>

TranscribeTakesModel(x) ==
    /\ call[x] = "transcribe" /\ Loaded(x) /\ ~Rejected(x) /\ lock = Free
    /\ lock' = Caller(x)
    /\ call' = [call EXCEPT ![x] = "inference"]
    /\ UNCHANGED <<engine, cached, backend, ear, link, turn, typed, stream>>

\* Inference raises, or not.
TranscribeReturns(x) ==
    /\ call[x] = "inference"
    /\ lock' = Free
    /\ \E ok \in BOOLEAN : Outcome(x, ok)
    /\ UNCHANGED <<engine, cached, backend, link, typed, stream>>

\* api_asr_test: a fresh engine object takes the model for the recorded clip.
TestTakesModel ==
    /\ Present /\ lock = Free
    /\ lock' = Caller(Test) /\ cached' = TRUE
    /\ UNCHANGED <<engine, backend, call, ear, link, turn, typed, stream>>

TestReturns ==
    /\ lock = Caller(Test)
    /\ lock' = Free
    /\ UNCHANGED <<engine, cached, backend, call, ear, link, turn, typed, stream>>

-----------------------------------------------------------------------------
(* A stream.                                                               *)

StartOutcome(x) == IF Rejected(x) THEN "raised" ELSE "opened"

\* start(), then the trigger frame: it is captured in either case, and fed
\* when the stream was opened.
StartReturns(x) ==
    /\ call[x] = "start"
    /\ Loaded(x)
    /\ LET opened == StartOutcome(x) = "opened"
           live == link[x] # "gone"
           frame == AsrFrame(1)
       IN  /\ stream' = IF opened
                          THEN [stream EXCEPT ![x] = [NoStream EXCEPT !.queue = IF live THEN <<frame>> ELSE <<>>,
                                                                  !.gen = "wait"]]
                          ELSE stream
           /\ ear' = IF live THEN [ear EXCEPT ![x].streaming = opened, ![x].utterance = <<frame>>]
                             ELSE ear
    /\ call' = [call EXCEPT ![x] = "none"]
    /\ UNCHANGED <<engine, cached, lock, backend, link, turn, typed>>

\* _generate_worker enters generate().
GenerateBegins(x) ==
    /\ stream[x].gen = "wait" /\ lock = Free
    /\ lock' = Worker(x)
    /\ stream' = [stream EXCEPT ![x].gen = "run"]
    /\ UNCHANGED <<engine, cached, backend, call, ear, link, turn, typed>>

\* Variant of Decoded: what is left at the sentinel is not padded and yielded.
DecodedNoFlush(s, item) ==
    LET rest == Append(s.rest, item)
    IN  CASE item = End -> [s EXCEPT !.rest = <<>>, !.gen = "ended"]
          [] item # End /\ Len(rest) = Window -> [s EXCEPT !.text = @ \o rest, !.rest = <<>>]
          [] OTHER -> [s EXCEPT !.rest = rest]

\* _chunk_generator with _partial_worker: a full window of frames is decoded;
\* at the sentinel the rest is padded to a window and decoded too.
Decoded(s, item) ==
    LET rest == Append(s.rest, item)
    IN  CASE item = End -> [s EXCEPT !.text = @ \o s.rest, !.rest = <<>>, !.gen = "ended"]
          [] item # End /\ Len(rest) = Window -> [s EXCEPT !.text = @ \o rest, !.rest = <<>>]
          [] OTHER -> [s EXCEPT !.rest = rest]

\* The worker takes an item; it gives the lock up when the stream ends.
Generates(x) ==
    /\ stream[x].gen = "run" /\ ~stream[x].late /\ stream[x].queue # <<>>
    /\ LET s == Decoded([stream[x] EXCEPT !.queue = Tail(@)], Head(stream[x].queue))
       IN  /\ stream' = [stream EXCEPT ![x] = s]
           /\ lock' = IF s.gen = "ended" THEN Free ELSE lock
    /\ UNCHANGED <<engine, cached, backend, call, ear, link, turn, typed>>

WorkerFails(x) ==
    /\ stream' = [stream EXCEPT ![x].gen = "ended", ![x].error = TRUE, ![x].rest = <<>>]
    /\ lock' = Free
    /\ UNCHANGED <<engine, cached, backend, call, ear, link, turn, typed>>

\* generate() raises.
GenerateFails(x) == stream[x].gen = "run" /\ ~stream[x].late /\ WorkerFails(x)

\* The worker outlived finish(), which took the queue away: it fails when it
\* asks for the next item, unless it waits in the old queue already.
QueueGone(x) == stream[x].gen = "run" /\ stream[x].late /\ stream[x].queue # <<>> /\ WorkerFails(x)

\* finish() after its join: the error of the worker, that it still runs, or
\* the text.
FinishReturns(x) ==
    /\ call[x] = "finish" /\ ~Alive(x)
    /\ Outcome(x, ~stream[x].error)
    /\ stream' = [stream EXCEPT ![x] = NoStream]
    /\ UNCHANGED <<engine, cached, lock, backend, link, typed>>

\* finish() waits _STREAM_JOIN_TIMEOUT_S for the worker and no longer.
JoinIsBounded == TRUE

FinishTimesOut(x) ==
    /\ call[x] = "finish" /\ Alive(x) /\ JoinIsBounded
    /\ Outcome(x, FALSE)
    /\ stream' = [stream EXCEPT ![x].late = TRUE]
    /\ UNCHANGED <<engine, cached, lock, backend, link, typed>>

-----------------------------------------------------------------------------
(* The audio loop of a session.                                            *)

\* A frame while the session answers: only barge-in listens, and may end the
\* answer.
FrameDuringTurn(x) ==
    /\ link[x] = "live" /\ call[x] = "none" /\ turn[x]
    /\ turn' = [turn EXCEPT ![x] = FALSE]
    /\ UNCHANGED <<engine, cached, lock, backend, call, ear, link, typed, stream>>

\* speech_start: the stream is opened first, by an engine that has streams.
SpeechStarts(x) ==
    /\ link[x] = "live" /\ call[x] = "none" /\ ~turn[x] /\ ~ear[x].capturing
    /\ ear' = [ear EXCEPT ![x] = [Quiet EXCEPT !.capturing = TRUE,
                                               !.utterance = IF Streaming THEN <<>> ELSE <<AsrFrame(1)>>]]
    /\ call' = IF Streaming THEN [call EXCEPT ![x] = "start"] ELSE call
    /\ UNCHANGED <<engine, cached, lock, backend, link, turn, typed, stream>>

\* Variant of Sentinel: finish() does not end the queue.
SentinelMissing(queue) == queue

Sentinel(queue) == Append(queue, End)

EndCall(e) == IF e.streaming THEN "finish" ELSE "transcribe"

\* The utterance is as long as an utterance may be.
Forced(e) == Len(e.utterance) >= MaxSpeech

\* A frame of an utterance is captured and fed; with the last one, as the
\* state machine or the limit on its length has it, the utterance is over.
FrameCaptured(x) ==
    /\ link[x] = "live" /\ call[x] = "none" /\ ~turn[x] /\ ear[x].capturing
    /\ LET frame == AsrFrame(Len(ear[x].utterance) + 1)
           e == [ear[x] EXCEPT !.utterance = Append(@, frame)]
           fed == Append(stream[x].queue, frame)
       IN  \/ /\ ~Forced(e)
              /\ ear' = [ear EXCEPT ![x] = e]
              /\ stream' = IF e.streaming THEN [stream EXCEPT ![x].queue = fed] ELSE stream
              /\ call' = call
           \/ /\ ear' = [ear EXCEPT ![x] = [Quiet EXCEPT !.clip = e.utterance]]
              /\ stream' = IF EndCall(e) = "finish"
                             THEN [stream EXCEPT ![x].queue = Sentinel(fed)] ELSE stream
              /\ call' = [call EXCEPT ![x] = EndCall(e)]
    /\ UNCHANGED <<engine, cached, lock, backend, link, turn, typed>>

-----------------------------------------------------------------------------
(* The user.                                                               *)

\* A typed message; an utterance in progress stays as it is, with its stream.
TypedTurn(x) ==
    /\ link[x] # "gone" /\ typed < MaxTyped /\ ~turn[x]
    /\ turn' = [turn EXCEPT ![x] = TRUE] /\ typed' = typed + 1
    /\ UNCHANGED <<engine, cached, lock, backend, call, ear, link, stream>>

\* The answer is over and its playback has drained.
ReplyEnds(x) ==
    /\ turn[x]
    /\ turn' = [turn EXCEPT ![x] = FALSE]
    /\ UNCHANGED <<engine, cached, lock, backend, call, ear, link, typed, stream>>

\* The page stops its microphone.  (While the loop awaits a call or the
\* session answers, that is seen when it next asks for a frame.)
MicOff(x) ==
    /\ link[x] = "live" /\ call[x] = "none" /\ ~turn[x]
    /\ link' = [link EXCEPT ![x] = "mute"]
    /\ UNCHANGED <<engine, cached, lock, backend, call, ear, turn, typed, stream>>

\* The session is torn down: its tasks are cancelled, its engine is not told.
LinkCloses(x) ==
    /\ link[x] # "gone"
    /\ link' = [link EXCEPT ![x] = "gone"]
    /\ turn' = [turn EXCEPT ![x] = FALSE]
    /\ ear' = [ear EXCEPT ![x] = Quiet]
    /\ UNCHANGED <<engine, cached, lock, backend, call, typed, stream>>

-----------------------------------------------------------------------------
CallStep(x) == Load(x) \/ TranscribeRejected(x) \/ TranscribeTakesModel(x) \/ TranscribeReturns(x)
ModelStep(x) == GenerateBegins(x) \/ Generates(x) \/ QueueGone(x)
StreamStep(x) == StartReturns(x) \/ FinishReturns(x) \/ FinishTimesOut(x)
EarStep(x) == FrameDuringTurn(x) \/ SpeechStarts(x) \/ FrameCaptured(x)
UserStep(x) == TypedTurn(x) \/ ReplyEnds(x) \/ MicOff(x) \/ LinkCloses(x)

AsrNext ==
    \/ \E x \in Connections :
         \/ CallStep(x) \/ ModelStep(x) \/ GenerateFails(x) \/ StreamStep(x) \/ EarStep(x) \/ UserStep(x)
    \/ TestTakesModel \/ TestReturns

AsrSpec == AsrInit /\ [][AsrNext]_asrVars

\* Threads run, inference and the join end, answers end; a microphone that is
\* on delivers frames.  No thread is promised the lock.
AsrFairSpec ==
    /\ AsrSpec
    /\ WF_asrVars(TestReturns)
    /\ \A x \in Connections :
        /\ WF_asrVars(TranscribeReturns(x))
        /\ WF_asrVars(TranscribeRejected(x))
        /\ WF_asrVars(StreamStep(x))
        /\ WF_asrVars(Generates(x) \/ QueueGone(x))
        /\ WF_asrVars(FrameCaptured(x))
        /\ WF_asrVars(ReplyEnds(x))

-----------------------------------------------------------------------------
(* What recognition promises a session.                                    *)

\* The transcript finish() hands to the audio loop is of the whole utterance that has just
\* ended and of nothing else: no frame is lost in the last, short window, and
\* none comes from an earlier stream (NemotronEngine.start, finish,
\* _chunk_generator; the audio loop's speech_end).
TranscriptIsUtterance ==
    \A x \in Connections :
        call[x] = "finish" /\ link[x] # "gone" /\ ~Alive(x) /\ ~stream[x].error
            => stream[x].text = ear[x].clip

\* A stream of a connected session runs only while its utterance is captured
\* or finished, unless finish() has already given it up: the audio loop leaves
\* no stream behind, so that start() is refused, and a whole utterance lost
\* with it, only after a finish that timed out.
StreamWithinUtterance ==
    \A x \in Connections :
        link[x] # "gone" /\ Alive(x) =>
            \/ ear[x].streaming
            \/ call[x] = "finish"
            \/ stream[x].late

\* An audio loop that waits for finish() is released, also when the model is
\* held by a stream that never ends (the bounded joins of finish).
FinishIsBounded == \A x \in Connections : []<>(call[x] # "finish")

\* A stream gives the model back, unless its session was torn down or its
\* microphone went silent in the middle of an utterance: those leave the worker
\* waiting for a frame, with the lock, for ever (_generate_worker).
ModelReleased ==
    \A x \in Connections : []<>(lock # Worker(x) \/ link[x] # "live")

\* A session hears its own utterances whole, and leaves no stream behind that
\* would cost it the next one.
UtterancesHeard == AsrTypeOK /\ TranscriptIsUtterance /\ StreamWithinUtterance

\* Nobody waits for ever: neither the audio loop for a transcript nor the other
\* sessions for the model.
RecognitionEnds == FinishIsBounded /\ ModelReleased

=============================================================================
