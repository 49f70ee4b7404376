# VoiceMEM in TLA+

VoiceMEM is a voice assistant with a long-term memory. A browser (or a
microphone at the command line) delivers speech; a voice activity detector cuts
it into utterances, an ASR engine transcribes them, a memory search and an
emotion analysis prepare a prompt, a local llama-server with **one** slot
streams the reply, and a speech synthesizer speaks it sentence by sentence while
the user may interrupt at any moment. After the reply the pair (user text,
reply) is consolidated into the memory by a chain of further LLM requests that
compete with the conversation for the same slot. Around it stand the scripts
that fetch models, start the server, build releases and measure latency.

This directory models the program in TLA+, checks it with TLC on small instances
and proves its safety properties for all instances with TLAPS, except the three
about the text of a reply: those of the gate before the memory, the session's
turns, the speak worker, recognition and the detector's windows, the command
line's loops and commits, the status chip, the server's shared parts, and the
settings, downloads, releases and latency tools around them. File references are to `src/source/`; "vendor" stands for
`vendor/voicemem/voicemem`.

Contents: [Inventory](#inventory) · [Modules](#modules) ·
[Runs and bounds](#runs-and-bounds) · [Fairness](#fairness) ·
[What is proved](#what-is-proved) ·
[Where code and documentation disagree](#where-code-and-documentation-disagree) ·
[Observed while modelling](#observed-while-modelling) ·
[Not modelled](#not-modelled) · [Plan](#plan)

## Inventory

All of the web server's conversation logic runs on one asyncio event loop: code
between two suspensions (`await` of something that is not ready) is atomic, and
tasks, timers and callbacks interleave there and nowhere else. Synchronous work
(VAD, ASR, synthesis, memory, settings) runs in threads, which outlive whoever
awaits them. The command-line agent is one event loop with a microphone callback
and a playback thread. Scripts are processes of their own, that can be killed
between any two writes.

| component | state | what is hard | what makes it correct | module |
|---|---|---|---|---|
| **Memory gate** `app/background_memory.py`, vendor `utils/common/llm_bg_gate.py` | gate event, timer, last activity, queue, worker, counters; the process-wide cancel event | timer against new speech, event set against worker resumed, cancellation and retry, coalescing | order, no loss, nothing applied twice, no lost wake-up, never open on the user | `MemoryGate` |
| **Ingest chain** vendor `orchestrator.py`, `voice_input.py`, `leftbrain/` | its progress; the store | cancellation in the middle | all or nothing under retry | `MemoryGate` |
| **Web session turns** `app/web_server.py` | current task, speech flags, playback ledger, history | two loops cancel and await the same turn; teardown | one turn at a time, gate held, history in order, everything ends | `WebTurns` |
| **Speak worker** `_run_turn` | speak queue, ordered queue, per-chunk queues, semaphore | parallel syntheses, end mark across two queues | chunks in order, no gap; the worker ends | `SpeakWorker`, `SpeechOutput` |
| **Memory spaces** `RealMemoryLayer` | registry file, facades, active space, chip | threads that time out and go on; two registrations; a kill in a write | the active space is open, the list is kept, pairs go where they were spoken | `MemorySpaces` |
| **LLM status** health loop, `/api/pipeline`, turns | one chip, probe flags | everybody paints | green only after an answer, busy only with work | `LlmStatus`, `ComponentStatus` |
| **Model choice** `app/llm_model_settings.py`, `scripts/start_llama_server.ps1` | JSON file, settings, marker, servers | two requests; two start scripts; a server found loading | the page tells what runs | `ModelSelection` |
| **Voices** `app/voice_settings.py`, `app/tts_supertonic.py` | choice, file, the one engine, stop flag | a choice that changes while a chunk or a preview is synthesized | the chosen voice speaks | `VoiceEngine` |
| **Microphone and ASR tests** | lock, recording, chip | a test against a test and against the live chain | the stage that is broken is named | `AudioDiagnosis` |
| **Emotion model** `app/emotion.py`, `WebComponents.emotion_analyzer` | two flags, one lock, one model | threads that find it half loaded | no feeling is lost to a load | `EmotionLoading` |
| **Streaming ASR** `app/asr_nemotron.py`, `app/asr_parakeet.py`, audio loop | engines, streams, one model behind one lock | a stream nobody finishes keeps the lock | a transcript is its utterance, everyone is released | `AsrSessions` |
| **Qwen ASR** `app/asr.py` | engines, one model, one lock | two engines load or infer | one at a time, an utterance is itself | `QwenAsr` |
| **VAD model** `app/vad.py` `SileroVad` | buffer, context, recurrent state, calling convention | blocks that are no multiple of the window | audio is one stream | `SileroStream` |
| **CLI loops** `app/main.py`, `app/barge_in.py`, `app/audio_io.py` | frames, VAD state, echo gate, utterances, playback | playback that starts in mid-speech | whole utterances, one interrupt | `CliLoop` |
| **CLI commits, bridge** `app/pipeline.py`, `app/voicemem_bridge.py` | failed commits, flush task, facade cache, back-off, last texts | two flushes at once, a flush loop about to end | no reply forgotten before a thread has it, speakers do not mix | `CommitQueue` |
| **Speaker and emotion of a turn** `app/speaker.py`, `app/emotion.py` | registry file and its copies, remembered feelings | enrolments in other processes, unreadable files | the enrolled stay enrolled | `TurnPerception` |
| **Prompt** `app/teacher_persona.py`, `app/retrieval_contract.py` | memory block, history, budget | cutting | in budget, the newest history, marks stay | `PromptContext` |
| **Reply text** `app/text_utils.py` | buffer, chunks, language spans | deltas that part a number; quotes | text once, in order, voices change for phrases only | `SpeechText` |
| **LLM settings** `app/llm_config.py`, `app/config.py`, `app/llm.py` | YAML file, overrides, two processes | a file edited between two starts; an emergency default | one profile everywhere, no silent reply | `LlmRuntime` |
| **Model download** `scripts/download_models_hf.py`, `write_install_manifest.py` | files, provenance records | mirrors, interrupts, damage | the manifest names the real source | `ModelDownload` |
| **Release gate and builder** `scripts/` | tree, record, zips, ledgers | edits between gate and copy, kills | what ships passed, in what the fingerprint covers | `ReleaseBuild` |
| **Latency tools** `tools/forensic/` | trace, result files, servers on their own ports | cancelled streams, interrupted runs, orphan servers | a measurement is what it says | `TraceFile`, `ReplayServers`, `ReplayVerdict`, `LatencyForensics` |
| Speculative voice stream, session tracker, left and right brain, upgrade scripts, page, mocks | | | | [not modelled](#not-modelled) |

How they meet: the session arms the gate on the first speech frame and on every
turn start, releases it when a reply ends, fails or is interrupted, notes
activity on speech frames and LLM deltas, and submits the pair of an answered
turn. The gate starts a chain in a thread when the conversation has been quiet;
arming it while a chain runs sets the cancel event, which the chain polls. The
chain ingests into the memory space that is active when it runs. The turn runs
the speak worker, whose sent text is what an interrupted turn leaves in the
history, and whose playback ledger keeps barge-in alive after the turn has
ended. Turns, health loop, tests, memory layer and model choice all paint the
chips of one status panel; every chip follows the rules of `ComponentStatus`,
which `LlmStatus` and `MemorySpaces` extend.

## Modules

Operators named "variant" in a comment stand next to the operator they vary and
are not used by any next-state relation. They are plausible mistakes in the code,
and each checked property has one that violates it (`mutants` in
`PROJECT.json`). `PROJECT.json` also maps every definition to the lines it
translates.

### The conversation

**`MemoryGate`.** `open`, `awaiting`, `timer`, `quiet`, `queue`, `seq` are
`_gate_open`, `_awaiting_idle`, `_grace_handle`, the age of `_last_activity`,
`_queue` and `_turn_seq`. `worker` is the program counter of `_worker`: none,
spawned but not yet run (`top`), suspended in `Event.wait` (`waiting`), its wait
resolved but not yet resumed (`woken`), or waiting for the thread (`busy`, which
is `_running`). `leg` is the program counter of the chain in its thread,
`bgCancel` the shared `BG_CANCEL`, `outcome` what the counters of `GateStats` say
of each turn. `stored` counts how often a turn's facts were applied. `conv` is
what the session does. The operations of the gate (`Arm`, `Release`, `Submit`)
are operators that the session's actions (`SpeechStart`, `StartTurn`,
`TurnEnds`, ...) conjoin, so that each action is one callback of the event loop.
A pair is a key; times are ticks; the code of a chain between two polls is one
step; an ingest that finds no VoiceMem facade returns at once (`NoFacade`). The
session is the environment here: with `Overlap` a turn may end when the session
already does something else, which `WebTurns` shows to happen when both input
paths are used. A disconnected session makes no further call.
`MemoryGateProofs` holds the theorems; those of the other modules are in
`WebTurnsProofs`, `TurnPartsProofs` (speak worker, emotion model, perception,
prompt), `WebPartsProofs` (spaces, model, voices, diagnosis),
`CommitQueueProofs`, `CliLoopProofs`, `AsrSessionsProofs` (with `QwenAsr` and
`SileroStream`) and `OperationsProofs` (chip, settings, downloads, releases,
latency tools).

**`WebTurns`.** `at` holds the program counters of the receive loop (`run`) and
of the audio loop (`_audio_loop`): idle, awaiting a turn they cancelled
(`superseding` in `_cancel_turn`, `breaking` in `_interrupt_turn`), sending the
message that stops the browser (`announcing`), transcribing (`asr`), tearing
down (`closing`). `awaited` is whom they wait for; `turnTask` is the one field
`_turn_task` they share. `turn[n]` is the phase of turn `n`'s task and
`cancelled` the tasks with a cancellation requested, which arrives with `Cut` in
whatever phase the task is. The phases follow the awaits: behind `stream` stands
`telling`, in which a turn whose LLM became unavailable sends two messages about
it, and only then `drain`, in which it awaits its speak worker. A cancellation
in `telling` meets no handler that ends the worker: the turn is in `loose`
afterwards, and its worker may speak (`Speak`) whenever it likes. `heard` is the
turns that were heard at all, `voice` the last that was. `inputs` is how the
user talks to the session, by voice, by typing or both. `Disconnect` carries the
subtle point of asyncio: a task that is cancelled while it awaits a task it
cancelled itself gets the exception at that very `await`, inside
`except (CancelledError, Exception)`, and goes on. Left out: frames of a running
utterance, the grace period of barge-in (which only delays it), the sending of
the other status messages. A failing stream is an LLM failure, as `chat_stream`
maps its errors; a crash of another kind happens in the preparation or on
opening the stream.

**`SpeakWorker`, `SpeechOutput`.** `emitted`, `ended` and `taken` describe
`speak_queue`; `synth[n]` is the stage of a chunk's task, `pcm[n]` its own queue,
`ordered` the queue of registered chunks, `inHand` what the sender waits for.
`Pump` takes all there is in one step: `Queue.get` on a queue that is not empty
does not suspend. What the turn awaits between its last chunk and the end mark is
a send, which seldom suspends it; both cases are in the model, since `EndReply`
may come before or after the pump has taken the last chunks. `due` is the number
of chunks it had taken before the mark was queued: those are spoken, while the
mark overtakes the tasks of the others. `SpeechOutput` says that and no more: it
has the chunks emitted, those due, those without audio, those spoken and how the
reply ended, and one action for each of what can be seen (`Emit`, `FallDue`,
`End`, `FallSilent`, `Speak`, `Complete`, `CutOff`). `SpeakWorker` refines it
with `silent <- {n : pcm[n] = "nothing"}`, `spoken <- sent`.

**`AsrSessions`.** Per session: the audio loop (`ear`), its engine's backend, its
call (`start`, `finish`, `transcribe`), its stream with worker and generation
thread, and the link to the browser; shared: the kind of engine, the model cache
and its lock, which a stream's worker holds from its first instruction to the
end of the stream. A frame is loud or not; a window of `Window` frames is one
chunk of the generator. The engine test of the page is one more user of the
model.

**`CliLoop`.** `frames` are what the microphone delivered; `vad`, `utterance`,
`sent` are the state machine, the utterance that grows and the queue of
utterances; `fate` remembers what became of each frame (heard, gated by the
echo gate, cut off when a playback began, lost to a failing model). A turn
listens, streams deltas, speaks chunk by chunk on a playback thread and polls
the detector between them.

**`CommitQueue`.** The turn and the background flush loop are two clients of
`commit_reply`, with a call each: the facade of the speaker is constructed when
it is not cached, the cache evicts, failures back off, and a commit pairs the
reply with the last user text of its speaker. A commit is done when `ingest` has
started the thread that stores the pair (`Accepted`); what goes wrong in that
thread (`Stores`) is printed and nobody learns of it. A commit fails when there is
no facade or no user text, or when `ingest` raises before it starts the thread
(`IngestFailed`). `said`, `handed`, `stored`, `evicted` are history, `storing` the
threads under way. Replies may be equal, because the queue is searched by value;
`handed` counts per speaker and text, which is all the store can tell apart.

**`TurnPerception`.** An enrolment is a process: record, open the registry, take
the embedding, write the registry; the conversation reads the registry once. A
reference is the set of windows it averages; levels of similarity stand for
cosines, hundredths for valence and arousal. The fusion of voice and words, the
label and the decision to store are the code's arithmetic over these.

**`EmotionLoading`.** Turns and the warm-up thread look for the analyzer and load
its model; turns wait for a while only, and their threads go on. A step between
two Python calls is atomic; importing, constructing and inferring take time.

**`PromptContext`.** A text is its length; a memory's line is text and, for a
memory that is no longer true, the suffix that says so. Rendering, cutting to the
cap, windowing the history and fitting it to the budget, for the web session and
for the CLI, are the code's.

**`SpeechText`.** `SentenceStream.add_delta` and `flush` over characters that are
letters, digits, an abbreviation, terminators, boundaries or line breaks; and
`segment_language_spans` over words of which only the evidence for a language
and the form are kept, with the delimiters that set a region off. Not modelled
there: single quotes, `normalize_for_speech`, `is_speakable`, shards of white
space.

### The server's shared parts

**`MemorySpaces`.** Jobs are threads (a search, an ingest, a request, the
warm-up) that read and write the registry, construct facades and switch the
active space with no lock; only the creation of a space runs on the event loop
(`LoopFree`), and blocks it. A file can be torn by a kill in mid-write.
`kept`, `damaged`, `since` and `loose` are history.

**`LlmStatus`, `ComponentStatus`.** `ComponentStatus` is the chip: a state, and
the state a processing span goes back to. `LlmStatus` lets the health loop, the
startup probe, `/api/pipeline`, the selection of a model and the turns of two
sessions paint it.

**`ModelSelection`.** `chosenFile` is `config/llm_model.json`, `settings` the
backend's copy, `worker` the requests in their threads, assignment by assignment;
`starter` and `server` the windows of the start script and what they started,
`marker` the file in which a script says what it started, `written` how it last
came to be written: for a server that was asked or is launched, for one that did
not say, for one that was waited for (`guarded`), or not at all (`lost`), since
both writers swallow their errors. `TakenFor` is
`Test-LlamaServesModel`: a server passes for one of the chosen file when its name
fits the file or `OPENAI_MODEL`, which `env.local.ps1` sets; `SoNamed` are the
models the latter does not tell from the chosen one. A query for processes can
fail and a server can survive being stopped; a guard whose server goes away
launches nothing. `-ForceKillExisting` is left out.

**`VoiceEngine`.** The choice, its file, the engine that is loaded once and its
stop flag; replies and previews synthesize in threads that outlive their
awaiters. The chunks of a reply are synthesized beside each other, one
`VoiceThreads` each, and a chunk of two languages span by span (`NextSpan`), each
span a call of the engine of its own. `heard` is what the last chunk was spoken
with, and which voice was chosen for it.

**`AudioDiagnosis`.** The chain from the microphone is broken at one stage at
most; a level is under both thresholds, between them, or over. The probe and the
test are the code's decision lists; the tests run in threads under one lock. The
recording of a test is opened, which empties the file, and written; either can
fail (`WavFails`), and the test goes on. `wav.last` is whose clip was to be
written last, `wav.kept` whether it was.

**`SileroStream`.** Samples are numbered; the recurrent state is the number of
windows it has seen. A call of `prob` is a step that takes the samples in and one
step for each window (`calling` meanwhile); a window has left the buffer before
the model is asked, and if that raises (`lost`) it is gone and the call ends,
with what is behind it still in the buffer. Binding takes the first of the calls
that works, in the order in which the code tries them; a model may take a state
and return none that the code finds (`Remembers`), and then the state stays what
it was. Left out is a model whose probability is not the first output and whose
state has an unknown name: the code would take the probability for the state.
That audio is one stream is said window by window: each holds the samples behind
those of the window before, silence only where the remainder was flushed, and is
scored with the context and state of the last one that was scored.

**`QwenAsr`.** Two engines over one model and one lock; samples are numbered over
the life of an engine, so that a transcript can be traced to them. The partial
texts of an utterance are kept joined, as they are only ever read; a final
transcript remembers the sample behind which its utterance begins.

### Settings, tools, releases

**`LlmRuntime`.** One number stands for the settings with a range, beside the
switch of the thinking channel. The loader, the bridge in the start script with
its emergency defaults, the agent's config, and what a stream of lines amounts
to.

**`ModelDownload`.** Components with the repositories the script knows, pinned or
not; a file is full or not and remembers where it came from; `records` is
`models/.download_sources.json`; `Attributed` what the manifest makes of it.

**`ReleaseBuild`.** The operator edits at any time; the gate fingerprints, tests
and records; the builder checks the record, copies the tree in four steps, zips,
checks the zip, and writes index, side car, changelog and history, and either
can be killed between two writes. A tree has, beside what `tree_fingerprint`
hashes, files that ship and that it skips (`aside`: the `README.md` of the
builder's `PLACEHOLDER_DIRS`, the content of a `.mypy_cache`); `gated` in a
record is the tree the gate saw, which no file holds. No two trees have the same
sha256.

**`TraceFile`, `ReplayServers`, `ReplayVerdict`, `LatencyForensics`.** The trace
written by the wrapper around `chat_stream`, with the server's counters as one
number; the replay tool's two replays and its result file, with servers that
outlive an interrupt; the matching of a turn with the log and the decision list
of the cases; the measuring of one fresh server per configuration. In
`LatencyForensics` a query for processes can fail and read as none, and a kill
leave its server alive; the tool notices neither, and `invoked.missed` remembers
that it happened in this run. Any server can also end by itself. In `TraceFile`
every event is written: `_write_event` swallows a write that fails, and such a
trace is not the property's.

### Composites

`MCCommitQueue` only names the instance of a module.
`MCSessionParts` (gate, streaming recognition, command line), `MCTurnParts`,
`MCWebParts` and `MCTools` put several modules that share no state into one run:
a variable `part`, fixed in the initial state, names the one that moves while the
others keep their initial state. A property of one of them is checked in its own
part and holds trivially in the others. `MCWebTurns` does the same with the turns
and an `INSTANCE` of `LlmStatus`, whose liveness is checked there, in a small run,
and whose invariant in `tools`. A `VIEW` reduces a state to the part that
moves, from which the rest follows; `web_parts` also uses the symmetry of the
requests, threads, clients and engines that come in twos and that no invariant
tells apart. The fairness of a composite is that of its modules, each restricted
to its part.

## Runs and bounds

Constants are the only thing a `.cfg` gives; nothing is replaced. Deadlock is
not checked: users, operators and processes may simply stop, and the bounds end
each behaviour; that the program gets on where it should is said by the liveness
properties.

| run | instance | properties |
|---|---|---|
| `session_parts` | gate: 1 session, 2 keys, 3 turns, grace 1, idle 2; recognition: 2 sessions, 1 test, 1 typed turn, 3 frames, windows of 2; command line: 6 frames, 2 turns, 2 deltas, 1 chunk, hangover 2, forced end at 4 | `PairsAccounted`, `ConsolidatedOnce`, `GateWatches`, `Consolidates`; `UtterancesHeard`, `RecognitionEnds`; `SpeechKept`, `BargeInStopsSpeech`, `UtterancesAnswered` |
| `turns` | 3 turns; sessions with speech, with typing, with both; status: 2 sessions, 1 model, 2 probes | `TurnsApart`, `CutStaysCut`, `OneVoice`, `TurnsEnd`; `DownIsShown` |
| `commits` | 2 speakers, 1 reply text, 3 turns, queue of 2, 2 rounds, cache of 1, 2 failures | `CommitsAccounted`, `MemoriesDoNotMix`, `Drains` |
| `turn_parts` | speak: 4 chunks, 2 slots; perception: 2 speakers, 2 enrolments, 1 turn, 1 failure; emotion: 3 turns and the warm-up, 1 flaw; prompt: 2 hits, 2 exchanges, questions of 6 and 18; text: 5 characters, 5 words | `SpeaksInOrder` (refinement), `WorkerEnds`, `SaidOnce`, `NumbersWhole`, `SpansSpeakTheChunk`, `EnrolledStays`, `FactsNameFeelings`, `VoiceIsHeard`, `PromptFits` |
| `web_parts` | spaces: 1 space, 1 pair, 2 requests, 2 threads; selection: 2 files, one of which passes for the other, 2 workers, 2 start scripts, 1 fault; voices: 2 presets, 2 threads, 3 calls, 1 fault; diagnosis: 2 clients, 2 tests, 1 repair or failed write; VAD: window 2, context 1, blocks of 0 to 5 samples; Qwen: 2 engines, chunk 2, 3 samples, 1 fault | `MemoryAsShown`, `ModelAsShown`, `SpokenAsChosen`, `DiagnosisIsSound`, `ScoredWithMemory`, `UtteranceRecognised` |
| `tools` | verdict: 3 turns, 3 characters, delays of 31 and 40 s; replay: 2 turns, 3 runs, 1 interrupt; trace: 2 turns, 4 prompts; latency: 2 configurations, 2 invocations, 1 start; release: 2 versions, a builder of either, 2 edits, 2 gates, 2 builds, 1 kill; download: 2 fetches, 1 damage, 1 push; runtime: 2 edits, 3 starts, 1 request, 2 lines; status: 2 sessions, 2 models, 2 probes | `VerdictIsTheTurns`, `ReplaysAsReported`, `TraceTellsTheTurn`, `MeasuredFresh`, `ReleasesGated`, `SourcesAreTrue`, `SettingsHold`, `ChipHonest` |
| `llm_restart`, `prompt_stale`, `voices_mix`, `reply_lost`, `tail_lost`, `exact_tree` | the same modules, on the same or smaller instances | one each, violated: see [below](#where-code-and-documentation-disagree) |

### What the passing runs show

`session_parts`: *gate:* pairs leave the gate in the order they were spoken, once,
none lost, over every order of speech, turns, timer, worker and chain steps; the
gate is never open, nor about to open, while the user speaks or a turn runs; no
wake-up is lost; and a conversation that stays quiet has its pairs consolidated.
*Recognition:* with one model and one lock, a transcript is the whole of its
utterance, no stream outlives the utterance it was opened for, and nobody waits
for ever, through typed turns, disconnects, time-outs and model errors. *Command
line:* an utterance is one stretch of sound, counted once, split only by a pause;
a barge-in lets no further chunk begin; every utterance is taken up. `turns`: with
one input path the session has one uncancelled turn, which holds the gate and
writes history in order, and no turn is heard behind a later one but by the
worker of one that was cancelled as it told of an unavailable LLM; with both
paths that is lost, but a cancelled turn still never goes on to answer, and every
turn ends. *Status:* a server that stays down is shown so again and again, however
turns repaint the chip. `commits`: a reply is handed to a thread that stores it, queued or
dropped by the full queue, whatever the backend does; two flushes hand it over
twice at most; speakers do not mix; and a backend that works again drains the
queue. `turn_parts`: chunks are spoken in order and without gap, in whatever order
the syntheses finish, up to the last that was taken when the text ended; every
character of a reply is said once, and numbers are not parted; a confirmed
speaker stays enrolled; a loading model costs no turn its voice; the prompt keeps
the newest history that fits. `web_parts`: the active space is open and listed and
pairs go where they were spoken; page and file agree, and a running server called
the same passed for the chosen one when it was asked; the chosen voice speaks,
chunk beside chunk; a diagnosis names the broken stage and a recording that was
kept is of one clip; the VAD model sees one stream, but for the windows whose
inference raised; engines that share a model keep utterances apart. `tools`: what
the tools report is of the turn, the server and the tree they say, as far as
queries, kills and the fingerprint reach; what is released passed the gate; the
settings of the file hold down to the reply; a green chip after a failed probe
means a reply, and a busy one means work.

### Conjunctions

A property that is a conjunction is one claim in several parts, which keep their
names: `PairsAccounted` (`QueueInOrder`, `PairsCoalesced`, `NothingVanishes`),
`GateWatches` (`TypeOK`, `OpenMeansQuiet`, `NoLostWakeup`, `CancelMeansClosed`),
`TurnsApart` (`TypeOK`, `OneTurnAnswers`, `GateHeld`, `HistoryInOrder`),
`CommitsAccounted` (`TypeOK`, `NothingForgotten`, `StoredTwiceAtMost`),
`SpeechKept` (`TypeOK`, `UtteranceWhole`, `SpeechAccounted`,
`SplitOnlyBySilence`), `ChipHonest` (`TypeOK`, `GreenMeansAnswered`,
`ProcessingIsWork`), `UtterancesHeard` (`TypeOK`, `TranscriptIsUtterance`,
`StreamWithinUtterance`), `RecognitionEnds` (`FinishIsBounded`,
`ModelReleased`), `SpansSpeakTheChunk` (`SpansAreTheChunk`,
`OnlyPhrasesSwitch`), `MemoryAsShown` (`TypeOK`, `ActiveOpen`,
`ListedUnlessRaced`, `StoredWhereActive`, `ProcessingIsWork`), `ModelAsShown`
(`SameMeansSame`, `ChoiceAgrees`), `DiagnosisIsSound` (`DiagnosisNamesStage`,
`RecordingIsOneClip`), `ScoredWithMemory` (`ScoredInOrder`, `MemoryIsUsed`),
`UtteranceRecognised` (`OneInference`, `FinalIsUtterance`), `VerdictIsTheTurns`
(`MatchedWithItself`, `DelayLocated`), `ReleasesGated` (`OnlyGatedShips`,
`PageFitsVersion`, `OneEntryEach`, `LedgersAgree`), `SettingsHold`
(`OneProfile`, `NeverSilent`).

### Why these bounds

Three turns and two keys let a pair be in flight, the same pair be submitted
again, and a younger one wait behind it, so that putting back meets both a
duplicate and a queue to be first in; idle is longer than grace, so that the
timer fires too early and has to be armed again. Three turns in `WebTurns` are a
victim and its two heirs. One reply text in `commits` makes all replies equal,
which is the hard case of a queue searched by value; a cache of one evicts at
every change of speaker; two failures reach the back-off. Six frames hold an
utterance, a hangover and a second start, or a forced end. Two sessions are the
first number at which an ASR lock is contended, and three frames over windows of
two leave a short last window. Four chunks over two slots leave two waiting for
the semaphore, in either order. Two requests, clients, scripts, threads or
engines are the first number that can race, and nothing in the code counts
higher. VAD blocks of up to five samples are empty, part of a window, a window,
and more than two. Delays of 31 and 40 s lie above the tool's 30 s threshold,
with the short phases around its thresholds of one and two. Two gates and two
builds of two versions let a record be older than the tree, a version be built
again, and a build fail after a good one.

`MaxTurns`, `MaxChunks`, `MaxRequests`, `MaxStarts`, `MaxEdits` and their like
bound the environment only: they stand in the guards of what starts a turn,
emits a chunk, calls, starts a process, edits or breaks something, and of
nothing the program does in response.

## Fairness

* `MemoryGate`: `Tick`, the timer callback, the worker's resumption and the
  chain's steps are weakly fair. Time passes; the event loop runs what is ready;
  every LLM request of the chain has a client timeout. Nothing is assumed of the
  user: `Consolidates` has the premise that the conversation has become quiet.
* `WebTurns`: the steps of a turn's task, of a loop whose wait is over, and of the
  teardown. The memory search and the emotion analysis have timeouts, the LLM
  stream has one, and synthesis runs in a thread that returns. What the user
  does is not fair.
* `SpeakWorker`: pump, tasks and sender; that the LLM emits or ends is not
  assumed, `WorkerEnds` starts from the end of the text.
* `CommitQueue`: threads return, timers fire, a turn that runs goes on, the window
  of the back-off passes, a thread that stores a pair ends. Nobody has to speak and the backend need not recover:
  `Drains` has the premise that it works.
* `CliLoop`: the steps of a turn (the event loop runs it, the model server ends
  every stream) and of the playback thread (the device ends every chunk).
* `LlmStatus`: the health loop, whose requests have timeouts. Turns and requests
  are not fair.
* `AsrSessions`: calls return, generation threads run, turns end, and a
  microphone that is on delivers frames. No thread is promised the lock:
  whoever waits for it is released by the bounded joins, or not at all.

The other modules state safety only.

## What is proved

The theorems hold for every value of the constants: any sets of sessions,
speakers, turns, threads, spaces or clients, every bound and delay. They assume
the modules' named assumptions, which TLC evaluates in the runs, and what the
table says. Those that state a property of a run turn what TLC shows on a small
instance into a fact about all of them: of the invariants and action properties
of the passing runs all but the three of `SpeechText` are proved. Every inductive
invariant below was checked with TLC as an invariant, on the instance of its run.

| theorem | property | inductive invariant |
|---|---|---|
| *`MemoryGateProofs`* | | |
| `TypeCorrect` | `TypeOK` | itself |
| `InOrder`, `Coalesced`, `AllAccounted` | `QueueInOrder`, `PairsCoalesced`, `NothingVanishes` | `AccountInv` |
| `Accounted` | `PairsAccounted` | the three before it |
| `AppliedOnce` | `ConsolidatedOnce` | `AccountInv` |
| `ClosedForTheUser` (no overlap) | `OpenMeansQuiet` | with the timer: armed only while the gate awaits quiet |
| `WorkerAwake` | `NoLostWakeup` | `WakeInv` |
| `OpenedUncancelled` (one session) | `CancelMeansClosed` | `CancelInv` |
| `Watching` (no overlap, one session) | `GateWatches` | the four parts |
| *`WebTurnsProofs`* | | |
| `TurnsTyped` | `TypeOK` | `TypeInv` |
| `CutTurnsStayCut` | `CutStaysCut` | `CutInv` |
| `TurnsStayApart` | `TurnsApart` | `ApartInv` |
| `OneVoiceAtATime` | `OneVoice`, an action property | `ApartInv` |
| *`TurnPartsProofs`* | | |
| `WorkerTyped` | `TypeOK` of `SpeakWorker` | itself |
| `WorkerSpeaksInOrder` | `SpeaksInOrder`, the refinement | `LineInv` |
| `NoVoiceIsLost` | `VoiceIsHeard` | `EmotionInv` |
| `EnrolmentsLast` | `EnrolledStays` | `EnrolInv` |
| `FeelingsAreNamed` (`StoreFrom >= 25`) | `FactsNameFeelings` | itself, with lemmas on the fusion and the label |
| `PromptsFit` | `PromptFits` | `PromptInv` |
| *`OperationsProofs`* | | |
| `ChipIsHonest` | `ChipHonest` | `HonestInv` |
| `SettingsAreHeld` | `SettingsHold` | `RuntimeInv` |
| `SourcesAreRecorded` | `SourcesAreTrue` | `DownloadInv` |
| `ReleasesAreGated` | `ReleasesGated` | `ReleaseInv` |
| `MeasurementsAreFresh` | `MeasuredFresh` | `ForensicsInv` |
| `TracesTellTheTurn` | `TraceTellsTheTurn` | `TraceInv` |
| `ReplaysAreReported` | `ReplaysAsReported` | `ServersInv` |
| `VerdictsAreTrue` | `VerdictIsTheTurns` | `VerdictInv` |
| *`WebPartsProofs`* | | |
| `MemoryIsAsShown` | `MemoryAsShown` | `SpacesTypes`, `OpenInv`, `ListInv`, `StoreInv`, `ChipInv` |
| `ModelIsAsShown` | `ModelAsShown` | `ChoiceInv`, `ServerInv` |
| `SpeaksAsChosen` | `SpokenAsChosen` | `VoiceInv` |
| `DiagnosisCanBeTrusted` | `DiagnosisIsSound` | `DiagnosisInv` |
| *`CommitQueueProofs`* | | |
| `MemoriesAreTheSpeakers` | `MemoriesDoNotMix` | `MixInv` |
| `NoReplyIsForgotten` | `CommitsAccounted` | `BooksInv` |
| *`CliLoopProofs`* | | |
| `SpeechIsKept` | `SpeechKept` | `SpeechInv` with `TurnTypes` |
| `BargeInIsObeyed` | `BargeInStopsSpeech`, an action property | `Obeyed` |
| *`AsrSessionsProofs`* | | |
| `UtterancesAreHeard` | `UtterancesHeard` | `HeardInv` |
| `UtterancesAreThemselves` | `UtteranceRecognised` | `QwenInv` |
| `AudioIsOneStream` | `ScoredWithMemory` | `SileroInv` |

### The arguments

**Gate.** The four properties of the accounts need each other. That a record put
back is older than the queue needs that the job in flight is, and that turn
numbers in the queue do not exceed `seq`. That nothing vanishes needs that a turn
number is in the queue at most once and never both there and in flight, which is
the order again. That nothing is applied twice needs the program counter of the
chain: a chain can only be cancelled in a leg before its write, so a record that
comes back has `stored = 0`. `AccountInv` is the conjunction of these.
`ClosedForTheUser` fails with overlapping turns, which is a result, not a gap of
the proof. `_interrupt_turn` releases the gate after it has waited for the turn
it cancelled; with both input paths another turn may have started in that wait,
and the gate then opens on it. That is why `GateHeld` in `turns` has the premise
`OneInput`, and why `Overlap` exists in `MemoryGate`. `OpenedUncancelled` fails
with two sessions: one session's arm sets the event the other's gate has just
cleared. A consequence of `WorkerAwake` for the code: the test behind the wait
(`if not self._queue: break`, `background_memory.py:402`) never succeeds.

**Session turns.** A loop tests that there is room for a turn and starts it only
after a suspension or two; types are inductive because `Counted` counts the
loops under way to a start with the turns that are born. `Spent` says that only a
turn's last step writes history or submits, hence what is cancelled before stays
out of both, and that nobody was heard or left a worker who was not born. With
one input path, `ByInput` keeps the other loop at rest and `Alone` says that the
turns before the last have ended, that a live one is the session's `turnTask`,
that a loop that waits waits for it, and that the gate is held for it; order of
the history and of the voice follow from that, because only the last turn can
write, and only the last turn or a worker in `loose` can speak.

**Speak worker.** The chunks between the sender and the pump form an interval:
there are `lo` and `hi` such that `ordered` is `lo .. hi` and perhaps the end
mark, behind it wait chunks whose tasks have not run yet or that were not yet
pumped, before it everything was spoken, without sound, or in hand (`InLine`).
When the mark is there it stands behind the chunks that were due, and the worker
is over before a chunk behind it is taken. Every step of the worker is then a
step of `SpeechOutput` or a stutter. A worker that spoke all chunks would not be
refined by it: the run `tail_lost` shows the code does not.

**What a turn is made of.** `LoadInv` ties the load lock to the thread that
loads, so that who finds the model marked, unlocked and absent has met one that
cannot be loaded. `HeldIsTheFile`: unless enrolments met, what an enrolment holds
is the file. `FeelingsAreNamed` assumes no more than the labels need: a feeling is neutral
when its valence is less than 0.25 from zero, and the default of
`emotion_store_threshold` is 0.5; but `config.py:633` allows less than 0.25, and
then a neutral turn can be stored. `PromptsFit` reasons about `total`, a sum over the messages
of a window defined by recursion on its length, by the least counterexample.

**Chip.** The loop probes only while nothing is verified, so that a verified
server has no failed probe behind it (`Probing`); no span begins in another, so
that the end of a span never restores "processing" (`Spans`).

**Shared parts.** *Spaces:* a thread that got a facade got one that is cached,
and a cached one stays; while nothing was damaged one request at most is between
its reading and its writing of the registry, and it writes every name kept so
far; the thread that stores a pair took the active space of a moment between the
pair's search and now. *Model:* while calls do not overlap, the one that runs
has brought memory, file and status to where its next assignment expects them;
while starts do not meet, a marker that was last written for a server that was
asked or launched names the file for which whatever serves was taken.
*Voices:* while the
styles are those listed, the chosen voice is installed and no call has to replace
it, and what a chunk has spoken so far (`spoke`) is by the voice of its next span.
*Diagnosis:* one test at most is under way and has the lock, and the
recording is its clip from when it was opened, and whole if it was kept; the
decision lists then name the stage whose level fell.

**Commits.** A speaker's last user text is of a turn whose speaker is settled, and
the numbers a call carries are those of settled turns (`MixInv`). For the books,
count for a pair of speaker and text the turns that said it and are settled (`n`),
those dropped by the full queue (`e`), the entries in the queue (`q`) and in the
two snapshots (`a`, `b`), and the times it was handed over (`s`). Then
`n <= s + q + e`, which is that nothing is forgotten; and `s + 2q`, `s + a + q`,
`s + b + q` and `s + a + b` are at most `2n` (`Balance`). The middle two say that
an entry may be claimed by a flush that still has it in its snapshot, and handed
over once more by the queue; the last is why two flushes hand it over twice and
never more. Removing *an* equal entry, not *the* entry, leaves all of them true.

**Microphone of the command line.** The utterance that grows rises through the
frames, has every frame from its first to the newest except those the model
failed on, and ends in exactly the quiet frames that the state machine has
counted (`Going`); so it is whole when it is closed, and closed by a hangover
unless it was forced (`Closed`). A playback gives up the utterance it falls
into as a whole, which is why none has a hole where a playback was. An
utterance closed earlier keeps what it is, because the frames a playback marks
as cut are of the one that was growing (`Apart`). `Hangover - 1` quiet frames,
not `Hangover`, end an utterance: the frame that closes it is not part of it.
`BargeInStopsSpeech` needs that a detector that has fired meets no turn that
still speaks (`Obeyed`): each poll that fires leaves the turn in the same step.

**Streaming recognition.** For a connected session whose stream has not failed,
the text, the frames that wait for a full window and the queue are, one behind
the other, the frames of the utterance (`Feeding`); `finish()` puts the sentinel
behind the last (`Ending`), and what the sentinel leaves is the text of the whole
utterance (`Decided`), also when its length is no multiple of the window. A
stream that runs belongs to an utterance that is captured or finished, or was
given up by a join that timed out, and then `start()` is refused until its worker
has failed (`Hearing`). Nothing is claimed, and nothing is needed, about who
holds the lock.

**Qwen engines.** Every step of an engine either keeps the section, enters it when
nobody is there, or leaves it; an engine is in it exactly while it loads or
infers (`LockHeld`), which gives `OneInference`. For the transcripts: the buffer
holds the samples from the end of the last utterance to the last one fed, without
a gap; the partials rise and lie between that end and the cursor (`Heard`); a
final transcript ends before the buffer begins. No induction over the texts is
needed, because appending a part that lies behind the cursor keeps a rising
sequence rising.

**Detector.** What is buffered begins right behind the last window that left the
buffer, and is shorter than a window between two calls unless the last call raised
(`RestTells`). Each step of a call adds one window, whose samples are the head of
the buffer, and keeps the chain: its context and its state are those the last
scored window left, because a call that raises writes neither. A flush adds one
window that is padded. For the calling convention: what works before the one that
was taken was tried and failed (`BoundIs`).

**Settings.** Unless a file or an override was edited since, the running server
and agent have what their start would give now (`AsStarted`). That makes two
programs with the bridge between them agree, and needs of the loader only that it
is a function of file and overrides.

**Downloads.** The record of a component is written at the end of a run and of
what the run saw; so a run carries, component by component, what it has come to
(`InFetch`), and only a run that was not interrupted has records that count
(`RunRecords`). The pinned component and the one without mirror have one source
(`OwnFiles`); the VAD's file is the one that can come from two.

**Releases.** What passed is handed down: from the gate to the record, from the
record to the build, from the build to what is published (`GateTells`,
`RecordTells`, `BuildTells`, `PublishedTells`), each with the premise that the
tree was not edited in between (`raced`). While the tree is copied the builder
must still see the tree it checked, and the stamp in the log of a zip tells it
from those of other runs, so that counting entries counts releases (`LogsOnce`,
`Ledgers`). What a record tells is of the covered files only (`Covered`,
`FingerprintCovers`): the files aside pass through all four unchecked, which is
why the theorem is about `Fingerprint` and not about the tree. `Ledgers` speaks of the index a run is about to leave, since it is
torn while it is written, and needs that no run was killed.

**Latency tools.** *Measurements:* unless production came in between, the tool
has the GPU to itself from the moment it looked, with one server of its own at
most (`Alone`); a query or kill of the run that failed unnoticed ends that, and
the premise `missed` is set with it. *Trace:* each event of a turn is in the file exactly when its
wrapper has passed the place that writes it, in order; what the counters moved by
includes the turn's own prompt because the server worked on it behind the first
snapshot. *Replays:* as long as no run was interrupted no server is alive but
that of the run. *Verdict:* the lines of a turn stand together in the log, start,
token and end, and no later turn begins before them; so the next token and the
next end behind a start are its own, and the match cannot slip to a neighbour.
That the case names the phase of the delay is arithmetic over the thresholds; it
needs that the long phase lasts at least as long as two short ones
(`ReplayVerdictAssumption`), which the samples of the run satisfy.

### Only model-checked

* Liveness (`Consolidates`, `TurnsEnd`, `Drains`, `UtterancesAnswered`,
  `DownIsShown`, `RecognitionEnds`, `WorkerEnds`) and `ENABLED` are outside what
  the prover can do.
* The three invariants of `SpeechText`. `SaidOnce` and `NumbersWhole` are about
  what `Emitted` computes for every text, a function that is recursive on it, and
  about the flattening of its chunks; `SpansSpeakTheChunk` is about folds over the
  words of a chunk. Both need induction over data, and the library's induction
  theorems take an operator as a parameter, which no installed prover can
  instantiate. Induction over a set of numbers by its least counterexample works
  (`PromptsFit`, the counts of `CommitQueue`), which is how sums and counts are
  done; it does not help to unfold a function that is recursive over sequences.

## Where code and documentation disagree

Each of the first six is a run with a counterexample of a few steps;
`PROJECT.json` quotes the sentence the code does not keep.

* `voices_mix`: a turn whose LLM became unavailable in mid-reply awaits two sends
  before it ends its speak worker. A cancellation that arrives there leaves the
  worker to itself, and it speaks the old reply into the next.
* `reply_lost`: a reply is reported as committed when the thread that stores it has
  been started. If storing fails, nobody queues it again.
* `tail_lost`: the pump passes the end mark on before the tasks of the chunks it
  has just taken have registered them. When nothing suspends the turn between its
  last chunks and the mark, which is the common case, those chunks are not spoken.
* `llm_restart`: the start script that waits for a server it found loading writes
  a marker for its own model and never asks which one that server loads; the page
  then says "same".
* `prompt_stale`: the memory block is cut at its cap wherever that falls, which
  can leave a superseded trait without the mark at its end.
* `exact_tree`: the builder ships the `README.md` of the placeholder directories
  under `models/`, and `tree_fingerprint` does not read them: one edited behind a
  green gate ships as it then is.

Others are plain from the code and have no run:

* When the loader refuses the settings, `start_llama_server.ps1:337-338` goes on
  with the window's overrides as they are, also the one that was refused;
  `llm_config.py:122` says the server "will not start with an invalid one".
* The process guard prints "friss inditas indul" (a fresh start follows) when the
  server it waited for has gone (`start_llama_server.ps1:751,772`), and then falls
  through to the error and `exit 1` (786-790).
* A server whose name contains `OPENAI_MODEL`, or the reverse, is reported as
  "megegyezik a feloldott GGUF-fel" (the same as the resolved GGUF,
  `start_llama_server.ps1:581,799`), whichever file of that name was chosen.
* "Always keep the recording" (`web_server.py:3802`) is a best effort: a write that
  fails is logged, and the test is answered with the address of what is there.
* "FRESH process per config" holds as far as kills do: `kill_pid` is never
  verified, `stop` goes on after ten seconds, and a failed query for processes
  reads as none (`llm_latency_forensics.py:411-416`, `434-441`, `570-576`).

## Observed while modelling

What the models contain and no run singles out. Some of it is why a property has
a premise.

*Gate.* The worker does not test the gate again behind its wait, and with the
gate open nothing tests the activity: speech in that window does not defer a
chain but cancels it at its next poll. A chain that raises loses its pair, also
if it wrote nothing. An utterance with an empty transcript leaves the gate
armed. With two sessions a quiet one can start, cancel and re-queue the same
pair for ever. The slot annotation behind the write (`IssueTag`) does not poll
the cancel event, and must not.

*Turns.* Typed and spoken turns race in `_cancel_turn` and `_interrupt_turn`;
one turn is orphaned and both are heard. Most phases in which a turn can be cut
leave no history. `_cancel_turn` swallows the audio loop's own cancellation, and
the loop starts a turn behind the teardown.

*Memory spaces.* A search that returned `None` sets the chip ready. Creating a
space constructs its facade on the event loop. Two registrations at once can
lose one; a torn registry reads as empty.

*CLI and bridge.* A retried reply is committed with its speaker's last words,
which may be those of a later turn. The cache is pruned when a facade is
constructed, not "on every access"; two clients can construct two facades of one
space. A reply that an LLM error cut short is committed as complete. A barge-in
between a chunk's synthesis and its playback lets that chunk be played, and the
echo gate may open before a playback thread has begun.

*ASR.* `asr_nemotron.py` uses `REASON_INVALID_AUDIO` without importing it. A
stream of a session that is torn down in mid-utterance keeps the lock. The Qwen
engine's load error is sticky; chunks that fail are lost from a transcript made
of partials.

*VAD.* `flush_prob` is called nowhere in `app/`, so that the tail of an utterance
below a window is dropped by the `reset` between two. An inference that raises
loses the window it was for.

*Voices, tests.* A failed load is sticky until a restart; the active voice is
shown before, and without, audio; a reply's interrupt kills a preview; a failed
save leaves the memory changed. A probe without the page's measurements blames
the browser; a download of the recording can read a file that is being written;
a cancelled await releases the test lock while its thread runs.

*Speakers, emotion.* The settings allow an `emotion_store_threshold` below 0.25,
with which a neutral turn is remembered as a feeling. Two concurrent enrolments lose one; an unreadable registry
is read as empty and then overwritten. While one thread makes the analyzer the
others get none; `SpeakerEmbedder` has no such lock.

*Settings, models.* Overrides of the environment win over the file, though the
loader's docstring lists the file as strongest. `--config` elsewhere uses the
`llm_config.yaml` beside it, while the start script uses the root's. An
interrupt before the records are written loses the provenance of what was
fetched; the commit of `main` is asked for after the download.

*Prompt.* The shedding step of `fit_prompt_budget` for the history is never
used, because the CLI passes none; a cut can leave a short system prompt longer
by its marker; shed or interrupted histories need not alternate.

*Tools.* A delay between the body of `chat_stream` and the sending of the request
is not the tool's case E. An interrupt leaves a test server that the next run
takes for a fresh one, or for production's. The trace leaves out a line it could
not write, without a word. A refused run of the latency tool
overwrites earlier results. A gate that times out leaves the older record. A
successful build rewrites `CHANGELOG.md`, so that its record no longer fits; a
failed rebuild deletes the archive the index still names.

## Not modelled

* The speculative voice stream, session tracker, left and right brain of the
  vendored library: `stream.py` is not used by `app/`; the others are numerical
  or sequential, behind the chain of `MemoryGate`, which models what the gate can
  observe of them. What extraction and conflict resolution decide about facts is
  a model's answer.
* Signal processing, inference, ranking and scoring have no protocol to check.
  The Parakeet engine is a call with error mapping, whose outcome `AsrSessions`
  has.
* Reading, parsing and wording: the other settings of `app/config.py`, GGUF
  headers, the persona's text, `normalize_for_speech`, the page, the read-only
  routes, reports of the tools.
* Mock components, smoke tests, benchmarks, audits, installers and experiments,
  and the one-time upgrade of llama-server, are not part of the running program.
* Within modelled components: a partial worker's bounded join is a choice of
  `FinishTimesOut`; a model that fails to load for a passing reason is not
  distinguished from one that cannot; the frames of a web utterance appear in
  `AsrSessions` only; the disconnect of a session discards its gate's queue, as
  the code says it does.

## Plan

Done: all modules above, and the theorems about every safety property the passing
runs check, except those of `SpeechText`. What is left:

1. `SpeechText`: its three invariants wait for a prover that can use the
   induction theorems of the library. Until then `turn_parts` checks them on all
   texts of five characters and all chunks of five words.
2. An abstract ledger of pairs (submitted, settled once, in order) that
   `MemoryGate` implements, and a turn slot that `WebTurns` with one input path
   implements, whose gate refines the session part of `MemoryGate`.
3. `FactIngest`: what conflict resolution does to the facts of a turn, against a
   reference definition, with the session tracker.
