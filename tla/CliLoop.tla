------------------------------ MODULE CliLoop -------------------------------
(***************************************************************************)
(* The loops of the command-line agent: the microphone callback and        *)
(* _vad_loop cut frames into utterances, _turn_loop answers them one       *)
(* behind the other (app/main.py), and a turn speaks its reply chunk by    *)
(* chunk while it watches for the user to interrupt (app/pipeline.py,      *)
(* app/barge_in.py, app/vad.py, app/audio_io.py).                          *)
(*                                                                         *)
(* The two loops are tasks of one event loop: a step of either runs        *)
(* without the other until it waits.  The microphone callback and the      *)
(* blocking playback run on threads of their own.                          *)
(***************************************************************************)
EXTENDS Integers, Sequences, FiniteSets, SequencesExt

CONSTANTS
    MaxFrames,      \* bound on the microphone frames of a behaviour
    MaxCliTurns,       \* bound on the turns
    MaxDeltas,      \* bound on the deltas of a reply
    MaxChunks,      \* bound on the chunks one delta completes
    Hangover,       \* _hangover_frames
    MaxUtterance,   \* max_utterance_ms, in frames
    MinSpeech       \* _min_speech_frames of the barge-in detector

ASSUME CliBoundsAssumption ==
    /\ {MaxFrames, MaxCliTurns, MaxDeltas, Hangover} \subseteq Nat
    /\ {MaxChunks, MaxUtterance, MinSpeech} \subseteq Nat \ {0}

VARIABLES
    frames,     \* kind of each frame _vad_loop has taken from frame_q
    latest,     \* the frame whose probability latest["prob"] is, 0 at first
    vad,        \* the state of the VadStateMachine
    utterance,  \* frames of the utterance being collected
    sent,       \* all utterances put into utterance_q, in order
    fate,       \* what _vad_loop did with each frame
    taken,      \* how many utterances _turn_loop has taken
    phase,      \* where its turn is
    deltas,     \* deltas of the reply so far
    ended,      \* the stream of the reply is exhausted
    todo,       \* chunks to speak before the next delta
    gate,       \* echo_gate.tts_playing
    sustain,    \* _sustained_frames of the detector
    fired,      \* _fired
    player,     \* the playback thread of each turn
    running     \* running["flag"]

micVars == <<frames, latest, vad, utterance, sent, fate>>
detectorVars == <<sustain, fired>>
replyVars == <<deltas, ended, todo>>
cliVars == <<frames, latest, vad, utterance, sent, fate, taken, phase, deltas, ended, todo,
          gate, sustain, fired, player, running>>

Kinds == {"speech", "quiet", "bad"}      \* above the thresholds, below, not scored
Fates == {"new", "quiet", "bad", "gated", "heard", "cut"}
FrameNos == 1 .. MaxFrames
CliTurns == 1 .. MaxCliTurns

CliTypeOK ==
    /\ frames \in Seq(Kinds) /\ Len(frames) <= MaxFrames
    /\ latest \in 0 .. Len(frames)
    /\ vad \in [inSpeech : BOOLEAN, silence : 0 .. Hangover]
    /\ utterance \in Seq(FrameNos) /\ Len(utterance) < MaxUtterance
    /\ sent \in Seq(Seq(FrameNos))
    /\ fate \in [FrameNos -> Fates]
    /\ taken \in 0 .. MaxCliTurns /\ taken <= Len(sent)
    /\ phase \in {"idle", "listen", "stream", "synth", "play", "commit", "gone"}
    /\ deltas \in 0 .. MaxDeltas /\ ended \in BOOLEAN /\ todo \in 0 .. MaxChunks
    /\ gate \in BOOLEAN
    /\ sustain \in 0 .. MinSpeech - 1 /\ fired \in BOOLEAN
    /\ player \in [CliTurns -> {"none", "starting", "playing"}]
    /\ running \in BOOLEAN

CliInit ==
    /\ frames = <<>> /\ latest = 0
    /\ vad = [inSpeech |-> FALSE, silence |-> 0]
    /\ utterance = <<>> /\ sent = <<>>
    /\ fate = [n \in FrameNos |-> "new"]
    /\ taken = 0 /\ phase = "idle"
    /\ deltas = 0 /\ ended = FALSE /\ todo = 0
    /\ gate = FALSE
    /\ sustain = 0 /\ fired = FALSE
    /\ player = [t \in CliTurns |-> "none"]
    /\ running = TRUE

-----------------------------------------------------------------------------
(* From the microphone to utterances.                                      *)

Silent == [inSpeech |-> FALSE, silence |-> 0]

\* Variant of Updated: a loud frame does not re-arm the hangover.
UpdatedNoRearm(v, loud) ==
    CASE ~v.inSpeech /\ loud -> [inSpeech |-> TRUE, silence |-> 0]
      [] v.inSpeech /\ ~loud /\ v.silence + 1 >= Hangover -> Silent
      [] v.inSpeech /\ ~loud /\ v.silence + 1 < Hangover -> [v EXCEPT !.silence = @ + 1]
      [] OTHER -> v

\* VadStateMachine.update; the events are the changes of inSpeech.
Updated(v, loud) ==
    CASE loud -> [inSpeech |-> TRUE, silence |-> 0]
      [] v.inSpeech /\ ~loud /\ v.silence + 1 < Hangover -> [v EXCEPT !.silence = @ + 1]
      [] OTHER -> Silent

\* A frame during playback: the utterance it falls into is given up.
Gated(n) ==
    /\ vad' = Silent
    /\ utterance' = <<>>
    /\ fate' = [i \in FrameNos |-> IF i = n THEN "gated"
                                   ELSE IF i \in ToSet(utterance) THEN "cut" ELSE fate[i]]
    /\ sent' = sent

\* A frame that passes the gate: an utterance starts, grows, ends, or is
\* forced to end.
Heard(n, loud) ==
    LET v == Updated(vad, loud)
        upto == (IF vad.inSpeech THEN utterance ELSE <<>>) \o (IF v.inSpeech THEN <<n>> ELSE <<>>)
        over == vad.inSpeech /\ ~v.inSpeech
        forced == v.inSpeech /\ Len(upto) >= MaxUtterance
    IN  /\ vad' = IF forced THEN Silent ELSE v
        /\ utterance' = IF over \/ forced THEN <<>> ELSE upto
        /\ sent' = IF (over \/ forced) /\ upto # <<>> THEN Append(sent, upto) ELSE sent
        /\ fate' = [fate EXCEPT ![n] = IF v.inSpeech THEN "heard" ELSE "quiet"]

\* _vad_loop takes a frame the microphone callback queued.  (It drains the
\* queue without waiting; frames are of any kind, so that taking two in one
\* step shows nothing else than taking them in two.)  A frame the model
\* fails on changes nothing.
Frame ==
    /\ running /\ Len(frames) < MaxFrames
    /\ \E k \in Kinds :
          LET n == Len(frames) + 1
          IN  /\ frames' = Append(frames, k)
              /\ IF k = "bad"
                 THEN /\ fate' = [fate EXCEPT ![n] = "bad"]
                      /\ UNCHANGED <<latest, vad, utterance, sent>>
                 ELSE /\ latest' = n
                      /\ IF gate THEN Gated(n) ELSE Heard(n, k = "speech")
    /\ UNCHANGED <<taken, phase, gate, player, running, replyVars, detectorVars>>

-----------------------------------------------------------------------------
(* The barge-in detector.                                                  *)

Loud == latest # 0 /\ frames[latest] = "speech"
Counts == ~fired /\ gate /\ Loud

\* BargeInDetector.update fires at this poll.
Fires == Counts /\ sustain + 1 >= MinSpeech

\* _maybe_abort polls the latest probability.
Poll ==
    /\ fired' = (fired \/ Fires)
    /\ sustain' = IF fired THEN sustain ELSE IF Counts /\ ~Fires THEN sustain + 1 ELSE 0

-----------------------------------------------------------------------------
(* A turn.                                                                 *)

\* _turn_loop takes an utterance; handle_utterance resets the detector.
BeginTurn ==
    /\ running /\ phase = "idle" /\ taken < Len(sent) /\ taken < MaxCliTurns
    /\ taken' = taken + 1 /\ phase' = "listen"
    /\ deltas' = 0 /\ ended' = FALSE /\ todo' = 0
    /\ gate' = FALSE
    /\ sustain' = 0 /\ fired' = FALSE
    /\ UNCHANGED <<micVars, player, running>>

\* Recognition, identification and retrieval; an empty transcript ends the turn.
Listened ==
    /\ running /\ phase = "listen"
    /\ phase' \in {"idle", "stream"}
    /\ UNCHANGED <<micVars, taken, gate, player, running, replyVars, detectorVars>>

\* The turn is over: the gate opens.
Finish(p) == phase' = p /\ gate' = FALSE

\* A delta arrives: it is polled first and completes some chunks.
Delta ==
    /\ running /\ phase = "stream" /\ todo = 0 /\ ~ended /\ deltas < MaxDeltas
    /\ Poll
    /\ \/ Fires /\ Finish("idle") /\ UNCHANGED replyVars
       \/ /\ ~Fires /\ deltas' = deltas + 1
          /\ todo' \in 0 .. MaxChunks
          /\ UNCHANGED <<phase, gate, ended>>
    /\ UNCHANGED <<micVars, taken, player, running>>

\* Variant of StreamEnds: a failed stream is asked for again.
StreamEndsAgain ==
    /\ running /\ phase = "stream" /\ todo = 0 /\ ~ended
    /\ deltas' = 0
    /\ UNCHANGED <<micVars, taken, phase, ended, todo, gate, player, running, detectorVars>>

\* The stream stops or fails: the rest of the text is flushed as one chunk.
StreamEnds ==
    /\ running /\ phase = "stream" /\ todo = 0 /\ ~ended
    /\ ended' = TRUE
    /\ todo' \in {0} \cup (IF deltas > 0 THEN {1} ELSE {})
    /\ UNCHANGED <<micVars, taken, phase, deltas, gate, player, running, detectorVars>>

\* _speak_chunk polls and synthesizes the next chunk.
SpeakChunk ==
    /\ running /\ phase = "stream" /\ todo > 0
    /\ Poll
    /\ IF Fires THEN Finish("idle") ELSE phase' = "synth" /\ gate' = gate
    /\ UNCHANGED <<micVars, taken, replyVars, player, running>>

\* Variant of Synthesized: the poll after the synthesis is ignored.
SynthesizedDeafPoll ==
    /\ running /\ phase = "synth"
    /\ Poll
    /\ phase' = "play" /\ gate' = TRUE
    /\ player' = [player EXCEPT ![taken] = "starting"]
    /\ UNCHANGED <<micVars, taken, replyVars, running>>

\* The synthesis returns: no audio skips the chunk, else playback starts
\* unless the user interrupted meanwhile.
Synthesized ==
    /\ running /\ phase = "synth"
    /\ \/ /\ todo' = todo - 1 /\ phase' = "stream"
          /\ UNCHANGED <<gate, player, detectorVars>>
       \/ /\ Poll /\ todo' = todo
          /\ \/ Fires /\ Finish("idle") /\ player' = player
             \/ /\ ~Fires /\ phase' = "play" /\ gate' = TRUE
                /\ player' = [player EXCEPT ![taken] = "starting"]
    /\ UNCHANGED <<micVars, taken, deltas, ended, running>>

\* _abort_playback stops what plays.  A thread that has not started to play
\* yet is not reached, unless the executor had not begun it.
Aborted(p) ==
    /\ \A t \in CliTurns : player[t] # "starting" => p[t] = "none"
    /\ \A t \in CliTurns \ {taken} : player[t] = "starting" => p[t] = "starting"
    /\ player[taken] = "starting" => p[taken] \in {"none", "starting"}

\* Every poll interval of the playback; a chunk that was played is done.
PollPlayback ==
    /\ running /\ phase = "play"
    /\ Poll
    /\ \/ /\ Fires /\ Finish("idle") /\ todo' = todo
          /\ \E p \in [CliTurns -> {"none", "starting", "playing"}] : Aborted(p) /\ player' = p
       \/ /\ ~Fires /\ player[taken] = "none"
          /\ todo' = todo - 1 /\ phase' = "stream" /\ UNCHANGED <<gate, player>>
       \/ /\ ~Fires /\ player[taken] # "none"
          /\ UNCHANGED <<phase, gate, todo, player>>
    /\ UNCHANGED <<micVars, taken, deltas, ended, running>>

\* Everything is spoken: a reply is committed, an empty or blank one is not.
ReplyDone ==
    /\ running /\ phase = "stream" /\ ended /\ todo = 0
    /\ \E p \in {"idle"} \cup (IF deltas > 0 THEN {"commit"} ELSE {}) : Finish(p)
    /\ UNCHANGED <<micVars, taken, replyVars, player, running, detectorVars>>

\* The commit returns, stored or queued.
Committed ==
    /\ running /\ phase = "commit" /\ phase' = "idle"
    /\ UNCHANGED <<micVars, taken, gate, replyVars, player, running, detectorVars>>

-----------------------------------------------------------------------------
(* Playback threads, and the end of the program.                           *)

\* sd.play stops what another thread plays.
PlayStarts(t) ==
    /\ player[t] = "starting"
    /\ player' = [u \in CliTurns |-> IF u = t THEN "playing"
                                  ELSE IF player[u] = "playing" THEN "none" ELSE player[u]]
    /\ UNCHANGED <<micVars, taken, phase, gate, replyVars, running, detectorVars>>

\* sd.wait returns, or both attempts failed.
PlayEnds(t) ==
    /\ player[t] # "none"
    /\ player' = [player EXCEPT ![t] = "none"]
    /\ UNCHANGED <<micVars, taken, phase, gate, replyVars, running, detectorVars>>

\* Ctrl+C cancels both loops.
Quit ==
    /\ running /\ running' = FALSE
    /\ UNCHANGED <<micVars, taken, phase, gate, replyVars, player, detectorVars>>

\* A cancelled turn waits for the chunk that is playing.
Leave ==
    /\ ~running /\ phase # "gone"
    /\ phase = "play" => player[taken] = "none"
    /\ phase' = "gone"
    /\ UNCHANGED <<micVars, taken, gate, replyVars, player, running, detectorVars>>

Turn ==
    \/ BeginTurn \/ Listened \/ Delta \/ StreamEnds \/ SpeakChunk \/ Synthesized
    \/ PollPlayback \/ ReplyDone \/ Committed \/ Leave
Player == \E t \in CliTurns : PlayStarts(t) \/ PlayEnds(t)

\* The program ended, or no frame and no turn is left within the bounds.
Done ==
    /\ UNCHANGED cliVars
    /\ \A t \in CliTurns : player[t] = "none"
    /\ \/ phase = "gone"
       \/ phase = "idle" /\ Len(frames) = MaxFrames /\ taken \in {Len(sent), MaxCliTurns}

CliNext == Frame \/ Turn \/ Player \/ Quit \/ Done

CliSpec == CliInit /\ [][CliNext]_cliVars

\* The event loop runs the turn, the model server ends every stream, and
\* the audio device ends every chunk.
CliFairSpec == CliSpec /\ WF_cliVars(Turn) /\ WF_cliVars(Player)

-----------------------------------------------------------------------------
(* Properties.                                                             *)

Utterances == ToSet(sent) \cup {utterance}
Least(u) == CHOOSE n \in ToSet(u) : \A k \in ToSet(u) : n <= k
Last1(u) == CHOOSE n \in ToSet(u) : \A k \in ToSet(u) : n >= k

\* An utterance is one stretch of sound: between its first and its last frame
\* only frames the model failed on are missing, never one a playback hid.
UtteranceWhole ==
    \A u \in Utterances \ {<<>>} :
        \A n \in Least(u) .. Last1(u) : n \in ToSet(u) \/ fate[n] = "bad"

\* A frame that was heard is in exactly one utterance, and a loud frame that
\* passed the gate was heard, or given up when a playback cut it.
SpeechAccounted ==
    \A n \in 1 .. Len(frames) :
        /\ fate[n] = "heard" =>
              Cardinality({i \in DOMAIN sent : n \in ToSet(sent[i])})
                  + (IF n \in ToSet(utterance) THEN 1 ELSE 0) = 1
        /\ frames[n] = "speech" => fate[n] \in {"heard", "cut", "gated"}

\* An utterance that was not forced to end was closed by a whole hangover of
\* quiet frames: a shorter pause never splits a sentence.
SplitOnlyBySilence ==
    \A i \in DOMAIN sent : Len(sent[i]) < MaxUtterance =>
        \A j \in Len(sent[i]) - Hangover + 2 .. Len(sent[i]) : frames[sent[i][j]] = "quiet"

\* Once the detector fired no further chunk starts in that turn.
BargeInStopsSpeech ==
    [][fired /\ fired' => \A t \in CliTurns : player'[t] = "starting" => player[t] = "starting"]_cliVars

\* Every utterance is taken up and its turn comes to an end.
UtterancesAnswered ==
    \A i \in CliTurns :
        []<>(Len(sent) < i \/ (taken >= i /\ phase \in {"idle", "gone"}) \/ ~running)

\* What the user says reaches recognition in whole utterances, once, and is
\* split nowhere but at a pause.
SpeechKept == CliTypeOK /\ UtteranceWhole /\ SpeechAccounted /\ SplitOnlyBySilence

=============================================================================
