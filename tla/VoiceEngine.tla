---------------------------- MODULE VoiceEngine -----------------------------
(***************************************************************************)
(* The voices: the choice of app/voice_settings.py and its file, the REST  *)
(* call that changes it, the Supertonic engine of app/tts_supertonic.py    *)
(* that is loaded once and speaks for every caller, and the two callers of *)
(* app/web_server.py: the replies' speaker task and the preview.           *)
(*                                                                         *)
(* The REST call runs on the event loop without awaiting, so it is one     *)
(* action.  Synthesis runs in worker threads, which outlive the task that  *)
(* awaits them.  A style's file stands for its preset.                     *)
(***************************************************************************)
EXTENDS Naturals, FiniteSets

CONSTANTS
    Presets,        \* the preset voices
    Default,        \* F1: DEFAULT_HU_VOICE, DEFAULT_EN_VOICE and the two of the config
    Legacy,         \* a voice of the Piper era, in a file written then
    NoVoice,
    VoiceThreads,   \* worker threads
    MaxReplies,     \* bound on the chunks and previews
    MaxChanges,     \* bound on the calls that change the choice
    MaxVoiceFaults  \* bound on failed saves, failed syntheses and restarts

ASSUME VoiceEngineAssumption ==
    /\ IsFiniteSet(Presets) /\ Default \in Presets
    /\ Legacy \notin Presets /\ NoVoice \notin Presets \cup {Legacy}
    /\ {MaxReplies, MaxChanges, MaxVoiceFaults} \subseteq Nat

Modes == {"auto", "hu", "en"}
Languages == {"hu", "en"}

VARIABLES
    styles,     \* presets whose file is in voice_styles/
    choice,     \* VoiceSettings of the backend
    saved,      \* config/voice_settings.json
    shown,      \* status.voice
    engine,     \* "off" (no backend) | "cold" | "ready" | "broken" (_tts, _load_error)
    stopAsked,  \* _stop_requested
    synth,      \* thread -> the call it runs
    heard,      \* the last chunk that was heard: the voice chosen for it and those that spoke
    tally       \* what the bounds count; moved: styles were installed after the backend had
                \* listed them

voiceVars == <<styles, choice, saved, shown, engine, stopAsked, synth, heard, tally>>

Unused == [at |-> "free"]
Chosen(c) == [mode |-> c.mode, hu |-> c.hu, en |-> c.en]

\* available_voices: every preset when none is installed.
Available(installed) == IF installed = {} THEN Presets ELSE installed

\* _validated: every preset counts as a Hungarian one, so the first installed
\* preset replaces an unknown Hungarian voice and the default an unknown English one.
Validated(id, available) ==
    IF id \in available THEN id ELSE IF Default \in available THEN Default
    ELSE CHOOSE v \in available : TRUE

\* No preset counts as an English one.
ValidatedEn(id, available) ==
    IF id \in available THEN id ELSE Default

\* VoiceSettings.load.
LoadedChoice(file, installed) ==
    LET available == Available(installed)
    IN [mode |-> file.mode, available |-> available,
        hu |-> Validated(file.hu, available), en |-> ValidatedEn(file.en, available)]

\* What a first start finds: a file of the Piper era, or none (the defaults).
Files == {[mode |-> "auto", hu |-> v, en |-> w] : v, w \in {Default, Legacy}}

NoFile == [mode |-> "auto", hu |-> Default, en |-> Default]

\* Before the backend was started for the first time.
VoiceInit ==
    /\ styles = {} /\ saved = NoFile /\ choice = LoadedChoice(NoFile, {})
    /\ shown = [chosen |-> Chosen(choice), active |-> NoVoice]
    /\ engine = "off" /\ stopAsked = FALSE
    /\ synth = [t \in VoiceThreads |-> Unused]
    /\ heard = [chosen |-> NoVoice, used |-> {}]
    /\ tally = [replies |-> 0, changes |-> 0, faults |-> 0, moved |-> FALSE]

-----------------------------------------------------------------------------
(* The choice.                                                             *)

StartVoice ==
    /\ engine = "off" /\ engine' = "cold"
    /\ styles' \in {{}, Presets} /\ saved' \in Files
    /\ choice' = LoadedChoice(saved', styles')
    /\ shown' = [chosen |-> Chosen(choice'), active |-> NoVoice]
    /\ UNCHANGED <<stopAsked, synth, heard, tally>>

HoldVoices == UNCHANGED <<styles, engine, stopAsked, synth, heard>>

\* apply_voice_settings; an unknown mode is a 400 and changes nothing.  An id is
\* validated.  When the file cannot be written the choice in memory has changed
\* and neither the file nor the status has.
ApplyVoice(mode, hu, en) ==
    /\ engine # "off" /\ tally.changes < MaxChanges
    /\ choice' = [choice EXCEPT !.mode = mode, !.hu = Validated(hu, choice.available),
                                !.en = ValidatedEn(en, choice.available)]
    /\ \/ /\ saved' = Chosen(choice') /\ shown' = [shown EXCEPT !.chosen = Chosen(choice')]
          /\ tally' = [tally EXCEPT !.changes = @ + 1]
       \/ /\ tally.faults < MaxVoiceFaults
          /\ tally' = [tally EXCEPT !.changes = @ + 1, !.faults = @ + 1]
          /\ UNCHANGED <<saved, shown>>
    /\ HoldVoices

\* The backend starts again.
RestartVoice ==
    /\ engine # "off" /\ tally.faults < MaxVoiceFaults
    /\ choice' = LoadedChoice(saved, styles)
    /\ shown' = [chosen |-> Chosen(choice'), active |-> NoVoice]
    /\ engine' = "cold" /\ stopAsked' = FALSE
    /\ synth' = [t \in VoiceThreads |-> Unused]
    /\ tally' = [tally EXCEPT !.faults = @ + 1, !.moved = FALSE]
    /\ heard' = [chosen |-> NoVoice, used |-> {}]
    /\ UNCHANGED <<styles, saved>>

\* The download script installs some styles.
Install ==
    /\ engine # "off" /\ styles = {}
    /\ \E some \in SUBSET Presets : Default \in some /\ styles' = some
    /\ tally' = [tally EXCEPT !.moved = TRUE]
    /\ UNCHANGED <<choice, saved, shown, engine, stopAsked, synth, heard>>

-----------------------------------------------------------------------------
(* The engine.                                                             *)

\* resolve: the voice and the language that is spoken.
Resolve(language) ==
    IF choice.mode = "hu" \/ (choice.mode = "auto" /\ language = "hu") THEN choice.hu
    ELSE choice.en

\* Variant of VoiceName: the default of the config speaks.
VoiceNameDefault(v) == Default

\* _voice_name: a voice that is not installed is replaced by the default.
VoiceName(v) == IF v \in styles THEN v ELSE Default

Calls(t, kind, v) ==
    /\ engine # "off" /\ synth[t] = Unused /\ tally.replies < MaxReplies
    /\ synth' = [synth EXCEPT ![t] = [at |-> "called", kind |-> kind, voice |-> v,
                                      used |-> NoVoice, spoke |-> {}]]
    /\ tally' = [tally EXCEPT !.replies = @ + 1]

\* _synthesize_chunk: the voice is shown before it has spoken.  A turn's chunks
\* are synthesized two at a time (_TTS_MAX_PARALLEL_CHUNKS), and beside those of an
\* earlier turn whose worker was left behind: as many at once as there are threads.
Reply(t) ==
    /\ \E language \in Languages :
        /\ Calls(t, "reply", Resolve(language))
        /\ shown' = [shown EXCEPT !.active = Resolve(language)]
    /\ UNCHANGED <<styles, choice, saved, engine, stopAsked, heard>>

\* api_voice_preview.
Preview(t) ==
    /\ \A u \in VoiceThreads : synth[u] # Unused => synth[u].kind # "preview"
    /\ \E v \in choice.available : Calls(t, "preview", v)
    /\ UNCHANGED <<styles, choice, saved, shown, engine, stopAsked, heard>>

\* synthesize and _ensure_engine, to the inference: the first call loads the
\* engine under the lock, and a load that fails is never tried again.
Enters(t, outcome) ==
    /\ synth[t] # Unused /\ synth[t].at = "called"
    /\ stopAsked' = FALSE
    /\ engine' = outcome
    /\ synth' = [synth EXCEPT ![t].at = IF outcome = "ready" THEN "infer" ELSE "failed",
                              ![t].used = VoiceName(synth[t].voice)]
    /\ UNCHANGED <<styles, choice, saved, shown, heard, tally>>

EnterLoaded(t) == engine # "cold" /\ Enters(t, engine)
EnterCold(t) == engine = "cold" /\ Enters(t, IF Default \in styles THEN "ready" ELSE "broken")

SynthesisFails(t) ==
    /\ synth[t] # Unused /\ synth[t].at = "infer" /\ tally.faults < MaxVoiceFaults
    /\ synth' = [synth EXCEPT ![t].at = "failed"]
    /\ tally' = [tally EXCEPT !.faults = @ + 1]
    /\ UNCHANGED <<styles, choice, saved, shown, engine, stopAsked, heard>>

\* The part that is done, unless a stop was asked for.
Parts(t) == synth[t].spoke \cup (IF stopAsked THEN {} ELSE {synth[t].used})

\* A chunk whose words change language is synthesized span by span, each a call of
\* its own with the voice of the chunk.
NextSpan(t) ==
    /\ synth[t] # Unused /\ synth[t].at = "infer" /\ synth[t].kind = "reply"
    /\ synth' = [synth EXCEPT ![t].at = "called", ![t].spoke = Parts(t)]
    /\ UNCHANGED <<styles, choice, saved, shown, engine, stopAsked, heard, tally>>

\* The result goes to the caller; a chunk that was cut has nobody waiting for it.
Deliver(t) ==
    /\ synth[t] # Unused /\ synth[t].at \in {"infer", "failed"}
    /\ synth' = [synth EXCEPT ![t] = Unused]
    /\ LET replied == synth[t].kind = "reply" /\ synth[t].at = "infer"
       IN /\ shown' = IF replied THEN [shown EXCEPT !.active = synth[t].voice] ELSE shown
          /\ heard' = IF replied /\ Parts(t) # {}
                      THEN [chosen |-> synth[t].voice, used |-> Parts(t)] ELSE heard
    /\ UNCHANGED <<styles, choice, saved, engine, stopAsked, tally>>

\* interrupt and _cancel_turn: the flag, and the task is cancelled; its thread runs on.
InterruptReply ==
    /\ \E t \in VoiceThreads : synth[t] # Unused /\ synth[t].kind = "reply"
    /\ stopAsked' = TRUE
    /\ synth' = [t \in VoiceThreads |-> IF synth[t] # Unused /\ synth[t].kind = "reply"
                                   THEN [synth[t] EXCEPT !.kind = "cut"] ELSE synth[t]]
    /\ UNCHANGED <<styles, choice, saved, shown, engine, heard, tally>>

VoiceNext ==
    \/ \E mode \in Modes, hu, en \in choice.available \cup {Legacy} : ApplyVoice(mode, hu, en)
    \/ StartVoice \/ RestartVoice \/ Install \/ InterruptReply
    \/ \E t \in VoiceThreads :
        \/ Reply(t) \/ Preview(t) \/ EnterLoaded(t) \/ EnterCold(t) \/ SynthesisFails(t)
        \/ NextSpan(t) \/ Deliver(t)

VoiceSpec == VoiceInit /\ [][VoiceNext]_voiceVars

-----------------------------------------------------------------------------
\* A chunk that is heard is spoken by the voice that was chosen for it, and by no
\* other from its first span to its last, as long as the styles are those the backend
\* listed when it started: neither a file of the Piper era, nor a change of the
\* choice while chunks are synthesized beside each other, nor the first load, a stop,
\* a failed call or a preview among them makes another voice speak.
SpokenAsChosen == ~tally.moved => heard.used \subseteq {heard.chosen}

=============================================================================
