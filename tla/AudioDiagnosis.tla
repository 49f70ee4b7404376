--------------------------- MODULE AudioDiagnosis ---------------------------
(***************************************************************************)
(* What the page can ask of app/web_server.py when nothing is heard: the   *)
(* mic probe, which compares what the browser measured before and after    *)
(* its conversion with what arrived, and the ASR test, which takes a clip  *)
(* through the VAD and the engine beside the live chain.                   *)
(*                                                                         *)
(* The chain from the microphone is broken at one stage at most; a broken  *)
(* stage passes on silence.  A level is 0 (under both thresholds), 1       *)
(* (between that of the probe, 0.001, and that of the test, 0.005) or 2.   *)
(***************************************************************************)
EXTENDS Naturals, FiniteSets

CONSTANTS
    Clients,        \* pages that post tests
    NotMeasurable,  \* a measurement the page did not send
    MaxTests,       \* bound on the tests and the probes
    MaxRepairs      \* bound on the changes of what is broken, and on failed writes

ASSUME AudioDiagnosisAssumption ==
    /\ IsFiniteSet(Clients)
    /\ NotMeasurable \notin 0 .. 2
    /\ {MaxTests, MaxRepairs} \subseteq Nat

Faults == {"none", "capture", "conversion", "transport"}

VARIABLES
    world,      \* what is said, what is broken, the VAD and the engine
    probe,      \* the last probe: its verdict, and the world it met
    testLock,   \* _ASR_TEST_LOCK
    tester,     \* client -> its request
    wav,        \* logs/asr_test_last.wav: clips whose samples are in it, and whether it is whole;
                \* the client whose clip was to be written last, and whether that was kept
    asrChip,    \* the ASR chip
    asked       \* what the bounds count

diagnosisVars == <<world, probe, testLock, tester, wav, asrChip, asked>>

Worlds == [spoken : 0 .. 2, fault : Faults, vad : {"hears", "deaf", "absent"},
           engine : {"hears", "empty", "error", "absent"}, mock : BOOLEAN]

Unseen == [fault |-> "unseen"]
NoProbe == [verdict |-> "none"]
Resting == [at |-> "rest"]

DiagnosisInit ==
    /\ world = Unseen
    /\ probe = NoProbe /\ testLock = FALSE
    /\ tester = [c \in Clients |-> Resting]
    /\ wav = [clips |-> {}, whole |-> TRUE, last |-> {}, kept |-> FALSE]
    /\ asrChip = "ready"
    /\ asked = [tests |-> 0, repairs |-> 0]

\* The page is opened.
Open ==
    /\ world = Unseen /\ world' \in Worlds
    /\ UNCHANGED <<probe, testLock, tester, wav, asrChip, asked>>

Repair ==
    /\ world # Unseen /\ asked.repairs < MaxRepairs
    /\ \E w \in {[world EXCEPT !.spoken = 2], [world EXCEPT !.fault = "none"],
                 [world EXCEPT !.engine = "hears"]} :
        w # world /\ world' = w
    /\ asked' = [asked EXCEPT !.repairs = @ + 1]
    /\ UNCHANGED <<probe, testLock, tester, wav, asrChip>>

-----------------------------------------------------------------------------
(* The probe.                                                              *)

Captured(w) == IF w.fault = "capture" THEN 0 ELSE w.spoken
Converted(w) == IF w.fault = "conversion" THEN 0 ELSE Captured(w)
Arrived(w) == IF w.fault = "transport" THEN 0 ELSE Converted(w)

Sounds(level) == level # NotMeasurable /\ level > 0

\* Variant of ProbeVerdict: what arrived is judged first.
ProbeVerdictArrivedFirst(src, pcm, arrived) ==
    IF Sounds(arrived) THEN "ok"
    ELSE IF Sounds(src) THEN "transport_silent" ELSE "browser_source_silent"

\* _mic_probe_core, once there are samples.
ProbeVerdict(src, pcm, arrived) ==
    IF Sounds(src) /\ ~Sounds(pcm) THEN "browser_conversion_silent"
    ELSE IF Sounds(arrived) THEN "ok"
    ELSE IF Sounds(src) THEN "transport_silent" ELSE "browser_source_silent"

Probe ==
    /\ world # Unseen /\ asked.tests < MaxTests
    /\ \E src \in {Captured(world), NotMeasurable}, pcm \in {Converted(world), NotMeasurable},
          samples \in BOOLEAN :
        probe' = [world |-> world, measured |-> NotMeasurable \notin {src, pcm},
                  verdict |-> IF samples THEN ProbeVerdict(src, pcm, Arrived(world))
                              ELSE "no_audio"]
    /\ asked' = [asked EXCEPT !.tests = @ + 1]
    /\ UNCHANGED <<world, testLock, tester, wav, asrChip>>

-----------------------------------------------------------------------------
(* The ASR test, in a worker thread.                                       *)

MayTest == ~testLock

\* api_asr_test; a test that finds the lock taken is a 409.  A clip of less than
\* 300 ms is short.
Post(c) ==
    /\ world # Unseen
    /\ tester[c].at \in {"rest", "answered"} /\ asked.tests < MaxTests
    /\ \E short \in BOOLEAN :
        tester' = [tester EXCEPT ![c] =
            IF MayTest THEN [at |-> "write", short |-> short, level |-> Arrived(world)]
            ELSE [at |-> "answered", verdict |-> "busy"]]
    /\ testLock' = TRUE
    /\ asked' = [asked EXCEPT !.tests = @ + 1]
    /\ UNCHANGED <<world, probe, wav, asrChip>>

Wrote(c, place) == tester' = [tester EXCEPT ![c].at = place]
HoldTest == UNCHANGED <<world, probe, testLock, asrChip>>

\* _write_asr_test_wav: the file is truncated, and then written.
OpenWav(c) ==
    /\ tester[c].at = "write" /\ Wrote(c, "writing")
    /\ wav' = [clips |-> {c}, whole |-> FALSE, last |-> {c}, kept |-> FALSE]
    /\ UNCHANGED asked /\ HoldTest

CloseWav(c) ==
    /\ tester[c].at = "writing" /\ Wrote(c, "judge")
    /\ wav' = [wav EXCEPT !.clips = @ \cup {c}, !.whole = TRUE, !.kept = TRUE]
    /\ UNCHANGED asked /\ HoldTest

\* An error is logged and the test goes on, to be answered with the file's url: what
\* is there is an older clip, or part of this one.
WavFails(c) ==
    /\ tester[c].at \in {"write", "writing"} /\ asked.repairs < MaxRepairs /\ Wrote(c, "judge")
    /\ wav' = [wav EXCEPT !.last = {c}, !.kept = FALSE]
    /\ asked' = [asked EXCEPT !.repairs = @ + 1]
    /\ HoldTest

Transcribed(w) ==
    CASE w.mock -> "ok"
      [] ~w.mock /\ w.engine = "hears" -> "ok"
      [] ~w.mock /\ w.engine = "empty" -> "asr_empty"
      [] OTHER -> "asr_error"

\* The stages of _run_asr_test: the length, the level, the VAD, which decides
\* nothing here, and the engine, whose failure is shown by its chip.
TestVerdict(t) ==
    IF t.short THEN "too_short" ELSE IF t.level < 2 THEN "silent_mic" ELSE Transcribed(world)

\* Answer sends the verdict, and the lock is released.
EndTest(c) ==
    /\ tester[c].at = "judge"
    /\ LET verdict == TestVerdict(tester[c])
       IN /\ tester' = [tester EXCEPT ![c] =
                [at |-> "answered", verdict |-> verdict, world |-> world, level |-> @.level,
                 fires |-> ~@.short /\ @.level > 0 /\ (world.mock \/ world.vad = "hears")]]
          /\ asrChip' = IF verdict \in {"asr_empty", "asr_error"} THEN "error" ELSE asrChip
    /\ testLock' = FALSE
    /\ UNCHANGED <<world, probe, wav, asked>>

\* The live chain transcribes an utterance.
Live ==
    /\ world # Unseen
    /\ Arrived(world) = 2 /\ world.vad = "hears" /\ ~world.mock
    /\ asrChip' = IF world.engine = "hears" THEN "ready" ELSE "error"
    /\ UNCHANGED <<world, probe, testLock, tester, wav, asked>>

DiagnosisNext ==
    \/ Open \/ Repair \/ Probe \/ Live
    \/ \E c \in Clients : Post(c) \/ OpenWav(c) \/ CloseWav(c) \/ WavFails(c) \/ EndTest(c)

DiagnosisSpec == DiagnosisInit /\ [][DiagnosisNext]_diagnosisVars

-----------------------------------------------------------------------------
\* The probe names the stage that is broken, when both measurements of the page
\* came with the samples (_mic_probe_core: "The verdict names the broken stage");
\* and after a test, silence is blamed on the microphone's side only, a
\* transcript that is missing on the engine only, and a clip that is understood
\* and would not have started a turn on the VAD only.
DiagnosisNamesStage ==
    /\ probe.verdict \notin {"none", "no_audio"} /\ probe.measured =>
        LET w == probe.world
        IN probe.verdict =
            CASE Captured(w) = 0 -> "browser_source_silent"
              [] Captured(w) > 0 /\ w.fault = "conversion" -> "browser_conversion_silent"
              [] Captured(w) > 0 /\ w.fault = "transport" -> "transport_silent"
              [] OTHER -> "ok"
    /\ \A c \in Clients :
        LET t == tester[c]
        IN t.at = "answered" /\ t.verdict # "busy" =>
            /\ t.verdict = "silent_mic" => t.level < 2
            /\ t.verdict \in {"asr_empty", "asr_error"} => t.world.engine # "hears" /\ t.level = 2
            /\ t.verdict = "ok" /\ ~t.fires => t.world.vad # "hears"

\* The recording never mixes two clips; and what one listens to after a test whose
\* clip could be written is that clip, whole, until another test writes its own.
RecordingIsOneClip ==
    /\ Cardinality(wav.clips) <= 1
    /\ wav.kept => wav.whole /\ wav.clips = wav.last
    /\ ~testLock => \A c \in Clients : tester[c].at \notin {"write", "writing", "judge"}

\* A diagnosis can be trusted, and so can a recording that was kept.
DiagnosisIsSound == DiagnosisNamesStage /\ RecordingIsOneClip

=============================================================================
