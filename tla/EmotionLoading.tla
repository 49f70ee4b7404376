--------------------------- MODULE EmotionLoading ---------------------------
(***************************************************************************)
(* The emotion model of the web server: WebComponents.emotion_analyzer and *)
(* EmotionAnalyzer of app/emotion.py, called by the warm-up thread and by  *)
(* the threads of turns that wait for them for a while only.               *)
(*                                                                         *)
(* A step between two calls of Python is atomic: under CPython a thread    *)
(* does not give way between the test of a flag and the assignment after   *)
(* it.  Importing, constructing and inferring take time.                   *)
(***************************************************************************)
EXTENDS Naturals, FiniteSets

CONSTANTS
    Turns,      \* turns that bring audio, of any session
    Warmer,     \* the warm-up thread
    MaxFlaws    \* bound on the analyses that fail

ASSUME EmotionAssumption == IsFiniteSet(Turns) /\ Warmer \notin Turns /\ MaxFlaws \in Nat

VARIABLES
    onDisk,     \* what the disk holds: the model, one that cannot be loaded, none
    checked,    \* _emotion_checked
    analyzer,   \* _emotion_analyzer: whether there is one
    marked,     \* _loaded
    model,      \* whether _model is there
    loadLock,   \* threads in the section of _load_lock
    thread,     \* thread -> what it does
    waits,      \* turn -> what it waits for: "init", "analysis", or the LLM's answer
    voice,      \* turn -> what came of the analysis of the voice
    flaws       \* what the bound counts

emotionVars == <<onDisk, checked, analyzer, marked, model, loadLock, thread, waits, voice, flaws>>

EmotionThreads == Turns \cup {Warmer}

EmotionInit ==
    /\ onDisk = "unseen" /\ checked = FALSE /\ analyzer = FALSE
    /\ marked = FALSE /\ model = FALSE /\ loadLock = {}
    /\ thread = [c \in EmotionThreads |-> "rest"]
    /\ waits = [t \in Turns |-> "rest"]
    /\ voice = [t \in Turns |-> "none"]
    /\ flaws = 0

HoldModel == UNCHANGED <<marked, model, loadLock, flaws>>
HoldTurn == UNCHANGED <<waits, voice>>

ServerStarts ==
    /\ onDisk = "unseen"
    /\ onDisk' \in {"whole", "spoilt", "missing"}
    /\ UNCHANGED <<checked, analyzer, thread>> /\ HoldModel /\ HoldTurn

-----------------------------------------------------------------------------
(* The analyzer, which is looked for once per process.                     *)

\* What c goes on with when emotion_analyzer returned: the analyzer, if there is
\* one and its turn has not stopped waiting.
Handed(c, found) ==
    LET on == found /\ (c = Warmer \/ waits[c] = "init")
    IN /\ thread' = [thread EXCEPT ![c] = IF on THEN "have" ELSE "done"]
       /\ IF c = Warmer \/ waits[c] # "init" THEN HoldTurn
          ELSE /\ waits' = [waits EXCEPT ![c] = IF found THEN "analysis" ELSE "answer"]
               /\ voice' = [voice EXCEPT ![c] = IF found THEN "asked" ELSE "unavailable"]

\* The first call marks the search as done, and searches; the others get what
\* there is.
Call(c) ==
    /\ onDisk # "unseen"
    /\ IF checked THEN Handed(c, analyzer) /\ UNCHANGED checked
       ELSE checked' = TRUE /\ thread' = [thread EXCEPT ![c] = "making"] /\ HoldTurn
    /\ UNCHANGED <<onDisk, analyzer>> /\ HoldModel

WarmUpCalls == thread[Warmer] = "rest" /\ Call(Warmer)

\* A turn starts its thread, and waits.
TurnCalls(t) ==
    /\ waits[t] = "rest" /\ onDisk # "unseen"
    /\ waits' = [waits EXCEPT ![t] = "init"]
    /\ thread' = [thread EXCEPT ![t] = "calling"]
    /\ UNCHANGED <<onDisk, checked, analyzer, voice>> /\ HoldModel

ThreadCalls(t) == thread[t] = "calling" /\ Call(t)

\* EmotionAnalyzer() and is_available, which imports funasr.
Made(c) ==
    /\ thread[c] = "making"
    /\ analyzer' = (onDisk # "missing")
    /\ Handed(c, onDisk # "missing")
    /\ UNCHANGED <<onDisk, checked>> /\ HoldModel

\* _EMOTION_INIT_TIMEOUT_S: the turn goes on without, its thread goes on too.
InitTimeout(t) ==
    /\ waits[t] = "init"
    /\ waits' = [waits EXCEPT ![t] = "answer"]
    /\ voice' = [voice EXCEPT ![t] = "timeout"]
    /\ UNCHANGED <<onDisk, checked, analyzer, thread>> /\ HoldModel

-----------------------------------------------------------------------------
(* The model.                                                              *)

\* What becomes of the turn of c when analyze returned nothing.
Mute(c) ==
    /\ thread' = [thread EXCEPT ![c] = "done"]
    /\ IF c = Warmer THEN HoldTurn
       ELSE /\ voice' = [voice EXCEPT ![c] = "nothing"]
            /\ waits' = [waits EXCEPT ![c] = "answer"]

\* Variant of LoadFree: no lock.
LoadFreeAlways == TRUE

LoadFree == loadLock = {}

\* _load: one attempt, under the lock.
Load(c) ==
    /\ thread[c] = "have" /\ LoadFree
    /\ IF ~marked
       THEN /\ marked' = TRUE /\ loadLock' = loadLock \cup {c}
            /\ thread' = [thread EXCEPT ![c] = "loading"] /\ HoldTurn
       ELSE /\ IF model
               THEN thread' = [thread EXCEPT ![c] = IF c = Warmer THEN "done" ELSE "infers"] /\ HoldTurn
               ELSE Mute(c)
            /\ UNCHANGED <<marked, loadLock>>
    /\ UNCHANGED <<onDisk, checked, analyzer, model, flaws>>

LoadEnds(c) ==
    /\ thread[c] = "loading"
    /\ loadLock' = loadLock \ {c}
    /\ IF onDisk = "whole"
       THEN /\ model' = TRUE /\ HoldTurn
            /\ thread' = [thread EXCEPT ![c] = IF c = Warmer THEN "done" ELSE "infers"]
       ELSE Mute(c) /\ UNCHANGED model
    /\ UNCHANGED <<onDisk, checked, analyzer, marked, flaws>>

\* generate and _parse_result; the turn takes the result, or, when it waits no
\* more, the page is told of it (_late_emotion).
Analyse(t) ==
    /\ thread[t] = "infers"
    /\ thread' = [thread EXCEPT ![t] = "done"]
    /\ voice' = [voice EXCEPT ![t] = IF waits[t] = "analysis" THEN "fused" ELSE "late"]
    /\ waits' = [waits EXCEPT ![t] = "answer"]
    /\ UNCHANGED <<onDisk, checked, analyzer, marked, model, loadLock, flaws>>

AnalyseFails(t) ==
    /\ thread[t] = "infers" /\ flaws < MaxFlaws
    /\ thread' = [thread EXCEPT ![t] = "done"]
    /\ voice' = [voice EXCEPT ![t] = "failed"]
    /\ waits' = [waits EXCEPT ![t] = "answer"]
    /\ flaws' = flaws + 1
    /\ UNCHANGED <<onDisk, checked, analyzer, marked, model, loadLock>>

\* The wait for the memories and the voice ends.
AnalysisTimeout(t) ==
    /\ waits[t] = "analysis"
    /\ waits' = [waits EXCEPT ![t] = "answer"]
    /\ UNCHANGED <<onDisk, checked, analyzer, thread, voice>> /\ HoldModel

EmotionNext ==
    \/ ServerStarts \/ WarmUpCalls
    \/ \E c \in EmotionThreads : Made(c) \/ Load(c) \/ LoadEnds(c)
    \/ \E t \in Turns :
        TurnCalls(t) \/ ThreadCalls(t) \/ InitTimeout(t)
        \/ Analyse(t) \/ AnalyseFails(t) \/ AnalysisTimeout(t)

EmotionSpec == EmotionInit /\ [][EmotionNext]_emotionVars

-----------------------------------------------------------------------------
\* The feeling of a turn is not lost to another thread that loads the model: an
\* analysis that was asked for says nothing only when there is no model to load
\* ("the second caller waits for the first load and then reuses the model").
VoiceIsHeard ==
    \A t \in Turns : voice[t] = "nothing" => onDisk = "spoilt"

=============================================================================
