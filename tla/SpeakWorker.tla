---------------------------- MODULE SpeakWorker -----------------------------
(***************************************************************************)
(* The two-level speech synthesis of one reply (speak_worker in _run_turn  *)
(* of app/web_server.py).                                                  *)
(*                                                                         *)
(* The turn queues the chunks of the reply as the LLM writes them, and a   *)
(* None behind the last.  A pump starts a task for each chunk, which first *)
(* registers the chunk in "ordered" and then synthesizes it under a        *)
(* semaphore; one sender takes the registered chunks in turn, waits for    *)
(* each one's audio and sends it.  The tasks share one event loop, which   *)
(* runs new tasks in the order of their creation and code between two      *)
(* suspensions at once.                                                    *)
(***************************************************************************)
EXTENDS Integers, Sequences, FiniteSets

CONSTANTS
    MaxChunks,  \* bound on the chunks of the reply
    Slots       \* _TTS_MAX_PARALLEL_CHUNKS

ASSUME ChunksAssumption == MaxChunks \in Nat
ASSUME SlotsAssumption == Slots \in Nat \ {0}

VARIABLES
    emitted,    \* chunks put into speak_queue
    ended,      \* None put into speak_queue
    taken,      \* chunks the pump took from speak_queue
    due,        \* those it took before None was queued
    pumping,    \* the pump has not ended
    synth,      \* synth_tasks: the stage of each chunk's synthesis
    pcm,        \* each chunk's own queue: "none" yet, "audio", or "nothing"
    ordered,    \* registered chunks, and None
    inHand,     \* the chunk the sender waits for, or None
    sent,       \* chunks sent to the browser, in order (sent_text)
    over        \* "no", or how the worker ended: "complete" or "cut"

vars == <<emitted, ended, taken, due, pumping, synth, pcm, ordered, inHand, sent, over>>

Chunks == 1 .. MaxChunks
None == 0

TypeOK ==
    /\ emitted \in 0 .. MaxChunks
    /\ ended \in BOOLEAN
    /\ taken \in 0 .. emitted
    /\ due \in 0 .. taken
    /\ pumping \in BOOLEAN
    /\ synth \in [Chunks -> {"none", "created", "waiting", "busy", "done", "cancelled"}]
    /\ pcm \in [Chunks -> {"none", "audio", "nothing"}]
    /\ ordered \in Seq(Chunks \cup {None})
    /\ inHand \in Chunks \cup {None}
    /\ sent \in Seq(Chunks)
    /\ over \in {"no", "complete", "cut"}

Init ==
    /\ emitted = 0
    /\ ended = FALSE
    /\ taken = 0
    /\ due = 0
    /\ pumping = TRUE
    /\ synth = [n \in Chunks |-> "none"]
    /\ pcm = [n \in Chunks |-> "none"]
    /\ ordered = <<>>
    /\ inHand = None
    /\ sent = <<>>
    /\ over = "no"

-----------------------------------------------------------------------------
(* The turn.                                                               *)

Emit ==
    /\ over = "no"
    /\ ~ended
    /\ emitted < MaxChunks
    /\ emitted' = emitted + 1
    /\ UNCHANGED <<ended, taken, due, pumping, synth, pcm, ordered, inHand, sent, over>>

\* What the turn awaits between its last chunk and None is a send that seldom
\* suspends it: the pump may have taken its chunks by then or not.
EndReply ==
    /\ over = "no"
    /\ ~ended
    /\ ended' = TRUE
    /\ UNCHANGED <<emitted, taken, due, pumping, synth, pcm, ordered, inHand, sent, over>>

\* The finally block of the sender, which cancels what is left.
Wind(how) ==
    /\ over' = how
    /\ pumping' = FALSE
    /\ synth' = [n \in Chunks |-> IF synth[n] \in {"created", "waiting", "busy"}
                                    THEN "cancelled" ELSE synth[n]]

\* The turn is cancelled, in its stream or while it awaits the worker.
Cut ==
    /\ over = "no"
    /\ Wind("cut")
    /\ UNCHANGED <<emitted, ended, taken, due, pcm, ordered, inHand, sent>>

-----------------------------------------------------------------------------
(* synth_pump and synth_one.                                               *)

NewTask == \E n \in Chunks : synth[n] = "created"

\* Variant of Pump: the end is not passed on.
PumpForgetsEnd ==
    /\ pumping
    /\ taken < emitted \/ ended
    /\ ~NewTask
    /\ taken' = emitted /\ due' = IF ended THEN due ELSE emitted
    /\ synth' = [n \in Chunks |-> IF n \in taken + 1 .. emitted THEN "created" ELSE synth[n]]
    /\ pumping' = ~ended
    /\ UNCHANGED <<emitted, ended, pcm, ordered, inHand, sent, over>>

\* The pump takes all there is without being suspended, None included, which it
\* passes on before the tasks it has just created register their chunks; they
\* run before it is awake again.
Pump ==
    /\ pumping
    /\ taken < emitted \/ ended
    /\ ~NewTask
    /\ taken' = emitted /\ due' = IF ended THEN due ELSE emitted
    /\ synth' = [n \in Chunks |-> IF n \in taken + 1 .. emitted THEN "created" ELSE synth[n]]
    /\ pumping' = ~ended
    /\ ordered' = IF ended THEN Append(ordered, None) ELSE ordered
    /\ UNCHANGED <<emitted, ended, pcm, inHand, sent, over>>

Register(n) ==
    /\ synth[n] = "created"
    /\ \A m \in 1 .. n - 1 : synth[m] # "created"
    /\ synth' = [synth EXCEPT ![n] = "waiting"]
    /\ ordered' = Append(ordered, n)
    /\ UNCHANGED <<emitted, ended, taken, due, pumping, pcm, inHand, sent, over>>

\* The semaphore serves its waiters in turn.
Begin(n) ==
    /\ synth[n] = "waiting"
    /\ \A m \in 1 .. n - 1 : synth[m] # "waiting"
    /\ Cardinality({m \in Chunks : synth[m] = "busy"}) < Slots
    /\ synth' = [synth EXCEPT ![n] = "busy"]
    /\ UNCHANGED <<emitted, ended, taken, due, pumping, pcm, ordered, inHand, sent, over>>

\* A chunk with nothing to say, or whose synthesis failed, has no audio.
Synthesized(n) ==
    /\ synth[n] = "busy"
    /\ synth' = [synth EXCEPT ![n] = "done"]
    /\ \E result \in {"audio", "nothing"} : pcm' = [pcm EXCEPT ![n] = result]
    /\ UNCHANGED <<emitted, ended, taken, due, pumping, ordered, inHand, sent, over>>

SynthStep(n) == Register(n) \/ Begin(n) \/ Synthesized(n)

-----------------------------------------------------------------------------
(* The sender.                                                             *)

NextOrdered ==
    /\ over = "no"
    /\ inHand = None
    /\ ordered # <<>>
    /\ ordered' = Tail(ordered)

Take ==
    /\ NextOrdered
    /\ Head(ordered) # None
    /\ inHand' = Head(ordered)
    /\ UNCHANGED <<emitted, ended, taken, due, pumping, synth, pcm, sent, over>>

Finish ==
    /\ NextOrdered
    /\ Head(ordered) = None
    /\ Wind("complete")
    /\ UNCHANGED <<emitted, ended, taken, due, pcm, inHand, sent>>

\* Variant: the sender does not wait for a chunk that is not ready.
SendReady ==
    /\ over = "no"
    /\ inHand # None
    /\ sent' = IF pcm[inHand] = "audio" THEN Append(sent, inHand) ELSE sent
    /\ inHand' = None
    /\ UNCHANGED <<emitted, ended, taken, due, pumping, synth, pcm, ordered, over>>

Send ==
    /\ over = "no"
    /\ inHand # None
    /\ pcm[inHand] # "none"
    /\ sent' = IF pcm[inHand] = "audio" THEN Append(sent, inHand) ELSE sent
    /\ inHand' = None
    /\ UNCHANGED <<emitted, ended, taken, due, pumping, synth, pcm, ordered, over>>

Next ==
    \/ Emit
    \/ EndReply
    \/ Cut
    \/ Pump
    \/ \E n \in Chunks : SynthStep(n)
    \/ Take
    \/ Finish
    \/ Send

Spec == Init /\ [][Next]_vars

\* Ready tasks run, and a synthesis returns.
FairSpec ==
    /\ Spec
    /\ WF_vars(Pump)
    /\ \A n \in Chunks : WF_vars(SynthStep(n))
    /\ WF_vars(Take)
    /\ WF_vars(Finish)
    /\ WF_vars(Send)

-----------------------------------------------------------------------------
(* Properties.                                                             *)

Output == INSTANCE SpeechOutput WITH
              silent <- {n \in Chunks : pcm[n] = "nothing"},
              spoken <- sent

\* The user hears the chunks in order, each at most once and without a gap,
\* although their syntheses overlap and end in any order; a reply that is not
\* cut off is heard up to the last chunk the pump had taken when the text
\* ended, and no further ("playback ordering is untouched by construction",
\* _synthesize_chunk).
SpeaksInOrder == Output!Spec

\* "A single ordered sender drains those queues in sequence" (speak_worker): a
\* reply that was not cut off is spoken to its end.
SpokenToTheEnd ==
    over = "complete" =>
        \A n \in 1 .. emitted : pcm[n] = "nothing" \/ \E i \in 1 .. Len(sent) : sent[i] = n

\* A reply whose text has ended is spoken to its end or cut off: the sender
\* waits neither for a chunk that never comes nor for an end that is lost.
WorkerEnds == ended ~> over # "no"

=============================================================================
