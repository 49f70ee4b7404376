------------------------------ MODULE QwenAsr -------------------------------
(***************************************************************************)
(* app/asr.py, the Qwen engine that the tests and the benchmarks still     *)
(* use: engines, one per session, over one model that is loaded once, and  *)
(* one lock for the load and for every inference.                          *)
(*                                                                         *)
(* An engine is called by one thread at a time.  Samples are numbered over *)
(* the life of an engine; what is recognised in samples is those samples,  *)
(* or <<>> when nothing is.                                                *)
(***************************************************************************)
EXTENDS Naturals, Sequences, FiniteSets, SequencesExt

CONSTANTS
    Engines,    \* AsrEngine instances
    Chunk,      \* asr_chunk_samples
    Blocks,     \* samples of a call of feed
    MaxSamples, \* bound on the samples of an engine
    MaxQwenFaults   \* bound on the loads and the inferences that fail

ASSUME QwenAssumption ==
    /\ IsFiniteSet(Engines)
    /\ Chunk \in Nat \ {0} /\ Blocks \subseteq Nat \ {0}
    /\ {MaxSamples, MaxQwenFaults} \subseteq Nat

VARIABLES
    cache,      \* _BACKEND_CACHE: whether the model is loaded
    holders,    \* engines in the section of _BACKEND_CACHE_LOCK
    qwen,       \* engine -> its state
    qwenCall,   \* engine -> the call that runs
    final,      \* engine -> the last transcript flush returned, what it was made from, and the
                \* last sample of the one before
    faults      \* what the bound counts

qwenVars == <<cache, holders, qwen, qwenCall, final, faults>>

NoCall == [op |-> "none"]
NoFinal == [text |-> <<>>, whole |-> <<>>, heard |-> FALSE, after |-> 0]
Fresh == [loaded |-> FALSE, broken |-> FALSE, fed |-> 0, buffer |-> <<>>, cursor |-> 0,
          partials |-> <<>>]

QwenInit ==
    /\ cache = FALSE /\ holders = {} /\ faults = 0
    /\ qwen = [e \in Engines |-> Fresh]
    /\ qwenCall = [e \in Engines |-> NoCall]
    /\ final = [e \in Engines |-> NoFinal]

-----------------------------------------------------------------------------
\* Variant of LockFree: nobody waits for the lock.
LockFreeAlways == TRUE

LockFree == holders = {}

\* feed and flush start with _ensure_loaded, which raises again what an earlier
\* load of this engine raised.
Begin(e, op, n) ==
    /\ qwenCall[e] = NoCall /\ ~qwen[e].broken
    /\ qwenCall' = [qwenCall EXCEPT ![e] =
            [op |-> op, block |-> n, at |-> IF qwen[e].loaded THEN "ready" ELSE "load"]]
    /\ UNCHANGED <<cache, holders, qwen, final, faults>>

Feed(e) == \E n \in Blocks : qwen[e].fed + n <= MaxSamples /\ Begin(e, "feed", n)
Flush(e) == Begin(e, "flush", 0)

\* warm_up, which probes the model with noise, and transcribe_utterance.
WarmUpQwen(e) == Begin(e, "probe", 0)
OneShot(e) == Begin(e, "oneshot", 1)

\* _shared_backend takes the lock; a model that is in the cache is given out.
EnterLoad(e) ==
    /\ qwenCall[e].op # "none" /\ qwenCall[e].at = "load" /\ LockFree
    /\ IF cache
       THEN /\ qwen' = [qwen EXCEPT ![e].loaded = TRUE]
            /\ qwenCall' = [qwenCall EXCEPT ![e].at = "ready"]
            /\ UNCHANGED holders
       ELSE /\ holders' = holders \cup {e}
            /\ qwenCall' = [qwenCall EXCEPT ![e].at = "loading"]
            /\ UNCHANGED qwen
    /\ UNCHANGED <<cache, final, faults>>

LoadedQwen(e) ==
    /\ qwenCall[e].op # "none" /\ qwenCall[e].at = "loading"
    /\ cache' = TRUE /\ holders' = holders \ {e}
    /\ qwen' = [qwen EXCEPT ![e].loaded = TRUE]
    /\ qwenCall' = [qwenCall EXCEPT ![e].at = "ready"]
    /\ UNCHANGED <<final, faults>>

LoadFails(e) ==
    /\ qwenCall[e].op # "none" /\ qwenCall[e].at = "loading" /\ faults < MaxQwenFaults
    /\ holders' = holders \ {e}
    /\ qwen' = [qwen EXCEPT ![e].broken = TRUE]
    /\ qwenCall' = [qwenCall EXCEPT ![e] = NoCall]
    /\ faults' = faults + 1
    /\ UNCHANGED <<cache, final>>

AfterReset(s) == [s EXCEPT !.buffer = <<>>, !.cursor = 0, !.partials = <<>>]

WithBlock(s, n) ==
    [s EXCEPT !.buffer = @ \o [i \in 1 .. n |-> s.fed + i], !.fed = @ + n]

\* The samples of feed reach the buffer once the model is there; a clip of its own
\* drops what the engine had.
CollectSamples(e) ==
    /\ qwenCall[e].op # "none" /\ qwenCall[e].at = "ready" /\ qwenCall[e].block > 0
    /\ qwen' = [qwen EXCEPT ![e] =
            IF qwenCall[e].op = "oneshot" THEN AfterReset(@) ELSE WithBlock(@, qwenCall[e].block)]
    /\ qwenCall' = [qwenCall EXCEPT ![e].block = 0]
    /\ UNCHANGED <<cache, holders, final, faults>>

Clip == <<0>>

\* What the next inference of a call is about: the next chunk, the
\* utterance, a clip of its own.
Due(e) ==
    LET s == qwen[e]
    IN IF qwenCall[e].op = "feed"
       THEN IF qwenCall[e].block = 0 /\ Len(s.buffer) - s.cursor >= Chunk
            THEN SubSeq(s.buffer, s.cursor + 1, s.cursor + Chunk) ELSE <<>>
       ELSE IF qwenCall[e].op = "flush" THEN s.buffer ELSE Clip

StartInference(e) ==
    /\ qwenCall[e].op # "none" /\ qwenCall[e].at = "ready" /\ LockFree
    /\ Due(e) # <<>> /\ (qwenCall[e].op = "oneshot" => qwenCall[e].block = 0)
    /\ holders' = holders \cup {e}
    /\ qwenCall' = [qwenCall EXCEPT ![e].at = "inferring"]
    /\ UNCHANGED <<cache, qwen, final, faults>>

\* The partials are kept as they are joined.
Joined(partials, text) == partials \o text

\* What flush returns: the partials when nothing was recognised in the utterance.
Finished(whole, partials) == IF whole = <<>> THEN partials ELSE whole

EndOfFinal(f) == IF f.whole = <<>> THEN f.after ELSE f.whole[Len(f.whole)]

EndUtterance(e, text) ==
    /\ qwen' = [qwen EXCEPT ![e] = AfterReset(@)]
    /\ final' = [final EXCEPT ![e] =
            [text |-> Finished(text, qwen[e].partials), whole |-> qwen[e].buffer,
             heard |-> qwen[e].partials # <<>>, after |-> EndOfFinal(final[e])]]
    /\ qwenCall' = [qwenCall EXCEPT ![e] = NoCall]

\* An inference ends with what was recognised, with nothing, or with an error; an
\* error skips the chunk, and is as good as nothing for the utterance.
Recognise(e) ==
    /\ qwenCall[e].op # "none" /\ qwenCall[e].at = "inferring"
    /\ holders' = holders \ {e}
    /\ \E text \in {Due(e), <<>>}, broke \in BOOLEAN :
        /\ broke => text = <<>> /\ faults < MaxQwenFaults
        /\ faults' = IF broke THEN faults + 1 ELSE faults
        /\ IF qwenCall[e].op = "feed"
           THEN /\ qwen' = [qwen EXCEPT ![e].cursor = @ + Chunk,
                        ![e].partials = Joined(@, text)]
                /\ qwenCall' = [qwenCall EXCEPT ![e].at = "ready"]
                /\ UNCHANGED final
           ELSE IF qwenCall[e].op = "flush" THEN EndUtterance(e, text)
           ELSE qwenCall' = [qwenCall EXCEPT ![e] = NoCall] /\ UNCHANGED <<qwen, final>>
    /\ UNCHANGED cache

\* A feed with no chunk left returns; a flush of an empty buffer asks nobody.
Return(e) ==
    /\ qwenCall[e].op # "none" /\ qwenCall[e].at = "ready" /\ qwenCall[e].block = 0 /\ Due(e) = <<>>
    /\ IF qwenCall[e].op = "flush" THEN EndUtterance(e, <<>>)
       ELSE qwenCall' = [qwenCall EXCEPT ![e] = NoCall] /\ UNCHANGED <<qwen, final>>
    /\ UNCHANGED <<cache, holders, faults>>

\* reset, between two calls.
ResetEngine(e) ==
    /\ qwenCall[e] = NoCall /\ qwen[e].buffer # <<>>
    /\ qwen' = [qwen EXCEPT ![e] = AfterReset(@)]
    /\ UNCHANGED <<cache, holders, qwenCall, final, faults>>

QwenNext == \E e \in Engines :
    \/ Feed(e) \/ Flush(e) \/ WarmUpQwen(e) \/ OneShot(e)
    \/ EnterLoad(e) \/ LoadedQwen(e) \/ LoadFails(e)
    \/ CollectSamples(e) \/ StartInference(e) \/ Recognise(e) \/ Return(e) \/ ResetEngine(e)

QwenSpec == QwenInit /\ [][QwenNext]_qwenVars

-----------------------------------------------------------------------------
\* One engine at a time loads or infers ("two concurrent generates on the same
\* PyTorch model corrupt state"), and the model is loaded once.
OneInference ==
    /\ Cardinality(holders) <= 1
    /\ \A e \in Engines : qwenCall[e].op # "none" /\ qwenCall[e].at = "loading" => ~cache

\* The final transcript of an utterance is of that utterance: of samples that
\* came one after the other behind the utterance before, in their order, none
\* twice; and it is not empty when a partial was shown.
FinalIsUtterance ==
    \A e \in Engines :
        LET f == final[e]
        IN  /\ \A i \in DOMAIN f.whole : f.whole[i] = f.whole[1] + i - 1 /\ f.whole[i] > f.after
            /\ ToSet(f.text) \subseteq ToSet(f.whole)
            /\ \A i \in DOMAIN f.text : \A k \in DOMAIN f.text : i < k => f.text[i] < f.text[k]
            /\ f.heard => f.text # <<>>

\* However the engines share the model, an utterance is recognised as itself.
UtteranceRecognised == OneInference /\ FinalIsUtterance

=============================================================================
