---------------------------- MODULE SileroStream ----------------------------
(***************************************************************************)
(* SileroVad of app/vad.py: how it finds a way to call the model, and how  *)
(* it cuts what it is given into windows of which each is scored with the  *)
(* end of the one before and with the recurrent state.                     *)
(*                                                                         *)
(* A call of the model may raise: the window it was called with has left   *)
(* the buffer by then, and whoever feeds the detector goes on with the     *)
(* next block.                                                             *)
(*                                                                         *)
(* Samples are numbered as they come; 0 is silence.  The recurrent state   *)
(* is the number of windows it has seen since it was zeroed.  A model      *)
(* whose probability is its second output behind an unnamed state is left  *)
(* out.                                                                    *)
(***************************************************************************)
EXTENDS Naturals, Sequences, SequencesExt

CONSTANTS
    VadFrame,   \* 512, vad_frame_samples
    Context,    \* 64, _SILERO_CONTEXT_SAMPLES
    VadBlocks,  \* samples a call brings
    MaxFed      \* bound on the samples of a stream

ASSUME SileroAssumption ==
    /\ VadFrame \in Nat /\ Context \in 1 .. VadFrame
    /\ VadBlocks \subseteq Nat /\ MaxFed \in Nat

VARIABLES
    model,      \* the file: whether it takes and returns a state, the feeds it accepts
    plan,       \* the feed that was locked in
    came,       \* samples that came
    start,      \* samples that came before the last reset
    frameBuf,   \* _frame_buf
    ctx,        \* _ctx
    seen,       \* _state
    vadWindows, \* windows that left the buffer since the last reset, each with the
                \* context and state it was fed with and whether the call raised
    calling     \* a call of prob is under way

sileroVars == <<model, plan, came, start, frameBuf, ctx, seen, vadWindows, calling>>

Silence(n) == [i \in 1 .. n |-> 0]

-----------------------------------------------------------------------------
(* The feed.                                                               *)

Stateful == <<"declared", "1x128", "2x1x128">>
Layouts == <<"batched", "flat">>

\* Models: the shapes of the state and the layouts of the audio that work.  One
\* that takes no state works without; one that takes a state need not return one.
Models ==
    {m \in [takesState : BOOLEAN, returnsState : BOOLEAN,
            shapes : SUBSET (ToSet(Stateful) \cup {"stateless"}),
            layouts : SUBSET ToSet(Layouts)] :
        ~m.takesState => m.shapes = {"stateless"} /\ ~m.returnsState}

Works(m, feed) == feed.shape \in m.shapes /\ feed.layout \in m.layouts

ShapesTried(m) == (IF m.takesState THEN Stateful ELSE <<>>) \o <<"stateless">>

\* Every shape is tried with every layout before the next one.
Feeds(m) ==
    [i \in 1 .. 2 * Len(ShapesTried(m)) |->
        [shape |-> ShapesTried(m)[(i + 1) \div 2], layout |-> Layouts[2 - (i % 2)]]]

Unsupported == [shape |-> "none", layout |-> "none"]

\* _bind_model: the first feed that works with a silent frame, or the
\* constructor raises.
Bound(m) == LET working == {i \in DOMAIN Feeds(m) : Works(m, Feeds(m)[i])}
            IN IF working = {} THEN Unsupported ELSE Feeds(m)[Min(working)]

NoModel == [takesState |-> FALSE, returnsState |-> FALSE, shapes |-> {}, layouts |-> {}]
NotBound == [shape |-> "unbound", layout |-> "unbound"]

SileroInit ==
    /\ model = NoModel /\ plan = NotBound
    /\ came = 0 /\ start = 0
    /\ frameBuf = <<>> /\ ctx = Silence(Context)
    /\ seen = 0 /\ vadWindows = <<>> /\ calling = FALSE

\* SileroVad(config), once per session.
Construct ==
    /\ plan = NotBound
    /\ \E m \in Models : model' = m /\ plan' = Bound(m)
    /\ UNCHANGED <<came, start, frameBuf, ctx, seen, vadWindows, calling>>

IsBound == plan \notin {NotBound, Unsupported}

\* The state of one window is fed to the next: the feed has one, and the model
\* returns one (_state_output_idx).
Remembers == plan.shape # "stateless" /\ model.returnsState

-----------------------------------------------------------------------------
(* The stream.                                                             *)

EndOf(seq, n) == SubSeq(seq, Len(seq) - n + 1, Len(seq))

\* Variant of NextContext: the context is the head of the window.
NextContextHead(window) == SubSeq(window, 1, Context)

NextContext(window) == EndOf(window, Context)

\* _infer for a window that leaves the buffer together with all up to the sample
\* upto.  If it raises, context and state stay as they are and the call ends.
Infer(window, upto) ==
    \E lost \in BOOLEAN :
        /\ vadWindows' = Append(vadWindows,
                [window |-> window, upto |-> upto, ctx |-> ctx, seen |-> seen, lost |-> lost])
        /\ ctx' = IF lost THEN ctx ELSE NextContext(window)
        /\ seen' = IF ~lost /\ Remembers THEN seen + 1 ELSE seen
        /\ calling' = (~lost /\ Len(frameBuf') >= VadFrame)

\* prob: the samples join the buffer; without any it returns at once.
Prob ==
    /\ IsBound /\ ~calling
    /\ \E n \in VadBlocks \ {0} :
        /\ came + n <= MaxFed
        /\ came' = came + n
        /\ frameBuf' = frameBuf \o [i \in 1 .. n |-> came + i]
    /\ calling' = (Len(frameBuf') >= VadFrame)
    /\ UNCHANGED <<model, plan, start, ctx, seen, vadWindows>>

\* One round of its loop.
ScoreWindow ==
    /\ calling
    /\ LET window == SubSeq(frameBuf, 1, VadFrame)
       IN  /\ frameBuf' = SubSeq(frameBuf, VadFrame + 1, Len(frameBuf))
           /\ Infer(window, window[VadFrame])
    /\ UNCHANGED <<model, plan, came, start>>

\* flush_prob: the remainder is scored, padded with silence.  What is behind the
\* first window, after a call that raised, is dropped.
FlushProb ==
    /\ IsBound /\ ~calling /\ frameBuf # <<>>
    /\ frameBuf' = <<>>
    /\ Infer([k \in 1 .. VadFrame |-> IF k <= Len(frameBuf) THEN frameBuf[k] ELSE 0], came)
    /\ UNCHANGED <<model, plan, came, start>>

\* What a reset leaves of the buffer.
Kept(buf) == <<>>

ResetVad ==
    /\ IsBound /\ ~calling
    /\ start' = came /\ vadWindows' = <<>>
    /\ frameBuf' = Kept(frameBuf) /\ ctx' = Silence(Context) /\ seen' = 0
    /\ UNCHANGED <<model, plan, came, calling>>

SileroNext == Construct \/ Prob \/ ScoreWindow \/ FlushProb \/ ResetVad

SileroSpec == SileroInit /\ [][SileroNext]_sileroVars

-----------------------------------------------------------------------------
\* The last sample gone with the first i windows; at first, the last before the reset.
Upto(i) == IF i = 0 THEN start ELSE vadWindows[i].upto

\* A window of the samples behind the one up to the other, and of silence.
WindowOf(from, to) == [k \in 1 .. VadFrame |-> IF from + k <= to THEN from + k ELSE 0]

\* The context and the state that are there for the window behind the first i.
ContextBehind(i) ==
    IF i = 0 THEN Silence(Context)
    ELSE IF vadWindows[i].lost THEN vadWindows[i].ctx ELSE EndOf(vadWindows[i].window, Context)
StateBehind(i) ==
    IF i = 0 THEN 0
    ELSE IF vadWindows[i].lost \/ ~Remembers THEN vadWindows[i].seen ELSE vadWindows[i].seen + 1

Raised(i) == i > 0 /\ vadWindows[i].lost

\* The windows and the remainder are what came since the last reset, in order and
\* none of it twice, and nothing of the utterance before.  A window is scored with
\* the end of the last one that was scored and with the state that one left, the
\* first with silence.  What is not heard is the one window whose call raised, and
\* what a flush right after that drops; else the remainder is less than a window.
ScoredInOrder ==
    /\ \A i \in DOMAIN vadWindows :
        /\ Upto(i - 1) < Upto(i) /\ vadWindows[i].window = WindowOf(Upto(i - 1), Upto(i))
        /\ vadWindows[i].ctx = ContextBehind(i - 1) /\ vadWindows[i].seen = StateBehind(i - 1)
        /\ Upto(i) > Upto(i - 1) + VadFrame => Raised(i - 1)
    /\ LET last == Upto(Len(vadWindows))
       IN  /\ frameBuf = [k \in 1 .. came - last |-> last + k]
           /\ ~calling /\ came >= last + VadFrame => Raised(Len(vadWindows))

\* The memory of the model is given up only when no call with a state works, and
\* a model that can be called at all is.
MemoryIsUsed ==
    /\ plan.shape = "stateless" => model.shapes \cap ToSet(Stateful) = {} \/ model.layouts = {}
    /\ plan = Unsupported => \A feed \in ToSet(Feeds(model)) : ~Works(model, feed)

\* The detector hears the audio as one stream, with the memory of the model.
ScoredWithMemory == ScoredInOrder /\ MemoryIsUsed

=============================================================================
