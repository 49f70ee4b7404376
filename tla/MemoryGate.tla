----------------------------- MODULE MemoryGate -----------------------------
(***************************************************************************)
(* The conversation-first scheduler of background memory work:             *)
(* BackgroundMemoryGate (app/background_memory.py), the process-wide       *)
(* cancel event its ingest chains poll (voicemem/utils/common/             *)
(* llm_bg_gate.py) and the ingest chain that runs in a worker thread.      *)
(*                                                                         *)
(* One gate belongs to one web session.  A gate is driven by its session   *)
(* (speech, turns, interrupts, disconnect), by a loop timer, and by its    *)
(* worker task.  The worker runs one chain at a time in a thread, which    *)
(* survives the session.  The cancel event is shared by all sessions.      *)
(*                                                                         *)
(* Callbacks of the event loop are atomic.  Setting the gate event and     *)
(* resuming the worker that waits for it are two callbacks.                *)
(***************************************************************************)
EXTENDS Integers, Sequences

CONSTANTS
    Sessions,   \* connections the server may accept, each used once
    Keys,       \* coalesce keys: distinct (user_text, reply) pairs
    MaxTurns,   \* bound on the pairs one session submits
    Grace,      \* VOICEMEM_BG_GRACE_S, in ticks
    Idle,       \* VOICEMEM_BG_IDLE_S, in ticks
    Overlap     \* whether the turns of a session may overlap (see WebTurns)

ASSUME BoundAssumption == MaxTurns \in Nat
ASSUME DelayAssumption == Grace \in Nat /\ Idle \in Nat
ASSUME OverlapAssumption == Overlap \in BOOLEAN

VARIABLES
    conn,       \* the web socket: "new", "open" or "closed"
    conv,       \* what the session is doing: "quiet", "speech" or "turn"
    open,       \* _gate_open, the event the worker waits for
    awaiting,   \* _awaiting_idle
    timer,      \* ticks until _grace_handle fires, or Off
    quiet,      \* ticks since _last_activity, no further than Idle
    queue,      \* _queue, the turn records to consolidate
    seq,        \* _turn_seq
    worker,     \* program counter of _worker
    job,        \* the turn record the chain's thread works on, or NoJob
    leg,        \* program counter of that thread
    bgCancel,   \* BG_CANCEL
    outcome,    \* what the gate's counters say became of each turn
    stored      \* how often each turn's facts were applied to the store

gateVars == <<open, awaiting, timer, quiet>>
workVars == <<queue, seq, worker, job, outcome>>
vars == <<conn, conv, gateVars, workVars, leg, bgCancel, stored>>

-----------------------------------------------------------------------------
Turns == 1 .. MaxTurns
Records == [key : Keys, no : Turns]
NoJob == [key |-> "none", no |-> 0]
Off == -1
Outcomes == {"none", "pending", "finished", "failed", "merged"}
Legs == {"none", "prepare", "extract", "decide", "resolve", "write",
         "written", "tag", "tail", "finished", "cancelled", "failed"}

\* Variant: every request of the chain polls, also behind the first write.
PollEverywhere == {"prepare", "extract", "decide", "resolve", "written", "tag"}

\* Legs that poll the cancel event, before a request or between its chunks.
PollingLegs == {"prepare", "extract", "decide", "resolve"}

\* Legs in which the thread has returned or raised.
EndLegs == {"finished", "cancelled", "failed"}

HasKey(q, k) == \E i \in 1 .. Len(q) : q[i].key = k

\* _running: between the pop of a record and the finally clause.
Running(s) == worker[s] = "busy"

Armed(s) == ~open[s] /\ ~awaiting[s]

TypeOK ==
    /\ conn \in [Sessions -> {"new", "open", "closed"}]
    /\ conv \in [Sessions -> {"quiet", "speech", "turn"}]
    /\ open \in [Sessions -> BOOLEAN]
    /\ awaiting \in [Sessions -> BOOLEAN]
    /\ timer \in [Sessions -> Nat \cup {Off}]
    /\ quiet \in [Sessions -> 0 .. Idle]
    /\ queue \in [Sessions -> Seq(Records)]
    /\ seq \in [Sessions -> 0 .. MaxTurns]
    /\ worker \in [Sessions -> {"none", "top", "waiting", "woken", "busy"}]
    /\ job \in [Sessions -> Records \cup {NoJob}]
    /\ leg \in [Sessions -> Legs]
    /\ bgCancel \in BOOLEAN
    /\ outcome \in [Sessions -> [Turns -> Outcomes]]
    /\ stored \in [Sessions -> [Turns -> Nat]]

Init ==
    /\ conn = [s \in Sessions |-> "new"]
    /\ conv = [s \in Sessions |-> "quiet"]
    /\ open = [s \in Sessions |-> TRUE]
    /\ awaiting = [s \in Sessions |-> FALSE]
    /\ timer = [s \in Sessions |-> Off]
    /\ quiet = [s \in Sessions |-> Idle]
    /\ queue = [s \in Sessions |-> <<>>]
    /\ seq = [s \in Sessions |-> 0]
    /\ worker = [s \in Sessions |-> "none"]
    /\ job = [s \in Sessions |-> NoJob]
    /\ leg = [s \in Sessions |-> "none"]
    /\ bgCancel = FALSE
    /\ outcome = [s \in Sessions |-> [n \in Turns |-> "none"]]
    /\ stored = [s \in Sessions |-> [n \in Turns |-> 0]]

-----------------------------------------------------------------------------
(* The gate's own operations, as conjuncts of the steps that call them.    *)

Arm(s) ==
    /\ open' = [open EXCEPT ![s] = FALSE]
    /\ awaiting' = [awaiting EXCEPT ![s] = FALSE]
    /\ timer' = [timer EXCEPT ![s] = Off]
    /\ quiet' = [quiet EXCEPT ![s] = 0]
    /\ bgCancel' = (bgCancel \/ Running(s))

Release(s) ==
    /\ awaiting' = [awaiting EXCEPT ![s] = TRUE]
    /\ timer' = [timer EXCEPT ![s] = Grace]
    /\ quiet' = [quiet EXCEPT ![s] = 0]
    /\ UNCHANGED <<open, bgCancel>>

Submit(s, k) ==
    LET n == seq[s] + 1 IN
    /\ n \in Turns
    /\ seq' = [seq EXCEPT ![s] = n]
    /\ IF HasKey(queue[s], k)
         THEN /\ outcome' = [outcome EXCEPT ![s][n] = "merged"]
              /\ UNCHANGED <<queue, worker>>
         ELSE /\ outcome' = [outcome EXCEPT ![s][n] = "pending"]
              /\ queue' = [queue EXCEPT
                             ![s] = Append(@, [key |-> k, no |-> n])]
              /\ worker' = [worker EXCEPT
                              ![s] = IF @ = "none" THEN "top" ELSE @]
    /\ UNCHANGED job

-----------------------------------------------------------------------------
(* The web session, which calls the gate.                                  *)

Connect(s) ==
    /\ conn[s] = "new"
    /\ conn' = [conn EXCEPT ![s] = "open"]
    /\ UNCHANGED <<conv, gateVars, workVars, leg, bgCancel, stored>>

\* The first speech frame of an utterance.
SpeechStart(s) ==
    /\ conn[s] = "open"
    /\ conv[s] = "quiet"
    /\ conv' = [conv EXCEPT ![s] = "speech"]
    /\ Arm(s)
    /\ UNCHANGED <<conn, workVars, leg, stored>>

\* An utterance with an empty transcript ends without a turn, and without
\* a call to the gate.
SpeechDropped(s) ==
    /\ conn[s] = "open"
    /\ conv[s] = "speech"
    /\ conv' = [conv EXCEPT ![s] = "quiet"]
    /\ UNCHANGED <<conn, gateVars, workVars, leg, bgCancel, stored>>

\* A transcript or a typed text starts a turn, over a running one if any.
StartTurn(s) ==
    /\ conn[s] = "open"
    /\ conv' = [conv EXCEPT ![s] = "turn"]
    /\ Arm(s)
    /\ UNCHANGED <<conn, workVars, leg, stored>>

\* A frame with speech energy, or a delta of the reply.
NoteActivity(s) ==
    /\ conn[s] = "open"
    /\ quiet' = [quiet EXCEPT ![s] = 0]
    /\ UNCHANGED <<conn, conv, open, awaiting, timer, workVars, leg,
                   bgCancel, stored>>

\* With overlapping turns one may end, or an interrupt of it be carried out,
\* when the session has gone on to the next turn or to speech.
TurnEnds(s) ==
    \/ conv' = [conv EXCEPT ![s] = "quiet"]
    \/ Overlap /\ UNCHANGED conv

TurnDone(s, k) ==
    /\ conn[s] = "open"
    /\ conv[s] = "turn" \/ Overlap
    /\ TurnEnds(s)
    /\ Release(s)
    /\ Submit(s, k)
    /\ UNCHANGED <<conn, leg, stored>>

\* A turn that failed, or speech that interrupted a turn or the playback
\* of an answer whose turn has ended.
TurnCut(s) ==
    /\ conn[s] = "open"
    /\ conv[s] \in {"turn", "quiet"} \/ Overlap
    /\ TurnEnds(s)
    /\ Release(s)
    /\ UNCHANGED <<conn, workVars, leg, stored>>

\* Teardown cancels the worker.  The chain's thread and the timer go on.
Disconnect(s) ==
    /\ conn[s] = "open"
    /\ conn' = [conn EXCEPT ![s] = "closed"]
    /\ conv' = [conv EXCEPT ![s] = "quiet"]
    /\ worker' = [worker EXCEPT ![s] = "none"]
    /\ queue' = [queue EXCEPT ![s] = <<>>]
    /\ bgCancel' = (bgCancel \/ Running(s))
    /\ UNCHANGED <<gateVars, seq, job, outcome, leg, stored>>

-----------------------------------------------------------------------------
(* Time and the timer callback.                                            *)

\* A tick is far longer than a callback: time passes when none is ready.
LoopIdle == \A s \in Sessions : timer[s] # 0 /\ worker[s] \notin {"top", "woken"}

Tick ==
    /\ LoopIdle
    /\ \E s \in Sessions : quiet[s] < Idle \/ timer[s] > 0
    /\ quiet' = [s \in Sessions |->
                   IF quiet[s] < Idle THEN quiet[s] + 1 ELSE quiet[s]]
    /\ timer' = [s \in Sessions |->
                   IF timer[s] > 0 THEN timer[s] - 1 ELSE timer[s]]
    /\ UNCHANGED <<conn, conv, open, awaiting, workVars, leg, bgCancel, stored>>

\* The quiet window held: opening wakes the worker that waits for the event.
OpenGate(s) ==
    /\ timer' = [timer EXCEPT ![s] = Off]
    /\ awaiting' = [awaiting EXCEPT ![s] = FALSE]
    /\ bgCancel' = FALSE
    /\ open' = [open EXCEPT ![s] = TRUE]
    /\ worker' = [worker EXCEPT ![s] = IF @ = "waiting" THEN "woken" ELSE @]

\* Variant: an attempt that comes too early is not repeated.
TryOpenOnce(s) ==
    /\ timer[s] = 0
    /\ IF awaiting[s] /\ quiet[s] >= Idle
         THEN OpenGate(s)
         ELSE /\ timer' = [timer EXCEPT ![s] = Off]
              /\ UNCHANGED <<open, awaiting, worker, bgCancel>>
    /\ UNCHANGED <<conn, conv, quiet, queue, seq, job, outcome, leg, stored>>

TryOpen(s) ==
    /\ timer[s] = 0
    /\ IF awaiting[s] /\ quiet[s] >= Idle
         THEN OpenGate(s)
         ELSE /\ timer' = [timer EXCEPT
                             ![s] = IF awaiting[s] THEN Idle - quiet[s]
                                                   ELSE Off]
              /\ UNCHANGED <<open, awaiting, worker, bgCancel>>
    /\ UNCHANGED <<conn, conv, quiet, queue, seq, job, outcome, leg, stored>>

-----------------------------------------------------------------------------
(* The worker task.                                                        *)

\* Pop the oldest record of q and hand it to a thread.
Begin(s, q) ==
    /\ worker' = [worker EXCEPT ![s] = "busy"]
    /\ queue' = [queue EXCEPT ![s] = Tail(q)]
    /\ job' = [job EXCEPT ![s] = Head(q)]
    /\ leg' = [leg EXCEPT ![s] = "prepare"]

\* Variant: the worker gives up at a closed gate instead of waiting.
LoopGivesUp(s, q) ==
    \/ /\ q # <<>>
       /\ open[s]
       /\ Begin(s, q)
    \/ /\ q = <<>> \/ ~open[s]
       /\ worker' = [worker EXCEPT ![s] = "none"]
       /\ queue' = [queue EXCEPT ![s] = q]
       /\ job' = [job EXCEPT ![s] = NoJob]
       /\ leg' = [leg EXCEPT ![s] = "none"]

\* The head of the loop, with q the queue at that point.
Loop(s, q) ==
    \/ /\ q # <<>>
       /\ open[s]
       /\ Begin(s, q)
    \/ /\ q = <<>> \/ ~open[s]
       /\ worker' = [worker EXCEPT
                       ![s] = IF q = <<>> THEN "none" ELSE "waiting"]
       /\ queue' = [queue EXCEPT ![s] = q]
       /\ job' = [job EXCEPT ![s] = NoJob]
       /\ leg' = [leg EXCEPT ![s] = "none"]

\* A worker just spawned reaches the loop.
WorkerTop(s) ==
    /\ worker[s] = "top"
    /\ Loop(s, queue[s])
    /\ UNCHANGED <<conn, conv, gateVars, seq, outcome, bgCancel, stored>>

\* A worker whose wait() was resolved resumes behind it: the event is not
\* tested again.
WorkerWake(s) ==
    /\ worker[s] = "woken"
    /\ Begin(s, queue[s])
    /\ UNCHANGED <<conn, conv, gateVars, seq, outcome, bgCancel, stored>>

\* Variant of Requeued: the pair is given up.
RequeuedNever(s) == queue[s]

\* _requeue: to the front, unless the queue holds the same pair.
Requeued(s) ==
    IF HasKey(queue[s], job[s].key) THEN queue[s] ELSE <<job[s]>> \o queue[s]

\* The thread's result reaches the worker, which goes on with its loop.
Reap(s, result) ==
    /\ worker[s] = "busy"
    /\ leg[s] = result
    /\ outcome' = [outcome EXCEPT ![s][job[s].no] =
                     IF result # "cancelled" THEN result
                     ELSE IF HasKey(queue[s], job[s].key) THEN "merged"
                     ELSE "pending"]
    /\ Loop(s, IF result = "cancelled" THEN Requeued(s) ELSE queue[s])
    /\ UNCHANGED <<conn, conv, gateVars, seq, bgCancel, stored>>

WorkerStep(s) ==
    \/ WorkerTop(s)
    \/ WorkerWake(s)
    \/ \E result \in EndLegs : Reap(s, result)

-----------------------------------------------------------------------------
(* The ingest chain, in its thread.                                        *)

Goto(s, from, to) ==
    /\ leg[s] \in from
    /\ leg' = [leg EXCEPT ![s] = to]
    /\ UNCHANGED <<conn, conv, gateVars, workVars, bgCancel>>

\* No VoiceMem facade could be built: ingest returns at once.
NoFacade(s) == Goto(s, {"prepare"}, "finished") /\ UNCHANGED stored

\* The cancel event is seen before a request or between its chunks.
Abort(s) ==
    /\ bgCancel
    /\ Goto(s, PollingLegs, "cancelled")
    /\ UNCHANGED stored

IssueExtract(s) ==
    /\ ~bgCancel
    /\ Goto(s, {"prepare"}, "extract")
    /\ UNCHANGED stored

\* No fact in the turn, or an extraction error, which is swallowed.
ExtractNothing(s) == Goto(s, {"prepare", "extract"}, "tail") /\ UNCHANGED stored

ExtractFacts(s) == Goto(s, {"extract"}, "decide") /\ UNCHANGED stored

\* No existing memory is a candidate for a conflict.
SkipResolve(s) == Goto(s, {"decide"}, "write") /\ UNCHANGED stored

IssueResolve(s) ==
    /\ ~bgCancel
    /\ Goto(s, {"decide"}, "resolve")
    /\ UNCHANGED stored

\* The answer, or any ordinary error: then every fact is added.
Resolved(s) == Goto(s, {"resolve"}, "write") /\ UNCHANGED stored

Write(s) ==
    /\ Goto(s, {"write"}, "written")
    /\ stored' = [stored EXCEPT ![s][job[s].no] = @ + 1]

\* The slot annotation of what was written is a request that does not poll.
IssueTag(s) == Goto(s, {"written"}, "tag") /\ UNCHANGED stored

\* Annotated, or nothing to annotate.
Tagged(s) == Goto(s, {"written", "tag"}, "tail") /\ UNCHANGED stored

\* The right-brain writes and the turn count end the chain.
Complete(s) == Goto(s, {"tail"}, "finished") /\ UNCHANGED stored

\* The store or the right brain raises.
Fail(s) == Goto(s, {"write", "tail"}, "failed") /\ UNCHANGED stored

ChainStep(s) ==
    \/ NoFacade(s)
    \/ Abort(s)
    \/ IssueExtract(s)
    \/ ExtractNothing(s)
    \/ ExtractFacts(s)
    \/ SkipResolve(s)
    \/ IssueResolve(s)
    \/ Resolved(s)
    \/ Write(s)
    \/ IssueTag(s)
    \/ Tagged(s)
    \/ Complete(s)
    \/ Fail(s)

-----------------------------------------------------------------------------
SessionStep(s) ==
    \/ Connect(s)
    \/ SpeechStart(s)
    \/ SpeechDropped(s)
    \/ StartTurn(s)
    \/ NoteActivity(s)
    \/ \E k \in Keys : TurnDone(s, k)
    \/ TurnCut(s)
    \/ Disconnect(s)

Next ==
    \/ Tick
    \/ \E s \in Sessions : \/ SessionStep(s)
                           \/ TryOpen(s)
                           \/ WorkerStep(s)
                           \/ ChainStep(s)

Spec == Init /\ [][Next]_vars

\* The loop runs its ready callbacks and due timers; every request of a
\* chain has a client timeout.  Users need not do anything.
Fairness ==
    /\ WF_vars(Tick)
    /\ \A s \in Sessions : /\ WF_vars(TryOpen(s))
                           /\ WF_vars(WorkerStep(s))
                           /\ WF_vars(ChainStep(s))

FairSpec == Spec /\ Fairness

-----------------------------------------------------------------------------
(* Properties.                                                             *)

\* Turns are consolidated in the order they were spoken: a record put back
\* after a cancelled chain precedes all younger ones, and the record in
\* flight is older than every queued one (_requeue, _worker).
QueueInOrder ==
    \A s \in Sessions :
        /\ \A i, j \in 1 .. Len(queue[s]) :
               i < j => queue[s][i].no < queue[s][j].no
        /\ Running(s) =>
               \A i \in 1 .. Len(queue[s]) : job[s].no < queue[s][i].no

\* The queue never holds the same pair twice, though one may be submitted
\* again while its first copy is in flight and comes back (submit, _requeue).
PairsCoalesced ==
    \A s \in Sessions : \A i, j \in 1 .. Len(queue[s]) :
        i # j => queue[s][i].key # queue[s][j].key

QueuedTurns(s) == {queue[s][i].no : i \in 1 .. Len(queue[s])}

\* No accepted pair leaves the gate unaccounted for while the session lives:
\* exactly the pairs that were neither finished, failed nor merged into an
\* equal one are queued or in flight (GateStats against _queue).
NothingVanishes ==
    \A s \in Sessions : conn[s] = "open" =>
        \A n \in Turns :
            outcome[s][n] = "pending" <=>
                n \in QueuedTurns(s) \/ (Running(s) /\ n = job[s].no)

\* However often a turn is cancelled and taken up again, its facts are
\* applied at most once, and not at all while it waits in the queue: a
\* cancellation strikes only before the chain has written anything.
ConsolidatedOnce ==
    \A s \in Sessions : \A n \in Turns :
        /\ stored[s][n] <= 1
        /\ n \in QueuedTurns(s) => stored[s][n] = 0

\* With one session an open gate never meets a set cancel event.  Else its
\* worker would start, cancel and re-queue the same pair without a pause.
CancelMeansClosed ==
    \A s \in Sessions : conn[s] = "open" /\ bgCancel => ~open[s]

\* Unless turns overlap, the gate neither is open nor waits for quiet while
\* the user speaks or a turn runs: arm undoes every earlier release.
OpenMeansQuiet ==
    \A s \in Sessions : conn[s] = "open" /\ (open[s] \/ awaiting[s])
        => conv[s] = "quiet"

\* The worker never sleeps through an open gate, never waits for nothing,
\* and is there whenever a pair is queued (_ensure_worker, Event.wait).
NoLostWakeup ==
    \A s \in Sessions :
        /\ worker[s] = "waiting" => ~open[s]
        /\ worker[s] \in {"waiting", "woken"} => queue[s] # <<>>
        /\ conn[s] = "open" /\ queue[s] # <<>> => worker[s] # "none"

\* Once the conversation stays quiet after a release, all pairs of the
\* session leave the gate: the timer, the worker and the chain make
\* progress, and a re-queued pair is retried (background_memory.py, POLICY).
Consolidates ==
    \A s \in Sessions :
        <>[](conn[s] = "open" /\ quiet[s] = Idle /\ ~Armed(s))
            => <>[](queue[s] = <<>> /\ ~Running(s))

\* The books of the gate balance: its pairs are in order, none is queued twice
\* and none disappears (submit, _requeue, _worker, GateStats).
PairsAccounted == QueueInOrder /\ PairsCoalesced /\ NothingVanishes

\* Gate, timer, worker and cancel event agree with each other and with the
\* conversation, when its turns do not overlap and no other session cancels.
GateWatches == TypeOK /\ OpenMeansQuiet /\ NoLostWakeup /\ CancelMeansClosed

=============================================================================
