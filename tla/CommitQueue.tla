---------------------------- MODULE CommitQueue -----------------------------
(***************************************************************************)
(* How the command-line agent stores its replies (app/pipeline.py over     *)
(* app/voicemem_bridge.py).                                                *)
(*                                                                         *)
(* Turns run one behind the other.  A completed turn commits its reply,    *)
(* tries again once, and then queues it; a background task retries the     *)
(* queue a few rounds, and so does the next turn when it starts.  Every    *)
(* commit goes through the bridge, which constructs the VoiceMem facade of *)
(* the speaker when it is not cached, bounds the cache, backs off after    *)
(* failures, and pairs the reply with the speaker's last user text.  The   *)
(* turn and the background task interleave wherever a call waits for a     *)
(* thread.                                                                 *)
(***************************************************************************)
EXTENDS Integers, Sequences, FiniteSets, SequencesExt

CONSTANTS
    Speakers,   \* memory spaces (user_id)
    Replies,    \* texts of replies
    MaxTurns,   \* bound on the turns of a behaviour
    QueueMax,   \* _MEMORY_COMMIT_QUEUE_MAX
    Rounds,     \* _MEMORY_COMMIT_BG_ROUNDS
    CacheMax,   \* _VM_CACHE_MAX
    MaxFails    \* _VM_MAX_FAILS

ASSUME CommitBoundsAssumption ==
    /\ MaxTurns \in Nat
    /\ {QueueMax, Rounds, CacheMax, MaxFails} \subseteq Nat \ {0}

\* A reply is told from none.
ASSUME ReplyAssumption == "none" \notin Replies

VARIABLES
    up,         \* the memory backend works
    phase,      \* where handle_utterance of the current turn is
    turn,       \* number of the current turn, or of the last
    attempt,    \* inline attempts to commit its reply
    who, said,  \* speaker and reply of each turn
    last,       \* _last_user_text: the turn of each speaker's last user text
    queue,      \* _pending_commits, as turns
    loop,       \* the background task: "none", "sleep", "retry"
    round,      \* its round
    snap,       \* the replies a flush of the turn and of the loop has left
    call,       \* the bridge call the turn and the loop are in
    lru,        \* cached facades, least recently used first
    fails,      \* _vm_fail_count, up to MaxFails
    paused,     \* the last failure is less than _VM_RETRY_WINDOW_S ago
    handed,     \* how often each reply of each speaker was handed to a thread
    storing,    \* how many of these threads are at work
    stored,     \* the replies, with their speakers, that were stored
    evicted     \* turns whose reply the full queue dropped

vars == <<up, phase, turn, attempt, who, said, last, queue, loop, round, snap, call, lru,
          fails, paused, handed, storing, stored, evicted>>
turnVars == <<turn, attempt, who, said>>
bridgeVars == <<last, lru, fails, paused>>
memoryVars == <<handed, storing, stored>>

Turns == 1 .. MaxTurns
Clients == {"turn", "loop"}
Phases == {"idle", "flush", "listen", "known", "retrieve", "stream", "commit", "pause", "fact"}

\* A call of the bridge: for which turn, in which step; "failed" has returned.
Calls == [step : {"construct", "ingest", "failed"}, for : {"retrieve", "commit", "fact"},
          turn : Turns, text : 0 .. MaxTurns]
NoCall == [step |-> "none", for |-> "none", turn |-> 0, text |-> 0]

Cached == ToSet(lru)

TypeOK ==
    /\ up \in BOOLEAN
    /\ phase \in Phases
    /\ turn \in 0 .. MaxTurns /\ attempt \in 0 .. 2
    /\ who \in [Turns -> Speakers \cup {"none"}]
    /\ said \in [Turns -> Replies \cup {"none"}]
    /\ last \in [Speakers -> 0 .. MaxTurns]
    /\ queue \in Seq(Turns) /\ Len(queue) <= QueueMax
    /\ loop \in {"none", "sleep", "retry"} /\ round \in 0 .. Rounds
    /\ snap \in [Clients -> Seq(Turns)]
    /\ call \in [Clients -> Calls \cup {NoCall}]
    /\ lru \in Seq(Speakers) /\ IsInjective(lru) /\ Len(lru) <= CacheMax
    /\ fails \in 0 .. MaxFails /\ paused \in BOOLEAN
    /\ {handed, storing} \subseteq [Speakers \X Replies -> Nat]
    /\ stored \subseteq Speakers \X Replies
    /\ evicted \subseteq Turns

Init ==
    /\ up = TRUE /\ phase = "idle"
    /\ turn = 0 /\ attempt = 0
    /\ who = [n \in Turns |-> "none"] /\ said = [n \in Turns |-> "none"]
    /\ last = [s \in Speakers |-> 0]
    /\ queue = <<>>
    /\ loop = "none" /\ round = 0
    /\ snap = [c \in Clients |-> <<>>]
    /\ call = [c \in Clients |-> NoCall]
    /\ lru = <<>> /\ fails = 0 /\ paused = FALSE
    /\ handed = [p \in Speakers \X Replies |-> 0] /\ storing = handed /\ stored = {}
    /\ evicted = {}

-----------------------------------------------------------------------------
(* The bridge.                                                             *)

\* _may_retry_vm.
MayRetry == fails < MaxFails \/ ~paused

\* _vm_last_access of a cached facade is renewed.
Renewed(s) ==
    Append(IF s \in Cached THEN RemoveAt(lru, CHOOSE i \in 1 .. Len(lru) : lru[i] = s)
           ELSE lru, s)
Touched(s) == IF s \in Cached THEN Renewed(s) ELSE lru

\* What commit_reply makes of a facade: it ingests the reply with the last
\* user text of the speaker, and fails when there is none.
Ingest(n) ==
    [step |-> IF last[who[n]] # 0 THEN "ingest" ELSE "failed", for |-> "commit",
     turn |-> n, text |-> last[who[n]]]

\* commit_reply up to where it first waits for a thread.
Commit(n) ==
    IF who[n] \in Cached THEN Ingest(n)
    ELSE [step |-> IF MayRetry THEN "construct" ELSE "failed", for |-> "commit",
          turn |-> n, text |-> 0]

\* Client c calls commit_reply for turn n.
BeginCommit(c, n) ==
    /\ call' = [call EXCEPT ![c] = Commit(n)]
    /\ lru' = Touched(who[n])

\* process_turn or store_fact of the current turn without a facade to wait
\* for: it goes on at once, with the facade or degraded.
Waits(s) == s \notin Cached /\ MayRetry
Construct(for) == [step |-> "construct", for |-> for, turn |-> turn, text |-> 0]

\* A call that failed without waiting is settled before anything else runs.
Free(c) == \A d \in Clients \ {c} : call[d].step # "failed"

-----------------------------------------------------------------------------
(* The queue.                                                              *)

Pair(n) == <<who[n], said[n]>>
SameReply(n, m) == Pair(n) = Pair(m)

\* Variant of Removed: every equal entry.
RemovedAll(n) == SelectSeq(queue, LAMBDA m : ~SameReply(m, n))

\* Variant of Removed: a stored reply stays in the queue.
RemovedNever(n) == queue

\* deque.remove((reply, speaker)): the first equal entry, if there is one.
Removed(n) ==
    LET equal == {i \in 1 .. Len(queue) : SameReply(queue[i], n)}
    IN  IF equal = {} THEN queue
        ELSE RemoveAt(queue, CHOOSE i \in equal : \A j \in equal : i <= j)

\* deque.append with maxlen: a full queue drops its oldest entry.
Enqueued(n) ==
    IF Len(queue) < QueueMax THEN Append(queue, n) ELSE Append(Tail(queue), n)
Overflow == IF Len(queue) < QueueMax THEN {} ELSE {Head(queue)}

\* _schedule_commit_flush: one background task at a time.
Schedule ==
    IF loop = "none" THEN loop' = "sleep" /\ round' = 1 ELSE UNCHANGED <<loop, round>>

-----------------------------------------------------------------------------
(* The turn.                                                               *)

\* handle_utterance is called; it retries what is queued first.
Hear ==
    /\ phase = "idle" /\ turn < MaxTurns /\ Free("turn")
    /\ turn' = turn + 1 /\ attempt' = 0
    /\ IF queue = <<>>
       THEN phase' = "listen" /\ UNCHANGED <<snap, call, lru>>
       ELSE /\ phase' = "flush"
            /\ snap' = [snap EXCEPT !["turn"] = queue]
            /\ BeginCommit("turn", Head(queue))
    /\ UNCHANGED <<up, who, said, last, queue, loop, round, fails, paused, memoryVars, evicted>>

\* No transcript: the turn is skipped.
NotUnderstood ==
    /\ phase = "listen" /\ Free("turn")
    /\ phase' = "idle"
    /\ UNCHANGED <<up, turnVars, bridgeVars, queue, loop, round, snap, call, memoryVars,
                   evicted>>

\* The speaker is identified, or falls back to the default.
Identify(s) ==
    /\ phase = "listen" /\ Free("turn")
    /\ phase' = "known"
    /\ who' = [who EXCEPT ![turn] = s]
    /\ UNCHANGED <<up, turn, attempt, said, bridgeVars, queue, loop, round, snap, call,
                   memoryVars, evicted>>

\* Variant of Retrieve: one last user text for all speakers.
RetrieveForAll ==
    /\ phase = "known" /\ Free("turn")
    /\ LET s == who[turn]
       IN  /\ lru' = Touched(s)
           /\ last' = IF s \in Cached THEN [t \in Speakers |-> turn] ELSE last
           /\ phase' = IF Waits(s) THEN "retrieve" ELSE "stream"
           /\ call' = IF Waits(s) THEN [call EXCEPT !["turn"] = Construct("retrieve")]
                      ELSE call
    /\ UNCHANGED <<up, turnVars, fails, paused, queue, loop, round, snap, memoryVars, evicted>>

\* process_turn: with a facade it remembers the user text and searches.
Retrieve ==
    /\ phase = "known" /\ Free("turn")
    /\ LET s == who[turn]
       IN  /\ lru' = Touched(s)
           /\ last' = IF s \in Cached THEN [last EXCEPT ![s] = turn] ELSE last
           /\ phase' = IF Waits(s) THEN "retrieve" ELSE "stream"
           /\ call' = IF Waits(s) THEN [call EXCEPT !["turn"] = Construct("retrieve")]
                      ELSE call
    /\ UNCHANGED <<up, turnVars, fails, paused, queue, loop, round, snap, memoryVars, evicted>>

\* The reply is empty, or barge-in aborts it: nothing is committed.
Aborted ==
    /\ phase = "stream" /\ Free("turn")
    /\ phase' = "idle"
    /\ UNCHANGED <<up, turnVars, bridgeVars, queue, loop, round, snap, call, memoryVars,
                   evicted>>

\* The reply is complete and committed for the first time.
Answer(r) ==
    /\ phase = "stream" /\ Free("turn")
    /\ phase' = "commit" /\ attempt' = 1
    /\ said' = [said EXCEPT ![turn] = r]
    /\ BeginCommit("turn", turn)
    /\ UNCHANGED <<up, turn, who, last, queue, loop, round, snap, fails, paused, memoryVars,
                   evicted>>

\* The second inline attempt, after a pause.
TryAgain ==
    /\ phase = "pause" /\ Free("turn")
    /\ phase' = "commit" /\ attempt' = 2
    /\ BeginCommit("turn", turn)
    /\ UNCHANGED <<up, turn, who, said, last, queue, loop, round, snap, fails, paused,
                   memoryVars, evicted>>

\* Behind the commit: a strong emotion is stored as a fact of its own.
TurnSettles ==
    \/ /\ phase' = "idle"
       /\ call' = [call EXCEPT !["turn"] = NoCall]
       /\ lru' = lru
    \/ /\ phase' = IF Waits(who[turn]) THEN "fact" ELSE "idle"
       /\ call' = [call EXCEPT !["turn"] = IF Waits(who[turn]) THEN Construct("fact")
                                           ELSE NoCall]
       /\ lru' = Touched(who[turn])

\* The inline commit has ended.
AfterInline(ok) ==
    /\ phase = "commit"
    /\ IF ~ok /\ attempt = 1
       THEN /\ phase' = "pause"
            /\ call' = [call EXCEPT !["turn"] = NoCall]
            /\ UNCHANGED <<lru, queue, loop, round, evicted>>
       ELSE /\ TurnSettles
            /\ IF ok THEN UNCHANGED <<queue, loop, round, evicted>>
               ELSE /\ queue' = Enqueued(turn)
                    /\ evicted' = evicted \cup Overflow
                    /\ Schedule
    /\ UNCHANGED snap

-----------------------------------------------------------------------------
(* Flushing, by the turn or by the background task.                        *)

\* The loop has tried its snapshot: it ends with the queue or its rounds.
LoopEnds ==
    IF queue' = <<>> \/ round = Rounds
    THEN loop' = "none" /\ round' = 0
    ELSE loop' = "sleep" /\ round' = round + 1

\* retry_pending_commits has tried the first reply of c's snapshot.
AfterQueued(c, ok) ==
    /\ c = "loop" \/ phase = "flush"
    /\ queue' = IF ok THEN Removed(call[c].turn) ELSE queue
    /\ snap' = [snap EXCEPT ![c] = Tail(@)]
    /\ IF snap'[c] # <<>>
       THEN BeginCommit(c, Head(snap'[c])) /\ UNCHANGED <<phase, loop, round>>
       ELSE /\ call' = [call EXCEPT ![c] = NoCall]
            /\ IF c = "loop" THEN LoopEnds /\ UNCHANGED phase
               ELSE phase' = "listen" /\ UNCHANGED <<loop, round>>
            /\ UNCHANGED lru
    /\ UNCHANGED evicted

\* The interval of the background task has passed.
Wake ==
    /\ loop = "sleep" /\ Free("loop")
    /\ IF queue = <<>>
       THEN loop' = "none" /\ round' = 0 /\ UNCHANGED <<snap, call, lru>>
       ELSE /\ loop' = "retry" /\ UNCHANGED round
            /\ snap' = [snap EXCEPT !["loop"] = queue]
            /\ BeginCommit("loop", Head(queue))
    /\ UNCHANGED <<up, phase, turnVars, last, queue, fails, paused, memoryVars, evicted>>

-----------------------------------------------------------------------------
(* The threads of a client's call return.                                  *)

AfterCommit(c, ok) ==
    \/ c = "turn" /\ AfterInline(ok)
    \/ AfterQueued(c, ok)

\* ingest(text, agent_reply=..., async_facts=True) has returned: the commit
\* counts as committed, and a thread that ingest started stores the pair.
Accepted(c) ==
    /\ call[c].step = "ingest" /\ Free(c)
    /\ handed' = [handed EXCEPT ![Pair(call[c].turn)] = @ + 1]
    /\ storing' = [storing EXCEPT ![Pair(call[c].turn)] = @ + 1]
    /\ AfterCommit(c, TRUE)
    /\ UNCHANGED <<up, turnVars, last, fails, paused, stored>>

\* ingest has raised before it started a thread.
IngestFailed(c) ==
    /\ call[c].step = "ingest" /\ ~up /\ Free(c)
    /\ AfterCommit(c, FALSE)
    /\ UNCHANGED <<up, turnVars, last, fails, paused, memoryVars>>

\* Such a thread ends; what it raises is printed and known to nobody else.
Stores(p) ==
    /\ storing[p] > 0
    /\ storing' = [storing EXCEPT ![p] = @ - 1]
    /\ stored' = IF up THEN stored \cup {p} ELSE stored
    /\ UNCHANGED <<up, phase, turnVars, bridgeVars, queue, loop, round, snap, call, handed,
                   evicted>>

\* A commit without facade or user text counts as failed.
Rejected(c) ==
    /\ call[c].step = "failed"
    /\ AfterCommit(c, FALSE)
    /\ UNCHANGED <<up, turnVars, last, fails, paused, memoryVars>>

\* _prune_vm_cache behind a construction: idle facades, then the oldest.
Pruned(order) ==
    {q \in {SubSeq(order, i, Len(order)) : i \in 1 .. Len(order)} : Len(q) <= CacheMax}
Constructions(s) == Pruned(Renewed(s))

\* What a caller of _ensure_vm does with the facade, or without one.
WithFacade(c, have) ==
    LET n == call[c].turn
        s == who[n]
    IN  \/ /\ call[c].for = "retrieve"
           /\ last' = IF have THEN [last EXCEPT ![s] = n] ELSE last
           /\ phase' = "stream"
           /\ call' = [call EXCEPT ![c] = NoCall]
        \/ /\ call[c].for = "fact"
           /\ phase' = "idle"
           /\ call' = [call EXCEPT ![c] = NoCall]
           /\ UNCHANGED last
        \/ /\ call[c].for = "commit"
           /\ call' = [call EXCEPT ![c] =
                IF have THEN Ingest(n) ELSE [@ EXCEPT !.step = "failed"]]
           /\ UNCHANGED <<last, phase>>

\* The facade is constructed, cached, and the cache pruned.
Constructed(c) ==
    /\ call[c].step = "construct" /\ up /\ Free(c)
    /\ lru' \in Constructions(who[call[c].turn])
    /\ fails' = 0 /\ paused' = FALSE
    /\ WithFacade(c, TRUE)
    /\ UNCHANGED <<up, turnVars, queue, loop, round, snap, memoryVars, evicted>>

\* The constructor raised; another caller may have cached the facade since.
ConstructFailed(c) ==
    /\ call[c].step = "construct" /\ ~up /\ Free(c)
    /\ fails' = IF fails < MaxFails THEN fails + 1 ELSE fails
    /\ paused' = (fails' = MaxFails)
    /\ WithFacade(c, who[call[c].turn] \in Cached)
    /\ UNCHANGED <<up, turnVars, lru, queue, loop, round, snap, memoryVars, evicted>>

\* The window since the last failure is over.
WindowPasses ==
    /\ paused
    /\ paused' = FALSE
    /\ UNCHANGED <<up, phase, turnVars, last, lru, fails, queue, loop, round, snap, call,
                   memoryVars, evicted>>

\* The backend (Qdrant, SQLite, the disk) fails or recovers.
BackendChanges ==
    /\ up' = ~up
    /\ UNCHANGED <<phase, turnVars, bridgeVars, queue, loop, round, snap, call, memoryVars,
                   evicted>>

-----------------------------------------------------------------------------
ThreadReturns(c) ==
    \/ Accepted(c) \/ IngestFailed(c) \/ Rejected(c)
    \/ Constructed(c) \/ ConstructFailed(c)

TurnStep ==
    \/ NotUnderstood \/ Retrieve \/ Aborted \/ TryAgain
    \/ \E s \in Speakers : Identify(s)
    \/ \E r \in Replies : Answer(r)

Next ==
    \/ Hear \/ TurnStep \/ Wake \/ WindowPasses \/ BackendChanges
    \/ \E c \in Clients : ThreadReturns(c)
    \/ \E p \in Speakers \X Replies : Stores(p)

Spec == Init /\ [][Next]_vars

\* Threads return, timers fire and turns go on; nobody has to speak, and the
\* backend does not have to recover.
Fairness ==
    /\ \A c \in Clients : WF_vars(ThreadReturns(c))
    /\ \A p \in Speakers \X Replies : WF_vars(Stores(p))
    /\ WF_vars(TurnStep) /\ WF_vars(Wake) /\ WF_vars(WindowPasses)

FairSpec == Spec /\ Fairness

-----------------------------------------------------------------------------
(* Properties.                                                             *)

\* Turns whose reply was complete and whose inline attempts are over.
Settled == {n \in Turns : said[n] # "none" /\ (n < turn \/ phase \notin {"commit", "pause"})}

SettledLike(n) == {m \in Settled : SameReply(m, n)}
TimesQueued(n) == Cardinality({m \in ToSet(queue) : SameReply(m, n)})

\* Every settled reply has been handed to a thread that stores it, is still
\* queued, or was dropped by the full queue, though a flush removes the first
\* equal entry, which need not be the one it has committed
\* (_commit_reply_with_retry, retry_pending_commits).
NothingForgotten ==
    \A n \in Settled :
        Cardinality(SettledLike(n))
            <= handed[Pair(n)] + TimesQueued(n) + Cardinality(SettledLike(n) \cap evicted)

\* The flush at a turn's start and the background flush may both hold a reply
\* and hand it over twice, but never more often (retry_pending_commits).
StoredTwiceAtMost ==
    \A n \in Turns : said[n] # "none" =>
        handed[Pair(n)] <= 2 * Cardinality({m \in Turns : SameReply(m, n)})

\* What commit_reply says of its answers: "committed" is "the reply is in
\* long-term memory", and one that is not stored has "failed" and is queued.
\* Once no thread holds it, a settled reply is in memory, queued or dropped.
CommittedIsStored ==
    \A n \in Settled :
        storing[Pair(n)] = 0 /\ Pair(n) \notin stored
            => TimesQueued(n) > 0 \/ SettledLike(n) \cap evicted # {}

\* A reply, also one of an earlier turn, is stored with words of its own
\* speaker: memories never mix (commit_reply, _last_user_text).
MemoriesDoNotMix ==
    \A c \in Clients : call[c].step = "ingest" => who[call[c].text] = who[call[c].turn]

\* A working backend drains the queue while a background task is about to
\* retry it, if the speakers' user texts are known (_commit_flush_loop).
Healthy == up /\ \A i \in 1 .. Len(queue) : last[who[queue[i]]] # 0
Drains == [](loop = "sleep" /\ ~paused /\ []Healthy => <>(queue = <<>>))

\* The books balance: no reply is forgotten, and none is handed over more often
\* than the flush of a turn and the background flush together can.
CommitsAccounted == TypeOK /\ NothingForgotten /\ StoredTwiceAtMost

=============================================================================
