----------------------------- MODULE TraceFile ------------------------------
(***************************************************************************)
(* tools/forensic/llm_trace_instrumentation.py: the wrapper around         *)
(* LlmClient.chat_stream and the patches of httpx that write the trace of  *)
(* the turns of a web server, and what load_turns and select_turn of the   *)
(* replay tool make of the file.                                           *)
(*                                                                         *)
(* A turn runs in a task with a context of its own.  The server's counters *)
(* are one number, the prompts it has worked on; the requests of the       *)
(* memory chain move it too and leave no trace.                            *)
(***************************************************************************)
EXTENDS Naturals, Sequences, FiniteSets

CONSTANTS
    Traced,     \* turns of the web server
    MaxServed   \* bound on the prompts the server works on

ASSUME TraceFileAssumption == IsFiniteSet(Traced) /\ MaxServed \in Nat

VARIABLES
    wrapper,    \* turn -> where its wrapper is, and the trace dict
    file,       \* the events of llm_production_trace.jsonl; delta: what the
                \* counters moved by, empty when they could not be read
    served      \* the counters of llama-server's /metrics

traceVars == <<wrapper, file, served>>

\* A snapshot of the counters; the request for it may fail.
Unknown == 0
Snapshot == {Unknown, served}

TraceInit ==
    /\ wrapper = [t \in Traced |-> [at |-> "new", before |-> Unknown, token |-> FALSE]]
    /\ file = <<>> /\ served = 1

Move(t, to) == wrapper' = [wrapper EXCEPT ![t].at = to]
Event(kind, t) == file' = Append(file, [kind |-> kind, turn |-> t, token |-> FALSE, delta |-> {}])

Begin(t) ==
    /\ wrapper[t].at = "new"
    /\ Move(t, "asked") /\ Event("start", t)
    /\ UNCHANGED served

\* The first snapshot, and the trace becomes the active one of the context.
SnapshotBefore(t) ==
    /\ wrapper[t].at = "asked"
    /\ \E counters \in Snapshot : wrapper' = [wrapper EXCEPT ![t].at = "open", ![t].before = counters]
    /\ UNCHANGED <<file, served>>

\* Variant of Send: the context has no active trace yet.
SendUntraced(t) == wrapper[t].at = "open" /\ Move(t, "sent") /\ UNCHANGED <<file, served>>

Send(t) == wrapper[t].at = "open" /\ Move(t, "sent") /\ Event("wire", t) /\ UNCHANGED served

Serve(t) ==
    /\ wrapper[t].at = "sent" /\ served < MaxServed
    /\ served' = served + 1
    /\ Move(t, "served")
    /\ UNCHANGED file

ServeChain == served < MaxServed /\ served' = served + 1 /\ UNCHANGED <<wrapper, file>>

Headers(t) == wrapper[t].at = "served" /\ Move(t, "headers") /\ Event("headers", t) /\ UNCHANGED served

FirstDelta(t) ==
    /\ wrapper[t].at = "headers"
    /\ wrapper' = [wrapper EXCEPT ![t].at = "streaming", ![t].token = TRUE]
    /\ UNCHANGED <<file, served>>

\* The stream ends, fails, or the turn is cancelled or closed in it.
LeaveStream(t) ==
    /\ wrapper[t].at \in {"open", "sent", "served", "headers", "streaming"}
    /\ Move(t, "closing")
    /\ UNCHANGED <<file, served>>

\* A cancellation that meets the wrapper in one of its own requests for the
\* counters: no end is written.
CancelledInside(t) ==
    /\ wrapper[t].at \in {"asked", "closing"}
    /\ Move(t, "gone")
    /\ UNCHANGED <<file, served>>

End(t) ==
    /\ wrapper[t].at = "closing"
    /\ \E counters \in Snapshot :
        file' = Append(file, [kind |-> "end", turn |-> t, token |-> wrapper[t].token,
                              delta |-> IF Unknown \in {counters, wrapper[t].before} THEN {}
                                        ELSE {counters - wrapper[t].before}])
    /\ Move(t, "gone")
    /\ UNCHANGED served

TraceNext ==
    \/ \E t \in Traced :
        \/ Begin(t) \/ SnapshotBefore(t) \/ Send(t) \/ Serve(t) \/ Headers(t) \/ FirstDelta(t)
        \/ LeaveStream(t) \/ CancelledInside(t) \/ End(t)
    \/ ServeChain

TraceSpec == TraceInit /\ [][TraceNext]_traceVars

-----------------------------------------------------------------------------
At(kind, t) == {i \in DOMAIN file : file[i].kind = kind /\ file[i].turn = t}

\* The turns select_turn chooses from.
Choosable == {t \in Traced : \E i \in At("end", t) : file[i].token}

\* A turn that can be chosen has the request that went out in the file, each of
\* its events is there once and in order, and its own prompt is in what the
\* counters moved by, if both could be read.
TraceTellsTheTurn ==
    \A t \in Choosable :
        /\ \A kind \in {"start", "wire", "headers", "end"} : Cardinality(At(kind, t)) = 1
        /\ LET The(kind) == CHOOSE i \in At(kind, t) : TRUE
           IN  /\ The("start") < The("wire") /\ The("wire") < The("headers")
               /\ The("headers") < The("end")
               /\ file[The("end")].delta \subseteq 1 .. served - wrapper[t].before

=============================================================================
