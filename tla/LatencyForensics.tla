-------------------------- MODULE LatencyForensics --------------------------
(***************************************************************************)
(* tools/forensic/llm_latency_forensics.py: the tool that measures how     *)
(* long llama-server takes to the first token, with a fresh server for     *)
(* every configuration, while the server of production must be down.       *)
(*                                                                         *)
(* Times are left out; a measurement is who answered, and whether it had   *)
(* answered before.  A server that cannot bind its port has none, and ends *)
(* like any other at some time.  The query for servers may fail, which the *)
(* tool takes for none, and nothing checks that a kill did its work.       *)
(***************************************************************************)
EXTENDS Naturals, Sequences, FiniteSets

CONSTANTS
    Matrix,         \* sequence of configurations of phases 3 and 4
    Production,     \* the configuration of production
    MaxInvocations, \* bound on the runs of the tool
    MaxStartUps     \* bound on the starts of production

ASSUME ForensicsAssumption ==
    /\ {MaxInvocations, MaxStartUps} \subseteq Nat
    /\ Matrix \in Seq(STRING) /\ Production \in STRING
    /\ \A i \in DOMAIN Matrix : Matrix[i] # Production

VARIABLES
    processes,  \* llama-server processes: configuration, port, run and place in it, requests answered
    stage,      \* where the tool is
    results,    \* results of the run: one entry per configuration
    onDisk,     \* the results file: the run it is of, and its entries
    payload,    \* the request of phase 4
    invoked     \* what the bounds count; disturbed: production was started after it had been
                \* looked for; missed: a query or a kill of this run failed

forensicVars == <<processes, stage, results, onDisk, payload, invoked>>

ForensicsInit ==
    /\ processes = {} /\ stage = [at |-> "rest"] /\ results = <<>>
    /\ onDisk = [of |-> 0, entries |-> <<>>] /\ payload = "none"
    /\ invoked = [tools |-> 0, starts |-> 0, disturbed |-> FALSE, missed |-> FALSE]

Process(config, on, of, place) ==
    [config |-> config, port |-> on, run |-> of, place |-> place, answered |-> 0]

ProductionStarts ==
    /\ invoked.starts < MaxStartUps /\ \A p \in processes : p.port # 8080
    /\ processes' = processes \cup {Process(Production, 8080, 0, 0)}
    /\ invoked' = [invoked EXCEPT !.starts = @ + 1,
                                  !.disturbed = @ \/ stage.at \notin {"rest", "inspected"}]
    /\ UNCHANGED <<stage, results, onDisk, payload>>

\* Its window is closed, or it crashes.
ServerEnds ==
    /\ \E p \in processes : processes' = processes \ {p}
    /\ UNCHANGED <<stage, results, onDisk, payload, invoked>>

-----------------------------------------------------------------------------
\* main, with its options, and phase1_inspect, which only reads.
Invoke ==
    /\ stage.at = "rest" /\ invoked.tools < MaxInvocations
    /\ \E stop, benchmarks \in BOOLEAN :
        stage' = [at |-> "inspected", stop |-> stop, benchmarks |-> benchmarks, next |-> 1]
    /\ invoked' = [invoked EXCEPT !.tools = @ + 1, !.disturbed = FALSE, !.missed = FALSE]
    /\ results' = <<>> /\ payload' = "none"
    /\ UNCHANGED <<processes, onDisk>>

\* Variant of Found: only the port of production is looked at.
FoundProduction == {p \in processes : p.port = 8080}

\* find_llama_processes: every one, on whatever port.
Found == processes

Saved == onDisk' = [of |-> invoked.tools, entries |-> results']

Misses(slip) == invoked' = [invoked EXCEPT !.missed = @ \/ slip]

\* The tool refuses to measure beside a server, unless it may stop it; the refusal
\* is reported too, in the place of the report before.
LookForServers ==
    /\ stage.at = "inspected"
    /\ \E failed \in BOOLEAN :
        LET found == IF failed THEN {} ELSE Found
        IN  IF ~stage.benchmarks \/ found = {}
            THEN /\ stage' = [stage EXCEPT !.at = "capture"] /\ UNCHANGED <<processes, results, onDisk>>
                 /\ Misses(failed /\ processes # {})
            ELSE IF stage.stop
            THEN \E left \in SUBSET found :
                    /\ processes' = processes \ (found \ left) /\ Misses(left # {})
                    /\ stage' = [stage EXCEPT !.at = "capture"] /\ UNCHANGED <<results, onDisk>>
            ELSE stage' = [at |-> "rest"] /\ UNCHANGED <<processes, results, invoked>> /\ Saved
    /\ UNCHANGED payload

\* phase2_capture: the request of the last turn, or one that stands for it.
CaptureRequest ==
    /\ stage.at = "capture"
    /\ payload' \in {"real", "representative"}
    /\ stage' = [stage EXCEPT !.at = IF stage.benchmarks THEN "measure" ELSE "ollama"]
    /\ UNCHANGED <<processes, results, onDisk, invoked>>

Listening == {p \in processes : p.port = 8180}

\* TestServer.start.
StartTestServer ==
    /\ stage.at = "measure" /\ stage.next <= Len(Matrix)
    /\ processes' = processes \cup
            {Process(Matrix[stage.next], IF Listening = {} THEN 8180 ELSE 0, invoked.tools, stage.next)}
    /\ stage' = [stage EXCEPT !.at = "waiting"]
    /\ UNCHANGED <<results, onDisk, payload, invoked>>

Owned(p) == p.run = invoked.tools /\ p.place = stage.next

\* wait_health: while its own server runs, it asks whoever listens on the port.
ServerHealthy ==
    /\ stage.at = "waiting" /\ Listening # {} /\ \E p \in processes : Owned(p)
    /\ stage' = [stage EXCEPT !.at = "first"]
    /\ UNCHANGED <<processes, results, onDisk, payload, invoked>>

ResultOf(llama, error) ==
    [config |-> Matrix[stage.next], by |-> llama.config, cold |-> llama.answered = 0,
     alone |-> Cardinality(processes) = 1, error |-> error]

NoResult ==
    [config |-> Matrix[stage.next], by |-> Matrix[stage.next], cold |-> TRUE,
     alone |-> TRUE, error |-> TRUE]

\* stop: two kills, and on after ten seconds, whether the process has ended or not.
StopServer(all) ==
    \E survives \in BOOLEAN :
        /\ processes' = IF survives THEN all ELSE {p \in all : ~Owned(p)}
        /\ Misses(survives /\ \E p \in all : Owned(p))

Record(entry) ==
    /\ results' = Append(results, entry) /\ Saved
    /\ stage' = [stage EXCEPT !.at = "measure", !.next = @ + 1]

\* The server ended while it was loading, or did not load in time.
NeverHealthy ==
    /\ stage.at = "waiting"
    /\ StopServer(processes) /\ Record(NoResult)
    /\ UNCHANGED payload

\* run_config_benchmark: the first request is the measurement, the second shows
\* the cache, and the server is stopped.
MeasureServer ==
    /\ stage.at = "first"
    /\ \/ \E llama \in Listening, error \in BOOLEAN :
            /\ StopServer((processes \ {llama}) \cup {[llama EXCEPT !.answered = 2]})
            /\ Record(ResultOf(llama, error))
       \/ Listening = {} /\ StopServer(processes) /\ Record(NoResult)
    /\ UNCHANGED payload

\* phase5_ollama and phase6_report.
Finished ==
    /\ \/ stage.at = "measure" /\ stage.next > Len(Matrix)
       \/ stage.at = "ollama"
    /\ UNCHANGED <<processes, results, payload, invoked>> /\ Saved
    /\ stage' = [at |-> "rest"]

\* Ctrl-C, or an error nothing catches: a server that was started goes on.
Dies ==
    /\ stage.at \in {"waiting", "first", "measure"}
    /\ stage' = [at |-> "rest"]
    /\ UNCHANGED <<processes, results, onDisk, payload, invoked>>

ForensicsNext ==
    \/ ProductionStarts \/ ServerEnds \/ Invoke \/ LookForServers \/ CaptureRequest \/ StartTestServer
    \/ ServerHealthy \/ NeverHealthy \/ MeasureServer \/ Finished \/ Dies

ForensicsSpec == ForensicsInit /\ [][ForensicsNext]_forensicVars

-----------------------------------------------------------------------------
\* What is reported of a configuration was measured on it: a server started with
\* it answered its first request ("FRESH process per config"), also after a run
\* that died and left a server behind, and no other server had the GPU meanwhile
\* unless production was started since it was looked for.  It takes a query or a
\* kill that failed in this run, which the tool does not notice, for anything else.
MeasuredFresh ==
    ~invoked.missed =>
        \A i \in DOMAIN results :
            ~results[i].error =>
                /\ results[i].by = results[i].config /\ results[i].cold
                /\ ~invoked.disturbed => results[i].alone

=============================================================================
