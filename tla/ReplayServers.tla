--------------------------- MODULE ReplayServers ----------------------------
(***************************************************************************)
(* The two replays of tools/forensic/replay_captured_request.py and the    *)
(* result file: a captured turn is sent again to the production server     *)
(* while the web server goes on using it, and to a server the tool starts  *)
(* on a port of its own.                                                   *)
(*                                                                         *)
(* The cache of a server is the last request it served.  The tool can be   *)
(* interrupted at any point, and takes nothing with it: the server it      *)
(* started does not see the interrupt and lives on.                         *)
(***************************************************************************)
EXTENDS Naturals, Sequences, FiniteSets, FiniteSetsExt

CONSTANTS
    MaxTraced,      \* bound on the turns that are captured
    MaxRuns,        \* bound on the runs of the tool
    MaxInterrupts   \* bound on the runs that are interrupted

ASSUME ReplayServersAssumption == {MaxTraced, MaxRuns, MaxInterrupts} \subseteq Nat

VARIABLES
    traced, \* turn -> seconds to its first token (llm_production_trace.jsonl)
    cache,  \* the turn the production server's slot holds; 0 when none
    result, \* llm_production_capture_result.json
    tool,   \* the run of the tool
    port,   \* the processes started for the fresh port, with the one that listens
    runs    \* how often the tool ran and was interrupted

serverVars == <<traced, cache, result, tool, port, runs>>

None == [none |-> TRUE]
Idle == [at |-> "idle"]

ServersInit ==
    /\ traced = <<>> /\ cache = 0 /\ result = None /\ tool = Idle
    /\ port = [live |-> {}, bound |-> 0, cache |-> 0]
    /\ runs = [started |-> 0, interrupted |-> 0]

\* A turn of the web server is served, and captured when it is done.
Converse ==
    /\ Len(traced) < MaxTraced
    /\ \E seconds \in 1 .. 2 : traced' = Append(traced, seconds)
    /\ cache' = Len(traced) + 1
    /\ tool' = IF tool.at = "warm" THEN [tool EXCEPT !.noise = @ + 1] ELSE tool
    /\ UNCHANGED <<result, port, runs>>

\* select_turn: the slowest, the first of them; or the last one.
Slowest == Min({t \in DOMAIN traced : \A u \in DOMAIN traced : traced[u] <= traced[t]})
Selected == {Slowest, Len(traced)}

Start ==
    /\ tool = Idle /\ traced # <<>> /\ runs.started < MaxRuns
    /\ \E mode \in {"both", "warm", "fresh-only"}, captured \in Selected :
        tool' = [at |-> IF mode = "fresh-only" THEN "merge" ELSE "warm", mode |-> mode,
                 turn |-> captured,
                 noise |-> 0, warm |-> None, fresh |-> None, own |-> 0, found |-> None]
    /\ runs' = [runs EXCEPT !.started = @ + 1]
    /\ UNCHANGED <<traced, cache, result, port>>

\* replay_exact_request against the production server: what the counters of the
\* server moved between the two snapshots is put down to the replay.
Warm ==
    /\ tool.at = "warm"
    /\ LET evaluated == tool.noise + (IF cache = tool.turn THEN 0 ELSE 1)
       IN  tool' = [tool EXCEPT !.at = IF tool.mode = "both" THEN "start" ELSE "write",
                                !.warm = [turn |-> tool.turn, hit |-> evaluated = 0, was |-> cache]]
    /\ cache' = tool.turn
    /\ UNCHANGED <<traced, result, port, runs>>

\* The warm result of an earlier run, if it is of the same turn.
Merged(r, captured) == IF r # None /\ r.turn = captured THEN r.warm ELSE None

Merge ==
    /\ tool.at = "merge"
    /\ tool' = [tool EXCEPT !.at = "start", !.warm = Merged(result, tool.turn), !.found = result]
    /\ UNCHANGED <<traced, cache, result, port, runs>>

\* FreshServer.start; the executable or the model may not be there.
StartFresh ==
    /\ tool.at = "start"
    /\ \/ /\ tool' = [tool EXCEPT !.at = "health", !.own = runs.started]
          /\ port' = [port EXCEPT !.live = @ \cup {runs.started}]
       \/ /\ tool' = [tool EXCEPT !.at = "write", !.fresh = [failed |-> TRUE]]
          /\ port' = port
    /\ UNCHANGED <<traced, cache, result, runs>>

\* A server that has loaded its model listens, or dies if the port is taken.
Listen(p) ==
    /\ p \in port.live /\ p # port.bound
    /\ port' = IF port.bound = 0 THEN [port EXCEPT !.bound = p, !.cache = 0]
               ELSE [port EXCEPT !.live = @ \ {p}]
    /\ UNCHANGED <<traced, cache, result, tool, runs>>

\* It may also find no room on the GPU.
Die(p) ==
    /\ p \in port.live /\ p # port.bound
    /\ port' = [port EXCEPT !.live = @ \ {p}]
    /\ UNCHANGED <<traced, cache, result, tool, runs>>

\* wait_health: the process is asked first, then the port, until time is up.
FreshHealthy == tool.own \in port.live /\ port.bound # 0

WaitHealth ==
    /\ tool.at = "health"
    /\ \/ FreshHealthy /\ tool' = [tool EXCEPT !.at = "replay"]
       \/ tool' = [tool EXCEPT !.at = "stop", !.fresh = [failed |-> TRUE]]
    /\ UNCHANGED <<traced, cache, result, port, runs>>

\* The replay goes to whatever listens on the port.
Fresh ==
    /\ tool.at = "replay"
    /\ IF port.bound = 0
       THEN tool' = [tool EXCEPT !.at = "stop", !.fresh = [failed |-> TRUE]] /\ port' = port
       ELSE /\ tool' = [tool EXCEPT !.at = "stop",
                                    !.fresh = [turn |-> tool.turn, cold |-> port.cache = 0]]
            /\ port' = [port EXCEPT !.cache = tool.turn]
    /\ UNCHANGED <<traced, cache, result, runs>>

\* Variant of Gone: a server that never became ready is not stopped.
GoneIfReady(t) == IF t.fresh = [failed |-> TRUE] THEN {} ELSE {t.own}

\* FreshServer.stop: the tool's own process is terminated, or killed.
Gone(t) == {t.own}

StopFresh ==
    /\ tool.at = "stop"
    /\ port' = [port EXCEPT !.live = @ \ Gone(tool), !.bound = IF @ \in Gone(tool) THEN 0 ELSE @]
    /\ tool' = [tool EXCEPT !.at = "write"]
    /\ UNCHANGED <<traced, cache, result, runs>>

Written(t) == [turn |-> t.turn, warm |-> t.warm, fresh |-> t.fresh]

\* The result replaces the file, whatever it held.
Write ==
    /\ tool.at = "write"
    /\ result' = Written(tool)
    /\ tool' = Idle
    /\ UNCHANGED <<traced, cache, port, runs>>

Interrupt ==
    /\ tool # Idle /\ runs.interrupted < MaxInterrupts
    /\ tool' = Idle
    /\ runs' = [runs EXCEPT !.interrupted = @ + 1]
    /\ UNCHANGED <<traced, cache, result, port>>

ServersNext ==
    \/ Converse \/ Start \/ Warm \/ Merge \/ StartFresh \/ WaitHealth \/ Fresh \/ StopFresh \/ Write
    \/ Interrupt
    \/ \E p \in port.live : Listen(p) \/ Die(p)

ServersSpec == ServersInit /\ [][ServersNext]_serverVars

-----------------------------------------------------------------------------
\* A replay that is reported as a hit was one, whatever else the production
\* server did meanwhile, and belongs to the turn of the file.  As long as no run
\* was interrupted, a fresh replay met an empty cache, and no server of the tool
\* outlives its run.
ReplaysAsReported ==
    /\ result # None /\ result.warm # None =>
        /\ result.warm.hit => result.warm.was = result.turn
        /\ result.warm.turn = result.turn
    /\ runs.interrupted = 0 =>
        /\ result # None => (result.fresh \in {None, [failed |-> TRUE]} \/ result.fresh.cold)
        /\ tool = Idle => port.live = {} /\ port.bound = 0

=============================================================================
