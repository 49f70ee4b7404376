----------------------------- MODULE MCWebTurns -----------------------------
(***************************************************************************)
(* For TLC: the turns of a session and, where a server that stays down     *)
(* must be shown, the chip of the LLM.  One of the two moves, the other    *)
(* stays where it started, the LLM server up.                              *)
(***************************************************************************)
EXTENDS WebTurns

CONSTANTS Sessions, Models, MaxAttempts

VARIABLES
    part,       \* the one that moves
    server, chip, detail, selected, loop, verified, attempts, probeFailed, asked,
    replying,   \* where each session's turn is, to the chip
    answered, cut

Status == INSTANCE LlmStatus WITH turn <- replying

statusVars == <<server, chip, detail, selected, loop, verified, attempts, probeFailed, asked,
                replying, answered, cut>>
partVars == <<part, vars, statusVars>>

PartsInit ==
    /\ Init /\ Status!Init
    /\ part \in {"turns", "status"}
    /\ part = "turns" => server = "up"
    /\ part = "status" => inputs = {"voice", "text"}

PartsNext ==
    /\ UNCHANGED part
    /\ \/ part = "turns" /\ Next /\ UNCHANGED statusVars
       \/ part = "status" /\ Status!Next /\ UNCHANGED vars

\* The fairness is that of WebTurns, none of whose fair steps is ready at the
\* start, and of LlmStatus.
PartsSpec ==
    /\ PartsInit /\ [][PartsNext]_partVars
    /\ Fairness
    /\ WF_statusVars(part = "status" /\ Status!HealthLoop)

\* A server that stays down is shown as down (LlmStatus).
DownIsShown == Status!DownIsShown

=============================================================================
