----------------------------- MODULE LlmRuntime -----------------------------
(***************************************************************************)
(* The settings of the LLM from the file to a reply: the one loader of     *)
(* app/llm_config.py, the config of app/config.py that takes its values    *)
(* from it, the server that scripts/start_llama_server.ps1 starts with     *)
(* them in one window and the agent (app/main.py or app/web_server.py)     *)
(* that is started in another, and the client of app/llm.py between them.  *)
(*                                                                         *)
(* One number stands for the settings that have a range, beside the        *)
(* switch of the thinking channel.  OutOfRange is a number the loader      *)
(* refuses and llama-server takes (gpu_layers = -1); Garbage is no number. *)
(***************************************************************************)
EXTENDS Naturals, Sequences, FiniteSets

CONSTANTS
    Numbers,        \* numbers in the loader's range
    BuiltIn,        \* the number of DEFAULT_PROFILE
    Garbage, OutOfRange, Unset,
    MaxConfigEdits, \* bound on the edits of files and windows
    MaxStarts,      \* bound on the starts
    MaxRequests,    \* bound on the requests
    MaxLines        \* bound on the lines of a stream

ASSUME LlmRuntimeAssumption ==
    /\ BuiltIn \in Numbers
    /\ Cardinality({Garbage, OutOfRange, Unset} \cup Numbers) = Cardinality(Numbers) + 3
    /\ {MaxConfigEdits, MaxStarts, MaxRequests, MaxLines} \subseteq Nat

Missing == [state |-> "missing"]
Broken == [state |-> "broken"]
WrittenConfig == [state : {"written"}, number : Numbers \cup {OutOfRange}, thinks : BOOLEAN]
Shipped == [state |-> "written", number |-> BuiltIn, thinks |-> FALSE]

ConfigPlaces == {"root", "other"}             \* config/ and the directory of --config
Programs == {"server", "agent"}         \* each in a window with its own environment

VARIABLES
    files,      \* place -> llm_config.yaml
    window,     \* program -> the overrides of its window: number, thinking off
    llama,      \* the llama-server that runs
    agent,      \* the agent that runs
    reply,      \* what the last request came to
    counts      \* what the bounds count; edited: the files or a window changed since the
                \* server or the agent was started

runtimeVars == <<files, window, llama, agent, reply, counts>>

NotUp == [runs |-> FALSE]
NoOverride == [number |-> Unset, thinkingOff |-> Unset]
NoReply == [outcome |-> "none", lines |-> <<>>]

RuntimeInit ==
    /\ files = [p \in ConfigPlaces |-> IF p = "root" THEN Shipped ELSE Missing]
    /\ window = [p \in Programs |-> NoOverride]
    /\ llama = NotUp /\ agent = NotUp /\ reply = NoReply
    /\ counts = [edits |-> 0, starts |-> 0, requests |-> 0, edited |-> FALSE]

-----------------------------------------------------------------------------
(* The loader.                                                             *)

Refused == [ok |-> FALSE]

\* resolve_llm_config_path: beside the config that was named, else under config/.
FileFor(place) == IF files[place] # Missing THEN files[place] ELSE files["root"]

\* load_llm_config and _validate_profile: an override wins, a missing file is
\* DEFAULT_PROFILE, and everything else that is wrong is an error.
Load(yaml, overrides) ==
    LET base == IF yaml = Missing THEN Shipped ELSE yaml
        number == IF overrides.number = Unset THEN base.number ELSE overrides.number
        thinks == IF overrides.thinkingOff = Unset THEN base.thinks
                  ELSE ~overrides.thinkingOff
    IN IF yaml = Broken \/ overrides.thinkingOff = Garbage \/ number \notin Numbers
       THEN Refused
       ELSE [ok |-> TRUE, number |-> number, thinks |-> thinks]

-----------------------------------------------------------------------------
(* The two programs.                                                       *)

Edits == counts.edits < MaxConfigEdits

EditFile ==
    /\ Edits
    /\ \E p \in ConfigPlaces, f \in WrittenConfig \cup {Missing, Broken} :
        files' = [files EXCEPT ![p] = f]
    /\ counts' = [counts EXCEPT !.edits = @ + 1, !.edited = TRUE]
    /\ UNCHANGED <<window, llama, agent, reply>>

SetWindow ==
    /\ Edits
    /\ \E p \in Programs, n \in Numbers \cup {Unset, Garbage, OutOfRange},
          off \in BOOLEAN \cup {Unset, Garbage} :
        window' = [window EXCEPT ![p] = [number |-> n, thinkingOff |-> off]]
    /\ counts' = [counts EXCEPT !.edits = @ + 1, !.edited = TRUE]
    /\ UNCHANGED <<files, llama, agent, reply>>

\* The bridge of the start script loads the config; when it fails the script
\* goes on with its own defaults, and with the window's overrides as they are.
Launched ==
    LET loaded == Load(FileFor("root"), window["server"])
        n == window["server"].number
    IN IF loaded.ok THEN [number |-> loaded.number, thinks |-> loaded.thinks, bridged |-> TRUE]
       ELSE [number |-> IF n = Unset THEN BuiltIn ELSE n, thinks |-> FALSE, bridged |-> FALSE]

Starts == counts.starts < MaxStarts

\* llama-server refuses an argument that is no number.
StartServer ==
    /\ Starts /\ ~llama.runs
    /\ llama' = IF Launched.number = Garbage THEN NotUp
                 ELSE [runs |-> TRUE, number |-> Launched.number, thinks |-> Launched.thinks,
                       bridged |-> Launched.bridged]
    /\ counts' = [counts EXCEPT !.starts = @ + 1, !.edited = IF agent.runs THEN @ ELSE FALSE]
    /\ UNCHANGED <<files, window, agent, reply>>

\* Variant of AgentLoads: the file beside the named config is not looked for.
AgentLoadsRoot(place) == Load(files["root"], window["agent"])

\* from_yaml, or the branch of load_config without a file: both materialise.
AgentLoads(place) == Load(FileFor(place), window["agent"])

StartAgent(place) ==
    /\ Starts /\ ~agent.runs
    /\ LET loaded == AgentLoads(place)
       IN agent' = IF loaded.ok
                   THEN [runs |-> TRUE, place |-> place, number |-> loaded.number,
                         thinks |-> loaded.thinks]
                   ELSE NotUp
    /\ counts' = [counts EXCEPT !.starts = @ + 1, !.edited = IF llama.runs THEN @ ELSE FALSE]
    /\ UNCHANGED <<files, window, llama, reply>>

Stop ==
    /\ \/ llama.runs /\ llama' = NotUp /\ UNCHANGED agent
       \/ agent.runs /\ agent' = NotUp /\ UNCHANGED llama
    /\ reply' = NoReply
    /\ UNCHANGED <<files, window, counts>>

-----------------------------------------------------------------------------
(* A request.                                                              *)

\* Thinking takes a server that was not started with it off, and a request that
\* does not switch it off (thinking_control_kwargs).
MayThink == llama.thinks /\ agent.thinks

\* A line carries content, a part of the thinking, or neither.
Kinds == {"content", "other"} \cup (IF MayThink THEN {"thinking"} ELSE {})

Has(lines, kind) == \E i \in DOMAIN lines : lines[i] = kind

\* chat_stream: the stream breaks, or ends with content, or is an error that
\* names the cause.
Outcome(lines, ending) ==
    IF ending = "broken" THEN "unavailable"
    ELSE IF Has(lines, "content") THEN "answered"
    ELSE IF Has(lines, "thinking") THEN "only thinking"
    ELSE IF lines = <<>> THEN "no data"
    ELSE IF ending = "late" THEN "stalled"
    ELSE "only keep-alives"

Request ==
    /\ agent.runs /\ counts.requests < MaxRequests
    /\ IF ~llama.runs THEN reply' = [outcome |-> "unavailable", lines |-> <<>>]
       ELSE \E n \in 0 .. MaxLines, ending \in {"closed", "late", "broken"} :
            \E lines \in [1 .. n -> Kinds] :
                reply' = [outcome |-> Outcome(lines, ending), lines |-> lines]
    /\ counts' = [counts EXCEPT !.requests = @ + 1]
    /\ UNCHANGED <<files, window, llama, agent>>

RuntimeNext ==
    \/ EditFile \/ SetWindow \/ StartServer \/ Stop \/ Request
    \/ \E place \in ConfigPlaces : StartAgent(place)

RuntimeSpec == RuntimeInit /\ [][RuntimeNext]_runtimeVars

-----------------------------------------------------------------------------
BothRun == llama.runs /\ agent.runs

\* A server and an agent that were started on the same files and overrides, with
\* the bridge working and the agent's config under the root, have the same
\* settings; an agent never runs on a number out of range.
OneProfile ==
    /\ agent.runs => agent.number \in Numbers
    /\ BothRun /\ ~counts.edited /\ llama.bridged /\ window["server"] = window["agent"] =>
        (agent.place = "root" \/ files["other"] = Missing =>
            llama.number = agent.number /\ llama.thinks = agent.thinks)
    /\ agent.runs /\ ~counts.edited /\ window["agent"] = NoOverride
        /\ files[agent.place] # Missing =>
        files[agent.place] # Broken /\ agent.number = files[agent.place].number

\* A reply is never empty without an error, and with thinking switched off for
\* the agent it is never lost to the thinking channel, however the server was
\* started.
NeverSilent ==
    /\ reply.outcome = "answered" => Has(reply.lines, "content")
    /\ agent.runs /\ ~agent.thinks => reply.outcome # "only thinking"

\* The settings of the file hold in every process, down to the reply.
SettingsHold == OneProfile /\ NeverSilent

=============================================================================
