------------------------------ MODULE MCTools -------------------------------
(***************************************************************************)
(* The programs beside the server, for TLC: the forensic tools, the        *)
(* release builder, the downloader of the models, the settings of the LLM  *)
(* from their file to a reply, and what the page shows of the LLM server.  *)
(* They share no state: one of them moves, the others stay where they      *)
(* started, the LLM server up.                                             *)
(***************************************************************************)
EXTENDS ReplayVerdict, ReplayServers, TraceFile, LatencyForensics,
        ReleaseBuild, ModelDownload, LlmRuntime, LlmStatus

TwoConfigurations == <<"ngl16", "ngl20">>

VARIABLE part    \* the one that moves

toolVars == <<part, verdictVars, serverVars, traceVars, forensicVars,
              releaseVars, modelVars, runtimeVars, vars>>

PartsInit ==
    /\ VerdictInit /\ ServersInit /\ TraceInit /\ ForensicsInit
    /\ ReleaseInit /\ ModelInit /\ RuntimeInit /\ Init
    /\ part \in {"verdict", "replay", "trace", "latency", "release", "download", "runtime",
                 "status"}
    /\ part # "status" => server = "up"

PartsNext ==
    /\ UNCHANGED part
    /\ \/ part = "verdict" /\ VerdictNext
          /\ UNCHANGED <<serverVars, traceVars, forensicVars, releaseVars,
                         modelVars, runtimeVars, vars>>
       \/ part = "replay" /\ ServersNext
          /\ UNCHANGED <<verdictVars, traceVars, forensicVars, releaseVars,
                         modelVars, runtimeVars, vars>>
       \/ part = "trace" /\ TraceNext
          /\ UNCHANGED <<verdictVars, serverVars, forensicVars, releaseVars,
                         modelVars, runtimeVars, vars>>
       \/ part = "latency" /\ ForensicsNext
          /\ UNCHANGED <<verdictVars, serverVars, traceVars, releaseVars,
                         modelVars, runtimeVars, vars>>
       \/ part = "release" /\ ReleaseNext
          /\ UNCHANGED <<verdictVars, serverVars, traceVars, forensicVars,
                         modelVars, runtimeVars, vars>>
       \/ part = "download" /\ ModelNext
          /\ UNCHANGED <<verdictVars, serverVars, traceVars, forensicVars,
                         releaseVars, runtimeVars, vars>>
       \/ part = "runtime" /\ RuntimeNext
          /\ UNCHANGED <<verdictVars, serverVars, traceVars, forensicVars,
                         releaseVars, modelVars, vars>>
       \/ part = "status" /\ Next
          /\ UNCHANGED <<verdictVars, serverVars, traceVars, forensicVars,
                         releaseVars, modelVars, runtimeVars>>

ToolsSpec == PartsInit /\ [][PartsNext]_toolVars

\* The state without the parts that stay where they started.
PartView ==
    CASE part = "verdict" -> <<part, verdictVars>>
      [] part = "replay" -> <<part, serverVars>>
      [] part = "trace" -> <<part, traceVars>>
      [] part = "latency" -> <<part, forensicVars>>
      [] part = "release" -> <<part, releaseVars>>
      [] part = "download" -> <<part, modelVars>>
      [] part = "runtime" -> <<part, runtimeVars>>
      [] part = "status" -> <<part, vars>>
=============================================================================
