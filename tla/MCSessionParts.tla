--------------------------- MODULE MCSessionParts ---------------------------
(***************************************************************************)
(* What goes on around the turns of a session, for TLC: the gate that      *)
(* holds back the memory work, the recognition of speech on the shared     *)
(* model, and the loops of the command line.  They share no state: one     *)
(* part moves, the others stay where they started.                         *)
(*                                                                         *)
(* The gate has one session whose turns share two keys.  Two connections   *)
(* and the engine test use one recognition model; utterances of at most    *)
(* three frames, windows of two, so that the last window is short.  The    *)
(* command line has utterances of at most three frames, a hangover of two  *)
(* and a barge-in after two counted polls.                                 *)
(***************************************************************************)
EXTENDS MemoryGate, AsrSessions, CliLoop

VARIABLE part    \* the part that moves

partVars == <<part, vars, asrVars, cliVars>>

PartsInit == /\ Init /\ AsrInit /\ CliInit
             /\ part \in {"gate", "asr", "cli"}

PartsNext ==
    /\ UNCHANGED part
    /\ \/ part = "gate" /\ Next /\ UNCHANGED <<asrVars, cliVars>>
       \/ part = "asr" /\ AsrNext /\ UNCHANGED <<vars, cliVars>>
       \/ part = "cli" /\ CliNext /\ UNCHANGED <<vars, asrVars>>

\* The fairness is that of MemoryGate, AsrSessions and CliLoop.
PartsSpec ==
    /\ PartsInit /\ [][PartsNext]_partVars
    /\ WF_vars(part = "gate" /\ Tick)
    /\ \A s \in Sessions : /\ WF_vars(part = "gate" /\ TryOpen(s))
                           /\ WF_vars(part = "gate" /\ WorkerStep(s))
                           /\ WF_vars(part = "gate" /\ ChainStep(s))
    /\ WF_asrVars(part = "asr" /\ TestReturns)
    /\ \A x \in Connections :
        /\ WF_asrVars(part = "asr" /\ TranscribeReturns(x))
        /\ WF_asrVars(part = "asr" /\ TranscribeRejected(x))
        /\ WF_asrVars(part = "asr" /\ StreamStep(x))
        /\ WF_asrVars(part = "asr" /\ (Generates(x) \/ QueueGone(x)))
        /\ WF_asrVars(part = "asr" /\ FrameCaptured(x))
        /\ WF_asrVars(part = "asr" /\ ReplyEnds(x))
    /\ WF_cliVars(part = "cli" /\ Turn)
    /\ WF_cliVars(part = "cli" /\ Player)

\* The state without the parts that stay where they started.
PartView ==
    CASE part = "gate" -> <<part, vars>>
      [] part = "asr" -> <<part, asrVars>>
      [] part = "cli" -> <<part, cliVars>>
=============================================================================
