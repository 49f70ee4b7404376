----------------------------- MODULE MCWebParts -----------------------------
(***************************************************************************)
(* Parts of the server that share no state, for TLC: the memory spaces,    *)
(* the choice of the model, the voices, the microphone and engine tests,   *)
(* the voice detector and the older engine.  One part moves, the others    *)
(* stay where they started.                                                *)
(***************************************************************************)
EXTENDS MemorySpaces, ModelSelection, VoiceEngine, AudioDiagnosis, SileroStream, QwenAsr

VARIABLE part    \* the part that moves

partVars == <<part, vars, selectionVars, voiceVars, diagnosisVars, sileroVars, qwenVars>>

PartsInit ==
    /\ Init /\ SelectionInit /\ VoiceInit /\ DiagnosisInit
    /\ SileroInit /\ QwenInit
    /\ part \in {"spaces", "selection", "voice", "diagnosis", "silero", "qwen"}

PartsNext ==
    /\ UNCHANGED part
    /\ \/ part = "spaces" /\ Next
          /\ UNCHANGED <<selectionVars, voiceVars, diagnosisVars, sileroVars, qwenVars>>
       \/ part = "selection" /\ SelectionNext
          /\ UNCHANGED <<vars, voiceVars, diagnosisVars, sileroVars, qwenVars>>
       \/ part = "voice" /\ VoiceNext
          /\ UNCHANGED <<vars, selectionVars, diagnosisVars, sileroVars, qwenVars>>
       \/ part = "diagnosis" /\ DiagnosisNext
          /\ UNCHANGED <<vars, selectionVars, voiceVars, sileroVars, qwenVars>>
       \/ part = "silero" /\ SileroNext
          /\ UNCHANGED <<vars, selectionVars, voiceVars, diagnosisVars, qwenVars>>
       \/ part = "qwen" /\ QwenNext
          /\ UNCHANGED <<vars, selectionVars, voiceVars, diagnosisVars, sileroVars>>

PartsSpec == PartsInit /\ [][PartsNext]_partVars

\* Sets of two that the parts treat alike; to swap all of them at once is enough,
\* since only one part moves.
Twins == {Requests, Workers, Starters, VoiceThreads, Clients, Engines}
Twin(x) == CHOOSE y \in UNION Twins \ {x} : \E set \in Twins : {x, y} \subseteq set
PartSymmetry == {[x \in UNION Twins |-> IF swapped THEN Twin(x) ELSE x] : swapped \in BOOLEAN}

\* The state without the parts that stay where they started.
PartView ==
    CASE part = "spaces" -> <<part, vars>>
      [] part = "selection" -> <<part, selectionVars>>
      [] part = "voice" -> <<part, voiceVars>>
      [] part = "diagnosis" -> <<part, diagnosisVars>>
      [] part = "silero" -> <<part, sileroVars>>
      [] part = "qwen" -> <<part, qwenVars>>
=============================================================================
