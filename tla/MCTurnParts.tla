---------------------------- MODULE MCTurnParts -----------------------------
(***************************************************************************)
(* What a turn is made of, for TLC: who speaks and how it is said, the     *)
(* loading of the emotion model, the prompt, the cutting of the reply, and *)
(* the worker that speaks it.  They share no state: one part moves, the    *)
(* others stay where they started.                                         *)
(***************************************************************************)
EXTENDS SpeakWorker, SpeechText, TurnPerception, EmotionLoading, PromptContext

SomeFeelings == {<<-90, 60>>, <<-40, 0>>, <<0, 80>>, <<70, 60>>, <<40, 20>>}

VARIABLE part    \* the part that moves

partVars == <<part, vars, perceptionVars, emotionVars, promptVars, textVars>>

PartsInit ==
    /\ Init /\ PerceptionInit /\ EmotionInit /\ PromptInit
    /\ TextInit
    /\ part \in {"speak", "perception", "emotion", "prompt", "text"}

PartsNext ==
    /\ UNCHANGED part
    /\ \/ part = "speak" /\ Next
          /\ UNCHANGED <<perceptionVars, emotionVars, promptVars, textVars>>
       \/ part = "perception" /\ PerceptionNext
          /\ UNCHANGED <<vars, emotionVars, promptVars, textVars>>
       \/ part = "emotion" /\ EmotionNext
          /\ UNCHANGED <<vars, perceptionVars, promptVars, textVars>>
       \/ part = "prompt" /\ PromptNext
          /\ UNCHANGED <<vars, perceptionVars, emotionVars, textVars>>
       \/ part = "text" /\ TextNext
          /\ UNCHANGED <<vars, perceptionVars, emotionVars, promptVars>>

\* The fairness is that of SpeakWorker.
PartsSpec ==
    /\ PartsInit /\ [][PartsNext]_partVars
    /\ WF_vars(part = "speak" /\ Pump)
    /\ WF_vars(part = "speak" /\ Take)
    /\ WF_vars(part = "speak" /\ Finish)
    /\ WF_vars(part = "speak" /\ Send)
    /\ \A n \in Chunks : WF_vars(part = "speak" /\ SynthStep(n))
=============================================================================
