--------------------------- MODULE TurnPerception ---------------------------
(***************************************************************************)
(* Who speaks and how: app/speaker.py and app/emotion.py as the turns of   *)
(* app/pipeline.py use them, and the runs of app/main.py that enrol a      *)
(* speaker in the file the conversation has read at its start.             *)
(*                                                                         *)
(* An enrolment is a process of its own.  A reference is the set of speech *)
(* windows it averages, with the enrolment that recorded them.  Levels of  *)
(* similarity stand for cosines, hundredths for valence and arousal.       *)
(***************************************************************************)
EXTENDS Integers, FiniteSets

CONSTANTS
    Speakers,   \* names under which speakers are enrolled
    Fallback,   \* "voice_user"
    Enrollers,  \* runs of --register-speaker
    Windows,    \* windows of collected speech
    Levels,     \* similarities
    Threshold,  \* speaker_match_threshold
    Feelings,   \* pairs of valence and arousal the prosody model returns
    StoreFrom,  \* emotion_store_threshold
    MaxTurns, MaxFailures

ASSUME TurnPerceptionAssumption ==
    /\ Fallback \notin Speakers
    /\ IsFiniteSet(Windows) /\ Windows # {}
    /\ Levels \subseteq Nat /\ Threshold \in Nat \ {0}
    /\ Feelings \subseteq (-100 .. 100) \X (-100 .. 100)
    /\ StoreFrom \in 0 .. 100
    /\ {MaxTurns, MaxFailures} \subseteq Nat

VARIABLES
    enrolled,   \* data/speaker_registry.json: name -> reference
    enroller,   \* run -> where it is
    recognizer, \* whether the conversation has one
    known,      \* names the conversation's process has references of
    turn,       \* the last turn
    facts,      \* facts about feelings that were stored: the space and the label
    promised,   \* name -> the reference a run has told the user it stored
    used        \* what the bounds count; raced: two runs had the registry at once; unread: a
                \* run could not read it

perceptionVars == <<enrolled, enroller, recognizer, known, turn, facts, promised, used>>

Empty == [s \in {} |-> {}]
Put(f, s, ref) == [x \in DOMAIN f \cup {s} |-> IF x = s THEN ref ELSE f[x]]
Away == [at |-> "away"]
NoTurn == [user |-> Fallback, sims |-> Empty, alive |-> FALSE]

PerceptionInit ==
    /\ enrolled = Empty /\ known = {} /\ recognizer = FALSE /\ promised = Empty
    /\ enroller = [e \in Enrollers |-> Away]
    /\ turn = NoTurn /\ facts = {}
    /\ used = [turns |-> 0, failures |-> 0, raced |-> FALSE, unread |-> FALSE]

Fault == used.failures < MaxFailures

-----------------------------------------------------------------------------
(* Enrolment.                                                              *)

HoldTurns == UNCHANGED <<recognizer, known, turn, facts>>

\* run_register_speaker, to the end of the recording; with the model missing,
\* nothing said or Ctrl-C it ends here.
Record(e) ==
    /\ enroller[e] = Away
    /\ \E s \in Speakers :
        enroller' = [enroller EXCEPT ![e] = [at |-> "recorded", name |-> s]]
    /\ UNCHANGED <<enrolled, promised, used>> /\ HoldTurns

\* SpeakerRegistry._load: a file that cannot be read is an empty registry.
OpenRegistry(e) ==
    /\ enroller[e].at = "recorded"
    /\ \/ /\ enroller' = [enroller EXCEPT ![e] = [at |-> "open", name |-> @.name, data |-> enrolled]]
          /\ used' = [used EXCEPT !.raced = @ \/ \E o \in Enrollers : enroller[o].at = "open"]
       \/ /\ Fault
          /\ enroller' = [enroller EXCEPT ![e] = [at |-> "open", name |-> @.name, data |-> Empty]]
          /\ used' = [used EXCEPT !.failures = @ + 1, !.unread = TRUE,
                                  !.raced = @ \/ \E o \in Enrollers : enroller[o].at = "open"]
    /\ UNCHANGED <<enrolled, promised>> /\ HoldTurns

\* embed_windows and average_embeddings: the windows whose embedding failed are
\* left out.
Reference(e, lost) == [by |-> e, speech |-> Windows \ lost]

\* Variant of Written: a file with the new speaker alone.
WrittenAlone(e, ref) == Put(Empty, enroller[e].name, ref)

\* _save: the registry the process holds replaces the file.
Written(e, ref) == Put(enroller[e].data, enroller[e].name, ref)

Enrol(e) ==
    /\ enroller[e].at = "open"
    /\ \E lost \in SUBSET Windows :
        LET ref == Reference(e, lost)
        IN /\ lost # {} => Fault
           /\ used' = IF lost # {} THEN [used EXCEPT !.failures = @ + 1] ELSE used
           /\ IF ref.speech = {} THEN UNCHANGED <<enrolled, promised>>
              ELSE /\ enrolled' = Written(e, ref)
                   /\ promised' = Put(promised, enroller[e].name, ref)
    /\ enroller' = [enroller EXCEPT ![e] = Away]
    /\ HoldTurns

\* A write that fails is a failed enrolment.
EnrolFails(e) ==
    /\ enroller[e].at = "open" /\ Fault
    /\ enroller' = [enroller EXCEPT ![e] = Away]
    /\ used' = [used EXCEPT !.failures = @ + 1]
    /\ UNCHANGED <<enrolled, promised>> /\ HoldTurns

-----------------------------------------------------------------------------
(* The conversation.                                                       *)

\* SpeakerEmbedder: whether its files are there, and whether its one attempt to
\* load them succeeds.
Warm(files, loads) == files /\ loads

\* run_real: the registry is read once; a model that is absent or does not load
\* leaves the conversation without a recognizer.
StartConversation ==
    /\ used.turns < MaxTurns
    /\ \E files, loads \in BOOLEAN : recognizer' = Warm(files, loads)
    /\ known' = DOMAIN enrolled
    /\ turn' = NoTurn
    /\ UNCHANGED <<enrolled, enroller, facts, promised, used>>

Best(sims) == {s \in DOMAIN sims : sims[s] > 0 /\ \A o \in DOMAIN sims : sims[o] <= sims[s]}

\* identify_speaker: the best candidate from the threshold on.
Matched(sims) == {s \in Best(sims) : sims[s] >= Threshold}

\* The ids are compared in their order in the file; the first of equals wins.
Routed(sims, alive, user) ==
    IF alive /\ Matched(sims) # {} THEN user \in Matched(sims) ELSE user = Fallback

\* semantic_valence_arousal, times 100.
Semantic == {<<-60, 40>>, <<60, 30>>, <<0, 0>>}

Blend(prosody, semantic) ==
    [i \in 1 .. 2 |-> (60 * prosody[i] + 40 * semantic[i]) \div 100]

\* teacher_label_from_va.
Label(va) ==
    CASE va[1] <= -25 /\ va[2] >= 20 -> "frustrated"
      [] va[1] <= -25 /\ va[2] < 20 -> "sad"
      [] va[1] >= 25 -> "happy"
      [] OTHER -> "neutral"

Size(n) == IF n < 0 THEN -n ELSE n

\* Variant of Strong: an arousal is enough for every label.
StrongByArousal(va) == Size(va[1]) >= StoreFrom \/ Size(va[2]) >= StoreFrom

\* EmotionMemory.should_store.
Strong(va) ==
    \/ Size(va[1]) >= StoreFrom
    \/ Label(va) = "frustrated" /\ Size(va[2]) >= StoreFrom

\* handle_turn, from the speaker to the stored feeling; without an analysis of
\* the voice there is no feeling.
Feels(user, prosody) ==
    \/ prosody = {} /\ UNCHANGED facts
    \/ \E p \in prosody, semantic \in Semantic :
        LET va == Blend(p, semantic)
        IN facts' = IF Strong(va) THEN facts \cup {[space |-> user, label |-> Label(va)]}
                    ELSE facts

\* embed fails for reasons of its own, too.
Embeds == IF recognizer THEN BOOLEAN ELSE {FALSE}

SpeakTurn ==
    /\ used.turns < MaxTurns
    /\ \E sims \in [known -> Levels], alive \in Embeds, user \in Speakers \cup {Fallback},
          prosody \in {{}} \cup {{f} : f \in Feelings} :
        /\ Routed(sims, alive, user)
        /\ turn' = [user |-> user, sims |-> sims, alive |-> alive]
        /\ Feels(user, prosody)
    /\ used' = [used EXCEPT !.turns = @ + 1]
    /\ UNCHANGED <<enrolled, enroller, recognizer, known, promised>>

PerceptionNext ==
    \/ \E e \in Enrollers : Record(e) \/ OpenRegistry(e) \/ Enrol(e) \/ EnrolFails(e)
    \/ StartConversation \/ SpeakTurn

PerceptionSpec == PerceptionInit /\ [][PerceptionNext]_perceptionVars

-----------------------------------------------------------------------------
\* A speaker whose enrolment was confirmed stays enrolled, with the speech of
\* the last confirmed recording, unless two runs had the registry at once or one
\* could not read it.
EnrolledStays ==
    ~used.raced /\ ~used.unread =>
        \A s \in DOMAIN promised : s \in DOMAIN enrolled /\ enrolled[s] = promised[s]

\* What is remembered of a user's feelings names a feeling: a calm, or merely
\* lively, turn leaves no fact behind.
FactsNameFeelings == \A f \in facts : f.label # "neutral"

=============================================================================
