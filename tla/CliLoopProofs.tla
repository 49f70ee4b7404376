---------------------------- MODULE CliLoopProofs ----------------------------
(***************************************************************************)
(* Theorems about CliLoop, for microphones of any length, any number of    *)
(* turns, and every hangover and limit of an utterance.                    *)
(***************************************************************************)
EXTENDS CliLoop, FiniteSetTheorems, SequenceTheorems, TLAPS

(***************************************************************************)
(* Type correctness.  Only _vad_loop's frames touch the utterances, and    *)
(* only a turn that speaks a chunk counts one off.                         *)
(***************************************************************************)

LEMMA Bounds ==
    /\ MaxFrames \in Nat /\ MaxCliTurns \in Nat /\ MaxDeltas \in Nat /\ Hangover \in Nat
    /\ MaxChunks \in Nat /\ MaxChunks >= 1
    /\ MaxUtterance \in Nat /\ MaxUtterance >= 1
    /\ MinSpeech \in Nat /\ MinSpeech >= 1
  BY CliBoundsAssumption

Chunked == phase \in {"synth", "play"} => todo > 0

TypeInv == CliTypeOK /\ Chunked

\* The types of what a frame touches.
MicTypes ==
    /\ frames \in Seq(Kinds) /\ Len(frames) <= MaxFrames
    /\ latest \in 0 .. Len(frames)
    /\ vad \in [inSpeech : BOOLEAN, silence : 0 .. Hangover]
    /\ utterance \in Seq(FrameNos) /\ Len(utterance) < MaxUtterance
    /\ sent \in Seq(Seq(FrameNos))
    /\ fate \in [FrameNos -> Fates]

\* The types of what a turn touches.
TurnTypes ==
    /\ taken \in 0 .. MaxCliTurns /\ taken <= Len(sent)
    /\ phase \in {"idle", "listen", "stream", "synth", "play", "commit", "gone"}
    /\ deltas \in 0 .. MaxDeltas /\ ended \in BOOLEAN /\ todo \in 0 .. MaxChunks
    /\ gate \in BOOLEAN
    /\ sustain \in 0 .. MinSpeech - 1 /\ fired \in BOOLEAN
    /\ player \in [CliTurns -> {"none", "starting", "playing"}]
    /\ running \in BOOLEAN
    /\ Chunked

LEMMA TypesAre == TypeInv <=> MicTypes /\ TurnTypes
  BY DEF TypeInv, CliTypeOK, MicTypes, TurnTypes

LEMMA TypeInit == CliInit => TypeInv
  <1> SUFFICES ASSUME CliInit PROVE TypeInv
    OBVIOUS
  <1> USE Bounds
  <1>1. <<>> \in Seq(Kinds) /\ <<>> \in Seq(FrameNos) /\ <<>> \in Seq(Seq(FrameNos)) /\ Len(<<>>) = 0
    OBVIOUS
  <1>2. MicTypes
    BY <1>1 DEF CliInit, MicTypes, Fates
  <1>3. TurnTypes
    <2>1. /\ taken \in 0 .. MaxCliTurns /\ taken <= Len(sent) /\ deltas \in 0 .. MaxDeltas
          /\ todo \in 0 .. MaxChunks /\ sustain \in 0 .. MinSpeech - 1
      BY <1>1 DEF CliInit
    <2> QED
      BY <2>1 DEF CliInit, TurnTypes, Chunked
  <1> QED
    BY <1>2, <1>3, TypesAre

\* A poll keeps the types of the detector (BargeInDetector.update).
LEMMA PollTypes ==
    ASSUME TurnTypes, MicTypes, Poll
    PROVE  sustain' \in 0 .. MinSpeech - 1 /\ fired' \in BOOLEAN
  <1>1. sustain \in Nat /\ sustain <= MinSpeech - 1 /\ fired \in BOOLEAN
    BY Bounds DEF TurnTypes
  <1>2. Fires \in BOOLEAN /\ Counts \in BOOLEAN
    BY DEF Fires, Counts
  <1>3. fired' \in BOOLEAN
    BY <1>1, <1>2 DEF Poll
  <1>4. CASE Counts /\ ~Fires
    BY <1>1, <1>4, Bounds DEF Poll, Fires
  <1>5. CASE ~(Counts /\ ~Fires)
    BY <1>1, <1>5, Bounds DEF Poll
  <1> QED
    BY <1>3, <1>4, <1>5

\* The steps of a turn keep its types.
LEMMA TurnTypesStep ==
    ASSUME MicTypes, TurnTypes, Turn
    PROVE  TurnTypes' /\ UNCHANGED micVars
  <1> USE Bounds
  <1>1. CASE BeginTurn
    <2>1. UNCHANGED micVars
      BY <1>1 DEF BeginTurn
    <2>2. taken' \in 0 .. MaxCliTurns /\ taken' <= Len(sent')
      <3>1. taken \in Nat /\ Len(sent) \in Nat /\ sent' = sent
        BY <2>1 DEF TurnTypes, MicTypes, micVars
      <3> QED
        BY <1>1, <3>1 DEF BeginTurn, TurnTypes
    <2>3. /\ deltas' \in 0 .. MaxDeltas /\ todo' \in 0 .. MaxChunks
          /\ sustain' \in 0 .. MinSpeech - 1
      BY <1>1 DEF BeginTurn
    <2> QED
      BY <1>1, <2>1, <2>2, <2>3 DEF BeginTurn, TurnTypes, Chunked
  <1>2. CASE Listened
    BY <1>2 DEF Listened, TurnTypes, Chunked, micVars, replyVars, detectorVars
  <1>3. CASE Delta
    <2>1. sustain' \in 0 .. MinSpeech - 1 /\ fired' \in BOOLEAN
      BY <1>3, PollTypes DEF Delta
    <2> QED
      <3>1. UNCHANGED micVars /\ taken' = taken /\ player' = player /\ running' = running
        BY <1>3 DEF Delta
      <3>2. CASE Fires
        BY <1>3, <2>1, <3>1, <3>2 DEF Delta, TurnTypes, Chunked, micVars, replyVars, Finish
      <3>3. CASE ~Fires
        BY <1>3, <2>1, <3>1, <3>3 DEF Delta, TurnTypes, Chunked, micVars, replyVars
      <3> QED
        BY <3>2, <3>3
  <1>4. CASE StreamEnds
    BY <1>4 DEF StreamEnds, TurnTypes, Chunked, micVars, detectorVars
  <1>5. CASE SpeakChunk
    <2>1. sustain' \in 0 .. MinSpeech - 1 /\ fired' \in BOOLEAN
      BY <1>5, PollTypes DEF SpeakChunk
    <2> QED
      <3>1. CASE Fires
        BY <1>5, <2>1, <3>1 DEF SpeakChunk, TurnTypes, Chunked, micVars, replyVars, Finish
      <3>2. CASE ~Fires
        BY <1>5, <2>1, <3>2 DEF SpeakChunk, TurnTypes, Chunked, micVars, replyVars
      <3> QED
        BY <3>1, <3>2
  <1>6. CASE Synthesized
    <2>1. sustain' \in 0 .. MinSpeech - 1 /\ fired' \in BOOLEAN
      BY <1>6, PollTypes DEF Synthesized, detectorVars, TurnTypes
    <2> QED
      <3>1. /\ UNCHANGED micVars /\ taken' = taken /\ deltas' = deltas /\ ended' = ended
            /\ running' = running
            /\ todo' \in {todo, todo - 1} /\ (phase' \in {"synth", "play"} => todo' = todo)
            /\ phase' \in {"stream", "idle", "play"}
            /\ player' \in {player, [player EXCEPT ![taken] = "starting"]}
        BY <1>6 DEF Synthesized, Finish
      <3>2. todo \in 1 .. MaxChunks
        BY <1>6 DEF Synthesized, TurnTypes, Chunked
      <3>3. gate' \in BOOLEAN
        BY <1>6 DEF Synthesized, Finish, TurnTypes
      <3>4. todo' \in 0 .. MaxChunks /\ Chunked'
        BY <3>1, <3>2 DEF Chunked
      <3>5. sent' = sent
        BY <3>1 DEF micVars
      <3> QED
        BY <2>1, <3>1, <3>3, <3>4, <3>5 DEF TurnTypes
  <1>7. CASE PollPlayback
    <2>1. sustain' \in 0 .. MinSpeech - 1 /\ fired' \in BOOLEAN
      BY <1>7, PollTypes DEF PollPlayback
    <2> QED
      <3>1. /\ UNCHANGED micVars /\ taken' = taken /\ deltas' = deltas /\ ended' = ended
            /\ running' = running
            /\ todo' \in {todo, todo - 1} /\ (phase' \in {"synth", "play"} => todo' = todo)
            /\ phase' \in {"stream", "idle", "play"}
            /\ player' \in [CliTurns -> {"none", "starting", "playing"}]
        BY <1>7 DEF PollPlayback, Finish, TurnTypes
      <3>2. todo \in 1 .. MaxChunks
        BY <1>7 DEF PollPlayback, TurnTypes, Chunked
      <3>3. gate' \in BOOLEAN
        BY <1>7 DEF PollPlayback, Finish, TurnTypes
      <3>4. todo' \in 0 .. MaxChunks /\ Chunked'
        BY <3>1, <3>2 DEF Chunked
      <3>5. sent' = sent
        BY <3>1 DEF micVars
      <3> QED
        BY <2>1, <3>1, <3>3, <3>4, <3>5 DEF TurnTypes
  <1>8. CASE ReplyDone
    BY <1>8 DEF ReplyDone, TurnTypes, Chunked, micVars, replyVars, detectorVars, Finish
  <1>9. CASE Committed
    BY <1>9 DEF Committed, TurnTypes, Chunked, micVars, replyVars, detectorVars
  <1>10. CASE Leave
    BY <1>10 DEF Leave, TurnTypes, Chunked, micVars, replyVars, detectorVars
  <1> QED
    BY <1>1, <1>2, <1>3, <1>4, <1>5, <1>6, <1>7, <1>8, <1>9, <1>10 DEF Turn

\* So do the playback threads and the end of the program.
LEMMA OtherTypesStep ==
    ASSUME TurnTypes, Player \/ Quit \/ Done \/ UNCHANGED cliVars
    PROVE  TurnTypes' /\ UNCHANGED micVars
  <1>1. ASSUME NEW t \in CliTurns, PlayStarts(t) PROVE TurnTypes' /\ UNCHANGED micVars
    BY <1>1 DEF PlayStarts, TurnTypes, Chunked, micVars, replyVars, detectorVars
  <1>2. ASSUME NEW t \in CliTurns, PlayEnds(t) PROVE TurnTypes' /\ UNCHANGED micVars
    BY <1>2 DEF PlayEnds, TurnTypes, Chunked, micVars, replyVars, detectorVars
  <1>3. CASE Quit
    BY <1>3 DEF Quit, TurnTypes, Chunked, micVars, replyVars, detectorVars
  <1>4. CASE Done \/ UNCHANGED cliVars
    BY <1>4 DEF Done, cliVars, TurnTypes, Chunked, micVars
  <1> QED
    BY <1>1, <1>2, <1>3, <1>4 DEF Player

-----------------------------------------------------------------------------
(***************************************************************************)
(* What is spoken.  An utterance rises through the frames and misses only  *)
(* those the model failed on; it ends in as many quiet frames as the state *)
(* machine has counted.                                                    *)
(***************************************************************************)

Rising(u) == \A i, j \in 1 .. Len(u) : i < j => u[i] < u[j]

\* The frames from a to b are those of u, or were not scored (f is their fate).
Unbroken(u, a, b, f) == \A n \in a .. b : n \in ToSet(u) \/ f[n] = "bad"

\* An utterance of the frames F.
Kept(u, F, f) ==
    /\ u # <<>> /\ Rising(u) /\ Unbroken(u, u[1], u[Len(u)], f)
    /\ \A i \in 1 .. Len(u) : u[i] <= Len(F) /\ f[u[i]] = "heard"

\* Its last s frames are quiet.
Paused(u, s, F) ==
    s <= Len(u) /\ \A j \in 1 .. Len(u) : j > Len(u) - s => F[u[j]] = "quiet"

\* An utterance that goes on after s quiet frames.
Going(u, s, F, f) ==
    /\ Kept(u, F, f) /\ Unbroken(u, u[1], Len(F), f)
    /\ s < Len(u) /\ Paused(u, s, F)

Closed(u, F, f) ==
    Kept(u, F, f) /\ (Len(u) < MaxUtterance => Paused(u, Hangover - 1, F))

Collecting ==
    /\ utterance # <<>> <=> vad.inSpeech
    /\ ~vad.inSpeech => vad.silence = 0
    /\ vad.inSpeech => Going(utterance, vad.silence, frames, fate)

Put == \A i \in 1 .. Len(sent) : Closed(sent[i], frames, fate)

\* A frame is in one utterance at most, and in one if it was heard.
Apart ==
    /\ \A i, j \in 1 .. Len(sent) : \A n \in ToSet(sent[i]) : n \in ToSet(sent[j]) => i = j
    /\ \A i \in 1 .. Len(sent) : \A n \in ToSet(sent[i]) : n \notin ToSet(utterance)

InSome(n) == n \in ToSet(utterance) \/ \E i \in 1 .. Len(sent) : n \in ToSet(sent[i])

Placed ==
    \A n \in 1 .. Len(frames) :
        /\ fate[n] = "heard" => InSome(n)
        /\ frames[n] = "speech" => fate[n] \in {"heard", "cut", "gated"}

SpeechInv == MicTypes /\ Collecting /\ Put /\ Apart /\ Placed

\* Appending a frame.
LEMMA AppendIs ==
    ASSUME NEW S, NEW u \in Seq(S), NEW x \in S
    PROVE  /\ Append(u, x) \in Seq(S) /\ Append(u, x) # <<>>
           /\ Len(u) \in Nat /\ Len(Append(u, x)) = Len(u) + 1
           /\ \A i \in 1 .. Len(u) : Append(u, x)[i] = u[i]
           /\ Append(u, x)[Len(u) + 1] = x
           /\ ToSet(Append(u, x)) = ToSet(u) \cup {x}
  <1>0. PICK w : w = Append(u, x)
    OBVIOUS
  <1>1. /\ w \in Seq(S) /\ w # <<>> /\ Len(u) \in Nat /\ Len(w) = Len(u) + 1
        /\ \A i \in 1 .. Len(u) : w[i] = u[i]
        /\ w[Len(u) + 1] = x
    BY <1>0
  <1>2. ToSet(w) = ToSet(u) \cup {x}
    <2>1. DOMAIN w = 1 .. Len(u) + 1 /\ DOMAIN u = 1 .. Len(u)
      BY <1>1
    <2>2. \A y \in ToSet(w) : y \in ToSet(u) \cup {x}
      BY <1>1, <2>1 DEF ToSet
    <2>3. \A y \in ToSet(u) : y \in ToSet(w)
      BY <1>1, <2>1 DEF ToSet
    <2>4. x \in ToSet(w)
      BY <1>1, <2>1 DEF ToSet
    <2> QED
      BY <2>2, <2>3, <2>4
  <1> QED
    BY <1>0, <1>1, <1>2

\* What an utterance is does not change when frames are added, and the fate of
\* those it has or misses stays.
LEMMA KeptStays ==
    ASSUME NEW u \in Seq(FrameNos), NEW F \in Seq(Kinds), NEW G \in Seq(Kinds), NEW f, NEW g,
           Kept(u, F, f), Len(F) <= Len(G), Len(F) <= MaxFrames,
           \A m \in 1 .. Len(F) : G[m] = F[m],
           \A m \in 1 .. Len(F) : m \in ToSet(u) \/ f[m] = "bad" => g[m] = f[m]
    PROVE  /\ Kept(u, G, g)
           /\ \A s \in Int : Paused(u, s, F) => Paused(u, s, G)
           /\ \A b \in Int : b <= Len(F) /\ Unbroken(u, u[1], b, f) => Unbroken(u, u[1], b, g)
  <1>1. /\ Len(u) \in Nat /\ Len(u) >= 1 /\ DOMAIN u = 1 .. Len(u)
        /\ \A i \in 1 .. Len(u) : u[i] \in FrameNos /\ u[i] \in ToSet(u)
    BY DEF Kept, ToSet
  <1>2. /\ Len(F) \in Nat /\ Len(G) \in Nat
        /\ \A i \in 1 .. Len(u) : u[i] <= Len(F) /\ u[i] \in 1 .. Len(F)
    BY <1>1, Bounds DEF Kept, FrameNos
  <1>3. ASSUME NEW b \in Int, b <= Len(F), Unbroken(u, u[1], b, f)
        PROVE  Unbroken(u, u[1], b, g)
    <2>1. u[1] \in FrameNos
      BY <1>1
    <2>2. ASSUME NEW n \in u[1] .. b PROVE n \in ToSet(u) \/ g[n] = "bad"
      <3>1. n \in 1 .. Len(F)
        BY <1>2, <1>3, <2>1, <2>2, Bounds DEF FrameNos
      <3>2. n \in ToSet(u) \/ f[n] = "bad"
        BY <1>3, <2>2 DEF Unbroken
      <3> QED
        BY <3>1, <3>2
    <2> QED
      BY <2>2 DEF Unbroken
  <1>4. Kept(u, G, g)
    <2>1. u[Len(u)] \in Int /\ u[Len(u)] <= Len(F)
      BY <1>1, <1>2, Bounds DEF FrameNos
    <2>2. Unbroken(u, u[1], u[Len(u)], g)
      BY <1>3, <2>1 DEF Kept
    <2>3. \A i \in 1 .. Len(u) : u[i] <= Len(G) /\ g[u[i]] = "heard"
      <3> SUFFICES ASSUME NEW i \in 1 .. Len(u) PROVE u[i] <= Len(G) /\ g[u[i]] = "heard"
        OBVIOUS
      <3>1. u[i] \in FrameNos /\ u[i] \in ToSet(u) /\ u[i] <= Len(F) /\ u[i] \in 1 .. Len(F)
        BY <1>1, <1>2
      <3>2. f[u[i]] = "heard"
        BY DEF Kept
      <3> QED
        BY <1>2, <3>1, <3>2 DEF FrameNos
    <2> QED
      BY <2>2, <2>3 DEF Kept
  <1>5. \A s \in Int : Paused(u, s, F) => Paused(u, s, G)
    BY <1>1, <1>2 DEF Paused
  <1> QED
    BY <1>3, <1>4, <1>5

\* An utterance starts or goes on with the frame n behind F.
LEMMA Grows ==
    ASSUME NEW F \in Seq(Kinds), NEW k \in Kinds, NEW n \in FrameNos, n = Len(F) + 1,
           NEW f \in [FrameNos -> Fates],
           NEW u \in Seq(FrameNos), NEW s \in Nat, u # <<>> => Going(u, s, F, f),
           NEW t \in Nat, t = 0 \/ (u # <<>> /\ k = "quiet" /\ t = s + 1)
    PROVE  Going(Append(u, n), t, Append(F, k), [f EXCEPT ![n] = "heard"])
  <1>0. PICK G, g, w : G = Append(F, k) /\ g = [f EXCEPT ![n] = "heard"] /\ w = Append(u, n)
    OBVIOUS
  <1> SUFFICES Going(w, t, G, g)
    BY <1>0
  <1>1. /\ G \in Seq(Kinds) /\ Len(F) \in Nat /\ Len(G) = n /\ G[n] = k
        /\ \A m \in 1 .. Len(F) : G[m] = F[m]
    BY <1>0
  <1>2. /\ w \in Seq(FrameNos) /\ w # <<>> /\ Len(u) \in Nat /\ Len(w) = Len(u) + 1
        /\ \A i \in 1 .. Len(u) : w[i] = u[i]
        /\ w[Len(u) + 1] = n
        /\ ToSet(w) = ToSet(u) \cup {n}
    BY <1>0, AppendIs
  <1>3. /\ g[n] = "heard" /\ Len(F) <= MaxFrames
        /\ \A m \in FrameNos : m # n => g[m] = f[m]
        /\ \A m \in 1 .. Len(F) : m \in FrameNos /\ m # n
    BY <1>0, <1>1, Bounds DEF FrameNos
  <1>4. CASE u = <<>>
    <2>1. Len(w) = 1 /\ w[1] = n /\ n \in ToSet(w) /\ t = 0
      BY <1>2, <1>4
    <2>2. Rising(w)
      BY <2>1 DEF Rising
    <2>3. Unbroken(w, w[1], n, g)
      <3>1. \A m \in n .. n : m = n
        BY <1>1
      <3> QED
        BY <2>1, <3>1 DEF Unbroken
    <2>4. Kept(w, G, g) /\ Unbroken(w, w[1], Len(G), g)
      BY <1>1, <1>2, <1>3, <2>1, <2>2, <2>3 DEF Kept
    <2>5. t < Len(w) /\ Paused(w, t, G)
      BY <2>1 DEF Paused
    <2> QED
      BY <2>4, <2>5 DEF Going
  <1>5. CASE u # <<>>
    <2>1. Kept(u, F, f) /\ Unbroken(u, u[1], Len(F), f) /\ s < Len(u) /\ Paused(u, s, F)
      BY <1>5 DEF Going
    <2>2. /\ Kept(u, G, g) /\ Paused(u, s, G) /\ Unbroken(u, u[1], Len(F), g)
      <3>1. Len(F) <= Len(G) /\ Len(F) \in Int /\ s \in Int /\ Len(F) <= Len(F)
        BY <1>1
      <3>2. \A m \in 1 .. Len(F) : m \in ToSet(u) \/ f[m] = "bad" => g[m] = f[m]
        BY <1>3
      <3> QED
        BY Zenon, <1>1, <1>3, <2>1, <3>1, <3>2, KeptStays
    <2>3. Len(u) >= 1 /\ w[1] = u[1] /\ u[1] \in Int
      BY <1>2, <1>5, Bounds DEF FrameNos
    <2>4. \A i \in 1 .. Len(u) : u[i] \in Int /\ u[i] <= Len(F)
      BY <2>1, Bounds DEF Kept, FrameNos
    <2>5. Rising(w)
      <3> SUFFICES ASSUME NEW i \in 1 .. Len(w), NEW j \in 1 .. Len(w), i < j PROVE w[i] < w[j]
        BY DEF Rising
      <3>1. PICK a \in Nat, b \in Nat : a = Len(u) /\ b = Len(w) /\ b = a + 1
        BY <1>2
      <3>2. i \in 1 .. b /\ j \in 1 .. b /\ i < j
        BY <3>1
      <3>3. i \in 1 .. a /\ (j = a + 1 \/ j \in 1 .. a)
        BY <3>1, <3>2
      <3>4. w[i] = u[i] /\ u[i] \in Int /\ u[i] <= Len(F)
        BY <1>2, <2>4, <3>1, <3>3
      <3>5. CASE j = a + 1
        <4>1. w[j] = n /\ n = Len(F) + 1 /\ Len(F) \in Nat
          BY <1>1, <1>2, <3>1, <3>5
        <4> QED
          BY <3>4, <4>1
      <3>6. CASE j \in 1 .. a
        <4>1. w[j] = u[j]
          BY <1>2, <3>1, <3>6
        <4>2. u[i] < u[j]
          BY <2>1, <3>1, <3>2, <3>3, <3>6 DEF Kept, Rising
        <4> QED
          BY <3>4, <4>1, <4>2
      <3> QED
        BY <3>3, <3>5, <3>6
    <2>6. Unbroken(w, w[1], n, g)
      <3> SUFFICES ASSUME NEW m \in u[1] .. n PROVE m \in ToSet(w) \/ g[m] = "bad"
        BY <2>3 DEF Unbroken
      <3>1. CASE m = n
        BY <1>2, <3>1
      <3>2. CASE m # n
        <4>1. m \in u[1] .. Len(F)
          BY <1>1, <2>3, <3>2
        <4> QED
          BY <1>2, <2>2, <4>1 DEF Unbroken
      <3> QED
        BY <3>1, <3>2
    <2>7. \A i \in 1 .. Len(w) : w[i] <= Len(G) /\ g[w[i]] = "heard"
      <3> SUFFICES ASSUME NEW i \in 1 .. Len(w) PROVE w[i] <= Len(G) /\ g[w[i]] = "heard"
        OBVIOUS
      <3>1. CASE i = Len(u) + 1
        BY <1>1, <1>2, <1>3, <3>1
      <3>2. CASE i # Len(u) + 1
        <4>1. i \in 1 .. Len(u)
          BY <1>2, <3>2
        <4> QED
          BY <1>2, <2>2, <4>1 DEF Kept
      <3> QED
        BY <3>1, <3>2
    <2>8. Kept(w, G, g)
      <3>1. w[Len(w)] = n
        BY <1>2
      <3> QED
        BY <1>2, <2>5, <2>6, <2>7, <3>1 DEF Kept
    <2>9. Paused(w, t, G)
      <3>1. t <= Len(w)
        BY <1>2, <2>1
      <3>2. ASSUME NEW j \in 1 .. Len(w), j > Len(w) - t PROVE G[w[j]] = "quiet"
        <4>1. t = s + 1 /\ k = "quiet"
          BY <1>2, <3>2
        <4>2. CASE j = Len(u) + 1
          BY <1>1, <1>2, <4>1, <4>2
        <4>3. CASE j # Len(u) + 1
          <5>1. j \in 1 .. Len(u) /\ j > Len(u) - s
            BY <1>2, <3>2, <4>1, <4>3
          <5> QED
            BY <1>2, <2>2, <5>1 DEF Paused
        <4> QED
          BY <4>2, <4>3
      <3> QED
        BY <3>1, <3>2 DEF Paused
    <2>10. t < Len(w)
      BY <1>2, <2>1
    <2> QED
      BY <1>1, <2>6, <2>8, <2>9, <2>10 DEF Going
  <1> QED
    BY <1>4, <1>5

-----------------------------------------------------------------------------
(* What a frame does to the utterances.                                    *)

\* A frame that passes the gate: nobody speaks, the utterance ends, or it starts
\* or goes on and perhaps is forced to end (_vad_loop, VadStateMachine.update).
LEMMA HeardIs ==
    ASSUME SpeechInv, NEW n \in FrameNos, NEW loud \in BOOLEAN, Heard(n, loud)
    PROVE  \/ /\ ~loud /\ utterance = <<>> /\ utterance' = <<>> /\ sent' = sent
              /\ vad' = Silent /\ fate' = [fate EXCEPT ![n] = "quiet"]
           \/ /\ ~loud /\ utterance # <<>> /\ vad.silence + 1 >= Hangover
              /\ utterance' = <<>> /\ sent' = Append(sent, utterance)
              /\ vad' = Silent /\ fate' = [fate EXCEPT ![n] = "quiet"]
           \/ \E t \in 0 .. Hangover :
                /\ \/ t = 0 /\ loud
                   \/ ~loud /\ utterance # <<>> /\ t = vad.silence + 1
                /\ fate' = [fate EXCEPT ![n] = "heard"]
                /\ \/ /\ Len(Append(utterance, n)) < MaxUtterance
                      /\ utterance' = Append(utterance, n) /\ sent' = sent
                      /\ vad' = [inSpeech |-> TRUE, silence |-> t]
                   \/ /\ Len(Append(utterance, n)) >= MaxUtterance
                      /\ utterance' = <<>> /\ sent' = Append(sent, Append(utterance, n))
                      /\ vad' = Silent
  <1> DEFINE v == Updated(vad, loud)
             upto == (IF vad.inSpeech THEN utterance ELSE <<>>)
                        \o (IF v.inSpeech THEN <<n>> ELSE <<>>)
             over == vad.inSpeech /\ ~v.inSpeech
             forced == v.inSpeech /\ Len(upto) >= MaxUtterance
  <1>1. /\ vad' = IF forced THEN Silent ELSE v
        /\ utterance' = IF over \/ forced THEN <<>> ELSE upto
        /\ sent' = IF (over \/ forced) /\ upto # <<>> THEN Append(sent, upto) ELSE sent
        /\ fate' = [fate EXCEPT ![n] = IF v.inSpeech THEN "heard" ELSE "quiet"]
    BY DEF Heard
  <1>2. /\ utterance \in Seq(FrameNos) /\ vad.inSpeech \in BOOLEAN /\ vad.silence \in 0 .. Hangover
        /\ utterance # <<>> <=> vad.inSpeech
        /\ vad \in [inSpeech : BOOLEAN, silence : 0 .. Hangover]
    BY DEF SpeechInv, MicTypes, Collecting
  <1>3. /\ <<>> \o <<>> = <<>> /\ utterance \o <<>> = utterance
        /\ <<>> \o <<n>> = Append(<<>>, n) /\ utterance \o <<n>> = Append(utterance, n)
        /\ Append(utterance, n) # <<>>
    <2>1. <<>> \in Seq(FrameNos)
      OBVIOUS
    <2>2. \A u \in Seq(FrameNos) : u \o <<n>> = Append(u, n) /\ u \o <<>> = u /\ Append(u, n) # <<>>
      BY AppendIsConcat, ConcatEmptySeq, AppendIs
    <2> QED
      BY <1>2, <2>1, <2>2
  <1>4. CASE loud
    <2>1. v = [inSpeech |-> TRUE, silence |-> 0]
      BY <1>4 DEF Updated
    <2>2. upto = Append(utterance, n)
      <3>1. v.inSpeech
        BY <2>1
      <3> QED
        BY <1>2, <1>3, <3>1
    <2>3. 0 \in 0 .. Hangover /\ ~over
      BY <2>1, Bounds
    <2>4. fate' = [fate EXCEPT ![n] = "heard"]
      BY <1>1, <2>1
    <2> HIDE DEF v, upto
    <2>7. Len(upto) \in Nat
      BY <1>2, <2>2, AppendIs
    <2>5. CASE Len(upto) < MaxUtterance
      <3>1. ~forced
        BY <2>1, <2>5, <2>7, Bounds
      <3> QED
        BY <1>1, <1>4, <2>1, <2>2, <2>3, <2>4, <2>5, <3>1
    <2>6. CASE Len(upto) >= MaxUtterance
      <3>1. forced /\ upto # <<>>
        BY <1>3, <2>1, <2>2, <2>6
      <3> QED
        BY <1>1, <1>4, <2>1, <2>2, <2>3, <2>4, <2>6, <3>1
    <2> QED
      BY <2>5, <2>6, <2>7, Bounds
  <1>5. CASE ~loud /\ vad.inSpeech /\ vad.silence + 1 < Hangover
    <2>1. v = [vad EXCEPT !.silence = vad.silence + 1]
      BY <1>5 DEF Updated
    <2>2. v = [inSpeech |-> TRUE, silence |-> vad.silence + 1]
      BY <1>2, <1>5, <2>1
    <2>3. upto = Append(utterance, n)
      <3>1. v.inSpeech
        BY <2>2
      <3> QED
        BY <1>2, <1>3, <1>5, <3>1
    <2>4. vad.silence + 1 \in 0 .. Hangover /\ ~over
      BY <1>2, <1>5, <2>2, Bounds
    <2>5. fate' = [fate EXCEPT ![n] = "heard"]
      BY <1>1, <2>2
    <2> HIDE DEF v, upto
    <2>8. Len(upto) \in Nat
      BY <1>2, <2>3, AppendIs
    <2>6. CASE Len(upto) < MaxUtterance
      <3>1. ~forced
        BY <2>2, <2>6, <2>8, Bounds
      <3> QED
        BY <1>1, <1>2, <1>5, <2>2, <2>3, <2>4, <2>5, <2>6, <3>1
    <2>7. CASE Len(upto) >= MaxUtterance
      <3>1. forced /\ upto # <<>>
        BY <1>3, <2>2, <2>3, <2>7
      <3> QED
        BY <1>1, <1>2, <1>5, <2>2, <2>3, <2>4, <2>5, <2>7, <3>1
    <2> QED
      BY <2>6, <2>7, <2>8, Bounds
  <1>6. CASE ~loud /\ ~(vad.inSpeech /\ vad.silence + 1 < Hangover)
    <2>1. v = Silent
      BY <1>6 DEF Updated
    <2>2. ~v.inSpeech
      BY <2>1 DEF Silent
    <2>3. upto = utterance
      BY <1>2, <1>3, <2>2
    <2>4. vad.inSpeech => vad.silence + 1 >= Hangover
      BY <1>2, <1>6, Bounds
    <2> HIDE DEF v, upto
    <2> QED
      BY <1>1, <1>2, <1>6, <2>1, <2>2, <2>3, <2>4
  <1> QED
    BY <1>4, <1>5, <1>6

\* The utterances that are sent, with one more.
LEMMA SentIs ==
    ASSUME NEW S \in Seq(Seq(FrameNos)), NEW x \in Seq(FrameNos)
    PROVE  /\ Append(S, x) \in Seq(Seq(FrameNos))
           /\ Len(Append(S, x)) = Len(S) + 1 /\ Len(S) \in Nat
           /\ \A i \in 1 .. Len(S) : i \in 1 .. Len(Append(S, x)) /\ Append(S, x)[i] = S[i]
           /\ \A i \in 1 .. Len(Append(S, x)) : i \in 1 .. Len(S) \/ i = Len(S) + 1
           /\ Len(S) + 1 \in 1 .. Len(Append(S, x)) /\ Append(S, x)[Len(S) + 1] = x
  OBVIOUS

\* What a frame leaves alone: the utterances that are sent, whatever becomes of
\* the one being collected.
LEMMA PutStays ==
    ASSUME SpeechInv, NEW G \in Seq(Kinds), NEW g, Len(frames) <= Len(G),
           \A m \in 1 .. Len(frames) : G[m] = frames[m],
           \A m \in 1 .. Len(frames) : m \notin ToSet(utterance) => g[m] = fate[m]
    PROVE  \A i \in 1 .. Len(sent) : Closed(sent[i], G, g)
  <1> SUFFICES ASSUME NEW i \in 1 .. Len(sent) PROVE Closed(sent[i], G, g)
    OBVIOUS
  <1>1. PICK u \in Seq(FrameNos) : u = sent[i]
    BY DEF SpeechInv, MicTypes
  <1>2. Closed(u, frames, fate) /\ \A m \in ToSet(u) : m \notin ToSet(utterance)
    BY <1>1 DEF SpeechInv, Put, Apart
  <1>3. \A m \in ToSet(utterance) : fate[m] # "bad"
    <2>1. utterance \in Seq(FrameNos) /\ vad.inSpeech \in BOOLEAN
      BY DEF SpeechInv, MicTypes
    <2>2. CASE utterance = <<>>
      BY <2>2 DEF ToSet
    <2>3. CASE utterance # <<>>
        <3>1. \A j \in 1 .. Len(utterance) : fate[utterance[j]] = "heard"
        BY <2>3 DEF SpeechInv, Collecting, Going, Kept
      <3> QED
        BY <2>1, <3>1 DEF ToSet
    <2> QED
      BY <2>2, <2>3
  <1>4. \A m \in 1 .. Len(frames) : m \in ToSet(u) \/ fate[m] = "bad" => g[m] = fate[m]
    BY <1>2, <1>3
  <1>5. frames \in Seq(Kinds) /\ Len(frames) <= MaxFrames /\ Hangover - 1 \in Int
    BY Bounds DEF SpeechInv, MicTypes
  <1>6. Kept(u, G, g) /\ \A s \in Int : Paused(u, s, frames) => Paused(u, s, G)
    BY <1>2, <1>4, <1>5, KeptStays DEF Closed
  <1> QED
    BY <1>1, <1>2, <1>5, <1>6 DEF Closed

\* The microphone has delivered the frame n, of kind k.
Delivered(k, n) ==
    /\ k \in Kinds /\ n = Len(frames) + 1 /\ n \in FrameNos
    /\ frames' = Append(frames, k) /\ latest' \in {latest, n}
    /\ fate' \in [FrameNos -> Fates]
    /\ \A m \in 1 .. Len(frames) : m \notin ToSet(utterance) => fate'[m] = fate[m]

LEMMA DeliveredIs ==
    ASSUME SpeechInv, NEW k, NEW n, Delivered(k, n)
    PROVE  /\ frames \in Seq(Kinds) /\ frames' \in Seq(Kinds) /\ Len(frames) \in Nat
           /\ Len(frames') = n /\ Len(frames) <= Len(frames') /\ n <= MaxFrames
           /\ \A m \in 1 .. Len(frames) : frames'[m] = frames[m]
           /\ frames'[n] = k
           /\ latest' \in 0 .. Len(frames')
           /\ \A m \in 1 .. n : m \in 1 .. Len(frames) \/ m = n
           /\ \A m \in 1 .. Len(frames) : m # n /\ m \in FrameNos
  <1>1. frames \in Seq(Kinds) /\ latest \in 0 .. Len(frames) /\ Len(frames) \in Nat
    BY DEF SpeechInv, MicTypes
  <1> QED
    BY <1>1, Bounds DEF Delivered, FrameNos

\* The frames of utterances have been delivered.
LEMMA OldFrames ==
    ASSUME SpeechInv
    PROVE  /\ \A m \in ToSet(utterance) : m \in 1 .. Len(frames) /\ fate[m] = "heard"
           /\ \A i \in 1 .. Len(sent) : \A m \in ToSet(sent[i]) : m \in 1 .. Len(frames)
  <1>1. ASSUME NEW u \in Seq(FrameNos), Kept(u, frames, fate)
        PROVE  \A m \in ToSet(u) : m \in 1 .. Len(frames) /\ fate[m] = "heard"
    <2>1. Len(frames) \in Nat /\ DOMAIN u = 1 .. Len(u)
      BY DEF SpeechInv, MicTypes
    <2>2. \A i \in 1 .. Len(u) : u[i] \in 1 .. Len(frames) /\ fate[u[i]] = "heard"
      BY <1>1, <2>1, Bounds DEF Kept, FrameNos
    <2> QED
      BY <2>1, <2>2 DEF ToSet
  <1>2. \A m \in ToSet(utterance) : m \in 1 .. Len(frames) /\ fate[m] = "heard"
    <2>1. CASE utterance = <<>>
      BY <2>1 DEF ToSet
    <2>2. CASE utterance # <<>>
      <3>1. Kept(utterance, frames, fate) /\ utterance \in Seq(FrameNos)
        BY <2>2 DEF SpeechInv, Collecting, Going, MicTypes
      <3> QED
        BY <1>1, <3>1
    <2> QED
      BY <2>1, <2>2
  <1>3. ASSUME NEW i \in 1 .. Len(sent) PROVE \A m \in ToSet(sent[i]) : m \in 1 .. Len(frames)
    <2>1. Kept(sent[i], frames, fate) /\ sent[i] \in Seq(FrameNos)
      BY DEF SpeechInv, Put, Closed, MicTypes
    <2> QED
      BY <1>1, <2>1
  <1> QED
    BY <1>2, <1>3

\* No utterance is sent.
LEMMA SentSame ==
    ASSUME SpeechInv, NEW k, NEW n, Delivered(k, n), sent' = sent,
           ToSet(utterance') \subseteq ToSet(utterance) \cup {n}
    PROVE  Put' /\ Apart'
  <1>1. Put'
    <2>1. \A i \in 1 .. Len(sent) : Closed(sent[i], frames', fate')
      BY DeliveredIs, PutStays DEF Delivered
    <2> QED
      BY <2>1 DEF Put
  <1>2. Apart'
    <2>1. \A i \in 1 .. Len(sent) : \A m \in ToSet(sent[i]) : m # n
      BY OldFrames, DeliveredIs
    <2> QED
      BY <2>1 DEF SpeechInv, Apart
  <1> QED
    BY <1>1, <1>2

\* The utterance x is sent, which is the one collected, perhaps with the frame.
LEMMA SentMore ==
    ASSUME SpeechInv, NEW k, NEW n, Delivered(k, n), NEW x \in Seq(FrameNos),
           Closed(x, frames', fate'), sent' = Append(sent, x), utterance' = <<>>,
           ToSet(x) \subseteq ToSet(utterance) \cup {n}, ToSet(utterance) \subseteq ToSet(x)
    PROVE  /\ sent' \in Seq(Seq(FrameNos)) /\ Put' /\ Apart'
           /\ \A m : InSome(m) \/ m \in ToSet(x) => InSome(m)'
  <1>1. /\ sent \in Seq(Seq(FrameNos)) /\ sent' \in Seq(Seq(FrameNos)) /\ Len(sent) \in Nat
        /\ \A i \in 1 .. Len(sent) : i \in 1 .. Len(sent') /\ sent'[i] = sent[i]
        /\ \A i \in 1 .. Len(sent') : i \in 1 .. Len(sent) \/ i = Len(sent) + 1
        /\ Len(sent) + 1 \in 1 .. Len(sent') /\ sent'[Len(sent) + 1] = x
    <2>1. sent \in Seq(Seq(FrameNos))
      BY DEF SpeechInv, MicTypes
    <2> QED
      BY <2>1, SentIs
  <1>2. ToSet(utterance') = {}
    BY DEF ToSet
  <1>3. Put'
    <2>1. \A i \in 1 .. Len(sent) : Closed(sent[i], frames', fate')
      BY DeliveredIs, PutStays DEF Delivered
    <2> QED
      BY <1>1, <2>1 DEF Put
  <1>4. \A i \in 1 .. Len(sent) : \A m \in ToSet(sent[i]) : m \notin ToSet(x)
    <2>1. \A i \in 1 .. Len(sent) : \A m \in ToSet(sent[i]) : m # n
      BY OldFrames, DeliveredIs
    <2>2. \A i \in 1 .. Len(sent) : \A m \in ToSet(sent[i]) : m \notin ToSet(utterance)
      BY DEF SpeechInv, Apart
    <2> QED
      BY <2>1, <2>2
  <1>5. Apart'
    <2>1. ASSUME NEW i \in 1 .. Len(sent'), NEW j \in 1 .. Len(sent'), NEW m,
                 m \in ToSet(sent'[i]), m \in ToSet(sent'[j])
          PROVE  i = j
      <3>1. CASE i \in 1 .. Len(sent) /\ j \in 1 .. Len(sent)
        BY <1>1, <2>1, <3>1 DEF SpeechInv, Apart
      <3>2. CASE i = Len(sent) + 1 \/ j = Len(sent) + 1
        BY <1>1, <1>4, <2>1, <3>2
      <3> QED
        BY <1>1, <3>1, <3>2
    <2> QED
      BY <1>2, <2>1 DEF Apart
  <1>6. ASSUME NEW m, InSome(m) \/ m \in ToSet(x) PROVE InSome(m)'
    <2>1. \E i \in 1 .. Len(sent') : m \in ToSet(sent'[i])
      BY <1>1, <1>6 DEF InSome
    <2> QED
      BY <2>1 DEF InSome
  <1> QED
    BY <1>1, <1>3, <1>5, <1>6

\* Where the frames are, when those that were heard are not lost.
LEMMA PlacedStays ==
    ASSUME SpeechInv, NEW k, NEW n, Delivered(k, n),
           \A m : InSome(m) /\ fate'[m] = "heard" => InSome(m)',
           fate'[n] = "heard" => InSome(n)',
           k = "speech" => fate'[n] \in {"heard", "cut", "gated"},
           \A m \in ToSet(utterance) : fate'[m] \in {fate[m], "cut"}
    PROVE  Placed'
  <1>1. /\ Len(frames') = n /\ frames'[n] = k
        /\ \A m \in 1 .. Len(frames) : frames'[m] = frames[m]
        /\ \A m \in 1 .. n : m \in 1 .. Len(frames) \/ m = n
    BY DeliveredIs
  <1> SUFFICES ASSUME NEW m \in 1 .. Len(frames')
               PROVE  /\ fate'[m] = "heard" => InSome(m)'
                      /\ frames'[m] = "speech" => fate'[m] \in {"heard", "cut", "gated"}
    BY DEF Placed
  <1>2. CASE m = n
    BY <1>1, <1>2
  <1>3. CASE m \in 1 .. Len(frames)
    <2>1. fate'[m] \in {fate[m], "cut"}
      BY <1>3 DEF Delivered
    <2>2. /\ fate[m] = "heard" => InSome(m)
          /\ frames[m] = "speech" => fate[m] \in {"heard", "cut", "gated"}
      BY <1>3 DEF SpeechInv, Placed
    <2> QED
      BY <1>1, <1>3, <2>1, <2>2
  <1> QED
    BY <1>1, <1>2, <1>3

\* A frame the model fails on is passed over.
LEMMA BadFrame ==
    ASSUME SpeechInv, NEW n, Delivered("bad", n), fate' = [fate EXCEPT ![n] = "bad"],
           UNCHANGED <<latest, vad, utterance, sent>>
    PROVE  SpeechInv'
  <1>1. MicTypes'
    BY DeliveredIs DEF SpeechInv, MicTypes, Delivered
  <1>2. /\ \A m \in 1 .. Len(frames) : fate'[m] = fate[m]
        /\ fate'[n] = "bad"
    <2>1. fate \in [FrameNos -> Fates] /\ \A m \in 1 .. Len(frames) : m # n /\ m \in FrameNos
      BY DeliveredIs DEF SpeechInv, MicTypes
    <2> QED
      BY <2>1 DEF Delivered
  <1>3. Collecting'
    <2>1. CASE ~vad.inSpeech
      BY <2>1 DEF SpeechInv, Collecting
    <2>2. CASE vad.inSpeech
      <3>1. Going(utterance, vad.silence, frames, fate) /\ utterance # <<>>
        BY <2>2 DEF SpeechInv, Collecting
      <3>2. utterance \in Seq(FrameNos) /\ vad.silence \in Int /\ Len(frames) <= MaxFrames
        BY Bounds DEF SpeechInv, MicTypes
      <3>3. /\ frames \in Seq(Kinds) /\ frames' \in Seq(Kinds) /\ Len(frames) <= Len(frames')
            /\ \A m \in 1 .. Len(frames) : frames'[m] = frames[m]
            /\ Len(frames) \in Int /\ Len(frames) <= Len(frames)
        BY DeliveredIs
      <3>4. /\ Kept(utterance, frames', fate') /\ Paused(utterance, vad.silence, frames')
            /\ Unbroken(utterance, utterance[1], Len(frames), fate')
        BY Zenon, <1>2, <3>1, <3>2, <3>3, KeptStays DEF Going
      <3>5. Unbroken(utterance, utterance[1], Len(frames'), fate')
        <4>1. utterance[1] \in Int
          BY <3>1, <3>2, Bounds DEF FrameNos
        <4>2. \A m \in utterance[1] .. Len(frames') : m \in utterance[1] .. Len(frames) \/ m = n
          BY <3>3, <4>1, DeliveredIs DEF Delivered
        <4> QED
          BY <1>2, <3>4, <4>2 DEF Unbroken
      <3> QED
        BY <2>2, <3>1, <3>4, <3>5 DEF Collecting, Going
    <2> QED
      BY <2>1, <2>2
  <1>4. Put' /\ Apart'
    BY SentSame
  <1>5. Placed'
    <2>1. \A m : InSome(m) => InSome(m)'
      BY DEF InSome
    <2>2. \A m \in ToSet(utterance) : fate'[m] \in {fate[m], "cut"}
      BY <1>2, OldFrames
    <2> QED
      BY <1>2, <2>1, <2>2, PlacedStays
  <1> QED
    BY <1>1, <1>3, <1>4, <1>5 DEF SpeechInv

\* A frame during playback gives up the utterance it falls into.
LEMMA GatedFrame ==
    ASSUME SpeechInv, NEW k, NEW n, Delivered(k, n), Gated(n)
    PROVE  SpeechInv'
  <1>1. /\ vad' = Silent /\ utterance' = <<>> /\ sent' = sent
        /\ \A m \in FrameNos : fate'[m] = IF m = n THEN "gated"
                                          ELSE IF m \in ToSet(utterance) THEN "cut" ELSE fate[m]
    BY DEF Gated
  <1>2. ToSet(utterance') = {} /\ Len(utterance') = 0
    BY <1>1 DEF ToSet
  <1>3. MicTypes'
    <2>1. vad' \in [inSpeech : BOOLEAN, silence : 0 .. Hangover]
      BY <1>1, Bounds DEF Silent
    <2>2. utterance' \in Seq(FrameNos) /\ Len(utterance') < MaxUtterance
      BY <1>1, <1>2, Bounds
    <2>3. Len(frames') <= MaxFrames
      BY DeliveredIs
    <2> QED
      BY <1>1, <2>1, <2>2, <2>3, DeliveredIs DEF SpeechInv, MicTypes, Delivered
  <1>4. Collecting'
    BY <1>1 DEF Collecting, Silent
  <1>5. Put' /\ Apart'
    BY <1>1, <1>2, SentSame
  <1>6. Placed'
    <2>1. \A m \in ToSet(utterance) : fate'[m] = "cut"
      BY <1>1, OldFrames, DeliveredIs
    <2>2. fate'[n] = "gated"
      BY <1>1 DEF Delivered
    <2>3. \A m : InSome(m) /\ fate'[m] = "heard" => InSome(m)'
      BY <1>1, <2>1 DEF InSome
    <2> QED
      BY <2>1, <2>2, <2>3, PlacedStays
  <1> QED
    BY <1>3, <1>4, <1>5, <1>6 DEF SpeechInv

\* Whether nobody speaks or the utterance ends, no utterance is left.
LEMMA QuietFrame ==
    ASSUME SpeechInv, NEW n, Delivered("quiet", n), fate' = [fate EXCEPT ![n] = "quiet"],
           utterance' = <<>>, vad' = Silent,
           \/ utterance = <<>> /\ sent' = sent
           \/ /\ utterance # <<>> /\ vad.silence + 1 >= Hangover
              /\ sent' = Append(sent, utterance)
    PROVE  SpeechInv'
  <1>1. /\ utterance \in Seq(FrameNos) /\ fate \in [FrameNos -> Fates] /\ vad.inSpeech \in BOOLEAN
        /\ vad.silence \in 0 .. Hangover /\ sent \in Seq(Seq(FrameNos))
        /\ Len(frames) <= MaxFrames
    BY DEF SpeechInv, MicTypes
  <1>2. /\ \A m \in 1 .. Len(frames) : fate'[m] = fate[m]
        /\ fate'[n] = "quiet"
    BY <1>1, DeliveredIs DEF Delivered
  <1>3. ToSet(utterance') = {} /\ Len(utterance') = 0
    BY DEF ToSet
  <1>4. Collecting'
    BY DEF Collecting, Silent
  <1>5. sent' \in Seq(Seq(FrameNos)) /\ Put' /\ Apart' /\ \A m : InSome(m) => InSome(m)'
    <2>1. CASE utterance = <<>> /\ sent' = sent
      <3>1. Put' /\ Apart'
        BY <1>3, <2>1, SentSame
      <3>2. \A m : InSome(m) => InSome(m)'
        BY <2>1 DEF InSome
      <3> QED
        BY <1>1, <2>1, <3>1, <3>2
    <2>2. CASE utterance # <<>> /\ vad.silence + 1 >= Hangover /\ sent' = Append(sent, utterance)
      <3>1. Going(utterance, vad.silence, frames, fate)
        BY <2>2 DEF SpeechInv, Collecting
      <3>2. /\ frames \in Seq(Kinds) /\ frames' \in Seq(Kinds) /\ Len(frames) <= Len(frames')
            /\ \A m \in 1 .. Len(frames) : frames'[m] = frames[m]
        BY DeliveredIs
      <3>3. /\ Kept(utterance, frames', fate')
            /\ \A s \in Int : Paused(utterance, s, frames) => Paused(utterance, s, frames')
        BY Zenon, <1>1, <1>2, <3>1, <3>2, KeptStays DEF Going
      <3>4. Paused(utterance, vad.silence, frames')
        BY <1>1, <3>1, <3>3, Bounds DEF Going
      <3>5. Paused(utterance, Hangover - 1, frames')
        BY <1>1, <2>2, <3>4, Bounds DEF Paused
      <3>6. Closed(utterance, frames', fate')
        BY <3>3, <3>5 DEF Closed
      <3> QED
        BY <1>1, <2>2, <3>6, SentMore
    <2> QED
      BY <2>1, <2>2
  <1>6. MicTypes'
    <2>1. vad' \in [inSpeech : BOOLEAN, silence : 0 .. Hangover]
      BY Bounds DEF Silent
    <2>2. utterance' \in Seq(FrameNos) /\ Len(utterance') < MaxUtterance
      BY <1>3, Bounds
    <2>3. Len(frames') <= MaxFrames
      BY DeliveredIs
    <2> QED
      BY <1>5, <2>1, <2>2, <2>3, DeliveredIs DEF MicTypes, Delivered
  <1>7. Placed'
    <2>1. \A m \in ToSet(utterance) : fate'[m] \in {fate[m], "cut"}
      BY <1>2, OldFrames
    <2> QED
      BY <1>2, <1>5, <2>1, PlacedStays
  <1> QED
    BY <1>4, <1>5, <1>6, <1>7 DEF SpeechInv

\* The utterance starts or goes on, and is perhaps forced to end.
LEMMA LongerUtterance ==
    ASSUME SpeechInv, NEW k, NEW n, Delivered(k, n), fate' = [fate EXCEPT ![n] = "heard"],
           NEW t \in 0 .. Hangover,
           t = 0 \/ (k = "quiet" /\ utterance # <<>> /\ t = vad.silence + 1),
           \/ /\ Len(Append(utterance, n)) < MaxUtterance
              /\ utterance' = Append(utterance, n) /\ sent' = sent
              /\ vad' = [inSpeech |-> TRUE, silence |-> t]
           \/ /\ Len(Append(utterance, n)) >= MaxUtterance
              /\ utterance' = <<>> /\ sent' = Append(sent, Append(utterance, n))
              /\ vad' = Silent
    PROVE  SpeechInv'
  <1>1. /\ utterance \in Seq(FrameNos) /\ fate \in [FrameNos -> Fates] /\ vad.inSpeech \in BOOLEAN
        /\ vad.silence \in Nat /\ sent \in Seq(Seq(FrameNos)) /\ Len(frames) <= MaxFrames
        /\ utterance # <<>> <=> vad.inSpeech
        /\ k \in Kinds /\ n \in FrameNos /\ n = Len(frames) + 1 /\ frames \in Seq(Kinds)
        /\ frames' = Append(frames, k) /\ t \in Nat
    BY Bounds DEF SpeechInv, MicTypes, Collecting, Delivered
  <1>2. /\ \A m \in 1 .. Len(frames) : fate'[m] = fate[m]
        /\ fate'[n] = "heard"
    BY <1>1, DeliveredIs
  <1>3. PICK x : x = Append(utterance, n)
    OBVIOUS
  <1>4. x \in Seq(FrameNos) /\ x # <<>> /\ ToSet(x) = ToSet(utterance) \cup {n} /\ Len(x) \in Nat
    BY <1>1, <1>3, AppendIs
  <1>5. Going(x, t, frames', fate')
    <2>1. utterance # <<>> => Going(utterance, vad.silence, frames, fate)
      BY <1>1 DEF SpeechInv, Collecting
    <2>2. Going(Append(utterance, n), t, Append(frames, k), [fate EXCEPT ![n] = "heard"])
      BY Zenon, <1>1, <2>1, Grows
    <2> QED
      BY <1>1, <1>3, <2>2
  <1>6. CASE Len(x) < MaxUtterance /\ utterance' = x /\ sent' = sent
             /\ vad' = [inSpeech |-> TRUE, silence |-> t]
    <2>1. MicTypes'
      <3>1. vad' \in [inSpeech : BOOLEAN, silence : 0 .. Hangover] /\ Len(frames') <= MaxFrames
        BY <1>6, DeliveredIs
      <3> QED
        BY <1>1, <1>4, <1>6, <3>1, DeliveredIs DEF MicTypes, Delivered
    <2>2. Collecting'
      BY <1>4, <1>5, <1>6 DEF Collecting
    <2>3. Put' /\ Apart'
      BY <1>4, <1>6, SentSame
    <2>4. Placed'
      <3>1. \A m : InSome(m) => InSome(m)'
        BY <1>4, <1>6 DEF InSome
      <3>2. InSome(n)'
        BY <1>4, <1>6 DEF InSome
      <3>3. \A m \in ToSet(utterance) : fate'[m] \in {fate[m], "cut"}
        BY <1>2, OldFrames
      <3> QED
        BY <1>2, <3>1, <3>2, <3>3, PlacedStays
    <2> QED
      BY <2>1, <2>2, <2>3, <2>4 DEF SpeechInv
  <1>7. CASE Len(x) >= MaxUtterance /\ utterance' = <<>> /\ sent' = Append(sent, x)
             /\ vad' = Silent
    <2>1. Closed(x, frames', fate')
      <3>1. ~(Len(x) < MaxUtterance)
        BY <1>4, <1>7, Bounds
      <3> QED
        BY <1>5, <3>1 DEF Closed, Going
    <2>2. /\ sent' \in Seq(Seq(FrameNos)) /\ Put' /\ Apart'
          /\ \A m : InSome(m) \/ m \in ToSet(x) => InSome(m)'
      BY <1>4, <1>7, <2>1, SentMore
    <2>3. MicTypes'
      <3>1. vad' \in [inSpeech : BOOLEAN, silence : 0 .. Hangover] /\ Len(frames') <= MaxFrames
        BY <1>7, DeliveredIs, Bounds DEF Silent
      <3>2. utterance' \in Seq(FrameNos) /\ Len(utterance') < MaxUtterance
        BY <1>7, Bounds
      <3> QED
        BY <1>1, <2>2, <3>1, <3>2, DeliveredIs DEF MicTypes, Delivered
    <2>4. Collecting'
      BY <1>7 DEF Collecting, Silent
    <2>5. Placed'
      <3>1. \A m \in ToSet(utterance) : fate'[m] \in {fate[m], "cut"}
        BY <1>2, OldFrames
      <3> QED
        BY <1>2, <1>4, <2>2, <3>1, PlacedStays
    <2> QED
      BY <2>2, <2>3, <2>4, <2>5 DEF SpeechInv
  <1> QED
    BY <1>3, <1>6, <1>7

-----------------------------------------------------------------------------
(* The invariant of speech.                                                *)

\* A frame is taken (_vad_loop).
LEMMA FrameKeeps ==
    ASSUME SpeechInv, TurnTypes, Frame
    PROVE  SpeechInv' /\ TurnTypes'
  <1>1. PICK k \in Kinds :
           /\ frames' = Append(frames, k)
           /\ IF k = "bad"
              THEN /\ fate' = [fate EXCEPT ![Len(frames) + 1] = "bad"]
                   /\ UNCHANGED <<latest, vad, utterance, sent>>
              ELSE /\ latest' = Len(frames) + 1
                   /\ IF gate THEN Gated(Len(frames) + 1) ELSE Heard(Len(frames) + 1, k = "speech")
    BY DEF Frame
  <1>2. PICK n : n = Len(frames) + 1
    OBVIOUS
  <1>3. /\ n \in FrameNos /\ fate \in [FrameNos -> Fates] /\ sent \in Seq(Seq(FrameNos))
        /\ utterance \in Seq(FrameNos)
        /\ \A m \in 1 .. Len(frames) : m \in FrameNos /\ m # n
    <2>1. Len(frames) \in Nat /\ Len(frames) < MaxFrames
      BY DEF SpeechInv, MicTypes, Frame
    <2> QED
      BY <1>2, <2>1, Bounds DEF SpeechInv, MicTypes, FrameNos
  <1>4. ASSUME NEW f \in Fates, fate' = [fate EXCEPT ![n] = f], latest' \in {latest, n}
        PROVE  Delivered(k, n)
    BY <1>1, <1>2, <1>3, <1>4 DEF Delivered
  <1>5. CASE k = "bad"
    <2>1. fate' = [fate EXCEPT ![n] = "bad"] /\ UNCHANGED <<latest, vad, utterance, sent>>
      BY <1>1, <1>2, <1>5
    <2>2. Delivered("bad", n)
      BY <1>4, <1>5, <2>1 DEF Fates
    <2>3. SpeechInv'
      BY <2>1, <2>2, BadFrame
    <2> QED
      BY <2>1, <2>3 DEF Frame, TurnTypes, Chunked, replyVars, detectorVars
  <1>6. CASE k # "bad" /\ gate
    <2>1. Gated(n) /\ latest' = n
      BY <1>1, <1>2, <1>6
    <2>2. Delivered(k, n)
      <3>1. fate' \in [FrameNos -> Fates]
        BY <1>3, <2>1 DEF Gated, Fates
      <3>2. \A m \in 1 .. Len(frames) : m \notin ToSet(utterance) => fate'[m] = fate[m]
        BY <1>3, <2>1 DEF Gated
      <3> QED
        BY <1>1, <1>2, <1>3, <2>1, <3>1, <3>2 DEF Delivered
    <2>3. SpeechInv'
      BY <2>1, <2>2, GatedFrame
    <2>4. sent' = sent
      BY <2>1 DEF Gated
    <2> QED
      BY <2>3, <2>4 DEF Frame, TurnTypes, Chunked, replyVars, detectorVars
  <1>7. CASE k # "bad" /\ ~gate
    <2>1. Heard(n, k = "speech") /\ latest' = n
      BY <1>1, <1>2, <1>7
    <2>2. PICK loud \in BOOLEAN : loud <=> k = "speech"
      OBVIOUS
    <2>3. Heard(n, loud)
      <3>1. loud = (k = "speech")
        BY <2>2
      <3> QED
        BY <2>1, <3>1
    <2>4. k = "speech" \/ k = "quiet"
      BY <1>7 DEF Kinds
    <2>5. ASSUME ~loud, utterance = <<>>, utterance' = <<>>, sent' = sent,
                 vad' = Silent, fate' = [fate EXCEPT ![n] = "quiet"]
          PROVE  SpeechInv'
      <3>1. Delivered("quiet", n)
        BY <1>4, <2>1, <2>2, <2>4, <2>5 DEF Fates
      <3> QED
        BY <2>5, <3>1, QuietFrame
    <2>6. ASSUME ~loud, utterance # <<>>, vad.silence + 1 >= Hangover,
                 utterance' = <<>>, sent' = Append(sent, utterance),
                 vad' = Silent, fate' = [fate EXCEPT ![n] = "quiet"]
          PROVE  SpeechInv'
      <3>1. Delivered("quiet", n)
        BY <1>4, <2>1, <2>2, <2>4, <2>6 DEF Fates
      <3> QED
        BY <2>6, <3>1, QuietFrame
    <2>7. ASSUME NEW t \in 0 .. Hangover,
                 \/ t = 0 /\ loud
                 \/ ~loud /\ utterance # <<>> /\ t = vad.silence + 1,
                 fate' = [fate EXCEPT ![n] = "heard"],
                 \/ /\ Len(Append(utterance, n)) < MaxUtterance
                    /\ utterance' = Append(utterance, n) /\ sent' = sent
                    /\ vad' = [inSpeech |-> TRUE, silence |-> t]
                 \/ /\ Len(Append(utterance, n)) >= MaxUtterance
                    /\ utterance' = <<>> /\ sent' = Append(sent, Append(utterance, n))
                    /\ vad' = Silent
          PROVE  SpeechInv'
      <3>1. Delivered(k, n)
        BY <1>4, <2>1, <2>7 DEF Fates
      <3>2. t = 0 \/ (k = "quiet" /\ utterance # <<>> /\ t = vad.silence + 1)
        BY <2>2, <2>4, <2>7
      <3> QED
        BY <2>7, <3>1, <3>2, LongerUtterance
    <2>8. SpeechInv'
      BY Zenon, <1>3, <2>3, <2>5, <2>6, <2>7, HeardIs
    <2>9. TurnTypes'
      <3>1. Len(sent') \in Nat /\ Len(sent) \in Nat /\ Len(sent) <= Len(sent')
        <4>1. \A x \in Seq(FrameNos) : Len(Append(sent, x)) = Len(sent) + 1
          BY <1>3
        <4>2. Append(utterance, n) \in Seq(FrameNos)
          BY <1>3
        <4>3. \/ sent' = sent \/ sent' = Append(sent, utterance)
              \/ sent' = Append(sent, Append(utterance, n))
          BY Zenon, <1>3, <2>3, HeardIs
        <4> QED
          BY <1>3, <4>1, <4>2, <4>3
      <3>2. taken' \in 0 .. MaxCliTurns /\ taken' <= Len(sent')
        BY <3>1, Bounds DEF TurnTypes, Frame
      <3> QED
        BY <3>2 DEF Frame, TurnTypes, Chunked, replyVars, detectorVars
    <2> QED
      BY <2>8, <2>9
  <1> QED
    BY <1>5, <1>6, <1>7

\* What no frame touches stays as it is.
LEMMA SpeechStays == SpeechInv /\ UNCHANGED micVars => SpeechInv'
  <1> SUFFICES ASSUME SpeechInv, UNCHANGED micVars PROVE SpeechInv'
    OBVIOUS
  <1>1. UNCHANGED <<frames, latest, vad, utterance, sent, fate>>
    BY DEF micVars
  <1>2. MicTypes' /\ Collecting' /\ Put' /\ Apart'
    BY <1>1 DEF SpeechInv, MicTypes, Collecting, Put, Apart
  <1>3. Placed'
    BY <1>1 DEF SpeechInv, Placed, InSome
  <1> QED
    BY <1>2, <1>3 DEF SpeechInv

LEMMA SpeechInit == CliInit => SpeechInv
  <1> SUFFICES ASSUME CliInit PROVE SpeechInv
    OBVIOUS
  <1>1. MicTypes
    BY TypeInit, TypesAre
  <1>2. Len(<<>>) = 0 /\ \A i : i \notin 1 .. 0
    OBVIOUS
  <1>3. Collecting
    BY DEF CliInit, Collecting
  <1>4. Put /\ Apart /\ Placed
    BY <1>2 DEF CliInit, Put, Apart, Placed
  <1> QED
    BY <1>1, <1>3, <1>4 DEF SpeechInv

\* Every step keeps both.
LEMMA SpeechStep == SpeechInv /\ TurnTypes /\ [CliNext]_cliVars => SpeechInv' /\ TurnTypes'
  <1> SUFFICES ASSUME SpeechInv, TurnTypes, [CliNext]_cliVars PROVE SpeechInv' /\ TurnTypes'
    OBVIOUS
  <1>1. CASE Frame
    BY <1>1, FrameKeeps
  <1>2. CASE Turn
    BY <1>2, TurnTypesStep, SpeechStays DEF SpeechInv
  <1>3. CASE Player \/ Quit \/ Done \/ UNCHANGED cliVars
    BY <1>3, OtherTypesStep, SpeechStays
  <1> QED
    BY <1>1, <1>2, <1>3 DEF CliNext

-----------------------------------------------------------------------------
(* What the invariant says.                                                *)

\* The first and the last frame of an utterance are its least and its last.
LEMMA EndsOf ==
    ASSUME NEW u \in Seq(FrameNos), u # <<>>, Rising(u)
    PROVE  Least(u) = u[1] /\ Last1(u) = u[Len(u)]
  <1>1. /\ Len(u) \in Nat /\ Len(u) >= 1 /\ DOMAIN u = 1 .. Len(u)
        /\ \A i \in 1 .. Len(u) : u[i] \in Int
    BY Bounds DEF FrameNos
  <1>2. u[1] \in ToSet(u) /\ u[Len(u)] \in ToSet(u)
    BY <1>1 DEF ToSet
  <1>3. \A m \in ToSet(u) : m \in Int /\ u[1] <= m /\ u[Len(u)] >= m
    <2> SUFFICES ASSUME NEW i \in 1 .. Len(u)
                 PROVE  u[i] \in Int /\ u[1] <= u[i] /\ u[Len(u)] >= u[i]
      BY <1>1 DEF ToSet
    <2>1. u[1] <= u[i]
      BY <1>1 DEF Rising
    <2>2. u[Len(u)] >= u[i]
      BY <1>1 DEF Rising
    <2> QED
      BY <1>1, <2>1, <2>2
  <1>4. Least(u) = u[1]
    <2>1. \A m \in ToSet(u) : (\A j \in ToSet(u) : m <= j) => m = u[1]
      BY <1>2, <1>3
    <2> QED
      BY <1>2, <1>3, <2>1 DEF Least
  <1>5. Last1(u) = u[Len(u)]
    <2>1. \A m \in ToSet(u) : (\A j \in ToSet(u) : m >= j) => m = u[Len(u)]
      BY <1>2, <1>3
    <2> QED
      BY <1>2, <1>3, <2>1 DEF Last1
  <1> QED
    BY <1>4, <1>5

LEMMA WholeIs == SpeechInv => UtteranceWhole
  <1> SUFFICES ASSUME SpeechInv, NEW u \in Utterances \ {<<>>}, NEW n \in Least(u) .. Last1(u)
               PROVE  n \in ToSet(u) \/ fate[n] = "bad"
    BY DEF UtteranceWhole
  <1>1. u \in Seq(FrameNos) /\ Kept(u, frames, fate)
    <2>1. CASE u = utterance
      BY <2>1 DEF SpeechInv, MicTypes, Collecting, Going
    <2>2. CASE u \in ToSet(sent)
      <3>1. PICK i \in 1 .. Len(sent) : u = sent[i]
        BY <2>2 DEF ToSet, SpeechInv, MicTypes
      <3> QED
        BY <3>1 DEF SpeechInv, MicTypes, Put, Closed
    <2> QED
      BY <2>1, <2>2 DEF Utterances
  <1>2. n \in u[1] .. u[Len(u)]
    BY <1>1, EndsOf DEF Kept
  <1> QED
    BY <1>1, <1>2 DEF Kept, Unbroken

LEMMA AccountedIs == SpeechInv => SpeechAccounted
  <1> SUFFICES ASSUME SpeechInv, NEW n \in 1 .. Len(frames)
               PROVE  /\ fate[n] = "heard" =>
                            Cardinality({i \in DOMAIN sent : n \in ToSet(sent[i])})
                                + (IF n \in ToSet(utterance) THEN 1 ELSE 0) = 1
                      /\ frames[n] = "speech" => fate[n] \in {"heard", "cut", "gated"}
    BY DEF SpeechAccounted
  <1>1. frames[n] = "speech" => fate[n] \in {"heard", "cut", "gated"}
    BY DEF SpeechInv, Placed
  <1>2. ASSUME fate[n] = "heard"
        PROVE  Cardinality({i \in DOMAIN sent : n \in ToSet(sent[i])})
                   + (IF n \in ToSet(utterance) THEN 1 ELSE 0) = 1
    <2> DEFINE Holding == {i \in DOMAIN sent : n \in ToSet(sent[i])}
    <2>1. DOMAIN sent = 1 .. Len(sent)
      BY DEF SpeechInv, MicTypes
    <2>2. InSome(n)
      BY <1>2 DEF SpeechInv, Placed
    <2>3. CASE n \in ToSet(utterance)
      <3>1. Holding = {}
        BY <2>1, <2>3 DEF SpeechInv, Apart
      <3>2. Cardinality(Holding) = 0
        BY <3>1, FS_EmptySet
      <3> QED
        BY <2>3, <3>2
    <2>4. CASE n \notin ToSet(utterance)
      <3>1. PICK i \in 1 .. Len(sent) : n \in ToSet(sent[i])
        BY <2>2, <2>4 DEF InSome
      <3>2. Holding = {i}
        BY <2>1, <3>1 DEF SpeechInv, Apart
      <3>3. Cardinality(Holding) = 1
        BY <3>2, FS_Singleton
      <3> QED
        BY <2>4, <3>3
    <2> QED
      BY <2>3, <2>4
  <1> QED
    BY <1>1, <1>2

LEMMA SplitIs == SpeechInv => SplitOnlyBySilence
  <1> SUFFICES ASSUME SpeechInv, NEW i \in DOMAIN sent, Len(sent[i]) < MaxUtterance,
                      NEW j \in Len(sent[i]) - Hangover + 2 .. Len(sent[i])
               PROVE  frames[sent[i][j]] = "quiet"
    BY DEF SplitOnlyBySilence
  <1>1. i \in 1 .. Len(sent) /\ sent[i] \in Seq(FrameNos)
    BY DEF SpeechInv, MicTypes
  <1>2. PICK u \in Seq(FrameNos) : u = sent[i]
    BY <1>1
  <1>3. Paused(u, Hangover - 1, frames)
    BY <1>1, <1>2 DEF SpeechInv, Put, Closed
  <1>4. j \in 1 .. Len(u) /\ j > Len(u) - (Hangover - 1)
    BY <1>2, <1>3, Bounds DEF Paused
  <1> QED
    BY <1>2, <1>3, <1>4 DEF Paused

(***************************************************************************)
(* What the user says reaches recognition in whole utterances, every frame *)
(* that was heard in exactly one, and a sentence is split only at a pause  *)
(* of a whole hangover or at the length limit (_vad_loop in app/main.py,   *)
(* VadStateMachine in app/vad.py).                                         *)
(***************************************************************************)
THEOREM SpeechIsKept == CliSpec => []SpeechKept
  <1>1. CliInit => SpeechInv /\ TurnTypes
    BY SpeechInit, TypeInit, TypesAre
  <1>2. SpeechInv /\ TurnTypes /\ [CliNext]_cliVars => (SpeechInv /\ TurnTypes)'
    BY SpeechStep
  <1>3. SpeechInv /\ TurnTypes => SpeechKept
    <2>1. SpeechInv /\ TurnTypes => CliTypeOK
      BY TypesAre DEF SpeechInv, TypeInv
    <2> QED
      BY <2>1, WholeIs, AccountedIs, SplitIs DEF SpeechKept
  <1> QED
    BY <1>1, <1>2, <1>3, PTL DEF CliSpec

-----------------------------------------------------------------------------
(* Interrupting.                                                           *)

\* The detector fires at a poll that ends the turn, so that no turn that still
\* speaks goes on with a detector that has fired.
Obeyed == fired => phase \in {"idle", "gone"}

LEMMA ObeyedStep == TurnTypes /\ Obeyed /\ [CliNext]_cliVars => Obeyed'
  <1> SUFFICES ASSUME TurnTypes, Obeyed, [CliNext]_cliVars PROVE Obeyed'
    OBVIOUS
  <1>1. CASE Frame \/ Player \/ Quit \/ Done \/ UNCHANGED cliVars
    BY <1>1 DEF Frame, Player, PlayStarts, PlayEnds, Quit, Done, cliVars, detectorVars, Obeyed
  <1>2. CASE BeginTurn \/ Listened \/ StreamEnds \/ ReplyDone \/ Committed \/ Leave
    BY <1>2 DEF BeginTurn, Listened, StreamEnds, ReplyDone, Finish, Committed, Leave,
                detectorVars, Obeyed
  <1>3. CASE Delta \/ SpeakChunk \/ Synthesized \/ PollPlayback
    BY <1>3 DEF Delta, SpeakChunk, Synthesized, PollPlayback, Poll, Finish, detectorVars, Obeyed
  <1> QED
    BY <1>1, <1>2, <1>3 DEF CliNext, Turn

\* No thread is told to play by a step before and behind which the detector has
\* fired.
LEMMA NoChunkStarts ==
    ASSUME TurnTypes, Obeyed, [CliNext]_cliVars, fired, fired', NEW t \in CliTurns, player'[t] = "starting"
    PROVE  player[t] = "starting"
  <1>1. phase \in {"idle", "gone"} /\ player \in [CliTurns -> {"none", "starting", "playing"}]
    BY DEF Obeyed, TurnTypes
  <1>2. CASE Frame \/ Quit \/ Done \/ UNCHANGED cliVars
    BY <1>2 DEF Frame, Quit, Done, cliVars
  <1>3. CASE Turn
    BY <1>1, <1>3 DEF Turn, BeginTurn, Listened, Delta, StreamEnds, SpeakChunk, Synthesized,
                      PollPlayback, ReplyDone, Committed, Leave
  <1>4. CASE Player
    BY <1>1, <1>4 DEF Player, PlayStarts, PlayEnds
  <1> QED
    BY <1>2, <1>3, <1>4 DEF CliNext

(***************************************************************************)
(* Once the detector has fired, no further chunk of that turn is given to  *)
(* the player, also not one whose synthesis was under way (_maybe_abort    *)
(* and _speak_chunk in app/pipeline.py).                                   *)
(***************************************************************************)
THEOREM BargeInIsObeyed == CliSpec => BargeInStopsSpeech
  <1>1. CliInit => SpeechInv /\ TurnTypes /\ Obeyed
    BY SpeechInit, TypeInit, TypesAre DEF CliInit, Obeyed
  <1>2. SpeechInv /\ TurnTypes /\ Obeyed /\ [CliNext]_cliVars => (SpeechInv /\ TurnTypes /\ Obeyed)'
    BY SpeechStep, ObeyedStep
  <1>3. SpeechInv /\ TurnTypes /\ Obeyed /\ [CliNext]_cliVars =>
            [fired /\ fired' => \A t \in CliTurns : player'[t] = "starting" => player[t] = "starting"]_cliVars
    BY NoChunkStarts
  <1> QED
    BY <1>1, <1>2, <1>3, PTL DEF CliSpec, BargeInStopsSpeech

=============================================================================
