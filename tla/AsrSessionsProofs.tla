-------------------------- MODULE AsrSessionsProofs ---------------------------
(***************************************************************************)
(* Theorems about what hears the user: AsrSessions (the streaming engine   *)
(* under the web sessions), QwenAsr (the engines of the second recognizer) *)
(* and SileroStream (the windows of the detector), for any sessions, any   *)
(* length of an utterance, any window, any blocks and any model.           *)
(***************************************************************************)
EXTENDS AsrSessions, QwenAsr, SileroStream, FiniteSetTheorems, SequenceTheorems, TLAPS

LEMMA Bounds ==
    /\ Test \notin Connections /\ MaxTyped \in Nat
    /\ MaxSpeech \in Nat /\ MaxSpeech >= 2 /\ Window \in Nat /\ Window >= 1
  BY AsrAssumption

\* The sentinel is not a frame.
LEMMA FramesAre ==
    /\ \A n : AsrFrame(n) # End
    /\ \A n \in 1 .. MaxSpeech : AsrFrame(n) \in Frames
    /\ \A f \in Frames : f # End
  <1>1. \A n : AsrFrame(n) # End
    <2> SUFFICES ASSUME NEW n PROVE AsrFrame(n) # End
      OBVIOUS
    <2>1. AsrFrame(n)[1] = "frame" /\ End[1] = "end"
      BY DEF AsrFrame, End
    <2> QED
      BY <2>1
  <1> QED
    BY <1>1 DEF Frames

(***************************************************************************)
(* What the records of a session are.                                      *)
(***************************************************************************)

Ears == [capturing : BOOLEAN, streaming : BOOLEAN, utterance : Seq(Frames), clip : Seq(Frames)]
Streams == [queue : Seq(Frames \cup {End}), gen : {"none", "wait", "run", "ended"},
            rest : Seq(Frames), text : Seq(Frames), error : BOOLEAN, late : BOOLEAN]

EarTyped(e) == e \in Ears /\ Len(e.utterance) <= MaxSpeech /\ (e.streaming => e.capturing)
StreamTyped(s) == s \in Streams /\ Len(s.rest) < Window

\* The types of what the sessions share and of what is one word for each.
SharedTypes ==
    /\ engine \in {"nemotron", "parakeet", "unloadable", "unavailable"}
    /\ cached \in BOOLEAN
    /\ lock \in {Free} \cup {Caller(u) : u \in Connections \cup {Test}} \cup {Worker(x) : x \in Connections}
    /\ backend \in [Connections -> {"none", "ready", "failed"}]
    /\ call \in [Connections -> {"none", "start", "transcribe", "inference", "finish"}]
    /\ link \in [Connections -> {"live", "mute", "gone"}]
    /\ turn \in [Connections -> BOOLEAN] /\ typed \in 0 .. MaxTyped

Types ==
    /\ SharedTypes
    /\ ear \in [Connections -> Ears] /\ stream \in [Connections -> Streams]
    /\ \A x \in Connections : EarTyped(ear[x]) /\ StreamTyped(stream[x])

LEMMA TypesAreOK == Types => AsrTypeOK
  <1> SUFFICES ASSUME Types PROVE AsrTypeOK
    OBVIOUS
  <1>1. SharedTypes /\ \A x \in Connections : EarTyped(ear[x]) /\ StreamTyped(stream[x])
    BY DEF Types
  <1> QED
    BY <1>1 DEF AsrTypeOK, SharedTypes, EarTyped, StreamTyped, Ears, Streams

(***************************************************************************)
(* What a session has heard.  A stream's text, the frames that wait for a  *)
(* full window and those in its queue are the frames of the utterance, one *)
(* behind the other; only finish() puts the sentinel behind them.          *)
(***************************************************************************)

Held(s) == Len(s.text) + Len(s.rest)

\* The stream has been fed k frames, in their order.
InOrder(s, k) ==
    /\ k >= Held(s)
    /\ \A i \in 1 .. Len(s.text) : s.text[i] = AsrFrame(i)
    /\ \A i \in 1 .. Len(s.rest) : s.rest[i] = AsrFrame(Len(s.text) + i)
    /\ \A i \in 1 .. k - Held(s) : s.queue[i] = AsrFrame(Held(s) + i)

Feeding(s, k) == InOrder(s, k) /\ Len(s.queue) = k - Held(s)

Ending(s, k) ==
    InOrder(s, k) /\ Len(s.queue) = k - Held(s) + 1 /\ s.queue[Len(s.queue)] = End

\* The text is that of k frames.
Decided(s, k) == Len(s.text) = k /\ \A i \in 1 .. k : s.text[i] = AsrFrame(i)

Numbered(u) == \A i \in 1 .. Len(u) : u[i] = AsrFrame(i)

Going(s) == s.gen \in {"wait", "run"}

\* The audio loop e, the stream s and the call c of a session that is connected.
Hearing(e, s, c) ==
    /\ Numbered(e.utterance) /\ Numbered(e.clip)
    /\ e.capturing => Len(e.utterance) < MaxSpeech
    /\ c = "start" => e.capturing /\ ~e.streaming
    /\ e.streaming => /\ c = "none" /\ ~s.late
                      /\ s.error \/ (Going(s) /\ Feeding(s, Len(e.utterance)))
    /\ c = "finish" => /\ ~e.capturing /\ ~s.late
                       /\ \/ s.error
                          \/ Going(s) /\ Ending(s, Len(e.clip))
                          \/ s.gen = "ended" /\ Decided(s, Len(e.clip))
    /\ Going(s) => e.streaming \/ c = "finish" \/ s.late

HeardInv ==
    Types /\ \A x \in Connections : link[x] # "gone" => Hearing(ear[x], stream[x], call[x])

-----------------------------------------------------------------------------
(* A stream that is fed, and that decodes.                                 *)

\* Appending a frame, or the sentinel.
LEMMA AppendIs ==
    ASSUME NEW S, NEW u \in Seq(S), NEW x \in S
    PROVE  /\ Append(u, x) \in Seq(S) /\ Append(u, x) # <<>>
           /\ Len(u) \in Nat /\ Len(Append(u, x)) = Len(u) + 1
           /\ \A i \in 1 .. Len(u) : Append(u, x)[i] = u[i]
           /\ Append(u, x)[Len(u) + 1] = x
  OBVIOUS

\* The next frame of an utterance is captured (FrameCaptured).
LEMMA NumberedMore ==
    ASSUME NEW u \in Seq(Frames), Numbered(u), Len(u) < MaxSpeech
    PROVE  /\ Append(u, AsrFrame(Len(u) + 1)) \in Seq(Frames)
           /\ Numbered(Append(u, AsrFrame(Len(u) + 1)))
           /\ Len(Append(u, AsrFrame(Len(u) + 1))) = Len(u) + 1 /\ Len(u) \in Nat
           /\ AsrFrame(Len(u) + 1) \in Frames
  <1>1. Len(u) \in Nat /\ AsrFrame(Len(u) + 1) \in Frames
    BY Bounds, FramesAre
  <1>2. PICK w : w = Append(u, AsrFrame(Len(u) + 1))
    OBVIOUS
  <1>3. /\ w \in Seq(Frames) /\ Len(w) = Len(u) + 1
        /\ \A i \in 1 .. Len(u) : w[i] = u[i]
        /\ w[Len(u) + 1] = AsrFrame(Len(u) + 1)
    BY <1>1, <1>2, AppendIs
  <1>4. Numbered(w)
    <2>1. \A i \in 1 .. Len(w) : i \in 1 .. Len(u) \/ i = Len(u) + 1
      BY <1>1, <1>3
    <2> QED
      BY <1>3, <2>1 DEF Numbered
  <1> QED
    BY <1>1, <1>2, <1>3, <1>4

LEMMA HeldIs ==
    ASSUME NEW s \in Streams
    PROVE  Held(s) \in Nat /\ Held(s) = Len(s.text) + Len(s.rest)
  BY DEF Held, Streams

\* A stream that is fed the next frame; and one that is ended.
LEMMA Fed ==
    ASSUME NEW s \in Streams, NEW k \in Nat, Feeding(s, k), NEW S, S = Frames \cup {End},
           NEW q \in Seq(S), Len(q) = Len(s.queue) + 1,
           \A i \in 1 .. Len(s.queue) : q[i] = s.queue[i],
           q[Len(s.queue) + 1] = AsrFrame(k + 1)
    PROVE  Feeding([s EXCEPT !.queue = q], k + 1)
  <1>1. PICK r : r = [s EXCEPT !.queue = q]
    OBVIOUS
  <1>2. r.text = s.text /\ r.rest = s.rest /\ r.queue = q
    BY <1>1 DEF Streams
  <1>3. PICK h \in Nat : h = Held(s) /\ h = Held(r) /\ h = Len(s.text) + Len(s.rest)
    BY <1>2 DEF Held, Streams
  <1>4. k >= h /\ Len(s.queue) = k - h /\ Len(q) = k - h + 1
    BY <1>3 DEF Feeding, InOrder
  <1>5. \A i \in 1 .. k + 1 - h : q[i] = AsrFrame(h + i)
    <2> SUFFICES ASSUME NEW i \in 1 .. k + 1 - h PROVE q[i] = AsrFrame(h + i)
      OBVIOUS
    <2>1. CASE i = k - h + 1
      <3>1. h + i = k + 1
        BY <2>1
      <3> QED
        BY <1>4, <2>1, <3>1
    <2>2. CASE i # k - h + 1
      <3>1. i \in 1 .. k - h
        BY <1>4, <2>2
      <3> QED
        BY <1>3, <1>4, <3>1 DEF Feeding, InOrder
    <2> QED
      BY <2>1, <2>2
  <1>6. PICK j \in Nat : j = k + 1
    OBVIOUS
  <1>7. j >= Held(r) /\ Len(r.queue) = j - Held(r)
    <2>1. h = Held(r) /\ Len(r.queue) = Len(q)
      BY <1>2, <1>3
    <2>2. j >= h /\ Len(q) = j - h
      BY <1>4, <1>6
    <2> QED
      BY <2>1, <2>2
  <1>8. /\ \A i \in 1 .. Len(r.text) : r.text[i] = AsrFrame(i)
        /\ \A i \in 1 .. Len(r.rest) : r.rest[i] = AsrFrame(Len(r.text) + i)
    BY <1>2 DEF Feeding, InOrder
  <1>9. \A i \in 1 .. j - Held(r) : r.queue[i] = AsrFrame(Held(r) + i)
    <2>1. \A i \in 1 .. j - h : q[i] = AsrFrame(h + i)
      BY <1>5, <1>6
    <2> QED
      BY Zenon, <1>2, <1>3, <2>1
  <1>10. Feeding(r, j)
    BY Zenon, <1>7, <1>8, <1>9 DEF InOrder, Feeding
  <1> QED
    BY <1>1, <1>6, <1>10

LEMMA Ended ==
    ASSUME NEW s \in Streams, NEW k \in Nat, Feeding(s, k), NEW S, S = Frames \cup {End},
           NEW q \in Seq(S), Len(q) = Len(s.queue) + 1,
           \A i \in 1 .. Len(s.queue) : q[i] = s.queue[i],
           q[Len(s.queue) + 1] = End
    PROVE  Ending([s EXCEPT !.queue = q], k)
  <1>1. PICK r : r = [s EXCEPT !.queue = q]
    OBVIOUS
  <1>2. r.text = s.text /\ r.rest = s.rest /\ r.queue = q
    BY <1>1 DEF Streams
  <1>3. PICK h \in Nat : h = Held(s) /\ h = Held(r) /\ h = Len(s.text) + Len(s.rest)
    BY <1>2 DEF Held, Streams
  <1>4. k >= h /\ Len(s.queue) = k - h /\ Len(q) = k - h + 1
    BY <1>3 DEF Feeding, InOrder
  <1>5. \A i \in 1 .. k - h : q[i] = AsrFrame(h + i)
    BY <1>3, <1>4 DEF Feeding, InOrder
  <1>6. InOrder(r, k)
    BY <1>2, <1>3, <1>4, <1>5 DEF Feeding, InOrder
  <1> QED
    BY <1>1, <1>2, <1>3, <1>4, <1>6 DEF Ending

\* The first item of the queue is taken and decoded (_chunk_generator).
Taken(s) == Decoded([s EXCEPT !.queue = Tail(@)], Head(s.queue))

\* r is s behind the item.
Took(s, r, item) ==
    /\ StreamTyped(r) /\ r.late = s.late /\ r.error = s.error /\ r.queue = Tail(s.queue)
    /\ item \in Frames \cup {End}
    /\ \/ item = End /\ r.text = s.text \o s.rest /\ r.rest = <<>> /\ r.gen = "ended"
       \/ /\ item # End /\ r.gen = "run"
          /\ r.text = s.text \o Append(s.rest, item) /\ r.rest = <<>>
       \/ /\ item # End /\ r.gen = "run"
          /\ r.text = s.text /\ r.rest = Append(s.rest, item)

LEMMA DecodedIs ==
    ASSUME NEW s \in Streams, Len(s.rest) < Window, s.queue # <<>>, s.gen = "run"
    PROVE  Took(s, Taken(s), Head(s.queue))
  <1>0. PICK item, r : item = Head(s.queue) /\ r = Decoded([s EXCEPT !.queue = Tail(@)], item)
    OBVIOUS
  <1> SUFFICES Took(s, r, item)
    BY <1>0 DEF Taken
  <1>1. /\ s.queue \in Seq(Frames \cup {End}) /\ s.rest \in Seq(Frames) /\ s.text \in Seq(Frames)
        /\ s.gen \in {"none", "wait", "run", "ended"} /\ s.error \in BOOLEAN /\ s.late \in BOOLEAN
    BY DEF Streams
  <1>2. PICK q : q = Tail(s.queue)
    OBVIOUS
  <1>3. q \in Seq(Frames \cup {End}) /\ item \in Frames \cup {End}
    BY <1>0, <1>1, <1>2, HeadTailProperties
  <1>4. PICK p : p = [s EXCEPT !.queue = q]
    OBVIOUS
  <1>5. /\ p \in Streams /\ p.queue = q /\ p.rest = s.rest /\ p.text = s.text /\ p.gen = s.gen
        /\ p.error = s.error /\ p.late = s.late
    BY <1>1, <1>3, <1>4 DEF Streams
  <1>6. r = Decoded(p, item)
    BY <1>0, <1>2, <1>4
  <1>7. CASE item = End
    <2>1. r = [p EXCEPT !.text = p.text \o p.rest, !.rest = <<>>, !.gen = "ended"]
      BY <1>6, <1>7 DEF Decoded
    <2>2. PICK w : w = s.text \o s.rest
      OBVIOUS
    <2>3. w \in Seq(Frames) /\ <<>> \in Seq(Frames) /\ Len(<<>>) = 0
      BY <1>1, <2>2, ConcatProperties
    <2>4. r = [p EXCEPT !.text = w, !.rest = <<>>, !.gen = "ended"]
      BY <1>5, <2>1, <2>2
    <2>5. r \in Streams
      BY <1>5, <2>3, <2>4 DEF Streams
    <2>6. /\ r.text = w /\ r.rest = <<>> /\ r.gen = "ended"
          /\ r.late = s.late /\ r.error = s.error /\ r.queue = q
      BY <1>5, <2>4 DEF Streams
    <2>7. Len(r.rest) < Window
      BY <2>3, <2>6, Bounds
    <2> QED
      BY <1>2, <1>3, <1>7, <2>2, <2>5, <2>6, <2>7 DEF StreamTyped, Took
  <1>8. CASE item # End
    <2>1. PICK a : a = Append(s.rest, item)
      OBVIOUS
    <2>2. item \in Frames /\ a \in Seq(Frames) /\ Len(a) = Len(s.rest) + 1 /\ Len(s.rest) \in Nat
      BY <1>1, <1>3, <1>8, <2>1, AppendIs
    <2>3. CASE Len(a) = Window
      <3>1. r = [p EXCEPT !.text = p.text \o a, !.rest = <<>>]
        BY <1>5, <1>6, <1>8, <2>1, <2>3 DEF Decoded
      <3>2. PICK w : w = s.text \o a
        OBVIOUS
      <3>3. w \in Seq(Frames) /\ <<>> \in Seq(Frames) /\ Len(<<>>) = 0
        BY <1>1, <2>2, <3>2, ConcatProperties
      <3>4. r = [p EXCEPT !.text = w, !.rest = <<>>]
        BY <1>5, <3>1, <3>2
      <3>5. r \in Streams
        BY <1>5, <3>3, <3>4 DEF Streams
      <3>6. /\ r.text = w /\ r.rest = <<>> /\ r.gen = "run"
            /\ r.late = s.late /\ r.error = s.error /\ r.queue = q
        BY <1>5, <3>4 DEF Streams
      <3>7. Len(r.rest) < Window
        BY <3>3, <3>6, Bounds
      <3> QED
        BY <1>2, <1>3, <1>8, <2>1, <3>2, <3>5, <3>6, <3>7 DEF StreamTyped, Took
    <2>4. CASE Len(a) # Window
      <3>1. r = [p EXCEPT !.rest = a]
        BY <1>5, <1>6, <1>8, <2>1, <2>4 DEF Decoded
      <3>2. r \in Streams
        BY <1>5, <2>2, <3>1 DEF Streams
      <3>3. /\ r.text = s.text /\ r.rest = a /\ r.gen = "run"
            /\ r.late = s.late /\ r.error = s.error /\ r.queue = q
        BY <1>5, <3>1 DEF Streams
      <3>4. Len(r.rest) < Window
        <4>1. Len(s.rest) < Window /\ Len(a) < Window
          BY <2>2, <2>4, Bounds
        <4> QED
          BY <3>3, <4>1
      <3> QED
        BY <1>2, <1>3, <1>8, <2>1, <3>2, <3>3, <3>4 DEF StreamTyped, Took
    <2> QED
      BY <2>3, <2>4
  <1> QED
    BY <1>7, <1>8

\* So the frames stay in order, and the sentinel leaves the whole text.
LEMMA DecodedOrder ==
    ASSUME NEW s \in Streams, Len(s.rest) < Window, s.queue # <<>>, s.gen = "run",
           NEW k \in Nat
    PROVE  /\ Feeding(s, k) => Feeding(Taken(s), k) /\ Taken(s).gen = "run"
           /\ Ending(s, k) => \/ Ending(Taken(s), k) /\ Taken(s).gen = "run"
                              \/ Decided(Taken(s), k) /\ Taken(s).gen = "ended"
  <1>a. PICK item, r : item = Head(s.queue) /\ r = Taken(s)
    OBVIOUS
  <1> SUFFICES /\ Feeding(s, k) => Feeding(r, k) /\ r.gen = "run"
               /\ Ending(s, k) => \/ Ending(r, k) /\ r.gen = "run"
                                  \/ Decided(r, k) /\ r.gen = "ended"
    BY <1>a
  <1>b. Took(s, r, item)
    BY <1>a, DecodedIs
  <1>0. \/ item = End /\ r.text = s.text \o s.rest /\ r.rest = <<>> /\ r.gen = "ended"
        \/ /\ item # End /\ r.gen = "run"
           /\ r.text = s.text \o Append(s.rest, item) /\ r.rest = <<>>
        \/ /\ item # End /\ r.gen = "run"
           /\ r.text = s.text /\ r.rest = Append(s.rest, item)
    BY <1>b DEF Took
  <1>1. /\ s.queue \in Seq(Frames \cup {End}) /\ s.rest \in Seq(Frames) /\ s.text \in Seq(Frames)
    BY DEF Streams
  <1>2. PICK q \in Seq(Frames \cup {End}), Q \in Nat, h \in Nat, T \in Nat, R \in Nat :
           q = s.queue /\ Q = Len(s.queue) /\ h = Held(s) /\ T = Len(s.text) /\ R = Len(s.rest)
    <2>1. Len(s.queue) \in Nat /\ Len(s.text) \in Nat /\ Len(s.rest) \in Nat
      BY <1>1
    <2>2. Held(s) \in Nat
      BY HeldIs
    <2> QED
      BY <1>1, <2>1, <2>2
  <1>3. h = T + R /\ Q >= 1
    BY <1>1, <1>2 DEF Held
  <1>4. /\ item = q[1] /\ Len(r.queue) = Q - 1 /\ r.queue \in Seq(Frames \cup {End})
        /\ \A i \in 1 .. Q - 1 : r.queue[i] = q[i + 1]
    <2>1. r.queue = Tail(s.queue)
      BY <1>b DEF Took
    <2>2. item = q[1]
      BY <1>1, <1>2, <1>a
    <2>3. /\ Tail(s.queue) \in Seq(Frames \cup {End}) /\ Len(Tail(s.queue)) = Len(s.queue) - 1
          /\ \A i \in 1 .. Len(Tail(s.queue)) : Tail(s.queue)[i] = s.queue[i + 1]
      BY <1>1, HeadTailProperties
    <2> QED
      BY <1>2, <2>1, <2>2, <2>3
  \* A frame is decoded.
  <1>5. ASSUME InOrder(s, k), k > h, Q >= k - h
        PROVE  InOrder(r, k) /\ Held(r) = h + 1 /\ r.gen = "run"
    <2>1. item = AsrFrame(h + 1) /\ item # End
      <3>1. 1 \in 1 .. k - h
        BY <1>5
      <3> QED
        BY <1>2, <1>4, <1>5, <3>1, FramesAre DEF InOrder
    <2>2. item \in Frames
      BY <2>1, <1>b DEF Took
    <2>3. PICK a : a = Append(s.rest, item)
      OBVIOUS
    <2>4. /\ a \in Seq(Frames) /\ Len(a) = R + 1
          /\ \A i \in 1 .. R : a[i] = s.rest[i]
          /\ a[R + 1] = item
      BY <1>1, <1>2, <2>2, <2>3, AppendIs
    <2>5. \A i \in 1 .. R + 1 : a[i] = AsrFrame(T + i)
      <3> SUFFICES ASSUME NEW i \in 1 .. R + 1 PROVE a[i] = AsrFrame(T + i)
        OBVIOUS
      <3>1. CASE i = R + 1
        <4>1. T + i = h + 1
          BY <1>3, <3>1
        <4> QED
          BY <2>1, <2>4, <3>1, <4>1
      <3>2. CASE i # R + 1
        <4>1. i \in 1 .. R
          BY <3>2
        <4> QED
          BY <1>2, <1>5, <2>4, <4>1 DEF InOrder
      <3> QED
        BY <3>1, <3>2
    <2>6. \A i \in 1 .. T : s.text[i] = AsrFrame(i)
      BY <1>2, <1>5 DEF InOrder
    <2>7. \A i \in 1 .. k - (h + 1) : r.queue[i] = AsrFrame(h + 1 + i)
      <3> SUFFICES ASSUME NEW i \in 1 .. k - (h + 1) PROVE r.queue[i] = AsrFrame(h + 1 + i)
        OBVIOUS
      <3>1. i + 1 \in 1 .. k - h /\ h + (i + 1) = h + 1 + i
        OBVIOUS
      <3>2. q[i + 1] = AsrFrame(h + 1 + i)
        BY <1>2, <1>5, <3>1 DEF InOrder
      <3>3. i \in 1 .. Q - 1
        BY <1>5
      <3> QED
        BY <1>4, <3>2, <3>3
    <2>8. CASE r.text = s.text \o a /\ r.rest = <<>>
      <3>1. PICK w : w = r.text
        OBVIOUS
      <3>2. /\ Len(w) = h + 1 /\ Len(r.rest) = 0
            /\ \A i \in 1 .. T + (R + 1) : w[i] = IF i <= T THEN s.text[i] ELSE a[i - T]
        <4>1. w = s.text \o a /\ Len(r.rest) = 0
          BY <2>8, <3>1
        <4>2. /\ Len(w) = Len(s.text) + Len(a)
              /\ \A i \in 1 .. Len(s.text) + Len(a) :
                    w[i] = IF i <= Len(s.text) THEN s.text[i] ELSE a[i - Len(s.text)]
          <5>1. PICK p \in Seq(Frames) : p = s.text
            BY <1>1
          <5>2. /\ Len(p \o a) = Len(p) + Len(a)
                /\ \A i \in 1 .. Len(p) + Len(a) :
                      (p \o a)[i] = IF i <= Len(p) THEN p[i] ELSE a[i - Len(p)]
            BY <2>4, ConcatProperties
          <5> QED
            BY <4>1, <5>1, <5>2
        <4>3. Len(s.text) = T /\ Len(a) = R + 1
          BY <1>2, <2>4
        <4> QED
          BY SMTT(30), <1>3, <4>1, <4>2, <4>3
      <3>3. \A i \in 1 .. h + 1 : w[i] = AsrFrame(i)
        <4> SUFFICES ASSUME NEW i \in 1 .. h + 1 PROVE w[i] = AsrFrame(i)
          OBVIOUS
        <4>1. CASE i <= T
          BY <1>3, <2>6, <3>2, <4>1
        <4>2. CASE ~(i <= T)
          <5>1. i - T \in 1 .. R + 1 /\ T + (i - T) = i
            BY <1>3, <4>2
          <5>2. a[i - T] = AsrFrame(i)
            BY <2>5, <5>1
          <5> QED
            BY <1>3, <3>2, <4>2, <5>2
        <4> QED
          BY <4>1, <4>2
      <3>4. Held(r) = h + 1 /\ k >= h + 1
        <4>1. Held(r) = Len(w) + Len(r.rest)
          BY <3>1 DEF Held
        <4>2. k >= h + 1
          BY <1>5
        <4> QED
          BY <3>2, <4>1, <4>2
      <3>5. r.gen = "run"
        BY <2>1, <1>b DEF Took
      <3>6. /\ \A i \in 1 .. Len(r.text) : r.text[i] = AsrFrame(i)
            /\ \A i \in 1 .. Len(r.rest) : r.rest[i] = AsrFrame(Len(r.text) + i)
        <4>1. Len(w) = h + 1 /\ \A i : i \notin 1 .. 0
          BY <3>2
        <4>2. Len(r.rest) = 0
          BY <3>2
        <4> QED
          BY Zenon, <3>1, <3>3, <4>1, <4>2
      <3>7. k >= Held(r) /\ \A i \in 1 .. k - Held(r) : r.queue[i] = AsrFrame(Held(r) + i)
        BY <2>7, <3>4
      <3> QED
        BY Zenon, <3>4, <3>5, <3>6, <3>7 DEF InOrder
    <2>9. CASE r.text = s.text /\ r.rest = a
      <3>1. Held(r) = h + 1 /\ k >= h + 1
        <4>1. Held(r) = Len(s.text) + Len(a)
          BY <2>9 DEF Held
        <4>2. k >= h + 1
          BY <1>5
        <4>3. Len(s.text) = T /\ Len(a) = R + 1
          BY <1>2, <2>4
        <4> QED
          BY <1>3, <4>1, <4>2, <4>3
      <3>2. r.gen = "run"
        BY <2>1, <1>b DEF Took
      <3>3. /\ \A i \in 1 .. Len(r.text) : r.text[i] = AsrFrame(i)
            /\ \A i \in 1 .. Len(r.rest) : r.rest[i] = AsrFrame(Len(r.text) + i)
        BY <1>2, <2>4, <2>5, <2>6, <2>9
      <3>4. k >= Held(r) /\ \A i \in 1 .. k - Held(r) : r.queue[i] = AsrFrame(Held(r) + i)
        BY <2>7, <3>1
      <3> QED
        BY Zenon, <3>1, <3>2, <3>3, <3>4 DEF InOrder
    <2>10. \/ r.text = s.text \o Append(s.rest, item) /\ r.rest = <<>>
           \/ r.text = s.text /\ r.rest = Append(s.rest, item)
      BY <1>0, <2>1
    <2> QED
      BY <2>3, <2>8, <2>9, <2>10
  \* The sentinel is taken: the rest is decoded too.
  <1>6. ASSUME InOrder(s, k), k = h, item = End
        PROVE  Decided(r, k) /\ r.gen = "ended"
    <2>1. r.text = s.text \o s.rest /\ r.gen = "ended"
      BY <1>6, <1>b DEF Took
    <2>2. PICK w : w = r.text
      OBVIOUS
    <2>3. /\ Len(w) = k
          /\ \A i \in 1 .. T + R : w[i] = IF i <= T THEN s.text[i] ELSE s.rest[i - T]
      <3>1. w = s.text \o s.rest
        BY <2>1, <2>2
      <3>2. /\ Len(w) = Len(s.text) + Len(s.rest)
            /\ \A i \in 1 .. Len(s.text) + Len(s.rest) :
                  w[i] = IF i <= Len(s.text) THEN s.text[i] ELSE s.rest[i - Len(s.text)]
        BY <1>1, <3>1, ConcatProperties
      <3> QED
        BY <1>2, <1>3, <1>6, <3>2
    <2>4. \A i \in 1 .. k : w[i] = AsrFrame(i)
      <3> SUFFICES ASSUME NEW i \in 1 .. k PROVE w[i] = AsrFrame(i)
        OBVIOUS
      <3>1. CASE i <= T
        <4>1. \A j \in 1 .. T : s.text[j] = AsrFrame(j)
          BY <1>2, <1>6 DEF InOrder
        <4>2. i \in 1 .. T /\ i \in 1 .. T + R
          BY <3>1
        <4> QED
          BY <2>3, <3>1, <4>1, <4>2
      <3>2. CASE ~(i <= T)
        <4>1. i - T \in 1 .. R /\ T + (i - T) = i
          BY <1>3, <1>6, <3>2
        <4>2. s.rest[i - T] = AsrFrame(i)
          <5>1. \A j \in 1 .. R : s.rest[j] = AsrFrame(T + j)
            BY <1>2, <1>6 DEF InOrder
          <5> QED
            BY <4>1, <5>1
        <4> QED
          BY <1>3, <1>6, <2>3, <3>2, <4>2
      <3> QED
        BY <3>1, <3>2
    <2> QED
      BY <2>1, <2>2, <2>3, <2>4 DEF Decided
  <1>7. ASSUME Feeding(s, k) PROVE Feeding(r, k) /\ r.gen = "run"
    <2>1. InOrder(s, k) /\ Q = k - h
      BY <1>2, <1>7 DEF Feeding
    <2>3. k > h /\ Q >= k - h
      BY <1>3, <2>1
    <2>2. InOrder(r, k) /\ Held(r) = h + 1 /\ r.gen = "run"
      BY <1>5, <2>1, <2>3
    <2>4. Len(r.queue) = k - Held(r)
      BY <1>4, <2>1, <2>2
    <2> QED
      BY <2>2, <2>4 DEF Feeding
  <1>8. ASSUME Ending(s, k)
        PROVE  (Ending(r, k) /\ r.gen = "run") \/ (Decided(r, k) /\ r.gen = "ended")
    <2>1. InOrder(s, k) /\ Q = k - h + 1 /\ k >= h /\ q[Q] = End
      BY <1>2, <1>8 DEF Ending, InOrder
    <2>2. CASE k = h
      <3>1. q[Q] = End
        BY <2>1
      <3>2. Q = 1
        <4>1. k \in Int /\ h \in Int /\ Q = k - h + 1
          BY <1>3, <2>1
        <4> QED
          BY <2>2, <4>1
      <3>3. item = End
        BY <1>4, <3>1, <3>2
      <3> QED
        BY <1>6, <2>1, <2>2, <3>3
    <2>3. CASE k # h
      <3>1. k > h /\ Q >= k - h
        BY <2>1, <2>3
      <3>2. InOrder(r, k) /\ Held(r) = h + 1 /\ r.gen = "run"
        BY <1>5, <2>1, <3>1
      <3>3. Len(r.queue) = k - Held(r) + 1 /\ Q - 1 \in 1 .. Q - 1 /\ Len(r.queue) = Q - 1
            /\ (Q - 1) + 1 = Q
        BY <1>4, <2>1, <3>1, <3>2
      <3>4. r.queue[Len(r.queue)] = End
        BY <1>4, <2>1, <3>3
      <3> QED
        BY <3>2, <3>3, <3>4 DEF Ending
    <2> QED
      BY <2>2, <2>3
  <1> QED
    BY <1>7, <1>8

-----------------------------------------------------------------------------
(* What a step of its audio loop, its stream or its call does to a session. *)

LEMMA NoFrames ==
    /\ <<>> \in Seq(Frames) /\ <<>> \in Seq(Frames \cup {End}) /\ Len(<<>>) = 0 /\ Numbered(<<>>)
    /\ EarTyped(Quiet) /\ StreamTyped(NoStream)
  <1>1. <<>> \in Seq(Frames) /\ <<>> \in Seq(Frames \cup {End}) /\ Len(<<>>) = 0
    OBVIOUS
  <1>2. Numbered(<<>>)
    BY <1>1 DEF Numbered
  <1>3. EarTyped(Quiet)
    BY <1>1, Bounds DEF EarTyped, Ears, Quiet
  <1>4. StreamTyped(NoStream)
    BY <1>1, Bounds DEF StreamTyped, Streams, NoStream
  <1> QED
    BY <1>1, <1>2, <1>3, <1>4

\* The first frame of an utterance.
LEMMA FirstFrame ==
    /\ <<AsrFrame(1)>> \in Seq(Frames) /\ <<AsrFrame(1)>> \in Seq(Frames \cup {End})
    /\ Len(<<AsrFrame(1)>>) = 1 /\ Numbered(<<AsrFrame(1)>>)
  <1>1. AsrFrame(1) \in Frames
    BY FramesAre, Bounds
  <1>2. PICK f \in Frames : f = AsrFrame(1)
    BY <1>1
  <1>3. /\ <<f>> \in Seq(Frames) /\ <<f>> \in Seq(Frames \cup {End}) /\ Len(<<f>>) = 1
        /\ <<f>>[1] = f /\ \A i \in 1 .. 1 : i = 1
    OBVIOUS
  <1>4. Numbered(<<f>>)
    BY <1>2, <1>3 DEF Numbered
  <1> QED
    BY <1>2, <1>3, <1>4

\* A call other than finish() ends, or goes on.
LEMMA CallEnds ==
    ASSUME NEW e, NEW s, NEW c, EarTyped(e), Hearing(e, s, c), c \in {"transcribe", "inference"}
    PROVE  /\ EarTyped([e EXCEPT !.clip = <<>>])
           /\ Hearing(e, s, "inference") /\ Hearing([e EXCEPT !.clip = <<>>], s, "none")
  <1>1. PICK d : d = [e EXCEPT !.clip = <<>>]
    OBVIOUS
  <1>2. /\ d \in Ears /\ d.clip = <<>> /\ d.utterance = e.utterance /\ d.capturing = e.capturing
        /\ d.streaming = e.streaming
    BY <1>1, NoFrames DEF EarTyped, Ears
  <1>3. EarTyped(d)
    BY <1>2 DEF EarTyped
  <1>4. Hearing(d, s, "none") /\ Hearing(e, s, "inference")
    BY <1>2, NoFrames DEF Hearing
  <1> QED
    BY <1>1, <1>3, <1>4

\* finish() returns, or gives up.
LEMMA FinishEnds ==
    ASSUME NEW e, NEW s, EarTyped(e), StreamTyped(s), Hearing(e, s, "finish")
    PROVE  /\ EarTyped([e EXCEPT !.clip = <<>>]) /\ StreamTyped([s EXCEPT !.late = TRUE])
           /\ Hearing([e EXCEPT !.clip = <<>>], NoStream, "none")
           /\ Hearing([e EXCEPT !.clip = <<>>], [s EXCEPT !.late = TRUE], "none")
  <1>1. PICK d, r : d = [e EXCEPT !.clip = <<>>] /\ r = [s EXCEPT !.late = TRUE]
    OBVIOUS
  <1>2. /\ d \in Ears /\ d.clip = <<>> /\ d.utterance = e.utterance /\ d.capturing = e.capturing
        /\ d.streaming = e.streaming /\ (e.streaming => e.capturing)
    BY <1>1, NoFrames DEF EarTyped, Ears
  <1>3. EarTyped(d)
    BY <1>2 DEF EarTyped
  <1>4. r \in Streams /\ r.rest = s.rest /\ r.late = TRUE
    BY <1>1 DEF StreamTyped, Streams
  <1>5. StreamTyped(r)
    BY <1>4 DEF StreamTyped
  <1>6. Hearing(d, NoStream, "none") /\ Hearing(d, r, "none")
    BY <1>2, <1>4, NoFrames DEF Hearing, Going, NoStream
  <1> QED
    BY <1>1, <1>3, <1>5, <1>6

\* start() is refused, or opens a stream; the trigger frame is captured.
LEMMA StartEnds ==
    ASSUME NEW e, NEW s, EarTyped(e), StreamTyped(s)
    PROVE  /\ StreamTyped([NoStream EXCEPT !.queue = <<AsrFrame(1)>>, !.gen = "wait"])
           /\ StreamTyped([NoStream EXCEPT !.queue = <<>>, !.gen = "wait"])
           /\ Hearing(e, s, "start") =>
                /\ \A o \in BOOLEAN :
                      EarTyped([e EXCEPT !.streaming = o, !.utterance = <<AsrFrame(1)>>])
                /\ Hearing([e EXCEPT !.streaming = FALSE, !.utterance = <<AsrFrame(1)>>], s, "none")
                /\ Hearing([e EXCEPT !.streaming = TRUE, !.utterance = <<AsrFrame(1)>>],
                           [NoStream EXCEPT !.queue = <<AsrFrame(1)>>, !.gen = "wait"], "none")
  <1>1. PICK u : u = <<AsrFrame(1)>>
    OBVIOUS
  <1>2. /\ u \in Seq(Frames) /\ u \in Seq(Frames \cup {End}) /\ Len(u) = 1 /\ Numbered(u)
        /\ u[1] = AsrFrame(1)
    BY <1>1, FirstFrame
  <1>3. PICK r, q : r = [NoStream EXCEPT !.queue = u, !.gen = "wait"]
                    /\ q = [NoStream EXCEPT !.queue = <<>>, !.gen = "wait"]
    OBVIOUS
  <1>4. /\ r \in Streams /\ r.rest = <<>> /\ r.text = <<>> /\ r.queue = u /\ r.gen = "wait"
        /\ ~r.late /\ q \in Streams /\ q.rest = <<>>
    BY <1>2, <1>3, NoFrames DEF NoStream, Streams
  <1>5. StreamTyped(r) /\ StreamTyped(q)
    BY <1>4, NoFrames, Bounds DEF StreamTyped
  <1>6. ASSUME Hearing(e, s, "start"), NEW o \in BOOLEAN, NEW d,
               d = [e EXCEPT !.streaming = o, !.utterance = u]
        PROVE  /\ EarTyped(d) /\ d.streaming = o /\ d.utterance = u /\ d.capturing
               /\ d.clip = e.clip
    <2>1. /\ d \in Ears /\ d.streaming = o /\ d.utterance = u /\ d.capturing = e.capturing
          /\ d.clip = e.clip
      BY <1>2, <1>6 DEF EarTyped, Ears
    <2>2. d.capturing
      BY <1>6, <2>1 DEF Hearing
    <2>3. Len(d.utterance) = 1
      BY ZenonT(30), <1>2, <2>1
    <2>4. 1 <= MaxSpeech
      BY Bounds
    <2>5. Len(d.utterance) <= MaxSpeech
      BY ZenonT(30), <2>3, <2>4
    <2> QED
      BY <2>1, <2>2, <2>5 DEF EarTyped
  <1>7. Feeding(r, 1)
    <2>1. Held(r) = 0 /\ Len(r.queue) = 1 - 0 /\ 1 >= 0
      BY <1>2, <1>4, NoFrames DEF Held
    <2>2. \A i \in 1 .. 1 - Held(r) : r.queue[i] = AsrFrame(Held(r) + i)
      BY <1>2, <1>4, <2>1
    <2>3. Len(r.text) = 0 /\ Len(r.rest) = 0 /\ \A i : i \notin 1 .. 0
      BY <1>4, NoFrames
    <2> QED
      BY <2>1, <2>2, <2>3 DEF Feeding, InOrder
  <1>8. ASSUME Hearing(e, s, "start")
        PROVE  /\ Hearing([e EXCEPT !.streaming = FALSE, !.utterance = u], s, "none")
               /\ Hearing([e EXCEPT !.streaming = TRUE, !.utterance = u], r, "none")
    <2>1. PICK c, d : c = [e EXCEPT !.streaming = FALSE, !.utterance = u]
                      /\ d = [e EXCEPT !.streaming = TRUE, !.utterance = u]
      OBVIOUS
    <2>2. /\ ~c.streaming /\ c.utterance = u /\ c.capturing /\ c.clip = e.clip
          /\ d.streaming /\ d.utterance = u /\ d.capturing /\ d.clip = e.clip
      BY <1>6, <1>8, <2>1
    <2>3. Len(u) < MaxSpeech /\ Feeding(r, Len(u))
      BY <1>2, <1>7, Bounds
    <2>4. Hearing(c, s, "none")
      BY <1>2, <1>8, <2>2, <2>3 DEF Hearing
    <2>5. Hearing(d, r, "none")
      BY <1>2, <1>4, <1>8, <2>2, <2>3 DEF Hearing, Going
    <2> QED
      BY <2>1, <2>4, <2>5
  <1> QED
    BY <1>1, <1>3, <1>5, <1>6, <1>8

\* The worker begins, and fails.
LEMMA WorkerChanges ==
    ASSUME NEW e, NEW s, NEW c, StreamTyped(s)
    PROVE  /\ StreamTyped([s EXCEPT !.gen = "run"])
           /\ StreamTyped([s EXCEPT !.gen = "ended", !.error = TRUE, !.rest = <<>>])
           /\ Hearing(e, s, c) =>
                /\ s.gen = "wait" => Hearing(e, [s EXCEPT !.gen = "run"], c)
                /\ s.gen = "run" =>
                      Hearing(e, [s EXCEPT !.gen = "ended", !.error = TRUE, !.rest = <<>>], c)
  <1>1. PICK r, q : /\ r = [s EXCEPT !.gen = "run"]
                    /\ q = [s EXCEPT !.gen = "ended", !.error = TRUE, !.rest = <<>>]
    OBVIOUS
  <1>2. /\ r \in Streams /\ r.gen = "run" /\ r.text = s.text /\ r.rest = s.rest /\ r.queue = s.queue
        /\ r.error = s.error /\ r.late = s.late
        /\ q \in Streams /\ q.gen = "ended" /\ q.error = TRUE /\ q.rest = <<>> /\ q.late = s.late
    BY <1>1, NoFrames DEF StreamTyped, Streams
  <1>3. StreamTyped(r) /\ StreamTyped(q)
    BY <1>2, NoFrames, Bounds DEF StreamTyped
  <1>4. ASSUME NEW k PROVE (Feeding(s, k) => Feeding(r, k)) /\ (Ending(s, k) => Ending(r, k))
    BY ZenonT(60), <1>2 DEF Feeding, Ending, InOrder, Held
  <1>5. ASSUME Hearing(e, s, c), s.gen = "wait" PROVE Hearing(e, r, c)
    BY <1>2, <1>4, <1>5 DEF Hearing, Going
  <1>6. ASSUME Hearing(e, s, c), s.gen = "run" PROVE Hearing(e, q, c)
    BY <1>2, <1>6 DEF Hearing, Going
  <1> QED
    BY <1>1, <1>3, <1>5, <1>6

\* The worker takes an item.
LEMMA WorkerTakes ==
    ASSUME NEW e, NEW s, NEW c, EarTyped(e), StreamTyped(s), Hearing(e, s, c),
           s.gen = "run", ~s.late, s.queue # <<>>
    PROVE  Hearing(e, Taken(s), c)
  <1>1. PICK r : r = Taken(s)
    OBVIOUS
  <1>2. s \in Streams /\ Len(s.rest) < Window
    BY DEF StreamTyped
  <1>3. r.late = s.late /\ r.error = s.error /\ r.gen \in {"run", "ended"}
    BY <1>1, <1>2, DecodedIs DEF Took
  <1>4. Len(e.utterance) \in Nat /\ Len(e.clip) \in Nat
    BY DEF EarTyped, Ears
  <1>5. ASSUME NEW k \in Nat
        PROVE  /\ Feeding(s, k) => Feeding(r, k) /\ r.gen = "run"
               /\ Ending(s, k) => \/ Ending(r, k) /\ r.gen = "run"
                                  \/ Decided(r, k) /\ r.gen = "ended"
    BY <1>1, <1>2, DecodedOrder
  <1>6. e.streaming => s.error \/ (r.gen = "run" /\ Feeding(r, Len(e.utterance)))
    BY <1>4, <1>5 DEF Hearing
  <1>7. c = "finish" => \/ s.error
                        \/ r.gen = "run" /\ Ending(r, Len(e.clip))
                        \/ r.gen = "ended" /\ Decided(r, Len(e.clip))
    BY <1>4, <1>5 DEF Hearing
  <1>8. Hearing(e, r, c)
    BY <1>3, <1>6, <1>7 DEF Hearing, Going
  <1> QED
    BY <1>1, <1>8

\* An utterance starts.
LEMMA SpeechBegins ==
    ASSUME NEW e, NEW s, EarTyped(e), Hearing(e, s, "none"), ~e.capturing
    PROVE  /\ EarTyped([Quiet EXCEPT !.capturing = TRUE, !.utterance = <<>>])
           /\ EarTyped([Quiet EXCEPT !.capturing = TRUE, !.utterance = <<AsrFrame(1)>>])
           /\ Hearing([Quiet EXCEPT !.capturing = TRUE, !.utterance = <<>>], s, "start")
           /\ Hearing([Quiet EXCEPT !.capturing = TRUE, !.utterance = <<AsrFrame(1)>>], s, "none")
  <1>1. PICK u, c, d : /\ u = <<AsrFrame(1)>>
                       /\ c = [Quiet EXCEPT !.capturing = TRUE, !.utterance = <<>>]
                       /\ d = [Quiet EXCEPT !.capturing = TRUE, !.utterance = u]
    OBVIOUS
  <1>2. u \in Seq(Frames) /\ Len(u) = 1 /\ Numbered(u)
    BY <1>1, FirstFrame
  <1>3. /\ c \in Ears /\ c.capturing /\ ~c.streaming /\ c.utterance = <<>> /\ c.clip = <<>>
        /\ d \in Ears /\ d.capturing /\ ~d.streaming /\ d.utterance = u /\ d.clip = <<>>
    BY <1>1, <1>2, NoFrames DEF Quiet, Ears
  <1>4. EarTyped(c) /\ EarTyped(d)
    <2>1. Len(<<>>) <= MaxSpeech /\ Len(u) <= MaxSpeech
      BY <1>2, NoFrames, Bounds
    <2>2. Len(c.utterance) <= MaxSpeech /\ Len(d.utterance) <= MaxSpeech
      BY <1>3, <2>1
    <2> QED
      BY <1>3, <2>2 DEF EarTyped
  <1>5. ~e.streaming
    BY DEF EarTyped
  <1>6. Len(<<>>) < MaxSpeech /\ Len(u) < MaxSpeech
    BY <1>2, NoFrames, Bounds
  <1>7. Hearing(c, s, "start") /\ Hearing(d, s, "none")
    BY <1>2, <1>3, <1>5, <1>6, NoFrames DEF Hearing
  <1> QED
    BY <1>1, <1>4, <1>7

\* A frame of an utterance is captured, and fed when the utterance has a stream;
\* and the utterance ends with it.
LEMMA FrameGoesOn ==
    ASSUME NEW e, NEW s, EarTyped(e), StreamTyped(s), Hearing(e, s, "none"), e.capturing,
           NEW g, g = Append(e.utterance, AsrFrame(Len(e.utterance) + 1)),
           NEW f, f = Append(s.queue, AsrFrame(Len(e.utterance) + 1))
    PROVE  /\ EarTyped([e EXCEPT !.utterance = g])
           /\ StreamTyped([s EXCEPT !.queue = f])
           /\ Len(g) < MaxSpeech =>
                Hearing([e EXCEPT !.utterance = g],
                        IF e.streaming THEN [s EXCEPT !.queue = f] ELSE s, "none")
           /\ EarTyped([Quiet EXCEPT !.clip = g])
           /\ StreamTyped([s EXCEPT !.queue = Append(f, End)])
           /\ e.streaming => Hearing([Quiet EXCEPT !.clip = g],
                                     [s EXCEPT !.queue = Append(f, End)], "finish")
           /\ ~e.streaming => Hearing([Quiet EXCEPT !.clip = g], s, "transcribe")
  <1>1. /\ e.utterance \in Seq(Frames) /\ Numbered(e.utterance) /\ Len(e.utterance) < MaxSpeech
        /\ e \in Ears /\ s \in Streams /\ s.queue \in Seq(Frames \cup {End})
        /\ Len(s.rest) < Window
    BY DEF EarTyped, Ears, Hearing, StreamTyped, Streams
  <1>2. PICK k \in Nat : k = Len(e.utterance)
    BY <1>1
  <1>3. /\ g \in Seq(Frames) /\ Numbered(g) /\ Len(g) = k + 1 /\ AsrFrame(k + 1) \in Frames
        /\ k < MaxSpeech
    BY <1>1, <1>2, NumberedMore
  <1>4. PICK h : h = Append(f, End)
    OBVIOUS
  <1>5. /\ f \in Seq(Frames \cup {End}) /\ Len(f) = Len(s.queue) + 1
        /\ \A i \in 1 .. Len(s.queue) : f[i] = s.queue[i]
        /\ f[Len(s.queue) + 1] = AsrFrame(k + 1)
    <2>1. AsrFrame(k + 1) \in Frames \cup {End} /\ f = Append(s.queue, AsrFrame(k + 1))
      BY <1>2, <1>3
    <2> QED
      BY <1>1, <2>1, AppendIs
  <1>6. /\ h \in Seq(Frames \cup {End}) /\ Len(h) = Len(f) + 1
        /\ \A i \in 1 .. Len(f) : h[i] = f[i]
        /\ h[Len(f) + 1] = End
    BY <1>4, <1>5, AppendIs
  <1>7. PICK a, b, p, q : /\ a = [e EXCEPT !.utterance = g] /\ b = [Quiet EXCEPT !.clip = g]
                          /\ p = [s EXCEPT !.queue = f] /\ q = [s EXCEPT !.queue = h]
    OBVIOUS
  <1>8. /\ a \in Ears /\ a.utterance = g /\ a.clip = e.clip /\ a.capturing /\ a.streaming = e.streaming
        /\ b \in Ears /\ b.utterance = <<>> /\ b.clip = g /\ ~b.capturing /\ ~b.streaming
    BY <1>1, <1>3, <1>7, NoFrames DEF Ears, Quiet
  <1>9. EarTyped(a) /\ EarTyped(b)
    <2>1. Len(a.utterance) <= MaxSpeech /\ Len(b.utterance) <= MaxSpeech
      BY <1>3, <1>8, NoFrames, Bounds
    <2> QED
      BY <1>8, <2>1 DEF EarTyped
  <1>10. /\ p \in Streams /\ p.rest = s.rest /\ p.gen = s.gen /\ p.late = s.late /\ p.error = s.error
         /\ q \in Streams /\ q.rest = s.rest /\ q.gen = s.gen /\ q.late = s.late /\ q.error = s.error
    BY <1>1, <1>5, <1>6, <1>7 DEF Streams
  <1>11. StreamTyped(p) /\ StreamTyped(q)
    BY <1>1, <1>10 DEF StreamTyped
  <1>12. Feeding(s, k) => Feeding(p, k + 1) /\ Ending(q, k + 1)
    <2> SUFFICES ASSUME Feeding(s, k) PROVE Feeding(p, k + 1) /\ Ending(q, k + 1)
      OBVIOUS
    <2>1. Feeding(p, k + 1)
      BY <1>1, <1>5, <1>7, Fed
    <2>2. PICK j \in Nat : j = k + 1
      OBVIOUS
    <2>3. p.queue = f
      BY <1>1, <1>7 DEF Streams
    <2>4. Ending([p EXCEPT !.queue = h], j)
      <3>1. /\ Len(h) = Len(p.queue) + 1 /\ h[Len(p.queue) + 1] = End
            /\ \A i \in 1 .. Len(p.queue) : h[i] = p.queue[i]
        BY <1>6, <2>3
      <3> QED
        BY Zenon, <1>6, <1>10, <2>1, <2>2, <3>1, Ended
    <2>5. q = [p EXCEPT !.queue = h]
      BY <1>1, <1>7 DEF Streams
    <2> QED
      BY <2>1, <2>2, <2>4, <2>5
  <1>13. ASSUME Len(g) < MaxSpeech PROVE Hearing(a, IF e.streaming THEN p ELSE s, "none")
    <2>1. CASE e.streaming
      <3>1. s.error \/ (Going(s) /\ Feeding(p, Len(g)))
        BY <1>2, <1>3, <1>12, <2>1 DEF Hearing
      <3>2. Hearing(a, p, "none")
        BY <1>3, <1>8, <1>10, <1>13, <2>1, <3>1 DEF Hearing, Going
      <3> QED
        BY <2>1, <3>2
    <2>2. CASE ~e.streaming
      BY <1>3, <1>8, <1>13, <2>2 DEF Hearing
    <2> QED
      BY <2>1, <2>2
  <1>14. ASSUME e.streaming PROVE Hearing(b, q, "finish")
    <2>1. s.error \/ (Going(s) /\ Ending(q, Len(g)))
      BY <1>2, <1>3, <1>12, <1>14 DEF Hearing
    <2> QED
      BY <1>3, <1>8, <1>10, <1>14, <2>1, NoFrames DEF Hearing, Going
  <1>15. ASSUME ~e.streaming PROVE Hearing(b, s, "transcribe")
    BY <1>3, <1>8, <1>15, NoFrames DEF Hearing
  <1> QED
    BY <1>4, <1>7, <1>9, <1>11, <1>13, <1>14, <1>15

-----------------------------------------------------------------------------
(* The steps.                                                              *)

\* What the sessions share keeps its types.
LEMMA SharedStep ==
    ASSUME SharedTypes, [AsrNext]_asrVars
    PROVE  SharedTypes'
  <1>1. ASSUME NEW x \in Connections, CallStep(x) PROVE SharedTypes'
    <2>1. CASE Load(x)
      BY <2>1 DEF Load, Present, SharedTypes
    <2>2. CASE TranscribeRejected(x)
      BY <2>2 DEF TranscribeRejected, Outcome, SharedTypes
    <2>3. CASE TranscribeTakesModel(x)
      BY <2>3 DEF TranscribeTakesModel, SharedTypes
    <2>4. CASE TranscribeReturns(x)
      BY <2>4 DEF TranscribeReturns, Outcome, SharedTypes
    <2> QED
      BY <1>1, <2>1, <2>2, <2>3, <2>4 DEF CallStep
  <1>2. ASSUME NEW x \in Connections, ModelStep(x) \/ GenerateFails(x) PROVE SharedTypes'
    BY <1>2 DEF ModelStep, GenerateBegins, Generates, QueueGone, GenerateFails, WorkerFails,
                SharedTypes
  <1>3. ASSUME NEW x \in Connections, StreamStep(x) PROVE SharedTypes'
    BY ZenonT(60), <1>3 DEF StreamStep, StartReturns, FinishReturns, FinishTimesOut, Outcome, SharedTypes
  <1>4. ASSUME NEW x \in Connections, EarStep(x) PROVE SharedTypes'
    BY <1>4 DEF EarStep, FrameDuringTurn, SpeechStarts, FrameCaptured, EndCall, SharedTypes
  <1>5. ASSUME NEW x \in Connections, UserStep(x) PROVE SharedTypes'
    <2>1. CASE TypedTurn(x)
      <3>1. typed' \in 0 .. MaxTyped
        BY <2>1, Bounds DEF TypedTurn, SharedTypes
      <3> QED
        BY <2>1, <3>1 DEF TypedTurn, SharedTypes
    <2>2. CASE ReplyEnds(x) \/ MicOff(x) \/ LinkCloses(x)
      BY ZenonT(60), <2>2 DEF ReplyEnds, MicOff, LinkCloses, SharedTypes
    <2> QED
      BY <1>5, <2>1, <2>2 DEF UserStep
  <1>6. CASE TestTakesModel \/ TestReturns \/ UNCHANGED asrVars
    BY <1>6 DEF TestTakesModel, TestReturns, asrVars, SharedTypes
  <1> QED
    BY <1>1, <1>2, <1>3, <1>4, <1>5, <1>6 DEF AsrNext

\* What is known of a session.
LEMMA SessionIs ==
    ASSUME HeardInv, NEW x \in Connections
    PROVE  /\ EarTyped(ear[x]) /\ StreamTyped(stream[x])
           /\ link[x] # "gone" => Hearing(ear[x], stream[x], call[x])
  BY DEF HeardInv, Types

\* A step of one session, to the audio loop e and the stream s, leaves the others
\* as they are.
LEMMA OneSession ==
    ASSUME HeardInv, SharedTypes', NEW x \in Connections, NEW e, NEW s, EarTyped(e), StreamTyped(s),
           ear' = [ear EXCEPT ![x] = e], stream' = [stream EXCEPT ![x] = s],
           \A y \in Connections : y # x => call'[y] = call[y] /\ link'[y] = link[y],
           link'[x] # "gone" => Hearing(e, s, call'[x])
    PROVE  HeardInv'
  <1>1. ear \in [Connections -> Ears] /\ stream \in [Connections -> Streams] /\ e \in Ears /\ s \in Streams
    BY DEF HeardInv, Types, EarTyped, StreamTyped
  <1>2. ear' \in [Connections -> Ears] /\ stream' \in [Connections -> Streams]
    BY <1>1
  <1>3. /\ ear'[x] = e /\ stream'[x] = s
        /\ \A y \in Connections : y # x => ear'[y] = ear[y] /\ stream'[y] = stream[y]
    BY <1>1
  <1>4. Types'
    <2>1. \A y \in Connections : EarTyped(ear'[y]) /\ StreamTyped(stream'[y])
      BY <1>3, SessionIs
    <2> QED
      BY <1>2, <2>1 DEF Types
  <1>5. ASSUME NEW y \in Connections, link'[y] # "gone" PROVE Hearing(ear'[y], stream'[y], call'[y])
    <2>1. CASE y = x
      <3>1. Hearing(e, s, call'[x])
        BY <1>5, <2>1
      <3> QED
        BY Zenon, <1>3, <2>1, <3>1
    <2>2. CASE y # x
      BY <1>3, <1>5, <2>2, SessionIs
    <2> QED
      BY <2>1, <2>2
  <1> QED
    BY <1>4, <1>5 DEF HeardInv

\* When its audio loop, its stream, or both stay.
LEMMA SameSession ==
    ASSUME HeardInv, NEW x \in Connections
    PROVE  ear = [ear EXCEPT ![x] = ear[x]] /\ stream = [stream EXCEPT ![x] = stream[x]]
  BY DEF HeardInv, Types

\* Calls other than those of a stream.
LEMMA CallKeeps ==
    ASSUME HeardInv, SharedTypes', NEW x \in Connections, CallStep(x)
    PROVE  HeardInv'
  <1>1. call \in [Connections -> {"none", "start", "transcribe", "inference", "finish"}]
    BY DEF HeardInv, Types, SharedTypes
  <1>2. CASE Load(x)
    BY <1>2 DEF Load, HeardInv, Types
  <1>3. CASE TranscribeTakesModel(x)
    <2>1. link' = link /\ ear' = ear /\ stream' = stream /\ call[x] = "transcribe"
          /\ call' = [call EXCEPT ![x] = "inference"]
      BY <1>3 DEF TranscribeTakesModel
    <2>2. link'[x] # "gone" => Hearing(ear[x], stream[x], call'[x])
      BY <1>1, <2>1, SessionIs, CallEnds
    <2> QED
      BY <1>1, <2>1, <2>2, SessionIs, SameSession, OneSession
  <1>4. CASE TranscribeRejected(x) \/ TranscribeReturns(x)
    <2>1. /\ link' = link /\ stream' = stream /\ call[x] \in {"transcribe", "inference"}
          /\ call' = [call EXCEPT ![x] = "none"] /\ ear' = [ear EXCEPT ![x].clip = <<>>]
      BY <1>4 DEF TranscribeRejected, TranscribeReturns, Outcome
    <2>2. PICK e : e = [ear[x] EXCEPT !.clip = <<>>]
      OBVIOUS
    <2>3. ear' = [ear EXCEPT ![x] = e] /\ stream' = [stream EXCEPT ![x] = stream[x]]
      BY <2>1, <2>2, SameSession
    <2>4. EarTyped(e)
      BY <2>2, SessionIs, NoFrames DEF EarTyped, Ears
    <2>5. link'[x] # "gone" => Hearing(e, stream[x], call'[x])
      BY <1>1, <2>1, <2>2, SessionIs, CallEnds
    <2> QED
      BY <1>1, <2>1, <2>3, <2>4, <2>5, SessionIs, OneSession
  <1> QED
    BY <1>2, <1>3, <1>4 DEF CallStep

\* The worker of a stream.
LEMMA WorkerKeeps ==
    ASSUME HeardInv, SharedTypes', NEW x \in Connections, ModelStep(x) \/ GenerateFails(x)
    PROVE  HeardInv'
  <1>1. call' = call /\ link' = link /\ ear' = ear
    BY DEF ModelStep, GenerateBegins, Generates, QueueGone, GenerateFails, WorkerFails
  <1>2. ASSUME NEW s, StreamTyped(s), stream' = [stream EXCEPT ![x] = s],
               link[x] # "gone" => Hearing(ear[x], s, call[x])
        PROVE  HeardInv'
    BY <1>1, <1>2, SessionIs, SameSession, OneSession
  <1>3. CASE GenerateBegins(x)
    <2>1. stream[x].gen = "wait" /\ stream' = [stream EXCEPT ![x].gen = "run"]
      BY <1>3 DEF GenerateBegins
    <2>2. PICK s : s = [stream[x] EXCEPT !.gen = "run"]
      OBVIOUS
    <2>3. stream' = [stream EXCEPT ![x] = s]
      BY <2>1, <2>2
    <2>4. StreamTyped(s) /\ (link[x] # "gone" => Hearing(ear[x], s, call[x]))
      BY <2>1, <2>2, SessionIs, WorkerChanges
    <2> QED
      BY <1>2, <2>3, <2>4
  <1>4. CASE GenerateFails(x) \/ QueueGone(x)
    <2>1. /\ stream[x].gen = "run"
          /\ stream' = [stream EXCEPT ![x].gen = "ended", ![x].error = TRUE, ![x].rest = <<>>]
      BY <1>4 DEF GenerateFails, QueueGone, WorkerFails
    <2>2. PICK s : s = [stream[x] EXCEPT !.gen = "ended", !.error = TRUE, !.rest = <<>>]
      OBVIOUS
    <2>3. stream' = [stream EXCEPT ![x] = s]
      BY <2>1, <2>2 DEF HeardInv, Types
    <2>4. StreamTyped(s) /\ (link[x] # "gone" => Hearing(ear[x], s, call[x]))
      BY <2>1, <2>2, SessionIs, WorkerChanges
    <2> QED
      BY <1>2, <2>3, <2>4
  <1>5. CASE Generates(x)
    <2>1. /\ stream[x].gen = "run" /\ ~stream[x].late /\ stream[x].queue # <<>>
          /\ stream' = [stream EXCEPT ![x] = Taken(stream[x])]
      BY <1>5 DEF Generates, Taken
    <2>2. StreamTyped(Taken(stream[x]))
      BY <2>1, SessionIs, DecodedIs DEF Took, StreamTyped
    <2>3. link[x] # "gone" => Hearing(ear[x], Taken(stream[x]), call[x])
      BY <2>1, SessionIs, WorkerTakes
    <2> QED
      BY <1>2, <2>1, <2>2, <2>3
  <1> QED
    BY <1>3, <1>4, <1>5 DEF ModelStep

\* The stream's calls.
LEMMA StreamKeeps ==
    ASSUME HeardInv, SharedTypes', NEW x \in Connections, StreamStep(x)
    PROVE  HeardInv'
  <1>1. /\ call \in [Connections -> {"none", "start", "transcribe", "inference", "finish"}]
        /\ ear \in [Connections -> Ears] /\ stream \in [Connections -> Streams]
    BY DEF HeardInv, Types, SharedTypes
  <1>2. EarTyped(ear[x]) /\ StreamTyped(stream[x])
        /\ (link[x] # "gone" => Hearing(ear[x], stream[x], call[x]))
    BY SessionIs
  <1>3. CASE StartReturns(x)
    <2>1. call[x] = "start" /\ call' = [call EXCEPT ![x] = "none"] /\ link' = link
      BY <1>3 DEF StartReturns
    <2>2. PICK r, q, d, c : /\ r = [NoStream EXCEPT !.queue = <<AsrFrame(1)>>, !.gen = "wait"]
                            /\ q = [NoStream EXCEPT !.queue = <<>>, !.gen = "wait"]
                            /\ d = [ear[x] EXCEPT !.streaming = TRUE, !.utterance = <<AsrFrame(1)>>]
                            /\ c = [ear[x] EXCEPT !.streaming = FALSE, !.utterance = <<AsrFrame(1)>>]
      OBVIOUS
    <2>3. /\ StreamTyped(r) /\ StreamTyped(q)
          /\ link[x] # "gone" => /\ EarTyped(d) /\ EarTyped(c)
                                 /\ Hearing(c, stream[x], "none") /\ Hearing(d, r, "none")
      BY <1>2, <2>1, <2>2, StartEnds
    <2>4. CASE link[x] = "gone"
      <3>1. ear' = ear /\ stream' \in {stream, [stream EXCEPT ![x] = q]}
        BY <1>3, <2>2, <2>4 DEF StartReturns
      <3>2. PICK s \in {stream[x], q} : stream' = [stream EXCEPT ![x] = s]
        BY <3>1, SameSession
      <3> QED
        BY <1>1, <1>2, <2>1, <2>3, <2>4, <3>1, <3>2, SameSession, OneSession
    <2>5. CASE link[x] # "gone" /\ StartOutcome(x) = "opened"
      <3>1. /\ stream' = [stream EXCEPT ![x] = r]
            /\ ear' = [ear EXCEPT ![x].streaming = TRUE, ![x].utterance = <<AsrFrame(1)>>]
        BY <1>3, <2>2, <2>5 DEF StartReturns
      <3>2. ear' = [ear EXCEPT ![x] = d]
        BY <1>1, <2>2, <3>1
      <3> QED
        BY <1>1, <2>1, <2>3, <2>5, <3>1, <3>2, OneSession
    <2>6. CASE link[x] # "gone" /\ StartOutcome(x) # "opened"
      <3>1. /\ stream' = stream
            /\ ear' = [ear EXCEPT ![x].streaming = FALSE, ![x].utterance = <<AsrFrame(1)>>]
        BY <1>3, <2>6 DEF StartReturns
      <3>2. ear' = [ear EXCEPT ![x] = c] /\ stream' = [stream EXCEPT ![x] = stream[x]]
        BY <1>1, <2>2, <3>1, SameSession
      <3> QED
        BY <1>1, <1>2, <2>1, <2>3, <2>6, <3>2, OneSession
    <2> QED
      BY <2>4, <2>5, <2>6
  <1>4. CASE FinishReturns(x) \/ FinishTimesOut(x)
    <2>1. /\ call[x] = "finish" /\ call' = [call EXCEPT ![x] = "none"] /\ link' = link
          /\ ear' = [ear EXCEPT ![x].clip = <<>>]
          /\ \/ stream' = [stream EXCEPT ![x] = NoStream]
             \/ stream' = [stream EXCEPT ![x].late = TRUE]
      BY <1>4 DEF FinishReturns, FinishTimesOut, Outcome
    <2>2. PICK e, r : e = [ear[x] EXCEPT !.clip = <<>>] /\ r = [stream[x] EXCEPT !.late = TRUE]
      OBVIOUS
    <2>3. ear' = [ear EXCEPT ![x] = e]
      BY <2>1, <2>2
    <2>4. PICK s \in {NoStream, r} : stream' = [stream EXCEPT ![x] = s]
      BY <2>1, <2>2
    <2>5. EarTyped(e) /\ StreamTyped(r)
      BY <1>2, <2>2, NoFrames DEF EarTyped, Ears, StreamTyped, Streams
    <2>6. link[x] # "gone" => Hearing(e, NoStream, "none") /\ Hearing(e, r, "none")
      BY <1>2, <2>1, <2>2, FinishEnds
    <2>7. StreamTyped(s) /\ (link'[x] # "gone" => Hearing(e, s, call'[x]))
      BY <1>1, <2>1, <2>4, <2>5, <2>6, NoFrames
    <2> QED
      BY <1>1, <2>1, <2>3, <2>4, <2>5, <2>7, OneSession
  <1> QED
    BY <1>3, <1>4 DEF StreamStep

\* The audio loop.
LEMMA EarKeeps ==
    ASSUME HeardInv, SharedTypes', NEW x \in Connections, EarStep(x)
    PROVE  HeardInv'
  <1>1. /\ call \in [Connections -> {"none", "start", "transcribe", "inference", "finish"}]
        /\ ear \in [Connections -> Ears] /\ stream \in [Connections -> Streams]
    BY DEF HeardInv, Types, SharedTypes
  <1>2. EarTyped(ear[x]) /\ StreamTyped(stream[x])
        /\ (link[x] # "gone" => Hearing(ear[x], stream[x], call[x]))
    BY SessionIs
  <1>3. link' = link /\ link[x] = "live" /\ call[x] = "none" /\ Hearing(ear[x], stream[x], "none")
    BY <1>2 DEF EarStep, FrameDuringTurn, SpeechStarts, FrameCaptured
  <1>4. CASE FrameDuringTurn(x)
    BY <1>4 DEF FrameDuringTurn, HeardInv, Types
  <1>5. CASE SpeechStarts(x)
    <2>1. ~ear[x].capturing /\ stream' = stream
      BY <1>5 DEF SpeechStarts
    <2>2. PICK c, d : /\ c = [Quiet EXCEPT !.capturing = TRUE, !.utterance = <<>>]
                      /\ d = [Quiet EXCEPT !.capturing = TRUE, !.utterance = <<AsrFrame(1)>>]
      OBVIOUS
    <2>3. /\ EarTyped(c) /\ EarTyped(d)
          /\ Hearing(c, stream[x], "start") /\ Hearing(d, stream[x], "none")
      BY <1>2, <1>3, <2>1, <2>2, SpeechBegins
    <2>4. \/ ear' = [ear EXCEPT ![x] = c] /\ call' = [call EXCEPT ![x] = "start"]
          \/ ear' = [ear EXCEPT ![x] = d] /\ call' = call
      BY <1>5, <2>2 DEF SpeechStarts
    <2>5. PICK e \in {c, d} : /\ ear' = [ear EXCEPT ![x] = e]
                              /\ Hearing(e, stream[x], call'[x])
                              /\ \A y \in Connections : y # x => call'[y] = call[y]
      BY <1>1, <1>3, <2>3, <2>4
    <2> QED
      BY <1>2, <1>3, <2>1, <2>3, <2>5, SameSession, OneSession
  <1>6. CASE FrameCaptured(x)
    <2>1. PICK f, g, h, a, b, p, q :
             /\ g = Append(ear[x].utterance, AsrFrame(Len(ear[x].utterance) + 1))
             /\ f = Append(stream[x].queue, AsrFrame(Len(ear[x].utterance) + 1))
             /\ h = Append(f, End)
             /\ a = [ear[x] EXCEPT !.utterance = g] /\ b = [Quiet EXCEPT !.clip = g]
             /\ p = [stream[x] EXCEPT !.queue = f] /\ q = [stream[x] EXCEPT !.queue = h]
      OBVIOUS
    <2>2. ear[x].capturing
      BY <1>6 DEF FrameCaptured
    <2>3. /\ EarTyped(a) /\ StreamTyped(p) /\ EarTyped(b) /\ StreamTyped(q)
          /\ Len(g) < MaxSpeech => Hearing(a, IF ear[x].streaming THEN p ELSE stream[x], "none")
          /\ ear[x].streaming => Hearing(b, q, "finish")
          /\ ~ear[x].streaming => Hearing(b, stream[x], "transcribe")
      BY <1>2, <1>3, <2>1, <2>2, FrameGoesOn
    <2>4. /\ a.utterance = g /\ a.streaming = ear[x].streaming
          /\ Len(g) \in Nat
      BY <1>1, <1>2, <2>1, <2>3 DEF EarTyped, Ears
    <2>5. \/ /\ ~(Len(g) >= MaxSpeech) /\ ear' = [ear EXCEPT ![x] = a] /\ call' = call
             /\ stream' = IF ear[x].streaming THEN [stream EXCEPT ![x].queue = f] ELSE stream
          \/ /\ ear' = [ear EXCEPT ![x] = b]
             /\ call' = [call EXCEPT ![x] = IF ear[x].streaming THEN "finish" ELSE "transcribe"]
             /\ stream' = IF ear[x].streaming THEN [stream EXCEPT ![x].queue = h] ELSE stream
      <3> DEFINE e2 == [ear[x] EXCEPT !.utterance = Append(@, AsrFrame(Len(ear[x].utterance) + 1))]
      <3>1. e2 = a
        BY <2>1
      <3>2. \/ /\ ~Forced(e2) /\ ear' = [ear EXCEPT ![x] = e2] /\ call' = call
               /\ stream' = IF e2.streaming THEN [stream EXCEPT ![x].queue = f] ELSE stream
            \/ /\ ear' = [ear EXCEPT ![x] = [Quiet EXCEPT !.clip = e2.utterance]]
               /\ stream' = IF EndCall(e2) = "finish"
                              THEN [stream EXCEPT ![x].queue = Sentinel(f)] ELSE stream
               /\ call' = [call EXCEPT ![x] = EndCall(e2)]
        BY <1>6, <2>1 DEF FrameCaptured
      <3> HIDE DEF e2
      <3>3. \/ /\ ~Forced(a) /\ ear' = [ear EXCEPT ![x] = a] /\ call' = call
               /\ stream' = IF a.streaming THEN [stream EXCEPT ![x].queue = f] ELSE stream
            \/ /\ ear' = [ear EXCEPT ![x] = [Quiet EXCEPT !.clip = a.utterance]]
               /\ stream' = IF EndCall(a) = "finish"
                              THEN [stream EXCEPT ![x].queue = Sentinel(f)] ELSE stream
               /\ call' = [call EXCEPT ![x] = EndCall(a)]
        BY Zenon, <3>1, <3>2
      <3> QED
        BY <2>1, <2>4, <3>3 DEF Forced, EndCall, Sentinel
    <2>6. /\ [stream EXCEPT ![x].queue = f] = [stream EXCEPT ![x] = p]
          /\ [stream EXCEPT ![x].queue = h] = [stream EXCEPT ![x] = q]
          /\ stream = [stream EXCEPT ![x] = stream[x]]
      BY <2>1, SameSession
    <2>7. ASSUME NEW e \in {a, b}, NEW s \in {p, q, stream[x]},
                 ear' = [ear EXCEPT ![x] = e], stream' = [stream EXCEPT ![x] = s],
                 Hearing(e, s, call'[x]), \A y \in Connections : y # x => call'[y] = call[y]
          PROVE  HeardInv'
      BY <1>2, <1>3, <2>3, <2>7, OneSession
    <2>8. CASE /\ ~(Len(g) >= MaxSpeech) /\ ear' = [ear EXCEPT ![x] = a] /\ call' = call
               /\ stream' = IF ear[x].streaming THEN [stream EXCEPT ![x].queue = f] ELSE stream
      <3>1. Len(g) < MaxSpeech
        BY <2>4, <2>8, Bounds
      <3>2. CASE ear[x].streaming
        BY <1>3, <2>3, <2>6, <2>7, <2>8, <3>1, <3>2
      <3>3. CASE ~ear[x].streaming
        BY <1>3, <2>3, <2>6, <2>7, <2>8, <3>1, <3>3
      <3> QED
        BY <3>2, <3>3
    <2>9. CASE /\ ear' = [ear EXCEPT ![x] = b]
               /\ call' = [call EXCEPT ![x] = IF ear[x].streaming THEN "finish" ELSE "transcribe"]
               /\ stream' = IF ear[x].streaming THEN [stream EXCEPT ![x].queue = h] ELSE stream
      <3>1. CASE ear[x].streaming
        BY <1>1, <2>3, <2>6, <2>7, <2>9, <3>1
      <3>2. CASE ~ear[x].streaming
        BY <1>1, <2>3, <2>6, <2>7, <2>9, <3>2
      <3> QED
        BY <3>1, <3>2
    <2> QED
      BY <2>5, <2>8, <2>9
  <1> QED
    BY <1>4, <1>5, <1>6 DEF EarStep

\* The user.
LEMMA UserKeeps ==
    ASSUME HeardInv, SharedTypes', NEW x \in Connections, UserStep(x)
    PROVE  HeardInv'
  <1>1. /\ call' = call /\ stream' = stream /\ link \in [Connections -> {"live", "mute", "gone"}]
        /\ ear \in [Connections -> Ears]
    BY DEF UserStep, TypedTurn, ReplyEnds, MicOff, LinkCloses, HeardInv, Types, SharedTypes
  <1>2. CASE TypedTurn(x) \/ ReplyEnds(x) \/ MicOff(x)
    <2>1. ear' = ear /\ \A y \in Connections : link'[y] # "gone" => link[y] # "gone"
      BY <1>1, <1>2 DEF TypedTurn, ReplyEnds, MicOff
    <2> QED
      BY <1>1, <2>1 DEF HeardInv, Types
  <1>3. CASE LinkCloses(x)
    <2>1. ear' = [ear EXCEPT ![x] = Quiet] /\ link' = [link EXCEPT ![x] = "gone"]
      BY <1>3 DEF LinkCloses
    <2> QED
      BY <1>1, <2>1, SessionIs, SameSession, NoFrames, OneSession
  <1> QED
    BY <1>2, <1>3 DEF UserStep

-----------------------------------------------------------------------------
(* The invariant.                                                          *)

LEMMA HeardInit == AsrInit => HeardInv
  <1> SUFFICES ASSUME AsrInit PROVE HeardInv
    OBVIOUS
  <1>1. Quiet \in Ears /\ NoStream \in Streams
    BY NoFrames DEF EarTyped, StreamTyped
  <1>2. 0 \in 0 .. MaxTyped
    BY Bounds
  <1>3. Types
    BY <1>1, <1>2, NoFrames DEF AsrInit, Types, SharedTypes
  <1>4. Hearing(Quiet, NoStream, "none")
    BY NoFrames DEF Hearing, Quiet, NoStream, Going
  <1>5. \A x \in Connections : Hearing(ear[x], stream[x], call[x])
    BY <1>4 DEF AsrInit
  <1> QED
    BY <1>3, <1>5 DEF HeardInv

LEMMA HeardStep == HeardInv /\ [AsrNext]_asrVars => HeardInv'
  <1> SUFFICES ASSUME HeardInv, [AsrNext]_asrVars PROVE HeardInv'
    OBVIOUS
  <1>1. SharedTypes'
    BY SharedStep DEF HeardInv, Types
  <1>2. CASE TestTakesModel \/ TestReturns \/ UNCHANGED asrVars
    <2>1. UNCHANGED <<ear, stream, call, link>>
      BY <1>2 DEF TestTakesModel, TestReturns, asrVars
    <2> QED
      BY <1>1, <2>1 DEF HeardInv, Types
  <1> QED
    BY <1>1, <1>2, CallKeeps, WorkerKeeps, StreamKeeps, EarKeeps, UserKeeps DEF AsrNext

\* The transcript of a stream that has ended is the utterance.
LEMMA DecidedIs ==
    ASSUME NEW s \in Streams, NEW u \in Seq(Frames), Numbered(u), Decided(s, Len(u))
    PROVE  s.text = u
  <1>1. s.text \in Seq(Frames) /\ Len(s.text) = Len(u)
    BY DEF Streams, Decided
  <1>2. \A i \in 1 .. Len(s.text) : s.text[i] = u[i]
    BY <1>1 DEF Decided, Numbered
  <1> QED
    BY <1>1, <1>2, SeqEqual

(***************************************************************************)
(* Whatever fails, times out or disconnects, the transcript that finish()  *)
(* hands to the audio loop is of the whole utterance that has just ended   *)
(* and of nothing else, and no stream outlives its utterance except one    *)
(* that finish() has given up (NemotronEngine in app/asr_nemotron.py and   *)
(* the audio loop in app/web_server.py).                                   *)
(***************************************************************************)
THEOREM UtterancesAreHeard == AsrSpec => []UtterancesHeard
  <1>1. HeardInv => UtterancesHeard
    <2> SUFFICES ASSUME HeardInv PROVE UtterancesHeard
      OBVIOUS
    <2>1. AsrTypeOK
      BY TypesAreOK DEF HeardInv
    <2>2. TranscriptIsUtterance
      <3> SUFFICES ASSUME NEW x \in Connections, call[x] = "finish", link[x] # "gone", ~Alive(x),
                          ~stream[x].error
                   PROVE  stream[x].text = ear[x].clip
        BY DEF TranscriptIsUtterance
      <3>1. Hearing(ear[x], stream[x], "finish") /\ EarTyped(ear[x]) /\ StreamTyped(stream[x])
        BY SessionIs
      <3>2. Decided(stream[x], Len(ear[x].clip)) /\ Numbered(ear[x].clip)
        BY <3>1 DEF Hearing, Alive, Going
      <3> QED
        BY <3>1, <3>2, DecidedIs DEF EarTyped, Ears, StreamTyped
    <2>3. StreamWithinUtterance
      BY SessionIs DEF StreamWithinUtterance, Hearing, Alive, Going
    <2> QED
      BY <2>1, <2>2, <2>3 DEF UtterancesHeard
  <1> QED
    BY <1>1, HeardInit, HeardStep, PTL DEF AsrSpec

(***************************************************************************)
(* The engines over one model.  What keeps the lock is that an engine is   *)
(* in the section exactly while it loads or infers; what keeps an          *)
(* utterance apart is that the buffer holds the samples from the end of    *)
(* the utterance before up to the last one fed, and the partials only such *)
(* of them as the cursor has passed.                                       *)
(***************************************************************************)

QwenStates ==
    [loaded : BOOLEAN, broken : BOOLEAN, fed : Nat, buffer : Seq(Nat), cursor : Nat,
     partials : Seq(Nat)]
QwenCalls ==
    {NoCall} \cup [op : {"feed", "flush", "probe", "oneshot"}, block : Nat,
                   at : {"load", "loading", "ready", "inferring"}]
QwenFinals == [text : Seq(Nat), whole : Seq(Nat), heard : BOOLEAN, after : Nat]

Climbs(seq) == \A i \in DOMAIN seq : \A k \in DOMAIN seq : i < k => seq[i] < seq[k]

\* The number of the last sample before the buffer.
Behind(s) == s.fed - Len(s.buffer)

Heard(s) ==
    /\ Len(s.buffer) <= s.fed /\ s.cursor <= Len(s.buffer)
    /\ \A i \in DOMAIN s.buffer : s.buffer[i] = Behind(s) + i
    /\ Climbs(s.partials)
    /\ \A i \in DOMAIN s.partials :
            Behind(s) < s.partials[i] /\ s.partials[i] <= Behind(s) + s.cursor

FinalHolds(f) ==
    /\ \A i \in DOMAIN f.whole : f.whole[i] = f.whole[1] + i - 1 /\ f.whole[i] > f.after
    /\ ToSet(f.text) \subseteq ToSet(f.whole)
    /\ Climbs(f.text)
    /\ f.heard => f.text # <<>>

\* An engine, its call and its last transcript.
EngineHolds(s, c, f) ==
    /\ s \in QwenStates /\ c \in QwenCalls /\ f \in QwenFinals
    /\ Heard(s) /\ FinalHolds(f) /\ EndOfFinal(f) <= Behind(s)
    /\ c.op = "feed" /\ c.at = "inferring" => c.block = 0 /\ s.cursor + Chunk <= Len(s.buffer)

InSection(c) == c.op # "none" /\ c.at \in {"loading", "inferring"}
Loading(c) == c.op # "none" /\ c.at = "loading"

LockHeld ==
    /\ holders \subseteq Engines
    /\ \A e \in Engines : e \in holders <=> InSection(qwenCall[e])
    /\ \A e \in holders : \A f \in holders : e = f
    /\ \A e \in Engines : Loading(qwenCall[e]) => ~cache

QwenInv ==
    /\ qwen \in [Engines -> QwenStates] /\ qwenCall \in [Engines -> QwenCalls]
    /\ final \in [Engines -> QwenFinals]
    /\ \A e \in Engines : EngineHolds(qwen[e], qwenCall[e], final[e])
    /\ LockHeld

-----------------------------------------------------------------------------
\* Two sequences one after the other.
LEMMA JoinedFacts ==
    ASSUME NEW u \in Seq(Nat), NEW v \in Seq(Nat)
    PROVE  /\ u \o v \in Seq(Nat) /\ Len(u) \in Nat /\ Len(v) \in Nat
           /\ Len(u \o v) = Len(u) + Len(v) /\ DOMAIN (u \o v) = 1 .. Len(u) + Len(v)
           /\ DOMAIN u = 1 .. Len(u) /\ DOMAIN v = 1 .. Len(v)
           /\ \A i \in 1 .. Len(u) : (u \o v)[i] = u[i]
           /\ \A i \in 1 .. Len(v) : (u \o v)[Len(u) + i] = v[i]
  <1>1. u \o v \in Seq(Nat) /\ Len(u) \in Nat /\ Len(v) \in Nat /\ Len(u \o v) = Len(u) + Len(v)
    BY ConcatProperties, LenProperties
  <1>2. DOMAIN (u \o v) = 1 .. Len(u) + Len(v) /\ DOMAIN u = 1 .. Len(u) /\ DOMAIN v = 1 .. Len(v)
    BY <1>1, LenProperties
  <1>3. \A i \in 1 .. Len(u) + Len(v) : (u \o v)[i] = IF i <= Len(u) THEN u[i] ELSE v[i - Len(u)]
    BY ConcatProperties
  <1>4. ASSUME NEW i \in 1 .. Len(v) PROVE (u \o v)[Len(u) + i] = v[i]
    <2>1. Len(u) + i \in 1 .. Len(u) + Len(v) /\ ~(Len(u) + i <= Len(u)) /\ (Len(u) + i) - Len(u) = i
      BY <1>1
    <2> QED
      BY <1>3, <2>1
  <1>5. ASSUME NEW i \in 1 .. Len(u) PROVE (u \o v)[i] = u[i]
    BY <1>1, <1>3
  <1> QED
    BY <1>1, <1>2, <1>4, <1>5

\* Samples that climb, and then others beyond them, climb.
LEMMA ClimbsOn ==
    ASSUME NEW u \in Seq(Nat), NEW v \in Seq(Nat), Climbs(u), Climbs(v), NEW n \in Int,
           \A i \in DOMAIN u : u[i] <= n, \A i \in DOMAIN v : n < v[i]
    PROVE  Climbs(u \o v)
  <1> SUFFICES ASSUME NEW i \in DOMAIN (u \o v), NEW k \in DOMAIN (u \o v), i < k
               PROVE  (u \o v)[i] < (u \o v)[k]
    BY DEF Climbs
  <1> DEFINE m == Len(u)
             w == u \o v
  <1>1. /\ m \in Nat /\ Len(v) \in Nat /\ i \in 1 .. m + Len(v) /\ k \in 1 .. m + Len(v)
        /\ DOMAIN u = 1 .. m /\ DOMAIN v = 1 .. Len(v)
        /\ \A j \in 1 .. m : w[j] = u[j]
        /\ \A j \in 1 .. Len(v) : w[m + j] = v[j]
    BY JoinedFacts
  <1>2. /\ \A j \in 1 .. m : u[j] \in Nat
        /\ \A j \in 1 .. Len(v) : v[j] \in Nat
    BY <1>1, ElementOfSeq
  <1> HIDE DEF m, w
  <1>6. m \in Nat /\ Len(v) \in Nat /\ i \in Nat /\ k \in Nat /\ i < k /\ k <= m + Len(v) /\ 1 <= i
    BY <1>1
  <1>3. CASE k <= m
    <2>1. i \in 1 .. m /\ k \in 1 .. m
      BY <1>1, <1>3
    <2>2. u[i] < u[k]
      BY <1>1, <2>1 DEF Climbs
    <2> QED
      BY <1>1, <2>1, <2>2 DEF w
  <1>4. CASE i <= m /\ m < k
    <2>1. i \in 1 .. m /\ k - m \in 1 .. Len(v) /\ m + (k - m) = k
      BY <1>1, <1>4
    <2>2. u[i] <= n /\ n < v[k - m] /\ u[i] \in Nat /\ v[k - m] \in Nat
      BY <1>1, <1>2, <2>1
    <2>3. w[i] = u[i] /\ w[k] = v[k - m]
      BY <1>1, <2>1
    <2> QED
      BY <2>2, <2>3 DEF w
  <1>5. CASE m < i
    <2>1. /\ i - m \in 1 .. Len(v) /\ k - m \in 1 .. Len(v) /\ i - m < k - m
          /\ m + (i - m) = i /\ m + (k - m) = k
      BY <1>5, <1>6
    <2>2. v[i - m] < v[k - m]
      BY <1>1, <2>1 DEF Climbs
    <2>3. w[i] = v[i - m] /\ w[k] = v[k - m]
      BY <1>1, <2>1
    <2> QED
      BY <2>2, <2>3 DEF w
  <1> QED
    BY <1>1, <1>3, <1>4, <1>5

\* The samples of a block reach the buffer.
LEMMA BlockAdded ==
    ASSUME NEW s \in QwenStates, Heard(s), NEW n \in Nat, NEW r,
           r = WithBlock(s, n)
    PROVE  r \in QwenStates /\ Heard(r) /\ Behind(r) = Behind(s)
  <1> DEFINE v == [i \in 1 .. n |-> s.fed + i]
             b == s.buffer \o v
  <1>1. s.fed \in Nat /\ s.buffer \in Seq(Nat) /\ s.cursor \in Nat /\ s.partials \in Seq(Nat)
    BY DEF QwenStates
  <1>2. v \in Seq(Nat) /\ Len(v) = n /\ \A i \in 1 .. n : v[i] = s.fed + i
    BY <1>1
  <1>3. r = [[s EXCEPT !.buffer = b] EXCEPT !.fed = s.fed + n]
    BY DEF QwenStates, WithBlock
  <1> HIDE DEF v
  <1>4. /\ b \in Seq(Nat) /\ Len(s.buffer) \in Nat /\ Len(b) = Len(s.buffer) + n
        /\ DOMAIN b = 1 .. Len(s.buffer) + n /\ DOMAIN s.buffer = 1 .. Len(s.buffer)
        /\ \A i \in 1 .. Len(s.buffer) : b[i] = s.buffer[i]
        /\ \A i \in 1 .. n : b[Len(s.buffer) + i] = v[i]
    BY <1>1, <1>2, JoinedFacts
  <1> HIDE DEF b
  <1>5. /\ r \in QwenStates /\ r.buffer = b /\ r.fed = s.fed + n /\ r.cursor = s.cursor
        /\ r.partials = s.partials
    <2> DEFINE q == [s EXCEPT !.buffer = b]
    <2>1. q \in QwenStates /\ q.buffer = b /\ q.cursor = s.cursor /\ q.partials = s.partials
      BY <1>4 DEF QwenStates
    <2>2. s.fed + n \in Nat
      BY <1>1
    <2> HIDE DEF q
    <2>3. r = [q EXCEPT !.fed = s.fed + n]
      BY <1>3 DEF q
    <2> QED
      BY <2>1, <2>2, <2>3 DEF QwenStates
  <1>6. Behind(r) = Behind(s) /\ Behind(s) \in Int
    <2>1. PICK x \in Nat, m \in Nat : x = s.fed /\ m = Len(s.buffer)
      BY <1>1, <1>4
    <2>2. (x + n) - (m + n) = x - m /\ x - m \in Int
      OBVIOUS
    <2>3. r.fed = x + n /\ Len(r.buffer) = m + n
      BY <1>4, <1>5, <2>1
    <2> QED
      BY <2>1, <2>2, <2>3 DEF Behind
  <1>7. Len(r.buffer) <= r.fed /\ r.cursor <= Len(r.buffer)
    BY <1>1, <1>4, <1>5 DEF Heard
  <1>8. ASSUME NEW i \in DOMAIN r.buffer PROVE r.buffer[i] = Behind(r) + i
    <2>1. CASE i <= Len(s.buffer)
      <3>1. i \in 1 .. Len(s.buffer) /\ i \in DOMAIN s.buffer
        BY <1>4, <1>5, <2>1
      <3> QED
        BY <1>4, <1>5, <1>6, <3>1 DEF Heard
    <2>2. CASE ~(i <= Len(s.buffer))
      <3>1. PICK m \in Nat : m = Len(s.buffer)
        BY <1>4
      <3>2. i \in Nat /\ i <= m + n /\ ~(i <= m) /\ n \in Nat
        BY <1>4, <1>5, <2>2, <3>1
      <3>3. PICK k \in 1 .. n : i = m + k
        <4>1. i - m \in 1 .. n /\ i = m + (i - m)
          BY <3>1, <3>2
        <4> QED
          BY <4>1
      <3>4. r.buffer[i] = s.fed + k
        BY <1>2, <1>4, <1>5, <3>1, <3>3
      <3>5. Behind(r) = s.fed - m
        BY <1>6, <3>1 DEF Behind
      <3>6. s.fed + k = (s.fed - m) + (m + k)
        <4>1. PICK x \in Nat : x = s.fed
          BY <1>1
        <4>2. x + k = (x - m) + (m + k)
          BY <3>3
        <4> QED
          BY <4>1, <4>2
      <3> QED
        BY <3>3, <3>4, <3>5, <3>6
    <2> QED
      BY <2>1, <2>2
  <1> QED
    BY <1>5, <1>6, <1>7, <1>8 DEF Heard

\* A chunk has been recognised, or skipped.
LEMMA ChunkDone ==
    ASSUME NEW s \in QwenStates, Heard(s), s.cursor + Chunk <= Len(s.buffer), NEW text,
           text \in {SubSeq(s.buffer, s.cursor + 1, s.cursor + Chunk), <<>>}, NEW r,
           r = [s EXCEPT !.cursor = @ + Chunk, !.partials = Joined(@, text)]
    PROVE  r \in QwenStates /\ Heard(r) /\ Behind(r) = Behind(s)
  <1> DEFINE b == s.buffer
             c == s.cursor
             p == s.partials \o text
  <1>1. /\ s.fed \in Nat /\ b \in Seq(Nat) /\ c \in Nat /\ s.partials \in Seq(Nat)
        /\ Len(b) \in Nat /\ DOMAIN b = 1 .. Len(b) /\ Chunk \in Nat
    BY LenProperties, QwenAssumption DEF QwenStates
  <1>13. c + Chunk <= Len(b) /\ Behind(s) = s.fed - Len(b)
    BY DEF Behind
  <1>7. Behind(s) \in Int
    BY <1>1, <1>13
  <1>14. \A i \in DOMAIN b : b[i] = Behind(s) + i
    BY DEF Heard
  <1> DEFINE w == SubSeq(b, c + 1, c + Chunk)
  <1>5. text \in {w, <<>>}
    OBVIOUS
  <1> HIDE DEF b, c
  <1>2. /\ w \in Seq(Nat) /\ Len(w) = Chunk /\ DOMAIN w = 1 .. Chunk
        /\ \A i \in 1 .. Chunk : w[i] = b[c + i]
    <2>1. \A i \in c + 1 .. c + Chunk : b[i] \in Nat
      <3>1. \A i \in c + 1 .. c + Chunk : i \in 1 .. Len(b)
        BY <1>1, <1>13
      <3> QED
        BY <1>1, <3>1, ElementOfSeq
    <2>2. /\ w \in Seq(Nat) /\ Len(w) = Chunk
          /\ \A i \in 1 .. (c + Chunk) - (c + 1) + 1 : w[i] = b[(c + 1) + i - 1]
      <3>1. /\ c + 1 \in Int /\ c + Chunk \in Int
            /\ Chunk = IF c + 1 <= c + Chunk THEN (c + Chunk) - (c + 1) + 1 ELSE 0
        BY <1>1
      <3>2. /\ w \in Seq(Nat)
            /\ Len(w) = IF c + 1 <= c + Chunk THEN (c + Chunk) - (c + 1) + 1 ELSE 0
            /\ \A i \in 1 .. (c + Chunk) - (c + 1) + 1 : w[i] = b[(c + 1) + i - 1]
        BY <2>1, <3>1, SubSeqProperties
      <3> QED
        BY <3>1, <3>2
    <2>3. ASSUME NEW i \in 1 .. Chunk PROVE w[i] = b[c + i]
      <3>1. i \in 1 .. (c + Chunk) - (c + 1) + 1 /\ (c + 1) + i - 1 = c + i
        BY <1>1
      <3> QED
        BY <2>2, <3>1
    <2> QED
      BY <2>2, <2>3, LenProperties
  <1>3. ASSUME NEW i \in 1 .. Chunk PROVE w[i] = Behind(s) + c + i
    <2>1. c + i \in DOMAIN b
      BY <1>1, <1>13
    <2>2. w[i] = Behind(s) + (c + i)
      BY <1>2, <1>14, <2>1
    <2> QED
      BY <1>1, <1>7, <2>2
  <1>4. r = [[s EXCEPT !.cursor = c + Chunk] EXCEPT !.partials = p]
    BY DEF QwenStates, Joined, c
  <1> HIDE DEF w
  <1>6. /\ text \in Seq(Nat)
        /\ \A i \in DOMAIN text : i \in 1 .. Chunk /\ text[i] = Behind(s) + c + i
    <2>1. CASE text = w
      BY <1>2, <1>3, <2>1
    <2>2. CASE text = <<>>
      BY <2>2
    <2> QED
      BY <1>5, <2>1, <2>2
  <1>8. Climbs(p)
    <2>1. Climbs(text)
      <3> SUFFICES ASSUME NEW i \in DOMAIN text, NEW k \in DOMAIN text, i < k
                   PROVE  text[i] < text[k]
        BY DEF Climbs
      <3>1. /\ i \in 1 .. Chunk /\ text[i] = Behind(s) + c + i
            /\ k \in 1 .. Chunk /\ text[k] = Behind(s) + c + k
        BY <1>6
      <3> QED
        BY <1>1, <1>7, <3>1
    <2>2. \A i \in DOMAIN text : Behind(s) + c < text[i]
      BY <1>1, <1>6, <1>7
    <2>3. Behind(s) + c \in Int
      BY <1>1, <1>7
    <2> QED
      BY <1>1, <1>6, <2>1, <2>2, <2>3, ClimbsOn DEF Heard, c
  <1>9. /\ p \in Seq(Nat)
        /\ \A i \in DOMAIN p : Behind(s) < p[i] /\ p[i] <= Behind(s) + (c + Chunk)
    <2> DEFINE m == Len(s.partials)
    <2>1. /\ p \in Seq(Nat) /\ m \in Nat /\ DOMAIN p = 1 .. m + Len(text) /\ Len(text) \in Nat
          /\ DOMAIN s.partials = 1 .. m /\ DOMAIN text = 1 .. Len(text)
          /\ \A i \in 1 .. m : p[i] = s.partials[i]
          /\ \A i \in 1 .. Len(text) : p[m + i] = text[i]
      BY <1>1, <1>6, JoinedFacts
    <2>2. ASSUME NEW i \in DOMAIN p PROVE Behind(s) < p[i] /\ p[i] <= Behind(s) + (c + Chunk)
      <3> HIDE DEF p, m
      <3>1. CASE i <= m
        <4>1. i \in 1 .. m
          BY <2>1, <3>1
        <4>2. p[i] = s.partials[i] /\ i \in DOMAIN s.partials
          BY <2>1, <4>1
        <4>4. p[i] \in Nat
          <5>1. i \in 1 .. Len(s.partials)
            BY <4>1 DEF m
          <5> QED
            BY <1>1, <4>2, <5>1, ElementOfSeq
        <4>3. Behind(s) < s.partials[i] /\ s.partials[i] <= Behind(s) + c
          BY <4>2 DEF Heard, c
        <4> QED
          BY <1>1, <1>7, <4>2, <4>3, <4>4
      <3>2. CASE ~(i <= m)
        <4>1. i - m \in 1 .. Len(text) /\ m + (i - m) = i
          BY <2>1, <3>2
        <4>2. p[i] = text[i - m] /\ i - m \in 1 .. Chunk
          BY <1>6, <2>1, <4>1
        <4>3. p[i] = Behind(s) + c + (i - m)
          BY <1>6, <2>1, <4>1, <4>2
        <4> QED
          BY <1>1, <1>7, <4>2, <4>3
      <3> QED
        BY <3>1, <3>2
    <2> QED
      BY <2>1, <2>2
  <1> HIDE DEF p
  <1>10. /\ r \in QwenStates /\ r.cursor = c + Chunk /\ r.partials = p /\ r.buffer = b /\ r.fed = s.fed
    <2> DEFINE q == [s EXCEPT !.cursor = c + Chunk]
    <2>1. c + Chunk \in Nat
      BY <1>1
    <2>2. q \in QwenStates /\ q.cursor = c + Chunk /\ q.buffer = b /\ q.fed = s.fed
      BY <2>1 DEF QwenStates, b
    <2> HIDE DEF q
    <2>3. r = [q EXCEPT !.partials = p]
      BY <1>4 DEF q
    <2> QED
      BY <1>9, <2>2, <2>3 DEF QwenStates
  <1>11. Behind(r) = Behind(s)
    BY <1>10 DEF Behind, b
  <1>12. Len(r.buffer) <= r.fed /\ r.cursor <= Len(r.buffer)
            /\ \A i \in DOMAIN r.buffer : r.buffer[i] = Behind(r) + i
    <2>1. Len(b) <= s.fed /\ c + Chunk <= Len(b)
      BY <1>13 DEF Heard, b
    <2> QED
      BY <1>10, <1>11, <1>14, <2>1
  <1> QED
    BY <1>8, <1>9, <1>10, <1>11, <1>12 DEF Heard

\* An engine that was reset has nothing of what it heard.
LEMMA ResetFacts ==
    ASSUME NEW s \in QwenStates, Heard(s)
    PROVE  /\ AfterReset(s) \in QwenStates /\ Heard(AfterReset(s))
           /\ Behind(AfterReset(s)) = s.fed /\ Behind(s) <= s.fed
           /\ s.fed \in Nat /\ Behind(s) \in Nat
  <1> DEFINE q == [s EXCEPT !.buffer = <<>>]
             t == [q EXCEPT !.cursor = 0]
             r == [t EXCEPT !.partials = <<>>]
  <1>1. <<>> \in Seq(Nat) /\ Len(<<>>) = 0 /\ DOMAIN <<>> = {}
    OBVIOUS
  <1>2. AfterReset(s) = r
    BY DEF AfterReset
  <1>3. q \in QwenStates /\ q.buffer = <<>> /\ q.fed = s.fed
    BY <1>1 DEF QwenStates
  <1> HIDE DEF q
  <1>4. t \in QwenStates /\ t.buffer = <<>> /\ t.fed = s.fed /\ t.cursor = 0
    BY <1>3 DEF QwenStates
  <1> HIDE DEF t
  <1>5. r \in QwenStates /\ r.buffer = <<>> /\ r.fed = s.fed /\ r.cursor = 0 /\ r.partials = <<>>
    BY <1>1, <1>4 DEF QwenStates
  <1> HIDE DEF r
  <1>6. s.fed \in Nat /\ Len(s.buffer) \in Nat /\ Len(s.buffer) <= s.fed
    BY LenProperties DEF QwenStates, Heard
  <1>7. Behind(r) = s.fed /\ Behind(s) <= s.fed /\ Behind(s) \in Nat
    BY <1>1, <1>5, <1>6 DEF Behind
  <1>8. Heard(r)
    BY <1>1, <1>5, <1>6 DEF Heard, Climbs
  <1> QED
    BY <1>2, <1>5, <1>6, <1>7, <1>8

\* The transcript of an utterance that ends.
LEMMA UtteranceEnds ==
    ASSUME NEW s \in QwenStates, Heard(s), NEW f \in QwenFinals, EndOfFinal(f) <= Behind(s),
           EndOfFinal(f) \in Nat,
           NEW text, text \in {s.buffer, <<>>}, NEW g,
           g = [text |-> Finished(text, s.partials), whole |-> s.buffer,
                heard |-> s.partials # <<>>, after |-> EndOfFinal(f)]
    PROVE  g \in QwenFinals /\ FinalHolds(g) /\ EndOfFinal(g) <= s.fed
  <1> DEFINE b == s.buffer
             x == Finished(text, s.partials)
             n == EndOfFinal(f)
  <1>1. /\ s.fed \in Nat /\ b \in Seq(Nat) /\ s.partials \in Seq(Nat) /\ s.cursor \in Nat
        /\ Len(b) \in Nat /\ DOMAIN b = 1 .. Len(b) /\ Behind(s) = s.fed - Len(b) /\ Behind(s) \in Nat
        /\ s.cursor <= Len(b) /\ Len(b) <= s.fed
    BY LenProperties, ResetFacts DEF QwenStates, Heard, Behind
  <1>2. \A i \in 1 .. Len(b) : b[i] = Behind(s) + i
    BY <1>1 DEF Heard
  <1>3. x \in {b, s.partials} /\ (s.partials # <<>> => x # <<>>)
    BY DEF Finished
  <1>4. Climbs(b)
    <2> HIDE DEF b
    <2>1. \A i \in 1 .. Len(b) : i \in Nat
      BY <1>1
    <2>2. ASSUME NEW i \in DOMAIN b, NEW j \in DOMAIN b, i < j PROVE b[i] < b[j]
      <3>1. i \in Nat /\ j \in Nat /\ b[i] = Behind(s) + i /\ b[j] = Behind(s) + j
        BY <1>1, <1>2, <2>1
      <3>2. Behind(s) \in Nat
        BY <1>1
      <3> QED
        BY <2>2, <3>1, <3>2
    <2> QED
      BY <2>2 DEF Climbs
  <1>5. ASSUME NEW i \in DOMAIN s.partials PROVE s.partials[i] \in ToSet(b)
    <2> DEFINE v == s.partials[i]
    <2>1. Behind(s) < v /\ v <= Behind(s) + s.cursor
      BY DEF Heard
    <2>4. v \in Nat
      BY <1>1, ElementOfSeq, LenProperties
    <2> HIDE DEF v, b
    <2>5. PICK n0 \in Nat, c \in Nat, m \in Nat : n0 = Behind(s) /\ c = s.cursor /\ m = Len(b)
      BY <1>1
    <2>6. n0 < v /\ v <= n0 + c /\ c <= m
      BY <1>1, <2>1, <2>5
    <2>2. v - Behind(s) \in 1 .. Len(b) /\ Behind(s) + (v - Behind(s)) = v
      BY <2>4, <2>5, <2>6
    <2>3. b[v - Behind(s)] = v /\ v - Behind(s) \in DOMAIN b
      BY <1>1, <1>2, <2>2
    <2>7. v \in ToSet(b)
      BY <2>3 DEF ToSet
    <2> QED
      BY <2>7 DEF v
  <1>6. ToSet(x) \subseteq ToSet(b) /\ Climbs(x) /\ x \in Seq(Nat)
    <2>1. CASE x = b
      BY <1>1, <1>4, <2>1
    <2>2. CASE x = s.partials
      BY <1>1, <1>5, <2>2 DEF ToSet, Heard
    <2> QED
      BY <1>3, <2>1, <2>2
  <1>7. ASSUME NEW i \in DOMAIN b PROVE b[i] = b[1] + i - 1 /\ b[i] > n
    <2>1. i \in Nat /\ 1 <= i /\ i \in 1 .. Len(b) /\ 1 \in 1 .. Len(b)
      BY <1>1
    <2>2. b[i] = Behind(s) + i /\ b[1] = Behind(s) + 1
      BY <1>2, <2>1
    <2>3. n <= Behind(s) /\ n \in Nat /\ Behind(s) \in Nat
      BY <1>1
    <2> HIDE DEF n, b
    <2> QED
      BY <2>1, <2>2, <2>3
  <1>8. (IF b = <<>> THEN n ELSE b[Len(b)]) <= s.fed
    <2>3. n <= Behind(s) /\ n \in Nat
      BY <1>1
    <2> HIDE DEF n, b
    <2>1. CASE b = <<>>
      BY <1>1, <2>1, <2>3
    <2>2. CASE b # <<>>
      <3>1. Len(b) \in 1 .. Len(b)
        BY <1>1, <2>2, EmptySeq
      <3>2. b[Len(b)] = Behind(s) + Len(b)
        BY <1>2, <3>1
      <3> QED
        BY <1>1, <2>2, <3>2
    <2> QED
      BY <2>1, <2>2
  <1> DEFINE h == s.partials # <<>>
  <1>9. h \in BOOLEAN /\ (h => x # <<>>)
    BY <1>3
  <1> HIDE DEF x, b, n, h
  <1>10. g = [text |-> x, whole |-> b, heard |-> h, after |-> n]
    BY DEF x, b, n, h
  <1>11. g.text = x /\ g.whole = b /\ g.heard = h /\ g.after = n
    BY <1>10
  <1>12. g \in QwenFinals
    BY <1>1, <1>6, <1>9, <1>10 DEF QwenFinals, n
  <1>13. FinalHolds(g)
    BY <1>6, <1>7, <1>9, <1>11 DEF FinalHolds
  <1>14. EndOfFinal(g) = IF b = <<>> THEN n ELSE b[Len(b)]
    BY <1>11 DEF EndOfFinal
  <1> QED
    BY <1>8, <1>12, <1>13, <1>14

-----------------------------------------------------------------------------
\* One engine moves.
LEMMA EngineMoves ==
    ASSUME QwenInv, NEW e \in Engines, NEW s, NEW c, NEW f, EngineHolds(s, c, f),
           qwen' = [qwen EXCEPT ![e] = s], qwenCall' = [qwenCall EXCEPT ![e] = c],
           final' = [final EXCEPT ![e] = f], LockHeld'
    PROVE  QwenInv'
  <1>1. s \in QwenStates /\ c \in QwenCalls /\ f \in QwenFinals
    BY DEF EngineHolds
  <1>2. /\ qwen \in [Engines -> QwenStates] /\ qwenCall \in [Engines -> QwenCalls]
        /\ final \in [Engines -> QwenFinals]
    BY DEF QwenInv
  <1>3. /\ qwen' \in [Engines -> QwenStates] /\ qwenCall' \in [Engines -> QwenCalls]
        /\ final' \in [Engines -> QwenFinals]
    BY <1>1, <1>2
  <1>4. ASSUME NEW d \in Engines PROVE EngineHolds(qwen'[d], qwenCall'[d], final'[d])
    <2>1. CASE d = e
      <3>1. qwen'[d] = s /\ qwenCall'[d] = c /\ final'[d] = f
        BY <1>2, <2>1
      <3> QED
        BY <3>1
    <2>2. CASE d # e
      <3>1. qwen'[d] = qwen[d] /\ qwenCall'[d] = qwenCall[d] /\ final'[d] = final[d]
        BY <1>2, <2>2
      <3> QED
        BY <3>1 DEF QwenInv
    <2> QED
      BY <2>1, <2>2
  <1> QED
    BY <1>3, <1>4 DEF QwenInv

\* A step outside the section, or within it.
LEMMA LockKept ==
    ASSUME QwenInv, NEW e \in Engines, NEW c, qwenCall' = [qwenCall EXCEPT ![e] = c],
           UNCHANGED <<holders, cache>>, InSection(c) <=> InSection(qwenCall[e]),
           Loading(c) => Loading(qwenCall[e])
    PROVE  LockHeld'
  <1>1. LockHeld /\ qwenCall \in [Engines -> QwenCalls]
    BY DEF QwenInv
  <1>2. \A d \in Engines : qwenCall'[d] = IF d = e THEN c ELSE qwenCall[d]
    BY <1>1
  <1>3. \A d \in Engines : d \in holders' <=> InSection(qwenCall'[d])
    BY <1>1, <1>2 DEF LockHeld
  <1>4. \A d \in Engines : Loading(qwenCall'[d]) => ~cache'
    BY <1>1, <1>2 DEF LockHeld
  <1> QED
    BY <1>1, <1>3, <1>4 DEF LockHeld

LEMMA LockTaken ==
    ASSUME QwenInv, NEW e \in Engines, NEW c, qwenCall' = [qwenCall EXCEPT ![e] = c],
           LockFree, holders' = holders \cup {e}, UNCHANGED cache, InSection(c), Loading(c) => ~cache
    PROVE  LockHeld'
  <1>1. LockHeld /\ qwenCall \in [Engines -> QwenCalls] /\ holders = {}
    BY DEF QwenInv, LockFree
  <1>2. \A d \in Engines : qwenCall'[d] = IF d = e THEN c ELSE qwenCall[d]
    BY <1>1
  <1>3. \A d \in Engines : d \in holders' <=> InSection(qwenCall'[d])
    BY <1>1, <1>2 DEF LockHeld
  <1>4. \A d \in Engines : Loading(qwenCall'[d]) => ~cache'
    BY <1>1, <1>2 DEF LockHeld
  <1> QED
    BY <1>1, <1>3, <1>4 DEF LockHeld

LEMMA LockLeft ==
    ASSUME QwenInv, NEW e \in Engines, NEW c, qwenCall' = [qwenCall EXCEPT ![e] = c],
           holders' = holders \ {e}, InSection(qwenCall[e]), ~InSection(c)
    PROVE  LockHeld'
  <1>1. LockHeld /\ qwenCall \in [Engines -> QwenCalls]
    BY DEF QwenInv
  <1>2. \A d \in Engines : qwenCall'[d] = IF d = e THEN c ELSE qwenCall[d]
    BY <1>1
  <1>3. holders' = {} /\ e \in holders
    BY <1>1 DEF LockHeld
  <1>4. \A d \in Engines : d \in holders' <=> InSection(qwenCall'[d])
    BY <1>1, <1>2, <1>3 DEF LockHeld
  <1>5. \A d \in Engines : ~Loading(qwenCall'[d])
    BY <1>3, <1>4 DEF Loading, InSection
  <1> QED
    BY <1>3, <1>4, <1>5 DEF LockHeld

\* The fields of a call.
LEMMA CallFacts ==
    ASSUME NEW c \in QwenCalls, c.op # "none"
    PROVE  /\ c \in [op : {"feed", "flush", "probe", "oneshot"}, block : Nat,
                      at : {"load", "loading", "ready", "inferring"}]
           /\ \A x \in {"load", "loading", "ready", "inferring"} :
                /\ [c EXCEPT !.at = x] \in QwenCalls
                /\ [c EXCEPT !.at = x].at = x /\ [c EXCEPT !.at = x].op = c.op
                /\ [c EXCEPT !.at = x].block = c.block
           /\ [c EXCEPT !.block = 0] \in QwenCalls /\ [c EXCEPT !.block = 0].at = c.at
           /\ [c EXCEPT !.block = 0].op = c.op
  BY DEF QwenCalls, NoCall

LEMMA NoCallFacts == NoCall \in QwenCalls /\ NoCall.op = "none" /\ ~InSection(NoCall) /\ ~Loading(NoCall)
  BY DEF QwenCalls, NoCall, InSection, Loading

\* The flags have nothing to do with what was heard.
LEMMA FlagFacts ==
    ASSUME NEW s \in QwenStates, Heard(s), NEW r,
           r \in {s, [s EXCEPT !.loaded = TRUE], [s EXCEPT !.broken = TRUE]}
    PROVE  r \in QwenStates /\ Heard(r) /\ Behind(r) = Behind(s) /\ r.buffer = s.buffer
            /\ r.cursor = s.cursor
  <1>1. /\ r \in QwenStates /\ r.buffer = s.buffer /\ r.cursor = s.cursor /\ r.fed = s.fed
        /\ r.partials = s.partials
    BY DEF QwenStates
  <1>2. Behind(r) = Behind(s)
    BY <1>1 DEF Behind
  <1> QED
    BY <1>1, <1>2 DEF Heard

\* The end of the last transcript.
LEMMA EndIsNumber == ASSUME NEW f \in QwenFinals PROVE EndOfFinal(f) \in Nat
  <1>1. f.whole \in Seq(Nat) /\ f.after \in Nat
    BY DEF QwenFinals
  <1>2. CASE f.whole = <<>>
    BY <1>1, <1>2 DEF EndOfFinal
  <1>3. CASE f.whole # <<>>
    <2>1. Len(f.whole) \in 1 .. Len(f.whole)
      BY <1>1, <1>3, EmptySeq, LenProperties
    <2> QED
      BY <1>1, <1>3, <2>1, ElementOfSeq DEF EndOfFinal
  <1> QED
    BY <1>2, <1>3

\* What holds of an engine whose call is not at a chunk.
LEMMA EngineStands ==
    ASSUME NEW s, NEW c, NEW f, EngineHolds(s, c, f)
    PROVE  /\ s \in QwenStates /\ c \in QwenCalls /\ f \in QwenFinals
           /\ Heard(s) /\ FinalHolds(f) /\ EndOfFinal(f) <= Behind(s) /\ EndOfFinal(f) \in Nat
           /\ Behind(s) \in Nat /\ Behind(s) <= s.fed /\ s.fed \in Nat
  BY EndIsNumber, ResetFacts DEF EngineHolds

LEMMA QwenStart == QwenInit => QwenInv
  <1> SUFFICES ASSUME QwenInit PROVE QwenInv
    OBVIOUS
  <1>1. Fresh \in QwenStates /\ Fresh.fed = 0 /\ Fresh.buffer = <<>> /\ Fresh.cursor = 0 /\ Fresh.partials = <<>>
    BY DEF Fresh, QwenStates
  <1>2. Heard(Fresh) /\ Behind(Fresh) = 0
    <2>1. Len(<<>>) = 0 /\ DOMAIN <<>> = {}
      OBVIOUS
    <2>2. Behind(Fresh) = 0
      <3>1. Len(Fresh.buffer) = 0
        BY <1>1, <2>1
      <3>3. 0 - 0 = 0
        OBVIOUS
      <3>2. Fresh.fed - Len(Fresh.buffer) = 0
        BY <1>1, <3>1, <3>3
      <3> QED
        BY <3>2 DEF Behind
    <2> QED
      BY <1>1, <2>1, <2>2 DEF Heard, Climbs
  <1>3. /\ NoFinal \in QwenFinals /\ NoFinal.whole = <<>> /\ NoFinal.text = <<>> /\ NoFinal.after = 0
        /\ NoFinal.heard = FALSE
    BY DEF NoFinal, QwenFinals
  <1>4. FinalHolds(NoFinal) /\ EndOfFinal(NoFinal) = 0
    BY <1>3 DEF FinalHolds, EndOfFinal, Climbs, ToSet
  <1>5. EngineHolds(Fresh, NoCall, NoFinal)
    BY <1>1, <1>2, <1>3, <1>4, NoCallFacts DEF EngineHolds
  <1>6. /\ qwen \in [Engines -> QwenStates] /\ qwenCall \in [Engines -> QwenCalls]
        /\ final \in [Engines -> QwenFinals]
        /\ \A e \in Engines : qwen[e] = Fresh /\ qwenCall[e] = NoCall /\ final[e] = NoFinal
    BY <1>1, <1>3, NoCallFacts DEF QwenInit
  <1>7. LockHeld
    BY <1>6, NoCallFacts DEF LockHeld, QwenInit
  <1> QED
    BY <1>5, <1>6, <1>7 DEF QwenInv

\* A call begins.
LEMMA BeginStep ==
    ASSUME QwenInv, NEW e \in Engines, NEW op \in {"feed", "flush", "probe", "oneshot"}, NEW n \in Nat,
           Begin(e, op, n)
    PROVE  QwenInv'
  <1> DEFINE at == IF qwen[e].loaded THEN "ready" ELSE "load"
             c == [op |-> op, block |-> n, at |-> at]
  <1>1. EngineHolds(qwen[e], qwenCall[e], final[e])
    BY DEF QwenInv
  <1>2. at \in {"ready", "load"}
    OBVIOUS
  <1>3. qwenCall' = [qwenCall EXCEPT ![e] = c] /\ UNCHANGED <<cache, holders, qwen, final>>
            /\ qwenCall[e] = NoCall
    BY DEF Begin
  <1> HIDE DEF at
  <1>4. c \in QwenCalls /\ ~InSection(c) /\ ~Loading(c) /\ c.at # "inferring"
    BY <1>2 DEF QwenCalls, InSection, Loading
  <1> HIDE DEF c
  <1>5. EngineHolds(qwen[e], c, final[e])
    BY <1>1, <1>4 DEF EngineHolds
  <1>6. LockHeld'
    BY <1>3, <1>4, LockKept, NoCallFacts
  <1>7. qwen' = [qwen EXCEPT ![e] = qwen[e]] /\ final' = [final EXCEPT ![e] = final[e]]
    BY <1>3 DEF QwenInv
  <1> QED
    BY <1>3, <1>5, <1>6, <1>7, EngineMoves

\* The model is asked for, loaded, or cannot be.
LEMMA LoadStep ==
    ASSUME QwenInv, NEW e \in Engines, EnterLoad(e) \/ LoadedQwen(e) \/ LoadFails(e)
    PROVE  QwenInv'
  <1> DEFINE s == qwen[e]
             c == qwenCall[e]
             f == final[e]
             s1 == [s EXCEPT !.loaded = TRUE]
             s2 == [s EXCEPT !.broken = TRUE]
             ready == [c EXCEPT !.at = "ready"]
             loads == [c EXCEPT !.at = "loading"]
  <1>1. EngineHolds(s, c, f) /\ qwen \in [Engines -> QwenStates] /\ qwenCall \in [Engines -> QwenCalls]
          /\ final \in [Engines -> QwenFinals]
    BY DEF QwenInv
  <1>2. /\ c.op # "none" /\ UNCHANGED final /\ c \in QwenCalls
        /\ c.at \in {"load", "loading"}
    BY <1>1 DEF EnterLoad, LoadedQwen, LoadFails, EngineHolds
  <1>3. /\ ready \in QwenCalls /\ ready.at = "ready" /\ loads \in QwenCalls /\ loads.at = "loading"
        /\ loads.op # "none"
    BY <1>2, CallFacts
  <1>4. /\ final' = [final EXCEPT ![e] = f] /\ qwen = [qwen EXCEPT ![e] = s]
    BY <1>1, <1>2
  <1>5. ~InSection(ready) /\ ~Loading(ready) /\ InSection(loads)
    BY <1>3 DEF InSection, Loading
  <1>6. s1 \in {s, [s EXCEPT !.loaded = TRUE], [s EXCEPT !.broken = TRUE]}
        /\ s2 \in {s, [s EXCEPT !.loaded = TRUE], [s EXCEPT !.broken = TRUE]}
        /\ s \in {s, [s EXCEPT !.loaded = TRUE], [s EXCEPT !.broken = TRUE]}
    OBVIOUS
  <1>7. ASSUME NEW r, r \in {s, [s EXCEPT !.loaded = TRUE], [s EXCEPT !.broken = TRUE]},
               NEW d, d \in QwenCalls, d.op # "feed" \/ d.at # "inferring"
        PROVE  EngineHolds(r, d, f)
    BY <1>1, <1>7, EngineStands, FlagFacts DEF EngineHolds
  <1>8. EngineHolds(s1, ready, f) /\ EngineHolds(s, loads, f) /\ EngineHolds(s2, NoCall, f)
    <2>1. ready.at # "inferring" /\ loads.at # "inferring" /\ NoCall.op # "feed" /\ NoCall \in QwenCalls
      BY <1>3, NoCallFacts
    <2> HIDE DEF ready, loads, s1, s2, s, c, f
    <2> QED
      BY <1>3, <1>6, <1>7, <2>1 DEF s1, s2
  <1>9. CASE EnterLoad(e)
    <2>1. LockFree /\ c.at = "load"
      BY <1>9 DEF EnterLoad
    <2>2. CASE cache
      <3>1. /\ qwen' = [qwen EXCEPT ![e] = s1] /\ qwenCall' = [qwenCall EXCEPT ![e] = ready]
            /\ UNCHANGED <<holders, cache>>
        BY <1>9, <2>2 DEF EnterLoad
      <3>2. ~InSection(c)
        BY <2>1 DEF InSection
      <3> HIDE DEF s1, ready, c
      <3>3. LockHeld'
        BY <1>5, <3>1, <3>2, LockKept DEF c
      <3> QED
        BY <1>4, <1>8, <3>1, <3>3, EngineMoves
    <2>3. CASE ~cache
      <3>1. /\ qwen' = qwen /\ qwenCall' = [qwenCall EXCEPT ![e] = loads]
            /\ holders' = holders \cup {e} /\ UNCHANGED cache
        BY <1>9, <2>3 DEF EnterLoad
      <3> HIDE DEF loads
      <3>2. LockHeld'
        BY <1>5, <2>1, <2>3, <3>1, LockTaken
      <3> QED
        BY <1>4, <1>8, <3>1, <3>2, EngineMoves
    <2> QED
      BY <2>2, <2>3
  <1>10. CASE LoadedQwen(e)
    <2>1. /\ c.at = "loading" /\ holders' = holders \ {e}
          /\ qwen' = [qwen EXCEPT ![e] = s1] /\ qwenCall' = [qwenCall EXCEPT ![e] = ready]
      BY <1>10 DEF LoadedQwen
    <2>2. InSection(c)
      BY <1>2, <2>1 DEF InSection
    <2> HIDE DEF s1, ready
    <2>3. LockHeld'
      BY <1>5, <2>1, <2>2, LockLeft
    <2> QED
      BY <1>4, <1>8, <2>1, <2>3, EngineMoves
  <1>11. CASE LoadFails(e)
    <2>1. /\ c.at = "loading" /\ holders' = holders \ {e}
          /\ qwen' = [qwen EXCEPT ![e] = s2] /\ qwenCall' = [qwenCall EXCEPT ![e] = NoCall]
      BY <1>11 DEF LoadFails
    <2>2. InSection(c)
      BY <1>2, <2>1 DEF InSection
    <2> HIDE DEF s2
    <2>3. LockHeld'
      BY <2>1, <2>2, NoCallFacts, LockLeft
    <2> QED
      BY <1>4, <1>8, <2>1, <2>3, EngineMoves
  <1> QED
    BY <1>9, <1>10, <1>11

\* Samples come in; an engine is reset; an inference starts.
LEMMA FeedingStep ==
    ASSUME QwenInv, NEW e \in Engines, CollectSamples(e) \/ ResetEngine(e) \/ StartInference(e)
    PROVE  QwenInv'
  <1> DEFINE s == qwen[e]
             c == qwenCall[e]
             f == final[e]
  <1>1. EngineHolds(s, c, f) /\ qwen \in [Engines -> QwenStates] /\ qwenCall \in [Engines -> QwenCalls]
          /\ final \in [Engines -> QwenFinals]
    BY DEF QwenInv
  <1>2. /\ UNCHANGED final /\ UNCHANGED cache /\ final' = [final EXCEPT ![e] = f]
        /\ qwen = [qwen EXCEPT ![e] = s] /\ qwenCall = [qwenCall EXCEPT ![e] = c]
    BY <1>1 DEF CollectSamples, ResetEngine, StartInference
  <1>3. /\ s \in QwenStates /\ c \in QwenCalls /\ f \in QwenFinals
        /\ Heard(s) /\ FinalHolds(f) /\ EndOfFinal(f) <= Behind(s) /\ EndOfFinal(f) \in Nat
        /\ Behind(s) \in Nat /\ Behind(s) <= s.fed /\ s.fed \in Nat
    BY <1>1, EngineStands
  <1>4. EndOfFinal(f) <= s.fed
    BY <1>3
  <1>5. /\ AfterReset(s) \in QwenStates /\ Heard(AfterReset(s)) /\ Behind(AfterReset(s)) = s.fed
    BY <1>3, ResetFacts
  <1>6. CASE CollectSamples(e)
    <2> DEFINE d == [c EXCEPT !.block = 0]
    <2>1. c.op # "none" /\ c.at = "ready" /\ UNCHANGED holders /\ qwenCall' = [qwenCall EXCEPT ![e] = d]
      BY <1>6 DEF CollectSamples
    <2>2. d \in QwenCalls /\ d.at = "ready" /\ c.block \in Nat
      BY <1>3, <2>1, CallFacts
    <2> HIDE DEF d
    <2>3. LockHeld'
      BY <1>2, <2>1, <2>2, LockKept DEF InSection, Loading
    <2>4. CASE c.op = "oneshot"
      <3>1. qwen' = [qwen EXCEPT ![e] = AfterReset(s)]
        BY <1>6, <2>4 DEF CollectSamples
      <3>2. EngineHolds(AfterReset(s), d, f)
        BY <1>3, <1>4, <1>5, <2>2 DEF EngineHolds
      <3> QED
        BY <1>2, <2>1, <2>3, <3>1, <3>2, EngineMoves
    <2>5. CASE c.op # "oneshot"
      <3> DEFINE r == WithBlock(s, c.block)
      <3>1. qwen' = [qwen EXCEPT ![e] = r]
        BY <1>6, <2>5 DEF CollectSamples
      <3>2. r \in QwenStates /\ Heard(r) /\ Behind(r) = Behind(s)
        BY <1>3, <2>2, BlockAdded
      <3> HIDE DEF r
      <3>3. EngineHolds(r, d, f)
        BY <1>3, <2>2, <3>2 DEF EngineHolds
      <3> QED
        BY <1>2, <2>1, <2>3, <3>1, <3>3, EngineMoves
    <2> QED
      BY <2>4, <2>5
  <1>7. CASE ResetEngine(e)
    <2>1. /\ c = NoCall /\ UNCHANGED holders /\ qwenCall' = qwenCall
          /\ qwen' = [qwen EXCEPT ![e] = AfterReset(s)]
      BY <1>7 DEF ResetEngine
    <2>2. EngineHolds(AfterReset(s), c, f)
      BY <1>3, <1>4, <1>5, <2>1, NoCallFacts DEF EngineHolds
    <2>3. LockHeld'
      BY <1>2, <2>1, LockKept
    <2> QED
      BY <1>2, <2>1, <2>2, <2>3, EngineMoves
  <1>8. CASE StartInference(e)
    <2> DEFINE d == [c EXCEPT !.at = "inferring"]
    <2>1. /\ c.op # "none" /\ c.at = "ready" /\ LockFree /\ holders' = holders \cup {e}
          /\ qwenCall' = [qwenCall EXCEPT ![e] = d] /\ Due(e) # <<>> /\ UNCHANGED qwen
      BY <1>8 DEF StartInference
    <2>2. d \in QwenCalls /\ d.at = "inferring" /\ d.op = c.op /\ d.block = c.block
      BY <1>3, <2>1, CallFacts
    <2>3. c.op = "feed" => c.block = 0 /\ s.cursor + Chunk <= Len(s.buffer)
      <3>1. c.op = "feed" => c.block = 0 /\ Len(s.buffer) - s.cursor >= Chunk
        BY <2>1 DEF Due
      <3>2. Len(s.buffer) \in Nat /\ s.cursor \in Nat /\ Chunk \in Nat
        BY <1>3, QwenAssumption, LenProperties DEF QwenStates
      <3> QED
        BY <3>1, <3>2
    <2> HIDE DEF d
    <2>4. EngineHolds(s, d, f)
      BY <1>3, <2>2, <2>3 DEF EngineHolds
    <2>5. InSection(d) /\ ~Loading(d)
      BY <2>1, <2>2 DEF InSection, Loading
    <2>6. LockHeld'
      BY <1>2, <2>1, <2>5, LockTaken
    <2> QED
      BY <1>2, <2>1, <2>4, <2>6, EngineMoves
  <1> QED
    BY <1>6, <1>7, <1>8

\* An utterance ends with what flush returns.
LEMMA UtteranceStep ==
    ASSUME QwenInv, NEW e \in Engines, NEW text, text \in {qwen[e].buffer, <<>>},
           EndUtterance(e, text), LockHeld'
    PROVE  QwenInv'
  <1> DEFINE s == qwen[e]
             f == final[e]
             g == [text |-> Finished(text, s.partials), whole |-> s.buffer,
                   heard |-> s.partials # <<>>, after |-> EndOfFinal(f)]
  <1>1. /\ s \in QwenStates /\ f \in QwenFinals
        /\ Heard(s) /\ EndOfFinal(f) <= Behind(s) /\ EndOfFinal(f) \in Nat
    BY EngineStands DEF QwenInv
  <1>2. /\ AfterReset(s) \in QwenStates /\ Heard(AfterReset(s)) /\ Behind(AfterReset(s)) = s.fed
    BY <1>1, ResetFacts
  <1>3. /\ qwen' = [qwen EXCEPT ![e] = AfterReset(s)] /\ qwenCall' = [qwenCall EXCEPT ![e] = NoCall]
        /\ final' = [final EXCEPT ![e] = g]
    BY DEF EndUtterance
  <1> HIDE DEF f
  <1>4. g \in QwenFinals /\ FinalHolds(g) /\ EndOfFinal(g) <= s.fed
    BY <1>1, UtteranceEnds
  <1> HIDE DEF g
  <1>5. EngineHolds(AfterReset(s), NoCall, g)
    BY <1>2, <1>4, NoCallFacts DEF EngineHolds
  <1> QED
    BY <1>3, <1>5, EngineMoves

\* An inference ends, or a call returns.
LEMMA EndingStep ==
    ASSUME QwenInv, NEW e \in Engines, Recognise(e) \/ Return(e)
    PROVE  QwenInv'
  <1> DEFINE s == qwen[e]
             c == qwenCall[e]
             f == final[e]
  <1>1. EngineHolds(s, c, f) /\ qwen \in [Engines -> QwenStates] /\ qwenCall \in [Engines -> QwenCalls]
          /\ final \in [Engines -> QwenFinals]
    BY DEF QwenInv
  <1>2. /\ s \in QwenStates /\ c \in QwenCalls /\ f \in QwenFinals
        /\ Heard(s) /\ FinalHolds(f) /\ EndOfFinal(f) <= Behind(s) /\ EndOfFinal(f) \in Nat
    BY <1>1, EngineStands
  <1>3. UNCHANGED cache /\ c.op # "none"
    BY DEF Recognise, Return
  <1>4. final = [final EXCEPT ![e] = f] /\ qwen = [qwen EXCEPT ![e] = s]
    BY <1>1
  <1>5. EngineHolds(s, NoCall, f)
    BY <1>2, NoCallFacts DEF EngineHolds
  <1>6. CASE Recognise(e)
    <2>1. c.at = "inferring" /\ holders' = holders \ {e} /\ InSection(c)
      BY <1>3, <1>6 DEF Recognise, InSection
    <2>2. PICK text \in {Due(e), <<>>} :
            IF c.op = "feed"
            THEN /\ qwen' = [qwen EXCEPT ![e].cursor = @ + Chunk, ![e].partials = Joined(@, text)]
                 /\ qwenCall' = [qwenCall EXCEPT ![e].at = "ready"]
                 /\ UNCHANGED final
            ELSE IF c.op = "flush" THEN EndUtterance(e, text)
            ELSE qwenCall' = [qwenCall EXCEPT ![e] = NoCall] /\ UNCHANGED <<qwen, final>>
      BY <1>6 DEF Recognise
    <2>3. CASE c.op = "feed"
      <3> DEFINE d == [c EXCEPT !.at = "ready"]
                 r == [s EXCEPT !.cursor = @ + Chunk, !.partials = Joined(@, text)]
      <3>1. /\ qwen' = [qwen EXCEPT ![e].cursor = @ + Chunk, ![e].partials = Joined(@, text)]
            /\ qwenCall' = [qwenCall EXCEPT ![e] = d] /\ final' = final
        BY <2>2, <2>3
      <3>2. c.block = 0 /\ s.cursor + Chunk <= Len(s.buffer)
        BY <1>1, <2>1, <2>3 DEF EngineHolds
      <3>3. Due(e) = SubSeq(s.buffer, s.cursor + 1, s.cursor + Chunk)
        <4>1. Len(s.buffer) \in Nat /\ s.cursor \in Nat /\ Chunk \in Nat
          BY <1>2, QwenAssumption, LenProperties DEF QwenStates
        <4>2. Len(s.buffer) - s.cursor >= Chunk
          BY <3>2, <4>1
        <4> QED
          BY <2>3, <3>2, <4>2 DEF Due
      <3>4. r \in QwenStates /\ Heard(r) /\ Behind(r) = Behind(s)
        BY <1>2, <3>2, <3>3, ChunkDone
      <3>5. qwen' = [qwen EXCEPT ![e] = r]
        <4> DEFINE q == [qwen EXCEPT ![e] = [s EXCEPT !.cursor = s.cursor + Chunk]]
        <4>1. q = [qwen EXCEPT ![e].cursor = @ + Chunk]
          OBVIOUS
        <4>2. qwen' = [q EXCEPT ![e].partials = Joined(@, text)]
          BY <3>1, <4>1
        <4>3. q \in [Engines -> QwenStates] /\ q[e] = [s EXCEPT !.cursor = s.cursor + Chunk]
          <5>1. s.cursor + Chunk \in Nat
            BY <1>2, QwenAssumption DEF QwenStates
          <5>2. [s EXCEPT !.cursor = s.cursor + Chunk] \in QwenStates
            BY <1>2, <5>1 DEF QwenStates
          <5> QED
            BY <1>1, <5>2
        <4>4. q[e].partials = s.partials
          BY <1>2, <4>3 DEF QwenStates
        <4>5. qwen' = [q EXCEPT ![e] = [q[e] EXCEPT !.partials = Joined(s.partials, text)]]
          BY <4>2, <4>4
        <4>6. r = [[s EXCEPT !.cursor = s.cursor + Chunk] EXCEPT !.partials = Joined(s.partials, text)]
          BY <1>2 DEF QwenStates
        <4>7. qwen' = [q EXCEPT ![e] = r]
          BY <4>3, <4>5, <4>6
        <4> QED
          BY <1>1, <4>7
      <3>6. d \in QwenCalls /\ d.at = "ready"
        BY <1>2, <1>3, CallFacts
      <3> HIDE DEF d, r
      <3>7. EngineHolds(r, d, f)
        BY <1>2, <3>4, <3>6 DEF EngineHolds
      <3>8. ~InSection(d)
        BY <3>6 DEF InSection
      <3>9. LockHeld'
        BY <2>1, <3>1, <3>8, LockLeft
      <3> QED
        BY <1>4, <3>1, <3>5, <3>7, <3>9, EngineMoves
    <2>4. CASE c.op = "flush"
      <3>1. EndUtterance(e, text) /\ text \in {s.buffer, <<>>}
        BY <2>2, <2>4 DEF Due
      <3>2. qwenCall' = [qwenCall EXCEPT ![e] = NoCall]
        BY <3>1 DEF EndUtterance
      <3>3. LockHeld'
        BY <2>1, <3>2, NoCallFacts, LockLeft
      <3> QED
        BY <3>1, <3>3, UtteranceStep
    <2>5. CASE c.op \notin {"feed", "flush"}
      <3>1. qwenCall' = [qwenCall EXCEPT ![e] = NoCall] /\ UNCHANGED <<qwen, final>>
        BY <2>2, <2>5
      <3>2. LockHeld'
        BY <2>1, <3>1, NoCallFacts, LockLeft
      <3> QED
        BY <1>4, <1>5, <3>1, <3>2, EngineMoves
    <2> QED
      BY <2>3, <2>4, <2>5
  <1>7. CASE Return(e)
    <2>1. c.at = "ready" /\ UNCHANGED holders /\ ~InSection(c)
      BY <1>7 DEF Return, InSection
    <2>2. CASE c.op = "flush"
      <3>1. EndUtterance(e, <<>>) /\ <<>> \in {s.buffer, <<>>}
        BY <1>7, <2>2 DEF Return
      <3>2. qwenCall' = [qwenCall EXCEPT ![e] = NoCall]
        BY <3>1 DEF EndUtterance
      <3>3. LockHeld'
        BY <1>3, <2>1, <3>2, NoCallFacts, LockKept
      <3> QED
        BY <3>1, <3>3, UtteranceStep
    <2>3. CASE c.op # "flush"
      <3>1. qwenCall' = [qwenCall EXCEPT ![e] = NoCall] /\ UNCHANGED <<qwen, final>>
        BY <1>7, <2>3 DEF Return
      <3>2. LockHeld'
        BY <1>3, <2>1, <3>1, NoCallFacts, LockKept
      <3> QED
        BY <1>4, <1>5, <3>1, <3>2, EngineMoves
    <2> QED
      BY <2>2, <2>3
  <1> QED
    BY <1>6, <1>7

LEMMA QwenStep == QwenInv /\ [QwenNext]_qwenVars => QwenInv'
  <1> SUFFICES ASSUME QwenInv, [QwenNext]_qwenVars PROVE QwenInv'
    OBVIOUS
  <1>1. CASE UNCHANGED qwenVars
    BY <1>1 DEF qwenVars, QwenInv, LockHeld
  <1>2. ASSUME NEW e \in Engines, Feed(e) \/ Flush(e) \/ WarmUpQwen(e) \/ OneShot(e) PROVE QwenInv'
    <2>1. PICK op \in {"feed", "flush", "probe", "oneshot"}, n \in Nat : Begin(e, op, n)
      BY <1>2, QwenAssumption DEF Feed, Flush, WarmUpQwen, OneShot
    <2> QED
      BY <2>1, BeginStep
  <1> QED
    BY <1>1, <1>2, LoadStep, FeedingStep, EndingStep DEF QwenNext

\* One engine loads or infers at a time.
LEMMA OneAtATime == QwenInv => OneInference
  <1> SUFFICES ASSUME QwenInv PROVE OneInference
    OBVIOUS
  <1>1. LockHeld
    BY DEF QwenInv
  <1>2. Cardinality(holders) <= 1
    <2>1. CASE holders = {}
      <3>1. Cardinality(holders) = 0
        BY <2>1, FS_EmptySet
      <3> QED
        BY <3>1
    <2>2. CASE holders # {}
      <3>1. PICK e \in holders : holders = {e}
        BY <1>1, <2>2 DEF LockHeld
      <3>2. Cardinality(holders) = 1
        BY <3>1, FS_Singleton
      <3> QED
        BY <3>2
    <2> QED
      BY <2>1, <2>2
  <1>3. \A e \in Engines : qwenCall[e].op # "none" /\ qwenCall[e].at = "loading" => ~cache
    BY <1>1 DEF LockHeld, Loading
  <1> QED
    BY <1>2, <1>3 DEF OneInference

\* However the engines share the model, an utterance is recognised as itself: of
\* its own samples, in order, after those of the utterance before.
THEOREM UtterancesAreThemselves == QwenSpec => []UtteranceRecognised
  <1>1. QwenInv => FinalIsUtterance
    BY DEF QwenInv, EngineHolds, FinalHolds, FinalIsUtterance, Climbs
  <1>2. QwenInv => UtteranceRecognised
    BY <1>1, OneAtATime DEF UtteranceRecognised
  <1> QED
    BY <1>2, QwenStart, QwenStep, PTL DEF QwenSpec

(***************************************************************************)
(* The detector's windows.  What keeps them one stream is that the         *)
(* remainder starts right behind the last window that left the buffer, and *)
(* that context and state are those that the last scored window left.      *)
(***************************************************************************)

WindowRecords == [window : Seq(Nat), upto : Nat, ctx : Seq(Nat), seen : Nat, lost : BOOLEAN]

BoundTells == plan # NotBound => model \in Models /\ plan = Bound(model)

Numbers ==
    /\ vadWindows \in Seq(WindowRecords) /\ start \in Nat /\ came \in Nat /\ calling \in BOOLEAN
    /\ ctx \in Seq(Nat) /\ seen \in Nat
    /\ plan = NotBound => vadWindows = <<>> /\ ~calling

\* What ScoredInOrder says of the i-th window.
WindowTells(i) ==
    /\ Upto(i - 1) < Upto(i) /\ vadWindows[i].window = WindowOf(Upto(i - 1), Upto(i))
    /\ vadWindows[i].ctx = ContextBehind(i - 1) /\ vadWindows[i].seen = StateBehind(i - 1)
    /\ Upto(i) > Upto(i - 1) + VadFrame => Raised(i - 1)

WindowsTell ==
    /\ \A i \in 1 .. Len(vadWindows) : WindowTells(i)
    /\ ctx = ContextBehind(Len(vadWindows)) /\ seen = StateBehind(Len(vadWindows))

RestTells ==
    LET last == Upto(Len(vadWindows))
    IN  /\ last \in Nat /\ last <= came
        /\ frameBuf = [k \in 1 .. came - last |-> last + k]
        /\ calling => came >= last + VadFrame
        /\ ~calling /\ came >= last + VadFrame => Raised(Len(vadWindows))

SileroInv == BoundTells /\ Numbers /\ WindowsTell /\ RestTells

-----------------------------------------------------------------------------
(* The feed.                                                               *)

\* Every set of numbers up to eight has a least one.
LEMMA LeastOfEight ==
    ASSUME NEW T, T \subseteq 1 .. 8, T # {}
    PROVE  Min(T) \in T /\ \A y \in T : Min(T) <= y
  <1>1. \E x \in T : \A y \in T : x <= y
    <2>1. \A y \in T : y \in {1, 2, 3, 4, 5, 6, 7, 8}
      OBVIOUS
    <2>2. CASE 1 \in T
      BY <2>1, <2>2
    <2>3. CASE 1 \notin T /\ 2 \in T
      BY <2>1, <2>3
    <2>4. CASE 1 \notin T /\ 2 \notin T /\ 3 \in T
      BY <2>1, <2>4
    <2>5. CASE 1 \notin T /\ 2 \notin T /\ 3 \notin T /\ 4 \in T
      BY <2>1, <2>5
    <2>6. CASE 1 \notin T /\ 2 \notin T /\ 3 \notin T /\ 4 \notin T /\ 5 \in T
      BY <2>1, <2>6
    <2>7. CASE 1 \notin T /\ 2 \notin T /\ 3 \notin T /\ 4 \notin T /\ 5 \notin T
      <3>1. T \subseteq {6, 7, 8}
        BY <2>1, <2>7
      <3>2. CASE 6 \in T
        BY <3>1, <3>2
      <3>3. CASE 6 \notin T /\ 7 \in T
        BY <3>1, <3>3
      <3>4. CASE 6 \notin T /\ 7 \notin T
        <4>1. T = {8}
          BY <3>1, <3>4
        <4> QED
          BY <4>1
      <3> QED
        BY <3>2, <3>3, <3>4
    <2> QED
      BY <2>2, <2>3, <2>4, <2>5, <2>6, <2>7
  <1> QED
    BY <1>1 DEF Min

\* The feeds, shape by shape.
LEMMA FeedsAre ==
    ASSUME NEW m \in Models
    PROVE  /\ m.takesState =>
                /\ DOMAIN Feeds(m) = 1 .. 8
                /\ Feeds(m)[1] = [shape |-> "declared", layout |-> "batched"]
                /\ Feeds(m)[2] = [shape |-> "declared", layout |-> "flat"]
                /\ Feeds(m)[3] = [shape |-> "1x128", layout |-> "batched"]
                /\ Feeds(m)[4] = [shape |-> "1x128", layout |-> "flat"]
                /\ Feeds(m)[5] = [shape |-> "2x1x128", layout |-> "batched"]
                /\ Feeds(m)[6] = [shape |-> "2x1x128", layout |-> "flat"]
                /\ Feeds(m)[7] = [shape |-> "stateless", layout |-> "batched"]
                /\ Feeds(m)[8] = [shape |-> "stateless", layout |-> "flat"]
           /\ ~m.takesState =>
                /\ DOMAIN Feeds(m) = 1 .. 2
                /\ Feeds(m)[1] = [shape |-> "stateless", layout |-> "batched"]
                /\ Feeds(m)[2] = [shape |-> "stateless", layout |-> "flat"]
  <1> DEFINE t == ShapesTried(m)
  <1>1. \A i \in 1 .. 2 * Len(t) :
            Feeds(m)[i] = [shape |-> t[(i + 1) \div 2], layout |-> Layouts[2 - (i % 2)]]
    BY DEF Feeds
  <1>2. DOMAIN Feeds(m) = 1 .. 2 * Len(t)
    BY DEF Feeds
  <1>3. Layouts[1] = "batched" /\ Layouts[2] = "flat"
    BY DEF Layouts
  <1>4. /\ (1 + 1) \div 2 = 1 /\ (2 + 1) \div 2 = 1 /\ (3 + 1) \div 2 = 2 /\ (4 + 1) \div 2 = 2
        /\ (5 + 1) \div 2 = 3 /\ (6 + 1) \div 2 = 3 /\ (7 + 1) \div 2 = 4 /\ (8 + 1) \div 2 = 4
        /\ 2 - (1 % 2) = 1 /\ 2 - (2 % 2) = 2 /\ 2 - (3 % 2) = 1 /\ 2 - (4 % 2) = 2
        /\ 2 - (5 % 2) = 1 /\ 2 - (6 % 2) = 2 /\ 2 - (7 % 2) = 1 /\ 2 - (8 % 2) = 2
    OBVIOUS
  <1>5. CASE m.takesState
    <2>1. t = <<"declared", "1x128", "2x1x128">> \o <<"stateless">>
      BY <1>5 DEF ShapesTried, Stateful
    <2>2. /\ Len(t) = 4 /\ t[1] = "declared" /\ t[2] = "1x128" /\ t[3] = "2x1x128"
          /\ t[4] = "stateless"
      BY <2>1
    <2> HIDE DEF t
    <2>3. /\ 2 * Len(t) = 8
          /\ \A i \in {1, 2, 3, 4, 5, 6, 7, 8} : i \in 1 .. 2 * Len(t)
      BY <2>2
    <2>4. /\ Feeds(m)[1] = [shape |-> t[1], layout |-> Layouts[1]]
          /\ Feeds(m)[2] = [shape |-> t[1], layout |-> Layouts[2]]
          /\ Feeds(m)[3] = [shape |-> t[2], layout |-> Layouts[1]]
          /\ Feeds(m)[4] = [shape |-> t[2], layout |-> Layouts[2]]
      BY <1>1, <1>4, <2>3
    <2>5. /\ Feeds(m)[5] = [shape |-> t[3], layout |-> Layouts[1]]
          /\ Feeds(m)[6] = [shape |-> t[3], layout |-> Layouts[2]]
          /\ Feeds(m)[7] = [shape |-> t[4], layout |-> Layouts[1]]
          /\ Feeds(m)[8] = [shape |-> t[4], layout |-> Layouts[2]]
      BY <1>1, <1>4, <2>3
    <2> QED
      BY <1>2, <1>3, <1>5, <2>2, <2>3, <2>4, <2>5
  <1>6. CASE ~m.takesState
    <2>1. t = <<>> \o <<"stateless">>
      BY <1>6 DEF ShapesTried
    <2>2. Len(t) = 1 /\ t[1] = "stateless"
      BY <2>1
    <2> HIDE DEF t
    <2>3. 2 * Len(t) = 2 /\ \A i \in {1, 2} : i \in 1 .. 2 * Len(t)
      BY <2>2
    <2>4. /\ Feeds(m)[1] = [shape |-> t[1], layout |-> Layouts[1]]
          /\ Feeds(m)[2] = [shape |-> t[1], layout |-> Layouts[2]]
      BY <1>1, <1>4, <2>3
    <2> QED
      BY <1>2, <1>3, <1>6, <2>2, <2>3, <2>4
  <1> QED
    BY <1>5, <1>6

\* The feed that is locked in, and those that were tried in vain.
LEMMA BoundIs ==
    ASSUME NEW m \in Models
    PROVE  \/ /\ Bound(m) = Unsupported
              /\ \A i \in DOMAIN Feeds(m) : ~Works(m, Feeds(m)[i])
           \/ \E x \in DOMAIN Feeds(m) :
                /\ Bound(m) = Feeds(m)[x]
                /\ \A i \in DOMAIN Feeds(m) : i < x => ~Works(m, Feeds(m)[i])
  <1> DEFINE working == {i \in DOMAIN Feeds(m) : Works(m, Feeds(m)[i])}
  <1>1. Bound(m) = IF working = {} THEN Unsupported ELSE Feeds(m)[Min(working)]
    BY DEF Bound
  <1>2. CASE working = {}
    BY <1>1, <1>2
  <1>3. CASE working # {}
    <2>1. working \subseteq 1 .. 8 /\ \A i \in DOMAIN Feeds(m) : i \in Int
      BY FeedsAre DEF Models
    <2>2. Min(working) \in working /\ \A y \in working : Min(working) <= y
      <3> HIDE DEF working
      <3> QED
        BY <1>3, <2>1, LeastOfEight
    <2>3. PICK x \in working : x = Min(working)
      BY <2>2
    <2>4. Bound(m) = Feeds(m)[x]
      BY <1>1, <1>3, <2>3
    <2>5. ASSUME NEW i \in DOMAIN Feeds(m), i < x PROVE ~Works(m, Feeds(m)[i])
      BY <2>1, <2>2, <2>3, <2>5
    <2> QED
      BY <2>4, <2>5
  <1> QED
    BY <1>2, <1>3

LEMMA MemoryUsed == BoundTells => MemoryIsUsed
  <1> SUFFICES ASSUME BoundTells PROVE MemoryIsUsed
    OBVIOUS
  <1>1. CASE plan = NotBound
    BY <1>1 DEF NotBound, Unsupported, MemoryIsUsed
  <1>2. CASE plan # NotBound
    <2>1. model \in Models /\ plan = Bound(model)
      BY <1>2 DEF BoundTells
    <2>2. model.layouts \subseteq {"batched", "flat"} /\ (~model.takesState => model.shapes = {"stateless"})
            /\ model.takesState \in BOOLEAN
      <3>1. ToSet(Layouts) = {"batched", "flat"}
        BY DEF ToSet, Layouts
      <3> QED
        BY <2>1, <3>1 DEF Models
    <2>3. ToSet(Stateful) = {"declared", "1x128", "2x1x128"}
      BY DEF ToSet, Stateful
    <2>4. CASE /\ Bound(model) = Unsupported
               /\ \A i \in DOMAIN Feeds(model) : ~Works(model, Feeds(model)[i])
      <3>1. plan.shape # "stateless"
        BY <2>1, <2>4 DEF Unsupported
      <3>2. \A feed \in ToSet(Feeds(model)) : ~Works(model, feed)
        BY <2>4 DEF ToSet
      <3> QED
        BY <3>1, <3>2 DEF MemoryIsUsed
    <2>5. ASSUME NEW x \in DOMAIN Feeds(model), Bound(model) = Feeds(model)[x],
                 \A i \in DOMAIN Feeds(model) : i < x => ~Works(model, Feeds(model)[i])
          PROVE  MemoryIsUsed
      <3>1. CASE ~model.takesState
        <4>1. model.shapes \cap ToSet(Stateful) = {}
          BY <2>2, <2>3, <3>1
        <4>2. plan # Unsupported
          BY <2>1, <2>5, <3>1, FeedsAre DEF Unsupported
        <4> QED
          BY <4>1, <4>2 DEF MemoryIsUsed
      <3>2. CASE model.takesState
        <4>1. x \in {1, 2, 3, 4, 5, 6, 7, 8}
          BY <2>1, <2>5, <3>2, FeedsAre
        <4>2. plan # Unsupported
          BY <2>1, <2>5, <3>2, <4>1, FeedsAre DEF Unsupported
        <4>3. ASSUME plan.shape = "stateless", model.layouts # {}
              PROVE  model.shapes \cap ToSet(Stateful) = {}
          <5>1. x \in {7, 8}
            BY <2>1, <2>5, <3>2, <4>1, <4>3, FeedsAre
          <5>2. \A i \in {1, 2, 3, 4, 5, 6} : ~Works(model, Feeds(model)[i])
            BY <2>1, <2>5, <3>2, <5>1, FeedsAre
          <5>3. PICK l \in {"batched", "flat"} : l \in model.layouts
            BY <2>2, <4>3
          <5>4. "declared" \notin model.shapes
            BY <2>1, <3>2, <5>2, <5>3, FeedsAre DEF Works
          <5>5. "1x128" \notin model.shapes
            BY <2>1, <3>2, <5>2, <5>3, FeedsAre DEF Works
          <5>6. "2x1x128" \notin model.shapes
            BY <2>1, <3>2, <5>2, <5>3, FeedsAre DEF Works
          <5> QED
            BY <2>3, <5>4, <5>5, <5>6
        <4> QED
          BY <4>2, <4>3 DEF MemoryIsUsed
      <3> QED
        BY <2>2, <3>1, <3>2
    <2> QED
      BY <2>1, <2>4, <2>5, BoundIs
  <1> QED
    BY <1>1, <1>2

-----------------------------------------------------------------------------
(* The windows.                                                            *)

LEMMA FrameIs == VadFrame \in Nat /\ VadFrame >= 1 /\ Context \in Nat /\ 1 <= Context /\ Context <= VadFrame
  BY SileroAssumption

LEMMA SilenceIs == ASSUME NEW n \in Nat PROVE Silence(n) \in Seq(Nat)
  BY DEF Silence

LEMMA WindowIs ==
    ASSUME NEW from \in Nat, NEW to \in Nat
    PROVE  WindowOf(from, to) \in Seq(Nat) /\ Len(WindowOf(from, to)) = VadFrame
  BY FrameIs DEF WindowOf

\* The context that a window leaves.
LEMMA EndIs ==
    ASSUME NEW w \in Seq(Nat), Len(w) = VadFrame
    PROVE  EndOf(w, Context) \in Seq(Nat)
  <1>1. Len(w) - Context + 1 \in 1 .. Len(w) + 1 /\ Len(w) \in Nat
    BY FrameIs
  <1>2. \A i \in Len(w) - Context + 1 .. Len(w) : w[i] \in Nat
    BY <1>1
  <1> QED
    BY <1>1, <1>2, SubSeqProperties DEF EndOf

-----------------------------------------------------------------------------
(* The stream.                                                             *)

\* The window of the samples from the last one up to upto leaves the buffer.
LEMMA WindowStep ==
    ASSUME SileroInv, NEW window, NEW upto \in Nat,
           Upto(Len(vadWindows)) < upto, upto <= came,
           window = WindowOf(Upto(Len(vadWindows)), upto),
           upto > Upto(Len(vadWindows)) + VadFrame => Raised(Len(vadWindows)),
           frameBuf' = [k \in 1 .. came - upto |-> upto + k],
           Infer(window, upto), plan # NotBound, UNCHANGED <<model, plan, came, start>>
    PROVE  SileroInv'
  <1>1. PICK lost \in BOOLEAN :
            /\ vadWindows' = Append(vadWindows,
                  [window |-> window, upto |-> upto, ctx |-> ctx, seen |-> seen, lost |-> lost])
            /\ ctx' = IF lost THEN ctx ELSE NextContext(window)
            /\ seen' = IF ~lost /\ Remembers THEN seen + 1 ELSE seen
            /\ calling' = (~lost /\ Len(frameBuf') >= VadFrame)
    BY DEF Infer
  <1>2. PICK l \in Nat : l = Len(vadWindows)
    BY DEF SileroInv, Numbers
  <1>3. PICK last \in Nat : last = Upto(l)
    BY <1>2 DEF SileroInv, RestTells
  <1> DEFINE new == [window |-> window, upto |-> upto, ctx |-> ctx, seen |-> seen, lost |-> lost]
  <1>4. window \in Seq(Nat) /\ Len(window) = VadFrame /\ NextContext(window) = EndOf(window, Context)
        /\ EndOf(window, Context) \in Seq(Nat)
    BY <1>2, <1>3, WindowIs, EndIs DEF NextContext
  <1>5. new \in WindowRecords
    BY <1>4 DEF WindowRecords, SileroInv, Numbers
  <1>6. /\ vadWindows' \in Seq(WindowRecords) /\ Len(vadWindows') = l + 1
        /\ \A i \in 1 .. l : vadWindows'[i] = vadWindows[i]
        /\ vadWindows'[l + 1] = new
    <2>1. vadWindows \in Seq(WindowRecords) /\ vadWindows' = Append(vadWindows, new)
      BY <1>1 DEF SileroInv, Numbers
    <2> HIDE DEF new
    <2> QED
      BY <1>2, <1>5, <2>1, AppendProperties
  <1>7. new.window = window /\ new.upto = upto /\ new.ctx = ctx /\ new.seen = seen /\ new.lost = lost
    OBVIOUS
  <1> HIDE DEF new
  <1>8. Remembers' = Remembers
    BY DEF Remembers
  <1>9. ASSUME NEW i \in 0 .. l
        PROVE  /\ (Upto(i))' = Upto(i) /\ (ContextBehind(i))' = ContextBehind(i)
               /\ (StateBehind(i))' = StateBehind(i) /\ (Raised(i))' = Raised(i)
    <2>1. CASE i = 0
      BY <2>1 DEF Upto, ContextBehind, StateBehind, Raised
    <2>2. CASE i # 0
      <3>1. vadWindows'[i] = vadWindows[i]
        BY <1>6, <2>2
      <3> QED
        BY <1>8, <2>2, <3>1 DEF Upto, ContextBehind, StateBehind, Raised
    <2> QED
      BY <2>1, <2>2
  <1>10. /\ (Upto(l + 1))' = upto /\ (Raised(l + 1))' = lost
         /\ (ContextBehind(l + 1))' = IF lost THEN ctx ELSE EndOf(window, Context)
         /\ (StateBehind(l + 1))' = IF lost \/ ~Remembers THEN seen ELSE seen + 1
    <2>1. l + 1 # 0 /\ l + 1 > 0
      OBVIOUS
    <2> QED
      BY <1>6, <1>7, <1>8, <2>1 DEF Upto, ContextBehind, StateBehind, Raised
  <1>11. ASSUME NEW i \in 1 .. l + 1 PROVE WindowTells(i)'
    <2>1. CASE i # l + 1
      <3>1. i \in 0 .. l /\ i - 1 \in 0 .. l /\ i \in 1 .. l
        BY <2>1
      <3>2. WindowTells(i)
        BY <1>2, <3>1 DEF SileroInv, WindowsTell
      <3>3. vadWindows'[i] = vadWindows[i]
        BY <1>6, <3>1
      <3> QED
        BY <1>9, <3>1, <3>2, <3>3 DEF WindowTells
    <2>2. CASE i = l + 1
      <3>1. i - 1 = l /\ l \in 0 .. l
        BY <2>2
      <3>2. ctx = ContextBehind(l) /\ seen = StateBehind(l)
        BY <1>2 DEF SileroInv, WindowsTell
      <3>3. /\ (Upto(i - 1))' = last /\ (Upto(i))' = upto
            /\ (ContextBehind(i - 1))' = ctx /\ (StateBehind(i - 1))' = seen
            /\ (Raised(i - 1))' = Raised(l)
        BY <1>3, <1>9, <1>10, <2>2, <3>1, <3>2
      <3>4. vadWindows'[i] = new
        BY <1>6, <2>2
      <3> QED
        BY <1>2, <1>3, <1>7, <3>3, <3>4 DEF WindowTells
    <2> QED
      BY <2>1, <2>2
  <1>12. WindowsTell'
    BY <1>1, <1>4, <1>6, <1>10, <1>11 DEF WindowsTell
  <1>13. Numbers'
    <2>1. ctx' \in Seq(Nat) /\ seen' \in Nat
      BY <1>1, <1>4 DEF SileroInv, Numbers
    <2>2. start' \in Nat /\ came' \in Nat /\ plan' # NotBound
      BY DEF SileroInv, Numbers
    <2>3. calling' \in BOOLEAN
      BY <1>1
    <2> QED
      BY <1>6, <2>1, <2>2, <2>3 DEF Numbers
  <1>14. RestTells'
    <2>1. came \in Nat /\ came - upto \in Nat
      BY DEF SileroInv, Numbers
    <2>2. Len(frameBuf') = came - upto
      BY <2>1
    <2>3. calling' <=> ~lost /\ came >= upto + VadFrame
      <3>1. Len(frameBuf') >= VadFrame <=> came >= upto + VadFrame
        BY <2>1, <2>2, FrameIs
      <3>2. calling' = (~lost /\ Len(frameBuf') >= VadFrame)
        BY <1>1
      <3> QED
        BY <3>1, <3>2, Zenon
    <2>4. (Upto(Len(vadWindows)))' = upto /\ (Raised(Len(vadWindows)))' = lost
      BY <1>6, <1>10
    <2> QED
      BY <2>1, <2>3, <2>4 DEF RestTells
  <1>15. BoundTells'
    BY DEF SileroInv, BoundTells
  <1> QED
    BY <1>12, <1>13, <1>14, <1>15 DEF SileroInv

LEMMA SileroStart == SileroInit => SileroInv
  <1> SUFFICES ASSUME SileroInit PROVE SileroInv
    OBVIOUS
  <1>1. /\ vadWindows = <<>> /\ Len(vadWindows) = 0 /\ start = 0 /\ came = 0 /\ seen = 0
        /\ ctx = Silence(Context) /\ frameBuf = <<>> /\ plan = NotBound /\ calling = FALSE
    BY DEF SileroInit
  <1>2. Numbers
    <2>1. ctx \in Seq(Nat)
      BY <1>1, FrameIs, SilenceIs
    <2>2. vadWindows \in Seq(WindowRecords) /\ start \in Nat /\ came \in Nat /\ seen \in Nat
      BY <1>1
    <2>3. calling \in BOOLEAN /\ ~calling
      BY <1>1
    <2> QED
      BY <1>1, <2>1, <2>2, <2>3, Zenon DEF Numbers
  <1>3. WindowsTell
    BY <1>1 DEF WindowsTell, ContextBehind, StateBehind
  <1>4. RestTells
    BY <1>1, FrameIs DEF RestTells, Upto
  <1>5. BoundTells
    BY <1>1 DEF BoundTells
  <1> QED
    BY <1>2, <1>3, <1>4, <1>5 DEF SileroInv

\* A step that leaves the windows, the context and the state alone.
LEMMA WindowsStay ==
    ASSUME SileroInv,
           UNCHANGED <<start, ctx, seen, vadWindows>>,
           UNCHANGED <<model, plan>> \/ vadWindows = <<>>
    PROVE  /\ WindowsTell'
           /\ (Upto(Len(vadWindows)))' = Upto(Len(vadWindows))
           /\ (Raised(Len(vadWindows)))' = Raised(Len(vadWindows))
  <1>1. \A i : (Upto(i))' = Upto(i) /\ (ContextBehind(i))' = ContextBehind(i)
                /\ (Raised(i))' = Raised(i)
    BY DEF Upto, ContextBehind, Raised
  <1>2. CASE vadWindows = <<>>
    <2>1. Len(vadWindows) = 0 /\ Len(vadWindows') = 0
      BY <1>2
    <2> QED
      BY <1>1, <2>1 DEF SileroInv, WindowsTell, StateBehind, ContextBehind
  <1>3. CASE UNCHANGED <<model, plan>>
    <2>1. \A i : (StateBehind(i))' = StateBehind(i)
      BY <1>3 DEF StateBehind, Remembers
    <2>2. \A i : (WindowTells(i))' = WindowTells(i)
      BY <1>1, <2>1 DEF WindowTells
    <2> QED
      BY <1>1, <2>1, <2>2 DEF SileroInv, WindowsTell
  <1> QED
    BY <1>2, <1>3

LEMMA ConstructStep == SileroInv /\ Construct => SileroInv'
  <1> SUFFICES ASSUME SileroInv, Construct PROVE SileroInv'
    OBVIOUS
  <1>1. /\ plan = NotBound /\ \E m \in Models : model' = m /\ plan' = Bound(m)
        /\ came' = came /\ start' = start /\ frameBuf' = frameBuf /\ ctx' = ctx
        /\ seen' = seen /\ vadWindows' = vadWindows /\ calling' = calling
    BY DEF Construct
  <1>2. vadWindows = <<>> /\ ~calling
    BY <1>1 DEF SileroInv, Numbers
  <1>3. BoundTells'
    BY <1>1 DEF BoundTells
  <1>4. Numbers'
    BY <1>1, <1>2 DEF SileroInv, Numbers
  <1>5. /\ WindowsTell' /\ (Upto(Len(vadWindows)))' = Upto(Len(vadWindows))
        /\ (Raised(Len(vadWindows)))' = Raised(Len(vadWindows))
    BY <1>1, <1>2, WindowsStay
  <1>6. RestTells'
    BY <1>1, <1>5 DEF SileroInv, RestTells
  <1> QED
    BY <1>3, <1>4, <1>5, <1>6 DEF SileroInv

LEMMA ProbStep == SileroInv /\ Prob => SileroInv'
  <1> SUFFICES ASSUME SileroInv, Prob PROVE SileroInv'
    OBVIOUS
  <1>1. PICK n \in VadBlocks \ {0} :
            came' = came + n /\ frameBuf' = frameBuf \o [i \in 1 .. n |-> came + i]
    BY DEF Prob
  <1>2. /\ ~calling /\ calling' = (Len(frameBuf') >= VadFrame) /\ plan # NotBound
        /\ UNCHANGED <<model, plan, start, ctx, seen, vadWindows>>
    BY DEF Prob, IsBound
  <1>3. n \in Nat
    BY SileroAssumption
  <1> DEFINE new == [i \in 1 .. n |-> came + i]
  <1>4. PICK last \in Nat : last = Upto(Len(vadWindows))
    BY DEF SileroInv, RestTells
  <1>5. came \in Nat /\ last <= came /\ frameBuf = [k \in 1 .. came - last |-> last + k]
    BY <1>4 DEF SileroInv, RestTells, Numbers
  <1>6. PICK x \in Nat : x = came - last /\ x + n = (came + n) - last
    BY <1>3, <1>5
  <1>7. frameBuf \in Seq(Nat) /\ Len(frameBuf) = x /\ \A k \in 1 .. x : frameBuf[k] = last + k
    BY <1>5, <1>6
  <1>8. new \in Seq(Nat) /\ Len(new) = n /\ \A k \in 1 .. n : new[k] = came + k
    BY <1>3, <1>5
  <1> HIDE DEF new
  <1>9. /\ frameBuf' \in Seq(Nat) /\ Len(frameBuf') = x + n
        /\ \A k \in 1 .. x + n : frameBuf'[k] = IF k <= x THEN frameBuf[k] ELSE new[k - x]
    <2>1. frameBuf' = frameBuf \o new
      BY <1>1 DEF new
    <2> QED
      BY <1>7, <1>8, <2>1, ConcatProperties
  <1>10. \A k \in 1 .. x + n : frameBuf'[k] = last + k
    <2> SUFFICES ASSUME NEW k \in 1 .. x + n PROVE frameBuf'[k] = last + k
      OBVIOUS
    <2>1. CASE k <= x
      <3>1. k \in 1 .. x
        BY <2>1
      <3> QED
        BY <1>7, <1>9, <2>1, <3>1
    <2>2. CASE ~(k <= x)
      <3>1. k - x \in 1 .. n /\ came + (k - x) = last + k
        BY <1>3, <1>5, <1>6, <2>2
      <3> QED
        BY <1>8, <1>9, <2>2, <3>1
    <2> QED
      BY <2>1, <2>2
  <1>11. frameBuf' = [k \in 1 .. (came + n) - last |-> last + k]
    <2> DEFINE f == [k \in 1 .. (came + n) - last |-> last + k]
    <2>1. f \in Seq(Nat) /\ Len(f) = x + n /\ \A k \in 1 .. x + n : f[k] = last + k
      BY <1>3, <1>6
    <2> HIDE DEF f
    <2>2. frameBuf' = f
      BY <1>9, <1>10, <2>1, SeqEqual
    <2> QED
      BY <2>2 DEF f
  <1>12. /\ WindowsTell' /\ (Upto(Len(vadWindows)))' = last
         /\ (Raised(Len(vadWindows)))' = Raised(Len(vadWindows))
    BY <1>2, <1>4, WindowsStay
  <1>13. calling' <=> came' >= last + VadFrame
    <2>1. Len(frameBuf') >= VadFrame <=> came' >= last + VadFrame
      BY <1>1, <1>3, <1>5, <1>6, <1>9, FrameIs
    <2> QED
      BY <1>2, <2>1, Zenon
  <1>14. RestTells'
    <2>1. last <= came' /\ frameBuf' = [k \in 1 .. came' - last |-> last + k]
      BY <1>1, <1>3, <1>5, <1>11
    <2> QED
      BY <1>12, <1>13, <2>1 DEF RestTells
  <1>15. Numbers'
    BY <1>1, <1>2, <1>3, <1>5 DEF SileroInv, Numbers
  <1>16. BoundTells'
    BY <1>2 DEF SileroInv, BoundTells
  <1> QED
    BY <1>12, <1>14, <1>15, <1>16 DEF SileroInv

LEMMA ScoreWindowStep == SileroInv /\ ScoreWindow => SileroInv'
  <1> SUFFICES ASSUME SileroInv, ScoreWindow PROVE SileroInv'
    OBVIOUS
  <1> DEFINE window == SubSeq(frameBuf, 1, VadFrame)
  <1>1. /\ calling /\ frameBuf' = SubSeq(frameBuf, VadFrame + 1, Len(frameBuf))
        /\ Infer(window, window[VadFrame]) /\ UNCHANGED <<model, plan, came, start>>
    BY DEF ScoreWindow
  <1>2. PICK last \in Nat : last = Upto(Len(vadWindows))
    BY DEF SileroInv, RestTells
  <1>3. /\ came \in Nat /\ last + VadFrame <= came /\ plan # NotBound
        /\ frameBuf = [k \in 1 .. came - last |-> last + k]
    BY <1>1, <1>2 DEF SileroInv, RestTells, Numbers
  <1>4. PICK f \in Nat, r \in Nat : f = VadFrame /\ f >= 1 /\ came = last + f + r /\ came - last = f + r
    <2>1. came - (last + VadFrame) \in Nat
      BY <1>3, FrameIs
    <2> QED
      BY <1>3, <2>1, FrameIs
  <1>5. frameBuf \in Seq(Nat) /\ Len(frameBuf) = f + r /\ \A k \in 1 .. f + r : frameBuf[k] = last + k
    BY <1>3, <1>4
  <1>6. window \in Seq(Nat) /\ Len(window) = f /\ \A k \in 1 .. f : window[k] = last + k
    <2>1. 1 \in 1 .. f + r + 1 /\ f \in 0 .. f + r /\ \A k \in 1 .. f : frameBuf[k] \in Nat
      BY <1>4, <1>5
    <2>2. window \in Seq(Nat) /\ Len(window) = f /\ \A k \in 1 .. f : window[k] = frameBuf[k]
      BY <1>4, <1>5, <2>1, SubSeqProperties
    <2> QED
      BY <1>5, <2>2
  <1> HIDE DEF window
  <1>7. window[VadFrame] = last + f
    BY <1>4, <1>6
  <1>8. window = WindowOf(last, last + f)
    <2>1. WindowOf(last, last + f) \in Seq(Nat) /\ Len(WindowOf(last, last + f)) = f
      BY <1>4, WindowIs
    <2>2. \A k \in 1 .. f : WindowOf(last, last + f)[k] = last + k
      BY <1>4 DEF WindowOf
    <2> QED
      BY <1>6, <2>1, <2>2, SeqEqual
  <1>9. frameBuf' = [k \in 1 .. came - (last + f) |-> (last + f) + k]
    <2> DEFINE v == [k \in 1 .. r |-> (last + f) + k]
    <2>1. v \in Seq(Nat) /\ Len(v) = r /\ \A k \in 1 .. r : v[k] = (last + f) + k
      OBVIOUS
    <2> HIDE DEF v
    <2> DEFINE g == SubSeq(frameBuf, f + 1, f + r)
    <2>2. g \in Seq(Nat) /\ Len(g) = r /\ \A k \in 1 .. r : g[k] = frameBuf[f + k]
      <3>1. CASE r = 0
        BY <1>4, <1>5, <3>1
      <3>2. CASE r # 0
        <4>1. f + 1 \in 1 .. (f + r) + 1 /\ f + r \in Int /\ \A k \in f + 1 .. f + r : frameBuf[k] \in Nat
          BY <1>4, <1>5
        <4>2. g \in Seq(Nat) /\ Len(g) = r
          BY <1>4, <1>5, <3>2, <4>1, SubSeqProperties
        <4>3. \A k \in 1 .. r : g[k] = frameBuf[f + k]
          BY <1>4, <1>5, <3>2, <4>1, SubSeqProperties
        <4> QED
          BY <4>2, <4>3
      <3> QED
        BY <3>1, <3>2
    <2>3. frameBuf' = g
      BY <1>1, <1>4, <1>5
    <2> HIDE DEF g
    <2>4. \A k \in 1 .. r : g[k] = v[k]
      <3> SUFFICES ASSUME NEW k \in 1 .. r PROVE g[k] = v[k]
        OBVIOUS
      <3>1. f + k \in 1 .. f + r /\ last + (f + k) = (last + f) + k
        OBVIOUS
      <3> QED
        BY <1>5, <2>1, <2>2, <3>1
    <2>5. frameBuf' = v
      BY <2>1, <2>2, <2>3, <2>4, SeqEqual
    <2>6. came - (last + f) = r
      BY <1>4
    <2> QED
      BY <2>5, <2>6 DEF v
  <1>10. /\ last + f \in Nat /\ last < last + f /\ last + f <= came /\ ~(last + f > last + VadFrame)
    BY <1>4
  <1>11. Infer(window, last + f)
    BY <1>1, <1>7
  <1> QED
    BY <1>1, <1>2, <1>3, <1>8, <1>9, <1>10, <1>11, WindowStep

LEMMA FlushStep == SileroInv /\ FlushProb => SileroInv'
  <1> SUFFICES ASSUME SileroInv, FlushProb PROVE SileroInv'
    OBVIOUS
  <1> DEFINE window == [k \in 1 .. VadFrame |-> IF k <= Len(frameBuf) THEN frameBuf[k] ELSE 0]
  <1>1. /\ plan # NotBound /\ ~calling /\ frameBuf # <<>> /\ Infer(window, came)
        /\ frameBuf' = <<>> /\ UNCHANGED <<model, plan, came, start>>
    BY DEF FlushProb, IsBound
  <1>2. PICK last \in Nat : last = Upto(Len(vadWindows))
    BY DEF SileroInv, RestTells
  <1>3. /\ came \in Nat /\ last <= came /\ frameBuf = [k \in 1 .. came - last |-> last + k]
        /\ came >= last + VadFrame => Raised(Len(vadWindows))
    BY <1>1, <1>2 DEF SileroInv, RestTells, Numbers
  <1>4. PICK x \in Nat : x = came - last /\ last + x = came
    BY <1>3
  <1>5. Len(frameBuf) = x /\ (\A k \in 1 .. x : frameBuf[k] = last + k) /\ x # 0
    <2>1. frameBuf \in Seq(Nat) /\ Len(frameBuf) = x /\ \A k \in 1 .. x : frameBuf[k] = last + k
      BY <1>3, <1>4
    <2> QED
      BY <1>1, <2>1
  <1>6. window = WindowOf(last, came)
    <2>1. ASSUME NEW k \in 1 .. VadFrame
          PROVE  (IF k <= Len(frameBuf) THEN frameBuf[k] ELSE 0) = (IF last + k <= came THEN last + k ELSE 0)
      <3>1. k <= Len(frameBuf) <=> last + k <= came
        BY <1>3, <1>4, <1>5, FrameIs
      <3>2. k <= Len(frameBuf) => frameBuf[k] = last + k
        BY <1>5, FrameIs
      <3> QED
        BY <3>1, <3>2
    <2> QED
      BY <2>1 DEF WindowOf
  <1> HIDE DEF window
  <1>7. last < came /\ came <= came /\ (came > last + VadFrame => Raised(Len(vadWindows)))
    <2>1. last < came
      BY <1>3, <1>4, <1>5
    <2>2. came > last + VadFrame => came >= last + VadFrame
      BY <1>3, FrameIs
    <2> QED
      BY <1>3, <2>1, <2>2
  <1>8. frameBuf' = [k \in 1 .. came - came |-> came + k]
    <2>1. came - came = 0
      BY <1>3
    <2> QED
      BY <1>1, <2>1
  <1> QED
    BY <1>1, <1>2, <1>3, <1>6, <1>7, <1>8, WindowStep

LEMMA ResetStep == SileroInv /\ ResetVad => SileroInv'
  <1> SUFFICES ASSUME SileroInv, ResetVad PROVE SileroInv'
    OBVIOUS
  <1>1. /\ start' = came /\ came' = came /\ vadWindows' = <<>> /\ frameBuf' = <<>> /\ ~calling
        /\ ctx' = Silence(Context) /\ seen' = 0 /\ UNCHANGED <<model, plan, calling>>
    BY DEF ResetVad, Kept
  <1>2. came \in Nat
    BY DEF SileroInv, Numbers
  <1>3. Len(vadWindows') = 0 /\ (Upto(Len(vadWindows)))' = came
    BY <1>1 DEF Upto
  <1>4. Numbers'
    <2>1. Silence(Context) \in Seq(Nat)
      BY FrameIs, SilenceIs
    <2> QED
      BY <1>1, <1>2, <2>1 DEF SileroInv, Numbers
  <1>5. WindowsTell'
    BY <1>1, <1>3 DEF WindowsTell, ContextBehind, StateBehind
  <1>6. RestTells'
    <2>1. [k \in 1 .. came - came |-> came + k] = <<>> /\ ~(came >= came + VadFrame)
      BY <1>2, FrameIs
    <2> QED
      BY <1>1, <1>2, <1>3, <2>1 DEF RestTells
  <1>7. BoundTells'
    BY <1>1 DEF SileroInv, BoundTells
  <1> QED
    BY <1>4, <1>5, <1>6, <1>7 DEF SileroInv

LEMMA SileroStep == SileroInv /\ [SileroNext]_sileroVars => SileroInv'
  <1> SUFFICES ASSUME SileroInv, [SileroNext]_sileroVars PROVE SileroInv'
    OBVIOUS
  <1>1. CASE UNCHANGED sileroVars
    <2>1. /\ model' = model /\ plan' = plan /\ came' = came /\ start' = start
          /\ frameBuf' = frameBuf /\ ctx' = ctx /\ seen' = seen
          /\ vadWindows' = vadWindows /\ calling' = calling
      BY <1>1 DEF sileroVars
    <2>2. /\ WindowsTell' /\ (Upto(Len(vadWindows)))' = Upto(Len(vadWindows))
          /\ (Raised(Len(vadWindows)))' = Raised(Len(vadWindows))
      BY <2>1, WindowsStay
    <2>3. BoundTells' /\ Numbers'
      BY <2>1 DEF SileroInv, BoundTells, Numbers
    <2>4. RestTells'
      BY <2>1, <2>2 DEF SileroInv, RestTells
    <2> QED
      BY <2>2, <2>3, <2>4 DEF SileroInv
  <1> QED
    BY <1>1, ConstructStep, ProbStep, ScoreWindowStep, FlushStep, ResetStep DEF SileroNext

LEMMA StreamIsOne == SileroInv => ScoredWithMemory
  <1> SUFFICES ASSUME SileroInv PROVE ScoredWithMemory
    OBVIOUS
  <1>1. DOMAIN vadWindows = 1 .. Len(vadWindows)
    BY DEF SileroInv, Numbers
  <1>2. ScoredInOrder
    BY <1>1 DEF SileroInv, WindowsTell, WindowTells, RestTells, ScoredInOrder
  <1>3. MemoryIsUsed
    BY MemoryUsed DEF SileroInv
  <1> QED
    BY <1>2, <1>3 DEF ScoredWithMemory

\* The detector hears the audio as one stream, whatever the blocks in which the
\* samples come: each is scored once and in order, with the context and the state
\* that the last scored window left.  A call of the model that raises costs its own
\* window, and a flush right behind it what that call had left.
THEOREM AudioIsOneStream == SileroSpec => []ScoredWithMemory
  <1>1. SileroSpec => []SileroInv
    BY SileroStart, SileroStep, PTL DEF SileroSpec
  <1> QED
    BY <1>1, StreamIsOne, PTL

===============================================================================
