--------------------------- MODULE TurnPartsProofs ---------------------------
(***************************************************************************)
(* Theorems about what a turn is made of: the worker that speaks the reply *)
(* implements SpeechOutput, the loading of the emotion model costs no turn *)
(* its voice, what enrolment and feelings leave behind, and the prompt     *)
(* keeps to its budget.                                                    *)
(***************************************************************************)
EXTENDS SpeakWorker, EmotionLoading, TurnPerception, PromptContext, WellFoundedInduction, TLAPS

(***************************************************************************)
(* The speak worker.  Type correctness.                                    *)
(***************************************************************************)

LEMMA TypeInit == Init => TypeOK
  <1> SUFFICES ASSUME Init PROVE TypeOK
    OBVIOUS
  <1>1. ordered \in Seq(Chunks \cup {None}) /\ sent \in Seq(Chunks)
    BY DEF Init
  <1>2. emitted \in 0 .. MaxChunks /\ taken \in 0 .. emitted /\ due \in 0 .. taken
    BY ChunksAssumption DEF Init
  <1> QED
    BY <1>1, <1>2 DEF Init, TypeOK

LEMMA TypeNext == TypeOK /\ [Next]_vars => TypeOK'
  <1> SUFFICES ASSUME TypeOK, [Next]_vars PROVE TypeOK'
    OBVIOUS
  <1> USE ChunksAssumption
  <1>1. CASE UNCHANGED vars
    BY <1>1 DEF vars, TypeOK
  <1>2. CASE Emit
    BY <1>2 DEF Emit, TypeOK
  <1>3. CASE EndReply
    BY <1>3 DEF EndReply, TypeOK
  <1>4. CASE Cut
    BY <1>4 DEF Cut, Wind, TypeOK
  <1>5. CASE Pump
    BY <1>5 DEF Pump, TypeOK
  <1>6. ASSUME NEW n \in Chunks, SynthStep(n) PROVE TypeOK'
    <2>1. CASE Register(n)
      BY <2>1 DEF Register, TypeOK
    <2>2. CASE Begin(n)
      BY <2>2 DEF Begin, TypeOK
    <2>3. CASE Synthesized(n)
      BY <2>3 DEF Synthesized, TypeOK
    <2> QED
      BY <1>6, <2>1, <2>2, <2>3 DEF SynthStep
  <1>7. CASE Take
    <2>1. Head(ordered) \in Chunks /\ Tail(ordered) \in Seq(Chunks \cup {None})
      BY <1>7 DEF Take, NextOrdered, TypeOK
    <2> QED
      BY <1>7, <2>1 DEF Take, NextOrdered, TypeOK
  <1>8. CASE Finish
    <2>1. ordered' \in Seq(Chunks \cup {None})
      BY <1>8 DEF Finish, NextOrdered, TypeOK
    <2>2. synth' \in [Chunks -> {"none", "created", "waiting", "busy", "done", "cancelled"}]
      BY <1>8 DEF Finish, Wind, TypeOK
    <2> QED
      BY <1>8, <2>1, <2>2 DEF Finish, Wind, TypeOK
  <1>9. CASE Send
    BY <1>9 DEF Send, TypeOK
  <1> QED
    BY <1>1, <1>2, <1>3, <1>4, <1>5, <1>6, <1>7, <1>8, <1>9 DEF Next

\* The variables of the worker keep their types.
THEOREM WorkerTyped == Spec => []TypeOK
  BY TypeInit, TypeNext, PTL DEF Spec

-----------------------------------------------------------------------------
(***************************************************************************)
(* The line of chunks.  While the worker runs, the chunks below lo have    *)
(* been taken by the sender, those from lo to hi are in "ordered", and     *)
(* those behind hi are still to be registered.  The end mark is behind the *)
(* chunks that were due when the text ended, and before all others.        *)
(***************************************************************************)

\* Registered chunks, and the end mark behind the last that is due.
Registered(lo, hi) ==
    /\ lo <= hi + 1
    /\ hi <= due
    /\ \A n \in Chunks : synth[n] = "none" <=> n > taken
    /\ IF pumping
         THEN /\ \A n \in Chunks : synth[n] = "created" <=> hi < n /\ n <= taken
              /\ Len(ordered) = hi - lo + 1
         ELSE /\ Len(ordered) >= hi - lo + 2
              /\ ordered[hi - lo + 2] = None
              /\ hi = due
    /\ \A i \in 1 .. hi - lo + 1 : ordered[i] = lo + i - 1

\* Chunks that have passed the sender.
Passed(lo) ==
    /\ inHand # None => inHand = lo - 1
    /\ \A n \in Chunks : n < lo /\ n # inHand
         => pcm[n] = "nothing" \/ \E i \in 1 .. Len(sent) : sent[i] = n
    /\ \A i \in 1 .. Len(sent) : sent[i] < lo /\ sent[i] # inHand

Ended ==
    /\ pumping => due = taken
    /\ ~pumping => ended \/ over # "no"
    /\ over # "no" => /\ ~pumping
                      /\ \A n \in Chunks : synth[n] \in {"none", "done", "cancelled"}

Sounds ==
    /\ \A n \in Chunks : pcm[n] # "none" => synth[n] = "done"
    /\ \A i \in 1 .. Len(sent) : pcm[sent[i]] = "audio"

InLine ==
    over = "no" => \E lo \in 1 .. MaxChunks + 1, hi \in 0 .. MaxChunks :
                       Registered(lo, hi) /\ Passed(lo)

LineInv == TypeOK /\ Ended /\ Sounds /\ InLine

LEMMA LineInit == Init => LineInv
  <1> SUFFICES ASSUME Init PROVE LineInv
    OBVIOUS
  <1>1. TypeOK
    BY TypeInit
  <1>2. Ended /\ Sounds
    BY DEF Init, Ended, Sounds
  <1>3. Registered(1, 0) /\ Passed(1)
    BY DEF Init, Registered, Passed, Chunks, None
  <1>4. 1 \in 1 .. MaxChunks + 1 /\ 0 \in 0 .. MaxChunks
    BY ChunksAssumption
  <1> QED
    BY <1>1, <1>2, <1>3, <1>4 DEF LineInv, InLine

LEMMA LineNext == ASSUME LineInv, [Next]_vars PROVE LineInv'
  <1>1. TypeOK /\ TypeOK'
    BY TypeNext DEF LineInv
  <1>2. CASE UNCHANGED vars
    BY <1>1, <1>2 DEF vars, LineInv, Ended, Sounds, InLine, Registered, Passed
  <1>3. CASE Cut
    BY <1>1, <1>3 DEF Cut, Wind, LineInv, Ended, Sounds, InLine, TypeOK
  <1>4. CASE Finish
    BY <1>1, <1>4 DEF Finish, NextOrdered, Wind, LineInv, Ended, Sounds, InLine, TypeOK
  <1>5. ASSUME over = "no",
               Emit \/ EndReply \/ Pump \/ (\E n \in Chunks : SynthStep(n)) \/ Take \/ Send
        PROVE  LineInv'
    <2>1. PICK lo \in 1 .. MaxChunks + 1, hi \in 0 .. MaxChunks :
                 Registered(lo, hi) /\ Passed(lo)
      BY <1>5 DEF LineInv, InLine
    <2>2. /\ lo \in Nat /\ hi \in Nat /\ emitted \in Nat /\ taken \in Nat
          /\ taken <= emitted /\ emitted <= MaxChunks /\ due \in Nat /\ due <= taken
      BY <1>1, ChunksAssumption DEF TypeOK
    <2>3. CASE Emit
      <3>1. Ended' /\ Sounds'
        BY <1>5, <2>3 DEF Emit, LineInv, Ended, Sounds
      <3>2. pumping
        BY <1>5, <2>3 DEF Emit, LineInv, Ended
      <3>3. Registered(lo, hi)' /\ Passed(lo)'
        BY <2>1, <2>3, <3>2 DEF Emit, Registered, Passed
      <3> QED
        BY <1>1, <3>1, <3>3 DEF LineInv, InLine
    <2>4. CASE EndReply
      <3>1. Ended' /\ Sounds'
        BY <1>5, <2>4 DEF EndReply, LineInv, Ended, Sounds
      <3>2. Registered(lo, hi)' /\ Passed(lo)'
        BY <2>1, <2>4 DEF EndReply, Registered, Passed
      <3> QED
        BY <1>1, <3>1, <3>2 DEF LineInv, InLine
    <2>5. CASE Pump
      <3>1. \A n \in Chunks : synth[n] # "created"
        BY <2>5 DEF Pump, NewTask
      <3>2. hi = taken /\ due = taken
        <4>1. pumping /\ due = taken
          BY <2>5 DEF Pump, LineInv, Ended
        <4>2. hi < taken => hi + 1 \in Chunks /\ synth[hi + 1] = "created"
          BY <2>1, <2>2, <4>1, ChunksAssumption DEF Registered, Chunks
        <4> QED
          BY <2>1, <2>2, <3>1, <4>1, <4>2 DEF Registered
      <3>3. /\ taken' = emitted /\ due' = IF ended THEN due ELSE emitted
            /\ \A n \in Chunks : synth'[n] = IF taken < n /\ n <= emitted
                                               THEN "created" ELSE synth[n]
            /\ UNCHANGED <<emitted, ended, pcm, inHand, sent, over>>
            /\ pumping /\ pumping' = ~ended
        BY <2>2, <2>5 DEF Pump, Chunks
      <3>4. Passed(lo)'
        BY <2>1, <3>3 DEF Passed
      <3>5. Ended' /\ Sounds'
        BY <1>5, <2>1, <3>3 DEF LineInv, Ended, Sounds, Registered, Chunks
      <3>6. /\ \A n \in Chunks : synth'[n] = "none" <=> n > emitted
            /\ \A n \in Chunks : synth'[n] = "created" <=> hi < n /\ n <= emitted
            /\ lo <= hi + 1 /\ hi <= due'
        BY <2>1, <2>2, <3>1, <3>2, <3>3 DEF Registered, Chunks
      <3>7. CASE ended
        <4>1. ordered' = Append(ordered, None) /\ hi = due'
          BY <2>5, <3>2, <3>3, <3>7 DEF Pump
        <4>2. ordered \in Seq(Chunks \cup {None}) /\ Len(ordered) = hi - lo + 1
          BY <1>1, <2>1, <3>3 DEF TypeOK, Registered
        <4>3. /\ Len(ordered') = hi - lo + 2
              /\ ordered'[hi - lo + 2] = None
              /\ \A i \in 1 .. hi - lo + 1 : ordered'[i] = ordered[i]
          BY <2>2, <4>1, <4>2
        <4>4. \A i \in 1 .. hi - lo + 1 : ordered'[i] = lo + i - 1
          BY <2>1, <4>3 DEF Registered
        <4>5. Len(ordered') >= hi - lo + 2
          BY <2>2, <4>3
        <4>6. Registered(lo, hi)'
          BY <3>3, <3>6, <3>7, <4>1, <4>3, <4>4, <4>5 DEF Registered
        <4> QED
          BY <1>1, <3>4, <3>5, <4>6 DEF LineInv, InLine
      <3>8. CASE ~ended
        <4>1. ordered' = ordered
          BY <2>5, <3>8 DEF Pump
        <4>2. Registered(lo, hi)'
          BY <2>1, <3>3, <3>6, <3>8, <4>1 DEF Registered
        <4> QED
          BY <1>1, <3>4, <3>5, <4>2 DEF LineInv, InLine
      <3> QED
        BY <3>7, <3>8
    <2>6. ASSUME NEW n \in Chunks, SynthStep(n) PROVE LineInv'
      <3>1. CASE Register(n)
        <4>1. /\ synth[n] = "created" /\ synth' = [synth EXCEPT ![n] = "waiting"]
              /\ ordered' = Append(ordered, n)
              /\ UNCHANGED <<emitted, ended, taken, due, pumping, pcm, inHand, sent, over>>
          BY <3>1 DEF Register
        <4>2. Ended' /\ Sounds'
          BY <1>1, <4>1 DEF LineInv, Ended, Sounds, TypeOK
        <4>3. CASE pumping
          <5>1. n = hi + 1
            <6>1. hi < n /\ n <= taken
              BY <2>1, <4>1, <4>3 DEF Registered
            <6>2. CASE hi + 1 < n
              <7>1. hi + 1 \in Chunks /\ hi + 1 \in 1 .. n - 1
                BY <2>2, <6>1, <6>2, ChunksAssumption DEF Chunks
              <7>2. synth[hi + 1] = "created"
                BY <2>1, <2>2, <4>3, <6>1, <6>2, <7>1 DEF Registered, Chunks
              <7> QED
                BY <3>1, <7>1, <7>2 DEF Register
            <6> QED
              BY <2>2, <6>1, <6>2 DEF Chunks
          <5>2. ordered \in Seq(Chunks \cup {None}) /\ Len(ordered) = hi - lo + 1
            BY <1>1, <2>1, <4>3 DEF TypeOK, Registered
          <5>3. /\ Len(ordered') = (hi + 1) - lo + 1
                /\ \A i \in 1 .. (hi + 1) - lo + 1 : ordered'[i] = lo + i - 1
            <6>1. Len(ordered') = Len(ordered) + 1 /\ ordered'[Len(ordered) + 1] = n
              BY <4>1, <5>2
            <6>2. \A i \in 1 .. hi - lo + 1 : ordered'[i] = ordered[i]
              BY <2>2, <4>1, <5>2
            <6>3. Len(ordered') = (hi + 1) - lo + 1
              BY <2>2, <5>2, <6>1
            <6>4. ASSUME NEW i \in 1 .. (hi + 1) - lo + 1 PROVE ordered'[i] = lo + i - 1
              <7>1. CASE i = hi - lo + 2
                BY <2>2, <5>1, <5>2, <6>1, <7>1
              <7>2. CASE i \in 1 .. hi - lo + 1
                BY <2>1, <6>2, <7>2 DEF Registered
              <7>3. i = hi - lo + 2 \/ i \in 1 .. hi - lo + 1
                BY <2>2, <6>4
              <7> QED
                BY <7>1, <7>2, <7>3
            <6> QED
              BY <6>3, <6>4
          <5>4. /\ \A m \in Chunks : synth'[m] = "none" <=> m > taken
                /\ \A m \in Chunks : synth'[m] = "created" <=> hi + 1 < m /\ m <= taken
                /\ lo <= (hi + 1) + 1 /\ hi + 1 <= taken /\ due = taken
            BY <1>1, <2>1, <2>2, <4>1, <4>3, <5>1 DEF Registered, TypeOK, Chunks, LineInv, Ended
          <5>5. Registered(lo, hi + 1)' /\ Passed(lo)'
            BY <2>1, <4>1, <4>3, <5>3, <5>4 DEF Registered, Passed
          <5>6. hi + 1 \in 0 .. MaxChunks
            BY <5>1, ChunksAssumption DEF Chunks
          <5> QED
            BY <1>1, <4>2, <5>5, <5>6 DEF LineInv, InLine
        <4>4. CASE ~pumping
          <5>1. /\ ordered \in Seq(Chunks \cup {None}) /\ Len(ordered) >= hi - lo + 2
                /\ Len(ordered) \in Nat
            BY <1>1, <2>1, <4>4 DEF TypeOK, Registered
          <5>2. /\ Len(ordered') = Len(ordered) + 1
                /\ \A i \in 1 .. Len(ordered) : ordered'[i] = ordered[i]
            BY <4>1, <5>1
          <5>3. Len(ordered') >= hi - lo + 2
            BY <2>2, <5>1, <5>2
          <5>4. \A i \in 1 .. hi - lo + 2 : ordered'[i] = ordered[i]
            BY <2>2, <5>1, <5>2
          <5>5. /\ \A i \in 1 .. hi - lo + 1 : ordered'[i] = lo + i - 1
                /\ ordered'[hi - lo + 2] = None
            <6>1. 1 .. hi - lo + 1 \subseteq 1 .. hi - lo + 2
              BY <2>2
            <6>2. hi - lo + 2 \in 1 .. hi - lo + 2
              BY <2>1, <2>2 DEF Registered
            <6> QED
              BY <2>1, <4>4, <5>4, <6>1, <6>2 DEF Registered
          <5>6. \A m \in Chunks : synth'[m] = "none" <=> m > taken
            BY <1>1, <2>1, <4>1 DEF Registered, TypeOK
          <5>7. Registered(lo, hi)' /\ Passed(lo)'
            BY <2>1, <4>1, <4>4, <5>3, <5>5, <5>6 DEF Registered, Passed
          <5> QED
            BY <1>1, <4>2, <5>7 DEF LineInv, InLine
        <4> QED
          BY <4>3, <4>4
      <3>2. CASE Begin(n)
        <4>1. Registered(lo, hi)' /\ Passed(lo)'
          BY <1>1, <2>1, <3>2 DEF Begin, Registered, Passed, TypeOK
        <4>2. Ended' /\ Sounds'
          BY <1>1, <1>5, <3>2 DEF Begin, LineInv, Ended, Sounds, TypeOK
        <4> QED
          BY <1>1, <4>1, <4>2 DEF LineInv, InLine
      <3>3. CASE Synthesized(n)
        <4>1. pcm[n] = "none" /\ \A m \in Chunks : m # n => pcm'[m] = pcm[m]
          BY <1>1, <3>3 DEF Synthesized, LineInv, Sounds, TypeOK
        <4>2. Ended' /\ Sounds'
          BY <1>1, <1>5, <3>3, <4>1 DEF Synthesized, LineInv, Ended, Sounds, TypeOK
        <4>3. Registered(lo, hi)'
          BY <1>1, <2>1, <3>3 DEF Synthesized, Registered, TypeOK
        <4>4. Passed(lo)'
          BY <1>1, <2>1, <3>3, <4>1 DEF Synthesized, Passed
        <4> QED
          BY <1>1, <4>2, <4>3, <4>4 DEF LineInv, InLine
      <3> QED
        BY <2>6, <3>1, <3>2, <3>3 DEF SynthStep
    <2>7. CASE Take
      <3>1. /\ inHand = None /\ ordered # <<>> /\ Head(ordered) # None
            /\ ordered' = Tail(ordered) /\ inHand' = Head(ordered)
            /\ UNCHANGED <<emitted, ended, taken, due, pumping, synth, pcm, sent, over>>
        BY <2>7 DEF Take, NextOrdered
      <3>2. /\ ordered \in Seq(Chunks \cup {None}) /\ Head(ordered) = ordered[1]
            /\ Len(ordered) \in Nat \ {0} /\ Len(ordered') = Len(ordered) - 1
            /\ \A i \in 1 .. Len(ordered) - 1 : ordered'[i] = ordered[i + 1]
        BY <1>1, <3>1 DEF TypeOK
      <3>3. lo <= hi /\ inHand' = lo
        <4>1. lo <= hi + 1
          BY <2>1 DEF Registered
        <4>2. CASE lo = hi + 1
          BY <2>1, <2>2, <3>1, <3>2, <4>2 DEF Registered
        <4>3. CASE lo <= hi
          <5>1. 1 \in 1 .. hi - lo + 1
            BY <2>2, <4>3
          <5>2. ordered[1] = lo
            BY <2>1, <2>2, <5>1 DEF Registered
          <5> QED
            BY <3>1, <3>2, <4>3, <5>2
        <4> QED
          BY <2>2, <4>1, <4>2, <4>3
      <3>4. Ended' /\ Sounds'
        BY <3>1 DEF LineInv, Ended, Sounds
      <3>5. \A i \in 1 .. hi - (lo + 1) + 1 : ordered'[i] = (lo + 1) + i - 1
        <4> SUFFICES ASSUME NEW i \in 1 .. hi - (lo + 1) + 1
                     PROVE  ordered'[i] = (lo + 1) + i - 1
          OBVIOUS
        <4>1. Len(ordered) >= hi - lo + 1
          BY <2>1, <2>2, <3>2 DEF Registered
        <4>2. i + 1 \in 1 .. hi - lo + 1 /\ i \in 1 .. Len(ordered) - 1
          BY <2>2, <3>2, <4>1
        <4> QED
          BY <2>1, <2>2, <3>2, <4>2 DEF Registered
      <3>6. Registered(lo + 1, hi)'
        <4>1. /\ lo + 1 <= hi + 1 /\ hi <= due'
              /\ \A n \in Chunks : synth'[n] = "none" <=> n > taken'
          BY <2>1, <2>2, <3>1, <3>3 DEF Registered
        <4>2. IF pumping'
                THEN /\ \A n \in Chunks : synth'[n] = "created" <=> hi < n /\ n <= taken'
                     /\ Len(ordered') = hi - (lo + 1) + 1
                ELSE /\ Len(ordered') >= hi - (lo + 1) + 2
                     /\ ordered'[hi - (lo + 1) + 2] = None
                     /\ hi = due'
          <5>1. CASE pumping
            <6>1. Len(ordered') = hi - (lo + 1) + 1
              BY <2>1, <2>2, <3>2, <5>1 DEF Registered
            <6>2. \A n \in Chunks : synth[n] = "created" <=> hi < n /\ n <= taken
              BY <2>1, <5>1 DEF Registered
            <6> QED
              BY <3>1, <5>1, <6>1, <6>2
          <5>2. CASE ~pumping
            <6>1. Len(ordered) >= hi - lo + 2 /\ ordered[hi - lo + 2] = None /\ hi = due
              BY <2>1, <5>2 DEF Registered
            <6>2. Len(ordered') >= hi - lo + 1 /\ hi - lo + 1 \in 1 .. Len(ordered) - 1
              BY <2>2, <3>2, <3>3, <6>1
            <6>3. ordered'[hi - lo + 1] = ordered[(hi - lo + 1) + 1]
              BY <3>2, <6>2
            <6>4. hi - (lo + 1) + 2 = hi - lo + 1 /\ (hi - lo + 1) + 1 = hi - lo + 2
              BY <2>2
            <6> QED
              BY <3>1, <5>2, <6>1, <6>2, <6>3, <6>4
          <5> QED
            BY <5>1, <5>2
        <4> QED
          BY <3>5, <4>1, <4>2 DEF Registered
      <3>7. Passed(lo + 1)'
        <4>1. \A m \in Chunks : m < lo + 1 /\ m # lo => m < lo /\ m # inHand
          BY <2>2, <3>1 DEF Chunks, None
        <4>2. \A i \in 1 .. Len(sent) : sent[i] \in Chunks
          BY <1>1 DEF TypeOK
        <4>3. \A i \in 1 .. Len(sent) : sent[i] < lo + 1 /\ sent[i] # lo
          BY <2>1, <2>2, <4>2 DEF Passed, Chunks
        <4>4. lo = (lo + 1) - 1
          BY <2>2
        <4> QED
          BY <2>1, <3>1, <3>3, <4>1, <4>3, <4>4 DEF Passed
      <3>8. lo + 1 \in 1 .. MaxChunks + 1
        BY <2>2, <3>3, ChunksAssumption
      <3> QED
        BY <1>1, <3>4, <3>6, <3>7, <3>8 DEF LineInv, InLine
    <2>8. CASE Send
      <3>1. /\ inHand \in Chunks /\ pcm[inHand] \in {"audio", "nothing"} /\ inHand = lo - 1
            /\ sent' = IF pcm[inHand] = "audio" THEN Append(sent, inHand) ELSE sent
            /\ inHand' = None
            /\ UNCHANGED <<emitted, ended, taken, due, pumping, synth, pcm, ordered, over>>
        BY <1>1, <2>1, <2>8 DEF Send, Passed, TypeOK
      <3>2. /\ Len(sent) \in Nat
            /\ \A i \in 1 .. Len(sent) : sent[i] \in Chunks
            /\ \A i \in 1 .. Len(sent) : sent'[i] = sent[i]
            /\ IF pcm[inHand] = "audio"
                 THEN Len(sent') = Len(sent) + 1 /\ sent'[Len(sent) + 1] = inHand
                 ELSE sent' = sent
        BY <1>1, <3>1 DEF TypeOK
      <3>3. Ended' /\ Sounds'
        BY <3>1, <3>2 DEF LineInv, Ended, Sounds
      <3>4. Registered(lo, hi)'
        BY <2>1, <3>1 DEF Registered
      <3>5. Passed(lo)'
        <4>1. \A i \in 1 .. Len(sent') : sent'[i] < lo /\ sent'[i] # None
          BY <2>1, <2>2, <3>1, <3>2 DEF Passed, Chunks, None
        <4>2. \A m \in Chunks : m < lo =>
                  pcm[m] = "nothing" \/ \E i \in 1 .. Len(sent') : sent'[i] = m
          <5>1. \A m \in Chunks : m < lo /\ m # inHand =>
                    pcm[m] = "nothing" \/ \E i \in 1 .. Len(sent') : sent'[i] = m
            BY <2>1, <3>2 DEF Passed
          <5>2. pcm[inHand] = "nothing" \/ \E i \in 1 .. Len(sent') : sent'[i] = inHand
            BY <3>1, <3>2
          <5> QED
            BY <5>1, <5>2
        <4> QED
          BY <3>1, <4>1, <4>2 DEF Passed
      <3> QED
        BY <1>1, <3>3, <3>4, <3>5 DEF LineInv, InLine
    <2> QED
      BY <1>5, <2>3, <2>4, <2>5, <2>6, <2>7, <2>8
  <1>6. over = "no" \/ UNCHANGED vars
    BY <1>1 DEF Next, Emit, EndReply, Cut, Pump, SynthStep, Register, Begin, Synthesized, Take,
                Finish, NextOrdered, Send, LineInv, Ended
  <1> QED
    BY <1>2, <1>3, <1>4, <1>5, <1>6 DEF Next

-----------------------------------------------------------------------------
(***************************************************************************)
(* The refinement: the sender speaks the chunk in its hand, which is the   *)
(* next of those that have a sound; a synthesis without a result silences  *)
(* its chunk; everything else is a stutter of SpeechOutput.                *)
(***************************************************************************)

LEMMA OutputInit == Init => Output!Init
  BY DEF Init, Output!Init

\* What SpeechOutput has dealt with, in terms of the worker.
LEMMA DealtIs ==
    ASSUME NEW n \in Chunks
    PROVE  n \in Output!Dealt <=> pcm[n] = "nothing" \/ \E i \in 1 .. Len(sent) : sent[i] = n
  BY DEF Output!Dealt

LEMMA OutputNext ==
    ASSUME LineInv, [Next]_vars
    PROVE  [Output!Next]_Output!vars
  <1>1. TypeOK
    BY DEF LineInv
  <1>2. CASE UNCHANGED vars
    BY <1>2 DEF vars, Output!vars
  <1>3. CASE Emit
    BY <1>3 DEF Emit, Output!Next, Output!Emit
  <1>4. CASE Cut
    BY <1>4 DEF Cut, Wind, Output!Next, Output!CutOff
  <1>5. CASE EndReply \/ Pump \/ Take
    <2>1. CASE EndReply
      BY <2>1 DEF EndReply, Output!Next, Output!End
    <2>2. CASE Pump
      <3>1. over = "no" /\ UNCHANGED <<emitted, ended, pcm, sent, over>>
        BY <2>2 DEF Pump, LineInv, Ended
      <3>2. due' = IF ended THEN due ELSE emitted
        BY <2>2 DEF Pump
      <3> QED
        BY <3>1, <3>2 DEF Output!Next, Output!FallDue, Output!vars
    <2>3. CASE Take
      BY <2>3 DEF Take, Output!vars
    <2> QED
      BY <1>5, <2>1, <2>2, <2>3
  <1>6. ASSUME NEW n \in Chunks, SynthStep(n) PROVE [Output!Next]_Output!vars
    <2>1. CASE Register(n) \/ Begin(n)
      BY <2>1 DEF Register, Begin, Output!vars
    <2>2. CASE Synthesized(n)
      <3>1. /\ synth[n] = "busy"
            /\ UNCHANGED <<emitted, ended, due, sent, over>>
            /\ \E result \in {"audio", "nothing"} : pcm' = [pcm EXCEPT ![n] = result]
        BY <2>2 DEF Synthesized
      <3>2. over = "no" /\ pcm[n] = "none"
        BY <3>1 DEF LineInv, Ended, Sounds
      <3>3. n \in 1 .. emitted
        <4>1. PICK lo \in 1 .. MaxChunks + 1, hi \in 0 .. MaxChunks : Registered(lo, hi)
          BY <3>2 DEF LineInv, InLine
        <4>2. ~(n > taken)
          BY <3>1, <4>1 DEF Registered
        <4> QED
          BY <1>1, <4>2, ChunksAssumption DEF TypeOK, Chunks
      <3>4. n \notin Output!Dealt
        BY <3>2, DealtIs DEF LineInv, Sounds
      <3>5. CASE pcm' = [pcm EXCEPT ![n] = "audio"]
        <4>1. \A m \in Chunks : pcm'[m] = "nothing" <=> pcm[m] = "nothing"
          BY <1>1, <3>2, <3>5 DEF TypeOK
        <4>2. {m \in Chunks : pcm'[m] = "nothing"} = {m \in Chunks : pcm[m] = "nothing"}
          BY <4>1
        <4> QED
          BY <3>1, <4>2 DEF Output!vars
      <3>6. CASE pcm' = [pcm EXCEPT ![n] = "nothing"]
        <4>1. \A m \in Chunks : pcm'[m] = "nothing" <=> pcm[m] = "nothing" \/ m = n
          BY <1>1, <3>6 DEF TypeOK
        <4>2. {m \in Chunks : pcm'[m] = "nothing"}
                = {m \in Chunks : pcm[m] = "nothing"} \cup {n}
          BY <4>1
        <4> QED
          BY <3>1, <3>2, <3>3, <3>4, <4>2 DEF Output!Next, Output!FallSilent
      <3> QED
        BY <3>1, <3>5, <3>6
    <2> QED
      BY <1>6, <2>1, <2>2 DEF SynthStep
  <1>7. CASE Finish
    <2>1. /\ over = "no" /\ inHand = None /\ ordered # <<>> /\ Head(ordered) = None
          /\ over' = "complete"
          /\ UNCHANGED <<emitted, ended, due, pcm, sent>>
      BY <1>7 DEF Finish, NextOrdered, Wind
    <2>2. PICK lo \in 1 .. MaxChunks + 1, hi \in 0 .. MaxChunks :
                 Registered(lo, hi) /\ Passed(lo)
      BY <2>1 DEF LineInv, InLine
    <2>3. /\ lo \in Nat \ {0} /\ hi \in Nat /\ due \in Nat /\ due <= MaxChunks
          /\ ordered[1] = None /\ Len(ordered) \in Nat \ {0}
      BY <1>1, <2>1, ChunksAssumption DEF TypeOK
    <2>4. lo = hi + 1
      <3>1. lo <= hi + 1
        BY <2>2 DEF Registered
      <3>2. CASE lo <= hi
        <4>1. 1 \in 1 .. hi - lo + 1
          BY <2>3, <3>2
        <4>2. ordered[1] = lo
          BY <2>2, <2>3, <4>1 DEF Registered
        <4> QED
          BY <2>3, <4>2 DEF None
      <3> QED
        BY <2>3, <3>1, <3>2
    <2>5. hi = due /\ ended
      <3>1. ~pumping
        BY <2>2, <2>3, <2>4 DEF Registered
      <3> QED
        BY <2>1, <2>2, <3>1 DEF Registered, LineInv, Ended
    <2>6. 1 .. due \subseteq Output!Dealt
      <3> SUFFICES ASSUME NEW m \in 1 .. due PROVE m \in Output!Dealt
        OBVIOUS
      <3>1. m \in Chunks /\ m < lo /\ m # inHand
        BY <2>1, <2>3, <2>4, <2>5, ChunksAssumption DEF Chunks, None
      <3> QED
        BY <2>2, <3>1, DealtIs DEF Passed
    <2> QED
      BY <2>1, <2>5, <2>6 DEF Output!Next, Output!Complete
  <1>8. CASE Send
    <2>1. /\ over = "no" /\ inHand # None /\ inHand \in Chunks /\ pcm[inHand] # "none"
          /\ sent' = IF pcm[inHand] = "audio" THEN Append(sent, inHand) ELSE sent
          /\ UNCHANGED <<emitted, ended, due, pcm, over>>
      BY <1>1, <1>8 DEF Send, TypeOK
    <2>2. CASE pcm[inHand] # "audio"
      BY <2>1, <2>2 DEF Output!vars
    <2>3. CASE pcm[inHand] = "audio"
      <3>1. PICK lo \in 1 .. MaxChunks + 1, hi \in 0 .. MaxChunks :
                   Registered(lo, hi) /\ Passed(lo)
        BY <2>1 DEF LineInv, InLine
      <3>2. inHand = lo - 1
        BY <2>1, <3>1 DEF Passed
      <3>3. inHand \notin Output!Dealt
        BY <2>1, <2>3, <3>1, DealtIs DEF Passed
      <3>4. 1 .. inHand - 1 \subseteq Output!Dealt
        <4> SUFFICES ASSUME NEW m \in 1 .. inHand - 1 PROVE m \in Output!Dealt
          OBVIOUS
        <4>1. m \in Chunks /\ m < lo /\ m # inHand
          BY <2>1, <3>2, ChunksAssumption DEF Chunks
        <4> QED
          BY <3>1, <4>1, DealtIs DEF Passed
      <3>5. inHand \in 1 .. due
        <4>1. lo <= hi + 1 /\ hi <= due /\ due \in Nat
          BY <1>1, <3>1, ChunksAssumption DEF Registered, TypeOK
        <4> QED
          BY <2>1, <3>2, <4>1 DEF Chunks
      <3> QED
        BY <2>1, <2>3, <3>3, <3>4, <3>5 DEF Output!Next, Output!Speak
    <2> QED
      BY <2>2, <2>3
  <1> QED
    BY <1>2, <1>3, <1>4, <1>5, <1>6, <1>7, <1>8 DEF Next

\* The user hears the chunks of a reply in their order, each at most once and
\* with no gap but for those without a sound, although the syntheses overlap
\* and end in any order; and a reply that is not cut off up to the last chunk
\* the pump had taken when the text ended, whether or not what the turn sends
\* behind it suspends it (speak_worker, "playback ordering is untouched by
\* construction", _synthesize_chunk).
THEOREM WorkerSpeaksInOrder == Spec => SpeaksInOrder
  <1>1. Init => LineInv
    BY LineInit
  <1>2. LineInv /\ [Next]_vars => LineInv'
    BY LineNext
  <1>3. LineInv /\ [Next]_vars => [Output!Next]_Output!vars
    BY OutputNext
  <1> QED
    BY <1>1, <1>2, <1>3, OutputInit, PTL DEF Spec, SpeaksInOrder, Output!Spec

-----------------------------------------------------------------------------
(***************************************************************************)
(* The emotion model.  Whoever has marked the load as done and holds no    *)
(* lock has left a model behind, or there is none that could be loaded.    *)
(***************************************************************************)

EmotionTypes ==
    /\ onDisk \in {"unseen", "whole", "spoilt", "missing"}
    /\ {checked, analyzer, marked, model} \subseteq BOOLEAN
    /\ thread \in [EmotionThreads ->
            {"rest", "calling", "making", "have", "loading", "infers", "done"}]
    /\ waits \in [Turns -> {"rest", "init", "analysis", "answer"}]
    /\ voice \in [Turns -> {"none", "asked", "unavailable", "timeout", "nothing", "fused",
                            "late", "failed"}]

\* There is an analyzer to be found, and threads have one only where there is.
Findable == onDisk \in {"whole", "spoilt"}

LoadInv ==
    /\ analyzer => Findable
    /\ \A c \in EmotionThreads :
        /\ thread[c] = "making" => onDisk # "unseen"
        /\ thread[c] \in {"have", "loading", "infers"} => Findable
    /\ \A t \in Turns : waits[t] = "rest" => thread[t] = "rest"
    /\ loadLock = {c \in EmotionThreads : thread[c] = "loading"}
    /\ marked /\ loadLock = {} /\ ~model => onDisk = "spoilt"

EmotionInv == EmotionTypes /\ LoadInv /\ VoiceIsHeard

LEMMA EmotionStarts == EmotionInit => EmotionInv
  BY DEF EmotionThreads, EmotionInit, EmotionInv, EmotionTypes, LoadInv, VoiceIsHeard, Findable

LEMMA EmotionSteps == EmotionInv /\ [EmotionNext]_emotionVars => EmotionInv'
  <1> SUFFICES ASSUME EmotionInv, [EmotionNext]_emotionVars PROVE EmotionInv'
    OBVIOUS
  <1>a. Warmer \in EmotionThreads /\ Warmer \notin Turns
        /\ \A t \in Turns : t \in EmotionThreads /\ t # Warmer
    BY EmotionAssumption DEF EmotionThreads
  <1>b. \A c \in EmotionThreads : c # Warmer => c \in Turns
    BY DEF EmotionThreads
  <1> USE <1>a, <1>b DEF EmotionInv, EmotionTypes, LoadInv, VoiceIsHeard, Findable,
          HoldModel, HoldTurn
  <1>1. CASE UNCHANGED emotionVars
    BY <1>1 DEF emotionVars
  <1>2. CASE ServerStarts
    BY <1>2 DEF ServerStarts
  <1>3. ASSUME NEW c \in EmotionThreads, Call(c), thread[c] \in {"rest", "calling"},
               c = Warmer \/ thread[c] = "calling"
        PROVE  EmotionInv'
    <2>1. CASE checked
      BY <1>3, <2>1 DEF Call, Handed
    <2>2. CASE ~checked
      BY <1>3, <2>2 DEF Call
    <2> QED
      BY <2>1, <2>2
  <1>4. CASE WarmUpCalls
    BY <1>3, <1>4 DEF WarmUpCalls
  <1>5. ASSUME NEW c \in EmotionThreads, Made(c) PROVE EmotionInv'
    BY <1>5 DEF Made, Handed
  <1>6. ASSUME NEW c \in EmotionThreads, Load(c) PROVE EmotionInv'
    <2>1. CASE ~marked
      BY <1>6, <2>1 DEF Load, LoadFree
    <2>2. CASE marked /\ model
      BY <1>6, <2>2 DEF Load, LoadFree
    <2>3. CASE marked /\ ~model
      BY <1>6, <2>3 DEF Load, LoadFree, Mute
    <2> QED
      BY <2>1, <2>2, <2>3
  <1>7. ASSUME NEW c \in EmotionThreads, LoadEnds(c) PROVE EmotionInv'
    <2>1. CASE onDisk = "whole"
      BY <1>7, <2>1 DEF LoadEnds
    <2>2. CASE onDisk = "spoilt"
      BY <1>7, <2>2 DEF LoadEnds, Mute
    <2> QED
      BY <1>7, <2>1, <2>2 DEF LoadEnds
  <1>8. ASSUME NEW t \in Turns, TurnCalls(t) PROVE EmotionInv'
    BY <1>8 DEF TurnCalls
  <1>9. ASSUME NEW t \in Turns, ThreadCalls(t) PROVE EmotionInv'
    BY <1>3, <1>9 DEF ThreadCalls
  <1>10. ASSUME NEW t \in Turns, InitTimeout(t) PROVE EmotionInv'
    BY <1>10 DEF InitTimeout
  <1>11. ASSUME NEW t \in Turns, Analyse(t) PROVE EmotionInv'
    BY <1>11 DEF Analyse
  <1>12. ASSUME NEW t \in Turns, AnalyseFails(t) PROVE EmotionInv'
    BY <1>12 DEF AnalyseFails
  <1>13. ASSUME NEW t \in Turns, AnalysisTimeout(t) PROVE EmotionInv'
    BY <1>13 DEF AnalysisTimeout
  <1> HIDE DEF EmotionInv, EmotionTypes, LoadInv, VoiceIsHeard
  <1> QED
    BY <1>1, <1>2, <1>4, <1>5, <1>6, <1>7, <1>8, <1>9, <1>10, <1>11, <1>12, <1>13
       DEF EmotionNext

\* A turn whose analysis says nothing has no model to load: no thread that loads
\* it, warms it up or gives up waiting takes another's feeling away
\* (EmotionAnalyzer._load, WebComponents.emotion_analyzer).
THEOREM NoVoiceIsLost == EmotionSpec => []VoiceIsHeard
  <1>1. EmotionInv => VoiceIsHeard
    BY DEF EmotionInv
  <1> QED
    BY EmotionStarts, EmotionSteps, <1>1, PTL DEF EmotionSpec

-----------------------------------------------------------------------------
(***************************************************************************)
(* Enrolment.  While no two runs have had the registry at once and none    *)
(* has failed to read it, a run that has it holds what the file holds.     *)
(***************************************************************************)

PerceptionTypes ==
    /\ enroller = [e \in Enrollers |-> enroller[e]]
    /\ \A e \in Enrollers : enroller[e].at \in {"away", "recorded", "open"}
    /\ used \in [turns : Nat, failures : Nat, raced : BOOLEAN, unread : BOOLEAN]

Undisturbed == ~used.raced /\ ~used.unread

HeldIsTheFile ==
    Undisturbed =>
        /\ \A e \in Enrollers : enroller[e].at = "open" => enroller[e].data = enrolled
        /\ \A e, o \in Enrollers : enroller[e].at = "open" /\ enroller[o].at = "open" => e = o

EnrolInv == PerceptionTypes /\ HeldIsTheFile /\ EnrolledStays

LEMMA EnrolStarts == PerceptionInit => EnrolInv
  BY DEF PerceptionInit, EnrolInv, PerceptionTypes, HeldIsTheFile, EnrolledStays, Undisturbed,
         Away, Empty

LEMMA EnrolSteps == EnrolInv /\ [PerceptionNext]_perceptionVars => EnrolInv'
  <1> SUFFICES ASSUME EnrolInv, [PerceptionNext]_perceptionVars PROVE EnrolInv'
    OBVIOUS
  <1> USE DEF EnrolInv, PerceptionTypes, HeldIsTheFile, EnrolledStays, Undisturbed
  <1>1. CASE UNCHANGED perceptionVars
    BY <1>1 DEF perceptionVars
  <1>2. ASSUME NEW e \in Enrollers, Record(e) PROVE EnrolInv'
    BY <1>2 DEF Record, HoldTurns
  <1>3. ASSUME NEW e \in Enrollers, OpenRegistry(e) PROVE EnrolInv'
    <2> DEFINE shared == (used.raced \/ \E o \in Enrollers : enroller[o].at = "open")
    <2>0. /\ enroller[e].at = "recorded" /\ UNCHANGED <<enrolled, promised>>
          /\ \/ used' = [used EXCEPT !.raced = shared]
             \/ used' = [used EXCEPT !.failures = used.failures + 1, !.unread = TRUE,
                                     !.raced = shared]
      BY <1>3 DEF OpenRegistry
    <2>1. /\ used'.raced = shared
          /\ used'.unread = used.unread \/ used'.unread = TRUE
          /\ used' \in [turns : Nat, failures : Nat, raced : BOOLEAN, unread : BOOLEAN]
      <3>1. shared \in BOOLEAN
        OBVIOUS
      <3> HIDE DEF shared
      <3>2. CASE used' = [used EXCEPT !.raced = shared]
        BY <3>1, <3>2
      <3>3. CASE used' = [used EXCEPT !.failures = used.failures + 1, !.unread = TRUE,
                                     !.raced = shared]
        <4>1. used' = [turns |-> used.turns, failures |-> used.failures + 1,
                       raced |-> shared, unread |-> TRUE]
          BY <3>3
        <4>2. used.turns \in Nat /\ used.failures + 1 \in Nat
          OBVIOUS
        <4> QED
          BY <3>1, <4>1, <4>2
      <3> QED
        BY <2>0, <3>2, <3>3
    <2>2. PICK data : /\ enroller' = [enroller EXCEPT
                                ![e] = [at |-> "open", name |-> @.name, data |-> data]]
                      /\ used'.unread \/ data = enrolled
      BY <1>3 DEF OpenRegistry
    <2>3. /\ enroller'[e].at = "open" /\ enroller'[e].data = data
          /\ \A o \in Enrollers \ {e} : enroller'[o] = enroller[o]
      BY <2>2
    <2>4. PerceptionTypes'
      <3>1. enroller' = [o \in Enrollers |-> enroller'[o]]
        BY <2>2
      <3>2. \A o \in Enrollers : enroller'[o].at \in {"away", "recorded", "open"}
        BY <2>3
      <3> QED
        BY <2>1, <3>1, <3>2
    <2>5. HeldIsTheFile'
      <3> SUFFICES ASSUME Undisturbed'
                   PROVE  /\ \A o \in Enrollers : enroller'[o].at = "open" => o = e
                          /\ enroller'[e].data = enrolled'
        OBVIOUS
      <3> QED
        BY <2>0, <2>1, <2>2, <2>3
    <2>6. EnrolledStays'
      BY <2>0, <2>1
    <2> QED
      BY <2>4, <2>5, <2>6
  <1>4. ASSUME NEW e \in Enrollers, Enrol(e) PROVE EnrolInv'
    <2>1. PICK lost \in SUBSET Windows :
            /\ used' = IF lost # {} THEN [used EXCEPT !.failures = @ + 1] ELSE used
            /\ IF Reference(e, lost).speech = {} THEN UNCHANGED <<enrolled, promised>>
               ELSE /\ enrolled' = Written(e, Reference(e, lost))
                    /\ promised' = Put(promised, enroller[e].name, Reference(e, lost))
      BY <1>4 DEF Enrol
    <2>2. /\ enroller[e].at = "open" /\ enroller' = [enroller EXCEPT ![e] = Away]
          /\ UNCHANGED <<recognizer, known, turn, facts>>
      BY <1>4 DEF Enrol, HoldTurns
    <2>3. PerceptionTypes' /\ Undisturbed' = Undisturbed
      BY <2>1, <2>2 DEF Away
    <2>4. HeldIsTheFile'
      BY <2>2, <2>3 DEF Away
    <2>5. EnrolledStays'
      <3>1. CASE UNCHANGED <<enrolled, promised>>
        BY <2>3, <3>1
      <3>2. ASSUME Undisturbed, enrolled' = Written(e, Reference(e, lost)),
                   promised' = Put(promised, enroller[e].name, Reference(e, lost))
            PROVE  EnrolledStays'
        <4>1. enrolled' = Put(enrolled, enroller[e].name, Reference(e, lost))
          BY <2>2, <3>2 DEF Written
        <4> DEFINE name == enroller[e].name
                   ref == Reference(e, lost)
        <4>2. promised' = Put(promised, name, ref) /\ enrolled' = Put(enrolled, name, ref)
          BY <3>2, <4>1
        <4> HIDE DEF name, ref
        <4> SUFFICES ASSUME NEW s \in DOMAIN promised'
                     PROVE  s \in DOMAIN enrolled' /\ enrolled'[s] = promised'[s]
          OBVIOUS
        <4>3. CASE s = name
          BY <4>2, <4>3 DEF Put
        <4>4. CASE s # name
          <5>1. s \in DOMAIN promised
            BY <4>2, <4>4 DEF Put
          <5>2. s \in DOMAIN enrolled /\ enrolled[s] = promised[s]
            BY <3>2, <5>1
          <5> QED
            BY <4>2, <4>4, <5>1, <5>2 DEF Put
        <4> QED
          BY <4>3, <4>4
      <3> QED
        BY <2>1, <2>3, <3>1, <3>2
    <2> QED
      BY <2>3, <2>4, <2>5
  <1>5. ASSUME NEW e \in Enrollers, EnrolFails(e) PROVE EnrolInv'
    BY <1>5 DEF EnrolFails, HoldTurns, Away
  <1>6. CASE StartConversation
    BY <1>6 DEF StartConversation
  <1>7. CASE SpeakTurn
    BY <1>7 DEF SpeakTurn
  <1> HIDE DEF EnrolInv
  <1> QED
    BY <1>1, <1>2, <1>3, <1>4, <1>5, <1>6, <1>7 DEF PerceptionNext

\* A confirmed speaker stays enrolled with the speech that was confirmed, over
\* every sequence of enrolments that fail, end early or lose windows, unless two
\* runs had the registry at once or one could not read it (SpeakerRegistry).
THEOREM EnrolmentsLast == PerceptionSpec => []EnrolledStays
  <1>1. EnrolInv => EnrolledStays
    BY DEF EnrolInv
  <1> QED
    BY EnrolStarts, EnrolSteps, <1>1, PTL DEF PerceptionSpec

-----------------------------------------------------------------------------
(***************************************************************************)
(* Feelings.                                                               *)
(***************************************************************************)

\* A feeling that is strong enough has a name, if the threshold is not below the
\* 0.25 at which teacher_label_from_va begins to name feelings.
LEMMA StrongIsNamed ==
    ASSUME StoreFrom >= 25, NEW va \in Int \X Int, Strong(va)
    PROVE  Label(va) # "neutral"
  <1>1. va[1] \in Int /\ va[2] \in Int /\ StoreFrom \in Int
    BY TurnPerceptionAssumption
  <1>2. CASE Size(va[1]) >= StoreFrom
    <2>1. va[1] <= -25 \/ va[1] >= 25
      BY <1>1, <1>2 DEF Size
    <2>2. CASE va[1] <= -25 /\ va[2] >= 20
      BY <1>1, <2>2 DEF Label
    <2>3. CASE va[1] <= -25 /\ va[2] < 20
      BY <1>1, <2>3 DEF Label
    <2>4. CASE va[1] >= 25
      BY <1>1, <2>4 DEF Label
    <2> QED
      BY <1>1, <2>1, <2>2, <2>3, <2>4
  <1>3. CASE Label(va) = "frustrated"
    BY <1>3
  <1> QED
    BY <1>2, <1>3 DEF Strong

LEMMA BlendIs ==
    ASSUME NEW p \in (-100 .. 100) \X (-100 .. 100), NEW semantic \in Semantic
    PROVE  Blend(p, semantic) \in Int \X Int
  <1>1. semantic[1] \in Int /\ semantic[2] \in Int /\ p[1] \in Int /\ p[2] \in Int
    BY DEF Semantic
  <1>2. \A i \in 1 .. 2 : (60 * p[i] + 40 * semantic[i]) \div 100 \in Int
    BY <1>1
  <1>3. Blend(p, semantic) \in [1 .. 2 -> Int]
    BY <1>2 DEF Blend
  <1> QED
    BY <1>3

LEMMA FeelingSteps ==
    ASSUME StoreFrom >= 25, FactsNameFeelings, [PerceptionNext]_perceptionVars
    PROVE  FactsNameFeelings'
  <1>1. CASE UNCHANGED facts
    BY <1>1 DEF FactsNameFeelings
  <1>2. CASE SpeakTurn
    <2>1. PICK user \in Speakers \cup {Fallback},
               prosody \in {{}} \cup {{f} : f \in Feelings} : Feels(user, prosody)
      BY <1>2 DEF SpeakTurn
    <2>2. ASSUME NEW p \in prosody, NEW semantic \in Semantic,
                 facts' = IF Strong(Blend(p, semantic))
                          THEN facts \cup {[space |-> user, label |-> Label(Blend(p, semantic))]}
                          ELSE facts
          PROVE  FactsNameFeelings'
      <3>1. p \in (-100 .. 100) \X (-100 .. 100)
        BY TurnPerceptionAssumption
      <3>2. Blend(p, semantic) \in Int \X Int
        BY <3>1, BlendIs
      <3> QED
        BY <2>2, <3>2, StrongIsNamed DEF FactsNameFeelings
    <2> QED
      BY <1>1, <2>1, <2>2 DEF Feels
  <1> QED
    BY <1>1, <1>2 DEF PerceptionNext, perceptionVars, Record, OpenRegistry, Enrol, EnrolFails,
       HoldTurns, StartConversation

\* What is remembered of a user's feelings names a feeling, for every threshold
\* from 0.25 on, whatever the prosody model returns.  Below, which the settings
\* allow, a neutral turn can be stored (EmotionMemory.should_store).
THEOREM FeelingsAreNamed ==
    ASSUME StoreFrom >= 25 PROVE PerceptionSpec => []FactsNameFeelings
  <1>1. PerceptionInit => FactsNameFeelings
    BY DEF PerceptionInit, FactsNameFeelings
  <1>2. FactsNameFeelings /\ [PerceptionNext]_perceptionVars => FactsNameFeelings'
    BY FeelingSteps
  <1> QED
    BY <1>1, <1>2, PTL DEF PerceptionSpec

-----------------------------------------------------------------------------
(***************************************************************************)
(* Numbers.  The induction theorems of the library take an operator; here  *)
(* a set stands for what is to be shown, and its least counterexample for  *)
(* the step.                                                               *)
(***************************************************************************)

\* A set of numbers that is not empty has a least one.
LEMMA LeastOf ==
    ASSUME NEW T \in SUBSET Nat, T # {}
    PROVE  \E x \in T : \A y \in T : x <= y
  <1> DEFINE R == {p \in Nat \X Nat : p[1] < p[2]}
  <1>1. IsWellFoundedOn(R, Nat)
    BY NatLessThanWellFounded DEF OpToRel
  <1>2. PICK x \in T : \A y \in T : ~(<<y, x>> \in R)
    BY <1>1, WFMin
  <1>3. ASSUME NEW y \in T PROVE x <= y
    <2>1. <<y, x>> \notin R /\ x \in Nat /\ y \in Nat
      BY <1>2
    <2>2. ~(y < x)
      BY <2>1
    <2> QED
      BY <2>1, <2>2
  <1> QED
    BY <1>3

\* What holds of 0, and of k + 1 when it holds of k, holds of every number up to n.
LEMMA UpTo ==
    ASSUME NEW n \in Nat, NEW P \in SUBSET (0 .. n), 0 \in P,
           \A k \in 0 .. n - 1 : k \in P => k + 1 \in P
    PROVE  P = 0 .. n
  <1> SUFFICES ASSUME P # 0 .. n PROVE FALSE
    OBVIOUS
  <1> DEFINE T == (0 .. n) \ P
  <1>1. T \in SUBSET Nat /\ T # {}
    <2>1. \E k \in 0 .. n : k \notin P
      OBVIOUS
    <2> QED
      BY <2>1
  <1>2. PICK k \in T : \A y \in T : k <= y
    BY <1>1, LeastOf
  <1>3. k \in 1 .. n /\ k - 1 \in 0 .. n - 1 /\ k - 1 \notin T
    BY <1>2
  <1>4. k - 1 \in P
    BY <1>3
  <1>5. (k - 1) + 1 \in P
    BY <1>3, <1>4
  <1> QED
    BY <1>2, <1>3, <1>5

\* A set of numbers up to n has a greatest one.
LEMMA MaxIs ==
    ASSUME NEW n \in Nat, NEW s \in SUBSET (1 .. n), s # {}
    PROVE  Max(s) \in s /\ \A y \in s : y <= Max(s)
  <1> DEFINE T == {n - x : x \in s}
  <1>1. T \in SUBSET Nat /\ T # {}
    <2>1. PICK x \in s : TRUE
      OBVIOUS
    <2>2. n - x \in T
      OBVIOUS
    <2>3. \A y \in s : n - y \in Nat
      OBVIOUS
    <2> QED
      BY <2>2, <2>3
  <1>2. PICK m \in T : \A y \in T : m <= y
    BY <1>1, LeastOf
  <1>3. PICK x \in s : m = n - x
    BY <1>2
  <1>4. ASSUME NEW y \in s PROVE x >= y
    <2>1. n - y \in T
      OBVIOUS
    <2>2. m <= n - y
      BY <1>2, <2>1
    <2> QED
      BY <1>3, <2>2
  <1>5. \E z \in s : \A y \in s : z >= y
    BY <1>4
  <1>6. Max(s) \in s /\ \A y \in s : Max(s) >= y
    BY <1>5 DEF Max
  <1> QED
    BY <1>6

-----------------------------------------------------------------------------
(***************************************************************************)
(* Sums along a sequence, which FoldLeft computes by taking the greatest   *)
(* index away.                                                             *)
(***************************************************************************)

\* There is a function that sums w over every set of indices.
LEMMA SumExists ==
    ASSUME NEW n \in Nat, NEW w \in [1 .. n -> Nat]
    PROVE  \E f \in [SUBSET (1 .. n) -> Nat] :
              \A s \in SUBSET (1 .. n) :
                 f[s] = IF s = {} THEN 0 ELSE f[s \ {Max(s)}] + w[Max(s)]
  <1> DEFINE Sums(f, k) == \A s \in SUBSET (1 .. k) :
                 f[s] = IF s = {} THEN 0 ELSE f[s \ {Max(s)}] + w[Max(s)]
             P == {k \in 0 .. n : \E f \in [SUBSET (1 .. n) -> Nat] : Sums(f, k)}
  <1>1. 0 \in P
    <2> DEFINE zero == [s \in SUBSET (1 .. n) |-> 0]
    <2>1. zero \in [SUBSET (1 .. n) -> Nat] 
      OBVIOUS
    <2>2. \A s \in SUBSET (1 .. 0) : s = {} /\ s \in SUBSET (1 .. n)
      OBVIOUS
    <2>3. Sums(zero, 0)
      BY <2>2
    <2> HIDE DEF zero, Sums
    <2> QED
      BY <2>1, <2>3
  <1>2. ASSUME NEW k \in 0 .. n - 1, k \in P PROVE k + 1 \in P
    <2>1. PICK f \in [SUBSET (1 .. n) -> Nat] : Sums(f, k)
      BY <1>2
    <2> DEFINE g == [s \in SUBSET (1 .. n) |->
                        IF s = {} \/ s \subseteq 1 .. k THEN f[s] ELSE f[s \ {Max(s)}] + w[Max(s)]]
    <2>2. g \in [SUBSET (1 .. n) -> Nat]
      <3> SUFFICES ASSUME NEW s \in SUBSET (1 .. n), s # {}
                   PROVE  f[s \ {Max(s)}] + w[Max(s)] \in Nat
        OBVIOUS
      <3>1. Max(s) \in s
        BY MaxIs
      <3>2. w[Max(s)] \in Nat /\ f[s \ {Max(s)}] \in Nat
        BY <3>1
      <3> QED
        BY <3>2
    <2>3. Sums(g, k + 1)
      <3> SUFFICES ASSUME NEW s \in SUBSET (1 .. k + 1)
                   PROVE  g[s] = IF s = {} THEN 0 ELSE g[s \ {Max(s)}] + w[Max(s)]
        OBVIOUS
      <3>0. s \in SUBSET (1 .. n)
        OBVIOUS
      <3>1. CASE s \subseteq 1 .. k
        <4>1. g[s] = f[s] /\ g[s \ {Max(s)}] = f[s \ {Max(s)}]
          BY <3>0, <3>1
        <4> QED
          BY <2>1, <3>1, <4>1
      <3>2. CASE ~(s \subseteq 1 .. k)
        <4>1. s # {} /\ k + 1 \in s
          BY <3>2
        <4>2. Max(s) = k + 1
          <5>1. Max(s) \in s /\ \A y \in s : y <= Max(s)
            BY <3>0, <4>1, MaxIs
          <5>2. Max(s) \in 1 .. k + 1 /\ k + 1 <= Max(s)
            BY <4>1, <5>1
          <5> QED
            BY <5>2
        <4>3. s \ {Max(s)} \subseteq 1 .. k
          BY <4>2
        <4>4. g[s \ {Max(s)}] = f[s \ {Max(s)}] /\ g[s] = f[s \ {Max(s)}] + w[Max(s)]
          BY <3>0, <3>2, <4>1, <4>3
        <4> QED
          BY <4>1, <4>4
      <3> QED
        BY <3>1, <3>2
    <2> HIDE DEF g, Sums
    <2> QED
      BY <2>2, <2>3
  <1> HIDE DEF Sums
  <1>3. n \in P
    <2>1. P = 0 .. n
      <3> HIDE DEF P
      <3>1. P \in SUBSET (0 .. n)
        BY DEF P
      <3> QED
        BY <1>1, <1>2, <3>1, UpTo
    <2>2. n \in 0 .. n
      OBVIOUS
    <2> QED
      BY <2>1, <2>2
  <1> QED
    BY <1>3 DEF Sums

\* What the history consists of.
Entry == [who : {"user", "assistant"}, length : Nat]

\* The lengths of the entries are numbers.
LEMMA LengthsOf ==
    ASSUME NEW e \in Seq(Entry)
    PROVE  /\ Len(e) \in Nat /\ DOMAIN e = 1 .. Len(e)
           /\ \A k \in 1 .. Len(e) : e[k].length \in Nat
  <1>1. \A k \in 1 .. Len(e) : e[k] \in Entry
    OBVIOUS
  <1>2. \A x \in Entry : x.length \in Nat
    BY DEF Entry
  <1> QED
    BY <1>1, <1>2

\* Total is the last of the sums of the first entries.
LEMMA TotalIs ==
    ASSUME NEW e \in Seq(Entry)
    PROVE  \E p \in [0 .. Len(e) -> Nat] :
              /\ p[0] = 0
              /\ \A k \in 1 .. Len(e) : p[k] = p[k - 1] + e[k].length
              /\ Total(e) = p[Len(e)]
  <1> DEFINE n == Len(e)
             Sums(f) == f = [s \in SUBSET (DOMAIN e) |->
                               IF s = {} THEN 0 ELSE f[s \ {Max(s)}] + e[Max(s)].length]
  <1>1. n \in Nat /\ DOMAIN e = 1 .. n /\ \A k \in 1 .. n : e[k].length \in Nat
    BY LengthsOf
  <1>2. \E f : Sums(f)
    <2> DEFINE w == [k \in 1 .. n |-> e[k].length]
    <2>1. w \in [1 .. n -> Nat]
      BY <1>1
    <2>2. PICK f \in [SUBSET (1 .. n) -> Nat] :
              \A s \in SUBSET (1 .. n) :
                 f[s] = IF s = {} THEN 0 ELSE f[s \ {Max(s)}] + w[Max(s)]
      <3> HIDE DEF w, n
      <3> QED
        BY <1>1, <2>1, SumExists
    <2>3. ASSUME NEW s \in SUBSET (1 .. n), s # {}
          PROVE  w[Max(s)] = e[Max(s)].length
      <3>1. Max(s) \in 1 .. n
        BY <1>1, <2>3, MaxIs
      <3> QED
        BY <3>1
    <2> HIDE DEF w, n
    <2>4. f = [s \in SUBSET (1 .. n) |->
                  IF s = {} THEN 0 ELSE f[s \ {Max(s)}] + e[Max(s)].length]
      BY <2>2, <2>3
    <2> QED
      BY <1>1, <2>4
  <1>3. Total(e) = (CHOOSE f : Sums(f))[DOMAIN e]
    BY DEF Total, FoldLeft, MapThenFoldSet
  <1>4. PICK f : Sums(f) /\ Total(e) = f[DOMAIN e]
    BY <1>2, <1>3
  <1> DEFINE p == [k \in 0 .. n |-> f[1 .. k]]
  <1> HIDE DEF n
  <1>5. p[0] = 0
    <2>1. 1 .. 0 = {} /\ {} \in SUBSET (DOMAIN e)
      OBVIOUS
    <2>2. f[{}] = 0
      BY <1>4, <2>1
    <2> QED
      BY <1>1, <2>1, <2>2
  <1>6. ASSUME NEW k \in 1 .. n PROVE p[k] = p[k - 1] + e[k].length
    <2>1. 1 .. k \in SUBSET (1 .. n) /\ 1 .. k # {} /\ k \in 1 .. k
      BY SMTT(30), <1>1
    <2>2. Max(1 .. k) = k
      <3>1. Max(1 .. k) \in 1 .. k /\ k <= Max(1 .. k)
        BY <1>1, <2>1, MaxIs
      <3> QED
        BY <1>1, <3>1
    <2>3. (1 .. k) \ {k} = 1 .. k - 1
      BY <1>1
    <2>4. f[1 .. k] = f[(1 .. k) \ {Max(1 .. k)}] + e[Max(1 .. k)].length
      BY <1>1, <1>4, <2>1
    <2>5. f[1 .. k] = f[1 .. k - 1] + e[k].length
      BY <2>2, <2>3, <2>4
    <2>6. k \in 0 .. n /\ k - 1 \in 0 .. n
      BY <1>1
    <2> QED
      BY <2>5, <2>6
  <1>7. p \in [0 .. n -> Nat]
    <2> DEFINE P == {k \in 0 .. n : p[k] \in Nat}
    <2> HIDE DEF p
    <2>1. 0 \in P
      BY <1>1, <1>5
    <2>2. ASSUME NEW k \in 0 .. n - 1, k \in P PROVE k + 1 \in P
      <3>1. k + 1 \in 1 .. n /\ p[k + 1] = p[(k + 1) - 1] + e[k + 1].length
        BY <1>1, <1>6
      <3>2. (k + 1) - 1 = k
        BY <1>1
      <3> QED
        BY <1>1, <2>2, <3>1, <3>2
    <2>3. P = 0 .. n
      <3>1. P \in SUBSET (0 .. n)
        OBVIOUS
      <3> HIDE DEF P
      <3> QED
        BY <1>1, <2>1, <2>2, <3>1, UpTo
    <2>4. \A k \in 0 .. n : p[k] \in Nat
      BY <2>3
    <2> QED
      BY <2>4 DEF p
  <1>8. Total(e) = p[n]
    BY <1>1, <1>4
  <1> HIDE DEF p
  <1> QED
    BY <1>5, <1>6, <1>7, <1>8 DEF n

\* The total of a sequence is its first entry's length and the total of the rest.
LEMMA TotalOfRest ==
    ASSUME NEW e \in Seq(Entry), NEW r \in Seq(Entry), Len(e) = Len(r) + 1,
           \A k \in 1 .. Len(r) : r[k] = e[k + 1]
    PROVE  Total(e) = e[1].length + Total(r)
  <1> DEFINE n == Len(r)
  <1>1. n \in Nat /\ Len(e) = n + 1 /\ e[1].length \in Nat
    BY LengthsOf
  <1>2. PICK p \in [0 .. n + 1 -> Nat] :
              /\ p[0] = 0
              /\ \A k \in 1 .. n + 1 : p[k] = p[k - 1] + e[k].length
              /\ Total(e) = p[n + 1]
    BY <1>1, TotalIs
  <1>3. PICK q \in [0 .. n -> Nat] :
              /\ q[0] = 0
              /\ \A k \in 1 .. n : q[k] = q[k - 1] + r[k].length
              /\ Total(r) = q[n]
    BY TotalIs
  <1>0. \A k \in 1 .. n : r[k] = e[k + 1] /\ r[k].length \in Nat
    BY LengthsOf
  <1> HIDE DEF n
  <1> DEFINE P == {k \in 0 .. n : p[k + 1] = e[1].length + q[k]}
  <1>4. 0 \in P
    <2>1. p[1] = p[1 - 1] + e[1].length
      BY <1>1, <1>2
    <2> QED
      BY <1>1, <1>2, <1>3, <2>1
  <1>5. ASSUME NEW k \in 0 .. n - 1, k \in P PROVE k + 1 \in P
    <2>1. k + 1 \in 1 .. n /\ k + 2 \in 1 .. n + 1 /\ k \in 0 .. n /\ k + 1 \in 0 .. n + 1
      BY <1>1
    <2>2. p[k + 2] = p[(k + 2) - 1] + e[k + 2].length /\ (k + 2) - 1 = k + 1
      BY <1>2, <2>1
    <2>3. q[k + 1] = q[(k + 1) - 1] + r[k + 1].length /\ (k + 1) - 1 = k
      BY <1>3, <2>1
    <2>4. r[k + 1] = e[(k + 1) + 1] /\ (k + 1) + 1 = k + 2 /\ r[k + 1].length \in Nat
      <3>1. PICK j \in 1 .. n : j = k + 1
        BY <2>1
      <3>2. r[j] = e[j + 1] /\ r[j].length \in Nat
        BY <1>0
      <3> QED
        BY <2>1, <3>1, <3>2
    <2>5. p[k + 1] = e[1].length + q[k]
      BY <1>5
    <2>6. q[k] \in Nat /\ p[k + 1] \in Nat
      BY <1>1, <1>2, <1>3, <2>1
    <2>7. p[k + 2] = p[k + 1] + e[k + 2].length /\ q[k + 1] = q[k] + e[k + 2].length
      BY <2>2, <2>3, <2>4
    <2>8. e[k + 2].length \in Nat
      BY <2>4
    <2>9. p[k + 2] = e[1].length + q[k + 1]
      <3>1. \A a, b, x \in Nat : (a + b) + x = a + (b + x)
        OBVIOUS
      <3>2. p[k + 2] = (e[1].length + q[k]) + e[k + 2].length
        BY <2>5, <2>7
      <3>3. p[k + 2] = e[1].length + (q[k] + e[k + 2].length)
        BY <1>1, <2>6, <2>8, <3>1, <3>2
      <3> QED
        BY <2>7, <3>3
    <2>10. (k + 1) + 1 = k + 2 /\ k + 1 \in 0 .. n
      BY <2>1
    <2> QED
      BY <2>9, <2>10
  <1>6. P = 0 .. n
    <2>1. P \in SUBSET (0 .. n)
      OBVIOUS
    <2> HIDE DEF P
    <2> QED
      BY <1>1, <1>4, <1>5, <2>1, UpTo
  <1>7. n \in P
    <2>1. n \in 0 .. n
      BY <1>1
    <2> QED
      BY <1>6, <2>1
  <1> QED
    BY <1>2, <1>3, <1>7

\* The length of joined lines is a number.
LEMMA JoinedIs == ASSUME NEW lines \in Seq(Hits) PROVE JoinedLength(lines) \in Nat
  <1> DEFINE n == Len(lines)
             Sums(f) == f = [s \in SUBSET (DOMAIN lines) |->
                  IF s = {} THEN 0 ELSE f[s \ {Max(s)}] + LineLength(lines[Max(s)]) + 1]
             Sum == FoldLeft(LAMBDA sum, hit : sum + LineLength(hit) + 1, 0, lines)
  <1>1. n \in Nat /\ DOMAIN lines = 1 .. n /\ \A k \in 1 .. n : LineLength(lines[k]) \in Nat
    <2>1. \A h \in Hits : LineLength(h) \in Nat
      BY SMTT(30), PromptContextAssumption DEF Hits, LineLength
    <2>2. \A k \in 1 .. n : lines[k] \in Hits
      OBVIOUS
    <2> QED
      BY <2>1, <2>2
  <1>2. \E f : Sums(f)
    <2> DEFINE w == [k \in 1 .. n |-> LineLength(lines[k]) + 1]
    <2>1. w \in [1 .. n -> Nat]
      BY <1>1
    <2>2. PICK f \in [SUBSET (1 .. n) -> Nat] :
              \A s \in SUBSET (1 .. n) :
                 f[s] = IF s = {} THEN 0 ELSE f[s \ {Max(s)}] + w[Max(s)]
      <3> HIDE DEF w, n
      <3> QED
        BY <1>1, <2>1, SumExists
    <2>3. ASSUME NEW s \in SUBSET (1 .. n), s # {}
          PROVE  f[s \ {Max(s)}] + w[Max(s)] = f[s \ {Max(s)}] + LineLength(lines[Max(s)]) + 1
      <3>1. Max(s) \in 1 .. n
        BY <1>1, <2>3, MaxIs
      <3>2. f[s \ {Max(s)}] \in Nat
        BY <2>3
      <3>3. w[Max(s)] = LineLength(lines[Max(s)]) + 1 /\ LineLength(lines[Max(s)]) \in Nat
        BY <1>1, <3>1
      <3>4. \A a, b \in Nat : a + (b + 1) = a + b + 1
        OBVIOUS
      <3> QED
        BY <3>2, <3>3, <3>4
    <2> HIDE DEF w, n
    <2>4. f = [s \in SUBSET (1 .. n) |->
                  IF s = {} THEN 0 ELSE f[s \ {Max(s)}] + LineLength(lines[Max(s)]) + 1]
      BY <2>2, <2>3
    <2> QED
      BY <1>1, <2>4
  <1>3. Sum = (CHOOSE f : Sums(f))[DOMAIN lines]
    BY DEF FoldLeft, MapThenFoldSet
  <1>4. PICK f : Sums(f) /\ Sum = f[DOMAIN lines]
    BY <1>2, <1>3
  <1> HIDE DEF n, Sum
  <1> DEFINE P == {k \in 0 .. n : f[1 .. k] \in Nat}
  <1>5. 0 \in P
    <2>1. 1 .. 0 = {} /\ {} \in SUBSET (DOMAIN lines)
      OBVIOUS
    <2>2. f[{}] = 0
      BY <1>4, <2>1
    <2> QED
      BY <1>1, <2>1, <2>2
  <1>6. ASSUME NEW k \in 0 .. n - 1, k \in P PROVE k + 1 \in P
    <2> DEFINE s == 1 .. k + 1
    <2>0. k \in Nat /\ k + 1 \in 1 .. n
      BY <1>1
    <2>1. s \in SUBSET (1 .. n) /\ s # {} /\ k + 1 \in s /\ s \ {k + 1} = 1 .. k
      <3>1. s \in SUBSET (1 .. n) /\ k + 1 \in s
        BY <1>1, <2>0
      <3>2. s \ {k + 1} = 1 .. k
        BY <2>0
      <3> QED
        BY <3>1, <3>2
    <2>2. Max(s) = k + 1
      <3>1. Max(s) \in s /\ k + 1 <= Max(s)
        BY <1>1, <2>1, MaxIs
      <3> QED
        BY <1>1, <3>1
    <2> HIDE DEF s
    <2>3. f[s] = f[s \ {Max(s)}] + LineLength(lines[Max(s)]) + 1
      BY <1>1, <1>4, <2>1
    <2>4. f[s] = f[1 .. k] + LineLength(lines[k + 1]) + 1
      BY <2>1, <2>2, <2>3
    <2>5. f[1 .. k] \in Nat /\ LineLength(lines[k + 1]) \in Nat
      BY <1>1, <1>6
    <2> QED
      BY <1>1, <2>4, <2>5 DEF s
  <1>7. P = 0 .. n
    <2>1. P \in SUBSET (0 .. n)
      OBVIOUS
    <2> HIDE DEF P
    <2> QED
      BY <1>1, <1>5, <1>6, <2>1, UpTo
  <1>8. f[1 .. n] \in Nat
    <2>1. n \in 0 .. n
      BY <1>1
    <2> QED
      BY <1>7, <2>1
  <1>9. Sum \in Nat
    BY <1>1, <1>4, <1>8
  <1>10. JoinedLength(lines) = Less(Sum, 1)
    BY DEF JoinedLength, Sum
  <1> QED
    BY <1>9, <1>10 DEF Less

-----------------------------------------------------------------------------
(***************************************************************************)
(* The prompt.                                                             *)
(***************************************************************************)

\* What is shed: the oldest entries, and no more of them than the budget asks for.
LEMMA ShedIs ==
    ASSUME NEW e \in Seq(Entry), NEW fixed \in Nat
    PROVE  \E from \in 1 .. Len(e) + 1 :
              /\ Shed(e, fixed) = SubSeq(e, from, Len(e))
              /\ from = Len(e) + 1 \/ fixed + Total(SubSeq(e, from, Len(e))) <= Budget
              /\ \A k \in 1 .. from - 1 : fixed + Total(SubSeq(e, k, Len(e))) > Budget
  <1> DEFINE n == Len(e)
             Fits(k) == k = n + 1 \/ fixed + Total(SubSeq(e, k, n)) <= Budget
             Chosen(m) == /\ Fits(m)
                          /\ \A k \in 1 .. m - 1 : fixed + Total(SubSeq(e, k, n)) > Budget
             T == {k \in 1 .. n + 1 : Fits(k)}
  <1>1. n \in Nat /\ Budget \in Nat
    BY PromptContextAssumption
  <1>2. \A k \in 1 .. n + 1 : Total(SubSeq(e, k, n)) \in Nat
    <2> SUFFICES ASSUME NEW k \in 1 .. n + 1 PROVE Total(SubSeq(e, k, n)) \in Nat
      OBVIOUS
    <2>1. SubSeq(e, k, n) \in Seq(Entry)
      BY <1>1
    <2>2. \A r \in Seq(Entry) : Total(r) \in Nat
      <3> SUFFICES ASSUME NEW r \in Seq(Entry) PROVE Total(r) \in Nat
        OBVIOUS
      <3>1. PICK p \in [0 .. Len(r) -> Nat] : Total(r) = p[Len(r)]
        BY TotalIs
      <3>2. Len(r) \in 0 .. Len(r)
        BY LengthsOf
      <3> QED
        BY <3>1, <3>2
    <2> QED
      BY <2>1, <2>2
  <1>3. T \in SUBSET Nat /\ T # {}
    <2>1. n + 1 \in T
      BY <1>1
    <2> QED
      BY <1>1, <2>1
  <1> HIDE DEF n
  <1>4. PICK m \in T : \A k \in T : m <= k
    BY <1>3, LeastOf
  <1>5. m \in 1 .. n + 1 /\ Chosen(m)
    <2>1. ASSUME NEW k \in 1 .. m - 1 PROVE fixed + Total(SubSeq(e, k, n)) > Budget
      <3>1. k \in 1 .. n + 1 /\ k < m
        BY <1>1, <1>4
      <3>2. k \notin T
        BY <1>1, <1>4, <3>1
      <3>3. ~(fixed + Total(SubSeq(e, k, n)) <= Budget)
        BY <3>1, <3>2
      <3>4. Total(SubSeq(e, k, n)) \in Nat
        BY <1>2, <3>1
      <3> QED
        BY <1>1, <3>3, <3>4
    <2> QED
      BY <1>4, <2>1
  <1> DEFINE from == CHOOSE k \in 1 .. n + 1 : Chosen(k)
  <1>6. from \in 1 .. n + 1 /\ Chosen(from)
    <2> HIDE DEF Chosen
    <2> QED
      BY <1>5
  <1>7. Shed(e, fixed) = SubSeq(e, from, n)
    BY DEF Shed, n
  <1> HIDE DEF from
  <1> QED
    BY <1>6, <1>7 DEF n

\* The lines of the block are hits.
LEMMA RenderedIs ==
    ASSUME NEW factHits \in SomeHits, NEW traits \in SomeHits
    PROVE  Rendered(factHits, traits) \in Seq(Hits)
  <1>1. ASSUME NEW h \in SomeHits PROVE h \in Seq(Hits)
    <2>1. PICK n \in 0 .. MaxHits : h \in [1 .. n -> Hits]
      BY DEF SomeHits
    <2>2. n \in Nat
      BY PromptContextAssumption
    <2> QED
      BY <2>1, <2>2
  <1>2. ASSUME NEW h \in Seq(Hits), NEW n \in Nat PROVE AtMost(n, h) \in Seq(Hits)
    BY <1>2 DEF AtMost
  <1>3. AtMost(TopFacts, factHits) \in Seq(Hits) /\ AtMost(TopTraits, traits) \in Seq(Hits)
    BY <1>1, <1>2, PromptContextAssumption
  <1> QED
    BY <1>3 DEF Rendered

\* The length of the system prompt is a number.
LEMMA SystemIs ==
    ASSUME NEW lines \in Seq(Hits)
    PROVE  SystemLength(WebBlock(lines)) \in Nat /\ SystemLength(CliBlock(lines)) \in Nat
  <1>1. BlockLength(lines) \in Nat /\ BlockCap \in Nat
    BY JoinedIs, PromptContextAssumption DEF BlockLength, Smaller
  <1>2. WebBlock(lines) \in Nat /\ CliBlock(lines) \in Nat
    BY <1>1 DEF WebBlock, CliBlock, Smaller
  <1>3. \A b \in Nat : SystemLength(b) \in Nat
    BY SMTT(30), PromptContextAssumption DEF SystemLength
  <1> QED
    BY <1>2, <1>3

\* Nothing is kept of no history, and it is no longer than nothing.
LEMMA TotalOfNone == <<>> \in Seq(Entry) /\ Total(<<>>) = 0
  <1>1. <<>> \in Seq(Entry) /\ Len(<<>>) = 0
    OBVIOUS
  <1>2. PICK p \in [0 .. 0 -> Nat] : p[0] = 0 /\ Total(<<>>) = p[0]
    BY <1>1, TotalIs
  <1> QED
    BY <1>1, <1>2

\* The prompt of a web turn fits, and sheds no more than it has to.
LEMMA WebFits ==
    ASSUME talk \in Seq(Entry), NEW lines \in Seq(Hits), NEW user \in UserLengths,
           prompt' = WebPrompt(lines, user)
    PROVE  PromptFits'
  <1> DEFINE system == SystemLength(WebBlock(lines))
             n == Len(Recent)
  <1>1. system \in Nat /\ user \in Nat /\ Budget \in Nat
    BY SystemIs, PromptContextAssumption
  <1>2. Recent \in Seq(Entry) /\ n \in Nat
    <2>1. Len(talk) \in Nat /\ Less(Len(talk), Window) + 1 \in 1 .. Len(talk) + 1
      <3>1. Len(talk) \in Nat /\ Window \in Nat
        BY PromptContextAssumption
      <3>2. \A a, b \in Nat : Less(a, b) + 1 \in 1 .. a + 1
        BY DEF Less
      <3> QED
        BY <3>1, <3>2
    <2>2. ASSUME NEW k \in 1 .. Len(talk) + 1 PROVE SubSeq(talk, k, Len(talk)) \in Seq(Entry)
      BY <2>1
    <2> QED
      BY <2>1, <2>2 DEF Recent
  <1> HIDE DEF n
  <1>3. PICK from \in 1 .. n + 1 :
              /\ Shed(Recent, system + user) = SubSeq(Recent, from, n)
              /\ from = n + 1 \/ (system + user) + Total(SubSeq(Recent, from, n)) <= Budget
              /\ \A k \in 1 .. from - 1 : (system + user) + Total(SubSeq(Recent, k, n)) > Budget
    <2>1. system + user \in Nat
      BY <1>1
    <2> HIDE DEF system
    <2> QED
      BY <1>2, <2>1, ShedIs DEF n
  <1> DEFINE kept == SubSeq(Recent, from, n)
  <1>4. /\ prompt'.path = "web" /\ prompt'.system = system /\ prompt'.user = user
        /\ prompt'.window = Recent /\ prompt'.kept = kept
    BY <1>3 DEF WebPrompt
  <1>5. kept \in Seq(Entry) /\ Len(kept) = (n - from) + 1
    BY <1>2, <1>3 DEF n
  <1>6. PromptLength' = system + user + Total(kept)
    BY <1>4 DEF PromptLength
  <1>7. PromptLength' <= Budget \/ prompt'.kept = <<>>
    <2>1. CASE from = n + 1
      BY <1>2, <1>4, <1>5, <2>1
    <2>2. CASE (system + user) + Total(kept) <= Budget
      BY <1>6, <2>2
    <2> QED
      BY <1>3, <2>1, <2>2
  <1>8. Len(prompt'.window) - Len(prompt'.kept) = from - 1
    BY <1>2, <1>4, <1>5 DEF n
  <1>9. prompt'.kept = SubSeq(prompt'.window, (from - 1) + 1, Len(prompt'.window))
    BY <1>2, <1>4 DEF n
  <1>10. ASSUME from - 1 > 0
         PROVE  PromptLength' + prompt'.window[from - 1].length > Budget
    <2> DEFINE longer == SubSeq(Recent, from - 1, n)
    <2>1. from - 1 \in 1 .. n /\ n \in Nat
      BY <1>2, <1>10
    <2>2. /\ longer \in Seq(Entry) /\ Len(longer) = Len(kept) + 1
          /\ longer[1] = Recent[from - 1]
          /\ \A k \in 1 .. Len(kept) : kept[k] = longer[k + 1]
      <3>1. longer \in Seq(Entry) /\ Len(longer) = Len(kept) + 1
        BY <1>2, <1>5, <2>1 DEF n
      <3>2. \A k \in 1 .. (n - (from - 1)) + 1 : longer[k] = Recent[(from - 1) + k - 1]
        BY <1>2, <2>1 DEF n
      <3>3. \A k \in 1 .. (n - from) + 1 : kept[k] = Recent[from + k - 1]
        BY <1>2, <1>3 DEF n
      <3>4. longer[1] = Recent[from - 1]
        BY <2>1, <3>2
      <3>5. ASSUME NEW k \in 1 .. Len(kept) PROVE kept[k] = longer[k + 1]
        <4>1. k \in 1 .. (n - from) + 1 /\ k + 1 \in 1 .. (n - (from - 1)) + 1
          BY <1>5, <2>1, <3>5
        <4>2. (from - 1) + (k + 1) - 1 = from + k - 1
          BY <2>1, <4>1
        <4> HIDE DEF kept, longer
        <4> QED
          BY <3>2, <3>3, <4>1, <4>2
      <3> QED
        BY <3>1, <3>4, <3>5
    <2> HIDE DEF kept, longer
    <2>3. Total(longer) = Recent[from - 1].length + Total(kept)
      BY <1>5, <2>2, TotalOfRest
    <2>4. (system + user) + Total(longer) > Budget
      BY <1>3, <2>1 DEF longer
    <2>5. Recent[from - 1].length \in Nat
      BY <1>2, <2>1, LengthsOf DEF n
    <2>6. Total(kept) \in Nat
      <3>1. PICK p \in [0 .. Len(kept) -> Nat] : Total(kept) = p[Len(kept)]
        BY <1>5, TotalIs
      <3>2. Len(kept) \in 0 .. Len(kept)
        BY <1>5, LengthsOf
      <3> QED
        BY <3>1, <3>2
    <2>7. system + user + Total(kept) + Recent[from - 1].length > Budget
      BY <1>1, <2>3, <2>4, <2>5, <2>6
    <2> QED
      BY <1>4, <1>6, <2>7
  <1> QED
    BY <1>4, <1>7, <1>8, <1>9, <1>10 DEF PromptFits

\* The prompt of a CLI turn fits, unless the question itself does not.
LEMMA CliFits ==
    ASSUME NEW lines \in Seq(Hits), NEW user \in UserLengths, prompt' = CliPrompt(lines, user)
    PROVE  PromptFits'
  <1> DEFINE system == SystemLength(CliBlock(lines))
             fitted == IF system + user <= Budget THEN system ELSE Truncated(system, user)
  <1>1. /\ system \in Nat /\ user \in Nat /\ Budget \in Nat
        /\ {LeastRoom, Margin, EndMark} \subseteq Nat /\ EndMark < Margin /\ Margin < LeastRoom
    BY SystemIs, PromptContextAssumption
  <1>2. /\ prompt'.path = "cli" /\ prompt'.system = fitted /\ prompt'.user = user
        /\ prompt'.window = <<>> /\ prompt'.kept = <<>>
    BY DEF CliPrompt
  <1> HIDE DEF system
  <1>3. fitted + user <= Budget \/ fitted + user <= user + LeastRoom
    <2>1. CASE system + user <= Budget
      BY <1>1, <2>1
    <2>2. CASE ~(system + user <= Budget)
      <3>1. CASE Less(Budget, user) < LeastRoom
        BY <1>1, <2>2, <3>1 DEF Truncated, Smaller
      <3>2. CASE ~(Less(Budget, user) < LeastRoom)
        BY <1>1, <2>2, <3>2 DEF Truncated, Smaller, Less
      <3> QED
        BY <3>1, <3>2
    <2> QED
      BY <2>1, <2>2
  <1>4. fitted \in Int
    BY <1>1 DEF Truncated, Smaller, Less
  <1> HIDE DEF fitted
  <1>5. PromptLength' = fitted + user + 0
    BY <1>2, TotalOfNone DEF PromptLength
  <1>6. PromptLength' = fitted + user
    BY <1>1, <1>4, <1>5
  <1>7. Len(<<>>) = 0 /\ SubSeq(<<>>, 1, 0) = <<>>
    OBVIOUS
  <1> QED
    BY <1>1, <1>2, <1>3, <1>6, <1>7 DEF PromptFits

\* The history has entries only, and the last prompt fitted.
PromptInv == talk \in Seq(Entry) /\ PromptFits

LEMMA PromptStarts == PromptInit => PromptInv
  BY DEF PromptInit, PromptInv, PromptFits

LEMMA PromptSteps == PromptInv /\ [PromptNext]_promptVars => PromptInv'
  <1> SUFFICES ASSUME PromptInv, [PromptNext]_promptVars PROVE PromptInv'
    OBVIOUS
  <1>1. CASE UNCHANGED promptVars
    BY <1>1 DEF promptVars, PromptInv, PromptFits, PromptLength
  <1>2. CASE WebTalk
    <2>1. PICK factHits \in SomeHits, traits \in SomeHits, user \in UserLengths :
            /\ prompt' = WebPrompt(Rendered(factHits, traits), user)
            /\ \E reply \in ReplyLengths \cup {0} :
                talk' = talk \o <<[who |-> "user", length |-> user]>>
                    \o IF reply = 0 THEN <<>> ELSE <<[who |-> "assistant", length |-> reply]>>
      BY <1>2 DEF WebTalk
    <2>2. PromptFits'
      BY <2>1, RenderedIs, WebFits DEF PromptInv
    <2>3. PICK reply \in ReplyLengths \cup {0} :
            talk' = talk \o <<[who |-> "user", length |-> user]>>
                \o IF reply = 0 THEN <<>> ELSE <<[who |-> "assistant", length |-> reply]>>
      BY <2>1
    <2>4. /\ [who |-> "user", length |-> user] \in Entry
          /\ [who |-> "assistant", length |-> reply] \in Entry
      BY PromptContextAssumption DEF Entry
    <2>5. talk' \in Seq(Entry)
      <3>1. talk \o <<[who |-> "user", length |-> user]>> \in Seq(Entry)
        BY <2>4 DEF PromptInv
      <3>2. (IF reply = 0 THEN <<>> ELSE <<[who |-> "assistant", length |-> reply]>>) \in Seq(Entry)
        BY <2>4
      <3> QED
        BY <2>3, <3>1, <3>2
    <2> QED
      BY <2>2, <2>5 DEF PromptInv
  <1>3. CASE CliTalk
    <2>1. PICK factHits \in SomeHits, traits \in SomeHits, user \in UserLengths :
            prompt' = CliPrompt(Rendered(factHits, traits), user)
      BY <1>3 DEF CliTalk
    <2>2. PromptFits'
      BY <2>1, RenderedIs, CliFits
    <2> QED
      BY <1>3, <2>2 DEF CliTalk, PromptInv
  <1> QED
    BY <1>1, <1>2, <1>3 DEF PromptNext

\* For every persona, budget, window and search result: a prompt is within the
\* budget unless what may not be cut is not, what is left of the history is its
\* end, and one more entry would not have fitted (_fit_history_budget,
\* fit_prompt_budget).
THEOREM PromptsFit == PromptSpec => []PromptFits
  <1>1. PromptInv => PromptFits
    BY DEF PromptInv
  <1> QED
    BY PromptStarts, PromptSteps, <1>1, PTL DEF PromptSpec

=============================================================================
