--------------------------- MODULE WebTurnsProofs ---------------------------
(***************************************************************************)
(* Theorems about WebTurns, for every number of turns and every choice of  *)
(* the inputs that the user of a session has.                              *)
(***************************************************************************)
EXTENDS WebTurns, FiniteSetTheorems, TLAPS

(***************************************************************************)
(* The two counts that Begin and MayStart are built from.                  *)
(***************************************************************************)

\* Turns are born in the order of their numbers, so Born is the last one.
LEMMA BornIs ==
    ASSUME NEW f, NEW b \in 0 .. MaxTurns,
           \A n \in Turns : f[n] # "unborn" <=> n <= b
    PROVE  Cardinality({n \in Turns : f[n] # "unborn"}) = b
  <1> DEFINE S == {n \in Turns : f[n] # "unborn"}
             I == 1 .. b
  <1>1. S = I
    BY TurnsAssumption DEF Turns
  <1>2. b \in Nat
    BY TurnsAssumption
  <1>3. Cardinality(I) = IF 1 > b THEN 0 ELSE b - 1 + 1
    BY <1>2, FS_Interval
  <1> HIDE DEF S, I
  <1>4. Cardinality(S) = b
    BY <1>1, <1>2, <1>3
  <1> QED
    BY <1>4 DEF S

\* What a loop at pc adds to the turns that may still be started.
Load(pc) == IF pc \in {"asr", "superseding", "announcing"} THEN 1 ELSE 0

LEMMA LoadIs ==
    ASSUME NEW f
    PROVE  Cardinality({p \in Loops : f[p] \in {"asr", "superseding", "announcing"}})
             = Load(f["receive"]) + Load(f["audio"])
  <1> DEFINE X == {"asr", "superseding", "announcing"}
             C == {p \in Loops : f[p] \in X}
  <1>1. CASE f["receive"] \in X /\ f["audio"] \in X
    <2> DEFINE R == {"receive"}
    <2>1. C = R \cup {"audio"} /\ "audio" \notin R
      BY <1>1 DEF Loops
    <2>2. IsFiniteSet(R) /\ Cardinality(R) = 1
      BY FS_Singleton
    <2> HIDE DEF R, C
    <2>3. Cardinality(C) = 2
      BY <2>1, <2>2, FS_AddElement
    <2> QED
      BY <1>1, <2>3 DEF Load, C
  <1>2. CASE f["receive"] \in X /\ f["audio"] \notin X
    <2>1. C = {"receive"}
      BY <1>2 DEF Loops
    <2> QED
      BY <1>2, <2>1, FS_Singleton DEF Load
  <1>3. CASE f["receive"] \notin X /\ f["audio"] \in X
    <2>1. C = {"audio"}
      BY <1>3 DEF Loops
    <2> QED
      BY <1>3, <2>1, FS_Singleton DEF Load
  <1>4. CASE f["receive"] \notin X /\ f["audio"] \notin X
    <2>1. C = {}
      BY <1>4 DEF Loops
    <2> QED
      BY <1>4, <2>1, FS_EmptySet DEF Load
  <1> QED
    BY <1>1, <1>2, <1>3, <1>4

-----------------------------------------------------------------------------
(***************************************************************************)
(* Type correctness.  A turn is started at a suspension far from the guard *)
(* that made room for it, so the invariant counts the turns under way.     *)
(***************************************************************************)

Counted ==
    /\ Born \in 0 .. MaxTurns
    /\ \A n \in Turns : turn[n] # "unborn" <=> n <= Born
    /\ Born + Starting <= MaxTurns

TypeInv == TypeOK /\ Counted

LEMMA TypeInit == Init => TypeInv
  <1> SUFFICES ASSUME Init PROVE TypeInv
    OBVIOUS
  <1>1. TypeOK
    <2>1. history \in Seq(Entries)
      BY DEF Init
    <2>2. /\ at \in [Loops -> {"idle", "asr", "superseding", "announcing", "breaking",
                              "closing", "ended"}]
          /\ awaited \in [Loops -> SUBSET Turns]
          /\ turn \in [Turns -> Phases]
      BY DEF Init, Phases
    <2> QED
      BY <2>1, <2>2 DEF Init, TypeOK
  <1>2. Born = 0
    BY BornIs, TurnsAssumption DEF Init, Born, Turns
  <1>3. Starting = 0
    BY LoadIs DEF Init, Starting, Load, Loops
  <1> QED
    BY <1>1, <1>2, <1>3, TurnsAssumption DEF TypeInv, Counted, Init, Turns

\* A turn that goes on was born before and is so after.
LEMMA BornKept ==
    ASSUME TypeInv, turn' \in [Turns -> Phases],
           \A n \in Turns : turn'[n] = "unborn" <=> turn[n] = "unborn"
    PROVE  /\ Born' = Born
           /\ \A n \in Turns : turn'[n] # "unborn" <=> n <= Born'
  <1>1. Born' = Born
    BY BornIs DEF TypeInv, Counted, Born
  <1> QED
    BY <1>1 DEF TypeInv, Counted

\* _start_turn takes the next number, and there is one.
LEMMA BornGrows ==
    ASSUME TypeInv, NEW p \in Loops, Begin(p), Born < MaxTurns
    PROVE  /\ Born + 1 \in Turns
           /\ turn[Born + 1] = "unborn"
           /\ turn' \in [Turns -> Phases]
           /\ Born' = Born + 1
           /\ \A n \in Turns : turn'[n] # "unborn" <=> n <= Born'
  <1>1. Born + 1 \in Turns /\ turn[Born + 1] = "unborn"
    BY TurnsAssumption DEF TypeInv, TypeOK, Counted, Turns
  <1>2. turn' = [turn EXCEPT ![Born + 1] = "prepare"]
    BY DEF Begin
  <1>3. turn' \in [Turns -> Phases]
    BY <1>2 DEF TypeInv, TypeOK, Phases
  <1>4. \A n \in Turns : turn'[n] # "unborn" <=> n <= Born + 1
    BY <1>1, <1>2 DEF TypeInv, TypeOK, Counted, Turns
  <1>5. Born' = Born + 1
    <2>1. Born + 1 \in 0 .. MaxTurns
      BY <1>1, TurnsAssumption DEF Turns
    <2> QED
      BY <1>4, <2>1, BornIs DEF Born
  <1> QED
    BY <1>1, <1>3, <1>4, <1>5

LEMMA StartingIs ==
    /\ TypeInv => Starting = (IF inSpeech THEN 1 ELSE 0) + Load(at["receive"])
                               + Load(at["audio"])
    /\ Starting' = (IF inSpeech' THEN 1 ELSE 0) + Load(at'["receive"]) + Load(at'["audio"])
  BY LoadIs DEF Starting, Load

\* A loop that is about to start a turn has room for it.
Room(p) == at[p] \in {"asr", "superseding", "announcing"} \/ MayStart

LEMMA BeginType ==
    ASSUME TypeInv, NEW p \in Loops, Room(p), Begin(p)
    PROVE  /\ at' \in [Loops -> {"idle", "asr", "superseding", "announcing", "breaking",
                                 "closing", "ended"}]
           /\ turnTask' \in Turns
           /\ turn' \in [Turns -> Phases]
           /\ inSpeech' \in BOOLEAN
           /\ gate' = "armed"
           /\ Counted'
           /\ Born < MaxTurns
  <1>1. Born \in Nat /\ Born < MaxTurns /\ Born + Starting <= MaxTurns
    BY TurnsAssumption, StartingIs
       DEF TypeInv, TypeOK, Counted, Room, MayStart, Load, Loops
  <1>2. /\ Born + 1 \in Turns
        /\ turn' \in [Turns -> Phases]
        /\ Born' = Born + 1
        /\ \A n \in Turns : turn'[n] # "unborn" <=> n <= Born'
    BY <1>1, BornGrows
  <1>3. /\ at' = [at EXCEPT ![p] = Home]
        /\ turnTask' = Born + 1
        /\ gate' = "armed"
        /\ inSpeech' = (inSpeech /\ p = "audio")
    BY DEF Begin
  <1>4. /\ at' \in [Loops -> {"idle", "asr", "superseding", "announcing", "breaking",
                              "closing", "ended"}]
        /\ inSpeech' \in BOOLEAN
    BY <1>3 DEF TypeInv, TypeOK, Home
  <1>5. Starting' <= Starting /\ (Starting' < Starting \/ Born + Starting < MaxTurns)
    BY <1>3, StartingIs DEF TypeInv, TypeOK, Room, MayStart, Home, Load, Loops
  <1>6. Starting \in Nat /\ Starting' \in Nat
    BY StartingIs DEF Load
  <1>7. Born' + Starting' <= MaxTurns
    <2>1. PICK s \in Nat : s = Starting'
      BY <1>6
    <2>2. Starting \in Nat /\ s <= Starting /\ (s < Starting \/ Born + Starting < MaxTurns)
      BY <1>5, <1>6, <2>1
    <2>3. Born + 1 + s <= MaxTurns
      BY <1>1, <2>2, TurnsAssumption
    <2> QED
      BY <1>2, <2>1, <2>3
  <1>8. Counted'
    BY <1>1, <1>2, <1>7, TurnsAssumption DEF Counted
  <1> QED
    BY <1>1, <1>2, <1>3, <1>4, <1>8

LEMMA TakeoverType ==
    ASSUME TypeInv, NEW p \in Loops, Room(p), Takeover(p)
    PROVE  /\ at' \in [Loops -> {"idle", "asr", "superseding", "announcing", "breaking",
                                 "closing", "ended"}]
           /\ awaited' \in [Loops -> SUBSET Turns]
           /\ turnTask' \in Turns \cup {None}
           /\ turn' \in [Turns -> Phases]
           /\ inSpeech' \in BOOLEAN
           /\ tail' = FALSE
           /\ gate' \in {"armed", "free"}
           /\ Counted'
  <1>1. awaited' = [awaited EXCEPT ![p] = {}] /\ tail' = FALSE
    BY DEF Takeover
  <1>2. awaited' \in [Loops -> SUBSET Turns]
    BY <1>1 DEF TypeInv, TypeOK
  <1>3. CASE Begin(p)
    BY <1>1, <1>2, <1>3, BeginType
  <1>4. CASE ~Begin(p)
    <2>1. /\ at' = [at EXCEPT ![p] = "announcing"]
          /\ turnTask' = None
          /\ UNCHANGED <<turn, gate, inSpeech>>
      BY <1>4 DEF Takeover
    <2>2. at' \in [Loops -> {"idle", "asr", "superseding", "announcing", "breaking",
                             "closing", "ended"}]
      BY <2>1 DEF TypeInv, TypeOK
    <2>3. /\ Born' = Born
          /\ \A n \in Turns : turn'[n] # "unborn" <=> n <= Born'
      BY <2>1, BornKept DEF TypeInv, TypeOK
    <2>4. /\ Starting' <= Starting + 1
          /\ Starting' <= Starting \/ Born + Starting < MaxTurns
      BY <2>1, StartingIs DEF TypeInv, TypeOK, Room, MayStart, Load, Loops
    <2>5. Starting \in Nat /\ Starting' \in Nat
      BY StartingIs DEF Load
    <2>6. Born' + Starting' <= MaxTurns
      <3>1. PICK s \in Nat : s = Starting'
        BY <2>5
      <3>2. Starting \in Nat /\ s <= Starting + 1
              /\ (s <= Starting \/ Born + Starting < MaxTurns)
        BY <2>4, <2>5, <3>1
      <3>3. Born + s <= MaxTurns
        BY <3>2, TurnsAssumption DEF TypeInv, Counted
      <3> QED
        BY <2>3, <3>1, <3>3
    <2>7. Counted'
      BY <2>3, <2>6 DEF TypeInv, Counted
    <2> QED
      BY <1>1, <1>2, <2>1, <2>2, <2>7 DEF TypeInv, TypeOK
  <1> QED
    BY <1>3, <1>4

\* The counts are kept by a step that starts nothing.
LEMMA CountedKept ==
    ASSUME TypeInv, turn' \in [Turns -> Phases],
           \A n \in Turns : turn'[n] = "unborn" <=> turn[n] = "unborn",
           Starting' <= Starting
    PROVE  Counted'
  <1>1. /\ Born' = Born
        /\ \A n \in Turns : turn'[n] # "unborn" <=> n <= Born'
    BY BornKept
  <1>2. PICK s \in Nat : s = Starting'
    BY StartingIs DEF Load
  <1>3. Starting \in Nat /\ s <= Starting
    BY <1>2, StartingIs DEF Load
  <1>4. Born + s <= MaxTurns
    BY <1>3, TurnsAssumption DEF TypeInv, Counted
  <1> QED
    BY <1>1, <1>2, <1>4 DEF TypeInv, Counted

\* Awaiting the end of the current turn keeps the types.
LEMMA AwaitType ==
    ASSUME TypeInv, NEW p \in Loops, Answering,
           NEW pc \in {"superseding", "breaking"}, AwaitCancelled(p, pc)
    PROVE  /\ at' \in [Loops -> {"idle", "asr", "superseding", "announcing", "breaking",
                                 "closing", "ended"}]
           /\ awaited' \in [Loops -> SUBSET Turns]
           /\ cancelled' \subseteq Turns
           /\ at' = [at EXCEPT ![p] = pc]
  <1>1. turnTask \in Turns
    BY DEF TypeInv, TypeOK, Answering
  <1> QED
    BY <1>1 DEF AwaitCancelled, TypeInv, TypeOK

LEMMA SupersedeType ==
    ASSUME TypeInv, NEW p \in Loops, Room(p), Supersede(p),
           UNCHANGED <<inputs, closed, heard, voice, loose, history, submitted>>
    PROVE  TypeInv'
  <1>1. CASE Answering /\ AwaitCancelled(p, "superseding")
    <2>1. UNCHANGED <<turnTask, turn, gate, inSpeech, tail>>
      BY <1>1 DEF Supersede
    <2>2. /\ at' = [at EXCEPT ![p] = "superseding"]
          /\ TypeOK'
      BY <1>1, <2>1, AwaitType DEF TypeInv, TypeOK
    <2>3. /\ Born' = Born
          /\ \A n \in Turns : turn'[n] # "unborn" <=> n <= Born'
      BY <2>1, BornKept DEF TypeInv, TypeOK
    <2>4. /\ Starting' <= Starting + 1
          /\ Starting' <= Starting \/ Born + Starting < MaxTurns
      BY <2>1, <2>2, StartingIs DEF TypeInv, TypeOK, Room, MayStart, Load, Loops
    <2>5. PICK s \in Nat : s = Starting'
      BY StartingIs DEF Load
    <2>6. /\ Starting \in Nat
          /\ s <= Starting + 1
          /\ s <= Starting \/ Born + Starting < MaxTurns
      BY <2>4, <2>5, StartingIs DEF Load
    <2>7. Born + s <= MaxTurns
      BY <2>6, TurnsAssumption DEF TypeInv, Counted
    <2> QED
      BY <2>2, <2>3, <2>5, <2>7 DEF TypeInv, Counted
  <1>2. CASE Takeover(p) /\ UNCHANGED cancelled
    BY <1>2, TakeoverType DEF TypeInv, TypeOK
  <1> QED
    BY <1>1, <1>2 DEF Supersede

\* What a step of a turn's task leaves alone.
LEMMA TurnType ==
    ASSUME TypeInv, NEW n \in Turns, TurnStep(n)
    PROVE  /\ TypeOK'
           /\ Live(n)
           /\ \A m \in Turns : turn'[m] = "unborn" <=> turn[m] = "unborn"
           /\ UNCHANGED <<inputs, closed, at, awaited, turnTask, cancelled, inSpeech, heard,
                          voice>>
  <1>1. CASE Prepared(n)
    BY <1>1 DEF Prepared, Goto, TypeInv, TypeOK, Phases, Live
  <1>2. CASE Streamed(n) \/ Unavailable(n) \/ Told(n)
    BY <1>2 DEF Streamed, Unavailable, Told, Goto, TypeInv, TypeOK, Phases, Live
  <1>3. CASE Spoken(n)
    BY <1>3 DEF Spoken, Goto, TypeInv, TypeOK, Phases, Live
  <1>4. CASE Fail(n)
    BY <1>4 DEF Fail, Goto, TypeInv, TypeOK, Phases, Live
  <1>5. CASE Failed(n)
    BY <1>5 DEF Failed, Goto, TypeInv, TypeOK, Phases, Live
  <1>6. CASE Answered(n)
    <2>1. [turn |-> n, how |-> "answered"] \in Entries
      BY DEF Entries
    <2>2. history' \in Seq(Entries)
      BY <1>6, <2>1 DEF Answered, TypeInv, TypeOK
    <2> QED
      BY <1>6, <2>2 DEF Answered, Goto, TypeInv, TypeOK, Phases, Live
  <1>7. CASE AnsweredNothing(n)
    BY <1>7 DEF AnsweredNothing, Goto, TypeInv, TypeOK, Phases, Live
  <1>8. CASE Cut(n)
    <2>1. \A h \in {"cut", "asked"} : [turn |-> n, how |-> h] \in Entries
      BY DEF Entries
    <2>2. history' \in Seq(Entries)
      BY <1>8, <2>1 DEF Cut, TypeInv, TypeOK
    <2> QED
      BY <1>8, <2>2 DEF Cut, TypeInv, TypeOK, Phases, Live
  <1> QED
    BY <1>1, <1>2, <1>3, <1>4, <1>5, <1>6, <1>7, <1>8 DEF TurnStep

LEMMA TypeNext == TypeInv /\ [Next]_vars => TypeInv'
  <1> SUFFICES ASSUME TypeInv, [Next]_vars PROVE TypeInv'
    OBVIOUS
  <1>1. CASE UNCHANGED vars
    <2>1. TypeOK' /\ Starting' <= Starting
      BY <1>1, StartingIs DEF vars, TypeInv, TypeOK, Load
    <2> QED
      BY <1>1, <2>1, CountedKept DEF vars, TypeInv, TypeOK
  <1>2. CASE TypedTurn
    BY <1>2, SupersedeType DEF TypedTurn, Room, Loops
  <1>3. CASE SpeechStart
    <2>1. TypeOK' /\ UNCHANGED <<at, turn>> /\ inSpeech' /\ ~inSpeech /\ MayStart
      BY <1>3 DEF SpeechStart, TypeInv, TypeOK
    <2>2. /\ Born' = Born
          /\ \A n \in Turns : turn'[n] # "unborn" <=> n <= Born'
      BY <2>1, BornKept DEF TypeInv, TypeOK
    <2>3. PICK s \in Nat : s = Starting'
      BY StartingIs DEF Load
    <2>4. Starting \in Nat /\ s = Starting + 1
      BY <2>1, <2>3, StartingIs DEF Load
    <2>5. Born + s <= MaxTurns
      BY <2>1, <2>4, TurnsAssumption DEF TypeInv, Counted, MayStart
    <2> QED
      BY <2>1, <2>2, <2>3, <2>5 DEF TypeInv, Counted
  <1>4. CASE SpeechEnd
    <2>1. TypeOK' /\ UNCHANGED turn
      BY <1>4 DEF SpeechEnd, TypeInv, TypeOK
    <2>2. Starting' <= Starting
      BY <1>4, StartingIs DEF SpeechEnd, TypeInv, TypeOK, Load, Loops
    <2> QED
      BY <2>1, <2>2, CountedKept DEF TypeInv, TypeOK
  <1>5. CASE SpokenTurn
    BY <1>5, SupersedeType DEF SpokenTurn, Room, Loops
  <1>6. CASE NoTranscript
    <2>1. TypeOK' /\ UNCHANGED turn
      BY <1>6 DEF NoTranscript, TypeInv, TypeOK
    <2>2. Starting' <= Starting
      BY <1>6, StartingIs DEF NoTranscript, TypeInv, TypeOK, Load, Loops
    <2> QED
      BY <2>1, <2>2, CountedKept DEF TypeInv, TypeOK
  <1>7. ASSUME Interrupt \/ (Answering /\ AwaitCancelled("audio", "breaking")),
               at["audio"] \in {"idle", "breaking"},
               UNCHANGED <<turn, inSpeech>>
        PROVE  Starting' <= Starting
    <2>1. \E pc \in {"breaking", "ended", "idle"} : at' = [at EXCEPT !["audio"] = pc]
      BY <1>7 DEF Interrupt, AwaitCancelled, Home
    <2> QED
      BY <1>7, <2>1, StartingIs DEF TypeInv, TypeOK, Load, Loops
  <1>8. CASE BargeIn
    <2>1. CASE Answering /\ AwaitCancelled("audio", "breaking")
      <3>1. TypeOK' /\ UNCHANGED <<turn, inSpeech>>
        BY <1>8, <2>1, AwaitType DEF BargeIn, TypeInv, TypeOK, Loops
      <3> QED
        BY <1>8, <2>1, <3>1, <1>7, CountedKept DEF BargeIn, TypeInv, TypeOK
    <2>2. CASE Interrupt /\ UNCHANGED cancelled
      <3>1. TypeOK' /\ UNCHANGED <<turn, inSpeech>>
        BY <1>8, <2>2 DEF BargeIn, Interrupt, Home, TypeInv, TypeOK, Loops
      <3> QED
        BY <1>8, <2>2, <3>1, <1>7, CountedKept DEF BargeIn, TypeInv, TypeOK
    <2> QED
      BY <1>8, <2>1, <2>2 DEF BargeIn
  <1>9. CASE Interrupted
    <2>1. TypeOK' /\ UNCHANGED <<turn, inSpeech>>
      BY <1>9 DEF Interrupted, Interrupt, Home, TypeInv, TypeOK, Loops
    <2> QED
      BY <1>9, <2>1, <1>7, CountedKept DEF Interrupted, TypeInv, TypeOK
  <1>10. CASE Disconnect
    <2>1. UNCHANGED <<turn, inSpeech>>
          /\ at' = [at EXCEPT !["receive"] = "closing",
                              !["audio"] = IF @ \in {"superseding", "breaking"}
                                             THEN @ ELSE "ended"]
      BY <1>10 DEF Disconnect
    <2>2. /\ awaited' \in [Loops -> SUBSET Turns]
          /\ cancelled' \subseteq Turns
          /\ closed' \in BOOLEAN
      BY <1>10 DEF Disconnect, TypeInv, TypeOK
    <2>3. at' \in [Loops -> {"idle", "asr", "superseding", "announcing", "breaking",
                             "closing", "ended"}]
      BY <2>1 DEF TypeInv, TypeOK, Loops
    <2>4. TypeOK'
      BY <1>10, <2>2, <2>3 DEF Disconnect, TypeInv, TypeOK
    <2>5. Starting' <= Starting
      BY <2>1, StartingIs DEF TypeInv, TypeOK, Load, Loops
    <2> QED
      BY <2>1, <2>4, <2>5, CountedKept DEF TypeInv, TypeOK
  <1>11. CASE TornDown
    <2>1. TypeOK' /\ UNCHANGED turn
      BY <1>11 DEF TornDown, TypeInv, TypeOK
    <2>2. Starting' <= Starting
      BY <1>11, StartingIs DEF TornDown, TypeInv, TypeOK, Load, Loops
    <2> QED
      BY <2>1, <2>2, CountedKept DEF TypeInv, TypeOK
  <1>12. CASE TailEnds
    <2>1. TypeOK' /\ UNCHANGED turn
      BY <1>12 DEF TailEnds, TypeInv, TypeOK
    <2>2. Starting' <= Starting
      BY <1>12, StartingIs DEF TailEnds, TypeInv, TypeOK, Load
    <2> QED
      BY <2>1, <2>2, CountedKept DEF TypeInv, TypeOK
  <1>13. ASSUME NEW p \in Loops, LoopStep(p) PROVE TypeInv'
    <2>1. CASE Superseded(p)
      BY <2>1, TakeoverType DEF Superseded, Room, TypeInv, TypeOK
    <2>2. CASE Announced(p)
      BY <2>2, BeginType DEF Announced, Room, TypeInv, TypeOK
    <2> QED
      BY <1>13, <2>1, <2>2 DEF LoopStep
  <1>14. ASSUME NEW n \in Turns, TurnStep(n) PROVE TypeInv'
    <2>1. /\ TypeOK'
          /\ UNCHANGED <<at, inSpeech>>
          /\ \A m \in Turns : turn'[m] = "unborn" <=> turn[m] = "unborn"
      BY <1>14, TurnType
    <2>2. Starting' <= Starting
      BY <2>1, StartingIs DEF TypeInv, TypeOK, Load
    <2> QED
      BY <2>1, <2>2, CountedKept DEF TypeInv, TypeOK
  <1>15. ASSUME NEW n \in Turns, Speak(n) PROVE TypeInv'
    <2>1. TypeOK' /\ UNCHANGED <<at, inSpeech, turn>>
      BY <1>15 DEF Speak, TypeInv, TypeOK
    <2>2. Starting' <= Starting
      BY <2>1, StartingIs DEF TypeInv, TypeOK, Load
    <2> QED
      BY <2>1, <2>2, CountedKept DEF TypeInv, TypeOK
  <1> QED
    BY <1>1, <1>2, <1>3, <1>4, <1>5, <1>6, <1>8, <1>9, <1>10, <1>11, <1>12, <1>13, <1>14,
       <1>15 DEF Next

\* The variables of a session keep their types, and no turn is started
\* without a number of its own.
THEOREM TurnsTyped == Spec => []TypeOK
  <1>1. TypeInv => TypeOK
    BY DEF TypeInv
  <1> QED
    BY <1>1, TypeInit, TypeNext, PTL DEF Spec

-----------------------------------------------------------------------------
(***************************************************************************)
(* What a step may do to the turns: start one, move one, or neither.       *)
(***************************************************************************)

Starts(p) ==
    /\ Room(p)
    /\ Begin(p)
    /\ UNCHANGED <<inputs, closed, cancelled, heard, voice, loose, history, submitted>>

StartsNone ==
    /\ UNCHANGED <<inputs, turn, history, submitted>>
    /\ \A n \in cancelled' : n \in cancelled \/ Live(n)
    /\ \/ UNCHANGED <<heard, voice>>
       \/ \E n \in Turns : /\ Live(n) \/ n \in loose
                           /\ voice' = n /\ heard' = heard \cup {n}
    /\ UNCHANGED loose

LEMMA SupersedeKinds ==
    ASSUME NEW p \in Loops, Room(p), Supersede(p),
           UNCHANGED <<inputs, closed, heard, voice, loose, history, submitted>>
    PROVE  Starts(p) \/ StartsNone
  <1>1. CASE Answering /\ AwaitCancelled(p, "superseding")
    BY <1>1 DEF Supersede, AwaitCancelled, Answering, StartsNone
  <1>2. CASE Takeover(p) /\ UNCHANGED cancelled
    BY <1>2 DEF Takeover, Starts, StartsNone
  <1> QED
    BY <1>1, <1>2 DEF Supersede

LEMMA StepKinds ==
    ASSUME TypeInv, [Next]_vars
    PROVE  \/ \E p \in Loops : Starts(p)
           \/ StartsNone
           \/ \E n \in Turns : TurnStep(n)
  <1>1. CASE UNCHANGED vars
    BY <1>1 DEF vars, StartsNone
  <1>2. CASE TypedTurn
    BY <1>2, SupersedeKinds DEF TypedTurn, Room, Loops
  <1>3. CASE SpeechStart
    BY <1>3 DEF SpeechStart, StartsNone
  <1>4. CASE SpeechEnd
    BY <1>4 DEF SpeechEnd, StartsNone
  <1>5. CASE SpokenTurn
    BY <1>5, SupersedeKinds DEF SpokenTurn, Room, Loops
  <1>6. CASE NoTranscript
    BY <1>6 DEF NoTranscript, StartsNone
  <1>7. CASE BargeIn
    BY <1>7 DEF BargeIn, Answering, AwaitCancelled, StartsNone
  <1>8. CASE Interrupted
    BY <1>8 DEF Interrupted, StartsNone
  <1>9. CASE Disconnect
    BY <1>9 DEF Disconnect, StartsNone
  <1>10. CASE TornDown
    BY <1>10 DEF TornDown, StartsNone
  <1>11. CASE TailEnds
    BY <1>11 DEF TailEnds, StartsNone
  <1>12. ASSUME NEW p \in Loops, LoopStep(p) PROVE Starts(p) \/ StartsNone
    BY <1>12 DEF LoopStep, Superseded, Announced, Takeover, Room, Starts, StartsNone
  <1>13. ASSUME NEW n \in Turns, Speak(n) PROVE StartsNone
    BY <1>13 DEF Speak, Live, StartsNone
  <1> QED
    BY <1>1, <1>2, <1>3, <1>4, <1>5, <1>6, <1>7, <1>8, <1>9, <1>10, <1>11, <1>12, <1>13
       DEF Next

-----------------------------------------------------------------------------
(***************************************************************************)
(* Cancelled turns.  Only a turn's last step writes history or submits, so *)
(* what is cancelled while it lives is in neither, and stays so until it   *)
(* dies by its cancellation.                                               *)
(***************************************************************************)

Spent ==
    /\ \A n \in submitted : turn[n] = "done"
    /\ \A i \in 1 .. Len(history) : turn[history[i].turn] = "done"
    /\ \A n \in heard \cup loose : n <= Born

CutInv == TypeInv /\ Spent /\ CutStaysCut

LEMMA CutInit == Init => CutInv
  <1> SUFFICES ASSUME Init PROVE CutInv
    OBVIOUS
  <1>1. TypeInv
    BY TypeInit
  <1> QED
    BY <1>1 DEF Init, CutInv, Spent, CutStaysCut, TypeInv, Counted, None

\* The steps of a turn that write history end it.
LEMMA TurnWrites ==
    ASSUME TypeInv, NEW n \in Turns, TurnStep(n)
    PROVE  /\ \A m \in Turns : m # n => turn'[m] = turn[m]
           /\ loose' = loose \/ loose' = loose \cup {n}
           /\ \/ UNCHANGED <<history, submitted>>
              \/ /\ turn'[n] = "done"
                 /\ n \notin cancelled
                 /\ history' = Append(history, [turn |-> n, how |-> "answered"])
                 /\ submitted' = submitted \cup {n}
              \/ /\ turn'[n] = "done"
                 /\ \E h \in {"cut", "asked"} :
                        history' = Append(history, [turn |-> n, how |-> h])
                 /\ UNCHANGED submitted
  BY DEF TurnStep, Prepared, Streamed, Unavailable, Told, Spoken, Fail, Failed,
         Answered, AnsweredNothing, Cut,
         Goto, TypeInv, TypeOK

LEMMA CutNext == CutInv /\ [Next]_vars => CutInv'
  <1> SUFFICES ASSUME CutInv, [Next]_vars PROVE CutInv'
    OBVIOUS
  <1>1. TypeInv /\ TypeInv'
    BY TypeNext DEF CutInv
  <1>2. \A i \in 1 .. Len(history) : history[i] \in Entries
    BY <1>1 DEF TypeInv, TypeOK
  <1>3. ASSUME NEW p \in Loops, Starts(p) PROVE CutInv'
    <2>1. Born + 1 \in Turns /\ turn[Born + 1] = "unborn" /\ Born' = Born + 1
      BY <1>1, <1>3, BeginType, BornGrows DEF Starts
    <2>2. \A n \in Turns : turn[n] = "done" => turn'[n] = "done"
      BY <1>1, <1>3, <2>1 DEF Starts, Begin, TypeInv, TypeOK
    <2>3. UNCHANGED <<heard, loose>> /\ \A n \in heard \cup loose : n <= Born'
      <3>1. \A n \in heard \cup loose : n <= Born + 1
        BY <1>1 DEF CutInv, Spent, TypeInv, TypeOK, Counted, Turns
      <3> QED
        BY <1>3, <2>1, <3>1 DEF Starts
    <2>4. Spent'
      BY <1>1, <1>2, <1>3, <2>2, <2>3 DEF Starts, CutInv, Spent, TypeInv, TypeOK, Entries
    <2> QED
      BY <1>1, <1>3, <2>4 DEF Starts, CutInv, CutStaysCut
  <1>4. CASE StartsNone
    <2>1. Born' = Born
      BY <1>1, <1>4, BornKept DEF StartsNone, TypeInv, TypeOK
    <2>2. \A n \in Turns : Live(n) => n <= Born
      BY <1>1 DEF TypeInv, Counted, Live
    <2>3. Spent'
      BY <1>4, <2>1, <2>2 DEF StartsNone, CutInv, Spent
    <2>4. CutStaysCut'
      BY <1>1, <1>4 DEF StartsNone, CutInv, Spent, CutStaysCut, Live
    <2> QED
      BY <1>1, <2>3, <2>4 DEF CutInv
  <1>5. ASSUME NEW n \in Turns, TurnStep(n) PROVE CutInv'
    <2>1. /\ Live(n)
          /\ cancelled' = cancelled /\ heard' = heard
          /\ Born' = Born
      BY <1>1, <1>5, TurnType, BornKept DEF TypeOK
    <2>2. \A m \in Turns : m # n => turn'[m] = turn[m]
      BY <1>1, <1>5, TurnWrites
    <2>6. \A m \in heard' \cup loose' : m <= Born'
      <3>1. n <= Born /\ loose' \subseteq loose \cup {n}
        BY <1>1, <1>5, <2>1, TurnWrites DEF TypeInv, Counted, Live
      <3> QED
        BY <2>1, <3>1 DEF CutInv, Spent
    <2>3. \A m \in Turns : turn[m] = "done" => turn'[m] = "done"
      BY <2>1, <2>2 DEF Live
    <2>4. CASE UNCHANGED <<history, submitted>>
      BY <1>1, <1>2, <2>1, <2>3, <2>4, <2>6
         DEF CutInv, Spent, CutStaysCut, TypeInv, TypeOK, Entries
    <2>5. ASSUME turn'[n] = "done", NEW h \in {"answered", "cut", "asked"},
                 history' = Append(history, [turn |-> n, how |-> h]),
                 submitted' = submitted \/ submitted' = submitted \cup {n},
                 n \in cancelled => h # "answered" /\ submitted' = submitted
          PROVE  CutInv'
      <3>1. /\ Len(history') = Len(history) + 1
            /\ history'[Len(history) + 1] = [turn |-> n, how |-> h]
            /\ \A i \in 1 .. Len(history) : history'[i] = history[i]
            /\ Len(history) \in Nat
        BY <1>1, <2>5 DEF TypeInv, TypeOK
      <3>2. Spent'
        BY <1>1, <1>2, <2>1, <2>3, <2>5, <2>6, <3>1
           DEF CutInv, Spent, TypeInv, TypeOK, Entries
      <3>3. CutStaysCut'
        BY <1>1, <2>1, <2>5, <3>1 DEF CutInv, CutStaysCut
      <3> QED
        BY <1>1, <3>2, <3>3 DEF CutInv
    <2> QED
      BY <1>1, <1>5, <2>4, <2>5, TurnWrites
  <1> QED
    BY <1>1, <1>3, <1>4, <1>5, StepKinds

\* A turn that was cancelled is never answered after all, nor submitted to
\* the memory ("Swallowing the cancellation let the cancelled turn run to
\* completion", _run_turn).
THEOREM CutTurnsStayCut == Spec => []CutStaysCut
  <1>1. CutInv => CutStaysCut
    BY DEF CutInv
  <1> QED
    BY <1>1, CutInit, CutNext, PTL DEF Spec

-----------------------------------------------------------------------------
(***************************************************************************)
(* With one input only one loop acts on the turns, and its waits are for   *)
(* the one turn that _turn_task names.                                     *)
(***************************************************************************)

\* A loop that is not fed neither starts a turn nor interrupts one.
ByInput ==
    /\ "text" \notin inputs => at["receive"] \in {"idle", "closing", "ended"}
    /\ "voice" \notin inputs => at["audio"] \in {"idle", "ended"} /\ ~inSpeech

\* The turns before the last have ended; a live one is the current one until
\* both loops are gone; and the gate is held for it.
Alone ==
    /\ \A n \in Turns : n < Born => turn[n] = "done"
    /\ \A n \in Turns : Live(n) => turnTask = n \/ \A p \in Loops : at[p] = "ended"
    /\ \A p \in Loops : at[p] \in {"superseding", "breaking"}
                          => turnTask # None /\ awaited[p] = {turnTask}
    /\ \A p \in Loops : at[p] = "announcing" => turnTask = None
    /\ \A n \in Turns : turn[n] \in {"prepare", "stream", "telling", "drain", "report"}
                          => gate = "armed"

LEMMA OneInputIs ==
    ASSUME TypeInv, OneInput
    PROVE  "voice" \notin inputs \/ "text" \notin inputs
  <1> SUFFICES ASSUME "voice" \in inputs, "text" \in inputs PROVE FALSE
    OBVIOUS
  <1> DEFINE V == {"voice"}
  <1>1. inputs = V \cup {"text"} /\ "text" \notin V
    <2>1. inputs \in SUBSET {"voice", "text"}
      BY InputsAssumption DEF TypeInv, TypeOK
    <2> QED
      BY <2>1
  <1>2. IsFiniteSet(V) /\ Cardinality(V) = 1
    BY FS_Singleton
  <1> HIDE DEF V
  <1>3. Cardinality(inputs) = 2
    BY <1>1, <1>2, FS_AddElement
  <1> QED
    BY <1>3 DEF OneInput

LEMMA SupersedeByInput ==
    ASSUME TypeInv, ByInput, UNCHANGED inputs, NEW p \in Loops,
           p = "receive" => "text" \in inputs, p = "audio" => "voice" \in inputs,
           Takeover(p) \/ Supersede(p) \/ Begin(p)
    PROVE  ByInput'
  <1>1. /\ \A q \in Loops : q # p => at'[q] = at[q]
        /\ inSpeech' => inSpeech
    BY DEF Takeover, Supersede, AwaitCancelled, Begin, TypeInv, TypeOK
  <1> QED
    BY <1>1 DEF ByInput, Loops

LEMMA ByInputNext == TypeInv /\ ByInput /\ [Next]_vars => ByInput'
  <1> SUFFICES ASSUME TypeInv, ByInput, [Next]_vars PROVE ByInput'
    OBVIOUS
  <1>1. CASE UNCHANGED vars
    BY <1>1 DEF vars, ByInput
  <1>2. CASE TypedTurn
    BY <1>2, SupersedeByInput DEF TypedTurn, Loops
  <1>3. CASE SpeechStart
    BY <1>3 DEF SpeechStart, ByInput
  <1>4. CASE SpeechEnd
    BY <1>4 DEF SpeechEnd, ByInput, TypeInv, TypeOK, Loops
  <1>5. CASE SpokenTurn
    BY <1>5, SupersedeByInput DEF SpokenTurn, ByInput, Loops
  <1>6. CASE NoTranscript
    BY <1>6 DEF NoTranscript, ByInput, TypeInv, TypeOK, Loops
  <1>7. CASE BargeIn
    BY <1>7 DEF BargeIn, AwaitCancelled, Interrupt, ByInput, TypeInv, TypeOK, Loops
  <1>8. CASE Interrupted
    BY <1>8 DEF Interrupted, Interrupt, ByInput, TypeInv, TypeOK, Loops
  <1>9. CASE Disconnect
    BY <1>9 DEF Disconnect, ByInput, TypeInv, TypeOK, Loops
  <1>10. CASE TornDown
    BY <1>10 DEF TornDown, ByInput, TypeInv, TypeOK, Loops
  <1>11. CASE TailEnds
    BY <1>11 DEF TailEnds, ByInput
  <1>12. ASSUME NEW p \in Loops, LoopStep(p) PROVE ByInput'
    BY <1>12, SupersedeByInput DEF LoopStep, Superseded, Announced, ByInput, Loops
  <1>13. ASSUME NEW n \in Turns, TurnStep(n) PROVE ByInput'
    BY <1>13, TurnType DEF ByInput
  <1>14. ASSUME NEW n \in Turns, Speak(n) PROVE ByInput'
    BY <1>14 DEF Speak, ByInput
  <1> QED
    BY <1>1, <1>2, <1>3, <1>4, <1>5, <1>6, <1>7, <1>8, <1>9, <1>10, <1>11, <1>12, <1>13,
       <1>14 DEF Next

\* A takeover behind the end of the current turn leaves one turn at most.
LEMMA TakeoverAlone ==
    ASSUME TypeInv, Alone, ~Answering, NEW p \in Loops, Room(p), at[p] # "ended",
           \A q \in Loops : q # p => at[q] \in {"idle", "closing", "ended"},
           Takeover(p) \/ Begin(p)
    PROVE  Alone'
  <1>1. \A n \in Turns : ~Live(n)
    BY DEF Alone, Answering, None, Turns
  <1>2. CASE Begin(p)
    <2>1. /\ Born + 1 \in Turns
          /\ Born' = Born + 1
          /\ turn' = [turn EXCEPT ![Born + 1] = "prepare"]
          /\ turnTask' = Born + 1
          /\ gate' = "armed"
          /\ at' = [at EXCEPT ![p] = Home]
      BY <1>2, BeginType, BornGrows DEF Begin
    <2>2. \A q \in Loops : at'[q] \in {"idle", "closing", "ended"}
      BY <2>1 DEF TypeInv, TypeOK, Home
    <2>3. \A n \in Turns : n <= Born => turn[n] = "done"
      BY <1>1 DEF TypeInv, Counted, Live
    <2>4. \A n \in Turns : n < Born' => turn'[n] = "done"
      <3>1. \A n \in Turns : n < Born + 1 => n <= Born /\ n # Born + 1
        BY DEF TypeInv, Counted, Turns
      <3> QED
        BY <2>1, <2>3, <3>1 DEF TypeInv, TypeOK
    <2>5. \A n \in Turns : Live(n)' => turnTask' = n
      BY <1>1, <2>1 DEF TypeInv, TypeOK, Live
    <2> QED
      BY <2>1, <2>2, <2>4, <2>5 DEF Alone
  <1>3. CASE Takeover(p) /\ ~Begin(p)
    <2>1. /\ at' = [at EXCEPT ![p] = "announcing"]
          /\ turnTask' = None
          /\ UNCHANGED <<turn, gate, inSpeech>>
      BY <1>3 DEF Takeover
    <2>2. Born' = Born
      BY <2>1, BornKept DEF TypeInv, TypeOK
    <2> QED
      BY <1>1, <2>1, <2>2 DEF Alone, Live, TypeInv, TypeOK
  <1> QED
    BY <1>2, <1>3

\* So does waiting for the current turn to end.
LEMMA AwaitAlone ==
    ASSUME TypeInv, Alone, Answering, NEW p \in Loops,
           at[p] # "ended",
           NEW pc \in {"superseding", "breaking"}, AwaitCancelled(p, pc),
           UNCHANGED <<turn, turnTask, gate>>
    PROVE  Alone'
  <1>1. Born' = Born
    BY BornKept DEF TypeInv, TypeOK
  <1>2. at' = [at EXCEPT ![p] = pc] /\ awaited' = [awaited EXCEPT ![p] = {turnTask}]
    BY DEF AwaitCancelled
  <1>3. \A n \in Turns : Live(n) => turnTask = n
    BY DEF Alone
  <1> QED
    BY <1>1, <1>2, <1>3 DEF Alone, Live, Answering, TypeInv, TypeOK

LEMMA InterruptAlone ==
    ASSUME TypeInv, Alone, ~Answering, at["audio"] # "ended",
           at["receive"] \in {"idle", "closing", "ended"},
           Interrupt, UNCHANGED turn
    PROVE  Alone'
  <1>1. Born' = Born
    BY BornKept DEF TypeInv, TypeOK
  <1>2. \A n \in Turns : ~Live(n)
    BY DEF Alone, Answering, None, Turns, Loops
  <1>3. \A q \in Loops : at'[q] \in {"idle", "closing", "ended"}
    BY DEF Interrupt, Home, Loops, TypeInv, TypeOK
  <1> QED
    BY <1>1, <1>2, <1>3 DEF Alone, Live

\* A step of the last turn's task; only its last steps give the gate back.
LEMMA TurnAlone ==
    ASSUME TypeInv, Alone, NEW n \in Turns, TurnStep(n)
    PROVE  Alone' /\ n = Born /\ Born' = Born
  <1>1. /\ Live(n)
        /\ \A m \in Turns : turn'[m] = "unborn" <=> turn[m] = "unborn"
        /\ UNCHANGED <<at, awaited, turnTask>>
        /\ turn' \in [Turns -> Phases]
    BY TurnType DEF TypeOK
  <1>2. Born' = Born
    BY <1>1, BornKept
  <1>3. \A m \in Turns : m # n => turn'[m] = turn[m]
    BY TurnWrites
  <1>4. n <= Born /\ ~(n < Born)
    BY <1>1 DEF Alone, Live, TypeInv, Counted
  <1>5. n = Born
    BY <1>4 DEF TypeInv, Counted, Turns
  <1>6. \A m \in Turns : m # n => m < Born \/ turn[m] = "unborn"
    BY <1>5 DEF TypeInv, Counted, Turns
  <1>7. gate' = gate \/ turn'[n] \in {"failing", "done"}
    BY DEF TurnStep, Prepared, Streamed, Unavailable, Told, Spoken, Fail, Failed,
         Answered, AnsweredNothing, Cut,
           Goto, TypeInv, TypeOK
  <1>8. turn'[n] \in {"prepare", "stream", "telling", "drain", "report"}
          => turn[n] \in {"prepare", "stream", "telling", "drain", "report"}
    BY DEF TurnStep, Prepared, Streamed, Unavailable, Told, Spoken, Fail, Failed,
         Answered, AnsweredNothing, Cut,
           Goto, TypeInv, TypeOK
  <1>9. \A m \in Turns : turn'[m] \in {"prepare", "stream", "telling", "drain", "report"} => gate' = "armed"
    BY <1>3, <1>6, <1>7, <1>8 DEF Alone
  <1>10. /\ \A m \in Turns : m < Born' => turn'[m] = "done"
         /\ \A m \in Turns : Live(m)' => Live(m)
    <2>1. \A m \in Turns : m < Born' => m # n
      BY <1>2, <1>5 DEF Turns
    <2> QED
      BY <1>1, <1>2, <1>3, <2>1 DEF Alone, Live
  <1> QED
    BY <1>1, <1>2, <1>5, <1>9, <1>10 DEF Alone

LEMMA AloneNext ==
    ASSUME TypeInv, ByInput, OneInput, Alone, [Next]_vars
    PROVE  Alone'
  <1>1. CASE UNCHANGED vars
    BY <1>1 DEF vars, Alone, Live, Born
  <1>2. ASSUME NEW p \in Loops, Room(p), Supersede(p), at[p] # "ended",
               p = "receive" => "text" \in inputs, p = "audio" => "voice" \in inputs
        PROVE  Alone'
    <2>1. \A q \in Loops : q # p => at[q] \in {"idle", "closing", "ended"}
      BY <1>2, OneInputIs DEF ByInput, Loops
    <2>2. CASE Answering
      BY <1>2, <2>2, AwaitAlone DEF Supersede
    <2>3. CASE ~Answering
      BY <1>2, <2>1, <2>3, TakeoverAlone DEF Supersede
    <2> QED
      BY <2>2, <2>3
  <1>3. CASE TypedTurn
    BY <1>2, <1>3 DEF TypedTurn, Room, Loops
  <1>4. CASE SpeechStart
    BY <1>4 DEF SpeechStart, Alone, Live, Born
  <1>5. CASE SpeechEnd
    BY <1>5 DEF SpeechEnd, Alone, Live, Born, TypeInv, TypeOK
  <1>6. CASE SpokenTurn
    BY <1>2, <1>6 DEF SpokenTurn, Room, ByInput, Loops
  <1>7. CASE NoTranscript
    BY <1>7 DEF NoTranscript, Alone, Live, Born, TypeInv, TypeOK
  <1>8. CASE BargeIn
    <2>1. "voice" \in inputs /\ at["receive"] \in {"idle", "closing", "ended"}
            /\ at["audio"] = "idle" /\ UNCHANGED turn
      BY <1>8, OneInputIs DEF BargeIn, ByInput
    <2>2. CASE Answering
      BY <1>8, <2>1, <2>2, AwaitAlone DEF BargeIn, Loops
    <2>3. CASE ~Answering
      BY <1>8, <2>1, <2>3, InterruptAlone DEF BargeIn
    <2> QED
      BY <2>2, <2>3
  <1>9. CASE Interrupted
    <2>1. at["receive"] \in {"idle", "closing", "ended"}
      BY <1>9, OneInputIs DEF Interrupted, ByInput
    <2>2. ~Answering
      BY <1>9 DEF Interrupted, Alone, Answering, Live, Loops
    <2> QED
      BY <1>9, <2>1, <2>2, InterruptAlone DEF Interrupted
  <1>10. CASE Disconnect
    <2>1. /\ awaited'["audio"] = awaited["audio"]
          /\ at["receive"] = "idle"
          /\ at'["receive"] = "closing"
          /\ at'["audio"] \in {at["audio"], "ended"}
          /\ UNCHANGED <<turn, turnTask, gate>>
      BY <1>10 DEF Disconnect, TypeInv, TypeOK, Loops
    <2>2. Born' = Born
      BY <2>1 DEF Born
    <2> QED
      BY <2>1, <2>2 DEF Alone, Live, Loops
  <1>11. CASE TornDown
    <2>1. /\ \A p \in Loops : at'[p] = "ended"
          /\ UNCHANGED <<turn, gate>>
      BY <1>11 DEF TornDown, TypeInv, TypeOK, Loops
    <2> QED
      BY <2>1 DEF Alone, Live, Born
  <1>12. CASE TailEnds
    BY <1>12 DEF TailEnds, Alone, Live, Born
  <1>13. ASSUME NEW p \in Loops, LoopStep(p) PROVE Alone'
    <2>1. at[p] \in {"superseding", "announcing"} /\ (Takeover(p) \/ Begin(p))
      BY <1>13 DEF LoopStep, Superseded, Announced
    <2>2. ~Answering
      BY <1>13 DEF LoopStep, Superseded, Announced, Alone, Answering, Live
    <2>3. \A q \in Loops : q # p => at[q] \in {"idle", "closing", "ended"}
      BY <2>1, OneInputIs DEF ByInput, Loops
    <2> QED
      BY <2>1, <2>2, <2>3, TakeoverAlone DEF Room
  <1>14. ASSUME NEW n \in Turns, TurnStep(n) PROVE Alone'
    BY <1>14, TurnAlone
  <1>15. ASSUME NEW n \in Turns, Speak(n) PROVE Alone'
    BY <1>15 DEF Speak, Alone, Live, Born
  <1> QED
    BY <1>1, <1>3, <1>4, <1>5, <1>6, <1>7, <1>8, <1>9, <1>10, <1>11, <1>12, <1>13, <1>14,
       <1>15 DEF Next

-----------------------------------------------------------------------------
(***************************************************************************)
(* History and voice: both are written by the last turn only.              *)
(***************************************************************************)

ApartInv == CutInv /\ ByInput /\ (OneInput => Alone) /\ HistoryInOrder

LEMMA ApartInit == Init => ApartInv
  <1> SUFFICES ASSUME Init PROVE ApartInv
    OBVIOUS
  <1>1. CutInv
    BY CutInit
  <1>2. ByInput /\ HistoryInOrder
    BY DEF Init, ByInput, HistoryInOrder, Loops
  <1>3. Alone
    <2>1. \A n \in Turns : turn[n] = "unborn" /\ ~(n < Born)
      BY <1>1 DEF Init, CutInv, TypeInv, Counted, Turns
    <2> QED
      BY <2>1 DEF Init, Alone, Live
  <1> QED
    BY <1>1, <1>2, <1>3 DEF ApartInv

LEMMA HistoryNext ==
    ASSUME ApartInv, OneInput, [Next]_vars, HistoryInOrder
    PROVE  \A i, j \in 1 .. Len(history') : i < j => history'[i].turn < history'[j].turn
  <1>1. TypeInv /\ Alone /\ Spent
    BY DEF ApartInv, CutInv
  <1>2. CASE UNCHANGED history
    BY <1>2 DEF HistoryInOrder
  <1>3. ASSUME NEW n \in Turns, TurnStep(n), NEW h,
               history' = Append(history, [turn |-> n, how |-> h])
        PROVE  \A i, j \in 1 .. Len(history') : i < j => history'[i].turn < history'[j].turn
    <2>1. /\ Len(history) \in Nat
          /\ Len(history') = Len(history) + 1
          /\ history'[Len(history) + 1].turn = n
          /\ \A i \in 1 .. Len(history) : history'[i] = history[i] /\ history[i] \in Entries
      BY <1>1, <1>3 DEF TypeInv, TypeOK
    <2>2. n = Born /\ Live(n)
      BY <1>1, <1>3, TurnAlone, TurnType
    <2>3. \A i \in 1 .. Len(history) : history[i].turn < n
      <3> SUFFICES ASSUME NEW i \in 1 .. Len(history) PROVE history[i].turn < n
        OBVIOUS
      <3>1. history[i].turn \in Turns /\ turn[history[i].turn] = "done"
        BY <1>1, <2>1 DEF Spent, Entries
      <3>2. history[i].turn <= Born /\ history[i].turn # n
        BY <1>1, <2>2, <3>1 DEF TypeInv, Counted, Live
      <3> QED
        BY <2>2, <3>1, <3>2 DEF Turns
    <2> SUFFICES ASSUME NEW i \in 1 .. Len(history'), NEW j \in 1 .. Len(history'), i < j
                 PROVE  history'[i].turn < history'[j].turn
      OBVIOUS
    <2>4. i \in 1 .. Len(history)
      BY <2>1
    <2>5. CASE j = Len(history) + 1
      BY <2>1, <2>3, <2>4, <2>5
    <2>6. CASE j \in 1 .. Len(history)
      BY <2>1, <2>4, <2>6 DEF HistoryInOrder
    <2> QED
      BY <2>1, <2>5, <2>6
  <1> QED
    BY <1>1, <1>2, <1>3, StepKinds, TurnWrites DEF Starts, StartsNone

LEMMA ApartNext == ApartInv /\ [Next]_vars => ApartInv'
  <1> SUFFICES ASSUME ApartInv, [Next]_vars PROVE ApartInv'
    OBVIOUS
  <1>1. CutInv' /\ ByInput'
    BY CutNext, ByInputNext DEF ApartInv, CutInv
  <1>2. UNCHANGED inputs
    BY StepKinds, TurnType DEF ApartInv, CutInv, Starts, StartsNone
  <1>3. OneInput' <=> OneInput
    BY <1>2 DEF OneInput
  <1>4. OneInput' => Alone'
    BY <1>3, AloneNext DEF ApartInv, CutInv
  <1>5. HistoryInOrder'
    BY <1>3, HistoryNext DEF HistoryInOrder, ApartInv
  <1> QED
    BY <1>1, <1>4, <1>5 DEF ApartInv

\* Only the last turn is live.
LEMMA LastIsLive ==
    ASSUME TypeInv, Alone, NEW n \in Turns, Live(n)
    PROVE  n = Born
  <1>1. n <= Born /\ ~(n < Born)
    BY DEF TypeInv, Counted, Alone, Live
  <1> QED
    BY <1>1 DEF TypeInv, Counted, Turns

\* With one input one turn at a time is answered, under the gate, and the
\* history, which the next prompt is built from, has the turns in the order
\* they were started, though an interrupted turn writes its entry as it dies
\* (_start_turn, _run_turn).
THEOREM TurnsStayApart == Spec => []TurnsApart
  <1>1. ASSUME ApartInv PROVE TurnsApart
    <2>1. TypeInv /\ HistoryInOrder /\ (OneInput => Alone)
      BY <1>1 DEF ApartInv, CutInv
    <2>2. GateHeld
      BY <2>1 DEF GateHeld, Alone
    <2>3. ASSUME OneInput
          PROVE  Cardinality({n \in Turns : Live(n) /\ n \notin cancelled}) <= 1
      <3> DEFINE A == {n \in Turns : Live(n) /\ n \notin cancelled}
                 B == {Born}
      <3>1. A \subseteq B
        BY <2>1, <2>3, LastIsLive
      <3>2. IsFiniteSet(B) /\ Cardinality(B) = 1
        BY FS_Singleton
      <3> HIDE DEF A, B
      <3>3. Cardinality(A) <= 1
        BY <3>1, <3>2, FS_Subset
      <3> QED
        BY <3>3 DEF A
    <2> QED
      BY <2>1, <2>2, <2>3 DEF TurnsApart, OneTurnAnswers, TypeInv
  <1> QED
    BY <1>1, ApartInit, ApartNext, PTL DEF Spec

\* A turn is not heard again behind a later one, though the speak worker of a
\* cancelled turn goes on until the cancellation arrives (_start_turn); only a
\* worker that its turn left behind, cancelled as it told of an unavailable
\* LLM, may be.
THEOREM OneVoiceAtATime == Spec => OneVoice
  <1> DEFINE Later == OneInput /\ voice' # voice
                        => voice' \in loose \/ \A m \in heard : m <= voice'
  <1>1. ASSUME ApartInv, [Next]_vars PROVE [Later]_vars
    <2> SUFFICES ASSUME OneInput, voice' # voice
                 PROVE  voice' \in loose \/ \A m \in heard : m <= voice'
      OBVIOUS
    <2>1. TypeInv /\ Alone /\ \A m \in heard : m <= Born
      BY <1>1 DEF ApartInv, CutInv, Spent
    <2>2. PICK n \in Turns : (Live(n) \/ n \in loose) /\ voice' = n
      BY <1>1, <2>1, StepKinds, TurnType DEF Starts, StartsNone
    <2>3. Live(n) => n = Born
      BY <2>1, LastIsLive
    <2> QED
      BY <2>1, <2>2, <2>3
  <1> QED
    BY <1>1, ApartInit, ApartNext, PTL DEF Spec, OneVoice
=============================================================================
