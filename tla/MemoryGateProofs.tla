-------------------------- MODULE MemoryGateProofs --------------------------
(***************************************************************************)
(* Theorems about MemoryGate, for every set of sessions and keys and every *)
(* bound and delay: its types, the accounts of its turns, and when it is   *)
(* open.                                                                   *)
(***************************************************************************)
EXTENDS MemoryGate, TLAPS

(***************************************************************************)
(* Queues of records: what the three queue operations of the gate return.  *)
(***************************************************************************)

\* Taking the head of a non-empty queue (deque.popleft in _worker).
LEMMA PopFacts ==
    ASSUME NEW S, NEW q \in Seq(S), q # <<>>
    PROVE  /\ Head(q) \in S /\ Head(q) = q[1]
           /\ Tail(q) \in Seq(S)
           /\ Len(q) \in Nat \ {0} /\ Len(Tail(q)) = Len(q) - 1
           /\ \A i \in 1 .. Len(q) - 1 : Tail(q)[i] = q[i + 1]
  OBVIOUS

\* Adding a record behind the queue (deque.append in submit).
LEMMA PushFacts ==
    ASSUME NEW S, NEW q \in Seq(S), NEW r \in S
    PROVE  /\ Append(q, r) \in Seq(S)
           /\ Len(q) \in Nat /\ Len(Append(q, r)) = Len(q) + 1
           /\ Append(q, r)[Len(q) + 1] = r
           /\ \A i \in 1 .. Len(q) : Append(q, r)[i] = q[i]
  OBVIOUS

\* Putting a record back before the queue (deque.appendleft in _requeue).
LEMMA PutBackFacts ==
    ASSUME NEW S, NEW q \in Seq(S), NEW r \in S
    PROVE  /\ <<r>> \o q \in Seq(S)
           /\ Len(q) \in Nat /\ Len(<<r>> \o q) = Len(q) + 1
           /\ (<<r>> \o q)[1] = r
           /\ \A i \in 1 .. Len(q) : (<<r>> \o q)[i + 1] = q[i]
  OBVIOUS

-----------------------------------------------------------------------------
(***************************************************************************)
(* Updates of a per-session and of a per-turn table keep the table's type. *)
(***************************************************************************)

LEMMA UpdateType ==
    ASSUME NEW S, NEW T, NEW f \in [S -> T], NEW x, NEW y \in T
    PROVE  [f EXCEPT ![x] = y] \in [S -> T]
  OBVIOUS

LEMMA TurnUpdateType ==
    ASSUME NEW S, NEW N, NEW T, NEW f \in [S -> [N -> T]],
           NEW x \in S, NEW n, NEW y \in T
    PROVE  [f EXCEPT ![x][n] = y] \in [S -> [N -> T]]
  <1>1. [f[x] EXCEPT ![n] = y] \in [N -> T]
    BY UpdateType
  <1> QED
    BY <1>1

-----------------------------------------------------------------------------
(***************************************************************************)
(* Type correctness.  It rests on the worker never popping an empty queue  *)
(* and always holding a record while it is busy, so both are part of the   *)
(* invariant that is proved.                                               *)
(***************************************************************************)

WorkerHasWork ==
    \A s \in Sessions :
        /\ worker[s] \in {"waiting", "woken"} => queue[s] # <<>>
        /\ Running(s) => job[s] \in Records

TypeInv == TypeOK /\ WorkerHasWork

LEMMA TypeInit == Init => TypeInv
  <1> SUFFICES ASSUME Init PROVE TypeInv
    OBVIOUS
  <1>1. /\ conn \in [Sessions -> {"new", "open", "closed"}]
        /\ conv \in [Sessions -> {"quiet", "speech", "turn"}]
        /\ open \in [Sessions -> BOOLEAN]
        /\ awaiting \in [Sessions -> BOOLEAN]
        /\ worker \in [Sessions -> {"none", "top", "waiting", "woken", "busy"}]
        /\ bgCancel \in BOOLEAN
    BY DEF Init
  <1>2. /\ timer \in [Sessions -> Nat \cup {Off}]
        /\ quiet \in [Sessions -> 0 .. Idle]
        /\ seq \in [Sessions -> 0 .. MaxTurns]
    BY BoundAssumption, DelayAssumption DEF Init
  <1>3. queue \in [Sessions -> Seq(Records)]
    BY DEF Init
  <1>4. job \in [Sessions -> Records \cup {NoJob}] /\ leg \in [Sessions -> Legs]
    BY DEF Init, Legs
  <1>5. outcome \in [Sessions -> [Turns -> Outcomes]]
    BY DEF Init, Outcomes
  <1>6. stored \in [Sessions -> [Turns -> Nat]]
    BY DEF Init
  <1>7. WorkerHasWork
    BY DEF Init, WorkerHasWork, Running
  <1> QED
    BY <1>1, <1>2, <1>3, <1>4, <1>5, <1>6, <1>7 DEF TypeInv, TypeOK

\* The head of the worker's loop keeps the types, whatever queue it finds.
LEMMA TypeLoop ==
    ASSUME TypeInv, NEW s \in Sessions, NEW q \in Seq(Records), Loop(s, q)
    PROVE  /\ worker' \in [Sessions -> {"none", "top", "waiting", "woken", "busy"}]
           /\ queue' \in [Sessions -> Seq(Records)]
           /\ job' \in [Sessions -> Records \cup {NoJob}]
           /\ leg' \in [Sessions -> Legs]
           /\ WorkerHasWork'
  <1>1. CASE q # <<>> /\ open[s] /\ Begin(s, q)
    <2>1. Head(q) \in Records /\ Tail(q) \in Seq(Records)
      BY <1>1, PopFacts
    <2> QED
      BY <1>1, <2>1 DEF Begin, TypeInv, TypeOK, WorkerHasWork, Running, Legs
  <1>2. CASE ~(q # <<>> /\ open[s] /\ Begin(s, q))
    <2>1. /\ worker' = [worker EXCEPT
                         ![s] = IF q = <<>> THEN "none" ELSE "waiting"]
          /\ queue' = [queue EXCEPT ![s] = q]
          /\ job' = [job EXCEPT ![s] = NoJob]
          /\ leg' = [leg EXCEPT ![s] = "none"]
      BY <1>2 DEF Loop
    <2>2. WorkerHasWork'
      BY <2>1 DEF TypeInv, TypeOK, WorkerHasWork, Running
    <2> QED
      BY <2>1, <2>2 DEF TypeInv, TypeOK, Legs
  <1> QED
    BY <1>1, <1>2

LEMMA TypeNext == TypeInv /\ [Next]_vars => TypeInv'
  <1> SUFFICES ASSUME TypeInv, [Next]_vars PROVE TypeInv'
    OBVIOUS
  <1> USE BoundAssumption, DelayAssumption DEF Off
  <1>1. CASE UNCHANGED vars
    BY <1>1 DEF vars, gateVars, workVars, TypeInv, TypeOK, WorkerHasWork, Running
  <1>2. CASE Tick
    BY <1>2, SMTT(60) DEF Tick, workVars, TypeInv, TypeOK, WorkerHasWork, Running
  <1>3. ASSUME NEW s \in Sessions, SessionStep(s) PROVE TypeInv'
    <2>1. CASE Connect(s)
      BY <2>1 DEF Connect, gateVars, workVars, TypeInv, TypeOK, WorkerHasWork, Running
    <2>2. CASE SpeechStart(s)
      BY <2>2 DEF SpeechStart, Arm, workVars, TypeInv, TypeOK, WorkerHasWork, Running
    <2>3. CASE SpeechDropped(s)
      BY <2>3 DEF SpeechDropped, gateVars, workVars, TypeInv, TypeOK, WorkerHasWork, Running
    <2>4. CASE StartTurn(s)
      BY <2>4 DEF StartTurn, Arm, workVars, TypeInv, TypeOK, WorkerHasWork, Running
    <2>5. CASE NoteActivity(s)
      BY <2>5 DEF NoteActivity, workVars, TypeInv, TypeOK, WorkerHasWork, Running
    <2>6. ASSUME NEW k \in Keys, TurnDone(s, k) PROVE TypeInv'
      <3> DEFINE r == [key |-> k, no |-> seq[s] + 1]
      <3>1. /\ queue[s] \in Seq(Records)
            /\ seq[s] \in Nat /\ seq[s] + 1 \in Turns /\ Turns \subseteq Nat
            /\ r \in Records
        <4>1. queue[s] \in Seq(Records) /\ seq[s] \in 0 .. MaxTurns
          BY DEF TypeInv, TypeOK
        <4>2. seq[s] + 1 \in Turns
          BY <2>6, SMTT(60) DEF TurnDone, Submit
        <4> QED
          BY <4>1, <4>2 DEF Turns, Records
      <3>2. Append(queue[s], r) \in Seq(Records) /\ Append(queue[s], r) # <<>>
        BY <3>1, PushFacts
      <3>3. /\ queue' \in [Sessions -> Seq(Records)]
            /\ worker' \in [Sessions -> {"none", "top", "waiting", "woken", "busy"}]
            /\ seq' \in [Sessions -> 0 .. MaxTurns]
            /\ outcome' \in [Sessions -> [Turns -> Outcomes]]
            /\ WorkerHasWork'
        <4>1. /\ queue' = queue \/ queue' = [queue EXCEPT ![s] = Append(@, r)]
              /\ worker' = worker \/ worker' = [worker EXCEPT
                                      ![s] = IF @ = "none" THEN "top" ELSE @]
              /\ seq' = [seq EXCEPT ![s] = seq[s] + 1]
              /\ \E v \in {"merged", "pending"} :
                   outcome' = [outcome EXCEPT ![s][seq[s] + 1] = v]
              /\ job' = job
          BY <2>6, SMTT(60) DEF TurnDone, Submit
        <4>2. queue' \in [Sessions -> Seq(Records)]
          BY <3>2, <4>1 DEF TypeInv, TypeOK
        <4>3. worker' \in [Sessions -> {"none", "top", "waiting", "woken", "busy"}]
          <5>1. (IF worker[s] = "none" THEN "top" ELSE worker[s])
                  \in {"none", "top", "waiting", "woken", "busy"}
            BY DEF TypeInv, TypeOK
          <5>2. worker \in [Sessions -> {"none", "top", "waiting", "woken", "busy"}]
            BY DEF TypeInv, TypeOK
          <5> QED
            BY <4>1, <5>1, <5>2, UpdateType
        <4>4. seq' \in [Sessions -> 0 .. MaxTurns]
          BY <3>1, <4>1 DEF TypeInv, TypeOK, Turns
        <4>5. outcome' \in [Sessions -> [Turns -> Outcomes]]
          <5>1. PICK v \in {"merged", "pending"} :
                  outcome' = [outcome EXCEPT ![s][seq[s] + 1] = v]
            BY <4>1
          <5>2. v \in Outcomes /\ outcome \in [Sessions -> [Turns -> Outcomes]]
            BY <5>1 DEF TypeInv, TypeOK, Outcomes
          <5> QED
            BY <5>1, <5>2, TurnUpdateType
        <4>6. WorkerHasWork'
          BY <3>2, <4>1 DEF TypeInv, TypeOK, WorkerHasWork, Running
        <4> QED
          BY <4>2, <4>3, <4>4, <4>5, <4>6
      <3>4. conv' \in [Sessions -> {"quiet", "speech", "turn"}]
        BY <2>6 DEF TurnDone, TurnEnds, TypeInv, TypeOK
      <3>5. /\ awaiting' \in [Sessions -> BOOLEAN]
            /\ timer' \in [Sessions -> Nat \cup {Off}]
            /\ quiet' \in [Sessions -> 0 .. Idle]
        BY <2>6 DEF TurnDone, Release, TypeInv, TypeOK
      <3>6. UNCHANGED <<conn, open, job, leg, bgCancel, stored>>
        BY <2>6 DEF TurnDone, Release, Submit
      <3> QED
        BY <3>3, <3>4, <3>5, <3>6 DEF TypeInv, TypeOK
    <2>7. CASE TurnCut(s)
      BY <2>7 DEF TurnCut, TurnEnds, Release, workVars, TypeInv, TypeOK, WorkerHasWork, Running
    <2>8. CASE Disconnect(s)
      BY <2>8 DEF Disconnect, gateVars, TypeInv, TypeOK, WorkerHasWork, Running
    <2> QED
      BY <1>3, <2>1, <2>2, <2>3, <2>4, <2>5, <2>6, <2>7, <2>8 DEF SessionStep
  <1>4. ASSUME NEW s \in Sessions, TryOpen(s) PROVE TypeInv'
    <2>1. quiet[s] \in 0 .. Idle
      BY DEF TypeInv, TypeOK
    <2>2. CASE OpenGate(s)
      <3>1. worker' = [worker EXCEPT ![s] = IF @ = "waiting" THEN "woken" ELSE @]
        BY <2>2 DEF OpenGate
      <3>2. worker' \in [Sessions -> {"none", "top", "waiting", "woken", "busy"}]
        BY <3>1 DEF TypeInv, TypeOK
      <3>3. WorkerHasWork'
        BY <1>4, <3>1 DEF TryOpen, TypeInv, TypeOK, WorkerHasWork, Running
      <3> QED
        BY <1>4, <2>2, <3>2, <3>3 DEF TryOpen, OpenGate, TypeInv, TypeOK
    <2>3. CASE /\ timer' = [timer EXCEPT
                             ![s] = IF awaiting[s] THEN Idle - quiet[s] ELSE Off]
               /\ UNCHANGED <<open, awaiting, worker, bgCancel>>
      <3>1. (IF awaiting[s] THEN Idle - quiet[s] ELSE Off) \in Nat \cup {Off}
        BY <2>1
      <3>2. timer' \in [Sessions -> Nat \cup {Off}]
        BY <2>3, <3>1, UpdateType DEF TypeInv, TypeOK
      <3> QED
        BY <1>4, <2>3, <3>2 DEF TryOpen, TypeInv, TypeOK, WorkerHasWork, Running
    <2> QED
      BY <1>4, <2>2, <2>3 DEF TryOpen
  <1>5. ASSUME NEW s \in Sessions, WorkerStep(s) PROVE TypeInv'
    <2>1. CASE WorkerTop(s)
      <3>1. queue[s] \in Seq(Records)
        BY DEF TypeInv, TypeOK
      <3> QED
        BY <2>1, <3>1, TypeLoop DEF WorkerTop, gateVars, TypeInv, TypeOK
    <2>2. CASE WorkerWake(s)
      <3>1. queue[s] \in Seq(Records) /\ queue[s] # <<>>
        BY <2>2 DEF WorkerWake, TypeInv, TypeOK, WorkerHasWork
      <3>2. Head(queue[s]) \in Records /\ Tail(queue[s]) \in Seq(Records)
        BY <3>1, PopFacts
      <3> QED
        BY <2>2, <3>2
           DEF WorkerWake, Begin, gateVars, TypeInv, TypeOK, WorkerHasWork, Running, Legs
    <2>3. ASSUME NEW result \in EndLegs, Reap(s, result) PROVE TypeInv'
      <3>1. /\ queue[s] \in Seq(Records) /\ job[s] \in Records
        BY <2>3 DEF Reap, Running, TypeInv, TypeOK, WorkerHasWork
      <3>2. Requeued(s) \in Seq(Records)
        BY <3>1, PutBackFacts DEF Requeued
      <3>3. /\ worker' \in [Sessions -> {"none", "top", "waiting", "woken", "busy"}]
            /\ queue' \in [Sessions -> Seq(Records)]
            /\ job' \in [Sessions -> Records \cup {NoJob}]
            /\ leg' \in [Sessions -> Legs]
            /\ WorkerHasWork'
        BY <2>3, <3>1, <3>2, TypeLoop DEF Reap
      <3>4. outcome' \in [Sessions -> [Turns -> Outcomes]]
        <4> DEFINE v == IF result # "cancelled" THEN result
                        ELSE IF HasKey(queue[s], job[s].key) THEN "merged"
                        ELSE "pending"
        <4>1. outcome' = [outcome EXCEPT ![s][job[s].no] = v]
          BY <2>3 DEF Reap
        <4>2. v \in Outcomes
          BY DEF EndLegs, Outcomes
        <4>3. outcome \in [Sessions -> [Turns -> Outcomes]]
          BY DEF TypeInv, TypeOK
        <4> HIDE DEF v
        <4> QED
          BY <4>1, <4>2, <4>3, TurnUpdateType
      <3> QED
        BY <2>3, <3>3, <3>4 DEF Reap, gateVars, TypeInv, TypeOK
    <2> QED
      BY <1>5, <2>1, <2>2, <2>3 DEF WorkerStep
  <1>6. ASSUME NEW s \in Sessions, ChainStep(s) PROVE TypeInv'
    <2>1. leg' \in [Sessions -> Legs]
      <3>1. \E to \in Legs : leg' = [leg EXCEPT ![s] = to]
        BY <1>6
           DEF ChainStep, NoFacade, Abort, IssueExtract, ExtractNothing, ExtractFacts,
               SkipResolve, IssueResolve, Resolved, Write, IssueTag, Tagged, Complete,
               Fail, Goto, Legs
      <3>2. leg \in [Sessions -> Legs]
        BY DEF TypeInv, TypeOK
      <3> QED
        BY <3>1, <3>2
    <2>2. stored' \in [Sessions -> [Turns -> Nat]]
      <3>1. stored' = stored \/ Write(s)
        BY <1>6
           DEF ChainStep, NoFacade, Abort, IssueExtract, ExtractNothing, ExtractFacts,
               SkipResolve, IssueResolve, Resolved, IssueTag, Tagged, Complete, Fail
      <3>2. stored \in [Sessions -> [Turns -> Nat]]
        BY DEF TypeInv, TypeOK
      <3> QED
        BY <3>1, <3>2 DEF Write
    <2>3. UNCHANGED <<conn, conv, gateVars, workVars, bgCancel>>
      BY <1>6
         DEF ChainStep, NoFacade, Abort, IssueExtract, ExtractNothing, ExtractFacts,
             SkipResolve, IssueResolve, Resolved, Write, IssueTag, Tagged, Complete,
             Fail, Goto
    <2> QED
      BY <2>1, <2>2, <2>3 DEF gateVars, workVars, TypeInv, TypeOK, WorkerHasWork, Running
  <1> QED
    BY <1>1, <1>2, <1>3, <1>4, <1>5, <1>6 DEF Next

\* Every variable keeps its type, and the worker never pops an empty queue
\* nor loses the record it works on (BackgroundMemoryGate._worker).
THEOREM TypeCorrect == Spec => []TypeOK
  <1>1. Init => TypeInv
    BY TypeInit
  <1>2. TypeInv /\ [Next]_vars => TypeInv'
    BY TypeNext
  <1>3. TypeInv => TypeOK
    BY DEF TypeInv
  <1> QED
    BY <1>1, <1>2, <1>3, PTL DEF Spec

-----------------------------------------------------------------------------
(***************************************************************************)
(* What becomes of the turns handed to the gate: their order, their        *)
(* coalescing, that none is lost and none applied twice.  All theorems     *)
(* follow from one inductive invariant, which says of each session where   *)
(* its turns are: not yet submitted, queued, with the chain, or done.      *)
(***************************************************************************)

(***************************************************************************)
(* Queues of records: numbers, order, keys.                                *)
(***************************************************************************)
NosOf(q) == {q[i].no : i \in 1 .. Len(q)}
Ordered(q) == \A i, j \in 1 .. Len(q) : i < j => q[i].no < q[j].no
KeysDiffer(q) == \A i, j \in 1 .. Len(q) : i # j => q[i].key # q[j].key

\* A record of a queue has a number of its turns.
LEMMA NosAreTurns ==
    ASSUME NEW q \in Seq(Records)
    PROVE  NosOf(q) \subseteq Turns
  <1>1. \A i \in 1 .. Len(q) : q[i] \in Records
    OBVIOUS
  <1> QED
    BY <1>1 DEF NosOf, Records

\* The empty queue.
LEMMA EmptyQueue == NosOf(<<>>) = {} /\ Ordered(<<>>) /\ KeysDiffer(<<>>)
  BY DEF NosOf, Ordered, KeysDiffer

\* Popping takes the least number out of the queue.
LEMMA PopOrder ==
    ASSUME BoundAssumption, NEW q \in Seq(Records), q # <<>>, Ordered(q), KeysDiffer(q)
    PROVE  /\ Ordered(Tail(q)) /\ KeysDiffer(Tail(q))
           /\ NosOf(q) = NosOf(Tail(q)) \cup {Head(q).no}
           /\ \A n \in NosOf(Tail(q)) : Head(q).no < n
  <1>1. /\ Head(q) \in Records /\ Head(q) = q[1]
        /\ Tail(q) \in Seq(Records)
        /\ Len(q) \in Nat \ {0} /\ Len(Tail(q)) = Len(q) - 1
        /\ \A i \in 1 .. Len(q) - 1 : Tail(q)[i] = q[i + 1]
    BY PopFacts
  <1>2. Ordered(Tail(q)) /\ KeysDiffer(Tail(q))
    BY <1>1 DEF Ordered, KeysDiffer
  <1>3. \A n \in NosOf(Tail(q)) : Head(q).no < n /\ n \in NosOf(q)
    BY <1>1 DEF NosOf, Ordered
  <1>4. \A i \in 1 .. Len(q) : i = 1 \/ (i - 1 \in 1 .. Len(q) - 1 /\ q[i] = Tail(q)[i - 1])
    BY <1>1
  <1>5. NosOf(q) \subseteq NosOf(Tail(q)) \cup {Head(q).no}
    BY <1>1, <1>4 DEF NosOf
  <1>6. Head(q).no \in NosOf(q)
    BY <1>1 DEF NosOf
  <1> QED
    BY <1>2, <1>3, <1>5, <1>6

\* Appending a greater number with a new key.
LEMMA PushOrder ==
    ASSUME BoundAssumption, NEW q \in Seq(Records), NEW r \in Records,
           Ordered(q), KeysDiffer(q),
           \A n \in NosOf(q) : n < r.no, ~HasKey(q, r.key)
    PROVE  /\ Ordered(Append(q, r)) /\ KeysDiffer(Append(q, r))
           /\ NosOf(Append(q, r)) = NosOf(q) \cup {r.no}
  <1> DEFINE p == Append(q, r)
  <1>1. /\ Len(q) \in Nat /\ Len(p) = Len(q) + 1
        /\ p[Len(q) + 1] = r
        /\ \A i \in 1 .. Len(q) : p[i] = q[i]
    BY PushFacts
  <1> HIDE DEF p
  <1>2. \A i \in 1 .. Len(q) : q[i].no < r.no /\ q[i].key # r.key
    BY DEF NosOf, HasKey
  <1>3. \A i \in 1 .. Len(p) : i \in 1 .. Len(q) \/ i = Len(q) + 1
    BY <1>1
  <1>4. ASSUME NEW i \in 1 .. Len(p), NEW j \in 1 .. Len(p), i < j
        PROVE  p[i].no < p[j].no /\ p[i].key # p[j].key
    <2>1. i \in 1 .. Len(q) /\ p[i] = q[i]
      BY <1>1, <1>3, <1>4
    <2>2. CASE j \in 1 .. Len(q)
      <3>1. p[j] = q[j] /\ i # j
        BY <1>1, <1>4, <2>2
      <3> QED
        BY <1>4, <2>1, <2>2, <3>1 DEF Ordered, KeysDiffer
    <2>3. CASE j = Len(q) + 1
      BY <1>1, <1>2, <2>1, <2>3
    <2> QED
      BY <1>3, <2>2, <2>3
  <1>5. Ordered(p)
    BY <1>4 DEF Ordered
  <1>6. KeysDiffer(p)
    <2> SUFFICES ASSUME NEW i \in 1 .. Len(p), NEW j \in 1 .. Len(p), i # j
                 PROVE  p[i].key # p[j].key
      BY DEF KeysDiffer
    <2>1. i < j \/ j < i
      BY <1>1
    <2> QED
      BY <1>4, <2>1
  <1>7. \A i \in 1 .. Len(q) : i \in 1 .. Len(p)
    BY <1>1
  <1>8. NosOf(q) \subseteq NosOf(p)
    BY <1>1, <1>7 DEF NosOf
  <1>9. r.no \in NosOf(p)
    BY <1>1 DEF NosOf
  <1>10. NosOf(p) \subseteq NosOf(q) \cup {r.no}
    BY <1>1, <1>3 DEF NosOf
  <1> QED
    BY <1>5, <1>6, <1>8, <1>9, <1>10 DEF p

\* Putting back a smaller number with a new key.
LEMMA PutBackOrder ==
    ASSUME BoundAssumption, NEW q \in Seq(Records), NEW r \in Records,
           Ordered(q), KeysDiffer(q),
           \A n \in NosOf(q) : r.no < n, ~HasKey(q, r.key)
    PROVE  /\ Ordered(<<r>> \o q) /\ KeysDiffer(<<r>> \o q)
           /\ NosOf(<<r>> \o q) = NosOf(q) \cup {r.no}
  <1> DEFINE p == <<r>> \o q
  <1>1. /\ Len(q) \in Nat /\ Len(p) = Len(q) + 1
        /\ p[1] = r
        /\ \A i \in 1 .. Len(q) : p[i + 1] = q[i]
    BY PutBackFacts
  <1> HIDE DEF p
  <1>2. \A i \in 1 .. Len(q) : r.no < q[i].no /\ q[i].key # r.key
    BY DEF NosOf, HasKey
  <1>3. \A i \in 1 .. Len(p) : i = 1 \/ (i - 1 \in 1 .. Len(q) /\ p[i] = q[i - 1])
    BY <1>1
  <1>4. ASSUME NEW i \in 1 .. Len(p), NEW j \in 1 .. Len(p), i < j
        PROVE  p[i].no < p[j].no /\ p[i].key # p[j].key
    <2>1. j - 1 \in 1 .. Len(q) /\ p[j] = q[j - 1]
      BY <1>1, <1>3, <1>4
    <2>2. CASE i = 1
      BY <1>1, <1>2, <2>1, <2>2
    <2>3. CASE i # 1
      <3>1. i - 1 \in 1 .. Len(q) /\ p[i] = q[i - 1] /\ i - 1 < j - 1
        BY <1>1, <1>3, <1>4, <2>3
      <3> QED
        BY <2>1, <3>1 DEF Ordered, KeysDiffer
    <2> QED
      BY <2>2, <2>3
  <1>5. Ordered(p)
    BY <1>4 DEF Ordered
  <1>6. KeysDiffer(p)
    BY <1>1, <1>4 DEF KeysDiffer
  <1>7. NosOf(p) \subseteq NosOf(q) \cup {r.no}
    BY <1>1, <1>3 DEF NosOf
  <1>8. \A i \in 1 .. Len(q) : i + 1 \in 1 .. Len(p) /\ p[i + 1] = q[i]
    BY <1>1
  <1>9. NosOf(q) \subseteq NosOf(p)
    BY <1>8 DEF NosOf
  <1>10. r.no \in NosOf(p)
    BY <1>1 DEF NosOf
  <1> QED
    BY <1>5, <1>6, <1>7, <1>9, <1>10 DEF p

-----------------------------------------------------------------------------
(***************************************************************************)
(* The inductive invariant, session by session.                            *)
(***************************************************************************)

\* Legs of a chain that has not written anything.
Unwritten == {"prepare", "extract", "decide", "resolve", "write", "cancelled"}

\* A session that is not open has no worker and no queue; a chain runs for a
\* live session only under its worker, and on a record submitted before.
LifecycleAt(s) ==
    /\ conn[s] # "open" => worker[s] = "none" /\ queue[s] = <<>> /\ conv[s] = "quiet"
    /\ conn[s] = "new" => seq[s] = 0 /\ leg[s] = "none"
    /\ conn[s] = "open" /\ ~Running(s) => leg[s] = "none"
    /\ Running(s) => leg[s] # "none"
    /\ leg[s] # "none" => job[s] \in Records /\ job[s].no <= seq[s]

QueueAt(s) ==
    /\ Ordered(queue[s])
    /\ KeysDiffer(queue[s])
    /\ \A n \in NosOf(queue[s]) : n <= seq[s]
    /\ Running(s) => \A n \in NosOf(queue[s]) : job[s].no < n

OutcomeAt(s) ==
    /\ \A n \in Turns : n > seq[s] => outcome[s][n] = "none"
    /\ conn[s] = "open" =>
         \A n \in Turns :
             outcome[s][n] = "pending" <=>
                 n \in NosOf(queue[s]) \/ (Running(s) /\ n = job[s].no)

StoredAt(s) ==
    /\ \A n \in Turns : stored[s][n] <= 1
    /\ \A n \in Turns : n > seq[s] \/ n \in NosOf(queue[s]) => stored[s][n] = 0
    /\ leg[s] \in Unwritten => stored[s][job[s].no] = 0

AccountAt(s) == LifecycleAt(s) /\ QueueAt(s) /\ OutcomeAt(s) /\ StoredAt(s)

AccountInv == TypeInv /\ \A s \in Sessions : AccountAt(s)

LEMMA AccountInit == Init => AccountInv
  <1> SUFFICES ASSUME Init PROVE AccountInv
    OBVIOUS
  <1> USE BoundAssumption
  <1>1. TypeInv
    BY TypeInit
  <1>2. ASSUME NEW s \in Sessions PROVE AccountAt(s)
    <2>1. /\ conn[s] = "new" /\ conv[s] = "quiet" /\ queue[s] = <<>> /\ seq[s] = 0
          /\ worker[s] = "none" /\ leg[s] = "none"
          /\ \A n \in Turns : outcome[s][n] = "none" /\ stored[s][n] = 0
      BY DEF Init
    <2>2. LifecycleAt(s)
      BY <2>1 DEF LifecycleAt, Running
    <2>3. QueueAt(s)
      BY <2>1, EmptyQueue DEF QueueAt, Running
    <2>4. OutcomeAt(s)
      BY <2>1, EmptyQueue DEF OutcomeAt, Running
    <2>5. StoredAt(s)
      BY <2>1, EmptyQueue DEF StoredAt, Unwritten
    <2> QED
      BY <2>2, <2>3, <2>4, <2>5 DEF AccountAt
  <1> QED
    BY <1>1, <1>2 DEF AccountInv

\* What the account of a session depends on: a step that keeps these, keeps it.
LEMMA Frame ==
    ASSUME NEW s \in Sessions, AccountAt(s),
           conn'[s] = conn[s], conv'[s] = conv[s] \/ conn[s] = "open",
           queue'[s] = queue[s], seq'[s] = seq[s],
           \/ worker'[s] = worker[s]
           \/ {worker[s], worker'[s]} \cap {"none", "busy"} = {},
           job'[s] = job[s], leg'[s] = leg[s], outcome'[s] = outcome[s],
           stored'[s] = stored[s]
    PROVE  AccountAt(s)'
  BY DEF AccountAt, LifecycleAt, QueueAt, OutcomeAt, StoredAt, Running

\* Taking up the head of a queue whose turns are accounted for and unwritten.
LEMMA BeginAccount ==
    ASSUME TypeInv, NEW s \in Sessions, NEW q \in Seq(Records), q # <<>>,
           Begin(s, q), conn'[s] = "open", conv'[s] = conv[s], seq'[s] = seq[s],
           stored'[s] = stored[s], Ordered(q), KeysDiffer(q),
           \A n \in NosOf(q) : n <= seq[s],
           \A n \in Turns : n > seq[s] => outcome'[s][n] = "none",
           \A n \in Turns : outcome'[s][n] = "pending" <=> n \in NosOf(q),
           \A n \in Turns : stored[s][n] <= 1,
           \A n \in Turns : n > seq[s] \/ n \in NosOf(q) => stored[s][n] = 0
    PROVE  AccountAt(s)'
  <1> USE BoundAssumption
  <1>1. /\ worker'[s] = "busy" /\ queue'[s] = Tail(q)
        /\ job'[s] = Head(q) /\ leg'[s] = "prepare"
    BY DEF Begin, TypeInv, TypeOK
  <1>2. /\ Ordered(Tail(q)) /\ KeysDiffer(Tail(q))
        /\ NosOf(q) = NosOf(Tail(q)) \cup {Head(q).no}
        /\ \A n \in NosOf(Tail(q)) : Head(q).no < n
    BY PopOrder
  <1>3. Head(q) \in Records /\ Head(q).no \in Turns
    <2>1. Head(q) \in Records
      BY PopFacts
    <2> QED
      BY <2>1 DEF Records
  <1>4. LifecycleAt(s)'
    BY <1>1, <1>2, <1>3 DEF LifecycleAt, Running
  <1>5. QueueAt(s)'
    BY <1>1, <1>2 DEF QueueAt, Running
  <1>6. OutcomeAt(s)'
    BY <1>1, <1>2 DEF OutcomeAt, Running
  <1>7. StoredAt(s)'
    BY <1>1, <1>2, <1>3 DEF StoredAt, Unwritten
  <1> QED
    BY <1>4, <1>5, <1>6, <1>7 DEF AccountAt

\* The same for the head of the worker's loop, which may also wait or return.
LEMMA LoopAccount ==
    ASSUME TypeInv, NEW s \in Sessions, NEW q \in Seq(Records),
           Loop(s, q), conn'[s] = "open", conv'[s] = conv[s], seq'[s] = seq[s],
           stored'[s] = stored[s], Ordered(q), KeysDiffer(q),
           \A n \in NosOf(q) : n <= seq[s],
           \A n \in Turns : n > seq[s] => outcome'[s][n] = "none",
           \A n \in Turns : outcome'[s][n] = "pending" <=> n \in NosOf(q),
           \A n \in Turns : stored[s][n] <= 1,
           \A n \in Turns : n > seq[s] \/ n \in NosOf(q) => stored[s][n] = 0
    PROVE  AccountAt(s)'
  <1>1. CASE q # <<>> /\ open[s] /\ Begin(s, q)
    BY <1>1, BeginAccount
  <1>2. CASE ~(q # <<>> /\ open[s] /\ Begin(s, q))
    <2>1. /\ worker'[s] \in {"none", "waiting"} /\ queue'[s] = q /\ leg'[s] = "none"
      BY <1>2 DEF Loop, TypeInv, TypeOK
    <2>2. LifecycleAt(s)'
      BY <2>1 DEF LifecycleAt, Running
    <2>3. QueueAt(s)' /\ OutcomeAt(s)'
      BY <2>1 DEF QueueAt, OutcomeAt, Running
    <2>4. StoredAt(s)'
      BY <2>1 DEF StoredAt, Unwritten
    <2> QED
      BY <2>2, <2>3, <2>4 DEF AccountAt
  <1> QED
    BY <1>1, <1>2

\* A new turn is either queued behind all others or merged.
LEMMA SubmitAccount ==
    ASSUME AccountInv, TypeInv', NEW s \in Sessions, NEW k \in Keys, TurnDone(s, k)
    PROVE  AccountAt(s)'
  <1> USE BoundAssumption
  <1> DEFINE n == seq[s] + 1
             r == [key |-> k, no |-> n]
  <1>1. /\ conn[s] = "open" /\ conn'[s] = "open"
        /\ n \in Turns /\ seq[s] \in Nat /\ seq'[s] = n /\ r \in Records
        /\ queue[s] \in Seq(Records)
        /\ Turns \subseteq Nat /\ n \in Nat
        /\ \A m \in Nat : m > n => m > seq[s]
    <2>1. /\ conn[s] = "open" /\ UNCHANGED conn
          /\ n \in Turns /\ seq' = [seq EXCEPT ![s] = n]
      BY DEF AccountInv, TurnDone, Submit
    <2>2. seq[s] \in 0 .. MaxTurns /\ queue[s] \in Seq(Records)
      BY DEF AccountInv, TypeInv, TypeOK
    <2>3. seq'[s] = n
      BY <2>1 DEF AccountInv, TypeInv, TypeOK
    <2> QED
      BY <2>1, <2>2, <2>3 DEF Records, Turns
  <1>2. /\ job'[s] = job[s] /\ leg'[s] = leg[s] /\ stored'[s] = stored[s]
        /\ AccountAt(s)
    BY DEF AccountInv, TurnDone, Submit
  <1>3. /\ NosOf(queue[s]) \subseteq Turns
        /\ \A m \in NosOf(queue[s]) : m < n /\ m <= n
        /\ n > seq[s] /\ n <= n
        /\ Running(s) => /\ job[s] \in Records /\ job[s].no \in Turns
                         /\ job[s].no < n /\ job[s].no <= n
    <2>1. NosOf(queue[s]) \subseteq Turns
      BY <1>1, NosAreTurns
    <2>2. \A m \in NosOf(queue[s]) : m <= seq[s]
      BY <1>2 DEF AccountAt, QueueAt
    <2>3. Running(s) => job[s] \in Records /\ job[s].no <= seq[s]
      BY <1>2 DEF AccountAt, LifecycleAt
    <2>4. Running(s) => job[s].no \in Turns
      BY <2>3 DEF Records
    <2> QED
      BY <1>1, <2>1, <2>2, <2>3, <2>4 DEF Turns
  <1>4. CASE HasKey(queue[s], k)
    <2>1. /\ queue'[s] = queue[s] /\ worker'[s] = worker[s]
          /\ outcome' = [outcome EXCEPT ![s][n] = "merged"]
      BY <1>4 DEF TurnDone, Submit
    <2>2. /\ outcome'[s][n] = "merged"
          /\ \A m \in Turns : m # n => outcome'[s][m] = outcome[s][m]
      BY <1>1, <2>1 DEF AccountInv, TypeInv, TypeOK
    <2> HIDE DEF n, r
    <2>3. LifecycleAt(s)'
      BY <1>1, <1>2, <1>3, <2>1 DEF AccountAt, LifecycleAt, Running
    <2>4. QueueAt(s)'
      BY <1>1, <1>2, <1>3, <2>1 DEF AccountAt, QueueAt, Running
    <2>5. OutcomeAt(s)'
      BY <1>1, <1>2, <1>3, <2>1, <2>2 DEF AccountAt, OutcomeAt, Running
    <2>6. StoredAt(s)'
      BY <1>1, <1>2, <1>3, <2>1 DEF AccountAt, StoredAt
    <2> QED
      BY <2>3, <2>4, <2>5, <2>6 DEF AccountAt
  <1>5. CASE ~HasKey(queue[s], k)
    <2>1. /\ queue' = [queue EXCEPT ![s] = Append(@, r)]
          /\ worker' = [worker EXCEPT ![s] = IF @ = "none" THEN "top" ELSE @]
          /\ outcome' = [outcome EXCEPT ![s][n] = "pending"]
      BY <1>5 DEF TurnDone, Submit
    <2>2. /\ outcome'[s][n] = "pending"
          /\ \A m \in Turns : m # n => outcome'[s][m] = outcome[s][m]
      BY <1>1, <2>1 DEF AccountInv, TypeInv, TypeOK
    <2>3. queue'[s] = Append(queue[s], r)
      BY <2>1 DEF AccountInv, TypeInv, TypeOK
    <2>4. worker'[s] = "busy" <=> worker[s] = "busy"
      BY <2>1 DEF AccountInv, TypeInv, TypeOK
    <2>5. /\ Ordered(queue[s]) /\ KeysDiffer(queue[s])
          /\ r.key = k /\ r.no = n
      BY <1>2 DEF AccountAt, QueueAt
    <2> HIDE DEF r
    <2>6. /\ Ordered(queue'[s]) /\ KeysDiffer(queue'[s])
          /\ NosOf(queue'[s]) = NosOf(queue[s]) \cup {n}
      BY <1>1, <1>3, <1>5, <2>3, <2>5, PushOrder
    <2> HIDE DEF n
    <2>7. \A m : m \in NosOf(queue'[s]) <=> m \in NosOf(queue[s]) \/ m = n
      BY <2>6
    <2>8. LifecycleAt(s)'
      BY <1>1, <1>2, <1>3, <2>4 DEF AccountAt, LifecycleAt, Running
    <2>9. QueueAt(s)'
      <3>1. \A m \in NosOf(queue'[s]) : m <= n
        BY <1>1, <1>3, <2>7
      <3>2. worker[s] = "busy" => \A m \in NosOf(queue[s]) : job[s].no < m
        BY <1>2 DEF AccountAt, QueueAt, Running
      <3>3. worker'[s] = "busy" => \A m \in NosOf(queue'[s]) : job'[s].no < m
        BY <1>2, <1>3, <2>4, <2>7, <3>2 DEF Running
      <3> QED
        BY <1>1, <2>6, <3>1, <3>3 DEF QueueAt, Running
    <2>10. OutcomeAt(s)'
      BY <1>1, <1>2, <1>3, <2>2, <2>4, <2>7 DEF AccountAt, OutcomeAt, Running
    <2>11. StoredAt(s)'
      BY <1>1, <1>2, <1>3, <2>6 DEF AccountAt, StoredAt
    <2> QED
      BY <2>8, <2>9, <2>10, <2>11 DEF AccountAt
  <1> QED
    BY <1>4, <1>5

\* The record of a finished chain is accounted for by its counter, that of a
\* cancelled one by an equal pair in the queue or by its place before it.
LEMMA ReapAccount ==
    ASSUME AccountInv, NEW s \in Sessions, NEW result \in EndLegs, Reap(s, result)
    PROVE  AccountAt(s)'
  <1> USE BoundAssumption
  <1> DEFINE j == job[s].no
  <1>1. /\ TypeInv /\ AccountAt(s) /\ Running(s) /\ leg[s] = result
        /\ UNCHANGED <<conn, conv, seq, stored>>
    BY DEF AccountInv, Reap, Running
  <1>2. /\ conn[s] = "open" /\ job[s] \in Records /\ j <= seq[s]
        /\ queue[s] \in Seq(Records)
    BY <1>1 DEF AccountAt, LifecycleAt, Running, TypeInv, TypeOK
  <1>3. /\ j \in Turns /\ j \in Nat /\ seq[s] \in Nat
        /\ NosOf(queue[s]) \subseteq Turns /\ Turns \subseteq Nat
    <2>1. seq[s] \in 0 .. MaxTurns
      BY <1>1 DEF TypeInv, TypeOK
    <2> QED
      <3>1. NosOf(queue[s]) \subseteq Turns
        BY <1>2, NosAreTurns
      <3>2. j \in Turns
        BY <1>2 DEF Records
      <3> HIDE DEF j
      <3> QED
        BY <2>1, <3>1, <3>2 DEF Turns
  <1>4. /\ Ordered(queue[s]) /\ KeysDiffer(queue[s])
        /\ \A n \in NosOf(queue[s]) : n <= seq[s] /\ j < n
    BY <1>1 DEF AccountAt, QueueAt
  <1>5. j \notin NosOf(queue[s])
    BY <1>3, <1>4
  <1>6. /\ \A n \in Turns : n > seq[s] => outcome[s][n] = "none"
        /\ \A n \in Turns : outcome[s][n] = "pending" <=> n \in NosOf(queue[s]) \/ n = j
    BY <1>1, <1>2 DEF AccountAt, OutcomeAt
  <1>7. /\ \A n \in Turns : stored[s][n] <= 1
        /\ \A n \in Turns : n > seq[s] \/ n \in NosOf(queue[s]) => stored[s][n] = 0
        /\ result = "cancelled" => stored[s][j] = 0
    BY <1>1 DEF AccountAt, StoredAt, Unwritten
  <1>8. ASSUME NEW v, outcome' = [outcome EXCEPT ![s][j] = v]
        PROVE  outcome'[s][j] = v /\ \A n \in Turns : n # j => outcome'[s][n] = outcome[s][n]
    BY <1>1, <1>3, <1>8 DEF TypeInv, TypeOK
  <1>9. CASE result = "cancelled" /\ ~HasKey(queue[s], job[s].key)
    <2> DEFINE q == <<job[s]>> \o queue[s]
    <2>1. Loop(s, q) /\ outcome' = [outcome EXCEPT ![s][j] = "pending"]
      BY <1>9 DEF Reap, Requeued
    <2>2. q \in Seq(Records)
      BY <1>2, PutBackFacts
    <2>3. /\ Ordered(q) /\ KeysDiffer(q)
          /\ NosOf(q) = NosOf(queue[s]) \cup {j}
      BY <1>2, <1>4, <1>9, PutBackOrder
    <2> HIDE DEF q, j
    <2>4. /\ \A n \in NosOf(q) : n <= seq[s]
          /\ \A n \in Turns : n > seq[s] \/ n \in NosOf(q) => stored[s][n] = 0
      BY <1>2, <1>4, <1>7, <1>9, <2>3
    <2>5. /\ outcome'[s][j] = "pending"
          /\ \A n \in Turns : n # j => outcome'[s][n] = outcome[s][n]
      BY <1>8, <2>1
    <2>6. ~(j > seq[s])
      BY <1>2, <1>3
    <2>7. /\ \A n \in Turns : n > seq[s] => outcome'[s][n] = "none"
          /\ \A n \in Turns : outcome'[s][n] = "pending" <=> n \in NosOf(q)
      BY <1>6, <2>3, <2>5, <2>6
    <2> QED
      BY <1>1, <1>2, <1>7, <2>1, <2>2, <2>3, <2>4, <2>7, LoopAccount
  <1>10. CASE ~(result = "cancelled" /\ ~HasKey(queue[s], job[s].key))
    <2>1. Loop(s, queue[s]) /\ \E v \in {"finished", "failed", "merged"} :
                                  outcome' = [outcome EXCEPT ![s][j] = v]
      BY <1>10 DEF Reap, Requeued, EndLegs
    <2>2. PICK v \in {"finished", "failed", "merged"} :
                                  outcome' = [outcome EXCEPT ![s][j] = v]
      BY <2>1
    <2> HIDE DEF j
    <2>3. /\ outcome'[s][j] = v /\ v # "pending"
          /\ \A n \in Turns : n # j => outcome'[s][n] = outcome[s][n]
      BY <1>8, <2>2
    <2>4. ~(j > seq[s])
      BY <1>2, <1>3
    <2>5. /\ \A n \in Turns : n > seq[s] => outcome'[s][n] = "none"
          /\ \A n \in Turns : outcome'[s][n] = "pending" <=> n \in NosOf(queue[s])
      BY <1>5, <1>6, <2>3, <2>4
    <2> QED
      BY <1>1, <1>2, <1>4, <1>7, <2>1, <2>5, LoopAccount
  <1> QED
    BY <1>9, <1>10

\* A worker that reaches the head of its loop, or wakes behind the wait.
LEMMA WorkerAccount ==
    ASSUME AccountInv, NEW s \in Sessions, WorkerTop(s) \/ WorkerWake(s)
    PROVE  AccountAt(s)'
  <1>1. /\ TypeInv /\ AccountAt(s) /\ ~Running(s) /\ worker[s] # "none"
        /\ UNCHANGED <<conn, conv, seq, stored, outcome>>
    BY DEF AccountInv, WorkerTop, WorkerWake, Running
  <1>2. /\ conn[s] = "open" /\ queue[s] \in Seq(Records)
    BY <1>1 DEF AccountAt, LifecycleAt, TypeInv, TypeOK
  <1>3. /\ Ordered(queue[s]) /\ KeysDiffer(queue[s])
        /\ \A n \in NosOf(queue[s]) : n <= seq[s]
    BY <1>1 DEF AccountAt, QueueAt
  <1>4. /\ \A n \in Turns : n > seq[s] => outcome'[s][n] = "none"
        /\ \A n \in Turns : outcome'[s][n] = "pending" <=> n \in NosOf(queue[s])
    BY <1>1, <1>2 DEF AccountAt, OutcomeAt
  <1>5. /\ \A n \in Turns : stored[s][n] <= 1
        /\ \A n \in Turns : n > seq[s] \/ n \in NosOf(queue[s]) => stored[s][n] = 0
    BY <1>1 DEF AccountAt, StoredAt
  <1>6. CASE WorkerTop(s)
    BY <1>1, <1>2, <1>3, <1>4, <1>5, <1>6, LoopAccount DEF WorkerTop
  <1>7. CASE WorkerWake(s)
    <2>1. queue[s] # <<>>
      BY <1>1, <1>7 DEF WorkerWake, TypeInv, WorkerHasWork
    <2> QED
      BY <1>1, <1>2, <1>3, <1>4, <1>5, <1>7, <2>1, BeginAccount DEF WorkerWake
  <1> QED
    BY <1>6, <1>7

\* A leg of the chain: only the write, taken once, touches the store.
LEMMA ChainAccount ==
    ASSUME AccountInv, NEW s \in Sessions, ChainStep(s)
    PROVE  AccountAt(s)'
  <1> USE BoundAssumption
  <1>1. /\ TypeInv /\ AccountAt(s)
        /\ UNCHANGED <<conn, conv, queue, seq, worker, job, outcome>>
    BY DEF AccountInv, ChainStep, NoFacade, Abort, IssueExtract, ExtractNothing,
           ExtractFacts, SkipResolve, IssueResolve, Resolved, Write, IssueTag, Tagged,
           Complete, Fail, Goto, workVars
  <1>2. CASE Write(s)
    <2>1. leg[s] = "write" /\ leg'[s] = "written"
      BY <1>1, <1>2 DEF Write, Goto, TypeInv, TypeOK
    <2>2. job[s] \in Records /\ job[s].no <= seq[s]
      BY <1>1, <2>1 DEF AccountAt, LifecycleAt
    <2>3. job[s].no \in Turns /\ seq[s] \in 0 .. MaxTurns
      BY <1>1, <2>2 DEF Records, TypeInv, TypeOK
    <2>4. stored[s][job[s].no] = 0
      BY <1>1, <2>1 DEF AccountAt, StoredAt, Unwritten
    <2>5. stored'[s] = [stored[s] EXCEPT ![job[s].no] = 1]
      BY <1>1, <1>2, <2>3, <2>4 DEF Write, TypeInv, TypeOK
    <2>6. job[s].no \notin NosOf(queue[s])
      <3>1. CASE Running(s)
        <4>1. \A n \in NosOf(queue[s]) : job[s].no < n
          BY <1>1, <3>1 DEF AccountAt, QueueAt
        <4> QED
          BY <2>3, <4>1 DEF Turns
      <3>2. CASE ~Running(s)
        <4>1. queue[s] = <<>>
          BY <1>1, <2>1, <3>2 DEF AccountAt, LifecycleAt
        <4> QED
          BY <4>1, EmptyQueue
      <3> QED
        BY <3>1, <3>2
    <2>7. ~(job[s].no > seq[s])
      BY <2>2, <2>3 DEF Turns
    <2>8. \A n \in Turns : n # job[s].no => stored'[s][n] = stored[s][n]
      BY <1>1, <2>5 DEF TypeInv, TypeOK
    <2>9. stored'[s][job[s].no] = 1
      BY <1>1, <2>3, <2>5 DEF TypeInv, TypeOK
    <2>10. StoredAt(s)'
      BY <1>1, <2>1, <2>6, <2>7, <2>8, <2>9 DEF AccountAt, StoredAt, Unwritten
    <2>11. LifecycleAt(s)'
      BY <1>1, <2>1 DEF AccountAt, LifecycleAt, Running
    <2>12. QueueAt(s)' /\ OutcomeAt(s)'
      BY <1>1 DEF AccountAt, QueueAt, OutcomeAt, Running
    <2> QED
      BY <2>10, <2>11, <2>12 DEF AccountAt
  <1>3. CASE ~Write(s)
    <2>1. /\ UNCHANGED stored /\ leg[s] # "none" /\ leg'[s] # "none"
          /\ leg'[s] \in Unwritten => leg[s] \in Unwritten
      BY <1>1, <1>3
         DEF ChainStep, NoFacade, Abort, IssueExtract, ExtractNothing, ExtractFacts,
             SkipResolve, IssueResolve, Resolved, IssueTag, Tagged, Complete, Fail,
             Goto, PollingLegs, Unwritten, TypeInv, TypeOK
    <2>2. LifecycleAt(s)'
      BY <1>1, <2>1 DEF AccountAt, LifecycleAt, Running
    <2>3. QueueAt(s)' /\ OutcomeAt(s)'
      BY <1>1 DEF AccountAt, QueueAt, OutcomeAt, Running
    <2>4. StoredAt(s)'
      BY <1>1, <2>1 DEF AccountAt, StoredAt
    <2> QED
      BY <2>2, <2>3, <2>4 DEF AccountAt
  <1> QED
    BY <1>2, <1>3

\* Connecting, and a disconnect, after which the session is out of account.
LEMMA ConnectAccount ==
    ASSUME AccountInv, NEW s \in Sessions, Connect(s) \/ Disconnect(s)
    PROVE  AccountAt(s)'
  <1>1. TypeInv /\ AccountAt(s)
    BY DEF AccountInv
  <1>2. CASE Connect(s)
    <2>1. /\ conn[s] = "new" /\ conn'[s] = "open"
          /\ UNCHANGED <<conv, queue, seq, worker, job, leg, outcome, stored>>
      BY <1>1, <1>2 DEF Connect, workVars, TypeInv, TypeOK
    <2>2. queue[s] = <<>> /\ ~Running(s) /\ seq[s] = 0 /\ leg[s] = "none"
      BY <1>1, <2>1 DEF AccountAt, LifecycleAt, Running
    <2>3. \A n \in Turns : outcome[s][n] = "none"
      BY <1>1, <2>2, BoundAssumption DEF AccountAt, OutcomeAt, Turns
    <2>4. LifecycleAt(s)'
      BY <2>1, <2>2 DEF LifecycleAt, Running
    <2>5. QueueAt(s)' /\ StoredAt(s)'
      BY <1>1, <2>1 DEF AccountAt, QueueAt, StoredAt, Running
    <2>6. OutcomeAt(s)'
      BY <2>1, <2>2, <2>3, EmptyQueue DEF OutcomeAt, Running
    <2> QED
      BY <2>4, <2>5, <2>6 DEF AccountAt
  <1>3. CASE Disconnect(s)
    <2>1. /\ conn'[s] = "closed" /\ conv'[s] = "quiet"
          /\ worker'[s] = "none" /\ queue'[s] = <<>>
          /\ UNCHANGED <<seq, job, leg, outcome, stored>>
      BY <1>1, <1>3 DEF Disconnect, TypeInv, TypeOK
    <2>2. LifecycleAt(s)'
      BY <1>1, <2>1 DEF AccountAt, LifecycleAt, Running
    <2>3. QueueAt(s)'
      BY <2>1, EmptyQueue DEF QueueAt, Running
    <2>4. OutcomeAt(s)' /\ StoredAt(s)'
      BY <1>1, <2>1, EmptyQueue DEF AccountAt, OutcomeAt, StoredAt
    <2> QED
      BY <2>2, <2>3, <2>4 DEF AccountAt
  <1> QED
    BY <1>2, <1>3

LEMMA AccountNext == AccountInv /\ [Next]_vars => AccountInv'
  <1> SUFFICES ASSUME AccountInv, [Next]_vars PROVE AccountInv'
    OBVIOUS
  <1>1. TypeInv /\ \A t \in Sessions : AccountAt(t)
    BY DEF AccountInv
  <1>2. TypeInv'
    BY <1>1, TypeNext
  <1> SUFFICES ASSUME NEW t \in Sessions PROVE AccountAt(t)'
    BY <1>2 DEF AccountInv
  <1>3. CASE UNCHANGED vars \/ Tick
    BY <1>1, <1>3, Frame DEF vars, Tick, workVars
  <1>4. ASSUME NEW s \in Sessions, SessionStep(s) PROVE AccountAt(t)'
    <2>1. CASE t # s
      <3>1. UNCHANGED <<job, leg, stored>>
        BY <1>4
           DEF SessionStep, Connect, SpeechStart, SpeechDropped, StartTurn, NoteActivity,
               TurnDone, Submit, TurnCut, Disconnect, workVars
      <3>2. conn'[t] = conn[t] /\ conv'[t] = conv[t]
        BY <1>1, <1>4, <2>1
           DEF SessionStep, Connect, SpeechStart, SpeechDropped, StartTurn, NoteActivity,
               TurnDone, TurnCut, TurnEnds, Disconnect, TypeInv, TypeOK
      <3>3. /\ queue'[t] = queue[t] /\ seq'[t] = seq[t]
            /\ worker'[t] = worker[t] /\ outcome'[t] = outcome[t]
        <4>1. CASE \E k \in Keys : Submit(s, k)
          BY <1>1, <2>1, <4>1 DEF Submit, TypeInv, TypeOK
        <4>2. CASE Disconnect(s)
          BY <1>1, <2>1, <4>2 DEF Disconnect, TypeInv, TypeOK
        <4>3. CASE UNCHANGED workVars
          BY <4>3 DEF workVars
        <4> QED
          BY <1>4, <4>1, <4>2, <4>3
             DEF SessionStep, Connect, SpeechStart, SpeechDropped, StartTurn,
                 NoteActivity, TurnDone, TurnCut
      <3> QED
        BY <1>1, <3>1, <3>2, <3>3, Frame
    <2>2. CASE t = s /\ (\E k \in Keys : TurnDone(s, k))
      BY <1>2, <2>2, SubmitAccount
    <2>3. CASE t = s /\ (Connect(s) \/ Disconnect(s))
      BY <2>3, ConnectAccount
    <2>4. CASE t = s /\ (\/ SpeechStart(s) \/ SpeechDropped(s) \/ StartTurn(s)
                         \/ NoteActivity(s) \/ TurnCut(s))
      <3>1. conn[s] = "open" /\ UNCHANGED <<conn, workVars, leg, stored>>
        BY <2>4 DEF SpeechStart, SpeechDropped, StartTurn, NoteActivity, TurnCut
      <3> QED
        BY <1>1, <2>4, <3>1, Frame DEF workVars
    <2> QED
      BY <1>4, <2>1, <2>2, <2>3, <2>4 DEF SessionStep
  <1>5. ASSUME NEW s \in Sessions, TryOpen(s) PROVE AccountAt(t)'
    <2>1. UNCHANGED <<conn, conv, queue, seq, job, leg, outcome, stored>>
      BY <1>5 DEF TryOpen
    <2>2. \/ worker'[t] = worker[t]
          \/ {worker[t], worker'[t]} \cap {"none", "busy"} = {}
      BY <1>1, <1>5 DEF TryOpen, OpenGate, TypeInv, TypeOK
    <2> QED
      BY <1>1, <2>1, <2>2, Frame
  <1>6. ASSUME NEW s \in Sessions, WorkerStep(s) PROVE AccountAt(t)'
    <2>1. CASE t # s
      <3>1. /\ UNCHANGED <<conn, conv, seq, stored>>
            /\ queue'[t] = queue[t] /\ worker'[t] = worker[t] /\ job'[t] = job[t]
            /\ leg'[t] = leg[t] /\ outcome'[t] = outcome[t]
        BY <1>1, <1>6, <2>1
           DEF WorkerStep, WorkerTop, WorkerWake, Reap, Loop, Begin, TypeInv, TypeOK
      <3> QED
        BY <1>1, <3>1, Frame
    <2>2. CASE t = s
      BY <1>6, <2>2, WorkerAccount, ReapAccount DEF WorkerStep
    <2> QED
      BY <2>1, <2>2
  <1>7. ASSUME NEW s \in Sessions, ChainStep(s) PROVE AccountAt(t)'
    <2>1. CASE t # s
      <3>1. /\ UNCHANGED <<conn, conv, workVars>>
            /\ leg'[t] = leg[t] /\ stored'[t] = stored[t]
        BY <1>1, <1>7, <2>1
           DEF ChainStep, NoFacade, Abort, IssueExtract, ExtractNothing, ExtractFacts,
               SkipResolve, IssueResolve, Resolved, Write, IssueTag, Tagged, Complete,
               Fail, Goto, TypeInv, TypeOK
      <3> QED
        BY <1>1, <3>1, Frame DEF workVars
    <2>2. CASE t = s
      BY <1>7, <2>2, ChainAccount
    <2> QED
      BY <2>1, <2>2
  <1> QED
    BY <1>3, <1>4, <1>5, <1>6, <1>7 DEF Next

-----------------------------------------------------------------------------
(***************************************************************************)
(* The theorems.                                                           *)
(***************************************************************************)
THEOREM AccountInvariant == Spec => []AccountInv
  BY AccountInit, AccountNext, PTL DEF Spec

\* Turns are consolidated in the order they were spoken, whatever is
\* cancelled and put back on the way (_requeue, _worker).
THEOREM InOrder == Spec => []QueueInOrder
  <1>1. AccountInv => QueueInOrder
    <2> SUFFICES ASSUME AccountInv, NEW s \in Sessions
                 PROVE  /\ Ordered(queue[s])
                        /\ Running(s) => \A i \in 1 .. Len(queue[s]) :
                                             job[s].no < queue[s][i].no
      BY DEF QueueInOrder, Ordered
    <2>1. QueueAt(s)
      BY DEF AccountInv, AccountAt
    <2> QED
      BY <2>1 DEF QueueAt, NosOf
  <1> QED
    BY <1>1, AccountInvariant, PTL

\* The queue never holds the same pair twice (submit, _requeue).
THEOREM Coalesced == Spec => []PairsCoalesced
  <1>1. AccountInv => PairsCoalesced
    BY DEF AccountInv, AccountAt, QueueAt, KeysDiffer, PairsCoalesced
  <1> QED
    BY <1>1, AccountInvariant, PTL

\* A live session's pairs are in the queue, with the chain, or accounted for
\* by a counter of the gate (GateStats).
THEOREM AllAccounted == Spec => []NothingVanishes
  <1>1. AccountInv => NothingVanishes
    BY DEF AccountInv, AccountAt, OutcomeAt, NosOf, NothingVanishes, QueuedTurns
  <1> QED
    BY <1>1, AccountInvariant, PTL

\* No turn's facts are applied twice, and none before its chain took it up.
THEOREM AppliedOnce == Spec => []ConsolidatedOnce
  <1>1. AccountInv => ConsolidatedOnce
    BY DEF AccountInv, AccountAt, StoredAt, NosOf, ConsolidatedOnce, QueuedTurns
  <1> QED
    BY <1>1, AccountInvariant, PTL

\* The books of the gate balance, however chains are cancelled and repeated.
THEOREM Accounted == Spec => []PairsAccounted
  <1>1. QueueInOrder /\ PairsCoalesced /\ NothingVanishes => PairsAccounted
    BY DEF PairsAccounted
  <1> QED
    BY <1>1, InOrder, Coalesced, AllAccounted, PTL

-----------------------------------------------------------------------------
(***************************************************************************)
(* When the gate is open: never while the user is served, never with its   *)
(* worker asleep, and, as long as the server has one session only, never   *)
(* with the cancel event set.                                              *)
(***************************************************************************)

(***************************************************************************)
(* Arm closes the gate whenever the session starts to serve the user, and, *)
(* where turns do not overlap, only a release that ends it lets the timer  *)
(* open the gate again.                                                    *)
(***************************************************************************)
QuietInv ==
    /\ TypeInv
    /\ \A s \in Sessions : open[s] \/ awaiting[s] => conv[s] = "quiet"

LEMMA QuietNext ==
    ASSUME ~Overlap
    PROVE  QuietInv /\ [Next]_vars => QuietInv'
  <1> SUFFICES ASSUME QuietInv, [Next]_vars PROVE QuietInv'
    OBVIOUS
  <1>1. TypeInv'
    BY TypeNext DEF QuietInv
  <1> SUFFICES ASSUME NEW t \in Sessions
               PROVE  open'[t] \/ awaiting'[t] => conv'[t] = "quiet"
    BY <1>1 DEF QuietInv
  <1>2. CASE UNCHANGED <<conv, open, awaiting>>
    BY <1>2 DEF QuietInv
  <1>3. ASSUME NEW s \in Sessions, SessionStep(s)
        PROVE  open'[t] \/ awaiting'[t] => conv'[t] = "quiet"
    <2>1. CASE SpeechStart(s) \/ StartTurn(s)
      BY <2>1 DEF SpeechStart, StartTurn, Arm, QuietInv, TypeInv, TypeOK
    <2>2. CASE TurnCut(s) \/ \E k \in Keys : TurnDone(s, k)
      BY <2>2, SMTT(60) DEF TurnCut, TurnDone, TurnEnds, Release, QuietInv, TypeInv, TypeOK
    <2>3. CASE SpeechDropped(s) \/ Disconnect(s)
      BY <2>3 DEF SpeechDropped, Disconnect, gateVars, QuietInv, TypeInv, TypeOK
    <2>4. CASE Connect(s) \/ NoteActivity(s)
      BY <1>2, <2>4 DEF Connect, NoteActivity, gateVars
    <2> QED
      BY <1>3, <2>1, <2>2, <2>3, <2>4 DEF SessionStep
  <1>4. ASSUME NEW s \in Sessions, TryOpen(s)
        PROVE  open'[t] \/ awaiting'[t] => conv'[t] = "quiet"
    <2>1. UNCHANGED conv
      BY <1>4 DEF TryOpen
    <2>2. UNCHANGED <<open, awaiting>> \/ (awaiting[s] /\ OpenGate(s))
      BY <1>4 DEF TryOpen
    <2> QED
      BY <2>1, <2>2 DEF OpenGate, QuietInv, TypeInv, TypeOK
  <1>5. Tick \/ UNCHANGED vars => UNCHANGED <<conv, open, awaiting>>
    BY DEF Tick, vars, gateVars
  <1>6. ASSUME NEW s \in Sessions, WorkerStep(s) \/ ChainStep(s)
        PROVE  UNCHANGED <<conv, open, awaiting>>
    BY <1>6
       DEF WorkerStep, WorkerTop, WorkerWake, Reap, ChainStep, NoFacade, Abort,
           IssueExtract, ExtractNothing, ExtractFacts, SkipResolve, IssueResolve,
           Resolved, Write, IssueTag, Tagged, Complete, Fail, Goto, gateVars
  <1> QED
    BY <1>2, <1>3, <1>4, <1>5, <1>6 DEF Next

\* Unless turns overlap: while the user speaks or a turn runs the gate neither
\* is open nor waits for quiet, for arm undoes every earlier release.
THEOREM ClosedForTheUser ==
    ASSUME ~Overlap
    PROVE  Spec => []OpenMeansQuiet
  <1>1. Init => QuietInv
    <2>1. Init => TypeInv
      BY TypeInit
    <2> QED
      BY <2>1 DEF Init, QuietInv
  <1>2. QuietInv /\ [Next]_vars => QuietInv'
    BY QuietNext
  <1>3. QuietInv => OpenMeansQuiet
    BY DEF QuietInv, OpenMeansQuiet
  <1> QED
    BY <1>1, <1>2, <1>3, PTL DEF Spec

-----------------------------------------------------------------------------
(***************************************************************************)
(* The worker and the event it waits for.                                  *)
(***************************************************************************)
WakeInv ==
    /\ AccountInv
    /\ \A s \in Sessions :
         /\ worker[s] = "waiting" => ~open[s]
         /\ queue[s] # <<>> => worker[s] # "none"

LEMMA WakeNext == WakeInv /\ [Next]_vars => WakeInv'
  <1> SUFFICES ASSUME WakeInv, [Next]_vars PROVE WakeInv'
    OBVIOUS
  <1>1. AccountInv' /\ TypeInv /\ TypeInv'
    BY AccountNext DEF WakeInv, AccountInv
  <1> SUFFICES ASSUME NEW t \in Sessions
               PROVE  /\ worker'[t] = "waiting" => ~open'[t]
                      /\ queue'[t] # <<>> => worker'[t] # "none"
    BY <1>1 DEF WakeInv
  <1>2. CASE /\ worker'[t] = worker[t] /\ queue'[t] = queue[t]
             /\ open'[t] = open[t] \/ ~open'[t]
    BY <1>2 DEF WakeInv
  <1>3. ASSUME NEW s \in Sessions, SessionStep(s)
        PROVE  /\ worker'[t] = "waiting" => ~open'[t]
               /\ queue'[t] # <<>> => worker'[t] # "none"
    <2>1. CASE SpeechStart(s) \/ StartTurn(s)
      BY <1>1, <1>2, <2>1 DEF SpeechStart, StartTurn, Arm, workVars, TypeInv, TypeOK
    <2>2. CASE Connect(s) \/ SpeechDropped(s) \/ NoteActivity(s) \/ TurnCut(s)
      BY <1>2, <2>2
         DEF Connect, SpeechDropped, NoteActivity, TurnCut, Release, gateVars, workVars
    <2>3. ASSUME NEW k \in Keys, TurnDone(s, k)
          PROVE  /\ worker'[t] = "waiting" => ~open'[t]
                 /\ queue'[t] # <<>> => worker'[t] # "none"
      <3>1. UNCHANGED open
        BY <2>3 DEF TurnDone, Release
      <3>2. \/ UNCHANGED <<queue, worker>>
            \/ /\ worker' = [worker EXCEPT ![s] = IF @ = "none" THEN "top" ELSE @]
               /\ \E q : queue' = [queue EXCEPT ![s] = q]
        BY <2>3 DEF TurnDone, Submit
      <3>3. CASE t = s
        BY <1>1, <3>1, <3>2, <3>3 DEF WakeInv, TypeInv, TypeOK
      <3>4. CASE t # s
        BY <1>1, <1>2, <3>1, <3>2, <3>4 DEF TypeInv, TypeOK
      <3> QED
        BY <3>3, <3>4
    <2>4. CASE Disconnect(s)
      BY <1>1, <2>4 DEF Disconnect, gateVars, WakeInv, TypeInv, TypeOK
    <2> QED
      BY <1>3, <2>1, <2>2, <2>3, <2>4 DEF SessionStep
  <1>4. ASSUME NEW s \in Sessions, TryOpen(s)
        PROVE  /\ worker'[t] = "waiting" => ~open'[t]
               /\ queue'[t] # <<>> => worker'[t] # "none"
    <2>1. CASE OpenGate(s)
      BY <1>1, <1>4, <2>1 DEF TryOpen, OpenGate, WakeInv, TypeInv, TypeOK
    <2>2. CASE ~OpenGate(s)
      BY <1>2, <1>4, <2>2 DEF TryOpen
    <2> QED
      BY <2>1, <2>2
  <1>5. ASSUME NEW s \in Sessions, WorkerStep(s)
        PROVE  /\ worker'[t] = "waiting" => ~open'[t]
               /\ queue'[t] # <<>> => worker'[t] # "none"
    <2>1. UNCHANGED open
      BY <1>5 DEF WorkerStep, WorkerTop, WorkerWake, Reap, gateVars
    <2>2. \E q : Loop(s, q) \/ Begin(s, q)
      BY <1>5 DEF WorkerStep, WorkerTop, WorkerWake, Reap
    <2>3. PICK q : Loop(s, q) \/ Begin(s, q)
      BY <2>2
    <2>4. CASE t = s
      <3>1. CASE Begin(s, q)
        BY <1>1, <2>4, <3>1 DEF Begin, TypeInv, TypeOK
      <3>2. CASE ~Begin(s, q)
        <4>1. /\ q = <<>> \/ ~open[s]
              /\ worker'[s] = IF q = <<>> THEN "none" ELSE "waiting"
              /\ queue'[s] = q
          BY <1>1, <2>3, <3>2 DEF Loop, TypeInv, TypeOK
        <4> QED
          BY <2>1, <2>4, <4>1
      <3> QED
        BY <3>1, <3>2
    <2>5. CASE t # s
      BY <1>1, <1>2, <2>1, <2>3, <2>5 DEF Loop, Begin, TypeInv, TypeOK
    <2> QED
      BY <2>4, <2>5
  <1>6. ASSUME NEW s \in Sessions, ChainStep(s)
        PROVE  UNCHANGED <<worker, queue, open>>
    BY <1>6
       DEF ChainStep, NoFacade, Abort, IssueExtract, ExtractNothing, ExtractFacts,
           SkipResolve, IssueResolve, Resolved, Write, IssueTag, Tagged, Complete,
           Fail, Goto, gateVars, workVars
  <1>7. Tick \/ UNCHANGED vars => UNCHANGED <<worker, queue, open>>
    BY DEF Tick, vars, gateVars, workVars
  <1> QED
    BY <1>2, <1>3, <1>4, <1>5, <1>6, <1>7 DEF Next

\* The worker never sleeps through an open gate, never waits for nothing, and
\* is there whenever a pair is queued (_ensure_worker, Event.wait).
THEOREM WorkerAwake == Spec => []NoLostWakeup
  <1>1. Init => WakeInv
    <2>1. Init => AccountInv
      BY AccountInit
    <2> QED
      BY <2>1 DEF Init, WakeInv
  <1>2. WakeInv => NoLostWakeup
    BY DEF WakeInv, AccountInv, TypeInv, WorkerHasWork, NoLostWakeup
  <1> QED
    BY <1>1, <1>2, WakeNext, PTL DEF Spec

-----------------------------------------------------------------------------
(***************************************************************************)
(* The shared cancel event.  With several sessions the property fails, for *)
(* one session cancels behind the gate of another; one session keeps it.   *)
(***************************************************************************)
SingleSession == \A s, t \in Sessions : s = t

CancelInv ==
    /\ AccountInv
    /\ \A s \in Sessions : bgCancel => conn[s] = "closed" \/ (conn[s] = "open" /\ ~open[s])

LEMMA CancelNext ==
    ASSUME SingleSession
    PROVE  CancelInv /\ [Next]_vars => CancelInv'
  <1> SUFFICES ASSUME CancelInv, [Next]_vars PROVE CancelInv'
    OBVIOUS
  <1>1. AccountInv' /\ TypeInv
    BY AccountNext DEF CancelInv, AccountInv
  <1> SUFFICES ASSUME NEW t \in Sessions
               PROVE  bgCancel' => conn'[t] = "closed" \/ (conn'[t] = "open" /\ ~open'[t])
    BY <1>1 DEF CancelInv
  <1>2. CASE UNCHANGED <<conn, open, bgCancel>>
    BY <1>2 DEF CancelInv
  <1>3. ASSUME NEW s \in Sessions, SessionStep(s)
        PROVE  bgCancel' => conn'[t] = "closed" \/ (conn'[t] = "open" /\ ~open'[t])
    <2>1. s = t
      BY DEF SingleSession
    <2>2. CASE SpeechStart(s) \/ StartTurn(s)
      BY <1>1, <2>1, <2>2 DEF SpeechStart, StartTurn, Arm, TypeInv, TypeOK
    <2>3. CASE Connect(s) \/ Disconnect(s)
      BY <1>1, <2>1, <2>3 DEF Connect, Disconnect, gateVars, CancelInv, TypeInv, TypeOK
    <2>4. CASE SpeechDropped(s) \/ NoteActivity(s) \/ TurnCut(s)
               \/ \E k \in Keys : TurnDone(s, k)
      BY <1>2, <2>4 DEF SpeechDropped, NoteActivity, TurnCut, TurnDone, Release, gateVars
    <2> QED
      BY <1>3, <2>2, <2>3, <2>4 DEF SessionStep
  <1>4. ASSUME NEW s \in Sessions, TryOpen(s)
        PROVE  ~bgCancel' \/ UNCHANGED <<conn, open, bgCancel>>
    BY <1>4 DEF TryOpen, OpenGate
  <1>5. ASSUME NEW s \in Sessions, WorkerStep(s) \/ ChainStep(s)
        PROVE  UNCHANGED <<conn, open, bgCancel>>
    BY <1>5
       DEF WorkerStep, WorkerTop, WorkerWake, Reap, ChainStep, NoFacade, Abort,
           IssueExtract, ExtractNothing, ExtractFacts, SkipResolve, IssueResolve,
           Resolved, Write, IssueTag, Tagged, Complete, Fail, Goto, gateVars
  <1>6. Tick \/ UNCHANGED vars => UNCHANGED <<conn, open, bgCancel>>
    BY DEF Tick, vars, gateVars
  <1> QED
    BY <1>2, <1>3, <1>4, <1>5, <1>6 DEF Next

\* With one session an open gate never meets a set cancel event: every chain
\* it lets start runs on until the user is back (_try_open, arm).
THEOREM OpenedUncancelled ==
    ASSUME SingleSession
    PROVE  Spec => []CancelMeansClosed
  <1>1. Init => CancelInv
    <2>1. Init => AccountInv
      BY AccountInit
    <2> QED
      BY <2>1 DEF Init, CancelInv
  <1>2. CancelInv /\ [Next]_vars => CancelInv'
    BY CancelNext
  <1>3. CancelInv => CancelMeansClosed
    BY DEF CancelInv, CancelMeansClosed
  <1> QED
    BY <1>1, <1>2, <1>3, PTL DEF Spec

\* In a program with one session whose turns do not overlap, gate, timer, worker
\* and cancel event always agree with the conversation.
THEOREM Watching ==
    ASSUME ~Overlap, SingleSession
    PROVE  Spec => []GateWatches
  <1>1. TypeOK /\ OpenMeansQuiet /\ NoLostWakeup /\ CancelMeansClosed => GateWatches
    BY DEF GateWatches
  <1>2. Spec => []OpenMeansQuiet
    BY ClosedForTheUser
  <1>3. Spec => []CancelMeansClosed
    BY OpenedUncancelled
  <1> QED
    BY <1>1, <1>2, <1>3, TypeCorrect, WorkerAwake, PTL

=============================================================================
