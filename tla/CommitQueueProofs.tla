-------------------------- MODULE CommitQueueProofs --------------------------
(***************************************************************************)
(* Whatever turns, flushes, failures and evictions do to a reply, it is    *)
(* stored with words of its own speaker; and it is queued, dropped by the  *)
(* full queue, or handed to a thread that stores it, at most twice.  What  *)
(* becomes of it there is not promised (CommitQueue!CommittedIsStored).    *)
(***************************************************************************)
EXTENDS CommitQueue, WellFoundedInduction, FiniteSetTheorems, TLAPS

(***************************************************************************)
(* What the invariant needs of the types, and the turns whose speaker is   *)
(* settled: those before the current one, and the current one once it has  *)
(* been understood.                                                        *)
(***************************************************************************)

CommitTypes ==
    /\ phase \in Phases
    /\ turn \in 0 .. MaxTurns
    /\ who \in [Turns -> Speakers \cup {"none"}]
    /\ last \in [Speakers -> 0 .. MaxTurns]
    /\ queue \in Seq(Turns)
    /\ loop \in {"none", "sleep", "retry"}
    /\ snap \in [Clients -> Seq(Turns)]
    /\ call \in [Clients -> Calls \cup {NoCall}]

Past(n) == n \in Turns /\ (n < turn \/ (n = turn /\ phase \notin {"flush", "listen"}))
Spoken(n) == Past(n) /\ who[n] \in Speakers

\* The last user text of a speaker is the speaker's.
LastInv == \A s \in Speakers : last[s] # 0 => Past(last[s]) /\ who[last[s]] = s

\* What is queued, or taken from the queue, has been spoken by somebody.
QueuedInv ==
    /\ \A i \in 1 .. Len(queue) : Spoken(queue[i])
    /\ \A c \in Clients : \A i \in 1 .. Len(snap[c]) : Spoken(snap[c][i])

CallInv ==
    \A c \in Clients :
        /\ call[c] # NoCall => Spoken(call[c].turn)
        /\ call[c].step = "ingest" =>
                Past(call[c].text) /\ who[call[c].text] = who[call[c].turn]

\* Where the turn and the background task are while their calls run.
PhaseInv ==
    /\ phase \notin {"idle", "flush", "listen"} => Spoken(turn)
    /\ phase = "flush" => snap["turn"] # <<>>
    /\ call["turn"].for = "retrieve" => phase = "retrieve"
    /\ call["loop"].for \in {"none", "commit"}
    /\ call["loop"] # NoCall => loop = "retry"
    /\ loop = "retry" => snap["loop"] # <<>>
    /\ turn = 0 => phase = "idle"

MixInv == CommitTypes /\ LastInv /\ QueuedInv /\ CallInv /\ PhaseInv

-----------------------------------------------------------------------------
(* Sequences of the queue.                                                 *)

\* A set of numbers that is not empty has a least one.
LEMMA LeastOf ==
    ASSUME NEW T \in SUBSET Nat, T # {}
    PROVE  \E x \in T : \A y \in T : x <= y
  <1> DEFINE R == {p \in Nat \X Nat : p[1] < p[2]}
  <1>1. IsWellFoundedOn(R, Nat)
    BY NatLessThanWellFounded DEF OpToRel
  <1>2. PICK x \in T : \A y \in T : ~(<<y, x>> \in R)
    BY <1>1, WFMin
  <1>3. ASSUME NEW y \in T PROVE x <= y
    <2>1. <<y, x>> \notin R /\ x \in Nat /\ y \in Nat
      BY <1>2
    <2>2. ~(y < x)
      BY <2>1
    <2> QED
      BY <2>1, <2>2
  <1> QED
    BY <1>3

\* The elements of a sequence are the members of its set.
LEMMA MembersAre ==
    ASSUME NEW S, NEW q \in Seq(S)
    PROVE  /\ ToSet(q) \subseteq S
           /\ \A i \in 1 .. Len(q) : q[i] \in ToSet(q)
           /\ \A x \in ToSet(q) : \E i \in 1 .. Len(q) : x = q[i]
  BY DEF ToSet

\* A sequence without its element k.
LEMMA RemoveAtIs ==
    ASSUME NEW S, NEW q \in Seq(S), NEW k \in 1 .. Len(q)
    PROVE  /\ RemoveAt(q, k) \in Seq(S) /\ Len(RemoveAt(q, k)) = Len(q) - 1
           /\ \A i \in 1 .. Len(q) - 1 : /\ i < k => RemoveAt(q, k)[i] = q[i]
                                         /\ ~(i < k) => RemoveAt(q, k)[i] = q[i + 1]
  <1> DEFINE front == SubSeq(q, 1, k - 1)
             rest == SubSeq(q, k + 1, Len(q))
  <1>1. Len(q) \in Nat /\ k \in Nat
    OBVIOUS
  <1>2. front \in Seq(S) /\ Len(front) = k - 1 /\ \A i \in 1 .. k - 1 : front[i] = q[i]
    OBVIOUS
  <1>3. /\ rest \in Seq(S) /\ Len(rest) = Len(q) - k
        /\ \A i \in 1 .. Len(q) - k : rest[i] = q[i + k]
    OBVIOUS
  <1>4. RemoveAt(q, k) = front \o rest
    BY DEF RemoveAt
  <1> HIDE DEF front, rest
  <1>5. front \o rest \in Seq(S) /\ Len(front \o rest) = Len(q) - 1
    BY <1>1, <1>2, <1>3
  <1>6. ASSUME NEW i \in 1 .. Len(q) - 1
        PROVE  /\ i < k => (front \o rest)[i] = q[i]
               /\ ~(i < k) => (front \o rest)[i] = q[i + 1]
    <2>1. CASE i < k
      BY <1>1, <1>2, <1>3, <2>1
    <2>2. CASE ~(i < k)
      <3>1. (front \o rest)[i] = rest[i - (k - 1)] /\ i - (k - 1) \in 1 .. Len(q) - k
        BY <1>1, <1>2, <1>3, <2>2
      <3>2. rest[i - (k - 1)] = q[i - (k - 1) + k] /\ i - (k - 1) + k = i + 1
        BY <1>1, <1>3, <3>1
      <3> QED
        BY <2>2, <3>1, <3>2
    <2> QED
      BY <2>1, <2>2
  <1> QED
    BY <1>4, <1>5, <1>6

\* If its elements were all different, they still are, and one is missing.
LEMMA WithoutIs ==
    ASSUME NEW S, NEW q \in Seq(S), NEW t \in Seq(S), NEW k \in 1 .. Len(q),
           IsInjective(q), Len(t) = Len(q) - 1,
           \A i \in 1 .. Len(q) - 1 : /\ i < k => t[i] = q[i]
                                      /\ ~(i < k) => t[i] = q[i + 1]
    PROVE  IsInjective(t) /\ ToSet(t) = ToSet(q) \ {q[k]}
  <1>1. Len(q) \in Nat /\ DOMAIN q = 1 .. Len(q) /\ DOMAIN t = 1 .. Len(q) - 1
    OBVIOUS
  <1>2. \A i, j \in 1 .. Len(q) : q[i] = q[j] => i = j
    BY <1>1 DEF IsInjective
  <1> DEFINE from(i) == IF i < k THEN i ELSE i + 1
  <1>3. \A i \in 1 .. Len(q) - 1 : /\ from(i) \in 1 .. Len(q) /\ from(i) # k
                                   /\ t[i] = q[from(i)]
    <2> SUFFICES ASSUME NEW i \in 1 .. Len(q) - 1
                 PROVE  from(i) \in 1 .. Len(q) /\ from(i) # k /\ t[i] = q[from(i)]
      OBVIOUS
    <2>1. CASE i < k
      BY <1>1, <2>1
    <2>2. CASE ~(i < k)
      BY <1>1, <2>2
    <2> QED
      BY <2>1, <2>2
  <1>4. \A i, j \in 1 .. Len(q) - 1 : from(i) = from(j) => i = j
    BY <1>1
  <1>5. IsInjective(t)
    <2> SUFFICES ASSUME NEW i \in 1 .. Len(q) - 1, NEW j \in 1 .. Len(q) - 1, t[i] = t[j]
                 PROVE  i = j
      BY <1>1 DEF IsInjective
    <2>1. q[from(i)] = q[from(j)] /\ from(i) \in 1 .. Len(q) /\ from(j) \in 1 .. Len(q)
      BY <1>3
    <2>2. from(i) = from(j)
      BY <1>2, <2>1
    <2> QED
      BY <1>4, <2>2
  <1>6. ASSUME NEW x \in ToSet(t) PROVE x \in ToSet(q) \ {q[k]}
    <2>1. PICK i \in 1 .. Len(q) - 1 : x = t[i]
      BY <1>1 DEF ToSet
    <2>2. x = q[from(i)] /\ from(i) \in 1 .. Len(q) /\ from(i) # k
      BY <1>3, <2>1
    <2> HIDE DEF from
    <2> QED
      BY <1>1, <1>2, <2>2 DEF ToSet
  <1>7. ASSUME NEW x \in ToSet(q) \ {q[k]} PROVE x \in ToSet(t)
    <2>1. PICK j \in 1 .. Len(q) : x = q[j]
      BY <1>1 DEF ToSet
    <2>2. j # k
      BY <1>7, <2>1
    <2> DEFINE i == IF j < k THEN j ELSE j - 1
    <2>3. i \in 1 .. Len(q) - 1 /\ from(i) = j
      BY <1>1, <2>2
    <2>4. t[i] = x
      BY <1>3, <2>1, <2>3
    <2> HIDE DEF i
    <2> QED
      BY <1>1, <2>3, <2>4 DEF ToSet
  <1> QED
    BY <1>5, <1>6, <1>7

\* A sequence of different elements without its first, and with one more.
LEMMA TailIs ==
    ASSUME NEW S, NEW q \in Seq(S), q # <<>>
    PROVE  /\ Tail(q) \in Seq(S) /\ Len(Tail(q)) = Len(q) - 1 /\ Head(q) \in ToSet(q)
           /\ ToSet(Tail(q)) \subseteq ToSet(q)
           /\ IsInjective(q) => IsInjective(Tail(q)) /\ ToSet(Tail(q)) = ToSet(q) \ {Head(q)}
  <1>1. /\ Len(q) \in Nat \ {0} /\ Tail(q) \in Seq(S) /\ Len(Tail(q)) = Len(q) - 1
        /\ \A i \in 1 .. Len(q) - 1 : Tail(q)[i] = q[i + 1]
        /\ DOMAIN q = 1 .. Len(q) /\ Head(q) = q[1]
    OBVIOUS
  <1>2. PICK t \in Seq(S) : t = Tail(q)
    BY <1>1
  <1>3. DOMAIN t = 1 .. Len(q) - 1
    BY <1>1, <1>2
  <1>4. ToSet(t) \subseteq ToSet(q)
    <2> SUFFICES ASSUME NEW i \in 1 .. Len(q) - 1 PROVE t[i] \in ToSet(q)
      BY <1>3 DEF ToSet
    <2>1. i + 1 \in 1 .. Len(q) /\ t[i] = q[i + 1]
      BY <1>1, <1>2
    <2> QED
      BY <1>1, <2>1 DEF ToSet
  <1>5. ASSUME IsInjective(q) PROVE IsInjective(t) /\ ToSet(t) = ToSet(q) \ {q[1]}
    <2>1. PICK k \in 1 .. Len(q) : k = 1
      BY <1>1
    <2>2. \A i \in 1 .. Len(q) - 1 : /\ i < k => t[i] = q[i]
                                     /\ ~(i < k) => t[i] = q[i + 1]
      BY <1>1, <1>2, <2>1
    <2>3. Len(t) = Len(q) - 1
      BY <1>1, <1>2
    <2>4. IsInjective(t) /\ ToSet(t) = ToSet(q) \ {q[k]}
      BY ZenonT(60), <1>5, <2>2, <2>3, WithoutIs
    <2> QED
      BY <2>1, <2>4
  <1>6. q[1] \in ToSet(q)
    BY <1>1 DEF ToSet
  <1> QED
    BY <1>1, <1>2, <1>4, <1>5, <1>6

LEMMA AppendIs ==
    ASSUME NEW S, NEW q \in Seq(S), NEW x \in S
    PROVE  /\ Append(q, x) \in Seq(S) /\ Len(Append(q, x)) = Len(q) + 1
           /\ ToSet(Append(q, x)) = ToSet(q) \cup {x}
           /\ IsInjective(q) /\ x \notin ToSet(q) => IsInjective(Append(q, x))
  <1>1. /\ Len(q) \in Nat /\ Append(q, x) \in Seq(S) /\ Len(Append(q, x)) = Len(q) + 1
        /\ \A i \in 1 .. Len(q) : Append(q, x)[i] = q[i]
        /\ Append(q, x)[Len(q) + 1] = x
        /\ DOMAIN q = 1 .. Len(q) /\ DOMAIN Append(q, x) = 1 .. Len(q) + 1
    OBVIOUS
  <1>2. PICK t \in Seq(S) : t = Append(q, x)
    BY <1>1
  <1>3. \A i \in 1 .. Len(q) + 1 : i \in 1 .. Len(q) \/ i = Len(q) + 1
    BY <1>1
  <1>4. ToSet(t) = ToSet(q) \cup {x}
    <2>1. \A i \in 1 .. Len(q) + 1 : t[i] \in ToSet(q) \cup {x}
      BY <1>1, <1>2, <1>3 DEF ToSet
    <2>2. \A i \in 1 .. Len(q) : q[i] \in ToSet(t)
      BY <1>1, <1>2 DEF ToSet
    <2>3. x \in ToSet(t)
      BY <1>1, <1>2 DEF ToSet
    <2> QED
      BY <1>1, <1>2, <2>1, <2>2, <2>3 DEF ToSet
  <1>5. ASSUME IsInjective(q), x \notin ToSet(q) PROVE IsInjective(t)
    <2> SUFFICES ASSUME NEW i \in 1 .. Len(q) + 1, NEW j \in 1 .. Len(q) + 1, t[i] = t[j]
                 PROVE  i = j
      BY <1>1, <1>2 DEF IsInjective
    <2>1. \A k \in 1 .. Len(q) : t[k] # x
      BY <1>1, <1>2, <1>5 DEF ToSet
    <2>2. CASE i \in 1 .. Len(q) /\ j \in 1 .. Len(q)
      BY <1>1, <1>2, <1>5, <2>2 DEF IsInjective
    <2> QED
      BY <1>1, <1>2, <1>3, <2>1, <2>2
  <1> QED
    BY <1>1, <1>2, <1>4, <1>5

\* A reply is removed from the queue once, if it is there, for an equal one.
LEMMA RemovedIs ==
    ASSUME CommitTypes, NEW n \in Turns
    PROVE  /\ Removed(n) \in Seq(Turns) /\ Len(Removed(n)) <= Len(queue)
           /\ ToSet(Removed(n)) \subseteq ToSet(queue)
           /\ IsInjective(queue) =>
                /\ IsInjective(Removed(n))
                /\ \/ /\ Removed(n) = queue
                      /\ \A m \in ToSet(queue) : ~SameReply(m, n)
                   \/ \E m \in ToSet(queue) :
                        SameReply(m, n) /\ ToSet(Removed(n)) = ToSet(queue) \ {m}
  <1> DEFINE equal == {i \in 1 .. Len(queue) : SameReply(queue[i], n)}
  <1> DEFINE k == CHOOSE i \in equal : \A j \in equal : i <= j
  <1>1. queue \in Seq(Turns) /\ Len(queue) \in Nat /\ DOMAIN queue = 1 .. Len(queue)
    BY DEF CommitTypes
  <1>2. CASE equal = {}
    <2>1. Removed(n) = queue /\ \A m \in ToSet(queue) : ~SameReply(m, n)
      BY <1>1, <1>2 DEF Removed, ToSet
    <2> QED
      BY <1>1, <2>1
  <1>3. CASE equal # {}
    <2>1. k \in equal
      <3>1. equal \in SUBSET Nat
        BY <1>1
      <3>2. \E i \in equal : \A j \in equal : i <= j
        BY <1>3, <3>1, LeastOf
      <3> QED
        BY <3>2
    <2>2. k \in 1 .. Len(queue) /\ SameReply(queue[k], n) /\ queue[k] \in ToSet(queue)
      BY <1>1, <2>1 DEF ToSet
    <2>3. Removed(n) = RemoveAt(queue, k)
      BY <1>3 DEF Removed
    <2> HIDE DEF k, equal
    <2>4. PICK t \in Seq(Turns) :
            /\ t = Removed(n) /\ Len(t) = Len(queue) - 1
            /\ \A i \in 1 .. Len(queue) - 1 : /\ i < k => t[i] = queue[i]
                                              /\ ~(i < k) => t[i] = queue[i + 1]
      BY ZenonT(60), <1>1, <2>2, <2>3, RemoveAtIs
    <2>5. ToSet(t) \subseteq ToSet(queue)
      <3> SUFFICES ASSUME NEW i \in 1 .. Len(queue) - 1 PROVE t[i] \in ToSet(queue)
        BY <1>1, <2>4 DEF ToSet
      <3>1. i \in 1 .. Len(queue) /\ i + 1 \in 1 .. Len(queue)
        BY <1>1
      <3> QED
        BY <1>1, <2>4, <3>1 DEF ToSet
    <2>6. IsInjective(queue) => IsInjective(t) /\ ToSet(t) = ToSet(queue) \ {queue[k]}
      <3>1. queue \in Seq(Turns) /\ k \in 1 .. Len(queue) /\ t \in Seq(Turns)
        BY <1>1, <2>2
      <3>2. /\ Len(t) = Len(queue) - 1
            /\ \A i \in 1 .. Len(queue) - 1 : /\ i < k => t[i] = queue[i]
                                              /\ ~(i < k) => t[i] = queue[i + 1]
        BY <2>4
      <3> QED
        BY ZenonT(60), <3>1, <3>2, WithoutIs
    <2> QED
      BY <1>1, <2>2, <2>4, <2>5, <2>6
  <1> QED
    BY <1>2, <1>3

\* A reply is appended to the queue; if that is full, its oldest entry is dropped.
LEMMA EnqueuedIs ==
    ASSUME CommitTypes, NEW n \in Turns
    PROVE  /\ Enqueued(n) \in Seq(Turns)
           /\ ToSet(Enqueued(n)) \subseteq ToSet(queue) \cup {n}
           /\ Len(queue) <= QueueMax => Len(Enqueued(n)) <= QueueMax
           /\ Overflow = {} \/ \E m \in ToSet(queue) : Overflow = {m}
           /\ IsInjective(queue) /\ n \notin ToSet(queue) =>
                /\ IsInjective(Enqueued(n))
                /\ ToSet(Enqueued(n)) = (ToSet(queue) \ Overflow) \cup {n}
  <1>1. queue \in Seq(Turns) /\ Len(queue) \in Nat /\ QueueMax \in Nat \ {0}
    BY CommitBoundsAssumption DEF CommitTypes
  <1>2. CASE Len(queue) < QueueMax
    <2>1. Enqueued(n) = Append(queue, n) /\ Overflow = {}
      BY <1>2 DEF Enqueued, Overflow
    <2>2. PICK t : t = Append(queue, n)
      OBVIOUS
    <2>3. /\ t \in Seq(Turns) /\ Len(t) = Len(queue) + 1 /\ ToSet(t) = ToSet(queue) \cup {n}
          /\ IsInjective(queue) /\ n \notin ToSet(queue) => IsInjective(t)
      BY <1>1, <2>2, AppendIs
    <2> QED
      BY <1>1, <1>2, <2>1, <2>2, <2>3
  <1>3. CASE ~(Len(queue) < QueueMax)
    <2>1. queue # <<>>
      BY <1>1, <1>3
    <2>2. PICK rest \in Seq(Turns) :
            /\ rest = Tail(queue) /\ Len(rest) = Len(queue) - 1
            /\ ToSet(rest) \subseteq ToSet(queue) /\ Head(queue) \in ToSet(queue)
            /\ IsInjective(queue) =>
                    IsInjective(rest) /\ ToSet(rest) = ToSet(queue) \ {Head(queue)}
      BY <1>1, <2>1, TailIs
    <2>3. Enqueued(n) = Append(rest, n) /\ Overflow = {Head(queue)}
      BY <1>3, <2>2 DEF Enqueued, Overflow
    <2>4. PICK t : t = Append(rest, n)
      OBVIOUS
    <2>5. /\ t \in Seq(Turns) /\ Len(t) = Len(rest) + 1 /\ ToSet(t) = ToSet(rest) \cup {n}
          /\ IsInjective(rest) /\ n \notin ToSet(rest) => IsInjective(t)
      <3>1. rest \in Seq(Turns)
        BY <2>2
      <3> QED
        BY <3>1, <2>4, AppendIs
    <2>6. Len(queue) <= QueueMax => Len(t) <= QueueMax
      BY <1>1, <2>2, <2>5
    <2> QED
      BY <2>2, <2>3, <2>4, <2>5, <2>6
  <1> QED
    BY <1>2, <1>3

-----------------------------------------------------------------------------
(* Calls.                                                                  *)

\* A commit is of the turn it was called for, and what it ingests is the last
\* user text of that turn's speaker.
LEMMA CommitIs ==
    ASSUME CommitTypes, LastInv, NEW n \in Turns, Spoken(n),
           NEW request \in {Commit(n), Ingest(n)}
    PROVE  /\ request \in Calls /\ request.turn = n /\ request.for = "commit"
           /\ request.step = "ingest" => Past(request.text) /\ who[request.text] = who[n]
  <1>1. last[who[n]] \in 0 .. MaxTurns
    BY DEF Spoken, CommitTypes
  <1>2. last[who[n]] # 0 => Past(last[who[n]]) /\ who[last[who[n]]] = who[n]
    BY DEF Spoken, LastInv
  <1> QED
    BY <1>1, <1>2, CommitBoundsAssumption DEF Commit, Ingest, Calls

\* The conversation's clients and its calls, told apart.
LEMMA CallsAre ==
    /\ "turn" \in Clients /\ "loop" \in Clients
    /\ NoCall \notin Calls /\ NoCall.step = "none" /\ NoCall.for = "none"
    /\ \A r \in Calls : r # NoCall /\ r.turn \in Turns /\ r.for # "none"
                     /\ r.step \in {"construct", "ingest", "failed"}
                     /\ r.for \in {"retrieve", "commit", "fact"}
  BY DEF Clients, NoCall, Calls

LEMMA MixStarts == Init => MixInv
  BY CommitBoundsAssumption
     DEF Init, MixInv, CommitTypes, LastInv, QueuedInv, CallInv, PhaseInv, Phases, Clients,
         NoCall

-----------------------------------------------------------------------------
(* The steps.                                                              *)

Unsettled == {"flush", "listen"}

\* A turn that is understood stays so while nobody else is heard.
LEMMA StaysSpoken ==
    ASSUME UNCHANGED <<turn, who>>, phase' \in Unsettled => phase \in Unsettled, NEW n
    PROVE  /\ Past(n) => Past(n)'
           /\ Spoken(n) => Spoken(n)'
  BY DEF Past, Spoken, Turns, Unsettled

\* A step of the current turn that leaves calls and queue alone.
LEMMA TurnGoesOn ==
    ASSUME MixInv, UNCHANGED <<turn, who, last, queue, loop, snap, call>>,
           phase' \in Phases \ Unsettled, phase' # "idle" => Spoken(turn),
           phase # "retrieve" \/ phase' = "retrieve"
    PROVE  MixInv'
  <1>1. \A n : (Past(n) => Past(n)') /\ (Spoken(n) => Spoken(n)')
    BY StaysSpoken
  <1>2. CommitTypes'
    BY DEF MixInv, CommitTypes
  <1>3. LastInv'
    BY <1>1 DEF MixInv, LastInv
  <1>4. QueuedInv'
    BY <1>1 DEF MixInv, QueuedInv
  <1>5. CallInv'
    BY <1>1 DEF MixInv, CallInv
  <1>6. PhaseInv'
    BY <1>1 DEF MixInv, PhaseInv, Unsettled, Phases, CommitTypes, Spoken, Past, Turns
  <1> QED
    BY <1>2, <1>3, <1>4, <1>5, <1>6 DEF MixInv

\* A client begins to commit the reply of a turn that has been understood.
LEMMA CommitBegins ==
    ASSUME MixInv, NEW c \in Clients, NEW n \in Turns, Spoken(n), BeginCommit(c, n)
    PROVE  /\ call' \in [Clients -> Calls \cup {NoCall}]
           /\ call'[c].turn = n /\ call'[c].for = "commit" /\ call'[c] # NoCall
           /\ call'[c].step = "ingest" =>
                Past(call'[c].text) /\ who[call'[c].text] = who[n]
           /\ \A d \in Clients \ {c} : call'[d] = call[d]
  <1>1. call' = [call EXCEPT ![c] = Commit(n)] /\ call \in [Clients -> Calls \cup {NoCall}]
    BY DEF BeginCommit, MixInv, CommitTypes
  <1>2. /\ Commit(n) \in Calls /\ Commit(n).turn = n /\ Commit(n).for = "commit"
        /\ Commit(n).step = "ingest" => Past(Commit(n).text) /\ who[Commit(n).text] = who[n]
    BY CommitIs DEF MixInv
  <1>3. Commit(n) # NoCall
    BY <1>2, CallsAre
  <1> QED
    BY <1>1, <1>2, <1>3

\* The current turn begins to commit its reply.
LEMMA TurnCommits ==
    ASSUME MixInv, phase \in {"stream", "pause"}, phase' = "commit", BeginCommit("turn", turn),
           UNCHANGED <<turn, who, last, queue, loop, snap>>
    PROVE  MixInv'
  <1>1. \A n : (Past(n) => Past(n)') /\ (Spoken(n) => Spoken(n)')
    BY StaysSpoken DEF Unsettled
  <1>2. Spoken(turn) /\ turn \in Turns
    BY DEF MixInv, PhaseInv, Spoken, Past
  <1>3. /\ call' \in [Clients -> Calls \cup {NoCall}]
        /\ call'["turn"].turn = turn /\ call'["turn"].for = "commit"
        /\ call'["turn"].step = "ingest" =>
              Past(call'["turn"].text) /\ who[call'["turn"].text] = who[turn]
        /\ call'["loop"] = call["loop"]
    BY <1>2, CommitBegins DEF Clients
  <1>4. CommitTypes'
    BY <1>3 DEF MixInv, CommitTypes, Phases
  <1>5. LastInv' /\ QueuedInv'
    BY <1>1 DEF MixInv, LastInv, QueuedInv
  <1>6. CallInv'
    BY <1>1, <1>2, <1>3 DEF MixInv, CallInv, Clients
  <1>7. PhaseInv'
    BY <1>1, <1>2, <1>3 DEF MixInv, PhaseInv
  <1> QED
    BY <1>4, <1>5, <1>6, <1>7 DEF MixInv

\* A commit has ended, of the reply of the turn or of one from the queue.
LEMMA AfterCommitKeeps ==
    ASSUME MixInv, NEW c \in Clients, NEW ok \in BOOLEAN, call[c] # NoCall,
           AfterCommit(c, ok), UNCHANGED <<turn, who, last>>
    PROVE  MixInv'
  <1>1. CASE c = "turn" /\ AfterInline(ok)
    <2>1. /\ phase = "commit" /\ phase' \in {"pause", "idle", "fact"} /\ snap' = snap
          /\ \/ call' = [call EXCEPT !["turn"] = NoCall]
             \/ call' = [call EXCEPT !["turn"] = Construct("fact")]
          /\ queue' = queue \/ queue' = Enqueued(turn)
          /\ loop' = loop \/ (loop = "none" /\ loop' = "sleep")
      BY <1>1 DEF AfterInline, TurnSettles, Schedule
    <2>2. Spoken(turn) /\ turn \in Turns
      BY <2>1 DEF MixInv, PhaseInv, Spoken, Past
    <2>3. \A n : (Past(n) => Past(n)') /\ (Spoken(n) => Spoken(n)')
      BY <2>1, StaysSpoken DEF Unsettled
    <2>4. PICK r \in Calls \cup {NoCall} :
            /\ call' = [call EXCEPT !["turn"] = r]
            /\ r # NoCall => r.turn = turn /\ r.for = "fact" /\ r.step = "construct"
      <3>1. /\ Construct("fact") \in Calls /\ Construct("fact").turn = turn
            /\ Construct("fact").for = "fact" /\ Construct("fact").step = "construct"
        BY <2>2, CommitBoundsAssumption DEF Construct, Calls
      <3> QED
        BY <2>1, <3>1
    <2>5. /\ queue' \in Seq(Turns)
          /\ \A i \in 1 .. Len(queue') : Spoken(queue'[i])
      <3>1. CASE queue' = queue
        BY <3>1 DEF MixInv, CommitTypes, QueuedInv
      <3>2. CASE queue' = Enqueued(turn)
        <4>1. \A m \in ToSet(queue) : Spoken(m)
          BY MembersAre DEF MixInv, CommitTypes, QueuedInv
        <4>2. queue' \in Seq(Turns) /\ ToSet(queue') \subseteq ToSet(queue) \cup {turn}
          BY <2>2, <3>2, EnqueuedIs DEF MixInv
        <4>3. \A i \in 1 .. Len(queue') : queue'[i] \in ToSet(queue')
          BY <4>2, MembersAre
        <4> QED
          BY <2>2, <4>1, <4>2, <4>3
      <3> QED
        BY <2>1, <3>1, <3>2
    <2>6. CommitTypes'
      BY <2>1, <2>4, <2>5 DEF MixInv, CommitTypes, Phases
    <2>7. LastInv' /\ QueuedInv'
      BY <2>1, <2>3, <2>5 DEF MixInv, LastInv, QueuedInv
    <2>8. CallInv'
      BY <2>2, <2>3, <2>4, CallsAre DEF MixInv, CallInv, CommitTypes
    <2>9. PhaseInv'
      BY <2>1, <2>2, <2>3, <2>4, CallsAre DEF MixInv, PhaseInv, CommitTypes
    <2> QED
      BY <2>6, <2>7, <2>8, <2>9 DEF MixInv
  <1>2. CASE AfterQueued(c, ok)
    <2>1. /\ c = "loop" \/ phase = "flush"
          /\ queue' \in {queue, Removed(call[c].turn)}
          /\ snap' = [snap EXCEPT ![c] = Tail(snap[c])]
      BY <1>2 DEF AfterQueued
    <2>2. snap[c] \in Seq(Turns) /\ snap[c] # <<>>
      <3>1. CASE c = "turn"
        BY <2>1, <3>1 DEF MixInv, PhaseInv, CommitTypes, Clients
      <3>2. CASE c = "loop"
        BY <3>2 DEF MixInv, PhaseInv, CommitTypes, Clients
      <3> QED
        BY <3>1, <3>2 DEF Clients
    <2>3. phase' \in Unsettled => phase \in Unsettled
      BY <1>2 DEF AfterQueued, Unsettled
    <2>4. \A n : (Past(n) => Past(n)') /\ (Spoken(n) => Spoken(n)')
      BY <2>3, StaysSpoken
    <2>5. PICK rest \in Seq(Turns) : /\ rest = Tail(snap[c])
                                    /\ \A i \in 1 .. Len(rest) : Spoken(rest[i])
      <3>1. /\ Tail(snap[c]) \in Seq(Turns) /\ Len(Tail(snap[c])) = Len(snap[c]) - 1
            /\ \A i \in 1 .. Len(snap[c]) - 1 : Tail(snap[c])[i] = snap[c][i + 1]
        BY <2>2
      <3>2. Len(snap[c]) \in Nat /\ \A i \in 1 .. Len(snap[c]) : Spoken(snap[c][i])
        BY <2>2 DEF MixInv, QueuedInv
      <3>3. \A i \in 1 .. Len(Tail(snap[c])) : Spoken(Tail(snap[c])[i])
        <4> SUFFICES ASSUME NEW i \in 1 .. Len(Tail(snap[c])) PROVE Spoken(Tail(snap[c])[i])
          OBVIOUS
        <4>1. i \in 1 .. Len(snap[c]) - 1 /\ i + 1 \in 1 .. Len(snap[c])
          BY <3>1, <3>2
        <4>2. Tail(snap[c])[i] = snap[c][i + 1]
          BY <3>1, <4>1
        <4> QED
          BY <3>2, <4>1, <4>2
      <3> QED
        BY <3>1, <3>3
    <2>6. /\ queue' \in Seq(Turns)
          /\ \A i \in 1 .. Len(queue') : Spoken(queue'[i])
      <3>1. call[c].turn \in Turns
        BY CallsAre DEF MixInv, CommitTypes
      <3> QED
        <4>1. \A m \in ToSet(queue) : Spoken(m)
          BY MembersAre DEF MixInv, CommitTypes, QueuedInv
        <4>2. queue' \in Seq(Turns) /\ ToSet(queue') \subseteq ToSet(queue)
          BY <2>1, <3>1, RemovedIs DEF MixInv, CommitTypes
        <4>3. \A i \in 1 .. Len(queue') : queue'[i] \in ToSet(queue')
          BY <4>2, MembersAre
        <4> QED
          BY <4>1, <4>2, <4>3
    <2>7. /\ snap' \in [Clients -> Seq(Turns)] /\ snap'[c] = rest
          /\ \A d \in Clients \ {c} : snap'[d] = snap[d]
      BY <2>1, <2>5 DEF MixInv, CommitTypes
    <2>8. LastInv' /\ QueuedInv'
      BY <2>4, <2>5, <2>6, <2>7 DEF MixInv, LastInv, QueuedInv
    <2>9. CASE snap'[c] # <<>>
      <3>1. /\ BeginCommit(c, Head(snap'[c])) /\ UNCHANGED <<phase, loop>>
        BY <1>2, <2>9 DEF AfterQueued
      <3>2. Head(snap'[c]) \in Turns /\ Spoken(Head(snap'[c]))
        <4>1. rest # <<>>
          BY <2>7, <2>9
        <4>2. Head(rest) = rest[1] /\ 1 \in 1 .. Len(rest) /\ rest[1] \in Turns
          BY <4>1
        <4> QED
          BY <2>5, <2>7, <4>2
      <3>3. /\ call' \in [Clients -> Calls \cup {NoCall}]
            /\ call'[c].turn = Head(snap'[c]) /\ call'[c].for = "commit" /\ call'[c] # NoCall
            /\ call'[c].step = "ingest" =>
                  Past(call'[c].text) /\ who[call'[c].text] = who[Head(snap'[c])]
            /\ \A d \in Clients \ {c} : call'[d] = call[d]
        BY <3>1, <3>2, CommitBegins
      <3>4. CommitTypes'
        BY <2>6, <2>7, <3>1, <3>3 DEF MixInv, CommitTypes
      <3>5. CallInv'
        BY <2>4, <3>2, <3>3 DEF MixInv, CallInv
      <3>6. PhaseInv'
        BY <2>4, <2>7, <2>9, <3>1, <3>3 DEF MixInv, PhaseInv, Clients
      <3> QED
        BY <2>8, <3>4, <3>5, <3>6 DEF MixInv
    <2>10. CASE snap'[c] = <<>>
      <3>1. /\ call' = [call EXCEPT ![c] = NoCall]
            /\ \/ c = "loop" /\ loop' \in {"none", "sleep"} /\ phase' = phase
               \/ c = "turn" /\ loop' = loop /\ phase' = "listen"
        BY <1>2, <2>10 DEF AfterQueued, LoopEnds, Clients
      <3>2. CommitTypes'
        BY <2>6, <2>7, <3>1 DEF MixInv, CommitTypes, Phases
      <3>3. CallInv'
        BY <2>4, <3>1, CallsAre DEF MixInv, CallInv, CommitTypes
      <3>4. PhaseInv'
        BY <2>1, <2>4, <2>7, <3>1, CallsAre DEF MixInv, PhaseInv, CommitTypes, Clients
      <3> QED
        BY <2>8, <3>2, <3>3, <3>4 DEF MixInv
    <2> QED
      BY <2>9, <2>10
  <1> QED
    BY <1>1, <1>2 DEF AfterCommit

LEMMA MixSteps == MixInv /\ [Next]_vars => MixInv'
  <1> SUFFICES ASSUME MixInv, [Next]_vars PROVE MixInv'
    OBVIOUS
  <1>1. CASE UNCHANGED vars
    BY <1>1 DEF vars, MixInv, CommitTypes, LastInv, QueuedInv, CallInv, PhaseInv, Past, Spoken
  <1>2. CASE Hear
    <2>1. /\ phase = "idle" /\ turn < MaxTurns /\ turn' = turn + 1
          /\ UNCHANGED <<who, last, queue, loop>>
      BY <1>2 DEF Hear
    <2>2. turn \in Nat /\ turn' \in Turns /\ turn' \in 0 .. MaxTurns
      BY <2>1, CommitBoundsAssumption DEF MixInv, CommitTypes, Turns
    <2>3. ASSUME NEW n PROVE (Past(n) => Past(n)') /\ (Spoken(n) => Spoken(n)')
      BY <2>1, <2>2 DEF Past, Spoken, Turns
    <2>4. LastInv'
      BY <2>1, <2>3 DEF MixInv, LastInv
    <2>5. CASE queue = <<>>
      <3>1. phase' = "listen" /\ UNCHANGED <<snap, call>>
        BY <1>2, <2>5 DEF Hear
      <3>2. CommitTypes'
        BY <2>1, <2>2, <3>1 DEF MixInv, CommitTypes, Phases
      <3>3. QueuedInv' /\ CallInv'
        BY <2>1, <2>3, <3>1 DEF MixInv, QueuedInv, CallInv
      <3>4. PhaseInv'
        BY <2>1, <2>2, <3>1 DEF MixInv, PhaseInv, Turns
      <3> QED
        BY <2>4, <3>2, <3>3, <3>4 DEF MixInv
    <2>6. CASE queue # <<>>
      <3>1. /\ phase' = "flush" /\ snap' = [snap EXCEPT !["turn"] = queue]
            /\ BeginCommit("turn", Head(queue))
        BY <1>2, <2>6 DEF Hear
      <3>2. queue \in Seq(Turns) /\ Len(queue) \in Nat \ {0} /\ Head(queue) = queue[1]
        BY <2>6 DEF MixInv, CommitTypes
      <3>3. Head(queue) \in Turns /\ Spoken(Head(queue))
        BY <3>2 DEF MixInv, QueuedInv
      <3>4. /\ call' \in [Clients -> Calls \cup {NoCall}]
            /\ call'["turn"].turn = Head(queue) /\ call'["turn"].for = "commit"
            /\ call'["turn"].step = "ingest" =>
                  Past(call'["turn"].text) /\ who[call'["turn"].text] = who[Head(queue)]
            /\ call'["loop"] = call["loop"]
        BY <3>1, <3>3, CommitBegins DEF Clients
      <3>5. CommitTypes'
        BY <2>1, <2>2, <3>1, <3>2, <3>4 DEF MixInv, CommitTypes, Phases
      <3>6. QueuedInv'
        BY <2>1, <2>3, <3>1 DEF MixInv, QueuedInv, CommitTypes, Clients
      <3>7. CallInv'
        BY <2>1, <2>3, <3>3, <3>4 DEF MixInv, CallInv, Clients
      <3>8. PhaseInv'
        BY <2>1, <2>2, <3>1, <3>2, <3>4 DEF MixInv, PhaseInv, CommitTypes, Turns, Clients
      <3> QED
        BY <2>4, <3>5, <3>6, <3>7, <3>8 DEF MixInv
    <2> QED
      BY <2>5, <2>6
  <1>3. CASE NotUnderstood
    BY <1>3, TurnGoesOn DEF NotUnderstood, turnVars, bridgeVars, Phases, Unsettled
  <1>4. ASSUME NEW s \in Speakers, Identify(s) PROVE MixInv'
    <2>1. /\ phase = "listen" /\ phase' = "known" /\ who' = [who EXCEPT ![turn] = s]
          /\ UNCHANGED <<turn, last, queue, loop, snap, call>>
      BY <1>4 DEF Identify, bridgeVars
    <2>2. turn \in Turns
      BY <2>1, CommitBoundsAssumption DEF MixInv, CommitTypes, PhaseInv, Turns
    <2>3. ASSUME NEW n PROVE /\ Past(n) => Past(n)' /\ who'[n] = who[n]
                             /\ Spoken(n) => Spoken(n)'
      BY <2>1, <2>2 DEF Past, Spoken, Turns, MixInv, CommitTypes
    <2>4. CommitTypes'
      <3>1. who' \in [Turns -> Speakers \cup {"none"}]
        BY <2>1, <2>2 DEF MixInv, CommitTypes
      <3> QED
        BY <2>1, <3>1 DEF MixInv, CommitTypes, Phases
    <2>5. LastInv'
      BY <2>1, <2>3 DEF MixInv, LastInv
    <2>6. QueuedInv'
      BY <2>1, <2>3 DEF MixInv, QueuedInv
    <2>7. CallInv'
      <3>1. \A d \in Clients : call[d] # NoCall => Past(call[d].turn)
        BY DEF MixInv, CallInv, Spoken
      <3>2. \A d \in Clients : call[d].step = "ingest" => call[d] # NoCall
        BY CallsAre
      <3> QED
        BY <2>1, <2>3, <3>1, <3>2 DEF MixInv, CallInv
    <2>8. PhaseInv'
      BY <2>1, <2>2 DEF MixInv, PhaseInv, Past, Spoken, CommitTypes, Turns
    <2> QED
      BY <2>4, <2>5, <2>6, <2>7, <2>8 DEF MixInv
  <1>5. CASE Retrieve
    <2> DEFINE s == who[turn]
               asked == Construct("retrieve")
    <2>1. /\ phase = "known" /\ phase' \in {"retrieve", "stream"}
          /\ last' \in {last, [last EXCEPT ![s] = turn]}
          /\ \/ phase' = "retrieve" /\ call' = [call EXCEPT !["turn"] = asked]
             \/ phase' = "stream" /\ call' = call
          /\ UNCHANGED <<turn, who, queue, loop, snap>>
      BY <1>5 DEF Retrieve, turnVars
    <2>2. Spoken(turn) /\ turn \in Turns /\ s \in Speakers /\ turn \in 0 .. MaxTurns
      BY <2>1 DEF MixInv, PhaseInv, CommitTypes, Spoken, Past
    <2>3. \A n : (Past(n) => Past(n)') /\ (Spoken(n) => Spoken(n)')
      BY <2>1, StaysSpoken DEF Unsettled
    <2>4. asked \in Calls /\ asked.turn = turn /\ asked.step = "construct" /\ asked.for = "retrieve"
      BY <2>2, CommitBoundsAssumption DEF Construct, Calls
    <2> HIDE DEF asked
    <2>5. CommitTypes'
      <3>1. last' \in [Speakers -> 0 .. MaxTurns]
        BY <2>1, <2>2 DEF MixInv, CommitTypes
      <3>2. call' \in [Clients -> Calls \cup {NoCall}]
        BY ZenonT(60), <2>1, <2>4 DEF MixInv, CommitTypes
      <3> QED
        BY <2>1, <3>1, <3>2 DEF MixInv, CommitTypes, Phases
    <2>6. LastInv'
      BY <2>1, <2>2, <2>3 DEF MixInv, LastInv, CommitTypes, Spoken
    <2>7. QueuedInv'
      BY <2>1, <2>3 DEF MixInv, QueuedInv
    <2>8. CallInv'
      BY <2>1, <2>2, <2>3, <2>4 DEF MixInv, CallInv, CommitTypes, Clients
    <2>9. PhaseInv'
      BY <2>1, <2>2, <2>3, <2>4 DEF MixInv, PhaseInv, CommitTypes, Clients
    <2> QED
      BY <2>5, <2>6, <2>7, <2>8, <2>9 DEF MixInv
  <1>6. CASE Aborted
    BY <1>6, TurnGoesOn DEF Aborted, turnVars, bridgeVars, Phases, Unsettled
  <1>7. ASSUME NEW r \in Replies, Answer(r) PROVE MixInv'
    BY <1>7, TurnCommits DEF Answer
  <1>8. CASE TryAgain
    BY <1>8, TurnCommits DEF TryAgain
  <1>9. CASE Wake
    <2>1. /\ loop = "sleep"
          /\ UNCHANGED <<phase, turn, who, last, queue>>
      BY <1>9 DEF Wake, turnVars
    <2>2. \A n : (Past(n) => Past(n)') /\ (Spoken(n) => Spoken(n)')
      BY <2>1, StaysSpoken
    <2>3. LastInv'
      BY <2>1, <2>2 DEF MixInv, LastInv
    <2>4. CASE queue = <<>>
      <3>1. loop' = "none" /\ UNCHANGED <<snap, call>>
        BY <1>9, <2>4 DEF Wake
      <3>2. CommitTypes'
        BY <2>1, <3>1 DEF MixInv, CommitTypes
      <3>3. QueuedInv' /\ CallInv'
        BY <2>1, <2>2, <3>1 DEF MixInv, QueuedInv, CallInv
      <3>4. PhaseInv'
        BY <2>1, <2>2, <3>1 DEF MixInv, PhaseInv
      <3> QED
        BY <2>3, <3>2, <3>3, <3>4 DEF MixInv
    <2>5. CASE queue # <<>>
      <3>1. /\ loop' = "retry" /\ snap' = [snap EXCEPT !["loop"] = queue]
            /\ BeginCommit("loop", Head(queue))
        BY <1>9, <2>5 DEF Wake
      <3>2. queue \in Seq(Turns) /\ Len(queue) \in Nat \ {0} /\ Head(queue) = queue[1]
        BY <2>5 DEF MixInv, CommitTypes
      <3>3. Head(queue) \in Turns /\ Spoken(Head(queue))
        BY <3>2 DEF MixInv, QueuedInv
      <3>4. /\ call' \in [Clients -> Calls \cup {NoCall}]
            /\ call'["loop"].turn = Head(queue) /\ call'["loop"].for = "commit"
            /\ call'["loop"].step = "ingest" =>
                  Past(call'["loop"].text) /\ who[call'["loop"].text] = who[Head(queue)]
            /\ call'["turn"] = call["turn"]
        BY <3>1, <3>3, CommitBegins DEF Clients
      <3>5. CommitTypes'
        BY <2>1, <3>1, <3>2, <3>4 DEF MixInv, CommitTypes
      <3>6. QueuedInv'
        BY <2>1, <2>2, <3>1 DEF MixInv, QueuedInv, CommitTypes, Clients
      <3>7. CallInv'
        BY <2>1, <2>2, <3>3, <3>4 DEF MixInv, CallInv, Clients
      <3>8. PhaseInv'
        BY <2>1, <2>2, <2>5, <3>1, <3>4 DEF MixInv, PhaseInv, CommitTypes, Clients
      <3> QED
        BY <2>3, <3>5, <3>6, <3>7, <3>8 DEF MixInv
    <2> QED
      BY <2>4, <2>5
  <1>10. CASE WindowPasses
    BY <1>10 DEF WindowPasses, turnVars, MixInv, CommitTypes, LastInv, QueuedInv, CallInv,
       PhaseInv, Past, Spoken
  <1>11. CASE BackendChanges
    BY <1>11 DEF BackendChanges, turnVars, bridgeVars, MixInv, CommitTypes, LastInv, QueuedInv,
       CallInv, PhaseInv, Past, Spoken
  <1>12. ASSUME NEW c \in Clients, Accepted(c) \/ IngestFailed(c) \/ Rejected(c)
         PROVE  MixInv'
    <2>1. call[c] # NoCall
      <3>1. call[c].step \in {"ingest", "failed"}
        BY <1>12 DEF Accepted, IngestFailed, Rejected
      <3> QED
        BY <3>1, CallsAre
    <2>2. PICK ok \in BOOLEAN : AfterCommit(c, ok)
      BY <1>12 DEF Accepted, IngestFailed, Rejected
    <2>3. UNCHANGED <<turn, who, last>>
      BY <1>12 DEF Accepted, IngestFailed, Rejected, turnVars
    <2> QED
      BY <2>1, <2>2, <2>3, AfterCommitKeeps
  <1>13. ASSUME NEW c \in Clients, Constructed(c) \/ ConstructFailed(c) PROVE MixInv'
    <2> DEFINE n == call[c].turn
    <2>1. /\ call[c].step = "construct" /\ UNCHANGED <<turn, who, queue, loop, snap>>
          /\ \E have \in BOOLEAN : WithFacade(c, have)
      <3>1. CASE Constructed(c)
        BY <3>1 DEF Constructed, turnVars
      <3>2. CASE ConstructFailed(c)
        <4>1. (who[call[c].turn] \in Cached) \in BOOLEAN
          OBVIOUS
        <4>2. WithFacade(c, who[call[c].turn] \in Cached)
          BY <3>2 DEF ConstructFailed
        <4>3. \E have \in BOOLEAN : WithFacade(c, have)
          BY <4>1, <4>2
        <4> QED
          BY <3>2, <4>3 DEF ConstructFailed, turnVars
      <3> QED
        BY <1>13, <3>1, <3>2
    <2>2. /\ call[c] \in Calls /\ call[c] # NoCall
          /\ Spoken(n) /\ who[n] \in Speakers /\ n \in Turns /\ n \in 0 .. MaxTurns
      BY <2>1, CallsAre, CommitBoundsAssumption
         DEF MixInv, CommitTypes, CallInv, Spoken, Turns
    <2>3. CASE /\ call[c].for = "retrieve" /\ phase' = "stream"
               /\ last' \in {last, [last EXCEPT ![who[n]] = n]}
               /\ call' = [call EXCEPT ![c] = NoCall]
      <3>1. c = "turn" /\ phase = "retrieve"
        BY <2>3, <2>2 DEF MixInv, PhaseInv, Clients
      <3>2. \A m : (Past(m) => Past(m)') /\ (Spoken(m) => Spoken(m)')
        BY <2>1, <2>3, StaysSpoken DEF Unsettled
      <3>3. CommitTypes'
        BY <2>1, <2>2, <2>3 DEF MixInv, CommitTypes, Phases
      <3>4. LastInv'
        BY <2>1, <2>2, <2>3, <3>2 DEF MixInv, LastInv, CommitTypes, Spoken
      <3>5. QueuedInv' /\ CallInv'
        BY <2>1, <2>3, <3>2, CallsAre DEF MixInv, QueuedInv, CallInv, CommitTypes
      <3>6. PhaseInv'
        BY <2>1, <2>3, <3>1, <3>2, CallsAre DEF MixInv, PhaseInv, CommitTypes
      <3> QED
        BY <3>3, <3>4, <3>5, <3>6 DEF MixInv
    <2>4. CASE /\ call[c].for = "fact" /\ phase' = "idle" /\ last' = last
               /\ call' = [call EXCEPT ![c] = NoCall]
      <3>1. c = "turn"
        BY <2>4, <2>2 DEF MixInv, PhaseInv, Clients
      <3>2. \A m : (Past(m) => Past(m)') /\ (Spoken(m) => Spoken(m)')
        BY <2>1, <2>4, StaysSpoken DEF Unsettled
      <3>3. CommitTypes'
        BY <2>1, <2>4 DEF MixInv, CommitTypes, Phases
      <3>4. LastInv' /\ QueuedInv' /\ CallInv'
        BY <2>1, <2>4, <3>2, CallsAre DEF MixInv, LastInv, QueuedInv, CallInv, CommitTypes
      <3>5. PhaseInv'
        BY <2>1, <2>4, <3>1, <3>2, CallsAre DEF MixInv, PhaseInv, CommitTypes
      <3> QED
        BY <3>3, <3>4, <3>5 DEF MixInv
    <2>5. CASE /\ call[c].for = "commit" /\ UNCHANGED <<last, phase>>
               /\ \/ call' = [call EXCEPT ![c] = Ingest(n)]
                  \/ call' = [call EXCEPT ![c] = [call[c] EXCEPT !.step = "failed"]]
      <3>1. \A m : (Past(m) => Past(m)') /\ (Spoken(m) => Spoken(m)')
        BY <2>1, <2>5, StaysSpoken
      <3>2. PICK r \in Calls :
              /\ call' = [call EXCEPT ![c] = r] /\ r.turn = n /\ r.for = "commit"
              /\ r.step = "ingest" => Past(r.text) /\ who[r.text] = who[n]
        <4>1. CASE call' = [call EXCEPT ![c] = Ingest(n)]
          BY ZenonT(60), <2>2, <4>1, CommitIs DEF MixInv
        <4>2. CASE call' = [call EXCEPT ![c] = [call[c] EXCEPT !.step = "failed"]]
          <5> DEFINE f == [call[c] EXCEPT !.step = "failed"]
          <5>1. f \in Calls /\ f.turn = n /\ f.for = "commit" /\ f.step = "failed"
            BY <2>2, <2>5 DEF Calls
          <5> HIDE DEF f
          <5> QED
            BY <4>2, <5>1 DEF f
        <4> QED
          BY <2>5, <4>1, <4>2
      <3>3. CommitTypes'
        BY <2>1, <2>5, <3>2 DEF MixInv, CommitTypes
      <3>4. LastInv' /\ QueuedInv'
        BY <2>1, <2>5, <3>1 DEF MixInv, LastInv, QueuedInv
      <3>5. CallInv'
        BY <2>1, <2>2, <2>5, <3>1, <3>2 DEF MixInv, CallInv, CommitTypes
      <3>6. PhaseInv'
        BY <2>1, <2>2, <2>5, <3>1, <3>2, CallsAre DEF MixInv, PhaseInv, CommitTypes
      <3> QED
        BY <3>3, <3>4, <3>5, <3>6 DEF MixInv
    <2> QED
      BY <2>1, <2>3, <2>4, <2>5 DEF WithFacade
  <1>14. ASSUME NEW p \in Speakers \X Replies, Stores(p) PROVE MixInv'
    BY <1>14 DEF Stores, turnVars, bridgeVars, MixInv, CommitTypes, LastInv, QueuedInv, CallInv,
       PhaseInv, Past, Spoken
  <1> QED
    BY <1>1, <1>2, <1>3, <1>4, <1>5, <1>6, <1>7, <1>8, <1>9, <1>10, <1>11, <1>12, <1>13, <1>14
       DEF Next, TurnStep, ThreadReturns

\* What a commit ingests with a reply are words of the reply's speaker, over every
\* interleaving of the turns with the background flush, every failure of the
\* backend and every eviction from the cache (commit_reply, _last_user_text).
THEOREM MemoriesAreTheSpeakers == Spec => []MemoriesDoNotMix
  <1>1. MixInv => MemoriesDoNotMix
    BY DEF MixInv, CallInv, MemoriesDoNotMix
  <1> QED
    BY MixStarts, MixSteps, <1>1, PTL DEF Spec

-----------------------------------------------------------------------------
(***************************************************************************)
(* The books of replies.  A reply is counted with its equals, since the    *)
(* queue is searched by value: for a speaker and a text, how often they    *)
(* were handed over is weighed against how many turns with them are        *)
(* settled, queued, in the snapshot of either flush, and dropped.          *)
(***************************************************************************)

Texts == Speakers \X Replies

\* How many turns of T have the pair p, with the speakers w and replies r.
Count(w, r, T, p) == Cardinality({m \in T : <<w[m], r[m]>> = p})
Counted(T, p) == Count(who, said, T, p)

\* s times handed over, q queued, a and b in the snapshots, n settled, e dropped.
\* A reply in a snapshot may be handed over though the other flush has done so;
\* but then that one has removed an entry and lost its own claim to it.
Balance(s, q, a, b, n, e) ==
    /\ n <= s + q + e
    /\ s + 2 * q <= 2 * n /\ s + a + q <= 2 * n /\ s + b + q <= 2 * n /\ s + a + b <= 2 * n

Balanced ==
    \A p \in Texts :
        Balance(handed[p], Counted(ToSet(queue), p), Counted(ToSet(snap["turn"]), p),
                Counted(ToSet(snap["loop"]), p), Counted(Settled, p), Counted(evicted, p))

\* Queue and snapshots hold settled turns, each once.
Entries ==
    /\ IsInjective(queue) /\ ToSet(queue) \subseteq Settled \ evicted
    /\ evicted \subseteq Settled
    /\ \A c \in Clients : IsInjective(snap[c]) /\ ToSet(snap[c]) \subseteq Settled

\* A turn has said something once it commits, and then for good.
Sayings ==
    /\ \A n \in Turns : said[n] # "none" => n <= turn /\ Pair(n) \in Texts
    /\ turn # 0 => (said[turn] # "none" => phase \in {"commit", "pause", "fact", "idle"})
    /\ phase \in {"commit", "pause"} => said[turn] # "none"

\* What a client commits is the turn's reply or the first of its snapshot.
Committing ==
    /\ phase = "flush" => call["turn"].turn = Head(snap["turn"])
    /\ phase # "flush" => snap["turn"] = <<>>
    /\ phase = "commit" => call["turn"].turn = turn
    /\ call["turn"].for = "commit" => phase \in {"flush", "commit"}
    /\ call["turn"].for = "fact" => phase = "fact"
    /\ loop = "retry" => call["loop"].turn = Head(snap["loop"])
    /\ loop # "retry" => snap["loop"] = <<>>

\* The types that MixInv does not have.
BookTypes ==
    /\ up \in BOOLEAN /\ attempt \in 0 .. 2 /\ round \in 0 .. Rounds
    /\ said \in [Turns -> Replies \cup {"none"}]
    /\ Len(queue) <= QueueMax
    /\ lru \in Seq(Speakers) /\ IsInjective(lru) /\ Len(lru) <= CacheMax
    /\ fails \in 0 .. MaxFails /\ paused \in BOOLEAN
    /\ {handed, storing} \subseteq [Texts -> Nat] /\ stored \subseteq Texts
    /\ evicted \subseteq Turns

ShapeInv == BookTypes /\ Sayings /\ Committing
BooksInv == MixInv /\ ShapeInv /\ Entries /\ Balanced

-----------------------------------------------------------------------------
(* The cache of facades.                                                   *)

LEMMA RenewedIs ==
    ASSUME BookTypes, NEW s \in Speakers
    PROVE  /\ Renewed(s) \in Seq(Speakers) /\ IsInjective(Renewed(s))
           /\ s \in Cached => Len(Renewed(s)) = Len(lru)
  <1>1. lru \in Seq(Speakers) /\ IsInjective(lru) /\ Len(lru) \in Nat
    BY DEF BookTypes
  <1>2. CASE s \notin Cached
    <2>1. Renewed(s) = Append(lru, s) /\ s \notin ToSet(lru)
      BY <1>2 DEF Renewed, Cached
    <2> QED
      BY <1>1, <1>2, <2>1, AppendIs
  <1>3. CASE s \in Cached
    <2> DEFINE k == CHOOSE i \in 1 .. Len(lru) : lru[i] = s
    <2>1. k \in 1 .. Len(lru) /\ lru[k] = s
      <3>1. \E i \in 1 .. Len(lru) : lru[i] = s
        BY <1>1, <1>3, MembersAre DEF Cached
      <3> QED
        BY <3>1
    <2>2. Renewed(s) = Append(RemoveAt(lru, k), s)
      BY <1>3 DEF Renewed
    <2> HIDE DEF k
    <2>3. PICK t \in Seq(Speakers) :
            /\ t = RemoveAt(lru, k) /\ Len(t) = Len(lru) - 1
            /\ \A i \in 1 .. Len(lru) - 1 : /\ i < k => t[i] = lru[i]
                                            /\ ~(i < k) => t[i] = lru[i + 1]
      BY ZenonT(60), <1>1, <2>1, RemoveAtIs
    <2>4. IsInjective(t) /\ ToSet(t) = ToSet(lru) \ {s}
      <3>1. k \in 1 .. Len(lru) /\ t \in Seq(Speakers)
        BY <2>1
      <3>2. /\ Len(t) = Len(lru) - 1
            /\ \A i \in 1 .. Len(lru) - 1 : /\ i < k => t[i] = lru[i]
                                            /\ ~(i < k) => t[i] = lru[i + 1]
        BY <2>3
      <3>3. IsInjective(t) /\ ToSet(t) = ToSet(lru) \ {lru[k]}
        BY ZenonT(60), <1>1, <3>1, <3>2, WithoutIs
      <3> QED
        BY <2>1, <3>3
    <2>5. /\ Append(t, s) \in Seq(Speakers) /\ IsInjective(Append(t, s))
          /\ Len(Append(t, s)) = Len(t) + 1
      <3>1. s \notin ToSet(t) /\ t \in Seq(Speakers)
        BY <2>4
      <3> QED
        BY <2>4, <3>1, AppendIs
    <2> QED
      BY <1>1, <2>2, <2>3, <2>5
  <1> QED
    BY <1>2, <1>3

\* A facade that is used is renewed, one that is constructed is let in at the
\* expense of others.
LEMMA CacheIs ==
    ASSUME BookTypes, NEW s \in Speakers,
           lru' \in {lru, Touched(s)} \cup Constructions(s)
    PROVE  lru' \in Seq(Speakers) /\ IsInjective(lru') /\ Len(lru') <= CacheMax
  <1>1. CASE lru' = lru
    BY <1>1 DEF BookTypes
  <1>2. CASE lru' = Touched(s)
    BY <1>2, RenewedIs DEF Touched, BookTypes
  <1>3. CASE lru' \in Constructions(s)
    <2>1. PICK order \in Seq(Speakers) : order = Renewed(s) /\ IsInjective(order)
      BY RenewedIs
    <2>2. PICK k \in 1 .. Len(order) :
            lru' = SubSeq(order, k, Len(order)) /\ Len(lru') <= CacheMax
      BY <1>3, <2>1 DEF Constructions, Pruned
    <2>3. /\ Len(order) \in Nat /\ lru' \in Seq(Speakers) /\ Len(lru') = Len(order) - k + 1
          /\ \A i \in 1 .. Len(order) - k + 1 : lru'[i] = order[i + k - 1]
          /\ DOMAIN lru' = 1 .. Len(order) - k + 1 /\ DOMAIN order = 1 .. Len(order)
      BY <2>2
    <2>4. ASSUME NEW i \in DOMAIN lru', NEW j \in DOMAIN lru', lru'[i] = lru'[j]
          PROVE  i = j
      <3>1. order[i + k - 1] = order[j + k - 1]
        BY <2>3, <2>4
      <3>2. i + k - 1 \in DOMAIN order /\ j + k - 1 \in DOMAIN order
        BY <2>3
      <3>3. i + k - 1 = j + k - 1
        BY <2>1, <3>1, <3>2 DEF IsInjective
      <3> QED
        BY <2>3, <3>3
    <2> QED
      BY <2>2, <2>3, <2>4 DEF IsInjective
  <1> QED
    BY <1>1, <1>2, <1>3

-----------------------------------------------------------------------------
(* Counting turns.                                                         *)

LEMMA TurnsFinite == \A T \in SUBSET Turns : IsFiniteSet(T)
  <1>1. IsFiniteSet(Turns)
    BY FS_Interval, CommitBoundsAssumption DEF Turns
  <1> QED
    BY <1>1, FS_Subset

\* What a set of turns counts with one more, with one less, and in part.
LEMMA CountedIs ==
    ASSUME NEW T \in SUBSET Turns, NEW x \in Turns, NEW p
    PROVE  /\ Counted(T, p) \in Nat
           /\ x \notin T =>
                Counted(T \cup {x}, p) = Counted(T, p) + (IF Pair(x) = p THEN 1 ELSE 0)
           /\ x \in T =>
                /\ Counted(T \ {x}, p) \in Nat
                /\ Counted(T \ {x}, p) = Counted(T, p) - (IF Pair(x) = p THEN 1 ELSE 0)
  <1> DEFINE like(U) == {m \in U : Pair(m) = p}
  <1>1. \A U : Counted(U, p) = Cardinality(like(U))
    BY DEF Counted, Count, Pair
  <1>2. \A U \in SUBSET Turns : IsFiniteSet(like(U)) /\ Cardinality(like(U)) \in Nat
    BY TurnsFinite, FS_CardinalityType
  <1>3. T \ {x} \in SUBSET Turns
    OBVIOUS
  <1>4. CASE Pair(x) = p
    <2>1. /\ like(T \cup {x}) = like(T) \cup {x} /\ like(T \ {x}) = like(T) \ {x}
          /\ x \in like(T) <=> x \in T
      BY <1>4
    <2> HIDE DEF like
    <2>2. x \notin T => Cardinality(like(T \cup {x})) = Cardinality(like(T)) + 1
      BY <1>2, <2>1, FS_AddElement
    <2>3. x \in T => Cardinality(like(T \ {x})) = Cardinality(like(T)) - 1
      BY <1>2, <2>1, FS_RemoveElement
    <2> QED
      BY <1>1, <1>2, <1>3, <1>4, <2>2, <2>3
  <1>5. CASE Pair(x) # p
    <2>1. like(T \cup {x}) = like(T) /\ like(T \ {x}) = like(T)
      BY <1>5
    <2> HIDE DEF like
    <2> QED
      BY <1>1, <1>2, <1>3, <1>5, <2>1
  <1> QED
    BY <1>4, <1>5

\* Turns that keep speaker and reply count as before.
LEMMA SameCount ==
    ASSUME NEW w, NEW r, NEW x, NEW y, NEW T, NEW p,
           \A m \in T : x[m] = w[m] /\ y[m] = r[m]
    PROVE  Count(x, y, T, p) = Count(w, r, T, p)
  <1>1. {m \in T : <<x[m], y[m]>> = p} = {m \in T : <<w[m], r[m]>> = p}
    OBVIOUS
  <1> QED
    BY <1>1 DEF Count

-----------------------------------------------------------------------------
(* What has been said, and what is being committed.                        *)

LEMMA ShapeStarts == Init => ShapeInv
  <1> SUFFICES ASSUME Init PROVE ShapeInv
    OBVIOUS
  <1>1. lru = <<>> /\ lru \in Seq(Speakers) /\ Len(lru) = 0 /\ Len(queue) = 0 /\ DOMAIN lru = {}
    BY DEF Init
  <1>2. BookTypes
    <2>1. IsInjective(lru)
      BY <1>1 DEF IsInjective
    <2>2. /\ attempt = 0 /\ round = 0 /\ fails = 0 /\ up = TRUE /\ paused = FALSE
          /\ said = [n \in Turns |-> "none"] /\ handed = [p \in Texts |-> 0]
          /\ evicted = {} /\ storing = handed /\ stored = {}
      BY DEF Init, Texts
    <2>3. QueueMax >= 0 /\ CacheMax >= 0 /\ Rounds \in Nat /\ MaxFails \in Nat
      BY CommitBoundsAssumption
    <2>4. /\ {handed, storing} \subseteq [Texts -> Nat] /\ stored \subseteq Texts
          /\ said \in [Turns -> Replies \cup {"none"}]
      BY <2>2
    <2> QED
      <3>1. Len(queue) <= QueueMax /\ Len(lru) <= CacheMax
        BY <1>1, <2>3
      <3>2. attempt \in 0 .. 2 /\ round \in 0 .. Rounds /\ fails \in 0 .. MaxFails
        BY <2>2, <2>3
      <3> QED
        BY <1>1, <2>1, <2>2, <2>4, <3>1, <3>2 DEF BookTypes
  <1>3. Sayings
    BY DEF Init, Sayings
  <1>4. Committing
    BY CallsAre DEF Init, Committing
  <1> QED
    BY <1>2, <1>3, <1>4 DEF ShapeInv

\* A commit that begins is of the given turn, and touches the cache.
LEMMA BeginIs ==
    ASSUME MixInv, BookTypes, NEW c \in Clients, NEW n \in Turns, Spoken(n), BeginCommit(c, n)
    PROVE  /\ lru' \in Seq(Speakers) /\ IsInjective(lru') /\ Len(lru') <= CacheMax
           /\ call'[c].turn = n /\ call'[c].for = "commit"
           /\ \A d \in Clients \ {c} : call'[d] = call[d]
  <1>1. who[n] \in Speakers /\ lru' = Touched(who[n])
    BY DEF Spoken, BeginCommit
  <1>2. lru' \in Seq(Speakers) /\ IsInjective(lru') /\ Len(lru') <= CacheMax
    BY <1>1, CacheIs
  <1> QED
    BY <1>2, CommitBegins

\* A commit has ended.
LEMMA AfterCommitShape ==
    ASSUME MixInv, ShapeInv, NEW c \in Clients, NEW ok \in BOOLEAN, AfterCommit(c, ok),
           UNCHANGED <<up, turn, attempt, who, said, fails, paused>>, call[c] # NoCall,
           {handed', storing'} \subseteq [Texts -> Nat], stored' \subseteq Texts
    PROVE  ShapeInv'
  <1>1. CASE c = "turn" /\ AfterInline(ok)
    <2>1. /\ phase = "commit" /\ phase' \in {"pause", "idle", "fact"}
          /\ UNCHANGED <<snap>>
          /\ \/ call' = [call EXCEPT !["turn"] = NoCall]
             \/ call' = [call EXCEPT !["turn"] = Construct("fact")] /\ phase' = "fact"
          /\ lru' \in {lru, Touched(who[turn])}
          /\ \/ UNCHANGED <<queue, evicted, loop, round>>
             \/ queue' = Enqueued(turn) /\ evicted' = evicted \cup Overflow /\ Schedule
      BY <1>1 DEF AfterInline, TurnSettles
    <2>2. Spoken(turn) /\ turn \in Turns /\ who[turn] \in Speakers
      BY <2>1 DEF MixInv, PhaseInv, Spoken, Past
    <2>3. /\ Len(queue') <= QueueMax /\ evicted' \subseteq Turns
          /\ loop' = loop \/ (loop = "none" /\ loop' = "sleep")
          /\ round' \in 0 .. Rounds
      <3>1. CASE UNCHANGED <<queue, evicted, loop, round>>
        BY <3>1 DEF ShapeInv, BookTypes
      <3>2. CASE queue' = Enqueued(turn) /\ evicted' = evicted \cup Overflow /\ Schedule
        <4>1. Len(queue') <= QueueMax /\ Overflow \subseteq ToSet(queue)
          BY <2>2, <3>2, EnqueuedIs DEF MixInv, ShapeInv, BookTypes
        <4>2. ToSet(queue) \subseteq Turns
          BY MembersAre DEF MixInv, CommitTypes
        <4>3. round' \in 0 .. Rounds /\ (loop' = loop \/ (loop = "none" /\ loop' = "sleep"))
          BY <3>2, CommitBoundsAssumption DEF Schedule, ShapeInv, BookTypes
        <4> QED
          BY <3>2, <4>1, <4>2, <4>3 DEF ShapeInv, BookTypes
      <3> QED
        BY <2>1, <3>1, <3>2
    <2>4. lru' \in Seq(Speakers) /\ IsInjective(lru') /\ Len(lru') <= CacheMax
      BY <2>1, <2>2, CacheIs DEF ShapeInv
    <2>5. BookTypes'
      BY <2>1, <2>3, <2>4 DEF ShapeInv, BookTypes
    <2>6. Sayings'
      BY <2>1 DEF ShapeInv, Sayings, Pair
    <2>7. call'["loop"] = call["loop"] /\ call'["turn"].for \in {"none", "fact"}
          /\ (call'["turn"].for = "fact" => phase' = "fact")
      BY <2>1, CallsAre DEF MixInv, CommitTypes, Construct
    <2>8. Committing'
      BY <2>1, <2>3, <2>7 DEF ShapeInv, Committing
    <2> QED
      BY <2>5, <2>6, <2>8 DEF ShapeInv
  <1>2. CASE AfterQueued(c, ok)
    <2>1. /\ c = "loop" \/ phase = "flush"
          /\ queue' \in {queue, Removed(call[c].turn)}
          /\ snap' = [snap EXCEPT ![c] = Tail(snap[c])] /\ UNCHANGED evicted
      BY <1>2 DEF AfterQueued
    <2>2. /\ snap'[c] = Tail(snap[c]) /\ \A d \in Clients \ {c} : snap'[d] = snap[d]
      BY <2>1 DEF MixInv, CommitTypes
    <2>3. Len(queue') <= QueueMax
      <3>1. CASE queue' = queue
        BY <3>1 DEF ShapeInv, BookTypes
      <3>2. CASE queue' = Removed(call[c].turn)
        <4>1. call[c].turn \in Turns
          BY CallsAre DEF MixInv, CommitTypes
        <4>2. Len(queue') <= Len(queue) /\ queue' \in Seq(Turns)
          BY <3>2, <4>1, RemovedIs DEF MixInv
        <4>3. Len(queue') \in Nat /\ Len(queue) \in Nat
          BY <4>2 DEF MixInv, CommitTypes
        <4> QED
          BY <4>2, <4>3, CommitBoundsAssumption DEF ShapeInv, BookTypes
      <3> QED
        BY <2>1, <3>1, <3>2
    <2>4. phase' = phase \/ (c = "turn" /\ phase = "flush" /\ phase' = "listen" /\ snap'[c] = <<>>)
      BY <1>2, <2>1 DEF AfterQueued, Clients
    <2>5. Sayings'
      BY <2>4 DEF ShapeInv, Sayings, Pair
    <2>6. CASE snap'[c] # <<>>
      <3>1. /\ BeginCommit(c, Head(snap'[c])) /\ UNCHANGED <<phase, loop, round>>
        BY <1>2, <2>6 DEF AfterQueued
      <3>2. Head(snap'[c]) \in Turns /\ Spoken(Head(snap'[c]))
        <4>1. snap[c] # <<>>
          BY <2>1, CallsAre DEF MixInv, PhaseInv, Clients
        <4>2. PICK rest \in Seq(Turns) : rest = snap'[c] /\ rest # <<>> /\
                                         ToSet(rest) \subseteq ToSet(snap[c])
          BY <2>2, <2>6, <4>1, TailIs DEF MixInv, CommitTypes
        <4>3. Head(rest) \in ToSet(rest)
          BY <4>2, TailIs
        <4>4. \A m \in ToSet(snap[c]) : Spoken(m) /\ m \in Turns
          <5>1. snap[c] \in Seq(Turns) /\ \A i \in 1 .. Len(snap[c]) : Spoken(snap[c][i])
            BY DEF MixInv, CommitTypes, QueuedInv
          <5> QED
            BY <5>1, MembersAre
        <4> QED
          BY <4>2, <4>3, <4>4
      <3>3. /\ lru' \in Seq(Speakers) /\ IsInjective(lru') /\ Len(lru') <= CacheMax
            /\ call'[c].turn = Head(snap'[c]) /\ call'[c].for = "commit"
            /\ \A d \in Clients \ {c} : call'[d] = call[d]
        BY <3>1, <3>2, BeginIs DEF ShapeInv
      <3>4. BookTypes'
        BY <2>1, <2>3, <3>1, <3>3 DEF ShapeInv, BookTypes
      <3>5. Committing'
        BY <2>1, <2>2, <2>6, <3>1, <3>3, CallsAre DEF ShapeInv, Committing, MixInv, PhaseInv, Clients
      <3> QED
        BY <2>5, <3>4, <3>5 DEF ShapeInv
    <2>7. CASE snap'[c] = <<>>
      <3>1. /\ call' = [call EXCEPT ![c] = NoCall] /\ UNCHANGED <<lru>>
            /\ \/ c = "loop" /\ phase' = phase /\ LoopEnds
               \/ c = "turn" /\ phase' = "listen" /\ UNCHANGED <<loop, round>>
        BY <1>2, <2>7 DEF AfterQueued, Clients
      <3>2. round' \in 0 .. Rounds /\ (c = "loop" => loop' # "retry")
        BY <3>1, CommitBoundsAssumption DEF LoopEnds, ShapeInv, BookTypes
      <3>3. BookTypes'
        BY <2>1, <2>3, <3>1, <3>2 DEF ShapeInv, BookTypes
      <3>4. call'[c].for = "none" /\ \A d \in Clients \ {c} : call'[d] = call[d]
        BY <3>1, CallsAre DEF MixInv, CommitTypes
      <3>5. Committing'
        BY <2>1, <2>2, <2>7, <3>1, <3>2, <3>4 DEF ShapeInv, Committing, Clients
      <3> QED
        BY <2>5, <3>3, <3>5 DEF ShapeInv
    <2> QED
      BY <2>6, <2>7
  <1> QED
    BY <1>1, <1>2 DEF AfterCommit

LEMMA ShapeSteps == MixInv /\ ShapeInv /\ [Next]_vars => ShapeInv'
  <1> SUFFICES ASSUME MixInv, ShapeInv, [Next]_vars PROVE ShapeInv'
    OBVIOUS
  <1> USE DEF memoryVars
  <1>1. CASE UNCHANGED vars
    BY <1>1 DEF vars, ShapeInv, BookTypes, Sayings, Committing, Pair
  <1>2. CASE Hear
    <2>1. /\ phase = "idle" /\ turn < MaxTurns /\ turn' = turn + 1 /\ attempt' = 0
          /\ UNCHANGED <<up, who, said, queue, loop, round, fails, paused, memoryVars, evicted>>
      BY <1>2 DEF Hear
    <2>2. turn \in Nat /\ turn' \in Turns
      BY <2>1, CommitBoundsAssumption DEF MixInv, CommitTypes, Turns
    <2>3. Sayings'
      <3>1. said[turn'] = "none"
        BY <2>1, <2>2 DEF ShapeInv, Sayings, Turns
      <3>2. \A n \in Turns : said[n] # "none" => n <= turn'
        BY <2>1, <2>2 DEF ShapeInv, Sayings, Turns
      <3>3. phase' \in {"listen", "flush"}
        BY <1>2 DEF Hear
      <3> QED
        BY <2>1, <3>1, <3>2, <3>3 DEF ShapeInv, Sayings, Pair
    <2>4. CASE queue = <<>>
      <3>1. phase' = "listen" /\ UNCHANGED <<snap, call, lru>>
        BY <1>2, <2>4 DEF Hear
      <3>2. BookTypes'
        BY <2>1, <3>1 DEF ShapeInv, BookTypes
      <3>3. Committing'
        BY <2>1, <3>1 DEF ShapeInv, Committing
      <3> QED
        BY <2>3, <3>2, <3>3 DEF ShapeInv
    <2>5. CASE queue # <<>>
      <3>1. /\ phase' = "flush" /\ snap' = [snap EXCEPT !["turn"] = queue]
            /\ BeginCommit("turn", Head(queue))
        BY <1>2, <2>5 DEF Hear
      <3>2. Head(queue) \in Turns /\ Spoken(Head(queue))
        <4>1. Head(queue) \in ToSet(queue) /\ queue \in Seq(Turns)
          BY <2>5, TailIs DEF MixInv, CommitTypes
        <4> QED
          BY <4>1, MembersAre DEF MixInv, QueuedInv
      <3>3. /\ lru' \in Seq(Speakers) /\ IsInjective(lru') /\ Len(lru') <= CacheMax
            /\ call'["turn"].turn = Head(queue) /\ call'["turn"].for = "commit"
            /\ call'["loop"] = call["loop"]
        BY <3>1, <3>2, BeginIs DEF ShapeInv, Clients
      <3>4. BookTypes'
        BY <2>1, <3>3 DEF ShapeInv, BookTypes
      <3>5. snap'["turn"] = queue /\ snap'["loop"] = snap["loop"]
        BY <3>1 DEF MixInv, CommitTypes, Clients
      <3>6. Committing'
        BY <2>1, <3>1, <3>3, <3>5 DEF ShapeInv, Committing
      <3> QED
        BY <2>3, <3>4, <3>6 DEF ShapeInv
    <2> QED
      BY <2>4, <2>5
  <1>3. CASE NotUnderstood
    BY <1>3 DEF NotUnderstood, turnVars, bridgeVars, ShapeInv, BookTypes, Sayings, Committing, Pair
  <1>4. ASSUME NEW s \in Speakers, Identify(s) PROVE ShapeInv'
    <2>1. /\ phase = "listen" /\ phase' = "known" /\ who' = [who EXCEPT ![turn] = s]
          /\ UNCHANGED <<up, turn, attempt, said, bridgeVars, queue, loop, round, snap, call,
                         memoryVars, evicted>>
      BY <1>4 DEF Identify
    <2>2. BookTypes'
      BY <2>1 DEF bridgeVars, ShapeInv, BookTypes
    <2>3. turn # 0 /\ turn \in Turns /\ said[turn] = "none"
      BY <2>1, CommitBoundsAssumption DEF MixInv, CommitTypes, PhaseInv, ShapeInv, Sayings, Turns
    <2>4. \A n \in Turns : said[n] # "none" => Pair(n)' = Pair(n)
      BY <2>1, <2>3 DEF Pair, MixInv, CommitTypes
    <2>5. Sayings'
      BY <2>1, <2>3, <2>4 DEF ShapeInv, Sayings
    <2>6. Committing'
      BY <2>1 DEF ShapeInv, Committing
    <2> QED
      BY <2>2, <2>5, <2>6 DEF ShapeInv
  <1>5. CASE Retrieve
    <2>1. /\ phase = "known" /\ phase' \in {"retrieve", "stream"}
          /\ lru' = Touched(who[turn])
          /\ call' = call \/ call' = [call EXCEPT !["turn"] = Construct("retrieve")]
          /\ UNCHANGED <<up, turn, attempt, who, said, fails, paused, queue, loop, round, snap,
                         memoryVars, evicted>>
      BY <1>5 DEF Retrieve, turnVars
    <2>2. who[turn] \in Speakers
      BY <2>1 DEF MixInv, PhaseInv, Spoken
    <2>3. BookTypes'
      BY <2>1, <2>2, CacheIs DEF ShapeInv, BookTypes
    <2>4. Sayings'
      <3>1. turn # 0 /\ said[turn] = "none"
        BY <2>1 DEF MixInv, PhaseInv, ShapeInv, Sayings
      <3> QED
        BY <2>1, <3>1 DEF ShapeInv, Sayings, Pair
    <2>5. /\ call'["loop"] = call["loop"]
          /\ call'["turn"] = call["turn"] \/ call'["turn"].for = "retrieve"
      BY <2>1 DEF MixInv, CommitTypes, Construct, Clients
    <2>6. Committing'
      BY <2>1, <2>5 DEF ShapeInv, Committing
    <2> QED
      BY <2>3, <2>4, <2>6 DEF ShapeInv
  <1>6. CASE Aborted
    BY <1>6 DEF Aborted, turnVars, bridgeVars, ShapeInv, BookTypes, Sayings, Committing, Pair
  <1>7. ASSUME NEW r \in Replies, Answer(r) PROVE ShapeInv'
    <2>1. /\ phase = "stream" /\ phase' = "commit" /\ attempt' = 1
          /\ said' = [said EXCEPT ![turn] = r] /\ BeginCommit("turn", turn)
          /\ UNCHANGED <<up, turn, who, queue, loop, round, snap, fails, paused, memoryVars, evicted>>
      BY <1>7 DEF Answer
    <2>2. Spoken(turn) /\ turn \in Turns /\ who[turn] \in Speakers
      BY <2>1 DEF MixInv, PhaseInv, Spoken, Past
    <2>3. /\ lru' \in Seq(Speakers) /\ IsInjective(lru') /\ Len(lru') <= CacheMax
          /\ call'["turn"].turn = turn /\ call'["turn"].for = "commit"
          /\ call'["loop"] = call["loop"]
      BY <2>1, <2>2, BeginIs DEF ShapeInv, Clients
    <2>4. said' \in [Turns -> Replies \cup {"none"}] /\ said'[turn] = r /\ r # "none"
          /\ \A n \in Turns \ {turn} : said'[n] = said[n]
      BY <2>1, <2>2, ReplyAssumption DEF ShapeInv, BookTypes
    <2>5. BookTypes'
      BY <2>1, <2>3, <2>4 DEF ShapeInv, BookTypes
    <2>6. Sayings'
      <3>1. Pair(turn)' \in Texts
        BY <2>1, <2>2, <2>4 DEF Pair, Texts
      <3>2. \A n \in Turns \ {turn} : Pair(n)' = Pair(n)
        BY <2>1, <2>4 DEF Pair
      <3>3. turn <= turn
        BY DEF MixInv, CommitTypes
      <3> QED
        BY <2>1, <2>4, <3>1, <3>2, <3>3 DEF ShapeInv, Sayings
    <2>7. Committing'
      BY <2>1, <2>3 DEF ShapeInv, Committing
    <2> QED
      BY <2>5, <2>6, <2>7 DEF ShapeInv
  <1>8. CASE TryAgain
    <2>1. /\ phase = "pause" /\ phase' = "commit" /\ attempt' = 2 /\ BeginCommit("turn", turn)
          /\ UNCHANGED <<up, turn, who, said, queue, loop, round, snap, fails, paused, memoryVars,
                         evicted>>
      BY <1>8 DEF TryAgain
    <2>2. Spoken(turn) /\ turn \in Turns
      BY <2>1 DEF MixInv, PhaseInv, Spoken, Past
    <2>3. /\ lru' \in Seq(Speakers) /\ IsInjective(lru') /\ Len(lru') <= CacheMax
          /\ call'["turn"].turn = turn /\ call'["turn"].for = "commit"
          /\ call'["loop"] = call["loop"]
      BY <2>1, <2>2, BeginIs DEF ShapeInv, Clients
    <2>4. BookTypes'
      BY <2>1, <2>3 DEF ShapeInv, BookTypes
    <2>5. Sayings' /\ Committing'
      BY <2>1, <2>3 DEF ShapeInv, Sayings, Committing, Pair
    <2> QED
      BY <2>4, <2>5 DEF ShapeInv
  <1>9. CASE Wake
    <2>1. /\ loop = "sleep"
          /\ UNCHANGED <<up, phase, turn, attempt, who, said, queue, fails, paused, memoryVars,
                         evicted>>
      BY <1>9 DEF Wake, turnVars
    <2>2. Sayings'
      BY <2>1 DEF ShapeInv, Sayings, Pair
    <2>3. CASE queue = <<>>
      <3>1. loop' = "none" /\ round' = 0 /\ UNCHANGED <<snap, call, lru>>
        BY <1>9, <2>3 DEF Wake
      <3>2. BookTypes'
        BY <2>1, <3>1, CommitBoundsAssumption DEF ShapeInv, BookTypes
      <3>3. Committing'
        BY <2>1, <3>1 DEF ShapeInv, Committing
      <3> QED
        BY <2>2, <3>2, <3>3 DEF ShapeInv
    <2>4. CASE queue # <<>>
      <3>1. /\ loop' = "retry" /\ round' = round /\ snap' = [snap EXCEPT !["loop"] = queue]
            /\ BeginCommit("loop", Head(queue))
        BY <1>9, <2>4 DEF Wake
      <3>2. Head(queue) \in Turns /\ Spoken(Head(queue))
        <4>1. Head(queue) \in ToSet(queue) /\ queue \in Seq(Turns)
          BY <2>4, TailIs DEF MixInv, CommitTypes
        <4> QED
          BY <4>1, MembersAre DEF MixInv, QueuedInv
      <3>3. /\ lru' \in Seq(Speakers) /\ IsInjective(lru') /\ Len(lru') <= CacheMax
            /\ call'["loop"].turn = Head(queue) /\ call'["loop"].for = "commit"
            /\ call'["turn"] = call["turn"]
        BY <3>1, <3>2, BeginIs DEF ShapeInv, Clients
      <3>4. BookTypes'
        BY <2>1, <3>1, <3>3 DEF ShapeInv, BookTypes
      <3>5. snap'["loop"] = queue /\ snap'["turn"] = snap["turn"]
        BY <3>1 DEF MixInv, CommitTypes, Clients
      <3>6. Committing'
        BY <2>1, <3>1, <3>3, <3>5 DEF ShapeInv, Committing
      <3> QED
        BY <2>2, <3>4, <3>6 DEF ShapeInv
    <2> QED
      BY <2>3, <2>4
  <1>10. CASE WindowPasses
    BY <1>10 DEF WindowPasses, turnVars, ShapeInv, BookTypes, Sayings, Committing, Pair
  <1>11. CASE BackendChanges
    BY <1>11 DEF BackendChanges, turnVars, bridgeVars, ShapeInv, BookTypes, Sayings, Committing,
       Pair
  <1>12. ASSUME NEW c \in Clients, Accepted(c) \/ IngestFailed(c) \/ Rejected(c)
         PROVE  ShapeInv'
    <2>1. call[c] # NoCall
      <3>1. call[c].step \in {"ingest", "failed"}
        BY <1>12 DEF Accepted, IngestFailed, Rejected
      <3> QED
        BY <3>1, CallsAre
    <2>2. PICK ok \in BOOLEAN : AfterCommit(c, ok)
      BY <1>12 DEF Accepted, IngestFailed, Rejected
    <2>3. UNCHANGED <<up, turn, attempt, who, said, fails, paused>>
      BY <1>12 DEF Accepted, IngestFailed, Rejected, turnVars
    <2>4. /\ handed' = handed \/ handed' = [handed EXCEPT ![Pair(call[c].turn)] = @ + 1]
          /\ storing' = storing \/ storing' = [storing EXCEPT ![Pair(call[c].turn)] = @ + 1]
          /\ stored' = stored
      BY <1>12 DEF Accepted, IngestFailed, Rejected
    <2>5. handed' \in [Texts -> Nat]
      BY <2>4 DEF ShapeInv, BookTypes
    <2>6. storing' \in [Texts -> Nat]
      BY <2>4 DEF ShapeInv, BookTypes
    <2>7. stored' \subseteq Texts
      BY <2>4 DEF ShapeInv, BookTypes
    <2> QED
      BY <2>1, <2>2, <2>3, <2>5, <2>6, <2>7, AfterCommitShape
  <1>13. ASSUME NEW c \in Clients, Constructed(c) \/ ConstructFailed(c) PROVE ShapeInv'
    <2> DEFINE n == call[c].turn
    <2>1. /\ call[c].step = "construct"
          /\ UNCHANGED <<turn, attempt, who, said, queue, loop, round, snap, memoryVars, evicted, up>>
          /\ lru' \in {lru} \cup Constructions(who[n])
          /\ fails' \in 0 .. MaxFails /\ paused' \in BOOLEAN
          /\ \E have \in BOOLEAN : WithFacade(c, have)
      <3>1. CASE Constructed(c)
        <4>1. \E have \in BOOLEAN : WithFacade(c, have)
          BY <3>1 DEF Constructed
        <4>2. fails' \in 0 .. MaxFails /\ paused' \in BOOLEAN
          <5>1. MaxFails \in Nat
            BY CommitBoundsAssumption
          <5>2. fails' = 0 /\ paused' = FALSE
            BY <3>1 DEF Constructed
          <5>3. fails' \in 0 .. MaxFails
            BY <5>1, <5>2
          <5>4. paused' \in BOOLEAN
            BY <5>2
          <5> QED
            BY <5>3, <5>4
        <4> QED
          BY <3>1, <4>1, <4>2 DEF Constructed, turnVars
      <3>2. CASE ConstructFailed(c)
        <4>1. (who[call[c].turn] \in Cached) \in BOOLEAN
          OBVIOUS
        <4>2. WithFacade(c, who[call[c].turn] \in Cached)
          BY <3>2 DEF ConstructFailed
        <4>3. \E have \in BOOLEAN : WithFacade(c, have)
          BY <4>1, <4>2
        <4>4. fails' \in 0 .. MaxFails /\ paused' \in BOOLEAN
          <5>1. fails \in 0 .. MaxFails /\ MaxFails \in Nat
            BY CommitBoundsAssumption DEF ShapeInv, BookTypes
          <5>2. fails' = IF fails < MaxFails THEN fails + 1 ELSE fails
            BY <3>2 DEF ConstructFailed
          <5>3. (fails' = MaxFails) \in BOOLEAN /\ paused' = (fails' = MaxFails)
            BY <3>2 DEF ConstructFailed
          <5>4. fails' \in 0 .. MaxFails
            BY <5>1, <5>2
          <5>5. paused' \in BOOLEAN
            BY <5>3
          <5> QED
            BY <5>4, <5>5
        <4> QED
          BY <3>2, <4>3, <4>4 DEF ConstructFailed, turnVars
      <3> QED
        BY <1>13, <3>1, <3>2
    <2>2. call[c] \in Calls /\ who[n] \in Speakers
      BY <2>1, CallsAre DEF MixInv, CommitTypes, CallInv, Spoken
    <2>3. BookTypes'
      BY <2>1, <2>2, CacheIs DEF ShapeInv, BookTypes
    <2>4. \/ /\ call[c].for = "retrieve" /\ phase' = "stream"
             /\ call' = [call EXCEPT ![c] = NoCall]
          \/ /\ call[c].for = "fact" /\ phase' = "idle"
             /\ call' = [call EXCEPT ![c] = NoCall]
          \/ /\ call[c].for = "commit" /\ phase' = phase
             /\ \/ call' = [call EXCEPT ![c] = Ingest(n)]
                \/ call' = [call EXCEPT ![c] = [call[c] EXCEPT !.step = "failed"]]
      BY <2>1 DEF WithFacade
    <2>5. /\ \A d \in Clients \ {c} : call'[d] = call[d]
          /\ call'[c].for = "none" \/
                (phase' = phase /\ call'[c].for = call[c].for /\ call'[c].turn = n)
      BY <2>2, <2>4, CallsAre DEF MixInv, CommitTypes, Ingest, Calls
    <2>6. /\ call[c].for = "retrieve" => c = "turn" /\ phase = "retrieve" /\ turn # 0
          /\ call[c].for = "fact" => c = "turn" /\ phase = "fact"
      BY DEF MixInv, PhaseInv, ShapeInv, Committing, Clients
    <2>7. Sayings'
      BY <2>1, <2>4, <2>6 DEF ShapeInv, Sayings, Pair
    <2>8. Committing'
      <3>1. CASE call[c].for = "commit"
        <4>1. phase' = phase /\ \A d \in Clients : /\ call'[d].for = call[d].for
                                                   /\ call'[d].turn = call[d].turn
          <5>1. phase' = phase /\ call'[c].for # "none"
            BY <2>2, <2>4, <3>1 DEF MixInv, CommitTypes, Ingest, Calls
          <5> QED
            BY <2>5, <5>1
        <4> QED
          BY <2>1, <4>1 DEF ShapeInv, Committing, Clients
      <3>2. CASE call[c].for # "commit"
        <4>1. c = "turn" /\ phase \in {"retrieve", "fact"} /\ phase' \in {"stream", "idle"}
          BY <2>4, <2>6, <3>2
        <4>2. call'["turn"].for = "none" /\ call'["loop"] = call["loop"]
          BY <2>2, <2>4, <3>2, <4>1, CallsAre DEF MixInv, CommitTypes
        <4> QED
          BY <2>1, <4>1, <4>2 DEF ShapeInv, Committing
      <3> QED
        BY <3>1, <3>2
    <2> QED
      BY <2>3, <2>7, <2>8 DEF ShapeInv
  <1>14. ASSUME NEW p \in Texts, Stores(p) PROVE ShapeInv'
    <2>1. /\ storing[p] > 0 /\ storing' = [storing EXCEPT ![p] = storing[p] - 1]
          /\ stored' \subseteq stored \cup {p} /\ handed' = handed
          /\ UNCHANGED <<up, phase, turn, attempt, who, said, queue, loop, round, snap, call,
                         lru, fails, paused, evicted>>
      BY <1>14 DEF Stores, turnVars, bridgeVars
    <2>2. storing' \in [Texts -> Nat] /\ stored' \subseteq Texts
      BY <2>1 DEF ShapeInv, BookTypes
    <2> QED
      BY <2>1, <2>2 DEF ShapeInv, BookTypes, Sayings, Committing, Pair
  <1> QED
    BY <1>1, <1>2, <1>3, <1>4, <1>5, <1>6, <1>7, <1>8, <1>9, <1>10, <1>11, <1>12, <1>13, <1>14
       DEF Next, TurnStep, ThreadReturns, Texts

-----------------------------------------------------------------------------
(* The balance.                                                            *)

\* When a flush takes its snapshot; when the turn settles with i of the pair,
\* which is handed over; and when it is queued instead and o of the pair dropped.
LEMMA TurnBalances ==
    ASSUME NEW s \in Nat, NEW q \in Nat, NEW a \in Nat, NEW b \in Nat, NEW n \in Nat,
           NEW e \in Nat, Balance(s, q, a, b, n, e), NEW i \in {0, 1}, NEW o \in {0, 1}
    PROVE  /\ a = 0 => Balance(s, q, q, b, n, e)
           /\ b = 0 => Balance(s, q, a, q, n, e)
           /\ Balance(s + i, q, a, b, n + i, e)
           /\ Balance(s, q - o + i, a, b, n + i, e + o)
  BY DEF Balance

\* The sets that are counted, and what they count.
LEMMA CountsAre ==
    ASSUME MixInv, ShapeInv, Entries, NEW p
    PROVE  /\ ToSet(queue) \subseteq Turns /\ Settled \subseteq Turns /\ evicted \subseteq Turns
           /\ \A c \in Clients : ToSet(snap[c]) \subseteq Turns
           /\ \A c \in Clients : Counted(ToSet(snap[c]), p) \in Nat
           /\ Counted(ToSet(queue), p) \in Nat
           /\ Counted(Settled, p) \in Nat /\ Counted(evicted, p) \in Nat
           /\ p \in Texts => handed[p] \in Nat
  <1>1. /\ ToSet(queue) \subseteq Turns /\ Settled \subseteq Turns /\ evicted \subseteq Turns
        /\ \A c \in Clients : ToSet(snap[c]) \subseteq Turns
    BY DEF Entries, Settled
  <1>2. \A T \in SUBSET Turns : Counted(T, p) \in Nat
    <2> SUFFICES ASSUME NEW T \in SUBSET Turns PROVE Counted(T, p) \in Nat
      OBVIOUS
    <2>1. IsFiniteSet({m \in T : <<who[m], said[m]>> = p})
      BY TurnsFinite
    <2> QED
      BY <2>1, FS_CardinalityType DEF Counted, Count
  <1>3. p \in Texts => handed[p] \in Nat
    BY DEF ShapeInv, BookTypes
  <1> HIDE DEF Settled
  <1> QED
    BY <1>1, <1>2, <1>3

\* A step that settles, queues, stores and drops nothing.
LEMMA BooksStay ==
    ASSUME Entries, Balanced, Settled' = Settled,
           \A m \in Settled : who'[m] = who[m] /\ said'[m] = said[m],
           UNCHANGED <<queue, snap, handed, evicted>>
    PROVE  Entries' /\ Balanced'
  <1>1. Entries'
    BY DEF Entries
  <1>2. ASSUME NEW p \in Texts, NEW T, T \subseteq Settled
        PROVE  Count(who', said', T, p) = Counted(T, p)
    BY <1>2, SameCount DEF Counted
  <1>3. /\ ToSet(queue) \subseteq Settled /\ evicted \subseteq Settled
        /\ ToSet(snap["turn"]) \subseteq Settled /\ ToSet(snap["loop"]) \subseteq Settled
    BY DEF Entries, Clients
  <1>4. ASSUME NEW p \in Texts
        PROVE  /\ Count(who', said', ToSet(queue), p) = Counted(ToSet(queue), p)
               /\ Count(who', said', evicted, p) = Counted(evicted, p)
               /\ Count(who', said', Settled, p) = Counted(Settled, p)
               /\ Count(who', said', ToSet(snap["turn"]), p) = Counted(ToSet(snap["turn"]), p)
               /\ Count(who', said', ToSet(snap["loop"]), p) = Counted(ToSet(snap["loop"]), p)
    BY <1>2, <1>3
  <1>5. Balanced'
    BY <1>4 DEF Balanced, Counted
  <1> QED
    BY <1>1, <1>5

\* A flush begins with the queue as its snapshot.
LEMMA BooksSnap ==
    ASSUME MixInv, ShapeInv, Entries, Balanced, NEW c \in Clients, Settled' = Settled,
           snap[c] = <<>>, snap' = [snap EXCEPT ![c] = queue],
           UNCHANGED <<who, said, queue, handed, evicted>>
    PROVE  Entries' /\ Balanced'
  <1>1. snap'[c] = queue /\ \A d \in Clients \ {c} : snap'[d] = snap[d]
    BY DEF MixInv, CommitTypes
  <1>2. Entries'
    BY <1>1 DEF Entries
  <1>3. ASSUME NEW p \in Texts
        PROVE  Balance(handed[p], Counted(ToSet(queue), p), Counted(ToSet(snap'["turn"]), p),
                       Counted(ToSet(snap'["loop"]), p), Counted(Settled, p),
                       Counted(evicted, p))
    <2>1. Counted(ToSet(snap[c]), p) = 0
      <3>1. ToSet(snap[c]) = {}
        BY DEF ToSet
      <3>2. {m \in {} : <<who[m], said[m]>> = p} = {}
        OBVIOUS
      <3> QED
        BY <3>1, <3>2, FS_EmptySet DEF Counted, Count
    <2>2. Balance(handed[p], Counted(ToSet(queue), p), Counted(ToSet(snap["turn"]), p),
                  Counted(ToSet(snap["loop"]), p), Counted(Settled, p), Counted(evicted, p))
      BY DEF Balanced
    <2> QED
      BY <1>1, <2>1, <2>2, CountsAre, TurnBalances DEF Clients
  <1>4. Balanced'
    BY <1>3 DEF Balanced, Counted
  <1> QED
    BY <1>2, <1>4

\* A flush has tried the first reply of its snapshot.
LEMMA BooksFlush ==
    ASSUME MixInv, ShapeInv, Entries, Balanced, NEW c \in Clients, NEW ok \in BOOLEAN,
           snap[c] # <<>>, Settled' = Settled, UNCHANGED <<who, said, evicted>>,
           snap' = [snap EXCEPT ![c] = Tail(snap[c])],
           queue' = IF ok THEN Removed(Head(snap[c])) ELSE queue,
           handed' = IF ok THEN [handed EXCEPT ![Pair(Head(snap[c]))] = @ + 1] ELSE handed
    PROVE  Entries' /\ Balanced'
  <1>0. PICK t : t = Head(snap[c])
    OBVIOUS
  <1>1. /\ IsInjective(snap'[c]) /\ t \in ToSet(snap[c]) /\ ToSet(snap'[c]) = ToSet(snap[c]) \ {t}
        /\ \A d \in Clients \ {c} : snap'[d] = snap[d]
    BY <1>0, TailIs DEF MixInv, CommitTypes, Entries
  <1>2. t \in Settled /\ t \in Turns /\ Pair(t) \in Texts
    BY <1>1 DEF Entries, Settled, ShapeInv, Sayings
  <1>3. /\ IsInjective(queue')
        /\ \/ /\ queue' = queue
              /\ ok => \A m \in ToSet(queue) : Pair(m) # Pair(t)
           \/ /\ ok
              /\ \E m \in ToSet(queue) :
                    Pair(m) = Pair(t) /\ ToSet(queue') = ToSet(queue) \ {m}
    <2>1. CASE ok
      <3>1. queue' = Removed(t)
        BY <1>0, <2>1
      <3>2. /\ IsInjective(Removed(t))
            /\ \/ Removed(t) = queue /\ \A m \in ToSet(queue) : ~SameReply(m, t)
               \/ \E m \in ToSet(queue) :
                    SameReply(m, t) /\ ToSet(Removed(t)) = ToSet(queue) \ {m}
        BY <1>2, RemovedIs DEF MixInv, Entries
      <3> QED
        BY <2>1, <3>1, <3>2 DEF SameReply
    <2>2. CASE ~ok
      BY <2>2 DEF Entries
    <2> QED
      BY <2>1, <2>2
  <1>4. Entries'
    BY <1>1, <1>3 DEF Entries
  <1>5. ASSUME NEW p \in Texts
        PROVE  Balance(handed'[p], Counted(ToSet(queue'), p), Counted(ToSet(snap'["turn"]), p),
                       Counted(ToSet(snap'["loop"]), p), Counted(Settled, p),
                       Counted(evicted, p))
    <2> DEFINE one == IF Pair(t) = p THEN 1 ELSE 0
    <2>1. /\ Counted(ToSet(snap'[c]), p) = Counted(ToSet(snap[c]), p) - one
          /\ Counted(ToSet(snap'[c]), p) \in Nat /\ Counted(ToSet(snap[c]), p) \in Nat
      <3>1. ToSet(snap[c]) \in SUBSET Turns
        BY CountsAre
      <3> QED
        BY <1>1, <1>2, <3>1, CountedIs
    <2>2. PICK s \in Nat, q \in Nat, a \in Nat, b \in Nat, n \in Nat, e \in Nat :
            /\ s = handed[p] /\ q = Counted(ToSet(queue), p)
            /\ a = Counted(ToSet(snap["turn"]), p) /\ b = Counted(ToSet(snap["loop"]), p)
            /\ n = Counted(Settled, p) /\ e = Counted(evicted, p)
            /\ Balance(s, q, a, b, n, e)
      BY CountsAre DEF Balanced, Clients
    <2>3. PICK a1 \in Nat, b1 \in Nat :
            /\ a1 = Counted(ToSet(snap'["turn"]), p) /\ b1 = Counted(ToSet(snap'["loop"]), p)
            /\ (a1 = a - one /\ b1 = b) \/ (a1 = a /\ b1 = b - one)
      BY <1>1, <2>1, <2>2 DEF Clients
    <2>4. CASE ~ok
      <3>1. handed'[p] = s /\ Counted(ToSet(queue'), p) = q
        BY <2>2, <2>4
      <3>2. a1 <= a /\ b1 <= b
        BY SMTT(30), <2>2, <2>3
      <3>3. Balance(s, q, a1, b1, n, e)
        <4>1. Balance(s, q, a, b, n, e)
          BY <2>2
        <4> QED
          BY <3>2, <4>1 DEF Balance
      <3> QED
        BY <2>2, <2>3, <3>1, <3>3
    <2>5. CASE ok /\ Pair(t) = p
      <3>1. handed'[p] = s + 1 /\ one = 1
        BY <1>0, <1>2, <2>2, <2>5 DEF ShapeInv, BookTypes
      <3>2. PICK q1 \in Nat : /\ q1 = Counted(ToSet(queue'), p)
                              /\ q1 = q - 1 \/ (q1 = 0 /\ q = 0)
        <4>1. CASE queue' = queue /\ \A m \in ToSet(queue) : Pair(m) # Pair(t)
          <5>1. {m \in ToSet(queue) : <<who[m], said[m]>> = p} = {}
            BY <2>5, <4>1 DEF Pair
          <5>2. q = 0
            BY <2>2, <5>1, FS_EmptySet DEF Counted, Count
          <5> QED
            BY <2>2, <4>1, <5>2
        <4>2. ASSUME NEW m \in ToSet(queue), Pair(m) = Pair(t),
                     ToSet(queue') = ToSet(queue) \ {m}
              PROVE  Counted(ToSet(queue'), p) \in Nat /\ Counted(ToSet(queue'), p) = q - 1
          <5>1. ToSet(queue) \in SUBSET Turns /\ m \in Turns
            BY CountsAre
          <5>2. /\ Counted(ToSet(queue) \ {m}, p) \in Nat
                /\ Counted(ToSet(queue) \ {m}, p) = q - (IF Pair(m) = p THEN 1 ELSE 0)
            BY <2>2, <5>1, CountedIs
          <5> QED
            BY <2>2, <2>5, <4>2, <5>2
        <4> QED
          BY <1>3, <2>5, <4>1, <4>2
      <3>3. (a1 = a - 1 /\ b1 = b) \/ (a1 = a /\ b1 = b - 1)
        BY <2>3, <3>1
      <3>4. CASE a1 = a - 1 /\ b1 = b
        <4>1. /\ Balance(s, q, a, b, n, e)
              /\ q1 = q - 1 \/ (q1 = 0 /\ q = 0)
              /\ a1 = a - 1
          BY <2>2, <3>2, <3>4
        <4>2. Balance(s + 1, q1, a1, b, n, e)
          BY <4>1 DEF Balance
        <4> QED
          BY <2>2, <2>3, <3>1, <3>2, <3>4, <4>2
      <3>5. CASE a1 = a /\ b1 = b - 1
        <4>1. /\ Balance(s, q, a, b, n, e)
              /\ q1 = q - 1 \/ (q1 = 0 /\ q = 0)
              /\ b1 = b - 1
          BY <2>2, <3>2, <3>5
        <4>2. Balance(s + 1, q1, a, b1, n, e)
          BY <4>1 DEF Balance
        <4> QED
          BY <2>2, <2>3, <3>1, <3>2, <3>5, <4>2
      <3> QED
        BY <3>3, <3>4, <3>5
    <2>6. CASE ok /\ Pair(t) # p
      <3>1. handed'[p] = s /\ one = 0
        BY <1>0, <1>2, <2>2, <2>6 DEF ShapeInv, BookTypes
      <3>2. Counted(ToSet(queue'), p) = q
        <4>1. ASSUME NEW m \in ToSet(queue), Pair(m) = Pair(t),
                     ToSet(queue') = ToSet(queue) \ {m}
              PROVE  Counted(ToSet(queue'), p) = q
          <5>1. ToSet(queue) \in SUBSET Turns /\ m \in Turns
            BY CountsAre
          <5>2. Counted(ToSet(queue) \ {m}, p) = q - (IF Pair(m) = p THEN 1 ELSE 0)
            BY <2>2, <5>1, CountedIs
          <5>3. Counted(ToSet(queue) \ {m}, p) = q
            BY <2>2, <2>6, <4>1, <5>2
          <5> QED
            BY <4>1, <5>3
        <4> QED
          BY <1>3, <2>2, <4>1
      <3>3. a1 = a /\ b1 = b
        BY <2>2, <2>3, <3>1
      <3> QED
        BY <2>2, <2>3, <3>1, <3>2, <3>3
    <2> QED
      BY <2>4, <2>5, <2>6
  <1>6. Balanced'
    BY <1>5 DEF Balanced, Counted
  <1> QED
    BY <1>4, <1>6

\* The turn settles: its reply is handed over, or queued, which may drop another.
LEMMA BooksInline ==
    ASSUME MixInv, ShapeInv, Entries, Balanced, turn \in Turns \ Settled, Pair(turn) \in Texts,
           Settled' = Settled \cup {turn}, UNCHANGED <<who, said, snap>>,
           \/ /\ handed' = [handed EXCEPT ![Pair(turn)] = @ + 1]
              /\ UNCHANGED <<queue, evicted>>
           \/ /\ queue' = Enqueued(turn) /\ evicted' = evicted \cup Overflow
              /\ UNCHANGED handed
    PROVE  Entries' /\ Balanced'
  <1>1. Settled \subseteq Turns
    BY DEF Settled
  <1>2. turn \notin ToSet(queue)
    BY DEF Entries
  <1>3. ASSUME NEW p \in Texts
        PROVE  /\ Counted(Settled', p)
                    = Counted(Settled, p) + IF Pair(turn) = p THEN 1 ELSE 0
               /\ Balance(handed[p], Counted(ToSet(queue), p), Counted(ToSet(snap["turn"]), p),
                          Counted(ToSet(snap["loop"]), p), Counted(Settled, p),
                          Counted(evicted, p))
    <2>1. Counted(Settled \cup {turn}, p)
            = Counted(Settled, p) + IF Pair(turn) = p THEN 1 ELSE 0
      <3> HIDE DEF Settled
      <3> QED
        BY <1>1, CountedIs
    <2> QED
      BY <2>1 DEF Balanced
  <1>4. CASE /\ handed' = [handed EXCEPT ![Pair(turn)] = @ + 1]
             /\ UNCHANGED <<queue, evicted>>
    <2>1. Entries'
      BY <1>4 DEF Entries
    <2>2. ASSUME NEW p \in Texts
          PROVE  Balance(handed'[p], Counted(ToSet(queue), p), Counted(ToSet(snap["turn"]), p),
                         Counted(ToSet(snap["loop"]), p), Counted(Settled', p),
                         Counted(evicted, p))
      <3> DEFINE one == IF Pair(turn) = p THEN 1 ELSE 0
      <3>1. handed'[p] = handed[p] + one
        BY <1>4 DEF ShapeInv, BookTypes
      <3>2. Counted(Settled', p) = Counted(Settled, p) + one /\ one \in {0, 1}
        BY <1>3
      <3> DEFINE q == Counted(ToSet(queue), p)
                 a == Counted(ToSet(snap["turn"]), p)
                 b == Counted(ToSet(snap["loop"]), p)
                 n == Counted(Settled, p)
                 e == Counted(evicted, p)
      <3>3. /\ q \in Nat /\ a \in Nat /\ b \in Nat /\ n \in Nat /\ e \in Nat
            /\ handed[p] \in Nat /\ Balance(handed[p], q, a, b, n, e)
        BY <1>3, CountsAre DEF Clients
      <3> HIDE DEF q, a, b, n, e, one
      <3>4. Balance(handed[p] + one, q, a, b, n + one, e)
        BY <3>2, <3>3, TurnBalances
      <3> QED
        BY <3>1, <3>2, <3>4 DEF q, a, b, n, e
    <2>3. Balanced'
      BY <1>4, <2>2 DEF Balanced, Counted
    <2> QED
      BY <2>1, <2>3
  <1>5. CASE /\ queue' = Enqueued(turn) /\ evicted' = evicted \cup Overflow
             /\ UNCHANGED handed
    <2>1. /\ IsInjective(queue') /\ ToSet(queue') = (ToSet(queue) \ Overflow) \cup {turn}
          /\ Overflow = {} \/ \E m \in ToSet(queue) : Overflow = {m}
      BY <1>2, <1>5, EnqueuedIs DEF MixInv, Entries
    <2>2. /\ ToSet(queue) \subseteq Settled \ evicted /\ evicted \subseteq Settled
          /\ Overflow \subseteq ToSet(queue)
      BY <2>1 DEF Entries
    <2>3. Entries'
      <3>1. ToSet(queue') \subseteq Settled' \ evicted' /\ evicted' \subseteq Settled'
        BY <1>5, <2>1, <2>2
      <3> QED
        BY <2>1, <3>1 DEF Entries
    <2>4. ASSUME NEW p \in Texts
          PROVE  Balance(handed[p], Counted(ToSet(queue'), p), Counted(ToSet(snap["turn"]), p),
                         Counted(ToSet(snap["loop"]), p), Counted(Settled', p),
                         Counted(evicted', p))
      <3> DEFINE one == IF Pair(turn) = p THEN 1 ELSE 0
      <3>1. PICK o \in {0, 1} :
              /\ Counted(ToSet(queue) \ Overflow, p) = Counted(ToSet(queue), p) - o
              /\ Counted(evicted', p) = Counted(evicted, p) + o
        <4>1. CASE Overflow = {}
          <5>1. ToSet(queue) \ Overflow = ToSet(queue) /\ evicted' = evicted
            BY <1>5, <4>1
          <5> QED
            BY <5>1, CountsAre
        <4>2. ASSUME NEW m \in ToSet(queue), Overflow = {m}
              PROVE  LET o == IF Pair(m) = p THEN 1 ELSE 0
                     IN  /\ Counted(ToSet(queue) \ Overflow, p) = Counted(ToSet(queue), p) - o
                         /\ Counted(evicted', p) = Counted(evicted, p) + o
          <5>1. m \in Turns /\ m \notin evicted /\ evicted' = evicted \cup {m}
            BY <1>1, <1>5, <2>2, <4>2
          <5>2. ToSet(queue) \in SUBSET Turns /\ evicted \in SUBSET Turns
            BY CountsAre
          <5> QED
            BY <4>2, <5>1, <5>2, CountedIs
        <4>3. Overflow = {} \/ \E m \in ToSet(queue) : Overflow = {m}
          BY <2>1
        <4> QED
          BY <4>1, <4>2, <4>3
      <3>2. Counted(ToSet(queue'), p) = Counted(ToSet(queue) \ Overflow, p) + one
        <4>1. ToSet(queue) \ Overflow \in SUBSET Turns /\ turn \notin ToSet(queue) \ Overflow
          BY <1>2, CountsAre
        <4>2. Counted((ToSet(queue) \ Overflow) \cup {turn}, p)
                = Counted(ToSet(queue) \ Overflow, p) + one
          BY <4>1, CountedIs
        <4> QED
          BY <2>1, <4>2
      <3>3. Counted(Settled', p) = Counted(Settled, p) + one /\ one \in {0, 1}
        BY <1>3
      <3> DEFINE q == Counted(ToSet(queue), p)
                 a == Counted(ToSet(snap["turn"]), p)
                 b == Counted(ToSet(snap["loop"]), p)
                 n == Counted(Settled, p)
                 e == Counted(evicted, p)
      <3>4. /\ q \in Nat /\ a \in Nat /\ b \in Nat /\ n \in Nat /\ e \in Nat
            /\ handed[p] \in Nat /\ Balance(handed[p], q, a, b, n, e)
        BY <1>3, CountsAre DEF Clients
      <3>5. /\ Counted(ToSet(queue'), p) = (q - o) + one
            /\ Counted(evicted', p) = e + o
        BY <3>1, <3>2
      <3> HIDE DEF q, a, b, n, e, one
      <3>6. Balance(handed[p], q - o + one, a, b, n + one, e + o)
        BY <3>1, <3>3, <3>4, TurnBalances
      <3> QED
        BY <3>3, <3>5, <3>6 DEF a, b, n
    <2>5. Balanced'
      BY <1>5, <2>4 DEF Balanced, Counted
    <2> QED
      BY <2>3, <2>5
  <1> QED
    BY <1>4, <1>5

LEMMA BooksStart == Init => Entries /\ Balanced
  <1> SUFFICES ASSUME Init PROVE Entries /\ Balanced
    OBVIOUS
  <1>1. /\ ToSet(queue) = {} /\ IsInjective(queue) /\ evicted = {} /\ Settled = {}
        /\ \A c \in Clients : ToSet(snap[c]) = {} /\ IsInjective(snap[c])
    BY DEF Init, ToSet, IsInjective, Settled
  <1>2. \A p : Counted({}, p) = 0
    <2>1. \A p : {m \in {} : <<who[m], said[m]>> = p} = {}
      OBVIOUS
    <2> QED
      BY <2>1, FS_EmptySet DEF Counted, Count
  <1>3. \A p \in Texts : handed[p] = 0
    BY DEF Init, Texts
  <1>4. Balanced
    BY <1>1, <1>2, <1>3 DEF Balanced, Balance, Clients
  <1> QED
    BY <1>1, <1>4 DEF Entries

\* A commit has ended.
LEMMA AfterCommitBooks ==
    ASSUME MixInv, ShapeInv, Entries, Balanced, NEW c \in Clients, NEW ok \in BOOLEAN,
           call[c] # NoCall, AfterCommit(c, ok), UNCHANGED <<turn, who, said>>,
           handed' = IF ok THEN [handed EXCEPT ![Pair(call[c].turn)] = @ + 1] ELSE handed
    PROVE  Entries' /\ Balanced'
  <1>1. CASE c = "turn" /\ AfterInline(ok)
    <2>1. phase = "commit" /\ call[c].turn = turn /\ UNCHANGED snap
      BY <1>1 DEF AfterInline, ShapeInv, Committing
    <2>2. turn \in Turns /\ said[turn] # "none" /\ Pair(turn) \in Texts /\ turn \in Int
      BY <2>1 DEF MixInv, PhaseInv, Spoken, Past, ShapeInv, Sayings, Turns
    <2>3. turn \notin Settled
      BY <2>1, <2>2 DEF Settled
    <2>4. CASE ~ok /\ attempt = 1
      <3>1. phase' = "pause" /\ UNCHANGED <<queue, evicted, handed>>
        BY <1>1, <2>4 DEF AfterInline
      <3>2. Settled' = Settled
        BY <2>1, <3>1 DEF Settled
      <3> HIDE DEF Settled
      <3> QED
        BY <2>1, <3>1, <3>2, BooksStay
    <2>5. CASE ok \/ attempt # 1
      <3>1. /\ phase' \in {"idle", "fact"}
            /\ \/ ok /\ UNCHANGED <<queue, evicted>>
               \/ ~ok /\ queue' = Enqueued(turn) /\ evicted' = evicted \cup Overflow
        BY <1>1, <2>5 DEF AfterInline, TurnSettles
      <3>2. Settled' = Settled \cup {turn}
        <4>1. \A n \in Turns : said[n] # "none" => (n < turn \/ n = turn)
          BY <2>2 DEF ShapeInv, Sayings, Turns
        <4>2. Settled' = {n \in Turns : said[n] # "none"}
          BY <3>1 DEF Settled
        <4>3. Settled = {n \in Turns : said[n] # "none" /\ n < turn}
          BY <2>1 DEF Settled
        <4> QED
          BY <2>2, <4>1, <4>2, <4>3
      <3> HIDE DEF Settled
      <3>3. CASE ok
        <4>1. handed' = [handed EXCEPT ![Pair(turn)] = @ + 1] /\ UNCHANGED <<queue, evicted>>
          BY <2>1, <3>1, <3>3
        <4> QED
          BY <2>1, <2>2, <2>3, <3>2, <4>1, BooksInline
      <3>4. CASE ~ok
        <4>1. queue' = Enqueued(turn) /\ evicted' = evicted \cup Overflow /\ UNCHANGED handed
          BY <3>1, <3>4
        <4> QED
          BY <2>1, <2>2, <2>3, <3>2, <4>1, BooksInline
      <3> QED
        BY <3>3, <3>4
    <2> QED
      BY <2>4, <2>5
  <1>2. CASE AfterQueued(c, ok)
    <2>1. /\ c = "loop" \/ phase = "flush"
          /\ queue' = IF ok THEN Removed(call[c].turn) ELSE queue
          /\ snap' = [snap EXCEPT ![c] = Tail(snap[c])] /\ UNCHANGED evicted
          /\ phase' = phase \/ (phase = "flush" /\ phase' = "listen")
      BY <1>2 DEF AfterQueued, Clients
    <2>2. snap[c] # <<>> /\ call[c].turn = Head(snap[c])
      BY <2>1 DEF MixInv, PhaseInv, ShapeInv, Committing, Clients
    <2>3. Settled' = Settled
      BY <2>1 DEF Settled
    <2>4. /\ queue' = IF ok THEN Removed(Head(snap[c])) ELSE queue
          /\ handed' = IF ok THEN [handed EXCEPT ![Pair(Head(snap[c]))] = @ + 1] ELSE handed
      BY <2>1, <2>2
    <2> HIDE DEF Settled
    <2> QED
      BY <2>1, <2>2, <2>3, <2>4, BooksFlush
  <1> QED
    BY <1>1, <1>2 DEF AfterCommit

LEMMA BooksSteps ==
    MixInv /\ ShapeInv /\ Entries /\ Balanced /\ [Next]_vars => Entries' /\ Balanced'
  <1> SUFFICES ASSUME MixInv, ShapeInv, Entries, Balanced, [Next]_vars
               PROVE  Entries' /\ Balanced'
    OBVIOUS
  <1> USE DEF memoryVars
  <1>1. ASSUME Settled' = Settled, UNCHANGED <<who, said, queue, snap, handed, evicted>>
        PROVE  Entries' /\ Balanced'
    <2> HIDE DEF Settled
    <2> QED
      BY <1>1, BooksStay
  <1>2. ASSUME UNCHANGED <<turn, said>>,
               phase' \in {"commit", "pause"} <=> phase \in {"commit", "pause"}
        PROVE  Settled' = Settled
    BY <1>2 DEF Settled
  <1>3. CASE UNCHANGED vars
    BY <1>1, <1>2, <1>3 DEF vars, turnVars
  <1>4. CASE Hear
    <2>1. /\ phase = "idle" /\ phase' \in {"listen", "flush"}
          /\ UNCHANGED <<who, said, queue, handed, evicted>>
      BY <1>4 DEF Hear
    <2>2. Settled' = Settled
      BY <2>1 DEF Settled
    <2>3. CASE queue = <<>>
      BY <1>1, <1>4, <2>1, <2>2, <2>3 DEF Hear
    <2>4. CASE queue # <<>>
      <3>1. snap' = [snap EXCEPT !["turn"] = queue] /\ snap["turn"] = <<>>
        BY <1>4, <2>1, <2>4 DEF Hear, ShapeInv, Committing
      <3> HIDE DEF Settled
      <3> QED
        BY <2>1, <2>2, <3>1, BooksSnap DEF Clients
    <2> QED
      BY <2>3, <2>4
  <1>5. CASE NotUnderstood
    BY <1>1, <1>2, <1>5 DEF NotUnderstood, turnVars
  <1>6. ASSUME NEW s \in Speakers, Identify(s) PROVE Entries' /\ Balanced'
    <2>1. /\ phase = "listen" /\ phase' = "known" /\ who' = [who EXCEPT ![turn] = s]
          /\ UNCHANGED <<turn, said, queue, snap, handed, evicted>>
      BY <1>6 DEF Identify
    <2>2. Settled' = Settled
      BY <1>2, <2>1
    <2>3. turn # 0 /\ said[turn] = "none"
      BY <2>1 DEF MixInv, PhaseInv, ShapeInv, Sayings
    <2>4. \A m \in Settled : who'[m] = who[m] /\ said'[m] = said[m]
      BY <2>1, <2>3 DEF Settled, MixInv, CommitTypes
    <2> HIDE DEF Settled
    <2> QED
      BY <2>1, <2>2, <2>4, BooksStay
  <1>7. CASE Retrieve
    <2>1. phase = "known" /\ phase' \in {"retrieve", "stream"}
      BY <1>7 DEF Retrieve
    <2> QED
      BY <1>1, <1>2, <1>7, <2>1 DEF Retrieve, turnVars
  <1>8. CASE Aborted
    BY <1>1, <1>2, <1>8 DEF Aborted, turnVars
  <1>9. ASSUME NEW r \in Replies, Answer(r) PROVE Entries' /\ Balanced'
    <2>1. /\ phase = "stream" /\ phase' = "commit" /\ said' = [said EXCEPT ![turn] = r]
          /\ UNCHANGED <<turn, who, queue, snap, handed, evicted>>
      BY <1>9 DEF Answer
    <2>2. turn \in Turns /\ said[turn] = "none"
      BY <2>1 DEF MixInv, PhaseInv, Spoken, Past, ShapeInv, Sayings
    <2>3. \A n \in Turns \ {turn} : said'[n] = said[n]
      BY <2>1 DEF ShapeInv, BookTypes
    <2>4. Settled' = Settled
      <3>1. \A n \in Turns \ {turn} : said[n] # "none" => n < turn
        <4>1. \A n \in Turns \ {turn} : n \in Int /\ turn \in Int /\ n # turn
          BY <2>2 DEF Turns
        <4> QED
          BY <4>1 DEF ShapeInv, Sayings
      <3>2. ~(turn < turn)
        BY <2>2 DEF Turns
      <3> QED
        BY <2>1, <2>2, <2>3, <3>1, <3>2 DEF Settled
    <2>5. \A m \in Settled : who'[m] = who[m] /\ said'[m] = said[m]
      BY <2>1, <2>2, <2>3 DEF Settled
    <2> HIDE DEF Settled
    <2> QED
      BY <2>1, <2>4, <2>5, BooksStay
  <1>10. CASE TryAgain
    BY <1>1, <1>2, <1>10 DEF TryAgain
  <1>11. CASE Wake
    <2>1. loop = "sleep" /\ UNCHANGED <<phase, turn, who, said, queue, handed, evicted>>
      BY <1>11 DEF Wake, turnVars
    <2>2. Settled' = Settled
      BY <1>2, <2>1
    <2>3. CASE queue = <<>>
      BY <1>1, <1>11, <2>1, <2>2, <2>3 DEF Wake
    <2>4. CASE queue # <<>>
      <3>1. snap' = [snap EXCEPT !["loop"] = queue] /\ snap["loop"] = <<>>
        BY <1>11, <2>1, <2>4 DEF Wake, ShapeInv, Committing
      <3> HIDE DEF Settled
      <3> QED
        BY <2>1, <2>2, <3>1, BooksSnap DEF Clients
    <2> QED
      BY <2>3, <2>4
  <1>12. CASE WindowPasses
    BY <1>1, <1>2, <1>12 DEF WindowPasses, turnVars
  <1>13. CASE BackendChanges
    BY <1>1, <1>2, <1>13 DEF BackendChanges, turnVars
  <1>14. ASSUME NEW c \in Clients, Accepted(c) \/ IngestFailed(c) \/ Rejected(c)
         PROVE  Entries' /\ Balanced'
    <2>1. call[c] # NoCall
      <3>1. call[c].step \in {"ingest", "failed"}
        BY <1>14 DEF Accepted, IngestFailed, Rejected
      <3> QED
        BY <3>1, CallsAre
    <2>2. PICK ok \in BOOLEAN :
            /\ AfterCommit(c, ok)
            /\ handed' = IF ok THEN [handed EXCEPT ![Pair(call[c].turn)] = @ + 1] ELSE handed
      BY <1>14 DEF Accepted, IngestFailed, Rejected
    <2>3. UNCHANGED <<turn, who, said>>
      BY <1>14 DEF Accepted, IngestFailed, Rejected, turnVars
    <2> QED
      BY <2>1, <2>2, <2>3, AfterCommitBooks
  <1>15. ASSUME NEW c \in Clients, Constructed(c) \/ ConstructFailed(c)
         PROVE  Entries' /\ Balanced'
    <2>1. UNCHANGED <<turn, who, said, queue, snap, handed, evicted>>
      BY <1>15 DEF Constructed, ConstructFailed, turnVars
    <2>2. \/ call[c].for = "retrieve" /\ phase' = "stream"
          \/ call[c].for = "fact" /\ phase' = "idle"
          \/ phase' = phase
      BY <1>15 DEF Constructed, ConstructFailed, WithFacade
    <2>3. /\ call[c].for = "retrieve" => phase = "retrieve"
          /\ call[c].for = "fact" => phase = "fact"
      BY DEF MixInv, PhaseInv, ShapeInv, Committing, Clients
    <2>4. Settled' = Settled
      BY <1>2, <2>1, <2>2, <2>3
    <2> QED
      BY <1>1, <2>1, <2>4
  <1>16. ASSUME NEW p \in Texts, Stores(p) PROVE Entries' /\ Balanced'
    BY <1>1, <1>2, <1>16 DEF Stores, turnVars, bridgeVars
  <1> QED
    BY <1>3, <1>4, <1>5, <1>6, <1>7, <1>8, <1>9, <1>10, <1>11, <1>12, <1>13, <1>14, <1>15, <1>16
       DEF Next, TurnStep, ThreadReturns, Texts

LEMMA BooksInvariant == Spec => []BooksInv
  <1>1. Init => BooksInv
    BY MixStarts, ShapeStarts, BooksStart DEF BooksInv
  <1>2. BooksInv /\ [Next]_vars => BooksInv'
    BY MixSteps, ShapeSteps, BooksSteps DEF BooksInv
  <1> QED
    BY <1>1, <1>2, PTL DEF Spec

\* No reply is forgotten and none is handed over more than twice, with any number of
\* turns, speakers and equal replies, and however the turns' flushes and the
\* background task's meet (_commit_reply_with_retry, retry_pending_commits).
THEOREM NoReplyIsForgotten == Spec => []CommitsAccounted
  <1>1. BooksInv => CommitsAccounted
    <2> SUFFICES ASSUME BooksInv PROVE CommitsAccounted
      OBVIOUS
    <2>1. TypeOK
      BY DEF BooksInv, MixInv, CommitTypes, ShapeInv, BookTypes, TypeOK, Texts
    <2>2. ASSUME NEW n \in Turns, said[n] # "none"
          PROVE  LET p == Pair(n)
                 IN  /\ p \in Texts /\ handed[p] \in Nat
                     /\ Cardinality(SettledLike(n)) = Counted(Settled, p)
                     /\ TimesQueued(n) = Counted(ToSet(queue), p)
                     /\ Cardinality(SettledLike(n) \cap evicted) = Counted(evicted, p)
                     /\ Counted(Settled, p) \in Nat /\ Counted(ToSet(queue), p) \in Nat
                     /\ Counted(evicted, p) \in Nat
                     /\ Counted(ToSet(snap["turn"]), p) \in Nat
                     /\ Counted(ToSet(snap["loop"]), p) \in Nat
                     /\ Balance(handed[p], Counted(ToSet(queue), p),
                                Counted(ToSet(snap["turn"]), p), Counted(ToSet(snap["loop"]), p),
                                Counted(Settled, p), Counted(evicted, p))
      <3> DEFINE p == Pair(n)
      <3>1. p \in Texts
        BY <2>2 DEF BooksInv, ShapeInv, Sayings
      <3>2. evicted \subseteq Settled
        BY DEF BooksInv, Entries
      <3> HIDE DEF Settled
      <3>3. /\ SettledLike(n) = {m \in Settled : <<who[m], said[m]>> = p}
            /\ SettledLike(n) \cap evicted = {m \in evicted : <<who[m], said[m]>> = p}
            /\ {m \in ToSet(queue) : SameReply(m, n)}
                 = {m \in ToSet(queue) : <<who[m], said[m]>> = p}
        BY <3>2 DEF SettledLike, SameReply, Pair
      <3>4. Balance(handed[p], Counted(ToSet(queue), p), Counted(ToSet(snap["turn"]), p),
                    Counted(ToSet(snap["loop"]), p), Counted(Settled, p), Counted(evicted, p))
        BY <3>1 DEF BooksInv, Balanced
      <3> HIDE DEF p
      <3>5. /\ handed[p] \in Nat
            /\ Counted(Settled, p) \in Nat /\ Counted(ToSet(queue), p) \in Nat
            /\ Counted(evicted, p) \in Nat
            /\ Counted(ToSet(snap["turn"]), p) \in Nat
            /\ Counted(ToSet(snap["loop"]), p) \in Nat
        BY <3>1, CountsAre DEF BooksInv, Clients
      <3>6. /\ Cardinality(SettledLike(n)) = Counted(Settled, p)
            /\ TimesQueued(n) = Counted(ToSet(queue), p)
            /\ Cardinality(SettledLike(n) \cap evicted) = Counted(evicted, p)
        BY <3>3 DEF Counted, Count, TimesQueued
      <3> QED
        BY <3>1, <3>4, <3>5, <3>6 DEF p
    <2>3. NothingForgotten
      <3> SUFFICES ASSUME NEW n \in Settled
                   PROVE  Cardinality(SettledLike(n))
                            <= handed[Pair(n)] + TimesQueued(n)
                                 + Cardinality(SettledLike(n) \cap evicted)
        BY DEF NothingForgotten
      <3>1. n \in Turns /\ said[n] # "none"
        BY DEF Settled
      <3> HIDE DEF Settled
      <3> QED
        BY <2>2, <3>1 DEF Balance
    <2>4. StoredTwiceAtMost
      <3> SUFFICES ASSUME NEW n \in Turns, said[n] # "none"
                   PROVE  handed[Pair(n)] <= 2 * Cardinality({m \in Turns : SameReply(m, n)})
        BY DEF StoredTwiceAtMost
      <3> DEFINE like == {m \in Turns : SameReply(m, n)}
      <3>1. SettledLike(n) \subseteq like
        BY DEF SettledLike, Settled
      <3>2. IsFiniteSet(like)
        BY TurnsFinite
      <3>3. Cardinality(SettledLike(n)) <= Cardinality(like) /\ Cardinality(like) \in Nat
        BY <3>1, <3>2, FS_Subset, FS_CardinalityType
      <3> HIDE DEF like, Settled
      <3>4. PICK s \in Nat, q \in Nat, a \in Nat, b \in Nat, k \in Nat, e \in Nat :
              /\ s = handed[Pair(n)] /\ k = Cardinality(SettledLike(n))
              /\ Balance(s, q, a, b, k, e)
        BY <2>2
      <3>5. PICK l \in Nat : l = Cardinality(like) /\ k <= l
        BY <3>3, <3>4
      <3>6. s <= 2 * l
        BY <3>4, <3>5 DEF Balance
      <3> QED
        BY <3>4, <3>5, <3>6 DEF like
    <2> QED
      BY <2>1, <2>3, <2>4 DEF CommitsAccounted
  <1> QED
    BY BooksInvariant, <1>1, PTL

=============================================================================
