--------------------------- MODULE WebPartsProofs ---------------------------
(***************************************************************************)
(* Theorems about parts of the web server that share no state: the memory  *)
(* spaces, the choice of the model, the voices and the audio diagnosis;    *)
(* for every set of names, threads, requests and clients, and every bound. *)
(***************************************************************************)
EXTENDS MemorySpaces, ModelSelection, VoiceEngine, AudioDiagnosis, FiniteSetTheorems, TLAPS

(***************************************************************************)
(* The memory spaces: types, and what an update of a thread leaves alone.  *)
(***************************************************************************)

Places == {"new", "read", "merge", "write", "facade", "build", "got", "none", "done", "look",
           "busy", "ending"}

JobRecords == [pc : Places, op : Ops, space : Names \cup {"none"}, names : SUBSET Names]

\* A thread that is past the registry's first lines has its space.
Placed ==
    \A j \in Jobs : \/ job[j].pc \in {"merge", "read", "write", "build", "got"}
                    \/ job[j].pc = "facade" /\ j.for = "request"
        => job[j].space \in Names

SpacesTypes == TypeOK /\ job \in [Jobs -> JobRecords] /\ Placed

LEMMA JobFacts ==
    /\ NewJob \in JobRecords /\ NewJob.pc = "new" /\ NewJob.op = "none"
    /\ OldJob \in JobRecords /\ OldJob.pc = "done" /\ OldJob.op = "none"
  BY DEF NewJob, OldJob, JobRecords, Places, Ops

\* What one thread does leaves the others alone.
LEMMA OneJob ==
    ASSUME job \in [Jobs -> JobRecords], NEW j \in Jobs, NEW r \in JobRecords,
           job' = [job EXCEPT ![j] = r]
    PROVE  /\ job' \in [Jobs -> JobRecords]
           /\ job'[j] = r
           /\ \A k \in Jobs : k # j => job'[k] = job[k]
  OBVIOUS

\* A thread that goes on keeps its request; one that ends forgets it.
LEMMA GoesFacts ==
    ASSUME job \in [Jobs -> JobRecords], NEW j \in Jobs, NEW pc \in Places, Goes(j, pc)
    PROVE  /\ job' \in [Jobs -> JobRecords]
           /\ \A k \in Jobs : k # j => job'[k] = job[k]
           /\ job'[j].pc = pc
           /\ pc = "done" => job'[j] = OldJob
           /\ pc # "done" => /\ job'[j].op = job[j].op
                             /\ job'[j].space = job[j].space
                             /\ job'[j].names = job[j].names
  <1>1. CASE pc = "done"
    BY <1>1, JobFacts DEF Goes
  <1>2. CASE pc # "done"
    <2>1. job' = [job EXCEPT ![j] = [job[j] EXCEPT !.pc = pc]]
      BY <1>2 DEF Goes
    <2>2. [job[j] EXCEPT !.pc = pc] \in JobRecords
      BY DEF JobRecords
    <2> QED
      BY <1>2, <2>1, <2>2 DEF JobRecords
  <1> QED
    BY <1>1, <1>2

\* The threads of a turn and the warm-up are no requests, nor each other.
LEMMA ThreadFacts ==
    /\ WarmUp \in Jobs /\ WarmUp \in Threads /\ WarmUp.for = "warm"
    /\ WarmUp \notin Searches /\ WarmUp \notin Ingests
    /\ \A p \in Pairs : /\ SearchOf(p) \in Jobs /\ SearchOf(p).for = "search"
                        /\ SearchOf(p) \in Searches /\ SearchOf(p).pair = p
                        /\ IngestOf(p) \in Jobs /\ IngestOf(p).for = "ingest"
                        /\ IngestOf(p) \in Ingests /\ IngestOf(p).pair = p
    /\ \A j \in Ingests : j.pair \in Pairs /\ j = IngestOf(j.pair) /\ j \notin Searches
    /\ \A j \in Searches : j.pair \in Pairs /\ j = SearchOf(j.pair) /\ j \notin Ingests
    /\ \A j \in Threads : j.for # "request"
    /\ \A j \in Jobs : j.for = "request" => j \notin Threads
    /\ \A j \in Jobs : j \in Threads \/ j.for = "request"
    /\ Threads \subseteq Jobs
  BY DEF WarmUp, Threads, Jobs, Searches, Ingests, SearchOf, IngestOf

\* The same of a thread that is abandoned.
LEMMA AbandonFacts ==
    ASSUME job \in [Jobs -> JobRecords], NEW p \in Pairs, Abandons(p)
    PROVE  /\ job' \in [Jobs -> JobRecords]
           /\ \A k \in Jobs : k # SearchOf(p) => job'[k] = job[k]
           /\ \/ job'[SearchOf(p)] = job[SearchOf(p)]
              \/ job[SearchOf(p)].pc \in {"got", "none"} /\ job'[SearchOf(p)] = OldJob
  BY JobFacts, ThreadFacts DEF Abandons

LEMMA SpacesTypesInit == Init => SpacesTypes
  <1> SUFFICES ASSUME Init PROVE SpacesTypes
    OBVIOUS
  <1>1. chip \in Chip
    BY DEF Init, NewChip, Chip, ChipStates
  <1>2. job \in [Jobs -> JobRecords]
    BY JobFacts DEF Init
  <1>3. \A j \in Jobs : /\ job[j].op \in Ops /\ job[j].space \in Names \cup {"none"}
                        /\ job[j].names \subseteq Names
                        /\ job[j].pc \in Places
    BY <1>2 DEF JobRecords
  <1>4. pair \in [Pairs -> {"new", "search", "said", "ingest", "over"}]
    BY DEF Init
  <1>5. since \in [Pairs -> SUBSET Names] /\ stored \in [Pairs -> Names \cup {"none"}]
    BY DEF Init
  <1>6. Placed
    BY JobFacts DEF Init, Placed
  <1> QED
    BY <1>1, <1>2, <1>3, <1>4, <1>5, <1>6 DEF Init, SpacesTypes, TypeOK, Names, Places

\* Typed jobs are what TypeOK says of them.
LEMMA SpacesTypesBy ==
    ASSUME SpacesTypes, job' \in [Jobs -> JobRecords], Placed',
           registry' \subseteq Names \/ registry' = Torn,
           facades' \subseteq Names, failed' \in BOOLEAN, active' \in Names, chip' \in Chip,
           pair' \in [Pairs -> {"new", "search", "said", "ingest", "over"}],
           kept' \subseteq Spaces, damaged' \in BOOLEAN, loose' \in BOOLEAN,
           since' \in [Pairs -> SUBSET Names],
           stored' \in [Pairs -> Names \cup {"none"}]
    PROVE  SpacesTypes'
  <1>1. \A j \in Jobs : /\ job'[j].op \in Ops /\ job'[j].space \in Names \cup {"none"}
                        /\ job'[j].names \subseteq Names
                        /\ job'[j].pc \in Places
    BY DEF JobRecords
  <1> QED
    BY <1>1 DEF SpacesTypes, TypeOK, Places

\* What the types give each step.
LEMMA SpacesFacts ==
    ASSUME SpacesTypes
    PROVE  /\ registry \subseteq Names \/ registry = Torn
           /\ facades \subseteq Names /\ failed \in BOOLEAN /\ active \in Names
           /\ chip \in Chip
           /\ pair \in [Pairs -> {"new", "search", "said", "ingest", "over"}]
           /\ job \in [Jobs -> JobRecords] /\ Placed
           /\ \A j \in Jobs : job[j].pc \in Places /\ job[j].op \in Ops
                                /\ job[j].space \in Names \cup {"none"}
                                /\ job[j].names \subseteq Names
           /\ kept \subseteq Spaces /\ damaged \in BOOLEAN /\ loose \in BOOLEAN
           /\ since \in [Pairs -> SUBSET Names]
           /\ stored \in [Pairs -> Names \cup {"none"}]
           /\ Registered \subseteq Names /\ Demo \in Names
           /\ \A n : Found(n) \in {"got", "none", "build"}
                       /\ (Found(n) = "got" => n \in facades)
           /\ \A j, pc : Answer(j, pc) \in {pc, "done"}
           /\ \A j \in Jobs : j \notin Searches => \A pc : Answer(j, pc) = pc
  BY DEF SpacesTypes, TypeOK, Registered, Names, Found, Answer, Places

\* The methods of the memory chip.
LEMMA ChipFacts ==
    ASSUME NEW c \in Chip
    PROVE  /\ c.state \in ChipStates
           /\ c.state # "processing" => Ended(c).state # "processing"
                                          /\ Completed(c).state # "processing"
           /\ c.prev # "processing" => Ended(c).state # "processing"
                                         /\ Completed(c).state # "processing"
           /\ Set(c, "error") \in Chip /\ Set(c, "error").state = "error"
                /\ Set(c, "error").prev = c.prev
           /\ Begun(c) \in Chip /\ Begun(c).state = "processing"
                /\ (c.prev # "processing" => Begun(c).prev # "processing")
           /\ Ended(c) \in Chip /\ Ended(c).prev = ""
           /\ Completed(c) \in Chip /\ Completed(c).prev = ""
           /\ NewChip("ready") \in Chip /\ NewChip("ready").state = "ready"
                /\ NewChip("ready").prev = ""
           /\ NewChip(Before(c)) \in Chip /\ NewChip(Before(c)).prev = ""
                /\ (c.prev # "processing" => NewChip(Before(c)).state # "processing")
           /\ [state |-> "processing", prev |-> c.state] \in Chip
           /\ [state |-> "processing", prev |-> c.prev] \in Chip
  <1>1. \A s \in ChipStates : Set(c, s) \in Chip /\ Set(c, s).state = s /\ Set(c, s).prev = c.prev
    BY DEF Set, Chip
  <1>2. Before(c) \in ChipStates /\ (c.prev # "processing" => Before(c) # "processing")
    BY DEF Before, Chip, ChipStates
  <1>3. /\ Ended(c) \in Chip /\ Ended(c).prev = ""
        /\ Ended(c).state = IF c.state = "processing" THEN Before(c) ELSE c.state
    BY <1>2 DEF Ended, Chip
  <1>4. /\ Set(Ended(c), "ready") \in Chip /\ Set(Ended(c), "ready").state = "ready"
        /\ Set(Ended(c), "ready").prev = ""
    BY <1>3 DEF Set, Chip, ChipStates
  <1>5. /\ Completed(c) \in Chip /\ Completed(c).prev = ""
        /\ Completed(c).state = "ready" \/ Completed(c).state = Ended(c).state
    BY <1>3, <1>4 DEF Completed
  <1>6. /\ Begun(c) \in Chip /\ Begun(c).state = "processing"
        /\ (c.prev # "processing" => Begun(c).prev # "processing")
    BY DEF Begun, Chip, ChipStates
  <1>7. /\ NewChip("ready") \in Chip /\ NewChip("ready").state = "ready"
             /\ NewChip("ready").prev = ""
        /\ NewChip(Before(c)) \in Chip /\ NewChip(Before(c)).prev = ""
             /\ NewChip(Before(c)).state = Before(c)
    BY <1>2 DEF NewChip, Chip, ChipStates
  <1>8. /\ c.state \in ChipStates
        /\ [state |-> "processing", prev |-> c.state] \in Chip
        /\ [state |-> "processing", prev |-> c.prev] \in Chip
    BY DEF Chip, ChipStates
  <1> QED
    BY <1>1, <1>2, <1>3, <1>5, <1>6, <1>7, <1>8 DEF ChipStates

\* What a step does to one thread keeps the places of all.
LEMMA PlacedBy ==
    ASSUME SpacesTypes, NEW j \in Jobs,
           \A k \in Jobs : k # j => job'[k] = job[k],
           \/ job'[j].pc \in {"new", "none", "done", "look", "busy", "ending"}
           \/ job'[j].pc = "facade" /\ j.for # "request"
           \/ job'[j].space \in Names
    PROVE  Placed'
  <1>1. Placed
    BY DEF SpacesTypes
  <1>2. ASSUME NEW k \in Jobs,
               \/ job'[k].pc \in {"merge", "read", "write", "build", "got"}
               \/ job'[k].pc = "facade" /\ k.for = "request"
        PROVE  job'[k].space \in Names
    <2>1. CASE k = j
      BY <1>2, <2>1
    <2>2. CASE k # j
      BY <1>1, <1>2, <2>2 DEF Placed
    <2> QED
      BY <2>1, <2>2
  <1> QED
    BY <1>2 DEF Placed

\* What the threads of the registry and of the facades do to their job.
LEMMA ThreadJobs ==
    ASSUME SpacesTypes, NEW j \in Jobs, Thread(j)
    PROVE  /\ job' \in [Jobs -> JobRecords] /\ Placed'
           /\ \A k \in Jobs : k # j => job'[k] = job[k]
           /\ Reread(j) => /\ job'[j].pc = "read" /\ job'[j].space = job[j].space
                           /\ job'[j].names = Registered \cup {job[j].space}
           /\ Truncate(j) => /\ job'[j].pc = "write" /\ job'[j].space = job[j].space
                             /\ job'[j].names = job[j].names
           /\ Write(j) => job'[j].pc = "facade" /\ job'[j].space = job[j].space
           /\ ThreadStarts(j) => job'[j].pc = Found(active) /\ job'[j].space = active
           /\ Opens(j) => job'[j].pc = Found(job[j].space) /\ job'[j].space = job[j].space
           /\ Built(j) => \/ job'[j].pc = "got" /\ job'[j].space = job[j].space
                          \/ job'[j].pc = "done" /\ j \in Searches
           /\ BuildFails(j) => \/ job'[j].pc = "none"
                               \/ job'[j].pc = "done" /\ j \in Searches
           /\ Respond(j) => job'[j].pc = "done"
           /\ job'[j].pc \in {"new", "done"} => Respond(j) \/ j \in Searches
  <1> DEFINE Same == \A k \in Jobs : k # j => job'[k] = job[k]
             Typed == job' \in [Jobs -> JobRecords]
  <1>1. ASSUME Reread(j)
        PROVE  /\ Typed /\ Placed' /\ Same
               /\ job'[j].pc = "read" /\ job'[j].space = job[j].space
               /\ job'[j].names = Registered \cup {job[j].space}
    <2>1. job[j].pc = "merge" /\ job[j].space \in Names /\ job[j] \in JobRecords
             /\ job \in [Jobs -> JobRecords] /\ Registered \subseteq Names
      BY <1>1, SpacesFacts DEF Reread, Placed
    <2> DEFINE r == [[job[j] EXCEPT !.pc = "read"] EXCEPT !.names = Registered \cup {job[j].space}]
    <2>2. job' = [job EXCEPT ![j] = r]
      BY <1>1, <2>1 DEF Reread
    <2>3. r \in JobRecords /\ r.pc = "read" /\ r.space = job[j].space
             /\ r.names = Registered \cup {job[j].space}
      BY <2>1 DEF JobRecords, Places
    <2> HIDE DEF r
    <2>4. Typed /\ job'[j] = r /\ Same
      BY <2>1, <2>2, <2>3, OneJob
    <2>5. Placed'
      BY <2>1, <2>3, <2>4, PlacedBy
    <2> QED
      BY <2>1, <2>3, <2>4, <2>5
  <1>2. ASSUME Truncate(j)
        PROVE  /\ Typed /\ Placed' /\ Same
               /\ job'[j].pc = "write" /\ job'[j].space = job[j].space
               /\ job'[j].names = job[j].names
    <2>1. /\ Typed /\ Same
          /\ job'[j].pc = "write" /\ job'[j].space = job[j].space /\ job'[j].names = job[j].names
      BY <1>2, SpacesFacts, GoesFacts DEF Truncate, Places
    <2>2. job[j].space \in Names
      BY <1>2, SpacesFacts DEF Truncate, Placed
    <2> QED
      BY <2>1, <2>2, PlacedBy
  <1>3. ASSUME Write(j)
        PROVE  /\ Typed /\ Placed' /\ Same
               /\ job'[j].pc = "facade" /\ job'[j].space = job[j].space
    <2>1. job[j].pc \in {"read", "write"} /\ job[j].space \in Names /\ job[j] \in JobRecords
             /\ job \in [Jobs -> JobRecords]
      BY <1>3, SpacesFacts DEF Write, Placed
    <2> DEFINE r == [[job[j] EXCEPT !.pc = "facade"] EXCEPT !.names = {}]
    <2>2. job' = [job EXCEPT ![j] = r]
      BY <1>3, <2>1 DEF Write
    <2>3. r \in JobRecords /\ r.pc = "facade" /\ r.space = job[j].space
      BY <2>1 DEF JobRecords, Places
    <2> HIDE DEF r
    <2>4. Typed /\ job'[j] = r /\ Same
      BY <2>1, <2>2, <2>3, OneJob
    <2>5. Placed'
      BY <2>1, <2>3, <2>4, PlacedBy
    <2> QED
      BY <2>3, <2>4, <2>5
  <1>4. ASSUME ThreadStarts(j)
        PROVE  /\ Typed /\ Placed' /\ Same
               /\ job'[j].pc = Found(active) /\ job'[j].space = active
    <2>1. active \in Names /\ job[j] \in JobRecords /\ job \in [Jobs -> JobRecords]
             /\ Found(active) \in {"got", "none", "build"}
      BY SpacesFacts
    <2> DEFINE r == [[job[j] EXCEPT !.space = active] EXCEPT !.pc = Found(active)]
    <2>2. job' = [job EXCEPT ![j] = r]
      BY <1>4, <2>1 DEF ThreadStarts
    <2>3. r \in JobRecords /\ r.pc = Found(active) /\ r.space = active
      BY <2>1 DEF JobRecords, Places
    <2> HIDE DEF r
    <2>4. Typed /\ job'[j] = r /\ Same
      BY <2>1, <2>2, <2>3, OneJob
    <2>5. Placed'
      BY <2>1, <2>3, <2>4, PlacedBy
    <2> QED
      BY <2>3, <2>4, <2>5
  <1>5. ASSUME Opens(j)
        PROVE  /\ Typed /\ Placed' /\ Same
               /\ job'[j].pc = Found(job[j].space) /\ job'[j].space = job[j].space
    <2>1. job[j].space \in Names /\ Found(job[j].space) \in {"got", "none", "build"}
      BY <1>5, SpacesFacts DEF Opens, Placed
    <2>2. /\ Typed /\ Same
          /\ job'[j].pc = Found(job[j].space) /\ job'[j].space = job[j].space
      BY <1>5, <2>1, SpacesFacts, GoesFacts DEF Opens, Places
    <2> QED
      BY <2>1, <2>2, PlacedBy
  <1>6. ASSUME Built(j)
        PROVE  /\ Typed /\ Placed' /\ Same
               /\ \/ job'[j].pc = "got" /\ job'[j].space = job[j].space
                  \/ job'[j].pc = "done" /\ j \in Searches
    <2>1. job[j].space \in Names /\ Answer(j, "got") \in {"got", "done"}
             /\ (j \notin Searches => Answer(j, "got") = "got")
      BY <1>6, SpacesFacts DEF Built, Placed
    <2>2. /\ Typed /\ Same /\ job'[j].pc = Answer(j, "got")
          /\ Answer(j, "got") # "done" => job'[j].space = job[j].space
      BY <1>6, <2>1, SpacesFacts, GoesFacts DEF Built, Places
    <2> QED
      BY <2>1, <2>2, PlacedBy
  <1>7. ASSUME BuildFails(j)
        PROVE  /\ Typed /\ Placed' /\ Same
               /\ \/ job'[j].pc = "none"
                  \/ job'[j].pc = "done" /\ j \in Searches
    <2>1. Answer(j, "none") \in {"none", "done"} /\ (j \notin Searches => Answer(j, "none") = "none")
      BY SpacesFacts
    <2>2. Typed /\ Same /\ job'[j].pc = Answer(j, "none")
      BY <1>7, <2>1, SpacesFacts, GoesFacts DEF BuildFails, Places
    <2> QED
      BY <2>1, <2>2, PlacedBy
  <1>8. ASSUME Respond(j)
        PROVE  Typed /\ Placed' /\ Same /\ job'[j].pc = "done"
    <2>1. Typed /\ Same /\ job'[j].pc = "done"
      BY <1>8, SpacesFacts, GoesFacts DEF Respond, Places
    <2> QED
      BY <2>1, PlacedBy
  <1>9. Found(active) \in {"got", "none", "build"} /\ \A n : Found(n) \notin {"new", "done"}
    BY SpacesFacts
  <1> QED
    BY <1>1, <1>2, <1>3, <1>4, <1>5, <1>6, <1>7, <1>8, <1>9 DEF Thread

\* What a turn does to its two threads.
LEMMA TurnJobs ==
    ASSUME SpacesTypes, NEW p \in Pairs, Turn(p)
    PROVE  /\ job' \in [Jobs -> JobRecords] /\ Placed'
           /\ \A k \in Jobs : k # SearchOf(p) /\ k # IngestOf(p) => job'[k] = job[k]
           /\ \/ job'[SearchOf(p)] = job[SearchOf(p)]
              \/ job'[SearchOf(p)].pc \in {"facade", "done"}
           /\ \/ job'[IngestOf(p)] = job[IngestOf(p)]
              \/ job'[IngestOf(p)].pc = "facade" /\ IngestStarts(p)
              \/ job'[IngestOf(p)].pc = "done"
           /\ Ingested(p) \/ IngestFails(p) => job'[IngestOf(p)].pc = "done"
  <1> DEFINE Good ==
               /\ job' \in [Jobs -> JobRecords] /\ Placed'
               /\ \A k \in Jobs : k # SearchOf(p) /\ k # IngestOf(p) => job'[k] = job[k]
      NewSearch == /\ job'[SearchOf(p)].pc \in {"facade", "done"}
                   /\ job'[IngestOf(p)] = job[IngestOf(p)]
  <1>1. SearchOf(p) \in Jobs /\ IngestOf(p) \in Jobs /\ SearchOf(p) # IngestOf(p)
           /\ SearchOf(p).for # "request" /\ IngestOf(p).for # "request"
           /\ job \in [Jobs -> JobRecords]
    BY ThreadFacts, SpacesFacts
  <1>2. ASSUME NEW j \in {SearchOf(p), IngestOf(p)}, NEW pc \in {"facade", "done"}, Goes(j, pc)
        PROVE  Good /\ job'[j].pc = pc /\ \A k \in Jobs : k # j => job'[k] = job[k]
    <2>1. /\ job' \in [Jobs -> JobRecords] /\ job'[j].pc = pc
          /\ \A k \in Jobs : k # j => job'[k] = job[k]
      BY <1>1, <1>2, GoesFacts DEF Places
    <2>2. Placed'
      BY <1>1, <2>1, PlacedBy
    <2> QED
      BY <2>1, <2>2
  <1>3. ASSUME Abandons(p)
        PROVE  /\ Good /\ job'[IngestOf(p)] = job[IngestOf(p)]
               /\ \/ job'[SearchOf(p)] = job[SearchOf(p)]
                  \/ job'[SearchOf(p)].pc = "done"
    <2>1. /\ job' \in [Jobs -> JobRecords]
          /\ \A k \in Jobs : k # SearchOf(p) => job'[k] = job[k]
          /\ \/ job'[SearchOf(p)] = job[SearchOf(p)]
             \/ job'[SearchOf(p)].pc = "done"
      BY <1>1, <1>3, AbandonFacts, JobFacts
    <2>2. Placed'
      <3>1. CASE job'[SearchOf(p)].pc = "done"
        BY <1>1, <2>1, <3>1, PlacedBy
      <3>2. CASE job'[SearchOf(p)] = job[SearchOf(p)]
        BY <2>1, <3>2, SpacesFacts DEF Placed
      <3> QED
        BY <2>1, <3>1, <3>2
    <2> QED
      BY <1>1, <2>1, <2>2
  <1>4. ASSUME TurnSearches(p) \/ SearchDone(p) PROVE Good /\ NewSearch
    BY <1>1, <1>2, <1>4 DEF TurnSearches, SearchDone
  <1>5. ASSUME NotFound(p) \/ TurnFails(p) \/ TurnCut(p)
        PROVE  /\ Good /\ job'[IngestOf(p)] = job[IngestOf(p)]
               /\ \/ job'[SearchOf(p)] = job[SearchOf(p)]
                  \/ job'[SearchOf(p)].pc = "done"
    <2>1. Abandons(p)
      BY <1>5 DEF NotFound, TurnFails, TurnCut
    <2> QED
      BY <1>3, <2>1
  <1>6. ASSUME IngestStarts(p)
        PROVE  /\ Good /\ job'[SearchOf(p)] = job[SearchOf(p)] /\ job'[IngestOf(p)].pc = "facade"
    BY <1>1, <1>2, <1>6 DEF IngestStarts
  <1>7. ASSUME Ingested(p) \/ IngestFails(p)
        PROVE  /\ Good /\ job'[SearchOf(p)] = job[SearchOf(p)] /\ job'[IngestOf(p)].pc = "done"
    BY <1>1, <1>2, <1>7 DEF Ingested, IngestFails
  <1> HIDE DEF Good, NewSearch
  <1>8. Good
    BY <1>4, <1>5, <1>6, <1>7 DEF Turn
  <1>9. /\ \/ job'[SearchOf(p)] = job[SearchOf(p)]
           \/ job'[SearchOf(p)].pc \in {"facade", "done"}
        /\ \/ job'[IngestOf(p)] = job[IngestOf(p)]
           \/ job'[IngestOf(p)].pc = "facade" /\ IngestStarts(p)
           \/ job'[IngestOf(p)].pc = "done"
    BY <1>4, <1>5, <1>6, <1>7 DEF Turn, NewSearch
  <1> QED
    BY <1>7, <1>8, <1>9 DEF Good

\* What the warm-up does to its thread: it never lets go of it before the chip
\* has been looked at.
LEMMA WarmJobs ==
    ASSUME SpacesTypes, WarmLooks \/ WarmBegins \/ WarmEnds
    PROVE  /\ job' \in [Jobs -> JobRecords] /\ Placed'
           /\ \A k \in Jobs : k # WarmUp => job'[k] = job[k]
           /\ job'[WarmUp].pc \in {"busy", "look", "ending", "facade", "done"}
           /\ job'[WarmUp].pc = "done" => WarmEnds \/ chip.state # "processing"
           /\ WarmBegins => job'[WarmUp].pc = "facade"
  <1>1. WarmUp \in Jobs /\ WarmUp.for # "request" /\ job \in [Jobs -> JobRecords]
    BY ThreadFacts, SpacesFacts
  <1>2. PICK pc \in {"busy", "look", "ending", "facade", "done"} :
            /\ Goes(WarmUp, pc)
            /\ pc = "done" => WarmEnds \/ chip.state # "processing"
            /\ WarmBegins => pc = "facade"
    <2>1. CASE WarmLooks
      <3>1. job[WarmUp].pc \notin {"look", "busy"}
        BY <2>1 DEF WarmLooks
      <3> QED
        BY <2>1, <3>1 DEF WarmLooks, WarmBegins
    <2>2. CASE WarmBegins
      BY <2>2 DEF WarmBegins
    <2>3. CASE WarmEnds
      BY <2>3 DEF WarmEnds, WarmBegins
    <2> QED
      BY <2>1, <2>2, <2>3
  <1>3. /\ job' \in [Jobs -> JobRecords] /\ job'[WarmUp].pc = pc
        /\ \A k \in Jobs : k # WarmUp => job'[k] = job[k]
    BY <1>1, <1>2, GoesFacts DEF Places
  <1>4. Placed'
    BY <1>1, <1>3, PlacedBy
  <1> QED
    BY <1>2, <1>3, <1>4

\* What a request does when it arrives.
LEMMA RequestJobs ==
    ASSUME SpacesTypes, NEW j \in Jobs, NEW op \in Ops, NEW n \in Names,
           Request(j, op, n) \/ RequestOpens(j, n)
    PROVE  /\ job' \in [Jobs -> JobRecords] /\ Placed' /\ j.for = "request"
           /\ \A k \in Jobs : k # j => job'[k] = job[k]
           /\ job'[j].pc \in {"done", "merge", "facade", "got", "none", "build"}
           /\ job'[j].pc = "got" => job'[j].space \in facades
  <1>1. /\ job \in [Jobs -> JobRecords] /\ Found(n) \in {"got", "none", "build"}
        /\ Found(n) = "got" => n \in facades
    BY SpacesFacts
  <1>2. PICK r \in JobRecords :
            /\ job' = [job EXCEPT ![j] = r]
            /\ r.pc \in {"done", "merge", "facade", "got", "none", "build"}
            /\ r.pc = "done" \/ r.space = n
            /\ r.pc = "got" => n \in facades
    <2>1. CASE Request(j, op, n)
      <3>1. [pc |-> "merge", op |-> op, space |-> n, names |-> {}] \in JobRecords
               /\ [pc |-> "facade", op |-> op, space |-> n, names |-> {}] \in JobRecords
        BY DEF JobRecords, Places
      <3>2. \/ job' = [job EXCEPT ![j] = OldJob]
            \/ job' = [job EXCEPT ![j] = [pc |-> "merge", op |-> op, space |-> n, names |-> {}]]
            \/ job' = [job EXCEPT ![j] = [pc |-> "facade", op |-> op, space |-> n, names |-> {}]]
        BY <2>1 DEF Request
      <3> QED
        BY <3>1, <3>2, JobFacts
    <2>2. CASE RequestOpens(j, n)
      <3> DEFINE r == [pc |-> Found(n), op |-> "open", space |-> n, names |-> {}]
      <3>1. r \in JobRecords /\ r.pc = Found(n) /\ r.space = n
        BY <1>1 DEF JobRecords, Places, Ops
      <3>2. job' = [job EXCEPT ![j] = r]
        BY <2>2 DEF RequestOpens
      <3> HIDE DEF r
      <3> QED
        BY <1>1, <3>1, <3>2
    <2> QED
      BY <2>1, <2>2
  <1>3. job' \in [Jobs -> JobRecords] /\ job'[j] = r /\ \A k \in Jobs : k # j => job'[k] = job[k]
    BY <1>1, <1>2, OneJob
  <1>4. Placed'
    BY <1>2, <1>3, PlacedBy
  <1> QED
    BY <1>1, <1>2, <1>3, <1>4 DEF Request, RequestOpens

\* After a restart nothing runs.
LEMMA RestartJobs ==
    ASSUME Restart
    PROVE  /\ job' \in [Jobs -> JobRecords] /\ Placed'
           /\ \A j \in Jobs : job'[j].pc \in {"new", "done"}
  <1>1. \A j \in Jobs : job'[j] \in {NewJob, OldJob}
    BY DEF Restart
  <1>2. job' \in [Jobs -> JobRecords] /\ \A j \in Jobs : job'[j].pc \in {"new", "done"}
    BY <1>1, JobFacts DEF Restart
  <1> QED
    BY <1>2 DEF Placed

\* Every step keeps the types.
LEMMA SpacesTypesNext == SpacesTypes /\ [Next]_vars => SpacesTypes'
  <1> SUFFICES ASSUME SpacesTypes, [Next]_vars PROVE SpacesTypes'
    OBVIOUS
  <1> DEFINE Jobbed == job' \in [Jobs -> JobRecords] /\ Placed'
  <1>1. ASSUME NEW j \in Jobs, NEW op \in Ops, NEW n \in Names,
               Request(j, op, n) \/ RequestOpens(j, n)
        PROVE  SpacesTypes'
    <2>1. Jobbed
      BY <1>1, RequestJobs
    <2> QED
      BY <1>1, <2>1, SpacesFacts, SpacesTypesBy DEF Request, RequestOpens, layerVars, history
  <1>2. ASSUME NEW j \in Jobs, Thread(j)
        PROVE  SpacesTypes'
    <2> HIDE DEF Jobbed
    <2>1. Jobbed
      BY <1>2, ThreadJobs DEF Jobbed
    <2>2. CASE Reread(j) \/ Truncate(j) \/ ThreadStarts(j) \/ Opens(j)
      BY <2>1, <2>2, SpacesFacts, SpacesTypesBy
      DEF Jobbed, Reread, Truncate, ThreadStarts, Opens, layerVars, history
    <2>3. CASE Write(j)
      <3>1. job[j].space \in Names /\ job[j].names \subseteq Names
        BY <2>3, SpacesFacts DEF Write, Placed
      <3>2. kept' \subseteq Spaces
        BY <2>3, <3>1, SpacesFacts DEF Write, Names
      <3>3. registry' \subseteq Names \/ registry' = Torn
        BY <2>3, <3>1, SpacesFacts DEF Write
      <3>4. damaged' \in BOOLEAN
        BY <2>3, SpacesFacts DEF Write
      <3> QED
        BY <2>1, <2>3, <3>2, <3>3, <3>4, SpacesFacts, SpacesTypesBy DEF Jobbed, Write
    <2>4. CASE Built(j)
      BY <2>1, <2>4, SpacesFacts, SpacesTypesBy DEF Jobbed, Built, history, Placed
    <2>5. CASE BuildFails(j)
      BY <2>1, <2>5, SpacesFacts, SpacesTypesBy, ChipFacts DEF Jobbed, BuildFails, history
    <2>6. CASE Respond(j)
      <3>1. active' \in Names
        BY <2>6, SpacesFacts DEF Respond, Placed
      <3>2. since' \in [Pairs -> SUBSET Names]
        BY <2>6, <3>1, SpacesFacts DEF Respond
      <3> QED
        BY <2>1, <2>6, <3>1, <3>2, SpacesFacts, SpacesTypesBy DEF Jobbed, Respond
    <2> QED
      BY <1>2, <2>2, <2>3, <2>4, <2>5, <2>6 DEF Thread
  <1>3. ASSUME NEW p \in Pairs, Turn(p)
        PROVE  SpacesTypes'
    <2> HIDE DEF Jobbed
    <2>1. Jobbed
      BY <1>3, TurnJobs DEF Jobbed
    <2>2. chip' \in Chip
      <3>1. /\ chip \in Chip /\ Set(chip, "error") \in Chip /\ Begun(chip) \in Chip
            /\ Ended(chip) \in Chip /\ Completed(chip) \in Chip
        BY SpacesFacts, ChipFacts
      <3> QED
        BY <1>3, <3>1
        DEF Turn, TurnSearches, SearchDone, NotFound, TurnFails, TurnCut, IngestStarts, Ingested, IngestFails
    <2>3. pair' \in [Pairs -> {"new", "search", "said", "ingest", "over"}]
      BY <1>3, SpacesFacts
      DEF Turn, TurnSearches, SearchDone, NotFound, TurnFails, TurnCut, IngestStarts, Ingested, IngestFails
    <2>4. since' \in [Pairs -> SUBSET Names]
      BY <1>3, SpacesFacts
      DEF Turn, TurnSearches, SearchDone, NotFound, TurnFails, TurnCut, IngestStarts, Ingested, IngestFails,
          history
    <2>5. stored' \in [Pairs -> Names \cup {"none"}]
      <3>1. CASE Ingested(p)
        BY <3>1, ThreadFacts, SpacesFacts DEF Ingested
      <3>2. CASE ~Ingested(p)
        BY <1>3, <3>2, SpacesFacts
        DEF Turn, TurnSearches, SearchDone, NotFound, TurnFails, TurnCut, IngestStarts, IngestFails, history
      <3> QED
        BY <3>1, <3>2
    <2>6. /\ UNCHANGED <<layerVars, kept, damaged>>
          /\ loose' \in BOOLEAN
      BY <1>3, SpacesFacts
      DEF Turn, TurnSearches, SearchDone, NotFound, TurnFails, TurnCut, IngestStarts, Ingested, IngestFails,
          history
    <2> QED
      BY <2>1, <2>2, <2>3, <2>4, <2>5, <2>6, SpacesFacts, SpacesTypesBy DEF Jobbed, layerVars
  <1>4. CASE WarmLooks \/ WarmBegins \/ WarmEnds
    <2>1. Jobbed
      BY <1>4, WarmJobs
    <2>2. chip' \in Chip
      <3>1. /\ chip \in Chip /\ NewChip(Before(chip)) \in Chip
            /\ [state |-> "processing", prev |-> chip.state] \in Chip
            /\ [state |-> "processing", prev |-> chip.prev] \in Chip
        BY SpacesFacts, ChipFacts
      <3> QED
        BY <1>4, <3>1 DEF WarmLooks, WarmBegins, WarmEnds
    <2> QED
      BY <1>4, <2>1, <2>2, SpacesFacts, SpacesTypesBy DEF WarmLooks, WarmBegins, WarmEnds, layerVars, history
  <1>5. CASE Restart
    <2>1. Jobbed
      BY <1>5, RestartJobs
    <2> QED
      BY <1>5, <2>1, SpacesFacts, SpacesTypesBy, ChipFacts DEF Restart
  <1>6. CASE UNCHANGED vars
    BY <1>6, SpacesFacts, SpacesTypesBy DEF vars, Placed
  <1>7. "none" \in Ops
    BY DEF Ops
  <1> QED
    BY <1>1, <1>2, <1>3, <1>4, <1>5, <1>6, <1>7 DEF Next

(***************************************************************************)
(* The active space has its facade: a thread that has got a facade got one *)
(* that is cached, and a cached one stays.                                 *)
(***************************************************************************)

OpenInv ==
    /\ ActiveOpen
    /\ \A j \in Jobs : job[j].pc = "got" => job[j].space \in facades

\* Every step keeps it.
LEMMA OpenNext == SpacesTypes /\ OpenInv /\ [Next]_vars => OpenInv'
  <1> SUFFICES ASSUME SpacesTypes, OpenInv, [Next]_vars PROVE OpenInv'
    OBVIOUS
  <1>1. ASSUME NEW j \in Jobs, NEW op \in Ops, NEW n \in Names,
               Request(j, op, n) \/ RequestOpens(j, n)
        PROVE  OpenInv'
    <2>1. facades' = facades /\ active' = active
      BY <1>1 DEF Request, RequestOpens, layerVars
    <2>2. /\ \A k \in Jobs : k # j => job'[k] = job[k]
          /\ job'[j].pc = "got" => job'[j].space \in facades
      BY <1>1, RequestJobs
    <2> QED
      BY <2>1, <2>2 DEF OpenInv, ActiveOpen
  <1>2. ASSUME NEW j \in Jobs, Thread(j)
        PROVE  OpenInv'
    <2>1. \A k \in Jobs : k # j => job'[k] = job[k]
      BY <1>2, ThreadJobs
    <2>2. facades \subseteq facades'
      BY <1>2 DEF Thread, Reread, Truncate, Write, ThreadStarts, Opens, Built, BuildFails, Respond, layerVars
    <2>3. job'[j].pc = "got" => job'[j].space \in facades'
      <3>1. CASE Built(j)
        BY <1>2, <3>1, ThreadJobs DEF Built
      <3>2. CASE ~Built(j)
        BY <1>2, <2>2, <3>2, ThreadJobs, SpacesFacts DEF Thread
      <3> QED
        BY <3>1, <3>2
    <2>4. ActiveOpen'
      <3>1. CASE Respond(j)
        BY <2>2, <3>1 DEF Respond, OpenInv, ActiveOpen
      <3>2. CASE ~Respond(j)
        <4>1. active' = active
          BY <1>2, <3>2 DEF Thread, Reread, Truncate, Write, ThreadStarts, Opens, Built, BuildFails, layerVars
        <4> QED
          BY <2>2, <4>1 DEF OpenInv, ActiveOpen
      <3> QED
        BY <3>1, <3>2
    <2> QED
      BY <2>1, <2>2, <2>3, <2>4 DEF OpenInv
  <1>3. ASSUME NEW p \in Pairs, Turn(p)
        PROVE  OpenInv'
    <2>1. facades' = facades /\ active' = active
      BY <1>3 DEF Turn, TurnSearches, SearchDone, NotFound, TurnFails, TurnCut, IngestStarts, Ingested,
                  IngestFails, layerVars
    <2>2. \A k \in Jobs : job'[k] = job[k] \/ job'[k].pc \in {"facade", "done"}
      BY <1>3, TurnJobs
    <2> QED
      BY <2>1, <2>2 DEF OpenInv, ActiveOpen
  <1>4. CASE WarmLooks \/ WarmBegins \/ WarmEnds
    <2>1. facades' = facades /\ active' = active
      BY <1>4 DEF WarmLooks, WarmBegins, WarmEnds, layerVars
    <2>2. \A k \in Jobs : job'[k] = job[k] \/ job'[k].pc # "got"
      BY <1>4, WarmJobs
    <2> QED
      BY <2>1, <2>2 DEF OpenInv, ActiveOpen
  <1>5. CASE Restart
    <2>1. active' = Demo /\ \A j \in Jobs : job'[j].pc # "got"
      BY <1>5, RestartJobs DEF Restart
    <2> QED
      BY <2>1 DEF OpenInv, ActiveOpen
  <1>6. CASE UNCHANGED vars
    BY <1>6 DEF vars, OpenInv, ActiveOpen
  <1>7. "none" \in Ops
    BY DEF Ops
  <1> QED
    BY <1>1, <1>2, <1>3, <1>4, <1>5, <1>6, <1>7 DEF Next

(***************************************************************************)
(* A registered space stays listed: while nothing was damaged, one request *)
(* at most is between its reading of the registry and its writing, and it  *)
(* writes every name that was ever written.                                *)
(***************************************************************************)

Registering(j) == job[j].pc \in {"read", "write"}

ListInv ==
    /\ ListedUnlessRaced
    /\ \A j \in Jobs : Registering(j) \/ job[j].pc = "merge" => j.for = "request"
    /\ ~damaged => \A i, j \in Jobs : Registering(i) /\ Registering(j) => i = j
    /\ ~damaged /\ registry = Torn => \E j \in Jobs : job[j].pc = "write"
    /\ ~damaged => \A j \in Jobs :
          Registering(j) => kept \cup ({job[j].space} \ {Demo}) \subseteq job[j].names

\* A step that neither registers nor touches the registry keeps it.
LEMMA ListKept ==
    ASSUME ListInv, UNCHANGED <<registry, kept, damaged>>,
           \A k \in Jobs : \/ job'[k] = job[k]
                           \/ /\ ~Registering(k) /\ job'[k].pc \notin {"read", "write"}
                              /\ job'[k].pc = "merge" => k.for = "request"
    PROVE  ListInv'
  <1>1. \A k \in Jobs : /\ job'[k].pc \in {"read", "write"} => job'[k] = job[k]
                        /\ job[k].pc \in {"read", "write"} => job'[k] = job[k]
    BY DEF Registering
  <1>2. ListedUnlessRaced'
    BY DEF ListInv, ListedUnlessRaced
  <1>3. \A j \in Jobs : job'[j].pc \in {"read", "write", "merge"} => j.for = "request"
    BY <1>1 DEF ListInv, Registering
  <1>4. ~damaged' => \A i, j \in Jobs :
          job'[i].pc \in {"read", "write"} /\ job'[j].pc \in {"read", "write"} => i = j
    BY <1>1 DEF ListInv, Registering
  <1>5. ~damaged' /\ registry' = Torn => \E j \in Jobs : job'[j].pc = "write"
    BY <1>1 DEF ListInv
  <1>6. ~damaged' => \A j \in Jobs : job'[j].pc \in {"read", "write"} =>
                        kept' \cup ({job'[j].space} \ {Demo}) \subseteq job'[j].names
    BY <1>1 DEF ListInv, Registering
  <1> QED
    BY <1>2, <1>3, <1>4, <1>5, <1>6 DEF ListInv, Registering

\* The three steps of a registration keep it.
LEMMA ListRegisters ==
    ASSUME SpacesTypes, ListInv, NEW j \in Jobs, Reread(j) \/ Truncate(j) \/ Write(j)
    PROVE  ListInv'
  <1> DEFINE Busy(k) == job'[k].pc \in {"read", "write"}
  <1>1. \A k \in Jobs : k # j => job'[k] = job[k]
    BY ThreadJobs DEF Thread
  <1>2. job[j].pc \in {"merge", "read", "write"} /\ j.for = "request"
    BY DEF Reread, Truncate, Write, ListInv, Registering
  <1>3. Registering(j) => job[j].names \subseteq Names
    BY SpacesFacts
  <1>4. \A k \in Jobs : job'[k].pc \in {"read", "write", "merge"} => k.for = "request"
    BY <1>1, <1>2 DEF ListInv, Registering
  <1>5. ASSUME Reread(j), ~damaged'
        PROVE  /\ ListedUnlessRaced' /\ \A k, l \in Jobs : Busy(k) /\ Busy(l) => k = l
               /\ registry' # Torn
               /\ \A k \in Jobs : Busy(k) => kept' \cup ({job'[k].space} \ {Demo}) \subseteq job'[k].names
    <2>1. /\ ~damaged /\ registry' = registry /\ kept' = kept
          /\ \A k \in Jobs : k # j => ~Registering(k)
          /\ job[j].pc = "merge"
      BY <1>5, SpacesFacts DEF Reread, layerVars, Registering
    <2>2. registry # Torn /\ kept \subseteq registry
      BY <2>1 DEF ListInv, Registering, ListedUnlessRaced
    <2>3. job'[j].space = job[j].space /\ job'[j].names = Registered \cup {job[j].space}
      BY <1>5, ThreadJobs DEF Thread
    <2>4. kept' \cup ({job'[j].space} \ {Demo}) \subseteq job'[j].names
      BY <2>1, <2>2, <2>3 DEF Registered
    <2>5. \A k \in Jobs : Busy(k) => k = j
      BY <1>1, <2>1 DEF Registering
    <2> QED
      BY <2>1, <2>2, <2>4, <2>5 DEF ListedUnlessRaced
  <1>6. ASSUME Truncate(j), ~damaged'
        PROVE  /\ ListedUnlessRaced' /\ \A k, l \in Jobs : Busy(k) /\ Busy(l) => k = l
               /\ \E k \in Jobs : job'[k].pc = "write"
               /\ \A k \in Jobs : Busy(k) => kept' \cup ({job'[k].space} \ {Demo}) \subseteq job'[k].names
    <2>1. /\ ~damaged /\ registry' = Torn /\ kept' = kept /\ job[j].pc = "read"
      BY <1>6 DEF Truncate, history
    <2>2. /\ job'[j].pc = "write" /\ job'[j].space = job[j].space /\ job'[j].names = job[j].names
      BY <1>6, ThreadJobs DEF Thread
    <2>3. \A k \in Jobs : Busy(k) => k = j
      BY <1>1, <2>1 DEF ListInv, Registering
    <2> QED
      BY <2>1, <2>2, <2>3 DEF ListInv, Registering, ListedUnlessRaced
  <1>7. ASSUME Write(j), ~damaged'
        PROVE  /\ ListedUnlessRaced' /\ \A k, l \in Jobs : Busy(k) /\ Busy(l) => k = l
               /\ registry' # Torn
               /\ \A k \in Jobs : Busy(k) => kept' \cup ({job'[k].space} \ {Demo}) \subseteq job'[k].names
    <2>1. ~damaged /\ Registering(j)
      BY <1>7, SpacesFacts DEF Write, Registering
    <2>2. job'[j].pc = "facade"
      BY <1>7, ThreadJobs DEF Thread
    <2>3. \A k \in Jobs : ~Busy(k)
      BY <1>1, <2>1, <2>2 DEF ListInv, Registering
    <2>4. kept \cup ({job[j].space} \ {Demo}) \subseteq job[j].names
      BY <2>1 DEF ListInv
    <2>5. CASE job[j].pc = "write" /\ registry' = job[j].names /\ kept' = kept \cup ({job[j].space} \ {Demo})
      <3>1. registry' # Torn
        BY <1>3, <2>1, <2>5, SpacesAssumption DEF Torn, Names, Demo
      <3> QED
        BY <2>3, <2>4, <2>5, <3>1 DEF ListedUnlessRaced
    <2>6. CASE job[j].pc = "read" /\ UNCHANGED <<registry, kept, damaged>>
      <3>1. registry # Torn
        BY <2>1, <2>6 DEF ListInv, Registering
      <3> QED
        BY <2>3, <2>6, <3>1 DEF ListInv, ListedUnlessRaced
    <2> QED
      BY <1>7, <2>5, <2>6 DEF Write
  <1> QED
    BY <1>4, <1>5, <1>6, <1>7 DEF ListInv, ListedUnlessRaced, Registering

\* Every step keeps it.
LEMMA ListNext == SpacesTypes /\ ListInv /\ [Next]_vars => ListInv'
  <1> SUFFICES ASSUME SpacesTypes, ListInv, [Next]_vars PROVE ListInv'
    OBVIOUS
  <1>1. ASSUME NEW j \in Jobs, NEW op \in Ops, NEW n \in Names,
               Request(j, op, n) \/ RequestOpens(j, n)
        PROVE  ListInv'
    <2>1. UNCHANGED <<registry, kept, damaged>> /\ job[j].pc = "new"
      BY <1>1, JobFacts DEF Request, RequestOpens, layerVars, history
    <2> QED
      BY <1>1, <2>1, RequestJobs, ListKept DEF Registering
  <1>2. ASSUME NEW j \in Jobs, Thread(j)
        PROVE  ListInv'
    <2>1. CASE Reread(j) \/ Truncate(j) \/ Write(j)
      BY <2>1, ListRegisters
    <2>2. CASE ~(Reread(j) \/ Truncate(j) \/ Write(j))
      <3>1. UNCHANGED <<registry, kept, damaged>> /\ ~Registering(j)
        BY <1>2, <2>2
        DEF Thread, ThreadStarts, Opens, Built, BuildFails, Respond, layerVars, history, Registering
      <3>2. job'[j].pc \notin {"read", "write", "merge"}
        BY <1>2, <2>2, ThreadJobs, SpacesFacts DEF Thread
      <3> QED
        BY <1>2, <3>1, <3>2, ThreadJobs, ListKept
    <2> QED
      BY <2>1, <2>2
  <1>3. ASSUME NEW p \in Pairs, Turn(p)
        PROVE  ListInv'
    <2>1. UNCHANGED <<registry, kept, damaged>>
      BY <1>3 DEF Turn, TurnSearches, SearchDone, NotFound, TurnFails, TurnCut, IngestStarts, Ingested,
                  IngestFails, layerVars, history
    <2>2. ~Registering(SearchOf(p)) /\ ~Registering(IngestOf(p))
      BY ThreadFacts DEF ListInv
    <2>3. \A k \in Jobs : \/ job'[k] = job[k]
                          \/ ~Registering(k) /\ job'[k].pc \in {"facade", "done"}
      BY <1>3, <2>2, TurnJobs
    <2> QED
      BY <2>1, <2>3, ListKept
  <1>4. CASE WarmLooks \/ WarmBegins \/ WarmEnds
    <2>1. UNCHANGED <<registry, kept, damaged>>
      BY <1>4 DEF WarmLooks, WarmBegins, WarmEnds, layerVars, history
    <2>2. ~Registering(WarmUp)
      BY ThreadFacts DEF ListInv
    <2>3. \A k \in Jobs : \/ job'[k] = job[k]
                          \/ ~Registering(k) /\ job'[k].pc \notin {"read", "write", "merge"}
      BY <1>4, <2>2, WarmJobs
    <2> QED
      BY <2>1, <2>3, ListKept
  <1>5. CASE Restart
    <2>1. \A j \in Jobs : job'[j].pc \notin {"read", "write", "merge"}
      BY <1>5, RestartJobs
    <2>2. registry' = registry /\ kept' = kept /\ (damaged' = (damaged \/ registry = Torn))
      BY <1>5 DEF Restart
    <2>3. ListedUnlessRaced'
      BY <2>2, SpacesFacts DEF ListInv, ListedUnlessRaced
    <2>4. ~(~damaged' /\ registry' = Torn)
      BY <2>2, SpacesFacts
    <2> QED
      BY <2>1, <2>3, <2>4 DEF ListInv, Registering
  <1>6. CASE UNCHANGED vars
    BY <1>6, ListKept DEF vars
  <1>7. "none" \in Ops
    BY DEF Ops
  <1> QED
    BY <1>1, <1>2, <1>3, <1>4, <1>5, <1>6, <1>7 DEF Next

(***************************************************************************)
(* A turn is stored where it was shown to belong: from its search on, the  *)
(* active space is one of the turn's, and the thread that stores it took   *)
(* the active space of a moment in between.                                *)
(***************************************************************************)

StoreInv ==
    /\ StoredWhereActive
    /\ \A p \in Pairs : pair[p] \in {"search", "said", "ingest"} => active \in since[p]
    /\ \A p \in Pairs : job[IngestOf(p)].pc \notin {"new", "done"} => pair[p] = "ingest"
    /\ \A p \in Pairs : job[IngestOf(p)].pc \in {"build", "got"} =>
                            job[IngestOf(p)].space \in since[p]
    /\ \A p \in Pairs : pair[p] = "new" => stored[p] = "none"

\* A step that leaves the turns and the active space alone keeps it.
LEMMA StoreKept ==
    ASSUME StoreInv, UNCHANGED <<active, pair, since, stored>>,
           \A p \in Pairs : \/ job'[IngestOf(p)] = job[IngestOf(p)]
                            \/ job'[IngestOf(p)].pc \in {"new", "done"}
    PROVE  StoreInv'
  <1>1. StoredWhereActive'
    BY DEF StoreInv, StoredWhereActive
  <1> QED
    BY <1>1 DEF StoreInv

\* The threads keep it.
LEMMA StoreThread ==
    ASSUME SpacesTypes, StoreInv, NEW j \in Jobs, Thread(j)
    PROVE  StoreInv'
  <1>1. /\ \A p \in Pairs : IngestOf(p) \in Jobs /\ IngestOf(p) \notin Searches
                               /\ IngestOf(p).for # "request"
        /\ \A k \in Jobs : k # j => job'[k] = job[k]
    BY ThreadFacts, ThreadJobs
  <1>2. CASE Respond(j)
    <2>1. /\ \A p \in Pairs : j # IngestOf(p)
          /\ pair' = pair /\ stored' = stored /\ active' \in Names
          /\ \A p \in Pairs : since'[p] = IF since[p] = {} THEN {} ELSE since[p] \cup {active'}
      BY <1>1, <1>2, SpacesTypesNext, SpacesFacts DEF Respond, Placed
    <2>2. \A p \in Pairs : since[p] \subseteq since'[p] /\ (since[p] # {} => active' \in since'[p])
      BY <2>1
    <2>3. StoredWhereActive'
      BY <2>1, <2>2 DEF StoreInv, StoredWhereActive
    <2>4. \A p \in Pairs : job'[IngestOf(p)] = job[IngestOf(p)]
      BY <1>1, <2>1
    <2> QED
      BY <2>1, <2>2, <2>3, <2>4 DEF StoreInv
  <1>3. CASE ~Respond(j)
    <2>1. UNCHANGED <<active, pair, since, stored>> /\ job[j].pc \notin {"new", "done"}
      BY <1>3 DEF Thread, Reread, Truncate, Write, ThreadStarts, Opens, Built, BuildFails, layerVars, history
    <2>2. StoredWhereActive'
      BY <2>1 DEF StoreInv, StoredWhereActive
    <2>3. ASSUME NEW p \in Pairs, job'[IngestOf(p)].pc \notin {"new", "done"}
          PROVE  pair[p] = "ingest"
      BY <1>1, <2>1, <2>3 DEF StoreInv
    <2>4. ASSUME NEW p \in Pairs, job'[IngestOf(p)].pc \in {"build", "got"}
          PROVE  job'[IngestOf(p)].space \in since[p]
      <3>1. CASE j # IngestOf(p)
        BY <1>1, <2>4, <3>1 DEF StoreInv
      <3>2. CASE j = IngestOf(p)
        <4>1. pair[p] = "ingest" /\ active \in since[p]
          BY <2>3, <2>4 DEF StoreInv
        <4>2. CASE ThreadStarts(j)
          BY <3>2, <4>1, <4>2, ThreadJobs
        <4>3. CASE Built(j)
          <5>1. job[j].pc = "build" /\ job'[j].space = job[j].space
            BY <1>1, <2>4, <3>2, <4>3, ThreadJobs DEF Built
          <5> QED
            BY <3>2, <5>1 DEF StoreInv
        <4>4. ~Reread(j) /\ ~Truncate(j) /\ ~Write(j) /\ ~BuildFails(j)
          BY <1>1, <2>4, <3>2, ThreadJobs
        <4>5. ~Opens(j)
          BY <1>1, <3>2 DEF Opens
        <4> QED
          BY <1>3, <4>2, <4>3, <4>4, <4>5 DEF Thread
      <3> QED
        BY <3>1, <3>2
    <2> QED
      BY <2>1, <2>2, <2>3, <2>4 DEF StoreInv
  <1> QED
    BY <1>2, <1>3

\* The turns keep it.
LEMMA StoreTurn ==
    ASSUME SpacesTypes, StoreInv, NEW p \in Pairs, Turn(p)
    PROVE  StoreInv'
  <1>1. \A q \in Pairs : q # p => job'[IngestOf(q)] = job[IngestOf(q)]
    BY ThreadFacts, TurnJobs
  <1>2. /\ active' = active
        /\ \A q \in Pairs : q # p => pair'[q] = pair[q] /\ since'[q] = since[q] /\ stored'[q] = stored[q]
    BY SpacesFacts
    DEF Turn, TurnSearches, SearchDone, NotFound, TurnFails, TurnCut, IngestStarts, Ingested, IngestFails,
        layerVars, history
  <1>3. /\ active \in Names /\ since[p] \subseteq Names
        /\ \/ job'[IngestOf(p)] = job[IngestOf(p)]
           \/ job'[IngestOf(p)].pc = "facade" /\ IngestStarts(p)
           \/ job'[IngestOf(p)].pc = "done"
        /\ Ingested(p) \/ IngestFails(p) => job'[IngestOf(p)].pc = "done"
    BY TurnJobs, SpacesFacts
  <1> DEFINE Held(q) ==
               /\ stored'[q] \in since'[q] \cup {"none"}
               /\ pair'[q] \in {"search", "said", "ingest"} => active' \in since'[q]
               /\ job'[IngestOf(q)].pc \notin {"new", "done"} => pair'[q] = "ingest"
               /\ job'[IngestOf(q)].pc \in {"build", "got"} => job'[IngestOf(q)].space \in since'[q]
               /\ pair'[q] = "new" => stored'[q] = "none"
  <1>4. \A q \in Pairs : q # p => Held(q)
    BY <1>1, <1>2 DEF StoreInv, StoredWhereActive
  <1>5. Held(p)
    <2>1. CASE TurnSearches(p)
      <3>1. /\ pair[p] = "new" /\ pair'[p] = "search" /\ since'[p] = {active} /\ stored'[p] = stored[p]
        BY <2>1, SpacesFacts DEF TurnSearches
      <3>2. job[IngestOf(p)].pc \in {"new", "done"} /\ stored[p] = "none"
        BY <3>1 DEF StoreInv
      <3>3. job'[IngestOf(p)].pc \in {"new", "done"}
        <4>1. Goes(SearchOf(p), "facade")
          BY <2>1 DEF TurnSearches
        <4>2. job'[IngestOf(p)] = job[IngestOf(p)]
          BY <4>1, ThreadFacts, SpacesFacts, GoesFacts DEF Places
        <4> QED
          BY <3>2, <4>2
      <3> QED
        BY <1>2, <3>1, <3>2, <3>3
    <2>2. CASE IngestStarts(p)
      <3>1. /\ pair[p] = "said" /\ pair'[p] = "ingest" /\ since'[p] = since[p] /\ stored'[p] = stored[p]
        BY <2>2, SpacesFacts DEF IngestStarts, history
      <3>2. job'[IngestOf(p)].pc \notin {"build", "got"}
        BY <1>3, <3>1 DEF StoreInv
      <3> QED
        BY <1>2, <3>1, <3>2 DEF StoreInv, StoredWhereActive
    <2>3. CASE Ingested(p) \/ IngestFails(p)
      <3>1. pair'[p] = "over" /\ since'[p] = since[p] /\ job'[IngestOf(p)].pc = "done"
        BY <1>3, <2>3, SpacesFacts DEF Ingested, IngestFails, history
      <3>2. \/ stored'[p] = stored[p]
            \/ job[IngestOf(p)].pc = "got" /\ stored'[p] = job[IngestOf(p)].space
        BY <2>3, SpacesFacts DEF Ingested, IngestFails, history
      <3>3. stored'[p] \in since'[p] \cup {"none"}
        BY <3>1, <3>2 DEF StoreInv, StoredWhereActive
      <3> QED
        BY <3>1, <3>3
    <2>4. CASE SearchDone(p) \/ NotFound(p) \/ TurnFails(p) \/ TurnCut(p)
      <3>1. /\ pair[p] \in {"search", "said"} /\ pair'[p] \in {"said", "over"}
            /\ since'[p] = since[p] /\ stored'[p] = stored[p]
        BY <2>4, SpacesFacts DEF SearchDone, NotFound, TurnFails, TurnCut, history
      <3>2. job[IngestOf(p)].pc \in {"new", "done"}
        BY <3>1 DEF StoreInv
      <3>3. ~IngestStarts(p) \/ pair'[p] = "ingest"
        BY <3>1, SpacesFacts DEF IngestStarts
      <3>4. job'[IngestOf(p)].pc \in {"new", "done"}
        BY <1>3, <3>1, <3>2, <3>3
      <3> QED
        BY <1>2, <3>1, <3>4 DEF StoreInv, StoredWhereActive
    <2> QED
      BY <2>1, <2>2, <2>3, <2>4 DEF Turn
  <1>6. \A q \in Pairs : Held(q)
    BY <1>4, <1>5
  <1> QED
    BY <1>6 DEF StoreInv, StoredWhereActive

\* Every step keeps it.
LEMMA StoreNext == SpacesTypes /\ StoreInv /\ [Next]_vars => StoreInv'
  <1> SUFFICES ASSUME SpacesTypes, StoreInv, [Next]_vars PROVE StoreInv'
    OBVIOUS
  <1>1. ASSUME NEW j \in Jobs, NEW op \in Ops, NEW n \in Names,
               Request(j, op, n) \/ RequestOpens(j, n)
        PROVE  StoreInv'
    <2>1. UNCHANGED <<active, pair, since, stored>>
      BY <1>1 DEF Request, RequestOpens, layerVars, history
    <2>2. \A p \in Pairs : job'[IngestOf(p)] = job[IngestOf(p)]
      BY <1>1, RequestJobs, ThreadFacts
    <2> QED
      BY <2>1, <2>2, StoreKept
  <1>2. CASE WarmLooks \/ WarmBegins \/ WarmEnds
    <2>1. UNCHANGED <<active, pair, since, stored>>
      BY <1>2 DEF WarmLooks, WarmBegins, WarmEnds, layerVars, history
    <2>2. \A p \in Pairs : job'[IngestOf(p)] = job[IngestOf(p)]
      BY <1>2, WarmJobs, ThreadFacts
    <2> QED
      BY <2>1, <2>2, StoreKept
  <1>3. CASE Restart
    <2>1. \A p \in Pairs : job'[IngestOf(p)].pc \in {"new", "done"}
      BY <1>3, RestartJobs, ThreadFacts
    <2>2. /\ since' = since /\ stored' = stored
          /\ \A p \in Pairs : pair'[p] \in {"new", "over"} /\ (pair'[p] = "new" => pair[p] = "new")
      BY <1>3 DEF Restart
    <2>3. StoredWhereActive'
      BY <2>2 DEF StoreInv, StoredWhereActive
    <2> QED
      BY <2>1, <2>2, <2>3 DEF StoreInv
  <1>4. CASE UNCHANGED vars
    BY <1>4, StoreKept DEF vars
  <1>5. "none" \in Ops
    BY DEF Ops
  <1> QED
    BY <1>1, <1>2, <1>3, <1>4, <1>5, StoreThread, StoreTurn DEF Next

(***************************************************************************)
(* A chip that says "processing" has work behind it: the state a span goes *)
(* back to is "processing" only when a span was lost.                      *)
(***************************************************************************)

ChipInv == ProcessingIsWork /\ (chip.prev = "processing" => loose)

\* Every step keeps it.
LEMMA ChipNext == SpacesTypes /\ ChipInv /\ [Next]_vars => ChipInv'
  <1> SUFFICES ASSUME SpacesTypes, ChipInv, [Next]_vars PROVE ChipInv'
    OBVIOUS
  <1>1. ASSUME chip' = chip, loose' = loose, pair' = pair,
               Running(WarmUp) /\ chip.state = "processing" => Running(WarmUp)'
        PROVE  ChipInv'
    BY <1>1 DEF ChipInv, ProcessingIsWork
  <1>2. WarmUp \in Jobs
    BY ThreadFacts
  <1>3. /\ chip \in Chip /\ loose \in BOOLEAN
        /\ pair \in [Pairs -> {"new", "search", "said", "ingest", "over"}]
    BY SpacesFacts
  <1>4. ASSUME NEW j \in Jobs, NEW op \in Ops, NEW n \in Names,
               Request(j, op, n) \/ RequestOpens(j, n)
        PROVE  ChipInv'
    <2>1. chip' = chip /\ loose' = loose /\ pair' = pair
      BY <1>4 DEF Request, RequestOpens, history
    <2>2. job'[WarmUp] = job[WarmUp]
      BY <1>2, <1>4, RequestJobs, ThreadFacts
    <2> QED
      BY <1>1, <2>1, <2>2 DEF Running
  <1>5. ASSUME NEW j \in Jobs, Thread(j)
        PROVE  ChipInv'
    <2>1. Running(WarmUp) => Running(WarmUp)'
      <3>1. ~Respond(WarmUp) /\ WarmUp \notin Searches
        BY ThreadFacts DEF Respond
      <3> QED
        BY <1>2, <1>5, <3>1, ThreadJobs DEF Running
    <2>2. loose' = loose /\ pair' = pair
      BY <1>5
      DEF Thread, Reread, Truncate, Write, ThreadStarts, Opens, Built, BuildFails, Respond, history
    <2>3. CASE BuildFails(j)
      <3>1. chip' = Set(chip, "error")
        BY <2>3 DEF BuildFails
      <3>2. chip'.state = "error" /\ chip'.prev = chip.prev
        BY <1>3, <3>1, ChipFacts
      <3> QED
        BY <2>2, <3>2 DEF ChipInv, ProcessingIsWork
    <2>4. CASE ~BuildFails(j)
      <3>1. chip' = chip
        BY <1>5, <2>4 DEF Thread, Reread, Truncate, Write, ThreadStarts, Opens, Built, Respond
      <3> QED
        BY <1>1, <2>1, <2>2, <3>1
    <2> QED
      BY <2>3, <2>4
  <1>6. ASSUME NEW p \in Pairs, Turn(p)
        PROVE  ChipInv'
    <2>1. job'[WarmUp] = job[WarmUp]
      BY <1>2, <1>6, TurnJobs, ThreadFacts
    <2>2. CASE TurnSearches(p) \/ IngestStarts(p)
      <3>1. chip' = Begun(chip) /\ loose' = loose /\ pair'[p] \in {"search", "ingest"}
        BY <1>3, <2>2 DEF TurnSearches, IngestStarts, history
      <3>2. chip.prev # "processing" => chip'.prev # "processing"
        BY <1>3, <3>1, ChipFacts
      <3> QED
        BY <3>1, <3>2 DEF ChipInv, ProcessingIsWork
    <2>3. CASE SearchDone(p) \/ Ingested(p)
      <3>1. chip' \in {Completed(chip), Ended(chip)} /\ loose' = loose
        BY <2>3 DEF SearchDone, Ingested, history
      <3>2. /\ Completed(chip).prev = "" /\ Ended(chip).prev = ""
            /\ chip.prev # "processing" => /\ Completed(chip).state # "processing"
                                           /\ Ended(chip).state # "processing"
        BY <1>3, ChipFacts
      <3>3. chip'.prev # "processing" /\ (chip.prev # "processing" => chip'.state # "processing")
        BY <3>1, <3>2
      <3> QED
        BY <3>1, <3>3 DEF ChipInv, ProcessingIsWork
    <2>4. CASE NotFound(p) \/ TurnFails(p) \/ IngestFails(p)
      <3>1. /\ \/ chip' = Set(chip, "error")
               \/ chip' = chip /\ chip.state # "processing"
            /\ loose' = loose
        BY <2>4 DEF NotFound, TurnFails, IngestFails, history
      <3>2. Set(chip, "error").state = "error" /\ Set(chip, "error").prev = chip.prev
        BY <1>3, ChipFacts
      <3>3. chip'.state # "processing" /\ chip'.prev = chip.prev
        BY <3>1, <3>2
      <3> QED
        BY <3>1, <3>3 DEF ChipInv, ProcessingIsWork
    <2>5. CASE TurnCut(p)
      <3>1. chip' = chip /\ (loose' = (loose \/ pair[p] = "search"))
        BY <2>5 DEF TurnCut
      <3>2. pair[p] # "ingest" /\ \A q \in Pairs : q # p => pair'[q] = pair[q]
        BY <1>3, <2>5 DEF TurnCut
      <3> QED
        BY <1>3, <2>1, <3>1, <3>2 DEF ChipInv, ProcessingIsWork, Running
    <2> QED
      BY <1>6, <2>2, <2>3, <2>4, <2>5 DEF Turn
  <1>7. CASE WarmLooks
    <2>1. chip' = chip /\ loose' = loose /\ pair' = pair
      BY <1>7 DEF WarmLooks, history
    <2>2. ~WarmEnds
      BY <1>7 DEF WarmLooks, WarmEnds
    <2>3. Running(WarmUp) /\ chip.state = "processing" => Running(WarmUp)'
      BY <1>7, <2>2, WarmJobs DEF Running
    <2> QED
      BY <1>1, <2>1, <2>3
  <1>8. CASE WarmBegins
    <2>1. Running(WarmUp)'
      BY <1>8, WarmJobs DEF Running
    <2>2. /\ loose' = (loose \/ (chip.state = "processing") # (job[WarmUp].pc = "busy"))
          /\ chip'.prev = IF job[WarmUp].pc = "look" THEN chip.state ELSE chip.prev
      BY <1>8 DEF WarmBegins
    <2>3. chip'.prev = "processing" => loose'
      BY <2>2 DEF ChipInv
    <2> QED
      BY <2>1, <2>3 DEF ChipInv, ProcessingIsWork
  <1>9. CASE WarmEnds
    <2>1. chip' = NewChip(Before(chip)) /\ (loose' = (loose \/ chip.state # "processing"))
      BY <1>9 DEF WarmEnds
    <2>2. chip'.prev = "" /\ (chip.prev # "processing" => chip'.state # "processing")
      BY <1>3, <2>1, ChipFacts
    <2> QED
      BY <2>1, <2>2 DEF ChipInv, ProcessingIsWork
  <1>10. CASE Restart
    <2>1. chip' = NewChip("ready")
      BY <1>10 DEF Restart
    <2>2. chip'.state = "ready" /\ chip'.prev = ""
      BY <1>3, <2>1, ChipFacts
    <2> QED
      BY <2>2 DEF ChipInv, ProcessingIsWork
  <1>11. CASE UNCHANGED vars
    BY <1>1, <1>11 DEF vars, Running
  <1>12. "none" \in Ops
    BY DEF Ops
  <1> QED
    BY <1>4, <1>5, <1>6, <1>7, <1>8, <1>9, <1>10, <1>11, <1>12 DEF Next

\* The memory is what the page shows, in every history of requests, searches,
\* ingests and restarts: the active space is open and listed, a turn is stored in
\* a space that was active since it was spoken, and a chip that says "processing"
\* has work behind it (RealMemoryLayer, which no lock protects).
THEOREM MemoryIsAsShown == Spec => []MemoryAsShown
  <1> DEFINE Inv == SpacesTypes /\ OpenInv /\ ListInv /\ StoreInv /\ ChipInv
  <1>1. Init => Inv
    <2> SUFFICES ASSUME Init PROVE Inv
      OBVIOUS
    <2>1. SpacesTypes
      BY SpacesTypesInit
    <2>2. \A j \in Jobs : job[j].pc = "new"
      BY JobFacts DEF Init
    <2>3. OpenInv
      BY <2>2 DEF Init, OpenInv, ActiveOpen
    <2>4. ListInv
      BY <2>2 DEF Init, ListInv, ListedUnlessRaced, Registering, Torn
    <2>5. StoreInv
      BY <2>2, ThreadFacts DEF Init, StoreInv, StoredWhereActive
    <2>6. chip.state = "ready" /\ chip.prev = ""
      BY DEF Init, NewChip
    <2>7. ChipInv
      BY <2>6 DEF ChipInv, ProcessingIsWork
    <2> QED
      BY <2>1, <2>3, <2>4, <2>5, <2>7
  <1>2. Inv /\ [Next]_vars => Inv'
    BY SpacesTypesNext, OpenNext, ListNext, StoreNext, ChipNext
  <1>3. Inv => MemoryAsShown
    BY DEF SpacesTypes, OpenInv, ListInv, StoreInv, ChipInv, MemoryAsShown
  <1> QED
    BY <1>1, <1>2, <1>3, PTL DEF Spec

(***************************************************************************)
(* The voices.                                                             *)
(***************************************************************************)

Calling == [at : {"called", "infer", "failed"}, kind : {"reply", "preview", "cut"},
            voice : Presets, used : Presets \cup {NoVoice}, spoke : SUBSET (Presets \cup {NoVoice})]

\* The voices one can choose from: the default is always one of them.
Choosable == {some \in SUBSET Presets : Default \in some}

Choices == [mode : Modes, available : Choosable, hu : Presets, en : Presets]

Tallies == [replies : Nat, changes : Nat, faults : Nat, moved : BOOLEAN]

VoiceTypes ==
    /\ styles \subseteq Presets /\ (styles = {} \/ Default \in styles)
    /\ saved \in [mode : Modes, hu : Presets \cup {Legacy}, en : Presets \cup {Legacy}]
    /\ choice \in Choices /\ choice.hu \in choice.available /\ choice.en \in choice.available
    /\ engine \in {"off", "cold", "ready", "broken"}
    /\ synth \in [VoiceThreads -> {Unused} \cup Calling]
    /\ tally \in Tallies

\* While the styles are those the backend listed, what is chosen is installed, a
\* call speaks with a voice that is installed, and so _voice_name replaces none.
VoiceInv ==
    /\ engine = "off" => \A t \in VoiceThreads : synth[t] = Unused
    /\ engine = "ready" => Default \in styles
    /\ engine # "off" /\ ~tally.moved => choice.available = Available(styles)
    /\ \A t \in VoiceThreads : synth[t] # Unused /\ synth[t].at = "infer" => engine = "ready"
    /\ ~tally.moved => \A t \in VoiceThreads : synth[t] # Unused =>
          /\ synth[t].voice \in Available(styles)
          /\ synth[t].at = "infer" => synth[t].used = synth[t].voice
          /\ synth[t].spoke \subseteq {synth[t].voice}
    /\ SpokenAsChosen

\* available_voices and _validated: a choice that is loaded is one of the voices
\* that are available, whatever the file says.
LEMMA LoadedIsChoosable ==
    ASSUME NEW file \in [mode : Modes, hu : Presets \cup {Legacy}, en : Presets \cup {Legacy}],
           NEW installed \in SUBSET Presets, installed = {} \/ Default \in installed
    PROVE  /\ Available(installed) \in Choosable
           /\ LoadedChoice(file, installed) \in Choices
           /\ LoadedChoice(file, installed).available = Available(installed)
           /\ LoadedChoice(file, installed).hu \in Available(installed)
           /\ LoadedChoice(file, installed).en \in Available(installed)
  <1>1. Available(installed) \in Choosable
    BY VoiceEngineAssumption DEF Available, Choosable
  <1>2. \A id : /\ Validated(id, Available(installed)) \in Available(installed)
                /\ ValidatedEn(id, Available(installed)) \in Available(installed)
    BY <1>1 DEF Choosable, Validated, ValidatedEn
  <1>3. Available(installed) \subseteq Presets
    BY <1>1 DEF Choosable
  <1> QED
    BY <1>1, <1>2, <1>3 DEF LoadedChoice, Choices

\* The voices at the start.
LEMMA VoicesInit == VoiceInit => VoiceTypes /\ VoiceInv
  <1> SUFFICES ASSUME VoiceInit PROVE VoiceTypes /\ VoiceInv
    OBVIOUS
  <1>1. /\ styles = {} /\ saved = NoFile /\ choice = LoadedChoice(NoFile, {})
        /\ engine = "off" /\ synth = [t \in VoiceThreads |-> Unused]
        /\ heard = [chosen |-> NoVoice, used |-> {}]
        /\ tally = [replies |-> 0, changes |-> 0, faults |-> 0, moved |-> FALSE]
    BY DEF VoiceInit
  <1>2. NoFile \in [mode : Modes, hu : Presets \cup {Legacy}, en : Presets \cup {Legacy}]
    BY VoiceEngineAssumption DEF NoFile, Modes
  <1>3. choice \in Choices /\ choice.hu \in choice.available /\ choice.en \in choice.available
    BY <1>1, <1>2, LoadedIsChoosable
  <1>4. VoiceTypes
    BY <1>1, <1>2, <1>3 DEF VoiceTypes, Tallies
  <1>5. VoiceInv
    BY <1>1 DEF VoiceInv, SpokenAsChosen
  <1> QED
    BY <1>4, <1>5

\* Changes of the choice, of the styles and of the backend keep the voices.
LEMMA VoicesChoose ==
    ASSUME VoiceTypes, VoiceInv,
           \/ \E mode \in Modes, hu, en \in choice.available \cup {Legacy} : ApplyVoice(mode, hu, en)
           \/ StartVoice \/ RestartVoice \/ Install
    PROVE  VoiceTypes' /\ VoiceInv'
  <1>1. ASSUME NEW mode \in Modes, NEW hu \in choice.available \cup {Legacy},
               NEW en \in choice.available \cup {Legacy}, ApplyVoice(mode, hu, en)
        PROVE  VoiceTypes' /\ VoiceInv'
    <2>1. choice.available \subseteq Presets /\ Default \in choice.available /\ choice \in Choices
      BY DEF VoiceTypes, Choices, Choosable
    <2> DEFINE v == Validated(hu, choice.available)
               w == ValidatedEn(en, choice.available)
    <2>2. v \in choice.available /\ w \in choice.available
      BY <2>1 DEF Validated, ValidatedEn
    <2>3. choice' = [[[choice EXCEPT !.mode = mode] EXCEPT !.hu = v] EXCEPT !.en = w]
      BY <1>1, <2>1 DEF ApplyVoice, Choices
    <2> HIDE DEF v, w
    <2>4. /\ choice' \in Choices /\ choice'.available = choice.available
          /\ choice'.mode = mode /\ choice'.hu = v /\ choice'.en = w
      BY <2>1, <2>2, <2>3 DEF Choices
    <2>5. /\ saved' = Chosen(choice') \/ saved' = saved
          /\ UNCHANGED <<styles, engine, synth, heard>>
      BY <1>1 DEF ApplyVoice, HoldVoices
    <2>6. saved' \in [mode : Modes, hu : Presets \cup {Legacy}, en : Presets \cup {Legacy}]
      BY <2>1, <2>2, <2>4, <2>5 DEF VoiceTypes, Chosen
    <2>7. /\ tally' \in Tallies
          /\ tally'.moved = tally.moved
      <3>1. tally \in Tallies
        BY DEF VoiceTypes
      <3> DEFINE a == [tally EXCEPT !.changes = tally.changes + 1]
      <3>2. a \in Tallies /\ a.moved = tally.moved
        BY <3>1 DEF Tallies
      <3>3. tally' = a \/ tally' = [a EXCEPT !.faults = a.faults + 1]
        BY <1>1, <3>1 DEF ApplyVoice, Tallies
      <3> HIDE DEF a
      <3> QED
        BY <3>2, <3>3 DEF Tallies
    <2>8. VoiceTypes'
      BY <2>2, <2>4, <2>5, <2>6, <2>7 DEF VoiceTypes
    <2>9. VoiceInv'
      BY <2>4, <2>5, <2>7 DEF VoiceInv, SpokenAsChosen
    <2> QED
      BY <2>8, <2>9
  <1>2. CASE StartVoice
    <2>1. /\ engine = "off" /\ engine' = "cold" /\ styles' \in {{}, Presets} /\ saved' \in Files
          /\ choice' = LoadedChoice(saved', styles') /\ UNCHANGED <<synth, heard, tally>>
      BY <1>2 DEF StartVoice
    <2>2. /\ styles' \in SUBSET Presets /\ (styles' = {} \/ Default \in styles')
          /\ saved' \in [mode : Modes, hu : Presets \cup {Legacy}, en : Presets \cup {Legacy}]
      BY <2>1, VoiceEngineAssumption DEF Files, Modes
    <2>3. /\ choice' \in Choices /\ choice'.available = Available(styles')
          /\ choice'.hu \in choice'.available /\ choice'.en \in choice'.available
      BY <2>1, <2>2, LoadedIsChoosable
    <2>4. VoiceTypes'
      BY <2>1, <2>2, <2>3 DEF VoiceTypes
    <2>5. VoiceInv'
      BY <2>1, <2>3 DEF VoiceInv, SpokenAsChosen
    <2> QED
      BY <2>4, <2>5
  <1>3. CASE RestartVoice
    <2>1. /\ engine' = "cold" /\ choice' = LoadedChoice(saved, styles)
          /\ UNCHANGED <<styles, saved>> /\ synth' = [t \in VoiceThreads |-> Unused]
          /\ heard' = [chosen |-> NoVoice, used |-> {}]
      BY <1>3 DEF RestartVoice
    <2>2. /\ choice' \in Choices /\ choice'.available = Available(styles')
          /\ choice'.hu \in choice'.available /\ choice'.en \in choice'.available
      BY <2>1, LoadedIsChoosable DEF VoiceTypes
    <2>3. tally' \in Tallies
      <3>1. tally \in Tallies
        BY DEF VoiceTypes
      <3> DEFINE a == [tally EXCEPT !.faults = tally.faults + 1]
      <3>2. a \in Tallies
        BY <3>1 DEF Tallies
      <3>3. tally' = [a EXCEPT !.moved = FALSE]
        BY <1>3, <3>1 DEF RestartVoice, Tallies
      <3> HIDE DEF a
      <3> QED
        BY <3>2, <3>3 DEF Tallies
    <2>4. VoiceTypes'
      BY <2>1, <2>2, <2>3 DEF VoiceTypes
    <2>5. VoiceInv'
      BY <2>1, <2>2 DEF VoiceInv, SpokenAsChosen
    <2> QED
      BY <2>4, <2>5
  <1>4. CASE Install
    <2>1. /\ styles' \in SUBSET Presets /\ Default \in styles'
          /\ UNCHANGED <<choice, saved, engine, synth, heard>>
      BY <1>4 DEF Install
    <2>2. /\ tally' \in Tallies
          /\ tally'.moved
      BY <1>4 DEF Install, VoiceTypes, Tallies
    <2>3. VoiceTypes'
      BY <2>1, <2>2 DEF VoiceTypes
    <2>4. VoiceInv'
      BY <2>1, <2>2 DEF VoiceInv, SpokenAsChosen
    <2> QED
      BY <2>3, <2>4
  <1> QED
    BY <1>1, <1>2, <1>3, <1>4

\* The calls of the engine keep them.
LEMMA VoicesSpeak ==
    ASSUME VoiceTypes, VoiceInv, NEW t \in VoiceThreads,
           \/ Reply(t) \/ Preview(t) \/ EnterLoaded(t) \/ EnterCold(t) \/ SynthesisFails(t)
           \/ NextSpan(t) \/ Deliver(t)
    PROVE  VoiceTypes' /\ VoiceInv'
  <1>1. /\ styles \subseteq Presets /\ (styles = {} \/ Default \in styles) /\ Default \in Presets
        /\ synth \in [VoiceThreads -> {Unused} \cup Calling] /\ tally \in Tallies
        /\ choice.available \subseteq Presets
        /\ choice.hu \in choice.available /\ choice.en \in choice.available
        /\ engine \in {"off", "cold", "ready", "broken"}
    BY VoiceEngineAssumption DEF VoiceTypes, Choices, Choosable
  <1>2. UNCHANGED <<styles, choice, saved>>
    BY DEF Reply, Preview, EnterLoaded, EnterCold, Enters, SynthesisFails, NextSpan, Deliver
  <1> DEFINE Kept(c) == /\ c \in Calling
                        /\ ~tally.moved => c.voice \in Available(styles)
                        /\ c.at = "infer" => engine' = "ready"
                        /\ ~tally.moved /\ c.at = "infer" => c.used = c.voice
                        /\ ~tally.moved => c.spoke \subseteq {c.voice}
  \* It is enough that the call of the thread is kept, and what is heard is right.
  <1>3. ASSUME NEW c, c = Unused \/ Kept(c), synth' = [synth EXCEPT ![t] = c],
               c # Unused => engine # "off",
               tally' \in Tallies, tally'.moved = tally.moved,
               \/ engine' = engine
               \/ engine = "cold" /\ engine' \in {"ready", "broken"}
                  /\ (engine' = "ready" => Default \in styles),
               SpokenAsChosen'
        PROVE  VoiceTypes' /\ VoiceInv'
    <2>1. /\ synth' \in [VoiceThreads -> {Unused} \cup Calling] /\ synth'[t] = c
          /\ \A u \in VoiceThreads : u # t => synth'[u] = synth[u]
      BY <1>1, <1>3
    <2>2. VoiceTypes'
      BY <1>1, <1>2, <1>3, <2>1 DEF VoiceTypes
    <2>3. engine' = "off" => \A u \in VoiceThreads : synth'[u] = Unused
      BY <1>3, <2>1 DEF VoiceInv
    <2>4. engine' = "ready" => Default \in styles'
      BY <1>2, <1>3 DEF VoiceInv
    <2>5. engine' # "off" /\ ~tally'.moved => choice'.available = Available(styles')
      BY <1>2, <1>3 DEF VoiceInv
    <2>6. \A u \in VoiceThreads : synth'[u] # Unused /\ synth'[u].at = "infer" => engine' = "ready"
      BY <1>3, <2>1 DEF VoiceInv
    <2>7. ~tally'.moved => \A u \in VoiceThreads : synth'[u] # Unused =>
              /\ synth'[u].voice \in Available(styles')
              /\ synth'[u].at = "infer" => synth'[u].used = synth'[u].voice
              /\ synth'[u].spoke \subseteq {synth'[u].voice}
      BY <1>2, <1>3, <2>1 DEF VoiceInv
    <2> QED
      BY <1>3, <2>2, <2>3, <2>4, <2>5, <2>6, <2>7 DEF VoiceInv
  <1>4. ASSUME NEW kind \in {"reply", "preview"}, NEW v \in choice.available, Calls(t, kind, v),
               UNCHANGED <<engine, heard>>
        PROVE  VoiceTypes' /\ VoiceInv'
    <2> DEFINE c == [at |-> "called", kind |-> kind, voice |-> v, used |-> NoVoice,
                  spoke |-> {}]
    <2>1. synth' = [synth EXCEPT ![t] = c] /\ engine # "off"
      BY <1>4 DEF Calls
    <2>2. tally' \in Tallies /\ tally'.moved = tally.moved
      <3>1. tally' = [tally EXCEPT !.replies = @ + 1]
        BY <1>4 DEF Calls
      <3> QED
        BY <1>1, <3>1 DEF Tallies
    <2>3. Kept(c)
      BY <1>1, <2>1 DEF VoiceInv, Calling
    <2>4. SpokenAsChosen'
      BY <1>4, <2>2 DEF VoiceInv, SpokenAsChosen
    <2> HIDE DEF c, Kept
    <2> QED
      BY <1>3, <1>4, <2>1, <2>2, <2>3, <2>4
  <1>5. CASE Reply(t)
    <2>1. PICK language \in Languages : Calls(t, "reply", Resolve(language))
      BY <1>5 DEF Reply
    <2>2. Resolve(language) \in choice.available
      BY <1>1 DEF Resolve
    <2> QED
      BY <1>4, <1>5, <2>1, <2>2 DEF Reply
  <1>6. CASE Preview(t)
    BY <1>4, <1>6 DEF Preview
  <1>7. CASE EnterLoaded(t) \/ EnterCold(t)
    <2>1. PICK outcome \in {"off", "ready", "broken"} :
              /\ Enters(t, outcome)
              /\ \/ engine = outcome
                 \/ engine = "cold" /\ outcome # "off" /\ (outcome = "ready" => Default \in styles)
      BY <1>1, <1>7 DEF EnterLoaded, EnterCold
    <2> DEFINE d == [synth[t] EXCEPT !.at = IF outcome = "ready" THEN "infer" ELSE "failed"]
               c == [d EXCEPT !.used = VoiceName(synth[t].voice)]
    <2>2. /\ synth[t] # Unused /\ synth[t].at = "called" /\ engine' = outcome
          /\ heard' = heard /\ tally' = tally
      BY <2>1 DEF Enters
    <2>3. synth[t] \in Calling
      BY <1>1, <2>2
    <2>4. synth' = [synth EXCEPT ![t] = c]
      BY <1>1, <2>1, <2>3 DEF Enters
    <2>5. VoiceName(synth[t].voice) \in Presets
      BY <1>1, <2>3 DEF VoiceName
    <2>6. /\ c \in Calling /\ c.voice = synth[t].voice /\ c.used = VoiceName(synth[t].voice)
          /\ c.spoke = synth[t].spoke
          /\ c.at = IF outcome = "ready" THEN "infer" ELSE "failed"
      BY <2>3, <2>5 DEF Calling
    <2> HIDE DEF c
    <2>7. engine # "off"
      BY <2>2 DEF VoiceInv
    <2>8. outcome = "ready" => Default \in styles
      BY <2>1 DEF VoiceInv
    <2>9. ~tally.moved => c.voice \in Available(styles)
      BY <2>2, <2>6 DEF VoiceInv
    <2>10. ~tally.moved /\ c.at = "infer" => c.used = c.voice
      BY <2>6, <2>8, <2>9 DEF VoiceName, Available
    <2>13. ~tally.moved => c.spoke \subseteq {c.voice}
      BY <2>2, <2>6 DEF VoiceInv
    <2>11. Kept(c)
      BY <2>2, <2>6, <2>9, <2>10, <2>13
    <2>12. SpokenAsChosen'
      BY <2>2 DEF VoiceInv, SpokenAsChosen
    <2> HIDE DEF Kept
    <2> QED
      BY <1>1, <1>3, <2>1, <2>2, <2>4, <2>7, <2>11, <2>12
  <1>8. CASE SynthesisFails(t)
    <2> DEFINE c == [synth[t] EXCEPT !.at = "failed"]
    <2>1. /\ synth[t] # Unused /\ engine' = engine /\ heard' = heard
          /\ synth' = [synth EXCEPT ![t] = c] /\ tally' = [tally EXCEPT !.faults = @ + 1]
      BY <1>8 DEF SynthesisFails
    <2>2. synth[t] \in Calling
      BY <1>1, <2>1
    <2>3. /\ c \in Calling /\ c.voice = synth[t].voice /\ c.at = "failed"
          /\ c.spoke = synth[t].spoke
      BY <2>2 DEF Calling
    <2> HIDE DEF c
    <2>4. Kept(c) /\ engine # "off"
      BY <2>1, <2>3 DEF VoiceInv
    <2>5. tally' \in Tallies /\ tally'.moved = tally.moved
      BY <1>1, <2>1 DEF Tallies
    <2>6. SpokenAsChosen'
      BY <2>1, <2>5 DEF VoiceInv, SpokenAsChosen
    <2> HIDE DEF Kept
    <2> QED
      BY <1>3, <2>1, <2>4, <2>5, <2>6
  \* What the calls of a chunk have spoken, with the voice of the chunk.
  <1>10. ASSUME synth[t] # Unused, synth[t].at = "infer"
         PROVE  /\ Parts(t) \subseteq Presets \cup {NoVoice}
                /\ ~tally.moved => Parts(t) \subseteq {synth[t].voice}
    <2>1. synth[t] \in Calling
      BY <1>1, <1>10
    <2>2. synth[t].spoke \subseteq Presets \cup {NoVoice} /\ synth[t].used \in Presets \cup {NoVoice}
      BY <2>1 DEF Calling
    <2>3. ~tally.moved => synth[t].spoke \subseteq {synth[t].voice} /\ synth[t].used = synth[t].voice
      BY <1>10 DEF VoiceInv
    <2> QED
      BY <2>2, <2>3 DEF Parts
  <1>11. CASE NextSpan(t)
    <2> DEFINE d == [synth[t] EXCEPT !.at = "called"]
               c == [d EXCEPT !.spoke = Parts(t)]
    <2>1. /\ synth[t] # Unused /\ synth[t].at = "infer"
          /\ UNCHANGED <<engine, heard, tally>>
      BY <1>11 DEF NextSpan
    <2>2. synth[t] \in Calling
      BY <1>1, <2>1
    <2>3. synth' = [synth EXCEPT ![t] = c]
      BY <1>1, <1>11, <2>2 DEF NextSpan
    <2>4. /\ c \in Calling /\ c.voice = synth[t].voice /\ c.at = "called"
          /\ c.spoke = Parts(t)
      BY <1>10, <2>1, <2>2 DEF Calling
    <2> HIDE DEF c
    <2>5. Kept(c) /\ engine # "off"
      BY <1>10, <2>1, <2>4 DEF VoiceInv
    <2>6. SpokenAsChosen'
      BY <2>1 DEF VoiceInv, SpokenAsChosen
    <2> HIDE DEF Kept
    <2> QED
      BY <1>1, <1>3, <2>1, <2>3, <2>5, <2>6
  <1>9. CASE Deliver(t)
    <2>1. /\ synth[t] # Unused /\ engine' = engine /\ tally' = tally
          /\ synth' = [synth EXCEPT ![t] = Unused]
          /\ \/ heard' = heard
             \/ /\ synth[t].at = "infer"
                /\ heard' = [chosen |-> synth[t].voice, used |-> Parts(t)]
      BY <1>9 DEF Deliver
    <2>2. SpokenAsChosen'
      BY <1>10, <2>1 DEF VoiceInv, SpokenAsChosen
    <2> HIDE DEF Kept
    <2> QED
      BY <1>1, <1>3, <2>1, <2>2
  <1> QED
    BY <1>5, <1>6, <1>7, <1>8, <1>9, <1>11

\* A chunk that is heard is spoken by the voice that was chosen for it, from its
\* first span to its last, whatever the file of the choice says, with any number of
\* chunks, spans, stops and previews at once, and however the choice changes in the
\* meantime (_synthesize_chunk, Supertonic.synthesize and _voice_name).
THEOREM SpeaksAsChosen == VoiceSpec => []SpokenAsChosen
  <1> DEFINE Inv == VoiceTypes /\ VoiceInv
  <1>1. VoiceInit => Inv
    BY VoicesInit
  <1>2. Inv /\ [VoiceNext]_voiceVars => Inv'
    <2> SUFFICES ASSUME Inv, [VoiceNext]_voiceVars PROVE Inv'
      OBVIOUS
    <2>1. ASSUME InterruptReply PROVE Inv'
      <3> DEFINE Cut(c) == [c EXCEPT !.kind = "cut"]
      <3>1. synth \in [VoiceThreads -> {Unused} \cup Calling]
        BY DEF VoiceTypes
      <3>2. ASSUME NEW c \in Calling
            PROVE  Cut(c) \in Calling /\ Cut(c).voice = c.voice /\ Cut(c).at = c.at /\ Cut(c).used = c.used
                   /\ Cut(c).spoke = c.spoke
        BY DEF Calling
      <3>3. synth' \in [VoiceThreads -> {Unused} \cup Calling]
        BY <2>1, <3>1, <3>2 DEF InterruptReply
      <3>4. \A t \in VoiceThreads : \/ synth'[t] = synth[t]
                                    \/ /\ synth[t] # Unused
                                       /\ synth'[t].voice = synth[t].voice
                                       /\ synth'[t].at = synth[t].at
                                       /\ synth'[t].used = synth[t].used
                                       /\ synth'[t].spoke = synth[t].spoke
        BY <2>1, <3>1, <3>2 DEF InterruptReply
      <3>5. UNCHANGED <<styles, choice, saved, engine, heard, tally>>
        BY <2>1 DEF InterruptReply
      <3>6. engine # "off"
        BY <2>1 DEF InterruptReply, VoiceInv
      <3> QED
        BY <3>3, <3>4, <3>5, <3>6 DEF VoiceTypes, VoiceInv, SpokenAsChosen
    <2>2. CASE UNCHANGED voiceVars
      BY <2>2 DEF voiceVars, VoiceTypes, VoiceInv, SpokenAsChosen
    <2> QED
      BY <2>1, <2>2, VoicesChoose, VoicesSpeak DEF VoiceNext
  <1>3. Inv => SpokenAsChosen
    BY DEF VoiceInv
  <1> QED
    BY <1>1, <1>2, <1>3, PTL DEF VoiceSpec

(***************************************************************************)
(* The audio diagnosis.                                                    *)
(***************************************************************************)

AtWork == {"write", "writing", "judge"}

Testing == [at : AtWork, short : BOOLEAN, level : 0 .. 2]

Refused == [at |-> "answered", verdict |-> "busy"]

Answered == [at : {"answered"}, verdict : {"too_short", "silent_mic", "ok", "asr_empty", "asr_error"},
             world : Worlds, level : 0 .. 2, fires : BOOLEAN]

DiagnosisTypes ==
    /\ world \in Worlds \cup {Unseen}
    /\ tester \in [Clients -> {Resting, Refused} \cup Testing \cup Answered]
    /\ wav \in [clips : SUBSET Clients, whole : BOOLEAN, last : SUBSET Clients, kept : BOOLEAN]

\* One test at most is under way, and it has the lock; the recording is the clip
\* of the last test that opened it, and whole when that test could write it.
RecordingInv ==
    /\ \A c \in Clients : tester[c].at \in AtWork => testLock /\ world \in Worlds
    /\ \A c, d \in Clients : tester[c].at \in AtWork /\ tester[d].at \in AtWork => c = d
    /\ \A c \in Clients : tester[c].at = "writing" => wav.clips = {c} /\ wav.last = {c}
    /\ wav.clips # {} => \E c \in Clients : wav.clips = {c}
    /\ wav.kept => wav.whole /\ wav.clips = wav.last

\* The two halves of what the page may believe.
ProbeNamesStage ==
    probe.verdict \notin {"none", "no_audio"} /\ probe.measured =>
        LET w == probe.world
        IN probe.verdict =
            CASE Captured(w) = 0 -> "browser_source_silent"
              [] Captured(w) > 0 /\ w.fault = "conversion" -> "browser_conversion_silent"
              [] Captured(w) > 0 /\ w.fault = "transport" -> "transport_silent"
              [] OTHER -> "ok"

TestBlames(t) ==
    t.at = "answered" /\ t.verdict # "busy" =>
        /\ t.verdict = "silent_mic" => t.level < 2
        /\ t.verdict \in {"asr_empty", "asr_error"} => t.world.engine # "hears" /\ t.level = 2
        /\ t.verdict = "ok" /\ ~t.fires => t.world.vad # "hears"

DiagnosisInv ==
    /\ DiagnosisTypes /\ RecordingInv /\ ProbeNamesStage
    /\ \A c \in Clients : TestBlames(tester[c])

\* What is captured, converted and what arrives is a level, and each stage
\* passes on what it got or silence.
LEMMA LevelFacts ==
    ASSUME NEW w \in Worlds
    PROVE  /\ Captured(w) \in 0 .. 2 /\ Converted(w) \in 0 .. 2 /\ Arrived(w) \in 0 .. 2
           /\ w.fault = "capture" => Captured(w) = 0
           /\ Converted(w) = IF w.fault = "conversion" THEN 0 ELSE Captured(w)
           /\ Arrived(w) = IF w.fault = "transport" THEN 0 ELSE Converted(w)
  BY DEF Worlds, Captured, Converted, Arrived

\* _mic_probe_core, when both measurements came with the samples, names the
\* broken stage.
LEMMA ProbeIsRight ==
    ASSUME NEW w \in Worlds
    PROVE  ProbeVerdict(Captured(w), Converted(w), Arrived(w)) =
               CASE Captured(w) = 0 -> "browser_source_silent"
                 [] Captured(w) > 0 /\ w.fault = "conversion" -> "browser_conversion_silent"
                 [] Captured(w) > 0 /\ w.fault = "transport" -> "transport_silent"
                 [] OTHER -> "ok"
  <1>1. PICK s \in 0 .. 2, p \in 0 .. 2, a \in 0 .. 2 :
            s = Captured(w) /\ p = Converted(w) /\ a = Arrived(w)
    BY LevelFacts
  <1>2. /\ p = IF w.fault = "conversion" THEN 0 ELSE s
        /\ a = IF w.fault = "transport" THEN 0 ELSE p
    BY <1>1, LevelFacts
  <1>3. /\ Sounds(s) <=> s > 0
        /\ Sounds(p) <=> p > 0
        /\ Sounds(a) <=> a > 0
    BY AudioDiagnosisAssumption DEF Sounds
  <1>4. ProbeVerdict(s, p, a) =
            IF s > 0 /\ ~(p > 0) THEN "browser_conversion_silent"
            ELSE IF a > 0 THEN "ok"
            ELSE IF s > 0 THEN "transport_silent" ELSE "browser_source_silent"
    BY <1>3 DEF ProbeVerdict
  <1>5. CASE s = 0
    BY <1>1, <1>2, <1>4, <1>5
  <1>6. CASE s > 0 /\ w.fault = "conversion"
    BY <1>1, <1>2, <1>4, <1>6
  <1>7. CASE s > 0 /\ w.fault = "transport"
    BY <1>1, <1>2, <1>4, <1>7
  <1>8. CASE s > 0 /\ w.fault \notin {"conversion", "transport"}
    BY <1>1, <1>2, <1>4, <1>8
  <1> QED
    BY <1>5, <1>6, <1>7, <1>8

\* The stages of _run_asr_test blame what is broken.
LEMMA VerdictIsRight ==
    ASSUME NEW t \in Testing, world \in Worlds,
           NEW r, r = [at |-> "answered", verdict |-> TestVerdict(t), world |-> world,
                       level |-> t.level,
                       fires |-> ~t.short /\ t.level > 0 /\ (world.mock \/ world.vad = "hears")]
    PROVE  r \in Answered /\ TestBlames(r)
  <1>1. t.level \in 0 .. 2 /\ t.short \in BOOLEAN
    BY DEF Testing
  <1>2. /\ world.engine \in {"hears", "empty", "error", "absent"} /\ world.mock \in BOOLEAN
        /\ world.vad \in {"hears", "deaf", "absent"}
    BY DEF Worlds
  <1>3. /\ Transcribed(world) \in {"ok", "asr_empty", "asr_error"}
        /\ Transcribed(world) # "ok" => world.engine # "hears"
        /\ Transcribed(world) = "ok" => world.mock \/ world.engine = "hears"
    BY <1>2 DEF Transcribed
  <1>4. /\ TestVerdict(t) \in {"too_short", "silent_mic", "ok", "asr_empty", "asr_error"}
        /\ TestVerdict(t) = "silent_mic" => t.level < 2
        /\ TestVerdict(t) \in {"ok", "asr_empty", "asr_error"} =>
              ~t.short /\ t.level = 2 /\ TestVerdict(t) = Transcribed(world)
    BY <1>1, <1>3 DEF TestVerdict
  <1>5. r \in Answered
    BY <1>1, <1>4 DEF Answered
  <1>6. /\ r.verdict = TestVerdict(t) /\ r.level = t.level /\ r.world = world
        /\ r.fires = (~t.short /\ t.level > 0 /\ (world.mock \/ world.vad = "hears"))
    OBVIOUS
  <1>7. r.verdict = "ok" /\ ~r.fires => r.world.vad # "hears"
    <2> SUFFICES ASSUME r.verdict = "ok", r.world.vad = "hears" PROVE r.fires
      OBVIOUS
    <2>1. ~t.short /\ t.level > 0
      BY <1>4, <1>6
    <2>2. world.vad = "hears"
      BY <1>6
    <2> QED
      BY <1>6, <2>1, <2>2, Zenon
  <1>8. r.verdict \in {"asr_empty", "asr_error"} => r.world.engine # "hears" /\ r.level = 2
    BY <1>3, <1>4, <1>6
  <1> QED
    BY <1>4, <1>5, <1>6, <1>7, <1>8 DEF TestBlames

\* What a step does to one client keeps the clients' types and what is blamed.
LEMMA OneTester ==
    ASSUME DiagnosisTypes, \A c \in Clients : TestBlames(tester[c]), NEW c \in Clients,
           NEW r \in {Resting, Refused} \cup Testing \cup Answered, TestBlames(r),
           tester' = [tester EXCEPT ![c] = r]
    PROVE  /\ tester' \in [Clients -> {Resting, Refused} \cup Testing \cup Answered]
           /\ tester'[c] = r /\ \A d \in Clients : d # c => tester'[d] = tester[d]
           /\ \A d \in Clients : TestBlames(tester'[d])
  BY DEF DiagnosisTypes

\* Every step keeps the invariant of the diagnosis.
LEMMA DiagnosisStep == DiagnosisInv /\ [DiagnosisNext]_diagnosisVars => DiagnosisInv'
  <1> SUFFICES ASSUME DiagnosisInv, [DiagnosisNext]_diagnosisVars PROVE DiagnosisInv'
    OBVIOUS
  <1>1. DiagnosisTypes /\ RecordingInv /\ ProbeNamesStage /\ \A c \in Clients : TestBlames(tester[c])
    BY DEF DiagnosisInv
  <1>2. ASSUME UNCHANGED <<testLock, tester, wav>>, ProbeNamesStage', world' = world \/ world' \in Worlds
        PROVE  DiagnosisInv'
    BY <1>1, <1>2 DEF DiagnosisInv, DiagnosisTypes, RecordingInv
  <1>3. ASSUME probe' = probe PROVE ProbeNamesStage'
    BY <1>1, <1>3 DEF ProbeNamesStage
  <1>4. CASE Open \/ Live \/ UNCHANGED diagnosisVars
    <2>1. UNCHANGED <<testLock, tester, wav, probe>> /\ (world' = world \/ world' \in Worlds)
      BY <1>4 DEF Open, Live, diagnosisVars
    <2> QED
      BY <1>2, <1>3, <2>1
  <1>5. CASE Repair
    <2>1. UNCHANGED <<testLock, tester, wav, probe>>
      BY <1>5 DEF Repair
    <2>2. world \in Worlds
      BY <1>1, <1>5 DEF Repair, DiagnosisTypes
    <2>3. world' \in Worlds
      BY <1>5, <2>2 DEF Repair, Worlds, Faults
    <2> QED
      BY <1>2, <1>3, <2>1, <2>3
  <1>6. CASE Probe
    <2>1. UNCHANGED <<world, testLock, tester, wav>> /\ world \in Worlds
      BY <1>1, <1>6 DEF Probe, DiagnosisTypes
    <2>2. PICK src \in {Captured(world), NotMeasurable}, pcm \in {Converted(world), NotMeasurable},
               samples \in BOOLEAN :
            probe' = [world |-> world, measured |-> NotMeasurable \notin {src, pcm},
                      verdict |-> IF samples THEN ProbeVerdict(src, pcm, Arrived(world)) ELSE "no_audio"]
      BY <1>6 DEF Probe
    <2>3. /\ probe'.world = world
          /\ probe'.measured => src = Captured(world) /\ pcm = Converted(world)
          /\ probe'.verdict = IF samples THEN ProbeVerdict(src, pcm, Arrived(world)) ELSE "no_audio"
      BY <2>2
    <2>4. ASSUME probe'.verdict \notin {"none", "no_audio"}, probe'.measured
          PROVE  probe'.verdict = ProbeVerdict(Captured(world), Converted(world), Arrived(world))
      BY <2>3, <2>4
    <2>5. ProbeNamesStage'
      BY <2>1, <2>3, <2>4, ProbeIsRight DEF ProbeNamesStage
    <2> QED
      BY <1>1, <1>2, <2>1, <2>5
  <1>7. ASSUME NEW c \in Clients, Post(c)
        PROVE  DiagnosisInv'
    <2>1. world \in Worlds /\ UNCHANGED <<world, probe, wav>> /\ testLock' = TRUE
             /\ tester[c].at \notin AtWork
      BY <1>1, <1>7 DEF Post, DiagnosisTypes, AtWork
    <2>2. PICK short \in BOOLEAN :
            tester' = [tester EXCEPT ![c] =
                IF MayTest THEN [at |-> "write", short |-> short, level |-> Arrived(world)]
                ELSE [at |-> "answered", verdict |-> "busy"]]
      BY <1>7 DEF Post
    <2>3. PICK r \in {Refused} \cup Testing :
            /\ tester' = [tester EXCEPT ![c] = r] /\ r.at \in {"write", "answered"} /\ TestBlames(r)
            /\ r.at = "write" => ~testLock
      <3>1. CASE MayTest
        <4> DEFINE r == [at |-> "write", short |-> short, level |-> Arrived(world)]
        <4>1. r \in Testing /\ r.at = "write"
          BY <2>1, LevelFacts DEF Testing, AtWork
        <4>2. TestBlames(r)
          BY <4>1 DEF TestBlames
        <4>3. tester' = [tester EXCEPT ![c] = r]
          BY <2>2, <3>1
        <4> HIDE DEF r
        <4> QED
          BY <3>1, <4>1, <4>2, <4>3 DEF MayTest
      <3>2. CASE ~MayTest
        <4>1. tester' = [tester EXCEPT ![c] = Refused]
          BY <2>2, <3>2 DEF Refused
        <4>2. TestBlames(Refused) /\ Refused.at = "answered"
          BY DEF Refused, TestBlames
        <4> QED
          BY <4>1, <4>2
      <3> QED
        BY <3>1, <3>2
    <2>4. /\ tester' \in [Clients -> {Resting, Refused} \cup Testing \cup Answered]
          /\ tester'[c] = r /\ \A d \in Clients : d # c => tester'[d] = tester[d]
          /\ \A d \in Clients : TestBlames(tester'[d])
      BY <1>1, <2>3, OneTester
    <2>5. DiagnosisTypes'
      BY <1>1, <2>1, <2>4 DEF DiagnosisTypes
    <2>6. RecordingInv'
      BY <1>1, <2>1, <2>3, <2>4 DEF RecordingInv, AtWork
    <2> QED
      BY <1>3, <2>1, <2>4, <2>5, <2>6 DEF DiagnosisInv
  <1>8. ASSUME NEW c \in Clients, OpenWav(c) \/ CloseWav(c) \/ WavFails(c)
        PROVE  DiagnosisInv'
    <2>1. UNCHANGED <<world, probe, testLock>> /\ tester[c].at \in {"write", "writing"}
      BY <1>8 DEF OpenWav, CloseWav, WavFails, HoldTest
    <2>2. tester[c] \in Testing
      BY <1>1, <2>1 DEF DiagnosisTypes, Resting, Refused, Answered
    <2>3. PICK r \in Testing :
            /\ tester' = [tester EXCEPT ![c] = r]
            /\ \/ /\ tester[c].at = "write" /\ r.at = "writing"
                  /\ wav' = [clips |-> {c}, whole |-> FALSE, last |-> {c}, kept |-> FALSE]
               \/ /\ tester[c].at = "writing" /\ r.at = "judge"
                  /\ wav' = [wav EXCEPT !.clips = @ \cup {c}, !.whole = TRUE, !.kept = TRUE]
               \/ r.at = "judge" /\ wav' = [wav EXCEPT !.last = {c}, !.kept = FALSE]
      <3>1. ASSUME NEW place \in AtWork, Wrote(c, place)
            PROVE  \E r \in Testing : tester' = [tester EXCEPT ![c] = r] /\ r.at = place
        <4> DEFINE r == [tester[c] EXCEPT !.at = place]
        <4>1. r \in Testing /\ r.at = place
          BY <2>2 DEF Testing
        <4>2. tester' = [tester EXCEPT ![c] = r]
          BY <1>1, <3>1 DEF DiagnosisTypes, Wrote
        <4> HIDE DEF r
        <4> QED
          BY <4>1, <4>2
      <3> QED
        BY <1>8, <3>1 DEF OpenWav, CloseWav, WavFails, AtWork
    <2>4. TestBlames(r)
      BY <2>3 DEF TestBlames
    <2>5. /\ tester' \in [Clients -> {Resting, Refused} \cup Testing \cup Answered]
          /\ tester'[c] = r /\ \A d \in Clients : d # c => tester'[d] = tester[d]
          /\ \A d \in Clients : TestBlames(tester'[d])
      BY <1>1, <2>3, <2>4, OneTester
    <2>6. \A d \in Clients : d # c => tester'[d].at \notin AtWork
      BY <1>1, <2>1, <2>5 DEF RecordingInv, AtWork
    <2>7. /\ wav' \in [clips : SUBSET Clients, whole : BOOLEAN, last : SUBSET Clients, kept : BOOLEAN]
          /\ r.at = "writing" => wav'.clips = {c} /\ wav'.last = {c}
          /\ wav'.clips # {} => \E d \in Clients : wav'.clips = {d}
          /\ wav'.kept => wav'.whole /\ wav'.clips = wav'.last
      <3>1. /\ wav \in [clips : SUBSET Clients, whole : BOOLEAN, last : SUBSET Clients, kept : BOOLEAN]
            /\ tester[c].at = "writing" => wav.clips = {c} /\ wav.last = {c}
            /\ wav.clips # {} => \E d \in Clients : wav.clips = {d}
        BY <1>1 DEF DiagnosisTypes, RecordingInv
      <3>2. CASE r.at = "writing" /\ wav' = [clips |-> {c}, whole |-> FALSE, last |-> {c}, kept |-> FALSE]
        BY <3>2
      <3>3. CASE /\ tester[c].at = "writing" /\ r.at = "judge"
                 /\ wav' = [wav EXCEPT !.clips = @ \cup {c}, !.whole = TRUE, !.kept = TRUE]
        <4>1. wav' = [clips |-> {c}, whole |-> TRUE, last |-> {c}, kept |-> TRUE]
          BY <3>1, <3>3
        <4>2. r.at # "writing"
          BY <3>3
        <4>3. wav'.clips = {c} /\ wav'.last = {c} /\ wav'.whole = TRUE /\ wav'.kept = TRUE
          BY <4>1
        <4>4. wav' \in [clips : SUBSET Clients, whole : BOOLEAN, last : SUBSET Clients, kept : BOOLEAN]
          BY <4>1
        <4> QED
          BY <4>2, <4>3, <4>4
      <3>4. CASE r.at = "judge" /\ wav' = [wav EXCEPT !.last = {c}, !.kept = FALSE]
        BY <3>1, <3>4
      <3> QED
        BY <2>3, <3>2, <3>3, <3>4
    <2>8. testLock' /\ world' \in Worlds
      BY <1>1, <2>1 DEF RecordingInv, AtWork
    <2>9. RecordingInv'
      BY <2>5, <2>6, <2>7, <2>8 DEF RecordingInv, AtWork
    <2> QED
      BY <1>1, <1>3, <2>1, <2>5, <2>7, <2>9 DEF DiagnosisInv, DiagnosisTypes
  <1>9. ASSUME NEW c \in Clients, EndTest(c)
        PROVE  DiagnosisInv'
    <2>1. UNCHANGED <<world, probe, wav>> /\ testLock' = FALSE /\ tester[c].at = "judge"
      BY <1>9 DEF EndTest
    <2>2. tester[c] \in Testing
      BY <1>1, <2>1 DEF DiagnosisTypes, Resting, Refused, Answered
    <2> DEFINE t == tester[c]
               r == [at |-> "answered", verdict |-> TestVerdict(t), world |-> world, level |-> t.level,
                     fires |-> ~t.short /\ t.level > 0 /\ (world.mock \/ world.vad = "hears")]
    <2>3. tester' = [tester EXCEPT ![c] = r]
      BY <1>1, <1>9 DEF EndTest, DiagnosisTypes
    <2>4. world \in Worlds
      BY <1>1, <2>1 DEF RecordingInv, AtWork
    <2>5. r \in Answered /\ TestBlames(r) /\ r.at = "answered"
      BY <2>2, <2>4, VerdictIsRight
    <2> HIDE DEF r
    <2>6. /\ tester' \in [Clients -> {Resting, Refused} \cup Testing \cup Answered]
          /\ tester'[c] = r /\ \A d \in Clients : d # c => tester'[d] = tester[d]
          /\ \A d \in Clients : TestBlames(tester'[d])
      BY <1>1, <2>3, <2>5, OneTester
    <2>7. \A d \in Clients : tester'[d].at \notin AtWork
      BY <1>1, <2>1, <2>5, <2>6 DEF RecordingInv, AtWork
    <2>9. RecordingInv'
      BY <1>1, <2>1, <2>7 DEF RecordingInv, AtWork
    <2> QED
      BY <1>1, <1>3, <2>1, <2>6, <2>9 DEF DiagnosisInv, DiagnosisTypes
  <1> QED
    BY <1>4, <1>5, <1>6, <1>7, <1>8, <1>9 DEF DiagnosisNext

\* A diagnosis can be trusted: the probe names the stage that is broken, a test
\* blames what is broken, the recording never mixes two clips, and one that could
\* be written is that of the last test, whole (_mic_probe_core, api_asr_test,
\* _run_asr_test and _write_asr_test_wav, app/web_server.py).
THEOREM DiagnosisCanBeTrusted == DiagnosisSpec => []DiagnosisIsSound
  <1>1. DiagnosisInit => DiagnosisInv
    <2> SUFFICES ASSUME DiagnosisInit PROVE DiagnosisInv
      OBVIOUS
    <2>1. \A c \in Clients : tester[c] = Resting /\ TestBlames(tester[c]) /\ tester[c].at \notin AtWork
      BY DEF DiagnosisInit, Resting, TestBlames, AtWork
    <2>2. DiagnosisTypes /\ ProbeNamesStage
      BY DEF DiagnosisInit, DiagnosisTypes, ProbeNamesStage, NoProbe
    <2>3. RecordingInv
      BY <2>1 DEF DiagnosisInit, RecordingInv, AtWork
    <2> QED
      BY <2>1, <2>2, <2>3 DEF DiagnosisInv
  <1>2. DiagnosisInv => DiagnosisIsSound
    <2> SUFFICES ASSUME DiagnosisInv PROVE DiagnosisIsSound
      OBVIOUS
    <2>1. DiagnosisNamesStage
      BY DEF DiagnosisInv, ProbeNamesStage, TestBlames, DiagnosisNamesStage
    <2>2. Cardinality(wav.clips) <= 1
      <3>1. CASE wav.clips = {}
        BY <3>1, FS_EmptySet
      <3>2. CASE wav.clips # {}
        <4>1. PICK c \in Clients : wav.clips = {c}
          BY <3>2 DEF DiagnosisInv, RecordingInv
        <4>2. Cardinality({c}) = 1
          BY FS_Singleton, Zenon
        <4> QED
          BY <4>1, <4>2
      <3> QED
        BY <3>1, <3>2
    <2>3. ~testLock => \A c \in Clients : tester[c].at \notin {"write", "writing", "judge"}
      BY DEF DiagnosisInv, RecordingInv, AtWork
    <2>4. wav.kept => wav.whole /\ wav.clips = wav.last
      BY DEF DiagnosisInv, RecordingInv
    <2> QED
      BY <2>1, <2>2, <2>3, <2>4 DEF RecordingIsOneClip, DiagnosisIsSound
  <1> QED
    BY <1>1, <1>2, DiagnosisStep, PTL DEF DiagnosisSpec

(***************************************************************************)
(* The choice of the model.                                                *)
(***************************************************************************)

Choosing == [path : Paths \cup {NoPath}, meta : Paths \cup {NoPath}]

Selecting == [at : {"path", "meta", "save", "replace", "sync"}, path : Paths \cup {NoPath},
              payload : Choosing]

Servers == [st : {"down", "loading", "up"}, path : Paths \cup {NoPath}]

Scripts == [at : {"idle", "look", "guard", "launch", "spawn", "wait", "supervise"},
            path : Paths \cup {NoPath}]

Counts == [requests : Nat, starts : Nat, faults : Nat, overlap : BOOLEAN, crowded : BOOLEAN]

Both(path) == [path |-> path, meta |-> path]

\* While calls do not overlap, the one that runs has brought the choice in memory,
\* the file and the status to where its next assignment expects them.
ChoiceInv ==
    ~count.overlap =>
        /\ \A v, w \in Workers : worker[v] # Free /\ worker[w] # Free => v = w
        /\ chosenFile.meta = chosenFile.path
        /\ (\A w \in Workers : worker[w] = Free \/ worker[w].at = "path") => settings = chosenFile
        /\ \A w \in Workers : worker[w] # Free =>
              /\ worker[w].at = "meta" => settings.path = worker[w].path
              /\ worker[w].at \in {"save", "replace"} => settings = Both(worker[w].path)
              /\ worker[w].at = "replace" => worker[w].payload = settings
              /\ worker[w].at = "sync" => chosenFile = settings
        /\ (\A w \in Workers : worker[w] = Free \/ worker[w].at # "sync") => status = Resolved

Quiet == ~count.crowded

Works(s) == starter[s].at \notin {"idle", "supervise"}

\* One server answers; and while starts do not meet, no server is left when a start
\* launches its own.
ServerInv ==
    /\ \A s \in Starters : server[s].st = "down" => server[s] = Down
    /\ \A s \in Starters : server[s] # Down =>
          starter[s].at \in {"wait", "supervise"} /\ server[s].path = starter[s].path
    /\ \A s, t \in Starters : server[s].st = "up" /\ server[t].st = "up" => s = t
    /\ Quiet =>
        /\ \A s, t \in Starters : Works(s) /\ Works(t) => s = t
        /\ \A s \in Starters : server[s].st = "loading" => starter[s].at = "wait"
        /\ \A s, t \in Starters : starter[s].at \in {"launch", "spawn"} => server[t] = Down
        /\ \A s, t \in Starters : starter[s].at = "wait" /\ t # s => server[t] = Down
        /\ \A s \in Starters : starter[s].at # "guard"

\* A marker that was written for a server that was asked, or for one's own, names
\* the server that answers, or the one that will.
MarkerInv ==
    Quiet /\ written = "asked" =>
        /\ \A s \in Starters : starter[s].at \in {"spawn", "wait"} => marker = starter[s].path
        /\ \A s \in Starters : server[s].st = "up" => TakenFor(server[s].path, marker)

\* A number of the counts changes no flag.
LEMMA CountNumbers ==
    ASSUME NEW c \in Counts, NEW n \in Nat
    PROVE  \A d \in {[c EXCEPT !.requests = n], [c EXCEPT !.starts = n], [c EXCEPT !.faults = n]} :
              /\ d \in Counts
              /\ d.overlap = c.overlap /\ d.crowded = c.crowded
  BY DEF Counts

\* A call that arrives overlaps with one that runs.
LEMMA CalledCounts ==
    ASSUME count \in Counts, NEW w \in Workers, NEW path, Called(w, path)
    PROVE  /\ count' \in Counts
           /\ ~count'.overlap => ~count.overlap /\ \A v \in Workers : worker[v] = Free
           /\ Quiet' <=> Quiet
  <1> DEFINE a == [count EXCEPT !.requests = count.requests + 1]
  <1>1. a \in Counts /\ a.overlap = count.overlap /\ a.crowded = count.crowded
    BY CountNumbers DEF Counts
  <1>2. PICK b \in BOOLEAN : b <=> count.overlap \/ \E v \in Workers : worker[v] # Free
    OBVIOUS
  <1>3. count' = [a EXCEPT !.overlap = b]
    BY <1>2 DEF Called, Counts
  <1> HIDE DEF a
  <1>4. count' \in Counts /\ count'.overlap = b /\ count'.crowded = a.crowded
    BY <1>1, <1>3 DEF Counts
  <1> QED
    BY <1>1, <1>2, <1>4 DEF Quiet

\* A start that begins meets one that has not come to an end.
LEMMA RunCounts ==
    ASSUME count \in Counts, NEW s \in Starters, Run(s)
    PROVE  /\ count' \in Counts
           /\ count'.overlap = count.overlap
           /\ Quiet' => Quiet /\ \A t \in Starters : ~Works(t)
  <1> DEFINE a == [count EXCEPT !.starts = count.starts + 1]
  <1>1. a \in Counts /\ a.overlap = count.overlap /\ a.crowded = count.crowded
    BY CountNumbers DEF Counts
  <1>2. PICK b \in BOOLEAN : b <=> count.crowded \/ \E t \in Starters : Works(t)
    OBVIOUS
  <1>3. count' = [a EXCEPT !.crowded = b]
    BY <1>2 DEF Run, Works, Counts
  <1> HIDE DEF a
  <1>4. count' \in Counts /\ count'.overlap = a.overlap /\ count'.crowded = b
    BY <1>1, <1>3 DEF Counts
  <1> QED
    BY <1>1, <1>2, <1>4 DEF Quiet

\* The other steps.
LEMMA OtherCounts ==
    ASSUME count \in Counts,
           \/ UNCHANGED count
           \/ count' = [count EXCEPT !.faults = @ + 1]
           \/ count' = [count EXCEPT !.faults = @ + 1, !.overlap = TRUE]
    PROVE  /\ count' \in Counts
           /\ ~count'.overlap => count'.overlap = count.overlap
           /\ Quiet' => Quiet
  <1> DEFINE a == [count EXCEPT !.faults = count.faults + 1]
  <1>1. a \in Counts /\ a.overlap = count.overlap /\ a.crowded = count.crowded
    BY CountNumbers DEF Counts
  <1>2. CASE UNCHANGED count
    BY <1>2 DEF Quiet
  <1>3. CASE count' = a
    BY <1>1, <1>3 DEF Quiet
  <1>4. CASE count' = [count EXCEPT !.faults = @ + 1, !.overlap = TRUE]
    <2>1. count' = [a EXCEPT !.overlap = TRUE]
      BY <1>4 DEF Counts
    <2> HIDE DEF a
    <2>2. count' \in Counts /\ count'.overlap = TRUE /\ count'.crowded = a.crowded
      BY <1>1, <2>1 DEF Counts
    <2> QED
      BY <1>1, <2>2 DEF Quiet
  <1> QED
    BY <1>2, <1>3, <1>4

\* A marker that is written or fails to be changes no flag.
LEMMA MarksCounts ==
    ASSUME count \in Counts, NEW s \in Starters, NEW how, Marks(s, how) \/ NotMarked
    PROVE  /\ count' \in Counts
           /\ count'.overlap = count.overlap /\ count'.crowded = count.crowded
           /\ written' \in {how, "lost"}
           /\ written' # "lost" => marker' = starter[s].path
  <1>1. UNCHANGED count \/ count' = [count EXCEPT !.faults = count.faults + 1]
    BY DEF Marks, NotMarked
  <1> QED
    BY <1>1, CountNumbers DEF Counts, Marks, NotMarked

\* A call that goes on to its next assignment keeps what it was asked.
LEMMA WorkerMoves ==
    ASSUME worker \in [Workers -> {Free} \cup Selecting], NEW w \in Workers, worker[w].at # "free",
           NEW place \in {"path", "meta", "save", "replace", "sync"},
           NEW payload \in Choosing,
           \/ Go(w, place) /\ payload = worker[w].payload
           \/ worker' = [worker EXCEPT ![w].at = place, ![w].payload = payload]
    PROVE  /\ worker' \in [Workers -> {Free} \cup Selecting]
           /\ worker'[w] \in Selecting /\ worker'[w] # Free
           /\ worker'[w].at = place /\ worker'[w].path = worker[w].path
           /\ worker'[w].payload = payload
           /\ \A v \in Workers : v # w => worker'[v] = worker[v]
  <1>1. worker[w] \in Selecting
    BY DEF Free
  <1> DEFINE r == [[worker[w] EXCEPT !.at = place] EXCEPT !.payload = payload]
  <1>2. r \in Selecting /\ r.at = place /\ r.path = worker[w].path /\ r.payload = payload
    BY <1>1 DEF Selecting
  <1>3. worker' = [worker EXCEPT ![w] = r]
    <2>1. CASE Go(w, place) /\ payload = worker[w].payload
      <3>1. worker' = [worker EXCEPT ![w] = [worker[w] EXCEPT !.at = place]]
        BY <2>1 DEF Go
      <3>2. [worker[w] EXCEPT !.at = place] = r
        BY <1>1, <2>1 DEF Selecting
      <3> QED
        BY <3>1, <3>2
    <2>2. CASE worker' = [worker EXCEPT ![w].at = place, ![w].payload = payload]
      BY <1>1, <2>2
    <2> QED
      BY <2>1, <2>2
  <1> HIDE DEF r
  <1>4. r # Free
    BY <1>2 DEF Free
  <1> QED
    BY <1>2, <1>3, <1>4

ChoiceTypes ==
    /\ chosenFile \in Choosing /\ settings \in Choosing
    /\ worker \in [Workers -> {Free} \cup Selecting]
    /\ count \in Counts

\* The calls keep the choice.
LEMMA ChoiceCalls ==
    ASSUME ChoiceTypes, ChoiceInv, NEW w \in Workers,
           \/ Select(w) \/ Reset(w) \/ SetPath(w) \/ SetMeta(w) \/ Collect(w) \/ Replace(w)
           \/ SaveFails(w) \/ Sync(w)
    PROVE  ChoiceTypes' /\ ChoiceInv'
  <1>1. /\ chosenFile \in Choosing /\ settings \in Choosing
        /\ worker \in [Workers -> {Free} \cup Selecting]
        /\ count \in Counts
    BY DEF ChoiceTypes
  <1>2. \A v \in Workers : worker[v].at # "free" => worker[v] # Free /\ worker[v] \in Selecting
    BY <1>1 DEF Free
  <1>3. ASSUME NEW path \in Paths \cup {NoPath}, Called(w, path)
        PROVE  ChoiceTypes' /\ ChoiceInv'
    <2> DEFINE r == [at |-> "path", path |-> path, payload |-> Nothing]
    <2>1. /\ worker' = [worker EXCEPT ![w] = r] /\ UNCHANGED <<chosenFile, settings, status>>
      BY <1>3 DEF Called
    <2>2. r \in Selecting /\ r.at = "path"
      BY DEF Selecting, Choosing, Nothing
    <2> HIDE DEF r
    <2>3. /\ worker' \in [Workers -> {Free} \cup Selecting] /\ worker'[w] = r
          /\ \A v \in Workers : v # w => worker'[v] = worker[v]
      BY <1>1, <2>1, <2>2
    <2>4. /\ count' \in Counts
          /\ ~count'.overlap => ~count.overlap /\ \A v \in Workers : worker[v] = Free
      BY <1>1, <1>3, CalledCounts
    <2>5. ChoiceTypes'
      BY <1>1, <2>1, <2>3, <2>4 DEF ChoiceTypes
    <2>6. ASSUME ~count'.overlap
          PROVE  /\ chosenFile.meta = chosenFile.path /\ settings = chosenFile /\ status = Resolved
                 /\ \A v \in Workers : v # w => worker'[v] = Free
      BY <2>3, <2>4, <2>6 DEF ChoiceInv
    <2>7. Resolved' = Resolved
      BY <2>1 DEF Resolved
    <2>8. ChoiceInv'
      BY <2>1, <2>2, <2>3, <2>6, <2>7 DEF ChoiceInv
    <2> QED
      BY <2>5, <2>8
  <1>4. ASSUME worker[w].at # "free", ~count.overlap
        PROVE  /\ \A v \in Workers : v # w => worker[v] = Free
               /\ chosenFile.meta = chosenFile.path
               /\ worker[w].at = "path" => settings = chosenFile
               /\ worker[w].at = "meta" => settings.path = worker[w].path
               /\ worker[w].at \in {"save", "replace"} => settings = Both(worker[w].path)
               /\ worker[w].at = "replace" => worker[w].payload = settings
               /\ worker[w].at = "sync" => chosenFile = settings
               /\ worker[w].at # "sync" => status = Resolved
    <2>1. worker[w] # Free
      BY <1>2, <1>4
    <2>2. \A v \in Workers : v # w => worker[v] = Free
      BY <1>4, <2>1 DEF ChoiceInv
    <2> QED
      BY <1>4, <2>1, <2>2 DEF ChoiceInv
  <1>5. CASE SetPath(w)
    <2>1. /\ worker[w].at = "path" /\ Go(w, "meta") /\ UNCHANGED <<chosenFile, status, count>>
          /\ settings' = [settings EXCEPT !.path = worker[w].path]
      BY <1>5 DEF SetPath, At
    <2>2. worker[w].payload \in Choosing /\ worker[w].path \in Paths \cup {NoPath}
      BY <1>2, <2>1 DEF Selecting
    <2>3. /\ worker' \in [Workers -> {Free} \cup Selecting] /\ worker'[w] # Free
          /\ worker'[w].at = "meta" /\ worker'[w].path = worker[w].path
          /\ \A v \in Workers : v # w => worker'[v] = worker[v]
      BY <1>1, <2>1, <2>2, WorkerMoves
    <2>4. settings' \in Choosing /\ settings'.path = worker[w].path
      BY <1>1, <2>1, <2>2 DEF Choosing
    <2>5. ChoiceTypes'
      BY <1>1, <2>1, <2>3, <2>4 DEF ChoiceTypes
    <2>6. Resolved' = Resolved
      BY <2>1 DEF Resolved
    <2>7. ChoiceInv'
      BY <1>4, <2>1, <2>3, <2>4, <2>6 DEF ChoiceInv
    <2> QED
      BY <2>5, <2>7
  <1>6. CASE SetMeta(w)
    <2>1. /\ worker[w].at = "meta" /\ Go(w, "save") /\ UNCHANGED <<chosenFile, status, count>>
          /\ settings' = [settings EXCEPT !.meta = worker[w].path]
      BY <1>6 DEF SetMeta, At
    <2>2. worker[w].payload \in Choosing /\ worker[w].path \in Paths \cup {NoPath}
      BY <1>2, <2>1 DEF Selecting
    <2>3. /\ worker' \in [Workers -> {Free} \cup Selecting] /\ worker'[w] # Free
          /\ worker'[w].at = "save" /\ worker'[w].path = worker[w].path
          /\ \A v \in Workers : v # w => worker'[v] = worker[v]
      BY <1>1, <2>1, <2>2, WorkerMoves
    <2>4. /\ settings' \in Choosing
          /\ settings.path = worker[w].path => settings' = Both(worker[w].path)
      BY <1>1, <2>1, <2>2 DEF Choosing, Both
    <2>5. ChoiceTypes'
      BY <1>1, <2>1, <2>3, <2>4 DEF ChoiceTypes
    <2>6. Resolved' = Resolved
      BY <2>1 DEF Resolved
    <2>7. ChoiceInv'
      BY <1>4, <2>1, <2>3, <2>4, <2>6 DEF ChoiceInv
    <2> QED
      BY <2>5, <2>7
  <1>7. CASE Collect(w)
    <2>1. /\ worker[w].at = "save" /\ UNCHANGED <<chosenFile, settings, status, count>>
          /\ worker' = [worker EXCEPT ![w].at = "replace", ![w].payload = settings]
      BY <1>7 DEF Collect, At
    <2>2. /\ worker' \in [Workers -> {Free} \cup Selecting] /\ worker'[w] # Free
          /\ worker'[w].at = "replace" /\ worker'[w].path = worker[w].path
          /\ worker'[w].payload = settings
          /\ \A v \in Workers : v # w => worker'[v] = worker[v]
      BY <1>1, <2>1, WorkerMoves
    <2>3. ChoiceTypes'
      BY <1>1, <2>1, <2>2 DEF ChoiceTypes
    <2>4. Resolved' = Resolved
      BY <2>1 DEF Resolved
    <2>5. ChoiceInv'
      BY <1>4, <2>1, <2>2, <2>4 DEF ChoiceInv
    <2> QED
      BY <2>3, <2>5
  <1>8. CASE Replace(w)
    <2>1. /\ worker[w].at = "replace" /\ Go(w, "sync") /\ UNCHANGED <<settings, status, count>>
          /\ chosenFile' = worker[w].payload
      BY <1>8 DEF Replace, At
    <2>2. worker[w].payload \in Choosing
      BY <1>2, <2>1 DEF Selecting
    <2>3. /\ worker' \in [Workers -> {Free} \cup Selecting] /\ worker'[w] # Free
          /\ worker'[w].at = "sync" /\ worker'[w].path = worker[w].path
          /\ \A v \in Workers : v # w => worker'[v] = worker[v]
      BY <1>1, <2>1, <2>2, WorkerMoves
    <2>4. ChoiceTypes'
      BY <1>1, <2>1, <2>2, <2>3 DEF ChoiceTypes
    <2>5. ~count.overlap => chosenFile' = settings' /\ chosenFile'.meta = chosenFile'.path
      BY <1>4, <2>1 DEF Both
    <2>6. ChoiceInv'
      BY <1>4, <2>1, <2>3, <2>5 DEF ChoiceInv
    <2> QED
      BY <2>4, <2>6
  <1>9. CASE SaveFails(w)
    <2>1. /\ worker' = [worker EXCEPT ![w] = Free] /\ UNCHANGED <<chosenFile, settings>>
          /\ count' = [count EXCEPT !.faults = @ + 1, !.overlap = TRUE]
      BY <1>9 DEF SaveFails
    <2>2. count' \in Counts
      BY <1>1, <2>1, OtherCounts
    <2>3. count'.overlap
      BY <1>1, <2>1 DEF Counts
    <2> QED
      BY <1>1, <2>1, <2>2, <2>3 DEF ChoiceTypes, ChoiceInv
  <1>10. CASE Sync(w)
    <2>1. /\ worker[w].at = "sync" /\ worker' = [worker EXCEPT ![w] = Free]
          /\ status' = Resolved /\ UNCHANGED <<chosenFile, settings, count>>
      BY <1>10 DEF Sync, At, Synced
    <2>2. /\ worker' \in [Workers -> {Free} \cup Selecting] /\ worker'[w] = Free
          /\ \A v \in Workers : v # w => worker'[v] = worker[v]
      BY <1>1, <2>1
    <2>3. ChoiceTypes'
      BY <1>1, <2>1, <2>2 DEF ChoiceTypes
    <2>4. Resolved' = Resolved
      BY <2>1 DEF Resolved
    <2>5. ChoiceInv'
      BY <1>4, <2>1, <2>2, <2>4 DEF ChoiceInv
    <2> QED
      BY <2>3, <2>5
  <1>11. CASE Select(w) \/ Reset(w)
    BY <1>3, <1>11 DEF Select, Reset
  <1> QED
    BY <1>5, <1>6, <1>7, <1>8, <1>9, <1>10, <1>11

ServerTypes ==
    /\ server \in [Starters -> Servers] /\ starter \in [Starters -> Scripts] /\ count \in Counts

\* A start that goes on keeps its file; one that ends forgets it.
LEMMA ScriptMoves ==
    ASSUME starter \in [Starters -> Scripts], NEW s \in Starters,
           NEW place \in {"idle", "guard", "launch", "spawn", "wait", "supervise"},
           place # "idle" => Leaves(s, place), place = "idle" => Ends(s)
    PROVE  /\ starter' \in [Starters -> Scripts]
           /\ starter'[s].at = place
           /\ place # "idle" => starter'[s].path = starter[s].path
           /\ \A t \in Starters : t # s => starter'[t] = starter[t]
  <1>1. CASE place = "idle"
    BY <1>1 DEF Ends, Asleep, Scripts
  <1>2. CASE place # "idle"
    <2> DEFINE r == [starter[s] EXCEPT !.at = place]
    <2>1. r \in Scripts /\ r.at = place /\ r.path = starter[s].path
      BY DEF Scripts
    <2>2. starter' = [starter EXCEPT ![s] = r]
      BY <1>2 DEF Leaves
    <2> HIDE DEF r
    <2> QED
      BY <2>1, <2>2
  <1> QED
    BY <1>1, <1>2

\* What is served is the file of the server that answers.
LEMMA ServedPath ==
    ASSUME ServerInv, NEW s \in Starters, server[s].st = "up"
    PROVE  Served = server[s].path
  <1>1. (CHOOSE t \in Serving : TRUE) \in Serving
    BY DEF Serving
  <1>2. \A t \in Serving : t = s
    BY DEF Serving, ServerInv
  <1> QED
    BY <1>1, <1>2 DEF Served

\* What the invariant says of a start that looks, with nothing hidden.
LEMMA QuietLook ==
    ASSUME ServerTypes, ServerInv, Quiet, NEW s \in Starters, starter[s].at = "look"
    PROVE  /\ \A t \in Starters : t # s => starter[t].at \in {"idle", "supervise"}
           /\ \A t \in Starters : server[t].st # "loading"
           /\ \A t \in Starters : server[t] = Down \/ server[t].st = "up"
  <1>1. \A t \in Starters : t # s => ~Works(t)
    BY DEF ServerInv, Works
  <1>2. \A t \in Starters : starter[t].at # "wait"
    BY <1>1 DEF Works
  <1>3. \A t \in Starters : server[t].st # "loading"
    BY <1>2 DEF ServerInv
  <1> QED
    BY <1>1, <1>3 DEF ServerInv, ServerTypes, Servers, Works

\* The looks of the start script keep the servers.
LEMMA ServersLook ==
    ASSUME ServerTypes, ServerInv, Resolved \in Paths \cup {NoPath}, NEW s \in Starters,
           Run(s) \/ LookServing(s) \/ Look(s) \/ Guard(s)
    PROVE  ServerTypes' /\ ServerInv'
  <1>1. /\ server \in [Starters -> Servers] /\ starter \in [Starters -> Scripts] /\ count \in Counts
        /\ Down \in Servers /\ Down.st = "down"
    BY DEF ServerTypes, Down, Servers
  <1>2. CASE Run(s)
    <2> DEFINE r == [at |-> "look", path |-> Resolved]
    <2>1. /\ starter[s].at = "idle" /\ server[s] = Down
          /\ starter' = [starter EXCEPT ![s] = r] /\ UNCHANGED server
      BY <1>2 DEF Run, Asleep
    <2>2. r \in Scripts /\ r.at = "look"
      BY DEF Scripts
    <2> HIDE DEF r
    <2>3. /\ starter' \in [Starters -> Scripts] /\ starter'[s].at = "look"
          /\ \A t \in Starters : t # s => starter'[t] = starter[t]
      BY <1>1, <2>1, <2>2
    <2>4. count' \in Counts /\ (Quiet' => Quiet /\ \A t \in Starters : ~Works(t))
      BY <1>1, <1>2, RunCounts
    <2>5. ServerTypes'
      BY <1>1, <2>1, <2>3, <2>4 DEF ServerTypes
    <2>6. \A t \in Starters : server'[t] # Down =>
              starter'[t].at \in {"wait", "supervise"} /\ server'[t].path = starter'[t].path
      BY <2>1, <2>3 DEF ServerInv
    <2>7. ASSUME Quiet'
          PROVE  /\ \A t \in Starters : t # s => starter'[t].at \in {"idle", "supervise"}
                 /\ \A t \in Starters : server[t].st = "loading" => starter[t].at = "wait"
      BY <2>3, <2>4, <2>7 DEF ServerInv, Works
    <2>8. Quiet' => \A t \in Starters : server[t].st = "loading" => starter'[t].at = "wait"
      BY <1>1, <2>1, <2>3, <2>7
    <2>9. ServerInv'
      BY <2>1, <2>3, <2>6, <2>7, <2>8 DEF ServerInv, Works
    <2> QED
      BY <2>5, <2>9
  <1>3. CASE LookServing(s)
    <2>1. starter[s].at = "look" /\ Serving # {}
      BY <1>3 DEF LookServing
    <2>2. server[s] = Down
      BY <2>1 DEF ServerInv
    \* The start ends, and the server is left as it is.
    <2>3. ASSUME Ends(s), UNCHANGED server, count' \in Counts, Quiet' <=> Quiet
          PROVE  ServerTypes' /\ ServerInv'
      <3>1. /\ starter' \in [Starters -> Scripts] /\ starter'[s].at = "idle"
            /\ \A t \in Starters : t # s => starter'[t] = starter[t]
        BY <1>1, <2>3, ScriptMoves
      <3>2. Quiet => \A t \in Starters : starter'[t].at \in {"idle", "supervise"}
        BY <2>1, <3>1, QuietLook
      <3>3. ServerTypes'
        BY <1>1, <2>3, <3>1 DEF ServerTypes
      <3>4. \A t \in Starters : server'[t] # Down =>
                starter'[t].at \in {"wait", "supervise"} /\ server'[t].path = starter'[t].path
        BY <2>2, <2>3, <3>1 DEF ServerInv
      <3>5. Quiet => \A t \in Starters : server[t].st # "loading"
        BY <2>1, QuietLook
      <3>6. ServerInv'
        BY <2>3, <3>2, <3>4, <3>5 DEF ServerInv, Works
      <3> QED
        BY <3>3, <3>6
    <2>6. ASSUME NEW how, Marks(s, how), Ends(s), UNCHANGED server
          PROVE  ServerTypes' /\ ServerInv'
      BY <1>1, <2>3, <2>6, MarksCounts DEF Quiet
    <2>7. CASE Ends(s) /\ UNCHANGED <<server, count>>
      BY <1>1, <2>3, <2>7 DEF Quiet
    <2>4. CASE /\ server' = [t \in Starters |-> IF t \in Serving THEN Down ELSE server[t]]
               /\ Leaves(s, "launch") /\ UNCHANGED count
      <3>1. /\ starter' \in [Starters -> Scripts] /\ starter'[s].at = "launch"
            /\ \A t \in Starters : t # s => starter'[t] = starter[t]
        BY <1>1, <2>4, ScriptMoves
      <3>2. server' \in [Starters -> Servers] /\ \A t \in Starters : server'[t] \in {Down, server[t]}
        BY <1>1, <2>4
      <3>3. Quiet' <=> Quiet
        BY <2>4 DEF Quiet
      <3>4. Quiet => /\ \A t \in Starters : server'[t] = Down
                     /\ \A t \in Starters : t # s => starter'[t].at \in {"idle", "supervise"}
        BY <2>1, <2>4, <3>1, QuietLook DEF Serving
      <3>5. ServerTypes'
        BY <1>1, <2>4, <3>1, <3>2 DEF ServerTypes
      <3>6. \A t \in Starters : server'[t] # Down =>
                starter'[t].at \in {"wait", "supervise"} /\ server'[t].path = starter'[t].path
        BY <2>2, <3>1, <3>2 DEF ServerInv
      <3>7. /\ \A t \in Starters : server'[t].st = "down" => server'[t] = Down
            /\ \A t \in Starters : server'[t].st # "up"
        BY <1>1, <2>4, <3>2 DEF ServerInv, Serving
      <3>8. ServerInv'
        BY <1>1, <3>1, <3>3, <3>4, <3>6, <3>7 DEF ServerInv, Works
      <3> QED
        BY <3>5, <3>8
    <2> QED
      BY <1>3, <2>4, <2>6, <2>7 DEF LookServing
  <1>4. CASE Look(s)
    <2>1. /\ starter[s].at = "look" /\ Serving = {} /\ UNCHANGED <<server, count>>
          /\ Leaves(s, "launch") \/ (Alive # {} /\ Leaves(s, "guard"))
      BY <1>4 DEF Look
    <2>2. server[s] = Down
      BY <2>1 DEF ServerInv
    <2>3. /\ starter' \in [Starters -> Scripts]
          /\ starter'[s].at = "launch" \/ (Alive # {} /\ starter'[s].at = "guard")
          /\ \A t \in Starters : t # s => starter'[t] = starter[t]
      <3>1. CASE Leaves(s, "launch")
        BY <1>1, <3>1, ScriptMoves
      <3>2. CASE Alive # {} /\ Leaves(s, "guard")
        BY <1>1, <3>2, ScriptMoves
      <3> QED
        BY <2>1, <3>1, <3>2
    <2>4. Quiet' <=> Quiet
      BY <2>1 DEF Quiet
    <2>5. Quiet => /\ \A t \in Starters : server'[t] = Down
                   /\ \A t \in Starters : t # s => starter'[t].at \in {"idle", "supervise"}
      BY <2>1, <2>3, QuietLook DEF Serving
    <2>6. Quiet => starter'[s].at = "launch"
      BY <1>1, <2>1, <2>3, <2>5 DEF Alive
    <2>7. ServerTypes'
      BY <1>1, <2>1, <2>3 DEF ServerTypes
    <2>8. \A t \in Starters : server'[t] # Down =>
              starter'[t].at \in {"wait", "supervise"} /\ server'[t].path = starter'[t].path
      BY <2>1, <2>2, <2>3 DEF ServerInv
    <2>9. ServerInv'
      BY <1>1, <2>1, <2>4, <2>5, <2>6, <2>8 DEF ServerInv, Works
    <2> QED
      BY <2>7, <2>9
  <1>5. CASE Guard(s)
    <2>1. starter[s].at = "guard" /\ Ends(s) /\ UNCHANGED server
      BY <1>5 DEF Guard
    <2>2. server[s] = Down /\ ~Quiet
      BY <2>1 DEF ServerInv
    <2>3. count' \in Counts /\ ~Quiet'
      <3>1. CASE UNCHANGED count
        BY <1>1, <2>2, <3>1 DEF Quiet
      <3>2. CASE Marks(s, "guarded")
        BY <1>1, <2>2, <3>2, MarksCounts DEF Quiet
      <3> QED
        BY <1>5, <3>1, <3>2 DEF Guard
    <2>4. /\ starter' \in [Starters -> Scripts]
          /\ \A t \in Starters : t # s => starter'[t] = starter[t]
      BY <1>1, <2>1, ScriptMoves
    <2>5. ServerTypes'
      BY <1>1, <2>1, <2>3, <2>4 DEF ServerTypes
    <2>6. ServerInv'
      BY <2>1, <2>2, <2>3, <2>4 DEF ServerInv
    <2> QED
      BY <2>5, <2>6
  <1> QED
    BY <1>2, <1>3, <1>4, <1>5

\* A start that launches, waits for and watches its server keeps the servers.
LEMMA ServersLaunch ==
    ASSUME ServerTypes, ServerInv, NEW s \in Starters,
           Announce(s) \/ Spawn(s) \/ Listen(s) \/ Crash(s) \/ Wait(s) \/ Supervise(s)
    PROVE  ServerTypes' /\ ServerInv'
  <1>1. /\ server \in [Starters -> Servers] /\ starter \in [Starters -> Scripts] /\ count \in Counts
        /\ Down \in Servers /\ Down.st = "down"
    BY DEF ServerTypes, Down, Servers
  <1>2. Works(s) /\ Quiet => \A t \in Starters : t # s => starter[t].at \in {"idle", "supervise"}
    BY <1>1 DEF ServerInv, Works
  <1>3. CASE Announce(s)
    <2>1. /\ starter[s].at = "launch" /\ Leaves(s, "spawn") /\ UNCHANGED server
          /\ count' \in Counts /\ count'.crowded = count.crowded
      BY <1>1, <1>3, MarksCounts DEF Announce
    <2>2. /\ starter' \in [Starters -> Scripts] /\ starter'[s].at = "spawn"
          /\ starter'[s].path = starter[s].path
          /\ \A t \in Starters : t # s => starter'[t] = starter[t]
      BY <1>1, <2>1, ScriptMoves
    <2>3. (Quiet' <=> Quiet) /\ server[s] = Down
      BY <2>1 DEF Quiet, ServerInv
    <2>4. Quiet => /\ \A t \in Starters : server[t] = Down
                   /\ \A t \in Starters : t # s => starter'[t].at \in {"idle", "supervise"}
      BY <1>2, <2>1, <2>2 DEF ServerInv, Works
    <2>5. ServerTypes'
      BY <1>1, <2>1, <2>2 DEF ServerTypes
    <2>6. \A t \in Starters : server'[t] # Down =>
              starter'[t].at \in {"wait", "supervise"} /\ server'[t].path = starter'[t].path
      BY <2>1, <2>2, <2>3 DEF ServerInv
    <2>7. ServerInv'
      BY <1>1, <2>1, <2>2, <2>3, <2>4, <2>6 DEF ServerInv, Works
    <2> QED
      BY <2>5, <2>7
  <1>4. CASE Spawn(s)
    <2> DEFINE r == [st |-> "loading", path |-> starter[s].path]
    <2>1. /\ starter[s].at = "spawn" /\ server' = [server EXCEPT ![s] = r] /\ Leaves(s, "wait")
          /\ UNCHANGED count
      BY <1>4 DEF Spawn
    <2>2. r \in Servers /\ r.st = "loading" /\ r.path = starter[s].path
      BY <1>1 DEF Servers, Scripts
    <2> HIDE DEF r
    <2>3. /\ starter' \in [Starters -> Scripts] /\ starter'[s].at = "wait"
          /\ starter'[s].path = starter[s].path
          /\ \A t \in Starters : t # s => starter'[t] = starter[t]
      BY <1>1, <2>1, ScriptMoves
    <2>4. /\ server' \in [Starters -> Servers] /\ server'[s] = r
          /\ \A t \in Starters : t # s => server'[t] = server[t]
      BY <1>1, <2>1, <2>2
    <2>5. Quiet' <=> Quiet
      BY <2>1 DEF Quiet
    <2>6. Quiet => /\ \A t \in Starters : server[t] = Down
                   /\ \A t \in Starters : t # s => starter'[t].at \in {"idle", "supervise"}
      BY <1>2, <2>1, <2>3 DEF ServerInv, Works
    <2>7. ServerTypes'
      BY <1>1, <2>1, <2>3, <2>4 DEF ServerTypes
    <2>8. \A t \in Starters : /\ server'[t].st = "down" => server'[t] = Down
                              /\ server'[t] # Down => /\ starter'[t].at \in {"wait", "supervise"}
                                                      /\ server'[t].path = starter'[t].path
      BY <2>2, <2>3, <2>4 DEF ServerInv
    <2>9. Quiet => \A t \in Starters : /\ server'[t].st = "loading" => t = s
                                       /\ t # s => server'[t] = Down
      BY <1>1, <2>2, <2>4, <2>6
    <2>11. \A t, u \in Starters : server'[t].st = "up" /\ server'[u].st = "up" => t = u
      BY <2>2, <2>4 DEF ServerInv
    <2>10. ServerInv'
      BY <2>1, <2>3, <2>5, <2>6, <2>8, <2>9, <2>11 DEF ServerInv, Works
    <2> QED
      BY <2>7, <2>10
  \* The server of s goes up or down, and the script has not moved.
  <1>5. ASSUME NEW r \in Servers, server' = [server EXCEPT ![s] = r], server[s] # Down,
               UNCHANGED starter, count' \in Counts, Quiet' => Quiet,
               r = Down \/ (Serving = {} /\ r.st = "up" /\ r.path = server[s].path)
        PROVE  ServerTypes' /\ ServerInv'
    <2>1. /\ server' \in [Starters -> Servers] /\ server'[s] = r
          /\ \A t \in Starters : t # s => server'[t] = server[t]
      BY <1>1, <1>5
    <2>2. ServerTypes'
      BY <1>1, <1>5, <2>1 DEF ServerTypes
    <2>3. \A t \in Starters : /\ server'[t].st = "down" => server'[t] = Down
                              /\ server'[t] # Down => /\ starter'[t].at \in {"wait", "supervise"}
                                                      /\ server'[t].path = starter'[t].path
      BY <1>5, <2>1 DEF ServerInv
    <2>4. ASSUME Quiet
          PROVE  /\ \A t \in Starters : server'[t].st = "loading" => starter[t].at = "wait"
                 /\ \A t, u \in Starters : starter[t].at \in {"launch", "spawn"} => server'[u] = Down
                 /\ \A t, u \in Starters : starter[t].at = "wait" /\ u # t => server'[u] = Down
      <3>1. \A t \in Starters : server'[t].st = "loading" => starter[t].at = "wait"
        BY <1>1, <1>5, <2>1, <2>4 DEF ServerInv
      <3>4. \A t \in Starters : server[t] = Down => server'[t] = Down
        BY <1>5, <2>1
      <3> QED
        BY <2>4, <3>1, <3>4 DEF ServerInv
    <2>6. \A t, u \in Starters : server'[t].st = "up" /\ server'[u].st = "up" => t = u
      <3>1. CASE r = Down
        BY <1>1, <2>1, <3>1 DEF ServerInv
      <3>2. CASE Serving = {}
        BY <2>1, <3>2 DEF Serving
      <3> QED
        BY <1>5, <3>1, <3>2
    <2>5. ServerInv'
      BY <1>5, <2>3, <2>4, <2>6 DEF ServerInv, Works
    <2> QED
      BY <2>2, <2>5
  <1>6. CASE Listen(s)
    <2>1. /\ server[s].st = "loading" /\ UNCHANGED <<starter, count>>
          /\ server' = [server EXCEPT ![s] = IF Serving = {} THEN [server[s] EXCEPT !.st = "up"] ELSE Down]
      BY <1>6 DEF Listen
    <2> DEFINE r == IF Serving = {} THEN [server[s] EXCEPT !.st = "up"] ELSE Down
    <2>2. /\ r \in Servers
          /\ r = Down \/ (Serving = {} /\ r.st = "up" /\ r.path = server[s].path)
      BY <1>1 DEF Servers
    <2>3. server' = [server EXCEPT ![s] = r] /\ server[s] # Down
      BY <1>1, <2>1
    <2>4. count' \in Counts /\ (Quiet' => Quiet)
      BY <1>1, <2>1 DEF Quiet
    <2> HIDE DEF r
    <2> QED
      BY <1>5, <2>1, <2>2, <2>3, <2>4
  <1>7. CASE Crash(s)
    <2>1. /\ server[s] # Down /\ server' = [server EXCEPT ![s] = Down] /\ UNCHANGED starter
          /\ count' = [count EXCEPT !.faults = @ + 1]
      BY <1>7 DEF Crash
    <2>2. count' \in Counts /\ (Quiet' => Quiet)
      BY <1>1, <2>1, OtherCounts
    <2> QED
      BY <1>1, <1>5, <2>1, <2>2
  \* The script ends, and its server is gone.
  <1>8. ASSUME starter[s].at \in {"wait", "supervise"}, Ends(s), UNCHANGED count,
               server' = [server EXCEPT ![s] = Down]
        PROVE  ServerTypes' /\ ServerInv'
    <2>1. /\ starter' \in [Starters -> Scripts] /\ starter'[s].at = "idle"
          /\ \A t \in Starters : t # s => starter'[t] = starter[t]
      BY <1>1, <1>8, ScriptMoves
    <2>2. /\ server' \in [Starters -> Servers] /\ server'[s] = Down
          /\ \A t \in Starters : t # s => server'[t] = server[t]
      BY <1>1, <1>8
    <2>3. Quiet' <=> Quiet
      BY <1>8 DEF Quiet
    <2>4. ServerTypes'
      BY <1>1, <1>8, <2>1, <2>2 DEF ServerTypes
    <2>5. \A t \in Starters : /\ server'[t].st = "down" => server'[t] = Down
                              /\ server'[t] # Down => /\ starter'[t].at \in {"wait", "supervise"}
                                                      /\ server'[t].path = starter'[t].path
      BY <2>1, <2>2 DEF ServerInv
    <2>6. ASSUME Quiet
          PROVE  /\ \A t \in Starters : server'[t].st = "loading" => starter'[t].at = "wait"
                 /\ \A t \in Starters : starter'[t].at # "guard"
                 /\ \A t, u \in Starters : Works(t)' /\ Works(u)' => t = u
      BY <1>1, <2>1, <2>2, <2>6 DEF ServerInv, Works
    <2>7. ASSUME Quiet, NEW t \in Starters, NEW u \in Starters,
                 starter'[t].at \in {"launch", "spawn"} \/ (starter'[t].at = "wait" /\ u # t)
          PROVE  server'[u] = Down
      BY <2>1, <2>2, <2>7 DEF ServerInv
    <2>9. \A t, u \in Starters : server'[t].st = "up" /\ server'[u].st = "up" => t = u
      BY <1>1, <2>2 DEF ServerInv
    <2>8. ServerInv'
      BY <1>8, <2>3, <2>5, <2>6, <2>7, <2>9 DEF ServerInv
    <2> QED
      BY <2>4, <2>8
  <1>9. CASE Wait(s)
    <2>1. starter[s].at = "wait"
      BY <1>9 DEF Wait
    <2>2. CASE server[s] = Down /\ Ends(s) /\ UNCHANGED <<server, count>>
      <3>1. server' = [server EXCEPT ![s] = Down]
        BY <1>1, <2>2
      <3> QED
        BY <1>8, <2>1, <2>2, <3>1
    <2>3. CASE server' = [server EXCEPT ![s] = Down] /\ Ends(s) /\ UNCHANGED count
      BY <1>8, <2>1, <2>3
    <2>4. CASE /\ server[s] # Down /\ Serving # {} /\ Marks(s, "asked")
               /\ Leaves(s, "supervise") /\ UNCHANGED server
      <3>1. /\ starter' \in [Starters -> Scripts] /\ starter'[s].at = "supervise"
            /\ starter'[s].path = starter[s].path
            /\ \A t \in Starters : t # s => starter'[t] = starter[t]
        BY <1>1, <2>4, ScriptMoves
      <3>2. count' \in Counts /\ (Quiet' <=> Quiet)
        BY <1>1, <2>4, MarksCounts DEF Quiet
      <3>3. ServerTypes'
        BY <1>1, <2>4, <3>1, <3>2 DEF ServerTypes
      <3>4. \A t \in Starters : server'[t] # Down =>
                starter'[t].at \in {"wait", "supervise"} /\ server'[t].path = starter'[t].path
        BY <2>4, <3>1 DEF ServerInv
      <3>5. Quiet => /\ \A t \in Starters : starter'[t].at \in {"idle", "supervise"}
                     /\ \A t \in Starters : t # s => server[t] = Down
        BY <1>2, <2>1, <2>4, <3>1 DEF ServerInv, Works
      <3>6. Quiet => server[s].st = "up"
        <4>1. PICK t \in Starters : server[t].st = "up"
          BY <2>4 DEF Serving
        <4> QED
          BY <1>1, <3>5, <4>1
      <3>7. Quiet => \A t \in Starters : server[t].st # "loading"
        BY <1>1, <3>5, <3>6
      <3>8. ServerInv'
        BY <2>4, <3>2, <3>4, <3>5, <3>7 DEF ServerInv, Works
      <3> QED
        BY <3>3, <3>8
    <2> QED
      BY <1>9, <2>2, <2>3, <2>4 DEF Wait
  <1>10. CASE Supervise(s)
    BY <1>8, <1>10 DEF Supervise
  <1> QED
    BY <1>3, <1>4, <1>6, <1>7, <1>9, <1>10

\* The marker tells of the server that answers: each step that leaves it has asked,
\* or launches its own.
LEMMA MarkersTell ==
    ASSUME ServerTypes, ServerInv, MarkerInv, NEW s \in Starters,
           \/ Run(s) \/ LookServing(s) \/ Look(s) \/ Guard(s) \/ Announce(s) \/ Spawn(s)
           \/ Listen(s) \/ Crash(s) \/ Wait(s) \/ Supervise(s)
    PROVE  MarkerInv'
  <1>1. /\ server \in [Starters -> Servers] /\ starter \in [Starters -> Scripts] /\ count \in Counts
        /\ Down \in Servers /\ Down.st = "down"
    BY DEF ServerTypes, Down, Servers
  <1>2. Works(s) /\ Quiet => \A t \in Starters : t # s => starter[t].at \in {"idle", "supervise"}
    BY <1>1 DEF ServerInv, Works
  \* Servers that answer did before, and starts that expect the marker did.
  <1>3. ASSUME HoldMarker, Quiet' => Quiet,
               \A t \in Starters : server'[t].st = "up" =>
                  \E u \in Starters : server[u].st = "up" /\ server'[t].path = server[u].path,
               \A t \in Starters : starter'[t].at \in {"spawn", "wait"} =>
                  starter[t].at \in {"spawn", "wait"} /\ starter'[t].path = starter[t].path
        PROVE  MarkerInv'
    BY <1>3 DEF MarkerInv, HoldMarker, TakenFor
  <1>4. CASE Run(s)
    <2> DEFINE r == [at |-> "look", path |-> Resolved]
    <2>1. starter' = [starter EXCEPT ![s] = r] /\ UNCHANGED server /\ HoldMarker
      BY <1>4 DEF Run
    <2>2. \A t \in Starters : starter'[t].at = "look" \/ starter'[t] = starter[t]
      BY <1>1, <2>1
    <2>3. Quiet' => Quiet
      BY <1>1, <1>4, RunCounts
    <2> QED
      BY <1>3, <2>1, <2>2, <2>3
  <1>5. CASE Look(s)
    <2>1. UNCHANGED <<server, count>> /\ HoldMarker
      BY <1>5 DEF Look
    <2>2. starter'[s].at \in {"launch", "guard"} /\ \A t \in Starters : t # s => starter'[t] = starter[t]
      <3>1. CASE Leaves(s, "launch")
        BY <1>1, <3>1, ScriptMoves
      <3>2. CASE Leaves(s, "guard")
        BY <1>1, <3>2, ScriptMoves
      <3> QED
        BY <1>5, <3>1, <3>2 DEF Look
    <2> QED
      BY <1>3, <2>1, <2>2 DEF Quiet
  <1>6. ASSUME Ends(s), HoldMarker, UNCHANGED count,
               \/ UNCHANGED server
               \/ server' = [server EXCEPT ![s] = Down]
        PROVE  MarkerInv'
    <2>1. starter'[s].at = "idle" /\ \A t \in Starters : t # s => starter'[t] = starter[t]
      BY <1>1, <1>6, ScriptMoves
    <2>2. \A t \in Starters : server'[t] \in {server[t], Down}
      BY <1>1, <1>6
    <2> QED
      BY <1>1, <1>3, <1>6, <2>1, <2>2 DEF Quiet
  \* The start looks, and leaves its marker for the server it asked.
  <1>7. CASE LookServing(s)
    <2>1. starter[s].at = "look" /\ Serving # {}
      BY <1>7 DEF LookServing
    <2>2. ASSUME NEW how, Marks(s, how), how = "asked" => TakenFor(Served, starter[s].path),
                 Ends(s), UNCHANGED server
          PROVE  MarkerInv'
      <3>1. /\ count'.crowded = count.crowded /\ written' \in {how, "lost"}
            /\ written' # "lost" => marker' = starter[s].path
        BY <1>1, <2>2, MarksCounts
      <3>2. starter'[s].at = "idle" /\ \A t \in Starters : t # s => starter'[t] = starter[t]
        BY <1>1, <2>2, ScriptMoves
      <3>3. SUFFICES ASSUME Quiet, written' = "asked" PROVE MarkerInv'
        BY <3>1 DEF MarkerInv, Quiet
      <3>4. marker' = starter[s].path /\ how = "asked"
        BY <3>1, <3>3
      <3>5. \A t \in Starters : starter'[t].at \in {"idle", "supervise"}
        BY <2>1, <3>2, <3>3, QuietLook
      <3>6. \A t \in Starters : server[t].st = "up" => Served = server[t].path
        BY ServedPath
      <3> QED
        BY <2>2, <3>4, <3>5, <3>6 DEF MarkerInv, TakenFor
    <2>3. CASE /\ server' = [t \in Starters |-> IF t \in Serving THEN Down ELSE server[t]]
               /\ Leaves(s, "launch") /\ UNCHANGED count /\ HoldMarker
      <3>1. starter'[s].at = "launch" /\ \A t \in Starters : t # s => starter'[t] = starter[t]
        BY <1>1, <2>3, ScriptMoves
      <3>2. \A t \in Starters : server'[t].st # "up"
        BY <1>1, <2>3 DEF Serving
      <3> QED
        BY <1>3, <2>3, <3>1, <3>2 DEF Quiet
    <2>4. CASE Ends(s) /\ UNCHANGED <<server, count>> /\ HoldMarker
      BY <1>6, <2>4
    <2> QED
      BY <1>7, <2>2, <2>3, <2>4 DEF LookServing
  <1>8. CASE Guard(s)
    <2>1. starter[s].at = "guard" /\ Ends(s) /\ UNCHANGED server /\ ~Quiet
      BY <1>8 DEF Guard, ServerInv
    <2>2. CASE UNCHANGED count /\ HoldMarker
      BY <1>6, <2>1, <2>2
    <2>3. CASE Marks(s, "guarded")
      BY <1>1, <2>1, <2>3, MarksCounts DEF Quiet, MarkerInv
    <2> QED
      BY <1>8, <2>2, <2>3 DEF Guard
  \* No server runs when the start leaves its marker.
  <1>9. CASE Announce(s)
    <2>1. starter[s].at = "launch" /\ Leaves(s, "spawn") /\ UNCHANGED server
      BY <1>9 DEF Announce
    <2>2. /\ starter'[s].at = "spawn" /\ starter'[s].path = starter[s].path
          /\ \A t \in Starters : t # s => starter'[t] = starter[t]
      BY <1>1, <2>1, ScriptMoves
    <2>3. count'.crowded = count.crowded /\ (written' # "lost" => marker' = starter[s].path)
      BY <1>1, <1>9, MarksCounts DEF Announce, Announced
    <2>4. SUFFICES ASSUME Quiet, written' = "asked" PROVE MarkerInv'
      BY <2>3 DEF MarkerInv, Quiet
    <2>5. \A t \in Starters : t # s => starter'[t].at \in {"idle", "supervise"}
      BY <1>2, <2>1, <2>2, <2>4 DEF Works
    <2>6. \A t \in Starters : server'[t] = Down
      BY <2>1, <2>4 DEF ServerInv
    <2> QED
      BY <1>1, <2>2, <2>3, <2>4, <2>5, <2>6 DEF MarkerInv
  <1>10. CASE Spawn(s)
    <2> DEFINE r == [st |-> "loading", path |-> starter[s].path]
    <2>1. /\ starter[s].at = "spawn" /\ server' = [server EXCEPT ![s] = r] /\ Leaves(s, "wait")
          /\ UNCHANGED count /\ HoldMarker /\ r.st = "loading"
      BY <1>10 DEF Spawn
    <2> HIDE DEF r
    <2>2. /\ starter'[s].at = "wait" /\ starter'[s].path = starter[s].path
          /\ \A t \in Starters : t # s => starter'[t] = starter[t]
      BY <1>1, <2>1, ScriptMoves
    <2>3. \A t \in Starters : server'[t].st = "loading" \/ server'[t] = server[t]
      BY <1>1, <2>1
    <2> QED
      BY <1>3, <2>1, <2>2, <2>3 DEF Quiet
  <1>11. CASE Listen(s)
    <2> DEFINE r == IF Serving = {} THEN [server[s] EXCEPT !.st = "up"] ELSE Down
    <2>1. /\ server[s].st = "loading" /\ UNCHANGED <<starter, count>> /\ HoldMarker
          /\ server' = [server EXCEPT ![s] = r]
      BY <1>11 DEF Listen
    <2>2. r = Down \/ r.path = server[s].path
      BY <1>1 DEF Servers
    <2> HIDE DEF r
    <2>3. SUFFICES ASSUME Quiet, written = "asked" PROVE MarkerInv'
      BY <2>1 DEF MarkerInv, Quiet, HoldMarker
    <2>4. starter[s].at = "wait" /\ server[s].path = starter[s].path /\ marker = starter[s].path
      BY <1>1, <2>1, <2>3 DEF ServerInv, MarkerInv
    <2>5. \A t \in Starters : server'[t] = server[t] \/ (t = s /\ server'[t] = r)
      BY <1>1, <2>1
    <2>6. \A t \in Starters : server'[t].st = "up" => TakenFor(server'[t].path, marker)
      BY <1>1, <2>2, <2>3, <2>4, <2>5 DEF MarkerInv, TakenFor
    <2> QED
      BY <2>1, <2>3, <2>6 DEF MarkerInv, HoldMarker, TakenFor
  <1>12. CASE Crash(s)
    <2>1. /\ server' = [server EXCEPT ![s] = Down] /\ UNCHANGED starter /\ HoldMarker
          /\ count' = [count EXCEPT !.faults = @ + 1]
      BY <1>12 DEF Crash
    <2>2. Quiet' => Quiet
      BY <1>1, <2>1, OtherCounts
    <2>3. \A t \in Starters : server'[t] \in {server[t], Down}
      BY <1>1, <2>1
    <2> QED
      BY <1>1, <1>3, <2>1, <2>2, <2>3
  <1>13. CASE Wait(s)
    <2>1. starter[s].at = "wait"
      BY <1>13 DEF Wait
    <2>2. CASE Ends(s) /\ UNCHANGED <<server, count>> /\ HoldMarker
      BY <1>6, <2>2
    <2>3. CASE server' = [server EXCEPT ![s] = Down] /\ Ends(s) /\ UNCHANGED count /\ HoldMarker
      BY <1>6, <2>3
    <2>4. CASE server[s] # Down /\ Marks(s, "asked") /\ Leaves(s, "supervise") /\ UNCHANGED server
      <3>1. starter'[s].at = "supervise" /\ \A t \in Starters : t # s => starter'[t] = starter[t]
        BY <1>1, <2>4, ScriptMoves
      <3>2. count'.crowded = count.crowded /\ (written' # "lost" => marker' = starter[s].path)
        BY <1>1, <2>4, MarksCounts
      <3>3. SUFFICES ASSUME Quiet, written' = "asked" PROVE MarkerInv'
        BY <3>2 DEF MarkerInv, Quiet
      <3>4. \A t \in Starters : starter'[t].at \in {"idle", "supervise"}
        BY <1>2, <2>1, <3>1, <3>3 DEF Works
      <3>5. \A t \in Starters : t # s => server[t] = Down
        BY <2>1, <3>3 DEF ServerInv
      <3>6. server[s].path = starter[s].path
        BY <2>4 DEF ServerInv
      <3>7. marker' = starter[s].path
        BY <3>2, <3>3
      <3> QED
        BY <1>1, <2>4, <3>4, <3>5, <3>6, <3>7 DEF MarkerInv, TakenFor
    <2> QED
      BY <1>13, <2>2, <2>3, <2>4 DEF Wait
  <1>14. CASE Supervise(s)
    BY <1>6, <1>14 DEF Supervise
  <1> QED
    BY <1>4, <1>5, <1>7, <1>8, <1>9, <1>10, <1>11, <1>12, <1>13, <1>14

\* The page tells the truth of the model: when no call is under way and none
\* overlapped, the choice in memory, in the file and on the page agree; and "same"
\* means that the server that answers was taken for one of the chosen file when it
\* named its model, whatever writes, queries and kills failed before, unless a start
\* left its marker for a server that had not named it or two starts met
\* (app/llm_model_settings.py and scripts/start_llama_server.ps1).
THEOREM ModelIsAsShown == SelectionSpec => []ModelAsShown
  <1> DEFINE Inv == ChoiceTypes /\ ChoiceInv /\ ServerTypes /\ ServerInv /\ MarkerInv
  <1>1. SelectionInit => Inv
    <2> SUFFICES ASSUME SelectionInit PROVE Inv
      OBVIOUS
    <2>1. ChoiceTypes
      BY DEF SelectionInit, ChoiceTypes, Nothing, Choosing, Counts
    <2>2. chosenFile = settings /\ chosenFile.meta = chosenFile.path /\ chosenFile.path = NoPath
      BY DEF SelectionInit, Nothing
    <2>3. ChoiceInv
      BY <2>2 DEF SelectionInit, ChoiceInv, Resolved
    <2>4. \A s \in Starters : server[s] = Down /\ starter[s] = Asleep
      BY DEF SelectionInit
    <2>5. Down \in Servers /\ Down.st = "down" /\ Asleep \in Scripts /\ Asleep.at = "idle"
      BY DEF Down, Asleep, Servers, Scripts
    <2>6. ServerTypes
      BY <2>1, <2>5 DEF SelectionInit, ServerTypes, ChoiceTypes
    <2>7. ServerInv
      BY <2>4, <2>5 DEF ServerInv, Works
    <2>8. MarkerInv
      BY <2>4, <2>5 DEF MarkerInv
    <2> QED
      BY <2>1, <2>3, <2>6, <2>7, <2>8
  <1>2. Inv /\ [SelectionNext]_selectionVars => Inv'
    <2> SUFFICES ASSUME Inv, [SelectionNext]_selectionVars PROVE Inv'
      OBVIOUS
    \* The calls leave the servers alone, and the starts the choice.
    <2>1. ASSUME UNCHANGED <<server, starter, marker, written>>, count' \in Counts, Quiet' => Quiet
          PROVE  ServerTypes' /\ ServerInv' /\ MarkerInv'
      <3>1. ServerTypes'
        BY <2>1 DEF ServerTypes
      <3>2. ServerInv'
        BY <2>1 DEF ServerInv, Works
      <3>3. MarkerInv'
        BY <2>1 DEF MarkerInv, TakenFor
      <3> QED
        BY <3>1, <3>2, <3>3
    <2>2. ASSUME UNCHANGED <<chosenFile, settings, worker, status>>, count' \in Counts,
                 ~count'.overlap => ~count.overlap
          PROVE  ChoiceTypes' /\ ChoiceInv'
      <3>1. ChoiceTypes'
        BY <2>2 DEF ChoiceTypes
      <3>2. Resolved' = Resolved
        BY <2>2 DEF Resolved
      <3>3. ChoiceInv'
        BY <2>2, <3>2 DEF ChoiceInv
      <3> QED
        BY <3>1, <3>3
    <2>3. ASSUME NEW w \in Workers,
                 \/ Select(w) \/ Reset(w) \/ SetPath(w) \/ SetMeta(w) \/ Collect(w) \/ Replace(w)
                 \/ SaveFails(w) \/ Sync(w)
          PROVE  Inv'
      <3>1. ChoiceTypes' /\ ChoiceInv'
        BY <2>3, ChoiceCalls
      <3>2. UNCHANGED <<server, starter, marker, written>>
        BY <2>3 DEF Select, Reset, Called, SetPath, SetMeta, Collect, Replace, SaveFails, Sync, HoldServers
      <3>3. Quiet' => Quiet
        <4>1. CASE Select(w) \/ Reset(w)
          BY <4>1, CalledCounts DEF Select, Reset, ChoiceTypes
        <4>2. CASE SaveFails(w)
          BY <4>2, OtherCounts DEF SaveFails, ChoiceTypes
        <4>3. CASE SetPath(w) \/ SetMeta(w) \/ Collect(w) \/ Replace(w) \/ Sync(w)
          BY <4>3 DEF SetPath, SetMeta, Collect, Replace, Sync, Quiet
        <4> QED
          BY <2>3, <4>1, <4>2, <4>3
      <3> QED
        BY <2>1, <3>1, <3>2, <3>3 DEF ChoiceTypes
    <2>4. CASE RestartBackend
      <3>1. /\ settings' = chosenFile /\ status' = Resolved /\ worker' = [w \in Workers |-> Free]
            /\ UNCHANGED <<chosenFile, server, starter, marker, written>>
            /\ count' = [count EXCEPT !.faults = @ + 1]
        BY <2>4 DEF RestartBackend, HoldServers
      <3>2. count' \in Counts /\ (Quiet' => Quiet) /\ (~count'.overlap => ~count.overlap)
        BY <3>1, OtherCounts DEF ChoiceTypes
      <3>3. ChoiceTypes'
        BY <3>1, <3>2 DEF ChoiceTypes
      <3>4. Resolved' = Resolved
        BY <3>1 DEF Resolved
      <3>5. ChoiceInv'
        BY <3>1, <3>2, <3>4 DEF ChoiceInv
      <3> QED
        BY <2>1, <3>1, <3>2, <3>3, <3>5
    <2>5. ASSUME NEW s \in Starters,
                 \/ Run(s) \/ LookServing(s) \/ Look(s) \/ Guard(s) \/ Announce(s) \/ Spawn(s)
                 \/ Listen(s) \/ Crash(s) \/ Wait(s) \/ Supervise(s)
          PROVE  Inv'
      <3>1. Resolved \in Paths \cup {NoPath}
        BY ModelSelectionAssumption DEF Resolved, ChoiceTypes, Choosing
      <3>2. ServerTypes' /\ ServerInv'
        BY <2>5, <3>1, ServersLook, ServersLaunch
      <3>5. MarkerInv'
        BY <2>5, MarkersTell
      <3>3. UNCHANGED <<chosenFile, settings, worker, status>>
        BY <2>5 DEF Run, LookServing, Look, Guard, Announce, Spawn, Listen, Crash, Wait, Supervise,
                    HoldSettings
      <3>4. ~count'.overlap => ~count.overlap
        <4>1. CASE Run(s)
          BY <4>1, RunCounts DEF ChoiceTypes
        <4>2. ASSUME NEW how, Marks(s, how) \/ NotMarked
              PROVE  count'.overlap = count.overlap
          BY <4>2, MarksCounts DEF ChoiceTypes
        <4>3. CASE LookServing(s) \/ Guard(s) \/ Announce(s) \/ Wait(s)
          BY <4>2, <4>3 DEF LookServing, Guard, Announce, Wait
        <4>4. CASE Crash(s)
          BY <4>4, OtherCounts DEF Crash, ChoiceTypes
        <4>5. CASE Look(s) \/ Spawn(s) \/ Listen(s) \/ Supervise(s)
          BY <4>5 DEF Look, Spawn, Listen, Supervise
        <4> QED
          BY <2>5, <4>1, <4>3, <4>4, <4>5
      <3> QED
        BY <2>2, <3>2, <3>3, <3>4, <3>5 DEF ServerTypes
    <2>6. CASE UNCHANGED selectionVars
      BY <2>1, <2>2, <2>6 DEF selectionVars, Quiet, ChoiceTypes
    <2> QED
      BY <2>3, <2>4, <2>5, <2>6 DEF SelectionNext
  <1>3. Inv => ModelAsShown
    <2> SUFFICES ASSUME Inv PROVE ModelAsShown
      OBVIOUS
    <2>1. ASSUME written = "asked", Quiet, Match = "same", Serving # {}
          PROVE  TakenFor(Served, Resolved)
      <3>1. marker = Resolved
        BY <2>1 DEF Match
      <3>2. PICK s \in Starters : server[s].st = "up"
        BY <2>1 DEF Serving
      <3> QED
        BY <2>1, <3>1, <3>2, ServedPath DEF MarkerInv
    <2>2. ChoiceAgrees
      BY DEF ChoiceInv, ChoiceAgrees
    <2> QED
      BY <2>1, <2>2 DEF ModelAsShown, SameMeansSame, SaysTrue, Quiet
  <1> QED
    BY <1>1, <1>2, <1>3, PTL DEF SelectionSpec
=============================================================================
