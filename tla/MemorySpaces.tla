---------------------------- MODULE MemorySpaces ----------------------------
(***************************************************************************)
(* The memory layer that all sessions and requests of the web server share *)
(* (RealMemoryLayer, app/web_server.py): the spaces and their registry     *)
(* file, the facades opened for them, the active space, and the memory     *)
(* chip of the pipeline panel.                                             *)
(*                                                                         *)
(* Everything here runs in threads: searches of turns, ingests of the      *)
(* background gate, the warm-up, and the requests that list or switch      *)
(* spaces or draw the memory graph.  Only the creation of a space runs on  *)
(* the event loop, which then does nothing else.  Nothing is locked.       *)
(***************************************************************************)
EXTENDS Naturals, FiniteSets, ComponentStatus

CONSTANTS
    Spaces,     \* names of spaces that clients use, besides "demo"
    Pairs,      \* turns that search the memory and are stored later
    Requests,   \* requests about spaces
    MaxThreads  \* bound on the threads at work at the same time

Demo == "demo"
Names == Spaces \cup {Demo}
Torn == {"torn"}    \* a registry file that is being written, or was left so

ASSUME SpacesAssumption == Spaces \cap ({Demo} \cup Torn) = {} /\ MaxThreads \in Nat

VARIABLES
    registry,   \* names in web_spaces.json
    facades,    \* _spaces: the spaces whose facade is cached
    failed,     \* _failed: a facade could not be constructed
    active,     \* _active
    chip,       \* the memory chip
    pair,       \* what became of each turn
    job,        \* what each thread is doing
    \* History:
    kept,       \* names whose registration was written
    damaged,    \* two registrations ran at once, or one was cut short
    loose,      \* a cancelled turn or two threads on the chip at once left it wrong
    since,      \* spaces that were active since each turn searched
    stored      \* the space each turn was stored in

layerVars == <<registry, facades, failed, active>>
history == <<kept, damaged, loose, since, stored>>
vars == <<registry, facades, failed, active, chip, pair, job, kept, damaged,
          loose, since, stored>>

Searches == [for : {"search"}, pair : Pairs]
Ingests == [for : {"ingest"}, pair : Pairs]
WarmUp == [for |-> "warm", pair |-> "none"]
Threads == Searches \cup Ingests \cup {WarmUp}
Jobs == Threads \cup [for : {"request"}, pair : Requests]
Ops == {"none", "create", "use", "open"}

TypeOK ==
    /\ registry \subseteq Names \/ registry = Torn
    /\ facades \subseteq Names /\ failed \in BOOLEAN
    /\ active \in Names
    /\ chip \in Chip
    /\ pair \in [Pairs -> {"new", "search", "said", "ingest", "over"}]
    /\ \A j \in Jobs : /\ job[j].op \in Ops /\ job[j].space \in Names \cup {"none"}
                       /\ job[j].names \subseteq Names
                       /\ job[j].pc \in {"new", "read", "merge", "write", "facade", "build",
                                         "got", "none", "done", "look", "busy", "ending"}
    /\ kept \subseteq Spaces
    /\ {damaged, loose} \subseteq BOOLEAN
    /\ since \in [Pairs -> SUBSET Names]
    /\ stored \in [Pairs -> Names \cup {"none"}]

NewJob == [pc |-> "new", op |-> "none", space |-> "none", names |-> {}]
OldJob == [NewJob EXCEPT !.pc = "done"]

Init ==
    /\ registry = {} /\ facades = {} /\ failed = FALSE /\ active = Demo
    /\ chip = NewChip("ready")
    /\ pair = [p \in Pairs |-> "new"]
    /\ job = [j \in Jobs |-> NewJob]
    /\ kept = {} /\ damaged = FALSE /\ loose = FALSE
    /\ since = [p \in Pairs |-> {}] /\ stored = [p \in Pairs |-> "none"]

Running(j) == job[j].pc \notin {"new", "done"}
MayStart == Cardinality({j \in Jobs : Running(j)}) < MaxThreads

\* A request that creates a space holds the event loop until it returns.
LoopFree == ~\E j \in Jobs : job[j].op = "create" /\ Running(j)

Goes(j, pc) == job' = [job EXCEPT ![j] = IF pc = "done" THEN OldJob ELSE [@ EXCEPT !.pc = pc]]

-----------------------------------------------------------------------------
(* The registry.                                                           *)

\* _registered: an unreadable file is an empty one.
Registered == {Demo} \cup (IF registry = Torn THEN {} ELSE registry)

\* A request arrives and reads the registry.
Request(j, op, n) ==
    /\ job[j] = NewJob /\ j.for = "request" /\ MayStart
    /\ op = "create" => LoopFree
    /\ op \in {"create", "use"} /\ n \in Names
    /\ job' = [job EXCEPT ![j] =
         IF op = "create" /\ n \in Registered \ {Demo} THEN OldJob
         ELSE [pc |-> IF op = "create" \/ n \notin Registered THEN "merge" ELSE "facade",
               op |-> op, space |-> n, names |-> {}]]
    /\ UNCHANGED <<layerVars, chip, pair, history>>

\* What _facade does first: a cached facade is used, and none is tried after
\* a failure.
Found(n) == IF n \in facades THEN "got" ELSE IF failed THEN "none" ELSE "build"

\* list_spaces opens every registered space, the graph and classify the active.
RequestOpens(j, n) ==
    /\ job[j] = NewJob /\ j.for = "request" /\ MayStart
    /\ n \in Registered \cup {active}
    /\ job' = [job EXCEPT ![j] = [pc |-> Found(n), op |-> "open", space |-> n, names |-> {}]]
    /\ UNCHANGED <<layerVars, chip, pair, history>>

\* _register reads the registry again.
Reread(j) ==
    /\ job[j].pc = "merge"
    /\ job' = [job EXCEPT ![j].pc = "read", ![j].names = Registered \cup {job[j].space}]
    /\ damaged' = (damaged \/ \E k \in Jobs \ {j} : job[k].pc \in {"read", "write"})
    /\ UNCHANGED <<layerVars, chip, pair, kept, loose, since, stored>>

\* Opening the file to write it empties it.
Truncate(j) ==
    /\ job[j].pc = "read" /\ Goes(j, "write")
    /\ registry' = Torn
    /\ UNCHANGED <<facades, failed, active, chip, pair, history>>

\* The file is written.  An OSError is logged: a file that could not be
\* opened is as it was, one that could not be written stays torn.
Write(j) ==
    /\ \/ /\ job[j].pc = "write" /\ registry' = job[j].names
          /\ kept' = kept \cup ({job[j].space} \ {Demo}) /\ damaged' = damaged
       \/ job[j].pc = "write" /\ damaged' = TRUE /\ UNCHANGED <<registry, kept>>
       \/ job[j].pc = "read" /\ UNCHANGED <<registry, kept, damaged>>
    /\ job' = [job EXCEPT ![j].pc = "facade", ![j].names = {}]
    /\ UNCHANGED <<facades, failed, active, chip, pair, loose, since, stored>>

-----------------------------------------------------------------------------
(* Facades.                                                                *)

\* A search, an ingest or the warm-up starts in the space active by then.
ThreadStarts(j) ==
    /\ j \in Threads /\ job[j].pc = "facade"
    /\ job' = [job EXCEPT ![j].space = active, ![j].pc = Found(active)]
    /\ UNCHANGED <<layerVars, chip, pair, history>>

\* A request that has dealt with the registry opens its space.
Opens(j) ==
    /\ j.for = "request" /\ job[j].pc = "facade" /\ Goes(j, Found(job[j].space))
    /\ UNCHANGED <<layerVars, chip, pair, history>>

\* Where a thread goes that has its answer: nobody waits for an abandoned one.
Answer(j, pc) == IF j \in Searches /\ pair[j.pair] # "search" THEN "done" ELSE pc

Built(j) ==
    /\ job[j].pc = "build" /\ Goes(j, Answer(j, "got"))
    /\ facades' = facades \cup {job[j].space}
    /\ UNCHANGED <<registry, failed, active, chip, pair, history>>

\* The first failure is the last: no other facade is tried.
BuildFails(j) ==
    /\ job[j].pc = "build" /\ Goes(j, Answer(j, "none"))
    /\ failed' = TRUE /\ chip' = Set(chip, "error")
    /\ UNCHANGED <<registry, facades, active, pair, history>>

\* A request is answered; use_space switches unless there is no facade.
Respond(j) ==
    /\ j.for = "request" /\ job[j].pc \in {"got", "none"} /\ Goes(j, "done")
    /\ active' = IF job[j].op = "use" /\ job[j].pc = "got" THEN job[j].space ELSE active
    /\ since' = [p \in Pairs |-> IF since[p] = {} THEN {} ELSE since[p] \cup {active'}]
    /\ UNCHANGED <<registry, facades, failed, chip, pair, kept, damaged, loose, stored>>

-----------------------------------------------------------------------------
(* Turns.                                                                  *)

SearchOf(p) == [for |-> "search", pair |-> p]
IngestOf(p) == [for |-> "ingest", pair |-> p]

\* The turn stops waiting: the thread ends on its own.
Abandons(p) ==
    job' = [job EXCEPT ![SearchOf(p)] = IF @.pc \in {"got", "none"} THEN OldJob ELSE @]

\* The event loop starts the search and shows it.
TurnSearches(p) ==
    /\ LoopFree /\ MayStart /\ pair[p] = "new" /\ pair' = [pair EXCEPT ![p] = "search"]
    /\ chip' = Begun(chip)
    /\ Goes(SearchOf(p), "facade")
    /\ since' = [since EXCEPT ![p] = {active}]
    /\ UNCHANGED <<layerVars, kept, damaged, loose, stored>>

\* The search comes back, with nothing when there is no facade.
SearchDone(p) ==
    /\ LoopFree /\ pair[p] = "search" /\ job[SearchOf(p)].pc \in {"got", "none"}
    /\ pair' = [pair EXCEPT ![p] = "said"] /\ Goes(SearchOf(p), "done")
    /\ chip' = Completed(chip)
    /\ UNCHANGED <<layerVars, history>>

\* The search fails, or takes too long: the turn goes on without it, the
\* thread is left to itself.
NotFound(p) ==
    /\ LoopFree /\ pair[p] = "search" /\ pair' = [pair EXCEPT ![p] = "said"]
    /\ chip' = Set(chip, "error")
    /\ Abandons(p) /\ UNCHANGED <<layerVars, history>>

\* _guarded_turn.
TurnFails(p) ==
    /\ LoopFree /\ pair[p] = "search" /\ pair' = [pair EXCEPT ![p] = "over"]
    /\ chip' = IF chip.state = "processing" THEN Set(chip, "error") ELSE chip
    /\ Abandons(p) /\ UNCHANGED <<layerVars, history>>

\* A cancelled turn closes no span, and is not stored.
TurnCut(p) ==
    /\ LoopFree /\ pair[p] \in {"search", "said"} /\ pair' = [pair EXCEPT ![p] = "over"]
    /\ loose' = (loose \/ pair[p] = "search")
    /\ Abandons(p) /\ UNCHANGED <<layerVars, chip, kept, damaged, since, stored>>

\* The background gate stores the turn.
IngestStarts(p) ==
    /\ LoopFree /\ MayStart /\ pair[p] = "said" /\ pair' = [pair EXCEPT ![p] = "ingest"]
    /\ chip' = Begun(chip) /\ Goes(IngestOf(p), "facade")
    /\ UNCHANGED <<layerVars, history>>

\* Variant of Ingested: the space is looked up again when the chain ends.
IngestedWherever(p) ==
    /\ LoopFree /\ pair[p] = "ingest" /\ job[IngestOf(p)].pc \in {"got", "none"}
    /\ pair' = [pair EXCEPT ![p] = "over"] /\ Goes(IngestOf(p), "done")
    /\ chip' = Ended(chip)
    /\ \E n \in Names : stored' = [stored EXCEPT ![p] = n]
    /\ UNCHANGED <<layerVars, kept, damaged, loose, since>>

\* It is over: stored, or not for want of a facade.
Ingested(p) ==
    /\ LoopFree /\ pair[p] = "ingest" /\ job[IngestOf(p)].pc \in {"got", "none"}
    /\ pair' = [pair EXCEPT ![p] = "over"] /\ Goes(IngestOf(p), "done")
    /\ chip' = Ended(chip)
    /\ stored' = IF job[IngestOf(p)].pc = "got"
                 THEN [stored EXCEPT ![p] = job[IngestOf(p)].space] ELSE stored
    /\ UNCHANGED <<layerVars, kept, damaged, loose, since>>

IngestFails(p) ==
    /\ LoopFree /\ pair[p] = "ingest" /\ job[IngestOf(p)].pc = "got"
    /\ pair' = [pair EXCEPT ![p] = "over"] /\ Goes(IngestOf(p), "done")
    /\ chip' = Set(chip, "error")
    /\ UNCHANGED <<layerVars, history>>

-----------------------------------------------------------------------------
(* The warm-up thread.  begin() and end() test the state and then write it; *)
(* the event loop may run between the two.                                  *)

WarmLooks ==
    /\ \/ /\ job[WarmUp].pc = "new" /\ MayStart
          /\ Goes(WarmUp, IF chip.state = "processing" THEN "busy" ELSE "look")
       \/ /\ job[WarmUp].pc \in {"got", "none"}
          /\ Goes(WarmUp, IF chip.state = "processing" THEN "ending" ELSE "done")
    /\ UNCHANGED <<layerVars, chip, pair, history>>

WarmBegins ==
    /\ job[WarmUp].pc \in {"look", "busy"} /\ Goes(WarmUp, "facade")
    /\ chip' = [state |-> "processing",
                prev |-> IF job[WarmUp].pc = "look" THEN chip.state ELSE chip.prev]
    /\ loose' = (loose \/ (chip.state = "processing") # (job[WarmUp].pc = "busy"))
    /\ UNCHANGED <<layerVars, pair, kept, damaged, since, stored>>

WarmEnds ==
    /\ job[WarmUp].pc = "ending" /\ Goes(WarmUp, "done")
    /\ chip' = NewChip(Before(chip))
    /\ loose' = (loose \/ chip.state # "processing")
    /\ UNCHANGED <<layerVars, pair, kept, damaged, since, stored>>

-----------------------------------------------------------------------------
\* The program is killed and started again: the registry file is what is left.
Restart ==
    /\ facades' = {} /\ failed' = FALSE /\ active' = Demo /\ registry' = registry
    /\ chip' = NewChip("ready")
    /\ pair' = [p \in Pairs |-> IF pair[p] = "new" THEN "new" ELSE "over"]
    /\ job' = [j \in Jobs |-> IF j = WarmUp \/ job[j] = NewJob THEN NewJob
                              ELSE OldJob]
    /\ damaged' = (damaged \/ registry = Torn)
    /\ loose' = FALSE
    /\ UNCHANGED <<kept, since, stored>>

Turn(p) ==
    \/ TurnSearches(p) \/ SearchDone(p) \/ NotFound(p) \/ TurnFails(p) \/ TurnCut(p)
    \/ IngestStarts(p) \/ Ingested(p) \/ IngestFails(p)
Thread(j) ==
    \/ Reread(j) \/ Truncate(j) \/ Write(j) \/ ThreadStarts(j) \/ Opens(j) \/ Built(j)
    \/ BuildFails(j) \/ Respond(j)

Next ==
    \/ \E j \in Jobs, op \in Ops, n \in Names : Request(j, op, n)
    \/ \E j \in Jobs, n \in Names : RequestOpens(j, n)
    \/ \E j \in Jobs : Thread(j)
    \/ \E p \in Pairs : Turn(p)
    \/ WarmLooks \/ WarmBegins \/ WarmEnds
    \/ Restart

Spec == Init /\ [][Next]_vars

-----------------------------------------------------------------------------
(* Properties.                                                             *)

\* Whatever was switched at once, the active space has its facade open:
\* turns never run into a space that could not be opened.
ActiveOpen == active # Demo => active \in facades

\* A space that was registered stays listed, across restarts, unless two
\* registrations damaged or the program was killed in the middle of one.
ListedUnlessRaced == ~damaged /\ registry # Torn => kept \subseteq registry

\* A turn is stored in a space that was active since it was spoken: in its
\* own one, when nobody switched.
StoredWhereActive == \A p \in Pairs : stored[p] \in since[p] \cup {"none"}

\* The chip says "processing" only while a search, an ingest or the warm-up
\* is shown, unless a cancellation gave up its span.
ProcessingIsWork ==
    chip.state = "processing" =>
        \/ loose \/ Running(WarmUp)
        \/ \E p \in Pairs : pair[p] \in {"search", "ingest"}

\* The memory is what the page shows: the active space is open and listed, a
\* turn goes to a space that was shown as active, and a chip that says
\* "processing" has work behind it.
MemoryAsShown == TypeOK /\ ActiveOpen /\ ListedUnlessRaced /\ StoredWhereActive /\ ProcessingIsWork

=============================================================================
