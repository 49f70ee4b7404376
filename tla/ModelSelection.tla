--------------------------- MODULE ModelSelection ---------------------------
(***************************************************************************)
(* The choice of the LLM's file: the REST calls of app/web_server.py that  *)
(* select one or reset the choice (app/llm_model_settings.py), each in a   *)
(* worker thread, on the one LlmModelSettings of the backend and its file; *)
(* and scripts/start_llama_server.ps1, which resolves the file, starts the *)
(* server on it and leaves a marker of what it started, from which the     *)
(* page is told whether the server runs the chosen file.                   *)
(*                                                                         *)
(* A path stands for its file.  What a server says that it serves is       *)
(* compared with the file's name, and with the one name the environment    *)
(* gives every model (OPENAI_MODEL).                                       *)
(***************************************************************************)
EXTENDS Naturals, FiniteSets

CONSTANTS
    Paths,          \* GGUF files that can be loaded
    EnvPath,        \* what is found without a choice: LLAMA_MODEL_PATH or one default, or NoPath
    NoPath,
    SoNamed,        \* files whose names contain OPENAI_MODEL; else no name is part of another
    Workers,        \* worker threads
    Starters,       \* windows in which the start script is run
    MaxRequests,    \* bound on the calls
    MaxStarts,      \* bound on the runs of the script
    MaxFaults       \* bound on failed writes, and on crashes of the backend and of servers

ASSUME ModelSelectionAssumption ==
    /\ IsFiniteSet(Workers) /\ IsFiniteSet(Starters)
    /\ NoPath \notin Paths /\ SoNamed \subseteq Paths
    /\ EnvPath \in Paths \cup {NoPath}
    /\ {MaxRequests, MaxStarts, MaxFaults} \subseteq Nat

VARIABLES
    chosenFile, \* config/llm_model.json: the path, and whose metadata
    settings,   \* the LlmModelSettings of the backend
    worker,     \* thread -> its request
    status,     \* llm_model_path of the status snapshot
    server,     \* starter -> the llama-server it started
    starter,    \* starter -> where the script is
    marker,     \* llama-server.resolved-model.json
    written,    \* how it was last written: for a server that was asked for its model or that
                \* the start launched, for one that did not say, for one that was found loading
                \* (guarded), or in vain (lost)
    count       \* what the bounds count; overlap: two requests ran at once, or a write of
                \* the choice failed; crowded: two starts ran at once

selectionVars == <<chosenFile, settings, worker, status, server, starter, marker, written, count>>

Nothing == [path |-> NoPath, meta |-> NoPath]
Free == [at |-> "free"]
Down == [st |-> "down", path |-> NoPath]
Asleep == [at |-> "idle", path |-> NoPath]

\* resolve_llm_model_path, and the script's own resolution.
Resolved == IF chosenFile.path # NoPath THEN chosenFile.path ELSE EnvPath

SelectionInit ==
    /\ chosenFile = Nothing /\ settings = Nothing /\ status = EnvPath
    /\ worker = [w \in Workers |-> Free]
    /\ server = [s \in Starters |-> Down]
    /\ starter = [s \in Starters |-> Asleep]
    /\ marker = NoPath /\ written = "asked"
    /\ count = [requests |-> 0, starts |-> 0, faults |-> 0, overlap |-> FALSE, crowded |-> FALSE]

-----------------------------------------------------------------------------
(* The REST calls.                                                         *)

At(w, place) == worker[w].at = place
Go(w, place) == worker' = [worker EXCEPT ![w].at = place]
HoldServers == UNCHANGED <<server, starter, marker, written>>

Called(w, path) ==
    /\ worker[w] = Free /\ count.requests < MaxRequests
    /\ worker' = [worker EXCEPT ![w] = [at |-> "path", path |-> path, payload |-> Nothing]]
    /\ count' = [count EXCEPT !.requests = @ + 1,
                              !.overlap = @ \/ \E v \in Workers : worker[v] # Free]
    /\ UNCHANGED <<chosenFile, settings, status>> /\ HoldServers

\* apply_llm_model_selection; a part of a split file is refused with a 400.
Select(w) == \E path \in Paths : Called(w, path)

\* reset_llm_model_selection.
Reset(w) == Called(w, NoPath)

\* apply_selection and clear, assignment by assignment.
SetPath(w) ==
    /\ At(w, "path")
    /\ settings' = [settings EXCEPT !.path = worker[w].path]
    /\ Go(w, "meta")
    /\ UNCHANGED <<chosenFile, status, count>> /\ HoldServers

SetMeta(w) ==
    /\ At(w, "meta")
    /\ settings' = [settings EXCEPT !.meta = worker[w].path]
    /\ Go(w, "save")
    /\ UNCHANGED <<chosenFile, status, count>> /\ HoldServers

\* save: the payload, and then the file that replaces the old one.
Collect(w) ==
    /\ At(w, "save")
    /\ worker' = [worker EXCEPT ![w].at = "replace", ![w].payload = settings]
    /\ UNCHANGED <<chosenFile, settings, status, count>> /\ HoldServers

Replace(w) ==
    /\ At(w, "replace")
    /\ chosenFile' = worker[w].payload
    /\ Go(w, "sync")
    /\ UNCHANGED <<settings, status, count>> /\ HoldServers

\* An OSError is answered with a 500; the file is the old one.
SaveFails(w) ==
    /\ At(w, "replace") /\ count.faults < MaxFaults
    /\ worker' = [worker EXCEPT ![w] = Free]
    /\ count' = [count EXCEPT !.faults = @ + 1, !.overlap = TRUE]
    /\ UNCHANGED <<chosenFile, settings, status>> /\ HoldServers

\* _sync_llm_model_status resolves the file again.
Synced == Resolved

Sync(w) ==
    /\ At(w, "sync")
    /\ status' = Synced
    /\ worker' = [worker EXCEPT ![w] = Free]
    /\ UNCHANGED <<chosenFile, settings, count>> /\ HoldServers

\* The backend is started again: the file is loaded, requests are gone.
RestartBackend ==
    /\ count.faults < MaxFaults
    /\ settings' = chosenFile /\ status' = Resolved
    /\ worker' = [w \in Workers |-> Free]
    /\ count' = [count EXCEPT !.faults = @ + 1]
    /\ UNCHANGED chosenFile /\ HoldServers

-----------------------------------------------------------------------------
(* The start script.                                                       *)

Alive == {s \in Starters : server[s].st # "down"}
Serving == {s \in Starters : server[s].st = "up"}
Served == server[CHOOSE s \in Serving : TRUE].path
HoldSettings == UNCHANGED <<chosenFile, settings, worker, status>>
HoldMarker == UNCHANGED <<marker, written>>

Ends(s) == starter' = [starter EXCEPT ![s] = Asleep]
Leaves(s, place) == starter' = [starter EXCEPT ![s].at = place]

Run(s) ==
    /\ starter[s] = Asleep /\ server[s] = Down /\ Resolved # NoPath /\ count.starts < MaxStarts
    /\ starter' = [starter EXCEPT ![s] = [at |-> "look", path |-> Resolved]]
    /\ count' = [count EXCEPT !.starts = @ + 1,
                              !.crowded = @ \/ \E t \in Starters :
                                                starter[t].at \notin {"idle", "supervise"}]
    /\ UNCHANGED server /\ HoldMarker /\ HoldSettings

\* Both writers of the marker swallow their errors; the old one is left, or nothing.
NotMarked ==
    /\ count.faults < MaxFaults
    /\ marker' \in {marker, NoPath} /\ written' = "lost"
    /\ count' = [count EXCEPT !.faults = @ + 1]

Marks(s, how) ==
    \/ marker' = starter[s].path /\ written' = how /\ UNCHANGED count
    \/ NotMarked

\* Test-LlamaServesModel.
TakenFor(served, path) == served = path \/ served \in SoNamed

\* A server that answers is asked for its model; it may not say.  One that serves
\* another is stopped, and if that fails the start is given up.
LookServing(s) ==
    /\ starter[s].at = "look" /\ Serving # {}
    /\ \/ /\ TakenFor(Served, starter[s].path)
          /\ Marks(s, "asked") /\ Ends(s) /\ UNCHANGED server
       \/ /\ ~TakenFor(Served, starter[s].path)
          /\ server' = [t \in Starters |-> IF t \in Serving THEN Down ELSE server[t]]
          /\ Leaves(s, "launch") /\ UNCHANGED count /\ HoldMarker
       \/ /\ ~TakenFor(Served, starter[s].path)
          /\ Ends(s) /\ UNCHANGED <<server, count>> /\ HoldMarker
       \/ Marks(s, "unsaid") /\ Ends(s) /\ UNCHANGED server
    /\ HoldSettings

\* A server that runs and does not answer is loading (the process guard), unless
\* the query for processes fails and shows none.
Look(s) ==
    /\ starter[s].at = "look" /\ Serving = {}
    /\ \/ Leaves(s, "launch")
       \/ Alive # {} /\ Leaves(s, "guard")
    /\ UNCHANGED <<server, count>> /\ HoldMarker /\ HoldSettings

\* The start waits for the server that loads, and leaves its marker without
\* asking it; when it is gone, or does not answer in time, it launches nothing.
Guard(s) ==
    /\ starter[s].at = "guard" /\ Ends(s)
    /\ \/ Serving # {} /\ Marks(s, "guarded")
       \/ UNCHANGED count /\ HoldMarker
    /\ UNCHANGED server /\ HoldSettings

\* Variant of Announced: no marker is left before the launch.
AnnouncedLater(s) == marker

Announced(s) == starter[s].path

Announce(s) ==
    /\ starter[s].at = "launch"
    /\ \/ marker' = Announced(s) /\ written' = "asked" /\ UNCHANGED count
       \/ NotMarked
    /\ Leaves(s, "spawn")
    /\ UNCHANGED server /\ HoldSettings

Spawn(s) ==
    /\ starter[s].at = "spawn"
    /\ server' = [server EXCEPT ![s] = [st |-> "loading", path |-> starter[s].path]]
    /\ Leaves(s, "wait")
    /\ UNCHANGED count /\ HoldMarker /\ HoldSettings

\* The server listens, or finds the port taken and exits.
Listen(s) ==
    /\ server[s].st = "loading"
    /\ server' = [server EXCEPT ![s] = IF Serving = {} THEN [@ EXCEPT !.st = "up"] ELSE Down]
    /\ UNCHANGED <<starter, count>> /\ HoldMarker /\ HoldSettings

Crash(s) ==
    /\ server[s] # Down /\ count.faults < MaxFaults
    /\ server' = [server EXCEPT ![s] = Down]
    /\ count' = [count EXCEPT !.faults = @ + 1]
    /\ UNCHANGED starter /\ HoldMarker /\ HoldSettings

\* The wait for the port: any server that answers will do; after the last
\* try the script stops its own.
Wait(s) ==
    /\ starter[s].at = "wait"
    /\ \/ /\ server[s] = Down
          /\ Ends(s) /\ UNCHANGED <<server, count>> /\ HoldMarker
       \/ /\ server[s] # Down /\ Serving # {}
          /\ Marks(s, "asked")
          /\ Leaves(s, "supervise") /\ UNCHANGED server
       \/ /\ server[s] # Down /\ Serving = {}
          /\ server' = [server EXCEPT ![s] = Down]
          /\ Ends(s) /\ UNCHANGED count /\ HoldMarker
    /\ HoldSettings

\* The script ends with its server, or stops it on Ctrl-C.
Supervise(s) ==
    /\ starter[s].at = "supervise"
    /\ server' = [server EXCEPT ![s] = Down]
    /\ Ends(s)
    /\ UNCHANGED count /\ HoldMarker /\ HoldSettings

SelectionNext ==
    \/ \E w \in Workers :
        \/ Select(w) \/ Reset(w) \/ SetPath(w) \/ SetMeta(w) \/ Collect(w) \/ Replace(w)
        \/ SaveFails(w) \/ Sync(w)
    \/ RestartBackend
    \/ \E s \in Starters :
        \/ Run(s) \/ LookServing(s) \/ Look(s) \/ Guard(s) \/ Announce(s) \/ Spawn(s) \/ Listen(s)
        \/ Crash(s) \/ Wait(s) \/ Supervise(s)

SelectionSpec == SelectionInit /\ [][SelectionNext]_selectionVars

-----------------------------------------------------------------------------
Match == IF marker = NoPath THEN "unknown" ELSE IF marker = Resolved THEN "same" ELSE "different"

\* What "same" promises: a server that answers runs the chosen file, or one that
\* OPENAI_MODEL does not tell from it.
SaysTrue == Match = "same" /\ Serving # {} => TakenFor(Served, Resolved)

\* What the page says is true as long as the marker was last written for a server
\* that was asked or that the start launched, and no two starts ran at once: over
\* markers that failed to be written before, servers that could not be stopped,
\* crashes, and choices made since.
SameMeansSame == written = "asked" /\ ~count.crowded => SaysTrue

\* The same when a start had to wait for a server it found loading
\* (read_llama_server_loaded_model: "the exact --model path it passed to
\* llama-server").
WaitedForMeansSame == written = "guarded" => SaysTrue

\* Unless two calls ran at once or a write of it failed, the choice in memory, the one
\* in the file and the one the page is told agree when no call is under way, and
\* the metadata is that of the path.
ChoiceAgrees ==
    (\A w \in Workers : worker[w] = Free) /\ ~count.overlap =>
        /\ settings = chosenFile /\ chosenFile.meta = chosenFile.path
        /\ status = Resolved

\* The page tells the truth of the model that runs and of the one that is chosen.
ModelAsShown == SameMeansSame /\ ChoiceAgrees

=============================================================================
