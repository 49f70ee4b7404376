--------------------------- MODULE ModelDownload ----------------------------
(***************************************************************************)
(* scripts/download_models_hf.py fetches the models, keeps a record of     *)
(* which repository served which component (models/.download_sources.json) *)
(* and scripts/write_install_manifest.py puts that record to each file.    *)
(*                                                                         *)
(* One component of each kind: "asr" is a list of files at a pinned        *)
(* revision, "vad" one file with a second source whose file arrives in a   *)
(* subdirectory, "embedding" a snapshot of which only the probe and the    *)
(* total size are checked.  A file is where it came from and whether it is *)
(* of full size.                                                           *)
(***************************************************************************)
EXTENDS Naturals, Sequences, FiniteSets, SequencesExt

CONSTANTS
    MaxFetches, \* bound on the runs of the downloader
    MaxDamage,  \* bound on the files lost or cut off outside it
    MaxPushes   \* bound on the commits to the repositories

ASSUME ModelDownloadAssumption == {MaxFetches, MaxDamage, MaxPushes} \subseteq Nat

VARIABLES
    disk,       \* place -> file
    head,       \* repository -> the commit of its main branch
    records,    \* component -> its record in the file
    fetching,   \* the downloader
    tally       \* what the bounds count, and whether a run was interrupted

modelVars == <<disk, head, records, fetching, tally>>

Components == {"asr", "vad", "embedding"}
FilesOf == [asr |-> <<"config", "weights">>, vad |-> <<"onnx">>,
            embedding |-> <<"probe", "payload", "extra">>]
Pinned == {"asr"}
PinnedCommit == 1
Nested == "nested onnx"         \* where the second source of "vad" leaves its file
Places == {"config", "weights", "onnx", "probe", "payload", "extra", Nested}
Own == [asr |-> "nvidia", vad |-> "tphakala", embedding |-> "intfloat"]
Mirror == "silero"
Repos == {"nvidia", "tphakala", "intfloat", Mirror}

NoFile == [repo |-> "none", commit |-> 0, full |-> FALSE]
NoRecord == [repo |-> "none", commit |-> 0]
NotRunning == [at |-> "none"]

Commit(c) == IF c \in Pinned THEN PinnedCommit ELSE head[Own[c]]

ModelInit ==
    /\ disk = [p \in Places |-> NoFile]
    /\ head = [r \in Repos |-> 1]
    /\ records = [c \in Components |-> NoRecord]
    /\ fetching = NotRunning
    /\ tally = [runs |-> 0, damage |-> 0, pushes |-> 0, interrupted |-> FALSE, done |-> "none"]

-----------------------------------------------------------------------------
(* verify_entry: what is asked of the files on disk.                       *)

Elements(s) == {s[i] : i \in DOMAIN s}

\* A listed file has its least size; of a snapshot the probe is there and the
\* total reaches the floor, which the payload alone decides.
Verified(c) ==
    LET asked == IF c = "embedding" THEN {"payload"} ELSE Elements(FilesOf[c])
    IN  /\ \A p \in asked : disk[p].full
        /\ c = "embedding" => disk["probe"] # NoFile

-----------------------------------------------------------------------------
(* Outside the downloader.                                                 *)

Damage ==
    /\ tally.damage < MaxDamage
    /\ \E p \in Places :
        /\ disk[p] # NoFile
        /\ \E f \in {NoFile, [disk[p] EXCEPT !.full = FALSE]} :
            f # disk[p] /\ disk' = [disk EXCEPT ![p] = f]
    /\ tally' = [tally EXCEPT !.damage = @ + 1, !.done = "none"]
    /\ UNCHANGED <<head, records, fetching>>

Push(r) ==
    /\ tally.pushes < MaxPushes
    /\ head' = [head EXCEPT ![r] = @ + 1]
    /\ tally' = [tally EXCEPT !.pushes = @ + 1]
    /\ UNCHANGED <<disk, records, fetching>>

-----------------------------------------------------------------------------
(* The downloader.                                                         *)

\* main and ModelDownloader.__init__; --only names the components.
StartDownload(only, verifyOnly) ==
    /\ fetching = NotRunning /\ tally.runs < MaxFetches
    /\ fetching' = [at |-> "entry", left |-> only, only |-> only, verifyOnly |-> verifyOnly,
               files |-> <<>>, ok |-> TRUE, last |-> NoRecord, records |-> records]
    /\ tally' = [tally EXCEPT !.runs = @ + 1, !.done = "none"]
    /\ UNCHANGED <<disk, head, records>>

\* process_entry up to its handler.  The entries come in the order of the lock.
Current ==
    CHOOSE c \in fetching.left :
        c = "asr" \/ (c = "embedding" /\ "asr" \notin fetching.left) \/ fetching.left = {"vad"}

Enter ==
    /\ fetching.at = "entry" /\ fetching.left # {}
    /\ fetching' = IF Verified(Current) \/ fetching.verifyOnly
              THEN [fetching EXCEPT !.left = @ \ {Current}]
              ELSE [fetching EXCEPT !.at = "fetch", !.files = FilesOf[Current], !.ok = TRUE]
    /\ UNCHANGED <<disk, head, records, tally>>

Fetched(c, p, from, commit) ==
    /\ disk' = [disk EXCEPT ![p] = [repo |-> from, commit |-> commit, full |-> TRUE]]
    /\ fetching' = [fetching EXCEPT !.files = Tail(@), !.last = [repo |-> from, commit |-> commit]]

\* _hub_file: one of its attempts succeeds.  What is on disk is fetched again.
Fetch ==
    /\ fetching.at = "fetch" /\ fetching.files # <<>>
    /\ Fetched(Current, Head(fetching.files), Own[Current], Commit(Current))
    /\ UNCHANGED <<head, records, tally>>

\* Every attempt fails.  The next file is tried all the same; a snapshot is one
\* download; the VAD has a second source.
FetchFails ==
    /\ fetching.at = "fetch" /\ fetching.files # <<>>
    /\ fetching' = CASE Current = "asr" -> [fetching EXCEPT !.files = Tail(@), !.ok = FALSE]
                [] Current = "embedding" -> [fetching EXCEPT !.files = <<>>, !.ok = FALSE]
                [] Current = "vad" -> [fetching EXCEPT !.at = "mirror"]
    /\ UNCHANGED <<disk, head, records, tally>>

\* _download_vad's second source, with flatten_nested: a file that is there
\* already, cut off or not, stays.
FetchMirror ==
    /\ fetching.at = "mirror"
    /\ LET fetched == [repo |-> Mirror, commit |-> PinnedCommit, full |-> TRUE]
       IN  disk' = IF disk["onnx"] = NoFile THEN [disk EXCEPT !["onnx"] = fetched, ![Nested] = NoFile]
                   ELSE [disk EXCEPT ![Nested] = fetched]
    /\ fetching' = [fetching EXCEPT !.at = "fetch", !.files = <<>>,
                                    !.last = [repo |-> Mirror, commit |-> PinnedCommit]]
    /\ UNCHANGED <<head, records, tally>>

MirrorFails ==
    /\ fetching.at = "mirror"
    /\ fetching' = [fetching EXCEPT !.at = "fetch", !.files = <<>>, !.ok = FALSE]
    /\ UNCHANGED <<disk, head, records, tally>>

\* Variant of Source: the repository of the lock file.
SourceOfLock(c) == [repo |-> Own[c], commit |-> Commit(c)]

\* _record_component_source: the repository of the last fetch; the commit is
\* asked for only now, and the answer may fail.
Source(c) ==
    [repo |-> fetching.last.repo,
     commit |-> IF fetching.last.repo = Mirror \/ c \in Pinned THEN PinnedCommit
                ELSE head[fetching.last.repo]]

\* process_entry after its handler.
LeaveComponent ==
    /\ fetching.at = "fetch" /\ fetching.files = <<>>
    /\ \E resolved \in BOOLEAN :
        fetching' = IF ~Verified(Current) \/ ~fetching.ok
               THEN [fetching EXCEPT !.at = "entry", !.left = @ \ {Current}]
               ELSE [fetching EXCEPT !.at = "entry", !.left = @ \ {Current}, !.last = NoRecord,
                                !.records[Current] =
                                    IF resolved THEN Source(Current)
                                    ELSE [Source(Current) EXCEPT !.commit = 0]]
    /\ UNCHANGED <<disk, head, records, tally>>

\* The table at the end of main: the exit code depends on the files alone.  The
\* records are written if there are any.
Finish ==
    /\ fetching.at = "entry" /\ fetching.left = {}
    /\ records' = IF fetching.records = [c \in Components |-> NoRecord] THEN records
                  ELSE fetching.records
    /\ tally' = [tally EXCEPT !.done = IF \A c \in fetching.only : Verified(c) THEN "ok" ELSE "failed"]
    /\ fetching' = [fetching EXCEPT !.at = "over"]
    /\ UNCHANGED <<disk, head>>

Exit == fetching.at = "over" /\ fetching' = NotRunning /\ UNCHANGED <<disk, head, records, tally>>

\* Ctrl-C returns 130 from the loop; a kill may also meet the write of the
\* records, and a torn file is read as an empty one.
InterruptDownload ==
    /\ fetching.at \in {"entry", "fetch", "mirror"}
    /\ fetching' = NotRunning
    /\ records' = records
    /\ tally' = [tally EXCEPT !.interrupted = TRUE]
    /\ UNCHANGED <<disk, head>>

TornRecord ==
    /\ fetching.at = "entry" /\ fetching.left = {}
    /\ fetching' = NotRunning
    /\ records' = [c \in Components |-> NoRecord]
    /\ tally' = [tally EXCEPT !.interrupted = TRUE]
    /\ UNCHANGED <<disk, head>>

\* _collect_models: every file in the directory of a component gets its record.
Attributed(p) ==
    records[CHOOSE c \in Components :
                p \in Elements(FilesOf[c]) \cup (IF c = "vad" THEN {Nested} ELSE {})]

ModelNext ==
    \/ Damage \/ \E r \in Repos \ {Mirror} : Push(r)
    \/ \E only \in {Components, {"vad"}}, verifyOnly \in BOOLEAN : StartDownload(only, verifyOnly)
    \/ Enter \/ Fetch \/ FetchFails \/ FetchMirror \/ MirrorFails \/ LeaveComponent \/ Finish \/ Exit
    \/ InterruptDownload \/ TornRecord

ModelSpec == ModelInit /\ [][ModelNext]_modelVars

-----------------------------------------------------------------------------
\* As long as no run was interrupted, what the manifest says of a full file is
\* the repository, and for a pinned component the commit, it was fetched from
\* (_record_component_source: "the ACTUAL download source").
SourcesAreTrue ==
    ~tally.interrupted /\ fetching = NotRunning =>
        \A c \in Components : \A p \in Elements(FilesOf[c]) :
            disk[p].full /\ Attributed(p) # NoRecord =>
                /\ Attributed(p).repo = disk[p].repo
                /\ c \in Pinned => Attributed(p).commit \in {0, disk[p].commit}

=============================================================================
