---------------------------- MODULE ReleaseBuild ----------------------------
(***************************************************************************)
(* How a release of the agent is made (scripts/run_release_gate.py,        *)
(* release_tree.py, sync_page_version.py, build_release_sandbox.py).  The  *)
(* operator edits the tree, runs the gate, which fingerprints the tree,    *)
(* runs the tests package by package and leaves a record, and runs the     *)
(* builder, which checks the record against the tree, copies the tree,     *)
(* zips the copy, checks the zip and enters it into the ledgers.           *)
(*                                                                         *)
(* The three run in processes of their own: the operator edits whenever    *)
(* she likes, either script can be killed between any two of its writes,   *)
(* and a ledger that is killed while it is written is torn.  No two trees  *)
(* and no two zips have the same sha256.                                   *)
(***************************************************************************)
EXTENDS Naturals, Sequences, FiniteSets, SequencesExt

CONSTANTS
    Versions,   \* numbers of releases
    MaxEdits,   \* bound on the edits of the operator
    MaxGates,   \* bound on the runs of the gate
    MaxBuilds,  \* bound on the runs of the builder
    MaxKills    \* bound on the runs that are killed

ASSUME ReleaseAssumption ==
    /\ Versions # {} /\ IsFiniteSet(Versions)
    /\ {MaxEdits, MaxGates, MaxBuilds, MaxKills} \subseteq Nat

VARIABLES
    tree,       \* the working tree: see Trees
    record,     \* releases/gate_record.json
    gate,       \* the run of the gate
    build,      \* the run of the builder
    zips,       \* version -> the zip in releases/
    sidecars,   \* version -> the zip its .sha256 is of
    index,      \* RELEASE_INDEX.json: version -> the zip it names
    history,    \* BUILD_HISTORY.json
    published,  \* what has been entered into the index, with how it came about
    used        \* how often each bounded thing has happened

releaseVars == <<tree, record, gate, build, zips, sidecars, index, history, published, used>>

Absent == [none |-> TRUE]
TornZip == [torn |-> TRUE]
NoEntries == [v \in Versions |-> Absent]
TornIndex == <<>>

\* What the rest of the tree is worth: two states of a good one, one that
\* fails a test, one whose files lack a marker the self-check asks for, one
\* with a file that must not ship, and one that lacks a file the self-check
\* reads.
Bodies == {"first", "second", "failing", "unmarked", "retired", "incomplete"}

\* What ships though the fingerprint skips it: the README.md of each of
\* PLACEHOLDER_DIRS, and a .mypy_cache below a staged directory.
Asides == {"first", "second"}

\* builder: NEW_VERSION of the builder.  log: the entries of CHANGELOG.md,
\* newest first; an entry names its version and the run that stamped it, 0 for
\* a placeholder.
Trees ==
    [body : Bodies, aside : Asides, builder : Versions, page : Versions, version : Versions,
     log : Seq(Versions \X Nat)]

\* PACKAGES, in this order.
Packages == <<"tests/unit", "tests/integration", "tests/validation">>

\* A tree of the first version; its builder may be prepared for another one.
ReleaseInit ==
    /\ \E v \in Versions :
         /\ \A w \in Versions : v <= w
         /\ \E b \in Versions :
              tree = [body |-> "first", aside |-> "first", builder |-> b, page |-> v, version |-> v,
                      log |-> << <<v, 0>> >>]
    /\ record = Absent
    /\ gate = Absent /\ build = Absent
    /\ zips = NoEntries /\ sidecars = NoEntries /\ index = NoEntries
    /\ history = <<>> /\ published = {}
    /\ used = [edits |-> 0, gates |-> 0, builds |-> 0, kills |-> 0]

Count(what) == used' = [used EXCEPT ![what] = @ + 1]

-----------------------------------------------------------------------------
(* The operator.                                                           *)

Staging == build # Absent /\ build.at \in {"app", "scripts", "web", "root"}

\* Nothing the scripts do is told of an edit; "raced" only remembers it.
Edit(t) ==
    /\ t # tree /\ used.edits < MaxEdits
    /\ tree' = t
    /\ gate' = IF gate = Absent THEN Absent ELSE [gate EXCEPT !.raced = TRUE]
    /\ build' = IF Staging THEN [build EXCEPT !.raced = TRUE] ELSE build
    /\ Count("edits")
    /\ UNCHANGED <<record, zips, sidecars, index, history, published>>

EditBody == \E b \in Bodies : Edit([tree EXCEPT !.body = b])
EditAside == \E a \in Asides : Edit([tree EXCEPT !.aside = a])
BumpVersion == \E v \in Versions : Edit([tree EXCEPT !.version = v])
BumpBuilder == \E v \in Versions : Edit([tree EXCEPT !.builder = v])

\* A placeholder entry for the version to come.
AddEntry ==
    \E v \in Versions : /\ \A i \in DOMAIN tree.log : tree.log[i][1] # v
                        /\ Edit([tree EXCEPT !.log = << <<v, 0>> >> \o @])

\* sync_page_version.py.
SyncPage == Edit([tree EXCEPT !.page = tree.version])

-----------------------------------------------------------------------------
(* The gate.                                                               *)

\* tree_fingerprint: it tells any two trees apart by the files it covers,
\* staged_files, and by no others.
Fingerprint(t) ==
    [sha256 |-> [body |-> t.body, builder |-> t.builder, page |-> t.page,
                 version |-> t.version, log |-> t.log]]

\* The ids of failing tests in the output of a package, less those pinned for
\* the environment.
Regresses(t) == t.body = "failing"

\* classify_failures.
Verdict(failing) == IF failing THEN "RED" ELSE "GREEN"

\* run_gate up to the tests.  The tree may not compile or the run may time
\* out: see GateGivesUp.  "gated" only remembers the tree.
GateStart ==
    /\ gate = Absent /\ used.gates < MaxGates
    /\ gate' = [fingerprint |-> Fingerprint(tree), gated |-> tree, version |-> tree.version,
                left |-> Packages, failing |-> FALSE, raced |-> FALSE]
    /\ Count("gates")
    /\ UNCHANGED <<tree, record, build, zips, sidecars, index, history, published>>

\* A package is discovered in, and run on, the tree as it is by then.
GatePackage ==
    /\ gate # Absent /\ gate.left # <<>>
    /\ gate' = [gate EXCEPT !.left = Tail(@), !.failing = @ \/ Regresses(tree)]
    /\ UNCHANGED <<tree, record, build, zips, sidecars, index, history, published, used>>

\* The verdict, and the record of a completed run, whatever its verdict.
GateRecords ==
    /\ gate # Absent /\ gate.left = <<>>
    /\ record' = [verdict |-> Verdict(gate.failing), version |-> gate.version,
                  fingerprint |-> gate.fingerprint, gated |-> gate.gated, raced |-> gate.raced]
    /\ gate' = Absent
    /\ UNCHANGED <<tree, build, zips, sidecars, index, history, published, used>>

\* A time-out or a failed compilation: the run ends and the last record stays.
GateGivesUp ==
    /\ gate # Absent /\ gate.left # <<>>
    /\ gate' = Absent
    /\ UNCHANGED <<tree, record, build, zips, sidecars, index, history, published, used>>

-----------------------------------------------------------------------------
(* The builder.                                                            *)

\* Variant of RecordHolds: the record is not tied to the tree.
RecordHoldsForAny(new) ==
    record # Absent /\ record.verdict = "GREEN" /\ record.version = new
        /\ tree.version = new /\ tree.page = new

\* _verify_gate_record: a green record of this very tree and version.
RecordHolds(new) ==
    /\ record # Absent
    /\ record.verdict = "GREEN" /\ record.version = new
    /\ record.fingerprint = Fingerprint(tree)
    /\ tree.version = new /\ tree.page = new

\* The script that runs is the one of the tree it was started in.
BuildStart ==
    /\ build = Absent /\ used.builds < MaxBuilds
    /\ build' = IF RecordHolds(tree.builder)
                THEN [at |-> "app", new |-> tree.builder, record |-> record, staged |-> tree,
                      run |-> used.builds + 1, raced |-> record.raced, old |-> NoEntries]
                ELSE Absent
    /\ Count("builds")
    /\ UNCHANGED <<tree, record, gate, zips, sidecars, index, history, published>>

AtStep(step) == build # Absent /\ build.at = step

\* _strip_version_entry: the first entry of the version goes.
Stripped(log, v) ==
    LET own == {i \in DOMAIN log : log[i][1] = v}
    IN  IF own = {} THEN log ELSE RemoveAt(log, CHOOSE i \in own : \A k \in own : i <= k)

\* The entry of this run, before the first one there is.
Stamped(log) == << <<build.new, build.run>> >> \o Stripped(log, build.new)

\* copy_tree of one directory after the other, then the root files and what
\* stands in PLACEHOLDER_DIRS; the copy of CHANGELOG.md gets its entry.
StageApp ==
    /\ AtStep("app")
    /\ build' = [build EXCEPT !.staged.body = tree.body, !.at = "scripts"]
    /\ UNCHANGED <<tree, record, gate, zips, sidecars, index, history, published, used>>

StageScripts ==
    /\ AtStep("scripts")
    /\ build' = [build EXCEPT !.staged.builder = tree.builder, !.at = "web"]
    /\ UNCHANGED <<tree, record, gate, zips, sidecars, index, history, published, used>>

StageWeb ==
    /\ AtStep("web")
    /\ build' = [build EXCEPT !.staged.page = tree.page, !.at = "root"]
    /\ UNCHANGED <<tree, record, gate, zips, sidecars, index, history, published, used>>

StageRoot ==
    /\ AtStep("root")
    /\ build' = [build EXCEPT !.staged.version = tree.version, !.staged.aside = tree.aside,
                              !.staged.log = Stamped(tree.log), !.at = "unlink"]
    /\ UNCHANGED <<tree, record, gate, zips, sidecars, index, history, published, used>>

\* The zip of an earlier run of this version goes before the new one is written.
Unlink ==
    /\ AtStep("unlink")
    /\ zips' = [zips EXCEPT ![build.new] = TornZip]
    /\ build' = [build EXCEPT !.at = "zip"]
    /\ UNCHANGED <<tree, record, gate, sidecars, index, history, published, used>>

WriteZip ==
    /\ AtStep("zip")
    /\ zips' = [zips EXCEPT ![build.new] = build.staged]
    /\ build' = [build EXCEPT !.at = "check"]
    /\ UNCHANGED <<tree, record, gate, sidecars, index, history, published, used>>

\* The markers of every release up to this one are in their files.
Marked(z) == z.body # "unmarked"

\* Every required file is there, no retired one and no runtime state.
WellFormed(z) == z.body # "retired"

\* The assertions of the self-check.
Asserted(z, new) ==
    /\ \E i \in DOMAIN z.log : z.log[i][1] = new
    /\ z.page = z.version
    /\ Marked(z) /\ WellFormed(z)

\* A failed assertion deletes the zip and ends the run; a member that is not
\* there is an exception of another kind, which ends the run only.
SelfCheck ==
    /\ AtStep("check")
    /\ LET z == zips[build.new]
           readable == z.body # "incomplete"
       IN  \/ ~readable /\ build' = Absent /\ zips' = zips
           \/ /\ readable /\ ~Asserted(z, build.new)
              /\ build' = Absent /\ zips' = [zips EXCEPT ![build.new] = Absent]
           \/ /\ readable /\ Asserted(z, build.new)
              /\ build' = [build EXCEPT !.at = "sidecar"] /\ zips' = zips
    /\ UNCHANGED <<tree, record, gate, sidecars, index, history, published, used>>

WriteSidecar ==
    /\ AtStep("sidecar")
    /\ sidecars' = [sidecars EXCEPT ![build.new] = zips[build.new]]
    /\ build' = [build EXCEPT !.at = "index"]
    /\ UNCHANGED <<tree, record, gate, zips, index, history, published, used>>

\* The index is read, the entry of the version replaced, and the file written
\* in place: until the write is done it is torn.  A torn one is read as empty.
OpenIndex ==
    /\ AtStep("index")
    /\ build' = [build EXCEPT !.at = "indexing",
                              !.old = IF index = TornIndex THEN NoEntries ELSE index]
    /\ index' = TornIndex
    /\ UNCHANGED <<tree, record, gate, zips, sidecars, history, published, used>>

Entered(old, v, z) == [old EXCEPT ![v] = z]

WriteIndex ==
    /\ AtStep("indexing")
    /\ index' = Entered(build.old, build.new, sidecars[build.new])
    /\ published' = published \cup
         {[version |-> build.new, zip |-> sidecars[build.new], record |-> build.record,
           raced |-> build.raced]}
    /\ build' = [build EXCEPT !.at = "changelog"]
    /\ UNCHANGED <<tree, record, gate, zips, sidecars, history, used>>

\* The entry goes into CHANGELOG.md of the tree as well, which no record fits
\* from then on.
StampTree ==
    /\ AtStep("changelog")
    /\ tree' = [tree EXCEPT !.log = Stamped(@)]
    /\ gate' = IF gate = Absent THEN Absent ELSE [gate EXCEPT !.raced = TRUE]
    /\ build' = [build EXCEPT !.at = "history"]
    /\ UNCHANGED <<record, zips, sidecars, index, history, published, used>>

AppendHistory ==
    /\ AtStep("history")
    /\ history' = Append(history, <<build.new, build.run>>)
    /\ build' = Absent
    /\ UNCHANGED <<tree, record, gate, zips, sidecars, index, published, used>>

\* A run is interrupted between two of its writes.
KillBuild ==
    /\ build # Absent /\ used.kills < MaxKills
    /\ build' = Absent
    /\ Count("kills")
    /\ UNCHANGED <<tree, record, gate, zips, sidecars, index, history, published>>

Building ==
    \/ BuildStart \/ StageApp \/ StageScripts \/ StageWeb \/ StageRoot \/ Unlink \/ WriteZip \/ SelfCheck
    \/ WriteSidecar \/ OpenIndex \/ WriteIndex \/ StampTree \/ AppendHistory \/ KillBuild

Editing == EditBody \/ EditAside \/ BumpVersion \/ BumpBuilder \/ AddEntry \/ SyncPage
Gating == GateStart \/ GatePackage \/ GateRecords \/ GateGivesUp

ReleaseNext == Editing \/ Gating \/ Building

ReleaseSpec == ReleaseInit /\ [][ReleaseNext]_releaseVars

-----------------------------------------------------------------------------
\* What the index names passed every package of the gate in every file the
\* fingerprint covers, the stamped CHANGELOG.md apart, unless the operator
\* edited while the gate or the copying ran.  Between the two, and whatever was
\* gated or built before, no edit of such a file ships.
OnlyGatedShips ==
    \A p \in published :
        ~p.raced =>
            /\ ~Regresses(p.zip)
            /\ Fingerprint([p.zip EXCEPT !.log = p.record.fingerprint.sha256.log]) = p.record.fingerprint
            /\ p.zip.version = p.version

\* What release_tree.py asks for: "THE EXACT TREE THAT IS PACKAGED MUST BE THE
\* TREE THAT PASSED THE GATE", to the files the fingerprint skips.  It does not
\* hold: such a file, edited after a green gate, ships as it then is.
ExactTreeShips ==
    \A p \in published :
        ~p.raced => [p.zip EXCEPT !.log = p.record.gated.log] = p.record.gated

\* Whatever was edited meanwhile, no page of another version than its server's
\* is published (the defect of v0.8.0).
PageFitsVersion ==
    \A v \in Versions : sidecars[v] # Absent => sidecars[v].page = sidecars[v].version

\* CHANGELOG.md has one entry of a version, in the tree and in every zip,
\* however often the version is built, re-stamped or its build killed.
OneEntryEach ==
    LET Once(log) == \A i, k \in DOMAIN log : log[i][1] = log[k][1] => i = k
    IN  /\ Once(tree.log)
        /\ \A v \in Versions : zips[v] \notin {Absent, TornZip} => Once(zips[v].log)

\* As long as no run was killed, the index and the .sha256 of a version agree
\* whenever no build runs, through rebuilds and failed ones, and nothing that
\* was published is missing from the index or from the history.
LedgersAgree ==
    build = Absent /\ used.kills = 0 =>
        /\ index = sidecars
        /\ \A p \in published : index[p.version] # Absent
        /\ Cardinality(published) = Len(history)

\* What is on record as released passed the gate in what the fingerprint covers,
\* is stamped as one version and is what the ledgers say.
ReleasesGated == OnlyGatedShips /\ PageFitsVersion /\ OneEntryEach /\ LedgersAgree

=============================================================================
