---------------------------- MODULE Installation ----------------------------
(***************************************************************************)
(* The installed program and what updates it: the command "update" in one  *)
(* or two processes, the registry and the release it downloads, the binary *)
(* and the temporary file it replaces it by, the libraries beside it, the  *)
(* install record, the shared daemon it restarts, the notice about a newer *)
(* version, and the download of an embedding model.  A process may die     *)
(* between any two steps.                                                  *)
(***************************************************************************)
EXTENDS Integers, FiniteSets

CONSTANTS
  Updaters,       \* processes that run "update"
  MaxVersion,     \* bound: versions published
  MaxFailures     \* bound: failed steps and deaths together

(* Files are named by the numbers up to one more than the updaters.        *)
ASSUME UpdatersAreFinite == IsFiniteSet(Updaters)

VARIABLES
  registry,       \* the latest version published
  windows,        \* a running binary cannot be replaced, only moved away
  manager,        \* "script", "brew" or "npm": what installed the program
  content,        \* of each file on the disk: versions written into it, and who still writes
  bin, tmp,       \* the file the binary's name and the temporary name stand for, or NoFile
  libs,           \* versions the libraries beside the binary are of, and whether all are whole
  meta,           \* the version in install.json
  runtime,        \* the version of the running daemon, 0 without one
  updater,        \* each process: where it is, what it fetched, the file it writes
  clash,          \* two processes have been replacing the binary at once
  cached,         \* the version in the cache of the notice
  model,          \* the files of an embedding model: "absent", "part" or "whole"
  mishaps         \* failures and deaths so far

installVars == <<registry, windows, manager, content, bin, tmp, libs, meta, runtime, updater, clash,
                 cached, model, mishaps>>
diskVars == <<content, bin, tmp, libs, meta>>
restVars == <<registry, windows, manager, cached, model>>

NoFile == 0
Files == 1..(Cardinality(Updaters) + 1)
ModelFiles == {"config", "onnx"}
NotRunning == [at |-> "idle", latest |-> 0, target |-> 0, file |-> NoFile]

InstallInit ==
  /\ registry = 1 /\ windows \in BOOLEAN /\ manager \in {"script", "brew", "npm"}
  /\ content = [f \in Files |-> [of |-> IF f = 1 THEN {1} ELSE {}, open |-> {}]]
  /\ bin = 1 /\ tmp = NoFile /\ libs = [of |-> 1, whole |-> TRUE] /\ meta = 1
  /\ runtime \in {0, 1}
  /\ updater = [u \in Updaters |-> NotRunning] /\ clash = FALSE
  /\ cached = 0 /\ model = [f \in ModelFiles |-> "absent"] /\ mishaps = 0

-----------------------------------------------------------------------------
Whole(f) == f # NoFile /\ content[f].open = {} /\ Cardinality(content[f].of) = 1
VersionOf(f) == IF Whole(f) THEN CHOOSE v \in content[f].of : TRUE ELSE 0
Replacing == {"writing", "written", "moved"}

Goto(u, place) == updater' = [updater EXCEPT ![u].at = place]
Exits(u) == updater' = [updater EXCEPT ![u] = [NotRunning EXCEPT !.at = "ended"]]

(* runUpdate: the registry is asked, and asked again when the download     *)
(* starts; what it says may have changed.  The running program is of the   *)
(* version the binary has when it starts.                                  *)
CheckVersion(u) ==
  /\ updater[u].at = "idle" /\ Whole(bin)
  /\ IF registry <= VersionOf(bin) THEN Exits(u)
     ELSE updater' = [updater EXCEPT ![u].latest = registry, ![u].at = "upgrade"]
  /\ UNCHANGED <<diskVars, restVars, runtime, clash, mishaps>>

(* On Windows a package manager has to be run from outside.                *)
Deferred(u) ==
  /\ updater[u].at = "upgrade" /\ manager = "npm" /\ windows /\ Exits(u)
  /\ UNCHANGED <<diskVars, restVars, runtime, clash, mishaps>>

(* A package manager replaces the program at once; npm and its kin leave   *)
(* a record, Homebrew does not.                                            *)
Installed(version) ==
  /\ content' = [content EXCEPT ![bin].of = {version}]
  /\ libs' = [of |-> version, whole |-> TRUE]

PackageUpgrade(u) ==
  /\ updater[u].at = "upgrade" /\ manager = "npm" /\ ~windows
  /\ Installed(registry) /\ meta' = registry /\ Goto(u, "sync")
  /\ UNCHANGED <<bin, tmp, restVars, runtime, clash, mishaps>>

HomebrewUpgrade(u) ==
  /\ updater[u].at = "upgrade" /\ manager = "brew"
  /\ Installed(registry) /\ Goto(u, "sync")
  /\ UNCHANGED <<meta, bin, tmp, restVars, runtime, clash, mishaps>>

(* The archive is downloaded and unpacked apart from the program.          *)
Download(u) ==
  /\ updater[u].at = "upgrade" /\ manager = "script"
  /\ updater' = [updater EXCEPT ![u].target = registry, ![u].at = "downloaded"]
  /\ UNCHANGED <<diskVars, restVars, runtime, clash, mishaps>>

(* replaceBinary writes one temporary file, the same for every process.    *)
Unused(f) == f # bin /\ content[f] = [of |-> {}, open |-> {}]

(* Mutant for BinaryIsWhole: the binary is written where it stands.        *)
InPlace == bin

FileToWrite == IF tmp # NoFile THEN tmp ELSE CHOOSE f \in Files : Unused(f)
CanWrite == tmp # NoFile \/ \E f \in Files : Unused(f)

(* Opening truncates it; who still writes it goes on writing his own, and  *)
(* what a dead process left half-written is gone.                          *)
Writers(f) == {w \in content[f].open : updater[w].at = "writing"}

OpenTmp(u) ==
  /\ updater[u].at = "downloaded" /\ CanWrite
  /\ LET f == FileToWrite
     IN /\ content' = [content EXCEPT ![f].of = {updater[w].target : w \in Writers(f) \cup {u}},
                                      ![f].open = Writers(f) \cup {u}]
        /\ tmp' = IF f = bin THEN tmp ELSE f
        /\ updater' = [updater EXCEPT ![u].file = f, ![u].at = "writing"]
  /\ clash' = (clash \/ \E w \in Updaters \ {u} : updater[w].at \in Replacing)
  /\ UNCHANGED <<bin, libs, meta, restVars, runtime, mishaps>>

CloseTmp(u) ==
  /\ updater[u].at = "writing"
  /\ content' = [content EXCEPT ![updater[u].file].open = @ \ {u}]
  /\ Goto(u, "written")
  /\ UNCHANGED <<bin, tmp, libs, meta, restVars, runtime, clash, mishaps>>

(* On Windows the old binary is moved away first.                          *)
MoveOld(u) ==
  /\ updater[u].at = "written" /\ windows
  /\ bin' = NoFile /\ Goto(u, "moved")
  /\ UNCHANGED <<content, tmp, libs, meta, restVars, runtime, clash, mishaps>>

(* The temporary name may stand for another's file by now, or for none.    *)
RenameTmp(u) ==
  /\ updater[u].at = IF windows THEN "moved" ELSE "written"
  /\ IF tmp = NoFile THEN Exits(u) /\ UNCHANGED <<bin, tmp>>
     ELSE bin' = tmp /\ tmp' = NoFile /\ Goto(u, "libraries")
  /\ UNCHANGED <<content, libs, meta, restVars, runtime, clash, mishaps>>

(* The libraries are written over the old ones, where a daemon may have    *)
(* them loaded; a failure is a warning.                                    *)
WriteLibraries(u) ==
  /\ updater[u].at = "libraries"
  /\ libs' = [of |-> updater[u].target, whole |-> FALSE] /\ Goto(u, "record")
  /\ UNCHANGED <<content, bin, tmp, meta, restVars, runtime, clash, mishaps>>

SaveInstallMetadata(u) ==
  /\ updater[u].at = "record"
  /\ libs' = [libs EXCEPT !.whole = TRUE]
  /\ meta' = updater[u].target /\ Goto(u, "restart")
  /\ UNCHANGED <<content, bin, tmp, restVars, runtime, clash, mishaps>>

(* A daemon of another version is asked to stop, and killed when it does   *)
(* not within five seconds.                                                *)
Restarted(version) == IF runtime = version THEN runtime ELSE 0

RestartRuntime(u) ==
  /\ updater[u].at = "restart"
  /\ runtime' = Restarted(updater[u].target) /\ Goto(u, "sync")
  /\ UNCHANGED <<diskVars, restVars, clash, mishaps>>

(* The configurations of the agents are brought up to date; then the       *)
(* daemon is compared with the version of the first answer.                *)
RestartAfterSync(u) ==
  /\ updater[u].at = "sync"
  /\ runtime' = Restarted(updater[u].latest) /\ Exits(u)
  /\ UNCHANGED <<diskVars, restVars, clash, mishaps>>

(* Any command that needs the daemon starts it, of the version of the      *)
(* binary.                                                                 *)
StartRuntime ==
  /\ runtime = 0 /\ Whole(bin)
  /\ runtime' = VersionOf(bin)
  /\ UNCHANGED <<diskVars, restVars, updater, clash, mishaps>>

Publish ==
  /\ registry < MaxVersion /\ registry' = registry + 1
  /\ UNCHANGED <<diskVars, windows, manager, cached, model, runtime, updater, clash, mishaps>>

(* The notice is made of an answer up to an hour old.                      *)
CheckForUpdate ==
  /\ Whole(bin) /\ cached' = registry /\ cached # registry
  /\ UNCHANGED <<diskVars, registry, windows, manager, model, runtime, updater, clash, mishaps>>

(* A step fails: the files stay as they are, but for the temporary one on  *)
(* Windows.                                                                *)
StepFails(u) ==
  /\ updater[u].at \in {"upgrade", "downloaded", "written", "moved", "record"} /\ mishaps < MaxFailures
  /\ mishaps' = mishaps + 1 /\ Exits(u)
  /\ UNCHANGED <<diskVars, restVars, runtime, clash>>

UpdaterDies(u) ==
  /\ updater[u].at \notin {"idle", "ended", "died"} /\ mishaps < MaxFailures
  /\ mishaps' = mishaps + 1
  /\ updater' = [updater EXCEPT ![u].at = "died"]
  /\ UNCHANGED <<diskVars, restVars, runtime, clash>>

-----------------------------------------------------------------------------
(* The files of a model are downloaded one after the other, each under its *)
(* own name; a model is installed when its network is there.               *)
IsModelInstalled == model["onnx"] # "absent"

DownloadEnds == {"whole", "part", "absent"}

DownloadModel(f, force) ==
  /\ force \/ ~IsModelInstalled
  /\ model[f] = "absent" \/ force
  /\ f = "onnx" => model["config"] # "absent"
  /\ \E end \in DownloadEnds :
       /\ end # "whole" => mishaps < MaxFailures
       /\ mishaps' = IF end = "whole" THEN mishaps ELSE mishaps + 1
       /\ model' = [model EXCEPT ![f] = end]
  /\ UNCHANGED <<diskVars, registry, windows, manager, cached, runtime, updater, clash>>

InstallNext ==
  \/ \E u \in Updaters :
       \/ CheckVersion(u) \/ Deferred(u) \/ PackageUpgrade(u) \/ HomebrewUpgrade(u) \/ Download(u)
       \/ OpenTmp(u) \/ CloseTmp(u) \/ MoveOld(u) \/ RenameTmp(u) \/ WriteLibraries(u)
       \/ SaveInstallMetadata(u) \/ RestartRuntime(u) \/ RestartAfterSync(u) \/ StepFails(u) \/ UpdaterDies(u)
  \/ StartRuntime \/ Publish \/ CheckForUpdate
  \/ \E f \in ModelFiles, force \in BOOLEAN : DownloadModel(f, force)

InstallSpec == InstallInit /\ [][InstallNext]_installVars

-----------------------------------------------------------------------------
(* However an update ends, the binary is there and is one whole version.   *)
(* Two updates at once share the temporary file, and on Windows there is   *)
(* none between two renames: these are the ways to lose it.                *)
BinaryIsWhole ==
  Whole(bin) \/ clash \/ (windows /\ bin = NoFile)
=============================================================================
