------------------------------- MODULE MCStores -------------------------------
(***************************************************************************)
(* The files several processes keep, each kind by itself: a behaviour      *)
(* belongs to one part, chosen at its start, and leaves the variables of   *)
(* the other parts alone.  The constants of the configuration are those of *)
(* the agent workflow, the timers, the settings and the registry.          *)
(***************************************************************************)
EXTENDS AgentWorkflow, TimeTracking, Settings, ProjectRegistry

CONSTANTS s1, s2, t1, base

VARIABLES part,
  docs, histories, pathIndex, docCall, docCalls, docDeaths,
  files, fileLock, doing, tombs, now, accepted, overtaken, fileCalls, fileDeaths

Doc == INSTANCE DocHistory WITH DocPaths <- {"p", "q"}, Editors <- {s1, s2}, MaxDocCalls <- 3,
  MaxDocDeaths <- 1
OfTask == INSTANCE TaskFiles WITH Callers <- {s1, s2}, Scopes <- <<"none", "p">>, Titles <- <<"A", "B">>,
  MaxFileCalls <- 3, MaxFileDeaths <- 1, lock <- fileLock

docVars == <<docs, histories, pathIndex, docCall, docCalls, docDeaths>>
fileVars == <<files, fileLock, doing, tombs, now, accepted, overtaken, fileCalls, fileDeaths>>
suiteVars == <<part, vars, timeVars, docVars, registryVars, settingsVars, fileVars>>

SuiteInit ==
  /\ part \in {"agents", "time", "docs", "projects", "settings", "files"}
  /\ Init /\ git
  /\ TimeInit
  /\ Doc!DocInit
  /\ RegistryInit
  /\ SettingsInit /\ (part = "settings" \/ (config.model = "" /\ ~config.extra /\ there /\ capable))
  /\ OfTask!FilesInit /\ (\E n \in DOMAIN files : n[3] = "A" /\ OfTask!There(n))
  /\ (part = "files" \/ files = OfTask!Files(<<"tasks", "none", "A">> :> OfTask!Content("none", "A", 1)))

Only(p) ==
  /\ UNCHANGED part
  /\ IF p = "agents" THEN TRUE ELSE UNCHANGED vars
  /\ IF p = "time" THEN TRUE ELSE UNCHANGED timeVars
  /\ IF p = "docs" THEN TRUE ELSE UNCHANGED docVars
  /\ IF p = "projects" THEN TRUE ELSE UNCHANGED registryVars
  /\ IF p = "settings" THEN TRUE ELSE UNCHANGED settingsVars
  /\ IF p = "files" THEN TRUE ELSE UNCHANGED fileVars

SuiteNext ==
  \/ part = "agents" /\ Next /\ Only("agents")
  \/ part = "time" /\ TimeNext /\ Only("time")
  \/ part = "docs" /\ Doc!DocNext /\ Only("docs")
  \/ part = "projects" /\ RegistryNext /\ Only("projects")
  \/ part = "settings" /\ SettingsNext /\ Only("settings")
  \/ part = "files" /\ OfTask!FilesNext /\ Only("files")

SuiteSpec == SuiteInit /\ [][SuiteNext]_suiteVars

ServerSymmetry == Permutations({s1, s2})

RevisionReproduces == Doc!RevisionReproduces
LatestStays == OfTask!LatestStays
RevisionsStay == Doc!RevisionsStay
===============================================================================
