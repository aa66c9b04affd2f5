----------------------------- MODULE CompactTool -----------------------------
(***************************************************************************)
(* packages/compact: fetch-compactc, which downloads a version of the      *)
(* compiler and unpacks it into a folder of the package, or cleans up old  *)
(* versions, and run-compactc, which looks for a version and runs it.      *)
(* They are processes that share the folders, take no locks and may be     *)
(* killed; a version is taken to be installed if its file compactc exists. *)
(***************************************************************************)
EXTENDS Integers, FiniteSets, FiniteSetsExt

CONSTANTS
  Process,   \* the places for a process
  Version,   \* versions, as numbers in their numeric order
  File       \* what the archive of a version holds

Compactc == "compactc"
NoVersion == 0
HomeVersion == -1   \* whatever COMPACT_HOME holds

ASSUME CompactAssumption ==
  /\ Version \subseteq Nat \ {0} /\ IsFiniteSet(Version)
  /\ Compactc \in File /\ IsFiniteSet(File)

VARIABLES
  home,      \* COMPACT_HOME of all processes: "unset", "empty" or "set"
  docker,    \* the platform is one that the compiler runs on in docker only
  stage,     \* what each process is doing
  version,   \* the version it is doing it with
  left,      \* the files it has yet to unpack
  old,       \* the versions it has yet to remove
  folder,    \* managed/<version>: the files in it
  archive,   \* the versions whose archive is in the package
  image,     \* the versions whose docker image was pulled
  disturbed  \* versions that, since they were whole, a fetch was killed at or
             \* failed at, or files were removed of while another worked on it

jobVars == <<stage, version, left, old>>
diskVars == <<folder, archive, image>>
compactVars == <<home, docker, jobVars, diskVars, disturbed>>

CompactInit ==
  /\ home \in {"unset", "empty", "set"}
  /\ docker \in BOOLEAN
  /\ stage = [p \in Process |-> "idle"]
  /\ version = [p \in Process |-> NoVersion]
  /\ left = [p \in Process |-> {}]
  /\ old = [p \in Process |-> {}]
  /\ folder = [v \in Version |-> {}]
  /\ archive = {} /\ image = {} /\ disturbed = {}

Stages == {"idle", "download", "archive", "clear", "open", "unzip", "done",
           "remove", "pull", "spawn", "compile", "container"}

Enter(p, from, to) ==
  /\ stage[p] = from
  /\ stage' = [stage EXCEPT ![p] = to]

(* The process ends, and what it knew is gone. *)
End(p) ==
  /\ stage' = [stage EXCEPT ![p] = "idle"]
  /\ version' = [version EXCEPT ![p] = NoVersion]
  /\ left' = [left EXCEPT ![p] = {}]
  /\ old' = [old EXCEPT ![p] = {}]

WorksOn(p, v) == IF stage[p] = "remove" THEN v \in old[p]
                 ELSE stage[p] \in {"clear", "open", "unzip"} /\ version[p] = v

Touched(p) == {v \in Version : WorksOn(p, v)}

(* rmSync of a folder, one file after the other. *)
RemoveFile(p, v, f) ==
  /\ f \in folder[v]
  /\ folder' = [folder EXCEPT ![v] = @ \ {f}]
  /\ disturbed' = disturbed \cup {w \in {v} : \E q \in Process \ {p} : WorksOn(q, v)}

-----------------------------------------------------------------------------
(* VersionManager *)

VersionExists(v) == Compactc \in folder[v]

ListVersions == {v \in Version : VersionExists(v)}

(* slice(0, -keepCount) of the sorted versions. *)
OldVersions(keepCount) ==
  {v \in ListVersions : Cardinality({w \in ListVersions : w > v}) >= keepCount}

-----------------------------------------------------------------------------
(* fetch-compactc *)

(* shouldSkipDownload: an empty COMPACT_HOME counts as none. *)
ShouldSkipDownload(v, force) == home = "set" \/ (~force /\ VersionExists(v))

Fetch(p, v, force) ==
  /\ ~ShouldSkipDownload(v, force)
  /\ Enter(p, "idle", IF docker THEN "pull" ELSE "download")
  /\ version' = [version EXCEPT ![p] = v]
  /\ UNCHANGED <<home, docker, left, old, diskVars, disturbed>>

(* The release, its assets and the asset are fetched; the archive is written. *)
Download(p) ==
  /\ Enter(p, "download", "clear")
  /\ archive' = archive \cup {version[p]}
  /\ UNCHANGED <<home, docker, version, left, old, folder, image, disturbed>>

(* rmSync of the folder, and mkdirSync. *)
ClearFolder(p) ==
  LET v == version[p] IN
  /\ stage[p] = "clear"
  /\ \/ \E f \in File : RemoveFile(p, v, f) /\ UNCHANGED stage
     \/ folder[v] = {} /\ Enter(p, "clear", "open") /\ UNCHANGED <<folder, disturbed>>
  /\ UNCHANGED <<home, docker, version, left, old, archive, image>>

OpenArchive(p) ==
  /\ version[p] \in archive
  /\ Enter(p, "open", "unzip")
  /\ left' = [left EXCEPT ![p] = File]
  /\ UNCHANGED <<home, docker, version, old, diskVars, disturbed>>

(* A file that is there is left as it is. *)
Unzip(p) ==
  /\ \E f \in left[p] : /\ Enter(p, "unzip", "unzip")
                        /\ left' = [left EXCEPT ![p] = @ \ {f}]
                        /\ folder' = [folder EXCEPT ![version[p]] = @ \cup {f}]
  /\ UNCHANGED <<home, docker, version, old, archive, image, disturbed>>

(* Mutant: the next command does not wait for unzip. *)
RemoveArchiveSoon(p) ==
  /\ stage[p] = "unzip"
  /\ End(p)
  /\ archive' = archive \ {version[p]}
  /\ disturbed' = IF folder[version[p]] = File THEN disturbed \ {version[p]} ELSE disturbed
  /\ UNCHANGED <<home, docker, folder, image>>

(* execSync waits for the end of unzip; then the archive is removed. *)
RemoveArchive(p) ==
  /\ stage[p] = "unzip" /\ left[p] = {}
  /\ End(p)
  /\ archive' = archive \ {version[p]}
  /\ disturbed' = IF folder[version[p]] = File THEN disturbed \ {version[p]} ELSE disturbed
  /\ UNCHANGED <<home, docker, folder, image>>

FetchDockerImage(p) ==
  /\ stage[p] = "pull"
  /\ End(p)
  /\ image' = image \cup {version[p]}
  /\ UNCHANGED <<home, docker, folder, archive, disturbed>>

(* No token, no such release or asset, no archive to open, a write error: the
   process ends. *)
FetchFails(p) ==
  /\ stage[p] \in {"download", "clear", "open", "unzip", "pull"}
  /\ End(p)
  /\ disturbed' = disturbed \cup Touched(p)
  /\ UNCHANGED <<home, docker, diskVars>>

-----------------------------------------------------------------------------
(* fetch-compactc --cleanup *)

(* parseArgs: a count that is not above zero is as if it was not given. *)
Cleanup(p, keepCount) ==
  /\ keepCount > 0
  /\ Enter(p, "idle", "remove")
  /\ old' = [old EXCEPT ![p] = OldVersions(keepCount)]
  /\ UNCHANGED <<home, docker, version, left, diskVars, disturbed>>

RemoveVersion(p) ==
  /\ stage[p] = "remove"
  /\ \/ /\ \E v \in old[p], f \in File : RemoveFile(p, v, f)
        /\ UNCHANGED jobVars
     \/ /\ \E v \in old[p] : folder[v] = {} /\ old' = [old EXCEPT ![p] = @ \ {v}]
        /\ UNCHANGED <<stage, version, left, folder, disturbed>>
     \/ old[p] = {} /\ End(p) /\ UNCHANGED <<folder, disturbed>>
  /\ UNCHANGED <<home, docker, archive, image>>

-----------------------------------------------------------------------------
(* run-compactc *)

(* resolveCompactPath: here an empty COMPACT_HOME counts as one.  Otherwise
   the requested version, if it is installed, or the newest one. *)
ResolveCompactPath(requested) ==
  IF home # "unset" THEN {HomeVersion}
  ELSE IF requested # NoVersion THEN ListVersions \cap {requested}
  ELSE IF ListVersions = {} THEN {} ELSE {Max(ListVersions)}

Run(p, requested) ==
  /\ IF docker
     THEN /\ requested # NoVersion
          /\ Enter(p, "idle", "container")
          /\ version' = [version EXCEPT ![p] = requested]
     ELSE /\ Enter(p, "idle", "spawn")
          /\ \E v \in ResolveCompactPath(requested) : version' = [version EXCEPT ![p] = v]
  /\ UNCHANGED <<home, docker, left, old, diskVars, disturbed>>

(* The file may be gone by now; then the process ends with an error. *)
Spawn(p) ==
  /\ stage[p] = "spawn"
  /\ IF version[p] \in Version /\ ~VersionExists(version[p])
     THEN End(p)
     ELSE Enter(p, "spawn", "compile") /\ UNCHANGED <<version, left, old>>
  /\ UNCHANGED <<home, docker, diskVars, disturbed>>

(* The container has a fixed name: a second one cannot be run at a time. *)
RunContainer(p) ==
  /\ stage[p] = "container"
  /\ IF \E q \in Process : stage[q] = "compile"
     THEN End(p) /\ UNCHANGED image
     ELSE /\ Enter(p, "container", "compile")
          /\ image' = image \cup {version[p]}
          /\ UNCHANGED <<version, left, old>>
  /\ UNCHANGED <<home, docker, folder, archive, disturbed>>

Compiled(p) ==
  /\ stage[p] = "compile"
  /\ End(p)
  /\ UNCHANGED <<home, docker, diskVars, disturbed>>

(* A process is killed at any time. *)
Kill(p) ==
  /\ stage[p] # "idle"
  /\ End(p)
  /\ disturbed' = disturbed \cup Touched(p)
  /\ UNCHANGED <<home, docker, diskVars>>

CompactNext == \E p \in Process :
  \/ \E v \in Version, force \in BOOLEAN : Fetch(p, v, force)
  \/ Download(p) \/ ClearFolder(p) \/ OpenArchive(p) \/ Unzip(p) \/ RemoveArchive(p)
  \/ FetchDockerImage(p) \/ FetchFails(p)
  \/ \E keepCount \in 1..2 : Cleanup(p, keepCount)
  \/ RemoveVersion(p)
  \/ \E requested \in Version \cup {NoVersion} : Run(p, requested)
  \/ Spawn(p) \/ RunContainer(p) \/ Compiled(p) \/ Kill(p)

CompactSpec == CompactInit /\ [][CompactNext]_compactVars

-----------------------------------------------------------------------------

(* What run-compactc takes for an installed compiler is whole, unless a
   process is working on it, one failed or was killed while it was, or two were
   at the same time: a fetch that ends as it should has unpacked everything,
   and a cleanup that does has left nothing of what it removes. *)
InstalledWhole ==
  \A v \in Version : VersionExists(v) /\ folder[v] # File
    => v \in disturbed \/ \E p \in Process : WorksOn(p, v)

=============================================================================
