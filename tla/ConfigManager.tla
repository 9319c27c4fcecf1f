---------------------------- MODULE ConfigManager ----------------------------
(***************************************************************************)
(* The file-backed config manager of umh-core (pkg/config/manager.go): the *)
(* config.yaml on disk, the copy in memory keyed by the file's mtime, and  *)
(* the background refresh that replaces the copy when the two differ.      *)
(*                                                                         *)
(* mutexReadOrWrite makes one GetConfig, one writeConfig and one           *)
(* WriteYAMLConfigFromString exclude each other, so each is one step here. *)
(* The refresh takes no such lock: its read and its store are two steps.   *)
(* People and other programs may write the file at any time.  `drifted`    *)
(* remembers how the file and the copy have come apart so far: a write     *)
(* from "outside" of an atomic update, an update whose Stat failed after   *)
(* it had written the file ("stat"), a "loose" file, see Tidy.             *)
(***************************************************************************)
EXTENDS ConfigEdits

CONSTANTS
  InitialConfig,    \* what the file holds when the manager has started
  HandEdits,        \* contents (on-disk form) somebody may write by hand
  WritesPerSecond   \* mtimes that fall into one second of the RFC 3339 format

ASSUME ConfigAssumption ==
  /\ convertSpecToYaml(InitialConfig) # {}
  /\ \A y \in HandEdits : convertYamlToSpec(y) # {}
  /\ WritesPerSecond \in Nat \ {0}

FileConfigs == {InitialConfig} \cup UNION {convertYamlToSpec(y) : y \in HandEdits}
StandAlone(n) == \E c \in FileConfigs : n \in DOMAIN c.sp /\ c.sp[n].ref = NoRef

(* The files whose stream processors survive an update.  In the others a  *)
(* stream processor's template has no root among the processors (as in    *)
(* docs/usage/data-modeling/stream-processors.md), or it belongs to one   *)
(* that another file has as stand-alone, which undoing an edit restores.  *)
Tidy(c) ==
  Whole(c) /\ \A n \in DOMAIN c.sp : c.sp[n].ref # n => ~StandAlone(c.sp[n].ref)

Looseness(cs) == IF \A c \in cs : Tidy(c) THEN {} ELSE {"loose"}

VARIABLES
  file,     \* config.yaml: can it be parsed, its content, its mtime
  cache,    \* cacheConfig, cacheError (is there one), cacheModTime
  refresh,  \* the background refresh: refreshMu, the mtime it was started for,
            \* and what it has read
  drifted,  \* how the file and the copy came apart so far: "outside", "stat", "loose"
  outside   \* number of writes from outside the process

managerVars == <<file, cache, refresh, drifted, outside>>

NoRefresh == [step |-> "none", mtime |-> 0, config |-> EmptyConfig, err |-> FALSE]

(* NewFileConfigManager has read and parsed the file and taken its mtime. *)
ManagerInit ==
  /\ file \in {[valid |-> TRUE, yaml |-> y, mtime |-> 1] : y \in convertSpecToYaml(InitialConfig)}
  /\ cache = [config |-> InitialConfig, err |-> FALSE, mtime |-> 1]
  /\ refresh = NoRefresh
  /\ drifted = Looseness({InitialConfig})
  /\ outside = 0

isEmptyConfig(c) == c = EmptyConfig

Fresh == cache.mtime = file.mtime

(* Is the file what the copy would be written as?                         *)
CopyMatches == file.valid /\ file.yaml \in convertSpecToYaml(cache.config)

(* The fast path hands out the copy and no error, whatever cacheError     *)
(* says; the slow path hands out the old copy with the error kept with it.*)
GetConfig ==
  [config |-> cache.config,
   err |-> ~Fresh /\ (cache.err \/ isEmptyConfig(cache.config))]

(* The slow path starts a refresh unless one runs (TryLock).              *)
StartRefresh ==
  refresh' = IF ~Fresh /\ refresh.step = "none"
             THEN [NoRefresh EXCEPT !.step = "read", !.mtime = file.mtime]
             ELSE refresh

(* A file that is unparsable, refers to a missing template or holds no    *)
(* setting is an error, with the zero configuration beside it.            *)
readAndParseConfig ==
  LET parsed == IF file.valid THEN convertYamlToSpec(file.yaml) \ {EmptyConfig} ELSE {}
  IN IF parsed = {}
     THEN [config |-> EmptyConfig, err |-> TRUE]
     ELSE [config |-> CHOOSE c \in parsed : TRUE, err |-> FALSE]

(* The read may also fail for a while (an I/O error, its deadline).       *)
RefreshRead ==
  /\ refresh.step = "read"
  /\ \E r \in {readAndParseConfig, [config |-> EmptyConfig, err |-> TRUE]} :
       refresh' = [refresh EXCEPT !.step = "store", !.config = r.config, !.err = r.err]
  /\ UNCHANGED <<file, cache, drifted, outside>>

\* Mutant: the copy keeps the mtime it had, so every read is a slow one.
RefreshStore_KeepsMtime ==
  /\ refresh.step = "store"
  /\ cache' = [config |-> refresh.config, err |-> refresh.err, mtime |-> cache.mtime]
  /\ refresh' = NoRefresh
  /\ UNCHANGED <<file, drifted, outside>>

RefreshStore ==
  /\ refresh.step = "store"
  /\ cache' = [config |-> refresh.config, err |-> refresh.err, mtime |-> refresh.mtime]
  /\ refresh' = NoRefresh
  /\ UNCHANGED <<file, drifted, outside>>

(* writeConfig: the file, then the copy; cacheError stays as it was.  When *)
(* the Stat in between fails, the file is written and the copy is not.     *)
writeConfig(c, y) ==
  /\ file' = [valid |-> TRUE, yaml |-> y, mtime |-> file.mtime + 1]
  /\ cache' = [cache EXCEPT !.config = c, !.mtime = file.mtime + 1]
  /\ UNCHANGED <<refresh, drifted, outside>>

writeConfigStatFails(y) ==
  /\ file' = [valid |-> TRUE, yaml |-> y, mtime |-> file.mtime + 1]
  /\ drifted' = drifted \cup {"stat"}
  /\ UNCHANGED <<cache, refresh, outside>>

(* Modification times are compared after formatting them to the second.   *)
SameSecond(m, n) == m \div WritesPerSecond = n \div WritesPerSecond

(* WriteYAMLConfigFromString takes mutexReadOrWrite only.                 *)
WriteYAMLConfigFromString(y, expectedModTime) ==
  /\ SameSecond(file.mtime, expectedModTime)
  /\ file' = [valid |-> TRUE, yaml |-> y, mtime |-> file.mtime + 1]
  /\ \E c \in convertYamlToSpec(y) :
       cache' = [config |-> c, err |-> FALSE, mtime |-> file.mtime + 1]
  /\ drifted' = drifted \cup {"outside"} \cup Looseness(convertYamlToSpec(y))
  /\ UNCHANGED <<refresh, outside>>

(* Somebody writes config.yaml with an editor or another program, and may *)
(* leave a file that cannot be parsed or holds nothing.                   *)
EditByHand ==
  /\ outside' = outside + 1
  /\ \/ \E y \in HandEdits :
          /\ file' = [valid |-> TRUE, yaml |-> y, mtime |-> file.mtime + 1]
          /\ drifted' = drifted \cup {"outside"} \cup Looseness(convertYamlToSpec(y))
     \/ /\ file' = [file EXCEPT !.valid = FALSE, !.mtime = @ + 1]
        /\ drifted' = drifted \cup {"outside"}
  /\ UNCHANGED <<cache, refresh>>
=============================================================================
