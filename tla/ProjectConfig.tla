--------------------------- MODULE ProjectConfig ---------------------------
(***************************************************************************)
(* config.py: the configuration of one project, .jcodemunch.jsonc, as the  *)
(* server caches it.  Every index_folder loads it -- in the thread of the  *)
(* call, so that loads overlap -- and may, when the folder is indexed,     *)
(* adapt the file to the languages it has found and drop the cached one.   *)
(* get() merges nothing: it reads the cached project configuration, and    *)
(* the global one where none is cached.                                    *)
(*                                                                         *)
(* The content of the file is what it says: whether it is adaptive, and    *)
(* its languages block; or Broken, if it does not parse.                   *)
(***************************************************************************)
EXTENDS FiniteSets

CONSTANTS Threads,        \* threads that run index_folder
          Languages,      \* what a languages block may say, what a folder may have
          GlobalAdaptive  \* languages_adaptive of the global configuration

ASSUME ConfigAssumption == GlobalAdaptive \in BOOLEAN

VARIABLES configFile,  \* the file of the project
          config,      \* _PROJECT_CONFIGS[repo_key]: what is merged over the global one
          configHash,  \* _PROJECT_CONFIG_HASHES[repo_key]: the content it is the hash of
          thread       \* what each thread is doing

configVars == <<configFile, config, configHash, thread>>

Content == [adaptive : BOOLEAN, languages : Languages]
Broken  == [broken |-> TRUE]
Absent  == [absent |-> TRUE]
\* The cached configuration: the global one alone, a content merged over it, or none.
Global  == [global |-> TRUE]

Pcs == {"idle", "load", "compare", "parse", "none", "index", "adapt", "write", "evict"}

ConfigTypeOK ==
    /\ configFile \in Content \cup {Broken, Absent}
    /\ config \in Content \cup {Global, Absent}
    /\ configHash \in Content \cup {Absent}
    /\ thread \in [Threads -> [pc : Pcs, has : Content \cup {Broken, Absent}]]

ConfigInit ==
    /\ configFile \in Content \cup {Absent}
    /\ config = Absent /\ configHash = Absent
    /\ thread = [t \in Threads |-> [pc |-> "idle", has |-> Absent]]

Go(t, from, to, has) ==
    /\ thread[t].pc = from
    /\ thread' = [thread EXCEPT ![t] = [pc |-> to, has |-> has]]

\* The user writes, breaks or removes the file.
EditConfig(c) ==
    /\ c # configFile
    /\ configFile' = c
    /\ UNCHANGED <<config, configHash, thread>>

----------------------------------------------------------------------------
(* load_project_config *)

\* The file is looked for.
FindConfig(t) ==
    /\ Go(t, "idle", IF configFile = Absent THEN "none" ELSE "load", Absent)
    /\ UNCHANGED <<configFile, config, configHash>>

\* It is read; one that has vanished by now fails like one that does not parse.
ReadConfig(t) ==
    /\ Go(t, "load", IF configFile = Absent THEN "parse" ELSE "compare", configFile)
    /\ UNCHANGED <<configFile, config, configHash>>

\* The first use of the lock: is what was read the same as what is cached?
CompareContent(t) ==
    /\ LET has == thread[t].has
       IN  IF config # Absent /\ configHash = has THEN Go(t, "compare", "index", Absent)
                                                 ELSE Go(t, "compare", "parse", has)
    /\ UNCHANGED <<configFile, config, configHash>>

\* A wrong store, which stores the hash of what the file has become.
StoreConfigHashLate(t) ==
    LET has == thread[t].has
    IN  /\ Go(t, "parse", "index", Absent)
        /\ IF has \in Content
           THEN config' = has /\ configHash' = IF configFile \in Content THEN configFile ELSE has
           ELSE config' = Global /\ configHash' = configHash
        /\ UNCHANGED configFile

\* The second use of the lock: merged, or the global one and the old hash.
StoreConfig(t) ==
    LET has == thread[t].has
    IN  /\ Go(t, "parse", "index", Absent)
        /\ IF has \in Content THEN config' = has /\ configHash' = has
                              ELSE config' = Global /\ configHash' = configHash
        /\ UNCHANGED configFile

\* Without a file: what is cached stays, its hash is forgotten.
StoreNone(t) ==
    /\ Go(t, "none", "index", Absent)
    /\ config' = IF config = Absent THEN Global ELSE config
    /\ configHash' = Absent
    /\ UNCHANGED configFile

----------------------------------------------------------------------------
(* The end of index_folder, and apply_adaptive_languages *)

\* The call fails, finds no language, or may have to adapt the file.
FolderIndexed(t) ==
    /\ \E to \in {"idle", "adapt"} : Go(t, "index", to, Absent)
    /\ UNCHANGED <<configFile, config, configHash>>

\* The content the file is to have: a copy of the global one if there is none, the
\* same with other languages if it is adaptive by itself.
Adapted(found) ==
    CASE configFile = Absent /\ GlobalAdaptive -> [adaptive |-> TRUE, languages |-> found]
      [] configFile \in Content /\ configFile.adaptive ->
           [configFile EXCEPT !.languages = found]
      [] OTHER -> configFile

ReadForAdapting(t, found) ==
    /\ Go(t, "adapt", IF Adapted(found) = configFile THEN "idle" ELSE "write", Adapted(found))
    /\ UNCHANGED <<configFile, config, configHash>>

\* It is written over whatever the file is by then.
WriteAdapted(t) ==
    /\ Go(t, "write", "evict", Absent)
    /\ configFile' = thread[t].has
    /\ UNCHANGED <<config, configHash>>

\* invalidate_project_config_cache.
EvictConfig(t) ==
    /\ Go(t, "evict", "idle", Absent)
    /\ config' = Absent /\ configHash' = Absent
    /\ UNCHANGED configFile

ConfigNext ==
    \/ \E c \in Content \cup {Broken, Absent} : EditConfig(c)
    \/ \E t \in Threads :
         \/ FindConfig(t) \/ ReadConfig(t) \/ CompareContent(t) \/ StoreConfig(t)
         \/ StoreNone(t) \/ FolderIndexed(t) \/ WriteAdapted(t) \/ EvictConfig(t)
         \/ \E found \in Languages : ReadForAdapting(t, found)

ConfigSpec == ConfigInit /\ [][ConfigNext]_configVars

----------------------------------------------------------------------------
(* Properties *)

\* A load that finds the hash of the file keeps what is cached ("File touched but
\* unchanged (hash same, no reload)", config.py 957).  However loads, edits, removals
\* and evictions overlap, it never keeps the settings of another content.
NoOthersConfig == configHash # Absent => config \in {configHash, Global}

\* It keeps those of this content.
HashIsOfConfig == configHash # Absent => config = configHash
=============================================================================
