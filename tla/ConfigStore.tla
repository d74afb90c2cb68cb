---------------------------- MODULE ConfigStore ----------------------------
(***************************************************************************)
(* The store with the configuration, the requests that change, save and    *)
(* load it, and the files it is kept in.                                   *)
(*                                                                         *)
(* Every method of the store holds its RWMutex from entry to return: the   *)
(* ones that write are one step, taken while nobody reads; DumpConfig      *)
(* keeps the read lock over its system calls, so that its steps interleave *)
(* with other readers only.  A request calls several methods, each with    *)
(* the lock to itself.  Requests that only show the configuration are left *)
(* out.  The process may die between any two steps.                        *)
(***************************************************************************)
EXTENDS Naturals, Sequences

CONSTANTS
  Handlers,   \* goroutines that serve a request
  Form,       \* the fields of the settings form, in the order they are set
  Aliases,    \* names of aliases
  Values,     \* values of fields and aliases
  Bad,        \* a text that no field accepts; an alias takes any
  NoValue,    \* an alias that is not there
  NoKey,      \* a key the store has no entry for or refuses to change
  Paths,      \* configuration files; "cwd" and "home" are where .mxrc is sought
  Missing, Garbage, \* what loadConfig cannot read
  Default,    \* the configuration of initConfig
  Disk,       \* what the files may hold at the start
  Asked,      \* the requests that are made
  MaxRequests \* bound on the requests

Fields == {Form[i] : i \in DOMAIN Form}
Keys == Fields \cup Aliases
Configs ==
  {c \in [Keys -> Values \cup {Bad, NoValue}] : \A f \in Fields : c[f] \in Values}
Unread == {Missing, Garbage}

ASSUME KeysAssumption == NoKey \notin Keys /\ Fields \cap Aliases = {}
ASSUME ValuesAssumption == {Bad, NoValue} \cap Values = {} /\ Default \in Configs
ASSUME PathsAssumption == {"cwd", "home"} \subseteq Paths
ASSUME DiskAssumption == Disk \subseteq [Paths -> Configs \cup Unread] /\ Unread \cap Configs = {}

VARIABLES
  cfg,     \* Store.cfg: the configuration in memory
  path,    \* Store.configPath
  files,   \* what is on the disk
  pc,      \* handler -> where it is in its request
  todo,    \* handler -> assignments the request still has to make
  then,    \* handler -> what the request does afterwards
  target,  \* handler -> the path it saves to or loads from
  data,    \* handler -> the text it dumps
  temp,    \* handler -> its temporary file
  served,  \* number of requests (bound)
  owed     \* history: a change was kept in memory only, or its save failed

dumping == <<data, temp>>
configVars == <<cfg, path, files, pc, todo, then, target, data, temp, served, owed>>

Assigned == (Keys \cup {NoKey}) \X (Values \cup {Bad, NoValue})
Endings == {"keep", "save", "dump", "load", "reload"}
Places == {"idle", "set", "path", "dump", "load", "reload", "create", "write", "rename"}

\* Past its first step DumpConfig holds the read lock.
Dumping(h) == pc[h] \in {"create", "write", "rename"}

Readable(p) == files[p] \notin Unread

\* The first of the two files that can be read, and a default otherwise.
InitConfig(disk) ==
  CASE disk["cwd"] \notin Unread -> [cfg |-> disk["cwd"], path |-> "cwd"]
    [] disk["cwd"] \in Unread /\ disk["home"] \notin Unread ->
         [cfg |-> disk["home"], path |-> "home"]
    [] OTHER -> [cfg |-> Default, path |-> "cwd"]

ConfigInit ==
  /\ files \in Disk
  /\ cfg = InitConfig(files).cfg /\ path = InitConfig(files).path
  /\ pc = [h \in Handlers |-> "idle"] /\ todo = [h \in Handlers |-> <<>>]
  /\ then = [h \in Handlers |-> "keep"] /\ target = [h \in Handlers |-> "cwd"]
  /\ data = [h \in Handlers |-> Missing] /\ temp = [h \in Handlers |-> Missing]
  /\ served = 0
  /\ owed = (files[path] # cfg)

-----------------------------------------------------------------------------
\* The requests: what they assign, in order, and how they end.

Request(assignments, ending, at) == [sets |-> assignments, ends |-> ending, at |-> at]

\* The settings form sets its fields one by one and saves.
SaveForm(vals) == Request([i \in DOMAIN Form |-> <<Form[i], vals[i]>>], "save", "cwd")
SetAlias(a, v) == Request(<<<<a, v>>>>, "save", "cwd")
DeleteAlias(a) == Request(<<<<a, NoValue>>>>, "save", "cwd")
\* Imported aliases, `config set`, `alias add` and the `set` of a script stay
\* in memory.
ImportAliases(assignments) == Request(assignments, "keep", "cwd")
ConfigSet(k, v) == Request(<<<<k, v>>>>, "keep", "cwd")
AliasAdd(a, v) == Request(<<<<a, v>>>>, "keep", "cwd")
AliasDel(names) == Request([i \in DOMAIN names |-> <<names[i], NoValue>>], "keep", "cwd")
\* `config save` and the save at shutdown.
ConfigSave == Request(<<>>, "save", "cwd")
ConfigSaveTo(p) == Request(<<>>, "dump", p)
ExportConfig(p) == Request(<<>>, "dump", p)
ConfigLoad(p) == Request(<<>>, "load", p)
ImportConfig(p) == Request(<<>>, "load", p)
ResetConfig == Request(<<>>, "reload", "cwd")

Requests == [sets : Seq(Assigned), ends : Endings, at : Paths]
ASSUME AskedAssumption ==
  /\ Asked \subseteq Requests
  /\ \A r \in Asked : r.sets # <<>> => r.ends \in {"keep", "save"}
  /\ MaxRequests \in Nat

\* Where a request goes once its assignments are made.
After(ending) ==
  CASE ending = "keep" -> "idle"
    [] ending = "save" -> "path"
    [] OTHER -> ending

\* Store.Unset, of an alias that was never set or is already gone.
NothingThere(k, v) == k \in Aliases /\ v = NoValue /\ cfg[k] = NoValue

-----------------------------------------------------------------------------
\* Mutations: what a slip in the code would turn a definition below into.  No
\* specification uses them; each breaks a property of this module.

\* DumpConfig that holds the lock for the marshalling only.
LockedNever == FALSE

\* A save that does not look up where the configuration came from.
SavePathFixed(h) ==
  /\ pc[h] = "path"
  /\ target' = [target EXCEPT ![h] = "cwd"]
  /\ pc' = [pc EXCEPT ![h] = "dump"]
  /\ UNCHANGED <<cfg, path, files, todo, then, dumping, served, owed>>

-----------------------------------------------------------------------------
Locked == \E h \in Handlers : Dumping(h)

Serve(h, r) ==
  /\ pc[h] = "idle" /\ served < MaxRequests
  /\ served' = served + 1
  /\ todo' = [todo EXCEPT ![h] = r.sets]
  /\ then' = [then EXCEPT ![h] = r.ends]
  /\ target' = [target EXCEPT ![h] = r.at]
  /\ pc' = [pc EXCEPT ![h] = IF r.sets = <<>> THEN After(r.ends) ELSE "set"]
  /\ UNCHANGED <<cfg, path, files, dumping, owed>>

\* Store.Set and Store.Unset refuse a key they do not know, a value the type
\* of the field cannot take, and to delete what is not there.
Refused(k, v) ==
  \/ k = NoKey
  \/ k \in Fields /\ v \in {Bad, NoValue}
  \/ NothingThere(k, v)

\* Only an import and a list of deletions go on after a refusal.
Set(h) ==
  LET k == Head(todo[h])[1]  v == Head(todo[h])[2] IN
  /\ pc[h] = "set" /\ ~Locked
  /\ IF Refused(k, v)
     THEN /\ UNCHANGED cfg
          /\ owed' = (owed \/ then[h] = "save")
     ELSE /\ cfg' = [cfg EXCEPT ![k] = v]
          /\ owed' = (owed \/ then[h] = "keep")
  /\ IF Refused(k, v) /\ then[h] # "keep"
     THEN todo' = [todo EXCEPT ![h] = <<>>] /\ pc' = [pc EXCEPT ![h] = "idle"]
     ELSE /\ todo' = [todo EXCEPT ![h] = Tail(@)]
          /\ pc' = [pc EXCEPT ![h] = IF Len(todo[h]) = 1 THEN After(then[h]) ELSE "set"]
  /\ UNCHANGED <<path, files, then, target, dumping, served>>

\* SaveConfig reads the path, lets go of the lock and then dumps.
SavePath(h) ==
  /\ pc[h] = "path"
  /\ target' = [target EXCEPT ![h] = path]
  /\ pc' = [pc EXCEPT ![h] = "dump"]
  /\ UNCHANGED <<cfg, path, files, todo, then, dumping, served, owed>>

\* DumpConfig: the read lock, and the configuration as text.
Marshal(h) ==
  /\ pc[h] = "dump"
  /\ data' = [data EXCEPT ![h] = cfg]
  /\ pc' = [pc EXCEPT ![h] = "create"]
  /\ UNCHANGED <<cfg, path, files, todo, then, target, temp, served, owed>>

CreateTemp(h) ==
  /\ pc[h] = "create"
  /\ temp' = [temp EXCEPT ![h] = Garbage]
  /\ pc' = [pc EXCEPT ![h] = "write"]
  /\ UNCHANGED <<cfg, path, files, todo, then, target, data, served, owed>>

\* Write, Sync and Close of the temporary file.
WriteTemp(h) ==
  /\ pc[h] = "write"
  /\ temp' = [temp EXCEPT ![h] = data[h]]
  /\ pc' = [pc EXCEPT ![h] = "rename"]
  /\ UNCHANGED <<cfg, path, files, todo, then, target, data, served, owed>>

Rename(h) ==
  /\ pc[h] = "rename"
  /\ files' = [files EXCEPT ![target[h]] = temp[h]]
  /\ owed' = (owed /\ target[h] # path)
  /\ data' = [data EXCEPT ![h] = Missing] /\ temp' = [temp EXCEPT ![h] = Missing]
  /\ pc' = [pc EXCEPT ![h] = "idle"]
  /\ UNCHANGED <<cfg, path, todo, then, target, served>>

\* Any of the system calls may fail; the temporary file is removed.
DumpFails(h) ==
  /\ Dumping(h)
  /\ owed' = (owed \/ then[h] = "save")
  /\ data' = [data EXCEPT ![h] = Missing] /\ temp' = [temp EXCEPT ![h] = Missing]
  /\ pc' = [pc EXCEPT ![h] = "idle"]
  /\ UNCHANGED <<cfg, path, files, todo, then, target, served>>

\* The path is read before LoadConfig takes the lock.
ReloadPath(h) ==
  /\ pc[h] = "reload"
  /\ target' = [target EXCEPT ![h] = path]
  /\ pc' = [pc EXCEPT ![h] = "load"]
  /\ UNCHANGED <<cfg, path, files, todo, then, dumping, served, owed>>

LoadConfig(h) ==
  /\ pc[h] = "load" /\ ~Locked
  /\ IF Readable(target[h])
     THEN cfg' = files[target[h]] /\ path' = target[h] /\ owed' = FALSE
     ELSE UNCHANGED <<cfg, path, owed>>
  /\ pc' = [pc EXCEPT ![h] = "idle"]
  /\ UNCHANGED <<files, todo, then, target, dumping, served>>

\* The process ends, between two steps or in order, and starts again: InitStore.
\* Temporary files stay behind and are never read.
Restart ==
  /\ cfg' = InitConfig(files).cfg /\ path' = InitConfig(files).path
  /\ pc' = [h \in Handlers |-> "idle"] /\ todo' = [h \in Handlers |-> <<>>]
  /\ then' = [h \in Handlers |-> "keep"] /\ target' = [h \in Handlers |-> "cwd"]
  /\ data' = [h \in Handlers |-> Missing] /\ temp' = [h \in Handlers |-> Missing]
  /\ owed' = (files[path'] # cfg')
  /\ UNCHANGED <<files, served>>

ConfigNext ==
  \/ \E h \in Handlers, r \in Asked : Serve(h, r)
  \/ \E h \in Handlers :
       \/ Set(h) \/ SavePath(h) \/ Marshal(h) \/ CreateTemp(h) \/ WriteTemp(h)
       \/ Rename(h) \/ DumpFails(h) \/ ReloadPath(h) \/ LoadConfig(h)
  \/ Restart

ConfigSpec == ConfigInit /\ [][ConfigNext]_configVars

-----------------------------------------------------------------------------
ConfigTypeOK ==
  /\ cfg \in Configs /\ path \in Paths
  /\ files \in [Paths -> Configs \cup Unread]
  /\ pc \in [Handlers -> Places] /\ todo \in [Handlers -> Seq(Assigned)]
  /\ then \in [Handlers -> Endings] /\ target \in [Handlers -> Paths]
  /\ data \in [Handlers -> Configs \cup {Missing}]
  /\ temp \in [Handlers -> Configs \cup Unread]
  /\ served \in 0..MaxRequests /\ owed \in BOOLEAN

\* A save is one step, whoever else saves, sets or loads, and wherever the
\* process dies: a file holds the whole configuration that is in memory when
\* it appears under its name, never a part of it or one that is out of date.
File == INSTANCE ConfigFile WITH Values <- Values \cup {Bad, NoValue}
AtomicSaves == File!Spec

\* Once every request that assigns and saves was told that it succeeded, and
\* nobody is at work, the file the configuration came from has every change.
SavedAtRest ==
  (\A h \in Handlers : pc[h] = "idle") /\ ~owed => files[path] = cfg
=============================================================================
