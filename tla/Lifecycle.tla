------------------------------ MODULE Lifecycle ------------------------------
(***************************************************************************)
(* The life of a node's process and its cache file (src/src/main.rs,       *)
(* src/src/cache.rs, src/src/config.rs): launch from a configuration or    *)
(* from the cache of an earlier life, joining, the task that saves the     *)
(* cache every five seconds, the task that waits for Ctrl-C, and the ends  *)
(* a process may come to.                                                  *)
(*                                                                         *)
(* The two tasks share the Cache behind a tokio Mutex.  save_to_file       *)
(* truncates the file and then writes it, so between the two, and for good *)
(* if the process ends there, the file is torn and cannot be parsed.       *)
(*                                                                         *)
(* The routing table is its version, the number of changes made to it;     *)
(* when a full bucket has wedged its lock (module NodeTasks,               *)
(* WedgeIsPermanent) it is never read again.  Neither the key nor the      *)
(* routing_table_nodes of a cache are used in a relaunch: the node draws a *)
(* new key and starts with an empty table.  The cache therefore has no key *)
(* here, and the storage directory, which no other state depends on, is    *)
(* only one more thing that can fail.                                      *)
(***************************************************************************)
EXTENDS Naturals

CONSTANTS ConfigFiles, \* the contents of the configuration files at hand
          PortArgs,    \* the values of --port, None when it is not given
          MaxTable,    \* bound: changes of the routing table in a life
          MaxLaunches, \* bound: launches
          MaxFaults,   \* bound: failing file operations
          Torn,        \* a cache file that cannot be parsed
          None         \* no file, no port, no nodes, nobody

Config == [beacon : SUBSET {"address", "key"},
           port : Nat \cup {None},
           cachePath : BOOLEAN]

ASSUME LifecycleAssumption ==
    /\ ConfigFiles \subseteq Config
    /\ PortArgs \subseteq Nat \cup {None}
    /\ {MaxTable, MaxLaunches, MaxFaults} \subseteq Nat
    /\ Torn # None
    /\ None \notin Nat \cup {"saver", "closer", "ok", "failed"}

Cache == [skipJoin : BOOLEAN, config : Config, nodes : Nat \cup {None}]

\* The task that saves periodically and the one that handles the shutdown.
Tasks == {"saver", "closer"}
Stages == {"off", "fetch", "lock", "write", "sleep", "wait", "exit"}

VARIABLES
    phase,    \* of the process; "stopped" after a graceful shutdown
    cache,    \* the Cache in memory
    file,     \* the content of the cache file
    table,    \* the version of the routing table
    wedged,   \* is the lock of the table stuck?
    contacts, \* all_contacts of the saver
    holder,   \* the task that holds the cache's mutex
    stage,    \* stage[t]: what task t is doing
    lastSave, \* history: how the latest save of this process ended
    launches,
    faults

memory == <<cache, table, wedged, contacts>>
tasks == <<holder, stage, lastSave>>
vars == <<phase, memory, tasks, file, launches, faults>>

TypeOK ==
    /\ phase \in {"down", "stopped", "starting", "joining", "up"}
    /\ cache \in Cache \cup {None}
    /\ file \in Cache \cup {Torn, None}
    /\ table \in 0 .. MaxTable
    /\ wedged \in BOOLEAN
    /\ contacts \in 0 .. MaxTable
    /\ holder \in Tasks \cup {None}
    /\ stage \in [Tasks -> Stages]
    /\ \A t \in Tasks : stage[t] = "write" => holder = t
    /\ lastSave \in {"ok", "failed", None}
    /\ launches \in 0 .. MaxLaunches
    /\ faults \in 0 .. MaxFaults

Init ==
    /\ phase = "down"
    /\ cache = None
    /\ file = None
    /\ table = 0
    /\ wedged = FALSE
    /\ contacts = 0
    /\ holder = None
    /\ stage = [t \in Tasks |-> "off"]
    /\ lastSave = None
    /\ launches = 0
    /\ faults = 0

Fault(b) == (b => faults < MaxFaults) /\ faults' = IF b THEN faults + 1 ELSE faults

------------------------------------------------------------------------------
(* Launch. *)

\* The process starts with cache c; the memory of an earlier life is gone.
Launch(c) ==
    /\ phase \in {"down", "stopped"}
    /\ launches < MaxLaunches
    /\ launches' = launches + 1
    /\ phase' = "starting"
    /\ cache' = c
    /\ table' = 0
    /\ wedged' = FALSE
    /\ contacts' = 0
    /\ holder' = None
    /\ stage' = [t \in Tasks |-> "off"]
    /\ lastSave' = None
    /\ UNCHANGED <<file, faults>>

\* Config::parse_from_file refuses a file without a beacon, unless --skip-join.
Accepts(f, skipJoin) == skipJoin \/ f.beacon = {"address", "key"}

\* The port of the command line, or of the file, or 0 for a free one.
ParseFromFile(f, port) ==
    [f EXCEPT !.port = IF port # None THEN port ELSE IF @ # None THEN @ ELSE 0]

\* --config, with or without --skip-join and --port; a refused file, like any
\* other error, ends the process before it has changed anything.
LaunchFromConfig(f, skipJoin, port) ==
    /\ Accepts(f, skipJoin)
    /\ Launch([skipJoin |-> skipJoin, config |-> ParseFromFile(f, port),
               nodes |-> None])

\* Mutant: --skip-join is taken from the command line of the relaunch.
RelaunchWithoutSkip ==
    /\ file \notin {Torn, None}
    /\ Launch([file EXCEPT !.skipJoin = FALSE])

\* --cache: configuration and skip_join are those of the earlier life, and the
\* other arguments are ignored.  A torn or absent file ends the process.
LaunchFromCache ==
    /\ file \notin {Torn, None}
    /\ Launch(file)

\* The address, the port and the storage directory are resolved, the socket is
\* bound, and the node listens.
CreateNode ==
    /\ phase = "starting"
    /\ cache.config.port # None
    /\ phase' = "joining"
    /\ UNCHANGED <<memory, tasks, file, launches, faults>>

\* What the process spawns once it is part of the network.
Running ==
    /\ phase' = "up"
    /\ stage' = [saver |-> IF cache.config.cachePath THEN "fetch" ELSE "off",
                 closer |-> "wait"]
    /\ UNCHANGED <<memory, file, holder, lastSave, launches, faults>>

SkipJoin == phase = "joining" /\ cache.skipJoin /\ Running

\* join_network, which reads and writes the table, returns.
Join ==
    /\ phase = "joining"
    /\ ~ cache.skipJoin
    /\ cache.config.beacon = {"address", "key"}
    /\ ~ wedged
    /\ Running

\* The table changes as nodes are seen, and its lock may get stuck, from the
\* moment the node listens.
TableChanges ==
    /\ phase \in {"joining", "up"}
    /\ ~ wedged
    /\ table < MaxTable
    /\ table' = table + 1
    /\ UNCHANGED <<phase, cache, wedged, contacts, tasks, file, launches, faults>>

TableWedges ==
    /\ phase \in {"joining", "up"}
    /\ wedged' = TRUE
    /\ UNCHANGED <<phase, cache, table, contacts, tasks, file, launches, faults>>

------------------------------------------------------------------------------
(* Saving. *)

Goto(t, s) == stage' = [stage EXCEPT ![t] = s]

\* Where a task goes when its save is done, well or not.
After(t) == IF t = "saver" THEN "sleep" ELSE "exit"

\* Mutant: the contacts are put into the cache before it is locked.
FetchIntoCache ==
    /\ phase = "up"
    /\ stage["saver"] = "fetch"
    /\ ~ wedged
    /\ contacts' = table
    /\ cache' = [cache EXCEPT !.nodes = table]
    /\ Goto("saver", "lock")
    /\ UNCHANGED <<phase, table, wedged, file, holder, lastSave, launches, faults>>

\* get_routing_table_content; the cache is not locked yet.
Fetch ==
    /\ phase = "up"
    /\ stage["saver"] = "fetch"
    /\ ~ wedged
    /\ contacts' = table
    /\ Goto("saver", "lock")
    /\ UNCHANGED <<phase, cache, table, wedged, file, holder, lastSave, launches,
                   faults>>

\* Mutant: the table is read while the cache is locked.
SaveFetchingUnderLock(t, created) ==
    /\ phase = "up"
    /\ stage[t] = "lock"
    /\ holder = None
    /\ holder' = t
    /\ Fault(~ created)
    /\ IF wedged /\ t = "saver" THEN UNCHANGED <<cache, file, stage>>
       ELSE /\ cache' = IF t = "saver" THEN [cache EXCEPT !.nodes = table] ELSE cache
            /\ file' = Torn
            /\ Goto(t, "write")
    /\ UNCHANGED <<phase, table, wedged, contacts, lastSave, launches>>

\* Mutant: the cache is not locked.
SaveUnlocked(t, created) ==
    /\ phase = "up"
    /\ stage[t] = "lock"
    /\ cache' = IF t = "saver" THEN [cache EXCEPT !.nodes = contacts] ELSE cache
    /\ Fault(~ created)
    /\ IF created
       THEN file' = Torn /\ Goto(t, "write") /\ UNCHANGED lastSave
       ELSE lastSave' = "failed" /\ Goto(t, After(t)) /\ UNCHANGED file
    /\ UNCHANGED <<phase, table, wedged, contacts, holder, launches>>

\* The mutex is taken, by the saver to put the contacts into the cache, and
\* save_to_file creates the file, or empties the one there is.
BeginSave(t, created) ==
    /\ phase = "up"
    /\ stage[t] = "lock"
    /\ holder = None
    /\ cache' = IF t = "saver" THEN [cache EXCEPT !.nodes = contacts] ELSE cache
    /\ Fault(~ created)
    /\ IF created
       THEN /\ file' = Torn
            /\ holder' = t
            /\ Goto(t, "write")
            /\ UNCHANGED lastSave
       ELSE /\ lastSave' = "failed"
            /\ Goto(t, After(t))
            /\ UNCHANGED <<file, holder>>
    /\ UNCHANGED <<phase, table, wedged, contacts, launches>>

\* Mutant: a save that fails ends the periodic saving.
EndSaveOrGiveUp(t, written) ==
    /\ phase = "up"
    /\ stage[t] = "write"
    /\ Fault(~ written)
    /\ file' = IF written THEN cache ELSE Torn
    /\ lastSave' = IF written THEN "ok" ELSE "failed"
    /\ holder' = None
    /\ Goto(t, IF written \/ t = "closer" THEN After(t) ELSE "off")
    /\ UNCHANGED <<phase, memory, launches>>

\* The cache is written out, or the disk is full; an error is only logged, and the
\* guard is dropped at the end of the block.
EndSave(t, written) ==
    /\ phase = "up"
    /\ stage[t] = "write"
    /\ Fault(~ written)
    /\ file' = IF written THEN cache ELSE Torn
    /\ lastSave' = IF written THEN "ok" ELSE "failed"
    /\ holder' = None
    /\ Goto(t, After(t))
    /\ UNCHANGED <<phase, memory, launches>>

\* Five seconds later.
Wake ==
    /\ phase = "up"
    /\ stage["saver"] = "sleep"
    /\ Goto("saver", "fetch")
    /\ UNCHANGED <<phase, memory, file, holder, lastSave, launches, faults>>

------------------------------------------------------------------------------
(* The ends of a process. *)

\* Ctrl-C, or an error in waiting for it; without a path there is nothing to save.
Signal ==
    /\ phase = "up"
    /\ stage["closer"] = "wait"
    /\ Goto("closer", IF cache.config.cachePath THEN "lock" ELSE "exit")
    /\ UNCHANGED <<phase, memory, file, holder, lastSave, launches, faults>>

\* process::exit, whatever the saver is doing.
Exit ==
    /\ phase = "up"
    /\ stage["closer"] = "exit"
    /\ phase' = "stopped"
    /\ UNCHANGED <<memory, tasks, file, launches, faults>>

\* The standard input ends: main returns, and the runtime lets a save that has
\* begun finish, as save_to_file does not await.
EndOfInput ==
    /\ phase = "up"
    /\ \A t \in Tasks : stage[t] # "write"
    /\ phase' = "down"
    /\ UNCHANGED <<memory, tasks, file, launches, faults>>

\* A crash, a failed start or join, or Ctrl-C before its handler is there.
Die ==
    /\ phase \in {"starting", "joining", "up"}
    /\ phase' = "down"
    /\ UNCHANGED <<memory, tasks, file, launches, faults>>

SaveStep(t) == \E ok \in BOOLEAN : BeginSave(t, ok) \/ EndSave(t, ok)

Next ==
    \/ \E f \in ConfigFiles, skipJoin \in BOOLEAN, port \in PortArgs :
         LaunchFromConfig(f, skipJoin, port)
    \/ LaunchFromCache
    \/ CreateNode
    \/ SkipJoin
    \/ Join
    \/ TableChanges
    \/ TableWedges
    \/ Fetch
    \/ \E t \in Tasks : SaveStep(t)
    \/ Wake
    \/ Signal
    \/ Exit
    \/ EndOfInput
    \/ Die

Spec == Init /\ [][Next]_vars

\* The runtime runs every task that can run.  The fairness of a save is strong: it
\* waits for the mutex, whose queue is first come, first served.
Fairness ==
    /\ \A t \in Tasks : SF_vars(SaveStep(t))
    /\ WF_vars(Fetch)
    /\ WF_vars(Wake)
    /\ WF_vars(Exit)

FairSpec == Spec /\ Fairness

------------------------------------------------------------------------------
(* Properties. *)

\* A node that is started has a port, and one that joins has a beacon, also in a
\* relaunch, where neither is checked again: the errors of main.rs:65 and
\* main.rs:105-112 cannot occur.
ConfigComplete ==
    phase \in {"starting", "joining"} =>
        /\ cache.config.port # None
        /\ ~ cache.skipJoin => cache.config.beacon = {"address", "key"}

\* A cache that a process can be launched from.
Complete(c) ==
    /\ c.config.port # None
    /\ ~ c.skipJoin => c.config.beacon = {"address", "key"}

\* Two tasks save: unless one of them is saving, the file is what the latest save
\* of this process left there, the cache as it is in memory.
FileIsCache ==
    phase = "up" /\ holder = None /\ lastSave = "ok" => file = cache

\* The inductive invariant behind ConfigComplete and FileIsCache.  Completeness is
\* that of every cache, in memory and on disk: it is checked when a life begins from
\* a configuration, and has to outlive the saves, the crashes and the relaunches in
\* between.  A process that is not up has not saved, whatever its predecessor did.
IInv ==
    /\ TypeOK
    /\ phase \notin {"down", "stopped"} => cache \in Cache /\ Complete(cache)
    /\ file \notin {Torn, None} => Complete(file)
    /\ phase \in {"starting", "joining"} => lastSave = None
    /\ FileIsCache

\* Ctrl-C ends the process although it waits for the mutex the saver takes, and
\* the saver for a table whose lock may be stuck for ever.
ShutdownEnds ==
    phase = "up" /\ stage["closer"] # "wait" ~> phase \in {"down", "stopped"}

\* What the table holds gets into the file, in spite of failing saves, unless the
\* table is stuck or the process ends.
CacheCatchesUp ==
    \A v \in 1 .. MaxTable :
        phase = "up" /\ cache.config.cachePath /\ table >= v ~>
            \/ phase # "up"
            \/ wedged
            \/ lastSave = "ok" /\ file = cache /\ cache.nodes # None /\ cache.nodes >= v
=============================================================================
