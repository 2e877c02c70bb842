-------------------------- MODULE LifecycleProofs --------------------------
(***************************************************************************)
(* Proofs about module Lifecycle, for any configuration files, any number  *)
(* of launches, of changes of the table and of failing file operations:    *)
(* a process that starts has a complete configuration, and between saves   *)
(* the cache file is the cache.                                            *)
(***************************************************************************)
EXTENDS Lifecycle, TLAPS

\* The bounds are natural numbers.
LEMMA Bounds == MaxTable \in Nat /\ MaxLaunches \in Nat /\ MaxFaults \in Nat
  BY LifecycleAssumption

\* None is neither a number nor a task nor the result of a save.
LEMMA NoneIsNone == None \notin Nat /\ None \notin Tasks /\ None # "ok" /\ None # "failed"
  BY LifecycleAssumption DEF Tasks

\* Before the first launch the invariant holds.
LEMMA InitIInv == Init => IInv
  <1> SUFFICES ASSUME Init PROVE IInv
    OBVIOUS
  <1>1. wedged \in BOOLEAN
    BY DEF Init
  <1>2. stage \in [Tasks -> Stages] /\ \A t \in Tasks : stage[t] = "write" => holder = t
    BY DEF Init, Stages
  <1>3. /\ table \in 0 .. MaxTable /\ contacts \in 0 .. MaxTable
        /\ launches \in 0 .. MaxLaunches /\ faults \in 0 .. MaxFaults
    BY Bounds DEF Init
  <1>4. TypeOK
    BY <1>1, <1>2, <1>3 DEF Init, TypeOK
  <1> QED BY <1>4 DEF Init, IInv, FileIsCache

\* A process that is launched with a complete cache.
LEMMA LaunchIInv ==
  ASSUME IInv, NEW c \in Cache, Complete(c), Launch(c)
  PROVE  IInv'
  <1>1. wedged' \in BOOLEAN
    BY DEF Launch
  <1>2. /\ stage' \in [Tasks -> Stages]
        /\ \A t \in Tasks : stage'[t] = "write" => holder' = t
    BY DEF Launch, Stages
  <1>3. /\ table' \in 0 .. MaxTable /\ contacts' \in 0 .. MaxTable
        /\ launches' \in 0 .. MaxLaunches /\ faults' \in 0 .. MaxFaults
    BY Bounds DEF Launch, IInv, TypeOK
  <1>4. TypeOK'
    BY <1>1, <1>2, <1>3 DEF Launch, IInv, TypeOK
  <1> QED BY <1>4 DEF Launch, IInv, FileIsCache, Complete

\* What Config::parse_from_file accepts, with its port filled in, is complete.
LEMMA ParsedIsComplete ==
  ASSUME NEW f \in ConfigFiles, NEW skipJoin \in BOOLEAN, NEW port \in PortArgs,
         Accepts(f, skipJoin)
  PROVE  LET c == [skipJoin |-> skipJoin, config |-> ParseFromFile(f, port),
                   nodes |-> None]
         IN  c \in Cache /\ Complete(c)
  <1> DEFINE g == ParseFromFile(f, port)
  <1>1. f \in Config /\ port \in Nat \cup {None}
    BY LifecycleAssumption
  <1>2. g \in Config /\ g.port # None /\ g.beacon = f.beacon
    BY <1>1, NoneIsNone DEF ParseFromFile, Config
  <1> HIDE DEF g
  <1>3. [skipJoin |-> skipJoin, config |-> g, nodes |-> None] \in Cache
    BY <1>2 DEF Cache
  <1>4. Complete([skipJoin |-> skipJoin, config |-> g, nodes |-> None])
    BY <1>2 DEF Complete, Accepts
  <1> QED BY <1>3, <1>4 DEF g

\* Whatever a process does while it lives preserves the invariant.
LEMMA NextIInv == IInv /\ [Next]_vars => IInv'
  <1> SUFFICES ASSUME IInv, [Next]_vars PROVE IInv'
    OBVIOUS
  <1> USE Bounds, NoneIsNone
  <1>1. ASSUME NEW f \in ConfigFiles, NEW skipJoin \in BOOLEAN, NEW port \in PortArgs,
               LaunchFromConfig(f, skipJoin, port)
        PROVE  IInv'
    BY <1>1, ParsedIsComplete, LaunchIInv DEF LaunchFromConfig
  <1>2. CASE LaunchFromCache
    <2>1. file \in Cache /\ Complete(file) /\ Launch(file)
      BY <1>2 DEF LaunchFromCache, IInv, TypeOK
    <2> QED BY <2>1, LaunchIInv
  <1>3. CASE CreateNode
    BY <1>3 DEF CreateNode, memory, tasks, IInv, TypeOK, FileIsCache
  <1>4. CASE SkipJoin \/ Join
    <2>1. /\ Running /\ phase = "joining"
      BY <1>4 DEF SkipJoin, Join
    <2>2. /\ stage' \in [Tasks -> Stages]
          /\ \A t \in Tasks : stage'[t] # "write"
      BY <2>1 DEF Running, Tasks, Stages
    <2> QED BY <2>1, <2>2 DEF Running, memory, IInv, TypeOK, FileIsCache
  <1>5. CASE TableChanges
    <2>1. wedged' \in BOOLEAN
      BY <1>5 DEF TableChanges, IInv, TypeOK
    <2> QED BY <1>5, <2>1 DEF TableChanges, tasks, IInv, TypeOK, FileIsCache
  <1>6. CASE TableWedges
    <2>1. wedged' \in BOOLEAN
      BY <1>6 DEF TableWedges
    <2> QED BY <1>6, <2>1 DEF TableWedges, tasks, IInv, TypeOK, FileIsCache
  <1>7. CASE Fetch
    BY <1>7 DEF Fetch, Goto, IInv, TypeOK, FileIsCache, Tasks, Stages
  <1>8. ASSUME NEW t \in Tasks, NEW ok \in BOOLEAN, BeginSave(t, ok) PROVE IInv'
    <2>1. cache \in Cache /\ Complete(cache) /\ contacts \in Nat
      BY <1>8 DEF BeginSave, IInv, TypeOK
    <2>2. cache' \in Cache /\ Complete(cache')
      BY <1>8, <2>1 DEF BeginSave, Cache, Complete
    <2>3. /\ stage' \in [Tasks -> Stages]
          /\ \A u \in Tasks : stage'[u] = "write" => holder' = u
      BY <1>8 DEF BeginSave, Goto, After, IInv, TypeOK, Stages
    <2>4. faults' \in 0 .. MaxFaults
      BY <1>8 DEF BeginSave, Fault, IInv, TypeOK
    <2>5. /\ file' \in Cache \cup {Torn, None} /\ holder' \in Tasks \cup {None}
          /\ lastSave' \in {"ok", "failed", None}
          /\ file' \notin {Torn, None} => Complete(file')
      BY <1>8 DEF BeginSave, IInv, TypeOK, Complete
    <2>6. FileIsCache'
      BY <1>8 DEF BeginSave, FileIsCache
    <2>7. TypeOK'
      BY <1>8, <2>2, <2>3, <2>4, <2>5 DEF BeginSave, IInv, TypeOK
    <2> QED BY <1>8, <2>2, <2>5, <2>6, <2>7 DEF BeginSave, IInv, Complete
  <1>9. ASSUME NEW t \in Tasks, NEW ok \in BOOLEAN, EndSave(t, ok) PROVE IInv'
    <2>1. cache \in Cache /\ Complete(cache) /\ UNCHANGED memory
      BY <1>9 DEF EndSave, IInv
    <2>2. /\ stage' \in [Tasks -> Stages]
          /\ \A u \in Tasks : stage'[u] # "write"
      BY <1>9 DEF EndSave, Goto, After, IInv, TypeOK, Stages
    <2>3. faults' \in 0 .. MaxFaults
      BY <1>9 DEF EndSave, Fault, IInv, TypeOK
    <2>4. TypeOK'
      BY <1>9, <2>1, <2>2, <2>3 DEF EndSave, IInv, TypeOK, memory
    <2>5. FileIsCache'
      BY <1>9, <2>1 DEF EndSave, FileIsCache, memory
    <2> QED BY <1>9, <2>1, <2>4, <2>5 DEF EndSave, IInv, Complete, memory
  <1>10. CASE Wake
    BY <1>10 DEF Wake, Goto, memory, IInv, TypeOK, FileIsCache, Tasks, Stages
  <1>11. CASE Signal
    BY <1>11 DEF Signal, Goto, memory, IInv, TypeOK, FileIsCache, Tasks, Stages
  <1>12. CASE Exit
    BY <1>12 DEF Exit, memory, tasks, IInv, TypeOK, FileIsCache
  <1>13. CASE EndOfInput
    BY <1>13 DEF EndOfInput, memory, tasks, IInv, TypeOK, FileIsCache
  <1>14. CASE Die
    BY <1>14 DEF Die, memory, tasks, IInv, TypeOK, FileIsCache
  <1>15. CASE UNCHANGED vars
    BY <1>15 DEF vars, memory, tasks, IInv, TypeOK, FileIsCache
  <1> QED BY <1>1, <1>2, <1>3, <1>4, <1>5, <1>6, <1>7, <1>8, <1>9, <1>10, <1>11, <1>12,
             <1>13, <1>14, <1>15 DEF Next, SaveStep

\* The inductive invariant holds in every life of the node.
THEOREM Invariance == Spec => []IInv
  BY InitIInv, NextIInv, PTL DEF Spec

\* The errors of main.rs for a missing port (main.rs:65) and for a missing beacon
\* (main.rs:105-112) cannot occur, however often the node is relaunched from the cache.
THEOREM ConfigAlwaysComplete == Spec => []ConfigComplete
  <1>1. IInv => ConfigComplete
    BY DEF IInv, ConfigComplete, Complete
  <1> QED BY <1>1, Invariance, PTL

\* Unless the mutex of the cache is held, the cache file is the cache that was saved
\* last by this process (main.rs:135-150 and main.rs:161-167).
THEOREM FileFollowsCache == Spec => []FileIsCache
  <1>1. IInv => FileIsCache
    BY DEF IInv
  <1> QED BY <1>1, Invariance, PTL
=============================================================================
