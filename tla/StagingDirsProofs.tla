------------------------- MODULE StagingDirsProofs -------------------------
(***************************************************************************)
(* Proofs about StagingDirs, for any number of exports, directories and    *)
(* faults and a day of any length.                                         *)
(***************************************************************************)
EXTENDS StagingDirs, TLAPS

\* An export without a shard has no directory, and a name that is not in use has
\* no age.
Idle ==
    /\ \A e \in Exports : at[e] \in {"idle", "clean", "remove"} <=> dir[e] = None
    /\ \A e \in Exports : dir[e] = None => life[e] = 0 /\ ~rows[e]
    /\ \A d \in Dirs : d \notin there => age[d] = 0

\* As long as a shard has not run for more than a day its directory has not been
\* left alone for longer, and no cleaner has it in mind.
Young ==
    \A e \in Exports : dir[e] # None /\ life[e] <= Day =>
        /\ age[dir[e]] <= life[e]
        /\ \A f \in Exports : dir[e] \notin aged[f] /\ old[f] # dir[e]

Inv == TypeOK /\ Idle /\ Young /\ SafeForADay

LEMMA InvInit == Init => Inv
<1> SUFFICES ASSUME Init PROVE Inv
  OBVIOUS
<1>1. TypeOK       BY StagingAssumption DEF Init, TypeOK, None, Exports
<1>2. Idle         BY DEF Init, Idle
<1>3. Young        BY DEF Init, Young
<1>4. SafeForADay  BY DEF Init, SafeForADay
<1> QED  BY <1>1, <1>2, <1>3, <1>4 DEF Inv

-----------------------------------------------------------------------------
(* The removal of a directory.                                             *)

\* What the removal of d may do to the rest.
Spares(d) ==
    /\ aged' \in [Exports -> SUBSET Dirs]
    /\ \A e \in Exports : aged'[e] \subseteq aged[e] \cap there'
    /\ there' \subseteq there /\ file' \subseteq file /\ file' \subseteq there'
    /\ age' \in [Dirs -> 0..Day + 1] /\ faults' \in 0..MaxFaults
    /\ \A c \in Dirs \ {d} : /\ c \in there => c \in there'
                             /\ c \in file => c \in file'
    /\ \A c \in Dirs : age'[c] = age[c] \/ age'[c] = 0
    /\ d \in there /\ d \notin there' => age'[d] = 0

\* It spares the other directories, and what it leaves of d has a new age.
LEMMA GoneSpares ==
    ASSUME TypeOK, NEW d \in Dirs, Gone(d) PROVE Spares(d)
<1> USE StagingAssumption DEF TypeOK, Spares
<1>1. CASE UNCHANGED <<aged, disk>> /\ (UNCHANGED faults \/ Fault)
  BY <1>1 DEF disk, Fault
<1>2. CASE Removed(d) /\ UNCHANGED faults
  BY <1>2 DEF Removed, Touched
<1>3. CASE Fault /\ file' = file \ {d} /\ Touched(d) /\ UNCHANGED there
  BY <1>3 DEF Touched, Fault
<1> QED  BY <1>1, <1>2, <1>3 DEF Gone, RmTree

-----------------------------------------------------------------------------
(* Types.                                                                  *)

\* The first free name is nobody's, as an item of a listing, as a directory about
\* to be removed or as that of a shard.
LEMMA FreshIsNew ==
    ASSUME NEW d \in Fresh
    PROVE  /\ d \in Dirs \ there
           /\ \A f \in Exports : d \notin todo[f] /\ d # old[f] /\ d # dir[f]
BY DEF Fresh

LEMMA TypeNext == TypeOK /\ [Next]_vars => TypeOK'
<1> SUFFICES ASSUME TypeOK, [Next]_vars PROVE TypeOK'
  OBVIOUS
<1> USE StagingAssumption DEF TypeOK, Goes, None
<1>1. CASE Tick
  BY <1>1 DEF Tick, Later
<1>2. ASSUME NEW e \in Exports, StartExport(e) PROVE TypeOK'
  BY <1>2 DEF StartExport, Old, disk
<1>3. ASSUME NEW e \in Exports, CleanAbort(e) PROVE TypeOK'
  BY <1>3 DEF CleanAbort, Fault, disk
<1>4. ASSUME NEW e \in Exports, NEW d \in Dirs, CleanLook(e, d) PROVE TypeOK'
  BY <1>4 DEF CleanLook, disk
<1>5. ASSUME NEW e \in Exports, NEW d \in Dirs, CleanRemove(e, d) PROVE TypeOK'
  <2>1. Spares(d)
    BY <1>5, GoneSpares DEF CleanRemove
  <2> QED  BY <1>5, <2>1 DEF CleanRemove, Spares
<1>6. ASSUME NEW e \in Exports, MakeDir(e) PROVE TypeOK'
  <2>1. CASE Goes(e, "idle") /\ UNCHANGED <<dir, there>>
    BY <1>6, <2>1 DEF MakeDir
  <2>2. ASSUME NEW d \in Fresh, there' = there \cup {d}, dir' = [dir EXCEPT ![e] = d],
               Goes(e, "fetch")
        PROVE  TypeOK'
    BY <1>6, <2>2, FreshIsNew DEF MakeDir
  <2> QED  BY <1>6, <2>1, <2>2 DEF MakeDir
<1>7. ASSUME NEW e \in Exports, OpenWriter(e) PROVE TypeOK'
  BY <1>7 DEF OpenWriter, Touched
<1>8. ASSUME NEW e \in Exports, LookForFile(e) \/ UploadFile(e) \/ Fail(e) PROVE TypeOK'
  BY <1>8 DEF LookForFile, UploadFile, Fail, disk
<1>9. ASSUME NEW e \in Exports, Cleanup(e) PROVE TypeOK'
  <2>1. dir[e] \in Dirs => Spares(dir[e])
    BY <1>9, GoneSpares DEF Cleanup
  <2>2. dir[e] \notin Dirs => UNCHANGED <<aged, disk, faults>>
    BY <1>9 DEF Cleanup, Gone
  <2> QED  BY <1>9, <2>1, <2>2 DEF Cleanup, Spares, Forget, disk
<1>10. ASSUME NEW e \in Exports, Kill(e) PROVE TypeOK'
  BY <1>10 DEF Kill, Forget, Fault, disk
<1>11. CASE UNCHANGED vars
  BY <1>11 DEF vars, disk
<1> QED  BY <1>1, <1>2, <1>3, <1>4, <1>5, <1>6, <1>7, <1>8, <1>9, <1>10, <1>11
         DEF Next, Cleaner, Shard

-----------------------------------------------------------------------------
(* The day of a shard.                                                     *)

LEMMA IdleNext == TypeOK /\ Idle /\ [Next]_vars => Idle'
<1> SUFFICES ASSUME TypeOK, Idle, [Next]_vars PROVE Idle'
  OBVIOUS
<1> USE StagingAssumption DEF TypeOK, Idle, Goes, None
<1>1. CASE Tick
  BY <1>1 DEF Tick
<1>2. ASSUME NEW e \in Exports, StartExport(e) PROVE Idle'
  BY <1>2 DEF StartExport, disk
<1>3. ASSUME NEW e \in Exports, CleanAbort(e) PROVE Idle'
  BY <1>3 DEF CleanAbort, disk
<1>4. ASSUME NEW e \in Exports, NEW d \in Dirs, CleanLook(e, d) PROVE Idle'
  BY <1>4 DEF CleanLook, disk
<1>5. ASSUME NEW e \in Exports, NEW d \in Dirs, CleanRemove(e, d) PROVE Idle'
  <2>1. Spares(d)
    BY <1>5, GoneSpares DEF CleanRemove
  <2> QED  BY <1>5, <2>1 DEF CleanRemove, Spares
<1>6. ASSUME NEW e \in Exports, MakeDir(e) PROVE Idle'
  <2>1. CASE Goes(e, "idle") /\ UNCHANGED <<dir, there>>
    BY <1>6, <2>1 DEF MakeDir
  <2>2. ASSUME NEW d \in Fresh, there' = there \cup {d}, dir' = [dir EXCEPT ![e] = d],
               Goes(e, "fetch")
        PROVE  Idle'
    BY <1>6, <2>2, FreshIsNew DEF MakeDir, Dirs
  <2> QED  BY <1>6, <2>1, <2>2 DEF MakeDir
<1>7. ASSUME NEW e \in Exports, OpenWriter(e) PROVE Idle'
  BY <1>7 DEF OpenWriter, Touched
<1>8. ASSUME NEW e \in Exports, LookForFile(e) \/ UploadFile(e) \/ Fail(e) PROVE Idle'
  BY <1>8 DEF LookForFile, UploadFile, Fail, disk
<1>9. ASSUME NEW e \in Exports, Cleanup(e) PROVE Idle'
  <2>1. dir[e] \in Dirs => Spares(dir[e])
    BY <1>9, GoneSpares DEF Cleanup
  <2>2. dir[e] \notin Dirs => UNCHANGED <<aged, disk, faults>>
    BY <1>9 DEF Cleanup, Gone
  <2> QED  BY <1>9, <2>1, <2>2 DEF Cleanup, Spares, Forget, disk
<1>10. ASSUME NEW e \in Exports, Kill(e) PROVE Idle'
  BY <1>10 DEF Kill, Forget, disk
<1>11. CASE UNCHANGED vars
  BY <1>11 DEF vars, disk
<1> QED  BY <1>1, <1>2, <1>3, <1>4, <1>5, <1>6, <1>7, <1>8, <1>9, <1>10, <1>11
         DEF Next, Cleaner, Shard

\* The two conjuncts about a day, of one shard.
Safe(e) ==
    dir[e] # None /\ life[e] <= Day =>
        /\ age[dir[e]] <= life[e]
        /\ \A f \in Exports : dir[e] \notin aged[f] /\ old[f] # dir[e]
        /\ dir[e] \in there
        /\ rows[e] => dir[e] \in file /\ at[e] # "empty"

LEMMA SafeIsBoth == Young /\ SafeForADay <=> \A e \in Exports : Safe(e)
BY DEF Young, SafeForADay, Safe

LEMMA SafeNext ==
    ASSUME TypeOK, Idle, \A x \in Exports : Safe(x), [Next]_vars, TypeOK', NEW x \in Exports
    PROVE  Safe(x)'
<1> USE StagingAssumption DEF TypeOK, Idle, Safe, Goes, None
<1>1. CASE Tick
  BY <1>1 DEF Tick, Later
<1>2. ASSUME NEW e \in Exports, StartExport(e) PROVE Safe(x)'
  BY <1>2 DEF StartExport, Old, disk
<1>3. ASSUME NEW e \in Exports, CleanAbort(e) PROVE Safe(x)'
  BY <1>3 DEF CleanAbort, disk
<1>4. ASSUME NEW e \in Exports, NEW d \in Dirs, CleanLook(e, d) PROVE Safe(x)'
  BY <1>4 DEF CleanLook, disk
<1>5. ASSUME NEW e \in Exports, NEW d \in Dirs, CleanRemove(e, d) PROVE Safe(x)'
  <2> SUFFICES ASSUME dir[x] # None, life[x] <= Day PROVE Safe(x)'
    BY <1>5 DEF CleanRemove
  <2>1. Spares(d) /\ dir[x] \in Dirs \ {d}
    BY <1>5, GoneSpares DEF CleanRemove
  <2>2. dir'[x] = dir[x] /\ life'[x] = life[x] /\ rows'[x] = rows[x]
    BY <1>5 DEF CleanRemove
  <2>3. age'[dir[x]] <= life[x]
    <3>1. age'[dir[x]] = age[dir[x]] \/ age'[dir[x]] = 0
      BY <2>1 DEF Spares
    <3>2. age[dir[x]] <= life[x] /\ life[x] \in 0..Day + 1
      OBVIOUS
    <3> QED  BY <3>1, <3>2
  <2>4. \A f \in Exports : dir[x] \notin aged'[f] /\ old'[f] # dir[x]
    BY <1>5, <2>1 DEF CleanRemove, Spares
  <2>5. dir[x] \in there' /\ (rows[x] => dir[x] \in file' /\ at'[x] # "empty")
    BY <1>5, <2>1 DEF CleanRemove, Spares
  <2> QED  BY <2>2, <2>3, <2>4, <2>5
<1>6. ASSUME NEW e \in Exports, MakeDir(e) PROVE Safe(x)'
  <2>1. CASE Goes(e, "idle") /\ UNCHANGED <<dir, there>>
    BY <1>6, <2>1 DEF MakeDir
  <2>2. ASSUME NEW d \in Fresh, there' = there \cup {d}, dir' = [dir EXCEPT ![e] = d],
               Goes(e, "fetch")
        PROVE  Safe(x)'
    BY <1>6, <2>2, FreshIsNew DEF MakeDir
  <2> QED  BY <1>6, <2>1, <2>2 DEF MakeDir
<1>7. ASSUME NEW e \in Exports, OpenWriter(e) PROVE Safe(x)'
  BY <1>7 DEF OpenWriter, Touched
<1>8. ASSUME NEW e \in Exports, LookForFile(e) \/ UploadFile(e) \/ Fail(e) PROVE Safe(x)'
  BY <1>8 DEF LookForFile, UploadFile, Fail, disk
<1>9. ASSUME NEW e \in Exports, Cleanup(e) PROVE Safe(x)'
  <2>1. dir[e] \in Dirs /\ Spares(dir[e])
    BY <1>9, GoneSpares DEF Cleanup
  <2> QED  BY <1>9, <2>1 DEF Cleanup, Spares, Forget
<1>10. ASSUME NEW e \in Exports, Kill(e) PROVE Safe(x)'
  BY <1>10 DEF Kill, Forget, disk
<1>11. CASE UNCHANGED vars
  BY <1>11 DEF vars, disk
<1> QED  BY <1>1, <1>2, <1>3, <1>4, <1>5, <1>6, <1>7, <1>8, <1>9, <1>10, <1>11
         DEF Next, Cleaner, Shard

LEMMA InvNext == Inv /\ [Next]_vars => Inv'
<1> SUFFICES ASSUME Inv, [Next]_vars PROVE Inv'
  OBVIOUS
<1>1. TypeOK' /\ Idle'
  BY TypeNext, IdleNext DEF Inv
<1>2. \A e \in Exports : Safe(e)
  BY SafeIsBoth DEF Inv
<1>3. \A x \in Exports : Safe(x)'
  BY <1>1, <1>2, SafeNext DEF Inv
<1>4. (\A e \in Exports : Safe(e))'
  BY <1>3 DEF Exports
<1>5. Young' /\ SafeForADay'
  BY <1>4 DEF Young, SafeForADay, Safe
<1> QED  BY <1>1, <1>5 DEF Inv

-----------------------------------------------------------------------------

\* Type correctness; among it, that no two running shards share a directory.
THEOREM TypeCorrect == Spec => []TypeOK
<1>1. Inv => TypeOK
  BY DEF Inv
<1> QED  BY InvInit, InvNext, <1>1, PTL DEF Spec

\* However the cleaners of other exports interleave with a shard
\* (`_clean_old_tmp_dirs`), with whatever clock reading and listing, it keeps its
\* directory and its file for a day.
THEOREM DirectorySafeForADay == Spec => []SafeForADay
<1>1. Inv => SafeForADay
  BY DEF Inv
<1> QED  BY InvInit, InvNext, <1>1, PTL DEF Spec
=============================================================================
