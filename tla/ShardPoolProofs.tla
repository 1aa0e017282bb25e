-------------------------- MODULE ShardPoolProofs --------------------------
(***************************************************************************)
(* Proofs about ShardPool, for any number of shards and workers, threads   *)
(* or processes.                                                           *)
(***************************************************************************)
EXTENDS ShardPool, FiniteSetTheorems, WellFoundedInduction, TLAPS

-----------------------------------------------------------------------------
(* Types and the size of the pool.                                         *)

\* All of TypeOK but the size of the pool, and where the operator is after an
\* exception from outside.
Types ==
    /\ threads \in BOOLEAN /\ workers \in 1..MaxWorkers /\ skipIfExists \in BOOLEAN
    /\ operator \in {"submit", "wait", "cancel", "cancelFutures", "collect", "returning",
                     "failing", "returned", "raised"}
    /\ interrupts \in 0..2
    /\ operator \notin {"failing", "raised"} => interrupts = 0
    /\ operator = "failing" => interrupts < 2
    /\ submitted \in 0..NumShards
    /\ future \in [Shards -> Settled \cup {"pending", "running", "cancelled"}]
    /\ shard \in [Shards -> Phases]
    /\ cancel \in BOOLEAN /\ broken \in BOOLEAN
    /\ done \subseteq Shards /\ toCancel \subseteq Shards
    /\ present \subseteq Shards /\ put \subseteq present

Fits == Cardinality(Running) <= workers

LEMMA TypesAndFits == Types /\ Fits => TypeOK
BY DEF TypeOK, Types, Fits

\* The steps of the operator change nothing that the workers own.
LEMMA TypesOperator ==
    ASSUME Types, Operator \/ Interrupt
    PROVE  Types' /\ UNCHANGED <<config, shard, broken, present, put>>
<1> USE PoolAssumption DEF Types, ShardFrame, Settled, Shards
<1>1. CASE Submit
  BY <1>1 DEF Submit, config
<1>2. CASE WaitReturns
  BY <1>2 DEF WaitReturns, config
<1>3. CASE SetCancel
  BY <1>3 DEF SetCancel, config
<1>4. CASE CancelFuture
  BY <1>4 DEF CancelFuture, config
<1>5. CASE Drained \/ Collect
  <2>1. operator \notin {"failing", "raised"} /\ operator' \in {"returning", "failing"}
        /\ UNCHANGED <<interrupts, submitted, future, cancel, done, toCancel>> /\ ShardFrame
    BY <1>5, Zenon DEF Drained, Collect
  <2> QED  BY <2>1 DEF config
<1>6. CASE Shutdown
  BY <1>6 DEF Shutdown, config
<1>7. CASE Interrupt
  <2>1. interrupts' \in 0..2 /\ (operator' = "failing" => interrupts' < 2)
    BY <1>7 DEF Interrupt
  <2> QED  BY <1>7, <2>1 DEF Interrupt, config
<1> QED  BY <1>1, <1>2, <1>3, <1>4, <1>5, <1>6, <1>7 DEF Operator

LEMMA TypesPool ==
    ASSUME Types,
           BreakPool \/ \E s \in Shards : Drop(s) \/ HandOver(s) \/ Start(s)
    PROVE  Types' /\ UNCHANGED runVars
<1> USE DEF Types, runVars, config, Settled, Phases, Active
<1>1. CASE BreakPool
  <2>1. PICK landed \in SUBSET {s \in Shards : shard[s] = "committed"} :
            present' = present \cup landed /\ put' = put \cup landed
    BY <1>1 DEF BreakPool
  <2>2. present' \subseteq Shards /\ put' \subseteq present'
    BY <2>1
  <2>3. /\ future' \in [Shards -> Settled \cup {"pending", "running", "cancelled"}]
        /\ shard' \in [Shards -> Phases] /\ broken' \in BOOLEAN /\ UNCHANGED runVars
    BY <1>1 DEF BreakPool
  <2> QED  BY <2>2, <2>3
<1>2. ASSUME NEW s \in Shards, Drop(s) \/ HandOver(s) \/ Start(s)
      PROVE  Types' /\ UNCHANGED runVars
  BY <1>2 DEF Drop, HandOver, Start
<1> QED  BY <1>1, <1>2

LEMMA TypesWorker ==
    ASSUME Types, NEW s \in Shards, Worker(s)
    PROVE  Types' /\ UNCHANGED runVars
<1> USE DEF Types, runVars, config, Settled, Phases, Active, Goes
<1>1. CASE Probe(s)
  BY <1>1 DEF Probe
<1>2. CASE Work(s)
  BY <1>2 DEF Work
<1>3. CASE UploadShard(s)
  BY <1>3 DEF UploadShard
<1> QED  BY <1>1, <1>2, <1>3 DEF Worker

LEMMA TypesNext == Types /\ [Next]_vars => Types'
<1> SUFFICES ASSUME Types, [Next]_vars PROVE Types'
  OBVIOUS
<1>1. CASE UNCHANGED vars
  BY <1>1 DEF vars, runVars, config, Types, Shards
<1> QED  BY <1>1, TypesOperator, TypesPool, TypesWorker DEF Next, Terminated

\* A shard begins to run only in Start, when a worker is free.
LEMMA FitsNext == Types /\ Fits /\ [Next]_vars => Fits'
<1> SUFFICES ASSUME Types, Fits, [Next]_vars PROVE Fits'
  OBVIOUS
<1>1. IsFiniteSet(Running) /\ Cardinality(Running) \in Nat
  <2>1. IsFiniteSet(Shards)
    BY PoolAssumption, FS_Interval DEF Shards
  <2>2. Running \in SUBSET Shards
    BY DEF Running
  <2>3. IsFiniteSet(Running)
    BY <2>1, <2>2, FS_Subset
  <2> QED  BY <2>3, FS_CardinalityType
<1>2. workers' = workers /\ workers \in Nat
  <2>1. workers' = workers
    BY TypesOperator, TypesPool, TypesWorker DEF Next, runVars, config, vars, Terminated
  <2> QED  BY <2>1, PoolAssumption DEF Types
<1>3. CASE Running' \subseteq Running
  <2>1. Cardinality(Running') <= Cardinality(Running) /\ Cardinality(Running') \in Nat
    BY <1>1, <1>3, FS_Subset, FS_CardinalityType
  <2> QED  BY <1>1, <1>2, <2>1 DEF Fits
<1>4. ASSUME NEW s \in Shards, Start(s) PROVE Fits'
  <2>1. Running' = Running \cup {s}
    BY <1>4 DEF Start, Running, Types, Active
  <2>2. Cardinality(Running) < workers
    BY <1>4 DEF Start
  <2>3. Cardinality(Running \cup {s}) <= Cardinality(Running) + 1
        /\ Cardinality(Running \cup {s}) \in Nat
    <3>1. /\ IsFiniteSet(Running \cup {s})
          /\ Cardinality(Running \cup {s}) =
                IF s \in Running THEN Cardinality(Running) ELSE Cardinality(Running) + 1
      BY <1>1, FS_AddElement, Zenon
    <3>2. Cardinality(Running \cup {s}) \in Nat
      BY <3>1, FS_CardinalityType, Zenon
    <3> QED  BY <1>1, <3>1, <3>2
  <2> QED  BY <1>1, <1>2, <2>1, <2>2, <2>3 DEF Fits
<1>5. ASSUME NEW s \in Shards, Drop(s) \/ HandOver(s) \/ Worker(s)
      PROVE  Running' \subseteq Running
  BY <1>5 DEF Drop, HandOver, Worker, Probe, Work, UploadShard, Goes, Running, Types, Active
<1>6. CASE BreakPool
  BY <1>3, <1>6 DEF BreakPool, Running, Types, Active
<1>7. CASE Operator \/ Interrupt
  BY <1>3, <1>7, TypesOperator DEF Running
<1>8. CASE UNCHANGED vars
  BY <1>3, <1>8 DEF vars, Running
<1> QED  BY <1>3, <1>4, <1>5, <1>6, <1>7, <1>8 DEF Next, Terminated

LEMMA TypesInit == Init => Types /\ Fits
<1> SUFFICES ASSUME Init PROVE Types /\ Fits
  OBVIOUS
<1>1. Types
  <2>1. /\ future \in [Shards -> Settled \cup {"pending", "running", "cancelled"}]
        /\ shard \in [Shards -> Phases]
    BY DEF Init, Settled, Phases
  <2>2. submitted \in 0..NumShards /\ present \subseteq Shards
    BY PoolAssumption DEF Init
  <2>3. interrupts \in 0..2 /\ operator = "submit" /\ interrupts = 0
    BY DEF Init
  <2> QED  BY <2>1, <2>2, <2>3 DEF Init, Types
<1>2. Running = {}
  BY DEF Init, Running, Active
<1> QED  BY <1>1, <1>2, FS_EmptySet DEF Fits, Init

\* Type correctness; among it, that the pool never runs more shards at a time than
\* it has workers.
THEOREM TypeCorrect == Spec => []TypeOK
<1>1. Types /\ Fits /\ [Next]_vars => (Types /\ Fits)'
  BY TypesNext, FitsNext
<1> QED  BY TypesInit, TypesAndFits, <1>1, PTL DEF Spec

-----------------------------------------------------------------------------
(* What the futures, the shards and the operator know of each other.       *)

Answered == {"uploaded", "empty", "skipped", "cancelled"}

\* A future has the result of its shard, a shard runs only under a running
\* future, and its answer is true of the store.
Agrees(s) ==
    /\ future[s] = "none" <=> s > submitted
    /\ future[s] = "result" <=> shard[s] \in Answered
    /\ shard[s] \in Active => future[s] = "running"
    /\ future[s] \in {"none", "pending", "cancelled", "dropped"} => shard[s] = "idle"
    /\ shard[s] = "uploaded" => s \in put
    /\ shard[s] = "skipped" => s \in present
    /\ shard[s] = "cancelled" => cancel

\* The operator's position tells what has become of the futures: none is
\* cancelled on the way to a success, and that way is taken with results only.
Positions ==
    /\ operator \in {"submit", "wait", "cancel", "collect", "returning", "returned"} =>
          ~cancel /\ \A s \in Shards : future[s] \notin {"cancelled", "dropped"}
    /\ operator \in {"wait", "collect", "returning", "returned"} => submitted = NumShards
    /\ operator \in {"collect", "returning", "returned"} =>
          \A s \in Shards : future[s] = "result"

Inv == Types /\ (\A s \in Shards : Agrees(s)) /\ Positions

LEMMA InvInit == Init => Inv
<1> SUFFICES ASSUME Init PROVE Inv
  OBVIOUS
<1>1. \A s \in Shards : Agrees(s)
  BY PoolAssumption DEF Init, Agrees, Answered, Active, Shards
<1>2. Positions
  BY DEF Init, Positions
<1> QED  BY <1>1, <1>2, TypesInit DEF Inv

LEMMA InvOperator ==
    ASSUME Inv, Operator \/ Interrupt
    PROVE  (\A s \in Shards : Agrees(s)') /\ Positions'
<1>1. UNCHANGED <<shard, present, put>>
  BY TypesOperator DEF Inv
<1> USE PoolAssumption, <1>1 DEF Inv, Types, Shards
<1>2. CASE Submit
  BY <1>2 DEF Submit, Agrees, Positions, Answered, Active
<1>3. CASE WaitReturns
  <2>1. \A s \in Shards : Agrees(s)'
    BY <1>3 DEF WaitReturns, Agrees
  <2>2. operator = "wait" /\ operator' \in {"cancel", "collect"}
        /\ UNCHANGED <<submitted, future, cancel>>
    BY <1>3 DEF WaitReturns
  <2>3. ASSUME operator' = "collect", NEW s \in Shards PROVE future[s] = "result"
    <3>1. \A t \in Shards : future[t] # "exception"
      BY <1>3, <2>3 DEF WaitReturns
    <3>2. future[s] \in Settled
      BY <1>3, <3>1 DEF WaitReturns
    <3>3. future[s] # "none" /\ future[s] # "dropped"
      BY <2>2 DEF Positions, Agrees
    <3> QED  BY <3>1, <3>2, <3>3 DEF Settled
  <2> QED  BY <2>1, <2>2, <2>3 DEF Positions
<1>4. CASE SetCancel
  BY <1>4 DEF SetCancel, Agrees, Positions
<1>5. CASE CancelFuture
  BY <1>5 DEF CancelFuture, Agrees, Positions, Answered, Active
<1>6. CASE Drained \/ Interrupt
  BY <1>6 DEF Drained, Interrupt, Agrees, Positions
<1>7. CASE Collect
  BY <1>7 DEF Collect, Agrees, Positions
<1>8. CASE Shutdown
  BY <1>8 DEF Shutdown, Agrees, Positions
<1> QED  BY <1>2, <1>3, <1>4, <1>5, <1>6, <1>7, <1>8 DEF Operator

LEMMA InvPool ==
    ASSUME Inv, BreakPool \/ \E t \in Shards : Drop(t) \/ HandOver(t) \/ Start(t)
    PROVE  (\A s \in Shards : Agrees(s)') /\ Positions'
<1>1. UNCHANGED runVars
  BY TypesPool DEF Inv
<1> USE <1>1 DEF Inv, Types, runVars
<1>2. CASE BreakPool
  BY <1>2 DEF BreakPool, Running, Agrees, Positions, Answered, Active
<1>3. ASSUME NEW t \in Shards, Drop(t) \/ HandOver(t) \/ Start(t)
      PROVE  (\A s \in Shards : Agrees(s)') /\ Positions'
  <2>1. future[t] \in {"pending", "cancelled"} \/ (future[t] = "running" /\ shard[t] = "idle")
    BY <1>3 DEF Drop, HandOver, Start, IsNext, HandedOver
  <2>2. \A s \in Shards : Agrees(s)'
    BY <1>3, <2>1 DEF Drop, HandOver, Start, Agrees, Answered, Active
  <2>3. Positions'
    BY <1>3, <2>1 DEF Drop, HandOver, Start, Positions, Settled
  <2> QED  BY <2>2, <2>3
<1> QED  BY <1>2, <1>3

LEMMA InvWorker ==
    ASSUME Inv, NEW t \in Shards, Worker(t)
    PROVE  (\A s \in Shards : Agrees(s)') /\ Positions'
<1>1. UNCHANGED runVars
  BY TypesWorker DEF Inv
<1> USE <1>1 DEF Inv, Types, runVars
<1>2. shard[t] \in Active /\ future[t] = "running"
  BY DEF Worker, Probe, Work, UploadShard, Active, Agrees
<1>3. \A s \in Shards : Agrees(s)'
  <2>1. CASE Probe(t)
    BY <1>2, <2>1 DEF Probe, Goes, Agrees, Answered, Active
  <2>2. CASE Work(t)
    BY <1>2, <2>2 DEF Work, Goes, Agrees, Answered, Active
  <2>3. CASE UploadShard(t)
    BY <1>2, <2>3 DEF UploadShard, Goes, Agrees, Answered, Active
  <2> QED  BY <2>1, <2>2, <2>3 DEF Worker
<1>4. future' \in {future, [future EXCEPT ![t] = "result"], [future EXCEPT ![t] = "exception"]}
  BY DEF Worker, Probe, Work, UploadShard, Goes
<1>5. Positions'
  BY <1>2, <1>4 DEF Positions, Settled
<1> QED  BY <1>3, <1>5

LEMMA InvNext == Inv /\ [Next]_vars => Inv'
<1> SUFFICES ASSUME Inv, [Next]_vars PROVE Inv'
  OBVIOUS
<1>1. Types'
  BY TypesNext DEF Inv
<1>2. (\A s \in Shards : Agrees(s)') /\ Positions'
  <2>1. CASE UNCHANGED vars
    BY <2>1 DEF vars, runVars, Inv, Agrees, Positions
  <2> QED  BY <2>1, InvOperator, InvPool, InvWorker DEF Next, Terminated
<1> QED  BY <1>1, <1>2 DEF Inv, Shards

-----------------------------------------------------------------------------

\* A list of results accounts for every shard, whatever has been cancelled,
\* skipped, killed or interrupted (_run_shards).
THEOREM ReturnsAreComplete == Spec => []ReturnIsComplete
<1>1. Inv => ReturnIsComplete
  <2> SUFFICES ASSUME Inv, operator = "returned", NEW s \in Shards
               PROVE  \/ shard[s] = "uploaded" /\ s \in put
                      \/ shard[s] = "skipped" /\ s \in present
                      \/ shard[s] = "empty"
    BY DEF ReturnIsComplete
  <2> QED  BY DEF Inv, Agrees, Positions, Answered
<1> QED  BY InvInit, InvNext, <1>1, PTL DEF Spec

AllSettled == \A s \in Shards : future[s] \in Settled

\* What has made sure that all futures are settled: the death of a worker process,
\* the way to the shutdown when no exception came from outside, or the shutdown.
Ends ==
    /\ \A s \in done : future[s] \in {"result", "exception"}
    /\ broken => AllSettled
    /\ operator = "failing" /\ interrupts = 0 => AllSettled
    /\ operator \in {"returned", "raised"} /\ interrupts < 2 => AllSettled

LEMMA EndsOperator ==
    ASSUME Inv, Ends, Operator \/ Interrupt
    PROVE  Ends'
<1> USE DEF Inv, Types, Ends
<1>1. broken' = broken
  BY TypesOperator
<1>2. CASE Submit
  <2>1. submitted' # submitted => future[submitted'] = "none"
    BY <1>2, PoolAssumption DEF Submit, Agrees, Shards
  <2> QED  BY <1>1, <1>2, <2>1 DEF Submit, AllSettled
<1>3. CASE WaitReturns \/ SetCancel
  BY <1>1, <1>3 DEF WaitReturns, SetCancel, AllSettled
<1>4. CASE CancelFuture
  BY <1>1, <1>4 DEF CancelFuture, AllSettled, Settled
<1>5. CASE Drained
  <2>1. AllSettled
    BY <1>5 DEF Drained, AllSettled, Settled
  <2> QED  BY <1>1, <1>5, <2>1 DEF Drained, AllSettled
<1>6. CASE Collect \/ Shutdown
  BY <1>1, <1>6 DEF Collect, Shutdown, Positions, AllSettled, Settled
<1>7. CASE Interrupt
  <2>1. operator = "returning" => AllSettled
    BY DEF Positions, AllSettled, Settled
  <2> QED  BY <1>1, <1>7, <2>1 DEF Interrupt, AllSettled
<1> QED  BY <1>2, <1>3, <1>4, <1>5, <1>6, <1>7 DEF Operator

LEMMA EndsNext == Inv /\ Ends /\ [Next]_vars => Ends'
<1> SUFFICES ASSUME Inv, Ends, [Next]_vars PROVE Ends'
  OBVIOUS
<1> USE DEF Inv, Types, Ends
<1>1. CASE UNCHANGED vars
  BY <1>1 DEF vars, runVars, AllSettled
<1>2. CASE BreakPool
  <2>1. /\ UNCHANGED runVars /\ AllSettled'
        /\ \A s \in done : future'[s] \in {"result", "exception"}
    BY <1>2 DEF BreakPool, AllSettled, Settled
  <2> QED  BY <2>1 DEF runVars
<1>3. ASSUME NEW t \in Shards, Drop(t) \/ HandOver(t) \/ Start(t) PROVE Ends'
  <2>1. /\ future[t] \in {"pending", "cancelled", "running"} /\ broken' = broken /\ ~broken
        /\ \E state \in {"dropped", "running"} : future' = [future EXCEPT ![t] = state]
    BY <1>3 DEF Drop, HandOver, Start, IsNext, HandedOver
  <2>2. ~AllSettled /\ t \notin done
    BY <2>1 DEF AllSettled, Settled
  <2> QED  BY <1>3, <2>1, <2>2, TypesPool DEF runVars
<1>4. ASSUME NEW t \in Shards, Worker(t) PROVE Ends'
  <2>1. /\ shard[t] \in Active /\ broken' = broken /\ ~broken
        /\ future' = future \/ \E state \in {"result", "exception"} :
              future' = [future EXCEPT ![t] = state]
    BY <1>4 DEF Worker, Probe, Work, UploadShard, Active, Goes
  <2>2. ~AllSettled /\ t \notin done
    BY <2>1 DEF Agrees, AllSettled, Settled
  <2> QED  BY <1>4, <2>1, <2>2, TypesWorker DEF runVars
<1> QED  BY <1>1, <1>2, <1>3, <1>4, EndsOperator DEF Next, Terminated

\* No shard runs or waits in the queue when _run_shards has ended (the finally
\* with pool.shutdown(wait=True)), wherever an exception from outside has come, as
\* long as no second one has ended the wait of the shutdown.
THEOREM RunEndsAlone == Spec => []NothingOutlivesRun
<1>1. Init => Ends
  BY DEF Init, Ends
<1>2. Inv /\ Ends => NothingOutlivesRun
  BY DEF Inv, Ends, AllSettled, Agrees, NothingOutlivesRun, Running, Settled, Active
<1> QED  BY InvInit, InvNext, EndsNext, <1>1, <1>2, PTL DEF Spec

-----------------------------------------------------------------------------
(* The contract of the shards.                                             *)

\* Initially.
LEMMA ContractInit == Init => \A s \in Shards : ShardOf(s)!Init
BY DEF Init, ShardOf!Init, ContractPhase

\* The operator touches a shard only through the cancel event.
LEMMA ContractOperator ==
    ASSUME Inv, Operator \/ Interrupt, NEW s \in Shards
    PROVE  ShardOf(s)!Next \/ UNCHANGED ShardOf(s)!vars
<1>1. UNCHANGED <<shard, put>>
  BY TypesOperator DEF Inv
<1>2. UNCHANGED cancel \/ cancel' = TRUE
  BY DEF Operator, Interrupt, Submit, WaitReturns, SetCancel, CancelFuture, Drained, Collect,
     Shutdown, Inv, Types, Positions
<1> QED  BY <1>1, <1>2 DEF ShardOf!Next, ShardOf!Cancel, ShardOf!vars, ContractPhase

\* The pool lets shards start, which the contract does not see, and may kill them.
LEMMA ContractPool ==
    ASSUME Inv, NEW s \in Shards,
           BreakPool \/ \E t \in Shards : Drop(t) \/ HandOver(t) \/ Start(t)
    PROVE  ShardOf(s)!Next \/ UNCHANGED ShardOf(s)!vars
<1>1. UNCHANGED cancel
  BY TypesPool DEF Inv, runVars
<1>2. ASSUME NEW t \in Shards, Drop(t) \/ HandOver(t) \/ Start(t)
      PROVE  UNCHANGED ShardOf(s)!vars
  <2>1. UNCHANGED put /\ (shard'[s] = shard[s] \/ (shard[s] = "idle" /\ shard'[s] = "probe"))
    BY <1>2 DEF Drop, HandOver, Start, HandedOver, IsNext, Inv, Types, Agrees
  <2> QED  BY <1>1, <2>1 DEF ShardOf!vars, ContractPhase
<1>3. ASSUME BreakPool PROVE ShardOf(s)!Next \/ UNCHANGED ShardOf(s)!vars
  <2>1. PICK landed \in SUBSET {t \in Shards : shard[t] = "committed"} : put' = put \cup landed
    BY <1>3 DEF BreakPool
  <2>2. shard'[s] = IF s \in Running THEN "killed" ELSE shard[s]
    BY <1>3 DEF BreakPool
  <2>3. CASE s \notin Running
    BY <1>1, <2>1, <2>2, <2>3 DEF ShardOf!vars, ContractPhase, Running, Active
  <2>4. CASE s \in Running /\ shard[s] = "committed"
    BY <1>1, <2>1, <2>2, <2>4 DEF ShardOf!Next, ShardOf!Upload, ContractPhase
  <2>5. CASE s \in Running /\ shard[s] # "committed"
    BY <1>1, <2>1, <2>2, <2>5 DEF ShardOf!Next, ShardOf!AnswerRaised, ShardOf!Answers,
       ContractPhase, Running, Active
  <2> QED  BY <2>3, <2>4, <2>5
<1> QED  BY <1>2, <1>3

\* A step of a shard is one of the contract, and no step of another shard.
LEMMA ContractWorker ==
    ASSUME Inv, NEW s \in Shards, NEW t \in Shards, Worker(t)
    PROVE  ShardOf(s)!Next \/ UNCHANGED ShardOf(s)!vars
<1>1. UNCHANGED cancel
  BY TypesWorker DEF Inv, runVars
<1> USE DEF Goes, Inv, Types, ContractPhase
<1>2. CASE s # t
  <2>1. shard'[s] = shard[s] /\ (s \in put' <=> s \in put)
    BY <1>2 DEF Worker, Probe, Work, UploadShard
  <2> QED  BY <1>1, <2>1 DEF ShardOf!vars
<1>3. CASE s = t /\ Probe(s)
  <2>1. UNCHANGED put /\ shard[s] = "probe" /\ shard'[s] \in {"raised", "working", "skipped"}
    BY <1>3 DEF Probe
  <2> QED  BY <1>1, <2>1 DEF ShardOf!Next, ShardOf!AnswerRaised, ShardOf!Answers, ShardOf!vars
<1>4. CASE s = t /\ Work(s)
  <2>1. /\ UNCHANGED put /\ shard[s] = "working"
        /\ \/ shard'[s] = "raised"
           \/ cancel /\ shard'[s] = "cancelled"
           \/ ~cancel /\ shard'[s] = "committed"
    BY <1>4 DEF Work
  <2> QED  BY <1>1, <2>1 DEF ShardOf!Next, ShardOf!AnswerRaised, ShardOf!Answers,
              ShardOf!AnswerCancelled, ShardOf!Commit
<1>5. CASE s = t /\ UploadShard(s)
  <2>1. /\ shard[s] = "committed"
        /\ \/ shard'[s] \in {"empty", "raised"} /\ UNCHANGED put
           \/ shard'[s] \in {"uploaded", "raised"} /\ put' = put \cup {s}
    BY <1>5 DEF UploadShard
  <2> QED  BY <1>1, <2>1 DEF ShardOf!Next, ShardOf!AnswerRaised, ShardOf!Answers,
              ShardOf!AnswerEmpty, ShardOf!Upload
<1> QED  BY <1>2, <1>3, <1>4, <1>5 DEF Worker

\* Every shard of the pool behaves as ShardContract allows, step by step: what
\* ShardPipelineProofs shows of `ShardWorker.run` is what the pool relies on.
THEOREM ShardsImplementContract == Spec => ShardsKeepContract
<1>1. Inv /\ [Next]_vars => [\A s \in Shards : ShardOf(s)!Next \/ UNCHANGED ShardOf(s)!vars]_vars
  BY ContractOperator, ContractPool, ContractWorker DEF Next, Terminated
<1> QED  BY InvInit, InvNext, ContractInit, <1>1, PTL DEF Spec, ShardsKeepContract

-----------------------------------------------------------------------------
(* Somebody always goes on.                                                *)

\* Every set of numbers of shards but the empty one has a first one.
LEMMA FirstExists ==
    ASSUME NEW T, T \subseteq Shards, T # {}
    PROVE  \E m \in T : \A k \in T : m <= k
<1> DEFINE R == OpToRel(<, Nat)
<1>1. IsWellFoundedOn(R, Nat)
  BY NatLessThanWellFounded, Zenon
<1>2. \A x, y \in Nat : <<x, y>> \in R <=> x < y
  BY DEF OpToRel
<1>3. T \subseteq Nat
  BY PoolAssumption DEF Shards
<1> HIDE DEF R
<1>4. PICK m \in T : \A k \in T : ~(<<k, m>> \in R)
  BY <1>1, <1>3, WFMin, Zenon
<1>5. \A x, y \in Nat : ~(x < y) => y <= x
  OBVIOUS
<1> QED  BY <1>2, <1>3, <1>4, <1>5

\* A step of the library or of a shard that is possible now.
CanGo(s) ==
    \/ shard[s] \in Active
    \/ IsNext(s) /\ future[s] = "cancelled" /\ (threads => Cardinality(Running) < workers)
    \/ ~threads /\ IsNext(s) /\ future[s] = "pending" /\ Cardinality(HandedOver) < Lookahead
    \/ /\ IF threads THEN IsNext(s) /\ future[s] = "pending"
                     ELSE s \in HandedOver /\ \A t \in HandedOver : s <= t
       /\ Cardinality(Running) < workers

\* As long as a future is open, wait() and shutdown() do not wait for nothing.
OpenIsServed ==
    (\E s \in Shards : future[s] \notin Settled) => ~broken /\ \E s \in Shards : CanGo(s)

\* A running future has its call or, in the call queue, will have it.
Served ==
    \A s \in Shards : future[s] = "running" =>
        shard[s] \in Active \/ (~threads /\ shard[s] = "idle")

LEMMA ServedNext == Inv /\ Served /\ [Next]_vars => Served'
<1> SUFFICES ASSUME Inv, Served, [Next]_vars PROVE Served'
  OBVIOUS
<1> USE DEF Inv, Types, Served
<1>1. CASE Operator \/ Interrupt
  <2>1. UNCHANGED <<shard, broken, threads>>
    BY <1>1, TypesOperator DEF config
  <2>2. CASE Submit
    BY <2>1, <2>2, PoolAssumption DEF Submit, Shards
  <2>3. CASE CancelFuture
    BY <2>1, <2>3 DEF CancelFuture, Settled
  <2>4. CASE future' = future
    BY <2>1, <2>4
  <2> QED  BY <1>1, <2>2, <2>3, <2>4 DEF Operator, Interrupt, WaitReturns, SetCancel, Drained,
              Collect, Shutdown
<1>2. CASE BreakPool
  BY <1>2 DEF BreakPool
<1>3. ASSUME NEW t \in Shards, Drop(t) \/ HandOver(t) \/ Start(t) PROVE Served'
  <2>1. UNCHANGED <<broken, threads>> /\ ~broken
    BY <1>3 DEF Drop, HandOver, Start, runVars, config
  <2> QED  BY <1>3, <2>1 DEF Drop, HandOver, Start, IsNext, Agrees, Active
<1>4. ASSUME NEW t \in Shards, Worker(t) PROVE Served'
  <2>1. UNCHANGED <<broken, threads>> /\ ~broken
    BY <1>4 DEF Worker, Probe, Work, UploadShard, runVars, config
  <2> QED  BY <1>4, <2>1 DEF Worker, Probe, Work, UploadShard, Goes, Active
<1>5. CASE UNCHANGED vars
  BY <1>5 DEF vars, runVars, config
<1> QED  BY <1>1, <1>2, <1>3, <1>4, <1>5 DEF Next, Terminated

LEMMA ServedNow == Inv /\ Ends /\ Served => OpenIsServed
<1> SUFFICES ASSUME Inv, Ends, Served, NEW s \in Shards, future[s] \notin Settled,
                    \A t \in Shards : shard[t] \notin Active
             PROVE  ~broken /\ \E t \in Shards : CanGo(t)
  BY DEF OpenIsServed, CanGo, Ends, AllSettled
<1>1. ~broken /\ future[s] \in {"pending", "running", "cancelled"}
  BY DEF Ends, AllSettled, Inv, Types
<1>2. Running = {}
  BY DEF Running
<1>3. Cardinality(Running) = 0 /\ workers \in Nat /\ workers > 0
  BY <1>2, FS_EmptySet, PoolAssumption DEF Inv, Types
<1>4. CASE HandedOver # {} /\ ~threads
  <2>1. PICK t \in HandedOver : \A u \in HandedOver : t <= u
    <3>1. HandedOver \subseteq Shards
      BY DEF HandedOver
    <3> QED  BY <1>4, <3>1, FirstExists
  <2> QED  BY <1>1, <1>3, <1>4, <2>1 DEF CanGo, HandedOver
<1>5. CASE HandedOver = {} \/ threads
  <2> DEFINE Waiting == {t \in Shards : future[t] \in {"pending", "cancelled"}}
  <2>1. s \in Waiting
    BY <1>1, <1>5 DEF Served, HandedOver
  <2>2. PICK t \in Waiting : \A u \in Waiting : t <= u
    BY <2>1, FirstExists
  <2>3. IsNext(t)
    <3>1. \A u \in 1..(t - 1) : u \in Shards /\ u < t
      BY <2>2, PoolAssumption DEF Shards
    <3>2. \A u \in Waiting : ~(u < t)
      BY <2>2, PoolAssumption DEF Shards
    <3> QED  BY <2>2, <3>1, <3>2 DEF IsNext
  <2>4. ~threads => Cardinality(HandedOver) < Lookahead
    BY <1>3, <1>5, FS_EmptySet DEF Lookahead
  <2> QED  BY <1>1, <1>3, <2>2, <2>3, <2>4 DEF CanGo
<1> QED  BY <1>4, <1>5

\* While a future is open the pool can drop, start or go on with a shard, whatever was
\* cancelled and whoever has died: none of the operator's three waits (`wait`, `wait`
\* again after the cancellation, `shutdown`) is for nothing.
THEOREM PoolNeverStalls == Spec => []OpenIsServed
<1>1. Init => Ends /\ Served
  BY DEF Init, Ends, Served
<1> QED  BY InvInit, InvNext, EndsNext, ServedNext, ServedNow, <1>1, PTL DEF Spec
=============================================================================
