------------------------- MODULE UploadRetryProofs -------------------------
(***************************************************************************)
(* Proofs about UploadRetry, for any number of writers, sizes of files,    *)
(* limits and retries.                                                     *)
(***************************************************************************)
EXTENDS UploadRetry, SequenceTheorems, TLAPS

\* An object of n blocks.
LEMMA BlocksAreSeq ==
    ASSUME NEW n \in Nat \ {0}, NEW f \in [1..n -> Writers]
    PROVE  f \in Seq(Writers) /\ Len(f) = n /\ f # <<>>
<1>1. f \in Seq(Writers)
  BY SeqDef
<1>2. Len(f) \in Nat /\ DOMAIN f = 1..Len(f)
  BY <1>1, LenProperties
<1>3. Len(f) = n
  BY <1>2
<1>4. Len(<<>>) = 0
  OBVIOUS
<1> QED  BY <1>1, <1>3, <1>4

\* The file of a writer is one.
LEMMA WholeIsSeq ==
    ASSUME TypeOK, NEW w \in Writers
    PROVE  Whole(w) \in Seq(Writers) /\ Len(Whole(w)) <= MaxBlocks /\ Whole(w) # <<>>
<1>1. size[w] \in Nat \ {0} /\ size[w] <= MaxBlocks
  BY UploadAssumption DEF TypeOK
<1>2. Whole(w) \in [1..size[w] -> Writers]
  BY DEF Whole
<1> QED  BY <1>1, <1>2, BlocksAreSeq

-----------------------------------------------------------------------------
(* Types.                                                                  *)

\* The retries of a writer that is under way are not used up.
Trying == \A w \in Writers : at[w] \in InFlight \cup {"idle"} => attempt[w] <= UploadRetries

Types == TypeOK /\ Trying

LEMMA TypesInit == Init => Types
<1> SUFFICES ASSUME Init PROVE Types
  OBVIOUS
<1>1. object \in Seq(Writers) /\ Len(object) <= MaxBlocks
  BY UploadAssumption DEF Init
<1>2. staged \in [1..MaxBlocks -> Writers \cup {Nobody}]
  BY DEF Init, NothingStaged
<1>3. /\ attempt \in [Writers -> 0..UploadRetries + 1]
      /\ next \in [Writers -> 0..MaxBlocks]
  BY UploadAssumption DEF Init
<1>4. Trying
  BY UploadAssumption DEF Init, Trying
<1> QED  BY <1>1, <1>2, <1>3, <1>4 DEF Init, Types, TypeOK, InFlight, Ended

States == InFlight \cup Ended \cup {"idle"}

\* The end of an attempt, one way or the other.
LEMMA AttemptEnds ==
    ASSUME Types, NEW w \in Writers, at[w] \in InFlight, Fails(w) \/ Returns(w)
    PROVE  /\ at' \in [Writers -> States]
           /\ attempt' \in [Writers -> 0..UploadRetries + 1]
           /\ Trying'
           /\ \A v \in Writers \ {w} : at'[v] = at[v]
           /\ at'[w] \in {"returned", "raised", "backoff"}
           /\ Fails(w) => at'[w] # "returned"
<1>1. /\ at \in [Writers -> States] /\ attempt \in [Writers -> 0..UploadRetries + 1]
      /\ UploadRetries \in Nat /\ attempt[w] \in 0..UploadRetries
  BY UploadAssumption DEF Types, TypeOK, Trying, States
<1>2. CASE Fails(w)
  <2>1. attempt' \in [Writers -> 0..UploadRetries + 1]
    BY <1>1, <1>2 DEF Fails
  <2>2. attempt'[w] = attempt[w] + 1 /\ \A v \in Writers \ {w} : attempt'[v] = attempt[v]
    BY <1>1, <1>2 DEF Fails
  <2>3. CASE attempt'[w] > UploadRetries
    <3>1. at' = [at EXCEPT ![w] = "raised"]
      BY <1>2, <2>3 DEF Fails
    <3>2. at' \in [Writers -> States] /\ at'[w] = "raised"
          /\ \A v \in Writers \ {w} : at'[v] = at[v]
      BY <1>1, <3>1 DEF States, Ended
    <3>3. Trying'
      BY <2>2, <3>2 DEF Types, Trying, InFlight
    <3> QED  BY <2>1, <3>2, <3>3
  <2>4. CASE ~(attempt'[w] > UploadRetries)
    <3>1. at' = [at EXCEPT ![w] = "backoff"]
      BY <1>2, <2>4 DEF Fails
    <3>2. at' \in [Writers -> States] /\ at'[w] = "backoff"
          /\ \A v \in Writers \ {w} : at'[v] = at[v]
      BY <1>1, <3>1 DEF States, InFlight
    <3>3. attempt'[w] <= UploadRetries
      BY <1>1, <2>2, <2>4
    <3>4. Trying'
      BY <2>2, <3>2, <3>3 DEF Types, Trying
    <3> QED  BY <2>1, <3>2, <3>4
  <2> QED  BY <2>3, <2>4
<1>3. CASE Returns(w) /\ ~Fails(w)
  <2>1. at' \in [Writers -> States] /\ at'[w] = "returned"
        /\ \A v \in Writers \ {w} : at'[v] = at[v]
    BY <1>1, <1>3 DEF Returns, States, Ended
  <2>2. attempt' = attempt
    BY <1>3 DEF Returns
  <2>3. Trying'
    BY <2>1, <2>2 DEF Types, Trying, InFlight
  <2> QED  BY <1>1, <1>3, <2>1, <2>2, <2>3
<1> QED  BY <1>2, <1>3

\* A writer that changes its state without a failure.
LEMMA StepTypes ==
    ASSUME Types, NEW w \in Writers, NEW s \in States, at' = [at EXCEPT ![w] = s],
           UNCHANGED attempt, at[w] \in InFlight \cup {"idle"}
    PROVE  /\ at' \in [Writers -> States]
           /\ attempt' \in [Writers -> 0..UploadRetries + 1]
           /\ Trying'
           /\ at'[w] = s /\ \A v \in Writers \ {w} : at'[v] = at[v]
<1>1. at \in [Writers -> States] /\ attempt \in [Writers -> 0..UploadRetries + 1]
  BY DEF Types, TypeOK, States
<1>2. /\ at' \in [Writers -> States]
      /\ at'[w] = s /\ \A v \in Writers \ {w} : at'[v] = at[v]
  BY <1>1
<1>3. Trying'
  BY <1>2 DEF Types, Trying
<1> QED  BY <1>1, <1>2, <1>3

\* What a put leaves.
LEMMA PutTypes ==
    ASSUME Types, NEW w \in Writers, PutObject(w)
    PROVE  /\ object' \in Seq(Writers) /\ Len(object') <= MaxBlocks
           /\ inBlocks' \in BOOLEAN /\ landed' \subseteq Writers
           /\ staged' \in [1..MaxBlocks -> Writers \cup {Nobody}]
           /\ UNCHANGED <<config, next, overlapped>> /\ (Fails(w) \/ Returns(w))
<1>1. CASE UNCHANGED store
  BY <1>1 DEF PutObject, store, Types, TypeOK
<1>2. CASE object' = Whole(w) /\ inBlocks' = FALSE /\ staged' = NothingStaged
           /\ landed' = landed \cup {w}
  BY <1>2, WholeIsSeq DEF PutObject, NothingStaged, Types, TypeOK
<1> QED  BY <1>1, <1>2 DEF PutObject

\* What a commit leaves.
LEMMA CommitTypes ==
    ASSUME Types, NEW w \in Writers, Commit(w)
    PROVE  /\ object' \in Seq(Writers) /\ Len(object') <= MaxBlocks
           /\ inBlocks' \in BOOLEAN /\ landed' \subseteq Writers
           /\ staged' \in [1..MaxBlocks -> Writers \cup {Nobody}]
           /\ UNCHANGED <<config, next, overlapped>> /\ (Fails(w) \/ Returns(w))
<1>1. CASE UNCHANGED store
  BY <1>1 DEF Commit, store, Types, TypeOK
<1>2. CASE /\ \A b \in 1..size[w] : Latest(b) # Nobody
           /\ object' = [b \in 1..size[w] |-> Latest(b)] /\ inBlocks' = TRUE
           /\ staged' = NothingStaged /\ landed' = landed \cup {w}
  <2>1. size[w] \in Nat \ {0} /\ size[w] <= MaxBlocks
    BY UploadAssumption DEF Types, TypeOK
  <2>2. ASSUME NEW b \in 1..size[w] PROVE Latest(b) \in Writers
    <3>1. Latest(b) # Nobody
      BY <1>2
    <3>2. CASE staged[b] # Nobody
      <4>1. staged[b] \in Writers
        BY <2>1, <3>2, UploadAssumption DEF Types, TypeOK
      <4> QED  BY <3>2, <4>1 DEF Latest
    <3>3. CASE staged[b] = Nobody
      <4>1. Latest(b) = object[b] /\ b \in 1..Len(object)
        BY <2>1, <3>1, <3>3 DEF Latest, Types, TypeOK
      <4> QED  BY <4>1, ElementOfSeq DEF Types, TypeOK
    <3> QED  BY <3>2, <3>3
  <2>3. object' \in [1..size[w] -> Writers]
    BY <1>2, <2>2
  <2>4. object' \in Seq(Writers) /\ Len(object') <= MaxBlocks /\ object' # <<>>
    BY <2>1, <2>3, BlocksAreSeq
  <2>5. Fails(w) \/ Returns(w)
    BY DEF Commit
  <2>6. UNCHANGED <<config, next, overlapped>>
    BY DEF Commit
  <2> QED  BY <1>2, <2>4, <2>5, <2>6 DEF NothingStaged, Types, TypeOK
<1> QED  BY <1>1, <1>2 DEF Commit

LEMMA TypesNext == Types /\ [Next]_vars => Types'
<1> SUFFICES ASSUME Types, [Next]_vars PROVE Types'
  OBVIOUS
<1> DEFINE Control == /\ at' \in [Writers -> States]
                      /\ attempt' \in [Writers -> 0..UploadRetries + 1] /\ Trying'
<1> DEFINE Stored == /\ object' \in Seq(Writers) /\ Len(object') <= MaxBlocks
                     /\ inBlocks' \in BOOLEAN /\ landed' \subseteq Writers
                     /\ staged' \in [1..MaxBlocks -> Writers \cup {Nobody}]
<1>a. ASSUME Control, Stored, UNCHANGED config, overlapped' \in BOOLEAN,
             next' \in [Writers -> 0..MaxBlocks]
      PROVE  Types'
  BY <1>a DEF config, Types, TypeOK, States
<1>b. UNCHANGED store => Stored
  BY DEF store, Types, TypeOK
<1>c. overlapped \in BOOLEAN /\ next \in [Writers -> 0..MaxBlocks]
  BY DEF Types, TypeOK
<1> HIDE DEF Control, Stored
<1>d. ASSUME NEW w \in Writers, at[w] \in InFlight, Fails(w) \/ Returns(w) PROVE Control
  BY <1>d, AttemptEnds DEF Control
<1>e. ASSUME NEW w \in Writers, NEW s \in States, at' = [at EXCEPT ![w] = s],
             UNCHANGED attempt, at[w] \in InFlight \cup {"idle"}
      PROVE  Control
  BY <1>e, StepTypes DEF Control
<1>f. UNCHANGED <<at, attempt>> => Control
  BY DEF Control, Types, TypeOK, Trying, States
<1>1. ASSUME NEW w \in Writers, Probe(w) PROVE Types'
  <2>1. Control
    BY <1>1, <1>e DEF Probe, States, InFlight, Ended
  <2> QED  BY <1>1, <2>1, <1>a, <1>b, <1>c DEF Probe
<1>2. ASSUME NEW w \in Writers, Attempt(w) PROVE Types'
  <2>0. at[w] \in InFlight /\ UNCHANGED <<config, store>>
    BY <1>2 DEF Attempt, InFlight
  <2>1. CASE Fails(w) /\ UNCHANGED <<next, overlapped>>
    BY <2>0, <2>1, <1>a, <1>b, <1>c, <1>d
  <2>2. CASE at' = [at EXCEPT ![w] = "put"] /\ UNCHANGED <<attempt, next, overlapped>>
    <3>1. Control
      BY <2>0, <2>2, <1>e DEF States, InFlight
    <3> QED  BY <2>0, <2>2, <3>1, <1>a, <1>b, <1>c
  <2>3. CASE /\ at' = [at EXCEPT ![w] = "stage"] /\ next' = [next EXCEPT ![w] = 0]
             /\ overlapped' = (overlapped \/ \E v \in Writers \ {w} : at[v] = "stage")
             /\ UNCHANGED attempt
    <3>1. Control
      BY <2>0, <2>3, <1>e DEF States, InFlight
    <3>2. next' \in [Writers -> 0..MaxBlocks]
      BY <2>3, <1>c, UploadAssumption
    <3>3. overlapped' \in BOOLEAN
      BY <2>3
    <3> QED  BY <2>0, <3>1, <3>2, <3>3, <1>a, <1>b
  <2> QED  BY <1>2, <2>1, <2>2, <2>3 DEF Attempt
<1>3. ASSUME NEW w \in Writers, PutBlob(w) \/ UploadFile(w) \/ UploadGcs(w) PROVE Types'
  <2>1. at[w] \in InFlight
    BY <1>3 DEF PutBlob, UploadFile, UploadGcs, InFlight
  <2>2. CASE PutObject(w)
    <3>1. Stored /\ UNCHANGED <<config, next, overlapped>> /\ (Fails(w) \/ Returns(w))
      BY <2>2, PutTypes DEF Stored
    <3> QED  BY <2>1, <3>1, <1>a, <1>c, <1>d
  <2>3. CASE Fails(w) /\ UNCHANGED <<config, next, store, overlapped>>
    BY <2>1, <2>3, <1>a, <1>b, <1>c, <1>d
  <2> QED  BY <1>3, <2>2, <2>3 DEF PutBlob, UploadFile, UploadGcs
<1>4. ASSUME NEW w \in Writers, StageBlock(w) PROVE Types'
  <2>1. at[w] \in InFlight /\ next[w] + 1 \in 1..MaxBlocks
    BY <1>4, UploadAssumption DEF StageBlock, InFlight, Types, TypeOK
  <2>2. staged' \in [1..MaxBlocks -> Writers \cup {Nobody}]
    <3>1. staged \in [1..MaxBlocks -> Writers \cup {Nobody}]
      BY DEF Types, TypeOK
    <3>2. staged' = [staged EXCEPT ![next[w] + 1] = w] \/ staged' = staged
      BY <1>4 DEF StageBlock
    <3> QED  BY <3>1, <3>2
  <2>3. next' \in [Writers -> 0..MaxBlocks]
    <3>1. next' = [next EXCEPT ![w] = @ + 1] \/ next' = next
      BY <1>4 DEF StageBlock
    <3> QED  BY <2>1, <3>1, <1>c, UploadAssumption
  <2>4. UNCHANGED <<config, object, inBlocks, landed, overlapped>>
    BY <1>4 DEF StageBlock
  <2>5. Stored
    BY <2>2, <2>4 DEF Stored, Types, TypeOK
  <2>6. Control
    <3>1. Fails(w) \/ UNCHANGED <<at, attempt>>
      BY <1>4 DEF StageBlock
    <3> QED  BY <2>1, <3>1, <1>d, <1>f
  <2> QED  BY <2>3, <2>4, <2>5, <2>6, <1>a, <1>c
<1>5. ASSUME NEW w \in Writers, Commit(w) PROVE Types'
  <2>1. at[w] \in InFlight
    BY <1>5 DEF Commit, InFlight
  <2>2. Stored /\ UNCHANGED <<config, next, overlapped>> /\ (Fails(w) \/ Returns(w))
    BY <1>5, CommitTypes DEF Stored
  <2> QED  BY <2>1, <2>2, <1>a, <1>c, <1>d
<1>6. ASSUME NEW w \in Writers, Wake(w) PROVE Types'
  <2>1. Control
    BY <1>6, <1>e DEF Wake, States, InFlight
  <2> QED  BY <1>6, <2>1, <1>a, <1>b, <1>c DEF Wake
<1>7. ASSUME NEW w \in Writers, Kill(w) PROVE Types'
  <2>1. Control
    BY <1>7, <1>e DEF Kill, States, Ended
  <2> QED  BY <1>7, <2>1, <1>a, <1>b, <1>c DEF Kill
<1>8. CASE UNCHANGED vars
  BY <1>8, <1>a, <1>b, <1>c, <1>f DEF vars
<1> QED  BY <1>1, <1>2, <1>3, <1>4, <1>5, <1>6, <1>7, <1>8 DEF Next, Upload, Terminated

\* Type correctness; among it, that no writer makes an attempt too many.
THEOREM TypeCorrect == Spec => []TypeOK
<1>1. Types => TypeOK
  BY DEF Types
<1> QED  BY TypesInit, TypesNext, <1>1, PTL DEF Spec

-----------------------------------------------------------------------------
(* One version of the object.                                              *)

\* Only one writer stages blocks.
Alone == \A v, w \in Writers : at[v] = "stage" /\ at[w] = "stage" => v = w

\* The blocks of the current attempt are all there ...
Own(w) == \A b \in 1..next[w] : staged[b] = w

\* ... or a put of another writer has swept one away, and the commit that
\* counts on it is refused, because the object has no blocks to take instead.
Swept(w) == ~inBlocks /\ \E b \in 1..next[w] : staged[b] = Nobody

Staging == \A w \in Writers : at[w] = "stage" => Own(w) \/ Swept(w)

Version == overlapped \/ (Alone /\ Staging /\ OneVersion)

Returned ==
    /\ \A w \in Writers : at[w] = "returned" => w \in landed
    /\ landed # {} => object # <<>>

Safe == Types /\ Version /\ Returned

LEMMA SafeInit == Init => Safe
<1> SUFFICES ASSUME Init PROVE Safe
  OBVIOUS
<1>1. Alone /\ Staging
  BY DEF Init, Alone, Staging
<1>2. OneVersion
  BY DEF Init, OneVersion
<1>3. Returned
  BY DEF Init, Returned
<1> QED  BY TypesInit, <1>1, <1>2, <1>3 DEF Safe, Version

\* A step that leaves the store alone, and after which nobody stages or has
\* returned who did not before.
LEMMA QuietStep ==
    ASSUME Version, Returned, UNCHANGED <<config, next, store, overlapped>>,
           \A v \in Writers : /\ at'[v] = "stage" => at[v] = "stage"
                              /\ at'[v] = "returned" => at[v] = "returned"
    PROVE  Version' /\ Returned'
<1> USE DEF config, store
<1>1. Alone => Alone'
  BY DEF Alone
<1>2. Staging => Staging'
  BY DEF Staging, Own, Swept
<1>3. OneVersion => OneVersion'
  BY DEF OneVersion, Whole
<1>4. Returned'
  BY DEF Returned
<1> QED  BY <1>1, <1>2, <1>3, <1>4 DEF Version

\* An attempt that ends without an effect is such a step.
LEMMA FailedAttempt ==
    ASSUME Safe, NEW w \in Writers, at[w] \in InFlight, Fails(w),
           UNCHANGED <<config, next, store, overlapped>>
    PROVE  Version' /\ Returned'
<1>1. /\ \A v \in Writers \ {w} : at'[v] = at[v]
      /\ at'[w] # "returned" /\ at'[w] # "stage"
  BY AttemptEnds DEF Safe
<1>2. \A v \in Writers : /\ at'[v] = "stage" => at[v] = "stage"
                         /\ at'[v] = "returned" => at[v] = "returned"
  BY <1>1
<1> QED  BY <1>2, QuietStep DEF Safe

\* A writer goes on without touching the store.
LEMMA PlainStep ==
    ASSUME Safe, NEW w \in Writers, NEW s \in States \ {"stage", "returned"},
           at' = [at EXCEPT ![w] = s], UNCHANGED <<config, next, store, overlapped>>
    PROVE  Version' /\ Returned'
<1>1. at \in [Writers -> States]
  BY DEF Safe, Types, TypeOK, States
<1>2. at'[w] = s /\ \A v \in Writers \ {w} : at'[v] = at[v]
  BY <1>1
<1>3. \A v \in Writers : /\ at'[v] = "stage" => at[v] = "stage"
                         /\ at'[v] = "returned" => at[v] = "returned"
  BY <1>2
<1> QED  BY <1>3, QuietStep DEF Safe

\* An attempt with blocks starts with none of its own.
LEMMA StartsStaging ==
    ASSUME Safe, NEW w \in Writers, at' = [at EXCEPT ![w] = "stage"],
           next' = [next EXCEPT ![w] = 0], UNCHANGED <<config, store>>,
           overlapped' = (overlapped \/ \E v \in Writers \ {w} : at[v] = "stage")
    PROVE  Version' /\ Returned'
<1> USE DEF config, store
<1>0. at \in [Writers -> States] /\ next \in [Writers -> 0..MaxBlocks]
  BY DEF Safe, Types, TypeOK, States
<1>1. at'[w] = "stage" /\ \A v \in Writers \ {w} : at'[v] = at[v]
  BY <1>0
<1>2. Returned'
  BY <1>1 DEF Safe, Returned
<1>3. CASE overlapped'
  BY <1>2, <1>3 DEF Version
<1>4. CASE ~overlapped'
  <2>1. ~overlapped /\ \A v \in Writers \ {w} : at'[v] # "stage"
    BY <1>1, <1>4
  <2>2. Alone'
    BY <2>1 DEF Alone
  <2>3. next'[w] = 0
    BY <1>0
  <2>4. Own(w)'
    BY <2>3 DEF Own
  <2>5. Staging'
    BY <2>1, <2>4 DEF Staging
  <2>6. OneVersion'
    BY <2>1 DEF Safe, Version, OneVersion, Whole
  <2> QED  BY <1>2, <2>2, <2>5, <2>6 DEF Version
<1> QED  BY <1>3, <1>4

\* A put that lands leaves the file of its writer, and no staged block.
LEMMA PutLands ==
    ASSUME Safe, NEW w \in Writers, at[w] = "put", Fails(w) \/ Returns(w),
           object' = Whole(w), inBlocks' = FALSE, staged' = NothingStaged,
           landed' = landed \cup {w}, UNCHANGED <<config, next, overlapped>>
    PROVE  Version' /\ Returned'
<1> USE DEF config
<1>1. /\ \A v \in Writers \ {w} : at'[v] = at[v]
      /\ at'[w] # "stage"
  BY AttemptEnds DEF Safe, InFlight
<1>2. object' # <<>>
  BY WholeIsSeq DEF Safe, Types
<1>3. Returned'
  BY <1>1, <1>2 DEF Safe, Returned
<1>4. CASE overlapped
  BY <1>3, <1>4 DEF Version
<1>5. CASE ~overlapped
  <2>1. Alone'
    BY <1>1, <1>5 DEF Safe, Version, Alone
  <2>2. OneVersion'
    BY DEF OneVersion, Whole
  <2>3. ASSUME NEW v \in Writers, at'[v] = "stage" PROVE (Own(v) \/ Swept(v))'
    <3>1. next[v] \in 0..MaxBlocks
      BY DEF Safe, Types, TypeOK
    <3>2. CASE next[v] = 0
      BY <3>2 DEF Own
    <3>3. CASE next[v] # 0
      <4>1. 1 \in 1..next'[v] /\ 1 \in 1..MaxBlocks
        BY <3>1, <3>3, UploadAssumption
      <4>2. staged'[1] = Nobody
        BY <4>1 DEF NothingStaged
      <4> QED  BY <4>1, <4>2 DEF Swept
    <3> QED  BY <3>2, <3>3
  <2>4. Staging'
    BY <2>3 DEF Staging
  <2> QED  BY <1>3, <2>1, <2>2, <2>4 DEF Version
<1> QED  BY <1>4, <1>5 DEF Safe, Types, TypeOK

\* A block is staged, with an answer or without.
LEMMA BlockLands ==
    ASSUME Safe, NEW w \in Writers, at[w] = "stage",
           next[w] < size[w], staged' = [staged EXCEPT ![next[w] + 1] = w],
           \/ next' = [next EXCEPT ![w] = @ + 1] /\ UNCHANGED <<at, attempt>>
           \/ Fails(w) /\ UNCHANGED next,
           UNCHANGED <<config, object, inBlocks, landed, overlapped>>
    PROVE  Version' /\ Returned'
<1> USE DEF config
<1>0. /\ next \in [Writers -> 0..MaxBlocks] /\ size[w] \in 1..MaxBlocks /\ MaxBlocks \in Nat
      /\ staged \in [1..MaxBlocks -> Writers \cup {Nobody}]
  BY UploadAssumption DEF Safe, Types, TypeOK
<1>1. next[w] + 1 \in 1..MaxBlocks
  BY <1>0
<1>2. CASE next' = [next EXCEPT ![w] = @ + 1] /\ UNCHANGED <<at, attempt>>
  <2>1. Returned'
    BY <1>2 DEF Safe, Returned
  <2>2. CASE overlapped
    BY <2>1, <2>2 DEF Version
  <2>3. CASE ~overlapped
    <3>1. Alone' /\ OneVersion' /\ (Own(w) \/ Swept(w))
      BY <1>2, <2>3 DEF Safe, Version, Alone, Staging, OneVersion, Whole
    <3>2. next'[w] = next[w] + 1
      BY <1>0, <1>2
    <3>3. staged'[next[w] + 1] = w /\ \A b \in 1..next[w] : staged'[b] = staged[b]
      BY <1>0, <1>1
    <3>4. ASSUME Own(w) PROVE Own(w)'
      <4>1. ASSUME NEW b \in 1..next'[w] PROVE staged'[b] = w
        <5>1. b = next[w] + 1 \/ b \in 1..next[w]
          BY <1>0, <3>2
        <5> QED  BY <3>3, <3>4, <5>1 DEF Own
      <4> QED  BY <4>1 DEF Own
    <3>5. ASSUME Swept(w) PROVE Swept(w)'
      <4>1. PICK b \in 1..next[w] : staged[b] = Nobody
        BY <3>5 DEF Swept
      <4>2. b \in 1..next'[w] /\ staged'[b] = Nobody
        BY <1>0, <3>2, <3>3, <4>1
      <4> QED  BY <3>5, <4>2 DEF Swept
    <3>6. (Own(w) \/ Swept(w))'
      BY <3>1, <3>4, <3>5
    <3>7. \A v \in Writers : at'[v] = "stage" => v = w
      BY <1>2, <2>3 DEF Safe, Version, Alone
    <3>8. Staging'
      BY <3>6, <3>7 DEF Staging
    <3> QED  BY <2>1, <3>1, <3>8 DEF Version
  <2> QED  BY <2>2, <2>3
<1>3. CASE Fails(w) /\ UNCHANGED next
  <2>1. /\ \A v \in Writers \ {w} : at'[v] = at[v]
        /\ at'[w] # "returned" /\ at'[w] # "stage"
    BY <1>3, AttemptEnds DEF Safe, InFlight
  <2>2. Returned'
    BY <2>1 DEF Safe, Returned
  <2>3. CASE overlapped
    BY <2>2, <2>3 DEF Version
  <2>4. CASE ~overlapped
    <3>1. \A v \in Writers : at'[v] # "stage"
      BY <2>1, <2>4 DEF Safe, Version, Alone
    <3>2. Alone' /\ Staging'
      BY <3>1 DEF Alone, Staging
    <3>3. OneVersion'
      BY <2>4 DEF Safe, Version, OneVersion, Whole
    <3> QED  BY <2>2, <3>2, <3>3 DEF Version
  <2> QED  BY <2>3, <2>4
<1> QED  BY <1>2, <1>3

\* A commit that is accepted takes the blocks of its own writer.
LEMMA CommitLands ==
    ASSUME Safe, NEW w \in Writers, at[w] = "stage", next[w] = size[w],
           Fails(w) \/ Returns(w),
           \A b \in 1..size[w] : Latest(b) # Nobody,
           object' = [b \in 1..size[w] |-> Latest(b)], object' # <<>>,
           inBlocks' = TRUE, staged' = NothingStaged, landed' = landed \cup {w},
           UNCHANGED <<config, next, overlapped>>
    PROVE  Version' /\ Returned'
<1> USE DEF config
<1>1. /\ \A v \in Writers \ {w} : at'[v] = at[v]
      /\ at'[w] # "stage"
  BY AttemptEnds DEF Safe, InFlight
<1>2. Returned'
  BY <1>1 DEF Safe, Returned
<1>3. CASE overlapped
  BY <1>2, <1>3 DEF Version
<1>4. CASE ~overlapped
  <2>1. \A v \in Writers : at'[v] # "stage"
    BY <1>1, <1>4 DEF Safe, Version, Alone
  <2>2. Alone' /\ Staging'
    BY <2>1 DEF Alone, Staging
  <2>3. ~Swept(w)
    BY DEF Swept, Latest
  <2>4. Own(w)
    BY <1>4, <2>3 DEF Safe, Version, Staging
  <2>5. \A b \in 1..size[w] : Latest(b) = w
    <3>1. \A b \in 1..size[w] : staged[b] = w /\ w # Nobody
      BY <2>4, UploadAssumption DEF Own, Writers, Nobody
    <3> QED  BY <3>1 DEF Latest
  <2>6. object' = Whole(w)'
    BY <2>5 DEF Whole
  <2>7. OneVersion'
    BY <2>6 DEF OneVersion
  <2> QED  BY <1>2, <2>2, <2>7 DEF Version
<1> QED  BY <1>3, <1>4 DEF Safe, Types, TypeOK

LEMMA SafeNext == Safe /\ [Next]_vars => Safe'
<1> SUFFICES ASSUME Safe, [Next]_vars PROVE Version' /\ Returned'
  BY TypesNext DEF Safe
<1>1. ASSUME NEW w \in Writers, Probe(w) PROVE Version' /\ Returned'
  <2>1. \E s \in {"attempt", "skipped"} : at' = [at EXCEPT ![w] = s]
    BY <1>1 DEF Probe
  <2>2. UNCHANGED <<config, next, store, overlapped>>
    BY <1>1 DEF Probe
  <2> QED  BY <2>1, <2>2, PlainStep DEF States, InFlight, Ended
<1>2. ASSUME NEW w \in Writers, Attempt(w) PROVE Version' /\ Returned'
  <2>0. at[w] \in InFlight /\ UNCHANGED <<config, store>>
    BY <1>2 DEF Attempt, InFlight
  <2>1. CASE Fails(w) /\ UNCHANGED <<next, overlapped>>
    BY <2>0, <2>1, FailedAttempt
  <2>2. CASE at' = [at EXCEPT ![w] = "put"] /\ UNCHANGED <<attempt, next, overlapped>>
    BY <2>0, <2>2, PlainStep DEF States, InFlight
  <2>3. CASE /\ at' = [at EXCEPT ![w] = "stage"] /\ next' = [next EXCEPT ![w] = 0]
             /\ overlapped' = (overlapped \/ \E v \in Writers \ {w} : at[v] = "stage")
    BY <2>0, <2>3, StartsStaging
  <2> QED  BY <1>2, <2>1, <2>2, <2>3 DEF Attempt
<1>3. ASSUME NEW w \in Writers, PutBlob(w) \/ UploadFile(w) \/ UploadGcs(w)
      PROVE  Version' /\ Returned'
  <2>1. at[w] = "put" /\ at[w] \in InFlight
    BY <1>3 DEF PutBlob, UploadFile, UploadGcs, InFlight
  <2>2. CASE Fails(w) /\ UNCHANGED <<config, next, store, overlapped>>
    BY <2>1, <2>2, FailedAttempt
  <2>3. CASE /\ object' = Whole(w) /\ inBlocks' = FALSE
             /\ staged' = NothingStaged /\ landed' = landed \cup {w}
             /\ Fails(w) \/ Returns(w)
             /\ UNCHANGED <<config, next, overlapped>>
    BY <2>1, <2>3, PutLands
  <2> QED  BY <1>3, <2>2, <2>3 DEF PutBlob, UploadFile, UploadGcs, PutObject
<1>4. ASSUME NEW w \in Writers, StageBlock(w) PROVE Version' /\ Returned'
  <2>1. at[w] = "stage" /\ at[w] \in InFlight /\ next[w] < size[w]
        /\ UNCHANGED <<config, object, inBlocks, landed, overlapped>>
    BY <1>4 DEF StageBlock, InFlight
  <2>2. CASE staged' = [staged EXCEPT ![next[w] + 1] = w]
             /\ \/ next' = [next EXCEPT ![w] = @ + 1] /\ UNCHANGED <<at, attempt>>
                \/ Fails(w) /\ UNCHANGED next
    BY <2>1, <2>2, BlockLands
  <2>3. CASE Fails(w) /\ UNCHANGED <<next, staged>>
    BY <2>1, <2>3, FailedAttempt DEF store
  <2> QED  BY <1>4, <2>2, <2>3 DEF StageBlock
<1>5. ASSUME NEW w \in Writers, Commit(w) PROVE Version' /\ Returned'
  <2>1. /\ at[w] = "stage" /\ at[w] \in InFlight /\ next[w] = size[w]
        /\ UNCHANGED <<config, next, overlapped>>
    BY <1>5 DEF Commit, InFlight
  <2>2. CASE Fails(w) /\ UNCHANGED store
    BY <2>1, <2>2, FailedAttempt
  <2>3. CASE /\ \A b \in 1..size[w] : Latest(b) # Nobody
             /\ object' = [b \in 1..size[w] |-> Latest(b)] /\ inBlocks' = TRUE
             /\ staged' = NothingStaged /\ landed' = landed \cup {w}
             /\ Fails(w) \/ Returns(w)
    <3>1. 1 \in DOMAIN object'
      BY <2>3, UploadAssumption DEF Safe, Types, TypeOK
    <3>2. 1 \notin DOMAIN <<>>
      OBVIOUS
    <3> QED  BY <2>1, <2>3, <3>1, <3>2, CommitLands
  <2> QED  BY <1>5, <2>2, <2>3 DEF Commit
<1>6. ASSUME NEW w \in Writers, Wake(w) PROVE Version' /\ Returned'
  BY <1>6, PlainStep DEF Wake, States, InFlight
<1>7. ASSUME NEW w \in Writers, Kill(w) PROVE Version' /\ Returned'
  BY <1>7, PlainStep DEF Kill, States, Ended
<1>8. CASE UNCHANGED vars
  BY <1>8, QuietStep DEF vars, Safe
<1> QED  BY <1>1, <1>2, <1>3, <1>4, <1>5, <1>6, <1>7, <1>8 DEF Next, Upload, Terminated

\* However often lost answers, retries and kills repeat or cut short the
\* uploads, the object is one writer's whole file, unless two block uploads
\* were under way at the same time.
THEOREM OneVersionHolds == Spec => []OneVersion
<1>1. Safe => OneVersion
  BY DEF Safe, Version, OneVersion
<1> QED  BY SafeInit, SafeNext, <1>1, PTL DEF Spec

\* upload() returns the URI of a file that has reached the store.
THEOREM ReturnedHolds == Spec => []ReturnedIsThere
<1>1. Safe => ReturnedIsThere
  <2> SUFFICES ASSUME Safe, NEW w \in Writers, at[w] = "returned"
               PROVE  w \in landed /\ (landed = {w} => overlapped \/ object = Whole(w))
    BY DEF ReturnedIsThere
  <2>1. w \in landed /\ object # <<>>
    BY DEF Safe, Returned
  <2>2. overlapped \/ \E v \in landed : object = Whole(v)
    BY <2>1 DEF Safe, Version, OneVersion
  <2> QED  BY <2>1, <2>2
<1> QED  BY SafeInit, SafeNext, <1>1, PTL DEF Spec
=============================================================================
