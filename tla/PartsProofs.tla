----------------------------- MODULE PartsProofs -----------------------------
(***************************************************************************)
(* Proofs about the small components.                                      *)
(***************************************************************************)
EXTENDS Parts, SequenceTheorems, WellFoundedInduction, TLAPS

-----------------------------------------------------------------------------
(* ChunkTuning, for every memory limit, number of workers, chunk_rows and  *)
(* width of rows.                                                          *)

\* The larger of two integers.
LEMMA LargerBound ==
    ASSUME NEW a \in Int, NEW b \in Int
    PROVE  Larger(a, b) \in Int /\ Larger(a, b) >= a /\ Larger(a, b) >= b
BY DEF Larger

\* A shard has a budget of 128 MB at least, whatever the options are, so that a
\* batch is never tuned to nothing.
LEMMA TargetInt == Target \in Int
<1>1. 5 * MaxWorkers \in Nat \ {0} /\ MemoryLimit * MB * 4 \in Int
  BY TuningAssumption DEF MB
<1>2. (MemoryLimit * MB * 4) \div (5 * MaxWorkers) \in Int
  BY <1>1
<1>3. 128 * MB \in Int
  BY DEF MB
<1>4. Budget \in Int
  BY <1>2, <1>3, LargerBound DEF Budget
<1> QED  BY <1>4 DEF Target

\* A tuned chunk has 10000 rows at least: what the first full queue cuts it to is
\* still above the floor of the cuts.
LEMMA TunedBound ==
    ASSUME NEW w \in Widths PROVE Tuned(w) \in Nat /\ Tuned(w) >= 10000
<1>1. w \in Nat \ {0}
  BY TuningAssumption
<1>2. Target \div w \in Int
  BY <1>1, TargetInt
<1>3. \A t \in Int : /\ Larger(10000, Smaller(t, 500000)) \in Nat
                    /\ Larger(10000, Smaller(t, 500000)) >= 10000
  BY SMT DEF Larger, Smaller
<1> QED  BY <1>2, <1>3, SMT DEF Tuned

\* What TypeOK lacks to be inductive: the fetch thread holds a batch where it
\* handles one; and a chunk that was tuned stays above the floor of the cuts.
Inv ==
    /\ TypeOK
    /\ at = "take" => new \in Batches
    /\ at = "put" => tbl \in Batches
    /\ base # None => chunk >= 1000

\* None is no batch.
LEMMA NoneIsNone == None \notin Batches
BY DEF None, Batches

LEMMA InvInit == Init => Inv
<1> SUFFICES ASSUME Init PROVE Inv
  OBVIOUS
<1>0. tuned \in BOOLEAN
  BY Zenon DEF Init
<1>1. chunk \in Nat \ {0} /\ count \in 0..MaxBatches /\ at = "fetch" /\ base = None
  BY TuningAssumption DEF Init
<1>2. {base, new, tbl, held} \subseteq Batches \cup {None}
  BY DEF Init
<1>3. queue \in Seq(Batches) /\ Len(queue) <= 2
  BY DEF Init
<1> QED  BY <1>0, <1>1, <1>2, <1>3 DEF Inv, TypeOK

LEMMA InvNext == Inv /\ [Next]_vars => Inv'
<1> SUFFICES ASSUME Inv, [Next]_vars PROVE Inv'
  OBVIOUS
<1> USE DEF Inv, TypeOK
<1>1. CASE Fetch
  <2>1. PICK w \in Widths, r \in {1, chunk} : new' = [id |-> count', rows |-> r, width |-> w]
    BY <1>1 DEF Fetch
  <2>2. count' \in 1..MaxBatches
    BY <1>1, TuningAssumption DEF Fetch
  <2>3. new' \in Batches
    BY <2>1, <2>2 DEF Batches
  <2> QED  BY <1>1, <2>2, <2>3 DEF Fetch
<1>2. CASE FetchEnd
  BY <1>2 DEF FetchEnd
<1>3. CASE Take
  <2>1. new \in Batches
    BY <1>3 DEF Take
  <2>2. new.width \in Widths
    BY <2>1 DEF Batches
  <2>3. Tuned(new.width) \in Nat /\ Tuned(new.width) >= 10000
    BY <2>2, TunedBound
  <2>4. CASE tbl' = None /\ at' = "fetch" /\ UNCHANGED <<chunk, tuned, base>>
    BY <1>3, <2>4 DEF Take
  <2>5. CASE tbl' = new /\ at' = "put" /\ tuned' = TRUE
    BY <1>3, <2>1, <2>3, <2>5 DEF Take
  <2> QED  BY <1>3, <2>4, <2>5 DEF Take
<1>4. CASE Put
  <2>1. tbl \in Batches /\ Len(queue) < 2
    BY <1>4 DEF Put
  <2>2. queue' \in Seq(Batches) /\ Len(queue') <= 2
    BY <1>4, <2>1 DEF Put
  <2> QED  BY <1>4, <2>2 DEF Put
<1>5. CASE PutFull
  <2>1. chunk \in Nat /\ chunk' = Shrunk(chunk)
    BY <1>5 DEF PutFull
  <2>2. chunk' \in Nat /\ chunk' >= 1000
    BY <2>1, SMT DEF Shrunk, Larger
  <2>3. at' = "fetch" /\ UNCHANGED <<tuned, base, count, new, tbl, queue, held>>
    BY <1>5 DEF PutFull
  <2> QED  BY <2>2, <2>3
<1>6. CASE Get
  <2>1. held' \in Batches /\ queue' \in Seq(Batches) /\ Len(queue') <= 2
    BY <1>6 DEF Get
  <2> QED  BY <1>6, <2>1 DEF Get
<1>7. CASE Release
  BY <1>7 DEF Release
<1>8. CASE UNCHANGED vars
  BY <1>8 DEF vars
<1> QED  BY <1>1, <1>2, <1>3, <1>4, <1>5, <1>6, <1>7, <1>8 DEF Next

\* Type correctness, the bound of the queue among it: the fetch thread waits or
\* drops its batch rather than hold a third one (_fetch).
THEOREM TypeCorrect == Spec => []TypeOK
<1>1. Inv => TypeOK
  BY DEF Inv
<1> QED  BY InvInit, InvNext, <1>1, PTL DEF Spec

\* Products of naturals grow with their factors.
LEMMA ProductGrows ==
    ASSUME NEW a \in Nat, NEW b \in Nat, NEW c \in Nat, NEW d \in Nat, a <= b, c <= d
    PROVE  a * c <= b * d
<1>1. \A x, y, z \in Nat : x <= y => x * z <= y * z
  OBVIOUS
<1>2. a * c <= b * c /\ c * b <= d * b
  BY <1>1
<1>3. b * c = c * b /\ d * b = b * d
  OBVIOUS
<1>4. a * c \in Nat /\ b * c \in Nat /\ b * d \in Nat
  OBVIOUS
<1> QED  BY <1>2, <1>3, <1>4

\* What one table may take once the chunk was tuned for rows of width w.
Slot(w) == Larger(10000 * w, Target)

\* A quarter of the budget or 10000 rows: so much take the rows of a tuned chunk.
LEMMA TunedSize ==
    ASSUME NEW w \in Widths
    PROVE  /\ Tuned(w) * w <= Slot(w) /\ Slot(w) \in Nat
           /\ 4 * Slot(w) <= Larger(Budget, 4 * 10000 * w) /\ Larger(Budget, 4 * 10000 * w) \in Int
<1>1. w \in Nat \ {0} /\ Tuned(w) \in Nat
  BY TuningAssumption, TunedBound
<1>2. Budget \in Int
  <2>1. 5 * MaxWorkers \in Nat \ {0} /\ MemoryLimit * MB * 4 \in Int /\ 128 * MB \in Int
    BY TuningAssumption DEF MB
  <2>2. (MemoryLimit * MB * 4) \div (5 * MaxWorkers) \in Int
    BY <2>1
  <2> QED  BY <2>1, <2>2, LargerBound DEF Budget
<1>3. 4 * Target <= Budget /\ Target \in Int
  BY <1>2 DEF Target
<1> DEFINE t == Target \div w
<1>4. t \in Int /\ t * w <= Target
  <2>1. \A x \in Int, y \in Nat \ {0} : x \div y \in Int /\ (x \div y) * y <= x
    OBVIOUS
  <2> QED  BY <1>1, <1>3, <2>1
<1>5. Tuned(w) = 10000 \/ (Tuned(w) <= t)
  <2> HIDE DEF t
  <2>1. \A x \in Int : \/ Larger(10000, Smaller(x, 500000)) = 10000
                      \/ Larger(10000, Smaller(x, 500000)) <= x
    BY SMT DEF Larger, Smaller
  <2>2. Tuned(w) = Larger(10000, Smaller(t, 500000))
    BY DEF Tuned, t
  <2> QED  BY <1>4, <2>1, <2>2
<1> HIDE DEF t
<1>6. Slot(w) \in Int /\ Slot(w) >= 10000 * w /\ Slot(w) >= Target
  <2> DEFINE x == 10000 * w
  <2>1. x \in Int
    BY <1>1
  <2>2. Slot(w) = Larger(x, Target)
    BY DEF Slot
  <2> HIDE DEF x
  <2>3. Slot(w) \in Int /\ Slot(w) >= x /\ Slot(w) >= Target
    BY <1>3, <2>1, <2>2, LargerBound
  <2> QED  BY <2>3 DEF x
<1>7. Tuned(w) * w <= Slot(w)
  <2>1. CASE Tuned(w) = 10000
    BY <1>6, <2>1
  <2>2. CASE Tuned(w) <= t
    <3>1. t \in Nat
      BY <1>1, <1>4, <2>2
    <3>2. Tuned(w) * w <= t * w
      BY <1>1, <2>2, <3>1, ProductGrows
    <3>3. Tuned(w) * w \in Int /\ t * w \in Int
      BY <1>1, <3>1
    <3> QED  BY <1>3, <1>4, <1>6, <3>2, <3>3
  <2> QED  BY <1>5, <2>1, <2>2
<1>8. 4 * Slot(w) <= Larger(Budget, 4 * 10000 * w) /\ Larger(Budget, 4 * 10000 * w) \in Int
  BY <1>1, <1>2, <1>3, SMT DEF Slot, Larger
<1> QED  BY <1>1, <1>6, <1>7, <1>8

\* The batches that the threads refer to.
Alive == {new, tbl, held} \cup {queue[i] : i \in DOMAIN queue}

\* Nothing is put or written before the tuning was tried; batches after the one that
\* it succeeded with have no more rows than it allowed, and that one was the first.
Fits ==
    /\ ~tuned => base = None /\ queue = <<>> /\ held = None /\ at # "put"
    /\ base # None =>
          /\ chunk <= Tuned(base.width) /\ base.id <= count
          /\ \A b \in Alive : b.id > base.id => b.rows <= Tuned(base.width)
    /\ new # None => new.id <= count

LEMMA FitsInit == Init => Fits
BY DEF Init, Fits, None

LEMMA FitsNext == Inv /\ Fits /\ [Next]_vars => Fits'
<1> SUFFICES ASSUME Inv, Fits, [Next]_vars PROVE Fits'
  OBVIOUS
<1> DEFINE bound == Tuned(base.width)
<1>1. /\ count \in Nat /\ chunk \in Nat \ {0} /\ queue \in Seq(Batches)
      /\ {base, new, tbl, held} \subseteq Batches \cup {None}
      /\ \A b \in Batches \cup {None} : b.id \in Nat /\ b.rows \in Nat
      /\ tuned \in BOOLEAN
      /\ base # None => base \in Batches /\ bound \in Nat /\ bound >= 10000 /\ chunk >= 1000
  <2>1. MaxBatches \in Nat
    BY TuningAssumption
  <2>2. \A b \in Batches \cup {None} : b.id \in Nat /\ b.rows \in Nat
    BY <2>1 DEF Batches, None
  <2>3. base # None => base \in Batches /\ base.width \in Widths
    BY DEF Inv, TypeOK, Batches
  <2> QED  BY <2>1, <2>2, <2>3, TunedBound DEF Inv, TypeOK
<1>2. CASE Fetch
  <2>1. PICK r \in {1, chunk} : new'.id = count' /\ new'.rows = r
    <3>1. PICK w \in Widths, r \in {1, chunk} : new' = [id |-> count', rows |-> r, width |-> w]
      BY <1>2 DEF Fetch
    <3> QED  BY <3>1
  <2>2. UNCHANGED <<chunk, tuned, base, tbl, queue, held>> /\ count' = count + 1 /\ at' = "take"
    BY <1>2 DEF Fetch
  <2>3. \A b \in Alive' : b = new' \/ b \in Alive
    BY <2>2 DEF Alive
  <2>4. base # None => r <= bound
    BY <1>1 DEF Fits
  <2> QED  BY <1>1, <2>1, <2>2, <2>3, <2>4 DEF Fits
<1>3. CASE FetchEnd
  BY <1>3 DEF FetchEnd, Fits, Alive
<1>4. CASE Take
  <2>1. new \in Batches /\ new' = None /\ UNCHANGED <<count, queue, held>>
    BY <1>4 DEF Take, Inv
  <2>2. CASE /\ base' = base /\ chunk' = chunk /\ tbl' \in {None, new}
             /\ tuned' = TRUE \/ (tuned' = tuned /\ at' = "fetch")
    <3>1. \A b \in Alive' : b = None \/ b \in Alive
      BY <2>1, <2>2 DEF Alive
    <3> QED  BY <1>1, <2>1, <2>2, <3>1 DEF Fits, None
  <2>3. CASE tbl' = new /\ ~tuned /\ tuned' = TRUE /\ base' = new /\ chunk' = Tuned(new.width)
    <3>1. Alive' \subseteq {None, new}
      BY <2>1, <2>3 DEF Alive, Fits
    <3>2. new.id <= count /\ new # None /\ Tuned(new.width) \in Nat
      BY <2>1, NoneIsNone, TunedBound DEF Fits, Batches
    <3>3. \A b \in Alive' : ~(b.id > new.id)
      BY <1>1, <2>1, <3>1 DEF None
    <3> QED  BY <2>1, <2>3, <3>2, <3>3 DEF Fits
  <2> QED  BY <1>4, <2>2, <2>3 DEF Take
<1>5. CASE Put
  <2>1. UNCHANGED <<chunk, tuned, base, count, new, tbl, held>> /\ queue' = Append(queue, tbl)
        /\ at = "put" /\ tbl \in Batches /\ at' = "fetch"
    BY <1>5 DEF Put, Inv
  <2>2. \A i \in DOMAIN queue' : queue'[i] = tbl \/ (i \in DOMAIN queue /\ queue'[i] = queue[i])
    BY <1>1, <2>1
  <2>3. Alive' \subseteq Alive
    BY <2>1, <2>2 DEF Alive
  <2> QED  BY <2>1, <2>3 DEF Fits
<1>6. CASE PutFull
  <2>1. /\ chunk' = Shrunk(chunk) /\ at = "put" /\ at' = "fetch"
        /\ UNCHANGED <<tuned, base, count, new, tbl, queue, held>>
    BY <1>6 DEF PutFull
  <2>2. base # None => chunk' <= chunk /\ chunk' \in Nat
    BY <1>1, <2>1, SMT DEF Shrunk, Larger
  <2>3. base # None => chunk' <= bound
    BY <1>1, <2>2 DEF Fits
  <2> QED  BY <2>1, <2>3 DEF Fits, Alive
<1>7. CASE Get
  <2>1. UNCHANGED <<at, chunk, tuned, base, count, new, tbl>> /\ queue # <<>>
        /\ held' = Head(queue) /\ queue' = Tail(queue)
    BY <1>7 DEF Get
  <2>2. /\ 1 \in DOMAIN queue /\ held' = queue[1]
        /\ \A i \in DOMAIN queue' : i + 1 \in DOMAIN queue /\ queue'[i] = queue[i + 1]
    BY <1>1, <2>1
  <2>3. Alive' \subseteq Alive
    BY <2>1, <2>2 DEF Alive
  <2> QED  BY <2>1, <2>3 DEF Fits
<1>8. CASE Release
  <2>1. UNCHANGED <<at, chunk, tuned, base, count, new, queue>> /\ Alive' \subseteq Alive \cup {None}
        /\ (held = None => held' = None)
    BY <1>8 DEF Release, Alive
  <2> QED  BY <1>1, <2>1 DEF Fits, None
<1>9. CASE UNCHANGED vars
  BY <1>9 DEF vars, Fits, Alive
<1> QED  BY <1>2, <1>3, <1>4, <1>5, <1>6, <1>7, <1>8, <1>9 DEF Next

\* However the threads run, the tables of a shard take no more than five quarters of
\* its budget, or five times 10000 rows (`_memory_budget`, `_auto_tune_chunk`).
THEOREM MemoryIsBounded == Spec => []PeakBounded
<1>1. Inv /\ Fits => PeakBounded
  <2> SUFFICES ASSUME Inv, Fits, base # None
               PROVE  4 * Peak <= 5 * Larger(Budget, 4 * 10000 * base.width)
    BY DEF PeakBounded
  <2> DEFINE w == base.width   slot == Slot(w)   most == Larger(Budget, 4 * 10000 * w)
  <2>1. w \in Widths /\ w \in Nat /\ base.id \in Nat
    BY TuningAssumption DEF Inv, TypeOK, Batches
  <2>2. slot \in Nat /\ 4 * slot <= most /\ most \in Int /\ Tuned(w) * w <= slot /\ Tuned(w) \in Nat
    BY <2>1, TunedSize, TunedBound
  <2>3. ASSUME NEW b \in Alive PROVE Size(b) \in Nat /\ Size(b) <= slot
    <3>1. b \in Batches \cup {None}
      BY DEF Alive, Inv, TypeOK
    <3>2. b.rows \in Nat /\ b.width \in Nat
      <4>1. Widths \subseteq Nat
        BY TuningAssumption
      <4>2. CASE b \in Batches
        BY <4>1, <4>2 DEF Batches
      <4>3. CASE b = None
        BY <4>3 DEF None
      <4> QED  BY <3>1, <4>2, <4>3
    <3>3. CASE b.id > base.id /\ b.width <= w
      <4>1. b.rows <= Tuned(w)
        BY <3>3 DEF Fits
      <4>2. b.rows * b.width <= Tuned(w) * w
        BY <2>1, <2>2, <3>2, <3>3, <4>1, ProductGrows
      <4>3. b.rows * b.width \in Nat /\ Tuned(w) * w \in Nat
        BY <2>1, <2>2, <3>2
      <4> QED  BY <2>2, <3>3, <4>2, <4>3 DEF Size
    <3>4. CASE ~(b.id > base.id /\ b.width <= w)
      BY <2>2, <3>4 DEF Size
    <3> QED  BY <3>3, <3>4
  <2>4. ASSUME NEW i \in {1, 2} PROVE Queued(i) \in Nat /\ Queued(i) <= slot
    BY <2>2, <2>3 DEF Queued, Alive
  <2>5. new \in Alive /\ tbl \in Alive /\ held \in Alive
    BY DEF Alive
  <2> HIDE DEF slot, most, w
  <2>6. \A a, b, c, d, e \in Nat :
            a <= slot /\ b <= slot /\ c <= slot /\ d <= slot /\ e <= slot
            => 4 * (a + b + c + d + e) <= 5 * most
    BY <2>2
  <2>7. 4 * Peak <= 5 * most
    BY <2>3, <2>4, <2>5, <2>6 DEF Peak
  <2> QED  BY <2>7 DEF most, w
<1> QED  BY InvInit, InvNext, FitsInit, FitsNext, <1>1, PTL DEF Spec

-----------------------------------------------------------------------------
(* DbAdapter.                                                              *)

Opening == {"load", "getConn", "connect", "cursor"}
Using == {"use", "closeCursor"}

\* The types, with what the position says of conn and cursor.
AdapterTypes ==
    /\ Adapter!TypeOK
    /\ a_offers \in {"cursor", "execute", "nothing"} /\ a_closable \subseteq Adapter!Objects
    /\ a_at \in Using \cup {"cursor", "closeConn"} => a_conn \in Adapter!Conns
    /\ a_at \in Using => a_cursor # Adapter!None

\* Whatever is open is held by the variable whose turn to be closed is still to
\* come, but for a rejected connection; a cursor is closed before any connection.
HeldCursor ==
    /\ a_state["cursor"] = "open" => a_cursor = "cursor" /\ a_at \in Using
    /\ a_at \in Opening \cup Using => \A x \in Adapter!Conns : a_state[x] \in {"unborn", "open"}

HeldConn ==
    \A x \in Adapter!Conns \cap a_closable :
        a_state[x] = "open" /\ ~Adapter!Rejected(x) =>
            a_conn = x /\ a_at \in Using \cup {"cursor", "closeConn", "raised"}

HeldHook ==
    a_state["hook"] = "open" /\ "hook" \in a_closable => a_hook = "hook" /\ a_at # "closed"

AdapterInv == AdapterTypes /\ HeldCursor /\ HeldConn /\ HeldHook

USE DEF Adapter!None, Adapter!Conns, Adapter!Objects, Opening, Using

LEMMA AdapterInit == Adapter!Init => AdapterInv
<1> SUFFICES ASSUME NEW o \in {"cursor", "execute", "nothing"},
                    NEW c \in SUBSET Adapter!Objects, Adapter!Begin(o, c)
             PROVE  AdapterInv
  BY DEF Adapter!Init
<1> USE DEF Adapter!Begin
<1>1. AdapterTypes     BY DEF AdapterTypes, Adapter!TypeOK
<1>2. HeldCursor  BY DEF HeldCursor
<1>3. HeldConn    BY DEF HeldConn
<1>4. HeldHook    BY DEF HeldHook
<1> QED  BY <1>1, <1>2, <1>3, <1>4 DEF AdapterInv

\* What a call of x.close() leaves: the state of x alone has changed, and it is
\* not open.
LEMMA ClosesOne ==
    ASSUME a_state \in [Adapter!Objects -> {"unborn", "open", "closed", "failed"}],
           NEW x \in Adapter!Objects, Adapter!Closes(x)
    PROVE  /\ a_state' \in [Adapter!Objects -> {"unborn", "open", "closed", "failed"}]
           /\ a_state'[x] # "open"
           /\ \A y \in Adapter!Objects \ {x} : a_state'[y] = a_state[y]
BY DEF Adapter!Closes

LEMMA AdapterStep == AdapterInv /\ [Adapter!Next]_(Adapter!vars) => AdapterInv'
<1> SUFFICES ASSUME AdapterInv, [Adapter!Next]_(Adapter!vars) PROVE AdapterInv'
  OBVIOUS
<1> USE DEF AdapterInv, AdapterTypes, Adapter!TypeOK, HeldCursor, HeldConn, HeldHook, Adapter!Rejected, Adapter!Env, Adapter!Goes, Adapter!Opens
<1>1. CASE Adapter!LoadHook
  BY <1>1 DEF Adapter!LoadHook
<1>2. CASE Adapter!GetConn
  BY <1>2 DEF Adapter!GetConn
<1>3. CASE Adapter!BuildManualConn
  BY <1>3 DEF Adapter!BuildManualConn
<1>4. CASE Adapter!OpenCursor
  BY <1>4 DEF Adapter!OpenCursor
<1>5. CASE Adapter!EndUse
  BY <1>5 DEF Adapter!EndUse
<1>6. CASE Adapter!CloseCursor
  <2>1. a_cursor \in Adapter!Objects /\ Adapter!Closes(a_cursor)
    BY <1>6 DEF Adapter!CloseCursor
  <2> QED  BY <1>6, <2>1, ClosesOne DEF Adapter!CloseCursor
<1>7. CASE Adapter!CloseConn
  <2>1. CASE a_conn \in a_closable
    <3>1. a_conn \in Adapter!Objects /\ Adapter!Closes(a_conn)
      BY <1>7, <2>1 DEF Adapter!CloseConn
    <3> QED  BY <1>7, <2>1, <3>1, ClosesOne DEF Adapter!CloseConn
  <2>2. CASE a_conn \notin a_closable
    BY <1>7, <2>2 DEF Adapter!CloseConn
  <2> QED  BY <2>1, <2>2
<1>8. CASE Adapter!CloseHook
  <2>1. CASE a_hook \in a_closable
    <3>1. a_hook = "hook" /\ Adapter!Closes(a_hook)
      BY <1>8, <2>1 DEF Adapter!CloseHook
    <3> QED  BY <1>8, <2>1, <3>1, ClosesOne DEF Adapter!CloseHook
  <2>2. CASE a_hook \notin a_closable
    BY <1>8, <2>2 DEF Adapter!CloseHook
  <2> QED  BY <2>1, <2>2
<1>9. CASE UNCHANGED Adapter!vars
  BY <1>9 DEF Adapter!vars
<1> QED  BY <1>1, <1>2, <1>3, <1>4, <1>5, <1>6, <1>7, <1>8, <1>9 DEF Adapter!Next, Adapter!Close

\* Whatever raises on the way, close() has tried to close everything that can be
\* closed but a connection the adapter has rejected, the cursor first
\* (UniversalDbAdapter.close).
THEOREM ShardReleases == Adapter!Spec => []Released
<1>1. AdapterInv => Released
  BY DEF AdapterInv, AdapterTypes, Adapter!TypeOK, HeldCursor, HeldConn, HeldHook, Released, Adapter!Released
<1> QED  BY AdapterInit, AdapterStep, <1>1, PTL DEF Adapter!Spec

-----------------------------------------------------------------------------
(* Preflight, for every storage hook, every set of rights and any number   *)
(* of plugins.                                                             *)

BuiltIns == {"azure", "s3", "gcs"}

PreTypes ==
    /\ p_at \in {"discover", "unsupported", "write", "delete", "list", "meta", "ok", "bad"}
    /\ p_hook \in Pre!Hooks /\ p_rights \subseteq Pre!Requests
    /\ p_named \in BOOLEAN /\ p_probe \in BOOLEAN /\ p_fault \in BOOLEAN
    /\ p_plugins \in Seq(Pre!Plugins) /\ Len(p_plugins) <= Len(Names)
    /\ p_next \in 1..(Len(p_plugins) + 1)
    /\ p_uploader \in Pre!Uploaders \cup {Pre!None}
    /\ p_uploader = Pre!None <=> p_at \in {"discover", "unsupported"}

\* The registry is the built-in uploaders and then those plugins, among the ones that
\* have had their turn, that load, in their order.
Found(k) == k \in DOMAIN p_plugins /\ k < p_next /\ p_plugins[k].loads = "good"
Added == 4..Len(p_registry)

RegistryOrder ==
    /\ p_registry \in Seq(Pre!Uploaders) /\ Len(p_registry) >= 3
    /\ p_registry[1] = "azure" /\ p_registry[2] = "s3" /\ p_registry[3] = "gcs"
    /\ \A i \in Added : \E k \in DOMAIN p_plugins : Found(k) /\ p_registry[i] = Names[k]
    /\ \A k \in DOMAIN p_plugins : Found(k) => \E i \in Added : p_registry[i] = Names[k]
    /\ \A i, j \in Added : \A k, l \in DOMAIN p_plugins :
            i < j /\ p_registry[i] = Names[k] /\ p_registry[j] = Names[l] => k < l

\* A request is made of a built-in uploader only, and not for the generic AWS hook.
Asking ==
    /\ p_at \in {"write", "delete", "list", "meta"} =>
            p_uploader \in BuiltIns /\ p_hook # "aws" /\ p_named
    /\ p_at \in {"write", "delete"} => p_uploader \in {"azure", "gcs"}
    /\ p_at = "list" => p_uploader = "azure"

\* What the requests that were made so far have shown of the rights.
Learnt ==
    /\ p_at = "delete" => "write" \in p_rights
    /\ p_at \in {"list", "meta"} /\ p_uploader = "azure" /\ ~p_fault =>
            ~({"write", "delete"} \subseteq p_rights)
    /\ p_at = "meta" /\ p_uploader = "azure" /\ ~p_fault => "list" \notin p_rights
    /\ p_at = "meta" /\ p_uploader = "gcs" /\ ~p_fault => "write" \notin p_rights

\* The probe object is there while its removal is next, or cannot be removed.
ProbeKept == p_probe => p_at = "delete" \/ "delete" \notin p_rights \/ p_fault

PreInv == PreTypes /\ RegistryOrder /\ PluginsOnlyAdd /\ Asking /\ Learnt
          /\ VerdictMeans /\ ProbeKept

\* A plugin is told from every other uploader by its name.
LEMMA PluginNames ==
    ASSUME PreTypes, NEW k \in DOMAIN p_plugins
    PROVE  /\ k \in DOMAIN Names /\ Names[k] \notin BuiltIns \cup {Pre!None}
           /\ \A l \in DOMAIN p_plugins : Names[k] = Names[l] => k = l
           /\ Pre!Matches(Names[k]) <=> p_hook \in p_plugins[k].serves
<1>1. DOMAIN p_plugins = 1..Len(p_plugins) /\ DOMAIN Names = 1..Len(Names)
      /\ Len(p_plugins) \in Nat /\ Len(Names) \in Nat /\ Len(p_plugins) <= Len(Names)
  BY NamesAssumption DEF PreTypes
<1>2. DOMAIN p_plugins \subseteq DOMAIN Names
  BY <1>1
<1>3. DOMAIN Pre!BuiltIn = BuiltIns
  BY DEF Pre!BuiltIn, BuiltIns
<1>4. /\ k \in DOMAIN Names /\ Names[k] \notin BuiltIns \cup {Pre!None}
      /\ \A l \in DOMAIN p_plugins : Names[k] = Names[l] => k = l
  BY <1>2, <1>3, NamesAssumption
<1>5. Pre!Matches(Names[k]) <=> p_hook \in p_plugins[k].serves
  BY <1>3, <1>4 DEF Pre!Matches
<1> QED  BY <1>4, <1>5

\* Which hooks the built-in uploaders match.
LEMMA BuiltInMatches ==
    /\ Pre!Matches("azure") <=> p_hook = "wasb"
    /\ Pre!Matches("s3") <=> p_hook \in {"s3", "aws"}
    /\ Pre!Matches("gcs") <=> p_hook = "gcs"
BY DEF Pre!Matches, Pre!BuiltIn

LEMMA PreInit == Pre!Init => PreInv
<1> SUFFICES ASSUME NEW h \in Pre!Hooks, NEW n \in BOOLEAN, NEW r \in SUBSET Pre!Requests,
                    NEW p \in Seq(Pre!Plugins), Len(p) <= Len(Names), Pre!Begin(h, n, r, p)
             PROVE  PreInv
  <2>1. Len(Names) \in Nat
    BY NamesAssumption
  <2>2. ASSUME NEW k \in 1..Len(Names), NEW p \in [1..k -> Pre!Plugins]
        PROVE  p \in Seq(Pre!Plugins) /\ Len(p) <= Len(Names)
    BY <2>1
  <2>3. <<>> \in Seq(Pre!Plugins) /\ Len(<<>>) <= Len(Names)
    BY <2>1
  <2>4. ASSUME Pre!Init
        PROVE  \E h \in Pre!Hooks, n \in BOOLEAN, r \in SUBSET Pre!Requests, p \in Seq(Pre!Plugins) :
                  Len(p) <= Len(Names) /\ Pre!Begin(h, n, r, p)
    <3>1. PICK h \in Pre!Hooks :
            \/ \E n \in BOOLEAN, r \in SUBSET Pre!Requests : Pre!Begin(h, n, r, <<>>)
            \/ \E k \in 1..Len(Names) : \E p \in [1..k -> Pre!Plugins] :
                  Pre!Begin(h, TRUE, Pre!Requests, p)
      BY <2>4, Zenon DEF Pre!Init
    <3>2. CASE \E n \in BOOLEAN, r \in SUBSET Pre!Requests : Pre!Begin(h, n, r, <<>>)
      BY <2>3, <3>2, Zenon
    <3>3. CASE \E k \in 1..Len(Names) : \E p \in [1..k -> Pre!Plugins] :
                  Pre!Begin(h, TRUE, Pre!Requests, p)
      <4>1. TRUE \in BOOLEAN /\ Pre!Requests \in SUBSET Pre!Requests
        OBVIOUS
      <4> QED  BY <2>2, <3>3, <4>1, Zenon
    <3> QED  BY <3>1, <3>2, <3>3
  <2> QED  BY <2>4, Zenon
<1> USE DEF Pre!Begin
<1>1. PreTypes
  <2>1. Len(p) \in Nat /\ 1 \in 1..(Len(p) + 1)
    OBVIOUS
  <2> QED  BY <2>1 DEF PreTypes, Pre!None
<1>2. RegistryOrder
  <2>1. p_registry = <<"azure", "s3", "gcs">>
    OBVIOUS
  <2>4. p_registry \in Seq(Pre!Uploaders) /\ Len(p_registry) = 3
    <3>1. "azure" \in Pre!Uploaders /\ "s3" \in Pre!Uploaders /\ "gcs" \in Pre!Uploaders
      BY DEF Pre!Uploaders, Pre!BuiltIn
    <3> HIDE DEF Pre!Begin
    <3> QED  BY <2>1, <3>1
  <2>5. p_next = 1 /\ p_plugins \in Seq(Pre!Plugins)
    BY DEF Pre!Begin
  <2>2. Added = {}
    BY <2>4 DEF Added
  <2>3. \A k \in DOMAIN p_plugins : ~Found(k)
    BY <2>5 DEF Found
  <2> QED  BY <2>1, <2>2, <2>3, <2>4 DEF RegistryOrder
<1>3. PluginsOnlyAdd  BY DEF PluginsOnlyAdd, Pre!PluginsOnlyAdd, Pre!None
<1>4. Asking /\ Learnt /\ ProbeKept  BY DEF Asking, Learnt, ProbeKept
<1>5. VerdictMeans  BY DEF VerdictMeans, Pre!VerdictMeans
<1> QED  BY <1>1, <1>2, <1>3, <1>4, <1>5 DEF PreInv

LEMMA PreDiscover ==
    ASSUME PreInv, Pre!Discover
    PROVE  PreInv'
<1> USE DEF Pre!Discover, Pre!env
<1>1. PreTypes'  BY DEF PreInv, PreTypes, Pre!Uploaders
<1>2. RegistryOrder'
  <2>1. /\ p_next \in DOMAIN p_plugins /\ p_next \in Nat /\ p_next' = p_next + 1
        /\ p_plugins' = p_plugins /\ ~Found(p_next) /\ DOMAIN p_plugins \subseteq Nat
    BY DEF PreInv, PreTypes, Found
  <2>2. \A k \in DOMAIN p_plugins :
            Found(k)' <=> Found(k) \/ (k = p_next /\ p_plugins[p_next].loads = "good")
    <3> SUFFICES ASSUME NEW k \in DOMAIN p_plugins
                 PROVE  Found(k)' <=> Found(k) \/ (k = p_next /\ p_plugins[p_next].loads = "good")
      OBVIOUS
    <3>1. k < p_next + 1 <=> k < p_next \/ k = p_next
      BY <2>1
    <3>2. Found(k)' <=> k < p_next + 1 /\ p_plugins[k].loads = "good"
      BY <2>1 DEF Found
    <3>3. Found(k) <=> k < p_next /\ p_plugins[k].loads = "good"
      BY DEF Found
    <3> QED  BY <3>1, <3>2, <3>3
  <2>3. CASE p_plugins[p_next].loads = "good"
    <3> DEFINE last == Len(p_registry) + 1
    <3>1. p_registry' = Append(p_registry, Names[p_next]) /\ Names[p_next] \in Pre!Uploaders
      BY <2>1, <2>3 DEF Pre!Uploaders
    <3>2. /\ p_registry' \in Seq(Pre!Uploaders) /\ Len(p_registry') = last
          /\ \A i \in 1..Len(p_registry) : p_registry'[i] = p_registry[i]
          /\ p_registry'[last] = Names[p_next] /\ last \in Nat /\ last > 3
      <4>1. p_registry \in Seq(Pre!Uploaders) /\ Len(p_registry) \in Nat /\ Len(p_registry) >= 3
        BY DEF PreInv, RegistryOrder
      <4>2. last \in Nat /\ last > 3
        BY <4>1
      <4>3. ASSUME NEW s \in Seq(Pre!Uploaders), NEW x \in Pre!Uploaders
            PROVE  /\ Append(s, x) \in Seq(Pre!Uploaders) /\ Len(Append(s, x)) = Len(s) + 1
                   /\ \A i \in 1..Len(s) : Append(s, x)[i] = s[i]
                   /\ Append(s, x)[Len(s) + 1] = x
        OBVIOUS
      <4>4. /\ p_registry' \in Seq(Pre!Uploaders) /\ Len(p_registry') = Len(p_registry) + 1
            /\ \A i \in 1..Len(p_registry) : p_registry'[i] = p_registry[i]
            /\ p_registry'[Len(p_registry) + 1] = Names[p_next]
        BY <3>1, <4>1, <4>3
      <4> QED  BY <4>2, <4>4
    <3>3. Added' = Added \cup {last} /\ last \notin Added /\ Added \subseteq 1..Len(p_registry)
          /\ \A i \in Added : i < last
      BY <3>2 DEF Added
    <3> HIDE DEF last
    <3>4. ASSUME NEW i \in Added'
          PROVE  \E k \in DOMAIN p_plugins : Found(k)' /\ p_registry'[i] = Names[k]
      BY <2>1, <2>2, <2>3, <3>2, <3>3 DEF PreInv, RegistryOrder
    <3>5. ASSUME NEW k \in DOMAIN p_plugins, Found(k)'
          PROVE  \E i \in Added' : p_registry'[i] = Names[k]
      <4>1. CASE Found(k)
        <5>1. PICK i \in Added : p_registry[i] = Names[k]
          BY <4>1 DEF PreInv, RegistryOrder
        <5> QED  BY <3>2, <3>3, <5>1
      <4>2. CASE k = p_next
        BY <3>2, <3>3, <4>2
      <4> QED  BY <2>2, <3>5, <4>1, <4>2
    <3>6. ASSUME NEW i \in Added', NEW j \in Added', NEW k \in DOMAIN p_plugins,
                 NEW l \in DOMAIN p_plugins, i < j,
                 p_registry'[i] = Names[k], p_registry'[j] = Names[l]
          PROVE  k < l
      <4>1. i \in Added
        <5>1. i \in Int /\ j \in Int /\ last \in Int
          BY <3>2, <3>3 DEF Added
        <5> QED  BY <3>3, <3>6, <5>1
      <4>2. CASE j \in Added
        <5>1. p_registry[i] = Names[k] /\ p_registry[j] = Names[l]
          BY <3>2, <3>3, <3>6, <4>1, <4>2
        <5> QED  BY <3>6, <4>1, <4>2, <5>1 DEF PreInv, RegistryOrder
      <4>3. CASE j = last
        <5>1. l = p_next
          BY <2>1, <3>2, <3>6, <4>3, PluginNames DEF PreInv
        <5>2. PICK m \in DOMAIN p_plugins : Found(m) /\ p_registry[i] = Names[m]
          BY <4>1 DEF PreInv, RegistryOrder
        <5>3. m = k
          BY <3>2, <3>3, <3>6, <4>1, <5>2, PluginNames DEF PreInv
        <5> QED  BY <5>1, <5>2, <5>3 DEF Found
      <4> QED  BY <3>3, <4>2, <4>3
    <3>7. 1 \in 1..Len(p_registry) /\ 2 \in 1..Len(p_registry) /\ 3 \in 1..Len(p_registry)
      BY DEF PreInv, RegistryOrder
    <3>8. Len(p_registry') >= 3
      BY <3>2
    <3>9. p_registry'[1] = "azure" /\ p_registry'[2] = "s3" /\ p_registry'[3] = "gcs"
      BY <3>2, <3>7 DEF PreInv, RegistryOrder
    <3>10. Pre!Uploaders' = Pre!Uploaders
      BY <2>1 DEF Pre!Uploaders
    <3> QED  BY <2>1, <3>2, <3>4, <3>5, <3>6, <3>8, <3>9, <3>10 DEF RegistryOrder
  <2>4. CASE p_plugins[p_next].loads # "good"
    <3>1. p_registry' = p_registry
      BY <2>4
    <3>2. Added' = Added
      BY <3>1 DEF Added
    <3>3. \A k \in DOMAIN p_plugins : Found(k)' <=> Found(k)
      BY <2>2, <2>4
    <3> HIDE DEF Pre!Discover
    <3>4. RegistryOrder
      BY DEF PreInv
    <3>5. Pre!Uploaders' = Pre!Uploaders
      BY <2>1 DEF Pre!Uploaders
    <3> QED  BY <2>1, <3>1, <3>2, <3>3, <3>4, <3>5 DEF RegistryOrder
  <2> QED  BY <2>3, <2>4
<1>3. PluginsOnlyAdd'
  BY DEF PreInv, PreTypes, PluginsOnlyAdd, Pre!PluginsOnlyAdd, Pre!Able
<1>4. Asking' /\ Learnt' /\ ProbeKept'  BY DEF PreInv, Asking, Learnt, ProbeKept
<1>5. VerdictMeans'  BY DEF PreInv, VerdictMeans, Pre!VerdictMeans
<1> QED  BY <1>1, <1>2, <1>3, <1>4, <1>5 DEF PreInv

\* The first one of the registry that matches, read off its order: the built-in
\* uploader of a built-in hook, else the first plugin.
LEMMA FirstMatch ==
    ASSUME PreInv, p_at = "discover", p_next > Len(p_plugins),
           NEW i \in DOMAIN p_registry, Pre!Matches(p_registry[i]),
           \A j \in 1..(i - 1) : ~Pre!Matches(p_registry[j])
    PROVE  IF p_hook # "other"
           THEN p_registry[i] \in BuiltIns /\ p_hook \in Pre!BuiltIn[p_registry[i]]
           ELSE \E k \in Pre!Able : p_registry[i] = Names[k] /\ \A j \in Pre!Able : k <= j
<1> USE BuiltInMatches
<1>1. /\ p_registry[1] = "azure" /\ p_registry[2] = "s3" /\ p_registry[3] = "gcs"
      /\ i \in 1..3 \cup Added /\ 1 \notin Added /\ 2 \notin Added /\ 3 \notin Added
      /\ Len(p_registry) \in Nat /\ DOMAIN p_registry = 1..Len(p_registry)
  BY DEF PreInv, RegistryOrder, Added
<1>2. CASE p_hook # "other"
  <2>1. p_hook \in {"wasb", "s3", "aws", "gcs"}
    BY <1>2 DEF PreInv, PreTypes, Pre!Hooks
  <2>2. i \in 1..3
    BY <1>1, <2>1 DEF Added
  <2> QED  BY <1>1, <1>2, <2>1, <2>2 DEF Pre!BuiltIn, BuiltIns
<1>3. CASE p_hook = "other"
  <2>1. i \in Added
    <3>1. \A n \in 1..3 : n = 1 \/ n = 2 \/ n = 3
      OBVIOUS
    <3> QED  BY <1>1, <1>3, <3>1
  <2>2. PICK k \in DOMAIN p_plugins : Found(k) /\ p_registry[i] = Names[k]
    BY <2>1 DEF PreInv, RegistryOrder
  <2>3. k \in Pre!Able
    BY <2>2, PluginNames DEF PreInv, Found, Pre!Able
  <2>4. ASSUME NEW l \in Pre!Able PROVE k <= l
    <3>1. l \in DOMAIN p_plugins /\ Found(l) /\ k \in Int /\ l \in Int
      BY <2>2 DEF PreInv, PreTypes, Pre!Able, Found
    <3>2. PICK m \in Added : p_registry[m] = Names[l]
      BY <3>1 DEF PreInv, RegistryOrder
    <3>3. Pre!Matches(p_registry[m])
      BY <3>1, <3>2, PluginNames DEF PreInv, Pre!Able
    <3>4. m \in Int /\ i \in Int /\ ~(m < i)
      BY <1>1, <2>1, <3>3 DEF Added
    <3>5. CASE m = i
      <4>1. k = l
        BY <2>2, <3>1, <3>2, <3>5, PluginNames DEF PreInv
      <4> QED  BY <3>1, <4>1
    <3>6. CASE i < m
      <4>1. k < l
        BY <2>1, <2>2, <3>1, <3>2, <3>6 DEF PreInv, RegistryOrder
      <4> QED  BY <3>1, <4>1
    <3> QED  BY <3>4, <3>5, <3>6
  <2> QED  BY <1>3, <2>2, <2>3, <2>4
<1> QED  BY <1>2, <1>3

\* Where none matches, the hook is not a built-in one and no plugin serves it.
LEMMA NoMatch ==
    ASSUME PreInv, p_at = "discover", p_next > Len(p_plugins),
           \A i \in DOMAIN p_registry : ~Pre!Matches(p_registry[i])
    PROVE  p_hook = "other" /\ Pre!Able = {}
<1>1. 1 \in DOMAIN p_registry /\ 2 \in DOMAIN p_registry /\ 3 \in DOMAIN p_registry
  BY DEF PreInv, RegistryOrder
<1>2. p_registry[1] = "azure" /\ p_registry[2] = "s3" /\ p_registry[3] = "gcs"
  BY DEF PreInv, RegistryOrder
<1>3. p_hook = "other"
  BY <1>1, <1>2, BuiltInMatches DEF PreInv, PreTypes, Pre!Hooks
<1>4. ASSUME NEW k \in Pre!Able PROVE FALSE
  <2>1. k \in DOMAIN p_plugins /\ Found(k) /\ Pre!Matches(Names[k])
    BY PluginNames DEF PreInv, PreTypes, Pre!Able, Found
  <2>2. \E i \in DOMAIN p_registry : p_registry[i] = Names[k]
    BY <2>1 DEF PreInv, RegistryOrder, Added
  <2> QED  BY <2>1, <2>2
<1> QED  BY <1>3, <1>4

LEMMA PreResolve ==
    ASSUME PreInv, Pre!Resolve
    PROVE  PreInv'
<1> USE DEF Pre!env
<1>1. /\ UNCHANGED <<p_hook, p_named, p_rights, p_plugins, p_registry, p_next, p_probe, p_fault>>
      /\ p_at = "discover" /\ p_next > Len(p_plugins)
  BY DEF Pre!Resolve
<1>2. RegistryOrder' /\ Pre!Able' = Pre!Able
  BY <1>1 DEF PreInv, RegistryOrder, Found, Added, Pre!Uploaders, Pre!Able
<1>3. ProbeKept'
  BY <1>1 DEF PreInv, ProbeKept
<1>4. ASSUME NEW i \in DOMAIN p_registry, Pre!Matches(p_registry[i]),
             \A j \in 1..(i - 1) : ~Pre!Matches(p_registry[j]),
             p_uploader' = p_registry[i], p_at' \in Pre!FirstCheck(p_registry[i])
      PROVE  PreInv'
  <2>1. IF p_hook # "other"
        THEN p_uploader' \in BuiltIns /\ p_hook \in Pre!BuiltIn[p_uploader']
        ELSE \E k \in Pre!Able : p_uploader' = Names[k] /\ \A j \in Pre!Able : k <= j
    BY <1>1, <1>4, FirstMatch
  <2>2. p_at' \in {"write", "bad", "meta", "ok"}
    BY <1>4, SMT DEF Pre!FirstCheck
  <2>3. CASE p_hook # "other"
    <3>1. \/ p_uploader' = "azure" /\ p_hook = "wasb"
          \/ p_uploader' = "gcs" /\ p_hook = "gcs"
          \/ p_uploader' = "s3" /\ p_hook \in {"s3", "aws"}
      BY <2>1, <2>3 DEF BuiltIns, Pre!BuiltIn
    <3>2. /\ p_uploader' \in {"azure", "gcs"} => p_at' = (IF p_named THEN "write" ELSE "bad")
          /\ p_uploader' = "s3" /\ p_hook = "s3" => p_at' = (IF p_named THEN "meta" ELSE "bad")
      BY <1>4, <3>1 DEF Pre!FirstCheck
    <3>3. p_uploader' = "s3" /\ p_hook = "aws" => p_at' = "ok"
      BY <1>4 DEF Pre!FirstCheck
    <3>4. PreTypes'
      BY <1>1, <2>2, <3>1 DEF PreInv, PreTypes, Pre!None, Pre!Uploaders, Pre!BuiltIn
    <3>5. PluginsOnlyAdd'
      BY <1>1, <2>2, <2>3, <3>1 DEF PluginsOnlyAdd, Pre!PluginsOnlyAdd, Pre!BuiltIn
    <3>6. Asking' /\ Learnt' /\ VerdictMeans'
      BY <1>1, <2>2, <3>1, <3>2, <3>3 DEF Asking, Learnt, VerdictMeans, Pre!VerdictMeans, BuiltIns
    <3> QED  BY <1>2, <1>3, <3>4, <3>5, <3>6 DEF PreInv
  <2>4. CASE p_hook = "other"
    <3>1. PICK k \in Pre!Able : p_uploader' = Names[k] /\ \A j \in Pre!Able : k <= j
      BY <2>1, <2>4
    <3>2. p_uploader' \notin BuiltIns \cup {Pre!None}
      BY <3>1, PluginNames DEF PreInv, Pre!Able
    <3>3. p_at' \in {"ok", "bad"}
      BY <1>4, <3>2 DEF Pre!FirstCheck, BuiltIns
    <3>4. PreTypes'
      <4>1. p_uploader' \in Pre!Uploaders
        BY <3>1 DEF Pre!Uploaders, Pre!Able
      <4>2. Pre!Uploaders' = Pre!Uploaders
        BY <1>1 DEF Pre!Uploaders
      <4> QED  BY <1>1, <3>2, <3>3, <4>1, <4>2 DEF PreInv, PreTypes
    <3>5. PluginsOnlyAdd'
      BY <1>1, <1>2, <2>4, <3>1, <3>3 DEF PluginsOnlyAdd, Pre!PluginsOnlyAdd
    <3>6. Asking' /\ Learnt' /\ VerdictMeans'
      BY <3>2, <3>3 DEF Asking, Learnt, VerdictMeans, Pre!VerdictMeans, Pre!BuiltIn, BuiltIns
    <3> QED  BY <1>2, <1>3, <3>4, <3>5, <3>6 DEF PreInv
  <2> QED  BY <2>3, <2>4
<1>5. ASSUME \A i \in DOMAIN p_registry : ~Pre!Matches(p_registry[i]),
             p_at' = "unsupported", p_uploader' = p_uploader
      PROVE  PreInv'
  <2>1. p_hook = "other" /\ Pre!Able = {} /\ p_uploader = Pre!None
    BY <1>1, <1>5, NoMatch DEF PreInv, PreTypes
  <2>2. PreTypes'
    BY <1>1, <1>5, <2>1 DEF PreInv, PreTypes, Pre!Uploaders
  <2>3. PluginsOnlyAdd'
    BY <1>1, <1>2, <1>5, <2>1 DEF PluginsOnlyAdd, Pre!PluginsOnlyAdd
  <2>4. Asking' /\ Learnt' /\ VerdictMeans'
    BY <1>5 DEF Asking, Learnt, VerdictMeans, Pre!VerdictMeans
  <2> QED  BY <1>2, <1>3, <2>2, <2>3, <2>4 DEF PreInv
<1> QED  BY <1>4, <1>5 DEF Pre!Resolve, Pre!Goes

\* A request of a health check, or the lack of a client, leaves what was resolved alone.
LEMMA PreCheck ==
    ASSUME PreInv, Pre!NoClient \/ Pre!Write \/ Pre!Delete \/ Pre!List \/ Pre!Meta
    PROVE  PreInv'
<1> USE DEF Pre!env, Pre!CheckFrame, Pre!Goes, Pre!Answered, Pre!Refused, Pre!Failed, Pre!NotWritten
<1>1. /\ UNCHANGED <<p_hook, p_named, p_rights, p_plugins, p_registry, p_next, p_uploader>>
      /\ p_at \in {"write", "delete", "list", "meta"}
      /\ p_at' \in {"delete", "list", "meta", "ok", "bad"}
      /\ p_probe' \in BOOLEAN /\ p_fault' \in BOOLEAN
  BY DEF PreInv, PreTypes, Pre!NoClient, Pre!Write, Pre!Delete, Pre!List, Pre!Meta
<1>2. p_uploader \in BuiltIns /\ p_hook # "aws" /\ p_named
  BY <1>1 DEF PreInv, Asking
<1>3. PreTypes' /\ RegistryOrder'
  BY <1>1, <1>2 DEF PreInv, PreTypes, RegistryOrder, Found, Added, Pre!Uploaders, Pre!None, BuiltIns
<1>4. PluginsOnlyAdd'
  BY <1>1 DEF PreInv, PluginsOnlyAdd, Pre!PluginsOnlyAdd, Pre!Able
<1>5. Asking'
  BY <1>1, <1>2 DEF PreInv, Asking, BuiltIns, Pre!NoClient, Pre!Write, Pre!Delete, Pre!List, Pre!Meta
<1>6. Learnt'
  BY <1>1, <1>2 DEF PreInv, PreTypes, Asking, Learnt, BuiltIns, Pre!NoClient, Pre!Write, Pre!Delete, Pre!List, Pre!Meta
<1>7. VerdictMeans'
  BY <1>1, <1>2 DEF PreInv, PreTypes, Asking, Learnt, BuiltIns, VerdictMeans, Pre!VerdictMeans,
                    Pre!NoClient, Pre!Write, Pre!Delete, Pre!List, Pre!Meta
<1>8. ProbeKept'
  BY <1>1, <1>2 DEF PreInv, PreTypes, ProbeKept, Pre!NoClient, Pre!Write, Pre!Delete, Pre!List, Pre!Meta
<1> QED  BY <1>3, <1>4, <1>5, <1>6, <1>7, <1>8 DEF PreInv

LEMMA PreStep == PreInv /\ [Pre!Next]_(Pre!vars) => PreInv'
<1>1. PreInv /\ UNCHANGED Pre!vars => PreInv'
  BY DEF Pre!vars, PreInv, PreTypes, RegistryOrder, Found, Added, Pre!Uploaders, PluginsOnlyAdd, Pre!PluginsOnlyAdd,
         Pre!Able, Asking, Learnt, VerdictMeans, Pre!VerdictMeans, ProbeKept
<1> QED  BY <1>1, PreDiscover, PreResolve, PreCheck DEF Pre!Next

\* Plugins only add: however many of them are installed, load and claim a hook, the
\* built-in uploaders stay first (get_registry and resolve_uploader).
THEOREM BuiltInsStay == Pre!Spec => []PluginsOnlyAdd
<1>1. PreInv => PluginsOnlyAdd
  BY DEF PreInv
<1> QED  BY PreInit, PreStep, <1>1, PTL DEF Pre!Spec

\* What the verdict of a health check says of the rights, whatever fails
\* (`health_check` of the backends).
THEOREM VerdictsMean == Pre!Spec => []VerdictMeans
<1>1. PreInv => VerdictMeans
  BY DEF PreInv
<1> QED  BY PreInit, PreStep, <1>1, PTL DEF Pre!Spec

\* A health check that ends removes its probe object unless that is refused or a
\* request fails (`health_check` of the backends).
THEOREM ProbesGo == Pre!Spec => []ProbeRemoved
<1>1. PreInv => ProbeRemoved
  BY DEF PreInv, ProbeKept, ProbeRemoved, Pre!ProbeRemoved
<1> QED  BY PreInit, PreStep, <1>1, PTL DEF Pre!Spec

-----------------------------------------------------------------------------
(* RunReport, for any exports, any remote paths and any number of calls of *)
(* execute().                                                              *)

\* Every set of naturals but the empty one has a least element, and a greatest one if
\* it is bounded.
LEMMA LeastExists ==
    ASSUME NEW T, T \subseteq Nat, T # {}
    PROVE  \E m \in T : \A k \in T : m <= k
<1> DEFINE R == OpToRel(<, Nat)
<1>1. IsWellFoundedOn(R, Nat)
  BY NatLessThanWellFounded, Zenon
<1>2. \A x, y \in Nat : <<x, y>> \in R <=> x < y
  BY DEF OpToRel
<1> HIDE DEF R
<1>3. PICK m \in T : \A k \in T : ~(<<k, m>> \in R)
  BY <1>1, WFMin, Zenon
<1>4. \A x, y \in Nat : ~(x < y) => y <= x
  OBVIOUS
<1> QED  BY <1>2, <1>3, <1>4

LEMMA GreatestExists ==
    ASSUME NEW T, NEW n \in Nat, T \subseteq 0..n, T # {}
    PROVE  \E m \in T : \A k \in T : k <= m
<1> DEFINE U == {x \in Nat : \E t \in T : x = n - t}
<1>1. PICK t0 \in T : TRUE
  OBVIOUS
<1>2. n - t0 \in U
  BY <1>1
<1>3. PICK u \in U : \A x \in U : u <= x
  BY <1>2, LeastExists
<1>4. PICK m \in T : u = n - m
  BY <1>3
<1>5. ASSUME NEW k \in T PROVE k <= m
  <2>1. n - k \in U /\ k \in Int /\ m \in Int
    BY <1>4
  <2> QED  BY <1>3, <1>4, <2>1
<1> QED  BY <1>5

USE DEF Report!Slash

\* The first n elements of a sequence, and when those of two sequences agree.
LEMMA Beginning ==
    ASSUME NEW S, NEW s \in Seq(S), NEW n \in 0..Len(s)
    PROVE  /\ SubSeq(s, 1, n) \in Seq(S) /\ Len(SubSeq(s, 1, n)) = n
           /\ \A i \in 1..n : SubSeq(s, 1, n)[i] = s[i]
<1>1. \A i \in 1..n : s[i] \in S
  OBVIOUS
<1>2. n \in Int /\ 1 \in Int /\ n >= 0
  OBVIOUS
<1>3. /\ SubSeq(s, 1, n) \in Seq(S)
      /\ Len(SubSeq(s, 1, n)) = IF 1 <= n THEN n - 1 + 1 ELSE 0
      /\ \A i \in 1 .. n - 1 + 1 : SubSeq(s, 1, n)[i] = s[1 + i - 1]
  BY <1>1, <1>2, SubSeqProperties
<1> QED  BY <1>2, <1>3

LEMMA SameBeginning ==
    ASSUME NEW S, NEW s \in Seq(S), NEW t \in Seq(S), NEW n \in 0..Len(s), n <= Len(t)
    PROVE  SubSeq(s, 1, n) = SubSeq(t, 1, n) <=> \A i \in 1..n : s[i] = t[i]
<1>1. n \in 0..Len(t)
  OBVIOUS
<1>2. /\ SubSeq(s, 1, n) \in Seq(S) /\ Len(SubSeq(s, 1, n)) = n
      /\ \A i \in 1..n : SubSeq(s, 1, n)[i] = s[i]
  BY Beginning
<1>3. /\ SubSeq(t, 1, n) \in Seq(S) /\ Len(SubSeq(t, 1, n)) = n
      /\ \A i \in 1..n : SubSeq(t, 1, n)[i] = t[i]
  BY <1>1, Beginning
<1>4. CASE \A i \in 1..n : s[i] = t[i]
  BY <1>2, <1>3, <1>4, SeqEqual
<1>5. CASE SubSeq(s, 1, n) = SubSeq(t, 1, n)
  BY <1>2, <1>3, <1>5
<1> QED  BY <1>4, <1>5

\* Which sequences are common prefixes.
LEMMA CommonPrefix ==
    ASSUME NEW S, NEW P, P \subseteq Seq(S), NEW p \in P, NEW c
    PROVE  c \in Report!CommonPrefixes(P) <=>
              /\ c \in Seq(S)
              /\ \A t \in P : Len(c) <= Len(t) /\ \A i \in 1..Len(c) : c[i] = t[i]
<1>1. ASSUME NEW s \in Seq(S) PROVE SubSeq(s, 1, Len(s)) = s
  <2>1. Len(s) \in Nat /\ Len(s) \in 0..Len(s)
    OBVIOUS
  <2>2. /\ SubSeq(s, 1, Len(s)) \in Seq(S) /\ Len(SubSeq(s, 1, Len(s))) = Len(s)
        /\ \A i \in 1..Len(s) : SubSeq(s, 1, Len(s))[i] = s[i]
    BY <2>1, Beginning
  <2> QED  BY <2>2, SeqEqual
<1>2. ASSUME NEW d \in Seq(S), NEW t \in Seq(S)
      PROVE  Report!IsPrefix(d, t) <=> Len(d) <= Len(t) /\ \A i \in 1..Len(d) : d[i] = t[i]
  <2>1. Len(d) \in Nat /\ Len(d) \in 0..Len(d)
    OBVIOUS
  <2> QED  BY <2>1, SameBeginning DEF Report!IsPrefix
<1>3. ASSUME NEW t \in P, NEW d \in Report!Prefixes(t) PROVE d \in Seq(S)
  BY Beginning DEF Report!Prefixes
<1>4. ASSUME c \in Report!CommonPrefixes(P)
      PROVE  c \in Seq(S) /\ \A t \in P : Report!IsPrefix(c, t)
  <2>1. \E t \in P : c \in Report!Prefixes(t)
    BY <1>4 DEF Report!CommonPrefixes
  <2> QED  BY <1>3, <1>4, <2>1 DEF Report!CommonPrefixes
<1>5. ASSUME c \in Seq(S), \A t \in P : Report!IsPrefix(c, t)
      PROVE  c \in Report!CommonPrefixes(P)
  <2>1. Len(c) \in 0..Len(p) /\ c = SubSeq(p, 1, Len(c))
    BY <1>1, <1>5 DEF Report!IsPrefix
  <2>2. c \in Report!Prefixes(p)
    BY <2>1 DEF Report!Prefixes
  <2> QED  BY <1>5, <2>2 DEF Report!CommonPrefixes
<1> QED  BY <1>2, <1>4, <1>5

\* The longest one exists.
LEMMA LongestPrefix ==
    ASSUME NEW S, NEW P, P \subseteq Seq(S), NEW p \in P
    PROVE  /\ Report!LongestCommonPrefix(P) \in Report!CommonPrefixes(P)
           /\ \A c \in Report!CommonPrefixes(P) : Len(c) <= Len(Report!LongestCommonPrefix(P))
<1> DEFINE C == Report!CommonPrefixes(P)   L == {Len(c) : c \in C}
<1>1. <<>> \in C
  <2> DEFINE e == <<>>
  <2>1. e \in Seq(S) /\ Len(e) = 0 /\ \A t \in P : 0 <= Len(t)
    OBVIOUS
  <2> HIDE DEF e
  <2>2. \A t \in P : Len(e) <= Len(t) /\ \A i \in 1..Len(e) : e[i] = t[i]
    BY <2>1
  <2>3. e \in C
    BY <2>1, <2>2, CommonPrefix
  <2> QED  BY <2>3 DEF e
<1>2. Len(p) \in Nat /\ \A c \in C : Len(c) \in 0..Len(p)
  <2>1. \A c \in C : c \in Seq(S) /\ Len(c) <= Len(p)
    BY CommonPrefix
  <2>2. \A c \in Seq(S) : Len(c) \in Nat
    OBVIOUS
  <2>3. Len(p) \in Nat
    OBVIOUS
  <2> HIDE DEF C
  <2>4. \A n \in Nat : n <= Len(p) => n \in 0..Len(p)
    BY <2>3
  <2> QED  BY <2>1, <2>2, <2>3, <2>4
<1> HIDE DEF C
<1>3. PICK m \in L : \A k \in L : k <= m
  <2>1. L \subseteq 0..Len(p)
    BY <1>2
  <2>2. L # {}
    BY <1>1
  <2> HIDE DEF L
  <2> QED  BY <1>2, <2>1, <2>2, GreatestExists
<1>4. \E longest \in C : \A other \in C : Len(other) <= Len(longest)
  BY <1>3
<1> HIDE DEF L
<1>5. Report!LongestCommonPrefix(P) = CHOOSE longest \in C : \A other \in C : Len(other) <= Len(longest)
  BY DEF Report!LongestCommonPrefix, C
<1>6. Report!LongestCommonPrefix(P) \in C /\ \A c \in C : Len(c) <= Len(Report!LongestCommonPrefix(P))
  BY <1>4, <1>5
<1> QED  BY <1>6 DEF C

\* The directories that every path of P is in are those of the longest common prefix.
LEMMA CommonDirs ==
    ASSUME NEW S, NEW P, P \subseteq Seq(S), NEW p \in P, NEW d
    PROVE  LET L == Report!LongestCommonPrefix(P) IN
           (d \in UNION {Report!Above(q) : q \in P} /\ \A q \in P : d \in Report!Above(q))
              <=> \E i \in DOMAIN L : L[i] = "/" /\ d = SubSeq(L, 1, i - 1)
<1> DEFINE L == Report!LongestCommonPrefix(P)
<1>1. /\ L \in Seq(S) /\ Len(L) \in Nat /\ DOMAIN L = 1..Len(L)
      /\ \A t \in P : Len(L) <= Len(t) /\ \A i \in 1..Len(L) : L[i] = t[i]
  BY LongestPrefix, CommonPrefix
<1>2. \A c \in Seq(S) : (\A t \in P : Len(c) <= Len(t) /\ \A i \in 1..Len(c) : c[i] = t[i])
          => Len(c) <= Len(L)
  BY LongestPrefix, CommonPrefix
<1> HIDE DEF L
<1>3. \A t \in P : t \in Seq(S) /\ Len(t) \in Nat /\ DOMAIN t = 1..Len(t)
  OBVIOUS
<1>4. ASSUME NEW i \in DOMAIN L, L[i] = "/", d = SubSeq(L, 1, i - 1), NEW q \in P
      PROVE  d \in Report!Above(q)
  <2>1. i \in DOMAIN q /\ q[i] = "/" /\ i - 1 \in 0..Len(L) /\ i - 1 <= Len(q)
    BY <1>1, <1>3, <1>4
  <2>2. \A j \in 1..(i - 1) : L[j] = q[j]
    BY <1>1, <1>4
  <2>3. SubSeq(L, 1, i - 1) = SubSeq(q, 1, i - 1)
    BY <1>1, <1>3, <2>1, <2>2, SameBeginning
  <2> QED  BY <1>4, <2>1, <2>3 DEF Report!Above
<1>5. ASSUME \A q \in P : d \in Report!Above(q)
      PROVE  \E i \in DOMAIN L : L[i] = "/" /\ d = SubSeq(L, 1, i - 1)
  <2>1. ASSUME NEW q \in P
        PROVE  Len(d) + 1 \in DOMAIN q /\ q[Len(d) + 1] = "/" /\ d = SubSeq(q, 1, Len(d)) /\ Len(d) \in Nat
    <3>1. PICK i \in DOMAIN q : q[i] = "/" /\ d = SubSeq(q, 1, i - 1)
      BY <1>5 DEF Report!Above
    <3>2. i \in 1..Len(q) /\ i - 1 \in 0..Len(q)
      BY <1>3
    <3>3. Len(d) = i - 1
      BY <1>3, <3>1, <3>2, Beginning
    <3> QED  BY <1>3, <3>1, <3>2, <3>3
  <2> DEFINE n == Len(d) + 1   c == SubSeq(p, 1, n)
  <2>2. n \in 1..Len(p) /\ n \in 0..Len(p) /\ n - 1 = Len(d) /\ Len(d) \in Nat
    BY <1>3, <2>1
  <2> HIDE DEF n
  <2>3. c \in Seq(S) /\ Len(c) = n /\ \A i \in 1..n : c[i] = p[i]
    BY <1>3, <2>2, Beginning
  <2> HIDE DEF c
  <2>4. ASSUME NEW t \in P PROVE n <= Len(t) /\ \A i \in 1..n : c[i] = t[i]
    <3>1. n \in 1..Len(t) /\ t[n] = "/" /\ p[n] = "/"
      BY <1>3, <2>1 DEF n
    <3>2. SubSeq(p, 1, Len(d)) = SubSeq(t, 1, Len(d)) /\ Len(d) \in 0..Len(p) /\ Len(d) <= Len(t)
      <4>1. SubSeq(p, 1, Len(d)) = SubSeq(t, 1, Len(d))
        BY <2>1
      <4> QED  BY <1>3, <2>2, <3>1, <4>1
    <3>3. \A i \in 1..Len(d) : p[i] = t[i]
      BY <1>3, <3>2, SameBeginning
    <3>4. \A i \in 1..n : i = n \/ i \in 1..Len(d)
      BY <2>2
    <3> QED  BY <1>3, <2>2, <2>3, <3>1, <3>3, <3>4
  <2>5. n <= Len(L) /\ n \in DOMAIN L
    <3>1. n <= Len(L)
      BY <1>2, <2>3, <2>4
    <3> QED  BY <1>1, <2>2, <3>1
  <2>6. L[n] = "/" /\ SubSeq(L, 1, n - 1) = d
    <3>1. L[n] = p[n] /\ p[n] = "/"
      BY <1>1, <2>1, <2>5 DEF n
    <3>2. \A j \in 1..Len(d) : L[j] = p[j]
      BY <1>1, <2>2, <2>5
    <3>3. Len(d) \in 0..Len(L) /\ Len(d) <= Len(p)
      BY <1>1, <2>2, <2>5
    <3>4. SubSeq(L, 1, Len(d)) = SubSeq(p, 1, Len(d))
      BY <1>1, <1>3, <3>2, <3>3, SameBeginning
    <3> QED  BY <2>1, <2>2, <3>1, <3>4
  <2> QED  BY <2>5, <2>6
<1>6. (d \in UNION {Report!Above(q) : q \in P} /\ \A q \in P : d \in Report!Above(q))
         <=> \A q \in P : d \in Report!Above(q)
  OBVIOUS
<1>7. (d \in UNION {Report!Above(q) : q \in P} /\ \A q \in P : d \in Report!Above(q))
         <=> \E i \in DOMAIN L : L[i] = "/" /\ d = SubSeq(L, 1, i - 1)
  BY <1>4, <1>5, <1>6, Zenon
<1> QED  BY <1>7 DEF L

\* common_remote_dir gives the deepest directory that all paths are in.
LEMMA RemoteDirIsDeepest ==
    ASSUME NEW S, NEW P, P \subseteq Seq(S), NEW p \in P
    PROVE  Report!CommonRemoteDir(P) = Report!DeepestDir(P)
<1> DEFINE L == Report!LongestCommonPrefix(P)
           slashes == {i \in DOMAIN L : L[i] = "/"}
           D == {d \in UNION {Report!Above(q) : q \in P} : \A q \in P : d \in Report!Above(q)}
           last == CHOOSE i \in slashes : \A j \in slashes : j <= i
           deepest == CHOOSE d \in D : \A c \in D : Len(c) <= Len(d)
<1>1. \A d : d \in D <=> \E i \in slashes : d = SubSeq(L, 1, i - 1)
  BY CommonDirs
<1>2. L \in Seq(S) /\ Len(L) \in Nat /\ DOMAIN L = 1..Len(L)
  BY LongestPrefix, CommonPrefix
<1>3. Report!CommonRemoteDir(P) = IF slashes = {} THEN <<>> ELSE SubSeq(L, 1, last - 1)
  BY Zenon DEF Report!CommonRemoteDir, Report!Slash
<1>4. Report!DeepestDir(P) = IF D = {} THEN <<>> ELSE deepest
  BY Zenon DEF Report!DeepestDir
<1> HIDE DEF L, D
<1>5. \A i \in slashes : Len(SubSeq(L, 1, i - 1)) = i - 1 /\ i \in 1..Len(L)
  <2> SUFFICES ASSUME NEW i \in slashes PROVE Len(SubSeq(L, 1, i - 1)) = i - 1 /\ i \in 1..Len(L)
    OBVIOUS
  <2>1. i \in 1..Len(L) /\ i - 1 \in 0..Len(L)
    BY <1>2
  <2> QED  BY <1>2, <2>1, Beginning
<1>6. slashes \subseteq 0..Len(L)
  BY <1>2
<1> HIDE DEF slashes
<1>7. CASE slashes = {}
  BY <1>1, <1>3, <1>4, <1>7
<1>8. CASE slashes # {}
  <2>1. last \in slashes /\ \A j \in slashes : j <= last
    <3>1. \E i \in slashes : \A j \in slashes : j <= i
      BY <1>2, <1>6, <1>8, GreatestExists
    <3> QED  BY <3>1
  <2> HIDE DEF last
  <2>2. SubSeq(L, 1, last - 1) \in D
    BY <1>1, <2>1
  <2>3. \A c \in D : Len(c) <= Len(SubSeq(L, 1, last - 1))
    <3> SUFFICES ASSUME NEW c \in D PROVE Len(c) <= Len(SubSeq(L, 1, last - 1))
      OBVIOUS
    <3>1. PICK i \in slashes : c = SubSeq(L, 1, i - 1)
      BY <1>1
    <3>2. i <= last /\ i \in Int /\ last \in Int
      BY <1>5, <2>1
    <3> QED  BY <1>5, <2>1, <3>1, <3>2
  <2>4. deepest \in D /\ \A c \in D : Len(c) <= Len(deepest)
    BY <2>2, <2>3
  <2> HIDE DEF deepest
  <2>5. PICK k \in slashes : deepest = SubSeq(L, 1, k - 1)
    BY <1>1, <2>4
  <2>6. k = last
    <3>1. k <= last /\ k \in Int /\ last \in Int
      BY <1>5, <2>1
    <3>2. last - 1 <= k - 1
      BY <1>5, <2>1, <2>2, <2>4, <2>5
    <3> QED  BY <3>1, <3>2
  <2> QED  BY <1>3, <1>4, <1>8, <2>2, <2>5, <2>6
<1> QED  BY <1>7, <1>8

\* The types, with those of the paths.
ReportTypes ==
    /\ r_paths \in [Exports -> SUBSET Paths] /\ \A e \in Exports : r_paths[e] # {}
    /\ Report!TypeOK

\* Between the end of its shards and its return, a call's rows are what it has added
\* to the metrics.
CallAdds ==
    \A e \in Exports : r_at[e] \in {"manifest", "return"} => r_rows[e] = r_recorded[e] - r_kept[e]

\* Every manifest is at the path of its export.
AtItsPath == \A p \in DOMAIN r_object : Report!ManifestPath(r_object[p].of) = p

\* An export about to return has written a manifest, and if it is there it lists the
\* rows of this call.
Wrote ==
    \A e \in Exports : r_at[e] = "return" =>
        /\ Report!ManifestPath(e) \in DOMAIN r_object
        /\ r_object[Report!ManifestPath(e)].of = e =>
              r_object[Report!ManifestPath(e)].total = r_rows[e]

ReportInv == ReportTypes /\ CallAdds /\ AtItsPath /\ Wrote

LEMMA ReportInit == Report!Init => ReportInv
<1> SUFFICES ASSUME NEW p \in [Exports -> {{p1, p2} : p1 \in Paths, p2 \in Paths}], Report!Begin(p)
             PROVE  ReportInv
  BY DEF Report!Init
<1> USE DEF Report!Begin
<1>1. ReportTypes
  <2> DEFINE Pairs == {{p1, p2} : p1 \in Paths, p2 \in Paths}
  <2>1. \A x \in Pairs : x \in SUBSET Paths /\ x # {}
    OBVIOUS
  <2>2. r_paths \in [Exports -> Pairs]
    OBVIOUS
  <2> HIDE DEF Pairs
  <2>3. r_paths \in [Exports -> SUBSET Paths] /\ \A e \in Exports : r_paths[e] # {}
    BY <2>1, <2>2
  <2>4. ReportCalls \in Nat /\ r_calls \in 0..ReportCalls
    BY PartsAssumption
  <2> QED  BY <2>3, <2>4 DEF ReportTypes, Report!TypeOK
<1>2. CallAdds /\ AtItsPath /\ Wrote
  BY DEF CallAdds, AtItsPath, Wrote
<1> QED  BY <1>1, <1>2 DEF ReportInv

LEMMA ReportStep == ReportInv /\ [Report!Next]_(Report!vars) => ReportInv'
<1> SUFFICES ASSUME ReportInv, [Report!Next]_(Report!vars) PROVE ReportInv'
  OBVIOUS
<1>1. /\ r_at \in [Exports -> {"idle", "manifest", "return"}] /\ r_calls \in 0..ReportCalls
      /\ r_rows \in [Exports -> Nat] /\ r_recorded \in [Exports -> Nat]
      /\ r_kept \in [Exports -> Nat] /\ r_answer \in [Exports -> Nat]
      /\ \A p \in DOMAIN r_object : r_object[p].of \in Exports /\ r_object[p].total \in Nat
      /\ r_paths \in [Exports -> SUBSET Paths] /\ \A e \in Exports : r_paths[e] # {}
  BY DEF ReportInv, ReportTypes, Report!TypeOK
<1>2. ReportCalls \in Nat /\ ReportRows \in Nat
  BY PartsAssumption
<1>3. ASSUME r_paths' = r_paths
      PROVE  \A e : Report!ManifestPath(e)' = Report!ManifestPath(e)
  BY <1>3 DEF Report!ManifestPath
<1> DEFINE Path(e) == Report!ManifestPath(e)
<1> USE DEF ReportInv, ReportTypes, Report!TypeOK, CallAdds, AtItsPath, Wrote
<1>4. ASSUME NEW e \in Exports, Report!RunShards(e) PROVE ReportInv'
  <2>1. PICK n \in 0..ReportRows :
            /\ r_rows' = [r_rows EXCEPT ![e] = n]
            /\ r_kept' = [r_kept EXCEPT ![e] = r_recorded[e]]
            /\ r_recorded' = [r_recorded EXCEPT ![e] = r_recorded[e] + n]
    BY <1>4 DEF Report!RunShards
  <2>2. /\ r_at[e] = "idle" /\ r_calls' \in 0..ReportCalls /\ n \in Nat
        /\ r_at' = [r_at EXCEPT ![e] = "manifest"]
        /\ UNCHANGED <<r_paths, r_answer, r_object>>
    BY <1>1, <1>2, <1>4 DEF Report!RunShards
  <2>3. /\ r_rows' \in [Exports -> Nat] /\ r_kept' \in [Exports -> Nat]
        /\ r_recorded' \in [Exports -> Nat]
    BY <1>1, <2>1, <2>2
  <2>4. ReportTypes'
    BY <1>1, <2>2, <2>3
  <2>5. CallAdds'
    BY <1>1, <2>1, <2>2
  <2>6. AtItsPath' /\ Wrote'
    BY <1>1, <1>3, <2>1, <2>2
  <2> QED  BY <2>4, <2>5, <2>6
<1>5. ASSUME NEW e \in Exports, Report!WriteManifest(e) PROVE ReportInv'
  <2>1. r_at[e] = "manifest" /\ UNCHANGED <<r_paths, r_rows, r_recorded, r_kept, r_answer, r_calls>>
    BY <1>5 DEF Report!WriteManifest
  <2>2. \A f : Report!ManifestPath(f)' = Path(f)
    BY <1>3, <2>1
  <2>3. CASE r_object' = r_object /\ r_at' = [r_at EXCEPT ![e] = "idle"]
    BY <1>1, <2>1, <2>2, <2>3
  <2>4. CASE /\ r_object' = [p \in DOMAIN r_object \cup {Path(e)} |->
                    IF p = Path(e) THEN [of |-> e, total |-> r_rows[e]] ELSE r_object[p]]
             /\ r_at' = [r_at EXCEPT ![e] = "return"]
    <3>1. /\ DOMAIN r_object' = DOMAIN r_object \cup {Path(e)}
          /\ r_object'[Path(e)].of = e /\ r_object'[Path(e)].total = r_rows[e]
          /\ \A p \in DOMAIN r_object : p # Path(e) => r_object'[p] = r_object[p]
      BY <2>4
    <3> HIDE DEF Path
    <3>2. \A p \in DOMAIN r_object' : r_object'[p].of \in Exports /\ r_object'[p].total \in Nat
      BY <1>1, <3>1
    <3>3. \A p \in DOMAIN r_object' : Path(r_object'[p].of) = p
      BY <3>1 DEF Path
    <3>4. \A f \in Exports : r_at'[f] = "return" =>
              Path(f) \in DOMAIN r_object' /\ (r_object'[Path(f)].of = f => r_object'[Path(f)].total = r_rows[f])
      <4> SUFFICES ASSUME NEW f \in Exports, r_at'[f] = "return", f # e
                   PROVE  /\ Path(f) \in DOMAIN r_object'
                          /\ r_object'[Path(f)].of = f => r_object'[Path(f)].total = r_rows[f]
        BY <3>1
      <4>1. r_at[f] = "return"
        BY <1>1, <2>4
      <4>2. Path(f) \in DOMAIN r_object /\ (r_object[Path(f)].of = f => r_object[Path(f)].total = r_rows[f])
        BY <4>1 DEF Path
      <4> QED  BY <3>1, <4>2
    <3>5. ReportTypes' /\ CallAdds'
      BY <1>1, <2>1, <2>4, <3>2
    <3>6. AtItsPath'
      BY <2>2, <3>3
    <3>7. Wrote'
      BY <2>1, <2>2, <3>4
    <3> QED  BY <3>5, <3>6, <3>7
  <2> QED  BY <1>5, <2>3, <2>4 DEF Report!WriteManifest
<1>6. ASSUME NEW e \in Exports, Report!Return(e) PROVE ReportInv'
  <2>1. /\ r_at[e] = "return" /\ r_at' = [r_at EXCEPT ![e] = "idle"]
        /\ r_answer' = [r_answer EXCEPT ![e] = r_recorded[e]]
        /\ UNCHANGED <<r_paths, r_rows, r_recorded, r_kept, r_calls, r_object>>
    BY <1>6 DEF Report!Return
  <2>2. \A f : Report!ManifestPath(f)' = Path(f)
    BY <1>3, <2>1
  <2> QED  BY <1>1, <2>1, <2>2
<1>7. CASE UNCHANGED Report!vars
  <2>1. UNCHANGED <<r_paths, r_at, r_rows, r_recorded, r_kept, r_answer, r_calls, r_object>>
    BY <1>7 DEF Report!vars
  <2>2. \A f : Report!ManifestPath(f)' = Path(f)
    BY <1>3, <2>1
  <2> QED  BY <1>1, <2>1, <2>2
<1> QED  BY <1>4, <1>5, <1>6, <1>7 DEF Report!Next

\* A manifest that an export has just written lists the rows that this call adds to
\* the total of its metrics (build_manifest, ExportMetrics).
THEOREM TotalsDoAgree == Report!Spec => []TotalsAgree
<1>1. ReportInv => TotalsAgree
  BY DEF ReportInv, CallAdds, Wrote, TotalsAgree, Report!TotalsAgree
<1> QED  BY ReportInit, ReportStep, <1>1, PTL DEF Report!Spec

\* A default manifest is in the deepest directory that all its files are in, and what
\* else is found there is the manifest of an export with the same deepest directory
\* (common_remote_dir, resolve_manifest_path).
THEOREM ManifestsApart == Report!Spec => []ManifestApart
<1>1. ReportInv => ManifestApart
  <2> SUFFICES ASSUME ReportInv PROVE ManifestApart
    OBVIOUS
  <2>1. ASSUME NEW e \in Exports
        PROVE  Report!ManifestPath(e) = Report!DeepestDir(r_paths[e])
    <3>1. r_paths[e] \subseteq Seq(STRING) /\ r_paths[e] # {}
      BY PartsAssumption DEF ReportInv, ReportTypes
    <3> QED  BY <3>1, RemoteDirIsDeepest DEF Report!ManifestPath
  <2>2. ASSUME NEW e \in Exports, r_at[e] = "return"
        PROVE  /\ Report!ManifestPath(e) \in DOMAIN r_object
               /\ r_object[Report!ManifestPath(e)].of \in Exports
               /\ Report!ManifestPath(r_object[Report!ManifestPath(e)].of) = Report!ManifestPath(e)
    BY <2>2 DEF ReportInv, ReportTypes, Report!TypeOK, AtItsPath, Wrote
  <2> QED  BY <2>1, <2>2 DEF ManifestApart, Report!ManifestApart
<1> QED  BY ReportInit, ReportStep, <1>1, PTL DEF Report!Spec

-----------------------------------------------------------------------------
(* Templating, for any mappings and any number of calls of execute().      *)

\* What becomes of a path when mappings are merged.
LEMMA Merged ==
    ASSUME NEW a, NEW b, NEW p
    PROVE  /\ p \in DOMAIN b => p \in DOMAIN Templates!Merge(a, b) /\ Templates!Merge(a, b)[p] = b[p]
           /\ p \in DOMAIN a /\ Head(p) \notin Templates!Keys(b) =>
                 p \in DOMAIN Templates!Merge(a, b) /\ Templates!Merge(a, b)[p] = a[p]
           /\ p \in DOMAIN Templates!Merge(a, b) =>
                 p \in DOMAIN b \/ (p \in DOMAIN a /\ Head(p) \notin Templates!Keys(b))
<1>1. p \in DOMAIN b => Head(p) \in Templates!Keys(b)
  BY DEF Templates!Keys
<1>2. DOMAIN Templates!Merge(a, b) =
          {q \in DOMAIN a : Head(q) \notin Templates!Keys(b)} \cup DOMAIN b
  BY DEF Templates!Merge
<1>3. p \in DOMAIN Templates!Merge(a, b) =>
          Templates!Merge(a, b)[p] = IF p \in DOMAIN b THEN b[p] ELSE a[p]
  BY <1>2 DEF Templates!Merge
<1> QED  BY <1>1, <1>2, <1>3

LEMMA MergedKeys ==
    ASSUME NEW a, NEW b
    PROVE  Templates!Keys(Templates!Merge(a, b)) \subseteq Templates!Keys(a) \cup Templates!Keys(b)
BY Merged DEF Templates!Keys

\* The mapping of a name that the operator gives a value.
LEMMA OneKey ==
    ASSUME NEW name, NEW v
    PROVE  LET b == [p \in {<<name>>} |-> Templates!Leaf(v)] IN
           /\ <<name>> \in DOMAIN b /\ b[<<name>>] = Templates!Leaf(v)
           /\ Head(<<name>>) = name /\ Templates!Keys(b) = {name}
<1> DEFINE b == [p \in {<<name>>} |-> Templates!Leaf(v)]
<1>1. DOMAIN b = {<<name>>} /\ b[<<name>>] = Templates!Leaf(v) /\ Head(<<name>>) = name
  OBVIOUS
<1> HIDE DEF b
<1>2. Templates!Keys(b) = {name}
  BY <1>1 DEF Templates!Keys
<1> QED  BY <1>1, <1>2 DEF b

\* The mapping has it then under that name, and keeps its other keys.
LEMMA GivenName ==
    ASSUME NEW m, NEW name, NEW v
    PROVE  /\ <<name>> \in DOMAIN Templates!With(m, name, v)
           /\ Templates!With(m, name, v)[<<name>>] = Templates!Leaf(v)
BY OneKey, Merged DEF Templates!With

LEMMA OtherNames ==
    ASSUME NEW m, NEW name, NEW v, NEW p \in DOMAIN m, Head(p) # name
    PROVE  /\ p \in DOMAIN Templates!With(m, name, v)
           /\ Templates!With(m, name, v)[p] = m[p]
<1> DEFINE b == [q \in {<<name>>} |-> Templates!Leaf(v)]
<1>1. Templates!Keys(b) = {name}
  BY OneKey
<1> HIDE DEF b
<1>2. Templates!With(m, name, v) = Templates!Merge(m, b)
  BY DEF Templates!With, b
<1> QED  BY <1>1, <1>2, Merged

\* The value that a template sees of a path that is not a template itself: its own, as
\* rendering has found no other path with the same name.
LEMMA RenderedAlone ==
    ASSUME NEW ctx, NEW m, NEW e, ~Templates!Ambiguous(m),
           e = [n \in {Templates!Name(q) : q \in DOMAIN m} |->
                   Templates!Rendered(ctx, m[CHOOSE q \in DOMAIN m : Templates!Name(q) = n])],
           NEW p \in DOMAIN m, m[p].ref = Templates!NoRef
    PROVE  Templates!Name(p) \in DOMAIN e /\ e[Templates!Name(p)] = m[p]
<1>1. \A q \in DOMAIN m : Templates!Name(q) = Templates!Name(p) => q = p
  BY DEF Templates!Ambiguous
<1>2. (CHOOSE q \in DOMAIN m : Templates!Name(q) = Templates!Name(p)) = p
  BY <1>1
<1>3. Templates!Rendered(ctx, m[p]) = m[p]
  BY DEF Templates!Rendered
<1> QED  BY <1>2, <1>3

\* What rendering with the mapping of SQL and paths gives.
RenderedNow ==
    t_at = "rendered" =>
        LET ctx == Templates!TemplateContext
            m == Templates!Flattened(ctx)
        IN  /\ ~Templates!Ambiguous(m)
            /\ t_env = [n \in {Templates!Name(q) : q \in DOMAIN m} |->
                            Templates!Rendered(ctx, m[CHOOSE q \in DOMAIN m : Templates!Name(q) = n])]

\* m has the window of this call under its name.
HasWindow(m) ==
    /\ <<Templates!Window>> \in DOMAIN m
    /\ m[<<Templates!Window>>] = Templates!Leaf(t_window)

\* The window is in the context and in sql_params before anything is rendered with it.
Injected ==
    t_at \in {"render", "rendered"} => HasWindow(t_context) /\ HasWindow(t_sqlParams)

LEMMA TemplatesInit == Templates!Init => RenderedNow /\ Injected /\ t_mode \in {"stream", "unload"}
BY DEF Templates!Init, Templates!Begin, RenderedNow, Injected

LEMMA TemplatesStep ==
    ASSUME RenderedNow, Injected, t_mode \in {"stream", "unload"}, [Templates!Next]_(Templates!vars)
    PROVE  RenderedNow' /\ Injected' /\ t_mode' \in {"stream", "unload"}
<1>1. CASE Templates!Execute
  BY <1>1 DEF Templates!Execute, RenderedNow, Injected
<1>2. CASE Templates!RenderQuery
  BY <1>2 DEF Templates!RenderQuery, Templates!Render, RenderedNow, Injected
<1>3. CASE Templates!InjectWindow
  <2>1. /\ t_context' = Templates!With(t_context, Templates!Window, t_window)
        /\ t_sqlParams' = Templates!With(t_sqlParams, Templates!Window, t_window)
        /\ t_window' = t_window /\ t_at' = "render" /\ t_mode' = t_mode
    BY <1>3 DEF Templates!InjectWindow
  <2>2. ASSUME NEW m
        PROVE  /\ <<Templates!Window>> \in DOMAIN Templates!With(m, Templates!Window, t_window)
               /\ Templates!With(m, Templates!Window, t_window)[<<Templates!Window>>]
                     = Templates!Leaf(t_window)
    BY GivenName
  <2>3. HasWindow(t_context)' /\ HasWindow(t_sqlParams)'
    BY <2>1, <2>2 DEF HasWindow
  <2> QED  BY <2>1, <2>3 DEF RenderedNow, Injected
<1>4. CASE Templates!RenderTemplates
  <2>1. t_at = "render" /\ UNCHANGED <<t_mode, t_shard, t_sqlParams, t_context, t_window>>
        /\ Templates!Render(Templates!TemplateContext, "rendered")
    BY <1>4 DEF Templates!RenderTemplates
  <2>2. Templates!TemplateContext' = Templates!TemplateContext
    BY <2>1 DEF Templates!TemplateContext
  <2>3. \A ctx : Templates!Flattened(ctx)' = Templates!Flattened(ctx)
    BY <2>1 DEF Templates!Flattened
  <2>4. Injected'
    BY <2>1 DEF Injected, HasWindow, Templates!Render
  <2>5. RenderedNow'
    BY <2>1, <2>2, <2>3 DEF RenderedNow, Templates!Render
  <2> QED  BY <2>1, <2>4, <2>5
<1>5. CASE Templates!Export
  BY <1>5 DEF Templates!Export, RenderedNow, Injected
<1>6. CASE UNCHANGED Templates!vars
  BY <1>6 DEF Templates!vars, RenderedNow, Injected, HasWindow, Templates!TemplateContext, Templates!Flattened
<1> QED  BY <1>1, <1>2, <1>3, <1>4, <1>5, <1>6 DEF Templates!Next

TemplatesInv == RenderedNow /\ Injected /\ t_mode \in {"stream", "unload"}

LEMMA TemplatesAlways == Templates!Spec => []TemplatesInv
<1>1. Templates!Init => TemplatesInv
  BY TemplatesInit DEF TemplatesInv
<1>2. TemplatesInv /\ [Templates!Next]_(Templates!vars) => TemplatesInv'
  BY TemplatesStep DEF TemplatesInv
<1> QED  BY <1>1, <1>2, PTL DEF Templates!Spec

\* A name of one key is that key.
LEMMA NameOfOne == ASSUME NEW k PROVE Templates!Name(<<k>>) = k
<1> DEFINE body(f) == [i \in 1..1 |-> IF i = 1 THEN <<k>>[i] ELSE f[i - 1] \o <<k>>[i]]
           flatten == CHOOSE f : f = body(f)
           g == [i \in 1..1 |-> k]
<1>1. g = body(g)
  OBVIOUS
<1>2. flatten = body(flatten)
  <2> HIDE DEF body, g
  <2> QED  BY <1>1
<1>3. flatten[1] = k
  <2> HIDE DEF flatten
  <2> QED  BY <1>2
<1>4. Len(<<k>>) = 1
  OBVIOUS
<1>5. Templates!FlattenSeq(<<k>>) = flatten[1]
  BY <1>4 DEF Templates!FlattenSeq
<1> QED  BY <1>3, <1>5 DEF Templates!Name

\* What a template sees of a path of the flattened mapping.
LEMMA Seen ==
    ASSUME TemplatesInv, t_at = "rendered",
           NEW p \in DOMAIN Templates!Flattened(Templates!TemplateContext),
           Templates!Flattened(Templates!TemplateContext)[p].ref = Templates!NoRef
    PROVE  /\ Templates!Name(p) \in DOMAIN t_env
           /\ t_env[Templates!Name(p)] = Templates!Flattened(Templates!TemplateContext)[p]
<1> DEFINE ctx == Templates!TemplateContext   m == Templates!Flattened(ctx)
<1>1. /\ ~Templates!Ambiguous(m)
      /\ t_env = [n \in {Templates!Name(q) : q \in DOMAIN m} |->
                    Templates!Rendered(ctx, m[CHOOSE q \in DOMAIN m : Templates!Name(q) = n])]
  BY DEF TemplatesInv, RenderedNow
<1> HIDE DEF ctx, m
<1>2. p \in DOMAIN m /\ m[p].ref = Templates!NoRef
  BY DEF m, ctx
<1>3. Templates!Name(p) \in DOMAIN t_env /\ t_env[Templates!Name(p)] = m[p]
  BY <1>1, <1>2, RenderedAlone
<1> QED  BY <1>3 DEF m, ctx

\* The context is the strongest layer of the flattened mapping.
LEMMA ContextSeen ==
    ASSUME TemplatesInv, t_at = "rendered",
           NEW p \in DOMAIN Templates!TemplateContext,
           Templates!TemplateContext[p].ref = Templates!NoRef
    PROVE  /\ Templates!Name(p) \in DOMAIN t_env
           /\ t_env[Templates!Name(p)] = Templates!TemplateContext[p]
<1>1. /\ p \in DOMAIN Templates!Flattened(Templates!TemplateContext)
      /\ Templates!Flattened(Templates!TemplateContext)[p] = Templates!TemplateContext[p]
  BY Merged DEF Templates!Flattened
<1> QED  BY <1>1, Seen

\* SQL and paths are rendered with the window of this call, in a shard and in an
\* unload, unless the shard has a key of that name (_prepare_incremental_context).
THEOREM WindowSeen == Templates!Spec => []WindowInEffect
<1>1. ASSUME TemplatesInv PROVE WindowInEffect
  <2> SUFFICES ASSUME t_at = "rendered",
                      t_mode = "stream" => Templates!Window \notin Templates!Keys(t_shard)
               PROVE  Templates!Window \in DOMAIN t_env
                      /\ t_env[Templates!Window] = Templates!Leaf(t_window)
    BY DEF WindowInEffect, Templates!WindowInEffect
  <2> DEFINE p == <<Templates!Window>>
  <2>1. /\ p \in DOMAIN t_context /\ t_context[p] = Templates!Leaf(t_window)
        /\ p \in DOMAIN t_sqlParams /\ t_sqlParams[p] = Templates!Leaf(t_window)
    BY <1>1 DEF TemplatesInv, Injected, HasWindow
  <2>2. Head(p) = Templates!Window /\ Templates!Name(p) = Templates!Window
    BY NameOfOne
  <2> HIDE DEF p
  <2>3. p \in DOMAIN Templates!TemplateContext
        /\ Templates!TemplateContext[p] = Templates!Leaf(t_window)
    <3>1. CASE t_mode = "unload"
      BY <2>1, <3>1 DEF Templates!TemplateContext
    <3>2. CASE t_mode = "stream"
      <4> DEFINE a == Templates!Merge(t_context, t_sqlParams)   b == Templates!Merge(a, t_shard)
      <4>1. p \in DOMAIN a /\ a[p] = Templates!Leaf(t_window)
        BY <2>1, Merged
      <4> HIDE DEF a
      <4>2. p \in DOMAIN b /\ b[p] = Templates!Leaf(t_window)
        BY <2>2, <3>2, <4>1, Merged
      <4> HIDE DEF b
      <4>3. Templates!Window # Templates!ShardIndex
        BY DEF Templates!Window, Templates!ShardIndex
      <4>4. Templates!TemplateContext = Templates!With(b, Templates!ShardIndex, 0)
        BY <3>2 DEF Templates!TemplateContext, a, b
      <4> QED  BY <2>2, <4>2, <4>3, <4>4, OtherNames
    <3> QED  BY <1>1, <3>1, <3>2 DEF TemplatesInv
  <2>4. Templates!Leaf(t_window).ref = Templates!NoRef
    BY DEF Templates!Leaf
  <2> QED  BY <1>1, <2>2, <2>3, <2>4, ContextSeen
<1> QED  BY TemplatesAlways, <1>1, PTL

\* A shard's context: its own index, the shard, sql_params and Airflow's context, the
\* strongest first.
LEMMA ShardLayers ==
    ASSUME t_mode = "stream", NEW p
    PROVE  LET T == Templates!TemplateContext   K(m) == Templates!Keys(m)
               I == [q \in {<<Templates!ShardIndex>>} |-> Templates!Leaf(0)]
           IN  /\ p \in DOMAIN I => p \in DOMAIN T /\ T[p] = I[p]
               /\ p \in DOMAIN t_shard /\ Head(p) \notin K(I) => p \in DOMAIN T /\ T[p] = t_shard[p]
               /\ p \in DOMAIN t_sqlParams /\ Head(p) \notin K(I) \cup K(t_shard) =>
                     p \in DOMAIN T /\ T[p] = t_sqlParams[p]
               /\ p \in DOMAIN t_context /\ Head(p) \notin K(I) \cup K(t_shard) \cup K(t_sqlParams) =>
                     p \in DOMAIN T /\ T[p] = t_context[p]
               /\ K(T) \subseteq K(I) \cup K(t_shard) \cup K(t_sqlParams) \cup K(t_context)
<1> DEFINE I == [q \in {<<Templates!ShardIndex>>} |-> Templates!Leaf(0)]
           a == Templates!Merge(t_context, t_sqlParams)
           b == Templates!Merge(a, t_shard)
           T == Templates!TemplateContext
<1>1. T = Templates!Merge(b, I)
  BY DEF Templates!TemplateContext, Templates!With
<1>2. Templates!Keys(b) \subseteq Templates!Keys(t_shard) \cup Templates!Keys(a)
      /\ Templates!Keys(a) \subseteq Templates!Keys(t_sqlParams) \cup Templates!Keys(t_context)
  BY MergedKeys
<1>3. /\ p \in DOMAIN t_sqlParams => p \in DOMAIN a /\ a[p] = t_sqlParams[p]
      /\ p \in DOMAIN t_context /\ Head(p) \notin Templates!Keys(t_sqlParams) =>
            p \in DOMAIN a /\ a[p] = t_context[p]
  BY Merged
<1> HIDE DEF a
<1>4. /\ p \in DOMAIN t_shard => p \in DOMAIN b /\ b[p] = t_shard[p]
      /\ p \in DOMAIN a /\ Head(p) \notin Templates!Keys(t_shard) => p \in DOMAIN b /\ b[p] = a[p]
  BY Merged
<1> HIDE DEF b, I, T
<1>5. /\ p \in DOMAIN I => p \in DOMAIN T /\ T[p] = I[p]
      /\ p \in DOMAIN b /\ Head(p) \notin Templates!Keys(I) => p \in DOMAIN T /\ T[p] = b[p]
      /\ Templates!Keys(T) \subseteq Templates!Keys(b) \cup Templates!Keys(I)
  BY <1>1, Merged, MergedKeys
<1>6. p \in DOMAIN t_shard /\ Head(p) \notin Templates!Keys(I) => p \in DOMAIN T /\ T[p] = t_shard[p]
  BY <1>4, <1>5
<1>7. p \in DOMAIN t_sqlParams /\ Head(p) \notin Templates!Keys(I) \cup Templates!Keys(t_shard)
          => p \in DOMAIN T /\ T[p] = t_sqlParams[p]
  BY <1>3, <1>4, <1>5
<1>8. p \in DOMAIN t_context
      /\ Head(p) \notin Templates!Keys(I) \cup Templates!Keys(t_shard) \cup Templates!Keys(t_sqlParams)
          => p \in DOMAIN T /\ T[p] = t_context[p]
  BY <1>3, <1>4, <1>5
<1>9. Templates!Keys(T) \subseteq Templates!Keys(I) \cup Templates!Keys(t_shard)
          \cup Templates!Keys(t_sqlParams) \cup Templates!Keys(t_context)
  BY <1>2, <1>5
<1> QED  BY <1>5, <1>6, <1>7, <1>8, <1>9 DEF I, T

\* Under the context there are sql_params and, weakest of all, the params of the context.
LEMMA FlatLayers ==
    ASSUME NEW ctx, NEW p
    PROVE  LET m == Templates!Flattened(ctx)   K(l) == Templates!Keys(l) IN
           /\ p \in DOMAIN ctx => p \in DOMAIN m /\ m[p] = ctx[p]
           /\ p \in DOMAIN t_sqlParams /\ Head(p) \notin K(ctx) => p \in DOMAIN m /\ m[p] = t_sqlParams[p]
           /\ p \in DOMAIN Templates!Params(ctx) /\ Head(p) \notin K(ctx) \cup K(t_sqlParams) =>
                 p \in DOMAIN m /\ m[p] = Templates!Params(ctx)[p]
<1> DEFINE a == Templates!Merge(Templates!Params(ctx), t_sqlParams)
           m == Templates!Flattened(ctx)
<1>1. /\ p \in DOMAIN t_sqlParams => p \in DOMAIN a /\ a[p] = t_sqlParams[p]
      /\ p \in DOMAIN Templates!Params(ctx) /\ Head(p) \notin Templates!Keys(t_sqlParams) =>
            p \in DOMAIN a /\ a[p] = Templates!Params(ctx)[p]
  BY Merged
<1>2. m = Templates!Merge(a, ctx)
  BY DEF Templates!Flattened
<1> HIDE DEF a, m
<1>3. /\ p \in DOMAIN ctx => p \in DOMAIN m /\ m[p] = ctx[p]
      /\ p \in DOMAIN a /\ Head(p) \notin Templates!Keys(ctx) => p \in DOMAIN m /\ m[p] = a[p]
  BY <1>2, Merged
<1> QED  BY <1>1, <1>3 DEF m

\* What a layer says of a path of which no stronger layer has the key is what a
\* template sees under its name: no other path can take it
\* (flatten_and_render_params).
THEOREM NamesStayApart == Templates!Spec => []NamesApart
<1>1. ASSUME TemplatesInv PROVE NamesApart
  <2> DEFINE Layers == Templates!Layers
             T == Templates!TemplateContext
             m == Templates!Flattened(T)
             I == [q \in {<<Templates!ShardIndex>>} |-> Templates!Leaf(0)]
             W == Templates!Params(T)
             K(l) == Templates!Keys(l)
  <2> SUFFICES ASSUME t_at = "rendered", NEW i \in DOMAIN Layers, NEW p \in DOMAIN Layers[i],
                      \A j \in 1..(i - 1) : Head(p) \notin K(Layers[j]),
                      Layers[i][p].ref = Templates!NoRef
               PROVE  Templates!Name(p) \in DOMAIN t_env
                      /\ t_env[Templates!Name(p)] = Layers[i][p]
    BY DEF NamesApart, Templates!NamesApart
  <2>1. p \in DOMAIN m /\ m[p] = Layers[i][p]
    <3>1. CASE t_mode = "stream"
      <4>1. Layers = <<I, t_shard, t_sqlParams, t_context, W>>
        BY <3>1 DEF Templates!Layers
      <4> HIDE DEF Layers, I, W, T, m, K
      <4>2. i \in 1..5
        BY <4>1
      <4>3. /\ Layers[1] = I /\ Layers[2] = t_shard /\ Layers[3] = t_sqlParams
            /\ Layers[4] = t_context /\ Layers[5] = W
        BY <4>1
      <4>4. /\ p \in DOMAIN I => p \in DOMAIN T /\ T[p] = I[p]
            /\ p \in DOMAIN t_shard /\ Head(p) \notin K(I) => p \in DOMAIN T /\ T[p] = t_shard[p]
            /\ p \in DOMAIN t_sqlParams /\ Head(p) \notin K(I) \cup K(t_shard) =>
                  p \in DOMAIN T /\ T[p] = t_sqlParams[p]
            /\ p \in DOMAIN t_context /\ Head(p) \notin K(I) \cup K(t_shard) \cup K(t_sqlParams) =>
                  p \in DOMAIN T /\ T[p] = t_context[p]
            /\ K(T) \subseteq K(I) \cup K(t_shard) \cup K(t_sqlParams) \cup K(t_context)
        BY <3>1, ShardLayers DEF I, T, K
      <4>5. /\ p \in DOMAIN T => p \in DOMAIN m /\ m[p] = T[p]
            /\ p \in DOMAIN W /\ Head(p) \notin K(T) \cup K(t_sqlParams) => p \in DOMAIN m /\ m[p] = W[p]
        BY FlatLayers DEF m, W, K
      <4>6. CASE i = 1
        BY <4>3, <4>4, <4>5, <4>6
      <4>7. CASE i = 2
        <5>1. Head(p) \notin K(I)
          BY <4>3, <4>7
        <5> QED  BY <4>3, <4>4, <4>5, <4>7, <5>1
      <4>8. CASE i = 3
        <5>1. Head(p) \notin K(I) \cup K(t_shard)
          BY <4>3, <4>8
        <5> QED  BY <4>3, <4>4, <4>5, <4>8, <5>1
      <4>9. CASE i = 4
        <5>1. Head(p) \notin K(I) \cup K(t_shard) \cup K(t_sqlParams)
          BY <4>3, <4>9
        <5> QED  BY <4>3, <4>4, <4>5, <4>9, <5>1
      <4>10. CASE i = 5
        <5>1. Head(p) \notin K(I) \cup K(t_shard) \cup K(t_sqlParams) \cup K(t_context)
          BY <4>3, <4>10
        <5> QED  BY <4>3, <4>4, <4>5, <4>10, <5>1
      <4> QED  BY <4>2, <4>6, <4>7, <4>8, <4>9, <4>10
    <3>2. CASE t_mode = "unload"
      <4>1. Layers = <<t_context, t_sqlParams, W>> /\ T = t_context
        BY <3>2 DEF Templates!Layers, Templates!TemplateContext
      <4> HIDE DEF Layers, I, W, T, m, K
      <4>2. i \in 1..3 /\ Layers[1] = t_context /\ Layers[2] = t_sqlParams /\ Layers[3] = W
        BY <4>1
      <4>3. /\ p \in DOMAIN T => p \in DOMAIN m /\ m[p] = T[p]
            /\ p \in DOMAIN t_sqlParams /\ Head(p) \notin K(T) => p \in DOMAIN m /\ m[p] = t_sqlParams[p]
            /\ p \in DOMAIN W /\ Head(p) \notin K(T) \cup K(t_sqlParams) => p \in DOMAIN m /\ m[p] = W[p]
        BY FlatLayers DEF m, W, K
      <4>4. CASE i = 1
        BY <4>1, <4>2, <4>3, <4>4
      <4>5. CASE i = 2
        <5>1. Head(p) \notin K(T)
          BY <4>1, <4>2, <4>5
        <5> QED  BY <4>2, <4>3, <4>5, <5>1
      <4>6. CASE i = 3
        <5>1. Head(p) \notin K(T) \cup K(t_sqlParams)
          BY <4>1, <4>2, <4>6
        <5> QED  BY <4>2, <4>3, <4>6, <5>1
      <4> QED  BY <4>2, <4>4, <4>5, <4>6
    <3> QED  BY <1>1, <3>1, <3>2 DEF TemplatesInv
  <2>2. m[p].ref = Templates!NoRef
    BY <2>1
  <2> QED  BY <1>1, <2>1, <2>2, Seen
<1> QED  BY TemplatesAlways, <1>1, PTL

\* Keys of mappings, those among them that the operator makes itself.
AllKeys == Seq(STRING) \cup {Templates!Window, Templates!ShardIndex}

ValuesKnown(m) == \A p \in DOMAIN m : m[p] \in Templates!Leaves
PathsKnown(m) == \A p \in DOMAIN m : p \in Seq(AllKeys) /\ p # <<>>

\* Every value that a template can see comes from one of the mappings or is a window.
TemplatesTypes ==
    /\ Templates!TypeOK
    /\ PathsKnown(t_shard) /\ PathsKnown(t_sqlParams) /\ PathsKnown(t_context)

\* What the mappings given to the operator are made of.
LEMMA MappingsKnown ==
    ASSUME NEW m \in SqlParams \cup Contexts \cup ShardMaps
    PROVE  ValuesKnown(m) /\ PathsKnown(m)
<1>1. ASSUME NEW p \in Seq(Seq(STRING)) PROVE p \in Seq(AllKeys)
  <2>1. Seq(STRING) \subseteq AllKeys
    BY DEF AllKeys
  <2> QED  BY <2>1
<1>2. \A p \in DOMAIN m : p \in Seq(Seq(STRING)) /\ p # <<>>
  BY PartsAssumption
<1>3. ValuesKnown(m)
  <2> SUFFICES ASSUME NEW p \in DOMAIN m PROVE m[p] \in Templates!Leaves
    BY DEF ValuesKnown
  <2> DEFINE Values(x) == {x[q] : q \in DOMAIN x}
  <2>1. m[p] \in Values(m)
    OBVIOUS
  <2>2. Values(m) \in {Values(x) : x \in SqlParams \cup Contexts \cup ShardMaps}
    OBVIOUS
  <2>3. m[p] \in UNION {Values(x) : x \in SqlParams \cup Contexts \cup ShardMaps}
    <3> HIDE DEF Values
    <3> QED  BY <2>1, <2>2
  <2> QED  BY <2>3 DEF Templates!Leaves
<1> QED  BY <1>1, <1>2, <1>3 DEF PathsKnown

LEMMA WindowsKnown ==
    ASSUME NEW n \in 0..TemplateCalls
    PROVE  Templates!Leaf(n) \in Templates!Leaves
BY DEF Templates!Leaves

\* Merging mappings makes up neither values nor paths.
LEMMA MergeKnown ==
    ASSUME NEW a, NEW b
    PROVE  /\ ValuesKnown(a) /\ ValuesKnown(b) => ValuesKnown(Templates!Merge(a, b))
           /\ PathsKnown(a) /\ PathsKnown(b) => PathsKnown(Templates!Merge(a, b))
<1>1. \A p \in DOMAIN Templates!Merge(a, b) :
          \/ p \in DOMAIN b /\ Templates!Merge(a, b)[p] = b[p]
          \/ p \in DOMAIN a /\ Templates!Merge(a, b)[p] = a[p]
  BY Merged
<1> QED  BY <1>1 DEF ValuesKnown, PathsKnown

LEMMA WithKnown ==
    ASSUME NEW m, NEW name \in {Templates!Window, Templates!ShardIndex},
           NEW n \in 0..TemplateCalls, ValuesKnown(m), PathsKnown(m)
    PROVE  ValuesKnown(Templates!With(m, name, n)) /\ PathsKnown(Templates!With(m, name, n))
<1> DEFINE b == [p \in {<<name>>} |-> Templates!Leaf(n)]
<1>1. <<name>> \in Seq(AllKeys) /\ <<name>> # <<>>
  BY DEF AllKeys
<1>2. DOMAIN b = {<<name>>} /\ b[<<name>>] \in Templates!Leaves
  BY WindowsKnown
<1>3. Templates!With(m, name, n) = Templates!Merge(m, b)
  BY DEF Templates!With
<1> HIDE DEF b
<1>4. ValuesKnown(b) /\ PathsKnown(b)
  BY <1>1, <1>2 DEF ValuesKnown, PathsKnown
<1> QED  BY <1>3, <1>4, MergeKnown

LEMMA ParamsKnown ==
    ASSUME NEW ctx, ValuesKnown(ctx), PathsKnown(ctx)
    PROVE  ValuesKnown(Templates!Params(ctx))
<1> SUFFICES ASSUME NEW q \in DOMAIN ctx, Head(q) = <<"params">>
             PROVE  ctx[<<<<"params">>>> \o Tail(q)] \in Templates!Leaves
  BY DEF ValuesKnown, Templates!Params
<1>1. q \in Seq(AllKeys) /\ q # <<>>
  BY DEF PathsKnown
<1>2. q = <<Head(q)>> \o Tail(q)
  <2> DEFINE s == <<Head(q)>> \o Tail(q)
  <2>1. s \in Seq(AllKeys) /\ Len(s) = Len(q) /\ \A i \in 1..Len(q) : s[i] = q[i]
    BY <1>1
  <2> HIDE DEF s
  <2>2. s = q
    BY <1>1, <2>1, SeqEqual
  <2> QED  BY <2>2 DEF s
<1> QED  BY <1>2 DEF ValuesKnown

\* Neither does rendering.
LEMMA RenderKnown ==
    ASSUME NEW ctx, NEW then, ValuesKnown(ctx), PathsKnown(ctx), ValuesKnown(t_sqlParams),
           ValuesKnown(t_env), Templates!Render(ctx, then)
    PROVE  ValuesKnown(t_env)' /\ t_at' \in {"idle", then}
<1> DEFINE m == Templates!Flattened(ctx)
<1>1. ValuesKnown(m)
  BY ParamsKnown, MergeKnown DEF Templates!Flattened
<1>2. CASE t_at' = "idle" /\ t_env' = t_env
  <2>1. Templates!Leaves' = Templates!Leaves
    BY DEF Templates!Leaves
  <2> QED  BY <1>2, <2>1 DEF ValuesKnown
<1>3. CASE /\ t_at' = then
           /\ t_env' = [n \in {Templates!Name(p) : p \in DOMAIN m} |->
                  Templates!Rendered(ctx, m[CHOOSE p \in DOMAIN m : Templates!Name(p) = n])]
  <2> HIDE DEF m
  <2>1. ASSUME NEW n \in DOMAIN t_env' PROVE t_env'[n] \in Templates!Leaves
    <3> DEFINE p == CHOOSE p \in DOMAIN m : Templates!Name(p) = n
    <3>1. p \in DOMAIN m
      BY <1>3
    <3>2. t_env'[n] = Templates!Rendered(ctx, m[p])
      BY <1>3
    <3> HIDE DEF p
    <3>3. m[p] \in Templates!Leaves
      BY <1>1, <3>1 DEF ValuesKnown
    <3> QED  BY <3>2, <3>3 DEF Templates!Rendered, ValuesKnown
  <2> QED  BY <1>3, <2>1 DEF ValuesKnown
<1> QED  BY <1>2, <1>3 DEF Templates!Render

LEMMA TypesInit == Templates!Init => TemplatesTypes
<1> SUFFICES ASSUME Templates!Init PROVE TemplatesTypes
  OBVIOUS
<1>1. /\ t_mode \in {"stream", "unload"} /\ t_shard \in ShardMaps /\ t_sqlParams \in SqlParams
      /\ t_at = "idle" /\ DOMAIN t_context = {} /\ t_window = 0 /\ DOMAIN t_env = {}
  BY DEF Templates!Init, Templates!Begin, Templates!Empty
<1>2. 0 \in 0..TemplateCalls
  BY PartsAssumption
<1>3. ValuesKnown(t_sqlParams) /\ PathsKnown(t_sqlParams) /\ PathsKnown(t_shard)
  BY <1>1, MappingsKnown
<1> QED  BY <1>1, <1>2, <1>3 DEF TemplatesTypes, Templates!TypeOK, ValuesKnown, PathsKnown

LEMMA TypesStep == TemplatesTypes /\ [Templates!Next]_(Templates!vars) => TemplatesTypes'
<1> SUFFICES ASSUME TemplatesTypes, [Templates!Next]_(Templates!vars) PROVE TemplatesTypes'
  OBVIOUS
<1>1. /\ t_mode \in {"stream", "unload"} /\ t_shard \in ShardMaps /\ t_window \in 0..TemplateCalls
      /\ t_at \in {"idle", "query", "inject", "render", "rendered"}
      /\ ValuesKnown(t_sqlParams) /\ ValuesKnown(t_context) /\ ValuesKnown(t_env)
      /\ PathsKnown(t_shard) /\ PathsKnown(t_sqlParams) /\ PathsKnown(t_context)
      /\ TemplateCalls \in Nat
  BY PartsAssumption DEF TemplatesTypes, Templates!TypeOK, ValuesKnown
<1>2. Templates!Leaves' = Templates!Leaves
  BY DEF Templates!Leaves
<1>3. ASSUME t_mode' \in {"stream", "unload"}, t_shard' = t_shard, t_window' \in 0..TemplateCalls,
             t_at' \in {"idle", "query", "inject", "render", "rendered"},
             ValuesKnown(t_sqlParams)', ValuesKnown(t_context)', ValuesKnown(t_env)',
             PathsKnown(t_sqlParams)', PathsKnown(t_context)'
      PROVE  TemplatesTypes'
  BY <1>1, <1>2, <1>3 DEF TemplatesTypes, Templates!TypeOK, ValuesKnown, PathsKnown
<1>4. CASE Templates!Execute
  <2>1. t_context' \in Contexts /\ t_window' \in 0..TemplateCalls
    BY <1>1, <1>4 DEF Templates!Execute
  <2>2. ValuesKnown(t_context') /\ PathsKnown(t_context')
    BY <2>1, MappingsKnown
  <2> QED  BY <1>1, <1>2, <1>3, <1>4, <2>1, <2>2 DEF Templates!Execute, ValuesKnown, PathsKnown
<1>5. CASE Templates!RenderQuery
  <2>1. ValuesKnown(t_env)' /\ t_at' \in {"idle", "inject"}
    BY <1>1, <1>5, RenderKnown DEF Templates!RenderQuery
  <2> QED  BY <1>1, <1>2, <1>3, <1>5, <2>1 DEF Templates!RenderQuery, ValuesKnown, PathsKnown
<1>6. CASE Templates!InjectWindow
  <2>1. \A m : ValuesKnown(m) /\ PathsKnown(m) =>
            /\ ValuesKnown(Templates!With(m, Templates!Window, t_window))
            /\ PathsKnown(Templates!With(m, Templates!Window, t_window))
    BY <1>1, WithKnown
  <2> QED  BY <1>1, <1>2, <1>3, <1>6, <2>1 DEF Templates!InjectWindow, ValuesKnown, PathsKnown
<1>7. CASE Templates!RenderTemplates
  <2>1. ValuesKnown(Templates!TemplateContext) /\ PathsKnown(Templates!TemplateContext)
    <3>1. ValuesKnown(t_shard)
      BY <1>1, MappingsKnown
    <3>2. 0 \in 0..TemplateCalls
      BY <1>1
    <3> QED  BY <1>1, <3>1, <3>2, MergeKnown, WithKnown DEF Templates!TemplateContext
  <2>2. ValuesKnown(t_env)' /\ t_at' \in {"idle", "rendered"}
    BY <1>1, <1>7, <2>1, RenderKnown DEF Templates!RenderTemplates
  <2> QED  BY <1>1, <1>2, <1>3, <1>7, <2>2 DEF Templates!RenderTemplates, ValuesKnown, PathsKnown
<1>8. CASE Templates!Export
  BY <1>1, <1>2, <1>3, <1>8 DEF Templates!Export, ValuesKnown, PathsKnown
<1>9. CASE UNCHANGED Templates!vars
  BY <1>1, <1>2, <1>3, <1>9 DEF Templates!vars, ValuesKnown, PathsKnown
<1> QED  BY <1>4, <1>5, <1>6, <1>7, <1>8, <1>9 DEF Templates!Next

-----------------------------------------------------------------------------
\* The five components together, each with the types of its own.
THEOREM PartsTyped ==
    Spec /\ Adapter!Spec /\ Pre!Spec /\ Report!Spec /\ Templates!Spec => []PartsTypeOK
<1>1. Inv /\ AdapterInv /\ PreInv /\ ReportInv /\ TemplatesTypes => PartsTypeOK
  <2>1. Inv => TypeOK
    BY DEF Inv
  <2>2. AdapterInv => Adapter!TypeOK
    BY DEF AdapterInv, AdapterTypes
  <2>3. PreInv => Pre!TypeOK
    BY DEF PreInv, PreTypes, RegistryOrder, Pre!TypeOK
  <2>4. ReportInv => Report!TypeOK
    BY DEF ReportInv, ReportTypes
  <2>5. TemplatesTypes => Templates!TypeOK
    BY DEF TemplatesTypes
  <2> QED  BY <2>1, <2>2, <2>3, <2>4, <2>5 DEF PartsTypeOK
<1>2. Spec => []Inv
  BY InvInit, InvNext, PTL DEF Spec
<1>3. Adapter!Spec => []AdapterInv
  BY AdapterInit, AdapterStep, PTL DEF Adapter!Spec
<1>4. Pre!Spec => []PreInv
  BY PreInit, PreStep, PTL DEF Pre!Spec
<1>5. Report!Spec => []ReportInv
  BY ReportInit, ReportStep, PTL DEF Report!Spec
<1>6. Templates!Spec => []TemplatesTypes
  BY TypesInit, TypesStep, PTL DEF Templates!Spec
<1> QED  BY <1>1, <1>2, <1>3, <1>4, <1>5, <1>6, PTL
=============================================================================
