------------------------- MODULE StreamRecordsProofs -------------------------
(***************************************************************************)
(* Theorems about StreamRecords, for any number of records and workers and  *)
(* any buffer: the records come out once and in order, memory is bounded,   *)
(* and the workers, the buffer and the emitter implement OrderedStream.     *)
(***************************************************************************)
EXTENDS StreamRecords, FiniteSetTheorems, TLAPS

\* The mutex of the buffer: who holds it is between taking and releasing it.
Mutex ==
  /\ \A w \in Workers : lock = w <=> pc[w] \in {"check", "wait", "put"}
  /\ lock = TheEmitter <=> epc = "scan"

\* A record in the buffer or with a worker belongs to a claimed input whose turn
\* has not passed, and no two workers have one input ...
Held ==
  /\ nextEmit <= claim
  /\ \A i \in buf : nextEmit <= i /\ i < claim
  /\ \A w \in Workers : InHand(w) =>
       idx[w] \in Idx /\ nextEmit <= idx[w] /\ idx[w] < claim /\ idx[w] \notin buf
  /\ \A v, w \in Workers : InHand(v) /\ InHand(w) /\ idx[v] = idx[w] => v = w

\* ... and until the stream is cut each such input has its record in one of the
\* two places.
NoneLost == ~abort => \A i \in nextEmit .. (N - 1) :
  i < claim => i \in buf \/ \E w \in Workers : InHand(w) /\ idx[w] = i

\* What the emitter has in its hands at each of its steps.
EmitterPlace ==
  /\ epc \in {"lock", "scan", "asleep"} => drained = << >>
  /\ epc = "raise" => drained # << >>
  /\ epc = "wakeAll" => abort
  /\ abort => epc \in {"wakeAll", "end", "returned"} /\ drained # << >>
  /\ epc \in {"end", "returned"} /\ ~abort => drained = << >> /\ nextEmit = N

\* The buffer exceeds its cap only by the record whose turn it is.
Room ==
  /\ Cardinality(buf) <= Cap + 1
  /\ nextEmit \notin buf => Cardinality(buf) <= Cap
  /\ Len(drained) <= Cap + 1
  /\ \A w \in Workers : pc[w] = "put" =>
       abort \/ Cardinality(buf) < Cap \/ idx[w] = nextEmit

\* The tally counts the verdicts on stdout, until one was counted and not written.
Shown(v) == \E k \in DOMAIN written : verdict[written[k]] = v
TallyTrue == ~abort /\ epc # "raise" =>
  /\ tally.failed > 0 <=> Shown("error")
  /\ tally.pages > 0 <=> Shown("pages")
  /\ tally.ir > 0 <=> Shown("ir")

Inv == TypeOK /\ Mutex /\ Held /\ NoneLost /\ Ordered /\ EmitterPlace /\ Room /\ TallyTrue
-----------------------------------------------------------------------------
LEMMA WorkersPositive == Workers \subseteq Nat \ {0} /\ Free \notin Workers
                         /\ TheEmitter \notin Workers /\ Free # TheEmitter
  BY SizesAssumption DEF Workers, Free, TheEmitter

LEMMA CapPositive == Cap \in Nat \ {0}
  <1>1. \A a, b \in Nat \ {0} : a * b \in Nat \ {0}
    OBVIOUS
  <1> QED
    BY <1>1, SizesAssumption DEF Cap

\* Records are numbered from 0: a set of them is finite.
LEMMA RecordsFinite == \A S \in SUBSET Idx : IsFiniteSet(S) /\ Cardinality(S) \in Nat
  <1>1. IsFiniteSet(Idx)
    BY FS_Interval, SizesAssumption DEF Idx
  <1> QED
    BY <1>1, FS_Subset, FS_CardinalityType

LEMMA InitInv == Init => Inv
  <1> SUFFICES ASSUME Init PROVE Inv
    OBVIOUS
  <1> USE DEF Init
  <1>1. TypeOK
    <2>1. pc \in [Workers -> {"head"}] /\ idx \in [Workers -> Nat]
      BY SizesAssumption
    <2>2. tally \in [failed : Nat, pages : Nat, ir : Nat]
      BY DEF NoTally
    <2>3. << >> \in Seq(Idx) /\ 0 \in 0 .. N
      BY SizesAssumption
    <2>4. verdict \in Outcomes /\ claim \in Nat /\ abort \in BOOLEAN
      OBVIOUS
    <2>5. pc \in [Workers -> {"head", "claim", "make", "lock", "check", "wait", "asleep",
                             "put", "done"}]
      BY <2>1
    <2> QED
      BY <2>1, <2>2, <2>3, <2>4, <2>5 DEF TypeOK
  <1>2. Mutex
    BY WorkersPositive DEF Mutex
  <1>3. Held /\ NoneLost
    BY SizesAssumption DEF Held, NoneLost, InHand
  <1>4. Ordered /\ EmitterPlace /\ TallyTrue
    BY DEF Ordered, EmitterPlace, TallyTrue, Shown, NoTally
  <1>5. Room
    BY FS_EmptySet, CapPositive DEF Room
  <1> QED
    BY <1>1, <1>2, <1>3, <1>4, <1>5 DEF Inv
-----------------------------------------------------------------------------
(* Types and the mutex.                                                     *)

\* The records a round takes out: the inputs from next_emit up to k, in order.
LEMMA DrainedRun ==
  ASSUME TypeOK, NEW k \in (nextEmit + 1) .. N,
         drained' = Kept \o [j \in 1 .. (k - nextEmit) |-> nextEmit + j - 1]
  PROVE  /\ drained' \in Seq(Idx) /\ Len(drained') = k - nextEmit
         /\ \A j \in 1 .. (k - nextEmit) : drained'[j] = nextEmit + j - 1
  <1> DEFINE run == [j \in 1 .. (k - nextEmit) |-> nextEmit + j - 1]
  <1>1. k - nextEmit \in Nat
    BY SizesAssumption DEF TypeOK
  <1>2. \A j \in 1 .. (k - nextEmit) : nextEmit + j - 1 \in Idx
    BY SizesAssumption DEF TypeOK, Idx
  <1>3. run \in Seq(Idx) /\ Len(run) = k - nextEmit
    BY <1>1, <1>2
  <1>4. drained' = run
    BY <1>3 DEF Kept
  <1> QED
    BY <1>3, <1>4

LEMMA TypeStep == Inv /\ [Next]_vars => TypeOK'
  <1> SUFFICES ASSUME Inv, [Next]_vars PROVE TypeOK'
    OBVIOUS
  <1>0. TypeOK
    BY DEF Inv
  <1> USE <1>0 DEF TypeOK, workerVars, emitterVars
  <1>1. ASSUME NEW w \in Workers, Worker(w) PROVE TypeOK'
    <2>1. CASE SeeAbort(w)
      BY <2>1 DEF SeeAbort, Goto
    <2>2. CASE Claim(w)
      BY <2>2 DEF Claim, Goto
    <2>3. CASE Make(w)
      BY <2>3 DEF Make, Goto
    <2>4. CASE LockBuf(w)
      BY <2>4 DEF LockBuf, Goto
    <2>5. CASE CheckSpace(w)
      BY <2>5 DEF CheckSpace, Goto
    <2>6. CASE WaitSpace(w)
      BY <2>6 DEF WaitSpace, Goto
    <2>7. CASE Wake(w)
      BY <2>7 DEF Wake, Goto
    <2>8. CASE Put(w)
      <3>1. idx[w] \in Idx
        BY <2>8 DEF Put, Inv, Held, InHand
      <3> QED
        BY <2>8, <3>1 DEF Put, Goto
    <2> QED
      BY <1>1, <2>1, <2>2, <2>3, <2>4, <2>5, <2>6, <2>7, <2>8 DEF Worker
  <1>2. ASSUME Drain PROVE TypeOK'
    <2>1. PICK k \in Idx \cup {N} :
            /\ k \in (nextEmit + 1) .. N
            /\ buf' = buf \ (nextEmit .. (k - 1))
            /\ drained' = Kept \o [j \in 1 .. (k - nextEmit) |-> nextEmit + j - 1]
            /\ nextEmit' = k
      BY <1>2 DEF Drain, RunTo
    <2>2. drained' \in Seq(Idx)
      BY <2>1, DrainedRun
    <2>3. nextEmit' \in 0 .. N
      BY <2>1, SizesAssumption
    <2> QED
      BY <1>2, <2>1, <2>2, <2>3 DEF Drain
  <1>3. ASSUME NEW i \in Idx PROVE Counted(i) \in [failed : Nat, pages : Nat, ir : Nat]
    BY DEF Counted
  <1>4. ASSUME drained # << >>
        PROVE  Head(drained) \in Idx /\ Tail(drained) \in Seq(Idx)
    BY <1>4
  <1>5. CASE WriteRecord
    <2>1. CASE drained = << >>
      BY <1>5, <2>1 DEF WriteRecord
    <2>2. CASE drained # << >>
      <3>1. Append(written, Head(drained)) \in Seq(Idx)
        BY <1>4, <2>2
      <3> QED
        BY <1>5, <2>2, <1>3, <1>4, <3>1 DEF WriteRecord
    <2> QED
      BY <2>1, <2>2
  <1>6. CASE WriteBreaks
    BY <1>6, <1>3, <1>4 DEF WriteBreaks
  <1>7. CASE EmitterLocks
    BY <1>7 DEF EmitterLocks
  <1>8. CASE EmitterWaits
    BY <1>8 DEF EmitterWaits
  <1>9. CASE EmitterWakes
    BY <1>9 DEF EmitterWakes
  <1>10. CASE NotifySpace
    BY <1>10 DEF NotifySpace
  <1>11. CASE RaiseAbort
    BY <1>11 DEF RaiseAbort
  <1>12. CASE WakeAll
    BY <1>12 DEF WakeAll
  <1>13. CASE Return
    BY <1>13 DEF Return
  <1>14. CASE SpuriousWake
    BY <1>14 DEF SpuriousWake
  <1>15. CASE UNCHANGED vars
    BY <1>15 DEF vars
  <1> QED
    BY <1>1, <1>2, <1>5, <1>6, <1>7, <1>8, <1>9, <1>10, <1>11, <1>12, <1>13, <1>14,
       <1>15 DEF Next, Emitter, Terminated

LEMMA MutexStep == Inv /\ [Next]_vars => Mutex'
  <1> SUFFICES ASSUME Inv, [Next]_vars PROVE Mutex'
    OBVIOUS
  <1>0. TypeOK /\ Mutex
    BY DEF Inv
  <1> USE <1>0, WorkersPositive DEF Mutex, workerVars, emitterVars
  <1>t. pc \in [Workers -> {"head", "claim", "make", "lock", "check", "wait", "asleep",
                          "put", "done"}]
    BY DEF TypeOK
  <1>1. ASSUME NEW w \in Workers, Worker(w) PROVE Mutex'
    <2>1. epc' = epc /\ pc' = [pc EXCEPT ![w] = pc'[w]]
      BY <1>1, <1>t DEF Worker, SeeAbort, Claim, Make, LockBuf, CheckSpace, WaitSpace, Wake,
         Put, Goto
    <2>2. \/ lock' = lock /\ (pc'[w] \in {"check", "wait", "put"}
                               <=> pc[w] \in {"check", "wait", "put"})
          \/ lock = Free /\ lock' = w /\ pc'[w] = "check"
          \/ lock = w /\ lock' = Free /\ pc'[w] \notin {"check", "wait", "put"}
      BY <1>1, <1>t DEF Worker, SeeAbort, Claim, Make, LockBuf, CheckSpace, WaitSpace, Wake,
         Put, Goto
    <2> QED
      BY <2>1, <2>2, <1>t
  <1>2. CASE Emitter
    <2>1. \/ lock' = lock /\ epc # "scan" /\ epc' # "scan"
          \/ lock = Free /\ lock' = TheEmitter /\ epc' = "scan"
          \/ epc = "scan" /\ lock' = Free /\ epc' # "scan"
      BY <1>2 DEF Emitter, EmitterLocks, EmitterWaits, EmitterWakes, Drain, NotifySpace,
         WriteRecord, WriteBreaks, RaiseAbort, WakeAll, Return
    <2>2. pc' = pc
      BY <1>2 DEF Emitter, EmitterLocks, EmitterWaits, EmitterWakes, Drain, NotifySpace,
         WriteRecord, WriteBreaks, RaiseAbort, WakeAll, Return
    <2> QED
      BY <2>1, <2>2
  <1>3. CASE SpuriousWake
    BY <1>3 DEF SpuriousWake
  <1>4. CASE UNCHANGED vars
    BY <1>4 DEF vars
  <1> QED
    BY <1>1, <1>2, <1>3, <1>4 DEF Next, Terminated
-----------------------------------------------------------------------------
(* Where the records are.                                                   *)

\* A step that moves no record and claims no input.
LEMMA HeldSame ==
  ASSUME Held, NoneLost, UNCHANGED <<claim, buf, nextEmit, idx>>, abort => abort',
         \A w \in Workers : InHand(w)' <=> InHand(w)
  PROVE  Held' /\ NoneLost'
  BY DEF Held, NoneLost

LEMMA HeldStep == Inv /\ [Next]_vars => Held' /\ NoneLost'
  <1> SUFFICES ASSUME Inv, [Next]_vars PROVE Held' /\ NoneLost'
    OBVIOUS
  <1>0. TypeOK /\ Held /\ NoneLost
    BY DEF Inv
  <1>t. /\ claim \in Nat /\ nextEmit \in 0 .. N /\ N \in Nat /\ buf \subseteq Idx
        /\ idx \in [Workers -> Nat]
        /\ pc \in [Workers -> {"head", "claim", "make", "lock", "check", "wait", "asleep",
                               "put", "done"}]
    BY <1>0, SizesAssumption DEF TypeOK
  <1>1. ASSUME NEW w \in Workers, SeeAbort(w) \/ Make(w) \/ LockBuf(w) \/ CheckSpace(w)
                                  \/ WaitSpace(w) \/ Wake(w)
        PROVE  Held' /\ NoneLost'
    <2>1. UNCHANGED <<claim, buf, nextEmit, idx, abort>>
      BY <1>1 DEF SeeAbort, Make, LockBuf, CheckSpace, WaitSpace, Wake, emitterVars
    <2>2. \A v \in Workers : InHand(v)' <=> InHand(v)
      BY <1>1, <1>t DEF SeeAbort, Make, LockBuf, CheckSpace, WaitSpace, Wake, Goto, InHand
    <2> QED
      BY <2>1, <2>2, <1>0, HeldSame
  <1>2. ASSUME NEW w \in Workers, Claim(w) PROVE Held' /\ NoneLost'
    <2>1. /\ claim' = claim + 1 /\ UNCHANGED <<buf, nextEmit, abort>>
          /\ idx'[w] = claim /\ \A v \in Workers \ {w} : idx'[v] = idx[v]
          /\ ~InHand(w) /\ \A v \in Workers \ {w} : InHand(v)' <=> InHand(v)
          /\ InHand(w)' <=> claim < N
      BY <1>2, <1>t DEF Claim, Goto, InHand, emitterVars, PastEnd
    <2>2. \A v \in Workers : InHand(v) => idx[v] # claim /\ idx[v] < claim + 1
      BY <1>0, <1>t DEF Held, Idx
    <2>3. claim \notin buf
      BY <1>0, <1>t DEF Held, Idx
    <2>4. Held'
      BY <2>1, <2>2, <2>3, <1>0, <1>t DEF Held, Idx
    <2>5. NoneLost'
      <3> SUFFICES ASSUME ~abort', NEW i \in nextEmit' .. (N - 1), i < claim'
                   PROVE  i \in buf' \/ \E v \in Workers : InHand(v)' /\ idx'[v] = i
        BY DEF NoneLost
      <3>1. CASE i = claim
        BY <3>1, <2>1, <1>t
      <3>2. CASE i < claim
        BY <3>2, <2>1, <1>0, <1>t DEF NoneLost
      <3> QED
        BY <3>1, <3>2, <2>1, <1>t
    <2> QED
      BY <2>4, <2>5
  <1>3. ASSUME NEW w \in Workers, Put(w) PROVE Held' /\ NoneLost'
    <2>1. /\ UNCHANGED <<claim, nextEmit, abort, idx>>
          /\ InHand(w) /\ ~InHand(w)'
          /\ \A v \in Workers \ {w} : InHand(v)' <=> InHand(v)
          /\ IF abort THEN buf' = buf ELSE buf' = buf \cup {idx[w]}
      BY <1>3, <1>t DEF Put, Goto, InHand, emitterVars
    <2>2. Held'
      BY <2>1, <1>0, <1>t DEF Held, Idx
    <2>3. NoneLost'
      BY <2>1, <1>0, <1>t DEF NoneLost
    <2> QED
      BY <2>2, <2>3
  <1>4. ASSUME Drain PROVE Held' /\ NoneLost'
    <2>1. PICK k \in (nextEmit + 1) .. N :
            /\ \A i \in nextEmit .. (k - 1) : i \in buf
            /\ buf' = buf \ (nextEmit .. (k - 1))
            /\ nextEmit' = k
      BY <1>4 DEF Drain, RunTo
    <2>2. UNCHANGED <<claim, abort, idx, pc>>
      BY <1>4 DEF Drain, workerVars
    <2>3. \A v \in Workers : InHand(v)' <=> InHand(v)
      BY <2>2 DEF InHand
    <2>4. k \in Nat /\ k - 1 \in nextEmit .. (k - 1)
      BY <2>1, <1>t
    <2>5. k <= claim /\ \A w \in Workers : InHand(w) => k <= idx[w]
      BY <2>1, <2>4, <1>0, <1>t DEF Held, Idx
    <2>6. Held'
      BY <2>1, <2>2, <2>3, <2>4, <2>5, <1>0, <1>t DEF Held, Idx
    <2>7. NoneLost'
      BY <2>1, <2>2, <2>3, <2>4, <1>0, <1>t DEF NoneLost
    <2> QED
      BY <2>6, <2>7
  <1>5. CASE EmitterLocks \/ EmitterWaits \/ EmitterWakes \/ NotifySpace \/ WriteRecord
             \/ WriteBreaks \/ RaiseAbort \/ WakeAll \/ Return \/ SpuriousWake \/ UNCHANGED vars
    <2>1. UNCHANGED <<claim, buf, nextEmit, idx, pc>> /\ (abort => abort')
      BY <1>5 DEF EmitterLocks, EmitterWaits, EmitterWakes, NotifySpace, WriteRecord,
         WriteBreaks, RaiseAbort, WakeAll, Return, SpuriousWake, workerVars, vars
    <2> QED
      BY <2>1, <1>0, HeldSame DEF InHand
  <1> QED
    BY <1>1, <1>2, <1>3, <1>4, <1>5 DEF Next, Worker, Emitter, Terminated

\* Neither a worker nor a wakeup touches what the emitter has.
LEMMA EmitterStep == Inv /\ [Next]_vars => Ordered' /\ EmitterPlace' /\ TallyTrue'
  <1> SUFFICES ASSUME Inv, [Next]_vars PROVE Ordered' /\ EmitterPlace' /\ TallyTrue'
    OBVIOUS
  <1>0. TypeOK /\ Ordered /\ EmitterPlace /\ TallyTrue
    BY DEF Inv
  <1>t. /\ nextEmit \in 0 .. N /\ N \in Nat /\ drained \in Seq(Idx) /\ written \in Seq(Idx)
        /\ tally \in [failed : Nat, pages : Nat, ir : Nat]
    BY <1>0, SizesAssumption DEF TypeOK
  <1>1. CASE \/ \E w \in Workers : Worker(w)
             \/ SpuriousWake \/ UNCHANGED vars
    <2>1. UNCHANGED <<emitterVars, abort, verdict>>
      BY <1>1 DEF Worker, SeeAbort, Claim, Make, LockBuf, CheckSpace, WaitSpace, Wake, Put,
         SpuriousWake, vars, emitterVars
    <2> QED
      BY <2>1, <1>0 DEF emitterVars, Ordered, EmitterPlace, TallyTrue, Shown
  <1>2. CASE EmitterLocks \/ EmitterWaits \/ EmitterWakes \/ NotifySpace \/ RaiseAbort
             \/ WakeAll \/ Return
    <2>1. UNCHANGED <<verdict, drained, written, tally, nextEmit>>
      BY <1>2 DEF EmitterLocks, EmitterWaits, EmitterWakes, NotifySpace, RaiseAbort,
         WakeAll, Return, workerVars
    <2>2. Ordered'
      BY <2>1, <1>0 DEF Ordered
    <2>3. EmitterPlace'
      BY <1>2, <2>1, <1>0, <1>t DEF EmitterPlace, EmitterLocks, EmitterWaits, EmitterWakes,
         NotifySpace, RaiseAbort, WakeAll, Return
    <2>4. abort' = abort \/ abort'
      BY <1>2 DEF EmitterLocks, EmitterWaits, EmitterWakes, NotifySpace, RaiseAbort,
         WakeAll, Return
    <2>5. epc = "raise" => abort'
      BY <1>2 DEF EmitterLocks, EmitterWaits, EmitterWakes, NotifySpace, RaiseAbort,
         WakeAll, Return
    <2>6. TallyTrue'
      BY <2>1, <2>4, <2>5, <1>0 DEF TallyTrue, Shown
    <2> QED
      BY <2>2, <2>3, <2>6
  <1>3. ASSUME Drain PROVE Ordered' /\ EmitterPlace' /\ TallyTrue'
    <2>1. PICK k \in (nextEmit + 1) .. N :
            /\ drained' = Kept \o [j \in 1 .. (k - nextEmit) |-> nextEmit + j - 1]
            /\ nextEmit' = k
      BY <1>3 DEF Drain, RunTo
    <2>2. /\ drained' \in Seq(Idx) /\ Len(drained') = k - nextEmit
          /\ \A j \in 1 .. (k - nextEmit) : drained'[j] = nextEmit + j - 1
      BY <1>0, <2>1, DrainedRun
    <2>3. /\ UNCHANGED <<abort, written, tally, verdict>> /\ epc = "scan" /\ epc' = "notify"
          /\ drained = << >>
      BY <1>3, <1>0 DEF Drain, workerVars, EmitterPlace
    <2>4. Len(written) = nextEmit /\ DOMAIN drained' = 1 .. (k - nextEmit)
      BY <2>2, <2>3, <1>0, <1>t DEF Ordered
    <2>5. Ordered'
      BY <2>1, <2>2, <2>3, <2>4, <1>0, <1>t DEF Ordered
    <2>6. EmitterPlace' /\ TallyTrue'
      BY <2>3, <1>0 DEF EmitterPlace, TallyTrue, Shown
    <2> QED
      BY <2>5, <2>6
  <1>4. ASSUME WriteRecord PROVE Ordered' /\ EmitterPlace' /\ TallyTrue'
    <2>1. CASE drained = << >>
      BY <1>4, <2>1, <1>0 DEF WriteRecord, Ordered, EmitterPlace, TallyTrue, Shown, workerVars
    <2>2. CASE drained # << >>
      <3> DEFINE i == Head(drained)
      <3>1. /\ tally' = Counted(i) /\ written' = Append(written, i)
            /\ drained' = Tail(drained)
            /\ UNCHANGED <<epc, abort, verdict, nextEmit>> /\ epc = "write" /\ ~abort
        BY <1>4, <2>2, <1>0 DEF WriteRecord, workerVars, EmitterPlace
      <3>2. /\ i = drained[1] /\ i \in Idx
            /\ Len(Tail(drained)) = Len(drained) - 1
            /\ \A j \in DOMAIN Tail(drained) : Tail(drained)[j] = drained[j + 1] /\ j + 1 \in DOMAIN drained
        BY <2>2, <1>t
      <3>3. /\ Len(written') = Len(written) + 1 /\ written'[Len(written) + 1] = i
            /\ \A j \in DOMAIN written : written'[j] = written[j]
            /\ DOMAIN written' = DOMAIN written \cup {Len(written) + 1}
        BY <3>1, <3>2, <1>t
      <3>4. i = Len(written)
        BY <3>2, <2>2, <1>0, <1>t DEF Ordered
      <3>5. Ordered'
        <4>0. /\ nextEmit' = nextEmit /\ Len(drained') = Len(drained) - 1
              /\ Len(drained) \in Nat /\ Len(written) \in Nat
              /\ nextEmit = Len(written) + Len(drained)
          BY <3>1, <3>2, <1>0, <1>t DEF Ordered
        <4>1. nextEmit' = Len(written') + Len(drained')
          BY <4>0, <3>3
        <4>2. \A n \in DOMAIN written' : written'[n] = n - 1
          <5>1. \A n \in DOMAIN written : written[n] = n - 1
            BY <1>0 DEF Ordered
          <5>2. written'[Len(written) + 1] = (Len(written) + 1) - 1
            BY <3>3, <3>4, <4>0
          <5> QED
            BY <5>1, <5>2, <3>3
        <4>3. ASSUME NEW n \in DOMAIN Tail(drained)
              PROVE  Tail(drained)[n] = Len(written) + 1 + n - 1
          <5>1. Tail(drained)[n] = drained[n + 1] /\ n + 1 \in DOMAIN drained /\ n \in Nat
            BY <3>2, <2>2, <1>t
          <5>2. drained[n + 1] = Len(written) + (n + 1) - 1
            BY <5>1, <1>0 DEF Ordered
          <5> QED
            BY <5>1, <5>2, <1>t
        <4> QED
          BY <4>1, <4>2, <4>3, <3>1, <3>3 DEF Ordered
      <3>6. EmitterPlace'
        BY <3>1, <1>0 DEF EmitterPlace
      <3>7. \A v : Shown(v)' <=> Shown(v) \/ verdict[i] = v
        BY <3>1, <3>3 DEF Shown
      <3>8. TallyTrue'
        BY <3>1, <3>7, <1>0, <1>t DEF TallyTrue, Counted
      <3> QED
        BY <3>5, <3>6, <3>8
    <2> QED
      BY <2>1, <2>2
  <1>5. ASSUME WriteBreaks PROVE Ordered' /\ EmitterPlace' /\ TallyTrue'
    <2>1. UNCHANGED <<drained, written, nextEmit, abort>> /\ epc' = "raise" /\ epc = "write"
          /\ drained # << >>
      BY <1>5 DEF WriteBreaks
    <2> QED
      BY <2>1, <1>0 DEF Ordered, EmitterPlace, TallyTrue
  <1> QED
    BY <1>1, <1>2, <1>3, <1>4, <1>5 DEF Next, Emitter, Terminated
-----------------------------------------------------------------------------
(* The bounds on what is held in memory.                                    *)

LEMMA RoomStep == Inv /\ [Next]_vars => Room'
  <1> SUFFICES ASSUME Inv, [Next]_vars PROVE Room'
    OBVIOUS
  <1>0. TypeOK /\ Mutex /\ Held /\ EmitterPlace /\ Room
    BY DEF Inv
  <1>t. /\ nextEmit \in 0 .. N /\ N \in Nat /\ drained \in Seq(Idx) /\ buf \subseteq Idx
        /\ Cap \in Nat \ {0}
        /\ pc \in [Workers -> {"head", "claim", "make", "lock", "check", "wait", "asleep",
                               "put", "done"}]
    BY <1>0, SizesAssumption, CapPositive DEF TypeOK
  <1>f. IsFiniteSet(buf) /\ Cardinality(buf) \in Nat
    BY <1>t, RecordsFinite
  <1>1. ASSUME NEW w \in Workers, CheckSpace(w) PROVE Room'
    <2>1. UNCHANGED <<abort, buf, nextEmit, drained, idx>>
      BY <1>1 DEF CheckSpace, emitterVars
    <2>2. pc'[w] = "put" => abort \/ Cardinality(buf) < Cap \/ idx[w] = nextEmit
      BY <1>1, <1>t, <1>f DEF CheckSpace, Goto, MustWait
    <2>3. \A v \in Workers \ {w} : pc'[v] = pc[v]
      BY <1>1, <1>t DEF CheckSpace, Goto
    <2> QED
      BY <2>1, <2>2, <2>3, <1>0 DEF Room
  <1>2. ASSUME NEW w \in Workers, Put(w) PROVE Room'
    <2>1. /\ UNCHANGED <<abort, nextEmit, drained, idx>> /\ pc[w] = "put" /\ pc'[w] # "put"
          /\ \A v \in Workers \ {w} : pc'[v] = pc[v]
          /\ IF abort THEN buf' = buf ELSE buf' = buf \cup {idx[w]}
      BY <1>2, <1>t DEF Put, Goto, emitterVars
    <2>2. \A v \in Workers : pc[v] = "put" => v = w
      BY <2>1, <1>0 DEF Mutex
    <2>3. CASE abort
      BY <2>1, <2>2, <2>3, <1>0 DEF Room
    <2>4. CASE ~abort
      <3>1. idx[w] \notin buf
        BY <2>1, <1>0 DEF Held, InHand
      <3>2. Cardinality(buf') = Cardinality(buf) + 1
        BY <2>1, <2>4, <3>1, <1>f, FS_AddElement
      <3>3. Cardinality(buf) < Cap \/ idx[w] = nextEmit
        BY <2>1, <2>4, <1>0 DEF Room
      <3>4. Cardinality(buf') <= Cap + 1 /\ (nextEmit \notin buf' => Cardinality(buf') <= Cap)
        <4>1. CASE Cardinality(buf) < Cap
          BY <4>1, <3>2, <1>t, <1>f
        <4>2. CASE idx[w] = nextEmit
          <5>1. Cardinality(buf) <= Cap /\ nextEmit \in buf'
            BY <4>2, <3>1, <2>1, <2>4, <1>0 DEF Room
          <5> QED
            BY <5>1, <3>2, <1>t, <1>f
        <4> QED
          BY <4>1, <4>2, <3>3
      <3> QED
        BY <2>1, <2>2, <3>4, <1>0 DEF Room
    <2> QED
      BY <2>3, <2>4
  <1>3. ASSUME Drain PROVE Room'
    <2>1. PICK k \in (nextEmit + 1) .. N :
            /\ \A i \in nextEmit .. (k - 1) : i \in buf
            /\ k \notin buf
            /\ buf' = buf \ (nextEmit .. (k - 1))
            /\ drained' = Kept \o [j \in 1 .. (k - nextEmit) |-> nextEmit + j - 1]
            /\ nextEmit' = k
      BY <1>3 DEF Drain, RunTo
    <2>2. Len(drained') = k - nextEmit
      BY <1>0, <2>1, DrainedRun
    <2>3. UNCHANGED <<abort, idx, pc>> /\ epc = "scan"
      BY <1>3 DEF Drain, workerVars
    <2>4. \A w \in Workers : pc[w] # "put"
      BY <2>3, <1>0, WorkersPositive DEF Mutex
    <2> DEFINE run == nextEmit .. (k - 1)
    <2>5. /\ run \subseteq buf /\ IsFiniteSet(run) /\ Cardinality(run) = k - nextEmit
      BY <2>1, <1>t, FS_Interval
    <2>6. Cardinality(run) <= Cardinality(buf)
      BY <2>5, <1>f, FS_Subset
    <2>7. buf \cap run = run
      BY <2>5
    <2> HIDE DEF run
    <2>8. Cardinality(buf \ run) = Cardinality(buf) - Cardinality(run)
      BY <2>7, <1>f, FS_Difference
    <2>9. Cardinality(buf') <= Cap /\ Len(drained') <= Cap + 1
      BY <2>1, <2>2, <2>5, <2>6, <2>8, <1>0, <1>t, <1>f DEF Room, run
    <2>10. Cardinality(buf') <= Cap + 1
      BY <2>1, <2>5, <2>8, <2>9, <1>t, <1>f DEF run
    <2> QED
      BY <2>3, <2>4, <2>9, <2>10 DEF Room
  <1>4. ASSUME WriteRecord PROVE Room'
    <2>1. UNCHANGED <<abort, buf, nextEmit, idx, pc>>
      BY <1>4 DEF WriteRecord, workerVars
    <2>2. Len(drained') <= Cap + 1
      <3>1. CASE drained = << >>
        BY <3>1, <1>4, <1>0 DEF WriteRecord, Room
      <3>2. CASE drained # << >>
        <4>1. Len(Tail(drained)) = Len(drained) - 1 /\ Len(drained) \in Nat
          BY <3>2, <1>t
        <4> QED
          BY <4>1, <3>2, <1>4, <1>0, <1>t DEF WriteRecord, Room
      <3> QED
        BY <3>1, <3>2
    <2> QED
      BY <2>1, <2>2, <1>0 DEF Room
  <1>5. ASSUME NEW w \in Workers, SeeAbort(w) \/ Claim(w) \/ Make(w) \/ LockBuf(w)
                                  \/ WaitSpace(w) \/ Wake(w)
        PROVE  Room'
    <2>1. UNCHANGED <<abort, buf, nextEmit, drained>>
      BY <1>5 DEF SeeAbort, Claim, Make, LockBuf, WaitSpace, Wake, emitterVars
    <2>2. \A v \in Workers : pc'[v] = "put" => pc[v] = "put" /\ idx'[v] = idx[v]
      BY <1>5, <1>t, <1>0 DEF SeeAbort, Claim, Make, LockBuf, WaitSpace, Wake, Goto, TypeOK
    <2> QED
      BY <2>1, <2>2, <1>0 DEF Room
  <1>6. CASE EmitterLocks \/ EmitterWaits \/ EmitterWakes \/ NotifySpace \/ WriteBreaks
             \/ RaiseAbort \/ WakeAll \/ Return \/ SpuriousWake \/ UNCHANGED vars
    <2>1. UNCHANGED <<buf, nextEmit, drained, pc, idx>> /\ (abort => abort')
      BY <1>6 DEF EmitterLocks, EmitterWaits, EmitterWakes, NotifySpace, WriteBreaks,
         RaiseAbort, WakeAll, Return, SpuriousWake, workerVars, vars
    <2> QED
      BY <2>1, <1>0 DEF Room
  <1> QED
    BY <1>1, <1>2, <1>3, <1>4, <1>5, <1>6 DEF Next, Worker, Emitter, Terminated

THEOREM InvHolds == Spec => []Inv
  <1>1. Inv /\ [Next]_vars => Inv'
    BY TypeStep, MutexStep, HeldStep, EmitterStep, RoomStep DEF Inv
  <1> QED
    BY <1>1, InitInv, PTL DEF Spec
-----------------------------------------------------------------------------
(* The properties.                                                          *)

\* Every reachable state of the stream is well typed.
THEOREM TypeCorrect == Spec => []TypeOK
  <1>1. Inv => TypeOK
    BY DEF Inv
  <1> QED
    BY <1>1, InvHolds, PTL

\* However slow one record is, the buffer and the batch being written hold at
\* most one record more than the cap.
THEOREM Bounded == Spec => []Backpressure
  <1>1. Inv => Backpressure
    BY DEF Inv, Room, Backpressure
  <1> QED
    BY <1>1, InvHolds, PTL

LEMMA OnePlace == Inv /\ ~abort => Conserved
  <1> SUFFICES ASSUME Inv, ~abort, NEW i \in Idx
               PROVE  Places(i) = IF i < claim THEN 1 ELSE 0
    BY DEF Conserved
  <1>0. TypeOK /\ Held /\ NoneLost /\ Ordered
    BY DEF Inv
  <1>t. /\ i \in Nat /\ nextEmit \in 0 .. N /\ N \in Nat /\ claim \in Nat
        /\ drained \in Seq(Idx) /\ written \in Seq(Idx)
        /\ Len(drained) \in Nat /\ Len(written) \in Nat
    BY <1>0, SizesAssumption DEF TypeOK, Idx
  <1> DEFINE hands == {w \in Workers : InHand(w) /\ idx[w] = i}
             inBuf == {i} \cap buf
             inBatch == {k \in DOMAIN drained : drained[k] = i}
             shown == {k \in DOMAIN written : written[k] = i}
  <1>1. \/ hands = {}
        \/ \E w : hands = {w}
    BY <1>0 DEF Held
  <1>2. hands # {} => i \notin buf /\ nextEmit <= i /\ i < claim
    BY <1>0 DEF Held
  <1>3. i \in buf => nextEmit <= i /\ i < claim
    BY <1>0 DEF Held
  <1>4. nextEmit <= i /\ i < claim => i \in buf \/ hands # {}
    BY <1>0, <1>t DEF NoneLost, Idx
  <1>5. shown = IF i < Len(written) THEN {i + 1} ELSE {}
    BY <1>0, <1>t DEF Ordered
  <1>6. inBatch = IF Len(written) <= i /\ i < nextEmit THEN {i - Len(written) + 1} ELSE {}
    BY <1>0, <1>t DEF Ordered
  <1>7. inBuf = IF i \in buf THEN {i} ELSE {}
    OBVIOUS
  <1>8. Cardinality({}) = 0 /\ \A x : Cardinality({x}) = 1
    BY FS_EmptySet, FS_Singleton
  <1>9. nextEmit <= claim /\ nextEmit = Len(written) + Len(drained)
    BY <1>0 DEF Held, Ordered
  <1> HIDE DEF hands, inBuf, inBatch, shown
  <1>10. Cardinality(hands) = IF hands = {} THEN 0 ELSE 1
    BY <1>1, <1>8
  <1>11. Cardinality(inBuf) = IF i \in buf THEN 1 ELSE 0
    BY <1>7, <1>8
  <1>12. Cardinality(inBatch) = IF Len(written) <= i /\ i < nextEmit THEN 1 ELSE 0
    BY <1>6, <1>8
  <1>13. Cardinality(shown) = IF i < Len(written) THEN 1 ELSE 0
    BY <1>5, <1>8
  <1>14. Places(i) = Cardinality(hands) + Cardinality(inBuf) + Cardinality(inBatch)
                       + Cardinality(shown)
    BY DEF Places, hands, inBuf, inBatch, shown
  <1> QED
    BY <1>2, <1>3, <1>4, <1>9, <1>10, <1>11, <1>12, <1>13, <1>14, <1>t

\* Until the stream is cut no record is lost or doubled, and the records are
\* written in the order of their inputs.
THEOREM InOrder == Spec => []InputOrder
  <1>1. Inv => InputOrder
    BY OnePlace DEF Inv, InputOrder
  <1> QED
    BY <1>1, InvHolds, PTL
-----------------------------------------------------------------------------
(* The refinement: what the consumer sees is an ordered stream.             *)

ShownRecords == [k \in DOMAIN written |->
                   [input |-> written[k], verdict |-> verdict[written[k]]]]
Code == IF epc = "returned" THEN <<ExitCode>> ELSE << >>

LEMMA InitMaps == Init => Stream!Init
  BY DEF Init, Stream!Init

\* A record is written: the next one in input order.
LEMMA EmitMaps ==
  ASSUME Inv, WriteRecord, drained # << >>
  PROVE  Stream!Emit
  <1>1. /\ drained \in Seq(Idx) /\ written \in Seq(Idx) /\ verdict \in [Idx -> Verdicts]
        /\ Len(written) \in Nat /\ N \in Nat
    BY SizesAssumption DEF Inv, TypeOK, Idx
  <1>2. Head(drained) = drained[1] /\ Head(drained) \in Idx /\ 1 \in DOMAIN drained
    BY <1>1
  <1>3. Head(drained) = Len(written)
    BY <1>1, <1>2 DEF Inv, Ordered
  <1>4. /\ written' = Append(written, Len(written)) /\ verdict' = verdict
        /\ epc = "write" /\ epc' = "write"
    BY <1>3 DEF WriteRecord, workerVars
  <1>5. Len(written) < N /\ verdict[Len(written)] \in Verdicts
    BY <1>1, <1>2, <1>3 DEF Idx
  <1>6. DOMAIN ShownRecords = 1 .. Len(written) /\ Len(ShownRecords) = Len(written)
        /\ ShownRecords \in Seq([input : Idx, verdict : Verdicts])
    <2> DEFINE R == [input : Idx, verdict : Verdicts]
    <2>1. \A k \in 1 .. Len(written) : written[k] \in Idx /\ verdict[written[k]] \in Verdicts
      BY <1>1
    <2>2. \A k \in 1 .. Len(written) :
            [input |-> written[k], verdict |-> verdict[written[k]]] \in R
      BY <2>1
    <2>3. DOMAIN written = 1 .. Len(written)
      BY <1>1
    <2> HIDE DEF R
    <2>4. ShownRecords \in [1 .. Len(written) -> R]
      BY <2>2, <2>3 DEF ShownRecords
    <2>5. ShownRecords \in Seq(R) /\ Len(ShownRecords) = Len(written)
      BY <2>4, <1>1
    <2> QED
      BY <2>4, <2>5 DEF R
  <1>7. ShownRecords' = Append(ShownRecords,
                               [input |-> Len(written), verdict |-> verdict[Len(written)]])
    BY <1>1, <1>4, <1>6 DEF ShownRecords
  <1>8. Code = << >> /\ Code' = << >>
    BY <1>4 DEF Code
  <1> QED
    BY <1>5, <1>6, <1>7, <1>8 DEF Stream!Emit, ShownRecords, Code

\* The command returns: with the worst verdict of all records, or with 1 after
\* the stream was cut.
LEMMA ReturnMaps ==
  ASSUME Inv, Return
  PROVE  Stream!Complete \/ Stream!Cut
  <1>1. /\ UNCHANGED <<written, verdict, abort, tally>> /\ epc = "end" /\ epc' = "returned"
    BY DEF Return, workerVars
  <1>2. /\ written \in Seq(Idx) /\ drained \in Seq(Idx) /\ Len(written) \in Nat /\ N \in Nat
        /\ nextEmit \in 0 .. N /\ nextEmit = Len(written) + Len(drained)
        /\ tally \in [failed : Nat, pages : Nat, ir : Nat]
    BY SizesAssumption DEF Inv, TypeOK, Ordered
  <1>3. ShownRecords' = ShownRecords /\ Code = << >> /\ Code' = <<ExitCode>>
    BY <1>1 DEF ShownRecords, Code, ExitCode
  <1>4. Len(ShownRecords) = Len(written) /\ DOMAIN ShownRecords = DOMAIN written
    BY <1>2 DEF ShownRecords
  <1>5. CASE abort
    <2>1. Len(written) < N
      <3>1. drained # << >>
        BY <1>5 DEF Inv, EmitterPlace
      <3>2. Len(drained) \in Nat \ {0}
        BY <3>1, <1>2
      <3> QED
        BY <3>2, <1>2
    <2>2. ExitCode = 1
      BY <1>5 DEF ExitCode
    <2> QED
      BY <2>1, <2>2, <1>3, <1>4 DEF Stream!Cut, ShownRecords, Code
  <1>6. CASE ~abort
    <2>1. Len(written) = N
      <3>1. drained = << >> /\ nextEmit = N
        BY <1>1, <1>6 DEF Inv, EmitterPlace
      <3> QED
        BY <3>1, <1>2
    <2>2. \A v : Stream!Seen(v) <=> Shown(v)
      BY DEF Stream!Seen, Shown
    <2>3. ExitCode = Stream!Worst
      BY <2>2, <1>1, <1>2, <1>6 DEF Inv, TallyTrue, ExitCode, Stream!Worst
    <2> QED
      BY <2>1, <2>3, <1>3, <1>4 DEF Stream!Complete, ShownRecords, Code
  <1> QED
    BY <1>5, <1>6

\* Every other step is unseen.
LEMMA Stutters ==
  ASSUME UNCHANGED <<written, verdict>>, epc # "returned", epc' # "returned"
  PROVE  UNCHANGED Stream!streamVars
  <1>1. ShownRecords' = ShownRecords /\ Code' = Code
    BY DEF ShownRecords, Code
  <1> QED
    BY <1>1 DEF Stream!streamVars, ShownRecords, Code

LEMMA StepMaps == Inv /\ [Next]_vars => [Stream!Next]_(Stream!streamVars)
  <1> SUFFICES ASSUME Inv, [Next]_vars PROVE [Stream!Next]_(Stream!streamVars)
    OBVIOUS
  <1>1. CASE UNCHANGED vars
    <2>1. ShownRecords' = ShownRecords /\ Code' = Code
      BY <1>1 DEF vars, ShownRecords, Code, ExitCode
    <2> QED
      BY <2>1 DEF Stream!streamVars, ShownRecords, Code
  <1>2. CASE SpuriousWake \/ \E w \in Workers : Worker(w)
    <2>1. UNCHANGED <<written, verdict, epc, abort, tally>>
      BY <1>2 DEF SpuriousWake, Worker, SeeAbort, Claim, Make, LockBuf, CheckSpace, WaitSpace,
         Wake, Put, emitterVars
    <2>2. ShownRecords' = ShownRecords /\ Code' = Code
      BY <2>1 DEF ShownRecords, Code, ExitCode
    <2> QED
      BY <2>2 DEF Stream!streamVars, ShownRecords, Code
  <1>3. CASE EmitterLocks \/ EmitterWaits \/ EmitterWakes \/ Drain \/ NotifySpace
             \/ WriteBreaks \/ RaiseAbort \/ WakeAll
    <2>1. UNCHANGED <<written, verdict>> /\ epc # "returned" /\ epc' # "returned"
      BY <1>3 DEF EmitterLocks, EmitterWaits, EmitterWakes, Drain, NotifySpace, WriteBreaks,
         RaiseAbort, WakeAll, workerVars
    <2> QED
      BY <2>1, Stutters
  <1>4. CASE WriteRecord
    <2>1. CASE drained = << >>
      BY <1>4, <2>1, Stutters DEF WriteRecord, workerVars
    <2>2. CASE drained # << >>
      BY <1>4, <2>2, EmitMaps DEF Stream!Next
    <2> QED
      BY <2>1, <2>2
  <1>5. CASE Return
    BY <1>5, ReturnMaps DEF Stream!Next
  <1> QED
    BY <1>1, <1>2, <1>3, <1>4, <1>5 DEF Next, Emitter, Terminated

\* stream_records implements the ordered stream: records in input order, then one
\* exit code, the worst of their verdicts unless the stream was cut.
THEOREM StreamIsOrdered == Spec => StreamKept
  <1> QED
    BY InitMaps, StepMaps, InvHolds, PTL DEF Spec, StreamKept, Stream!Spec
=============================================================================
