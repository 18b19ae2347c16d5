---------------------------- MODULE StreamRecords ----------------------------
(***************************************************************************)
(* The bounded reorder buffer of upstream's batch commands                  *)
(* (rhwp/src/cli/batch/ordered.rs, stream_records): worker threads make     *)
(* records in any order, one emitter writes them in input order.  Workers   *)
(* that run too far ahead wait on the condition variable `space`, the       *)
(* emitter waits on `ready` for the record whose turn it is.                *)
(*                                                                          *)
(* Every step between two points where another thread can interfere is an   *)
(* action of its own: taking the mutex, a condition read under it, the      *)
(* wait itself, and the emitter's stores and notifications outside of it.   *)
(* A record is its input index; what the tally sees of it is its verdict.   *)
(***************************************************************************)
EXTENDS Integers, Sequences, FiniteSets

CONSTANTS N,          \* number of inputs
          Threads,    \* the thread count of the caller, at least 1
          CapFactor,  \* 8 in the code: buffered records per thread
          BreakingPipe, \* TRUE if a write to stdout may fail
          Outcomes    \* the possible verdicts of the records, by input

Verdicts == {"clean", "error", "pages", "ir"}

ASSUME SizesAssumption ==
  /\ N \in Nat
  /\ Threads \in Nat \ {0}
  /\ CapFactor \in Nat \ {0}
  /\ BreakingPipe \in BOOLEAN
  /\ Outcomes \subseteq [0 .. (N - 1) -> Verdicts]

Cap == Threads * CapFactor
Idx == 0 .. (N - 1)
Workers == 1 .. (IF Threads < N THEN Threads ELSE N)
Free == 0          \* nobody holds the mutex
TheEmitter == -1   \* the emitter does
NoTally == [failed |-> 0, pages |-> 0, ir |-> 0]

VARIABLES
  claim,     \* next_claim
  abort,     \* the AtomicBool
  buf,       \* the inputs whose record is in the buffer
  verdict,   \* per input: the verdict of its record, when it is made
  nextEmit,  \* next_emit, and the emitter's own count `emitted`
  lock,      \* who holds the mutex of buf: a worker, TheEmitter or Free
  pc, idx,   \* per worker: its step, and the input it claimed
  onSpace,   \* the workers waiting on `space`
  onReady,   \* the emitter waits on `ready`
  epc,       \* the emitter's step
  drained,   \* the records the emitter took out and has yet to write
  written,   \* the records on stdout
  tally      \* failed, verify_pages_diff, verify_diff

vars == <<claim, abort, buf, verdict, nextEmit, lock, pc, idx, onSpace, onReady,
          epc, drained, written, tally>>
workerVars == <<claim, verdict, pc, idx>>
emitterVars == <<epc, drained, written, tally, nextEmit>>

Init ==
  /\ claim = 0
  /\ abort = FALSE
  /\ buf = {}
  /\ verdict \in Outcomes
  /\ nextEmit = 0
  /\ lock = Free
  /\ pc = [w \in Workers |-> "head"]
  /\ idx = [w \in Workers |-> N]
  /\ onSpace = {}
  /\ onReady = FALSE
  /\ epc = "lock"
  /\ drained = << >>
  /\ written = << >>
  /\ tally = NoTally

-----------------------------------------------------------------------------
(* One worker.                                                              *)

Goto(w, step) == pc' = [pc EXCEPT ![w] = step]

\* The loop head: leave on abort, claim the next input otherwise.
SeeAbort(w) ==
  /\ pc[w] = "head"
  /\ Goto(w, IF abort THEN "done" ELSE "claim")
  /\ UNCHANGED <<claim, abort, buf, verdict, lock, idx, onSpace, onReady, emitterVars>>

\* Is there no such input?  Mutant: off by one.
PastEndLate(i) == i > N
PastEnd(i) == i >= N

Claim(w) ==
  /\ pc[w] = "claim"
  /\ claim' = claim + 1
  /\ idx' = [idx EXCEPT ![w] = claim]
  /\ Goto(w, IF PastEnd(claim) THEN "done" ELSE "make")
  /\ UNCHANGED <<abort, buf, verdict, lock, onSpace, onReady, emitterVars>>

\* The record is made, with its verdict; a failure or a panic is a record too.
Make(w) ==
  /\ pc[w] = "make"
  /\ Goto(w, "lock")
  /\ UNCHANGED <<claim, abort, buf, verdict, lock, idx, onSpace, onReady, emitterVars>>

LockBuf(w) ==
  /\ pc[w] = "lock"
  /\ lock = Free
  /\ lock' = w
  /\ Goto(w, "check")
  /\ UNCHANGED <<claim, abort, buf, verdict, idx, onSpace, onReady, emitterVars>>

\* Mutants of MustWait: the record whose turn it is waits like the others,
\* and one record more than cap before anyone waits.
MustWaitInTurn(w) == Cardinality(buf) >= Cap /\ ~abort
MustWaitLate(w) == Cardinality(buf) > Cap /\ idx[w] # nextEmit /\ ~abort
MustWait(w) == Cardinality(buf) >= Cap /\ idx[w] # nextEmit /\ ~abort

\* The condition of the wait, read with the mutex held.
CheckSpace(w) ==
  /\ pc[w] = "check"
  /\ Goto(w, IF MustWait(w) THEN "wait" ELSE "put")
  /\ UNCHANGED <<claim, abort, buf, verdict, lock, idx, onSpace, onReady, emitterVars>>

\* space.wait: the mutex is released as the worker joins the waiters.
WaitSpace(w) ==
  /\ pc[w] = "wait"
  /\ onSpace' = onSpace \cup {w}
  /\ lock' = Free
  /\ Goto(w, "asleep")
  /\ UNCHANGED <<claim, abort, buf, verdict, idx, onReady, emitterVars>>

\* Woken, the worker takes the mutex again and reads the condition again.
Wake(w) ==
  /\ pc[w] = "asleep"
  /\ w \notin onSpace
  /\ lock = Free
  /\ lock' = w
  /\ Goto(w, "check")
  /\ UNCHANGED <<claim, abort, buf, verdict, idx, onSpace, onReady, emitterVars>>

\* The record goes into the buffer and the emitter is notified, or the
\* worker leaves because of an abort; either way the mutex is released.
Put(w) ==
  /\ pc[w] = "put"
  /\ lock' = Free
  /\ IF abort
       THEN Goto(w, "done") /\ UNCHANGED <<buf, onReady>>
       ELSE /\ buf' = buf \cup {idx[w]}
            /\ onReady' = FALSE
            /\ Goto(w, "head")
  /\ UNCHANGED <<claim, abort, verdict, idx, onSpace, emitterVars>>

Worker(w) ==
  \/ SeeAbort(w) \/ Claim(w) \/ Make(w) \/ LockBuf(w)
  \/ CheckSpace(w) \/ WaitSpace(w) \/ Wake(w) \/ Put(w)

\* A condition variable may wake a waiter for no reason.
SpuriousWake ==
  /\ \/ \E w \in onSpace : onSpace' = onSpace \ {w} /\ UNCHANGED onReady
     \/ onReady /\ onReady' = FALSE /\ UNCHANGED onSpace
  /\ UNCHANGED <<claim, abort, buf, verdict, nextEmit, lock, pc, idx, epc, drained,
                 written, tally>>

-----------------------------------------------------------------------------
(* The emitter.                                                             *)

\* The outer loop: another round while records are missing.
EmitterLocks ==
  /\ epc = "lock"
  /\ IF nextEmit < N
       THEN lock = Free /\ lock' = TheEmitter /\ epc' = "scan"
       ELSE epc' = "end" /\ UNCHANGED lock
  /\ UNCHANGED <<workerVars, abort, buf, onSpace, onReady, drained, written, tally, nextEmit>>

\* ready.wait, while the record whose turn it is has not arrived.
EmitterWaits ==
  /\ epc = "scan"
  /\ nextEmit \notin buf
  /\ onReady' = TRUE
  /\ lock' = Free
  /\ epc' = "asleep"
  /\ UNCHANGED <<workerVars, abort, buf, onSpace, drained, written, tally, nextEmit>>

EmitterWakes ==
  /\ epc = "asleep"
  /\ ~onReady
  /\ lock = Free
  /\ lock' = TheEmitter
  /\ epc' = "scan"
  /\ UNCHANGED <<workerVars, abort, buf, onSpace, onReady, drained, written, tally, nextEmit>>

\* The run of records that starts with the one whose turn it is and has no gap.
\* Mutant: the record after the run is taken for one of it.
RunPast(k) ==
  /\ k \in (nextEmit + 1) .. N
  /\ \A i \in nextEmit .. (k - 2) : i \in buf
  /\ k - 1 \notin buf
RunTo(k) ==
  /\ k \in (nextEmit + 1) .. N
  /\ \A i \in nextEmit .. (k - 1) : i \in buf
  /\ k \notin buf

\* What the vector of drained records holds when a round begins: nothing, it
\* is cleared.  Mutant: it is not.
KeptUncleared == written
Kept == << >>

Drain ==
  /\ epc = "scan"
  /\ nextEmit \in buf
  /\ \E k \in Idx \cup {N} :
       /\ RunTo(k)
       /\ buf' = buf \ (nextEmit .. (k - 1))
       /\ drained' = Kept \o [j \in 1 .. (k - nextEmit) |-> nextEmit + j - 1]
       /\ nextEmit' = k
  /\ lock' = Free
  /\ epc' = "notify"
  /\ UNCHANGED <<workerVars, abort, onSpace, onReady, written, tally>>

\* space.notify_all, after the mutex is released.
NotifySpace ==
  /\ epc = "notify"
  /\ onSpace' = {}
  /\ epc' = "write"
  /\ UNCHANGED <<workerVars, abort, buf, lock, onReady, drained, written, tally, nextEmit>>

Counted(i) ==
  IF verdict[i] = "error" THEN [tally EXCEPT !.failed = @ + 1]
  ELSE IF verdict[i] = "pages" THEN [tally EXCEPT !.pages = @ + 1]
  ELSE IF verdict[i] = "ir" THEN [tally EXCEPT !.ir = @ + 1]
  ELSE tally

\* One drained record is counted and written; after the last, another round.
WriteRecord ==
  /\ epc = "write"
  /\ IF drained = << >>
       THEN epc' = "lock" /\ UNCHANGED <<drained, written, tally>>
       ELSE /\ tally' = Counted(Head(drained))
            /\ written' = Append(written, Head(drained))
            /\ drained' = Tail(drained)
            /\ UNCHANGED epc
  /\ UNCHANGED <<workerVars, abort, buf, lock, onSpace, onReady, nextEmit>>

\* stdout is gone: the record is counted but not written ...
WriteBreaks ==
  /\ BreakingPipe
  /\ epc = "write"
  /\ drained # << >>
  /\ tally' = Counted(Head(drained))
  /\ epc' = "raise"
  /\ UNCHANGED <<workerVars, abort, buf, lock, onSpace, onReady, drained, written, nextEmit>>

\* ... the abort flag is raised without the mutex ...
RaiseAbort ==
  /\ epc = "raise"
  /\ abort' = TRUE
  /\ epc' = "wakeAll"
  /\ UNCHANGED <<workerVars, buf, lock, onSpace, onReady, drained, written, tally, nextEmit>>

\* ... and the waiters are notified, without it too.
WakeAll ==
  /\ epc = "wakeAll"
  /\ onSpace' = {}
  /\ epc' = "end"
  /\ UNCHANGED <<workerVars, abort, buf, lock, onReady, drained, written, tally, nextEmit>>

\* The end of the thread scope joins every worker.
Return ==
  /\ epc = "end"
  /\ \A w \in Workers : pc[w] = "done"
  /\ epc' = "returned"
  /\ UNCHANGED <<workerVars, abort, buf, lock, onSpace, onReady, drained, written, tally, nextEmit>>

Emitter ==
  \/ EmitterLocks \/ EmitterWaits \/ EmitterWakes \/ Drain \/ NotifySpace
  \/ WriteRecord \/ WriteBreaks \/ RaiseAbort \/ WakeAll \/ Return

Terminated == epc = "returned" /\ UNCHANGED vars

Next == (\E w \in Workers : Worker(w)) \/ Emitter \/ SpuriousWake \/ Terminated

Spec == Init /\ [][Next]_vars

\* Every thread keeps being scheduled; a mutex that is released over and over
\* is acquired in the end.  A pipe need not break, and nobody counts on a
\* spurious wakeup.
Fairness ==
  /\ \A w \in Workers : WF_vars(Worker(w)) /\ SF_vars(LockBuf(w)) /\ SF_vars(Wake(w))
  /\ WF_vars(Emitter)
  /\ SF_vars(EmitterLocks) /\ SF_vars(EmitterWakes)

FairSpec == Spec /\ Fairness

\* The exit code of the two commands: the tally's, unless the stream was cut.
\* Mutant: a verification difference hides a failure.
ExitIrFirst == IF tally.ir > 0 THEN 3 ELSE IF tally.failed > 0 THEN 1
               ELSE IF tally.pages > 0 THEN 4 ELSE 0
ExitCode == IF abort \/ tally.failed > 0 THEN 1
            ELSE IF tally.pages > 0 THEN 4 ELSE IF tally.ir > 0 THEN 3 ELSE 0
-----------------------------------------------------------------------------
(* What the stream must get right.                                          *)

TypeOK ==
  /\ claim \in Nat
  /\ abort \in BOOLEAN
  /\ buf \subseteq Idx
  /\ verdict \in Outcomes
  /\ nextEmit \in 0 .. N
  /\ lock \in Workers \cup {Free, TheEmitter}
  /\ pc \in [Workers -> {"head", "claim", "make", "lock", "check", "wait", "asleep",
                          "put", "done"}]
  /\ idx \in [Workers -> Nat]
  /\ onSpace \subseteq Workers
  /\ onReady \in BOOLEAN
  /\ epc \in {"lock", "scan", "asleep", "notify", "write", "raise", "wakeAll", "end",
              "returned"}
  /\ drained \in Seq(Idx)
  /\ written \in Seq(Idx)
  /\ tally \in [failed : Nat, pages : Nat, ir : Nat]

\* The worker has claimed an input and its record is not in the buffer yet.
InHand(w) == pc[w] \in {"make", "lock", "check", "wait", "asleep", "put"}
Places(i) ==
  Cardinality({w \in Workers : InHand(w) /\ idx[w] = i})
    + Cardinality({i} \cap buf)
    + Cardinality({k \in DOMAIN drained : drained[k] = i})
    + Cardinality({k \in DOMAIN written : written[k] = i})

\* The record of every claimed input is in exactly one place: with its worker,
\* in the buffer, drained or written; an input that is not claimed is in none.
Conserved == \A i \in Idx : Places(i) = (IF i < claim THEN 1 ELSE 0)

\* The memory the back pressure leaves: the buffer holds at most cap records and
\* the one whose turn it is, and so does the batch the emitter is writing
\* (ordered.rs:74-79: the exception for next_emit is what prevents deadlock).
Backpressure ==
  /\ Cardinality(buf) <= Cap + 1
  /\ Len(drained) <= Cap + 1

\* What the consumer has is a prefix of the inputs.
Ordered ==
  /\ nextEmit = Len(written) + Len(drained)
  /\ \A k \in DOMAIN written : written[k] = k - 1
  /\ \A k \in DOMAIN drained : drained[k] = Len(written) + k - 1

\* Until the stream is cut no record is lost or doubled, and what is written and
\* drained is the inputs in their order up to next_emit, however the workers
\* finish (ordered.rs:68-85 against 108-113).
InputOrder ==
  epc \notin {"raise", "wakeAll"} /\ ~abort => Conserved /\ Ordered

Stream == INSTANCE OrderedStream
  WITH shown <- [k \in DOMAIN written |->
                   [input |-> written[k], verdict |-> verdict[written[k]]]],
       code <- IF epc = "returned" THEN <<ExitCode>> ELSE << >>

\* The workers, the buffer and the emitter implement the ordered stream with
\* its exit code (ordered.rs:44-144, exit_code at 23-33).
StreamKept == Stream!Spec

\* Unless its consumer leaves, the command returns: nobody sleeps forever, the
\* worker that waits for space least of all (ordered.rs:40-41).
Returns == <>(epc \in {"returned", "raise"})
-----------------------------------------------------------------------------
(* What a comment says, and the code does not do.                           *)

\* ordered.rs:124-125: when the consumer has gone, no new work is taken and
\* every waiting worker is woken and tidied up; so the command returns.
CutStreamReturns == (epc = "raise") ~> (epc = "returned")
=============================================================================
