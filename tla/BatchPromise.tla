---------------------------- MODULE BatchPromise ----------------------------
(***************************************************************************)
(* What a batch run promises its caller, without threads, flags or files:   *)
(* every item gets at most one verdict and keeps it, and the exit code is   *)
(* drawn once, from the verdicts: 0 if every item is done, 4 if some are, 1 *)
(* if none is.  An item may be left open only when another one failed and   *)
(* failures stop the run; an item is lost only with the thread that had it. *)
(* BatchRunner implements this module, as far as no thread panics.          *)
(***************************************************************************)
EXTENDS Integers, Sequences

VARIABLES verdict,    \* per item: "open", "ok", "failed" or "lost"
          stops,      \* a failure stops the run
          code        \* the exit code, -1 while the run goes on

promiseVars == <<verdict, stops, code>>

All == DOMAIN verdict
With(v) == {i \in All : verdict[i] = v}

Init ==
  /\ verdict \in Seq({"open"})
  /\ stops \in BOOLEAN
  /\ code = -1

\* One open item gets its verdict, for good.
Decide ==
  /\ code = -1
  /\ \E i \in With("open"), v \in {"ok", "failed"} :
       verdict' = [verdict EXCEPT ![i] = v]
  /\ UNCHANGED <<stops, code>>

\* A thread is gone, and the open items it had with it.
Lose ==
  /\ code = -1
  /\ \E S \in SUBSET With("open") :
       verdict' = [i \in All |-> IF i \in S THEN "lost" ELSE verdict[i]]
  /\ UNCHANGED <<stops, code>>

\* The template is unusable: every item fails before any is tried.
Condemn ==
  /\ code = -1
  /\ With("open") = All
  /\ verdict' = [i \in All |-> "failed"]
  /\ code' = 1
  /\ UNCHANGED stops

Close ==
  /\ code = -1
  /\ With("open") # {} => stops /\ With("failed") # {}
  /\ code' = IF With("ok") = All THEN 0 ELSE IF With("ok") # {} THEN 4 ELSE 1
  /\ UNCHANGED <<verdict, stops>>

Next == Decide \/ Lose \/ Condemn \/ Close

Spec == Init /\ [][Next]_promiseVars
=============================================================================
