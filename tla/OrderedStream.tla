---------------------------- MODULE OrderedStream ----------------------------
(***************************************************************************)
(* What the consumer of a record stream may count on: the records of the    *)
(* inputs 0 .. N-1 arrive in input order, one at a time, and the exit code  *)
(* is the worst verdict among all of them, or 1 if the stream was cut.      *)
(***************************************************************************)
EXTENDS Naturals, Sequences

CONSTANTS N, Verdicts

VARIABLES shown,  \* the records the consumer got: [input, verdict]
          code    \* the exit code in a one-element tuple, << >> before

streamVars == <<shown, code>>

Seen(v) == \E k \in DOMAIN shown : shown[k].verdict = v

\* A failure outranks a page difference, which outranks a content difference.
Worst == IF Seen("error") THEN 1 ELSE IF Seen("pages") THEN 4
         ELSE IF Seen("ir") THEN 3 ELSE 0

Init == shown = << >> /\ code = << >>

Emit ==
  /\ code = << >>
  /\ Len(shown) < N
  /\ \E v \in Verdicts :
       shown' = Append(shown, [input |-> Len(shown), verdict |-> v])
  /\ UNCHANGED code

Complete ==
  /\ code = << >>
  /\ Len(shown) = N
  /\ code' = <<Worst>>
  /\ UNCHANGED shown

Cut ==
  /\ code = << >>
  /\ Len(shown) < N
  /\ code' = <<1>>
  /\ UNCHANGED shown

Next == Emit \/ Complete \/ Cut

Spec == Init /\ [][Next]_streamVars
=============================================================================
