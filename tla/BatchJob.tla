------------------------------ MODULE BatchJob ------------------------------
(***************************************************************************)
(* A Kubernetes Job that runs rhwp-batch over a persistent volume, as the   *)
(* manifests of deploy/k8s/job-template.yaml do: `fill` in batch mode with  *)
(* --on-error=continue and --report, or `to-json` over a directory.  A pod  *)
(* may be killed at any point; while the back-off limit allows it, the      *)
(* kubelet (restartPolicy OnFailure) or the controller runs the command     *)
(* again on the same volume, knowing nothing of the first run.  A pod here  *)
(* is one such run.                                                         *)
(*                                                                          *)
(* The items have distinct outputs, so the threads of BatchRunner meet only *)
(* in the number of files that can be open when the pod dies.               *)
(***************************************************************************)
EXTENDS Naturals, FiniteSets

CONSTANTS Inputs,        \* the data files, or the documents to convert
          HopelessSets,  \* the possible sets of those that no attempt can process
          Modes,         \* subset of {"fill", "to-json"}
          OverwriteFlag, \* the possible values of --overwrite
          Parallel,      \* files written at once: the threads of fill, 1 in to-json
          BackoffLimit,  \* pods that may fail before the Job does
          MaxTrouble     \* bound on transient failures and kills

ASSUME JobAssumption ==
  /\ HopelessSets \subseteq SUBSET Inputs
  /\ Modes \subseteq {"fill", "to-json"}
  /\ OverwriteFlag \subseteq BOOLEAN
  /\ Parallel \in Nat \ {0}
  /\ BackoffLimit \in Nat
  /\ MaxTrouble \in Nat

VARIABLES
  mode, overwrite,
  hopeless, \* the inputs that no attempt can process
  jobState, \* "active", "complete" or "failed"
  pods,     \* pods that have failed
  trouble,  \* transient failures and kills so far
  pod,      \* "none", "parse", "running", "reporting" or "exiting"
  item,     \* per input: where this pod is with it
  out,      \* per input: its output on the volume
  report    \* the status _report.json on the volume lists, "none" if it does not

jobVars == <<mode, overwrite, hopeless, jobState, pods, trouble, pod, item, out, report>>
given == <<mode, overwrite, hopeless>>

Settled == {"ok", "failed", "skipped", "lost"}
Threads == IF mode = "fill" THEN Parallel ELSE 1

JobInit ==
  /\ mode \in Modes
  /\ overwrite \in OverwriteFlag
  /\ hopeless \in HopelessSets
  /\ jobState = "active"
  /\ pods = 0
  /\ trouble = 0
  /\ pod = "none"
  /\ item = [i \in Inputs |-> "waiting"]
  /\ out = [i \in Inputs |-> "missing"]
  /\ report = [i \in Inputs |-> "none"]

-----------------------------------------------------------------------------
(* One pod.                                                                 *)

Transient == trouble < MaxTrouble /\ trouble' = trouble + 1
Becomes(i, s) == item' = [item EXCEPT ![i] = s]

StartPod ==
  /\ jobState = "active"
  /\ pod = "none"
  /\ pod' = "parse"
  /\ item' = [i \in Inputs |-> "waiting"]
  /\ UNCHANGED <<given, jobState, pods, trouble, out, report>>

\* fill reads and parses its template; to-json has nothing to prepare.
Prepared ==
  /\ pod = "parse"
  /\ pod' = "running"
  /\ UNCHANGED <<given, jobState, pods, trouble, item, out, report>>

NotPrepared ==
  /\ pod = "parse"
  /\ mode = "fill"
  /\ Transient
  /\ item' = [i \in Inputs |-> "failed"]
  /\ pod' = "reporting"
  /\ UNCHANGED <<given, jobState, pods, out, report>>

Open == {i \in Inputs : item[i] = "open"}
Takes(i) == pod = "running" /\ item[i] = "waiting" /\ Cardinality(Open) < Threads

\* Mutants: the output is not looked at, and --overwrite is not.
NeverTaken(i) == FALSE
TakenAnyway(i) == out[i] # "missing"
Taken(i) == out[i] # "missing" /\ ~overwrite

\* An output that exists fails its item in fill; to-json skips it with a
\* warning.
Refuse(i) ==
  /\ Takes(i)
  /\ Taken(i)
  /\ Becomes(i, IF mode = "fill" THEN "failed" ELSE "skipped")
  /\ UNCHANGED <<given, jobState, pods, trouble, pod, out, report>>

\* Reading, parsing, filling, converting or serializing returns an error.
ItemFails(i) ==
  /\ Takes(i)
  /\ ~Taken(i)
  /\ IF i \in hopeless THEN UNCHANGED trouble ELSE Transient
  /\ Becomes(i, "failed")
  /\ UNCHANGED <<given, jobState, pods, pod, out, report>>

\* The worker thread that fills the item panics: the item and the rest of its chunk,
\* some of the items still waiting, are never tried again nor reported.
ItemPanics(i) ==
  /\ Takes(i)
  /\ mode = "fill"
  /\ ~Taken(i)
  /\ Transient
  /\ \E rest \in SUBSET {j \in Inputs : item[j] = "waiting"} :
       item' = [j \in Inputs |-> IF j = i \/ j \in rest THEN "lost" ELSE item[j]]
  /\ UNCHANGED <<given, jobState, pods, pod, out, report>>

\* fs::write creates or truncates the output ...
StartOutput(i) ==
  /\ Takes(i)
  /\ ~Taken(i)
  /\ i \notin hopeless
  /\ out' = [out EXCEPT ![i] = "partial"]
  /\ Becomes(i, "open")
  /\ UNCHANGED <<given, jobState, pods, trouble, pod, report>>

\* ... and fills it, or fails with some of the bytes in it.
FinishOutput(i) ==
  /\ pod = "running"
  /\ item[i] = "open"
  /\ out' = [out EXCEPT ![i] = "whole"]
  /\ Becomes(i, "ok")
  /\ UNCHANGED <<given, jobState, pods, trouble, pod, report>>

\* Mutant: the error is dropped.
OutputErrorDropped(i) ==
  /\ pod = "running"
  /\ item[i] = "open"
  /\ Transient
  /\ Becomes(i, "ok")
  /\ UNCHANGED <<given, jobState, pods, pod, out, report>>

OutputFails(i) ==
  /\ pod = "running"
  /\ item[i] = "open"
  /\ Transient
  /\ Becomes(i, "failed")
  /\ UNCHANGED <<given, jobState, pods, pod, out, report>>

AllSettled == \A i \in Inputs : item[i] \in Settled

ItemsDone ==
  /\ pod = "running"
  /\ AllSettled
  /\ pod' = IF mode = "fill" THEN "reporting" ELSE "exiting"
  /\ UNCHANGED <<given, jobState, pods, trouble, item, out, report>>

\* What the report says.  Mutant: an output that was refused is as good as ok.
ListedByOutput == [i \in Inputs |-> IF out[i] # "missing" THEN "ok" ELSE "failed"]
Listed == [i \in Inputs |-> IF item[i] \in {"ok", "failed"} THEN item[i] ELSE "none"]

\* The report replaces the one on the volume; an error is only logged.
Unreported == [i \in Inputs |-> "none"]

WriteReport ==
  /\ pod = "reporting"
  /\ pod' = "exiting"
  /\ \/ report' = Listed /\ UNCHANGED trouble
     \/ Transient /\ report' \in {report, Unreported}
  /\ UNCHANGED <<given, jobState, pods, item, out>>

Some(s) == \E i \in Inputs : item[i] = s
PodExitCode == IF ~Some("failed") THEN 0
            ELSE IF mode = "fill" /\ Some("ok") THEN 4 ELSE 1

-----------------------------------------------------------------------------
(* The Job controller.                                                      *)

\* Does the Job go on after this many failed pods?  Mutant: it never gives up.
GoesOnAlways(n) == TRUE
GoesOn(n) == n <= BackoffLimit

\* Mutant: a failed pod is replaced and not counted.
PodUncounted == pods' = pods /\ pod' = "none" /\ jobState' = "active"

PodFailed ==
  /\ pods' = pods + 1
  /\ pod' = "none"
  /\ jobState' = IF GoesOn(pods + 1) THEN "active" ELSE "failed"

PodExits ==
  /\ pod = "exiting"
  /\ IF PodExitCode = 0
       THEN jobState' = "complete" /\ pod' = "none" /\ UNCHANGED pods
       ELSE PodFailed
  /\ UNCHANGED <<given, trouble, item, out, report>>

\* Out of memory, evicted, or past its deadline.  What was open stays
\* partial, and a report that was being written is no use.
Killed ==
  /\ pod # "none"
  /\ Transient
  /\ PodFailed
  /\ report' \in {report} \cup (IF pod = "reporting" THEN {Unreported} ELSE {})
  /\ UNCHANGED <<given, item, out>>

Over == jobState # "active" /\ UNCHANGED jobVars

Step == \/ StartPod \/ Prepared \/ NotPrepared \/ ItemsDone \/ WriteReport \/ PodExits
        \/ \E i \in Inputs : \/ Refuse(i) \/ ItemFails(i) \/ ItemPanics(i) \/ StartOutput(i)
                             \/ FinishOutput(i) \/ OutputFails(i)

JobNext == Step \/ Killed \/ Over

JobSpec == JobInit /\ [][JobNext]_jobVars

\* A pod that is not killed keeps running.
FairJob == JobSpec /\ WF_jobVars(Step)
-----------------------------------------------------------------------------
(* What a Job must get right.                                               *)

JobTypeOK ==
  /\ mode \in Modes
  /\ overwrite \in OverwriteFlag
  /\ hopeless \in HopelessSets
  /\ jobState \in {"active", "complete", "failed"}
  /\ pods \in 0 .. (BackoffLimit + 1)
  /\ trouble \in 0 .. MaxTrouble
  /\ pod \in {"none", "parse", "running", "reporting", "exiting"}
  /\ item \in [Inputs -> {"waiting", "open"} \cup Settled]
  /\ out \in [Inputs -> {"missing", "partial", "whole"}]
  /\ report \in [Inputs -> {"none", "ok", "failed"}]

\* A completed fill Job leaves every output whole, whatever its earlier pods
\* left behind, except those of a panicked thread; so does a to-json Job that
\* needed one pod (batch.rs:190 against service/mod.rs:30 and :125).
CompleteIsWhole ==
  jobState = "complete" /\ (mode = "fill" \/ pods = 0) =>
    \A i \in Inputs : out[i] = "whole" \/ item[i] = "lost"

\* Without --overwrite no later pod damages what an earlier one finished
\* (batch.rs:190, service/mod.rs:30).
WholeStays ==
  [][~overwrite => \A i \in Inputs : out[i] = "whole" => out'[i] = "whole"]_jobVars

\* Without --overwrite the report on the volume never calls an output ok that
\* is not whole, whichever pod wrote the report and whichever is running now
\* (main.rs:103-112).
ReportOkIsWhole ==
  ~overwrite => \A i \in Inputs : report[i] = "ok" => out[i] = "whole"

Disturbed == trouble > BackoffLimit

\* With --overwrite a fill or to-json Job whose inputs are all good fails only if each of
\* its pods met trouble of its own: the retries heal (batch.rs:190).
OverwriteHeals ==
  overwrite /\ hopeless = {} /\ jobState = "failed" => Disturbed

\* Every Job ends: the back-off limit bounds its pods, and a pod that is not
\* killed comes to its exit (job-template.yaml:11).
JobEnds == <>(jobState # "active")
-----------------------------------------------------------------------------
(* What the documents say, and the code does not do.                        *)

\* README.md and deploy/ops_guide.md, 5.1: exit code 0 means all the work
\* succeeded.  So when a to-json Job completes, every output is whole.
SuccessIsWhole ==
  jobState = "complete" => \A i \in Inputs : out[i] = "whole"
=============================================================================
