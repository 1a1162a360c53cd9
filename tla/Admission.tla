------------------------------ MODULE Admission ------------------------------
(***************************************************************************)
(* Which scheduler a new pod gets: MutatePod of                            *)
(* internal/admission/webhook.go, between the pod's creator and the API    *)
(* server.                                                                 *)
(*                                                                         *)
(* A request is a record with the fields                                   *)
(*   label      the experiment-group label, "" where there is none,        *)
(*   words      which of "treatment" and "control" the namespace contains, *)
(*                in any case,                                             *)
(*   scheduler  spec.schedulerName as sent, "" where there is none.        *)
(***************************************************************************)

Predictive == "predictive-scheduler"
Default    == "default-scheduler"

SchedulerNames == {Predictive, Default}
AdmissionRequests == [label : {"", "treatment", "control", "other"},
                      words : SUBSET {"treatment", "control"},
                      scheduler : SchedulerNames \cup {""}]

\* Mutated Group: the namespace decides, before the label.
GroupByNamespace(r) ==
    IF "treatment" \in r.words THEN "treatment"
    ELSE IF "control" \in r.words THEN "control"
    ELSE r.label

\* The label decides, whatever its value; then the namespace, "treatment" first.
Group(r) ==
    IF r.label # "" THEN r.label
    ELSE IF "treatment" \in r.words THEN "treatment"
    ELSE IF "control" \in r.words THEN "control"
    ELSE "unknown"

\* The scheduler name after the patch; a control pod that names one keeps it.
MutatePod(r) ==
    IF Group(r) = "treatment" THEN Predictive
    ELSE IF Group(r) = "control" /\ r.scheduler = "" THEN Default
    ELSE r.scheduler

\* The API server's own default, with the patch or without: external.
Defaulted(name) == IF name = "" THEN Default ELSE name

(* The names the pod of a request can be created with: the patched one, or *)
(* the one it came with when the webhook cannot be reached, fails, answers *)
(* too late or cannot read the pod (failurePolicy: Ignore).                *)
AdmittedAs(r) == {Defaulted(MutatePod(r)), Defaulted(r.scheduler)}
=============================================================================
