-------------------------- MODULE ResultLifecycle --------------------------
(***************************************************************************)
(* What the documents of the headless experiment queue promise to their    *)
(* readers: how the stored result of a job, and each case in it, may move. *)
(* Nothing is said of the queue, of the process that runs it, or of its    *)
(* crashes: a reader sees only the documents.  ExperimentQueue implements  *)
(* this.                                                                   *)
(***************************************************************************)
EXTENDS Naturals

CONSTANTS
    Job,      \* identifiers of results
    NCases    \* cases of a job

VARIABLE doc  \* the stored result of each job

Case == 1..NCases
Open == {"pending", "running", "paused"}
Terminal == {"completed", "cancelled", "interrupted", "error"}
CaseStatus == {"pending", "running", "passed", "failed", "cancelled", "interrupted"}
CaseOver == CaseStatus \ {"pending", "running"}

Absent == [status |-> "none", cases |-> [c \in Case |-> "pending"]]
Fresh == [Absent EXCEPT !.status = "pending"]

Init == doc = [j \in Job |-> Absent]

Become(j, d) == doc' = [doc EXCEPT ![j] = d]

Submitted(j) == doc[j] = Absent /\ Become(j, Fresh)
Removed(j) == doc[j] # Absent /\ Become(j, Absent)

\* A job begins once; the cases of it run one at a time, in their order, and
\* so do the cases of different jobs.
Begins(j) == doc[j].status = "pending" /\ Become(j, [doc[j] EXCEPT !.status = "running"])

CaseBegins(j, c) ==
    /\ doc[j].status = "running"
    /\ doc[j].cases[c] = "pending"
    /\ \A b \in 1..(c - 1) : doc[j].cases[b] \in CaseOver
    /\ \A i \in Job, b \in Case : doc[i].cases[b] # "running"
    /\ Become(j, [doc[j] EXCEPT !.cases[c] = "running"])

CaseEnds(j, c) ==
    /\ doc[j].cases[c] = "running"
    /\ \E v \in CaseOver : Become(j, [doc[j] EXCEPT !.cases[c] = v])

\* Cases that will not run are marked, in one revision with the status.
Marked(j, S, v) == [c \in Case |-> IF doc[j].cases[c] \in S THEN v ELSE doc[j].cases[c]]

Skipped(j) ==
    /\ doc[j].status = "running"
    /\ Become(j, [doc[j] EXCEPT !.cases = Marked(j, {"pending"}, "cancelled")])

Completed(j) ==
    /\ doc[j].status = "running"
    /\ \A c \in Case : doc[j].cases[c] \in CaseOver
    /\ Become(j, [doc[j] EXCEPT !.status = "completed"])

Cancelled(j) ==
    /\ doc[j].status \in Open
    /\ Become(j, [status |-> "cancelled",
                  cases |-> Marked(j, {"pending", "running"}, "cancelled")])

\* A shutdown, a pause from outside or a recovery: only the case that was
\* running is uncertain.
Paused(j) ==
    /\ doc[j].status \in Open
    /\ Become(j, [status |-> "paused", cases |-> Marked(j, {"running"}, "interrupted")])

Interrupted(j) ==
    /\ doc[j].status \in Open
    /\ Become(j, [status |-> "interrupted",
                  cases |-> Marked(j, {"pending", "running"}, "interrupted")])

\* A job that cannot be admitted again after a restart ends in an error,
\* whatever its status was.
Failed(j) ==
    /\ doc[j] # Absent
    /\ \/ Become(j, [status |-> "error", cases |-> Marked(j, {"pending", "running"}, "failed")])
       \/ Become(j, [doc[j] EXCEPT !.status = "error"])

Next ==
    \E j \in Job :
        \/ Submitted(j) \/ Removed(j)
        \/ Begins(j) \/ Skipped(j) \/ Completed(j)
        \/ Cancelled(j) \/ Paused(j) \/ Interrupted(j) \/ Failed(j)
        \/ \E c \in Case : CaseBegins(j, c) \/ CaseEnds(j, c)

Spec == Init /\ [][Next]_doc
=============================================================================
