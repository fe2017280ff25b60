-------------------------- MODULE ExperimentQueue --------------------------
(***************************************************************************)
(* The queue of managed headless experiments: HeadlessExperimentService    *)
(* with the parts of StorageService it keeps its jobs in.                  *)
(*                                                                         *)
(* A job is a queue entry, a result document with a revision, and a        *)
(* directory of run bundles ("sidecars"), three files that no transaction  *)
(* spans.  The pump takes entries in order and runs their cases; clients   *)
(* submit, cancel and remove jobs meanwhile; the process may stop at any   *)
(* point and reconciles what it finds when it starts again.                *)
(*                                                                         *)
(* An action ends where the code waits for a write, for the directory of   *)
(* the bundles, for the GPU, or for a case.  A document that was read once *)
(* is read from memory afterwards, so reading the queue or a result and    *)
(* deciding on it is one action with what follows.  A write is checked     *)
(* against the revision it was computed from when it takes effect.         *)
(***************************************************************************)
EXTENDS Naturals, Sequences, FiniteSets

CONSTANTS
    Job,             \* identifiers of results
    NCases,          \* cases of a job
    FailFast,        \* the jobs whose failure policy is fail-fast
    MayRefuse,       \* a restart may find that a job can no longer be admitted
    MaxStarts,       \* starts of the process
    MaxSubmissions,  \* calls of enqueue
    MaxEdits,        \* results paused or deleted by a client, past the service
    MayRemove        \* whether clients delete results, or only pause them

Case == 1..NCases

ASSUME QueueAssumption ==
    /\ NCases \in Nat \ {0}
    /\ FailFast \subseteq Job
    /\ "none" \notin Job
    /\ {MayRefuse, MayRemove} \subseteq BOOLEAN
    /\ {MaxStarts, MaxSubmissions, MaxEdits} \subseteq Nat

VARIABLES
    queue,         \* stored: the entries, by their result
    result,        \* stored: the results; revision 0 is a missing document
    bundles,       \* stored: the jobs that have their run bundles
    service,       \* where the life of the process has come
    boot,          \* the entries reconciled so far, and those found valid
    pump,          \* _drainQueue, _runJob and _drain, and the active job
    cancelledIds,  \* cancelledResultIds
    cancel,        \* the cancellation of a job that is not active
    admission,     \* the enqueue that holds the admission chain
    removing,      \* deleted results whose bundles are about to be deleted
    spent          \* how much of the bounds has been used

disk == <<queue, result, bundles>>
memory == <<service, boot, pump, cancelledIds, cancel, admission, removing>>
vars == <<disk, memory, spent>>

-----------------------------------------------------------------------------
Open == {"pending", "running", "paused"}
Terminal == {"completed", "cancelled", "interrupted", "error"}
CaseStatus == {"pending", "running", "passed", "failed", "cancelled", "interrupted"}

\* "failed" stands for the case statuses failed and error.
NoResult == [status |-> "none", cases |-> [c \in Case |-> "pending"], rev |-> 0]
Result == [status : Open \cup Terminal \cup {"none"}, cases : [Case -> CaseStatus], rev : Nat]

\* Places of the pump.  From "begin" on the job is the active one: up to
\* "ended" its promise is unresolved, then the pump tidies up after it.
Draining == {"begin", "loop", "running", "skipping", "dequeueCancelled", "unlinkCancelled"}
Settling == {"dequeueConflict", "unlinkConflict", "ended"}
PumpAt == {"idle", "dead", "look", "entry", "read", "turn", "missing", "dequeue", "unlink", "drop"}
          \cup Draining \cup Settling

TypeOK ==
    /\ queue \in Seq(Job)
    /\ result \in [Job -> Result]
    /\ bundles \subseteq Job
    /\ service \in {"down", "starting", "serving", "closing", "stopping"}
    /\ boot \in [seen : SUBSET Job, valid : SUBSET Job, rewritten : BOOLEAN]
    /\ pump \in [at : PumpAt, job : Job \cup {"none"}, copy : Result,
                 cancel : BOOLEAN, shutdown : BOOLEAN]
    /\ cancelledIds \subseteq Job
    /\ pump.job = "none" => pump.at \in {"idle", "dead", "look"}
    /\ cancel \in [Job -> [at : {"none", "put", "dequeue", "unlink"}, copy : Result]]
    /\ admission \in [at : {"none", "bundles", "result", "read", "append", "rollback"},
                      job : Job \cup {"none"}, seen : Seq(Job)]
    /\ admission.at = "none" <=> admission.job = "none"
    /\ removing \subseteq Job
    /\ spent \in [starts : 0..MaxStarts, submissions : 0..MaxSubmissions, edits : 0..MaxEdits]

Queued == {queue[i] : i \in DOMAIN queue}

\* The entries of s that lead to a job in S.
Kept(s, S) ==
    LET kept[i \in 0..Len(s)] ==
            IF i = 0 THEN <<>>
            ELSE IF s[i] \in S THEN Append(kept[i - 1], s[i])
            ELSE kept[i - 1]
    IN  kept[Len(s)]

Without(j) == Kept(queue, Job \ {j})
Up == service \in {"serving", "closing", "stopping"}
closing == service \in {"closing", "stopping"}
Active(j) == pump.at \in Draining \cup Settling /\ pump.job = j

NoPump == [at |-> "idle", job |-> "none", copy |-> NoResult, cancel |-> FALSE, shutdown |-> FALSE]
NoBoot == [seen |-> {}, valid |-> {}, rewritten |-> FALSE]
NoCancel == [at |-> "none", copy |-> NoResult]
NoAdmission == [at |-> "none", job |-> "none", seen |-> <<>>]

Init ==
    /\ queue = <<>>
    /\ result = [j \in Job |-> NoResult]
    /\ bundles = {}
    /\ service = "down"
    /\ boot = NoBoot
    /\ pump = NoPump
    /\ cancelledIds = {}
    /\ cancel = [j \in Job |-> NoCancel]
    /\ admission = NoAdmission
    /\ removing = {}
    /\ spent = [starts |-> 0, submissions |-> 0, edits |-> 0]

-----------------------------------------------------------------------------
(***************************************************************************)
(* Documents.                                                              *)
(***************************************************************************)

\* The cases of r with a status in S get the status v.
Mark(r, S, v) == [c \in Case |-> IF r.cases[c] \in S THEN v ELSE r.cases[c]]
Pending(r) == {c \in Case : r.cases[c] = "pending"}

\* Mutant: a write is not checked against the revision.
IsAnyRevision(j, copy) == result[j].rev > 0 \/ copy.rev = 0

\* putExperimentResult refuses what was computed from another revision.
IsCurrent(j, copy) == result[j].rev = copy.rev

Next1(r, rev) == [r EXCEPT !.rev = rev + 1]
Put(j, r) == result' = [result EXCEPT ![j] = Next1(r, @.rev)]

\* Mutant: the case that was running starts again.
InterruptReplaying(r) ==
    [r EXCEPT !.cases = Mark(r, {"running"}, "pending"), !.status = "paused"]

\* interruptRunningCaseOnly, and what _finalizeShutdown stores.
Interrupt(r) ==
    [r EXCEPT !.cases = Mark(r, {"running"}, "interrupted"),
              !.status = IF Pending(r) # {} THEN "paused" ELSE "interrupted"]

CancelDocument(r) ==
    [r EXCEPT !.cases = Mark(r, {"pending", "running"}, "cancelled"), !.status = "cancelled"]
FailDocument(r) ==
    [r EXCEPT !.cases = Mark(r, {"pending", "running"}, "failed"), !.status = "error"]

-----------------------------------------------------------------------------
(***************************************************************************)
(* The process: initialize and _reconcileOnStartup, close, and a crash.    *)
(***************************************************************************)

Start ==
    /\ service = "down"
    /\ spent.starts < MaxStarts
    /\ service' = "starting"
    /\ spent' = [spent EXCEPT !.starts = @ + 1]
    /\ UNCHANGED <<disk, boot, pump, cancelledIds, cancel, admission, removing>>

\* One entry after the other.  An entry without a result or without bundles
\* is dropped, one that can not be admitted any more ends in an error, and a
\* running one is interrupted.
ReconcileEntry(j) ==
    /\ service = "starting"
    /\ j \in Queued \ boot.seen
    /\ \A i \in 1..Len(queue) : queue[i] = j => \A h \in 1..(i - 1) : queue[h] \in boot.seen
    /\ \/ /\ result[j].status = "none" \/ j \notin bundles
          /\ bundles' = bundles \ {j}
          /\ boot' = [boot EXCEPT !.seen = @ \cup {j}]
          /\ IF result[j].status = "none" THEN UNCHANGED result
             ELSE Put(j, [result[j] EXCEPT !.status = "error"])
       \/ /\ MayRefuse
          /\ result[j].status # "none" /\ j \in bundles
          /\ Put(j, FailDocument(result[j]))
          /\ boot' = [boot EXCEPT !.seen = @ \cup {j}]
          /\ UNCHANGED bundles
       \/ /\ result[j].status # "none" /\ j \in bundles
          /\ IF result[j].status = "running" THEN Put(j, Interrupt(result[j]))
             ELSE UNCHANGED result
          /\ boot' = [boot EXCEPT !.seen = @ \cup {j}, !.valid = @ \cup {j}]
          /\ UNCHANGED bundles
    /\ UNCHANGED <<queue, service, pump, cancelledIds, cancel, admission, removing, spent>>

RewriteQueue ==
    /\ service = "starting"
    /\ Queued \subseteq boot.seen
    /\ ~boot.rewritten
    /\ queue' = Kept(queue, boot.valid)
    /\ boot' = [boot EXCEPT !.rewritten = TRUE]
    /\ UNCHANGED <<result, bundles, service, pump, cancelledIds, cancel, admission, removing, spent>>

Orphans == {j \in Job \ boot.valid : result[j].status \in Open}

\* finalizeInterruptedResult, for a result that no entry leads to.
InterruptOrphan(j) ==
    /\ service = "starting"
    /\ boot.rewritten
    /\ j \in Orphans
    /\ Put(j, [result[j] EXCEPT !.cases = Mark(result[j], {"pending", "running"}, "interrupted"),
                                !.status = "interrupted"])
    /\ UNCHANGED <<queue, bundles, memory, spent>>

\* resumePausedJobs is raised for the pump that is started here and lowered
\* in the next line, before the first read of the pump returns.
Opens ==
    /\ service = "starting"
    /\ boot.rewritten
    /\ Orphans = {}
    /\ service' = "serving"
    /\ boot' = NoBoot
    /\ pump' = [NoPump EXCEPT !.at = "look"]
    /\ UNCHANGED <<disk, cancelledIds, cancel, admission, removing, spent>>

\* close() asks the active job, if there is one, to stop, and waits for it.
BeginClose ==
    /\ service = "serving"
    /\ LET active == pump.at \in Draining \cup Settling
       IN  /\ service' = IF active THEN "closing" ELSE "stopping"
           /\ pump' = [pump EXCEPT !.shutdown = active]
    /\ UNCHANGED <<disk, boot, cancelledIds, cancel, admission, removing, spent>>

\* Then it interrupts the result once more, if the job has left it open.
CloseInterrupts ==
    /\ service = "closing"
    /\ pump.at \notin Draining \cup {"ended"}
    /\ service' = "stopping"
    /\ IF result[pump.job].status \in Open THEN Put(pump.job, Interrupt(result[pump.job]))
       ELSE UNCHANGED result
    /\ UNCHANGED <<queue, bundles, boot, pump, cancelledIds, cancel, admission, removing, spent>>

ProcessEnds ==
    /\ service' = "down"
    /\ boot' = NoBoot
    /\ pump' = NoPump
    /\ cancelledIds' = {}
    /\ cancel' = [j \in Job |-> NoCancel]
    /\ admission' = NoAdmission
    /\ removing' = {}
    /\ UNCHANGED <<disk, spent>>

\* Mutant: close() waits for ever for a pump that has died.
CloseEndsIfIdle ==
    /\ service = "stopping"
    /\ pump.at = "idle"
    /\ ProcessEnds

CloseEnds ==
    /\ service = "stopping"
    /\ pump.at \in {"idle", "dead"}
    /\ ProcessEnds

Crash == service # "down" /\ ProcessEnds

-----------------------------------------------------------------------------
(***************************************************************************)
(* Clients: enqueue.                                                       *)
(***************************************************************************)

\* The checks of the suite have passed; the admission chain is held from here.
EnqueueStarts(j) ==
    /\ service = "serving"
    /\ admission.at = "none"
    /\ result[j].status = "none"
    /\ spent.submissions < MaxSubmissions
    /\ spent' = [spent EXCEPT !.submissions = @ + 1]
    /\ admission' = [at |-> "bundles", job |-> j, seen |-> <<>>]
    /\ UNCHANGED <<disk, service, boot, pump, cancelledIds, cancel, removing>>

\* Mutant: the admission forgets whose it is.
AdmissionForgets(p) == admission' = [NoAdmission EXCEPT !.at = p]

AdmissionGoesTo(p) == admission' = [admission EXCEPT !.at = p]

WriteBundles ==
    /\ Up /\ admission.at = "bundles"
    /\ bundles' = bundles \cup {admission.job}
    /\ AdmissionGoesTo("result")
    /\ UNCHANGED <<queue, result, service, boot, pump, cancelledIds, cancel, removing, spent>>

CreateResult ==
    /\ Up /\ admission.at = "result"
    /\ Put(admission.job, [NoResult EXCEPT !.status = "pending"])
    /\ AdmissionGoesTo("read")
    /\ UNCHANGED <<queue, bundles, service, boot, pump, cancelledIds, cancel, removing, spent>>

\* The queue is read before the entry is put into it ...
ReadQueue ==
    /\ Up /\ admission.at = "read"
    /\ admission' = [admission EXCEPT !.at = "append", !.seen = queue]
    /\ UNCHANGED <<disk, service, boot, pump, cancelledIds, cancel, removing, spent>>

\* ... which is refused if it has changed since then, or has such an entry.
Appendable == queue = admission.seen /\ admission.job \notin Queued

\* Mutant: a pump that has come to its end is not started again.
PumpAsItWas == pump

\* _ensurePump
PumpEnsured ==
    IF service = "serving" /\ pump.at \in {"idle", "dead"}
    THEN [NoPump EXCEPT !.at = "look"] ELSE pump

\* Mutant: the rollback runs after the entry has been committed as well.
AppendAndRollBack ==
    /\ Up /\ admission.at = "append"
    /\ Appendable
    /\ queue' = Append(queue, admission.job)
    /\ pump' = PumpEnsured
    /\ AdmissionGoesTo("rollback")
    /\ UNCHANGED <<result, bundles, service, boot, cancelledIds, cancel, removing, spent>>

AppendEntry ==
    /\ Up /\ admission.at = "append"
    /\ Appendable
    /\ queue' = Append(queue, admission.job)
    /\ pump' = PumpEnsured
    /\ admission' = NoAdmission
    /\ UNCHANGED <<result, bundles, service, boot, cancelledIds, cancel, removing, spent>>

\* Mutant: the rollback leaves the result.
RefuseKeepingResult ==
    /\ Up /\ admission.at = "append"
    /\ ~Appendable
    /\ AdmissionGoesTo("rollback")
    /\ UNCHANGED <<disk, service, boot, pump, cancelledIds, cancel, removing, spent>>

\* The rollback deletes the result it created, and the bundles.
RefuseEntry ==
    /\ Up /\ admission.at = "append"
    /\ ~Appendable
    /\ result' = [result EXCEPT ![admission.job] = IF @.rev = 1 THEN NoResult ELSE @]
    /\ AdmissionGoesTo("rollback")
    /\ UNCHANGED <<queue, bundles, service, boot, pump, cancelledIds, cancel, removing, spent>>

RollBackBundles ==
    /\ Up /\ admission.at = "rollback"
    /\ bundles' = bundles \ {admission.job}
    /\ admission' = NoAdmission
    /\ UNCHANGED <<queue, result, service, boot, pump, cancelledIds, cancel, removing, spent>>

-----------------------------------------------------------------------------
(***************************************************************************)
(* Clients: cancel, and what other parts of the system do to the results.  *)
(* Connections that are open already are served while the process closes.  *)
(***************************************************************************)

\* The active job is told, and does the rest itself.
CancelActive(j) ==
    /\ Up
    /\ Active(j) /\ pump.at \in {"begin", "loop", "running", "skipping"}
    /\ result[j].status \in Open
    /\ ~pump.cancel
    /\ pump' = [pump EXCEPT !.cancel = TRUE]
    /\ UNCHANGED <<disk, service, boot, cancelledIds, cancel, admission, removing, spent>>

CancelQueued(j) ==
    /\ Up
    /\ ~Active(j)
    /\ result[j].status \in Open
    /\ cancel[j].at = "none"
    /\ cancelledIds' = cancelledIds \cup {j}
    /\ cancel' = [cancel EXCEPT ![j] = [at |-> "put", copy |-> result[j]]]
    /\ UNCHANGED <<disk, service, boot, pump, admission, removing, spent>>

CancelPut(j) ==
    /\ Up /\ cancel[j].at = "put"
    /\ IF IsCurrent(j, cancel[j].copy)
       THEN /\ Put(j, CancelDocument(cancel[j].copy))
            /\ cancel' = [cancel EXCEPT ![j] = [NoCancel EXCEPT !.at = "dequeue"]]
       ELSE /\ cancel' = [cancel EXCEPT ![j] = NoCancel]
            /\ UNCHANGED result
    /\ UNCHANGED <<queue, bundles, service, boot, pump, cancelledIds, admission, removing, spent>>

CancelDequeue(j) ==
    /\ Up /\ cancel[j].at = "dequeue"
    /\ queue' = Without(j)
    /\ cancel' = [cancel EXCEPT ![j].at = "unlink"]
    /\ UNCHANGED <<result, bundles, service, boot, pump, cancelledIds, admission, removing, spent>>

CancelUnlink(j) ==
    /\ Up /\ cancel[j].at = "unlink"
    /\ bundles' = bundles \ {j}
    /\ cancel' = [cancel EXCEPT ![j] = NoCancel]
    /\ UNCHANGED <<queue, result, service, boot, pump, cancelledIds, admission, removing, spent>>

\* deleteExperimentResult, which does not ask whether the job is queued.
RemoveResult(j) ==
    /\ Up
    /\ result[j].status # "none"
    /\ MayRemove /\ spent.edits < MaxEdits
    /\ spent' = [spent EXCEPT !.edits = @ + 1]
    /\ result' = [result EXCEPT ![j] = NoResult]
    /\ removing' = removing \cup {j}
    /\ UNCHANGED <<queue, bundles, service, boot, pump, cancelledIds, cancel, admission>>

RemoveBundles(j) ==
    /\ Up /\ j \in removing
    /\ bundles' = bundles \ {j}
    /\ removing' = removing \ {j}
    /\ UNCHANGED <<queue, result, service, boot, pump, cancelledIds, cancel, admission, spent>>

\* putExperimentResult by somebody else.
PauseResult(j) ==
    /\ Up
    /\ result[j].status \in {"pending", "running"}
    /\ spent.edits < MaxEdits
    /\ spent' = [spent EXCEPT !.edits = @ + 1]
    /\ Put(j, [result[j] EXCEPT !.cases = Mark(result[j], {"running"}, "interrupted"),
                                !.status = "paused"])
    /\ UNCHANGED <<queue, bundles, memory>>

-----------------------------------------------------------------------------
(***************************************************************************)
(* The pump: _drainQueue up to the point where it has a job to run.        *)
(***************************************************************************)

PumpStep(p) == Up /\ pump.at = p
PumpGoesTo(p) == pump' = [pump EXCEPT !.at = p]

\* The copy and the flags of the job are no longer looked at.
PumpTidies(p) == pump' = [NoPump EXCEPT !.at = p, !.job = pump.job]

\* What becomes of an entry, by the result it leads to.
Fate(j) ==
    IF result[j].status = "none" THEN "drop"
    ELSE IF result[j].status \in Terminal \/ j \in cancelledIds THEN "dequeue"
    ELSE IF result[j].status = "paused" THEN "drop"
    ELSE "read"

\* The first entry is taken that is not among the cancelled ones; the pump
\* ends when there is none, or when the service is closing.
Waiting == {i \in DOMAIN queue : queue[i] \notin cancelledIds}

Look ==
    /\ PumpStep("look")
    /\ IF closing \/ Waiting = {}
       THEN PumpTidies("idle")
       ELSE LET i == CHOOSE i \in Waiting : \A h \in Waiting : i <= h
            IN  pump' = [NoPump EXCEPT !.at = "entry", !.job = queue[i]]
    /\ UNCHANGED <<disk, service, boot, cancelledIds, cancel, admission, removing, spent>>

\* A cancellation that came in since then is seen here, and forgotten.
LookAtResult ==
    /\ PumpStep("entry")
    /\ LET j == pump.job
       IN  /\ pump' = [NoPump EXCEPT !.at = Fate(j), !.job = j,
                           !.copy = IF Fate(j) = "read" THEN result[j] ELSE @]
           /\ cancelledIds' = IF result[j].status = "none" THEN cancelledIds ELSE cancelledIds \ {j}
    /\ UNCHANGED <<disk, service, boot, cancel, admission, removing, spent>>

ReadBundles ==
    /\ PumpStep("read")
    /\ PumpGoesTo(IF pump.job \in bundles THEN "turn" ELSE "missing")
    /\ UNCHANGED <<disk, service, boot, cancelledIds, cancel, admission, removing, spent>>

\* _persistQueueError.  If the result has changed, this ends the pump.
BundlesMissing ==
    /\ PumpStep("missing")
    /\ IF IsCurrent(pump.job, pump.copy)
       THEN Put(pump.job, FailDocument(pump.copy)) /\ PumpTidies("dequeue")
       ELSE UNCHANGED result /\ PumpTidies("dead")
    /\ UNCHANGED <<queue, bundles, service, boot, cancelledIds, cancel, admission, removing, spent>>

\* The GPU turn, which a clip job may keep for a while, then _runJob: from here
\* on the job is the active one.  While it waits the pump gives up on a close.
TakeTurn ==
    /\ PumpStep("turn")
    /\ PumpGoesTo("begin")
    /\ UNCHANGED <<disk, service, boot, cancelledIds, cancel, admission, removing, spent>>

GiveUpTurn ==
    /\ PumpStep("turn")
    /\ closing
    /\ PumpTidies("idle")
    /\ UNCHANGED <<disk, service, boot, cancelledIds, cancel, admission, removing, spent>>

\* An entry is taken off the queue before its bundles are deleted.
Dequeue ==
    /\ Up /\ pump.at \in {"dequeue", "drop", "dequeueCancelled", "dequeueConflict"}
    /\ queue' = Without(pump.job)
    /\ PumpTidies(CASE pump.at = "dequeue" -> "unlink"
                    [] pump.at = "drop" -> "look"
                    [] pump.at = "dequeueCancelled" -> "unlinkCancelled"
                    [] pump.at = "dequeueConflict" -> "unlinkConflict")
    /\ UNCHANGED <<result, bundles, service, boot, cancelledIds, cancel, admission, removing, spent>>

Unlink ==
    /\ Up /\ pump.at \in {"unlink", "unlinkCancelled", "unlinkConflict"}
    /\ bundles' = bundles \ {pump.job}
    /\ PumpTidies(IF pump.at = "unlink" THEN "look" ELSE "ended")
    /\ UNCHANGED <<queue, result, service, boot, cancelledIds, cancel, admission, removing, spent>>

-----------------------------------------------------------------------------
(***************************************************************************)
(* The pump: _drain, with the copy of the result that it advances.         *)
(***************************************************************************)

\* A document somebody else has changed is left alone: the job is taken off
\* the queue, unless it was about to stop or the document is gone.
AfterConflict ==
    IF pump.cancel \/ pump.shutdown \/ result[pump.job].status = "none"
    THEN "ended" ELSE "dequeueConflict"

\* _persist
Persist(r, p) ==
    IF IsCurrent(pump.job, pump.copy)
    THEN /\ Put(pump.job, r)
         /\ IF p = "ended" \/ p = "dequeueCancelled" THEN PumpTidies(p)
            ELSE pump' = [pump EXCEPT !.at = p, !.copy = Next1(r, @.rev)]
    ELSE /\ UNCHANGED result
         /\ PumpTidies(AfterConflict)

DrainFrame == UNCHANGED <<queue, bundles, service, boot, cancelledIds, cancel, admission, removing, spent>>

DrainBegins ==
    /\ PumpStep("begin")
    /\ IF pump.copy.status = "running" THEN PumpGoesTo("loop") /\ UNCHANGED result
       ELSE Persist([pump.copy EXCEPT !.status = "running"], "loop")
    /\ DrainFrame

Stops == pump.cancel \/ pump.shutdown

CaseStarts(c) ==
    /\ PumpStep("loop")
    /\ ~Stops
    /\ c \in Pending(pump.copy)
    /\ \A b \in Pending(pump.copy) : c <= b
    /\ Persist([pump.copy EXCEPT !.cases[c] = "running"], "running")
    /\ DrainFrame

\* _runCase: an abort makes the case fail, which then counts as a shutdown or
\* a cancellation.
Outcome(passed) ==
    CASE pump.shutdown -> "interrupted"
      [] pump.cancel /\ ~pump.shutdown -> "cancelled"
      [] OTHER -> IF passed THEN "passed" ELSE "failed"

CaseEnds(passed) ==
    /\ PumpStep("running")
    /\ LET r == [pump.copy EXCEPT !.cases = Mark(pump.copy, {"running"}, Outcome(passed))]
           failFast == pump.job \in FailFast /\ ~pump.shutdown /\ Outcome(passed) # "passed"
       IN  Persist(r, IF failFast THEN "skipping" ELSE "loop")
    /\ DrainFrame

SkipRest ==
    /\ PumpStep("skipping")
    /\ Persist([pump.copy EXCEPT !.cases = Mark(pump.copy, {"pending"}, "cancelled")], "loop")
    /\ DrainFrame

\* The end of _drain.
JobFinishes ==
    /\ PumpStep("loop")
    /\ Stops \/ Pending(pump.copy) = {}
    /\ CASE pump.shutdown -> Persist(Interrupt(pump.copy), "ended")
         [] pump.cancel /\ ~pump.shutdown -> Persist(CancelDocument(pump.copy), "dequeueCancelled")
         [] OTHER -> Persist([pump.copy EXCEPT !.status = "completed"], "ended")
    /\ DrainFrame

\* The turn is given back; what is left open stays in the queue.
JobEnds ==
    /\ PumpStep("ended")
    /\ PumpTidies(IF result[pump.job].status \in Terminal THEN "dequeue" ELSE "look")
    /\ UNCHANGED <<disk, service, boot, cancelledIds, cancel, admission, removing, spent>>

-----------------------------------------------------------------------------
Booting ==
    \/ RewriteQueue \/ Opens
    \/ \E j \in Job : ReconcileEntry(j) \/ InterruptOrphan(j)

Pump ==
    \/ Look \/ LookAtResult \/ ReadBundles \/ BundlesMissing \/ TakeTurn \/ GiveUpTurn \/ Dequeue \/ Unlink
    \/ DrainBegins \/ SkipRest \/ JobFinishes \/ JobEnds
    \/ \E c \in Case : CaseStarts(c)
    \/ \E passed \in BOOLEAN : CaseEnds(passed)

Admission == WriteBundles \/ CreateResult \/ ReadQueue \/ AppendEntry \/ RefuseEntry \/ RollBackBundles
Cancellation(j) == CancelPut(j) \/ CancelDequeue(j) \/ CancelUnlink(j)
Client(j) ==
    EnqueueStarts(j) \/ CancelActive(j) \/ CancelQueued(j) \/ RemoveResult(j) \/ PauseResult(j)

\* The process is down and has used up its starts.
Over == service = "down" /\ spent.starts = MaxStarts /\ UNCHANGED vars

Next ==
    \/ Start \/ Booting \/ BeginClose \/ CloseInterrupts \/ CloseEnds \/ Crash
    \/ Pump \/ Admission
    \/ \E j \in Job : Client(j) \/ Cancellation(j) \/ RemoveBundles(j)
    \/ Over

Spec == Init /\ [][Next]_vars

(***************************************************************************)
(* Whatever the process has begun goes on, and so does the supervisor that *)
(* runs a case (see HeadlessSupervisor).  Clients and crashes owe nothing. *)
(***************************************************************************)
FairSpec ==
    /\ Spec
    /\ WF_vars(Booting) /\ WF_vars(CloseInterrupts) /\ WF_vars(CloseEnds)
    /\ WF_vars(Pump) /\ WF_vars(Admission)
    /\ \A j \in Job : WF_vars(Cancellation(j)) /\ WF_vars(RemoveBundles(j))

-----------------------------------------------------------------------------
(***************************************************************************)
(* Properties.                                                             *)
(***************************************************************************)

\* Whoever reads the results sees the life of a job that ResultLifecycle
\* allows, across crashes and whatever clients do: no case runs twice, cases
\* run in order and one at a time, and what is over stays as it is.
Lifecycle == INSTANCE ResultLifecycle WITH
    doc <- [j \in Job |-> [status |-> result[j].status, cases |-> result[j].cases]]
ResultsLiveAsPromised == Lifecycle!Spec

\* An entry that may still run has the bundles it is going to run.
QueuedHasBundles ==
    \A j \in Queued : result[j].status \in {"pending", "running"} => j \in bundles

\* While the service is up, a result says "running" only of the active job, and
\* "pending" only of a job that is queued, being submitted or being cancelled.
OpenResultsAreLookedAfter ==
    \A j \in Job : Up =>
        /\ result[j].status = "running" => Active(j)
        /\ result[j].status = "pending" =>
               j \in Queued \/ admission.job = j \/ cancel[j].at # "none"

(***************************************************************************)
(* The invariant behind the two above: what three files that no            *)
(* transaction spans have to do with each other and with the copies that   *)
(* the pump and the cancellations keep.  It holds as long as clients do    *)
(* not delete results (~MayRemove), which would let revisions start again. *)
(***************************************************************************)
FreshDocument == [NoResult EXCEPT !.status = "pending", !.rev = 1]

Idle == {"idle", "dead", "look"}
BeforeRun == {"read", "turn", "missing", "begin"}
InRun == {"loop", "running", "skipping"}
Working == pump.at \notin Idle

\* Only a document nobody has touched since its creation says "pending", and only
\* a running one has a running case.
Documents ==
    \A j \in Job :
        /\ result[j].status = "none" => result[j] = NoResult
        /\ result[j].status # "none" => result[j].rev >= 1
        /\ result[j].rev = 1 => result[j] = FreshDocument
        /\ result[j].status = "pending" => result[j] = FreshDocument
        /\ \A c \in Case : result[j].cases[c] = "running" => result[j].status = "running"

\* c is a copy of the result of j: the stored document or one that was stored
\* before, so a write computed from c is refused unless c is what is stored.  A
\* submission that was rolled back may be repeated, which creates the same
\* document again.
Copies(j, c) ==
    /\ c.rev >= 1
    /\ c.rev = 1 => c = FreshDocument
    /\ c.rev = result[j].rev => c = result[j]
    /\ c.rev <= result[j].rev \/ c.rev = 1

\* Nobody works before the service is up, nor after it has ended.
Lifetimes ==
    /\ ~Up => /\ pump = NoPump /\ admission = NoAdmission
              /\ cancelledIds = {} /\ cancel = [j \in Job |-> NoCancel]
    /\ service # "starting" => boot = NoBoot
    /\ removing = {}
    /\ service = "closing" => pump.job # "none"

\* What the start has found valid is in the queue and no longer running; once the
\* queue is rewritten, it holds nothing else.
Booted ==
    /\ boot.valid \subseteq boot.seen
    /\ \A j \in boot.valid : result[j].status # "running" /\ j \in Queued
    /\ boot.rewritten => Queued \subseteq boot.valid

Entries ==
    \A j \in Queued :
        /\ result[j].status # "none"
        /\ result[j].status \in {"pending", "running"} => j \in bundles

\* A submission has made what its place says, and nobody takes it away; when it
\* rolls back, what it created is gone or was stopped by somebody else.
Admitting ==
    LET j == admission.job IN
    /\ admission.at \in {"bundles", "result"} => result[j].status = "none"
    /\ admission.at \in {"read", "append"} => result[j].status # "none"
    /\ admission.at # "none" => j \notin Queued
    /\ admission.at \in {"result", "read", "append"} =>
          j \in bundles \/ result[j].status \in Terminal \cup {"paused"}
    /\ admission.at = "rollback" => result[j].status \notin {"pending", "running"}

\* A cancellation takes an entry away only after its result has ended.
Cancelling ==
    \A j \in Job :
       /\ cancel[j].at = "put" => Copies(j, cancel[j].copy) /\ cancel[j].copy.status \in Open
       /\ cancel[j].at \in {"dequeue", "unlink"} => result[j].status \in Terminal /\ result[j].rev >= 2

\* A cancellation that will find the document it has read.
ToBeCancelled(j) == cancel[j].at = "put" /\ cancel[j].copy.rev = 1

\* What the pump knows of its job: its copy is stored or outdated, it runs one
\* case at a time, and it gives the job up only when it no longer runs; a pending
\* one it is still going to run, unless a cancellation is about to end it.
Pumping ==
    Working =>
        LET j == pump.job IN
        /\ result[j].status # "none" /\ admission.job # j
        /\ pump.at \in BeforeRun \cup InRun => Copies(j, pump.copy)
        /\ pump.at \in BeforeRun => pump.copy.status = "pending"
        /\ pump.at \in InRun => /\ pump.copy.status = "running"
                                /\ result[j].status = "running" => result[j] = pump.copy
        /\ pump.at = "running" => \E c \in Case : {d \in Case : pump.copy.cases[d] = "running"} = {c}
        /\ pump.at \in {"loop", "skipping"} => \A c \in Case : pump.copy.cases[c] # "running"
        /\ pump.at \notin InRun => result[j].status # "running"
        /\ pump.at \in Settling \cup {"dequeueCancelled", "unlinkCancelled", "drop"}
             => result[j].status # "pending"
        /\ pump.at \in {"unlink", "unlinkCancelled", "unlinkConflict"} => j \notin Queued
        /\ result[j].status = "pending"
             => \/ pump.at = "entry" /\ j \notin cancelledIds
                \/ pump.at \in BeforeRun
                \/ ToBeCancelled(j)

Answered ==
    Up => \A j \in Job :
       /\ result[j].status = "running" => Active(j)
       /\ result[j].status = "pending" => j \in Queued \/ admission.job = j \/ ToBeCancelled(j)

\* The files agree, and with what the process knows of them, whatever the order
\* of writes, crashes, cancellations and pauses.
QueueInv ==
    /\ Documents /\ Lifetimes /\ Booted /\ Entries
    /\ Admitting /\ Cancelling /\ Pumping /\ Answered

\* An entry leaves the queue, or is passed over for good because somebody asked
\* for its cancellation, as long as the service is up and its pump alive.
QueueIsServed ==
    \A j \in Job :
        Up /\ j \in Queued ~> \/ j \notin Queued
                              \/ j \in cancelledIds
                              \/ service # "serving"
                              \/ pump.at = "dead"

\* close() comes to an end, whatever it waits for.
CloseReturns == closing ~> service = "down"

\* "Overlapping submissions enqueue rather than reject": a submission that has
\* passed its checks ends with an entry in the queue.  The code does not do this
\* (section 4 of the README).
SubmissionsAreAccepted ==
    [][admission.at = "append" /\ admission'.at # "append" /\ Up'
       => admission.job \in Queued']_vars
=============================================================================
