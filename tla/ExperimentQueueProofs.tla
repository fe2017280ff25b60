----------------------- MODULE ExperimentQueueProofs -----------------------
(***************************************************************************)
(* The experiment queue, for every set of jobs, number of cases and bound. *)
(*                                                                         *)
(* A job is spread over three files, and the pump, one submission, any     *)
(* number of cancellations and the clients write them in turns, each from  *)
(* a copy it has read before.  The argument:                               *)
(*                                                                         *)
(*   1. A copy is what is stored or has an older revision (Copies), so a   *)
(*      write either finds the document it was computed from or is refused *)
(*      (CopiesKept, CopyIsStored).                                        *)
(*   2. So a document is moved by nobody but a submission that creates it  *)
(*      or rolls it back, somebody who stops it, or the pump that runs it  *)
(*      (ResultMoves), and each of these moves is one that ResultLifecycle *)
(*      allows (MoveKept).                                                 *)
(*   3. Entries come last when a job is created and go first when it ends; *)
(*      what a crash leaves in between is put in order before the service  *)
(*      is up (Lifetimes, Booted), so an entry never loses its bundles and *)
(*      no open result loses the one who looks after it.                   *)
(*                                                                         *)
(* The invariant takes ~MayRemove: when a client deletes the result of a   *)
(* job that the service still works at, revisions start again with the     *)
(* next submission, and an old copy may pass for a new one.                *)
(***************************************************************************)
EXTENDS ExperimentQueue, FiniteSetFacts

-----------------------------------------------------------------------------
(***************************************************************************)
(* The recursive function Kept, which takes entries off the queue.         *)
(***************************************************************************)

KeptStep(s, S, f, i) ==
    IF i = 0 THEN <<>> ELSE IF s[i] \in S THEN Append(f[i - 1], s[i]) ELSE f[i - 1]

Keeps(s, S, n, f) == f = [i \in 0..n |-> KeptStep(s, S, f, i)]

\* The recursion has a value, by the smallest length that would have none.
LEMMA KeptIsDefined ==
    ASSUME NEW s \in Seq(Job), NEW S, NEW n \in Nat
    PROVE  \E f : Keeps(s, S, n, f)
<1> DEFINE Bad == {m \in Nat : \A f : ~Keeps(s, S, m, f)}
<1> SUFFICES ASSUME Bad # {} PROVE FALSE
  OBVIOUS
<1>1. PICK m \in Bad : \A k \in Bad : m <= k
  <2>1. Bad \in SUBSET Nat
    OBVIOUS
  <2> HIDE DEF Bad
  <2> QED BY <2>1, LeastIn
<1>2. CASE m = 0
  <2>1. Keeps(s, S, 0, [i \in 0..0 |-> <<>>])
    BY DEF Keeps, KeptStep
  <2> QED BY <1>1, <1>2, <2>1
<1>3. CASE m # 0
  <2>1. m - 1 \in Nat /\ m - 1 \notin Bad
    BY <1>1, <1>3
  <2>2. PICK f : Keeps(s, S, m - 1, f)
    BY <2>1
  <2> DEFINE g == [i \in 0..m |-> KeptStep(s, S, f, i)]
  <2>3. f = [i \in 0..(m - 1) |-> KeptStep(s, S, f, i)]
    BY <2>2 DEF Keeps
  <2>4. \A i \in 0..(m - 1) : f[i] = g[i]
    <3> HIDE DEF KeptStep
    <3> QED BY <2>3
  <2>5. \A i \in 0..m : KeptStep(s, S, f, i) = KeptStep(s, S, g, i)
    <3>1. \A i \in 0..m : i # 0 => f[i - 1] = g[i - 1]
      <4> HIDE DEF g
      <4> QED BY <2>4
    <3> HIDE DEF g
    <3> QED BY <3>1 DEF KeptStep
  <2>6. g = [i \in 0..m |-> KeptStep(s, S, g, i)]
    <3>1. DOMAIN g = 0..m /\ g = [i \in 0..m |-> KeptStep(s, S, f, i)]
      BY DEF KeptStep
    <3> HIDE DEF g, KeptStep
    <3> QED BY <3>1, <2>5
  <2>7. Keeps(s, S, m, g)
    BY <2>6 DEF Keeps
  <2> QED BY <1>1, <2>7
<1> QED BY <1>2, <1>3

\* Kept is the last value of its recursion.
LEMMA KeptIs ==
    ASSUME NEW s \in Seq(Job), NEW S
    PROVE  \E f : Keeps(s, S, Len(s), f) /\ Kept(s, S) = f[Len(s)]
<1>1. Len(s) \in Nat
  OBVIOUS
<1> DEFINE f == CHOOSE g : Keeps(s, S, Len(s), g)
<1>2. Keeps(s, S, Len(s), f)
  BY <1>1, KeptIsDefined
<1>3. Kept(s, S) = f[Len(s)]
  BY Zenon DEF Kept, Keeps, KeptStep
<1> QED BY <1>2, <1>3

\* What Kept keeps.
LEMMA KeptKeeps ==
    ASSUME NEW s \in Seq(Job), NEW S
    PROVE  /\ Kept(s, S) \in Seq(Job)
           /\ {Kept(s, S)[i] : i \in DOMAIN Kept(s, S)} = {s[i] : i \in DOMAIN s} \cap S
<1> DEFINE Good(t, n) == t \in Seq(Job) /\ {t[i] : i \in 1..Len(t)} = {s[i] : i \in 1..n} \cap S
<1>1. PICK f : Keeps(s, S, Len(s), f) /\ Kept(s, S) = f[Len(s)]
  BY KeptIs
<1>2. Len(s) \in Nat /\ \A i \in 0..Len(s) : f[i] = KeptStep(s, S, f, i)
  BY <1>1 DEF Keeps
<1> DEFINE Bad == {n \in 0..Len(s) : ~Good(f[n], n)}
<1>3. Bad = {}
  <2> SUFFICES ASSUME Bad # {} PROVE FALSE
    OBVIOUS
  <2>1. PICK m \in Bad : \A k \in Bad : m <= k
    <3>1. Bad \in SUBSET Nat
      BY <1>2
    <3> HIDE DEF Bad
    <3> QED BY <3>1, LeastIn
  <2>a. m \in 0..Len(s) /\ ~Good(f[m], m)
    BY <2>1
  <2>b. \A k \in 0..Len(s) : k < m => Good(f[k], k)
    <3> HIDE DEF Good
    <3> QED BY <1>2, <2>1
  <2>2. m # 0
    <3> SUFFICES ASSUME m = 0 PROVE FALSE
      OBVIOUS
    <3>1. f[0] = <<>>
      BY <1>2 DEF KeptStep
    <3>2. Good(<<>>, 0)
      OBVIOUS
    <3> HIDE DEF Good
    <3> QED BY <2>a, <3>1, <3>2
  <2>3. m - 1 \in 0..Len(s) /\ Good(f[m - 1], m - 1)
    <3> HIDE DEF Good
    <3> QED BY <1>2, <2>a, <2>b, <2>2
  <2>4. s[m] \in Job /\ {s[i] : i \in 1..m} = {s[i] : i \in 1..(m - 1)} \cup {s[m]}
    BY <1>2, <2>1, <2>2
  <2>5. f[m] = IF s[m] \in S THEN Append(f[m - 1], s[m]) ELSE f[m - 1]
    BY <1>2, <2>1, <2>2 DEF KeptStep
  <2>6. CASE s[m] \notin S
    BY <2>a, <2>3, <2>4, <2>5, <2>6
  <2>7. CASE s[m] \in S
    <3> DEFINE t == f[m - 1]
    <3>1. t \in Seq(Job)
      BY <2>3
    <3>2. Append(t, s[m]) \in Seq(Job) /\ Len(Append(t, s[m])) = Len(t) + 1 /\ Len(t) \in Nat
      BY <3>1, <2>4
    <3>3. {Append(t, s[m])[i] : i \in 1..(Len(t) + 1)} = {t[i] : i \in 1..Len(t)} \cup {s[m]}
      BY <3>1, <2>4
    <3>4. Good(Append(t, s[m]), m)
      BY <2>3, <2>4, <2>7, <3>2, <3>3
    <3> QED BY <2>a, <2>5, <2>7, <3>4
  <2> QED BY <2>6, <2>7
<1>4. Good(Kept(s, S), Len(s))
  <2>1. Len(s) \in 0..Len(s)
    BY <1>2
  <2> HIDE DEF Good
  <2> QED BY <1>1, <1>3, <2>1
<1> QED BY <1>4

-----------------------------------------------------------------------------
(***************************************************************************)
(* Types of documents and of the pump.                                     *)
(***************************************************************************)

Pumps == [at : PumpAt, job : Job \cup {"none"}, copy : Result, cancel : BOOLEAN, shutdown : BOOLEAN]

\* A missing document is a document.
LEMMA NoResultType == NoResult \in Result
BY QueueAssumption DEF NoResult, Result, CaseStatus, Open, Terminal

\* Marking cases leaves statuses of cases.
LEMMA MarkType ==
    ASSUME NEW r \in Result, NEW S, NEW v \in CaseStatus
    PROVE  Mark(r, S, v) \in [Case -> CaseStatus]
BY DEF Mark, Result

\* Whatever the service computes from a document is a document.
LEMMA DocumentTypes ==
    ASSUME NEW r \in Result
    PROVE  /\ Interrupt(r) \in Result /\ CancelDocument(r) \in Result /\ FailDocument(r) \in Result
           /\ \A n \in Nat : Next1(r, n) \in Result
           /\ \A s \in Open \cup Terminal : [r EXCEPT !.status = s] \in Result
           /\ \A f \in [Case -> CaseStatus] : [r EXCEPT !.cases = f] \in Result
           /\ \A f \in [Case -> CaseStatus], s \in Open \cup Terminal : [r EXCEPT !.cases = f, !.status = s] \in Result
<1>1. \A f \in [Case -> CaseStatus], s \in Open \cup Terminal : [r EXCEPT !.cases = f, !.status = s] \in Result
  BY DEF Result
<1>2. \A v \in CaseStatus : \A S : Mark(r, S, v) \in [Case -> CaseStatus]
  BY MarkType
<1>3. Interrupt(r) \in Result
  <2> DEFINE f == Mark(r, {"running"}, "interrupted")
             s == IF Pending(r) # {} THEN "paused" ELSE "interrupted"
  <2>1. f \in [Case -> CaseStatus] /\ s \in Open \cup Terminal
    BY <1>2 DEF CaseStatus, Open, Terminal
  <2>2. Interrupt(r) = [r EXCEPT !.cases = f, !.status = s]
    BY DEF Interrupt
  <2> HIDE DEF f, s
  <2> QED BY <2>1, <2>2, <1>1
<1>4. CancelDocument(r) \in Result
  BY <1>1, <1>2 DEF CancelDocument, CaseStatus, Open, Terminal
<1>5. FailDocument(r) \in Result
  BY <1>1, <1>2 DEF FailDocument, CaseStatus, Open, Terminal
<1>6. /\ \A n \in Nat : Next1(r, n) \in Result
      /\ \A s \in Open \cup Terminal : [r EXCEPT !.status = s] \in Result
      /\ \A f \in [Case -> CaseStatus] : [r EXCEPT !.cases = f] \in Result
  BY DEF Next1, Result
<1> QED BY <1>1, <1>3, <1>4, <1>5, <1>6

\* A write leaves documents.
LEMMA PutType ==
    ASSUME TypeOK, NEW j \in Job, NEW r \in Result, Put(j, r)
    PROVE  result' \in [Job -> Result]
<1>1. result[j].rev \in Nat
  BY DEF TypeOK, Result
<1>2. Next1(r, result[j].rev) \in Result
  BY <1>1, DocumentTypes
<1>3. result' = [result EXCEPT ![j] = Next1(r, result[j].rev)]
  BY DEF Put
<1> QED BY <1>2, <1>3 DEF TypeOK

\* The pump at rest has its type.
LEMMA NoPumpType == NoPump \in Pumps
BY NoResultType DEF NoPump, Pumps, PumpAt

\* Whatever the pump does next, it is a place of it with the job it is at.
LEMMA PumpTypes ==
    ASSUME TypeOK, NEW p \in PumpAt
    PROVE  /\ [NoPump EXCEPT !.at = p, !.job = pump.job] \in Pumps
           /\ [pump EXCEPT !.at = p] \in Pumps
           /\ \A j \in Job : [NoPump EXCEPT !.at = p, !.job = j] \in Pumps
           /\ [NoPump EXCEPT !.at = p] \in Pumps
           /\ \A r \in Result : [pump EXCEPT !.at = p, !.copy = r] \in Pumps
           /\ \A r \in Result : [NoPump EXCEPT !.at = p, !.job = pump.job, !.copy = r] \in Pumps
<1>1. pump \in Pumps
  BY DEF TypeOK, Pumps
<1> QED BY <1>1, NoPumpType DEF Pumps

-----------------------------------------------------------------------------
(***************************************************************************)
(* The actions that change each variable, read off their UNCHANGED.        *)
(***************************************************************************)

\* The entries change when the start rewrites them, when the pump or a
\* cancellation takes one off, and when a submission appends one.
LEMMA QueueSteps ==
    ASSUME [Next]_vars
    PROVE  \/ queue' = queue \/ RewriteQueue \/ Dequeue \/ AppendEntry
           \/ (\E k \in Job : CancelDequeue(k))
BY DEF Next, Booting, Pump, Admission, Client, Cancellation, Start, ReconcileEntry, Opens,
   InterruptOrphan, BeginClose, CloseInterrupts, CloseEnds, Crash, Look, LookAtResult,
   ReadBundles, BundlesMissing, TakeTurn, GiveUpTurn, Unlink, DrainBegins, SkipRest,
   JobFinishes, JobEnds, CaseStarts, CaseEnds, WriteBundles, CreateResult, ReadQueue,
   RefuseEntry, RollBackBundles, EnqueueStarts, CancelActive, CancelQueued, RemoveResult,
   PauseResult, CancelPut, CancelUnlink, RemoveBundles, Over, disk, memory, vars, DrainFrame,
   ProcessEnds

\* Who writes results.
LEMMA ResultSteps ==
    ASSUME [Next]_vars
    PROVE  \/ result' = result \/ (\E k \in Job : ReconcileEntry(k))
           \/ (\E k \in Job : InterruptOrphan(k)) \/ CloseInterrupts \/ BundlesMissing
           \/ DrainBegins \/ SkipRest \/ JobFinishes \/ (\E c \in Case : CaseStarts(c))
           \/ (\E passed \in BOOLEAN : CaseEnds(passed)) \/ CreateResult \/ RefuseEntry
           \/ (\E k \in Job : RemoveResult(k)) \/ (\E k \in Job : PauseResult(k))
           \/ (\E k \in Job : CancelPut(k))
BY DEF Next, Booting, Pump, Admission, Client, Cancellation, Start, RewriteQueue, Opens,
   BeginClose, CloseEnds, Crash, Look, LookAtResult, ReadBundles, TakeTurn, GiveUpTurn,
   Dequeue, Unlink, JobEnds, WriteBundles, ReadQueue, AppendEntry, RollBackBundles,
   EnqueueStarts, CancelActive, CancelQueued, CancelDequeue, CancelUnlink, RemoveBundles, Over,
   disk, memory, vars, DrainFrame, ProcessEnds

\* Who writes or deletes bundles.
LEMMA BundleSteps ==
    ASSUME [Next]_vars
    PROVE  \/ bundles' = bundles \/ (\E k \in Job : ReconcileEntry(k)) \/ Unlink \/ WriteBundles
           \/ RollBackBundles \/ (\E k \in Job : CancelUnlink(k))
           \/ (\E k \in Job : RemoveBundles(k))
BY DEF Next, Booting, Pump, Admission, Client, Cancellation, Start, RewriteQueue, Opens,
   InterruptOrphan, BeginClose, CloseInterrupts, CloseEnds, Crash, Look, LookAtResult,
   ReadBundles, BundlesMissing, TakeTurn, GiveUpTurn, Dequeue, DrainBegins, SkipRest,
   JobFinishes, JobEnds, CaseStarts, CaseEnds, CreateResult, ReadQueue, AppendEntry,
   RefuseEntry, EnqueueStarts, CancelActive, CancelQueued, RemoveResult, PauseResult,
   CancelPut, CancelDequeue, Over, disk, memory, vars, DrainFrame, ProcessEnds

\* What the life of the process consists of.
LEMMA ServiceSteps ==
    ASSUME [Next]_vars
    PROVE  \/ service' = service \/ Start \/ Opens \/ BeginClose \/ CloseInterrupts \/ CloseEnds
           \/ Crash
BY DEF Next, Booting, Pump, Admission, Client, Cancellation, ReconcileEntry, RewriteQueue,
   InterruptOrphan, Look, LookAtResult, ReadBundles, BundlesMissing, TakeTurn, GiveUpTurn,
   Dequeue, Unlink, DrainBegins, SkipRest, JobFinishes, JobEnds, CaseStarts, CaseEnds,
   WriteBundles, CreateResult, ReadQueue, AppendEntry, RefuseEntry, RollBackBundles,
   EnqueueStarts, CancelActive, CancelQueued, RemoveResult, PauseResult, CancelPut,
   CancelDequeue, CancelUnlink, RemoveBundles, Over, disk, memory, vars, DrainFrame, ProcessEnds

\* Who keeps track of the entries that the start reconciles.
LEMMA BootSteps ==
    ASSUME [Next]_vars
    PROVE  \/ boot' = boot \/ (\E k \in Job : ReconcileEntry(k)) \/ RewriteQueue \/ Opens
           \/ CloseEnds \/ Crash
BY DEF Next, Booting, Pump, Admission, Client, Cancellation, Start, InterruptOrphan,
   BeginClose, CloseInterrupts, Look, LookAtResult, ReadBundles, BundlesMissing, TakeTurn,
   GiveUpTurn, Dequeue, Unlink, DrainBegins, SkipRest, JobFinishes, JobEnds, CaseStarts,
   CaseEnds, WriteBundles, CreateResult, ReadQueue, AppendEntry, RefuseEntry, RollBackBundles,
   EnqueueStarts, CancelActive, CancelQueued, RemoveResult, PauseResult, CancelPut,
   CancelDequeue, CancelUnlink, RemoveBundles, Over, disk, memory, vars, DrainFrame, ProcessEnds

\* Who moves the pump.
LEMMA PumpSteps ==
    ASSUME [Next]_vars
    PROVE  \/ pump' = pump \/ Opens \/ BeginClose \/ CloseEnds \/ Crash \/ Look \/ LookAtResult
           \/ ReadBundles \/ BundlesMissing \/ TakeTurn \/ GiveUpTurn \/ Dequeue \/ Unlink
           \/ DrainBegins \/ SkipRest \/ JobFinishes \/ JobEnds \/ (\E c \in Case : CaseStarts(c))
           \/ (\E passed \in BOOLEAN : CaseEnds(passed)) \/ AppendEntry
           \/ (\E k \in Job : CancelActive(k))
BY DEF Next, Booting, Pump, Admission, Client, Cancellation, Start, ReconcileEntry,
   RewriteQueue, InterruptOrphan, CloseInterrupts, WriteBundles, CreateResult, ReadQueue,
   RefuseEntry, RollBackBundles, EnqueueStarts, CancelQueued, RemoveResult, PauseResult,
   CancelPut, CancelDequeue, CancelUnlink, RemoveBundles, Over, disk, memory, vars, DrainFrame,
   ProcessEnds

\* Who remembers that a job is to be cancelled.
LEMMA CancelledSteps ==
    ASSUME [Next]_vars
    PROVE  \/ cancelledIds' = cancelledIds \/ CloseEnds \/ Crash \/ LookAtResult
           \/ (\E k \in Job : CancelQueued(k))
BY DEF Next, Booting, Pump, Admission, Client, Cancellation, Start, ReconcileEntry,
   RewriteQueue, Opens, InterruptOrphan, BeginClose, CloseInterrupts, Look, ReadBundles,
   BundlesMissing, TakeTurn, GiveUpTurn, Dequeue, Unlink, DrainBegins, SkipRest, JobFinishes,
   JobEnds, CaseStarts, CaseEnds, WriteBundles, CreateResult, ReadQueue, AppendEntry,
   RefuseEntry, RollBackBundles, EnqueueStarts, CancelActive, RemoveResult, PauseResult,
   CancelPut, CancelDequeue, CancelUnlink, RemoveBundles, Over, disk, memory, vars, DrainFrame,
   ProcessEnds

\* Who moves a cancellation.
LEMMA CancelSteps ==
    ASSUME [Next]_vars
    PROVE  \/ cancel' = cancel \/ CloseEnds \/ Crash \/ (\E k \in Job : CancelQueued(k))
           \/ (\E k \in Job : CancelPut(k)) \/ (\E k \in Job : CancelDequeue(k))
           \/ (\E k \in Job : CancelUnlink(k))
BY DEF Next, Booting, Pump, Admission, Client, Cancellation, Start, ReconcileEntry,
   RewriteQueue, Opens, InterruptOrphan, BeginClose, CloseInterrupts, Look, LookAtResult,
   ReadBundles, BundlesMissing, TakeTurn, GiveUpTurn, Dequeue, Unlink, DrainBegins, SkipRest,
   JobFinishes, JobEnds, CaseStarts, CaseEnds, WriteBundles, CreateResult, ReadQueue,
   AppendEntry, RefuseEntry, RollBackBundles, EnqueueStarts, CancelActive, RemoveResult,
   PauseResult, RemoveBundles, Over, disk, memory, vars, DrainFrame, ProcessEnds

\* Who moves a submission.
LEMMA AdmissionSteps ==
    ASSUME [Next]_vars
    PROVE  \/ admission' = admission \/ CloseEnds \/ Crash \/ WriteBundles \/ CreateResult
           \/ ReadQueue \/ AppendEntry \/ RefuseEntry \/ RollBackBundles
           \/ (\E k \in Job : EnqueueStarts(k))
BY DEF Next, Booting, Pump, Admission, Client, Cancellation, Start, ReconcileEntry,
   RewriteQueue, Opens, InterruptOrphan, BeginClose, CloseInterrupts, Look, LookAtResult,
   ReadBundles, BundlesMissing, TakeTurn, GiveUpTurn, Dequeue, Unlink, DrainBegins, SkipRest,
   JobFinishes, JobEnds, CaseStarts, CaseEnds, CancelActive, CancelQueued, RemoveResult,
   PauseResult, CancelPut, CancelDequeue, CancelUnlink, RemoveBundles, Over, disk, memory,
   vars, DrainFrame, ProcessEnds

\* Who deletes a result behind the back of the service.
LEMMA RemovingSteps ==
    ASSUME [Next]_vars
    PROVE  \/ removing' = removing \/ CloseEnds \/ Crash \/ (\E k \in Job : RemoveResult(k))
           \/ (\E k \in Job : RemoveBundles(k))
BY DEF Next, Booting, Pump, Admission, Client, Cancellation, Start, ReconcileEntry,
   RewriteQueue, Opens, InterruptOrphan, BeginClose, CloseInterrupts, Look, LookAtResult,
   ReadBundles, BundlesMissing, TakeTurn, GiveUpTurn, Dequeue, Unlink, DrainBegins, SkipRest,
   JobFinishes, JobEnds, CaseStarts, CaseEnds, WriteBundles, CreateResult, ReadQueue,
   AppendEntry, RefuseEntry, RollBackBundles, EnqueueStarts, CancelActive, CancelQueued,
   PauseResult, CancelPut, CancelDequeue, CancelUnlink, Over, disk, memory, vars, DrainFrame,
   ProcessEnds

\* Who uses up the bounds.
LEMMA SpentSteps ==
    ASSUME [Next]_vars
    PROVE  \/ spent' = spent \/ Start \/ (\E k \in Job : EnqueueStarts(k))
           \/ (\E k \in Job : RemoveResult(k)) \/ (\E k \in Job : PauseResult(k))
BY DEF Next, Booting, Pump, Admission, Client, Cancellation, ReconcileEntry, RewriteQueue,
   Opens, InterruptOrphan, BeginClose, CloseInterrupts, CloseEnds, Crash, Look, LookAtResult,
   ReadBundles, BundlesMissing, TakeTurn, GiveUpTurn, Dequeue, Unlink, DrainBegins, SkipRest,
   JobFinishes, JobEnds, CaseStarts, CaseEnds, WriteBundles, CreateResult, ReadQueue,
   AppendEntry, RefuseEntry, RollBackBundles, CancelActive, CancelQueued, CancelPut,
   CancelDequeue, CancelUnlink, RemoveBundles, Over, disk, memory, vars, DrainFrame, ProcessEnds

-----------------------------------------------------------------------------
(***************************************************************************)
(* Type correctness, and what a write of the pump does.                    *)
(***************************************************************************)

\* Whoever is at work has a job and copies of documents.
LEMMA JobTypes ==
    ASSUME TypeOK
    PROVE  /\ pump.at \in PumpAt /\ pump.copy \in Result
           /\ pump.at \notin {"idle", "dead", "look"} => pump.job \in Job
           /\ admission.at # "none" => admission.job \in Job
           /\ \A j \in Job : cancel[j].copy \in Result /\ result[j] \in Result
BY QueueAssumption DEF TypeOK

\* The queue holds jobs.
LEMMA QueueType == ASSUME TypeOK, [Next]_vars PROVE queue' \in Seq(Job)
<1>1. queue \in Seq(Job) /\ \A S : Kept(queue, S) \in Seq(Job)
  BY KeptKeeps DEF TypeOK
<1>2. AppendEntry => queue' \in Seq(Job)
  BY <1>1, JobTypes DEF AppendEntry
<1> QED BY <1>1, <1>2, QueueSteps DEF RewriteQueue, Dequeue, CancelDequeue, Without

\* The statuses that a stop gives to cases.
LEMMA CaseSets == \A v : v \in {"interrupted", "cancelled", "failed", "passed"} => v \in CaseStatus
BY DEF CaseStatus

\* What _persist writes.
LEMMA PersistType ==
    ASSUME TypeOK, NEW r \in Result, NEW p, Persist(r, p), pump.job \in Job
    PROVE  result' \in [Job -> Result]
<1>1. CASE IsCurrent(pump.job, pump.copy)
  <2>1. Put(pump.job, r)
    BY <1>1 DEF Persist
  <2> QED BY <2>1, PutType
<1>2. CASE ~IsCurrent(pump.job, pump.copy)
  <2>1. result' = result
    BY <1>2 DEF Persist
  <2> QED BY <2>1 DEF TypeOK
<1> QED BY <1>1, <1>2

\* The status that a case ends with.
LEMMA OutcomeType == \A passed \in BOOLEAN : Outcome(passed) \in CaseStatus
BY DEF Outcome, CaseStatus

\* Every step leaves documents.
LEMMA ResultType == ASSUME TypeOK, [Next]_vars PROVE result' \in [Job -> Result]
<1>1. result \in [Job -> Result]
  BY DEF TypeOK
<1>2. ASSUME NEW k \in Job, ReconcileEntry(k) PROVE result' \in [Job -> Result]
  <2>1. [result[k] EXCEPT !.status = "error"] \in Result /\ FailDocument(result[k]) \in Result
        /\ Interrupt(result[k]) \in Result
    BY <1>1, DocumentTypes DEF Terminal
  <2>2. \A r \in Result : Put(k, r) => result' \in [Job -> Result]
    BY PutType
  <2> QED BY <1>1, <1>2, <2>1, <2>2 DEF ReconcileEntry
<1>3. ASSUME NEW k \in Job, InterruptOrphan(k) PROVE result' \in [Job -> Result]
  <2>1. Mark(result[k], {"pending", "running"}, "interrupted") \in [Case -> CaseStatus]
    BY <1>1, MarkType, CaseSets
  <2>2. [result[k] EXCEPT !.cases = Mark(result[k], {"pending", "running"}, "interrupted"),
                          !.status = "interrupted"] \in Result
    BY <1>1, <2>1, DocumentTypes DEF Terminal
  <2> QED BY <1>3, <2>2, PutType DEF InterruptOrphan
<1>4. CASE CloseInterrupts
  <2>1. CASE pump.job \in Job
    <3>1. Interrupt(result[pump.job]) \in Result
      BY <1>1, <2>1, DocumentTypes
    <3>2. Put(pump.job, Interrupt(result[pump.job])) => result' \in [Job -> Result]
      BY <3>1, <2>1, PutType
    <3> QED BY <1>1, <1>4, <3>2 DEF CloseInterrupts
  <2>2. CASE pump.job \notin Job
    BY <1>1, <1>4, <2>2 DEF CloseInterrupts, Put
  <2> QED BY <2>1, <2>2
<1>5. CASE BundlesMissing
  <2>1. pump.job \in Job /\ FailDocument(pump.copy) \in Result
    BY <1>5, JobTypes, DocumentTypes DEF BundlesMissing, PumpStep
  <2>2. Put(pump.job, FailDocument(pump.copy)) => result' \in [Job -> Result]
    BY <2>1, PutType
  <2> QED BY <1>1, <1>5, <2>2 DEF BundlesMissing
<1>6. CASE DrainBegins
  <2>1. pump.job \in Job /\ [pump.copy EXCEPT !.status = "running"] \in Result
    BY <1>6, JobTypes, DocumentTypes DEF DrainBegins, PumpStep, Open
  <2>2. result' = result \/ Persist([pump.copy EXCEPT !.status = "running"], "loop")
    BY <1>6 DEF DrainBegins
  <2> QED BY <1>1, <2>1, <2>2, PersistType
<1>7. CASE SkipRest
  <2>1. pump.job \in Job /\ Mark(pump.copy, {"pending"}, "cancelled") \in [Case -> CaseStatus]
    BY <1>7, JobTypes, MarkType, CaseSets DEF SkipRest, PumpStep
  <2>2. [pump.copy EXCEPT !.cases = Mark(pump.copy, {"pending"}, "cancelled")] \in Result
    BY <2>1, JobTypes, DocumentTypes
  <2> QED BY <1>7, <2>1, <2>2, PersistType DEF SkipRest
<1>8. CASE JobFinishes
  <2>1. /\ pump.job \in Job /\ Interrupt(pump.copy) \in Result /\ CancelDocument(pump.copy) \in Result
        /\ [pump.copy EXCEPT !.status = "completed"] \in Result
    BY <1>8, JobTypes, DocumentTypes DEF JobFinishes, PumpStep, Terminal
  <2>2. \E r \in Result, p \in {"ended", "dequeueCancelled"} : Persist(r, p)
    BY <1>8, <2>1 DEF JobFinishes
  <2> QED BY <2>1, <2>2, PersistType
<1>9. ASSUME NEW c \in Case, CaseStarts(c) PROVE result' \in [Job -> Result]
  <2>1. pump.job \in Job /\ [pump.copy EXCEPT !.cases[c] = "running"] \in Result
    <3>1. [pump.copy.cases EXCEPT ![c] = "running"] \in [Case -> CaseStatus]
      BY JobTypes DEF Result, CaseStatus
    <3>2. [pump.copy EXCEPT !.cases = [pump.copy.cases EXCEPT ![c] = "running"]] \in Result
      BY <3>1, JobTypes, DocumentTypes
    <3> QED BY <1>9, <3>2, JobTypes DEF CaseStarts, PumpStep
  <2> QED BY <1>9, <2>1, PersistType DEF CaseStarts
<1>10. ASSUME NEW passed \in BOOLEAN, CaseEnds(passed) PROVE result' \in [Job -> Result]
  <2> DEFINE r == [pump.copy EXCEPT !.cases = Mark(pump.copy, {"running"}, Outcome(passed))]
  <2>1. Mark(pump.copy, {"running"}, Outcome(passed)) \in [Case -> CaseStatus]
    BY JobTypes, MarkType, OutcomeType
  <2>2. pump.job \in Job /\ r \in Result
    BY <1>10, <2>1, JobTypes, DocumentTypes DEF CaseEnds, PumpStep
  <2>3. \E p : Persist(r, p)
    BY <1>10 DEF CaseEnds
  <2> HIDE DEF r
  <2> QED BY <2>2, <2>3, PersistType
<1>11. CASE CreateResult
  <2>1. admission.job \in Job /\ [NoResult EXCEPT !.status = "pending"] \in Result
    BY <1>11, JobTypes, NoResultType, DocumentTypes DEF CreateResult, Open
  <2> QED BY <1>11, <2>1, PutType DEF CreateResult
<1>12. CASE RefuseEntry
  BY <1>1, <1>12, NoResultType DEF RefuseEntry
<1>13. ASSUME NEW k \in Job, RemoveResult(k) PROVE result' \in [Job -> Result]
  BY <1>1, <1>13, NoResultType DEF RemoveResult
<1>14. ASSUME NEW k \in Job, PauseResult(k) PROVE result' \in [Job -> Result]
  <2>1. Mark(result[k], {"running"}, "interrupted") \in [Case -> CaseStatus]
    BY <1>1, MarkType, CaseSets
  <2>2. [result[k] EXCEPT !.cases = Mark(result[k], {"running"}, "interrupted"),
                          !.status = "paused"] \in Result
    BY <1>1, <2>1, DocumentTypes DEF Open
  <2> QED BY <1>14, <2>2, PutType DEF PauseResult
<1>15. ASSUME NEW k \in Job, CancelPut(k) PROVE result' \in [Job -> Result]
  <2>1. CancelDocument(cancel[k].copy) \in Result
    BY JobTypes, DocumentTypes
  <2>2. Put(k, CancelDocument(cancel[k].copy)) => result' \in [Job -> Result]
    BY <2>1, PutType
  <2> QED BY <1>1, <1>15, <2>2 DEF CancelPut
<1> QED BY <1>1, <1>2, <1>3, <1>4, <1>5, <1>6, <1>7, <1>8, <1>9, <1>10, <1>11, <1>12, <1>13,
   <1>14, <1>15,
   ResultSteps

\* The places the pump goes to with the job it is at, and to begin with another.
LEMMA Tidied ==
    ASSUME NEW p, PumpTidies(p)
    PROVE  /\ pump'.at = p /\ pump'.job = pump.job /\ pump'.copy = NoResult
           /\ pump'.cancel = FALSE /\ pump'.shutdown = FALSE
BY DEF PumpTidies, NoPump

\* The pump goes on with its copy.
LEMMA GoneTo ==
    ASSUME TypeOK, NEW p, PumpGoesTo(p)
    PROVE  /\ pump'.at = p /\ pump'.job = pump.job /\ pump'.copy = pump.copy
           /\ pump'.cancel = pump.cancel /\ pump'.shutdown = pump.shutdown
BY DEF TypeOK, PumpGoesTo

\* _persist writes r, and the pump goes on with it as its copy, or tidies up.
LEMMA Persisted ==
    ASSUME TypeOK, NEW r \in Result, NEW p, Persist(r, p), pump.job \in Job
    PROVE  \/ /\ IsCurrent(pump.job, pump.copy) /\ Put(pump.job, r)
              /\ p \in {"ended", "dequeueCancelled"} /\ PumpTidies(p)
           \/ /\ IsCurrent(pump.job, pump.copy) /\ Put(pump.job, r)
              /\ p \notin {"ended", "dequeueCancelled"}
              /\ pump'.at = p /\ pump'.job = pump.job /\ pump'.copy = result'[pump.job]
              /\ pump'.cancel = pump.cancel /\ pump'.shutdown = pump.shutdown
           \/ /\ ~IsCurrent(pump.job, pump.copy) /\ result' = result
              /\ PumpTidies(AfterConflict)
<1>1. CASE ~IsCurrent(pump.job, pump.copy)
  BY <1>1 DEF Persist
<1>2. CASE IsCurrent(pump.job, pump.copy) /\ p \in {"ended", "dequeueCancelled"}
  BY <1>2 DEF Persist
<1>3. CASE IsCurrent(pump.job, pump.copy) /\ p \notin {"ended", "dequeueCancelled"}
  <2>1. Put(pump.job, r) /\ pump' = [pump EXCEPT !.at = p, !.copy = Next1(r, @.rev)]
    BY <1>3 DEF Persist
  <2>2. pump'.at = p /\ pump'.job = pump.job /\ pump'.copy = Next1(r, pump.copy.rev)
        /\ pump'.cancel = pump.cancel /\ pump'.shutdown = pump.shutdown
    BY <2>1 DEF TypeOK
  <2>3. result'[pump.job] = Next1(r, result[pump.job].rev)
    BY <2>1 DEF Put, TypeOK
  <2> QED BY <1>3, <2>1, <2>2, <2>3 DEF IsCurrent
<1> QED BY <1>1, <1>2, <1>3

\* _persist leaves the pump with a place and the job it is at.
LEMMA PersistPumps ==
    ASSUME TypeOK, NEW r \in Result, NEW p \in PumpAt, Persist(r, p), pump.job \in Job
    PROVE  pump' \in Pumps /\ pump'.job = pump.job
<1>1. AfterConflict \in PumpAt
  BY DEF AfterConflict, PumpAt, Settling
<1>2. ASSUME NEW q \in PumpAt, PumpTidies(q) PROVE pump' \in Pumps /\ pump'.job = pump.job
  BY <1>2, PumpTypes, Tidied DEF PumpTidies
<1>3. \A n \in Nat : Next1(r, n) \in Result
  BY DocumentTypes
<1>4. pump.copy.rev \in Nat
  BY JobTypes DEF Result
<1>5. pump' = [pump EXCEPT !.at = p, !.copy = Next1(r, @.rev)] => pump' \in Pumps /\ pump'.job = pump.job
  <2> SUFFICES ASSUME pump' = [pump EXCEPT !.at = p, !.copy = Next1(r, @.rev)]
               PROVE  pump' \in Pumps /\ pump'.job = pump.job
    OBVIOUS
  <2> DEFINE q == Next1(r, pump.copy.rev)
  <2>1. pump \in Pumps /\ q \in Result
    BY <1>3, <1>4 DEF TypeOK, Pumps
  <2>2. pump' = [pump EXCEPT !.at = p, !.copy = q]
    BY <2>1 DEF Pumps
  <2> HIDE DEF q
  <2> QED BY <2>1, <2>2 DEF Pumps
<1> QED BY <1>1, <1>2, <1>5 DEF Persist

\* Every step leaves the pump a place, and a job unless it is idle.
LEMMA PumpType ==
    ASSUME TypeOK, [Next]_vars
    PROVE  pump' \in Pumps /\ (pump'.job = "none" => pump'.at \in Idle)
<1> DEFINE Good == pump' \in Pumps /\ (pump'.job = "none" => pump'.at \in Idle)
<1> SUFFICES Good
  OBVIOUS
<1>1. pump \in Pumps /\ (pump.job = "none" => pump.at \in Idle)
  BY DEF TypeOK, Pumps, Idle
<1>2. pump' = pump => Good
  BY <1>1
<1>3. ASSUME NEW p \in PumpAt, PumpTidies(p), p \in Idle \/ pump.at \notin Idle PROVE Good
  BY <1>1, <1>3, PumpTypes, Tidied DEF PumpTidies
<1>4. ASSUME NEW p \in PumpAt, PumpGoesTo(p), pump.at \notin Idle PROVE Good
  BY <1>1, <1>4, PumpTypes, GoneTo DEF PumpGoesTo
<1>5. ASSUME NEW p \in Idle, pump' = [NoPump EXCEPT !.at = p] PROVE Good
  BY <1>5, PumpTypes DEF Idle, PumpAt, NoPump
<1>6. ASSUME NEW r \in Result, NEW p \in PumpAt, Persist(r, p), pump.at \notin Idle PROVE Good
  BY <1>1, <1>6, JobTypes, PersistPumps DEF Idle
<1> HIDE DEF Good
<1>7. CASE Opens \/ CloseEnds \/ Crash
  <2>1. CASE Opens
    BY <1>5, <2>1 DEF Opens, Idle
  <2>2. CASE pump' = NoPump
    BY <2>2, NoPumpType DEF Idle, NoPump, Good
  <2> QED BY <1>7, <2>1, <2>2 DEF CloseEnds, Crash, ProcessEnds
<1>8. CASE BeginClose
  <2>1. \E active \in BOOLEAN : pump' = [pump EXCEPT !.shutdown = active]
    <3> DEFINE active == pump.at \in Draining \cup Settling
    <3>1. active \in BOOLEAN /\ pump' = [pump EXCEPT !.shutdown = active]
      BY <1>8 DEF BeginClose
    <3> HIDE DEF active
    <3> QED BY <3>1
  <2> QED BY <1>1, <2>1 DEF Good, Pumps
<1>10. CASE Look
  <2>1. CASE closing \/ Waiting = {}
    BY <1>3, <1>10, <2>1 DEF Look, Idle, PumpAt
  <2>2. CASE ~(closing \/ Waiting = {})
    <3>1. PICK i \in Waiting : \A h \in Waiting : i <= h
      <4>1. Waiting \in SUBSET Nat /\ Waiting # {}
        BY <2>2 DEF Waiting, TypeOK
      <4> QED BY <4>1, LeastIn
    <3> DEFINE i0 == CHOOSE n \in Waiting : \A h \in Waiting : n <= h
    <3>2. i0 \in Waiting
      BY <3>1
    <3>3. pump' = [NoPump EXCEPT !.at = "entry", !.job = queue[i0]]
      BY <1>10, <2>2 DEF Look
    <3>4. queue[i0] \in Job
      BY <3>2 DEF Waiting, TypeOK
    <3> HIDE DEF i0
    <3>5. pump'.job = queue[i0] /\ pump' \in Pumps
      BY <3>3, <3>4, PumpTypes DEF PumpAt, Draining, Settling, NoPump
    <3> QED BY <3>4, <3>5, QueueAssumption DEF Good
  <2> QED BY <2>1, <2>2
<1>11. CASE LookAtResult
  <2>1. pump.job \in Job /\ Fate(pump.job) \in PumpAt
    BY <1>11, JobTypes DEF LookAtResult, PumpStep, Fate, PumpAt
  <2>2. \E r \in Result : pump' = [NoPump EXCEPT !.at = Fate(pump.job), !.job = pump.job, !.copy = r]
    BY <1>11, <2>1, JobTypes, NoResultType DEF LookAtResult, NoPump
  <2>3. pump' \in Pumps
    BY <2>1, <2>2, PumpTypes
  <2>4. pump'.job = pump.job
    BY <2>2 DEF NoPump
  <2> QED BY <2>1, <2>3, <2>4, QueueAssumption DEF Good
<1>12. CASE ReadBundles \/ TakeTurn
  BY <1>4, <1>12 DEF ReadBundles, TakeTurn, PumpStep, Idle, PumpAt, Draining
<1>13. CASE BundlesMissing \/ GiveUpTurn \/ JobEnds
  BY <1>3, <1>13 DEF BundlesMissing, GiveUpTurn, JobEnds, PumpStep, Idle, PumpAt, Draining,
     Settling
<1>14. CASE Dequeue
  <2>1. \E p \in {"unlink", "look", "unlinkCancelled", "unlinkConflict"} : PumpTidies(p)
    BY <1>14 DEF Dequeue
  <2> QED BY <1>3, <1>14, <2>1 DEF Dequeue, Idle, PumpAt, Draining, Settling
<1>15. CASE Unlink
  BY <1>3, <1>15 DEF Unlink, Idle, PumpAt, Draining, Settling
<1>16. CASE DrainBegins
  <2>1. [pump.copy EXCEPT !.status = "running"] \in Result
    BY JobTypes, DocumentTypes DEF Open
  <2> QED BY <1>4, <1>6, <1>16, <2>1 DEF DrainBegins, PumpStep, Idle, PumpAt, Draining
<1>17. CASE SkipRest
  <2>1. [pump.copy EXCEPT !.cases = Mark(pump.copy, {"pending"}, "cancelled")] \in Result
    BY JobTypes, MarkType, CaseSets, DocumentTypes
  <2> QED BY <1>6, <1>17, <2>1 DEF SkipRest, PumpStep, Idle, PumpAt, Draining
<1>18. CASE JobFinishes
  <2>1. /\ Interrupt(pump.copy) \in Result /\ CancelDocument(pump.copy) \in Result
        /\ [pump.copy EXCEPT !.status = "completed"] \in Result
    BY JobTypes, DocumentTypes DEF Terminal
  <2>2. \E r \in Result, p \in {"ended", "dequeueCancelled"} : Persist(r, p)
    BY <1>18, <2>1 DEF JobFinishes
  <2> QED BY <1>6, <1>18, <2>2 DEF JobFinishes, PumpStep, Idle, PumpAt, Draining, Settling
<1>19. ASSUME NEW c \in Case, CaseStarts(c) PROVE Good
  <2>1. [pump.copy EXCEPT !.cases[c] = "running"] \in Result
    <3>1. [pump.copy.cases EXCEPT ![c] = "running"] \in [Case -> CaseStatus]
      BY JobTypes DEF Result, CaseStatus
    <3>2. [pump.copy EXCEPT !.cases = [pump.copy.cases EXCEPT ![c] = "running"]] \in Result
      BY <3>1, JobTypes, DocumentTypes
    <3> QED BY <3>2
  <2> QED BY <1>6, <1>19, <2>1 DEF CaseStarts, PumpStep, Idle, PumpAt, Draining
<1>20. ASSUME NEW passed \in BOOLEAN, CaseEnds(passed) PROVE Good
  <2> DEFINE r == [pump.copy EXCEPT !.cases = Mark(pump.copy, {"running"}, Outcome(passed))]
  <2>1. r \in Result
    BY JobTypes, MarkType, OutcomeType, DocumentTypes
  <2>2. \E p \in {"skipping", "loop"} : Persist(r, p)
    BY <1>20 DEF CaseEnds
  <2> HIDE DEF r
  <2> QED BY <1>6, <1>20, <2>1, <2>2 DEF CaseEnds, PumpStep, Idle, PumpAt, Draining
<1>21. CASE AppendEntry
  BY <1>2, <1>5, <1>21 DEF AppendEntry, PumpEnsured, Idle
<1>22. ASSUME NEW k \in Job, CancelActive(k) PROVE Good
  BY <1>1, <1>22 DEF CancelActive, Good, Pumps
<1> QED BY <1>2, <1>7, <1>8, <1>10, <1>11, <1>12, <1>13, <1>14, <1>15, <1>16, <1>17, <1>18,
   <1>19, <1>20, <1>21, <1>22,
   PumpSteps

\* Every step leaves bundles of jobs.
LEMMA BundlesType == ASSUME TypeOK, [Next]_vars PROVE bundles' \subseteq Job
<1>1. WriteBundles => bundles' \subseteq Job
  BY JobTypes DEF WriteBundles, TypeOK
<1> QED BY <1>1, BundleSteps
   DEF TypeOK, ReconcileEntry, Unlink, RollBackBundles, CancelUnlink, RemoveBundles

\* Every step leaves the process in one of its phases.
LEMMA ServiceType ==
    ASSUME TypeOK, [Next]_vars
    PROVE  service' \in {"down", "starting", "serving", "closing", "stopping"}
BY ServiceSteps
   DEF TypeOK, Start, Opens, BeginClose, CloseInterrupts, CloseEnds, Crash, ProcessEnds

\* Every step leaves sets of reconciled and of valid entries.
LEMMA BootType ==
    ASSUME TypeOK, [Next]_vars
    PROVE  boot' \in [seen : SUBSET Job, valid : SUBSET Job, rewritten : BOOLEAN]
<1> DEFINE Boots == [seen : SUBSET Job, valid : SUBSET Job, rewritten : BOOLEAN]
<1>1. boot \in Boots /\ NoBoot \in Boots
  BY DEF TypeOK, NoBoot
<1>2. ASSUME NEW k \in Job, ReconcileEntry(k) PROVE boot' \in Boots
  <2>1. \/ boot' = [boot EXCEPT !.seen = @ \cup {k}]
        \/ boot' = [boot EXCEPT !.seen = @ \cup {k}, !.valid = @ \cup {k}]
    BY <1>2 DEF ReconcileEntry
  <2>2. boot.seen \cup {k} \in SUBSET Job /\ boot.valid \cup {k} \in SUBSET Job
    BY <1>1
  <2>3. \A S \in SUBSET Job : [boot EXCEPT !.seen = S] \in Boots
    BY <1>1
  <2>4. \A S, T \in SUBSET Job : [boot EXCEPT !.seen = S, !.valid = T] \in Boots
    BY <1>1
  <2>5. \/ boot' = [boot EXCEPT !.seen = boot.seen \cup {k}]
        \/ boot' = [boot EXCEPT !.seen = boot.seen \cup {k}, !.valid = boot.valid \cup {k}]
    BY <1>1, <2>1
  <2> HIDE DEF Boots
  <2> QED BY <2>2, <2>3, <2>4, <2>5
<1>3. RewriteQueue => boot' \in Boots
  BY <1>1 DEF RewriteQueue
<1>4. Opens \/ CloseEnds \/ Crash => boot' \in Boots
  BY <1>1 DEF Opens, CloseEnds, Crash, ProcessEnds
<1> QED BY <1>1, <1>2, <1>3, <1>4, BootSteps

\* Only jobs are remembered as cancelled.
LEMMA CancelledType == ASSUME TypeOK, [Next]_vars PROVE cancelledIds' \subseteq Job
BY CancelledSteps DEF TypeOK, CloseEnds, Crash, ProcessEnds, LookAtResult, CancelQueued

Cancels == [at : {"none", "put", "dequeue", "unlink"}, copy : Result]

\* Every step leaves cancellations with a place and a copy.
LEMMA CancelType == ASSUME TypeOK, [Next]_vars PROVE cancel' \in [Job -> Cancels]
<1>1. cancel \in [Job -> Cancels] /\ NoCancel \in Cancels /\ [NoCancel EXCEPT !.at = "dequeue"] \in Cancels
  BY NoResultType DEF TypeOK, Cancels, NoCancel
<1>2. CloseEnds \/ Crash => cancel' \in [Job -> Cancels]
  BY <1>1 DEF CloseEnds, Crash, ProcessEnds
<1>3. ASSUME NEW k \in Job, CancelQueued(k) PROVE cancel' \in [Job -> Cancels]
  <2>1. [at |-> "put", copy |-> result[k]] \in Cancels
    BY JobTypes DEF Cancels
  <2> QED BY <1>1, <1>3, <2>1 DEF CancelQueued
<1>4. ASSUME NEW k \in Job, CancelPut(k) PROVE cancel' \in [Job -> Cancels]
  BY <1>1, <1>4 DEF CancelPut
<1>5. ASSUME NEW k \in Job, CancelDequeue(k) PROVE cancel' \in [Job -> Cancels]
  <2>1. [cancel[k] EXCEPT !.at = "unlink"] \in Cancels
    BY <1>1 DEF Cancels
  <2> QED BY <1>1, <1>5, <2>1 DEF CancelDequeue
<1>6. ASSUME NEW k \in Job, CancelUnlink(k) PROVE cancel' \in [Job -> Cancels]
  BY <1>1, <1>6 DEF CancelUnlink
<1> QED BY <1>1, <1>2, <1>3, <1>4, <1>5, <1>6, CancelSteps

Admissions == [at : {"none", "bundles", "result", "read", "append", "rollback"},
               job : Job \cup {"none"}, seen : Seq(Job)]

\* A submission under way has a job, and only then.
LEMMA AdmissionType ==
    ASSUME TypeOK, [Next]_vars
    PROVE  admission' \in Admissions /\ (admission'.at = "none" <=> admission'.job = "none")
<1>1. admission \in Admissions /\ (admission.at = "none" <=> admission.job = "none") /\ queue \in Seq(Job)
  BY DEF TypeOK, Admissions
<1>2. NoAdmission \in Admissions /\ NoAdmission.at = "none" /\ NoAdmission.job = "none"
  BY DEF Admissions, NoAdmission
<1>3. ASSUME NEW p \in {"result", "read", "append", "rollback"}, AdmissionGoesTo(p), admission.at # "none"
      PROVE  admission' \in Admissions /\ (admission'.at = "none" <=> admission'.job = "none")
  BY <1>1, <1>3 DEF AdmissionGoesTo, Admissions
<1>4. ReadQueue => admission' \in Admissions /\ (admission'.at = "none" <=> admission'.job = "none")
  BY <1>1 DEF ReadQueue, Admissions
<1>5. ASSUME NEW k \in Job, EnqueueStarts(k)
      PROVE  admission' \in Admissions /\ (admission'.at = "none" <=> admission'.job = "none")
  <2>1. <<>> \in Seq(Job)
    OBVIOUS
  <2> QED BY <1>5, <2>1, QueueAssumption DEF EnqueueStarts, Admissions
<1> QED BY <1>1, <1>2, <1>3, <1>4, <1>5, AdmissionSteps
   DEF CloseEnds, Crash, ProcessEnds, WriteBundles, CreateResult, AppendEntry, RefuseEntry,
       RollBackBundles

\* Only results of jobs are deleted.
LEMMA RemovingType == ASSUME TypeOK, [Next]_vars PROVE removing' \subseteq Job
BY RemovingSteps DEF TypeOK, CloseEnds, Crash, ProcessEnds, RemoveResult, RemoveBundles

\* The bounds hold.
LEMMA SpentType ==
    ASSUME TypeOK, [Next]_vars
    PROVE  spent' \in [starts : 0..MaxStarts, submissions : 0..MaxSubmissions, edits : 0..MaxEdits]
<1>1. MaxStarts \in Nat /\ MaxSubmissions \in Nat /\ MaxEdits \in Nat
  BY QueueAssumption
<1> DEFINE Spends == [starts : 0..MaxStarts, submissions : 0..MaxSubmissions, edits : 0..MaxEdits]
<1>2. spent \in Spends
  BY DEF TypeOK
<1>3. Start => spent' \in Spends
  BY <1>1, <1>2 DEF Start
<1>4. \A k \in Job : EnqueueStarts(k) => spent' \in Spends
  BY <1>1, <1>2 DEF EnqueueStarts
<1>5. \A k \in Job : RemoveResult(k) \/ PauseResult(k) => spent' \in Spends
  BY <1>1, <1>2 DEF RemoveResult, PauseResult
<1> QED BY <1>2, <1>3, <1>4, <1>5, SpentSteps

\* Nothing stored and nothing running has the types.
LEMMA InitType == Init => TypeOK
<1> SUFFICES ASSUME Init PROVE TypeOK
  OBVIOUS
<1>1. <<>> \in Seq(Job) /\ MaxStarts \in Nat /\ MaxSubmissions \in Nat /\ MaxEdits \in Nat
  BY QueueAssumption
<1>2. NoPump \in [at : PumpAt, job : Job \cup {"none"}, copy : Result, cancel : BOOLEAN, shutdown : BOOLEAN]
  BY NoPumpType DEF Pumps
<1> QED BY <1>1, <1>2, NoResultType DEF Init, TypeOK, NoBoot, NoPump, NoCancel, NoAdmission

\* A step keeps the types.
LEMMA NextType == ASSUME TypeOK, [Next]_vars PROVE TypeOK'
BY QueueType, ResultType, BundlesType, ServiceType, BootType, PumpType, CancelledType,
   CancelType, AdmissionType,
   RemovingType, SpentType
   DEF TypeOK, Pumps, Idle, Cancels, Admissions

\* The queue file, the results and the memory of the service keep their types,
\* whatever clients do and wherever the process crashes.
THEOREM QueueTypeCorrect == Spec => []TypeOK
BY InitType, NextType, PTL DEF Spec

-----------------------------------------------------------------------------
(***************************************************************************)
(* What becomes of a document: admission, a stop, the run of the pump.     *)
(***************************************************************************)

\* What a write of r stores.
LEMMA PutFields ==
    ASSUME TypeOK, NEW j \in Job, NEW r \in Result, Put(j, r)
    PROVE  /\ result'[j].status = r.status /\ result'[j].cases = r.cases
           /\ result'[j].rev = result[j].rev + 1 /\ result[j].rev \in Nat
           /\ \A i \in Job \ {j} : result'[i] = result[i]
<1>1. result' = [result EXCEPT ![j] = Next1(r, result[j].rev)] /\ result \in [Job -> Result]
  BY DEF Put, TypeOK
<1>2. result[j].rev \in Nat
  BY <1>1 DEF Result
<1>3. /\ Next1(r, result[j].rev).status = r.status /\ Next1(r, result[j].rev).cases = r.cases
      /\ Next1(r, result[j].rev).rev = result[j].rev + 1
  BY <1>2 DEF Next1, Result
<1> QED BY <1>1, <1>2, <1>3

\* What becomes of one case when those in S are marked.
LEMMA MarkFields ==
    ASSUME NEW r \in Result, NEW S, NEW v, NEW c \in Case
    PROVE  Mark(r, S, v)[c] = IF r.cases[c] \in S THEN v ELSE r.cases[c]
BY DEF Mark

\* What interruptRunningCaseOnly makes of a document.
LEMMA InterruptFields ==
    ASSUME NEW r \in Result
    PROVE  /\ Interrupt(r).status = (IF Pending(r) # {} THEN "paused" ELSE "interrupted")
           /\ Interrupt(r).cases = Mark(r, {"running"}, "interrupted")
BY DEF Interrupt, Result

\* What _finalizeCancellation makes of a document.
LEMMA CancelFields ==
    ASSUME NEW r \in Result
    PROVE  /\ CancelDocument(r).status = "cancelled"
           /\ CancelDocument(r).cases = Mark(r, {"pending", "running"}, "cancelled")
BY DEF CancelDocument, Result

\* What _persistQueueError makes of a document.
LEMMA FailFields ==
    ASSUME NEW r \in Result
    PROVE  /\ FailDocument(r).status = "error"
           /\ FailDocument(r).cases = Mark(r, {"pending", "running"}, "failed")
BY DEF FailDocument, Result

\* The missing document, and the one that enqueue creates.
LEMMA FreshFields ==
    /\ NoResult.status = "none" /\ NoResult.rev = 0 /\ \A c \in Case : NoResult.cases[c] = "pending"
    /\ FreshDocument.status = "pending" /\ FreshDocument.rev = 1
    /\ FreshDocument.cases = NoResult.cases
BY DEF NoResult, FreshDocument

NoCaseRuns(r) == \A c \in Case : r.cases[c] # "running"
OneCaseRuns(r) == \E c \in Case : {d \in Case : r.cases[d] = "running"} = {c}

\* What a stop makes of the document q.
StopsAs(q, r) ==
    \/ /\ q.status \in Open
       /\ \/ r.status = "cancelled" /\ r.cases = Mark(q, {"pending", "running"}, "cancelled")
          \/ r.status = "paused" /\ r.cases = Mark(q, {"running"}, "interrupted")
          \/ r.status = "interrupted" /\ r.cases = Mark(q, {"pending", "running"}, "interrupted")
    \/ /\ r.status = "error" /\ q.status # "none"
       /\ \/ r.cases = Mark(q, {"pending", "running"}, "failed")
          \/ r.cases = q.cases /\ NoCaseRuns(r)

\* What the pump makes of the document q on its way to p.
RunsAs(q, r, p) ==
    \/ /\ q.status = "pending" /\ r.status = "running" /\ p = "loop"
       /\ r.cases = q.cases /\ NoCaseRuns(q)
    \/ /\ q.status = "running" /\ r.status = "running" /\ p = "running" /\ NoCaseRuns(q)
       /\ \E c \in Pending(q) :
             /\ \A b \in Pending(q) : c <= b
             /\ r.cases = [q.cases EXCEPT ![c] = "running"]
    \/ /\ q.status = "running" /\ r.status = "running" /\ p \in {"loop", "skipping"}
       /\ \E c \in Case, v \in {"passed", "failed", "cancelled", "interrupted"} :
             /\ {d \in Case : q.cases[d] = "running"} = {c}
             /\ r.cases = [q.cases EXCEPT ![c] = v]
    \/ /\ q.status = "running" /\ r.status = "running" /\ p = "loop" /\ NoCaseRuns(q)
       /\ r.cases = Mark(q, {"pending"}, "cancelled")
    \/ /\ q.status = "running" /\ r.status = "completed" /\ p = "ended"
       /\ Pending(q) = {} /\ NoCaseRuns(q) /\ r.cases = q.cases

\* Who moves the result of j, and where to: admission, somebody who ends it, or
\* the pump that runs it.
Created(j) ==
    /\ admission.at = "result" /\ admission.job = j /\ admission'.at = "read" /\ admission'.job = j
    /\ result[j] = NoResult /\ result'[j] = FreshDocument
Deleted(j) ==
    /\ admission.at = "append" /\ admission.job = j /\ admission'.at = "rollback" /\ admission'.job = j
    /\ result[j] = FreshDocument /\ result'[j] = NoResult
Stopped(j) == result'[j].rev = result[j].rev + 1 /\ StopsAs(result[j], result'[j])
Advanced(j) ==
    /\ pump.job = j /\ pump.at \in InRun \cup {"begin"} /\ result[j] = pump.copy
    /\ result'[j].rev = result[j].rev + 1
    /\ RunsAs(result[j], result'[j], pump'.at)
    /\ pump'.job = j /\ (pump'.at \in InRun => pump'.copy = result'[j])

Moved(j) ==
    /\ Created(j) \/ Deleted(j) \/ Stopped(j) \/ Advanced(j)
    /\ \A i \in Job \ {j} : result'[i] = result[i]

\* After a stop no case runs, and what was over is at most declared an error.
LEMMA StopIsStill ==
    ASSUME NEW q \in Result, NEW r \in Result, StopsAs(q, r)
    PROVE  /\ r.status \in {"paused", "interrupted", "cancelled", "error"} /\ NoCaseRuns(r)
           /\ q.status # "none" /\ (q.status \in Terminal => r.status = "error")
<1>2. NoCaseRuns(r)
  <2>1. ASSUME NEW S, NEW v, r.cases = Mark(q, S, v), "running" \in S, v # "running" PROVE NoCaseRuns(r)
    BY <2>1 DEF NoCaseRuns, Mark
  <2> QED BY <2>1 DEF StopsAs
<1> QED BY <1>2 DEF StopsAs, Open, Terminal

\* After a step of the run the document is running, one case at most in it, or
\* it is completed.
LEMMA RunGoesOn ==
    ASSUME NEW q \in Result, NEW r \in Result, NEW p, RunsAs(q, r, p)
    PROVE  /\ q.status \in {"pending", "running"}
           /\ \/ /\ r.status = "running" /\ p \in InRun
                 /\ p = "running" => OneCaseRuns(r)
                 /\ p \in {"loop", "skipping"} => NoCaseRuns(r)
              \/ r.status = "completed" /\ p = "ended" /\ NoCaseRuns(r)
<1>0. q.cases \in [Case -> CaseStatus] /\ r.cases \in [Case -> CaseStatus]
  BY DEF Result
<1>1. ASSUME NoCaseRuns(q), NEW c \in Case, r.cases = [q.cases EXCEPT ![c] = "running"]
      PROVE  OneCaseRuns(r)
  <2>1. {d \in Case : r.cases[d] = "running"} = {c}
    BY <1>0, <1>1 DEF NoCaseRuns
  <2> QED BY <2>1 DEF OneCaseRuns
<1>2. ASSUME NEW c \in Case, {d \in Case : q.cases[d] = "running"} = {c},
             NEW v \in {"passed", "failed", "cancelled", "interrupted"}, r.cases = [q.cases EXCEPT ![c] = v]
      PROVE  NoCaseRuns(r)
  BY <1>0, <1>2 DEF NoCaseRuns
<1>3. NoCaseRuns(q) /\ r.cases = Mark(q, {"pending"}, "cancelled") => NoCaseRuns(r)
  BY MarkFields DEF NoCaseRuns
<1>4. NoCaseRuns(q) /\ r.cases = q.cases => NoCaseRuns(r)
  BY DEF NoCaseRuns
<1> QED BY <1>1, <1>2, <1>3, <1>4 DEF RunsAs, InRun, Pending

\* The pump that is not told of a conflict has what is stored for its copy.
LEMMA CopyIsStored ==
    ASSUME TypeOK, QueueInv, pump.at \in BeforeRun \cup InRun, IsCurrent(pump.job, pump.copy)
    PROVE  pump.job \in Job /\ result[pump.job] = pump.copy
BY JobTypes DEF QueueInv, Pumping, Working, Idle, BeforeRun, InRun, Copies, IsCurrent

\* What the steps of _drain write, if their copy is current.
LEMMA Drains ==
    ASSUME TypeOK, QueueInv,
           \/ DrainBegins \/ SkipRest \/ JobFinishes \/ (\E c \in Case : CaseStarts(c))
           \/ (\E passed \in BOOLEAN : CaseEnds(passed))
    PROVE  /\ pump.at \in InRun \cup {"begin"} /\ pump.job \in Job
           /\ \E d \in Result, p \in InRun \cup {"ended", "dequeueCancelled"} :
                 /\ Persist(d, p)
                 /\ IsCurrent(pump.job, pump.copy)
                       => \/ RunsAs(pump.copy, d, p)
                          \/ p \in {"ended", "dequeueCancelled"} /\ StopsAs(pump.copy, d)
<1> DEFINE q == pump.copy
           Good == /\ pump.at \in InRun \cup {"begin"} /\ pump.job \in Job
                   /\ \E d \in Result, p \in InRun \cup {"ended", "dequeueCancelled"} :
                         /\ Persist(d, p)
                         /\ IsCurrent(pump.job, q)
                               => \/ RunsAs(q, d, p)
                                  \/ p \in {"ended", "dequeueCancelled"} /\ StopsAs(q, d)
<1> SUFFICES Good
  OBVIOUS
<1>0. q \in Result /\ (pump.at \in InRun \cup {"begin"} => pump.job \in Job)
  BY JobTypes DEF InRun
<1>a. ASSUME NEW d \in Result, NEW p \in InRun \cup {"ended", "dequeueCancelled"}, Persist(d, p),
             IsCurrent(pump.job, q)
                 => RunsAs(q, d, p) \/ (p \in {"ended", "dequeueCancelled"} /\ StopsAs(q, d)),
             pump.at \in InRun \cup {"begin"}
      PROVE  Good
  BY <1>0, <1>a
<1> HIDE DEF Good
<1>1. pump.at \in InRun => q.status = "running"
  BY DEF QueueInv, Pumping, Working, InRun, Idle
<1>2. pump.at \in {"loop", "skipping"} => NoCaseRuns(q)
  BY DEF QueueInv, Pumping, Working, Idle, NoCaseRuns
<1>3. CASE DrainBegins
  <2> DEFINE r == [q EXCEPT !.status = "running"]
  <2>1. pump.at = "begin" /\ q.status = "pending" /\ pump.job \in Job
    BY <1>3, JobTypes DEF DrainBegins, PumpStep, InRun, QueueInv, Pumping, Working, BeforeRun,
       Idle
  <2>2. r \in Result /\ r.status = "running" /\ r.cases = q.cases
    BY <1>0, DocumentTypes DEF Open, Result
  <2>3. Persist(r, "loop")
    BY <1>3, <2>1 DEF DrainBegins
  <2>4. IsCurrent(pump.job, q) => NoCaseRuns(q)
    <3>1. IsCurrent(pump.job, q) => result[pump.job] = q
      BY <1>3, CopyIsStored DEF DrainBegins, PumpStep, BeforeRun
    <3> QED BY <2>1, <3>1 DEF QueueInv, Documents, NoCaseRuns
  <2> HIDE DEF r
  <2>5. IsCurrent(pump.job, q) => RunsAs(q, r, "loop")
    BY <2>1, <2>2, <2>4 DEF RunsAs
  <2> QED BY <1>a, <2>1, <2>2, <2>3, <2>5 DEF InRun
<1>4. CASE SkipRest
  <2> DEFINE f == Mark(q, {"pending"}, "cancelled")
             r == [q EXCEPT !.cases = f]
  <2>1. pump.at = "skipping" /\ Persist(r, "loop")
    BY <1>4 DEF SkipRest, PumpStep
  <2>2. f \in [Case -> CaseStatus]
    BY <1>0, MarkType, CaseSets
  <2>3. r \in Result /\ r.status = q.status /\ r.cases = f
    <3> HIDE DEF f
    <3> QED BY <1>0, <2>2, DocumentTypes DEF Result
  <2> HIDE DEF r
  <2>4. RunsAs(q, r, "loop")
    BY <1>1, <1>2, <2>1, <2>3 DEF RunsAs, InRun
  <2> QED BY <1>a, <2>1, <2>3, <2>4 DEF InRun
<1>5. CASE JobFinishes
  <2> DEFINE r == [q EXCEPT !.status = "completed"]
  <2>1. pump.at = "loop" /\ q.status = "running" /\ pump.job \in Job
    BY <1>0, <1>1, <1>5 DEF JobFinishes, PumpStep, InRun
  <2>2. r \in Result /\ r.status = "completed" /\ r.cases = q.cases
    BY <1>0, DocumentTypes DEF Terminal, Result
  <2>3. \/ Persist(Interrupt(q), "ended")
        \/ Persist(CancelDocument(q), "dequeueCancelled")
        \/ Persist(r, "ended") /\ Pending(q) = {}
    BY <1>5 DEF JobFinishes, Stops
  <2> HIDE DEF r
  <2>4. CASE Persist(Interrupt(q), "ended")
    <3>1. Interrupt(q) \in Result
      BY <1>0, DocumentTypes
    <3>2. Pending(q) = {} => Mark(q, {"running"}, "interrupted") = Mark(q, {"pending", "running"}, "interrupted")
      BY DEF Pending, Mark
    <3>3. StopsAs(q, Interrupt(q))
      BY <1>0, <2>1, <3>2, InterruptFields DEF StopsAs, Open
    <3> QED BY <1>a, <2>1, <2>4, <3>1, <3>3 DEF InRun
  <2>5. CASE Persist(CancelDocument(q), "dequeueCancelled")
    <3>1. CancelDocument(q) \in Result
      BY <1>0, DocumentTypes
    <3>2. StopsAs(q, CancelDocument(q))
      BY <1>0, <2>1, CancelFields DEF StopsAs, Open
    <3> QED BY <1>a, <2>1, <2>5, <3>1, <3>2 DEF InRun
  <2>6. CASE Persist(r, "ended") /\ Pending(q) = {}
    <3>1. RunsAs(q, r, "ended")
      BY <1>2, <2>1, <2>2, <2>6 DEF RunsAs
    <3> QED BY <1>a, <2>1, <2>2, <2>6, <3>1 DEF InRun
  <2> QED BY <2>3, <2>4, <2>5, <2>6
<1>6. ASSUME NEW c \in Case, CaseStarts(c) PROVE Good
  <2> DEFINE f == [q.cases EXCEPT ![c] = "running"]
             r == [q EXCEPT !.cases = f]
  <2>1. /\ pump.at = "loop" /\ Persist(r, "running")
        /\ c \in Pending(q) /\ \A b \in Pending(q) : c <= b
    BY <1>6 DEF CaseStarts, PumpStep
  <2>2. f \in [Case -> CaseStatus]
    BY <1>0 DEF Result, CaseStatus
  <2>3. r \in Result /\ r.status = q.status /\ r.cases = f
    <3> HIDE DEF f
    <3> QED BY <1>0, <2>2, DocumentTypes DEF Result
  <2> HIDE DEF r
  <2>4. RunsAs(q, r, "running")
    BY <1>1, <1>2, <2>1, <2>3 DEF RunsAs, InRun
  <2> QED BY <1>a, <2>1, <2>3, <2>4 DEF InRun
<1>7. ASSUME NEW passed \in BOOLEAN, CaseEnds(passed) PROVE Good
  <2> DEFINE v == Outcome(passed)
             f == Mark(q, {"running"}, v)
             r == [q EXCEPT !.cases = f]
  <2>1. pump.at = "running" /\ \E p \in {"skipping", "loop"} : Persist(r, p)
    BY <1>7 DEF CaseEnds, PumpStep
  <2>2. v \in {"passed", "failed", "cancelled", "interrupted"}
    BY DEF Outcome
  <2>3. f \in [Case -> CaseStatus]
    BY <1>0, MarkType, OutcomeType
  <2>4. r \in Result /\ r.status = q.status /\ r.cases = f
    <3> HIDE DEF f
    <3> QED BY <1>0, <2>3, DocumentTypes DEF Result
  <2>5. PICK c \in Case : {d \in Case : q.cases[d] = "running"} = {c}
    BY <2>1 DEF QueueInv, Pumping, Working, Idle
  <2> HIDE DEF v
  <2>6. f = [q.cases EXCEPT ![c] = v]
    <3>1. q.cases \in [Case -> CaseStatus]
      BY <1>0 DEF Result
    <3> QED BY <2>5, <3>1 DEF Mark
  <2> HIDE DEF f, r
  <2>7. \A p \in {"skipping", "loop"} : RunsAs(q, r, p)
    BY <1>1, <2>1, <2>2, <2>4, <2>5, <2>6 DEF RunsAs, InRun
  <2> QED BY <1>a, <2>1, <2>4, <2>7 DEF InRun
<1> QED BY <1>3, <1>4, <1>5, <1>6, <1>7

\* Only fields are looked at.
LEMMA SameFields ==
    ASSUME NEW q, NEW r \in Result, NEW d \in Result, NEW p, d.status = r.status,
           d.cases = r.cases
    PROVE  /\ StopsAs(q, r) => StopsAs(q, d)
           /\ RunsAs(q, r, p) => RunsAs(q, d, p)
BY DEF StopsAs, RunsAs, NoCaseRuns

\* Without deletions by clients, a step creates one document, rolls one back,
\* stops one or advances one, and leaves the others alone.
LEMMA ResultMoves ==
    ASSUME TypeOK, QueueInv, ~MayRemove, [Next]_vars
    PROVE  result' = result \/ \E k \in Job : Moved(k)
<1> DEFINE Good == result' = result \/ \E k \in Job : Moved(k)
<1> SUFFICES Good
  OBVIOUS
<1>0. result \in [Job -> Result] /\ result' \in [Job -> Result]
  BY ResultType DEF TypeOK
<1>1. result' = result => Good
  OBVIOUS
<1>2. ASSUME NEW k \in Job, NEW r \in Result, Put(k, r), StopsAs(result[k], r)
      PROVE  Good
  <2>1. /\ result'[k].status = r.status /\ result'[k].cases = r.cases
        /\ result'[k].rev = result[k].rev + 1 /\ \A i \in Job \ {k} : result'[i] = result[i]
    BY <1>2, PutFields
  <2>2. StopsAs(result[k], result'[k])
    BY <1>0, <1>2, <2>1, SameFields
  <2>3. Moved(k)
    BY <2>1, <2>2 DEF Moved, Stopped
  <2> QED BY <2>3
<1>a. ASSUME NEW k \in Job, Moved(k) PROVE Good
  BY <1>a
<1> HIDE DEF Good
<1>3. ASSUME NEW q \in Result, q.status # "none"
      PROVE  /\ StopsAs(q, FailDocument(q))
             /\ q.status \in Open => StopsAs(q, Interrupt(q)) /\ StopsAs(q, CancelDocument(q))
  <2>1. StopsAs(q, FailDocument(q)) /\ (q.status \in Open => StopsAs(q, CancelDocument(q)))
    BY <1>3, FailFields, CancelFields DEF StopsAs
  <2>2. Pending(q) = {} => Mark(q, {"running"}, "interrupted") = Mark(q, {"pending", "running"}, "interrupted")
    BY DEF Pending, Mark
  <2>3. q.status \in Open => StopsAs(q, Interrupt(q))
    BY <2>2, InterruptFields DEF StopsAs
  <2> QED BY <2>1, <2>3
<1>4. \A r \in Result : /\ Interrupt(r) \in Result /\ CancelDocument(r) \in Result /\ FailDocument(r) \in Result
  BY DocumentTypes
<1>6. ASSUME NEW k \in Job, ReconcileEntry(k) PROVE Good
  <2> DEFINE r == [result[k] EXCEPT !.status = "error"]
  <2>1. \/ result' = result
        \/ Put(k, FailDocument(result[k])) /\ result[k].status # "none"
        \/ Put(k, Interrupt(result[k])) /\ result[k].status \in Open
        \/ Put(k, r) /\ result[k].status # "none" /\ k \in Queued /\ k \notin bundles
    BY <1>6 DEF ReconcileEntry, Open
  <2>2. r \in Result /\ r.status = "error" /\ r.cases = result[k].cases
    <3>1. r \in Result
      BY <1>0, DocumentTypes DEF Terminal
    <3> QED BY <1>0, <3>1 DEF Result
  <2> HIDE DEF r
  <2>3. k \in Queued /\ k \notin bundles => NoCaseRuns(r)
    BY <2>2 DEF QueueInv, Entries, Documents, NoCaseRuns
  <2>4. CASE Put(k, r) /\ result[k].status # "none" /\ k \in Queued /\ k \notin bundles
    <3>1. StopsAs(result[k], r)
      BY <2>2, <2>3, <2>4 DEF StopsAs
    <3> QED BY <1>2, <2>2, <2>4, <3>1
  <2>5. CASE Put(k, FailDocument(result[k])) /\ result[k].status # "none"
    BY <1>0, <1>2, <1>3, <1>4, <2>5
  <2>6. CASE Put(k, Interrupt(result[k])) /\ result[k].status \in Open
    BY <1>0, <1>2, <1>3, <1>4, <2>6 DEF Open
  <2> QED BY <1>1, <2>1, <2>4, <2>5, <2>6
<1>7. ASSUME NEW k \in Job, InterruptOrphan(k) PROVE Good
  <2> DEFINE f == Mark(result[k], {"pending", "running"}, "interrupted")
             r == [result[k] EXCEPT !.cases = f, !.status = "interrupted"]
  <2>1. f \in [Case -> CaseStatus]
    BY <1>0, MarkType, CaseSets
  <2>2. r \in Result /\ r.status = "interrupted" /\ r.cases = f
    <3> HIDE DEF f
    <3> QED BY <1>0, <2>1, DocumentTypes DEF Terminal, Result
  <2>3. Put(k, r) /\ result[k].status \in Open
    BY <1>7 DEF InterruptOrphan, Orphans
  <2> HIDE DEF r
  <2>4. StopsAs(result[k], r)
    BY <2>2, <2>3 DEF StopsAs
  <2> QED BY <1>2, <2>2, <2>3, <2>4
<1>8. CASE CloseInterrupts
  <2>1. pump.job \in Job
    BY <1>8 DEF CloseInterrupts, QueueInv, Lifetimes, TypeOK
  <2>2. result' = result \/ (Put(pump.job, Interrupt(result[pump.job])) /\ result[pump.job].status \in Open)
    BY <1>8 DEF CloseInterrupts
  <2>3. CASE Put(pump.job, Interrupt(result[pump.job])) /\ result[pump.job].status \in Open
    BY <1>0, <1>2, <1>3, <1>4, <2>1, <2>3 DEF Open
  <2> QED BY <1>1, <2>2, <2>3
<1>9. CASE BundlesMissing
  <2>1. pump.job \in Job /\ pump.at \in BeforeRun
    BY <1>9, JobTypes DEF BundlesMissing, PumpStep, BeforeRun
  <2>2. result' = result \/ (Put(pump.job, FailDocument(pump.copy)) /\ result[pump.job] = pump.copy)
    BY <1>9, <2>1, CopyIsStored DEF BundlesMissing
  <2>3. result[pump.job].status # "none"
    BY <2>1 DEF BeforeRun, QueueInv, Pumping, Working, Idle
  <2>4. CASE Put(pump.job, FailDocument(pump.copy)) /\ result[pump.job] = pump.copy
    BY <1>0, <1>2, <1>3, <1>4, <2>1, <2>3, <2>4
  <2> QED BY <1>1, <2>2, <2>4
<1>10. CASE DrainBegins \/ SkipRest \/ JobFinishes \/ (\E c \in Case : CaseStarts(c))
            \/ (\E passed \in BOOLEAN : CaseEnds(passed))
  <2> DEFINE j == pump.job
  <2>1. /\ pump.at \in InRun \cup {"begin"} /\ j \in Job
        /\ \E d \in Result, p \in InRun \cup {"ended", "dequeueCancelled"} :
              /\ Persist(d, p)
              /\ IsCurrent(j, pump.copy)
                    => \/ RunsAs(pump.copy, d, p)
                       \/ p \in {"ended", "dequeueCancelled"} /\ StopsAs(pump.copy, d)
    BY <1>10, Drains
  <2>2. PICK d \in Result, p \in InRun \cup {"ended", "dequeueCancelled"} :
              /\ Persist(d, p)
              /\ IsCurrent(j, pump.copy)
                    => \/ RunsAs(pump.copy, d, p)
                       \/ p \in {"ended", "dequeueCancelled"} /\ StopsAs(pump.copy, d)
    BY <2>1
  <2>3. CASE ~IsCurrent(j, pump.copy)
    BY <1>1, <2>1, <2>2, <2>3, Persisted
  <2>4. CASE IsCurrent(j, pump.copy)
    <3>1. result[j] = pump.copy
      BY <2>1, <2>4, CopyIsStored DEF BeforeRun
    <3>2. Put(j, d) /\ pump'.at = p /\ pump'.job = j /\ (p \in InRun => pump'.copy = result'[j])
      BY <2>1, <2>2, <2>4, Persisted, Tidied DEF InRun
    <3>3. /\ result'[j].status = d.status /\ result'[j].cases = d.cases
          /\ result'[j].rev = result[j].rev + 1
          /\ \A i \in Job \ {j} : result'[i] = result[i]
      BY <2>1, <3>2, PutFields
    <3>4. CASE StopsAs(pump.copy, d)
      BY <1>2, <2>1, <3>1, <3>2, <3>4
    <3>5. CASE RunsAs(pump.copy, d, p)
      <4>1. RunsAs(result[j], result'[j], pump'.at)
        BY <1>0, <2>1, <3>1, <3>2, <3>3, <3>5, SameFields
      <4>2. Moved(j)
        BY <2>1, <3>1, <3>2, <3>3, <4>1 DEF Moved, Advanced
      <4> QED BY <1>a, <2>1, <4>2
    <3> QED BY <2>2, <2>4, <3>4, <3>5
  <2> QED BY <2>3, <2>4
<1>11. CASE CreateResult
  <2> DEFINE j == admission.job
  <2>1. /\ admission.at = "result" /\ j \in Job /\ Put(j, [NoResult EXCEPT !.status = "pending"])
        /\ admission'.at = "read" /\ admission'.job = j
    BY <1>11, JobTypes DEF CreateResult, AdmissionGoesTo, TypeOK
  <2>2. result[j] = NoResult
    BY <2>1 DEF QueueInv, Admitting, Documents
  <2>3. result'[j] = FreshDocument /\ \A i \in Job \ {j} : result'[i] = result[i]
    BY <1>0, <2>1, <2>2 DEF Put, Next1, NoResult, FreshDocument
  <2>4. Moved(j)
    BY <2>1, <2>2, <2>3 DEF Moved, Created
  <2> QED BY <1>a, <2>1, <2>4
<1>12. CASE RefuseEntry
  <2> DEFINE j == admission.job
  <2>1. /\ admission.at = "append" /\ j \in Job
        /\ admission'.at = "rollback" /\ admission'.job = j
    BY <1>12, JobTypes DEF RefuseEntry, AdmissionGoesTo, TypeOK
  <2>2. result' = [result EXCEPT ![j] = IF result[j].rev = 1 THEN NoResult ELSE result[j]]
    BY <1>12 DEF RefuseEntry
  <2>3. CASE result[j].rev = 1
    <3>1. /\ result[j] = FreshDocument /\ result'[j] = NoResult
          /\ \A i \in Job \ {j} : result'[i] = result[i]
      BY <1>0, <2>1, <2>2, <2>3 DEF QueueInv, Documents
    <3>2. Moved(j)
      BY <2>1, <3>1 DEF Moved, Deleted
    <3> QED BY <1>a, <2>1, <3>2
  <2>4. CASE result[j].rev # 1
    BY <1>0, <1>1, <2>1, <2>2, <2>4
  <2> QED BY <2>3, <2>4
<1>13. ASSUME NEW k \in Job, RemoveResult(k) PROVE Good
  BY <1>13 DEF RemoveResult
<1>14. ASSUME NEW k \in Job, PauseResult(k) PROVE Good
  <2> DEFINE f == Mark(result[k], {"running"}, "interrupted")
             r == [result[k] EXCEPT !.cases = f, !.status = "paused"]
  <2>1. f \in [Case -> CaseStatus]
    BY <1>0, MarkType, CaseSets
  <2>2. r \in Result /\ r.status = "paused" /\ r.cases = f
    <3> HIDE DEF f
    <3> QED BY <1>0, <2>1, DocumentTypes DEF Open, Result
  <2>3. Put(k, r) /\ result[k].status \in Open
    BY <1>14 DEF PauseResult, Open
  <2> HIDE DEF r
  <2>4. StopsAs(result[k], r)
    BY <2>2, <2>3 DEF StopsAs
  <2> QED BY <1>2, <2>2, <2>3, <2>4
<1>15. ASSUME NEW k \in Job, CancelPut(k) PROVE Good
  <2>1. result' = result \/ (Put(k, CancelDocument(result[k])) /\ result[k].status \in Open)
    BY <1>15 DEF CancelPut, IsCurrent, QueueInv, Cancelling, Copies
  <2>2. CASE Put(k, CancelDocument(result[k])) /\ result[k].status \in Open
    BY <1>0, <1>2, <1>3, <1>4, <2>2 DEF Open
  <2> QED BY <1>1, <2>1, <2>2
<1> QED BY <1>1, <1>6, <1>7, <1>8, <1>9, <1>10, <1>11, <1>12, <1>13, <1>14, <1>15, ResultSteps

\* What becomes of the result of j.
Still(d) == d.status \in {"paused", "interrupted", "cancelled", "error"} /\ NoCaseRuns(d)
Ended(j) ==
    /\ result[j].status # "none" /\ result'[j].rev = result[j].rev + 1
    /\ Still(result'[j])
    /\ result[j].status \in Terminal => result'[j].status = "error"
Ran(j) ==
    /\ pump.job = j /\ pump.at \in InRun \cup {"begin"} /\ result[j] = pump.copy
    /\ result[j].status \in {"pending", "running"}
    /\ result'[j].rev = result[j].rev + 1 /\ pump'.job = j
    /\ \/ /\ result'[j].status = "running" /\ pump'.at \in InRun /\ pump'.copy = result'[j]
          /\ pump'.at = "running" => OneCaseRuns(result'[j])
          /\ pump'.at \in {"loop", "skipping"} => NoCaseRuns(result'[j])
       \/ result'[j].status = "completed" /\ NoCaseRuns(result'[j]) /\ pump'.at = "ended"

\* The same for the result of one job, with what it means for its status.
LEMMA ResultMove ==
    ASSUME TypeOK, QueueInv, ~MayRemove, [Next]_vars, NEW j \in Job
    PROVE  result'[j] = result[j] \/ Created(j) \/ Deleted(j) \/ Ended(j) \/ Ran(j)
<1>0. result[j] \in Result /\ result'[j] \in Result
  BY ResultType DEF TypeOK
<1>1. result'[j] = result[j] \/ Created(j) \/ Deleted(j) \/ Stopped(j) \/ Advanced(j)
  BY ResultMoves DEF Moved
<1>2. Stopped(j) => Ended(j)
  BY <1>0, StopIsStill DEF Stopped, Ended, Still
<1>3. Advanced(j) => Ran(j)
  <2> SUFFICES ASSUME Advanced(j) PROVE Ran(j)
    OBVIOUS
  <2>1. RunsAs(result[j], result'[j], pump'.at)
    BY DEF Advanced
  <2>2. /\ result[j].status \in {"pending", "running"}
        /\ \/ /\ result'[j].status = "running" /\ pump'.at \in InRun
              /\ pump'.at = "running" => OneCaseRuns(result'[j])
              /\ pump'.at \in {"loop", "skipping"} => NoCaseRuns(result'[j])
           \/ result'[j].status = "completed" /\ pump'.at = "ended" /\ NoCaseRuns(result'[j])
    BY <1>0, <2>1, RunGoesOn
  <2> QED BY <2>2 DEF Advanced, Ran
<1> QED BY <1>1, <1>2, <1>3

-----------------------------------------------------------------------------
(***************************************************************************)
(* QueueInv is inductive: copies, documents, lifetimes, the queue.         *)
(***************************************************************************)

\* Whoever has a copy of a result finds that it is the last one or an old one.
LEMMA CopiesKept ==
    ASSUME TypeOK, QueueInv, ~MayRemove, [Next]_vars, NEW j \in Job, NEW c \in Result,
           Copies(j, c)
    PROVE  Copies(j, c)'
<1>1. result'[j] = result[j] \/ Created(j) \/ Deleted(j) \/ Ended(j) \/ Ran(j)
  BY ResultMove
<1>2. c.rev \in Nat /\ result[j].rev \in Nat /\ NoResult.rev = 0 /\ FreshDocument.rev = 1
  BY FreshFields DEF TypeOK, Result
<1>3. result[j].status # "none" => result[j].rev >= 1
  BY DEF QueueInv, Documents
<1>4. CASE result'[j] = result[j]
  BY <1>4 DEF Copies
<1>5. CASE Created(j)
  BY <1>2, <1>5 DEF Created, Copies
<1>6. CASE Deleted(j)
  BY <1>2, <1>6 DEF Deleted, Copies
<1>7. CASE Ended(j) \/ Ran(j)
  <2>1. result'[j].rev = result[j].rev + 1 /\ result[j].rev >= 1
    BY <1>3, <1>7 DEF Ended, Ran
  <2> QED BY <1>2, <2>1 DEF Copies
<1> QED BY <1>1, <1>4, <1>5, <1>6, <1>7

\* A step keeps Documents.
LEMMA DocumentsNext == ASSUME TypeOK, QueueInv, ~MayRemove, [Next]_vars PROVE Documents'
<1> SUFFICES ASSUME NEW j \in Job
             PROVE  /\ result'[j].status = "none" => result'[j] = NoResult
                    /\ result'[j].status # "none" => result'[j].rev >= 1
                    /\ result'[j].rev = 1 => result'[j] = FreshDocument
                    /\ result'[j].status = "pending" => result'[j] = FreshDocument
                    /\ \A c \in Case : result'[j].cases[c] = "running" => result'[j].status = "running"
  BY DEF Documents
<1>1. result'[j] = result[j] \/ Created(j) \/ Deleted(j) \/ Ended(j) \/ Ran(j)
  BY ResultMove
<1>2. result[j].rev \in Nat
  BY DEF TypeOK, Result
<1>3. CASE result'[j] = result[j]
  BY <1>3 DEF QueueInv, Documents
<1>4. CASE Created(j) \/ Deleted(j)
  BY <1>4, FreshFields DEF Created, Deleted
<1>5. CASE Ended(j) \/ Ran(j)
  <2>1. result[j].status # "none" /\ result'[j].rev = result[j].rev + 1
    BY <1>5 DEF Ended, Ran
  <2>2. result[j].rev >= 1
    BY <2>1 DEF QueueInv, Documents
  <2>3. result'[j].status \notin {"none", "pending"}
    BY <1>5 DEF Ended, Ran, Still
  <2>4. result'[j].status = "running" \/ NoCaseRuns(result'[j])
    BY <1>5 DEF Ended, Ran, Still
  <2> QED BY <1>2, <2>1, <2>2, <2>3, <2>4 DEF NoCaseRuns
<1> QED BY <1>1, <1>3, <1>4, <1>5

\* Nobody works before the service is up, nor after it has ended.
LEMMA LifetimesNext == ASSUME TypeOK, QueueInv, ~MayRemove, [Next]_vars PROVE Lifetimes'
<1>0. Lifetimes
  BY DEF QueueInv
<1>1. CASE CloseEnds \/ Crash
  <2>1. ProcessEnds
    BY <1>1 DEF CloseEnds, Crash
  <2> QED BY <2>1 DEF ProcessEnds, Lifetimes, Up
<1>2. CASE ~CloseEnds /\ ~Crash
  <2>1. ~Up' => ~Up
    BY <1>2, ServiceSteps DEF Up, Start, Opens, BeginClose, CloseInterrupts
  <2>2. ASSUME ~Up' PROVE pump' = pump
    <3>1. ~Opens /\ ~BeginClose
      BY <2>2 DEF Opens, BeginClose, Up
    <3>2. ~Up /\ service # "serving"
      BY <2>1, <2>2 DEF Up
    <3> QED BY <1>2, <3>1, <3>2, PumpSteps
       DEF Look, LookAtResult, ReadBundles, BundlesMissing, TakeTurn, GiveUpTurn, Dequeue,
           Unlink,
           DrainBegins, SkipRest, JobFinishes, JobEnds, CaseStarts, CaseEnds, AppendEntry,
           CancelActive, PumpStep
  <2>3. ASSUME ~Up' PROVE admission' = admission
    BY <1>2, <2>1, <2>3, AdmissionSteps
       DEF WriteBundles, CreateResult, ReadQueue, AppendEntry, RefuseEntry, RollBackBundles,
           EnqueueStarts, Up
  <2>4. ASSUME ~Up' PROVE cancelledIds' = cancelledIds /\ cancel' = cancel
    BY <1>2, <2>1, <2>4, CancelledSteps, CancelSteps
       DEF LookAtResult, PumpStep, CancelQueued, CancelPut, CancelDequeue, CancelUnlink
  <2>5. ~Up' => /\ pump' = NoPump /\ admission' = NoAdmission
                /\ cancelledIds' = {} /\ cancel' = [j \in Job |-> NoCancel]
    BY <1>0, <2>1, <2>2, <2>3, <2>4 DEF Lifetimes
  <2>6. service' # "starting" => boot' = NoBoot
    <3>1. service # "starting" /\ service' # "starting" => boot' = NoBoot
      BY <1>0, <1>2, BootSteps DEF Lifetimes, ReconcileEntry, RewriteQueue, Opens
    <3>2. service = "starting" /\ service' # "starting" => Opens
      BY <1>2, ServiceSteps DEF Start, BeginClose, CloseInterrupts
    <3> QED BY <3>1, <3>2 DEF Opens
  <2>7. removing' = {}
    BY <1>0, <1>2, RemovingSteps DEF Lifetimes, RemoveResult, RemoveBundles
  <2>8. ASSUME service' = "closing" PROVE pump'.job # "none"
    <3>1. CASE BeginClose
      BY <2>8, <3>1, QueueAssumption DEF BeginClose, TypeOK, Draining, Settling
    <3>2. CASE ~BeginClose
      <4>1. service = "closing" /\ pump.job # "none"
        BY <1>0, <1>2, <2>8, <3>2, ServiceSteps DEF Start, Opens, CloseInterrupts, Lifetimes
      <4>2. pump'.job = pump.job
        <5>1. ~Opens /\ pump \in Pumps /\ closing
          BY <4>1 DEF Opens, TypeOK, Pumps, closing
        <5>2. \A p : PumpTidies(p) \/ PumpGoesTo(p) => pump'.job = pump.job
          BY Tidied, GoneTo
        <5>3. Look => pump'.job = pump.job
          BY <5>1, <5>2 DEF Look
        <5>4. LookAtResult => pump'.job = pump.job
          BY DEF LookAtResult, NoPump
        <5>5. ReadBundles \/ BundlesMissing \/ TakeTurn \/ GiveUpTurn \/ Dequeue \/ Unlink \/ JobEnds
                => pump'.job = pump.job
          BY <5>2 DEF ReadBundles, BundlesMissing, TakeTurn, GiveUpTurn, Dequeue, Unlink,
             JobEnds
        <5>6. DrainBegins \/ SkipRest \/ JobFinishes \/ (\E c \in Case : CaseStarts(c))
                \/ (\E passed \in BOOLEAN : CaseEnds(passed)) => pump'.job = pump.job
          BY Drains, Persisted, Tidied
        <5>7. AppendEntry => pump'.job = pump.job
          BY <4>1 DEF AppendEntry, PumpEnsured
        <5>8. \A k \in Job : CancelActive(k) => pump'.job = pump.job
          BY <5>1 DEF CancelActive, Pumps
        <5> QED BY <1>2, <3>2, <5>1, <5>3, <5>4, <5>5, <5>6, <5>7, <5>8, PumpSteps
      <4> QED BY <4>1, <4>2
    <3> QED BY <3>1, <3>2
  <2> QED BY <2>5, <2>6, <2>7, <2>8 DEF Lifetimes
<1> QED BY <1>1, <1>2

\* Who comes into the queue, and who leaves it.
LEMMA QueuedMove ==
    ASSUME TypeOK, [Next]_vars, NEW j \in Job
    PROVE  /\ j \in Queued' => j \in Queued \/ (AppendEntry /\ j = admission.job)
           /\ j \in Queued => \/ j \in Queued'
                              \/ RewriteQueue /\ j \notin boot.valid
                              \/ Dequeue /\ j = pump.job
                              \/ CancelDequeue(j)
           /\ Dequeue => pump.job \notin Queued'
           /\ AppendEntry => admission.job \in Queued'
<1>0. queue \in Seq(Job)
  BY DEF TypeOK
<1>1. \A S : {Kept(queue, S)[i] : i \in DOMAIN Kept(queue, S)} = Queued \cap S
  BY <1>0, KeptKeeps DEF Queued
<1>2. \A S : queue' = Kept(queue, S) => Queued' = Queued \cap S
  BY <1>1 DEF Queued
<1>3. RewriteQueue => Queued' = Queued \cap boot.valid
  BY <1>2 DEF RewriteQueue
<1>4. \A k : queue' = Without(k) => Queued' = Queued \cap (Job \ {k})
  BY <1>2 DEF Without
<1>5. Dequeue => Queued' = Queued \cap (Job \ {pump.job})
  BY <1>4 DEF Dequeue
<1>6. \A k \in Job : CancelDequeue(k) => Queued' = Queued \cap (Job \ {k})
  BY <1>4 DEF CancelDequeue
<1>7. AppendEntry => Queued' = Queued \cup {admission.job}
  BY <1>0, JobTypes DEF AppendEntry, Queued
<1>8. queue' = queue => Queued' = Queued
  BY DEF Queued
<1> QED BY <1>3, <1>5, <1>6, <1>7, <1>8, QueueSteps

-----------------------------------------------------------------------------
(***************************************************************************)
(* Booted, Entries, Admitting, Cancelling.                                 *)
(***************************************************************************)

\* A step keeps Booted.
LEMMA BootedNext == ASSUME TypeOK, QueueInv, ~MayRemove, [Next]_vars PROVE Booted'
<1>0. Lifetimes /\ Booted /\ Lifetimes'
  BY LifetimesNext DEF QueueInv
<1>1. CASE service' # "starting"
  BY <1>0, <1>1 DEF Lifetimes, NoBoot, Booted
<1>2. CASE service' = "starting"
  <2>1. ~CloseEnds /\ ~Crash /\ ~Opens /\ ~Up
    BY <1>2, ServiceSteps DEF CloseEnds, Crash, ProcessEnds, Opens, Up, BeginClose,
       CloseInterrupts, Start
  <2>2. pump = NoPump /\ admission = NoAdmission /\ NoPump.at = "idle" /\ NoAdmission.at = "none"
    BY <1>0, <2>1 DEF Lifetimes, NoPump, NoAdmission
  <2>3. ASSUME NEW j \in Job, result'[j].status = "running" PROVE result[j] = result'[j]
    <3>1. ~Created(j) /\ ~Deleted(j) /\ ~Ended(j) /\ ~Ran(j)
      BY <2>2, <2>3 DEF Created, Deleted, Ended, Ran, Still, InRun
    <3> QED BY <3>1, ResultMove
  <2>4. ASSUME NEW k \in Job, ReconcileEntry(k) PROVE Booted'
    <3>1. queue' = queue /\ k \in Queued /\ boot'.rewritten = boot.rewritten
          /\ boot'.seen = boot.seen \cup {k}
          /\ \/ boot'.valid = boot.valid
             \/ boot'.valid = boot.valid \cup {k} /\ result'[k].status # "running"
      <4>1. result'[k].status # "running" \/ boot' = [boot EXCEPT !.seen = @ \cup {k}]
        <5>1. \/ boot' = [boot EXCEPT !.seen = @ \cup {k}]
              \/ IF result[k].status = "running" THEN Put(k, Interrupt(result[k])) ELSE result' = result
          BY <2>4 DEF ReconcileEntry
        <5>2. Interrupt(result[k]) \in Result /\ Interrupt(result[k]).status # "running"
          BY JobTypes, DocumentTypes, InterruptFields
        <5> QED BY <5>1, <5>2, PutFields
      <4>2. \/ boot' = [boot EXCEPT !.seen = @ \cup {k}]
            \/ boot' = [boot EXCEPT !.seen = @ \cup {k}, !.valid = @ \cup {k}]
        BY <2>4 DEF ReconcileEntry
      <4> QED BY <2>4, <4>1, <4>2 DEF ReconcileEntry, TypeOK
    <3>2. Queued' = Queued
      BY <3>1 DEF Queued
    <3>3. ~boot.rewritten \/ k \in boot.valid
      BY <1>0, <3>1 DEF Booted
    <3>4. boot'.valid \subseteq boot'.seen
      BY <1>0, <3>1 DEF Booted
    <3>5. \A j \in boot'.valid : j \in Job
      BY <2>4, <3>1 DEF TypeOK
    <3>6. \A j \in boot'.valid : result'[j].status # "running" /\ j \in Queued'
      BY <1>0, <2>3, <3>1, <3>2, <3>5 DEF Booted
    <3>7. boot'.rewritten => Queued' \subseteq boot'.valid
      BY <1>0, <3>1, <3>2, <3>3 DEF Booted
    <3> QED BY <3>4, <3>6, <3>7 DEF Booted
  <2>5. CASE RewriteQueue
    <3>1. result' = result /\ boot'.seen = boot.seen /\ boot'.valid = boot.valid
      BY <2>5 DEF RewriteQueue, TypeOK
    <3>2. Queued' = Queued \cap boot.valid
      <4>1. queue \in Seq(Job) /\ queue' = Kept(queue, boot.valid)
        BY <2>5 DEF RewriteQueue, TypeOK
      <4>2. {Kept(queue, boot.valid)[i] : i \in DOMAIN Kept(queue, boot.valid)} = Queued \cap boot.valid
        BY <4>1, KeptKeeps DEF Queued
      <4> QED BY <4>1, <4>2 DEF Queued
    <3> QED BY <1>0, <3>1, <3>2 DEF Booted
  <2>6. CASE boot' = boot /\ ~RewriteQueue
    <3>1. queue' = queue
      BY <1>2, <2>1, <2>2, <2>6, QueueSteps DEF Dequeue, AppendEntry, CancelDequeue
    <3>2. Queued' = Queued
      BY <3>1 DEF Queued
    <3>3. \A j \in boot.valid : j \in Job
      BY DEF TypeOK
    <3> QED BY <1>0, <2>3, <2>6, <3>2, <3>3 DEF Booted
  <2> QED BY <2>1, <2>4, <2>5, <2>6, BootSteps
<1> QED BY <1>1, <1>2

\* Who takes the bundles of j away.
LEMMA BundlesMove ==
    ASSUME TypeOK, QueueInv, ~MayRemove, [Next]_vars, NEW j \in Job, j \in bundles,
           j \notin bundles'
    PROVE  \/ ReconcileEntry(j) /\ result[j].status = "none"
           \/ Unlink /\ j = pump.job
           \/ RollBackBundles /\ j = admission.job
           \/ CancelUnlink(j)
<1>1. ~(\E k \in Job : RemoveBundles(k))
  BY DEF RemoveBundles, QueueInv, Lifetimes
<1>2. \A k \in Job : ReconcileEntry(k) => k = j /\ result[j].status = "none"
  BY DEF ReconcileEntry
<1> QED BY <1>1, <1>2, BundleSteps DEF Unlink, WriteBundles, RollBackBundles, CancelUnlink

\* A step keeps Entries: bundles are deleted only after the entry has gone.
LEMMA EntriesNext == ASSUME TypeOK, QueueInv, ~MayRemove, [Next]_vars PROVE Entries'
<1> SUFFICES ASSUME NEW j \in Queued'
             PROVE  /\ result'[j].status # "none"
                    /\ result'[j].status \in {"pending", "running"} => j \in bundles'
  BY DEF Entries
<1>0. j \in Job
  BY QueueType DEF Queued
<1>1. CASE AppendEntry /\ j = admission.job
  BY <1>1 DEF AppendEntry, QueueInv, Admitting, Terminal
<1>2. CASE j \in Queued
  <2>1. result[j].status # "none" /\ (result[j].status \in {"pending", "running"} => j \in bundles)
    BY <1>2 DEF QueueInv, Entries
  <2>2. ~Created(j) /\ ~Deleted(j)
    BY <1>0, <1>2 DEF QueueInv, Admitting, Created, Deleted
  <2>3. result'[j] = result[j] \/ Ended(j) \/ Ran(j)
    BY <1>0, <2>2, ResultMove
  <2>4. result'[j].status # "none"
    BY <2>1, <2>3 DEF Ended, Still, Ran
  <2>5. ASSUME result'[j].status \in {"pending", "running"} PROVE j \in bundles'
    <3>1. j \in bundles /\ result[j].status \in {"pending", "running"}
      BY <2>1, <2>3, <2>5 DEF Ended, Still, Ran
    <3>2. ~(Unlink /\ j = pump.job)
      BY <1>2 DEF QueueInv, Pumping, Working, Idle, Unlink
    <3>3. ~(RollBackBundles /\ j = admission.job)
      BY <1>2 DEF QueueInv, Admitting, RollBackBundles
    <3>4. ~CancelUnlink(j)
      BY <1>0, <3>1 DEF QueueInv, Cancelling, CancelUnlink, Terminal
    <3> QED BY <1>0, <2>1, <3>1, <3>2, <3>3, <3>4, BundlesMove
  <2> QED BY <2>4, <2>5
<1> QED BY <1>0, <1>1, <1>2, QueuedMove

\* A step keeps Admitting: one submission at a time, and nobody else creates
\* results or entries.
LEMMA AdmittingNext == ASSUME TypeOK, QueueInv, ~MayRemove, [Next]_vars PROVE Admitting'
<1>0. Admitting /\ Lifetimes /\ Lifetimes'
  BY LifetimesNext DEF QueueInv
<1>n. NoAdmission.at = "none"
  BY DEF NoAdmission
<1>1. CASE admission'.at = "none"
  BY <1>1 DEF Admitting
<1>2. CASE admission'.at # "none" /\ admission.at = "none"
  <2>1. PICK k \in Job : EnqueueStarts(k)
    BY <1>2, <1>n, AdmissionSteps
       DEF CloseEnds, Crash, ProcessEnds, WriteBundles, CreateResult, ReadQueue,
       AppendEntry, RefuseEntry, RollBackBundles
  <2>2. /\ result' = result /\ queue' = queue /\ result[k].status = "none"
        /\ admission'.at = "bundles" /\ admission'.job = k
    BY <2>1 DEF EnqueueStarts, disk
  <2>3. k \notin Queued /\ Queued' = Queued
    BY <2>2 DEF QueueInv, Entries, Queued
  <2> QED BY <2>2, <2>3 DEF Admitting
<1>3. CASE admission'.at # "none" /\ admission.at # "none"
  <2> DEFINE j == admission.job
  <2>1. /\ j \in Job /\ admission'.job = j
        /\ \/ admission'.at = admission.at
           \/ WriteBundles /\ admission.at = "bundles" /\ admission'.at = "result"
           \/ CreateResult /\ admission.at = "result" /\ admission'.at = "read"
           \/ ReadQueue /\ admission.at = "read" /\ admission'.at = "append"
           \/ RefuseEntry /\ admission.at = "append" /\ admission'.at = "rollback"
    BY <1>3, <1>n, JobTypes, AdmissionSteps
       DEF CloseEnds, Crash, ProcessEnds, WriteBundles, CreateResult, ReadQueue, AppendEntry,
           RefuseEntry,
           RollBackBundles, EnqueueStarts, AdmissionGoesTo, TypeOK
  <2>2. j \notin Queued'
    <3>1. ~AppendEntry
      BY <1>3, <1>n DEF AppendEntry
    <3> QED BY <1>0, <1>3, <2>1, <3>1, QueuedMove DEF Admitting
  <2>3. ~Ran(j)
    BY DEF QueueInv, Pumping, Working, Idle, Ran, InRun
  <2>4. result'[j] = result[j] \/ Created(j) \/ Deleted(j) \/ Ended(j)
    BY <2>1, <2>3, ResultMove
  <2>5. admission'.at \in {"bundles", "result"} => result'[j].status = "none"
    BY <1>0, <2>1, <2>4 DEF Admitting, Created, Deleted, Ended
  <2>6. admission'.at \in {"read", "append"} => result'[j].status # "none"
    <3>1. CreateResult => result'[j].status = "pending"
      BY <2>1, JobTypes DEF CreateResult, Put, Next1, NoResult, TypeOK
    <3> QED BY <1>0, <2>1, <2>4, <3>1, FreshFields DEF Admitting, Created, Deleted, Ended, Still
  <2>7. ASSUME admission'.at \in {"result", "read", "append"}
        PROVE  j \in bundles' \/ result'[j].status \in Terminal \cup {"paused"}
    <3>1. WriteBundles => j \in bundles'
      BY DEF WriteBundles
    <3>2. CASE ~WriteBundles
      <4>1. j \in bundles \/ result[j].status \in Terminal \cup {"paused"}
        BY <1>0, <2>1, <2>7, <3>2 DEF Admitting
      <4>2. result[j].status \in Terminal \cup {"paused"} => result'[j].status \in Terminal \cup {"paused"}
        BY <2>4, FreshFields DEF Created, Deleted, Ended, Still, Terminal
      <4>3. ASSUME j \in bundles, j \notin bundles' PROVE result'[j].status \in Terminal
        <5>1. ~(ReconcileEntry(j) /\ result[j].status = "none")
          BY <1>0, <1>3, <1>n DEF ReconcileEntry, Lifetimes, Up
        <5>2. ~(Unlink /\ j = pump.job)
          BY DEF QueueInv, Pumping, Working, Idle, Unlink
        <5>3. ~RollBackBundles
          BY <2>1, <2>7 DEF RollBackBundles, NoAdmission
        <5>4. CancelUnlink(j)
          BY <2>1, <4>3, <5>1, <5>2, <5>3, BundlesMove
        <5> QED BY <2>1, <5>4 DEF CancelUnlink, QueueInv, Cancelling
      <4> QED BY <4>1, <4>2, <4>3
    <3> QED BY <3>1, <3>2
  <2>8. admission'.at = "rollback" => result'[j].status \notin {"pending", "running"}
    <3>1. ASSUME RefuseEntry PROVE result'[j].status \notin {"pending", "running"}
      <4>1. result' = [result EXCEPT ![j] = IF result[j].rev = 1 THEN NoResult ELSE result[j]]
        BY <3>1 DEF RefuseEntry
      <4>2. result'[j] = IF result[j].rev = 1 THEN NoResult ELSE result[j]
        BY <2>1, <4>1 DEF TypeOK
      <4>3. result[j].rev # 1 => result[j].status # "pending"
        BY <2>1, FreshFields DEF QueueInv, Documents
      <4>4. result[j].status # "running"
        <5>1. admission # NoAdmission
          BY <1>3, <1>n
        <5>2. Up
          BY <1>0, <5>1 DEF Lifetimes
        <5> QED BY <2>1, <5>2 DEF QueueInv, Answered, Active, Pumping, Working, Idle, Draining,
           Settling
      <4> QED BY <4>2, <4>3, <4>4, FreshFields
    <3> QED BY <1>0, <2>1, <2>4, <3>1, FreshFields DEF Admitting, Created, Deleted, Ended, Still
  <2> QED BY <2>1, <2>2, <2>5, <2>6, <2>7, <2>8 DEF Admitting
<1> QED BY <1>1, <1>2, <1>3

\* A step keeps Cancelling: what has ended does not open again.
LEMMA CancellingNext == ASSUME TypeOK, QueueInv, ~MayRemove, [Next]_vars PROVE Cancelling'
<1> SUFFICES ASSUME NEW j \in Job
             PROVE  /\ cancel'[j].at = "put" => Copies(j, cancel[j].copy)' /\ cancel'[j].copy.status \in Open
                    /\ cancel'[j].at \in {"dequeue", "unlink"}
                         => result'[j].status \in Terminal /\ result'[j].rev >= 2
  BY DEF Cancelling
<1>0. /\ cancel \in [Job -> [at : {"none", "put", "dequeue", "unlink"}, copy : Result]]
      /\ result[j] \in Result /\ result[j].rev \in Nat /\ NoCancel.at = "none" /\ cancel[j].copy \in Result
  BY DEF TypeOK, Result, NoCancel
<1>1. CASE cancel'[j] = cancel[j]
  <2>1. cancel[j].at = "put" => Copies(j, cancel[j].copy)' /\ cancel'[j].copy.status \in Open
    <3>1. ASSUME cancel[j].at = "put" PROVE Copies(j, cancel[j].copy) /\ cancel[j].copy.status \in Open
      BY <3>1 DEF QueueInv, Cancelling
    <3>2. ASSUME NEW c \in Result, c = cancel[j].copy, cancel[j].at = "put"
          PROVE  /\ c.rev >= 1
                 /\ c.rev = 1 => c = FreshDocument
                 /\ c.rev = result'[j].rev => c = result'[j]
                 /\ c.rev <= result'[j].rev \/ c.rev = 1
      <4>1. Copies(j, c)'
        BY <3>1, <3>2, CopiesKept
      <4> QED BY <4>1 DEF Copies
    <3>3. ASSUME cancel[j].at = "put" PROVE Copies(j, cancel[j].copy)'
      <4>1. PICK c \in Result : c = cancel[j].copy /\ c = cancel'[j].copy
        BY <1>0, <1>1
      <4> QED BY <3>2, <3>3, <4>1 DEF Copies
    <3> QED BY <1>1, <3>1, <3>3
  <2>2. ASSUME cancel[j].at \in {"dequeue", "unlink"}
        PROVE  result'[j].status \in Terminal /\ result'[j].rev >= 2
    <3>1. result[j].status \in Terminal /\ result[j].rev >= 2
      BY <2>2 DEF QueueInv, Cancelling
    <3>2. result'[j] = result[j] \/ Ended(j)
      BY <3>1, ResultMove, FreshFields DEF Created, Deleted, Ran, Terminal
    <3> QED BY <1>0, <3>1, <3>2 DEF Ended, Terminal
  <2> QED BY <1>1, <2>1, <2>2
<1>2. CASE CloseEnds \/ Crash
  BY <1>0, <1>2 DEF CloseEnds, Crash, ProcessEnds
<1>3. CASE CancelQueued(j)
  <2>1. cancel'[j].at = "put" /\ cancel'[j].copy = result[j] /\ result' = result /\ result[j].status \in Open
    BY <1>0, <1>3 DEF CancelQueued, disk
  <2>2. result[j].rev >= 1 /\ (result[j].rev = 1 => result[j] = FreshDocument)
    BY <2>1 DEF QueueInv, Documents, Open
  <2> QED BY <1>0, <2>1, <2>2 DEF Copies
<1>4. CASE CancelPut(j)
  <2>1. CASE IsCurrent(j, cancel[j].copy)
    <3>1. Put(j, CancelDocument(cancel[j].copy)) /\ cancel'[j].at = "dequeue"
      BY <1>0, <1>4, <2>1 DEF CancelPut, NoCancel
    <3>2. result[j].rev >= 1
      BY <1>0, <1>4, <2>1 DEF CancelPut, IsCurrent, QueueInv, Cancelling, Copies
    <3>3. CancelDocument(cancel[j].copy) \in Result /\ CancelDocument(cancel[j].copy).status = "cancelled"
      BY <1>0, DocumentTypes, CancelFields
    <3> QED BY <1>0, <3>1, <3>2, <3>3, PutFields DEF Terminal
  <2>2. CASE ~IsCurrent(j, cancel[j].copy)
    BY <1>0, <1>4, <2>2 DEF CancelPut
  <2> QED BY <2>1, <2>2
<1>5. CASE CancelDequeue(j)
  BY <1>0, <1>5 DEF CancelDequeue, QueueInv, Cancelling
<1>6. CASE CancelUnlink(j)
  BY <1>0, <1>6 DEF CancelUnlink
<1> QED BY <1>0, <1>1, <1>2, <1>3, <1>4, <1>5, <1>6, CancelSteps
   DEF CancelQueued, CancelPut, CancelDequeue, CancelUnlink

-----------------------------------------------------------------------------
(***************************************************************************)
(* Pumping.                                                                *)
(***************************************************************************)

\* A cancellation that is sure to succeed does not go away while j is pending.
LEMMA ToBeCancelledStays ==
    ASSUME TypeOK, QueueInv, ~MayRemove, [Next]_vars, Up', NEW j \in Job, ToBeCancelled(j),
           result'[j] = result[j], result[j].status = "pending"
    PROVE  ToBeCancelled(j)'
<1>0. /\ cancel \in [Job -> [at : {"none", "put", "dequeue", "unlink"}, copy : Result]]
      /\ result[j] \in Result
  BY DEF TypeOK
<1>1. result[j] = FreshDocument /\ cancel[j].copy = FreshDocument /\ FreshDocument.rev = 1
  BY FreshFields DEF QueueInv, Documents, Cancelling, Copies, ToBeCancelled
<1>2. ~CloseEnds /\ ~Crash
  BY DEF CloseEnds, Crash, ProcessEnds, Up
<1>3. ~CancelPut(j)
  <2> SUFFICES ASSUME CancelPut(j) PROVE FALSE
    OBVIOUS
  <2>1. Put(j, CancelDocument(cancel[j].copy))
    BY <1>1 DEF CancelPut, IsCurrent
  <2>2. result'[j].rev = result[j].rev + 1
    BY <1>0, <2>1, DocumentTypes, PutFields
  <2> QED BY <1>1, <2>2
<1>4. cancel'[j] = cancel[j]
  BY <1>0, <1>2, <1>3, CancelSteps
     DEF ToBeCancelled, CancelQueued, CancelPut, CancelDequeue, CancelUnlink
<1> QED BY <1>4 DEF ToBeCancelled

\* A running case that has its copy is stored, and a pending result is the one it
\* was created with.
LEMMA PumpFinds ==
    ASSUME TypeOK, QueueInv, pump.at \in BeforeRun \cup InRun
    PROVE  /\ pump.at \in InRun => result[pump.job].status # "pending"
           /\ result[pump.job].status \in {"pending", "running"} => IsCurrent(pump.job, pump.copy)
<1> DEFINE j == pump.job
           c == pump.copy
<1>0. j \in Job /\ c \in Result /\ result[j] \in Result /\ Working
  BY JobTypes DEF BeforeRun, InRun, Idle, Working
<1>1. Copies(j, c)
  BY <1>0 DEF QueueInv, Pumping
<1>2. /\ pump.at \in BeforeRun => c.status = "pending"
      /\ pump.at \in InRun => c.status = "running" /\ (result[j].status = "running" => result[j] = c)
      /\ pump.at \notin InRun => result[j].status # "running"
  BY <1>0 DEF QueueInv, Pumping
<1>3. result[j].status = "pending" => result[j] = FreshDocument /\ c.rev = 1 /\ c = FreshDocument
  <2>1. result[j].status = "pending" => result[j] = FreshDocument
    BY <1>0 DEF QueueInv, Documents
  <2> QED BY <1>0, <1>1, <2>1, FreshFields DEF Copies, Result
<1> QED BY <1>2, <1>3, FreshFields DEF IsCurrent

\* What a step of _drain makes of the pump.
LEMMA PumpDrains ==
    ASSUME TypeOK, QueueInv, ~MayRemove, [Next]_vars,
           \/ DrainBegins \/ SkipRest \/ JobFinishes \/ (\E c \in Case : CaseStarts(c))
           \/ (\E passed \in BOOLEAN : CaseEnds(passed))
    PROVE  /\ pump.at \in InRun \cup {"begin"} /\ pump.job \in Job /\ pump'.job = pump.job
           /\ \/ /\ pump'.at \in InRun /\ pump'.copy = result'[pump.job]
                 /\ result'[pump.job].status = "running"
                 /\ pump'.at = "running" => OneCaseRuns(pump'.copy)
                 /\ pump'.at \in {"loop", "skipping"} => NoCaseRuns(pump'.copy)
              \/ /\ pump'.at \in {"ended", "dequeueCancelled", "dequeueConflict"}
                 /\ result'[pump.job].status \notin {"none", "pending", "running"}
              \/ /\ pump'.at = "ended" /\ result' = result /\ result[pump.job].status \notin {"pending", "running"}
<1> DEFINE j == pump.job
<1>1. /\ pump.at \in InRun \cup {"begin"} /\ j \in Job
      /\ \E d \in Result, p \in InRun \cup {"ended", "dequeueCancelled"} :
            /\ Persist(d, p)
            /\ IsCurrent(j, pump.copy)
                  => \/ RunsAs(pump.copy, d, p)
                     \/ p \in {"ended", "dequeueCancelled"} /\ StopsAs(pump.copy, d)
  BY Drains
<1>2. PICK d \in Result, p \in InRun \cup {"ended", "dequeueCancelled"} :
            /\ Persist(d, p)
            /\ IsCurrent(j, pump.copy)
                  => \/ RunsAs(pump.copy, d, p)
                     \/ p \in {"ended", "dequeueCancelled"} /\ StopsAs(pump.copy, d)
  BY <1>1
<1>3. pump.at \in BeforeRun \cup InRun
  BY <1>1 DEF BeforeRun
<1>4. CASE ~IsCurrent(j, pump.copy)
  <2>1. result' = result /\ PumpTidies(AfterConflict)
    BY <1>1, <1>2, <1>4, Persisted
  <2>2. result[j].status \notin {"pending", "running"}
    BY <1>3, <1>4, PumpFinds
  <2>3. pump'.at = AfterConflict /\ pump'.job = j
    BY <2>1, Tidied
  <2>4. AfterConflict = "ended" \/ (AfterConflict = "dequeueConflict" /\ result[j].status # "none")
    BY DEF AfterConflict
  <2> QED BY <1>1, <2>1, <2>2, <2>3, <2>4
<1>5. CASE IsCurrent(j, pump.copy)
  <2>1. /\ Put(j, d) /\ pump'.at = p /\ pump'.job = j /\ (p \in InRun => pump'.copy = result'[j])
    BY <1>1, <1>2, <1>5, Persisted, Tidied DEF InRun
  <2>2. result'[j].status = d.status /\ result'[j].cases = d.cases
    BY <1>1, <2>1, PutFields
  <2>3. pump.copy \in Result
    BY JobTypes
  <2>4. CASE RunsAs(pump.copy, d, p)
    <3>1. \/ /\ d.status = "running" /\ p \in InRun
             /\ p = "running" => OneCaseRuns(d)
             /\ p \in {"loop", "skipping"} => NoCaseRuns(d)
          \/ d.status = "completed" /\ p = "ended"
      BY <2>3, <2>4, RunGoesOn
    <3>2. (OneCaseRuns(d) => OneCaseRuns(result'[j])) /\ (NoCaseRuns(d) => NoCaseRuns(result'[j]))
      BY <2>2 DEF OneCaseRuns, NoCaseRuns
    <3> QED BY <1>1, <2>1, <2>2, <3>1, <3>2
  <2>5. CASE p \in {"ended", "dequeueCancelled"} /\ StopsAs(pump.copy, d)
    <3>1. d.status \notin {"none", "pending", "running"}
      BY <2>3, <2>5, StopIsStill
    <3> QED BY <1>1, <2>1, <2>2, <2>5, <3>1
  <2> QED BY <1>2, <1>5, <2>4, <2>5
<1> QED BY <1>4, <1>5

\* What the rest of the system does to the job the pump is at.
LEMMA PumpedKept ==
    ASSUME TypeOK, QueueInv, ~MayRemove, [Next]_vars, Working
    PROVE  LET j == pump.job IN
           /\ j \in Job /\ Up
           /\ result'[j] = result[j] \/ Ended(j) \/ Ran(j)
           /\ result'[j].status # "none"
           /\ admission'.job # j
           /\ result'[j].status = "pending" => result'[j] = result[j]
           /\ j \in Queued' => j \in Queued
<1> DEFINE j == pump.job
<1>1. j \in Job /\ result[j].status # "none" /\ admission.job # j
  BY JobTypes DEF QueueInv, Pumping, Working, Idle
<1>2. result'[j] = result[j] \/ Ended(j) \/ Ran(j)
  BY <1>1, ResultMove DEF Created, Deleted
<1>3. result'[j].status # "none" /\ (result'[j].status = "pending" => result'[j] = result[j])
  BY <1>1, <1>2 DEF Ended, Still, Ran
<1>4. admission'.job # j
  <2>1. NoAdmission.job # j
    BY <1>1, QueueAssumption DEF NoAdmission
  <2>2. \A p : AdmissionGoesTo(p) => admission'.job = admission.job
    BY DEF AdmissionGoesTo, TypeOK
  <2>3. ReadQueue => admission'.job = admission.job
    BY DEF ReadQueue, TypeOK
  <2>4. \A k \in Job : EnqueueStarts(k) => admission'.job = k /\ result[k].status = "none"
    BY DEF EnqueueStarts
  <2> QED BY <1>1, <2>1, <2>2, <2>3, <2>4, AdmissionSteps
     DEF CloseEnds, Crash, ProcessEnds, WriteBundles, CreateResult, AppendEntry, RefuseEntry,
         RollBackBundles
<1>5. Up
  BY DEF QueueInv, Lifetimes, Working, NoPump, Idle
<1>6. j \in Queued' => j \in Queued
  BY <1>1, QueuedMove
<1> QED BY <1>1, <1>2, <1>3, <1>4, <1>5, <1>6

\* A step keeps Pumping.
LEMMA PumpingNext == ASSUME TypeOK, QueueInv, ~MayRemove, [Next]_vars PROVE Pumping'
<1> DEFINE j == pump'.job
           c == pump'.copy
           CopyIs(k, d) == /\ d.rev >= 1
                           /\ d.rev = 1 => d = FreshDocument
                           /\ d.rev = result'[k].rev => d = result'[k]
                           /\ d.rev <= result'[k].rev \/ d.rev = 1
           Cancels1(k) == cancel'[k].at = "put" /\ cancel'[k].copy.rev = 1
           Good ==
             /\ result'[j].status # "none" /\ admission'.job # j
             /\ pump'.at \in BeforeRun \cup InRun => CopyIs(j, c)
             /\ pump'.at \in BeforeRun => c.status = "pending"
             /\ pump'.at \in InRun => /\ c.status = "running"
                                      /\ result'[j].status = "running" => result'[j] = c
             /\ pump'.at = "running" => \E k \in Case : {d \in Case : c.cases[d] = "running"} = {k}
             /\ pump'.at \in {"loop", "skipping"} => \A k \in Case : c.cases[k] # "running"
             /\ pump'.at \notin InRun => result'[j].status # "running"
             /\ pump'.at \in Settling \cup {"dequeueCancelled", "unlinkCancelled", "drop"}
                   => result'[j].status # "pending"
             /\ pump'.at \in {"unlink", "unlinkCancelled", "unlinkConflict"} => j \notin Queued'
             /\ result'[j].status = "pending"
                   => \/ pump'.at = "entry" /\ j \notin cancelledIds'
                      \/ pump'.at \in BeforeRun
                      \/ Cancels1(j)
<1> SUFFICES ASSUME pump'.at \notin Idle PROVE Good
  BY DEF Pumping, Working, ToBeCancelled, Copies
<1>0. Up'
  BY LifetimesNext DEF Lifetimes, NoPump, Idle
<1>p. Documents' /\ pump' \in Pumps /\ j \in Job /\ result' \in [Job -> Result] /\ pump \in Pumps
  BY DocumentsNext, PumpType, ResultType DEF Pumps, TypeOK
<1>1. CASE Working /\ pump'.at = pump.at /\ pump'.job = pump.job /\ pump'.copy = pump.copy
  <2>1. /\ j \in Job /\ Up
        /\ result'[j] = result[j] \/ Ended(j) \/ Ran(j)
        /\ result'[j].status # "none" /\ admission'.job # j
        /\ result'[j].status = "pending" => result'[j] = result[j]
        /\ j \in Queued' => j \in Queued
    BY <1>1, PumpedKept
  <2>2. /\ pump.at \in BeforeRun \cup InRun => Copies(j, c)
        /\ pump.at \in BeforeRun => c.status = "pending"
        /\ pump.at \in InRun => c.status = "running" /\ (result[j].status = "running" => result[j] = c)
        /\ pump.at = "running" => \E k \in Case : {d \in Case : c.cases[d] = "running"} = {k}
        /\ pump.at \in {"loop", "skipping"} => \A k \in Case : c.cases[k] # "running"
        /\ pump.at \notin InRun => result[j].status # "running"
        /\ pump.at \in Settling \cup {"dequeueCancelled", "unlinkCancelled", "drop"} => result[j].status # "pending"
        /\ pump.at \in {"unlink", "unlinkCancelled", "unlinkConflict"} => j \notin Queued
        /\ result[j].status = "pending"
             => \/ pump.at = "entry" /\ j \notin cancelledIds
                \/ pump.at \in BeforeRun
                \/ ToBeCancelled(j)
    BY <1>1 DEF QueueInv, Pumping
  <2>3. pump'.at \in BeforeRun \cup InRun => CopyIs(j, c)
    <3>1. PICK d \in Result : d = pump.copy /\ d = c
      BY <1>1, <1>p DEF Pumps
    <3>2. PICK i \in Job : i = pump.job /\ i = j
      BY <1>1, <2>1
    <3>3. Copies(i, d) => Copies(i, d)'
      BY CopiesKept
    <3>4. Copies(i, d)' => CopyIs(i, d)
      BY DEF Copies
    <3> QED BY <1>1, <2>2, <3>1, <3>2, <3>3, <3>4
  <2>4. ~Ran(j) \/ result'[j].status # "running"
    <3>1. result[j].rev \in Nat
      BY <2>1 DEF TypeOK, Result
    <3>2. Ran(j) => result'[j].rev = result[j].rev + 1 /\ result[j] = pump.copy
                    /\ (result'[j].status = "running" => pump'.copy = result'[j])
      BY DEF Ran
    <3> QED BY <1>1, <3>1, <3>2
  <2>5. result'[j].status = "running" => result'[j] = result[j]
    BY <2>1, <2>4 DEF Ended, Still
  <2>6. ASSUME result'[j].status = "pending"
        PROVE  \/ pump'.at = "entry" /\ j \notin cancelledIds'
               \/ pump'.at \in BeforeRun
               \/ Cancels1(j)
    <3>1. result'[j] = result[j] /\ result[j].status = "pending"
      BY <2>1, <2>6
    <3>2. ToBeCancelled(j) => Cancels1(pump.job)
      <4>1. PICK i \in Job : i = pump.job
        BY <1>1, <2>1
      <4>2. ToBeCancelled(i) => ToBeCancelled(i)'
        BY <1>0, <1>1, <3>1, <4>1, ToBeCancelledStays
      <4> QED BY <1>1, <4>1, <4>2 DEF ToBeCancelled
    <3>3. ASSUME pump.at = "entry", j \notin cancelledIds, j \in cancelledIds' PROVE Cancels1(j)
      <4>1. CancelQueued(j)
        BY <1>0, <1>1, <3>3, CancelledSteps
           DEF CloseEnds, Crash, ProcessEnds, LookAtResult, PumpStep, CancelQueued
      <4>2. cancel'[j].at = "put" /\ cancel'[j].copy = result[j]
        BY <2>1, <4>1 DEF CancelQueued, TypeOK
      <4>3. result[j].rev = 1
        BY <2>1, <3>1, FreshFields DEF QueueInv, Documents
      <4> QED BY <4>2, <4>3 DEF ToBeCancelled
    <3> QED BY <1>1, <2>2, <3>1, <3>2, <3>3 DEF ToBeCancelled
  <2> QED BY <1>1, <2>1, <2>2, <2>3, <2>5, <2>6
<1>2. CASE Look
  <2>1. ~(closing \/ Waiting = {})
    BY <1>2, Tidied DEF Look, Idle
  <2>2. Waiting \in SUBSET Nat /\ Waiting # {}
    BY <2>1 DEF Waiting, TypeOK
  <2> DEFINE i == CHOOSE i \in Waiting : \A h \in Waiting : i <= h
  <2>3. i \in Waiting
    BY <2>2, LeastIn
  <2>4. pump' = [NoPump EXCEPT !.at = "entry", !.job = queue[i]]
    BY <1>2, <2>1 DEF Look
  <2> HIDE DEF i
  <2>5. pump'.at = "entry" /\ j = queue[i] /\ j \in Queued /\ j \notin cancelledIds
    BY <2>3, <2>4 DEF NoPump, Waiting, Queued
  <2>6. result' = result /\ cancelledIds' = cancelledIds /\ admission' = admission /\ Up /\ pump.at = "look"
    BY <1>2 DEF Look, PumpStep, disk
  <2>7. result[j].status # "none"
    BY <2>5 DEF QueueInv, Entries
  <2>8. admission.job # j
    BY <1>p, <2>5, QueueAssumption DEF QueueInv, Admitting, TypeOK
  <2>9. result[j].status # "running"
    BY <1>p, <2>6 DEF QueueInv, Answered, Active, Draining, Settling
  <2> QED BY <2>5, <2>6, <2>7, <2>8, <2>9 DEF BeforeRun, InRun, Settling
<1>3. CASE LookAtResult
  <2>1. /\ pump.at = "entry" /\ j = pump.job /\ pump'.at = Fate(j)
        /\ Fate(j) = "read" => c = result[j]
        /\ result' = result
    BY <1>3 DEF LookAtResult, PumpStep, NoPump, disk
  <2>2. Working
    BY <2>1 DEF Working, Idle
  <2>3. /\ result'[j].status # "none" /\ admission'.job # j /\ Up
    BY <2>1, <2>2, PumpedKept
  <2>4. result[j].status # "running"
    BY <2>1, <2>2 DEF QueueInv, Pumping, InRun
  <2>5. result[j].status = "pending" /\ j \in cancelledIds => ToBeCancelled(j)
    BY <2>1, <2>2 DEF QueueInv, Pumping, BeforeRun
  <2>6. ToBeCancelled(pump.job) => Cancels1(pump.job)
    BY <1>3 DEF ToBeCancelled, LookAtResult
  <2>7. Fate(j) \in {"drop", "dequeue", "read"}
    BY DEF Fate
  <2>8. CASE Fate(j) = "read"
    <3>1. result[j].status = "pending"
      BY <1>p, <2>1, <2>3, <2>4, <2>8 DEF Fate, Result, Open
    <3>2. c = result'[j] /\ c.rev \in Nat /\ c.rev >= 1 /\ (c.rev = 1 => c = FreshDocument)
      BY <1>p, <2>1, <2>3, <2>8 DEF Documents, Result
    <3>3. CopyIs(j, c)
      BY <1>p, <3>2
    <3> QED BY <2>1, <2>3, <2>4, <2>8, <3>1, <3>2, <3>3 DEF BeforeRun, InRun, Settling
  <2>9. CASE Fate(j) = "drop"
    <3>1. result[j].status # "pending"
      BY <2>1, <2>3, <2>9 DEF Fate
    <3> QED BY <2>1, <2>3, <2>4, <2>9, <3>1 DEF BeforeRun, InRun
  <2>10. CASE Fate(j) = "dequeue"
    <3>1. result[j].status = "pending" => ToBeCancelled(j)
      BY <2>5, <2>10 DEF Fate, Terminal
    <3> QED BY <2>1, <2>3, <2>4, <2>6, <2>10, <3>1 DEF BeforeRun, InRun, Settling, ToBeCancelled
  <2> QED BY <2>7, <2>8, <2>9, <2>10
<1>4. CASE ReadBundles \/ TakeTurn
  <2>1. /\ pump.at \in {"read", "turn"} /\ j = pump.job /\ c = pump.copy
        /\ pump'.at \in {"turn", "missing", "begin"} /\ result' = result
    BY <1>4, GoneTo DEF ReadBundles, TakeTurn, PumpStep, disk
  <2>2. Working /\ pump.at \in BeforeRun /\ pump.at \notin InRun
    BY <2>1 DEF Working, Idle, BeforeRun, InRun
  <2>3. result'[j].status # "none" /\ admission'.job # j
    BY <2>1, <2>2, PumpedKept
  <2>4. Copies(pump.job, pump.copy) /\ c.status = "pending" /\ result[j].status # "running"
    BY <2>1, <2>2 DEF QueueInv, Pumping
  <2>5. CopyIs(j, c)
    BY <2>1, <2>4 DEF Copies
  <2> QED BY <2>1, <2>3, <2>4, <2>5 DEF BeforeRun, InRun, Settling
<1>5. CASE BundlesMissing
  <2>1. pump.at = "missing" /\ Working /\ pump.at \in BeforeRun /\ pump.job \in Job
    BY <1>5, JobTypes DEF BundlesMissing, PumpStep, Working, Idle, BeforeRun
  <2>2. Put(pump.job, FailDocument(pump.copy)) /\ PumpTidies("dequeue")
    BY <1>5, Tidied DEF BundlesMissing, Idle
  <2>3. pump'.at = "dequeue" /\ j = pump.job
    BY <2>2, Tidied
  <2>4. FailDocument(pump.copy) \in Result /\ FailDocument(pump.copy).status = "error"
    BY JobTypes, DocumentTypes, FailFields
  <2>5. result'[j].status = "error"
    BY <2>1, <2>2, <2>3, <2>4, PutFields
  <2>6. admission'.job # j
    BY <2>1, <2>3, PumpedKept
  <2> QED BY <2>3, <2>5, <2>6 DEF BeforeRun, InRun, Settling
<1>6. CASE Dequeue \/ Unlink \/ JobEnds
  <2>1. /\ pump.at \in {"dequeue", "drop", "dequeueCancelled", "dequeueConflict",
                        "unlink", "unlinkCancelled", "unlinkConflict", "ended"}
        /\ result' = result
    BY <1>6 DEF Dequeue, Unlink, JobEnds, PumpStep, disk
  <2>2. \E p : PumpTidies(p)
    BY <1>6 DEF Dequeue, Unlink, JobEnds
  <2>3. j = pump.job
    BY <2>2, Tidied
  <2>4. Working /\ pump.at \notin InRun \cup BeforeRun
    BY <2>1 DEF Working, Idle, InRun, BeforeRun
  <2>5. /\ result'[j].status # "none" /\ admission'.job # j
        /\ result[j].status # "running"
        /\ pump.at \in Settling \cup {"dequeueCancelled", "unlinkCancelled", "drop"} => result[j].status # "pending"
        /\ result[j].status = "pending" => ToBeCancelled(j)
    BY <2>1, <2>3, <2>4, PumpedKept DEF QueueInv, Pumping
  <2>6. ToBeCancelled(pump.job) => Cancels1(pump.job)
    BY <1>6 DEF ToBeCancelled, Dequeue, Unlink, JobEnds
  <2>7. result'[j].status = "pending" => Cancels1(j)
    BY <2>1, <2>3, <2>5, <2>6 DEF ToBeCancelled
  <2>8. CASE Dequeue
    <3>1. \/ pump.at = "dequeue" /\ pump'.at = "unlink"
          \/ pump.at = "dequeueCancelled" /\ pump'.at = "unlinkCancelled"
          \/ pump.at = "dequeueConflict" /\ pump'.at = "unlinkConflict"
      BY <2>8, Tidied DEF Dequeue, Idle
    <3>2. j \notin Queued'
      BY <2>3, <2>8, QueuedMove, JobTypes DEF Dequeue
    <3> QED BY <2>1, <2>5, <2>7, <3>1, <3>2 DEF BeforeRun, InRun, Settling
  <2>9. CASE Unlink
    <3>1. pump.at \in {"unlinkCancelled", "unlinkConflict"} /\ pump'.at = "ended"
      BY <2>9, Tidied DEF Unlink, Idle
    <3> QED BY <2>1, <2>5, <2>7, <3>1 DEF BeforeRun, InRun, Settling
  <2>10. CASE JobEnds
    <3>1. pump'.at = "dequeue"
      BY <2>10, Tidied DEF JobEnds, Idle
    <3> QED BY <2>1, <2>5, <2>7, <3>1 DEF BeforeRun, InRun, Settling
  <2> QED BY <1>6, <2>8, <2>9, <2>10
<1>7. CASE DrainBegins \/ SkipRest \/ JobFinishes \/ (\E k \in Case : CaseStarts(k))
           \/ (\E passed \in BOOLEAN : CaseEnds(passed))
  <2>1. /\ pump.at \in InRun \cup {"begin"} /\ j = pump.job
        /\ \/ /\ pump'.at \in InRun /\ c = result'[j] /\ result'[j].status = "running"
              /\ pump'.at = "running" => OneCaseRuns(c)
              /\ pump'.at \in {"loop", "skipping"} => NoCaseRuns(c)
           \/ /\ pump'.at \in {"ended", "dequeueCancelled", "dequeueConflict"}
              /\ result'[j].status \notin {"none", "pending", "running"}
           \/ /\ pump'.at = "ended" /\ result' = result /\ result[j].status \notin {"pending", "running"}
    BY <1>7, PumpDrains
  <2>2. Working
    BY <2>1 DEF Working, Idle, InRun
  <2>3. result'[j].status # "none" /\ admission'.job # j
    BY <2>1, <2>2, PumpedKept
  <2>4. CASE pump'.at \in InRun /\ c = result'[j] /\ result'[j].status = "running"
             /\ (pump'.at = "running" => OneCaseRuns(c))
             /\ (pump'.at \in {"loop", "skipping"} => NoCaseRuns(c))
    <3>1. c.rev \in Nat /\ c.rev >= 1 /\ (c.rev = 1 => c = FreshDocument)
      BY <1>p, <2>4 DEF Documents, Result
    <3>2. CopyIs(j, c)
      BY <2>4, <3>1
    <3> QED BY <2>3, <2>4, <3>2 DEF BeforeRun, InRun, Settling, OneCaseRuns, NoCaseRuns
  <2>5. CASE pump'.at \in {"ended", "dequeueCancelled", "dequeueConflict"}
             /\ result'[j].status \notin {"none", "pending", "running"}
    BY <2>3, <2>5 DEF BeforeRun, InRun
  <2>6. CASE pump'.at = "ended" /\ result' = result /\ result[j].status \notin {"pending", "running"}
    BY <2>3, <2>6 DEF BeforeRun, InRun
  <2> QED BY <2>1, <2>4, <2>5, <2>6
<1>8. CASE BeginClose \/ (\E k \in Job : CancelActive(k))
  <2>1. pump'.at = pump.at /\ pump'.job = pump.job /\ pump'.copy = pump.copy
    BY <1>8, <1>p DEF BeginClose, CancelActive, Pumps
  <2> QED BY <1>1, <2>1 DEF Working
<1>9. CASE AppendEntry
  <2>1. pump' = pump \/ pump' = [NoPump EXCEPT !.at = "look"]
    BY <1>9 DEF AppendEntry, PumpEnsured
  <2>2. pump' = pump
    BY <2>1 DEF NoPump, Idle
  <2> QED BY <1>1, <2>2 DEF Working
<1>10. CASE pump' = pump
  BY <1>1, <1>10 DEF Working
<1>11. ~Opens /\ ~CloseEnds /\ ~Crash
  BY DEF Opens, CloseEnds, Crash, ProcessEnds, NoPump, Idle
<1>12. ~GiveUpTurn
  BY Tidied DEF GiveUpTurn, Idle
<1> QED BY <1>2, <1>3, <1>4, <1>5, <1>6, <1>7, <1>8, <1>9, <1>10, <1>11, <1>12, PumpSteps

-----------------------------------------------------------------------------
(***************************************************************************)
(* Answered, and the theorems on the invariant.                            *)
(***************************************************************************)

\* A step keeps Answered: what was open when the process died is stopped before
\* the service is up again.
LEMMA AnsweredNext == ASSUME TypeOK, QueueInv, ~MayRemove, [Next]_vars PROVE Answered'
<1> SUFFICES ASSUME Up', NEW j \in Job
             PROVE  /\ result'[j].status = "running" => Active(j)'
                    /\ result'[j].status = "pending"
                         => j \in Queued' \/ admission'.job = j \/ ToBeCancelled(j)'
  BY DEF Answered
<1>0. Lifetimes /\ Booted /\ Answered /\ result[j] \in Result
  BY DEF QueueInv, TypeOK
<1>1. ~CloseEnds /\ ~Crash
  BY DEF CloseEnds, Crash, ProcessEnds, Up
<1>2. CASE ~Up
  <2>1. Opens
    BY <1>1, <1>2, ServiceSteps DEF Up, Start, BeginClose, CloseInterrupts
  <2>2. result' = result /\ queue' = queue
    BY <2>1 DEF Opens, disk
  <2>3. result[j].status \in Open => j \in boot.valid
    BY <2>1 DEF Opens, Orphans
  <2> QED BY <1>0, <2>2, <2>3 DEF Booted, Open, Queued
<1>3. CASE Up
  <2>0. result'[j] = result[j] \/ Created(j) \/ Deleted(j) \/ Ended(j) \/ Ran(j)
    BY ResultMove
  <2>1. ASSUME result'[j].status = "running" PROVE Active(j)'
    <3>1. (result'[j] = result[j] /\ result[j].status = "running") \/ Ran(j)
      BY <2>0, <2>1, FreshFields DEF Created, Deleted, Ended, Still
    <3>2. CASE Ran(j)
      BY <2>1, <3>2 DEF Ran, Active, InRun, Draining
    <3>3. CASE result'[j] = result[j] /\ result[j].status = "running"
      <4>1. Active(j)
        BY <1>0, <1>3, <3>3 DEF Answered
      <4>2. pump.job = j /\ pump.at \in InRun
        BY <3>3, <4>1 DEF Active, Draining, Settling, QueueInv, Pumping, Working, Idle
      <4>3. pump'.job = j /\ pump'.at \in Draining \cup Settling
        <5>1. pump' = pump => pump'.job = j /\ pump'.at \in Draining \cup Settling
          BY <4>2 DEF InRun, Draining
        <5>2. DrainBegins \/ SkipRest \/ JobFinishes \/ (\E c \in Case : CaseStarts(c))
                \/ (\E passed \in BOOLEAN : CaseEnds(passed))
                => pump'.job = j /\ pump'.at \in Draining \cup Settling
          BY <4>2, PumpDrains DEF InRun, Draining, Settling
        <5>3. BeginClose \/ (\E k \in Job : CancelActive(k)) => pump'.job = j /\ pump'.at = pump.at
          BY <4>2 DEF BeginClose, CancelActive, TypeOK
        <5>4. AppendEntry => pump' = pump
          BY <4>2 DEF AppendEntry, PumpEnsured, InRun
        <5>5. ~Opens
          BY <1>3 DEF Opens, Up
        <5> QED BY <1>1, <4>2, <5>1, <5>2, <5>3, <5>4, <5>5, PumpSteps
           DEF Look, LookAtResult, ReadBundles, BundlesMissing, TakeTurn, GiveUpTurn, Dequeue,
               Unlink, JobEnds,
               PumpStep, InRun, Draining
      <4> QED BY <4>3 DEF Active
    <3> QED BY <3>1, <3>2, <3>3
  <2>2. ASSUME result'[j].status = "pending"
        PROVE  j \in Queued' \/ admission'.job = j \/ ToBeCancelled(j)'
    <3>1. (result'[j] = result[j] /\ result[j].status = "pending") \/ Created(j)
      BY <2>0, <2>2, FreshFields DEF Deleted, Ended, Still, Ran
    <3>2. CASE Created(j)
      BY <3>2 DEF Created
    <3>3. CASE result'[j] = result[j] /\ result[j].status = "pending"
      <4>1. j \in Queued \/ admission.job = j \/ ToBeCancelled(j)
        BY <1>0, <1>3, <3>3 DEF Answered
      <4>2. CASE ToBeCancelled(j)
        BY <3>3, <4>2, ToBeCancelledStays
      <4>3. CASE j \in Queued /\ ~ToBeCancelled(j)
        <5>1. ~RewriteQueue
          BY <1>3 DEF RewriteQueue, Up
        <5>2. ~CancelDequeue(j)
          BY <3>3 DEF CancelDequeue, QueueInv, Cancelling, Terminal
        <5>3. ~(Dequeue /\ j = pump.job)
          BY <3>3, <4>3 DEF Dequeue, QueueInv, Pumping, Working, Idle, BeforeRun, Settling
        <5> QED BY <4>3, <5>1, <5>2, <5>3, QueuedMove
      <4>4. CASE admission.job = j
        <5>1. admission.at # "rollback"
          BY <3>3, <4>4 DEF QueueInv, Admitting
        <5>2. \A p : AdmissionGoesTo(p) => admission'.job = admission.job
          BY DEF AdmissionGoesTo, TypeOK
        <5>3. ReadQueue => admission'.job = admission.job
          BY DEF ReadQueue, TypeOK
        <5>4. AppendEntry => j \in Queued'
          BY <4>4, QueuedMove
        <5>5. \A k \in Job : ~EnqueueStarts(k)
          BY <4>4, QueueAssumption DEF EnqueueStarts, TypeOK
        <5> QED BY <1>1, <4>4, <5>1, <5>2, <5>3, <5>4, <5>5, AdmissionSteps
           DEF WriteBundles, CreateResult, RefuseEntry, RollBackBundles
      <4> QED BY <4>1, <4>2, <4>3, <4>4
    <3> QED BY <3>1, <3>2, <3>3
  <2> QED BY <2>1, <2>2
<1> QED BY <1>2, <1>3

\* The invariant holds of an empty store and a process that is down.
LEMMA InvInit == Init => QueueInv
<1> SUFFICES ASSUME Init PROVE QueueInv
  OBVIOUS
<1>1. Queued = {} /\ \A j \in Job : result[j] = NoResult
  BY DEF Init, Queued
<1>2. ~Up /\ pump = NoPump /\ NoPump.at = "idle" /\ admission = NoAdmission /\ boot = NoBoot
  BY DEF Init, Up, NoPump
<1>3. Documents /\ Entries
  BY <1>1, FreshFields DEF Documents, Entries
<1>4. Lifetimes /\ Answered /\ Pumping
  BY <1>2 DEF Init, Lifetimes, Answered, Pumping, Working, Idle
<1>5. Booted /\ Admitting
  BY <1>1, <1>2 DEF Booted, NoBoot, Admitting, NoAdmission
<1>6. Cancelling
  BY DEF Init, Cancelling, NoCancel
<1> QED BY <1>3, <1>4, <1>5, <1>6 DEF QueueInv

\* The invariant is inductive, given the types.
LEMMA InvNext == ASSUME TypeOK, QueueInv, ~MayRemove, [Next]_vars PROVE QueueInv'
BY DocumentsNext, LifetimesNext, BootedNext, EntriesNext, AdmittingNext, CancellingNext,
   PumpingNext, AnsweredNext
   DEF QueueInv

\* As long as clients do not delete results, the three files of a job agree
\* with each other and with what the pump, the submission and the cancellations
\* know of them (QueueInv), for any jobs, cases, starts and submissions.
THEOREM QueueInvariant ==
    ASSUME ~MayRemove
    PROVE  Spec => []QueueInv
<1>1. TypeOK /\ QueueInv /\ [Next]_vars => QueueInv'
  BY InvNext
<1> QED BY <1>1, InvInit, QueueTypeCorrect, PTL DEF Spec

\* An entry of the queue whose job may still run has the run bundles it is
\* going to read: enqueue writes them first, and the pump, cancel and the
\* rollback delete them last, whatever is interrupted.
THEOREM EntriesHaveBundles ==
    ASSUME ~MayRemove
    PROVE  Spec => []QueuedHasBundles
<1>1. QueueInv => QueuedHasBundles
  BY DEF QueueInv, Entries, QueuedHasBundles
<1> QED BY <1>1, QueueInvariant, PTL

\* While the service is up, no result is left open that nobody looks after: one
\* that says running is the active job, one that says pending is queued, being
\* submitted or being cancelled.
THEOREM NothingIsForgotten ==
    ASSUME ~MayRemove
    PROVE  Spec => []OpenResultsAreLookedAfter
<1>1. QueueInv => OpenResultsAreLookedAfter
  BY DEF QueueInv, Answered, ToBeCancelled, OpenResultsAreLookedAfter
<1> QED BY <1>1, QueueInvariant, PTL

-----------------------------------------------------------------------------
(***************************************************************************)
(* The refinement of ResultLifecycle.                                      *)
(***************************************************************************)

Doc == [j \in Job |-> [status |-> result[j].status, cases |-> result[j].cases]]

\* The document of ResultLifecycle and the changes that it makes to one.
LEMMA DocIs ==
    ASSUME NEW k \in Job
    PROVE  /\ Doc[k] = [status |-> result[k].status, cases |-> result[k].cases]
           /\ Doc[k].status = result[k].status /\ Doc[k].cases = result[k].cases
           /\ \A s : [Doc[k] EXCEPT !.status = s] = [status |-> s, cases |-> result[k].cases]
           /\ \A f : [Doc[k] EXCEPT !.cases = f] = [status |-> result[k].status, cases |-> f]
           /\ \A c, v : [Doc[k] EXCEPT !.cases[c] = v]
                = [status |-> result[k].status, cases |-> [result[k].cases EXCEPT ![c] = v]]
           /\ \A S, v : Lifecycle!Marked(k, S, v) = Mark(result[k], S, v)
<1>1. Doc[k] = [status |-> result[k].status, cases |-> result[k].cases]
  BY DEF Doc
<1>2. \A S, v : Lifecycle!Marked(k, S, v) = Mark(result[k], S, v)
  BY DEF Lifecycle!Marked, Mark, Lifecycle!Case, Case
<1> QED BY <1>1, <1>2

\* Every move of a document is a step of ResultLifecycle.
LEMMA MoveKept ==
    ASSUME TypeOK, QueueInv, ~MayRemove, [Next]_vars, NEW k \in Job, Moved(k)
    PROVE  Lifecycle!Next
<1> DEFINE q == result[k]
           r == result'[k]
           L == Lifecycle!Next
<1> SUFFICES L
  OBVIOUS
<1>0. q \in Result /\ r \in Result
  BY ResultType DEF TypeOK
<1>1. Doc' = [Doc EXCEPT ![k] = [status |-> r.status, cases |-> r.cases]]
  BY DEF Moved, Doc
<1>d. Doc = [j \in Job |-> [status |-> result[j].status, cases |-> result[j].cases]]
  BY DEF Doc
<1>s. /\ Lifecycle!Case = Case /\ Lifecycle!Open = Open /\ Lifecycle!CaseOver = CaseStatus \ {"pending", "running"}
      /\ \A S, v : Lifecycle!Marked(k, S, v) = Mark(q, S, v)
  BY DocIs DEF Lifecycle!Case, Case, Lifecycle!Open, Open, Lifecycle!CaseOver,
     Lifecycle!CaseStatus, CaseStatus
<1>2. ASSUME Created(k) \/ Deleted(k) PROVE L
  <2>1. NoResult.status = "none" /\ NoResult.cases = [c \in Case |-> "pending"]
        /\ FreshDocument.status = "pending" /\ FreshDocument.cases = [c \in Case |-> "pending"]
    BY DEF NoResult, FreshDocument
  <2>2. Lifecycle!Absent = [status |-> "none", cases |-> [c \in Case |-> "pending"]]
        /\ Lifecycle!Fresh = [status |-> "pending", cases |-> [c \in Case |-> "pending"]]
    BY <1>s DEF Lifecycle!Absent, Lifecycle!Fresh
  <2>3. CASE Created(k)
    <3>1. Lifecycle!Submitted(k)
      BY <1>1, <2>1, <2>2, <2>3 DEF Created, Lifecycle!Submitted, Lifecycle!Become, Doc
    <3> QED BY <3>1 DEF Lifecycle!Next
  <2>4. CASE Deleted(k)
    <3>1. Lifecycle!Removed(k)
      BY <1>1, <2>1, <2>2, <2>4 DEF Deleted, Lifecycle!Removed, Lifecycle!Become, Doc
    <3> QED BY <3>1 DEF Lifecycle!Next
  <2> QED BY <1>2, <2>3, <2>4
<1>3. ASSUME Stopped(k) PROVE L
  <2>1. StopsAs(q, r)
    BY <1>3 DEF Stopped
  <2>2. CASE q.status \in Open /\ r.status = "cancelled" /\ r.cases = Mark(q, {"pending", "running"}, "cancelled")
    <3>1. Lifecycle!Cancelled(k)
      BY <1>1, <1>s, <2>2 DEF Lifecycle!Cancelled, Lifecycle!Become, Doc
    <3> QED BY <3>1 DEF Lifecycle!Next
  <2>3. CASE q.status \in Open /\ r.status = "paused" /\ r.cases = Mark(q, {"running"}, "interrupted")
    <3>1. Lifecycle!Paused(k)
      BY <1>1, <1>s, <2>3 DEF Lifecycle!Paused, Lifecycle!Become, Doc
    <3> QED BY <3>1 DEF Lifecycle!Next
  <2>4. CASE q.status \in Open /\ r.status = "interrupted" /\ r.cases = Mark(q, {"pending", "running"}, "interrupted")
    <3>1. Lifecycle!Interrupted(k)
      BY <1>1, <1>s, <2>4 DEF Lifecycle!Interrupted, Lifecycle!Become, Doc
    <3> QED BY <3>1 DEF Lifecycle!Next
  <2>5. CASE q.status # "none" /\ r.status = "error"
             /\ (r.cases = Mark(q, {"pending", "running"}, "failed") \/ r.cases = q.cases)
    <3>1. Doc[k] # Lifecycle!Absent
      <4>1. Lifecycle!Absent.status = "none"
        BY DEF Lifecycle!Absent
      <4> QED BY <2>5, <4>1, DocIs
    <3>2. CASE r.cases = Mark(q, {"pending", "running"}, "failed")
      <4>1. Lifecycle!Become(k, [status |-> "error", cases |-> Lifecycle!Marked(k, {"pending", "running"}, "failed")])
        BY <1>1, <1>s, <2>5, <3>2 DEF Lifecycle!Become, Doc
      <4>2. Lifecycle!Failed(k)
        BY <3>1, <4>1 DEF Lifecycle!Failed, Doc
      <4> QED BY <4>2 DEF Lifecycle!Next
    <3>3. CASE r.cases = q.cases
      <4>1. [Doc[k] EXCEPT !.status = "error"] = [status |-> r.status, cases |-> r.cases]
        BY <2>5, <3>3 DEF Doc
      <4>2. Lifecycle!Become(k, [Doc[k] EXCEPT !.status = "error"])
        BY <1>1, <4>1 DEF Lifecycle!Become, Doc
      <4>3. Lifecycle!Failed(k)
        BY <3>1, <4>2 DEF Lifecycle!Failed, Doc
      <4> QED BY <4>3 DEF Lifecycle!Next
    <3> QED BY <2>5, <3>2, <3>3
  <2> QED BY <2>1, <2>2, <2>3, <2>4, <2>5 DEF StopsAs
<1>4. ASSUME Advanced(k) PROVE L
  <2>1. /\ RunsAs(q, r, pump'.at) /\ pump.job = k /\ pump.at \in InRun \cup {"begin"}
        /\ q.cases \in [Case -> CaseStatus] /\ r.cases \in [Case -> CaseStatus]
    BY <1>0, <1>4 DEF Advanced, Result
  <2>2. CASE q.status = "pending" /\ r.status = "running" /\ r.cases = q.cases
    <3>1. Lifecycle!Begins(k)
      BY <1>1, <2>2, DocIs DEF Lifecycle!Begins, Lifecycle!Become, Doc
    <3> QED BY <3>1 DEF Lifecycle!Next
  <2>3. ASSUME q.status = "running", r.status = "running", NoCaseRuns(q), NEW c \in Pending(q),
               \A b \in Pending(q) : c <= b, r.cases = [q.cases EXCEPT ![c] = "running"]
        PROVE  L
    <3>1. c \in Case /\ q.cases[c] = "pending"
      BY DEF Pending
    <3>2. \A b \in 1..(c - 1) : q.cases[b] \in CaseStatus \ {"pending", "running"}
      <4> SUFFICES ASSUME NEW b \in 1..(c - 1) PROVE q.cases[b] \in CaseStatus \ {"pending", "running"}
        OBVIOUS
      <4>1. b \in Case /\ ~(c <= b)
        BY <3>1, QueueAssumption DEF Case
      <4> QED BY <2>1, <2>3, <4>1 DEF NoCaseRuns, Pending
    <3>3. ASSUME NEW i \in Job, NEW b \in Case, result[i].cases[b] = "running" PROVE FALSE
      <4>1. result[i].status = "running"
        BY <3>3 DEF QueueInv, Documents
      <4>2. Up
        BY <2>1 DEF QueueInv, Lifetimes, NoPump, InRun
      <4>3. i = k
        BY <2>1, <4>1, <4>2 DEF QueueInv, Answered, Active
      <4> QED BY <2>3, <3>3, <4>3 DEF NoCaseRuns
    <3>4. \A i \in Job : Doc[i].cases = result[i].cases
      BY DEF Doc
    <3>5. Lifecycle!CaseBegins(k, c)
      <4>1. [Doc[k] EXCEPT !.cases[c] = "running"] = [status |-> r.status, cases |-> r.cases]
        BY <2>3 DEF Doc
      <4>2. Lifecycle!Become(k, [Doc[k] EXCEPT !.cases[c] = "running"])
        BY <1>1, <4>1 DEF Lifecycle!Become, Doc
      <4> QED BY <1>s, <2>3, <3>1, <3>2, <3>3, <4>2 DEF Lifecycle!CaseBegins, Doc
    <3> QED BY <1>s, <3>1, <3>5 DEF Lifecycle!Next
  <2>4. ASSUME q.status = "running", r.status = "running", NEW c \in Case,
               NEW v \in {"passed", "failed", "cancelled", "interrupted"},
               {d \in Case : q.cases[d] = "running"} = {c}, r.cases = [q.cases EXCEPT ![c] = v]
        PROVE  L
    <3>1. q.cases[c] = "running" /\ v \in CaseStatus \ {"pending", "running"}
      BY <2>4 DEF CaseStatus
    <3>2. Lifecycle!Become(k, [Doc[k] EXCEPT !.cases[c] = v])
      <4>1. [Doc[k] EXCEPT !.cases[c] = v] = [status |-> r.status, cases |-> r.cases]
        BY <2>4 DEF Doc
      <4> QED BY <1>1, <4>1 DEF Lifecycle!Become, Doc
    <3>3. Lifecycle!CaseEnds(k, c)
      BY <1>s, <3>1, <3>2 DEF Lifecycle!CaseEnds, Doc
    <3> QED BY <1>s, <3>3 DEF Lifecycle!Next
  <2>5. CASE q.status = "running" /\ r.status = "running" /\ r.cases = Mark(q, {"pending"}, "cancelled")
    <3>1. Lifecycle!Skipped(k)
      <4>1. [Doc[k] EXCEPT !.cases = Lifecycle!Marked(k, {"pending"}, "cancelled")]
              = [status |-> r.status, cases |-> r.cases]
        BY <1>s, <2>5 DEF Doc
      <4>2. Lifecycle!Become(k, [Doc[k] EXCEPT !.cases = Lifecycle!Marked(k, {"pending"}, "cancelled")])
        BY <1>1, <4>1 DEF Lifecycle!Become, Doc
      <4> QED BY <2>5, <4>2 DEF Lifecycle!Skipped, Doc
    <3> QED BY <3>1 DEF Lifecycle!Next
  <2>6. CASE q.status = "running" /\ r.status = "completed" /\ Pending(q) = {} /\ NoCaseRuns(q) /\ r.cases = q.cases
    <3>1. \A c \in Case : q.cases[c] \in CaseStatus \ {"pending", "running"}
      BY <2>1, <2>6 DEF Pending, NoCaseRuns
    <3>2. Lifecycle!Completed(k)
      BY <1>1, <1>s, <2>6, <3>1, DocIs DEF Lifecycle!Completed, Lifecycle!Become, Doc
    <3> QED BY <3>2 DEF Lifecycle!Next
  <2> QED BY <2>1, <2>2, <2>3, <2>4, <2>5, <2>6 DEF RunsAs
<1> QED BY <1>2, <1>3, <1>4 DEF Moved

\* The stored results live as ResultLifecycle promises: whatever the
\* interleaving of the pump, submissions, cancellations, pauses and crashes,
\* cases start in order and one at a time, none runs twice, and what is over
\* stays so.
THEOREM LifecycleKept ==
    ASSUME ~MayRemove
    PROVE  Spec => ResultsLiveAsPromised
<1>1. Init => Lifecycle!Init
  BY DEF Init, Lifecycle!Init, Lifecycle!Absent, Lifecycle!Case, NoResult, Case
<1>2. TypeOK /\ QueueInv /\ [Next]_vars
        => [Lifecycle!Next]_([j \in Job |-> [status |-> result[j].status, cases |-> result[j].cases]])
  <2> SUFFICES ASSUME TypeOK, QueueInv, [Next]_vars
               PROVE  [Lifecycle!Next]_([j \in Job |-> [status |-> result[j].status, cases |-> result[j].cases]])
    OBVIOUS
  <2>1. result' = result \/ \E k \in Job : Moved(k)
    BY ResultMoves
  <2>2. (\E k \in Job : Moved(k)) => Lifecycle!Next
    BY MoveKept
  <2> QED BY <2>1, <2>2
<1> QED BY <1>1, <1>2, QueueInvariant, QueueTypeCorrect, PTL
   DEF Spec, ResultsLiveAsPromised, Lifecycle!Spec
=============================================================================
