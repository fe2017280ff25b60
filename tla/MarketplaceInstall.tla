------------------------- MODULE MarketplaceInstall -------------------------
(***************************************************************************)
(* Installing and removing marketplace releases on a client: the           *)
(* transactions of MarketplaceTransactionCoordinator, the jobs of          *)
(* MarketplaceInstallJobManager, and the two ledgers they move, one of     *)
(* installed releases and one of who owns them.                            *)
(*                                                                         *)
(* A transaction is journaled with the base and the target of both         *)
(* ledgers, commits its adapters, and publishes ownership before the       *)
(* installed ledger that makes it visible.  The steps of transactions run  *)
(* one after the other from a promise chain; a removal, however, is        *)
(* planned and journaled before it joins that chain, and a journal is      *)
(* deleted by a later link of it.  The process may stop between any two    *)
(* durable writes, and replays the journals it finds when it starts.       *)
(*                                                                         *)
(* A hash of a ledger is the ledger; a receipt is the job that wrote it;   *)
(* an adapter's effect on a library is that the library lists the release, *)
(* which committing it again (and recovering it) leaves listed.  Releases  *)
(* a plan only downloads (artifact-only) take no part.                     *)
(***************************************************************************)
EXTENDS Naturals, Sequences, FiniteSets

CONSTANTS
    Job,          \* installation jobs
    Remover,      \* removal requests
    Release,      \* releases that may be installed
    Root,         \* the release a job was asked to install
    Members,      \* the releases a collection requires; none for the others
    Removable,    \* the releases (plugins) whose adapter undoes an installation
    Direct,       \* the owner of what was asked for by itself
    None,         \* no job, no document, nothing running
    MayFail,      \* what may fail: "write" (in a transaction), "work" (outside it)
    MaxFailures,  \* how often something fails
    MaxRestarts,  \* how often the process stops
    MaxReplans    \* how often replan is called

ASSUME MarketplaceAssumption ==
    /\ Root \in [Job -> Release]
    /\ Members \in [Release -> SUBSET Release]
    /\ Removable \subseteq Release
    /\ Direct \notin Release
    /\ None \notin Job
    /\ Job \cap Remover = {}
    /\ MayFail \subseteq {"write", "work"}
    /\ {MaxFailures, MaxRestarts, MaxReplans} \subseteq Nat

VARIABLES
    installed,   \* stored: the ledger of releases, each with its receipt
    ownership,   \* stored: the ledger of their owners
    journal,     \* stored: the transaction a job or a request has journaled
    torn,        \* stored: the journals whose directory is deleted in part
    receipts,    \* stored: the receipts published
    library,     \* stored: the releases the adapters have put in a library
    provenance,  \* stored: the releases whose origin is recorded
    job,         \* stored: the snapshot of a job
    run,         \* where #runPrecommit or #runCommit of a job has come
    replan,      \* where a call of replan has come, and if the job is unchanged
    planned,     \* the journal removeMembership is about to write
    queue,       \* the operations chained on #queue
    active,      \* the operation that runs
    server,      \* where the life of the process has come
    boot,        \* what recovery still has to replay and resume; its results
    outcome,     \* what applying the job's transaction did to the ledger
    spent        \* how much of the bounds has been used

NoBoot == [journals |-> {}, jobs |-> {}, results |-> {}]

ledgers == <<installed, ownership>>
effects == <<receipts, library, provenance>>
journaled == <<journal, torn>>
clients == <<replan, planned>>
process == <<run, clients, queue, active, server, boot>>
vars == <<ledgers, effects, journaled, job, process, outcome, spent>>

-----------------------------------------------------------------------------
Txn == Job \cup Remover
Owner == Release \cup {Direct}

Installed == [rev : Nat, by : [Release -> Job \cup {None}]]
Ownership == [rev : Nat, of : [Release -> SUBSET Owner]]
Journal == [base : Installed, target : Installed, obase : Ownership,
            otarget : Ownership, adds : SUBSET Release, drops : SUBSET Release]

\* "queued" stands for the phases queued, download, verify and plan.
Terminal == {"failed", "cancelled", "complete"}
Phase == {"new", "queued", "awaiting-confirmation", "commit", "recover",
          "needs-attention"} \cup Terminal
JobRecord == [phase : Phase, final : BOOLEAN, pinned : Nat]

Operation == [op : {"install", "remove", "finish", "abandon"}, txn : Txn]
Step == {"prepare", "check", "adapters", "provenance", "ownership",
         "installed", "removals", "done"}
Active == [op : {"install", "remove", "replay"}, txn : Txn, step : Step,
           left : SUBSET Release]

TypeOK ==
    /\ installed \in Installed
    /\ ownership \in Ownership
    /\ journal \in [Txn -> Journal \cup {None}]
    /\ torn \subseteq Txn
    /\ receipts \subseteq Job \X Release
    /\ library \subseteq Release
    /\ provenance \subseteq Release
    /\ job \in [Job -> JobRecord]
    /\ run \in [Job -> {"none", "precommit", "commit", "install", "applied",
                        "durable", "refused", "lost"}]
    /\ replan \in [Job -> [at : {"none", "read", "queued", "plan"}, fresh : BOOLEAN]]
    /\ planned \in [Remover -> Journal \cup {None}]
    /\ queue \in Seq(Operation)
    /\ active \in Active \cup {None}
    /\ server \in {"down", "replaying", "resuming", "open", "closing"}
    /\ boot \in [journals : SUBSET Txn, jobs : SUBSET Job, results : SUBSET Job]
    /\ outcome \in [Job -> {"none", "unchanged", "installed"}]
    /\ spent \in [failures : Nat, restarts : Nat, replans : Nat]

-----------------------------------------------------------------------------
(* The ledgers.                                                            *)

IsInstalled(ledger, r) == ledger.by[r] # None

\* Membership and revision of both ledgers match, and whatever owns a release
\* is itself installed.
Agree(ledger, owners) ==
    /\ ledger.rev = owners.rev
    /\ \A r \in Release :
        /\ IsInstalled(ledger, r) <=> owners.of[r] # {}
        /\ \A c \in owners.of[r] \ {Direct} : owners.of[c] # {}

\* A request is answered from the ledgers as they stand, and refused while an
\* ownership ledger is published whose installed ledger is not.
LedgersReadable == Agree(installed, ownership)

\* The requested release and what the collections among them expand to.
Plan(j) ==
    {r \in Release : \A S \in SUBSET Release :
        /\ Root[j] \in S
        /\ \A c \in S : Members[c] \subseteq S
        => r \in S}

PlannedOwners(j, r) ==
    IF r \notin Plan(j) THEN {}
    ELSE {c \in Plan(j) : r \in Members[c]}
            \cup (IF r = Root[j] THEN {Direct} ELSE {})

Additions(j) == {r \in Plan(j) : ~IsInstalled(installed, r)}

InstallJournal(j) ==
    LET owners == [r \in Release |-> ownership.of[r] \cup PlannedOwners(j, r)]
        adds == Additions(j)
        rev == IF owners # ownership.of \/ adds # {}
               THEN installed.rev + 1 ELSE installed.rev
    IN  [base    |-> installed,
         target  |-> [rev |-> rev,
                      by |-> [r \in Release |-> IF r \in adds THEN j ELSE installed.by[r]]],
         obase   |-> ownership,
         otarget |-> [rev |-> rev, of |-> owners],
         adds    |-> adds,
         drops   |-> {}]

\* What a removal takes with it: the releases left without any owner, where a
\* collection that is taken owns nothing.
Orphans(owners) ==
    UNION {S \in SUBSET Release : \A r \in S : owners[r] \subseteq S}

RemovalJournal(r) ==
    LET owners == [ownership.of EXCEPT ![r] = @ \ {Direct}]
        gone == Orphans(owners)
        rev == ownership.rev + 1
    IN  [base    |-> installed,
         target  |-> [rev |-> rev,
                      by |-> [s \in Release |-> IF s \in gone THEN None ELSE installed.by[s]]],
         obase   |-> ownership,
         otarget |-> [rev |-> rev, of |-> [s \in Release |->
                        IF s \in gone THEN {} ELSE owners[s] \ gone]],
         adds    |-> {},
         drops   |-> {s \in gone \cap Removable : IsInstalled(installed, s)}]

\* The ledgers are where a transaction found them or where it puts them.
CanApply(t) ==
    LET d == journal[t] IN
    /\ d # None
    /\ installed \in {d.base, d.target}
    /\ ownership \in {d.obase, d.otarget}
    /\ installed = d.target => ownership = d.otarget

\* Its directory is whole, and it can be applied to the ledgers as they are.
Replayable(t) == t \notin torn /\ CanApply(t)

-----------------------------------------------------------------------------
Fails(kind) ==
    /\ kind \in MayFail
    /\ spent.failures < MaxFailures
    /\ spent' = [spent EXCEPT !.failures = @ + 1]

\* Every write of a snapshot raises its revision, so that what was decided on
\* an earlier one no longer holds.
Update(j, fields) ==
    /\ job' = [job EXCEPT ![j] = fields]
    /\ replan' = [replan EXCEPT ![j].fresh = FALSE]

SetPhase(j, phase) == Update(j, [job[j] EXCEPT !.phase = phase])

Enqueue(op, t) == queue' = Append(queue, [op |-> op, txn |-> t])

-----------------------------------------------------------------------------
(* Jobs before they are confirmed.  Requests reach an open service only.   *)

\* The preflight and the job made from it are one request here: every later
\* plan of the job is refused once the revision it read has passed.
Start(j) ==
    /\ server = "open"
    /\ job[j].phase = "new"
    /\ LedgersReadable
    /\ Update(j, [phase |-> "queued", final |-> FALSE, pinned |-> installed.rev])
    /\ run' = [run EXCEPT ![j] = "precommit"]
    /\ UNCHANGED <<ledgers, effects, journaled, planned, queue, active, server, boot,
                   outcome, spent>>

CanPlan(j) == LedgersReadable /\ installed.rev = job[j].pinned

\* Downloading, verifying and planning, for a job that was not cancelled.
Planned(j) ==
    /\ run[j] = "precommit"
    /\ job[j].phase \in {"queued", "recover"}
    /\ CanPlan(j)
    /\ Update(j, [job[j] EXCEPT !.phase = "awaiting-confirmation", !.final = TRUE])
    /\ run' = [run EXCEPT ![j] = "none"]
    /\ UNCHANGED <<ledgers, effects, journaled, planned, queue, active, server, boot,
                   outcome, spent>>

\* It fails (a download, a plan that is out of date), is aborted by the closing
\* of the service, or finds the job cancelled.
PrecommitEnds(j) ==
    /\ run[j] = "precommit"
    /\ IF job[j].phase \in Terminal THEN UNCHANGED <<job, replan>>
       ELSE SetPhase(j, IF server = "closing" THEN "recover" ELSE "failed")
    /\ run' = [run EXCEPT ![j] = "none"]
    /\ UNCHANGED <<ledgers, effects, journaled, planned, queue, active, server, boot,
                   outcome, spent>>

\* That outcome cannot be written, and the error is swallowed: the job stays in
\* its phase, with nobody who goes on with it. The failure is not counted, for
\* often it is not the first: a full disk refuses every write.
PrecommitLost(j) ==
    /\ run[j] = "precommit"
    /\ job[j].phase \notin Terminal
    /\ "work" \in MayFail
    /\ run' = [run EXCEPT ![j] = "lost"]
    /\ UNCHANGED <<ledgers, effects, journaled, job, clients, queue, active, server, boot,
                   outcome, spent>>

Cancel(j) ==
    /\ server = "open"
    /\ \/ job[j].phase \in {"queued", "awaiting-confirmation"}
       \/ job[j].phase = "recover" /\ ~job[j].final
    /\ SetPhase(j, "cancelled")
    /\ UNCHANGED <<ledgers, effects, journaled, run, planned, queue, active, server, boot,
                   outcome, spent>>

ConfirmCommit(j) ==
    /\ server = "open"
    /\ job[j].phase = "awaiting-confirmation"
    /\ SetPhase(j, "commit")
    /\ run' = [run EXCEPT ![j] = "commit"]
    /\ UNCHANGED <<ledgers, effects, journaled, planned, queue, active, server, boot,
                   outcome, spent>>

Resume(j) ==
    /\ server = "open"
    /\ job[j].phase = "needs-attention"
    /\ job[j].final
    /\ SetPhase(j, "recover")
    /\ run' = [run EXCEPT ![j] = "commit"]
    /\ UNCHANGED <<ledgers, effects, journaled, planned, queue, active, server, boot,
                   outcome, spent>>

-----------------------------------------------------------------------------
(* #runCommit.                                                             *)

\* Mutant: the install is not waited for.
QueueInstallM(j) ==
    /\ run[j] = "commit"
    /\ Enqueue("install", j)
    /\ run' = [run EXCEPT ![j] = "applied"]
    /\ UNCHANGED <<ledgers, effects, journaled, job, clients, active, server, boot,
                   outcome, spent>>

QueueInstall(j) ==
    /\ run[j] = "commit"
    /\ Enqueue("install", j)
    /\ run' = [run EXCEPT ![j] = "install"]
    /\ UNCHANGED <<ledgers, effects, journaled, job, clients, active, server, boot,
                   outcome, spent>>

\* The install was applied: the job completes, then its journal is deleted.
Complete(j) ==
    /\ run[j] = "applied"
    /\ SetPhase(j, "complete")
    /\ Enqueue("finish", j)
    /\ run' = [run EXCEPT ![j] = "none"]
    /\ UNCHANGED <<ledgers, effects, journaled, planned, active, server, boot,
                   outcome, spent>>

\* Its work directory is not cleared, or its completion not written: the error
\* does not say that the transaction is durable.
CompleteFails(j) ==
    /\ run[j] = "applied"
    /\ Fails("work")
    /\ run' = [run EXCEPT ![j] = "refused"]
    /\ UNCHANGED <<ledgers, effects, journaled, job, clients, queue, active, server, boot,
                   outcome>>

\* Something threw; whether the error says that a journal is durable decides.
CommitFails(j) ==
    /\ run[j] \in {"durable", "refused"}
    /\ SetPhase(j, IF run[j] = "durable" THEN "needs-attention" ELSE "failed")
    /\ run' = [run EXCEPT ![j] = "none"]
    /\ UNCHANGED <<ledgers, effects, journaled, planned, queue, active, server, boot,
                   outcome, spent>>

\* Nor can that be written, and the error is swallowed as well.
CommitLost(j) ==
    /\ run[j] \in {"durable", "refused"}
    /\ "work" \in MayFail
    /\ run' = [run EXCEPT ![j] = "lost"]
    /\ UNCHANGED <<ledgers, effects, journaled, job, clients, queue, active, server, boot,
                   outcome, spent>>

-----------------------------------------------------------------------------
(* replan: one call of it for a job at a time.                             *)

Replan(j) ==
    /\ server = "open"
    /\ job[j].phase = "needs-attention"
    /\ job[j].final
    /\ replan[j].at = "none"
    /\ spent.replans < MaxReplans
    /\ spent' = [spent EXCEPT !.replans = @ + 1]
    /\ replan' = [replan EXCEPT ![j] = [at |-> "read", fresh |-> TRUE]]
    /\ UNCHANGED <<ledgers, effects, journaled, job, run, planned, queue, active, server,
                   boot, outcome>>

QueueAbandon(j) ==
    /\ replan[j].at = "read"
    /\ Enqueue("abandon", j)
    /\ replan' = [replan EXCEPT ![j].at = "queued"]
    /\ UNCHANGED <<ledgers, effects, journaled, job, run, planned, active, server, boot,
                   outcome, spent>>

\* The new plan is for the revision of the preflight, and is dropped when the
\* job has changed meanwhile.
Replanned(j) ==
    /\ replan[j].at = "plan"
    /\ IF CanPlan(j) /\ replan[j].fresh /\ job[j].phase = "needs-attention"
       THEN job' = [job EXCEPT ![j].phase = "awaiting-confirmation"]
       ELSE UNCHANGED job
    /\ replan' = [replan EXCEPT ![j] = [at |-> "none", fresh |-> FALSE]]
    /\ UNCHANGED <<ledgers, effects, journaled, run, planned, queue, active, server, boot,
                   outcome, spent>>

-----------------------------------------------------------------------------
(* removeMembership: reads, plans and journals on its own, then commits.   *)

PlanRemoval(x, r) ==
    /\ server = "open"
    /\ planned[x] = None
    /\ journal[x] = None
    /\ LedgersReadable
    /\ IsInstalled(installed, r)
    /\ Direct \in ownership.of[r]
    /\ RemovalJournal(r).drops \subseteq library
    /\ planned' = [planned EXCEPT ![x] = RemovalJournal(r)]
    /\ UNCHANGED <<ledgers, effects, journaled, job, run, replan, queue, active, server,
                   boot, outcome, spent>>

JournalRemoval(x) ==
    /\ planned[x] # None
    /\ server \in {"open", "closing"}
    /\ journal' = [journal EXCEPT ![x] = planned[x]]
    /\ Enqueue("remove", x)
    /\ planned' = [planned EXCEPT ![x] = None]
    /\ UNCHANGED <<ledgers, effects, torn, job, run, replan, active, server, boot,
                   outcome, spent>>

-----------------------------------------------------------------------------
(* #queue: the operation at its head runs when the one before it is over.  *)

TakeInstall ==
    /\ active = None
    /\ queue # <<>>
    /\ Head(queue).op = "install"
    /\ active' = [op |-> "install", txn |-> Head(queue).txn, step |-> "prepare", left |-> {}]
    /\ queue' = Tail(queue)
    /\ UNCHANGED <<ledgers, effects, journaled, job, run, clients, server, boot, outcome,
                   spent>>

TakeRemoval ==
    /\ active = None
    /\ queue # <<>>
    /\ Head(queue).op = "remove"
    /\ active' = [op |-> "remove", txn |-> Head(queue).txn, step |-> "check", left |-> {}]
    /\ queue' = Tail(queue)
    /\ UNCHANGED <<ledgers, effects, journaled, job, run, clients, server, boot, outcome,
                   spent>>

\* When the directory cannot be removed, the job is complete all the same; at
\* startup the error ends it, which is a Crash.
TakeFinish ==
    /\ active = None
    /\ queue # <<>>
    /\ Head(queue).op = "finish"
    /\ \/ /\ journal' = [journal EXCEPT ![Head(queue).txn] = None]
          /\ UNCHANGED spent
       \/ /\ server # "resuming"
          /\ Fails("work")
          /\ UNCHANGED journal
    /\ queue' = Tail(queue)
    /\ UNCHANGED <<ledgers, effects, torn, job, run, clients, active, server, boot,
                   outcome>>

\* Mutant: only the installed ledger is compared.
MayAbandonM(j) == journal[j] # None => installed = journal[j].base

MayAbandon(j) ==
    journal[j] # None => installed = journal[j].base /\ ownership = journal[j].obase

TakeAbandon ==
    /\ active = None
    /\ queue # <<>>
    /\ Head(queue).op = "abandon"
    /\ LET j == Head(queue).txn IN
        \/ /\ MayAbandon(j)
           /\ journal' = [journal EXCEPT ![j] = None]
           /\ replan' = [replan EXCEPT ![j].at = "plan"]
           /\ UNCHANGED spent
        \/ /\ IF MayAbandon(j) THEN Fails("work") ELSE UNCHANGED spent
           /\ replan' = [replan EXCEPT ![j] = [at |-> "none", fresh |-> FALSE]]
           /\ UNCHANGED journal
    /\ queue' = Tail(queue)
    /\ UNCHANGED <<ledgers, effects, torn, job, run, planned, active, server, boot,
                   outcome>>

-----------------------------------------------------------------------------
(* The steps of a transaction: install, remove, or replayed at startup.    *)

IsInstall == active.txn \in Job

At(step) == active # None /\ active.step = step

Go(step) == active' = [active EXCEPT !.step = step]

\* The journal a job already has is used again; otherwise it is written, if the
\* plan still holds.
Prepare ==
    /\ At("prepare")
    /\ LET j == active.txn IN
        IF journal[j] # None \/ CanPlan(j)
        THEN /\ IF journal[j] # None THEN UNCHANGED journal
                ELSE journal' = [journal EXCEPT ![j] = InstallJournal(j)]
             /\ Go("check")
             /\ UNCHANGED run
        ELSE /\ run' = [run EXCEPT ![j] = "refused"]
             /\ active' = None
             /\ UNCHANGED journal
    /\ UNCHANGED <<ledgers, effects, torn, job, clients, queue, server, boot, outcome,
                   spent>>

\* A transaction that throws: its job is told whether it got past preparation,
\* the caller of a removal gets the error, and startup ends.  The journal stays.
Throw ==
    /\ active' = None
    /\ run' = IF active.op # "install" THEN run
              ELSE [run EXCEPT ![active.txn] =
                      IF active.step = "prepare" THEN "refused" ELSE "durable"]
    /\ IF active.op = "replay"
       THEN server' = "down" /\ boot' = NoBoot
       ELSE UNCHANGED <<server, boot>>
    /\ UNCHANGED <<ledgers, effects, journaled, job, clients, queue, outcome>>

Check ==
    /\ At("check")
    /\ Replayable(active.txn)
    /\ active' = IF IsInstall
                 THEN [active EXCEPT !.step = "adapters",
                                     !.left = journal[active.txn].adds]
                 ELSE [active EXCEPT !.step = "ownership"]
    /\ UNCHANGED <<ledgers, effects, journaled, job, run, clients, queue, server, boot,
                   outcome, spent>>

CheckFails ==
    /\ At("check")
    /\ ~Replayable(active.txn)
    /\ Throw
    /\ UNCHANGED spent

WriteFails ==
    /\ active # None
    /\ active.step \notin {"check", "done"}
    /\ Fails("write")
    /\ Throw

\* Mutant: a receipt is published once its release is installed.
CommitAdapterM(r) ==
    /\ At("adapters")
    /\ r \in active.left
    /\ library' = library \cup {r}
    /\ receipts' = receipts
        \cup (IF IsInstalled(installed, r) THEN {<<active.txn, r>>} ELSE {})
    /\ active' = [active EXCEPT !.left = @ \ {r}]
    /\ UNCHANGED <<ledgers, provenance, journaled, job, run, clients, queue, server, boot,
                   outcome, spent>>

\* An adapter's operation, its completion marker and the receipt; replayed, the
\* adapter recovers what the marker says and the receipt is found published.
CommitAdapter(r) ==
    /\ At("adapters")
    /\ r \in active.left
    /\ library' = library \cup {r}
    /\ receipts' = receipts \cup {<<active.txn, r>>}
    /\ active' = [active EXCEPT !.left = @ \ {r}]
    /\ UNCHANGED <<ledgers, provenance, journaled, job, run, clients, queue, server, boot,
                   outcome, spent>>

AdaptersDone ==
    /\ At("adapters")
    /\ active.left = {}
    /\ Go("provenance")
    /\ UNCHANGED <<ledgers, effects, journaled, job, run, clients, queue, server, boot,
                   outcome, spent>>

PublishProvenance ==
    /\ At("provenance")
    /\ provenance' = provenance \cup Plan(active.txn)
    /\ Go("ownership")
    /\ UNCHANGED <<ledgers, receipts, library, journaled, job, run, clients, queue, server,
                   boot, outcome, spent>>

\* Published already when the transaction is run again after a failure there.
PublishOwnership ==
    /\ At("ownership")
    /\ ownership' = journal[active.txn].otarget
    /\ Go("installed")
    /\ UNCHANGED <<installed, effects, journaled, job, run, clients, queue, server, boot,
                   outcome, spent>>

PublishInstalled ==
    /\ At("installed")
    /\ installed' = journal[active.txn].target
    /\ active' = IF IsInstall THEN [active EXCEPT !.step = "done"]
                 ELSE [active EXCEPT !.step = "removals",
                                     !.left = journal[active.txn].drops]
    /\ outcome' = IF IsInstall
                  THEN [outcome EXCEPT ![active.txn] =
                          IF journal[active.txn].base = journal[active.txn].target
                          THEN "unchanged" ELSE "installed"]
                  ELSE outcome
    /\ UNCHANGED <<ownership, effects, journaled, job, run, clients, queue, server, boot,
                   spent>>

RemoveOwner(r) ==
    /\ At("removals")
    /\ r \in active.left
    /\ library' = library \ {r}
    /\ active' = [active EXCEPT !.left = @ \ {r}]
    /\ UNCHANGED <<ledgers, receipts, provenance, journaled, job, run, clients, queue,
                   server, boot, outcome, spent>>

\* Mutant: a removal that was replayed is reported as the result of a job.
RemovalsDoneM ==
    /\ At("removals")
    /\ active.left = {}
    /\ journal' = [journal EXCEPT ![active.txn] = None]
    /\ active' = None
    /\ boot' = [boot EXCEPT !.journals = @ \ {active.txn},
                             !.results = @ \cup {active.txn}]
    /\ UNCHANGED <<ledgers, effects, torn, job, run, clients, queue, server, outcome,
                   spent>>

\* The journal of a removal is deleted here, that of a job when it is complete.
RemovalsDone ==
    /\ At("removals")
    /\ active.left = {}
    /\ journal' = [journal EXCEPT ![active.txn] = None]
    /\ active' = None
    /\ boot' = [boot EXCEPT !.journals = @ \ {active.txn}]
    /\ UNCHANGED <<ledgers, effects, torn, job, run, clients, queue, server, outcome,
                   spent>>

InstallDone ==
    /\ At("done")
    /\ active' = None
    /\ IF active.op = "replay"
       THEN /\ boot' = [boot EXCEPT !.journals = @ \ {active.txn},
                                    !.results = @ \cup {active.txn}]
            /\ UNCHANGED run
       ELSE /\ run' = [run EXCEPT ![active.txn] = "applied"]
            /\ UNCHANGED boot
    /\ UNCHANGED <<ledgers, effects, journaled, job, clients, queue, server, outcome, spent>>

-----------------------------------------------------------------------------
(* The life of the process.                                                *)

Stops ==
    /\ run' = [j \in Job |-> "none"]
    /\ replan' = [j \in Job |-> [at |-> "none", fresh |-> FALSE]]
    /\ planned' = [x \in Remover |-> None]
    /\ queue' = <<>>
    /\ active' = None
    /\ server' = "down"
    /\ boot' = NoBoot
    /\ UNCHANGED <<ledgers, effects, journal, job, outcome>>

\* The transaction whose directory is being removed, file by file.
Deleting ==
    {t \in Txn :
        /\ journal[t] # None
        /\ \/ At("removals") /\ active.left = {} /\ active.txn = t
           \/ /\ active = None
              /\ queue # <<>>
              /\ Head(queue).txn = t
              /\ \/ Head(queue).op = "finish"
                 \/ Head(queue).op = "abandon" /\ MayAbandon(t)}

\* A directory deleted in part may still hold its journal.
Crash ==
    /\ server # "down"
    /\ spent.restarts < MaxRestarts
    /\ spent' = [spent EXCEPT !.restarts = @ + 1]
    /\ Stops
    /\ \/ UNCHANGED torn
       \/ \E t \in Deleting : torn' = torn \cup {t}

Close ==
    /\ server = "open"
    /\ spent.restarts < MaxRestarts
    /\ spent' = [spent EXCEPT !.restarts = @ + 1]
    /\ server' = "closing"
    /\ UNCHANGED <<ledgers, effects, journaled, job, run, clients, queue, active, boot,
                   outcome>>

\* Durable commits are waited for, never cancelled.
Closed ==
    /\ server = "closing"
    /\ \A j \in Job : run[j] \in {"none", "lost"}
    /\ queue = <<>>
    /\ active = None
    /\ Stops
    /\ UNCHANGED <<torn, spent>>

\* recoverPending goes through the journals in the order of random names.
Open ==
    /\ server = "down"
    /\ server' = "replaying"
    /\ boot' = [journals |-> {t \in Txn : journal[t] # None}, jobs |-> {}, results |-> {}]
    /\ UNCHANGED <<ledgers, effects, journaled, job, run, clients, queue, active, outcome,
                   spent>>

ReplayNext(t) ==
    /\ server = "replaying"
    /\ active = None
    /\ t \in boot.journals
    /\ active' = [op |-> "replay", txn |-> t, step |-> "check", left |-> {}]
    /\ UNCHANGED <<ledgers, effects, journaled, job, run, clients, queue, server, boot,
                   outcome, spent>>

\* The ledgers are compared once every journal has been replayed.
Replayed ==
    /\ server = "replaying"
    /\ active = None
    /\ boot.journals = {}
    /\ IF LedgersReadable
       THEN /\ server' = "resuming"
            /\ boot' = [boot EXCEPT !.jobs = {j \in Job : job[j].phase # "new"}]
       ELSE server' = "down" /\ boot' = NoBoot
    /\ UNCHANGED <<ledgers, effects, journaled, job, run, clients, queue, active, outcome,
                   spent>>

\* Mutant: a job that was committing is left as it was found.
RecoverJobM(j) ==
    /\ server = "resuming"
    /\ j \in boot.jobs
    /\ \A k \in boot.results \ boot.jobs : journal[k] = None
    /\ boot' = [boot EXCEPT !.jobs = @ \ {j}]
    /\ IF j \in boot.results
       THEN /\ IF job[j].phase = "complete" THEN UNCHANGED <<job, replan>>
               ELSE SetPhase(j, "complete")
            /\ Enqueue("finish", j)
            /\ UNCHANGED run
       ELSE /\ IF job[j].phase \in {"queued", "recover"}
               THEN /\ SetPhase(j, "recover")
                    /\ run' = [run EXCEPT ![j] =
                                 IF job[j].phase # "queued" /\ job[j].final
                                 THEN "commit" ELSE "precommit"]
               ELSE UNCHANGED <<job, replan, run>>
            /\ UNCHANGED queue
    /\ UNCHANGED <<ledgers, effects, journaled, planned, active, server, outcome, spent>>

\* recover, one job after the other: a replayed one is complete and its journal
\* deleted before the next; a confirmed one commits, an earlier one is planned
\* again.  A startup that fails in here is a Crash.
RecoverJob(j) ==
    /\ server = "resuming"
    /\ j \in boot.jobs
    /\ \A k \in boot.results \ boot.jobs : journal[k] = None
    /\ boot' = [boot EXCEPT !.jobs = @ \ {j}]
    /\ IF j \in boot.results
       THEN /\ IF job[j].phase = "complete" THEN UNCHANGED <<job, replan>>
               ELSE SetPhase(j, "complete")
            /\ Enqueue("finish", j)
            /\ UNCHANGED run
       ELSE /\ IF job[j].phase \in {"queued", "commit", "recover"}
               THEN /\ SetPhase(j, "recover")
                    /\ run' = [run EXCEPT ![j] =
                                 IF job[j].phase # "queued" /\ job[j].final
                                 THEN "commit" ELSE "precommit"]
               ELSE UNCHANGED <<job, replan, run>>
            /\ UNCHANGED queue
    /\ UNCHANGED <<ledgers, effects, journaled, planned, active, server, outcome, spent>>

Opened ==
    /\ server = "resuming"
    /\ boot.jobs = {}
    /\ \A k \in boot.results : journal[k] = None
    /\ server' = "open"
    /\ boot' = NoBoot
    /\ UNCHANGED <<ledgers, effects, journaled, job, run, clients, queue, active, outcome,
                   spent>>

-----------------------------------------------------------------------------
Init ==
    /\ installed = [rev |-> 0, by |-> [r \in Release |-> None]]
    /\ ownership = [rev |-> 0, of |-> [r \in Release |-> {}]]
    /\ journal = [t \in Txn |-> None]
    /\ torn = {}
    /\ receipts = {}
    /\ library = {}
    /\ provenance = {}
    /\ job = [j \in Job |-> [phase |-> "new", final |-> FALSE, pinned |-> 0]]
    /\ run = [j \in Job |-> "none"]
    /\ replan = [j \in Job |-> [at |-> "none", fresh |-> FALSE]]
    /\ planned = [x \in Remover |-> None]
    /\ queue = <<>>
    /\ active = None
    /\ server = "down"
    /\ boot = NoBoot
    /\ outcome = [j \in Job |-> "none"]
    /\ spent = [failures |-> 0, restarts |-> 0, replans |-> 0]

Clients ==
    \/ \E j \in Job : Start(j) \/ ConfirmCommit(j) \/ Cancel(j) \/ Resume(j) \/ Replan(j)
    \/ \E x \in Remover, r \in Release : PlanRemoval(x, r)

Jobs ==
    \E j \in Job :
        \/ Planned(j) \/ PrecommitEnds(j) \/ PrecommitLost(j)
        \/ QueueInstall(j) \/ Complete(j) \/ CompleteFails(j)
        \/ CommitFails(j) \/ CommitLost(j) \/ QueueAbandon(j) \/ Replanned(j)

Transactions ==
    \/ TakeInstall \/ TakeRemoval \/ TakeFinish \/ TakeAbandon
    \/ Prepare \/ Check \/ CheckFails \/ WriteFails
    \/ \E r \in Release : CommitAdapter(r) \/ RemoveOwner(r)
    \/ AdaptersDone \/ PublishProvenance \/ PublishOwnership \/ PublishInstalled
    \/ RemovalsDone \/ InstallDone
    \/ \E x \in Remover : JournalRemoval(x)

Process ==
    \/ Crash \/ Close \/ Closed \/ Open \/ Replayed \/ Opened
    \/ \E t \in Txn : ReplayNext(t)
    \/ \E j \in Job : RecoverJob(j)

Next == Clients \/ Jobs \/ Transactions \/ Process

Spec == Init /\ [][Next]_vars

\* The event loop runs what is ready, and somebody starts the process again.
\* Nothing is assumed of the callers.
Fairness ==
    /\ WF_vars(Transactions)
    /\ \A j \in Job :
        /\ WF_vars(QueueInstall(j) \/ Complete(j) \/ CommitFails(j))
        /\ WF_vars(Planned(j) \/ PrecommitEnds(j))
    /\ WF_vars(Open \/ Replayed \/ Opened \/ Closed)
    /\ WF_vars(\E t \in Txn : ReplayNext(t))
    /\ \A j \in Job : WF_vars(RecoverJob(j))

FairSpec == Spec /\ Fairness

-----------------------------------------------------------------------------
(* Properties.                                                             *)

\* A release in the installed ledger is backed: the receipt its entry names is
\* published, its adapter's effect is in the library, and its origin is
\* recorded, across crashes, replays and removals.
InstalledIsBacked ==
    \A r \in Release : IsInstalled(installed, r) =>
        /\ <<installed.by[r], r>> \in receipts
        /\ r \in library
        /\ r \in provenance

\* Whenever the two ledgers differ, a journal on disk has published its owners
\* and not yet its releases; and once startup has replayed every journal, in
\* whatever order, they agree, so that the comparison that follows never fails.
LedgersExplained ==
    /\ \/ LedgersReadable
       \/ \E t \in Txn : /\ journal[t] # None
                         /\ installed = journal[t].base
                         /\ ownership = journal[t].otarget
    /\ server = "replaying" /\ active = None /\ boot.journals = {}
        => LedgersReadable

\* What a job says of itself is what became of its transaction: a complete one
\* was applied, one that was cancelled or may still be never was, and one that
\* says it failed although its releases are installed still has the journal
\* from which the next start completes it.
OutcomeIsTrue ==
    \A j \in Job :
        /\ job[j].phase = "complete" => outcome[j] # "none"
        /\ job[j].phase \in {"queued", "awaiting-confirmation", "cancelled"}
            => outcome[j] # "installed"
        /\ job[j].phase = "failed" /\ outcome[j] = "installed" => journal[j] # None

\* A job that was confirmed, or is recovered, completes, fails or asks for
\* attention, however often the process stops, unless its outcome could not be
\* written (then at the next start), or the process cannot start again because
\* of a journal that can no longer be replayed.
ConfirmedJobsSettle ==
    \A j \in Job :
        job[j].final /\ job[j].phase \in {"commit", "recover"}
            ~> \/ job[j].phase \in {"complete", "failed", "needs-attention"}
               \/ run[j] = "lost"
               \/ server = "down" /\ \E t \in Txn : journal[t] # None /\ ~Replayable(t)

\* When nothing runs any more, every journal that is left can be replayed, so
\* that the next start rolls it forward.
StartupRollsForward ==
    /\ active = None /\ queue = <<>>
    /\ \A j \in Job : run[j] \in {"none", "lost"}
    /\ \A x \in Remover : planned[x] = None
    => \A t \in Txn : journal[t] # None => Replayable(t)

=============================================================================
