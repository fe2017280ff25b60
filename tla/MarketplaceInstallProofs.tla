---------------------- MODULE MarketplaceInstallProofs ----------------------
(***************************************************************************)
(* Proofs about installing and removing marketplace releases, whatever     *)
(* they require of each other and however many jobs, removals, failures,   *)
(* restarts and calls of replan there are.                                 *)
(***************************************************************************)
EXTENDS MarketplaceInstall, TLAPS

\* The tuple of what is journaled is an abbreviation, and always expanded.
USE DEF journaled

(* The inductive invariant *)

\* What a transaction's journal says: two states of the ledgers that agree, the
\* second later than the first or the same.
GoodJournal(t, d) ==
    /\ d \in Journal
    /\ Agree(d.base, d.obase) /\ Agree(d.target, d.otarget)
    /\ \/ d.target = d.base /\ d.otarget = d.obase
       \/ d.base.rev < d.target.rev
    /\ t \in Job =>
         /\ d.adds \subseteq Plan(t)
         /\ \A r \in Release : d.target.by[r] = IF r \in d.adds THEN t ELSE d.base.by[r]
    /\ t \in Remover =>
         /\ \A r \in Release : d.target.by[r] \in {None, d.base.by[r]}
         /\ \A r \in d.drops : d.target.by[r] = None

Journals ==
    /\ \A t \in Txn : journal[t] # None => GoodJournal(t, journal[t])
    /\ \A x \in Remover : planned[x] # None => GoodJournal(x, planned[x]) /\ journal[x] = None

Explains(t) ==
    journal[t] # None /\ installed = journal[t].base /\ ownership = journal[t].otarget

\* During startup it is one of the journals that are still to be replayed.
Explained ==
    /\ LedgersReadable \/ \E t \in Txn : Explains(t)
    /\ server = "replaying" => LedgersReadable \/ \E t \in boot.journals : Explains(t)

\* The journal of t has been published, now or before.
Published(t) == journal[t] # None => journal[t].target.rev <= installed.rev

\* Where the transaction that runs has come.
Running ==
    active # None =>
       LET t == active.txn
           d == journal[t]
       IN
       /\ active.op = "install" => t \in Job /\ run[t] = "install"
       /\ active.op = "remove" => t \in Remover
       /\ active.op = "replay" => server = "replaying" /\ t \in boot.journals
       /\ active.step = "prepare" => active.op = "install"
       /\ active.step \in {"adapters", "provenance", "done"} => t \in Job
       /\ active.step = "removals" => t \in Remover
       /\ active.step \notin {"prepare", "check"} => CanApply(t)
       /\ active.step = "adapters" => active.left \subseteq d.adds
       /\ active.step = "removals" => active.left \subseteq d.drops
       /\ active.step = "installed" => ownership = d.otarget
       /\ active.step \in {"removals", "done"} => installed = d.target /\ ownership = d.otarget
       /\ active.step = "done" => outcome[t] # "none"

\* What an installation has put in place before it publishes the ledgers.
Committed ==
    active # None =>
       LET t == active.txn IN
       /\ t \in Job /\ active.step \in {"adapters", "provenance", "ownership", "installed"} =>
            \A r \in journal[t].adds :
               (active.step = "adapters" /\ r \in active.left) \/ (<<t, r>> \in receipts /\ r \in library)
       /\ t \in Job /\ active.step \in {"ownership", "installed"} => Plan(t) \subseteq provenance

Queued ==
    \A i \in 1..Len(queue) :
       LET t == queue[i].txn IN
       /\ queue[i].op # "remove" => t \in Job
       /\ queue[i].op = "remove" => t \in Remover
       /\ queue[i].op = "install" =>
            /\ run[t] = "install"
            /\ active = None \/ active.op # "install" \/ active.txn # t
            /\ \A k \in 1..Len(queue) : queue[k].op = "install" /\ queue[k].txn = t => k = i
       /\ queue[i].op = "finish" => job[t].phase = "complete" /\ Published(t)

\* What starts again with the process, and what startup still has to do.
Startup ==
    /\ server \in {"down", "replaying"} =>
         /\ queue = <<>>
         /\ \A j \in Job : run[j] = "none" /\ replan[j].at = "none" /\ ~replan[j].fresh
         /\ \A x \in Remover : planned[x] = None
    /\ server = "down" => active = None
    /\ server = "replaying" /\ active # None => active.op = "replay"
    /\ server \in {"down", "open", "closing"} => boot = NoBoot
    /\ \A j \in boot.jobs \cup boot.results : run[j] = "none"
    /\ \A j \in boot.results : outcome[j] # "none" /\ Published(j)

ReplanRecords == [Job -> [at : {"none", "read", "queued", "plan"}, fresh : BOOLEAN]]

Confirmed == {"commit", "install", "applied", "durable", "refused"}

\* The phase of a job, what runs for it, its journal and its call of replan.
Phases ==
    \A j \in Job :
       /\ job[j].phase \in {"new", "queued"} => ~job[j].final
       /\ job[j].phase \in {"awaiting-confirmation", "commit", "needs-attention"} => job[j].final
       /\ run[j] = "precommit" =>
            job[j].phase \in Terminal \/ (job[j].phase \in {"queued", "recover"} /\ ~job[j].final)
       /\ run[j] \in Confirmed => job[j].phase \in {"commit", "recover"} /\ job[j].final
       /\ run[j] = "lost" => job[j].phase \in {"queued", "commit", "recover", "cancelled"}
       /\ run[j] = "applied" => outcome[j] # "none" /\ Published(j)
       /\ journal[j] # None =>
            /\ job[j].phase \in {"commit", "recover", "needs-attention", "failed", "complete"}
            /\ job[j].final
       /\ replan[j].fresh => job[j].phase = "needs-attention" /\ run[j] = "none"
       /\ replan[j].fresh /\ replan[j].at = "plan" => journal[j] = None

\* What is installed is complete, or its journal is there to complete it.
Outcomes ==
    \A j \in Job :
       /\ job[j].phase = "complete" => outcome[j] # "none"
       /\ outcome[j] = "installed" /\ job[j].phase # "complete" => journal[j] # None
       /\ outcome[j] = "installed" /\ journal[j] # None =>
            journal[j].base.rev < journal[j].target.rev /\ Published(j)

Inductive ==
    /\ TypeOK /\ Journals /\ InstalledIsBacked /\ Explained
    /\ Running /\ Committed /\ Queued /\ Startup /\ Phases /\ Outcomes

-----------------------------------------------------------------------------
(* The queue.                                                              *)

LEMMA AppendQueue ==
    ASSUME NEW S, NEW q \in Seq(S), NEW e \in S
    PROVE  /\ Append(q, e) \in Seq(S) /\ Len(q) \in Nat /\ Len(Append(q, e)) = Len(q) + 1
           /\ \A i \in 1..Len(q) : Append(q, e)[i] = q[i]
           /\ Append(q, e)[Len(q) + 1] = e
OBVIOUS

LEMMA TailQueue ==
    ASSUME NEW S, NEW q \in Seq(S), q # <<>>
    PROVE  /\ Tail(q) \in Seq(S) /\ Len(q) \in Nat \ {0} /\ Len(Tail(q)) = Len(q) - 1
           /\ Head(q) = q[1] /\ Head(q) \in S
           /\ \A i \in 1..Len(Tail(q)) : Tail(q)[i] = q[i + 1]
OBVIOUS

-----------------------------------------------------------------------------
(* The plan of an installation, and what a removal takes with it.          *)

\* What is planned was asked for, or a planned collection requires it.
LEMMA PlanIsRequired ==
    ASSUME NEW j \in Job
    PROVE  /\ Plan(j) \subseteq Release /\ Root[j] \in Plan(j)
           /\ \A r \in Plan(j) : r = Root[j] \/ \E c \in Plan(j) : r \in Members[c]
<1> DEFINE Closed1(S) == Root[j] \in S /\ \A c \in S : Members[c] \subseteq S
<1>1. \A r \in Release : r \in Plan(j) <=> \A S \in SUBSET Release : Closed1(S) => r \in S
  BY DEF Plan
<1>2. Plan(j) \subseteq Release /\ Root[j] \in Release
  BY MarketplaceAssumption DEF Plan
<1>3. Root[j] \in Plan(j)
  BY <1>1, <1>2
<1>4. \A c \in Plan(j) : Members[c] \subseteq Plan(j)
  BY <1>1, <1>2, MarketplaceAssumption
<1>5. ASSUME NEW r \in Plan(j), r # Root[j], \A c \in Plan(j) : r \notin Members[c]
      PROVE  FALSE
  <2>1. Closed1(Plan(j) \ {r}) /\ Plan(j) \ {r} \in SUBSET Release
    BY <1>2, <1>3, <1>4, <1>5
  <2> QED
    BY <1>1, <1>2, <2>1
<1> QED
  BY <1>2, <1>3, <1>5

\* What is left behind has an owner that is left behind.
LEMMA OrphansAreClosed ==
    ASSUME NEW owners \in [Release -> SUBSET Owner]
    PROVE  /\ Orphans(owners) \subseteq Release
           /\ \A r \in Release : r \in Orphans(owners) <=> owners[r] \subseteq Orphans(owners)
<1>1. \A r : r \in Orphans(owners) <=>
         \E S \in SUBSET Release : r \in S /\ \A s \in S : owners[s] \subseteq S
  BY DEF Orphans
<1> HIDE DEF Orphans
<1>2. Orphans(owners) \subseteq Release
  BY <1>1
<1>3. \A r \in Orphans(owners) : owners[r] \subseteq Orphans(owners)
  BY <1>1
<1>4. ASSUME NEW r \in Release, owners[r] \subseteq Orphans(owners)
      PROVE  r \in Orphans(owners)
  <2> DEFINE S == Orphans(owners) \cup {r}
  <2>1. S \in SUBSET Release /\ r \in S /\ \A s \in S : owners[s] \subseteq S
    BY <1>2, <1>3, <1>4
  <2> QED
    BY <1>1, <2>1
<1> QED
  BY <1>2, <1>3, <1>4

-----------------------------------------------------------------------------
(* The journals.                                                           *)

LEMMA InstallJournalIsGood ==
    ASSUME NEW j \in Job, installed \in Installed, ownership \in Ownership, LedgersReadable
    PROVE  GoodJournal(j, InstallJournal(j))
<1> DEFINE owners == [r \in Release |-> ownership.of[r] \cup PlannedOwners(j, r)]
           adds == Additions(j)
           rev == IF owners # ownership.of \/ adds # {} THEN installed.rev + 1 ELSE installed.rev
           by == [r \in Release |-> IF r \in adds THEN j ELSE installed.by[r]]
           d == InstallJournal(j)
<1>1. /\ installed.rev \in Nat /\ installed.by \in [Release -> Job \cup {None}]
      /\ ownership.rev \in Nat /\ ownership.of \in [Release -> SUBSET Owner]
      /\ installed = [rev |-> installed.rev, by |-> installed.by]
      /\ ownership = [rev |-> ownership.rev, of |-> ownership.of]
  BY DEF Installed, Ownership
<1>2. /\ d.base = installed /\ d.obase = ownership /\ d.adds = adds /\ d.drops = {}
      /\ d.target = [rev |-> rev, by |-> by] /\ d.otarget = [rev |-> rev, of |-> owners]
      /\ d = [base |-> d.base, target |-> d.target, obase |-> d.obase, otarget |-> d.otarget,
              adds |-> d.adds, drops |-> d.drops]
  BY DEF InstallJournal
<1>3. /\ \A r \in Release : PlannedOwners(j, r) \subseteq Owner
      /\ \A r \in Release : r \notin Plan(j) => PlannedOwners(j, r) = {}
      /\ \A r \in Plan(j) : PlannedOwners(j, r) # {}
      /\ \A r \in Release : PlannedOwners(j, r) \subseteq Plan(j) \cup {Direct}
  BY PlanIsRequired DEF PlannedOwners, Owner
<1>4. adds \subseteq Plan(j) /\ Plan(j) \subseteq Release
      /\ \A r \in Release : r \in adds <=> r \in Plan(j) /\ installed.by[r] = None
  BY PlanIsRequired DEF Additions, IsInstalled
<1>5. /\ rev \in Nat /\ by \in [Release -> Job \cup {None}] /\ owners \in [Release -> SUBSET Owner]
  BY <1>1, <1>3
<1>6. d \in Journal
  <2>1. d.target \in Installed /\ d.otarget \in Ownership
    BY <1>2, <1>5 DEF Installed, Ownership
  <2> HIDE DEF d, owners, by, rev
  <2>2. adds \subseteq Release
    BY <1>4
  <2> QED
    BY <1>2, <2>1, <2>2 DEF Journal
<1>7. Agree(d.base, d.obase)
  BY <1>2 DEF LedgersReadable
<1>8. Agree(d.target, d.otarget)
  <2>1. \A r \in Release : /\ installed.by[r] # None <=> ownership.of[r] # {}
                           /\ \A c \in ownership.of[r] \ {Direct} : ownership.of[c] # {}
    BY DEF LedgersReadable, Agree, IsInstalled
  <2>2. \A r \in Release : by[r] # None <=> owners[r] # {}
    BY <1>3, <1>4, <2>1, MarketplaceAssumption
  <2>3. ASSUME NEW r \in Release, NEW c \in owners[r] \ {Direct}
        PROVE  owners[c] # {}
    <3>1. c \in Release
      BY <1>5, <2>3 DEF Owner
    <3> QED
      BY <1>3, <2>1, <2>3, <3>1
  <2> HIDE DEF d, owners, by, rev
  <2> QED
    BY <1>2, <2>2, <2>3 DEF Agree, IsInstalled
<1>9. (d.target = d.base /\ d.otarget = d.obase) \/ d.base.rev < d.target.rev
  <2>1. CASE owners # ownership.of \/ adds # {}
    BY <1>1, <1>2, <2>1
  <2>2. CASE owners = ownership.of /\ adds = {}
    <3>1. by = installed.by /\ rev = installed.rev /\ installed.rev = ownership.rev
      BY <1>1, <2>2 DEF LedgersReadable, Agree
    <3> QED
      BY <1>1, <1>2, <2>2, <3>1
  <2> QED
    BY <2>1, <2>2
<1>10. \A r \in Release : d.target.by[r] = IF r \in d.adds THEN j ELSE d.base.by[r]
  BY <1>2
<1>11. j \notin Remover
  BY MarketplaceAssumption
<1> HIDE DEF owners, adds, rev, by
<1> QED
  BY <1>2, <1>4, <1>6, <1>7, <1>8, <1>9, <1>10, <1>11 DEF GoodJournal

LEMMA RemovalJournalIsGood ==
    ASSUME NEW x \in Remover, NEW r \in Release,
           installed \in Installed, ownership \in Ownership, LedgersReadable
    PROVE  GoodJournal(x, RemovalJournal(r))
<1> DEFINE owners == [ownership.of EXCEPT ![r] = @ \ {Direct}]
           gone == Orphans(owners)
           rev == ownership.rev + 1
           by == [s \in Release |-> IF s \in gone THEN None ELSE installed.by[s]]
           of == [s \in Release |-> IF s \in gone THEN {} ELSE owners[s] \ gone]
           drops == {s \in gone \cap Removable : IsInstalled(installed, s)}
           d == RemovalJournal(r)
<1>1. /\ installed.rev \in Nat /\ installed.by \in [Release -> Job \cup {None}]
      /\ ownership.rev \in Nat /\ ownership.of \in [Release -> SUBSET Owner]
      /\ ownership.rev = installed.rev
  BY DEF Installed, Ownership, LedgersReadable, Agree
<1>2. /\ d.base = installed /\ d.obase = ownership /\ d.adds = {} /\ d.drops = drops
      /\ d.target = [rev |-> rev, by |-> by] /\ d.otarget = [rev |-> rev, of |-> of]
      /\ d = [base |-> d.base, target |-> d.target, obase |-> d.obase, otarget |-> d.otarget,
              adds |-> d.adds, drops |-> d.drops]
  BY DEF RemovalJournal
<1>3. /\ owners \in [Release -> SUBSET Owner]
      /\ \A s \in Release : owners[s] \subseteq ownership.of[s]
  BY <1>1
<1> HIDE DEF owners
<1>4. gone \subseteq Release /\ \A s \in Release : s \in gone <=> owners[s] \subseteq gone
  BY <1>3, OrphansAreClosed
<1> HIDE DEF gone
<1>5. rev \in Nat /\ by \in [Release -> Job \cup {None}] /\ of \in [Release -> SUBSET Owner]
  BY <1>1, <1>3
<1>6. drops \subseteq gone
  OBVIOUS
<1>7. d \in Journal
  <2>1. d.target \in Installed /\ d.otarget \in Ownership
    BY <1>2, <1>5 DEF Installed, Ownership
  <2> HIDE DEF d, drops
  <2> QED
    BY <1>2, <1>4, <1>6, <2>1 DEF Journal
<1>8. Agree(d.base, d.obase)
  BY <1>2 DEF LedgersReadable
<1>9. Agree(d.target, d.otarget)
  <2>1. \A s \in Release : /\ installed.by[s] # None <=> ownership.of[s] # {}
                           /\ \A c \in ownership.of[s] \ {Direct} : ownership.of[c] # {}
    BY DEF LedgersReadable, Agree, IsInstalled
  <2>2. \A s \in Release : s \notin gone => owners[s] \ gone # {}
    BY <1>4
  <2>3. \A s \in Release : by[s] # None <=> of[s] # {}
    BY <1>3, <2>1, <2>2
  <2>4. ASSUME NEW s \in Release, NEW c \in of[s] \ {Direct}
        PROVE  of[c] # {}
    <3>1. c \in Release /\ c \notin gone
      BY <1>5, <2>4 DEF Owner
    <3> QED
      BY <2>2, <3>1
  <2> HIDE DEF d, by, of
  <2> QED
    BY <1>2, <2>3, <2>4 DEF Agree, IsInstalled
<1>10. d.base.rev < d.target.rev
  BY <1>1, <1>2
<1>11. \A s \in Release : d.target.by[s] \in {None, d.base.by[s]}
  BY <1>2
<1>12. \A s \in d.drops : d.target.by[s] = None
  BY <1>2, <1>4, <1>6
<1>13. x \notin Job
  BY MarketplaceAssumption
<1> HIDE DEF rev, by, of, drops
<1> QED
  BY <1>7, <1>8, <1>9, <1>10, <1>11, <1>12, <1>13 DEF GoodJournal

-----------------------------------------------------------------------------
(* What a step does to a job, and what it leaves.                          *)

\* The job j gets a phase, and what was decided on it before is out of date.
Moves(j, phase, final) ==
    /\ job' \in [Job -> JobRecord] /\ replan' \in ReplanRecords
    /\ job'[j].phase = phase /\ job'[j].final = final
    /\ replan'[j].at = replan[j].at /\ replan'[j].fresh = FALSE
    /\ \A k \in Job \ {j} : job'[k] = job[k] /\ replan'[k] = replan[k]

LEMMA UpdateMoves ==
    ASSUME TypeOK, NEW j \in Job, NEW fields \in JobRecord, Update(j, fields)
    PROVE  Moves(j, fields.phase, fields.final)
<1>1. job \in [Job -> JobRecord] /\ replan \in ReplanRecords
  BY DEF TypeOK, ReplanRecords
<1>2. job' = [job EXCEPT ![j] = fields]
  BY DEF Update
<1>3. replan' = [replan EXCEPT ![j] = [replan[j] EXCEPT !.fresh = FALSE]]
  BY DEF Update
<1>4. replan[j] \in [at : {"none", "read", "queued", "plan"}, fresh : BOOLEAN]
  BY <1>1 DEF ReplanRecords
<1> DEFINE next == [replan[j] EXCEPT !.fresh = FALSE]
<1>5. /\ next \in [at : {"none", "read", "queued", "plan"}, fresh : BOOLEAN]
      /\ next.at = replan[j].at /\ next.fresh = FALSE
  BY <1>4
<1> HIDE DEF next
<1>6. replan' = [replan EXCEPT ![j] = next]
  BY <1>3 DEF next
<1> QED
  BY <1>1, <1>2, <1>5, <1>6 DEF Moves, ReplanRecords

LEMMA SetPhaseMoves ==
    ASSUME TypeOK, NEW j \in Job, NEW phase \in Phase, SetPhase(j, phase)
    PROVE  Moves(j, phase, job[j].final)
<1> DEFINE fields == [job[j] EXCEPT !.phase = phase]
<1>1. job[j] \in JobRecord
  BY DEF TypeOK
<1>2. fields \in JobRecord /\ fields.phase = phase /\ fields.final = job[j].final
  BY <1>1 DEF JobRecord
<1>3. Update(j, fields)
  BY DEF SetPhase
<1> HIDE DEF fields
<1> QED
  BY <1>2, <1>3, UpdateMoves

\* A journal that was written has its fields.
LEMMA JournalFields ==
    ASSUME TypeOK, NEW t \in Txn, journal[t] # None
    PROVE  /\ journal[t] \in Journal
           /\ journal[t].base \in Installed /\ journal[t].target \in Installed
           /\ journal[t].obase \in Ownership /\ journal[t].otarget \in Ownership
           /\ journal[t].adds \subseteq Release /\ journal[t].drops \subseteq Release
<1>1. journal[t] \in Journal
  BY DEF TypeOK
<1> QED
  BY <1>1 DEF Journal

LEMMA EnqueueMoves ==
    ASSUME TypeOK, NEW op \in {"install", "remove", "finish", "abandon"}, NEW t \in Txn,
           Enqueue(op, t)
    PROVE  /\ queue' \in Seq(Operation) /\ Len(queue) \in Nat /\ Len(queue') = Len(queue) + 1
           /\ \A i \in 1..Len(queue) : queue'[i] = queue[i]
           /\ queue'[Len(queue) + 1].op = op /\ queue'[Len(queue) + 1].txn = t
<1> DEFINE e == [op |-> op, txn |-> t]
<1>1. e \in Operation /\ e.op = op /\ e.txn = t
  BY DEF Operation
<1>2. queue \in Seq(Operation) /\ queue' = Append(queue, e)
  BY DEF TypeOK, Enqueue
<1> HIDE DEF e
<1> QED
  BY <1>1, <1>2, AppendQueue

LEMMA DequeueMoves ==
    ASSUME TypeOK, queue # <<>>
    PROVE  /\ Tail(queue) \in Seq(Operation) /\ Len(queue) \in Nat \ {0}
           /\ Len(Tail(queue)) = Len(queue) - 1
           /\ Head(queue) = queue[1] /\ Head(queue) \in Operation /\ Head(queue).txn \in Txn
           /\ \A i \in 1..Len(Tail(queue)) : Tail(queue)[i] = queue[i + 1]
<1>1. queue \in Seq(Operation)
  BY DEF TypeOK
<1>2. \A o \in Operation : o.txn \in Txn
  BY DEF Operation
<1> QED
  BY <1>1, <1>2, TailQueue

\* A call of replan whose operation on the queue has run.
LEMMA AbandonMoves ==
    ASSUME TypeOK, NEW j \in Job, replan' = [replan EXCEPT ![j].at = "plan"]
    PROVE  /\ replan' \in ReplanRecords
           /\ replan'[j].at = "plan" /\ replan'[j].fresh = replan[j].fresh
           /\ \A k \in Job \ {j} : replan'[k] = replan[k]
<1>1. replan \in ReplanRecords /\ replan[j] \in [at : {"none", "read", "queued", "plan"}, fresh : BOOLEAN]
  BY DEF TypeOK, ReplanRecords
<1> DEFINE next == [replan[j] EXCEPT !.at = "plan"]
<1>2. /\ next \in [at : {"none", "read", "queued", "plan"}, fresh : BOOLEAN]
      /\ next.at = "plan" /\ next.fresh = replan[j].fresh
  BY <1>1
<1>3. replan' = [replan EXCEPT ![j] = next]
  OBVIOUS
<1> HIDE DEF next
<1> QED
  BY <1>1, <1>2, <1>3 DEF ReplanRecords

-----------------------------------------------------------------------------
(* The type invariant.                                                     *)

LEMMA TypesStart == Init => TypeOK
BY MarketplaceAssumption DEF Init, TypeOK, Installed, Ownership, JobRecord, Phase, Terminal, NoBoot

\* The operation that runs, in a step of its kind.
LEMMA ActiveMoves ==
    ASSUME TypeOK, active # None
    PROVE  /\ active \in Active /\ active.txn \in Txn
           /\ \A s \in Step : LET a == [active EXCEPT !.step = s] IN
                /\ a \in Active /\ a.op = active.op /\ a.txn = active.txn
                /\ a.step = s /\ a.left = active.left
           /\ \A s \in Step, L \in SUBSET Release :
                LET a == [active EXCEPT !.step = s, !.left = L] IN
                /\ a \in Active /\ a.op = active.op /\ a.txn = active.txn
                /\ a.step = s /\ a.left = L
           /\ \A r : LET a == [active EXCEPT !.left = @ \ {r}] IN
                /\ a \in Active /\ a.op = active.op /\ a.txn = active.txn
                /\ a.step = active.step /\ a.left = active.left \ {r}
BY DEF TypeOK, Active

\* What a failure uses up.
LEMMA FailureIsCounted ==
    ASSUME TypeOK, NEW kind, Fails(kind)
    PROVE  spent' \in [failures : Nat, restarts : Nat, replans : Nat]
BY DEF TypeOK, Fails

LEMMA TypesKept == Inductive /\ [Next]_vars => TypeOK'
<1> SUFFICES ASSUME Inductive, [Next]_vars
             PROVE  TypeOK'
  OBVIOUS
<1> USE DEF ledgers, effects, clients, process
<1>0. TypeOK
  BY DEF Inductive
<1>1. ASSUME NEW j \in Job, Start(j)
      PROVE  TypeOK'
  <2>1. [phase |-> "queued", final |-> FALSE, pinned |-> installed.rev] \in JobRecord
    BY <1>0 DEF TypeOK, Installed, JobRecord, Phase
  <2>2. Moves(j, "queued", FALSE)
    BY <1>0, <1>1, <2>1, UpdateMoves DEF Start
  <2> QED
    BY <1>0, <1>1, <2>2 DEF TypeOK, Start, Moves, ReplanRecords
<1>2. ASSUME NEW j \in Job, ConfirmCommit(j)
      PROVE  TypeOK'
  <2>1. Moves(j, "commit", job[j].final)
    BY <1>0, <1>2, SetPhaseMoves DEF ConfirmCommit, Phase
  <2> QED
    BY <1>0, <1>2, <2>1 DEF TypeOK, ConfirmCommit, Moves, ReplanRecords
<1>3. ASSUME NEW j \in Job, Cancel(j)
      PROVE  TypeOK'
  <2>1. Moves(j, "cancelled", job[j].final)
    BY <1>0, <1>3, SetPhaseMoves DEF Cancel, Phase, Terminal
  <2> QED
    BY <1>0, <1>3, <2>1 DEF TypeOK, Cancel, Moves, ReplanRecords
<1>4. ASSUME NEW j \in Job, Resume(j)
      PROVE  TypeOK'
  <2>1. Moves(j, "recover", job[j].final)
    BY <1>0, <1>4, SetPhaseMoves DEF Resume, Phase
  <2> QED
    BY <1>0, <1>4, <2>1 DEF TypeOK, Resume, Moves, ReplanRecords
<1>5. ASSUME NEW j \in Job, Replan(j)
      PROVE  TypeOK'
  BY <1>0, <1>5 DEF TypeOK, Replan
<1>6. ASSUME NEW x \in Remover, NEW r \in Release, PlanRemoval(x, r)
      PROVE  TypeOK'
  <2>1. RemovalJournal(r) \in Journal
    BY <1>0, <1>6, RemovalJournalIsGood DEF TypeOK, PlanRemoval, GoodJournal
  <2> QED
    BY <1>0, <1>6, <2>1 DEF TypeOK, PlanRemoval
<1>7. ASSUME NEW j \in Job, Planned(j)
      PROVE  TypeOK'
  <2> DEFINE fields == [job[j] EXCEPT !.phase = "awaiting-confirmation", !.final = TRUE]
  <2>1. fields \in JobRecord /\ fields.phase = "awaiting-confirmation" /\ fields.final = TRUE
    BY <1>0 DEF TypeOK, JobRecord, Phase
  <2>2. Update(j, fields)
    BY <1>7 DEF Planned
  <2>3. Moves(j, "awaiting-confirmation", TRUE)
    <3> HIDE DEF fields
    <3> QED
      BY <1>0, <2>1, <2>2, UpdateMoves
  <2> QED
    BY <1>0, <1>7, <2>3 DEF TypeOK, Planned, Moves, ReplanRecords
<1>8. ASSUME NEW j \in Job, PrecommitEnds(j)
      PROVE  TypeOK'
  <2>1. CASE UNCHANGED <<job, replan>>
    BY <1>0, <1>8, <2>1 DEF TypeOK, PrecommitEnds
  <2>2. CASE SetPhase(j, IF server = "closing" THEN "recover" ELSE "failed")
    <3>1. \E p \in Phase : Moves(j, p, job[j].final)
      BY <1>0, <2>2, SetPhaseMoves DEF Phase, Terminal
    <3> QED
      BY <1>0, <1>8, <3>1 DEF TypeOK, PrecommitEnds, Moves, ReplanRecords
  <2> QED
    BY <1>8, <2>1, <2>2 DEF PrecommitEnds
<1>9. ASSUME NEW j \in Job, QueueInstall(j)
      PROVE  TypeOK'
  <2>1. queue' \in Seq(Operation)
    BY <1>0, <1>9, EnqueueMoves DEF QueueInstall, Txn
  <2> QED
    BY <1>0, <1>9, <2>1 DEF TypeOK, QueueInstall
<1>10. ASSUME NEW j \in Job, Complete(j)
       PROVE  TypeOK'
  <2>1. queue' \in Seq(Operation)
    BY <1>0, <1>10, EnqueueMoves DEF Complete, Txn
  <2>2. Moves(j, "complete", job[j].final)
    BY <1>0, <1>10, SetPhaseMoves DEF Complete, Phase, Terminal
  <2> QED
    BY <1>0, <1>10, <2>1, <2>2 DEF TypeOK, Complete, Moves, ReplanRecords
<1>11. ASSUME NEW j \in Job, CompleteFails(j)
       PROVE  TypeOK'
  <2>1. spent' \in [failures : Nat, restarts : Nat, replans : Nat]
    BY <1>0, <1>11, FailureIsCounted DEF CompleteFails
  <2> QED
    BY <1>0, <1>11, <2>1 DEF TypeOK, CompleteFails
<1>12. ASSUME NEW j \in Job, CommitFails(j)
       PROVE  TypeOK'
  <2>1. \E p \in Phase : Moves(j, p, job[j].final)
    BY <1>0, <1>12, SetPhaseMoves DEF CommitFails, Phase, Terminal
  <2> QED
    BY <1>0, <1>12, <2>1 DEF TypeOK, CommitFails, Moves, ReplanRecords
<1>13. ASSUME NEW j \in Job, QueueAbandon(j)
       PROVE  TypeOK'
  <2>1. queue' \in Seq(Operation)
    BY <1>0, <1>13, EnqueueMoves DEF QueueAbandon, Txn
  <2>2. replan' \in ReplanRecords
    BY <1>0, <1>13 DEF TypeOK, QueueAbandon, ReplanRecords
  <2> QED
    BY <1>0, <1>13, <2>1, <2>2 DEF TypeOK, QueueAbandon, ReplanRecords
<1>14. ASSUME NEW j \in Job, Replanned(j)
       PROVE  TypeOK'
  <2>1. job' \in [Job -> JobRecord]
    <3> DEFINE fields == [job[j] EXCEPT !.phase = "awaiting-confirmation"]
    <3>1. job[j] \in JobRecord /\ job \in [Job -> JobRecord]
      BY <1>0 DEF TypeOK
    <3>2. fields \in JobRecord
      BY <3>1 DEF JobRecord, Phase
    <3>3. job' = [job EXCEPT ![j] = fields] \/ job' = job
      BY <1>14 DEF Replanned
    <3> HIDE DEF fields
    <3> QED
      BY <3>1, <3>2, <3>3
  <2> QED
    BY <1>0, <1>14, <2>1 DEF TypeOK, Replanned
<1>15. CASE TakeInstall \/ TakeRemoval
  <2>1. Head(queue) \in Operation /\ queue' \in Seq(Operation)
    BY <1>0, <1>15, DequeueMoves DEF TakeInstall, TakeRemoval
  <2>2. active' \in Active
    BY <1>15, <2>1 DEF TakeInstall, TakeRemoval, Operation, Active, Step
  <2> QED
    BY <1>0, <1>15, <2>1, <2>2 DEF TypeOK, TakeInstall, TakeRemoval
<1>16. CASE TakeFinish \/ TakeAbandon
  <2>1. Head(queue) \in Operation /\ queue' \in Seq(Operation)
    BY <1>0, <1>16, DequeueMoves DEF TakeFinish, TakeAbandon
  <2>2. journal' \in [Txn -> Journal \cup {None}]
    BY <1>0, <1>16, <2>1 DEF TypeOK, TakeFinish, TakeAbandon, Operation
  <2>3. replan' \in ReplanRecords
    <3>1. replan \in ReplanRecords
      BY <1>0 DEF TypeOK, ReplanRecords
    <3>2. CASE TakeFinish
      BY <3>1, <3>2 DEF TakeFinish
    <3>3. CASE TakeAbandon
      <4>1. Head(queue).txn \in Job
        BY <1>0, <3>3, DequeueMoves DEF Inductive, Queued, TakeAbandon
      <4>2. CASE replan' = [replan EXCEPT ![Head(queue).txn].at = "plan"]
        BY <1>0, <4>1, <4>2, AbandonMoves
      <4>3. CASE replan' = [replan EXCEPT ![Head(queue).txn] = [at |-> "none", fresh |-> FALSE]]
        <5> DEFINE none == [at |-> "none", fresh |-> FALSE]
        <5>1. replan' = [replan EXCEPT ![Head(queue).txn] = none]
          BY <4>3
        <5>2. none \in [at : {"none", "read", "queued", "plan"}, fresh : BOOLEAN]
          OBVIOUS
        <5> HIDE DEF none
        <5> QED
          BY <3>1, <4>1, <5>1, <5>2 DEF ReplanRecords
      <4> QED
        BY <3>3, <4>2, <4>3 DEF TakeAbandon
    <3> QED
      BY <1>16, <3>2, <3>3
  <2>4. spent' \in [failures : Nat, restarts : Nat, replans : Nat]
    BY <1>0, <1>16, FailureIsCounted DEF TypeOK, TakeFinish, TakeAbandon
  <2>5. CASE TakeFinish
    BY <1>0, <2>1, <2>2, <2>4, <2>5 DEF TypeOK, TakeFinish
  <2>6. CASE TakeAbandon
    BY <1>0, <2>1, <2>2, <2>3, <2>4, <2>6 DEF TypeOK, TakeAbandon, ReplanRecords
  <2> QED
    BY <1>16, <2>5, <2>6
<1>17. CASE Prepare
  <2>1. active # None /\ active.txn \in Job
    BY <1>17, <1>0 DEF Inductive, Running, Prepare, At
  <2>2. journal' \in [Txn -> Journal \cup {None}]
    BY <1>0, <1>17, <2>1, InstallJournalIsGood DEF TypeOK, Prepare, CanPlan, GoodJournal
  <2>3. active' \in Active \cup {None}
    <3>1. [active EXCEPT !.step = "check"] \in Active
      BY <1>0, <2>1, ActiveMoves DEF Step
    <3> QED
      BY <1>17, <3>1 DEF Prepare, Go
  <2>4. run' \in [Job -> {"none", "precommit", "commit", "install", "applied", "durable", "refused", "lost"}]
    BY <1>0, <1>17 DEF Prepare, TypeOK
  <2> QED
    BY <1>0, <1>17, <2>2, <2>3, <2>4 DEF TypeOK, Prepare
<1>18. CASE Check
  <2>1. active # None /\ journal[active.txn] # None
    BY <1>18 DEF Check, At, Replayable, CanApply
  <2>2. journal[active.txn].adds \in SUBSET Release
    BY <1>0, <2>1, ActiveMoves, JournalFields
  <2>3. active' \in Active
    BY <1>0, <1>18, <2>1, <2>2, ActiveMoves DEF Check, Step
  <2> QED
    BY <1>0, <1>18, <2>3 DEF TypeOK, Check
<1>19. CASE CheckFails \/ WriteFails
  <2>1. spent' \in [failures : Nat, restarts : Nat, replans : Nat]
    BY <1>0, <1>19, FailureIsCounted DEF TypeOK, CheckFails, WriteFails
  <2>2. Throw
    BY <1>19 DEF CheckFails, WriteFails
  <2>3. active # None /\ (active.op = "install" => active.txn \in Job)
    BY <1>0, <1>19 DEF Inductive, Running, CheckFails, WriteFails, At
  <2>4. run' \in [Job -> {"none", "precommit", "commit", "install", "applied", "durable", "refused", "lost"}]
    BY <1>0, <2>2, <2>3 DEF TypeOK, Throw
  <2> QED
    BY <1>0, <2>1, <2>2, <2>4 DEF TypeOK, Throw, NoBoot
<1>20. ASSUME NEW r \in Release, CommitAdapter(r)
       PROVE  TypeOK'
  <2>1. active.txn \in Job
    BY <1>0, <1>20 DEF Inductive, Running, CommitAdapter, At
  <2>2. active' \in Active
    BY <1>0, <1>20, ActiveMoves DEF CommitAdapter, At
  <2> QED
    BY <1>0, <1>20, <2>1, <2>2 DEF TypeOK, CommitAdapter
<1>21. ASSUME NEW r \in Release, RemoveOwner(r)
       PROVE  TypeOK'
  <2>1. active' \in Active
    BY <1>0, <1>21, ActiveMoves DEF RemoveOwner, At
  <2> QED
    BY <1>0, <1>21, <2>1 DEF TypeOK, RemoveOwner
<1>22. CASE AdaptersDone
  <2>1. active' \in Active
    BY <1>0, <1>22, ActiveMoves DEF AdaptersDone, At, Go, Step
  <2> QED
    BY <1>0, <1>22, <2>1 DEF TypeOK, AdaptersDone
<1>23. CASE PublishProvenance
  <2>1. active' \in Active
    BY <1>0, <1>23, ActiveMoves DEF PublishProvenance, At, Go, Step
  <2>2. provenance' \subseteq Release
    BY <1>0, <1>23 DEF TypeOK, PublishProvenance, Plan
  <2> QED
    BY <1>0, <1>23, <2>1, <2>2 DEF TypeOK, PublishProvenance
<1>24. CASE PublishOwnership
  <2>1. active # None /\ journal[active.txn] # None
    BY <1>0, <1>24 DEF PublishOwnership, At, Inductive, Running, CanApply
  <2>2. active' \in Active
    BY <1>0, <1>24, <2>1, ActiveMoves DEF PublishOwnership, At, Go, Step
  <2>3. ownership' \in Ownership
    BY <1>0, <1>24, <2>1, ActiveMoves, JournalFields DEF PublishOwnership
  <2> QED
    BY <1>0, <1>24, <2>2, <2>3 DEF TypeOK, PublishOwnership
<1>25. CASE PublishInstalled
  <2>1. active # None /\ journal[active.txn] # None
    BY <1>0, <1>25 DEF PublishInstalled, At, Inductive, Running, CanApply
  <2>2. journal[active.txn] \in Journal
    BY <1>0, <2>1, ActiveMoves, JournalFields
  <2>3. installed' \in Installed
    BY <1>25, <2>2 DEF PublishInstalled, Journal
  <2>4. active' \in Active
    BY <1>0, <1>25, <2>1, <2>2, ActiveMoves DEF PublishInstalled, Step, Journal
  <2>5. outcome' \in [Job -> {"none", "unchanged", "installed"}]
    BY <1>0, <1>25 DEF TypeOK, PublishInstalled, IsInstall
  <2> QED
    BY <1>0, <1>25, <2>3, <2>4, <2>5 DEF TypeOK, PublishInstalled
<1>26. CASE RemovalsDone
  BY <1>0, <1>26 DEF TypeOK, RemovalsDone
<1>27. CASE InstallDone
  <2>1. active.txn \in Job
    BY <1>0, <1>27 DEF Inductive, Running, InstallDone, At
  <2>2. boot' \in [journals : SUBSET Txn, jobs : SUBSET Job, results : SUBSET Job]
    <3>1. /\ boot \in [journals : SUBSET Txn, jobs : SUBSET Job, results : SUBSET Job]
          /\ boot = [journals |-> boot.journals, jobs |-> boot.jobs, results |-> boot.results]
      BY <1>0 DEF TypeOK
    <3>2. \/ boot' = boot
          \/ boot' = [journals |-> boot.journals \ {active.txn}, jobs |-> boot.jobs,
                      results |-> boot.results \cup {active.txn}]
      BY <1>27, <3>1 DEF InstallDone
    <3> QED
      BY <2>1, <3>1, <3>2
  <2>3. run' \in [Job -> {"none", "precommit", "commit", "install", "applied", "durable", "refused", "lost"}]
    BY <1>0, <1>27, <2>1 DEF TypeOK, InstallDone
  <2> QED
    BY <1>0, <1>27, <2>2, <2>3 DEF TypeOK, InstallDone
<1>28. ASSUME NEW x \in Remover, JournalRemoval(x)
       PROVE  TypeOK'
  <2>1. queue' \in Seq(Operation)
    BY <1>0, <1>28, EnqueueMoves DEF JournalRemoval, Txn
  <2> QED
    BY <1>0, <1>28, <2>1 DEF TypeOK, JournalRemoval, Txn
<1>29. CASE Crash \/ Closed
  <2>1. Stops /\ spent' \in [failures : Nat, restarts : Nat, replans : Nat]
    BY <1>0, <1>29 DEF TypeOK, Crash, Closed
  <2>2. torn' \subseteq Txn
    BY <1>0, <1>29 DEF TypeOK, Crash, Closed, Deleting
  <2> QED
    BY <1>0, <2>1, <2>2 DEF TypeOK, Stops, NoBoot
<1>30. CASE Close
  BY <1>0, <1>30 DEF TypeOK, Close
<1>31. CASE Open
  BY <1>0, <1>31 DEF TypeOK, Open
<1>32. CASE Replayed
  <2>1. /\ boot' \in [journals : SUBSET Txn, jobs : SUBSET Job, results : SUBSET Job]
        /\ server' \in {"down", "resuming"}
    BY <1>0, <1>32 DEF TypeOK, Replayed, NoBoot
  <2> QED
    BY <1>0, <1>32, <2>1 DEF TypeOK, Replayed
<1>33. CASE Opened
  BY <1>0, <1>33 DEF TypeOK, Opened, NoBoot
<1>34. ASSUME NEW t \in Txn, ReplayNext(t)
       PROVE  TypeOK'
  <2>1. active' \in Active
    BY <1>34 DEF ReplayNext, Active, Step
  <2> QED
    BY <1>0, <1>34, <2>1 DEF TypeOK, ReplayNext
<1>35. ASSUME NEW j \in Job, RecoverJob(j)
       PROVE  TypeOK'
  <2>1. boot' \in [journals : SUBSET Txn, jobs : SUBSET Job, results : SUBSET Job]
    BY <1>0, <1>35 DEF TypeOK, RecoverJob
  <2>2. queue' \in Seq(Operation)
    <3>1. CASE UNCHANGED queue
      BY <1>0, <3>1 DEF TypeOK
    <3>2. CASE Enqueue("finish", j)
      BY <1>0, <3>2, EnqueueMoves DEF Txn
    <3> QED
      BY <1>35, <3>1, <3>2 DEF RecoverJob
  <2>3. job' \in [Job -> JobRecord] /\ replan' \in ReplanRecords
    <3>1. CASE UNCHANGED <<job, replan>>
      BY <1>0, <3>1 DEF TypeOK, ReplanRecords
    <3>2. CASE SetPhase(j, "complete") \/ SetPhase(j, "recover")
      BY <1>0, <3>2, SetPhaseMoves DEF Phase, Terminal, Moves
    <3> QED
      BY <1>35, <3>1, <3>2 DEF RecoverJob
  <2>4. run' \in [Job -> {"none", "precommit", "commit", "install", "applied", "durable", "refused", "lost"}]
    BY <1>0, <1>35 DEF TypeOK, RecoverJob
  <2> QED
    BY <1>0, <1>35, <2>1, <2>2, <2>3, <2>4 DEF TypeOK, RecoverJob, ReplanRecords
<1>36. CASE UNCHANGED vars
  BY <1>0, <1>36 DEF TypeOK, vars
<1>37. ASSUME NEW j \in Job, PrecommitLost(j) \/ CommitLost(j)
       PROVE  TypeOK'
  BY <1>0, <1>37 DEF TypeOK, PrecommitLost, CommitLost
<1> QED
  BY <1>1, <1>2, <1>3, <1>4, <1>5, <1>6, <1>7, <1>8, <1>9, <1>10, <1>11, <1>12, <1>13, <1>14,
     <1>15, <1>16, <1>17, <1>18, <1>19, <1>20, <1>21, <1>22, <1>23, <1>24, <1>25, <1>26, <1>27,
     <1>28, <1>29, <1>30, <1>31, <1>32, <1>33, <1>34, <1>35, <1>36, <1>37
  DEF Next, Clients, Jobs, Transactions, Process

-----------------------------------------------------------------------------
(* Which steps change what.                                                *)

LEMMA LedgerSteps ==
    ASSUME [Next]_vars
    PROVE  \/ UNCHANGED <<installed, ownership, receipts, library, provenance, outcome>>
           \/ PublishOwnership \/ PublishInstalled \/ PublishProvenance
           \/ \E r \in Release : CommitAdapter(r) \/ RemoveOwner(r)
BY DEF Next, Clients, Jobs, Transactions, Process, vars, ledgers, effects, clients, process,
       Start, ConfirmCommit, Cancel, Resume, Replan, PlanRemoval, Planned, PrecommitEnds,
       PrecommitLost, QueueInstall, Complete, CompleteFails, CommitFails, CommitLost,
       QueueAbandon, Replanned,
       TakeInstall, TakeRemoval, TakeFinish, TakeAbandon, Prepare, Check, CheckFails,
       WriteFails, Throw, AdaptersDone, RemovalsDone, InstallDone, JournalRemoval,
       Crash, Close, Closed, Stops, Open, Replayed, Opened, ReplayNext, RecoverJob

LEMMA JournalSteps ==
    ASSUME [Next]_vars
    PROVE  \/ UNCHANGED <<journal, planned>>
           \/ UNCHANGED journal /\ planned' = [x \in Remover |-> None]
           \/ \E x \in Remover : JournalRemoval(x) \/ \E r \in Release : PlanRemoval(x, r)
           \/ Prepare \/ TakeFinish \/ TakeAbandon \/ RemovalsDone
BY DEF Next, Clients, Jobs, Transactions, Process, vars, ledgers, effects, clients, process,
       Start, ConfirmCommit, Cancel, Resume, Replan, Planned, PrecommitEnds,
       PrecommitLost, QueueInstall, Complete, CompleteFails, CommitFails, CommitLost,
       QueueAbandon, Replanned,
       TakeInstall, TakeRemoval, Check, CheckFails, WriteFails, Throw, CommitAdapter,
       RemoveOwner, AdaptersDone, PublishProvenance, PublishOwnership, PublishInstalled,
       InstallDone, Crash, Close, Closed, Stops, Open, Replayed, Opened, ReplayNext, RecoverJob

\* The operation that runs, and where the life of the process has come.
LEMMA ActiveSteps ==
    ASSUME [Next]_vars
    PROVE  \/ UNCHANGED <<active, server, boot>>
           \/ TakeInstall \/ TakeRemoval \/ Prepare \/ Check \/ CheckFails \/ WriteFails
           \/ \E r \in Release : CommitAdapter(r) \/ RemoveOwner(r)
           \/ AdaptersDone \/ PublishProvenance \/ PublishOwnership \/ PublishInstalled
           \/ RemovalsDone \/ InstallDone
           \/ Crash \/ Close \/ Closed \/ Open \/ Replayed \/ Opened
           \/ \E t \in Txn : ReplayNext(t)
           \/ \E j \in Job : RecoverJob(j)
BY DEF Next, Clients, Jobs, Transactions, Process, vars, clients, process,
       Start, ConfirmCommit, Cancel, Resume, Replan, PlanRemoval, Planned, PrecommitEnds,
       PrecommitLost, QueueInstall, Complete, CompleteFails, CommitFails, CommitLost,
       QueueAbandon, Replanned,
       TakeFinish, TakeAbandon, JournalRemoval

-----------------------------------------------------------------------------
(* The journals are good, and only ever written whole.                     *)

LEMMA JournalsKept == Inductive /\ [Next]_vars => Journals'
<1> SUFFICES ASSUME Inductive, [Next]_vars
             PROVE  Journals'
  OBVIOUS
<1>0. TypeOK /\ Journals /\ Running
  BY DEF Inductive
<1>1. /\ journal \in [Txn -> Journal \cup {None}] /\ planned \in [Remover -> Journal \cup {None}]
      /\ Remover \subseteq Txn /\ Job \subseteq Txn /\ Job \cap Remover = {}
  BY <1>0, MarketplaceAssumption DEF TypeOK, Txn
<1> SUFFICES
       /\ \A t \in Txn : journal'[t] # None => GoodJournal(t, journal'[t])
       /\ \A x \in Remover : planned'[x] # None => GoodJournal(x, planned'[x]) /\ journal'[x] = None
  BY DEF Journals, GoodJournal, Agree, IsInstalled, Plan
<1>2. CASE UNCHANGED <<journal, planned>>
  BY <1>0, <1>2 DEF Journals
<1>3. CASE UNCHANGED journal /\ planned' = [x \in Remover |-> None]
  BY <1>0, <1>3 DEF Journals
<1>4. ASSUME NEW x \in Remover, JournalRemoval(x)
      PROVE  /\ \A t \in Txn : journal'[t] # None => GoodJournal(t, journal'[t])
             /\ \A y \in Remover : planned'[y] # None => GoodJournal(y, planned'[y]) /\ journal'[y] = None
  BY <1>0, <1>1, <1>4 DEF Journals, JournalRemoval
<1>5. ASSUME NEW x \in Remover, NEW r \in Release, PlanRemoval(x, r)
      PROVE  /\ \A t \in Txn : journal'[t] # None => GoodJournal(t, journal'[t])
             /\ \A y \in Remover : planned'[y] # None => GoodJournal(y, planned'[y]) /\ journal'[y] = None
  <2>1. GoodJournal(x, RemovalJournal(r))
    BY <1>0, <1>5, RemovalJournalIsGood DEF TypeOK, PlanRemoval
  <2> QED
    BY <1>0, <1>1, <1>5, <2>1 DEF Journals, PlanRemoval
<1>6. CASE Prepare
  <2>1. active.txn \in Job
    BY <1>0, <1>6 DEF Running, Prepare, At
  <2>2. CanPlan(active.txn) => GoodJournal(active.txn, InstallJournal(active.txn))
    BY <1>0, <2>1, InstallJournalIsGood DEF TypeOK, CanPlan
  <2> QED
    BY <1>0, <1>1, <1>6, <2>1, <2>2 DEF Journals, Prepare, clients
<1>7. CASE TakeFinish \/ TakeAbandon \/ RemovalsDone
  <2>1. planned' = planned /\ \A t \in Txn : journal'[t] \in {journal[t], None}
    BY <1>1, <1>7 DEF TakeFinish, TakeAbandon, RemovalsDone, clients
  <2> QED
    BY <1>0, <1>1, <2>1 DEF Journals
<1> QED
  BY <1>2, <1>3, <1>4, <1>5, <1>6, <1>7, JournalSteps

-----------------------------------------------------------------------------
(* The ledgers.                                                            *)

\* What the transaction that runs publishes.
LEMMA Publishing ==
    ASSUME Inductive, active # None, active.step \in {"ownership", "installed"}
    PROVE  /\ active.txn \in Txn /\ journal[active.txn] # None
           /\ GoodJournal(active.txn, journal[active.txn])
           /\ installed \in {journal[active.txn].base, journal[active.txn].target}
           /\ installed = journal[active.txn].target => ownership = journal[active.txn].otarget
           /\ active.step = "installed" => ownership = journal[active.txn].otarget
BY ActiveMoves DEF Inductive, Running, Journals, CanApply

\* Revisions only grow.
LEMMA RevisionsGrow ==
    ASSUME Inductive, [Next]_vars
    PROVE  installed.rev \in Nat /\ installed'.rev \in Nat /\ installed.rev <= installed'.rev
<1>1. installed.rev \in Nat /\ installed'.rev \in Nat
  BY TypesKept DEF Inductive, TypeOK, Installed
<1>2. CASE PublishInstalled
  BY <1>1, <1>2, Publishing DEF PublishInstalled, At, GoodJournal
<1>3. CASE ~PublishInstalled
  <2>1. installed' = installed
    BY <1>3, LedgerSteps DEF PublishOwnership, PublishProvenance, CommitAdapter, RemoveOwner,
                             ledgers
  <2> QED
    BY <1>1, <2>1
<1> QED
  BY <1>2, <1>3

\* So what was published stays so, while its journal is there.
LEMMA PublishedStays ==
    ASSUME Inductive, [Next]_vars, NEW t \in Txn, Published(t),
           journal'[t] = journal[t] \/ journal'[t] = None
    PROVE  Published(t)'
<1>1. CASE journal'[t] = None
  BY <1>1 DEF Published
<1>2. CASE journal'[t] # None
  <2>1. journal[t] # None /\ journal'[t] = journal[t]
    BY <1>2
  <2>2. journal[t].target.rev \in Nat
    BY <2>1, JournalFields DEF Inductive, Installed
  <2> QED
    BY <2>1, <2>2, RevisionsGrow DEF Published
<1> QED
  BY <1>1, <1>2

LEMMA BackedKept == Inductive /\ [Next]_vars => InstalledIsBacked'
<1> SUFFICES ASSUME Inductive, [Next]_vars
             PROVE  InstalledIsBacked'
  OBVIOUS
<1> SUFFICES ASSUME NEW r \in Release, installed'.by[r] # None
             PROVE  <<installed'.by[r], r>> \in receipts' /\ r \in library' /\ r \in provenance'
  BY DEF InstalledIsBacked, IsInstalled
<1>0. TypeOK /\ Running /\ Committed /\ InstalledIsBacked
  BY DEF Inductive
<1>1. CASE UNCHANGED <<installed, ownership, receipts, library, provenance, outcome>>
  BY <1>0, <1>1 DEF InstalledIsBacked, IsInstalled
<1>2. CASE PublishOwnership \/ PublishProvenance
  BY <1>0, <1>2 DEF InstalledIsBacked, IsInstalled, PublishOwnership, PublishProvenance, effects,
                    ledgers
<1>3. ASSUME NEW s \in Release, CommitAdapter(s)
      PROVE  <<installed'.by[r], r>> \in receipts' /\ r \in library' /\ r \in provenance'
  BY <1>0, <1>3 DEF InstalledIsBacked, IsInstalled, CommitAdapter, ledgers
<1>4. ASSUME NEW s \in Release, RemoveOwner(s)
      PROVE  <<installed'.by[r], r>> \in receipts' /\ r \in library' /\ r \in provenance'
  <2> DEFINE t == active.txn
  <2>1. /\ t \in Remover /\ t \in Txn /\ journal[t] # None /\ s \in journal[t].drops
        /\ installed = journal[t].target
    BY <1>0, <1>4, ActiveMoves DEF Running, RemoveOwner, At, CanApply
  <2>2. installed.by[s] = None
    BY <2>1 DEF Inductive, Journals, GoodJournal
  <2> QED
    BY <1>0, <1>4, <2>2 DEF InstalledIsBacked, IsInstalled, RemoveOwner, ledgers
<1>5. CASE PublishInstalled
  <2> DEFINE t == active.txn
             d == journal[t]
  <2>1. active # None /\ active.step = "installed"
    BY <1>5 DEF PublishInstalled, At
  <2>2. t \in Txn /\ GoodJournal(t, d) /\ installed \in {d.base, d.target} /\ installed' = d.target
    BY <1>5, <2>1, Publishing DEF PublishInstalled
  <2>3. UNCHANGED <<receipts, library, provenance>>
    BY <1>5 DEF PublishInstalled, effects
  <2>4. CASE installed'.by[r] = installed.by[r]
    BY <1>0, <2>3, <2>4 DEF InstalledIsBacked, IsInstalled
  <2>5. CASE installed'.by[r] # installed.by[r]
    <3>1. installed = d.base
      BY <2>2, <2>5
    <3>2. t \in Job /\ r \in d.adds /\ installed'.by[r] = t /\ r \in Plan(t)
      BY <2>2, <2>5, <3>1 DEF GoodJournal, Txn
    <3> QED
      BY <1>0, <2>1, <2>3, <3>2 DEF Committed
  <2> QED
    BY <2>4, <2>5
<1> QED
  BY <1>1, <1>2, <1>3, <1>4, <1>5, LedgerSteps

\* Where a journal stands that is done with, or has not begun.
LEMMA AgreementIsKept ==
    ASSUME NEW t \in Txn, NEW d, GoodJournal(t, d)
    PROVE  /\ installed = d.base /\ ownership = d.obase => LedgersReadable
           /\ installed = d.target /\ ownership = d.otarget => LedgersReadable
           /\ installed' = d.base /\ ownership' = d.obase => LedgersReadable'
           /\ installed' = d.target /\ ownership' = d.otarget => LedgersReadable'
BY DEF GoodJournal, LedgersReadable, Agree, IsInstalled

LEMMA ExplainedKept == Inductive /\ [Next]_vars => Explained'
<1> SUFFICES ASSUME Inductive, [Next]_vars
             PROVE  Explained'
  OBVIOUS
<1>0. TypeOK /\ Running /\ Explained /\ Journals /\ Startup
  BY DEF Inductive
<1>1. LedgersReadable' => Explained'
  BY DEF Explained
<1>2. CASE PublishOwnership
  <2>1. active # None /\ active.step = "ownership"
    BY <1>2 DEF PublishOwnership, At
  <2>2. PICK t \in Txn : t = active.txn
    BY <1>0, <2>1, ActiveMoves
  <2> DEFINE d == journal[t]
  <2>3. /\ d # None /\ GoodJournal(t, d) /\ ownership' = d.otarget
        /\ installed \in {d.base, d.target} /\ UNCHANGED <<installed, journal, server, boot>>
    BY <1>2, <2>1, <2>2, Publishing DEF PublishOwnership
  <2>4. CASE installed = d.target
    BY <1>1, <2>3, <2>4, AgreementIsKept
  <2>5. CASE installed = d.base
    <3>1. Explains(t)'
      BY <2>3, <2>5 DEF Explains
    <3>2. server' = "replaying" => t \in boot'.journals
      BY <1>0, <2>1, <2>2, <2>3 DEF Running, Startup
    <3> QED
      BY <3>1, <3>2 DEF Explained
  <2> QED
    BY <2>3, <2>4, <2>5
<1>3. CASE PublishInstalled
  <2>1. active # None /\ active.step = "installed"
    BY <1>3 DEF PublishInstalled, At
  <2>2. installed' = journal[active.txn].target /\ ownership' = ownership
    BY <1>3 DEF PublishInstalled
  <2> QED
    BY <1>1, <2>1, <2>2, Publishing, AgreementIsKept
<1>4. CASE ~PublishOwnership /\ ~PublishInstalled
  <2>1. UNCHANGED <<installed, ownership>>
    BY <1>4, LedgerSteps DEF PublishProvenance, CommitAdapter, RemoveOwner, ledgers
  <2>2. LedgersReadable' <=> LedgersReadable
    BY <2>1 DEF LedgersReadable, Agree, IsInstalled
  <2> SUFFICES ASSUME ~LedgersReadable
               PROVE  Explained'
    BY <1>1, <2>2
  <2>3. PICK t \in Txn : Explains(t) /\ (server = "replaying" => t \in boot.journals)
    BY <1>0 DEF Explained, TypeOK
  <2>4. journal'[t] = journal[t]
    <3>1. CASE TakeFinish
      <4> DEFINE j == Head(queue).txn
      <4>1. j = t => /\ Published(t) /\ t \in Job
        BY <1>0, <3>1, DequeueMoves DEF TakeFinish, Inductive, Queued
      <4>2. ASSUME j = t
            PROVE  FALSE
        <5>1. journal[t].target.rev <= journal[t].base.rev
          BY <2>3, <4>1, <4>2 DEF Published, Explains
        <5>2. GoodJournal(t, journal[t])
          BY <1>0, <2>3 DEF Journals, Explains
        <5>3. journal[t].base.rev \in Nat /\ journal[t].target.rev \in Nat
          BY <5>2 DEF GoodJournal, Journal, Installed
        <5>4. journal[t].target = journal[t].base /\ journal[t].otarget = journal[t].obase
          BY <5>1, <5>2, <5>3 DEF GoodJournal
        <5> QED
          BY <2>3, <5>2, <5>4, AgreementIsKept DEF Explains
      <4>3. j # t
        BY <4>2
      <4> QED
        BY <1>0, <3>1, <4>3 DEF TakeFinish, TypeOK
    <3>2. CASE TakeAbandon
      <4> DEFINE j == Head(queue).txn
      <4>1. ASSUME j = t, MayAbandon(t)
            PROVE  FALSE
        <5>1. installed = journal[t].base /\ ownership = journal[t].obase /\ GoodJournal(t, journal[t])
          BY <1>0, <2>3, <4>1 DEF MayAbandon, Explains, Journals
        <5> QED
          BY <5>1, AgreementIsKept
      <4> QED
        BY <1>0, <3>2, <4>1 DEF TakeAbandon, TypeOK
    <3>3. CASE RemovalsDone
      <4>1. /\ active # None /\ active.txn \in Txn
            /\ installed = journal[active.txn].target /\ ownership = journal[active.txn].otarget
            /\ GoodJournal(active.txn, journal[active.txn])
        BY <1>0, <3>3, ActiveMoves DEF RemovalsDone, At, Running, Journals, CanApply
      <4> QED
        BY <4>1, AgreementIsKept
    <3>4. CASE Prepare
      <4>1. active.txn = t => journal' = journal
        BY <2>3, <3>4 DEF Prepare, Explains
      <4> QED
        BY <1>0, <3>4, <4>1 DEF Prepare, TypeOK
    <3>5. ASSUME NEW x \in Remover, JournalRemoval(x)
          PROVE  journal'[t] = journal[t]
      <4>1. x # t
        BY <1>0, <2>3, <3>5 DEF Journals, JournalRemoval, Explains
      <4> QED
        BY <1>0, <3>5, <4>1 DEF JournalRemoval, TypeOK
    <3>6. ASSUME NEW x \in Remover, NEW r \in Release, PlanRemoval(x, r)
          PROVE  journal'[t] = journal[t]
      BY <3>6 DEF PlanRemoval
    <3> QED
      BY <3>1, <3>2, <3>3, <3>4, <3>5, <3>6, JournalSteps
  <2>5. Explains(t)'
    BY <2>1, <2>3, <2>4 DEF Explains
  <2>6. server' = "replaying" => t \in boot'.journals
    <3> SUFFICES ASSUME server' = "replaying"
                 PROVE  t \in boot'.journals
      OBVIOUS
    <3>1. CASE Open
      BY <2>3, <3>1 DEF Open, Explains
    <3>2. CASE InstallDone \/ RemovalsDone
      <4>1. /\ active # None /\ active.txn \in Txn
            /\ installed = journal[active.txn].target /\ ownership = journal[active.txn].otarget
            /\ GoodJournal(active.txn, journal[active.txn])
        BY <1>0, <3>2, ActiveMoves DEF InstallDone, RemovalsDone, At, Running, Journals, CanApply
      <4> QED
        BY <4>1, AgreementIsKept
    <3>3. CASE ~Open /\ ~InstallDone /\ ~RemovalsDone
      <4>1. UNCHANGED <<server, boot>>
        BY <3>3, ActiveSteps DEF TakeInstall, TakeRemoval, Prepare, Check, CheckFails, WriteFails,
             Throw, CommitAdapter, RemoveOwner, AdaptersDone, PublishProvenance, PublishOwnership,
             PublishInstalled, Crash, Close, Closed, Stops, Replayed, Opened, ReplayNext, RecoverJob
      <4> QED
        BY <2>3, <4>1
    <3> QED
      BY <3>1, <3>2, <3>3
  <2> QED
    BY <2>5, <2>6 DEF Explained
<1> QED
  BY <1>2, <1>3, <1>4

-----------------------------------------------------------------------------
(* The transaction that runs.                                              *)

\* Nobody else deletes or replaces its journal.
LEMMA ItsJournalStays ==
    ASSUME Inductive, [Next]_vars, active # None, active' # None, journal[active.txn] # None
    PROVE  journal'[active.txn] = journal[active.txn]
<1>0. TypeOK /\ Journals /\ active.txn \in Txn
  BY ActiveMoves DEF Inductive
<1>1. ASSUME NEW x \in Remover, JournalRemoval(x)
      PROVE  journal'[active.txn] = journal[active.txn]
  <2>1. x # active.txn
    BY <1>0, <1>1 DEF Journals, JournalRemoval
  <2> QED
    BY <1>0, <1>1, <2>1 DEF JournalRemoval, TypeOK
<1>2. ASSUME NEW x \in Remover, NEW r \in Release, PlanRemoval(x, r)
      PROVE  journal'[active.txn] = journal[active.txn]
  BY <1>2 DEF PlanRemoval
<1>3. CASE Prepare
  BY <1>3 DEF Prepare
<1>4. CASE TakeFinish \/ TakeAbandon \/ RemovalsDone
  BY <1>4 DEF TakeFinish, TakeAbandon, RemovalsDone
<1> QED
  BY <1>1, <1>2, <1>3, <1>4, JournalSteps

\* A job waits until its transaction is over, or the process stops.
LEMMA JobsWait ==
    ASSUME Inductive, [Next]_vars, NEW j \in Job, run[j] = "install"
    PROVE  \/ run'[j] = "install"
           \/ active # None /\ active.op = "install" /\ active.txn = j /\ active' = None
           \/ active' = None /\ queue' = <<>>
<1>0. TypeOK /\ Running /\ Startup
  BY DEF Inductive
<1>1. run \in [Job -> {"none", "precommit", "commit", "install", "applied", "durable", "refused", "lost"}]
  BY <1>0 DEF TypeOK
<1>2. job[j].phase # "new" /\ job[j].phase # "awaiting-confirmation" /\ job[j].phase # "needs-attention"
  BY DEF Inductive, Phases, Confirmed
<1>3. j \notin boot.jobs
  BY <1>0 DEF Startup
<1>4. CASE UNCHANGED run
  BY <1>4
<1>5. ASSUME NEW k \in Job,
             Start(k) \/ ConfirmCommit(k) \/ Resume(k) \/ Planned(k) \/ PrecommitEnds(k)
             \/ PrecommitLost(k) \/ QueueInstall(k) \/ Complete(k) \/ CompleteFails(k)
             \/ CommitFails(k) \/ CommitLost(k)
      PROVE  run'[j] = "install"
  <2>1. k # j
    BY <1>2, <1>5 DEF Start, ConfirmCommit, Resume, Planned, PrecommitEnds, PrecommitLost,
                      QueueInstall, Complete, CompleteFails, CommitFails, CommitLost
  <2> QED
    BY <1>1, <1>5, <2>1 DEF Start, ConfirmCommit, Resume, Planned, PrecommitEnds, PrecommitLost,
                            QueueInstall, Complete, CompleteFails, CommitFails, CommitLost
<1>6. ASSUME NEW k \in Job, RecoverJob(k)
      PROVE  run'[j] = "install"
  BY <1>1, <1>3, <1>6 DEF RecoverJob
<1>7. CASE Prepare
  BY <1>0, <1>1, <1>7 DEF Prepare, At, Running
<1>8. CASE CheckFails \/ WriteFails
  BY <1>1, <1>8 DEF CheckFails, WriteFails, Throw, At
<1>9. CASE InstallDone
  <2>1. active # None /\ active' = None /\ active.op \in {"install", "remove", "replay"} /\ active.txn \in Job
    BY <1>0, <1>9, ActiveMoves DEF InstallDone, At, Running, Active
  <2>2. active.op # "remove"
    BY <1>0, <2>1, MarketplaceAssumption DEF Running
  <2> QED
    BY <1>1, <1>9, <2>1, <2>2 DEF InstallDone
<1>10. CASE Crash \/ Closed
  BY <1>10 DEF Crash, Closed, Stops
<1> QED
  BY <1>4, <1>5, <1>6, <1>7, <1>8, <1>9, <1>10
  DEF Next, Clients, Jobs, Transactions, Process, vars, process, Cancel, Replan, PlanRemoval,
      QueueAbandon, Replanned, TakeInstall, TakeRemoval, TakeFinish, TakeAbandon, Check,
      CommitAdapter, RemoveOwner, AdaptersDone, PublishProvenance, PublishOwnership,
      PublishInstalled, RemovalsDone, JournalRemoval, Close, Open, Replayed, Opened, ReplayNext

LEMMA RunningKept == Inductive /\ [Next]_vars => Running'
<1> SUFFICES ASSUME Inductive, [Next]_vars, active' # None
             PROVE  Running'
  BY DEF Running
<1>0. TypeOK /\ Running /\ Startup /\ Queued
  BY DEF Inductive
<1>1. CASE UNCHANGED active
  <2>1. active # None /\ active \in Active /\ active.txn \in Txn
    BY <1>0, <1>1, ActiveMoves
  <2>2. active.op = "install" => run'[active.txn] = "install"
    BY <1>0, <1>1, JobsWait DEF Running
  <2>3. active.op = "replay" => server' = "replaying" /\ active.txn \in boot'.journals
    <3>1. server # "down"
      BY <1>0, <2>1 DEF Startup
    <3>2. CASE UNCHANGED <<server, boot>>
      BY <1>0, <2>1, <3>2 DEF Running
    <3>3. CASE ~UNCHANGED <<server, boot>>
      <4>1. CASE Crash \/ Closed \/ CheckFails \/ WriteFails \/ RemovalsDone \/ InstallDone
        BY <1>1, <2>1, <4>1 DEF Crash, Closed, Stops, CheckFails, WriteFails, Throw, RemovalsDone,
                                InstallDone
      <4>2. CASE Open \/ Close \/ Replayed \/ Opened \/ \E j \in Job : RecoverJob(j)
        BY <1>0, <2>1, <3>1, <4>2 DEF Open, Close, Replayed, Opened, RecoverJob, Running
      <4> QED
        BY <3>3, <4>1, <4>2, ActiveSteps DEF TakeInstall, TakeRemoval, Prepare, Check,
             CommitAdapter, RemoveOwner, AdaptersDone, PublishProvenance, PublishOwnership,
             PublishInstalled, ReplayNext
    <3> QED
      BY <3>2, <3>3
  <2>4. UNCHANGED <<installed, ownership, outcome>>
    <3>1. ~PublishOwnership /\ ~PublishInstalled
      BY <1>1, <2>1 DEF PublishOwnership, PublishInstalled, At, Go, Active
    <3> QED
      BY <3>1, LedgerSteps DEF PublishProvenance, CommitAdapter, RemoveOwner, ledgers
  <2>5. journal[active.txn] # None => journal'[active.txn] = journal[active.txn]
    BY <1>1, <2>1, ItsJournalStays
  <2> QED
    BY <1>0, <1>1, <2>1, <2>2, <2>3, <2>4, <2>5 DEF Running, CanApply
<1>2. CASE TakeInstall
  <2>1. /\ active' = [op |-> "install", txn |-> Head(queue).txn, step |-> "prepare", left |-> {}]
        /\ run' = run /\ Head(queue) = queue[1] /\ 1 \in 1..Len(queue) /\ Head(queue).op = "install"
    BY <1>0, <1>2, DequeueMoves DEF TakeInstall
  <2> QED
    BY <1>0, <2>1 DEF Queued, Running
<1>3. CASE TakeRemoval
  <2>1. /\ active' = [op |-> "remove", txn |-> Head(queue).txn, step |-> "check", left |-> {}]
        /\ Head(queue) = queue[1] /\ 1 \in 1..Len(queue) /\ Head(queue).op = "remove"
    BY <1>0, <1>3, DequeueMoves DEF TakeRemoval
  <2> QED
    BY <1>0, <2>1 DEF Queued, Running
<1>4. ASSUME NEW t \in Txn, ReplayNext(t)
      PROVE  Running'
  BY <1>4 DEF ReplayNext, Running
<1>5. CASE Prepare \/ Check \/ AdaptersDone \/ PublishProvenance \/ PublishOwnership
           \/ PublishInstalled \/ \E r \in Release : CommitAdapter(r) \/ RemoveOwner(r)
  <2>1. active # None /\ active \in Active /\ active.txn \in Txn
    BY <1>0, <1>5, ActiveMoves DEF Prepare, Check, AdaptersDone, PublishProvenance,
       PublishOwnership, PublishInstalled, CommitAdapter, RemoveOwner, At
  <2>2. PICK t \in Txn : t = active.txn
    BY <2>1
  <2>3. active'.op = active.op /\ active'.txn = t
    BY <1>5, <2>1, <2>2 DEF Prepare, Check, AdaptersDone, PublishProvenance, PublishOwnership,
       PublishInstalled, CommitAdapter, RemoveOwner, Go, Active
  <2>4. UNCHANGED <<server, boot>>
    BY <1>5 DEF Prepare, Check, AdaptersDone, PublishProvenance, PublishOwnership,
       PublishInstalled, CommitAdapter, RemoveOwner
  <2>5. /\ active.op = "install" => t \in Job /\ run'[t] = "install"
        /\ active.op = "remove" => t \in Remover
        /\ active.op = "replay" => server' = "replaying" /\ t \in boot'.journals
    BY <1>0, <2>1, <2>2, <2>3, <2>4, JobsWait DEF Running
  <2>6. journal[t] # None => journal'[t] = journal[t]
    BY <2>1, <2>2, ItsJournalStays
  <2>7. CASE Prepare
    BY <1>0, <2>1, <2>2, <2>3, <2>5, <2>7 DEF Prepare, At, Go, Running, Active
  <2>8. CASE Check
    <3>1. t \in Job \/ t \in Remover
      BY DEF Txn
    <3>2. journal'[t] = journal[t] /\ CanApply(t) /\ UNCHANGED <<installed, ownership>>
      BY <2>2, <2>6, <2>8 DEF Check, Replayable, CanApply, ledgers
    <3>3. CASE t \in Job
      <4>1. active'.step = "adapters" /\ active'.left = journal[t].adds
        BY <2>1, <2>2, <2>8, <3>3 DEF Check, IsInstall, Active
      <4> QED
        BY <2>3, <2>5, <3>2, <3>3, <4>1 DEF Running, CanApply
    <3>4. CASE t \notin Job
      <4>1. active'.step = "ownership"
        BY <2>1, <2>2, <2>8, <3>4 DEF Check, IsInstall, Active
      <4> QED
        BY <2>3, <2>5, <3>2, <4>1 DEF Running, CanApply
    <3> QED
      BY <3>3, <3>4
  <2>9. CASE AdaptersDone \/ PublishProvenance
    <3>1. /\ active.step \in {"adapters", "provenance"} /\ active'.step \in {"provenance", "ownership"}
          /\ UNCHANGED <<installed, ownership>>
      BY <2>1, <2>9 DEF AdaptersDone, PublishProvenance, At, Go, Active, ledgers
    <3> QED
      BY <1>0, <2>1, <2>2, <2>3, <2>5, <2>6, <3>1 DEF Running, CanApply
  <2>10. ASSUME NEW r \in Release, CommitAdapter(r) \/ RemoveOwner(r)
         PROVE  Running'
    <3>1. /\ active.step \in {"adapters", "removals"} /\ active'.step = active.step
          /\ active'.left \subseteq active.left /\ UNCHANGED <<installed, ownership>>
      BY <2>1, <2>10 DEF CommitAdapter, RemoveOwner, At, Active, ledgers
    <3> QED
      BY <1>0, <2>1, <2>2, <2>3, <2>5, <2>6, <3>1 DEF Running, CanApply
  <2>11. CASE PublishOwnership
    <3>1. /\ active.step = "ownership" /\ active'.step = "installed"
          /\ installed' = installed /\ ownership' = journal[t].otarget
      BY <2>1, <2>2, <2>11 DEF PublishOwnership, At, Go, Active
    <3> QED
      BY <1>0, <2>1, <2>2, <2>3, <2>5, <2>6, <3>1 DEF Running, CanApply
  <2>12. CASE PublishInstalled
    <3>1. active.step = "installed" /\ CanApply(t) /\ journal[t] # None /\ ownership = journal[t].otarget
      BY <1>0, <2>1, <2>2, <2>12 DEF PublishInstalled, At, Running, CanApply
    <3>2. /\ installed' = journal[t].target /\ ownership' = ownership
          /\ t \in Job => active'.step = "done" /\ outcome'[t] # "none"
          /\ t \notin Job => active'.step = "removals" /\ active'.left = journal[t].drops
      BY <1>0, <2>1, <2>2, <2>12 DEF PublishInstalled, IsInstall, Active, TypeOK
    <3>3. CASE t \in Job
      BY <2>3, <2>5, <2>6, <3>1, <3>2, <3>3 DEF Running, CanApply
    <3>4. CASE t \notin Job
      BY <2>3, <2>5, <2>6, <3>1, <3>2, <3>4 DEF Running, CanApply, Txn
    <3> QED
      BY <3>3, <3>4
  <2> QED
    BY <1>5, <2>7, <2>8, <2>9, <2>10, <2>11, <2>12
<1>6. CASE ~UNCHANGED active
  BY <1>2, <1>3, <1>4, <1>5, <1>6, ActiveSteps
  DEF CheckFails, WriteFails, Throw, RemovalsDone, InstallDone, Crash, Close, Closed, Stops, Open,
      Replayed, Opened, RecoverJob
<1> QED
  BY <1>1, <1>6

LEMMA CommittedKept == Inductive /\ [Next]_vars => Committed'
<1> SUFFICES ASSUME Inductive, [Next]_vars, active' # None,
                    active'.txn \in Job,
                    active'.step \in {"adapters", "provenance", "ownership", "installed"}
             PROVE  /\ \A r \in journal'[active'.txn].adds :
                          \/ active'.step = "adapters" /\ r \in active'.left
                          \/ <<active'.txn, r>> \in receipts' /\ r \in library'
                    /\ active'.step \in {"ownership", "installed"} => Plan(active'.txn) \subseteq provenance'
  BY DEF Committed, Plan
<1>0. TypeOK /\ Running /\ Committed
  BY DEF Inductive
<1> DEFINE In(t, r) == <<t, r>> \in receipts /\ r \in library
           Done(t) ==
              /\ \A r \in journal[t].adds : (active'.step = "adapters" /\ r \in active'.left) \/ In(t, r)'
              /\ active'.step \in {"ownership", "installed"} => Plan(t) \subseteq provenance'
<1>1. CASE Check \/ AdaptersDone \/ PublishProvenance \/ PublishOwnership
           \/ UNCHANGED active \/ \E r \in Release : CommitAdapter(r)
  <2>1. active # None /\ active \in Active /\ active.txn \in Txn
    BY <1>0, <1>1, ActiveMoves DEF Check, AdaptersDone, PublishProvenance, PublishOwnership,
                                   CommitAdapter, At
  <2>2. PICK t \in Txn : t = active.txn
    BY <2>1
  <2>3. active'.txn = t /\ t \in Job
    BY <1>1, <2>1, <2>2 DEF Check, AdaptersDone, PublishProvenance, PublishOwnership,
       CommitAdapter, Go, Active
  <2>4. journal[t] # None /\ journal'[t] = journal[t]
    BY <1>0, <1>1, <2>1, <2>2, ItsJournalStays DEF Running, Replayable, CanApply, Check, AdaptersDone,
       PublishProvenance, PublishOwnership, CommitAdapter, At
  <2> SUFFICES Done(t)
    BY <2>3, <2>4
  <2>5. CASE Check
    BY <2>1, <2>2, <2>3, <2>4, <2>5 DEF Check, IsInstall, Active
  <2>6. CASE AdaptersDone
    <3>1. /\ active.step = "adapters" /\ active'.step = "provenance" /\ active.left = {}
          /\ receipts' = receipts /\ library' = library
      BY <2>1, <2>6 DEF AdaptersDone, At, Go, Active, effects
    <3> QED
      BY <1>0, <2>1, <2>2, <2>3, <3>1 DEF Committed
  <2>7. CASE PublishProvenance
    <3>1. /\ active.step = "provenance" /\ active'.step = "ownership"
          /\ receipts' = receipts /\ library' = library /\ Plan(t) \subseteq provenance'
      BY <2>1, <2>2, <2>7 DEF PublishProvenance, At, Go, Active
    <3> QED
      BY <1>0, <2>1, <2>2, <2>3, <3>1 DEF Committed
  <2>8. CASE PublishOwnership
    <3>1. /\ active.step = "ownership" /\ active'.step = "installed"
          /\ UNCHANGED <<receipts, library, provenance>>
      BY <2>1, <2>8 DEF PublishOwnership, At, Go, Active, effects
    <3> QED
      BY <1>0, <2>1, <2>2, <2>3, <3>1 DEF Committed
  <2>9. ASSUME NEW s \in Release, CommitAdapter(s)
        PROVE  Done(t)
    <3>1. /\ active.step = "adapters" /\ active'.step = "adapters"
          /\ active'.left = active.left \ {s}
          /\ receipts' = receipts \cup {<<t, s>>} /\ library' = library \cup {s}
      BY <2>1, <2>2, <2>9 DEF CommitAdapter, At, Active
    <3> QED
      BY <1>0, <2>1, <2>2, <2>3, <3>1 DEF Committed
  <2>10. CASE UNCHANGED active
    <3>1. receipts \subseteq receipts' /\ library \subseteq library' /\ provenance \subseteq provenance'
      <4>1. ASSUME NEW s \in Release
            PROVE  ~RemoveOwner(s)
        BY <2>1, <2>10 DEF RemoveOwner, At
      <4> QED
        BY <4>1, LedgerSteps DEF PublishOwnership, PublishInstalled, PublishProvenance,
                                 CommitAdapter, effects
    <3> QED
      BY <1>0, <2>1, <2>2, <2>3, <2>10, <3>1 DEF Committed
  <2> QED
    BY <1>1, <2>5, <2>6, <2>7, <2>8, <2>9, <2>10
<1>2. ASSUME TakeInstall \/ TakeRemoval \/ Prepare \/ \E t \in Txn : ReplayNext(t)
      PROVE  FALSE
  <2>1. CASE Prepare
    <3>1. active # None /\ active \in Active
      BY <1>0, <2>1, ActiveMoves DEF Prepare, At
    <3> QED
      BY <2>1, <3>1 DEF Prepare, Go, Active
  <2> QED
    BY <1>2, <2>1 DEF TakeInstall, TakeRemoval, ReplayNext
<1>3. ASSUME PublishInstalled
      PROVE  FALSE
  <2>1. active # None /\ active \in Active
    BY <1>0, <1>3, ActiveMoves DEF PublishInstalled, At
  <2> QED
    BY <1>3, <2>1 DEF PublishInstalled, Active
<1>4. ASSUME NEW s \in Release, RemoveOwner(s)
      PROVE  FALSE
  BY <1>0, <1>4, ActiveMoves DEF RemoveOwner, At
<1> QED
  BY <1>1, <1>2, <1>3, <1>4, ActiveSteps
  DEF CheckFails, WriteFails, Throw, RemovalsDone, InstallDone, Crash, Close, Closed, Stops, Open,
      Replayed, Opened, RecoverJob

-----------------------------------------------------------------------------
(* The operations that wait.                                               *)

\* What changes a snapshot.
LEMMA JobSteps ==
    ASSUME Inductive, [Next]_vars, NEW j \in Job
    PROVE  \/ job'[j] = job[j]
           \/ Start(j) \/ ConfirmCommit(j) \/ Cancel(j) \/ Resume(j) \/ Planned(j)
           \/ PrecommitEnds(j) \/ Complete(j) \/ CommitFails(j) \/ Replanned(j) \/ RecoverJob(j)
<1>0. job \in [Job -> JobRecord]
  BY DEF Inductive, TypeOK
<1>1. \A k \in Job \ {j} : \A fields : Update(k, fields) => job'[j] = job[j]
  BY <1>0 DEF Update
<1>2. \A k \in Job \ {j} : \A phase : SetPhase(k, phase) => job'[j] = job[j]
  BY <1>1 DEF SetPhase
<1>3. ASSUME NEW k \in Job \ {j},
             Start(k) \/ ConfirmCommit(k) \/ Cancel(k) \/ Resume(k) \/ Planned(k)
             \/ PrecommitEnds(k) \/ Complete(k) \/ CommitFails(k) \/ Replanned(k) \/ RecoverJob(k)
      PROVE  job'[j] = job[j]
  <2>1. CASE UNCHANGED job
    BY <2>1
  <2>2. CASE Replanned(k)
    BY <1>0, <2>2 DEF Replanned
  <2> QED
    BY <1>1, <1>2, <1>3, <2>1, <2>2
    DEF Start, ConfirmCommit, Cancel, Resume, Planned, PrecommitEnds, Complete, CommitFails,
        RecoverJob
<1> QED
  BY <1>3 DEF Next, Clients, Jobs, Transactions, Process, vars, clients, process, Replan,
       PlanRemoval, PrecommitLost, QueueInstall, CompleteFails, CommitLost, QueueAbandon,
       TakeInstall, TakeRemoval, TakeFinish, TakeAbandon,
       Prepare, Check, CheckFails, WriteFails, Throw, CommitAdapter, RemoveOwner, AdaptersDone,
       PublishProvenance, PublishOwnership, PublishInstalled, RemovalsDone, InstallDone,
       JournalRemoval, Crash, Close, Closed, Stops, Open, Replayed, Opened, ReplayNext

\* A job that is complete stays so.
LEMMA CompleteIsFinal ==
    ASSUME Inductive, [Next]_vars, NEW j \in Job, job[j].phase = "complete"
    PROVE  job'[j].phase = "complete"
<1>0. run[j] \notin Confirmed /\ (run[j] = "applied" => FALSE)
  BY DEF Inductive, Phases, Confirmed
<1>1. CASE PrecommitEnds(j)
  BY <1>1 DEF PrecommitEnds, Terminal
<1>2. CASE RecoverJob(j)
  BY <1>2 DEF RecoverJob
<1>3. CASE Replanned(j)
  BY <1>3 DEF Replanned
<1> QED
  BY <1>0, <1>1, <1>2, <1>3, JobSteps
  DEF Start, ConfirmCommit, Cancel, Resume, Planned, Complete, CommitFails, Confirmed

\* Its transaction is what journals a job.
LEMMA OnlyInstallsJournal ==
    ASSUME Inductive, [Next]_vars, NEW j \in Job, run[j] # "install"
    PROVE  journal'[j] = journal[j] \/ journal'[j] = None
<1>0. TypeOK /\ Running /\ j \in Txn
  BY DEF Inductive, Txn
<1>1. CASE Prepare
  <2>1. active.txn # j
    BY <1>0, <1>1 DEF Prepare, At, Running
  <2> QED
    BY <1>0, <1>1, <2>1 DEF Prepare, TypeOK
<1>2. ASSUME NEW x \in Remover, JournalRemoval(x)
      PROVE  journal'[j] = journal[j]
  <2>1. x # j
    BY MarketplaceAssumption
  <2> QED
    BY <1>0, <1>2, <2>1 DEF JournalRemoval, TypeOK
<1> QED
  BY <1>0, <1>1, <1>2, JournalSteps DEF TakeFinish, TakeAbandon, RemovalsDone, PlanRemoval, TypeOK

\* What a step does to the queue.
LEMMA QueueSteps ==
    ASSUME Inductive, [Next]_vars
    PROVE  \/ UNCHANGED queue
           \/ queue' = <<>>
           \/ /\ queue # <<>> /\ queue' = Tail(queue) /\ active = None
              /\ active' = None \/ (active'.op = Head(queue).op /\ active'.txn = Head(queue).txn)
           \/ \E op \in {"install", "remove", "finish", "abandon"}, t \in Txn :
                /\ Enqueue(op, t) /\ (op # "remove" => t \in Job) /\ (op = "remove" => t \in Remover)
                /\ op = "install" => run[t] = "commit" /\ run'[t] = "install" /\ UNCHANGED active
                /\ op = "finish" => job'[t].phase = "complete" /\ Published(t)'
<1>0. TypeOK /\ Phases /\ Startup
  BY DEF Inductive
<1> DEFINE Joins(op, t) ==
       /\ Enqueue(op, t) /\ (op # "remove" => t \in Job) /\ (op = "remove" => t \in Remover)
       /\ op = "install" => run[t] = "commit" /\ run'[t] = "install" /\ UNCHANGED active
       /\ op = "finish" => job'[t].phase = "complete" /\ Published(t)'
<1>1. CASE Crash \/ Closed
  BY <1>1 DEF Crash, Closed, Stops
<1>2. CASE TakeInstall \/ TakeRemoval \/ TakeFinish \/ TakeAbandon
  BY <1>2 DEF TakeInstall, TakeRemoval, TakeFinish, TakeAbandon
<1>3. ASSUME NEW j \in Job, QueueInstall(j)
      PROVE  j \in Txn /\ Joins("install", j)
  BY <1>0, <1>3 DEF QueueInstall, Txn, TypeOK
<1>4. ASSUME NEW j \in Job, Complete(j)
      PROVE  j \in Txn /\ Joins("finish", j)
  <2>1. job'[j].phase = "complete"
    BY <1>0, <1>4, SetPhaseMoves DEF Complete, Phase, Terminal, Moves
  <2>2. Published(j)'
    BY <1>0, <1>4, PublishedStays DEF Phases, Complete, Txn
  <2> QED
    BY <1>4, <2>1, <2>2 DEF Complete, Txn
<1>5. ASSUME NEW j \in Job, QueueAbandon(j)
      PROVE  j \in Txn /\ Joins("abandon", j)
  BY <1>5 DEF QueueAbandon, Txn
<1>6. ASSUME NEW x \in Remover, JournalRemoval(x)
      PROVE  x \in Txn /\ Joins("remove", x)
  BY <1>6 DEF JournalRemoval, Txn
<1>7. ASSUME NEW j \in Job, RecoverJob(j), j \in boot.results
      PROVE  j \in Txn /\ Joins("finish", j)
  <2>1. job'[j].phase = "complete"
    BY <1>0, <1>7, SetPhaseMoves DEF RecoverJob, Phase, Terminal, Moves
  <2>2. Published(j)'
    BY <1>0, <1>7, PublishedStays DEF Startup, RecoverJob, Txn
  <2> QED
    BY <1>7, <2>1, <2>2 DEF RecoverJob, Txn
<1>8. ASSUME NEW j \in Job, RecoverJob(j), j \notin boot.results
      PROVE  UNCHANGED queue
  BY <1>8 DEF RecoverJob
<1> HIDE DEF Joins
<1>9. \/ UNCHANGED queue
      \/ Crash \/ Closed \/ TakeInstall \/ TakeRemoval \/ TakeFinish \/ TakeAbandon
      \/ \E op \in {"install", "remove", "finish", "abandon"}, t \in Txn : Joins(op, t)
  BY <1>3, <1>4, <1>5, <1>6, <1>7, <1>8
  DEF Next, Clients, Jobs, Transactions, Process, vars, clients, process, Start, ConfirmCommit,
       Cancel, Resume, Replan, PlanRemoval, Planned, PrecommitEnds, PrecommitLost, CompleteFails,
       CommitFails, CommitLost, Replanned, Prepare, Check, CheckFails, WriteFails, Throw,
       CommitAdapter, RemoveOwner,
       AdaptersDone, PublishProvenance, PublishOwnership, PublishInstalled, RemovalsDone,
       InstallDone, Close, Open, Replayed, Opened, ReplayNext
<1> QED
  BY <1>1, <1>2, <1>9 DEF Joins

\* What becomes of the operation that runs.
LEMMA ActiveBecomes ==
    ASSUME TypeOK, [Next]_vars
    PROVE  \/ active' = active \/ active' = None \/ active'.op = "replay"
           \/ active # None /\ active'.op = active.op /\ active'.txn = active.txn
           \/ /\ active = None /\ queue # <<>> /\ queue' = Tail(queue)
              /\ active'.op = Head(queue).op /\ active'.txn = Head(queue).txn
<1>1. CASE Prepare \/ Check \/ AdaptersDone \/ PublishProvenance \/ PublishOwnership
           \/ PublishInstalled \/ \E r \in Release : CommitAdapter(r) \/ RemoveOwner(r)
  <2>1. active # None /\ active \in Active
    BY <1>1, ActiveMoves DEF Prepare, Check, AdaptersDone, PublishProvenance,
       PublishOwnership, PublishInstalled, CommitAdapter, RemoveOwner, At
  <2> QED
    BY <1>1, <2>1 DEF Prepare, Check, AdaptersDone, PublishProvenance, PublishOwnership,
       PublishInstalled, CommitAdapter, RemoveOwner, Go, Active
<1>2. CASE TakeInstall \/ TakeRemoval
  BY <1>2 DEF TakeInstall, TakeRemoval
<1>3. ASSUME NEW t \in Txn, ReplayNext(t)
      PROVE  active'.op = "replay"
  BY <1>3 DEF ReplayNext
<1> QED
  BY <1>1, <1>2, <1>3, ActiveSteps
  DEF CheckFails, WriteFails, Throw, RemovalsDone, InstallDone, Crash, Close, Closed, Stops, Open,
      Replayed, Opened, RecoverJob

LEMMA QueuedKept == Inductive /\ [Next]_vars => Queued'
<1> SUFFICES ASSUME Inductive, [Next]_vars
             PROVE  Queued'
  OBVIOUS
<1>0. TypeOK /\ TypeOK' /\ Running /\ Queued /\ Phases /\ Journals /\ Startup
  BY TypesKept DEF Inductive
<1>1. queue \in Seq(Operation) /\ Len(queue) \in Nat /\ \A o \in Operation : o.txn \in Txn
  BY <1>0 DEF TypeOK, Operation
<1> DEFINE Good(o) ==
       /\ o.op # "remove" => o.txn \in Job
       /\ o.op = "remove" => o.txn \in Remover
       /\ o.op = "install" =>
            run'[o.txn] = "install" /\ (active' = None \/ active'.op # "install" \/ active'.txn # o.txn)
       /\ o.op = "finish" => job'[o.txn].phase = "complete" /\ Published(o.txn)'
           Alone(q) == \A i, k \in 1..Len(q) :
                          q[i].op = "install" /\ q[k].op = "install" /\ q[i].txn = q[k].txn => i = k
<1>2. Alone(queue)
  BY <1>0 DEF Queued
<1>3. SUFFICES (\A i \in 1..Len(queue') : \A o \in Operation : o = queue'[i] => Good(o)) /\ Alone(queue')
  <2>1. queue' \in Seq(Operation)
    BY <1>0 DEF TypeOK
  <2> SUFFICES ASSUME NEW i \in 1..Len(queue')
               PROVE  LET t == queue'[i].txn IN
                      /\ queue'[i].op # "remove" => t \in Job
                      /\ queue'[i].op = "remove" => t \in Remover
                      /\ queue'[i].op = "install" =>
                           /\ run'[t] = "install"
                           /\ active' = None \/ active'.op # "install" \/ active'.txn # t
                           /\ \A k \in 1..Len(queue') :
                                 queue'[k].op = "install" /\ queue'[k].txn = t => k = i
                      /\ queue'[i].op = "finish" =>
                           /\ job'[t].phase = "complete"
                           /\ journal'[t] # None => journal'[t].target.rev <= installed'.rev
    BY DEF Queued, Published
  <2>2. PICK o \in Operation : o = queue'[i]
    BY <2>1
  <2>3. Good(o) /\ Alone(queue')
    BY <1>3, <2>2
  <2> QED
    BY <2>2, <2>3 DEF Published
\* An operation that keeps waiting stays good.
<1>4. ASSUME NEW i \in 1..Len(queue), NEW o \in Operation, o = queue[i], queue' # <<>>,
             /\ o.op = "install" /\ active = None /\ active' # None /\ active'.op = "install"
                => active'.txn # o.txn
      PROVE  Good(o)
  <2>1. /\ o.op # "remove" => o.txn \in Job
        /\ o.op = "remove" => o.txn \in Remover
        /\ o.op = "install" =>
             run[o.txn] = "install" /\ (active = None \/ active.op # "install" \/ active.txn # o.txn)
        /\ o.op = "finish" => job[o.txn].phase = "complete" /\ Published(o.txn)
    BY <1>0, <1>4 DEF Queued
  <2>2. o.op = "install" => run'[o.txn] = "install"
    BY <1>4, <2>1, JobsWait
  <2>3. o.op = "install" => active' = None \/ active'.op # "install" \/ active'.txn # o.txn
    BY <1>0, <1>4, <2>1, ActiveBecomes
  <2>4. ASSUME o.op = "finish"
        PROVE  job'[o.txn].phase = "complete" /\ Published(o.txn)'
    <3>1. o.txn \in Job /\ o.txn \in Txn
      BY <2>1, <2>4 DEF Txn
    <3>2. journal'[o.txn] = journal[o.txn] \/ journal'[o.txn] = None
      <4>1. run[o.txn] # "install"
        BY <2>1, <2>4, <3>1, <1>0 DEF Phases, Confirmed
      <4> QED
        BY <3>1, <4>1, OnlyInstallsJournal
    <3> QED
      BY <2>1, <2>4, <3>1, <3>2, CompleteIsFinal, PublishedStays
  <2> QED
    BY <2>1, <2>2, <2>3, <2>4
<1> HIDE DEF Good
<1>5. CASE queue' = <<>>
  BY <1>5
<1>6. CASE UNCHANGED queue /\ queue # <<>>
  <2>1. queue # Tail(queue)
    <3>1. Len(Tail(queue)) = Len(queue) - 1
      BY <1>0, <1>6, DequeueMoves
    <3>2. Len(Tail(queue)) # Len(queue)
      BY <1>1, <3>1
    <3> QED
      BY <3>2
  <2>2. active = None /\ active' # None => active'.op = "replay"
    BY <1>0, <1>6, <2>1, ActiveBecomes
  <2> QED
    BY <1>2, <1>4, <1>6, <2>2
<1>7. CASE /\ queue # <<>> /\ queue' = Tail(queue) /\ active = None
           /\ active' = None \/ (active'.op = Head(queue).op /\ active'.txn = Head(queue).txn)
  <2>1. /\ Len(queue') = Len(queue) - 1 /\ Head(queue) = queue[1] /\ Len(queue) \in Nat \ {0}
        /\ \A i \in 1..Len(queue') : queue'[i] = queue[i + 1]
    BY <1>0, <1>7, DequeueMoves
  <2>2. ASSUME NEW i \in 1..Len(queue'), NEW o \in Operation, o = queue'[i]
        PROVE  Good(o)
    <3>1. i + 1 \in 1..Len(queue) /\ o = queue[i + 1] /\ 1 \in 1..Len(queue) /\ i + 1 # 1 /\ queue' # <<>>
      BY <2>1, <2>2
    <3>2. queue[1].op = "install" /\ o.op = "install" => o.txn # queue[1].txn
      BY <1>2, <3>1
    <3>3. CASE o.op = "install"
      BY <1>4, <1>7, <2>1, <3>1, <3>2, <3>3
    <3>4. CASE o.op # "install"
      BY <1>4, <1>7, <2>1, <3>1, <3>4
    <3> QED
      BY <3>3, <3>4
  <2>3. Alone(queue')
    BY <1>2, <2>1
  <2> QED
    BY <2>2, <2>3
<1>8. ASSUME NEW op \in {"install", "remove", "finish", "abandon"}, NEW t \in Txn,
             Enqueue(op, t), op # "remove" => t \in Job, op = "remove" => t \in Remover,
             op = "install" => run[t] = "commit" /\ run'[t] = "install" /\ UNCHANGED active,
             op = "finish" => job'[t].phase = "complete" /\ Published(t)'
      PROVE  (\A i \in 1..Len(queue') : \A o \in Operation : o = queue'[i] => Good(o)) /\ Alone(queue')
  <2>1. /\ Len(queue') = Len(queue) + 1
        /\ \A i \in 1..Len(queue) : queue'[i] = queue[i]
        /\ queue'[Len(queue) + 1].op = op /\ queue'[Len(queue) + 1].txn = t
    BY <1>0, <1>8, EnqueueMoves
  <2>2. queue' # <<>> /\ (queue # <<>> => queue' # Tail(queue))
    BY <1>0, <1>1, <2>1, DequeueMoves
  <2>3. active = None /\ active' # None => active'.op = "replay"
    BY <1>0, <2>2, ActiveBecomes
  <2>4. ASSUME NEW i \in 1..Len(queue'), NEW o \in Operation, o = queue'[i]
        PROVE  Good(o)
    <3>1. CASE i = Len(queue) + 1
      <4>1. o.op = op /\ o.txn = t
        BY <2>1, <2>4, <3>1
      <4>2. op = "install" => active = None \/ active.op # "install" \/ active.txn # t
        BY <1>0, <1>8 DEF Running
      <4> QED
        BY <1>8, <4>1, <4>2 DEF Good
    <3>2. CASE i # Len(queue) + 1
      <4>1. i \in 1..Len(queue) /\ o = queue[i]
        BY <1>1, <2>1, <2>4, <3>2
      <4> QED
        BY <1>4, <2>2, <2>3, <4>1
    <3> QED
      BY <3>1, <3>2
  <2>5. Alone(queue')
    <3>1. \A i \in 1..Len(queue) : queue[i].op = "install" => run[queue[i].txn] = "install"
      BY <1>0 DEF Queued
    <3>2. \A i \in 1..Len(queue) : op = "install" /\ queue[i].op = "install" => queue[i].txn # t
      BY <1>8, <3>1
    <3> QED
      BY <1>1, <1>2, <2>1, <3>2
  <2> QED
    BY <2>4, <2>5
<1> QED
  BY <1>5, <1>6, <1>7, <1>8, QueueSteps

-----------------------------------------------------------------------------
(* The life of the process.                                                *)

\* Until startup has replayed the journals, nothing is asked of the service.
LEMMA NothingElseRuns ==
    ASSUME Inductive, [Next]_vars, server \in {"down", "replaying"}
    PROVE  UNCHANGED <<queue, run, replan, planned>> \/ Stops
<1>0. TypeOK /\ Running /\ Startup
  BY DEF Inductive
<1>1. /\ queue = <<>> /\ (active # None => active.op = "replay")
      /\ \A j \in Job : run[j] = "none" /\ replan[j].at = "none"
      /\ \A x \in Remover : planned[x] = None
      /\ server # "open" /\ server # "closing" /\ server # "resuming"
  BY <1>0 DEF Startup
<1>2. CASE Prepare \/ CheckFails \/ WriteFails \/ InstallDone
  <2>1. active # None /\ active.op = "replay"
    BY <1>1, <1>2 DEF Prepare, CheckFails, WriteFails, InstallDone, At
  <2>2. ~Prepare
    BY <1>0, <2>1 DEF Prepare, At, Running
  <2>3. CASE CheckFails \/ WriteFails
    BY <2>1, <2>3 DEF CheckFails, WriteFails, Throw, clients
  <2>4. CASE InstallDone
    BY <2>1, <2>4 DEF InstallDone, clients
  <2> QED
    BY <1>2, <2>2, <2>3, <2>4
<1>3. ASSUME NEW j \in Job
      PROVE  /\ ~Start(j) /\ ~ConfirmCommit(j) /\ ~Cancel(j) /\ ~Resume(j) /\ ~Replan(j)
             /\ ~Planned(j) /\ ~PrecommitEnds(j) /\ ~PrecommitLost(j) /\ ~QueueInstall(j)
             /\ ~Complete(j) /\ ~CompleteFails(j) /\ ~CommitFails(j) /\ ~CommitLost(j)
             /\ ~QueueAbandon(j) /\ ~Replanned(j) /\ ~RecoverJob(j)
  BY <1>1 DEF Start, ConfirmCommit, Cancel, Resume, Replan, Planned, PrecommitEnds, PrecommitLost,
       QueueInstall, Complete, CompleteFails, CommitFails, CommitLost, QueueAbandon, Replanned,
       RecoverJob
<1>4. /\ ~TakeInstall /\ ~TakeRemoval /\ ~TakeFinish /\ ~TakeAbandon /\ ~Close /\ ~Opened
      /\ \A x \in Remover, r \in Release : ~PlanRemoval(x, r)
      /\ \A x \in Remover : ~JournalRemoval(x)
  BY <1>1 DEF TakeInstall, TakeRemoval, TakeFinish, TakeAbandon, Close, Opened, JournalRemoval,
       PlanRemoval
<1>5. CASE Crash \/ Closed
  BY <1>5 DEF Crash, Closed
<1>6. CASE Check \/ AdaptersDone \/ PublishProvenance \/ PublishOwnership \/ PublishInstalled
           \/ RemovalsDone \/ Open \/ Replayed \/ (\E t \in Txn : ReplayNext(t))
           \/ (\E r \in Release : CommitAdapter(r) \/ RemoveOwner(r)) \/ UNCHANGED vars
  BY <1>6 DEF vars, clients, process, Check, CommitAdapter, RemoveOwner, AdaptersDone,
       PublishProvenance, PublishOwnership, PublishInstalled, RemovalsDone, Open, Replayed,
       ReplayNext
<1> QED
  BY <1>2, <1>3, <1>4, <1>5, <1>6 DEF Next, Clients, Jobs, Transactions, Process

\* How the process gets from one stage of its life to another.
LEMMA ServerSteps ==
    ASSUME Inductive, [Next]_vars
    PROVE  \/ Stops
           \/ /\ server = "replaying" /\ server' = "down" /\ boot' = NoBoot
              /\ active' = None /\ UNCHANGED <<installed, journal, outcome>>
           \/ Close \/ Open \/ Replayed \/ Opened \/ RemovalsDone \/ InstallDone
           \/ \E j \in Job : RecoverJob(j)
           \/ UNCHANGED <<server, boot>>
<1>0. Running
  BY DEF Inductive
<1>1. CASE CheckFails \/ WriteFails
  BY <1>0, <1>1 DEF CheckFails, WriteFails, Throw, Running, At, ledgers
<1> QED
  BY <1>1, ActiveSteps
  DEF TakeInstall, TakeRemoval, Prepare, Check, CommitAdapter, RemoveOwner, AdaptersDone,
      PublishProvenance, PublishOwnership, PublishInstalled, ReplayNext, Crash, Closed

\* Startup starts a job once.
LEMMA RecoveredJobsWait ==
    ASSUME Inductive, [Next]_vars, NEW j \in boot.jobs \cup boot.results
    PROVE  run'[j] = "none" \/ RecoverJob(j)
<1>0. TypeOK /\ Running /\ Startup /\ Phases
  BY DEF Inductive
<1>1. j \in Job /\ run[j] = "none" /\ server \notin {"down", "open", "closing"}
  BY <1>0 DEF Startup, TypeOK, NoBoot
<1>2. run \in [Job -> {"none", "precommit", "commit", "install", "applied", "durable", "refused", "lost"}]
  BY <1>0 DEF TypeOK
<1>3. ASSUME NEW k \in Job,
             \/ Planned(k) \/ PrecommitEnds(k) \/ PrecommitLost(k) \/ QueueInstall(k)
             \/ Complete(k) \/ CompleteFails(k) \/ CommitFails(k) \/ CommitLost(k)
             \/ RecoverJob(k) /\ k # j
      PROVE  run'[j] = "none"
  <2>1. k # j
    BY <1>1, <1>3 DEF Planned, PrecommitEnds, PrecommitLost, QueueInstall, Complete,
                      CompleteFails, CommitFails, CommitLost
  <2> QED
    BY <1>1, <1>2, <1>3, <2>1 DEF Planned, PrecommitEnds, PrecommitLost, QueueInstall, Complete,
                                  CompleteFails, CommitFails, CommitLost, RecoverJob
<1>4. CASE Prepare \/ CheckFails \/ WriteFails \/ InstallDone
  <2>1. active # None /\ active.op \in {"install", "remove", "replay"} /\ active.txn \in Txn
    BY <1>0, <1>4, ActiveMoves DEF Prepare, CheckFails, WriteFails, InstallDone, At, Active
  <2>2. active.op = "install" => active.txn # j
    BY <1>0, <1>1, <2>1 DEF Running
  <2>3. InstallDone => active.op # "remove"
    BY <1>0, <2>1, MarketplaceAssumption DEF Running, InstallDone, At
  <2>4. Prepare => active.op = "install"
    BY <1>0 DEF Running, Prepare, At
  <2> QED
    BY <1>1, <1>2, <1>4, <2>1, <2>2, <2>3, <2>4
    DEF Prepare, CheckFails, WriteFails, Throw, InstallDone
<1>5. CASE Crash \/ Closed
  BY <1>1, <1>5 DEF Crash, Closed, Stops
<1> QED
  BY <1>1, <1>3, <1>4, <1>5
  DEF Next, Clients, Jobs, Transactions, Process, vars, clients, process, Start, ConfirmCommit,
       Cancel, Resume, Replan, PlanRemoval, QueueAbandon, Replanned, TakeInstall, TakeRemoval,
       TakeFinish, TakeAbandon, Check, CommitAdapter, RemoveOwner, AdaptersDone,
       PublishProvenance, PublishOwnership, PublishInstalled, RemovalsDone, JournalRemoval,
       Close, Open, Replayed, Opened, ReplayNext

\* What was applied stays applied.
LEMMA OutcomeStays ==
    ASSUME Inductive, [Next]_vars, NEW j \in Job
    PROVE  \/ outcome'[j] = outcome[j]
           \/ /\ PublishInstalled /\ active.txn = j
              /\ outcome'[j] = IF journal[j].base = journal[j].target THEN "unchanged" ELSE "installed"
<1>0. outcome \in [Job -> {"none", "unchanged", "installed"}]
  BY DEF Inductive, TypeOK
<1>1. CASE PublishInstalled
  BY <1>0, <1>1 DEF PublishInstalled, IsInstall
<1> QED
  BY <1>1, LedgerSteps DEF PublishOwnership, PublishProvenance, CommitAdapter, RemoveOwner

LEMMA StartupKept == Inductive /\ [Next]_vars => Startup'
<1> SUFFICES ASSUME Inductive, [Next]_vars
             PROVE  Startup'
  OBVIOUS
<1>0. TypeOK /\ TypeOK' /\ Running /\ Startup /\ Phases
  BY TypesKept DEF Inductive
<1>1. server' \in {"down", "replaying"} =>
         /\ queue' = <<>>
         /\ \A j \in Job : run'[j] = "none" /\ replan'[j].at = "none" /\ ~replan'[j].fresh
         /\ \A x \in Remover : planned'[x] = None
  <2>1. CASE Stops
    BY <2>1 DEF Stops
  <2>2. CASE ~Stops
    <3>1. server' \in {"down", "replaying"} => server \in {"down", "replaying"}
      BY <1>0, <2>2, ServerSteps DEF Close, Open, Replayed, Opened, RemovalsDone, InstallDone, RecoverJob
    <3> QED
      BY <1>0, <2>2, <3>1, NothingElseRuns DEF Startup
  <2> QED
    BY <2>1, <2>2
<1>2. (server' = "down" => active' = None) /\ (server' = "replaying" /\ active' # None => active'.op = "replay")
  <2>1. CASE Stops
    BY <2>1 DEF Stops
  <2>2. CASE server = "replaying" /\ server' = "down" /\ active' = None
    BY <2>2
  <2>3. CASE Open \/ Replayed
    BY <1>0, <2>3 DEF Open, Replayed, Startup
  <2>4. CASE server' = server
    <3>1. CASE server \in {"down", "replaying"}
      <4>1. ASSUME server = "down"
            PROVE  active' = None
        <5>1. active = None /\ queue = <<>>
          BY <1>0, <4>1 DEF Startup
        <5>2. CASE \E t \in Txn : ReplayNext(t)
          BY <4>1, <5>2 DEF ReplayNext
        <5> QED
          BY <5>1, <5>2, ActiveSteps
          DEF TakeInstall, TakeRemoval, Prepare, Check, CheckFails, WriteFails, CommitAdapter,
              RemoveOwner, AdaptersDone, PublishProvenance, PublishOwnership, PublishInstalled,
              RemovalsDone, InstallDone, At, Crash, Close, Closed, Stops, Open, Replayed, Opened,
              RecoverJob
      <4>2. server = "replaying" /\ active' # None => active'.op = "replay"
        BY <1>0, ActiveBecomes DEF Startup
      <4> QED
        BY <2>4, <4>1, <4>2
    <3> QED
      BY <2>4, <3>1
  <2>5. CASE Close \/ Opened
    BY <2>5 DEF Close, Opened
  <2> QED
    BY <2>1, <2>2, <2>3, <2>4, <2>5, ServerSteps DEF RemovalsDone, InstallDone, RecoverJob
<1>3. server' \in {"down", "open", "closing"} => boot' = NoBoot
  <2>1. CASE RemovalsDone \/ InstallDone
    <3>1. active.op = "replay" => server = "replaying"
      BY <1>0, <2>1 DEF Running, RemovalsDone, InstallDone, At
    <3>2. CASE server = "replaying"
      BY <2>1, <3>2 DEF RemovalsDone, InstallDone
    <3>3. CASE server # "replaying" /\ InstallDone
      BY <1>0, <3>1, <3>3 DEF InstallDone, Startup
    <3>4. CASE server # "replaying" /\ RemovalsDone
      <4>1. server' = server /\ boot' = [boot EXCEPT !.journals = @ \ {active.txn}]
        BY <3>4 DEF RemovalsDone
      <4>2. [NoBoot EXCEPT !.journals = @ \ {active.txn}] = NoBoot
        BY DEF NoBoot
      <4> QED
        BY <1>0, <4>1, <4>2 DEF Startup
    <3> QED
      BY <2>1, <3>2, <3>3, <3>4
  <2> QED
    BY <1>0, <2>1, ServerSteps DEF Stops, Startup, Close, Open, Replayed, Opened, RecoverJob
<1>4. boot \in [journals : SUBSET Txn, jobs : SUBSET Job, results : SUBSET Job]
  BY <1>0 DEF TypeOK
\* The results that are added are those of a replay.
<1>5. CASE InstallDone /\ active.op = "replay"
  <2>1. /\ server = "replaying" /\ server' = server /\ run' = run /\ outcome' = outcome
        /\ boot'.jobs = boot.jobs /\ boot'.results = boot.results \cup {active.txn}
        /\ journal' = journal /\ installed' = installed
    BY <1>0, <1>4, <1>5 DEF InstallDone, At, Running, ledgers
  <2>2. /\ active.txn \in Job /\ outcome[active.txn] # "none" /\ CanApply(active.txn)
        /\ installed = journal[active.txn].target
    BY <1>0, <1>5 DEF InstallDone, At, Running
  <2>3. PICK t \in Job : t = active.txn
    BY <2>2
  <2>4. Published(t)'
    <3>1. t \in Txn /\ installed.rev \in Nat
      BY <1>0 DEF Txn, TypeOK, Installed
    <3> QED
      BY <2>1, <2>2, <2>3, <3>1 DEF Published
  <2>5. \A j \in boot.results : outcome'[j] # "none" /\ Published(j)'
    BY <1>0, <2>1 DEF Startup, Published
  <2>6. \A j \in boot'.jobs \cup boot'.results : run'[j] = "none"
    BY <1>0, <2>1, <2>3 DEF Startup
  <2>7. \A j \in boot'.results : outcome'[j] # "none" /\ Published(j)'
    BY <2>1, <2>2, <2>3, <2>4, <2>5
  <2> QED
    BY <1>1, <1>2, <1>3, <2>6, <2>7 DEF Startup
<1>6. CASE Replayed
  <2>1. /\ server = "replaying" /\ run' = run /\ boot'.jobs \subseteq Job
        /\ boot'.results \subseteq boot.results
        /\ journal' = journal /\ installed' = installed /\ outcome' = outcome
    BY <1>4, <1>6 DEF Replayed, NoBoot, ledgers, process
  <2>2. \A j \in boot'.jobs \cup boot'.results : run'[j] = "none"
    BY <1>0, <2>1 DEF Startup
  <2>3. \A j \in boot'.results : outcome'[j] # "none" /\ Published(j)'
    BY <1>0, <2>1 DEF Startup, Published
  <2> QED
    BY <1>1, <1>2, <1>3, <2>2, <2>3 DEF Startup
<1>7. CASE ~Replayed /\ ~(InstallDone /\ active.op = "replay")
  <2>1. /\ boot'.jobs \subseteq boot.jobs /\ boot'.results \subseteq boot.results
        /\ \A j \in Job : RecoverJob(j) => j \notin boot'.jobs
    BY <1>4, <1>7, ServerSteps DEF Stops, NoBoot, Close, Open, Opened, RemovalsDone, InstallDone,
                                   RecoverJob
  <2>2. ASSUME NEW j \in boot'.jobs \cup boot'.results
        PROVE  run'[j] = "none"
    <3>1. j \in boot.jobs \cup boot.results /\ j \in Job
      BY <1>4, <2>1, <2>2
    <3>2. CASE ~RecoverJob(j)
      BY <3>1, <3>2, RecoveredJobsWait
    <3>3. CASE RecoverJob(j)
      <4>1. j \in boot.results /\ run[j] = "none"
        BY <1>0, <2>1, <2>2, <3>1, <3>3 DEF Startup
      <4> QED
        BY <3>3, <4>1 DEF RecoverJob
    <3> QED
      BY <3>2, <3>3
  <2>3. ASSUME NEW j \in boot'.results
        PROVE  outcome'[j] # "none" /\ Published(j)'
    <3>1. j \in boot.results /\ j \in Job /\ j \in Txn
      BY <1>4, <2>1, <2>3 DEF Txn
    <3>2. outcome[j] # "none" /\ Published(j) /\ run[j] = "none"
      BY <1>0, <3>1 DEF Startup
    <3>3. outcome'[j] # "none"
      BY <1>0, <3>1, <3>2, OutcomeStays
    <3> QED
      BY <3>1, <3>2, <3>3, OnlyInstallsJournal, PublishedStays
  <2> QED
    BY <1>1, <1>2, <1>3, <2>2, <2>3 DEF Startup
<1> QED
  BY <1>5, <1>6, <1>7

-----------------------------------------------------------------------------
(* The jobs.                                                               *)

\* What changes where #runPrecommit or #runCommit of a job has come.
LEMMA RunSteps ==
    ASSUME Inductive, [Next]_vars, NEW j \in Job
    PROVE  \/ run'[j] = run[j] \/ run'[j] = "none"
           \/ Start(j) \/ ConfirmCommit(j) \/ Resume(j) \/ RecoverJob(j)
           \/ run[j] = "commit" /\ run'[j] = "install"
           \/ run[j] = "install" /\ run'[j] \in {"refused", "durable"}
           \/ run[j] = "install" /\ run'[j] = "applied" /\ InstallDone /\ active.txn = j
           \/ run[j] = "applied" /\ run'[j] = "refused"
           \/ PrecommitLost(j) \/ CommitLost(j)
<1>0. TypeOK /\ Running
  BY DEF Inductive
<1>1. run \in [Job -> {"none", "precommit", "commit", "install", "applied", "durable", "refused", "lost"}]
  BY <1>0 DEF TypeOK
<1>2. ASSUME NEW k \in Job,
             \/ Planned(k) \/ PrecommitEnds(k) \/ Complete(k) \/ CommitFails(k)
             \/ k # j /\ (Start(k) \/ ConfirmCommit(k) \/ Resume(k) \/ RecoverJob(k)
                           \/ PrecommitLost(k) \/ CommitLost(k))
      PROVE  run'[j] = run[j] \/ run'[j] = "none"
  BY <1>1, <1>2 DEF Planned, PrecommitEnds, Complete, CommitFails, Start, ConfirmCommit, Resume,
                    RecoverJob, PrecommitLost, CommitLost
<1>3. ASSUME NEW k \in Job, QueueInstall(k)
      PROVE  run'[j] = run[j] \/ (run[j] = "commit" /\ run'[j] = "install")
  BY <1>1, <1>3 DEF QueueInstall
<1>4. CASE Prepare \/ CheckFails \/ WriteFails
  <2>1. active # None /\ (active.op = "install" => run[active.txn] = "install") /\ (Prepare => active.op = "install")
    BY <1>0, <1>4 DEF Prepare, CheckFails, WriteFails, At, Running
  <2> QED
    BY <1>1, <1>4, <2>1 DEF Prepare, CheckFails, WriteFails, Throw
<1>5. CASE InstallDone
  <2>1. active # None /\ active.op \in {"install", "remove", "replay"} /\ active.txn \in Job
    BY <1>0, <1>5, ActiveMoves DEF InstallDone, At, Active, Running
  <2>2. active.op # "replay" => run[active.txn] = "install"
    BY <1>0, <2>1, MarketplaceAssumption DEF Running
  <2> QED
    BY <1>1, <1>5, <2>1, <2>2 DEF InstallDone
<1>6. CASE Crash \/ Closed
  BY <1>6 DEF Crash, Closed, Stops
<1>7. ASSUME NEW k \in Job, CompleteFails(k)
      PROVE  run'[j] = run[j] \/ (run[j] = "applied" /\ run'[j] = "refused")
  BY <1>1, <1>7 DEF CompleteFails
<1> QED
  BY <1>2, <1>3, <1>4, <1>5, <1>6, <1>7
  DEF Next, Clients, Jobs, Transactions, Process, vars, process, Cancel, Replan, PlanRemoval,
      QueueAbandon, Replanned, TakeInstall, TakeRemoval, TakeFinish, TakeAbandon, Check,
      CommitAdapter, RemoveOwner, AdaptersDone, PublishProvenance, PublishOwnership,
      PublishInstalled, RemovalsDone, JournalRemoval, Close, Open, Replayed, Opened, ReplayNext

\* What changes the journal of a job.
LEMMA JournalOfAJob ==
    ASSUME Inductive, [Next]_vars, NEW j \in Job
    PROVE  \/ journal'[j] = journal[j]
           \/ /\ journal'[j] = None /\ Head(queue).txn = j
              /\ TakeFinish \/ (TakeAbandon /\ MayAbandon(j))
           \/ journal[j] = None /\ run[j] = "install"
<1>0. TypeOK /\ Running /\ j \in Txn
  BY DEF Inductive, Txn
<1>1. CASE TakeFinish \/ TakeAbandon
  BY <1>0, <1>1 DEF TakeFinish, TakeAbandon, TypeOK
<1>2. CASE RemovalsDone
  <2>1. active.txn # j
    BY <1>0, <1>2, MarketplaceAssumption DEF RemovalsDone, At, Running
  <2> QED
    BY <1>0, <1>2, <2>1 DEF RemovalsDone, TypeOK
<1>3. CASE Prepare
  BY <1>0, <1>3 DEF Prepare, At, Running, TypeOK
<1>4. ASSUME NEW x \in Remover, JournalRemoval(x)
      PROVE  journal'[j] = journal[j]
  <2>1. x # j
    BY MarketplaceAssumption
  <2> QED
    BY <1>0, <1>4, <2>1 DEF JournalRemoval, TypeOK
<1> QED
  BY <1>1, <1>2, <1>3, <1>4, JournalSteps DEF PlanRemoval

\* What changes a call of replan.
LEMMA ReplanSteps ==
    ASSUME Inductive, [Next]_vars, NEW j \in Job
    PROVE  \/ replan'[j] = replan[j] \/ replan'[j].fresh = FALSE
           \/ Replan(j)
           \/ QueueAbandon(j) /\ replan'[j].at = "queued" /\ replan'[j].fresh = replan[j].fresh
           \/ replan'[j].fresh = replan[j].fresh /\ journal'[j] = None
<1>0. TypeOK /\ Queued
  BY DEF Inductive
<1>1. replan \in ReplanRecords
  BY <1>0 DEF TypeOK, ReplanRecords
<1>2. ASSUME NEW k \in Job, NEW fields, Update(k, fields)
      PROVE  replan'[j] = replan[j] \/ replan'[j].fresh = FALSE
  BY <1>1, <1>2 DEF Update, ReplanRecords
<1>3. \A k \in Job : \A phase : SetPhase(k, phase) => replan'[j] = replan[j] \/ replan'[j].fresh = FALSE
  BY <1>2 DEF SetPhase
<1>4. ASSUME NEW k \in Job,
             \/ Start(k) \/ ConfirmCommit(k) \/ Cancel(k) \/ Resume(k) \/ Planned(k)
             \/ PrecommitEnds(k) \/ Complete(k) \/ CommitFails(k) \/ RecoverJob(k)
      PROVE  replan'[j] = replan[j] \/ replan'[j].fresh = FALSE
  BY <1>2, <1>3, <1>4 DEF Start, ConfirmCommit, Cancel, Resume, Planned, PrecommitEnds, Complete,
                          CommitFails, RecoverJob
<1>5. ASSUME NEW k \in Job, Replanned(k) \/ (Replan(k) /\ k # j)
      PROVE  replan'[j] = replan[j] \/ replan'[j].fresh = FALSE
  BY <1>1, <1>5 DEF Replanned, Replan, ReplanRecords
<1>6. ASSUME NEW k \in Job, QueueAbandon(k)
      PROVE  \/ replan'[j] = replan[j]
             \/ k = j /\ replan'[j].at = "queued" /\ replan'[j].fresh = replan[j].fresh
  BY <1>1, <1>6 DEF QueueAbandon, ReplanRecords
<1>7. CASE TakeAbandon
  <2>1. Head(queue).txn \in Job
    BY <1>0, <1>7, DequeueMoves DEF Queued, TakeAbandon
  <2>2. PICK k \in Job : k = Head(queue).txn
    BY <2>1
  <2>3. CASE journal' = [journal EXCEPT ![k] = None] /\ replan' = [replan EXCEPT ![k].at = "plan"]
    <3>1. k = j => journal'[j] = None
      BY <1>0, <2>3 DEF TypeOK, Txn
    <3> QED
      BY <1>0, <2>3, <3>1, AbandonMoves
  <2>4. CASE replan' = [replan EXCEPT ![k] = [at |-> "none", fresh |-> FALSE]]
    BY <1>1, <2>4 DEF ReplanRecords
  <2> QED
    BY <1>7, <2>2, <2>3, <2>4 DEF TakeAbandon
<1>8. CASE Crash \/ Closed
  BY <1>8 DEF Crash, Closed, Stops
<1> QED
  BY <1>4, <1>5, <1>6, <1>7, <1>8
  DEF Next, Clients, Jobs, Transactions, Process, vars, clients, process, PlanRemoval,
      PrecommitLost, QueueInstall, CompleteFails, CommitLost, TakeInstall, TakeRemoval, TakeFinish, Prepare, Check, CheckFails, WriteFails,
      Throw, CommitAdapter, RemoveOwner, AdaptersDone, PublishProvenance, PublishOwnership,
      PublishInstalled, RemovalsDone, InstallDone, JournalRemoval, Close, Open, Replayed, Opened,
      ReplayNext

\* A step of the job itself, or of its caller, on its snapshot.
Acts(j) ==
    \/ Start(j) \/ ConfirmCommit(j) \/ Cancel(j) \/ Resume(j) \/ Planned(j) \/ PrecommitEnds(j)
    \/ PrecommitLost(j) \/ Complete(j) \/ CommitFails(j) \/ CommitLost(j)
    \/ Replanned(j) \/ RecoverJob(j)

LEMMA PhasesKept == Inductive /\ [Next]_vars => Phases'
<1> SUFFICES ASSUME Inductive, [Next]_vars, NEW j \in Job
             PROVE  /\ job'[j].phase \in {"new", "queued"} => ~job'[j].final
                    /\ job'[j].phase \in {"awaiting-confirmation", "commit", "needs-attention"} => job'[j].final
                    /\ run'[j] = "precommit" =>
                         job'[j].phase \in Terminal \/ (job'[j].phase \in {"queued", "recover"} /\ ~job'[j].final)
                    /\ run'[j] \in Confirmed => job'[j].phase \in {"commit", "recover"} /\ job'[j].final
                    /\ run'[j] = "lost" => job'[j].phase \in {"queued", "commit", "recover", "cancelled"}
                    /\ run'[j] = "applied" => outcome'[j] # "none" /\ Published(j)'
                    /\ journal'[j] # None =>
                         /\ job'[j].phase \in {"commit", "recover", "needs-attention", "failed", "complete"}
                         /\ job'[j].final
                    /\ replan'[j].fresh => job'[j].phase = "needs-attention" /\ run'[j] = "none"
                    /\ replan'[j].fresh /\ replan'[j].at = "plan" => journal'[j] = None
  BY DEF Phases, Terminal, Confirmed
<1>0. TypeOK /\ Running /\ Startup /\ Phases
  BY DEF Inductive
<1>1. /\ job \in [Job -> JobRecord] /\ job[j] \in JobRecord
      /\ job[j].phase \in Phase /\ job[j].final \in BOOLEAN
      /\ run \in [Job -> {"none", "precommit", "commit", "install", "applied", "durable", "refused", "lost"}]
      /\ replan[j].fresh \in BOOLEAN
  BY <1>0 DEF TypeOK, JobRecord
<1>2. /\ job[j].phase \in {"new", "queued"} => ~job[j].final
      /\ job[j].phase \in {"awaiting-confirmation", "commit", "needs-attention"} => job[j].final
      /\ run[j] = "precommit" =>
           job[j].phase \in Terminal \/ (job[j].phase \in {"queued", "recover"} /\ ~job[j].final)
      /\ run[j] \in Confirmed => job[j].phase \in {"commit", "recover"} /\ job[j].final
      /\ run[j] = "lost" => job[j].phase \in {"queued", "commit", "recover", "cancelled"}
      /\ run[j] = "applied" => outcome[j] # "none" /\ Published(j)
      /\ journal[j] # None =>
           /\ job[j].phase \in {"commit", "recover", "needs-attention", "failed", "complete"}
           /\ job[j].final
      /\ replan[j].fresh => job[j].phase = "needs-attention" /\ run[j] = "none"
      /\ replan[j].fresh /\ replan[j].at = "plan" => journal[j] = None
  BY <1>0 DEF Phases
<1>3. CASE Acts(j) /\ ~UNCHANGED <<job, replan, run>>
  <2>1. journal' = journal
    BY <1>3 DEF Acts, Start, ConfirmCommit, Cancel, Resume, Planned, PrecommitEnds, PrecommitLost,
                Complete, CommitFails, CommitLost, Replanned, RecoverJob
  <2>2. CASE Start(j)
    <3>1. [phase |-> "queued", final |-> FALSE, pinned |-> installed.rev] \in JobRecord
      BY <1>0 DEF TypeOK, Installed, JobRecord, Phase
    <3>2. Moves(j, "queued", FALSE)
      BY <1>0, <2>2, <3>1, UpdateMoves DEF Start
    <3>3. run'[j] = "precommit" /\ journal[j] = None
      BY <1>1, <1>2, <2>2 DEF Start
    <3> QED
      BY <2>1, <3>2, <3>3 DEF Moves, Confirmed
  <2>3. CASE ConfirmCommit(j)
    <3>1. Moves(j, "commit", job[j].final)
      BY <1>0, <2>3, SetPhaseMoves DEF ConfirmCommit, Phase
    <3>2. run'[j] = "commit" /\ journal[j] = None /\ job[j].final
      BY <1>1, <1>2, <2>3 DEF ConfirmCommit
    <3> QED
      BY <2>1, <3>1, <3>2 DEF Moves
  <2>4. CASE Cancel(j)
    <3>1. Moves(j, "cancelled", job[j].final)
      BY <1>0, <2>4, SetPhaseMoves DEF Cancel, Phase, Terminal
    <3>2. run' = run /\ journal[j] = None /\ run[j] \notin Confirmed
      BY <1>1, <1>2, <2>4 DEF Cancel
    <3> QED
      BY <2>1, <3>1, <3>2 DEF Moves, Terminal, Confirmed
  <2>5. CASE Resume(j)
    <3>1. Moves(j, "recover", job[j].final)
      BY <1>0, <2>5, SetPhaseMoves DEF Resume, Phase
    <3>2. run'[j] = "commit" /\ job[j].final
      BY <1>1, <1>2, <2>5 DEF Resume
    <3> QED
      BY <2>1, <3>1, <3>2 DEF Moves
  <2>6. CASE Planned(j)
    <3> DEFINE fields == [job[j] EXCEPT !.phase = "awaiting-confirmation", !.final = TRUE]
    <3>1. fields \in JobRecord /\ fields.phase = "awaiting-confirmation" /\ fields.final = TRUE
      BY <1>1 DEF JobRecord, Phase
    <3>2. Update(j, fields)
      BY <2>6 DEF Planned
    <3>3. Moves(j, "awaiting-confirmation", TRUE)
      <4> HIDE DEF fields
      <4> QED
        BY <1>0, <3>1, <3>2, UpdateMoves
    <3>4. run'[j] = "none" /\ journal[j] = None
      BY <1>1, <1>2, <2>6 DEF Planned, Terminal
    <3> QED
      BY <2>1, <3>3, <3>4 DEF Moves, Confirmed
  <2>7. CASE PrecommitEnds(j)
    <3>1. run'[j] = "none"
      BY <1>1, <2>7 DEF PrecommitEnds
    <3>2. CASE job[j].phase \in Terminal
      <4>1. job' = job /\ replan' = replan
        BY <2>7, <3>2 DEF PrecommitEnds
      <4> QED
        BY <1>2, <2>1, <3>1, <4>1 DEF Confirmed
    <3>3. CASE job[j].phase \notin Terminal
      <4>1. SetPhase(j, "recover") \/ SetPhase(j, "failed")
        BY <2>7, <3>3 DEF PrecommitEnds
      <4>2. Moves(j, "recover", job[j].final) \/ Moves(j, "failed", job[j].final)
        BY <1>0, <4>1, SetPhaseMoves DEF Phase, Terminal
      <4>3. journal[j] = None
        BY <1>2, <2>7, <3>3 DEF PrecommitEnds
      <4> QED
        BY <2>1, <3>1, <4>2, <4>3 DEF Moves, Confirmed
    <3> QED
      BY <3>2, <3>3
  <2>8. CASE Complete(j)
    <3>1. Moves(j, "complete", job[j].final)
      BY <1>0, <2>8, SetPhaseMoves DEF Complete, Phase, Terminal
    <3>2. run'[j] = "none"
      BY <1>1, <2>8 DEF Complete
    <3> QED
      BY <1>2, <2>1, <3>1, <3>2 DEF Moves, Confirmed
  <2>9. CASE CommitFails(j)
    <3>1. Moves(j, "needs-attention", job[j].final) \/ Moves(j, "failed", job[j].final)
      BY <1>0, <2>9, SetPhaseMoves DEF CommitFails, Phase, Terminal
    <3>2. run'[j] = "none" /\ job[j].final
      BY <1>1, <1>2, <2>9 DEF CommitFails, Confirmed
    <3> QED
      BY <2>1, <3>1, <3>2 DEF Moves, Confirmed
  <2>10. CASE Replanned(j)
    <3>1. replan'[j].fresh = FALSE /\ run' = run
      BY <1>0, <2>10 DEF Replanned, TypeOK
    <3>2. CASE job' = job
      BY <1>0, <1>1, <1>2, <2>1, <2>10, <3>1, <3>2, PublishedStays DEF Replanned, Txn
    <3>3. CASE job' # job
      <4>1. /\ job'[j] = [job[j] EXCEPT !.phase = "awaiting-confirmation"]
            /\ job[j].phase = "needs-attention" /\ replan[j].fresh /\ replan[j].at = "plan"
        BY <1>1, <2>10, <3>3 DEF Replanned
      <4>2. job'[j].phase = "awaiting-confirmation" /\ job'[j].final = job[j].final
        BY <1>1, <4>1 DEF JobRecord
      <4> QED
        BY <1>2, <2>1, <3>1, <4>1, <4>2 DEF Confirmed
    <3> QED
      BY <3>2, <3>3
  <2>11. CASE RecoverJob(j) /\ j \in boot.results
    <3>1. Moves(j, "complete", job[j].final)
      BY <1>0, <1>3, <2>11, SetPhaseMoves DEF RecoverJob, Phase, Terminal
    <3>2. run'[j] = "none"
      BY <1>0, <2>11 DEF RecoverJob, Startup
    <3> QED
      BY <1>2, <2>1, <3>1, <3>2 DEF Moves, Confirmed
  <2>12. CASE RecoverJob(j) /\ j \notin boot.results
    <3>1. /\ SetPhase(j, "recover") /\ job[j].phase \in {"queued", "commit", "recover"}
          /\ run'[j] = IF job[j].phase # "queued" /\ job[j].final THEN "commit" ELSE "precommit"
      BY <1>1, <1>3, <2>12 DEF RecoverJob
    <3>2. Moves(j, "recover", job[j].final)
      BY <1>0, <3>1, SetPhaseMoves DEF Phase
    <3> QED
      BY <1>1, <1>2, <2>1, <3>1, <3>2 DEF Moves, Confirmed
  <2>13. CASE PrecommitLost(j) \/ CommitLost(j)
    <3>1. run'[j] = "lost" /\ job' = job /\ replan' = replan
      BY <1>1, <2>13 DEF PrecommitLost, CommitLost, clients
    <3>2. job[j].phase \in {"queued", "commit", "recover"} /\ ~replan[j].fresh
      BY <1>2, <2>13 DEF PrecommitLost, CommitLost, Confirmed
    <3> QED
      BY <1>2, <2>1, <3>1, <3>2 DEF Confirmed
  <2> QED
    BY <1>3, <2>2, <2>3, <2>4, <2>5, <2>6, <2>7, <2>8, <2>9, <2>10, <2>11, <2>12, <2>13 DEF Acts
<1>4. CASE ~Acts(j) \/ UNCHANGED <<job, replan, run>>
  <2>1. job'[j] = job[j]
    BY <1>4, JobSteps DEF Acts
  <2>2. \/ run'[j] = run[j] \/ run'[j] = "none"
        \/ run[j] = "commit" /\ run'[j] = "install"
        \/ run[j] = "install" /\ run'[j] \in {"refused", "durable"}
        \/ run[j] = "install" /\ run'[j] = "applied" /\ InstallDone /\ active.txn = j
        \/ run[j] = "applied" /\ run'[j] = "refused"
    BY <1>4, RunSteps DEF Acts
  <2>3. /\ run'[j] = "precommit" => run[j] = "precommit"
        /\ run'[j] \in Confirmed => run[j] \in Confirmed
        /\ run'[j] = "lost" => run[j] = "lost"
    BY <2>2 DEF Confirmed
  <2>4. run'[j] = "applied" => outcome'[j] # "none" /\ Published(j)'
    <3>1. CASE run[j] = "applied"
      <4>1. outcome'[j] # "none"
        BY <1>2, <3>1, OutcomeStays
      <4> QED
        BY <1>2, <3>1, <4>1, OnlyInstallsJournal, PublishedStays DEF Txn
    <3>2. CASE InstallDone /\ active.txn = j
      <4>1. outcome[j] # "none" /\ installed = journal[j].target
        BY <1>0, <3>2 DEF InstallDone, At, Running
      <4>2. UNCHANGED <<installed, journal, outcome>> /\ installed.rev \in Nat
        BY <1>0, <3>2 DEF InstallDone, ledgers, TypeOK, Installed
      <4> QED
        BY <4>1, <4>2 DEF Published
    <3> QED
      BY <2>2, <3>1, <3>2
  <2>5. journal'[j] # None =>
           /\ job'[j].phase \in {"commit", "recover", "needs-attention", "failed", "complete"}
           /\ job'[j].final
    <3>1. journal'[j] # None => journal[j] # None \/ run[j] = "install"
      BY JournalOfAJob
    <3> QED
      BY <1>2, <2>1, <3>1 DEF Confirmed
  <2>6. replan'[j].fresh => replan[j].fresh \/ Replan(j)
    BY <1>1, ReplanSteps
  <2>7. replan'[j].fresh => job'[j].phase = "needs-attention" /\ run'[j] = "none"
    <3>1. Replan(j) => job[j].phase = "needs-attention"
      BY DEF Replan
    <3>2. job[j].phase = "needs-attention" => run[j] = "none"
      BY <1>1, <1>2 DEF Confirmed, Terminal
    <3> QED
      BY <1>2, <2>1, <2>2, <2>6, <3>1, <3>2
  <2>8. replan'[j].fresh /\ replan'[j].at = "plan" => journal'[j] = None
    <3>1. Replan(j) => replan'[j].at = "read"
      BY <1>0 DEF Replan, TypeOK
    <3>2. replan'[j] = replan[j] /\ replan[j].fresh /\ replan[j].at = "plan" => journal'[j] = None
      BY <1>2, JournalOfAJob
    <3> QED
      BY <1>1, <3>1, <3>2, ReplanSteps
  <2> QED
    BY <1>2, <2>1, <2>3, <2>4, <2>5, <2>7, <2>8 DEF Confirmed
<1> QED
  BY <1>3, <1>4

LEMMA OutcomesKept == Inductive /\ [Next]_vars => Outcomes'
<1> SUFFICES ASSUME Inductive, [Next]_vars, NEW j \in Job
             PROVE  /\ job'[j].phase = "complete" => outcome'[j] # "none"
                    /\ outcome'[j] = "installed" /\ job'[j].phase # "complete" => journal'[j] # None
                    /\ outcome'[j] = "installed" /\ journal'[j] # None =>
                         journal'[j].base.rev < journal'[j].target.rev /\ Published(j)'
  BY DEF Outcomes, Published
<1>0. TypeOK /\ Running /\ Startup /\ Phases /\ Outcomes /\ Queued /\ Journals /\ j \in Txn
  BY DEF Inductive, Txn
<1>1. job'[j].phase = "complete" => outcome'[j] # "none"
  <2>1. outcome[j] # "none" => outcome'[j] # "none"
    BY OutcomeStays
  <2>2. CASE Acts(j) /\ job'[j] # job[j] /\ job'[j].phase = "complete" /\ outcome[j] = "none"
    <3>1. \A fields \in JobRecord : Update(j, fields) => fields.phase = "complete"
      BY <1>0, <2>2, UpdateMoves DEF Moves
    <3>2. \A phase \in Phase : SetPhase(j, phase) => phase = "complete"
      BY <1>0, <2>2, SetPhaseMoves DEF Moves
    <3>3. run[j] # "applied" /\ j \notin boot.results
      BY <1>0, <2>2 DEF Phases, Startup
    <3>4. ~Start(j) /\ ~Planned(j) /\ ~Replanned(j)
      <4>1. [phase |-> "queued", final |-> FALSE, pinned |-> installed.rev] \in JobRecord
        BY <1>0 DEF TypeOK, Installed, JobRecord, Phase
      <4>2. job[j] \in JobRecord /\ job \in [Job -> JobRecord]
        BY <1>0 DEF TypeOK
      <4> DEFINE fields == [job[j] EXCEPT !.phase = "awaiting-confirmation", !.final = TRUE]
                 other == [job[j] EXCEPT !.phase = "awaiting-confirmation"]
      <4>3. fields \in JobRecord /\ fields.phase = "awaiting-confirmation" /\ other.phase = "awaiting-confirmation"
        BY <4>2 DEF JobRecord, Phase
      <4>4. Planned(j) => Update(j, fields)
        BY DEF Planned
      <4>5. Replanned(j) => job'[j] = other \/ job'[j] = job[j]
        BY <4>2 DEF Replanned
      <4> HIDE DEF fields, other
      <4> QED
        BY <2>2, <3>1, <4>1, <4>3, <4>4, <4>5 DEF Start
    <3> QED
      BY <2>2, <3>2, <3>3, <3>4 DEF Acts, ConfirmCommit, Cancel, Resume, PrecommitEnds, PrecommitLost,
           Complete, CommitFails, CommitLost, RecoverJob, Phase, Terminal
  <2> QED
    BY <1>0, <2>1, <2>2, JobSteps DEF Outcomes, Acts
<1>2. CASE outcome'[j] = outcome[j] /\ outcome[j] = "installed"
  <2>1. journal[j] # None => journal[j].base.rev < journal[j].target.rev /\ Published(j)
    BY <1>0, <1>2 DEF Outcomes
  <2>2. journal[j] = None => job[j].phase = "complete" /\ run[j] # "install"
    BY <1>0, <1>2 DEF Outcomes, Phases, Confirmed
  <2>3. CASE journal[j] = None
    BY <1>1, <2>2, <2>3, JournalOfAJob, CompleteIsFinal
  <2>4. CASE journal[j] # None /\ journal'[j] = journal[j]
    BY <1>0, <1>1, <2>1, <2>4, PublishedStays
  <2>5. CASE journal[j] # None /\ journal'[j] # journal[j]
    <3>1. Head(queue).txn = j /\ journal'[j] = None /\ (TakeFinish \/ (TakeAbandon /\ MayAbandon(j)))
      BY <2>5, JournalOfAJob
    <3>2. ~MayAbandon(j)
      <4>1. journal[j].base.rev \in Nat /\ journal[j].target.rev \in Nat
        BY <1>0, <2>5, JournalFields DEF Installed
      <4> QED
        BY <2>1, <2>5, <4>1 DEF MayAbandon, Published
    <3>3. job[j].phase = "complete"
      BY <1>0, <3>1, <3>2, DequeueMoves DEF TakeFinish, Queued
    <3> QED
      BY <1>1, <3>1, <3>3, CompleteIsFinal
  <2> QED
    BY <2>3, <2>4, <2>5
<1>3. CASE PublishInstalled /\ active.txn = j
           /\ outcome'[j] = IF journal[j].base = journal[j].target THEN "unchanged" ELSE "installed"
  <2>1. journal[j] # None /\ GoodJournal(j, journal[j]) /\ installed' = journal[j].target /\ journal' = journal
    BY <1>3, Publishing DEF PublishInstalled, At
  <2>2. outcome'[j] = "installed" => journal[j].base.rev < journal[j].target.rev
    BY <1>3, <2>1 DEF GoodJournal
  <2>3. journal[j].target.rev \in Nat
    BY <1>0, <2>1, JournalFields DEF Installed
  <2> QED
    BY <1>1, <2>1, <2>2, <2>3 DEF Published
<1> QED
  BY <1>1, <1>2, <1>3, OutcomeStays

-----------------------------------------------------------------------------
(* The theorems.                                                           *)

LEMMA InductiveStarts == Init => Inductive
<1> SUFFICES ASSUME Init
             PROVE  Inductive
  OBVIOUS
<1>1. TypeOK
  BY TypesStart
<1>2. /\ active = None /\ server = "down" /\ boot = NoBoot /\ queue = <<>>
      /\ \A t \in Txn : journal[t] = None
      /\ \A x \in Remover : planned[x] = None
      /\ \A j \in Job : /\ job[j].phase = "new" /\ ~job[j].final /\ run[j] = "none"
                        /\ replan[j].at = "none" /\ ~replan[j].fresh /\ outcome[j] = "none"
      /\ installed.rev = ownership.rev
      /\ \A r \in Release : installed.by[r] = None /\ ownership.of[r] = {}
  BY DEF Init
<1>3. Journals /\ InstalledIsBacked /\ Explained /\ Running /\ Committed
  BY <1>2 DEF Journals, InstalledIsBacked, IsInstalled, Explained, LedgersReadable, Agree, Running,
              Committed
<1>4. Queued /\ Startup /\ Phases /\ Outcomes
  BY <1>2, MarketplaceAssumption
  DEF Queued, Startup, Phases, Outcomes, Confirmed, Terminal, Txn, NoBoot
<1> QED
  BY <1>1, <1>3, <1>4 DEF Inductive

LEMMA InductiveKept == Inductive /\ [Next]_vars => Inductive'
BY TypesKept, JournalsKept, BackedKept, ExplainedKept, RunningKept, CommittedKept, QueuedKept,
   StartupKept, PhasesKept, OutcomesKept DEF Inductive

LEMMA InductiveAlways == Spec => []Inductive
BY InductiveStarts, InductiveKept, PTL DEF Spec

\* The transactions, the jobs and the ledgers keep their types: a journal always
\* holds two whole states of both ledgers (_prepare and removeMembership of
\* MarketplaceTransactionCoordinator), whatever fails and whenever it stops.
THEOREM MarketplaceTypeCorrect == Spec => []TypeOK
<1>1. Inductive => TypeOK
  BY DEF Inductive
<1> QED
  BY InductiveAlways, <1>1, PTL

\* What the installed ledger says is installed was put there: adapters, receipts
\* and provenance go before it in applyInstall, recoverPending does them again
\* after a stop between any two writes, and a removal takes an adapter's effect
\* back only after the ledger that no longer lists the release.
THEOREM InstalledReleasesAreBacked == Spec => []InstalledIsBacked
<1>1. Inductive => InstalledIsBacked
  BY DEF Inductive
<1> QED
  BY InductiveAlways, <1>1, PTL

\* The ledgers differ only between the two writes of a transaction whose journal
\* is on disk, and not once startup has replayed the journals: the comparison
\* that follows recoverPending never stops it.
THEOREM LedgersAreExplained == Spec => []LedgersExplained
<1>1. Inductive => LedgersExplained
  BY DEF Inductive, Explained, LedgersExplained, Explains
<1> QED
  BY InductiveAlways, <1>1, PTL

\* A snapshot tells what became of its transaction: a job is complete only when
\* it was applied, replan and cancel never touch one whose releases were
\* installed, and one that fails after that keeps the journal that completes it.
THEOREM OutcomesAreTrue == Spec => []OutcomeIsTrue
<1>1. Inductive => OutcomeIsTrue
  <2> SUFFICES ASSUME Inductive, NEW j \in Job
               PROVE  /\ job[j].phase = "complete" => outcome[j] # "none"
                      /\ job[j].phase \in {"queued", "awaiting-confirmation", "cancelled"}
                          => outcome[j] # "installed"
                      /\ job[j].phase = "failed" /\ outcome[j] = "installed" => journal[j] # None
    BY DEF OutcomeIsTrue
  <2> QED
    BY DEF Inductive, Outcomes, Phases
<1> QED
  BY InductiveAlways, <1>1, PTL

=============================================================================
