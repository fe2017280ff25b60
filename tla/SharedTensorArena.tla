-------------------------- MODULE SharedTensorArena --------------------------
(***************************************************************************)
(* The file-backed arena through which the supervisor, a worker and a      *)
(* client exchange large tensors (src/server/headless/SharedTensorArena.js)*)
(* and the validation a reader makes of a reference into it.               *)
(*                                                                         *)
(* The arena serialises its own operations behind a promise (writeTail);   *)
(* readers are other processes and read the file at any moment, between    *)
(* any two writes.  Sizes and offsets are counted in units: a block of n   *)
(* units is one of header and n - 1 of payload.  Every publisher passes    *)
(* one number for the generation and the sequence, so a header carries     *)
(* one.  Two payloads have the same digest only if they are equal.  The    *)
(* token, the file's mode and the tensor's specification hash are left     *)
(* out: they are fixed for an arena and its readers.                       *)
(***************************************************************************)
EXTENDS Integers, Sequences

CONSTANTS
    Size,         \* sizeBytes, in units
    Generations,  \* SHARED_TENSOR_GENERATIONS
    Content,      \* what a payload can be
    Caller        \* who waits for the answer to a publishTensor

ASSUME ArenaAssumption == Size \in Nat \ {0} /\ Generations \in Nat

VARIABLES
    cells,        \* the file, a unit to a cell
    blocks,       \* allocations
    tail,         \* the operations chained on writeTail, the one running first
    stage,        \* how far the running operation is
    placed,       \* the headerOffset of the running operation
    written,      \* the payload units it has written
    closed,       \* closed
    unlinked      \* close has removed the file

arenaVars == <<cells, blocks, tail, stage, placed, written, closed, unlinked>>

Unit == 0..(Size - 1)

\* What a unit of the file holds.  Absent is a unit beyond the end of a
\* truncated file; Zero a unit never written, or whose magic was erased.
Header(g, n, c) == [gen |-> g, len |-> n, digest |-> c]
Payload(c, i) == [content |-> c, part |-> i]
Zero == [zero |-> TRUE]
Absent == [absent |-> TRUE]

Cell == [gen: Nat, len: Nat, digest: Content] \cup [content: Content, part: Nat]
          \cup {Zero, Absent}

\* An allocation; content is a ghost, what its publisher gave it.
Block == [off: Unit, len: Nat \ {0}, gen: Nat, retained: BOOLEAN, count: Nat,
          content: Content]

PublishRequest == [op: {"publish"}, by: Caller, len: Nat \ {0}, gen: Nat,
                   retained: BOOLEAN, content: Content]
ReferenceRequest == [op: {"release", "retain"}, off: Int]
InvalidateRequest == [op: {"invalidate"}]
Request == PublishRequest \cup ReferenceRequest \cup InvalidateRequest

Running(op) == tail # <<>> /\ Head(tail).op = op

\* The operation running is over; its caller goes on in the same turn and may
\* ask for more.
Over(more) == tail' = Tail(tail) \o more /\ stage' = "waiting"

(* Allocation *)

RetireM(bs, g) == {b \in bs : b.gen + Generations > g}

FreeM(at, n, bs) ==
    /\ at + n <= Size
    /\ \A b \in bs : b.off + b.len <= at \/ at < b.off

\* _retireTransientAllocations: what a response published Generations
\* responses ago is given up, except what is retained.
Retire(bs, g) == {b \in bs : b.retained \/ b.gen + Generations > g}

Free(at, n, bs) ==
    /\ at + n <= Size
    /\ \A b \in bs : b.off + b.len <= at \/ at + n <= b.off

\* _allocate: a scan by offset, whose cursor is 0 or the end of a block.
Gaps(n, bs) ==
    {at \in {0} \cup {b.off + b.len : b \in bs} : Free(at, n, bs)}

(* publishTensor *)

\* The arena is closed, or has no room: the publication throws.
PublishFails(more) ==
    LET r == Head(tail) IN
    /\ Running("publish") /\ stage = "waiting"
    /\ blocks' = IF closed THEN blocks ELSE Retire(blocks, r.gen)
    /\ closed \/ Gaps(r.len, blocks') = {}
    /\ Over(more)
    /\ UNCHANGED <<cells, placed, written, closed, unlinked>>

Place ==
    LET r == Head(tail) IN
    /\ Running("publish") /\ stage = "waiting"
    /\ ~closed
    /\ blocks' = Retire(blocks, r.gen)
    /\ \E at \in Gaps(r.len, blocks') :
         /\ \A other \in Gaps(r.len, blocks') : at <= other
         /\ placed' = at
    /\ stage' = "payload"
    /\ written' = 0
    /\ UNCHANGED <<cells, tail, closed, unlinked>>

WritePayload ==
    LET r == Head(tail) IN
    /\ Running("publish") /\ stage = "payload"
    /\ written < r.len - 1
    /\ written' = written + 1
    /\ cells' = [cells EXCEPT ![placed + written + 1] = Payload(r.content, written + 1)]
    /\ UNCHANGED <<blocks, tail, stage, placed, closed, unlinked>>

\* The header last: from here on a reader may accept the block.
WriteHeader(more) ==
    LET r == Head(tail) IN
    /\ Running("publish") /\ stage = "payload"
    /\ written = r.len - 1
    /\ cells' = [cells EXCEPT ![placed] = Header(r.gen, r.len, r.content)]
    /\ blocks' = blocks \cup
         {[off |-> placed, len |-> r.len, gen |-> r.gen, retained |-> r.retained,
           count |-> IF r.retained THEN 1 ELSE 0, content |-> r.content]}
    /\ Over(more)
    /\ UNCHANGED <<placed, written, closed, unlinked>>

\* What publishTensor returns; content is a ghost.
ReferenceTo(r, at) == [off |-> at, len |-> r.len, gen |-> r.gen, content |-> r.content]

(* retain, release: by offset alone *)

At(off) == {b \in blocks : b.off = off}

Retain ==
    /\ Running("retain") /\ stage = "waiting"
    /\ blocks' = {IF b.off = Head(tail).off /\ b.retained
                    THEN [b EXCEPT !.count = @ + 1] ELSE b : b \in blocks}
    /\ Over(<<>>)
    /\ UNCHANGED <<cells, placed, written, closed, unlinked>>

\* Closed, unknown offset, or one of several holders: nothing is freed.
ReleaseKeeps ==
    LET off == Head(tail).off IN
    /\ Running("release") /\ stage = "waiting"
    /\ closed \/ \A b \in At(off) : b.count > 1
    /\ blocks' = IF closed THEN blocks
                 ELSE {IF b.off = off THEN [b EXCEPT !.count = @ - 1] ELSE b : b \in blocks}
    /\ Over(<<>>)
    /\ UNCHANGED <<cells, placed, written, closed, unlinked>>

ReleaseFrees ==
    /\ Running("release") /\ stage = "waiting"
    /\ ~closed
    /\ \E b \in At(Head(tail).off) :
         /\ b.count <= 1
         /\ blocks' = blocks \ {b}
         /\ placed' = b.off
    /\ stage' = "magic"
    /\ UNCHANGED <<cells, tail, written, closed, unlinked>>

EraseMagic ==
    /\ Running("release") /\ stage = "magic"
    /\ cells' = [cells EXCEPT ![placed] = Zero]
    /\ Over(<<>>)
    /\ UNCHANGED <<blocks, placed, written, closed, unlinked>>

(* invalidate *)

InvalidateNothing(more) ==
    /\ Running("invalidate") /\ stage = "waiting" /\ closed
    /\ Over(more)
    /\ UNCHANGED <<cells, blocks, placed, written, closed, unlinked>>

Truncate ==
    /\ Running("invalidate") /\ stage = "waiting" /\ ~closed
    /\ cells' = [u \in Unit |-> Absent]
    /\ stage' = "grow"
    /\ UNCHANGED <<blocks, tail, placed, written, closed, unlinked>>

Grow(more) ==
    /\ Running("invalidate") /\ stage = "grow"
    /\ cells' = [u \in Unit |-> Zero]
    /\ blocks' = {}
    /\ Over(more)
    /\ UNCHANGED <<placed, written, closed, unlinked>>

(* close *)

Close ==
    /\ ~closed
    /\ closed' = TRUE
    /\ UNCHANGED <<cells, blocks, tail, stage, placed, written, unlinked>>

\* The operations chained before close are over.
Unlink ==
    /\ closed /\ ~unlinked /\ tail = <<>>
    /\ unlinked' = TRUE
    /\ UNCHANGED <<cells, blocks, tail, stage, placed, written, closed>>

Submit(requests) ==
    /\ tail' = tail \o requests
    /\ UNCHANGED <<cells, blocks, stage, placed, written, closed, unlinked>>

ArenaInit ==
    /\ cells = [u \in Unit |-> Zero]
    /\ blocks = {}
    /\ tail = <<>>
    /\ stage = "waiting"
    /\ placed = 0
    /\ written = 0
    /\ closed = FALSE
    /\ unlinked = FALSE

\* An arena whose users ask for anything, at any moment.
ArenaNext ==
    \/ \E more \in Seq(Request) :
         Submit(more) \/ PublishFails(more) \/ WriteHeader(more)
           \/ InvalidateNothing(more) \/ Grow(more)
    \/ Place \/ WritePayload
    \/ Retain \/ ReleaseKeeps \/ ReleaseFrees \/ EraseMagic
    \/ Truncate
    \/ Close \/ Unlink

ArenaSpec == ArenaInit /\ [][ArenaNext]_arenaVars

ArenaTypeOK ==
    /\ cells \in [Unit -> Cell]
    /\ blocks \subseteq Block
    /\ tail \in Seq(Request)
    /\ stage \in {"waiting", "payload", "magic", "grow"}
    /\ placed \in Unit
    /\ written \in Nat
    /\ closed \in BOOLEAN /\ unlinked \in BOOLEAN

\* No two allocations share a unit and none reaches past the end of the arena,
\* whatever the order of publications, retirements and releases.
BlocksDisjoint ==
    /\ \A b \in blocks : b.off + b.len <= Size
    /\ \A a, b \in blocks : a = b \/ a.off + a.len <= b.off \/ b.off + b.len <= a.off

Holds(b) ==
    /\ cells[b.off] = Header(b.gen, b.len, b.content)
    /\ \A i \in 1..(b.len - 1) : cells[b.off + i] = Payload(b.content, i)

\* An allocation holds what its publisher wrote for as long as it is one: no
\* later write, retirement or release reaches it (publishTensor and release
\* decide before an await and write after it).
BlocksIntact == stage # "grow" => \A b \in blocks : Holds(b)

(* validateSharedTensorReference: the header, the payload, the header again *)

Idle == [stage |-> "idle"]

\* lstat, open and the first read; FALSE when one of them throws.
Readable(ref) == ~unlinked /\ \A i \in 0..(ref.len - 1) : cells[ref.off + i] # Absent

PayloadAt(ref) == [i \in 1..(ref.len - 1) |-> cells[ref.off + i]]

AcceptsM(ref, before, payload, after) ==
    /\ before = after
    /\ "digest" \in DOMAIN before
    /\ before = Header(before.gen, ref.len, before.digest)
    /\ payload = [i \in 1..(ref.len - 1) |-> Payload(before.digest, i)]

Accepts(ref, before, payload, after) ==
    /\ before = after
    /\ "digest" \in DOMAIN before
    /\ before = Header(ref.gen, ref.len, before.digest)
    /\ payload = [i \in 1..(ref.len - 1) |-> Payload(before.digest, i)]
=============================================================================
