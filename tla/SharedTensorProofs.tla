------------------------ MODULE SharedTensorProofs ------------------------
(***************************************************************************)
(* The arena, whatever its size, what is published in it and the order its *)
(* users ask for things in; and the environment that uses it, whatever its *)
(* sensors, captures, calls and restarts.                                  *)
(*                                                                         *)
(* First of ArenaSpec alone: the arena decides and then awaits, so the     *)
(* invariant says what holds of the write under way (Inductive).  Then     *)
(* that the environment keeps its types and, since it asks the arena for   *)
(* requests only (ArenaSteps), inherits what was shown of the arena.       *)
(*                                                                         *)
(* Then what the environment refers to (Holding): every reference that a   *)
(* handler, a frame or a response holds is of a block that no operation    *)
(* still to run retires or releases.  An operation is decided long before  *)
(* it runs, so the invariant speaks of the whole tail: who waits for a     *)
(* publication and with which sequence, and that what is being released is *)
(* nobody's any more, and no block can have taken its place.               *)
(*                                                                         *)
(* Last, what a reader makes of a reference (Reading).  It reads a file in *)
(* which the block may be gone, and knows it by the sequence in its        *)
(* header. Publications run in the order of their sequences, so where the  *)
(* block of a response was, no header with that sequence is ever written   *)
(* again.                                                                  *)
(***************************************************************************)
EXTENDS SharedTensorEnvironment, FiniteSetFacts, SequenceTheorems, TLAPS

-----------------------------------------------------------------------------
(***************************************************************************)
(* The arena: the inductive invariant.                                     *)
(***************************************************************************)

\* The region placed between the decision of _allocate and the registration of
\* the block: no allocation has a unit of it, and what is written so far is in it.
PayloadPlaced ==
    stage = "payload" =>
      /\ Running("publish")
      /\ Free(placed, Head(tail).len, blocks)
      /\ written <= Head(tail).len - 1
      /\ \A i \in 1..written : cells[placed + i] = Payload(Head(tail).content, i)

\* The header a release erases is no longer one of an allocation.
MagicFreed ==
    stage = "magic" =>
      /\ Running("release")
      /\ \A b \in blocks : b.off + b.len <= placed \/ placed < b.off

Growing == stage = "grow" => Running("invalidate")

Inductive ==
    ArenaTypeOK /\ BlocksDisjoint /\ BlocksIntact /\ PayloadPlaced /\ MagicFreed /\ Growing

(* Requests and the tail they wait in *)

\* The running operation of each kind is a request of that kind.
LEMMA RunningRequest ==
    ASSUME ArenaTypeOK
    PROVE  /\ tail # <<>> => Head(tail) \in Request /\ Tail(tail) \in Seq(Request)
           /\ Running("publish") => Head(tail) \in PublishRequest
           /\ Running("release") \/ Running("retain") => Head(tail) \in ReferenceRequest
<1>1. tail \in Seq(Request)
  BY DEF ArenaTypeOK
<1>2. tail # <<>> => Head(tail) \in Request /\ Tail(tail) \in Seq(Request)
  BY <1>1, HeadTailProperties
<1>3. /\ \A r \in PublishRequest : r.op = "publish"
      /\ \A r \in ReferenceRequest : r.op \in {"release", "retain"}
      /\ \A r \in InvalidateRequest : r.op = "invalidate"
  BY DEF PublishRequest, ReferenceRequest, InvalidateRequest
<1> QED
  BY <1>2, <1>3 DEF Running, Request

\* An operation that ends leaves a sequence of requests, none of them started.
LEMMA OverTail ==
    ASSUME ArenaTypeOK, tail # <<>>, NEW more \in Seq(Request), Over(more)
    PROVE  tail' \in Seq(Request) /\ stage' = "waiting"
<1>1. Tail(tail) \in Seq(Request)
  BY RunningRequest
<1> QED
  BY <1>1, ConcatProperties DEF Over

\* The empty sequence is one of requests.
LEMMA NothingMore == <<>> \in Seq(Request)
  BY DEF Request

(* Placing a block *)

\* What _allocate finds is a place inside the arena that no allocation reaches.
LEMMA GapIsFree ==
    ASSUME NEW bs, bs \subseteq Block, NEW n \in Nat \ {0}, NEW at \in Gaps(n, bs)
    PROVE  at \in Unit /\ Free(at, n, bs)
<1>1. Free(at, n, bs)
  BY DEF Gaps
<1>2. at \in {0} \cup {b.off + b.len : b \in bs}
  BY DEF Gaps
<1>3. at \in Nat
  <2>1. CASE at = 0
    BY <2>1
  <2>2. CASE \E b \in bs : at = b.off + b.len
    <3>1. PICK b \in bs : at = b.off + b.len
      BY <2>2
    <3>2. b.off \in Unit /\ b.len \in Nat \ {0}
      BY DEF Block
    <3> QED
      BY <3>1, <3>2, ArenaAssumption DEF Unit
  <2> QED
    BY <1>2, <2>1, <2>2
<1> QED
  BY <1>1, <1>3, ArenaAssumption DEF Free, Unit

\* Retiring allocations keeps the others as they are.
LEMMA RetireKeeps ==
    ASSUME NEW bs, NEW g
    PROVE  Retire(bs, g) \subseteq bs
  BY DEF Retire

\* A place that is free for a set of allocations is free for a part of it.
LEMMA FreeMonotone ==
    ASSUME NEW as, NEW bs, as \subseteq bs, NEW at, NEW n, Free(at, n, bs)
    PROVE  Free(at, n, as)
  BY DEF Free

(* The steps *)

\* A new arena.
LEMMA InitInductive == ArenaInit => Inductive
<1> SUFFICES ASSUME ArenaInit PROVE Inductive
  OBVIOUS
<1>1. ArenaTypeOK
  <2>1. \A u \in Unit : Zero \in Cell
    BY DEF Cell
  <2>2. 0 \in Unit
    BY ArenaAssumption DEF Unit
  <2> QED
    BY <2>1, <2>2, NothingMore DEF ArenaInit, ArenaTypeOK
<1>2. BlocksDisjoint /\ BlocksIntact
  BY DEF ArenaInit, BlocksDisjoint, BlocksIntact
<1>3. PayloadPlaced /\ MagicFreed /\ Growing
  BY DEF ArenaInit, PayloadPlaced, MagicFreed, Growing
<1> QED
  BY <1>1, <1>2, <1>3 DEF Inductive

\* A step that only lengthens the tail, closes the arena or unlinks the file.
LEMMA BystanderStep ==
    ASSUME Inductive,
           (\E more \in Seq(Request) : Submit(more)) \/ Close \/ Unlink
    PROVE  Inductive'
<1> USE DEF Inductive
<1>1. UNCHANGED <<cells, blocks, stage, placed, written>>
  BY DEF Submit, Close, Unlink
<1>2. /\ tail' \in Seq(Request)
      /\ tail # <<>> => tail' # <<>> /\ Head(tail') = Head(tail)
  <2>1. CASE \E more \in Seq(Request) : Submit(more)
    <3>1. PICK more \in Seq(Request) : tail' = tail \o more
      BY <2>1 DEF Submit
    <3>2. tail \in Seq(Request)
      BY DEF ArenaTypeOK
    <3> QED
      BY <3>1, <3>2, ConcatProperties
  <2>2. CASE Close \/ Unlink
    BY <2>2 DEF Close, Unlink, ArenaTypeOK
  <2> QED
    BY <2>1, <2>2
<1>3. closed' \in BOOLEAN /\ unlinked' \in BOOLEAN
  BY DEF Submit, Close, Unlink, ArenaTypeOK
<1>4. ArenaTypeOK'
  BY <1>1, <1>2, <1>3 DEF ArenaTypeOK
<1>5. \A op : Running(op) => Running(op)'
  BY <1>2 DEF Running
<1>6. BlocksDisjoint' /\ BlocksIntact'
  BY <1>1 DEF BlocksDisjoint, BlocksIntact, Holds
<1>7. PayloadPlaced'
  <2> SUFFICES ASSUME stage = "payload" PROVE PayloadPlaced'
    BY <1>1 DEF PayloadPlaced
  <2>1. tail # <<>>
    BY DEF PayloadPlaced, Running
  <2> QED
    BY <2>1, <1>1, <1>2, <1>5 DEF PayloadPlaced, Free
<1>8. MagicFreed' /\ Growing'
  BY <1>1, <1>5 DEF MagicFreed, Growing
<1> QED
  BY <1>4, <1>6, <1>7, <1>8

\* An operation that ends having changed nothing but, at most, which
\* allocations there are: a part of them, with another count.
LEMMA EndingStep ==
    ASSUME Inductive, tail # <<>>, NEW more \in Seq(Request), Over(more), stage # "grow",
           UNCHANGED <<cells, placed, written, closed, unlinked>>,
           blocks' \subseteq Block,
           \A b \in blocks' : \E a \in blocks :
              a.off = b.off /\ a.len = b.len /\ a.gen = b.gen /\ a.content = b.content,
           \A a, b \in blocks' : a.off = b.off => a = b
    PROVE  Inductive'
<1> USE DEF Inductive
<1>1. tail' \in Seq(Request) /\ stage' = "waiting"
  BY OverTail
<1>2. ArenaTypeOK'
  BY <1>1 DEF ArenaTypeOK
<1>3. BlocksDisjoint'
  <2>1. \A b \in blocks' : b.off + b.len <= Size
    BY DEF BlocksDisjoint
  <2>2. ASSUME NEW a \in blocks', NEW b \in blocks', a # b
        PROVE  a.off + a.len <= b.off \/ b.off + b.len <= a.off
    <3>1. PICK a0 \in blocks : a0.off = a.off /\ a0.len = a.len
      OBVIOUS
    <3>2. PICK b0 \in blocks : b0.off = b.off /\ b0.len = b.len
      OBVIOUS
    <3>3. a0 # b0
      BY <2>2, <3>1, <3>2
    <3> QED
      BY <3>1, <3>2, <3>3 DEF BlocksDisjoint
  <2> QED
    BY <2>1, <2>2 DEF BlocksDisjoint
<1>4. BlocksIntact'
  BY DEF BlocksIntact, Holds
<1>5. PayloadPlaced' /\ MagicFreed' /\ Growing'
  BY <1>1 DEF PayloadPlaced, MagicFreed, Growing
<1> QED
  BY <1>2, <1>3, <1>4, <1>5

\* Disjoint allocations are told apart by their offset, as release does.
LEMMA DistinctOffsets ==
    ASSUME Inductive
    PROVE  \A a, b \in blocks : a.off = b.off => a = b
<1> SUFFICES ASSUME NEW a \in blocks, NEW b \in blocks, a.off = b.off, a # b PROVE FALSE
  OBVIOUS
<1>1. a.off \in Int /\ a.len \in Nat \ {0} /\ b.len \in Nat \ {0}
  BY DEF Inductive, ArenaTypeOK, Block, Unit
<1> QED
  BY <1>1 DEF Inductive, BlocksDisjoint

LEMMA PublishFailsStep ==
    ASSUME Inductive, NEW more \in Seq(Request), PublishFails(more)
    PROVE  Inductive'
<1>1. blocks' \subseteq blocks /\ blocks \subseteq Block
  BY RetireKeeps DEF PublishFails, Inductive, ArenaTypeOK
<1>2. \A a, b \in blocks : a.off = b.off => a = b
  BY DistinctOffsets
<1>3. Over(more) /\ stage # "grow" /\ tail # <<>>
  BY DEF PublishFails, Running
<1>4. UNCHANGED <<cells, placed, written, closed, unlinked>>
  BY DEF PublishFails
<1> QED
  BY <1>1, <1>2, <1>3, <1>4, EndingStep

LEMMA RetainStep ==
    ASSUME Inductive, Retain
    PROVE  Inductive'
<1> DEFINE off == Head(tail).off
           counted(b) == IF b.off = off /\ b.retained THEN [b EXCEPT !.count = @ + 1] ELSE b
<1>1. Over(<<>>) /\ stage # "grow" /\ tail # <<>>
  BY DEF Retain, Running
<1>2. UNCHANGED <<cells, placed, written, closed, unlinked>>
  BY DEF Retain
<1>3. blocks' = {counted(b) : b \in blocks}
  BY DEF Retain
<1>4. blocks \subseteq Block
  BY DEF Inductive, ArenaTypeOK
<1>5. \A b \in blocks : counted(b) \in Block /\ counted(b).off = b.off /\ counted(b).len = b.len
                           /\ counted(b).gen = b.gen /\ counted(b).content = b.content
  BY <1>4 DEF Block
<1>6. \A a, b \in blocks : a.off = b.off => a = b
  BY DistinctOffsets
<1> HIDE DEF counted
<1>7. /\ blocks' \subseteq Block
      /\ \A b \in blocks' : \E a \in blocks :
            a.off = b.off /\ a.len = b.len /\ a.gen = b.gen /\ a.content = b.content
      /\ \A a, b \in blocks' : a.off = b.off => a = b
  BY <1>3, <1>5, <1>6
<1> QED
  BY <1>1, <1>2, <1>7, NothingMore, EndingStep

LEMMA ReleaseKeepsStep ==
    ASSUME Inductive, ReleaseKeeps
    PROVE  Inductive'
<1> DEFINE off == Head(tail).off
           counted(b) == IF b.off = off THEN [b EXCEPT !.count = @ - 1] ELSE b
<1>1. Over(<<>>) /\ stage # "grow" /\ tail # <<>>
  BY DEF ReleaseKeeps, Running
<1>2. UNCHANGED <<cells, placed, written, closed, unlinked>>
  BY DEF ReleaseKeeps
<1>3. blocks \subseteq Block /\ \A a, b \in blocks : a.off = b.off => a = b
  BY DistinctOffsets DEF Inductive, ArenaTypeOK
<1>4. CASE closed
  <2>1. blocks' = blocks
    BY <1>4 DEF ReleaseKeeps
  <2> QED
    BY <1>1, <1>2, <1>3, <2>1, NothingMore, EndingStep
<1>5. CASE ~closed
  <2>1. blocks' = {counted(b) : b \in blocks}
    BY <1>5 DEF ReleaseKeeps
  <2>2. \A b \in blocks : b.off = off => b.count > 1
    BY <1>5 DEF ReleaseKeeps, At
  <2>3. \A b \in blocks : counted(b) \in Block /\ counted(b).off = b.off /\ counted(b).len = b.len
                             /\ counted(b).gen = b.gen /\ counted(b).content = b.content
    BY <1>3, <2>2 DEF Block
  <2> HIDE DEF counted
  <2>4. /\ blocks' \subseteq Block
        /\ \A b \in blocks' : \E a \in blocks :
              a.off = b.off /\ a.len = b.len /\ a.gen = b.gen /\ a.content = b.content
        /\ \A a, b \in blocks' : a.off = b.off => a = b
    BY <1>3, <2>1, <2>3
  <2> QED
    BY <1>1, <1>2, <2>4, NothingMore, EndingStep
<1> QED
  BY <1>4, <1>5

LEMMA InvalidateNothingStep ==
    ASSUME Inductive, NEW more \in Seq(Request), InvalidateNothing(more)
    PROVE  Inductive'
<1>1. Over(more) /\ stage # "grow" /\ tail # <<>> /\ blocks' = blocks
  BY DEF InvalidateNothing, Running
<1>2. UNCHANGED <<cells, placed, written, closed, unlinked>>
  BY DEF InvalidateNothing
<1>3. blocks \subseteq Block /\ \A a, b \in blocks : a.off = b.off => a = b
  BY DistinctOffsets DEF Inductive, ArenaTypeOK
<1> QED
  BY <1>1, <1>2, <1>3, EndingStep

\* The decision of _allocate, before the first write.
LEMMA PlaceStep ==
    ASSUME Inductive, Place
    PROVE  Inductive'
<1> USE DEF Inductive
<1> DEFINE r == Head(tail)
<1>1. r \in PublishRequest /\ Running("publish") /\ r.len \in Nat \ {0}
  BY RunningRequest DEF Place, PublishRequest
<1>2. blocks' \subseteq blocks /\ blocks \subseteq Block
  BY RetireKeeps DEF Place, ArenaTypeOK
<1>3. placed' \in Gaps(r.len, blocks')
  BY DEF Place
<1>4. placed' \in Unit /\ Free(placed', r.len, blocks')
  BY <1>1, <1>2, <1>3, GapIsFree
<1>5. UNCHANGED <<cells, tail, closed, unlinked>> /\ stage' = "payload" /\ written' = 0
      /\ stage = "waiting"
  BY DEF Place
<1>6. ArenaTypeOK'
  BY <1>2, <1>4, <1>5 DEF ArenaTypeOK
<1>7. BlocksDisjoint' /\ BlocksIntact'
  BY <1>2, <1>5 DEF BlocksDisjoint, BlocksIntact, Holds
<1>8. PayloadPlaced'
  <2>1. Running("publish")' /\ Head(tail)' = r
    BY <1>1, <1>5 DEF Running
  <2>2. Free(placed, Head(tail).len, blocks)'
    BY <1>4, <2>1 DEF Free
  <2> QED
    BY <1>1, <1>5, <2>1, <2>2 DEF PayloadPlaced
<1>9. MagicFreed' /\ Growing'
  BY <1>5 DEF MagicFreed, Growing
<1> QED
  BY <1>6, <1>7, <1>8, <1>9

\* A write outside an allocation leaves what it holds.
LEMMA WriteElsewhere ==
    ASSUME Inductive, NEW at \in Unit, NEW value, cells' = [cells EXCEPT ![at] = value],
           NEW b \in blocks, b.off + b.len <= at \/ at < b.off, Holds(b)
    PROVE  /\ cells'[b.off] = Header(b.gen, b.len, b.content)
           /\ \A i \in 1..(b.len - 1) : cells'[b.off + i] = Payload(b.content, i)
<1>1. b.off \in Nat /\ b.len \in Nat \ {0} /\ at \in Nat /\ cells \in [Unit -> Cell]
  BY ArenaAssumption DEF Inductive, ArenaTypeOK, Block, Unit
<1>2. b.off \in Unit /\ b.off # at
  BY <1>1 DEF Inductive, ArenaTypeOK, Block
<1>3. ASSUME NEW i \in 1..(b.len - 1)
      PROVE  b.off + i \in Unit /\ b.off + i # at
  BY <1>1, <1>3, ArenaAssumption DEF Inductive, BlocksDisjoint, Unit
<1> QED
  BY <1>1, <1>2, <1>3 DEF Holds

LEMMA WritePayloadStep ==
    ASSUME Inductive, WritePayload
    PROVE  Inductive'
<1> USE DEF Inductive
<1> DEFINE r == Head(tail)
           at == placed + written + 1
<1>1. r \in PublishRequest /\ r.len \in Nat \ {0} /\ r.content \in Content
  BY RunningRequest DEF WritePayload, PublishRequest
<1>2. UNCHANGED <<blocks, tail, stage, placed, closed, unlinked>> /\ stage = "payload"
      /\ written < r.len - 1 /\ written' = written + 1
      /\ cells' = [cells EXCEPT ![at] = Payload(r.content, written + 1)]
  BY DEF WritePayload
<1>3. written \in Nat /\ placed \in Unit /\ placed \in Nat /\ cells \in [Unit -> Cell]
      /\ blocks \subseteq Block
  BY ArenaAssumption DEF ArenaTypeOK, Unit
<1>4. Free(placed, r.len, blocks) /\ \A i \in 1..written : cells[placed + i] = Payload(r.content, i)
  BY <1>2 DEF PayloadPlaced
<1>5. at \in Unit
  BY <1>1, <1>2, <1>3, <1>4, ArenaAssumption DEF Free, Unit
<1>6. ArenaTypeOK'
  <2>1. Payload(r.content, written + 1) \in Cell
    BY <1>1, <1>3 DEF Payload, Cell
  <2> QED
    BY <1>2, <1>3, <1>5, <2>1 DEF ArenaTypeOK
<1>7. BlocksDisjoint'
  BY <1>2 DEF BlocksDisjoint
<1>8. BlocksIntact'
  <2> SUFFICES ASSUME NEW b \in blocks PROVE Holds(b)'
    BY <1>2 DEF BlocksIntact
  <2>1. Holds(b)
    BY <1>2 DEF BlocksIntact
  <2>2. b.off + b.len <= at \/ at < b.off
    <3>1. b.off \in Nat /\ b.len \in Nat \ {0}
      BY <1>3, ArenaAssumption DEF Block, Unit
    <3> QED
      BY <1>1, <1>2, <1>3, <1>4, <3>1 DEF Free
  <2> QED
    BY <1>2, <1>5, <2>1, <2>2, WriteElsewhere DEF Holds
<1>9. PayloadPlaced'
  <2>1. \A i \in 1..(written + 1) : cells'[placed + i] = Payload(r.content, i)
    <3> TAKE i \in 1..(written + 1)
    <3>1. placed + i \in Unit
      BY <1>1, <1>2, <1>3, <1>4, ArenaAssumption DEF Free, Unit
    <3>2. CASE i = written + 1
      BY <1>2, <1>3, <1>5, <3>2
    <3>3. CASE i \in 1..written
      BY <1>2, <1>3, <1>4, <3>1, <3>3
    <3> QED
      BY <1>3, <3>2, <3>3
  <2>2. Running("publish")' /\ Head(tail)' = r
    BY <1>2 DEF Running, WritePayload
  <2>3. Free(placed, Head(tail).len, blocks)'
    BY <1>2, <1>4 DEF Free
  <2> QED
    BY <1>1, <1>2, <1>3, <2>1, <2>2, <2>3 DEF PayloadPlaced
<1>10. MagicFreed' /\ Growing'
  BY <1>2 DEF MagicFreed, Growing
<1> QED
  BY <1>6, <1>7, <1>8, <1>9, <1>10

\* The registration of the block whose place was decided before the writes.
LEMMA WriteHeaderStep ==
    ASSUME Inductive, NEW more \in Seq(Request), WriteHeader(more)
    PROVE  Inductive'
<1> USE DEF Inductive
<1> DEFINE r == Head(tail)
           new == [off |-> placed, len |-> r.len, gen |-> r.gen, retained |-> r.retained,
                   count |-> IF r.retained THEN 1 ELSE 0, content |-> r.content]
<1>1. r \in PublishRequest
  BY RunningRequest DEF WriteHeader
<1>2. r.len \in Nat \ {0} /\ r.gen \in Nat /\ r.retained \in BOOLEAN /\ r.content \in Content
  BY <1>1 DEF PublishRequest
<1>3. /\ stage = "payload" /\ written = r.len - 1 /\ tail # <<>>
      /\ UNCHANGED <<placed, written, closed, unlinked>>
      /\ cells' = [cells EXCEPT ![placed] = Header(r.gen, r.len, r.content)]
      /\ blocks' = blocks \cup {new}
  BY DEF WriteHeader, Running
<1>4. tail' \in Seq(Request) /\ stage' = "waiting"
  BY <1>3, OverTail DEF WriteHeader
<1>5. placed \in Unit /\ placed \in Nat /\ cells \in [Unit -> Cell] /\ blocks \subseteq Block
  BY ArenaAssumption DEF ArenaTypeOK, Unit
<1>6. Free(placed, r.len, blocks) /\ \A i \in 1..(r.len - 1) : cells[placed + i] = Payload(r.content, i)
  BY <1>3 DEF PayloadPlaced
<1>7. ArenaTypeOK'
  <2>1. Header(r.gen, r.len, r.content) \in Cell
    BY <1>2 DEF Header, Cell
  <2>2. new \in Block
    BY <1>2, <1>5 DEF Block
  <2> HIDE DEF new
  <2> QED
    BY <1>3, <1>4, <1>5, <2>1, <2>2 DEF ArenaTypeOK
<1>8. \A b \in blocks : b.off + b.len <= placed \/ placed < b.off
  <2> TAKE b \in blocks
  <2>1. b.off \in Nat /\ b.len \in Nat \ {0}
    BY <1>5, ArenaAssumption DEF Block, Unit
  <2> QED
    BY <1>2, <1>5, <1>6, <2>1 DEF Free
<1>9. BlocksDisjoint'
  <2>1. new.off + new.len <= Size
    BY <1>6 DEF Free
  <2>2. \A b \in blocks : b.off + b.len <= new.off \/ new.off + new.len <= b.off
    BY <1>6 DEF Free
  <2> HIDE DEF new
  <2> QED
    BY <1>3, <2>1, <2>2 DEF BlocksDisjoint
<1>10. BlocksIntact'
  <2> SUFFICES ASSUME NEW b \in blocks' PROVE Holds(b)'
    BY DEF BlocksIntact
  <2>1. CASE b \in blocks
    <3>1. Holds(b)
      BY <1>3, <2>1 DEF BlocksIntact
    <3> QED
      BY <1>3, <1>5, <1>8, <2>1, <3>1, WriteElsewhere DEF Holds
  <2>2. CASE b = new
    <3>1. cells'[placed] = Header(r.gen, r.len, r.content)
      BY <1>3, <1>5
    <3>2. \A i \in 1..(r.len - 1) : cells'[placed + i] = Payload(r.content, i)
      <4> TAKE i \in 1..(r.len - 1)
      <4>1. placed + i \in Unit /\ placed + i # placed
        BY <1>2, <1>5, <1>6, ArenaAssumption DEF Free, Unit
      <4> QED
        BY <1>3, <1>5, <1>6, <4>1
    <3> QED
      BY <2>2, <3>1, <3>2 DEF Holds
  <2> QED
    BY <1>3, <2>1, <2>2
<1>11. PayloadPlaced' /\ MagicFreed' /\ Growing'
  BY <1>4 DEF PayloadPlaced, MagicFreed, Growing
<1> QED
  BY <1>7, <1>9, <1>10, <1>11

\* A release takes the allocation out before it erases the magic.
LEMMA ReleaseFreesStep ==
    ASSUME Inductive, ReleaseFrees
    PROVE  Inductive'
<1> USE DEF Inductive
<1>1. PICK gone \in blocks : blocks' = blocks \ {gone} /\ placed' = gone.off
  BY DEF ReleaseFrees, At
<1>2. Running("release") /\ stage = "waiting" /\ stage' = "magic"
      /\ UNCHANGED <<cells, tail, written, closed, unlinked>>
  BY DEF ReleaseFrees
<1>3. blocks \subseteq Block /\ gone.off \in Unit /\ gone.len \in Nat \ {0}
  BY <1>1 DEF ArenaTypeOK, Block
<1>4. ArenaTypeOK'
  BY <1>1, <1>2, <1>3 DEF ArenaTypeOK
<1>5. BlocksDisjoint' /\ BlocksIntact'
  BY <1>1, <1>2 DEF BlocksDisjoint, BlocksIntact, Holds
<1>6. MagicFreed'
  <2>1. Running("release")'
    BY <1>2 DEF Running
  <2>2. \A b \in blocks' : b.off + b.len <= gone.off \/ gone.off < b.off
    <3> TAKE b \in blocks'
    <3>1. b \in blocks /\ b # gone /\ b.off \in Unit /\ b.len \in Nat \ {0}
      BY <1>1, <1>3 DEF Block
    <3>2. b.off + b.len <= gone.off \/ gone.off + gone.len <= b.off
      BY <3>1 DEF BlocksDisjoint
    <3> QED
      BY <1>3, <3>1, <3>2, ArenaAssumption DEF Unit
  <2> QED
    BY <1>1, <2>1, <2>2 DEF MagicFreed
<1>7. PayloadPlaced' /\ Growing'
  BY <1>2 DEF PayloadPlaced, Growing
<1> QED
  BY <1>4, <1>5, <1>6, <1>7

LEMMA EraseMagicStep ==
    ASSUME Inductive, EraseMagic
    PROVE  Inductive'
<1> USE DEF Inductive
<1>1. /\ stage = "magic" /\ tail # <<>> /\ cells' = [cells EXCEPT ![placed] = Zero]
      /\ UNCHANGED <<blocks, placed, written, closed, unlinked>>
  BY DEF EraseMagic, Running
<1>2. tail' \in Seq(Request) /\ stage' = "waiting"
  BY <1>1, NothingMore, OverTail DEF EraseMagic
<1>3. placed \in Unit /\ cells \in [Unit -> Cell] /\ Zero \in Cell
  BY DEF ArenaTypeOK, Cell
<1>4. ArenaTypeOK' /\ BlocksDisjoint'
  BY <1>1, <1>2, <1>3 DEF ArenaTypeOK, BlocksDisjoint
<1>5. BlocksIntact'
  <2> SUFFICES ASSUME NEW b \in blocks PROVE Holds(b)'
    BY <1>1 DEF BlocksIntact
  <2>1. Holds(b) /\ (b.off + b.len <= placed \/ placed < b.off)
    BY <1>1 DEF BlocksIntact, MagicFreed
  <2> QED
    BY <1>1, <1>3, <2>1, WriteElsewhere DEF Holds
<1>6. PayloadPlaced' /\ MagicFreed' /\ Growing'
  BY <1>2 DEF PayloadPlaced, MagicFreed, Growing
<1> QED
  BY <1>4, <1>5, <1>6

\* While the file is truncated no allocation is promised anything; when it has
\* grown again there is none.
LEMMA InvalidateStep ==
    ASSUME Inductive, Truncate \/ \E more \in Seq(Request) : Grow(more)
    PROVE  Inductive'
<1> USE DEF Inductive
<1>1. Absent \in Cell /\ Zero \in Cell
  BY DEF Cell
<1>2. CASE Truncate
  <2>1. /\ Running("invalidate") /\ stage' = "grow" /\ cells' = [u \in Unit |-> Absent]
        /\ UNCHANGED <<blocks, tail, placed, written, closed, unlinked>>
    BY <1>2 DEF Truncate
  <2>2. ArenaTypeOK'
    BY <1>1, <2>1 DEF ArenaTypeOK
  <2>3. BlocksDisjoint' /\ BlocksIntact'
    BY <2>1 DEF BlocksDisjoint, BlocksIntact
  <2>4. PayloadPlaced' /\ MagicFreed' /\ Growing'
    BY <2>1 DEF PayloadPlaced, MagicFreed, Growing, Running
  <2> QED
    BY <2>2, <2>3, <2>4
<1>3. ASSUME NEW more \in Seq(Request), Grow(more)
      PROVE  Inductive'
  <2>1. /\ tail # <<>> /\ cells' = [u \in Unit |-> Zero] /\ blocks' = {}
        /\ UNCHANGED <<placed, written, closed, unlinked>> /\ Over(more)
    BY <1>3 DEF Grow, Running
  <2>2. tail' \in Seq(Request) /\ stage' = "waiting"
    BY <2>1, OverTail
  <2>3. ArenaTypeOK'
    BY <1>1, <2>1, <2>2 DEF ArenaTypeOK
  <2>4. BlocksDisjoint' /\ BlocksIntact'
    BY <2>1 DEF BlocksDisjoint, BlocksIntact
  <2>5. PayloadPlaced' /\ MagicFreed' /\ Growing'
    BY <2>2 DEF PayloadPlaced, MagicFreed, Growing
  <2> QED
    BY <2>3, <2>4, <2>5
<1> QED
  BY <1>2, <1>3

LEMMA InductiveStep == Inductive /\ [ArenaNext]_arenaVars => Inductive'
<1> SUFFICES ASSUME Inductive, [ArenaNext]_arenaVars PROVE Inductive'
  OBVIOUS
<1>1. CASE \E more \in Seq(Request) : Submit(more)
  BY <1>1, BystanderStep
<1>2. CASE \E more \in Seq(Request) : PublishFails(more)
  BY <1>2, PublishFailsStep
<1>3. CASE \E more \in Seq(Request) : WriteHeader(more)
  BY <1>3, WriteHeaderStep
<1>4. CASE \E more \in Seq(Request) : InvalidateNothing(more)
  BY <1>4, InvalidateNothingStep
<1>5. CASE Truncate \/ \E more \in Seq(Request) : Grow(more)
  BY <1>5, InvalidateStep
<1>6. CASE Place
  BY <1>6, PlaceStep
<1>7. CASE WritePayload
  BY <1>7, WritePayloadStep
<1>8. CASE Retain
  BY <1>8, RetainStep
<1>9. CASE ReleaseKeeps
  BY <1>9, ReleaseKeepsStep
<1>10. CASE ReleaseFrees
  BY <1>10, ReleaseFreesStep
<1>11. CASE EraseMagic
  BY <1>11, EraseMagicStep
<1>12. CASE Close \/ Unlink
  BY <1>12, BystanderStep
<1>13. CASE UNCHANGED arenaVars
  BY <1>13 DEF arenaVars, Inductive, ArenaTypeOK, BlocksDisjoint, BlocksIntact, Holds, PayloadPlaced,
               MagicFreed, Growing, Running, Free
<1> QED
  BY <1>1, <1>2, <1>3, <1>4, <1>5, <1>6, <1>7, <1>8, <1>9, <1>10, <1>11, <1>12, <1>13 DEF ArenaNext

LEMMA ArenaInductive == ArenaSpec => []Inductive
  BY InitInductive, InductiveStep, PTL DEF ArenaSpec

(* The theorems *)

\* The state of an arena has its types (SharedTensorArena.js:90-232).
THEOREM ArenaTypeCorrect == ArenaSpec => []ArenaTypeOK
<1>1. Inductive => ArenaTypeOK
  BY DEF Inductive
<1> QED
  BY <1>1, ArenaInductive, PTL

\* No two allocations share a unit and none reaches past the end: what
\* _allocate (SharedTensorArena.js:123-132) decides before the first write
\* still holds when publishTensor registers the block after the last.
THEOREM DisjointBlocks == ArenaSpec => []BlocksDisjoint
<1>1. Inductive => BlocksDisjoint
  BY DEF Inductive
<1> QED
  BY <1>1, ArenaInductive, PTL

\* An allocation holds its publisher's payload under its publisher's header
\* until it is retired or released, whatever is published, released and
\* invalidated meanwhile (SharedTensorArena.js:144-232).
THEOREM IntactBlocks == ArenaSpec => []BlocksIntact
<1>1. Inductive => BlocksIntact
  BY DEF Inductive
<1> QED
  BY <1>1, ArenaInductive, PTL

-----------------------------------------------------------------------------
(***************************************************************************)
(* Sequences of sequences, and largest numbers.                            *)
(***************************************************************************)

FlattenStep(q, f, i) == IF i = 1 THEN q[i] ELSE f[i - 1] \o q[i]
Flattens(q, n, f) == f = [i \in 1..n |-> FlattenStep(q, f, i)]

\* The recursion behind FlattenSeq has a value.
LEMMA FlattenIsDefined ==
    ASSUME NEW q, NEW n \in Nat
    PROVE  \E f : Flattens(q, n, f)
<1> DEFINE Bad == {m \in Nat : \A f : ~Flattens(q, m, f)}
<1> SUFFICES ASSUME Bad # {} PROVE FALSE
  OBVIOUS
<1>1. PICK m \in Bad : \A k \in Bad : m <= k
  <2>1. Bad \in SUBSET Nat
    OBVIOUS
  <2> HIDE DEF Bad
  <2> QED BY <2>1, LeastIn
<1>2. CASE m = 0
  <2> DEFINE g == [i \in 1..0 |-> <<>>]
  <2>1. \A i \in 1..0 : FALSE
    OBVIOUS
  <2>2. g = [i \in 1..0 |-> FlattenStep(q, g, i)]
    BY <2>1
  <2> QED BY <1>1, <1>2, <2>2 DEF Flattens
<1>3. CASE m # 0
  <2>1. m - 1 \in Nat /\ m - 1 \notin Bad
    BY <1>1, <1>3
  <2>2. PICK f : Flattens(q, m - 1, f)
    BY <2>1
  <2> DEFINE g == [i \in 1..m |-> FlattenStep(q, f, i)]
  <2>3. f = [i \in 1..(m - 1) |-> FlattenStep(q, f, i)]
    BY <2>2 DEF Flattens
  <2>4. \A i \in 1..(m - 1) : f[i] = g[i]
    <3> HIDE DEF FlattenStep
    <3> QED BY <2>3
  <2>5. \A i \in 1..m : FlattenStep(q, f, i) = FlattenStep(q, g, i)
    <3>1. \A i \in 1..m : i # 1 => f[i - 1] = g[i - 1]
      <4> HIDE DEF g
      <4> QED BY <2>4
    <3> HIDE DEF g
    <3> QED BY <3>1 DEF FlattenStep
  <2>6. g = [i \in 1..m |-> FlattenStep(q, g, i)]
    <3>1. g = [i \in 1..m |-> FlattenStep(q, f, i)]
      OBVIOUS
    <3> HIDE DEF g, FlattenStep
    <3> QED BY <3>1, <2>5
  <2>7. Flattens(q, m, g)
    BY <2>6 DEF Flattens
  <2> QED BY <1>1, <2>7
<1> QED BY <1>2, <1>3

\* A sequence of sequences of members of R is flattened to a sequence of them.
LEMMA FlattenType ==
    ASSUME NEW R, NEW n \in Nat \ {0}, NEW q \in [1..n -> Seq(R)]
    PROVE  FlattenSeq(q) \in Seq(R)
<1>1. Len(q) = n
  OBVIOUS
<1> DEFINE f == CHOOSE g : Flattens(q, n, g)
<1>2. Flattens(q, n, f)
  BY FlattenIsDefined
<1>3. FlattenSeq(q) = f[n]
  <2>1. FlattenSeq(q) = (CHOOSE g : Flattens(q, Len(q), g))[Len(q)]
    BY Zenon, <1>1 DEF FlattenSeq, Flattens, FlattenStep
  <2> QED BY <1>1, <2>1
<1> HIDE DEF f
<1>4. \A i \in 1..n : f[i] = FlattenStep(q, f, i)
  <2>1. f = [i \in 1..n |-> FlattenStep(q, f, i)]
    BY <1>2 DEF Flattens
  <2> HIDE DEF FlattenStep
  <2> QED BY <2>1
<1> DEFINE Bad == {i \in 1..n : f[i] \notin Seq(R)}
<1>5. Bad = {}
  <2> SUFFICES ASSUME Bad # {} PROVE FALSE
    OBVIOUS
  <2>1. PICK m \in Bad : \A k \in Bad : m <= k
    <3>1. Bad \in SUBSET Nat
      OBVIOUS
    <3> HIDE DEF Bad
    <3> QED BY <3>1, LeastIn
  <2>2. CASE m = 1
    BY <1>4, <2>1, <2>2 DEF FlattenStep
  <2>3. CASE m # 1
    <3>1. m - 1 \in 1..n /\ f[m - 1] \in Seq(R) /\ q[m] \in Seq(R)
      BY <2>1, <2>3
    <3>2. f[m] = f[m - 1] \o q[m]
      BY <1>4, <2>1, <2>3 DEF FlattenStep
    <3>3. f[m - 1] \o q[m] \in Seq(R)
      BY <3>1, ConcatProperties
    <3> QED BY <2>1, <3>2, <3>3
  <2> QED BY <2>2, <2>3
<1> QED BY <1>3, <1>5

\* A function on 1..n to natural numbers has a largest value.
LEMMA LargestValue ==
    ASSUME NEW n \in Nat, NEW a \in Nat, NEW f \in [1..n -> Nat]
    PROVE  Max({a} \cup {f[i] : i \in 1..n}) \in Nat
<1> DEFINE V == {a} \cup {f[i] : i \in 1..n}
           Bounds == {m \in Nat : \A v \in V : v <= m}
<1>1. V \in SUBSET Nat
  OBVIOUS
<1>2. IsFiniteSet(V)
  <2>1. IsFiniteSet(1..n)
    BY FS_Interval
  <2>2. IsFiniteSet({f[i] : i \in 1..n})
    <3>1. f \in Surjection(1..n, {f[i] : i \in 1..n})
      BY DEF Surjection
    <3> QED BY <2>1, <3>1, FS_Surjection
  <2> QED BY <2>2, FS_AddElement, FS_Union, FS_Singleton
<1>3. \E m \in V : \A v \in V : v <= m
  <2> DEFINE Good(U) == U = {} \/ \E m \in U : \A v \in U : v <= m
             C == {U \in SUBSET V : ~Good(U)}
  <2> SUFFICES ASSUME C # {} PROVE FALSE
    BY <1>1
  <2>1. PICK s \in C : \A t \in C : t \subseteq s => t = s
    <3>1. C \in SUBSET (SUBSET V)
      OBVIOUS
    <3> HIDE DEF C, V
    <3> QED BY <1>2, <3>1, SmallestSet
  <2>2. PICK x \in s : TRUE
    BY <2>1
  <2>3. s \ {x} \notin C /\ s \in SUBSET V
    BY <2>1, <2>2
  <2>4. Good(s \ {x})
    BY <2>3
  <2> HIDE DEF V
  <2>5. CASE s \ {x} = {}
    <3>1. \A v \in s : v <= x
      BY <1>1, <2>2, <2>3, <2>5
    <3> QED BY <2>1, <2>2, <3>1
  <2>6. CASE \E m \in s \ {x} : \A v \in s \ {x} : v <= m
    <3>1. PICK m \in s \ {x} : \A v \in s \ {x} : v <= m
      BY <2>6
    <3>2. m \in Nat /\ x \in Nat /\ s \in SUBSET Nat
      BY <1>1, <2>2, <2>3
    <3>3. CASE m <= x
      <4>1. \A v \in s : v <= x
        BY <3>1, <3>2, <3>3
      <4> QED BY <2>1, <2>2, <4>1
    <3>4. CASE x <= m
      <4>1. \A v \in s : v <= m
        BY <3>1, <3>2, <3>4
      <4> QED BY <2>1, <3>1, <4>1
    <3> QED BY <3>2, <3>3, <3>4
  <2> QED BY <2>4, <2>5, <2>6
<1>4. PICK m \in V : \A v \in V : v <= m
  BY <1>3
<1>5. Max(V) \in V
  <2> HIDE DEF V
  <2>1. \A v \in V : m >= v
    BY <1>1, <1>4
  <2> QED BY <1>4, <2>1 DEF Max
<1> QED BY <1>1, <1>5

-----------------------------------------------------------------------------
(***************************************************************************)
(* Types of handlers, calls and requests; what the environment asks of the arena.*)
(***************************************************************************)

Handlers == [stage : {"idle", "gpu", "raw", "obs", "done", "failed"},
             seq : Sequence, raw : RefOrNone, obs : RefOrNone]
Calls == [stage : {"idle", "working", "externalize", "overtaken"}, seq : Sequence,
          refs : [Sensor -> RefOrNone]]

\* Sensors are the numbers from 1, and have lengths.
LEMMA SensorsAre ==
    /\ Cardinality(Sensor) \in Nat \ {0} /\ Sensor = 1..Cardinality(Sensor)
    /\ \A s \in Sensor : s \in Nat /\ RawLen[s] \in Nat \ {0} /\ ObsLen[s] \in Nat \ {0}
<1>1. Cardinality(Sensor) \in Nat /\ Sensor = 1..Cardinality(Sensor) /\ Sensor # {}
  BY EnvironmentAssumption, FS_CardinalityType
<1>2. Cardinality(Sensor) # 0
  BY <1>1
<1>3. RawLen \in [Sensor -> Nat \ {0}] /\ ObsLen \in [Sensor -> Nat \ {0}]
  BY EnvironmentAssumption
<1> QED BY <1>1, <1>2, <1>3

\* Handlers and calls are the callers of the arena.
LEMMA HandlersAre ==
    /\ \A h \in Handler : h[2] \in Sensor /\ h \in Caller /\ h \notin Call
    /\ \A c \in Call : c \in Caller
BY EnvironmentAssumption DEF Handler

\* What is asked for of the arena are requests.
LEMMA ReleaseType == \A r \in Ref : Release(r) \in Request
BY DEF Ref, Release, Request, ReferenceRequest, Unit

\* So is a publication.
LEMMA PublishType ==
    ASSUME NEW who \in Caller, NEW n \in Nat \ {0}, NEW seq \in Nat, NEW keep \in BOOLEAN, NEW c \in Nat
    PROVE  Publish(who, n, seq, keep, c) \in Request
BY EnvironmentAssumption DEF Publish, Request, PublishRequest

\* So are the releases of what sensors hold.
LEMMA ReleaseAllType ==
    ASSUME NEW f \in [Sensor -> RefOrNone], NEW S
    PROVE  ReleaseAll(f, S) \in Seq(Request)
<1> DEFINE n == Cardinality(Sensor)
           q == [s \in Sensor |-> IF s \in S /\ f[s] # None THEN <<Release(f[s])>> ELSE <<>>]
<1>1. \A s \in Sensor : f[s] # None => Release(f[s]) \in Request
  BY ReleaseType DEF RefOrNone
<1>2. q \in [1..n -> Seq(Request)]
  <2>1. \A s \in Sensor : q[s] \in Seq(Request)
    BY <1>1
  <2> QED BY <2>1, SensorsAre
<1>3. n \in Nat \ {0}
  BY SensorsAre
<1>4. FlattenSeq(q) \in Seq(Request)
  <2> HIDE DEF q, n
  <2> QED BY <1>2, <1>3, FlattenType
<1> QED BY <1>4 DEF ReleaseAll

\* And those of what is queued.
LEMMA ReleaseQueuesType ==
    ASSUME queue \in [Sensor -> Seq(Ref)]
    PROVE  FlattenSeq([s \in Sensor |-> [i \in DOMAIN queue[s] |-> Release(queue[s][i])]]) \in Seq(Request)
<1> DEFINE n == Cardinality(Sensor)
           q == [s \in Sensor |-> [i \in DOMAIN queue[s] |-> Release(queue[s][i])]]
<1>1. ASSUME NEW s \in Sensor PROVE q[s] \in Seq(Request)
  <2>1. queue[s] \in Seq(Ref)
    OBVIOUS
  <2>2. \A i \in 1..Len(queue[s]) : Release(queue[s][i]) \in Request
    BY <2>1, ReleaseType
  <2>3. Len(queue[s]) \in Nat /\ DOMAIN queue[s] = 1..Len(queue[s])
    BY <2>1
  <2>4. [i \in 1..Len(queue[s]) |-> Release(queue[s][i])] \in Seq(Request)
    BY <2>2, <2>3, SeqDef
  <2> QED BY <2>3, <2>4
<1>2. q \in [1..n -> Seq(Request)]
  <2>1. q = [s \in Sensor |-> q[s]]
    OBVIOUS
  <2> HIDE DEF q
  <2> QED BY <1>1, <2>1, SensorsAre
<1>3. n \in Nat \ {0}
  BY SensorsAre
<1> HIDE DEF q, n
<1>4. FlattenSeq(q) \in Seq(Request)
  BY <1>2, <1>3, FlattenType
<1> QED BY <1>4 DEF q

\* The reference to what is being published.
LEMMA ReferenceType ==
    ASSUME ArenaTypeOK, Running("publish")
    PROVE  ReferenceTo(Head(tail), placed) \in Ref
BY RunningRequest DEF ArenaTypeOK, PublishRequest, ReferenceTo, Ref, Sequence

\* A step of the environment asks for requests only.
LEMMA ArenaSteps == ASSUME TypeOK, [Next]_vars PROVE [ArenaNext]_arenaVars
<1> DEFINE Good == [ArenaNext]_arenaVars
<1> SUFFICES Good
  OBVIOUS
<1>1. ASSUME NEW more \in Seq(Request),
             Submit(more) \/ PublishFails(more) \/ WriteHeader(more)
                \/ InvalidateNothing(more) \/ Grow(more)
      PROVE  Good
  BY <1>1 DEF ArenaNext
<1>2. ASSUME Place \/ WritePayload \/ Retain \/ ReleaseKeeps \/ ReleaseFrees \/ EraseMagic \/ Truncate
               \/ Close \/ Unlink
      PROVE Good
  BY <1>2 DEF ArenaNext
<1>3. UNCHANGED arenaVars => Good
  OBVIOUS
<1> HIDE DEF Good
<1>4. \A r \in Request : <<r>> \in Seq(Request)
  OBVIOUS
<1>5. <<>> \in Seq(Request) /\ <<[op |-> "invalidate"]>> \in Seq(Request)
  BY <1>4 DEF Request, InvalidateRequest
<1>6. \A q, r \in Seq(Request) : q \o r \in Seq(Request)
  BY ConcatProperties
<1>7. published + 1 \in Nat /\ transportSequence + 1 \in Nat /\ ArenaTypeOK
  BY DEF TypeOK, Sequence
<1>8. /\ latest \in [Sensor -> RefOrNone] /\ queue \in [Sensor -> Seq(Ref)]
      /\ handler \in [Handler -> Handlers] /\ call \in [Call -> Calls] /\ incarnation \in Incarnation
  BY DEF TypeOK, Handlers, Calls
<1>9. ASSUME NEW c \in Call, NEW reset \in BOOLEAN, StartCall(c, reset) PROVE Good
  <2>1. ReleaseAll(latest, Sensor)
          \o FlattenSeq([s \in Sensor |-> [i \in DOMAIN queue[s] |-> Release(queue[s][i])]]) \in Seq(Request)
    BY <1>6, <1>8, ReleaseAllType, ReleaseQueuesType
  <2> QED BY <1>1, <1>3, <1>9, <2>1 DEF StartCall
<1>10. ASSUME NEW h \in Handler, Rendered(h) PROVE Good
  <2>1. Publish(h, RawLen[h[2]], transportSequence + 1, FALSE, published + 1) \in Request
    BY <1>7, HandlersAre, SensorsAre, PublishType
  <2> QED BY <1>1, <1>4, <1>10, <2>1 DEF Rendered
<1>11. ASSUME NEW h \in Handler, RawPublished(h) PROVE Good
  <2>1. handler[h].seq \in Nat
    BY <1>8 DEF Handlers, Sequence
  <2>2. Publish(h, ObsLen[h[2]], handler[h].seq, TRUE, published + 1) \in Request
    BY <1>7, <2>1, HandlersAre, SensorsAre, PublishType
  <2> QED BY <1>1, <1>4, <1>11, <2>2 DEF RawPublished
<1>12. ASSUME NEW h \in Handler, ObservationPublished(h) PROVE Good
  BY <1>1, <1>5, <1>12 DEF ObservationPublished
<1>13. ASSUME NEW h \in Handler, CaptureFails(h) PROVE Good
  <2>1. handler[h].raw \in RefOrNone
    BY <1>8 DEF Handlers
  <2>2. (IF handler[h].raw = None THEN <<>> ELSE <<Release(handler[h].raw)>>) \in Seq(Request)
    BY <1>4, <1>5, <2>1, ReleaseType DEF RefOrNone
  <2> QED BY <1>1, <1>13, <2>2 DEF CaptureFails
<1>14. CASE ProcessGroup
  <2> DEFINE raws == [s \in Sensor |-> handler[<<incarnation, s>>].raw]
             obs == [s \in Sensor |-> handler[<<incarnation, s>>].obs]
             full == \E s \in Mine : Len(queue[s]) >= MaxQueueFrames
  <2>1. raws \in [Sensor -> RefOrNone] /\ obs \in [Sensor -> RefOrNone]
    <3>1. \A s \in Sensor : <<incarnation, s>> \in Handler
      BY <1>8 DEF Handler
    <3> QED BY <1>8, <3>1 DEF Handlers
  <2>2. Submit(ReleaseAll(raws, Mine) \o IF full THEN ReleaseAll(obs, Mine) ELSE <<>>)
    BY <1>14 DEF ProcessGroup
  <2> HIDE DEF raws, obs, full
  <2>3. ReleaseAll(raws, Mine) \o (IF full THEN ReleaseAll(obs, Mine) ELSE <<>>) \in Seq(Request)
    BY <1>5, <1>6, <2>1, ReleaseAllType
  <2> QED BY <1>1, <2>2, <2>3
<1>15. ASSUME NEW s \in Sensor, Deliver(s) PROVE Good
  BY <1>1, <1>8, <1>15, ReleaseAllType DEF Deliver
<1>16. ASSUME NEW c \in Call, WorkerAnswers(c) PROVE Good
  <2>1. CASE Missing(latest) = {}
    BY <1>3, <1>16, <2>1 DEF WorkerAnswers
  <2>2. CASE Missing(latest) # {}
    <3>1. Min(Missing(latest)) \in Sensor
      BY <2>2, SensorsAre, MinIn DEF Missing
    <3>2. Publish(c, ObsLen[Min(Missing(latest))], transportSequence + 1, FALSE, published + 1) \in Request
      BY <1>7, <3>1, HandlersAre, SensorsAre, PublishType
    <3> QED BY <1>1, <1>4, <1>16, <2>2, <3>2 DEF WorkerAnswers
  <2> QED BY <2>1, <2>2
<1>17. ASSUME NEW c \in Call, Externalized(c) PROVE Good
  <2> DEFINE refs == [call[c].refs EXCEPT ![Min(Missing(call[c].refs))] = ReferenceTo(Head(tail), placed)]
  <2>1. call[c].seq \in Nat
    BY <1>8 DEF Calls, Sequence
  <2>2. CASE Missing(refs) = {}
    BY <1>1, <1>5, <1>17, <2>2 DEF Externalized
  <2>3. CASE Missing(refs) # {}
    <3>1. Min(Missing(refs)) \in Sensor
      <4> HIDE DEF refs
      <4> QED BY <2>3, SensorsAre, MinIn DEF Missing
    <3>2. WriteHeader(<<Publish(c, ObsLen[Min(Missing(refs))], call[c].seq, FALSE, published + 1)>>)
      BY <1>17, <2>3 DEF Externalized
    <3> HIDE DEF refs
    <3>3. Publish(c, ObsLen[Min(Missing(refs))], call[c].seq, FALSE, published + 1) \in Request
      BY <1>7, <2>1, <3>1, HandlersAre, SensorsAre, PublishType
    <3> QED BY <1>1, <1>4, <3>2, <3>3
  <2> QED BY <2>2, <2>3
<1>18. ASSUME NEW c \in Call, ExternalizeFails(c) PROVE Good
  BY <1>1, <1>5, <1>18 DEF ExternalizeFails
<1>19. CASE Recover \/ Replaced \/ CloseBatch
  BY <1>1, <1>2, <1>5, <1>19 DEF Recover, Replaced, CloseBatch
<1>20. CASE ArenaStep
  BY <1>2, <1>20 DEF ArenaStep
<1>21. CASE (\E S \in (SUBSET Sensor) \ {{}} : CaptureGroup(S)) \/ Read \/ UNCHANGED vars
  BY <1>3, <1>21 DEF CaptureGroup, Read, vars
<1> QED BY <1>9, <1>10, <1>11, <1>12, <1>13, <1>14, <1>15, <1>16, <1>17, <1>18, <1>19, <1>20, <1>21 DEF Next

-----------------------------------------------------------------------------
(***************************************************************************)
(* The actions that change each variable, read off their UNCHANGED.        *)
(***************************************************************************)

\* Who stores transportSequence.
LEMMA SequenceSteps ==
    ASSUME [Next]_vars
    PROVE  \/ transportSequence' = transportSequence
           \/ \E h \in Handler : ObservationPublished(h)
           \/ \E c \in Call : WorkerAnswers(c)
           \/ \E c \in Call : Externalized(c)
BY DEF StartCall, CaptureGroup, Rendered, RawPublished, CaptureFails, ExternalizeFails,
       Deliver, ProcessGroup, Recover, Replaced, CloseBatch, Read, ArenaStep, vars,
       workerVars, clientVars, readVars, Next, WorkerGone

\* Who asks for publications.
LEMMA PublishedSteps ==
    ASSUME [Next]_vars
    PROVE  \/ published' = published
           \/ \E h \in Handler : Rendered(h)
           \/ \E h \in Handler : RawPublished(h)
           \/ \E c \in Call : WorkerAnswers(c)
           \/ \E c \in Call : Externalized(c)
BY DEF StartCall, CaptureGroup, ObservationPublished, CaptureFails, ExternalizeFails,
       Deliver, ProcessGroup, Recover, Replaced, CloseBatch, Read, ArenaStep, vars,
       workerVars, clientVars, readVars, Next, WorkerGone

\* Who asks for captures.
LEMMA CapturesSteps ==
    ASSUME [Next]_vars
    PROVE  \/ captures' = captures
           \/ \E S \in (SUBSET Sensor) \ {{}} : CaptureGroup(S)
BY DEF StartCall, Rendered, RawPublished, ObservationPublished, CaptureFails,
       WorkerAnswers, Externalized, ExternalizeFails, Deliver, ProcessGroup, Recover,
       Replaced, CloseBatch, Read, ArenaStep, vars, workerVars, clientVars, readVars,
       Next, WorkerGone

\* Who counts calls.
LEMMA CallsSteps ==
    ASSUME [Next]_vars
    PROVE  \/ calls' = calls
           \/ \E c \in Call, reset \in BOOLEAN : StartCall(c, reset)
BY DEF CaptureGroup, Rendered, RawPublished, ObservationPublished, CaptureFails,
       WorkerAnswers, Externalized, ExternalizeFails, Deliver, ProcessGroup, Recover,
       Replaced, CloseBatch, Read, ArenaStep, vars, workerVars, clientVars, readVars,
       Next, WorkerGone

\* Who replaces or ends the worker.
LEMMA WorkerSteps ==
    ASSUME [Next]_vars
    PROVE  \/ UNCHANGED <<incarnation, alive>>
           \/ Replaced
           \/ CloseBatch
BY DEF StartCall, CaptureGroup, Rendered, RawPublished, ObservationPublished,
       CaptureFails, WorkerAnswers, Externalized, ExternalizeFails, Deliver, ProcessGroup,
       Recover, Read, ArenaStep, vars, workerVars, clientVars, readVars, Next

\* Who begins and ends recoveries.
LEMMA RecoveringSteps ==
    ASSUME [Next]_vars
    PROVE  \/ UNCHANGED <<recovering, requiresReset>>
           \/ \E c \in Call : WorkerAnswers(c)
           \/ \E c \in Call : ExternalizeFails(c)
           \/ Recover
           \/ Replaced
BY DEF StartCall, CaptureGroup, Rendered, RawPublished, ObservationPublished,
       CaptureFails, Externalized, Deliver, ProcessGroup, CloseBatch, Read, ArenaStep,
       vars, workerVars, clientVars, readVars, Next, WorkerGone

\* Who gives the worker a call, or takes it away.
LEMMA BusySteps ==
    ASSUME [Next]_vars
    PROVE  \/ busy' = busy
           \/ \E c \in Call, reset \in BOOLEAN : StartCall(c, reset)
           \/ \E c \in Call : WorkerAnswers(c)
           \/ Replaced
           \/ CloseBatch
BY DEF CaptureGroup, Rendered, RawPublished, ObservationPublished, CaptureFails,
       Externalized, ExternalizeFails, Deliver, ProcessGroup, Recover, Read, ArenaStep,
       vars, workerVars, clientVars, readVars, Next

\* Who moves a capture-group handler.
LEMMA HandlerSteps ==
    ASSUME [Next]_vars
    PROVE  \/ handler' = handler
           \/ \E S \in (SUBSET Sensor) \ {{}} : CaptureGroup(S)
           \/ \E h \in Handler : Rendered(h)
           \/ \E h \in Handler : RawPublished(h)
           \/ \E h \in Handler : ObservationPublished(h)
           \/ \E h \in Handler : CaptureFails(h)
           \/ ProcessGroup
           \/ Replaced
           \/ CloseBatch
BY DEF StartCall, WorkerAnswers, Externalized, ExternalizeFails, Deliver, Recover, Read,
       ArenaStep, vars, workerVars, clientVars, readVars, Next

\* Who changes the frames that a worker holds.
LEMMA FrameSteps ==
    ASSUME [Next]_vars
    PROVE  \/ UNCHANGED <<queue, latest>>
           \/ \E c \in Call, reset \in BOOLEAN : StartCall(c, reset)
           \/ ProcessGroup
           \/ \E s \in Sensor : Deliver(s)
           \/ Replaced
           \/ CloseBatch
BY DEF CaptureGroup, Rendered, RawPublished, ObservationPublished, CaptureFails,
       WorkerAnswers, Externalized, ExternalizeFails, Recover, Read, ArenaStep, vars,
       workerVars, clientVars, readVars, Next

\* Who moves a call.
LEMMA CallSteps ==
    ASSUME [Next]_vars
    PROVE  \/ call' = call
           \/ \E c \in Call, reset \in BOOLEAN : StartCall(c, reset)
           \/ \E c \in Call : WorkerAnswers(c)
           \/ \E c \in Call : Externalized(c)
           \/ \E c \in Call : ExternalizeFails(c)
           \/ Replaced
           \/ CloseBatch
BY DEF CaptureGroup, Rendered, RawPublished, ObservationPublished, CaptureFails, Deliver,
       ProcessGroup, Recover, Read, ArenaStep, vars, workerVars, clientVars, readVars,
       Next

\* Who leaves handlers behind.
LEMMA LateSteps ==
    ASSUME [Next]_vars
    PROVE  \/ late' = late
           \/ Replaced
           \/ CloseBatch
BY DEF StartCall, CaptureGroup, Rendered, RawPublished, ObservationPublished,
       CaptureFails, WorkerAnswers, Externalized, ExternalizeFails, Deliver, ProcessGroup,
       Recover, Read, ArenaStep, vars, workerVars, clientVars, readVars, Next

\* What a client gets to know.
LEMMA ClientSteps ==
    ASSUME [Next]_vars
    PROVE  \/ clientVars' = clientVars
           \/ \E c \in Call : WorkerAnswers(c)
           \/ \E c \in Call : Externalized(c)
           \/ Replaced
BY DEF StartCall, CaptureGroup, Rendered, RawPublished, ObservationPublished,
       CaptureFails, ExternalizeFails, Deliver, ProcessGroup, Recover, CloseBatch, Read,
       ArenaStep, vars, workerVars, clientVars, readVars, Next, WorkerGone

\* Who reads.
LEMMA ReadSteps ==
    ASSUME [Next]_vars
    PROVE  \/ readVars' = readVars
           \/ Read
BY DEF StartCall, CaptureGroup, Rendered, RawPublished, ObservationPublished,
       CaptureFails, WorkerAnswers, Externalized, ExternalizeFails, Deliver, ProcessGroup,
       Recover, Replaced, CloseBatch, ArenaStep, vars, workerVars, clientVars, readVars,
       Next, WorkerGone

-----------------------------------------------------------------------------
(***************************************************************************)
(* Type correctness.                                                       *)
(***************************************************************************)

\* The observation of a capture that is done is there; a reader reads a reference.
DoneIsCaptured == \A h \in Handler : handler[h].stage = "done" => handler[h].obs \in Ref
ReadsReference == read.stage \in {"payload", "after"} => read.ref \in Ref

EnvInv == TypeOK /\ Inductive /\ DoneIsCaptured /\ ReadsReference

\* What holds nothing has its type.
LEMMA NothingIsTyped ==
    /\ None \in RefOrNone /\ NoRefs \in [Sensor -> RefOrNone]
    /\ Resting \in Handlers /\ NoCall \in Calls
BY DEF RefOrNone, NoRefs, Resting, Handlers, NoCall, Calls, Sequence

\* The types that most steps need.
LEMMA TypesOf ==
    ASSUME TypeOK
    PROVE  /\ ArenaTypeOK
           /\ latest \in [Sensor -> RefOrNone] /\ response \in [Sensor -> RefOrNone]
           /\ queue \in [Sensor -> Seq(Ref)]
           /\ handler \in [Handler -> Handlers] /\ call \in [Call -> Calls]
           /\ \A s \in Sensor : <<incarnation, s>> \in Handler
           /\ transportSequence \in Nat /\ published \in Nat
BY DEF TypeOK, Handlers, Calls, Handler, Sequence

\* What a client makes of a response.
LEMMA NewestType ==
    ASSUME newest \in Nat, NEW refs \in [Sensor -> Ref], NEW k \in 0..Cardinality(Sensor)
    PROVE  Newest(refs, k) \in Nat
<1> DEFINE f == [t \in 1..k |-> refs[t].gen]
<1>1. k \in Nat /\ \A t \in 1..k : t \in Sensor
  BY SensorsAre
<1>2. f \in [1..k -> Nat]
  BY <1>1 DEF Ref, Sequence
<1>3. {refs[t].gen : t \in 1..k} = {f[i] : i \in 1..k}
  OBVIOUS
<1>4. Max({newest} \cup {f[i] : i \in 1..k}) \in Nat
  <2> HIDE DEF f
  <2> QED BY <1>1, <1>2, LargestValue
<1> QED BY <1>3, <1>4 DEF Newest

\* An answer leaves calls, and the client its references.
LEMMA RespondType ==
    ASSUME TypeOK, NEW c \in Call, NEW seq \in Nat, NEW refs \in [Sensor -> RefOrNone],
           Missing(refs) = {}, Respond(c, seq, refs)
    PROVE  /\ transportSequence' \in Nat /\ call' \in [Call -> Calls]
           /\ response' \in [Sensor -> RefOrNone]
           /\ newest' \in Nat /\ refused' \subseteq Ref /\ outlived' \subseteq Ref
<1>1. refs \in [Sensor -> Ref]
  <2>1. \A s \in Sensor : refs[s] \in RefOrNone /\ refs[s] # None
    BY DEF Missing
  <2> QED BY <2>1 DEF RefOrNone
<1>2. transportSequence' \in Nat /\ response' \in [Sensor -> RefOrNone]
  BY DEF Respond
<1>3. call' \in [Call -> Calls]
  BY TypesOf, NothingIsTyped DEF Respond
<1>4. outlived' \subseteq Ref
  BY <1>1 DEF Respond, TypeOK
<1> DEFINE stale == {s \in Sensor : refs[s].gen < Newest(refs, s - 1)}
<1>5. /\ refused' = refused \cup {refs[s] : s \in stale}
      /\ newest' = IF stale = {} THEN Newest(refs, Cardinality(Sensor))
                   ELSE Newest(refs, Min(stale) - 1)
  BY DEF Respond, Decode
<1>6. stale \subseteq Sensor
  OBVIOUS
<1> HIDE DEF stale
<1>7. refused' \subseteq Ref
  BY <1>1, <1>5, <1>6 DEF TypeOK
<1>8. newest \in Nat
  BY DEF TypeOK, Sequence
<1>9. ASSUME stale = {} PROVE newest' \in Nat
  <2>1. Cardinality(Sensor) \in 0..Cardinality(Sensor)
    BY SensorsAre
  <2>2. Newest(refs, Cardinality(Sensor)) \in Nat
    BY <1>1, <1>8, <2>1, NewestType
  <2> QED BY <1>5, <1>9, <2>2
<1>10. ASSUME stale # {} PROVE newest' \in Nat
  <2>1. Min(stale) \in stale
    BY <1>6, <1>10, SensorsAre, MinIn
  <2>2. Min(stale) - 1 \in 0..Cardinality(Sensor)
    BY <1>6, <2>1, SensorsAre
  <2>3. Newest(refs, Min(stale) - 1) \in Nat
    BY <1>1, <1>8, <2>2, NewestType
  <2> QED BY <1>5, <1>10, <2>3
<1> QED BY <1>2, <1>3, <1>4, <1>7, <1>9, <1>10

\* The references of a call, with the one that has been published.
LEMMA ExternalizedType ==
    ASSUME TypeOK, NEW c \in Call, Running("publish")
    PROVE  [call[c].refs EXCEPT ![Min(Missing(call[c].refs))] = ReferenceTo(Head(tail), placed)]
             \in [Sensor -> RefOrNone]
BY TypesOf, ReferenceType DEF Calls, RefOrNone

\* Every step leaves transportSequence a number.
LEMMA SequenceTyped == ASSUME TypeOK, [Next]_vars PROVE transportSequence' \in Nat
<1> USE TypesOf
<1>1. CASE transportSequence' = transportSequence
  BY <1>1
<1>2. ASSUME NEW h \in Handler, ObservationPublished(h) PROVE transportSequence' \in Nat
  BY <1>2 DEF ObservationPublished, Handlers, Sequence
<1>3. ASSUME NEW c \in Call, WorkerAnswers(c) PROVE transportSequence' \in Nat
  <2>1. transportSequence + 1 \in Nat /\ latest \in [Sensor -> RefOrNone]
    OBVIOUS
  <2>2. CASE Missing(latest) = {}
    BY <1>3, <2>1, <2>2, RespondType DEF WorkerAnswers
  <2>3. CASE Missing(latest) # {}
    BY <1>3, <2>3 DEF WorkerAnswers
  <2> QED BY <2>2, <2>3
<1>4. ASSUME NEW c \in Call, Externalized(c) PROVE transportSequence' \in Nat
  BY <1>4, RespondType, ExternalizedType DEF Externalized, Calls, Sequence
<1> QED BY <1>1, <1>2, <1>3, <1>4, SequenceSteps

\* Publications, captures and calls are counted, within their bounds.
LEMMA CountsTyped ==
    ASSUME TypeOK, [Next]_vars
    PROVE  published' \in Nat /\ captures' \in 0..MaxCaptures /\ calls' \in 0..MaxCalls
<1>1. published' \in Nat
  <2>1. published' = published \/ published' = published + 1
    BY PublishedSteps DEF Rendered, RawPublished, WorkerAnswers, Externalized
  <2> QED BY <2>1, TypesOf
<1>2. captures' \in 0..MaxCaptures
  BY CapturesSteps, EnvironmentAssumption DEF CaptureGroup, TypeOK
<1>3. calls' \in 0..MaxCalls
  <2>1. calls' = calls \/ (calls < MaxCalls /\ calls' = calls + 1)
    BY CallsSteps DEF StartCall
  <2> QED BY <2>1, EnvironmentAssumption DEF TypeOK
<1> QED BY <1>1, <1>2, <1>3

\* Every step leaves the worker in one of its states.
LEMMA WorkerTyped ==
    ASSUME TypeOK, [Next]_vars
    PROVE  /\ incarnation' \in Incarnation /\ busy' \in Call \cup {None}
           /\ alive' \in BOOLEAN /\ recovering' \in BOOLEAN /\ requiresReset' \in BOOLEAN
           /\ late' \in BOOLEAN
<1>1. incarnation' \in Incarnation /\ alive' \in BOOLEAN
  <2>1. CASE Replaced
    <3>1. alive' = (incarnation < MaxRestarts)
          /\ incarnation' = IF alive' THEN incarnation + 1 ELSE incarnation
      BY <2>1 DEF Replaced
    <3>2. incarnation \in Nat /\ MaxRestarts \in Nat /\ incarnation <= MaxRestarts
      BY EnvironmentAssumption DEF TypeOK, Incarnation
    <3>3. CASE incarnation < MaxRestarts
      BY <3>1, <3>2, <3>3 DEF Incarnation
    <3>4. CASE ~(incarnation < MaxRestarts)
      <4>0. (incarnation < MaxRestarts) = FALSE
        BY <3>4
      <4>1. alive' = FALSE
        BY <3>1, <4>0
      <4>2. incarnation' = incarnation
        BY <3>1, <4>1
      <4>3. incarnation' \in Incarnation
        BY <3>2, <4>2 DEF Incarnation
      <4> QED BY <4>1, <4>3
    <3> QED BY <3>3, <3>4
  <2>2. CASE CloseBatch \/ UNCHANGED <<incarnation, alive>>
    BY <2>2 DEF CloseBatch, TypeOK
  <2> QED BY <2>1, <2>2, WorkerSteps
<1>2. busy' \in Call \cup {None}
  BY BusySteps DEF StartCall, WorkerAnswers, Replaced, CloseBatch, WorkerGone, TypeOK
<1>3. recovering' \in BOOLEAN /\ requiresReset' \in BOOLEAN
  BY RecoveringSteps DEF WorkerAnswers, ExternalizeFails, Recover, Replaced, TypeOK
<1>4. late' \in BOOLEAN
  BY LateSteps DEF Replaced, CloseBatch, WorkerGone, TypeOK
<1> QED BY <1>1, <1>2, <1>3, <1>4

\* Every step leaves handlers, and one that is done has its observation.
LEMMA HandlerTyped ==
    ASSUME TypeOK, DoneIsCaptured, [Next]_vars
    PROVE  handler' \in [Handler -> Handlers] /\ DoneIsCaptured'
<1> DEFINE Good == handler' \in [Handler -> Handlers] /\ DoneIsCaptured'
<1> SUFFICES Good
  OBVIOUS
<1>1. handler \in [Handler -> Handlers] /\ Resting \in Handlers /\ transportSequence \in Nat
  BY TypesOf, NothingIsTyped
<1>2. ASSUME NEW h \in Handler, NEW v \in Handlers, v.stage = "done" => v.obs \in Ref,
             handler' = [handler EXCEPT ![h] = v]
      PROVE  Good
  BY <1>1, <1>2 DEF DoneIsCaptured
<1>3. ASSUME handler' \in [Handler -> Handlers],
             \A h \in Handler : handler'[h] = handler[h] \/ handler'[h].stage # "done"
      PROVE  Good
  BY <1>3 DEF DoneIsCaptured
<1> HIDE DEF Good
<1>4. Resting.stage # "done" /\ [Resting EXCEPT !.stage = "gpu"].stage # "done"
      /\ [Resting EXCEPT !.stage = "gpu"] \in Handlers /\ [Resting EXCEPT !.stage = "failed"] \in Handlers
      /\ [Resting EXCEPT !.stage = "failed"].stage # "done"
  BY <1>1 DEF Resting, Handlers
<1>5. CASE handler' = handler
  BY <1>1, <1>3, <1>5
<1>6. ASSUME NEW S \in (SUBSET Sensor) \ {{}}, CaptureGroup(S) PROVE Good
  <2>1. handler' = [h \in Handler |-> IF h[1] = incarnation /\ h[2] \in S
                                        THEN [Resting EXCEPT !.stage = "gpu"] ELSE handler[h]]
    BY <1>6 DEF CaptureGroup
  <2> QED BY <1>1, <1>3, <1>4, <2>1
<1>7. ASSUME NEW h \in Handler, Rendered(h) PROVE Good
  <2> DEFINE v == [handler[h] EXCEPT !.stage = "raw", !.seq = transportSequence + 1]
  <2>0. transportSequence + 1 \in Sequence
    BY <1>1 DEF Sequence
  <2>1. v \in Handlers /\ v.stage # "done"
    <3>1. handler[h] \in Handlers
      BY <1>1
    <3> QED BY <2>0, <3>1 DEF Handlers
  <2>2. handler' = [handler EXCEPT ![h] = v]
    BY <1>7 DEF Rendered
  <2> QED BY <1>2, <2>1, <2>2
<1>8. ASSUME NEW h \in Handler, RawPublished(h) PROVE Good
  <2> DEFINE v == [handler[h] EXCEPT !.stage = "obs", !.raw = ReferenceTo(Head(tail), placed)]
  <2>1. ReferenceTo(Head(tail), placed) \in Ref
    BY <1>8, ReferenceType, TypesOf DEF RawPublished
  <2>2. v \in Handlers /\ v.stage # "done"
    BY <1>1, <2>1 DEF Handlers, RefOrNone
  <2>3. handler' = [handler EXCEPT ![h] = v]
    BY <1>8 DEF RawPublished
  <2> QED BY <1>2, <2>2, <2>3
<1>9. ASSUME NEW h \in Handler, ObservationPublished(h) PROVE Good
  <2> DEFINE v == [handler[h] EXCEPT !.stage = "done", !.obs = ReferenceTo(Head(tail), placed)]
  <2>1. ReferenceTo(Head(tail), placed) \in Ref
    BY <1>9, ReferenceType, TypesOf DEF ObservationPublished
  <2>2. v \in Handlers /\ v.obs \in Ref
    BY <1>1, <2>1 DEF Handlers, RefOrNone
  <2>3. handler' = [handler EXCEPT ![h] = v] \/ handler' = [handler EXCEPT ![h] = Resting]
    BY <1>9 DEF ObservationPublished
  <2> QED BY <1>1, <1>2, <1>4, <2>2, <2>3
<1>10. ASSUME NEW h \in Handler, CaptureFails(h) PROVE Good
  <2>1. \/ handler' = [handler EXCEPT ![h] = [Resting EXCEPT !.stage = "failed"]]
        \/ handler' = [handler EXCEPT ![h] = Resting]
    BY <1>10 DEF CaptureFails
  <2> QED BY <1>1, <1>2, <1>4, <2>1
<1>11. CASE ProcessGroup
  <2>1. handler' = [h \in Handler |-> IF h[1] = incarnation THEN Resting ELSE handler[h]]
    BY <1>11 DEF ProcessGroup
  <2> QED BY <1>1, <1>3, <1>4, <2>1
<1>12. CASE Replaced \/ CloseBatch
  <2>1. handler' = [h \in Handler |-> IF h \in Handler /\ handler[h].stage \in {"done", "failed"}
                                        THEN Resting ELSE handler[h]]
    BY <1>12 DEF Replaced, CloseBatch, WorkerGone, Abandon
  <2> QED BY <1>1, <1>3, <1>4, <2>1
<1> QED BY <1>5, <1>6, <1>7, <1>8, <1>9, <1>10, <1>11, <1>12, HandlerSteps

\* Every step leaves frames, and no more queued than the queue takes.
LEMMA FramesTyped ==
    ASSUME TypeOK, DoneIsCaptured, [Next]_vars
    PROVE  /\ queue' \in [Sensor -> Seq(Ref)] /\ latest' \in [Sensor -> RefOrNone]
           /\ \A s \in Sensor : Len(queue'[s]) <= MaxQueueFrames
<1> DEFINE Good == /\ queue' \in [Sensor -> Seq(Ref)] /\ latest' \in [Sensor -> RefOrNone]
                   /\ \A s \in Sensor : Len(queue'[s]) <= MaxQueueFrames
<1> SUFFICES Good
  OBVIOUS
<1>1. /\ queue \in [Sensor -> Seq(Ref)] /\ latest \in [Sensor -> RefOrNone]
      /\ NoRefs \in [Sensor -> RefOrNone] /\ MaxQueueFrames \in Nat
      /\ \A s \in Sensor : Len(queue[s]) <= MaxQueueFrames
  BY TypesOf, NothingIsTyped, EnvironmentAssumption DEF TypeOK
<1>2. CASE UNCHANGED <<queue, latest>>
  BY <1>1, <1>2
<1>3. ASSUME queue' = [s \in Sensor |-> <<>>], latest' = NoRefs PROVE Good
  BY <1>1, <1>3
<1>4. CASE (\E c \in Call, reset \in BOOLEAN : StartCall(c, reset)) \/ Replaced \/ CloseBatch
  <2>1. \/ UNCHANGED <<queue, latest>>
        \/ queue' = [s \in Sensor |-> <<>>] /\ latest' = NoRefs
    BY <1>4 DEF StartCall, Replaced, CloseBatch, WorkerGone
  <2> QED BY <1>2, <1>3, <2>1
<1>5. CASE ProcessGroup
  <2> DEFINE of(s) == handler[<<incarnation, s>>]
             full == \E s \in Mine : Len(queue[s]) >= MaxQueueFrames
  <2>1. /\ \A s \in Mine : of(s).stage = "done"
        /\ queue' = [s \in Sensor |-> IF s \in Mine /\ ~full THEN Append(queue[s], of(s).obs)
                                      ELSE queue[s]]
        /\ latest' = latest
    BY <1>5 DEF ProcessGroup
  <2>2. \A s \in Mine : of(s).obs \in Ref
    BY <2>1, TypesOf DEF DoneIsCaptured, Mine
  <2>3. ASSUME NEW s \in Sensor
        PROVE  queue'[s] \in Seq(Ref) /\ Len(queue'[s]) <= MaxQueueFrames
    <3>1. CASE s \in Mine /\ ~full
      <4>1. Len(queue[s]) < MaxQueueFrames /\ Len(queue[s]) \in Nat
        BY <1>1, <3>1
      <4>2. queue'[s] = Append(queue[s], of(s).obs) /\ of(s).obs \in Ref
        BY <2>1, <2>2, <3>1
      <4> HIDE DEF of
      <4>3. queue'[s] \in Seq(Ref) /\ Len(queue'[s]) = Len(queue[s]) + 1
        BY <1>1, <4>2, AppendProperties
      <4> QED BY <1>1, <4>1, <4>3
    <3>2. CASE ~(s \in Mine /\ ~full)
      BY <1>1, <2>1, <3>2
    <3> QED BY <3>1, <3>2
  <2>4. queue' \in [Sensor -> Seq(Ref)]
    BY <2>1, <2>3
  <2> QED BY <1>1, <2>1, <2>3, <2>4
<1>6. ASSUME NEW s \in Sensor, Deliver(s) PROVE Good
  <2>1. /\ queue[s] # <<>>
        /\ latest' = [latest EXCEPT ![s] = Head(queue[s])]
        /\ queue' = [queue EXCEPT ![s] = Tail(queue[s])]
    BY <1>6 DEF Deliver
  <2>2. /\ Head(queue[s]) \in Ref /\ Tail(queue[s]) \in Seq(Ref)
        /\ Len(Tail(queue[s])) <= MaxQueueFrames
    <3>1. queue[s] \in Seq(Ref) /\ Len(queue[s]) \in Nat
      BY <1>1
    <3>2. Len(Tail(queue[s])) = Len(queue[s]) - 1
      BY <2>1, <3>1, HeadTailProperties
    <3> QED BY <1>1, <2>1, <3>1, <3>2, HeadTailProperties
  <2> QED BY <1>1, <2>1, <2>2 DEF RefOrNone
<1> QED BY <1>2, <1>4, <1>5, <1>6, FrameSteps

\* Every step leaves calls.
LEMMA CallTyped == ASSUME TypeOK, [Next]_vars PROVE call' \in [Call -> Calls]
<1>1. /\ call \in [Call -> Calls] /\ NoCall \in Calls /\ latest \in [Sensor -> RefOrNone]
      /\ transportSequence + 1 \in Nat
  BY TypesOf, NothingIsTyped
<1>2. CASE call' = call
  BY <1>1, <1>2
<1>3. ASSUME NEW c \in Call, NEW reset \in BOOLEAN, StartCall(c, reset) PROVE call' \in [Call -> Calls]
  BY <1>1, <1>3 DEF StartCall, Calls
<1>4. ASSUME NEW c \in Call, WorkerAnswers(c) PROVE call' \in [Call -> Calls]
  <2>1. CASE Missing(latest) = {}
    BY <1>1, <1>4, <2>1, RespondType DEF WorkerAnswers
  <2>2. CASE Missing(latest) # {}
    <3>1. call' = [call EXCEPT ![c] = [NoCall EXCEPT !.stage = "externalize",
                                                     !.seq = transportSequence + 1, !.refs = latest]]
      BY <1>4, <2>2 DEF WorkerAnswers
    <3> QED BY <1>1, <3>1 DEF Calls, Sequence
  <2> QED BY <2>1, <2>2
<1>5. ASSUME NEW c \in Call, Externalized(c) PROVE call' \in [Call -> Calls]
  <2> DEFINE refs == [call[c].refs EXCEPT ![Min(Missing(call[c].refs))] = ReferenceTo(Head(tail), placed)]
  <2>1. refs \in [Sensor -> RefOrNone] /\ call[c].seq \in Nat
    BY <1>1, <1>5, ExternalizedType DEF Externalized, Calls, Sequence
  <2>2. \/ Missing(refs) = {} /\ Respond(c, call[c].seq, refs)
        \/ call' = [call EXCEPT ![c].refs = refs]
    BY <1>5 DEF Externalized
  <2> HIDE DEF refs
  <2> QED BY <1>1, <2>1, <2>2, RespondType DEF Calls
<1>6. ASSUME NEW c \in Call, ExternalizeFails(c) PROVE call' \in [Call -> Calls]
  BY <1>1, <1>6 DEF ExternalizeFails
<1>7. CASE Replaced \/ CloseBatch
  <2>1. call' = [c \in Call |-> IF call[c].stage \in {"externalize", "overtaken"}
                                  THEN [call[c] EXCEPT !.stage = "overtaken"] ELSE NoCall]
    BY <1>7 DEF Replaced, CloseBatch, WorkerGone
  <2> QED BY <1>1, <2>1 DEF Calls
<1> QED BY <1>2, <1>3, <1>4, <1>5, <1>6, <1>7, CallSteps

\* Every step leaves the client references.
LEMMA ClientTyped ==
    ASSUME TypeOK, [Next]_vars
    PROVE  /\ response' \in [Sensor -> RefOrNone] /\ newest' \in Nat
           /\ refused' \subseteq Ref /\ outlived' \subseteq Ref
<1>1. /\ response \in [Sensor -> RefOrNone] /\ newest \in Nat /\ latest \in [Sensor -> RefOrNone]
      /\ refused \subseteq Ref /\ outlived \subseteq Ref /\ transportSequence + 1 \in Nat
  BY TypesOf DEF TypeOK, Sequence
<1>2. CASE clientVars' = clientVars
  BY <1>1, <1>2 DEF clientVars
<1>3. ASSUME NEW c \in Call, WorkerAnswers(c)
      PROVE  /\ response' \in [Sensor -> RefOrNone] /\ newest' \in Nat
             /\ refused' \subseteq Ref /\ outlived' \subseteq Ref
  <2>1. CASE Missing(latest) = {}
    BY <1>1, <1>3, <2>1, RespondType DEF WorkerAnswers
  <2>2. CASE Missing(latest) # {}
    BY <1>1, <1>3, <2>2 DEF WorkerAnswers, clientVars
  <2> QED BY <2>1, <2>2
<1>4. ASSUME NEW c \in Call, Externalized(c)
      PROVE  /\ response' \in [Sensor -> RefOrNone] /\ newest' \in Nat
             /\ refused' \subseteq Ref /\ outlived' \subseteq Ref
  <2> DEFINE refs == [call[c].refs EXCEPT ![Min(Missing(call[c].refs))] = ReferenceTo(Head(tail), placed)]
  <2>1. refs \in [Sensor -> RefOrNone] /\ call[c].seq \in Nat
    BY <1>4, ExternalizedType, TypesOf DEF Externalized, Calls, Sequence
  <2>2. \/ Missing(refs) = {} /\ Respond(c, call[c].seq, refs)
        \/ UNCHANGED clientVars
    BY <1>4 DEF Externalized
  <2> HIDE DEF refs
  <2> QED BY <1>1, <2>1, <2>2, RespondType DEF clientVars
<1>5. CASE Replaced
  <2>1. /\ outlived' = outlived \cup (ToSet(response) \ {None})
        /\ UNCHANGED <<response, newest, refused>>
    BY <1>5 DEF Replaced
  <2>2. ToSet(response) \subseteq RefOrNone
    BY <1>1 DEF ToSet
  <2> QED BY <1>1, <2>1, <2>2 DEF RefOrNone
<1> QED BY <1>2, <1>3, <1>4, <1>5, ClientSteps

\* Every step leaves a reader that knows what it reads.
LEMMA ReadTyped ==
    ASSUME TypeOK, ReadsReference, [Next]_vars
    PROVE  misread' \subseteq Ref /\ ReadsReference'
<1>1. misread \subseteq Ref /\ response \in [Sensor -> RefOrNone]
  BY TypesOf DEF TypeOK
<1>2. CASE readVars' = readVars
  BY <1>1, <1>2 DEF readVars, ReadsReference
<1>3. ASSUME NEW s \in Sensor, response[s] # None, ReadBefore(response[s])
      PROVE  misread' \subseteq Ref /\ ReadsReference'
  BY <1>1, <1>3 DEF ReadBefore, ReadsReference, RefOrNone
<1>4. CASE ReadPayload
  BY <1>1, <1>4 DEF ReadPayload, ReadsReference, Idle
<1>5. CASE ReadAfter
  BY <1>1, <1>5 DEF ReadAfter, ReadsReference, Idle
<1> QED BY <1>2, <1>3, <1>4, <1>5, ReadSteps DEF Read

-----------------------------------------------------------------------------
(***************************************************************************)
(* The theorems on the types, the blocks and the arena.                    *)
(***************************************************************************)

\* An environment with an empty arena satisfies the invariant.
LEMMA InitEnvironment == Init => EnvInv
<1> SUFFICES ASSUME Init PROVE EnvInv
  OBVIOUS
<1>1. Inductive
  BY InitInductive DEF Init
<1>2. ArenaTypeOK
  BY <1>1 DEF Inductive
<1>3. /\ handler \in [Handler -> Handlers] /\ call \in [Call -> Calls]
      /\ latest \in [Sensor -> RefOrNone] /\ response \in [Sensor -> RefOrNone]
  BY NothingIsTyped DEF Init
<1>4. queue \in [Sensor -> Seq(Ref)] /\ \A s \in Sensor : Len(queue[s]) <= MaxQueueFrames
  BY EnvironmentAssumption DEF Init
<1>5. DoneIsCaptured /\ ReadsReference
  BY DEF Init, DoneIsCaptured, ReadsReference, Resting, Idle
<1>6. TypeOK
  <2>1. /\ transportSequence \in Sequence /\ newest \in Sequence /\ published \in Nat
        /\ captures \in 0..MaxCaptures /\ calls \in 0..MaxCalls /\ incarnation \in Incarnation
    BY EnvironmentAssumption DEF Init, Sequence, Incarnation
  <2>2. /\ {alive, recovering, requiresReset, late} \subseteq BOOLEAN
        /\ busy \in Call \cup {None} /\ refused \cup outlived \cup misread \subseteq Ref
    BY DEF Init
  <2> QED BY <1>2, <1>3, <1>4, <2>1, <2>2 DEF TypeOK, Handlers, Calls
<1> QED BY <1>1, <1>5, <1>6 DEF EnvInv

\* The invariant is inductive.
LEMMA EnvironmentStep == EnvInv /\ [Next]_vars => EnvInv'
<1> SUFFICES ASSUME EnvInv, [Next]_vars PROVE EnvInv'
  OBVIOUS
<1>1. TypeOK /\ Inductive /\ DoneIsCaptured /\ ReadsReference
  BY DEF EnvInv
<1>2. Inductive'
  BY <1>1, ArenaSteps, InductiveStep
<1>3. handler' \in [Handler -> Handlers] /\ DoneIsCaptured' /\ call' \in [Call -> Calls]
  BY <1>1, HandlerTyped, CallTyped
<1>4. /\ queue' \in [Sensor -> Seq(Ref)] /\ latest' \in [Sensor -> RefOrNone]
      /\ \A s \in Sensor : Len(queue'[s]) <= MaxQueueFrames
  BY <1>1, FramesTyped
<1>5. misread' \subseteq Ref /\ ReadsReference'
  BY <1>1, ReadTyped
<1>6. TypeOK'
  <2>1. ArenaTypeOK'
    BY <1>2 DEF Inductive
  <2> QED BY <1>1, <1>3, <1>4, <1>5, <2>1, SequenceTyped, CountsTyped, WorkerTyped, ClientTyped
        DEF TypeOK, Handlers, Calls, Sequence
<1> QED BY <1>2, <1>3, <1>5, <1>6 DEF EnvInv

\* Every state of the environment satisfies it.
LEMMA EnvironmentInvariant == Spec => []EnvInv
  BY InitEnvironment, EnvironmentStep, PTL DEF Spec

\* The handlers, the frames of the worker, the calls and the client keep their
\* types, whatever fails, is replaced or is closed
\* (HeadlessSupervisor.js:1055-1160, 1361-1583; HeadlessGpuSensorManager.js).
THEOREM EnvironmentTypeCorrect == Spec => []TypeOK
<1>1. EnvInv => TypeOK
  BY DEF EnvInv
<1> QED BY <1>1, EnvironmentInvariant, PTL

\* What is allocated holds what was published in it, with the handlers, the
\* calls and the recoveries of one environment as the users of the arena
\* (SharedTensorArena.js:144-232).
THEOREM EnvironmentBlocksIntact == Spec => []BlocksIntact
<1>1. EnvInv => BlocksIntact
  BY DEF EnvInv, Inductive
<1> QED BY <1>1, EnvironmentInvariant, PTL

\* Every behaviour of the environment is one of ArenaSpec: handlers of live and
\* of replaced workers, calls, recoveries and CloseBatch ask the arena for
\* nothing but requests it accepts, and touch its file through it only. So what
\* holds of ArenaSpec holds of the environment.
THEOREM EnvironmentUsesArena == Spec => ArenaSpec
<1>1. Init => ArenaInit
  BY DEF Init
<1>2. EnvInv => TypeOK
  BY DEF EnvInv
<1> QED BY <1>1, <1>2, ArenaSteps, EnvironmentInvariant, PTL DEF Spec, ArenaSpec

-----------------------------------------------------------------------------
(***************************************************************************)
(* What handlers, frames and responses refer to.                           *)
(***************************************************************************)

\* One call in flight, and no more routes than generations.
OneCall == \A c, d \in Call : c = d
EnoughGenerations == Cardinality(Sensor) <= Generations

\* A worker that captures is executing a call, and that call is not answered.
Working ==
    /\ busy # None => call[busy].stage = "working" /\ alive
    /\ \A h \in Handler : handler[h].stage # "idle" => h[1] = incarnation /\ busy # None

\* What a handler has been answered.
Products ==
    \A h \in Handler :
      /\ handler[h].raw # None => handler[h].stage \in {"obs", "done"}
      /\ handler[h].obs # None => handler[h].stage = "done"

Publishes(i) == tail[i].op = "publish"
Releases(i) == tail[i].op = "release"

Waits(r) ==
    \/ /\ r.by \in Handler
       /\ handler[r.by].stage = IF r.retained THEN "obs" ELSE "raw"
       /\ r.gen = handler[r.by].seq
    \/ /\ r.by \in Call
       /\ call[r.by].stage \in {"externalize", "overtaken"}
       /\ r.gen = call[r.by].seq /\ ~r.retained

\* Who waits for a publication, and what for.  Nothing is released behind the
\* publication of a response.
Publishing ==
    /\ \A i \in DOMAIN tail : Publishes(i) => Waits(tail[i])
    /\ \A i, j \in DOMAIN tail : Publishes(i) /\ Publishes(j) /\ tail[i].by = tail[j].by => i = j
    /\ \A i, j \in DOMAIN tail : i < j /\ Publishes(i) /\ tail[i].by \in Call => ~Releases(j)

Begun == {s \in Sensor : handler[<<incarnation, s>>].stage \notin {"idle", "gpu"}}

\* The sequences of the captures under way are close to each other.
Near(base) ==
    /\ transportSequence <= base + Cardinality(Begun)
    /\ \A h \in Handler : handler[h].stage \in {"raw", "obs", "done"} =>
         base < handler[h].seq /\ handler[h].seq <= base + Cardinality(Begun)
SequencesNear == \E base \in 0..transportSequence : Near(base)

LiveAs(ref, kept) ==
    \E b \in blocks : b.off = ref.off /\ b.gen = ref.gen /\ b.content = ref.content /\ b.retained = kept

\* The places for the frames of a sensor: delivered, queued, captured.
Places == 0..(MaxQueueFrames + 1)
Frame(s, i) ==
    IF i = 0 THEN latest[s]
    ELSE IF i = MaxQueueFrames + 1 THEN handler[<<incarnation, s>>].obs
    ELSE IF i <= Len(queue[s]) THEN queue[s][i] ELSE None

\* The raw products that handlers hold.
Raws ==
    /\ \A h \in Handler : handler[h].raw # None =>
         LiveAs(handler[h].raw, FALSE) /\ handler[h].raw.gen = handler[h].seq
    /\ \A g, h \in Handler :
         handler[g].raw # None /\ handler[h].raw # None /\ handler[g].raw.off = handler[h].raw.off => g = h

\* The observations that the worker holds.
FramesHeld ==
    /\ \A s \in Sensor : \A i \in Places : Frame(s, i) # None => LiveAs(Frame(s, i), TRUE)
    /\ \A s, t \in Sensor : \A i, j \in Places :
         Frame(s, i) # None /\ Frame(t, j) # None /\ Frame(s, i).off = Frame(t, j).off => s = t /\ i = j

Held == ({handler[h].raw : h \in Handler} \cup {Frame(s, i) : s \in Sensor, i \in Places}) \ {None}

\* Block b cannot be retired before the operation at i.
Outlasts(b, i) == b.retained \/ \A j \in 1..(i - 1) : Publishes(j) => tail[j].gen < b.gen + Generations
Guarded(i) ==
    \/ \A j \in 1..(i - 1) : ~Publishes(j)
    \/ \E b \in blocks : b.off = tail[i].off /\ Outlasts(b, i)

\* What is being released is nobody's any more, and nothing else can have taken
\* its place when its turn comes.
Releasing ==
    \A i \in DOMAIN tail : Releases(i) =>
      /\ Guarded(i)
      /\ \A j \in DOMAIN tail : Releases(j) /\ tail[j].off = tail[i].off => i = j
      /\ \A ref \in Held : ref.off # tail[i].off

\* A reference of a response: the frame that the worker holds, or what was
\* published for this call.
Given(ref, s, seq) ==
    ref # None =>
      \/ ref = latest[s]
      \/ /\ LiveAs(ref, FALSE) /\ ref.gen = seq
         /\ \A i \in DOMAIN tail : Releases(i) => tail[i].off # ref.off

Responding ==
    /\ recovering \/ ~alive => requiresReset \/ closed
    /\ \A c \in Call : call[c].stage = "overtaken" => requiresReset \/ closed
    /\ \A c \in Call : call[c].stage = "externalize" =>
         \A s \in Sensor : Given(call[c].refs[s], s, call[c].seq)
    /\ (\A c \in Call : call[c].stage = "idle") /\ ~requiresReset /\ ~closed =>
         \A s \in Sensor : Given(response[s], s, transportSequence)

Holding ==
    /\ Working /\ Products /\ Publishing /\ SequencesNear
    /\ Raws /\ FramesHeld /\ Releasing /\ Responding
HoldingInv == ~late => Holding

(* The tail after a step *)

\* The first d operations are over, and more have been asked for.
Moved(d, more) ==
    /\ Len(tail') = Len(tail) - d + Len(more)
    /\ \A i \in 1..(Len(tail) - d) : tail'[i] = tail[i + d]
    /\ \A i \in 1..Len(more) : tail'[Len(tail) - d + i] = more[i]

\* What a step of the arena, or a request, makes of the tail.
LEMMA TailMoves ==
    ASSUME tail \in Seq(Request), NEW more \in Seq(Request)
    PROVE  /\ tail' = tail \o more => Moved(0, more)
           /\ tail # <<>> /\ tail' = Tail(tail) \o more => Moved(1, more)
           /\ tail' = tail => Moved(0, <<>>)
<1>1. /\ Len(tail) \in Nat /\ Len(more) \in Nat
      /\ tail # <<>> => Len(tail) > 0
  OBVIOUS
<1>2. ASSUME tail' = tail \o more PROVE Moved(0, more)
  <2>1. Len(tail') = Len(tail) + Len(more)
    BY <1>2, ConcatProperties
  <2>2. \A i \in 1..Len(tail) : tail'[i] = tail[i]
    BY <1>2, <1>1, ConcatProperties
  <2>3. \A i \in 1..Len(more) : tail'[Len(tail) + i] = more[i]
    BY <1>2, <1>1, ConcatProperties
  <2> QED BY <1>1, <2>1, <2>2, <2>3 DEF Moved
<1>3. ASSUME tail # <<>>, tail' = Tail(tail) \o more PROVE Moved(1, more)
  <2>1. /\ Tail(tail) \in Seq(Request) /\ Len(Tail(tail)) = Len(tail) - 1
        /\ \A i \in 1..(Len(tail) - 1) : Tail(tail)[i] = tail[i + 1]
    BY <1>3, HeadTailProperties
  <2>2. Len(tail') = Len(tail) - 1 + Len(more)
    BY <1>3, <2>1, ConcatProperties
  <2>3. \A i \in 1..(Len(tail) - 1) : tail'[i] = tail[i + 1]
    BY <1>1, <1>3, <2>1, ConcatProperties
  <2>4. \A i \in 1..Len(more) : tail'[Len(tail) - 1 + i] = more[i]
    BY <1>1, <1>3, <2>1, ConcatProperties
  <2> QED BY <2>2, <2>3, <2>4 DEF Moved
<1>4. ASSUME tail' = tail PROVE Moved(0, <<>>)
  BY <1>1, <1>4 DEF Moved
<1> QED BY <1>2, <1>3, <1>4

\* Where an operation of the new tail comes from.
LEMMA ComesFrom ==
    ASSUME tail \in Seq(Request), tail' \in Seq(Request), NEW more \in Seq(Request),
           NEW d \in {0, 1}, d <= Len(tail), Moved(d, more), NEW i \in DOMAIN tail'
    PROVE  /\ i \in Nat \ {0}
           /\ \/ i + d \in DOMAIN tail /\ tail'[i] = tail[i + d]
              \/ /\ i - (Len(tail) - d) \in DOMAIN more /\ tail'[i] = more[i - (Len(tail) - d)]
                 /\ i > Len(tail) - d
<1>1. /\ Len(tail) \in Nat /\ Len(more) \in Nat /\ Len(tail') \in Nat
      /\ DOMAIN tail = 1..Len(tail) /\ DOMAIN more = 1..Len(more) /\ DOMAIN tail' = 1..Len(tail')
  OBVIOUS
<1>0. d \in Nat
  OBVIOUS
<1>2. i \in 1..Len(tail') /\ Len(tail') = Len(tail) - d + Len(more)
  BY <1>1 DEF Moved
<1>3. CASE i <= Len(tail) - d
  <2>0. i \in 1..(Len(tail) - d) /\ i + d \in 1..Len(tail)
    BY <1>0, <1>1, <1>2, <1>3
  <2>1. tail'[i] = tail[i + d]
    BY <2>0 DEF Moved
  <2> QED BY <1>1, <1>2, <1>3, <2>0, <2>1
<1>4. CASE i > Len(tail) - d
  <2> DEFINE k == i - (Len(tail) - d)
  <2>1. k \in 1..Len(more) /\ i = Len(tail) - d + k
    BY <1>0, <1>1, <1>2, <1>4
  <2>2. tail'[Len(tail) - d + k] = more[k]
    BY <2>1 DEF Moved
  <2> QED BY <1>1, <1>2, <1>4, <2>1, <2>2
<1> QED BY <1>1, <1>2, <1>3, <1>4

(* Blocks *)

Same(a, b) == a.off = b.off /\ a.len = b.len /\ a.gen = b.gen /\ a.content = b.content /\ a.retained = b.retained

\* A block goes only by a publication that retires it, by its release, or by
\* the invalidation of the arena.
LEMMA BlockStays ==
    ASSUME ArenaTypeOK, [ArenaNext]_arenaVars, \A more : ~Grow(more), NEW b \in blocks,
           Running("publish") => b.retained \/ Head(tail).gen < b.gen + Generations,
           Running("release") /\ stage = "waiting" => Head(tail).off # b.off
    PROVE  \E a \in blocks' : Same(a, b)
<1> DEFINE Good == \E a \in blocks' : Same(a, b)
<1>1. ASSUME b \in blocks' PROVE Good
  BY <1>1 DEF Same
<1>2. b.retained \in BOOLEAN /\ b.gen \in Nat /\ Generations \in Nat
  BY ArenaAssumption DEF ArenaTypeOK, Block
<1>3. CASE \/ \E more \in Seq(Request) : Submit(more) \/ InvalidateNothing(more)
           \/ WritePayload \/ EraseMagic \/ Truncate \/ Close \/ Unlink \/ UNCHANGED arenaVars
  <2>1. blocks' = blocks
    BY <1>3 DEF Submit, InvalidateNothing, WritePayload, EraseMagic, Truncate, Close, Unlink, arenaVars
  <2> QED BY <1>1, <2>1
<1>4. CASE Place \/ \E more \in Seq(Request) : PublishFails(more)
  <2>1. Running("publish") /\ (blocks' = blocks \/ blocks' = Retire(blocks, Head(tail).gen))
    BY <1>4 DEF Place, PublishFails
  <2>2. CASE blocks' = blocks
    BY <1>1, <2>2
  <2>3. CASE blocks' = Retire(blocks, Head(tail).gen)
    <3>1. Head(tail).gen \in Nat
      BY <2>1, RunningRequest DEF PublishRequest
    <3>2. b.retained \/ b.gen + Generations > Head(tail).gen
      BY <1>2, <2>1, <3>1
    <3> QED BY <1>1, <2>3, <3>2 DEF Retire
  <2> QED BY <2>1, <2>2, <2>3
<1>5. CASE \E more \in Seq(Request) : WriteHeader(more)
  BY <1>1, <1>5 DEF WriteHeader
<1>6. CASE Retain
  <2> DEFINE a == IF b.off = Head(tail).off /\ b.retained THEN [b EXCEPT !.count = @ + 1] ELSE b
  <2>1. a \in blocks'
    BY <1>6 DEF Retain
  <2>2. Same(a, b)
    BY DEF Same, ArenaTypeOK, Block
  <2> QED BY <2>1, <2>2
<1>7. CASE ReleaseKeeps
  <2> DEFINE a == IF b.off = Head(tail).off THEN [b EXCEPT !.count = @ - 1] ELSE b
  <2>1. b \in blocks' \/ a \in blocks'
    BY <1>7 DEF ReleaseKeeps
  <2>2. Same(a, b)
    BY DEF Same, ArenaTypeOK, Block
  <2> QED BY <1>1, <2>1, <2>2
<1>8. CASE ReleaseFrees
  <2>1. b \in blocks'
    BY <1>8 DEF ReleaseFrees, At
  <2> QED BY <1>1, <2>1
<1> QED BY <1>3, <1>4, <1>5, <1>6, <1>7, <1>8 DEF ArenaNext

-----------------------------------------------------------------------------
(***************************************************************************)
(* What is released: each reference once.                                  *)
(***************************************************************************)

\* FlattenSeq joins its sequences one after the other.
LEMMA FlattenSteps ==
    ASSUME NEW R, NEW n \in Nat \ {0}, NEW q \in [1..n -> Seq(R)]
    PROVE  \E f : /\ FlattenSeq(q) = f[n] /\ f[1] = q[1]
                  /\ \A i \in 1..n : i # 1 => f[i] = f[i - 1] \o q[i]
<1>1. Len(q) = n
  OBVIOUS
<1> DEFINE f == CHOOSE g : Flattens(q, n, g)
<1>2. Flattens(q, n, f)
  BY FlattenIsDefined
<1>3. FlattenSeq(q) = f[n]
  <2>1. FlattenSeq(q) = (CHOOSE g : Flattens(q, Len(q), g))[Len(q)]
    BY Zenon, <1>1 DEF FlattenSeq, Flattens, FlattenStep
  <2> QED BY <1>1, <2>1
<1> HIDE DEF f
<1>4. \A i \in 1..n : f[i] = FlattenStep(q, f, i)
  <2>1. f = [i \in 1..n |-> FlattenStep(q, f, i)]
    BY <1>2 DEF Flattens
  <2> HIDE DEF FlattenStep
  <2> QED BY <2>1
<1>5. f[1] = q[1]
  BY <1>4 DEF FlattenStep
<1>6. \A i \in 1..n : i # 1 => f[i] = f[i - 1] \o q[i]
  BY <1>4 DEF FlattenStep
<1> QED BY <1>3, <1>5, <1>6

\* Nothing is in the sequences of q twice.
OnceEach(q, n) ==
    \A k, l \in 1..n : \A m \in DOMAIN q[k] : \A p \in DOMAIN q[l] :
      q[k][m] = q[l][p] => k = l /\ m = p

IsElement(x, q, n) == \E k \in 1..n : \E m \in DOMAIN q[k] : x = q[k][m]

\* Its elements are elements of the sequences, and distinct when those are.
LEMMA FlattenElements ==
    ASSUME NEW R, NEW n \in Nat \ {0}, NEW q \in [1..n -> Seq(R)]
    PROVE  /\ FlattenSeq(q) \in Seq(R)
           /\ \A a \in DOMAIN FlattenSeq(q) : IsElement(FlattenSeq(q)[a], q, n)
           /\ OnceEach(q, n) =>
                \A a, b \in DOMAIN FlattenSeq(q) : FlattenSeq(q)[a] = FlattenSeq(q)[b] => a = b
<1> DEFINE Distinct == OnceEach(q, n)
<1>1. PICK f : /\ FlattenSeq(q) = f[n] /\ f[1] = q[1]
               /\ \A i \in 1..n : i # 1 => f[i] = f[i - 1] \o q[i]
  BY FlattenSteps
<1> DEFINE From(i) == \A a \in DOMAIN f[i] : \E k \in 1..i : \E m \in DOMAIN q[k] : f[i][a] = q[k][m]
           Once(i) == \A a, b \in DOMAIN f[i] : f[i][a] = f[i][b] => a = b
           Good(i) == f[i] \in Seq(R) /\ From(i) /\ (Distinct => Once(i))
           Bad == {i \in 1..n : ~Good(i)}
<1>2. Good(1)
  <2>1. From(1)
    BY <1>1
  <2>2. Distinct => Once(1)
    BY <1>1 DEF OnceEach
  <2> QED BY <1>1, <2>1, <2>2
<1>3. ASSUME NEW i \in 1..n, i # 1, Good(i - 1) PROVE Good(i)
  <2> DEFINE u == f[i - 1]
             v == q[i]
             w == f[i]
  <2>1. w = u \o v /\ u \in Seq(R) /\ v \in Seq(R) /\ i - 1 \in 1..n
    BY <1>1, <1>3
  <2>2. /\ w \in Seq(R) /\ DOMAIN w = 1..(Len(u) + Len(v)) /\ DOMAIN u = 1..Len(u) /\ DOMAIN v = 1..Len(v)
        /\ Len(u) \in Nat /\ Len(v) \in Nat
        /\ \A a \in 1..Len(u) : w[a] = u[a]
        /\ \A a \in 1..Len(v) : w[Len(u) + a] = v[a]
    <3> HIDE DEF u, v, w
    <3> QED BY <2>1, ConcatProperties
  <2>3. \A a \in DOMAIN u : \E k \in 1..(i - 1) : \E m \in DOMAIN q[k] : u[a] = q[k][m]
    BY <1>3
  <2>4. ASSUME NEW a \in DOMAIN w, a > Len(u)
        PROVE  a - Len(u) \in DOMAIN v /\ w[a] = v[a - Len(u)]
    <3> HIDE DEF u, v, w
    <3>1. a - Len(u) \in 1..Len(v) /\ a = Len(u) + (a - Len(u))
      BY <2>2, <2>4
    <3> QED BY <2>2, <3>1
  <2>5. \A a \in DOMAIN w : a \in Nat \ {0} /\ (a <= Len(u) => a \in DOMAIN u /\ w[a] = u[a])
    <3> HIDE DEF u, v, w
    <3> QED BY <2>2
  <2>6. From(i)
    <3> SUFFICES ASSUME NEW a \in DOMAIN w
                 PROVE  \E k \in 1..i : \E m \in DOMAIN q[k] : w[a] = q[k][m]
      OBVIOUS
    <3>1. CASE a <= Len(u)
      <4>1. PICK k \in 1..(i - 1) : \E m \in DOMAIN q[k] : u[a] = q[k][m]
        BY <2>3, <2>5, <3>1
      <4>2. k \in 1..i /\ w[a] = u[a]
        BY <2>5, <3>1
      <4> QED BY <4>1, <4>2
    <3>2. CASE a > Len(u)
      <4>1. i \in 1..i /\ a - Len(u) \in DOMAIN q[i] /\ w[a] = q[i][a - Len(u)]
        BY <2>4, <3>2
      <4> HIDE DEF u, v, w
      <4> QED BY <4>1
    <3>3. a <= Len(u) \/ a > Len(u)
      <4> HIDE DEF u, v, w
      <4> QED BY <2>2, <2>5
    <3> QED BY <3>1, <3>2, <3>3
  <2>7. ASSUME Distinct PROVE Once(i)
    <3>1. \A a, b \in DOMAIN u : u[a] = u[b] => a = b
      BY <1>3, <2>7
    <3>2. \A a, b \in DOMAIN v : v[a] = v[b] => a = b
      BY <2>7 DEF OnceEach
    <3>3. ASSUME NEW a \in DOMAIN u, NEW b \in DOMAIN v, u[a] = v[b] PROVE FALSE
      <4>1. PICK k \in 1..(i - 1) : \E m \in DOMAIN q[k] : u[a] = q[k][m]
        BY <2>3
      <4>2. k \in 1..n /\ k # i
        OBVIOUS
      <4> QED BY <2>7, <3>3, <4>1, <4>2 DEF OnceEach
    <3> SUFFICES ASSUME NEW a \in DOMAIN w, NEW b \in DOMAIN w, w[a] = w[b] PROVE a = b
      OBVIOUS
    <3> HIDE DEF u, v, w, Distinct
    <3>4. CASE a <= Len(u) /\ b <= Len(u)
      BY <2>5, <3>1, <3>4
    <3>5. CASE a > Len(u) /\ b > Len(u)
      <4>1. a - Len(u) = b - Len(u)
        BY <2>4, <3>2, <3>5
      <4> QED BY <2>2, <2>5, <4>1
    <3>6. CASE (a <= Len(u) /\ b > Len(u)) \/ (b <= Len(u) /\ a > Len(u))
      BY <2>4, <2>5, <3>3, <3>6
    <3>7. a \in Nat /\ b \in Nat /\ Len(u) \in Nat
      BY <2>2, <2>5
    <3> QED BY <3>4, <3>5, <3>6, <3>7
  <2> QED BY <2>2, <2>6, <2>7
<1>4. Bad = {}
  <2> SUFFICES ASSUME Bad # {} PROVE FALSE
    OBVIOUS
  <2>1. PICK m \in Bad : \A k \in Bad : m <= k
    <3>1. Bad \in SUBSET Nat
      OBVIOUS
    <3> HIDE DEF Bad
    <3> QED BY <3>1, LeastIn
  <2>2. m \in 1..n /\ ~Good(m)
    OBVIOUS
  <2>3. m # 1
    BY <1>2, <2>2
  <2>4. m - 1 \in 1..n /\ m - 1 \notin Bad
    <3> HIDE DEF Bad
    <3> QED BY <2>1, <2>2, <2>3
  <2>5. Good(m - 1)
    <3> HIDE DEF Good
    <3> QED BY <2>4
  <2> HIDE DEF Good
  <2> QED BY <1>3, <2>2, <2>3, <2>5
<1>5. Good(n)
  <2> HIDE DEF Good
  <2> QED BY <1>4
<1> QED BY <1>1, <1>5 DEF IsElement

(* What is asked for *)

\* r releases the references of W, or some of them, each once.
GivesUp(r, W) ==
    /\ r \in Seq(Request)
    /\ \A a \in DOMAIN r : r[a].op = "release" /\ \E ref \in W : ref.off = r[a].off
    /\ \A a, b \in DOMAIN r : r[a].off = r[b].off => a = b

\* Nothing is given up by no request,
LEMMA GivesUpNothing == \A W : GivesUp(<<>>, W)
BY DEF GivesUp

\* one reference by its release,
LEMMA GivesUpOne == \A ref \in Ref : GivesUp(<<Release(ref)>>, {ref})
<1> TAKE ref \in Ref
<1>1. Release(ref) \in Request
  BY ReleaseType
<1> DEFINE q == <<Release(ref)>>
<1>2. q \in Seq(Request) /\ DOMAIN q = {1} /\ q[1] = Release(ref)
  BY <1>1
<1> QED BY <1>2 DEF GivesUp, Release

\* and by two sequences, what each of them gives up.
LEMMA GivesUpBoth ==
    ASSUME NEW q, NEW V, GivesUp(q, V), NEW r, NEW W, GivesUp(r, W),
           \A u \in V : \A w \in W : u.off # w.off
    PROVE  GivesUp(q \o r, V \cup W)
<1> DEFINE p == q \o r
<1>1. /\ q \in Seq(Request) /\ r \in Seq(Request)
      /\ \A a \in DOMAIN q : q[a].op = "release" /\ \E ref \in V : ref.off = q[a].off
      /\ \A a, b \in DOMAIN q : q[a].off = q[b].off => a = b
      /\ \A a \in DOMAIN r : r[a].op = "release" /\ \E ref \in W : ref.off = r[a].off
      /\ \A a, b \in DOMAIN r : r[a].off = r[b].off => a = b
  BY DEF GivesUp
<1>2. /\ p \in Seq(Request) /\ DOMAIN p = 1..(Len(q) + Len(r)) /\ DOMAIN q = 1..Len(q) /\ DOMAIN r = 1..Len(r)
      /\ Len(q) \in Nat /\ Len(r) \in Nat
      /\ \A a \in 1..Len(q) : p[a] = q[a]
      /\ \A a \in 1..Len(r) : p[Len(q) + a] = r[a]
  BY <1>1, ConcatProperties
<1> HIDE DEF p
<1>3. ASSUME NEW a \in DOMAIN p
      PROVE  /\ a \in Nat
             /\ \/ a \in DOMAIN q /\ p[a] = q[a]
                \/ a > Len(q) /\ a - Len(q) \in DOMAIN r /\ p[a] = r[a - Len(q)]
  <2>1. CASE a <= Len(q)
    BY <1>2, <2>1
  <2>2. CASE a > Len(q)
    <3>1. a - Len(q) \in 1..Len(r) /\ a = Len(q) + (a - Len(q)) /\ a \in Nat
      BY <1>2, <2>2
    <3>2. p[Len(q) + (a - Len(q))] = r[a - Len(q)]
      BY <1>2, <3>1
    <3> QED BY <1>2, <2>2, <3>1, <3>2
  <2> QED BY <1>2, <2>1, <2>2
<1>4. \A a \in DOMAIN p : p[a].op = "release" /\ \E ref \in V \cup W : ref.off = p[a].off
  BY <1>1, <1>3
<1>5. ASSUME NEW a \in DOMAIN p, NEW b \in DOMAIN p, p[a].off = p[b].off PROVE a = b
  <2>1. CASE a \in DOMAIN q /\ p[a] = q[a] /\ b \in DOMAIN q /\ p[b] = q[b]
    BY <1>1, <1>5, <2>1
  <2>2. CASE /\ a > Len(q) /\ a - Len(q) \in DOMAIN r /\ p[a] = r[a - Len(q)]
             /\ b > Len(q) /\ b - Len(q) \in DOMAIN r /\ p[b] = r[b - Len(q)]
    <3>1. a - Len(q) = b - Len(q)
      BY <1>1, <1>5, <2>2
    <3> QED BY <1>2, <1>3, <3>1
  <2>3. CASE a \in DOMAIN q /\ p[a] = q[a] /\ b - Len(q) \in DOMAIN r /\ p[b] = r[b - Len(q)]
    BY <1>1, <1>5, <2>3
  <2>4. CASE b \in DOMAIN q /\ p[b] = q[b] /\ a - Len(q) \in DOMAIN r /\ p[a] = r[a - Len(q)]
    BY <1>1, <1>5, <2>4
  <2> QED BY <1>3, <2>1, <2>2, <2>3, <2>4
<1> QED BY <1>2, <1>4, <1>5 DEF GivesUp, p

\* A release says the offset it is of.
LEMMA ReleaseOff == \A u, v : Release(u) = Release(v) => u.off = v.off
BY DEF Release

\* ReleaseAll gives up what f holds for the sensors of S, if no two hold the
\* same.
LEMMA ReleaseAllGivesUp ==
    ASSUME NEW f \in [Sensor -> RefOrNone], NEW S,
           \A s, t \in Sensor : s \in S /\ t \in S /\ f[s] # None /\ f[t] # None /\ f[s].off = f[t].off => s = t
    PROVE  GivesUp(ReleaseAll(f, S), {f[s] : s \in {t \in Sensor : t \in S /\ f[t] # None}})
<1> DEFINE n == Cardinality(Sensor)
           q == [s \in Sensor |-> IF s \in S /\ f[s] # None THEN <<Release(f[s])>> ELSE <<>>]
           W == {f[s] : s \in {t \in Sensor : t \in S /\ f[t] # None}}
           p == FlattenSeq(q)
<1>1. \A s \in Sensor : f[s] # None => Release(f[s]) \in Request
  BY ReleaseType DEF RefOrNone
<1>2. q \in [1..n -> Seq(Request)]
  <2>1. \A s \in Sensor : q[s] \in Seq(Request)
    BY <1>1
  <2> QED BY <2>1, SensorsAre
<1>3. n \in Nat \ {0} /\ Sensor = 1..n
  BY SensorsAre
<1>4. ASSUME NEW s \in Sensor, NEW m \in DOMAIN q[s]
      PROVE  /\ s \in S /\ f[s] # None /\ m = 1 /\ q[s][m] = Release(f[s])
  BY <1>4
<1>5. ASSUME NEW k \in 1..n, NEW l \in 1..n, NEW m \in DOMAIN q[k], NEW o \in DOMAIN q[l], q[k][m] = q[l][o]
      PROVE  k = l /\ m = o
  <2>1. /\ k \in S /\ f[k] # None /\ m = 1 /\ q[k][m] = Release(f[k])
        /\ l \in S /\ f[l] # None /\ o = 1 /\ q[l][o] = Release(f[l])
    <3> HIDE DEF q, n
    <3> QED BY <1>3, <1>4
  <2>2. f[k].off = f[l].off
    BY <1>5, <2>1 DEF Release
  <2> QED BY <1>3, <2>1, <2>2
<1> HIDE DEF q, n
<1>6. /\ p \in Seq(Request)
      /\ \A a \in DOMAIN p : \E k \in 1..n : \E m \in DOMAIN q[k] : p[a] = q[k][m]
      /\ \A a, b \in DOMAIN p : p[a] = p[b] => a = b
  <2>1. OnceEach(q, n)
    BY <1>5 DEF OnceEach
  <2>2. /\ FlattenSeq(q) \in Seq(Request)
        /\ \A a \in DOMAIN FlattenSeq(q) : IsElement(FlattenSeq(q)[a], q, n)
        /\ \A a, b \in DOMAIN FlattenSeq(q) : FlattenSeq(q)[a] = FlattenSeq(q)[b] => a = b
    BY <1>2, <1>3, <2>1, FlattenElements
  <2> QED BY <2>2 DEF p, IsElement
<1> HIDE DEF p
<1>7. \A a \in DOMAIN p : \E s \in Sensor : s \in S /\ f[s] # None /\ p[a] = Release(f[s])
  BY <1>3, <1>4, <1>6
<1>8. \A a \in DOMAIN p : p[a].op = "release" /\ \E ref \in W : ref.off = p[a].off
  BY <1>7 DEF Release
<1>9. \A a, b \in DOMAIN p : p[a].off = p[b].off => a = b
  <2>1. \A a, b \in DOMAIN p : p[a].off = p[b].off => p[a] = p[b]
    BY <1>7 DEF Release
  <2> QED BY <1>6, <2>1
<1>10. ReleaseAll(f, S) = p
  BY DEF ReleaseAll, p, q
<1> QED BY <1>6, <1>8, <1>9, <1>10 DEF GivesUp

\* A reset gives up what is queued.
LEMMA ReleaseQueuesGivesUp ==
    ASSUME queue \in [Sensor -> Seq(Ref)],
           \A s, t \in Sensor : \A i \in DOMAIN queue[s] : \A j \in DOMAIN queue[t] :
             queue[s][i].off = queue[t][j].off => s = t /\ i = j
    PROVE  GivesUp(FlattenSeq([s \in Sensor |-> [i \in DOMAIN queue[s] |-> Release(queue[s][i])]]),
                   UNION {{queue[s][i] : i \in DOMAIN queue[s]} : s \in Sensor})
<1> DEFINE n == Cardinality(Sensor)
           q == [s \in Sensor |-> [i \in DOMAIN queue[s] |-> Release(queue[s][i])]]
           W == UNION {{queue[s][i] : i \in DOMAIN queue[s]} : s \in Sensor}
           p == FlattenSeq(q)
<1>1. ASSUME NEW s \in Sensor
      PROVE  /\ q[s] \in Seq(Request) /\ DOMAIN q[s] = DOMAIN queue[s]
             /\ \A i \in DOMAIN queue[s] : q[s][i] = Release(queue[s][i])
  <2>1. queue[s] \in Seq(Ref)
    OBVIOUS
  <2>2. \A i \in 1..Len(queue[s]) : Release(queue[s][i]) \in Request
    BY <2>1, ReleaseType
  <2>3. Len(queue[s]) \in Nat /\ DOMAIN queue[s] = 1..Len(queue[s])
    BY <2>1
  <2>4. [i \in 1..Len(queue[s]) |-> Release(queue[s][i])] \in Seq(Request)
    BY <2>2, <2>3, SeqDef
  <2> QED BY <2>3, <2>4
<1>2. q \in [1..n -> Seq(Request)]
  <2>1. q = [s \in Sensor |-> q[s]]
    OBVIOUS
  <2> HIDE DEF q
  <2> QED BY <1>1, <2>1, SensorsAre
<1>3. n \in Nat \ {0} /\ Sensor = 1..n
  BY SensorsAre
<1> HIDE DEF q, n
<1>5. ASSUME NEW k \in 1..n, NEW l \in 1..n, NEW m \in DOMAIN q[k], NEW o \in DOMAIN q[l], q[k][m] = q[l][o]
      PROVE  k = l /\ m = o
  <2>1. /\ q[k][m] = Release(queue[k][m]) /\ m \in DOMAIN queue[k]
        /\ q[l][o] = Release(queue[l][o]) /\ o \in DOMAIN queue[l]
    BY <1>1, <1>3
  <2>2. queue[k][m].off = queue[l][o].off
    <3>1. Release(queue[k][m]) = Release(queue[l][o])
      BY <1>5, <2>1
    <3> QED BY <3>1, ReleaseOff
  <2> QED BY <1>3, <2>1, <2>2
<1>6. /\ p \in Seq(Request)
      /\ \A a \in DOMAIN p : \E k \in 1..n : \E m \in DOMAIN q[k] : p[a] = q[k][m]
      /\ \A a, b \in DOMAIN p : p[a] = p[b] => a = b
  <2>1. OnceEach(q, n)
    BY <1>5 DEF OnceEach
  <2>2. /\ FlattenSeq(q) \in Seq(Request)
        /\ \A a \in DOMAIN FlattenSeq(q) : IsElement(FlattenSeq(q)[a], q, n)
        /\ \A a, b \in DOMAIN FlattenSeq(q) : FlattenSeq(q)[a] = FlattenSeq(q)[b] => a = b
    BY <1>2, <1>3, <2>1, FlattenElements
  <2> QED BY <2>2 DEF p, IsElement
<1> HIDE DEF p
<1>7. \A a \in DOMAIN p : \E s \in Sensor : \E i \in DOMAIN queue[s] : p[a] = Release(queue[s][i])
  <2> TAKE a \in DOMAIN p
  <2>1. PICK k \in Sensor : \E m \in DOMAIN q[k] : p[a] = q[k][m]
    BY <1>3, <1>6
  <2>2. PICK m \in DOMAIN q[k] : p[a] = q[k][m]
    BY <2>1
  <2>3. m \in DOMAIN queue[k] /\ p[a] = Release(queue[k][m])
    BY <1>1, <2>2
  <2> QED BY <2>3
<1>8. \A a \in DOMAIN p : p[a].op = "release" /\ \E ref \in W : ref.off = p[a].off
  BY <1>7 DEF Release
<1>9. \A a, b \in DOMAIN p : p[a].off = p[b].off => a = b
  <2>1. \A a, b \in DOMAIN p : p[a].off = p[b].off => p[a] = p[b]
    BY <1>7 DEF Release
  <2> QED BY <1>6, <2>1
<1>10. FlattenSeq([s \in Sensor |-> [i \in DOMAIN queue[s] |-> Release(queue[s][i])]]) = p
  BY DEF p, q
<1> QED BY <1>6, <1>8, <1>9, <1>10 DEF GivesUp

-----------------------------------------------------------------------------
(***************************************************************************)
(* A step keeps what is held, if nobody gives it up.                       *)
(***************************************************************************)

\* What stands in the tail.
LEMMA RequestAt ==
    ASSUME ArenaTypeOK
    PROVE  /\ tail \in Seq(Request) /\ Len(tail) \in Nat /\ DOMAIN tail = 1..Len(tail)
           /\ \A i \in DOMAIN tail : i \in Nat \ {0} /\ tail[i] \in Request
           /\ \A i \in DOMAIN tail : Publishes(i) => tail[i] \in PublishRequest
           /\ \A i \in DOMAIN tail : Releases(i) => tail[i] \in ReferenceRequest
           /\ tail # <<>> => 1 \in DOMAIN tail /\ Head(tail) = tail[1]
           /\ \A op : Running(op) => tail # <<>> /\ tail[1].op = op /\ Len(tail) >= 1
<1>1. tail \in Seq(Request)
  BY DEF ArenaTypeOK
<1>2. /\ Len(tail) \in Nat /\ DOMAIN tail = 1..Len(tail)
      /\ \A i \in DOMAIN tail : i \in Nat \ {0} /\ tail[i] \in Request
      /\ tail # <<>> => 1 \in DOMAIN tail /\ Head(tail) = tail[1] /\ Len(tail) >= 1
  BY <1>1
<1>3. \A r \in Request : (r.op = "publish" => r \in PublishRequest) /\ (r.op = "release" => r \in ReferenceRequest)
  BY DEF Request, PublishRequest, ReferenceRequest, InvalidateRequest
<1> QED BY <1>1, <1>2, <1>3 DEF Publishes, Releases, Running

\* While a capture is under way, no publication of a response is.
LEMMA HandlersPublish ==
    ASSUME OneCall, TypeOK, Working, Publishing, busy # None, NEW i \in DOMAIN tail, Publishes(i)
    PROVE  /\ tail[i].by \in Handler /\ tail[i].by \notin Call
           /\ handler[tail[i].by].stage \in {"raw", "obs"} /\ tail[i].gen = handler[tail[i].by].seq
<1>1. Waits(tail[i])
  BY DEF Publishing
<1>2. busy \in Call /\ call[busy].stage = "working"
  BY DEF TypeOK, Working
<1>3. \A c \in Call : call[c].stage = "working"
  BY <1>2 DEF OneCall
<1>4. tail[i].by \in Handler /\ handler[tail[i].by].stage \in {"raw", "obs"} /\ tail[i].gen = handler[tail[i].by].seq
  BY <1>1, <1>3 DEF Waits
<1> QED BY <1>4, HandlersAre

\* No publication that waits retires the raw products of a capture under way.
LEMMA RawOutlasts ==
    ASSUME OneCall, EnoughGenerations, TypeOK, Working, Publishing, SequencesNear,
           NEW h \in Handler, handler[h].stage \in {"raw", "obs", "done"},
           NEW i \in DOMAIN tail, Publishes(i)
    PROVE  tail[i].gen < handler[h].seq + Generations
<1> DEFINE w == tail[i].by
<1>1. busy # None
  BY DEF Working
<1>2. w \in Handler /\ handler[w].stage \in {"raw", "obs"} /\ tail[i].gen = handler[w].seq
  BY <1>1, HandlersPublish
<1>3. PICK base \in 0..transportSequence : Near(base)
  BY DEF SequencesNear
<1>4. Cardinality(Begun) \in Nat /\ Cardinality(Begun) <= Cardinality(Sensor)
  <2>1. IsFiniteSet(Sensor) /\ Begun \subseteq Sensor
    BY EnvironmentAssumption DEF Begun
  <2> QED BY <2>1, FS_Subset, FS_CardinalityType
<1>5. base < handler[h].seq /\ handler[w].seq <= base + Cardinality(Begun)
  BY <1>2, <1>3 DEF Near
<1>6. handler[h].seq \in Nat /\ handler[w].seq \in Nat /\ base \in Nat
  BY <1>2, TypesOf DEF Handlers, Sequence
<1>7. Cardinality(Sensor) \in Nat /\ Generations \in Nat /\ Cardinality(Sensor) <= Generations
  BY SensorsAre, ArenaAssumption DEF EnoughGenerations
<1> QED BY <1>2, <1>4, <1>5, <1>6, <1>7

\* A block stays if the operation running neither retires nor releases it.
LEMMA LiveStays ==
    ASSUME ArenaTypeOK, [ArenaNext]_arenaVars, \A more : ~Grow(more),
           NEW ref, NEW kept \in BOOLEAN, LiveAs(ref, kept),
           Running("publish") => kept \/ Head(tail).gen < ref.gen + Generations,
           \A i \in DOMAIN tail : Releases(i) => tail[i].off # ref.off
    PROVE  LiveAs(ref, kept)'
<1>1. PICK b \in blocks : b.off = ref.off /\ b.gen = ref.gen /\ b.content = ref.content /\ b.retained = kept
  BY DEF LiveAs
<1>2. Running("release") => Head(tail).off # b.off
  BY <1>1, RequestAt DEF Running, Releases
<1>3. PICK a \in blocks' : Same(a, b)
  BY <1>1, <1>2, BlockStays
<1> QED BY <1>1, <1>3 DEF LiveAs, Same

\* What is held stays where it is.
LEMMA HeldStays ==
    ASSUME OneCall, EnoughGenerations, TypeOK, Holding, [ArenaNext]_arenaVars, \A more : ~Grow(more),
           NEW ref, ref # None
    PROVE  /\ (\E h \in Handler : handler[h].raw = ref) => LiveAs(ref, FALSE)'
           /\ (\E s \in Sensor : \E i \in Places : Frame(s, i) = ref) => LiveAs(ref, TRUE)'
<1>1. ArenaTypeOK
  BY DEF TypeOK
<1>2. ASSUME NEW h \in Handler, handler[h].raw = ref PROVE LiveAs(ref, FALSE)'
  <2>1. LiveAs(ref, FALSE) /\ ref.gen = handler[h].seq /\ handler[h].stage \in {"raw", "obs", "done"}
    BY <1>2 DEF Holding, Raws, Products
  <2>2. Running("publish") => Head(tail).gen < ref.gen + Generations
    BY <1>1, <2>1, RequestAt, RawOutlasts DEF Holding, Running, Publishes
  <2>3. ref \in Held
    BY <1>2 DEF Held
  <2>4. \A i \in DOMAIN tail : Releases(i) => tail[i].off # ref.off
    BY <2>3 DEF Holding, Releasing
  <2> QED BY <1>1, <2>1, <2>2, <2>4, LiveStays
<1>3. ASSUME NEW s \in Sensor, NEW i \in Places, Frame(s, i) = ref PROVE LiveAs(ref, TRUE)'
  <2>1. LiveAs(ref, TRUE)
    BY <1>3 DEF Holding, FramesHeld
  <2>3. ref \in Held
    BY <1>3 DEF Held
  <2>4. \A k \in DOMAIN tail : Releases(k) => tail[k].off # ref.off
    BY <2>3 DEF Holding, Releasing
  <2> QED BY <1>1, <2>1, <2>4, LiveStays
<1> QED BY <1>2, <1>3

(* The requests after a step *)

\* Who waits for publications after a step: those that waited before, and the
\* one that asks for one more.
LEMMA PublishingStep ==
    ASSUME ArenaTypeOK, ArenaTypeOK', Publishing,
           NEW d \in {0, 1}, d <= Len(tail), NEW more \in Seq(Request), Moved(d, more),
           \A r : (\E i \in DOMAIN tail : i > d /\ Publishes(i) /\ tail[i] = r) => Waits(r)',
           \A r : (\E i \in DOMAIN more : more[i].op = "publish" /\ more[i] = r) =>
             /\ Waits(r)' /\ Len(more) = 1
             /\ \A i \in DOMAIN tail : i > d /\ Publishes(i) => tail[i].by # r.by,
           \A i \in DOMAIN more : more[i].op = "release" =>
             \A j \in DOMAIN tail : j > d /\ Publishes(j) => tail[j].by \notin Call
    PROVE  Publishing'
<1>1. /\ tail \in Seq(Request) /\ Len(tail) \in Nat /\ DOMAIN tail = 1..Len(tail)
      /\ tail' \in Seq(Request) /\ d \in Nat
  BY RequestAt DEF ArenaTypeOK
<1> DEFINE old(i) == i + d \in DOMAIN tail /\ i + d > d /\ tail'[i] = tail[i + d]
           k(i) == i - (Len(tail) - d)
           new(i) == k(i) \in DOMAIN more /\ tail'[i] = more[k(i)] /\ i > Len(tail) - d
<1>2. \A i \in DOMAIN tail' : i \in Nat \ {0} /\ (old(i) \/ new(i))
  BY <1>1, ComesFrom
<1>3. ASSUME NEW i \in DOMAIN tail', tail'[i].op = "publish" PROVE Waits(tail[i])'
  <2> DEFINE r == tail'[i]
  <2>1. CASE old(i)
    <3>1. Publishes(i + d) /\ tail[i + d] = r
      BY <1>3, <2>1 DEF Publishes
    <3> QED BY <2>1, <3>1
  <2>2. CASE new(i)
    BY <1>3, <2>2
  <2> QED BY <1>2, <2>1, <2>2
<1>4. ASSUME NEW i \in DOMAIN tail', NEW j \in DOMAIN tail',
             tail'[i].op = "publish", tail'[j].op = "publish", tail'[i].by = tail'[j].by
      PROVE  i = j
  <2>1. CASE old(i) /\ old(j)
    <3>1. i + d = j + d
      BY <1>4, <2>1 DEF Publishing, Publishes
    <3> QED BY <1>1, <1>2, <3>1
  <2>2. CASE new(i) /\ new(j)
    <3>1. Len(more) = 1
      BY <1>4, <2>2
    <3>2. k(i) = 1 /\ k(j) = 1
      BY <2>2, <3>1
    <3> QED BY <1>1, <1>2, <3>2
  <2>3. CASE old(i) /\ new(j)
    BY <1>4, <2>3 DEF Publishes
  <2>4. CASE new(i) /\ old(j)
    BY <1>4, <2>4 DEF Publishes
  <2> QED BY <1>2, <2>1, <2>2, <2>3, <2>4
<1>5. ASSUME NEW i \in DOMAIN tail', NEW j \in DOMAIN tail', i < j,
             tail'[i].op = "publish", tail'[i].by \in Call
      PROVE  tail'[j].op # "release"
  <2>1. CASE old(i) /\ old(j)
    <3>1. i + d < j + d
      BY <1>1, <1>2, <1>5
    <3> QED BY <1>5, <2>1, <3>1 DEF Publishing, Publishes, Releases
  <2>2. CASE new(i) /\ new(j)
    <3>1. Len(more) = 1
      BY <1>5, <2>2
    <3>2. k(i) = 1 /\ k(j) = 1
      BY <2>2, <3>1
    <3> QED BY <1>1, <1>2, <1>5, <3>2
  <2>3. CASE old(i) /\ new(j)
    BY <1>5, <2>3 DEF Publishes
  <2>4. CASE new(i) /\ old(j)
    <3>1. i > Len(tail) - d /\ j + d <= Len(tail)
      BY <1>1, <2>4
    <3> QED BY <1>1, <1>2, <1>5, <3>1
  <2> QED BY <1>2, <2>1, <2>2, <2>3, <2>4
<1> QED BY <1>3, <1>4, <1>5 DEF Publishing, Publishes, Releases

\* What is being released after a step: what was before, and what is given up
\* now.
LEMMA ReleasingStep ==
    ASSUME ArenaTypeOK, ArenaTypeOK', Releasing, [ArenaNext]_arenaVars, \A more : ~Grow(more),
           NEW d \in {0, 1}, d <= Len(tail), NEW more \in Seq(Request), Moved(d, more),
           \A ref : ref \in Held' => \A i \in DOMAIN tail : i > d /\ Releases(i) => ref.off # tail[i].off,
           NEW W,
           \A i \in DOMAIN more : more[i].op = "release" => \E ref \in W : ref.off = more[i].off,
           \A i, j \in DOMAIN more :
             more[i].op = "release" /\ more[j].op = "release" /\ more[i].off = more[j].off => i = j,
           \A i, j \in DOMAIN more : more[i].op = "release" => more[j].op # "publish",
           \A ref \in W :
             /\ \E b \in blocks' : b.off = ref.off /\
                  (b.retained \/ \A j \in DOMAIN tail : Publishes(j) => tail[j].gen < b.gen + Generations)
             /\ \A i \in DOMAIN tail : Releases(i) => tail[i].off # ref.off
             /\ \A h : h \in Held' => h.off # ref.off
    PROVE  Releasing'
<1>1. /\ tail \in Seq(Request) /\ Len(tail) \in Nat /\ DOMAIN tail = 1..Len(tail)
      /\ tail' \in Seq(Request) /\ d \in Nat /\ Len(tail') \in Nat /\ DOMAIN tail' = 1..Len(tail')
  BY RequestAt DEF ArenaTypeOK
<1> DEFINE old(i) == i + d \in DOMAIN tail /\ i + d > d /\ tail'[i] = tail[i + d]
           k(i) == i - (Len(tail) - d)
           new(i) == k(i) \in DOMAIN more /\ tail'[i] = more[k(i)] /\ i > Len(tail) - d
<1>2. \A i \in DOMAIN tail' : i \in Nat \ {0} /\ (old(i) \/ new(i))
  BY <1>1, ComesFrom
<1>3. ASSUME NEW i \in DOMAIN tail', tail'[i].op = "release",
             NEW n \in DOMAIN tail, n = i + d, tail'[i] = tail[n]
      PROVE  Guarded(i)'
  <2>1. Releases(n) /\ tail[n].off = tail'[i].off /\ Guarded(n)
    BY <1>3 DEF Releases, Releasing
  <2>2. ASSUME NEW j \in 1..(i - 1)
        PROVE  \E m \in 1..(n - 1) : m \in DOMAIN tail /\ tail'[j] = tail[m]
    <3>1. j \in DOMAIN tail' /\ j < i /\ i + d <= Len(tail)
      BY <1>1, <1>2, <1>3
    <3>2. ~new(j)
      BY <1>1, <3>1
    <3>3. old(j)
      BY <1>2, <3>1, <3>2
    <3>4. j + d \in 1..(n - 1)
      BY <1>1, <1>2, <1>3, <3>1
    <3> QED BY <3>3, <3>4
  <2>3. CASE \A j \in 1..(n - 1) : ~Publishes(j)
    <3>1. \A j \in 1..(i - 1) : tail'[j].op # "publish"
      BY <2>2, <2>3 DEF Publishes
    <3> QED BY <3>1 DEF Guarded, Publishes
  <2>4. ASSUME NEW b \in blocks, b.off = tail[n].off, Outlasts(b, n) PROVE Guarded(i)'
    <3>1. CASE i = 1
      <4>1. 1..(i - 1) = {}
        BY <3>1
      <4> QED BY <4>1 DEF Guarded
    <3>2. CASE i # 1
      <4>1. n \in Nat /\ n > 1 /\ 1 \in 1..(n - 1)
        BY <1>1, <1>2, <1>3, <3>2
      <4>2. Running("publish") => b.retained \/ Head(tail).gen < b.gen + Generations
        BY <2>4, <4>1, RequestAt DEF Outlasts, Publishes
      <4>3. Running("release") => Head(tail).off # b.off
        <5>1. ASSUME Running("release"), Head(tail).off = b.off PROVE FALSE
          <6>1. 1 \in DOMAIN tail /\ Releases(1) /\ tail[1].off = tail[n].off
            BY <2>4, <5>1, RequestAt DEF Releases
          <6> QED BY <1>3, <2>1, <4>1, <6>1 DEF Releasing
        <5> QED BY <5>1
      <4>4. PICK a \in blocks' : Same(a, b)
        BY <4>2, <4>3, BlockStays
      <4>5. ASSUME ~a.retained, NEW j \in 1..(i - 1), tail'[j].op = "publish"
            PROVE  tail'[j].gen < a.gen + Generations
        <5>1. PICK m \in 1..(n - 1) : tail'[j] = tail[m]
          BY <2>2
        <5>2. ~b.retained /\ Publishes(m)
          BY <4>4, <4>5, <5>1 DEF Publishes, Same
        <5>3. tail[m].gen < b.gen + Generations
          BY <2>4, <5>2 DEF Outlasts
        <5> QED BY <4>4, <5>1, <5>3 DEF Same
      <4>6. a.off = tail'[i].off
        BY <2>1, <2>4, <4>4 DEF Same
      <4> QED BY <4>4, <4>5, <4>6 DEF Guarded, Outlasts, Publishes
    <3> QED BY <3>1, <3>2
  <2> QED BY <2>1, <2>3, <2>4 DEF Guarded
<1>4. ASSUME NEW i \in DOMAIN tail', tail'[i].op = "release", new(i) PROVE Guarded(i)'
  <2>1. PICK ref \in W : ref.off = tail'[i].off
    BY <1>4
  <2>2. PICK b \in blocks' : b.off = ref.off /\
          (b.retained \/ \A j \in DOMAIN tail : Publishes(j) => tail[j].gen < b.gen + Generations)
    BY <2>1
  <2>3. ASSUME ~b.retained, NEW j \in 1..(i - 1), tail'[j].op = "publish"
        PROVE  tail'[j].gen < b.gen + Generations
    <3>1. j \in DOMAIN tail'
      BY <1>1, <1>2
    <3>2. ~new(j)
      BY <1>4, <2>3
    <3>3. old(j)
      BY <1>2, <3>1, <3>2
    <3> QED BY <2>2, <2>3, <3>3 DEF Publishes
  <2> QED BY <2>1, <2>2, <2>3 DEF Guarded, Outlasts, Publishes
<1>5. ASSUME NEW i \in DOMAIN tail', NEW j \in DOMAIN tail',
             tail'[i].op = "release", tail'[j].op = "release", tail'[j].off = tail'[i].off
      PROVE  i = j
  <2>1. CASE old(i) /\ old(j)
    <3>1. i + d = j + d
      BY <1>5, <2>1 DEF Releasing, Releases
    <3> QED BY <1>1, <1>2, <3>1
  <2>2. CASE new(i) /\ new(j)
    <3>1. k(i) = k(j)
      BY <1>5, <2>2
    <3> QED BY <1>1, <1>2, <3>1
  <2>3. CASE old(i) /\ new(j)
    BY <1>5, <2>3 DEF Releases
  <2>4. CASE new(i) /\ old(j)
    BY <1>5, <2>4 DEF Releases
  <2> QED BY <1>2, <2>1, <2>2, <2>3, <2>4
<1>6. ASSUME NEW i \in DOMAIN tail', tail'[i].op = "release", NEW ref \in Held' PROVE ref.off # tail'[i].off
  <2>1. CASE old(i)
    BY <1>6, <2>1 DEF Releases
  <2>2. CASE new(i)
    BY <1>6, <2>2
  <2> QED BY <1>2, <2>1, <2>2
<1>7. ASSUME NEW i \in DOMAIN tail', tail'[i].op = "release" PROVE Guarded(i)'
  <2>1. CASE old(i)
    BY <1>3, <1>7, <2>1
  <2>2. CASE new(i)
    BY <1>4, <1>7, <2>2
  <2> QED BY <1>2, <2>1, <2>2
<1> QED BY <1>5, <1>6, <1>7 DEF Releasing, Releases

\* What has been placed is nobody's: neither live nor waiting to be released.
LEMMA FreshOff ==
    ASSUME EnvInv, Publishing, Releasing, Running("publish"), stage = "payload"
    PROVE  /\ \A ref : \A kept \in BOOLEAN : LiveAs(ref, kept) => ref.off # placed
           /\ \A i \in DOMAIN tail : Releases(i) => tail[i].off # placed
<1>1. ArenaTypeOK /\ Free(placed, Head(tail).len, blocks) /\ Head(tail) \in PublishRequest
  BY RunningRequest DEF EnvInv, Inductive, PayloadPlaced
<1>2. ASSUME NEW b \in blocks PROVE b.off # placed
  <2>1. b.off \in Nat /\ b.len \in Nat \ {0} /\ placed \in Nat /\ Head(tail).len \in Nat \ {0}
    <3>1. Unit \subseteq Nat
      BY ArenaAssumption DEF Unit
    <3> QED BY <1>1, <3>1 DEF ArenaTypeOK, Block, PublishRequest
  <2>2. b.off + b.len <= placed \/ placed + Head(tail).len <= b.off
    BY <1>1 DEF Free
  <2> QED BY <2>1, <2>2
<1>3. ASSUME NEW i \in DOMAIN tail, Releases(i) PROVE tail[i].off # placed
  <2>1. i \in Nat \ {0} /\ i # 1 /\ 1 \in DOMAIN tail /\ Publishes(1)
    BY <1>1, <1>3, RequestAt DEF Publishes, Releases
  <2>2. 1 \in 1..(i - 1)
    BY <2>1
  <2>3. PICK b \in blocks : b.off = tail[i].off
    BY <1>3, <2>1, <2>2 DEF Releasing, Guarded
  <2> QED BY <1>2, <2>3
<1> QED BY <1>2, <1>3 DEF LiveAs

\* What is kept for the worker and what is not are different blocks.
LEMMA KeptApart ==
    ASSUME EnvInv, NEW u, NEW v, LiveAs(u, FALSE), LiveAs(v, TRUE)
    PROVE  u.off # v.off
<1>1. PICK a \in blocks : a.off = u.off /\ a.retained = FALSE
  BY DEF LiveAs
<1>2. PICK b \in blocks : b.off = v.off /\ b.retained = TRUE
  BY DEF LiveAs
<1>3. a # b
  BY <1>1, <1>2
<1>4. a.off + a.len <= b.off \/ b.off + b.len <= a.off
  BY <1>3 DEF EnvInv, Inductive, BlocksDisjoint
<1>5. a.off \in Nat /\ b.off \in Nat /\ a.len \in Nat \ {0} /\ b.len \in Nat \ {0}
  <2>1. Unit \subseteq Nat
    BY ArenaAssumption DEF Unit
  <2> QED BY <2>1 DEF EnvInv, Inductive, ArenaTypeOK, Block
<1> QED BY <1>1, <1>2, <1>4, <1>5

\* What has been published is live.
LEMMA PublishedLive ==
    ASSUME EnvInv, NEW more, WriteHeader(more), NEW ref, ref = ReferenceTo(Head(tail), placed),
           NEW kept, kept = Head(tail).retained
    PROVE  /\ LiveAs(ref, kept)'
           /\ ref \in Ref /\ ref.off = placed /\ ref.gen = Head(tail).gen
           /\ blocks \subseteq blocks'
           /\ Running("publish") /\ stage = "payload"
<1>1. ref \in Ref
  BY ReferenceType DEF EnvInv, Inductive, WriteHeader
<1> DEFINE b == [off |-> placed, len |-> Head(tail).len, gen |-> Head(tail).gen, retained |-> kept,
                 count |-> IF kept THEN 1 ELSE 0, content |-> Head(tail).content]
<1>2. b \in blocks' /\ blocks \subseteq blocks' /\ Running("publish") /\ stage = "payload"
  BY DEF WriteHeader
<1>3. \E a \in blocks' : a.off = placed /\ a.gen = Head(tail).gen /\ a.content = Head(tail).content
                         /\ a.retained = kept
  BY <1>2
<1>4. ref.off = placed /\ ref.gen = Head(tail).gen /\ ref.content = Head(tail).content
  BY DEF ReferenceTo
<1>5. LiveAs(ref, kept)'
  BY <1>3, <1>4 DEF LiveAs
<1> QED BY <1>1, <1>2, <1>4, <1>5

\* A raw product and a frame are in different places.
LEMMA HeldApart ==
    ASSUME EnvInv, Holding, NEW h \in Handler, handler[h].raw # None,
           NEW s \in Sensor, NEW i \in Places, Frame(s, i) # None
    PROVE  handler[h].raw.off # Frame(s, i).off
<1>1. LiveAs(handler[h].raw, FALSE)
  BY DEF Holding, Raws
<1>2. LiveAs(Frame(s, i), TRUE)
  BY DEF Holding, FramesHeld
<1> QED BY <1>1, <1>2, KeptApart

\* What a worker gives up is there until its turn comes.
LEMMA GivenUp ==
    ASSUME OneCall, EnoughGenerations, EnvInv, Holding, [ArenaNext]_arenaVars, \A more : ~Grow(more),
           NEW ref, ref # None,
           \/ \E h \in Handler : handler[h].raw = ref
           \/ \E s \in Sensor : \E i \in Places : Frame(s, i) = ref
    PROVE  /\ \E b \in blocks' : b.off = ref.off /\
                (b.retained \/ \A j \in DOMAIN tail : Publishes(j) => tail[j].gen < b.gen + Generations)
           /\ \A i \in DOMAIN tail : Releases(i) => tail[i].off # ref.off
<1>1. TypeOK /\ ArenaTypeOK
  BY DEF EnvInv, TypeOK
<1>2. ref \in Held
  BY DEF Held
<1>3. \A i \in DOMAIN tail : Releases(i) => tail[i].off # ref.off
  BY <1>2 DEF Holding, Releasing
<1>4. ASSUME NEW h \in Handler, handler[h].raw = ref
      PROVE \E b \in blocks' : b.off = ref.off /\
              (b.retained \/ \A j \in DOMAIN tail : Publishes(j) => tail[j].gen < b.gen + Generations)
  <2>1. LiveAs(ref, FALSE)'
    BY <1>1, <1>4, HeldStays
  <2>2. PICK b \in blocks' : b.off = ref.off /\ b.gen = ref.gen
    BY <2>1 DEF LiveAs
  <2>3. ref.gen = handler[h].seq /\ handler[h].stage \in {"raw", "obs", "done"}
    BY <1>4 DEF Holding, Raws, Products
  <2>4. \A j \in DOMAIN tail : Publishes(j) => tail[j].gen < b.gen + Generations
    BY <1>1, <2>2, <2>3, RawOutlasts DEF Holding, Publishes
  <2> QED BY <2>2, <2>4
<1>5. ASSUME NEW s \in Sensor, NEW i \in Places, Frame(s, i) = ref
      PROVE \E b \in blocks' : b.off = ref.off /\ b.retained
  <2>1. LiveAs(ref, TRUE)'
    BY <1>1, <1>5, HeldStays
  <2> QED BY <2>1 DEF LiveAs
<1> QED BY <1>3, <1>4, <1>5

\* Frames move, or are given up.
LEMMA FramesMove ==
    ASSUME OneCall, EnoughGenerations, EnvInv, Holding, [ArenaNext]_arenaVars, \A more : ~Grow(more),
           NEW m,
           \A s \in Sensor : \A i \in Places : Frame(s, i)' # None =>
             m[<<s, i>>] \in Places /\ Frame(s, i)' = Frame(s, m[<<s, i>>]),
           \A s \in Sensor : \A i, j \in Places :
             Frame(s, i)' # None /\ Frame(s, j)' # None /\ m[<<s, i>>] = m[<<s, j>>] => i = j
    PROVE  FramesHeld'
<1>1. ASSUME NEW s \in Sensor, NEW i \in Places, NEW ref, ref = Frame(s, i)', ref # None PROVE LiveAs(ref, TRUE)'
  <2>1. ref = Frame(s, m[<<s, i>>]) /\ m[<<s, i>>] \in Places
    BY <1>1
  <2>2. TypeOK
    BY DEF EnvInv
  <2> QED BY <1>1, <2>1, <2>2, HeldStays
<1>2. ASSUME NEW s \in Sensor, NEW t \in Sensor, NEW i \in Places, NEW j \in Places,
             Frame(s, i)' # None, Frame(t, j)' # None, Frame(s, i)'.off = Frame(t, j)'.off
      PROVE  s = t /\ i = j
  <2>1. s = t /\ m[<<s, i>>] = m[<<t, j>>]
    BY <1>2 DEF Holding, FramesHeld
  <2> QED BY <1>2, <2>1
<1>3. Sensor' = Sensor /\ Places' = Places
  BY DEF Places
<1>4. \A s \in Sensor : \A i \in Places : Frame(s, i)' # None => LiveAs(Frame(s, i), TRUE)'
  <2> TAKE s \in Sensor
  <2> TAKE i \in Places
  <2>1. ASSUME NEW ref, ref = Frame(s, i)' PROVE ref # None => LiveAs(ref, TRUE)'
    BY <1>1, <2>1
  <2> QED BY <2>1 DEF LiveAs
<1> QED BY <1>2, <1>4 DEF FramesHeld, Frame, Places, LiveAs

\* Raw products stay where they are, or are given up.
LEMMA RawsStay ==
    ASSUME OneCall, EnoughGenerations, EnvInv, Holding, [ArenaNext]_arenaVars, \A more : ~Grow(more),
           \A h \in Handler : handler'[h].raw # None =>
             handler'[h].raw = handler[h].raw /\ handler'[h].seq = handler[h].seq
    PROVE  Raws'
<1>1. ASSUME NEW h \in Handler, handler'[h].raw # None
      PROVE  LiveAs(handler[h].raw, FALSE)' /\ handler'[h].raw.gen = handler'[h].seq
  <2> DEFINE ref == handler[h].raw
  <2>1. handler'[h].raw = ref /\ handler'[h].seq = handler[h].seq /\ ref # None
    BY <1>1
  <2>2. LiveAs(ref, FALSE)'
    BY <2>1, HeldStays DEF EnvInv
  <2>3. ref.gen = handler[h].seq
    BY <2>1 DEF Holding, Raws
  <2> QED BY <2>1, <2>2, <2>3 DEF LiveAs
<1>2. ASSUME NEW g \in Handler, NEW h \in Handler, handler'[g].raw # None, handler'[h].raw # None,
             handler'[g].raw.off = handler'[h].raw.off
      PROVE  g = h
  BY <1>2 DEF Holding, Raws
<1> QED BY <1>1, <1>2 DEF Raws

-----------------------------------------------------------------------------
(***************************************************************************)
(* The worker at work: its handlers and their sequences.                   *)
(***************************************************************************)

\* Under ~late' no handler outlives its worker.
LEMMA GoneIsIdle ==
    ASSUME EnvInv, ~late', WorkerGone
    PROVE  /\ \A h \in Handler : handler'[h].stage = "idle"
           /\ \A h \in Handler : handler[h].stage \in {"idle", "done", "failed"}
           /\ \A h \in Handler : handler'[h] = IF handler[h].stage = "idle" THEN handler[h] ELSE Resting
           /\ busy' = None
<1>1. \A h \in Handler : handler'[h] = IF handler[h].stage \in {"done", "failed"} THEN Resting ELSE handler[h]
  BY DEF WorkerGone, Abandon
<1>2. \A h \in Handler : handler'[h].stage = "idle"
  BY DEF WorkerGone
<1> QED BY <1>1, <1>2 DEF WorkerGone, Resting

\* Every action keeps the worker at work, or ends its handlers with it.
LEMMA WorkingKept ==
    ASSUME OneCall, EnvInv, EnvInv', Working, ~late', [Next]_vars
    PROVE  Working'
<1>1. /\ handler \in [Handler -> Handlers] /\ handler' \in [Handler -> Handlers]
      /\ call \in [Call -> Calls] /\ busy \in Call \cup {None} /\ None \notin Call
  BY TypesOf, EnvironmentAssumption DEF EnvInv, TypeOK, Handlers
<1>2. CASE Replaced \/ CloseBatch
  BY <1>2, GoneIsIdle DEF Working, Replaced, CloseBatch
<1>3. ASSUME NEW c \in Call, NEW reset \in BOOLEAN, StartCall(c, reset) PROVE Working'
  BY <1>1, <1>3 DEF StartCall, Working
<1>4. ASSUME NEW c \in Call, WorkerAnswers(c) PROVE Working'
  <2>1. \A h \in Handler : h[1] = incarnation => handler[h].stage = "idle"
    <3>1. \A h \in Handler : h = <<h[1], h[2]>> /\ h[2] \in Sensor
      BY DEF Handler
    <3> QED BY <1>4, <3>1 DEF WorkerAnswers, Quiet, Mine
  <2>2. \A h \in Handler : handler[h].stage = "idle"
    BY <2>1 DEF Working
  <2> QED BY <1>4, <2>2 DEF WorkerAnswers, Working
<1>5. ASSUME UNCHANGED <<busy, alive, incarnation>>,
             \A c \in Call : call[c].stage = "working" => call'[c].stage = "working",
             \A h \in Handler : handler'[h].stage # "idle" =>
               handler[h].stage # "idle" \/ (h[1] = incarnation /\ busy # None)
      PROVE  Working'
  BY <1>1, <1>5 DEF Working
<1>6. CASE UNCHANGED <<busy, alive, incarnation, call, handler>>
  BY <1>5, <1>6
<1>7. ASSUME NEW S \in (SUBSET Sensor) \ {{}}, CaptureGroup(S) PROVE Working'
  <2>1. \A h \in Handler : handler'[h].stage # "idle" => handler[h].stage # "idle" \/ (h[1] = incarnation /\ busy # None)
    BY <1>1, <1>7 DEF CaptureGroup
  <2>2. UNCHANGED <<busy, alive, incarnation, call>>
    BY <1>7 DEF CaptureGroup, workerVars
  <2> QED BY <1>5, <2>1, <2>2
<1>8. ASSUME NEW h \in Handler, Rendered(h) \/ RawPublished(h) \/ ObservationPublished(h) \/ CaptureFails(h)
      PROVE  Working'
  <2>1. /\ \A g \in Handler : g # h => handler'[g] = handler[g]
        /\ handler[h].stage # "idle"
    BY <1>1, <1>8 DEF Rendered, RawPublished, ObservationPublished, CaptureFails
  <2>2. UNCHANGED <<busy, alive, incarnation, call>>
    BY <1>8 DEF Rendered, RawPublished, ObservationPublished, CaptureFails, workerVars
  <2> QED BY <1>5, <2>1, <2>2
<1>9. CASE ProcessGroup
  <2>1. \A h \in Handler : handler'[h] = handler[h] \/ handler'[h].stage = "idle"
    BY <1>9 DEF ProcessGroup, Resting
  <2>2. UNCHANGED <<busy, alive, incarnation, call>>
    BY <1>9 DEF ProcessGroup
  <2> QED BY <1>5, <2>1, <2>2
<1>10. ASSUME NEW c \in Call, Externalized(c) \/ ExternalizeFails(c) PROVE Working'
  <2>1. \A d \in Call : call[d].stage = "working" => call'[d].stage = "working"
    BY <1>1, <1>10 DEF Externalized, ExternalizeFails, Respond
  <2>2. UNCHANGED <<busy, alive, incarnation, handler>>
    BY <1>10 DEF Externalized, ExternalizeFails, workerVars
  <2> QED BY <1>5, <2>1, <2>2
<1>11. ASSUME NEW s \in Sensor, Deliver(s) PROVE UNCHANGED <<busy, alive, incarnation, call, handler>>
  BY <1>11 DEF Deliver
<1>12. CASE Recover \/ Read \/ ArenaStep \/ UNCHANGED vars
  BY <1>6, <1>12 DEF Recover, Read, ArenaStep, vars, workerVars
<1> QED BY <1>2, <1>3, <1>4, <1>6, <1>7, <1>8, <1>9, <1>10, <1>11, <1>12 DEF Next

\* Every action keeps products to the handlers that have been answered with
\* them.
LEMMA ProductsKept ==
    ASSUME EnvInv, Products, ~late', [Next]_vars
    PROVE  Products'
<1> DEFINE Fine(r) == /\ r.raw # None => r.stage \in {"obs", "done"}
                      /\ r.obs # None => r.stage = "done"
<1>1. handler \in [Handler -> Handlers] /\ \A h \in Handler : Fine(handler[h])
  BY TypesOf DEF EnvInv, Products
<1>2. Fine(Resting) /\ Fine([Resting EXCEPT !.stage = "gpu"]) /\ Fine([Resting EXCEPT !.stage = "failed"])
  BY DEF Resting
<1>3. SUFFICES \A h \in Handler : Fine(handler'[h])
  BY DEF Products
<1>4. CASE handler' = handler
  BY <1>1, <1>4
<1>5. ASSUME NEW S \in (SUBSET Sensor) \ {{}}, CaptureGroup(S) PROVE \A h \in Handler : Fine(handler'[h])
  <2>1. \A h \in Handler : handler'[h] = handler[h] \/ handler'[h] = [Resting EXCEPT !.stage = "gpu"]
    BY <1>5 DEF CaptureGroup
  <2> QED BY <1>1, <1>2, <2>1
<1>6. ASSUME NEW h \in Handler, Rendered(h) \/ RawPublished(h) \/ ObservationPublished(h) \/ CaptureFails(h)
      PROVE  \A g \in Handler : Fine(handler'[g])
  <2>1. \A g \in Handler : g # h => handler'[g] = handler[g]
    BY <1>1, <1>6 DEF Rendered, RawPublished, ObservationPublished, CaptureFails
  <2>2. Fine(handler'[h])
    <3>1. handler[h] \in Handlers /\ Fine(handler[h])
      BY <1>1
    <3>2. CASE Rendered(h)
      BY <1>1, <3>1, <3>2 DEF Rendered, Handlers
    <3>3. CASE RawPublished(h)
      BY <1>1, <3>1, <3>3 DEF RawPublished, Handlers
    <3>4. CASE ObservationPublished(h)
      BY <1>1, <1>2, <3>1, <3>4 DEF ObservationPublished, Handlers
    <3>5. CASE CaptureFails(h)
      BY <1>1, <1>2, <3>5 DEF CaptureFails
    <3> QED BY <1>6, <3>2, <3>3, <3>4, <3>5
  <2> QED BY <1>1, <2>1, <2>2
<1>7. CASE ProcessGroup
  <2>1. \A h \in Handler : handler'[h] = handler[h] \/ handler'[h] = Resting
    BY <1>7 DEF ProcessGroup
  <2> QED BY <1>1, <1>2, <2>1
<1>8. CASE Replaced \/ CloseBatch
  <2>1. \A h \in Handler : handler'[h] = handler[h] \/ handler'[h] = Resting
    BY <1>8 DEF Replaced, CloseBatch, WorkerGone, Abandon
  <2> QED BY <1>1, <1>2, <2>1
<1> QED BY <1>4, <1>5, <1>6, <1>7, <1>8, HandlerSteps

Captured(h) == handler[h].stage \in {"raw", "obs", "done"}

\* Sequences stay close when a capture begins, goes on or has ended.
LEMMA NearStays ==
    ASSUME EnvInv, EnvInv', SequencesNear, Begun \subseteq Begun',
           \/ transportSequence' = transportSequence
           \/ \E h \in Handler : Captured(h) /\ transportSequence' = handler[h].seq,
           \A h \in Handler : handler'[h].stage \in {"raw", "obs", "done"} =>
             \/ Captured(h) /\ handler'[h].seq = handler[h].seq
             \/ handler'[h].seq = transportSequence + 1 /\ Begun # Begun'
    PROVE  SequencesNear'
<1>1. PICK base \in 0..transportSequence : Near(base)
  BY DEF SequencesNear
<1> DEFINE m == Cardinality(Begun)
           n == Cardinality(Begun')
<1>2. m \in Nat /\ n \in Nat /\ m <= n /\ (m = n => Begun = Begun')
  <2>1. IsFiniteSet(Sensor) /\ Begun \subseteq Sensor /\ Begun' \subseteq Sensor
    BY EnvironmentAssumption DEF Begun
  <2>2. IsFiniteSet(Begun) /\ IsFiniteSet(Begun')
    BY <2>1, FS_Subset
  <2> QED BY <2>2, FS_Subset, FS_CardinalityType
<1>3. /\ transportSequence \in Nat /\ transportSequence' \in Nat /\ base \in Nat /\ base <= transportSequence
      /\ transportSequence <= base + m
      /\ \A h \in Handler : handler[h].seq \in Nat /\ handler'[h].seq \in Nat
      /\ \A h \in Handler : Captured(h) => base < handler[h].seq /\ handler[h].seq <= base + m
  BY <1>1, TypesOf DEF EnvInv, TypeOK, Handlers, Sequence, Near, Captured
<1> HIDE DEF m, n
<1>4. base <= transportSequence' /\ transportSequence' <= base + n
  BY <1>2, <1>3
<1>5. ASSUME NEW h \in Handler, handler'[h].stage \in {"raw", "obs", "done"}
      PROVE  base < handler'[h].seq /\ handler'[h].seq <= base + n
  <2>1. CASE Captured(h) /\ handler'[h].seq = handler[h].seq
    BY <1>2, <1>3, <2>1
  <2>2. CASE handler'[h].seq = transportSequence + 1 /\ Begun # Begun'
    <3>1. m < n
      BY <1>2, <2>2
    <3> QED BY <1>2, <1>3, <2>2, <3>1
  <2> QED BY <1>5, <2>1, <2>2
<1>6. base \in 0..transportSequence'
  BY <1>3, <1>4
<1> QED BY <1>4, <1>5, <1>6 DEF SequencesNear, Near, n

\* And when there are no captures.
LEMMA NearRestarts ==
    ASSUME EnvInv', \A h \in Handler : handler'[h].stage = "idle"
    PROVE  SequencesNear'
<1>1. Begun' = {}
  <2>1. \A s \in Sensor : <<incarnation', s>> \in Handler
    BY DEF EnvInv, TypeOK, Handler
  <2> QED BY <2>1 DEF Begun
<1>2. Cardinality({}) = 0
  BY FS_EmptySet
<1>3. transportSequence' \in Nat
  BY DEF EnvInv, TypeOK, Sequence
<1>4. \A n \in Nat : n \in 0..n /\ n <= n + 0
  OBVIOUS
<1>5. transportSequence' \in 0..transportSequence' /\ transportSequence' <= transportSequence' + Cardinality(Begun')
  BY <1>1, <1>2, <1>3, <1>4
<1>6. \A h \in Handler : ~(handler'[h].stage \in {"raw", "obs", "done"})
  OBVIOUS
<1> QED BY <1>5, <1>6 DEF SequencesNear, Near

\* While no call is at work no capture is.
LEMMA RestingIsIdle ==
    ASSUME Working, busy = None PROVE \A h \in Handler : handler[h].stage = "idle"
BY DEF Working

\* What waits for publication belongs to a call at work, or to a handler.
LEMMA QuietIsIdle ==
    ASSUME Working, Quiet PROVE \A h \in Handler : handler[h].stage = "idle"
<1>1. \A h \in Handler : h = <<h[1], h[2]>> /\ h[2] \in Sensor
  BY DEF Handler
<1>2. \A h \in Handler : h[1] = incarnation => handler[h].stage = "idle"
  BY <1>1 DEF Quiet, Mine
<1> QED BY <1>2 DEF Working

\* A call whose response is being published has left the worker, which captures
\* nothing.
LEMMA CallOutIsIdle ==
    ASSUME OneCall, EnvInv, Working, NEW c \in Call, call[c].stage \in {"externalize", "overtaken", "idle"}
    PROVE  busy = None /\ \A h \in Handler : handler[h].stage = "idle"
<1>1. busy \in Call \cup {None}
  BY DEF EnvInv, TypeOK
<1>2. busy = None
  BY <1>1 DEF OneCall, Working
<1> QED BY <1>2 DEF Working

\* Every action keeps sequences close.
LEMMA NearKept ==
    ASSUME OneCall, EnvInv, EnvInv', Holding, ~late', [Next]_vars
    PROVE  SequencesNear'
<1>1. /\ handler \in [Handler -> Handlers] /\ \A s \in Sensor : <<incarnation, s>> \in Handler
      /\ \A h \in Handler : h = <<h[1], h[2]>> /\ h[2] \in Sensor
      /\ SequencesNear /\ Working /\ Products
  BY TypesOf DEF EnvInv, Holding, Handler
<1>2. CASE Replaced \/ CloseBatch
  BY <1>2, GoneIsIdle, NearRestarts DEF Replaced, CloseBatch
<1>3. ASSUME NEW c \in Call, WorkerAnswers(c) PROVE SequencesNear'
  <2>1. \A h \in Handler : handler'[h].stage = "idle"
    BY <1>1, <1>3, QuietIsIdle DEF WorkerAnswers
  <2> QED BY <2>1, NearRestarts
<1>4. ASSUME NEW c \in Call, Externalized(c) PROVE SequencesNear'
  <2>1. \A h \in Handler : handler'[h].stage = "idle"
    BY <1>1, <1>4, CallOutIsIdle DEF Externalized
  <2> QED BY <2>1, NearRestarts
<1>5. CASE UNCHANGED <<handler, transportSequence, incarnation>>
  BY <1>1, <1>5, NearStays DEF Begun, Captured
<1>6. ASSUME NEW S \in (SUBSET Sensor) \ {{}}, CaptureGroup(S) PROVE SequencesNear'
  <2>1. \A h \in Handler : handler'[h] = handler[h] \/ handler'[h].stage = "gpu"
    BY <1>6 DEF CaptureGroup
  <2>2. \A h \in Handler : handler[h].stage = "idle"
    BY <1>1, <1>6, QuietIsIdle DEF CaptureGroup
  <2>3. transportSequence' = transportSequence /\ Begun = {}
    BY <1>1, <1>6, <2>2 DEF CaptureGroup, Begun
  <2> QED BY <1>1, <2>1, <2>2, <2>3, NearStays DEF Captured
<1>7. ASSUME NEW h \in Handler, Rendered(h) \/ RawPublished(h) \/ ObservationPublished(h) \/ CaptureFails(h)
      PROVE  SequencesNear'
  <2>1. /\ \A g \in Handler : g # h => handler'[g] = handler[g]
        /\ incarnation' = incarnation /\ handler[h] \in Handlers
    BY <1>1, <1>7 DEF Rendered, RawPublished, ObservationPublished, CaptureFails, workerVars
  <2>2. h[1] = incarnation /\ alive /\ handler[h].stage # "idle"
    BY <1>1, <1>7 DEF Working, Rendered, RawPublished, ObservationPublished, CaptureFails
  <2>3. handler'[h].stage \notin {"idle", "gpu"}
    <3>1. Rendered(h) => handler'[h].stage = "raw"
      BY <1>1, <2>1 DEF Rendered, Handlers
    <3>2. RawPublished(h) => handler'[h].stage = "obs"
      BY <1>1, <2>1 DEF RawPublished, Handlers
    <3>3. ObservationPublished(h) => handler'[h].stage = "done"
      BY <1>1, <2>1, <2>2 DEF ObservationPublished, Handlers
    <3>4. CaptureFails(h) => handler'[h].stage = "failed"
      BY <1>1, <2>1, <2>2 DEF CaptureFails, Resting
    <3> QED BY <1>7, <3>1, <3>2, <3>3, <3>4
  <2>4. Begun \subseteq Begun' /\ h[2] \in Begun'
    BY <1>1, <2>1, <2>2, <2>3 DEF Begun
  <2>5. CASE Rendered(h)
    <3>1. handler'[h].seq = transportSequence + 1 /\ transportSequence' = transportSequence /\ handler[h].stage = "gpu"
      BY <1>1, <2>1, <2>5 DEF Rendered, Handlers
    <3>2. h[2] \notin Begun
      BY <1>1, <2>2, <3>1 DEF Begun
    <3> QED BY <1>1, <2>1, <2>4, <3>1, <3>2, NearStays DEF Captured
  <2>6. CASE RawPublished(h) \/ CaptureFails(h)
    <3>1. transportSequence' = transportSequence
      BY <2>6 DEF RawPublished, CaptureFails
    <3>2. handler'[h].stage \in {"raw", "obs", "done"} => Captured(h) /\ handler'[h].seq = handler[h].seq
      BY <1>1, <2>1, <2>2, <2>6 DEF RawPublished, CaptureFails, Captured, Handlers, Resting
    <3> QED BY <1>1, <2>1, <2>4, <3>1, <3>2, NearStays DEF Captured
  <2>7. CASE ObservationPublished(h)
    <3>1. transportSequence' = handler[h].seq /\ Captured(h) /\ handler'[h].seq = handler[h].seq
      BY <1>1, <2>1, <2>2, <2>7 DEF ObservationPublished, Captured, Handlers
    <3> QED BY <1>1, <2>1, <2>4, <3>1, NearStays DEF Captured
  <2> QED BY <1>7, <2>5, <2>6, <2>7
<1>8. CASE ProcessGroup
  <2>1. \A h \in Handler : handler'[h].stage = "idle"
    BY <1>1, <1>8 DEF ProcessGroup, Working, Resting
  <2> QED BY <2>1, NearRestarts
<1>9. /\ \A c \in Call : \A reset \in BOOLEAN : StartCall(c, reset) => UNCHANGED <<handler, transportSequence, incarnation>>
      /\ \A s \in Sensor : Deliver(s) => UNCHANGED <<handler, transportSequence, incarnation>>
      /\ \A c \in Call : ExternalizeFails(c) => UNCHANGED <<handler, transportSequence, incarnation>>
      /\ Recover \/ Read \/ ArenaStep \/ UNCHANGED vars => UNCHANGED <<handler, transportSequence, incarnation>>
  BY DEF StartCall, Deliver, ExternalizeFails, Recover, Read, ArenaStep, vars, workerVars
<1> QED BY <1>2, <1>3, <1>4, <1>5, <1>6, <1>7, <1>8, <1>9 DEF Next

-----------------------------------------------------------------------------
(***************************************************************************)
(* The tail of the arena, and who waits for it.                            *)
(***************************************************************************)

\* What the steps of the arena by itself do to the tail.
LEMMA ArenaTail ==
    ASSUME EnvInv, ArenaStep
    PROVE  \E d \in {0, 1} : d <= Len(tail) /\ Moved(d, <<>>)
<1>1. tail \in Seq(Request) /\ <<>> \in Seq(Request) /\ Len(tail) \in Nat /\ (tail # <<>> => 1 <= Len(tail))
  BY RequestAt DEF EnvInv, TypeOK, Running
<1>2. CASE tail' = tail
  <2>1. Moved(0, <<>>)
    BY <1>1, <1>2, TailMoves
  <2> QED BY <1>1, <2>1
<1>3. CASE tail # <<>> /\ tail' = Tail(tail) \o <<>>
  <2>1. Moved(1, <<>>)
    BY <1>1, <1>3, TailMoves
  <2> QED BY <1>1, <1>3, <2>1
<1>4. tail' = tail \/ (tail # <<>> /\ tail' = Tail(tail) \o <<>>)
  BY DEF ArenaStep, Place, WritePayload, ReleaseKeeps, ReleaseFrees, EraseMagic, Truncate, Unlink, Over, Running
<1> QED BY <1>2, <1>3, <1>4

\* What a request,
LEMMA SubmitMoves ==
    ASSUME EnvInv, NEW more \in Seq(Request), Submit(more)
    PROVE  0 <= Len(tail) /\ Moved(0, more)
<1>1. tail \in Seq(Request)
  BY DEF EnvInv, TypeOK, ArenaTypeOK
<1>2. 0 <= Len(tail)
  BY <1>1
<1> QED BY <1>1, <1>2, TailMoves DEF Submit

\* a step of others,
LEMMA SameTail ==
    ASSUME EnvInv, tail' = tail
    PROVE  0 <= Len(tail) /\ <<>> \in Seq(Request) /\ Moved(0, <<>>)
<1>1. <<>> \in Seq(Request) /\ tail \in Seq(Request)
  BY DEF EnvInv, TypeOK, ArenaTypeOK
<1> QED BY <1>1, TailMoves

\* and the end of an operation make of the tail.
LEMMA OverMoves ==
    ASSUME EnvInv, tail # <<>>, NEW more \in Seq(Request), Over(more)
    PROVE  1 <= Len(tail) /\ Moved(1, more)
<1>1. tail \in Seq(Request)
  BY DEF EnvInv, TypeOK, ArenaTypeOK
<1>2. 1 <= Len(tail)
  BY <1>1
<1> QED BY <1>1, <1>2, TailMoves DEF Over

\* No publication waits when no handler and no call waits for one.
LEMMA NothingPublished ==
    ASSUME Publishing, \A h \in Handler : handler[h].stage \notin {"raw", "obs"},
           \A c \in Call : call[c].stage \notin {"externalize", "overtaken"}
    PROVE  \A i \in DOMAIN tail : ~Publishes(i)
BY DEF Publishing, Waits

\* A worker at work has no call that is being answered.
LEMMA BusyIsAlone ==
    ASSUME OneCall, EnvInv, Working, busy # None
    PROVE  \A c \in Call : c = busy /\ call[c].stage = "working"
BY DEF EnvInv, TypeOK, Working, OneCall

(* The steps that publish nothing *)

\* The same wait for publications, when none is asked for.
LEMMA PublishingStays ==
    ASSUME EnvInv, EnvInv', Publishing,
           NEW d \in {0, 1}, d <= Len(tail), NEW more \in Seq(Request), Moved(d, more),
           \A i \in DOMAIN more : more[i].op # "publish",
           \A i \in DOMAIN tail : i > d /\ Publishes(i) =>
             /\ \/ tail[i].by \in Handler /\ handler'[tail[i].by] = handler[tail[i].by]
                \/ tail[i].by \in Call /\ call'[tail[i].by].seq = call[tail[i].by].seq
                   /\ call'[tail[i].by].stage \in {"externalize", "overtaken"},
           \A i \in DOMAIN more : more[i].op = "release" =>
             \A j \in DOMAIN tail : j > d /\ Publishes(j) => tail[j].by \notin Call
    PROVE  Publishing'
<1>1. ArenaTypeOK /\ ArenaTypeOK'
  BY DEF EnvInv, TypeOK
<1>2. ASSUME NEW i \in DOMAIN tail, i > d, Publishes(i), NEW r, r = tail[i] PROVE Waits(r)'
  <2>1. Waits(r)
    BY <1>2 DEF Publishing
  <2>2. r.by \notin Handler \/ r.by \notin Call
    BY HandlersAre
  <2>3. \/ r.by \in Handler /\ handler'[r.by] = handler[r.by]
        \/ r.by \in Call /\ call'[r.by].seq = call[r.by].seq /\ call'[r.by].stage \in {"externalize", "overtaken"}
    BY <1>2
  <2> QED BY <2>1, <2>2, <2>3 DEF Waits
<1>3. \A r : (\E i \in DOMAIN tail : i > d /\ Publishes(i) /\ tail[i] = r) => Waits(r)'
  BY <1>2
<1> QED BY <1>1, <1>3, PublishingStep

\* One publication is asked for, and nobody else of its kind waits.
LEMMA PublishingOne ==
    ASSUME EnvInv, EnvInv', Publishing,
           NEW d \in {0, 1}, d <= Len(tail), NEW r \in Request, r.op = "publish", Moved(d, <<r>>), Waits(r)',
           \A i \in DOMAIN tail : i > d /\ Publishes(i) =>
             tail[i].by \in Handler /\ tail[i].by # r.by /\ handler'[tail[i].by] = handler[tail[i].by]
    PROVE  Publishing'
<1>1. ArenaTypeOK /\ ArenaTypeOK'
  BY DEF EnvInv, TypeOK
<1> DEFINE more == <<r>>
<1>2. more \in Seq(Request) /\ DOMAIN more = {1} /\ more[1] = r /\ Len(more) = 1
  OBVIOUS
<1>3. ASSUME NEW i \in DOMAIN tail, i > d, Publishes(i), NEW q, q = tail[i] PROVE Waits(q)'
  <2>1. Waits(q) /\ q.by \in Handler /\ q.by \notin Call
    BY <1>3, HandlersAre DEF Publishing
  <2> QED BY <1>3, <2>1 DEF Waits
<1>4. \A q : (\E i \in DOMAIN tail : i > d /\ Publishes(i) /\ tail[i] = q) => Waits(q)'
  BY <1>3
<1>5. \A q : (\E i \in DOMAIN more : more[i].op = "publish" /\ more[i] = q) =>
        /\ Waits(q)' /\ Len(more) = 1
        /\ \A i \in DOMAIN tail : i > d /\ Publishes(i) => tail[i].by # q.by
  <2>1. \A q : q = r => Waits(q)'
    BY DEF Waits
  <2> QED BY <1>2, <2>1
<1>6. \A i \in DOMAIN more : more[i].op # "release"
  BY <1>2
<1>7. Moved(d, more)
  OBVIOUS
<1> HIDE DEF more
<1> QED BY <1>1, <1>2, <1>4, <1>5, <1>6, <1>7, PublishingStep

\* Where each frame is.
LEMMA FrameAt ==
    ASSUME EnvInv, NEW s \in Sensor
    PROVE  /\ 0 \in Places /\ Frame(s, 0) = latest[s]
           /\ MaxQueueFrames + 1 \in Places /\ Frame(s, MaxQueueFrames + 1) = handler[<<incarnation, s>>].obs
           /\ \A i \in DOMAIN queue[s] : i \in Places /\ i # 0 /\ i # MaxQueueFrames + 1 /\ Frame(s, i) = queue[s][i]
           /\ \A i \in DOMAIN queue[s] : queue[s][i] \in Ref /\ queue[s][i] # None
<1>1. MaxQueueFrames \in Nat /\ None \notin Ref
  BY EnvironmentAssumption
<1>2. queue[s] \in Seq(Ref) /\ Len(queue[s]) \in Nat /\ Len(queue[s]) <= MaxQueueFrames /\ DOMAIN queue[s] = 1..Len(queue[s])
  BY DEF EnvInv, TypeOK
<1>3. /\ 0 \in Places /\ MaxQueueFrames + 1 \in Places /\ MaxQueueFrames + 1 # 0
      /\ \A i \in 1..Len(queue[s]) : i \in Places /\ i # 0 /\ i # MaxQueueFrames + 1 /\ i <= Len(queue[s])
  BY <1>1, <1>2 DEF Places
<1>4. \A i \in DOMAIN queue[s] : queue[s][i] \in Ref /\ queue[s][i] # None
  BY <1>1, <1>2
<1> QED BY <1>2, <1>3, <1>4 DEF Frame

\* The frames that a reset releases.
LEMMA ResetGivesUp ==
    ASSUME EnvInv, FramesHeld
    PROVE  \E W : /\ GivesUp(ReleaseAll(latest, Sensor)
                       \o FlattenSeq([s \in Sensor |-> [i \in DOMAIN queue[s] |-> Release(queue[s][i])]]), W)
                  /\ \A ref \in W : ref # None /\ \E s \in Sensor : \E i \in Places : Frame(s, i) = ref
<1>1. latest \in [Sensor -> RefOrNone] /\ queue \in [Sensor -> Seq(Ref)]
  BY TypesOf DEF EnvInv
<1> DEFINE V == {latest[s] : s \in {t \in Sensor : t \in Sensor /\ latest[t] # None}}
           U == UNION {{queue[s][i] : i \in DOMAIN queue[s]} : s \in Sensor}
<1>2. \A s, t \in Sensor : s \in Sensor /\ t \in Sensor /\ latest[s] # None /\ latest[t] # None
                             /\ latest[s].off = latest[t].off => s = t
  <2> TAKE s, t \in Sensor
  <2>1. 0 \in Places /\ Frame(s, 0) = latest[s]
    BY FrameAt
  <2>2. Frame(t, 0) = latest[t]
    BY FrameAt
  <2> QED BY <2>1, <2>2 DEF FramesHeld
<1>3. GivesUp(ReleaseAll(latest, Sensor), V)
  BY <1>1, <1>2, ReleaseAllGivesUp
<1>4. \A s, t \in Sensor : \A i \in DOMAIN queue[s] : \A j \in DOMAIN queue[t] :
        queue[s][i].off = queue[t][j].off => s = t /\ i = j
  <2> TAKE s, t \in Sensor
  <2> TAKE i \in DOMAIN queue[s]
  <2> TAKE j \in DOMAIN queue[t]
  <2>1. i \in Places /\ Frame(s, i) = queue[s][i] /\ queue[s][i] # None
    BY FrameAt
  <2>2. j \in Places /\ Frame(t, j) = queue[t][j] /\ queue[t][j] # None
    BY FrameAt
  <2> QED BY <2>1, <2>2 DEF FramesHeld
<1>5. GivesUp(FlattenSeq([s \in Sensor |-> [i \in DOMAIN queue[s] |-> Release(queue[s][i])]]), U)
  BY <1>1, <1>4, ReleaseQueuesGivesUp
<1>6. \A ref \in V : ref # None /\ \E s \in Sensor : Frame(s, 0) = ref
  <2> TAKE ref \in V
  <2>1. PICK s \in Sensor : ref = latest[s] /\ ref # None
    OBVIOUS
  <2>2. Frame(s, 0) = latest[s]
    BY FrameAt
  <2> QED BY <2>1, <2>2
<1>7. \A ref \in U : ref # None /\ \E s \in Sensor : \E i \in Places : i # 0 /\ Frame(s, i) = ref
  <2> TAKE ref \in U
  <2>1. PICK s \in Sensor : \E i \in DOMAIN queue[s] : ref = queue[s][i]
    OBVIOUS
  <2>2. PICK i \in DOMAIN queue[s] : ref = queue[s][i]
    BY <2>1
  <2> QED BY <2>2, FrameAt
<1>8. ASSUME NEW u \in V, NEW w \in U PROVE u.off # w.off
  <2>1. PICK s \in Sensor : Frame(s, 0) = u /\ u # None
    BY <1>6
  <2>2. PICK t \in Sensor, i \in Places : i # 0 /\ Frame(t, i) = w /\ w # None
    BY <1>7
  <2>3. 0 \in Places
    BY FrameAt
  <2> QED BY <2>1, <2>2, <2>3 DEF FramesHeld
<1> HIDE DEF U, V
<1>9. GivesUp(ReleaseAll(latest, Sensor)
        \o FlattenSeq([s \in Sensor |-> [i \in DOMAIN queue[s] |-> Release(queue[s][i])]]), V \cup U)
  BY <1>3, <1>5, <1>8, GivesUpBoth
<1>10. \A s \in Sensor : 0 \in Places
  BY FrameAt
<1>11. \A ref \in V \cup U : ref # None /\ \E s \in Sensor : \E i \in Places : Frame(s, i) = ref
  BY <1>6, <1>7, <1>10
<1> QED BY <1>9, <1>11

\* The frame that a newer one replaces.
LEMMA DeliverGivesUp ==
    ASSUME EnvInv, NEW s \in Sensor
    PROVE  GivesUp(ReleaseAll(latest, {s}), {latest[t] : t \in {u \in Sensor : u \in {s} /\ latest[u] # None}})
<1>1. latest \in [Sensor -> RefOrNone]
  BY TypesOf DEF EnvInv
<1>2. \A t, u \in Sensor : t \in {s} /\ u \in {s} /\ latest[t] # None /\ latest[u] # None
                             /\ latest[t].off = latest[u].off => t = u
  OBVIOUS
<1> QED BY <1>1, <1>2, ReleaseAllGivesUp

\* What a group of captures releases: its raw products, and its observations
\* when they find no room.
LEMMA GroupGivesUp ==
    ASSUME EnvInv, Holding, NEW full \in BOOLEAN
    PROVE  LET raws == [s \in Sensor |-> handler[<<incarnation, s>>].raw]
               obs == [s \in Sensor |-> handler[<<incarnation, s>>].obs]
           IN  \E V, U : /\ GivesUp(ReleaseAll(raws, Mine) \o IF full THEN ReleaseAll(obs, Mine) ELSE <<>>, V \cup U)
                         /\ \A ref \in V : ref # None /\ \E h \in Handler : handler[h].raw = ref
                         /\ \A ref \in U : ref # None /\ full
                              /\ \E s \in Sensor : Frame(s, MaxQueueFrames + 1) = ref
<1> DEFINE raws == [s \in Sensor |-> handler[<<incarnation, s>>].raw]
           obs == [s \in Sensor |-> handler[<<incarnation, s>>].obs]
           V == {raws[s] : s \in {t \in Sensor : t \in Mine /\ raws[t] # None}}
           U == {obs[s] : s \in {t \in Sensor : t \in Mine /\ obs[t] # None}}
<1>1. /\ handler \in [Handler -> Handlers] /\ \A s \in Sensor : <<incarnation, s>> \in Handler
      /\ FramesHeld /\ Raws
  BY TypesOf DEF EnvInv, Holding
<1>2. raws \in [Sensor -> RefOrNone] /\ obs \in [Sensor -> RefOrNone]
  BY <1>1 DEF Handlers
<1>3. \A s \in Sensor : raws[s] = handler[<<incarnation, s>>].raw /\ obs[s] = handler[<<incarnation, s>>].obs
                        /\ obs[s] = Frame(s, MaxQueueFrames + 1) /\ MaxQueueFrames + 1 \in Places
  BY FrameAt
<1> HIDE DEF raws, obs
<1>4. \A s, t \in Sensor : s \in Mine /\ t \in Mine /\ raws[s] # None /\ raws[t] # None
                             /\ raws[s].off = raws[t].off => s = t
  BY <1>1, <1>3 DEF Raws
<1>5. \A s, t \in Sensor : s \in Mine /\ t \in Mine /\ obs[s] # None /\ obs[t] # None
                             /\ obs[s].off = obs[t].off => s = t
  <2> TAKE s, t \in Sensor
  <2>1. MaxQueueFrames + 1 \in Places /\ obs[s] = Frame(s, MaxQueueFrames + 1)
    BY <1>3
  <2>2. obs[t] = Frame(t, MaxQueueFrames + 1)
    BY <1>3
  <2> QED BY <1>1, <2>1, <2>2 DEF FramesHeld
<1>6. GivesUp(ReleaseAll(raws, Mine), V) /\ GivesUp(ReleaseAll(obs, Mine), U)
  BY <1>2, <1>4, <1>5, ReleaseAllGivesUp
<1>7. \A ref \in V : ref # None /\ \E h \in Handler : handler[h].raw = ref
  BY <1>1, <1>3
<1>8. \A ref \in U : ref # None /\ \E s \in Sensor : Frame(s, MaxQueueFrames + 1) = ref
  BY <1>3
<1>9. ASSUME NEW v \in V, NEW u \in U PROVE v.off # u.off
  <2>1. PICK h \in Handler : handler[h].raw = v /\ v # None
    BY <1>7
  <2>2. PICK s \in Sensor : Frame(s, MaxQueueFrames + 1) = u /\ u # None
    BY <1>8
  <2>3. MaxQueueFrames + 1 \in Places
    BY <1>3
  <2> QED BY <2>1, <2>2, <2>3, HeldApart
<1> DEFINE X == IF full THEN U ELSE {}
           more == IF full THEN ReleaseAll(obs, Mine) ELSE <<>>
<1>10. GivesUp(more, X)
  BY <1>6, GivesUpNothing
<1>11. \A v \in V : \A u \in X : v.off # u.off
  BY <1>9
<1>12. \A ref \in X : ref # None /\ full /\ \E s \in Sensor : Frame(s, MaxQueueFrames + 1) = ref
  BY <1>8
<1> HIDE DEF X, V, U
<1>13. GivesUp(ReleaseAll(raws, Mine) \o more, V \cup X)
  <2> HIDE DEF more
  <2> QED BY <1>6, <1>10, <1>11, GivesUpBoth
<1> QED BY <1>7, <1>12, <1>13 DEF raws, obs

\* What is held after a step.
LEMMA HeldIs ==
    ASSUME NEW ref
    PROVE  ref \in Held' <=>
             /\ ref # None
             /\ \/ \E h \in Handler : handler'[h].raw = ref
                \/ \E s \in Sensor : \E i \in Places : Frame(s, i)' = ref
BY DEF Held

\* Without new releases.
LEMMA ReleasingStays ==
    ASSUME EnvInv, EnvInv', Holding, [ArenaNext]_arenaVars, \A more : ~Grow(more),
           NEW d \in {0, 1}, d <= Len(tail), NEW more \in Seq(Request), Moved(d, more),
           \A i \in DOMAIN more : more[i].op # "release",
           \A ref : ref \in Held' => ref \in Held \/ \A i \in DOMAIN tail : Releases(i) => tail[i].off # ref.off
    PROVE  Releasing'
<1>1. ArenaTypeOK /\ ArenaTypeOK' /\ Releasing
  BY DEF EnvInv, TypeOK, Holding
<1>2. \A ref : ref \in Held' => \A i \in DOMAIN tail : i > d /\ Releases(i) => ref.off # tail[i].off
  BY <1>1 DEF Releasing
<1> DEFINE W == {}
<1>3. \A i \in DOMAIN more : more[i].op = "release" => \E ref \in W : ref.off = more[i].off
  OBVIOUS
<1>4. \A i, j \in DOMAIN more :
        more[i].op = "release" /\ more[j].op = "release" /\ more[i].off = more[j].off => i = j
  OBVIOUS
<1>5. \A i, j \in DOMAIN more : more[i].op = "release" => more[j].op # "publish"
  OBVIOUS
<1>6. \A ref \in W :
        /\ \E b \in blocks' : b.off = ref.off /\
             (b.retained \/ \A j \in DOMAIN tail : Publishes(j) => tail[j].gen < b.gen + Generations)
        /\ \A i \in DOMAIN tail : Releases(i) => tail[i].off # ref.off
        /\ \A h : h \in Held' => h.off # ref.off
  OBVIOUS
<1> HIDE DEF W
<1> QED BY <1>1, <1>2, <1>3, <1>4, <1>5, <1>6, ReleasingStep

\* With the releases of what is no longer held.
LEMMA ReleasingMore ==
    ASSUME OneCall, EnoughGenerations, EnvInv, EnvInv', Holding, [ArenaNext]_arenaVars, \A more : ~Grow(more),
           NEW d \in {0, 1}, d <= Len(tail), NEW more, Moved(d, more), NEW W, GivesUp(more, W),
           \A ref \in W : ref # None /\ (\/ \E h \in Handler : handler[h].raw = ref
                                         \/ \E s \in Sensor : \E i \in Places : Frame(s, i) = ref),
           \A ref : ref \in Held' => ref \in Held /\ \A w \in W : w.off # ref.off
    PROVE  Releasing'
<1>1. ArenaTypeOK /\ ArenaTypeOK' /\ Releasing /\ more \in Seq(Request)
  BY DEF EnvInv, TypeOK, Holding, GivesUp
<1>2. \A ref : ref \in Held' => \A i \in DOMAIN tail : i > d /\ Releases(i) => ref.off # tail[i].off
  BY <1>1 DEF Releasing
<1>3. \A i \in DOMAIN more : more[i].op = "release" => \E ref \in W : ref.off = more[i].off
  BY DEF GivesUp
<1>4. \A i, j \in DOMAIN more :
        more[i].op = "release" /\ more[j].op = "release" /\ more[i].off = more[j].off => i = j
  BY DEF GivesUp
<1>5. \A i, j \in DOMAIN more : more[i].op = "release" => more[j].op # "publish"
  BY DEF GivesUp
<1>6. \A ref \in W :
        /\ \E b \in blocks' : b.off = ref.off /\
             (b.retained \/ \A j \in DOMAIN tail : Publishes(j) => tail[j].gen < b.gen + Generations)
        /\ \A i \in DOMAIN tail : Releases(i) => tail[i].off # ref.off
        /\ \A h : h \in Held' => h.off # ref.off
  <2> TAKE ref \in W
  <2>1. \A h : h \in Held' => h.off # ref.off
    OBVIOUS
  <2> QED BY <2>1, GivenUp
<1> QED BY <1>1, <1>2, <1>3, <1>4, <1>5, <1>6, ReleasingStep

\* When the worker keeps its frames.
LEMMA FramesKept ==
    ASSUME OneCall, EnoughGenerations, EnvInv, Holding, [ArenaNext]_arenaVars, \A more : ~Grow(more),
           UNCHANGED <<latest, queue, incarnation>>, \A h \in Handler : handler'[h].obs = handler[h].obs
    PROVE  FramesHeld' /\ \A s \in Sensor : \A i \in Places : Frame(s, i)' = Frame(s, i)
<1>2. \A s \in Sensor : \A i \in Places : Frame(s, i)' = Frame(s, i)
  <2>1. \A s \in Sensor : <<incarnation, s>> \in Handler
    BY DEF EnvInv, TypeOK, Handler
  <2> QED BY <2>1 DEF Frame
<1> DEFINE m == [p \in Sensor \X Places |-> p[2]]
<1>3. \A s \in Sensor : \A i \in Places : m[<<s, i>>] = i
  OBVIOUS
<1>4. FramesHeld'
  <2> HIDE DEF m
  <2>1. \A s \in Sensor : \A i \in Places : Frame(s, i)' # None =>
          m[<<s, i>>] \in Places /\ Frame(s, i)' = Frame(s, m[<<s, i>>])
    BY <1>2, <1>3
  <2>2. \A s \in Sensor : \A i, j \in Places :
          Frame(s, i)' # None /\ Frame(s, j)' # None /\ m[<<s, i>>] = m[<<s, j>>] => i = j
    BY <1>3
  <2> QED BY <2>1, <2>2, FramesMove
<1> QED BY <1>2, <1>4

\* When handlers keep what they have, and the worker its frames.
LEMMA HeldKept ==
    ASSUME OneCall, EnoughGenerations, EnvInv, EnvInv', Holding, [ArenaNext]_arenaVars, \A more : ~Grow(more),
           UNCHANGED <<latest, queue, incarnation>>,
           \A h \in Handler : /\ handler'[h].raw = handler[h].raw /\ handler'[h].obs = handler[h].obs
                              /\ handler[h].raw # None => handler'[h].seq = handler[h].seq,
           NEW d \in {0, 1}, d <= Len(tail), NEW more \in Seq(Request), Moved(d, more),
           \A i \in DOMAIN more : more[i].op # "release"
    PROVE  Raws' /\ FramesHeld' /\ Releasing'
<1>1. Raws'
  BY RawsStay
<1>2. FramesHeld' /\ \A s \in Sensor : \A i \in Places : Frame(s, i)' = Frame(s, i)
  BY FramesKept
<1>5. \A ref : ref \in Held' => ref \in Held
  <2> TAKE ref
  <2> HAVE ref \in Held'
  <2>1. ref # None /\ (\/ \E h \in Handler : handler[h].raw = ref
                       \/ \E s \in Sensor : \E i \in Places : Frame(s, i) = ref)
    BY <1>2, HeldIs
  <2> QED BY <2>1 DEF Held
<1>6. Releasing'
  BY <1>5, ReleasingStays
<1> QED BY <1>1, <1>2, <1>6

\* When nothing is held any more.
LEMMA NothingHeld ==
    ASSUME EnvInv', \A h \in Handler : handler'[h].raw = None /\ handler'[h].obs = None,
           latest' = NoRefs, queue' = [s \in Sensor |-> <<>>]
    PROVE  Raws' /\ FramesHeld' /\ \A ref : ref \notin Held'
<1>1. \A s \in Sensor : \A i \in Places : Frame(s, i)' = None
  <2>1. \A s \in Sensor : <<incarnation', s>> \in Handler
    BY DEF EnvInv, TypeOK, Handler
  <2>2. \A s \in Sensor : latest'[s] = None /\ queue'[s] = <<>>
    BY DEF NoRefs
  <2>3. \A i \in Places : i \in Nat /\ (i # 0 => ~(i <= 0))
    BY EnvironmentAssumption DEF Places
  <2>4. \A s \in Sensor : Len(queue'[s]) = 0
    BY <2>2
  <2> QED BY <2>1, <2>2, <2>3, <2>4 DEF Frame
<1>2. FramesHeld'
  BY <1>1 DEF FramesHeld, Frame, Places
<1> QED BY <1>1, <1>2, HeldIs DEF Raws

\* What no operation releases is released by none after a step that asks for no
\* release.
LEMMA ReleasesComeFrom ==
    ASSUME EnvInv, EnvInv', NEW d \in {0, 1}, d <= Len(tail), NEW more \in Seq(Request), Moved(d, more),
           \A i \in DOMAIN more : more[i].op # "release",
           NEW off, \A i \in DOMAIN tail : Releases(i) => tail[i].off # off
    PROVE  \A i \in DOMAIN tail' : tail'[i].op = "release" => tail'[i].off # off
<1>1. tail \in Seq(Request) /\ tail' \in Seq(Request)
  BY DEF EnvInv, TypeOK, ArenaTypeOK
<1> TAKE i \in DOMAIN tail'
<1>2. CASE i + d \in DOMAIN tail /\ tail'[i] = tail[i + d]
  BY <1>2 DEF Releases
<1>3. CASE i - (Len(tail) - d) \in DOMAIN more /\ tail'[i] = more[i - (Len(tail) - d)]
  BY <1>3
<1> QED BY <1>1, <1>2, <1>3, ComesFrom

\* A reference that has been given stays good.
LEMMA GivenStays ==
    ASSUME EnvInv, EnvInv', [ArenaNext]_arenaVars, \A more : ~Grow(more), latest' = latest,
           NEW d \in {0, 1}, d <= Len(tail), NEW more \in Seq(Request), Moved(d, more),
           \A i \in DOMAIN more : more[i].op # "release",
           NEW ref, NEW s \in Sensor, NEW seq \in Nat, Given(ref, s, seq),
           Running("publish") => Head(tail).gen < seq + Generations
    PROVE  Given(ref, s, seq)'
<1>1. CASE ref = None \/ ref = latest[s]
  BY <1>1 DEF Given
<1>2. CASE /\ LiveAs(ref, FALSE) /\ ref.gen = seq
           /\ \A i \in DOMAIN tail : Releases(i) => tail[i].off # ref.off
  <2>1. ArenaTypeOK
    BY DEF EnvInv, TypeOK
  <2>2. LiveAs(ref, FALSE)'
    BY <1>2, <2>1, LiveStays
  <2> DEFINE off == ref.off
  <2>3. \A i \in DOMAIN tail' : tail'[i].op = "release" => tail'[i].off # off
    <3>1. \A i \in DOMAIN tail : Releases(i) => tail[i].off # off
      BY <1>2
    <3> HIDE DEF off
    <3> QED BY <3>1, ReleasesComeFrom
  <2> QED BY <1>2, <2>2, <2>3 DEF Given, Releases
<1> QED BY <1>1, <1>2 DEF Given

\* A publication retires nothing of its own generation.
LEMMA GenerationsAre == ASSUME EnoughGenerations PROVE \A n \in Nat : n < n + Generations
<1>1. Cardinality(Sensor) \in Nat \ {0} /\ Generations \in Nat /\ Cardinality(Sensor) <= Generations
  BY SensorsAre, ArenaAssumption DEF EnoughGenerations
<1> QED BY <1>1

\* Nothing but the call is published while it is being answered, and nothing
\* at all between calls.
LEMMA ResponsePublished ==
    ASSUME OneCall, EnvInv, Holding, NEW c \in Call, call[c].stage \in {"externalize", "overtaken", "idle"}
    PROVE  /\ \A i \in DOMAIN tail : Publishes(i) => tail[i].by = c /\ tail[i].by \in Call /\ tail[i].by \notin Handler
                 /\ tail[i].gen = call[c].seq /\ ~tail[i].retained /\ call[c].stage # "idle"
           /\ \A i, j \in DOMAIN tail : Publishes(i) /\ Publishes(j) => i = j
           /\ busy = None /\ \A h \in Handler : handler[h].stage = "idle"
<1>1. busy = None /\ \A h \in Handler : handler[h].stage = "idle"
  BY CallOutIsIdle DEF Holding
<1>2. ASSUME NEW i \in DOMAIN tail, Publishes(i)
      PROVE  tail[i].by = c /\ tail[i].gen = call[c].seq /\ ~tail[i].retained /\ call[c].stage # "idle"
  <2>1. Waits(tail[i])
    BY <1>2 DEF Holding, Publishing
  <2> QED BY <1>1, <2>1 DEF Waits, OneCall
<1>3. c \notin Handler
  BY HandlersAre
<1> QED BY <1>1, <1>2, <1>3 DEF Holding, Publishing

\* What has been given stays good as long as nothing of it changes.
LEMMA RespondingStays ==
    ASSUME OneCall, EnoughGenerations, EnvInv, EnvInv', Holding, [ArenaNext]_arenaVars, \A more : ~Grow(more),
           UNCHANGED <<latest, call, response, transportSequence>>,
           recovering' \/ ~alive' => requiresReset' \/ closed',
           requiresReset \/ closed => requiresReset' \/ closed',
           NEW d \in {0, 1}, d <= Len(tail), NEW more \in Seq(Request), Moved(d, more),
           \A i \in DOMAIN more : more[i].op # "release"
    PROVE  Responding'
<1>1. /\ call \in [Call -> Calls] /\ transportSequence \in Nat /\ \A c \in Call : call[c].seq \in Nat
      /\ Responding
  BY TypesOf DEF EnvInv, Calls, Sequence, Holding
<1>2. ASSUME NEW c \in Call, call[c].stage = "externalize", NEW s \in Sensor, NEW ref, ref = call[c].refs[s], NEW seq, seq = call[c].seq
      PROVE  Given(ref, s, seq)'
  <2>1. Given(ref, s, seq) /\ seq \in Nat
    BY <1>1, <1>2 DEF Responding
  <2>2. Running("publish") => Head(tail).gen < seq + Generations
    <3>1. ArenaTypeOK
      BY DEF EnvInv, TypeOK
    <3>2. \A i \in DOMAIN tail : Publishes(i) => tail[i].gen = seq
      BY <1>2, ResponsePublished
    <3> QED BY <2>1, <3>1, <3>2, RequestAt, GenerationsAre DEF Publishes
  <2> QED BY <2>1, <2>2, GivenStays
<1>3. ASSUME \A c \in Call : call[c].stage = "idle", ~requiresReset', ~closed', NEW s \in Sensor,
             NEW ref, ref = response[s], NEW seq, seq = transportSequence
      PROVE  Given(ref, s, seq)'
  <2>1. Given(ref, s, seq) /\ seq \in Nat
    BY <1>1, <1>3 DEF Responding
  <2>2. \A i \in DOMAIN tail : ~Publishes(i)
    <3>1. CASE Call = {}
      <4>1. busy = None
        BY <3>1 DEF EnvInv, TypeOK
      <4> QED BY <3>1, <4>1, RestingIsIdle, NothingPublished DEF Holding
    <3>2. CASE Call # {}
      <4>1. PICK c \in Call : TRUE
        BY <3>2
      <4> QED BY <1>3, <4>1, ResponsePublished
    <3> QED BY <3>1, <3>2
  <2>3. ~Running("publish")
    <3>1. ArenaTypeOK
      BY DEF EnvInv, TypeOK
    <3> QED BY <2>2, <3>1, RequestAt DEF Publishes
  <2> QED BY <2>1, <2>3, GivenStays
<1>4. \A c \in Call : call'[c].stage = "externalize" =>
        \A s \in Sensor : Given(call[c].refs[s], s, call[c].seq)'
  <2> TAKE c \in Call
  <2> HAVE call'[c].stage = "externalize"
  <2> TAKE s \in Sensor
  <2>1. \A ref, seq : ref = call[c].refs[s] /\ seq = call[c].seq => Given(ref, s, seq)'
    BY <1>2
  <2> QED BY <2>1 DEF Given, LiveAs
<1>5. (\A c \in Call : call'[c].stage = "idle") /\ ~requiresReset' /\ ~closed' =>
         \A s \in Sensor : Given(response[s], s, transportSequence)'
  <2> HAVE (\A c \in Call : call'[c].stage = "idle") /\ ~requiresReset' /\ ~closed'
  <2> TAKE s \in Sensor
  <2>1. \A ref, seq : ref = response[s] /\ seq = transportSequence => Given(ref, s, seq)'
    BY <1>3
  <2> QED BY <2>1 DEF Given, LiveAs
<1>6. \A c \in Call : call'[c].stage = "overtaken" => requiresReset' \/ closed'
  BY <1>1 DEF Responding
<1> QED BY <1>4, <1>5, <1>6 DEF Responding

\* While the worker is at work there is no response to speak of.
LEMMA RespondingAtWork ==
    ASSUME OneCall, recovering' \/ ~alive' => requiresReset' \/ closed',
           NEW c \in Call, call'[c].stage = "working"
    PROVE  Responding'
<1>1. \A d \in Call : call'[d].stage = "working"
  BY DEF OneCall
<1> QED BY <1>1 DEF Responding
\* The same when nothing is asked for.
LEMMA NothingAsked == <<>> \in Seq(Request) /\ \A i \in DOMAIN <<>> : FALSE
OBVIOUS

\* PublishingStays, HeldKept and RespondingStays where nothing is asked for.
LEMMA PublishingRests ==
    ASSUME EnvInv, EnvInv', Publishing, NEW d \in {0, 1}, d <= Len(tail), Moved(d, <<>>),
           \A i \in DOMAIN tail : i > d /\ Publishes(i) =>
             \/ tail[i].by \in Handler /\ handler'[tail[i].by] = handler[tail[i].by]
             \/ tail[i].by \in Call /\ call'[tail[i].by].seq = call[tail[i].by].seq
                /\ call'[tail[i].by].stage \in {"externalize", "overtaken"}
    PROVE  Publishing'
<1> DEFINE more == <<>>
<1>1. more \in Seq(Request) /\ (\A i \in DOMAIN more : FALSE) /\ Moved(d, more)
  BY NothingAsked
<1> HIDE DEF more
<1>2. /\ \A i \in DOMAIN more : more[i].op # "publish"
      /\ \A i \in DOMAIN more : more[i].op = "release" =>
             \A j \in DOMAIN tail : j > d /\ Publishes(j) => tail[j].by \notin Call
  BY <1>1
<1> QED BY <1>1, <1>2, PublishingStays

\* What handlers and the worker hold outlasts a step that moves none of it.
LEMMA HeldRests ==
    ASSUME OneCall, EnoughGenerations, EnvInv, EnvInv', Holding, [ArenaNext]_arenaVars, \A more : ~Grow(more),
           UNCHANGED <<latest, queue, incarnation>>,
           \A h \in Handler : /\ handler'[h].raw = handler[h].raw /\ handler'[h].obs = handler[h].obs
                              /\ handler[h].raw # None => handler'[h].seq = handler[h].seq,
           NEW d \in {0, 1}, d <= Len(tail), Moved(d, <<>>)
    PROVE  Raws' /\ FramesHeld' /\ Releasing'
<1> DEFINE more == <<>>
<1>1. more \in Seq(Request) /\ (\A i \in DOMAIN more : more[i].op # "release") /\ Moved(d, more)
  BY NothingAsked
<1> HIDE DEF more
<1> QED BY <1>1, HeldKept

\* So do the references of responses.
LEMMA RespondingRests ==
    ASSUME OneCall, EnoughGenerations, EnvInv, EnvInv', Holding, [ArenaNext]_arenaVars, \A more : ~Grow(more),
           UNCHANGED <<latest, call, response, transportSequence>>,
           recovering' \/ ~alive' => requiresReset' \/ closed',
           requiresReset \/ closed => requiresReset' \/ closed',
           NEW d \in {0, 1}, d <= Len(tail), Moved(d, <<>>)
    PROVE  Responding'
<1> DEFINE more == <<>>
<1>1. more \in Seq(Request) /\ (\A i \in DOMAIN more : more[i].op # "release") /\ Moved(d, more)
  BY NothingAsked
<1> HIDE DEF more
<1> QED BY <1>1, RespondingStays

-----------------------------------------------------------------------------
(***************************************************************************)
(* Every action keeps what is held.                                        *)
(***************************************************************************)

\* A step that does not grow the file.
LEMMA NoGrow == ASSUME stage' = stage \/ stage # "grow" PROVE \A more : ~Grow(more)
BY DEF Grow, Over

\* A handler at work works for a call.
LEMMA AtWork ==
    ASSUME OneCall, EnvInv, Holding, busy # None
    PROVE  /\ busy \in Call /\ \A c \in Call : call[c].stage = "working"
           /\ \A i \in DOMAIN tail : Publishes(i) =>
                tail[i].by \in Handler /\ tail[i].by \notin Call
                /\ handler[tail[i].by].stage = IF tail[i].retained THEN "obs" ELSE "raw"
<1>1. busy \in Call /\ \A c \in Call : call[c].stage = "working"
  BY BusyIsAlone DEF Holding, EnvInv, TypeOK
<1>2. ASSUME NEW i \in DOMAIN tail, Publishes(i)
      PROVE  tail[i].by \in Handler /\ handler[tail[i].by].stage = IF tail[i].retained THEN "obs" ELSE "raw"
  <2>1. Waits(tail[i])
    BY <1>2 DEF Holding, Publishing
  <2> QED BY <1>1, <2>1 DEF Waits
<1> QED BY <1>1, <1>2, HandlersAre

\* A reset gives up every frame; a step gives up none.
LEMMA StartHolds ==
    ASSUME OneCall, EnoughGenerations, EnvInv, EnvInv', Holding, [ArenaNext]_arenaVars,
           NEW c \in Call, NEW reset \in BOOLEAN, StartCall(c, reset)
    PROVE  Publishing' /\ Raws' /\ FramesHeld' /\ Releasing' /\ Responding'
<1>1. /\ call[c].stage = "idle" /\ alive' = alive /\ alive /\ recovering' = recovering /\ ~recovering
      /\ handler' = handler /\ call' = [call EXCEPT ![c].stage = "working"] /\ incarnation' = incarnation
  BY DEF StartCall
<1>2. /\ \A i \in DOMAIN tail : ~Publishes(i)
      /\ \A h \in Handler : handler[h].stage = "idle"
  BY <1>1, ResponsePublished
<1>3. Responding'
  <2>1. call'[c].stage = "working"
    BY <1>1 DEF EnvInv, TypeOK
  <2> QED BY <1>1, <2>1, RespondingAtWork
<1>4. CASE ~reset
  <2>1. UNCHANGED <<arenaVars, queue, latest>>
    BY <1>4 DEF StartCall
  <2>2. 0 <= Len(tail) /\ <<>> \in Seq(Request) /\ Moved(0, <<>>) /\ \A more : ~Grow(more)
    BY <2>1, SameTail, NoGrow DEF arenaVars
  <2>3. Publishing'
    BY <1>2, <2>2, PublishingRests DEF Holding
  <2> QED BY <1>1, <1>3, <2>1, <2>2, <2>3, HeldRests
<1>5. CASE reset
  <2> DEFINE more == ReleaseAll(latest, Sensor)
                       \o FlattenSeq([s \in Sensor |-> [i \in DOMAIN queue[s] |-> Release(queue[s][i])]])
  <2>1. Submit(more) /\ queue' = [s \in Sensor |-> <<>>] /\ latest' = NoRefs
    BY <1>5 DEF StartCall
  <2>2. PICK W : GivesUp(more, W) /\ \A ref \in W : ref # None /\ \E s \in Sensor : \E i \in Places : Frame(s, i) = ref
    BY ResetGivesUp DEF Holding
  <2> HIDE DEF more
  <2>3. more \in Seq(Request) /\ (\A i \in DOMAIN more : more[i].op = "release")
    BY <2>2 DEF GivesUp
  <2>4. 0 <= Len(tail) /\ Moved(0, more) /\ \A q : ~Grow(q)
    BY <2>1, <2>3, SubmitMoves, NoGrow DEF Submit
  <2>5. Publishing'
    BY <1>2, <2>3, <2>4, PublishingStays DEF Holding
  <2>6. \A h \in Handler : handler'[h].raw = None /\ handler'[h].obs = None
    BY <1>1, <1>2 DEF Holding, Products
  <2>7. Raws' /\ FramesHeld' /\ \A ref : ref \notin Held'
    BY <2>1, <2>6, NothingHeld
  <2>8. Releasing'
    BY <2>2, <2>4, <2>7, ReleasingMore
  <2> QED BY <1>3, <2>5, <2>7, <2>8
<1> QED BY <1>4, <1>5

\* A group of captures begins.
LEMMA CaptureHolds ==
    ASSUME OneCall, EnoughGenerations, EnvInv, EnvInv', Holding, [ArenaNext]_arenaVars,
           NEW S \in SUBSET Sensor, CaptureGroup(S)
    PROVE  Publishing' /\ Raws' /\ FramesHeld' /\ Releasing' /\ Responding'
<1>1. /\ busy # None /\ UNCHANGED <<arenaVars, alive, recovering, requiresReset, call, incarnation, queue, latest>>
      /\ \A h \in Handler : handler'[h] = handler[h] \/ handler'[h] = [Resting EXCEPT !.stage = "gpu"]
      /\ \A h \in Handler : handler[h].stage = "idle"
  BY QuietIsIdle DEF CaptureGroup, workerVars, Holding
<1>2. 0 <= Len(tail) /\ <<>> \in Seq(Request) /\ Moved(0, <<>>) /\ \A more : ~Grow(more)
  BY <1>1, SameTail, NoGrow DEF arenaVars
<1>3. \A c \in Call : call[c].stage = "working"
  BY <1>1, AtWork
<1>4. \A i \in DOMAIN tail : ~Publishes(i)
  BY <1>1, <1>3, NothingPublished DEF Holding
<1>5. Publishing'
  BY <1>2, <1>4, PublishingRests DEF Holding
<1>6. Responding'
  BY <1>1, AtWork, RespondingAtWork DEF Holding, Responding, arenaVars
<1>7. \A h \in Handler : /\ handler'[h].raw = handler[h].raw /\ handler'[h].obs = handler[h].obs
                         /\ handler[h].raw = None
  BY <1>1 DEF Holding, Products, Resting
<1> QED BY <1>1, <1>2, <1>5, <1>6, <1>7, HeldRests

\* A raw product is to be published: nobody holds it yet.
LEMMA RenderedHolds ==
    ASSUME OneCall, EnoughGenerations, EnvInv, EnvInv', Holding, [ArenaNext]_arenaVars, NEW h \in Handler, Rendered(h)
    PROVE  Publishing' /\ Raws' /\ FramesHeld' /\ Releasing' /\ Responding'
<1>0. PICK r : r = Publish(h, RawLen[h[2]], transportSequence + 1, FALSE, published + 1)
  OBVIOUS
<1>1. /\ handler[h].stage = "gpu" /\ UNCHANGED <<transportSequence, alive, recovering, requiresReset, call, incarnation, queue, latest>>
      /\ handler' = [handler EXCEPT ![h].stage = "raw", ![h].seq = transportSequence + 1]
      /\ Submit(<<r>>)
  BY <1>0 DEF Rendered, workerVars
<1>2. handler \in [Handler -> Handlers] /\ transportSequence \in Nat /\ published \in Nat
  BY TypesOf DEF EnvInv
<1>3. /\ r \in Request /\ r.op = "publish" /\ r.by = h /\ ~r.retained /\ r.gen = transportSequence + 1
  <2>1. transportSequence + 1 \in Nat /\ published + 1 \in Nat /\ h \in Caller /\ RawLen[h[2]] \in Nat \ {0}
    BY <1>2, HandlersAre, SensorsAre
  <2>2. r \in Request
    BY <1>0, <2>1, PublishType
  <2> QED BY <1>0, <2>2 DEF Publish
<1>4. <<r>> \in Seq(Request) /\ DOMAIN <<r>> = {1} /\ <<r>>[1] = r
  BY <1>3
<1>5. 0 <= Len(tail) /\ Moved(0, <<r>>) /\ \A more : ~Grow(more)
  BY <1>1, <1>4, SubmitMoves, NoGrow DEF Submit
<1>6. busy # None
  BY <1>1 DEF Holding, Working
<1>7. /\ handler'[h].stage = "raw" /\ handler'[h].seq = transportSequence + 1
      /\ handler'[h].raw = handler[h].raw /\ handler'[h].obs = handler[h].obs /\ handler[h].raw = None
      /\ \A g \in Handler : g # h => handler'[g] = handler[g]
  BY <1>1, <1>2 DEF Handlers, Holding, Products
<1>8. Waits(r)'
  BY <1>3, <1>7 DEF Waits
<1>9. Publishing'
  <2>1. \A i \in DOMAIN tail : Publishes(i) =>
          tail[i].by \in Handler /\ tail[i].by # h /\ handler'[tail[i].by] = handler[tail[i].by]
    BY <1>1, <1>6, <1>7, AtWork
  <2> QED BY <1>3, <1>5, <1>8, <2>1, PublishingOne DEF Holding
<1>10. Responding'
  BY <1>1, <1>6, AtWork, RespondingAtWork DEF Holding, Responding, Submit
<1>11. \A i \in DOMAIN <<r>> : <<r>>[i].op # "release"
  BY <1>3, <1>4
<1> QED BY <1>1, <1>4, <1>5, <1>7, <1>9, <1>10, <1>11, HeldKept

\* The publication that a handler has waited for is over.
LEMMA HandlerAnswered ==
    ASSUME OneCall, EnoughGenerations, EnvInv, Holding, NEW h \in Handler,
           handler[h].stage \in {"raw", "obs"}, Running("publish"), Head(tail).by = h
    PROVE  /\ busy # None /\ h[1] = incarnation /\ alive
           /\ Head(tail).retained = (handler[h].stage = "obs") /\ Head(tail).gen = handler[h].seq
           /\ tail # <<>>
           /\ stage \in {"waiting", "payload"} => \A more : ~Grow(more)
           /\ \A i \in DOMAIN tail : i > 1 /\ Publishes(i) =>
                tail[i].by \in Handler /\ tail[i].by # h /\ tail[i].by \notin Call
<1>1. busy # None /\ h[1] = incarnation /\ alive
  BY DEF Holding, Working
<1>2. ArenaTypeOK
  BY DEF EnvInv, TypeOK
<1>3. 1 \in DOMAIN tail /\ Publishes(1) /\ tail[1] = Head(tail) /\ Head(tail) \in PublishRequest
  BY <1>2, RequestAt, RunningRequest DEF Publishes
<1>4. Head(tail).gen = handler[h].seq
  BY <1>1, <1>3, HandlersPublish DEF EnvInv, Holding
<1>5. handler[h].stage = IF Head(tail).retained THEN "obs" ELSE "raw"
  BY <1>1, <1>3, AtWork
<1>6. Head(tail).retained \in BOOLEAN
  BY <1>3 DEF PublishRequest
<1>7. Head(tail).retained = (handler[h].stage = "obs")
  BY <1>5, <1>6
<1>8. ASSUME NEW i \in DOMAIN tail, i > 1, Publishes(i)
      PROVE  tail[i].by \in Handler /\ tail[i].by # h /\ tail[i].by \notin Call
  <2>1. tail[i].by \in Handler /\ tail[i].by \notin Call
    BY <1>1, <1>8, AtWork
  <2>2. tail[i].by # tail[1].by
    BY <1>3, <1>8 DEF Holding, Publishing
  <2> QED BY <1>3, <2>1, <2>2
<1>9. stage \in {"waiting", "payload"} => \A more : ~Grow(more)
  BY NoGrow
<1> QED BY <1>1, <1>4, <1>7, <1>8, <1>9 DEF Running

\* A raw product is held from its header on, and its observation is asked for.
LEMMA RawHolds ==
    ASSUME OneCall, EnoughGenerations, EnvInv, EnvInv', Holding, [ArenaNext]_arenaVars, NEW h \in Handler, RawPublished(h)
    PROVE  Publishing' /\ Raws' /\ FramesHeld' /\ Releasing' /\ Responding'
<1>0. PICK r, ref : /\ r = Publish(h, ObsLen[h[2]], handler[h].seq, TRUE, published + 1)
                    /\ ref = ReferenceTo(Head(tail), placed)
  OBVIOUS
<1>1. /\ handler[h].stage = "raw" /\ Running("publish") /\ Head(tail).by = h
      /\ UNCHANGED <<transportSequence, alive, recovering, requiresReset, call, incarnation, queue, latest>>
      /\ handler' = [handler EXCEPT ![h].stage = "obs", ![h].raw = ref]
      /\ WriteHeader(<<r>>) /\ stage = "payload" /\ tail # <<>> /\ Over(<<r>>) /\ closed' = closed
  BY <1>0 DEF RawPublished, workerVars, WriteHeader, Running
<1>2. handler \in [Handler -> Handlers] /\ handler[h].seq \in Nat /\ published \in Nat
  BY TypesOf DEF EnvInv, Handlers, Sequence
<1>3. /\ r \in Request /\ r.op = "publish" /\ r.by = h /\ r.retained = TRUE /\ r.gen = handler[h].seq
  <2>1. published + 1 \in Nat /\ h \in Caller /\ ObsLen[h[2]] \in Nat \ {0}
    BY <1>2, HandlersAre, SensorsAre
  <2>2. r \in Request
    BY <1>0, <1>2, <2>1, PublishType
  <2> QED BY <1>0, <2>2 DEF Publish
<1>4. <<r>> \in Seq(Request) /\ DOMAIN <<r>> = {1} /\ <<r>>[1] = r
  BY <1>3
<1>5. 1 <= Len(tail) /\ Moved(1, <<r>>)
  BY <1>1, <1>4, OverMoves
<1>6. /\ busy # None /\ Head(tail).retained = FALSE /\ Head(tail).gen = handler[h].seq
      /\ \A more : ~Grow(more)
      /\ \A i \in DOMAIN tail : i > 1 /\ Publishes(i) => tail[i].by \in Handler /\ tail[i].by # h
  BY <1>1, HandlerAnswered
<1>7. /\ handler'[h].stage = "obs" /\ handler'[h].seq = handler[h].seq /\ handler'[h].raw = ref
      /\ handler'[h].obs = handler[h].obs /\ handler[h].raw = None
      /\ \A g \in Handler : g # h => handler'[g] = handler[g]
  BY <1>1, <1>2 DEF Handlers, Holding, Products
<1>8. LiveAs(ref, FALSE)' /\ ref \in Ref /\ ref.off = placed /\ ref.gen = handler[h].seq
  BY <1>0, <1>1, <1>6, PublishedLive
<1>9. /\ \A q : \A kept \in BOOLEAN : LiveAs(q, kept) => q.off # placed
      /\ \A i \in DOMAIN tail : Releases(i) => tail[i].off # placed
  BY <1>1, FreshOff DEF Holding
<1>10. Publishing'
  <2>1. Waits(r)'
    BY <1>3, <1>7 DEF Waits
  <2>2. \A i \in DOMAIN tail : i > 1 /\ Publishes(i) =>
          tail[i].by \in Handler /\ tail[i].by # r.by /\ handler'[tail[i].by] = handler[tail[i].by]
    BY <1>3, <1>6, <1>7
  <2> QED BY <1>3, <1>5, <2>1, <2>2, PublishingOne DEF Holding
<1>11. FramesHeld' /\ \A s \in Sensor : \A i \in Places : Frame(s, i)' = Frame(s, i)
  BY <1>1, <1>6, <1>7, FramesKept
<1>12. Raws'
  <2>1. ASSUME NEW g \in Handler, g # h, handler'[g].raw # None, NEW q, q = handler[g].raw
        PROVE  LiveAs(q, FALSE)' /\ q.gen = handler[g].seq /\ q.off # ref.off
    <3>1. q # None /\ LiveAs(q, FALSE) /\ q.gen = handler[g].seq
      BY <1>7, <2>1 DEF Holding, Raws
    <3>2. LiveAs(q, FALSE)'
      BY <1>6, <2>1, <3>1, HeldStays DEF EnvInv
    <3> QED BY <1>8, <1>9, <3>1, <3>2
  <2>2. ASSUME NEW g \in Handler, handler'[g].raw # None, NEW q, q = handler'[g].raw
        PROVE  LiveAs(q, FALSE)' /\ q.gen = handler'[g].seq
    BY <1>7, <1>8, <2>1, <2>2
  <2>3. ASSUME NEW f \in Handler, NEW g \in Handler, handler'[f].raw # None, handler'[g].raw # None,
               handler'[f].raw.off = handler'[g].raw.off
        PROVE  f = g
    <3>0. PICK p, q : p = handler[f].raw /\ q = handler[g].raw
      OBVIOUS
    <3>1. CASE f = h /\ g # h
      BY <1>7, <2>1, <2>3, <3>0, <3>1
    <3>2. CASE f # h /\ g = h
      BY <1>7, <2>1, <2>3, <3>0, <3>2
    <3>3. CASE f # h /\ g # h
      BY <1>7, <2>3, <3>3 DEF Holding, Raws
    <3> QED BY <3>1, <3>2, <3>3
  <2>4. \A g \in Handler : handler'[g].raw # None => LiveAs(handler[g].raw, FALSE)' /\ handler'[g].raw.gen = handler'[g].seq
    BY <2>2 DEF LiveAs
  <2> QED BY <2>3, <2>4 DEF Raws
<1>13. Releasing'
  <2>1. ASSUME NEW q \in Held' PROVE q \in Held \/ \A i \in DOMAIN tail : Releases(i) => tail[i].off # q.off
    <3>1. q # None /\ (\/ \E g \in Handler : handler'[g].raw = q
                       \/ \E s \in Sensor : \E i \in Places : Frame(s, i) = q)
      BY <1>11, HeldIs
    <3>2. CASE q = ref
      BY <1>8, <1>9, <3>2
    <3>3. CASE q # ref
      <4>1. \/ \E g \in Handler : handler[g].raw = q
            \/ \E s \in Sensor : \E i \in Places : Frame(s, i) = q
        BY <1>7, <3>1, <3>3
      <4> QED BY <3>1, <4>1 DEF Held
    <3> QED BY <3>2, <3>3
  <2>2. \A i \in DOMAIN <<r>> : <<r>>[i].op # "release"
    BY <1>3, <1>4
  <2> QED BY <1>4, <1>5, <1>6, <2>1, <2>2, ReleasingStays
<1>14. Responding'
  BY <1>1, <1>6, AtWork, RespondingAtWork DEF Holding, Responding
<1> QED BY <1>10, <1>11, <1>12, <1>13, <1>14

\* ReleasingStays where nothing is asked for.
LEMMA ReleasingRests ==
    ASSUME EnvInv, EnvInv', Holding, [ArenaNext]_arenaVars, \A more : ~Grow(more),
           NEW d \in {0, 1}, d <= Len(tail), Moved(d, <<>>),
           \A ref : ref \in Held' => ref \in Held \/ \A i \in DOMAIN tail : Releases(i) => tail[i].off # ref.off
    PROVE  Releasing'
<1> DEFINE more == <<>>
<1>1. more \in Seq(Request) /\ (\A i \in DOMAIN more : more[i].op # "release") /\ Moved(d, more)
  BY NothingAsked
<1> HIDE DEF more
<1> QED BY <1>1, ReleasingStays

\* An observation is held from its header on.
LEMMA ObservationHolds ==
    ASSUME OneCall, EnoughGenerations, EnvInv, EnvInv', Holding, [ArenaNext]_arenaVars, NEW h \in Handler,
           ObservationPublished(h)
    PROVE  Publishing' /\ Raws' /\ FramesHeld' /\ Releasing' /\ Responding'
<1>0. PICK ref, t, last : ref = ReferenceTo(Head(tail), placed) /\ t = h[2] /\ last = MaxQueueFrames + 1
  OBVIOUS
<1>1. /\ handler[h].stage = "obs" /\ Running("publish") /\ Head(tail).by = h
      /\ UNCHANGED <<alive, recovering, requiresReset, call, incarnation, queue, latest>>
      /\ WriteHeader(<<>>) /\ stage = "payload" /\ tail # <<>> /\ Over(<<>>) /\ closed' = closed
  BY DEF ObservationPublished, workerVars, WriteHeader, Running
<1>2. handler \in [Handler -> Handlers]
  BY TypesOf DEF EnvInv
<1>3. <<>> \in Seq(Request) /\ 1 <= Len(tail) /\ Moved(1, <<>>)
  BY <1>1, NothingAsked, OverMoves
<1>4. /\ busy # None /\ h[1] = incarnation /\ alive /\ Head(tail).retained = TRUE
      /\ Head(tail).gen = handler[h].seq /\ \A more : ~Grow(more)
      /\ \A i \in DOMAIN tail : i > 1 /\ Publishes(i) => tail[i].by \in Handler /\ tail[i].by # h
  BY <1>1, HandlerAnswered
<1>5. handler' = [handler EXCEPT ![h] = [handler[h] EXCEPT !.stage = "done", !.obs = ref]]
  BY <1>0, <1>4 DEF ObservationPublished
<1>6. /\ handler'[h].stage = "done" /\ handler'[h].seq = handler[h].seq /\ handler'[h].raw = handler[h].raw
      /\ handler'[h].obs = ref
      /\ \A g \in Handler : g # h => handler'[g] = handler[g]
  BY <1>2, <1>5 DEF Handlers
<1>7. LiveAs(ref, TRUE)' /\ ref \in Ref /\ ref.off = placed
  BY <1>0, <1>1, <1>4, PublishedLive
<1>8. /\ \A q : \A kept \in BOOLEAN : LiveAs(q, kept) => q.off # placed
      /\ \A i \in DOMAIN tail : Releases(i) => tail[i].off # placed
  BY <1>1, FreshOff DEF Holding
<1>9. h = <<incarnation, t>> /\ t \in Sensor
  BY <1>0, <1>4 DEF Handler
<1>10. /\ \A s \in Sensor : \A i \in Places : ~(s = t /\ i = last) => Frame(s, i)' = Frame(s, i)
       /\ Frame(t, last)' = ref
  <2>1. last # 0 /\ last \in Nat
    BY <1>0, EnvironmentAssumption
  <2>2. \A s \in Sensor : <<incarnation, s>> \in Handler
    BY TypesOf DEF EnvInv, Handler
  <2>3. \A s \in Sensor : s # t => handler'[<<incarnation, s>>].obs = handler[<<incarnation, s>>].obs
    BY <1>6, <1>9, <2>2
  <2>4. handler'[<<incarnation, t>>].obs = ref
    BY <1>6, <1>9
  <2> QED BY <1>0, <1>1, <2>1, <2>3, <2>4 DEF Frame
<1>11. FramesHeld'
  <2>1. ASSUME NEW s \in Sensor, NEW i \in Places, ~(s = t /\ i = last), NEW q, q = Frame(s, i), Frame(s, i)' # None
        PROVE  Frame(s, i)' = q /\ LiveAs(q, TRUE)' /\ q.off # ref.off /\ q # None
    <3>1. q # None /\ LiveAs(q, TRUE) /\ Frame(s, i)' = q
      BY <1>10, <2>1 DEF Holding, FramesHeld
    <3>2. LiveAs(q, TRUE)'
      BY <1>4, <2>1, <3>1, HeldStays DEF EnvInv
    <3> QED BY <1>7, <1>8, <3>1, <3>2
  <2>2. ASSUME NEW s \in Sensor, NEW i \in Places, Frame(s, i)' # None
        PROVE  LiveAs(Frame(s, i), TRUE)'
    <3>1. ASSUME NEW p, p = Frame(s, i)' PROVE LiveAs(p, TRUE)'
      BY <1>7, <1>10, <2>1, <2>2, <3>1
    <3> QED BY <3>1 DEF LiveAs
  <2>3. ASSUME NEW s \in Sensor, NEW u \in Sensor, NEW i \in Places, NEW j \in Places,
               Frame(s, i)' # None, Frame(u, j)' # None, Frame(s, i)'.off = Frame(u, j)'.off
        PROVE  s = u /\ i = j
    <3>0. PICK p, q : p = Frame(s, i) /\ q = Frame(u, j)
      OBVIOUS
    <3>1. CASE ~(s = t /\ i = last) /\ ~(u = t /\ j = last)
      <4>1. p # None /\ q # None /\ Frame(s, i)' = p /\ Frame(u, j)' = q
        BY <2>1, <2>3, <3>0, <3>1
      <4> QED BY <2>3, <3>0, <4>1 DEF Holding, FramesHeld
    <3>2. CASE ~(s = t /\ i = last) /\ u = t /\ j = last
      <4>1. Frame(s, i)' = p /\ p.off # ref.off
        BY <2>1, <2>3, <3>0, <3>2
      <4> QED BY <1>10, <2>3, <3>2, <4>1
    <3>3. CASE s = t /\ i = last /\ ~(u = t /\ j = last)
      <4>1. Frame(u, j)' = q /\ q.off # ref.off
        BY <2>1, <2>3, <3>0, <3>3
      <4> QED BY <1>10, <2>3, <3>3, <4>1
    <3> QED BY <3>1, <3>2, <3>3
  <2>4. \A s \in Sensor : \A i \in Places : Frame(s, i)' # None => LiveAs(Frame(s, i), TRUE)'
    BY <2>2
  <2> QED BY <2>3, <2>4 DEF FramesHeld, Frame, Places, LiveAs
<1>12. Raws'
  <2>1. \A g \in Handler : handler'[g].raw # None =>
          handler'[g].raw = handler[g].raw /\ handler'[g].seq = handler[g].seq
    BY <1>6
  <2> QED BY <1>4, <2>1, RawsStay
<1>13. Releasing'
  <2>1. ASSUME NEW q \in Held' PROVE q \in Held \/ \A i \in DOMAIN tail : Releases(i) => tail[i].off # q.off
    <3>1. q # None /\ (\/ \E g \in Handler : handler'[g].raw = q
                       \/ \E s \in Sensor : \E i \in Places : Frame(s, i)' = q)
      BY HeldIs
    <3>2. CASE q = ref
      BY <1>7, <1>8, <3>2
    <3>3. CASE q # ref
      <4>1. \/ \E g \in Handler : handler[g].raw = q
            \/ \E s \in Sensor : \E i \in Places : Frame(s, i) = q
        BY <1>6, <1>10, <3>1, <3>3
      <4> QED BY <3>1, <4>1 DEF Held
    <3> QED BY <3>2, <3>3
  <2> QED BY <1>3, <1>4, <2>1, ReleasingRests
<1>14. Publishing'
  <2>1. \A i \in DOMAIN tail : i > 1 /\ Publishes(i) =>
          tail[i].by \in Handler /\ handler'[tail[i].by] = handler[tail[i].by]
    BY <1>4, <1>6
  <2> QED BY <1>3, <2>1, PublishingRests DEF Holding
<1>15. Responding'
  BY <1>1, <1>4, AtWork, RespondingAtWork DEF Holding, Responding
<1> QED BY <1>11, <1>12, <1>13, <1>14, <1>15

\* A capture fails: what it had published is given up.
LEMMA FailsHolds ==
    ASSUME OneCall, EnoughGenerations, EnvInv, EnvInv', Holding, [ArenaNext]_arenaVars, NEW h \in Handler, CaptureFails(h)
    PROVE  Publishing' /\ Raws' /\ FramesHeld' /\ Releasing' /\ Responding'
<1>0. PICK raw, more, W : /\ raw = handler[h].raw
                          /\ more = IF raw = None THEN <<>> ELSE <<Release(raw)>>
                          /\ W = IF raw = None THEN {} ELSE {raw}
  <2>1. PICK raw : raw = handler[h].raw
    OBVIOUS
  <2>2. PICK more : more = IF raw = None THEN <<>> ELSE <<Release(raw)>>
    OBVIOUS
  <2>3. PICK W : W = IF raw = None THEN {} ELSE {raw}
    OBVIOUS
  <2> QED BY <2>1, <2>2, <2>3
<1>1. /\ handler[h].stage \in {"raw", "obs"} /\ Running("publish") /\ Head(tail).by = h
      /\ UNCHANGED <<alive, recovering, requiresReset, call, incarnation, queue, latest>>
      /\ PublishFails(more) /\ stage \in {"waiting", "payload"} /\ tail # <<>> /\ Over(more) /\ closed' = closed
  BY <1>0 DEF CaptureFails, workerVars, PublishFails, Running
<1>2. handler \in [Handler -> Handlers] /\ raw \in RefOrNone /\ handler[h].obs = None
  BY <1>0, <1>1, TypesOf DEF EnvInv, Handlers, Holding, Products
<1>3. /\ busy # None /\ h[1] = incarnation /\ alive
      /\ \A q : ~Grow(q)
      /\ \A i \in DOMAIN tail : i > 1 /\ Publishes(i) => tail[i].by \in Handler /\ tail[i].by # h /\ tail[i].by \notin Call
  BY <1>1, HandlerAnswered
<1>4. /\ handler'[h].stage = "failed" /\ handler'[h].raw = None /\ handler'[h].obs = None
      /\ \A g \in Handler : g # h => handler'[g] = handler[g]
  BY <1>2, <1>3 DEF CaptureFails, Handlers, Resting
<1>5. GivesUp(more, W)
  <2>1. raw # None => raw \in Ref
    BY <1>2 DEF RefOrNone
  <2> QED BY <1>0, <2>1, GivesUpNothing, GivesUpOne
<1>6. more \in Seq(Request) /\ \A i \in DOMAIN more : more[i].op = "release"
  BY <1>5 DEF GivesUp
<1>7. 1 <= Len(tail) /\ Moved(1, more)
  BY <1>1, <1>6, OverMoves
<1>8. Publishing'
  <2>1. \A i \in DOMAIN tail : i > 1 /\ Publishes(i) =>
          tail[i].by \in Handler /\ handler'[tail[i].by] = handler[tail[i].by] /\ tail[i].by \notin Call
    BY <1>3, <1>4
  <2>2. \A i \in DOMAIN more : more[i].op # "publish"
    BY <1>6
  <2> QED BY <1>6, <1>7, <2>1, <2>2, PublishingStays DEF Holding
<1>9. FramesHeld' /\ \A s \in Sensor : \A i \in Places : Frame(s, i)' = Frame(s, i)
  <2>1. \A g \in Handler : handler'[g].obs = handler[g].obs
    BY <1>2, <1>4
  <2> QED BY <1>1, <1>3, <2>1, FramesKept
<1>10. Raws'
  <2>1. \A g \in Handler : handler'[g].raw # None =>
          handler'[g].raw = handler[g].raw /\ handler'[g].seq = handler[g].seq
    BY <1>4
  <2> QED BY <1>3, <2>1, RawsStay
<1>11. Releasing'
  <2>1. \A ref \in W : ref # None /\ (\/ \E g \in Handler : handler[g].raw = ref
                                      \/ \E s \in Sensor : \E i \in Places : Frame(s, i) = ref)
    BY <1>0
  <2>2. ASSUME NEW ref \in Held' PROVE ref \in Held /\ \A w \in W : w.off # ref.off
    <3>1. ref # None /\ (\/ \E g \in Handler : handler'[g].raw = ref
                         \/ \E s \in Sensor : \E i \in Places : Frame(s, i) = ref)
      BY <1>9, HeldIs
    <3>2. CASE \E s \in Sensor : \E i \in Places : Frame(s, i) = ref
      <4>1. ref \in Held
        BY <3>1, <3>2 DEF Held
      <4>2. raw # None => raw.off # ref.off
        BY <1>0, <3>1, <3>2, HeldApart
      <4> QED BY <1>0, <4>1, <4>2
    <3>3. CASE \E g \in Handler : handler'[g].raw = ref
      <4>1. PICK g \in Handler : g # h /\ handler[g].raw = ref
        BY <1>4, <3>1, <3>3
      <4>2. raw # None => raw.off # ref.off
        BY <1>0, <3>1, <4>1 DEF Holding, Raws
      <4>3. ref \in Held
        BY <3>1, <4>1 DEF Held
      <4> QED BY <1>0, <4>2, <4>3
    <3> QED BY <3>1, <3>2, <3>3
  <2> QED BY <1>3, <1>5, <1>7, <2>1, <2>2, ReleasingMore
<1>12. Responding'
  BY <1>1, <1>3, AtWork, RespondingAtWork DEF Holding, Responding
<1> QED BY <1>8, <1>9, <1>10, <1>11, <1>12

\* Every frame has its place before the delivery, one further in the queue.
LEMMA DeliverMoves ==
    ASSUME EnvInv, Holding, NEW s \in Sensor, Deliver(s)
    PROVE  \E m : \A t \in Sensor : \A i \in Places : Frame(t, i)' # None =>
             /\ m[<<t, i>>] \in Places /\ Frame(t, i)' = Frame(t, m[<<t, i>>])
             /\ ~(t = s /\ m[<<t, i>>] = 0)
             /\ m[<<t, i>>] = IF t = s THEN i + 1 ELSE i
<1>0. PICK m : m = [p \in Sensor \X Places |-> IF p[1] = s THEN p[2] + 1 ELSE p[2]]
  OBVIOUS
<1> SUFFICES ASSUME NEW t \in Sensor, NEW i \in Places, Frame(t, i)' # None
             PROVE  /\ m[<<t, i>>] \in Places /\ Frame(t, i)' = Frame(t, m[<<t, i>>])
                    /\ ~(t = s /\ m[<<t, i>>] = 0)
                    /\ m[<<t, i>>] = IF t = s THEN i + 1 ELSE i
  OBVIOUS
<1>7. m[<<t, i>>] = IF t = s THEN i + 1 ELSE i
  BY <1>0
<1>1. /\ latest \in [Sensor -> RefOrNone] /\ queue \in [Sensor -> Seq(Ref)] /\ <<incarnation, t>> \in Handler
      /\ Len(queue[s]) <= MaxQueueFrames /\ MaxQueueFrames \in Nat /\ Len(queue[s]) \in Nat
  <2>1. /\ latest \in [Sensor -> RefOrNone] /\ queue \in [Sensor -> Seq(Ref)] /\ <<incarnation, t>> \in Handler
        /\ Len(queue[s]) <= MaxQueueFrames
    BY TypesOf DEF EnvInv, TypeOK
  <2> QED BY <2>1, EnvironmentAssumption
<1>2. /\ queue[s] # <<>> /\ Quiet /\ incarnation' = incarnation /\ handler' = handler
      /\ latest' = [latest EXCEPT ![s] = Head(queue[s])] /\ queue' = [queue EXCEPT ![s] = Tail(queue[s])]
  BY DEF Deliver
<1>3. handler'[<<incarnation, t>>].obs = None
  BY <1>1, <1>2, QuietIsIdle DEF Holding, Products
<1>4. i \in Nat /\ i <= MaxQueueFrames /\ i + 1 \in Places /\ i # MaxQueueFrames + 1
  <2>1. i # MaxQueueFrames + 1
    BY <1>1, <1>2, <1>3 DEF Frame
  <2> QED BY <1>1, <2>1 DEF Places
<1>5. CASE t # s
  <2>1. latest'[t] = latest[t] /\ queue'[t] = queue[t]
    BY <1>1, <1>2, <1>5
  <2>2. handler' = handler /\ incarnation' = incarnation
    BY <1>2
  <2>3. Frame(t, i)' = Frame(t, i)
    BY <2>1, <2>2 DEF Frame
  <2> QED BY <1>4, <1>5, <1>7, <2>3
<1>6. CASE t = s
  <2>1. /\ Head(queue[s]) = queue[s][1] /\ Len(Tail(queue[s])) = Len(queue[s]) - 1
        /\ \A k \in 1..(Len(queue[s]) - 1) : Tail(queue[s])[k] = queue[s][k + 1]
        /\ 1 <= Len(queue[s])
    BY <1>1, <1>2, HeadTailProperties, EmptySeq
  <2>2. latest'[s] = queue[s][1] /\ queue'[s] = Tail(queue[s])
    BY <1>1, <1>2, <2>1
  <2>3. CASE i = 0
    <3>1. Frame(s, i)' = queue[s][1]
      BY <2>2, <2>3 DEF Frame
    <3>2. Frame(s, 1) = queue[s][1]
      BY <1>1, <2>1 DEF Frame
    <3> QED BY <1>4, <1>6, <1>7, <2>3, <3>1, <3>2
  <2>4. CASE i # 0
    <3>1. i <= Len(queue'[s]) /\ Frame(s, i)' = queue'[s][i]
      BY <1>2, <1>4, <1>6, <2>4 DEF Frame
    <3>2. i \in 1..(Len(queue[s]) - 1)
      BY <1>1, <1>4, <2>1, <2>2, <2>4, <3>1
    <3>3. queue'[s][i] = queue[s][i + 1]
      BY <2>1, <2>2, <3>2
    <3>4. Frame(s, i + 1) = queue[s][i + 1]
      BY <1>1, <3>2 DEF Frame
    <3> QED BY <1>4, <1>6, <1>7, <3>1, <3>3, <3>4
  <2> QED BY <2>3, <2>4
<1> QED BY <1>5, <1>6

\* A frame replaces the one delivered before it, which is given up.
LEMMA DeliverHolds ==
    ASSUME OneCall, EnoughGenerations, EnvInv, EnvInv', Holding, [ArenaNext]_arenaVars, NEW s \in Sensor, Deliver(s)
    PROVE  Publishing' /\ Raws' /\ FramesHeld' /\ Releasing' /\ Responding'
<1>0. PICK more, W : /\ more = ReleaseAll(latest, {s})
                     /\ W = {latest[t] : t \in {u \in Sensor : u \in {s} /\ latest[u] # None}}
  OBVIOUS
<1>1. /\ busy # None /\ Quiet /\ Submit(more) /\ closed' = closed /\ stage' = stage
      /\ UNCHANGED <<alive, recovering, requiresReset, call, incarnation, handler>>
  BY <1>0 DEF Deliver, Submit
<1>2. GivesUp(more, W)
  BY <1>0, DeliverGivesUp
<1>3. more \in Seq(Request) /\ \A i \in DOMAIN more : more[i].op = "release"
  BY <1>2 DEF GivesUp
<1>4. 0 <= Len(tail) /\ Moved(0, more) /\ \A q : ~Grow(q)
  BY <1>1, <1>3, SubmitMoves, NoGrow
<1>5. /\ \A h \in Handler : handler[h].stage = "idle"
      /\ \A h \in Handler : handler'[h].raw = None
      /\ \A c \in Call : call[c].stage = "working"
  BY <1>1, QuietIsIdle, AtWork DEF Holding, Products
<1>6. \A i \in DOMAIN tail : ~Publishes(i)
  BY <1>5, NothingPublished DEF Holding
<1>7. Publishing'
  BY <1>3, <1>4, <1>6, PublishingStays DEF Holding
<1>8. PICK m : \A t \in Sensor : \A i \in Places : Frame(t, i)' # None =>
             /\ m[<<t, i>>] \in Places /\ Frame(t, i)' = Frame(t, m[<<t, i>>])
             /\ ~(t = s /\ m[<<t, i>>] = 0)
             /\ m[<<t, i>>] = IF t = s THEN i + 1 ELSE i
  BY DeliverMoves
<1>9. FramesHeld'
  <2>1. \A t \in Sensor : \A i, j \in Places :
          Frame(t, i)' # None /\ Frame(t, j)' # None /\ m[<<t, i>>] = m[<<t, j>>] => i = j
    <3>1. \A i \in Places : i \in Nat
      BY EnvironmentAssumption DEF Places
    <3> QED BY <1>8, <3>1
  <2>2. \A t \in Sensor : \A i \in Places : Frame(t, i)' # None =>
          m[<<t, i>>] \in Places /\ Frame(t, i)' = Frame(t, m[<<t, i>>])
    BY <1>8
  <2> QED BY <1>4, <2>1, <2>2, FramesMove
<1>10. Raws'
  BY <1>4, <1>5, RawsStay
<1>11. Releasing'
  <2>1. 0 \in Places /\ Frame(s, 0) = latest[s]
    BY FrameAt
  <2>2. \A ref \in W : ref # None /\ ref = Frame(s, 0)
    BY <1>0, <2>1
  <2>3. ASSUME NEW ref \in Held' PROVE ref \in Held /\ \A w \in W : w.off # ref.off
    <3>1. ref # None /\ \E t \in Sensor : \E i \in Places : Frame(t, i)' = ref
      BY <1>5, HeldIs
    <3>2. PICK t \in Sensor : \E i \in Places : Frame(t, i)' = ref
      BY <3>1
    <3>3. PICK i \in Places : Frame(t, i)' = ref
      BY <3>2
    <3>4. PICK j \in Places : Frame(t, j) = ref /\ ~(t = s /\ j = 0)
      BY <1>8, <3>1, <3>3
    <3>5. ref \in Held
      BY <3>1, <3>4 DEF Held
    <3>6. \A w \in W : w.off # ref.off
      BY <2>1, <2>2, <3>1, <3>4 DEF Holding, FramesHeld
    <3> QED BY <3>5, <3>6
  <2>4. \A ref \in W : ref # None /\ (\/ \E h \in Handler : handler[h].raw = ref
                                      \/ \E t \in Sensor : \E i \in Places : Frame(t, i) = ref)
    BY <2>1, <2>2
  <2> QED BY <1>2, <1>4, <2>3, <2>4, ReleasingMore
<1>12. Responding'
  BY <1>1, AtWork, RespondingAtWork DEF Holding, Responding
<1> QED BY <1>7, <1>9, <1>10, <1>11, <1>12

\* Every frame keeps its place, or comes to the end of its sensor's queue.
LEMMA GroupMoves ==
    ASSUME EnvInv, Holding, ProcessGroup
    PROVE  LET full == \E s \in Sensor : s \in Mine /\ Len(queue[s]) >= MaxQueueFrames
           IN  \E m : \A t \in Sensor : \A i \in Places : Frame(t, i)' # None =>
                 /\ i \in Nat /\ i # MaxQueueFrames + 1
                 /\ m[<<t, i>>] \in Places /\ Frame(t, i)' = Frame(t, m[<<t, i>>])
                 /\ \/ m[<<t, i>>] = i
                    \/ m[<<t, i>>] = MaxQueueFrames + 1 /\ i = Len(queue[t]) + 1 /\ ~full
<1>0. PICK full \in BOOLEAN : full = \E s \in Sensor : s \in Mine /\ Len(queue[s]) >= MaxQueueFrames
  OBVIOUS
<1>1. PICK m : m = [p \in Sensor \X Places |->
                      IF p[1] \in Mine /\ ~full /\ p[2] = Len(queue[p[1]]) + 1 THEN MaxQueueFrames + 1 ELSE p[2]]
  OBVIOUS
<1>2. ASSUME NEW t \in Sensor, NEW i \in Places, Frame(t, i)' # None
      PROVE  /\ i \in Nat /\ i # MaxQueueFrames + 1
             /\ m[<<t, i>>] \in Places /\ Frame(t, i)' = Frame(t, m[<<t, i>>])
             /\ \/ m[<<t, i>>] = i
                \/ m[<<t, i>>] = MaxQueueFrames + 1 /\ i = Len(queue[t]) + 1 /\ ~full
  <2>1. /\ latest \in [Sensor -> RefOrNone] /\ queue \in [Sensor -> Seq(Ref)] /\ <<incarnation, t>> \in Handler
        /\ Len(queue[t]) <= MaxQueueFrames
    BY TypesOf DEF EnvInv, TypeOK
  <2>2. MaxQueueFrames \in Nat /\ Len(queue[t]) \in Nat
    BY <2>1, EnvironmentAssumption
  <2>3. /\ incarnation' = incarnation /\ latest' = latest
        /\ handler' = [h \in Handler |-> IF h[1] = incarnation THEN Resting ELSE handler[h]]
        /\ queue' = [s \in Sensor |-> IF s \in Mine /\ ~full THEN Append(queue[s], handler[<<incarnation, s>>].obs)
                                      ELSE queue[s]]
    BY <1>0 DEF ProcessGroup, Mine
  <2>4. handler'[<<incarnation, t>>] = Resting
    BY <2>1, <2>3
  <2>5. handler'[<<incarnation, t>>].obs = None
    BY <2>4 DEF Resting
  <2>6. i # MaxQueueFrames + 1
    BY <1>2, <2>2, <2>3, <2>5 DEF Frame
  <2>7. i \in Nat /\ i <= MaxQueueFrames /\ MaxQueueFrames + 1 \in Places
    BY <2>2, <2>6 DEF Places
  <2>8. CASE t \in Mine /\ ~full /\ i = Len(queue[t]) + 1
    <3>1. m[<<t, i>>] = MaxQueueFrames + 1
      BY <1>1, <2>8
    <3>2. queue'[t] = Append(queue[t], handler[<<incarnation, t>>].obs)
      BY <2>3, <2>8
    <3>3. queue'[t][i] = handler[<<incarnation, t>>].obs /\ i <= Len(queue'[t])
      BY <2>1, <2>2, <2>8, <3>2, AppendProperties
    <3>4. Frame(t, i)' = handler[<<incarnation, t>>].obs
      BY <2>2, <2>6, <2>8, <3>3 DEF Frame
    <3>5. Frame(t, MaxQueueFrames + 1) = handler[<<incarnation, t>>].obs
      BY <2>2 DEF Frame
    <3> QED BY <2>6, <2>7, <2>8, <3>1, <3>4, <3>5
  <2>9. CASE ~(t \in Mine /\ ~full /\ i = Len(queue[t]) + 1)
    <3>1. m[<<t, i>>] = i
      BY <1>1, <2>9
    <3>2. Frame(t, i)' = Frame(t, i)
      <4>1. CASE i = 0
        BY <2>3, <4>1 DEF Frame
      <4>2. CASE i # 0 /\ t \in Mine /\ ~full
        <5>1. queue'[t] = Append(queue[t], handler[<<incarnation, t>>].obs)
          BY <2>3, <4>2
        <5>2. Frame(t, i)' = queue'[t][i] /\ i <= Len(queue'[t])
          BY <1>2, <2>6, <4>2 DEF Frame
        <5>3. /\ Len(Append(queue[t], handler[<<incarnation, t>>].obs)) = Len(queue[t]) + 1
              /\ \A k \in 1..Len(queue[t]) : Append(queue[t], handler[<<incarnation, t>>].obs)[k] = queue[t][k]
          BY <2>1, AppendProperties
        <5>4. i \in 1..Len(queue[t])
          BY <2>2, <2>7, <2>9, <4>2, <5>1, <5>2, <5>3
        <5>5. queue'[t][i] = queue[t][i]
          BY <5>1, <5>3, <5>4
        <5>6. Frame(t, i) = queue[t][i]
          BY <2>2, <2>6, <4>2, <5>4 DEF Frame
        <5> QED BY <5>2, <5>5, <5>6
      <4>3. CASE i # 0 /\ ~(t \in Mine /\ ~full)
        <5>1. queue'[t] = queue[t]
          BY <2>3, <4>3
        <5> QED BY <2>6, <4>3, <5>1 DEF Frame
      <4> QED BY <4>1, <4>2, <4>3
    <3> QED BY <2>6, <2>7, <3>1, <3>2
  <2> QED BY <2>8, <2>9
<1> QED BY <1>0, <1>2

\* The raw products of a group are given up, and its observations if there is
\* no room for them.
LEMMA GroupHolds ==
    ASSUME OneCall, EnoughGenerations, EnvInv, EnvInv', Holding, [ArenaNext]_arenaVars, ProcessGroup
    PROVE  Publishing' /\ Raws' /\ FramesHeld' /\ Releasing' /\ Responding'
<1>0. PICK full \in BOOLEAN : full = \E s \in Sensor : s \in Mine /\ Len(queue[s]) >= MaxQueueFrames
  OBVIOUS
<1>1. PICK more, V, U : /\ Submit(more) /\ GivesUp(more, V \cup U)
                        /\ \A ref \in V : ref # None /\ \E h \in Handler : handler[h].raw = ref
                        /\ \A ref \in U : ref # None /\ full /\ \E s \in Sensor : Frame(s, MaxQueueFrames + 1) = ref
  <2> DEFINE raws == [s \in Sensor |-> handler[<<incarnation, s>>].raw]
             obs == [s \in Sensor |-> handler[<<incarnation, s>>].obs]
             more == ReleaseAll(raws, Mine) \o IF full THEN ReleaseAll(obs, Mine) ELSE <<>>
  <2>0. full = \E s \in Mine : Len(queue[s]) >= MaxQueueFrames
    BY <1>0 DEF Mine
  <2>1. Submit(more)
    <3>1. CASE full
      <4>1. \E s \in Mine : Len(queue[s]) >= MaxQueueFrames
        BY <2>0, <3>1
      <4> QED BY <3>1, <4>1 DEF ProcessGroup
    <3>2. CASE ~full
      <4>1. ~\E s \in Mine : Len(queue[s]) >= MaxQueueFrames
        BY <2>0, <3>2
      <4> QED BY <3>2, <4>1 DEF ProcessGroup
    <3> QED BY <3>1, <3>2
  <2> HIDE DEF more
  <2>2. \E V, U : /\ GivesUp(more, V \cup U)
                  /\ \A ref \in V : ref # None /\ \E h \in Handler : handler[h].raw = ref
                  /\ \A ref \in U : ref # None /\ full /\ \E s \in Sensor : Frame(s, MaxQueueFrames + 1) = ref
    BY GroupGivesUp DEF more
  <2> QED BY <2>1, <2>2
<1>2. /\ busy # None /\ \A s \in Mine : handler[<<incarnation, s>>].stage = "done"
      /\ UNCHANGED <<alive, recovering, requiresReset, call, incarnation, latest>>
      /\ handler' = [h \in Handler |-> IF h[1] = incarnation THEN Resting ELSE handler[h]]
  BY DEF ProcessGroup
<1>3. closed' = closed /\ stage' = stage
  BY <1>1 DEF Submit
<1>4. more \in Seq(Request) /\ \A i \in DOMAIN more : more[i].op = "release"
  BY <1>1 DEF GivesUp
<1>5. 0 <= Len(tail) /\ Moved(0, more) /\ \A q : ~Grow(q)
  BY <1>1, <1>3, <1>4, SubmitMoves, NoGrow
<1>6. /\ \A h \in Handler : handler[h].stage \in {"idle", "done"}
      /\ \A h \in Handler : handler'[h].raw = None
      /\ \A c \in Call : call[c].stage = "working"
  <2>1. \A h \in Handler : handler[h].stage # "idle" => h[1] = incarnation
    BY DEF Holding, Working
  <2>2. \A h \in Handler : h[1] = incarnation => h[2] \in Sensor /\ h = <<incarnation, h[2]>>
    BY DEF Handler
  <2>3. \A h \in Handler : handler[h].stage # "idle" => handler[h].stage = "done"
    BY <1>2, <2>1, <2>2 DEF Mine
  <2>4. \A h \in Handler : h[1] # incarnation => handler[h].raw = None
    BY <2>1 DEF Holding, Products
  <2>5. \A h \in Handler : handler'[h].raw = None
    BY <1>2, <2>4 DEF Resting
  <2> QED BY <1>2, <2>3, <2>5, AtWork
<1>7. \A i \in DOMAIN tail : ~Publishes(i)
  BY <1>6, NothingPublished DEF Holding
<1>8. Publishing'
  BY <1>4, <1>5, <1>7, PublishingStays DEF Holding
<1>9. PICK m : \A t \in Sensor : \A i \in Places : Frame(t, i)' # None =>
                 /\ i \in Nat /\ i # MaxQueueFrames + 1
                 /\ m[<<t, i>>] \in Places /\ Frame(t, i)' = Frame(t, m[<<t, i>>])
                 /\ \/ m[<<t, i>>] = i
                    \/ m[<<t, i>>] = MaxQueueFrames + 1 /\ i = Len(queue[t]) + 1 /\ ~full
  BY <1>0, GroupMoves
<1>10. FramesHeld'
  <2>1. \A t \in Sensor : \A i, j \in Places :
          Frame(t, i)' # None /\ Frame(t, j)' # None /\ m[<<t, i>>] = m[<<t, j>>] => i = j
    BY <1>9
  <2>2. \A t \in Sensor : \A i \in Places : Frame(t, i)' # None =>
          m[<<t, i>>] \in Places /\ Frame(t, i)' = Frame(t, m[<<t, i>>])
    BY <1>9
  <2> QED BY <1>5, <2>1, <2>2, FramesMove
<1>11. Raws'
  BY <1>5, <1>6, RawsStay
<1>12. Releasing'
  <2>0. PICK last \in Places : last = MaxQueueFrames + 1
    BY EnvironmentAssumption DEF Places
  <2>1. ASSUME NEW ref \in Held' PROVE ref \in Held /\ \A w \in V \cup U : w.off # ref.off
    <3>1. ref # None /\ \E t \in Sensor : \E i \in Places : Frame(t, i)' = ref
      BY <1>6, HeldIs
    <3>2. PICK t \in Sensor : \E i \in Places : Frame(t, i)' = ref
      BY <3>1
    <3>3. PICK i \in Places : Frame(t, i)' = ref
      BY <3>2
    <3>4. PICK j \in Places : Frame(t, j) = ref /\ (j # last \/ ~full)
      BY <1>9, <2>0, <3>1, <3>3
    <3>5. ref \in Held
      BY <3>1, <3>4 DEF Held
    <3>6. \A w \in V : w.off # ref.off
      BY <1>1, <3>1, <3>4, HeldApart
    <3>7. ASSUME NEW w \in U PROVE w.off # ref.off
      <4>1. PICK s \in Sensor : Frame(s, last) = w
        BY <1>1, <2>0
      <4>2. w # None /\ j # last
        BY <1>1, <3>4
      <4> QED BY <3>1, <3>4, <4>1, <4>2 DEF Holding, FramesHeld
    <3> QED BY <3>5, <3>6, <3>7
  <2>2. \A ref \in V \cup U : ref # None /\ (\/ \E h \in Handler : handler[h].raw = ref
                                             \/ \E s \in Sensor : \E i \in Places : Frame(s, i) = ref)
    BY <1>1, <2>0
  <2> QED BY <1>1, <1>5, <2>1, <2>2, ReleasingMore
<1>13. Responding'
  BY <1>2, <1>3, AtWork, RespondingAtWork DEF Holding, Responding
<1> QED BY <1>8, <1>10, <1>11, <1>12, <1>13

\* The worker has answered; what it has not captured is published.
LEMMA AnswerHolds ==
    ASSUME OneCall, EnoughGenerations, EnvInv, EnvInv', Holding, [ArenaNext]_arenaVars, NEW c \in Call, WorkerAnswers(c)
    PROVE  Publishing' /\ Raws' /\ FramesHeld' /\ Releasing' /\ Responding'
<1>0. PICK seq \in Nat : seq = transportSequence + 1
  BY TypesOf DEF EnvInv
<1>1. /\ busy = c /\ busy # None /\ Quiet /\ alive' = TRUE /\ recovering' = FALSE
      /\ UNCHANGED <<incarnation, queue, latest, handler>>
  BY EnvironmentAssumption DEF WorkerAnswers
<1>2. /\ call \in [Call -> Calls] /\ latest \in [Sensor -> RefOrNone] /\ published + 1 \in Nat
      /\ \A d \in Call : d = c
  BY TypesOf DEF EnvInv, OneCall
<1>3. \A h \in Handler : handler[h].stage = "idle"
  BY <1>1, QuietIsIdle DEF Holding
<1>4. \A i \in DOMAIN tail : ~Publishes(i)
  BY <1>1, <1>3, AtWork, NothingPublished DEF Holding
<1>5. CASE Missing(latest) = {}
  <2>1. UNCHANGED arenaVars /\ Respond(c, seq, latest)
    BY <1>0, <1>5 DEF WorkerAnswers
  <2>2. call' = [call EXCEPT ![c] = NoCall] /\ response' = latest
    BY <2>1 DEF Respond
  <2>3. 0 <= Len(tail) /\ <<>> \in Seq(Request) /\ Moved(0, <<>>) /\ \A q : ~Grow(q)
    BY <2>1, SameTail, NoGrow DEF arenaVars
  <2>4. Publishing'
    BY <1>4, <2>3, PublishingRests DEF Holding
  <2>5. Raws' /\ FramesHeld' /\ Releasing'
    BY <1>1, <2>3, HeldRests
  <2>6. \A d \in Call : call'[d].stage = "idle"
    BY <1>2, <2>2 DEF NoCall
  <2>7. \A s \in Sensor : response'[s] = latest'[s]
    BY <1>1, <2>2
  <2>8. Responding'
    BY <1>1, <2>6, <2>7 DEF Responding, Given
  <2> QED BY <2>4, <2>5, <2>8
<1>6. CASE Missing(latest) # {}
  <2>1. Min(Missing(latest)) \in Sensor
    BY <1>6, SensorsAre, MinIn DEF Missing
  <2>2. PICK r : r = Publish(c, ObsLen[Min(Missing(latest))], seq, FALSE, published + 1)
    OBVIOUS
  <2>3. /\ Submit(<<r>>)
        /\ call' = [call EXCEPT ![c] = [NoCall EXCEPT !.stage = "externalize", !.seq = seq, !.refs = latest]]
    BY <1>0, <1>6, <2>2 DEF WorkerAnswers
  <2>4. r \in Request
    BY <1>2, <2>1, <2>2, HandlersAre, SensorsAre, PublishType
  <2>5. r.op = "publish" /\ r.by = c /\ r.gen = seq /\ r.retained = FALSE
    BY <2>2 DEF Publish
  <2>6. call'[c].stage = "externalize" /\ call'[c].seq = seq /\ call'[c].refs = latest
    BY <1>2, <2>3 DEF NoCall
  <2>7. <<r>> \in Seq(Request) /\ \A i \in DOMAIN <<r>> : <<r>>[i].op # "release"
    BY <2>4, <2>5
  <2>8. 0 <= Len(tail) /\ Moved(0, <<r>>) /\ \A q : ~Grow(q)
    BY <2>3, <2>7, SubmitMoves, NoGrow DEF Submit
  <2>9. Waits(r)'
    BY <2>5, <2>6 DEF Waits
  <2>10. Publishing'
    BY <1>4, <2>4, <2>5, <2>8, <2>9, PublishingOne DEF Holding
  <2>11. Raws' /\ FramesHeld' /\ Releasing'
    BY <1>1, <2>7, <2>8, HeldKept
  <2>12. \A s \in Sensor : call'[c].refs[s] = latest'[s]
    BY <1>1, <2>6
  <2>13. \A d \in Call : call'[d].stage = "externalize" /\ d = c
    BY <1>2, <2>6
  <2>14. Responding'
    BY <1>1, <2>12, <2>13 DEF Responding, Given
  <2> QED BY <2>10, <2>11, <2>14
<1> QED BY <1>5, <1>6

\* What a response refers to, after one more of its publications.
LEMMA ExternalizedGiven ==
    ASSUME OneCall, EnoughGenerations, EnvInv, EnvInv', Holding, [ArenaNext]_arenaVars, NEW c \in Call,
           call[c].stage = "externalize", Running("publish"), Head(tail).by = c,
           NEW more \in Seq(Request), WriteHeader(more), \A i \in DOMAIN more : more[i].op # "release",
           latest' = latest, NEW k, NEW refs,
           refs = [call[c].refs EXCEPT ![k] = ReferenceTo(Head(tail), placed)], NEW s \in Sensor,
           NEW seq, seq = call[c].seq
    PROVE  Given(refs[s], s, seq)'
<1>0. PICK ref, old : ref = ReferenceTo(Head(tail), placed) /\ old = call[c].refs[s]
  OBVIOUS
<1>1. /\ tail \in Seq(Request) /\ 1 \in DOMAIN tail /\ Publishes(1) /\ Head(tail) = tail[1] /\ tail # <<>>
  BY RequestAt DEF EnvInv, TypeOK, Publishes
<1>2. Head(tail).gen = seq /\ Head(tail).retained = FALSE
  <2>1. Head(tail).gen = seq /\ ~Head(tail).retained
    BY <1>0, <1>1, ResponsePublished
  <2>2. Head(tail).retained \in BOOLEAN
    BY RunningRequest DEF EnvInv, TypeOK, PublishRequest
  <2> QED BY <2>1, <2>2
<1>3. stage = "payload" /\ Over(more)
  BY DEF WriteHeader
<1>4. 1 <= Len(tail) /\ Moved(1, more) /\ \A q : ~Grow(q)
  BY <1>1, <1>3, OverMoves, NoGrow
<1>5. call[c].refs \in [Sensor -> RefOrNone] /\ seq \in Nat
  BY TypesOf DEF EnvInv, Calls, Sequence
<1>6. CASE s = k
  <2>1. LiveAs(ref, FALSE)' /\ ref.off = placed /\ ref.gen = seq
    BY <1>0, <1>2, PublishedLive
  <2>2. \A i \in DOMAIN tail : Releases(i) => tail[i].off # ref.off
    BY <1>3, <2>1, FreshOff DEF Holding
  <2>3. \A i \in DOMAIN tail' : tail'[i].op = "release" => tail'[i].off # ref.off
    BY <1>4, <2>2, ReleasesComeFrom
  <2>4. Given(ref, s, seq)'
    BY <2>1, <2>3 DEF Given, Releases, LiveAs
  <2>5. refs[s] = ref
    BY <1>0, <1>5, <1>6
  <2> QED BY <1>0, <2>4, <2>5
<1>7. CASE s # k
  <2>1. Given(old, s, seq)
    BY <1>0 DEF Holding, Responding
  <2>2. Head(tail).gen < seq + Generations
    BY <1>2, <1>5, GenerationsAre
  <2>3. Given(old, s, seq)'
    BY <1>4, <1>5, <2>1, <2>2, GivenStays
  <2>4. refs[s] = old
    BY <1>0, <1>5, <1>7
  <2> QED BY <1>0, <2>3, <2>4
<1> QED BY <1>6, <1>7

\* One more tensor of a response is published.
LEMMA ExternalizedHolds ==
    ASSUME OneCall, EnoughGenerations, EnvInv, EnvInv', Holding, [ArenaNext]_arenaVars, NEW c \in Call, Externalized(c)
    PROVE  Publishing' /\ Raws' /\ FramesHeld' /\ Releasing' /\ Responding'
<1>0. PICK seq, k, refs : /\ seq = call[c].seq /\ k = Min(Missing(call[c].refs))
                          /\ refs = [call[c].refs EXCEPT ![k] = ReferenceTo(Head(tail), placed)]
  <2>1. PICK seq, k : seq = call[c].seq /\ k = Min(Missing(call[c].refs))
    OBVIOUS
  <2>2. PICK refs : refs = [call[c].refs EXCEPT ![k] = ReferenceTo(Head(tail), placed)]
    OBVIOUS
  <2> QED BY <2>1, <2>2
<1>1. /\ call[c].stage \in {"externalize", "overtaken"} /\ Running("publish") /\ Head(tail).by = c
      /\ UNCHANGED <<alive, busy, recovering, requiresReset, incarnation, queue, latest, handler>>
  BY DEF Externalized, workerVars
<1>2. /\ call \in [Call -> Calls] /\ seq \in Nat /\ published + 1 \in Nat
      /\ \A d \in Call : d = c
  BY <1>0, TypesOf DEF EnvInv, OneCall, Calls, Sequence
<1>3. \/ Missing(refs) = {} /\ WriteHeader(<<>>) /\ Respond(c, seq, refs)
      \/ /\ Missing(refs) # {}
         /\ WriteHeader(<<Publish(c, ObsLen[Min(Missing(refs))], seq, FALSE, published + 1)>>)
         /\ call' = [call EXCEPT ![c].refs = refs]
         /\ UNCHANGED <<transportSequence, response>>
  BY <1>0 DEF Externalized, clientVars
<1>4. /\ tail \in Seq(Request) /\ 1 \in DOMAIN tail /\ Publishes(1) /\ Head(tail) = tail[1] /\ tail # <<>>
  BY <1>1, RequestAt DEF EnvInv, TypeOK, Publishes
<1>5. \A i \in DOMAIN tail : ~(i > 1 /\ Publishes(i))
  BY <1>1, <1>4, ResponsePublished
<1>7. CASE Missing(refs) = {}
  <2>1. WriteHeader(<<>>) /\ Respond(c, seq, refs)
    BY <1>3, <1>7
  <2>2. call' = [call EXCEPT ![c] = NoCall] /\ response' = refs /\ transportSequence' = seq
    BY <2>1 DEF Respond
  <2>3. <<>> \in Seq(Request) /\ (\A i \in DOMAIN <<>> : FALSE)
    BY NothingAsked
  <2>4. 1 <= Len(tail) /\ Moved(1, <<>>) /\ (\A q : ~Grow(q)) /\ closed' = closed
    BY <1>4, <2>1, <2>3, OverMoves, NoGrow DEF WriteHeader
  <2>5. Publishing'
    BY <1>5, <2>4, PublishingRests DEF Holding
  <2>6. Raws' /\ FramesHeld' /\ Releasing'
    BY <1>1, <2>4, HeldRests
  <2>7. \A d \in Call : call'[d].stage = "idle"
    BY <1>2, <2>2 DEF NoCall
  <2>8. ASSUME ~requiresReset, ~closed, NEW s \in Sensor PROVE Given(response[s], s, transportSequence)'
    <3>1. call[c].stage = "externalize"
      BY <1>1, <2>8 DEF Holding, Responding
    <3>2. Given(refs[s], s, seq)'
      <4> DEFINE more == <<>>
      <4>1. more \in Seq(Request) /\ WriteHeader(more) /\ \A i \in DOMAIN more : more[i].op # "release"
        BY <2>1, NothingAsked
      <4> HIDE DEF more
      <4> QED BY <1>0, <1>1, <3>1, <4>1, ExternalizedGiven
    <3> QED BY <2>2, <3>2 DEF Given, LiveAs
  <2>9. recovering' \/ ~alive' => requiresReset' \/ closed'
    BY <1>1, <2>4 DEF Holding, Responding
  <2>10. ~requiresReset' /\ ~closed' => ~requiresReset /\ ~closed
    BY <1>1, <2>4
  <2>11. ~requiresReset' /\ ~closed' => \A s \in Sensor : Given(response[s], s, transportSequence)'
    BY <2>8, <2>10
  <2>12. Responding'
    BY <2>7, <2>9, <2>11 DEF Responding
  <2> QED BY <2>5, <2>6, <2>12
<1>8. CASE Missing(refs) # {}
  <2>1. Min(Missing(refs)) \in Sensor
    BY <1>8, SensorsAre, MinIn DEF Missing
  <2>2. PICK r : r = Publish(c, ObsLen[Min(Missing(refs))], seq, FALSE, published + 1)
    OBVIOUS
  <2>3. WriteHeader(<<r>>) /\ call' = [call EXCEPT ![c].refs = refs]
    BY <1>3, <1>8, <2>2
  <2>4. r \in Request
    BY <1>2, <2>1, <2>2, HandlersAre, SensorsAre, PublishType
  <2>5. r.op = "publish" /\ r.by = c /\ r.gen = seq /\ r.retained = FALSE
    BY <2>2 DEF Publish
  <2>6. call'[c].stage = call[c].stage /\ call'[c].seq = seq /\ call'[c].refs = refs
    BY <1>0, <1>2, <2>3 DEF Calls
  <2>7. <<r>> \in Seq(Request) /\ \A i \in DOMAIN <<r>> : <<r>>[i].op # "release"
    BY <2>4, <2>5
  <2>8. 1 <= Len(tail) /\ Moved(1, <<r>>) /\ (\A q : ~Grow(q)) /\ closed' = closed
    BY <1>4, <2>3, <2>7, OverMoves, NoGrow DEF WriteHeader
  <2>9. Waits(r)'
    BY <1>1, <2>5, <2>6 DEF Waits
  <2>10. Publishing'
    BY <1>5, <2>4, <2>5, <2>8, <2>9, PublishingOne DEF Holding
  <2>11. Raws' /\ FramesHeld' /\ Releasing'
    BY <1>1, <2>7, <2>8, HeldKept
  <2>12. ASSUME call[c].stage = "externalize", NEW s \in Sensor PROVE Given(call[c].refs[s], s, call[c].seq)'
    <3>1. Given(refs[s], s, seq)'
      BY <1>0, <1>1, <2>3, <2>7, <2>12, ExternalizedGiven
    <3> QED BY <2>6, <3>1 DEF Given, LiveAs
  <2>13. recovering' \/ ~alive' => requiresReset' \/ closed'
    BY <1>1, <2>8 DEF Holding, Responding
  <2>14. \A d \in Call : d = c /\ (call'[d].stage = "overtaken" => requiresReset' \/ closed') /\ call'[d].stage # "idle"
    BY <1>1, <1>2, <2>6, <2>8 DEF Holding, Responding
  <2>15. \A d \in Call : call'[d].stage = "externalize" =>
           \A s \in Sensor : Given(call[d].refs[s], s, call[d].seq)'
    BY <2>6, <2>12, <2>14
  <2>16. Responding'
    BY <2>13, <2>14, <2>15 DEF Responding
  <2> QED BY <2>10, <2>11, <2>16
<1> QED BY <1>7, <1>8

\* The request of a recovery.
LEMMA InvalidateAsked ==
    LET more == <<[op |-> "invalidate"]>> IN
    more \in Seq(Request) /\ \A i \in DOMAIN more : more[i].op = "invalidate"
<1> DEFINE r == [op |-> "invalidate"]
<1>1. r \in Request
  BY DEF Request, InvalidateRequest
<1> QED BY <1>1

\* The publication of a response fails: there is no response.
LEMMA ExternalizeFailsHolds ==
    ASSUME OneCall, EnoughGenerations, EnvInv, EnvInv', Holding, [ArenaNext]_arenaVars, NEW c \in Call, ExternalizeFails(c)
    PROVE  Publishing' /\ Raws' /\ FramesHeld' /\ Releasing' /\ Responding'
<1>1. /\ call[c].stage \in {"externalize", "overtaken"} /\ Running("publish") /\ Head(tail).by = c
      /\ UNCHANGED <<alive, busy, incarnation, queue, latest, handler>>
      /\ call' = [call EXCEPT ![c] = NoCall]
  BY DEF ExternalizeFails, workerVars
<1>2. PICK more : /\ PublishFails(more) /\ more \in Seq(Request)
                  /\ \A i \in DOMAIN more : more[i].op \notin {"publish", "release"}
                  /\ \/ requiresReset'
                     \/ (closed \/ ~alive \/ recovering) /\ UNCHANGED <<recovering, requiresReset>>
  <2>1. CASE ~closed /\ alive /\ ~recovering
    <3> DEFINE more == <<[op |-> "invalidate"]>>
    <3>1. PublishFails(more) /\ requiresReset' = TRUE
      BY <2>1 DEF ExternalizeFails
    <3>2. more \in Seq(Request) /\ \A i \in DOMAIN more : more[i].op = "invalidate"
      BY InvalidateAsked
    <3> HIDE DEF more
    <3> QED BY <3>1, <3>2
  <2>2. CASE ~(~closed /\ alive /\ ~recovering)
    <3> DEFINE more == <<>>
    <3>1. PublishFails(more) /\ UNCHANGED <<recovering, requiresReset>>
      BY <2>2 DEF ExternalizeFails
    <3>2. more \in Seq(Request) /\ \A i \in DOMAIN more : FALSE
      BY NothingAsked
    <3> HIDE DEF more
    <3> QED BY <2>2, <3>1, <3>2
  <2> QED BY <2>1, <2>2
<1>3. /\ tail \in Seq(Request) /\ 1 \in DOMAIN tail /\ Publishes(1) /\ Head(tail) = tail[1] /\ tail # <<>>
  BY <1>1, RequestAt DEF EnvInv, TypeOK, Publishes
<1>4. \A i \in DOMAIN tail : ~(i > 1 /\ Publishes(i))
  BY <1>1, <1>3, ResponsePublished
<1>5. stage = "waiting" /\ Over(more) /\ closed' = closed
  BY <1>2 DEF PublishFails
<1>6. 1 <= Len(tail) /\ Moved(1, more) /\ \A q : ~Grow(q)
  BY <1>2, <1>3, <1>5, OverMoves, NoGrow
<1>7. \A i \in DOMAIN more : more[i].op # "publish" /\ more[i].op # "release"
  BY <1>2
<1>8. Publishing'
  BY <1>2, <1>4, <1>6, <1>7, PublishingStays DEF Holding
<1>9. Raws' /\ FramesHeld' /\ Releasing'
  BY <1>1, <1>2, <1>6, <1>7, HeldKept
<1>10. requiresReset' \/ closed'
  BY <1>1, <1>2, <1>5 DEF Holding, Responding
<1>11. \A d \in Call : call'[d].stage = "idle"
  <2>1. call \in [Call -> Calls] /\ \A d \in Call : d = c
    BY TypesOf DEF EnvInv, OneCall
  <2> QED BY <1>1, <2>1 DEF NoCall
<1>12. Responding'
  BY <1>10, <1>11 DEF Responding
<1> QED BY <1>8, <1>9, <1>12

\* A recovery begins: what is held is held until the arena is empty.
LEMMA RecoverHolds ==
    ASSUME OneCall, EnoughGenerations, EnvInv, EnvInv', Holding, [ArenaNext]_arenaVars, Recover
    PROVE  Publishing' /\ Raws' /\ FramesHeld' /\ Releasing' /\ Responding'
<1>0. PICK more : more = <<[op |-> "invalidate"]>>
  OBVIOUS
<1>1. /\ Submit(more) /\ requiresReset' = TRUE /\ stage' = stage
      /\ UNCHANGED <<transportSequence, alive, incarnation, queue, latest, handler, call, response>>
  BY <1>0 DEF Recover, workerVars, clientVars, Submit
<1>2. more \in Seq(Request) /\ \A i \in DOMAIN more : more[i].op = "invalidate"
  BY <1>0, InvalidateAsked
<1>3. \A i \in DOMAIN more : more[i].op # "publish" /\ more[i].op # "release"
  BY <1>2
<1>4. 0 <= Len(tail) /\ Moved(0, more) /\ \A q : ~Grow(q)
  BY <1>1, <1>2, SubmitMoves, NoGrow
<1>5. Publishing'
  <2>1. \A i \in DOMAIN tail : i > 0 /\ Publishes(i) =>
             \/ tail[i].by \in Handler /\ handler'[tail[i].by] = handler[tail[i].by]
             \/ tail[i].by \in Call /\ call'[tail[i].by].seq = call[tail[i].by].seq
                /\ call'[tail[i].by].stage \in {"externalize", "overtaken"}
    BY <1>1 DEF Holding, Publishing, Waits
  <2> QED BY <1>2, <1>3, <1>4, <2>1, PublishingStays DEF Holding
<1>6. Raws' /\ FramesHeld' /\ Releasing'
  BY <1>1, <1>2, <1>3, <1>4, HeldKept
<1>7. Responding'
  BY <1>1, <1>2, <1>3, <1>4, RespondingStays
<1> QED BY <1>5, <1>6, <1>7

\* The worker is gone: what it held is released by nobody.
LEMMA GoneHolds ==
    ASSUME OneCall, EnoughGenerations, EnvInv, EnvInv', Holding, ~late', WorkerGone,
           requiresReset \/ closed', requiresReset' = requiresReset,
           NEW d \in {0, 1}, d <= Len(tail), Moved(d, <<>>)
    PROVE  /\ Publishing' /\ Raws' /\ FramesHeld' /\ Responding' /\ \A ref : ref \notin Held'
           /\ \A i \in DOMAIN tail : Publishes(i) => tail[i].by \in Call
<1>1. /\ \A h \in Handler : handler[h].stage \notin {"raw", "obs"}
      /\ \A h \in Handler : handler'[h].stage = "idle"
      /\ \A h \in Handler : handler'[h] = IF handler[h].stage = "idle" THEN handler[h] ELSE Resting
  BY GoneIsIdle
<1>2. /\ call' = [c \in Call |-> IF call[c].stage \in {"externalize", "overtaken"}
                               THEN [call[c] EXCEPT !.stage = "overtaken"] ELSE NoCall]
      /\ queue' = [s \in Sensor |-> <<>>] /\ latest' = NoRefs
  BY DEF WorkerGone
<1>3. \A i \in DOMAIN tail : Publishes(i) => tail[i].by \in Call /\ call[tail[i].by].stage \in {"externalize", "overtaken"}
  BY <1>1 DEF Holding, Publishing, Waits
<1>4. call \in [Call -> Calls]
  BY TypesOf DEF EnvInv
<1>5. \A c \in Call : /\ call'[c].stage \in {"overtaken", "idle"}
                      /\ call[c].stage \in {"externalize", "overtaken"} =>
                           call'[c].stage = "overtaken" /\ call'[c].seq = call[c].seq
  BY <1>2, <1>4 DEF NoCall, Calls
<1>6. Publishing'
  <2>1. \A i \in DOMAIN tail : i > d /\ Publishes(i) =>
          /\ tail[i].by \in Call /\ call'[tail[i].by].seq = call[tail[i].by].seq
          /\ call'[tail[i].by].stage \in {"externalize", "overtaken"}
    BY <1>3, <1>5
  <2> QED BY <2>1, PublishingRests DEF Holding
<1>7. \A h \in Handler : handler'[h].raw = None /\ handler'[h].obs = None
  BY <1>1 DEF Holding, Products, Resting
<1>8. Raws' /\ FramesHeld' /\ \A ref : ref \notin Held'
  BY <1>2, <1>7, NothingHeld
<1>9. Responding'
  BY <1>5 DEF Responding
<1> QED BY <1>3, <1>6, <1>8, <1>9

\* The arena is empty, and the worker replaced.  What is still to be published
\* is for responses, behind which nothing is released.
LEMMA ReplacedHolds ==
    ASSUME OneCall, EnoughGenerations, EnvInv, EnvInv', Holding, ~late', Replaced
    PROVE  Publishing' /\ Raws' /\ FramesHeld' /\ Releasing' /\ Responding'
<1>1. /\ WorkerGone /\ requiresReset' = requiresReset /\ recovering /\ Running("invalidate")
      /\ Over(<<>>) /\ closed' = closed /\ tail # <<>>
  BY DEF Replaced, Grow, Running
<1>2. /\ <<>> \in Seq(Request) /\ 1 <= Len(tail) /\ Moved(1, <<>>)
  BY <1>1, NothingAsked, OverMoves
<1>3. requiresReset \/ closed'
  BY <1>1 DEF Holding, Responding
<1>4. /\ Publishing' /\ Raws' /\ FramesHeld' /\ Responding' /\ \A ref : ref \notin Held'
      /\ \A i \in DOMAIN tail : Publishes(i) => tail[i].by \in Call
  BY <1>1, <1>2, <1>3, GoneHolds
<1>5. /\ tail \in Seq(Request) /\ tail' \in Seq(Request) /\ Len(tail) \in Nat /\ Len(tail') \in Nat
      /\ DOMAIN tail = 1..Len(tail) /\ DOMAIN tail' = 1..Len(tail')
  BY RequestAt DEF EnvInv, TypeOK, ArenaTypeOK
<1>6. ASSUME NEW i \in DOMAIN tail' PROVE i + 1 \in DOMAIN tail /\ tail'[i] = tail[i + 1]
  <2>1. Len(tail') = Len(tail) - 1
    BY <1>2, <1>5 DEF Moved
  <2>2. i \in 1..(Len(tail) - 1)
    BY <1>5, <2>1
  <2> QED BY <1>2, <1>5, <2>2 DEF Moved
<1>7. ASSUME NEW i \in DOMAIN tail', tail'[i].op = "release", NEW j \in 1..(i - 1) PROVE tail'[j].op # "publish"
  <2>0. PICK m, n : m = j + 1 /\ n = i + 1
    OBVIOUS
  <2>1. j \in DOMAIN tail' /\ i \in Nat /\ j \in Nat /\ m < n
    BY <1>5, <1>7, <2>0
  <2>2. n \in DOMAIN tail /\ tail'[i] = tail[n] /\ m \in DOMAIN tail /\ tail'[j] = tail[m]
    BY <1>6, <2>0, <2>1
  <2>3. Releases(n)
    BY <1>7, <2>2 DEF Releases
  <2>4. ~Publishes(m)
    BY <1>4, <2>1, <2>2, <2>3 DEF Holding, Publishing
  <2> QED BY <2>2, <2>4 DEF Publishes
<1>8. ASSUME NEW i \in DOMAIN tail', NEW j \in DOMAIN tail',
             tail'[i].op = "release", tail'[j].op = "release", tail'[j].off = tail'[i].off
      PROVE  i = j
  <2>0. PICK m, n : m = j + 1 /\ n = i + 1
    OBVIOUS
  <2>1. n \in DOMAIN tail /\ tail'[i] = tail[n] /\ m \in DOMAIN tail /\ tail'[j] = tail[m]
    BY <1>6, <2>0
  <2>2. n = m
    BY <1>8, <2>1 DEF Holding, Releasing, Releases
  <2> QED BY <1>5, <2>0, <2>2
<1>9. Releasing'
  <2>1. \A i \in DOMAIN tail' : tail'[i].op = "release" => Guarded(i)'
    BY <1>7 DEF Guarded, Publishes
  <2> QED BY <1>4, <1>8, <2>1 DEF Releasing, Releases
<1> QED BY <1>4, <1>9

\* The batch is closed.
LEMMA ClosedHolds ==
    ASSUME OneCall, EnoughGenerations, EnvInv, EnvInv', Holding, [ArenaNext]_arenaVars, ~late', CloseBatch
    PROVE  Publishing' /\ Raws' /\ FramesHeld' /\ Releasing' /\ Responding'
<1>1. /\ WorkerGone /\ requiresReset' = requiresReset /\ closed' /\ tail' = tail /\ stage' = stage
  BY DEF CloseBatch, Close
<1>2. /\ 0 <= Len(tail) /\ Moved(0, <<>>) /\ \A q : ~Grow(q)
  BY <1>1, SameTail, NoGrow
<1>3. Publishing' /\ Raws' /\ FramesHeld' /\ Responding' /\ \A ref : ref \notin Held'
  BY <1>1, <1>2, GoneHolds
<1>4. Releasing'
  BY <1>2, <1>3, ReleasingRests
<1> QED BY <1>3, <1>4

\* A step that neither the environment nor its client has asked for.
LEMMA RestHolds ==
    ASSUME OneCall, EnoughGenerations, EnvInv, EnvInv', Holding, [ArenaNext]_arenaVars,
           Read \/ ArenaStep \/ UNCHANGED vars
    PROVE  Publishing' /\ Raws' /\ FramesHeld' /\ Releasing' /\ Responding'
<1>1. /\ UNCHANGED <<transportSequence, incarnation, alive, busy, queue, latest, recovering, requiresReset,
                     handler, call, response>>
  BY DEF Read, ArenaStep, vars, workerVars, clientVars
<1>2. /\ \E d \in {0, 1} : d <= Len(tail) /\ Moved(d, <<>>)
      /\ closed' = closed /\ \A q : ~Grow(q)
  <2>1. CASE ArenaStep
    <3>1. \E d \in {0, 1} : d <= Len(tail) /\ Moved(d, <<>>)
      BY <2>1, ArenaTail
    <3>2. (stage' = stage \/ stage # "grow") /\ closed' = closed
      BY <2>1 DEF ArenaStep, Place, WritePayload, ReleaseKeeps, ReleaseFrees, EraseMagic, Truncate, Unlink
    <3> QED BY <3>1, <3>2, NoGrow
  <2>2. CASE UNCHANGED arenaVars
    BY <2>2, SameTail, NoGrow DEF arenaVars
  <2>3. ArenaStep \/ UNCHANGED arenaVars
    BY DEF Read, vars
  <2> QED BY <2>1, <2>2, <2>3
<1>3. PICK d \in {0, 1} : d <= Len(tail) /\ Moved(d, <<>>)
  BY <1>2
<1>4. Publishing'
  <2>1. \A i \in DOMAIN tail : i > d /\ Publishes(i) =>
             \/ tail[i].by \in Handler /\ handler'[tail[i].by] = handler[tail[i].by]
             \/ tail[i].by \in Call /\ call'[tail[i].by].seq = call[tail[i].by].seq
                /\ call'[tail[i].by].stage \in {"externalize", "overtaken"}
    BY <1>1 DEF Holding, Publishing, Waits
  <2> QED BY <1>3, <2>1, PublishingRests DEF Holding
<1>5. Raws' /\ FramesHeld' /\ Releasing'
  BY <1>1, <1>2, <1>3, HeldRests
<1>6. recovering' \/ ~alive' => requiresReset' \/ closed'
  BY <1>1, <1>2 DEF Holding, Responding
<1>7. Responding'
  BY <1>1, <1>2, <1>3, <1>6, RespondingRests
<1> QED BY <1>4, <1>5, <1>7

-----------------------------------------------------------------------------
(***************************************************************************)
(* The theorems on held references and on responses.                       *)
(***************************************************************************)

\* At first nothing is held.
LEMMA InitHolding == Init => Holding
<1> SUFFICES ASSUME Init PROVE Holding
  OBVIOUS
<1>1. /\ tail = <<>> /\ transportSequence = 0 /\ alive = TRUE /\ recovering = FALSE /\ requiresReset = TRUE
      /\ busy = None /\ latest = NoRefs /\ queue = [s \in Sensor |-> <<>>]
      /\ \A h \in Handler : handler[h] = Resting
      /\ \A c \in Call : call[c] = NoCall
      /\ incarnation = 0
  BY DEF Init, ArenaInit
<1>2. \A s \in Sensor : <<incarnation, s>> \in Handler
  BY <1>1, EnvironmentAssumption DEF Handler, Incarnation
<1>3. Working /\ Products /\ Raws
  <2>1. \A h \in Handler : handler[h].stage = "idle" /\ handler[h].raw = None /\ handler[h].obs = None
    BY <1>1 DEF Resting
  <2>2. Working
    BY <1>1, <2>1 DEF Working
  <2>3. Products /\ Raws
    BY <2>1 DEF Products, Raws
  <2> QED BY <2>2, <2>3
<1>4. Publishing /\ Releasing
  <2>1. \A i \in DOMAIN tail : FALSE
    BY <1>1, NothingAsked
  <2> QED BY <2>1 DEF Publishing, Releasing
<1>5. SequencesNear
  <2>1. Begun = {}
    BY <1>1, <1>2 DEF Begun, Resting
  <2>2. Cardinality(Begun) = 0
    BY <2>1, FS_EmptySet
  <2>3. Near(0)
    BY <1>1, <2>2 DEF Near, Resting
  <2> QED BY <1>1, <2>3 DEF SequencesNear
<1>6. FramesHeld
  <2>1. \A s \in Sensor : \A i \in Places : Frame(s, i) = None
    <3> TAKE s \in Sensor
    <3> TAKE i \in Places
    <3>1. i \in Nat /\ latest[s] = None /\ queue[s] = <<>> /\ handler[<<incarnation, s>>].obs = None
      BY <1>1, <1>2, EnvironmentAssumption DEF Places, NoRefs, Resting
    <3> QED BY <3>1 DEF Frame
  <2> QED BY <2>1 DEF FramesHeld
<1>7. Responding
  BY <1>1 DEF Responding, NoCall
<1> QED BY <1>3, <1>4, <1>5, <1>6, <1>7 DEF Holding

\* As long as no handler goes on without its worker.
LEMMA HoldingStep ==
    ASSUME OneCall, EnoughGenerations, EnvInv, HoldingInv, [Next]_vars
    PROVE  HoldingInv'
<1> DEFINE Good == Publishing' /\ Raws' /\ FramesHeld' /\ Releasing' /\ Responding'
<1> SUFFICES ASSUME ~late' PROVE Holding'
  BY DEF HoldingInv
<1>1. EnvInv' /\ [ArenaNext]_arenaVars
  BY EnvironmentStep, ArenaSteps DEF EnvInv
<1>2. Holding
  BY LateSteps DEF HoldingInv, Replaced, CloseBatch, WorkerGone, EnvInv, TypeOK
<1>3. Working' /\ Products' /\ SequencesNear'
  BY <1>1, <1>2, WorkingKept, ProductsKept, NearKept DEF Holding
<1>4. ASSUME NEW c \in Call, NEW reset \in BOOLEAN, StartCall(c, reset) PROVE Good
  BY <1>1, <1>2, <1>4, StartHolds
<1>5. ASSUME NEW S \in SUBSET Sensor, CaptureGroup(S) PROVE Good
  BY <1>1, <1>2, <1>5, CaptureHolds
<1>6. ASSUME NEW h \in Handler, Rendered(h) PROVE Good
  BY <1>1, <1>2, <1>6, RenderedHolds
<1>7. ASSUME NEW h \in Handler, RawPublished(h) PROVE Good
  BY <1>1, <1>2, <1>7, RawHolds
<1>8. ASSUME NEW h \in Handler, ObservationPublished(h) PROVE Good
  BY <1>1, <1>2, <1>8, ObservationHolds
<1>9. ASSUME NEW h \in Handler, CaptureFails(h) PROVE Good
  BY <1>1, <1>2, <1>9, FailsHolds
<1>10. ASSUME ProcessGroup PROVE Good
  BY <1>1, <1>2, <1>10, GroupHolds
<1>11. ASSUME NEW s \in Sensor, Deliver(s) PROVE Good
  BY <1>1, <1>2, <1>11, DeliverHolds
<1>12. ASSUME NEW c \in Call, WorkerAnswers(c) PROVE Good
  BY <1>1, <1>2, <1>12, AnswerHolds
<1>13. ASSUME NEW c \in Call, Externalized(c) PROVE Good
  BY <1>1, <1>2, <1>13, ExternalizedHolds
<1>14. ASSUME NEW c \in Call, ExternalizeFails(c) PROVE Good
  BY <1>1, <1>2, <1>14, ExternalizeFailsHolds
<1>15. ASSUME Recover PROVE Good
  BY <1>1, <1>2, <1>15, RecoverHolds
<1>16. ASSUME Replaced PROVE Good
  BY <1>1, <1>2, <1>16, ReplacedHolds
<1>17. ASSUME CloseBatch PROVE Good
  BY <1>1, <1>2, <1>17, ClosedHolds
<1>18. ASSUME Read \/ ArenaStep \/ UNCHANGED vars PROVE Good
  BY <1>1, <1>2, <1>18, RestHolds
<1>19. Good
  <2> HIDE DEF Good
  <2> QED BY <1>4, <1>5, <1>6, <1>7, <1>8, <1>9, <1>10, <1>11, <1>12, <1>13, <1>14, <1>15, <1>16, <1>17, <1>18
          DEF Next
<1> QED BY <1>3, <1>19 DEF Holding

\* With one call in flight, and no more routes than generations, what is held
\* is live in every state.
LEMMA HoldingInvariant ==
    ASSUME OneCall, EnoughGenerations
    PROVE  Spec => [](EnvInv /\ HoldingInv)
<1>1. Init => EnvInv /\ HoldingInv
  BY InitEnvironment, InitHolding DEF HoldingInv
<1>2. EnvInv /\ HoldingInv /\ [Next]_vars => EnvInv' /\ HoldingInv'
  BY EnvironmentStep, HoldingStep
<1> QED BY <1>1, <1>2, PTL DEF Spec

\* A block of one kind or the other is a block.
LEMMA LiveAsIsLive == \A ref : \A kept \in BOOLEAN : LiveAs(ref, kept) => Live(ref)
BY DEF LiveAs, Live

\* What a worker holds is allocated, for any number of sensors up to
\* Generations, any lengths, queues, captures, calls and restarts: no
\* retirement, release at the same offset or roll-back takes it
\* (HeldReferencesAreLive; HeadlessSupervisor.js:1055-1160,
\* SharedTensorArena.js:144-232).
THEOREM HeldReferencesLive ==
    ASSUME OneCall, EnoughGenerations
    PROVE  Spec => []HeldReferencesAreLive
<1>1. ASSUME EnvInv, HoldingInv PROVE HeldReferencesAreLive
  <2> SUFFICES ASSUME ~late
               PROVE  /\ \A ref \in Frames : ref # None => Live(ref)
                      /\ \A h \in Handler : handler[h].raw # None => Live(handler[h].raw)
    BY DEF HeldReferencesAreLive
  <2>1. FramesHeld /\ Raws
    BY <1>1 DEF HoldingInv, Holding
  <2>2. ASSUME NEW ref \in Frames PROVE \E s \in Sensor : \E i \in Places : Frame(s, i) = ref
    <3>1. CASE \E s \in Sensor : ref = latest[s]
      <4>1. PICK s \in Sensor : ref = latest[s]
        BY <3>1
      <4> QED BY <1>1, <4>1, FrameAt
    <3>2. CASE \E s \in Sensor : ref = handler[<<incarnation, s>>].obs
      <4>1. PICK s \in Sensor : ref = handler[<<incarnation, s>>].obs
        BY <3>2
      <4> QED BY <1>1, <4>1, FrameAt
    <3>3. CASE \E s \in Sensor : ref \in ToSet(queue[s])
      <4>1. PICK s \in Sensor : ref \in ToSet(queue[s])
        BY <3>3
      <4>2. PICK i \in DOMAIN queue[s] : queue[s][i] = ref
        BY <4>1 DEF ToSet
      <4> QED BY <1>1, <4>2, FrameAt
    <3>4. \/ \E s \in Sensor : ref = latest[s]
          \/ \E s \in Sensor : ref = handler[<<incarnation, s>>].obs
          \/ \E s \in Sensor : ref \in ToSet(queue[s])
      BY <2>2 DEF Frames
    <3> QED BY <3>1, <3>2, <3>3, <3>4
  <2>3. \A ref \in Frames : ref # None => LiveAs(ref, TRUE)
    BY <2>1, <2>2 DEF FramesHeld
  <2>4. \A h \in Handler : handler[h].raw # None => LiveAs(handler[h].raw, FALSE)
    BY <2>1 DEF Raws
  <2> QED BY <2>3, <2>4, LiveAsIsLive
<1>2. EnvInv /\ HoldingInv => HeldReferencesAreLive
  BY <1>1
<1> QED BY <1>2, HoldingInvariant, PTL

\* Until the next call the references of a response are allocated, those of the
\* frames it shares with the worker and those published for it alone
\* (ResponseIsReadable; HeadlessSupervisor.js:1361-1583).
THEOREM ResponseReadable ==
    ASSUME OneCall, EnoughGenerations
    PROVE  Spec => []ResponseIsReadable
<1>1. ASSUME EnvInv, HoldingInv PROVE ResponseIsReadable
  <2> SUFFICES ASSUME \A c \in Call : call[c].stage = "idle", ~requiresReset, ~closed, ~late,
                      NEW s \in Sensor, response[s] # None
               PROVE  Live(response[s])
    BY DEF ResponseIsReadable
  <2>1. FramesHeld /\ Given(response[s], s, transportSequence)
    BY <1>1 DEF HoldingInv, Holding, Responding
  <2>2. CASE response[s] = latest[s]
    <3>1. 0 \in Places /\ Frame(s, 0) = latest[s]
      BY <1>1, FrameAt
    <3>2. LiveAs(latest[s], TRUE)
      BY <2>1, <2>2, <3>1 DEF FramesHeld
    <3> QED BY <2>2, <3>2, LiveAsIsLive
  <2>3. CASE LiveAs(response[s], FALSE)
    BY <2>3, LiveAsIsLive
  <2> QED BY <2>1, <2>2, <2>3 DEF Given
<1>2. EnvInv /\ HoldingInv => ResponseIsReadable
  BY <1>1
<1> QED BY <1>2, HoldingInvariant, PTL

-----------------------------------------------------------------------------
(***************************************************************************)
(* Publications, and the sequences they wait with, in turn.                *)
(***************************************************************************)

\* What is published later has no lower sequence: of one kind, in the order it
\* was asked for, and the observations before the raw products.
Before(i, j) ==
    \/ i < j /\ tail[i].retained = tail[j].retained
    \/ tail[i].retained /\ ~tail[j].retained
InTurn ==
    \A i, j \in DOMAIN tail :
      Publishes(i) /\ Publishes(j) /\ Before(i, j) => tail[i].gen <= tail[j].gen
AtTurn ==
    \A i \in DOMAIN tail : Publishes(i) =>
      transportSequence <= tail[i].gen /\ tail[i].gen <= transportSequence + 1

\* A sequence that no publication to come has, nor one below it.
Ahead(seq) == \A i \in DOMAIN tail : Publishes(i) => seq < tail[i].gen

\* The frames have the sequences of responses already given, or being given.
FramesPast ==
    /\ \A s \in Sensor : latest[s] # None => latest[s].gen <= transportSequence
    /\ \A s \in Sensor : \A k \in DOMAIN queue[s] : queue[s][k].gen <= transportSequence
    /\ \A h \in Handler : handler[h].obs # None => handler[h].obs.gen <= transportSequence

\* Nobody reads a file that is being truncated.
Blank == stage = "grow" => \A u \in Unit : cells[u] = Absent

\* A header that a reader takes for that of ref has the content of ref.
Tells(cell, ref) ==
    "digest" \in DOMAIN cell /\ cell = Header(ref.gen, ref.len, cell.digest) => cell.digest = ref.content

\* Where the block of a response was, no other will have its sequence.
ResponseTells ==
    \A s \in Sensor : response[s] # None =>
      \/ response[s] \in outlived
      \/ /\ response[s].gen <= transportSequence /\ Ahead(response[s].gen)
         /\ Tells(cells[response[s].off], response[s])
ReadTells ==
    /\ read.stage # "idle" => read.ref \in outlived \/ Tells(read.before, read.ref)
    /\ misread \subseteq outlived

Reading == InTurn /\ AtTurn /\ FramesPast /\ Blank /\ ResponseTells /\ ReadTells
ReadingInv == ~late => Reading

\* The publications that wait after a step are those that waited, less the one
\* that is over, and the one it asks for.
Waited(d, q) == \E n \in DOMAIN tail : n > d /\ Publishes(n) /\ tail[n] = q

\* The publications stay in turn where none is asked for, and what is over
\* leaves the tail,
LEMMA TurnStays ==
    ASSUME EnvInv, EnvInv', InTurn,
           NEW d \in {0, 1}, d <= Len(tail), NEW more \in Seq(Request), Moved(d, more),
           \A i \in DOMAIN more : more[i].op # "publish"
    PROVE  InTurn' /\ \A i \in DOMAIN tail' : tail'[i].op = "publish" => Waited(d, tail'[i])
<1>1. /\ tail \in Seq(Request) /\ Len(tail) \in Nat /\ DOMAIN tail = 1..Len(tail)
      /\ tail' \in Seq(Request) /\ d \in Nat
  BY RequestAt DEF EnvInv, TypeOK, ArenaTypeOK
<1>2. ASSUME NEW i \in DOMAIN tail', tail'[i].op = "publish"
      PROVE  i \in Nat \ {0} /\ i + d \in DOMAIN tail /\ tail'[i] = tail[i + d]
  <2>1. \/ i + d \in DOMAIN tail /\ tail'[i] = tail[i + d]
        \/ i - (Len(tail) - d) \in DOMAIN more /\ tail'[i] = more[i - (Len(tail) - d)]
    BY <1>1, ComesFrom
  <2>2. i \in Nat \ {0}
    BY <1>1, ComesFrom
  <2> QED BY <1>2, <2>1, <2>2
<1>3. ASSUME NEW i \in DOMAIN tail', tail'[i].op = "publish"
      PROVE  Waited(d, tail'[i])
  <2>0. PICK n : n = i + d
    OBVIOUS
  <2>1. n \in DOMAIN tail /\ tail'[i] = tail[n] /\ n > d
    BY <1>1, <1>2, <1>3, <2>0
  <2> QED BY <1>3, <2>1 DEF Waited, Publishes
<1>4. ASSUME NEW i \in DOMAIN tail', NEW j \in DOMAIN tail', tail'[i].op = "publish", tail'[j].op = "publish",
             \/ i < j /\ tail'[i].retained = tail'[j].retained
             \/ tail'[i].retained /\ ~tail'[j].retained
      PROVE  tail'[i].gen <= tail'[j].gen
  <2>0. PICK m, n : m = i + d /\ n = j + d
    OBVIOUS
  <2>1. m \in DOMAIN tail /\ tail'[i] = tail[m] /\ n \in DOMAIN tail /\ tail'[j] = tail[n] /\ (i < j => m < n)
    BY <1>1, <1>2, <1>4, <2>0
  <2>2. Before(m, n)
    BY <1>4, <2>1 DEF Before
  <2> QED BY <1>4, <2>1, <2>2 DEF InTurn, Publishes
<1> QED BY <1>3, <1>4 DEF InTurn, Publishes, Before

\* and where one is asked for whose sequence is in turn with those that wait.
LEMMA TurnOne ==
    ASSUME EnvInv, EnvInv', InTurn,
           NEW d \in {0, 1}, d <= Len(tail), NEW r \in Request, r.op = "publish", Moved(d, <<r>>),
           \A n \in DOMAIN tail : n > d /\ Publishes(n) =>
             /\ (tail[n].retained = r.retained) \/ (tail[n].retained /\ ~r.retained) => tail[n].gen <= r.gen
             /\ r.retained /\ ~tail[n].retained => r.gen <= tail[n].gen
    PROVE  InTurn' /\ \A i \in DOMAIN tail' : tail'[i].op = "publish" => Waited(d, tail'[i]) \/ tail'[i] = r
<1> DEFINE more == <<r>>
           old(i) == i + d \in DOMAIN tail /\ i + d > d /\ tail'[i] = tail[i + d]
           new(i) == tail'[i] = r /\ i = Len(tail) - d + 1
<1>1. /\ tail \in Seq(Request) /\ Len(tail) \in Nat /\ DOMAIN tail = 1..Len(tail)
      /\ tail' \in Seq(Request) /\ d \in Nat
  BY RequestAt DEF EnvInv, TypeOK, ArenaTypeOK
<1>2. more \in Seq(Request) /\ DOMAIN more = {1} /\ more[1] = r /\ Moved(d, more)
  OBVIOUS
<1>3. ASSUME NEW i \in DOMAIN tail' PROVE i \in Nat \ {0} /\ (old(i) \/ new(i))
  <2> HIDE DEF more
  <2>1. i \in Nat \ {0}
    BY <1>1, <1>2, ComesFrom
  <2>2. \/ i + d \in DOMAIN tail /\ tail'[i] = tail[i + d]
        \/ i - (Len(tail) - d) \in DOMAIN more /\ tail'[i] = more[i - (Len(tail) - d)]
    BY <1>1, <1>2, ComesFrom
  <2>3. CASE i + d \in DOMAIN tail /\ tail'[i] = tail[i + d]
    BY <1>1, <2>1, <2>3
  <2>4. CASE i - (Len(tail) - d) \in DOMAIN more /\ tail'[i] = more[i - (Len(tail) - d)]
    <3>1. i - (Len(tail) - d) = 1
      BY <1>2, <2>4
    <3> QED BY <1>1, <1>2, <2>1, <2>4, <3>1
  <2> QED BY <2>1, <2>2, <2>3, <2>4
<1>4. \A i \in DOMAIN tail' : old(i) => i <= Len(tail) - d
  BY <1>1, <1>3
<1>5. ASSUME NEW i \in DOMAIN tail', tail'[i].op = "publish"
      PROVE  Waited(d, tail'[i]) \/ tail'[i] = r
  <2>1. CASE old(i)
    <3>0. PICK n : n = i + d
      OBVIOUS
    <3> QED BY <1>5, <2>1, <3>0 DEF Waited, Publishes
  <2> QED BY <1>3, <2>1
<1>6. ASSUME NEW i \in DOMAIN tail', NEW j \in DOMAIN tail', tail'[i].op = "publish", tail'[j].op = "publish",
             \/ i < j /\ tail'[i].retained = tail'[j].retained
             \/ tail'[i].retained /\ ~tail'[j].retained
      PROVE  tail'[i].gen <= tail'[j].gen
  <2>0. PICK m, n : m = i + d /\ n = j + d
    OBVIOUS
  <2>1. CASE old(i) /\ old(j)
    <3>1. m \in DOMAIN tail /\ tail'[i] = tail[m] /\ n \in DOMAIN tail /\ tail'[j] = tail[n] /\ (i < j => m < n)
      BY <1>1, <1>3, <1>6, <2>0, <2>1
    <3>2. Before(m, n)
      BY <1>6, <3>1 DEF Before
    <3> QED BY <1>6, <3>1, <3>2 DEF InTurn, Publishes
  <2>2. CASE old(i) /\ new(j)
    <3>1. m \in DOMAIN tail /\ tail'[i] = tail[m] /\ m > d /\ tail'[j] = r
      BY <2>0, <2>2
    <3> QED BY <1>6, <3>1 DEF Publishes
  <2>3. CASE new(i) /\ old(j)
    <3>1. n \in DOMAIN tail /\ tail'[j] = tail[n] /\ n > d /\ tail'[i] = r /\ ~(i < j)
      BY <1>1, <1>3, <1>4, <2>0, <2>3
    <3> QED BY <1>6, <3>1 DEF Publishes
  <2>4. CASE new(i) /\ new(j)
    <3>1. r.gen \in Nat
      BY DEF Request, PublishRequest, ReferenceRequest, InvalidateRequest
    <3> QED BY <2>4, <3>1
  <2> QED BY <1>3, <2>1, <2>2, <2>3, <2>4
<1> QED BY <1>5, <1>6 DEF InTurn, Publishes, Before

\* What a step does that asks for no publication.
AsksNone(d, more) ==
    /\ d \in {0, 1} /\ d <= Len(tail) /\ more \in Seq(Request) /\ Moved(d, more)
    /\ \A i \in DOMAIN more : more[i].op # "publish"

\* No publication is asked for by the steps of the worker that release, deliver
\* or begin,
LEMMA WorkerAsksNone ==
    ASSUME EnvInv, Holding,
           \/ \E c \in Call, reset \in BOOLEAN : StartCall(c, reset)
           \/ \E s \in Sensor : Deliver(s)
           \/ ProcessGroup
    PROVE  \E d, more : AsksNone(d, more)
<1>1. ASSUME NEW more, Submit(more), NEW W, GivesUp(more, W) PROVE AsksNone(0, more)
  <2>1. more \in Seq(Request) /\ \A i \in DOMAIN more : more[i].op = "release"
    BY <1>1 DEF GivesUp
  <2>2. 0 <= Len(tail) /\ Moved(0, more)
    BY <1>1, <2>1, SubmitMoves
  <2> QED BY <2>1, <2>2 DEF AsksNone
<1>2. ASSUME tail' = tail PROVE AsksNone(0, <<>>)
  <2>1. 0 <= Len(tail) /\ <<>> \in Seq(Request) /\ Moved(0, <<>>)
    BY <1>2, SameTail
  <2>2. \A i \in DOMAIN <<>> : <<>>[i].op # "publish"
    BY NothingAsked
  <2> QED BY <2>1, <2>2 DEF AsksNone
<1>3. ASSUME NEW c \in Call, NEW reset \in BOOLEAN, StartCall(c, reset) PROVE \E d, more : AsksNone(d, more)
  <2>1. CASE reset
    <3> DEFINE more == ReleaseAll(latest, Sensor)
                         \o FlattenSeq([s \in Sensor |-> [i \in DOMAIN queue[s] |-> Release(queue[s][i])]])
    <3>1. Submit(more)
      BY <1>3, <2>1 DEF StartCall
    <3>2. \E W : GivesUp(more, W)
      BY ResetGivesUp DEF Holding
    <3> HIDE DEF more
    <3> QED BY <1>1, <3>1, <3>2
  <2>2. CASE ~reset
    <3>1. tail' = tail
      BY <1>3, <2>2 DEF StartCall, arenaVars
    <3> QED BY <1>2, <3>1
  <2> QED BY <2>1, <2>2
<1>4. ASSUME NEW s \in Sensor, Deliver(s) PROVE \E d, more : AsksNone(d, more)
  <2> DEFINE more == ReleaseAll(latest, {s})
  <2>1. Submit(more)
    BY <1>4 DEF Deliver
  <2>2. \E W : GivesUp(more, W)
    BY DeliverGivesUp
  <2> HIDE DEF more
  <2> QED BY <1>1, <2>1, <2>2
<1>5. ASSUME ProcessGroup PROVE \E d, more : AsksNone(d, more)
  <2>1. PICK full \in BOOLEAN : full = \E s \in Mine : Len(queue[s]) >= MaxQueueFrames
    OBVIOUS
  <2> DEFINE raws == [s \in Sensor |-> handler[<<incarnation, s>>].raw]
             obs == [s \in Sensor |-> handler[<<incarnation, s>>].obs]
             more == ReleaseAll(raws, Mine) \o IF full THEN ReleaseAll(obs, Mine) ELSE <<>>
  <2>2. Submit(more)
    <3>1. CASE full
      <4>1. \E s \in Mine : Len(queue[s]) >= MaxQueueFrames
        BY <2>1, <3>1
      <4> QED BY <1>5, <3>1, <4>1 DEF ProcessGroup
    <3>2. CASE ~full
      <4>1. ~\E s \in Mine : Len(queue[s]) >= MaxQueueFrames
        BY <2>1, <3>2
      <4> QED BY <1>5, <3>2, <4>1 DEF ProcessGroup
    <3> QED BY <3>1, <3>2
  <2> HIDE DEF more
  <2>3. \E W : GivesUp(more, W)
    BY GroupGivesUp DEF more
  <2> QED BY <1>1, <2>2, <2>3
<1> QED BY <1>3, <1>4, <1>5

\* nor by recoveries, closings, the arena and the client.
LEMMA OthersAskNone ==
    ASSUME EnvInv, Holding,
           \/ \E S \in SUBSET Sensor : CaptureGroup(S)
           \/ \E h \in Handler : ObservationPublished(h) \/ CaptureFails(h)
           \/ \E c \in Call : ExternalizeFails(c)
           \/ Recover \/ Replaced \/ CloseBatch \/ Read \/ ArenaStep \/ UNCHANGED vars
    PROVE  \E d, more : AsksNone(d, more)
<1> DEFINE Good == \E d, more : AsksNone(d, more)
<1>1. ASSUME tail' = tail PROVE Good
  <2>1. 0 <= Len(tail) /\ <<>> \in Seq(Request) /\ Moved(0, <<>>)
    BY <1>1, SameTail
  <2>2. \A i \in DOMAIN <<>> : <<>>[i].op # "publish"
    BY NothingAsked
  <2>3. AsksNone(0, <<>>)
    BY <2>1, <2>2 DEF AsksNone
  <2> QED BY <2>3
<1>2. ASSUME NEW more \in Seq(Request), tail # <<>>, Over(more), \A i \in DOMAIN more : more[i].op # "publish"
      PROVE  Good
  <2>1. 1 <= Len(tail) /\ Moved(1, more)
    BY <1>2, OverMoves
  <2>2. AsksNone(1, more)
    BY <1>2, <2>1 DEF AsksNone
  <2> QED BY <2>2
<1>3. ASSUME tail # <<>>, Over(<<>>) PROVE Good
  <2> DEFINE more == <<>>
  <2>1. more \in Seq(Request) /\ Over(more) /\ \A i \in DOMAIN more : more[i].op # "publish"
    BY <1>3, NothingAsked
  <2> HIDE DEF more
  <2> HIDE DEF Good
  <2> QED BY <1>2, <1>3, <2>1
<1>4. PICK invalidate : invalidate = <<[op |-> "invalidate"]>>
  OBVIOUS
<1>5. invalidate \in Seq(Request) /\ \A i \in DOMAIN invalidate : invalidate[i].op # "publish"
  BY <1>4, InvalidateAsked
<1>6. CASE \/ \E S \in SUBSET Sensor : CaptureGroup(S)
           \/ CloseBatch \/ Read \/ UNCHANGED vars
  <2>1. tail' = tail
    BY <1>6 DEF CaptureGroup, CloseBatch, Close, Read, vars, arenaVars
  <2> QED BY <1>1, <2>1
<1>7. CASE (\E h \in Handler : ObservationPublished(h)) \/ Replaced
  <2>1. tail # <<>> /\ Over(<<>>)
    BY <1>7 DEF ObservationPublished, WriteHeader, Replaced, Grow, Running
  <2> QED BY <1>3, <2>1
<1>8. ASSUME NEW h \in Handler, CaptureFails(h) PROVE Good
  <2>1. PICK raw : raw = handler[h].raw
    OBVIOUS
  <2>2. CASE raw = None
    <3>1. tail # <<>> /\ Over(<<>>)
      BY <1>8, <2>1, <2>2 DEF CaptureFails, PublishFails, Running
    <3> QED BY <1>3, <3>1
  <2>3. CASE raw # None
    <3>1. raw \in Ref
      BY <2>1, <2>3, TypesOf DEF EnvInv, Handlers, RefOrNone
    <3>2. PICK more : more = <<Release(raw)>>
      OBVIOUS
    <3>3. GivesUp(more, {raw})
      BY <3>1, <3>2, GivesUpOne
    <3>4. more \in Seq(Request) /\ \A i \in DOMAIN more : more[i].op # "publish"
      BY <3>3 DEF GivesUp
    <3>5. tail # <<>> /\ Over(more)
      BY <1>8, <2>1, <2>3, <3>2 DEF CaptureFails, PublishFails, Running
    <3> HIDE DEF Good
    <3> QED BY <1>2, <3>4, <3>5
  <2> QED BY <2>2, <2>3
<1>9. ASSUME NEW c \in Call, ExternalizeFails(c) PROVE Good
  <2>1. tail # <<>> /\ (Over(<<>>) \/ Over(invalidate))
    BY <1>4, <1>9 DEF ExternalizeFails, PublishFails, Running
  <2> HIDE DEF Good
  <2> QED BY <1>2, <1>3, <1>5, <2>1
<1>10. CASE Recover
  <2>1. Submit(invalidate)
    BY <1>4, <1>10 DEF Recover
  <2>2. 0 <= Len(tail) /\ Moved(0, invalidate)
    BY <1>5, <2>1, SubmitMoves
  <2>3. AsksNone(0, invalidate)
    BY <1>5, <2>2 DEF AsksNone
  <2> QED BY <2>3
<1>11. CASE ArenaStep
  <2>1. PICK d \in {0, 1} : d <= Len(tail) /\ Moved(d, <<>>)
    BY <1>11, ArenaTail
  <2>2. \A i \in DOMAIN <<>> : <<>>[i].op # "publish"
    BY NothingAsked
  <2>3. AsksNone(d, <<>>)
    BY <2>1, <2>2, NothingAsked DEF AsksNone
  <2> QED BY <2>3
<1> QED BY <1>6, <1>7, <1>8, <1>9, <1>10, <1>11

\* The publications still wait in turn, and none has a sequence taken already.
Turned ==
    /\ InTurn' /\ AtTurn' /\ transportSequence <= transportSequence'
    /\ \A seq \in Nat : seq <= transportSequence /\ Ahead(seq) => Ahead(seq)'

\* So these steps keep the turn.
LEMMA TurnRests ==
    ASSUME EnvInv, EnvInv', InTurn, AtTurn, transportSequence' = transportSequence,
           NEW d, NEW more, AsksNone(d, more)
    PROVE  Turned
<1>1. InTurn' /\ \A i \in DOMAIN tail' : tail'[i].op = "publish" => Waited(d, tail'[i])
  BY TurnStays DEF AsksNone
<1>2. transportSequence \in Nat
  BY TypesOf DEF EnvInv
<1>3. AtTurn'
  BY <1>1 DEF AtTurn, Publishes, Waited
<1>4. \A seq \in Nat : Ahead(seq) => Ahead(seq)'
  BY <1>1 DEF Ahead, Publishes, Waited
<1> QED BY <1>1, <1>2, <1>3, <1>4 DEF Turned

\* One publication is asked for, with a sequence in turn.
LEMMA TurnAsks ==
    ASSUME EnvInv, EnvInv', InTurn, AtTurn, transportSequence' = transportSequence,
           NEW d \in {0, 1}, d <= Len(tail), NEW r \in Request, r.op = "publish", Moved(d, <<r>>),
           transportSequence <= r.gen, r.gen <= transportSequence + 1,
           \A seq \in Nat : seq <= transportSequence /\ Ahead(seq) => seq < r.gen,
           \A n \in DOMAIN tail : n > d /\ Publishes(n) =>
             /\ (tail[n].retained = r.retained) \/ (tail[n].retained /\ ~r.retained) => tail[n].gen <= r.gen
             /\ r.retained /\ ~tail[n].retained => r.gen <= tail[n].gen
    PROVE  Turned
<1>1. InTurn' /\ \A i \in DOMAIN tail' : tail'[i].op = "publish" => Waited(d, tail'[i]) \/ tail'[i] = r
  BY TurnOne
<1>2. transportSequence \in Nat
  BY TypesOf DEF EnvInv
<1>3. AtTurn'
  BY <1>1 DEF AtTurn, Publishes, Waited
<1>4. \A seq \in Nat : seq <= transportSequence /\ Ahead(seq) => Ahead(seq)'
  BY <1>1 DEF Ahead, Publishes, Waited
<1> QED BY <1>1, <1>2, <1>3, <1>4 DEF Turned

\* No publication is asked for any more.
LEMMA TurnEnds ==
    ASSUME EnvInv, EnvInv', InTurn, NEW d, NEW more, AsksNone(d, more),
           \A i \in DOMAIN tail : ~(i > d /\ Publishes(i)), transportSequence <= transportSequence'
    PROVE  Turned
<1>1. InTurn' /\ \A i \in DOMAIN tail' : tail'[i].op = "publish" => Waited(d, tail'[i])
  BY TurnStays DEF AsksNone
<1>2. \A i \in DOMAIN tail' : tail'[i].op # "publish"
  BY <1>1 DEF Waited
<1> QED BY <1>1, <1>2 DEF Turned, AtTurn, Ahead, Publishes

\* A raw product is asked for with the sequence of its capture, the last one,
LEMMA RenderedTurns ==
    ASSUME OneCall, EnoughGenerations, EnvInv, EnvInv', Holding, Reading, NEW h \in Handler, Rendered(h)
    PROVE  Turned
<1>0. PICK r : r = Publish(h, RawLen[h[2]], transportSequence + 1, FALSE, published + 1)
  OBVIOUS
<1>1. Submit(<<r>>) /\ transportSequence' = transportSequence
  BY <1>0 DEF Rendered
<1>2. transportSequence \in Nat /\ published \in Nat
  BY TypesOf DEF EnvInv
<1>3. /\ r \in Request /\ r.op = "publish" /\ r.retained = FALSE /\ r.gen = transportSequence + 1
  <2>1. transportSequence + 1 \in Nat /\ published + 1 \in Nat /\ h \in Caller /\ RawLen[h[2]] \in Nat \ {0}
    BY <1>2, HandlersAre, SensorsAre
  <2>2. r \in Request
    BY <1>0, <2>1, PublishType
  <2> QED BY <1>0, <2>2 DEF Publish
<1>4. <<r>> \in Seq(Request)
  BY <1>3
<1>5. 0 <= Len(tail) /\ Moved(0, <<r>>)
  BY <1>1, <1>4, SubmitMoves
<1>6. \A n \in DOMAIN tail : Publishes(n) => tail[n].gen <= r.gen
  BY <1>3 DEF Reading, AtTurn
<1> QED BY <1>1, <1>2, <1>3, <1>5, <1>6, TurnAsks DEF Reading

\* its observation with the same, while no publication behind it has a lower
\* one,
LEMMA RawTurns ==
    ASSUME OneCall, EnoughGenerations, EnvInv, EnvInv', Holding, Reading, NEW h \in Handler, RawPublished(h)
    PROVE  Turned
<1>0. PICK r : r = Publish(h, ObsLen[h[2]], handler[h].seq, TRUE, published + 1)
  OBVIOUS
<1>1. /\ handler[h].stage = "raw" /\ Running("publish") /\ Head(tail).by = h
      /\ transportSequence' = transportSequence /\ tail # <<>> /\ Over(<<r>>)
  BY <1>0 DEF RawPublished, WriteHeader, Running
<1>2. handler[h].seq \in Nat /\ published \in Nat /\ transportSequence \in Nat
  BY TypesOf DEF EnvInv, Handlers, Sequence
<1>3. /\ r \in Request /\ r.op = "publish" /\ r.retained = TRUE /\ r.gen = handler[h].seq
  <2>1. published + 1 \in Nat /\ h \in Caller /\ ObsLen[h[2]] \in Nat \ {0}
    BY <1>2, HandlersAre, SensorsAre
  <2>2. r \in Request
    BY <1>0, <1>2, <2>1, PublishType
  <2> QED BY <1>0, <2>2 DEF Publish
<1>4. <<r>> \in Seq(Request)
  BY <1>3
<1>5. 1 <= Len(tail) /\ Moved(1, <<r>>)
  BY <1>1, <1>4, OverMoves
<1>6. 1 \in DOMAIN tail /\ Publishes(1) /\ tail[1].gen = r.gen /\ tail[1].retained = FALSE
  <2>1. 1 \in DOMAIN tail /\ Publishes(1) /\ tail[1] = Head(tail)
    BY <1>1, RequestAt DEF EnvInv, TypeOK, Publishes
  <2>2. Head(tail).retained = (handler[h].stage = "obs") /\ Head(tail).gen = handler[h].seq
    BY <1>1, HandlerAnswered
  <2>3. handler[h].stage # "obs"
    BY <1>1
  <2>4. Head(tail).retained = FALSE
    BY <2>2, <2>3
  <2> QED BY <1>3, <2>1, <2>2, <2>4
<1>7. transportSequence <= r.gen /\ r.gen <= transportSequence + 1
  BY <1>6 DEF Reading, AtTurn
<1>8. \A seq \in Nat : Ahead(seq) => seq < r.gen
  BY <1>6 DEF Ahead
<1>9. ASSUME NEW n \in DOMAIN tail, n > 1, Publishes(n)
      PROVE  /\ tail[n].retained => tail[n].gen <= r.gen
             /\ ~tail[n].retained => r.gen <= tail[n].gen
             /\ tail[n].retained \in BOOLEAN
  <2>1. tail[n].retained \in BOOLEAN
    BY <1>9, RequestAt DEF EnvInv, TypeOK, PublishRequest
  <2>2. tail[n].retained => Before(n, 1)
    BY <1>6 DEF Before
  <2>3. ~tail[n].retained => Before(1, n)
    BY <1>6, <1>9, <2>1 DEF Before
  <2> QED BY <1>6, <1>9, <2>1, <2>2, <2>3 DEF Reading, InTurn
<1> QED BY <1>1, <1>3, <1>5, <1>7, <1>8, <1>9, TurnAsks DEF Reading

\* and once it is published nothing more is asked for.
LEMMA ObservationTurns ==
    ASSUME OneCall, EnoughGenerations, EnvInv, EnvInv', Holding, Reading, NEW h \in Handler, ObservationPublished(h)
    PROVE  Turned
<1>1. /\ handler[h].stage = "obs" /\ Running("publish") /\ Head(tail).by = h
      /\ transportSequence' = handler[h].seq /\ tail # <<>> /\ Over(<<>>)
  BY DEF ObservationPublished, WriteHeader, Running
<1>2. transportSequence \in Nat /\ transportSequence' \in Nat
  BY TypesOf DEF EnvInv, TypeOK, Sequence
<1> DEFINE more == <<>>
<1>3. 1 <= Len(tail) /\ more \in Seq(Request) /\ Moved(1, more) /\ \A i \in DOMAIN more : more[i].op # "publish"
  BY <1>1, NothingAsked, OverMoves
<1> HIDE DEF more
<1>4. InTurn' /\ \A i \in DOMAIN tail' : tail'[i].op = "publish" => Waited(1, tail'[i])
  BY <1>3, TurnStays DEF Reading
<1>5. 1 \in DOMAIN tail /\ Publishes(1) /\ tail[1].gen = transportSequence' /\ tail[1].retained = TRUE
  BY <1>1, RequestAt, HandlerAnswered DEF EnvInv, TypeOK, Publishes
<1>6. transportSequence <= transportSequence'
  BY <1>5 DEF Reading, AtTurn
<1>7. ASSUME NEW n \in DOMAIN tail, n > 1, Publishes(n)
      PROVE  /\ transportSequence' <= tail[n].gen /\ tail[n].gen <= transportSequence + 1
             /\ tail[n].gen \in Nat
  <2>1. tail[n].retained \in BOOLEAN /\ tail[n].gen \in Nat
    BY <1>7, RequestAt DEF EnvInv, TypeOK, PublishRequest
  <2>2. Before(1, n)
    BY <1>5, <1>7, <2>1 DEF Before
  <2> QED BY <1>5, <1>7, <2>1, <2>2 DEF Reading, InTurn, AtTurn
<1>8. AtTurn'
  <2>1. ASSUME NEW i \in DOMAIN tail', tail'[i].op = "publish"
        PROVE  transportSequence' <= tail'[i].gen /\ tail'[i].gen <= transportSequence' + 1
    <3>1. PICK n \in DOMAIN tail : n > 1 /\ Publishes(n) /\ tail[n] = tail'[i]
      BY <1>4, <2>1 DEF Waited
    <3>2. transportSequence' <= tail[n].gen /\ tail[n].gen <= transportSequence + 1 /\ tail[n].gen \in Nat
      BY <1>7, <3>1
    <3> QED BY <1>2, <1>6, <3>1, <3>2
  <2> QED BY <2>1 DEF AtTurn, Publishes
<1>9. \A seq \in Nat : Ahead(seq) => Ahead(seq)'
  BY <1>4 DEF Ahead, Publishes, Waited
<1> QED BY <1>4, <1>6, <1>8, <1>9 DEF Turned

\* The first tensor of a response has a sequence of its own, the next one,
LEMMA AnswerTurns ==
    ASSUME OneCall, EnoughGenerations, EnvInv, EnvInv', Holding, Reading, NEW c \in Call, WorkerAnswers(c)
    PROVE  Turned
<1>0. PICK seq \in Nat : seq = transportSequence + 1
  BY TypesOf DEF EnvInv
<1>1. transportSequence \in Nat /\ latest \in [Sensor -> RefOrNone] /\ published + 1 \in Nat
  BY TypesOf DEF EnvInv
<1>2. \A i \in DOMAIN tail : ~Publishes(i)
  <2>1. busy # None /\ Quiet
    BY EnvironmentAssumption DEF WorkerAnswers
  <2> QED BY <2>1, QuietIsIdle, AtWork, NothingPublished DEF Holding
<1>3. CASE Missing(latest) = {}
  <2>1. UNCHANGED arenaVars /\ transportSequence' = seq
    BY <1>0, <1>3 DEF WorkerAnswers, Respond
  <2>2. 0 <= Len(tail) /\ <<>> \in Seq(Request) /\ Moved(0, <<>>)
    BY <2>1, SameTail DEF arenaVars
  <2>3. \A i \in DOMAIN <<>> : <<>>[i].op # "publish"
    BY NothingAsked
  <2>4. AsksNone(0, <<>>)
    BY <2>2, <2>3 DEF AsksNone
  <2> QED BY <1>0, <1>1, <1>2, <2>1, <2>4, TurnEnds DEF Reading
<1>4. CASE Missing(latest) # {}
  <2>1. Min(Missing(latest)) \in Sensor
    BY <1>4, SensorsAre, MinIn DEF Missing
  <2>2. PICK r : r = Publish(c, ObsLen[Min(Missing(latest))], seq, FALSE, published + 1)
    OBVIOUS
  <2>3. Submit(<<r>>) /\ transportSequence' = transportSequence
    BY <1>0, <1>4, <2>2 DEF WorkerAnswers
  <2>4. r \in Request
    BY <1>1, <2>1, <2>2, HandlersAre, SensorsAre, PublishType
  <2>5. r.op = "publish" /\ r.gen = seq /\ r.retained = FALSE
    BY <2>2 DEF Publish
  <2>6. <<r>> \in Seq(Request)
    BY <2>4
  <2>7. 0 <= Len(tail) /\ Moved(0, <<r>>)
    BY <2>3, <2>6, SubmitMoves
  <2> QED BY <1>0, <1>1, <1>2, <2>3, <2>4, <2>5, <2>7, TurnAsks DEF Reading
<1> QED BY <1>3, <1>4

\* The publication of a response is over.
LEMMA CallAnswered ==
    ASSUME OneCall, EnvInv, Holding, Reading, NEW c \in Call, Externalized(c)
    PROVE  /\ tail # <<>> /\ 1 \in DOMAIN tail /\ Publishes(1)
           /\ tail[1].gen = call[c].seq /\ call[c].seq \in Nat
           /\ transportSequence <= call[c].seq /\ call[c].seq <= transportSequence + 1
           /\ \A i \in DOMAIN tail : ~(i > 1 /\ Publishes(i))
<1>1. /\ call[c].stage \in {"externalize", "overtaken"} /\ Running("publish")
  BY DEF Externalized
<1>2. /\ tail # <<>> /\ 1 \in DOMAIN tail /\ Publishes(1)
  BY <1>1, RequestAt DEF EnvInv, TypeOK, Publishes
<1>3. tail[1].gen = call[c].seq /\ \A i \in DOMAIN tail : ~(i > 1 /\ Publishes(i))
  BY <1>1, <1>2, ResponsePublished
<1>4. call[c].seq \in Nat
  BY TypesOf DEF EnvInv, Calls, Sequence
<1> QED BY <1>2, <1>3, <1>4 DEF Reading, AtTurn

\* as the others have.
LEMMA ExternalizedTurns ==
    ASSUME OneCall, EnoughGenerations, EnvInv, EnvInv', Holding, Reading, NEW c \in Call, Externalized(c)
    PROVE  Turned
<1>0. PICK seq, k, refs : /\ seq = call[c].seq /\ k = Min(Missing(call[c].refs))
                          /\ refs = [call[c].refs EXCEPT ![k] = ReferenceTo(Head(tail), placed)]
  <2>1. PICK seq, k : seq = call[c].seq /\ k = Min(Missing(call[c].refs))
    OBVIOUS
  <2>2. PICK refs : refs = [call[c].refs EXCEPT ![k] = ReferenceTo(Head(tail), placed)]
    OBVIOUS
  <2> QED BY <2>1, <2>2
<1>1. /\ tail # <<>> /\ 1 \in DOMAIN tail /\ Publishes(1) /\ tail[1].gen = seq /\ seq \in Nat
      /\ transportSequence <= seq /\ seq <= transportSequence + 1
      /\ \A i \in DOMAIN tail : ~(i > 1 /\ Publishes(i))
  BY <1>0, CallAnswered
<1>2. \/ Missing(refs) = {} /\ WriteHeader(<<>>) /\ Respond(c, seq, refs)
      \/ /\ Missing(refs) # {}
         /\ WriteHeader(<<Publish(c, ObsLen[Min(Missing(refs))], seq, FALSE, published + 1)>>)
         /\ transportSequence' = transportSequence
  BY <1>0 DEF Externalized
<1>3. CASE Missing(refs) = {}
  <2>1. Over(<<>>) /\ transportSequence' = seq
    BY <1>2, <1>3 DEF WriteHeader, Respond
  <2>2. \A i \in DOMAIN <<>> : <<>>[i].op # "publish"
    BY NothingAsked
  <2>3. AsksNone(1, <<>>)
    BY <1>1, <2>1, <2>2, NothingAsked, OverMoves DEF AsksNone
  <2> QED BY <1>1, <2>1, <2>3, TurnEnds DEF Reading
<1>4. CASE Missing(refs) # {}
  <2>1. Min(Missing(refs)) \in Sensor
    BY <1>4, SensorsAre, MinIn DEF Missing
  <2>2. PICK r : r = Publish(c, ObsLen[Min(Missing(refs))], seq, FALSE, published + 1)
    OBVIOUS
  <2>3. Over(<<r>>) /\ transportSequence' = transportSequence
    BY <1>2, <1>4, <2>2 DEF WriteHeader
  <2>4. r \in Request
    <3>1. published + 1 \in Nat
      BY TypesOf DEF EnvInv
    <3> QED BY <1>1, <2>1, <2>2, <3>1, HandlersAre, SensorsAre, PublishType
  <2>5. r.op = "publish" /\ r.gen = seq /\ r.retained = FALSE
    BY <2>2 DEF Publish
  <2>6. <<r>> \in Seq(Request)
    BY <2>4
  <2>7. 1 <= Len(tail) /\ Moved(1, <<r>>)
    BY <1>1, <2>3, <2>6, OverMoves
  <2>8. \A n \in Nat : Ahead(n) => n < r.gen
    BY <1>1, <2>5 DEF Ahead
  <2> QED BY <1>1, <2>3, <2>4, <2>5, <2>7, <2>8, TurnAsks DEF Reading
<1> QED BY <1>3, <1>4

\* Every action keeps the publications in turn.
LEMMA TurnKept ==
    ASSUME OneCall, EnoughGenerations, EnvInv, EnvInv', Holding, Reading, [Next]_vars
    PROVE  Turned
<1>1. ASSUME NEW d, NEW more, AsksNone(d, more), transportSequence' = transportSequence PROVE Turned
  BY <1>1, TurnRests DEF Reading
<1>2. CASE \/ \E c \in Call, reset \in BOOLEAN : StartCall(c, reset)
           \/ \E s \in Sensor : Deliver(s)
           \/ ProcessGroup
  <2>1. transportSequence' = transportSequence
    BY <1>2 DEF StartCall, Deliver, ProcessGroup
  <2> QED BY <1>1, <1>2, <2>1, WorkerAsksNone
<1>3. CASE \/ \E S \in SUBSET Sensor : CaptureGroup(S)
           \/ \E h \in Handler : CaptureFails(h)
           \/ \E c \in Call : ExternalizeFails(c)
           \/ Recover \/ Replaced \/ CloseBatch \/ Read \/ ArenaStep \/ UNCHANGED vars
  <2>1. transportSequence' = transportSequence
    BY <1>3 DEF CaptureGroup, CaptureFails, ExternalizeFails, Recover, Replaced, CloseBatch, Read, ArenaStep, vars
  <2> QED BY <1>1, <1>3, <2>1, OthersAskNone
<1> QED BY <1>2, <1>3, RenderedTurns, RawTurns, ObservationTurns, AnswerTurns, ExternalizedTurns DEF Next

-----------------------------------------------------------------------------
(***************************************************************************)
(* What is written in the file, and the sequences of frames.               *)
(***************************************************************************)

\* A header tells its sequence, its length and its digest.
LEMMA HeaderIs ==
    /\ \A g, h, n, m, c, d : Header(g, n, c) = Header(h, m, d) => g = h /\ n = m /\ c = d
    /\ \A g, n, c : "digest" \in DOMAIN Header(g, n, c) /\ Header(g, n, c).digest = c
    /\ \A c, i : "digest" \notin DOMAIN Payload(c, i)
    /\ "digest" \notin DOMAIN Zero /\ "digest" \notin DOMAIN Absent
BY DEF Header, Payload, Zero, Absent

\* A unit becomes a payload, nothing, or the header of the publication running.
LEMMA CellBecomes ==
    ASSUME ArenaTypeOK, [ArenaNext]_arenaVars, NEW u \in Unit
    PROVE  \/ cells'[u] = cells[u]
           \/ "digest" \notin DOMAIN cells'[u]
           \/ Running("publish") /\ \E n, d : cells'[u] = Header(Head(tail).gen, n, d)
<1> DEFINE Good == \/ cells'[u] = cells[u]
                   \/ "digest" \notin DOMAIN cells'[u]
                   \/ Running("publish") /\ \E n, d : cells'[u] = Header(Head(tail).gen, n, d)
<1>0. cells \in [Unit -> Cell]
  BY DEF ArenaTypeOK
<1>1. CASE WritePayload
  <2>1. cells'[u] = cells[u] \/ cells'[u] = Payload(Head(tail).content, written + 1)
    BY <1>0, <1>1 DEF WritePayload
  <2> QED BY <2>1, HeaderIs
<1>2. ASSUME NEW more, WriteHeader(more) PROVE Good
  <2>1. /\ cells'[u] = cells[u] \/ cells'[u] = Header(Head(tail).gen, Head(tail).len, Head(tail).content)
        /\ Running("publish")
    BY <1>0, <1>2 DEF WriteHeader
  <2> QED BY <2>1
<1>3. CASE EraseMagic \/ Truncate \/ \E more : Grow(more)
  <2>1. cells'[u] = cells[u] \/ cells'[u] = Zero \/ cells'[u] = Absent
    BY <1>0, <1>3 DEF EraseMagic, Truncate, Grow
  <2> QED BY <2>1, HeaderIs
<1>4. CASE cells' = cells
  BY <1>4
<1>5. \/ WritePayload \/ (\E more : WriteHeader(more)) \/ EraseMagic \/ Truncate \/ (\E more : Grow(more))
      \/ cells' = cells
  BY DEF ArenaNext, arenaVars, Submit, PublishFails, InvalidateNothing, Place, Retain, ReleaseKeeps,
         ReleaseFrees, Close, Unlink
<1> QED BY <1>1, <1>2, <1>3, <1>4, <1>5

\* A file is truncated before it grows.
LEMMA BlankKept ==
    ASSUME Blank, [ArenaNext]_arenaVars
    PROVE  Blank'
<1>1. CASE Truncate
  BY <1>1 DEF Truncate, Blank
<1>2. CASE WritePayload \/ ReleaseFrees \/ Place
  BY <1>2 DEF WritePayload, ReleaseFrees, Place, Blank
<1>3. CASE stage' = "waiting"
  BY <1>3 DEF Blank
<1>4. CASE UNCHANGED <<cells, stage>>
  BY <1>4 DEF Blank
<1>5. \/ Truncate \/ WritePayload \/ ReleaseFrees \/ Place \/ stage' = "waiting" \/ UNCHANGED <<cells, stage>>
  BY DEF ArenaNext, arenaVars, Submit, PublishFails, WriteHeader, InvalidateNothing, Grow, Retain, ReleaseKeeps,
         EraseMagic, Close, Unlink, Over
<1> QED BY <1>1, <1>2, <1>3, <1>4, <1>5

\* Nothing that is written is taken for a reference whose sequence is past.
LEMMA TellsStays ==
    ASSUME EnvInv, [ArenaNext]_arenaVars, NEW ref \in Ref, Ahead(ref.gen), Tells(cells[ref.off], ref)
    PROVE  Tells(cells'[ref.off], ref)
<1>1. ArenaTypeOK /\ ref.off \in Unit /\ ref.gen \in Nat
  BY DEF EnvInv, TypeOK, Ref, Sequence
<1>2. CASE cells'[ref.off] = cells[ref.off] \/ "digest" \notin DOMAIN cells'[ref.off]
  BY <1>2 DEF Tells
<1>3. ASSUME Running("publish"), NEW n, NEW d, cells'[ref.off] = Header(Head(tail).gen, n, d)
      PROVE  Tells(cells'[ref.off], ref)
  <2>1. ref.gen < Head(tail).gen /\ Head(tail).gen \in Nat
    BY <1>1, <1>3, RequestAt, RunningRequest DEF Ahead, Publishes, PublishRequest
  <2>2. ref.gen # Head(tail).gen
    BY <1>1, <2>1
  <2> QED BY <1>3, <2>2, HeaderIs DEF Tells
<1> QED BY <1>1, <1>2, <1>3, CellBecomes

\* An allocation tells what its references refer to.
LEMMA LiveTells ==
    ASSUME BlocksIntact, Blank, ArenaTypeOK, NEW ref \in Ref, NEW kept, LiveAs(ref, kept)
    PROVE  Tells(cells[ref.off], ref)
<1>1. CASE stage = "grow"
  <2>1. cells[ref.off] = Absent
    BY <1>1 DEF Blank, Ref
  <2> QED BY <2>1, HeaderIs DEF Tells
<1>2. CASE stage # "grow"
  <2>1. PICK b \in blocks : b.off = ref.off /\ b.gen = ref.gen /\ b.content = ref.content
    BY DEF LiveAs
  <2>2. cells[ref.off] = Header(ref.gen, b.len, ref.content)
    BY <1>2, <2>1 DEF BlocksIntact, Holds
  <2> QED BY <2>2, HeaderIs DEF Tells
<1> QED BY <1>1, <1>2

\* Every action leaves the frames with sequences that were given already.
LEMMA FramesPastKept ==
    ASSUME OneCall, EnoughGenerations, EnvInv, EnvInv', Holding, Reading, Turned, ~late', [Next]_vars
    PROVE  FramesPast'
<1>1. /\ latest \in [Sensor -> RefOrNone] /\ queue \in [Sensor -> Seq(Ref)] /\ handler \in [Handler -> Handlers]
      /\ transportSequence \in Nat /\ transportSequence' \in Nat /\ transportSequence <= transportSequence'
      /\ None \notin Ref
  BY TypesOf, EnvironmentAssumption DEF EnvInv, TypeOK, Sequence, Turned
<1>2. /\ \A s \in Sensor : latest[s] # None => latest[s].gen \in Nat /\ latest[s].gen <= transportSequence
      /\ \A s \in Sensor : \A k \in DOMAIN queue[s] :
           queue[s][k] \in Ref /\ queue[s][k] # None /\ queue[s][k].gen \in Nat /\ queue[s][k].gen <= transportSequence
      /\ \A h \in Handler : handler[h].obs # None => handler[h].obs.gen \in Nat /\ handler[h].obs.gen <= transportSequence
  <2>1. \A r \in RefOrNone : r # None => r \in Ref /\ r.gen \in Nat
    BY DEF RefOrNone, Ref, Sequence
  <2>2. \A s \in Sensor : \A k \in DOMAIN queue[s] : queue[s][k] \in Ref /\ queue[s][k] # None
    BY FrameAt
  <2>3. \A h \in Handler : handler[h].obs \in RefOrNone
    BY <1>1 DEF Handlers
  <2> QED BY <1>1, <2>1, <2>2, <2>3 DEF Reading, FramesPast, RefOrNone
<1>3. UNCHANGED latest => \A s \in Sensor : latest'[s] # None => latest'[s].gen <= transportSequence'
  BY <1>1, <1>2
<1>4. UNCHANGED queue => \A s \in Sensor : \A k \in DOMAIN queue'[s] : queue'[s][k].gen <= transportSequence'
  BY <1>1, <1>2
<1>5. (\A h \in Handler : handler'[h].obs = handler[h].obs \/ handler'[h].obs = None) =>
        \A h \in Handler : handler'[h].obs # None => handler'[h].obs.gen <= transportSequence'
  BY <1>1, <1>2
<1>6. CASE \/ \E c \in Call, reset \in BOOLEAN : StartCall(c, reset)
  <2>1. /\ handler' = handler
        /\ \/ UNCHANGED <<queue, latest>>
           \/ queue' = [s \in Sensor |-> <<>>] /\ latest' = NoRefs
    BY <1>6 DEF StartCall
  <2> QED BY <1>3, <1>4, <1>5, <2>1 DEF FramesPast, NoRefs
<1>7. CASE Replaced \/ CloseBatch
  <2>1. WorkerGone
    BY <1>7 DEF Replaced, CloseBatch
  <2>2. queue' = [s \in Sensor |-> <<>>] /\ latest' = NoRefs
    BY <2>1 DEF WorkerGone
  <2>3. \A h \in Handler : handler'[h].obs = handler[h].obs \/ handler'[h].obs = None
    BY <2>1, GoneIsIdle DEF Resting
  <2> QED BY <1>5, <2>2, <2>3 DEF FramesPast, NoRefs
<1>8. ASSUME NEW s \in Sensor, Deliver(s) PROVE FramesPast'
  <2>1. /\ handler' = handler /\ queue[s] # <<>>
        /\ latest' = [latest EXCEPT ![s] = Head(queue[s])] /\ queue' = [queue EXCEPT ![s] = Tail(queue[s])]
    BY <1>8 DEF Deliver
  <2>2. /\ Head(queue[s]) = queue[s][1] /\ 1 \in DOMAIN queue[s]
        /\ \A k \in DOMAIN Tail(queue[s]) : k + 1 \in DOMAIN queue[s] /\ Tail(queue[s])[k] = queue[s][k + 1]
    <3>1. queue[s] \in Seq(Ref)
      BY <1>1
    <3> QED BY <2>1, <3>1
  <2>3. \A t \in Sensor : latest'[t] # None => latest'[t].gen <= transportSequence'
    BY <1>1, <1>2, <2>1, <2>2
  <2>4. \A k \in DOMAIN Tail(queue[s]) : Tail(queue[s])[k].gen <= transportSequence'
    BY <1>1, <1>2, <2>2
  <2>5. \A t \in Sensor : \A k \in DOMAIN queue'[t] : queue'[t][k].gen <= transportSequence'
    BY <1>1, <1>2, <2>1, <2>4
  <2> QED BY <1>5, <2>1, <2>3, <2>5 DEF FramesPast
<1>9. CASE ProcessGroup
  <2>1. PICK full \in BOOLEAN : full = \E s \in Mine : Len(queue[s]) >= MaxQueueFrames
    OBVIOUS
  <2>2. /\ latest' = latest /\ \A s \in Mine : handler[<<incarnation, s>>].stage = "done"
        /\ handler' = [h \in Handler |-> IF h[1] = incarnation THEN Resting ELSE handler[h]]
        /\ queue' = [s \in Sensor |-> IF s \in Mine /\ ~full THEN Append(queue[s], handler[<<incarnation, s>>].obs)
                                      ELSE queue[s]]
    BY <1>9, <2>1 DEF ProcessGroup
  <2>3. \A h \in Handler : handler'[h].obs = handler[h].obs \/ handler'[h].obs = None
    BY <2>2 DEF Resting
  <2>4. ASSUME NEW s \in Sensor, NEW k \in DOMAIN queue'[s] PROVE queue'[s][k].gen <= transportSequence'
    <3>1. CASE queue'[s] = queue[s]
      BY <1>1, <1>2, <2>4, <3>1
    <3>2. CASE s \in Mine /\ queue'[s] = Append(queue[s], handler[<<incarnation, s>>].obs)
      <4>1. <<incarnation, s>> \in Handler /\ queue[s] \in Seq(Ref) /\ handler[<<incarnation, s>>].stage = "done"
        BY <1>1, <2>2, <3>2, TypesOf DEF EnvInv, TypeOK, Handler
      <4>2. handler[<<incarnation, s>>].obs # None
        BY <1>1, <4>1 DEF EnvInv, DoneIsCaptured
      <4>3. handler[<<incarnation, s>>].obs.gen <= transportSequence'
        BY <1>1, <1>2, <4>1, <4>2
      <4>4. (k \in DOMAIN queue[s] /\ queue'[s][k] = queue[s][k]) \/ queue'[s][k] = handler[<<incarnation, s>>].obs
        BY <2>4, <3>2, <4>1, AppendProperties
      <4> QED BY <1>1, <1>2, <4>3, <4>4
    <3> QED BY <2>2, <3>1, <3>2
  <2> QED BY <1>3, <1>5, <2>2, <2>3, <2>4 DEF FramesPast
<1>10. ASSUME NEW h \in Handler, ObservationPublished(h) PROVE FramesPast'
  <2>1. /\ UNCHANGED <<queue, latest>> /\ transportSequence' = handler[h].seq
        /\ handler[h].stage = "obs" /\ Running("publish") /\ Head(tail).by = h
        /\ \A g \in Handler : g # h => handler'[g] = handler[g]
        /\ handler'[h].obs = ReferenceTo(Head(tail), placed) \/ handler'[h].obs = None
    BY <1>1, <1>10 DEF ObservationPublished, workerVars, Handlers, Resting
  <2>2. Head(tail).gen = handler[h].seq
    BY <2>1, HandlerAnswered
  <2>3. \A g \in Handler : handler'[g].obs # None => handler'[g].obs.gen <= transportSequence'
    <3>1. handler'[h].obs # None => handler'[h].obs.gen = transportSequence'
      BY <2>1, <2>2 DEF ReferenceTo
    <3> QED BY <1>1, <1>2, <2>1, <3>1
  <2> QED BY <1>3, <1>4, <2>1, <2>3 DEF FramesPast
<1>11. CASE UNCHANGED <<queue, latest>> /\ \A h \in Handler : handler'[h].obs = handler[h].obs \/ handler'[h].obs = None
  BY <1>3, <1>4, <1>5, <1>11 DEF FramesPast
<1>12. CASE handler' = handler /\ UNCHANGED <<queue, latest>>
  BY <1>11, <1>12
<1>13. ASSUME NEW S \in SUBSET Sensor, CaptureGroup(S) PROVE FramesPast'
  BY <1>11, <1>13 DEF CaptureGroup, workerVars, Resting
<1>14. ASSUME NEW h \in Handler, Rendered(h) \/ RawPublished(h) \/ CaptureFails(h) PROVE FramesPast'
  <2>1. UNCHANGED <<queue, latest>>
    BY <1>14 DEF Rendered, RawPublished, CaptureFails, workerVars
  <2>2. \A g \in Handler : g # h => handler'[g] = handler[g]
    BY <1>1, <1>14 DEF Rendered, RawPublished, CaptureFails
  <2>3. handler'[h].obs = handler[h].obs \/ handler'[h].obs = None
    <3>1. CASE Rendered(h)
      BY <1>1, <3>1 DEF Rendered, Handlers
    <3>2. CASE RawPublished(h)
      BY <1>1, <3>2 DEF RawPublished, Handlers
    <3>3. CASE CaptureFails(h)
      BY <1>1, <3>3 DEF CaptureFails, Resting
    <3> QED BY <1>14, <3>1, <3>2, <3>3
  <2>4. \A g \in Handler : handler'[g].obs = handler[g].obs \/ handler'[g].obs = None
    BY <2>2, <2>3
  <2> QED BY <1>11, <2>1, <2>4
<1>15. \/ UNCHANGED <<queue, latest>>
       \/ \E c \in Call, reset \in BOOLEAN : StartCall(c, reset)
       \/ ProcessGroup
       \/ \E s \in Sensor : Deliver(s)
       \/ Replaced
       \/ CloseBatch
  BY FrameSteps
<1>16. \/ handler' = handler
       \/ \E S \in (SUBSET Sensor) \ {{}} : CaptureGroup(S)
       \/ \E h \in Handler : Rendered(h)
       \/ \E h \in Handler : RawPublished(h)
       \/ \E h \in Handler : ObservationPublished(h)
       \/ \E h \in Handler : CaptureFails(h)
       \/ ProcessGroup
       \/ Replaced
       \/ CloseBatch
  BY HandlerSteps
<1> QED BY <1>6, <1>7, <1>8, <1>9, <1>10, <1>12, <1>13, <1>14, <1>15, <1>16

-----------------------------------------------------------------------------
(***************************************************************************)
(* What a reader is told.                                                  *)
(***************************************************************************)

\* The frames that an answer refers to.
LEMMA AnswerTells ==
    ASSUME OneCall, EnoughGenerations, EnvInv, EnvInv', Holding, Reading, Turned, NEW c \in Call, WorkerAnswers(c),
           [ArenaNext]_arenaVars, UNCHANGED clientVars => ResponseTells'
    PROVE  ResponseTells'
<1>0. PICK seq \in Nat : seq = transportSequence + 1
  BY TypesOf DEF EnvInv
<1>1. CASE Missing(latest) = {}
  <2>1. UNCHANGED arenaVars /\ transportSequence' = seq /\ response' = latest
    BY <1>0, <1>1 DEF WorkerAnswers, Respond
  <2>2. \A i \in DOMAIN tail : ~Publishes(i)
    <3>1. busy # None /\ Quiet
      BY EnvironmentAssumption DEF WorkerAnswers
    <3> QED BY <3>1, QuietIsIdle, AtWork, NothingPublished DEF Holding
  <2>3. ASSUME NEW s \in Sensor, NEW ref, ref = latest[s], ref # None
        PROVE  /\ ref.gen <= transportSequence' /\ Ahead(ref.gen)' /\ Tells(cells'[ref.off], ref)
    <3>1. ref \in Ref /\ ref.gen \in Nat
      BY <2>3, TypesOf DEF EnvInv, RefOrNone, Ref, Sequence
    <3>2. LiveAs(ref, TRUE)
      <4>1. 0 \in Places /\ Frame(s, 0) = ref
        BY <2>3, FrameAt
      <4> QED BY <2>3, <4>1 DEF Holding, FramesHeld
    <3>3. Tells(cells[ref.off], ref)
      BY <3>1, <3>2, LiveTells DEF EnvInv, Inductive, Reading
    <3>4. ref.gen <= transportSequence
      BY <2>3 DEF Reading, FramesPast
    <3>5. ref.gen <= transportSequence'
      BY <1>0, <2>1, <3>1, <3>4, TypesOf DEF EnvInv
    <3>6. Ahead(ref.gen)'
      BY <2>1, <2>2 DEF Ahead, Publishes, arenaVars
    <3> QED BY <2>1, <3>3, <3>5, <3>6 DEF arenaVars
  <2> QED BY <2>1, <2>3 DEF ResponseTells, Ahead, Publishes
<1>2. CASE Missing(latest) # {}
  <2>1. UNCHANGED clientVars
    BY <1>2 DEF WorkerAnswers
  <2> QED BY <2>1
<1> QED BY <1>1, <1>2

\* The arena writes nothing that is taken for what was published for a
\* response.
LEMMA WrittenTells ==
    ASSUME BlocksIntact', stage' # "grow", NEW ref, NEW b \in blocks',
           b.off = ref.off, b.gen = ref.gen, b.content = ref.content
    PROVE  Tells(cells'[ref.off], ref)
<1>1. cells'[ref.off] = Header(ref.gen, b.len, ref.content)
  BY DEF BlocksIntact, Holds
<1> QED BY <1>1, HeaderIs DEF Tells

\* The frames it refers to, and what was published for it.
LEMMA ExternalizedTells ==
    ASSUME OneCall, EnoughGenerations, EnvInv, EnvInv', Holding, Reading, Turned, NEW c \in Call, Externalized(c),
           [ArenaNext]_arenaVars, UNCHANGED clientVars => ResponseTells'
    PROVE  ResponseTells'
<1>0. PICK seq, k, refs : /\ seq = call[c].seq /\ k = Min(Missing(call[c].refs))
                          /\ refs = [call[c].refs EXCEPT ![k] = ReferenceTo(Head(tail), placed)]
  <2>1. PICK seq, k : seq = call[c].seq /\ k = Min(Missing(call[c].refs))
    OBVIOUS
  <2>2. PICK refs : refs = [call[c].refs EXCEPT ![k] = ReferenceTo(Head(tail), placed)]
    OBVIOUS
  <2> QED BY <2>1, <2>2
<1>1. \/ Missing(refs) = {} /\ WriteHeader(<<>>) /\ Respond(c, seq, refs)
      \/ Missing(refs) # {} /\ UNCHANGED clientVars
  BY <1>0 DEF Externalized
<1>2. CASE Missing(refs) = {}
  <2> DEFINE more == <<>>
  <2>1. /\ WriteHeader(more) /\ stage' # "grow" /\ transportSequence' = seq /\ response' = refs
        /\ call[c].stage = "overtaken" => outlived' = outlived \cup {refs[s] : s \in Sensor}
        /\ UNCHANGED latest /\ call[c].stage \in {"externalize", "overtaken"}
        /\ Running("publish") /\ Head(tail).by = c
    BY <1>1, <1>2 DEF WriteHeader, Over, Respond, Externalized, workerVars
  <2>2. more \in Seq(Request) /\ \A i \in DOMAIN more : more[i].op \notin {"publish", "release"}
    BY NothingAsked
  <2> HIDE DEF more
  <2>3. /\ tail # <<>> /\ seq \in Nat /\ transportSequence <= seq /\ transportSequence \in Nat
        /\ \A i \in DOMAIN tail : ~(i > 1 /\ Publishes(i))
    BY <1>0, CallAnswered, TypesOf DEF EnvInv
  <2>4. \A n : Ahead(n)'
    <3>1. 1 <= Len(tail) /\ Moved(1, more) /\ \A i \in DOMAIN more : more[i].op # "publish"
      BY <2>1, <2>2, <2>3, OverMoves DEF WriteHeader
    <3>2. \A i \in DOMAIN tail' : tail'[i].op = "publish" => Waited(1, tail'[i])
      BY <2>2, <3>1, TurnStays DEF Reading
    <3> QED BY <2>3, <3>2 DEF Ahead, Publishes, Waited
  <2>5. ASSUME NEW s \in Sensor, call[c].stage = "externalize", NEW ref, ref = refs[s], ref # None
        PROVE  ref.gen <= seq /\ Tells(cells'[ref.off], ref)
    <3>1. Given(refs[s], s, seq)'
      <4>1. latest' = latest /\ \A i \in DOMAIN more : more[i].op # "release"
        BY <2>1, <2>2
      <4>2. call[c].stage = "externalize" /\ Running("publish") /\ Head(tail).by = c /\ WriteHeader(more)
        BY <2>1, <2>5
      <4> QED BY <1>0, <2>2, <4>1, <4>2, ExternalizedGiven
    <3>2. blocks \subseteq blocks' /\ BlocksIntact'
      <4>1. blocks \subseteq blocks'
        BY <2>1 DEF WriteHeader
      <4> QED BY <4>1 DEF EnvInv, Inductive
    <3>3. CASE ref = latest[s]
      <4>1. 0 \in Places /\ Frame(s, 0) = ref
        BY <3>3, FrameAt
      <4>2. LiveAs(ref, TRUE)
        BY <2>5, <4>1 DEF Holding, FramesHeld
      <4>3. PICK b \in blocks' : b.off = ref.off /\ b.gen = ref.gen /\ b.content = ref.content
        BY <3>2, <4>2 DEF LiveAs
      <4>4. Tells(cells'[ref.off], ref)
        BY <2>1, <3>2, <4>3, WrittenTells
      <4>5. ref.gen <= transportSequence /\ ref.gen \in Nat
        <5>1. ref \in Ref
          BY <2>5, <3>3, TypesOf DEF EnvInv, RefOrNone
        <5> QED BY <2>5, <3>3, <5>1 DEF Reading, FramesPast, Ref, Sequence
      <4> QED BY <2>3, <4>4, <4>5
    <3>4. CASE LiveAs(ref, FALSE)' /\ ref.gen = seq
      <4>1. PICK b \in blocks' : b.off = ref.off /\ b.gen = ref.gen /\ b.content = ref.content
        BY <3>4 DEF LiveAs
      <4>2. Tells(cells'[ref.off], ref)
        BY <2>1, <3>2, <4>1, WrittenTells
      <4> QED BY <2>3, <3>4, <4>2
    <3> QED BY <2>1, <2>5, <3>1, <3>3, <3>4 DEF Given, LiveAs
  <2>6. ASSUME NEW s \in Sensor, NEW ref, ref = refs[s], ref # None
        PROVE  ref \in outlived' \/ (ref.gen <= transportSequence' /\ Tells(cells'[ref.off], ref))
    <3>1. CASE call[c].stage = "overtaken"
      BY <2>1, <2>6, <3>1
    <3>2. CASE call[c].stage = "externalize"
      BY <2>1, <2>5, <2>6, <3>2
    <3> QED BY <2>1, <3>1, <3>2
  <2> QED BY <2>1, <2>4, <2>6 DEF ResponseTells, Ahead, Publishes
<1>3. CASE Missing(refs) # {}
  <2>1. UNCHANGED clientVars
    BY <1>1, <1>3
  <2> QED BY <2>1
<1> QED BY <1>2, <1>3

\* What a response refers to is told apart, or a recovery has overtaken it.
LEMMA ResponseTold ==
    ASSUME OneCall, EnoughGenerations, EnvInv, EnvInv', Holding, Reading, Turned, [Next]_vars, [ArenaNext]_arenaVars
    PROVE  ResponseTells' /\ outlived \subseteq outlived'
<1>1. ASSUME NEW s \in Sensor, NEW ref, ref = response[s], ref # None
      PROVE  ref \in outlived \/ (ref.gen <= transportSequence' /\ Ahead(ref.gen)' /\ Tells(cells'[ref.off], ref))
  <2>1. ref \in Ref /\ ref.gen \in Nat /\ transportSequence \in Nat /\ transportSequence' \in Nat
    BY <1>1, TypesOf DEF EnvInv, TypeOK, RefOrNone, Ref, Sequence
  <2>2. CASE ref.gen <= transportSequence /\ Ahead(ref.gen) /\ Tells(cells[ref.off], ref)
    <3>1. Tells(cells'[ref.off], ref)
      BY <2>1, <2>2, TellsStays
    <3>2. Ahead(ref.gen)' /\ transportSequence <= transportSequence'
      <4>1. \A seq \in Nat : seq <= transportSequence /\ Ahead(seq) => Ahead(seq)'
        BY DEF Turned
      <4>2. PICK seq : seq = ref.gen
        OBVIOUS
      <4>3. Ahead(seq)'
        BY <2>1, <2>2, <4>1, <4>2
      <4> QED BY <4>2, <4>3 DEF Turned, Ahead, Publishes
    <3> QED BY <2>1, <2>2, <3>1, <3>2
  <2> QED BY <1>1, <2>2 DEF Reading, ResponseTells
<1>2. CASE UNCHANGED clientVars
  <2>1. response' = response /\ outlived' = outlived
    BY <1>2 DEF clientVars
  <2> QED BY <1>1, <2>1 DEF ResponseTells, Ahead, Publishes
<1>3. CASE Replaced
  <2>1. response' = response /\ outlived' = outlived \cup (ToSet(response) \ {None})
    BY <1>3 DEF Replaced
  <2>2. \A s \in Sensor : response[s] \in ToSet(response)
    BY TypesOf DEF EnvInv, ToSet
  <2> QED BY <2>1, <2>2 DEF ResponseTells
<1>4. UNCHANGED clientVars => ResponseTells'
  BY <1>2
<1>5. ASSUME NEW c \in Call, WorkerAnswers(c) \/ Externalized(c) PROVE outlived \subseteq outlived'
  BY <1>5 DEF WorkerAnswers, Externalized, Respond, clientVars
<1> QED BY <1>2, <1>3, <1>4, <1>5, ClientSteps, AnswerTells, ExternalizedTells

\* What a reader takes for a reference has its content.
LEMMA ReadTold ==
    ASSUME EnvInv, Reading, outlived \subseteq outlived', [Next]_vars
    PROVE  ReadTells'
<1>1. CASE UNCHANGED readVars
  BY <1>1 DEF Reading, ReadTells, readVars
<1>2. CASE Read
  <2>1. CASE \E s \in Sensor : response[s] # None /\ ReadBefore(response[s])
    <3>1. PICK s \in Sensor : response[s] # None /\ ReadBefore(response[s])
      BY <2>1
    <3>2. response[s] \in outlived \/ Tells(cells[response[s].off], response[s])
      BY <3>1 DEF Reading, ResponseTells
    <3>3. /\ read' = [stage |-> "payload", ref |-> response[s], before |-> cells[response[s].off]]
          /\ misread' = misread
      BY <3>1 DEF ReadBefore
    <3> QED BY <3>2, <3>3 DEF Reading, ReadTells, Tells
  <2>2. CASE ReadPayload
    <3>1. misread' = misread /\ read.stage = "payload"
      BY <2>2 DEF ReadPayload
    <3>2. \/ read' = Idle
          \/ read' = [stage |-> "after", ref |-> read.ref, before |-> read.before, payload |-> PayloadAt(read.ref)]
      BY <2>2 DEF ReadPayload
    <3> QED BY <3>1, <3>2 DEF Reading, ReadTells, Tells, Idle
  <2>3. CASE ReadAfter
    <3>1. read.stage = "after" /\ read' = Idle
      BY <2>3 DEF ReadAfter
    <3>2. CASE misread' = misread
      BY <3>1, <3>2 DEF Reading, ReadTells, Idle
    <3>3. CASE misread' # misread
      <4>1. /\ misread' = misread \cup {read.ref}
            /\ Accepts(read.ref, read.before, read.payload, cells[read.ref.off])
            /\ \E i \in DOMAIN read.payload : read.payload[i] # Payload(read.ref.content, i)
        BY <2>3, <3>3 DEF ReadAfter
      <4>2. ~Tells(read.before, read.ref)
        <5>1. SUFFICES ASSUME Tells(read.before, read.ref) PROVE FALSE
          OBVIOUS
        <5>2. /\ read.before.digest = read.ref.content
              /\ read.payload = [i \in 1..(read.ref.len - 1) |-> Payload(read.before.digest, i)]
          BY <4>1, <5>1 DEF Accepts, Tells
        <5> QED BY <4>1, <5>2
      <4>3. read.ref \in outlived
        BY <3>1, <4>2 DEF Reading, ReadTells
      <4> QED BY <3>1, <4>1, <4>3 DEF Reading, ReadTells, Idle
    <3> QED BY <3>2, <3>3
  <2> QED BY <1>2, <2>1, <2>2, <2>3 DEF Read
<1> QED BY <1>1, <1>2, ReadSteps

-----------------------------------------------------------------------------
(***************************************************************************)
(* The theorem on reads.                                                   *)
(***************************************************************************)

\* At first nothing has been published.
LEMMA InitReading == Init => Reading
<1> SUFFICES ASSUME Init PROVE Reading
  OBVIOUS
<1>1. /\ tail = <<>> /\ stage = "waiting" /\ latest = NoRefs /\ queue = [s \in Sensor |-> <<>>]
      /\ \A h \in Handler : handler[h].obs = None
      /\ response = NoRefs /\ read = Idle /\ misread = {} /\ outlived = {}
  BY DEF Init, ArenaInit, Resting
<1>2. \A i \in DOMAIN tail : FALSE
  BY <1>1, NothingAsked
<1>3. InTurn /\ AtTurn
  BY <1>2 DEF InTurn, AtTurn
<1>4. FramesPast /\ ResponseTells
  <2>1. \A s \in Sensor : latest[s] = None /\ response[s] = None /\ \A k \in DOMAIN queue[s] : FALSE
    BY <1>1, NothingAsked DEF NoRefs
  <2> QED BY <1>1, <2>1 DEF FramesPast, ResponseTells
<1>5. Blank /\ ReadTells
  BY <1>1 DEF Blank, ReadTells, Idle
<1> QED BY <1>3, <1>4, <1>5 DEF Reading

\* As long as no handler goes on without its worker.
LEMMA ReadingStep ==
    ASSUME OneCall, EnoughGenerations, EnvInv, HoldingInv, ReadingInv, [Next]_vars
    PROVE  ReadingInv'
<1> SUFFICES ASSUME ~late' PROVE Reading'
  BY DEF ReadingInv
<1>1. EnvInv' /\ [ArenaNext]_arenaVars
  BY EnvironmentStep, ArenaSteps DEF EnvInv
<1>2. Holding /\ Reading
  BY LateSteps DEF HoldingInv, ReadingInv, Replaced, CloseBatch, WorkerGone, EnvInv, TypeOK
<1>3. Turned
  BY <1>1, <1>2, TurnKept
<1>4. FramesPast'
  BY <1>1, <1>2, <1>3, FramesPastKept
<1>5. Blank'
  BY <1>1, <1>2, BlankKept DEF Reading
<1>6. ResponseTells' /\ outlived \subseteq outlived'
  BY <1>1, <1>2, <1>3, ResponseTold
<1>7. ReadTells'
  BY <1>2, <1>6, ReadTold
<1> QED BY <1>3, <1>4, <1>5, <1>6, <1>7 DEF Reading, Turned

\* With one call in flight and no more routes than generations, a reader that
\* accepts a reference has the content it was published with, also when the
\* block has been reused since: a later block has a later sequence in its
\* header. Responses that a recovery overtakes, and handlers that outlive their
\* worker, are excepted (ReadIsTruthful; SharedTensorArena.js:144-232,
\* HeadlessSupervisor.js:1055-1160, 1361-1583, python/src/cev_sim/tensors.py).
THEOREM TruthfulReads ==
    ASSUME OneCall, EnoughGenerations
    PROVE  Spec => []ReadIsTruthful
<1>1. Init => EnvInv /\ HoldingInv /\ ReadingInv
  BY InitEnvironment, InitHolding, InitReading DEF HoldingInv, ReadingInv
<1>2. EnvInv /\ HoldingInv /\ ReadingInv /\ [Next]_vars => EnvInv' /\ HoldingInv' /\ ReadingInv'
  BY EnvironmentStep, HoldingStep, ReadingStep
<1>3. EnvInv /\ HoldingInv /\ ReadingInv => ReadIsTruthful
  BY DEF ReadingInv, Reading, ReadTells, ReadIsTruthful
<1> QED BY <1>1, <1>2, <1>3, PTL DEF Spec
=============================================================================
