--------------------------- MODULE TensorIRProofs ---------------------------
(***************************************************************************)
(* Proofs about TensorIR, for every program, shape, pass configuration and *)
(* size of the scratchpad: the op list stays a typed SSA list, numbered by *)
(* position, through every pass; fusion is complete and never leaves an    *)
(* absorbed op in what is compiled; what tiling stages is intact when it   *)
(* is read, and its report is right; what is printed never changes.        *)
(*                                                                         *)
(* The inductive invariant is a conjunction of four layers, each proved    *)
(* from those before it: IRInv, FusionInv, ShapesInv and TilingInv.        *)
(***************************************************************************)
EXTENDS TensorIR, FiniteSetTheorems, SequenceTheorems, Induction, TLAPS

-----------------------------------------------------------------------------
(* The first layer: a heap of typed ops and a list of them.                *)

Pointer == Nat \ {0}

OpRecord ==
  [kind: OpKinds, shape: TensorShape, operands: Seq(Pointer), id: Nat,
   fusible: BOOLEAN, scratchOffset: -1 .. ScratchpadTiles - 1]

arities(kind) ==
  IF kind \in LeafKinds THEN {0}
  ELSE IF kind \in BinaryKinds \cup {"TiledMatMul"} THEN {2}
  ELSE IF kind = "FusedMatMulAcc" THEN {3}
  ELSE IF kind = "FusedMatMulRelu" THEN {2, 3}
  ELSE {1}

IsHeap(h) ==
  /\ IsFiniteSet(DOMAIN h) /\ DOMAIN h \subseteq Pointer
  /\ h \in [DOMAIN h -> OpRecord]
  /\ \A p \in DOMAIN h : Len(h[p].operands) \in arities(h[p].kind)

\* `list` has every op of h once.
Lists(list, h) ==
  /\ list \in Seq(DOMAIN h)
  /\ \A p \in DOMAIN h : \E k \in 1 .. Len(list) : list[k] = p
  /\ \A j, k \in 1 .. Len(list) : list[j] = list[k] => j = k

\* Its ops refer to earlier ops, and their ids are their places.
Ordered(list, h) ==
  \A k \in 1 .. Len(list) : \A i \in 1 .. Len(h[list[k]].operands) :
    \E j \in 1 .. k - 1 : list[j] = h[list[k]].operands[i]
Numbered(list, h) == \A k \in 1 .. Len(list) : h[list[k]].id = k - 1

IsFunction(list, h) ==
  IsHeap(h) /\ Lists(list, h) /\ Ordered(list, h) /\ Numbered(list, h)

FnInv == IsFunction(ops, heap)

\* The part of the list that elimination has swept keeps what it reads.
MarkedInv ==
  /\ live \subseteq DOMAIN heap
  /\ \A k \in cursor + 1 .. Len(ops) :
       /\ heap[ops[k]].kind = "Print" => ops[k] \in live
       /\ ops[k] \in live =>
            \A i \in 1 .. Len(heap[ops[k]].operands) : heap[ops[k]].operands[i] \in live

Candidate == [operandIndex: {1, 2}, tiles: Nat \ {0}, uses: Nat]

ConsumersInv ==
  /\ consumers \in Seq(DOMAIN heap) /\ owner \in DOMAIN heap \cup {Nobody}
  /\ \A k \in 1 .. Len(consumers) : isMatMulFamily(heap[consumers[k]].kind)
  /\ owner # Nobody => isMatMulFamily(heap[owner].kind)
  /\ cands \subseteq Candidate /\ used \in 0 .. ScratchpadTiles

IRInv ==
  /\ config \in Configs /\ stage \in Stage
  /\ FnInv
  /\ cursor \in 0 .. Len(ops) + 1
  /\ stage = "fuse" => cursor # 0
  /\ stage = "mark" => cursor <= Len(ops) /\ MarkedInv
  /\ stage \in {"lower", "tile", "done"} => cursor = 0
  /\ stage \in {"lower", "fuse"} => live = {}
  /\ stage \in {"lower", "fuse", "mark"} =>
       consumers = << >> /\ owner = Nobody /\ cands = {} /\ used = 0 /\ staged = << >>
  /\ ConsumersInv

-----------------------------------------------------------------------------
(* The second layer: what fusion has done to the readers of a value.       *)

\* Operand i of q is x.
ReadsIn(h, q, i, x) ==
  q \in DOMAIN h /\ i \in 1 .. Len(h[q].operands) /\ h[q].operands[i] = x
Reads(q, i, x) == ReadsIn(heap, q, i, x)

\* No op refers to an absorbed one, which is no Print.
AbsorbedInv ==
  \A p \in DOMAIN heap : ~heap[p].fusible =>
    /\ heap[p].kind \in {"MatMul", "FusedMatMulAcc"}
    /\ \A q \in DOMAIN heap, i \in 1 .. 3 : ~Reads(q, i, p)

\* While an op that has the sole use of a value is still to be visited, no
\* rewrite has copied that use.
SoleReaders ==
  \A k \in cursor .. Len(ops), i \in 1 .. 3, x \in DOMAIN heap :
    Reads(ops[k], i, x) /\ uses[x] = 1 =>
      \A q \in DOMAIN heap, j \in 1 .. 3 : Reads(q, j, x) => q = ops[k] /\ j = i

\* A value that had several uses still has.
SharedReaders ==
  \A q \in DOMAIN heap, i \in 1 .. 3, x \in DOMAIN heap :
    Reads(q, i, x) /\ uses[x] # 1 =>
      \E r \in DOMAIN heap, j \in 1 .. 3 : Reads(r, j, x) /\ <<r, j>> # <<q, i>>

\* The ops visited and not fused had nothing to absorb.
VisitedInv ==
  \A k \in 1 .. Len(ops) : stage = "mark" \/ k < cursor =>
    /\ heap[ops[k]].kind = "Relu" =>
         LET q == heap[ops[k]].operands[1] IN
           heap[q].kind \in {"MatMul", "FusedMatMulAcc"} => uses[q] # 1
    /\ heap[ops[k]].kind = "Add" =>
         \A side \in {1, 2} :
           LET q == heap[ops[k]].operands[side] IN
             \/ heap[q].kind # "MatMul" \/ uses[q] # 1
             \/ heap[ops[k]].operands[3 - side] = q

FusionInv ==
  /\ AbsorbedInv
  /\ stage = "lower" => \A p \in DOMAIN heap : heap[p].fusible
  /\ stage = "fuse" => config.fusion /\ SoleReaders
  /\ stage \in {"fuse", "mark"} /\ config.fusion =>
       /\ uses \in [DOMAIN heap -> Nat] /\ SharedReaders /\ VisitedInv
  /\ stage = "mark" => \A p \in live : heap[p].fusible
  /\ stage \in {"tile", "done"} => \A p \in DOMAIN heap : heap[p].fusible

-----------------------------------------------------------------------------
(* The third layer: the shapes of an op and of its operands fit.           *)

Broadcasts(s, t) == s.batch \in {1, t.batch}

\* An op of this kind and shape over operands of shapes s and t.
ShapesAllowed(kind, out, s, t) ==
  /\ isMatMulFamily(kind) =>
       /\ s.rows = out.rows /\ t.cols = out.cols /\ s.cols = t.rows
       /\ Broadcasts(s, out) /\ Broadcasts(t, out)
  /\ kind = "Add" =>
       /\ s.rows = out.rows /\ s.cols = out.cols /\ Broadcasts(s, out)
       /\ t.rows = out.rows /\ t.cols = out.cols /\ Broadcasts(t, out)
  /\ kind = "Relu" => s = out

ShapeOf(h, p, i) == h[h[p].operands[i]].shape
OpFits(h, p) == ShapesAllowed(h[p].kind, h[p].shape, ShapeOf(h, p, 1), ShapeOf(h, p, 2))
ShapesFit(h) == \A p \in DOMAIN h : OpFits(h, p)

ShapesInv == ShapesFit(heap)

-----------------------------------------------------------------------------
(* The fourth layer: what tiling has staged, and where.                    *)

IsStaging(kind) == kind \in {"ScratchStore", "ScratchLoad"}

\* Operand i of p is loaded from the scratchpad, and by which store it got there.
Loads(h, p, i) == h[h[p].operands[i]].kind = "ScratchLoad"
StoreOf(h, p, i) == h[h[p].operands[i]].operands[1]

RegionIn(h, store) ==
  h[store].scratchOffset .. h[store].scratchOffset + tiles(h[store].shape) - 1

\* Between a store and the consumer of its load there is nothing but other
\* staging for that consumer, elsewhere in the scratchpad.
StoreReaches(list, h, store, p) ==
  \E j, k \in 1 .. Len(list) :
    /\ j < k /\ list[j] = store /\ list[k] = p
    /\ \A m \in j + 1 .. k - 1 :
         /\ IsStaging(h[list[m]].kind)
         /\ h[list[m]].kind = "ScratchStore" =>
              RegionIn(h, list[m]) \cap RegionIn(h, store) = {}

LoadReaches(list, h, p, i) ==
  /\ isMatMulFamily(h[p].kind) /\ StoreOf(h, p, i) \in DOMAIN h
  /\ RegionIn(h, StoreOf(h, p, i)) \subseteq 0 .. ScratchpadTiles - 1
  /\ StoreReaches(list, h, StoreOf(h, p, i), p)

\* Only consumers that were visited load, and the one being visited loads
\* what it has used the scratchpad for.
LoadsInv ==
  \A p \in DOMAIN heap : \A i \in 1 .. Len(heap[p].operands) : Loads(heap, p, i) =>
    /\ LoadReaches(ops, heap, p, i)
    /\ \A k \in 1 .. Len(consumers) : consumers[k] # p
    /\ p = owner => RegionIn(heap, StoreOf(heap, p, i)) \subseteq 0 .. used - 1
    /\ p = owner => \A c \in cands : c.operandIndex # i

\* A candidate's counts are those of the consumer's loop nest.
Iterations(h, p) ==
  h[p].shape.batch * tilesOf(h[p].shape.rows) * tilesOf(h[p].shape.cols)
    * tilesOf(ShapeOf(h, p, 1).cols)

Counts(h, p, c) ==
  c.tiles * c.uses = Iterations(h, p) /\ c.tiles = tiles(ShapeOf(h, p, c.operandIndex))

Staged(h, d) ==
  /\ d.owner \in DOMAIN h /\ d.of \in Candidate
  /\ isMatMulFamily(h[d.owner].kind)
  /\ Loads(h, d.owner, d.of.operandIndex)
  /\ Counts(h, d.owner, d.of)

StagedOperands == Seq([owner: Pointer, consumerId: Int, of: Candidate])

TilingInv ==
  /\ stage \in {"lower", "fuse", "mark"} => \A p \in DOMAIN heap : ~IsStaging(heap[p].kind)
  /\ LoadsInv
  /\ \A j, k \in 1 .. Len(consumers) : consumers[j] = consumers[k] => j = k
  /\ \A k \in 1 .. Len(consumers) : consumers[k] # owner
  /\ \A c, d \in cands : c.operandIndex = d.operandIndex => c = d
  /\ owner # Nobody => \A c \in cands : Counts(heap, owner, c)
  /\ staged \in StagedOperands
  /\ \A k \in 1 .. Len(staged) : Staged(heap, staged[k])
  /\ stage = "done" => \A k \in 1 .. Len(staged) :
       staged[k].consumerId = heap[staged[k].owner].id

-----------------------------------------------------------------------------
(* The operators the passes are built from.                                *)

\* A new op gets a pointer that no op alive has: one more number than there
\* are ops cannot all be taken.
LEMMA FreshIsNew ==
  ASSUME NEW taken, IsFiniteSet(taken)
  PROVE  Fresh(taken) \in Pointer /\ Fresh(taken) \notin taken
<1>1. Cardinality(taken) \in Nat
  BY FS_CardinalityType
<1>2. ~(1 .. 1 + Cardinality(taken) \subseteq taken)
  <2> SUFFICES ASSUME 1 .. 1 + Cardinality(taken) \subseteq taken PROVE FALSE
    OBVIOUS
  <2>1. Cardinality(1 .. 1 + Cardinality(taken)) = 1 + Cardinality(taken)
    BY <1>1, FS_Interval, 1 \in Int
  <2>2. Cardinality(1 .. 1 + Cardinality(taken)) <= Cardinality(taken)
    BY FS_Subset
  <2> QED
    BY <1>1, <2>1, <2>2
<1>3. \E p \in 1 .. 1 + Cardinality(taken) : p \notin taken
  BY <1>2
<1> QED
  BY <1>1, <1>3 DEF Fresh, Pointer

\* Counting the members of a set of positions up to each of them numbers
\* them 1, 2, 3, ... without a gap.
LEMMA PlacesOntoCounts ==
  ASSUME NEW L \in Nat, NEW at \in SUBSET (1 .. L)
  PROVE  /\ Cardinality(at) \in Nat
         /\ \A j, k \in at : j < k =>
              Cardinality({i \in at : i <= j}) < Cardinality({i \in at : i <= k})
         /\ \A n \in 1 .. Cardinality(at) :
              \E k \in at : Cardinality({i \in at : i <= k}) = n
<1> DEFINE upTo(k) == {i \in at : i <= k}
           place(k) == Cardinality(upTo(k))
<1>1. IsFiniteSet(at) /\ Cardinality(at) \in Nat /\ at \subseteq Int
  <2>1. IsFiniteSet(1 .. L)
    BY FS_Interval, 1 \in Int, L \in Int
  <2>2. IsFiniteSet(at)
    BY <2>1, FS_Subset
  <2>3. Cardinality(at) \in Nat
    BY <2>2, FS_CardinalityType
  <2> QED
    BY <2>2, <2>3
<1>2. \A k \in at : IsFiniteSet(upTo(k)) /\ place(k) \in 1 .. Cardinality(at)
  <2> SUFFICES ASSUME NEW k \in at
               PROVE  IsFiniteSet(upTo(k)) /\ place(k) \in 1 .. Cardinality(at)
    OBVIOUS
  <2>1. IsFiniteSet(upTo(k)) /\ place(k) <= Cardinality(at)
    BY <1>1, FS_Subset
  <2>2. place(k) \in Nat /\ place(k) # 0
    <3>1. k \in upTo(k)
      OBVIOUS
    <3> QED
      BY <2>1, <3>1, FS_CardinalityType, FS_EmptySet
  <2> QED
    BY <1>1, <2>1, <2>2
<1>3. ASSUME NEW j \in at, NEW k \in at, j < k
      PROVE  place(j) < place(k)
  <2>1. \A i \in upTo(j) \cup {k} : i \in upTo(k)
    <3>1. j \in Int /\ k \in Int /\ \A i \in at : i \in Int
      BY <1>1
    <3> QED
      BY <1>3, <3>1
  <2>4. k \notin upTo(j)
    BY <1>1, <1>3
  <2>2. Cardinality(upTo(j) \cup {k}) = place(j) + 1
    BY <1>2, <2>4, FS_AddElement
  <2>3. Cardinality(upTo(j) \cup {k}) <= place(k)
    BY <1>2, <2>1, FS_Subset
  <2> QED
    BY <1>2, <2>2, <2>3
<1>4. \A n \in 1 .. Cardinality(at) : \E k \in at : place(k) = n
  <2> DEFINE N == 1 .. Cardinality(at)
             f == [k \in at |-> place(k)]
  <2>1. f \in [at -> N]
    BY <1>2
  <2>2. \A j, k \in at : f[j] = f[k] => j = k
    <3> SUFFICES ASSUME NEW j \in at, NEW k \in at, j # k
                 PROVE  f[j] # f[k]
      OBVIOUS
    <3>1. place(j) \in Int /\ place(k) \in Int
      BY <1>2
    <3>2. j < k \/ k < j
      OBVIOUS
    <3> QED
      BY <1>3, <3>1, <3>2
  <2>3. IsFiniteSet(N) /\ Cardinality(N) = Cardinality(at)
    BY <1>1, FS_Interval, 1 \in Int
  <2>4. f \in Injection(at, N)
    BY <2>1, <2>2 DEF Injection, IsInjective
  <2>5. f \in Surjection(at, N)
    BY <2>3, <2>4, FS_Injection
  <2> QED
    BY <2>5 DEF Surjection
<1> QED
  BY <1>1, <1>3, <1>4

\* keep() is the part of a list in a set: an increasing choice of positions,
\* of all those whose element is in the set.
Selects(kept, list, set) ==
  \E f \in [1 .. Len(kept) -> 1 .. Len(list)] :
    /\ \A n \in 1 .. Len(kept) : kept[n] = list[f[n]]
    /\ \A m, n \in 1 .. Len(kept) : m < n => f[m] < f[n]
    /\ \A k \in 1 .. Len(list) : list[k] \in set =>
         \E n \in 1 .. Len(kept) : f[n] = k

LEMMA KeepProperties ==
  ASSUME NEW S, NEW list \in Seq(S), NEW set
  PROVE  /\ keep(list, set) \in Seq(S \cap set)
         /\ Selects(keep(list, set), list, set)
<1> DEFINE at == {k \in 1 .. Len(list) : list[k] \in set}
           place(k) == Cardinality({j \in at : j <= k})
           C == Cardinality(at)
           f == [n \in 1 .. C |-> CHOOSE k \in at : place(k) = n]
           kept == [n \in 1 .. C |-> list[f[n]]]
<1>1. keep(list, set) = kept
  BY DEF keep
<1>2. at \in SUBSET (1 .. Len(list)) /\ Len(list) \in Nat
  OBVIOUS
<1>3. /\ C \in Nat
      /\ \A j, k \in at : j < k => place(j) < place(k)
      /\ \A n \in 1 .. C : \E k \in at : place(k) = n
  <2> HIDE DEF at
  <2> QED
    BY <1>2, PlacesOntoCounts
<1>4. \A k \in at : place(k) \in 1 .. C
  <2> SUFFICES ASSUME NEW k \in at
               PROVE  place(k) \in 1 .. C
    OBVIOUS
  <2> DEFINE upTo == {j \in at : j <= k}
  <2>1. IsFiniteSet(at) /\ upTo \subseteq at
    <3>1. IsFiniteSet(1 .. Len(list))
      BY <1>2, FS_Interval, 1 \in Int, Len(list) \in Int
    <3> QED
      BY <1>2, <3>1, FS_Subset
  <2>2. IsFiniteSet(upTo) /\ Cardinality(upTo) <= C
    BY <2>1, FS_Subset
  <2>3. k \in upTo
    BY <1>2
  <2>4. Cardinality(upTo) \in Nat /\ Cardinality(upTo) # 0
    BY <2>2, <2>3, FS_CardinalityType, FS_EmptySet
  <2> QED
    BY <1>3, <2>2, <2>4
<1>5. \A n \in 1 .. C : f[n] \in at /\ place(f[n]) = n
  <2> SUFFICES ASSUME NEW n \in 1 .. C
               PROVE  f[n] \in at /\ place(f[n]) = n
    OBVIOUS
  <2>1. \E k \in at : place(k) = n
    BY <1>3
  <2> HIDE DEF at, place
  <2> QED
    BY <2>1
<1> HIDE DEF place, f
<1>6. \A k \in at : f[place(k)] = k
  <2> SUFFICES ASSUME NEW k \in at PROVE f[place(k)] = k
    OBVIOUS
  <2>1. f[place(k)] \in at /\ place(f[place(k)]) = place(k) /\ place(k) \in Int
    BY <1>3, <1>4, <1>5
  <2>2. f[place(k)] \in Int /\ k \in Int
    BY <1>2, <2>1
  <2>3. f[place(k)] < k \/ k < f[place(k)] \/ f[place(k)] = k
    BY <2>2
  <2> QED
    BY <1>3, <2>1, <2>3
<1>7. \A m, n \in 1 .. C : m < n => f[m] < f[n]
  <2> SUFFICES ASSUME NEW m \in 1 .. C, NEW n \in 1 .. C, m < n, ~(f[m] < f[n])
               PROVE  FALSE
    OBVIOUS
  <2>1. f[m] \in at /\ f[n] \in at /\ place(f[m]) = m /\ place(f[n]) = n
    BY <1>5
  <2>2. f[m] \in Int /\ f[n] \in Int
    BY <1>2, <2>1
  <2>3. f[n] < f[m] \/ f[n] = f[m]
    BY <2>2
  <2>4. n < m \/ n = m
    BY <1>3, <2>1, <2>3
  <2> QED
    BY <1>3, <2>4
<1>8. kept \in Seq(S \cap set) /\ Len(kept) = C
  <2>1. \A k \in 1 .. Len(list) : list[k] \in S
    OBVIOUS
  <2>2. \A n \in 1 .. C : list[f[n]] \in S \cap set
    BY <1>5, <2>1 DEF at
  <2> QED
    BY <1>3, <2>2
<1>9. f \in [1 .. Len(kept) -> 1 .. Len(list)]
  BY <1>2, <1>5, <1>8 DEF f
<1>10. \A k \in 1 .. Len(list) : list[k] \in set => \E n \in 1 .. Len(kept) : f[n] = k
  BY <1>4, <1>6, <1>8 DEF at
<1> QED
  BY <1>1, <1>7, <1>8, <1>9, <1>10 DEF Selects

\* Equal but for the id, which renumber() alone sets.
SameOp(r, s) ==
  /\ r.kind = s.kind /\ r.shape = s.shape /\ r.operands = s.operands
  /\ r.fusible = s.fusible /\ r.scratchOffset = s.scratchOffset

\* renumber() makes ids positions and changes nothing else.
LEMMA RenumberProperties ==
  ASSUME NEW h, IsHeap(h), NEW list, Lists(list, h)
  PROVE  LET g == renumber(h, list) IN
         /\ DOMAIN g = DOMAIN h /\ \A p \in DOMAIN h : SameOp(g[p], h[p])
         /\ IsHeap(g) /\ Lists(list, g) /\ Numbered(list, g)
<1> DEFINE g == renumber(h, list)
           place(p) == CHOOSE k \in 1 .. Len(list) : list[k] = p
<1>1. DOMAIN g = DOMAIN h
  BY DEF renumber
<1>2. \A p \in DOMAIN h : place(p) \in 1 .. Len(list) /\ list[place(p)] = p
  BY DEF Lists
<1>3. \A p \in DOMAIN h : g[p] = [h[p] EXCEPT !.id = place(p) - 1]
  BY DEF renumber, Lists
<1> HIDE DEF place, g
<1>4. \A p \in DOMAIN h : SameOp(g[p], h[p]) /\ g[p] \in OpRecord /\ g[p].id = place(p) - 1
  <2> SUFFICES ASSUME NEW p \in DOMAIN h
               PROVE  SameOp(g[p], h[p]) /\ g[p] \in OpRecord /\ g[p].id = place(p) - 1
    OBVIOUS
  <2>1. h[p] \in OpRecord
    BY DEF IsHeap
  <2>2. place(p) - 1 \in Nat
    BY <1>2
  <2> QED
    BY <1>3, <2>1, <2>2 DEF SameOp, OpRecord
<1>5. IsHeap(g)
  <2>1. g = [p \in DOMAIN g |-> g[p]]
    BY DEF g, renumber
  <2>2. g \in [DOMAIN g -> OpRecord]
    BY <1>1, <1>4, <2>1
  <2> QED
    BY <1>1, <1>4, <2>2 DEF IsHeap, SameOp
<1>6. Lists(list, g)
  BY <1>1 DEF Lists
<1>7. Numbered(list, g)
  <2> SUFFICES ASSUME NEW k \in 1 .. Len(list)
               PROVE  g[list[k]].id = k - 1
    BY DEF Numbered
  <2>1. list[k] \in DOMAIN h
    BY DEF Lists
  <2>2. place(list[k]) = k
    BY <1>2, <2>1 DEF Lists
  <2> QED
    BY <1>4, <2>1, <2>2
<1> QED
  BY <1>1, <1>4, <1>5, <1>6, <1>7 DEF g

\* Two ops inserted before position n: the rest of the list moves up by two.
Insert(list, n, a, b) ==
  SubSeq(list, 1, n - 1) \o <<a, b>> \o SubSeq(list, n, Len(list))

IsInsertion(more, list, n, a, b) ==
  /\ Len(more) = Len(list) + 2
  /\ \A k \in 1 .. n - 1 : more[k] = list[k]
  /\ more[n] = a /\ more[n + 1] = b
  /\ \A k \in n .. Len(list) : more[k + 2] = list[k]

LEMMA InsertProperties ==
  ASSUME NEW S, NEW list \in Seq(S), NEW n \in 1 .. Len(list), NEW a \in S, NEW b \in S
  PROVE  /\ Insert(list, n, a, b) \in Seq(S)
         /\ IsInsertion(Insert(list, n, a, b), list, n, a, b)
<1> DEFINE front == SubSeq(list, 1, n - 1)
           back == SubSeq(list, n, Len(list))
           more == Insert(list, n, a, b)
<1>1. /\ front \in Seq(S) /\ Len(front) = n - 1
      /\ \A k \in 1 .. n - 1 : front[k] = list[k]
  OBVIOUS
<1>2. /\ back \in Seq(S) /\ Len(back) = Len(list) - n + 1
      /\ \A k \in 1 .. Len(list) - n + 1 : back[k] = list[k + n - 1]
  OBVIOUS
<1>3. <<a, b>> \in Seq(S) /\ Len(<<a, b>>) = 2 /\ <<a, b>>[1] = a /\ <<a, b>>[2] = b
  OBVIOUS
<1>4. more = front \o <<a, b>> \o back
  BY DEF Insert
<1> HIDE DEF front, back, more
<1> DEFINE head == front \o <<a, b>>
<1>5. /\ head \in Seq(S) /\ Len(head) = n + 1
      /\ \A k \in 1 .. n - 1 : head[k] = list[k]
      /\ head[n] = a /\ head[n + 1] = b
  BY <1>1, <1>3, SMTT(30)
<1>9. more = head \o back
  BY <1>4
<1> HIDE DEF head
<1>6. more \in Seq(S) /\ Len(more) = Len(list) + 2
  <2>1. more \in Seq(S) /\ Len(more) = Len(head) + Len(back)
    BY <1>2, <1>5, <1>9, ConcatProperties
  <2>2. Len(head) + Len(back) = Len(list) + 2
    BY <1>2, <1>5, Len(list) \in Nat
  <2> QED
    BY <2>1, <2>2
<1>7. \A k \in 1 .. n + 1 : more[k] = head[k]
  BY <1>2, <1>5, <1>9
<1>8. \A k \in n .. Len(list) : more[k + 2] = list[k]
  <2> SUFFICES ASSUME NEW k \in n .. Len(list)
               PROVE  more[k + 2] = list[k]
    OBVIOUS
  <2>1. more[k + 2] = back[k - n + 1]
    BY <1>2, <1>5, <1>9
  <2> QED
    BY <1>2, <2>1
<1> QED
  BY <1>5, <1>6, <1>7, <1>8 DEF more, IsInsertion

-----------------------------------------------------------------------------
(* What the passes do to the list keeps it a function.                     *)

\* An op appended, over values that are there.
LEMMA AddKeepsFunction ==
  ASSUME NEW h, NEW list, IsFunction(list, h), NEW op \in OpRecord,
         Len(op.operands) \in arities(op.kind), op.id = Len(list),
         \A i \in 1 .. Len(op.operands) : op.operands[i] \in DOMAIN h
  PROVE  LET p == Fresh(DOMAIN h) IN
         /\ p \notin DOMAIN h /\ p \in Pointer
         /\ IsFunction(Append(list, p), put(h, p, op))
<1> DEFINE p == Fresh(DOMAIN h)
           g == put(h, p, op)
           more == Append(list, p)
<1>1. p \notin DOMAIN h /\ p \in Pointer
  BY FreshIsNew DEF IsFunction, IsHeap
<1> HIDE DEF p
<1>2. /\ DOMAIN g = DOMAIN h \cup {p} /\ g[p] = op
      /\ \A q \in DOMAIN h : g[q] = h[q]
      /\ g = [q \in DOMAIN g |-> g[q]]
  BY <1>1 DEF put
<1> HIDE DEF g
<1>3. IsHeap(g)
  <2>1. IsFiniteSet(DOMAIN g)
    BY <1>2, FS_AddElement DEF IsFunction, IsHeap
  <2>2. \A q \in DOMAIN g : g[q] \in OpRecord /\ Len(g[q].operands) \in arities(g[q].kind)
    BY <1>2 DEF IsFunction, IsHeap
  <2>3. g \in [DOMAIN g -> OpRecord]
    BY <1>2, <2>2
  <2> QED
    BY <1>1, <1>2, <2>1, <2>2, <2>3 DEF IsFunction, IsHeap
<1>4. /\ more \in Seq(DOMAIN g) /\ Len(more) = Len(list) + 1 /\ more[Len(list) + 1] = p
      /\ \A k \in 1 .. Len(list) : more[k] = list[k] /\ list[k] \in DOMAIN h
      /\ Len(list) \in Nat
  <2>1. list \in Seq(DOMAIN g)
    BY <1>2 DEF IsFunction, Lists
  <2> QED
    BY <1>2, <2>1 DEF IsFunction, Lists
<1> HIDE DEF more
<1>5. Lists(more, g)
  <2>1. \A q \in DOMAIN g : \E k \in 1 .. Len(more) : more[k] = q
    <3> SUFFICES ASSUME NEW q \in DOMAIN g
                 PROVE  \E k \in 1 .. Len(more) : more[k] = q
      OBVIOUS
    <3>1. CASE q = p
      BY <1>4, <3>1
    <3>2. CASE q \in DOMAIN h
      <4>1. PICK k \in 1 .. Len(list) : list[k] = q
        BY <3>2 DEF IsFunction, Lists
      <4> QED
        BY <1>4, <4>1
    <3> QED
      BY <1>2, <3>1, <3>2
  <2>2. \A j, k \in 1 .. Len(more) : more[j] = more[k] => j = k
    <3> SUFFICES ASSUME NEW j \in 1 .. Len(more), NEW k \in 1 .. Len(more), more[j] = more[k]
                 PROVE  j = k
      OBVIOUS
    <3>1. CASE j \in 1 .. Len(list) /\ k \in 1 .. Len(list)
      BY <1>4, <3>1 DEF IsFunction, Lists
    <3>2. CASE j = Len(list) + 1 \/ k = Len(list) + 1
      BY <1>1, <1>4, <3>2
    <3> QED
      BY <1>4, <3>1, <3>2
  <2> QED
    BY <1>4, <2>1, <2>2 DEF Lists
<1>6. Ordered(more, g)
  <2> SUFFICES ASSUME NEW k \in 1 .. Len(more), NEW i \in 1 .. Len(g[more[k]].operands)
               PROVE  \E j \in 1 .. k - 1 : more[j] = g[more[k]].operands[i]
    BY DEF Ordered
  <2>1. CASE k = Len(list) + 1
    <3>1. g[more[k]] = op
      BY <1>2, <1>4, <2>1
    <3>2. PICK j \in 1 .. Len(list) : list[j] = op.operands[i]
      BY <3>1 DEF IsFunction, Lists
    <3> QED
      BY <1>4, <2>1, <3>1, <3>2
  <2>2. CASE k \in 1 .. Len(list)
    <3>1. g[more[k]] = h[list[k]]
      BY <1>2, <1>4, <2>2
    <3>2. PICK j \in 1 .. k - 1 : list[j] = h[list[k]].operands[i]
      BY <2>2, <3>1 DEF IsFunction, Ordered
    <3> QED
      BY <1>4, <2>2, <3>1, <3>2
  <2> QED
    BY <1>4, <2>1, <2>2
<1>7. Numbered(more, g)
  BY <1>2, <1>4 DEF IsFunction, Numbered
<1> QED
  BY <1>1, <1>3, <1>5, <1>6, <1>7 DEF IsFunction, p, g, more

\* The ops of a closed set kept, and the ids made positions again.
LEMMA EraseKeepsFunction ==
  ASSUME NEW h, NEW list, IsFunction(list, h), NEW set, set \subseteq DOMAIN h,
         \A p \in set : \A i \in 1 .. Len(h[p].operands) : h[p].operands[i] \in set
  PROVE  LET kept == keep(list, set)
             g == renumber([p \in {kept[k] : k \in 1 .. Len(kept)} |-> h[p]], kept)
         IN /\ DOMAIN g = set /\ \A p \in set : SameOp(g[p], h[p])
            /\ IsFunction(kept, g)
<1> DEFINE kept == keep(list, set)
           left == {kept[k] : k \in 1 .. Len(kept)}
           part == [p \in left |-> h[p]]
           g == renumber(part, kept)
<1>1. list \in Seq(DOMAIN h)
  BY DEF IsFunction, Lists
<1>2. kept \in Seq(DOMAIN h \cap set) /\ Selects(kept, list, set)
  BY <1>1, KeepProperties
<1>3. PICK f \in [1 .. Len(kept) -> 1 .. Len(list)] :
        /\ \A n \in 1 .. Len(kept) : kept[n] = list[f[n]]
        /\ \A m, n \in 1 .. Len(kept) : m < n => f[m] < f[n]
        /\ \A k \in 1 .. Len(list) : list[k] \in set =>
             \E n \in 1 .. Len(kept) : f[n] = k
  <2> HIDE DEF kept
  <2> QED
    BY <1>2 DEF Selects
<1> HIDE DEF kept
<1>4. left = set
  <2>1. ASSUME NEW p \in set PROVE p \in left
    <3>1. PICK k \in 1 .. Len(list) : list[k] = p
      BY DEF IsFunction, Lists
    <3>2. PICK n \in 1 .. Len(kept) : f[n] = k
      BY <1>3, <3>1
    <3> QED
      BY <1>3, <3>1, <3>2
  <2>2. left \subseteq set
    BY <1>2
  <2> QED
    BY <2>1, <2>2
<1>5. Len(kept) \in Nat /\ Len(list) \in Nat
  BY <1>1, <1>2
<1>6. \A m, n \in 1 .. Len(kept) : f[m] = f[n] => m = n
  <2> SUFFICES ASSUME NEW m \in 1 .. Len(kept), NEW n \in 1 .. Len(kept), m # n
               PROVE  f[m] # f[n]
    OBVIOUS
  <2>1. m < n \/ n < m
    BY <1>5
  <2>2. f[m] \in Int /\ f[n] \in Int
    BY <1>5
  <2> QED
    BY <1>3, <2>1, <2>2
<1>7. IsHeap(part) /\ DOMAIN part = set /\ \A p \in set : part[p] = h[p]
  <2>1. DOMAIN part = set /\ \A p \in set : part[p] = h[p]
    BY <1>4
  <2>2. IsFiniteSet(set)
    BY FS_Subset DEF IsFunction, IsHeap
  <2>3. part \in [set -> OpRecord]
    BY <1>4 DEF IsFunction, IsHeap
  <2> QED
    BY <2>1, <2>2, <2>3 DEF IsFunction, IsHeap
<1>8. Lists(kept, part)
  <2>1. kept \in Seq(set)
    BY <1>2, \A k \in 1 .. Len(kept) : kept[k] \in set
  <2>2. \A p \in set : \E k \in 1 .. Len(kept) : kept[k] = p
    BY <1>4
  <2>3. \A j, k \in 1 .. Len(kept) : kept[j] = kept[k] => j = k
    <3> SUFFICES ASSUME NEW j \in 1 .. Len(kept), NEW k \in 1 .. Len(kept),
                        kept[j] = kept[k]
                 PROVE  j = k
      OBVIOUS
    <3>1. list[f[j]] = list[f[k]] /\ f[j] \in 1 .. Len(list) /\ f[k] \in 1 .. Len(list)
      BY <1>3
    <3>2. f[j] = f[k]
      BY <3>1 DEF IsFunction, Lists
    <3> QED
      BY <1>6, <3>2
  <2> QED
    BY <1>7, <2>1, <2>2, <2>3 DEF Lists
<1> HIDE DEF part
<1>9. /\ DOMAIN g = set /\ \A p \in set : SameOp(g[p], h[p])
      /\ IsHeap(g) /\ Lists(kept, g) /\ Numbered(kept, g)
  BY <1>7, <1>8, RenumberProperties
<1> HIDE DEF g
<1>10. Ordered(kept, g)
  <2> SUFFICES ASSUME NEW n \in 1 .. Len(kept), NEW i \in 1 .. Len(g[kept[n]].operands)
               PROVE  \E m \in 1 .. n - 1 : kept[m] = g[kept[n]].operands[i]
    BY DEF Ordered
  <2>1. kept[n] \in set /\ kept[n] = list[f[n]] /\ f[n] \in 1 .. Len(list)
    BY <1>2, <1>3
  <2>2. g[kept[n]].operands = h[list[f[n]]].operands
    BY <1>9, <2>1 DEF SameOp
  <2>3. PICK j \in 1 .. f[n] - 1 : list[j] = h[list[f[n]]].operands[i]
    BY <2>1, <2>2 DEF IsFunction, Ordered
  <2>4. j \in 1 .. Len(list) /\ list[j] \in set
    BY <1>5, <2>1, <2>2, <2>3
  <2>5. PICK m \in 1 .. Len(kept) : f[m] = j
    BY <1>3, <2>4
  <2>6. m < n
    <3>1. f[m] \in Int /\ f[n] \in Int /\ f[m] < f[n]
      BY <1>5, <2>1, <2>3, <2>5
    <3> QED
      BY <1>3, <1>5, <3>1
  <2> QED
    BY <1>3, <1>5, <2>2, <2>3, <2>5, <2>6
<1> QED
  BY <1>4, <1>9, <1>10 DEF IsFunction, kept, g, part


\* Two ops inserted before the nth, the second reading the first: only the
\* nth op may come to read the second.
Earlier(list, n, x) == \E j \in 1 .. n - 1 : list[j] = x

\* g is h with two more ops, to be inserted before the nth.
ReadyToInsert(h, list, n, a, b, g) ==
  /\ n \in 1 .. Len(list)
  /\ a \in Pointer /\ b \in Pointer /\ a \notin DOMAIN h /\ b \notin DOMAIN h /\ a # b
  /\ IsHeap(g) /\ DOMAIN g = DOMAIN h \cup {a, b}
  /\ \A p \in DOMAIN h : p # list[n] => g[p].operands = h[p].operands
  /\ \A i \in 1 .. Len(g[list[n]].operands) :
       g[list[n]].operands[i] = b \/ Earlier(list, n, g[list[n]].operands[i])
  /\ \A i \in 1 .. Len(g[a].operands) : Earlier(list, n, g[a].operands[i])
  /\ \A i \in 1 .. Len(g[b].operands) : g[b].operands[i] = a

\* h is g with the ids of `list` renumbered, and a function.
RenumberedTo(g, list, h) ==
  DOMAIN h = DOMAIN g /\ (\A p \in DOMAIN g : SameOp(h[p], g[p])) /\ IsFunction(list, h)

LEMMA InsertKeepsFunction ==
  ASSUME NEW h, NEW list, NEW n, NEW a, NEW b, NEW g,
         IsFunction(list, h), ReadyToInsert(h, list, n, a, b, g)
  PROVE  RenumberedTo(g, Insert(list, n, a, b), renumber(g, Insert(list, n, a, b)))
<1>0. /\ n \in 1 .. Len(list)
      /\ a \in Pointer /\ b \in Pointer /\ a \notin DOMAIN h /\ b \notin DOMAIN h /\ a # b
      /\ IsHeap(g) /\ DOMAIN g = DOMAIN h \cup {a, b}
      /\ \A p \in DOMAIN h : p # list[n] => g[p].operands = h[p].operands
      /\ \A i \in 1 .. Len(g[list[n]].operands) :
           g[list[n]].operands[i] = b \/ Earlier(list, n, g[list[n]].operands[i])
      /\ \A i \in 1 .. Len(g[a].operands) : Earlier(list, n, g[a].operands[i])
      /\ \A i \in 1 .. Len(g[b].operands) : g[b].operands[i] = a
  BY DEF ReadyToInsert
<1> USE <1>0
<1> DEFINE more == Insert(list, n, a, b)
           g2 == renumber(g, more)
<1>1. /\ \A k \in 1 .. Len(list) : list[k] \in DOMAIN h
      /\ \A j, k \in 1 .. Len(list) : list[j] = list[k] => j = k
      /\ Len(list) \in Nat
  BY DEF IsFunction, Lists
<1>2. /\ more \in Seq(DOMAIN g) /\ Len(more) = Len(list) + 2
      /\ \A k \in 1 .. n - 1 : more[k] = list[k]
      /\ more[n] = a /\ more[n + 1] = b
      /\ \A k \in n .. Len(list) : more[k + 2] = list[k]
  <2>1. list \in Seq(DOMAIN g) /\ a \in DOMAIN g /\ b \in DOMAIN g
    BY DEF IsFunction, Lists
  <2> DEFINE S == DOMAIN g
  <2> HIDE DEF S
  <2>2. list \in Seq(S) /\ a \in S /\ b \in S
    BY <2>1 DEF S
  <2>3. more \in Seq(S) /\ IsInsertion(more, list, n, a, b)
    BY <2>2, InsertProperties
  <2> HIDE DEF more
  <2> QED
    BY <2>3 DEF S, IsInsertion
<1> HIDE DEF more
<1>3. \A k \in 1 .. Len(more) :
        \/ k \in 1 .. n - 1 \/ k = n \/ k = n + 1
        \/ k - 2 \in n .. Len(list) /\ more[k] = list[k - 2]
  <2> SUFFICES ASSUME NEW k \in 1 .. Len(more), k \notin 1 .. n - 1, k # n, k # n + 1
               PROVE  k - 2 \in n .. Len(list) /\ more[k] = list[k - 2]
    OBVIOUS
  <2>1. k - 2 \in n .. Len(list) /\ k = (k - 2) + 2
    BY <1>1, <1>2
  <2> QED
    BY <1>2, <2>1
<1>4. Lists(more, g)
  <2>1. \A p \in DOMAIN g : \E k \in 1 .. Len(more) : more[k] = p
    <3> SUFFICES ASSUME NEW p \in DOMAIN g
                 PROVE  \E k \in 1 .. Len(more) : more[k] = p
      OBVIOUS
    <3>1. CASE p = a \/ p = b
      BY <1>1, <1>2, <3>1
    <3>2. CASE p \in DOMAIN h
      <4>1. PICK k \in 1 .. Len(list) : list[k] = p
        BY <3>2 DEF IsFunction, Lists
      <4>2. CASE k < n
        BY <1>1, <1>2, <4>1, <4>2
      <4>3. CASE k >= n
        BY <1>1, <1>2, <4>1, <4>3
      <4> QED
        BY <4>2, <4>3
    <3> QED
      BY <3>1, <3>2
  <2>2. \A k \in 1 .. n - 1 : more[k] \in DOMAIN h
    BY <1>1, <1>2
  <2>3. \A j, k \in 1 .. Len(more) : more[j] = more[k] => j = k
    <3> SUFFICES ASSUME NEW j \in 1 .. Len(more), NEW k \in 1 .. Len(more), more[j] = more[k]
                 PROVE  j = k
      OBVIOUS
    <3>1. CASE j \in {n, n + 1} \/ k \in {n, n + 1}
      <4>1. \A m \in 1 .. Len(more) : m \notin {n, n + 1} => more[m] \in DOMAIN h
        BY <1>1, <1>2, <1>3
      <4>2. \A m \in {n, n + 1} : more[m] \in {a, b}
        BY <1>2
      <4>3. j \in {n, n + 1} /\ k \in {n, n + 1}
        BY <3>1, <4>1, <4>2
      <4> QED
        BY <1>2, <4>3
    <3> DEFINE was(i) == IF i < n THEN i ELSE i - 2
    <3>2. CASE ~(j \in {n, n + 1} \/ k \in {n, n + 1})
      <4>1. /\ was(j) \in 1 .. Len(list) /\ more[j] = list[was(j)]
            /\ was(k) \in 1 .. Len(list) /\ more[k] = list[was(k)]
        BY <1>1, <1>2, <1>3, <3>2
      <4>2. was(j) = was(k)
        <5> HIDE DEF was
        <5> QED
          BY <1>1, <4>1
      <4>3. j \in Int /\ k \in Int /\ n \in Int /\ (j < n \/ j > n + 1) /\ (k < n \/ k > n + 1)
        BY <1>1, <1>2, <3>2
      <4>4. ASSUME j < n, k > n + 1 PROVE FALSE
        <5>1. k - 2 \in n .. Len(list) /\ was(k) = k - 2 /\ was(j) = j
          BY <1>1, <1>2, <4>3, <4>4
        <5> QED
          BY <4>2, <4>3, <4>4, <5>1
      <4>5. ASSUME k < n, j > n + 1 PROVE FALSE
        <5>1. j - 2 \in n .. Len(list) /\ was(j) = j - 2 /\ was(k) = k
          BY <1>1, <1>2, <4>3, <4>5
        <5> QED
          BY <4>2, <4>3, <4>5, <5>1
      <4> QED
        BY <4>2, <4>3, <4>4, <4>5
    <3> QED
      BY <3>1, <3>2
  <2> QED
    BY <1>2, <2>1, <2>3 DEF Lists
<1>5. Ordered(more, g)
  <2> SUFFICES ASSUME NEW k \in 1 .. Len(more), NEW i \in 1 .. Len(g[more[k]].operands)
               PROVE  \E j \in 1 .. k - 1 : more[j] = g[more[k]].operands[i]
    BY DEF Ordered
  <2>1. CASE k \in 1 .. n - 1
    <3>1. more[k] = list[k] /\ list[k] # list[n] /\ k \in 1 .. Len(list)
      BY <1>1, <1>2, <2>1
    <3>2. g[list[k]].operands = h[list[k]].operands
      BY <1>1, <3>1
    <3>3. PICK j \in 1 .. k - 1 : list[j] = h[list[k]].operands[i]
      BY <3>1, <3>2 DEF IsFunction, Ordered
    <3> QED
      BY <1>2, <2>1, <3>1, <3>2, <3>3
  <2>2. ASSUME NEW x, Earlier(list, n, x), k >= n
        PROVE  \E j \in 1 .. k - 1 : more[j] = x
    BY <1>1, <1>2, <2>2 DEF Earlier
  <2>9. n \in Nat /\ k \in Nat /\ Len(list) \in Nat
    BY <1>1, <1>2
  <2>3. CASE k = n
    <3>1. Earlier(list, n, g[more[k]].operands[i])
      BY <1>2, <2>3
    <3> QED
      BY <2>2, <2>3, <2>9, <3>1
  <2>4. CASE k = n + 1
    <3>1. g[more[k]].operands[i] = more[n] /\ n \in 1 .. k - 1
      BY <1>2, <2>4, <2>9
    <3> QED
      BY <3>1
  <2>5. CASE k - 2 = n /\ more[k] = list[n]
    <3>1. CASE g[list[n]].operands[i] = b
      BY <1>2, <2>5, <3>1
    <3>2. CASE Earlier(list, n, g[list[n]].operands[i])
      BY <2>2, <2>5, <3>2
    <3> QED
      BY <2>5, <3>1, <3>2
  <2>6. CASE k - 2 \in n + 1 .. Len(list) /\ more[k] = list[k - 2]
    <3>1. list[k - 2] # list[n] /\ k - 2 \in 1 .. Len(list)
      BY <1>1, <2>6
    <3>2. g[list[k - 2]].operands = h[list[k - 2]].operands
      BY <1>1, <3>1
    <3>3. PICK j \in 1 .. (k - 2) - 1 : list[j] = h[list[k - 2]].operands[i]
      <4> DEFINE was == k - 2
      <4>1. was \in 1 .. Len(list) /\ i \in 1 .. Len(h[list[was]].operands)
        BY <2>6, <3>1, <3>2
      <4> HIDE DEF was
      <4>2. \E j \in 1 .. was - 1 : list[j] = h[list[was]].operands[i]
        BY <4>1 DEF IsFunction, Ordered
      <4> QED
        BY <4>2 DEF was
    <3>4. CASE j < n
      BY <1>2, <2>6, <3>2, <3>3, <3>4
    <3>5. CASE j >= n
      <4>1. j \in n .. Len(list) /\ j + 2 \in 1 .. k - 1
        BY <1>1, <2>6, <3>3, <3>5, SMTT(30)
      <4> QED
        BY <1>2, <2>6, <3>2, <3>3, <4>1
    <3> QED
      BY <3>4, <3>5
  <2> QED
    BY <1>3, <2>1, <2>3, <2>4, <2>5, <2>6
<1>6. /\ DOMAIN g2 = DOMAIN g /\ \A p \in DOMAIN g : SameOp(g2[p], g[p])
      /\ IsHeap(g2) /\ Lists(more, g2) /\ Numbered(more, g2)
  BY <1>4, RenumberProperties
<1> HIDE DEF g2
<1>7. Ordered(more, g2)
  <2>1. \A k \in 1 .. Len(more) : g2[more[k]].operands = g[more[k]].operands
    BY <1>4, <1>6 DEF SameOp, Lists
  <2> QED
    BY <1>5, <2>1, SMTT(30) DEF Ordered
<1> QED
  BY <1>6, <1>7 DEF IsFunction, RenumberedTo, more, g2


-----------------------------------------------------------------------------
(* Types of what the passes compute.                                       *)

LEMMA TilesType ==
  ASSUME NEW n \in Nat \ {0}
  PROVE  tilesOf(n) \in Nat \ {0}
<1>1. kTileDim \in Nat \ {0}
  BY IRAssumption
<1> DEFINE a == n + kTileDim - 1
           q == a \div kTileDim
<1>2. a \in Nat /\ a >= kTileDim
  BY <1>1
<1>3. q \in Int /\ kTileDim * q <= a /\ a < kTileDim * (q + 1)
  BY <1>1, <1>2
<1>4. q >= 1
  <2> HIDE DEF q, a
  <2> SUFFICES ASSUME q + 1 <= 1 PROVE FALSE
    BY <1>3
  <2>1. kTileDim * (q + 1) <= kTileDim
    BY <1>1, <1>3
  <2> QED
    BY <1>1, <1>2, <1>3, <2>1
<1> QED
  BY <1>3, <1>4 DEF tilesOf

LEMMA ProductType ==
  ASSUME NEW a \in Nat \ {0}, NEW b \in Nat \ {0}
  PROVE  a * b \in Nat \ {0}
OBVIOUS

LEMMA ShapeTypes ==
  ASSUME NEW s \in TensorShape
  PROVE  /\ s.batch \in Nat \ {0} /\ s.rows \in Nat \ {0} /\ s.cols \in Nat \ {0}
         /\ tilesOf(s.rows) \in Nat \ {0} /\ tilesOf(s.cols) \in Nat \ {0}
         /\ tiles(s) \in Nat \ {0}
<1>1. s.batch \in Nat \ {0} /\ s.rows \in Nat \ {0} /\ s.cols \in Nat \ {0}
  BY DEF TensorShape
<1>2. tilesOf(s.rows) \in Nat \ {0} /\ tilesOf(s.cols) \in Nat \ {0}
  BY <1>1, TilesType
<1>3. s.batch * tilesOf(s.rows) \in Nat \ {0}
  BY <1>1, <1>2, ProductType
<1>4. tiles(s) \in Nat \ {0}
  BY <1>2, <1>3, ProductType DEF tiles
<1> QED
  BY <1>1, <1>2, <1>4

LEMMA ResultShapes ==
  ASSUME NEW kind, NEW s \in TensorShape, NEW t \in TensorShape
  PROVE  unaryShape(kind, s) \in TensorShape /\ binaryShapes(kind, s, t) \subseteq TensorShape
<1>1. /\ s.batch \in Nat \ {0} /\ s.rows \in Nat \ {0} /\ s.cols \in Nat \ {0}
      /\ t.batch \in Nat \ {0} /\ t.rows \in Nat \ {0} /\ t.cols \in Nat \ {0}
  BY ShapeTypes
<1>2. unaryShape(kind, s) \in TensorShape
  BY <1>1 DEF TensorShape, unaryShape
<1>3. resolveBatch(s.batch, t.batch) \in Nat \ {0}
  BY <1>1 DEF resolveBatch
<1>4. [batch |-> resolveBatch(s.batch, t.batch), rows |-> s.rows, cols |-> t.cols] \in TensorShape
  BY <1>1, <1>3 DEF TensorShape
<1> QED
  BY <1>2, <1>4 DEF binaryShapes

\* What every later step reads off the first layer.
LEMMA FnFacts ==
  ASSUME FnInv
  PROVE  /\ IsFiniteSet(DOMAIN heap) /\ DOMAIN heap \subseteq Pointer
         /\ Ops = DOMAIN heap /\ Len(ops) \in Nat
         /\ \A k \in 1 .. Len(ops) : ops[k] \in DOMAIN heap
         /\ \A p \in DOMAIN heap : \E k \in 1 .. Len(ops) : ops[k] = p
         /\ \A j, k \in 1 .. Len(ops) : ops[j] = ops[k] => j = k
         /\ \A p \in DOMAIN heap :
              /\ heap[p] \in OpRecord /\ Len(heap[p].operands) \in arities(heap[p].kind)
              /\ heap[p].kind \in OpKinds /\ heap[p].shape \in TensorShape
              /\ heap[p].operands \in Seq(DOMAIN heap) /\ heap[p].id \in Nat
              /\ heap[p].fusible \in BOOLEAN
              /\ heap[p].scratchOffset \in -1 .. ScratchpadTiles - 1
              /\ \A i \in 1 .. Len(heap[p].operands) : heap[p].operands[i] \in DOMAIN heap
<1>1. /\ IsFiniteSet(DOMAIN heap) /\ DOMAIN heap \subseteq Pointer
      /\ \A p \in DOMAIN heap : heap[p] \in OpRecord
      /\ \A p \in DOMAIN heap : Len(heap[p].operands) \in arities(heap[p].kind)
  BY DEF FnInv, IsFunction, IsHeap
<1>2. /\ Len(ops) \in Nat
      /\ \A k \in 1 .. Len(ops) : ops[k] \in DOMAIN heap
      /\ \A p \in DOMAIN heap : \E k \in 1 .. Len(ops) : ops[k] = p
      /\ \A j, k \in 1 .. Len(ops) : ops[j] = ops[k] => j = k
  BY DEF FnInv, IsFunction, Lists
<1>3. Ops = DOMAIN heap
  <2>1. \A p \in Ops : p \in DOMAIN heap
    BY <1>2 DEF Ops
  <2>2. \A p \in DOMAIN heap : p \in Ops
    BY <1>2 DEF Ops
  <2> QED
    BY <2>1, <2>2
<1>4. ASSUME NEW p \in DOMAIN heap, NEW i \in 1 .. Len(heap[p].operands)
      PROVE  heap[p].operands[i] \in DOMAIN heap
  <2>1. PICK k \in 1 .. Len(ops) : ops[k] = p
    BY <1>2
  <2>2. i \in 1 .. Len(heap[ops[k]].operands)
    BY <1>4, <2>1
  <2>3. PICK j \in 1 .. k - 1 : ops[j] = heap[ops[k]].operands[i]
    BY <2>2 DEF FnInv, IsFunction, Ordered
  <2> QED
    BY <1>2, <2>1, <2>3
<1>5. ASSUME NEW p \in DOMAIN heap
      PROVE  /\ heap[p].kind \in OpKinds /\ heap[p].shape \in TensorShape
             /\ heap[p].operands \in Seq(Pointer) /\ heap[p].id \in Nat
             /\ heap[p].fusible \in BOOLEAN
             /\ heap[p].scratchOffset \in -1 .. ScratchpadTiles - 1
  BY <1>1 DEF OpRecord
<1>6. ASSUME NEW p \in DOMAIN heap
      PROVE  heap[p].operands \in Seq(DOMAIN heap)
  BY <1>4, <1>5
<1> QED
  BY <1>1, <1>2, <1>3, <1>4, <1>5, <1>6

\* The number of operands each kind of op has.
LEMMA ArityOf ==
  ASSUME NEW p \in DOMAIN heap, FnInv
  PROVE  /\ Len(heap[p].operands) \in Nat /\ Len(heap[p].operands) <= 3
         /\ isMatMulFamily(heap[p].kind) => Len(heap[p].operands) \in {2, 3}
         /\ heap[p].kind \in {"MatMul", "TiledMatMul", "Add", "Sub"} => Len(heap[p].operands) = 2
         /\ heap[p].kind = "FusedMatMulAcc" => Len(heap[p].operands) = 3
         /\ heap[p].kind \in UnaryKinds \cup {"Print", "ScratchStore", "ScratchLoad"} =>
              Len(heap[p].operands) = 1
<1> DEFINE kind == heap[p].kind
<1>1. heap[p].operands \in Seq(DOMAIN heap) /\ Len(heap[p].operands) \in arities(kind)
  BY FnFacts
<1>2. Len(heap[p].operands) \in Nat
  BY <1>1
<1>3. arities(kind) \subseteq 0 .. 3
  BY DEF arities
<1>4. isMatMulFamily(kind) => arities(kind) \subseteq {2, 3}
  BY DEF arities, isMatMulFamily, LeafKinds, BinaryKinds
<1>5. kind \in {"MatMul", "TiledMatMul", "Add", "Sub"} => arities(kind) = {2}
  BY DEF arities, LeafKinds, BinaryKinds
<1>6. kind = "FusedMatMulAcc" => arities(kind) = {3}
  BY DEF arities, LeafKinds, BinaryKinds
<1>7. kind \in UnaryKinds \cup {"Print", "ScratchStore", "ScratchLoad"} => arities(kind) = {1}
  BY DEF arities, LeafKinds, BinaryKinds, UnaryKinds
<1> DEFINE n == Len(heap[p].operands)
<1>8. n \in arities(kind) /\ n \in Nat /\ n \in 0 .. 3
  BY <1>1, <1>2, <1>3
<1> HIDE DEF kind, n
<1>9. /\ n \in Nat /\ n <= 3
      /\ isMatMulFamily(kind) => n \in {2, 3}
  BY <1>4, <1>8
<1>10. /\ kind \in {"MatMul", "TiledMatMul", "Add", "Sub"} => n = 2
       /\ kind = "FusedMatMulAcc" => n = 3
  BY <1>5, <1>6, <1>8
<1>11. kind \in UnaryKinds \cup {"Print", "ScratchStore", "ScratchLoad"} => n = 1
  BY <1>7, <1>8
<1> QED
  BY <1>9, <1>10, <1>11 DEF kind, n


-----------------------------------------------------------------------------
(* The first layer is kept by every step.                                  *)

LEMMA InitIRInv == Init => IRInv
<1> SUFFICES ASSUME Init PROVE IRInv
  OBVIOUS
<1>1. heap = << >> /\ DOMAIN heap = {} /\ ops = << >> /\ Len(ops) = 0
  BY DEF Init
<1>2. FnInv
  <2>1. IsHeap(heap)
    BY <1>1, FS_EmptySet DEF IsHeap
  <2>2. Lists(ops, heap)
    BY <1>1 DEF Lists
  <2>3. Ordered(ops, heap) /\ Numbered(ops, heap)
    BY <1>1 DEF Ordered, Numbered
  <2> QED
    BY <2>1, <2>2, <2>3 DEF FnInv, IsFunction
<1>3. ConsumersInv
  BY IRAssumption DEF Init, ConsumersInv, Nobody
<1> QED
  BY <1>1, <1>2, <1>3 DEF IRInv, Init, Stage

\* Lowering appends one typed op over results that are there.
LEMMA AddOpKeepsIRInv ==
  ASSUME IRInv, Lowering, NEW kind \in OpKinds, NEW shape \in TensorShape,
         NEW operands \in Seq(DOMAIN heap), Len(operands) \in arities(kind),
         addOp(kind, shape, operands)
  PROVE  IRInv'
<1> DEFINE op == newOp(kind, shape, operands, Len(ops))
           p == Fresh(DOMAIN heap)
<1>1. FnInv
  BY DEF IRInv
<1>2. /\ op.kind = kind /\ op.operands = operands /\ op.id = Len(ops)
      /\ \A i \in 1 .. Len(operands) : operands[i] \in DOMAIN heap
  BY DEF newOp
<1>3. op \in OpRecord
  <2>1. operands \in Seq(Pointer) /\ Len(ops) \in Nat
    BY <1>1, <1>2, FnFacts
  <2>2. -1 \in -1 .. ScratchpadTiles - 1
    BY IRAssumption
  <2> QED
    BY <2>1, <2>2 DEF newOp, OpRecord
<1>4. heap' = put(heap, p, op) /\ ops' = Append(ops, p)
  BY DEF addOp
<1> HIDE DEF op, p
<1>5. IsFunction(Append(ops, Fresh(DOMAIN heap)), put(heap, Fresh(DOMAIN heap), op))
  BY <1>1, <1>2, <1>3, AddKeepsFunction DEF FnInv
<1>6. FnInv'
  BY <1>4, <1>5 DEF FnInv, p
<1>7. ConsumersInv'
  BY IRAssumption DEF IRInv, Lowering, tilingVars, ConsumersInv, Nobody
<1>8. cursor' = 0 /\ Len(ops') \in Nat
  BY <1>6, FnFacts DEF IRInv, Lowering
<1> QED
  BY <1>6, <1>7, <1>8 DEF IRInv, Lowering, tilingVars

LEMMA LowerKeepsIRInv == IRInv /\ Lower => IRInv'
<1> SUFFICES ASSUME IRInv, Lower PROVE IRInv'
  OBVIOUS
<1>1. FnInv /\ Results \subseteq DOMAIN heap /\ Prints \subseteq DOMAIN heap
  BY FnFacts DEF IRInv, Results, Prints
<1>2. CASE LowerLeaf
  <2> PICK kind \in Kinds \cap LeafKinds, shape \in LoadShapes :
        addOp(kind, shape, << >>)
    BY <1>2 DEF LowerLeaf
  <2>1. kind \in OpKinds /\ 0 \in arities(kind)
    BY DEF OpKinds, arities
  <2>2. shape \in TensorShape
    BY IRAssumption DEF TensorShape
  <2>3. << >> \in Seq(DOMAIN heap) /\ Len(<< >>) = 0
    OBVIOUS
  <2> QED
    BY <1>2, <2>1, <2>2, <2>3, AddOpKeepsIRInv DEF LowerLeaf
<1>3. CASE LowerUnary
  <2> PICK kind \in Kinds \cap UnaryKinds, p \in Results :
        addOp(kind, unaryShape(kind, heap[p].shape), <<p>>)
    BY <1>3 DEF LowerUnary
  <2>1. kind \in OpKinds /\ 1 \in arities(kind)
    BY DEF OpKinds, arities, UnaryKinds, LeafKinds, BinaryKinds
  <2>2. unaryShape(kind, heap[p].shape) \in TensorShape
    <3>1. heap[p].shape \in TensorShape
      BY <1>1, FnFacts
    <3> QED
      BY <3>1, ResultShapes
  <2>3. <<p>> \in Seq(DOMAIN heap) /\ Len(<<p>>) = 1
    BY <1>1
  <2> QED
    BY <1>3, <2>1, <2>2, <2>3, AddOpKeepsIRInv DEF LowerUnary
<1>4. CASE LowerBinary
  <2> PICK kind \in Kinds \cap BinaryKinds, p \in Results, q \in Results :
        \E shape \in binaryShapes(kind, heap[p].shape, heap[q].shape) :
          addOp(kind, shape, <<p, q>>)
    BY <1>4 DEF LowerBinary
  <2> PICK shape \in binaryShapes(kind, heap[p].shape, heap[q].shape) :
        addOp(kind, shape, <<p, q>>)
    OBVIOUS
  <2>1. kind \in OpKinds /\ 2 \in arities(kind)
    BY DEF OpKinds, arities, BinaryKinds, LeafKinds
  <2>2. shape \in TensorShape
    <3>1. heap[p].shape \in TensorShape /\ heap[q].shape \in TensorShape
      BY <1>1, FnFacts
    <3>2. binaryShapes(kind, heap[p].shape, heap[q].shape) \subseteq TensorShape
      BY <3>1, ResultShapes
    <3> QED
      BY <3>2
  <2>3. <<p, q>> \in Seq(DOMAIN heap) /\ Len(<<p, q>>) = 2
    BY <1>1
  <2> QED
    BY <1>4, <2>1, <2>2, <2>3, AddOpKeepsIRInv DEF LowerBinary
<1>5. CASE LowerPrint
  <2> PICK p \in Results : addOp("Print", heap[p].shape, <<p>>)
    BY <1>5 DEF LowerPrint
  <2>1. "Print" \in OpKinds /\ 1 \in arities("Print")
    BY DEF OpKinds, arities, BinaryKinds, LeafKinds
  <2>2. heap[p].shape \in TensorShape
    BY <1>1, FnFacts
  <2>3. <<p>> \in Seq(DOMAIN heap) /\ Len(<<p>>) = 1
    BY <1>1
  <2> QED
    BY <1>5, <2>1, <2>2, <2>3, AddOpKeepsIRInv DEF LowerPrint
<1>6. CASE FinishLowering
  <2>1. heap' = heap /\ ops' = ops /\ live' = live /\ UNCHANGED tilingVars /\ config' = config
    BY <1>6 DEF FinishLowering, fn
  <2>2. FnInv' /\ ConsumersInv'
    BY <1>1, <2>1, SMTT(30) DEF FnInv, IsFunction, IsHeap, Lists, Ordered, Numbered, IRInv, ConsumersInv, tilingVars
  <2>3. Len(ops) \in Nat /\ live = {} /\ stage = "lower"
    BY <1>1, <1>6, FnFacts DEF IRInv, FinishLowering
  <2>4. CASE config.fusion
    <3>1. stage' = "fuse" /\ cursor' = 1
      BY <1>6, <2>4 DEF FinishLowering
    <3> QED
      BY <2>1, <2>2, <2>3, <3>1 DEF IRInv, tilingVars, Stage
  <2>5. CASE ~config.fusion
    <3>1. stage' = "mark" /\ cursor' = Len(ops)
      BY <1>6, <2>5 DEF FinishLowering
    <3>2. MarkedInv'
      BY <2>1, <2>3, <3>1 DEF MarkedInv
    <3> QED
      BY <2>1, <2>2, <2>3, <3>1, <3>2 DEF IRInv, tilingVars, Stage
  <2> QED
    BY <2>4, <2>5
<1> QED
  BY <1>2, <1>3, <1>4, <1>5, <1>6 DEF Lower


\* The two rewrites of fusion, as changes to the fields of the ops.
FusesTo(op, kind, producer, operands) ==
  /\ ops' = ops /\ DOMAIN heap' = DOMAIN heap
  /\ heap' = [p \in DOMAIN heap |-> heap'[p]]
  /\ \A p \in DOMAIN heap :
       /\ heap'[p] \in OpRecord
       /\ heap'[p].shape = heap[p].shape /\ heap'[p].id = heap[p].id
       /\ heap'[p].scratchOffset = heap[p].scratchOffset
       /\ heap'[p].kind = IF p = op THEN kind ELSE heap[p].kind
       /\ heap'[p].operands = IF p = op THEN operands ELSE heap[p].operands
       /\ heap'[p].fusible = IF p = producer THEN FALSE ELSE heap[p].fusible

LEMMA AbsorbEffect ==
  ASSUME FnInv, NEW op \in DOMAIN heap, NEW producer \in DOMAIN heap, NEW kind \in OpKinds,
         NEW operands \in Seq(Pointer), Absorb(op, kind, producer, operands), ops' = ops
  PROVE  FusesTo(op, kind, producer, operands)
<1> DEFINE a == [heap EXCEPT ![op].kind = kind, ![op].operands = operands]
<1>1. heap' = [a EXCEPT ![producer].fusible = FALSE]
  BY DEF Absorb
<1>2. /\ DOMAIN a = DOMAIN heap
      /\ \A p \in DOMAIN heap :
           /\ a[p] \in OpRecord
           /\ a[p].shape = heap[p].shape /\ a[p].id = heap[p].id
           /\ a[p].scratchOffset = heap[p].scratchOffset
           /\ a[p].kind = IF p = op THEN kind ELSE heap[p].kind
           /\ a[p].operands = IF p = op THEN operands ELSE heap[p].operands
           /\ a[p].fusible = heap[p].fusible
  <2>1. \A p \in DOMAIN heap : heap[p] \in OpRecord
    BY FnFacts
  <2>2. \A p \in DOMAIN heap : p # op => a[p] = heap[p]
    OBVIOUS
  <2>3. a[op] = [heap[op] EXCEPT !.kind = kind, !.operands = operands]
    OBVIOUS
  <2> HIDE DEF a
  <2>4. /\ a[op] \in OpRecord
        /\ a[op].shape = heap[op].shape /\ a[op].id = heap[op].id
        /\ a[op].scratchOffset = heap[op].scratchOffset
        /\ a[op].kind = kind /\ a[op].operands = operands
        /\ a[op].fusible = heap[op].fusible
    BY <2>1, <2>3 DEF OpRecord
  <2>5. DOMAIN a = DOMAIN heap
    BY DEF a
  <2> QED
    BY <2>1, <2>2, <2>4, <2>5
<1> HIDE DEF a
<1>3. DOMAIN heap' = DOMAIN heap /\ heap' = [p \in DOMAIN heap |-> heap'[p]]
  BY <1>1, <1>2
<1>4. \A p \in DOMAIN heap : p # producer => heap'[p] = a[p]
  BY <1>1, <1>2
<1>5. heap'[producer] = [a[producer] EXCEPT !.fusible = FALSE]
  BY <1>1, <1>2
<1>6. /\ heap'[producer] \in OpRecord /\ heap'[producer].fusible = FALSE
      /\ heap'[producer].shape = a[producer].shape /\ heap'[producer].id = a[producer].id
      /\ heap'[producer].scratchOffset = a[producer].scratchOffset
      /\ heap'[producer].kind = a[producer].kind
      /\ heap'[producer].operands = a[producer].operands
  BY <1>2, <1>5 DEF OpRecord
<1>7. \A p \in DOMAIN heap : p # producer => heap'[p].fusible = heap[p].fusible
  BY <1>2, <1>4
<1>8. \A p \in DOMAIN heap :
        /\ heap'[p] \in OpRecord
        /\ heap'[p].shape = a[p].shape /\ heap'[p].id = a[p].id
        /\ heap'[p].scratchOffset = a[p].scratchOffset
        /\ heap'[p].kind = a[p].kind /\ heap'[p].operands = a[p].operands
  BY <1>2, <1>4, <1>6
<1>9. \A p \in DOMAIN heap :
        heap'[p].fusible = IF p = producer THEN FALSE ELSE heap[p].fusible
  BY <1>6, <1>7
<1>10. \A p \in DOMAIN heap :
         /\ heap'[p].shape = heap[p].shape /\ heap'[p].id = heap[p].id
         /\ heap'[p].scratchOffset = heap[p].scratchOffset
         /\ heap'[p].kind = IF p = op THEN kind ELSE heap[p].kind
         /\ heap'[p].operands = IF p = op THEN operands ELSE heap[p].operands
  BY <1>2, <1>8
<1> QED
  BY <1>3, <1>8, <1>9, <1>10 DEF FusesTo

LEMMA FuseKeepsFnInv ==
  ASSUME FnInv, NEW k \in 1 .. Len(ops), NEW producer \in DOMAIN heap, NEW kind \in OpKinds,
         NEW operands \in Seq(Pointer), Len(operands) \in arities(kind),
         \A i \in 1 .. Len(operands) : Earlier(ops, k, operands[i]),
         FusesTo(ops[k], kind, producer, operands)
  PROVE  FnInv'
<1>1. /\ ops' = ops /\ DOMAIN heap' = DOMAIN heap /\ ops[k] \in DOMAIN heap
      /\ \A p \in DOMAIN heap :
           /\ heap'[p] \in OpRecord /\ heap'[p].id = heap[p].id
           /\ heap'[p].kind = IF p = ops[k] THEN kind ELSE heap[p].kind
           /\ heap'[p].operands = IF p = ops[k] THEN operands ELSE heap[p].operands
  BY FnFacts DEF FusesTo
<1>2. IsHeap(heap')
  <2>1. heap' \in [DOMAIN heap -> OpRecord]
    BY <1>1 DEF FusesTo
  <2>2. \A p \in DOMAIN heap : Len(heap'[p].operands) \in arities(heap'[p].kind)
    BY <1>1, FnFacts
  <2> QED
    BY <1>1, <2>1, <2>2, FnFacts DEF IsHeap
<1>3. Lists(ops', heap')
  BY <1>1 DEF FnInv, IsFunction, Lists
<1>4. Ordered(ops', heap')
  <2> SUFFICES ASSUME NEW n \in 1 .. Len(ops), NEW i \in 1 .. Len(heap'[ops[n]].operands)
               PROVE  \E j \in 1 .. n - 1 : ops[j] = heap'[ops[n]].operands[i]
    BY <1>1 DEF Ordered
  <2>1. CASE n = k
    BY <1>1, <2>1 DEF Earlier
  <2>2. CASE n # k
    <3>1. ops[n] # ops[k] /\ ops[n] \in DOMAIN heap
      BY <2>2, FnFacts
    <3>2. heap'[ops[n]].operands = heap[ops[n]].operands
      BY <1>1, <3>1
    <3> QED
      BY <3>2 DEF FnInv, IsFunction, Ordered
  <2> QED
    BY <2>1, <2>2
<1>5. Numbered(ops', heap')
  BY <1>1, FnFacts DEF FnInv, IsFunction, Numbered
<1> QED
  BY <1>2, <1>3, <1>4, <1>5 DEF FnInv, IsFunction

\* Which op a fusion rewrites, what it takes over, and from which op.
LEMMA FusionShape ==
  ASSUME IRInv, stage = "fuse", cursor <= Len(ops), ops' = ops, FuseRelu \/ FuseAcc
  PROVE  /\ cursor \in 1 .. Len(ops) /\ Current \in DOMAIN heap
         /\ \E producer \in DOMAIN heap :
              \/ /\ ReluAbsorbs /\ producer = Operand(Current, 1)
                 /\ FusesTo(Current, "FusedMatMulRelu", producer, heap[producer].operands)
              \/ \E side \in {1, 2} :
                   /\ AddAbsorbs(side) /\ producer = Operand(Current, side)
                   /\ FusesTo(Current, "FusedMatMulAcc", producer,
                              heap[producer].operands \o <<Operand(Current, 3 - side)>>)
<1>1. FnInv /\ cursor \in 1 .. Len(ops)
  BY FnFacts DEF IRInv
<1>2. Current \in DOMAIN heap
  BY <1>1, FnFacts DEF Current
<1>3. \A p \in DOMAIN heap : heap[p].operands \in Seq(Pointer)
  BY <1>1, FnFacts DEF OpRecord
<1>4. "FusedMatMulRelu" \in OpKinds /\ "FusedMatMulAcc" \in OpKinds
  BY DEF OpKinds, FusedKinds
<1>5. CASE FuseRelu
  <2> DEFINE producer == Operand(Current, 1)
  <2>1. ReluAbsorbs /\ Absorb(Current, "FusedMatMulRelu", producer, heap[producer].operands)
    BY <1>5 DEF FuseRelu
  <2>2. Len(heap[Current].operands) = 1
    BY <1>1, <1>2, <2>1, ArityOf DEF ReluAbsorbs, UnaryKinds
  <2>3. producer \in DOMAIN heap
    BY <1>1, <1>2, <2>2, FnFacts, SMTT(30) DEF Operand
  <2>4. FusesTo(Current, "FusedMatMulRelu", producer, heap[producer].operands)
    <3> HIDE DEF producer
    <3> QED
      BY <1>1, <1>2, <1>3, <1>4, <2>1, <2>3, AbsorbEffect
  <2> QED
    BY <1>1, <1>2, <2>1, <2>3, <2>4
<1>6. CASE FuseAcc
  <2>1. PICK side \in {1, 2} :
          /\ AddAbsorbs(side)
          /\ LET producer == Operand(Current, side) IN
               Absorb(Current, "FusedMatMulAcc", producer,
                      heap[producer].operands \o <<Operand(Current, 3 - side)>>)
    BY <1>6 DEF FuseAcc
  <2> DEFINE producer == Operand(Current, side)
             other == Operand(Current, 3 - side)
  <2>2. Len(heap[Current].operands) = 2
    BY <1>1, <1>2, <2>1, ArityOf DEF AddAbsorbs
  <2>3. producer \in DOMAIN heap /\ other \in DOMAIN heap
    <3>1. \A i \in 1 .. 2 : Operand(Current, i) \in DOMAIN heap
      BY <1>1, <1>2, <2>2, FnFacts DEF Operand
    <3>2. side \in 1 .. 2 /\ 3 - side \in 1 .. 2
      OBVIOUS
    <3> QED
      BY <3>1, <3>2
  <2>4. other \in Pointer
    BY <1>1, <2>3, FnFacts
  <2>5. heap[producer].operands \o <<other>> \in Seq(Pointer)
    <3> HIDE DEF producer, other
    <3> QED
      BY <1>3, <2>3, <2>4
  <2>6. FusesTo(Current, "FusedMatMulAcc", producer, heap[producer].operands \o <<other>>)
    <3> HIDE DEF producer, other
    <3>1. Absorb(Current, "FusedMatMulAcc", producer, heap[producer].operands \o <<other>>)
      BY <2>1 DEF producer, other
    <3> QED
      BY <1>1, <1>2, <1>4, <2>3, <2>5, <3>1, AbsorbEffect
  <2> QED
    BY <1>1, <1>2, <2>1, <2>3, <2>6
<1> QED
  BY <1>5, <1>6


\* What an op refers to, and what that refers to, is earlier in the list.
LEMMA OperandsEarlier ==
  ASSUME FnInv, NEW k \in 1 .. Len(ops)
  PROVE  /\ \A i \in 1 .. Len(heap[ops[k]].operands) : Earlier(ops, k, heap[ops[k]].operands[i])
         /\ \A p \in DOMAIN heap : Earlier(ops, k, p) =>
              \A i \in 1 .. Len(heap[p].operands) : Earlier(ops, k, heap[p].operands[i])
<1>1. Len(ops) \in Nat
  BY FnFacts
<1>2. \A n \in 1 .. Len(ops) : \A i \in 1 .. Len(heap[ops[n]].operands) :
        Earlier(ops, n, heap[ops[n]].operands[i])
  BY DEF FnInv, IsFunction, Ordered, Earlier
<1>3. ASSUME NEW p \in DOMAIN heap, Earlier(ops, k, p), NEW i \in 1 .. Len(heap[p].operands)
      PROVE  Earlier(ops, k, heap[p].operands[i])
  <2>1. PICK j \in 1 .. k - 1 : ops[j] = p
    BY <1>3 DEF Earlier
  <2>2. Earlier(ops, j, heap[p].operands[i])
    BY <1>1, <1>2, <2>1
  <2> QED
    BY <1>1, <2>1, <2>2 DEF Earlier
<1> QED
  BY <1>2, <1>3

\* The operands of FusedMatMulAcc: the factors, then what is added.
LEMMA FactorsAndBias ==
  ASSUME NEW factors \in Seq(Pointer), Len(factors) = 2, NEW x \in Pointer
  PROVE  /\ factors \o <<x>> \in Seq(Pointer) /\ Len(factors \o <<x>>) = 3
         /\ (factors \o <<x>>)[1] = factors[1] /\ (factors \o <<x>>)[2] = factors[2]
         /\ (factors \o <<x>>)[3] = x
<1>1. <<x>> \in Seq(Pointer) /\ Len(<<x>>) = 1 /\ <<x>>[1] = x
  OBVIOUS
<1>2. /\ factors \o <<x>> \in Seq(Pointer) /\ Len(factors \o <<x>>) = 3
      /\ \A i \in 1 .. 3 : (factors \o <<x>>)[i] =
                            IF i <= 2 THEN factors[i] ELSE <<x>>[i - 2]
  BY <1>1, ConcatProperties, SMTT(30)
<1> QED
  BY <1>1, <1>2

LEMMA FuseKeepsIRInv == IRInv /\ Fuse => IRInv'
<1> SUFFICES ASSUME IRInv, Fuse PROVE IRInv'
  OBVIOUS
<1>1. FnInv /\ Len(ops) \in Nat
  BY FnFacts DEF IRInv
<1>2. ASSUME FnInv', ops' = ops, DOMAIN heap' = DOMAIN heap, Fusing
      PROVE  IRInv'
  <2>1. ConsumersInv'
    BY <1>2, IRAssumption DEF Fusing, IRInv, ConsumersInv, tilingVars, Nobody
  <2> QED
    BY <1>1, <1>2, <2>1 DEF Fusing, IRInv, tilingVars
<1>3. CASE FuseRelu \/ FuseAcc
  <2>1. Fusing /\ stage = "fuse" /\ cursor <= Len(ops) /\ ops' = ops
    BY <1>3 DEF FuseRelu, FuseAcc, Fusing
  <2>2. cursor \in 1 .. Len(ops) /\ Current \in DOMAIN heap /\ Current = ops[cursor]
    BY <1>3, <2>1, FusionShape DEF Current
  <2>3. PICK producer \in DOMAIN heap :
              \/ /\ ReluAbsorbs /\ producer = Operand(Current, 1)
                 /\ FusesTo(Current, "FusedMatMulRelu", producer, heap[producer].operands)
              \/ \E side \in {1, 2} :
                   /\ AddAbsorbs(side) /\ producer = Operand(Current, side)
                   /\ FusesTo(Current, "FusedMatMulAcc", producer,
                              heap[producer].operands \o <<Operand(Current, 3 - side)>>)
    BY <1>3, <2>1, FusionShape
  <2>4. /\ heap[producer].operands \in Seq(Pointer)
        /\ "FusedMatMulRelu" \in OpKinds /\ "FusedMatMulAcc" \in OpKinds
    BY <1>1, FnFacts DEF OpRecord, OpKinds, FusedKinds
  <2>5. /\ \A i \in 1 .. Len(heap[Current].operands) : Earlier(ops, cursor, Operand(Current, i))
        /\ Earlier(ops, cursor, producer) =>
             \A i \in 1 .. Len(heap[producer].operands) :
               Earlier(ops, cursor, heap[producer].operands[i])
    BY <1>1, <2>2, OperandsEarlier DEF Operand
  <2>6. CASE /\ ReluAbsorbs /\ producer = Operand(Current, 1)
             /\ FusesTo(Current, "FusedMatMulRelu", producer, heap[producer].operands)
    <3>1. Len(heap[Current].operands) = 1 /\ Len(heap[producer].operands) \in {2, 3}
      BY <1>1, <2>2, <2>6, ArityOf DEF ReluAbsorbs, UnaryKinds, isMatMulFamily
    <3>2. \A i \in 1 .. Len(heap[producer].operands) :
            Earlier(ops, cursor, heap[producer].operands[i])
      BY <2>5, <2>6, <3>1
    <3>3. Len(heap[producer].operands) \in arities("FusedMatMulRelu")
      BY <3>1 DEF arities, LeafKinds, BinaryKinds
    <3>4. FnInv'
      BY <1>1, <2>2, <2>4, <2>6, <3>2, <3>3, FuseKeepsFnInv
    <3> QED
      BY <1>2, <2>1, <2>6, <3>4 DEF FusesTo
  <2>7. ASSUME NEW side \in {1, 2},
               AddAbsorbs(side), producer = Operand(Current, side),
               FusesTo(Current, "FusedMatMulAcc", producer,
                       heap[producer].operands \o <<Operand(Current, 3 - side)>>)
        PROVE  IRInv'
    <3> DEFINE other == Operand(Current, 3 - side)
               operands == heap[producer].operands \o <<other>>
    <3>1. Len(heap[Current].operands) = 2 /\ Len(heap[producer].operands) = 2
      BY <1>1, <2>2, <2>7, ArityOf DEF AddAbsorbs
    <3>2. Earlier(ops, cursor, producer) /\ Earlier(ops, cursor, other)
      <4>1. side \in 1 .. 2 /\ 3 - side \in 1 .. 2
        OBVIOUS
      <4> QED
        BY <2>5, <2>7, <3>1, <4>1
    <3>3. other \in Pointer
      <4>1. PICK j \in 1 .. cursor - 1 : ops[j] = other
        BY <3>2 DEF Earlier
      <4>2. j \in 1 .. Len(ops)
        BY <1>1, <2>2
      <4> QED
        BY <1>1, <4>1, <4>2, FnFacts
    <3> HIDE DEF other
    <3>4. /\ operands \in Seq(Pointer) /\ Len(operands) = 3
          /\ operands[1] = heap[producer].operands[1]
          /\ operands[2] = heap[producer].operands[2] /\ operands[3] = other
      BY <2>4, <3>1, <3>3, FactorsAndBias
    <3>5. \A i \in 1 .. 3 : Earlier(ops, cursor, operands[i])
      BY <2>5, <3>1, <3>2, <3>4
    <3>6. Len(operands) \in arities("FusedMatMulAcc")
      BY <3>4 DEF arities, LeafKinds, BinaryKinds
    <3>7. FusesTo(Current, "FusedMatMulAcc", producer, operands)
      BY <2>7 DEF other
    <3> HIDE DEF operands
    <3>8. FnInv'
      BY <1>1, <2>2, <2>4, <3>4, <3>5, <3>6, <3>7, FuseKeepsFnInv
    <3> QED
      BY <1>2, <2>1, <3>7, <3>8 DEF FusesTo
  <2> QED
    BY <2>3, <2>6, <2>7
<1>4. CASE KeepOp
  <2>1. heap' = heap /\ ops' = ops /\ Fusing
    BY <1>4 DEF KeepOp, Fusing
  <2>2. FnInv'
    BY <1>1, <2>1 DEF FnInv, IsFunction, IsHeap, Lists, Ordered, Numbered
  <2> QED
    BY <1>2, <2>1, <2>2
<1>5. CASE FinishFusion
  <2>1. /\ heap' = heap /\ ops' = ops /\ live' = live /\ UNCHANGED tilingVars
        /\ stage' = "mark" /\ cursor' = Len(ops) /\ stage = "fuse" /\ config' = config
    BY <1>5 DEF FinishFusion, fn
  <2>2. FnInv' /\ ConsumersInv'
    BY <1>1, <2>1 DEF FnInv, IsFunction, IsHeap, Lists, Ordered, Numbered, IRInv, ConsumersInv, tilingVars
  <2>3. MarkedInv'
    BY <1>1, <2>1 DEF MarkedInv, IRInv
  <2> QED
    BY <1>1, <2>1, <2>2, <2>3 DEF IRInv, tilingVars, Stage
<1> QED
  BY <1>3, <1>4, <1>5 DEF Fuse


\* A sweep from the end marks what it has passed: operands are earlier, so
\* marking them disturbs nothing already passed.
LEMMA MarkKeepsIRInv == IRInv /\ Mark => IRInv'
<1> SUFFICES ASSUME IRInv, Mark PROVE IRInv'
  OBVIOUS
<1>1. FnInv /\ Len(ops) \in Nat /\ MarkedInv /\ cursor \in 1 .. Len(ops)
  BY FnFacts DEF IRInv, Mark
<1>2. /\ heap' = heap /\ ops' = ops /\ UNCHANGED tilingVars /\ config' = config
      /\ stage' = stage /\ stage = "mark" /\ cursor' = cursor - 1 /\ live' = marked(Current)
  BY DEF Mark, fn
<1>3. Current \in DOMAIN heap /\ Current = ops[cursor]
  BY <1>1, FnFacts DEF Current
<1>4. live \subseteq live' /\ live' \subseteq live \cup OperandSet(Current) \cup {Current}
  BY <1>2 DEF marked
<1>5. OperandSet(Current) \subseteq DOMAIN heap
  <2>1. \A i \in 1 .. Len(heap[Current].operands) : heap[Current].operands[i] \in DOMAIN heap
    BY <1>1, <1>3, FnFacts
  <2> QED
    BY <2>1 DEF OperandSet, Operand
<1>6. MarkedInv'
  <2> SUFFICES ASSUME NEW k \in cursor .. Len(ops)
               PROVE  /\ heap[ops[k]].kind = "Print" => ops[k] \in live'
                      /\ ops[k] \in live' =>
                           \A i \in 1 .. Len(heap[ops[k]].operands) :
                             heap[ops[k]].operands[i] \in live'
    <3>1. live' \subseteq DOMAIN heap
      BY <1>1, <1>3, <1>4, <1>5 DEF MarkedInv
    <3>2. cursor' + 1 = cursor
      BY <1>1, <1>2
    <3> QED
      BY <1>2, <3>1, <3>2 DEF MarkedInv
  <2>1. CASE k = cursor
    <3>1. heap[Current].kind = "Print" => Current \in live'
      BY <1>2 DEF marked
    <3>2. Current \in live' => OperandSet(Current) \subseteq live'
      <4>1. Current \notin OperandSet(Current)
        <5> SUFFICES ASSUME NEW i \in 1 .. Len(heap[ops[cursor]].operands),
                            heap[ops[cursor]].operands[i] = ops[cursor]
                     PROVE  FALSE
          BY <1>3 DEF OperandSet, Operand
        <5>1. PICK j \in 1 .. cursor - 1 : ops[j] = ops[cursor]
          BY <1>1, OperandsEarlier DEF Earlier
        <5> QED
          BY <1>1, <5>1, FnFacts
      <4> QED
        BY <1>2, <4>1 DEF marked
    <3> QED
      BY <1>3, <2>1, <3>1, <3>2 DEF OperandSet, Operand
  <2>2. CASE k # cursor
    <3>1. k \in cursor + 1 .. Len(ops)
      BY <1>1, <2>2
    <3>2. ops[k] # Current
      BY <1>1, <1>3, <2>2, FnFacts
    <3>3. ops[k] \notin OperandSet(Current)
      <4> SUFFICES ASSUME NEW i \in 1 .. Len(heap[ops[cursor]].operands),
                          heap[ops[cursor]].operands[i] = ops[k]
                   PROVE  FALSE
        BY <1>3 DEF OperandSet, Operand
      <4>1. PICK j \in 1 .. cursor - 1 : ops[j] = ops[k]
        BY <1>1, OperandsEarlier DEF Earlier
      <4> QED
        BY <1>1, <3>1, <4>1, FnFacts
    <3>4. ops[k] \in live' => ops[k] \in live
      BY <1>4, <3>2, <3>3
    <3> QED
      BY <1>1, <1>4, <3>1, <3>4 DEF MarkedInv
  <2> QED
    BY <2>1, <2>2
<1>7. FnInv' /\ ConsumersInv'
  BY <1>1, <1>2 DEF FnInv, IsFunction, IsHeap, Lists, Ordered, Numbered, IRInv, ConsumersInv, tilingVars
<1> QED
  BY <1>1, <1>2, <1>6, <1>7 DEF IRInv, tilingVars

\* Erasure keeps the marked ops as they are, but for their ids.
LEMMA EraseEffect ==
  ASSUME IRInv, Erase
  PROVE  /\ FnInv' /\ DOMAIN heap' = live /\ live \subseteq DOMAIN heap
         /\ \A p \in live : SameOp(heap'[p], heap[p])
         /\ \A p \in live : \A i \in 1 .. Len(heap[p].operands) : heap[p].operands[i] \in live
<1>1. FnInv /\ MarkedInv /\ cursor = 0 /\ Len(ops) \in Nat
  BY FnFacts DEF IRInv, Erase
<1>2. live \subseteq DOMAIN heap
  BY <1>1 DEF MarkedInv
<1>3. \A p \in live : \A i \in 1 .. Len(heap[p].operands) : heap[p].operands[i] \in live
  <2> SUFFICES ASSUME NEW p \in live
               PROVE  \A i \in 1 .. Len(heap[p].operands) : heap[p].operands[i] \in live
    OBVIOUS
  <2>1. PICK k \in 1 .. Len(ops) : ops[k] = p
    BY <1>1, <1>2, FnFacts
  <2>2. k \in cursor + 1 .. Len(ops)
    BY <1>1
  <2> QED
    BY <1>1, <2>1, <2>2 DEF MarkedInv
<1> DEFINE kept == keep(ops, live)
           g == renumber([p \in {kept[k] : k \in 1 .. Len(kept)} |-> heap[p]], kept)
<1>4. ops' = kept /\ heap' = g
  BY DEF Erase, erased
<1>5. DOMAIN g = live /\ (\A p \in live : SameOp(g[p], heap[p])) /\ IsFunction(kept, g)
  <2>1. IsFunction(ops, heap)
    BY <1>1 DEF FnInv
  <2> QED
    BY <1>2, <1>3, <2>1, EraseKeepsFunction
<1> HIDE DEF kept, g
<1> QED
  BY <1>2, <1>3, <1>4, <1>5 DEF FnInv

LEMMA EraseKeepsIRInv == IRInv /\ Erase => IRInv'
<1> SUFFICES ASSUME IRInv, Erase PROVE IRInv'
  OBVIOUS
<1>1. /\ FnInv' /\ DOMAIN heap' = live /\ live \subseteq DOMAIN heap
      /\ \A p \in live : SameOp(heap'[p], heap[p])
  BY EraseEffect
<1>2. /\ cursor' = 0 /\ owner' = Nobody /\ cands' = {} /\ used' = 0 /\ staged' = << >>
      /\ stage' \in {"tile", "done"} /\ config' = config
  BY DEF Erase, IRInv
<1>3. /\ consumers' \in Seq(DOMAIN heap')
      /\ \A k \in 1 .. Len(consumers') : isMatMulFamily(heap'[consumers'[k]].kind)
  <2> DEFINE family == {p \in live : isMatMulFamily(heap[p].kind)}
  <2>1. CASE consumers' = keep(ops, family)
    <3>1. ops \in Seq(DOMAIN heap)
      BY DEF IRInv, FnInv, IsFunction, Lists
    <3>2. consumers' \in Seq(DOMAIN heap \cap family)
      <4> HIDE DEF family
      <4> QED
        BY <2>1, <3>1, KeepProperties
    <3>3. \A k \in 1 .. Len(consumers') : consumers'[k] \in family
      <4> HIDE DEF family
      <4> QED
        BY <3>2
    <3> QED
      BY <1>1, <3>2, <3>3 DEF SameOp
  <2>2. CASE consumers' = << >>
    BY <2>2
  <2> QED
    BY <2>1, <2>2 DEF Erase, IRInv
<1>4. ConsumersInv'
  BY <1>2, <1>3, IRAssumption DEF ConsumersInv, Nobody
<1>5. Len(ops') \in Nat
  BY <1>1 DEF FnInv, IsFunction, Lists
<1> QED
  BY <1>1, <1>2, <1>4, <1>5 DEF IRInv, Stage


-----------------------------------------------------------------------------
(* Tiling, and the first layer as an invariant.                            *)

LEMMA CandidateType ==
  ASSUME FnInv, NEW p \in DOMAIN heap, isMatMulFamily(heap[p].kind), NEW i \in {1, 2}
  PROVE  /\ operandTiles(p, i) \in Nat \ {0} /\ usesPerTile(p, i) \in Nat
         /\ candidate(p, i) \in Candidate
<1>1. Operand(p, 1) \in DOMAIN heap /\ Operand(p, i) \in DOMAIN heap
  <2>1. Len(heap[p].operands) \in {2, 3}
    BY ArityOf
  <2>2. 1 \in 1 .. Len(heap[p].operands) /\ i \in 1 .. Len(heap[p].operands)
    BY <2>1
  <2> QED
    BY <2>2, FnFacts DEF Operand
<1> DEFINE s == heap[p].shape
           a == heap[Operand(p, 1)].shape
           b == heap[Operand(p, i)].shape
<1>2. s \in TensorShape /\ a \in TensorShape /\ b \in TensorShape
  BY <1>1, FnFacts
<1> HIDE DEF s, a, b
<1>3. /\ s.batch \in Nat \ {0} /\ tilesOf(s.rows) \in Nat \ {0} /\ tilesOf(s.cols) \in Nat \ {0}
      /\ tilesOf(a.cols) \in Nat \ {0} /\ b.batch \in Nat \ {0}
  BY <1>2, ShapeTypes
<1> DEFINE blocks == IF i = 1 THEN tilesOf(s.rows) ELSE tilesOf(s.cols)
           across == IF i = 1 THEN tilesOf(s.cols) ELSE tilesOf(s.rows)
           turns == IF b.batch = 1 THEN s.batch ELSE 1
<1>4. blocks \in Nat \ {0} /\ across \in Nat \ {0} /\ turns \in Nat \ {0}
  BY <1>3
<1>5. /\ operandTiles(p, i) = b.batch * blocks * tilesOf(a.cols)
      /\ usesPerTile(p, i) = across * turns
  BY DEF operandTiles, usesPerTile, s, a, b
<1> HIDE DEF blocks, across, turns
<1>6. operandTiles(p, i) \in Nat \ {0}
  <2>1. b.batch * blocks \in Nat \ {0}
    BY <1>3, <1>4, ProductType
  <2> QED
    BY <1>3, <1>5, <2>1, ProductType
<1>7. usesPerTile(p, i) \in Nat \ {0}
  BY <1>4, <1>5, ProductType
<1> QED
  BY <1>6, <1>7 DEF candidate, Candidate

\* VisitConsumer may change the kind of the op visited, and nothing else.
LEMMA VisitEffect ==
  ASSUME IRInv, VisitConsumer
  PROVE  /\ consumers # << >> /\ owner' = Head(consumers) /\ owner' \in DOMAIN heap
         /\ isMatMulFamily(heap[owner'].kind)
         /\ FnInv' /\ ops' = ops /\ DOMAIN heap' = DOMAIN heap
         /\ \A p \in DOMAIN heap :
              /\ heap'[p].shape = heap[p].shape /\ heap'[p].operands = heap[p].operands
              /\ heap'[p].id = heap[p].id /\ heap'[p].fusible = heap[p].fusible
              /\ heap'[p].scratchOffset = heap[p].scratchOffset
              /\ \/ heap'[p].kind = heap[p].kind
                 \/ heap[p].kind = "MatMul" /\ heap'[p].kind = "TiledMatMul" /\ p = owner'
<1> DEFINE p == Head(consumers)
<1>1. FnInv /\ ConsumersInv /\ consumers # << >> /\ owner' = p /\ ops' = ops
  BY DEF IRInv, VisitConsumer
<1>2. p \in DOMAIN heap /\ isMatMulFamily(heap[p].kind)
  <2>1. consumers \in Seq(DOMAIN heap) /\ Len(consumers) \in Nat /\ Len(consumers) # 0
    BY <1>1 DEF ConsumersInv
  <2>2. p = consumers[1] /\ 1 \in 1 .. Len(consumers)
    BY <2>1
  <2> QED
    BY <1>1, <2>1, <2>2 DEF ConsumersInv
<1>3. /\ DOMAIN heap' = DOMAIN heap /\ heap' = [q \in DOMAIN heap |-> heap'[q]]
      /\ \A q \in DOMAIN heap :
           /\ heap'[q] \in OpRecord
           /\ heap'[q].shape = heap[q].shape /\ heap'[q].operands = heap[q].operands
           /\ heap'[q].id = heap[q].id /\ heap'[q].fusible = heap[q].fusible
           /\ heap'[q].scratchOffset = heap[q].scratchOffset
           /\ \/ heap'[q].kind = heap[q].kind
              \/ heap[q].kind = "MatMul" /\ heap'[q].kind = "TiledMatMul" /\ q = p
  <2>1. heap = [q \in DOMAIN heap |-> heap[q]] /\ \A q \in DOMAIN heap : heap[q] \in OpRecord
    BY <1>1 DEF FnInv, IsFunction, IsHeap
  <2>2. CASE heap' = heap
    BY <2>1, <2>2
  <2>3. CASE heap' = [heap EXCEPT ![p].kind = "TiledMatMul"] /\ heap[p].kind = "MatMul"
    <3> HIDE DEF p
    <3>1. "TiledMatMul" \in OpKinds
      BY DEF OpKinds
    <3>2. \A q \in DOMAIN heap : q # p => heap'[q] = heap[q]
      BY <2>3
    <3>3. heap'[p] = [heap[p] EXCEPT !.kind = "TiledMatMul"]
      BY <1>2, <2>3
    <3>4. /\ heap'[p] \in OpRecord /\ heap'[p].kind = "TiledMatMul"
          /\ heap'[p].shape = heap[p].shape /\ heap'[p].operands = heap[p].operands
          /\ heap'[p].id = heap[p].id /\ heap'[p].fusible = heap[p].fusible
          /\ heap'[p].scratchOffset = heap[p].scratchOffset
      BY <1>2, <2>1, <3>1, <3>3 DEF OpRecord
    <3>5. DOMAIN heap' = DOMAIN heap /\ heap' = [q \in DOMAIN heap |-> heap'[q]]
      BY <2>3
    <3> QED
      BY <2>1, <2>3, <3>2, <3>4, <3>5
  <2> QED
    BY <2>2, <2>3 DEF VisitConsumer
<1> HIDE DEF p
<1>4. FnInv'
  <2>1. heap' \in [DOMAIN heap' -> OpRecord]
    BY <1>3
  <2>2. \A q \in DOMAIN heap : Len(heap'[q].operands) \in arities(heap'[q].kind)
    <3>1. arities("TiledMatMul") = arities("MatMul")
      BY DEF arities, LeafKinds, BinaryKinds
    <3> SUFFICES ASSUME NEW q \in DOMAIN heap
                 PROVE  Len(heap'[q].operands) \in arities(heap'[q].kind)
      OBVIOUS
    <3>2. /\ Len(heap[q].operands) \in arities(heap[q].kind)
          /\ heap'[q].operands = heap[q].operands
      BY <1>1, <1>3, FnFacts
    <3>3. arities(heap'[q].kind) = arities(heap[q].kind)
      BY <1>3, <3>1
    <3> QED
      BY <3>2, <3>3
  <2>3. IsHeap(heap')
    BY <1>1, <1>3, <2>1, <2>2, FnFacts DEF IsHeap
  <2>4. Lists(ops', heap')
    BY <1>1, <1>3 DEF FnInv, IsFunction, Lists
  <2>5. \A k \in 1 .. Len(ops) :
          heap'[ops[k]].operands = heap[ops[k]].operands /\ heap'[ops[k]].id = heap[ops[k]].id
    BY <1>1, <1>3, FnFacts
  <2>6. Numbered(ops', heap')
    BY <1>1, <2>5 DEF FnInv, IsFunction, Numbered
  <2>7. Ordered(ops', heap')
    <3>1. Ordered(ops, heap)
      BY <1>1 DEF FnInv, IsFunction
    <3>2. Ordered(ops, heap')
      BY <2>5, <3>1 DEF Ordered
    <3> QED
      BY <1>1, <3>2
  <2> QED
    BY <2>3, <2>4, <2>6, <2>7 DEF FnInv, IsFunction
<1> QED
  BY <1>1, <1>2, <1>3, <1>4 DEF p

LEMMA VisitKeepsIRInv == IRInv /\ VisitConsumer => IRInv'
<1> SUFFICES ASSUME IRInv, VisitConsumer PROVE IRInv'
  OBVIOUS
<1>1. /\ consumers # << >> /\ owner' = Head(consumers) /\ owner' \in DOMAIN heap
      /\ isMatMulFamily(heap[owner'].kind)
      /\ FnInv' /\ ops' = ops /\ DOMAIN heap' = DOMAIN heap
      /\ \A p \in DOMAIN heap : heap'[p].kind = heap[p].kind \/ heap'[p].kind = "TiledMatMul"
  BY VisitEffect
<1>2. /\ stage = "tile" /\ stage' = "tile" /\ cursor' = cursor /\ cursor = 0
      /\ config' = config /\ used' = 0 /\ consumers' = Tail(consumers)
  BY DEF VisitConsumer, Tiling, IRInv
<1>3. FnInv /\ ConsumersInv /\ Len(ops) \in Nat
  BY FnFacts DEF IRInv
<1>4. cands' \subseteq Candidate
  <2>1. \A i \in {1, 2} : candidate(owner', i) \in Candidate
    BY <1>1, <1>3, CandidateType
  <2>2. cands' \subseteq {candidate(owner', i) : i \in {1, 2}}
    BY <1>1 DEF VisitConsumer
  <2> QED
    BY <2>1, <2>2
<1>5. /\ consumers' \in Seq(DOMAIN heap')
      /\ \A k \in 1 .. Len(consumers') :
           k + 1 \in 1 .. Len(consumers) /\ consumers'[k] = consumers[k + 1]
  BY <1>1, <1>2, <1>3 DEF ConsumersInv
<1>6. \A p \in DOMAIN heap : isMatMulFamily(heap[p].kind) => isMatMulFamily(heap'[p].kind)
  BY <1>1 DEF isMatMulFamily
<1>7. ConsumersInv'
  <2>1. \A k \in 1 .. Len(consumers') : isMatMulFamily(heap'[consumers'[k]].kind)
    <3> SUFFICES ASSUME NEW k \in 1 .. Len(consumers')
                 PROVE  isMatMulFamily(heap'[consumers'[k]].kind)
      OBVIOUS
    <3>1. k + 1 \in 1 .. Len(consumers) /\ consumers'[k] = consumers[k + 1]
      BY <1>5
    <3>2. isMatMulFamily(heap[consumers[k + 1]].kind) /\ consumers[k + 1] \in DOMAIN heap
      BY <1>3, <3>1 DEF ConsumersInv
    <3> QED
      BY <1>6, <3>1, <3>2
  <2>2. isMatMulFamily(heap'[owner'].kind)
    BY <1>1, <1>6
  <2> QED
    BY <1>1, <1>2, <1>4, <1>5, <2>1, <2>2, IRAssumption DEF ConsumersInv
<1> QED
  BY <1>1, <1>2, <1>3, <1>7 DEF IRInv


\* What StageOperand does for candidate c of the owner, at position n.
Stages(c, n, store, load) ==
  /\ c \in Best /\ Fits(c) /\ c.operandIndex \in 1 .. Len(heap[owner].operands)
  /\ n \in 1 .. Len(ops) /\ ops[n] = owner
  /\ store \in Pointer /\ store \notin DOMAIN heap
  /\ load \in Pointer /\ load \notin DOMAIN heap /\ store # load
  /\ ops' = Insert(ops, n, store, load)
  /\ DOMAIN heap' = DOMAIN heap \cup {store, load}
  /\ \A p \in DOMAIN heap :
       /\ heap'[p].kind = heap[p].kind /\ heap'[p].shape = heap[p].shape
       /\ heap'[p].fusible = heap[p].fusible
       /\ heap'[p].scratchOffset = heap[p].scratchOffset
       /\ heap'[p].operands = IF p = owner
                              THEN [heap[p].operands EXCEPT ![c.operandIndex] = load]
                              ELSE heap[p].operands
  /\ SameOp(heap'[store], storeFor(c))
  /\ SameOp(heap'[load], newOp("ScratchLoad", storeFor(c).shape, <<store>>, 0))

LEMMA StageEffect ==
  ASSUME IRInv, StageOperand
  PROVE  FnInv' /\ \E c \in cands, n \in 1 .. Len(ops), store, load \in Pointer :
           /\ Stages(c, n, store, load)
           /\ used' = used + c.tiles /\ cands' = cands \ {c}
           /\ staged' = Append(staged, [owner |-> owner, consumerId |-> -1, of |-> c])
<1>0. PICK c \in Best :
      /\ Fits(c)
      /\ LET store == Fresh(DOMAIN heap)
             load == Fresh(DOMAIN heap \cup {store})
             at == PositionOf(owner)
             list == SubSeq(ops, 1, at - 1) \o <<store, load>> \o SubSeq(ops, at, Len(ops))
             loadOp == newOp("ScratchLoad", storeFor(c).shape, <<store>>, 0)
             read == [heap EXCEPT ![owner].operands[ReplacedIndex(c)] = load]
         IN /\ ops' = list
            /\ heap' = renumber(put(put(read, store, storeFor(c)), load, loadOp), list)
      /\ used' = used + c.tiles
      /\ cands' = cands \ {c}
      /\ staged' = Append(staged, [owner |-> owner, consumerId |-> -1, of |-> c])
  BY DEF StageOperand
<1> DEFINE store == Fresh(DOMAIN heap)
           load == Fresh(DOMAIN heap \cup {store})
           n == PositionOf(owner)
           list == Insert(ops, n, store, load)
           loadOp == newOp("ScratchLoad", storeFor(c).shape, <<store>>, 0)
           read == [heap EXCEPT ![owner].operands[ReplacedIndex(c)] = load]
           g == put(put(read, store, storeFor(c)), load, loadOp)
           i == c.operandIndex
<1>1. ops' = list /\ heap' = renumber(g, list)
  BY <1>0 DEF Insert
<1>2. FnInv /\ ConsumersInv /\ owner \in DOMAIN heap /\ c \in cands /\ c \in Candidate
  BY DEF IRInv, StageOperand, ConsumersInv, Best
<1>3. i \in {1, 2} /\ i \in 1 .. Len(heap[owner].operands) /\ ReplacedIndex(c) = i
  <2>1. isMatMulFamily(heap[owner].kind)
    BY <1>2 DEF ConsumersInv, StageOperand
  <2>2. Len(heap[owner].operands) \in {2, 3}
    BY <1>2, <2>1, ArityOf
  <2>3. i \in {1, 2} /\ ReplacedIndex(c) = i
    BY <1>2 DEF Candidate, ReplacedIndex
  <2> DEFINE m == Len(heap[owner].operands)
  <2>4. m \in {2, 3}
    BY <2>2
  <2> HIDE DEF i, m
  <2>5. i \in 1 .. m
    BY <2>3, <2>4
  <2> QED
    BY <2>3, <2>5 DEF m
<1>4. n \in 1 .. Len(ops) /\ ops[n] = owner
  <2>1. \E k \in 1 .. Len(ops) : ops[k] = owner
    BY <1>2, FnFacts
  <2> QED
    BY <2>1 DEF PositionOf
<1>5. /\ store \in Pointer /\ store \notin DOMAIN heap
      /\ load \in Pointer /\ load \notin DOMAIN heap /\ store # load
  <2>1. IsFiniteSet(DOMAIN heap)
    BY <1>2, FnFacts
  <2>2. store \in Pointer /\ store \notin DOMAIN heap
    BY <2>1, FreshIsNew
  <2>3. IsFiniteSet(DOMAIN heap \cup {store})
    BY <2>1, FS_AddElement
  <2>4. load \in Pointer /\ load \notin DOMAIN heap \cup {store}
    BY <2>3, FreshIsNew
  <2> QED
    BY <2>2, <2>4
<1> HIDE DEF store, load, n
<1>6. /\ DOMAIN read = DOMAIN heap
      /\ \A p \in DOMAIN heap :
           /\ read[p] \in OpRecord
           /\ read[p].kind = heap[p].kind /\ read[p].shape = heap[p].shape
           /\ read[p].fusible = heap[p].fusible
           /\ read[p].scratchOffset = heap[p].scratchOffset
           /\ Len(read[p].operands) = Len(heap[p].operands)
           /\ read[p].operands = IF p = owner THEN [heap[p].operands EXCEPT ![i] = load]
                                 ELSE heap[p].operands
  <2> DEFINE operands == [heap[owner].operands EXCEPT ![i] = load]
  <2>1. \A p \in DOMAIN heap : heap[p] \in OpRecord /\ heap[p].operands \in Seq(Pointer)
    BY <1>2, FnFacts DEF OpRecord
  <2>2. operands \in Seq(Pointer) /\ Len(operands) = Len(heap[owner].operands)
    BY <1>2, <1>3, <1>5, <2>1, ExceptSeq
  <2>3. read[owner] = [heap[owner] EXCEPT !.operands = operands]
    BY <1>2, <1>3
  <2>4. DOMAIN read = DOMAIN heap /\ \A p \in DOMAIN heap : p # owner => read[p] = heap[p]
    BY <1>2
  <2> HIDE DEF operands, read
  <2>5. /\ read[owner] \in OpRecord /\ read[owner].operands = operands
        /\ read[owner].kind = heap[owner].kind /\ read[owner].shape = heap[owner].shape
        /\ read[owner].fusible = heap[owner].fusible
        /\ read[owner].scratchOffset = heap[owner].scratchOffset
    BY <1>2, <2>1, <2>2, <2>3 DEF OpRecord
  <2> QED
    BY <2>1, <2>2, <2>4, <2>5 DEF operands
<1> HIDE DEF read
<1>7. /\ storeFor(c) \in OpRecord /\ storeFor(c).kind = "ScratchStore"
      /\ storeFor(c).operands = <<Operand(owner, i)>> /\ Operand(owner, i) \in DOMAIN heap
      /\ storeFor(c).operands \in Seq(Pointer) /\ Len(storeFor(c).operands) = 1
  <2>1. /\ Operand(owner, i) \in DOMAIN heap /\ Operand(owner, i) \in Pointer
        /\ heap[Operand(owner, i)].shape \in TensorShape
    BY <1>2, <1>3, FnFacts DEF Operand
  <2>2. used \in -1 .. ScratchpadTiles - 1
    <3>1. c.tiles \in Nat \ {0} /\ used \in Nat
      BY <1>2 DEF Candidate, ConsumersInv
    <3>2. used + c.tiles <= ScratchpadTiles
      BY <1>0 DEF Fits
    <3> DEFINE t == c.tiles
    <3> HIDE DEF t
    <3>3. t \in Nat \ {0} /\ used + t <= ScratchpadTiles
      BY <3>1, <3>2 DEF t
    <3>4. ScratchpadTiles \in Nat
      BY IRAssumption
    <3> QED
      BY <3>1, <3>3, <3>4
  <2>3. /\ <<Operand(owner, i)>> \in Seq(Pointer) /\ Len(<<Operand(owner, i)>>) = 1
        /\ "ScratchStore" \in OpKinds
    BY <2>1 DEF OpKinds
  <2> QED
    BY <2>1, <2>2, <2>3 DEF storeFor, newOp, OpRecord
<1>8. /\ loadOp \in OpRecord /\ loadOp.kind = "ScratchLoad" /\ loadOp.operands = <<store>>
      /\ Len(loadOp.operands) = 1 /\ loadOp.operands[1] = store
  <2>1. storeFor(c).shape \in TensorShape
    BY <1>7 DEF OpRecord
  <2>2. <<store>> \in Seq(Pointer) /\ "ScratchLoad" \in OpKinds /\ -1 \in -1 .. ScratchpadTiles - 1
    BY <1>5, IRAssumption DEF OpKinds
  <2> QED
    BY <2>1, <2>2 DEF newOp, OpRecord
<1> HIDE DEF loadOp
<1>9. /\ DOMAIN g = DOMAIN heap \cup {store, load} /\ g = [p \in DOMAIN g |-> g[p]]
      /\ g[store] = storeFor(c) /\ g[load] = loadOp
      /\ \A p \in DOMAIN heap : g[p] = read[p]
  BY <1>5, <1>6 DEF put
<1> HIDE DEF g
<1>10. IsHeap(g)
  <2>1. IsFiniteSet(DOMAIN g)
    <3>1. IsFiniteSet(DOMAIN heap \cup {store})
      BY <1>2, FnFacts, FS_AddElement
    <3>2. IsFiniteSet((DOMAIN heap \cup {store}) \cup {load})
      BY <3>1, FS_AddElement
    <3>3. (DOMAIN heap \cup {store}) \cup {load} = DOMAIN g
      BY <1>9
    <3> QED
      BY <3>2, <3>3
  <2>2. DOMAIN g \subseteq Pointer
    BY <1>2, <1>5, <1>9, FnFacts
  <2>3. \A p \in DOMAIN g : g[p] \in OpRecord
    <3>1. g[store] \in OpRecord /\ g[load] \in OpRecord
      BY <1>7, <1>8, <1>9
    <3>2. \A p \in DOMAIN heap : g[p] \in OpRecord
      BY <1>6, <1>9
    <3> QED
      BY <1>9, <3>1, <3>2
  <2>4. g \in [DOMAIN g -> OpRecord]
    BY <1>9, <2>3
  <2>5. 1 \in arities("ScratchStore") /\ 1 \in arities("ScratchLoad")
    BY DEF arities, LeafKinds, BinaryKinds
  <2>6. \A p \in DOMAIN g : Len(g[p].operands) \in arities(g[p].kind)
    <3>1. \A p \in DOMAIN heap : Len(heap[p].operands) \in arities(heap[p].kind)
      BY <1>2, FnFacts
    <3>2. \A p \in DOMAIN heap : Len(g[p].operands) \in arities(g[p].kind)
      <4> SUFFICES ASSUME NEW p \in DOMAIN heap
                   PROVE  Len(g[p].operands) \in arities(g[p].kind)
        OBVIOUS
      <4>1. g[p] = read[p]
        BY <1>9
      <4>2. Len(read[p].operands) = Len(heap[p].operands) /\ read[p].kind = heap[p].kind
        BY <1>6
      <4> QED
        BY <3>1, <4>1, <4>2
    <3>3. Len(g[store].operands) \in arities(g[store].kind)
      BY <1>7, <1>9, <2>5
    <3>4. Len(g[load].operands) \in arities(g[load].kind)
      BY <1>8, <1>9, <2>5
    <3> QED
      BY <1>9, <3>2, <3>3, <3>4
  <2> QED
    BY <2>1, <2>2, <2>4, <2>6 DEF IsHeap
<1>11. \A j \in 1 .. Len(g[owner].operands) :
         g[owner].operands[j] = load \/ Earlier(ops, n, g[owner].operands[j])
  <2>1. \A j \in 1 .. Len(heap[owner].operands) : Earlier(ops, n, heap[owner].operands[j])
    BY <1>2, <1>4, OperandsEarlier
  <2>2. /\ Len(g[owner].operands) = Len(heap[owner].operands)
        /\ g[owner].operands = [heap[owner].operands EXCEPT ![i] = load]
        /\ heap[owner].operands \in Seq(Pointer)
    BY <1>2, <1>6, <1>9, FnFacts DEF OpRecord
  <2> QED
    BY <2>1, <2>2
<1>12. /\ \A j \in 1 .. Len(g[store].operands) : Earlier(ops, n, g[store].operands[j])
       /\ \A j \in 1 .. Len(g[load].operands) : g[load].operands[j] = store
       /\ \A p \in DOMAIN heap : p # ops[n] => g[p].operands = heap[p].operands
  <2>1. Earlier(ops, n, Operand(owner, i))
    BY <1>2, <1>3, <1>4, OperandsEarlier DEF Operand
  <2>2. \A j \in 1 .. Len(g[store].operands) : g[store].operands[j] = Operand(owner, i)
    BY <1>7, <1>9
  <2>3. \A j \in 1 .. Len(g[load].operands) : g[load].operands[j] = store
    BY <1>8, <1>9
  <2>4. \A p \in DOMAIN heap : p # ops[n] => g[p].operands = heap[p].operands
    BY <1>4, <1>6, <1>9
  <2> QED
    BY <2>1, <2>2, <2>3, <2>4
<1>13. /\ DOMAIN heap' = DOMAIN g /\ \A p \in DOMAIN g : SameOp(heap'[p], g[p])
       /\ IsFunction(ops', heap')
  <2>1. IsFunction(ops, heap)
    BY <1>2 DEF FnInv
  <2>2. ReadyToInsert(heap, ops, n, store, load, g)
    BY <1>4, <1>5, <1>9, <1>10, <1>11, <1>12 DEF ReadyToInsert
  <2>3. RenumberedTo(g, list, renumber(g, list))
    BY <2>1, <2>2, InsertKeepsFunction
  <2> HIDE DEF list
  <2> QED
    BY <1>1, <2>3 DEF RenumberedTo
<1>14. FnInv'
  BY <1>13 DEF FnInv
<1>15. Stages(c, n, store, load)
  <2>1. /\ SameOp(heap'[store], storeFor(c)) /\ SameOp(heap'[load], loadOp)
        /\ \A p \in DOMAIN heap : SameOp(heap'[p], read[p])
    BY <1>9, <1>13
  <2>2. \A p \in DOMAIN heap :
          /\ heap'[p].kind = heap[p].kind /\ heap'[p].shape = heap[p].shape
          /\ heap'[p].fusible = heap[p].fusible
          /\ heap'[p].scratchOffset = heap[p].scratchOffset
          /\ heap'[p].operands = IF p = owner THEN [heap[p].operands EXCEPT ![i] = load]
                                 ELSE heap[p].operands
    <3> SUFFICES ASSUME NEW p \in DOMAIN heap
                 PROVE  /\ heap'[p].kind = heap[p].kind /\ heap'[p].shape = heap[p].shape
                        /\ heap'[p].fusible = heap[p].fusible
                        /\ heap'[p].scratchOffset = heap[p].scratchOffset
                        /\ heap'[p].operands = IF p = owner
                             THEN [heap[p].operands EXCEPT ![i] = load]
                             ELSE heap[p].operands
      OBVIOUS
    <3> HIDE DEF i
    <3>1. /\ heap'[p].kind = read[p].kind /\ heap'[p].shape = read[p].shape
          /\ heap'[p].fusible = read[p].fusible
          /\ heap'[p].scratchOffset = read[p].scratchOffset
          /\ heap'[p].operands = read[p].operands
      BY <2>1 DEF SameOp
    <3> QED
      BY <1>6, <3>1
  <2> QED
    BY <1>0, <1>1, <1>3, <1>4, <1>5, <1>9, <1>13, <2>1, <2>2 DEF Stages, loadOp
<1> QED
  BY <1>0, <1>2, <1>4, <1>5, <1>14, <1>15

LEMMA StageKeepsIRInv == IRInv /\ StageOperand => IRInv'
<1> SUFFICES ASSUME IRInv, StageOperand PROVE IRInv'
  OBVIOUS
<1>1. FnInv' /\ \E c \in cands, n \in 1 .. Len(ops), store, load \in Pointer :
        /\ Stages(c, n, store, load) /\ used' = used + c.tiles /\ cands' = cands \ {c}
  BY StageEffect
<1>2. PICK c \in cands, n \in 1 .. Len(ops), store, load \in Pointer :
        /\ Stages(c, n, store, load) /\ used' = used + c.tiles /\ cands' = cands \ {c}
  BY <1>1
<1>3. /\ stage = "tile" /\ stage' = "tile" /\ cursor' = cursor /\ cursor = 0
      /\ config' = config /\ consumers' = consumers /\ owner' = owner /\ owner # Nobody
  BY DEF StageOperand, Tiling, IRInv
<1>4. ConsumersInv /\ config \in Configs /\ Len(ops') \in Nat
  BY <1>1 DEF IRInv, FnInv, IsFunction, Lists
<1>5. used' \in 0 .. ScratchpadTiles
  <2>1. c.tiles \in Nat /\ used \in Nat /\ used + c.tiles <= ScratchpadTiles
    BY <1>2, <1>4 DEF Stages, Fits, ConsumersInv, Candidate
  <2> DEFINE t == c.tiles
  <2>2. t \in Nat /\ used' = used + t /\ used + t <= ScratchpadTiles
    BY <1>2, <2>1
  <2>3. ScratchpadTiles \in Nat
    BY IRAssumption
  <2> HIDE DEF t
  <2> QED
    BY <2>1, <2>2, <2>3
<1>6. DOMAIN heap \subseteq DOMAIN heap' /\ \A p \in DOMAIN heap : heap'[p].kind = heap[p].kind
  BY <1>2 DEF Stages
<1>7. ConsumersInv'
  <2>1. consumers' \in Seq(DOMAIN heap') /\ \A k \in 1 .. Len(consumers) : consumers[k] \in DOMAIN heap
    BY <1>3, <1>4, <1>6 DEF ConsumersInv
  <2> QED
    BY <1>2, <1>3, <1>4, <1>5, <1>6, <2>1 DEF ConsumersInv
<1> QED
  BY <1>1, <1>3, <1>4, <1>7 DEF IRInv

LEMMA TileKeepsIRInv == IRInv /\ Tile => IRInv'
<1> SUFFICES ASSUME IRInv, Tile PROVE IRInv'
  OBVIOUS
<1>1. ConsumersInv /\ FnInv
  BY DEF IRInv
<1>2. ASSUME SkipOperand \/ LeaveConsumer \/ FinishTiling
      PROVE  IRInv'
  <2>1. /\ stage = "tile" /\ stage' \in {"tile", "done"} /\ cursor' = cursor /\ cursor = 0
        /\ config' = config /\ heap' = heap /\ ops' = ops /\ consumers' = consumers
        /\ used' = used /\ cands' \subseteq cands /\ owner' \in {owner, Nobody}
    BY <1>2 DEF SkipOperand, LeaveConsumer, FinishTiling, Tiling, IRInv, fn
  <2>2. FnInv'
    BY <1>1, <2>1 DEF FnInv, IsFunction, IsHeap, Lists, Ordered, Numbered
  <2>3. ConsumersInv'
    BY <1>1, <2>1 DEF ConsumersInv
  <2>4. Len(ops') \in Nat
    BY <2>2 DEF FnInv, IsFunction, Lists
  <2> QED
    BY <2>1, <2>2, <2>3, <2>4 DEF IRInv, Stage
<1> QED
  BY <1>2, VisitKeepsIRInv, StageKeepsIRInv DEF Tile

LEMMA IRInvStep == IRInv /\ [Next]_vars => IRInv'
<1> SUFFICES ASSUME IRInv, [Next]_vars PROVE IRInv'
  OBVIOUS
<1>1. CASE UNCHANGED vars
  <2>1. /\ UNCHANGED <<config, stage, cursor, uses, live, tilingVars>>
        /\ heap' = heap /\ ops' = ops
    BY <1>1 DEF vars, fn
  <2>2. FnInv'
    BY <2>1 DEF IRInv, FnInv, IsFunction, IsHeap, Lists, Ordered, Numbered
  <2>3. ConsumersInv' /\ (MarkedInv <=> MarkedInv')
    BY <2>1 DEF IRInv, ConsumersInv, MarkedInv, tilingVars
  <2> QED
    BY <2>1, <2>2, <2>3 DEF IRInv, tilingVars
<1>2. CASE Lower
  BY <1>2, LowerKeepsIRInv
<1>3. CASE Fuse
  BY <1>3, FuseKeepsIRInv
<1>4. CASE Prune
  BY <1>4, MarkKeepsIRInv, EraseKeepsIRInv DEF Prune
<1>5. CASE Tile
  BY <1>5, TileKeepsIRInv
<1>6. CASE Compiled
  BY <1>1, <1>6 DEF Compiled
<1> QED
  BY <1>1, <1>2, <1>3, <1>4, <1>5, <1>6 DEF Next

\* The op list is a function, and the sweeps where they should be, in every
\* state of every pass (TensorIR.h, and the passes' code over it).
THEOREM IRInvariant == Spec => []IRInv
<1>1. Init => IRInv
  BY InitIRInv
<1>2. IRInv /\ [Next]_vars => IRInv'
  BY IRInvStep
<1> QED
  BY <1>1, <1>2, PTL DEF Spec

LEMMA IRInvImpliesSSAOrder == IRInv => SSAOrder
<1> SUFFICES ASSUME IRInv, NEW k \in 1 .. Len(ops), NEW i \in 1 .. Len(heap[ops[k]].operands)
             PROVE  heap[ops[k]].operands[i] \in {ops[j] : j \in 1 .. k - 1}
  BY DEF SSAOrder, OperandSet, Operand
<1>1. \E j \in 1 .. k - 1 : ops[j] = heap[ops[k]].operands[i]
  BY DEF IRInv, FnInv, IsFunction, Ordered
<1> QED
  BY <1>1

\* Every op refers only to earlier ops of the list, through every pass and
\* between any two of their steps (TensorIR.h:180-184).
THEOREM SSAOrderHolds == Spec => []SSAOrder
BY IRInvariant, IRInvImpliesSSAOrder, PTL

LEMMA IRInvImpliesIds == IRInv => IdsArePositions
BY DEF IRInv, FnInv, IsFunction, Numbered, IdsArePositions

\* Ids are positions after every append, erasure and insertion: renumber()
\* is called wherever it is needed (TensorIR.cpp).
THEOREM IdsArePositionsHolds == Spec => []IdsArePositions
BY IRInvariant, IRInvImpliesIds, PTL

\* A list with every op once is as long as there are ops.
LEMMA IRInvImpliesTypeOK == IRInv => IRTypeOK
<1> SUFFICES ASSUME IRInv PROVE IRTypeOK
  OBVIOUS
<1>1. FnInv /\ ConsumersInv
  BY DEF IRInv
<1>2. Ops = DOMAIN heap /\ Len(ops) \in Nat
  BY <1>1, FnFacts
<1>3. Len(ops) = Cardinality(Ops)
  <2> DEFINE N == 1 .. Len(ops)
             f == [k \in N |-> ops[k]]
  <2>1. f \in [N -> Ops]
    BY <1>1, <1>2, FnFacts
  <2>2. f \in Bijection(N, Ops)
    BY <1>1, <1>2, <2>1, FnFacts DEF Bijection, Injection, Surjection, IsInjective
  <2>3. IsFiniteSet(N) /\ Cardinality(N) = Len(ops)
    <3> DEFINE L == Len(ops)
    <3>1. L \in Int /\ L >= 0
      BY <1>2
    <3> HIDE DEF L
    <3>2. IsFiniteSet(1 .. L) /\ Cardinality(1 .. L) = IF 1 > L THEN 0 ELSE L - 1 + 1
      BY <3>1, FS_Interval, 1 \in Int
    <3>3. Cardinality(1 .. L) = L
      BY <3>1, <3>2
    <3> QED
      BY <3>2, <3>3 DEF L
  <2>5. ExistsBijection(N, Ops)
    BY <2>2 DEF ExistsBijection
  <2> HIDE DEF N, f
  <2>4. IsFiniteSet(Ops) /\ Cardinality(Ops) = Cardinality(N)
    BY <2>2, <2>3, <2>5, FS_Bijection
  <2> QED
    BY <2>3, <2>4
<1>4. \A k \in 1 .. Len(consumers) : consumers[k] \in Ops
  BY <1>1, <1>2 DEF ConsumersInv
<1>5. \A p \in DOMAIN heap :
       /\ heap[p].kind \in OpKinds /\ heap[p].shape \in TensorShape
       /\ heap[p].id \in Nat /\ heap[p].fusible \in BOOLEAN
       /\ heap[p].scratchOffset \in -1 .. ScratchpadTiles - 1
  BY <1>1, FnFacts
<1> QED
  BY <1>1, <1>2, <1>3, <1>4, <1>5 DEF IRTypeOK, IRInv, ConsumersInv

\* Types: in particular the list has every op alive once, and no pass keeps
\* a pointer to one that was erased.
THEOREM IRTypeCorrect == Spec => []IRTypeOK
BY IRInvariant, IRInvImpliesTypeOK, PTL


-----------------------------------------------------------------------------
(* The second layer: fusion.                                               *)

\* useCount() is one where there is exactly one use.
LEMMA UseCounts ==
  ASSUME FnInv, NEW x \in DOMAIN heap
  PROVE  /\ useCount(x) \in Nat
         /\ useCount(x) = 1 =>
              \A q, r \in DOMAIN heap, i, j \in 1 .. 3 :
                Reads(q, i, x) /\ Reads(r, j, x) => q = r /\ i = j
         /\ useCount(x) # 1 =>
              \A q \in DOMAIN heap, i \in 1 .. 3 : Reads(q, i, x) =>
                \E r \in DOMAIN heap, j \in 1 .. 3 : Reads(r, j, x) /\ <<r, j>> # <<q, i>>
<1> DEFINE all == (DOMAIN heap) \X (1 .. 3)
           at == {use \in all : /\ use[2] <= Len(heap[use[1]].operands)
                               /\ heap[use[1]].operands[use[2]] = x}
<1>1. useCount(x) = Cardinality(at)
  BY FnFacts DEF useCount
<1>2. IsFiniteSet(at) /\ Cardinality(at) \in Nat
  <2>1. IsFiniteSet(1 .. 3)
    BY FS_Interval, 1 \in Int, 3 \in Int
  <2>2. IsFiniteSet(all)
    <3>1. IsFiniteSet(DOMAIN heap)
      BY FnFacts
    <3> DEFINE D == DOMAIN heap
               I == 1 .. 3
    <3> HIDE DEF D, I
    <3>2. IsFiniteSet(D \X I)
      BY <2>1, <3>1, FS_Product DEF D, I
    <3> QED
      BY <3>2 DEF D, I
  <2>3. at \subseteq all
    OBVIOUS
  <2>4. IsFiniteSet(at)
    <3> HIDE DEF all, at
    <3> QED
      BY <2>2, <2>3, FS_Subset
  <2> QED
    BY <2>4, FS_CardinalityType
<1>3. \A q \in DOMAIN heap, i \in 1 .. 3 : Reads(q, i, x) <=> <<q, i>> \in at
  <2> SUFFICES ASSUME NEW q \in DOMAIN heap, NEW i \in 1 .. 3
               PROVE  Reads(q, i, x) <=> <<q, i>> \in at
    OBVIOUS
  <2>1. Len(heap[q].operands) \in Nat
    BY ArityOf
  <2> QED
    BY <2>1 DEF Reads, ReadsIn
<1>4. \A use \in at : \E q \in DOMAIN heap, i \in 1 .. 3 : use = <<q, i>>
  OBVIOUS
<1> HIDE DEF at
<1>5. ASSUME useCount(x) = 1, NEW q \in DOMAIN heap, NEW r \in DOMAIN heap,
             NEW i \in 1 .. 3, NEW j \in 1 .. 3, Reads(q, i, x), Reads(r, j, x)
      PROVE  q = r /\ i = j
  <2>1. PICK only : at = {only}
    BY <1>1, <1>2, <1>5, FS_Singleton
  <2>2. <<q, i>> = <<r, j>>
    BY <1>3, <1>5, <2>1
  <2> QED
    BY <2>2
<1>6. ASSUME useCount(x) # 1, NEW q \in DOMAIN heap, NEW i \in 1 .. 3, Reads(q, i, x)
      PROVE  \E r \in DOMAIN heap, j \in 1 .. 3 : Reads(r, j, x) /\ <<r, j>> # <<q, i>>
  <2>1. at # {<<q, i>>}
    BY <1>1, <1>2, <1>6, FS_Singleton
  <2>2. PICK use \in at : use # <<q, i>>
    BY <1>3, <1>6, <2>1
  <2>3. PICK r \in DOMAIN heap, j \in 1 .. 3 : use = <<r, j>>
    BY <1>4
  <2>4. Reads(r, j, x)
    BY <1>3, <2>3
  <2> QED
    BY <2>2, <2>3, <2>4
<1> QED
  BY <1>1, <1>2, <1>5, <1>6

LEMMA InitFusionInv == Init => FusionInv
BY DEF Init, FusionInv, AbsorbedInv

LEMMA LowerKeepsFusionInv == IRInv /\ FusionInv /\ Lower => FusionInv'
<1> SUFFICES ASSUME IRInv, FusionInv, Lower PROVE FusionInv'
  OBVIOUS
<1>1. FnInv /\ (\A p \in DOMAIN heap : heap[p].fusible) /\ stage = "lower" /\ live = {}
  BY DEF Lower, LowerLeaf, LowerUnary, LowerBinary, LowerPrint, FinishLowering, Lowering,
         FusionInv, IRInv
<1>2. ASSUME Lowering, NEW kind, NEW shape, NEW operands, addOp(kind, shape, operands)
      PROVE  FusionInv'
  <2>1. \A p \in DOMAIN heap' : heap'[p].fusible
    BY <1>1, <1>2 DEF addOp, put, newOp
  <2>2. stage' = "lower"
    BY <1>1, <1>2 DEF Lowering
  <2> QED
    BY <2>1, <2>2 DEF FusionInv, AbsorbedInv
<1>3. CASE LowerLeaf \/ LowerUnary \/ LowerBinary \/ LowerPrint
  BY <1>2, <1>3 DEF LowerLeaf, LowerUnary, LowerBinary, LowerPrint
<1>4. CASE FinishLowering
  <2>1. heap' = heap /\ ops' = ops /\ live' = {} /\ config' = config
    BY <1>1, <1>4 DEF FinishLowering, fn
  <2>2. AbsorbedInv'
    BY <1>1, <2>1 DEF AbsorbedInv
  <2>3. CASE ~config.fusion
    <3>1. stage' = "mark"
      BY <1>4, <2>3 DEF FinishLowering
    <3> QED
      BY <2>1, <2>2, <2>3, <3>1 DEF FusionInv
  <2>4. CASE config.fusion
    <3>1. stage' = "fuse" /\ cursor' = 1 /\ uses' = [p \in DOMAIN heap |-> useCount(p)]
      BY <1>4, <2>4 DEF FinishLowering
    <3>2. uses' \in [DOMAIN heap -> Nat] /\ \A x \in DOMAIN heap : uses'[x] = useCount(x)
      BY <1>1, <3>1, UseCounts
    <3>3. SoleReaders'
      <4>1. \A k \in 1 .. Len(ops) : ops[k] \in DOMAIN heap
        BY <1>1, FnFacts
      <4> SUFFICES ASSUME NEW k \in 1 .. Len(ops), NEW i \in 1 .. 3, NEW x \in DOMAIN heap,
                          ReadsIn(heap, ops[k], i, x), uses'[x] = 1,
                          NEW q \in DOMAIN heap, NEW j \in 1 .. 3, ReadsIn(heap, q, j, x)
                   PROVE  q = ops[k] /\ j = i
        BY <2>1, <3>1 DEF SoleReaders, Reads
      <4> QED
        BY <1>1, <3>2, <4>1, UseCounts DEF Reads
    <3>4. SharedReaders'
      <4> SUFFICES ASSUME NEW q \in DOMAIN heap, NEW i \in 1 .. 3, NEW x \in DOMAIN heap,
                          ReadsIn(heap, q, i, x), uses'[x] # 1
                   PROVE  \E r \in DOMAIN heap, j \in 1 .. 3 :
                            ReadsIn(heap, r, j, x) /\ <<r, j>> # <<q, i>>
        BY <2>1 DEF SharedReaders, Reads
      <4> QED
        BY <1>1, <3>2, UseCounts DEF Reads
    <3>5. VisitedInv'
      BY <3>1 DEF VisitedInv
    <3> QED
      BY <2>1, <2>2, <2>4, <3>1, <3>2, <3>3, <3>4, <3>5 DEF FusionInv
  <2> QED
    BY <2>3, <2>4
<1> QED
  BY <1>3, <1>4 DEF Lower


\* A fusion: op takes the operands of `producer` over, in place of its only use.
TakesOver(op, producer) ==
  /\ op = ops[cursor] /\ op \in DOMAIN heap
  /\ producer \in DOMAIN heap /\ producer # op /\ uses[producer] = 1
  /\ \A k \in cursor .. Len(ops) : ops[k] # producer
  /\ heap[op].kind \in {"Relu", "Add"} /\ heap[producer].kind \in {"MatMul", "FusedMatMulAcc"}
  /\ \E i \in 1 .. 3 : Reads(op, i, producer)
  /\ ops' = ops /\ DOMAIN heap' = DOMAIN heap
  /\ heap'[op].kind \in FusedKinds
  /\ \A p \in DOMAIN heap :
       /\ heap'[p].fusible = IF p = producer THEN FALSE ELSE heap[p].fusible
       /\ p # op => heap'[p].kind = heap[p].kind /\ heap'[p].operands = heap[p].operands
  \* What op reads now, producer did, or op did;
  /\ \A i \in 1 .. 3, x \in DOMAIN heap : ReadsIn(heap', op, i, x) =>
       /\ x # producer /\ x # op
       /\ Reads(producer, i, x) \/ (i = 3 /\ \E j \in 1 .. 3 : Reads(op, j, x))
  \* and what op did and does still is one operand.
  /\ \A i, j \in 1 .. 3, x, y \in DOMAIN heap :
       Reads(op, i, x) /\ Reads(op, j, y) /\ x # producer /\ y # producer =>
         i = j /\ ReadsIn(heap', op, 3, x)

LEMMA FusionTakesOver ==
  ASSUME IRInv, FusionInv, stage = "fuse", cursor <= Len(ops), ops' = ops, FuseRelu \/ FuseAcc
  PROVE  \E op, producer \in DOMAIN heap : TakesOver(op, producer)
<1>1. cursor \in 1 .. Len(ops) /\ Current \in DOMAIN heap /\ FnInv
  BY FusionShape DEF IRInv
<1>2. PICK producer \in DOMAIN heap :
        \/ /\ ReluAbsorbs /\ producer = Operand(Current, 1)
           /\ FusesTo(Current, "FusedMatMulRelu", producer, heap[producer].operands)
        \/ \E side \in {1, 2} :
             /\ AddAbsorbs(side) /\ producer = Operand(Current, side)
             /\ FusesTo(Current, "FusedMatMulAcc", producer,
                        heap[producer].operands \o <<Operand(Current, 3 - side)>>)
  BY FusionShape
<1>3. PICK op \in DOMAIN heap : op = Current /\ op = ops[cursor]
  BY <1>1 DEF Current
<1>4. /\ \A i \in 1 .. Len(heap[op].operands) : Earlier(ops, cursor, heap[op].operands[i])
      /\ Earlier(ops, cursor, producer) =>
           \A i \in 1 .. Len(heap[producer].operands) :
             Earlier(ops, cursor, heap[producer].operands[i])
  BY <1>1, <1>3, OperandsEarlier
<1>5. \A x : Earlier(ops, cursor, x) => x # op /\ \A k \in cursor .. Len(ops) : ops[k] # x
  <2> SUFFICES ASSUME NEW x, NEW j \in 1 .. cursor - 1, ops[j] = x,
                      NEW k \in cursor .. Len(ops)
               PROVE  ops[k] # x
    BY <1>1, <1>3 DEF Earlier
  <2>1. j \in 1 .. Len(ops) /\ k \in 1 .. Len(ops) /\ j # k
    BY <1>1
  <2> QED
    BY <1>1, <2>1, FnFacts
<1>6. \A i \in 1 .. Len(heap[producer].operands) : heap[producer].operands[i] # producer
  <2>1. PICK k \in 1 .. Len(ops) : ops[k] = producer
    BY <1>1, FnFacts
  <2> SUFFICES ASSUME NEW i \in 1 .. Len(heap[producer].operands),
                      heap[producer].operands[i] = producer
               PROVE  FALSE
    OBVIOUS
  <2>4. Earlier(ops, k, heap[ops[k]].operands[i])
    <3>1. i \in 1 .. Len(heap[ops[k]].operands)
      BY <2>1
    <3> QED
      BY <1>1, <3>1, OperandsEarlier
  <2>2. PICK j \in 1 .. k - 1 : ops[j] = ops[k]
    BY <2>1, <2>4 DEF Earlier
  <2>3. j \in 1 .. Len(ops) /\ j # k
    BY <2>1
  <2> QED
    BY <1>1, <2>2, <2>3, FnFacts
<1>7. ASSUME ReluAbsorbs, producer = Operand(Current, 1),
             FusesTo(Current, "FusedMatMulRelu", producer, heap[producer].operands)
      PROVE  TakesOver(op, producer)
  <2>1. /\ heap[op].kind = "Relu" /\ heap[producer].kind \in {"MatMul", "FusedMatMulAcc"}
        /\ uses[producer] = 1
    BY <1>3, <1>7 DEF ReluAbsorbs, SoleUse
  <2>2. /\ Len(heap[op].operands) = 1 /\ heap[op].operands[1] = producer
        /\ Len(heap[producer].operands) \in {2, 3}
    BY <1>1, <1>3, <1>7, <2>1, ArityOf DEF UnaryKinds, isMatMulFamily, Operand
  <2>3. Earlier(ops, cursor, producer)
    BY <1>4, <2>2
  <2>4. \A i \in 1 .. Len(heap[producer].operands) :
          heap[producer].operands[i] # producer /\ heap[producer].operands[i] # op
    BY <1>4, <1>5, <1>6, <2>3
  <2>5. /\ ops' = ops /\ DOMAIN heap' = DOMAIN heap
        /\ heap'[op].kind \in FusedKinds /\ heap'[op].operands = heap[producer].operands
        /\ \A p \in DOMAIN heap :
             /\ heap'[p].fusible = IF p = producer THEN FALSE ELSE heap[p].fusible
             /\ p # op => heap'[p].kind = heap[p].kind /\ heap'[p].operands = heap[p].operands
    BY <1>3, <1>7 DEF FusesTo, FusedKinds
  <2>6. \A i \in 1 .. 3, x \in DOMAIN heap : ReadsIn(heap', op, i, x) =>
          x # producer /\ x # op /\ Reads(producer, i, x)
    BY <2>4, <2>5 DEF Reads, ReadsIn
  <2>7. \A i \in 1 .. 3, x \in DOMAIN heap : Reads(op, i, x) <=> i = 1 /\ x = producer
    BY <2>2 DEF Reads, ReadsIn
  <2>8. producer # op /\ \A k \in cursor .. Len(ops) : ops[k] # producer
    BY <1>5, <2>3
  <2>9. /\ \E i \in 1 .. 3 : Reads(op, i, producer)
        /\ \A i \in 1 .. 3, x \in DOMAIN heap : x # producer => ~Reads(op, i, x)
    BY <2>7
  <2> QED
    BY <1>3, <2>1, <2>5, <2>6, <2>8, <2>9 DEF TakesOver
<1>8. ASSUME NEW side \in {1, 2},
             AddAbsorbs(side), producer = Operand(Current, side),
             FusesTo(Current, "FusedMatMulAcc", producer,
                     heap[producer].operands \o <<Operand(Current, 3 - side)>>)
      PROVE  TakesOver(op, producer)
  <2>1. /\ heap[op].kind = "Add" /\ heap[producer].kind = "MatMul" /\ uses[producer] = 1
    BY <1>3, <1>8 DEF AddAbsorbs, SoleUse
  <2> DEFINE other == heap[op].operands[3 - side]
  <2>2. /\ Len(heap[op].operands) = 2 /\ heap[op].operands[side] = producer
        /\ Len(heap[producer].operands) = 2 /\ other # producer
    BY <1>1, <1>3, <1>8, <2>1, ArityOf DEF Operand, AddAbsorbs
  <2>3. Earlier(ops, cursor, producer) /\ Earlier(ops, cursor, other)
    <3>1. side \in 1 .. 2 /\ 3 - side \in 1 .. 2
      OBVIOUS
    <3> QED
      BY <1>4, <2>2, <3>1
  <2>4. \A i \in 1 .. 2 :
          heap[producer].operands[i] # producer /\ heap[producer].operands[i] # op
    BY <1>4, <1>5, <1>6, <2>2, <2>3
  <2>5. other # op /\ producer # op /\ other \in Pointer
    <3>1. other \in DOMAIN heap
      <4>1. 3 - side \in 1 .. Len(heap[op].operands)
        BY <2>2
      <4>2. \A i \in 1 .. Len(heap[op].operands) : heap[op].operands[i] \in DOMAIN heap
        BY <1>1, FnFacts
      <4> QED
        BY <4>1, <4>2
    <3> QED
      BY <1>1, <1>5, <2>3, <3>1, FnFacts
  <2> HIDE DEF other
  <2> DEFINE operands == heap[producer].operands \o <<other>>
  <2>6. /\ Len(operands) = 3 /\ operands[3] = other
        /\ operands[1] = heap[producer].operands[1] /\ operands[2] = heap[producer].operands[2]
    <3>1. heap[producer].operands \in Seq(Pointer)
      BY <1>1, FnFacts DEF OpRecord
    <3> QED
      BY <2>2, <2>5, <3>1, FactorsAndBias
  <2>7. FusesTo(op, "FusedMatMulAcc", producer, operands)
    BY <1>3, <1>8 DEF other, Operand
  <2> HIDE DEF operands
  <2>8. /\ ops' = ops /\ DOMAIN heap' = DOMAIN heap
        /\ heap'[op].kind \in FusedKinds /\ heap'[op].operands = operands
        /\ \A p \in DOMAIN heap :
             /\ heap'[p].fusible = IF p = producer THEN FALSE ELSE heap[p].fusible
             /\ p # op => heap'[p].kind = heap[p].kind /\ heap'[p].operands = heap[p].operands
    BY <2>7 DEF FusesTo, FusedKinds
  <2>9. \A i \in 1 .. 3, x \in DOMAIN heap : Reads(op, i, x) <=>
          (i = side /\ x = producer) \/ (i = 3 - side /\ x = other)
    BY <2>2 DEF Reads, ReadsIn, other
  <2>10. ASSUME NEW i \in 1 .. 3, NEW x \in DOMAIN heap, ReadsIn(heap', op, i, x)
         PROVE  /\ x # producer /\ x # op
                /\ Reads(producer, i, x) \/ (i = 3 /\ \E j \in 1 .. 3 : Reads(op, j, x))
    <3>1. operands[i] = x
      BY <2>8, <2>10 DEF ReadsIn
    <3>2. CASE i \in {1, 2}
      BY <2>2, <2>4, <2>6, <3>1, <3>2 DEF Reads, ReadsIn
    <3>3. CASE i = 3
      <4>1. x = other /\ Reads(op, 3 - side, x) /\ 3 - side \in 1 .. 3
        BY <2>6, <2>9, <3>1, <3>3
      <4> QED
        BY <2>2, <2>5, <3>3, <4>1
    <3> QED
      BY <3>2, <3>3
  <2>11. \A i, j \in 1 .. 3, x, y \in DOMAIN heap :
           Reads(op, i, x) /\ Reads(op, j, y) /\ x # producer /\ y # producer =>
             i = j /\ ReadsIn(heap', op, 3, x)
    <3>1. ReadsIn(heap', op, 3, other)
      <4>1. heap'[op].operands = operands /\ op \in DOMAIN heap' /\ 3 \in 1 .. Len(operands)
        BY <2>6, <2>8
      <4> QED
        BY <2>6, <4>1 DEF ReadsIn
    <3>2. \A i \in 1 .. 3, x \in DOMAIN heap :
            Reads(op, i, x) /\ x # producer => i = 3 - side /\ x = other
      BY <2>9
    <3> QED
      BY <3>1, <3>2
  <2>12. \E i \in 1 .. 3 : Reads(op, i, producer)
    BY <2>9
  <2> QED
    BY <1>3, <1>5, <2>1, <2>3, <2>5, <2>8, <2>10, <2>11, <2>12 DEF TakesOver
<1> QED
  BY <1>2, <1>7, <1>8


LEMMA FusionKeepsFusionInv ==
  ASSUME IRInv, FusionInv, FuseRelu \/ FuseAcc
  PROVE  FusionInv'
<1>1. Fusing /\ stage = "fuse" /\ cursor <= Len(ops) /\ ops' = ops /\ uses' = uses
  BY DEF FuseRelu, FuseAcc, Fusing
<1>2. /\ FnInv /\ config.fusion /\ SoleReaders /\ SharedReaders /\ VisitedInv /\ AbsorbedInv
      /\ uses \in [DOMAIN heap -> Nat] /\ cursor \in 1 .. Len(ops)
  BY <1>1, FnFacts DEF IRInv, FusionInv
<1>3. PICK op, producer \in DOMAIN heap : TakesOver(op, producer)
  BY <1>1, FusionTakesOver
<1>4. /\ op = ops[cursor] /\ producer # op /\ uses[producer] = 1
      /\ \A k \in cursor .. Len(ops) : ops[k] # producer
      /\ heap[op].kind \in {"Relu", "Add"} /\ heap[producer].kind \in {"MatMul", "FusedMatMulAcc"}
      /\ DOMAIN heap' = DOMAIN heap /\ heap'[op].kind \in FusedKinds
  BY <1>3 DEF TakesOver
<1>5. \A p \in DOMAIN heap :
        /\ heap'[p].fusible = IF p = producer THEN FALSE ELSE heap[p].fusible
        /\ p # op => heap'[p].kind = heap[p].kind /\ heap'[p].operands = heap[p].operands
  BY <1>3 DEF TakesOver
<1>6. \A i \in 1 .. 3, x \in DOMAIN heap : ReadsIn(heap', op, i, x) =>
        /\ x # producer /\ x # op
        /\ Reads(producer, i, x) \/ (i = 3 /\ \E j \in 1 .. 3 : Reads(op, j, x))
  BY <1>3 DEF TakesOver
<1>7. \A i, j \in 1 .. 3, x, y \in DOMAIN heap :
        Reads(op, i, x) /\ Reads(op, j, y) /\ x # producer /\ y # producer =>
          i = j /\ ReadsIn(heap', op, 3, x)
  BY <1>3 DEF TakesOver
<1>8. PICK side \in 1 .. 3 : Reads(op, side, producer)
  BY <1>3 DEF TakesOver
<1>9. \A q \in DOMAIN heap, i \in 1 .. 3, x \in DOMAIN heap :
        q # op => (ReadsIn(heap', q, i, x) <=> Reads(q, i, x))
  BY <1>4, <1>5 DEF Reads, ReadsIn
<1>10. \A q \in DOMAIN heap, j \in 1 .. 3 : Reads(q, j, producer) => q = op
  <2>1. cursor \in cursor .. Len(ops)
    BY <1>2
  <2> QED
    BY <1>2, <1>4, <1>8, <2>1 DEF SoleReaders
<1>11. AbsorbedInv'
  <2> SUFFICES ASSUME NEW p \in DOMAIN heap, ~heap'[p].fusible
               PROVE  /\ heap'[p].kind \in {"MatMul", "FusedMatMulAcc"}
                      /\ \A q \in DOMAIN heap, i \in 1 .. 3 : ~ReadsIn(heap', q, i, p)
    BY <1>4 DEF AbsorbedInv, Reads
  <2>1. CASE p = producer
    <3>1. heap'[p].kind \in {"MatMul", "FusedMatMulAcc"}
      BY <1>4, <1>5, <2>1
    <3>2. \A q \in DOMAIN heap, i \in 1 .. 3 : ~ReadsIn(heap', q, i, p)
      BY <1>6, <1>9, <1>10, <2>1
    <3> QED
      BY <3>1, <3>2
  <2>2. CASE p # producer
    <3>1. /\ heap[p].kind \in {"MatMul", "FusedMatMulAcc"}
          /\ \A q \in DOMAIN heap, i \in 1 .. 3 : ~Reads(q, i, p)
      BY <1>2, <1>5, <2>2 DEF AbsorbedInv
    <3>2. p # op /\ heap'[p].kind = heap[p].kind
      BY <1>4, <1>5, <3>1
    <3> QED
      BY <1>6, <1>9, <3>1, <3>2
  <2> QED
    BY <2>1, <2>2
<1>12. SoleReaders'
  <2> SUFFICES ASSUME NEW k \in cursor + 1 .. Len(ops), NEW i \in 1 .. 3, NEW x \in DOMAIN heap,
                      ReadsIn(heap', ops[k], i, x), uses[x] = 1,
                      NEW q \in DOMAIN heap, NEW j \in 1 .. 3, ReadsIn(heap', q, j, x)
               PROVE  q = ops[k] /\ j = i
    <3>1. cursor' = cursor + 1
      BY <1>1 DEF Fusing
    <3> QED
      BY <1>1, <1>4, <3>1 DEF SoleReaders, Reads
  <2>1. k \in cursor .. Len(ops) /\ k \in 1 .. Len(ops) /\ k # cursor
    BY <1>2
  <2>2. ops[k] \in DOMAIN heap /\ ops[k] # op /\ ops[k] # producer
    BY <1>2, <1>4, <2>1, FnFacts
  <2>3. Reads(ops[k], i, x)
    BY <1>9, <2>2
  <2>4. \A r \in DOMAIN heap, m \in 1 .. 3 : Reads(r, m, x) => r = ops[k] /\ m = i
    BY <1>2, <2>1, <2>3 DEF SoleReaders
  <2>5. q # op
    <3> SUFFICES ASSUME q = op PROVE FALSE
      OBVIOUS
    <3>1. Reads(producer, j, x) \/ \E m \in 1 .. 3 : Reads(op, m, x)
      BY <1>6
    <3> QED
      BY <2>2, <2>4, <3>1
  <2> QED
    BY <1>9, <2>4, <2>5
<1>13. SharedReaders'
  <2> SUFFICES ASSUME NEW q \in DOMAIN heap, NEW i \in 1 .. 3, NEW x \in DOMAIN heap,
                      ReadsIn(heap', q, i, x), uses[x] # 1
               PROVE  \E r \in DOMAIN heap, j \in 1 .. 3 :
                        ReadsIn(heap', r, j, x) /\ <<r, j>> # <<q, i>>
    BY <1>1, <1>4 DEF SharedReaders, Reads
  <2>1. x # producer
    BY <1>4
  <2>2. \A r \in DOMAIN heap, j \in 1 .. 3 : Reads(r, j, x) =>
          \E r2 \in DOMAIN heap, j2 \in 1 .. 3 : Reads(r2, j2, x) /\ <<r2, j2>> # <<r, j>>
    BY <1>2 DEF SharedReaders
  <2>3. CASE q # op
    <3>1. PICK r \in DOMAIN heap, j \in 1 .. 3 : Reads(r, j, x) /\ <<r, j>> # <<q, i>>
      BY <1>9, <2>2, <2>3
    <3>2. CASE r # op
      BY <1>9, <3>1, <3>2
    <3>3. CASE r = op
      <4>1. ReadsIn(heap', op, 3, x) /\ <<op, 3>> # <<q, i>>
        BY <1>7, <2>1, <2>3, <3>1, <3>3
      <4> QED
        BY <4>1, 3 \in 1 .. 3
    <3> QED
      BY <3>2, <3>3
  <2>4. CASE q = op
    <3>1. CASE Reads(producer, i, x)
      <4>1. ReadsIn(heap', producer, i, x) /\ <<producer, i>> # <<q, i>>
        BY <1>4, <1>9, <2>4, <3>1
      <4> QED
        BY <4>1
    <3>2. ASSUME NEW j \in 1 .. 3, Reads(op, j, x)
          PROVE  \E r \in DOMAIN heap, m \in 1 .. 3 :
                   ReadsIn(heap', r, m, x) /\ <<r, m>> # <<q, i>>
      <4>1. PICK r \in DOMAIN heap, m \in 1 .. 3 : Reads(r, m, x) /\ <<r, m>> # <<op, j>>
        BY <2>2, <3>2
      <4>2. r # op
        BY <1>7, <2>1, <3>2, <4>1
      <4>3. ReadsIn(heap', r, m, x) /\ <<r, m>> # <<q, i>>
        BY <1>9, <2>4, <4>1, <4>2
      <4> QED
        BY <4>3
    <3> QED
      BY <1>6, <2>4, <3>1, <3>2
  <2> QED
    BY <2>3, <2>4
<1>14. VisitedInv'
  <2> SUFFICES ASSUME NEW k \in 1 .. cursor, k \in 1 .. Len(ops)
               PROVE  /\ heap'[ops[k]].kind = "Relu" =>
                           LET q == heap'[ops[k]].operands[1] IN
                             heap'[q].kind \in {"MatMul", "FusedMatMulAcc"} => uses[q] # 1
                      /\ heap'[ops[k]].kind = "Add" =>
                           \A s \in {1, 2} :
                             LET q == heap'[ops[k]].operands[s] IN
                               \/ heap'[q].kind # "MatMul" \/ uses[q] # 1
                               \/ heap'[ops[k]].operands[3 - s] = q
    <3>1. cursor' = cursor + 1 /\ stage' = "fuse"
      BY <1>1 DEF Fusing
    <3>2. \A k \in 1 .. Len(ops) : k < cursor' => k \in 1 .. cursor
      BY <1>2, <3>1
    <3> QED
      BY <1>1, <3>1, <3>2 DEF VisitedInv
  <2>1. CASE k = cursor
    BY <1>4, <2>1 DEF FusedKinds
  <2>2. CASE k < cursor
    <3>0. ops[k] \in DOMAIN heap
      BY <1>2, FnFacts
    <3>1. ops[k] \in DOMAIN heap /\ ops[k] # op
      <4>1. k # cursor /\ cursor \in 1 .. Len(ops) /\ op = ops[cursor]
        BY <1>2, <1>4, <2>2 DEF Current
      <4>2. \A j, l \in 1 .. Len(ops) : ops[j] = ops[l] => j = l
        BY <1>2, FnFacts
      <4> QED
        BY <3>0, <4>1, <4>2
    <3>2. heap'[ops[k]].kind = heap[ops[k]].kind /\ heap'[ops[k]].operands = heap[ops[k]].operands
      BY <1>5, <3>1
    <3>3. \A i \in 1 .. Len(heap[ops[k]].operands) :
            heap'[heap[ops[k]].operands[i]].kind = heap[heap[ops[k]].operands[i]].kind
      <4> SUFFICES ASSUME NEW i \in 1 .. Len(heap[ops[k]].operands)
                   PROVE  heap'[heap[ops[k]].operands[i]].kind = heap[heap[ops[k]].operands[i]].kind
        OBVIOUS
      <4>1. PICK j \in 1 .. k - 1 : ops[j] = heap[ops[k]].operands[i]
        BY <1>2, OperandsEarlier DEF Earlier
      <4>2. j \in 1 .. Len(ops) /\ j # cursor
        BY <1>2, <2>2
      <4>3. ops[j] \in DOMAIN heap /\ ops[j] # op
        BY <1>2, <1>4, <4>2, FnFacts
      <4> QED
        BY <1>5, <4>1, <4>3
    <3>4. CASE heap[ops[k]].kind = "Relu"
      <4>1. Len(heap[ops[k]].operands) = 1
        BY <1>2, <3>1, <3>4, ArityOf DEF UnaryKinds
      <4>2. 1 \in 1 .. Len(heap[ops[k]].operands)
        BY <4>1
      <4>3. LET q == heap[ops[k]].operands[1] IN
              heap[q].kind \in {"MatMul", "FusedMatMulAcc"} => uses[q] # 1
        BY <1>2, <2>2, <3>4 DEF VisitedInv
      <4> QED
        BY <3>2, <3>3, <3>4, <4>2, <4>3
    <3>5. CASE heap[ops[k]].kind = "Add"
      <4>1. Len(heap[ops[k]].operands) = 2
        BY <1>2, <3>1, <3>5, ArityOf
      <4>2. \A s \in {1, 2} : s \in 1 .. Len(heap[ops[k]].operands)
        BY <4>1
      <4>3. \A s \in {1, 2} :
              LET q == heap[ops[k]].operands[s] IN
                \/ heap[q].kind # "MatMul" \/ uses[q] # 1
                \/ heap[ops[k]].operands[3 - s] = q
        BY <1>2, <2>2, <3>5 DEF VisitedInv
      <4>4. \A s \in {1, 2} :
              heap'[heap[ops[k]].operands[s]].kind = heap[heap[ops[k]].operands[s]].kind
        BY <3>3, <4>2
      <4> QED
        BY <3>2, <3>5, <4>3, <4>4
    <3> QED
      BY <3>2, <3>4, <3>5
  <2>3. k = cursor \/ k < cursor
    BY <1>2
  <2> QED
    BY <2>1, <2>2, <2>3
<1>15. stage' = "fuse" /\ config' = config
  BY <1>1 DEF Fusing
<1> QED
  BY <1>1, <1>2, <1>4, <1>11, <1>12, <1>13, <1>14, <1>15 DEF FusionInv


LEMMA FuseKeepsFusionInv == IRInv /\ FusionInv /\ Fuse => FusionInv'
<1> SUFFICES ASSUME IRInv, FusionInv, Fuse PROVE FusionInv'
  OBVIOUS
<1>1. CASE KeepOp \/ FinishFusion
  <2>1. /\ heap' = heap /\ ops' = ops /\ uses' = uses /\ live' = live /\ live = {}
        /\ stage = "fuse" /\ config' = config /\ FnInv
    BY <1>1 DEF KeepOp, FinishFusion, Fusing, fn, IRInv
  <2>2. /\ AbsorbedInv /\ config.fusion /\ uses \in [DOMAIN heap -> Nat]
        /\ SoleReaders /\ SharedReaders /\ VisitedInv /\ cursor \in 1 .. Len(ops) + 1
    BY <2>1 DEF FusionInv, IRInv
  <2>3. AbsorbedInv' /\ SharedReaders'
    BY <2>1, <2>2 DEF AbsorbedInv, SharedReaders, Reads
  <2>4. CASE KeepOp
    <3>1. stage' = "fuse" /\ cursor' = cursor + 1 /\ cursor \in 1 .. Len(ops)
      BY <2>1, <2>2, <2>4, FnFacts DEF KeepOp, Fusing
    <3>2. SoleReaders'
      <4>1. \A k \in cursor' .. Len(ops) : k \in cursor .. Len(ops)
        BY <2>2, <3>1
      <4> QED
        BY <2>1, <2>2, <4>1 DEF SoleReaders, Reads
    <3>3. VisitedInv'
      <4> SUFFICES ASSUME NEW k \in 1 .. Len(ops), k < cursor'
                   PROVE  /\ heap[ops[k]].kind = "Relu" =>
                               LET q == heap[ops[k]].operands[1] IN
                                 heap[q].kind \in {"MatMul", "FusedMatMulAcc"} => uses[q] # 1
                          /\ heap[ops[k]].kind = "Add" =>
                               \A side \in {1, 2} :
                                 LET q == heap[ops[k]].operands[side] IN
                                   \/ heap[q].kind # "MatMul" \/ uses[q] # 1
                                   \/ heap[ops[k]].operands[3 - side] = q
        BY <2>1, <3>1 DEF VisitedInv
      <4>1. CASE k < cursor
        BY <2>2, <4>1 DEF VisitedInv
      <4>2. CASE k = cursor
        <5>1. ~ReluAbsorbs /\ ~AddAbsorbs(1) /\ ~AddAbsorbs(2) /\ Current = ops[k]
          BY <2>4, <4>2 DEF KeepOp, Current
        <5>2. heap[ops[k]].kind = "Relu" =>
                LET q == heap[ops[k]].operands[1] IN
                  heap[q].kind \in {"MatMul", "FusedMatMulAcc"} => uses[q] # 1
          BY <5>1 DEF ReluAbsorbs, SoleUse, Operand
        <5>3. ASSUME heap[ops[k]].kind = "Add", NEW side \in {1, 2}
              PROVE  LET q == heap[ops[k]].operands[side] IN
                       \/ heap[q].kind # "MatMul" \/ uses[q] # 1
                       \/ heap[ops[k]].operands[3 - side] = q
          BY <5>1, <5>3 DEF AddAbsorbs, SoleUse, Operand
        <5> QED
          BY <5>2, <5>3
      <4>3. k < cursor \/ k = cursor
        BY <2>2, <3>1
      <4> QED
        BY <4>1, <4>2, <4>3
    <3> QED
      BY <2>1, <2>2, <2>3, <3>1, <3>2, <3>3 DEF FusionInv
  <2>5. CASE FinishFusion
    <3>1. stage' = "mark" /\ cursor > Len(ops)
      BY <2>5 DEF FinishFusion
    <3>2. VisitedInv'
      <4>1. \A k \in 1 .. Len(ops) : k < cursor
        BY <2>1, <2>2, <3>1, FnFacts
      <4>2. /\ heap' = heap /\ ops' = ops /\ uses' = uses /\ stage # "mark"
            /\ VisitedInv
        BY <2>1, <2>2
      <4> QED
        BY <4>1, <4>2 DEF VisitedInv
    <3> QED
      BY <2>1, <2>2, <2>3, <3>1, <3>2 DEF FusionInv
  <2> QED
    BY <1>1, <2>4, <2>5
<1> QED
  BY <1>1, FusionKeepsFusionInv DEF Fuse

\* What is marked is read or printed, and an absorbed op is neither.
LEMMA PruneKeepsFusionInv == IRInv /\ FusionInv /\ Prune => FusionInv'
<1> SUFFICES ASSUME IRInv, FusionInv, Prune PROVE FusionInv'
  OBVIOUS
<1>1. CASE Mark
  <2>1. /\ heap' = heap /\ ops' = ops /\ uses' = uses /\ config' = config
        /\ stage = "mark" /\ stage' = "mark" /\ live' = marked(Current)
        /\ FnInv /\ AbsorbedInv /\ live \subseteq DOMAIN heap /\ \A p \in live : heap[p].fusible
    BY <1>1 DEF Mark, fn, IRInv, FusionInv, MarkedInv
  <2>2. Current \in DOMAIN heap
    <3>1. cursor \in 1 .. Len(ops)
      BY <1>1, <2>1, FnFacts DEF IRInv, Mark
    <3> QED
      BY <2>1, <3>1, FnFacts DEF Current
  <2>3. \A p \in OperandSet(Current) : p \in DOMAIN heap /\ heap[p].fusible
    <3> SUFFICES ASSUME NEW i \in 1 .. Len(heap[Current].operands)
                 PROVE  /\ heap[Current].operands[i] \in DOMAIN heap
                        /\ heap[heap[Current].operands[i]].fusible
      BY DEF OperandSet, Operand
    <3>1. heap[Current].operands[i] \in DOMAIN heap
      BY <2>1, <2>2, FnFacts
    <3>2. Len(heap[Current].operands) \in Nat /\ Len(heap[Current].operands) <= 3
      BY <2>1, <2>2, ArityOf
    <3>3. i \in 1 .. 3
      BY <3>2
    <3>4. Reads(Current, i, heap[Current].operands[i])
      BY <2>2 DEF Reads, ReadsIn
    <3> QED
      BY <2>1, <2>2, <3>1, <3>3, <3>4 DEF AbsorbedInv
  <2>4. heap[Current].kind = "Print" => heap[Current].fusible
    BY <2>1, <2>2 DEF AbsorbedInv
  <2>5. \A p \in live' : heap'[p].fusible
    BY <2>1, <2>3, <2>4 DEF marked
  <2>6. AbsorbedInv' /\ (SharedReaders <=> SharedReaders') /\ (VisitedInv <=> VisitedInv')
    BY <2>1 DEF AbsorbedInv, SharedReaders, VisitedInv, Reads
  <2> QED
    BY <2>1, <2>5, <2>6 DEF FusionInv
<1>2. CASE Erase
  <2>1. DOMAIN heap' = live /\ \A p \in live : SameOp(heap'[p], heap[p])
    BY <1>2, EraseEffect
  <2>2. stage = "mark" /\ stage' \in {"tile", "done"}
    BY <1>2 DEF Erase
  <2>3. \A p \in DOMAIN heap' : heap'[p].fusible
    BY <2>1, <2>2 DEF FusionInv, SameOp
  <2> QED
    BY <2>2, <2>3 DEF FusionInv, AbsorbedInv
<1> QED
  BY <1>1, <1>2 DEF Prune

LEMMA TileKeepsFusionInv == IRInv /\ FusionInv /\ Tile => FusionInv'
<1> SUFFICES ASSUME IRInv, FusionInv, Tile PROVE FusionInv'
  OBVIOUS
<1>1. stage = "tile" /\ stage' \in {"tile", "done"} /\ \A p \in DOMAIN heap : heap[p].fusible
  BY DEF Tile, VisitConsumer, StageOperand, SkipOperand, LeaveConsumer, FinishTiling, Tiling, FusionInv
<1>2. \A p \in DOMAIN heap' : heap'[p].fusible
  <2>1. CASE VisitConsumer
    BY <1>1, <2>1, VisitEffect
  <2>2. CASE StageOperand
    <3>1. PICK c \in cands, n \in 1 .. Len(ops), store, load \in Pointer :
            Stages(c, n, store, load)
      BY <2>2, StageEffect
    <3>2. heap'[store].fusible /\ heap'[load].fusible
      <4>1. storeFor(c).fusible = TRUE
        BY DEF storeFor, newOp
      <4> QED
        BY <3>1, <4>1 DEF Stages, SameOp, newOp
    <3> QED
      BY <1>1, <3>1, <3>2 DEF Stages
  <2>3. CASE SkipOperand \/ LeaveConsumer \/ FinishTiling
    BY <1>1, <2>3 DEF SkipOperand, LeaveConsumer, FinishTiling, fn
  <2> QED
    BY <2>1, <2>2, <2>3 DEF Tile
<1> QED
  BY <1>1, <1>2 DEF FusionInv, AbsorbedInv

LEMMA FusionInvStep == IRInv /\ FusionInv /\ [Next]_vars => FusionInv'
<1> SUFFICES ASSUME IRInv, FusionInv, [Next]_vars PROVE FusionInv'
  OBVIOUS
<1>1. CASE UNCHANGED vars
  <2>1. /\ UNCHANGED <<config, stage, cursor, uses, live>>
        /\ heap' = heap /\ ops' = ops
    BY <1>1 DEF vars, fn
  <2> QED
    BY <2>1, SMTT(30) DEF FusionInv, AbsorbedInv, SoleReaders, SharedReaders, VisitedInv, Reads
<1>2. CASE Compiled
  BY <1>1, <1>2 DEF Compiled
<1> QED
  BY <1>1, <1>2, LowerKeepsFusionInv, FuseKeepsFusionInv, PruneKeepsFusionInv,
     TileKeepsFusionInv DEF Next

LEMMA FusionInvariant == Spec => [](IRInv /\ FusionInv)
<1>1. Init => IRInv /\ FusionInv
  BY InitIRInv, InitFusionInv
<1>2. IRInv /\ FusionInv /\ [Next]_vars => IRInv' /\ FusionInv'
  BY IRInvStep, FusionInvStep
<1> QED
  BY <1>1, <1>2, PTL DEF Spec

LEMMA FusionInvImpliesDead == IRInv /\ FusionInv => AbsorbedOpsAreDead
BY FnFacts DEF IRInv, FusionInv, AbsorbedOpsAreDead

\* An op whose value was fused into another is never compiled, although the
\* pass works with the use counts it took before it rewrote anything
\* (FusionPass.cpp:45, and countUses before the sweep).
THEOREM AbsorbedOpsAreDeadHolds == Spec => []AbsorbedOpsAreDead
BY FusionInvariant, FusionInvImpliesDead, PTL

LEMMA FusionInvImpliesComplete == IRInv /\ FusionInv => FusionComplete
<1> SUFFICES ASSUME IRInv, FusionInv, stage = "mark", config.fusion,
                    NEW p \in Ops, NEW i \in 1 .. 2, heap[p].kind \in {"Relu", "Add"},
                    i <= Len(heap[p].operands), useCount(Operand(p, i)) = 1
             PROVE  /\ heap[Operand(p, i)].kind # "MatMul"
                    /\ heap[p].kind = "Relu" => heap[Operand(p, i)].kind # "FusedMatMulAcc"
  BY DEF FusionComplete
<1> DEFINE q == Operand(p, i)
<1>1. FnInv /\ SharedReaders /\ VisitedInv /\ p \in DOMAIN heap
  BY FnFacts DEF IRInv, FusionInv
<1>2. Len(heap[p].operands) \in Nat
  BY <1>1, ArityOf
<1>3. q \in DOMAIN heap /\ Reads(p, i, q)
  <2>1. i \in 1 .. Len(heap[p].operands)
    BY <1>2
  <2> QED
    BY <1>1, <2>1, FnFacts DEF Operand, Reads, ReadsIn
<1> HIDE DEF q
<1>4. \A r, s \in DOMAIN heap, j, k \in 1 .. 3 :
        Reads(r, j, q) /\ Reads(s, k, q) => r = s /\ j = k
  BY <1>1, <1>3, UseCounts DEF q
<1>5. uses[q] = 1
  <2> SUFFICES ASSUME uses[q] # 1 PROVE FALSE
    OBVIOUS
  <2>1. PICK r \in DOMAIN heap, j \in 1 .. 3 : Reads(r, j, q) /\ <<r, j>> # <<p, i>>
    BY <1>1, <1>3, i \in 1 .. 3 DEF SharedReaders
  <2> QED
    BY <1>1, <1>3, <1>4, <2>1, i \in 1 .. 3
<1>6. PICK k \in 1 .. Len(ops) : ops[k] = p
  BY <1>1, FnFacts
<1>7. CASE heap[p].kind = "Relu"
  <2>4. Len(heap[p].operands) = 1
    BY <1>1, <1>7, ArityOf DEF UnaryKinds
  <2>1. i = 1
    BY <2>4
  <2>2. heap[p].operands[1] = q
    BY <2>1 DEF q, Operand
  <2>3. LET r == heap[p].operands[1] IN
          heap[r].kind \in {"MatMul", "FusedMatMulAcc"} => uses[r] # 1
    BY <1>1, <1>6, <1>7 DEF VisitedInv
  <2> QED
    BY <1>5, <2>2, <2>3 DEF q
<1>8. CASE heap[p].kind = "Add"
  <2>1. Len(heap[p].operands) = 2
    BY <1>1, <1>8, ArityOf
  <2>2. \A side \in {1, 2} :
          LET r == heap[p].operands[side] IN
            heap[r].kind # "MatMul" \/ uses[r] # 1 \/ heap[p].operands[3 - side] = r
    BY <1>1, <1>6, <1>8 DEF VisitedInv
  <2>3. heap[p].operands[i] = q /\ i \in {1, 2}
    BY DEF q, Operand
  <2>4. heap[p].operands[3 - i] # q
    <3> SUFFICES ASSUME heap[p].operands[3 - i] = q PROVE FALSE
      OBVIOUS
    <3>1. 3 - i \in 1 .. Len(heap[p].operands) /\ 3 - i \in 1 .. 3 /\ 3 - i # i
      BY <2>1
    <3>2. Reads(p, 3 - i, q)
      BY <1>1, <3>1 DEF Reads, ReadsIn
    <3> QED
      BY <1>1, <1>3, <1>4, <3>1, <3>2, i \in 1 .. 3
  <2>5. heap[q].kind # "MatMul"
    BY <1>5, <2>2, <2>3, <2>4
  <2> QED
    BY <1>8, <2>5 DEF q
<1> QED
  BY <1>7, <1>8

\* When the sweep is over, no sum or relu reads a product that has no other
\* use: one pass from front to back misses no opportunity that its own
\* rewrites create or keep (docs/tensor-ir.md:101-110).
THEOREM FusionCompleteHolds == Spec => []FusionComplete
BY FusionInvariant, FusionInvImpliesComplete, PTL


-----------------------------------------------------------------------------
(* The third layer: shapes.                                                *)

LEMMA InitShapesInv == Init => ShapesInv
BY DEF Init, ShapesInv, ShapesFit

\* The shapes a checked program gives an operation are those it may have.
LEMMA CheckedShapesFit ==
  ASSUME NEW s \in TensorShape, NEW t \in TensorShape, NEW x
  PROVE  /\ \A kind \in LeafKinds \cup {"Print"} : ShapesAllowed(kind, s, x, t)
         /\ \A kind \in UnaryKinds : ShapesAllowed(kind, unaryShape(kind, s), s, x)
         /\ \A kind \in BinaryKinds : \A out \in binaryShapes(kind, s, t) :
              ShapesAllowed(kind, out, s, t)
<1>1. \A kind \in LeafKinds \cup {"Print"} : ShapesAllowed(kind, s, x, t)
  BY DEF ShapesAllowed, LeafKinds, isMatMulFamily
<1>2. \A kind \in UnaryKinds : ShapesAllowed(kind, unaryShape(kind, s), s, x)
  BY DEF ShapesAllowed, UnaryKinds, isMatMulFamily, unaryShape
<1>3. ASSUME NEW kind \in BinaryKinds, NEW out \in binaryShapes(kind, s, t)
      PROVE  ShapesAllowed(kind, out, s, t)
  <2>1. /\ out = [batch |-> resolveBatch(s.batch, t.batch), rows |-> s.rows, cols |-> t.cols]
        /\ isBatchCompatible(s.batch, t.batch)
        /\ IF kind = "MatMul" THEN s.cols = t.rows ELSE s.rows = t.rows /\ s.cols = t.cols
    BY DEF binaryShapes
  <2>2. out.rows = s.rows /\ out.cols = t.cols /\ out.batch = resolveBatch(s.batch, t.batch)
    BY <2>1
  <2>3. Broadcasts(s, out) /\ Broadcasts(t, out)
    BY <2>1, <2>2 DEF Broadcasts, resolveBatch, isBatchCompatible
  <2>4. isMatMulFamily(kind) => kind = "MatMul"
    BY DEF BinaryKinds, isMatMulFamily
  <2> QED
    BY <2>1, <2>2, <2>3, <2>4 DEF ShapesAllowed, BinaryKinds
<1> QED
  BY <1>1, <1>2, <1>3

\* The operands whose shapes matter are there.
LEMMA ShapedArities ==
  ASSUME NEW kind, NEW L, L \in arities(kind)
  PROVE  /\ isMatMulFamily(kind) \/ kind = "Add" => 1 \in 1 .. L /\ 2 \in 1 .. L
         /\ kind = "Relu" => 1 \in 1 .. L
<1>1. isMatMulFamily(kind) => L \in {2, 3}
  BY DEF arities, isMatMulFamily, LeafKinds, BinaryKinds
<1>2. kind = "Add" => L = 2
  BY DEF arities, LeafKinds, BinaryKinds
<1>3. kind = "Relu" => L = 1
  BY DEF arities, LeafKinds, BinaryKinds
<1> QED
  BY <1>1, <1>2, <1>3

\* An op still fits if it and its operands keep their shapes, and it does
\* not come to be of another sort.
LEMMA ShapesCarryOver ==
  ASSUME FnInv, NEW p \in DOMAIN heap, NEW g, OpFits(heap, p),
         g[p].kind = heap[p].kind \/ (isMatMulFamily(g[p].kind) /\ isMatMulFamily(heap[p].kind)),
         g[p].shape = heap[p].shape,
         \A i \in 1 .. Len(heap[p].operands) : ShapeOf(g, p, i) = ShapeOf(heap, p, i)
  PROVE  OpFits(g, p)
<1>1. Len(heap[p].operands) \in arities(heap[p].kind)
  BY FnFacts
<1>2. /\ isMatMulFamily(heap[p].kind) \/ heap[p].kind = "Add" =>
           /\ ShapeOf(g, p, 1) = ShapeOf(heap, p, 1)
           /\ ShapeOf(g, p, 2) = ShapeOf(heap, p, 2)
      /\ heap[p].kind = "Relu" => ShapeOf(g, p, 1) = ShapeOf(heap, p, 1)
  BY <1>1, ShapedArities
<1>3. CASE g[p].kind = heap[p].kind
  BY <1>2, <1>3 DEF OpFits, ShapesAllowed
<1>4. CASE isMatMulFamily(g[p].kind) /\ isMatMulFamily(heap[p].kind)
  BY <1>2, <1>4 DEF OpFits, ShapesAllowed, isMatMulFamily
<1> QED
  BY <1>3, <1>4

LEMMA AddOpKeepsShapes ==
  ASSUME FnInv, ShapesInv, NEW kind \in OpKinds, NEW shape, NEW operands \in Seq(DOMAIN heap),
         Len(operands) \in arities(kind), addOp(kind, shape, operands),
         ShapesAllowed(kind, shape, heap[operands[1]].shape, heap[operands[2]].shape)
  PROVE  ShapesInv'
<1> DEFINE new == Fresh(DOMAIN heap)
           op == newOp(kind, shape, operands, Len(ops))
<1>1. heap' = put(heap, new, op) /\ new \notin DOMAIN heap
  BY FreshIsNew, FnFacts DEF addOp
<1> HIDE DEF new
<1>2. /\ DOMAIN heap' = DOMAIN heap \cup {new}
      /\ \A p \in DOMAIN heap : heap'[p] = heap[p]
      /\ heap'[new].kind = kind /\ heap'[new].shape = shape /\ heap'[new].operands = operands
  BY <1>1 DEF put, newOp
<1>3. \A p \in DOMAIN heap :
        /\ Len(heap[p].operands) \in arities(heap[p].kind) /\ heap[p].kind \in OpKinds
        /\ \A i \in 1 .. Len(heap[p].operands) : heap[p].operands[i] \in DOMAIN heap
  BY FnFacts
<1>5. ASSUME NEW p \in DOMAIN heap
      PROVE  OpFits(heap', p)
  <2>1. OpFits(heap, p)
    BY DEF ShapesInv, ShapesFit
  <2>2. \A i \in 1 .. Len(heap[p].operands) : ShapeOf(heap', p, i) = ShapeOf(heap, p, i)
    BY <1>2, <1>3 DEF ShapeOf
  <2> QED
    BY <1>2, <2>1, <2>2, ShapesCarryOver
<1>6. OpFits(heap', new)
  <2>1. \A i \in 1 .. Len(operands) : ShapeOf(heap', new, i) = heap[operands[i]].shape
    BY <1>2 DEF ShapeOf
  <2>2. /\ isMatMulFamily(kind) \/ kind = "Add" =>
             /\ ShapeOf(heap', new, 1) = heap[operands[1]].shape
             /\ ShapeOf(heap', new, 2) = heap[operands[2]].shape
        /\ kind = "Relu" => ShapeOf(heap', new, 1) = heap[operands[1]].shape
    BY <2>1, ShapedArities
  <2> QED
    BY <1>2, <2>2 DEF OpFits, ShapesAllowed
<1> QED
  BY <1>2, <1>5, <1>6 DEF ShapesInv, ShapesFit


LEMMA LowerKeepsShapes == IRInv /\ ShapesInv /\ Lower => ShapesInv'
<1> SUFFICES ASSUME IRInv, ShapesInv, Lower PROVE ShapesInv'
  OBVIOUS
<1>1. FnInv /\ Results \subseteq DOMAIN heap /\ Prints \subseteq DOMAIN heap
  BY FnFacts DEF IRInv, Results, Prints
<1>2. \A p \in DOMAIN heap : heap[p].shape \in TensorShape
  BY <1>1, FnFacts
<1>3. CASE LowerLeaf
  <2>1. PICK kind \in Kinds \cap LeafKinds, shape \in LoadShapes : addOp(kind, shape, << >>)
    BY <1>3 DEF LowerLeaf
  <2>2. kind \in OpKinds /\ 0 \in arities(kind) /\ shape \in TensorShape
    BY IRAssumption DEF OpKinds, arities, TensorShape
  <2>3. << >> \in Seq(DOMAIN heap) /\ Len(<< >>) = 0
    OBVIOUS
  <2>4. \A x, y : ShapesAllowed(kind, shape, x, y)
    BY DEF ShapesAllowed, LeafKinds, isMatMulFamily
  <2> QED
    BY <1>1, <2>1, <2>2, <2>3, <2>4, AddOpKeepsShapes
<1>4. CASE LowerUnary
  <2>1. PICK kind \in Kinds \cap UnaryKinds, p \in Results :
          addOp(kind, unaryShape(kind, heap[p].shape), <<p>>)
    BY <1>4 DEF LowerUnary
  <2>2. kind \in OpKinds /\ 1 \in arities(kind)
    BY DEF OpKinds, arities, UnaryKinds, LeafKinds, BinaryKinds
  <2>3. <<p>> \in Seq(DOMAIN heap) /\ Len(<<p>>) = 1 /\ <<p>>[1] = p
    BY <1>1
  <2>4. \A x : ShapesAllowed(kind, unaryShape(kind, heap[p].shape), heap[p].shape, x)
    BY <1>1, <1>2, CheckedShapesFit
  <2> QED
    BY <1>1, <2>1, <2>2, <2>3, <2>4, AddOpKeepsShapes
<1>5. CASE LowerBinary
  <2>1. PICK kind \in Kinds \cap BinaryKinds, p \in Results, q \in Results :
          \E shape \in binaryShapes(kind, heap[p].shape, heap[q].shape) :
            addOp(kind, shape, <<p, q>>)
    BY <1>5 DEF LowerBinary
  <2>2. PICK shape \in binaryShapes(kind, heap[p].shape, heap[q].shape) :
          addOp(kind, shape, <<p, q>>)
    BY <2>1
  <2>3. kind \in OpKinds /\ 2 \in arities(kind)
    BY DEF OpKinds, arities, BinaryKinds, LeafKinds
  <2>4. <<p, q>> \in Seq(DOMAIN heap) /\ Len(<<p, q>>) = 2 /\ <<p, q>>[1] = p /\ <<p, q>>[2] = q
    BY <1>1
  <2>5. ShapesAllowed(kind, shape, heap[p].shape, heap[q].shape)
    BY <1>1, <1>2, CheckedShapesFit
  <2> QED
    BY <1>1, <2>2, <2>3, <2>4, <2>5, AddOpKeepsShapes
<1>6. CASE LowerPrint
  <2>1. PICK p \in Results : addOp("Print", heap[p].shape, <<p>>)
    BY <1>6 DEF LowerPrint
  <2>2. "Print" \in OpKinds /\ 1 \in arities("Print")
    BY DEF OpKinds, arities, BinaryKinds, LeafKinds
  <2>3. <<p>> \in Seq(DOMAIN heap) /\ Len(<<p>>) = 1
    BY <1>1
  <2>4. \A x, y : ShapesAllowed("Print", heap[p].shape, x, y)
    BY DEF ShapesAllowed, isMatMulFamily
  <2> QED
    BY <1>1, <2>1, <2>2, <2>3, <2>4, AddOpKeepsShapes
<1>7. CASE FinishLowering
  BY <1>7 DEF FinishLowering, fn, ShapesInv
<1> QED
  BY <1>3, <1>4, <1>5, <1>6, <1>7 DEF Lower

\* The absorbed op has the shape of what it is absorbed into, or that of a
\* term of the sum, so its factors fit there too.
LEMMA FuseKeepsShapes == IRInv /\ ShapesInv /\ Fuse => ShapesInv'
<1> SUFFICES ASSUME IRInv, ShapesInv, Fuse PROVE ShapesInv'
  OBVIOUS
<1>1. CASE KeepOp \/ FinishFusion
  BY <1>1 DEF KeepOp, FinishFusion, fn, ShapesInv
<1>2. CASE FuseRelu \/ FuseAcc
  <2>1. /\ stage = "fuse" /\ cursor <= Len(ops) /\ ops' = ops /\ FnInv
        /\ \A p \in DOMAIN heap : OpFits(heap, p)
    BY <1>2 DEF FuseRelu, FuseAcc, Fusing, IRInv, ShapesInv, ShapesFit
  <2>2. Current \in DOMAIN heap
    BY <1>2, <2>1, FusionShape
  <2>3. PICK producer \in DOMAIN heap :
          \/ /\ ReluAbsorbs /\ producer = Operand(Current, 1)
             /\ FusesTo(Current, "FusedMatMulRelu", producer, heap[producer].operands)
          \/ \E side \in {1, 2} :
               /\ AddAbsorbs(side) /\ producer = Operand(Current, side)
               /\ FusesTo(Current, "FusedMatMulAcc", producer,
                          heap[producer].operands \o <<Operand(Current, 3 - side)>>)
    BY <1>2, <2>1, FusionShape
  <2>4. PICK op \in DOMAIN heap : op = Current
    BY <2>2
  <2>5. /\ Len(heap[producer].operands) \in arities(heap[producer].kind)
        /\ heap[producer].operands \in Seq(Pointer)
        /\ \A p \in DOMAIN heap : \A i \in 1 .. Len(heap[p].operands) :
             heap[p].operands[i] \in DOMAIN heap
    BY <2>1, FnFacts DEF OpRecord
  <2>6. ASSUME NEW kind, NEW operands, FusesTo(op, kind, producer, operands),
               kind \in {"FusedMatMulRelu", "FusedMatMulAcc"},
               isMatMulFamily(heap[producer].kind),
               operands[1] = heap[producer].operands[1],
               operands[2] = heap[producer].operands[2],
               heap[producer].shape.rows = heap[op].shape.rows,
               heap[producer].shape.cols = heap[op].shape.cols,
               Broadcasts(heap[producer].shape, heap[op].shape)
        PROVE  ShapesInv'
    <3>1. /\ DOMAIN heap' = DOMAIN heap /\ \A p \in DOMAIN heap : heap'[p].shape = heap[p].shape
          /\ heap'[op].kind = kind /\ heap'[op].operands = operands
          /\ \A p \in DOMAIN heap : p # op =>
               heap'[p].kind = heap[p].kind /\ heap'[p].operands = heap[p].operands
      BY <2>6 DEF FusesTo
    <3>2. ASSUME NEW p \in DOMAIN heap, p # op PROVE OpFits(heap', p)
      <4>1. \A i \in 1 .. Len(heap[p].operands) : ShapeOf(heap', p, i) = ShapeOf(heap, p, i)
        BY <2>5, <3>1, <3>2 DEF ShapeOf
      <4> QED
        BY <2>1, <3>1, <3>2, <4>1, ShapesCarryOver
    <3>3. OpFits(heap', op)
      <4>1. /\ heap[producer].operands[1] \in DOMAIN heap
            /\ heap[producer].operands[2] \in DOMAIN heap
        BY <2>5, <2>6, ShapedArities
      <4>2. /\ ShapeOf(heap', op, 1) = ShapeOf(heap, producer, 1)
            /\ ShapeOf(heap', op, 2) = ShapeOf(heap, producer, 2)
            /\ heap'[op].shape = heap[op].shape
        BY <2>6, <3>1, <4>1 DEF ShapeOf
      <4>3. ShapesAllowed(heap[producer].kind, heap[producer].shape,
                          ShapeOf(heap, producer, 1), ShapeOf(heap, producer, 2))
        BY <2>1 DEF OpFits
      <4>4. ShapesAllowed(kind, heap[op].shape,
                          ShapeOf(heap, producer, 1), ShapeOf(heap, producer, 2))
        BY <2>6, <4>3 DEF ShapesAllowed, Broadcasts, isMatMulFamily
      <4> QED
        BY <3>1, <4>2, <4>4 DEF OpFits
    <3> QED
      BY <3>1, <3>2, <3>3 DEF ShapesInv, ShapesFit
  <2>7. CASE /\ ReluAbsorbs /\ producer = Operand(Current, 1)
             /\ FusesTo(Current, "FusedMatMulRelu", producer, heap[producer].operands)
    <3>1. heap[op].kind = "Relu" /\ heap[op].operands[1] = producer
      BY <2>4, <2>7 DEF ReluAbsorbs, Operand
    <3>2. heap[producer].shape = heap[op].shape
      BY <2>1, <3>1 DEF OpFits, ShapesAllowed, ShapeOf
    <3>3. isMatMulFamily(heap[producer].kind)
      BY <2>7 DEF ReluAbsorbs, isMatMulFamily
    <3>4. FusesTo(op, "FusedMatMulRelu", producer, heap[producer].operands)
      BY <2>4, <2>7
    <3>5. Broadcasts(heap[producer].shape, heap[op].shape)
      BY <3>2 DEF Broadcasts
    <3> QED
      BY <2>6, <3>2, <3>3, <3>4, <3>5
  <2>8. ASSUME NEW side \in {1, 2}, AddAbsorbs(side), producer = Operand(Current, side),
               FusesTo(Current, "FusedMatMulAcc", producer,
                       heap[producer].operands \o <<Operand(Current, 3 - side)>>)
        PROVE  ShapesInv'
    <3> DEFINE other == heap[op].operands[3 - side]
               operands == heap[producer].operands \o <<other>>
    <3>1. /\ heap[op].kind = "Add" /\ heap[op].operands[side] = producer
          /\ heap[producer].kind = "MatMul" /\ isMatMulFamily(heap[producer].kind)
      BY <2>4, <2>8 DEF AddAbsorbs, Operand, isMatMulFamily
    <3>2. /\ heap[producer].shape.rows = heap[op].shape.rows
          /\ heap[producer].shape.cols = heap[op].shape.cols
          /\ Broadcasts(heap[producer].shape, heap[op].shape)
      BY <2>1, <3>1 DEF OpFits, ShapesAllowed, ShapeOf
    <3>3. Len(heap[op].operands) = 2 /\ Len(heap[producer].operands) = 2
      BY <2>1, <3>1, ArityOf
    <3>4. other \in Pointer
      <4>1. 3 - side \in 1 .. Len(heap[op].operands)
        BY <3>3
      <4> QED
        BY <2>1, <2>5, <4>1, FnFacts
    <3>5. FusesTo(op, "FusedMatMulAcc", producer, operands)
      BY <2>4, <2>8 DEF Operand
    <3> HIDE DEF other
    <3>6. operands[1] = heap[producer].operands[1] /\ operands[2] = heap[producer].operands[2]
      BY <2>5, <3>3, <3>4, FactorsAndBias
    <3> HIDE DEF operands
    <3> QED
      BY <2>6, <3>1, <3>2, <3>5, <3>6
  <2> QED
    BY <2>3, <2>7, <2>8
<1> QED
  BY <1>1, <1>2 DEF Fuse


LEMMA PruneKeepsShapes == IRInv /\ ShapesInv /\ Prune => ShapesInv'
<1> SUFFICES ASSUME IRInv, ShapesInv, Prune PROVE ShapesInv'
  OBVIOUS
<1>1. CASE Mark
  BY <1>1 DEF Mark, fn, ShapesInv
<1>2. CASE Erase
  <2>1. /\ FnInv /\ DOMAIN heap' = live /\ live \subseteq DOMAIN heap
        /\ \A p \in live : SameOp(heap'[p], heap[p])
        /\ \A p \in live : \A i \in 1 .. Len(heap[p].operands) : heap[p].operands[i] \in live
    BY <1>2, EraseEffect DEF IRInv
  <2> SUFFICES ASSUME NEW p \in live PROVE OpFits(heap', p)
    BY <2>1 DEF ShapesInv, ShapesFit
  <2>2. OpFits(heap, p) /\ p \in DOMAIN heap
    BY <2>1 DEF ShapesInv, ShapesFit
  <2>3. heap'[p].kind = heap[p].kind /\ heap'[p].shape = heap[p].shape
    BY <2>1 DEF SameOp
  <2>4. \A i \in 1 .. Len(heap[p].operands) : ShapeOf(heap', p, i) = ShapeOf(heap, p, i)
    BY <2>1 DEF SameOp, ShapeOf
  <2> QED
    BY <2>1, <2>2, <2>3, <2>4, ShapesCarryOver
<1> QED
  BY <1>1, <1>2 DEF Prune

\* What is loaded has the shape of what was stored, which is the operand's.
LEMMA StageKeepsShapeOf ==
  ASSUME FnInv, owner \in DOMAIN heap, NEW c, NEW n, NEW store, NEW load,
         Stages(c, n, store, load)
  PROVE  \A p \in DOMAIN heap : \A i \in 1 .. Len(heap[p].operands) :
           ShapeOf(heap', p, i) = ShapeOf(heap, p, i)
<1>1. \A p \in DOMAIN heap :
        /\ heap[p].operands \in Seq(DOMAIN heap)
        /\ \A i \in 1 .. Len(heap[p].operands) : heap[p].operands[i] \in DOMAIN heap
  BY FnFacts
<1> DEFINE from == Operand(owner, c.operandIndex)
<1>2. from \in DOMAIN heap /\ from = heap[owner].operands[c.operandIndex]
  BY <1>1 DEF Stages, Operand
<1>3. heap'[load].shape = heap[from].shape
  BY DEF Stages, SameOp, storeFor, newOp
<1> HIDE DEF from
<1>4. \A p \in DOMAIN heap :
        /\ heap'[p].shape = heap[p].shape
        /\ heap'[p].operands = IF p = owner
                               THEN [heap[p].operands EXCEPT ![c.operandIndex] = load]
                               ELSE heap[p].operands
  BY DEF Stages
<1>5. ASSUME NEW p \in DOMAIN heap
      PROVE  \A i \in 1 .. Len(heap[p].operands) :
               \/ heap'[p].operands[i] = heap[p].operands[i]
               \/ heap'[p].operands[i] = load /\ heap[p].operands[i] = from
  <2>1. CASE p = owner
    <3> DEFINE was == heap[owner].operands
               now == heap'[owner].operands
               at == c.operandIndex
    <3>1. now = [was EXCEPT ![at] = load] /\ was \in Seq(DOMAIN heap) /\ was[at] = from
      BY <1>1, <1>2, <1>4, <2>1
    <3> HIDE DEF was, now, at
    <3>2. \A i \in 1 .. Len(was) : now[i] = was[i] \/ (now[i] = load /\ was[i] = from)
      BY <3>1
    <3> QED
      BY <2>1, <3>2 DEF was, now
  <2>2. CASE p # owner
    BY <1>4, <2>2
  <2> QED
    BY <2>1, <2>2
<1> QED
  BY <1>1, <1>3, <1>4, <1>5 DEF ShapeOf

LEMMA TileKeepsShapes == IRInv /\ ShapesInv /\ Tile => ShapesInv'
<1> SUFFICES ASSUME IRInv, ShapesInv, Tile PROVE ShapesInv'
  OBVIOUS
<1>1. /\ FnInv /\ \A p \in DOMAIN heap : OpFits(heap, p)
      /\ \A p \in DOMAIN heap : \A i \in 1 .. Len(heap[p].operands) :
           heap[p].operands[i] \in DOMAIN heap
  BY FnFacts DEF IRInv, ShapesInv, ShapesFit
<1>2. CASE VisitConsumer
  <2>1. /\ DOMAIN heap' = DOMAIN heap
        /\ \A p \in DOMAIN heap :
             /\ heap'[p].shape = heap[p].shape /\ heap'[p].operands = heap[p].operands
             /\ \/ heap'[p].kind = heap[p].kind
                \/ heap[p].kind = "MatMul" /\ heap'[p].kind = "TiledMatMul"
    BY <1>2, VisitEffect
  <2> SUFFICES ASSUME NEW p \in DOMAIN heap PROVE OpFits(heap', p)
    BY <2>1 DEF ShapesInv, ShapesFit
  <2>2. \A i \in 1 .. Len(heap[p].operands) : ShapeOf(heap', p, i) = ShapeOf(heap, p, i)
    BY <1>1, <2>1 DEF ShapeOf
  <2>3. \/ heap'[p].kind = heap[p].kind
        \/ isMatMulFamily(heap'[p].kind) /\ isMatMulFamily(heap[p].kind)
    BY <2>1 DEF isMatMulFamily
  <2> QED
    BY <1>1, <2>1, <2>2, <2>3, ShapesCarryOver
<1>3. CASE StageOperand
  <2>1. PICK c \in cands, n \in 1 .. Len(ops), store, load \in Pointer : Stages(c, n, store, load)
    BY <1>3, StageEffect
  <2>2. owner \in DOMAIN heap
    BY <1>3 DEF StageOperand, IRInv, ConsumersInv
  <2>3. \A p \in DOMAIN heap : \A i \in 1 .. Len(heap[p].operands) :
          ShapeOf(heap', p, i) = ShapeOf(heap, p, i)
    BY <1>1, <2>1, <2>2, StageKeepsShapeOf
  <2>4. heap'[store].kind = "ScratchStore" /\ heap'[load].kind = "ScratchLoad"
    BY <2>1 DEF Stages, SameOp, storeFor, newOp
  <2>5. /\ DOMAIN heap' = DOMAIN heap \cup {store, load}
        /\ \A p \in DOMAIN heap : heap'[p].kind = heap[p].kind /\ heap'[p].shape = heap[p].shape
    BY <2>1 DEF Stages
  <2>6. \A p \in DOMAIN heap : OpFits(heap', p)
    BY <1>1, <2>3, <2>5, ShapesCarryOver
  <2>7. OpFits(heap', store) /\ OpFits(heap', load)
    BY <2>4 DEF OpFits, ShapesAllowed, isMatMulFamily
  <2> QED
    BY <2>5, <2>6, <2>7 DEF ShapesInv, ShapesFit
<1>4. CASE SkipOperand \/ LeaveConsumer \/ FinishTiling
  BY <1>4 DEF SkipOperand, LeaveConsumer, FinishTiling, fn, ShapesInv
<1> QED
  BY <1>2, <1>3, <1>4 DEF Tile

LEMMA ShapesInvStep == IRInv /\ ShapesInv /\ [Next]_vars => ShapesInv'
<1>1. ShapesInv /\ UNCHANGED vars => ShapesInv'
  BY DEF vars, fn, ShapesInv
<1>2. ShapesInv /\ Compiled => ShapesInv'
  BY <1>1 DEF Compiled
<1> QED
  BY <1>1, <1>2, LowerKeepsShapes, FuseKeepsShapes, PruneKeepsShapes, TileKeepsShapes DEF Next


-----------------------------------------------------------------------------
(* The fourth layer: tiling.                                               *)

LEMMA OperandsAreOps ==
  ASSUME NEW h, NEW list, IsFunction(list, h)
  PROVE  /\ \A p \in DOMAIN h : \A i \in 1 .. Len(h[p].operands) : h[p].operands[i] \in DOMAIN h
         /\ DOMAIN h \subseteq Pointer
<1>1. /\ DOMAIN h \subseteq Pointer /\ Len(list) \in Nat
      /\ \A k \in 1 .. Len(list) : list[k] \in DOMAIN h
  BY DEF IsFunction, IsHeap, Lists
<1>2. ASSUME NEW p \in DOMAIN h, NEW i \in 1 .. Len(h[p].operands)
      PROVE  h[p].operands[i] \in DOMAIN h
  <2>1. PICK k \in 1 .. Len(list) : list[k] = p
    BY DEF IsFunction, Lists
  <2>2. i \in 1 .. Len(h[list[k]].operands)
    BY <2>1
  <2>3. PICK j \in 1 .. k - 1 : list[j] = h[list[k]].operands[i]
    BY <2>2 DEF IsFunction, Ordered
  <2> QED
    BY <1>1, <2>1, <2>3
<1> QED
  BY <1>1, <1>2

\* Before tiling there is nothing to say.
LEMMA NothingStaged ==
  ASSUME FnInv', \A p \in DOMAIN heap' : ~IsStaging(heap'[p].kind),
         owner' = Nobody, cands' = {}, staged' = << >>,
         \A j, k \in 1 .. Len(consumers') : consumers'[j] = consumers'[k] => j = k,
         \A k \in 1 .. Len(consumers') : consumers'[k] # Nobody
  PROVE  TilingInv'
<1>1. \A p \in DOMAIN heap' : \A i \in 1 .. Len(heap'[p].operands) :
        heap'[p].operands[i] \in DOMAIN heap'
  <2>1. IsFunction(ops', heap')
    BY DEF FnInv
  <2> QED
    BY <2>1, OperandsAreOps
<1>2. LoadsInv'
  BY <1>1 DEF LoadsInv, Loads, IsStaging
<1>3. Len(staged') = 0 /\ staged' \in StagedOperands
  BY DEF StagedOperands
<1> QED
  BY <1>2, <1>3 DEF TilingInv

\* The loop nest of a product reads tile by tile what its operands hold.
LEMMA ReadsProduct ==
  ASSUME NEW B \in Nat, NEW b \in {1, B}, NEW R \in Nat, NEW C \in Nat, NEW D \in Nat
  PROVE  (b * R * D) * (C * (IF b = 1 THEN B ELSE 1)) = B * R * C * D
<1>1. CASE b = 1
  <2>1. (R * D) * (C * B) = B * R * C * D
    OBVIOUS
  <2> QED
    BY <1>1, <2>1
<1>2. CASE b # 1
  <2>1. (B * R * D) * C = B * R * C * D
    OBVIOUS
  <2> QED
    BY <1>2, <2>1
<1> QED
  BY <1>1, <1>2

LEMMA CandidateCounts ==
  ASSUME FnInv, ShapesInv, NEW p \in DOMAIN heap, isMatMulFamily(heap[p].kind), NEW i \in {1, 2}
  PROVE  Counts(heap, p, candidate(p, i))
<1> DEFINE out == heap[p].shape
           a == ShapeOf(heap, p, 1)
           b == ShapeOf(heap, p, 2)
<1>1. /\ a.rows = out.rows /\ b.cols = out.cols /\ a.cols = b.rows
      /\ a.batch \in {1, out.batch} /\ b.batch \in {1, out.batch}
  BY DEF ShapesInv, ShapesFit, OpFits, ShapesAllowed, Broadcasts
<1>2. out \in TensorShape /\ a \in TensorShape /\ b \in TensorShape
  <2>1. Len(heap[p].operands) \in {2, 3}
    BY ArityOf
  <2>2. 1 \in 1 .. Len(heap[p].operands) /\ 2 \in 1 .. Len(heap[p].operands)
    BY <2>1
  <2>3. heap[p].operands[1] \in DOMAIN heap /\ heap[p].operands[2] \in DOMAIN heap
    BY <2>2, FnFacts
  <2> QED
    BY <2>3, FnFacts DEF ShapeOf
<1> DEFINE B == out.batch
           R == tilesOf(out.rows)
           C == tilesOf(out.cols)
           D == tilesOf(a.cols)
<1>3. B \in Nat /\ R \in Nat /\ C \in Nat /\ D \in Nat /\ a.batch \in Nat /\ b.batch \in Nat
  <2> HIDE DEF out, a, b
  <2> QED
    BY <1>2, ShapeTypes
<1>4. Iterations(heap, p) = B * R * C * D
  BY DEF Iterations
<1>5. CASE i = 1
  <2>1. /\ candidate(p, i).tiles = a.batch * R * D
        /\ candidate(p, i).uses = C * (IF a.batch = 1 THEN B ELSE 1)
    BY <1>5 DEF candidate, operandTiles, usesPerTile, ShapeOf, Operand
  <2>2. tiles(ShapeOf(heap, p, candidate(p, i).operandIndex)) = a.batch * R * D
    BY <1>1, <1>5 DEF candidate, tiles, ShapeOf
  <2>3. candidate(p, i).tiles * candidate(p, i).uses = B * R * C * D
    <3> HIDE DEF B, R, C, D, a
    <3> QED
      BY <1>1, <1>3, <2>1, ReadsProduct DEF B
  <2> QED
    BY <1>4, <2>1, <2>2, <2>3 DEF Counts
<1>6. CASE i = 2
  <2>1. /\ candidate(p, i).tiles = b.batch * C * D
        /\ candidate(p, i).uses = R * (IF b.batch = 1 THEN B ELSE 1)
    BY <1>6 DEF candidate, operandTiles, usesPerTile, ShapeOf, Operand
  <2>2. tiles(ShapeOf(heap, p, candidate(p, i).operandIndex)) = b.batch * D * C
    BY <1>1, <1>6 DEF candidate, tiles, ShapeOf
  <2>3. candidate(p, i).tiles * candidate(p, i).uses = B * C * R * D
    <3> HIDE DEF B, R, C, D, b
    <3> QED
      BY <1>1, <1>3, <2>1, ReadsProduct DEF B
  <2>4. b.batch * C * D = b.batch * D * C /\ B * C * R * D = B * R * C * D
    <3> DEFINE bb == b.batch
    <3>1. bb \in Nat /\ B \in Nat /\ R \in Nat /\ C \in Nat /\ D \in Nat
      BY <1>3
    <3> HIDE DEF B, R, C, D, bb
    <3>2. bb * C * D = bb * D * C /\ B * C * R * D = B * R * C * D
      BY <3>1
    <3> QED
      BY <3>2 DEF bb
  <2> QED
    BY <1>4, <2>1, <2>2, <2>3, <2>4 DEF Counts
<1> QED
  BY <1>5, <1>6


LEMMA InitTilingInv == Init => TilingInv
<1> SUFFICES ASSUME Init PROVE TilingInv
  OBVIOUS
<1>1. /\ DOMAIN heap = {} /\ Len(consumers) = 0 /\ Len(staged) = 0
      /\ staged \in StagedOperands
  BY DEF Init, StagedOperands
<1> QED
  BY <1>1 DEF Init, TilingInv, LoadsInv

\* The passes before tiling make no staging op.
LEMMA LowerKeepsTilingInv == IRInv /\ TilingInv /\ Lower => TilingInv'
<1> SUFFICES ASSUME IRInv, TilingInv, Lower PROVE TilingInv'
  OBVIOUS
<1>1. FnInv' /\ stage = "lower" /\ UNCHANGED tilingVars
  BY LowerKeepsIRInv DEF Lower, LowerLeaf, LowerUnary, LowerBinary, LowerPrint, FinishLowering,
         Lowering, IRInv
<1>2. \A p \in DOMAIN heap : ~IsStaging(heap[p].kind)
  BY <1>1 DEF TilingInv
<1>3. ASSUME NEW kind, NEW shape, NEW operands, addOp(kind, shape, operands), ~IsStaging(kind)
      PROVE  \A p \in DOMAIN heap' : ~IsStaging(heap'[p].kind)
  BY <1>2, <1>3 DEF addOp, put, newOp
<1>4. \A p \in DOMAIN heap' : ~IsStaging(heap'[p].kind)
  <2>1. \A kind \in LeafKinds \cup UnaryKinds \cup BinaryKinds \cup {"Print"} : ~IsStaging(kind)
    BY DEF LeafKinds, UnaryKinds, BinaryKinds, IsStaging
  <2>2. CASE LowerLeaf \/ LowerUnary \/ LowerBinary \/ LowerPrint
    BY <1>3, <2>1, <2>2 DEF LowerLeaf, LowerUnary, LowerBinary, LowerPrint
  <2>3. CASE FinishLowering
    BY <1>2, <2>3 DEF FinishLowering, fn
  <2> QED
    BY <2>2, <2>3 DEF Lower
<1>5. /\ consumers' = << >> /\ owner' = Nobody /\ cands' = {} /\ staged' = << >>
      /\ Len(consumers') = 0
  BY <1>1 DEF IRInv, tilingVars
<1> QED
  BY <1>1, <1>4, <1>5, NothingStaged

LEMMA FuseKeepsTilingInv == IRInv /\ FusionInv /\ TilingInv /\ Fuse => TilingInv'
<1> SUFFICES ASSUME IRInv, FusionInv, TilingInv, Fuse PROVE TilingInv'
  OBVIOUS
<1>1. FnInv' /\ stage = "fuse" /\ UNCHANGED tilingVars
  BY FuseKeepsIRInv DEF Fuse, FuseRelu, FuseAcc, KeepOp, FinishFusion, Fusing, IRInv
<1>2. \A p \in DOMAIN heap : ~IsStaging(heap[p].kind)
  BY <1>1 DEF TilingInv
<1>3. \A p \in DOMAIN heap' : ~IsStaging(heap'[p].kind)
  <2>1. CASE FuseRelu \/ FuseAcc
    <3>1. cursor <= Len(ops) /\ ops' = ops
      BY <2>1 DEF FuseRelu, FuseAcc, Fusing
    <3>2. PICK op, producer \in DOMAIN heap : TakesOver(op, producer)
      BY <1>1, <2>1, <3>1, FusionTakesOver
    <3>3. /\ DOMAIN heap' = DOMAIN heap /\ heap'[op].kind \in FusedKinds
          /\ \A p \in DOMAIN heap : p # op => heap'[p].kind = heap[p].kind
      BY <3>2 DEF TakesOver
    <3> QED
      BY <1>2, <3>3 DEF FusedKinds, IsStaging
  <2>2. CASE KeepOp \/ FinishFusion
    BY <1>2, <2>2 DEF KeepOp, FinishFusion, fn
  <2> QED
    BY <2>1, <2>2 DEF Fuse
<1>5. /\ consumers' = << >> /\ owner' = Nobody /\ cands' = {} /\ staged' = << >>
      /\ Len(consumers') = 0
  BY <1>1 DEF IRInv, tilingVars
<1> QED
  BY <1>1, <1>3, <1>5, NothingStaged

\* The consumers to visit are ops of the list, each once.
LEMMA PruneKeepsTilingInv == IRInv /\ TilingInv /\ Prune => TilingInv'
<1> SUFFICES ASSUME IRInv, TilingInv, Prune PROVE TilingInv'
  OBVIOUS
<1>1. FnInv /\ FnInv' /\ stage = "mark"
  BY MarkKeepsIRInv, EraseKeepsIRInv DEF Prune, Mark, Erase, IRInv
<1>2. \A p \in DOMAIN heap : ~IsStaging(heap[p].kind)
  BY <1>1 DEF TilingInv
<1>3. owner = Nobody /\ cands = {} /\ staged = << >> /\ consumers = << >> /\ Len(consumers) = 0
  BY <1>1 DEF IRInv
<1>4. CASE Mark
  <2>1. heap' = heap /\ UNCHANGED tilingVars
    BY <1>4 DEF Mark, fn
  <2> QED
    BY <1>1, <1>2, <1>3, <2>1, NothingStaged DEF tilingVars
<1>5. CASE Erase
  <2>1. \A p \in DOMAIN heap' : ~IsStaging(heap'[p].kind)
    BY <1>2, <1>5, EraseEffect DEF SameOp
  <2>2. owner' = Nobody /\ cands' = {} /\ staged' = << >>
    BY <1>3, <1>5 DEF Erase
  <2> DEFINE family == {p \in live : isMatMulFamily(heap[p].kind)}
  <2>3. /\ \A j, k \in 1 .. Len(consumers') : consumers'[j] = consumers'[k] => j = k
        /\ \A k \in 1 .. Len(consumers') : consumers'[k] # Nobody
    <3>1. CASE consumers' = << >>
      BY <3>1
    <3>2. CASE consumers' = keep(ops, family)
      <4> DEFINE kept == keep(ops, family)
      <4> HIDE DEF family
      <4>1. ops \in Seq(DOMAIN heap)
        BY <1>1 DEF FnInv, IsFunction, Lists
      <4>2. kept \in Seq(DOMAIN heap \cap family) /\ Selects(kept, ops, family)
        BY <4>1, KeepProperties
      <4> HIDE DEF kept
      <4>3. PICK f \in [1 .. Len(kept) -> 1 .. Len(ops)] :
              /\ \A n \in 1 .. Len(kept) : kept[n] = ops[f[n]]
              /\ \A m, n \in 1 .. Len(kept) : m < n => f[m] < f[n]
        BY <4>2 DEF Selects
      <4>4. ASSUME NEW j \in 1 .. Len(kept), NEW k \in 1 .. Len(kept), kept[j] = kept[k]
            PROVE  j = k
        <5>4. f[j] \in 1 .. Len(ops) /\ f[k] \in 1 .. Len(ops) /\ ops[f[j]] = ops[f[k]]
          BY <4>3, <4>4
        <5>1. f[j] = f[k]
          BY <1>1, <5>4, FnFacts
        <5>2. f[j] \in Int /\ Len(kept) \in Nat
          BY <4>2, <5>4
        <5>3. ~(j < k) /\ ~(k < j)
          BY <4>3, <5>1, <5>2
        <5> QED
          BY <5>2, <5>3
      <4>5. \A k \in 1 .. Len(kept) : kept[k] \in DOMAIN heap
        BY <4>2
      <4>6. \A k \in 1 .. Len(kept) : kept[k] # Nobody
        BY <1>1, <4>5, FnFacts DEF Pointer, Nobody
      <4> QED
        BY <3>2, <4>4, <4>6 DEF kept
    <3> QED
      BY <1>3, <1>5, <3>1, <3>2 DEF Erase
  <2> QED
    BY <1>1, <2>1, <2>2, <2>3, NothingStaged
<1> QED
  BY <1>4, <1>5 DEF Prune


\* What was counted stays right while shapes do not change.
LEMMA CountsKept ==
  ASSUME NEW h, NEW g, NEW p, NEW c, Counts(h, p, c), g[p].shape = h[p].shape,
         ShapeOf(g, p, 1) = ShapeOf(h, p, 1),
         ShapeOf(g, p, c.operandIndex) = ShapeOf(h, p, c.operandIndex)
  PROVE  Counts(g, p, c)
BY DEF Counts, Iterations

LEMMA VisitKeepsTilingInv == IRInv /\ ShapesInv /\ TilingInv /\ VisitConsumer => TilingInv'
<1> SUFFICES ASSUME IRInv, ShapesInv, TilingInv, VisitConsumer PROVE TilingInv'
  OBVIOUS
<1>1. /\ FnInv /\ ConsumersInv /\ stage = "tile" /\ stage' = "tile" /\ staged' = staged
      /\ consumers' = Tail(consumers) /\ used' = 0
      /\ cands' \subseteq {candidate(owner', i) : i \in {1, 2}}
  BY DEF VisitConsumer, Tiling, IRInv
<1>2. /\ consumers # << >> /\ owner' = Head(consumers) /\ owner' \in DOMAIN heap
      /\ isMatMulFamily(heap[owner'].kind) /\ ops' = ops /\ DOMAIN heap' = DOMAIN heap
      /\ \A p \in DOMAIN heap :
           /\ heap'[p].shape = heap[p].shape /\ heap'[p].operands = heap[p].operands
           /\ heap'[p].scratchOffset = heap[p].scratchOffset
           /\ \/ heap'[p].kind = heap[p].kind
              \/ heap[p].kind = "MatMul" /\ heap'[p].kind = "TiledMatMul"
  BY VisitEffect
<1>3. \A p \in DOMAIN heap :
        /\ IsStaging(heap'[p].kind) <=> IsStaging(heap[p].kind)
        /\ heap'[p].kind = "ScratchStore" <=> heap[p].kind = "ScratchStore"
        /\ heap'[p].kind = "ScratchLoad" <=> heap[p].kind = "ScratchLoad"
        /\ isMatMulFamily(heap'[p].kind) <=> isMatMulFamily(heap[p].kind)
        /\ RegionIn(heap', p) = RegionIn(heap, p)
  BY <1>2 DEF IsStaging, isMatMulFamily, RegionIn
<1>4. /\ \A k \in 1 .. Len(ops) : ops[k] \in DOMAIN heap
      /\ \A p \in DOMAIN heap : \A i \in 1 .. Len(heap[p].operands) :
           heap[p].operands[i] \in DOMAIN heap
      /\ Len(ops) \in Nat
  BY <1>1, FnFacts
<1>5. /\ Len(consumers) \in Nat /\ Len(consumers) # 0 /\ owner' = consumers[1]
      /\ Len(consumers') = Len(consumers) - 1
      /\ \A k \in 1 .. Len(consumers') : consumers'[k] = consumers[k + 1]
  BY <1>1, <1>2 DEF ConsumersInv
<1>6. \A j, k \in 1 .. Len(consumers) : consumers[j] = consumers[k] => j = k
  BY DEF TilingInv
<1>7. \A k \in 1 .. Len(consumers') :
        k + 1 \in 1 .. Len(consumers) /\ consumers'[k] = consumers[k + 1] /\ consumers'[k] # owner'
  <2> SUFFICES ASSUME NEW k \in 1 .. Len(consumers')
               PROVE  /\ k + 1 \in 1 .. Len(consumers)
                      /\ consumers'[k] = consumers[k + 1] /\ consumers'[k] # owner'
    OBVIOUS
  <2>1. k + 1 \in 1 .. Len(consumers) /\ 1 \in 1 .. Len(consumers) /\ k + 1 # 1
    BY <1>5
  <2> QED
    BY <1>5, <1>6, <2>1
<1>8. \A p \in DOMAIN heap, i \in {1, 2} : i \in 1 .. Len(heap[p].operands) =>
        ShapeOf(heap', p, i) = ShapeOf(heap, p, i)
  BY <1>2, <1>4 DEF ShapeOf
<1>9. ASSUME NEW store \in DOMAIN heap, NEW p \in DOMAIN heap, StoreReaches(ops, heap, store, p)
      PROVE  StoreReaches(ops, heap', store, p)
  <2>1. PICK j \in 1 .. Len(ops), k \in 1 .. Len(ops) :
          /\ j < k /\ ops[j] = store /\ ops[k] = p
          /\ \A m \in j + 1 .. k - 1 :
               /\ IsStaging(heap[ops[m]].kind)
               /\ heap[ops[m]].kind = "ScratchStore" =>
                    RegionIn(heap, ops[m]) \cap RegionIn(heap, store) = {}
    BY <1>9 DEF StoreReaches
  <2>2. \A m \in j + 1 .. k - 1 : ops[m] \in DOMAIN heap
    BY <1>4, <2>1
  <2>3. \A m \in j + 1 .. k - 1 :
          /\ IsStaging(heap'[ops[m]].kind)
          /\ heap'[ops[m]].kind = "ScratchStore" =>
               RegionIn(heap', ops[m]) \cap RegionIn(heap', store) = {}
    BY <1>3, <2>1, <2>2
  <2> QED
    BY <2>1, <2>3 DEF StoreReaches
<1>10. LoadsInv'
  <2> SUFFICES ASSUME NEW p \in DOMAIN heap, NEW i \in 1 .. Len(heap[p].operands),
                      Loads(heap', p, i)
               PROVE  /\ LoadReaches(ops, heap', p, i)
                      /\ \A k \in 1 .. Len(consumers') : consumers'[k] # p
                      /\ p # owner'
    BY <1>2 DEF LoadsInv
  <2>1. heap[p].operands[i] \in DOMAIN heap /\ Loads(heap, p, i)
    BY <1>2, <1>3, <1>4 DEF Loads
  <2>2. LoadReaches(ops, heap, p, i) /\ \A k \in 1 .. Len(consumers) : consumers[k] # p
    BY <2>1 DEF TilingInv, LoadsInv
  <2>3. StoreOf(heap', p, i) = StoreOf(heap, p, i)
    BY <1>2, <2>1 DEF StoreOf
  <2>4. LoadReaches(ops, heap', p, i)
    <3> DEFINE store == StoreOf(heap, p, i)
    <3>1. /\ isMatMulFamily(heap[p].kind) /\ store \in DOMAIN heap
          /\ RegionIn(heap, store) \subseteq 0 .. ScratchpadTiles - 1
          /\ StoreReaches(ops, heap, store, p)
      BY <2>2 DEF LoadReaches
    <3> HIDE DEF store
    <3>2. /\ isMatMulFamily(heap'[p].kind) /\ RegionIn(heap', store) = RegionIn(heap, store)
          /\ StoreReaches(ops, heap', store, p)
      BY <1>3, <1>9, <3>1
    <3> QED
      BY <1>2, <2>3, <3>1, <3>2 DEF LoadReaches, store
  <2>5. p # owner'
    BY <1>5, <2>2
  <2> QED
    BY <1>7, <2>2, <2>4, <2>5
<1>11. \A j, k \in 1 .. Len(consumers') : consumers'[j] = consumers'[k] => j = k
  <2> SUFFICES ASSUME NEW j \in 1 .. Len(consumers'), NEW k \in 1 .. Len(consumers'),
                      consumers'[j] = consumers'[k]
               PROVE  j = k
    OBVIOUS
  <2>1. j + 1 = k + 1
    BY <1>6, <1>7
  <2> QED
    BY <1>5, <2>1
<1>12. \A c, d \in cands' : c.operandIndex = d.operandIndex => c = d
  BY <1>1 DEF candidate
<1>13. ASSUME NEW p \in DOMAIN heap, isMatMulFamily(heap[p].kind)
       PROVE  1 \in 1 .. Len(heap[p].operands) /\ 2 \in 1 .. Len(heap[p].operands)
  <2>1. Len(heap[p].operands) \in {2, 3}
    BY <1>1, <1>13, ArityOf
  <2> QED
    BY <2>1, SMTT(30)
<1>14. \A c \in cands' : Counts(heap', owner', c)
  <2> SUFFICES ASSUME NEW i \in {1, 2}
               PROVE  Counts(heap', owner', candidate(owner', i))
    BY <1>1
  <2>1. Counts(heap, owner', candidate(owner', i)) /\ candidate(owner', i).operandIndex = i
    BY <1>1, <1>2, CandidateCounts DEF candidate
  <2> QED
    BY <1>2, <1>8, <1>13, <2>1, CountsKept
<1>15. \A k \in 1 .. Len(staged) : Staged(heap', staged[k])
  <2> SUFFICES ASSUME NEW k \in 1 .. Len(staged) PROVE Staged(heap', staged[k])
    OBVIOUS
  <2> DEFINE d == staged[k]
  <2>1. Staged(heap, d)
    BY DEF TilingInv
  <2> HIDE DEF d
  <2>2. /\ d.owner \in DOMAIN heap /\ d.of \in Candidate /\ isMatMulFamily(heap[d.owner].kind)
        /\ Loads(heap, d.owner, d.of.operandIndex) /\ Counts(heap, d.owner, d.of)
    BY <2>1 DEF Staged
  <2>3. d.of.operandIndex \in {1, 2} /\ d.of.operandIndex \in 1 .. Len(heap[d.owner].operands)
    BY <1>13, <2>2 DEF Candidate
  <2>4. Loads(heap', d.owner, d.of.operandIndex)
    BY <1>2, <1>3, <1>4, <2>2, <2>3, SMTT(30) DEF Loads
  <2>5. Counts(heap', d.owner, d.of)
    BY <1>2, <1>8, <1>13, <2>2, <2>3, CountsKept
  <2> QED
    BY <1>2, <1>3, <2>2, <2>4, <2>5 DEF Staged, d
<1> QED
  BY <1>1, <1>7, <1>10, <1>11, <1>12, <1>14, <1>15 DEF TilingInv


\* An insertion leaves two ops as they are to each other, unless it is
\* between them; there, only before the op for which is staged.
SameStaging(h, g, p) ==
  /\ IsStaging(g[p].kind) <=> IsStaging(h[p].kind)
  /\ g[p].kind = "ScratchStore" <=> h[p].kind = "ScratchStore"
  /\ RegionIn(g, p) = RegionIn(h, p)

Inserts(h, list, n, a, b, g, more) ==
  /\ Len(list) \in Nat /\ n \in 1 .. Len(list) /\ IsInsertion(more, list, n, a, b)
  /\ \A j, k \in 1 .. Len(list) : list[j] = list[k] => j = k
  /\ \A k \in 1 .. Len(list) : SameStaging(h, g, list[k])
  /\ ~IsStaging(h[list[n]].kind)
  /\ g[a].kind = "ScratchStore" /\ g[b].kind = "ScratchLoad"

LEMMA InsertKeepsReach ==
  ASSUME NEW h, NEW list, NEW n, NEW a, NEW b, NEW g, NEW more, NEW store, NEW p,
         Inserts(h, list, n, a, b, g, more), StoreReaches(list, h, store, p),
         p = list[n] => RegionIn(g, a) \cap RegionIn(h, store) = {}
  PROVE  StoreReaches(more, g, store, p)
<1>1. /\ Len(list) \in Nat /\ n \in 1 .. Len(list) /\ Len(more) = Len(list) + 2
      /\ \A k \in 1 .. n - 1 : more[k] = list[k]
      /\ more[n] = a /\ more[n + 1] = b
      /\ \A k \in n .. Len(list) : more[k + 2] = list[k]
      /\ \A j, k \in 1 .. Len(list) : list[j] = list[k] => j = k
      /\ \A k \in 1 .. Len(list) : SameStaging(h, g, list[k])
      /\ ~IsStaging(h[list[n]].kind)
      /\ g[a].kind = "ScratchStore" /\ g[b].kind = "ScratchLoad"
  BY DEF Inserts, IsInsertion
<1>2. PICK j \in 1 .. Len(list), k \in 1 .. Len(list) :
        /\ j < k /\ list[j] = store /\ list[k] = p
        /\ \A m \in j + 1 .. k - 1 :
             /\ IsStaging(h[list[m]].kind)
             /\ h[list[m]].kind = "ScratchStore" =>
                  RegionIn(h, list[m]) \cap RegionIn(h, store) = {}
  BY DEF StoreReaches
<1>3. n \in Nat /\ j \in Nat /\ k \in Nat
  BY <1>1
<1>4. RegionIn(g, store) = RegionIn(h, store)
  BY <1>1, <1>2 DEF SameStaging
<1> DEFINE Between(x) == /\ IsStaging(g[x].kind)
                         /\ g[x].kind = "ScratchStore" =>
                              RegionIn(g, x) \cap RegionIn(g, store) = {}
<1>5. \A m \in j + 1 .. k - 1 : m \in 1 .. Len(list) /\ Between(list[m])
  <2> SUFFICES ASSUME NEW m \in j + 1 .. k - 1
               PROVE  m \in 1 .. Len(list) /\ Between(list[m])
    OBVIOUS
  <2>1. m \in 1 .. Len(list)
    BY <1>1, <1>2
  <2>2. SameStaging(h, g, list[m])
    BY <1>1, <2>1
  <2> QED
    BY <1>2, <1>4, <2>1, <2>2 DEF SameStaging
<1>6. ~(n \in j + 1 .. k - 1)
  BY <1>1, <1>2
<1>7. Between(b)
  BY <1>1 DEF IsStaging
<1>8. k = n => Between(a)
  <2> SUFFICES ASSUME k = n PROVE Between(a)
    OBVIOUS
  <2>1. p = list[n]
    BY <1>2
  <2> QED
    BY <1>1, <1>4, <2>1 DEF IsStaging
<1> HIDE DEF Between
<1>9. ASSUME NEW x \in 1 .. Len(more), NEW y \in 1 .. Len(more), x < y,
             more[x] = store, more[y] = p, \A m \in x + 1 .. y - 1 : Between(more[m])
      PROVE  StoreReaches(more, g, store, p)
  BY <1>9 DEF StoreReaches, Between
<1>10. CASE n <= j
  <2>1. /\ j + 2 \in 1 .. Len(more) /\ k + 2 \in 1 .. Len(more) /\ j + 2 < k + 2
        /\ more[j + 2] = store /\ more[k + 2] = p
    BY <1>1, <1>2, <1>3, <1>10
  <2>2. ASSUME NEW m \in (j + 2) + 1 .. (k + 2) - 1 PROVE Between(more[m])
    <3> DEFINE was == m - 2
    <3>1. was \in j + 1 .. k - 1 /\ was \in n .. Len(list) /\ m = was + 2
      BY <1>1, <1>2, <1>3, <1>10
    <3> HIDE DEF was
    <3>2. more[was + 2] = list[was]
      BY <1>1, <3>1
    <3> QED
      BY <1>5, <3>1, <3>2
  <2> DEFINE x == j + 2
             y == k + 2
  <2> HIDE DEF x, y
  <2>3. /\ x \in 1 .. Len(more) /\ y \in 1 .. Len(more) /\ x < y
        /\ more[x] = store /\ more[y] = p /\ \A m \in x + 1 .. y - 1 : Between(more[m])
    BY <2>1, <2>2 DEF x, y
  <2> QED
    BY <1>9, <2>3
<1>11. CASE k < n
  <2>1. /\ j \in 1 .. Len(more) /\ k \in 1 .. Len(more)
        /\ more[j] = store /\ more[k] = p
    BY <1>1, <1>2, <1>3, <1>11
  <2>2. ASSUME NEW m \in j + 1 .. k - 1 PROVE Between(more[m])
    <3>1. m \in 1 .. n - 1
      BY <1>1, <1>2, <1>3, <1>11
    <3> QED
      BY <1>1, <1>5, <3>1
  <2> QED
    BY <1>2, <1>9, <2>1, <2>2
<1>12. CASE k = n
  <2>1. /\ j \in 1 .. Len(more) /\ k + 2 \in 1 .. Len(more) /\ j < k + 2
        /\ more[j] = store /\ more[k + 2] = p
    BY <1>1, <1>2, <1>3, <1>12
  <2>2. ASSUME NEW m \in j + 1 .. (k + 2) - 1 PROVE Between(more[m])
    <3>1. CASE m < n
      <4>1. m \in 1 .. n - 1 /\ m \in j + 1 .. k - 1
        BY <1>1, <1>2, <1>3, <1>12, <3>1
      <4> QED
        BY <1>1, <1>5, <4>1
    <3>2. CASE m = n
      BY <1>1, <1>8, <1>12, <3>2
    <3>3. CASE m = n + 1
      BY <1>1, <1>7, <3>3
    <3> QED
      BY <1>3, <1>12, <3>1, <3>2, <3>3
  <2> DEFINE y == k + 2
  <2> HIDE DEF y
  <2>3. /\ y \in 1 .. Len(more) /\ j < y /\ more[y] = p
        /\ \A m \in j + 1 .. y - 1 : Between(more[m])
    BY <2>1, <2>2 DEF y
  <2> QED
    BY <1>9, <2>1, <2>3
<1> QED
  BY <1>3, <1>6, <1>10, <1>11, <1>12


\* The new store is beyond what its consumer has used, and its block lies
\* before the consumer, so inside no other block.
LEMMA StageKeepsTilingInv == IRInv /\ ShapesInv /\ TilingInv /\ StageOperand => TilingInv'
<1> SUFFICES ASSUME IRInv, ShapesInv, TilingInv, StageOperand PROVE TilingInv'
  OBVIOUS
<1>1. /\ FnInv /\ ConsumersInv /\ stage = "tile" /\ stage' = "tile"
      /\ consumers' = consumers /\ owner' = owner /\ owner # Nobody
      /\ LoadsInv /\ owner \in DOMAIN heap /\ isMatMulFamily(heap[owner].kind)
  BY DEF StageOperand, Tiling, IRInv, TilingInv, ConsumersInv
<1>2. PICK c \in cands, n \in 1 .. Len(ops), store \in Pointer, load \in Pointer :
        /\ Stages(c, n, store, load)
        /\ used' = used + c.tiles /\ cands' = cands \ {c}
        /\ staged' = Append(staged, [owner |-> owner, consumerId |-> -1, of |-> c])
  BY StageEffect
<1>3. /\ ops[n] = owner /\ store \notin DOMAIN heap /\ load \notin DOMAIN heap /\ store # load
      /\ ops' = Insert(ops, n, store, load) /\ DOMAIN heap' = DOMAIN heap \cup {store, load}
      /\ \A p \in DOMAIN heap :
           /\ heap'[p].kind = heap[p].kind /\ heap'[p].shape = heap[p].shape
           /\ heap'[p].scratchOffset = heap[p].scratchOffset
           /\ heap'[p].operands = IF p = owner
                                  THEN [heap[p].operands EXCEPT ![c.operandIndex] = load]
                                  ELSE heap[p].operands
  BY <1>2 DEF Stages
<1> DEFINE at == c.operandIndex
           from == heap[owner].operands[at]
<1>4. /\ \A p \in DOMAIN heap :
           /\ heap[p].operands \in Seq(DOMAIN heap)
           /\ \A i \in 1 .. Len(heap[p].operands) : heap[p].operands[i] \in DOMAIN heap
      /\ \A k \in 1 .. Len(ops) : ops[k] \in DOMAIN heap
      /\ \A j, k \in 1 .. Len(ops) : ops[j] = ops[k] => j = k
      /\ Len(ops) \in Nat
  BY <1>1, FnFacts
<1>5. /\ at \in {1, 2} /\ at \in 1 .. Len(heap[owner].operands) /\ from \in DOMAIN heap
      /\ c \in Candidate /\ c.tiles \in Nat /\ used \in Nat /\ used + c.tiles <= ScratchpadTiles
  <2>1. at \in 1 .. Len(heap[owner].operands) /\ Fits(c)
    BY <1>2 DEF Stages
  <2> QED
    BY <1>1, <1>4, <2>1, SMTT(30) DEF ConsumersInv, Candidate, Fits
<1>reads. /\ \A p \in DOMAIN heap : p # owner => heap'[p].operands = heap[p].operands
          /\ Len(heap'[owner].operands) = Len(heap[owner].operands)
          /\ heap'[owner].operands[at] = load
          /\ \A i \in 1 .. Len(heap[owner].operands) :
               i # at => heap'[owner].operands[i] = heap[owner].operands[i]
  <2> DEFINE was == heap[owner].operands
             now == heap'[owner].operands
  <2>1. now = [was EXCEPT ![at] = load] /\ was \in Seq(DOMAIN heap) /\ at \in 1 .. Len(was)
    BY <1>1, <1>3, <1>4, <1>5
  <2>2. \A p \in DOMAIN heap : p # owner => heap'[p].operands = heap[p].operands
    BY <1>3
  <2> HIDE DEF was, now, at
  <2>3. /\ Len(now) = Len(was) /\ now[at] = load
        /\ \A i \in 1 .. Len(was) : i # at => now[i] = was[i]
    BY <2>1
  <2> QED
    BY <2>2, <2>3 DEF was, now
<1>other. ASSUME NEW p \in DOMAIN heap, NEW i \in 1 .. Len(heap[p].operands),
                 ~(p = owner /\ i = at)
          PROVE  heap'[p].operands[i] = heap[p].operands[i]
  <2>1. CASE p = owner
    BY <1>reads, <1>other, <2>1
  <2>2. CASE p # owner
    BY <1>reads, <2>2
  <2> QED
    BY <2>1, <2>2
<1>6. /\ heap'[store].kind = "ScratchStore" /\ heap'[store].operands = <<from>>
      /\ heap'[store].shape = heap[from].shape /\ heap'[store].scratchOffset = used
      /\ heap'[load].kind = "ScratchLoad" /\ heap'[load].operands = <<store>>
  <2>1. SameOp(heap'[store], storeFor(c))
    BY <1>2 DEF Stages
  <2>2. SameOp(heap'[load], newOp("ScratchLoad", storeFor(c).shape, <<store>>, 0))
    BY <1>2 DEF Stages
  <2>3. /\ storeFor(c).kind = "ScratchStore" /\ storeFor(c).operands = <<from>>
        /\ storeFor(c).shape = heap[from].shape /\ storeFor(c).scratchOffset = used
    BY DEF storeFor, newOp, Operand
  <2> QED
    BY <2>1, <2>2, <2>3 DEF SameOp, newOp
<1>7. \A p \in DOMAIN heap :
        SameStaging(heap, heap', p) /\ (isMatMulFamily(heap'[p].kind) <=> isMatMulFamily(heap[p].kind))
  BY <1>3 DEF SameStaging, RegionIn
<1>8. \A p \in DOMAIN heap : \A i \in 1 .. Len(heap[p].operands) :
        ShapeOf(heap', p, i) = ShapeOf(heap, p, i)
  BY <1>1, <1>2, StageKeepsShapeOf
<1>9. Counts(heap, owner, c) /\ c.tiles = tiles(heap[from].shape)
  <2>1. Counts(heap, owner, c)
    BY <1>1, <1>2 DEF TilingInv
  <2> QED
    BY <2>1 DEF Counts, ShapeOf
<1>10. RegionIn(heap', store) = used .. used + c.tiles - 1
  BY <1>6, <1>9 DEF RegionIn
<1> DEFINE t == c.tiles
<1>11. /\ RegionIn(heap', store) \subseteq 0 .. used' - 1
       /\ RegionIn(heap', store) \subseteq 0 .. ScratchpadTiles - 1
       /\ 0 .. used - 1 \subseteq 0 .. used' - 1
       /\ RegionIn(heap', store) \cap (0 .. used - 1) = {}
  <2>1. used' = used + t /\ t \in Nat /\ used \in Nat /\ used + t <= ScratchpadTiles
    BY <1>2, <1>5
  <2>2. RegionIn(heap', store) = used .. used + t - 1
    BY <1>10
  <2>3. ScratchpadTiles \in Nat
    BY IRAssumption
  <2> HIDE DEF t
  <2>4. /\ used .. used + t - 1 \subseteq 0 .. used' - 1
        /\ used .. used + t - 1 \subseteq 0 .. ScratchpadTiles - 1
        /\ 0 .. used - 1 \subseteq 0 .. used' - 1
        /\ (used .. used + t - 1) \cap (0 .. used - 1) = {}
    BY <2>1, <2>3
  <2> QED
    BY <2>2, <2>4
<1>12. IsInsertion(ops', ops, n, store, load)
  <2> DEFINE S == DOMAIN heap'
  <2>1. ops \in Seq(S) /\ store \in S /\ load \in S
    BY <1>1, <1>3 DEF FnInv, IsFunction, Lists
  <2> HIDE DEF S
  <2> QED
    BY <1>3, <2>1, InsertProperties
<1>13. Inserts(heap, ops, n, store, load, heap', ops')
  <2>1. ~IsStaging(heap[ops[n]].kind)
    BY <1>1, <1>3 DEF IsStaging, isMatMulFamily
  <2> QED
    BY <1>4, <1>6, <1>7, <1>12, <2>1 DEF Inserts
<1>14. LoadsInv'
  <2> SUFFICES ASSUME NEW p \in DOMAIN heap', NEW i \in 1 .. Len(heap'[p].operands),
                      Loads(heap', p, i)
               PROVE  /\ LoadReaches(ops', heap', p, i)
                      /\ \A k \in 1 .. Len(consumers) : consumers[k] # p
                      /\ p = owner => RegionIn(heap', StoreOf(heap', p, i)) \subseteq 0 .. used' - 1
                      /\ p = owner => \A d \in cands' : d.operandIndex # i
    BY <1>1 DEF LoadsInv
  <2>1. ~(p = store)
    <3> SUFFICES ASSUME p = store PROVE FALSE
      OBVIOUS
    <3>1. heap'[p].operands[i] = from
      BY <1>6
    <3>2. heap[from].kind = "ScratchLoad"
      BY <1>3, <1>5, <3>1 DEF Loads
    <3>3. Loads(heap, owner, at)
      BY <3>2 DEF Loads
    <3> QED
      BY <1>1, <1>2, <1>5, <3>3 DEF LoadsInv
  <2>2. ~(p = load)
    <3> SUFFICES ASSUME p = load PROVE FALSE
      OBVIOUS
    <3>1. heap'[p].operands[i] = store
      BY <1>6
    <3> QED
      BY <1>6, <3>1 DEF Loads
  <2>3. p \in DOMAIN heap
    BY <1>3, <2>1, <2>2
  <2>4. ASSUME p = owner, i = at
        PROVE  /\ LoadReaches(ops', heap', p, i)
               /\ \A k \in 1 .. Len(consumers) : consumers[k] # p
               /\ RegionIn(heap', StoreOf(heap', p, i)) \subseteq 0 .. used' - 1
               /\ \A d \in cands' : d.operandIndex # i
    <3>1. heap'[p].operands[i] = load
      BY <1>reads, <2>4
    <3>2. StoreOf(heap', p, i) = store
      BY <1>6, <3>1 DEF StoreOf
    <3>3. StoreReaches(ops', heap', store, p)
      <4> DEFINE L == Len(ops)
      <4>0. L \in Nat /\ n \in 1 .. L
        BY <1>4
      <4>1. /\ ops'[n] = store /\ ops'[n + 1] = load /\ ops'[n + 2] = owner
            /\ Len(ops') = L + 2
        <5>1. n \in n .. L
          <6> HIDE DEF L
          <6> QED
            BY <4>0
        <5> QED
          BY <1>3, <1>12, <5>1 DEF IsInsertion
      <4> HIDE DEF L
      <4>2. n \in 1 .. Len(ops') /\ n + 2 \in 1 .. Len(ops') /\ n < n + 2
        BY <4>0, <4>1
      <4>3. \A m \in n + 1 .. (n + 2) - 1 : m = n + 1
        BY <4>0
      <4>4. IsStaging(heap'[load].kind) /\ heap'[load].kind # "ScratchStore"
        BY <1>6 DEF IsStaging
      <4> QED
        BY <2>4, <4>1, <4>2, <4>3, <4>4 DEF StoreReaches
    <3>4. LoadReaches(ops', heap', p, i)
      BY <1>1, <1>3, <1>7, <1>11, <2>4, <3>2, <3>3 DEF LoadReaches
    <3>5. \A k \in 1 .. Len(consumers) : consumers[k] # p
      BY <2>4 DEF TilingInv
    <3>6. \A d \in cands' : d.operandIndex # i
      BY <1>2, <2>4 DEF TilingInv
    <3> QED
      BY <1>11, <3>2, <3>4, <3>5, <3>6
  <2>5. ASSUME ~(p = owner /\ i = at)
        PROVE  /\ LoadReaches(ops', heap', p, i)
               /\ \A k \in 1 .. Len(consumers) : consumers[k] # p
               /\ p = owner => RegionIn(heap', StoreOf(heap', p, i)) \subseteq 0 .. used' - 1
               /\ p = owner => \A d \in cands' : d.operandIndex # i
    <3>0. i \in 1 .. Len(heap[p].operands)
      BY <1>reads, <2>3
    <3>1. heap'[p].operands[i] = heap[p].operands[i] /\ i \in 1 .. Len(heap[p].operands)
      BY <1>other, <2>3, <2>5, <3>0
    <3>2. heap[p].operands[i] \in DOMAIN heap
      BY <1>4, <2>3, <3>1
    <3>3. Loads(heap, p, i)
      BY <1>3, <3>1, <3>2 DEF Loads
    <3>4. /\ LoadReaches(ops, heap, p, i)
          /\ \A k \in 1 .. Len(consumers) : consumers[k] # p
          /\ p = owner => RegionIn(heap, StoreOf(heap, p, i)) \subseteq 0 .. used - 1
          /\ p = owner => \A d \in cands : d.operandIndex # i
      BY <1>1, <2>3, <3>1, <3>3 DEF LoadsInv
    <3>5. StoreOf(heap', p, i) = StoreOf(heap, p, i)
      <4>1. heap[p].operands[i] # owner
        BY <1>1, <3>3 DEF Loads, isMatMulFamily
      <4> QED
        BY <1>3, <3>1, <3>2, <4>1 DEF StoreOf
    <3> DEFINE s == StoreOf(heap, p, i)
    <3>6. /\ isMatMulFamily(heap[p].kind) /\ s \in DOMAIN heap
          /\ RegionIn(heap, s) \subseteq 0 .. ScratchpadTiles - 1
          /\ StoreReaches(ops, heap, s, p)
          /\ p = owner => RegionIn(heap, s) \subseteq 0 .. used - 1
      BY <3>4 DEF LoadReaches
    <3>7. StoreOf(heap', p, i) = s
      BY <3>5
    <3> HIDE DEF s
    <3>8. RegionIn(heap', s) = RegionIn(heap, s)
      BY <1>7, <3>6 DEF SameStaging
    <3>9. StoreReaches(ops', heap', s, p)
      <4>1. p = ops[n] => RegionIn(heap', store) \cap RegionIn(heap, s) = {}
        BY <1>3, <1>11, <3>6
      <4> QED
        BY <1>13, <3>6, <4>1, InsertKeepsReach
    <3>10. LoadReaches(ops', heap', p, i)
      BY <1>3, <1>7, <2>3, <3>6, <3>7, <3>8, <3>9 DEF LoadReaches
    <3>11. p = owner => RegionIn(heap', StoreOf(heap', p, i)) \subseteq 0 .. used' - 1
      BY <1>11, <3>6, <3>7, <3>8
    <3> QED
      BY <1>2, <3>4, <3>10, <3>11
  <2> QED
    BY <2>4, <2>5
<1>15. \A d, e \in cands' : d.operandIndex = e.operandIndex => d = e
  BY <1>2 DEF TilingInv
<1>16. ASSUME NEW p \in DOMAIN heap, isMatMulFamily(heap[p].kind)
       PROVE  1 \in 1 .. Len(heap[p].operands) /\ 2 \in 1 .. Len(heap[p].operands)
  <2> DEFINE m == Len(heap[p].operands)
  <2>1. m \in {2, 3}
    BY <1>1, <1>16, ArityOf
  <2> HIDE DEF m
  <2>2. 1 \in 1 .. m /\ 2 \in 1 .. m
    BY <2>1
  <2> QED
    BY <2>2 DEF m
<1>17. \A d \in cands : Counts(heap', owner, d)
  <2> SUFFICES ASSUME NEW d \in cands PROVE Counts(heap', owner, d)
    OBVIOUS
  <2>1. Counts(heap, owner, d) /\ d.operandIndex \in {1, 2}
    BY <1>1 DEF TilingInv, ConsumersInv, Candidate
  <2> QED
    BY <1>1, <1>3, <1>8, <1>16, <2>1, CountsKept
<1>18. ASSUME NEW d, Staged(heap, d) PROVE Staged(heap', d)
  <2>1. /\ d.owner \in DOMAIN heap /\ d.of \in Candidate /\ isMatMulFamily(heap[d.owner].kind)
        /\ Loads(heap, d.owner, d.of.operandIndex) /\ Counts(heap, d.owner, d.of)
    BY <1>18 DEF Staged
  <2>2. d.of.operandIndex \in {1, 2} /\ d.of.operandIndex \in 1 .. Len(heap[d.owner].operands)
    BY <1>16, <2>1 DEF Candidate
  <2>3. Loads(heap', d.owner, d.of.operandIndex)
    <3> DEFINE p == d.owner
               i == d.of.operandIndex
    <3>1. /\ p \in DOMAIN heap /\ i \in 1 .. Len(heap[p].operands)
          /\ heap[heap[p].operands[i]].kind = "ScratchLoad"
      BY <2>1, <2>2 DEF Loads
    <3> HIDE DEF p, i
    <3>2. heap'[p].operands[i] = load \/ heap'[p].operands[i] = heap[p].operands[i]
      BY <1>reads, <1>other, <3>1
    <3>3. heap[p].operands[i] \in DOMAIN heap
      BY <1>4, <3>1
    <3> QED
      BY <1>3, <1>6, <3>1, <3>2, <3>3 DEF Loads, p, i
  <2>4. Counts(heap', d.owner, d.of)
    <3>1. heap'[d.owner].shape = heap[d.owner].shape
      BY <1>3, <2>1
    <3>2. \A i \in 1 .. Len(heap[d.owner].operands) :
            ShapeOf(heap', d.owner, i) = ShapeOf(heap, d.owner, i)
      BY <1>8, <2>1 DEF ShapeOf
    <3>3. 1 \in 1 .. Len(heap[d.owner].operands)
      BY <1>16, <2>1
    <3> QED
      BY <2>1, <2>2, <3>1, <3>2, <3>3, CountsKept
  <2> QED
    BY <1>3, <1>7, <2>1, <2>3, <2>4 DEF Staged
<1>19. staged' \in StagedOperands /\ \A k \in 1 .. Len(staged') : Staged(heap', staged'[k])
  <2> DEFINE new == [owner |-> owner, consumerId |-> -1, of |-> c]
  <2>1. new.owner = owner /\ new.of = c
    OBVIOUS
  <2>2. heap'[owner].operands[at] = load
    BY <1>reads
  <2>3. Staged(heap', new)
    BY <1>1, <1>2, <1>3, <1>5, <1>6, <1>7, <1>17, <2>1, <2>2 DEF Staged, Loads
  <2> HIDE DEF new
  <2>4. staged' = Append(staged, new)
    BY <1>2 DEF new
  <2>5. \A k \in 1 .. Len(staged) : Staged(heap', staged[k])
    BY <1>18 DEF TilingInv
  <2>6. staged \in StagedOperands /\ new \in [owner: Pointer, consumerId: Int, of: Candidate]
    <3>1. owner \in Pointer
      BY <1>1, FnFacts
    <3> QED
      BY <1>5, <3>1 DEF TilingInv, new
  <2> QED
    BY <2>3, <2>4, <2>5, <2>6 DEF StagedOperands
<1>20. \A d \in cands' : Counts(heap', owner', d)
  BY <1>1, <1>2, <1>17
<1> QED
  BY <1>1, <1>14, <1>15, <1>19, <1>20 DEF TilingInv


LEMMA TileKeepsTilingInv == IRInv /\ ShapesInv /\ TilingInv /\ Tile => TilingInv'
<1> SUFFICES ASSUME IRInv, ShapesInv, TilingInv, Tile PROVE TilingInv'
  OBVIOUS
<1>1. /\ FnInv /\ ConsumersInv /\ stage = "tile" /\ LoadsInv /\ staged \in StagedOperands
      /\ \A k \in 1 .. Len(consumers) : consumers[k] # Nobody
      /\ \A p \in DOMAIN heap : p # Nobody
  <2>1. \A p \in DOMAIN heap : p # Nobody
    BY FnFacts DEF IRInv, Pointer, Nobody
  <2>2. \A k \in 1 .. Len(consumers) : consumers[k] \in DOMAIN heap
    BY DEF IRInv, ConsumersInv
  <2> QED
    BY <2>1, <2>2 DEF IRInv, TilingInv, Tile, VisitConsumer, StageOperand, SkipOperand,
           LeaveConsumer, FinishTiling, Tiling
<1>2. CASE SkipOperand
  <2>1. /\ heap' = heap /\ ops' = ops /\ cands' \subseteq cands /\ stage' = "tile"
        /\ UNCHANGED <<consumers, owner, used, staged>>
    BY <1>1, <1>2 DEF SkipOperand, Tiling, fn
  <2>2. LoadsInv'
    BY <1>1, <2>1 DEF LoadsInv
  <2> QED
    BY <1>1, <2>1, <2>2 DEF TilingInv
<1>3. CASE LeaveConsumer
  <2>1. /\ heap' = heap /\ ops' = ops /\ cands' = {} /\ owner' = Nobody /\ stage' = "tile"
        /\ UNCHANGED <<consumers, used, staged>>
    BY <1>1, <1>3 DEF LeaveConsumer, Tiling, fn
  <2>2. LoadsInv'
    BY <1>1, <2>1 DEF LoadsInv
  <2> QED
    BY <1>1, <2>1, <2>2 DEF TilingInv
<1>4. CASE FinishTiling
  <2>1. /\ heap' = heap /\ ops' = ops /\ owner = Nobody /\ stage' = "done"
        /\ UNCHANGED <<consumers, cands, owner, used>>
        /\ staged' = [k \in 1 .. Len(staged) |->
                        [staged[k] EXCEPT !.consumerId = heap[staged[k].owner].id]]
    BY <1>4 DEF FinishTiling, Tiling, fn, finalId
  <2>2. LoadsInv'
    BY <1>1, <2>1 DEF LoadsInv
  <2>3. ASSUME NEW k \in 1 .. Len(staged)
        PROVE  /\ staged'[k] \in [owner: Pointer, consumerId: Int, of: Candidate]
               /\ staged'[k].owner = staged[k].owner /\ staged'[k].of = staged[k].of
               /\ staged'[k].consumerId = heap[staged[k].owner].id
    <3> DEFINE d == staged[k]
    <3>1. d \in [owner: Pointer, consumerId: Int, of: Candidate]
      <4> DEFINE S == [owner: Pointer, consumerId: Int, of: Candidate]
      <4>1. staged \in Seq(S)
        BY <1>1 DEF StagedOperands
      <4> HIDE DEF S
      <4>2. staged[k] \in S
        BY <4>1
      <4> QED
        BY <4>2 DEF S
    <3>2. heap[d.owner].id \in Int
      BY <1>1, FnFacts DEF TilingInv, Staged
    <3>3. staged'[k] = [d EXCEPT !.consumerId = heap[d.owner].id]
      BY <2>1
    <3> HIDE DEF d
    <3>4. /\ staged'[k] \in [owner: Pointer, consumerId: Int, of: Candidate]
          /\ staged'[k].owner = d.owner /\ staged'[k].of = d.of
          /\ staged'[k].consumerId = heap[d.owner].id
      BY <3>1, <3>2, <3>3
    <3> QED
      BY <3>4 DEF d
  <2>4. staged' \in StagedOperands /\ Len(staged') = Len(staged)
    <3>1. Len(staged) \in Nat
      BY <1>1 DEF StagedOperands
    <3> QED
      BY <2>1, <2>3, <3>1 DEF StagedOperands
  <2>5. \A k \in 1 .. Len(staged') : Staged(heap', staged'[k])
    BY <2>1, <2>3, <2>4 DEF TilingInv, Staged
  <2> QED
    <3>1. /\ \A j, k \in 1 .. Len(consumers') : consumers'[j] = consumers'[k] => j = k
          /\ \A k \in 1 .. Len(consumers') : consumers'[k] # owner'
          /\ \A c, d \in cands' : c.operandIndex = d.operandIndex => c = d
          /\ owner' = Nobody /\ stage' = "done"
      BY <1>1, <2>1 DEF TilingInv
    <3>2. \A k \in 1 .. Len(staged') : staged'[k].consumerId = heap'[staged'[k].owner].id
      BY <2>1, <2>3, <2>4
    <3> QED
      BY <2>2, <2>4, <2>5, <3>1, <3>2 DEF TilingInv
<1> QED
  BY <1>2, <1>3, <1>4, VisitKeepsTilingInv, StageKeepsTilingInv DEF Tile

LEMMA TilingInvStep == IRInv /\ FusionInv /\ ShapesInv /\ TilingInv /\ [Next]_vars => TilingInv'
<1>1. ASSUME TilingInv, UNCHANGED vars PROVE TilingInv'
  <2>1. UNCHANGED <<stage, heap, ops, consumers, owner, cands, used, staged>>
    BY <1>1 DEF vars, fn, tilingVars
  <2> QED
    BY <1>1, <2>1 DEF TilingInv, LoadsInv
<1> QED
  BY <1>1, LowerKeepsTilingInv, FuseKeepsTilingInv, PruneKeepsTilingInv, TileKeepsTilingInv
     DEF Next, Compiled

LEMMA TilingInvariant == Spec => [](IRInv /\ FusionInv /\ ShapesInv /\ TilingInv)
<1>1. Init => IRInv /\ FusionInv /\ ShapesInv /\ TilingInv
  BY InitIRInv, InitFusionInv, InitShapesInv, InitTilingInv
<1>2. IRInv /\ FusionInv /\ ShapesInv /\ TilingInv /\ [Next]_vars
        => IRInv' /\ FusionInv' /\ ShapesInv' /\ TilingInv'
  BY IRInvStep, FusionInvStep, ShapesInvStep, TilingInvStep
<1> QED
  BY <1>1, <1>2, PTL DEF Spec

LEMMA TilingInvImpliesIntact == IRInv /\ TilingInv => StagingIntact
<1> SUFFICES ASSUME IRInv, TilingInv, NEW p \in Ops, NEW i \in 1 .. 3,
                    i <= Len(heap[p].operands), heap[Operand(p, i)].kind = "ScratchLoad"
             PROVE  LET store == Operand(Operand(p, i), 1) IN
                      /\ Region(store) \subseteq 0 .. ScratchpadTiles - 1
                      /\ \A k \in PositionOf(store) + 1 .. PositionOf(p) - 1 :
                           heap[ops[k]].kind = "ScratchStore" =>
                             Region(ops[k]) \cap Region(store) = {}
  BY DEF StagingIntact
<1>1. FnInv /\ p \in DOMAIN heap
  BY FnFacts DEF IRInv
<1>2. i \in 1 .. Len(heap[p].operands)
  BY <1>1, FnFacts
<1> DEFINE store == StoreOf(heap, p, i)
<1>3. store = Operand(Operand(p, i), 1)
  BY DEF StoreOf, Operand
<1>4. RegionIn(heap, store) \subseteq 0 .. ScratchpadTiles - 1 /\ StoreReaches(ops, heap, store, p)
  BY <1>1, <1>2 DEF TilingInv, LoadsInv, LoadReaches, Loads, Operand
<1> HIDE DEF store
<1>5. PICK j \in 1 .. Len(ops), k \in 1 .. Len(ops) :
        /\ ops[j] = store /\ ops[k] = p
        /\ \A m \in j + 1 .. k - 1 : heap[ops[m]].kind = "ScratchStore" =>
             RegionIn(heap, ops[m]) \cap RegionIn(heap, store) = {}
  BY <1>4 DEF StoreReaches
<1>6. PositionOf(store) = j /\ PositionOf(p) = k
  BY <1>1, <1>5, FnFacts DEF PositionOf
<1>7. \A q : Region(q) = RegionIn(heap, q)
  BY DEF Region, RegionIn
<1> QED
  BY <1>3, <1>4, <1>5, <1>6, <1>7

\* What a consumer reads from the scratchpad is what was staged for it: no
\* store between the two overlaps it and it lies inside the scratchpad,
\* although every consumer packs its operands from offset 0 (TilingPass.cpp).
THEOREM StagingIntactHolds == Spec => []StagingIntact
BY TilingInvariant, TilingInvImpliesIntact, PTL

LEMMA TilingInvImpliesNames == IRInv /\ TilingInv => ReportNamesConsumer
<1> SUFFICES ASSUME IRInv, TilingInv, stage = "done", NEW k \in 1 .. Len(staged)
             PROVE  LET p == ops[staged[k].consumerId + 1] IN
                      /\ isMatMulFamily(heap[p].kind)
                      /\ heap[Operand(p, staged[k].of.operandIndex)].kind = "ScratchLoad"
  BY DEF ReportNamesConsumer
<1> DEFINE p == staged[k].owner
<1>1. /\ FnInv /\ p \in DOMAIN heap /\ isMatMulFamily(heap[p].kind)
      /\ Loads(heap, p, staged[k].of.operandIndex) /\ staged[k].consumerId = heap[p].id
  BY DEF IRInv, TilingInv, Staged
<1> HIDE DEF p
<1>2. PICK n \in 1 .. Len(ops) : ops[n] = p
  BY <1>1, FnFacts
<1>3. heap[p].id = n - 1 /\ n \in Int
  BY <1>1, <1>2 DEF FnInv, IsFunction, Numbered
<1>4. ops[staged[k].consumerId + 1] = p
  BY <1>1, <1>2, <1>3
<1> QED
  BY <1>1, <1>4 DEF Loads, Operand

\* The ids in the tiling report are those of the ops that read the staged
\* operands, whatever was inserted after an operand was staged
\* (TilingPass.cpp fills them in when nothing more is inserted).
THEOREM ReportNamesConsumerHolds == Spec => []ReportNamesConsumer
BY TilingInvariant, TilingInvImpliesNames, PTL

LEMMA TilingInvImpliesCounts == TilingInv => ReportCountsReads
<1> SUFFICES ASSUME TilingInv, NEW k \in 1 .. Len(staged)
             PROVE  LET d == staged[k] IN
                      /\ d.of.tiles * d.of.uses = ReadsOf(d.owner)
                      /\ d.of.tiles = tiles(heap[Operand(d.owner, d.of.operandIndex)].shape)
  BY DEF ReportCountsReads
<1>1. Counts(heap, staged[k].owner, staged[k].of)
  BY DEF TilingInv, Staged
<1> QED
  BY <1>1 DEF Counts, Iterations, ReadsOf, ShapeOf, Operand

\* What the report counts is what the generated loop nest does, for every
\* shape, broadcast and tile size: the tiles copied are those of the operand,
\* and each is read as often as the nest needs it.
THEOREM ReportCountsReadsHolds == Spec => []ReportCountsReads
BY TilingInvariant, TilingInvImpliesCounts, PTL
-----------------------------------------------------------------------------
(* What is printed.  interpretation() runs through the op list; in a list  *)
(* in SSA order it is the only valuation of the ops, whatever that order.  *)
(* Each pass turns a valuation into a valuation with the same prints.      *)

-----------------------------------------------------------------------------
(* Selecting from a list.                                                  *)

\* A selection is determined by the set.
LEMMA SelectsUnique ==
  ASSUME NEW S, NEW list \in Seq(S), NEW set,
         NEW a \in Seq(set), Selects(a, list, set),
         NEW b \in Seq(set), Selects(b, list, set)
  PROVE  a = b
<1>1. PICK f \in [1 .. Len(a) -> 1 .. Len(list)] :
        /\ \A n \in 1 .. Len(a) : a[n] = list[f[n]]
        /\ \A m, n \in 1 .. Len(a) : m < n => f[m] < f[n]
        /\ \A k \in 1 .. Len(list) : list[k] \in set => \E n \in 1 .. Len(a) : f[n] = k
  BY DEF Selects
<1>2. PICK g \in [1 .. Len(b) -> 1 .. Len(list)] :
        /\ \A n \in 1 .. Len(b) : b[n] = list[g[n]]
        /\ \A m, n \in 1 .. Len(b) : m < n => g[m] < g[n]
        /\ \A k \in 1 .. Len(list) : list[k] \in set => \E n \in 1 .. Len(b) : g[n] = k
  BY DEF Selects
<1>3. /\ Len(a) \in Nat /\ Len(b) \in Nat /\ Len(list) \in Nat
      /\ \A n \in 1 .. Len(a) : f[n] \in 1 .. Len(list) /\ list[f[n]] \in set
      /\ \A n \in 1 .. Len(b) : g[n] \in 1 .. Len(list) /\ list[g[n]] \in set
  <2>1. Len(a) \in Nat /\ Len(b) \in Nat /\ Len(list) \in Nat
    OBVIOUS
  <2>2. ASSUME NEW n \in 1 .. Len(a)
        PROVE  f[n] \in 1 .. Len(list) /\ list[f[n]] \in set
    <3>1. a[n] \in set
      OBVIOUS
    <3>2. f[n] \in 1 .. Len(list) /\ a[n] = list[f[n]]
      BY <1>1
    <3> QED BY <3>1, <3>2
  <2>3. ASSUME NEW n \in 1 .. Len(b)
        PROVE  g[n] \in 1 .. Len(list) /\ list[g[n]] \in set
    <3>1. b[n] \in set
      OBVIOUS
    <3>2. g[n] \in 1 .. Len(list) /\ b[n] = list[g[n]]
      BY <1>2
    <3> QED BY <3>1, <3>2
  <2> QED BY <2>1, <2>2, <2>3
<1> DEFINE T == {n \in Nat : (n \in 1 .. Len(a) \/ n \in 1 .. Len(b)) =>
                               n \in 1 .. Len(a) /\ n \in 1 .. Len(b) /\ f[n] = g[n]}
<1>4. ASSUME NEW n \in Nat, 0 .. n - 1 \subseteq T
      PROVE  n \in T
  <2>1. \A m \in 1 .. n - 1 : (m \in 1 .. Len(a) \/ m \in 1 .. Len(b)) => f[m] = g[m]
    BY <1>4
  <2>2. CASE n \in 1 .. Len(a)
    <3>1. PICK m \in 1 .. Len(b) : g[m] = f[n]
      BY <1>2, <1>3, <2>2
    <3>2. ~(m < n)
      BY <1>1, <1>3, <2>1, <2>2, <3>1
    <3>3. n \in 1 .. Len(b) /\ g[n] <= f[n]
      BY <1>2, <1>3, <2>2, <3>1, <3>2
    <3>4. PICK l \in 1 .. Len(a) : f[l] = g[n]
      BY <1>1, <1>3, <3>3
    <3>5. ~(l < n)
      BY <1>2, <1>3, <2>1, <3>3, <3>4
    <3>6. f[n] <= g[n]
      BY <1>1, <1>3, <2>2, <3>4, <3>5, SMTT(30)
    <3> QED BY <1>3, <2>2, <3>3, <3>6
  <2>3. CASE n \in 1 .. Len(b)
    <3>1. PICK m \in 1 .. Len(a) : f[m] = g[n]
      BY <1>1, <1>3, <2>3
    <3>2. ~(m < n)
      BY <1>2, <1>3, <2>1, <2>3, <3>1
    <3>3. n \in 1 .. Len(a)
      BY <1>3, <2>3, <3>1, <3>2
    <3> QED BY <2>2, <3>3
  <2> QED BY <2>2, <2>3
<1>5. Nat \subseteq T
  <2> HIDE DEF T
  <2> QED BY <1>4, Inherited
<1>6. \A n \in 1 .. Len(a) : n \in 1 .. Len(b) /\ f[n] = g[n]
  BY <1>3, <1>5
<1>7. \A n \in 1 .. Len(b) : n \in 1 .. Len(a)
  BY <1>3, <1>5
<1>8. Len(a) = Len(b)
  <2>1. Len(a) # 0 => Len(a) <= Len(b)
    BY <1>3, <1>6
  <2>2. Len(b) # 0 => Len(b) <= Len(a)
    BY <1>3, <1>7
  <2> QED BY <1>3, <2>1, <2>2
<1>9. \A n \in 1 .. Len(a) : a[n] = b[n]
  BY <1>1, <1>2, <1>6
<1>10. a \in Seq(set) /\ b \in Seq(set)
  OBVIOUS
<1> QED BY ONLY <1>8, <1>9, <1>10, SeqEqual

\* A selection from a selection is one from the whole list.
LEMMA SelectsTwice ==
  ASSUME NEW S, NEW list \in Seq(S), NEW outer, NEW set, NEW mid \in Seq(S), NEW a \in Seq(S),
         Selects(mid, list, outer), Selects(a, mid, set),
         \A k \in 1 .. Len(list) : list[k] \in set => list[k] \in outer
  PROVE  Selects(a, list, set)
<1>1. PICK f \in [1 .. Len(mid) -> 1 .. Len(list)] :
        /\ \A n \in 1 .. Len(mid) : mid[n] = list[f[n]]
        /\ \A m, n \in 1 .. Len(mid) : m < n => f[m] < f[n]
        /\ \A k \in 1 .. Len(list) : list[k] \in outer => \E n \in 1 .. Len(mid) : f[n] = k
  BY DEF Selects
<1>2. PICK g \in [1 .. Len(a) -> 1 .. Len(mid)] :
        /\ \A n \in 1 .. Len(a) : a[n] = mid[g[n]]
        /\ \A m, n \in 1 .. Len(a) : m < n => g[m] < g[n]
        /\ \A k \in 1 .. Len(mid) : mid[k] \in set => \E n \in 1 .. Len(a) : g[n] = k
  BY DEF Selects
<1> DEFINE h == [n \in 1 .. Len(a) |-> f[g[n]]]
<1>3. h \in [1 .. Len(a) -> 1 .. Len(list)] /\ \A n \in 1 .. Len(a) : h[n] = f[g[n]]
  BY <1>1, <1>2
<1>4. \A n \in 1 .. Len(a) : a[n] = list[h[n]]
  BY <1>1, <1>2, <1>3
<1>5. \A m, n \in 1 .. Len(a) : m < n => h[m] < h[n]
  BY <1>1, <1>2, <1>3
<1>6. ASSUME NEW k \in 1 .. Len(list), list[k] \in set
      PROVE  \E n \in 1 .. Len(a) : h[n] = k
  <2>1. PICK m \in 1 .. Len(mid) : f[m] = k
    BY <1>1, <1>6
  <2>2. PICK n \in 1 .. Len(a) : g[n] = m
    BY <1>1, <1>2, <1>6, <2>1
  <2> QED BY <1>3, <2>1, <2>2
<1> HIDE DEF h
<1> QED BY <1>3, <1>4, <1>5, <1>6 DEF Selects

-----------------------------------------------------------------------------
(* Valuations.                                                             *)

operandValues(v, h, p) == [i \in 1 .. Len(h[p].operands) |-> v[h[p].operands[i]]]

\* v gives each op the value that follows from those of its operands.
Valuation(v, h) ==
  /\ v = [p \in DOMAIN h |-> v[p]]
  /\ \A p \in DOMAIN h : v[p] = valueOf(h, p, operandValues(v, h, p))

\* The tables of values after each op of the list.
ValuesUpTo(f, m, list, h) ==
  f = [n \in 0 .. m |->
         IF n = 0 THEN << >>
         ELSE put(f[n - 1], list[n], valueOf(h, list[n], argsOf(h, list[n], f[n - 1])))]

\* The recursion of valuesOf defines a function.
LEMMA ValuesDefined ==
  ASSUME NEW list, NEW h, Len(list) \in Nat
  PROVE  \E f : ValuesUpTo(f, Len(list), list, h) /\ valuesOf(list, h) = f[Len(list)]
<1> DEFINE T == {m \in Nat : \E f : ValuesUpTo(f, m, list, h)}
<1>1. ASSUME NEW m \in Nat, 0 .. m - 1 \subseteq T
      PROVE  m \in T
  <2>1. CASE m = 0
    <3> DEFINE f == [n \in 0 .. 0 |-> << >>]
    <3>1. ValuesUpTo(f, 0, list, h)
      BY DEF ValuesUpTo
    <3> QED BY <2>1, <3>1
  <2>2. CASE m # 0
    <3>1. m - 1 \in 0 .. m - 1 /\ m - 1 \in Nat
      BY <2>2
    <3>2. PICK f : ValuesUpTo(f, m - 1, list, h)
      BY <1>1, <3>1
    <3> DEFINE new == put(f[m - 1], list[m], valueOf(h, list[m], argsOf(h, list[m], f[m - 1])))
               g == [n \in 0 .. m |-> IF n = m THEN new ELSE f[n]]
    <3>3. \A n \in 0 .. m - 1 : f[n] =
            IF n = 0 THEN << >>
            ELSE put(f[n - 1], list[n], valueOf(h, list[n], argsOf(h, list[n], f[n - 1])))
      BY <3>2 DEF ValuesUpTo
    <3>4. \A n \in 0 .. m - 1 : g[n] = f[n]
      BY <3>1
    <3>5. g[m] = new /\ g[m - 1] = f[m - 1]
      BY <3>1
    <3>6. ASSUME NEW n \in 0 .. m
          PROVE  g[n] =
            IF n = 0 THEN << >>
            ELSE put(g[n - 1], list[n], valueOf(h, list[n], argsOf(h, list[n], g[n - 1])))
      <4>1. CASE n = m
        <5> HIDE DEF g
        <5> QED BY <2>2, <3>5, <4>1
      <4>2. CASE n # m
        <5>1. n \in 0 .. m - 1 /\ (n # 0 => n - 1 \in 0 .. m - 1)
          BY <4>2
        <5> HIDE DEF g
        <5> QED BY <3>3, <3>4, <5>1
      <4> QED BY <4>1, <4>2
    <3>7. g = [n \in 0 .. m |-> g[n]]
      OBVIOUS
    <3> HIDE DEF g
    <3>8. ValuesUpTo(g, m, list, h)
      BY <3>6, <3>7 DEF ValuesUpTo
    <3> QED BY <3>8
  <2> QED BY <2>1, <2>2
<1>2. Nat \subseteq T
  <2> HIDE DEF T
  <2> QED BY <1>1, Inherited
<1>3. \E f : ValuesUpTo(f, Len(list), list, h)
  BY <1>2
<1> QED BY <1>3 DEF valuesOf, ValuesUpTo

\* In an SSA list the interpreter finds a value for every operand.
LEMMA ValuesAreValuation ==
  ASSUME NEW list, NEW h, IsFunction(list, h)
  PROVE  Valuation(valuesOf(list, h), h)
<1>0. Len(list) \in Nat
  BY DEF IsFunction, Lists
<1>1. /\ Len(list) \in Nat
      /\ \A k \in 1 .. Len(list) : list[k] \in DOMAIN h
      /\ \A p \in DOMAIN h : \E k \in 1 .. Len(list) : list[k] = p
      /\ \A j, k \in 1 .. Len(list) : list[j] = list[k] => j = k
      /\ Ordered(list, h)
  BY DEF IsFunction, Lists
<1>2. PICK f : ValuesUpTo(f, Len(list), list, h) /\ valuesOf(list, h) = f[Len(list)]
  BY <1>1, ValuesDefined
<1>3. /\ f[0] = << >>
      /\ \A n \in 1 .. Len(list) :
           f[n] = put(f[n - 1], list[n], valueOf(h, list[n], argsOf(h, list[n], f[n - 1])))
  <2>1. \A n \in 0 .. Len(list) : f[n] =
          IF n = 0 THEN << >>
          ELSE put(f[n - 1], list[n], valueOf(h, list[n], argsOf(h, list[n], f[n - 1])))
    BY <1>2 DEF ValuesUpTo
  <2> QED BY <1>1, <2>1
<1> DEFINE first(n) == {list[k] : k \in 1 .. n}
           Right(n) == /\ f[n] = [p \in first(n) |-> f[n][p]]
                       /\ \A k \in 1 .. n : f[n][list[k]] = f[k][list[k]]
           T == {n \in Nat : n <= Len(list) => Right(n)}
<1>4. ASSUME NEW n \in Nat, 0 .. n - 1 \subseteq T
      PROVE  n \in T
  <2>1. CASE n = 0
    <3>1. first(0) = {}
      OBVIOUS
    <3>2. f[0] = [p \in first(0) |-> f[0][p]]
      BY <1>3, <3>1
    <3> QED BY <2>1, <3>2
  <2>2. CASE n \in 1 .. Len(list)
    <3>1. n - 1 \in 0 .. n - 1 /\ n - 1 \in Nat /\ n - 1 <= Len(list)
      BY <2>2
    <3>2. Right(n - 1)
      BY <1>4, <3>1
    <3> DEFINE new == valueOf(h, list[n], argsOf(h, list[n], f[n - 1]))
    <3>3. f[n] = put(f[n - 1], list[n], new)
      BY <1>3, <2>2
    <3>4. DOMAIN f[n - 1] = first(n - 1)
      BY <3>2
    <3> HIDE DEF new
    <3>5. first(n - 1) \cup {list[n]} = first(n)
      BY <2>2
    <3>6. f[n] = [p \in first(n) |-> IF p = list[n] THEN new ELSE f[n - 1][p]]
      <4> HIDE DEF first
      <4> QED BY <3>3, <3>4, <3>5 DEF put
    <3>7. \A k \in 1 .. n : list[k] \in first(n)
      OBVIOUS
    <3>8. \A k \in 1 .. n - 1 : list[k] # list[n]
      BY <1>1, <2>2
    <3>9. ASSUME NEW k \in 1 .. n
          PROVE  f[n][list[k]] = f[k][list[k]]
      <4>1. CASE k = n
        BY <4>1
      <4>2. CASE k # n
        <5>1. k \in 1 .. n - 1
          BY <4>2, <2>2
        <5>2. f[n][list[k]] = f[n - 1][list[k]]
          <6> HIDE DEF first
          <6> QED BY <3>6, <3>7, <3>8, <5>1
        <5>3. f[n - 1][list[k]] = f[k][list[k]]
          BY <3>2, <5>1
        <5> QED BY <5>2, <5>3
      <4> QED BY <4>1, <4>2
    <3>10. f[n] = [p \in first(n) |-> f[n][p]]
      <4> HIDE DEF first
      <4> QED BY <3>6
    <3> QED BY <3>9, <3>10
  <2> QED BY <1>1, <2>1, <2>2
<1>5. Nat \subseteq T
  <2> HIDE DEF T
  <2> QED BY <1>4, Inherited
<1>6. ASSUME NEW n \in 0 .. Len(list)
      PROVE  Right(n)
  <2>1. n \in Nat /\ n <= Len(list)
    BY <1>0
  <2> HIDE DEF Right
  <2> QED BY <1>5, <2>1
<1> DEFINE all == f[Len(list)]
<1>7. first(Len(list)) = DOMAIN h
  <2>1. \A k \in 1 .. Len(list) : list[k] \in DOMAIN h
    BY <1>1
  <2>2. \A p \in DOMAIN h : \E k \in 1 .. Len(list) : list[k] = p
    BY <1>1
  <2> QED BY <2>1, <2>2
<1>8. Right(Len(list))
  <2>1. Len(list) \in 0 .. Len(list)
    BY <1>0
  <2> HIDE DEF Right
  <2> QED BY <1>6, <2>1
<1>9. all = [p \in DOMAIN h |-> all[p]]
  <2> HIDE DEF first
  <2> QED BY <1>7, <1>8
<1>10. ASSUME NEW p \in DOMAIN h
      PROVE  all[p] = valueOf(h, p, operandValues(all, h, p))
  <2>1. PICK k \in 1 .. Len(list) : list[k] = p
    BY <1>1
  <2>2. all[p] = f[k][p]
    BY <1>8, <2>1
  <2> DEFINE args == argsOf(h, p, f[k - 1])
  <2>3. f[k] = put(f[k - 1], p, valueOf(h, p, args))
    BY <1>3, <2>1
  <2>4. f[k][p] = valueOf(h, p, args)
    <3> HIDE DEF args
    <3> QED BY <2>3 DEF put
  <2>5. ASSUME NEW i \in 1 .. Len(h[p].operands)
        PROVE  /\ h[p].operands[i] \in DOMAIN f[k - 1]
               /\ f[k - 1][h[p].operands[i]] = all[h[p].operands[i]]
    <3>1. PICK j \in 1 .. k - 1 : list[j] = h[p].operands[i]
      BY <1>1, <2>1, SMTT(30) DEF Ordered
    <3>2. k - 1 \in 0 .. Len(list) /\ j \in 1 .. Len(list)
      BY <1>0
    <3>3. Right(k - 1)
      <4> HIDE DEF Right
      <4> QED BY <1>6, <3>2
    <3>4. f[k - 1][list[j]] = f[j][list[j]] /\ all[list[j]] = f[j][list[j]]
      BY <1>8, <3>2, <3>3
    <3>5. DOMAIN f[k - 1] = first(k - 1) /\ list[j] \in first(k - 1)
      BY <3>3
    <3> QED BY <3>1, <3>4, <3>5
  <2>6. args = operandValues(all, h, p)
    <3> HIDE DEF all
    <3> QED BY <2>5 DEF argsOf, operandValues
  <2> QED BY <2>2, <2>4, <2>6
<1> QED BY <1>2, <1>9, <1>10 DEF Valuation

\* and there is only one way to value its ops.
LEMMA ValuationUnique ==
  ASSUME NEW list, NEW h, IsFunction(list, h),
         NEW u, Valuation(u, h), NEW v, Valuation(v, h)
  PROVE  u = v
<1>1. /\ Len(list) \in Nat
      /\ \A k \in 1 .. Len(list) : list[k] \in DOMAIN h
      /\ \A p \in DOMAIN h : \E k \in 1 .. Len(list) : list[k] = p
      /\ Ordered(list, h)
  BY DEF IsFunction, Lists
<1> DEFINE T == {k \in Nat : k \in 1 .. Len(list) => u[list[k]] = v[list[k]]}
<1>2. ASSUME NEW k \in Nat, 0 .. k - 1 \subseteq T
      PROVE  k \in T
  <2> SUFFICES ASSUME k \in 1 .. Len(list)
               PROVE  u[list[k]] = v[list[k]]
    OBVIOUS
  <2> DEFINE p == list[k]
  <2>1. ASSUME NEW i \in 1 .. Len(h[p].operands)
        PROVE  u[h[p].operands[i]] = v[h[p].operands[i]]
    <3>1. PICK j \in 1 .. k - 1 : list[j] = h[p].operands[i]
      BY <1>1 DEF Ordered
    <3>2. j \in T /\ j \in 1 .. Len(list)
      BY <1>1, <1>2
    <3> QED BY <3>1, <3>2
  <2>2. operandValues(u, h, p) = operandValues(v, h, p)
    <3> HIDE DEF p
    <3> QED BY <2>1 DEF operandValues
  <2>3. p \in DOMAIN h
    BY <1>1
  <2> HIDE DEF p
  <2>4. u[p] = v[p]
    BY <2>2, <2>3 DEF Valuation
  <2> QED BY <2>4 DEF p
<1>3. Nat \subseteq T
  <2> HIDE DEF T
  <2> QED BY <1>2, Inherited
<1>4. \A p \in DOMAIN h : u[p] = v[p]
  BY <1>1, <1>3
<1> QED BY <1>4 DEF Valuation

\* An op of the same kind over operands of the same values has the same value.
LEMMA ValueKept ==
  ASSUME NEW g, NEW h, NEW v, NEW w, NEW p, g[p].kind = h[p].kind,
         g[p].operands = h[p].operands,
         \A i \in 1 .. Len(h[p].operands) : w[h[p].operands[i]] = v[h[p].operands[i]]
  PROVE  valueOf(g, p, operandValues(w, g, p)) = valueOf(h, p, operandValues(v, h, p))
<1>1. operandValues(w, g, p) = operandValues(v, h, p)
  BY DEF operandValues
<1> QED BY <1>1 DEF valueOf

-----------------------------------------------------------------------------
(* What is printed.                                                        *)

PrintOps(h) == {p \in DOMAIN h : h[p].kind = "Print"}

\* Selecting first what holds all of the set leaves the selection the same.
LEMMA KeptTwice ==
  ASSUME NEW S, NEW list \in Seq(S), NEW outer, NEW set, NEW mid \in Seq(S),
         Selects(mid, list, outer),
         \A k \in 1 .. Len(list) : list[k] \in set => list[k] \in outer
  PROVE  keep(mid, set) = keep(list, set)
<1> DEFINE a == keep(mid, set)
           b == keep(list, set)
<1>1. a \in Seq(S \cap set) /\ Selects(a, mid, set)
  BY KeepProperties
<1>2. b \in Seq(S \cap set) /\ Selects(b, list, set)
  BY KeepProperties
<1> HIDE DEF a, b
<1>3. a \in Seq(S) /\ a \in Seq(set) /\ b \in Seq(set)
  BY <1>1, <1>2
<1>4. Selects(a, list, set)
  BY <1>1, <1>3, SelectsTwice
<1>5. a = b
  BY <1>2, <1>3, <1>4, SelectsUnique
<1> QED BY <1>5 DEF a, b

\* Two functions with the same prints in the same order, of the same shapes
\* and values.
LEMMA SamePrints ==
  ASSUME NEW list, NEW h, IsFunction(list, h), NEW v, Valuation(v, h),
         NEW more, NEW g, IsFunction(more, g), NEW w, Valuation(w, g),
         PrintOps(g) = PrintOps(h), keep(more, PrintOps(h)) = keep(list, PrintOps(h)),
         \A p \in PrintOps(h) : g[p].shape = h[p].shape /\ w[p] = v[p]
  PROVE  interpretation(more, g) = interpretation(list, h)
<1>1. valuesOf(list, h) = v /\ valuesOf(more, g) = w
  BY ValuesAreValuation, ValuationUnique
<1> DEFINE shown == keep(list, PrintOps(h))
<1>2. printsOf(list, h) = shown /\ printsOf(more, g) = shown
  BY DEF printsOf, PrintOps
<1>3. shown \in Seq(DOMAIN h \cap PrintOps(h))
  BY KeepProperties DEF IsFunction, Lists
<1> HIDE DEF shown
<1>4. \A k \in 1 .. Len(shown) : shown[k] \in PrintOps(h)
  BY <1>3
<1>5. interpretation(list, h) =
        [k \in 1 .. Len(shown) |-> [shape |-> h[shown[k]].shape, value |-> v[shown[k]]]]
  BY <1>1, <1>2 DEF interpretation
<1>6. interpretation(more, g) =
        [k \in 1 .. Len(shown) |-> [shape |-> g[shown[k]].shape, value |-> w[shown[k]]]]
  BY <1>1, <1>2 DEF interpretation
<1> QED BY <1>4, <1>5, <1>6

-----------------------------------------------------------------------------
(* The passes.                                                             *)

LEMMA ApplyUnary ==
  ASSUME NEW kind, NEW args, Len(args) = 1
  PROVE  Apply(kind, args) = <<kind, 0, {<<1, args[1]>>}>>
BY DEF Apply

\* The values of at least two operands, and of the factors among them.
LEMMA FactorValues ==
  ASSUME NEW v, NEW h, NEW p, NEW n \in {2, 3}, Len(h[p].operands) = n
  PROVE  /\ Len(operandValues(v, h, p)) = n
         /\ \A i \in 1 .. n : operandValues(v, h, p)[i] = v[h[p].operands[i]]
         /\ SubSeq(operandValues(v, h, p), 1, 2)
              = <<v[h[p].operands[1]], v[h[p].operands[2]]>>
<1> DEFINE args == [i \in 1 .. n |-> v[h[p].operands[i]]]
<1>1. operandValues(v, h, p) = args
  BY DEF operandValues
<1>2. Len(args) = n /\ \A i \in 1 .. n : args[i] = v[h[p].operands[i]]
  OBVIOUS
<1>3. args[1] = v[h[p].operands[1]] /\ args[2] = v[h[p].operands[2]]
  OBVIOUS
<1>4. SubSeq(args, 1, 2) = <<args[1], args[2]>>
  <2> DEFINE S == {args[i] : i \in 1 .. n}
             pair == SubSeq(args, 1, 2)
  <2>1. args \in Seq(S)
    <3>1. \A i \in 1 .. n : args[i] \in S
      OBVIOUS
    <3> HIDE DEF S
    <3> QED BY <3>1
  <2>2. Len(args) = n /\ n >= 2
    OBVIOUS
  <2> HIDE DEF S, args
  <2>3. pair \in Seq(S) /\ Len(pair) = 2 /\ pair[1] = args[1] /\ pair[2] = args[2]
    BY <2>1, <2>2
  <2> HIDE DEF pair
  <2>4. pair = <<args[1], args[2]>>
    BY <2>3
  <2> QED BY <2>4 DEF pair
<1> HIDE DEF args
<1> QED BY <1>1, <1>2, <1>3, <1>4

\* A relu over a product, and the op it is fused into.
LEMMA FuseReluKeepsValue ==
  ASSUME NEW h, NEW g, NEW v, NEW op, NEW q, v[op] = valueOf(h, op, operandValues(v, h, op)),
         v[q] = valueOf(h, q, operandValues(v, h, q)),
         h[op].kind = "Relu", Len(h[op].operands) = 1, h[op].operands[1] = q,
         h[q].kind \in {"MatMul", "FusedMatMulAcc"},
         g[op].kind = "FusedMatMulRelu", g[op].operands = h[q].operands
  PROVE  valueOf(g, op, operandValues(v, g, op)) = v[op]
<1> DEFINE args == operandValues(v, h, q)
           one == operandValues(v, h, op)
<1>1. operandValues(v, g, op) = args
  BY DEF operandValues
<1>2. Len(one) = 1 /\ one[1] = v[q]
  BY DEF operandValues
<1> HIDE DEF args, one
<1>3. v[op] = Apply("Relu", one)
  BY DEF valueOf, LeafKinds, isMatMulFamily, one
<1>4. v[q] = matMulValue(h[q].kind, args)
  BY DEF valueOf, LeafKinds, isMatMulFamily, args
<1>5. matMulValue("FusedMatMulRelu", args) = Apply("Relu", <<v[q]>>)
  BY <1>4 DEF matMulValue
<1>6. Apply("Relu", <<v[q]>>) = Apply("Relu", one)
  <2> DEFINE x == v[q]
  <2>1. Len(<<x>>) = 1 /\ <<x>>[1] = x
    OBVIOUS
  <2>2. Apply("Relu", <<x>>) = <<"Relu", 0, {<<1, x>>}>>
    <3> DEFINE s == <<x>>
    <3>1. Len(s) = 1 /\ s[1] = x
      BY <2>1
    <3> HIDE DEF s
    <3>2. Apply("Relu", s) = <<"Relu", 0, {<<1, x>>}>>
      BY <3>1, ApplyUnary
    <3> QED BY <3>2 DEF s
  <2>3. Apply("Relu", one) = <<"Relu", 0, {<<1, x>>}>>
    BY <1>2, ApplyUnary
  <2> QED BY <2>2, <2>3
<1>7. valueOf(g, op, args) = matMulValue("FusedMatMulRelu", args)
  BY DEF valueOf, LeafKinds, isMatMulFamily
<1> QED BY <1>1, <1>3, <1>5, <1>6, <1>7

\* A sum with a product on one side, and the op it is fused into.
LEMMA FuseAccKeepsValue ==
  ASSUME NEW h, NEW g, NEW v, NEW op, NEW q, v[op] = valueOf(h, op, operandValues(v, h, op)),
         v[q] = valueOf(h, q, operandValues(v, h, q)), NEW side \in {1, 2},
         h[op].kind = "Add", Len(h[op].operands) = 2, h[op].operands[side] = q,
         h[q].kind = "MatMul", Len(h[q].operands) = 2,
         g[op].kind = "FusedMatMulAcc", Len(g[op].operands) = 3,
         g[op].operands[1] = h[q].operands[1], g[op].operands[2] = h[q].operands[2],
         g[op].operands[3] = h[op].operands[3 - side]
  PROVE  valueOf(g, op, operandValues(v, g, op)) = v[op]
<1> DEFINE args == operandValues(v, h, q)
           terms == operandValues(v, h, op)
           new == operandValues(v, g, op)
           other == v[h[op].operands[3 - side]]
<1>1. Len(args) = 2 /\ SubSeq(args, 1, 2) = <<v[h[q].operands[1]], v[h[q].operands[2]]>>
  BY FactorValues
<1>2. /\ Len(new) = 3 /\ SubSeq(new, 1, 2) = <<v[h[q].operands[1]], v[h[q].operands[2]]>>
      /\ new[3] = other
  BY FactorValues
<1>3. /\ \/ terms[1] = v[q] /\ terms[2] = other
         \/ terms[1] = other /\ terms[2] = v[q]
  BY FactorValues
<1> HIDE DEF args, terms, new, other
<1>4. v[op] = Sum(terms[1], terms[2])
  BY DEF valueOf, LeafKinds, isMatMulFamily, terms
<1>5. Sum(terms[1], terms[2]) = Sum(v[q], other)
  BY <1>3 DEF Sum
<1>6. v[q] = matMulValue("MatMul", args)
  BY DEF valueOf, LeafKinds, isMatMulFamily, args
<1>7. v[q] = Apply("MatMul", SubSeq(args, 1, 2))
  BY <1>1, <1>6 DEF matMulValue
<1>8. matMulValue("FusedMatMulAcc", new) = Sum(v[q], other)
  BY <1>1, <1>2, <1>7 DEF matMulValue
<1>9. valueOf(g, op, new) = matMulValue("FusedMatMulAcc", new)
  BY DEF valueOf, LeafKinds, isMatMulFamily
<1> QED BY <1>4, <1>5, <1>8, <1>9 DEF new

\* A pass that keeps the list, and with it a valuation, keeps the prints.
LEMMA SameListKeeps ==
  ASSUME FnInv, FnInv', ops' = ops, DOMAIN heap' = DOMAIN heap,
         \A p \in DOMAIN heap : heap'[p].shape = heap[p].shape,
         \A p \in DOMAIN heap : (heap'[p].kind = "Print") = (heap[p].kind = "Print"),
         NEW v, Valuation(v, heap), Valuation(v, heap')
  PROVE  interpret' = interpret
<1>1. IsFunction(ops, heap) /\ IsFunction(ops', heap')
  BY DEF FnInv
<1>2. PrintOps(heap') = PrintOps(heap)
  BY DEF PrintOps
<1>3. \A p \in PrintOps(heap) : heap'[p].shape = heap[p].shape
  BY DEF PrintOps
<1>4. interpretation(ops', heap') = interpretation(ops, heap)
  <2>1. keep(ops', PrintOps(heap)) = keep(ops, PrintOps(heap))
    OBVIOUS
  <2> QED BY <1>1, <1>2, <1>3, <2>1, SamePrints
<1> QED BY <1>4 DEF interpret

LEMMA FuseKeepsPrints == IRInv /\ Fuse => interpret' = interpret
<1> SUFFICES ASSUME IRInv, Fuse PROVE interpret' = interpret
  OBVIOUS
<1>1. FnInv /\ FnInv' /\ IsFunction(ops, heap)
  BY FuseKeepsIRInv DEF IRInv, FnInv
<1>2. CASE heap' = heap /\ ops' = ops
  BY <1>2 DEF interpret
<1>3. CASE FuseRelu \/ FuseAcc
  <2> DEFINE v == valuesOf(ops, heap)
  <2>1. Valuation(v, heap)
    BY <1>1, ValuesAreValuation
  <2> HIDE DEF v
  <2>2. stage = "fuse" /\ cursor <= Len(ops) /\ ops' = ops
    BY <1>3 DEF FuseRelu, FuseAcc, Fusing
  <2>3. /\ Current \in DOMAIN heap
        /\ \E producer \in DOMAIN heap :
             \/ /\ ReluAbsorbs /\ producer = Operand(Current, 1)
                /\ FusesTo(Current, "FusedMatMulRelu", producer, heap[producer].operands)
             \/ \E side \in {1, 2} :
                  /\ AddAbsorbs(side) /\ producer = Operand(Current, side)
                  /\ FusesTo(Current, "FusedMatMulAcc", producer,
                             heap[producer].operands \o <<Operand(Current, 3 - side)>>)
    BY <1>3, <2>2, FusionShape
  <2>4. PICK q \in DOMAIN heap :
          \/ /\ ReluAbsorbs /\ q = Operand(Current, 1)
             /\ FusesTo(Current, "FusedMatMulRelu", q, heap[q].operands)
          \/ \E side \in {1, 2} :
               /\ AddAbsorbs(side) /\ q = Operand(Current, side)
               /\ FusesTo(Current, "FusedMatMulAcc", q,
                          heap[q].operands \o <<Operand(Current, 3 - side)>>)
    BY <2>3
  <2> DEFINE op == Current
  <2>5. op \in DOMAIN heap
    BY <2>3
  <2>6. /\ v[op] = valueOf(heap, op, operandValues(v, heap, op))
        /\ v[q] = valueOf(heap, q, operandValues(v, heap, q))
    BY <2>1, <2>5 DEF Valuation
  <2>7. CASE ReluAbsorbs /\ q = Operand(op, 1)
             /\ FusesTo(op, "FusedMatMulRelu", q, heap[q].operands)
    <3>1. /\ heap[op].kind = "Relu" /\ heap[q].kind \in {"MatMul", "FusedMatMulAcc"}
          /\ heap[op].operands[1] = q
      BY <2>7 DEF ReluAbsorbs, Operand
    <3>2. Len(heap[op].operands) = 1
      BY <1>1, <2>5, <3>1, ArityOf DEF UnaryKinds
    <3>3. /\ DOMAIN heap' = DOMAIN heap
          /\ \A p \in DOMAIN heap :
               /\ heap'[p].shape = heap[p].shape
               /\ heap'[p].kind = IF p = op THEN "FusedMatMulRelu" ELSE heap[p].kind
               /\ heap'[p].operands = IF p = op THEN heap[q].operands ELSE heap[p].operands
      BY <2>7 DEF FusesTo
    <3> HIDE DEF op
    <3>4. heap'[op].kind = "FusedMatMulRelu" /\ heap'[op].operands = heap[q].operands
      BY <2>5, <3>3
    <3>5. valueOf(heap', op, operandValues(v, heap', op)) = v[op]
      BY <2>6, <3>1, <3>2, <3>4, FuseReluKeepsValue
    <3>6. ASSUME NEW p \in DOMAIN heap, p # op
          PROVE  valueOf(heap', p, operandValues(v, heap', p)) = v[p]
      <4>1. heap'[p].kind = heap[p].kind /\ heap'[p].operands = heap[p].operands
        BY <3>3, <3>6
      <4>2. valueOf(heap', p, operandValues(v, heap', p))
              = valueOf(heap, p, operandValues(v, heap, p))
        BY <4>1, ValueKept
      <4> QED BY <2>1, <4>2 DEF Valuation
    <3>7. Valuation(v, heap')
      BY <2>1, <3>3, <3>5, <3>6 DEF Valuation
    <3>8. \A p \in DOMAIN heap : (heap'[p].kind = "Print") = (heap[p].kind = "Print")
      BY <3>1, <3>3
    <3> QED BY <1>1, <2>1, <2>2, <3>3, <3>7, <3>8, SameListKeeps
  <2>8. ASSUME NEW side \in {1, 2}, AddAbsorbs(side), q = Operand(op, side),
               FusesTo(op, "FusedMatMulAcc", q, heap[q].operands \o <<Operand(op, 3 - side)>>)
        PROVE  interpret' = interpret
    <3> DEFINE new == heap[q].operands \o <<Operand(op, 3 - side)>>
    <3>1. /\ heap[op].kind = "Add" /\ heap[q].kind = "MatMul" /\ heap[op].operands[side] = q
      BY <2>8 DEF AddAbsorbs, Operand
    <3>2. /\ Len(heap[op].operands) = 2 /\ Len(heap[q].operands) = 2
          /\ heap[op].operands[3 - side] \in Pointer /\ heap[q].operands \in Seq(Pointer)
      <4>1. Len(heap[op].operands) = 2 /\ Len(heap[q].operands) = 2
        BY <1>1, <2>5, <3>1, ArityOf
      <4>2. heap[op].operands \in Seq(Pointer) /\ heap[q].operands \in Seq(Pointer)
        BY <1>1, <2>5, FnFacts DEF OpRecord
      <4>3. 3 - side \in 1 .. Len(heap[op].operands)
        BY <4>1
      <4> QED BY <4>1, <4>2, <4>3
    <3>3. /\ DOMAIN heap' = DOMAIN heap
          /\ \A p \in DOMAIN heap :
               /\ heap'[p].shape = heap[p].shape
               /\ heap'[p].kind = IF p = op THEN "FusedMatMulAcc" ELSE heap[p].kind
               /\ heap'[p].operands = IF p = op THEN new ELSE heap[p].operands
      BY <2>8 DEF FusesTo
    <3>4. /\ Len(new) = 3 /\ new[1] = heap[q].operands[1] /\ new[2] = heap[q].operands[2]
          /\ new[3] = heap[op].operands[3 - side]
      BY <3>2, FactorsAndBias DEF Operand
    <3> HIDE DEF op, new
    <3>5. heap'[op].kind = "FusedMatMulAcc" /\ heap'[op].operands = new
      BY <2>5, <3>3
    <3>6. valueOf(heap', op, operandValues(v, heap', op)) = v[op]
      BY <2>6, <3>1, <3>2, <3>4, <3>5, FuseAccKeepsValue
    <3>7. ASSUME NEW p \in DOMAIN heap, p # op
          PROVE  valueOf(heap', p, operandValues(v, heap', p)) = v[p]
      <4>1. heap'[p].kind = heap[p].kind /\ heap'[p].operands = heap[p].operands
        BY <3>3, <3>7
      <4>2. valueOf(heap', p, operandValues(v, heap', p))
              = valueOf(heap, p, operandValues(v, heap, p))
        BY <4>1, ValueKept
      <4> QED BY <2>1, <4>2 DEF Valuation
    <3>8. Valuation(v, heap')
      BY <2>1, <3>3, <3>6, <3>7 DEF Valuation
    <3>9. \A p \in DOMAIN heap : (heap'[p].kind = "Print") = (heap[p].kind = "Print")
      BY <3>1, <3>3
    <3> QED BY <1>1, <2>1, <2>2, <3>3, <3>8, <3>9, SameListKeeps
  <2> QED BY <2>4, <2>7, <2>8
<1> QED BY <1>2, <1>3 DEF Fuse, KeepOp, FinishFusion, Fusing, fn

\* Elimination drops no print, and nothing a kept op reads.
LEMMA PruneKeepsPrints == IRInv /\ Prune => interpret' = interpret
<1> SUFFICES ASSUME IRInv, Prune PROVE interpret' = interpret
  OBVIOUS
<1>1. CASE Mark
  BY <1>1 DEF Mark, fn, interpret
<1>2. CASE Erase
  <2>1. /\ FnInv' /\ DOMAIN heap' = live /\ live \subseteq DOMAIN heap
        /\ \A p \in live : SameOp(heap'[p], heap[p])
        /\ \A p \in live : \A i \in 1 .. Len(heap[p].operands) : heap[p].operands[i] \in live
    BY <1>2, EraseEffect
  <2>2. FnInv /\ IsFunction(ops, heap) /\ IsFunction(ops', heap') /\ ops' = keep(ops, live)
        /\ ops \in Seq(DOMAIN heap)
    BY <1>2, <2>1 DEF IRInv, FnInv, IsFunction, Lists, Erase
  <2>3. \A p \in PrintOps(heap) : p \in live
    <3> SUFFICES ASSUME NEW p \in PrintOps(heap) PROVE p \in live
      OBVIOUS
    <3>1. PICK k \in 1 .. Len(ops) : ops[k] = p
      BY <2>2, FnFacts DEF PrintOps
    <3>2. MarkedInv /\ cursor = 0 /\ Len(ops) \in Nat
      BY <1>2, <2>2, FnFacts DEF IRInv, Erase
    <3>3. k \in cursor + 1 .. Len(ops)
      BY <3>2
    <3> QED BY <3>1, <3>2, <3>3 DEF MarkedInv, PrintOps
  <2> DEFINE v == valuesOf(ops, heap)
             w == [p \in live |-> v[p]]
  <2>4. Valuation(v, heap)
    BY <2>2, ValuesAreValuation
  <2> HIDE DEF v
  <2>5. ASSUME NEW p \in live
        PROVE  w[p] = valueOf(heap', p, operandValues(w, heap', p))
    <3>1. heap'[p].kind = heap[p].kind /\ heap'[p].operands = heap[p].operands
      BY <2>1 DEF SameOp
    <3>2. \A i \in 1 .. Len(heap[p].operands) : w[heap[p].operands[i]] = v[heap[p].operands[i]]
      BY <2>1
    <3>3. w[p] = v[p] /\ p \in DOMAIN heap
      BY <2>1
    <3> HIDE DEF w
    <3>4. valueOf(heap', p, operandValues(w, heap', p))
            = valueOf(heap, p, operandValues(v, heap, p))
      BY <3>1, <3>2, ValueKept
    <3> QED BY <2>4, <3>3, <3>4 DEF Valuation
  <2>6. Valuation(w, heap')
    BY <2>1, <2>5 DEF Valuation
  <2>7. PrintOps(heap') = PrintOps(heap)
    BY <2>1, <2>3 DEF PrintOps, SameOp
  <2>8. keep(ops', PrintOps(heap)) = keep(ops, PrintOps(heap))
    <3> DEFINE P == PrintOps(heap)
               S == DOMAIN heap
               mid == keep(ops, live)
    <3>1. mid \in Seq(S \cap live) /\ Selects(mid, ops, live)
      BY <2>2, KeepProperties
    <3> HIDE DEF mid, S, P
    <3>2. mid \in Seq(S) /\ ops \in Seq(S)
      BY <2>2, <3>1 DEF S
    <3>3. \A k \in 1 .. Len(ops) : ops[k] \in P => ops[k] \in live
      BY <2>3 DEF P
    <3>4. keep(mid, P) = keep(ops, P)
      BY <3>1, <3>2, <3>3, KeptTwice
    <3> QED BY <2>2, <3>4 DEF mid, P
  <2>9. \A p \in PrintOps(heap) : heap'[p].shape = heap[p].shape /\ w[p] = v[p]
    BY <2>1, <2>3 DEF SameOp
  <2> HIDE DEF w
  <2>10. interpretation(ops', heap') = interpretation(ops, heap)
    BY <2>2, <2>4, <2>6, <2>7, <2>8, <2>9, SamePrints
  <2> QED BY <2>10 DEF interpret
<1> QED BY <1>1, <1>2 DEF Prune

\* A product that is tiled has the value of one that is not.
LEMMA VisitKeepsPrints == IRInv /\ VisitConsumer => interpret' = interpret
<1> SUFFICES ASSUME IRInv, VisitConsumer PROVE interpret' = interpret
  OBVIOUS
<1>1. /\ FnInv /\ FnInv' /\ ops' = ops /\ DOMAIN heap' = DOMAIN heap
      /\ \A p \in DOMAIN heap :
           /\ heap'[p].shape = heap[p].shape /\ heap'[p].operands = heap[p].operands
           /\ \/ heap'[p].kind = heap[p].kind
              \/ heap[p].kind = "MatMul" /\ heap'[p].kind = "TiledMatMul"
  BY VisitEffect DEF IRInv
<1> DEFINE v == valuesOf(ops, heap)
<1>2. Valuation(v, heap)
  BY <1>1, ValuesAreValuation DEF FnInv
<1> HIDE DEF v
<1>3. ASSUME NEW p \in DOMAIN heap
      PROVE  valueOf(heap', p, operandValues(v, heap', p)) = v[p]
  <2>1. v[p] = valueOf(heap, p, operandValues(v, heap, p))
    BY <1>2 DEF Valuation
  <2>2. CASE heap'[p].kind = heap[p].kind
    <3>1. valueOf(heap', p, operandValues(v, heap', p))
            = valueOf(heap, p, operandValues(v, heap, p))
      BY <1>1, <2>2, ValueKept
    <3> QED BY <2>1, <3>1
  <2>3. CASE heap[p].kind = "MatMul" /\ heap'[p].kind = "TiledMatMul"
    <3> DEFINE args == operandValues(v, heap, p)
    <3>1. operandValues(v, heap', p) = args
      BY <1>1 DEF operandValues
    <3> HIDE DEF args
    <3>2. valueOf(heap, p, args) = matMulValue("MatMul", args)
      BY <2>3 DEF valueOf, LeafKinds, isMatMulFamily
    <3>3. valueOf(heap', p, args) = matMulValue("TiledMatMul", args)
      BY <2>3 DEF valueOf, LeafKinds, isMatMulFamily
    <3>4. matMulValue("TiledMatMul", args) = matMulValue("MatMul", args)
      BY DEF matMulValue
    <3> QED BY <2>1, <3>1, <3>2, <3>3, <3>4 DEF args
  <2> QED BY <1>1, <2>2, <2>3
<1>4. Valuation(v, heap')
  BY <1>1, <1>2, <1>3 DEF Valuation
<1>5. /\ \A p \in DOMAIN heap : heap'[p].shape = heap[p].shape
      /\ \A p \in DOMAIN heap : (heap'[p].kind = "Print") = (heap[p].kind = "Print")
  BY <1>1
<1> QED BY <1>1, <1>2, <1>4, <1>5, SameListKeeps

\* Of a list with two ops inserted the old ones are a selection.
LEMMA InsertionSelects ==
  ASSUME NEW S, NEW list \in Seq(S), NEW n \in 1 .. Len(list), NEW a, NEW b, NEW more,
         IsInsertion(more, list, n, a, b), a \notin S, b \notin S
  PROVE  Selects(list, more, S)
<1> DEFINE f == [k \in 1 .. Len(list) |-> IF k < n THEN k ELSE k + 2]
<1>1. Len(list) \in Nat /\ Len(more) = Len(list) + 2
  BY DEF IsInsertion
<1>2. /\ \A k \in 1 .. n - 1 : more[k] = list[k]
      /\ more[n] = a /\ more[n + 1] = b
      /\ \A k \in n .. Len(list) : more[k + 2] = list[k]
  BY DEF IsInsertion
<1>3. \A k \in 1 .. Len(list) : f[k] = IF k < n THEN k ELSE k + 2
  OBVIOUS
<1>4. f \in [1 .. Len(list) -> 1 .. Len(more)]
  BY <1>1
<1> HIDE DEF f
<1>5. \A k \in 1 .. Len(list) : list[k] = more[f[k]]
  <2> SUFFICES ASSUME NEW k \in 1 .. Len(list) PROVE list[k] = more[f[k]]
    OBVIOUS
  <2>1. CASE k < n
    BY <1>1, <1>2, <1>3, <2>1
  <2>2. CASE ~(k < n)
    <3>1. k \in n .. Len(list) /\ f[k] = k + 2
      BY <1>1, <1>3, <2>2
    <3> QED BY <1>2, <3>1
  <2> QED BY <2>1, <2>2
<1>6. \A j, k \in 1 .. Len(list) : j < k => f[j] < f[k]
  BY <1>1, <1>3
<1>7. ASSUME NEW k \in 1 .. Len(more), more[k] \in S
      PROVE  \E j \in 1 .. Len(list) : f[j] = k
  <2>1. k # n /\ k # n + 1
    BY <1>2, <1>7
  <2>2. CASE k < n
    <3>1. k \in 1 .. Len(list) /\ f[k] = k
      BY <1>1, <1>3, <2>2
    <3> QED BY <3>1
  <2>3. CASE ~(k < n)
    <3>1. k - 2 \in 1 .. Len(list) /\ ~(k - 2 < n) /\ (k - 2) + 2 = k
      BY <1>1, <2>1, <2>3
    <3>2. f[k - 2] = k
      BY <1>3, <3>1
    <3> QED BY <3>1, <3>2
  <2> QED BY <2>2, <2>3
<1> QED BY <1>4, <1>5, <1>6, <1>7 DEF Selects

\* The copy in the scratchpad has the value of the operand.
LEMMA StageKeepsPrints == IRInv /\ StageOperand => interpret' = interpret
<1> SUFFICES ASSUME IRInv, StageOperand PROVE interpret' = interpret
  OBVIOUS
<1>1. FnInv /\ FnInv' /\ \E c \in cands, n \in 1 .. Len(ops), store, load \in Pointer :
        Stages(c, n, store, load)
  BY StageEffect DEF IRInv
<1>2. PICK c \in cands, n \in 1 .. Len(ops), store \in Pointer, load \in Pointer :
        Stages(c, n, store, load)
  BY <1>1
<1> DEFINE at == c.operandIndex
           from == heap[owner].operands[at]
<1>3. /\ at \in 1 .. Len(heap[owner].operands) /\ owner = ops[n]
      /\ store \notin DOMAIN heap /\ load \notin DOMAIN heap /\ store # load
      /\ DOMAIN heap' = DOMAIN heap \cup {store, load}
      /\ \A p \in DOMAIN heap :
           /\ heap'[p].kind = heap[p].kind /\ heap'[p].shape = heap[p].shape
           /\ heap'[p].operands = IF p = owner
                                  THEN [heap[p].operands EXCEPT ![at] = load]
                                  ELSE heap[p].operands
  BY <1>2 DEF Stages
<1>4. /\ ops \in Seq(DOMAIN heap) /\ Len(ops) \in Nat /\ owner \in DOMAIN heap
      /\ \A p \in DOMAIN heap : \A i \in 1 .. Len(heap[p].operands) :
           heap[p].operands[i] \in DOMAIN heap
      /\ \A p \in DOMAIN heap : heap[p].operands \in Seq(DOMAIN heap)
      /\ IsFunction(ops, heap) /\ IsFunction(ops', heap')
  BY <1>1, <1>3, FnFacts DEF FnInv, IsFunction, Lists
<1>5. /\ heap'[store].kind = "ScratchStore" /\ heap'[store].operands = <<from>>
      /\ heap'[load].kind = "ScratchLoad" /\ heap'[load].operands = <<store>>
  BY <1>2 DEF Stages, SameOp, storeFor, newOp, Operand
<1>one. ASSUME NEW x, NEW q \in Pointer, heap'[q].operands = <<x>>
        PROVE  Len(heap'[q].operands) = 1 /\ heap'[q].operands[1] = x
  <2>1. Len(<<x>>) = 1 /\ <<x>>[1] = x
    OBVIOUS
  <2> QED BY <1>one, <2>1
<1>stored. Len(heap'[store].operands) = 1 /\ heap'[store].operands[1] = from
  <2> DEFINE x == from
  <2>1. heap'[store].operands = <<x>>
    BY <1>5
  <2> HIDE DEF x
  <2>2. Len(heap'[store].operands) = 1 /\ heap'[store].operands[1] = x
    BY <1>one, <2>1
  <2> QED BY <2>2 DEF x
<1>loaded. Len(heap'[load].operands) = 1 /\ heap'[load].operands[1] = store
  BY <1>5, <1>one
<1>6. from \in DOMAIN heap
  BY <1>3, <1>4
<1> HIDE DEF at
<1>reads. ASSUME NEW p \in DOMAIN heap
          PROVE  /\ Len(heap'[p].operands) = Len(heap[p].operands)
                 /\ \A i \in 1 .. Len(heap[p].operands) :
                      heap'[p].operands[i] = IF p = owner /\ i = at
                                             THEN load ELSE heap[p].operands[i]
  <2>1. CASE p = owner
    <3> DEFINE s == heap[p].operands
    <3>1. s \in Seq(DOMAIN heap)
      BY <1>4
    <3>2. heap'[p].operands = [s EXCEPT ![at] = load]
      BY <1>3, <2>1
    <3> HIDE DEF s
    <3>3. /\ Len([s EXCEPT ![at] = load]) = Len(s)
          /\ \A i \in 1 .. Len(s) : [s EXCEPT ![at] = load][i] = IF i = at THEN load ELSE s[i]
      BY <3>1
    <3>4. /\ Len(heap'[p].operands) = Len(s)
          /\ \A i \in 1 .. Len(s) : heap'[p].operands[i] = IF i = at THEN load ELSE s[i]
      BY <3>2, <3>3
    <3> QED BY <2>1, <3>4 DEF s
  <2>2. CASE p # owner
    <3>1. heap'[p].operands = heap[p].operands
      BY <1>3, <2>2
    <3> QED BY <2>2, <3>1
  <2> QED BY <2>1, <2>2
<1>isFrom. from = heap[owner].operands[at]
  OBVIOUS
<1> HIDE DEF from
<1> DEFINE v == valuesOf(ops, heap)
           w == [p \in DOMAIN heap' |-> IF p \in DOMAIN heap THEN v[p] ELSE v[from]]
<1>7. Valuation(v, heap)
  BY <1>4, ValuesAreValuation
<1> HIDE DEF v
<1>8. /\ \A p \in DOMAIN heap : w[p] = v[p]
      /\ w[store] = v[from] /\ w[load] = v[from] /\ w[from] = v[from]
      /\ w = [p \in DOMAIN heap' |-> w[p]]
  BY <1>3, <1>6
<1> HIDE DEF w
<1>9. ASSUME NEW p \in {store, load}
      PROVE  valueOf(heap', p, operandValues(w, heap', p)) = v[from]
  <2> DEFINE args == operandValues(w, heap', p)
  <2>1. args = <<v[from]>>
    <3>1. CASE p = store
      <4>1. Len(heap'[p].operands) = 1 /\ heap'[p].operands[1] = from
        BY <1>stored, <3>1
      <4> QED BY <1>8, <4>1 DEF operandValues
    <3>2. CASE p = load
      <4>1. Len(heap'[p].operands) = 1 /\ heap'[p].operands[1] = store
        BY <1>loaded, <3>2
      <4> QED BY <1>8, <4>1 DEF operandValues
    <3> QED BY <3>1, <3>2
  <2> HIDE DEF args
  <2>2. args[1] = v[from]
    BY <2>1
  <2>3. heap'[p].kind \in {"ScratchStore", "ScratchLoad"}
    BY <1>5
  <2>4. valueOf(heap', p, args) = args[1]
    BY <2>3 DEF valueOf, LeafKinds, isMatMulFamily
  <2> QED BY <2>2, <2>4 DEF args
<1>10. ASSUME NEW p \in DOMAIN heap
       PROVE  valueOf(heap', p, operandValues(w, heap', p)) = v[p]
  <2>1. Len(heap'[p].operands) = Len(heap[p].operands)
    BY <1>reads
  <2>2. ASSUME NEW i \in 1 .. Len(heap[p].operands)
        PROVE  w[heap'[p].operands[i]] = v[heap[p].operands[i]]
    <3>1. CASE p = owner /\ i = at
      <4>1. heap'[p].operands[i] = load
        BY <1>reads, <3>1
      <4>2. heap[p].operands[i] = from
        BY <1>isFrom, <3>1
      <4> QED BY <1>8, <4>1, <4>2
    <3>2. CASE ~(p = owner /\ i = at)
      <4>1. heap'[p].operands[i] = heap[p].operands[i]
        BY <1>reads, <3>2
      <4> DEFINE q == heap[p].operands[i]
      <4>2. q \in DOMAIN heap
        BY <1>4
      <4> HIDE DEF q
      <4>3. w[q] = v[q]
        BY <1>8, <4>2
      <4> QED BY <4>1, <4>3 DEF q
    <3> QED BY <3>1, <3>2
  <2>3. operandValues(w, heap', p) = operandValues(v, heap, p)
    BY <2>1, <2>2 DEF operandValues
  <2>4. heap'[p].kind = heap[p].kind
    BY <1>3
  <2>5. valueOf(heap', p, operandValues(v, heap, p)) = valueOf(heap, p, operandValues(v, heap, p))
    BY <2>4 DEF valueOf
  <2> QED BY <1>7, <2>3, <2>5 DEF Valuation
<1>11. Valuation(w, heap')
  <2>1. \A p \in DOMAIN heap' : w[p] = valueOf(heap', p, operandValues(w, heap', p))
    BY <1>3, <1>8, <1>9, <1>10
  <2> QED BY <1>8, <2>1 DEF Valuation
<1>12. PrintOps(heap') = PrintOps(heap)
  <2>1. \A p \in DOMAIN heap' : heap'[p].kind = "Print" <=> p \in DOMAIN heap /\ heap[p].kind = "Print"
    BY <1>3, <1>5
  <2> QED BY <1>3, <2>1 DEF PrintOps
<1>13. keep(ops', PrintOps(heap)) = keep(ops, PrintOps(heap))
  <2> DEFINE P == PrintOps(heap)
             S == DOMAIN heap'
             old == DOMAIN heap
  <2>1. ops \in Seq(old) /\ ops \in Seq(S) /\ store \in S /\ load \in S
    BY <1>3, <1>4
  <2>2. ops' = Insert(ops, n, store, load)
    BY <1>2 DEF Stages
  <2>3. \A p \in P : p \in old
    BY DEF PrintOps
  <2>4. store \notin old /\ load \notin old
    BY <1>3
  <2> HIDE DEF P, S, old
  <2>5. ops' \in Seq(S) /\ IsInsertion(ops', ops, n, store, load)
    BY <2>1, <2>2, InsertProperties
  <2>6. Selects(ops, ops', old)
    BY <2>1, <2>4, <2>5, InsertionSelects
  <2>7. \A k \in 1 .. Len(ops') : ops'[k] \in P => ops'[k] \in old
    BY <2>3
  <2>8. keep(ops, P) = keep(ops', P)
    BY <2>1, <2>5, <2>6, <2>7, KeptTwice
  <2> QED BY <2>8 DEF P
<1>14. \A p \in PrintOps(heap) : heap'[p].shape = heap[p].shape /\ w[p] = v[p]
  BY <1>3, <1>8 DEF PrintOps
<1>15. interpretation(ops', heap') = interpretation(ops, heap)
  BY <1>4, <1>7, <1>11, <1>12, <1>13, <1>14, SamePrints
<1> QED BY <1>15 DEF interpret

-----------------------------------------------------------------------------
LEMMA PrintsStep == IRInv /\ PrintsPreserved /\ [Next]_vars => PrintsPreserved'
<1> SUFFICES ASSUME IRInv, PrintsPreserved, [Next]_vars PROVE PrintsPreserved'
  OBVIOUS
<1>1. ASSUME interpret' = interpret, meaning' = meaning, stage' = "lower" \/ stage # "lower"
      PROVE  PrintsPreserved'
  BY <1>1 DEF PrintsPreserved
<1>2. CASE UNCHANGED vars
  BY <1>1, <1>2 DEF vars, fn, interpret
<1>3. CASE Lower
  <2>1. CASE FinishLowering
    <3>1. interpret' = interpret /\ meaning' = interpret
      BY <2>1 DEF FinishLowering, fn, interpret
    <3> QED BY <3>1 DEF PrintsPreserved
  <2>2. CASE ~FinishLowering
    <3>1. stage' = "lower"
      BY <1>3, <2>2 DEF Lower, LowerLeaf, LowerUnary, LowerBinary, LowerPrint, Lowering
    <3> QED BY <3>1 DEF PrintsPreserved
  <2> QED BY <2>1, <2>2
<1>4. CASE Fuse
  <2>1. stage = "fuse" /\ meaning' = meaning
    BY <1>4 DEF Fuse, FuseRelu, FuseAcc, KeepOp, FinishFusion, Fusing
  <2> QED BY <1>1, <1>4, <2>1, FuseKeepsPrints
<1>5. CASE Prune
  <2>1. stage = "mark" /\ meaning' = meaning
    BY <1>5 DEF Prune, Mark, Erase
  <2> QED BY <1>1, <1>5, <2>1, PruneKeepsPrints
<1>6. CASE Tile
  <2>1. stage = "tile" /\ meaning' = meaning
    BY <1>6 DEF Tile, VisitConsumer, StageOperand, SkipOperand, LeaveConsumer, FinishTiling, Tiling
  <2>2. interpret' = interpret
    <3>1. CASE SkipOperand \/ LeaveConsumer \/ FinishTiling
      BY <3>1 DEF SkipOperand, LeaveConsumer, FinishTiling, fn, interpret
    <3> QED BY <1>6, <3>1, VisitKeepsPrints, StageKeepsPrints DEF Tile
  <2> QED BY <1>1, <2>1, <2>2
<1>7. CASE Compiled
  BY <1>2, <1>7 DEF Compiled
<1> QED BY <1>2, <1>3, <1>4, <1>5, <1>6, <1>7 DEF Next

\* No step of any pass changes what the program prints, in value, shape or
\* order (docs/tensor-ir.md:131-132), for any program and configuration.
THEOREM PrintsPreservedHolds == Spec => []PrintsPreserved
<1>1. Init => PrintsPreserved
  BY DEF Init, PrintsPreserved
<1> QED BY <1>1, PrintsStep, IRInvariant, PTL DEF Spec

=============================================================================
