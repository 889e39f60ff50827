---------------------------- MODULE SnapCowProofs ---------------------------
(***************************************************************************)
(* Proofs about SnapCow, for any number of blocks, writes and reads.       *)
(*                                                                         *)
(* The types and the reference counts hold whatever the sizes of bios and  *)
(* clones are.  That the old content is kept needs the clones of a block   *)
(* to stay in order, which bio_queue_dequeue_delay_read() does if a clone  *)
(* is of one block, or if nobody reads the snapshot: KeepsOrder.           *)
(***************************************************************************)
EXTENDS SnapCow, FiniteSetTheorems, SequenceTheorems, WellFoundedInduction, TLAPS

KeepsOrder == MaxClone = 1 \/ Reads = {}

-----------------------------------------------------------------------------
(* The inductive invariant.                                                *)

ReadBio == [w : Writes, lo : Blocks, hi : Blocks]

\* The clones of a write are told apart by where they start, and start below
\* what is not yet cloned: none is made twice, and none is lost in the set.
ClonesApart ==
  /\ \A i, j \in DOMAIN read_bios :
       read_bios[i].w = read_bios[j].w /\ read_bios[i].lo = read_bios[j].lo => i = j
  /\ \A c, d \in clones : c.w = d.w /\ c.lo = d.lo => c = d
  /\ \A i \in DOMAIN read_bios, c \in clones :
       ~(read_bios[i].w = c.w /\ read_bios[i].lo = c.lo)
  /\ \A i \in DOMAIN read_bios : read_bios[i].lo < wbio[read_bios[i].w].next
  /\ \A c \in clones : c.lo < wbio[c.w].next

\* A write that is not with the tracer has no references; sd_orig_bios has
\* the writes that wait for snap_mrf_thread, each once.
WritesReleasedOnce ==
  /\ \A w \in Writes : wstate[w] \in {"new", "queued", "issued", "done"} => refs[w] = 0
  /\ \A i \in DOMAIN orig_bios : wstate[orig_bios[i]] = "queued"
  /\ \A i, j \in DOMAIN orig_bios : orig_bios[i] = orig_bios[j] => i = j

RefInv == TypeOK /\ IsFiniteSet(clones) /\ RefsAreExact /\ ClonesApart /\ WritesReleasedOnce

\* Safe(b), for a queue and a COW file.
GoodIn(q, i, b) == q[i].dir = "W" /\ b \in Interval(q[i]) /\ q[i].content[b] = Old

SafeIn(q, s, b) ==
  \/ s[b] = Old
  \/ /\ s[b] = None
     /\ \E i \in 1 .. Len(q) :
          /\ GoodIn(q, i, b)
          /\ \A j \in 1 .. (i - 1) : q[j].dir = "W" /\ b \in Interval(q[j]) => GoodIn(q, j, b)

\* A clone of b for w is still to come to the COW thread.
Awaited(w, b) ==
  \/ \E i \in DOMAIN read_bios : read_bios[i].w = w /\ b \in Interval(read_bios[i])
  \/ \E c \in clones : c.w = w /\ c.at # "captured" /\ b \in Interval(c)

\* Bios are of at most MaxClone blocks on their way to the COW file, and only
\* readers make bios that are not writes.
SizesInv ==
  /\ \A i \in DOMAIN read_bios : read_bios[i].hi < read_bios[i].lo + MaxClone
  /\ \A c \in clones : c.hi < c.lo + MaxClone
  /\ \A i \in DOMAIN cow_bios :
       /\ cow_bios[i].dir = "W" => cow_bios[i].hi < cow_bios[i].lo + MaxClone
       /\ cow_bios[i].dir = "R" => cow_bios[i].id \in Reads

\* Writes are issued only with all of their blocks cloned.
WholeCloned ==
  \A w \in Writes : wstate[w] \in {"deferred", "queued", "issued", "done"} =>
                     wbio[w].next > wbio[w].hi

\* What was cloned is awaited or safe.
ClonedKept ==
  \A w \in Writes, b \in Blocks :
    wstate[w] # "new" /\ b \in Interval(wbio[w]) /\ b < wbio[w].next =>
      Awaited(w, b) \/ SafeIn(cow_bios, stored, b)

\* Whatever was read after the old content had gone finds that content safe.
ReadKept ==
  \A c \in clones, b \in Blocks :
    c.at # "sent" /\ b \in Interval(c) =>
      c.content[b] = Old \/ SafeIn(cow_bios, stored, b)

QueueKept ==
  \A i \in DOMAIN cow_bios, b \in Blocks :
    cow_bios[i].dir = "W" /\ b \in Interval(cow_bios[i]) =>
      cow_bios[i].content[b] = Old \/ SafeIn(cow_bios, stored, b)

StoredOld == \A b \in Blocks : stored[b] \in {None, Old}

KeptInv == WholeCloned /\ ClonedKept /\ ReadKept /\ QueueKept /\ StoredOld

\* What is on the disk was put there by a write that is done.
DiskInv ==
  \A b \in Blocks : disk[b] # Old => wstate[disk[b]] = "done" /\ b \in Interval(wbio[disk[b]])

DataInv == SizesInv /\ DiskInv /\ (is_failed => fail) /\ (~fail => KeptInv)

\* Where freezing drains the writes, nothing moves once tracing has stopped.
StopInv ==
  FreezeDrains =>
    /\ teardown # "up" => Held = {} /\ read_bios = <<>> /\ clones = {}
    /\ cow_pc \in {"empty", "gone"} => teardown # "up" /\ cow_bios = <<>>

-----------------------------------------------------------------------------
(* Counting the clones of a write.                                         *)

PendIn(q, w) == {i \in 1 .. Len(q) : q[i].w = w}
OutIn(C, w) == {c \in C : c.w = w}

LEMMA PendFinite ==
  ASSUME NEW q \in Seq(ReadBio), NEW w
  PROVE  IsFiniteSet(PendIn(q, w)) /\ Cardinality(PendIn(q, w)) \in Nat
<1>1. Len(q) \in Nat
  BY LenProperties
<1>2. IsFiniteSet(1 .. Len(q)) /\ PendIn(q, w) \in SUBSET (1 .. Len(q))
  BY <1>1, FS_Interval DEF PendIn
<1>3. IsFiniteSet(PendIn(q, w))
  BY <1>2, FS_Subset
<1>. QED
  BY <1>3, FS_CardinalityType

LEMMA OutFinite ==
  ASSUME NEW C, IsFiniteSet(C), NEW w
  PROVE  IsFiniteSet(OutIn(C, w)) /\ Cardinality(OutIn(C, w)) \in Nat
<1>1. OutIn(C, w) \in SUBSET C
  BY DEF OutIn
<1>2. IsFiniteSet(OutIn(C, w))
  BY <1>1, FS_Subset
<1>. QED
  BY <1>2, FS_CardinalityType

LEMMA PendAppend ==
  ASSUME NEW q \in Seq(ReadBio), NEW e \in ReadBio, NEW w
  PROVE  Cardinality(PendIn(Append(q, e), w))
           = IF e.w = w THEN Cardinality(PendIn(q, w)) + 1 ELSE Cardinality(PendIn(q, w))
<1>. DEFINE p == Append(q, e)
            n == Len(q) + 1
<1>1. Len(q) \in Nat
  BY LenProperties
<1>2. Len(p) = n /\ p[n] = e /\ \A i \in 1 .. Len(q) : p[i] = q[i]
  BY <1>1, AppendProperties
<1>3. 1 .. n = (1 .. Len(q)) \cup {n} /\ n \notin 1 .. Len(q)
  BY <1>1
<1>4. IsFiniteSet(PendIn(q, w)) /\ Cardinality(PendIn(q, w)) \in Nat
  BY PendFinite
<1>. HIDE DEF p, n
<1>5. CASE e.w = w
  <2>1. PendIn(p, w) = PendIn(q, w) \cup {n} /\ n \notin PendIn(q, w)
    BY <1>2, <1>3, <1>5 DEF PendIn
  <2>. QED
    BY <1>4, <1>5, <2>1, FS_AddElement DEF p
<1>6. CASE e.w # w
  <2>1. PendIn(p, w) = PendIn(q, w)
    BY <1>2, <1>3, <1>6 DEF PendIn
  <2>. QED
    BY <1>6, <2>1 DEF p
<1>. QED
  BY <1>5, <1>6

LEMMA PendTail ==
  ASSUME NEW q \in Seq(ReadBio), q # <<>>, NEW w
  PROVE  Cardinality(PendIn(q, w))
           = IF q[1].w = w THEN Cardinality(PendIn(Tail(q), w)) + 1
             ELSE Cardinality(PendIn(Tail(q), w))
<1>. DEFINE t == Tail(q)
            A == PendIn(t, w)
            B == PendIn(q, w) \ {1}
            f == [i \in A |-> i + 1]
<1>1. Len(q) \in Nat \ {0}
  BY LenProperties, EmptySeq
<1>2. t \in Seq(ReadBio) /\ Len(t) = Len(q) - 1 /\ \A i \in 1 .. Len(q) - 1 : t[i] = q[i + 1]
  BY <1>1, HeadTailProperties
<1>. HIDE DEF t
<1>3. \A i \in A : i \in 1 .. Len(q) - 1 /\ q[i + 1].w = w
  BY <1>2 DEF PendIn
<1>4. \A i \in A : i + 1 \in B
  BY <1>1, <1>3 DEF PendIn
<1>5. \A j \in B : j - 1 \in A /\ j = (j - 1) + 1 /\ j \in Nat
  <2>. TAKE j \in B
  <2>1. j \in 2 .. Len(q) /\ q[j].w = w
    BY <1>1 DEF PendIn
  <2>2. j - 1 \in 1 .. Len(q) - 1 /\ (j - 1) + 1 = j
    BY <1>1, <2>1
  <2>3. t[j - 1] = q[j]
    BY <1>2, <2>2
  <2>. QED
    BY <1>2, <2>1, <2>2, <2>3 DEF PendIn
<1>6. A \subseteq Nat
  BY <1>1, <1>3
<1>. HIDE DEF A, B
<1>7. f \in [A -> B] /\ \A a, b \in A : f[a] = f[b] => a = b
  BY <1>4, <1>6
<1>8. \A j \in B : \E i \in A : f[i] = j
  <2>. TAKE j \in B
  <2>1. j - 1 \in A /\ f[j - 1] = j
    BY <1>5
  <2>. QED
    BY <2>1
<1>9. ExistsBijection(A, B)
  BY <1>7, <1>8 DEF ExistsBijection, Bijection, Injection, Surjection, IsInjective
<1>10. IsFiniteSet(A) /\ Cardinality(A) \in Nat
  BY <1>2, PendFinite DEF A
<1>11. Cardinality(B) = Cardinality(A)
  BY <1>9, <1>10, FS_Bijection
<1>12. IsFiniteSet(PendIn(q, w)) /\ Cardinality(PendIn(q, w)) \in Nat
  BY PendFinite
<1>13. Cardinality(B) = IF 1 \in PendIn(q, w) THEN Cardinality(PendIn(q, w)) - 1
                       ELSE Cardinality(PendIn(q, w))
  BY <1>12, FS_RemoveElement DEF B
<1>14. 1 \in PendIn(q, w) <=> q[1].w = w
  BY <1>1 DEF PendIn
<1>. QED
  BY <1>10, <1>11, <1>12, <1>13, <1>14 DEF A, t

LEMMA OutAdd ==
  ASSUME NEW C, IsFiniteSet(C), NEW x, x \notin C, NEW w
  PROVE  /\ IsFiniteSet(C \cup {x})
         /\ Cardinality(OutIn(C \cup {x}, w))
              = IF x.w = w THEN Cardinality(OutIn(C, w)) + 1 ELSE Cardinality(OutIn(C, w))
<1>1. IsFiniteSet(OutIn(C, w)) /\ Cardinality(OutIn(C, w)) \in Nat
  BY OutFinite
<1>2. CASE x.w = w
  <2>1. OutIn(C \cup {x}, w) = OutIn(C, w) \cup {x} /\ x \notin OutIn(C, w)
    BY <1>2 DEF OutIn
  <2>. QED
    BY <1>1, <1>2, <2>1, FS_AddElement
<1>3. CASE x.w # w
  <2>1. OutIn(C \cup {x}, w) = OutIn(C, w)
    BY <1>3 DEF OutIn
  <2>. QED
    BY <1>3, <2>1, FS_AddElement
<1>. QED
  BY <1>2, <1>3

LEMMA OutRemove ==
  ASSUME NEW C, IsFiniteSet(C), NEW c \in C, NEW w
  PROVE  /\ IsFiniteSet(C \ {c})
         /\ Cardinality(OutIn(C \ {c}, w))
              = IF c.w = w THEN Cardinality(OutIn(C, w)) - 1 ELSE Cardinality(OutIn(C, w))
         /\ c.w = w => Cardinality(OutIn(C, w)) > 0
<1>0. IsFiniteSet(C \ {c})
  BY FS_RemoveElement
<1>1. IsFiniteSet(OutIn(C, w)) /\ Cardinality(OutIn(C, w)) \in Nat
  BY OutFinite
<1>2. CASE c.w = w
  <2>1. OutIn(C \ {c}, w) = OutIn(C, w) \ {c} /\ c \in OutIn(C, w)
    BY <1>2 DEF OutIn
  <2>2. Cardinality(OutIn(C, w)) # 0
    BY <1>1, <2>1, FS_EmptySet
  <2>. QED
    <3>1. Cardinality(OutIn(C, w) \ {c}) = Cardinality(OutIn(C, w)) - 1
      BY <1>1, <2>1, FS_RemoveElement
    <3>2. Cardinality(OutIn(C \ {c}, w)) = Cardinality(OutIn(C, w) \ {c})
      BY <2>1, Zenon
    <3>3. Cardinality(OutIn(C, w)) > 0
      BY <1>1, <2>2
    <3>. QED
      BY <1>0, <1>2, <3>1, <3>2, <3>3, Zenon
<1>3. CASE c.w # w
  <2>1. OutIn(C \ {c}, w) = OutIn(C, w)
    BY <1>3 DEF OutIn
  <2>. QED
    BY <1>0, <1>3, <2>1
<1>. QED
  BY <1>2, <1>3


-----------------------------------------------------------------------------
(* References.                                                             *)

LEMMA Counts ==
  ASSUME RefInv, NEW w \in Writes
  PROVE  /\ Cardinality(PendIn(read_bios, w)) \in Nat /\ Cardinality(OutIn(clones, w)) \in Nat
         /\ refs[w] = Cardinality(PendIn(read_bios, w)) + Cardinality(OutIn(clones, w))
                      + (IF wstate[w] = "tracing" THEN 1 ELSE 0)
<1>1. read_bios \in Seq(ReadBio) /\ IsFiniteSet(clones)
  BY DEF RefInv, TypeOK, ReadBio
<1>2. Cardinality(PendIn(read_bios, w)) \in Nat /\ Cardinality(OutIn(clones, w)) \in Nat
  BY <1>1, PendFinite, OutFinite
<1>. QED
  BY <1>2 DEF RefInv, RefsAreExact, PendIn, OutIn

\* A write with a clone is with the tracer, or waits for its clones.
LEMMA CloneHolds ==
  ASSUME RefInv, NEW w \in Writes,
         (\E c \in clones : c.w = w) \/ (\E i \in DOMAIN read_bios : read_bios[i].w = w)
  PROVE  /\ wstate[w] \in {"tracing", "deferred"}
         /\ refs[w] >= 1 /\ (wstate[w] = "tracing" => refs[w] >= 2)
<1>1. /\ Cardinality(PendIn(read_bios, w)) \in Nat /\ Cardinality(OutIn(clones, w)) \in Nat
      /\ refs[w] = Cardinality(PendIn(read_bios, w)) + Cardinality(OutIn(clones, w))
                   + (IF wstate[w] = "tracing" THEN 1 ELSE 0)
  BY Counts
<1>2. read_bios \in Seq(ReadBio) /\ IsFiniteSet(clones) /\ wstate[w] \in WStates
  BY DEF RefInv, TypeOK, ReadBio
<1>3. Cardinality(PendIn(read_bios, w)) # 0 \/ Cardinality(OutIn(clones, w)) # 0
  <2>1. CASE \E c \in clones : c.w = w
    <3>1. OutIn(clones, w) # {}
      BY <2>1 DEF OutIn
    <3>. QED
      BY <1>2, <3>1, OutFinite, FS_EmptySet
  <2>2. CASE \E i \in DOMAIN read_bios : read_bios[i].w = w
    <3>1. PendIn(read_bios, w) # {}
      BY <1>2, <2>2, LenProperties DEF PendIn
    <3>. QED
      BY <1>2, <3>1, PendFinite, FS_EmptySet
  <2>. QED
    BY <2>1, <2>2
<1>4. refs[w] >= 1 /\ (wstate[w] = "tracing" => refs[w] >= 2)
  BY <1>1, <1>3
<1>5. wstate[w] \in {"new", "queued", "issued", "done"} => refs[w] = 0
  BY DEF RefInv, WritesReleasedOnce
<1>6. refs[w] # 0
  BY <1>1, <1>4
<1>. QED
  BY <1>2, <1>4, <1>5, <1>6 DEF WStates

\* A write that was released, or not yet traced, has no clones.
LEMMA NoCloneLeft ==
  ASSUME RefInv, NEW w \in Writes, wstate[w] \in {"new", "queued", "issued", "done"}
  PROVE  /\ \A c \in clones : c.w # w
         /\ \A i \in DOMAIN read_bios : read_bios[i].w # w
  BY CloneHolds

\* tp_put()
LEMMA TpPutFacts ==
  ASSUME RefInv, NEW w \in Writes, wstate[w] \in {"tracing", "deferred"},
         NEW after \in {"tracing", "deferred"}, TpPut(w, after)
  PROVE  /\ refs' \in [Writes -> Int] /\ refs'[w] = refs[w] - 1
         /\ \A u \in Writes : u # w => refs'[u] = refs[u] /\ wstate'[u] = wstate[u]
         /\ wstate' \in [Writes -> WStates]
         /\ wstate'[w] = IF refs[w] = 1 THEN "queued" ELSE after
         /\ orig_bios' \in Seq(Writes)
         /\ WritesReleasedOnce'
<1>1. refs \in [Writes -> Int] /\ wstate \in [Writes -> WStates] /\ orig_bios \in Seq(Writes)
  BY DEF RefInv, TypeOK
<1>2. /\ refs' \in [Writes -> Int] /\ refs'[w] = refs[w] - 1
      /\ \A u \in Writes : u # w => refs'[u] = refs[u]
  BY <1>1 DEF TpPut
<1>3. /\ wstate' \in [Writes -> WStates]
      /\ wstate'[w] = IF refs[w] = 1 THEN "queued" ELSE after
      /\ \A u \in Writes : u # w => wstate'[u] = wstate[u]
  BY <1>1 DEF TpPut, WStates
<1>4. orig_bios' \in Seq(Writes)
  <2>1. orig_bios' = orig_bios \/ orig_bios' = Append(orig_bios, w)
    BY DEF TpPut
  <2>2. Append(orig_bios, w) \in Seq(Writes)
    BY <1>1, AppendProperties
  <2>. QED
    BY <1>1, <2>1, <2>2
<1>5. /\ \A u \in Writes : wstate[u] \in {"new", "queued", "issued", "done"} => refs[u] = 0
      /\ \A i \in DOMAIN orig_bios : wstate[orig_bios[i]] = "queued"
      /\ \A i, j \in DOMAIN orig_bios : orig_bios[i] = orig_bios[j] => i = j
  BY DEF RefInv, WritesReleasedOnce
<1>6. \A u \in Writes : wstate'[u] \in {"new", "queued", "issued", "done"} => refs'[u] = 0
  <2>. TAKE u \in Writes
  <2>1. CASE u = w
    <3>1. refs[w] \in Int /\ (refs[w] = 1 => refs[w] - 1 = 0)
      BY <1>1
    <3>. QED
      BY <1>2, <1>3, <2>1, <3>1
  <2>2. CASE u # w
    BY <1>2, <1>3, <1>5, <2>2
  <2>. QED
    BY <2>1, <2>2
<1>7. \A i \in DOMAIN orig_bios : orig_bios[i] \in Writes /\ orig_bios[i] # w
  <2>. TAKE i \in DOMAIN orig_bios
  <2>1. orig_bios[i] \in Writes
    BY <1>1, ElementOfSeq, LenProperties
  <2>. QED
    BY <1>5, <2>1
<1>8. \A i \in DOMAIN orig_bios : wstate'[orig_bios[i]] = "queued"
  BY <1>3, <1>5, <1>7
<1>9. CASE refs[w] # 1
  <2>1. orig_bios' = orig_bios
    BY <1>9 DEF TpPut
  <2>. QED
    BY <1>2, <1>3, <1>4, <1>5, <1>6, <1>8, <2>1 DEF WritesReleasedOnce
<1>10. CASE refs[w] = 1
  <2>1. orig_bios' = Append(orig_bios, w)
    BY <1>10 DEF TpPut
  <2>. DEFINE n == Len(orig_bios) + 1
              p == orig_bios'
  <2>2. Len(orig_bios) \in Nat /\ DOMAIN orig_bios = 1 .. Len(orig_bios)
    BY <1>1, LenProperties
  <2>3. Len(p) = n /\ p[n] = w /\ \A i \in 1 .. Len(orig_bios) : p[i] = orig_bios[i]
    BY <1>1, <2>1, <2>2, AppendProperties
  <2>4. DOMAIN p = (1 .. Len(orig_bios)) \cup {n}
    <3>1. DOMAIN p = 1 .. n
      BY <1>4, <2>3, LenProperties
    <3>. QED
      BY <2>2, <3>1
  <2>. HIDE DEF p, n
  <2>5. \A i \in DOMAIN p : wstate'[p[i]] = "queued"
    BY <1>3, <1>8, <1>10, <2>2, <2>3, <2>4
  <2>6. \A i, j \in DOMAIN p : p[i] = p[j] => i = j
    BY <1>5, <1>7, <2>2, <2>3, <2>4
  <2>. QED
    BY <1>2, <1>3, <1>4, <1>6, <2>5, <2>6 DEF WritesReleasedOnce, p
<1>. QED
  BY <1>9, <1>10

LEMMA BlocksAreNat ==
  /\ Blocks \subseteq Nat
  /\ \A b \in Blocks : b + 1 \in Nat
  /\ \A a \in Nat, b \in Blocks : a <= b => a \in Blocks
  BY SnapCowAssumption DEF Blocks

LEMMA TraceWriteRefs ==
  ASSUME RefInv, NEW w \in Writes, NEW lo \in Blocks, NEW hi \in Blocks, TraceWrite(w, lo, hi)
  PROVE  RefInv'
<1>1. /\ wstate[w] = "new" /\ wstate' = [wstate EXCEPT ![w] = "tracing"]
      /\ wbio' = [wbio EXCEPT ![w] = [lo |-> lo, hi |-> hi, next |-> lo]]
      /\ refs' = [refs EXCEPT ![w] = 1]
      /\ UNCHANGED <<disk, read_bios, clones, submitted, cow_bios, orig_bios, received, fail,
                     stored, is_failed, cow_pc, reading, result, teardown>>
  BY DEF TraceWrite, cvars, tvars
<1>2. /\ wstate \in [Writes -> WStates] /\ refs \in [Writes -> Int]
      /\ wbio \in [Writes -> [lo : Blocks, hi : Blocks, next : Nat]]
      /\ read_bios \in Seq(ReadBio) /\ clones \in SUBSET Clone /\ orig_bios \in Seq(Writes)
  BY DEF RefInv, TypeOK, ReadBio
<1>3. /\ \A c \in clones : c.w # w
      /\ \A i \in DOMAIN read_bios : read_bios[i].w # w
  BY <1>1, NoCloneLeft
<1>4. TypeOK'
  <2>1. /\ wstate' \in [Writes -> WStates] /\ refs' \in [Writes -> Int]
    BY <1>1, <1>2 DEF WStates
  <2>2. wbio' \in [Writes -> [lo : Blocks, hi : Blocks, next : Nat]]
    BY <1>1, <1>2, BlocksAreNat
  <2>. QED
    BY <1>1, <2>1, <2>2 DEF RefInv, TypeOK
<1>5. RefsAreExact'
  <2>. SUFFICES ASSUME NEW u \in Writes
                PROVE  refs'[u] = Cardinality(PendIn(read_bios, u)) + Cardinality(OutIn(clones, u))
                                  + (IF wstate'[u] = "tracing" THEN 1 ELSE 0)
    BY <1>1 DEF RefsAreExact, PendIn, OutIn
  <2>1. /\ Cardinality(PendIn(read_bios, u)) \in Nat /\ Cardinality(OutIn(clones, u)) \in Nat
        /\ refs[u] = Cardinality(PendIn(read_bios, u)) + Cardinality(OutIn(clones, u))
                     + (IF wstate[u] = "tracing" THEN 1 ELSE 0)
    BY Counts
  <2>2. CASE u = w
    <3>1. refs[w] = 0
      BY <1>1 DEF RefInv, WritesReleasedOnce
    <3>2. refs'[w] = 1 /\ wstate'[w] = "tracing"
      BY <1>1, <1>2
    <3>. QED
      BY <1>1, <2>1, <2>2, <3>1, <3>2
  <2>3. CASE u # w
    BY <1>1, <1>2, <2>1, <2>3
  <2>. QED
    BY <2>2, <2>3
<1>6. ClonesApart'
  <2>1. \A c \in clones : c.w \in Writes /\ wbio'[c.w] = wbio[c.w]
    BY <1>1, <1>2, <1>3 DEF Clone
  <2>2. \A i \in DOMAIN read_bios : wbio'[read_bios[i].w] = wbio[read_bios[i].w]
    <3>. TAKE i \in DOMAIN read_bios
    <3>1. read_bios[i] \in ReadBio
      BY <1>2, ElementOfSeq, LenProperties
    <3>. QED
      BY <1>1, <1>2, <1>3, <3>1 DEF ReadBio
  <2>. QED
    BY <1>1, <2>1, <2>2 DEF RefInv, ClonesApart
<1>7. WritesReleasedOnce'
  <2>1. \A i \in DOMAIN orig_bios : wstate'[orig_bios[i]] = "queued"
    <3>. TAKE i \in DOMAIN orig_bios
    <3>1. orig_bios[i] \in Writes /\ wstate[orig_bios[i]] = "queued"
      BY <1>2, ElementOfSeq, LenProperties DEF RefInv, WritesReleasedOnce
    <3>. QED
      BY <1>1, <1>2, <3>1
  <2>2. \A u \in Writes : wstate'[u] \in {"new", "queued", "issued", "done"} => refs'[u] = 0
    BY <1>1, <1>2 DEF RefInv, WritesReleasedOnce
  <2>. QED
    BY <1>1, <2>1, <2>2 DEF RefInv, WritesReleasedOnce
<1>. QED
  BY <1>1, <1>4, <1>5, <1>6, <1>7 DEF RefInv

LEMMA PassWriteRefs ==
  ASSUME RefInv, NEW w \in Writes, NEW lo \in Blocks, NEW hi \in Blocks, PassWrite(w, lo, hi)
  PROVE  RefInv'
<1>1. /\ wstate[w] = "new" /\ wstate' = [wstate EXCEPT ![w] = "issued"]
      /\ wbio' = [wbio EXCEPT ![w] = [lo |-> lo, hi |-> hi, next |-> lo]]
      /\ fail' = TRUE
      /\ UNCHANGED <<disk, refs, read_bios, clones, submitted, cow_bios, orig_bios, received,
                     stored, is_failed, cow_pc, reading, result, teardown>>
  BY DEF PassWrite, cvars, tvars
<1>2. /\ wstate \in [Writes -> WStates] /\ refs \in [Writes -> Int]
      /\ wbio \in [Writes -> [lo : Blocks, hi : Blocks, next : Nat]]
      /\ read_bios \in Seq(ReadBio) /\ clones \in SUBSET Clone /\ orig_bios \in Seq(Writes)
  BY DEF RefInv, TypeOK, ReadBio
<1>3. /\ \A c \in clones : c.w # w
      /\ \A i \in DOMAIN read_bios : read_bios[i].w # w
  BY <1>1, NoCloneLeft
<1>4. TypeOK'
  <2>1. wstate' \in [Writes -> WStates]
    BY <1>1, <1>2 DEF WStates
  <2>2. wbio' \in [Writes -> [lo : Blocks, hi : Blocks, next : Nat]]
    BY <1>1, <1>2, BlocksAreNat
  <2>. QED
    BY <1>1, <2>1, <2>2 DEF RefInv, TypeOK
<1>5. RefsAreExact'
  <2>1. \A u \in Writes : wstate'[u] = "tracing" <=> wstate[u] = "tracing"
    BY <1>1, <1>2
  <2>. QED
    BY <1>1, <2>1 DEF RefInv, RefsAreExact
<1>6. ClonesApart'
  <2>1. \A c \in clones : c.w \in Writes /\ wbio'[c.w] = wbio[c.w]
    BY <1>1, <1>2, <1>3 DEF Clone
  <2>2. \A i \in DOMAIN read_bios : wbio'[read_bios[i].w] = wbio[read_bios[i].w]
    <3>. TAKE i \in DOMAIN read_bios
    <3>1. read_bios[i] \in ReadBio
      BY <1>2, ElementOfSeq, LenProperties
    <3>. QED
      BY <1>1, <1>2, <1>3, <3>1 DEF ReadBio
  <2>. QED
    BY <1>1, <2>1, <2>2 DEF RefInv, ClonesApart
<1>7. WritesReleasedOnce'
  <2>1. \A i \in DOMAIN orig_bios : wstate'[orig_bios[i]] = "queued"
    <3>. TAKE i \in DOMAIN orig_bios
    <3>1. orig_bios[i] \in Writes /\ wstate[orig_bios[i]] = "queued"
      BY <1>2, ElementOfSeq, LenProperties DEF RefInv, WritesReleasedOnce
    <3>. QED
      BY <1>1, <1>2, <3>1
  <2>2. \A u \in Writes : wstate'[u] \in {"new", "queued", "issued", "done"} => refs'[u] = 0
    BY <1>1, <1>2 DEF RefInv, WritesReleasedOnce
  <2>. QED
    BY <1>1, <2>1, <2>2 DEF RefInv, WritesReleasedOnce
<1>. QED
  BY <1>1, <1>4, <1>5, <1>6, <1>7 DEF RefInv

LEMMA MakeCloneRefs ==
  ASSUME RefInv, NEW w \in Writes, MakeClone(w)
  PROVE  RefInv'
<1>1. /\ wstate[w] = "tracing" /\ wbio[w].next <= wbio[w].hi
      /\ refs' = [refs EXCEPT ![w] = refs[w] + 1] /\ submitted' = submitted + 1
      /\ UNCHANGED <<disk, wstate, clones, cow_bios, orig_bios, received, fail,
                     stored, is_failed, cow_pc, reading, result, teardown>>
  BY DEF MakeClone, tvars
<1>2. /\ wstate \in [Writes -> WStates] /\ refs \in [Writes -> Int]
      /\ wbio \in [Writes -> [lo : Blocks, hi : Blocks, next : Nat]]
      /\ read_bios \in Seq(ReadBio) /\ clones \in SUBSET Clone /\ orig_bios \in Seq(Writes)
      /\ submitted \in Nat
  BY DEF RefInv, TypeOK, ReadBio
<1>. DEFINE n == wbio[w].next
<1>3. PICK hi \in n .. wbio[w].hi :
        /\ read_bios' = Append(read_bios, [w |-> w, lo |-> n, hi |-> hi])
        /\ wbio' = [wbio EXCEPT ![w].next = hi + 1]
  BY DEF MakeClone
<1>. DEFINE e == [w |-> w, lo |-> n, hi |-> hi]
<1>4. n \in Blocks /\ hi \in Blocks /\ n <= hi /\ hi + 1 \in Nat
  <2>1. n \in Nat /\ wbio[w].hi \in Blocks /\ hi \in Nat /\ n <= hi /\ hi <= wbio[w].hi
    BY <1>2, <1>3, BlocksAreNat
  <2>2. n <= wbio[w].hi
    BY <1>1
  <2>. QED
    BY <2>1, <2>2, BlocksAreNat
<1>5. e \in ReadBio /\ e.w = w /\ e.lo = n
  BY <1>4 DEF ReadBio
<1>. DEFINE m == Len(read_bios) + 1
<1>6. /\ Len(read_bios) \in Nat /\ DOMAIN read_bios = 1 .. Len(read_bios)
      /\ read_bios' \in Seq(ReadBio) /\ Len(read_bios') = m
      /\ read_bios'[m] = e /\ \A i \in 1 .. Len(read_bios) : read_bios'[i] = read_bios[i]
      /\ DOMAIN read_bios' = (1 .. Len(read_bios)) \cup {m}
  <2>1. Len(read_bios) \in Nat /\ DOMAIN read_bios = 1 .. Len(read_bios)
    BY <1>2, LenProperties
  <2>2. /\ read_bios' \in Seq(ReadBio) /\ Len(read_bios') = m
        /\ read_bios'[m] = e /\ \A i \in 1 .. Len(read_bios) : read_bios'[i] = read_bios[i]
    BY <1>2, <1>3, <1>5, <2>1, AppendProperties
  <2>3. DOMAIN read_bios' = 1 .. m
    BY <2>2, LenProperties
  <2>. QED
    BY <2>1, <2>2, <2>3
<1>7. /\ wbio' \in [Writes -> [lo : Blocks, hi : Blocks, next : Nat]]
      /\ wbio'[w].next = hi + 1
      /\ \A u \in Writes : u # w => wbio'[u] = wbio[u]
  BY <1>2, <1>3, <1>4
<1>. HIDE DEF e, m, n
<1>8. TypeOK'
  <2>1. refs' \in [Writes -> Int] /\ submitted' \in Nat
    BY <1>1, <1>2
  <2>2. read_bios' \in Seq([w : Writes, lo : Blocks, hi : Blocks])
    BY <1>6 DEF ReadBio
  <2>. QED
    BY <1>1, <1>7, <2>1, <2>2 DEF RefInv, TypeOK
<1>9. RefsAreExact'
  <2>. SUFFICES ASSUME NEW u \in Writes
                PROVE  refs'[u] = Cardinality(PendIn(read_bios', u)) + Cardinality(OutIn(clones, u))
                                  + (IF wstate[u] = "tracing" THEN 1 ELSE 0)
    BY <1>1 DEF RefsAreExact, PendIn, OutIn
  <2>1. /\ Cardinality(PendIn(read_bios, u)) \in Nat /\ Cardinality(OutIn(clones, u)) \in Nat
        /\ refs[u] = Cardinality(PendIn(read_bios, u)) + Cardinality(OutIn(clones, u))
                     + (IF wstate[u] = "tracing" THEN 1 ELSE 0)
    BY Counts
  <2>2. Cardinality(PendIn(read_bios', u))
          = IF e.w = u THEN Cardinality(PendIn(read_bios, u)) + 1
            ELSE Cardinality(PendIn(read_bios, u))
    BY <1>2, <1>3, <1>5, PendAppend DEF e
  <2>3. refs'[u] = IF w = u THEN refs[u] + 1 ELSE refs[u]
    BY <1>1, <1>2
  <2>. QED
    BY <1>5, <2>1, <2>2, <2>3
<1>10. ClonesApart'
  <2>1. /\ \A i, j \in DOMAIN read_bios :
             read_bios[i].w = read_bios[j].w /\ read_bios[i].lo = read_bios[j].lo => i = j
        /\ \A i \in DOMAIN read_bios, c \in clones :
             ~(read_bios[i].w = c.w /\ read_bios[i].lo = c.lo)
        /\ \A i \in DOMAIN read_bios : read_bios[i].lo < wbio[read_bios[i].w].next
        /\ \A c \in clones : c.lo < wbio[c.w].next
        /\ \A c, d \in clones : c.w = d.w /\ c.lo = d.lo => c = d
    BY DEF RefInv, ClonesApart
  <2>2. \A i \in 1 .. Len(read_bios) :
          /\ read_bios[i].w \in Writes /\ read_bios[i].lo \in Nat
          /\ ~(read_bios[i].w = w /\ read_bios[i].lo = n)
    <3>. TAKE i \in 1 .. Len(read_bios)
    <3>1. read_bios[i] \in ReadBio /\ read_bios[i].lo < wbio[read_bios[i].w].next
      BY <1>2, <1>6, <2>1, ElementOfSeq
    <3>2. read_bios[i].w \in Writes /\ read_bios[i].lo \in Nat
      BY <3>1, BlocksAreNat DEF ReadBio
    <3>. QED
      BY <1>4, <3>1, <3>2, BlocksAreNat DEF n
  <2>3. \A c \in clones : c.w \in Writes /\ c.lo \in Nat /\ ~(c.w = w /\ c.lo = n)
    <3>. TAKE c \in clones
    <3>1. c.w \in Writes /\ c.lo \in Nat
      BY <1>2, BlocksAreNat DEF Clone
    <3>. QED
      BY <1>4, <2>1, <3>1, BlocksAreNat DEF n
  <2>4. \A u \in Writes : wbio[u].next \in Nat /\ wbio'[u].next \in Nat
    BY <1>2, <1>7
  <2>5. n \in Nat /\ hi \in Nat /\ n < hi + 1
    BY <1>4, BlocksAreNat
  <2>6. \A u \in Writes : wbio[u].next <= wbio'[u].next
    BY <1>7, <2>4, <2>5 DEF n
  <2>7. \A i, j \in DOMAIN read_bios' :
          read_bios'[i].w = read_bios'[j].w /\ read_bios'[i].lo = read_bios'[j].lo => i = j
    BY <1>5, <1>6, <2>1, <2>2
  <2>8. \A i \in DOMAIN read_bios', c \in clones :
          ~(read_bios'[i].w = c.w /\ read_bios'[i].lo = c.lo)
    BY <1>5, <1>6, <2>1, <2>3
  <2>9. \A i \in DOMAIN read_bios' : read_bios'[i].lo < wbio'[read_bios'[i].w].next
    <3>1. e.lo < wbio'[e.w].next
      BY <1>5, <1>7, <2>5
    <3>2. \A i \in 1 .. Len(read_bios) : read_bios[i].lo < wbio'[read_bios[i].w].next
      BY <1>6, <2>1, <2>2, <2>4, <2>6
    <3>. QED
      BY <1>6, <3>1, <3>2
  <2>10. \A c \in clones : c.lo < wbio'[c.w].next
    BY <2>1, <2>3, <2>4, <2>6
  <2>. QED
    BY <1>1, <2>1, <2>7, <2>8, <2>9, <2>10 DEF ClonesApart
<1>11. WritesReleasedOnce'
  <2>1. \A u \in Writes : wstate'[u] \in {"new", "queued", "issued", "done"} => refs'[u] = 0
    BY <1>1, <1>2 DEF RefInv, WritesReleasedOnce
  <2>. QED
    BY <1>1, <2>1 DEF RefInv, WritesReleasedOnce
<1>. QED
  BY <1>1, <1>8, <1>9, <1>10, <1>11 DEF RefInv

\* The tracer drops its reference: MakeCloneFails and TraceDone.
LEMMA TracerPutRefs ==
  ASSUME RefInv, NEW w \in Writes, wstate[w] = "tracing", TpPut(w, "deferred"),
         UNCHANGED <<disk, wbio, cvars, cow_bios, received, tvars, teardown>>,
         fail' \in BOOLEAN
  PROVE  RefInv'
<1>1. UNCHANGED <<disk, wbio, read_bios, clones, submitted, cow_bios, received,
                  stored, is_failed, cow_pc, reading, result, teardown>>
  BY DEF cvars, tvars
<1>2. /\ refs' \in [Writes -> Int] /\ refs'[w] = refs[w] - 1
      /\ \A u \in Writes : u # w => refs'[u] = refs[u] /\ wstate'[u] = wstate[u]
      /\ wstate' \in [Writes -> WStates]
      /\ wstate'[w] = IF refs[w] = 1 THEN "queued" ELSE "deferred"
      /\ orig_bios' \in Seq(Writes)
      /\ WritesReleasedOnce'
  BY TpPutFacts
<1>3. TypeOK'
  BY <1>1, <1>2 DEF RefInv, TypeOK
<1>4. RefsAreExact'
  <2>. SUFFICES ASSUME NEW u \in Writes
                PROVE  refs'[u] = Cardinality(PendIn(read_bios, u)) + Cardinality(OutIn(clones, u))
                                  + (IF wstate'[u] = "tracing" THEN 1 ELSE 0)
    BY <1>1 DEF RefsAreExact, PendIn, OutIn
  <2>1. /\ Cardinality(PendIn(read_bios, u)) \in Nat /\ Cardinality(OutIn(clones, u)) \in Nat
        /\ refs[u] = Cardinality(PendIn(read_bios, u)) + Cardinality(OutIn(clones, u))
                     + (IF wstate[u] = "tracing" THEN 1 ELSE 0)
    BY Counts
  <2>. QED
    BY <1>2, <2>1
<1>5. ClonesApart'
  BY <1>1 DEF RefInv, ClonesApart
<1>. QED
  BY <1>1, <1>2, <1>3, <1>4, <1>5 DEF RefInv

\* A clone is done with: ReleaseClone and CloneError.
LEMMA ClonePutRefs ==
  ASSUME RefInv, NEW c \in clones, clones' = clones \ {c}, TpPut(c.w, wstate[c.w]),
         UNCHANGED <<disk, wbio, read_bios, submitted, cow_bios, received, tvars, teardown>>,
         fail' \in BOOLEAN
  PROVE  RefInv'
<1>. DEFINE w == c.w
<1>1. UNCHANGED <<disk, wbio, read_bios, submitted, cow_bios, received,
                  stored, is_failed, cow_pc, reading, result, teardown>>
  BY DEF tvars
<1>2. w \in Writes /\ clones \in SUBSET Clone /\ IsFiniteSet(clones)
  BY DEF RefInv, TypeOK, Clone
<1>3. /\ wstate[w] \in {"tracing", "deferred"} /\ refs[w] >= 1
      /\ wstate[w] = "tracing" => refs[w] >= 2
  BY <1>2, CloneHolds
<1>4. /\ refs' \in [Writes -> Int] /\ refs'[w] = refs[w] - 1
      /\ \A u \in Writes : u # w => refs'[u] = refs[u] /\ wstate'[u] = wstate[u]
      /\ wstate' \in [Writes -> WStates]
      /\ wstate'[w] = IF refs[w] = 1 THEN "queued" ELSE wstate[w]
      /\ orig_bios' \in Seq(Writes)
      /\ WritesReleasedOnce'
  <2>. DEFINE after == wstate[c.w]
  <2>1. /\ after \in {"tracing", "deferred"} /\ TpPut(w, after)
        /\ wstate[w] \in {"tracing", "deferred"}
    BY <1>3
  <2>. HIDE DEF after, w
  <2>2. /\ refs' \in [Writes -> Int] /\ refs'[w] = refs[w] - 1
        /\ \A u \in Writes : u # w => refs'[u] = refs[u] /\ wstate'[u] = wstate[u]
        /\ wstate' \in [Writes -> WStates]
        /\ wstate'[w] = IF refs[w] = 1 THEN "queued" ELSE after
        /\ orig_bios' \in Seq(Writes)
        /\ WritesReleasedOnce'
    BY <1>2, <2>1, TpPutFacts
  <2>. QED
    BY <2>2 DEF after, w
<1>5. TypeOK'
  <2>1. clones' \in SUBSET Clone
    BY <1>2
  <2>. QED
    BY <1>1, <1>4, <2>1 DEF RefInv, TypeOK
<1>. HIDE DEF w
<1>6. RefsAreExact'
  <2>. SUFFICES ASSUME NEW u \in Writes
                PROVE  refs'[u] = Cardinality(PendIn(read_bios, u)) + Cardinality(OutIn(clones', u))
                                  + (IF wstate'[u] = "tracing" THEN 1 ELSE 0)
    BY <1>1 DEF RefsAreExact, PendIn, OutIn
  <2>1. /\ Cardinality(PendIn(read_bios, u)) \in Nat /\ Cardinality(OutIn(clones, u)) \in Nat
        /\ refs[u] = Cardinality(PendIn(read_bios, u)) + Cardinality(OutIn(clones, u))
                     + (IF wstate[u] = "tracing" THEN 1 ELSE 0)
    BY Counts
  <2>2. Cardinality(OutIn(clones', u))
          = IF w = u THEN Cardinality(OutIn(clones, u)) - 1 ELSE Cardinality(OutIn(clones, u))
    BY <1>2, OutRemove DEF w
  <2>3. wstate'[u] = "tracing" <=> wstate[u] = "tracing"
    BY <1>3, <1>4
  <2>. QED
    BY <1>4, <2>1, <2>2, <2>3
<1>7. ClonesApart'
  BY <1>1 DEF RefInv, ClonesApart
<1>8. IsFiniteSet(clones')
  BY <1>2, FS_RemoveElement
<1>. QED
  BY <1>4, <1>5, <1>6, <1>7, <1>8 DEF RefInv

LEMMA SubmitCloneRefs ==
  ASSUME RefInv, SubmitClone
  PROVE  RefInv'
<1>. DEFINE c == read_bios[1]
            d == [w |-> c.w, lo |-> c.lo, hi |-> c.hi, at |-> "sent", content |-> Nothing]
<1>1. /\ read_bios # <<>> /\ read_bios' = Tail(read_bios)
      /\ UNCHANGED <<disk, wstate, wbio, refs, submitted, cow_bios, orig_bios, received, fail,
                     stored, is_failed, cow_pc, reading, result, teardown>>
  BY DEF SubmitClone, wvars, tvars
<1>2. read_bios \in Seq(ReadBio) /\ clones \in SUBSET Clone /\ IsFiniteSet(clones)
  BY DEF RefInv, TypeOK, ReadBio
<1>3. /\ Len(read_bios) \in Nat \ {0} /\ DOMAIN read_bios = 1 .. Len(read_bios)
      /\ Head(read_bios) = c /\ c \in ReadBio
  BY <1>1, <1>2, LenProperties, EmptySeq, HeadTailProperties, ElementOfSeq
<1>4. clones' = clones \cup {d}
  BY <1>3 DEF SubmitClone
<1>5. /\ read_bios' \in Seq(ReadBio) /\ Len(read_bios') = Len(read_bios) - 1
      /\ \A i \in 1 .. Len(read_bios) - 1 : read_bios'[i] = read_bios[i + 1]
      /\ DOMAIN read_bios' = 1 .. Len(read_bios) - 1
  <2>1. /\ read_bios' \in Seq(ReadBio) /\ Len(read_bios') = Len(read_bios) - 1
        /\ \A i \in 1 .. Len(read_bios) - 1 : read_bios'[i] = read_bios[i + 1]
    BY <1>1, <1>2, <1>3, HeadTailProperties
  <2>. QED
    BY <2>1, LenProperties
<1>6. c.w \in Writes /\ c.lo \in Blocks /\ c.hi \in Blocks
  BY <1>3 DEF ReadBio
<1>7. d \in Clone /\ d.w = c.w /\ d.lo = c.lo
  <2>1. Nothing \in [Blocks -> Contents \cup {None}]
    BY DEF Nothing
  <2>. QED
    BY <1>6, <2>1 DEF Clone
<1>8. /\ \A i, j \in DOMAIN read_bios :
           read_bios[i].w = read_bios[j].w /\ read_bios[i].lo = read_bios[j].lo => i = j
      /\ \A i \in DOMAIN read_bios, e \in clones :
           ~(read_bios[i].w = e.w /\ read_bios[i].lo = e.lo)
      /\ \A i \in DOMAIN read_bios : read_bios[i].lo < wbio[read_bios[i].w].next
      /\ \A e \in clones : e.lo < wbio[e.w].next
      /\ \A e, f \in clones : e.w = f.w /\ e.lo = f.lo => e = f
  BY DEF RefInv, ClonesApart
<1>9. 1 \in DOMAIN read_bios
  BY <1>3
<1>10. /\ \A e \in clones : ~(c.w = e.w /\ c.lo = e.lo)
       /\ c.lo < wbio[c.w].next
       /\ \A i \in 1 .. Len(read_bios) : i # 1 => ~(read_bios[i].w = c.w /\ read_bios[i].lo = c.lo)
  BY <1>3, <1>8, <1>9
<1>. HIDE DEF c, d
<1>11. d \notin clones
  BY <1>7, <1>10
<1>12. TypeOK'
  <2>1. clones' \in SUBSET Clone
    BY <1>2, <1>4, <1>7
  <2>2. read_bios' \in Seq([w : Writes, lo : Blocks, hi : Blocks])
    BY <1>5 DEF ReadBio
  <2>. QED
    BY <1>1, <2>1, <2>2 DEF RefInv, TypeOK
<1>13. RefsAreExact'
  <2>. SUFFICES ASSUME NEW u \in Writes
                PROVE  refs[u] = Cardinality(PendIn(read_bios', u)) + Cardinality(OutIn(clones', u))
                                 + (IF wstate[u] = "tracing" THEN 1 ELSE 0)
    BY <1>1 DEF RefsAreExact, PendIn, OutIn
  <2>1. /\ Cardinality(PendIn(read_bios, u)) \in Nat /\ Cardinality(OutIn(clones, u)) \in Nat
        /\ refs[u] = Cardinality(PendIn(read_bios, u)) + Cardinality(OutIn(clones, u))
                     + (IF wstate[u] = "tracing" THEN 1 ELSE 0)
    BY Counts
  <2>2. Cardinality(PendIn(read_bios, u))
          = IF c.w = u THEN Cardinality(PendIn(read_bios', u)) + 1
            ELSE Cardinality(PendIn(read_bios', u))
    BY <1>1, <1>2, PendTail DEF c
  <2>3. Cardinality(OutIn(clones', u))
          = IF d.w = u THEN Cardinality(OutIn(clones, u)) + 1 ELSE Cardinality(OutIn(clones, u))
    BY <1>2, <1>4, <1>11, OutAdd
  <2>4. Cardinality(PendIn(read_bios', u)) \in Nat
    BY <1>5, PendFinite
  <2>. QED
    BY <1>7, <2>1, <2>2, <2>3, <2>4
<1>14. ClonesApart'
  <2>1. \A i \in DOMAIN read_bios' : /\ i + 1 \in DOMAIN read_bios /\ i + 1 # 1
                                     /\ read_bios'[i] = read_bios[i + 1] /\ i \in Int
    BY <1>3, <1>5
  <2>2. \A i, j \in DOMAIN read_bios' :
          read_bios'[i].w = read_bios'[j].w /\ read_bios'[i].lo = read_bios'[j].lo => i = j
    <3>. TAKE i, j \in DOMAIN read_bios'
    <3>. HAVE read_bios'[i].w = read_bios'[j].w /\ read_bios'[i].lo = read_bios'[j].lo
    <3>1. i + 1 = j + 1 /\ i \in Int /\ j \in Int
      BY <1>8, <2>1
    <3>. QED
      BY <3>1
  <2>3. \A i \in DOMAIN read_bios', e \in clones' :
          ~(read_bios'[i].w = e.w /\ read_bios'[i].lo = e.lo)
    BY <1>3, <1>4, <1>7, <1>8, <1>10, <2>1
  <2>4. \A e, f \in clones' : e.w = f.w /\ e.lo = f.lo => e = f
    BY <1>4, <1>7, <1>8, <1>10
  <2>5. \A i \in DOMAIN read_bios' : read_bios'[i].lo < wbio[read_bios'[i].w].next
    BY <1>8, <2>1
  <2>6. \A e \in clones' : e.lo < wbio[e.w].next
    BY <1>4, <1>7, <1>8, <1>10
  <2>. QED
    BY <1>1, <2>2, <2>3, <2>4, <2>5, <2>6 DEF ClonesApart
<1>15. WritesReleasedOnce'
  BY <1>1 DEF RefInv, WritesReleasedOnce
<1>16. IsFiniteSet(clones')
  BY <1>2, <1>4, FS_AddElement
<1>. QED
  BY <1>12, <1>13, <1>14, <1>15, <1>16 DEF RefInv

SamePlace(c, d) == d.w = c.w /\ d.lo = c.lo

\* A clone moves on: BaseRead and CaptureClone.
LEMMA CloneMovesRefs ==
  ASSUME RefInv, NEW c \in clones, NEW d \in Clone, SamePlace(c, d),
         clones' = (clones \ {c}) \cup {d},
         UNCHANGED <<disk, wvars, read_bios, submitted, orig_bios, fail, tvars, teardown>>,
         cow_bios' \in Seq(CowBio), received' \in Nat
  PROVE  RefInv'
<1>1. UNCHANGED <<disk, wstate, wbio, refs, read_bios, submitted, orig_bios, fail,
                  stored, is_failed, cow_pc, reading, result, teardown>>
  BY DEF wvars, tvars
<1>2. clones \in SUBSET Clone /\ IsFiniteSet(clones)
  BY DEF RefInv, TypeOK
<1>3. /\ \A i \in DOMAIN read_bios, e \in clones :
           ~(read_bios[i].w = e.w /\ read_bios[i].lo = e.lo)
      /\ \A e \in clones : e.lo < wbio[e.w].next
      /\ \A e, f \in clones : e.w = f.w /\ e.lo = f.lo => e = f
  BY DEF RefInv, ClonesApart
<1>4. d \notin clones \ {c}
  BY <1>3 DEF SamePlace
<1>5. TypeOK'
  <2>1. clones' \in SUBSET Clone
    BY <1>2
  <2>. QED
    BY <1>1, <2>1 DEF RefInv, TypeOK
<1>6. RefsAreExact'
  <2>. SUFFICES ASSUME NEW u \in Writes
                PROVE  refs[u] = Cardinality(PendIn(read_bios, u)) + Cardinality(OutIn(clones', u))
                                 + (IF wstate[u] = "tracing" THEN 1 ELSE 0)
    BY <1>1 DEF RefsAreExact, PendIn, OutIn
  <2>1. refs[u] = Cardinality(PendIn(read_bios, u)) + Cardinality(OutIn(clones, u))
                  + (IF wstate[u] = "tracing" THEN 1 ELSE 0)
    BY Counts
  <2>0. PICK E : E = clones \ {c}
    OBVIOUS
  <2>2. /\ IsFiniteSet(E) /\ d \notin E /\ clones' = E \cup {d}
        /\ Cardinality(OutIn(E, u))
             = IF c.w = u THEN Cardinality(OutIn(clones, u)) - 1 ELSE Cardinality(OutIn(clones, u))
    BY <1>2, <1>4, <2>0, OutRemove
  <2>3. Cardinality(OutIn(clones', u))
          = IF d.w = u THEN Cardinality(OutIn(E, u)) + 1 ELSE Cardinality(OutIn(E, u))
    <3>1. IsFiniteSet(E) /\ d \notin E
      BY <2>2
    <3>2. Cardinality(OutIn(E \cup {d}, u))
            = IF d.w = u THEN Cardinality(OutIn(E, u)) + 1 ELSE Cardinality(OutIn(E, u))
      BY <3>1, OutAdd
    <3>. QED
      BY <2>2, <3>2, Zenon
  <2>4. Cardinality(OutIn(clones, u)) \in Nat
    BY <1>2, OutFinite
  <2>. QED
    BY <2>1, <2>2, <2>3, <2>4 DEF SamePlace
<1>7. ClonesApart'
  <2>1. \A i \in DOMAIN read_bios, e \in clones' :
          ~(read_bios[i].w = e.w /\ read_bios[i].lo = e.lo)
    BY <1>3 DEF SamePlace
  <2>2. \A e, f \in clones' : e.w = f.w /\ e.lo = f.lo => e = f
    BY <1>3 DEF SamePlace
  <2>3. \A e \in clones' : e.lo < wbio[e.w].next
    BY <1>3 DEF SamePlace
  <2>. QED
    BY <1>1, <2>1, <2>2, <2>3 DEF RefInv, ClonesApart
<1>8. WritesReleasedOnce'
  BY <1>1 DEF RefInv, WritesReleasedOnce
<1>9. IsFiniteSet(clones')
  BY <1>2, FS_RemoveElement, FS_AddElement
<1>. QED
  BY <1>5, <1>6, <1>7, <1>8, <1>9 DEF RefInv

LEMMA BaseReadRefs ==
  ASSUME RefInv, NEW c \in clones, BaseRead(c)
  PROVE  RefInv'
<1>. DEFINE f == [b \in Blocks |-> IF b \in Interval(c) THEN disk[b] ELSE None]
            d == [c EXCEPT !.at = "read", !.content = f]
<1>1. /\ clones' = (clones \ {c}) \cup {d}
      /\ UNCHANGED <<disk, wvars, read_bios, submitted, orig_bios, fail, tvars, teardown>>
      /\ UNCHANGED <<cow_bios, received>>
  BY DEF BaseRead
<1>2. c \in Clone /\ disk \in [Blocks -> Contents] /\ cow_bios \in Seq(CowBio) /\ received \in Nat
  BY DEF RefInv, TypeOK
<1>3. f \in [Blocks -> Contents \cup {None}]
  BY <1>2
<1>. HIDE DEF f
<1>4. d \in Clone /\ SamePlace(c, d)
  BY <1>2, <1>3 DEF Clone, SamePlace
<1>. HIDE DEF d
<1>. QED
  BY <1>1, <1>2, <1>4, CloneMovesRefs

LEMMA CaptureCloneRefs ==
  ASSUME RefInv, NEW c \in clones, CaptureClone(c)
  PROVE  RefInv'
<1>. DEFINE d == [c EXCEPT !.at = "captured"]
            e == [dir |-> "W", id |-> c.w, lo |-> c.lo, hi |-> c.hi, content |-> c.content]
<1>1. /\ clones' = (clones \ {c}) \cup {d}
      /\ UNCHANGED <<disk, wvars, read_bios, submitted, orig_bios, fail, tvars, teardown>>
      /\ received' = received + 1 /\ cow_bios' = Append(cow_bios, e)
  BY DEF CaptureClone
<1>2. c \in Clone /\ cow_bios \in Seq(CowBio) /\ received \in Nat
  BY DEF RefInv, TypeOK
<1>3. d \in Clone /\ SamePlace(c, d)
  BY <1>2 DEF Clone, SamePlace
<1>4. e \in CowBio
  BY <1>2 DEF Clone, CowBio
<1>. HIDE DEF d, e
<1>5. cow_bios' \in Seq(CowBio) /\ received' \in Nat
  BY <1>1, <1>2, <1>4, AppendProperties
<1>. QED
  BY <1>1, <1>3, <1>5, CloneMovesRefs

LEMMA SubmitOrigRefs ==
  ASSUME RefInv, SubmitOrig
  PROVE  RefInv'
<1>. DEFINE w == orig_bios[1]
<1>1. /\ orig_bios # <<>> /\ orig_bios' = Tail(orig_bios)
      /\ wstate' = [wstate EXCEPT ![Head(orig_bios)] = "issued"]
      /\ UNCHANGED <<disk, wbio, refs, read_bios, clones, submitted, cow_bios, received, fail,
                     stored, is_failed, cow_pc, reading, result, teardown>>
  BY DEF SubmitOrig, cvars, tvars
<1>2. orig_bios \in Seq(Writes) /\ wstate \in [Writes -> WStates]
  BY DEF RefInv, TypeOK
<1>3. /\ Len(orig_bios) \in Nat \ {0} /\ DOMAIN orig_bios = 1 .. Len(orig_bios)
      /\ Head(orig_bios) = w /\ w \in Writes
  BY <1>1, <1>2, LenProperties, EmptySeq, HeadTailProperties, ElementOfSeq
<1>4. /\ orig_bios' \in Seq(Writes) /\ Len(orig_bios') = Len(orig_bios) - 1
      /\ \A i \in 1 .. Len(orig_bios) - 1 : orig_bios'[i] = orig_bios[i + 1]
      /\ DOMAIN orig_bios' = 1 .. Len(orig_bios) - 1
  <2>1. /\ orig_bios' \in Seq(Writes) /\ Len(orig_bios') = Len(orig_bios) - 1
        /\ \A i \in 1 .. Len(orig_bios) - 1 : orig_bios'[i] = orig_bios[i + 1]
    BY <1>1, <1>2, <1>3, HeadTailProperties
  <2>. QED
    BY <2>1, LenProperties
<1>5. /\ \A u \in Writes : wstate[u] \in {"new", "queued", "issued", "done"} => refs[u] = 0
      /\ \A i \in DOMAIN orig_bios : wstate[orig_bios[i]] = "queued"
      /\ \A i, j \in DOMAIN orig_bios : orig_bios[i] = orig_bios[j] => i = j
  BY DEF RefInv, WritesReleasedOnce
<1>6. wstate[w] = "queued" /\ refs[w] = 0
  BY <1>3, <1>5
<1>. HIDE DEF w
<1>7. /\ wstate' \in [Writes -> WStates] /\ wstate'[w] = "issued"
      /\ \A u \in Writes : u # w => wstate'[u] = wstate[u]
  BY <1>1, <1>2, <1>3 DEF WStates
<1>8. TypeOK'
  BY <1>1, <1>4, <1>7 DEF RefInv, TypeOK
<1>9. RefsAreExact'
  <2>1. \A u \in Writes : wstate'[u] = "tracing" <=> wstate[u] = "tracing"
    BY <1>6, <1>7
  <2>. QED
    BY <1>1, <2>1 DEF RefInv, RefsAreExact
<1>10. ClonesApart'
  BY <1>1 DEF RefInv, ClonesApart
<1>11. WritesReleasedOnce'
  <2>1. \A i \in DOMAIN orig_bios' : /\ i + 1 \in DOMAIN orig_bios /\ i + 1 # 1 /\ i \in Int
                                     /\ orig_bios'[i] = orig_bios[i + 1]
                                     /\ orig_bios[i + 1] \in Writes
    <3>1. \A i \in 1 .. Len(orig_bios) - 1 : i + 1 \in 1 .. Len(orig_bios) /\ i + 1 # 1 /\ i \in Int
      BY <1>3
    <3>2. \A i \in 1 .. Len(orig_bios) : orig_bios[i] \in Writes
      BY <1>2, ElementOfSeq
    <3>. QED
      BY <1>3, <1>4, <3>1, <3>2
  <2>2. \A i \in DOMAIN orig_bios' : orig_bios'[i] # w
    BY <1>3, <1>5, <2>1 DEF w
  <2>3. \A i \in DOMAIN orig_bios' : wstate'[orig_bios'[i]] = "queued"
    BY <1>5, <1>7, <2>1, <2>2
  <2>4. \A i, j \in DOMAIN orig_bios' : orig_bios'[i] = orig_bios'[j] => i = j
    <3>. TAKE i, j \in DOMAIN orig_bios'
    <3>. HAVE orig_bios'[i] = orig_bios'[j]
    <3>1. i + 1 = j + 1 /\ i \in Int /\ j \in Int
      BY <1>5, <2>1
    <3>. QED
      BY <3>1
  <2>5. \A u \in Writes : wstate'[u] \in {"new", "queued", "issued", "done"} => refs'[u] = 0
    BY <1>1, <1>5, <1>6, <1>7
  <2>. QED
    BY <2>3, <2>4, <2>5 DEF WritesReleasedOnce
<1>. QED
  BY <1>1, <1>8, <1>9, <1>10, <1>11 DEF RefInv

LEMMA BaseWriteRefs ==
  ASSUME RefInv, NEW w \in Writes, BaseWrite(w)
  PROVE  RefInv'
<1>1. /\ wstate[w] = "issued" /\ wstate' = [wstate EXCEPT ![w] = "done"]
      /\ disk' = [b \in Blocks |-> IF b \in Interval(wbio[w]) THEN w ELSE disk[b]]
      /\ UNCHANGED <<wbio, refs, read_bios, clones, submitted, cow_bios, orig_bios, received, fail,
                     stored, is_failed, cow_pc, reading, result, teardown>>
  BY DEF BaseWrite, cvars, tvars
<1>2. /\ wstate \in [Writes -> WStates] /\ disk \in [Blocks -> Contents]
      /\ orig_bios \in Seq(Writes)
  BY DEF RefInv, TypeOK
<1>3. /\ wstate' \in [Writes -> WStates] /\ wstate'[w] = "done"
      /\ \A u \in Writes : u # w => wstate'[u] = wstate[u]
  BY <1>1, <1>2 DEF WStates
<1>4. disk' \in [Blocks -> Contents]
  BY <1>1, <1>2 DEF Contents
<1>5. TypeOK'
  BY <1>1, <1>3, <1>4 DEF RefInv, TypeOK
<1>6. RefsAreExact'
  <2>1. \A u \in Writes : wstate'[u] = "tracing" <=> wstate[u] = "tracing"
    BY <1>1, <1>3
  <2>. QED
    BY <1>1, <2>1 DEF RefInv, RefsAreExact
<1>7. ClonesApart'
  BY <1>1 DEF RefInv, ClonesApart
<1>8. WritesReleasedOnce'
  <2>1. \A i \in DOMAIN orig_bios : wstate'[orig_bios[i]] = "queued"
    <3>. TAKE i \in DOMAIN orig_bios
    <3>1. orig_bios[i] \in Writes /\ wstate[orig_bios[i]] = "queued"
      BY <1>2, ElementOfSeq, LenProperties DEF RefInv, WritesReleasedOnce
    <3>. QED
      BY <1>1, <1>3, <3>1
  <2>2. \A u \in Writes : wstate'[u] \in {"new", "queued", "issued", "done"} => refs'[u] = 0
    BY <1>1, <1>3 DEF RefInv, WritesReleasedOnce
  <2>. QED
    BY <1>1, <2>1, <2>2 DEF RefInv, WritesReleasedOnce
<1>. QED
  BY <1>1, <1>5, <1>6, <1>7, <1>8 DEF RefInv

-----------------------------------------------------------------------------
(* bio_queue_dequeue_delay_read().                                         *)

LEMMA LeastExists ==
  ASSUME NEW S \in SUBSET Nat, S # {}
  PROVE  \E i \in S : \A j \in S : i <= j
<1>1. IsWellFoundedOn(OpToRel(<, Nat), Nat)
  BY NatLessThanWellFounded
<1>2. PICK i \in S : \A j \in S : ~ (<<j, i>> \in OpToRel(<, Nat))
  BY <1>1, WFMin
<1>3. \A j \in S : ~ (j < i)
  BY <1>2 DEF OpToRel
<1>. QED
  BY <1>3

\* What is taken is the head, or a write that the read at the head overlaps and
\* no write in between does.
LEMMA DequeuedFacts ==
  ASSUME NEW q \in Seq(CowBio), q # <<>>
  PROVE  /\ Dequeued(q) \in 1 .. Len(q)
         /\ Dequeued(q) # 1 =>
              /\ q[1].dir = "R" /\ q[Dequeued(q)].dir = "W" /\ Overlap(q[1], q[Dequeued(q)])
              /\ \A j \in 2 .. (Dequeued(q) - 1) : ~(q[j].dir = "W" /\ Overlap(q[1], q[j]))
<1>1. Len(q) \in Nat \ {0}
  BY LenProperties, EmptySeq
<1>2. CASE q[1].dir = "R" /\ Overtaking(q) # {}
  <2>. DEFINE S == Overtaking(q)
              d == CHOOSE i \in S : \A j \in S : i <= j
  <2>1. S \in SUBSET Nat /\ S # {}
    BY <1>1, <1>2 DEF Overtaking
  <2>2. d \in S /\ \A j \in S : d <= j
    <3>. HIDE DEF S
    <3>. QED
      BY <2>1, LeastExists
  <2>3. Dequeued(q) = d
    BY <1>2 DEF Dequeued
  <2>. HIDE DEF d
  <2>4. d \in 2 .. Len(q) /\ q[d].dir = "W" /\ Overlap(q[1], q[d])
    BY <2>2 DEF Overtaking
  <2>5. \A j \in 2 .. (d - 1) : j \in 2 .. Len(q) /\ ~(d <= j)
    BY <1>1, <2>4
  <2>6. \A j \in 2 .. (d - 1) : ~(q[j].dir = "W" /\ Overlap(q[1], q[j]))
    BY <2>2, <2>5 DEF Overtaking
  <2>7. d \in 1 .. Len(q)
    BY <1>1, <2>4
  <2>. QED
    BY <1>2, <2>3, <2>4, <2>6, <2>7
<1>3. CASE ~(q[1].dir = "R" /\ Overtaking(q) # {})
  <2>1. Dequeued(q) = 1
    BY <1>3 DEF Dequeued
  <2>. QED
    BY <1>1, <2>1
<1>. QED
  BY <1>2, <1>3

LEMMA RemainingFacts ==
  ASSUME NEW q \in Seq(CowBio), q # <<>>
  PROVE  /\ Len(q) \in Nat \ {0}
         /\ Remaining(q) \in Seq(CowBio) /\ Len(Remaining(q)) = Len(q) - 1
         /\ \A j \in 1 .. (Len(q) - 1) :
              Remaining(q)[j] = IF j + 1 = Dequeued(q) THEN q[1] ELSE q[j + 1]
<1>1. Len(q) \in Nat \ {0}
  BY LenProperties, EmptySeq
<1>. DEFINE n == Len(q) - 1
            f == [j \in 1 .. n |-> IF j + 1 = Dequeued(q) THEN q[1] ELSE q[j + 1]]
<1>2. n \in Nat
  BY <1>1
<1>3. \A i \in 1 .. Len(q) : q[i] \in CowBio
  BY ElementOfSeq
<1>4. \A j \in 1 .. n : j + 1 \in 1 .. Len(q) /\ 1 \in 1 .. Len(q)
  BY <1>1
<1>5. \A j \in 1 .. n : f[j] \in CowBio
  BY <1>3, <1>4
<1>6. f \in [1 .. n -> CowBio]
  BY <1>5
<1>7. Remaining(q) = f
  BY DEF Remaining
<1>. HIDE DEF f
<1>8. f \in Seq(CowBio) /\ Len(f) = n
  <2>. HIDE DEF n
  <2>1. f \in Seq(CowBio)
    BY <1>2, <1>6, SeqDef
  <2>2. Len(f) \in Nat /\ 1 .. Len(f) = 1 .. n
    BY <1>6, <2>1, LenProperties
  <2>. QED
    BY <1>2, <2>1, <2>2
<1>. QED
  BY <1>1, <1>7, <1>8 DEF f

\* Actions of the COW thread, of the readers of the snapshot and of
\* tracer_destroy leave the writes and their clones alone.
LEMMA OthersRefs ==
  ASSUME RefInv, TypeOK', UNCHANGED <<wvars, cvars, orig_bios>>
  PROVE  RefInv'
<1>1. UNCHANGED <<wstate, wbio, refs, read_bios, clones, orig_bios>>
  BY DEF wvars, cvars
<1>. QED
  BY <1>1 DEF RefInv, RefsAreExact, ClonesApart, WritesReleasedOnce

LEMMA DequeueTypes ==
  ASSUME TypeOK, NEW i \in 1 .. Len(cow_bios), CowDequeue(cow_bios[i])
  PROVE  /\ cow_bios # <<>> /\ cow_bios[i] \in CowBio
         /\ cow_bios[i] = cow_bios[Dequeued(cow_bios)]
         /\ cow_bios' = Remaining(cow_bios) /\ cow_bios' \in Seq(CowBio)
<1>1. cow_bios \in Seq(CowBio)
  BY DEF TypeOK
<1>2. Len(cow_bios) \in Nat /\ cow_bios[i] \in CowBio
  BY <1>1, LenProperties, ElementOfSeq
<1>3. cow_bios # <<>>
  BY <1>2, EmptySeq
<1>. QED
  BY <1>1, <1>2, <1>3, RemainingFacts DEF CowDequeue

Result == [status : {"unsubmitted", "pending", "EIO", "success"},
           data : [Blocks -> Contents \cup {None}]]

LEMMA ResultTypes ==
  /\ Unsubmitted \in Result /\ Pending \in Result /\ EIO \in Result
  /\ \A d \in [Blocks -> Contents \cup {None}] : Success(d) \in Result
<1>1. Nothing \in [Blocks -> Contents \cup {None}]
  BY DEF Nothing
<1>. QED
  BY <1>1 DEF Unsubmitted, Pending, EIO, Success, Result

LEMMA CowHandleWriteRefs ==
  ASSUME RefInv, NEW i \in 1 .. Len(cow_bios), CowHandleWrite(cow_bios[i])
  PROVE  RefInv'
<1>. DEFINE bio == cow_bios[i]
<1>1. TypeOK /\ CowDequeue(bio)
  BY DEF RefInv, CowHandleWrite
<1>2. bio \in CowBio /\ cow_bios' \in Seq(CowBio)
  BY <1>1, DequeueTypes
<1>3. /\ \/ stored' = AfterWrite(bio, bio.hi) /\ fail' = fail
         \/ \E upto \in (bio.lo - 1) .. (bio.hi - 1) :
              stored' = AfterWrite(bio, upto) /\ fail' = TRUE
      /\ cow_pc' = "loop"
      /\ UNCHANGED <<disk, wvars, cvars, orig_bios, received, is_failed, reading,
                     result, teardown>>
  BY DEF CowHandleWrite
<1>. HIDE DEF bio
<1>4. \A upto : AfterWrite(bio, upto) \in [Blocks -> Contents \cup {None}]
  <2>1. stored \in [Blocks -> Contents \cup {None}]
    BY <1>1 DEF TypeOK
  <2>2. bio.content \in [Blocks -> Contents \cup {None}]
    BY <1>2 DEF CowBio
  <2>. QED
    BY <2>1, <2>2 DEF AfterWrite
<1>5. stored' \in [Blocks -> Contents \cup {None}]
  BY <1>3, <1>4
<1>7. fail' \in BOOLEAN
  <2>1. fail \in BOOLEAN /\ (fail' = fail \/ fail' = TRUE)
    BY <1>1, <1>3 DEF TypeOK
  <2>. QED
    BY <2>1, Zenon
<1>6. TypeOK'
  BY <1>1, <1>2, <1>3, <1>5, <1>7 DEF TypeOK, wvars, cvars
<1>. QED
  BY <1>3, <1>6, OthersRefs

LEMMA CowHandleReadRefs ==
  ASSUME RefInv, NEW i \in 1 .. Len(cow_bios), CowHandleRead(cow_bios[i])
  PROVE  RefInv'
<1>. DEFINE bio == cow_bios[i]
            f == [b \in Blocks |-> IF b \in Interval(bio) THEN stored[b] ELSE None]
<1>1. TypeOK /\ CowDequeue(bio)
  BY DEF RefInv, CowHandleRead
<1>2. bio \in CowBio /\ cow_bios' \in Seq(CowBio)
  BY <1>1, DequeueTypes
<1>3. /\ \/ cow_pc' = "base" /\ reading' = bio /\ fail' = fail /\ result' = result
         \/ /\ result' = [result EXCEPT ![bio.id] = Success(f)]
            /\ cow_pc' = "loop" /\ fail' = fail /\ reading' = reading
         \/ /\ fail' = TRUE /\ result' = [result EXCEPT ![bio.id] = EIO]
            /\ cow_pc' = "loop" /\ reading' = reading
      /\ UNCHANGED <<disk, wvars, cvars, orig_bios, received, stored, is_failed, teardown>>
  BY DEF CowHandleRead
<1>4. f \in [Blocks -> Contents \cup {None}]
  BY <1>1 DEF TypeOK
<1>. HIDE DEF f, bio
<1>5. Success(f) \in Result /\ EIO \in Result
  BY <1>4, ResultTypes
<1>6. result \in [Reads -> Result] /\ fail \in BOOLEAN /\ reading \in CowBio \cup {None}
  BY <1>1 DEF TypeOK, Result
<1>7. result' \in [Reads -> Result] /\ fail' \in BOOLEAN /\ reading' \in CowBio \cup {None}
      /\ cow_pc' \in {"loop", "wait", "checked", "base", "empty", "gone"}
  BY <1>2, <1>3, <1>5, <1>6
<1>8. TypeOK'
  BY <1>1, <1>2, <1>3, <1>7 DEF TypeOK, wvars, cvars, Result
<1>. QED
  BY <1>3, <1>8, OthersRefs

LEMMA CowDropRefs ==
  ASSUME RefInv, NEW i \in 1 .. Len(cow_bios), CowDrop(cow_bios[i])
  PROVE  RefInv'
<1>. DEFINE bio == cow_bios[i]
<1>1. TypeOK /\ CowDequeue(bio)
  BY DEF RefInv, CowDrop
<1>2. bio \in CowBio /\ cow_bios' \in Seq(CowBio)
  BY <1>1, DequeueTypes
<1>3. /\ result' = [result EXCEPT ![bio.id] = EIO] \/ result' = result
      /\ cow_pc' = "loop"
      /\ UNCHANGED <<disk, wvars, cvars, orig_bios, received, fail, stored,
                     is_failed, reading, teardown>>
  BY DEF CowDrop
<1>. HIDE DEF bio
<1>4. result \in [Reads -> Result] /\ EIO \in Result
  BY <1>1, ResultTypes DEF TypeOK, Result
<1>5. result' \in [Reads -> Result]
  BY <1>3, <1>4
<1>6. TypeOK'
  BY <1>1, <1>2, <1>3, <1>5 DEF TypeOK, wvars, cvars, Result
<1>. QED
  BY <1>3, <1>6, OthersRefs

LEMMA CowReadBaseRefs ==
  ASSUME RefInv, CowReadBase
  PROVE  RefInv'
<1>. DEFINE f == [b \in Blocks |-> IF b \notin Interval(reading) THEN None
                                   ELSE IF stored[b] # None THEN stored[b] ELSE disk[b]]
<1>1. /\ result' = [result EXCEPT ![reading.id] = Success(f)]
      /\ cow_pc' = "loop" /\ reading' = None
      /\ UNCHANGED <<disk, wvars, cvars, cow_bios, orig_bios, received, fail,
                     stored, is_failed, teardown>>
  BY DEF CowReadBase
<1>2. TypeOK
  BY DEF RefInv
<1>3. f \in [Blocks -> Contents \cup {None}]
  BY <1>2 DEF TypeOK
<1>. HIDE DEF f
<1>4. result \in [Reads -> Result] /\ Success(f) \in Result
  BY <1>2, <1>3, ResultTypes DEF TypeOK, Result
<1>5. result' \in [Reads -> Result]
  BY <1>1, <1>4
<1>6. TypeOK'
  BY <1>1, <1>2, <1>5 DEF TypeOK, wvars, cvars, Result
<1>. QED
  BY <1>1, <1>6, OthersRefs

LEMMA CowReadBaseFailsRefs ==
  ASSUME RefInv, CowReadBaseFails
  PROVE  RefInv'
<1>1. /\ result' = [result EXCEPT ![reading.id] = EIO] /\ fail' = TRUE
      /\ cow_pc' = "loop" /\ reading' = None
      /\ UNCHANGED <<disk, wvars, cvars, cow_bios, orig_bios, received,
                     stored, is_failed, teardown>>
  BY DEF CowReadBaseFails
<1>2. TypeOK
  BY DEF RefInv
<1>4. result \in [Reads -> Result] /\ EIO \in Result
  BY <1>2, ResultTypes DEF TypeOK, Result
<1>5. result' \in [Reads -> Result]
  BY <1>1, <1>4
<1>6. TypeOK'
  BY <1>1, <1>2, <1>5 DEF TypeOK, wvars, cvars, Result
<1>. QED
  BY <1>1, <1>6, OthersRefs

\* The steps of the COW thread that take no bio.
LEMMA CowStepRefs ==
  ASSUME RefInv, CowLoop \/ CowComparesCounts \/ CowWakes
  PROVE  RefInv'
<1>1. TypeOK
  BY DEF RefInv
<1>2. UNCHANGED <<wvars, cvars, orig_bios>>
  BY DEF CowLoop, CowComparesCounts, CowWakes
<1>3. CASE CowLoop
  <2>1. TypeOK'
    BY <1>1, <1>3 DEF CowLoop, TypeOK, wvars, cvars
  <2>. QED
    BY <1>2, <2>1, OthersRefs
<1>4. CASE CowComparesCounts
  <2>1. TypeOK'
    BY <1>1, <1>4 DEF CowComparesCounts, TypeOK, wvars, cvars, Steps
  <2>. QED
    BY <1>2, <2>1, OthersRefs
<1>5. CASE CowWakes
  <2>1. stored' \in [Blocks -> Contents \cup {None}]
    BY <1>1, <1>5 DEF CowWakes, TypeOK, Nothing
  <2>2. TypeOK'
    BY <1>1, <1>5, <2>1 DEF CowWakes, TypeOK, wvars, cvars
  <2>. QED
    BY <1>2, <2>2, OthersRefs
<1>. QED
  BY <1>3, <1>4, <1>5

LEMMA SnapReadRefs ==
  ASSUME RefInv, NEW r \in Reads, NEW lo \in Blocks, NEW hi \in Blocks, SnapRead(r, lo, hi)
  PROVE  RefInv'
<1>. DEFINE e == [dir |-> "R", id |-> r, lo |-> lo, hi |-> hi, content |-> Nothing]
<1>1. /\ result' = [result EXCEPT ![r] = EIO] \/ result' = [result EXCEPT ![r] = Pending]
      /\ cow_bios' = cow_bios \/ cow_bios' = Append(cow_bios, e)
      /\ UNCHANGED <<disk, wvars, cvars, orig_bios, received, fail, stored,
                     is_failed, cow_pc, reading, teardown>>
  BY DEF SnapRead
<1>2. TypeOK
  BY DEF RefInv
<1>3. e \in CowBio
  BY DEF CowBio, Nothing
<1>. HIDE DEF e
<1>4. cow_bios' \in Seq(CowBio)
  <2>1. cow_bios \in Seq(CowBio)
    BY <1>2 DEF TypeOK
  <2>2. Append(cow_bios, e) \in Seq(CowBio)
    BY <1>3, <2>1, AppendProperties
  <2>. QED
    BY <1>1, <2>1, <2>2
<1>5. result \in [Reads -> Result] /\ EIO \in Result /\ Pending \in Result
  BY <1>2, ResultTypes DEF TypeOK, Result
<1>6. result' \in [Reads -> Result]
  BY <1>1, <1>5
<1>7. TypeOK'
  BY <1>1, <1>2, <1>4, <1>6 DEF TypeOK, wvars, cvars, Result
<1>. QED
  BY <1>1, <1>7, OthersRefs

LEMMA DestroyerRefs ==
  ASSUME RefInv, Destroyer
  PROVE  RefInv'
<1>1. /\ teardown' \in Steps
      /\ UNCHANGED <<disk, wvars, cvars, cow_bios, orig_bios, received, fail, tvars>>
  BY DEF Destroyer, StopTracing, ClonesWaitedFor, MrfThreadExits, ReadThreadExits, Steps
<1>2. TypeOK'
  BY <1>1 DEF RefInv, TypeOK, wvars, cvars, tvars
<1>. QED
  BY <1>1, <1>2, OthersRefs

LEMMA RefInvInitially == Init => RefInv
<1>. SUFFICES ASSUME Init PROVE RefInv
  OBVIOUS
<1>1. 0 \in Blocks /\ Nothing \in [Blocks -> Contents \cup {None}]
  BY SnapCowAssumption DEF Blocks, Nothing
<1>2. result \in [Reads -> Result]
  BY ResultTypes DEF Init
<1>3. /\ read_bios = <<>> /\ clones = {} /\ cow_bios = <<>> /\ orig_bios = <<>>
      /\ refs = [w \in Writes |-> 0] /\ wstate = [w \in Writes |-> "new"]
  BY DEF Init
<1>4. /\ <<>> \in Seq([w : Writes, lo : Blocks, hi : Blocks])
      /\ <<>> \in Seq(CowBio) /\ <<>> \in Seq(Writes) /\ Len(<<>>) = 0
  BY EmptySeq
<1>5. TypeOK
  <2>1. disk \in [Blocks -> Contents] /\ stored \in [Blocks -> Contents \cup {None}]
    BY <1>1 DEF Init, Contents
  <2>2. wstate \in [Writes -> WStates] /\ refs \in [Writes -> Int]
    BY <1>3 DEF WStates
  <2>3. wbio \in [Writes -> [lo : Blocks, hi : Blocks, next : Nat]]
    BY <1>1 DEF Init
  <2>4. fail \in BOOLEAN /\ is_failed \in BOOLEAN /\ reading \in CowBio \cup {None}
    BY DEF Init
  <2>5. submitted \in Nat /\ received \in Nat /\ teardown \in Steps
        /\ cow_pc \in {"loop", "wait", "checked", "base", "empty", "gone"}
    BY DEF Init, Steps
  <2>. QED
    BY <1>2, <1>3, <1>4, <2>1, <2>2, <2>3, <2>4, <2>5 DEF TypeOK, Result
<1>6. RefsAreExact
  <2>. SUFFICES ASSUME NEW w \in Writes
                PROVE  refs[w] = Cardinality(PendIn(read_bios, w)) + Cardinality(OutIn(clones, w))
                                 + (IF wstate[w] = "tracing" THEN 1 ELSE 0)
    BY DEF RefsAreExact, PendIn, OutIn
  <2>1. PendIn(read_bios, w) = {} /\ OutIn(clones, w) = {}
    BY <1>3, <1>4 DEF PendIn, OutIn
  <2>2. Cardinality({}) = 0
    BY FS_EmptySet
  <2>3. refs[w] = 0 /\ wstate[w] = "new"
    BY <1>3
  <2>. QED
    BY <2>1, <2>2, <2>3
<1>7. DOMAIN <<>> = {}
  BY <1>4, LenProperties
<1>8. ClonesApart /\ WritesReleasedOnce
  BY <1>3, <1>7 DEF ClonesApart, WritesReleasedOnce
<1>9. IsFiniteSet(clones)
  BY <1>3, FS_EmptySet
<1>. QED
  BY <1>5, <1>6, <1>8, <1>9 DEF RefInv

LEMMA RefInvInductive == RefInv /\ [Next]_vars => RefInv'
<1>. SUFFICES ASSUME RefInv, [Next]_vars PROVE RefInv'
  OBVIOUS
<1>1. ASSUME NEW w \in Writes, Writer(w) PROVE RefInv'
  <2>0. fail \in BOOLEAN
    BY DEF RefInv, TypeOK
  <2>1. CASE \E lo, hi \in Blocks : TraceWrite(w, lo, hi) \/ PassWrite(w, lo, hi)
    BY <2>1, TraceWriteRefs, PassWriteRefs
  <2>2. CASE MakeClone(w)
    BY <2>2, MakeCloneRefs
  <2>3. CASE MakeCloneFails(w)
    BY <2>3, TracerPutRefs DEF MakeCloneFails
  <2>4. CASE TraceDone(w)
    BY <2>0, <2>4, TracerPutRefs DEF TraceDone
  <2>. QED
    BY <1>1, <2>1, <2>2, <2>3, <2>4 DEF Writer
<1>2. CASE BaseDevice
  <2>0. fail \in BOOLEAN
    BY DEF RefInv, TypeOK
  <2>1. ASSUME NEW c \in clones, ReleaseClone(c) PROVE RefInv'
    BY <2>0, <2>1, ClonePutRefs DEF ReleaseClone
  <2>2. ASSUME NEW c \in clones, CloneError(c) PROVE RefInv'
    BY <2>2, ClonePutRefs DEF CloneError
  <2>. QED
    BY <1>2, <2>1, <2>2, BaseReadRefs, CaptureCloneRefs, BaseWriteRefs DEF BaseDevice
<1>3. CASE CowThread
  BY <1>3, CowStepRefs, CowHandleWriteRefs, CowHandleReadRefs, CowDropRefs, CowReadBaseRefs,
     CowReadBaseFailsRefs DEF CowThread
<1>4. CASE UNCHANGED vars
  <2>1. TypeOK'
    BY <1>4 DEF RefInv, TypeOK, vars, wvars, cvars, tvars
  <2>. QED
    BY <1>4, <2>1, OthersRefs DEF vars
<1>. QED
  BY <1>1, <1>2, <1>3, <1>4, SubmitCloneRefs, SubmitOrigRefs, SnapReadRefs, DestroyerRefs DEF Next

\* The types of the data path, the counters of clones, and the queues.
THEOREM TypeOKIsInvariant == Spec => []TypeOK
<1>1. RefInv => TypeOK
  BY DEF RefInv
<1>. QED
  BY <1>1, RefInvInitially, RefInvInductive, PTL DEF Spec

\* tp->refs is at every moment the number of read clones of the write that
\* are queued or with the base device, and one more while snap_trace_bio()
\* works on it: tp_put() reaches zero once, after the last clone.
THEOREM RefsAreExactIsInvariant == Spec => []RefsAreExact
<1>1. RefInv => RefsAreExact
  BY DEF RefInv
<1>. QED
  BY <1>1, RefInvInitially, RefInvInductive, PTL DEF Spec

-----------------------------------------------------------------------------
(* The old content in the queue.                                           *)

LEMMA OldIsNotNone == Old # None /\ Old \notin Writes
  BY SnapCowAssumption

LEMMA CowBioTypes ==
  ASSUME NEW q \in Seq(CowBio), NEW i \in 1 .. Len(q)
  PROVE  q[i] \in CowBio /\ q[i].lo \in Int /\ q[i].hi \in Int /\ q[i].dir \in {"W", "R"}
<1>1. q[i] \in CowBio
  BY ElementOfSeq
<1>. QED
  BY <1>1, BlocksAreNat DEF CowBio

\* What is added to the queue does not hide what is in it.
LEMMA SafeAppend ==
  ASSUME NEW q \in Seq(CowBio), NEW e \in CowBio, NEW s, NEW b, SafeIn(q, s, b)
  PROVE  SafeIn(Append(q, e), s, b)
<1>. DEFINE p == Append(q, e)
<1>1. CASE s[b] = Old
  BY <1>1 DEF SafeIn
<1>2. CASE s[b] # Old
  <2>1. Len(q) \in Nat
    BY LenProperties
  <2>2. Len(p) = Len(q) + 1 /\ \A i \in 1 .. Len(q) : p[i] = q[i]
    BY <2>1, AppendProperties
  <2>. HIDE DEF p
  <2>3. s[b] = None
    BY <1>2 DEF SafeIn
  <2>4. PICK i \in 1 .. Len(q) :
          /\ GoodIn(q, i, b)
          /\ \A j \in 1 .. (i - 1) : q[j].dir = "W" /\ b \in Interval(q[j]) => GoodIn(q, j, b)
    BY <1>2 DEF SafeIn
  <2>5. i \in 1 .. Len(p) /\ \A j \in 1 .. (i - 1) : j \in 1 .. Len(q)
    BY <2>1, <2>2
  <2>6. GoodIn(p, i, b)
    BY <2>2, <2>4 DEF GoodIn
  <2>7. \A j \in 1 .. (i - 1) : p[j].dir = "W" /\ b \in Interval(p[j]) => GoodIn(p, j, b)
    BY <2>2, <2>4, <2>5 DEF GoodIn
  <2>. QED
    BY <2>3, <2>5, <2>6, <2>7 DEF SafeIn, p
<1>. QED
  BY <1>1, <1>2

\* A clone that read the old content makes it safe, unless it was already.
LEMMA SafeCapture ==
  ASSUME NEW q \in Seq(CowBio), NEW e \in CowBio, NEW s, NEW b, s[b] \in {None, Old},
         e.dir = "W", b \in Interval(e),
         e.content[b] = Old \/ SafeIn(q, s, b),
         \A i \in 1 .. Len(q) :
           q[i].dir = "W" /\ b \in Interval(q[i]) => q[i].content[b] = Old \/ SafeIn(q, s, b)
  PROVE  SafeIn(Append(q, e), s, b)
<1>. DEFINE p == Append(q, e)
            n == Len(q) + 1
<1>1. CASE SafeIn(q, s, b)
  BY <1>1, SafeAppend
<1>2. CASE ~SafeIn(q, s, b)
  <2>1. Len(q) \in Nat
    BY LenProperties
  <2>2. Len(p) = n /\ p[n] = e /\ \A i \in 1 .. Len(q) : p[i] = q[i]
    BY <2>1, AppendProperties
  <2>3. n \in 1 .. n /\ 1 .. (n - 1) = 1 .. Len(q)
    BY <2>1
  <2>. HIDE DEF p, n
  <2>4. s[b] = None
    BY <1>2 DEF SafeIn
  <2>5. GoodIn(p, n, b)
    BY <1>2, <2>2 DEF GoodIn
  <2>6. \A j \in 1 .. (n - 1) : p[j].dir = "W" /\ b \in Interval(p[j]) => GoodIn(p, j, b)
    BY <1>2, <2>2, <2>3 DEF GoodIn
  <2>. QED
    BY <2>2, <2>3, <2>4, <2>5, <2>6 DEF SafeIn, p
<1>. QED
  BY <1>1, <1>2

QueueSizes(q) ==
  \A i \in 1 .. Len(q) :
    /\ q[i].dir = "W" => q[i].hi < q[i].lo + MaxClone
    /\ q[i].dir = "R" => q[i].id \in Reads

LEMMA OneBlock ==
  ASSUME NEW l \in Int, NEW h \in Int, NEW b \in Int, l <= b, b <= h, h < l + 1
  PROVE  l = b /\ h = b
  OBVIOUS

\* Of the clones of a block the first is taken first.
LEMMA DequeuedIsFirst ==
  ASSUME KeepsOrder, NEW q \in Seq(CowBio), q # <<>>, QueueSizes(q), NEW b \in Int,
         q[Dequeued(q)].dir = "W", b \in Interval(q[Dequeued(q)])
  PROVE  \A j \in 1 .. (Dequeued(q) - 1) : ~(q[j].dir = "W" /\ b \in Interval(q[j]))
<1>1. PICK d : d = Dequeued(q)
  OBVIOUS
<1>2. /\ d \in 1 .. Len(q)
      /\ d # 1 =>
           /\ q[1].dir = "R" /\ Overlap(q[1], q[d])
           /\ \A j \in 2 .. (d - 1) : ~(q[j].dir = "W" /\ Overlap(q[1], q[j]))
  BY <1>1, DequeuedFacts
<1>3. Len(q) \in Nat \ {0}
  BY LenProperties, EmptySeq
<1>. SUFFICES ASSUME NEW j \in 1 .. (d - 1), q[j].dir = "W", b \in Interval(q[j])
              PROVE  FALSE
  BY <1>1
<1>4. d # 1 /\ j \in 1 .. Len(q) /\ 1 \in 1 .. Len(q)
  BY <1>2, <1>3
<1>5. q[1].dir = "R" /\ q[1].id \in Reads
  BY <1>2, <1>4 DEF QueueSizes
<1>6. MaxClone = 1
  BY <1>5 DEF KeepsOrder
<1>7. j # 1 /\ j \in 2 .. (d - 1)
  <2>1. j # 1
    BY <1>5
  <2>. QED
    BY <1>2, <1>3, <2>1
<1>8. /\ q[j].lo \in Int /\ q[j].hi \in Int /\ q[d].lo \in Int /\ q[d].hi \in Int
  BY <1>2, <1>4, CowBioTypes
<1>9. q[j].hi < q[j].lo + 1 /\ q[d].hi < q[d].lo + 1
  BY <1>1, <1>2, <1>4, <1>6 DEF QueueSizes
<1>10. q[j].lo <= b /\ b <= q[j].hi
  BY <1>8 DEF Interval
<1>11. q[d].lo <= b /\ b <= q[d].hi
  BY <1>1, <1>8 DEF Interval
<1>12. q[j].lo = q[d].lo /\ q[j].hi = q[d].hi
  <2>1. q[j].lo = b /\ q[j].hi = b
    BY <1>8, <1>9, <1>10, OneBlock
  <2>2. q[d].lo = b /\ q[d].hi = b
    BY <1>8, <1>9, <1>11, OneBlock
  <2>. QED
    BY <2>1, <2>2
<1>13. Overlap(q[1], q[j])
  BY <1>2, <1>4, <1>12 DEF Overlap
<1>. QED
  BY <1>2, <1>4, <1>7, <1>13

\* The COW file after the COW thread has handled a bio.
Handled(e, s, b) ==
  IF e.dir = "W" /\ b \in Interval(e) /\ s[b] = None THEN e.content[b] ELSE s[b]

\* Taking a bio from the queue and handling it keeps the old content.
LEMMA SafeDequeue ==
  ASSUME KeepsOrder, NEW q \in Seq(CowBio), q # <<>>, QueueSizes(q), NEW b \in Int,
         NEW s, NEW t, t[b] = Handled(q[Dequeued(q)], s, b), SafeIn(q, s, b)
  PROVE  SafeIn(Remaining(q), t, b)
<1>. DEFINE p == Remaining(q)
<1>1. PICK d : d = Dequeued(q)
  OBVIOUS
<1>2. /\ d \in 1 .. Len(q) /\ (d # 1 => q[1].dir = "R" /\ q[d].dir = "W")
      /\ Len(q) \in Nat \ {0} /\ Len(p) = Len(q) - 1
      /\ \A j \in 1 .. (Len(q) - 1) : p[j] = IF j + 1 = d THEN q[1] ELSE q[j + 1]
  BY <1>1, DequeuedFacts, RemainingFacts
<1>. HIDE DEF p
<1>3. CASE s[b] = Old
  <2>1. t[b] = Old
    BY <1>3, OldIsNotNone DEF Handled
  <2>. QED
    BY <2>1 DEF SafeIn
<1>4. CASE s[b] # Old
  <2>1. s[b] = None
    BY <1>4 DEF SafeIn
  <2>2. PICK i \in 1 .. Len(q) :
          /\ GoodIn(q, i, b)
          /\ \A j \in 1 .. (i - 1) : q[j].dir = "W" /\ b \in Interval(q[j]) => GoodIn(q, j, b)
    BY <1>4 DEF SafeIn
  <2>3. CASE q[d].dir = "W" /\ b \in Interval(q[d])
    <3>1. t[b] = q[d].content[b]
      BY <1>1, <2>1, <2>3 DEF Handled
    <3>2. \A j \in 1 .. (d - 1) : ~(q[j].dir = "W" /\ b \in Interval(q[j]))
      BY <1>1, <2>3, DequeuedIsFirst
    <3>3. i \notin 1 .. (d - 1)
      BY <2>2, <3>2 DEF GoodIn
    <3>4. i = d \/ d \in 1 .. (i - 1)
      BY <1>2, <3>3
    <3>5. q[d].content[b] = Old
      BY <2>2, <2>3, <3>4 DEF GoodIn
    <3>. QED
      BY <3>1, <3>5 DEF SafeIn
  <2>4. CASE ~(q[d].dir = "W" /\ b \in Interval(q[d]))
    <3>1. t[b] = None
      BY <1>1, <2>1, <2>4 DEF Handled
    <3>2. i # d
      BY <2>2, <2>4 DEF GoodIn
    <3>3. i # 1
      <4>1. q[1].dir = "R" => i # 1
        BY <2>2 DEF GoodIn
      <4>. QED
        BY <1>2, <3>2, <4>1
    <3>4. PICK k \in 1 .. Len(p) : k + 1 = i /\ k \in 1 .. (Len(q) - 1)
      <4>1. i - 1 \in 1 .. Len(p) /\ (i - 1) + 1 = i /\ i - 1 \in 1 .. (Len(q) - 1)
        BY <1>2, <3>3
      <4>. QED
        BY <4>1
    <3>5. p[k] = q[i]
      BY <1>2, <3>2, <3>4
    <3>6. GoodIn(p, k, b)
      BY <2>2, <3>5 DEF GoodIn
    <3>7. ASSUME NEW j \in 1 .. (k - 1), p[j].dir = "W", b \in Interval(p[j])
          PROVE  GoodIn(p, j, b)
      <4>1. j \in 1 .. (Len(q) - 1) /\ j + 1 \in 1 .. (i - 1) /\ j + 1 # 1
        BY <1>2, <3>4
      <4>2. CASE j + 1 = d
        <5>1. p[j] = q[1] /\ q[1].dir = "R"
          BY <1>2, <4>1, <4>2
        <5>. QED
          BY <3>7, <5>1
      <4>3. CASE j + 1 # d
        <5>1. p[j] = q[j + 1]
          BY <1>2, <4>1, <4>3
        <5>. QED
          BY <2>2, <3>7, <4>1, <5>1 DEF GoodIn
      <4>. QED
        BY <4>2, <4>3
    <3>8. \A j \in 1 .. (k - 1) : p[j].dir = "W" /\ b \in Interval(p[j]) => GoodIn(p, j, b)
      BY <3>7, Zenon
    <3>9. \E l \in 1 .. Len(p) :
            /\ GoodIn(p, l, b)
            /\ \A j \in 1 .. (l - 1) : p[j].dir = "W" /\ b \in Interval(p[j]) => GoodIn(p, j, b)
      BY <3>4, <3>6, <3>8, Zenon
    <3>. QED
      BY <3>1, <3>9 DEF SafeIn, p
  <2>. QED
    BY <2>3, <2>4
<1>. QED
  BY <1>3, <1>4 DEF p

\* What is put into the COW file is the old content.
LEMMA HandledIsOld ==
  ASSUME KeepsOrder, NEW q \in Seq(CowBio), q # <<>>, QueueSizes(q), NEW b \in Int,
         NEW s, s[b] \in {None, Old},
         \A i \in 1 .. Len(q) :
           q[i].dir = "W" /\ b \in Interval(q[i]) => q[i].content[b] = Old \/ SafeIn(q, s, b)
  PROVE  Handled(q[Dequeued(q)], s, b) \in {None, Old}
<1>1. PICK d : d = Dequeued(q)
  OBVIOUS
<1>2. d \in 1 .. Len(q) /\ Len(q) \in Nat
  BY <1>1, DequeuedFacts, LenProperties
<1>3. CASE q[d].dir = "W" /\ b \in Interval(q[d]) /\ s[b] = None
  <2>1. \A j \in 1 .. (d - 1) : ~(q[j].dir = "W" /\ b \in Interval(q[j]))
    BY <1>1, <1>3, DequeuedIsFirst
  <2>2. CASE SafeIn(q, s, b)
    <3>1. PICK i \in 1 .. Len(q) :
            /\ GoodIn(q, i, b)
            /\ \A j \in 1 .. (i - 1) : q[j].dir = "W" /\ b \in Interval(q[j]) => GoodIn(q, j, b)
      BY <1>3, <2>2, OldIsNotNone DEF SafeIn
    <3>2. i \notin 1 .. (d - 1)
      BY <2>1, <3>1 DEF GoodIn
    <3>3. i = d \/ d \in 1 .. (i - 1)
      BY <1>2, <3>2
    <3>4. q[d].content[b] = Old
      BY <1>3, <3>1, <3>3 DEF GoodIn
    <3>. QED
      BY <1>1, <1>3, <3>4 DEF Handled
  <2>3. CASE ~SafeIn(q, s, b)
    <3>1. q[d].content[b] = Old
      BY <1>2, <1>3, <2>3
    <3>. QED
      BY <1>1, <1>3, <3>1 DEF Handled
  <2>. QED
    BY <2>2, <2>3
<1>4. CASE ~(q[d].dir = "W" /\ b \in Interval(q[d]) /\ s[b] = None)
  BY <1>1, <1>4 DEF Handled
<1>. QED
  BY <1>3, <1>4

-----------------------------------------------------------------------------
(* The old content is kept by every step.                                  *)

\* The old content of a block that was overwritten is safe.
LEMMA OverwrittenSafe ==
  ASSUME RefInv, DataInv, ~fail, NEW b \in Blocks, disk[b] # Old
  PROVE  SafeIn(cow_bios, stored, b)
<1>. DEFINE v == disk[b]
<1>1. v \in Writes
  BY DEF RefInv, TypeOK, Contents
<1>2. wstate[v] = "done" /\ b \in Interval(wbio[v])
  BY DEF DataInv, DiskInv
<1>3. KeptInv
  BY DEF DataInv
<1>. HIDE DEF v
<1>4. wbio[v].next > wbio[v].hi
  BY <1>1, <1>2, <1>3 DEF KeptInv, WholeCloned
<1>5. wbio[v].lo \in Int /\ wbio[v].hi \in Int /\ wbio[v].next \in Int /\ b \in Int
  <2>1. wbio \in [Writes -> [lo : Blocks, hi : Blocks, next : Nat]]
    BY DEF RefInv, TypeOK
  <2>. QED
    <3>1. wbio[v].lo \in Blocks /\ wbio[v].hi \in Blocks /\ wbio[v].next \in Nat
      BY <1>1, <2>1
    <3>2. \A x \in Blocks : x \in Int
      BY BlocksAreNat
    <3>3. \A x \in Nat : x \in Int
      OBVIOUS
    <3>. QED
      BY <3>1, <3>2, <3>3, Zenon
<1>6. b < wbio[v].next
  BY <1>2, <1>4, <1>5 DEF Interval
<1>7. Awaited(v, b) \/ SafeIn(cow_bios, stored, b)
  BY <1>1, <1>2, <1>3, <1>6 DEF KeptInv, ClonedKept
<1>8. /\ \A c \in clones : c.w # v
      /\ \A i \in DOMAIN read_bios : read_bios[i].w # v
  BY <1>1, <1>2, NoCloneLeft
<1>. QED
  BY <1>7, <1>8 DEF Awaited

\* Steps that move writes along, or touch none of the data.
LEMMA DataFrame ==
  ASSUME DataInv, UNCHANGED <<disk, wbio, read_bios, clones, cow_bios, stored>>,
         is_failed' => fail', fail => fail', RefInv,
         \A w \in Writes : wstate'[w] # "new" => wstate[w] # "new",
         \A w \in Writes : wstate[w] = "done" => wstate'[w] = "done",
         ~fail' => WholeCloned'
  PROVE  DataInv'
<1>1. SizesInv'
  BY DEF DataInv, SizesInv
<1>2. DiskInv'
  <2>1. \A b \in Blocks : disk[b] # Old => disk[b] \in Writes
    BY DEF RefInv, TypeOK, Contents
  <2>. QED
    BY <2>1 DEF DataInv, DiskInv
<1>3. ASSUME ~fail' PROVE KeptInv'
  <2>1. KeptInv
    BY <1>3 DEF DataInv
  <2>2. ClonedKept'
    BY <2>1 DEF KeptInv, ClonedKept, Awaited
  <2>3. ReadKept' /\ QueueKept' /\ StoredOld'
    BY <2>1 DEF KeptInv, ReadKept, QueueKept, StoredOld
  <2>. QED
    BY <1>3, <2>2, <2>3 DEF KeptInv
<1>. QED
  BY <1>1, <1>2, <1>3 DEF DataInv

LEMMA NewWriteData ==
  ASSUME RefInv, DataInv, NEW w \in Writes, NEW lo \in Blocks, NEW hi \in Blocks,
         TraceWrite(w, lo, hi) \/ PassWrite(w, lo, hi)
  PROVE  DataInv'
<1>1. /\ wstate[w] = "new"
      /\ wbio' = [wbio EXCEPT ![w] = [lo |-> lo, hi |-> hi, next |-> lo]]
      /\ UNCHANGED <<disk, read_bios, clones, cow_bios, stored, is_failed>>
      /\ \/ wstate' = [wstate EXCEPT ![w] = "tracing"] /\ fail' = fail
         \/ wstate' = [wstate EXCEPT ![w] = "issued"] /\ fail' = TRUE
  <2>1. CASE TraceWrite(w, lo, hi)
    BY <2>1 DEF TraceWrite, cvars, tvars
  <2>2. CASE PassWrite(w, lo, hi)
    BY <2>2 DEF PassWrite, cvars, tvars
  <2>. QED
    BY <2>1, <2>2
<1>2. /\ wstate \in [Writes -> WStates]
      /\ wbio \in [Writes -> [lo : Blocks, hi : Blocks, next : Nat]]
      /\ disk \in [Blocks -> Contents]
  BY DEF RefInv, TypeOK
<1>3. \A u \in Writes : u # w => wstate'[u] = wstate[u] /\ wbio'[u] = wbio[u]
  BY <1>1, <1>2
<1>4. SizesInv'
  BY <1>1 DEF DataInv, SizesInv
<1>5. DiskInv'
  <2>1. \A b \in Blocks : disk[b] # Old => disk[b] \in Writes /\ wstate[disk[b]] = "done"
    BY <1>2 DEF DataInv, DiskInv, Contents
  <2>2. \A b \in Blocks : disk[b] # Old => disk[b] # w
    BY <1>1, <2>1
  <2>. QED
    BY <1>1, <1>3, <2>1, <2>2 DEF DataInv, DiskInv
<1>6. is_failed' => fail'
  BY <1>1 DEF DataInv
<1>7. ASSUME ~fail' PROVE KeptInv'
  <2>1. KeptInv /\ wstate'[w] = "tracing" /\ wbio'[w].next = lo /\ wbio'[w].lo = lo
    BY <1>1, <1>2, <1>7 DEF DataInv
  <2>2. WholeCloned'
    BY <1>3, <2>1 DEF KeptInv, WholeCloned
  <2>3. ClonedKept'
    <3>. SUFFICES ASSUME NEW u \in Writes, NEW b \in Blocks, wstate'[u] # "new",
                         b \in Interval(wbio'[u]), b < wbio'[u].next
                  PROVE  Awaited(u, b) \/ SafeIn(cow_bios, stored, b)
      BY <1>1 DEF ClonedKept, Awaited
    <3>1. CASE u = w
      <4>1. b \in Int /\ lo \in Int /\ wbio'[w].hi \in Int
        BY <1>1, <1>2, BlocksAreNat
      <4>2. lo <= b /\ b < lo
        BY <2>1, <3>1, <4>1 DEF Interval
      <4>. QED
        BY <4>1, <4>2
    <3>2. CASE u # w
      BY <1>3, <2>1, <3>2 DEF KeptInv, ClonedKept
    <3>. QED
      BY <3>1, <3>2
  <2>4. ReadKept' /\ QueueKept' /\ StoredOld'
    BY <1>1, <2>1 DEF KeptInv, ReadKept, QueueKept, StoredOld
  <2>. QED
    BY <2>2, <2>3, <2>4 DEF KeptInv
<1>. QED
  BY <1>4, <1>5, <1>6, <1>7 DEF DataInv

LEMMA MakeCloneData ==
  ASSUME RefInv, DataInv, NEW w \in Writes, MakeClone(w)
  PROVE  DataInv'
<1>1. /\ wstate[w] = "tracing"
      /\ UNCHANGED <<disk, wstate, clones, cow_bios, fail, stored, is_failed>>
  BY DEF MakeClone, tvars
<1>2. /\ wbio \in [Writes -> [lo : Blocks, hi : Blocks, next : Nat]]
      /\ read_bios \in Seq(ReadBio) /\ disk \in [Blocks -> Contents]
  BY DEF RefInv, TypeOK, ReadBio
<1>3. PICK hi \in wbio[w].next .. wbio[w].hi :
        /\ hi < wbio[w].next + MaxClone
        /\ read_bios' = Append(read_bios, [w |-> w, lo |-> wbio[w].next, hi |-> hi])
        /\ wbio' = [wbio EXCEPT ![w].next = hi + 1]
  BY DEF MakeClone
<1>4. PICK n : n = wbio[w].next
  OBVIOUS
<1>. DEFINE e == [w |-> w, lo |-> n, hi |-> hi]
<1>5. n \in Nat /\ hi \in Nat /\ n <= hi /\ hi <= wbio[w].hi /\ n \in Blocks /\ hi \in Blocks
  <2>1. n \in Nat /\ wbio[w].hi \in Blocks /\ wbio[w].hi \in Nat
    BY <1>2, <1>4, BlocksAreNat
  <2>2. hi \in Nat /\ n <= hi /\ hi <= wbio[w].hi
    BY <1>3, <1>4, <2>1
  <2>. QED
    BY <2>1, <2>2, BlocksAreNat
<1>6. e \in ReadBio /\ e.w = w /\ e.lo = n /\ e.hi = hi
  BY <1>5 DEF ReadBio
<1>7. PICK m : m = Len(read_bios) + 1
  OBVIOUS
<1>8. /\ DOMAIN read_bios = 1 .. Len(read_bios)
      /\ read_bios'[m] = e /\ \A i \in 1 .. Len(read_bios) : read_bios'[i] = read_bios[i]
      /\ DOMAIN read_bios' = (1 .. Len(read_bios)) \cup {m}
  <2>1. Len(read_bios) \in Nat /\ DOMAIN read_bios = 1 .. Len(read_bios)
    BY <1>2, LenProperties
  <2>2. /\ read_bios' \in Seq(ReadBio) /\ Len(read_bios') = m
        /\ read_bios'[m] = e /\ \A i \in 1 .. Len(read_bios) : read_bios'[i] = read_bios[i]
    BY <1>2, <1>3, <1>4, <1>6, <1>7, <2>1, AppendProperties
  <2>3. DOMAIN read_bios' = 1 .. m
    BY <2>2, LenProperties
  <2>. QED
    BY <1>7, <2>1, <2>2, <2>3
<1>9. /\ wbio'[w].next = hi + 1 /\ wbio'[w].lo = wbio[w].lo /\ wbio'[w].hi = wbio[w].hi
      /\ \A u \in Writes : u # w => wbio'[u] = wbio[u]
  BY <1>2, <1>3
<1>. HIDE DEF e
<1>10. SizesInv'
  <2>1. e.hi < e.lo + MaxClone
    BY <1>3, <1>4, <1>6
  <2>2. \A i \in DOMAIN read_bios' : read_bios'[i].hi < read_bios'[i].lo + MaxClone
    BY <1>8, <2>1 DEF DataInv, SizesInv
  <2>. QED
    BY <1>1, <2>2 DEF DataInv, SizesInv
<1>11. DiskInv'
  <2>1. \A b \in Blocks : disk[b] # Old => disk[b] \in Writes /\ wstate[disk[b]] = "done"
    BY <1>2 DEF DataInv, DiskInv, Contents
  <2>2. \A b \in Blocks : disk[b] # Old => disk[b] # w
    BY <1>1, <2>1
  <2>. QED
    BY <1>1, <1>9, <2>1, <2>2 DEF DataInv, DiskInv
<1>12. ASSUME ~fail' PROVE KeptInv'
  <2>1. KeptInv
    BY <1>1, <1>12 DEF DataInv
  <2>2. WholeCloned'
    BY <1>1, <1>9, <2>1 DEF KeptInv, WholeCloned
  <2>3. \A u \in Writes, b \in Blocks : Awaited(u, b) => Awaited(u, b)'
    BY <1>1, <1>8 DEF Awaited
  <2>4. ClonedKept'
    <3>. SUFFICES ASSUME NEW u \in Writes, NEW b \in Blocks, wstate[u] # "new",
                         b \in Interval(wbio'[u]), b < wbio'[u].next
                  PROVE  Awaited(u, b)' \/ SafeIn(cow_bios, stored, b)
      BY <1>1 DEF ClonedKept
    <3>1. CASE u = w /\ b >= n
      <4>1. b \in Interval(e)
        BY <1>5, <1>6, <1>9, <3>1, BlocksAreNat DEF Interval
      <4>2. m \in DOMAIN read_bios' /\ read_bios'[m].w = u /\ b \in Interval(read_bios'[m])
        BY <1>6, <1>8, <3>1, <4>1
      <4>. QED
        BY <4>2 DEF Awaited
    <3>2. CASE u = w /\ ~(b >= n)
      <4>1. b < wbio[u].next /\ b \in Interval(wbio[u])
        BY <1>4, <1>5, <1>9, <3>2, BlocksAreNat DEF Interval
      <4>2. Awaited(u, b) \/ SafeIn(cow_bios, stored, b)
        BY <2>1, <4>1 DEF KeptInv, ClonedKept
      <4>. QED
        BY <2>3, <4>2
    <3>3. CASE u # w
      <4>1. Awaited(u, b) \/ SafeIn(cow_bios, stored, b)
        BY <1>9, <2>1, <3>3 DEF KeptInv, ClonedKept
      <4>. QED
        BY <2>3, <4>1
    <3>. QED
      BY <3>1, <3>2, <3>3
  <2>5. ReadKept' /\ QueueKept' /\ StoredOld'
    BY <1>1, <2>1 DEF KeptInv, ReadKept, QueueKept, StoredOld
  <2>. QED
    BY <2>2, <2>4, <2>5 DEF KeptInv
<1>. QED
  BY <1>1, <1>10, <1>11, <1>12 DEF DataInv

\* tp_put(), by the tracer that has cloned all of the write or has failed.
LEMMA TracerPutData ==
  ASSUME RefInv, DataInv, NEW w \in Writes, MakeCloneFails(w) \/ TraceDone(w)
  PROVE  DataInv'
<1>1. /\ wstate[w] = "tracing" /\ TpPut(w, "deferred")
      /\ UNCHANGED <<disk, wbio, read_bios, clones, cow_bios, stored, is_failed>>
      /\ fail' = TRUE \/ (fail' = fail /\ wbio[w].next > wbio[w].hi)
  <2>1. CASE MakeCloneFails(w)
    BY <2>1 DEF MakeCloneFails, cvars, tvars
  <2>2. CASE TraceDone(w)
    BY <2>2 DEF TraceDone, cvars, tvars
  <2>. QED
    BY <2>1, <2>2
<1>2. /\ \A u \in Writes : u # w => wstate'[u] = wstate[u]
      /\ wstate'[w] \in {"queued", "deferred"}
  BY <1>1, TpPutFacts
<1>3. ~fail' => WholeCloned'
  BY <1>1, <1>2 DEF DataInv, KeptInv, WholeCloned
<1>4. fail \in BOOLEAN /\ (is_failed => fail)
  BY DEF RefInv, TypeOK, DataInv
<1>5. (is_failed' => fail') /\ (fail => fail')
  BY <1>1, <1>4
<1>6. /\ \A u \in Writes : wstate'[u] # "new" => wstate[u] # "new"
      /\ \A u \in Writes : wstate[u] = "done" => wstate'[u] = "done"
  BY <1>1, <1>2
<1>. QED
  BY <1>1, <1>3, <1>5, <1>6, DataFrame

LEMMA SubmitOrigData ==
  ASSUME RefInv, DataInv, SubmitOrig
  PROVE  DataInv'
<1>. DEFINE w == orig_bios[1]
<1>1. /\ orig_bios # <<>> /\ wstate' = [wstate EXCEPT ![Head(orig_bios)] = "issued"]
      /\ UNCHANGED <<disk, wbio, read_bios, clones, cow_bios, stored, is_failed, fail>>
  BY DEF SubmitOrig, cvars, tvars
<1>2. orig_bios \in Seq(Writes) /\ wstate \in [Writes -> WStates]
  BY DEF RefInv, TypeOK
<1>3. Head(orig_bios) = w /\ w \in Writes /\ wstate[w] = "queued"
  <2>1. Len(orig_bios) \in Nat \ {0} /\ DOMAIN orig_bios = 1 .. Len(orig_bios)
    BY <1>1, <1>2, LenProperties, EmptySeq
  <2>2. Head(orig_bios) = w /\ w \in Writes /\ 1 \in DOMAIN orig_bios
    BY <1>1, <1>2, <2>1, HeadTailProperties, ElementOfSeq
  <2>. QED
    BY <2>2 DEF RefInv, WritesReleasedOnce
<1>. HIDE DEF w
<1>4. wstate'[w] = "issued" /\ \A u \in Writes : u # w => wstate'[u] = wstate[u]
  BY <1>1, <1>2, <1>3
<1>5. ~fail' => WholeCloned'
  BY <1>1, <1>3, <1>4 DEF DataInv, KeptInv, WholeCloned
<1>6. (is_failed' => fail') /\ (fail => fail')
  BY <1>1 DEF DataInv
<1>7. /\ \A u \in Writes : wstate'[u] # "new" => wstate[u] # "new"
      /\ \A u \in Writes : wstate[u] = "done" => wstate'[u] = "done"
  BY <1>3, <1>4
<1>. QED
  BY <1>1, <1>5, <1>6, <1>7, DataFrame

\* Steps after which the data are as they were.
LEMMA OthersData ==
  ASSUME RefInv, DataInv, UNCHANGED <<disk, wvars, cvars, cow_bios, stored>>,
         is_failed' = is_failed, fail' = fail \/ fail' = TRUE
  PROVE  DataInv'
<1>1. UNCHANGED <<wstate, wbio, read_bios, clones>>
  BY DEF wvars, cvars
<1>2. fail \in BOOLEAN /\ (is_failed => fail)
  BY DEF RefInv, TypeOK, DataInv
<1>3. (is_failed' => fail') /\ (fail => fail')
  BY <1>2
<1>4. ~fail' => WholeCloned'
  BY <1>1, <1>3 DEF DataInv, KeptInv, WholeCloned
<1>. QED
  BY <1>1, <1>3, <1>4, DataFrame

LEMMA SubmitCloneData ==
  ASSUME RefInv, DataInv, SubmitClone
  PROVE  DataInv'
<1>. DEFINE c == read_bios[1]
            d == [w |-> c.w, lo |-> c.lo, hi |-> c.hi, at |-> "sent", content |-> Nothing]
<1>1. /\ read_bios # <<>> /\ read_bios' = Tail(read_bios)
      /\ UNCHANGED <<disk, wstate, wbio, cow_bios, fail, stored, is_failed>>
  BY DEF SubmitClone, wvars, tvars
<1>2. read_bios \in Seq(ReadBio)
  BY DEF RefInv, TypeOK, ReadBio
<1>3. /\ Len(read_bios) \in Nat \ {0} /\ DOMAIN read_bios = 1 .. Len(read_bios)
      /\ Head(read_bios) = c
  BY <1>1, <1>2, LenProperties, EmptySeq, HeadTailProperties
<1>4. clones' = clones \cup {d}
  BY <1>3 DEF SubmitClone
<1>5. /\ \A i \in 1 .. Len(read_bios) - 1 : read_bios'[i] = read_bios[i + 1]
      /\ DOMAIN read_bios' = 1 .. Len(read_bios) - 1
  <2>1. /\ read_bios' \in Seq(ReadBio) /\ Len(read_bios') = Len(read_bios) - 1
        /\ \A i \in 1 .. Len(read_bios) - 1 : read_bios'[i] = read_bios[i + 1]
    BY <1>1, <1>2, <1>3, HeadTailProperties
  <2>. QED
    BY <2>1, LenProperties
<1>6. d.w = c.w /\ d.lo = c.lo /\ d.hi = c.hi /\ d.at = "sent"
  OBVIOUS
<1>. HIDE DEF c, d
<1>7. /\ \A i \in DOMAIN read_bios' : i + 1 \in DOMAIN read_bios /\ read_bios'[i] = read_bios[i + 1]
      /\ \A i \in DOMAIN read_bios : i # 1 => i - 1 \in DOMAIN read_bios' /\ i = (i - 1) + 1
      /\ 1 \in DOMAIN read_bios
  BY <1>3, <1>5
<1>8. SizesInv'
  <2>1. d.hi < d.lo + MaxClone
    BY <1>6, <1>7 DEF DataInv, SizesInv, c
  <2>2. \A i \in DOMAIN read_bios' : read_bios'[i].hi < read_bios'[i].lo + MaxClone
    BY <1>7 DEF DataInv, SizesInv
  <2>3. \A x \in clones' : x.hi < x.lo + MaxClone
    BY <1>4, <2>1 DEF DataInv, SizesInv
  <2>. QED
    BY <1>1, <2>2, <2>3 DEF DataInv, SizesInv
<1>9. DiskInv' /\ (is_failed' => fail')
  BY <1>1 DEF DataInv, DiskInv
<1>10. ASSUME ~fail' PROVE KeptInv'
  <2>1. KeptInv
    BY <1>1, <1>10 DEF DataInv
  <2>2. ASSUME NEW w \in Writes, NEW b \in Blocks, Awaited(w, b) PROVE Awaited(w, b)'
    <3>1. CASE \E x \in clones : x.w = w /\ x.at # "captured" /\ b \in Interval(x)
      BY <1>4, <3>1 DEF Awaited
    <3>2. CASE \E i \in DOMAIN read_bios : read_bios[i].w = w /\ b \in Interval(read_bios[i])
      <4>1. PICK i \in DOMAIN read_bios : read_bios[i].w = w /\ b \in Interval(read_bios[i])
        BY <3>2
      <4>2. CASE i = 1
        <5>1. d \in clones' /\ d.w = w /\ d.at # "captured" /\ b \in Interval(d)
          BY <1>4, <1>6, <4>1, <4>2 DEF Interval, c
        <5>. QED
          BY <5>1 DEF Awaited
      <4>3. CASE i # 1
        <5>1. PICK k \in DOMAIN read_bios' : i = k + 1
          BY <1>7, <4>3
        <5>2. read_bios'[k] = read_bios[i]
          BY <1>7, <5>1
        <5>3. read_bios'[k].w = w /\ b \in Interval(read_bios'[k])
          BY <4>1, <5>2
        <5>. QED
          BY <5>1, <5>3 DEF Awaited
      <4>. QED
        BY <4>2, <4>3
    <3>. QED
      BY <2>2, <3>1, <3>2 DEF Awaited
  <2>3. ClonedKept'
    <3>. SUFFICES ASSUME NEW u \in Writes, NEW b \in Blocks, wstate[u] # "new",
                         b \in Interval(wbio[u]), b < wbio[u].next
                  PROVE  Awaited(u, b)' \/ SafeIn(cow_bios, stored, b)
      BY <1>1 DEF ClonedKept
    <3>1. Awaited(u, b) \/ SafeIn(cow_bios, stored, b)
      BY <2>1 DEF KeptInv, ClonedKept
    <3>. QED
      BY <2>2, <3>1
  <2>4. ReadKept'
    BY <1>1, <1>4, <1>6, <2>1 DEF KeptInv, ReadKept
  <2>5. WholeCloned' /\ QueueKept' /\ StoredOld'
    BY <1>1, <2>1 DEF KeptInv, WholeCloned, QueueKept, StoredOld
  <2>. QED
    BY <2>3, <2>4, <2>5 DEF KeptInv
<1>. QED
  BY <1>8, <1>9, <1>10 DEF DataInv

LEMMA BaseReadData ==
  ASSUME RefInv, DataInv, NEW c \in clones, BaseRead(c)
  PROVE  DataInv'
<1>. DEFINE f == [b \in Blocks |-> IF b \in Interval(c) THEN disk[b] ELSE None]
            d == [c EXCEPT !.at = "read", !.content = f]
<1>1. /\ c.at = "sent" /\ clones' = (clones \ {c}) \cup {d}
      /\ UNCHANGED <<disk, wstate, wbio, read_bios, cow_bios, fail, stored, is_failed>>
  BY DEF BaseRead, wvars, tvars
<1>2. c \in Clone
  BY DEF RefInv, TypeOK
<1>3. d.w = c.w /\ d.lo = c.lo /\ d.hi = c.hi /\ d.at = "read" /\ d.content = f
  BY <1>2 DEF Clone
<1>4. \A b \in Blocks : b \in Interval(c) => f[b] = disk[b]
  OBVIOUS
<1>. HIDE DEF f, d
<1>5. Interval(d) = Interval(c)
  BY <1>3 DEF Interval
<1>6. SizesInv'
  <2>1. \A x \in clones' : x.hi < x.lo + MaxClone
    BY <1>1, <1>3 DEF DataInv, SizesInv
  <2>. QED
    BY <1>1, <2>1 DEF DataInv, SizesInv
<1>7. DiskInv' /\ (is_failed' => fail')
  BY <1>1 DEF DataInv, DiskInv
<1>8. ASSUME ~fail' PROVE KeptInv'
  <2>1. KeptInv /\ ~fail
    BY <1>1, <1>8 DEF DataInv
  <2>2. \A u \in Writes, b \in Blocks : Awaited(u, b) => Awaited(u, b)'
    BY <1>1, <1>3, <1>5 DEF Awaited
  <2>3. ClonedKept'
    <3>. SUFFICES ASSUME NEW u \in Writes, NEW b \in Blocks, wstate[u] # "new",
                         b \in Interval(wbio[u]), b < wbio[u].next
                  PROVE  Awaited(u, b)' \/ SafeIn(cow_bios, stored, b)
      BY <1>1 DEF ClonedKept
    <3>1. Awaited(u, b) \/ SafeIn(cow_bios, stored, b)
      BY <2>1 DEF KeptInv, ClonedKept
    <3>. QED
      BY <2>2, <3>1
  <2>4. \A b \in Blocks : b \in Interval(d) => d.content[b] = Old \/ SafeIn(cow_bios, stored, b)
    BY <1>3, <1>4, <1>5, <2>1, OverwrittenSafe
  <2>5. ReadKept'
    BY <1>1, <2>1, <2>4 DEF KeptInv, ReadKept
  <2>6. WholeCloned' /\ QueueKept' /\ StoredOld'
    BY <1>1, <2>1 DEF KeptInv, WholeCloned, QueueKept, StoredOld
  <2>. QED
    BY <2>3, <2>5, <2>6 DEF KeptInv
<1>. QED
  BY <1>6, <1>7, <1>8 DEF DataInv

LEMMA CaptureCloneData ==
  ASSUME RefInv, DataInv, NEW c \in clones, CaptureClone(c)
  PROVE  DataInv'
<1>. DEFINE d == [c EXCEPT !.at = "captured"]
            e == [dir |-> "W", id |-> c.w, lo |-> c.lo, hi |-> c.hi, content |-> c.content]
<1>1. /\ c.at = "read" /\ clones' = (clones \ {c}) \cup {d}
      /\ UNCHANGED <<disk, wstate, wbio, read_bios, fail, stored, is_failed>>
      /\ cow_bios' = Append(cow_bios, e)
  BY DEF CaptureClone, wvars, tvars
<1>2. c \in Clone /\ cow_bios \in Seq(CowBio)
  BY DEF RefInv, TypeOK
<1>3. d.w = c.w /\ d.lo = c.lo /\ d.hi = c.hi /\ d.at = "captured" /\ d.content = c.content
  BY <1>2 DEF Clone
<1>4. e \in CowBio /\ e.dir = "W" /\ e.lo = c.lo /\ e.hi = c.hi /\ e.content = c.content
  BY <1>2 DEF Clone, CowBio
<1>. HIDE DEF d, e
<1>5. Interval(d) = Interval(c) /\ Interval(e) = Interval(c)
  BY <1>3, <1>4 DEF Interval
<1>6. PICK n : n = Len(cow_bios) + 1
  OBVIOUS
<1>7. /\ DOMAIN cow_bios = 1 .. Len(cow_bios)
      /\ cow_bios'[n] = e /\ \A i \in DOMAIN cow_bios : cow_bios'[i] = cow_bios[i]
      /\ DOMAIN cow_bios' = (DOMAIN cow_bios) \cup {n}
  <2>1. Len(cow_bios) \in Nat /\ DOMAIN cow_bios = 1 .. Len(cow_bios)
    BY <1>2, LenProperties
  <2>2. /\ cow_bios' \in Seq(CowBio) /\ Len(cow_bios') = n
        /\ cow_bios'[n] = e /\ \A i \in 1 .. Len(cow_bios) : cow_bios'[i] = cow_bios[i]
    BY <1>1, <1>2, <1>4, <1>6, <2>1, AppendProperties
  <2>3. DOMAIN cow_bios' = 1 .. n
    BY <2>2, LenProperties
  <2>. QED
    BY <1>6, <2>1, <2>2, <2>3
<1>8. SizesInv'
  <2>1. \A x \in clones' : x.hi < x.lo + MaxClone
    BY <1>1, <1>3 DEF DataInv, SizesInv
  <2>2. e.hi < e.lo + MaxClone
    BY <1>4 DEF DataInv, SizesInv
  <2>3. \A i \in DOMAIN cow_bios' :
          /\ cow_bios'[i].dir = "W" => cow_bios'[i].hi < cow_bios'[i].lo + MaxClone
          /\ cow_bios'[i].dir = "R" => cow_bios'[i].id \in Reads
    BY <1>4, <1>7, <2>2 DEF DataInv, SizesInv
  <2>. QED
    BY <1>1, <2>1, <2>3 DEF DataInv, SizesInv
<1>9. DiskInv' /\ (is_failed' => fail')
  BY <1>1 DEF DataInv, DiskInv
<1>10. ASSUME ~fail' PROVE KeptInv'
  <2>1. KeptInv /\ ~fail
    BY <1>1, <1>10 DEF DataInv
  <2>2. \A b \in Blocks : SafeIn(cow_bios, stored, b) => SafeIn(cow_bios', stored, b)
    BY <1>1, <1>2, <1>4, SafeAppend
  <2>3. \A b \in Blocks : b \in Interval(c) => SafeIn(cow_bios', stored, b)
    <3>. SUFFICES ASSUME NEW b \in Blocks, b \in Interval(c)
                  PROVE  SafeIn(Append(cow_bios, e), stored, b)
      BY <1>1
    <3>1. stored[b] \in {None, Old}
      BY <2>1 DEF KeptInv, StoredOld
    <3>2. e.content[b] = Old \/ SafeIn(cow_bios, stored, b)
      BY <1>1, <1>4, <2>1 DEF KeptInv, ReadKept
    <3>3. \A i \in 1 .. Len(cow_bios) :
            cow_bios[i].dir = "W" /\ b \in Interval(cow_bios[i]) =>
              cow_bios[i].content[b] = Old \/ SafeIn(cow_bios, stored, b)
      BY <1>7, <2>1 DEF KeptInv, QueueKept
    <3>. QED
      BY <1>2, <1>4, <1>5, <3>1, <3>2, <3>3, SafeCapture
  <2>4. ClonedKept'
    <3>. SUFFICES ASSUME NEW u \in Writes, NEW b \in Blocks, wstate[u] # "new",
                         b \in Interval(wbio[u]), b < wbio[u].next
                  PROVE  Awaited(u, b)' \/ SafeIn(cow_bios', stored, b)
      BY <1>1 DEF ClonedKept
    <3>1. Awaited(u, b) \/ SafeIn(cow_bios, stored, b)
      BY <2>1 DEF KeptInv, ClonedKept
    <3>2. Awaited(u, b) => Awaited(u, b)' \/ b \in Interval(c)
      BY <1>1 DEF Awaited
    <3>. QED
      BY <2>2, <2>3, <3>1, <3>2
  <2>5. ReadKept'
    <3>. SUFFICES ASSUME NEW x \in clones', NEW b \in Blocks, x.at # "sent", b \in Interval(x)
                  PROVE  x.content[b] = Old \/ SafeIn(cow_bios', stored, b)
      BY <1>1 DEF ReadKept
    <3>1. CASE x = d
      BY <1>5, <2>3, <3>1
    <3>2. CASE x # d
      BY <1>1, <2>1, <2>2, <3>2 DEF KeptInv, ReadKept
    <3>. QED
      BY <3>1, <3>2
  <2>6. QueueKept'
    <3>. SUFFICES ASSUME NEW i \in DOMAIN cow_bios', NEW b \in Blocks,
                         cow_bios'[i].dir = "W", b \in Interval(cow_bios'[i])
                  PROVE  cow_bios'[i].content[b] = Old \/ SafeIn(cow_bios', stored, b)
      BY <1>1 DEF QueueKept
    <3>1. CASE i = n
      BY <1>5, <1>7, <2>3, <3>1
    <3>2. CASE i # n
      BY <1>7, <2>1, <2>2, <3>2 DEF KeptInv, QueueKept
    <3>. QED
      BY <3>1, <3>2
  <2>7. WholeCloned' /\ StoredOld'
    BY <1>1, <2>1 DEF KeptInv, WholeCloned, StoredOld
  <2>. QED
    BY <2>4, <2>5, <2>6, <2>7 DEF KeptInv
<1>. QED
  BY <1>8, <1>9, <1>10 DEF DataInv

\* tp_put(), by a clone that is done with.
LEMMA ClonePutData ==
  ASSUME RefInv, DataInv, NEW c \in clones, ReleaseClone(c) \/ CloneError(c)
  PROVE  DataInv'
<1>. DEFINE w == c.w
<1>1. /\ clones' = clones \ {c} /\ TpPut(w, wstate[w])
      /\ UNCHANGED <<disk, wbio, read_bios, cow_bios, stored, is_failed>>
      /\ fail' = TRUE \/ (fail' = fail /\ c.at = "captured")
  <2>1. CASE ReleaseClone(c)
    BY <2>1 DEF ReleaseClone, tvars
  <2>2. CASE CloneError(c)
    BY <2>2 DEF CloneError, tvars
  <2>. QED
    BY <2>1, <2>2
<1>2. w \in Writes /\ wstate \in [Writes -> WStates]
  BY DEF RefInv, TypeOK, Clone
<1>3. /\ wstate[w] \in {"tracing", "deferred"} /\ refs[w] \in Int
      /\ wstate[w] = "tracing" => refs[w] >= 2
  BY <1>2, CloneHolds DEF RefInv, TypeOK
<1>. HIDE DEF w
<1>4. /\ \A u \in Writes : u # w => wstate'[u] = wstate[u]
      /\ wstate'[w] = wstate[w] \/ (wstate[w] = "deferred" /\ wstate'[w] = "queued")
  <2>1. /\ \A u \in Writes : u # w => wstate'[u] = wstate[u]
        /\ wstate'[w] = IF refs[w] = 1 THEN "queued" ELSE wstate[w]
    BY <1>1, <1>2 DEF TpPut
  <2>2. wstate[w] = "tracing" => refs[w] # 1
    BY <1>3
  <2>. QED
    BY <1>3, <2>1, <2>2
<1>5. SizesInv'
  BY <1>1 DEF DataInv, SizesInv
<1>6. DiskInv'
  <2>1. \A b \in Blocks : disk[b] # Old => disk[b] \in Writes /\ wstate[disk[b]] = "done"
    BY DEF RefInv, TypeOK, DataInv, DiskInv, Contents
  <2>2. \A b \in Blocks : disk[b] # Old => disk[b] # w
    BY <1>3, <2>1
  <2>. QED
    BY <1>1, <1>4, <2>1, <2>2 DEF DataInv, DiskInv
<1>7. is_failed' => fail'
  <2>1. is_failed => fail
    BY DEF DataInv
  <2>2. (fail' = TRUE \/ fail' = fail) /\ is_failed' = is_failed
    BY <1>1
  <2>. QED
    BY <2>1, <2>2, Zenon
<1>8. ASSUME ~fail' PROVE KeptInv'
  <2>1. KeptInv /\ c.at = "captured"
    BY <1>1, <1>8 DEF DataInv
  <2>2. WholeCloned'
    BY <1>1, <1>2, <1>4, <2>1 DEF KeptInv, WholeCloned
  <2>3. \A u \in Writes, b \in Blocks : Awaited(u, b) => Awaited(u, b)'
    BY <1>1, <2>1 DEF Awaited
  <2>4. ClonedKept'
    <3>. SUFFICES ASSUME NEW u \in Writes, NEW b \in Blocks, wstate'[u] # "new",
                         b \in Interval(wbio[u]), b < wbio[u].next
                  PROVE  Awaited(u, b)' \/ SafeIn(cow_bios, stored, b)
      BY <1>1 DEF ClonedKept
    <3>0. wstate[u] # "new"
      BY <1>3, <1>4
    <3>1. Awaited(u, b) \/ SafeIn(cow_bios, stored, b)
      BY <2>1, <3>0 DEF KeptInv, ClonedKept
    <3>. QED
      BY <2>3, <3>1
  <2>5. ReadKept' /\ QueueKept' /\ StoredOld'
    BY <1>1, <2>1 DEF KeptInv, ReadKept, QueueKept, StoredOld
  <2>. QED
    BY <2>2, <2>4, <2>5 DEF KeptInv
<1>. QED
  BY <1>5, <1>6, <1>7, <1>8 DEF DataInv

LEMMA BaseWriteData ==
  ASSUME RefInv, DataInv, NEW w \in Writes, BaseWrite(w)
  PROVE  DataInv'
<1>1. /\ wstate[w] = "issued" /\ wstate' = [wstate EXCEPT ![w] = "done"]
      /\ disk' = [b \in Blocks |-> IF b \in Interval(wbio[w]) THEN w ELSE disk[b]]
      /\ UNCHANGED <<wbio, read_bios, clones, cow_bios, fail, stored, is_failed>>
  BY DEF BaseWrite, cvars, tvars
<1>2. wstate \in [Writes -> WStates] /\ disk \in [Blocks -> Contents]
  BY DEF RefInv, TypeOK
<1>3. wstate'[w] = "done" /\ \A u \in Writes : u # w => wstate'[u] = wstate[u]
  BY <1>1, <1>2
<1>4. SizesInv'
  BY <1>1 DEF DataInv, SizesInv
<1>5. DiskInv'
  <2>. SUFFICES ASSUME NEW b \in Blocks, disk'[b] # Old
                PROVE  wstate'[disk'[b]] = "done" /\ b \in Interval(wbio[disk'[b]])
    BY <1>1 DEF DiskInv
  <2>1. CASE b \in Interval(wbio[w])
    BY <1>1, <1>3, <2>1
  <2>2. CASE b \notin Interval(wbio[w])
    <3>1. disk'[b] = disk[b]
      BY <1>1, <2>2
    <3>2. disk[b] \in Writes /\ wstate[disk[b]] = "done" /\ b \in Interval(wbio[disk[b]])
      BY <1>2, <3>1 DEF DataInv, DiskInv, Contents
    <3>. QED
      BY <1>3, <3>1, <3>2
  <2>. QED
    BY <2>1, <2>2
<1>6. is_failed' => fail'
  BY <1>1 DEF DataInv
<1>7. ASSUME ~fail' PROVE KeptInv'
  <2>1. KeptInv
    BY <1>1, <1>7 DEF DataInv
  <2>2. WholeCloned'
    BY <1>1, <1>3, <2>1 DEF KeptInv, WholeCloned
  <2>3. ClonedKept'
    <3>1. \A u \in Writes : wstate'[u] # "new" => wstate[u] # "new"
      BY <1>1, <1>3
    <3>. QED
      BY <1>1, <2>1, <3>1 DEF KeptInv, ClonedKept, Awaited
  <2>4. ReadKept' /\ QueueKept' /\ StoredOld'
    BY <1>1, <2>1 DEF KeptInv, ReadKept, QueueKept, StoredOld
  <2>. QED
    BY <2>2, <2>3, <2>4 DEF KeptInv
<1>. QED
  BY <1>4, <1>5, <1>6, <1>7 DEF DataInv

LEMMA CowWakesData ==
  ASSUME RefInv, DataInv, CowWakes
  PROVE  DataInv'
<1>1. /\ is_failed' = fail /\ stored' = IF fail THEN Nothing ELSE stored
      /\ UNCHANGED <<disk, wstate, wbio, read_bios, clones, cow_bios, fail>>
  BY DEF CowWakes, wvars, cvars
<1>2. SizesInv' /\ DiskInv'
  BY <1>1 DEF DataInv, SizesInv, DiskInv
<1>3. ASSUME ~fail' PROVE KeptInv'
  <2>1. KeptInv /\ stored' = stored
    BY <1>1, <1>3 DEF DataInv
  <2>. QED
    BY <1>1, <2>1 DEF KeptInv, WholeCloned, ClonedKept, Awaited, ReadKept, QueueKept, StoredOld
<1>. QED
  BY <1>1, <1>2, <1>3 DEF DataInv

LEMMA SnapReadData ==
  ASSUME RefInv, DataInv, NEW r \in Reads, NEW lo \in Blocks, NEW hi \in Blocks,
         SnapRead(r, lo, hi)
  PROVE  DataInv'
<1>. DEFINE e == [dir |-> "R", id |-> r, lo |-> lo, hi |-> hi, content |-> Nothing]
<1>1. /\ cow_bios' = cow_bios \/ cow_bios' = Append(cow_bios, e)
      /\ UNCHANGED <<disk, wvars, cvars, fail, stored, is_failed>>
  BY DEF SnapRead
<1>2. UNCHANGED <<disk, wstate, wbio, read_bios, clones, fail, stored, is_failed>>
  BY <1>1 DEF wvars, cvars
<1>3. CASE cow_bios' = cow_bios
  BY <1>1, <1>3, OthersData
<1>4. CASE cow_bios' = Append(cow_bios, e)
  <2>1. e \in CowBio /\ e.dir = "R" /\ e.id = r
    BY DEF CowBio, Nothing
  <2>. HIDE DEF e
  <2>2. cow_bios \in Seq(CowBio)
    BY DEF RefInv, TypeOK
  <2>3. PICK n : n = Len(cow_bios) + 1
    OBVIOUS
  <2>4. /\ cow_bios'[n] = e /\ \A i \in DOMAIN cow_bios : cow_bios'[i] = cow_bios[i]
        /\ DOMAIN cow_bios' = (DOMAIN cow_bios) \cup {n}
    <3>1. Len(cow_bios) \in Nat /\ DOMAIN cow_bios = 1 .. Len(cow_bios)
      BY <2>2, LenProperties
    <3>2. /\ cow_bios' \in Seq(CowBio) /\ Len(cow_bios') = n
          /\ cow_bios'[n] = e /\ \A i \in 1 .. Len(cow_bios) : cow_bios'[i] = cow_bios[i]
      BY <1>4, <2>1, <2>2, <2>3, <3>1, AppendProperties
    <3>3. DOMAIN cow_bios' = 1 .. n
      BY <3>2, LenProperties
    <3>. QED
      BY <2>3, <3>1, <3>2, <3>3
  <2>5. SizesInv'
    <3>1. \A i \in DOMAIN cow_bios' :
            /\ cow_bios'[i].dir = "W" => cow_bios'[i].hi < cow_bios'[i].lo + MaxClone
            /\ cow_bios'[i].dir = "R" => cow_bios'[i].id \in Reads
      BY <2>1, <2>4 DEF DataInv, SizesInv
    <3>. QED
      BY <1>2, <3>1 DEF DataInv, SizesInv
  <2>6. DiskInv' /\ (is_failed' => fail')
    BY <1>2 DEF DataInv, DiskInv
  <2>7. ASSUME ~fail' PROVE KeptInv'
    <3>1. KeptInv
      BY <1>2, <2>7 DEF DataInv
    <3>2. \A b \in Blocks : SafeIn(cow_bios, stored, b) => SafeIn(cow_bios', stored, b)
      BY <1>4, <2>1, <2>2, SafeAppend
    <3>3. ClonedKept'
      <4>. SUFFICES ASSUME NEW u \in Writes, NEW b \in Blocks, wstate[u] # "new",
                           b \in Interval(wbio[u]), b < wbio[u].next
                    PROVE  Awaited(u, b) \/ SafeIn(cow_bios', stored, b)
        BY <1>2 DEF ClonedKept, Awaited
      <4>. QED
        BY <3>1, <3>2 DEF KeptInv, ClonedKept
    <3>4. ReadKept'
      BY <1>2, <3>1, <3>2 DEF KeptInv, ReadKept
    <3>5. QueueKept'
      BY <1>2, <2>1, <2>4, <3>1, <3>2 DEF KeptInv, QueueKept
    <3>6. WholeCloned' /\ StoredOld'
      BY <1>2, <3>1 DEF KeptInv, WholeCloned, StoredOld
    <3>. QED
      BY <3>3, <3>4, <3>5, <3>6 DEF KeptInv
  <2>. QED
    BY <2>5, <2>6, <2>7 DEF DataInv
<1>. QED
  BY <1>1, <1>3, <1>4

\* The COW thread takes a bio and handles it, or fails.
LEMMA DequeueData ==
  ASSUME KeepsOrder, RefInv, DataInv, cow_bios # <<>>, cow_bios' = Remaining(cow_bios),
         UNCHANGED <<disk, wvars, cvars, is_failed>>, fail => fail',
         ~fail' => \A b \in Blocks : stored'[b] = Handled(cow_bios[Dequeued(cow_bios)], stored, b)
  PROVE  DataInv'
<1>1. UNCHANGED <<disk, wstate, wbio, read_bios, clones, is_failed>>
  BY DEF wvars, cvars
<1>2. cow_bios \in Seq(CowBio)
  BY DEF RefInv, TypeOK
<1>3. /\ Len(cow_bios) \in Nat \ {0} /\ DOMAIN cow_bios = 1 .. Len(cow_bios)
      /\ cow_bios' \in Seq(CowBio) /\ Len(cow_bios') = Len(cow_bios) - 1
      /\ \A j \in 1 .. (Len(cow_bios) - 1) :
           cow_bios'[j] = IF j + 1 = Dequeued(cow_bios) THEN cow_bios[1] ELSE cow_bios[j + 1]
  BY <1>2, RemainingFacts, LenProperties
<1>4. \A j \in DOMAIN cow_bios' : \E i \in DOMAIN cow_bios : cow_bios'[j] = cow_bios[i]
  <2>. TAKE j \in DOMAIN cow_bios'
  <2>1. j \in 1 .. (Len(cow_bios) - 1)
    BY <1>3, LenProperties
  <2>2. 1 \in DOMAIN cow_bios /\ j + 1 \in DOMAIN cow_bios
    BY <1>3, <2>1
  <2>. QED
    BY <1>3, <2>1, <2>2
<1>5. SizesInv'
  <2>1. \A i \in DOMAIN cow_bios' :
          /\ cow_bios'[i].dir = "W" => cow_bios'[i].hi < cow_bios'[i].lo + MaxClone
          /\ cow_bios'[i].dir = "R" => cow_bios'[i].id \in Reads
    <3>. TAKE j \in DOMAIN cow_bios'
    <3>1. PICK i \in DOMAIN cow_bios : cow_bios'[j] = cow_bios[i]
      BY <1>4
    <3>. QED
      BY <3>1 DEF DataInv, SizesInv
  <2>. QED
    BY <1>1, <2>1 DEF DataInv, SizesInv
<1>6. DiskInv' /\ (is_failed' => fail')
  BY <1>1 DEF DataInv, DiskInv
<1>7. ASSUME ~fail' PROVE KeptInv'
  <2>1. KeptInv
    BY <1>7 DEF DataInv
  <2>2. QueueSizes(cow_bios)
    BY <1>3 DEF DataInv, SizesInv, QueueSizes
  <2>3. ASSUME NEW b \in Blocks
        PROVE  b \in Int /\ stored'[b] = Handled(cow_bios[Dequeued(cow_bios)], stored, b)
    BY <1>7, BlocksAreNat
  <2>4. ASSUME NEW b \in Blocks, SafeIn(cow_bios, stored, b) PROVE SafeIn(cow_bios', stored', b)
    <3>1. b \in Int /\ stored'[b] = Handled(cow_bios[Dequeued(cow_bios)], stored, b)
      BY <2>3
    <3>2. SafeIn(Remaining(cow_bios), stored', b)
      BY <1>2, <2>2, <2>4, <3>1, SafeDequeue
    <3>. QED
      BY <3>2
  <2>5. StoredOld'
    <3>. SUFFICES ASSUME NEW b \in Blocks PROVE stored'[b] \in {None, Old}
      BY DEF StoredOld
    <3>1. b \in Int /\ stored'[b] = Handled(cow_bios[Dequeued(cow_bios)], stored, b)
      BY <2>3
    <3>2. stored[b] \in {None, Old}
      BY <2>1 DEF KeptInv, StoredOld
    <3>3. \A i \in 1 .. Len(cow_bios) :
            cow_bios[i].dir = "W" /\ b \in Interval(cow_bios[i]) =>
              cow_bios[i].content[b] = Old \/ SafeIn(cow_bios, stored, b)
      BY <1>3, <2>1 DEF KeptInv, QueueKept
    <3>4. Handled(cow_bios[Dequeued(cow_bios)], stored, b) \in {None, Old}
      BY <1>2, <2>2, <3>1, <3>2, <3>3, HandledIsOld
    <3>. QED
      BY <3>1, <3>4
  <2>6. ClonedKept'
    <3>. SUFFICES ASSUME NEW u \in Writes, NEW b \in Blocks, wstate[u] # "new",
                         b \in Interval(wbio[u]), b < wbio[u].next
                  PROVE  Awaited(u, b) \/ SafeIn(cow_bios', stored', b)
      BY <1>1 DEF ClonedKept, Awaited
    <3>1. Awaited(u, b) \/ SafeIn(cow_bios, stored, b)
      BY <2>1 DEF KeptInv, ClonedKept
    <3>. QED
      BY <2>4, <3>1
  <2>7. ReadKept'
    <3>. SUFFICES ASSUME NEW x \in clones, NEW b \in Blocks, x.at # "sent", b \in Interval(x)
                  PROVE  x.content[b] = Old \/ SafeIn(cow_bios', stored', b)
      BY <1>1 DEF ReadKept
    <3>1. x.content[b] = Old \/ SafeIn(cow_bios, stored, b)
      BY <2>1 DEF KeptInv, ReadKept
    <3>. QED
      BY <2>4, <3>1
  <2>8. QueueKept'
    <3>. SUFFICES ASSUME NEW j \in DOMAIN cow_bios', NEW b \in Blocks,
                         cow_bios'[j].dir = "W", b \in Interval(cow_bios'[j])
                  PROVE  cow_bios'[j].content[b] = Old \/ SafeIn(cow_bios', stored', b)
      BY DEF QueueKept
    <3>1. PICK i \in DOMAIN cow_bios : cow_bios'[j] = cow_bios[i]
      BY <1>4
    <3>2. cow_bios[i].content[b] = Old \/ SafeIn(cow_bios, stored, b)
      BY <2>1, <3>1 DEF KeptInv, QueueKept
    <3>. QED
      BY <2>4, <3>1, <3>2
  <2>9. WholeCloned'
    BY <1>1, <2>1 DEF KeptInv, WholeCloned
  <2>. QED
    BY <2>5, <2>6, <2>7, <2>8, <2>9 DEF KeptInv
<1>. QED
  BY <1>5, <1>6, <1>7 DEF DataInv

LEMMA CowBioData ==
  ASSUME KeepsOrder, RefInv, DataInv, NEW i \in 1 .. Len(cow_bios),
         CowHandleWrite(cow_bios[i]) \/ CowHandleRead(cow_bios[i]) \/ CowDrop(cow_bios[i])
  PROVE  DataInv'
<1>. DEFINE bio == cow_bios[i]
<1>1. TypeOK /\ CowDequeue(bio)
  BY DEF RefInv, CowHandleWrite, CowHandleRead, CowDrop
<1>2. cow_bios # <<>> /\ bio = cow_bios[Dequeued(cow_bios)] /\ cow_bios' = Remaining(cow_bios)
  BY <1>1, DequeueTypes
<1>3. UNCHANGED <<disk, wvars, cvars, is_failed>>
  BY DEF CowHandleWrite, CowHandleRead, CowDrop
<1>4. fail => fail'
  BY DEF CowHandleWrite, CowHandleRead, CowDrop
<1>5. ~fail' => \A b \in Blocks : stored'[b] = Handled(bio, stored, b)
  <2>. SUFFICES ASSUME ~fail', NEW b \in Blocks PROVE stored'[b] = Handled(bio, stored, b)
    OBVIOUS
  <2>1. CASE CowHandleWrite(bio)
    <3>1. bio.dir = "W" /\ stored' = AfterWrite(bio, bio.hi)
      BY <2>1 DEF CowHandleWrite
    <3>. HIDE DEF bio
    <3>. QED
      BY <3>1 DEF AfterWrite, Handled, Interval
  <2>2. CASE CowHandleRead(bio)
    <3>1. bio.dir = "R" /\ stored' = stored
      BY <2>2 DEF CowHandleRead
    <3>. QED
      BY <3>1 DEF Handled
  <2>3. CASE CowDrop(bio)
    <3>1. is_failed /\ fail' = fail
      BY <2>3 DEF CowDrop
    <3>. QED
      BY <3>1 DEF DataInv
  <2>. QED
    BY <2>1, <2>2, <2>3
<1>. QED
  BY <1>2, <1>3, <1>4, <1>5, DequeueData

LEMMA DataInvInitially == Init => DataInv
<1>. SUFFICES ASSUME Init PROVE DataInv
  OBVIOUS
<1>1. DOMAIN read_bios = {} /\ DOMAIN cow_bios = {}
  <2>1. DOMAIN <<>> = {}
    BY EmptySeq, LenProperties
  <2>. QED
    BY <2>1 DEF Init
<1>2. /\ clones = {} /\ is_failed = FALSE /\ disk = [b \in Blocks |-> Old]
      /\ wstate = [w \in Writes |-> "new"] /\ stored = Nothing
  BY DEF Init
<1>3. SizesInv /\ DiskInv
  BY <1>1, <1>2 DEF SizesInv, DiskInv
<1>4. KeptInv
  BY <1>1, <1>2 DEF KeptInv, WholeCloned, ClonedKept, ReadKept, QueueKept, StoredOld, Nothing
<1>. QED
  BY <1>2, <1>3, <1>4 DEF DataInv

LEMMA DataInvInductive ==
  ASSUME KeepsOrder, RefInv, DataInv, [Next]_vars
  PROVE  DataInv'
<1>1. ASSUME NEW w \in Writes, Writer(w) PROVE DataInv'
  BY <1>1, NewWriteData, MakeCloneData, TracerPutData DEF Writer
<1>2. CASE BaseDevice
  BY <1>2, BaseReadData, CaptureCloneData, ClonePutData, BaseWriteData DEF BaseDevice
<1>3. CASE CowThread
  <2>1. CASE CowLoop \/ CowComparesCounts
    <3>1. UNCHANGED <<disk, wvars, cvars, cow_bios, stored, is_failed, fail>>
      BY <2>1 DEF CowLoop, CowComparesCounts
    <3>. QED
      BY <3>1, OthersData
  <2>2. CASE CowReadBase
    <3>1. UNCHANGED <<disk, wvars, cvars, cow_bios, stored, is_failed, fail>>
      BY <2>2 DEF CowReadBase
    <3>. QED
      BY <3>1, OthersData
  <2>3. CASE CowReadBaseFails
    <3>1. UNCHANGED <<disk, wvars, cvars, cow_bios, stored, is_failed>> /\ fail' = TRUE
      BY <2>3 DEF CowReadBaseFails
    <3>. QED
      BY <3>1, OthersData
  <2>. QED
    BY <1>3, <2>1, <2>2, <2>3, CowWakesData, CowBioData DEF CowThread
<1>4. CASE Destroyer
  <2>1. UNCHANGED <<disk, wvars, cvars, cow_bios, stored, is_failed, fail>>
    BY <1>4 DEF Destroyer, StopTracing, ClonesWaitedFor, MrfThreadExits, ReadThreadExits, tvars
  <2>. QED
    BY <2>1, OthersData
<1>5. CASE UNCHANGED vars
  <2>1. UNCHANGED <<disk, wvars, cvars, cow_bios, stored, is_failed, fail>>
    BY <1>5 DEF vars, tvars
  <2>. QED
    BY <2>1, OthersData
<1>. QED
  BY <1>1, <1>2, <1>3, <1>4, <1>5, SubmitCloneData, SubmitOrigData, SnapReadData DEF Next

\* The snapshot is complete: where the queue of the COW thread keeps the
\* clones of a block in order, a device that has not failed has the old
\* content of every overwritten block in its COW file, or will put it there
\* before any newer content of that block.
THEOREM SnapshotKeptIsInvariant == ASSUME KeepsOrder PROVE Spec => []SnapshotKept
<1>1. Init => RefInv /\ DataInv
  BY RefInvInitially, DataInvInitially
<1>2. RefInv /\ DataInv /\ [Next]_vars => RefInv' /\ DataInv'
  BY RefInvInductive, DataInvInductive
<1>3. RefInv /\ DataInv => SnapshotKept
  <2>. SUFFICES ASSUME RefInv, DataInv, ~fail, NEW b \in Blocks, disk[b] # Old PROVE Safe(b)
    BY DEF SnapshotKept
  <2>1. SafeIn(cow_bios, stored, b)
    BY OverwrittenSafe
  <2>. QED
    BY <2>1 DEF Safe, Good, SafeIn, GoodIn
<1>. QED
  BY <1>1, <1>2, <1>3, PTL DEF Spec

-----------------------------------------------------------------------------
(* Destruction, where freezing the filesystem drains the writes.           *)

\* With no write held back there are no clones.
LEMMA NothingHeld ==
  ASSUME RefInv, Held = {}
  PROVE  read_bios = <<>> /\ clones = {}
<1>1. \A w \in Writes : wstate[w] \notin {"tracing", "deferred"}
  BY DEF Held
<1>2. clones \in SUBSET Clone /\ read_bios \in Seq(ReadBio)
  BY DEF RefInv, TypeOK, ReadBio
<1>3. clones = {}
  <2>. SUFFICES ASSUME NEW c \in clones PROVE FALSE
    OBVIOUS
  <2>1. c.w \in Writes
    BY <1>2 DEF Clone
  <2>. QED
    BY <1>1, <2>1, CloneHolds
<1>4. read_bios = <<>>
  <2>. SUFFICES ASSUME read_bios # <<>> PROVE FALSE
    OBVIOUS
  <2>1. Len(read_bios) \in Nat \ {0} /\ DOMAIN read_bios = 1 .. Len(read_bios)
    BY <1>2, LenProperties, EmptySeq
  <2>2. 1 \in DOMAIN read_bios /\ read_bios[1] \in ReadBio
    BY <1>2, <2>1, ElementOfSeq
  <2>3. read_bios[1].w \in Writes
    BY <2>2 DEF ReadBio
  <2>. QED
    BY <1>1, <2>2, <2>3, CloneHolds
<1>. QED
  BY <1>3, <1>4

\* With tracing stopped and nothing held back, no step touches a write.
LEMMA StoppedStep ==
  ASSUME RefInv, teardown # "up", Held = {}, read_bios = <<>>, clones = {}, Next
  PROVE  /\ CowThread \/ Destroyer
         /\ UNCHANGED <<wstate, read_bios, clones>> /\ teardown' # "up"
<1>1. \A w \in Writes : ~Writer(w)
  BY DEF Writer, TraceWrite, PassWrite, MakeClone, MakeCloneFails, TraceDone, Traced, Held
<1>2. ~SubmitClone
  BY DEF SubmitClone
<1>3. ~SubmitOrig
  <2>. SUFFICES ASSUME orig_bios # <<>> PROVE FALSE
    BY DEF SubmitOrig
  <2>1. orig_bios \in Seq(Writes)
    BY DEF RefInv, TypeOK
  <2>2. Len(orig_bios) \in Nat \ {0} /\ DOMAIN orig_bios = 1 .. Len(orig_bios)
    BY <2>1, LenProperties, EmptySeq
  <2>3. 1 \in DOMAIN orig_bios /\ orig_bios[1] \in Writes
    BY <2>1, <2>2, ElementOfSeq
  <2>4. wstate[orig_bios[1]] = "queued"
    BY <2>3 DEF RefInv, WritesReleasedOnce
  <2>. QED
    BY <2>3, <2>4 DEF Held
<1>4. ~BaseDevice
  BY DEF BaseDevice, BaseWrite, Held
<1>5. \A r \in Reads, lo, hi \in Blocks : ~SnapRead(r, lo, hi)
  BY DEF SnapRead
<1>6. CowThread \/ Destroyer
  BY <1>1, <1>2, <1>3, <1>4, <1>5 DEF Next
<1>7. CASE CowThread
  <2>1. UNCHANGED <<wvars, cvars>> /\ (teardown' = teardown \/ teardown' = "waiting")
    BY <1>7 DEF CowThread, CowLoop, CowComparesCounts, CowWakes, CowHandleWrite, CowHandleRead,
                CowDrop, CowReadBase, CowReadBaseFails
  <2>. QED
    BY <1>7, <2>1 DEF wvars, cvars
<1>8. CASE Destroyer
  <2>1. UNCHANGED <<wvars, cvars>> /\ teardown' # "up"
    BY <1>8 DEF Destroyer, StopTracing, ClonesWaitedFor, MrfThreadExits, ReadThreadExits
  <2>. QED
    BY <1>8, <2>1 DEF wvars, cvars
<1>. QED
  BY <1>6, <1>7, <1>8

LEMMA StopInvInductive ==
  ASSUME FreezeDrains, RefInv, StopInv, [Next]_vars
  PROVE  StopInv'
<1>1. CASE UNCHANGED vars
  BY <1>1 DEF StopInv, Held, vars, wvars, cvars, tvars
<1>2. CASE Next /\ teardown # "up"
  <2>1. Held = {} /\ read_bios = <<>> /\ clones = {}
    BY <1>2 DEF StopInv
  <2>2. /\ CowThread \/ Destroyer
        /\ UNCHANGED <<wstate, read_bios, clones>> /\ teardown' # "up"
    BY <1>2, <2>1, StoppedStep
  <2>3. Held' = {} /\ read_bios' = <<>> /\ clones' = {}
    BY <2>1, <2>2 DEF Held
  <2>4. cow_pc' \in {"empty", "gone"} => cow_bios' = <<>>
    <3>1. CASE Destroyer
      <4>1. UNCHANGED <<cow_bios, cow_pc>>
        BY <3>1 DEF Destroyer, StopTracing, ClonesWaitedFor, MrfThreadExits, ReadThreadExits, tvars
      <4>. QED
        BY <4>1 DEF StopInv
    <3>2. CASE CowLoop
      BY <3>2 DEF CowLoop
    <3>3. CASE CowComparesCounts
      BY <3>3 DEF CowComparesCounts, StopInv
    <3>4. CASE ~CowLoop /\ ~CowComparesCounts /\ CowThread
      BY <3>4 DEF CowThread, CowWakes, CowHandleWrite, CowHandleRead, CowDrop, CowReadBase,
                  CowReadBaseFails
    <3>. QED
      BY <2>2, <3>1, <3>2, <3>3, <3>4
  <2>. QED
    BY <2>2, <2>3, <2>4 DEF StopInv
<1>3. CASE Next /\ teardown = "up"
  <2>1. cow_pc \notin {"empty", "gone"}
    BY <1>3 DEF StopInv
  <2>2. cow_pc' \notin {"empty", "gone"}
    <3>1. CASE CowThread
      BY <1>3, <2>1, <3>1 DEF CowThread, CowLoop, CowComparesCounts, CowWakes, CowHandleWrite,
                       CowHandleRead, CowDrop, CowReadBase, CowReadBaseFails
    <3>2. CASE ~CowThread
      <4>1. cow_pc' = cow_pc
        BY <1>3, <3>2 DEF Next, Writer, TraceWrite, PassWrite, MakeClone, MakeCloneFails, TraceDone,
             SubmitClone, SubmitOrig, BaseDevice, BaseRead, CaptureClone, ReleaseClone, CloneError,
             BaseWrite, SnapRead, Destroyer, StopTracing, ClonesWaitedFor, MrfThreadExits,
             ReadThreadExits, tvars
      <4>. QED
        BY <2>1, <4>1
    <3>. QED
      BY <3>1, <3>2
  <2>3. CASE StopTracing
    <3>1. UNCHANGED <<wstate, read_bios, clones>> /\ Held = {}
      BY <2>3 DEF StopTracing, wvars, cvars
    <3>2. read_bios = <<>> /\ clones = {}
      BY <3>1, NothingHeld
    <3>3. Held' = {}
      BY <3>1 DEF Held
    <3>. QED
      BY <2>2, <3>1, <3>2, <3>3 DEF StopInv
  <2>4. CASE ~StopTracing
    <3>1. teardown' = "up"
      BY <1>3, <2>1, <2>4 DEF Next, Writer, TraceWrite, PassWrite, MakeClone, MakeCloneFails,
           TraceDone, SubmitClone, SubmitOrig, BaseDevice, BaseRead, CaptureClone, ReleaseClone,
           CloneError, BaseWrite, SnapRead, Destroyer, ClonesWaitedFor, MrfThreadExits,
           ReadThreadExits, CowThread, CowLoop, CowComparesCounts, CowWakes, CowHandleWrite,
           CowHandleRead, CowDrop, CowReadBase, CowReadBaseFails
    <3>. QED
      BY <2>2, <3>1 DEF StopInv
  <2>. QED
    BY <2>3, <2>4
<1>. QED
  BY <1>1, <1>2, <1>3

\* When the COW thread has left a device that has not failed, the COW file
\* holds the old content of every overwritten block: the transition to
\* incremental mode and the dormant state may close it.  Besides the order of
\* the clones it takes a filesystem whose freezing drains the writes.
THEOREM CompleteWhenThreadGoneIsInvariant ==
  ASSUME KeepsOrder, FreezeDrains PROVE Spec => []CompleteWhenThreadGone
<1>1. Init => RefInv /\ DataInv /\ StopInv
  <2>1. Init => StopInv
    BY DEF Init, StopInv
  <2>. QED
    BY <2>1, RefInvInitially, DataInvInitially
<1>2. RefInv /\ DataInv /\ StopInv /\ [Next]_vars => RefInv' /\ DataInv' /\ StopInv'
  BY RefInvInductive, DataInvInductive, StopInvInductive
<1>3. RefInv /\ DataInv /\ StopInv => CompleteWhenThreadGone
  <2>. SUFFICES ASSUME RefInv, DataInv, StopInv, cow_pc = "gone", ~fail,
                       NEW b \in Blocks, disk[b] # Old
                PROVE  stored[b] = Old
    BY DEF CompleteWhenThreadGone
  <2>1. SafeIn(cow_bios, stored, b)
    BY OverwrittenSafe
  <2>2. cow_bios = <<>> /\ Len(<<>>) = 0
    BY EmptySeq DEF StopInv
  <2>. QED
    BY <2>1, <2>2 DEF SafeIn
<1>. QED
  BY <1>1, <1>2, <1>3, PTL DEF Spec
=============================================================================
