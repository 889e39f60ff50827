--------------------------- MODULE CowIndexProofs ---------------------------
(***************************************************************************)
(* What the operations of CowIndex keep and change, for every size of the  *)
(* index and every state of the cache.  The eviction policy (Median) plays *)
(* no part: whichever cached sections a sweep writes out, the mappings the *)
(* index yields stay the same.                                             *)
(***************************************************************************)
EXTENDS CowIndex, FiniteSetTheorems, TLAPS

\* Every block belongs to a section.
LEMMA SectOfType == \A b \in Blocks : SectOf(b) \in Sects
  BY IndexAssumption DEF Blocks, Sects, SectOf

\* Every set of sections is finite.
LEMMA SectsFinite ==
  ASSUME NEW S \in SUBSET Sects
  PROVE  IsFiniteSet(S) /\ Cardinality(S) \in Nat
  <1>1. IsFiniteSet(Sects)
    BY FS_Interval, IndexAssumption DEF Sects
  <1>. QED  BY <1>1, FS_Subset, FS_CardinalityType

\* Touching a section changes no mapping.
LEMMA TouchKeeps ==
  ASSUME NEW ix, IndexOK(ix), NEW s \in Sects
  PROVE  /\ IndexOK(Touch(ix, s))
         /\ Touch(ix, s).cached = ix.cached
         /\ Touch(ix, s).has_data = ix.has_data
         /\ Touch(ix, s).nr = ix.nr
         /\ \A b \in Blocks : Mapping(Touch(ix, s), b) = Mapping(ix, b)
  BY DEF IndexOK, Index, Touch, Mapping

\* Bringing a section into the cache changes no mapping.
LEMMA BringInKeeps ==
  ASSUME NEW ix, IndexOK(ix), NEW s \in Sects, s \notin ix.cached
  PROVE  /\ IndexOK(BringIn(ix, s))
         /\ BringIn(ix, s).cached = ix.cached \cup {s}
         /\ BringIn(ix, s).nr = ix.nr
         /\ \A b \in Blocks : Mapping(BringIn(ix, s), b) = Mapping(ix, b)
  <1>1. Cardinality(ix.cached \cup {s}) = Cardinality(ix.cached) + 1
    <2>1. IsFiniteSet(ix.cached)
      BY SectsFinite DEF IndexOK, Index
    <2>. QED  BY <2>1, FS_AddElement
  <1>2. BringIn(ix, s) \in Index
    <2>1. [b \in Blocks |-> IF SectOf(b) # s THEN ix.mappings[b]
                            ELSE IF s \in ix.has_data THEN ix.stored[b] ELSE 0]
            \in [Blocks -> Nat]
      BY DEF IndexOK, Index
    <2>2. ix.allocated + 1 \in Nat
      BY DEF IndexOK, Index
    <2>. QED  BY <2>1, <2>2 DEF IndexOK, Index, BringIn
  <1>3. IndexOK(BringIn(ix, s))
    BY <1>1, <1>2 DEF IndexOK, Index, BringIn
  <1>4. \A b \in Blocks : Mapping(BringIn(ix, s), b) = Mapping(ix, b)
    BY DEF IndexOK, Index, BringIn, Mapping
  <1>. QED  BY <1>3, <1>4 DEF BringIn, IndexOK, Index

\* Writing cached sections out changes no mapping.
LEMMA WriteOutKeeps ==
  ASSUME NEW ix, IndexOK(ix), NEW V \in SUBSET ix.cached, NEW U
  PROVE  /\ IndexOK(WriteOut(ix, V, U))
         /\ WriteOut(ix, V, U).cached = ix.cached \ V
         /\ WriteOut(ix, V, U).nr = ix.nr
         /\ WriteOut(ix, V, U).has_data = ix.has_data
         /\ \A b \in Blocks : Mapping(WriteOut(ix, V, U), b) = Mapping(ix, b)
  <1>1. /\ IsFiniteSet(ix.cached)
        /\ Cardinality(ix.cached) \in Nat
        /\ Cardinality(V) \in Nat
        /\ Cardinality(ix.cached \ V) \in Nat
        /\ Cardinality(ix.cached \ V) = Cardinality(ix.cached) - Cardinality(V)
    <2>1. /\ IsFiniteSet(ix.cached) /\ IsFiniteSet(ix.cached \ V)
          /\ IsFiniteSet(V)
      BY SectsFinite, FS_Subset DEF IndexOK, Index
    <2>2. /\ V \cup (ix.cached \ V) = ix.cached
          /\ V \cap (ix.cached \ V) = {}
      OBVIOUS
    <2>3. Cardinality(V \cup (ix.cached \ V))
            = Cardinality(V) + Cardinality(ix.cached \ V)
              - Cardinality(V \cap (ix.cached \ V))
      BY <2>1, FS_Union
    <2>4. Cardinality({}) = 0
      BY FS_EmptySet
    <2>5. /\ Cardinality(ix.cached) \in Nat
          /\ Cardinality(V) \in Nat
          /\ Cardinality(ix.cached \ V) \in Nat
      BY <2>1, FS_CardinalityType
    <2>. QED  BY <2>1, <2>2, <2>3, <2>4, <2>5
  <1>2. WriteOut(ix, V, U) \in Index
    BY <1>1 DEF IndexOK, Index, WriteOut
  <1>3. IndexOK(WriteOut(ix, V, U))
    BY <1>1, <1>2 DEF IndexOK, Index, WriteOut
  <1>4. \A b \in Blocks : Mapping(WriteOut(ix, V, U), b) = Mapping(ix, b)
    BY DEF IndexOK, Index, WriteOut, Mapping
  <1>. QED  BY <1>3, <1>4 DEF WriteOut, IndexOK, Index

-----------------------------------------------------------------------------

\* A sweep writes out some of the cached sections.
LEMMA SweepWritesOut ==
  ASSUME NEW ix, NEW thresh, NEW r \in SweepOutcomes(ix, thresh)
  PROVE  \E V \in SUBSET ix.cached, U \in SUBSET Sects :
           r.ix = WriteOut(ix, V, U)
  <1>. DEFINE V == Victims(ix, thresh)
              U == {s \in Sects : Reached(ix, thresh, s)}
  <1>1. V \in SUBSET ix.cached
    BY DEF Victims, Candidates
  <1>2. CASE r = [ret |-> 0, ix |-> WriteOut(ix, V, U)]
    BY <1>1, <1>2
  <1>3. CASE \E k \in V : r = [ret |-> -1,
               ix |-> WriteOut(ix, {s \in V : s < k}, {s \in U : s < k})]
    <2>1. PICK k \in V : r = [ret |-> -1,
               ix |-> WriteOut(ix, {s \in V : s < k}, {s \in U : s < k})]
      BY <1>3
    <2>2. /\ {s \in V : s < k} \in SUBSET ix.cached
          /\ {s \in U : s < k} \in SUBSET Sects
      BY <1>1
    <2>. HIDE DEF V, U
    <2>. QED  BY <2>1, <2>2
  <1>. QED  BY <1>2, <1>3 DEF SweepOutcomes

\* Eviction loses nothing, whether it runs to its end or fails half way.
LEMMA CleanupKeeps ==
  ASSUME NEW ix, IndexOK(ix), NEW r \in CleanupOutcomes(ix)
  PROVE  /\ IndexOK(r.ix)
         /\ r.ix.nr = ix.nr
         /\ \A b \in Blocks : Mapping(r.ix, b) = Mapping(ix, b)
  <1>1. CASE ix.allocated > ix.allowed
    <2>1. PICK V \in SUBSET ix.cached, U \in SUBSET Sects :
                 r.ix = WriteOut(ix, V, U)
      BY <1>1, SweepWritesOut DEF CleanupOutcomes
    <2>. QED  BY <2>1, WriteOutKeeps
  <1>2. CASE ~(ix.allocated > ix.allowed)
    BY <1>2 DEF CleanupOutcomes
  <1>. QED  BY <1>1, <1>2

\* Looking a mapping up changes no mapping.
LEMMA ReadMappingKeeps ==
  ASSUME NEW ix, IndexOK(ix), NEW b \in Blocks, NEW r \in ReadMappingOutcomes(ix, b)
  PROVE  /\ IndexOK(r.ix)
         /\ r.ix.nr = ix.nr
         /\ \A c \in Blocks : Mapping(r.ix, c) = Mapping(ix, c)
  <1>. DEFINE s == SectOf(b)
              t == Touch(ix, s)
  <1>1. s \in Sects
    BY SectOfType
  <1>2. /\ IndexOK(t) /\ t.nr = ix.nr
        /\ t.cached = ix.cached /\ t.has_data = ix.has_data
        /\ \A c \in Blocks : Mapping(t, c) = Mapping(ix, c)
    BY <1>1, TouchKeeps
  <1>3. \/ r \in CleanupOutcomes(t)
        \/ r.ix = t
        \/ s \notin ix.cached /\ r \in CleanupOutcomes(BringIn(t, s))
    BY DEF ReadMappingOutcomes
  <1>4. CASE s \notin ix.cached /\ r \in CleanupOutcomes(BringIn(t, s))
    <2>. HIDE DEF s, t
    <2>1. /\ IndexOK(BringIn(t, s)) /\ BringIn(t, s).nr = ix.nr
          /\ \A c \in Blocks : Mapping(BringIn(t, s), c) = Mapping(ix, c)
      BY <1>1, <1>2, <1>4, BringInKeeps
    <2>. QED  BY <1>4, <2>1, CleanupKeeps
  <1>. HIDE DEF s, t
  <1>. QED  BY <1>2, <1>3, <1>4, CleanupKeeps

\* Setting a mapping of a cached section changes that mapping alone, and
\* counts the block if it had none.
LEMMA SetMappingSets ==
  ASSUME NEW ix, IndexOK(ix), NEW b \in Blocks, NEW val \in Nat,
         SectOf(b) \in ix.cached
  PROVE  /\ IndexOK(SetMapping(ix, b, val))
         /\ SetMapping(ix, b, val).nr
              = ix.nr + (IF Mapping(ix, b) = 0 THEN 1 ELSE 0)
         /\ \A c \in Blocks : Mapping(SetMapping(ix, b, val), c)
                              = IF c = b THEN val ELSE Mapping(ix, c)
  <1>1. SetMapping(ix, b, val) \in Index
    <2>1. [ix.mappings EXCEPT ![b] = val] \in [Blocks -> Nat]
      BY DEF IndexOK, Index
    <2>2. (IF ix.mappings[b] = 0 THEN ix.nr + 1 ELSE ix.nr) \in Nat
      BY DEF IndexOK, Index
    <2>. QED  BY <2>1, <2>2 DEF IndexOK, Index, SetMapping
  <1>2. IndexOK(SetMapping(ix, b, val))
    BY <1>1 DEF IndexOK, Index, SetMapping
  <1>3. SetMapping(ix, b, val).nr = ix.nr + (IF Mapping(ix, b) = 0 THEN 1 ELSE 0)
    BY DEF IndexOK, Index, SetMapping, Mapping
  <1>4. ASSUME NEW c \in Blocks
        PROVE  Mapping(SetMapping(ix, b, val), c)
                 = IF c = b THEN val ELSE Mapping(ix, c)
    BY DEF IndexOK, Index, SetMapping, Mapping
  <1>. QED  BY <1>2, <1>3, <1>4

\* Writing a mapping either changes that mapping alone or, with an error,
\* may leave it as it was.
LEMMA WriteMappingWrites ==
  ASSUME NEW ix, IndexOK(ix), NEW b \in Blocks, NEW val \in Nat,
         NEW r \in WriteMappingOutcomes(ix, b, val)
  PROVE  /\ IndexOK(r.ix)
         /\ \/ /\ r.ix.nr = ix.nr + (IF Mapping(ix, b) = 0 THEN 1 ELSE 0)
               /\ \A c \in Blocks : Mapping(r.ix, c)
                                    = IF c = b THEN val ELSE Mapping(ix, c)
            \/ /\ r.ret # 0
               /\ r.ix.nr = ix.nr
               /\ \A c \in Blocks : Mapping(r.ix, c) = Mapping(ix, c)
  <1>. DEFINE s == SectOf(b)
              t == Touch(ix, s)
              u == IF s \in ix.cached THEN t ELSE BringIn(t, s)
  <1>1. s \in Sects
    BY SectOfType
  <1>2. /\ IndexOK(t) /\ t.nr = ix.nr
        /\ t.cached = ix.cached
        /\ \A c \in Blocks : Mapping(t, c) = Mapping(ix, c)
    BY <1>1, TouchKeeps
  <1>3. \/ r = [ret |-> -1, ix |-> t]
        \/ r \in CleanupOutcomes(SetMapping(u, b, val))
    BY DEF WriteMappingOutcomes
  <1>4. /\ IndexOK(u) /\ u.nr = ix.nr /\ s \in u.cached
        /\ \A c \in Blocks : Mapping(u, c) = Mapping(ix, c)
    <2>1. CASE s \in ix.cached
      <3>. HIDE DEF s, t
      <3>. QED  BY <1>2, <2>1
    <2>2. CASE s \notin ix.cached
      <3>. HIDE DEF s, t
      <3>. QED  BY <1>1, <1>2, <2>2, BringInKeeps
    <2>. QED  BY <2>1, <2>2
  <1>5. CASE r \in CleanupOutcomes(SetMapping(u, b, val))
    <2>. DEFINE m == SetMapping(u, b, val)
    <2>1. SectOf(b) \in u.cached
      BY <1>4 DEF s
    <2>. HIDE DEF u
    <2>2. /\ IndexOK(m)
          /\ m.nr = u.nr + (IF Mapping(u, b) = 0 THEN 1 ELSE 0)
          /\ \A c \in Blocks : Mapping(m, c) = IF c = b THEN val ELSE Mapping(u, c)
      BY <1>4, <2>1, SetMappingSets
    <2>. HIDE DEF m
    <2>3.
          /\ IndexOK(r.ix)
          /\ r.ix.nr = m.nr
          /\ \A c \in Blocks : Mapping(r.ix, c) = Mapping(m, c)
      BY <2>2, <1>5, CleanupKeeps DEF m
    <2>. QED  BY <1>4, <2>2, <2>3
  <1>6. CASE r = [ret |-> -1, ix |-> t]
    <2>. HIDE DEF t
    <2>. QED  BY <1>2, <1>6
  <1>. QED  BY <1>3, <1>5, <1>6
=============================================================================
