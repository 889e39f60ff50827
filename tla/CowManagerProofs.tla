-------------------------- MODULE CowManagerProofs --------------------------
(***************************************************************************)
(* Proofs about CowManager, for every size of the index, of the cache and  *)
(* of the file.  CowIndexProofs says what the operations on the index do;  *)
(* here they are put together into the invariants of the manager.          *)
(***************************************************************************)
EXTENDS CowManager, CowIndexProofs

\* A header that is there has the fields of struct cow_header.
LEMMA HeaderType ==
  ASSUME TypeOK, header # NoFile
  PROVE  header \in Header
  BY DEF TypeOK

\* Changing a function at one point keeps its type.
LEMMA ExceptType ==
  ASSUME NEW D, NEW R, NEW f \in [D -> R], NEW d, NEW v \in R
  PROVE  [f EXCEPT ![d] = v] \in [D -> R]
  OBVIOUS

\* The index of a new cow_manager is well formed and maps no block.
LEMMA EmptyIndexOK ==
  ASSUME NEW a \in Nat
  PROVE  /\ IndexOK(EmptyIndex(a))
         /\ EmptyIndex(a).cached = {}
         /\ EmptyIndex(a).nr = 0
         /\ \A b \in Blocks : /\ EmptyIndex(a).stored[b] = 0
                              /\ Mapping(EmptyIndex(a), b) = 0
  <1>1. Cardinality({}) = 0
    BY FS_EmptySet
  <1>. QED  BY <1>1 DEF EmptyIndex, IndexOK, Index, Mapping

\* Losing the manager's memory leaves a typed index with the same index region
\* in the file.
LEMMA OnFileType ==
  ASSUME ix \in Index
  PROVE  /\ OnFile \in Index
         /\ OnFile.cached = {}
         /\ OnFile.stored = ix.stored
  BY DEF OnFile, EmptyIndex, Index

\* With nothing cached the file holds all the mappings.
LEMMA FlushedMapping ==
  ASSUME IndexOK(ix), ix.cached = {}, NEW b \in Blocks
  PROVE  Mapping(ix, b) = ix.stored[b]
  BY DEF IndexOK, Mapping

\* The invariant holds before the first COW file is created.
LEMMA InitInv == Init => Inv
  <1>. SUFFICES ASSUME Init PROVE Inv
    OBVIOUS
  <1>1. IndexOK(ix) /\ ix.cached = {}
    BY EmptyIndexOK DEF Init
  <1>2. TypeOK
    BY <1>1 DEF Init, TypeOK, States, NoData, NoFile, IndexOK
  <1>3. header = NoFile /\ state = "absent"
    BY DEF Init
  <1>. QED  BY <1>1, <1>2, <1>3 DEF Inv, IndexInv, ClosedInv, CountInv, PosInv, InUse, IndexOK

-----------------------------------------------------------------------------
(* The count of changed blocks.                                            *)

\* Every set of blocks is finite.
LEMMA BlocksFinite ==
  ASSUME NEW S \in SUBSET Blocks
  PROVE  IsFiniteSet(S) /\ Cardinality(S) \in Nat
  <1>1. IsFiniteSet(Blocks)
    BY FS_Interval, IndexAssumption DEF Blocks
  <1>. QED  BY <1>1, FS_Subset, FS_CardinalityType

\* If no mapping changes, the set of mapped blocks does not.
LEMMA SameMapped ==
  ASSUME InUse, InUse', \A b \in Blocks : Mapping(ix', b) = Mapping(ix, b)
  PROVE  MappedBlocks' = MappedBlocks
  BY DEF MappedBlocks, MappingNow

\* Setting one mapping adds at most that block to the mapped blocks, and
\* nr_changed_blocks follows.
LEMMA OneMoreMapped ==
  ASSUME InUse, InUse', NEW b \in Blocks, NEW val \in Nat \ {0},
         \A c \in Blocks : Mapping(ix', c) = IF c = b THEN val ELSE Mapping(ix, c)
  PROVE  Cardinality(MappedBlocks')
           = Cardinality(MappedBlocks) + (IF Mapping(ix, b) = 0 THEN 1 ELSE 0)
  <1>1. MappedBlocks' = MappedBlocks \cup {b}
    BY DEF MappedBlocks, MappingNow
  <1>2. IsFiniteSet(MappedBlocks) /\ Cardinality(MappedBlocks) \in Nat
    BY BlocksFinite DEF MappedBlocks
  <1>3. b \in MappedBlocks <=> Mapping(ix, b) # 0
    BY DEF MappedBlocks, MappingNow
  <1>4. CASE Mapping(ix, b) = 0
    BY <1>1, <1>2, <1>3, <1>4, FS_AddElement
  <1>5. CASE Mapping(ix, b) # 0
    <2>1. MappedBlocks' = MappedBlocks
      BY <1>1, <1>3, <1>5
    <2>. QED  BY <2>1, <1>2, <1>5
  <1>. QED  BY <1>4, <1>5

-----------------------------------------------------------------------------
(* Inv is inductive.  Most steps leave the manager in use with the same    *)
(* mappings, or without a file.                                            *)

\* A step that keeps the manager in use and changes no mapping (an eviction, a
\* lookup, a failed write) keeps the invariant.
LEMMA KeepsInv ==
  ASSUME Inv, TypeOK', InUse, InUse', state # "closed", state' # "closed",
         IndexOK(ix'), ix'.nr = ix.nr, header' = header, curr_pos' = curr_pos,
         \A b \in Blocks : Mapping(ix', b) = Mapping(ix, b)
  PROVE  Inv'
  <1>1. MappedBlocks' = MappedBlocks
    BY SameMapped
  <1>2. IndexInv'
    BY DEF IndexInv
  <1>3. ClosedInv'
    BY DEF Inv, ClosedInv, InUse
  <1>4. CountInv'
    BY <1>1 DEF Inv, CountInv, InUse
  <1>5. PosInv'
    BY DEF Inv, PosInv
  <1>. QED  BY <1>2, <1>3, <1>4, <1>5 DEF Inv

\* A step that sets the mapping of one block (cow_write_current,
\* cow_write_filler_mapping) keeps the invariant.
LEMMA SetsInv ==
  ASSUME Inv, TypeOK', state = "open", state' = "open", header' = header,
         IndexOK(ix'), curr_pos <= curr_pos',
         NEW b \in Blocks, NEW val \in Nat \ {0},
         ix'.nr = ix.nr + (IF Mapping(ix, b) = 0 THEN 1 ELSE 0),
         \A c \in Blocks : Mapping(ix', c) = IF c = b THEN val ELSE Mapping(ix, c)
  PROVE  Inv'
  <1>1. Cardinality(MappedBlocks')
          = Cardinality(MappedBlocks) + (IF Mapping(ix, b) = 0 THEN 1 ELSE 0)
    BY OneMoreMapped DEF InUse
  <1>2. IndexInv'
    BY DEF IndexInv, InUse
  <1>3. ClosedInv'
    BY DEF Inv, ClosedInv
  <1>4. CountInv'
    BY <1>1 DEF Inv, CountInv, InUse
  <1>5. PosInv'
    BY ManagerAssumption DEF Inv, PosInv, InUse, TypeOK
  <1>. QED  BY <1>2, <1>3, <1>4, <1>5 DEF Inv, IndexInv, InUse

\* A step that unlinks the COW file keeps the invariant.
LEMMA GoneInv ==
  ASSUME Inv, Unlink, NoManager, state' \in {"absent", "freed"}
  PROVE  Inv'
  <1>1. IndexOK(ix') /\ ix'.cached = {}
    BY EmptyIndexOK DEF Unlink
  <1>2. TypeOK'
    BY <1>1 DEF Unlink, NoManager, TypeOK, States, NoData, NoFile, IndexOK
  <1>. QED  BY <1>1, <1>2
            DEF Inv, IndexInv, ClosedInv, CountInv, PosInv, InUse, Unlink, IndexOK

\* The memory of the manager is gone, the file stays.
LEMMA LeavesFileInv ==
  ASSUME Inv, ix' = OnFile, NoManager, state' = "absent", UNCHANGED <<header, data>>,
         header # NoFile /\ header.clean => state = "closed"
  PROVE  Inv'
  <1>1. ix \in Index
    BY DEF Inv, TypeOK
  <1>2. ix' \in Index /\ ix'.cached = {} /\ ix'.stored = ix.stored
    BY <1>1, OnFileType
  <1>3. TypeOK'
    BY <1>2 DEF Inv, TypeOK, NoManager, States
  <1>4. CountInv'
    <2>1. SUFFICES ASSUME header # NoFile, header.clean
                   PROVE  header.nr = Cardinality(MappedBlocks')
      BY DEF CountInv, InUse
    <2>2. state = "closed" /\ IndexOK(ix) /\ ix.cached = {} /\ InUse
      BY <2>1 DEF Inv, ClosedInv, IndexInv, InUse
    <2>3. \A b \in Blocks : MappingNow(b)' = MappingNow(b)
      BY <1>2, <2>2, FlushedMapping DEF MappingNow, InUse
    <2>4. MappedBlocks' = MappedBlocks
      BY <2>3 DEF MappedBlocks
    <2>5. header.nr = ix.nr
      BY <2>2 DEF Inv, ClosedInv, HeaderNow
    <2>. QED  BY <2>2, <2>4, <2>5 DEF Inv, CountInv
  <1>. QED  BY <1>2, <1>3, <1>4 DEF Inv, IndexInv, ClosedInv, PosInv, InUse

\* Every step of the COW manager keeps the invariant.
LEMMA NextInv == Inv /\ [Next]_vars => Inv'
  <1>. SUFFICES ASSUME Inv, [Next]_vars PROVE Inv'
    OBVIOUS
  <1>t. TypeOK /\ IndexInv /\ ClosedInv /\ CountInv /\ PosInv
    BY DEF Inv
  <1>1. ASSUME NEW a \in CacheSizes, CowInit(a) PROVE Inv'
    <2>1. a \in Nat
      BY ManagerAssumption
    <2>2. /\ IndexOK(ix') /\ ix'.nr = 0
          /\ \A b \in Blocks : Mapping(ix', b) = 0
      BY <1>1, <2>1, EmptyIndexOK DEF CowInit
    <2>3. TypeOK'
      BY <1>1, <1>t, <2>2, ManagerAssumption
      DEF CowInit, TypeOK, States, NoData, Header, IndexOK
    <2>4. MappedBlocks' = {}
      BY <1>1, <2>2 DEF CowInit, MappedBlocks, MappingNow, InUse
    <2>5. CountInv'
      BY <1>1, <2>2, <2>4, FS_EmptySet DEF CountInv, CowInit, InUse
    <2>6. PosInv'
      BY <1>1, ManagerAssumption DEF CowInit, PosInv
    <2>. QED  BY <1>1, <2>2, <2>3, <2>5, <2>6
              DEF CowInit, Inv, IndexInv, ClosedInv, InUse
  <1>2. CASE CowInitFails
    BY <1>2, GoneInv DEF CowInitFails
  <1>3. ASSUME NEW a \in CacheSizes, NEW io \in BOOLEAN, CowReload(a, io) PROVE Inv'
    <2>1. header \in Header /\ a \in Nat /\ ix \in Index
      BY <1>3, <1>t, HeaderType, ManagerAssumption
      DEF CowReload, HeaderAccepted, TypeOK
    <2>2. /\ ix' \in Index /\ ix'.cached = {} /\ ix'.has_data = Sects
          /\ ix'.nr = header.nr /\ ix'.stored = ix.stored /\ ix'.allocated = 0
      BY <1>3, <2>1, OnFileType DEF CowReload, Header, OnFile, EmptyIndex, Index
    <2>3. IndexOK(ix')
      BY <2>2, SectOfType, FS_EmptySet DEF IndexOK
    <2>4. \A b \in Blocks : Mapping(ix', b) = ix.stored[b]
      BY <2>2, SectOfType DEF Mapping
    <2>5. header' \in Header /\ ~header'.clean
      BY <1>3, <2>1 DEF CowReload, Header
    <2>6. TypeOK'
      BY <1>3, <1>t, <2>1, <2>2, <2>5 DEF CowReload, TypeOK, States, Header
    <2>7. MappedBlocks' = MappedBlocks
      BY <1>3, <2>4 DEF CowReload, MappedBlocks, MappingNow, InUse
    <2>8. CountInv'
      BY <1>3, <1>t, <2>2, <2>7 DEF CowReload, HeaderAccepted, CountInv, InUse
    <2>9. PosInv'
      BY <1>3, <1>t, <2>1 DEF CowReload, HeaderAccepted, PosInv, Header
    <2>. QED  BY <1>3, <2>3, <2>5, <2>6, <2>8, <2>9
              DEF CowReload, Inv, IndexInv, ClosedInv, InUse
  <1>4. ASSUME NEW io \in BOOLEAN, CowReloadFails(io) PROVE Inv'
    <2>1. header \in Header
      BY <1>4, <1>t, HeaderType DEF CowReloadFails, HeaderAccepted
    <2>2. header' \in Header /\ ~header'.clean
      BY <1>4, <2>1 DEF CowReloadFails, Header
    <2>3. TypeOK'
      BY <1>4, <1>t, <2>2 DEF CowReloadFails, TypeOK
    <2>4. PosInv'
      BY <1>4, <1>t, <2>1 DEF CowReloadFails, HeaderAccepted, PosInv, Header, InUse
    <2>. QED  BY <1>4, <1>t, <2>2, <2>3, <2>4
              DEF CowReloadFails, Inv, IndexInv, ClosedInv, CountInv, InUse
  <1>5. CASE CowReopen
    <2>1. header \in Header /\ ix \in Index
      BY <1>5, <1>t, HeaderType DEF CowReopen, HeaderAccepted, TypeOK
    <2>2. header.nr = ix.nr
      BY <1>5, <1>t DEF CowReopen, ClosedInv, HeaderNow
    <2>3. ix' = ix
      BY <1>5, <2>1, <2>2 DEF CowReopen, Index
    <2>4. header' \in Header /\ ~header'.clean
      BY <1>5, <2>1 DEF CowReopen, Header
    <2>5. TypeOK'
      BY <1>5, <1>t, <2>1, <2>3, <2>4 DEF CowReopen, TypeOK, States, Header
    <2>6. MappedBlocks' = MappedBlocks
      BY <1>5, <2>3 DEF CowReopen, MappedBlocks, MappingNow, InUse
    <2>7. CountInv'
      BY <1>5, <1>t, <2>3, <2>6 DEF CowReopen, CountInv, InUse
    <2>8. PosInv'
      BY <1>5, <1>t, <2>1 DEF CowReopen, HeaderAccepted, PosInv, Header
    <2>. QED  BY <1>5, <1>t, <2>3, <2>4, <2>5, <2>7, <2>8
              DEF CowReopen, Inv, IndexInv, ClosedInv, InUse
  <1>6. CASE CowReopenFails
    <2>1. /\ TypeOK' /\ InUse' /\ InUse
          /\ UNCHANGED <<state, ix, header, curr_pos, file_size, index_only>>
      BY <1>6, <1>t DEF CowReopenFails, TypeOK, InUse
    <2>2. MappedBlocks' = MappedBlocks
      BY <2>1, SameMapped
    <2>3. PosInv'
      BY <1>t, <2>1 DEF PosInv
    <2>. QED  BY <1>6, <1>t, <2>1, <2>2, <2>3
              DEF CowReopenFails, Inv, IndexInv, ClosedInv, CountInv, HeaderNow, InUse
  <1>7. ASSUME NEW b \in Blocks, CowReadMapping(b) \/ CowWriteCurrentSkips(b) PROVE Inv'
    <2>1. PICK r \in ReadMappingOutcomes(ix, b) : ix' = r.ix /\ failed' = (r.ret # 0)
      BY <1>7 DEF CowReadMapping, CowWriteCurrentSkips
    <2>2. IndexOK(ix) /\ state = "open"
      BY <1>7, <1>t DEF CowReadMapping, CowWriteCurrentSkips, Driven, IndexInv, InUse
    <2>3. /\ IndexOK(ix') /\ ix'.nr = ix.nr
          /\ \A c \in Blocks : Mapping(ix', c) = Mapping(ix, c)
      BY <2>1, <2>2, ReadMappingKeeps
    <2>4. TypeOK'
      BY <1>7, <1>t, <2>1, <2>3
      DEF CowReadMapping, CowWriteCurrentSkips, TypeOK, IndexOK
    <2>. QED  BY <1>7, <2>2, <2>3, <2>4, KeepsInv
              DEF CowReadMapping, CowWriteCurrentSkips, InUse
  <1>8. ASSUME NEW b \in Blocks, NEW v \in Values, CowWriteCurrentStores(b, v)
        PROVE  Inv'
    <2>1. PICK r \in ReadMappingOutcomes(ix, b) :
            \E w \in WriteMappingOutcomes(r.ix, b, curr_pos) : w.ret = 0 /\ ix' = w.ix
      BY <1>8 DEF CowWriteCurrentStores
    <2>2. PICK w \in WriteMappingOutcomes(r.ix, b, curr_pos) : w.ret = 0 /\ ix' = w.ix
      BY <2>1
    <2>3. IndexOK(ix) /\ state = "open" /\ curr_pos \in Nat
      BY <1>8, <1>t DEF CowWriteCurrentStores, Driven, IndexInv, InUse, TypeOK
    <2>4. /\ IndexOK(r.ix) /\ r.ix.nr = ix.nr
          /\ \A c \in Blocks : Mapping(r.ix, c) = Mapping(ix, c)
      BY <2>3, ReadMappingKeeps
    <2>5. /\ IndexOK(ix')
          /\ ix'.nr = ix.nr + (IF Mapping(ix, b) = 0 THEN 1 ELSE 0)
          /\ \A c \in Blocks : Mapping(ix', c)
                               = IF c = b THEN curr_pos ELSE Mapping(ix, c)
      BY <2>2, <2>3, <2>4, WriteMappingWrites
    <2>6. TypeOK'
      <3>1. data' = [data EXCEPT ![curr_pos] = v] /\ curr_pos' = curr_pos + 1
        BY <1>8 DEF CowWriteCurrentStores, WriteData
      <3>2. /\ data \in [DataPositions -> Values \cup {Hole}] /\ curr_pos \in Nat
        BY <1>t DEF TypeOK
      <3>3. /\ data' \in [DataPositions -> Values \cup {Hole}] /\ curr_pos' \in Nat
        <4>1. v \in Values \cup {Hole}
          OBVIOUS
        <4>2. [data EXCEPT ![curr_pos] = v] \in [DataPositions -> Values \cup {Hole}]
          BY <3>2, <4>1, ExceptType
        <4>3. curr_pos + 1 \in Nat
          BY <3>2
        <4>. QED  BY <3>1, <4>2, <4>3
      <3>. QED  BY <1>8, <1>t, <2>5, <3>3 DEF CowWriteCurrentStores, TypeOK, IndexOK
    <2>7. curr_pos \in Nat \ {0} /\ curr_pos <= curr_pos'
      BY <1>8, <1>t, <2>3, ManagerAssumption
      DEF PosInv, CowWriteCurrentStores, WriteData, InUse
    <2>. QED  BY <1>8, <2>3, <2>5, <2>6, <2>7, SetsInv
              DEF CowWriteCurrentStores
  <1>9. ASSUME NEW b \in Blocks, CowWriteCurrentFails(b) PROVE Inv'
    <2>1. IndexOK(ix) /\ state = "open" /\ curr_pos \in Nat \ {0}
      BY <1>9, <1>t, ManagerAssumption DEF PosInv, CowWriteCurrentFails, Driven, IndexInv, InUse, TypeOK
    <2>2. PICK r \in ReadMappingOutcomes(ix, b) :
            IF r.ret # 0 THEN ix' = r.ix
            ELSE \E w \in WriteMappingOutcomes(r.ix, b, curr_pos) : ix' = w.ix
      BY <1>9 DEF CowWriteCurrentFails
    <2>3. /\ IndexOK(r.ix) /\ r.ix.nr = ix.nr
          /\ \A c \in Blocks : Mapping(r.ix, c) = Mapping(ix, c)
      BY <2>1, ReadMappingKeeps
    <2>4. ASSUME IndexOK(ix') PROVE TypeOK'
      BY <1>9, <1>t, <2>4 DEF CowWriteCurrentFails, TypeOK, IndexOK
    <2>5. CASE r.ret # 0
      BY <1>9, <2>1, <2>2, <2>3, <2>4, <2>5, KeepsInv
      DEF CowWriteCurrentFails, InUse
    <2>6. CASE r.ret = 0
      <3>1. PICK w \in WriteMappingOutcomes(r.ix, b, curr_pos) : ix' = w.ix
        BY <2>2, <2>6
      <3>2. /\ IndexOK(ix')
            /\ \/ /\ ix'.nr = ix.nr + (IF Mapping(ix, b) = 0 THEN 1 ELSE 0)
                  /\ \A c \in Blocks : Mapping(ix', c)
                                       = IF c = b THEN curr_pos ELSE Mapping(ix, c)
               \/ /\ ix'.nr = ix.nr
                  /\ \A c \in Blocks : Mapping(ix', c) = Mapping(ix, c)
        BY <2>1, <2>3, <3>1, WriteMappingWrites
      <3>. QED  BY <1>9, <2>1, <2>4, <3>2, KeepsInv, SetsInv
                DEF CowWriteCurrentFails, InUse
    <2>. QED  BY <2>5, <2>6
  <1>10. ASSUME NEW b \in Blocks, CowWriteFillerMapping(b) PROVE Inv'
    <2>1. IndexOK(ix) /\ state = "open"
      BY <1>10, <1>t DEF CowWriteFillerMapping, Driven, IndexInv, InUse
    <2>2. PICK w \in WriteMappingOutcomes(ix, b, 1) :
            ix' = w.ix /\ failed' = (w.ret # 0)
      BY <1>10 DEF CowWriteFillerMapping
    <2>3. /\ IndexOK(ix')
          /\ \/ /\ ix'.nr = ix.nr + (IF Mapping(ix, b) = 0 THEN 1 ELSE 0)
                /\ \A c \in Blocks : Mapping(ix', c)
                                     = IF c = b THEN 1 ELSE Mapping(ix, c)
             \/ /\ ix'.nr = ix.nr
                /\ \A c \in Blocks : Mapping(ix', c) = Mapping(ix, c)
      BY <2>1, <2>2, WriteMappingWrites
    <2>4. TypeOK'
      BY <1>10, <1>t, <2>2, <2>3 DEF CowWriteFillerMapping, TypeOK, IndexOK
    <2>5. curr_pos' = curr_pos /\ curr_pos <= curr_pos' /\ 1 \in Nat \ {0}
      BY <1>10, <1>t DEF CowWriteFillerMapping, TypeOK
    <2>. QED  BY <1>10, <2>1, <2>3, <2>4, <2>5, KeepsInv, SetsInv
              DEF CowWriteFillerMapping, InUse
  <1>11. ASSUME NEW a \in CacheSizes, CowModifyCacheSize(a) PROVE Inv'
    <2>1. a \in Nat /\ IndexOK(ix) /\ state = "open"
      BY <1>11, <1>t, ManagerAssumption DEF CowModifyCacheSize, IndexInv, InUse
    <2>2. /\ IndexOK(ix') /\ ix'.nr = ix.nr
          /\ \A c \in Blocks : Mapping(ix', c) = Mapping(ix, c)
      BY <1>11, <2>1 DEF CowModifyCacheSize, IndexOK, Index, Mapping
    <2>3. TypeOK'
      BY <1>11, <1>t, <2>2 DEF CowModifyCacheSize, TypeOK, IndexOK
    <2>. QED  BY <1>11, <2>1, <2>2, <2>3, KeepsInv DEF CowModifyCacheSize, InUse
  <1>12. CASE SnapToInc
    <2>1. TypeOK' /\ state = "open" /\ IndexOK(ix)
      BY <1>12, <1>t DEF SnapToInc, Driven, TypeOK, IndexInv, InUse
    <2>. QED  BY <1>12, <2>1, KeepsInv DEF SnapToInc, InUse
  <1>13. CASE CowTruncateToIndex
    <2>1. TypeOK' /\ state = "open" /\ IndexOK(ix)
      BY <1>13, <1>t, ManagerAssumption
      DEF CowTruncateToIndex, TypeOK, IndexInv, InUse, NoData
    <2>. QED  BY <1>13, <2>1, KeepsInv DEF CowTruncateToIndex, InUse
  <1>14. ASSUME NEW next \in {"closing", "freeing"}, StartSync(next) PROVE Inv'
    <2>1. IndexOK(ix) /\ state = "open" /\ state' \in {"closing", "freeing"}
      BY <1>14, <1>t DEF StartSync, Quiet, IndexInv, InUse
    <2>2. /\ IndexOK(ix') /\ ix'.nr = ix.nr
          /\ \A c \in Blocks : Mapping(ix', c) = Mapping(ix, c)
      BY <1>14, <2>1 DEF StartSync, IndexOK, Index, Mapping
    <2>3. TypeOK'
      BY <1>14, <1>t, <2>1, <2>2 DEF StartSync, TypeOK, States, IndexOK
    <2>. QED  BY <1>14, <2>1, <2>2, <2>3, KeepsInv DEF StartSync, InUse
  <1>15. CASE SyncSection
    <2>1. IndexOK(ix) /\ InUse /\ state # "closed"
      BY <1>15, <1>t DEF SyncSection, Syncing, IndexInv, InUse
    <2>2. PICK s \in ix.cached : ix' = WriteOut(ix, {s}, {})
      BY <1>15 DEF SyncSection
    <2>3. /\ IndexOK(ix') /\ ix'.nr = ix.nr
          /\ \A c \in Blocks : Mapping(ix', c) = Mapping(ix, c)
      BY <2>1, <2>2, WriteOutKeeps
    <2>4. TypeOK'
      BY <1>15, <1>t, <2>3 DEF SyncSection, TypeOK, IndexOK
    <2>. QED  BY <1>15, <2>1, <2>3, <2>4, KeepsInv DEF SyncSection, InUse
  <1>16. CASE CloseClean
    <2>1. IndexOK(ix) /\ InUse /\ ix.cached = {} /\ header' = HeaderNow(TRUE)
      BY <1>16, <1>t DEF CloseClean, Syncing, IndexInv, InUse
    <2>2. HeaderNow(TRUE) \in Header /\ HeaderNow(TRUE).nr = ix.nr
      BY <1>t, <2>1 DEF HeaderNow, Header, TypeOK, IndexOK, Index
    <2>3. \A b \in Blocks : Mapping(ix, b) = ix.stored[b]
      BY <2>1, FlushedMapping
    <2>4. CASE state = "closing"
      <3>1. /\ state' = "closed"
            /\ UNCHANGED <<tracking, failed, ix, curr_pos, file_size, index_only>>
        BY <1>16, <2>4 DEF CloseClean
      <3>2. TypeOK'
        BY <1>16, <1>t, <2>1, <2>2, <3>1 DEF CloseClean, TypeOK, States
      <3>3. MappedBlocks' = MappedBlocks
        BY <2>1, <3>1, SameMapped DEF InUse
      <3>. QED  BY <1>t, <2>1, <3>1, <3>2, <3>3
                DEF Inv, IndexInv, ClosedInv, CountInv, PosInv, InUse, HeaderNow
    <2>5. CASE state # "closing"
      <3>1. state' = "absent" /\ ix' = OnFile /\ NoManager
        BY <1>16, <2>5 DEF CloseClean
      <3>2. ix' \in Index /\ ix'.cached = {} /\ ix'.stored = ix.stored
        BY <2>1, <3>1, OnFileType DEF IndexOK
      <3>3. TypeOK'
        BY <1>16, <1>t, <2>1, <2>2, <3>1, <3>2
        DEF CloseClean, TypeOK, States, NoManager
      <3>4. MappedBlocks' = MappedBlocks
        BY <2>1, <2>3, <3>1, <3>2 DEF MappedBlocks, MappingNow, InUse
      <3>5. PosInv'
        BY <1>t, <2>1, <3>1 DEF PosInv, HeaderNow, InUse
      <3>. QED  BY <1>t, <2>1, <2>2, <3>1, <3>2, <3>3, <3>4, <3>5
                DEF Inv, IndexInv, ClosedInv, CountInv, InUse
    <2>. QED  BY <2>4, <2>5
  <1>17. CASE SyncFails
    BY <1>17, GoneInv DEF SyncFails
  <1>18. CASE CowFreeMembers
    BY <1>18, GoneInv DEF CowFreeMembers
  <1>19. CASE CowFree
    <2>1. CASE state = "open"
      BY <1>19, <2>1, GoneInv DEF CowFree
    <2>2. CASE state # "open"
      BY <1>19, <1>t, <2>2, LeavesFileInv DEF CowFree, ClosedInv
    <2>. QED  BY <2>1, <2>2
  <1>20. CASE Crash
    BY <1>20, <1>t, LeavesFileInv DEF Crash, ClosedInv
  <1>21. CASE UNCHANGED vars
    BY <1>21, <1>t DEF vars, Inv, TypeOK, IndexInv, ClosedInv, CountInv, PosInv, InUse,
       MappedBlocks, MappingNow, HeaderNow
  <1>. QED
    BY <1>1, <1>2, <1>3, <1>4, <1>5, <1>6, <1>7, <1>8, <1>9, <1>10, <1>11, <1>12,
       <1>13, <1>14, <1>15, <1>16, <1>17, <1>18, <1>19, <1>20, <1>21
    DEF Next, DataPath

-----------------------------------------------------------------------------

\* Inv is an invariant of the COW manager.
THEOREM Invariance == Spec => []Inv
  <1>1. Init => Inv
    BY InitInv
  <1>2. Inv /\ [Next]_vars => Inv'
    BY NextInv
  <1>. QED  BY <1>1, <1>2, PTL DEF Spec

\* Every variable of the manager keeps its type; the number of allocated
\* sections, in particular, never becomes negative.
THEOREM TypeCorrect == Spec => []TypeOK
  <1>1. Inv => TypeOK
    BY DEF Inv
  <1>. QED  BY <1>1, Invariance, PTL

\* A COW file whose header is marked clean holds the complete index.
THEOREM CleanFlushed == Spec => []CleanMeansFlushed
  <1>1. Inv => CleanMeansFlushed
    <2>. SUFFICES ASSUME Inv, header # NoFile, header.clean
                  PROVE  /\ state \in {"closed", "absent"}
                         /\ \A b \in Blocks : MappingNow(b) = ix.stored[b]
      BY DEF CleanMeansFlushed
    <2>1. state \in {"closed", "absent"}
      BY DEF Inv, ClosedInv
    <2>2. CASE state = "closed"
      BY <2>2, FlushedMapping DEF Inv, ClosedInv, IndexInv, InUse, MappingNow
    <2>3. CASE state = "absent"
      BY <2>3 DEF MappingNow, InUse
    <2>. QED  BY <2>1, <2>2, <2>3
  <1>. QED  BY <1>1, Invariance, PTL

\* nr_changed_blocks is the number of blocks with a mapping.
THEOREM CountExact == Spec => []CountIsExact
  <1>1. Inv => CountIsExact
    <2>. SUFFICES ASSUME Inv, Usable PROVE (IF InUse THEN ix.nr ELSE header.nr)
                                             = Cardinality(MappedBlocks)
      BY DEF CountIsExact
    <2>1. CASE InUse
      BY <2>1 DEF Inv, CountInv
    <2>2. CASE ~InUse
      BY <2>2 DEF Inv, CountInv, ClosedInv, Usable, InUse
    <2>. QED  BY <2>1, <2>2
  <1>. QED  BY <1>1, Invariance, PTL

-----------------------------------------------------------------------------
(* The data blocks of the COW file, when no error goes unnoticed.          *)

\* A step that changes no mapping and does not move the write head keeps the
\* data blocks owned.
LEMMA KeepsOwned ==
  ASSUME OwnedInv, InUse, InUse', curr_pos' = curr_pos,
         \A b \in Blocks : Mapping(ix', b) = Mapping(ix, b),
         state' \in {"closing", "freeing"} => ~failed',
         (~failed' \/ state' = "closed") /\ ~index_only'
           => (~failed \/ state = "closed") /\ ~index_only
  PROVE  OwnedInv'
  <1>1. \A b \in Blocks : MappingNow(b)' = MappingNow(b)
    BY DEF MappingNow
  <1>2. ASSUME Owned(curr_pos) PROVE Owned(curr_pos)'
    BY <1>1, <1>2 DEF Owned
  <1>. QED  BY <1>2 DEF OwnedInv, InUse

\* Nothing is claimed of a file that is in use by a failed device.
LEMMA FailedOwned ==
  ASSUME state' = "open", failed'
  PROVE  OwnedInv'
  BY DEF OwnedInv, InUse

\* A step that unlinks the COW file leaves nothing to own.
LEMMA GoneOwned ==
  ASSUME state' \in {"absent", "freed"}, header' = NoFile
  PROVE  OwnedInv'
  BY DEF OwnedInv, InUse

\* Losing the manager's memory leaves the data blocks a clean header vouches
\* for owned.
LEMMA LeavesFileOwned ==
  ASSUME Inv, OwnedInv, ix' = OnFile, state' = "absent", header' = header,
         header # NoFile /\ header.clean => state = "closed"
  PROVE  OwnedInv'
  <1>. SUFFICES ASSUME header # NoFile, header.clean, ~header.index_only
                PROVE  Owned(header.fpos)'
    BY DEF OwnedInv, InUse
  <1>1. state = "closed" /\ IndexOK(ix) /\ ix.cached = {} /\ InUse
    BY DEF Inv, ClosedInv, IndexInv, InUse
  <1>2. header.fpos = curr_pos /\ ~index_only
    BY <1>1 DEF Inv, ClosedInv, HeaderNow
  <1>3. Owned(curr_pos)
    BY <1>1, <1>2 DEF OwnedInv
  <1>4. ix'.stored = ix.stored
    BY <1>1, OnFileType DEF IndexOK
  <1>5. \A b \in Blocks : MappingNow(b)' = MappingNow(b)
    BY <1>1, <1>4, FlushedMapping DEF MappingNow, InUse
  <1>. QED  BY <1>2, <1>3, <1>5 DEF Owned

\* Every step keeps the data blocks owned, if no error goes unnoticed.
LEMMA NextOwned ==
  ASSUME ~DrainErrors, Inv, OwnedInv, [Next]_vars
  PROVE  OwnedInv'
  <1>t. TypeOK /\ IndexInv /\ ClosedInv /\ PosInv
    BY DEF Inv
  <1>1. ASSUME NEW a \in CacheSizes, CowInit(a) PROVE OwnedInv'
    <2>1. \A b \in Blocks : MappingNow(b)' = 0
      BY <1>1, EmptyIndexOK, ManagerAssumption DEF CowInit, MappingNow, InUse
    <2>. QED  BY <1>1, <2>1 DEF CowInit, OwnedInv, Owned, InUse
  <1>2. CASE CowInitFails
    BY <1>2, GoneOwned DEF CowInitFails, Unlink
  <1>3. ASSUME NEW a \in CacheSizes, NEW io \in BOOLEAN, CowReload(a, io)
        PROVE  OwnedInv'
    <2>1. header \in Header /\ ix \in Index /\ header.clean /\ header # NoFile
      BY <1>3, <1>t, HeaderType DEF CowReload, HeaderAccepted, TypeOK
    <2>2. /\ ix'.cached = {} /\ ix'.has_data = Sects /\ ix'.stored = ix.stored
      BY <1>3, <2>1, OnFileType DEF CowReload, OnFile, EmptyIndex, Index
    <2>3. \A b \in Blocks : MappingNow(b)' = MappingNow(b)
      BY <1>3, <2>2, SectOfType DEF CowReload, MappingNow, Mapping, InUse
    <2>4. /\ state = "absent" /\ state' = "open"
          /\ curr_pos' = header.fpos /\ index_only' = header.index_only
      BY <1>3 DEF CowReload
    <2>5. ASSUME ~header.index_only PROVE Owned(curr_pos)'
      <3>1. Owned(header.fpos)
        BY <2>1, <2>4, <2>5 DEF OwnedInv
      <3>. QED  BY <2>3, <2>4, <3>1 DEF Owned
    <2>. QED  BY <2>4, <2>5 DEF OwnedInv, InUse
  <1>4. ASSUME NEW io \in BOOLEAN, CowReloadFails(io) PROVE OwnedInv'
    <2>1. header \in Header
      BY <1>4, <1>t, HeaderType DEF CowReloadFails, HeaderAccepted
    <2>2. ~header'.clean /\ state' = "absent"
      BY <1>4, <2>1 DEF CowReloadFails, Header
    <2>. QED  BY <2>2 DEF OwnedInv, InUse
  <1>5. CASE CowReopen
    <2>1. ix \in Index /\ state = "closed" /\ header = HeaderNow(TRUE)
      BY <1>5, <1>t DEF CowReopen, TypeOK, ClosedInv
    <2>2. ix' = ix /\ curr_pos' = curr_pos /\ index_only' = index_only /\ state' = "open"
      BY <1>5, <2>1 DEF CowReopen, HeaderNow, Index
    <2>. QED  BY <2>1, <2>2, KeepsOwned DEF InUse
  <1>6. CASE CowReopenFails
    BY <1>6, KeepsOwned DEF CowReopenFails, InUse
  <1>7. ASSUME NEW b \in Blocks, CowReadMapping(b) \/ CowWriteCurrentSkips(b)
        PROVE  OwnedInv'
    <2>1. PICK r \in ReadMappingOutcomes(ix, b) : ix' = r.ix
      BY <1>7 DEF CowReadMapping, CowWriteCurrentSkips
    <2>2. /\ state = "open" /\ state' = "open" /\ ~failed
          /\ UNCHANGED <<curr_pos, index_only>>
      BY <1>7 DEF CowReadMapping, CowWriteCurrentSkips, Driven
    <2>3. IndexOK(ix)
      BY <1>t, <2>2 DEF IndexInv, InUse
    <2>4. \A c \in Blocks : Mapping(ix', c) = Mapping(ix, c)
      BY <2>1, <2>3, ReadMappingKeeps
    <2>. QED  BY <2>2, <2>4, KeepsOwned DEF InUse
  <1>8. ASSUME NEW b \in Blocks, NEW v \in Values, CowWriteCurrentStores(b, v)
        PROVE  OwnedInv'
    <2>1. /\ IndexOK(ix) /\ state = "open" /\ state' = "open" /\ ~failed
          /\ curr_pos \in Nat /\ DataOffset <= curr_pos /\ curr_pos' = curr_pos + 1
          /\ index_only' = index_only
      BY <1>8, <1>t
      DEF CowWriteCurrentStores, WriteData, Driven, IndexInv, InUse, TypeOK, PosInv
    <2>2. PICK r \in ReadMappingOutcomes(ix, b) :
            \E w \in WriteMappingOutcomes(r.ix, b, curr_pos) : w.ret = 0 /\ ix' = w.ix
      BY <1>8 DEF CowWriteCurrentStores
    <2>3. PICK w \in WriteMappingOutcomes(r.ix, b, curr_pos) : w.ret = 0 /\ ix' = w.ix
      BY <2>2
    <2>4. IndexOK(r.ix) /\ \A c \in Blocks : Mapping(r.ix, c) = Mapping(ix, c)
      BY <2>1, ReadMappingKeeps
    <2>5. \A c \in Blocks : Mapping(ix', c) = IF c = b THEN curr_pos ELSE Mapping(ix, c)
      BY <2>1, <2>3, <2>4, WriteMappingWrites
    <2>6. \A c \in Blocks : Mapping(ix, c) \in Nat
      BY <2>1 DEF IndexOK, Index, Mapping
    <2>7. ASSUME Owned(curr_pos) PROVE Owned(curr_pos)'
      BY <2>1, <2>5, <2>6, <2>7, ManagerAssumption DEF Owned, MappingNow, InUse
    <2>. QED  BY <2>1, <2>7 DEF OwnedInv, InUse
  <1>9. ASSUME NEW b \in Blocks, CowWriteCurrentFails(b) PROVE OwnedInv'
    BY <1>9, FailedOwned DEF CowWriteCurrentFails, Driven
  <1>10. ASSUME NEW b \in Blocks, CowWriteFillerMapping(b) PROVE OwnedInv'
    <2>1. /\ IndexOK(ix) /\ state = "open" /\ state' = "open" /\ ~failed
          /\ UNCHANGED <<curr_pos, index_only>>
      BY <1>10, <1>t DEF CowWriteFillerMapping, Driven, IndexInv, InUse
    <2>2. PICK w \in WriteMappingOutcomes(ix, b, 1) : ix' = w.ix
      BY <1>10 DEF CowWriteFillerMapping
    <2>3. \/ \A c \in Blocks : Mapping(ix', c) = IF c = b THEN 1 ELSE Mapping(ix, c)
          \/ \A c \in Blocks : Mapping(ix', c) = Mapping(ix, c)
      BY <2>1, <2>2, WriteMappingWrites
    <2>4. ASSUME Owned(curr_pos) PROVE Owned(curr_pos)'
      BY <2>1, <2>3, <2>4 DEF Owned, MappingNow, InUse
    <2>. QED  BY <2>1, <2>4 DEF OwnedInv, InUse
  <1>11. ASSUME NEW a \in CacheSizes, CowModifyCacheSize(a) PROVE OwnedInv'
    <2>1. IndexOK(ix) /\ state = "open"
      BY <1>11, <1>t DEF CowModifyCacheSize, IndexInv, InUse
    <2>2. \A c \in Blocks : Mapping(ix', c) = Mapping(ix, c)
      BY <1>11, <2>1 DEF CowModifyCacheSize, IndexOK, Index, Mapping
    <2>. QED  BY <1>11, <2>1, <2>2, KeepsOwned DEF CowModifyCacheSize, InUse
  <1>12. CASE SnapToInc
    BY <1>12, KeepsOwned DEF SnapToInc, Driven, InUse
  <1>13. CASE CowTruncateToIndex
    BY <1>13, KeepsOwned DEF CowTruncateToIndex, InUse
  <1>14. ASSUME NEW next \in {"closing", "freeing"}, StartSync(next) PROVE OwnedInv'
    <2>1. IndexOK(ix) /\ state = "open" /\ ~failed
      BY <1>14, <1>t DEF StartSync, Quiet, IndexInv, InUse
    <2>2. \A c \in Blocks : Mapping(ix', c) = Mapping(ix, c)
      BY <1>14, <2>1 DEF StartSync, IndexOK, Index, Mapping
    <2>. QED  BY <1>14, <2>1, <2>2, KeepsOwned DEF StartSync, InUse
  <1>15. CASE SyncSection
    <2>1. IndexOK(ix) /\ InUse /\ state # "closed" /\ ~failed
      BY <1>15, <1>t DEF SyncSection, Syncing, IndexInv, InUse, OwnedInv
    <2>2. PICK s \in ix.cached : ix' = WriteOut(ix, {s}, {})
      BY <1>15 DEF SyncSection
    <2>3. /\ IndexOK(ix') /\ ix'.nr = ix.nr
          /\ \A c \in Blocks : Mapping(ix', c) = Mapping(ix, c)
      <3>1. IndexOK(ix) /\ {s} \in SUBSET ix.cached
        BY <2>1
      <3>. QED  BY <2>2, <3>1, WriteOutKeeps
    <2>. QED  BY <1>15, <2>1, <2>3, KeepsOwned DEF SyncSection, InUse
  <1>16. CASE CloseClean
    <2>1. /\ IndexOK(ix) /\ InUse /\ ix.cached = {} /\ ~failed
          /\ header' = HeaderNow(TRUE)
      BY <1>16, <1>t DEF CloseClean, Syncing, IndexInv, InUse, OwnedInv
    <2>2. CASE state = "closing"
      BY <1>16, <2>1, <2>2, KeepsOwned DEF CloseClean, InUse
    <2>3. CASE state # "closing"
      <3>1. state' = "absent" /\ ix' = OnFile
        BY <1>16, <2>3 DEF CloseClean
      <3>2. ix'.stored = ix.stored
        BY <2>1, <3>1, OnFileType DEF IndexOK
      <3>3. \A b \in Blocks : MappingNow(b)' = MappingNow(b)
        BY <2>1, <3>1, <3>2, FlushedMapping DEF MappingNow, InUse
      <3>4. ASSUME ~index_only PROVE Owned(header.fpos)'
        <4>1. Owned(curr_pos)
          BY <2>1, <3>4 DEF OwnedInv
        <4>2. header'.fpos = curr_pos
          BY <2>1 DEF HeaderNow
        <4>. QED  BY <3>3, <4>1, <4>2 DEF Owned
      <3>. QED  BY <2>1, <3>1, <3>4 DEF OwnedInv, InUse, HeaderNow
    <2>. QED  BY <2>2, <2>3
  <1>17. CASE SyncFails
    BY <1>17, GoneOwned DEF SyncFails, Unlink
  <1>18. CASE CowFreeMembers
    BY <1>18, GoneOwned DEF CowFreeMembers, Unlink
  <1>19. CASE CowFree
    <2>1. CASE state = "open"
      BY <1>19, <2>1, GoneOwned DEF CowFree, Unlink
    <2>2. CASE state # "open"
      BY <1>19, <1>t, <2>2, LeavesFileOwned DEF CowFree, ClosedInv
    <2>. QED  BY <2>1, <2>2
  <1>20. CASE Crash
    BY <1>20, <1>t, LeavesFileOwned DEF Crash, ClosedInv
  <1>21. CASE UNCHANGED vars
    BY <1>21 DEF vars, OwnedInv, Owned, InUse, MappingNow
  <1>. QED
    BY <1>1, <1>2, <1>3, <1>4, <1>5, <1>6, <1>7, <1>8, <1>9, <1>10, <1>11, <1>12,
       <1>13, <1>14, <1>15, <1>16, <1>17, <1>18, <1>19, <1>20, <1>21
    DEF Next, DataPath

\* If no error goes unnoticed when the thread is stopped, no two blocks share
\* a data block of the COW file and the write head is beyond all of them.
THEOREM MappingsOwned ==
  ASSUME ~DrainErrors
  PROVE  Spec => []MappingsAreOwned
  <1>1. Init => Inv /\ OwnedInv
    <2>1. Init => OwnedInv
      BY DEF Init, OwnedInv, InUse
    <2>. QED  BY <2>1, InitInv
  <1>2. Inv /\ OwnedInv /\ [Next]_vars => (Inv /\ OwnedInv)'
    BY NextInv, NextOwned
  <1>3. Inv /\ OwnedInv => MappingsAreOwned
    <2>. SUFFICES ASSUME Inv, OwnedInv, Usable, ~OnlyIndex
                  PROVE  MappingsAreOwned
      BY DEF MappingsAreOwned
    <2>1. CASE InUse
      <3>1. Owned(curr_pos)
        BY <2>1 DEF Inv, ClosedInv, OwnedInv, Usable, OnlyIndex, InUse
      <3>. QED  BY <2>1, <3>1 DEF MappingsAreOwned, Owned
    <2>2. CASE ~InUse
      <3>1. Owned(header.fpos)
        BY <2>2 DEF Inv, ClosedInv, OwnedInv, Usable, OnlyIndex, InUse
      <3>. QED  BY <2>2, <3>1 DEF MappingsAreOwned, Owned
    <2>. QED  BY <2>1, <2>2
  <1>. QED  BY <1>1, <1>2, <1>3, PTL DEF Spec

-----------------------------------------------------------------------------
(* Every mapping points to data, when no error goes unnoticed.             *)

\* A step that changes no mapping, no data and no limit of the file keeps the
\* mappings on data that was written.
LEMMA KeepsWritten ==
  ASSUME WrittenInv, InUse, InUse', header' # NoFile,
         UNCHANGED <<file_size, index_only>>,
         data' = data \/ index_only',
         tracking' = tracking \/ tracking' = "inc",
         \A b \in Blocks : Mapping(ix', b) = Mapping(ix, b),
         ~failed' \/ state' = "closed" => ~failed \/ state = "closed"
  PROVE  WrittenInv'
  <1>1. \A b \in Blocks : MappingNow(b)' = MappingNow(b)
    BY DEF MappingNow
  <1>2. ASSUME Written, data' = data PROVE Written'
    BY <1>1, <1>2 DEF Written
  <1>. QED  BY <1>2 DEF WrittenInv, InUse

\* Of a file in use by a failed device only the mode is claimed.
LEMMA FailedWritten ==
  ASSUME WrittenInv, state = "open", state' = "open", failed',
         UNCHANGED <<header, index_only, tracking>>
  PROVE  WrittenInv'
  BY DEF WrittenInv, InUse

\* A step that unlinks the COW file leaves no mapping.
LEMMA GoneWritten ==
  ASSUME state' \in {"absent", "freed"}, Unlink, NoManager
  PROVE  WrittenInv'
  BY DEF WrittenInv, InUse, Unlink, NoManager

\* Losing the manager's memory leaves the mappings a clean header vouches for
\* on data that was written.
LEMMA LeavesFileWritten ==
  ASSUME Inv, WrittenInv, ix' = OnFile, NoManager, state' = "absent",
         UNCHANGED <<header, data>>,
         header # NoFile /\ header.clean => state = "closed"
  PROVE  WrittenInv'
  <1>. SUFFICES ASSUME header # NoFile, header.clean, ~header.index_only
                PROVE  header.fsize <= FileMax /\ Written'
    BY DEF WrittenInv, InUse, NoManager
  <1>1. state = "closed" /\ IndexOK(ix) /\ ix.cached = {} /\ InUse
    BY DEF Inv, ClosedInv, IndexInv, InUse
  <1>2. header.fsize = file_size /\ ~index_only
    BY <1>1 DEF Inv, ClosedInv, HeaderNow
  <1>3. file_size <= FileMax /\ Written
    BY <1>1, <1>2 DEF WrittenInv
  <1>4. ix'.stored = ix.stored
    BY <1>1, OnFileType DEF IndexOK
  <1>5. \A b \in Blocks : MappingNow(b)' = MappingNow(b)
    BY <1>1, <1>4, FlushedMapping DEF MappingNow, InUse
  <1>. QED  BY <1>2, <1>3, <1>5 DEF Written

\* What a successful cow_write_current() does to the file: block b gets the
\* write head for its mapping and v as its data; all the others keep both.
WritesOne(b, v) ==
  /\ \A c \in Blocks : MappingNow(c) \in Nat
  /\ MappingNow(b) = 0
  /\ MappingNow(b)' > 1
  /\ MappingNow(b)' \in DataPositions
  /\ data'[MappingNow(b)'] = v
  /\ v \in Values
  /\ \A c \in Blocks \ {b} :
       /\ MappingNow(c)' = MappingNow(c)
       /\ MappingNow(c) > 1 => data'[MappingNow(c)] = data[MappingNow(c)]

\* cow_write_current() writes below file_size and, as the write head is beyond
\* every mapping, over no other block's data.
LEMMA StoresOne ==
  ASSUME Inv, OwnedInv, WrittenInv, NEW b \in Blocks, NEW v \in Values,
         CowWriteCurrentStores(b, v)
  PROVE  WritesOne(b, v)
  <1>1. /\ IndexOK(ix) /\ state = "open" /\ state' = "open" /\ ~failed
        /\ tracking = "snap" /\ Mapping(ix, b) = 0
        /\ curr_pos \in Nat /\ DataOffset <= curr_pos
        /\ curr_pos < file_size /\ file_size \in Nat
        /\ data' = [data EXCEPT ![curr_pos] = v]
        /\ data \in [DataPositions -> Values \cup {Hole}]
    BY DEF CowWriteCurrentStores, WriteData, Driven, Inv, IndexInv, InUse, TypeOK, PosInv
  <1>2. file_size <= FileMax /\ Written /\ Owned(curr_pos)
    BY <1>1 DEF WrittenInv, OwnedInv, InUse
  <1>3. PICK r \in ReadMappingOutcomes(ix, b) :
          \E w \in WriteMappingOutcomes(r.ix, b, curr_pos) : w.ret = 0 /\ ix' = w.ix
    BY DEF CowWriteCurrentStores
  <1>4. PICK w \in WriteMappingOutcomes(r.ix, b, curr_pos) : w.ret = 0 /\ ix' = w.ix
    BY <1>3
  <1>5. IndexOK(r.ix) /\ \A c \in Blocks : Mapping(r.ix, c) = Mapping(ix, c)
    BY <1>1, ReadMappingKeeps
  <1>6. \A c \in Blocks : Mapping(ix', c) = IF c = b THEN curr_pos ELSE Mapping(ix, c)
    BY <1>1, <1>4, <1>5, WriteMappingWrites
  <1>7. /\ \A c \in Blocks : MappingNow(c) = Mapping(ix, c)
        /\ \A c \in Blocks : MappingNow(c)' = Mapping(ix', c)
    BY <1>1 DEF MappingNow, InUse
  <1>8. \A c \in Blocks : MappingNow(c) \in Nat
    BY <1>1, <1>7 DEF IndexOK, Index, Mapping
  <1>9. curr_pos \in DataPositions /\ curr_pos > 1
    BY <1>1, <1>2, ManagerAssumption DEF DataPositions
  <1>10. data'[curr_pos] = v
    BY <1>1, <1>9
  <1>11. ASSUME NEW c \in Blocks \ {b}, MappingNow(c) > 1
         PROVE  data'[MappingNow(c)] = data[MappingNow(c)]
    <2>1. MappingNow(c) \in DataPositions /\ MappingNow(c) < curr_pos
      BY <1>2, <1>11 DEF Written, Owned
    <2>2. MappingNow(c) # curr_pos
      BY <1>1, <1>8, <2>1
    <2>. QED  BY <1>1, <2>1, <2>2
  <1>. QED  BY <1>1, <1>6, <1>7, <1>8, <1>9, <1>10, <1>11 DEF WritesOne

\* Every step keeps the mappings on data that was written, if no error goes
\* unnoticed.
LEMMA NextWritten ==
  ASSUME ~DrainErrors, Inv, OwnedInv, WrittenInv, [Next]_vars
  PROVE  WrittenInv'
  <1>t. TypeOK /\ IndexInv /\ ClosedInv /\ PosInv
    BY DEF Inv
  <1>1. ASSUME NEW a \in CacheSizes, CowInit(a) PROVE WrittenInv'
    <2>1. \A b \in Blocks : MappingNow(b)' = 0
      BY <1>1, EmptyIndexOK, ManagerAssumption DEF CowInit, MappingNow, InUse
    <2>2. Written'
      BY <2>1 DEF Written
    <2>3. header' # NoFile
      BY <1>1 DEF CowInit, NoFile
    <2>. QED  BY <1>1, <2>2, <2>3, ManagerAssumption DEF CowInit, WrittenInv, InUse
  <1>2. CASE CowInitFails
    BY <1>2, GoneWritten DEF CowInitFails
  <1>3. ASSUME NEW a \in CacheSizes, NEW io \in BOOLEAN, CowReload(a, io)
        PROVE  WrittenInv'
    <2>1. header \in Header /\ ix \in Index /\ header.clean /\ header # NoFile
      BY <1>3, <1>t, HeaderType DEF CowReload, HeaderAccepted, TypeOK
    <2>2. ix'.cached = {} /\ ix'.has_data = Sects /\ ix'.stored = ix.stored
      BY <1>3, <2>1, OnFileType DEF CowReload, OnFile, EmptyIndex, Index
    <2>3. \A b \in Blocks : MappingNow(b)' = MappingNow(b)
      BY <1>3, <2>2, SectOfType DEF CowReload, MappingNow, Mapping, InUse
    <2>4. /\ state = "absent" /\ state' = "open" /\ data' = data
          /\ file_size' = header.fsize /\ index_only' = header.index_only
          /\ header.index_only => tracking' = "inc"
      BY <1>3 DEF CowReload, HeaderAccepted
    <2>5. header' # NoFile
      <3>1. header' \in Header
        BY <1>3, <2>1 DEF CowReload, Header
      <3>. QED  BY <3>1 DEF Header, NoFile
    <2>6. ASSUME ~header.index_only PROVE file_size' <= FileMax /\ Written'
      <3>1. header.fsize <= FileMax /\ Written
        BY <2>1, <2>4, <2>6 DEF WrittenInv
      <3>. QED  BY <2>3, <2>4, <3>1 DEF Written
    <2>. QED  BY <2>4, <2>5, <2>6 DEF WrittenInv, InUse
  <1>4. ASSUME NEW io \in BOOLEAN, CowReloadFails(io) PROVE WrittenInv'
    <2>1. header \in Header
      BY <1>4, <1>t, HeaderType DEF CowReloadFails, HeaderAccepted
    <2>2. ~header'.clean /\ state' = "absent" /\ state = "absent" /\ failed' = failed
      BY <1>4, <2>1 DEF CowReloadFails, Header
    <2>. QED  BY <2>2 DEF WrittenInv, InUse
  <1>5. CASE CowReopen
    <2>1. ix \in Index /\ state = "closed" /\ header = HeaderNow(TRUE)
      BY <1>5, <1>t DEF CowReopen, TypeOK, ClosedInv
    <2>2. /\ ix' = ix /\ file_size' = file_size /\ index_only' = index_only
          /\ state' = "open" /\ UNCHANGED <<tracking, data>>
      BY <1>5, <2>1 DEF CowReopen, HeaderNow, Index
    <2>3. header' # NoFile
      BY <1>5, <2>1 DEF CowReopen, HeaderNow, NoFile
    <2>. QED  BY <2>1, <2>2, <2>3, KeepsWritten DEF InUse
  <1>6. CASE CowReopenFails
    BY <1>6, KeepsWritten DEF CowReopenFails, WrittenInv, InUse
  <1>7. ASSUME NEW b \in Blocks, CowReadMapping(b) \/ CowWriteCurrentSkips(b)
        PROVE  WrittenInv'
    <2>1. PICK r \in ReadMappingOutcomes(ix, b) : ix' = r.ix
      BY <1>7 DEF CowReadMapping, CowWriteCurrentSkips
    <2>2. /\ state = "open" /\ state' = "open" /\ ~failed
          /\ UNCHANGED <<file_size, index_only, tracking, header, data>>
      BY <1>7 DEF CowReadMapping, CowWriteCurrentSkips, Driven
    <2>3. IndexOK(ix)
      BY <1>t, <2>2 DEF IndexInv, InUse
    <2>4. \A c \in Blocks : Mapping(ix', c) = Mapping(ix, c)
      BY <2>1, <2>3, ReadMappingKeeps
    <2>. QED  BY <2>2, <2>4, KeepsWritten DEF InUse, WrittenInv
  <1>8. ASSUME NEW b \in Blocks, NEW v \in Values, CowWriteCurrentStores(b, v)
        PROVE  WrittenInv'
    <2>1. /\ state = "open" /\ state' = "open" /\ ~failed /\ ~failed'
          /\ tracking = "snap"
          /\ UNCHANGED <<file_size, index_only, tracking, header>>
      BY <1>8 DEF CowWriteCurrentStores, Driven
    <2>2. ~index_only /\ header # NoFile /\ file_size <= FileMax /\ Written
      BY <2>1 DEF WrittenInv, InUse
    <2>3. WritesOne(b, v)
      BY <1>8, StoresOne
    <2>4. Written'
      <3>. SUFFICES ASSUME NEW c \in Blocks, MappingNow(c)' > 1
                    PROVE  /\ MappingNow(c)' \in DataPositions
                           /\ data'[MappingNow(c)'] \in Values
        BY DEF Written
      <3>1. CASE c = b
        BY <2>3, <3>1 DEF WritesOne
      <3>2. CASE c # b
        BY <2>2, <2>3, <3>2 DEF WritesOne, Written
      <3>. QED  BY <3>1, <3>2
    <2>. QED  BY <2>1, <2>2, <2>4 DEF WrittenInv, InUse
  <1>9. ASSUME NEW b \in Blocks, CowWriteCurrentFails(b) PROVE WrittenInv'
    BY <1>9, FailedWritten DEF CowWriteCurrentFails, Driven
  <1>10. ASSUME NEW b \in Blocks, CowWriteFillerMapping(b) PROVE WrittenInv'
    <2>1. /\ IndexOK(ix) /\ state = "open" /\ state' = "open" /\ ~failed
          /\ UNCHANGED <<file_size, index_only, tracking, header, data>>
      BY <1>10, <1>t DEF CowWriteFillerMapping, Driven, IndexInv, InUse
    <2>2. PICK w \in WriteMappingOutcomes(ix, b, 1) : ix' = w.ix
      BY <1>10 DEF CowWriteFillerMapping
    <2>3. \/ \A c \in Blocks : Mapping(ix', c) = IF c = b THEN 1 ELSE Mapping(ix, c)
          \/ \A c \in Blocks : Mapping(ix', c) = Mapping(ix, c)
      BY <2>1, <2>2, WriteMappingWrites
    <2>4. ASSUME Written PROVE Written'
      BY <2>1, <2>3, <2>4 DEF Written, MappingNow, InUse
    <2>. QED  BY <2>1, <2>4 DEF WrittenInv, InUse
  <1>11. ASSUME NEW a \in CacheSizes, CowModifyCacheSize(a) PROVE WrittenInv'
    <2>1. IndexOK(ix) /\ state = "open" /\ header # NoFile
      BY <1>11, <1>t DEF CowModifyCacheSize, IndexInv, InUse, WrittenInv
    <2>2. \A c \in Blocks : Mapping(ix', c) = Mapping(ix, c)
      BY <1>11, <2>1 DEF CowModifyCacheSize, IndexOK, Index, Mapping
    <2>. QED  BY <1>11, <2>1, <2>2, KeepsWritten DEF CowModifyCacheSize, InUse
  <1>12. CASE SnapToInc
    BY <1>12, KeepsWritten DEF SnapToInc, Driven, InUse, WrittenInv
  <1>13. CASE CowTruncateToIndex
    BY <1>13 DEF CowTruncateToIndex, InUse, WrittenInv
  <1>14. ASSUME NEW next \in {"closing", "freeing"}, StartSync(next) PROVE WrittenInv'
    <2>1. IndexOK(ix) /\ state = "open" /\ ~failed /\ header # NoFile
      BY <1>14, <1>t DEF StartSync, Quiet, IndexInv, InUse, WrittenInv
    <2>2. \A c \in Blocks : Mapping(ix', c) = Mapping(ix, c)
      BY <1>14, <2>1 DEF StartSync, IndexOK, Index, Mapping
    <2>. QED  BY <1>14, <2>1, <2>2, KeepsWritten DEF StartSync, InUse
  <1>15. CASE SyncSection
    <2>1. IndexOK(ix) /\ InUse /\ state # "closed" /\ ~failed /\ header # NoFile
      BY <1>15, <1>t DEF SyncSection, Syncing, IndexInv, InUse, OwnedInv, WrittenInv
    <2>2. PICK s \in ix.cached : ix' = WriteOut(ix, {s}, {})
      BY <1>15 DEF SyncSection
    <2>3. /\ IndexOK(ix') /\ ix'.nr = ix.nr
          /\ \A c \in Blocks : Mapping(ix', c) = Mapping(ix, c)
      <3>1. IndexOK(ix) /\ {s} \in SUBSET ix.cached
        BY <2>1
      <3>2. \A U : /\ IndexOK(WriteOut(ix, {s}, U)) /\ WriteOut(ix, {s}, U).nr = ix.nr
                   /\ \A c \in Blocks : Mapping(WriteOut(ix, {s}, U), c) = Mapping(ix, c)
        BY <3>1, WriteOutKeeps
      <3>. QED  BY <2>2, <3>2
    <2>. QED  BY <1>15, <2>1, <2>3, KeepsWritten DEF SyncSection, InUse
  <1>16. CASE CloseClean
    <2>1. /\ IndexOK(ix) /\ InUse /\ ix.cached = {} /\ ~failed
          /\ header' = HeaderNow(TRUE) /\ data' = data
      BY <1>16, <1>t DEF CloseClean, Syncing, IndexInv, InUse, OwnedInv
    <2>2. header' # NoFile
      BY <2>1 DEF HeaderNow, NoFile
    <2>3. CASE state = "closing"
      BY <1>16, <2>1, <2>2, <2>3, KeepsWritten DEF CloseClean, InUse
    <2>4. CASE state # "closing"
      <3>1. state' = "absent" /\ ix' = OnFile /\ NoManager
        BY <1>16, <2>4 DEF CloseClean
      <3>2. ix'.stored = ix.stored
        BY <2>1, <3>1, OnFileType DEF IndexOK
      <3>3. \A b \in Blocks : MappingNow(b)' = MappingNow(b)
        BY <2>1, <3>1, <3>2, FlushedMapping DEF MappingNow, InUse
      <3>4. ASSUME ~index_only PROVE header'.fsize <= FileMax /\ Written'
        <4>1. file_size <= FileMax /\ Written
          BY <2>1, <3>4 DEF WrittenInv
        <4>2. header'.fsize = file_size
          BY <2>1 DEF HeaderNow
        <4>. QED  BY <2>1, <3>3, <4>1, <4>2 DEF Written
      <3>. QED  BY <2>1, <3>1, <3>4 DEF WrittenInv, InUse, HeaderNow, NoManager
    <2>. QED  BY <2>3, <2>4
  <1>17. CASE SyncFails
    BY <1>17, GoneWritten DEF SyncFails
  <1>18. CASE CowFreeMembers
    BY <1>18, GoneWritten DEF CowFreeMembers
  <1>19. CASE CowFree
    <2>1. CASE state = "open"
      BY <1>19, <2>1, GoneWritten DEF CowFree
    <2>2. CASE state # "open"
      BY <1>19, <1>t, <2>2, LeavesFileWritten DEF CowFree, ClosedInv
    <2>. QED  BY <2>1, <2>2
  <1>20. CASE Crash
    BY <1>20, <1>t, LeavesFileWritten DEF Crash, ClosedInv
  <1>21. CASE UNCHANGED vars
    BY <1>21 DEF vars, WrittenInv, Written, InUse, MappingNow
  <1>. QED
    BY <1>1, <1>2, <1>3, <1>4, <1>5, <1>6, <1>7, <1>8, <1>9, <1>10, <1>11, <1>12,
       <1>13, <1>14, <1>15, <1>16, <1>17, <1>18, <1>19, <1>20, <1>21
    DEF Next, DataPath

-----------------------------------------------------------------------------
(* The COW file implements CowStore.                                       *)

\* A step after which the file cannot be used loses the store.
LEMMA LosesStore ==
  ASSUME ~Usable'
  PROVE  Store!Lose
  BY DEF Store!Lose, Store!NothingStored, StoreNow

\* A step that changes neither what is mapped to where, nor the data, nor whether
\* the file can be used, is not seen in the store.
LEMMA KeepsStore ==
  ASSUME Usable, Usable', data' = data, OnlyIndex' = OnlyIndex,
         \A b \in Blocks : MappingNow(b)' = MappingNow(b)
  PROVE  UNCHANGED Store!vars
  <1>1. StoreNow' = StoreNow
    BY DEF StoreNow
  <1>. QED  BY <1>1 DEF Store!vars

\* While the manager has the file open, it can be used unless the device failed.
LEMMA UsableOpen ==
  /\ Inv /\ WrittenInv /\ InUse /\ state # "closed" => (Usable <=> ~failed)
  /\ Inv' /\ WrittenInv' /\ InUse' /\ state' # "closed" => (Usable' <=> ~failed')
  BY DEF Inv, ClosedInv, WrittenInv, Usable, InUse

\* An operation of an open manager that changes no mapping and no data is not
\* seen in the store, or loses it when the device fails.
LEMMA OpenKeepsStore ==
  ASSUME Inv, WrittenInv, Inv', WrittenInv', InUse, InUse',
         state # "closed", state' # "closed", failed => failed',
         UNCHANGED <<index_only, data>>,
         \A b \in Blocks : Mapping(ix', b) = Mapping(ix, b)
  PROVE  Store!Lose \/ UNCHANGED Store!vars
  <1>1. (Usable <=> ~failed) /\ (Usable' <=> ~failed')
    BY UsableOpen
  <1>2. CASE failed'
    BY <1>1, <1>2, LosesStore
  <1>3. CASE ~failed'
    <2>1. Usable /\ Usable'
      BY <1>1, <1>3
    <2>2. OnlyIndex' = OnlyIndex /\ \A b \in Blocks : MappingNow(b)' = MappingNow(b)
      BY DEF OnlyIndex, MappingNow
    <2>. QED  BY <2>1, <2>2, KeepsStore
  <1>. QED  BY <1>2, <1>3

\* A manager whose memory is lost leaves the store in a file marked clean, and
\* no store in any other.
LEMMA LeavesFileStore ==
  ASSUME Inv, ix' = OnFile, state' = "absent", UNCHANGED <<header, data>>,
         header # NoFile /\ header.clean => state = "closed"
  PROVE  Store!Lose \/ UNCHANGED Store!vars
  <1>1. CASE ~(header # NoFile /\ header.clean)
    <2>1. ~Usable'
      BY <1>1 DEF Usable, InUse
    <2>. QED  BY <2>1, LosesStore
  <1>2. CASE header # NoFile /\ header.clean
    <2>1. state = "closed" /\ IndexOK(ix) /\ ix.cached = {} /\ InUse /\ ~InUse'
      BY <1>2 DEF Inv, ClosedInv, IndexInv, InUse
    <2>2. header.index_only = index_only
      BY <2>1 DEF Inv, ClosedInv, HeaderNow
    <2>3. Usable /\ Usable' /\ OnlyIndex' = OnlyIndex
      BY <1>2, <2>1, <2>2 DEF Usable, OnlyIndex
    <2>4. ix'.stored = ix.stored
      BY <2>1, OnFileType DEF IndexOK
    <2>5. \A b \in Blocks : MappingNow(b)' = MappingNow(b)
      BY <2>1, <2>4, FlushedMapping DEF MappingNow
    <2>. QED  BY <2>3, <2>5, KeepsStore
  <1>. QED  BY <1>1, <1>2

\* The first content of a block that the thread stores is preserved, and no other
\* block's content is touched.
LEMMA StoresPreserve ==
  ASSUME Inv, OwnedInv, WrittenInv, Inv', WrittenInv',
         NEW b \in Blocks, NEW v \in Values, CowWriteCurrentStores(b, v)
  PROVE  Store!Preserve(b, v)
  <1>1. /\ state = "open" /\ state' = "open" /\ ~failed /\ ~failed'
        /\ tracking = "snap" /\ index_only' = index_only
    BY DEF CowWriteCurrentStores, Driven
  <1>2. ~index_only
    BY <1>1 DEF WrittenInv, InUse
  <1>3. Usable /\ Usable'
    BY <1>1, UsableOpen DEF InUse
  <1>4. ~OnlyIndex /\ ~OnlyIndex'
    BY <1>1, <1>2 DEF OnlyIndex, InUse
  <1>5. WritesOne(b, v)
    BY StoresOne
  <1>6. StoreNow[b] = Unmapped
    BY <1>5 DEF StoreNow, WritesOne
  <1>7. StoreNow' = [StoreNow EXCEPT ![b] = v]
    <2>. DEFINE Was(c) == IF MappingNow(c) = 0 THEN Unmapped
                          ELSE IF MappingNow(c) = 1 THEN Changed
                          ELSE data[MappingNow(c)]
                Is(c)  == IF MappingNow(c)' = 0 THEN Unmapped
                          ELSE IF MappingNow(c)' = 1 THEN Changed
                          ELSE data'[MappingNow(c)']
    <2>1. StoreNow = [c \in Blocks |-> Was(c)] /\ StoreNow' = [c \in Blocks |-> Is(c)]
      BY <1>3, <1>4 DEF StoreNow
    <2>2. Is(b) = v
      BY <1>5 DEF WritesOne
    <2>3. ASSUME NEW c \in Blocks \ {b} PROVE Is(c) = Was(c)
      BY <1>5 DEF WritesOne
    <2>. HIDE DEF Was, Is
    <2>. QED  BY <2>1, <2>2, <2>3
  <1>. QED  BY <1>3, <1>6, <1>7 DEF Store!Preserve

\* Recording a change marks the block, whatever the store held for it.
LEMMA FillerMarks ==
  ASSUME Inv, WrittenInv, Inv', WrittenInv', NEW b \in Blocks, CowWriteFillerMapping(b)
  PROVE  Store!Lose \/ Store!Mark(b)
  <1>1. /\ IndexOK(ix) /\ state = "open" /\ state' = "open" /\ ~failed
        /\ UNCHANGED <<index_only, data>>
    BY DEF CowWriteFillerMapping, Driven, Inv, IndexInv, InUse
  <1>2. PICK w \in WriteMappingOutcomes(ix, b, 1) : ix' = w.ix /\ failed' = (w.ret # 0)
    BY DEF CowWriteFillerMapping
  <1>3. CASE failed'
    <2>1. ~Usable'
      BY <1>1, <1>3, UsableOpen DEF InUse
    <2>. QED  BY <2>1, LosesStore
  <1>4. CASE ~failed'
    <2>1. Usable /\ Usable' /\ OnlyIndex' = OnlyIndex
      BY <1>1, <1>4, UsableOpen DEF InUse, OnlyIndex
    <2>2. \A c \in Blocks : Mapping(ix', c) = IF c = b THEN 1 ELSE Mapping(ix, c)
      <3>1. w.ret = 0
        BY <1>2, <1>4
      <3>. QED  BY <1>1, <1>2, <3>1, WriteMappingWrites
    <2>3. \A c \in Blocks : MappingNow(c)' = IF c = b THEN 1 ELSE MappingNow(c)
      BY <1>1, <2>2 DEF MappingNow, InUse
    <2>4. StoreNow' = [StoreNow EXCEPT ![b] = Changed]
      <3>. DEFINE Was(c) == IF MappingNow(c) = 0 THEN Unmapped
                            ELSE IF OnlyIndex \/ MappingNow(c) = 1 THEN Changed
                            ELSE data[MappingNow(c)]
                  Is(c)  == IF MappingNow(c)' = 0 THEN Unmapped
                            ELSE IF OnlyIndex \/ MappingNow(c)' = 1 THEN Changed
                            ELSE data[MappingNow(c)']
      <3>1. StoreNow = [c \in Blocks |-> Was(c)] /\ StoreNow' = [c \in Blocks |-> Is(c)]
        BY <1>1, <2>1 DEF StoreNow
      <3>2. Is(b) = Changed
        BY <2>3
      <3>3. ASSUME NEW c \in Blocks \ {b} PROVE Is(c) = Was(c)
        BY <2>3
      <3>. HIDE DEF Was, Is
      <3>. QED  BY <3>1, <3>2, <3>3
    <2>. QED  BY <2>1, <2>4 DEF Store!Mark
  <1>. QED  BY <1>3, <1>4

\* The truncation forgets the contents and keeps which blocks have changed: no
\* content is mistaken for "not changed", as every mapping points to data.
LEMMA TruncateDrops ==
  ASSUME Inv, WrittenInv, Inv', WrittenInv', CowTruncateToIndex
  PROVE  Store!Lose \/ Store!DropContents
  <1>1. /\ state = "open" /\ state' = "open" /\ failed' = failed /\ ix' = ix
        /\ ~index_only /\ index_only'
    BY DEF CowTruncateToIndex
  <1>2. CASE failed
    <2>1. ~Usable'
      BY <1>1, <1>2, UsableOpen DEF InUse
    <2>. QED  BY <2>1, LosesStore
  <1>3. CASE ~failed
    <2>1. Usable /\ Usable' /\ ~OnlyIndex /\ OnlyIndex'
      BY <1>1, <1>3, UsableOpen DEF InUse, OnlyIndex
    <2>2. \A c \in Blocks : MappingNow(c)' = MappingNow(c)
      BY <1>1 DEF MappingNow, InUse
    <2>3. Written
      BY <1>1, <1>3 DEF WrittenInv, InUse
    <2>4. \A c \in Blocks : MappingNow(c) \in Nat
      BY <1>1 DEF Inv, IndexInv, IndexOK, Index, Mapping, MappingNow, InUse
    <2>5. \A c \in Blocks : StoreNow[c] = Unmapped <=> MappingNow(c) = 0
      BY <2>1, <2>3, <2>4, ManagerAssumption DEF StoreNow, Written
    <2>6. StoreNow' = [c \in Blocks |-> IF MappingNow(c) = 0 THEN Unmapped ELSE Changed]
      BY <2>1, <2>2 DEF StoreNow
    <2>7. StoreNow' = [c \in Blocks |-> IF StoreNow[c] = Unmapped THEN Unmapped ELSE Changed]
      BY <2>5, <2>6
    <2>. QED  BY <2>1, <2>7 DEF Store!DropContents
  <1>. QED  BY <1>2, <1>3

\* What a step of the COW manager is to the users of the store.
Seen == Store!Next \/ UNCHANGED Store!vars

\* A step of the COW manager is a step of the store, or is not seen in it.
LEMMA NextStore ==
  ASSUME ~DrainErrors, Inv, OwnedInv, WrittenInv, Inv', WrittenInv', [Next]_vars
  PROVE  [Store!Next]_(Store!vars)
  <1>. SUFFICES Seen
    BY DEF Seen
  <1>t. TypeOK /\ IndexInv /\ ClosedInv
    BY DEF Inv
  <1>l. Store!Lose \/ UNCHANGED Store!vars => Seen
    BY DEF Seen, Store!Next
  <1>1. ASSUME NEW a \in CacheSizes, CowInit(a) PROVE Seen
    <2>1. \A b \in Blocks : MappingNow(b)' = 0
      BY <1>1, EmptyIndexOK, ManagerAssumption DEF CowInit, MappingNow, InUse
    <2>2. Usable'
      <3>1. state = "absent" /\ state' = "open" /\ failed' = failed
        BY <1>1 DEF CowInit
      <3>2. ~failed'
        BY <3>1 DEF WrittenInv
      <3>. QED  BY <3>1, <3>2, UsableOpen DEF InUse
    <2>3. Store!Create
      BY <2>1, <2>2 DEF Store!Create, Store!NothingStored, StoreNow
    <2>. QED  BY <2>3 DEF Store!Next, Seen
  <1>2. ASSUME CowInitFails \/ SyncFails \/ CowFreeMembers PROVE Seen
    <2>1. ~Usable'
      BY <1>2 DEF CowInitFails, SyncFails, CowFreeMembers, Unlink, Usable
    <2>. QED  BY <1>l, <2>1, LosesStore
  <1>3. ASSUME NEW a \in CacheSizes, NEW io \in BOOLEAN, CowReload(a, io) PROVE Seen
    <2>1. header \in Header /\ ix \in Index /\ header.clean /\ header # NoFile
      BY <1>3, <1>t, HeaderType DEF CowReload, HeaderAccepted, TypeOK
    <2>2. ix'.cached = {} /\ ix'.has_data = Sects /\ ix'.stored = ix.stored
      BY <1>3, <2>1, OnFileType DEF CowReload, OnFile, EmptyIndex, Index
    <2>3. /\ state = "absent" /\ state' = "open" /\ data' = data /\ failed' = failed
          /\ index_only' = header.index_only
      BY <1>3 DEF CowReload
    <2>4. \A b \in Blocks : MappingNow(b)' = MappingNow(b)
      BY <2>2, <2>3, SectOfType DEF MappingNow, Mapping, InUse
    <2>5. ~failed'
      BY <2>3 DEF WrittenInv
    <2>6. Usable /\ Usable' /\ OnlyIndex' = OnlyIndex
      BY <2>1, <2>3, <2>5, UsableOpen DEF Usable, OnlyIndex, InUse
    <2>. QED  BY <2>3, <2>4, <2>6, KeepsStore DEF Seen
  <1>4. ASSUME NEW io \in BOOLEAN, CowReloadFails(io) PROVE Seen
    <2>1. header \in Header
      BY <1>4, <1>t, HeaderType DEF CowReloadFails, HeaderAccepted
    <2>2. ~header'.clean /\ state' = "absent"
      BY <1>4, <2>1 DEF CowReloadFails, Header
    <2>3. ~Usable'
      BY <2>2 DEF Usable, InUse
    <2>. QED  BY <1>l, <2>3, LosesStore
  <1>5. CASE CowReopen
    <2>1. ix \in Index /\ state = "closed" /\ header = HeaderNow(TRUE)
      BY <1>5, <1>t DEF CowReopen, TypeOK, ClosedInv
    <2>2. ix' = ix /\ index_only' = index_only /\ state' = "open" /\ data' = data
      BY <1>5, <2>1 DEF CowReopen, HeaderNow, Index
    <2>3. CASE failed'
      BY <1>l, <2>2, <2>3, UsableOpen, LosesStore DEF InUse
    <2>4. CASE ~failed'
      <3>1. Usable /\ Usable' /\ OnlyIndex' = OnlyIndex
        <4>1. header # NoFile /\ header.clean
          BY <2>1 DEF HeaderNow, NoFile
        <4>. QED  BY <2>1, <2>2, <2>4, <4>1, UsableOpen DEF Usable, OnlyIndex, InUse
      <3>2. \A b \in Blocks : MappingNow(b)' = MappingNow(b)
        BY <2>1, <2>2 DEF MappingNow, InUse
      <3>. QED  BY <2>2, <3>1, <3>2, KeepsStore DEF Seen
    <2>. QED  BY <2>3, <2>4
  <1>6. CASE CowReopenFails
    <2>1. /\ state = "closed" /\ header = HeaderNow(TRUE)
          /\ UNCHANGED <<state, ix, index_only, header, data>>
      BY <1>6, <1>t DEF CowReopenFails, ClosedInv
    <2>2. header # NoFile /\ header.clean
      BY <2>1 DEF HeaderNow, NoFile
    <2>3. Usable /\ Usable' /\ OnlyIndex' = OnlyIndex
      BY <2>1, <2>2 DEF Usable, OnlyIndex, InUse
    <2>4. \A b \in Blocks : MappingNow(b)' = MappingNow(b)
      BY <2>1 DEF MappingNow, InUse
    <2>. QED  BY <2>1, <2>3, <2>4, KeepsStore DEF Seen
  <1>7. ASSUME NEW b \in Blocks, CowReadMapping(b) \/ CowWriteCurrentSkips(b)
        PROVE  Seen
    <2>1. PICK r \in ReadMappingOutcomes(ix, b) : ix' = r.ix
      BY <1>7 DEF CowReadMapping, CowWriteCurrentSkips
    <2>2. /\ state = "open" /\ state' = "open" /\ ~failed
          /\ UNCHANGED <<index_only, data>>
      BY <1>7 DEF CowReadMapping, CowWriteCurrentSkips, Driven
    <2>3. IndexOK(ix)
      BY <1>t, <2>2 DEF IndexInv, InUse
    <2>4. \A c \in Blocks : Mapping(ix', c) = Mapping(ix, c)
      BY <2>1, <2>3, ReadMappingKeeps
    <2>. QED  BY <1>l, <2>2, <2>4, OpenKeepsStore DEF InUse
  <1>8. ASSUME NEW b \in Blocks, NEW v \in Values, CowWriteCurrentStores(b, v)
        PROVE  Seen
    BY <1>8, StoresPreserve DEF Store!Next, Seen
  <1>9. ASSUME NEW b \in Blocks, CowWriteCurrentFails(b) PROVE Seen
    <2>1. ~Usable'
      BY <1>9, UsableOpen DEF CowWriteCurrentFails, Driven, InUse
    <2>. QED  BY <1>l, <2>1, LosesStore
  <1>10. ASSUME NEW b \in Blocks, CowWriteFillerMapping(b) PROVE Seen
    BY <1>10, FillerMarks DEF Store!Next, Seen
  <1>11. ASSUME NEW a \in CacheSizes, CowModifyCacheSize(a) PROVE Seen
    <2>1. IndexOK(ix) /\ state = "open"
      BY <1>11, <1>t DEF CowModifyCacheSize, IndexInv, InUse
    <2>2. \A c \in Blocks : Mapping(ix', c) = Mapping(ix, c)
      BY <1>11, <2>1 DEF CowModifyCacheSize, IndexOK, Index, Mapping
    <2>. QED  BY <1>l, <1>11, <2>1, <2>2, OpenKeepsStore DEF CowModifyCacheSize, InUse
  <1>12. CASE SnapToInc
    BY <1>l, <1>12, OpenKeepsStore DEF SnapToInc, Driven, InUse
  <1>13. CASE CowTruncateToIndex
    BY <1>13, TruncateDrops DEF Store!Next, Seen
  <1>14. ASSUME NEW next \in {"closing", "freeing"}, StartSync(next) PROVE Seen
    <2>1. IndexOK(ix) /\ state = "open"
      BY <1>14, <1>t DEF StartSync, Quiet, IndexInv, InUse
    <2>2. \A c \in Blocks : Mapping(ix', c) = Mapping(ix, c)
      BY <1>14, <2>1 DEF StartSync, IndexOK, Index, Mapping
    <2>. QED  BY <1>l, <1>14, <2>1, <2>2, OpenKeepsStore DEF StartSync, InUse
  <1>15. CASE SyncSection
    <2>1. IndexOK(ix) /\ InUse /\ state # "closed"
      BY <1>15, <1>t DEF SyncSection, Syncing, IndexInv, InUse
    <2>2. PICK s \in ix.cached : ix' = WriteOut(ix, {s}, {})
      BY <1>15 DEF SyncSection
    <2>3. /\ IndexOK(ix') /\ ix'.nr = ix.nr
          /\ \A c \in Blocks : Mapping(ix', c) = Mapping(ix, c)
      <3>1. IndexOK(ix) /\ {s} \in SUBSET ix.cached
        BY <2>1
      <3>. QED  BY <2>2, <3>1, WriteOutKeeps
    <2>. QED  BY <1>l, <1>15, <2>1, <2>3, OpenKeepsStore DEF SyncSection, InUse
  <1>16. CASE CloseClean
    <2>1. /\ IndexOK(ix) /\ InUse /\ ix.cached = {} /\ ~failed /\ state # "closed"
          /\ header' = HeaderNow(TRUE) /\ data' = data
      BY <1>16, <1>t DEF CloseClean, Syncing, IndexInv, InUse, OwnedInv
    <2>2. header' # NoFile /\ header'.clean /\ header'.index_only = index_only
      BY <2>1 DEF HeaderNow, NoFile
    <2>3. Usable /\ Usable'
      BY <2>1, <2>2, UsableOpen DEF Usable
    <2>4. OnlyIndex' = OnlyIndex /\ \A b \in Blocks : MappingNow(b)' = MappingNow(b)
      <3>1. CASE state = "closing"
        BY <1>16, <2>1, <3>1 DEF CloseClean, OnlyIndex, MappingNow, InUse
      <3>2. CASE state # "closing"
        <4>1. state' = "absent" /\ ix' = OnFile
          BY <1>16, <3>2 DEF CloseClean
        <4>2. ix'.stored = ix.stored
          BY <2>1, <4>1, OnFileType DEF IndexOK
        <4>. QED  BY <2>1, <2>2, <4>1, <4>2, FlushedMapping DEF OnlyIndex, MappingNow, InUse
      <3>. QED  BY <3>1, <3>2
    <2>. QED  BY <2>1, <2>3, <2>4, KeepsStore DEF Seen
  <1>17. CASE CowFree
    <2>1. CASE state = "open"
      <3>1. ~Usable'
        BY <1>17, <2>1 DEF CowFree, Unlink, Usable
      <3>. QED  BY <1>l, <3>1, LosesStore
    <2>2. CASE state # "open"
      BY <1>l, <1>17, <1>t, <2>2, LeavesFileStore DEF CowFree, ClosedInv
    <2>. QED  BY <2>1, <2>2
  <1>18. CASE Crash
    BY <1>l, <1>18, <1>t, LeavesFileStore DEF Crash, ClosedInv
  <1>19. CASE UNCHANGED vars
    BY <1>19 DEF Seen, vars, Store!vars, StoreNow, Usable, OnlyIndex, MappingNow, InUse
  <1>. QED
    BY <1>1, <1>2, <1>3, <1>4, <1>5, <1>6, <1>7, <1>8, <1>9, <1>10, <1>11, <1>12,
       <1>13, <1>14, <1>15, <1>16, <1>17, <1>18, <1>19
    DEF Next, DataPath

\* If no error goes unnoticed when the thread is stopped, a COW file that can be
\* used holds the first content preserved for every block: the manager with its
\* cache, its write head, its two modes and its header implements CowStore.
THEOREM StoreImplemented ==
  ASSUME ~DrainErrors
  PROVE  Spec => ImplementsStore
  <1>. DEFINE AllInv == Inv /\ OwnedInv /\ WrittenInv
  <1>1. Init => AllInv
    <2>1. Init => OwnedInv /\ WrittenInv
      BY DEF Init, OwnedInv, WrittenInv, InUse
    <2>. QED  BY <2>1, InitInv
  <1>2. AllInv /\ [Next]_vars => AllInv'
    BY NextInv, NextOwned, NextWritten
  <1>3. Init => Store!Init
    <2>1. Init => ~Usable
      BY DEF Init, Usable
    <2>. QED  BY <2>1 DEF Store!Init, Store!NothingStored, StoreNow
  <1>4. AllInv /\ AllInv' /\ [Next]_vars => [Store!Next]_(Store!vars)
    BY NextStore
  <1>. QED  BY <1>1, <1>2, <1>3, <1>4, PTL DEF Spec, ImplementsStore, Store!Spec
=============================================================================
