----------------------------- MODULE CowManager -----------------------------
(***************************************************************************)
(* The COW manager of src/src/cow_manager.c: the COW file of one traced    *)
(* device, from its creation to its removal, through eviction of index     *)
(* sections, I/O errors, the transition to incremental mode, clean close   *)
(* and reopening, and a machine that goes down at any step and reloads     *)
(* the file it finds.                                                      *)
(*                                                                         *)
(* File offsets are in COW blocks.  The manager is used by one thread at a *)
(* time: the COW thread of the device, or the ioctl that stopped it.  The  *)
(* exceptions are cow_modify_cache_size() and cow_truncate_to_index(),     *)
(* which run beside the thread.                                            *)
(***************************************************************************)
EXTENDS CowIndex

CONSTANTS
  Values,      \* contents of a block
  Hole,        \* a data block of the file that was never written
  DataOffset,  \* cm->data_offset, in COW blocks: the header and the index
  FileMax,     \* file_max of cow_init(), in COW blocks
  CacheSizes,  \* values of allowed_sects a user can configure
  Unmapped, Changed,   \* see CowStore
  DrainErrors, \* the thread may get an error for the last thing it handles
               \* when it is stopped, and leave without noticing it
  MaxUsage     \* bound on the usage counters

ASSUME ManagerAssumption ==
  /\ Hole \notin Values
  /\ DataOffset \in Nat /\ DataOffset > 1
  /\ FileMax \in Nat
  /\ CacheSizes \subseteq Nat
  /\ MaxUsage \in Nat
  /\ DrainErrors \in BOOLEAN
  /\ Unmapped # Changed /\ Unmapped \notin Values /\ Changed \notin Values

DataPositions == DataOffset .. (FileMax - 1)

VARIABLES
  state,       \* the cow_manager: absent (not allocated), open, closing and
               \* freeing (in cow_sync_and_close/_free), closed (dfilp = NULL),
               \* freed (cow_free_members was called)
  tracking,    \* "snap" or "inc": the thread that drives it
  failed,      \* the thread got an error from the manager
  ix,          \* the index, see CowIndex
  curr_pos,    \* cm->curr_pos
  file_size,   \* cm->file_size
  index_only,  \* the COW_INDEX_ONLY flag of cm->flags
  header,      \* the header in the file, or NoFile
  data         \* the data blocks of the file

vars == <<state, tracking, failed, ix, curr_pos, file_size, index_only,
          header, data>>

NoFile == [exists |-> FALSE]

Header == [exists : {TRUE}, clean : BOOLEAN, index_only : BOOLEAN,
           fpos : Nat, fsize : Nat, nr : Nat]

States == {"absent", "open", "closing", "freeing", "closed", "freed"}

TypeOK ==
  /\ state \in States
  /\ tracking \in {"snap", "inc"}
  /\ failed \in BOOLEAN
  /\ ix \in Index
  /\ curr_pos \in Nat
  /\ file_size \in Nat
  /\ index_only \in BOOLEAN
  /\ header \in Header \cup {NoFile}
  /\ data \in [DataPositions -> Values \cup {Hole}]

NoData == [p \in DataPositions |-> Hole]

\* __cow_write_header(): what the manager would write now.
HeaderNow(clean) ==
  [exists |-> TRUE, clean |-> clean, index_only |-> index_only,
   fpos |-> curr_pos, fsize |-> file_size, nr |-> ix.nr]

\* What is left of the index when the manager's memory is gone.
OnFile == [EmptyIndex(0) EXCEPT !.stored = ix.stored]

\* The memory of a manager that is not allocated.
NoManager ==
  /\ tracking' = "snap"
  /\ failed' = FALSE
  /\ curr_pos' = 0
  /\ file_size' = 0
  /\ index_only' = FALSE

\* file_unlink() and the freeing of the cached sections.
Unlink ==
  /\ header' = NoFile
  /\ data' = NoData
  /\ ix' = EmptyIndex(0)

Init ==
  /\ state = "absent"
  /\ tracking = "snap"
  /\ failed = FALSE
  /\ ix = EmptyIndex(0)
  /\ curr_pos = 0
  /\ file_size = 0
  /\ index_only = FALSE
  /\ header = NoFile
  /\ data = NoData

-----------------------------------------------------------------------------
(* Creation and reload.                                                    *)

CowInit(allowed) ==
  /\ state = "absent"
  /\ state' = "open"
  /\ tracking' = "snap"
  /\ ix' = EmptyIndex(allowed)
  /\ curr_pos' = DataOffset
  /\ file_size' = FileMax
  /\ index_only' = FALSE
  /\ header' = [exists |-> TRUE, clean |-> FALSE, index_only |-> FALSE,
                fpos |-> DataOffset, fsize |-> FileMax, nr |-> 0]
  /\ data' = NoData
  /\ UNCHANGED failed

\* An error after the file was opened (and truncated) removes it.
CowInitFails ==
  /\ state = "absent"
  /\ Unlink
  /\ NoManager
  /\ UNCHANGED state

\* The checks of __cow_open_header(); a file that fails them is left alone.
HeaderAccepted(want_index_only) ==
  /\ header # NoFile
  /\ header.clean
  /\ header.index_only = want_index_only

CowReload(allowed, want_index_only) ==
  /\ state = "absent"
  /\ HeaderAccepted(want_index_only)
  /\ state' = "open"
  /\ tracking' = IF want_index_only THEN "inc" ELSE "snap"
  /\ ix' = [OnFile EXCEPT !.has_data = Sects,
                          !.allowed = allowed,
                          !.nr = header.nr]
  /\ curr_pos' = header.fpos
  /\ file_size' = header.fsize
  /\ index_only' = header.index_only
  /\ header' = [header EXCEPT !.clean = FALSE]
  /\ UNCHANGED <<failed, data>>

\* No memory for the section array, after the header was marked dirty.
CowReloadFails(want_index_only) ==
  /\ state = "absent"
  /\ HeaderAccepted(want_index_only)
  /\ header' = [header EXCEPT !.clean = FALSE]
  /\ UNCHANGED <<state, tracking, failed, ix, curr_pos, file_size, index_only,
                 data>>

\* Mutant: the header is left marked clean while the file is in use.
CowReopenKeepsClean ==
  /\ state = "closed"
  /\ ~failed \/ DrainErrors
  /\ HeaderAccepted(index_only)
  /\ state' = "open"
  /\ ix' = [ix EXCEPT !.nr = header.nr]
  /\ curr_pos' = header.fpos
  /\ file_size' = header.fsize
  /\ index_only' = header.index_only
  /\ UNCHANGED <<tracking, failed, header, data>>

\* The section array was kept while the file was closed.  A mount passes over
\* a failed device; a umount that fails does not look at the fail state.  The
\* device fails after all if the file is not on it or has no thread to serve it.
CowReopen ==
  /\ state = "closed"
  /\ ~failed \/ DrainErrors
  /\ HeaderAccepted(index_only)
  /\ state' = "open"
  /\ ix' = [ix EXCEPT !.nr = header.nr]
  /\ curr_pos' = header.fpos
  /\ file_size' = header.fsize
  /\ index_only' = header.index_only
  /\ header' = [header EXCEPT !.clean = FALSE]
  /\ failed' \in {failed, TRUE}
  /\ UNCHANGED <<tracking, data>>

\* The file cannot be opened: the device fails, the file stays as it was.
CowReopenFails ==
  /\ state = "closed"
  /\ ~failed \/ DrainErrors
  /\ failed' = TRUE
  /\ UNCHANGED <<state, tracking, ix, curr_pos, file_size, index_only, header, data>>

-----------------------------------------------------------------------------
(* The data path, called by the COW thread while it has seen no error.     *)

Driven(mode) ==
  /\ state = "open"
  /\ tracking = mode
  /\ ~failed

\* Bounds the usage counters; an operation touches a section at most twice.
UsageBound(b) == ix.usage[SectOf(b)] + 2 <= MaxUsage

\* cow_read_mapping() as called for a read of the snapshot device.
CowReadMapping(b) ==
  /\ Driven("snap")
  /\ UsageBound(b)
  /\ \E r \in ReadMappingOutcomes(ix, b) :
       /\ ix' = r.ix
       /\ failed' = (r.ret # 0)
  /\ UNCHANGED <<state, tracking, curr_pos, file_size, index_only, header, data>>

\* cow_write_current(): nothing to do if the block has a mapping.
CowWriteCurrentSkips(b) ==
  /\ Driven("snap")
  /\ UsageBound(b)
  /\ Mapping(ix, b) # 0
  /\ \E r \in ReadMappingOutcomes(ix, b) :
       /\ ix' = r.ix
       /\ failed' = (r.ret # 0)
  /\ UNCHANGED <<state, tracking, curr_pos, file_size, index_only, header, data>>

\* Mutant: the write head stays where it is.
WriteDataInPlace(v) ==
  /\ curr_pos < file_size
  /\ data' = [data EXCEPT ![curr_pos] = v]
  /\ UNCHANGED curr_pos

\* __cow_write_data(): v goes to the write head, if it is below file_size.
WriteData(v) ==
  /\ curr_pos < file_size
  /\ data' = [data EXCEPT ![curr_pos] = v]
  /\ curr_pos' = curr_pos + 1

\* cow_write_current(): the mapping to the write head, then the data there.
CowWriteCurrentStores(b, v) ==
  /\ Driven("snap")
  /\ UsageBound(b)
  /\ Mapping(ix, b) = 0
  /\ \E r \in ReadMappingOutcomes(ix, b) :
       /\ r.ret = 0
       /\ \E w \in WriteMappingOutcomes(r.ix, b, curr_pos) :
            /\ w.ret = 0
            /\ ix' = w.ix
  /\ WriteData(v)
  /\ UNCHANGED <<state, tracking, failed, file_size, index_only, header>>

\* cow_write_current() with an error in the lookup, in the write of the
\* mapping or, with the mapping already set, in the write of the data
\* (an I/O error, or -EFBIG with the write head at file_size).
CowWriteCurrentFails(b) ==
  /\ Driven("snap")
  /\ UsageBound(b)
  /\ Mapping(ix, b) = 0
  /\ \E r \in ReadMappingOutcomes(ix, b) :
       IF r.ret # 0 THEN ix' = r.ix
       ELSE \E w \in WriteMappingOutcomes(r.ix, b, curr_pos) : ix' = w.ix
  /\ failed' = TRUE
  /\ UNCHANGED <<state, tracking, curr_pos, file_size, index_only, header, data>>

\* cow_write_filler_mapping(): called without looking at the mapping first.
CowWriteFillerMapping(b) ==
  /\ Driven("inc")
  /\ UsageBound(b)
  /\ \E w \in WriteMappingOutcomes(ix, b, 1) :
       /\ ix' = w.ix
       /\ failed' = (w.ret # 0)
  /\ UNCHANGED <<state, tracking, curr_pos, file_size, index_only, header, data>>

-----------------------------------------------------------------------------
(* What the ioctls do beside the thread, or between two threads.           *)

CowModifyCacheSize(allowed) ==
  /\ state = "open"
  /\ ix.allowed # allowed
  /\ ix' = [ix EXCEPT !.allowed = allowed]
  /\ UNCHANGED <<state, tracking, failed, curr_pos, file_size, index_only,
                 header, data>>

\* tracer_active_snap_to_inc() passes the manager to the thread of the
\* incremental device and wakes it ...
SnapToInc ==
  /\ Driven("snap")
  /\ tracking' = "inc"
  /\ UNCHANGED <<state, failed, ix, curr_pos, file_size, index_only, header, data>>

\* ... and only then truncates the file; a failure is only logged.
CowTruncateToIndex ==
  /\ state = "open"
  /\ tracking = "inc"
  /\ ~index_only
  /\ index_only' = TRUE
  /\ \/ data' = NoData /\ file_size' = DataOffset
     \/ UNCHANGED <<data, file_size>>
  /\ UNCHANGED <<state, tracking, failed, ix, curr_pos, header>>

-----------------------------------------------------------------------------
(* Closing.                                                                *)

\* The thread was stopped and no transition is under way.  The fail state was
\* looked at before the thread was stopped, and is not looked at again.
Quiet ==
  /\ state = "open"
  /\ ~failed \/ DrainErrors
  /\ index_only = (tracking = "inc")

\* cow_sync_and_close() (to dormant) and cow_sync_and_free() (the old file at
\* the transition to a new snapshot) start to flush every section.
StartSync(next) ==
  /\ Quiet
  /\ next = "freeing" => tracking = "inc"
  /\ state' = next
  /\ ix' = [ix EXCEPT !.usage = [s \in Sects |-> 0]]
  /\ UNCHANGED <<tracking, failed, curr_pos, file_size, index_only, header, data>>

Syncing == state \in {"closing", "freeing"}

\* One iteration of __cow_sync_and_free_sections(cm, 0).
SyncSection ==
  /\ Syncing
  /\ \E s \in ix.cached :
       /\ \A t \in ix.cached : s <= t
       /\ ix' = WriteOut(ix, {s}, {})
  /\ UNCHANGED <<state, tracking, failed, curr_pos, file_size, index_only,
                 header, data>>

\* __cow_close_header() and the closing of the file.
CloseClean ==
  /\ Syncing
  /\ ix.cached = {}
  /\ header' = HeaderNow(TRUE)
  /\ IF state = "closing"
     THEN /\ state' = "closed"
          /\ UNCHANGED <<tracking, failed, ix, curr_pos, file_size, index_only>>
     ELSE /\ state' = "absent"
          /\ ix' = OnFile
          /\ NoManager
  /\ UNCHANGED data

\* An error in either: the members are freed and the file is unlinked.
SyncFails ==
  /\ Syncing
  /\ Unlink
  /\ NoManager
  /\ state' = IF state = "closing" THEN "freed" ELSE "absent"

\* The thread sees the fail state and calls cow_free_members().
CowFreeMembers ==
  /\ state = "open"
  /\ failed
  /\ state' = "freed"
  /\ Unlink
  /\ NoManager

\* cow_free(), from tracer_destroy(): the file is unlinked if it is open.
CowFree ==
  /\ state \in {"open", "closed", "freed"}
  /\ state' = "absent"
  /\ NoManager
  /\ IF state = "open" THEN Unlink
     ELSE ix' = OnFile /\ UNCHANGED <<header, data>>

\* The machine goes down, or the driver is gone without a clean close.
Crash ==
  /\ state' = "absent"
  /\ state # "absent"
  /\ ix' = OnFile
  /\ NoManager
  /\ UNCHANGED <<header, data>>

-----------------------------------------------------------------------------

DataPath ==
  \E b \in Blocks :
    \/ CowReadMapping(b)
    \/ CowWriteCurrentSkips(b)
    \/ \E v \in Values : CowWriteCurrentStores(b, v)
    \/ CowWriteCurrentFails(b)
    \/ CowWriteFillerMapping(b)

Next ==
  \/ \E a \in CacheSizes : CowInit(a)
  \/ CowInitFails
  \/ \E a \in CacheSizes, io \in BOOLEAN : CowReload(a, io)
  \/ \E io \in BOOLEAN : CowReloadFails(io)
  \/ CowReopen
  \/ CowReopenFails
  \/ DataPath
  \/ \E a \in CacheSizes : CowModifyCacheSize(a)
  \/ SnapToInc
  \/ CowTruncateToIndex
  \/ \E next \in {"closing", "freeing"} : StartSync(next)
  \/ SyncSection
  \/ CloseClean
  \/ SyncFails
  \/ CowFreeMembers
  \/ CowFree
  \/ Crash

Spec == Init /\ [][Next]_vars

-----------------------------------------------------------------------------
(* Properties.                                                             *)

\* The manager's memory holds the index.
InUse == state \in {"open", "closing", "freeing", "closed"}

\* The mapping of b as a later operation, or a reload, will see it.
MappingNow(b) == IF InUse THEN Mapping(ix, b) ELSE ix.stored[b]

MappedBlocks == {b \in Blocks : MappingNow(b) # 0}

\* The COW file can be used: by the running driver or by a reload.
Usable ==
  /\ header # NoFile
  /\ header.clean \/ (InUse /\ ~failed)

OnlyIndex == IF InUse THEN index_only ELSE header.index_only

\* nr_changed_blocks, which `moo info' and backup tools report, is the
\* number of blocks with a mapping: across evictions and reloads of
\* sections, overwritten mappings, clean close and reload.
CountIsExact ==
  Usable => (IF InUse THEN ix.nr ELSE header.nr) = Cardinality(MappedBlocks)

\* Two blocks never share a data block of the COW file, and no mapping lies
\* at or beyond the write head: cow_write_current() never overwrites the
\* preserved content of another block.
MappingsAreOwned ==
  Usable /\ ~OnlyIndex =>
    \A b \in Blocks : MappingNow(b) > 1 =>
      /\ DataOffset <= MappingNow(b)
      /\ MappingNow(b) < (IF InUse THEN curr_pos ELSE header.fpos)
      /\ \A c \in Blocks \ {b} : MappingNow(c) # MappingNow(b)

\* A header marked clean says that the index in the file is all there is:
\* it is written after the last section and taken back before any use.
CleanMeansFlushed ==
  header # NoFile /\ header.clean =>
    /\ state \in {"closed", "absent"}
    /\ \A b \in Blocks : MappingNow(b) = ix.stored[b]

\* The inductive invariant behind these properties.
IndexInv == IF InUse THEN IndexOK(ix) ELSE ix \in Index /\ ix.cached = {}

ClosedInv ==
  /\ header # NoFile /\ header.clean => state \in {"closed", "absent"}
  /\ state = "closed" => ix.cached = {} /\ header = HeaderNow(TRUE)

CountInv ==
  /\ InUse => ix.nr = Cardinality(MappedBlocks)
  /\ state = "absent" /\ header # NoFile /\ header.clean =>
       header.nr = Cardinality(MappedBlocks)

PosInv ==
  /\ InUse => DataOffset <= curr_pos
  /\ header # NoFile => DataOffset <= header.fpos

Inv == TypeOK /\ IndexInv /\ ClosedInv /\ CountInv /\ PosInv

\* ... and, if no error goes unnoticed when the thread is stopped, behind
\* MappingsAreOwned.
Owned(limit) ==
  \A b \in Blocks : MappingNow(b) > 1 =>
    /\ DataOffset <= MappingNow(b) /\ MappingNow(b) < limit
    /\ \A c \in Blocks \ {b} : MappingNow(c) # MappingNow(b)

OwnedInv ==
  /\ state \in {"closing", "freeing"} => ~failed
  /\ InUse /\ (~failed \/ state = "closed") /\ ~index_only => Owned(curr_pos)
  /\ state = "absent" /\ header # NoFile /\ header.clean /\ ~header.index_only =>
       Owned(header.fpos)

\* ... and behind ImplementsStore: every mapping that is not the filler points
\* to a data block of the file that was written.  The write of the data comes
\* after that of the mapping, and fails at file_size.
Written ==
  \A b \in Blocks : MappingNow(b) > 1 =>
    /\ MappingNow(b) \in DataPositions
    /\ data[MappingNow(b)] \in Values

WrittenInv ==
  /\ InUse => header # NoFile
  /\ state = "absent" => ~failed
  /\ InUse /\ index_only => tracking = "inc"
  /\ InUse /\ (~failed \/ state = "closed") /\ ~index_only =>
       file_size <= FileMax /\ Written
  /\ state = "absent" /\ header # NoFile /\ header.clean /\ ~header.index_only =>
       header.fsize <= FileMax /\ Written

\* The abstract store this manager implements.
StoreNow ==
  [b \in Blocks |->
     IF ~Usable \/ MappingNow(b) = 0 THEN Unmapped
     ELSE IF OnlyIndex \/ MappingNow(b) = 1 THEN Changed
     ELSE data[MappingNow(b)]]

Store == INSTANCE CowStore WITH store <- StoreNow, lost <- ~Usable

\* The COW file is a write-once store of block contents: whatever is evicted,
\* reloaded, closed, reopened or lost in a crash, a file that can still be
\* used holds for every block the first content preserved for it.
ImplementsStore == Store!Spec
=============================================================================
