------------------------------ MODULE CowIndex ------------------------------
(***************************************************************************)
(* The index of a COW file (src/src/cow_manager.c): one mapping per block  *)
(* of the traced device, grouped in sections.  A section is either only in *)
(* the file, or cached in memory (its `mappings' pointer is not NULL), or  *)
(* it has never been written (`has_data' is 0).                            *)
(*                                                                         *)
(* This module is the data structure alone, as pure operators on a record  *)
(* ix.  An operation that does I/O can fail half way, so it is the set of  *)
(* its possible outcomes [ret, ix], ret not 0 for an error.  CowManager    *)
(* drives it.                                                              *)
(*                                                                         *)
(*   ix.stored     the index region of the file, block by block            *)
(*   ix.cached     the sections whose mappings pointer is not NULL         *)
(*   ix.mappings   the cached mappings (0 where the section is not cached) *)
(*   ix.has_data   the sections with has_data = 1                          *)
(*   ix.usage      the usage counter of each section                       *)
(*   ix.allocated  cm->allocated_sects                                     *)
(*   ix.allowed    cm->allowed_sects                                       *)
(*   ix.nr         cm->nr_changed_blocks                                   *)
(***************************************************************************)
EXTENDS Integers, FiniteSets, FiniteSetsExt

CONSTANTS
  TotalSects,   \* cm->total_sects
  SectSize      \* cm->sect_size, mappings per section (4096 in the driver)

ASSUME IndexAssumption ==
  /\ TotalSects \in Nat \ {0}
  /\ SectSize \in Nat \ {0}

Sects == 0 .. (TotalSects - 1)
Blocks == 0 .. (TotalSects * SectSize - 1)

\* do_div(sect_idx, cm->sect_size): the quotient selects the section.
SectOf(b) == b \div SectSize

Index == [stored    : [Blocks -> Nat],
          cached    : SUBSET Sects,
          mappings  : [Blocks -> Nat],
          has_data  : SUBSET Sects,
          usage     : [Sects -> Nat],
          allocated : Nat,
          allowed   : Nat,
          nr        : Nat]

\* A new cow_manager: sects is zeroed; the file was opened with O_TRUNC.
EmptyIndex(allowed) ==
  [stored    |-> [b \in Blocks |-> 0],
   cached    |-> {},
   mappings  |-> [b \in Blocks |-> 0],
   has_data  |-> {},
   usage     |-> [s \in Sects |-> 0],
   allocated |-> 0,
   allowed   |-> allowed,
   nr        |-> 0]

\* The mapping cow_read_mapping() yields for b, wherever it is kept.
Mapping(ix, b) ==
  IF SectOf(b) \in ix.cached THEN ix.mappings[b]
  ELSE IF SectOf(b) \in ix.has_data THEN ix.stored[b]
  ELSE 0

-----------------------------------------------------------------------------
(* Sections come and go.                                                   *)

Touch(ix, s) == [ix EXCEPT !.usage = [ix.usage EXCEPT ![s] = @ + 1]]

\* Mutant: allocated_sects is not incremented.
BringInUncounted(ix, s) ==
  [ix EXCEPT
     !.mappings  = [b \in Blocks |->
                      IF SectOf(b) # s THEN ix.mappings[b]
                      ELSE IF s \in ix.has_data THEN ix.stored[b] ELSE 0],
     !.cached    = ix.cached \cup {s},
     !.has_data  = ix.has_data \cup {s}]

\* __cow_alloc_section() with zeroed pages when the section has no data,
\* __cow_load_section() otherwise.
BringIn(ix, s) ==
  [ix EXCEPT
     !.mappings  = [b \in Blocks |->
                      IF SectOf(b) # s THEN ix.mappings[b]
                      ELSE IF s \in ix.has_data THEN ix.stored[b] ELSE 0],
     !.cached    = ix.cached \cup {s},
     !.has_data  = ix.has_data \cup {s},
     !.allocated = ix.allocated + 1]

\* Mutant: the sections are freed without being written.
WriteOutLoses(ix, V, U) ==
  [ix EXCEPT
     !.mappings  = [b \in Blocks |-> IF SectOf(b) \in V THEN 0
                                                        ELSE ix.mappings[b]],
     !.cached    = ix.cached \ V,
     !.allocated = ix.allocated - Cardinality(V),
     !.usage     = [s \in Sects |-> IF s \in U THEN 0 ELSE ix.usage[s]]]

\* __cow_write_section() and __cow_free_section() on each section of V;
\* the usage counters of the sections of U are reset.
WriteOut(ix, V, U) ==
  [ix EXCEPT
     !.stored    = [b \in Blocks |-> IF SectOf(b) \in V THEN ix.mappings[b]
                                                        ELSE ix.stored[b]],
     !.mappings  = [b \in Blocks |-> IF SectOf(b) \in V THEN 0
                                                        ELSE ix.mappings[b]],
     !.cached    = ix.cached \ V,
     !.allocated = ix.allocated - Cardinality(V),
     !.usage     = [s \in Sects |-> IF s \in U THEN 0 ELSE ix.usage[s]]]

-----------------------------------------------------------------------------
(* __cow_cleanup_mappings(): an approximate median of the usage counters,  *)
(* then __cow_sync_and_free_sections() with it.                            *)

\* The halving search.  t is `thresh', g is `granularity' before the shift.
\* `less' counts every section of the device, cached or not.
Median(ix) ==
  LET less(t)    == Cardinality({s \in Sects : ix.usage[s] <= t})
      greater(t) == Cardinality({s \in Sects : ix.usage[s] > t})
      search[t \in Nat, g \in Nat] ==
        IF g = 0 \/ less(t) = greater(t) THEN t
        ELSE IF greater(t) > less(t) THEN search[t + (g \div 2), g \div 2]
        ELSE search[t - (g \div 2), g \div 2]
      half == Max({ix.usage[s] : s \in Sects}) \div 2
  IN  search[half, half]

\* The sections the sweep frees if it reaches them: all when thresh is 0.
Candidates(ix, thresh) ==
  {s \in ix.cached : thresh = 0 \/ ix.usage[s] <= thresh}

\* The sweep goes up through the sections and, unless thresh is 0, stops as
\* soon as no more than half of the allowed sections are allocated.
Reached(ix, thresh, s) ==
  \/ thresh = 0
  \/ ix.allocated - Cardinality({v \in Candidates(ix, thresh) : v < s})
       > ix.allowed \div 2

Victims(ix, thresh) == {s \in Candidates(ix, thresh) : Reached(ix, thresh, s)}

\* The sweep in full, or up to the section k whose write to the file fails.
SweepOutcomes(ix, thresh) ==
  LET V == Victims(ix, thresh)
      U == {s \in Sects : Reached(ix, thresh, s)}
  IN  {[ret |-> 0, ix |-> WriteOut(ix, V, U)]}
      \cup {[ret |-> -1,
             ix  |-> WriteOut(ix, {s \in V : s < k}, {s \in U : s < k})] :
               k \in V}

\* The trailing `if (allocated_sects > allowed_sects)' of both mapping
\* operations.
CleanupOutcomes(ix) ==
  IF ix.allocated > ix.allowed THEN SweepOutcomes(ix, Median(ix))
  ELSE {[ret |-> 0, ix |-> ix]}

-----------------------------------------------------------------------------
(* The two mapping operations.  Bringing a section in may fail (no memory, *)
(* or a failed read); the section is then left as it was.                  *)

ReadMappingOutcomes(ix, b) ==
  LET s == SectOf(b)
      t == Touch(ix, s)
  IN  IF s \in ix.cached THEN CleanupOutcomes(t)
      ELSE IF s \notin ix.has_data THEN {[ret |-> 0, ix |-> t]}
      ELSE {[ret |-> -1, ix |-> t]} \cup CleanupOutcomes(BringIn(t, s))

\* Mutant: a mapping that is overwritten is counted again.
SetMappingCountsAgain(ix, b, val) ==
  [ix EXCEPT !.mappings = [ix.mappings EXCEPT ![b] = val], !.nr = ix.nr + 1]

\* The assignment to the mapping itself, with the changed block count.
SetMapping(ix, b, val) ==
  [ix EXCEPT !.mappings = [ix.mappings EXCEPT ![b] = val],
             !.nr = IF ix.mappings[b] = 0 THEN ix.nr + 1 ELSE ix.nr]

WriteMappingOutcomes(ix, b, val) ==
  LET s == SectOf(b)
      t == Touch(ix, s)
  IN  IF s \in ix.cached THEN CleanupOutcomes(SetMapping(t, b, val))
      ELSE {[ret |-> -1, ix |-> t]}
           \cup CleanupOutcomes(SetMapping(BringIn(t, s), b, val))

-----------------------------------------------------------------------------

\* What all operations on the index keep: a cached section has data, the
\* cached sections are counted, and the file holds nothing but zeros for a
\* section without data.
IndexOK(ix) ==
  /\ ix \in Index
  /\ ix.cached \subseteq ix.has_data
  /\ ix.allocated = Cardinality(ix.cached)
  /\ \A b \in Blocks : SectOf(b) \notin ix.has_data => ix.stored[b] = 0
=============================================================================
