------------------------------ MODULE SnapCow -------------------------------
(***************************************************************************)
(* The copy-on-write data path of one active snapshot device: every write  *)
(* to the base device is held back until read clones of the blocks it      *)
(* covers have come back; the clones go to the COW thread, which stores    *)
(* what they read; reads of the snapshot device go through the same queue. *)
(*                                                                         *)
(*   snap_trace_bio      src/src/tracer.c (in the __submit_bio hook)       *)
(*   snap_read_thread, snap_mrf_thread, snap_cow_thread                    *)
(*                       src/src/module_threads.c                          *)
(*   __on_bio_read_complete, tp_get/tp_put, the bio queues                 *)
(*                       src/src/bio_helper.c, tracing_params.c,           *)
(*                       bio_queue.c                                       *)
(*                                                                         *)
(* The content of a block is the write that put it there, or Old, what it  *)
(* held when the snapshot was taken.  The COW file is the map `stored';    *)
(* CowManager.tla shows that the COW manager implements such a map.        *)
(***************************************************************************)
EXTENDS Integers, Sequences, FiniteSets

CONSTANTS
  NumBlocks,     \* blocks of the base device
  Writes,        \* write bios, each submitted at most once
  Reads,         \* read bios on the snapshot device, likewise
  MaxBio,        \* blocks of the largest bio
  MaxClone,      \* blocks of the largest read clone the queue accepts
  FreezeDrains,  \* all writers go through a filesystem that freezing drains
  Old, None

ASSUME SnapCowAssumption ==
  /\ NumBlocks \in Nat \ {0}
  /\ MaxBio \in Nat \ {0}
  /\ MaxClone \in Nat \ {0}
  /\ FreezeDrains \in BOOLEAN
  /\ Old \notin Writes /\ None \notin Writes \cup {Old}
  /\ Writes \cap Reads = {}

Blocks == 0 .. (NumBlocks - 1)
Contents == Writes \cup {Old}

VARIABLES
  disk,       \* the base device
  wstate,     \* where each write is: new, tracing (in snap_trace_bio),
              \* deferred (clones pending), queued (in sd_orig_bios), issued
              \* (passed on to the base device) or done
  wbio,       \* the blocks lo .. hi of each write; next: not yet cloned
  refs,       \* tp->refs of the write's tracing_params
  read_bios,  \* sd_read_bios: clones to be submitted
  clones,     \* clones submitted to the base device and not yet done with
  cow_bios,   \* sd_cow_bios
  orig_bios,  \* sd_orig_bios
  submitted,  \* sd_submitted_cnt
  received,   \* sd_received_cnt
  stored,     \* the COW file: the content kept for each block, or None
  fail,       \* sd_fail_code is set
  is_failed,  \* the local of snap_cow_thread
  cow_pc,     \* snap_cow_thread: loop (at the loop condition), wait (in
              \* wait_event), checked (about to take a bio), base (reading the
              \* base device), empty (the queue was empty), gone
  reading,    \* the snapshot read it is handling
  result,     \* outcome of each snapshot read
  teardown    \* progress of tracer_destroy

wvars == <<wstate, wbio, refs>>
cvars == <<read_bios, clones, submitted>>
tvars == <<stored, is_failed, cow_pc, reading, result>>
vars == <<disk, wvars, cvars, cow_bios, orig_bios, received, fail, tvars,
          teardown>>

Nothing == [b \in Blocks |-> None]

Interval(x) == x.lo .. x.hi

Clone == [w : Writes, lo : Blocks, hi : Blocks,
          at : {"sent", "read", "captured"}, content : [Blocks -> Contents \cup {None}]]

\* An entry of sd_cow_bios: a write made from a clone, or a snapshot read.
CowBio == [dir : {"W", "R"}, id : Writes \cup Reads, lo : Blocks, hi : Blocks,
           content : [Blocks -> Contents \cup {None}]]

WStates == {"new", "tracing", "deferred", "queued", "issued", "done"}

Steps == {"up", "stopping cow", "waiting", "stopping mrf", "stopping read", "down"}

Unsubmitted == [status |-> "unsubmitted", data |-> Nothing]
Pending == [status |-> "pending", data |-> Nothing]
EIO == [status |-> "EIO", data |-> Nothing]
Success(d) == [status |-> "success", data |-> d]

TypeOK ==
  /\ disk \in [Blocks -> Contents]
  /\ wstate \in [Writes -> WStates]
  /\ wbio \in [Writes -> [lo : Blocks, hi : Blocks, next : Nat]]
  /\ refs \in [Writes -> Int]
  /\ read_bios \in Seq([w : Writes, lo : Blocks, hi : Blocks])
  /\ clones \in SUBSET Clone
  /\ cow_bios \in Seq(CowBio)
  /\ orig_bios \in Seq(Writes)
  /\ submitted \in Nat /\ received \in Nat
  /\ stored \in [Blocks -> Contents \cup {None}]
  /\ fail \in BOOLEAN /\ is_failed \in BOOLEAN
  /\ cow_pc \in {"loop", "wait", "checked", "base", "empty", "gone"}
  /\ reading \in CowBio \cup {None}
  /\ result \in [Reads -> [status : {"unsubmitted", "pending", "EIO", "success"},
                            data : [Blocks -> Contents \cup {None}]]]
  /\ teardown \in Steps

Init ==
  /\ disk = [b \in Blocks |-> Old]
  /\ wstate = [w \in Writes |-> "new"]
  /\ wbio = [w \in Writes |-> [lo |-> 0, hi |-> 0, next |-> 0]]
  /\ refs = [w \in Writes |-> 0]
  /\ read_bios = <<>> /\ clones = {} /\ cow_bios = <<>> /\ orig_bios = <<>>
  /\ submitted = 0 /\ received = 0
  /\ stored = Nothing
  /\ fail = FALSE /\ is_failed = FALSE
  /\ cow_pc = "wait" /\ reading = None
  /\ result = [r \in Reads |-> Unsubmitted]
  /\ teardown = "up"

-----------------------------------------------------------------------------
(* snap_trace_bio, in the context of the writer.                           *)

\* tp_put(): the last reference queues the original bio for snap_mrf_thread.
\* `after' is the state of the write if references remain.
TpPut(w, after) ==
  /\ refs' = [refs EXCEPT ![w] = @ - 1]
  /\ IF refs[w] = 1
     THEN /\ orig_bios' = Append(orig_bios, w)
          /\ wstate' = [wstate EXCEPT ![w] = "queued"]
     ELSE /\ wstate' = [wstate EXCEPT ![w] = after]
          /\ UNCHANGED orig_bios

\* tracer_is_bio_for_dev(): writes that come after tracing was stopped are
\* none of this device's.
Traced == teardown = "up"

\* A write arrives; tp_alloc() succeeds.
TraceWrite(w, lo, hi) ==
  /\ wstate[w] = "new"
  /\ lo <= hi /\ hi < lo + MaxBio
  /\ Traced /\ ~fail
  /\ wstate' = [wstate EXCEPT ![w] = "tracing"]
  /\ wbio' = [wbio EXCEPT ![w] = [lo |-> lo, hi |-> hi, next |-> lo]]
  /\ refs' = [refs EXCEPT ![w] = 1]
  /\ UNCHANGED <<disk, cvars, cow_bios, orig_bios, received, fail, tvars, teardown>>

\* The device has failed, or fails because tp_alloc() does: the bio is passed
\* on as it is.
PassWrite(w, lo, hi) ==
  /\ wstate[w] = "new"
  /\ lo <= hi /\ hi < lo + MaxBio
  /\ Traced
  /\ fail' = TRUE
  /\ wstate' = [wstate EXCEPT ![w] = "issued"]
  /\ wbio' = [wbio EXCEPT ![w] = [lo |-> lo, hi |-> hi, next |-> lo]]
  /\ UNCHANGED <<disk, refs, cvars, cow_bios, orig_bios, received, tvars, teardown>>

\* Mutant: the clone may extend one block past the end of the bio.
MakeCloneTooLong(w) ==
  /\ wstate[w] = "tracing"
  /\ wbio[w].next <= wbio[w].hi
  /\ \E hi \in wbio[w].next .. (wbio[w].hi + 1) :
       /\ read_bios' = Append(read_bios, [w |-> w, lo |-> wbio[w].next, hi |-> hi])
       /\ wbio' = [wbio EXCEPT ![w].next = hi + 1]
  /\ refs' = [refs EXCEPT ![w] = @ + 1]
  /\ submitted' = submitted + 1
  /\ UNCHANGED <<disk, wstate, clones, cow_bios, orig_bios, received, fail,
                 tvars, teardown>>

\* One turn of the loop: bio_make_read_clone() takes a reference and returns
\* a clone of what the queue accepts.
MakeClone(w) ==
  /\ wstate[w] = "tracing"
  /\ wbio[w].next <= wbio[w].hi
  /\ \E hi \in wbio[w].next .. wbio[w].hi :
       /\ hi < wbio[w].next + MaxClone
       /\ read_bios' = Append(read_bios, [w |-> w, lo |-> wbio[w].next, hi |-> hi])
       /\ wbio' = [wbio EXCEPT ![w].next = hi + 1]
  /\ refs' = [refs EXCEPT ![w] = @ + 1]
  /\ submitted' = submitted + 1
  /\ UNCHANGED <<disk, wstate, clones, cow_bios, orig_bios, received, fail,
                 tvars, teardown>>

\* Mutant: the error path forgets tracer_set_fail_state().
MakeCloneFailsSilently(w) ==
  /\ wstate[w] = "tracing"
  /\ wbio[w].next <= wbio[w].hi
  /\ TpPut(w, "deferred")
  /\ UNCHANGED <<disk, wbio, cvars, cow_bios, received, fail, tvars, teardown>>

\* No memory for a clone or its sector map: the write goes ahead without.
MakeCloneFails(w) ==
  /\ wstate[w] = "tracing"
  /\ wbio[w].next <= wbio[w].hi
  /\ fail' = TRUE
  /\ TpPut(w, "deferred")
  /\ UNCHANGED <<disk, wbio, cvars, cow_bios, received, tvars, teardown>>

\* The whole bio is cloned; the tracer drops its own reference.
TraceDone(w) ==
  /\ wstate[w] = "tracing"
  /\ wbio[w].next > wbio[w].hi
  /\ TpPut(w, "deferred")
  /\ UNCHANGED <<disk, wbio, cvars, cow_bios, received, fail, tvars, teardown>>

-----------------------------------------------------------------------------
(* The clones: submitted by snap_read_thread, read by the base device,     *)
(* completed by __on_bio_read_complete.                                    *)

SubmitClone ==
  /\ read_bios # <<>>
  /\ teardown # "down"
  /\ LET c == Head(read_bios)
     IN  clones' = clones \cup {[w |-> c.w, lo |-> c.lo, hi |-> c.hi,
                                 at |-> "sent", content |-> Nothing]}
  /\ read_bios' = Tail(read_bios)
  /\ UNCHANGED <<disk, wvars, submitted, cow_bios, orig_bios, received, fail,
                 tvars, teardown>>

\* The base device fetches the blocks.
BaseRead(c) ==
  /\ c.at = "sent"
  /\ clones' = (clones \ {c}) \cup
       {[c EXCEPT !.at = "read",
                  !.content = [b \in Blocks |-> IF b \in Interval(c) THEN disk[b]
                                                ELSE None]]}
  /\ UNCHANGED <<disk, wvars, read_bios, submitted, cow_bios, orig_bios,
                 received, fail, tvars, teardown>>

\* Mutant: sd_received_cnt is not incremented.
CaptureCloneUncounted(c) ==
  /\ c.at = "read"
  /\ cow_bios' = Append(cow_bios, [dir |-> "W", id |-> c.w, lo |-> c.lo,
                                   hi |-> c.hi, content |-> c.content])
  /\ clones' = (clones \ {c}) \cup {[c EXCEPT !.at = "captured"]}
  /\ UNCHANGED <<disk, wvars, read_bios, submitted, orig_bios, received, fail,
                 tvars, teardown>>

\* The clone becomes a write and goes to the COW thread; the count follows.
CaptureClone(c) ==
  /\ c.at = "read"
  /\ cow_bios' = Append(cow_bios, [dir |-> "W", id |-> c.w, lo |-> c.lo,
                                   hi |-> c.hi, content |-> c.content])
  /\ received' = received + 1
  /\ clones' = (clones \ {c}) \cup {[c EXCEPT !.at = "captured"]}
  /\ UNCHANGED <<disk, wvars, read_bios, submitted, orig_bios, fail, tvars, teardown>>

\* ... and only then the reference is dropped.
ReleaseClone(c) ==
  /\ c.at = "captured"
  /\ clones' = clones \ {c}
  /\ TpPut(c.w, wstate[c.w])
  /\ UNCHANGED <<disk, wbio, read_bios, submitted, cow_bios, received, fail,
                 tvars, teardown>>

\* Mutant: the error path forgets tp_put().
CloneErrorNoPut(c) ==
  /\ c.at = "sent"
  /\ clones' = clones \ {c}
  /\ fail' = TRUE
  /\ UNCHANGED <<disk, wvars, read_bios, submitted, cow_bios, orig_bios,
                 received, tvars, teardown>>

\* A read error: no entry for the COW thread, and no count.
CloneError(c) ==
  /\ c.at = "sent"
  /\ clones' = clones \ {c}
  /\ fail' = TRUE
  /\ TpPut(c.w, wstate[c.w])
  /\ UNCHANGED <<disk, wbio, read_bios, submitted, cow_bios, received, tvars,
                 teardown>>

\* snap_mrf_thread submits the original bio, past the tracer.
SubmitOrig ==
  /\ orig_bios # <<>>
  /\ teardown \notin {"stopping read", "down"}
  /\ wstate' = [wstate EXCEPT ![Head(orig_bios)] = "issued"]
  /\ orig_bios' = Tail(orig_bios)
  /\ UNCHANGED <<disk, wbio, refs, cvars, cow_bios, received, fail, tvars, teardown>>

\* The base device carries out a write.
BaseWrite(w) ==
  /\ wstate[w] = "issued"
  /\ disk' = [b \in Blocks |-> IF b \in Interval(wbio[w]) THEN w ELSE disk[b]]
  /\ wstate' = [wstate EXCEPT ![w] = "done"]
  /\ UNCHANGED <<wbio, refs, cvars, cow_bios, orig_bios, received, fail, tvars,
                 teardown>>

-----------------------------------------------------------------------------
(* snap_cow_thread.                                                        *)

\* bio_overlap(): adjacent bios count as overlapping.
Overlap(x, y) == x.lo <= y.hi + 1 /\ y.lo <= x.hi + 1

Overtaking(q) == {i \in 2 .. Len(q) : q[i].dir = "W" /\ Overlap(q[1], q[i])}

\* bio_queue_dequeue_delay_read(): the position of the bio it returns.  A read
\* at the head lets the first overlapping write go first ...
Dequeued(q) ==
  IF q[1].dir = "R" /\ Overtaking(q) # {}
  THEN CHOOSE i \in Overtaking(q) : \A j \in Overtaking(q) : i <= j
  ELSE 1

\* Mutant: the read is not put back.
RemainingLosesRead(q) ==
  LET d == Dequeued(q)
  IN  IF d = 1 THEN Tail(q) ELSE SubSeq(q, 2, d - 1) \o SubSeq(q, d + 1, Len(q))

\* ... and takes its place.
Remaining(q) ==
  [j \in 1 .. (Len(q) - 1) |-> IF j + 1 = Dequeued(q) THEN q[1] ELSE q[j + 1]]

\* Mutant: a thread that is asked to stop does not look at the queue.
CowLoopNoDrain ==
  /\ cow_pc = "loop"
  /\ cow_pc' = IF teardown = "up" THEN "wait" ELSE "empty"
  /\ UNCHANGED <<disk, wvars, cvars, cow_bios, orig_bios, received, fail,
                 stored, is_failed, reading, result, teardown>>

\* The loop condition: kthread_should_stop() and the queue are looked at
\* first ...
CowLoop ==
  /\ cow_pc = "loop"
  /\ cow_pc' = IF teardown = "up" \/ cow_bios # <<>> THEN "wait" ELSE "empty"
  /\ UNCHANGED <<disk, wvars, cvars, cow_bios, orig_bios, received, fail,
                 stored, is_failed, reading, result, teardown>>

\* ... the two counters after that.
CowComparesCounts ==
  /\ cow_pc = "empty"
  /\ IF submitted = received \/ is_failed
     THEN cow_pc' = "gone" /\ teardown' = "waiting"
     ELSE cow_pc' = "wait" /\ UNCHANGED teardown
  /\ UNCHANGED <<disk, wvars, cvars, cow_bios, orig_bios, received, fail,
                 stored, is_failed, reading, result>>

\* Woken up, the thread looks at the fail state, and drops the COW file the
\* first time it is set.
CowWakes ==
  /\ cow_pc = "wait"
  /\ cow_bios # <<>> \/ teardown # "up"
  /\ is_failed' = fail
  /\ stored' = IF fail THEN Nothing ELSE stored
  /\ cow_pc' = IF cow_bios = <<>> THEN "loop" ELSE "checked"
  /\ UNCHANGED <<disk, wvars, cvars, cow_bios, orig_bios, received, fail,
                 reading, result, teardown>>

\* The thread takes the next bio; the fail state may be set by now without
\* having been noticed.
CowDequeue(bio) ==
  /\ cow_pc = "checked"
  /\ bio = cow_bios[Dequeued(cow_bios)]
  /\ cow_bios' = Remaining(cow_bios)

\* The COW file after cow_write_current() on the blocks lo .. upto.
AfterWrite(bio, upto) ==
  [b \in Blocks |-> IF b \in bio.lo .. upto /\ stored[b] = None
                    THEN bio.content[b] ELSE stored[b]]

\* snap_handle_write_bio(): block by block; an error ends it half way.
CowHandleWrite(bio) ==
  /\ CowDequeue(bio)
  /\ bio.dir = "W" /\ ~is_failed
  /\ \/ stored' = AfterWrite(bio, bio.hi) /\ UNCHANGED fail
     \/ \E upto \in (bio.lo - 1) .. (bio.hi - 1) :
          stored' = AfterWrite(bio, upto) /\ fail' = TRUE
  /\ cow_pc' = "loop"
  /\ UNCHANGED <<disk, wvars, cvars, orig_bios, received, is_failed, reading,
                 result, teardown>>

\* snap_handle_read_bio() finds where the blocks are kept; if any of them is
\* not in the COW file it goes on to read the base device.
CowHandleRead(bio) ==
  /\ CowDequeue(bio)
  /\ bio.dir = "R" /\ ~is_failed
  /\ \/ /\ \E b \in Interval(bio) : stored[b] = None
        /\ cow_pc' = "base" /\ reading' = bio
        /\ UNCHANGED <<fail, result>>
     \/ /\ \A b \in Interval(bio) : stored[b] # None
        /\ result' = [result EXCEPT ![bio.id] =
             Success([b \in Blocks |-> IF b \in Interval(bio) THEN stored[b]
                                       ELSE None])]
        /\ cow_pc' = "loop" /\ UNCHANGED <<fail, reading>>
     \/ /\ fail' = TRUE   \* an error of the COW manager
        /\ result' = [result EXCEPT ![bio.id] = EIO]
        /\ cow_pc' = "loop" /\ UNCHANGED reading
  /\ UNCHANGED <<disk, wvars, cvars, orig_bios, received, stored, is_failed,
                 teardown>>

\* The base device returns the blocks; those in the COW file are overlaid.
CowReadBase ==
  /\ cow_pc = "base"
  /\ result' = [result EXCEPT ![reading.id] =
       Success([b \in Blocks |-> IF b \notin Interval(reading) THEN None
                                 ELSE IF stored[b] # None THEN stored[b]
                                 ELSE disk[b]])]
  /\ cow_pc' = "loop" /\ reading' = None
  /\ UNCHANGED <<disk, wvars, cvars, cow_bios, orig_bios, received, fail,
                 stored, is_failed, teardown>>

CowReadBaseFails ==
  /\ cow_pc = "base"
  /\ fail' = TRUE
  /\ result' = [result EXCEPT ![reading.id] = EIO]
  /\ cow_pc' = "loop" /\ reading' = None
  /\ UNCHANGED <<disk, wvars, cvars, cow_bios, orig_bios, received, stored,
                 is_failed, teardown>>

\* In the fail state bios are only disposed of.
CowDrop(bio) ==
  /\ CowDequeue(bio)
  /\ is_failed
  /\ result' = IF bio.dir = "R" THEN [result EXCEPT ![bio.id] = EIO] ELSE result
  /\ cow_pc' = "loop"
  /\ UNCHANGED <<disk, wvars, cvars, orig_bios, received, fail, stored,
                 is_failed, reading, teardown>>

-----------------------------------------------------------------------------
(* Users of the snapshot device, and its end.                              *)

\* snap_mrf(): a read of the snapshot device.
SnapRead(r, lo, hi) ==
  /\ result[r] = Unsubmitted
  /\ teardown = "up"
  /\ lo <= hi /\ hi < lo + MaxBio
  /\ IF fail
     THEN /\ result' = [result EXCEPT ![r] = EIO]
          /\ UNCHANGED cow_bios
     ELSE /\ result' = [result EXCEPT ![r] = Pending]
          /\ cow_bios' = Append(cow_bios, [dir |-> "R", id |-> r, lo |-> lo,
                                           hi |-> hi, content |-> Nothing])
  /\ UNCHANGED <<disk, wvars, cvars, orig_bios, received, fail, stored,
                 is_failed, cow_pc, reading, teardown>>

Held == {w \in Writes : wstate[w] \in {"tracing", "deferred", "queued", "issued"}}

\* tracer_destroy() of a device nobody has open: tracing stops with the
\* filesystem frozen, then the COW thread is asked to stop.
StopTracing ==
  /\ teardown = "up"
  /\ \A r \in Reads : result[r] # Pending
  /\ FreezeDrains => Held = {}
  /\ teardown' = "stopping cow"
  /\ UNCHANGED <<disk, wvars, cvars, cow_bios, orig_bios, received, fail, tvars>>

\* __tracer_wait_for_read_clones()
ClonesWaitedFor ==
  /\ teardown = "waiting"
  /\ submitted = received
  /\ teardown' = "stopping mrf"
  /\ UNCHANGED <<disk, wvars, cvars, cow_bios, orig_bios, received, fail, tvars>>

\* snap_mrf_thread and then snap_read_thread leave with their queues empty.
MrfThreadExits ==
  /\ teardown = "stopping mrf"
  /\ orig_bios = <<>>
  /\ teardown' = "stopping read"
  /\ UNCHANGED <<disk, wvars, cvars, cow_bios, orig_bios, received, fail, tvars>>

ReadThreadExits ==
  /\ teardown = "stopping read"
  /\ read_bios = <<>>
  /\ teardown' = "down"
  /\ UNCHANGED <<disk, wvars, cvars, cow_bios, orig_bios, received, fail, tvars>>

-----------------------------------------------------------------------------

Writer(w) ==
  \/ \E lo, hi \in Blocks : TraceWrite(w, lo, hi) \/ PassWrite(w, lo, hi)
  \/ MakeClone(w)
  \/ MakeCloneFails(w)
  \/ TraceDone(w)

BaseDevice ==
  \/ \E c \in clones : BaseRead(c) \/ CaptureClone(c) \/ ReleaseClone(c)
                         \/ CloneError(c)
  \/ \E w \in Writes : BaseWrite(w)

CowThread ==
  \/ CowLoop
  \/ CowComparesCounts
  \/ CowWakes
  \/ \E i \in 1 .. Len(cow_bios) :
       \/ CowHandleWrite(cow_bios[i])
       \/ CowHandleRead(cow_bios[i])
       \/ CowDrop(cow_bios[i])
  \/ CowReadBase
  \/ CowReadBaseFails

Destroyer == StopTracing \/ ClonesWaitedFor \/ MrfThreadExits \/ ReadThreadExits

Next ==
  \/ \E w \in Writes : Writer(w)
  \/ SubmitClone
  \/ SubmitOrig
  \/ BaseDevice
  \/ CowThread
  \/ \E r \in Reads, lo, hi \in Blocks : SnapRead(r, lo, hi)
  \/ Destroyer

Spec == Init /\ [][Next]_vars

\* The kernel threads, the base device and a writer inside the hook make
\* progress; nobody has to write, to read the snapshot or to destroy it.
Fairness ==
  /\ \A w \in Writes : WF_vars(MakeClone(w) \/ TraceDone(w)) /\ WF_vars(BaseWrite(w))
  /\ WF_vars(SubmitClone)
  /\ WF_vars(SubmitOrig)
  /\ WF_vars(\E c \in clones : BaseRead(c) \/ CaptureClone(c) \/ ReleaseClone(c))
  /\ WF_vars(CowThread)
  /\ WF_vars(ClonesWaitedFor \/ MrfThreadExits \/ ReadThreadExits)

FairSpec == Spec /\ Fairness

-----------------------------------------------------------------------------
(* Properties.                                                             *)

\* A clone in the COW thread's queue that holds the old content of b.
Good(i, b) ==
  /\ cow_bios[i].dir = "W"
  /\ b \in Interval(cow_bios[i])
  /\ cow_bios[i].content[b] = Old

\* The old content of b is in the COW file or on its way there, ahead of any
\* newer content of b.
Safe(b) ==
  \/ stored[b] = Old
  \/ /\ stored[b] = None
     /\ \E i \in 1 .. Len(cow_bios) :
          /\ Good(i, b)
          /\ \A j \in 1 .. (i - 1) :
               cow_bios[j].dir = "W" /\ b \in Interval(cow_bios[j]) => Good(j, b)

\* The snapshot is complete: as long as the device has not failed, the old
\* content of a block that has been overwritten is in the COW file, or the
\* first of the clones of that block the COW thread will come to holds it.
SnapshotKept == ~fail => \A b \in Blocks : disk[b] # Old => Safe(b)

\* A write is held back by exactly the references of its own clones and of
\* the tracer, so that it is released once, and not before its last clone.
RefsAreExact ==
  \A w \in Writes :
    refs[w] = Cardinality({i \in 1 .. Len(read_bios) : read_bios[i].w = w})
              + Cardinality({c \in clones : c.w = w})
              + (IF wstate[w] = "tracing" THEN 1 ELSE 0)

\* Every write the hook holds back reaches the base device in the end,
\* whatever fails on the way: always if freezing drains the writes, and
\* otherwise as long as the device is not being destroyed.
DeferredWritesLand ==
  \A w \in Writes : wstate[w] = "tracing" ~>
    (wstate[w] = "done" \/ (~FreezeDrains /\ teardown # "up"))

\* Every read of the snapshot device is answered, also when writes overtake
\* it in the queue or the device fails.
ReadsAnswered ==
  \A r \in Reads : result[r] = Pending ~> result[r] # Pending

\* The destruction of a snapshot device that does not fail ends: the COW
\* thread, the wait for the read clones and the two threads that submit bios
\* all come to their end.
HealthyDestroyEnds == teardown = "stopping cow" ~> teardown = "down" \/ fail

\* The destruction of a snapshot device ends, also after a failure:
\* __tracer_wait_for_read_clones() does not wait for ever.
DestroyEnds == teardown = "stopping cow" ~> teardown = "down"

\* A read of the snapshot device returns the old content of every block, as
\* long as the device has not failed.
ReadsSeeSnapshot ==
  ~fail => \A r \in Reads, b \in Blocks : result[r].data[b] \in {None, Old}

\* Once the device is down no write is still held back by it.
NoWriteStranded ==
  teardown = "down" => \A w \in Writes : wstate[w] \notin {"deferred", "queued"}

\* When the COW thread has left without an error the COW file is complete:
\* what the transition to incremental mode and the dormant state rely on.
CompleteWhenThreadGone ==
  cow_pc = "gone" /\ ~fail => \A b \in Blocks : disk[b] # Old => stored[b] = Old
=============================================================================
