------------------------------ MODULE Tracking ------------------------------
(***************************************************************************)
(* Change tracking of one block device over its whole life: snapshot and   *)
(* incremental mode and the ioctls that go from one to the other, mount    *)
(* and umount with the transitions to dormant and back, failures, and a    *)
(* machine that goes down and reloads what it finds.                       *)
(*                                                                         *)
(* In both modes a traced write leaves an entry in a queue of the device   *)
(* before it reaches the disk: in incremental mode a sector set, at once,  *)
(* and in snapshot mode a read clone, when it has completed (SnapCow has   *)
(* the details).  The COW thread of the device records the block in the    *)
(* COW file (CowManager has the details).  What matters here is which      *)
(* blocks are recorded, and where.                                         *)
(*                                                                         *)
(* The ioctls and the mount hooks exclude each other (ioctl_mutex and      *)
(* snap_device_lock); writes and the COW threads run beside them.          *)
(***************************************************************************)
EXTENDS Naturals, FiniteSets, Sequences, SequencesExt

CONSTANTS
  Blocks,
  Pages,       \* the kinds of pages written: "inode" pages belong to a file,
               \* "anon" pages (direct I/O) to none
  MountWrites, \* the device may be written between the start of a mount and
               \* the hook that follows it
  MaxQueue     \* bound on the entries of the queue and the clones on their way

ASSUME TrackingAssumption ==
  /\ Pages \subseteq {"inode", "anon"}
  /\ MountWrites \in BOOLEAN
  /\ MaxQueue \in Nat

VARIABLES
  fs,       \* of the block device: unmounted, mounting, mounted, unmounting
  pc,       \* what the ioctl or hook under way will do next
  sd,       \* sd.dev: the snap_device in the array, or NoDev; sd.old: the one
            \* it has just replaced, until that is freed
  ep,       \* ep.cur: the COW file of the current snapshot; ep.prev: the one
            \* before it, which the incremental handed over
  inflight  \* blocks with a write between the tracer and the disk

vars == <<fs, pc, sd, ep, inflight>>

NoDev == [mode |-> "none"]

Device ==
  [mode   : {"snap", "inc"},
   state  : {"active", "dormant", "unverified"},
   fail   : BOOLEAN,             \* sd_fail_code
   inode  : BOOLEAN,             \* sd_cow_inode is not NULL
   queue  : Seq(Blocks),         \* sd_cow_bios, sd_pending_ssets
   clones : SUBSET Blocks,       \* read clones submitted and not completed
   lag    : BOOLEAN,             \* sd_received_cnt will not catch up any more
   thread : {"none", "created", "running", "stopping",
             "leaving"},         \* asked to stop, it has seen an empty queue
   seen   : BOOLEAN]             \* is_failed of the thread

\* A snapshot and the COW file that belongs to it.
Epoch ==
  [cm         : {"none", "open", "closed", "freed"},  \* the cow_manager
   file       : {"none", "dirty", "clean"},           \* its file and header
   index_only : BOOLEAN,
   marks      : SUBSET Blocks,   \* blocks with a mapping
   changed    : SUBSET Blocks,   \* blocks written since the snapshot
   late       : SUBSET Blocks,   \* of those, the ones queued after the COW
                                 \* thread's last look at the queue,
   failed     : SUBSET Blocks,   \* the ones an error kept from being recorded,
   lost       : SUBSET Blocks]   \* and the others nobody will record

NoEpoch ==
  [cm |-> "none", file |-> "none", index_only |-> FALSE,
   marks |-> {}, changed |-> {}, late |-> {}, failed |-> {}, lost |-> {}]

Controls == {"idle", "to dormant", "umount dormant", "umount", "to inc",
             "truncating", "to snap", "oops"}

dev == sd.dev
cur == ep.cur

Queued(d) == IF d = NoDev THEN {} ELSE ToSet(d.queue)

Clones(d) == IF d = NoDev THEN {} ELSE d.clones

TypeOK ==
  /\ fs \in {"unmounted", "mounting", "mounted", "unmounting"}
  /\ pc \in Controls
  /\ sd \in [dev : Device \cup {NoDev}, old : Device \cup {NoDev}]
  /\ ep \in [cur : Epoch, prev : Epoch]
  /\ inflight \in SUBSET Blocks

\* A COW file that was just created (cow_init()).
NewEpoch == [NoEpoch EXCEPT !.cm = "open", !.file = "dirty"]

\* An active device with its thread not yet woken.
NewDevice(mode) ==
  [mode |-> mode, state |-> "active", fail |-> FALSE, inode |-> TRUE,
   queue |-> <<>>, clones |-> {}, lag |-> FALSE,
   thread |-> "created", seen |-> FALSE]

\* cow_free_members(): the file is unlinked if it is open.
Freed(e, cm) ==
  IF e.cm = "open" THEN [NoEpoch EXCEPT !.cm = cm] ELSE [e EXCEPT !.cm = cm]

\* The COW file is in use, or a reload will accept it.
Alive(e) == e.cm = "open" \/ e.file = "clean"

\* Nobody will record b, unless it has been recorded before.
Losing(e, b) ==
  IF Alive(e) THEN [e EXCEPT !.lost = @ \cup ({b} \ e.marks)] ELSE e

\* An error keeps b from being recorded.
Failing(e, b) ==
  IF Alive(e) THEN [e EXCEPT !.failed = @ \cup ({b} \ e.marks)] ELSE e

\* The block gets a mapping.
Recording(e, b) ==
  [e EXCEPT !.marks = @ \cup {b}, !.late = @ \ {b}, !.lost = @ \ {b},
            !.failed = @ \ {b}]

\* What is left when the driver's memory is gone.
OnDisk(e) ==
  IF e.file = "clean"
  THEN [e EXCEPT !.cm = "none", !.lost = @ \cup e.late, !.late = {}]
  ELSE [NoEpoch EXCEPT !.file = e.file]

\* A file that was closed for good; all that matters is what it lacks.
HandedOver(e) ==
  [NoEpoch EXCEPT !.file = "clean",
                  !.changed = e.changed \ (e.marks \cup e.lost),
                  !.failed = e.failed \ (e.marks \cup e.lost)]

Init ==
  /\ fs = "mounted"
  /\ pc = "idle"
  /\ sd = [dev |-> NoDev, old |-> NoDev]
  /\ ep = [cur |-> NoEpoch, prev |-> NoEpoch]
  /\ inflight = {}

-----------------------------------------------------------------------------
(* Writes.                                                                 *)

\* tracer_is_bio_for_dev() and tracer_should_trace_bio()
Traced ==
  /\ dev # NoDev
  /\ dev.state # "unverified"
  /\ ~dev.fail

\* bio_needs_cow(), and the same test in inc_trace_bio(): the pages of the COW
\* file need no tracing.  page_get_inode() of an anonymous page is NULL, and
\* so is sd_cow_inode at times.
NeedsTrace(page) ==
  /\ Traced
  /\ page = "anon" => dev.inode

\* The device can be written, and no other write of b is under way.
Arrives(b) ==
  /\ fs # "unmounted"
  /\ fs = "mounting" => MountWrites
  /\ b \notin inflight
  /\ inflight' = inflight \cup {b}

\* There is room for one more entry.
Room == Len(dev.queue) + Cardinality(dev.clones) < MaxQueue

\* The current COW file when an entry of b joins the queue.
Queueing(b) ==
  IF dev.thread \notin {"none", "leaving"} THEN cur
  ELSE [cur EXCEPT !.late = @ \cup ({b} \ cur.marks)]

\* inc_trace_bio(): the write is queued for the COW thread and passed on.
TraceInc(b, page) ==
  /\ Arrives(b)
  /\ NeedsTrace(page)
  /\ dev.mode = "inc"
  /\ Room
  /\ sd' = [sd EXCEPT !.dev.queue = Append(@, b)]
  /\ ep' = [ep EXCEPT !.cur = Queueing(b)]
  /\ UNCHANGED <<fs, pc>>

\* snap_trace_bio(): a read clone is submitted, and the write held back.
TraceSnap(b, page) ==
  /\ Arrives(b)
  /\ NeedsTrace(page)
  /\ dev.mode = "snap"
  /\ Room
  /\ sd' = [sd EXCEPT !.dev.clones = @ \cup {b}]
  /\ UNCHANGED <<fs, pc, ep>>

\* __on_bio_read_complete(): what the clone has read is queued for the COW
\* thread, and the write released, ...
CloneCompletes(b) ==
  /\ b \in Clones(dev)
  /\ sd' = [sd EXCEPT !.dev.clones = @ \ {b}, !.dev.queue = Append(@, b)]
  /\ ep' = [ep EXCEPT !.cur = Queueing(b)]
  /\ UNCHANGED <<fs, pc, inflight>>

\* ... or, after an error, the write is only released.
CloneFails(b) ==
  /\ b \in Clones(dev)
  /\ sd' = [sd EXCEPT !.dev.clones = @ \ {b}, !.dev.lag = TRUE,
                      !.dev.fail = TRUE]
  /\ ep' = [ep EXCEPT !.cur = Failing(@, b)]
  /\ UNCHANGED <<fs, pc, inflight>>

\* No memory for the entry: the device fails, the write goes ahead.
TraceWriteFails(b, page) ==
  /\ Arrives(b)
  /\ NeedsTrace(page)
  /\ sd' = [sd EXCEPT !.dev.fail = TRUE]
  /\ ep' = [ep EXCEPT !.cur = Failing(@, b)]
  /\ UNCHANGED <<fs, pc>>

\* The write goes past the tracer.
PassWrite(b, page) ==
  /\ Arrives(b)
  /\ ~NeedsTrace(page)
  /\ ep' = [ep EXCEPT !.cur = Losing(@, b)]
  /\ UNCHANGED <<fs, pc, sd>>

\* The base device carries out the write.
WriteLands(b) ==
  /\ b \in inflight \ Clones(dev)
  /\ inflight' = inflight \ {b}
  /\ ep' = IF Alive(cur) THEN [ep EXCEPT !.cur.changed = @ \cup {b}] ELSE ep
  /\ UNCHANGED <<fs, pc, sd>>

\* __try_freeze_bdev(): freezing the filesystem waits for its writes.
Frozen == inflight = {}

-----------------------------------------------------------------------------
(* inc_sset_thread() and snap_cow_thread() of a device d in {"dev", "old"}. *)

\* The COW file the thread of d writes to.
EpochOf(d) == IF d = "old" /\ pc = "to snap" THEN "prev" ELSE "cur"

Awake(d) == sd[d] # NoDev /\ sd[d].thread \in {"running", "stopping"}

\* The thread, woken up, sees the fail state for the first time.
ThreadNotices(d) ==
  /\ Awake(d)
  /\ sd[d].queue # <<>> \/ sd[d].thread = "stopping"
  /\ sd[d].fail
  /\ ~sd[d].seen
  /\ sd' = [sd EXCEPT ![d].seen = TRUE]
  /\ ep' = [ep EXCEPT ![EpochOf(d)] = Freed(@, "freed")]
  /\ UNCHANGED <<fs, pc, inflight>>

\* inc_handle_sset(), snap_handle_write_bio()
ThreadRecords(d) ==
  /\ Awake(d)
  /\ sd[d].queue # <<>>
  /\ ~sd[d].fail
  /\ sd' = [sd EXCEPT ![d].queue = Tail(@)]
  /\ ep' = [ep EXCEPT ![EpochOf(d)] = Recording(@, Head(sd[d].queue))]
  /\ UNCHANGED <<fs, pc, inflight>>

\* An error: the block may have got its mapping or not.
ThreadFails(d) ==
  /\ Awake(d)
  /\ sd[d].queue # <<>>
  /\ ~sd[d].fail
  /\ sd' = [sd EXCEPT ![d].queue = Tail(@), ![d].fail = TRUE]
  /\ LET b == Head(sd[d].queue)
     IN  \/ ep' = [ep EXCEPT ![EpochOf(d)] = Failing(@, b)]
         \/ ep' = [ep EXCEPT ![EpochOf(d)].marks = @ \cup {b}]
  /\ UNCHANGED <<fs, pc, inflight>>

\* Mutant: in the fail state an entry is put back.
ThreadRequeues(d) ==
  /\ Awake(d)
  /\ sd[d].queue # <<>>
  /\ sd[d].seen
  /\ sd' = [sd EXCEPT ![d].queue = Append(Tail(@), Head(@))]
  /\ UNCHANGED <<fs, pc, ep, inflight>>

\* In the fail state entries are only disposed of.
ThreadDrops(d) ==
  /\ Awake(d)
  /\ sd[d].queue # <<>>
  /\ sd[d].seen
  /\ sd' = [sd EXCEPT ![d].queue = Tail(@)]
  /\ UNCHANGED <<fs, pc, ep, inflight>>

\* Mutant: the thread leaves as soon as it is asked to.
ThreadLeavesAtOnce(d) ==
  /\ Awake(d)
  /\ sd[d].thread = "stopping"
  /\ sd' = [sd EXCEPT ![d].thread = IF sd[d].mode = "inc" THEN "none"
                                    ELSE "leaving"]
  /\ UNCHANGED <<fs, pc, ep, inflight>>

\* Asked to stop, with an empty queue: inc_sset_thread() is through, and
\* snap_cow_thread() has yet to compare its counters.  Neither looks at the
\* fail state again.
ThreadLeaves(d) ==
  /\ Awake(d)
  /\ sd[d].thread = "stopping"
  /\ sd[d].queue = <<>>
  /\ sd' = [sd EXCEPT ![d].thread = IF sd[d].mode = "inc" THEN "none"
                                    ELSE "leaving"]
  /\ UNCHANGED <<fs, pc, ep, inflight>>

\* A clone that completes while the thread is leaving puts its entry into the
\* queue the thread has looked at, and may make the counters agree or differ:
\* they are read one after the other.
CountersMayAgree(d) == sd[d].queue # <<>> \/ (sd[d].clones = {} /\ ~sd[d].lag)

CountersMayDiffer(d) == sd[d].queue # <<>> \/ sd[d].clones # {} \/ sd[d].lag

\* The end of the condition of snap_cow_thread()'s loop.
ThreadCompares(d) ==
  /\ sd[d] # NoDev
  /\ sd[d].thread = "leaving"
  /\ \/ /\ CountersMayAgree(d) \/ sd[d].seen
        /\ sd' = [sd EXCEPT ![d].thread = "none"]
     \/ /\ CountersMayDiffer(d) /\ ~sd[d].seen
        /\ sd' = [sd EXCEPT ![d].thread = "stopping"]
  /\ UNCHANGED <<fs, pc, ep, inflight>>

-----------------------------------------------------------------------------
(* ioctls.                                                                 *)

\* __ioctl_setup() and tracer_setup_active_snap(): tracing starts, and with it
\* the snapshot, while the filesystem is frozen.
SetupSnap ==
  /\ pc = "idle"
  /\ dev = NoDev
  /\ fs = "mounted"
  /\ Frozen
  /\ sd' = [sd EXCEPT !.dev = [NewDevice("snap") EXCEPT !.thread = "running"]]
  /\ ep' = [cur |-> NewEpoch, prev |-> NoEpoch]
  /\ UNCHANGED <<fs, pc, inflight>>

\* A device that waits for its filesystem, with nothing opened.
Unverified(mode) ==
  [NewDevice(mode) EXCEPT !.state = "unverified",
                          !.inode = FALSE, !.thread = "none"]

\* __ioctl_setup() for a reload
Reload(mode) ==
  /\ pc = "idle"
  /\ dev = NoDev
  /\ fs = "unmounted"
  /\ sd' = [sd EXCEPT !.dev = Unverified(mode)]
  /\ UNCHANGED <<fs, pc, ep, inflight>>

Active(mode) ==
  /\ dev # NoDev
  /\ dev.mode = mode
  /\ dev.state = "active"
  /\ ~dev.fail

\* The new device takes the place of the old one while the filesystem is
\* frozen; the old COW thread is asked to stop, the new one sleeps.
Replace(mode) ==
  /\ pc = "idle"
  /\ fs = "mounted"
  /\ Frozen
  /\ sd' = [dev |-> NewDevice(mode), old |-> [dev EXCEPT !.thread = "stopping"]]
  /\ UNCHANGED <<fs, inflight>>

\* tracer_active_snap_to_inc() ...
SnapToInc ==
  /\ Active("snap")
  /\ Replace("inc")
  /\ pc' = "to inc"
  /\ UNCHANGED ep

\* Mutant: the new thread is woken while the old one drains its queue.
WakeIncEarly ==
  /\ pc = "to inc"
  /\ sd.old # NoDev
  /\ sd' = [sd EXCEPT !.dev.thread = "running"]
  /\ pc' = IF sd.old.thread = "none" THEN "truncating" ELSE "to inc"
  /\ UNCHANGED <<fs, ep, inflight>>

\* Mutant: the new thread is not woken.
WakeIncSleeps ==
  /\ pc = "to inc"
  /\ sd.old.thread = "none"
  /\ sd' = [dev |-> [dev EXCEPT !.fail = @ \/ sd.old.fail], old |-> NoDev]
  /\ pc' = IF sd.old.fail THEN "idle" ELSE "truncating"
  /\ UNCHANGED <<fs, ep, inflight>>

\* ... the old thread is gone: if it failed the new device fails, too.
WakeInc ==
  /\ pc = "to inc"
  /\ sd.old.thread = "none"
  /\ sd' = [dev |-> [dev EXCEPT !.thread = "running",
                                !.fail = @ \/ sd.old.fail],
            old |-> NoDev]
  /\ pc' = IF sd.old.fail THEN "idle" ELSE "truncating"
  /\ UNCHANGED <<fs, ep, inflight>>

\* ... cow_truncate_to_index(), beside the new thread; without the file it
\* dereferences a null pointer.
Truncate ==
  /\ pc = "truncating"
  /\ IF cur.cm = "freed"
     THEN pc' = "oops" /\ UNCHANGED ep
     ELSE pc' = "idle" /\ ep' = [ep EXCEPT !.cur.index_only = TRUE]
  /\ UNCHANGED <<fs, sd, inflight>>

\* Mutant: the filesystem is not frozen.
IncToSnapUnfrozen ==
  /\ Active("inc")
  /\ pc = "idle"
  /\ fs = "mounted"
  /\ sd' = [dev |-> NewDevice("snap"), old |-> [dev EXCEPT !.thread = "stopping"]]
  /\ pc' = "to snap"
  /\ ep' = [cur |-> NewEpoch, prev |-> cur]
  /\ UNCHANGED <<fs, inflight>>

\* tracer_active_inc_to_snap(): a new snapshot with a new COW file ...
IncToSnap ==
  /\ Active("inc")
  /\ Replace("snap")
  /\ pc' = "to snap"
  /\ ep' = [cur |-> NewEpoch, prev |-> cur]

\* ... the old thread is gone: the new one is woken and the old file closed,
\* cow_sync_and_free().
WakeSnap ==
  /\ pc = "to snap"
  /\ sd.old.thread = "none"
  /\ sd' = [dev |-> [dev EXCEPT !.thread = "running"], old |-> NoDev]
  /\ IF ep.prev.cm = "freed"
     THEN pc' = "oops" /\ UNCHANGED ep
     ELSE /\ pc' = "idle"
          /\ \/ ep' = [ep EXCEPT !.prev = HandedOver(@)]
             \/ ep' = [ep EXCEPT !.prev = NoEpoch]
  /\ UNCHANGED <<fs, inflight>>

\* Mutant: the device is freed but stays in the array.
DestroyDangles ==
  /\ pc = "idle"
  /\ dev # NoDev
  /\ sd' = [sd EXCEPT !.dev.thread = "freed"]
  /\ ep' = [ep EXCEPT !.cur = OnDisk(Freed(@, "none"))]
  /\ UNCHANGED <<fs, pc, inflight>>

\* tracer_destroy().  Clones are waited for.  A COW thread takes what is queued
\* for a dormant device, whose file is closed: that is lost, as are the clones.
Destroy ==
  /\ pc = "idle"
  /\ dev # NoDev
  /\ sd' = [sd EXCEPT !.dev = NoDev]
  /\ LET e == [cur EXCEPT !.late = @ \cup (dev.clones \ cur.marks)]
     IN  ep' = [ep EXCEPT !.cur = OnDisk(Freed(e, "none"))]
  /\ UNCHANGED <<fs, pc, inflight>>

-----------------------------------------------------------------------------
(* The mount and umount hooks and what they call.                          *)

\* cow_reload() and cow_reopen() accept the header.
Accepted(e, mode) ==
  /\ e.file = "clean"
  /\ e.index_only = (mode = "inc")

\* __tracer_dormant_to_active(), also called for a device in the fail state:
\* the device and the COW file afterwards.
DormantToActive(d, e) ==
  LET opened == [e EXCEPT !.cm = "open", !.file = "dirty"]
      failed == [d EXCEPT !.fail = TRUE]
  IN  {<<failed, e>>} \cup
      IF e.cm # "closed" \/ ~Accepted(e, d.mode) THEN {}
      ELSE {<<[d EXCEPT !.state = "active", !.inode = TRUE,
                        !.thread = "running", !.seen = FALSE], opened>>}
           \cup {<<[failed EXCEPT !.inode = i], opened>> : i \in BOOLEAN}

\* __tracer_unverified_snap_to_active() and __tracer_unverified_inc_to_active():
\* a failure leaves the file as it was, dirty or unlinked.
UnverifiedToActive(d, e) ==
  LET failed == [d EXCEPT !.fail = TRUE]
  IN  {<<failed, e>>} \cup
      IF ~Accepted(e, d.mode) THEN {}
      ELSE {<<failed, [e EXCEPT !.file = "dirty"]>>, <<failed, NoEpoch>>}
           \cup IF ~Frozen THEN {}
                ELSE {<<[NewDevice(d.mode) EXCEPT !.thread = "running"],
                        [e EXCEPT !.cm = "open", !.file = "dirty"]>>}

\* A mount begins.
MountStarts ==
  /\ pc = "idle"
  /\ fs = "unmounted"
  /\ fs' = "mounting"
  /\ UNCHANGED <<pc, sd, ep, inflight>>

\* handle_bdev_mount_event(): the device is passed over if it is active or
\* failed, and if the hook could not be set up.
MountUnnoticed ==
  /\ fs = "mounting"
  /\ fs' = "mounted"
  /\ UNCHANGED <<pc, sd, ep, inflight>>

\* __handle_bdev_mount_writable()
MountActivates ==
  /\ pc = "idle"
  /\ fs = "mounting"
  /\ dev # NoDev
  /\ dev.state # "active"
  /\ ~dev.fail
  /\ fs' = "mounted"
  /\ \E r \in IF dev.state = "dormant" THEN DormantToActive(dev, cur)
               ELSE UnverifiedToActive(dev, cur) :
       /\ sd' = [sd EXCEPT !.dev = r[1]]
       /\ ep' = [ep EXCEPT !.cur = r[2]]
  /\ UNCHANGED <<pc, inflight>>

\* __handle_bdev_mount_nowrite(), before the umount (or the remount read-only):
\* __tracer_active_to_dormant() stops the COW thread ...
UmountStarts ==
  /\ pc = "idle"
  /\ fs = "mounted"
  /\ fs' = "unmounting"
  /\ IF dev # NoDev /\ dev.state = "active" /\ ~dev.fail
     THEN /\ pc' = "to dormant"
          /\ sd' = [sd EXCEPT !.dev.thread = "stopping"]
     ELSE /\ pc' = "umount"
          /\ UNCHANGED sd
  /\ UNCHANGED <<ep, inflight>>

\* ... and closes the COW file, cow_sync_and_close().  An error there unlinks
\* the file and leaves the device active.
CloseForDormant ==
  /\ pc = "to dormant"
  /\ dev.thread = "none"
  /\ IF cur.cm = "freed"
     THEN pc' = "oops" /\ UNCHANGED <<sd, ep>>
     ELSE /\ pc' = "umount dormant"
          /\ \/ /\ sd' = [sd EXCEPT !.dev.inode = FALSE, !.dev.state = "dormant"]
                /\ ep' = [ep EXCEPT !.cur.cm = "closed", !.cur.file = "clean"]
             \/ /\ sd' = [sd EXCEPT !.dev.inode = FALSE, !.dev.fail = TRUE]
                /\ ep' = [ep EXCEPT !.cur = Freed(@, "freed")]
  /\ UNCHANGED <<fs, inflight>>

\* The umount succeeds; it cannot while the COW file is open.
UmountSucceeds ==
  /\ pc \in {"umount", "umount dormant"}
  /\ cur.cm # "open"
  /\ inflight = {}
  /\ fs' = "unmounted"
  /\ pc' = "idle"
  /\ UNCHANGED <<sd, ep, inflight>>

\* The umount fails, with nothing done before it.
UmountFails ==
  /\ pc = "umount"
  /\ fs' = "mounted"
  /\ pc' = "idle"
  /\ UNCHANGED <<sd, ep, inflight>>

\* post_umount_check(): the umount failed and the device is activated again,
\* or it cannot be found any more; or the umount succeeded and the device is
\* still mounted elsewhere.
UmountUndone ==
  /\ pc = "umount dormant"
  /\ fs' = "mounted"
  /\ pc' = "idle"
  /\ \/ \E r \in DormantToActive(dev, cur) :
          /\ sd' = [sd EXCEPT !.dev = r[1]]
          /\ ep' = [ep EXCEPT !.cur = r[2]]
     \/ /\ sd' = [sd EXCEPT !.dev.fail = TRUE]
        /\ UNCHANGED ep
  /\ UNCHANGED inflight

\* The machine goes down: what was only in memory is lost.
Crash ==
  /\ fs' = "unmounted"
  /\ pc' = "idle"
  /\ sd' = [dev |-> NoDev, old |-> NoDev]
  /\ ep' = [cur |-> OnDisk(cur), prev |-> OnDisk(ep.prev)]
  /\ inflight' = {}

-----------------------------------------------------------------------------

Writer ==
  \E b \in Blocks :
    \/ \E page \in Pages :
         \/ TraceInc(b, page) \/ TraceSnap(b, page)
         \/ TraceWriteFails(b, page) \/ PassWrite(b, page)
    \/ CloneCompletes(b) \/ CloneFails(b)
    \/ WriteLands(b)

Thread(d) ==
  \/ ThreadNotices(d)
  \/ ThreadRecords(d)
  \/ ThreadFails(d)
  \/ ThreadDrops(d)
  \/ ThreadLeaves(d)
  \/ ThreadCompares(d)

\* The user, with ioctls and with mount and umount.
User ==
  \/ SetupSnap
  \/ \E mode \in {"snap", "inc"} : Reload(mode)
  \/ SnapToInc
  \/ IncToSnap
  \/ Destroy
  \/ MountStarts
  \/ UmountStarts

\* The rest of a system call the user has made.
Kernel ==
  \/ WakeInc
  \/ Truncate
  \/ WakeSnap
  \/ MountUnnoticed
  \/ MountActivates
  \/ CloseForDormant
  \/ UmountSucceeds
  \/ UmountFails
  \/ UmountUndone

Next ==
  \/ Writer
  \/ \E d \in {"dev", "old"} : Thread(d)
  \/ User
  \/ Kernel
  \/ Crash

Spec == Init /\ [][Next]_vars

\* The COW threads, the base device and a system call under way get on; the
\* base device carries out the read clones, too.
Fairness ==
  /\ \A d \in {"dev", "old"} : WF_vars(Thread(d))
  /\ \A b \in Blocks : WF_vars(WriteLands(b))
  /\ \A b \in Blocks : WF_vars(CloneCompletes(b) \/ CloneFails(b))
  /\ WF_vars(Kernel)

FairSpec == Spec /\ Fairness

-----------------------------------------------------------------------------
(* Properties.                                                             *)

\* The device is meant to know every change of its block device.
Tracking == Traced /\ (pc = "to inc" => ~sd.old.fail)

\* Where a change is recorded, or waits to be.
Recorded ==
  cur.marks \cup Queued(dev)
    \cup (IF pc = "to inc" THEN Queued(sd.old) ELSE {})

\* Across both mode transitions, umounts that succeed or fail, and remounts,
\* with writes and errors at any time, every change since the snapshot is
\* recorded in the COW file or queued for it, as long as the device has not
\* failed.  Only what went past the tracer, what was in memory when the machine
\* went down, and what could not be recorded before a reload is missing.
ChangesTracked ==
  Tracking => cur.changed \subseteq Recorded \cup cur.lost \cup cur.failed

\* A COW file that a reload will accept has every change up to the umount:
\* the queue was drained before the file was closed, it is not clean while it
\* is in use, and not after any other end of the driver.  It lacks no more than
\* what joined the queue after the thread's last look at it (a write, or a read
\* clone that completed, between this look and the umount) and a last entry
\* that failed.
CleanFileComplete ==
  cur.file = "clean" =>
    cur.changed \subseteq cur.marks \cup cur.late \cup cur.lost \cup cur.failed

\* The COW file the incremental leaves to update-img has every change between
\* its snapshot and the one that follows it, but those it failed to record: no
\* write falls between the two snapshots.
HandedOverComplete == ep.prev.file = "clean" => ep.prev.changed \subseteq ep.prev.failed

\* It has every change, whatever fails: step 6 of src/README.md, and the
\* "ensures no writes are missed" of doc/moo.8.md.  This does not hold, since the
\* fail state is not looked at before the file is synced (tracer.c:2248).
HandedOverListsAll == ep.prev.file = "clean" => ep.prev.changed = {}

\* The COW manager is never used by two threads: the snapshot's thread is gone
\* when the incremental's, which inherits the manager, is woken.
OneThreadPerManager ==
  Awake("dev") /\ Awake("old") => EpochOf("old") = "prev"

\* What is queued for an active device is recorded, unless the device fails
\* or is gone: the queue survives umount and remount, and the incremental's
\* thread is woken after the transition.
QueuedIsRecorded ==
  \A b \in Blocks :
    (b \in Queued(dev) /\ dev.state = "active" /\ pc # "to dormant") ~>
      \/ b \in cur.marks \cup ep.prev.marks
      \/ dev = NoDev \/ dev.fail \/ (sd.old # NoDev /\ sd.old.fail)

\* A mode transition ends, also when the old COW thread fails while it drains
\* its queue.
TransitionsEnd == pc \in {"to inc", "to snap"} ~> pc \notin {"to inc", "to snap"}

\* Every single write to a device that is tracked is captured, if no error has
\* kept one from it.
EveryWriteCaptured ==
  Tracking /\ cur.failed = {} => cur.changed \subseteq Recorded

-----------------------------------------------------------------------------
(* The inductive invariants behind these properties.                       *)

\* How the halves of the system calls, the devices and the threads fit.
ControlInv ==
  /\ sd.old # NoDev <=> pc \in {"to inc", "to snap"}
  /\ sd.old # NoDev =>
       /\ dev # NoDev
       /\ dev.thread = "created"
       /\ sd.old.thread \in {"stopping", "leaving", "none"}
       /\ sd.old.thread # "stopping" => sd.old.queue = <<>>
       /\ sd.old.clones = {}
  /\ dev # NoDev => dev.clones \subseteq inflight
  /\ pc \in {"to dormant", "umount dormant", "truncating"} => dev # NoDev
  /\ pc \in {"to dormant", "to inc", "to snap", "truncating"} =>
       dev.state = "active"
  /\ pc = "umount dormant" => dev.state # "unverified"
  /\ fs = "mounting" => pc = "idle"

\* The manager of a device that has not failed is open while it is active and
\* closed while it is dormant.
ManagerInv ==
  /\ cur.cm = "open" => cur.file = "dirty"
  /\ cur.cm = "closed" => cur.file = "clean"
  /\ dev # NoDev /\ dev.seen => dev.fail /\ cur.cm = "freed"
  /\ sd.old # NoDev /\ sd.old.seen =>
       sd.old.fail /\ ep[EpochOf("old")].cm = "freed"
  /\ Tracking => cur.cm = IF dev.state = "active" THEN "open" ELSE "closed"
  /\ dev # NoDev /\ dev.state = "active" =>
       cur.cm \in {"open", "freed"} /\ cur.file # "clean"
  /\ dev # NoDev /\ dev.state # "active" => dev.thread = "none"
  /\ dev # NoDev /\ dev.state = "unverified" => dev.queue = <<>> /\ dev.clones = {}
  /\ dev = NoDev \/ dev.state = "unverified" => cur.cm = "none"
  /\ pc = "to snap" =>
       ep.prev.file # "clean" /\ (~sd.old.seen => ep.prev.cm = "open")

\* Where every change, or write under way, is to be found.
ChangesInv ==
  /\ cur.cm \in {"open", "closed"} =>
       /\ cur.changed \subseteq Recorded \cup cur.lost \cup cur.failed
       /\ inflight \subseteq Recorded \cup cur.lost \cup cur.failed \cup Clones(dev)
       /\ cur.late \subseteq Recorded \cup cur.failed
       /\ dev.thread \in {"none", "leaving"} =>
            Queued(dev) \subseteq cur.late \cup cur.marks
  /\ dev = NoDev \/ dev.state = "unverified" => cur.late = {}
  /\ cur.file = "clean" =>
       /\ cur.changed \subseteq cur.marks \cup cur.late \cup cur.lost \cup cur.failed
       /\ inflight \subseteq cur.marks \cup cur.late \cup cur.lost \cup cur.failed
                               \cup Clones(dev)
  /\ IF pc = "to snap"
     THEN ep.prev.cm = "open" =>
            ep.prev.changed \subseteq ep.prev.marks \cup Queued(sd.old)
                                        \cup ep.prev.lost \cup ep.prev.failed
     ELSE ep.prev.file = "clean" => ep.prev.changed \subseteq ep.prev.failed
=============================================================================
