------------------------------ MODULE Devices -------------------------------
(***************************************************************************)
(* The array of snap devices and everybody who uses it at the same time:   *)
(* ioctls, the hooks around mount and umount, readers of                   *)
(* /proc/moocbt-info, openers of the snapshot disks, bios that walk the    *)
(* array without a lock, and the end of the module.                        *)
(*                                                                         *)
(* An ioctl takes ioctl_mutex and then snap_device_lock; a hook takes      *)
(* snap_device_lock and, when it has a device to change, ioctl_mutex; a    *)
(* reader of /proc holds ioctl_mutex from open to release and takes        *)
(* snap_device_lock for each read.  Between two steps of a handler the     *)
(* others see what it has done so far: the minor range, the array, the     *)
(* disk.  What a device records is in Tracking; here it is an object that  *)
(* is allocated, published, replaced and freed.                            *)
(***************************************************************************)
EXTENDS Naturals, FiniteSets, FiniteSetsExt

CONSTANTS
  MaxDevices,  \* moocbt_max_snap_devices
  Bdevs,       \* block devices
  Places,      \* places where a block device can be mounted
  Objs,        \* every snap_device that is ever allocated: bounds a behaviour
  Actors,      \* tasks
  Ops,         \* what the tasks do
  MaxOpen,     \* bound on sd_refs
  Walks,       \* TRUE: a bio walks the array
  None

Minors == 0 .. MaxDevices - 1

IoctlOps == {"setup", "reload_snap", "reload_inc", "destroy", "to_inc",
             "to_snap", "query"}

OtherOps == {"mount", "umount", "proc", "exit"}

ASSUME DevicesAssumption ==
  /\ MaxDevices \in Nat \ {0}
  /\ None \notin Objs \cup Actors \cup Bdevs \cup Places \cup IoctlOps \cup OtherOps
  /\ Ops \subseteq IoctlOps \cup OtherOps
  /\ MaxOpen \in Nat
  /\ Walks \in BOOLEAN

VARIABLES
  array,    \* snap_devices
  range,    \* lowest_minor and highest_minor
  obj,      \* the snap_device structs
  mnts,     \* the places where each block device is mounted writable
  mutex,    \* the owner of ioctl_mutex
  lock,     \* the owner of snap_device_lock
  actor,    \* what each task is doing
  walk,     \* the bio that walks the array
  unfrozen, \* the minors whose device could not be frozen to be destroyed
  loaded    \* the module is loaded

vars == <<array, range, obj, mnts, mutex, lock, actor, walk, unfrozen, loaded>>

NoObj ==
  [st |-> "none", bdev |-> None, place |-> None, snap |-> FALSE,
   active |-> FALSE, unver |-> FALSE, fail |-> FALSE, disk |-> FALSE,
   threads |-> 0, early |-> 0, late |-> 0]

Idle ==
  [pc |-> "idle", op |-> None, minor |-> 0, bdev |-> None, place |-> None,
   new |-> None, old |-> None, res |-> TRUE, pos |-> 0, shown |-> {},
   footers |-> 0]

NoWalk == [st |-> "off", i |-> 0, d |-> None, met |-> {}, stay |-> {}]

\* struct snap_device, as far as the array is concerned.  early and late split
\* sd_refs into the opens that came before a task had taken the object into
\* its hands to replace or destroy it, and those that came after.  threads is
\* 1 while sd_cow_thread runs and 2 once it was overwritten while it ran: that
\* thread can no longer be stopped.
ObjType ==
  [st : {"none", "live", "freed"}, bdev : Bdevs \cup {None},
   place : Places \cup {None}, snap : BOOLEAN, active : BOOLEAN,
   unver : BOOLEAN, fail : BOOLEAN, disk : BOOLEAN, threads : 0 .. 2,
   early : 0 .. MaxOpen, late : 0 .. MaxOpen]

PCs == {"idle", "ioctl", "body", "disk", "include", "publish", "undo",
        "untrace", "recalc", "base", "free", "out", "pre", "premutex", "call",
        "post", "postmutex", "postuse", "mounted", "mountmutex", "procopen",
        "procwait", "procread", "leaked", "dead", "next", "gone"}

ActorType ==
  [pc : PCs, op : Ops \cup {None}, minor : 0 .. MaxDevices,
   bdev : Bdevs \cup {None}, place : Places \cup {None},
   new : Objs \cup {None}, old : Objs \cup {None}, res : BOOLEAN,
   pos : 0 .. MaxDevices + 1, shown : SUBSET Minors, footers : 0 .. MaxDevices]

TypeOK ==
  /\ array \in [Minors -> Objs \cup {None}]
  /\ range \in [lowest : Minors, highest : Minors]
  /\ obj \in [Objs -> ObjType]
  /\ mnts \in [Bdevs -> SUBSET Places]
  /\ mutex \in Actors \cup {None}
  /\ lock \in Actors \cup {None}
  /\ actor \in [Actors -> ActorType]
  /\ walk \in [st : {"off", "on", "done"}, i : 0 .. MaxDevices,
               d : Objs \cup {None}, met : SUBSET Minors, stay : SUBSET Minors]
  /\ unfrozen \subseteq Minors
  /\ loaded \in BOOLEAN

\* calc_max_snap_devices_and_init_minor_range(), init_snap_device_array()
Init ==
  /\ array = [m \in Minors |-> None]
  /\ range = [lowest |-> MaxDevices - 1, highest |-> 0]
  /\ obj = [o \in Objs |-> NoObj]
  /\ mnts = [b \in Bdevs |-> {}]
  /\ mutex = None
  /\ lock = None
  /\ actor = [a \in Actors |-> Idle]
  /\ walk = NoWalk
  /\ unfrozen = {}
  /\ loaded = TRUE

-----------------------------------------------------------------------------
(* Helpers.                                                                *)

\* Mutant: highest_minor is one past the last device.
RecalculatedPast(arr) ==
  LET used == {m \in Minors : arr[m] # None}
  IN [lowest  |-> IF used = {} THEN MaxDevices - 1 ELSE Min(used),
      highest |-> IF used = {} THEN 0 ELSE Max(used) + 1]

\* minor_range_recalculate()
Recalculated(arr) ==
  LET used == {m \in Minors : arr[m] # None}
  IN [lowest  |-> IF used = {} THEN MaxDevices - 1 ELSE Min(used),
      highest |-> IF used = {} THEN 0 ELSE Max(used)]

\* minor_range_include()
Included(m) ==
  [lowest  |-> IF m < range.lowest THEN m ELSE range.lowest,
   highest |-> IF m > range.highest THEN m ELSE range.highest]

\* The entries tracer_for_each() visits when nothing changes under it.
InRange(m) == range.lowest <= m /\ m <= range.highest

\* Mutant: the devices that are unverified are looked at, not the others.
AlreadyTracedUnverified(b) ==
  \E m \in Minors :
    InRange(m) /\ array[m] # None /\ obj[array[m]].unver /\ obj[array[m]].bdev = b

\* bdev_is_already_traced()
AlreadyTraced(b) ==
  \E m \in Minors :
    /\ InRange(m) /\ array[m] # None
    /\ ~obj[array[m]].unver
    /\ obj[array[m]].bdev = b

\* __tracer_setup_base_dev(): each device opens its block device for itself
SetupBaseDev(b) == ~AlreadyTraced(b)

\* file_is_on_bdev()
FileIsOnBdev(p, b) == p \in mnts[b]

\* A task works on the object and will put it in place, replace it or free it.
InHands(o) == \E a \in Actors : actor[a].pc # "idle" /\ o \in {actor[a].new, actor[a].old}

\* An entry of the array changes: a walk that is under way no longer has to
\* meet what was there.
SetEntry(m, o) ==
  /\ array' = [array EXCEPT ![m] = o]
  /\ walk' = [walk EXCEPT !.stay = @ \ {m}]

Goto(a, l) == actor' = [actor EXCEPT ![a].pc = l]
Finish(a) == actor' = [actor EXCEPT ![a] = Idle]

\* __tracer_setup_cow_thread() and __tracer_destroy_cow_thread()
ThreadStarted(t) == IF t = 0 THEN 1 ELSE 2
ThreadStopped(t) == IF t = 2 THEN 2 ELSE 0

\* What is left of a device that has been torn down: the opens of its disk.
Torn(o) == [NoObj EXCEPT !.st = "freed", !.early = obj[o].early, !.late = obj[o].late]

\* An entry of the array points to memory that has been given back: whatever
\* uses the array now is undefined, and the model ends here.
Dangling == \E m \in Minors : array[m] # None /\ obj[array[m]].st = "freed"

-----------------------------------------------------------------------------
(* Ioctls: ctrl_ioctl() and its handlers.                                  *)

\* The parameters ctrl_ioctl() copies from user space: get_setup_params(),
\* get_reload_params(), get_destroy_params(), get_transition_snap_params(), ...
Requests ==
  {q \in [op : Ops \cap IoctlOps, minor : Minors, bdev : Bdevs \cup {None},
          place : Places \cup {None}] :
     /\ (q.bdev # None) = (q.op \in {"setup", "reload_snap", "reload_inc"})
     /\ (q.place # None) = (q.op \in {"setup", "reload_snap", "reload_inc", "to_snap"})
     /\ q.op = "query" => q.minor = 0}

\* ctrl_ioctl() up to the handler: ioctl_mutex is taken first
IoctlEnter(a) ==
  /\ loaded /\ actor[a].pc = "idle" /\ mutex = None
  /\ mutex' = a
  /\ \E q \in Requests :
       actor' = [actor EXCEPT ![a] =
                   [Idle EXCEPT !.pc = "ioctl", !.op = q.op, !.minor = q.minor,
                                !.bdev = q.bdev, !.place = q.place]]
  /\ UNCHANGED <<array, range, obj, mnts, lock, walk, unfrozen, loaded>>

\* get_snap_device_array(), get_snap_device_array_mut()
IoctlLock(a) ==
  /\ actor[a].pc = "ioctl" /\ lock = None
  /\ lock' = a
  /\ Goto(a, "body")
  /\ UNCHANGED <<array, range, obj, mnts, mutex, walk, unfrozen, loaded>>

\* Mutant: ioctl_mutex is not given back.
LeaveWithMutex(a) ==
  /\ actor[a].pc = "out"
  /\ lock' = None
  /\ Finish(a)
  /\ UNCHANGED <<array, range, obj, mnts, mutex, walk, unfrozen, loaded>>

\* put_snap_device_array() and the end of ctrl_ioctl() or of a hook
Leave(a) ==
  /\ actor[a].pc = "out"
  /\ lock' = None /\ mutex' = None
  /\ Finish(a)
  /\ UNCHANGED <<array, range, obj, mnts, walk, unfrozen, loaded>>

\* Mutant: sd_refs is not looked at.
VerifyInUse(m) == array[m] # None

\* verify_minor_available(), verify_minor_in_use_not_busy()
VerifyAvailable(m) == array[m] = None
VerifyNotBusy(m) ==
  array[m] # None /\ obj[array[m]].early + obj[array[m]].late = 0

Refuse(a) ==
  /\ Goto(a, "out")
  /\ UNCHANGED <<array, range, obj, mnts, mutex, lock, walk, unfrozen, loaded>>

\* tracer_alloc() and the fields of the new device; old is the device it will
\* replace
Allocate(a, rec, old, next) ==
  \E o \in Objs :
    /\ obj[o].st = "none"
    /\ obj' = [obj EXCEPT ![o] = rec]
    /\ actor' = [actor EXCEPT ![a].new = o, ![a].old = old, ![a].pc = next]
    /\ UNCHANGED <<array, range, mnts, mutex, lock, walk, unfrozen, loaded>>

\* __ioctl_setup() of a mounted device: tracer_setup_active_snap() as far as
\* the COW file, which must be on the block device; every step may fail
SetupActive(a) ==
  LET r == actor[a]
      ok == /\ VerifyAvailable(r.minor)
            /\ mnts[r.bdev] # {}
            /\ SetupBaseDev(r.bdev)
            /\ FileIsOnBdev(r.place, r.bdev)
  IN /\ r.pc = "body" /\ r.op = "setup"
     /\ \/ /\ ok
           /\ Allocate(a, [NoObj EXCEPT !.st = "live", !.bdev = r.bdev,
                             !.place = r.place, !.snap = TRUE, !.active = TRUE],
                       None, "disk")
        \/ Refuse(a)

\* __ioctl_setup() of an unmounted device: __tracer_setup_unverified()
SetupUnverified(a) ==
  LET r == actor[a]
      ok == VerifyAvailable(r.minor) /\ mnts[r.bdev] = {}
  IN /\ r.pc = "body" /\ r.op \in {"reload_snap", "reload_inc"}
     /\ \/ /\ ok
           /\ Allocate(a, [NoObj EXCEPT !.st = "live", !.bdev = r.bdev,
                             !.place = r.place, !.snap = (r.op = "reload_snap"),
                             !.unver = TRUE],
                       None, "include")
        \/ Refuse(a)

\* ioctl_destroy()
Destroy(a) ==
  LET r == actor[a]
  IN /\ r.pc = "body" /\ r.op = "destroy"
     /\ \/ /\ VerifyNotBusy(r.minor)
           /\ actor' = [actor EXCEPT ![a].pc = "untrace", ![a].old = array[r.minor]]
           /\ UNCHANGED <<array, range, obj, mnts, mutex, lock, walk, unfrozen, loaded>>
        \/ ~VerifyNotBusy(r.minor) /\ Refuse(a)

\* ioctl_transition_inc(), ioctl_transition_snap(): the new device takes the
\* base device of the old one; a snapshot brings up a disk of its own
Transition(a) ==
  LET r == actor[a]
      d == obj[array[r.minor]]
      ok == /\ VerifyNotBusy(r.minor)
            /\ ~d.fail /\ d.active
            /\ d.snap = (r.op = "to_inc")
            /\ r.op = "to_snap" => FileIsOnBdev(r.place, d.bdev)
  IN /\ r.pc = "body" /\ r.op \in {"to_inc", "to_snap"}
     /\ \/ /\ ok
           /\ Allocate(a, [NoObj EXCEPT !.st = "live", !.bdev = d.bdev,
                             !.place = IF r.op = "to_inc" THEN d.place ELSE r.place,
                             !.snap = (r.op = "to_snap"), !.active = TRUE],
                       array[r.minor], IF r.op = "to_snap" THEN "disk" ELSE "include")
        \/ Refuse(a)

\* ioctl_reconfigure(), ioctl_moocbt_info(), get_free_minor(): nothing of the
\* array changes
Query(a) ==
  /\ actor[a].pc = "body" /\ actor[a].op = "query"
  /\ Refuse(a)

-----------------------------------------------------------------------------
(* The steps of a set-up, a replacement and a teardown that others can see. *)

\* __tracer_setup_snap(): add_disk() makes the disk visible to openers.  The
\* COW file has been opened before, and the COW thread comes after.
AddDisk(a) ==
  LET o == actor[a].new
  IN /\ actor[a].pc = "disk"
     /\ \/ /\ obj' = [obj EXCEPT ![o].disk = TRUE]
           /\ Goto(a, "include")
        \/ /\ Goto(a, "undo") /\ UNCHANGED obj
     /\ UNCHANGED <<array, range, mnts, mutex, lock, walk, unfrozen, loaded>>

\* __tracer_setup_cow_thread(), then minor_range_include() in
\* __tracer_setup_tracing() or __tracer_setup_tracing_unverified()
Include(a) ==
  LET o == actor[a].new
  IN /\ actor[a].pc = "include"
     /\ \/ /\ range' = Included(actor[a].minor)
           /\ obj' = [obj EXCEPT ![o].threads = IF obj[o].unver THEN 0 ELSE 1]
           /\ Goto(a, "publish")
        \/ /\ ~obj[o].unver
           /\ Goto(a, "undo") /\ UNCHANGED <<range, obj>>
     /\ UNCHANGED <<array, mnts, mutex, lock, walk, unfrozen, loaded>>

\* __tracer_transition_tracing(start): the block device must be mounted and is
\* frozen, else the range is recalculated and everything undone; an unverified
\* device is put into the array as it is
Publish(a) ==
  LET r == actor[a]
  IN /\ r.pc = "publish"
     /\ \/ /\ obj[r.new].unver \/ mnts[obj[r.new].bdev] # {}
           /\ SetEntry(r.minor, r.new)
           /\ Goto(a, IF r.old # None THEN "free" ELSE "out")
           /\ UNCHANGED range
        \/ /\ ~obj[r.new].unver
           /\ range' = Recalculated(array)
           /\ Goto(a, "undo")
           /\ UNCHANGED <<array, walk>>
     /\ UNCHANGED <<obj, mnts, mutex, lock, unfrozen, loaded>>

\* The error paths: tracer_destroy() of a device that is not in the array.  A
\* transition keeps the old device.  A device that was unverified becomes so
\* again, with the fail state, unless its paths cannot be copied: then it is
\* in no array and never freed.
Undo(a) ==
  LET r == actor[a]
  IN /\ r.pc = "undo"
     /\ range' = IF r.old = None THEN Recalculated(array) ELSE range
     /\ \/ /\ r.op \in {"mount", "umount"}
           /\ obj' = [obj EXCEPT ![r.new] =
                        [@ EXCEPT !.active = FALSE, !.unver = TRUE,
                                  !.fail = TRUE, !.disk = FALSE, !.threads = 0]]
           /\ Goto(a, "include")
        \/ /\ obj' = [obj EXCEPT ![r.new] = Torn(r.new)]
           /\ Goto(a, "out")
     /\ UNCHANGED <<array, mnts, mutex, lock, walk, unfrozen, loaded>>

\* Mutant: the entry of an unverified device is not cleared.
UntraceForgets(a) ==
  LET r == actor[a]
  IN /\ r.pc = "untrace"
     /\ IF obj[r.old].unver THEN UNCHANGED <<array, walk>> ELSE SetEntry(r.minor, None)
     /\ Goto(a, "recalc")
     /\ UNCHANGED <<range, obj, mnts, mutex, lock, unfrozen, loaded>>

\* __tracer_destroy_tracing(): the block device is frozen if it is mounted; if
\* that fails on a device without an error the device stays in the array
Untrace(a) ==
  LET r == actor[a]
      d == obj[r.old]
  IN /\ r.pc = "untrace"
     /\ \/ SetEntry(r.minor, None) /\ UNCHANGED unfrozen
        \/ /\ ~d.unver /\ ~d.fail /\ mnts[d.bdev] # {}
           /\ unfrozen' = unfrozen \cup {r.minor}
           /\ UNCHANGED <<array, walk>>
     /\ Goto(a, "recalc")
     /\ UNCHANGED <<range, obj, mnts, mutex, lock, loaded>>

\* minor_range_recalculate() at the end of __tracer_destroy_tracing()
Recalc(a) ==
  /\ actor[a].pc = "recalc"
  /\ range' = Recalculated(array)
  /\ Goto(a, IF actor[a].op \in {"mount", "umount"} THEN "base" ELSE "free")
  /\ UNCHANGED <<array, obj, mnts, mutex, lock, walk, unfrozen, loaded>>

\* The rest of tracer_destroy(), or of what a transition leaves of the old
\* device: threads, disk, COW file; then kfree(), which the end of the module
\* leaves out.  What the old thread failed on while it was stopped is the error
\* of the new incremental.
FreeOld(a) ==
  LET r == actor[a]
  IN /\ r.pc = "free"
     /\ \/ obj' = [obj EXCEPT ![r.old] =
                     IF r.op = "exit" THEN [@ EXCEPT !.disk = FALSE, !.threads = 0]
                     ELSE Torn(r.old)]
        \/ /\ r.op = "to_inc"
           /\ obj' = [obj EXCEPT ![r.old] = Torn(r.old), ![r.new].fail = TRUE]
     /\ Goto(a, IF r.op = "exit" THEN "next" ELSE "out")
     /\ UNCHANGED <<array, range, mnts, mutex, lock, walk, unfrozen, loaded>>

\* The rest of __tracer_unverified_snap_to_active() and
\* __tracer_unverified_inc_to_active(): the block device must not be traced
\* under another minor, and the COW file must be found below the mount
Base(a) ==
  LET r == actor[a]
      o == r.old
  IN /\ r.pc = "base"
     /\ \/ /\ SetupBaseDev(obj[o].bdev)
           /\ FileIsOnBdev(r.place, obj[o].bdev) /\ r.place = obj[o].place
           /\ actor' = [actor EXCEPT ![a].new = o, ![a].old = None,
                          ![a].pc = IF obj[o].snap THEN "disk" ELSE "include"]
        \/ actor' = [actor EXCEPT ![a].new = o, ![a].old = None, ![a].pc = "undo"]
     /\ obj' = [obj EXCEPT ![o].active = TRUE, ![o].unver = FALSE]
     /\ UNCHANGED <<array, range, mnts, mutex, lock, walk, unfrozen, loaded>>

-----------------------------------------------------------------------------
(* The hooks around mount and umount.                                      *)

\* The device __handle_bdev_mount_nowrite() finds: active, without an error,
\* with its COW file on the mount that goes away
MatchNowrite(b, p) ==
  {m \in Minors : InRange(m) /\ array[m] # None
     /\ LET d == obj[array[m]]
        IN d.active /\ ~d.fail /\ d.bdev = b /\ d.place = p}

\* The devices __handle_bdev_mount_writable() takes the first of
MatchWritable(b) ==
  {m \in Minors : InRange(m) /\ array[m] # None
     /\ LET d == obj[array[m]] IN ~d.active /\ ~d.fail /\ d.bdev = b}

\* The entry of an umount, before handle_bdev_mount_nowrite() has the lock
UmountEnter(a) ==
  /\ loaded /\ actor[a].pc = "idle" /\ "umount" \in Ops
  /\ \E b \in Bdevs : \E p \in mnts[b] :
       actor' = [actor EXCEPT ![a] =
                   [Idle EXCEPT !.pc = "pre", !.op = "umount", !.bdev = b, !.place = p]]
  /\ UNCHANGED <<array, range, obj, mnts, mutex, lock, walk, unfrozen, loaded>>

\* handle_bdev_mount_event(), __handle_bdev_mount_nowrite(): with no device
\* to make dormant the lock is given back at once
PreLock(a) ==
  LET found == MatchNowrite(actor[a].bdev, actor[a].place)
  IN /\ actor[a].pc = "pre" /\ lock = None
     /\ IF found = {}
        THEN /\ actor' = [actor EXCEPT ![a].pc = "call", ![a].res = FALSE]
             /\ UNCHANGED lock
        ELSE /\ lock' = a
             /\ actor' = [actor EXCEPT ![a].pc = "premutex", ![a].minor = Min(found)]
     /\ UNCHANGED <<array, range, obj, mnts, mutex, walk, unfrozen, loaded>>

\* Mutant: the COW thread is left running.
PreDormantKeepsThread(a) ==
  /\ actor[a].pc = "premutex" /\ mutex = None
  /\ obj' = [obj EXCEPT ![array[actor[a].minor]].active = FALSE]
  /\ lock' = None
  /\ Goto(a, "call")
  /\ UNCHANGED <<array, range, mnts, mutex, walk, unfrozen, loaded>>

\* auto_transition_dormant(), __tracer_active_to_dormant()
PreDormant(a) ==
  LET o == array[actor[a].minor]
  IN /\ actor[a].pc = "premutex" /\ mutex = None
     /\ \/ obj' = [obj EXCEPT ![o].active = FALSE, ![o].threads = ThreadStopped(@)]
        \/ obj' = [obj EXCEPT ![o].fail = TRUE, ![o].threads = ThreadStopped(@)]
     /\ lock' = None
     /\ Goto(a, "call")
     /\ UNCHANGED <<array, range, mnts, mutex, walk, unfrozen, loaded>>

\* A healthy device has its COW file open on the mount, which is then busy.
FileOpen(b, p) ==
  \E o \in Objs :
    /\ obj[o].st = "live" /\ obj[o].active /\ ~obj[o].fail
    /\ obj[o].bdev = b /\ obj[o].place = p

\* The umount itself, which holds none of the driver's locks
UmountCall(a) ==
  LET r == actor[a]
      after == IF r.res THEN [r EXCEPT !.pc = "post"] ELSE Idle
  IN /\ r.pc = "call"
     /\ \/ /\ r.place \in mnts[r.bdev] /\ ~FileOpen(r.bdev, r.place)
           /\ mnts' = [mnts EXCEPT ![r.bdev] = @ \ {r.place}]
           /\ actor' = [actor EXCEPT ![a] = after]
        \/ /\ UNCHANGED mnts
           /\ actor' = [actor EXCEPT ![a] = [after EXCEPT !.res = (after.pc = "idle")]]
     /\ UNCHANGED <<array, range, obj, mutex, lock, walk, unfrozen, loaded>>

\* post_umount_check() after a umount that failed: the entry is looked at
\* again; if it is gone the task dies holding the lock
PostFailed(a) ==
  LET r == actor[a]
      o == array[r.minor]
  IN /\ r.pc = "post" /\ ~r.res /\ lock = None
     /\ \/ /\ o # None
           /\ obj' = [obj EXCEPT ![o].fail = TRUE]
           /\ Finish(a) /\ UNCHANGED lock
        \/ /\ lock' = a
           /\ Goto(a, IF o = None THEN "dead" ELSE "postmutex")
           /\ UNCHANGED obj
     /\ UNCHANGED <<array, range, mnts, mutex, walk, unfrozen, loaded>>

\* post_umount_check() after a umount that succeeded: the entry is read with
\* the lock and used without it
PostRead(a) ==
  LET r == actor[a]
  IN /\ r.pc = "post" /\ r.res /\ lock = None
     /\ actor' = [actor EXCEPT ![a].pc = "postuse", ![a].old = array[r.minor]]
     /\ UNCHANGED <<array, range, obj, mnts, mutex, lock, walk, unfrozen, loaded>>

\* The task dies on an entry that was empty or has no base device; one that
\* has been freed meanwhile is undefined
PostUse(a) ==
  LET o == actor[a].old
      dead == o = None \/ (o # None /\ (obj[o].unver \/ obj[o].st = "freed"))
  IN /\ actor[a].pc = "postuse"
     /\ \/ dead /\ Goto(a, "dead") /\ UNCHANGED obj
        \/ /\ o # None /\ obj[o].st = "freed"
           /\ Finish(a) /\ UNCHANGED obj
        \/ /\ ~dead
           /\ obj' = [obj EXCEPT ![o].fail = @ \/ mnts[obj[o].bdev] # {}]
           /\ Finish(a)
     /\ UNCHANGED <<array, range, mnts, mutex, lock, walk, unfrozen, loaded>>

\* The mount has succeeded; its hook comes afterwards
MountEnter(a) ==
  /\ loaded /\ actor[a].pc = "idle" /\ "mount" \in Ops
  /\ \E b \in Bdevs : \E p \in Places \ mnts[b] :
       /\ mnts' = [mnts EXCEPT ![b] = @ \cup {p}]
       /\ actor' = [actor EXCEPT ![a] =
                      [Idle EXCEPT !.pc = "mounted", !.op = "mount", !.bdev = b, !.place = p]]
  /\ UNCHANGED <<array, range, obj, mutex, lock, walk, unfrozen, loaded>>

\* handle_bdev_mount_event(), __handle_bdev_mount_writable()
MountLock(a) ==
  LET found == MatchWritable(actor[a].bdev)
  IN /\ actor[a].pc = "mounted" /\ lock = None
     /\ IF found = {}
        THEN Finish(a) /\ UNCHANGED lock
        ELSE /\ lock' = a
             /\ actor' = [actor EXCEPT ![a].pc = "mountmutex", ![a].minor = Min(found)]
     /\ UNCHANGED <<array, range, obj, mnts, mutex, walk, unfrozen, loaded>>

\* Mutant: the result of reopening the COW file is not looked at.
ActivateAnyway(a) ==
  LET o == array[actor[a].minor]
  IN /\ actor[a].pc \in {"mountmutex", "postmutex"} /\ mutex = None
     /\ IF obj[o].unver
        THEN UNCHANGED obj
        ELSE obj' = [obj EXCEPT ![o].active = TRUE, ![o].threads = ThreadStarted(@)]
     /\ lock' = None
     /\ Finish(a)
     /\ UNCHANGED <<array, range, mnts, mutex, walk, unfrozen, loaded>>

\* auto_transition_active(): an unverified device is taken out of the array
\* to be set up; __tracer_dormant_to_active() reopens the COW file, which must
\* be on the block device
Activate(a) ==
  LET r == actor[a]
      o == array[r.minor]
  IN /\ r.pc \in {"mountmutex", "postmutex"} /\ mutex = None
     /\ \/ /\ obj[o].unver
           /\ mutex' = a
           /\ actor' = [actor EXCEPT ![a].pc = "untrace", ![a].old = o]
           /\ UNCHANGED <<obj, lock>>
        \/ /\ ~obj[o].unver
           /\ \/ /\ FileIsOnBdev(r.place, obj[o].bdev) /\ r.place = obj[o].place
                 /\ obj' = [obj EXCEPT ![o].active = TRUE, ![o].threads = ThreadStarted(@)]
              \/ obj' = [obj EXCEPT ![o].fail = TRUE]
           /\ lock' = None
           /\ Finish(a) /\ UNCHANGED mutex
     /\ UNCHANGED <<array, range, mnts, walk, unfrozen, loaded>>

-----------------------------------------------------------------------------
(* /proc/moocbt-info.                                                      *)

\* moocbt_proc_open(): if seq_open() fails the mutex stays taken
ProcOpen(a) ==
  /\ loaded /\ actor[a].pc = "idle" /\ "proc" \in Ops /\ mutex = None
  /\ mutex' = a
  /\ \E l \in {"procopen", "leaked"} :
       actor' = [actor EXCEPT ![a] = [Idle EXCEPT !.pc = l, !.op = "proc"]]
  /\ UNCHANGED <<array, range, obj, mnts, lock, walk, unfrozen, loaded>>

\* Mutant: the last entry is not shown.
AtEndEarly(r) == r.pos > range.highest

\* The reader has read everything there is to show.
AtEnd(r) == r.pos > range.highest + 1

\* A read() by a program that has not seen the end of the file
ProcRead(a) ==
  /\ actor[a].pc = "procopen" /\ ~AtEnd(actor[a])
  /\ Goto(a, "procwait")
  /\ UNCHANGED <<array, range, obj, mnts, mutex, lock, walk, unfrozen, loaded>>

\* moocbt_proc_start() at the position where the last read stopped
ProcStart(a) ==
  /\ actor[a].pc = "procwait" /\ lock = None
  /\ lock' = a
  /\ actor' = [actor EXCEPT ![a].pc = "procread", ![a].res = FALSE]
  /\ UNCHANGED <<array, range, obj, mnts, mutex, walk, unfrozen, loaded>>

\* moocbt_proc_show() and moocbt_proc_next(): position 0 is the header, p the
\* entry p - 1; the footer follows the last device, or the header if there is
\* none
ProcShow(a) ==
  LET r == actor[a]
      m == r.pos - 1
      header == r.pos = 0
      device == ~header /\ array[m] # None
      footer == \/ header /\ range.lowest > range.highest
                \/ device /\ m = range.highest
  IN /\ r.pc = "procread" /\ ~AtEnd(r)
     /\ actor' = [actor EXCEPT ![a].pos = @ + 1, ![a].res = TRUE,
                    ![a].shown = IF device THEN @ \cup {m} ELSE @,
                    ![a].footers = IF footer THEN @ + 1 ELSE @]
     /\ UNCHANGED <<array, range, obj, mnts, mutex, lock, walk, unfrozen, loaded>>

\* moocbt_proc_stop(): the buffer is full, or there is nothing more to show
ProcStop(a) ==
  /\ actor[a].pc = "procread" /\ (actor[a].res \/ AtEnd(actor[a]))
  /\ lock' = None
  /\ Goto(a, "procopen")
  /\ UNCHANGED <<array, range, obj, mnts, mutex, walk, unfrozen, loaded>>

\* moocbt_proc_release()
ProcRelease(a) ==
  /\ actor[a].pc = "procopen"
  /\ mutex' = None
  /\ Finish(a)
  /\ UNCHANGED <<array, range, obj, mnts, lock, walk, unfrozen, loaded>>

-----------------------------------------------------------------------------
(* Users of the snapshot disks, bios, and the end of the module.           *)

\* tracer_set_fail_state() by a thread or a bio of the device
Fail(o) ==
  /\ obj[o].threads > 0 /\ ~obj[o].fail
  /\ obj' = [obj EXCEPT ![o].fail = TRUE]
  /\ UNCHANGED <<array, range, mnts, mutex, lock, actor, walk, unfrozen, loaded>>

\* snap_open()
Open(o) ==
  /\ loaded /\ obj[o].disk
  /\ obj[o].early + obj[o].late < MaxOpen
  /\ obj' = [obj EXCEPT ![o].late = IF InHands(o) THEN @ + 1 ELSE @,
                        ![o].early = IF InHands(o) THEN @ ELSE @ + 1]
  /\ UNCHANGED <<array, range, mnts, mutex, lock, actor, walk, unfrozen, loaded>>

\* snap_release()
Release(o) ==
  /\ \/ obj[o].early > 0 /\ obj' = [obj EXCEPT ![o].early = @ - 1]
     \/ obj[o].late > 0 /\ obj' = [obj EXCEPT ![o].late = @ - 1]
  /\ UNCHANGED <<array, range, mnts, mutex, lock, actor, walk, unfrozen, loaded>>

\* The start of tracer_for_each() in moocbt_trace_bio()
WalkStart ==
  /\ Walks /\ loaded /\ walk.st = "off"
  /\ walk' = [st |-> "on", i |-> range.lowest, d |-> array[range.lowest],
              met |-> {}, stay |-> {m \in Minors : array[m] # None}]
  /\ UNCHANGED <<array, range, obj, mnts, mutex, lock, actor, unfrozen, loaded>>

\* Mutant: the loop ends before highest_minor.
WalkStepShort ==
  /\ walk.st = "on"
  /\ IF walk.i < range.highest
     THEN walk' = [walk EXCEPT !.i = @ + 1, !.d = array[walk.i + 1],
                     !.met = IF walk.d # None THEN @ \cup {walk.i} ELSE @]
     ELSE walk' = [walk EXCEPT !.st = "done", !.d = None]
  /\ UNCHANGED <<array, range, obj, mnts, mutex, lock, actor, unfrozen, loaded>>

\* One turn of tracer_for_each(): the next entry is read before its index is
\* compared with highest_minor; past the end of the array anything is read
WalkStep ==
  /\ walk.st = "on"
  /\ IF walk.i <= range.highest
     THEN \E d \in IF walk.i + 1 \in Minors THEN {array[walk.i + 1]}
                   ELSE Objs \cup {None} :
            walk' = [walk EXCEPT !.i = @ + 1, !.d = d,
                                 !.met = IF walk.d # None THEN @ \cup {walk.i} ELSE @]
     ELSE walk' = [walk EXCEPT !.st = "done", !.d = None]
  /\ UNCHANGED <<array, range, obj, mnts, mutex, lock, actor, unfrozen, loaded>>

WalkEnd ==
  /\ walk.st = "done"
  /\ walk' = NoWalk
  /\ UNCHANGED <<array, range, obj, mnts, mutex, lock, actor, unfrozen, loaded>>

\* agent_exit(): nothing has the module in use; the hooks and the control
\* device are gone before cleanup_snap_device_array() takes the lock
ExitStart(a) ==
  /\ "exit" \in Ops /\ loaded
  /\ walk.st = "off" /\ lock = None
  /\ \A b \in Actors : actor[b].pc = "idle"
  /\ \A o \in Objs : obj[o].early + obj[o].late = 0
  /\ lock' = a
  /\ loaded' = FALSE
  /\ actor' = [actor EXCEPT ![a] = [Idle EXCEPT !.pc = "next", !.op = "exit",
                                               !.minor = range.lowest]]
  /\ UNCHANGED <<array, range, obj, mnts, mutex, walk, unfrozen>>

\* Mutant: the loop ends as soon as an entry is empty.
ExitNextStops(a) ==
  LET r == actor[a]
      o == array[r.minor]
  IN /\ r.pc = "next"
     /\ IF o = None
        THEN actor' = [actor EXCEPT ![a].pc = "gone"] /\ lock' = None
        ELSE actor' = [actor EXCEPT ![a].pc = "untrace", ![a].old = o] /\ UNCHANGED lock
     /\ UNCHANGED <<array, range, obj, mnts, mutex, walk, unfrozen, loaded>>

\* tracer_for_each() of cleanup_snap_device_array(): the range shrinks while
\* the devices are destroyed
ExitNext(a) ==
  LET r == actor[a]
      o == array[r.minor]
  IN /\ r.pc = "next"
     /\ IF r.minor > range.highest
        THEN actor' = [actor EXCEPT ![a].pc = "gone"] /\ lock' = None
        ELSE /\ actor' = [actor EXCEPT ![a] =
                  IF o # None /\ r.old # o
                  THEN [r EXCEPT !.pc = "untrace", !.old = o]
                  ELSE [r EXCEPT !.minor = r.minor + 1, !.old = None]]
             /\ UNCHANGED lock
     /\ UNCHANGED <<array, range, obj, mnts, mutex, walk, unfrozen, loaded>>

-----------------------------------------------------------------------------

Step(a) ==
  \/ IoctlEnter(a) \/ IoctlLock(a) \/ Leave(a)
  \/ SetupActive(a) \/ SetupUnverified(a) \/ Destroy(a) \/ Transition(a) \/ Query(a)
  \/ AddDisk(a) \/ Include(a) \/ Publish(a) \/ Undo(a)
  \/ Untrace(a) \/ Recalc(a) \/ FreeOld(a) \/ Base(a)
  \/ UmountEnter(a) \/ PreLock(a) \/ PreDormant(a) \/ UmountCall(a)
  \/ PostFailed(a) \/ PostRead(a) \/ PostUse(a)
  \/ MountEnter(a) \/ MountLock(a) \/ Activate(a)
  \/ ProcOpen(a) \/ ProcRead(a) \/ ProcStart(a) \/ ProcShow(a) \/ ProcStop(a) \/ ProcRelease(a)
  \/ ExitStart(a) \/ ExitNext(a)

Next ==
  /\ ~Dangling
  /\ \/ \E a \in Actors : Step(a)
     \/ \E o \in Objs : Open(o) \/ Release(o) \/ Fail(o)
     \/ WalkStart \/ WalkStep \/ WalkEnd

Spec == Init /\ [][Next]_vars

\* Kernel mutexes are handed to whoever waits longest; everything else a task
\* does inside the driver, it does as soon as it is scheduled.  A program that
\* has opened /proc/moocbt-info closes it, and a umount or mount comes back.
Locking(a) ==
  /\ ~Dangling
  /\ \/ IoctlLock(a) \/ PreLock(a) \/ PreDormant(a) \/ PostFailed(a) \/ PostRead(a)
     \/ MountLock(a) \/ Activate(a) \/ ProcStart(a)

Working(a) ==
  /\ ~Dangling
  /\ \/ SetupActive(a) \/ SetupUnverified(a) \/ Destroy(a) \/ Transition(a) \/ Query(a)
     \/ AddDisk(a) \/ Include(a) \/ Publish(a) \/ Undo(a) \/ Untrace(a) \/ Recalc(a)
     \/ FreeOld(a) \/ Base(a) \/ Leave(a) \/ UmountCall(a) \/ PostUse(a)
     \/ ProcShow(a) \/ ProcStop(a) \/ ProcRelease(a) \/ ExitNext(a)

FairSpec == Spec /\ \A a \in Actors : SF_vars(Locking(a)) /\ WF_vars(Working(a))

-----------------------------------------------------------------------------
(* Properties.                                                             *)

\* However set-ups, reloads, mounts and transitions overlap, no block device
\* is traced by two devices of the array: what bdev_is_already_traced() is for.
OneTracerPerBdev ==
  \A m, n \in Minors :
    (m # n /\ array[m] # None /\ array[n] # None) =>
      LET d == obj[array[m]]
          e == obj[array[n]]
      IN (d.st = "live" /\ e.st = "live" /\ ~d.unver /\ ~e.unver) => d.bdev # e.bdev

\* A walk of tracer_for_each() that takes no lock meets every device that is
\* in the array from its start to its end, whatever is added, removed and
\* recalculated beside it.
WalkMeetsDevices == walk.st = "done" => walk.stay \subseteq walk.met

\* Nobody loses an open snapshot disk to an ioctl: an object that is freed has
\* no open from before the task that frees it had found it not busy.
OpenDiskKept == \A o \in Objs : obj[o].st = "freed" => obj[o].early = 0

\* The array holds a freed device only where the block device could not be
\* frozen to destroy it.
FreedOnlyUnfrozen ==
  \A m \in Minors :
    (array[m] # None /\ obj[array[m]].st = "freed") => m \in unfrozen

\* Whenever nobody has the array, a healthy active device has a COW thread and
\* a dormant or unverified one has none, but for a thread that was lost when a
\* second hook reactivated the device.
ThreadFollowsState ==
  lock = None =>
    \A m \in Minors :
      array[m] # None =>
        LET d == obj[array[m]]
        IN (d.st = "live" /\ ~d.fail) =>
             IF d.active THEN d.threads > 0 ELSE d.threads # 1

\* When no hook is at work on a block device, a healthy active device on it
\* has its COW file on a mount that exists.
ActiveIsMounted ==
  \A m \in Minors :
    array[m] # None =>
      LET d == obj[array[m]]
      IN (/\ d.st = "live" /\ d.active /\ ~d.fail
          /\ \A a \in Actors : actor[a].op \notin {"mount", "umount"})
         => d.place \in mnts[d.bdev]

\* A program that reads /proc/moocbt-info to its end, in as many reads as it
\* likes, sees every device once and one footer: nothing changes the array
\* between its open and its release.  With room for one device the range of an
\* empty array looks like that of a full one, and the footer is missing.
ProcIsOneTable ==
  \A a \in Actors :
    (actor[a].pc \in {"procopen", "procread"} /\ AtEnd(actor[a])) =>
      /\ actor[a].shown = {m \in Minors : array[m] # None}
      /\ actor[a].footers = IF MaxDevices = 1 /\ array[0] = None THEN 0 ELSE 1

\* The loop that ends the module leaves no device behind, although the range
\* it runs over shrinks under it; but for a device that could not be frozen.
ExitEmptiesArray ==
  (\E a \in Actors : actor[a].pc = "gone") =>
    \A m \in Minors \ unfrozen : array[m] = None

\* A hook that has the array waits for ioctl_mutex, whose owner waits for the
\* array.
LockCycle ==
  \E a, b \in Actors :
    /\ lock = a /\ actor[a].pc \in {"premutex", "mountmutex", "postmutex"}
    /\ mutex = b /\ actor[b].pc \in {"ioctl", "procwait"}

\* Every ioctl, hook and reader comes to its end, unless the two mutexes have
\* been taken in opposite orders, one was never given back by an open of /proc
\* that failed, a task has died on a device that was gone, or the array holds
\* one that has been freed.
CallsReturn ==
  \A a \in Actors :
    (actor[a].pc # "idle") ~>
      \/ actor[a].pc \in {"idle", "gone"}
      \/ LockCycle \/ Dangling
      \/ \E b \in Actors : actor[b].pc \in {"dead", "leaked"}
=============================================================================
