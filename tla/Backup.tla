------------------------------- MODULE Backup -------------------------------
(***************************************************************************)
(* The backup cycle: a chain of snapshots and incrementals of one device,  *)
(* the COW files they leave behind, and utils/update-img.c, which brings   *)
(* an image of one snapshot up to the next by copying the blocks the COW   *)
(* file has a mapping for.                                                 *)
(*                                                                         *)
(* The driver is here what CowManager, SnapCow and Tracking show it to be: *)
(* a snapshot keeps its content, and the manager of a snapshot and of the  *)
(* incremental after it knows every block written since the snapshot.  Its *)
(* file knows less: sections are written when they leave the cache, and    *)
(* all of them only when the file is closed.  What is detailed is the      *)
(* program, step by step, beside the writes, the ioctls and the machine    *)
(* going down.                                                             *)
(***************************************************************************)
EXTENDS Integers

CONSTANTS
  NumBlocks,  \* total_blocks
  ChunkSize,  \* INDEX_BUFFER_SIZE
  Values,     \* contents of a block
  Files,      \* names of COW files
  NoName,     \* none of them
  MaxSeq,     \* bound on seqid
  MaxChain,   \* bound on the chains: every set-up makes a new uuid
  MaxErrors,  \* err_count is not counted beyond this
  PartialTail \* the size of the device is not a multiple of COW_BLOCK_SIZE

Blocks == 0 .. NumBlocks - 1

ASSUME BackupAssumption ==
  /\ NumBlocks \in Nat \ {0} /\ ChunkSize \in Nat \ {0}
  /\ MaxSeq \in Nat /\ MaxChain \in Nat /\ MaxErrors \in Nat \ {0}
  /\ NoName \notin Files
  /\ PartialTail \in BOOLEAN

VARIABLES
  disk,       \* the content of the base device
  dev,        \* the snap device
  handover,   \* the incremental a transition has replaced and not yet synced
  files,      \* the COW files
  chains,     \* uuids generated so far
  image,      \* the content of the image file
  imgof,      \* the snapshot whose content the image is taken to have
  run,        \* update-img
  missed,     \* history: blocks changed, since the whole image was copied, with
              \* no manager to put them on record
  short       \* history: blocks copy_block() left incomplete, and returned 0

vars == <<disk, dev, handover, files, chains, image, imgof, run, missed, short>>

Contents == [Blocks -> Values]

SnapId == [uuid : 0 .. MaxChain, seq : 0 .. MaxSeq]

\* mode: none; snap; inc; dormant, either of them with its file closed and its
\* thread stopped; failed, one of the three with its fail code set; off, when
\* the driver does not have the device and its COW file was not reloaded.
\* snap is the content of the snapshot the device presents or, as an
\* incremental, counts from; changed is what its COW manager has, or will
\* have once its thread is idle, a mapping for; late is what was written while
\* it is dormant, and is only in its queue.
Device == [mode : {"none", "snap", "inc", "dormant", "failed", "off"}, id : SnapId,
           file : Files \cup {NoName}, snap : Contents, changed : SUBSET Blocks,
           late : SUBSET Blocks]

Handover == [file : Files \cup {NoName}, changed : SUBSET Blocks]

\* linked: the file has its name; inc: COW_INDEX_ONLY; clean: COW_CLEAN.
File == [linked : BOOLEAN, id : SnapId, inc : BOOLEAN, clean : BOOLEAN,
         maps : SUBSET Blocks]

Run == [pc : {"idle", "verify", "read", "copy"}, file : Files \cup {NoName},
        chunk : Nat, todo : SUBSET Blocks, err : 0 .. MaxErrors]

TypeOK ==
  /\ disk \in Contents
  /\ dev \in Device
  /\ handover \in Handover
  /\ files \in [Files -> File]
  /\ chains \in 0 .. MaxChain
  /\ image \in Contents
  /\ imgof \in SnapId
  /\ run \in Run
  /\ missed \in SUBSET Blocks
  /\ short \in SUBSET Blocks

NoId == [uuid |-> 0, seq |-> 0]
NoHandover == [file |-> NoName, changed |-> {}]
NoFile == [linked |-> FALSE, id |-> NoId, inc |-> FALSE, clean |-> FALSE, maps |-> {}]
Idle == [pc |-> "idle", file |-> NoName, chunk |-> 0, todo |-> {}, err |-> 0]

\* The file cow_init() makes: truncated, its header not clean.
NewFile(id) == [NoFile EXCEPT !.linked = TRUE, !.id = id]

Init ==
  /\ disk \in Contents
  /\ image \in Contents
  /\ dev = [mode |-> "none", id |-> NoId, file |-> NoName, snap |-> disk,
            changed |-> {}, late |-> {}]
  /\ handover = NoHandover
  /\ files = [f \in Files |-> NoFile]
  /\ chains = 0
  /\ imgof = NoId
  /\ run = Idle
  /\ missed = {}
  /\ short = {}

Prev(id) == [id EXCEPT !.seq = id.seq - 1]

\* An ioctl that needs the device to be closed, or any ioctl: ioctl_mutex is
\* held from the beginning of a transition to the sync of the old file.
MutexFree == handover = NoHandover
NotBusy == run.pc = "idle"

-----------------------------------------------------------------------------
(* The driver.                                                             *)

\* The file is closed and marked clean, nobody has it, and a reload will take
\* it as it is.
Reloadable == dev.mode \in {"off", "failed"} /\ files[dev.file].clean

\* Blocks an image of the device's chain may be wrong in.  Any other image has
\* to be copied whole before it can be brought up to a snapshot.
OfImage(bs) == IF imgof.uuid = dev.id.uuid THEN bs ELSE {}

\* A write to the base device.  A dormant device still traces it, and keeps
\* what it learns in memory.  Without a device a block the closed file has no
\* mapping for is on record nowhere, and is in the snapshot the file presents.
Write(b, v) ==
  /\ disk' = [disk EXCEPT ![b] = v]
  /\ \/ /\ dev.mode \in {"snap", "inc"}
        /\ dev' = [dev EXCEPT !.changed = @ \cup {b}]
        /\ UNCHANGED missed
     \/ /\ dev.mode = "dormant"
        /\ dev' = [dev EXCEPT !.late = @ \cup {b}]
        /\ UNCHANGED missed
     \/ /\ Reloadable /\ b \notin files[dev.file].maps
        /\ dev' = [dev EXCEPT !.snap[b] = IF files[dev.file].inc THEN @ ELSE v]
        /\ missed' = missed \cup OfImage({b})
     \/ /\ dev.mode \in {"none", "off", "failed"}
        /\ ~(Reloadable /\ b \notin files[dev.file].maps)
        /\ UNCHANGED <<dev, missed>>
  /\ UNCHANGED <<handover, files, chains, image, imgof, run, short>>

\* A section leaves the cache of a manager: of the device, or of the
\* incremental that was replaced.
Evict(b) ==
  /\ \/ /\ dev.mode \in {"snap", "inc"}
        /\ b \in dev.changed
        /\ files' = [files EXCEPT ![dev.file].maps = @ \cup {b}]
     \/ /\ b \in handover.changed
        /\ files' = [files EXCEPT ![handover.file].maps = @ \cup {b}]
  /\ UNCHANGED <<disk, dev, handover, chains, image, imgof, run, missed, short>>

SetupSnapshot(f) ==
  /\ dev.mode = "none"
  /\ chains < MaxChain /\ MaxSeq > 0
  /\ chains' = chains + 1
  /\ LET id == [uuid |-> chains + 1, seq |-> 1] IN
     /\ files' = [files EXCEPT ![f] = NewFile(id)]
     /\ dev' = [mode |-> "snap", id |-> id, file |-> f, snap |-> disk, changed |-> {},
                late |-> {}]
  /\ UNCHANGED <<disk, handover, image, imgof, run, missed, short>>

TransitionToIncremental ==
  /\ MutexFree /\ NotBusy
  /\ dev.mode = "snap"
  /\ dev' = [dev EXCEPT !.mode = "inc"]
  /\ files' = [files EXCEPT ![dev.file].inc = TRUE]
  /\ UNCHANGED <<disk, handover, chains, image, imgof, run, missed, short>>

\* tracer_active_inc_to_snap() up to the publishing of the new device: its
\* disk can be opened, the file of the incremental is not yet complete.
TransitionToSnapshot(f) ==
  /\ MutexFree
  /\ dev.mode = "inc"
  /\ f # dev.file
  /\ dev.id.seq < MaxSeq
  /\ LET id == [dev.id EXCEPT !.seq = @ + 1] IN
     /\ files' = [files EXCEPT ![f] = NewFile(id)]
     /\ dev' = [dev EXCEPT !.mode = "snap", !.id = id, !.file = f, !.snap = disk,
                           !.changed = {}]
  /\ handover' = [file |-> dev.file, changed |-> dev.changed]
  /\ UNCHANGED <<disk, chains, image, imgof, run, missed, short>>

\* It fails after cow_init(): the new file is removed, the incremental stays.
TransitionFails(f) ==
  /\ MutexFree
  /\ dev.mode = "inc"
  /\ f # dev.file
  /\ files' = [files EXCEPT ![f] = NoFile]
  /\ UNCHANGED <<disk, dev, handover, chains, image, imgof, run, missed, short>>

\* Mutant: the old file is closed with what had left the cache.
SyncOldFileAsIs ==
  /\ ~MutexFree
  /\ files' = [files EXCEPT ![handover.file].clean = TRUE]
  /\ handover' = NoHandover
  /\ UNCHANGED <<disk, dev, chains, image, imgof, run, missed, short>>

\* The old thread is stopped with nothing left to do, cow_sync_and_free()
\* writes every section and the header, and the ioctl returns.
SyncOldFile ==
  /\ ~MutexFree
  /\ files' = [files EXCEPT ![handover.file].maps = @ \cup handover.changed,
                            ![handover.file].clean = TRUE]
  /\ handover' = NoHandover
  /\ UNCHANGED <<disk, dev, chains, image, imgof, run, missed, short>>

\* An error there unlinks the file, which update-img may have open: it will
\* find the mappings that had left the cache.  The ioctl returns 0 all the same.
SyncOldFileFails ==
  /\ ~MutexFree
  /\ files' = [files EXCEPT ![handover.file].linked = FALSE]
  /\ missed' = IF run.pc = "verify" /\ run.file = handover.file
               THEN missed \cup OfImage(handover.changed \ files[handover.file].maps)
               ELSE missed
  /\ handover' = NoHandover
  /\ UNCHANGED <<disk, dev, chains, image, imgof, run, short>>

\* An error in the device: its thread frees the manager's members, and the COW
\* file with them.  Writes go untraced from here.
DeviceFails ==
  /\ dev.mode \in {"snap", "inc"}
  /\ files' = [files EXCEPT ![dev.file].linked = FALSE]
  /\ dev' = [dev EXCEPT !.mode = "failed", !.changed = {}]
  /\ UNCHANGED <<disk, handover, chains, image, imgof, run, missed, short>>

\* The umount hook: __tracer_active_to_dormant() stops the thread and closes the
\* file with cow_sync_and_close().  Tracing goes on, and the umount has yet to
\* flush what the file system holds; or it fails, and the hook wakes the device.
GoDormant ==
  /\ MutexFree
  /\ dev.mode \in {"snap", "inc"}
  /\ files' = [files EXCEPT ![dev.file].maps = @ \cup dev.changed,
                            ![dev.file].clean = TRUE]
  /\ dev' = [dev EXCEPT !.mode = "dormant"]
  /\ UNCHANGED <<disk, handover, chains, image, imgof, run, missed, short>>

\* __tracer_dormant_to_active(): cow_reopen() clears the clean mark, and the
\* thread finds what was queued meanwhile.
WakeUp ==
  /\ dev.mode = "dormant"
  /\ files' = [files EXCEPT ![dev.file].clean = FALSE]
  /\ dev' = [dev EXCEPT !.mode = IF files[dev.file].inc THEN "inc" ELSE "snap",
                        !.changed = @ \cup dev.late, !.late = {}]
  /\ UNCHANGED <<disk, handover, chains, image, imgof, run, missed, short>>

\* It fails once the mark is cleared.
WakeUpFails ==
  /\ dev.mode = "dormant"
  /\ files' = [files EXCEPT ![dev.file].clean = FALSE]
  /\ dev' = [dev EXCEPT !.mode = "failed", !.changed = {}, !.late = {}]
  /\ UNCHANGED <<disk, handover, chains, image, imgof, run, missed, short>>

\* What is queued and not in the file.
Unlisted == dev.late \ files[dev.file].maps

\* A device loses its manager and its queue.  Its file, if it is a snapshot's,
\* presents the blocks that were only queued with the content they have now.
LosesQueue(mode) ==
  /\ missed' = missed \cup OfImage(Unlisted)
  /\ dev' = [dev EXCEPT !.mode = mode, !.changed = {}, !.late = {},
                        !.snap = [b \in Blocks |->
                                    IF b \in Unlisted /\ ~files[dev.file].inc
                                    THEN disk[b] ELSE dev.snap[b]]]

\* A dormant device fails, its file being closed.
DormantFails ==
  /\ dev.mode = "dormant"
  /\ LosesQueue("failed")
  /\ UNCHANGED <<disk, handover, files, chains, image, imgof, run, short>>

\* The COW file goes with the device, unless it is closed.
DestroyDevice ==
  /\ MutexFree /\ NotBusy
  /\ dev.mode \in {"snap", "inc", "dormant", "failed"}
  /\ LosesQueue(IF files[dev.file].clean THEN "off" ELSE "none")
  /\ files' = IF files[dev.file].clean THEN files
              ELSE [files EXCEPT ![dev.file].linked = FALSE]
  /\ UNCHANGED <<disk, handover, chains, image, imgof, run, short>>

\* The machine goes down: in a crash, or in good order once the file systems
\* are unmounted and the device is dormant.
PowerOff ==
  /\ dev.mode \in {"snap", "inc", "dormant", "failed"}
  /\ LosesQueue("off")
  /\ handover' = NoHandover
  /\ run' = Idle
  /\ UNCHANGED <<disk, files, chains, image, imgof, short>>

\* cow_reload() takes a clean file, in the mode its header names, and goes by
\* what the file says.
Reload ==
  /\ dev.mode = "off"
  /\ files[dev.file].clean
  /\ files' = [files EXCEPT ![dev.file].clean = FALSE]
  /\ dev' = [dev EXCEPT !.mode = IF files[dev.file].inc THEN "inc" ELSE "snap",
                        !.changed = files[dev.file].maps]
  /\ UNCHANGED <<disk, handover, chains, image, imgof, run, missed, short>>

\* The file is refused, or nobody reloads it.  The chain is at its end.
NotReloaded ==
  /\ dev.mode = "off"
  /\ dev' = [dev EXCEPT !.mode = "none"]
  /\ UNCHANGED <<disk, handover, files, chains, image, imgof, run, missed, short>>

-----------------------------------------------------------------------------
(* The user and update-img.                                                *)

\* The whole snapshot device is copied, with dd.
FullCopy ==
  /\ dev.mode = "snap"
  /\ NotBusy
  /\ image' = dev.snap
  /\ imgof' = dev.id
  /\ missed' = {} /\ short' = {}
  /\ UNCHANGED <<disk, dev, handover, files, chains, run>>

\* main() opens the snapshot, the COW file and the image.  A failed snapshot
\* could be opened too, and every read of it would be an error.
OpenFiles(f) ==
  /\ run.pc = "idle"
  /\ dev.mode = "snap"
  /\ files[f].linked
  /\ run' = [pc |-> "verify", file |-> f, chunk |-> 0, todo |-> {}, err |-> 0]
  /\ UNCHANGED <<disk, dev, handover, files, chains, image, imgof, missed, short>>

\* The checks of verify_files(), moocbt_info() having answered.
FilesMatch(f) ==
  /\ files[f].id.uuid = dev.id.uuid
  /\ files[f].id.seq = dev.id.seq - 1

\* Mutant: the program does not ask the driver, and so does not wait for it.
VerifyFilesAtOnce ==
  /\ run.pc = "verify"
  /\ IF FilesMatch(run.file)
     THEN /\ run' = [run EXCEPT !.pc = "read"]
          /\ imgof' = IF imgof \in {dev.id, Prev(dev.id)} THEN Prev(dev.id) ELSE NoId
     ELSE run' = Idle /\ UNCHANGED imgof
  /\ UNCHANGED <<disk, dev, handover, files, chains, image, missed, short>>

\* moocbt_info() is an ioctl, and waits for a transition to end.  The image
\* is not looked at: it is the user's to name an image of the snapshot before.
VerifyFiles ==
  /\ run.pc = "verify"
  /\ MutexFree
  /\ IF FilesMatch(run.file)
     THEN /\ run' = [run EXCEPT !.pc = "read"]
          /\ imgof' = IF imgof \in {dev.id, Prev(dev.id)} THEN Prev(dev.id) ELSE NoId
     ELSE run' = Idle /\ UNCHANGED imgof
  /\ UNCHANGED <<disk, dev, handover, files, chains, image, missed, short>>

ChunkBlocks(i) == {b \in Blocks : ChunkSize * i <= b /\ b < ChunkSize * (i + 1)}

TotalChunks == (NumBlocks + ChunkSize - 1) \div ChunkSize

\* The mappings of a chunk; an error ends the program.
ReadMappings ==
  /\ run.pc = "read"
  /\ run.chunk < TotalChunks
  /\ \/ run' = [run EXCEPT !.pc = "copy",
                           !.todo = ChunkBlocks(run.chunk) \cap files[run.file].maps]
     \/ run' = Idle
  /\ UNCHANGED <<disk, dev, handover, files, chains, image, imgof, missed, short>>

\* copy_block() as a set of outcomes: the new content of the block, what is
\* returned, and whether the whole block was transferred.  An error is returned
\* as its errno; a snapshot that has failed meanwhile answers with errors.  A
\* pread() or pwrite() that is cut short sets no errno, and what is returned is
\* what an earlier call left there, as a rule 0.  The read of a last block that
\* is not a whole one is always short, and nothing is written.
CopyBlock(b) ==
  LET cut == [val : IF PartialTail /\ b = NumBlocks - 1 THEN {image[b]} ELSE Values,
              ret : {0, 1}, whole : {FALSE}]
  IN IF PartialTail /\ b = NumBlocks - 1 THEN cut
     ELSE cut \cup {[val |-> dev.snap[b], ret |-> 0, whole |-> TRUE]}

\* Mutant: the error code itself is added.
CountedErrno(err, ret) == err + 5 * ret

Counted(err, ret) == IF err + ret <= MaxErrors THEN err + ret ELSE err

\* The loop over the mappings of a chunk.  Reads of a dormant snapshot wait.
CopyNext ==
  /\ run.pc = "copy"
  /\ dev.mode # "dormant"
  /\ \E b \in run.todo :
       /\ \A y \in run.todo : b <= y
       /\ \E o \in CopyBlock(b) :
            /\ image' = [image EXCEPT ![b] = o.val]
            /\ run' = [run EXCEPT !.todo = @ \ {b}, !.err = Counted(@, o.ret)]
            /\ missed' = IF o.whole THEN missed \ {b} ELSE missed
            /\ short' = IF o.whole THEN short \ {b}
                        ELSE IF o.ret = 0 THEN short \cup OfImage({b}) ELSE short
  /\ UNCHANGED <<disk, dev, handover, files, chains, imgof>>

ChunkDone ==
  /\ run.pc = "copy"
  /\ run.todo = {}
  /\ run' = [run EXCEPT !.pc = "read", !.chunk = @ + 1]
  /\ UNCHANGED <<disk, dev, handover, files, chains, image, imgof, missed, short>>

\* "copying complete", and the program returns 0 whatever err_count is.  The
\* user goes by the number of errors it prints.
Complete ==
  /\ run.pc = "read"
  /\ run.chunk = TotalChunks
  /\ run' = Idle
  /\ imgof' = IF run.err = 0 /\ imgof = Prev(dev.id) THEN dev.id ELSE imgof
  /\ UNCHANGED <<disk, dev, handover, files, chains, image, missed, short>>

\* The program is killed.
Killed ==
  /\ run.pc # "idle"
  /\ run' = Idle
  /\ UNCHANGED <<disk, dev, handover, files, chains, image, imgof, missed, short>>

-----------------------------------------------------------------------------

Driver ==
  \/ \E b \in Blocks : Evict(b) \/ \E v \in Values : Write(b, v)
  \/ \E f \in Files : SetupSnapshot(f) \/ TransitionToSnapshot(f) \/ TransitionFails(f)
  \/ TransitionToIncremental
  \/ SyncOldFile
  \/ SyncOldFileFails
  \/ DeviceFails
  \/ GoDormant
  \/ WakeUp
  \/ WakeUpFails
  \/ DormantFails
  \/ DestroyDevice
  \/ PowerOff
  \/ Reload
  \/ NotReloaded

UpdateImg ==
  \/ \E f \in Files : OpenFiles(f)
  \/ VerifyFiles
  \/ ReadMappings
  \/ CopyNext
  \/ ChunkDone
  \/ Complete
  \/ Killed

Next == Driver \/ FullCopy \/ UpdateImg

Spec == Init /\ [][Next]_vars

-----------------------------------------------------------------------------
(* Properties.                                                             *)

Differs == {b \in Blocks : image[b] # dev.snap[b]}

\* A COW file that update-img accepts for the present snapshot has a mapping
\* for every block in which an image of the snapshot before, fresh or left
\* half updated by a run that failed or was killed, differs from it: through
\* crashes, umounts, reloads, failed transitions and files that are used again.
\* What it may lack is what nobody could put there, the blocks that changed
\* after the close of a file and before its reload, and what an earlier run
\* left incomplete and did not count.
DiffCovered ==
  dev.mode = "snap" /\ MutexFree /\ imgof = Prev(dev.id) =>
    \A f \in Files : files[f].linked /\ FilesMatch(f) =>
      Differs \subseteq files[f].maps \cup missed \cup short

\* An image that was copied from a snapshot, or that update-img brought up to
\* it from the one before and reported no errors, has its content, but for
\* blocks that changed unrecorded and blocks whose transfer was cut short.
ImageIsSnapshot ==
  dev.mode # "none" /\ imgof = dev.id => Differs \subseteq missed \cup short

\* What update-img is documented to do: an image it brought up to a snapshot
\* has its content, if every change was put on record.
UpdatedWithoutErrors ==
  dev.mode # "none" /\ imgof = dev.id => Differs \subseteq missed
=============================================================================
