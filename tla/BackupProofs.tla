---------------------------- MODULE BackupProofs ----------------------------
(***************************************************************************)
(* Proofs about Backup, for devices, chains and sets of COW files of every *)
(* size.                                                                   *)
(***************************************************************************)
EXTENDS Backup, TLAPS

-----------------------------------------------------------------------------
(* The inductive invariant.                                                *)

Tracing == dev.mode \in {"snap", "inc"}

Attached == dev.mode \in {"snap", "inc", "dormant", "failed"}

\* The device is there, or will be once its file is reloaded.
Recoverable == Attached \/ Reloadable

Working == run.pc \in {"read", "copy"}

\* Blocks that changed unrecorded, if the image is of the device's chain; if it
\* is not, nothing is said of them.
Unrecorded == IF imgof.uuid = dev.id.uuid THEN missed ELSE Blocks

UnrecordedInc == IF files[dev.file].inc THEN Unrecorded ELSE {}

\* What ids there are, and that a file is known by its own.
IdsAreFresh ==
  /\ \A f \in Files : files[f].id.uuid <= chains
  /\ imgof.uuid <= chains
  /\ \A f, g \in Files : files[f].id = files[g].id /\ files[f].id.uuid # 0 => f = g
  /\ dev.mode # "none" =>
       /\ dev.file \in Files
       /\ files[dev.file].id = dev.id
       /\ dev.id.uuid = chains /\ chains # 0
       /\ imgof.uuid = chains => imgof.seq <= dev.id.seq
       /\ \A f \in Files : files[f].id.uuid = chains => files[f].id.seq <= dev.id.seq

\* Every block that was written since the snapshot is known: to the manager, to
\* the queue of a dormant device, or to the file that was closed.  What was left
\* out of an incremental is one of the blocks an image may be wrong in.
ChangesKnown ==
  \A b \in Blocks : disk[b] # dev.snap[b] =>
    /\ dev.mode = "snap" => b \in dev.changed
    /\ dev.mode = "inc" => b \in dev.changed \cup Unrecorded
    /\ dev.mode = "dormant" => b \in dev.changed \cup dev.late \cup UnrecordedInc
    /\ Reloadable => b \in files[dev.file].maps \cup UnrecordedInc

\* What the header of the file says, and what it has once it is closed.
FileInUse ==
  /\ Tracing => ~files[dev.file].clean
  /\ dev.mode = "snap" => ~files[dev.file].inc
  /\ dev.mode = "inc" => files[dev.file].inc
  /\ dev.mode = "dormant" => files[dev.file].clean /\ dev.changed \subseteq files[dev.file].maps
  /\ dev.mode \notin {"none", "dormant"} => dev.late = {}

HandoverOK ==
  handover # NoHandover =>
    /\ dev.mode \in {"snap", "failed"}
    /\ ~files[dev.file].clean
    /\ handover.file \in Files
    /\ files[handover.file].id = Prev(dev.id)

Pending(f) == IF f = handover.file THEN handover.changed ELSE {}

\* update-img has it open, whether or not it still has its name.
Opened(f) == run.pc # "idle" /\ run.file = f

Covered ==
  Recoverable /\ imgof = Prev(dev.id) =>
    \A f \in Files : (files[f].linked \/ Opened(f)) /\ FilesMatch(f) =>
      \A b \in Blocks : image[b] # dev.snap[b] =>
        b \in files[f].maps \cup Pending(f) \cup missed \cup short

RunOK ==
  /\ run.pc # "idle" =>
       /\ dev.mode \in {"snap", "dormant", "failed"}
       /\ run.file \in Files
       /\ ~files[dev.file].inc
  /\ run.pc # "copy" => run.todo = {}
  /\ run.pc = "verify" => run.chunk = 0
  /\ Working =>
       /\ handover = NoHandover
       /\ FilesMatch(run.file)
       /\ imgof # dev.id
       /\ run.todo \subseteq files[run.file].maps

ImageOK ==
  dev.mode # "none" /\ imgof = dev.id =>
    \A b \in Blocks : image[b] # dev.snap[b] => b \in missed \cup short

\* What a run that met no error has left to do.
Progress ==
  Working /\ run.err = 0 /\ imgof = Prev(dev.id) =>
    \A b \in Blocks \ (missed \cup short) : image[b] # dev.snap[b] =>
      IF run.pc = "read" THEN ChunkSize * run.chunk <= b
      ELSE b \in run.todo \/ ChunkSize * (run.chunk + 1) <= b

Inv ==
  /\ TypeOK
  /\ IdsAreFresh
  /\ ChangesKnown
  /\ FileInUse
  /\ HandoverOK
  /\ Covered
  /\ RunOK
  /\ ImageOK
  /\ Progress

-----------------------------------------------------------------------------
(* Records in their types.                                                 *)

LEMMA FileEdited ==
  ASSUME NEW F \in [Files -> File], NEW f \in Files, NEW r \in File
  PROVE  /\ [F EXCEPT ![f] = r] \in [Files -> File]
         /\ [F EXCEPT ![f] = r][f] = r
         /\ \A g \in Files : g # f => [F EXCEPT ![f] = r][g] = F[g]
  OBVIOUS

LEMMA FileFields ==
  ASSUME NEW r \in File
  PROVE  /\ \A m \in SUBSET Blocks :
              /\ [r EXCEPT !.maps = m] \in File
              /\ [r EXCEPT !.maps = m, !.clean = TRUE] \in File
         /\ [r EXCEPT !.inc = TRUE] \in File
         /\ [r EXCEPT !.clean = FALSE] \in File
         /\ [r EXCEPT !.linked = FALSE] \in File
  BY DEF File

LEMMA RunFields ==
  ASSUME NEW r \in Run
  PROVE  /\ [r EXCEPT !.pc = "read"] \in Run
         /\ \A c \in Nat : [r EXCEPT !.pc = "read", !.chunk = c] \in Run
         /\ \A t \in SUBSET Blocks :
              /\ [r EXCEPT !.pc = "copy", !.todo = t] \in Run
              /\ \A e \in 0 .. MaxErrors : [r EXCEPT !.todo = t, !.err = e] \in Run
  BY DEF Run

LEMMA IdleIsRun == Idle \in Run
  BY BackupAssumption DEF Idle, Run

LEMMA PrevId ==
  ASSUME NEW id \in SnapId
  PROVE  /\ Prev(id).uuid = id.uuid
         /\ Prev(id).seq = id.seq - 1
         /\ Prev(id) # id
         /\ \A j \in SnapId : j.uuid = id.uuid /\ j.seq = id.seq - 1 => j = Prev(id)
  BY DEF SnapId, Prev

\* total_chunks rounds up: the chunks reach past the last block.
LEMMA ChunksCoverBlocks ==
  \A b \in Blocks : ~(ChunkSize * TotalChunks <= b)
<1>. DEFINE n == NumBlocks + ChunkSize - 1
<1>1. n \in Nat /\ n >= ChunkSize /\ ChunkSize \in Nat /\ ChunkSize > 0
  BY BackupAssumption
<1>2. /\ n \div ChunkSize \in Int /\ n % ChunkSize \in 0 .. ChunkSize - 1
      /\ n = ChunkSize * (n \div ChunkSize) + (n % ChunkSize)
  BY <1>1
<1>3. ChunkSize * (n \div ChunkSize) \in Int
  BY <1>1, <1>2
<1>. HIDE DEF n
<1>4. ChunkSize * (n \div ChunkSize) > n - ChunkSize
  BY <1>1, <1>2, <1>3
<1>. QED
  BY <1>3, <1>4, BackupAssumption DEF TotalChunks, n, Blocks

\* The file that is handed over is not the one of the device.
LEMMA HandoverElsewhere ==
  ASSUME Inv, handover # NoHandover
  PROVE  /\ handover.file \in Files /\ dev.file \in Files /\ handover.file # dev.file
         /\ handover.changed \in SUBSET Blocks
         /\ files \in [Files -> File] /\ dev.mode \in {"snap", "failed"}
<1>1. /\ handover.file \in Files /\ dev.file \in Files /\ dev.id \in SnapId
      /\ files[handover.file].id = Prev(dev.id) /\ files[dev.file].id = dev.id
      /\ files \in [Files -> File] /\ handover.changed \in SUBSET Blocks
      /\ dev.mode \in {"snap", "failed"}
  BY DEF Inv, HandoverOK, IdsAreFresh, TypeOK, Device, Handover
<1>. QED
  BY <1>1, PrevId

LEMMA WriteKeeps ==
  ASSUME NEW b \in Blocks, NEW v \in Values, Inv, Write(b, v)
  PROVE  Inv'
<1>1. TypeOK'
  BY BackupAssumption DEF Inv, TypeOK, Contents, Device, Handover, File, Run,
    SnapId, Write, OfImage, Reloadable, NoHandover
<1>2. IdsAreFresh'
  BY BackupAssumption DEF Inv, TypeOK, Contents, Device, Handover, File, Run,
    SnapId, Write, OfImage, Reloadable, IdsAreFresh
<1>3. ChangesKnown'
  BY BackupAssumption DEF Inv, TypeOK, Contents, Device, Handover, File, Run, SnapId, Write,
    OfImage, Reloadable, ChangesKnown, Unrecorded, UnrecordedInc, Tracing, Attached, IdsAreFresh
<1>4. FileInUse'
  BY BackupAssumption DEF Inv, TypeOK, Contents, Device, Handover, File, Run,
    SnapId, Write, OfImage, Reloadable, FileInUse, Tracing, Attached, IdsAreFresh
<1>5. HandoverOK'
  BY BackupAssumption DEF Inv, TypeOK, Contents, Device, Handover, File, Run,
    SnapId, Write, OfImage, Reloadable, HandoverOK, NoHandover, Prev, IdsAreFresh
<1>6. Covered'
  <2>1. /\ UNCHANGED <<handover, files, chains, image, imgof, run, short>>
        /\ dev'.mode = dev.mode /\ dev'.id = dev.id /\ dev'.file = dev.file
    BY DEF Write, Inv, TypeOK, Device
  <2>2. /\ missed \subseteq missed'
        /\ imgof.uuid = dev.id.uuid =>
             \A c \in Blocks : c \notin missed' => dev'.snap[c] = dev.snap[c]
    BY DEF Write, OfImage, Inv, TypeOK, Device, Contents
  <2>3. imgof = Prev(dev.id) => imgof.uuid = dev.id.uuid
    BY PrevId DEF Inv, TypeOK, Device
  <2>. QED
    BY <2>1, <2>2, <2>3 DEF Inv, Covered, Opened, Recoverable, Reloadable, Attached, FilesMatch,
      Pending
<1>7. RunOK'
  BY BackupAssumption DEF Inv, TypeOK, Contents, Device, Handover, File, Run,
    SnapId, Write, OfImage, Reloadable, RunOK, Working, FilesMatch, NoHandover, IdsAreFresh, Prev
<1>8. ImageOK'
  BY BackupAssumption DEF Inv, TypeOK, Contents, Device, Handover, File, Run,
    SnapId, Write, OfImage, Reloadable, ImageOK, IdsAreFresh
<1>9. Progress'
  BY BackupAssumption DEF Inv, TypeOK, Contents, Device, Handover, File, Run,
    SnapId, Write, OfImage, Reloadable, Progress, Working, RunOK, IdsAreFresh, HandoverOK,
    NoHandover, Prev
<1>10. QED
  BY <1>1, <1>2, <1>3, <1>4, <1>5, <1>6, <1>7, <1>8, <1>9 DEF Inv

LEMMA EvictKeeps ==
  ASSUME NEW b \in Blocks, Inv, Evict(b)
  PROVE  Inv'
<1>. PICK h \in Files :
       files' = [files EXCEPT ![h] = [files[h] EXCEPT !.maps = files[h].maps \cup {b}]]
  BY DEF Inv, TypeOK, IdsAreFresh, HandoverOK, NoHandover, Evict, Device, Handover
<1>. DEFINE r == [files[h] EXCEPT !.maps = files[h].maps \cup {b}]
<1>. /\ r \in File /\ r.id = files[h].id /\ r.linked = files[h].linked
     /\ r.clean = files[h].clean /\ r.inc = files[h].inc /\ files[h].maps \subseteq r.maps
  <2>1. files[h] \in File /\ files[h].maps \cup {b} \in SUBSET Blocks
    BY DEF Inv, TypeOK, File
  <2>. QED
    BY <2>1, FileFields DEF File
<1>. HIDE DEF r
<1>. /\ files' \in [Files -> File]
     /\ \A g \in Files : /\ files'[g].id = files[g].id
                          /\ files'[g].linked = files[g].linked
                          /\ files'[g].clean = files[g].clean
                          /\ files'[g].inc = files[g].inc
                          /\ files[g].maps \subseteq files'[g].maps
  <2>1. files' = [files EXCEPT ![h] = r] /\ files \in [Files -> File]
    BY DEF Inv, TypeOK, r
  <2>. QED
    BY <2>1, FileEdited
<1>. UNCHANGED <<disk, dev, handover, chains, image, imgof, run, missed, short>>
  BY DEF Evict
<1>1. TypeOK'
  BY DEF Inv, TypeOK, NoHandover
<1>2. IdsAreFresh'
  BY DEF Inv, TypeOK, IdsAreFresh
<1>3. ChangesKnown'
  BY DEF Inv, TypeOK, ChangesKnown, Unrecorded, UnrecordedInc, Reloadable, Tracing, Attached,
    IdsAreFresh
<1>4. FileInUse'
  BY DEF Inv, TypeOK, FileInUse, Tracing, Attached, IdsAreFresh
<1>5. HandoverOK'
  BY DEF Inv, TypeOK, HandoverOK, NoHandover, Prev, IdsAreFresh
<1>6. Covered'
  BY DEF Inv, TypeOK, Covered, Opened, Reloadable, Recoverable, Tracing, Attached, FilesMatch,
    Pending, Prev, IdsAreFresh, HandoverOK, NoHandover
<1>7. RunOK'
  BY DEF Inv, TypeOK, RunOK, Working, FilesMatch, NoHandover, IdsAreFresh, Prev
<1>8. ImageOK'
  BY DEF Inv, TypeOK, ImageOK, IdsAreFresh
<1>9. Progress'
  BY DEF Inv, TypeOK, Progress, Working, RunOK, IdsAreFresh, HandoverOK, NoHandover, Prev
<1>10. QED
  BY <1>1, <1>2, <1>3, <1>4, <1>5, <1>6, <1>7, <1>8, <1>9 DEF Inv

LEMMA SetupSnapshotKeeps ==
  ASSUME NEW f \in Files, Inv, SetupSnapshot(f)
  PROVE  Inv'
<1>1. TypeOK'
  <2>1. [uuid |-> chains + 1, seq |-> 1] \in SnapId
    BY BackupAssumption DEF Inv, TypeOK, SnapId, SetupSnapshot
  <2>2. NewFile([uuid |-> chains + 1, seq |-> 1]) \in File
    BY <2>1, BackupAssumption DEF NewFile, NoFile, File, SnapId, NoId
  <2>3. files' \in [Files -> File]
    BY <2>2, FileEdited DEF Inv, TypeOK, SetupSnapshot
  <2>4. dev' \in Device
    BY <2>1 DEF Inv, TypeOK, SetupSnapshot, Device
  <2>5. chains' \in 0 .. MaxChain
    BY BackupAssumption DEF Inv, TypeOK, SetupSnapshot
  <2>. QED
    BY <2>1, <2>2, <2>3, <2>4, <2>5 DEF Inv, TypeOK, SetupSnapshot
<1>2. IdsAreFresh'
  BY BackupAssumption DEF Inv, TypeOK, Contents, Device, Handover, File, Run,
    SnapId, SetupSnapshot, NewFile, NoFile, NoId, IdsAreFresh
<1>3. ChangesKnown'
  BY BackupAssumption DEF Inv, TypeOK, Contents, Device, Handover, File, Run, SnapId,
    SetupSnapshot, NewFile, NoFile, NoId, ChangesKnown, Unrecorded, UnrecordedInc, Reloadable,
    Tracing, Attached, IdsAreFresh
<1>4. FileInUse'
  BY BackupAssumption DEF Inv, TypeOK, Contents, Device, Handover, File, Run,
    SnapId, SetupSnapshot, NewFile, NoFile, NoId, FileInUse, Tracing, Attached,
    IdsAreFresh
<1>5. HandoverOK'
  BY BackupAssumption DEF Inv, TypeOK, Contents, Device, Handover, File, Run,
    SnapId, SetupSnapshot, NewFile, NoFile, NoId, HandoverOK, NoHandover,
    Prev, IdsAreFresh
<1>6. Covered'
  BY BackupAssumption DEF Inv, TypeOK, Contents, Device, Handover, File, Run,
    SnapId, SetupSnapshot, NewFile, NoFile, NoId, Covered, Opened, Reloadable, Recoverable,
    Tracing, Attached, FilesMatch, Pending, Prev, IdsAreFresh, HandoverOK, NoHandover
<1>7. RunOK'
  BY BackupAssumption DEF Inv, TypeOK, Contents, Device, Handover, File, Run,
    SnapId, SetupSnapshot, NewFile, NoFile, NoId, RunOK, Working, FilesMatch,
    NoHandover, IdsAreFresh, Prev
<1>8. ImageOK'
  BY BackupAssumption DEF Inv, TypeOK, Contents, Device, Handover, File, Run, SnapId,
    SetupSnapshot, NewFile, NoFile, NoId, ImageOK, IdsAreFresh
<1>9. Progress'
  BY BackupAssumption DEF Inv, TypeOK, Contents, Device, Handover, File, Run,
    SnapId, SetupSnapshot, NewFile, NoFile, NoId, Progress, Working, RunOK,
    IdsAreFresh, HandoverOK, NoHandover, Prev
<1>10. QED
  BY <1>1, <1>2, <1>3, <1>4, <1>5, <1>6, <1>7, <1>8, <1>9 DEF Inv

LEMMA TransitionToIncrementalKeeps ==
  ASSUME Inv, TransitionToIncremental
  PROVE  Inv'
<1>1. TypeOK'
  <2>1. [files[dev.file] EXCEPT !.inc = TRUE] \in File
    BY FileFields DEF Inv, TypeOK, IdsAreFresh, TransitionToIncremental
  <2>2. files' \in [Files -> File]
    BY <2>1, FileEdited DEF Inv, TypeOK, IdsAreFresh, TransitionToIncremental
  <2>3. dev' \in Device
    BY DEF Inv, TypeOK, TransitionToIncremental, Device
  <2>. QED
    BY <2>1, <2>2, <2>3 DEF Inv, TypeOK, TransitionToIncremental
<1>2. IdsAreFresh'
  BY BackupAssumption DEF Inv, TypeOK, Contents, Device, Handover, File, Run,
    SnapId, TransitionToIncremental, MutexFree, NotBusy, IdsAreFresh
<1>3. ChangesKnown'
  BY BackupAssumption DEF Inv, TypeOK, Contents, Device, Handover, File, Run, SnapId,
    TransitionToIncremental, MutexFree, NotBusy, ChangesKnown, Unrecorded, UnrecordedInc,
    Reloadable, Tracing, Attached, IdsAreFresh
<1>4. FileInUse'
  BY BackupAssumption DEF Inv, TypeOK, Contents, Device, Handover, File, Run,
    SnapId, TransitionToIncremental, MutexFree, NotBusy, FileInUse, Tracing, Attached,
    IdsAreFresh
<1>5. HandoverOK'
  BY BackupAssumption DEF Inv, TypeOK, Contents, Device, Handover, File, Run,
    SnapId, TransitionToIncremental, MutexFree, NotBusy, HandoverOK,
    NoHandover, Prev, IdsAreFresh
<1>6. Covered'
  BY BackupAssumption DEF Inv, TypeOK, Contents, Device, Handover, File, Run,
    SnapId, TransitionToIncremental, MutexFree, NotBusy, Covered, Opened, Reloadable, Recoverable,
    Tracing, Attached, FilesMatch, Pending, Prev, IdsAreFresh, HandoverOK, NoHandover
<1>7. RunOK'
  BY BackupAssumption DEF Inv, TypeOK, Contents, Device, Handover, File, Run,
    SnapId, TransitionToIncremental, MutexFree, NotBusy, RunOK, Working,
    FilesMatch, NoHandover, IdsAreFresh, Prev
<1>8. ImageOK'
  BY BackupAssumption DEF Inv, TypeOK, Contents, Device, Handover, File, Run,
    SnapId, TransitionToIncremental, MutexFree, NotBusy, ImageOK, IdsAreFresh
<1>9. Progress'
  BY BackupAssumption DEF Inv, TypeOK, Contents, Device, Handover, File, Run,
    SnapId, TransitionToIncremental, MutexFree, NotBusy, Progress, Working,
    RunOK, IdsAreFresh, HandoverOK, NoHandover, Prev
<1>10. QED
  BY <1>1, <1>2, <1>3, <1>4, <1>5, <1>6, <1>7, <1>8, <1>9 DEF Inv

LEMMA TransitionToSnapshotKeeps ==
  ASSUME NEW f \in Files, Inv, TransitionToSnapshot(f)
  PROVE  Inv'
<1>. DEFINE id == [dev.id EXCEPT !.seq = dev.id.seq + 1]
<1>1. /\ dev.mode = "inc" /\ handover = NoHandover /\ run.pc = "idle"
      /\ f # dev.file /\ dev.file \in Files /\ dev.id.seq < MaxSeq
      /\ dev \in Device /\ dev.id \in SnapId /\ dev.id.uuid = chains /\ chains # 0
      /\ files[dev.file].id = dev.id /\ ~files[dev.file].clean /\ dev.late = {}
  BY DEF Inv, TypeOK, IdsAreFresh, RunOK, FileInUse, Tracing, TransitionToSnapshot, MutexFree,
    Device
<1>2. /\ id \in SnapId /\ id.uuid = chains /\ id.seq = dev.id.seq + 1
      /\ id # dev.id /\ Prev(id) = dev.id
  <2>1. id \in SnapId /\ id.uuid = dev.id.uuid /\ id.seq = dev.id.seq + 1
    BY <1>1, BackupAssumption DEF SnapId
  <2>2. id # dev.id /\ dev.id.seq = id.seq - 1
    BY <1>1, <2>1 DEF SnapId
  <2>. QED
    BY <1>1, <2>1, <2>2, PrevId
<1>3. /\ dev'.mode = "snap" /\ dev'.id = id /\ dev'.file = f /\ dev'.snap = disk
      /\ dev'.changed = {} /\ dev'.late = {} /\ dev' \in Device
      /\ files' = [files EXCEPT ![f] = NewFile(id)]
      /\ handover' = [file |-> dev.file, changed |-> dev.changed]
      /\ UNCHANGED <<disk, chains, image, imgof, run, missed, short>>
  BY <1>1, <1>2 DEF TransitionToSnapshot, Device, Inv, TypeOK
<1>. HIDE DEF id
<1>4. /\ NewFile(id) \in File /\ NewFile(id).id = id
      /\ NewFile(id).clean = FALSE /\ NewFile(id).inc = FALSE /\ NewFile(id).maps = {}
  BY <1>2, BackupAssumption DEF NewFile, NoFile, NoId, File, SnapId
<1>5. /\ files' \in [Files -> File]
      /\ files'[f].id = id /\ files'[f].clean = FALSE /\ files'[f].inc = FALSE
      /\ \A g \in Files : g # f => files'[g] = files[g]
  BY <1>3, <1>4, FileEdited DEF Inv, TypeOK
<1>6. /\ handover' \in Handover /\ handover' # NoHandover
      /\ handover'.file = dev.file /\ handover'.changed = dev.changed
  BY <1>1, <1>3, BackupAssumption DEF Handover, Device, NoHandover
<1>7. TypeOK'
  BY <1>3, <1>5, <1>6 DEF Inv, TypeOK
<1>8. IdsAreFresh'
  <2>1. \A g \in Files : g # f => files'[g].id # id
    BY <1>1, <1>2, <1>5 DEF Inv, IdsAreFresh, TypeOK, File, SnapId
  <2>2. imgof.uuid = chains => imgof.seq <= id.seq
    BY <1>1, <1>2 DEF Inv, IdsAreFresh, TypeOK, SnapId
  <2>3. \A g \in Files : files'[g].id.uuid = chains => files'[g].id.seq <= id.seq
    BY <1>1, <1>2, <1>5 DEF Inv, IdsAreFresh, TypeOK, File, SnapId
  <2>4. \A g \in Files : files'[g].id.uuid <= chains
    BY <1>1, <1>2, <1>5 DEF Inv, IdsAreFresh, TypeOK, File, SnapId
  <2>. QED
    BY <1>1, <1>2, <1>3, <1>5, <2>1, <2>2, <2>3, <2>4 DEF Inv, IdsAreFresh
<1>9. ChangesKnown' /\ FileInUse'
  BY <1>3, <1>5 DEF ChangesKnown, Unrecorded, UnrecordedInc, Reloadable, FileInUse, Tracing,
    Attached
<1>10. HandoverOK'
  BY <1>1, <1>2, <1>3, <1>5, <1>6 DEF HandoverOK
<1>11. Covered'
  <2>. SUFFICES ASSUME imgof = dev.id, NEW g \in Files, files'[g].id.uuid = id.uuid,
                       files'[g].id.seq = id.seq - 1,
                       NEW b \in Blocks, image[b] # disk[b]
                PROVE  b \in Pending(g)' \cup missed \cup short
    BY <1>2, <1>3 DEF Covered, Opened, Reloadable, FilesMatch
  <2>1. g # f
    BY <1>2, <1>5 DEF SnapId
  <2>2. files[g].id = dev.id
    <3>1. files[g].id \in SnapId /\ files'[g] = files[g]
      BY <1>5, <2>1 DEF Inv, TypeOK, File
    <3>. QED
      BY <1>2, <3>1, PrevId
  <2>3. g = dev.file
    BY <1>1, <2>2 DEF Inv, IdsAreFresh
  <2>4. CASE dev.snap[b] # disk[b]
    BY <1>1, <1>6, <2>3, <2>4 DEF Inv, ChangesKnown, Unrecorded, Pending
  <2>5. CASE image[b] # dev.snap[b]
    BY <1>1, <2>5 DEF Inv, ImageOK
  <2>. QED
    BY <2>4, <2>5
<1>12. RunOK'
  BY <1>1, <1>3 DEF Inv, RunOK, Working
<1>13. ImageOK'
  <2>1. imgof # id
    BY <1>1, <1>2 DEF Inv, IdsAreFresh, TypeOK, SnapId
  <2>. QED
    BY <1>3, <2>1 DEF ImageOK
<1>14. Progress'
  BY <1>1, <1>3 DEF Progress, Working
<1>15. QED
  BY <1>7, <1>8, <1>9, <1>10, <1>11, <1>12, <1>13, <1>14 DEF Inv

LEMMA TransitionFailsKeeps ==
  ASSUME NEW f \in Files, Inv, TransitionFails(f)
  PROVE  Inv'
<1>1. TypeOK'
  BY BackupAssumption DEF Inv, TypeOK, Contents, Device, Handover, File, Run,
    SnapId, TransitionFails, NoFile, NoId, MutexFree, NoHandover
<1>2. IdsAreFresh'
  BY BackupAssumption DEF Inv, TypeOK, Contents, Device, Handover, File, Run,
    SnapId, TransitionFails, NoFile, NoId, MutexFree, IdsAreFresh
<1>3. ChangesKnown'
  BY BackupAssumption DEF Inv, TypeOK, Contents, Device, Handover, File, Run, SnapId,
    TransitionFails, NoFile, NoId, MutexFree, ChangesKnown, Unrecorded, UnrecordedInc,
    Reloadable, Tracing, Attached, IdsAreFresh
<1>4. FileInUse'
  BY BackupAssumption DEF Inv, TypeOK, Contents, Device, Handover, File, Run,
    SnapId, TransitionFails, NoFile, NoId, MutexFree, FileInUse, Tracing, Attached,
    IdsAreFresh
<1>5. HandoverOK'
  BY BackupAssumption DEF Inv, TypeOK, Contents, Device, Handover, File, Run,
    SnapId, TransitionFails, NoFile, NoId, MutexFree, HandoverOK, NoHandover,
    Prev, IdsAreFresh
<1>6. Covered'
  BY BackupAssumption DEF Inv, TypeOK, Contents, Device, Handover, File, Run,
    SnapId, TransitionFails, NoFile, NoId, MutexFree, Covered, Opened, Reloadable, Recoverable,
    Tracing, Attached, FilesMatch, Pending, Prev, IdsAreFresh, HandoverOK, NoHandover
<1>7. RunOK'
  BY BackupAssumption DEF Inv, TypeOK, Contents, Device, Handover, File, Run,
    SnapId, TransitionFails, NoFile, NoId, MutexFree, RunOK, Working,
    FilesMatch, NoHandover, IdsAreFresh, Prev
<1>8. ImageOK'
  BY BackupAssumption DEF Inv, TypeOK, Contents, Device, Handover, File, Run,
    SnapId, TransitionFails, NoFile, NoId, MutexFree, ImageOK, IdsAreFresh
<1>9. Progress'
  BY BackupAssumption DEF Inv, TypeOK, Contents, Device, Handover, File, Run,
    SnapId, TransitionFails, NoFile, NoId, MutexFree, Progress, Working,
    RunOK, IdsAreFresh, HandoverOK, NoHandover, Prev
<1>10. QED
  BY <1>1, <1>2, <1>3, <1>4, <1>5, <1>6, <1>7, <1>8, <1>9 DEF Inv

LEMMA SyncOldFileKeeps ==
  ASSUME Inv, SyncOldFile
  PROVE  Inv'
<1>1. TypeOK'
  <2>1. handover.file \in Files /\ files[handover.file] \in File
    BY DEF Inv, TypeOK, HandoverOK, SyncOldFile, MutexFree
  <2>2. [files[handover.file] EXCEPT !.maps = @ \cup handover.changed, !.clean = TRUE] \in File
    BY <2>1, FileFields DEF Inv, TypeOK, Handover, File
  <2>3. files' \in [Files -> File]
    BY <2>1, <2>2, FileEdited DEF Inv, TypeOK, SyncOldFile
  <2>4. handover' \in Handover
    BY DEF SyncOldFile, Handover, NoHandover
  <2>. QED
    BY <2>1, <2>2, <2>3, <2>4 DEF Inv, TypeOK, SyncOldFile
<1>2. IdsAreFresh'
  BY BackupAssumption DEF Inv, TypeOK, Contents, Device, Handover, File, Run,
    SnapId, SyncOldFile, MutexFree, IdsAreFresh
<1>3. ChangesKnown'
  <2>1. handover # NoHandover
    BY DEF SyncOldFile, MutexFree
  <2>2. files'[dev.file] = files[dev.file]
    BY <2>1, HandoverElsewhere DEF SyncOldFile
  <2>3. UNCHANGED <<disk, dev, imgof>> /\ missed \subseteq missed'
    BY DEF SyncOldFile
  <2>. QED
    BY <2>1, <2>2, <2>3, HandoverElsewhere DEF Inv, ChangesKnown, Unrecorded, UnrecordedInc,
      Reloadable
<1>4. FileInUse'
  BY BackupAssumption DEF Inv, TypeOK, Contents, Device, Handover, File, Run,
    SnapId, SyncOldFile, MutexFree, FileInUse, Tracing, Attached, IdsAreFresh
<1>5. HandoverOK'
  BY BackupAssumption DEF Inv, TypeOK, Contents, Device, Handover, File, Run,
    SnapId, SyncOldFile, MutexFree, HandoverOK, NoHandover, Prev, IdsAreFresh
<1>6. Covered'
  <2>. SUFFICES ASSUME Recoverable', imgof' = Prev(dev.id)', NEW f \in Files,
                       files'[f].linked \/ Opened(f)', FilesMatch(f)', NEW b \in Blocks,
                       image'[b] # dev'.snap[b]
                PROVE  b \in files'[f].maps \cup Pending(f)' \cup missed' \cup short'
    BY DEF Covered, Opened, Reloadable
  <2>1. /\ UNCHANGED <<dev, image, imgof, run, missed, short>>
        /\ dev.mode \in {"snap", "failed"} /\ handover.file \in Files
    BY DEF Inv, HandoverOK, SyncOldFile, MutexFree
  <2>2. files \in [Files -> File] /\ files[f] \in File /\ files[handover.file] \in File
    BY <2>1 DEF Inv, TypeOK
  <2>3. /\ files'[f].linked = files[f].linked /\ files'[f].id = files[f].id
        /\ files'[f].maps = files[f].maps \cup Pending(f)
    BY <2>1, <2>2 DEF SyncOldFile, File, Pending
  <2>4. Recoverable /\ imgof = Prev(dev.id) /\ FilesMatch(f) /\ image[b] # dev.snap[b]
    BY <2>1, <2>3 DEF Recoverable, Attached, Tracing, FilesMatch, Prev
  <2>5. b \in files[f].maps \cup Pending(f) \cup missed \cup short
    BY <2>1, <2>3, <2>4 DEF Inv, Covered, Opened, Reloadable
  <2>. QED
    BY <2>1, <2>3, <2>5
<1>7. RunOK'
  BY BackupAssumption DEF Inv, TypeOK, Contents, Device, Handover, File, Run,
    SnapId, SyncOldFile, MutexFree, RunOK, Working, FilesMatch, NoHandover,
    IdsAreFresh, Prev
<1>8. ImageOK'
  BY BackupAssumption DEF Inv, TypeOK, Contents, Device, Handover, File, Run,
    SnapId, SyncOldFile, MutexFree, ImageOK, IdsAreFresh
<1>9. Progress'
  BY BackupAssumption DEF Inv, TypeOK, Contents, Device, Handover, File, Run,
    SnapId, SyncOldFile, MutexFree, Progress, Working, RunOK, IdsAreFresh,
    HandoverOK, NoHandover, Prev
<1>10. QED
  BY <1>1, <1>2, <1>3, <1>4, <1>5, <1>6, <1>7, <1>8, <1>9 DEF Inv

LEMMA SyncOldFileFailsKeeps ==
  ASSUME Inv, SyncOldFileFails
  PROVE  Inv'
<1>1. TypeOK'
  <2>1. handover.file \in Files /\ files[handover.file] \in File
    BY DEF Inv, TypeOK, HandoverOK, SyncOldFileFails, MutexFree
  <2>2. [files[handover.file] EXCEPT !.linked = FALSE] \in File
    BY <2>1, FileFields
  <2>3. files' \in [Files -> File]
    BY <2>1, <2>2, FileEdited DEF Inv, TypeOK, SyncOldFileFails
  <2>4. handover' \in Handover
    BY DEF SyncOldFileFails, Handover, NoHandover
  <2>5. missed' \in SUBSET Blocks
    BY DEF SyncOldFileFails, Inv, TypeOK, Handover, OfImage
  <2>. QED
    BY <2>1, <2>2, <2>3, <2>4, <2>5 DEF Inv, TypeOK, SyncOldFileFails
<1>2. IdsAreFresh'
  BY BackupAssumption DEF Inv, TypeOK, Contents, Device, Handover, File, Run,
    SnapId, SyncOldFileFails, OfImage, MutexFree, IdsAreFresh
<1>3. ChangesKnown'
  <2>1. handover # NoHandover
    BY DEF SyncOldFileFails, MutexFree
  <2>2. files'[dev.file] = files[dev.file]
    BY <2>1, HandoverElsewhere DEF SyncOldFileFails
  <2>3. UNCHANGED <<disk, dev, imgof>> /\ missed \subseteq missed'
    BY DEF SyncOldFileFails
  <2>. QED
    BY <2>1, <2>2, <2>3, HandoverElsewhere DEF Inv, ChangesKnown, Unrecorded, UnrecordedInc,
      Reloadable
<1>4. FileInUse'
  BY BackupAssumption DEF Inv, TypeOK, Contents, Device, Handover, File, Run,
    SnapId, SyncOldFileFails, OfImage, MutexFree, FileInUse, Tracing, Attached, IdsAreFresh
<1>5. HandoverOK'
  BY BackupAssumption DEF Inv, TypeOK, Contents, Device, Handover, File, Run,
    SnapId, SyncOldFileFails, OfImage, MutexFree, HandoverOK, NoHandover, Prev,
    IdsAreFresh
<1>6. Covered'
  <2>. SUFFICES ASSUME Recoverable', imgof' = Prev(dev.id)', NEW f \in Files,
                       files'[f].linked \/ Opened(f)', FilesMatch(f)', NEW b \in Blocks,
                       image'[b] # dev'.snap[b]
                PROVE  b \in files'[f].maps \cup Pending(f)' \cup missed' \cup short'
    BY DEF Covered
  <2>1. handover # NoHandover /\ UNCHANGED <<dev, image, imgof, run, short>>
    BY DEF SyncOldFileFails, MutexFree
  <2>2. /\ files'[f].id = files[f].id /\ files'[f].maps = files[f].maps
        /\ files'[f].linked => files[f].linked
        /\ f = handover.file => ~files'[f].linked
        /\ files'[dev.file] = files[dev.file]
    BY <2>1, HandoverElsewhere DEF SyncOldFileFails, File
  <2>3. b \in files[f].maps \cup Pending(f) \cup missed \cup short
    BY <2>1, <2>2, HandoverElsewhere DEF Inv, Covered, Recoverable, Attached, FilesMatch, Opened
  <2>4. CASE f # handover.file
    BY <2>1, <2>2, <2>3, <2>4 DEF Pending, SyncOldFileFails
  <2>5. CASE f = handover.file
    <3>1. run.pc = "verify" /\ run.file = handover.file
      BY <2>1, <2>2, <2>5 DEF Opened, Inv, RunOK, Working, TypeOK, Run
    <3>2. imgof.uuid = dev.id.uuid
      BY <2>1, PrevId DEF Inv, TypeOK, Device
    <3>. QED
      BY <2>1, <2>2, <2>3, <2>5, <3>1, <3>2 DEF SyncOldFileFails, OfImage, Pending
  <2>. QED
    BY <2>4, <2>5
<1>7. RunOK'
  BY BackupAssumption DEF Inv, TypeOK, Contents, Device, Handover, File, Run,
    SnapId, SyncOldFileFails, OfImage, MutexFree, RunOK, Working, FilesMatch,
    NoHandover, IdsAreFresh, Prev
<1>8. ImageOK'
  BY BackupAssumption DEF Inv, TypeOK, Contents, Device, Handover, File, Run,
    SnapId, SyncOldFileFails, OfImage, MutexFree, ImageOK, IdsAreFresh
<1>9. Progress'
  BY BackupAssumption DEF Inv, TypeOK, Contents, Device, Handover, File, Run,
    SnapId, SyncOldFileFails, OfImage, MutexFree, Progress, Working, RunOK,
    IdsAreFresh, HandoverOK, NoHandover, Prev
<1>10. QED
  BY <1>1, <1>2, <1>3, <1>4, <1>5, <1>6, <1>7, <1>8, <1>9 DEF Inv

LEMMA DeviceFailsKeeps ==
  ASSUME Inv, DeviceFails
  PROVE  Inv'
<1>1. TypeOK'
  <2>1. files' \in [Files -> File]
    BY FileEdited, FileFields DEF Inv, TypeOK, IdsAreFresh, DeviceFails
  <2>2. dev' \in Device
    BY DEF Inv, TypeOK, DeviceFails, Device
  <2>. QED
    BY <2>1, <2>2 DEF Inv, TypeOK, DeviceFails
<1>2. IdsAreFresh'
  BY BackupAssumption DEF Inv, TypeOK, Contents, Device, Handover, File, Run,
    SnapId, DeviceFails, IdsAreFresh
<1>3. ChangesKnown'
  <2>1. /\ dev'.mode = "failed" /\ dev'.file = dev.file
        /\ dev.file \in Files /\ files[dev.file] \in File
    BY DEF Inv, TypeOK, IdsAreFresh, DeviceFails, Device
  <2>2. ~files'[dev.file].clean
    BY <2>1 DEF Inv, TypeOK, FileInUse, Tracing, DeviceFails, File
  <2>. QED
    BY <2>1, <2>2 DEF ChangesKnown, Reloadable
<1>4. FileInUse'
  BY BackupAssumption DEF Inv, TypeOK, Contents, Device, Handover, File, Run,
    SnapId, DeviceFails, FileInUse, Tracing, Attached, IdsAreFresh
<1>5. HandoverOK'
  BY BackupAssumption DEF Inv, TypeOK, Contents, Device, Handover, File, Run,
    SnapId, DeviceFails, HandoverOK, NoHandover, Prev,
    IdsAreFresh
<1>6. Covered'
  BY BackupAssumption DEF Inv, TypeOK, Contents, Device, Handover, File, Run,
    SnapId, DeviceFails, Covered, Opened, Reloadable, Recoverable, Tracing, Attached,
    FilesMatch, Pending, Prev, IdsAreFresh, HandoverOK, NoHandover
<1>7. RunOK'
  BY BackupAssumption DEF Inv, TypeOK, Contents, Device, Handover, File, Run,
    SnapId, DeviceFails, RunOK, Working, FilesMatch,
    NoHandover, IdsAreFresh, Prev
<1>8. ImageOK'
  BY BackupAssumption DEF Inv, TypeOK, Contents, Device, Handover, File, Run,
    SnapId, DeviceFails, ImageOK, IdsAreFresh
<1>9. Progress'
  BY BackupAssumption DEF Inv, TypeOK, Contents, Device, Handover, File, Run,
    SnapId, DeviceFails, Progress, Working, RunOK,
    IdsAreFresh, HandoverOK, NoHandover, Prev
<1>10. QED
  BY <1>1, <1>2, <1>3, <1>4, <1>5, <1>6, <1>7, <1>8, <1>9 DEF Inv

\* What a device is after it lost its manager and its queue.
LEMMA QueueLost ==
  ASSUME Inv, NEW m \in {"failed", "off", "none"}, LosesQueue(m), dev.file \in Files
  PROVE  /\ dev' \in Device /\ dev'.mode = m /\ dev'.id = dev.id /\ dev'.file = dev.file
         /\ dev'.late = {}
         /\ missed' \in SUBSET Blocks /\ missed \subseteq missed'
         /\ imgof.uuid = dev.id.uuid => Unlisted \subseteq missed'
         /\ \A b \in Blocks : b \notin Unlisted => dev'.snap[b] = dev.snap[b]
         /\ \A b \in Unlisted : dev'.snap[b] = IF files[dev.file].inc THEN dev.snap[b]
                                               ELSE disk[b]
<1>1. files[dev.file] \in File /\ dev \in Device /\ disk \in Contents /\ missed \in SUBSET Blocks
  BY DEF Inv, TypeOK
<1>2. Unlisted \in SUBSET Blocks
  BY <1>1 DEF Unlisted, Device
<1>. DEFINE sn == [b \in Blocks |-> IF b \in Unlisted /\ ~files[dev.file].inc
                                    THEN disk[b] ELSE dev.snap[b]]
<1>3. sn \in Contents
  BY <1>1 DEF Contents, Device
<1>4. /\ \A b \in Blocks : b \notin Unlisted => sn[b] = dev.snap[b]
      /\ \A b \in Unlisted : sn[b] = IF files[dev.file].inc THEN dev.snap[b] ELSE disk[b]
  BY <1>1, <1>2 DEF File
<1>5. dev' = [dev EXCEPT !.mode = m, !.changed = {}, !.late = {}, !.snap = sn]
  BY DEF LosesQueue
<1>. HIDE DEF sn
<1>6. /\ dev' \in Device /\ dev'.mode = m /\ dev'.id = dev.id /\ dev'.file = dev.file
      /\ dev'.late = {} /\ dev'.snap = sn
  BY <1>1, <1>3, <1>5 DEF Device
<1>7. missed' = missed \cup OfImage(Unlisted)
  BY DEF LosesQueue
<1>. QED
  BY <1>1, <1>2, <1>4, <1>6, <1>7 DEF OfImage

LEMMA WakeUpKeeps ==
  ASSUME Inv, WakeUp
  PROVE  Inv'
<1>1. TypeOK'
  <2>1. dev.file \in Files /\ files[dev.file] \in File
    BY DEF Inv, TypeOK, IdsAreFresh, WakeUp
  <2>2. [files[dev.file] EXCEPT !.clean = FALSE] \in File
    BY <2>1, FileFields
  <2>3. files' \in [Files -> File]
    BY <2>1, <2>2, FileEdited DEF Inv, TypeOK, WakeUp
  <2>4. dev' \in Device
    BY <2>1 DEF Inv, TypeOK, WakeUp, Device, File
  <2>. QED
    BY <2>3, <2>4 DEF Inv, TypeOK, WakeUp
<1>2. IdsAreFresh'
  BY BackupAssumption DEF Inv, TypeOK, Contents, Device, Handover, File, Run,
    SnapId, WakeUp, IdsAreFresh
<1>3. ChangesKnown'
  BY BackupAssumption DEF Inv, TypeOK, Contents, Device, Handover, File, Run,
    SnapId, WakeUp, ChangesKnown, Unrecorded, UnrecordedInc, Reloadable, Tracing, Attached,
    IdsAreFresh, FileInUse
<1>4. FileInUse'
  BY BackupAssumption DEF Inv, TypeOK, Contents, Device, Handover, File, Run,
    SnapId, WakeUp, FileInUse, Tracing, Attached, IdsAreFresh
<1>5. HandoverOK'
  BY BackupAssumption DEF Inv, TypeOK, Contents, Device, Handover, File, Run,
    SnapId, WakeUp, HandoverOK, NoHandover, Prev, IdsAreFresh
<1>6. Covered'
  BY BackupAssumption DEF Inv, TypeOK, Contents, Device, Handover, File, Run,
    SnapId, WakeUp, Covered, Opened, Reloadable, Recoverable,
    Tracing, Attached, FilesMatch, Pending, Prev, IdsAreFresh, HandoverOK, NoHandover
<1>7. RunOK'
  BY BackupAssumption DEF Inv, TypeOK, Contents, Device, Handover, File, Run,
    SnapId, WakeUp, RunOK, Working, FilesMatch, NoHandover,
    IdsAreFresh, Prev, FileInUse
<1>8. ImageOK'
  BY BackupAssumption DEF Inv, TypeOK, Contents, Device, Handover, File, Run,
    SnapId, WakeUp, ImageOK, IdsAreFresh
<1>9. Progress'
  BY BackupAssumption DEF Inv, TypeOK, Contents, Device, Handover, File, Run,
    SnapId, WakeUp, Progress, Working, RunOK,
    IdsAreFresh, HandoverOK, NoHandover, Prev
<1>10. QED
  BY <1>1, <1>2, <1>3, <1>4, <1>5, <1>6, <1>7, <1>8, <1>9 DEF Inv

LEMMA WakeUpFailsKeeps ==
  ASSUME Inv, WakeUpFails
  PROVE  Inv'
<1>1. TypeOK'
  <2>1. dev.file \in Files /\ files[dev.file] \in File
    BY DEF Inv, TypeOK, IdsAreFresh, WakeUpFails
  <2>2. [files[dev.file] EXCEPT !.clean = FALSE] \in File
    BY <2>1, FileFields
  <2>3. files' \in [Files -> File]
    BY <2>1, <2>2, FileEdited DEF Inv, TypeOK, WakeUpFails
  <2>4. dev' \in Device
    BY <2>1 DEF Inv, TypeOK, WakeUpFails, Device, File
  <2>. QED
    BY <2>3, <2>4 DEF Inv, TypeOK, WakeUpFails
<1>2. IdsAreFresh'
  BY BackupAssumption DEF Inv, TypeOK, Contents, Device, Handover, File, Run,
    SnapId, WakeUpFails, IdsAreFresh
<1>3. ChangesKnown'
  BY BackupAssumption DEF Inv, TypeOK, Contents, Device, Handover, File, Run,
    SnapId, WakeUpFails, ChangesKnown, Unrecorded, UnrecordedInc, Reloadable, Tracing, Attached,
    IdsAreFresh, FileInUse
<1>4. FileInUse'
  BY BackupAssumption DEF Inv, TypeOK, Contents, Device, Handover, File, Run,
    SnapId, WakeUpFails, FileInUse, Tracing, Attached, IdsAreFresh
<1>5. HandoverOK'
  BY BackupAssumption DEF Inv, TypeOK, Contents, Device, Handover, File, Run,
    SnapId, WakeUpFails, HandoverOK, NoHandover, Prev, IdsAreFresh
<1>6. Covered'
  BY BackupAssumption DEF Inv, TypeOK, Contents, Device, Handover, File, Run,
    SnapId, WakeUpFails, Covered, Opened, Reloadable, Recoverable,
    Tracing, Attached, FilesMatch, Pending, Prev, IdsAreFresh, HandoverOK, NoHandover
<1>7. RunOK'
  BY BackupAssumption DEF Inv, TypeOK, Contents, Device, Handover, File, Run,
    SnapId, WakeUpFails, RunOK, Working, FilesMatch, NoHandover,
    IdsAreFresh, Prev, FileInUse
<1>8. ImageOK'
  BY BackupAssumption DEF Inv, TypeOK, Contents, Device, Handover, File, Run,
    SnapId, WakeUpFails, ImageOK, IdsAreFresh
<1>9. Progress'
  BY BackupAssumption DEF Inv, TypeOK, Contents, Device, Handover, File, Run,
    SnapId, WakeUpFails, Progress, Working, RunOK,
    IdsAreFresh, HandoverOK, NoHandover, Prev
<1>10. QED
  BY <1>1, <1>2, <1>3, <1>4, <1>5, <1>6, <1>7, <1>8, <1>9 DEF Inv

LEMMA DormantFailsKeeps ==
  ASSUME Inv, DormantFails
  PROVE  Inv'
<1>1. TypeOK'
  BY BackupAssumption DEF Inv, TypeOK, Contents, Device, Handover, File, Run,
    SnapId, DormantFails, LosesQueue, OfImage, Unlisted, NoHandover
<1>2. IdsAreFresh'
  BY BackupAssumption DEF Inv, TypeOK, Contents, Device, Handover, File, Run,
    SnapId, DormantFails, LosesQueue, OfImage, Unlisted, IdsAreFresh
<1>3. ChangesKnown'
  BY BackupAssumption DEF Inv, TypeOK, Contents, Device, Handover, File, Run, SnapId,
    DormantFails, LosesQueue, OfImage, Unlisted, ChangesKnown, Unrecorded, UnrecordedInc,
    Reloadable, Tracing, Attached, IdsAreFresh, FileInUse
<1>4. FileInUse'
  BY BackupAssumption DEF Inv, TypeOK, Contents, Device, Handover, File, Run,
    SnapId, DormantFails, LosesQueue, OfImage, Unlisted, FileInUse, Tracing, Attached, IdsAreFresh
<1>5. HandoverOK'
  BY BackupAssumption DEF Inv, TypeOK, Contents, Device, Handover, File, Run,
    SnapId, DormantFails, LosesQueue, OfImage, Unlisted, HandoverOK, NoHandover, Prev, IdsAreFresh
<1>6. Covered'
  BY BackupAssumption DEF Inv, TypeOK, Contents, Device, Handover, File, Run,
    SnapId, DormantFails, LosesQueue, OfImage, Unlisted, Covered, Opened, Reloadable, Recoverable,
    Tracing, Attached, FilesMatch, Pending, Prev, IdsAreFresh, HandoverOK, NoHandover
<1>7. RunOK'
  BY BackupAssumption DEF Inv, TypeOK, Contents, Device, Handover, File, Run,
    SnapId, DormantFails, LosesQueue, OfImage, Unlisted, RunOK, Working, FilesMatch, NoHandover,
    IdsAreFresh, Prev, FileInUse
<1>8. ImageOK'
  BY BackupAssumption DEF Inv, TypeOK, Contents, Device, Handover, File, Run,
    SnapId, DormantFails, LosesQueue, OfImage, Unlisted, ImageOK, IdsAreFresh
<1>9. Progress'
  BY BackupAssumption DEF Inv, TypeOK, Contents, Device, Handover, File, Run,
    SnapId, DormantFails, LosesQueue, OfImage, Unlisted, Progress, Working, RunOK,
    IdsAreFresh, HandoverOK, NoHandover, Prev
<1>10. QED
  BY <1>1, <1>2, <1>3, <1>4, <1>5, <1>6, <1>7, <1>8, <1>9 DEF Inv

LEMMA DestroyDeviceKeeps ==
  ASSUME Inv, DestroyDevice
  PROVE  Inv'
<1>0. PICK m \in {"off", "none"} : LosesQueue(m) /\ (m = "off" <=> files[dev.file].clean)
  BY DEF DestroyDevice, Inv, TypeOK, IdsAreFresh, File
<1>q. /\ dev.file \in Files /\ files[dev.file] \in File
      /\ files' \in [Files -> File]
      /\ \A f \in Files : /\ files'[f].id = files[f].id /\ files'[f].inc = files[f].inc
                           /\ files'[f].clean = files[f].clean /\ files'[f].maps = files[f].maps
  <2>1. dev.file \in Files /\ files[dev.file] \in File
    BY DEF DestroyDevice, Inv, TypeOK, IdsAreFresh
  <2>2. CASE files[dev.file].clean
    <3>1. files' = files /\ files \in [Files -> File]
      BY <2>2 DEF DestroyDevice, Inv, TypeOK
    <3>. QED
      BY <2>1, <3>1
  <2>3. CASE ~files[dev.file].clean
    <3>. DEFINE r == [files[dev.file] EXCEPT !.linked = FALSE]
    <3>1. r \in File /\ r.id = files[dev.file].id /\ r.inc = files[dev.file].inc
          /\ r.clean = files[dev.file].clean /\ r.maps = files[dev.file].maps
      BY <2>1, FileFields DEF File
    <3>2. files' = [files EXCEPT ![dev.file] = r] /\ files \in [Files -> File]
      BY <2>3 DEF DestroyDevice, Inv, TypeOK
    <3>. HIDE DEF r
    <3>. QED
      BY <2>1, <3>1, <3>2, FileEdited
  <2>. QED
    BY <2>2, <2>3
<1>1. TypeOK'
  BY <1>0, <1>q, QueueLost DEF DestroyDevice, Inv, TypeOK
<1>2. IdsAreFresh'
  BY BackupAssumption DEF Inv, TypeOK, Contents, Device, Handover, File, Run,
    SnapId, DestroyDevice, LosesQueue, OfImage, Unlisted, MutexFree, NotBusy, IdsAreFresh
<1>3. ChangesKnown'
  <2>1. CASE m = "none"
    BY <1>0, <1>q, <2>1, QueueLost DEF ChangesKnown, Reloadable
  <2>2. CASE m = "off"
    <3>1. dev.mode \in {"dormant", "failed"}
      BY <1>0, <2>2 DEF DestroyDevice, Inv, FileInUse, Tracing
    <3>2. /\ UNCHANGED <<disk, imgof>> /\ dev'.mode = "off" /\ dev'.file = dev.file
          /\ dev'.id = dev.id /\ missed \subseteq missed'
      BY <1>0, <1>q, <2>2, QueueLost DEF DestroyDevice
    <3>3. \A b \in Blocks : disk[b] # dev'.snap[b] =>
             b \in files[dev.file].maps \cup
                  (IF files[dev.file].inc THEN
                     IF imgof.uuid = dev.id.uuid THEN missed' ELSE Blocks ELSE {})
      BY <1>0, <1>q, <2>2, <3>1, <3>2, QueueLost DEF Inv, ChangesKnown, FileInUse, Unrecorded,
        UnrecordedInc, Reloadable, Unlisted, File
    <3>. QED
      BY <1>q, <3>2, <3>3 DEF ChangesKnown, Unrecorded, UnrecordedInc
  <2>. QED
    BY <2>1, <2>2
<1>4. FileInUse'
  BY BackupAssumption DEF Inv, TypeOK, Contents, Device, Handover, File, Run, SnapId,
    DestroyDevice, LosesQueue, OfImage, Unlisted, MutexFree, NotBusy, FileInUse, Tracing,
    Attached, IdsAreFresh
<1>5. HandoverOK'
  BY BackupAssumption DEF Inv, TypeOK, Contents, Device, Handover, File, Run, SnapId,
    DestroyDevice, LosesQueue, OfImage, Unlisted, MutexFree, NotBusy, HandoverOK, NoHandover,
    Prev, IdsAreFresh
<1>6. Covered'
  BY BackupAssumption DEF Inv, TypeOK, Contents, Device, Handover, File, Run, SnapId,
    DestroyDevice, LosesQueue, OfImage, Unlisted, MutexFree, NotBusy, Covered, Opened,
    Reloadable, Recoverable, Tracing, Attached, FilesMatch, Pending, Prev, IdsAreFresh,
    HandoverOK, NoHandover
<1>7. RunOK'
  BY BackupAssumption DEF Inv, TypeOK, Contents, Device, Handover, File, Run, SnapId,
    DestroyDevice, LosesQueue, OfImage, Unlisted, MutexFree, NotBusy, RunOK, Working,
    FilesMatch, NoHandover, IdsAreFresh, Prev
<1>8. ImageOK'
  BY BackupAssumption DEF Inv, TypeOK, Contents, Device, Handover, File, Run,
    SnapId, DestroyDevice, LosesQueue, OfImage, Unlisted, MutexFree, NotBusy, ImageOK, IdsAreFresh
<1>9. Progress'
  BY BackupAssumption DEF Inv, TypeOK, Contents, Device, Handover, File, Run, SnapId,
    DestroyDevice, LosesQueue, OfImage, Unlisted, MutexFree, NotBusy, Progress, Working, RunOK,
    IdsAreFresh, HandoverOK, NoHandover, Prev
<1>10. QED
  BY <1>1, <1>2, <1>3, <1>4, <1>5, <1>6, <1>7, <1>8, <1>9 DEF Inv

LEMMA GoDormantKeeps ==
  ASSUME Inv, GoDormant
  PROVE  Inv'
<1>1. TypeOK'
  <2>1. dev.file \in Files /\ files[dev.file] \in File
    BY DEF Inv, TypeOK, IdsAreFresh, GoDormant
  <2>2. [files[dev.file] EXCEPT !.maps = @ \cup dev.changed, !.clean = TRUE] \in File
    BY <2>1, FileFields DEF Inv, TypeOK, Device, File
  <2>3. files' \in [Files -> File]
    <3>1. files' = [files EXCEPT ![dev.file] =
                      [files[dev.file] EXCEPT !.maps = @ \cup dev.changed, !.clean = TRUE]]
      BY <2>1 DEF Inv, TypeOK, GoDormant
    <3>. QED
      BY <2>1, <2>2, <3>1, FileEdited DEF Inv, TypeOK
  <2>4. dev' \in Device
    BY DEF Inv, TypeOK, GoDormant, Device
  <2>. QED
    BY <2>1, <2>2, <2>3, <2>4 DEF Inv, TypeOK, GoDormant
<1>2. IdsAreFresh'
  BY BackupAssumption DEF Inv, TypeOK, Contents, Device, Handover, File, Run,
    SnapId, GoDormant, MutexFree, IdsAreFresh
<1>3. ChangesKnown'
  <2>1. /\ UNCHANGED <<disk, imgof, missed>> /\ dev'.mode = "dormant" /\ dev'.file = dev.file
        /\ dev'.snap = dev.snap /\ dev'.id = dev.id /\ dev'.changed = dev.changed
    BY DEF GoDormant, Inv, TypeOK, Device
  <2>2. files'[dev.file].inc = files[dev.file].inc
    BY DEF GoDormant, Inv, TypeOK, IdsAreFresh, File
  <2>. QED
    BY <2>1, <2>2 DEF GoDormant, Inv, ChangesKnown, FileInUse, Unrecorded, UnrecordedInc,
      Reloadable
<1>4. FileInUse'
  BY BackupAssumption DEF Inv, TypeOK, Contents, Device, Handover, File, Run,
    SnapId, GoDormant, MutexFree, FileInUse, Tracing, Attached, IdsAreFresh
<1>5. HandoverOK'
  BY BackupAssumption DEF Inv, TypeOK, Contents, Device, Handover, File, Run,
    SnapId, GoDormant, MutexFree, HandoverOK, NoHandover, Prev,
    IdsAreFresh
<1>6. Covered'
  BY BackupAssumption DEF Inv, TypeOK, Contents, Device, Handover, File, Run,
    SnapId, GoDormant, MutexFree, Covered, Opened, Reloadable, Recoverable, Tracing, Attached,
    FilesMatch, Pending, Prev, IdsAreFresh, HandoverOK, NoHandover
<1>7. RunOK'
  BY BackupAssumption DEF Inv, TypeOK, Contents, Device, Handover, File, Run,
    SnapId, GoDormant, MutexFree, RunOK, Working, FilesMatch, NoHandover,
    IdsAreFresh, Prev
<1>8. ImageOK'
  BY BackupAssumption DEF Inv, TypeOK, Contents, Device, Handover, File, Run,
    SnapId, GoDormant, MutexFree, ImageOK, IdsAreFresh
<1>9. Progress'
  BY BackupAssumption DEF Inv, TypeOK, Contents, Device, Handover, File, Run,
    SnapId, GoDormant, MutexFree, Progress, Working, RunOK, IdsAreFresh,
    HandoverOK, NoHandover, Prev
<1>10. QED
  BY <1>1, <1>2, <1>3, <1>4, <1>5, <1>6, <1>7, <1>8, <1>9 DEF Inv

LEMMA PowerOffKeeps ==
  ASSUME Inv, PowerOff
  PROVE  Inv'
<1>0. LosesQueue("off") /\ dev.file \in Files /\ files[dev.file] \in File
  BY DEF PowerOff, Inv, TypeOK, IdsAreFresh
<1>1. TypeOK'
  BY <1>0, QueueLost, IdleIsRun DEF PowerOff, Inv, TypeOK, Handover, NoHandover
<1>2. IdsAreFresh'
  BY BackupAssumption DEF Inv, TypeOK, Contents, Device, Handover, File, Run,
    SnapId, PowerOff, LosesQueue, OfImage, Unlisted, Idle, IdsAreFresh
<1>3. ChangesKnown'
  BY BackupAssumption DEF Inv, TypeOK, Contents, Device, Handover, File, Run, SnapId, PowerOff,
    LosesQueue, OfImage, Unlisted, Idle, ChangesKnown, Unrecorded, UnrecordedInc, Reloadable,
    Tracing, Attached, IdsAreFresh, FileInUse
<1>4. FileInUse'
  BY BackupAssumption DEF Inv, TypeOK, Contents, Device, Handover, File, Run,
    SnapId, PowerOff, LosesQueue, OfImage, Unlisted, Idle, FileInUse, Tracing, Attached, IdsAreFresh
<1>5. HandoverOK'
  BY BackupAssumption DEF Inv, TypeOK, Contents, Device, Handover, File, Run,
    SnapId, PowerOff, LosesQueue, OfImage, Unlisted, Idle, HandoverOK, NoHandover, Prev, IdsAreFresh
<1>6. Covered'
  BY BackupAssumption DEF Inv, TypeOK, Contents, Device, Handover, File, Run, SnapId, PowerOff,
    LosesQueue, OfImage, Unlisted, Idle, Covered, Opened, Reloadable, Recoverable, Tracing,
    Attached, FilesMatch, Pending, Prev, IdsAreFresh, HandoverOK, NoHandover, FileInUse
<1>7. RunOK'
  BY BackupAssumption DEF Inv, TypeOK, Contents, Device, Handover, File, Run, SnapId, PowerOff,
    LosesQueue, OfImage, Unlisted, Idle, RunOK, Working, FilesMatch, NoHandover, IdsAreFresh,
    Prev
<1>8. ImageOK'
  BY BackupAssumption DEF Inv, TypeOK, Contents, Device, Handover, File, Run,
    SnapId, PowerOff, LosesQueue, OfImage, Unlisted, Idle, ImageOK, IdsAreFresh
<1>9. Progress'
  BY BackupAssumption DEF Inv, TypeOK, Contents, Device, Handover, File, Run, SnapId, PowerOff,
    LosesQueue, OfImage, Unlisted, Idle, Progress, Working, RunOK, IdsAreFresh, HandoverOK,
    NoHandover, Prev
<1>10. QED
  BY <1>1, <1>2, <1>3, <1>4, <1>5, <1>6, <1>7, <1>8, <1>9 DEF Inv

LEMMA ReloadKeeps ==
  ASSUME Inv, Reload
  PROVE  Inv'
<1>1. TypeOK'
  <2>1. dev.file \in Files /\ files[dev.file] \in File
    BY DEF Inv, TypeOK, IdsAreFresh, Reload
  <2>2. [files[dev.file] EXCEPT !.clean = FALSE] \in File
    BY <2>1, FileFields
  <2>3. files' \in [Files -> File]
    BY <2>1, <2>2, FileEdited DEF Inv, TypeOK, Reload
  <2>4. dev' \in Device
    BY <2>1 DEF Inv, TypeOK, Reload, Device, File
  <2>. QED
    BY <2>3, <2>4 DEF Inv, TypeOK, Reload
<1>2. IdsAreFresh'
  BY BackupAssumption DEF Inv, TypeOK, Contents, Device, Handover, File, Run,
    SnapId, Reload, IdsAreFresh
<1>3. ChangesKnown'
  BY BackupAssumption DEF Inv, TypeOK, Contents, Device, Handover, File, Run, SnapId, Reload,
    ChangesKnown, Unrecorded, UnrecordedInc, Reloadable, Tracing, Attached, IdsAreFresh
<1>4. FileInUse'
  BY BackupAssumption DEF Inv, TypeOK, Contents, Device, Handover, File, Run,
    SnapId, Reload, FileInUse, Tracing, Attached, IdsAreFresh
<1>5. HandoverOK'
  BY BackupAssumption DEF Inv, TypeOK, Contents, Device, Handover, File, Run,
    SnapId, Reload, HandoverOK, NoHandover, Prev, IdsAreFresh
<1>6. Covered'
  BY BackupAssumption DEF Inv, TypeOK, Contents, Device, Handover, File, Run, SnapId, Reload,
    Covered, Opened, Reloadable, Recoverable, Tracing, Attached, FilesMatch, Pending, Prev,
    IdsAreFresh, HandoverOK, NoHandover
<1>7. RunOK'
  BY BackupAssumption DEF Inv, TypeOK, Contents, Device, Handover, File, Run,
    SnapId, Reload, RunOK, Working, FilesMatch, NoHandover, IdsAreFresh, Prev
<1>8. ImageOK'
  BY BackupAssumption DEF Inv, TypeOK, Contents, Device, Handover, File, Run,
    SnapId, Reload, ImageOK, IdsAreFresh
<1>9. Progress'
  BY BackupAssumption DEF Inv, TypeOK, Contents, Device, Handover, File, Run,
    SnapId, Reload, Progress, Working, RunOK, IdsAreFresh, HandoverOK,
    NoHandover, Prev
<1>10. QED
  BY <1>1, <1>2, <1>3, <1>4, <1>5, <1>6, <1>7, <1>8, <1>9 DEF Inv

LEMMA NotReloadedKeeps ==
  ASSUME Inv, NotReloaded
  PROVE  Inv'
<1>1. TypeOK'
  BY BackupAssumption DEF Inv, TypeOK, Contents, Device, Handover, File, Run,
    SnapId, NotReloaded, NoHandover
<1>2. IdsAreFresh'
  BY BackupAssumption DEF Inv, TypeOK, Contents, Device, Handover, File, Run,
    SnapId, NotReloaded, IdsAreFresh
<1>3. ChangesKnown'
  BY BackupAssumption DEF Inv, TypeOK, Contents, Device, Handover, File, Run, SnapId,
    NotReloaded, ChangesKnown, Unrecorded, UnrecordedInc, Reloadable, Tracing, Attached,
    IdsAreFresh
<1>4. FileInUse'
  BY BackupAssumption DEF Inv, TypeOK, Contents, Device, Handover, File, Run,
    SnapId, NotReloaded, FileInUse, Tracing, Attached, IdsAreFresh
<1>5. HandoverOK'
  BY BackupAssumption DEF Inv, TypeOK, Contents, Device, Handover, File, Run,
    SnapId, NotReloaded, HandoverOK, NoHandover, Prev, IdsAreFresh
<1>6. Covered'
  BY BackupAssumption DEF Inv, TypeOK, Contents, Device, Handover, File, Run, SnapId,
    NotReloaded, Covered, Opened, Reloadable, Recoverable, Tracing, Attached, FilesMatch,
    Pending, Prev, IdsAreFresh, HandoverOK, NoHandover
<1>7. RunOK'
  BY BackupAssumption DEF Inv, TypeOK, Contents, Device, Handover, File, Run,
    SnapId, NotReloaded, RunOK, Working, FilesMatch, NoHandover, IdsAreFresh,
    Prev
<1>8. ImageOK'
  BY BackupAssumption DEF Inv, TypeOK, Contents, Device, Handover, File, Run,
    SnapId, NotReloaded, ImageOK, IdsAreFresh
<1>9. Progress'
  BY BackupAssumption DEF Inv, TypeOK, Contents, Device, Handover, File, Run,
    SnapId, NotReloaded, Progress, Working, RunOK, IdsAreFresh, HandoverOK,
    NoHandover, Prev
<1>10. QED
  BY <1>1, <1>2, <1>3, <1>4, <1>5, <1>6, <1>7, <1>8, <1>9 DEF Inv

LEMMA FullCopyKeeps ==
  ASSUME Inv, FullCopy
  PROVE  Inv'
<1>1. TypeOK'
  BY BackupAssumption DEF Inv, TypeOK, Contents, Device, Handover, File, Run,
    SnapId, FullCopy, NotBusy, NoHandover
<1>2. IdsAreFresh'
  BY BackupAssumption DEF Inv, TypeOK, Contents, Device, Handover, File, Run,
    SnapId, FullCopy, NotBusy, IdsAreFresh
<1>3. ChangesKnown'
  BY BackupAssumption DEF Inv, TypeOK, Contents, Device, Handover, File, Run, SnapId, FullCopy,
    NotBusy, ChangesKnown, Unrecorded, UnrecordedInc, Reloadable, Tracing, Attached, IdsAreFresh
<1>4. FileInUse'
  BY BackupAssumption DEF Inv, TypeOK, Contents, Device, Handover, File, Run,
    SnapId, FullCopy, NotBusy, FileInUse, Tracing, Attached, IdsAreFresh
<1>5. HandoverOK'
  BY BackupAssumption DEF Inv, TypeOK, Contents, Device, Handover, File, Run,
    SnapId, FullCopy, NotBusy, HandoverOK, NoHandover, Prev, IdsAreFresh
<1>6. Covered'
  BY BackupAssumption DEF Inv, TypeOK, Contents, Device, Handover, File, Run, SnapId, FullCopy,
    NotBusy, Covered, Opened, Reloadable, Recoverable, Tracing, Attached, FilesMatch, Pending,
    Prev, IdsAreFresh, HandoverOK, NoHandover
<1>7. RunOK'
  BY BackupAssumption DEF Inv, TypeOK, Contents, Device, Handover, File, Run,
    SnapId, FullCopy, NotBusy, RunOK, Working, FilesMatch, NoHandover,
    IdsAreFresh, Prev
<1>8. ImageOK'
  BY BackupAssumption DEF Inv, TypeOK, Contents, Device, Handover, File, Run,
    SnapId, FullCopy, NotBusy, ImageOK, IdsAreFresh
<1>9. Progress'
  BY BackupAssumption DEF Inv, TypeOK, Contents, Device, Handover, File, Run,
    SnapId, FullCopy, NotBusy, Progress, Working, RunOK, IdsAreFresh,
    HandoverOK, NoHandover, Prev
<1>10. QED
  BY <1>1, <1>2, <1>3, <1>4, <1>5, <1>6, <1>7, <1>8, <1>9 DEF Inv

LEMMA OpenFilesKeeps ==
  ASSUME NEW f \in Files, Inv, OpenFiles(f)
  PROVE  Inv'
<1>1. TypeOK'
  <2>1. run' \in Run
    BY BackupAssumption DEF OpenFiles, Idle, Run
  <2>. QED
    BY <2>1 DEF Inv, TypeOK, OpenFiles
<1>2. IdsAreFresh'
  BY BackupAssumption DEF Inv, TypeOK, Contents, Device, Handover, File, Run,
    SnapId, OpenFiles, Idle, IdsAreFresh
<1>3. ChangesKnown'
  BY BackupAssumption DEF Inv, TypeOK, Contents, Device, Handover, File, Run, SnapId, OpenFiles,
    Idle, ChangesKnown, Unrecorded, UnrecordedInc, Reloadable, Tracing, Attached, IdsAreFresh
<1>4. FileInUse'
  BY BackupAssumption DEF Inv, TypeOK, Contents, Device, Handover, File, Run,
    SnapId, OpenFiles, Idle, FileInUse, Tracing, Attached, IdsAreFresh
<1>5. HandoverOK'
  BY BackupAssumption DEF Inv, TypeOK, Contents, Device, Handover, File, Run,
    SnapId, OpenFiles, Idle, HandoverOK, NoHandover, Prev, IdsAreFresh
<1>6. Covered'
  BY BackupAssumption DEF Inv, TypeOK, Contents, Device, Handover, File, Run, SnapId, OpenFiles,
    Idle, Covered, Opened, Reloadable, Recoverable, Tracing, Attached, FilesMatch, Pending,
    Prev, IdsAreFresh, HandoverOK, NoHandover
<1>7. RunOK'
  BY BackupAssumption DEF Inv, TypeOK, Contents, Device, Handover, File, Run,
    SnapId, OpenFiles, Idle, RunOK, Working, FilesMatch, NoHandover,
    IdsAreFresh, Prev, FileInUse
<1>8. ImageOK'
  BY BackupAssumption DEF Inv, TypeOK, Contents, Device, Handover, File, Run,
    SnapId, OpenFiles, Idle, ImageOK, IdsAreFresh
<1>9. Progress'
  BY BackupAssumption DEF Inv, TypeOK, Contents, Device, Handover, File, Run,
    SnapId, OpenFiles, Idle, Progress, Working, RunOK, IdsAreFresh,
    HandoverOK, NoHandover, Prev
<1>10. QED
  BY <1>1, <1>2, <1>3, <1>4, <1>5, <1>6, <1>7, <1>8, <1>9 DEF Inv

LEMMA VerifyFilesKeeps ==
  ASSUME Inv, VerifyFiles
  PROVE  Inv'
<1>. /\ dev.mode \in {"snap", "dormant", "failed"}
     /\ run.file \in Files /\ run.todo = {} /\ run.chunk = 0
     /\ ~files[dev.file].inc /\ run.pc = "verify" /\ handover = NoHandover
     /\ dev.id \in SnapId /\ dev.id.uuid = chains /\ chains # 0 /\ imgof \in SnapId
     /\ run \in Run /\ chains \in Nat
  BY BackupAssumption DEF Inv, RunOK, VerifyFiles, MutexFree, TypeOK, Device, IdsAreFresh
<1>. UNCHANGED <<disk, dev, handover, files, chains, image, missed, short>>
  BY DEF VerifyFiles
<1>a. CASE ~FilesMatch(run.file)
  <2>. run' = Idle /\ imgof' = imgof
    BY <1>a DEF VerifyFiles
  <2>. Idle.pc = "idle" /\ Idle.todo = {} /\ Idle.err = 0 /\ Idle.chunk = 0
    BY DEF Idle
  <2>. QED
    BY IdleIsRun DEF Inv, TypeOK, IdsAreFresh, ChangesKnown, Unrecorded, UnrecordedInc,
      Reloadable, FileInUse, HandoverOK, Covered, Opened, FilesMatch, Pending, Recoverable,
      Tracing, Attached, RunOK, Working, ImageOK, Progress
<1>b. CASE FilesMatch(run.file)
  <2>. /\ run' = [run EXCEPT !.pc = "read"]
       /\ imgof' = IF imgof \in {dev.id, Prev(dev.id)} THEN Prev(dev.id) ELSE NoId
    BY <1>b DEF VerifyFiles
  <2>. /\ run' \in Run /\ run'.pc = "read" /\ run'.file = run.file
       /\ run'.todo = {} /\ run'.chunk = 0
    BY RunFields, BackupAssumption DEF Run
  <2>1. /\ Prev(dev.id) \in SnapId /\ Prev(dev.id).uuid = chains
        /\ Prev(dev.id).seq <= dev.id.seq /\ Prev(dev.id) # dev.id
    <3>1. files[run.file] \in File /\ files[run.file].id = Prev(dev.id)
      BY <1>b, PrevId DEF Inv, TypeOK, FilesMatch, File
    <3>. QED
      BY <3>1, PrevId DEF File, SnapId
  <2>2. NoId \in SnapId /\ NoId.uuid = 0 /\ NoId # dev.id /\ NoId # Prev(dev.id)
    BY <2>1, BackupAssumption DEF NoId, SnapId
  <2>3. imgof' \in SnapId /\ imgof'.uuid <= chains /\ imgof'.seq <= dev.id.seq /\ imgof' # dev.id
    BY <2>1, <2>2 DEF NoId, SnapId
  <2>4. imgof' = Prev(dev.id) => imgof \in {dev.id, Prev(dev.id)}
    BY <2>2
  <2>5. TypeOK'
    BY <2>3 DEF Inv, TypeOK
  <2>6. IdsAreFresh'
    BY <2>3 DEF Inv, IdsAreFresh
  <2>7. ChangesKnown' /\ FileInUse' /\ HandoverOK'
    BY DEF Inv, ChangesKnown, UnrecordedInc, Reloadable, FileInUse, HandoverOK, Tracing
  <2>8. Covered'
    <3>1. imgof' = Prev(dev.id) =>
            \A f \in Files : (files[f].linked \/ Opened(f)) /\ FilesMatch(f) =>
              \A b \in Blocks : image[b] # dev.snap[b] =>
                b \in files[f].maps \cup Pending(f) \cup missed \cup short
      BY <2>4 DEF Inv, Covered, ImageOK, Recoverable, Attached
    <3>. QED
      BY <3>1 DEF Covered, Opened, FilesMatch, Pending
  <2>9. RunOK'
    BY <1>b, <2>3 DEF RunOK, Working, FilesMatch
  <2>10. ImageOK'
    BY <2>3 DEF Inv, ImageOK
  <2>11. Progress'
    BY BackupAssumption DEF Progress, Working, Blocks
  <2>. QED
    BY <2>5, <2>6, <2>7, <2>8, <2>9, <2>10, <2>11 DEF Inv
<1>. QED
  BY <1>a, <1>b

LEMMA ReadMappingsKeeps ==
  ASSUME Inv, ReadMappings
  PROVE  Inv'
<1>. UNCHANGED <<disk, dev, handover, files, chains, image, imgof, missed, short>>
  BY DEF ReadMappings
<1>1. /\ TypeOK /\ run.pc = "read" /\ dev.mode \in {"snap", "dormant", "failed"}
      /\ run.file \in Files /\ run \in Run
  BY DEF Inv, TypeOK, RunOK, ReadMappings
<1>2. IdsAreFresh' /\ ChangesKnown' /\ FileInUse' /\ HandoverOK' /\ ImageOK'
  BY DEF Inv, IdsAreFresh, ChangesKnown, Unrecorded, UnrecordedInc, Reloadable, FileInUse,
    HandoverOK, ImageOK, Tracing
<1>c. Covered'
  <2>1. \A f \in Files : Opened(f)' => Opened(f)
    <3>1. run'.pc # "idle" => run'.file = run.file
      <4>. DEFINE t == ChunkBlocks(run.chunk) \cap files[run.file].maps
      <4>1. run' = [run EXCEPT !.pc = "copy", !.todo = t] \/ run' = Idle
        BY DEF ReadMappings
      <4>. HIDE DEF t
      <4>2. CASE run' = [run EXCEPT !.pc = "copy", !.todo = t]
        BY <1>1, <4>2 DEF Run
      <4>3. CASE run' = Idle
        BY <4>3 DEF Idle
      <4>. QED
        BY <4>1, <4>2, <4>3
    <3>. QED
      BY <1>1, <3>1 DEF Opened
  <2>. QED
    BY <2>1 DEF Inv, Covered, Recoverable, Reloadable, Attached, FilesMatch, Pending
<1>3. CASE run' = Idle
  <2>1. Idle.pc = "idle" /\ Idle.todo = {}
    BY DEF Idle
  <2>2. TypeOK' /\ RunOK' /\ Progress'
    BY <1>1, <1>3, <2>1, IdleIsRun DEF TypeOK, RunOK, Working, Progress
  <2>. QED
    BY <1>2, <1>c, <2>2 DEF Inv
<1>4. CASE run' # Idle
  <2>. DEFINE t == ChunkBlocks(run.chunk) \cap files[run.file].maps
  <2>1. run' = [run EXCEPT !.pc = "copy", !.todo = t]
    BY <1>4 DEF ReadMappings
  <2>2. t \in SUBSET Blocks
    BY DEF ChunkBlocks
  <2>3. t \subseteq files[run.file].maps
    OBVIOUS
  <2>4. \A b \in Blocks : b \in files[run.file].maps /\ ChunkSize * run.chunk <= b =>
          b \in t \/ ChunkSize * (run.chunk + 1) <= b
    <3>1. ChunkSize * (run.chunk + 1) \in Int
      BY <1>1, BackupAssumption DEF Run
    <3>. QED
      BY <3>1 DEF ChunkBlocks, Blocks
  <2>. HIDE DEF t
  <2>5. /\ run' \in Run /\ run'.pc = "copy" /\ run'.todo = t /\ run'.file = run.file
        /\ run'.chunk = run.chunk /\ run'.err = run.err
    BY <1>1, <2>1, <2>2, RunFields DEF Run
  <2>6. TypeOK'
    BY <1>1, <2>5 DEF TypeOK
  <2>7. RunOK'
    BY <1>1, <2>3, <2>5 DEF Inv, RunOK, Working, FilesMatch
  <2>8. Progress'
    <3>. SUFFICES ASSUME run.err = 0, imgof = Prev(dev.id),
                         NEW b \in Blocks \ (missed \cup short), image[b] # dev.snap[b]
                  PROVE  b \in t \/ ChunkSize * (run.chunk + 1) <= b
      BY <2>5 DEF Progress, Working
    <3>1. ChunkSize * run.chunk <= b
      BY <1>1 DEF Inv, Progress, Working
    <3>2. handover = NoHandover /\ FilesMatch(run.file)
      BY <1>1 DEF Inv, RunOK, Working
    <3>3. Pending(run.file) = {}
      BY <3>2 DEF Pending, NoHandover
    <3>4. b \in files[run.file].maps
      BY <1>1, <3>2, <3>3 DEF Inv, Covered, Opened, Recoverable, Attached
    <3>. QED
      BY <2>4, <3>1, <3>4
  <2>. QED
    BY <1>2, <1>c, <2>6, <2>7, <2>8 DEF Inv
<1>5. QED
  BY <1>3, <1>4

LEMMA CopyNextKeeps ==
  ASSUME Inv, CopyNext
  PROVE  Inv'
<1>. PICK b \in run.todo : \E o \in CopyBlock(b) :
       /\ image' = [image EXCEPT ![b] = o.val]
       /\ run' = [run EXCEPT !.todo = run.todo \ {b}, !.err = Counted(run.err, o.ret)]
       /\ missed' = IF o.whole THEN missed \ {b} ELSE missed
       /\ short' = IF o.whole THEN short \ {b}
                   ELSE IF o.ret = 0 THEN short \cup OfImage({b}) ELSE short
  BY DEF CopyNext
<1>. PICK o \in CopyBlock(b) :
       /\ image' = [image EXCEPT ![b] = o.val]
       /\ run' = [run EXCEPT !.todo = run.todo \ {b}, !.err = Counted(run.err, o.ret)]
       /\ missed' = IF o.whole THEN missed \ {b} ELSE missed
       /\ short' = IF o.whole THEN short \ {b}
                   ELSE IF o.ret = 0 THEN short \cup OfImage({b}) ELSE short
  BY DEF CopyNext
<1>1. /\ run \in Run /\ run.pc = "copy" /\ run.file \in Files
      /\ dev.mode \in {"snap", "dormant", "failed"}
      /\ handover = NoHandover /\ imgof # dev.id /\ FilesMatch(run.file)
      /\ b \in files[run.file].maps /\ b \in Blocks /\ image \in Contents
      /\ dev \in Device
  BY DEF Inv, TypeOK, RunOK, Working, CopyNext, Run
<1>2. UNCHANGED <<disk, dev, handover, files, chains, imgof>>
  BY DEF CopyNext
<1>3. /\ o.val \in Values /\ o.ret \in {0, 1} /\ o.whole \in BOOLEAN
      /\ o.whole => o.val = dev.snap[b]
  <2>. DEFINE vals == IF PartialTail /\ b = NumBlocks - 1 THEN {image[b]} ELSE Values
  <2>1. vals \subseteq Values /\ dev.snap[b] \in Values
    BY <1>1 DEF Contents, Device
  <2>2. \/ o \in [val : vals, ret : {0, 1}, whole : {FALSE}]
        \/ o = [val |-> dev.snap[b], ret |-> 0, whole |-> TRUE]
    BY DEF CopyBlock
  <2>. HIDE DEF vals
  <2>3. CASE o \in [val : vals, ret : {0, 1}, whole : {FALSE}]
    <3>1. o.val \in vals /\ o.ret \in {0, 1} /\ o.whole = FALSE
      BY <2>3
    <3>. QED
      BY <2>1, <3>1
  <2>4. CASE o = [val |-> dev.snap[b], ret |-> 0, whole |-> TRUE]
    <3>1. o.val = dev.snap[b] /\ o.ret = 0 /\ o.whole = TRUE
      BY <2>4
    <3>. QED
      BY <2>1, <3>1
  <2>. QED
    BY <2>2, <2>3, <2>4
<1>s. /\ missed' \in SUBSET Blocks /\ short' \in SUBSET Blocks
      /\ missed \ {b} \subseteq missed' /\ short \ {b} \subseteq short'
      /\ missed' \subseteq missed
      /\ b \in missed \ missed' => o.whole
      /\ b \in short \ short' => o.whole
      /\ ~o.whole /\ o.ret = 0 /\ imgof.uuid = dev.id.uuid => b \in short'
  BY <1>1, <1>3 DEF Inv, TypeOK, OfImage
<1>u. /\ dev.mode \in {"snap", "failed"} /\ ~files[dev.file].inc
      /\ imgof = Prev(dev.id) => imgof.uuid = dev.id.uuid
  BY <1>1, PrevId DEF CopyNext, Inv, RunOK, TypeOK, Device
<1>4. image' \in Contents /\ \A c \in Blocks : c # b => image'[c] = image[c]
  BY <1>1, <1>3 DEF Contents
<1>5. image'[b] = o.val
  BY <1>1 DEF Contents
<1>6. /\ Counted(run.err, o.ret) \in 0 .. MaxErrors
      /\ Counted(run.err, o.ret) = 0 => run.err = 0 /\ o.ret = 0
  BY <1>1, <1>3, BackupAssumption DEF Counted, Run
<1>7. /\ run' \in Run /\ run'.pc = "copy" /\ run'.file = run.file
      /\ run'.chunk = run.chunk /\ run'.todo = run.todo \ {b}
      /\ run'.err = Counted(run.err, o.ret)
  <2>1. run.todo \ {b} \in SUBSET Blocks /\ run.chunk \in Nat
    BY <1>1 DEF Run
  <2>. QED
    BY <1>1, <1>6, <2>1, RunFields DEF Run
<1>8. TypeOK'
  BY <1>2, <1>4, <1>7, <1>s DEF Inv, TypeOK
<1>9. IdsAreFresh' /\ ChangesKnown' /\ FileInUse' /\ HandoverOK'
  BY <1>2, <1>u DEF Inv, IdsAreFresh, ChangesKnown, UnrecordedInc, Reloadable, FileInUse,
    HandoverOK, Tracing
<1>10. Covered'
  <2>1. \A g \in Files : FilesMatch(g) => g = run.file
    <3>1. dev.id.uuid # 0
      BY <1>1 DEF Inv, IdsAreFresh
    <3>2. \A g \in Files : FilesMatch(g) => files[g].id = Prev(dev.id)
      BY <1>1, PrevId DEF Inv, TypeOK, File, Device, FilesMatch
    <3>. QED
      BY <1>1, <3>1, <3>2 DEF Inv, IdsAreFresh, FilesMatch
  <2>2. \A g \in Files : Opened(g)' => Opened(g)
    BY <1>1, <1>7 DEF Opened
  <2>. QED
    BY <1>1, <1>2, <1>4, <1>s, <2>1, <2>2 DEF Inv, Covered, Reloadable, Recoverable, Attached,
      FilesMatch, Pending
<1>11. RunOK'
  BY <1>1, <1>2, <1>7 DEF Inv, RunOK, Working, FilesMatch
<1>12. ImageOK'
  BY <1>1, <1>2 DEF ImageOK
<1>13. Progress'
  <2>. SUFFICES ASSUME run'.err = 0, imgof = Prev(dev.id),
                       NEW c \in Blocks, c \notin missed' \cup short',
                       image'[c] # dev.snap[c]
                PROVE  c \in run.todo \ {b} \/ ChunkSize * (run.chunk + 1) <= c
    BY <1>2, <1>7 DEF Progress, Working
  <2>1. run.err = 0 /\ o.ret = 0
    BY <1>6, <1>7
  <2>2. c # b
    BY <1>3, <1>5, <1>s, <1>u, <2>1
  <2>3. c \notin missed \cup short /\ image[c] # dev.snap[c]
    BY <1>4, <1>s, <2>2
  <2>. QED
    BY <1>1, <2>1, <2>2, <2>3 DEF Inv, Progress, Working
<1>14. QED
  BY <1>8, <1>9, <1>10, <1>11, <1>12, <1>13 DEF Inv

LEMMA ChunkDoneKeeps ==
  ASSUME Inv, ChunkDone
  PROVE  Inv'
<1>1. TypeOK'
  <2>1. run.chunk + 1 \in Nat
    BY DEF Inv, TypeOK, Run
  <2>2. run' \in Run
    BY <2>1, RunFields DEF Inv, TypeOK, ChunkDone
  <2>. QED
    BY <2>1, <2>2 DEF Inv, TypeOK, ChunkDone
<1>2. IdsAreFresh'
  BY BackupAssumption DEF Inv, TypeOK, Contents, Device, Handover, File, Run,
    SnapId, ChunkDone, IdsAreFresh
<1>3. ChangesKnown'
  BY BackupAssumption DEF Inv, TypeOK, Contents, Device, Handover, File, Run, SnapId, ChunkDone,
    ChangesKnown, Unrecorded, UnrecordedInc, Reloadable, Tracing, Attached, IdsAreFresh
<1>4. FileInUse'
  BY BackupAssumption DEF Inv, TypeOK, Contents, Device, Handover, File, Run,
    SnapId, ChunkDone, FileInUse, Tracing, Attached, IdsAreFresh
<1>5. HandoverOK'
  BY BackupAssumption DEF Inv, TypeOK, Contents, Device, Handover, File, Run,
    SnapId, ChunkDone, HandoverOK, NoHandover, Prev, IdsAreFresh
<1>6. Covered'
  BY BackupAssumption DEF Inv, TypeOK, Contents, Device, Handover, File, Run, SnapId, ChunkDone,
    Covered, Opened, Reloadable, Recoverable, Tracing, Attached, FilesMatch, Pending, Prev,
    IdsAreFresh, HandoverOK, NoHandover
<1>7. RunOK'
  BY BackupAssumption DEF Inv, TypeOK, Contents, Device, Handover, File, Run,
    SnapId, ChunkDone, RunOK, Working, FilesMatch, NoHandover, IdsAreFresh,
    Prev
<1>8. ImageOK'
  BY BackupAssumption DEF Inv, TypeOK, Contents, Device, Handover, File, Run,
    SnapId, ChunkDone, ImageOK, IdsAreFresh
<1>9. Progress'
  BY BackupAssumption DEF Inv, TypeOK, Contents, Device, Handover, File, Run,
    SnapId, ChunkDone, Progress, Working, RunOK, IdsAreFresh, HandoverOK,
    NoHandover, Prev
<1>10. QED
  BY <1>1, <1>2, <1>3, <1>4, <1>5, <1>6, <1>7, <1>8, <1>9 DEF Inv

LEMMA CompleteKeeps ==
  ASSUME Inv, Complete
  PROVE  Inv'
<1>1. TypeOK'
  BY BackupAssumption DEF Inv, TypeOK, Contents, Device, Handover, File, Run,
    SnapId, Complete, Idle, NoHandover
<1>2. IdsAreFresh'
  BY BackupAssumption DEF Inv, TypeOK, Contents, Device, Handover, File, Run,
    SnapId, Complete, Idle, IdsAreFresh, RunOK
<1>3. ChangesKnown'
  BY DEF Inv, RunOK, Complete, ChangesKnown, UnrecordedInc, Reloadable, FileInUse
<1>4. FileInUse'
  BY BackupAssumption DEF Inv, TypeOK, Contents, Device, Handover, File, Run,
    SnapId, Complete, Idle, FileInUse, Tracing, Attached, IdsAreFresh
<1>5. HandoverOK'
  BY BackupAssumption DEF Inv, TypeOK, Contents, Device, Handover, File, Run,
    SnapId, Complete, Idle, HandoverOK, NoHandover, Prev, IdsAreFresh
<1>6. Covered'
  BY BackupAssumption DEF Inv, TypeOK, Contents, Device, Handover, File, Run,
    SnapId, Complete, Idle, Covered, Opened, Reloadable, Recoverable, Tracing, Attached, FilesMatch,
    Pending, Prev, IdsAreFresh, HandoverOK, NoHandover
<1>7. RunOK'
  BY BackupAssumption DEF Inv, TypeOK, Contents, Device, Handover, File, Run,
    SnapId, Complete, Idle, RunOK, Working, FilesMatch, NoHandover,
    IdsAreFresh, Prev
<1>8. ImageOK'
  <2>1. /\ run.pc = "read" /\ run.chunk = TotalChunks /\ UNCHANGED <<dev, image, missed, short>>
        /\ imgof' # imgof =>
             run.err = 0 /\ imgof = Prev(dev.id)
    BY DEF Complete
  <2>2. CASE imgof' = imgof
    BY <2>1, <2>2 DEF Inv, ImageOK
  <2>3. CASE imgof' # imgof
    <3>1. \A b \in Blocks \ (missed \cup short) :
            image[b] # dev.snap[b] => ChunkSize * TotalChunks <= b
      BY <2>1, <2>3 DEF Inv, Progress, Working
    <3>2. \A b \in Blocks : ~(ChunkSize * TotalChunks <= b)
      BY ChunksCoverBlocks
    <3>. QED
      BY <2>1, <3>1, <3>2 DEF ImageOK
  <2>. QED
    BY <2>2, <2>3
<1>9. Progress'
  BY BackupAssumption DEF Inv, TypeOK, Contents, Device, Handover, File, Run,
    SnapId, Complete, Idle, Progress, Working, RunOK, IdsAreFresh, HandoverOK,
    NoHandover, Prev
<1>10. QED
  BY <1>1, <1>2, <1>3, <1>4, <1>5, <1>6, <1>7, <1>8, <1>9 DEF Inv

LEMMA KilledKeeps ==
  ASSUME Inv, Killed
  PROVE  Inv'
<1>1. TypeOK'
  BY BackupAssumption DEF Inv, TypeOK, Contents, Device, Handover, File, Run,
    SnapId, Killed, Idle, NoHandover
<1>2. IdsAreFresh'
  BY BackupAssumption DEF Inv, TypeOK, Contents, Device, Handover, File, Run,
    SnapId, Killed, Idle, IdsAreFresh
<1>3. ChangesKnown'
  BY BackupAssumption DEF Inv, TypeOK, Contents, Device, Handover, File, Run, SnapId, Killed,
    Idle, ChangesKnown, Unrecorded, UnrecordedInc, Reloadable, Tracing, Attached, IdsAreFresh
<1>4. FileInUse'
  BY BackupAssumption DEF Inv, TypeOK, Contents, Device, Handover, File, Run,
    SnapId, Killed, Idle, FileInUse, Tracing, Attached, IdsAreFresh
<1>5. HandoverOK'
  BY BackupAssumption DEF Inv, TypeOK, Contents, Device, Handover, File, Run,
    SnapId, Killed, Idle, HandoverOK, NoHandover, Prev, IdsAreFresh
<1>6. Covered'
  BY BackupAssumption DEF Inv, TypeOK, Contents, Device, Handover, File, Run, SnapId, Killed,
    Idle, Covered, Opened, Reloadable, Recoverable, Tracing, Attached, FilesMatch, Pending,
    Prev, IdsAreFresh, HandoverOK, NoHandover
<1>7. RunOK'
  BY BackupAssumption DEF Inv, TypeOK, Contents, Device, Handover, File, Run,
    SnapId, Killed, Idle, RunOK, Working, FilesMatch, NoHandover, IdsAreFresh,
    Prev
<1>8. ImageOK'
  BY BackupAssumption DEF Inv, TypeOK, Contents, Device, Handover, File, Run,
    SnapId, Killed, Idle, ImageOK, IdsAreFresh
<1>9. Progress'
  BY BackupAssumption DEF Inv, TypeOK, Contents, Device, Handover, File, Run,
    SnapId, Killed, Idle, Progress, Working, RunOK, IdsAreFresh, HandoverOK,
    NoHandover, Prev
<1>10. QED
  BY <1>1, <1>2, <1>3, <1>4, <1>5, <1>6, <1>7, <1>8, <1>9 DEF Inv

-----------------------------------------------------------------------------
(* The theorems.                                                           *)

LEMMA InvStutters == Inv /\ UNCHANGED vars => Inv'
  BY DEF Inv, vars, TypeOK, IdsAreFresh, ChangesKnown, Unrecorded, UnrecordedInc, Reloadable,
    FileInUse, HandoverOK, Covered, Opened, RunOK, ImageOK, Progress, Tracing, Attached,
    Recoverable, Working, FilesMatch, Pending

LEMMA InvInitially == Init => Inv
<1>. SUFFICES ASSUME Init PROVE Inv
  OBVIOUS
<1>1. NoId \in SnapId /\ NoId.uuid = 0
  BY BackupAssumption DEF NoId, SnapId
<1>2. NoFile \in File /\ NoFile.id = NoId
  BY <1>1 DEF NoFile, File
<1>3. NoHandover \in Handover /\ dev \in Device /\ dev.mode = "none"
  BY <1>1 DEF Init, NoHandover, Handover, Device
<1>4. Idle.pc = "idle" /\ Idle.todo = {}
  BY DEF Idle
<1>5. TypeOK
  BY <1>1, <1>2, <1>3, IdleIsRun, BackupAssumption DEF Init, TypeOK
<1>6. IdsAreFresh
  BY <1>1, <1>2, <1>3 DEF Init, IdsAreFresh
<1>. QED
  BY <1>3, <1>4, <1>5, <1>6 DEF Init, Inv, ChangesKnown, Unrecorded, UnrecordedInc, Reloadable,
    FileInUse, HandoverOK, Covered, Opened, RunOK, ImageOK, Progress, Tracing, Attached,
    Recoverable, Working

\* Inv is inductive.
LEMMA InvInductive ==
  ASSUME Inv, [Next]_vars
  PROVE  Inv'
<1>1. CASE Driver
  BY <1>1, WriteKeeps, EvictKeeps, SetupSnapshotKeeps, TransitionToIncrementalKeeps,
    TransitionToSnapshotKeeps, TransitionFailsKeeps, SyncOldFileKeeps, SyncOldFileFailsKeeps,
    DeviceFailsKeeps, GoDormantKeeps, WakeUpKeeps, WakeUpFailsKeeps, DormantFailsKeeps,
    DestroyDeviceKeeps, PowerOffKeeps, ReloadKeeps, NotReloadedKeeps DEF Driver
<1>2. CASE FullCopy
  BY <1>2, FullCopyKeeps
<1>3. CASE UpdateImg
  BY <1>3, OpenFilesKeeps, VerifyFilesKeeps, ReadMappingsKeeps, CopyNextKeeps, ChunkDoneKeeps,
    CompleteKeeps, KilledKeeps DEF UpdateImg
<1>4. CASE UNCHANGED vars
  BY <1>4, InvStutters
<1>. QED
  BY <1>1, <1>2, <1>3, <1>4 DEF Next

\* The variables of the backup cycle keep their types.
THEOREM BackupTypes == Spec => []TypeOK
<1>1. Inv => TypeOK
  BY DEF Inv
<1>. QED
  BY <1>1, InvInitially, InvInductive, PTL DEF Spec

\* Whatever update-img accepts as the COW file of the snapshot before has a
\* mapping for every block it has to copy: verify_files() is enough, through
\* crashes, umounts, reloads and failed transitions, for chains of every length,
\* but for blocks that changed after a close, with nothing left to list them, and
\* blocks that an earlier run left incomplete.
THEOREM UpdateHasEveryBlock == Spec => []DiffCovered
<1>1. Inv => DiffCovered
  <2>. SUFFICES ASSUME Inv, dev.mode = "snap", MutexFree, imgof = Prev(dev.id),
                       NEW f \in Files, files[f].linked, FilesMatch(f),
                       NEW b \in Differs
                PROVE  b \in files[f].maps \cup missed \cup short
    BY DEF DiffCovered
  <2>1. b \in Blocks /\ image[b] # dev.snap[b]
    BY DEF Differs
  <2>2. Pending(f) = {}
    BY DEF Pending, MutexFree, NoHandover
  <2>. QED
    BY <2>1, <2>2 DEF Inv, Covered, Opened, Reloadable, Recoverable, Tracing, Attached
<1>. QED
  BY <1>1, InvInitially, InvInductive, PTL DEF Spec

\* An image copied from a snapshot, or brought up to it by a run of update-img
\* that reports no error, is the snapshot, but for the blocks that changed
\* unrecorded and those whose transfer was cut short.
THEOREM UpdatedImageIsSnapshot == Spec => []ImageIsSnapshot
<1>1. Inv => ImageIsSnapshot
  BY DEF Inv, ImageOK, ImageIsSnapshot, Differs
<1>. QED
  BY <1>1, InvInitially, InvInductive, PTL DEF Spec
=============================================================================
