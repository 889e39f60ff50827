--------------------------- MODULE TrackingProofs ---------------------------
(***************************************************************************)
(* Proofs about Tracking, for every set of blocks and every length of the  *)
(* queue, with errors at any time.  TypeOK and ControlInv are inductive,   *)
(* ManagerInv is inductive relative to them, and ChangesInv relative to    *)
(* all three.                                                              *)
(***************************************************************************)
EXTENDS Tracking, TLAPS

\* NoDev is not a device.
LEMMA NoDevIsNone == NoDev \notin Device
  BY DEF NoDev, Device

\* A device that is there has the fields of struct snap_device.
LEMMA DevType ==
  ASSUME TypeOK, NEW d \in {"dev", "old"}, sd[d] # NoDev
  PROVE  sd[d] \in Device
  BY DEF TypeOK

\* The COW files are well typed.
LEMMA EpType ==
  ASSUME TypeOK
  PROVE  ep.cur \in Epoch /\ ep.prev \in Epoch
  BY DEF TypeOK

\* A COW file that is not there, and one just created, are well typed.
LEMMA NoEpochType == NoEpoch \in Epoch /\ NewEpoch \in Epoch
  BY DEF NoEpoch, NewEpoch, Epoch

\* What is done to a COW file keeps it well typed.
LEMMA EpochOps ==
  ASSUME NEW e \in Epoch
  PROVE  /\ \A b \in Blocks : /\ Losing(e, b) \in Epoch
                              /\ Failing(e, b) \in Epoch
                              /\ Recording(e, b) \in Epoch
         /\ OnDisk(e) \in Epoch
         /\ HandedOver(e) \in Epoch
         /\ Freed(e, "freed") \in Epoch
         /\ Freed(e, "none") \in Epoch
  BY DEF Losing, Failing, Recording, OnDisk, HandedOver, Freed, Epoch, NoEpoch

\* The values sd takes.
Devices == [dev : Device \cup {NoDev}, old : Device \cup {NoDev}]
\* The values ep takes.
Epochs == [cur : Epoch, prev : Epoch]

\* Replacing one device keeps sd well typed.
LEMMA SetDevType ==
  ASSUME TypeOK, NEW d \in {"dev", "old"}, NEW v \in Device \cup {NoDev}
  PROVE  [sd EXCEPT ![d] = v] \in Devices
  BY DEF TypeOK, Devices

\* Replacing one COW file keeps ep well typed.
LEMMA SetEpochType ==
  ASSUME TypeOK, NEW k \in {"cur", "prev"}, NEW v \in Epoch
  PROVE  [ep EXCEPT ![k] = v] \in Epochs
  BY DEF TypeOK, Epochs

\* sd and ep are records.
LEMMA Shapes ==
  ASSUME TypeOK
  PROVE  /\ sd = [dev |-> sd.dev, old |-> sd.old]
         /\ ep = [cur |-> ep.cur, prev |-> ep.prev]
         /\ ep.cur \in Epoch /\ ep.prev \in Epoch
  BY DEF TypeOK

\* Writes keep the state well typed.
LEMMA WriterType ==
  ASSUME TypeOK, Writer
  PROVE  TypeOK'
  <1>. PICK b \in Blocks :
         \/ \E page \in Pages :
              \/ TraceInc(b, page) \/ TraceSnap(b, page)
              \/ TraceWriteFails(b, page) \/ PassWrite(b, page)
         \/ CloneCompletes(b) \/ CloneFails(b)
         \/ WriteLands(b)
    BY DEF Writer
  <1>. USE EpType
  <1>0. ASSUME sd.dev \in Device
        PROVE  Queueing(b) \in Epoch
    BY <1>0 DEF Queueing, dev, cur, Epoch
  <1>1. ASSUME NEW page \in Pages, TraceInc(b, page)
        PROVE  TypeOK'
    <2>1. sd.dev \in Device
      BY <1>1, DevType DEF TraceInc, NeedsTrace, Traced, dev
    <2>5. Append(sd.dev.queue, b) \in Seq(Blocks)
      BY <2>1 DEF Device
    <2>2. [sd.dev EXCEPT !.queue = Append(@, b)] \in Device
      BY <2>1, <2>5 DEF Device
    <2>3. sd' \in Devices
      BY <2>2, <1>1, SetDevType DEF TraceInc
    <2>4. ep' \in Epochs
      BY <1>0, <1>1, <2>1, SetEpochType DEF TraceInc
    <2>. QED  BY <1>1, <2>3, <2>4 DEF TraceInc, Arrives, TypeOK, Devices, Epochs
  <1>2. ASSUME NEW page \in Pages, TraceSnap(b, page)
        PROVE  TypeOK'
    <2>1. sd.dev \in Device
      BY <1>2, DevType DEF TraceSnap, NeedsTrace, Traced, dev
    <2>2. [sd.dev EXCEPT !.clones = @ \cup {b}] \in Device
      BY <2>1 DEF Device
    <2>3. sd' \in Devices
      BY <2>2, <1>2, SetDevType DEF TraceSnap
    <2>. QED  BY <1>2, <2>3 DEF TraceSnap, Arrives, TypeOK, Devices
  <1>3. ASSUME NEW page \in Pages, TraceWriteFails(b, page)
        PROVE  TypeOK'
    <2>1. sd.dev \in Device
      BY <1>3, DevType DEF TraceWriteFails, NeedsTrace, Traced, dev
    <2>2. [sd.dev EXCEPT !.fail = TRUE] \in Device
      BY <2>1 DEF Device
    <2>3. sd' \in Devices
      BY <2>2, <1>3, SetDevType DEF TraceWriteFails
    <2>4. ep' \in Epochs
      BY <1>3, EpochOps, SetEpochType DEF TraceWriteFails
    <2>. QED  BY <1>3, <2>3, <2>4 DEF TraceWriteFails, Arrives, TypeOK, Devices, Epochs
  <1>4. ASSUME NEW page \in Pages, PassWrite(b, page)
        PROVE  TypeOK'
    <2>4. ep' \in Epochs
      BY <1>4, EpochOps, SetEpochType DEF PassWrite
    <2>. QED  BY <1>4, <2>4 DEF PassWrite, Arrives, TypeOK, Epochs
  <1>5. CASE CloneCompletes(b)
    <2>1. sd.dev \in Device
      BY <1>5, DevType DEF CloneCompletes, Clones, dev
    <2>5. Append(sd.dev.queue, b) \in Seq(Blocks)
      BY <2>1 DEF Device
    <2>2. [sd.dev EXCEPT !.clones = @ \ {b}, !.queue = Append(@, b)] \in Device
      BY <2>1, <2>5 DEF Device
    <2>3. sd' \in Devices
      BY <2>2, <1>5, Shapes DEF CloneCompletes, Devices, TypeOK
    <2>4. ep' \in Epochs
      BY <1>0, <1>5, <2>1, SetEpochType DEF CloneCompletes
    <2>. QED  BY <1>5, <2>3, <2>4 DEF CloneCompletes, TypeOK, Devices, Epochs
  <1>6. CASE CloneFails(b)
    <2>1. sd.dev \in Device
      BY <1>6, DevType DEF CloneFails, Clones, dev
    <2>2. [sd.dev EXCEPT !.clones = @ \ {b}, !.lag = TRUE, !.fail = TRUE] \in Device
      BY <2>1 DEF Device
    <2>3. sd' \in Devices
      BY <2>2, <1>6, Shapes DEF CloneFails, Devices, TypeOK
    <2>4. ep' \in Epochs
      BY <1>6, EpochOps, SetEpochType DEF CloneFails
    <2>. QED  BY <1>6, <2>3, <2>4 DEF CloneFails, TypeOK, Devices, Epochs
  <1>7. CASE WriteLands(b)
    <2>4. ep' \in Epochs
      BY <1>7 DEF WriteLands, TypeOK, Epoch, Epochs
    <2>. QED  BY <1>7, <2>4 DEF WriteLands, TypeOK, Epochs
  <1>. QED  BY <1>1, <1>2, <1>3, <1>4, <1>5, <1>6, <1>7

\* The COW threads keep the state well typed.
LEMMA ThreadType ==
  ASSUME TypeOK, NEW d \in {"dev", "old"}, Thread(d)
  PROVE  TypeOK'
  <1>. DEFINE k == EpochOf(d)
  <1>1. k \in {"cur", "prev"}
    BY DEF EpochOf
  <1>2. sd[d] \in Device
    BY DevType DEF Thread, ThreadNotices, ThreadRecords, ThreadFails, ThreadDrops,
                   ThreadLeaves, ThreadCompares, Awake
  <1>3. ep[k] \in Epoch
    BY <1>1, EpType
  <1>. HIDE DEF k
  <1>4. CASE ThreadNotices(d)
    <2>1. [sd[d] EXCEPT !.seen = TRUE] \in Device
      BY <1>2 DEF Device
    <2>2. sd' \in Devices
      BY <1>4, <2>1, SetDevType DEF ThreadNotices
    <2>3. ep' \in Epochs
      BY <1>4, <1>1, <1>3, EpochOps, SetEpochType DEF ThreadNotices, k
    <2>. QED  BY <1>4, <2>2, <2>3 DEF ThreadNotices, TypeOK, Devices, Epochs
  <1>5. CASE ThreadRecords(d)
    <2>1. sd[d].queue \in Seq(Blocks) /\ sd[d].queue # <<>>
      BY <1>2, <1>5 DEF ThreadRecords, Device
    <2>2. Head(sd[d].queue) \in Blocks /\ Tail(sd[d].queue) \in Seq(Blocks)
      BY <2>1
    <2>3. [sd[d] EXCEPT !.queue = Tail(@)] \in Device
      BY <1>2, <2>2 DEF Device
    <2>4. sd' \in Devices
      BY <1>5, <2>3, SetDevType DEF ThreadRecords
    <2>5. Recording(ep[k], Head(sd[d].queue)) \in Epoch
      BY <1>3, <2>2, EpochOps
    <2>6. ep' \in Epochs
      BY <1>5, <1>1, <2>5, SetEpochType DEF ThreadRecords, k
    <2>. QED  BY <1>5, <2>4, <2>6 DEF ThreadRecords, TypeOK, Devices, Epochs
  <1>6. CASE ThreadFails(d)
    <2>1. sd[d].queue \in Seq(Blocks) /\ sd[d].queue # <<>>
      BY <1>2, <1>6 DEF ThreadFails, Device
    <2>2. Head(sd[d].queue) \in Blocks /\ Tail(sd[d].queue) \in Seq(Blocks)
      BY <2>1
    <2>3. [[sd[d] EXCEPT !.queue = Tail(@)] EXCEPT !.fail = TRUE] \in Device
      BY <1>2, <2>2 DEF Device
    <2>4. sd' \in Devices
      BY <1>6, <2>3 DEF ThreadFails, TypeOK, Devices
    <2>5. [ep[k] EXCEPT !.marks = @ \cup {Head(sd[d].queue)}] \in Epoch
      BY <1>3, <2>2 DEF Epoch
    <2>6. Failing(ep[k], Head(sd[d].queue)) \in Epoch
      BY <1>3, <2>2, EpochOps
    <2>7. ep' \in Epochs
      BY <1>6, <1>1, <2>5, <2>6, SetEpochType DEF ThreadFails, k
    <2>. QED  BY <1>6, <2>4, <2>7 DEF ThreadFails, TypeOK, Devices, Epochs
  <1>7. CASE ThreadDrops(d)
    <2>1. Tail(sd[d].queue) \in Seq(Blocks)
      BY <1>2, <1>7 DEF ThreadDrops, Device
    <2>2. [sd[d] EXCEPT !.queue = Tail(@)] \in Device
      BY <1>2, <2>1 DEF Device
    <2>3. sd' \in Devices
      BY <1>7, <2>2, SetDevType DEF ThreadDrops
    <2>. QED  BY <1>7, <2>3 DEF ThreadDrops, TypeOK, Devices
  <1>8. ASSUME NEW th \in {"none", "leaving", "stopping"},
               sd' = [sd EXCEPT ![d].thread = th]
        PROVE  sd' \in Devices
    <2>1. [sd[d] EXCEPT !.thread = th] \in Device
      BY <1>2 DEF Device
    <2>. QED  BY <1>8, <2>1, SetDevType
  <1>9. CASE ThreadLeaves(d)
    <2>1. sd' \in Devices
      BY <1>8, <1>9 DEF ThreadLeaves
    <2>. QED  BY <1>9, <2>1 DEF ThreadLeaves, TypeOK, Devices
  <1>10. CASE ThreadCompares(d)
    <2>1. sd' \in Devices
      BY <1>8, <1>10 DEF ThreadCompares
    <2>. QED  BY <1>10, <2>1 DEF ThreadCompares, TypeOK, Devices
  <1>. QED  BY <1>4, <1>5, <1>6, <1>7, <1>9, <1>10 DEF Thread

\* New and reloaded devices are well typed.
LEMMA NewDeviceType ==
  ASSUME NEW mode \in {"snap", "inc"}
  PROVE  NewDevice(mode) \in Device /\ Unverified(mode) \in Device
  <1>1. <<>> \in Seq(Blocks)
    OBVIOUS
  <1>2. NewDevice(mode) \in Device
    BY <1>1 DEF NewDevice, Device
  <1>3. Unverified(mode) \in Device
    BY <1>2 DEF Unverified, Device
  <1>. QED  BY <1>2, <1>3

\* The ioctls and the start of a mount or umount keep the state well typed.
LEMMA UserType ==
  ASSUME TypeOK, User
  PROVE  TypeOK'
  <1>1. CASE SetupSnap
    <2>1. [NewDevice("snap") EXCEPT !.thread = "running"] \in Device
      BY NewDeviceType DEF Device
    <2>2. sd' \in Devices
      BY <1>1, <2>1, SetDevType DEF SetupSnap
    <2>3. ep' \in Epochs
      BY <1>1, NoEpochType DEF SetupSnap, Epochs
    <2>. QED  BY <1>1, <2>2, <2>3 DEF SetupSnap, TypeOK, Devices, Epochs
  <1>2. ASSUME NEW mode \in {"snap", "inc"}, Reload(mode)
        PROVE  TypeOK'
    <2>2. sd' \in Devices
      BY <1>2, NewDeviceType, SetDevType DEF Reload
    <2>. QED  BY <1>2, <2>2 DEF Reload, TypeOK, Devices
  <1>3. ASSUME NEW old, NEW mode \in {"snap", "inc"}, Active(old), Replace(mode)
        PROVE  sd' \in Devices
    <2>1. sd.dev \in Device
      BY <1>3, DevType DEF Active, dev
    <2>2. [sd.dev EXCEPT !.thread = "stopping"] \in Device
      BY <2>1 DEF Device
    <2>. QED  BY <1>3, <2>2, NewDeviceType DEF Replace, Devices, dev
  <1>4. CASE SnapToInc
    BY <1>3, <1>4 DEF SnapToInc, Replace, TypeOK, Devices, Controls
  <1>5. CASE IncToSnap
    <2>1. ep' \in Epochs
      BY <1>5, NoEpochType, EpType DEF IncToSnap, Epochs, cur
    <2>. QED  BY <2>1, <1>3, <1>5 DEF IncToSnap, Replace, TypeOK, Devices, Epochs, Controls
  <1>6. CASE Destroy
    <2>1. sd' \in Devices
      BY <1>6, SetDevType DEF Destroy
    <2>2. [ep.cur EXCEPT !.late = @ \cup (sd.dev.clones \ ep.cur.marks)] \in Epoch
      BY <1>6, EpType, DevType DEF Destroy, dev, Device, Epoch
    <2>3. ep' \in Epochs
      <3>. DEFINE e == [ep.cur EXCEPT !.late = @ \cup (sd.dev.clones \ ep.cur.marks)]
      <3>1. e \in Epoch /\ ep' = [ep EXCEPT !.cur = OnDisk(Freed(e, "none"))]
        BY <1>6, <2>2 DEF Destroy, dev, cur
      <3>. HIDE DEF e
      <3>. QED  BY <3>1, EpochOps, SetEpochType
    <2>. QED  BY <1>6, <2>1, <2>3 DEF Destroy, TypeOK, Devices, Epochs
  <1>7. CASE MountStarts
    BY <1>7 DEF MountStarts, TypeOK
  <1>8. CASE UmountStarts
    <2>1. CASE dev # NoDev /\ dev.state = "active" /\ ~dev.fail
      <3>1. [sd.dev EXCEPT !.thread = "stopping"] \in Device
        BY <2>1, DevType DEF Device, dev
      <3>2. sd' \in Devices
        BY <1>8, <2>1, <3>1, SetDevType DEF UmountStarts
      <3>. QED  BY <1>8, <2>1, <3>2 DEF UmountStarts, TypeOK, Devices, Controls
    <2>2. CASE ~(dev # NoDev /\ dev.state = "active" /\ ~dev.fail)
      BY <1>8, <2>2 DEF UmountStarts, TypeOK, Controls
    <2>. QED  BY <2>1, <2>2
  <1>. QED  BY <1>1, <1>2, <1>4, <1>5, <1>6, <1>7, <1>8 DEF User

\* What a mount may make of a device and its COW file.
LEMMA ActivationType ==
  ASSUME NEW d \in Device, NEW e \in Epoch
  PROVE  /\ DormantToActive(d, e) \subseteq Device \X Epoch
         /\ UnverifiedToActive(d, e) \subseteq Device \X Epoch
  <1>1. [d EXCEPT !.fail = TRUE] \in Device
    BY DEF Device
  <1>3. /\ [e EXCEPT !.file = "dirty"] \in Epoch
        /\ [e EXCEPT !.cm = "open", !.file = "dirty"] \in Epoch
    BY DEF Epoch
  <1>4. [d EXCEPT !.state = "active", !.inode = TRUE, !.thread = "running",
                  !.seen = FALSE] \in Device
    BY DEF Device
  <1>5. \A i \in BOOLEAN : [[d EXCEPT !.fail = TRUE] EXCEPT !.inode = i] \in Device
    BY DEF Device
  <1>6. [NewDevice(d.mode) EXCEPT !.thread = "running"] \in Device
    <2>1. d.mode \in {"snap", "inc"}
      BY DEF Device
    <2>2. NewDevice(d.mode) \in Device
      BY <2>1, NewDeviceType
    <2>. QED  BY <2>2 DEF Device
  <1>7. DormantToActive(d, e) \subseteq Device \X Epoch
    <2>. DEFINE opened == [e EXCEPT !.cm = "open", !.file = "dirty"]
                failed == [d EXCEPT !.fail = TRUE]
                active == [d EXCEPT !.state = "active", !.inode = TRUE,
                                    !.thread = "running", !.seen = FALSE]
                inoded(i) == [failed EXCEPT !.inode = i]
    <2>1. /\ failed \in Device /\ opened \in Epoch /\ active \in Device
          /\ \A i \in BOOLEAN : inoded(i) \in Device
      BY <1>1, <1>3, <1>4, <1>5
    <2>2. DormantToActive(d, e) =
            {<<failed, e>>} \cup
              IF e.cm # "closed" \/ ~Accepted(e, d.mode) THEN {}
              ELSE {<<active, opened>>} \cup {<<inoded(i), opened>> : i \in BOOLEAN}
      BY Zenon DEF DormantToActive
    <2>. HIDE DEF opened, failed, active, inoded
    <2>. QED  BY <2>1, <2>2
  <1>8. UnverifiedToActive(d, e) \subseteq Device \X Epoch
    <2>. DEFINE opened == [e EXCEPT !.cm = "open", !.file = "dirty"]
                dirty == [e EXCEPT !.file = "dirty"]
                failed == [d EXCEPT !.fail = TRUE]
                active == [NewDevice(d.mode) EXCEPT !.thread = "running"]
    <2>1. /\ failed \in Device /\ active \in Device
          /\ opened \in Epoch /\ dirty \in Epoch /\ NoEpoch \in Epoch
      BY <1>1, <1>3, <1>6, NoEpochType
    <2>2. UnverifiedToActive(d, e) =
            {<<failed, e>>} \cup
              IF ~Accepted(e, d.mode) THEN {}
              ELSE {<<failed, dirty>>, <<failed, NoEpoch>>}
                   \cup IF ~Frozen THEN {} ELSE {<<active, opened>>}
      BY Zenon DEF UnverifiedToActive
    <2>. HIDE DEF opened, failed, active, dirty
    <2>. QED  BY <2>1, <2>2
  <1>. QED  BY <1>7, <1>8

\* The rest of a system call keeps the state well typed.  ControlInv says
\* that the devices it works on are there.
LEMMA KernelType ==
  ASSUME TypeOK, ControlInv, Kernel
  PROVE  TypeOK'
  <1>1. CASE WakeInc
    <2>1. sd.dev \in Device /\ sd.old \in Device
      BY <1>1, DevType DEF WakeInc, ControlInv, dev
    <2>2. sd.dev.fail \/ sd.old.fail \in BOOLEAN
      BY <2>1 DEF Device
    <2>3. [sd.dev EXCEPT !.thread = "running", !.fail = @ \/ sd.old.fail] \in Device
      BY <2>1, <2>2 DEF Device
    <2>4. sd' \in Devices
      BY <1>1, <2>3 DEF WakeInc, Devices, dev
    <2>. QED  BY <1>1, <2>4 DEF WakeInc, TypeOK, Devices, Controls
  <1>2. CASE Truncate
    <2>1. [ep.cur EXCEPT !.index_only = TRUE] \in Epoch
      BY EpType DEF Epoch
    <2>2. ep' \in Epochs
      BY <1>2, <2>1, SetEpochType DEF Truncate, TypeOK, Epochs
    <2>. QED  BY <1>2, <2>2 DEF Truncate, TypeOK, Epochs, Controls
  <1>3. CASE WakeSnap
    <2>1. sd.dev \in Device
      BY <1>3, DevType DEF WakeSnap, ControlInv, dev
    <2>2. [sd.dev EXCEPT !.thread = "running"] \in Device
      BY <2>1 DEF Device
    <2>3. sd' \in Devices
      BY <1>3, <2>2 DEF WakeSnap, Devices, dev
    <2>4. ep' \in Epochs
      BY <1>3, EpType, EpochOps, NoEpochType, SetEpochType DEF WakeSnap, TypeOK, Epochs
    <2>. QED  BY <1>3, <2>3, <2>4 DEF WakeSnap, TypeOK, Devices, Epochs, Controls
  <1>4. CASE MountUnnoticed
    BY <1>4 DEF MountUnnoticed, TypeOK
  <1>5. ASSUME NEW r \in Device \X Epoch,
               sd' = [sd EXCEPT !.dev = r[1]],
               ep' = [ep EXCEPT !.cur = r[2]]
        PROVE  sd' \in Devices /\ ep' \in Epochs
    BY <1>5, SetDevType, SetEpochType
  <1>6. CASE MountActivates
    <2>1. sd.dev \in Device /\ ep.cur \in Epoch
      BY <1>6, DevType, EpType DEF MountActivates, dev
    <2>2. PICK r \in Device \X Epoch : /\ sd' = [sd EXCEPT !.dev = r[1]]
                                     /\ ep' = [ep EXCEPT !.cur = r[2]]
      BY <1>6, <2>1, ActivationType DEF MountActivates, dev, cur
    <2>. QED  BY <1>5, <1>6, <2>2 DEF MountActivates, TypeOK, Devices, Epochs
  <1>7. CASE CloseForDormant
    <2>1. sd.dev \in Device /\ ep.cur \in Epoch
      BY <1>7, DevType, EpType DEF CloseForDormant, ControlInv, dev
    <2>2. /\ [sd.dev EXCEPT !.inode = FALSE, !.state = "dormant"] \in Device
          /\ [sd.dev EXCEPT !.inode = FALSE, !.fail = TRUE] \in Device
      BY <2>1 DEF Device
    <2>3. sd' \in Devices
      BY <1>7, <2>2 DEF CloseForDormant, TypeOK, Devices
    <2>4. [ep.cur EXCEPT !.cm = "closed", !.file = "clean"] \in Epoch
      BY <2>1 DEF Epoch
    <2>5. ep' \in Epochs
      BY <1>7, <2>1, <2>4, EpochOps DEF CloseForDormant, TypeOK, Epochs
    <2>. QED  BY <1>7, <2>3, <2>5 DEF CloseForDormant, TypeOK, Devices, Epochs, Controls
  <1>8. CASE UmountSucceeds
    BY <1>8 DEF UmountSucceeds, TypeOK, Controls
  <1>9. CASE UmountFails
    BY <1>9 DEF UmountFails, TypeOK, Controls
  <1>10. CASE UmountUndone
    <2>1. sd.dev \in Device /\ ep.cur \in Epoch
      BY <1>10, DevType, EpType DEF UmountUndone, ControlInv, dev
    <2>2. [sd.dev EXCEPT !.fail = TRUE] \in Device
      BY <2>1 DEF Device
    <2>3. PICK r \in Device \X Epoch : /\ sd' = [sd EXCEPT !.dev = r[1]]
                                     /\ ep' = [ep EXCEPT !.cur = r[2]]
      <3>1. CASE \E r \in DormantToActive(dev, cur) : /\ sd' = [sd EXCEPT !.dev = r[1]]
                                                     /\ ep' = [ep EXCEPT !.cur = r[2]]
        BY <3>1, <2>1, ActivationType DEF dev, cur
      <3>2. CASE sd' = [sd EXCEPT !.dev.fail = TRUE] /\ UNCHANGED ep
        <4>0. <<[sd.dev EXCEPT !.fail = TRUE], ep.cur>> \in Device \X Epoch
          BY <2>1, <2>2
        <4>1. ep = [ep EXCEPT !.cur = ep.cur]
          BY DEF TypeOK
        <4>. QED  BY <3>2, <4>0, <4>1
      <3>. QED  BY <1>10, <3>1, <3>2 DEF UmountUndone
    <2>. QED  BY <1>5, <1>10, <2>3 DEF UmountUndone, TypeOK, Devices, Epochs, Controls
  <1>. QED  BY <1>1, <1>2, <1>3, <1>4, <1>6, <1>7, <1>8, <1>9, <1>10 DEF Kernel

\* Every step keeps the state well typed.
LEMMA NextType ==
  ASSUME TypeOK, ControlInv, [Next]_vars
  PROVE  TypeOK'
  <1>1. CASE Crash
    <2>1. ep' \in Epochs
      BY <1>1, EpType, EpochOps DEF Crash, Epochs, cur
    <2>. QED  BY <1>1, <2>1 DEF Crash, TypeOK, Epochs, Controls
  <1>2. CASE UNCHANGED vars
    BY <1>2 DEF vars, TypeOK
  <1>. QED  BY <1>1, <1>2, WriterType, ThreadType, UserType, KernelType DEF Next

-----------------------------------------------------------------------------
(* What each action does to the fields the invariants speak of.            *)

\* Two devices differ in their queues and counters only.
SameFlags(x, y) ==
  /\ x.state = y.state /\ x.fail = y.fail /\ x.seen = y.seen
  /\ x.thread = y.thread /\ x.clones = y.clones

\* Two epochs agree on the manager and the header of the file.
SameFile(x, y) == x.cm = y.cm /\ x.file = y.file

\* Two epochs agree on the blocks recorded, changed, late, failed and lost.
SameSets(x, y) ==
  /\ x.marks = y.marks /\ x.changed = y.changed /\ x.late = y.late
  /\ x.failed = y.failed /\ x.lost = y.lost

\* The epoch e, opened.
OpenedFrom(e2, e) == e2.cm = "open" /\ e2.file = "dirty" /\ SameSets(e2, e)

\* What becomes of a dormant device d and its COW file e: activated or not.
Reactivated(d, e, d2, e2) ==
  /\ d2 \in Device
  /\ d2.queue = d.queue /\ d2.clones = d.clones
  /\ \/ /\ d2.fail /\ d2.state = d.state /\ d2.seen = d.seen /\ d2.thread = d.thread
        /\ e2 = e \/ (e.cm = "closed" /\ OpenedFrom(e2, e))
     \/ /\ d2.fail = d.fail /\ d2.state = "active" /\ ~d2.seen
        /\ d2.thread = "running" /\ e.cm = "closed" /\ OpenedFrom(e2, e)

\* What becomes of an unverified device: activated or not.
Verified(d, e, d2, e2) ==
  /\ d2 \in Device
  /\ \/ /\ d2.fail /\ d2.state = d.state /\ d2.seen = d.seen
        /\ d2.queue = d.queue /\ d2.thread = d.thread /\ d2.clones = d.clones
        /\ \/ e2 = e
           \/ e2.cm = e.cm /\ e2.file = "dirty" /\ SameSets(e2, e)
           \/ e2 = NoEpoch
     \/ /\ ~d2.fail /\ d2.state = "active" /\ ~d2.seen
        /\ d2.thread = "running" /\ d2.queue = <<>> /\ d2.clones = {}
        /\ e.file = "clean" /\ inflight = {} /\ OpenedFrom(e2, e)

\* Opening a COW file leaves the sets of blocks alone.
LEMMA OpenedEffect ==
  ASSUME NEW e \in Epoch
  PROVE  /\ OpenedFrom([e EXCEPT !.cm = "open", !.file = "dirty"], e)
         /\ [e EXCEPT !.file = "dirty"].cm = e.cm
         /\ [e EXCEPT !.file = "dirty"].file = "dirty"
         /\ SameSets([e EXCEPT !.file = "dirty"], e)
  BY DEF Epoch, SameSets, OpenedFrom

\* What a dormant device and its COW file are after a mount, or after an umount
\* that failed.
LEMMA DormantOutcomes ==
  ASSUME NEW d \in Device, NEW e \in Epoch, NEW r \in DormantToActive(d, e)
  PROVE  Reactivated(d, e, r[1], r[2])
  <1>. DEFINE opened == [e EXCEPT !.cm = "open", !.file = "dirty"]
              failed == [d EXCEPT !.fail = TRUE]
              active == [d EXCEPT !.state = "active", !.inode = TRUE,
                                  !.thread = "running", !.seen = FALSE]
              inoded(i) == [failed EXCEPT !.inode = i]
  <1>1. DormantToActive(d, e) =
          {<<failed, e>>} \cup
            IF e.cm # "closed" \/ ~Accepted(e, d.mode) THEN {}
            ELSE {<<active, opened>>} \cup {<<inoded(i), opened>> : i \in BOOLEAN}
    BY Zenon DEF DormantToActive
  <1>2. r[1] \in Device
    BY ActivationType
  <1>3. failed.queue = d.queue /\ failed.fail = TRUE /\ failed.state = d.state
        /\ failed.seen = d.seen /\ failed.thread = d.thread
        /\ failed.clones = d.clones
    BY DEF Device
  <1>4. active.queue = d.queue /\ active.fail = d.fail /\ active.state = "active"
        /\ active.thread = "running" /\ active.clones = d.clones
    BY DEF Device
  <1>5. active.seen = FALSE
    BY DEF Device
  <1>6. \A i \in BOOLEAN :
          /\ inoded(i).queue = d.queue /\ inoded(i).fail = TRUE
          /\ inoded(i).state = d.state /\ inoded(i).seen = d.seen
          /\ inoded(i).thread = d.thread /\ inoded(i).clones = d.clones
    BY DEF Device
  <1>8. OpenedFrom(opened, e)
    BY OpenedEffect
  <1>. HIDE DEF opened, failed, active, inoded
  <1>7. \/ r = <<failed, e>>
        \/ e.cm = "closed" /\ r = <<active, opened>>
        \/ e.cm = "closed" /\ \E i \in BOOLEAN : r = <<inoded(i), opened>>
    BY <1>1
  <1>. QED  BY <1>2, <1>3, <1>4, <1>5, <1>6, <1>7, <1>8 DEF Reactivated

\* What an unverified device and its COW file are after a mount.
LEMMA UnverifiedOutcomes ==
  ASSUME NEW d \in Device, NEW e \in Epoch, NEW r \in UnverifiedToActive(d, e)
  PROVE  Verified(d, e, r[1], r[2])
  <1>. DEFINE opened == [e EXCEPT !.cm = "open", !.file = "dirty"]
              dirty == [e EXCEPT !.file = "dirty"]
              failed == [d EXCEPT !.fail = TRUE]
              active == [NewDevice(d.mode) EXCEPT !.thread = "running"]
  <1>1. UnverifiedToActive(d, e) =
          {<<failed, e>>} \cup
            IF ~Accepted(e, d.mode) THEN {}
            ELSE {<<failed, dirty>>, <<failed, NoEpoch>>}
                 \cup IF ~Frozen THEN {} ELSE {<<active, opened>>}
    BY Zenon DEF UnverifiedToActive
  <1>2. r[1] \in Device
    BY ActivationType
  <1>3. failed.queue = d.queue /\ failed.fail = TRUE /\ failed.state = d.state
        /\ failed.seen = d.seen /\ failed.thread = d.thread
        /\ failed.clones = d.clones
    BY DEF Device
  <1>4. /\ active.queue = <<>> /\ active.state = "active"
        /\ active.thread = "running" /\ active.clones = {}
    BY DEF NewDevice
  <1>5. active.seen = FALSE /\ active.fail = FALSE
    BY DEF NewDevice
  <1>6. /\ OpenedFrom(opened, e)
        /\ dirty.cm = e.cm /\ dirty.file = "dirty" /\ SameSets(dirty, e)
    BY OpenedEffect
  <1>. HIDE DEF opened, failed, active, dirty
  <1>7. \/ r = <<failed, e>> \/ r = <<failed, dirty>> \/ r = <<failed, NoEpoch>>
        \/ Accepted(e, d.mode) /\ Frozen /\ r = <<active, opened>>
    BY <1>1
  <1>. QED  BY <1>2, <1>3, <1>4, <1>5, <1>6, <1>7 DEF Verified, Accepted, Frozen

\* What an entry of b that joins the queue makes of the current COW file: a
\* late block, if no thread will look at the queue.
Queues(b) ==
  /\ SameFile(ep'.cur, ep.cur) /\ ep'.prev = ep.prev
  /\ ep'.cur.marks = ep.cur.marks /\ ep'.cur.changed = ep.cur.changed
  /\ ep'.cur.failed = ep.cur.failed /\ ep'.cur.lost = ep.cur.lost
  /\ ep'.cur.late = IF sd.dev.thread \in {"none", "leaving"}
                   THEN ep.cur.late \cup ({b} \ ep.cur.marks) ELSE ep.cur.late

\* An entry joins the queue.
LEMMA QueueingEffect ==
  ASSUME TypeOK, NEW b \in Blocks, sd.dev \in Device,
         ep' = [ep EXCEPT !.cur = Queueing(b)]
  PROVE  Queues(b)
  <1>1. ep'.cur = Queueing(b) /\ ep'.prev = ep.prev
    BY Shapes
  <1>2. CASE sd.dev.thread \in {"none", "leaving"}
    <2>1. ep'.cur = [ep.cur EXCEPT !.late = @ \cup ({b} \ ep.cur.marks)]
      BY <1>1, <1>2 DEF Queueing, dev, cur
    <2>. QED  BY <1>1, <1>2, <2>1, Shapes DEF Queues, Epoch, SameFile
  <1>3. CASE sd.dev.thread \notin {"none", "leaving"}
    <2>1. ep'.cur = ep.cur
      BY <1>1, <1>3 DEF Queueing, dev, cur
    <2>. QED  BY <1>1, <1>3, <2>1 DEF Queues, SameFile
  <1>. QED  BY <1>2, <1>3

\* A write traced in incremental mode: one more entry in the queue, and nothing
\* else but a late block if no thread will look at it.
LEMMA TraceIncEffect ==
  ASSUME TypeOK, NEW b \in Blocks, NEW page \in Pages, TraceInc(b, page)
  PROVE  /\ sd.dev \in Device /\ sd'.dev \in Device
         /\ SameFlags(sd'.dev, sd.dev) /\ sd'.dev.queue = Append(sd.dev.queue, b)
         /\ sd'.old = sd.old /\ Queues(b)
  <1>1. sd.dev \in Device
    BY DevType DEF TraceInc, NeedsTrace, Traced, dev
  <1>6. Append(sd.dev.queue, b) \in Seq(Blocks)
    BY <1>1 DEF Device
  <1>2. [sd.dev EXCEPT !.queue = Append(@, b)] \in Device
    BY <1>1, <1>6 DEF Device
  <1>3. sd'.dev = [sd.dev EXCEPT !.queue = Append(@, b)] /\ sd'.old = sd.old
    BY Shapes DEF TraceInc
  <1>4. SameFlags(sd'.dev, sd.dev) /\ sd'.dev.queue = Append(sd.dev.queue, b)
    BY <1>1, <1>3 DEF Device, SameFlags
  <1>5. Queues(b)
    BY <1>1, QueueingEffect DEF TraceInc
  <1>. QED  BY <1>1, <1>2, <1>3, <1>4, <1>5

\* A write traced in snapshot mode: one more clone on its way.
LEMMA TraceSnapEffect ==
  ASSUME TypeOK, NEW b \in Blocks, NEW page \in Pages, TraceSnap(b, page)
  PROVE  /\ sd.dev \in Device /\ sd'.dev \in Device /\ sd.dev.state # "unverified"
         /\ sd'.dev.state = sd.dev.state /\ sd'.dev.fail = sd.dev.fail
         /\ sd'.dev.seen = sd.dev.seen /\ sd'.dev.thread = sd.dev.thread
         /\ sd'.dev.queue = sd.dev.queue /\ sd'.dev.clones = sd.dev.clones \cup {b}
         /\ sd'.old = sd.old /\ ep' = ep
  <1>1. sd.dev \in Device /\ sd.dev.state # "unverified"
    BY DevType DEF TraceSnap, NeedsTrace, Traced, dev
  <1>3. sd'.dev = [sd.dev EXCEPT !.clones = @ \cup {b}] /\ sd'.old = sd.old
    BY Shapes DEF TraceSnap
  <1>4. sd'.dev \in Device
    BY <1>1, <1>3 DEF Device
  <1>5. /\ sd'.dev.state = sd.dev.state /\ sd'.dev.fail = sd.dev.fail
        /\ sd'.dev.seen = sd.dev.seen /\ sd'.dev.thread = sd.dev.thread
        /\ sd'.dev.queue = sd.dev.queue /\ sd'.dev.clones = sd.dev.clones \cup {b}
    BY <1>1, <1>3 DEF Device
  <1>. QED  BY <1>1, <1>3, <1>4, <1>5 DEF TraceSnap

\* A clone that completes turns into an entry of the queue.
LEMMA CloneCompletesEffect ==
  ASSUME TypeOK, NEW b \in Blocks, CloneCompletes(b)
  PROVE  /\ sd.dev \in Device /\ sd'.dev \in Device /\ b \in sd.dev.clones
         /\ sd'.dev.state = sd.dev.state /\ sd'.dev.fail = sd.dev.fail
         /\ sd'.dev.seen = sd.dev.seen /\ sd'.dev.thread = sd.dev.thread
         /\ sd'.dev.queue = Append(sd.dev.queue, b)
         /\ sd'.dev.clones = sd.dev.clones \ {b}
         /\ sd'.old = sd.old /\ Queues(b)
  <1>1. sd.dev \in Device /\ b \in sd.dev.clones
    BY DevType DEF CloneCompletes, Clones, dev
  <1>3. sd'.dev = [sd.dev EXCEPT !.clones = @ \ {b}, !.queue = Append(@, b)]
        /\ sd'.old = sd.old
    BY Shapes DEF CloneCompletes
  <1>7. Append(sd.dev.queue, b) \in Seq(Blocks)
    BY <1>1 DEF Device
  <1>4. sd'.dev \in Device
    BY <1>1, <1>3, <1>7 DEF Device
  <1>5. /\ sd'.dev.state = sd.dev.state /\ sd'.dev.fail = sd.dev.fail
        /\ sd'.dev.seen = sd.dev.seen /\ sd'.dev.thread = sd.dev.thread
        /\ sd'.dev.queue = Append(sd.dev.queue, b)
        /\ sd'.dev.clones = sd.dev.clones \ {b}
    BY <1>1, <1>3 DEF Device
  <1>6. Queues(b)
    BY <1>1, QueueingEffect DEF CloneCompletes
  <1>. QED  BY <1>1, <1>3, <1>4, <1>5, <1>6

\* A clone that fails: the device fails.
LEMMA CloneFailsEffect ==
  ASSUME TypeOK, NEW b \in Blocks, CloneFails(b)
  PROVE  /\ sd.dev \in Device /\ sd'.dev \in Device /\ b \in sd.dev.clones
         /\ sd'.dev.fail
         /\ sd'.dev.state = sd.dev.state /\ sd'.dev.seen = sd.dev.seen
         /\ sd'.dev.thread = sd.dev.thread /\ sd'.dev.queue = sd.dev.queue
         /\ sd'.dev.clones = sd.dev.clones \ {b}
         /\ sd'.old = sd.old /\ ep'.prev = ep.prev
         /\ ep'.cur = Failing(ep.cur, b)
  <1>1. sd.dev \in Device /\ b \in sd.dev.clones
    BY DevType DEF CloneFails, Clones, dev
  <1>3. sd'.dev = [sd.dev EXCEPT !.clones = @ \ {b}, !.lag = TRUE, !.fail = TRUE]
        /\ sd'.old = sd.old
    BY Shapes DEF CloneFails
  <1>2. sd'.dev.fail
    BY <1>1, <1>3 DEF Device
  <1>4. sd'.dev \in Device
    BY <1>1, <1>3 DEF Device
  <1>5. /\ sd'.dev.state = sd.dev.state /\ sd'.dev.seen = sd.dev.seen
        /\ sd'.dev.thread = sd.dev.thread /\ sd'.dev.queue = sd.dev.queue
        /\ sd'.dev.clones = sd.dev.clones \ {b}
    BY <1>1, <1>3 DEF Device
  <1>6. ep'.cur = Failing(ep.cur, b) /\ ep'.prev = ep.prev
    BY Shapes DEF CloneFails
  <1>. QED  BY <1>1, <1>2, <1>3, <1>4, <1>5, <1>6

\* A write that nobody records adds to the lost blocks at most.
LEMMA LosingEffect ==
  ASSUME NEW e \in Epoch, NEW b \in Blocks
  PROVE  /\ SameFile(Losing(e, b), e)
         /\ Losing(e, b).marks = e.marks /\ Losing(e, b).changed = e.changed
         /\ Losing(e, b).late = e.late /\ Losing(e, b).failed = e.failed
         /\ Losing(e, b).lost = IF Alive(e) THEN e.lost \cup ({b} \ e.marks) ELSE e.lost
  BY DEF Losing, Epoch, SameFile

\* A write that could not be recorded adds to the failed blocks at most.
LEMMA FailingEffect ==
  ASSUME NEW e \in Epoch, NEW b \in Blocks
  PROVE  /\ SameFile(Failing(e, b), e)
         /\ Failing(e, b).marks = e.marks /\ Failing(e, b).changed = e.changed
         /\ Failing(e, b).late = e.late /\ Failing(e, b).lost = e.lost
         /\ Failing(e, b).failed =
              IF Alive(e) THEN e.failed \cup ({b} \ e.marks) ELSE e.failed
  BY DEF Failing, Epoch, SameFile

\* A write that cannot be queued: the device fails.
LEMMA TraceWriteFailsEffect ==
  ASSUME TypeOK, NEW b \in Blocks, NEW page \in Pages, TraceWriteFails(b, page)
  PROVE  /\ sd.dev \in Device /\ sd'.dev \in Device
         /\ sd'.dev.fail
         /\ sd'.dev.state = sd.dev.state /\ sd'.dev.seen = sd.dev.seen
         /\ sd'.dev.thread = sd.dev.thread /\ sd'.dev.queue = sd.dev.queue
         /\ sd'.dev.clones = sd.dev.clones
         /\ sd'.old = sd.old /\ ep'.prev = ep.prev
         /\ ep'.cur = Failing(ep.cur, b)
  <1>1. sd.dev \in Device
    BY DevType DEF TraceWriteFails, NeedsTrace, Traced, dev
  <1>3. sd'.dev = [sd.dev EXCEPT !.fail = TRUE] /\ sd'.old = sd.old
    BY Shapes DEF TraceWriteFails
  <1>4. sd'.dev \in Device /\ sd'.dev.fail
    BY <1>1, <1>3 DEF Device
  <1>5. /\ sd'.dev.state = sd.dev.state /\ sd'.dev.seen = sd.dev.seen
        /\ sd'.dev.thread = sd.dev.thread /\ sd'.dev.queue = sd.dev.queue
        /\ sd'.dev.clones = sd.dev.clones
    BY <1>1, <1>3 DEF Device
  <1>6. ep'.cur = Failing(ep.cur, b) /\ ep'.prev = ep.prev
    BY Shapes DEF TraceWriteFails
  <1>. QED  BY <1>1, <1>3, <1>4, <1>5, <1>6

\* A write that goes past the tracer.
LEMMA PassWriteEffect ==
  ASSUME TypeOK, NEW b \in Blocks, NEW page \in Pages, PassWrite(b, page)
  PROVE  ep'.cur = Losing(ep.cur, b) /\ ep'.prev = ep.prev
  BY Shapes DEF PassWrite

\* A write that reaches the disk changes one block at most.
LEMMA WriteLandsEffect ==
  ASSUME TypeOK, NEW b \in Blocks, WriteLands(b)
  PROVE  /\ ep'.prev = ep.prev /\ SameFile(ep'.cur, ep.cur)
         /\ ep'.cur.marks = ep.cur.marks /\ ep'.cur.late = ep.cur.late
         /\ ep'.cur.lost = ep.cur.lost /\ ep'.cur.failed = ep.cur.failed
         /\ ep'.cur.changed \subseteq ep.cur.changed \cup {b}
  <1>1. CASE Alive(ep.cur)
    <2>1. ep'.cur = [ep.cur EXCEPT !.changed = @ \cup {b}] /\ ep'.prev = ep.prev
      BY <1>1, Shapes DEF WriteLands, cur
    <2>. QED  BY <2>1, Shapes DEF Epoch, SameFile
  <1>2. CASE ~Alive(ep.cur)
    BY <1>2 DEF WriteLands, SameFile, cur
  <1>. QED  BY <1>1, <1>2

\* A block that gets a mapping is neither late nor failed nor lost.
LEMMA RecordingEffect ==
  ASSUME NEW e \in Epoch, NEW b \in Blocks
  PROVE  /\ SameFile(Recording(e, b), e)
         /\ Recording(e, b).changed = e.changed
         /\ Recording(e, b).marks = e.marks \cup {b}
         /\ Recording(e, b).late = e.late \ {b}
         /\ Recording(e, b).lost = e.lost \ {b}
         /\ Recording(e, b).failed = e.failed \ {b}
  BY DEF Recording, Epoch, SameFile

\* A manager freed while open takes its file along, else the file stays.
LEMMA FreedEffect ==
  ASSUME NEW e \in Epoch, NEW c \in {"none", "freed"}
  PROVE  /\ Freed(e, c).cm = c
         /\ e.cm = "open" => Freed(e, c).file = "none" /\ Freed(e, c).late = {}
         /\ e.cm # "open" => Freed(e, c).file = e.file /\ SameSets(Freed(e, c), e)
  BY DEF Freed, NoEpoch, Epoch, SameSets

\* The COW file a thread does not write to, and the device it does not belong
\* to, stay as they are.
Only(d, k) ==
  /\ \A x \in {"dev", "old"} : x # d => sd'[x] = sd[x]
  /\ \A j \in {"cur", "prev"} : j # k => ep'[j] = ep[j]

\* The thread sees the fail state and frees the manager.
LEMMA ThreadNoticesEffect ==
  ASSUME TypeOK, NEW d \in {"dev", "old"}, ThreadNotices(d)
  PROVE  /\ Only(d, EpochOf(d)) /\ sd[d] \in Device /\ sd'[d] \in Device
         /\ sd[d].fail /\ sd'[d].fail
         /\ sd'[d].state = sd[d].state /\ sd'[d].thread = sd[d].thread
         /\ sd'[d].queue = sd[d].queue /\ sd'[d].clones = sd[d].clones
         /\ ep'[EpochOf(d)] = Freed(ep[EpochOf(d)], "freed")
         /\ ep'[EpochOf(d)].cm = "freed"
         /\ ep'[EpochOf(d)].file \in {"none", ep[EpochOf(d)].file}
  <1>1. sd[d] \in Device
    BY DevType DEF ThreadNotices, Awake
  <1>2. EpochOf(d) \in {"cur", "prev"}
    BY DEF EpochOf
  <1>3. /\ Only(d, EpochOf(d))
        /\ ep'[EpochOf(d)] = Freed(ep[EpochOf(d)], "freed")
        /\ sd'[d] = [sd[d] EXCEPT !.seen = TRUE]
    BY <1>2 DEF ThreadNotices, Only, TypeOK
  <1>4. sd[d].fail
    BY DEF ThreadNotices
  <1>5. sd'[d] \in Device
    BY <1>1, <1>3 DEF Device
  <1>6. sd'[d].fail = sd[d].fail
    BY <1>1, <1>3 DEF Device
  <1>7. /\ sd'[d].state = sd[d].state /\ sd'[d].thread = sd[d].thread
        /\ sd'[d].queue = sd[d].queue /\ sd'[d].clones = sd[d].clones
    BY <1>1, <1>3 DEF Device
  <1>8. ep[EpochOf(d)] \in Epoch
    BY EpType DEF EpochOf
  <1>9. /\ ep'[EpochOf(d)].cm = "freed"
        /\ ep'[EpochOf(d)].file \in {"none", ep[EpochOf(d)].file}
    BY <1>3, <1>8, FreedEffect
  <1>. QED  BY <1>1, <1>3, <1>4, <1>5, <1>6, <1>7, <1>9

\* The thread moves the head of the queue to the index.
LEMMA ThreadRecordsEffect ==
  ASSUME TypeOK, NEW d \in {"dev", "old"}, ThreadRecords(d)
  PROVE  /\ Only(d, EpochOf(d)) /\ sd[d] \in Device /\ sd'[d] \in Device
         /\ SameFlags(sd'[d], sd[d]) /\ sd'[d].queue = Tail(sd[d].queue)
         /\ ep'[EpochOf(d)] = Recording(ep[EpochOf(d)], Head(sd[d].queue))
         /\ SameFile(ep'[EpochOf(d)], ep[EpochOf(d)])
         /\ sd[d].queue \in Seq(Blocks) /\ sd[d].queue # <<>>
         /\ Head(sd[d].queue) \in Blocks /\ Tail(sd[d].queue) \in Seq(Blocks)
  <1>1. sd[d] \in Device
    BY DevType DEF ThreadRecords, Awake
  <1>2. EpochOf(d) \in {"cur", "prev"}
    BY DEF EpochOf
  <1>3. /\ Only(d, EpochOf(d))
        /\ ep'[EpochOf(d)] = Recording(ep[EpochOf(d)], Head(sd[d].queue))
        /\ sd'[d] = [sd[d] EXCEPT !.queue = Tail(@)]
    BY <1>2 DEF ThreadRecords, Only, TypeOK
  <1>4. sd[d].queue \in Seq(Blocks) /\ sd[d].queue # <<>>
    BY <1>1 DEF Device, ThreadRecords
  <1>5. Head(sd[d].queue) \in Blocks /\ Tail(sd[d].queue) \in Seq(Blocks)
    BY <1>4
  <1>6. sd'[d] \in Device /\ sd'[d].queue = Tail(sd[d].queue)
    BY <1>1, <1>3, <1>5 DEF Device
  <1>7. SameFlags(sd'[d], sd[d])
    BY <1>1, <1>3 DEF Device, SameFlags
  <1>8. ep[EpochOf(d)] \in Epoch
    BY EpType DEF EpochOf
  <1>9. SameFile(ep'[EpochOf(d)], ep[EpochOf(d)])
    BY <1>3, <1>5, <1>8, RecordingEffect
  <1>. QED  BY <1>1, <1>3, <1>4, <1>5, <1>6, <1>7, <1>9

\* The thread drops the head of the queue and the device fails.
LEMMA ThreadFailsEffect ==
  ASSUME TypeOK, NEW d \in {"dev", "old"}, ThreadFails(d)
  PROVE  /\ Only(d, EpochOf(d)) /\ sd[d] \in Device /\ sd'[d] \in Device
         /\ sd'[d].fail
         /\ sd'[d].state = sd[d].state /\ sd'[d].seen = sd[d].seen
         /\ sd'[d].thread = sd[d].thread /\ sd'[d].queue = Tail(sd[d].queue)
         /\ sd'[d].clones = sd[d].clones
         /\ SameFile(ep'[EpochOf(d)], ep[EpochOf(d)])
         /\ ep'[EpochOf(d)].changed = ep[EpochOf(d)].changed
         /\ ep'[EpochOf(d)].late = ep[EpochOf(d)].late
         /\ ep'[EpochOf(d)].lost = ep[EpochOf(d)].lost
         /\ ep[EpochOf(d)].marks \subseteq ep'[EpochOf(d)].marks
         /\ ep[EpochOf(d)].failed \subseteq ep'[EpochOf(d)].failed
         /\ Alive(ep[EpochOf(d)]) =>
              Head(sd[d].queue) \in ep'[EpochOf(d)].marks \cup ep'[EpochOf(d)].failed
         /\ sd[d].queue \in Seq(Blocks) /\ sd[d].queue # <<>>
         /\ Head(sd[d].queue) \in Blocks /\ Tail(sd[d].queue) \in Seq(Blocks)
  <1>1. sd[d] \in Device
    BY DevType DEF ThreadFails, Awake
  <1>2. EpochOf(d) \in {"cur", "prev"} /\ ep[EpochOf(d)] \in Epoch
    BY EpType DEF EpochOf
  <1>3. /\ Only(d, EpochOf(d))
        /\ \/ ep'[EpochOf(d)] = Failing(ep[EpochOf(d)], Head(sd[d].queue))
           \/ ep'[EpochOf(d)] = [ep[EpochOf(d)] EXCEPT !.marks = @ \cup {Head(sd[d].queue)}]
        /\ sd'[d] = [[sd[d] EXCEPT !.queue = Tail(@)] EXCEPT !.fail = TRUE]
    BY <1>2 DEF ThreadFails, Only, TypeOK
  <1>4. sd[d].queue \in Seq(Blocks) /\ sd[d].queue # <<>>
    BY <1>1 DEF Device, ThreadFails
  <1>5. Head(sd[d].queue) \in Blocks /\ Tail(sd[d].queue) \in Seq(Blocks)
    BY <1>4
  <1>6. sd'[d] \in Device /\ sd'[d].fail
    BY <1>1, <1>3, <1>5 DEF Device
  <1>7. /\ sd'[d].state = sd[d].state /\ sd'[d].seen = sd[d].seen
        /\ sd'[d].thread = sd[d].thread /\ sd'[d].queue = Tail(sd[d].queue)
        /\ sd'[d].clones = sd[d].clones
    BY <1>1, <1>3 DEF Device
  <1>8. CASE ep'[EpochOf(d)] = Failing(ep[EpochOf(d)], Head(sd[d].queue))
    <2>. DEFINE h == Head(sd[d].queue)
                e == ep[EpochOf(d)]
    <2>1. e \in Epoch /\ h \in Blocks /\ ep'[EpochOf(d)] = Failing(e, h)
      BY <1>2, <1>5, <1>8
    <2>. HIDE DEF h, e
    <2>2. /\ SameFile(ep'[EpochOf(d)], e)
          /\ ep'[EpochOf(d)].changed = e.changed /\ ep'[EpochOf(d)].late = e.late
          /\ ep'[EpochOf(d)].lost = e.lost /\ ep'[EpochOf(d)].marks = e.marks
          /\ ep'[EpochOf(d)].failed =
               IF Alive(e) THEN e.failed \cup ({h} \ e.marks) ELSE e.failed
      BY <2>1, FailingEffect
    <2>3. /\ e.failed \subseteq ep'[EpochOf(d)].failed
          /\ Alive(e) => h \in ep'[EpochOf(d)].marks \cup ep'[EpochOf(d)].failed
      BY <2>2
    <2>. QED  BY <1>1, <1>3, <1>4, <1>5, <1>6, <1>7, <2>2, <2>3 DEF e, h
  <1>9. CASE ep'[EpochOf(d)] = [ep[EpochOf(d)] EXCEPT !.marks = @ \cup {Head(sd[d].queue)}]
    <2>1. /\ SameFile(ep'[EpochOf(d)], ep[EpochOf(d)])
          /\ ep'[EpochOf(d)].changed = ep[EpochOf(d)].changed
          /\ ep'[EpochOf(d)].late = ep[EpochOf(d)].late
          /\ ep'[EpochOf(d)].lost = ep[EpochOf(d)].lost
          /\ ep'[EpochOf(d)].failed = ep[EpochOf(d)].failed
          /\ ep'[EpochOf(d)].marks = ep[EpochOf(d)].marks \cup {Head(sd[d].queue)}
      BY <1>2, <1>9 DEF Epoch, SameFile
    <2>. QED  BY <1>1, <1>3, <1>4, <1>5, <1>6, <1>7, <2>1
  <1>. QED  BY <1>3, <1>8, <1>9

\* In the fail state the thread drops the head of the queue.
LEMMA ThreadDropsEffect ==
  ASSUME TypeOK, NEW d \in {"dev", "old"}, ThreadDrops(d)
  PROVE  /\ Only(d, EpochOf(d)) /\ sd[d] \in Device /\ sd'[d] \in Device
         /\ SameFlags(sd'[d], sd[d]) /\ sd[d].seen
         /\ sd[d].queue # <<>> /\ sd'[d].queue = Tail(sd[d].queue)
  <1>1. sd[d] \in Device
    BY DevType DEF ThreadDrops, Awake
  <1>2. Only(d, EpochOf(d)) /\ sd'[d] = [sd[d] EXCEPT !.queue = Tail(@)]
    BY DEF ThreadDrops, Only, TypeOK
  <1>3. Tail(sd[d].queue) \in Seq(Blocks)
    BY <1>1 DEF Device, ThreadDrops
  <1>4. sd'[d] \in Device /\ sd'[d].queue = Tail(sd[d].queue)
    BY <1>1, <1>2, <1>3 DEF Device
  <1>5. SameFlags(sd'[d], sd[d])
    BY <1>1, <1>2 DEF Device, SameFlags
  <1>6. sd[d].seen /\ sd[d].queue # <<>>
    BY DEF ThreadDrops
  <1>. QED  BY <1>1, <1>2, <1>4, <1>5, <1>6

\* The thread of d goes from one state to another, and nothing else changes.
Turns(d, th) ==
  /\ Only(d, EpochOf(d)) /\ sd[d] \in Device /\ sd'[d] \in Device
  /\ sd'[d].state = sd[d].state /\ sd'[d].fail = sd[d].fail
  /\ sd'[d].seen = sd[d].seen /\ sd'[d].queue = sd[d].queue
  /\ sd'[d].clones = sd[d].clones /\ sd'[d].thread = th /\ ep' = ep

\* A step that changes the state of a thread only.
LEMMA TurnsEffect ==
  ASSUME TypeOK, NEW d \in {"dev", "old"}, sd[d] # NoDev,
         NEW th \in {"none", "leaving", "stopping"},
         sd' = [sd EXCEPT ![d].thread = th], ep' = ep
  PROVE  Turns(d, th)
  <1>1. sd[d] \in Device
    BY DevType
  <1>2. Only(d, EpochOf(d)) /\ sd'[d] = [sd[d] EXCEPT !.thread = th]
    BY DEF Only, TypeOK
  <1>3. sd'[d] \in Device
    BY <1>1, <1>2 DEF Device
  <1>4. /\ sd'[d].state = sd[d].state /\ sd'[d].fail = sd[d].fail
        /\ sd'[d].seen = sd[d].seen /\ sd'[d].queue = sd[d].queue
        /\ sd'[d].clones = sd[d].clones /\ sd'[d].thread = th
    BY <1>1, <1>2 DEF Device
  <1>. QED  BY <1>1, <1>2, <1>3, <1>4 DEF Turns

\* The thread has seen an empty queue.
LEMMA ThreadLeavesEffect ==
  ASSUME TypeOK, NEW d \in {"dev", "old"}, ThreadLeaves(d)
  PROVE  /\ Turns(d, "none") \/ Turns(d, "leaving")
         /\ sd[d].queue = <<>> /\ sd[d].thread = "stopping"
  <1>1. CASE sd[d].mode = "inc"
    BY <1>1, TurnsEffect DEF ThreadLeaves, Awake
  <1>2. CASE sd[d].mode # "inc"
    BY <1>2, TurnsEffect DEF ThreadLeaves, Awake
  <1>. QED  BY <1>1, <1>2

\* The thread has compared its counters.
LEMMA ThreadComparesEffect ==
  ASSUME TypeOK, NEW d \in {"dev", "old"}, ThreadCompares(d)
  PROVE  /\ Turns(d, "none") \/ Turns(d, "stopping")
         /\ sd[d].thread = "leaving"
  BY TurnsEffect DEF ThreadCompares

\* Nothing is recorded in a COW file that is not there, or just created.
LEMMA EmptyEpochs ==
  /\ NoEpoch.cm = "none" /\ NoEpoch.file = "none"
  /\ NoEpoch.marks = {} /\ NoEpoch.changed = {} /\ NoEpoch.late = {}
  /\ NoEpoch.failed = {} /\ NoEpoch.lost = {}
  /\ NewEpoch.cm = "open" /\ NewEpoch.file = "dirty"
  /\ NewEpoch.marks = {} /\ NewEpoch.changed = {} /\ NewEpoch.late = {}
  /\ NewEpoch.failed = {} /\ NewEpoch.lost = {}
  BY DEF NoEpoch, NewEpoch

\* When the driver's memory is gone a clean file loses the late blocks.
LEMMA OnDiskEffect ==
  ASSUME NEW e \in Epoch
  PROVE  /\ OnDisk(e).cm = "none" /\ OnDisk(e).file = e.file /\ OnDisk(e).late = {}
         /\ e.file = "clean" =>
              /\ OnDisk(e).marks = e.marks /\ OnDisk(e).changed = e.changed
              /\ OnDisk(e).lost = e.lost \cup e.late /\ OnDisk(e).failed = e.failed
  BY DEF OnDisk, NoEpoch, Epoch

\* New and reloaded devices have empty queues and have not failed.
LEMMA NewDeviceFields ==
  ASSUME NEW mode
  PROVE  /\ NewDevice(mode).state = "active" /\ NewDevice(mode).queue = <<>>
         /\ NewDevice(mode).thread = "created" /\ NewDevice(mode).clones = {}
         /\ ~NewDevice(mode).fail /\ ~NewDevice(mode).seen
         /\ Unverified(mode).state = "unverified" /\ Unverified(mode).queue = <<>>
         /\ Unverified(mode).thread = "none" /\ Unverified(mode).clones = {}
         /\ ~Unverified(mode).fail /\ ~Unverified(mode).seen
  BY DEF NewDevice, Unverified

\* The first snapshot: an active device with an empty COW file.
LEMMA SetupSnapEffect ==
  ASSUME TypeOK, SetupSnap
  PROVE  /\ sd'.dev \in Device /\ sd'.dev.state = "active" /\ sd'.dev.queue = <<>>
         /\ sd'.dev.thread = "running" /\ ~sd'.dev.fail /\ ~sd'.dev.seen
         /\ sd'.dev.clones = {}
         /\ sd'.old = sd.old /\ ep'.cur = NewEpoch /\ ep'.prev = NoEpoch
  <1>1. sd'.dev = [NewDevice("snap") EXCEPT !.thread = "running"] /\ sd'.old = sd.old
    BY Shapes DEF SetupSnap
  <1>2. sd'.dev \in Device
    BY <1>1, NewDeviceType DEF Device
  <1>3. /\ sd'.dev.state = "active" /\ sd'.dev.queue = <<>>
        /\ sd'.dev.thread = "running" /\ ~sd'.dev.fail /\ ~sd'.dev.seen
        /\ sd'.dev.clones = {}
    BY <1>1 DEF NewDevice
  <1>. QED  BY <1>1, <1>2, <1>3 DEF SetupSnap

\* A reload only adds an unverified device.
LEMMA ReloadEffect ==
  ASSUME TypeOK, NEW mode \in {"snap", "inc"}, Reload(mode)
  PROVE  /\ sd'.dev = Unverified(mode) /\ sd'.dev \in Device
         /\ sd'.old = sd.old /\ ep' = ep
  BY Shapes, NewDeviceType DEF Reload

\* A mode transition: the old device keeps its queue, the new one has none.
LEMMA ReplaceEffect ==
  ASSUME TypeOK, NEW m, NEW mode \in {"snap", "inc"}, Active(m), Replace(mode)
  PROVE  /\ sd.dev \in Device /\ sd.dev.state = "active" /\ ~sd.dev.fail
         /\ sd'.dev = NewDevice(mode) /\ sd'.dev \in Device /\ sd'.old \in Device
         /\ sd'.old.fail = sd.dev.fail /\ sd'.old.seen = sd.dev.seen
         /\ sd'.old.queue = sd.dev.queue /\ sd'.old.thread = "stopping"
         /\ sd'.old.clones = sd.dev.clones
  <1>1. sd.dev \in Device
    BY DevType DEF Active, dev
  <1>2. sd'.dev = NewDevice(mode) /\ sd'.old = [sd.dev EXCEPT !.thread = "stopping"]
    BY DEF Replace, dev
  <1>3. sd'.old \in Device
    BY <1>1, <1>2 DEF Device
  <1>4. /\ sd'.old.fail = sd.dev.fail /\ sd'.old.seen = sd.dev.seen
        /\ sd'.old.queue = sd.dev.queue /\ sd'.old.thread = "stopping"
        /\ sd'.old.clones = sd.dev.clones
    BY <1>1, <1>2 DEF Device
  <1>. QED  BY <1>1, <1>2, <1>3, <1>4, NewDeviceType DEF Active, dev

\* The end of the transition to incremental: the fail state is inherited.
LEMMA WakeIncEffect ==
  ASSUME TypeOK, ControlInv, WakeInc
  PROVE  /\ sd.dev \in Device /\ sd.old \in Device /\ sd'.dev \in Device
         /\ sd'.old = NoDev /\ sd'.dev.thread = "running"
         /\ sd'.dev.state = sd.dev.state /\ sd'.dev.seen = sd.dev.seen
         /\ sd'.dev.queue = sd.dev.queue /\ sd'.dev.clones = sd.dev.clones
         /\ sd'.dev.fail <=> sd.dev.fail \/ sd.old.fail
  <1>1. sd.dev \in Device /\ sd.old \in Device
    BY DevType DEF WakeInc, ControlInv, dev
  <1>2. sd' = [dev |-> [sd.dev EXCEPT !.thread = "running", !.fail = @ \/ sd.old.fail],
               old |-> NoDev]
    BY DEF WakeInc, dev
  <1>3. sd'.dev = [sd.dev EXCEPT !.thread = "running", !.fail = sd.dev.fail \/ sd.old.fail]
    BY <1>2
  <1>4. (sd.dev.fail \/ sd.old.fail) \in BOOLEAN
    OBVIOUS
  <1>5. /\ sd'.dev \in Device /\ sd'.dev.thread = "running"
        /\ sd'.dev.state = sd.dev.state /\ sd'.dev.seen = sd.dev.seen
        /\ sd'.dev.queue = sd.dev.queue /\ sd'.dev.clones = sd.dev.clones
    BY <1>1, <1>3, <1>4 DEF Device
  <1>6. sd'.dev.fail <=> sd.dev.fail \/ sd.old.fail
    BY <1>1, <1>3, <1>4 DEF Device
  <1>. QED  BY <1>1, <1>2, <1>5, <1>6

\* Truncating the file leaves its index alone.
LEMMA TruncateEffect ==
  ASSUME TypeOK, Truncate
  PROVE  /\ SameFile(ep'.cur, ep.cur) /\ SameSets(ep'.cur, ep.cur)
         /\ ep'.prev = ep.prev /\ sd' = sd
  <1>1. CASE ep' = ep
    BY <1>1 DEF Truncate, SameFile, SameSets
  <1>2. CASE ep' = [ep EXCEPT !.cur.index_only = TRUE]
    <2>1. ep'.cur = [ep.cur EXCEPT !.index_only = TRUE] /\ ep'.prev = ep.prev
      BY <1>2, Shapes
    <2>. QED  BY <2>1, Shapes DEF Epoch, SameFile, SameSets, Truncate
  <1>. QED  BY <1>1, <1>2 DEF Truncate

\* The end of the transition to snapshot leaves the new device's queue alone.
LEMMA WakeSnapEffect ==
  ASSUME TypeOK, ControlInv, WakeSnap
  PROVE  /\ sd.dev \in Device /\ sd'.dev \in Device /\ sd'.old = NoDev
         /\ sd'.dev.state = sd.dev.state /\ sd'.dev.seen = sd.dev.seen
         /\ sd'.dev.fail = sd.dev.fail /\ sd'.dev.queue = sd.dev.queue
         /\ sd'.dev.clones = sd.dev.clones
         /\ sd'.dev.thread = "running" /\ ep'.cur = ep.cur
  <1>1. sd.dev \in Device
    BY DevType DEF WakeSnap, ControlInv, dev
  <1>2. sd'.dev = [sd.dev EXCEPT !.thread = "running"] /\ sd'.old = NoDev
    BY DEF WakeSnap, dev
  <1>3. sd'.dev \in Device
    BY <1>1, <1>2 DEF Device
  <1>4. /\ sd'.dev.state = sd.dev.state /\ sd'.dev.seen = sd.dev.seen
        /\ sd'.dev.fail = sd.dev.fail /\ sd'.dev.queue = sd.dev.queue
        /\ sd'.dev.thread = "running" /\ sd'.dev.clones = sd.dev.clones
    BY <1>1, <1>2 DEF Device
  <1>5. ep'.cur = ep.cur
    BY Shapes DEF WakeSnap
  <1>. QED  BY <1>1, <1>2, <1>3, <1>4, <1>5

\* Before an umount the thread of an active device is asked to stop.
LEMMA UmountStartsEffect ==
  ASSUME TypeOK, UmountStarts
  PROVE  /\ sd'.old = sd.old /\ ep' = ep
         /\ \/ sd' = sd /\ pc' = "umount"
            \/ /\ pc' = "to dormant"
               /\ sd.dev \in Device /\ sd.dev.state = "active" /\ ~sd.dev.fail
               /\ sd'.dev \in Device /\ sd'.dev.queue = sd.dev.queue
               /\ sd'.dev.state = sd.dev.state /\ sd'.dev.fail = sd.dev.fail
               /\ sd'.dev.seen = sd.dev.seen /\ sd'.dev.thread = "stopping"
               /\ sd'.dev.clones = sd.dev.clones
  <1>1. CASE dev # NoDev /\ dev.state = "active" /\ ~dev.fail
    <2>1. sd.dev \in Device
      BY <1>1, DevType DEF dev
    <2>2. /\ sd' = [sd EXCEPT !.dev.thread = "stopping"] /\ pc' = "to dormant" /\ ep' = ep
      BY <1>1 DEF UmountStarts
    <2>3. sd'.dev = [sd.dev EXCEPT !.thread = "stopping"] /\ sd'.old = sd.old
      BY <2>2, Shapes
    <2>4. sd'.dev \in Device
      BY <2>1, <2>3 DEF Device
    <2>5. /\ sd'.dev.state = sd.dev.state /\ sd'.dev.seen = sd.dev.seen
          /\ sd'.dev.fail = sd.dev.fail /\ sd'.dev.queue = sd.dev.queue
          /\ sd'.dev.thread = "stopping" /\ sd'.dev.clones = sd.dev.clones
      BY <2>1, <2>3 DEF Device
    <2>6. sd.dev.state = "active" /\ ~sd.dev.fail
      BY <1>1 DEF dev
    <2>. QED  BY <2>1, <2>2, <2>3, <2>4, <2>5, <2>6
  <1>2. CASE ~(dev # NoDev /\ dev.state = "active" /\ ~dev.fail)
    BY <1>2 DEF UmountStarts
  <1>. QED  BY <1>1, <1>2

\* The file is closed with all its mappings, or the device fails.
LEMMA CloseForDormantEffect ==
  ASSUME TypeOK, ControlInv, CloseForDormant
  PROVE  /\ sd.dev \in Device /\ sd'.dev \in Device /\ sd'.old = sd.old
         /\ sd'.dev.queue = sd.dev.queue /\ sd'.dev.seen = sd.dev.seen
         /\ sd'.dev.thread = sd.dev.thread /\ sd'.dev.clones = sd.dev.clones
         /\ ep'.prev = ep.prev
         /\ \/ ep.cur.cm = "freed" /\ sd' = sd /\ ep' = ep
            \/ /\ ep.cur.cm # "freed"
               /\ sd'.dev.state = "dormant" /\ sd'.dev.fail = sd.dev.fail
               /\ ep'.cur.cm = "closed" /\ ep'.cur.file = "clean"
               /\ SameSets(ep'.cur, ep.cur)
            \/ /\ sd'.dev.state = sd.dev.state /\ sd'.dev.fail
               /\ ep'.cur = Freed(ep.cur, "freed")
  <1>1. sd.dev \in Device
    BY DevType DEF CloseForDormant, ControlInv, dev
  <1>2. CASE ep.cur.cm = "freed"
    BY <1>1, <1>2 DEF CloseForDormant, cur
  <1>3. CASE /\ ep.cur.cm # "freed"
             /\ sd' = [sd EXCEPT !.dev.inode = FALSE, !.dev.state = "dormant"]
             /\ ep' = [ep EXCEPT !.cur.cm = "closed", !.cur.file = "clean"]
    <2>1. /\ sd'.dev = [sd.dev EXCEPT !.inode = FALSE, !.state = "dormant"]
          /\ sd'.old = sd.old
      BY <1>3, Shapes
    <2>2. /\ ep'.cur = [ep.cur EXCEPT !.cm = "closed", !.file = "clean"]
          /\ ep'.prev = ep.prev
      BY <1>3, Shapes
    <2>3. sd'.dev \in Device
      BY <1>1, <2>1 DEF Device
    <2>4. /\ sd'.dev.queue = sd.dev.queue /\ sd'.dev.seen = sd.dev.seen
          /\ sd'.dev.thread = sd.dev.thread /\ sd'.dev.state = "dormant"
          /\ sd'.dev.fail = sd.dev.fail /\ sd'.dev.clones = sd.dev.clones
      BY <1>1, <2>1 DEF Device
    <2>5. /\ ep'.cur.cm = "closed" /\ ep'.cur.file = "clean"
          /\ SameSets(ep'.cur, ep.cur)
      BY <2>2, Shapes DEF Epoch, SameSets
    <2>. QED  BY <1>1, <1>3, <2>1, <2>2, <2>3, <2>4, <2>5
  <1>4. CASE /\ sd' = [sd EXCEPT !.dev.inode = FALSE, !.dev.fail = TRUE]
             /\ ep' = [ep EXCEPT !.cur = Freed(@, "freed")]
    <2>1. /\ sd'.dev = [sd.dev EXCEPT !.inode = FALSE, !.fail = TRUE]
          /\ sd'.old = sd.old
      BY <1>4, Shapes
    <2>2. ep'.cur = Freed(ep.cur, "freed") /\ ep'.prev = ep.prev
      BY <1>4, Shapes
    <2>3. sd'.dev \in Device /\ sd'.dev.fail
      BY <1>1, <2>1 DEF Device
    <2>4. /\ sd'.dev.queue = sd.dev.queue /\ sd'.dev.seen = sd.dev.seen
          /\ sd'.dev.thread = sd.dev.thread /\ sd'.dev.state = sd.dev.state
          /\ sd'.dev.clones = sd.dev.clones
      BY <1>1, <2>1 DEF Device
    <2>. QED  BY <1>1, <2>1, <2>2, <2>3, <2>4
  <1>. QED  BY <1>2, <1>3, <1>4 DEF CloseForDormant, cur

\* A step that activates a dormant device has one of the outcomes.
LEMMA ReactivatedStep ==
  ASSUME TypeOK, sd.dev \in Device, NEW r \in DormantToActive(sd.dev, ep.cur),
         sd' = [sd EXCEPT !.dev = r[1]], ep' = [ep EXCEPT !.cur = r[2]]
  PROVE  /\ sd'.old = sd.old /\ ep'.prev = ep.prev
         /\ Reactivated(sd.dev, ep.cur, sd'.dev, ep'.cur)
  <1>1. /\ sd'.dev = r[1] /\ sd'.old = sd.old
        /\ ep'.cur = r[2] /\ ep'.prev = ep.prev
    BY Shapes
  <1>2. Reactivated(sd.dev, ep.cur, r[1], r[2])
    BY Shapes, DormantOutcomes
  <1>. QED  BY <1>1, <1>2

\* A step that activates an unverified device has one of the outcomes.
LEMMA VerifiedStep ==
  ASSUME TypeOK, sd.dev \in Device, NEW r \in UnverifiedToActive(sd.dev, ep.cur),
         sd' = [sd EXCEPT !.dev = r[1]], ep' = [ep EXCEPT !.cur = r[2]]
  PROVE  /\ sd'.old = sd.old /\ ep'.prev = ep.prev
         /\ Verified(sd.dev, ep.cur, sd'.dev, ep'.cur)
  <1>1. /\ sd'.dev = r[1] /\ sd'.old = sd.old
        /\ ep'.cur = r[2] /\ ep'.prev = ep.prev
    BY Shapes
  <1>2. Verified(sd.dev, ep.cur, r[1], r[2])
    BY Shapes, UnverifiedOutcomes
  <1>. QED  BY <1>1, <1>2

\* What a mount does to a device that is not active.
LEMMA MountActivatesEffect ==
  ASSUME TypeOK, MountActivates
  PROVE  /\ sd.dev \in Device
         /\ sd'.old = sd.old /\ ep'.prev = ep.prev
         /\ \/ /\ sd.dev.state = "dormant"
               /\ Reactivated(sd.dev, ep.cur, sd'.dev, ep'.cur)
            \/ /\ sd.dev.state = "unverified"
               /\ Verified(sd.dev, ep.cur, sd'.dev, ep'.cur)
  <1>1. sd.dev \in Device
    BY DevType DEF MountActivates, dev
  <1>2. CASE sd.dev.state = "dormant"
    <2>1. PICK r \in DormantToActive(sd.dev, ep.cur) :
            sd' = [sd EXCEPT !.dev = r[1]] /\ ep' = [ep EXCEPT !.cur = r[2]]
      BY <1>2 DEF MountActivates, dev, cur
    <2>. QED  BY <1>1, <1>2, <2>1, ReactivatedStep
  <1>3. CASE sd.dev.state # "dormant"
    <2>1. PICK r \in UnverifiedToActive(sd.dev, ep.cur) :
            sd' = [sd EXCEPT !.dev = r[1]] /\ ep' = [ep EXCEPT !.cur = r[2]]
      BY <1>3 DEF MountActivates, dev, cur
    <2>2. sd.dev.state = "unverified"
      BY <1>1, <1>3 DEF MountActivates, Device, dev
    <2>. QED  BY <1>1, <2>1, <2>2, VerifiedStep
  <1>. QED  BY <1>2, <1>3

\* What an umount that failed does to the device.
LEMMA UmountUndoneEffect ==
  ASSUME TypeOK, ControlInv, UmountUndone
  PROVE  /\ sd.dev \in Device
         /\ sd'.old = sd.old /\ ep'.prev = ep.prev
         /\ Reactivated(sd.dev, ep.cur, sd'.dev, ep'.cur)
  <1>1. sd.dev \in Device
    BY DevType DEF UmountUndone, ControlInv, dev
  <1>2. CASE \E r \in DormantToActive(dev, cur) :
               sd' = [sd EXCEPT !.dev = r[1]] /\ ep' = [ep EXCEPT !.cur = r[2]]
    BY <1>1, <1>2, ReactivatedStep DEF dev, cur
  <1>3. CASE sd' = [sd EXCEPT !.dev.fail = TRUE] /\ ep' = ep
    <2>1. sd'.dev = [sd.dev EXCEPT !.fail = TRUE] /\ sd'.old = sd.old
      BY <1>3, Shapes
    <2>2. sd'.dev \in Device /\ sd'.dev.fail
      BY <1>1, <2>1 DEF Device
    <2>3. /\ sd'.dev.state = sd.dev.state /\ sd'.dev.seen = sd.dev.seen
          /\ sd'.dev.queue = sd.dev.queue /\ sd'.dev.thread = sd.dev.thread
          /\ sd'.dev.clones = sd.dev.clones
      BY <1>1, <2>1 DEF Device
    <2>. QED  BY <1>1, <1>3, <2>1, <2>2, <2>3 DEF Reactivated
  <1>. QED  BY <1>2, <1>3 DEF UmountUndone

-----------------------------------------------------------------------------
(* How the halves of the system calls, the devices and the threads fit.    *)

\* ControlInv is inductive, with errors at any time.
LEMMA NextControl ==
  ASSUME TypeOK, ControlInv, [Next]_vars
  PROVE  ControlInv'
  <1>. USE DEF ControlInv, dev
  <1>0. /\ sd.dev # NoDev => sd.dev \in Device
        /\ sd.old # NoDev => sd.old \in Device
        /\ sd = [dev |-> sd.dev, old |-> sd.old]
    BY DEF TypeOK
  <1>1. ASSUME NEW b \in Blocks, NEW page \in Pages, TraceInc(b, page)
        PROVE  ControlInv'
    BY <1>0, <1>1, TraceIncEffect, NoDevIsNone DEF TraceInc, Arrives, SameFlags
  <1>24. ASSUME NEW b \in Blocks, NEW page \in Pages, TraceSnap(b, page)
         PROVE  ControlInv'
    BY <1>0, <1>24, TraceSnapEffect, NoDevIsNone DEF TraceSnap, Arrives, SameFlags
  <1>25. ASSUME NEW b \in Blocks, CloneCompletes(b)
         PROVE  ControlInv'
    BY <1>0, <1>25, CloneCompletesEffect, NoDevIsNone DEF CloneCompletes, SameFlags
  <1>26. ASSUME NEW b \in Blocks, CloneFails(b)
         PROVE  ControlInv'
    BY <1>0, <1>26, CloneFailsEffect, NoDevIsNone DEF CloneFails
  <1>2. ASSUME NEW b \in Blocks, NEW page \in Pages, TraceWriteFails(b, page)
        PROVE  ControlInv'
    BY <1>0, <1>2, TraceWriteFailsEffect, NoDevIsNone DEF TraceWriteFails, Arrives
  <1>3. ASSUME NEW b \in Blocks, NEW page \in Pages, PassWrite(b, page)
        PROVE  ControlInv'
    BY <1>0, <1>3 DEF PassWrite, Arrives
  <1>4. ASSUME NEW b \in Blocks, WriteLands(b)
        PROVE  ControlInv'
    BY <1>0, <1>4 DEF WriteLands, Clones
  <1>5. ASSUME NEW d \in {"dev", "old"}, Thread(d)
        PROVE  ControlInv'
    <2>1. CASE ThreadNotices(d)
      <3>1. pc' = pc /\ fs' = fs /\ inflight' = inflight
        BY <2>1 DEF ThreadNotices
      <3>2. CASE d = "dev"
        BY <1>0, <2>1, <3>1, <3>2, ThreadNoticesEffect, NoDevIsNone DEF Only
      <3>3. CASE d = "old"
        BY <1>0, <2>1, <3>1, <3>3, ThreadNoticesEffect, NoDevIsNone DEF Only
      <3>. QED  BY <3>2, <3>3
    <2>2. CASE ThreadRecords(d)
      BY <1>0, <2>2, ThreadRecordsEffect, NoDevIsNone DEF ThreadRecords, Awake, Only, SameFlags
    <2>3. CASE ThreadFails(d)
      BY <1>0, <2>3, ThreadFailsEffect, NoDevIsNone DEF ThreadFails, Awake, Only
    <2>4. CASE ThreadDrops(d)
      BY <1>0, <2>4, ThreadDropsEffect, NoDevIsNone DEF ThreadDrops, Awake, Only, SameFlags
    <2>5. ASSUME NEW th, Turns(d, th), d = "old" => th \in {"stopping", "leaving", "none"},
                 d = "old" /\ th # "stopping" => sd.old.queue = <<>>,
                 sd[d].thread # "created",
                 pc' = pc, fs' = fs, inflight' = inflight
          PROVE  ControlInv'
      <3>1. CASE d = "dev"
        BY <1>0, <2>5, <3>1, NoDevIsNone DEF Turns, Only
      <3>2. CASE d = "old"
        BY <1>0, <2>5, <3>2, NoDevIsNone DEF Turns, Only
      <3>. QED  BY <3>1, <3>2
    <2>6. CASE ThreadLeaves(d)
      BY <2>5, <2>6, ThreadLeavesEffect DEF ThreadLeaves
    <2>7. CASE ThreadCompares(d)
      <3>1. d = "old" => sd.old.queue = <<>>
        BY <2>7 DEF ThreadCompares
      <3>. QED  BY <2>5, <2>7, <3>1, ThreadComparesEffect DEF ThreadCompares
    <2>. QED  BY <1>5, <2>1, <2>2, <2>3, <2>4, <2>6, <2>7 DEF Thread
  <1>6. CASE SetupSnap
    BY <1>0, <1>6, SetupSnapEffect, NoDevIsNone DEF SetupSnap
  <1>7. ASSUME NEW mode \in {"snap", "inc"}, Reload(mode) PROVE ControlInv'
    BY <1>0, <1>7, ReloadEffect, NewDeviceFields, NoDevIsNone DEF Reload
  <1>8. CASE SnapToInc
    BY <1>0, <1>8, ReplaceEffect, NewDeviceFields, NoDevIsNone
       DEF SnapToInc, Replace, Frozen
  <1>9. CASE IncToSnap
    BY <1>0, <1>9, ReplaceEffect, NewDeviceFields, NoDevIsNone
       DEF IncToSnap, Replace, Frozen
  <1>10. CASE Destroy
    BY <1>0, <1>10 DEF Destroy
  <1>11. CASE MountStarts
    BY <1>0, <1>11 DEF MountStarts
  <1>12. CASE UmountStarts
    <2>1. CASE dev # NoDev /\ dev.state = "active" /\ ~dev.fail
      <3>1. sd.dev \in Device
        BY <1>0, <2>1
      <3>2. /\ pc' = "to dormant" /\ fs' = "unmounting" /\ pc = "idle"
            /\ sd' = [sd EXCEPT !.dev.thread = "stopping"]
        BY <1>12, <2>1 DEF UmountStarts
      <3>3. /\ sd'.dev = [sd.dev EXCEPT !.thread = "stopping"]
            /\ sd'.old = sd.old
        BY <1>0, <3>2
      <3>4. /\ sd'.dev \in Device /\ sd'.dev.state = sd.dev.state
            /\ sd'.dev.clones = sd.dev.clones /\ inflight' = inflight
        BY <1>12, <3>1, <3>3 DEF UmountStarts, Device
      <3>. QED  BY <2>1, <3>2, <3>3, <3>4, NoDevIsNone
    <2>2. CASE ~(dev # NoDev /\ dev.state = "active" /\ ~dev.fail)
      BY <1>0, <1>12, <2>2 DEF UmountStarts
    <2>. QED  BY <2>1, <2>2
  <1>13. CASE WakeInc
    BY <1>0, <1>13, WakeIncEffect, NoDevIsNone DEF WakeInc
  <1>14. CASE Truncate
    BY <1>0, <1>14 DEF Truncate
  <1>15. CASE WakeSnap
    BY <1>0, <1>15, WakeSnapEffect, NoDevIsNone DEF WakeSnap
  <1>16. CASE MountUnnoticed
    BY <1>0, <1>16 DEF MountUnnoticed
  <1>17. CASE MountActivates
    BY <1>0, <1>17, MountActivatesEffect, NoDevIsNone
       DEF MountActivates, Reactivated, Verified
  <1>18. CASE CloseForDormant
    <2>0. sd.dev \in Device /\ sd.dev.state = "active"
      BY <1>0, <1>18 DEF CloseForDormant
    <2>1. /\ sd'.old = sd.old
          /\ \/ sd'.dev = sd.dev
             \/ sd'.dev = [sd.dev EXCEPT !.inode = FALSE, !.state = "dormant"]
             \/ sd'.dev = [sd.dev EXCEPT !.inode = FALSE, !.fail = TRUE]
      BY <1>0, <1>18 DEF CloseForDormant
    <2>2. /\ sd'.dev \in Device
          /\ sd'.dev.state \in {"active", "dormant"}
          /\ sd'.dev.clones = sd.dev.clones
      BY <2>0, <2>1 DEF Device
    <2>. QED  BY <1>0, <1>18, <2>1, <2>2, NoDevIsNone DEF CloseForDormant
  <1>19. CASE UmountSucceeds
    BY <1>0, <1>19 DEF UmountSucceeds
  <1>20. CASE UmountFails
    BY <1>0, <1>20 DEF UmountFails
  <1>21. CASE UmountUndone
    BY <1>0, <1>21, UmountUndoneEffect, NoDevIsNone DEF UmountUndone, Reactivated
  <1>22. CASE Crash
    BY <1>0, <1>22 DEF Crash
  <1>23. CASE UNCHANGED vars
    BY <1>23 DEF vars
  <1>. QED
    BY <1>1, <1>2, <1>3, <1>4, <1>5, <1>6, <1>7, <1>8, <1>9, <1>10, <1>11, <1>12,
       <1>13, <1>14, <1>15, <1>16, <1>17, <1>18, <1>19, <1>20, <1>21, <1>22, <1>23,
       <1>24, <1>25, <1>26
       DEF Next, Writer, User, Kernel

-----------------------------------------------------------------------------
(* The manager of an active device.                                        *)

\* ManagerInv is inductive.  A thread that has seen the fail state has freed the
\* manager, so a manager that is not freed has lost nothing.
LEMMA NextManager ==
  ASSUME TypeOK, ControlInv, ManagerInv, [Next]_vars
  PROVE  ManagerInv'
  <1>. USE NoDevIsNone DEF ManagerInv, Tracking, Traced, dev, cur, EpochOf
  <1>0. /\ sd.dev # NoDev => sd.dev \in Device
        /\ sd.old # NoDev => sd.old \in Device
        /\ ep.cur \in Epoch /\ ep.prev \in Epoch
    BY DevType, EpType
  <1>1. ASSUME NEW b \in Blocks, NEW page \in Pages, TraceInc(b, page)
        PROVE  ManagerInv'
    <2>1. sd.dev.state # "unverified" /\ pc' = pc
      BY <1>1 DEF TraceInc, NeedsTrace
    <2>. QED  BY <1>1, <2>1, TraceIncEffect DEF SameFlags, SameFile, Queues
  <1>24. ASSUME NEW b \in Blocks, NEW page \in Pages, TraceSnap(b, page)
         PROVE  ManagerInv'
    <2>1. pc' = pc
      BY <1>24 DEF TraceSnap
    <2>. QED  BY <1>24, <2>1, TraceSnapEffect
  <1>25. ASSUME NEW b \in Blocks, CloneCompletes(b)
         PROVE  ManagerInv'
    <2>1. sd.dev.state # "unverified" /\ pc' = pc
      BY <1>25, CloneCompletesEffect DEF CloneCompletes
    <2>. QED  BY <1>25, <2>1, CloneCompletesEffect DEF SameFile, Queues
  <1>26. ASSUME NEW b \in Blocks, CloneFails(b)
         PROVE  ManagerInv'
    <2>1. sd.dev.state # "unverified" /\ pc' = pc
      BY <1>26, CloneFailsEffect DEF CloneFails
    <2>2. SameFile(ep'.cur, ep.cur)
      BY <1>0, <1>26, CloneFailsEffect, FailingEffect
    <2>. QED  BY <1>26, <2>1, <2>2, CloneFailsEffect DEF SameFile
  <1>2. ASSUME NEW b \in Blocks, NEW page \in Pages, TraceWriteFails(b, page)
        PROVE  ManagerInv'
    <2>1. sd.dev.state # "unverified" /\ pc' = pc
      BY <1>2 DEF TraceWriteFails, NeedsTrace
    <2>2. SameFile(ep'.cur, ep.cur)
      BY <1>0, <1>2, TraceWriteFailsEffect, FailingEffect
    <2>. QED  BY <1>2, <2>1, <2>2, TraceWriteFailsEffect DEF SameFile
  <1>3. ASSUME NEW b \in Blocks, NEW page \in Pages, PassWrite(b, page)
        PROVE  ManagerInv'
    <2>1. SameFile(ep'.cur, ep.cur) /\ ep'.prev = ep.prev
      BY <1>0, <1>3, PassWriteEffect, LosingEffect
    <2>. QED  BY <1>3, <2>1 DEF PassWrite, SameFile
  <1>4. ASSUME NEW b \in Blocks, WriteLands(b)
        PROVE  ManagerInv'
    BY <1>4, WriteLandsEffect DEF WriteLands, SameFile
  <1>5. ASSUME NEW d \in {"dev", "old"}, Thread(d)
        PROVE  ManagerInv'
    <2>0. /\ pc' = pc /\ sd[d] # NoDev /\ sd.dev # NoDev
          /\ d = "dev" => sd.old = NoDev /\ sd.dev.state = "active"
          /\ d = "old" => /\ sd.dev.thread = "created" /\ pc \in {"to inc", "to snap"}
                          /\ sd.dev.state = "active"
      <3>1. /\ pc' = pc /\ sd[d] # NoDev
            /\ sd[d].thread \notin {"none", "created"}
        BY <1>5 DEF Thread, ThreadNotices, ThreadRecords, ThreadFails, ThreadDrops,
                    ThreadLeaves, ThreadCompares, Awake
      <3>. QED  BY <3>1 DEF ControlInv
    <2>1. CASE ThreadNotices(d)
      <3>1. /\ ep'[EpochOf(d)].cm = "freed"
            /\ ep'[EpochOf(d)].file \in {"none", ep[EpochOf(d)].file}
        BY <2>1, ThreadNoticesEffect
      <3>2. CASE d = "dev"
        <4>1. ep'.cur.cm = "freed" /\ ep'.cur.file \in {"none", ep.cur.file}
          BY <3>1, <3>2
        <4>2. /\ sd'.dev \in Device /\ sd'.dev.fail /\ sd'.dev.state = "active"
              /\ sd'.old = NoDev /\ ep'.prev = ep.prev
          BY <2>0, <2>1, <3>2, ThreadNoticesEffect DEF Only
        <4>. QED  BY <2>0, <3>2, <4>1, <4>2 DEF ControlInv
      <3>3. CASE d = "old" /\ pc = "to inc"
        <4>1. ep'.cur.cm = "freed" /\ ep'.cur.file \in {"none", ep.cur.file}
          BY <3>1, <3>3
        <4>2. /\ sd'.old \in Device /\ sd'.old.fail /\ sd'.dev = sd.dev
              /\ ep'.prev = ep.prev
          BY <2>0, <2>1, <3>3, ThreadNoticesEffect DEF Only
        <4>. QED  BY <2>0, <3>3, <4>1, <4>2 DEF ControlInv
      <3>4. CASE d = "old" /\ pc = "to snap"
        <4>1. ep'.prev.cm = "freed" /\ ep'.prev.file \in {"none", ep.prev.file}
          BY <3>1, <3>4
        <4>2. /\ sd'.old \in Device /\ sd'.old.fail /\ sd'.dev = sd.dev
              /\ ep'.cur = ep.cur
          BY <2>0, <2>1, <3>4, ThreadNoticesEffect DEF Only
        <4>3. sd'.old.seen
          BY <1>0, <2>1, <3>4 DEF ThreadNotices, Awake, TypeOK, Device
        <4>. QED  BY <2>0, <3>4, <4>1, <4>2, <4>3
      <3>. QED  BY <2>0, <3>2, <3>3, <3>4
    <2>2. CASE ThreadRecords(d)
      <3>1. SameFile(ep'[EpochOf(d)], ep[EpochOf(d)])
        BY <2>2, ThreadRecordsEffect
      <3>2. CASE d = "dev"
        BY <2>0, <2>2, <3>1, <3>2, ThreadRecordsEffect DEF Only, SameFile, SameFlags, ControlInv
      <3>3. CASE d = "old"
        BY <2>0, <2>2, <3>1, <3>3, ThreadRecordsEffect DEF Only, SameFile, SameFlags, ControlInv
      <3>. QED  BY <3>2, <3>3
    <2>3. CASE ThreadFails(d)
      <3>1. SameFile(ep'[EpochOf(d)], ep[EpochOf(d)])
        BY <2>3, ThreadFailsEffect
      <3>2. CASE d = "dev"
        <4>1. /\ sd'.dev \in Device /\ sd'.dev.state = "active" /\ sd'.old = NoDev
              /\ sd'.dev.seen = sd.dev.seen
              /\ ep'.prev = ep.prev /\ SameFile(ep'.cur, ep.cur)
          BY <2>0, <2>3, <3>1, <3>2, ThreadFailsEffect DEF Only
        <4>2. sd'.dev.fail
          BY <2>3, <3>2, ThreadFailsEffect
        <4>. QED  BY <2>0, <4>1, <4>2, <3>2 DEF SameFile, ControlInv
      <3>3. CASE d = "old" /\ pc = "to inc"
        <4>1. /\ sd'.old \in Device /\ sd'.dev = sd.dev /\ sd'.old.seen = sd.old.seen
              /\ ep'.prev = ep.prev /\ SameFile(ep'.cur, ep.cur)
          BY <2>3, <3>1, <3>3, ThreadFailsEffect DEF Only
        <4>2. sd'.old.fail
          BY <2>3, <3>3, ThreadFailsEffect
        <4>. QED  BY <2>0, <3>3, <4>1, <4>2 DEF SameFile
      <3>4. CASE d = "old" /\ pc = "to snap"
        <4>1. /\ sd'.old \in Device /\ sd'.dev = sd.dev /\ sd'.old.seen = sd.old.seen
              /\ ep'.cur = ep.cur /\ SameFile(ep'.prev, ep.prev)
          BY <2>3, <3>1, <3>4, ThreadFailsEffect DEF Only
        <4>2. sd'.old.fail
          BY <2>3, <3>4, ThreadFailsEffect
        <4>. QED  BY <2>0, <3>4, <4>1, <4>2 DEF SameFile
      <3>. QED  BY <2>0, <3>2, <3>3, <3>4
    <2>4. CASE ThreadDrops(d)
      <3>1. ep' = ep
        BY <2>4 DEF ThreadDrops
      <3>2. CASE d = "dev"
        BY <2>0, <2>4, <3>1, <3>2, ThreadDropsEffect DEF Only, SameFlags, ControlInv
      <3>3. CASE d = "old"
        BY <2>0, <2>4, <3>1, <3>3, ThreadDropsEffect DEF Only, SameFlags, ControlInv
      <3>. QED  BY <3>2, <3>3
    <2>5. ASSUME NEW th, Turns(d, th)
          PROVE  ManagerInv'
      <3>1. CASE d = "dev"
        BY <2>0, <2>5, <3>1 DEF Turns, Only, ControlInv
      <3>2. CASE d = "old"
        BY <2>0, <2>5, <3>2 DEF Turns, Only, ControlInv
      <3>. QED  BY <3>1, <3>2
    <2>6. CASE ThreadLeaves(d)
      BY <2>5, <2>6, ThreadLeavesEffect
    <2>7. CASE ThreadCompares(d)
      BY <2>5, <2>7, ThreadComparesEffect
    <2>. QED  BY <1>5, <2>1, <2>2, <2>3, <2>4, <2>6, <2>7 DEF Thread
  <1>6. CASE SetupSnap
    BY <1>6, SetupSnapEffect, EmptyEpochs DEF SetupSnap, ControlInv
  <1>7. ASSUME NEW mode \in {"snap", "inc"}, Reload(mode) PROVE ManagerInv'
    BY <1>7, ReloadEffect, NewDeviceFields DEF Reload, ControlInv
  <1>8. CASE SnapToInc
    BY <1>8, ReplaceEffect, NewDeviceFields DEF SnapToInc, Replace, ControlInv
  <1>9. CASE IncToSnap
    BY <1>9, ReplaceEffect, NewDeviceFields, EmptyEpochs
       DEF IncToSnap, Replace, ControlInv
  <1>10. CASE Destroy
    <2>. DEFINE e == [ep.cur EXCEPT !.late = @ \cup (sd.dev.clones \ ep.cur.marks)]
    <2>1. /\ sd'.dev = NoDev /\ sd'.old = sd.old /\ pc' = pc
          /\ ep'.cur = OnDisk(Freed(e, "none")) /\ ep'.prev = ep.prev
      BY <1>10, Shapes DEF Destroy
    <2>2. e \in Epoch
      BY <1>0, <1>10 DEF Destroy, Device, Epoch
    <2>. HIDE DEF e
    <2>3. ep'.cur.cm = "none"
      <3>1. Freed(e, "none") \in Epoch
        BY <2>2, EpochOps
      <3>2. OnDisk(Freed(e, "none")).cm = "none"
        BY <3>1, OnDiskEffect
      <3>. QED  BY <2>1, <3>2
    <2>. QED  BY <1>10, <2>1, <2>3 DEF Destroy, ControlInv
  <1>11. CASE MountStarts
    BY <1>11 DEF MountStarts
  <1>12. CASE UmountStarts
    BY <1>12, UmountStartsEffect DEF ControlInv, UmountStarts
  <1>13. CASE WakeInc
    BY <1>0, <1>13, WakeIncEffect DEF WakeInc, ControlInv
  <1>14. CASE Truncate
    BY <1>0, <1>14, TruncateEffect DEF Truncate, ControlInv, SameFile
  <1>15. CASE WakeSnap
    BY <1>0, <1>15, WakeSnapEffect DEF WakeSnap, ControlInv
  <1>16. CASE MountUnnoticed
    BY <1>16 DEF MountUnnoticed
  <1>17. CASE MountActivates
    <2>1. pc = "idle" /\ pc' = "idle" /\ sd.old = NoDev /\ sd'.old = NoDev
      BY <1>17, MountActivatesEffect DEF MountActivates, ControlInv
    <2>. QED  BY <1>0, <1>17, <2>1, MountActivatesEffect, EmptyEpochs
       DEF MountActivates, Reactivated, Verified, OpenedFrom
  <1>18. CASE CloseForDormant
    <2>1. /\ pc = "to dormant" /\ pc' \in {"umount dormant", "oops"}
          /\ sd.dev.thread = "none" /\ sd.old = NoDev /\ sd'.old = NoDev
          /\ sd.dev.state = "active"
      BY <1>18, CloseForDormantEffect DEF CloseForDormant, ControlInv
    <2>2. /\ sd.dev \in Device /\ sd'.dev \in Device
          /\ sd'.dev.seen = sd.dev.seen /\ sd'.dev.thread = "none"
          /\ ep'.prev = ep.prev
      BY <1>18, <2>1, CloseForDormantEffect
    <2>3. CASE ep.cur.cm = "freed" /\ sd' = sd /\ ep' = ep
      BY <2>1, <2>3
    <2>4. CASE /\ ep.cur.cm # "freed"
               /\ sd'.dev.state = "dormant" /\ sd'.dev.fail = sd.dev.fail
               /\ ep'.cur.cm = "closed" /\ ep'.cur.file = "clean"
      BY <2>1, <2>2, <2>4
    <2>5. CASE /\ sd'.dev.state = sd.dev.state /\ sd'.dev.fail
               /\ ep'.cur = Freed(ep.cur, "freed")
      <3>1. ep'.cur.cm = "freed" /\ ep'.cur.file \in {"none", ep.cur.file}
        <4>1. /\ Freed(ep.cur, "freed").cm = "freed"
              /\ Freed(ep.cur, "freed").file \in {"none", ep.cur.file}
          BY <1>0, FreedEffect
        <4>. QED  BY <2>5, <4>1
      <3>. QED  BY <2>1, <2>2, <2>5, <3>1
    <2>. QED  BY <1>18, <2>3, <2>4, <2>5, CloseForDormantEffect
  <1>19. CASE UmountSucceeds
    BY <1>19 DEF UmountSucceeds
  <1>20. CASE UmountFails
    BY <1>20 DEF UmountFails
  <1>21. CASE UmountUndone
    <2>1. /\ pc = "umount dormant" /\ pc' = "idle" /\ sd.old = NoDev /\ sd'.old = NoDev
          /\ sd.dev.state # "unverified"
      BY <1>21, UmountUndoneEffect DEF UmountUndone, ControlInv
    <2>. QED  BY <1>0, <1>21, <2>1, UmountUndoneEffect DEF Reactivated, OpenedFrom
  <1>22. CASE Crash
    BY <1>0, <1>22, OnDiskEffect DEF Crash
  <1>23. CASE UNCHANGED vars
    BY <1>23 DEF vars
  <1>. QED
    BY <1>1, <1>2, <1>3, <1>4, <1>5, <1>6, <1>7, <1>8, <1>9, <1>10, <1>11, <1>12,
       <1>13, <1>14, <1>15, <1>16, <1>17, <1>18, <1>19, <1>20, <1>21, <1>22, <1>23,
       <1>24, <1>25, <1>26
       DEF Next, Writer, User, Kernel

-----------------------------------------------------------------------------
(* Where every change is to be found.                                      *)

\* What appending to a queue and taking its head do to the set of its blocks.
LEMMA QueueSets ==
  ASSUME NEW q \in Seq(Blocks)
  PROVE  /\ \A b \in Blocks : ToSet(Append(q, b)) = ToSet(q) \cup {b}
         /\ q # <<>> => ToSet(q) = {Head(q)} \cup ToSet(Tail(q))
         /\ q = <<>> => ToSet(q) = {}
  <1>1. ASSUME NEW b \in Blocks
        PROVE  ToSet(Append(q, b)) = ToSet(q) \cup {b}
    <2>. DEFINE r == Append(q, b)
    <2>1. DOMAIN q = 1..Len(q) /\ DOMAIN r = 1..(Len(q) + 1) /\ Len(q) \in Nat
      OBVIOUS
    <2>2. (\A i \in 1..Len(q) : r[i] = q[i]) /\ r[Len(q) + 1] = b
      OBVIOUS
    <2>. HIDE DEF r
    <2>3. \A i \in 1..(Len(q) + 1) : i \in 1..Len(q) \/ i = Len(q) + 1
      BY <2>1
    <2>4. ToSet(r) \subseteq ToSet(q) \cup {b}
      BY <2>1, <2>2, <2>3 DEF ToSet
    <2>5. b \in ToSet(r)
      BY <2>1, <2>2 DEF ToSet
    <2>6. ToSet(q) \subseteq ToSet(r)
      BY <2>1, <2>2 DEF ToSet
    <2>. QED  BY <2>4, <2>5, <2>6 DEF r
  <1>2. ASSUME q # <<>>
        PROVE  ToSet(q) = {Head(q)} \cup ToSet(Tail(q))
    <2>1. DOMAIN q = 1..Len(q) /\ DOMAIN Tail(q) = 1..(Len(q) - 1) /\ Len(q) >= 1
          /\ Len(q) \in Nat
      BY <1>2
    <2>2. \A i \in 1..(Len(q) - 1) : Tail(q)[i] = q[i + 1]
      BY <1>2
    <2>3. ASSUME NEW i \in 1..Len(q)
          PROVE  q[i] \in {Head(q)} \cup ToSet(Tail(q))
      <3>1. CASE i = 1
        BY <3>1, <1>2
      <3>2. CASE i # 1
        <4>1. i - 1 \in 1..(Len(q) - 1) /\ Tail(q)[i - 1] = q[i]
          BY <2>1, <2>2, <3>2
        <4>. QED  BY <2>1, <4>1 DEF ToSet
      <3>. QED  BY <3>1, <3>2
    <2>4. ASSUME NEW i \in 1..(Len(q) - 1)
          PROVE  Tail(q)[i] \in ToSet(q)
      <3>1. i + 1 \in DOMAIN q /\ Tail(q)[i] = q[i + 1]
        BY <2>1, <2>2
      <3>. QED  BY <3>1 DEF ToSet
    <2>5. Head(q) \in ToSet(q)
      BY <1>2, <2>1 DEF ToSet
    <2>6. ToSet(q) \subseteq {Head(q)} \cup ToSet(Tail(q))
      BY <2>1, <2>3 DEF ToSet
    <2>7. ToSet(Tail(q)) \subseteq ToSet(q)
      BY <2>1, <2>4 DEF ToSet
    <2>. QED  BY <2>5, <2>6, <2>7
  <1>3. q = <<>> => ToSet(q) = {}
    BY DEF ToSet
  <1>. QED  BY <1>1, <1>2, <1>3

\* The same for the queue of a device.
LEMMA QueuedSets ==
  ASSUME NEW d \in Device, NEW d2 \in Device
  PROVE  /\ d2.queue = d.queue => Queued(d2) = Queued(d)
         /\ \A b \in Blocks : d2.queue = Append(d.queue, b) => Queued(d2) = Queued(d) \cup {b}
         /\ d.queue # <<>> /\ d2.queue = Tail(d.queue) =>
              Queued(d) = {Head(d.queue)} \cup Queued(d2)
         /\ d.queue = <<>> => Queued(d) = {}
  <1>1. d.queue \in Seq(Blocks)
    BY DEF Device
  <1>2. Queued(d) = ToSet(d.queue) /\ Queued(d2) = ToSet(d2.queue)
    BY NoDevIsNone DEF Queued
  <1>. QED  BY <1>1, <1>2, QueueSets

\* ChangesInv is inductive, relative to the invariants of control and of the
\* manager.
LEMMA NextChanges ==
  ASSUME TypeOK, ControlInv, ManagerInv, ChangesInv, [Next]_vars
  PROVE  ChangesInv'
  <1>. USE NoDevIsNone DEF dev, cur
  <1>0. /\ sd.dev # NoDev => sd.dev \in Device
        /\ sd.old # NoDev => sd.old \in Device
        /\ ep.cur \in Epoch /\ ep.prev \in Epoch
    BY DevType, EpType
  <1>27. ep.cur.file = "clean" /\ sd.dev # NoDev => sd.dev.thread = "none"
    BY DEF ManagerInv
  <1>28. ep.cur.cm \in {"open", "closed"} => Alive(ep.cur)
    BY DEF ManagerInv, Alive
  <1>1. ASSUME NEW b \in Blocks, NEW page \in Pages, TraceInc(b, page)
        PROVE  ChangesInv'
    <2>1. /\ pc' = pc /\ inflight' = inflight \cup {b} /\ sd.dev # NoDev
          /\ sd.dev.state # "unverified"
      BY <1>1 DEF TraceInc, NeedsTrace, Traced, Arrives
    <2>2. /\ Queued(sd'.dev) = Queued(sd.dev) \cup {b}
          /\ Clones(sd'.dev) = Clones(sd.dev)
      <3>1. /\ sd.dev \in Device /\ sd'.dev \in Device
            /\ sd'.dev.queue = Append(sd.dev.queue, b)
            /\ sd'.dev.clones = sd.dev.clones
        BY <1>1, TraceIncEffect DEF SameFlags
      <3>. QED  BY <3>1, QueuedSets DEF Clones
    <2>3. /\ sd'.dev # NoDev /\ sd'.dev.state = sd.dev.state
          /\ sd'.dev.thread = sd.dev.thread /\ sd'.old = sd.old /\ Queues(b)
      BY <1>1, TraceIncEffect DEF SameFlags
    <2>. QED
      BY <1>27, <2>1, <2>2, <2>3 DEF ChangesInv, Recorded, Queues, SameFile
  <1>24. ASSUME NEW b \in Blocks, NEW page \in Pages, TraceSnap(b, page)
         PROVE  ChangesInv'
    <2>1. pc' = pc /\ inflight' = inflight \cup {b} /\ ep' = ep /\ sd'.old = sd.old
      BY <1>24, TraceSnapEffect DEF TraceSnap, Arrives
    <2>2. /\ Queued(sd'.dev) = Queued(sd.dev)
          /\ Clones(sd'.dev) = Clones(sd.dev) \cup {b}
      <3>1. /\ sd.dev \in Device /\ sd'.dev \in Device
            /\ sd'.dev.queue = sd.dev.queue
            /\ sd'.dev.clones = sd.dev.clones \cup {b}
        BY <1>24, TraceSnapEffect
      <3>. QED  BY <3>1, QueuedSets DEF Clones
    <2>3. /\ sd.dev # NoDev /\ sd'.dev # NoDev /\ sd.dev.state # "unverified"
          /\ sd'.dev.state = sd.dev.state /\ sd'.dev.thread = sd.dev.thread
      BY <1>24, TraceSnapEffect
    <2>. QED  BY <2>1, <2>2, <2>3 DEF ChangesInv, Recorded
  <1>25. ASSUME NEW b \in Blocks, CloneCompletes(b)
         PROVE  ChangesInv'
    <2>1. pc' = pc /\ inflight' = inflight
      BY <1>25 DEF CloneCompletes
    <2>2. /\ Queued(sd'.dev) = Queued(sd.dev) \cup {b}
          /\ Clones(sd'.dev) = Clones(sd.dev) \ {b} /\ b \in Clones(sd.dev)
      <3>1. /\ sd.dev \in Device /\ sd'.dev \in Device /\ b \in sd.dev.clones
            /\ sd'.dev.queue = Append(sd.dev.queue, b)
            /\ sd'.dev.clones = sd.dev.clones \ {b}
        BY <1>25, CloneCompletesEffect
      <3>. QED  BY <3>1, QueuedSets DEF Clones
    <2>3. /\ sd.dev # NoDev /\ sd'.dev # NoDev /\ sd'.dev.state = sd.dev.state
          /\ sd'.dev.thread = sd.dev.thread /\ sd'.old = sd.old /\ Queues(b)
      BY <1>25, CloneCompletesEffect
    <2>4. sd.dev.state # "unverified"
      BY <1>25, CloneCompletesEffect DEF ManagerInv
    <2>. QED
      BY <1>27, <2>1, <2>2, <2>3, <2>4 DEF ChangesInv, Recorded, Queues, SameFile
  <1>29. ASSUME NEW b \in Blocks, ep'.cur = Failing(ep.cur, b), ep'.prev = ep.prev,
                sd'.old = sd.old, sd.dev # NoDev, sd'.dev # NoDev, pc' = pc,
                sd'.dev.state = sd.dev.state, sd'.dev.thread = sd.dev.thread,
                Queued(sd'.dev) = Queued(sd.dev),
                inflight' \subseteq inflight \cup {b},
                Clones(sd.dev) \subseteq Clones(sd'.dev) \cup {b}
         PROVE  ChangesInv'
    <2>1. /\ ep'.cur.cm = ep.cur.cm /\ ep'.cur.file = ep.cur.file
          /\ ep'.cur.changed = ep.cur.changed /\ ep'.cur.lost = ep.cur.lost
          /\ ep'.cur.marks = ep.cur.marks /\ ep'.cur.late = ep.cur.late
          /\ ep'.cur.failed =
               IF Alive(ep.cur) THEN ep.cur.failed \cup ({b} \ ep.cur.marks)
               ELSE ep.cur.failed
      BY <1>0, <1>29, FailingEffect DEF SameFile
    <2>2. CASE Alive(ep.cur)
      <3>1. ep'.cur.failed = ep.cur.failed \cup ({b} \ ep.cur.marks)
        BY <2>1, <2>2
      <3>. QED  BY <1>29, <2>1, <3>1 DEF ChangesInv, Recorded
    <2>3. CASE ~Alive(ep.cur)
      <3>1. ep.cur.file # "clean" /\ ep.cur.cm \notin {"open", "closed"}
        BY <1>28, <2>3 DEF Alive
      <3>. QED  BY <1>29, <2>1, <3>1 DEF ChangesInv
    <2>. QED  BY <2>2, <2>3
  <1>26. ASSUME NEW b \in Blocks, CloneFails(b)
         PROVE  ChangesInv'
    <2>1. pc' = pc /\ inflight' = inflight
      BY <1>26 DEF CloneFails
    <2>2. /\ Queued(sd'.dev) = Queued(sd.dev)
          /\ Clones(sd.dev) \subseteq Clones(sd'.dev) \cup {b}
      <3>1. /\ sd.dev \in Device /\ sd'.dev \in Device
            /\ sd'.dev.queue = sd.dev.queue /\ sd'.dev.clones = sd.dev.clones \ {b}
        BY <1>26, CloneFailsEffect
      <3>. QED  BY <3>1, QueuedSets DEF Clones
    <2>. QED  BY <1>26, <1>29, <2>1, <2>2, CloneFailsEffect
  <1>2. ASSUME NEW b \in Blocks, NEW page \in Pages, TraceWriteFails(b, page)
        PROVE  ChangesInv'
    <2>1. pc' = pc /\ inflight' = inflight \cup {b}
      BY <1>2 DEF TraceWriteFails, Arrives
    <2>2. /\ Queued(sd'.dev) = Queued(sd.dev)
          /\ Clones(sd.dev) \subseteq Clones(sd'.dev) \cup {b}
      <3>1. /\ sd.dev \in Device /\ sd'.dev \in Device
            /\ sd'.dev.queue = sd.dev.queue /\ sd'.dev.clones = sd.dev.clones
        BY <1>2, TraceWriteFailsEffect
      <3>. QED  BY <3>1, QueuedSets DEF Clones
    <2>. QED  BY <1>2, <1>29, <2>1, <2>2, TraceWriteFailsEffect
  <1>3. ASSUME NEW b \in Blocks, NEW page \in Pages, PassWrite(b, page)
        PROVE  ChangesInv'
    <2>1. pc' = pc /\ sd' = sd /\ inflight' = inflight \cup {b}
      BY <1>3 DEF PassWrite, Arrives
    <2>4. ep'.cur = Losing(ep.cur, b) /\ ep'.prev = ep.prev
      BY <1>3, PassWriteEffect
    <2>5. /\ ep'.cur.cm = ep.cur.cm /\ ep'.cur.file = ep.cur.file
          /\ ep'.cur.changed = ep.cur.changed /\ ep'.cur.failed = ep.cur.failed
          /\ ep'.cur.marks = ep.cur.marks /\ ep'.cur.late = ep.cur.late
          /\ ep'.cur.lost = IF Alive(ep.cur) THEN ep.cur.lost \cup ({b} \ ep.cur.marks)
                           ELSE ep.cur.lost
      BY <1>0, <2>4, LosingEffect DEF SameFile
    <2>6. CASE Alive(ep.cur)
      <3>1. ep'.cur.lost = ep.cur.lost \cup ({b} \ ep.cur.marks)
        BY <2>5, <2>6
      <3>. QED  BY <2>1, <2>4, <2>5, <3>1 DEF ChangesInv, Recorded
    <2>7. CASE ~Alive(ep.cur)
      <3>1. ep.cur.file # "clean" /\ ep.cur.cm \notin {"open", "closed"}
        BY <1>28, <2>7 DEF Alive
      <3>. QED  BY <2>1, <2>4, <2>5, <3>1 DEF ChangesInv
    <2>. QED  BY <2>6, <2>7
  <1>4. ASSUME NEW b \in Blocks, WriteLands(b)
        PROVE  ChangesInv'
    <2>1. /\ pc' = pc /\ sd' = sd /\ inflight' = inflight \ {b}
          /\ b \in inflight /\ b \notin Clones(sd.dev)
      BY <1>4 DEF WriteLands
    <2>2. /\ ep'.prev = ep.prev
          /\ ep'.cur.cm = ep.cur.cm /\ ep'.cur.file = ep.cur.file
          /\ ep'.cur.marks = ep.cur.marks /\ ep'.cur.late = ep.cur.late
          /\ ep'.cur.lost = ep.cur.lost /\ ep'.cur.failed = ep.cur.failed
          /\ ep'.cur.changed \subseteq ep.cur.changed \cup {b}
      BY <1>4, WriteLandsEffect DEF SameFile
    <2>3. Recorded' = Recorded /\ Clones(sd'.dev) = Clones(sd.dev)
      BY <2>1, <2>2 DEF Recorded
    <2>4. CASE ep.cur.cm \in {"open", "closed"}
      <3>1. b \in Recorded \cup ep.cur.lost \cup ep.cur.failed
        BY <2>1, <2>4 DEF ChangesInv
      <3>. QED  BY <2>1, <2>2, <2>3, <2>4, <3>1 DEF ChangesInv
    <2>5. CASE ep.cur.cm \notin {"open", "closed"}
      BY <2>1, <2>2, <2>3, <2>5 DEF ChangesInv
    <2>. QED  BY <2>4, <2>5
  <1>5. ASSUME NEW d \in {"dev", "old"}, Thread(d)
        PROVE  ChangesInv'
    <2>0. /\ pc' = pc /\ inflight' = inflight /\ sd[d] # NoDev /\ sd.dev # NoDev
          /\ d = "dev" => /\ sd.old = NoDev /\ sd.dev.state = "active"
                          /\ pc \notin {"to inc", "to snap"}
          /\ d = "old" => /\ sd.dev.thread = "created" /\ pc \in {"to inc", "to snap"}
                          /\ sd.dev.state = "active"
      <3>1. /\ pc' = pc /\ inflight' = inflight /\ sd[d] # NoDev
            /\ sd[d].thread \notin {"none", "created"}
        BY <1>5 DEF Thread, ThreadNotices, ThreadRecords, ThreadFails, ThreadDrops,
                    ThreadLeaves, ThreadCompares, Awake
      <3>. QED  BY <3>1 DEF ControlInv, ManagerInv
    <2>8. ep.cur.file # "clean" /\ sd.dev \in Device
      BY <1>0, <2>0 DEF ManagerInv
    <2>9. EpochOf(d) = IF d = "old" /\ pc = "to snap" THEN "prev" ELSE "cur"
      BY DEF EpochOf
    <2>1. CASE ThreadNotices(d)
      <3>1. /\ ep'[EpochOf(d)].cm = "freed"
            /\ ep'[EpochOf(d)].file \in {"none", ep[EpochOf(d)].file}
            /\ Only(d, EpochOf(d)) /\ sd[d] \in Device /\ sd'[d] \in Device
            /\ sd'[d].state = sd[d].state /\ sd'[d].thread = sd[d].thread
            /\ sd'[d].queue = sd[d].queue /\ sd'[d].clones = sd[d].clones
        BY <2>1, ThreadNoticesEffect
      <3>2. Queued(sd'[d]) = Queued(sd[d]) /\ Clones(sd'[d]) = Clones(sd[d])
        BY <3>1, QueuedSets DEF Clones
      <3>3. CASE d = "dev" \/ pc = "to inc"
        <4>1. ep'.cur.cm = "freed" /\ ep'.cur.file # "clean" /\ ep'.prev = ep.prev
          BY <2>0, <2>8, <2>9, <3>1, <3>3 DEF Only
        <4>2. sd'.dev # NoDev /\ sd'.dev.state = "active"
          BY <2>0, <3>1, <3>3 DEF Only
        <4>3. pc # "to snap"
          BY <2>0, <3>3
        <4>. QED  BY <2>0, <4>1, <4>2, <4>3 DEF ChangesInv
      <3>4. CASE d = "old" /\ pc = "to snap"
        <4>1. ep'.prev.cm = "freed" /\ ep'.cur = ep.cur /\ sd'.dev = sd.dev
          BY <2>9, <3>1, <3>4 DEF Only
        <4>. QED  BY <2>0, <3>4, <4>1 DEF ChangesInv, Recorded
      <3>. QED  BY <2>0, <3>3, <3>4
    <2>2. CASE ThreadRecords(d)
      <3>. DEFINE h == Head(sd[d].queue)
                  k == EpochOf(d)
      <3>0. /\ ep[k] \in Epoch /\ h \in Blocks /\ ep'[k] = Recording(ep[k], h)
            /\ Only(d, k) /\ sd'[d] # NoDev /\ sd'[d].state = sd[d].state
            /\ sd'[d].thread = sd[d].thread /\ sd[d].thread \notin {"none", "leaving"}
        BY <1>0, <2>2, ThreadRecordsEffect DEF EpochOf, SameFlags, ThreadRecords, Awake
      <3>1. Queued(sd[d]) = {h} \cup Queued(sd'[d]) /\ Clones(sd'[d]) = Clones(sd[d])
        BY <2>2, ThreadRecordsEffect, QueuedSets DEF SameFlags, Clones
      <3>. HIDE DEF h
      <3>2. /\ ep'[k].cm = ep[k].cm /\ ep'[k].file = ep[k].file
            /\ ep'[k].changed = ep[k].changed
            /\ ep'[k].marks = ep[k].marks \cup {h} /\ ep'[k].late = ep[k].late \ {h}
            /\ ep'[k].lost = ep[k].lost \ {h} /\ ep'[k].failed = ep[k].failed \ {h}
        BY <3>0, RecordingEffect DEF SameFile
      <3>3. CASE d = "dev"
        <4>1. k = "cur"
          BY <2>9, <3>3
        <4>2. /\ sd'.old = sd.old /\ ep'.prev = ep.prev /\ sd'.dev # NoDev
              /\ sd'.dev.state = "active" /\ sd'.dev.thread \notin {"none", "leaving"}
          BY <2>0, <3>0, <3>3, <4>1 DEF Only
        <4>3. /\ ep'.cur.cm = ep.cur.cm /\ ep'.cur.file = ep.cur.file
              /\ ep'.cur.changed = ep.cur.changed
              /\ ep'.cur.marks = ep.cur.marks \cup {h}
              /\ ep'.cur.late = ep.cur.late \ {h}
              /\ ep'.cur.lost = ep.cur.lost \ {h}
              /\ ep'.cur.failed = ep.cur.failed \ {h}
              /\ Queued(sd.dev) = {h} \cup Queued(sd'.dev)
              /\ Clones(sd'.dev) = Clones(sd.dev)
          BY <3>1, <3>2, <3>3, <4>1
        <4>. QED  BY <2>0, <2>8, <3>3, <4>2, <4>3 DEF ChangesInv, Recorded
      <3>4. CASE d = "old" /\ pc = "to inc"
        <4>1. k = "cur"
          BY <2>9, <3>4
        <4>2. sd'.dev = sd.dev /\ ep'.prev = ep.prev
          BY <3>0, <3>4, <4>1 DEF Only
        <4>3. /\ ep'.cur.cm = ep.cur.cm /\ ep'.cur.file = ep.cur.file
              /\ ep'.cur.changed = ep.cur.changed
              /\ ep'.cur.marks = ep.cur.marks \cup {h}
              /\ ep'.cur.late = ep.cur.late \ {h}
              /\ ep'.cur.lost = ep.cur.lost \ {h}
              /\ ep'.cur.failed = ep.cur.failed \ {h}
              /\ Queued(sd.old) = {h} \cup Queued(sd'.old)
          BY <3>1, <3>2, <3>4, <4>1
        <4>. QED  BY <2>0, <2>8, <3>4, <4>2, <4>3 DEF ChangesInv, Recorded
      <3>5. CASE d = "old" /\ pc = "to snap"
        <4>1. k = "prev"
          BY <2>9, <3>5
        <4>2. sd'.dev = sd.dev /\ ep'.cur = ep.cur
          BY <3>0, <3>5, <4>1 DEF Only
        <4>3. /\ ep'.prev.cm = ep.prev.cm /\ ep'.prev.changed = ep.prev.changed
              /\ ep'.prev.marks = ep.prev.marks \cup {h}
              /\ ep'.prev.lost = ep.prev.lost \ {h}
              /\ ep'.prev.failed = ep.prev.failed \ {h}
              /\ Queued(sd.old) = {h} \cup Queued(sd'.old)
          BY <3>1, <3>2, <3>5, <4>1
        <4>. QED  BY <2>0, <3>5, <4>2, <4>3 DEF ChangesInv, Recorded
      <3>. QED  BY <2>0, <3>3, <3>4, <3>5
    <2>3. CASE ThreadFails(d)
      <3>. DEFINE h == Head(sd[d].queue)
                  k == EpochOf(d)
      <3>0. /\ Only(d, k) /\ sd'[d] # NoDev /\ sd'[d].state = sd[d].state
            /\ sd'[d].thread = sd[d].thread /\ sd[d].thread \notin {"none", "leaving"}
        BY <2>3, ThreadFailsEffect DEF ThreadFails, Awake
      <3>1. Queued(sd[d]) = {h} \cup Queued(sd'[d]) /\ Clones(sd'[d]) = Clones(sd[d])
        BY <2>3, ThreadFailsEffect, QueuedSets DEF Clones
      <3>2. /\ ep'[k].cm = ep[k].cm /\ ep'[k].file = ep[k].file
            /\ ep'[k].changed = ep[k].changed /\ ep'[k].late = ep[k].late
            /\ ep'[k].lost = ep[k].lost /\ ep[k].marks \subseteq ep'[k].marks
            /\ ep[k].failed \subseteq ep'[k].failed
            /\ Alive(ep[k]) => h \in ep'[k].marks \cup ep'[k].failed
        BY <2>3, ThreadFailsEffect DEF SameFile
      <3>. HIDE DEF h
      <3>3. CASE d = "dev"
        <4>1. k = "cur"
          BY <2>9, <3>3
        <4>2. /\ sd'.old = sd.old /\ ep'.prev = ep.prev /\ sd'.dev # NoDev
              /\ sd'.dev.state = "active" /\ sd'.dev.thread \notin {"none", "leaving"}
          BY <2>0, <3>0, <3>3, <4>1 DEF Only
        <4>3. /\ ep'.cur.cm = ep.cur.cm /\ ep'.cur.file = ep.cur.file
              /\ ep'.cur.changed = ep.cur.changed /\ ep'.cur.late = ep.cur.late
              /\ ep'.cur.lost = ep.cur.lost /\ ep.cur.marks \subseteq ep'.cur.marks
              /\ ep.cur.failed \subseteq ep'.cur.failed
              /\ Alive(ep.cur) => h \in ep'.cur.marks \cup ep'.cur.failed
              /\ Queued(sd.dev) = {h} \cup Queued(sd'.dev)
              /\ Clones(sd'.dev) = Clones(sd.dev)
          BY <3>1, <3>2, <3>3, <4>1
        <4>. QED  BY <1>28, <2>0, <2>8, <3>3, <4>2, <4>3 DEF ChangesInv, Recorded
      <3>4. CASE d = "old" /\ pc = "to inc"
        <4>1. k = "cur"
          BY <2>9, <3>4
        <4>2. sd'.dev = sd.dev /\ ep'.prev = ep.prev
          BY <3>0, <3>4, <4>1 DEF Only
        <4>3. /\ ep'.cur.cm = ep.cur.cm /\ ep'.cur.file = ep.cur.file
              /\ ep'.cur.changed = ep.cur.changed /\ ep'.cur.late = ep.cur.late
              /\ ep'.cur.lost = ep.cur.lost /\ ep.cur.marks \subseteq ep'.cur.marks
              /\ ep.cur.failed \subseteq ep'.cur.failed
              /\ Alive(ep.cur) => h \in ep'.cur.marks \cup ep'.cur.failed
              /\ Queued(sd.old) = {h} \cup Queued(sd'.old)
          BY <3>1, <3>2, <3>4, <4>1
        <4>. QED  BY <1>28, <2>0, <2>8, <3>4, <4>2, <4>3 DEF ChangesInv, Recorded
      <3>5. CASE d = "old" /\ pc = "to snap"
        <4>1. k = "prev"
          BY <2>9, <3>5
        <4>2. sd'.dev = sd.dev /\ ep'.cur = ep.cur
          BY <3>0, <3>5, <4>1 DEF Only
        <4>3. /\ ep'.prev.cm = ep.prev.cm /\ ep'.prev.changed = ep.prev.changed
              /\ ep'.prev.lost = ep.prev.lost /\ ep.prev.marks \subseteq ep'.prev.marks
              /\ ep.prev.failed \subseteq ep'.prev.failed
              /\ ep.prev.cm = "open" => h \in ep'.prev.marks \cup ep'.prev.failed
              /\ Queued(sd.old) = {h} \cup Queued(sd'.old)
          BY <3>1, <3>2, <3>5, <4>1 DEF Alive
        <4>. QED  BY <2>0, <3>5, <4>2, <4>3 DEF ChangesInv, Recorded
      <3>. QED  BY <2>0, <3>3, <3>4, <3>5
    <2>4. CASE ThreadDrops(d)
      <3>1. /\ ep' = ep /\ sd[d].seen /\ Only(d, EpochOf(d))
            /\ sd'[d] # NoDev /\ sd'[d].state = sd[d].state
        BY <2>4, ThreadDropsEffect DEF ThreadDrops, SameFlags
      <3>2. CASE d = "dev" \/ pc = "to inc"
        <4>1. ep.cur.cm = "freed"
          BY <2>0, <2>9, <3>1, <3>2 DEF ManagerInv, EpochOf
        <4>2. sd'.dev # NoDev /\ sd'.dev.state = "active" /\ pc # "to snap"
          BY <2>0, <3>1, <3>2 DEF Only
        <4>. QED  BY <2>0, <2>8, <3>1, <4>1, <4>2 DEF ChangesInv
      <3>3. CASE d = "old" /\ pc = "to snap"
        <4>1. ep.prev.cm = "freed" /\ sd'.dev = sd.dev
          BY <2>0, <2>9, <3>1, <3>3 DEF ManagerInv, EpochOf, Only
        <4>. QED  BY <2>0, <3>1, <3>3, <4>1 DEF ChangesInv, Recorded
      <3>. QED  BY <2>0, <3>2, <3>3
    <2>5. ASSUME NEW th, Turns(d, th),
                 d = "dev" => \/ sd.dev.queue = <<>> \/ sd.dev.thread = "leaving"
                              \/ th = "stopping"
          PROVE  ChangesInv'
      <3>1. /\ Queued(sd'[d]) = Queued(sd[d]) /\ Clones(sd'[d]) = Clones(sd[d])
            /\ ep' = ep /\ Only(d, EpochOf(d)) /\ sd'[d] # NoDev
            /\ sd'[d].state = sd[d].state /\ sd'[d].thread = th
        BY <2>5, QueuedSets DEF Clones, Turns
      <3>2. CASE d = "dev"
        <4>1. /\ sd'.old = sd.old /\ sd'.dev # NoDev /\ sd'.dev.state = "active"
              /\ Queued(sd'.dev) = Queued(sd.dev) /\ Clones(sd'.dev) = Clones(sd.dev)
              /\ sd'.dev.thread = th
          BY <2>0, <3>1, <3>2 DEF Only
        <4>2. \/ Queued(sd.dev) = {} \/ sd.dev.thread = "leaving" \/ th = "stopping"
          BY <2>5, <2>8, <3>2, QueuedSets
        <4>. QED  BY <2>0, <2>8, <3>1, <3>2, <4>1, <4>2 DEF ChangesInv, Recorded
      <3>3. CASE d = "old"
        <4>1. /\ sd'.dev = sd.dev /\ Queued(sd'.old) = Queued(sd.old)
          BY <3>1, <3>3 DEF Only
        <4>. QED  BY <2>0, <3>1, <4>1 DEF ChangesInv, Recorded
      <3>. QED  BY <3>2, <3>3
    <2>6. CASE ThreadLeaves(d)
      BY <2>5, <2>6, ThreadLeavesEffect
    <2>7. CASE ThreadCompares(d)
      BY <2>5, <2>7, ThreadComparesEffect
    <2>. QED  BY <1>5, <2>1, <2>2, <2>3, <2>4, <2>6, <2>7 DEF Thread
  <1>6. CASE SetupSnap
    <2>1. /\ pc = "idle" /\ pc' = "idle" /\ inflight' = {} /\ sd'.dev # NoDev
          /\ sd'.dev.state = "active" /\ sd'.dev.thread = "running"
          /\ ep'.cur = NewEpoch /\ ep'.prev = NoEpoch
      BY <1>6, SetupSnapEffect DEF SetupSnap, Frozen
    <2>. QED  BY <2>1, EmptyEpochs DEF ChangesInv
  <1>7. ASSUME NEW mode \in {"snap", "inc"}, Reload(mode) PROVE ChangesInv'
    <2>1. /\ pc = "idle" /\ pc' = "idle" /\ inflight' = inflight /\ sd.dev = NoDev
          /\ ep' = ep
      BY <1>7 DEF Reload
    <2>2. ep.cur.cm = "none"
      BY <2>1 DEF ManagerInv
    <2>3. Clones(sd'.dev) = Clones(sd.dev)
      BY <1>7, <2>1, ReloadEffect, NewDeviceFields DEF Clones
    <2>. QED  BY <2>1, <2>2, <2>3 DEF ChangesInv
  <1>8. CASE SnapToInc
    <2>1. /\ pc = "idle" /\ pc' = "to inc" /\ inflight' = {} /\ ep' = ep
          /\ Replace("inc") /\ Active("snap")
      BY <1>8 DEF SnapToInc, Replace, Frozen
    <2>2. /\ Queued(sd'.old) = Queued(sd.dev) /\ sd.dev # NoDev
          /\ sd'.dev \in Device /\ sd'.dev.state = "active" /\ sd'.dev.thread = "created"
          /\ sd.dev.state = "active"
      <3>1. /\ sd.dev \in Device /\ sd'.dev \in Device /\ sd'.old \in Device
            /\ sd'.old.queue = sd.dev.queue /\ sd.dev.state = "active"
            /\ sd'.dev.state = "active" /\ sd'.dev.thread = "created"
        BY <2>1, ReplaceEffect, NewDeviceFields
      <3>. QED  BY <3>1, QueuedSets
    <2>3. ep.cur.file # "clean"
      BY <2>2 DEF ManagerInv
    <2>. QED  BY <2>1, <2>2, <2>3 DEF ChangesInv, Recorded
  <1>9. CASE IncToSnap
    <2>1. /\ pc = "idle" /\ pc' = "to snap" /\ inflight' = {}
          /\ ep'.cur = NewEpoch /\ ep'.prev = ep.cur
          /\ Replace("snap") /\ Active("inc")
      BY <1>9 DEF IncToSnap, Replace, Frozen
    <2>2. /\ Queued(sd'.old) = Queued(sd.dev)
          /\ sd'.dev \in Device /\ sd'.dev.state = "active" /\ sd'.dev.thread = "created"
      <3>1. /\ sd.dev \in Device /\ sd'.dev \in Device /\ sd'.old \in Device
            /\ sd'.old.queue = sd.dev.queue
            /\ sd'.dev.state = "active" /\ sd'.dev.thread = "created"
        BY <2>1, ReplaceEffect, NewDeviceFields
      <3>. QED  BY <3>1, QueuedSets
    <2>. QED  BY <2>1, <2>2, EmptyEpochs DEF ChangesInv, Recorded
  <1>10. CASE Destroy
    <2>. DEFINE e == [ep.cur EXCEPT !.late = @ \cup (sd.dev.clones \ ep.cur.marks)]
    <2>1. /\ sd'.dev = NoDev /\ sd'.old = sd.old /\ pc = "idle" /\ pc' = pc
          /\ ep'.cur = OnDisk(Freed(e, "none")) /\ ep'.prev = ep.prev
          /\ inflight' = inflight /\ sd.dev # NoDev
      BY <1>10, Shapes DEF Destroy
    <2>2. /\ e \in Epoch
          /\ e.file = ep.cur.file /\ e.changed = ep.cur.changed
          /\ e.marks = ep.cur.marks /\ e.lost = ep.cur.lost /\ e.failed = ep.cur.failed
          /\ e.late = ep.cur.late \cup (sd.dev.clones \ ep.cur.marks)
      BY <1>0, <2>1 DEF Device, Epoch
    <2>. HIDE DEF e
    <2>3. Freed(e, "none") \in Epoch
      BY <2>2, EpochOps
    <2>4. /\ e.cm = "open" => Freed(e, "none").file = "none"
          /\ e.cm # "open" => Freed(e, "none").file = e.file /\ SameSets(Freed(e, "none"), e)
      BY <2>2, FreedEffect
    <2>. DEFINE f == Freed(e, "none")
    <2>. HIDE DEF f
    <2>5. /\ OnDisk(f).cm = "none" /\ OnDisk(f).file = f.file /\ OnDisk(f).late = {}
          /\ f.file = "clean" =>
               /\ OnDisk(f).marks = f.marks /\ OnDisk(f).changed = f.changed
               /\ OnDisk(f).lost = f.lost \cup f.late /\ OnDisk(f).failed = f.failed
      <3>1. f \in Epoch
        BY <2>3 DEF f
      <3>. QED  BY <3>1, OnDiskEffect
    <2>6. /\ ep'.cur.cm = "none" /\ ep'.cur.late = {}
          /\ ep'.cur.file = "clean" =>
               /\ ep.cur.file = "clean" /\ ep'.cur.changed = ep.cur.changed
               /\ ep'.cur.marks = ep.cur.marks /\ ep'.cur.failed = ep.cur.failed
               /\ ep'.cur.lost = ep.cur.lost \cup ep.cur.late
                                   \cup (sd.dev.clones \ ep.cur.marks)
      <3>1. ep'.cur = OnDisk(f)
        BY <2>1 DEF f
      <3>2. /\ e.cm = "open" => f.file = "none"
            /\ e.cm # "open" => f.file = e.file /\ SameSets(f, e)
        BY <2>4 DEF f
      <3>. QED  BY <2>2, <2>5, <3>1, <3>2 DEF SameSets
    <2>. QED  BY <2>1, <2>6 DEF ChangesInv, Clones
  <1>11. CASE MountStarts
    BY <1>11 DEF MountStarts, ChangesInv, Recorded
  <1>12. CASE UmountStarts
    <2>1. /\ pc = "idle" /\ pc' \in {"umount", "to dormant"} /\ inflight' = inflight
      BY <1>12 DEF UmountStarts
    <2>2. CASE sd' = sd
      BY <1>12, <2>1, <2>2, UmountStartsEffect DEF ChangesInv, Recorded
    <2>3. CASE sd' # sd
      <3>1. /\ sd.dev \in Device /\ sd'.dev \in Device /\ sd.dev.state = "active"
            /\ sd'.dev.state = "active" /\ sd'.dev.thread = "stopping"
            /\ sd'.old = sd.old /\ ep' = ep
            /\ sd'.dev.queue = sd.dev.queue /\ sd'.dev.clones = sd.dev.clones
        BY <1>12, <2>3, UmountStartsEffect
      <3>2. Queued(sd'.dev) = Queued(sd.dev) /\ Clones(sd'.dev) = Clones(sd.dev)
        BY <3>1, QueuedSets DEF Clones
      <3>. QED  BY <2>1, <3>1, <3>2 DEF ChangesInv, Recorded
    <2>. QED  BY <2>2, <2>3
  <1>13. CASE WakeInc
    <2>1. /\ pc = "to inc" /\ sd.old.thread = "none" /\ ep' = ep /\ inflight' = inflight
          /\ pc' \in {"idle", "truncating"}
      BY <1>13 DEF WakeInc
    <2>2. /\ sd.old.queue = <<>> /\ sd.old # NoDev /\ sd.dev.state = "active"
          /\ sd.dev # NoDev
      BY <2>1 DEF ControlInv
    <2>3. /\ Queued(sd'.dev) = Queued(sd.dev) /\ Queued(sd.old) = {}
          /\ Clones(sd'.dev) = Clones(sd.dev)
      BY <1>13, <2>2, WakeIncEffect, QueuedSets DEF Clones
    <2>4. /\ sd'.dev # NoDev /\ sd'.dev.state = "active" /\ sd'.dev.thread = "running"
      BY <1>13, <2>2, WakeIncEffect
    <2>. QED  BY <2>1, <2>2, <2>3, <2>4 DEF ChangesInv, Recorded
  <1>14. CASE Truncate
    <2>1. pc = "truncating" /\ pc' \in {"idle", "oops"} /\ inflight' = inflight
      BY <1>14 DEF Truncate
    <2>2. /\ sd' = sd /\ ep'.prev = ep.prev
          /\ SameFile(ep'.cur, ep.cur) /\ SameSets(ep'.cur, ep.cur)
      BY <1>14, TruncateEffect
    <2>. QED  BY <2>1, <2>2 DEF ChangesInv, Recorded, SameFile, SameSets
  <1>15. CASE WakeSnap
    <2>1. /\ pc = "to snap" /\ sd.old.thread = "none" /\ inflight' = inflight
          /\ pc' \in {"idle", "oops"}
      BY <1>15 DEF WakeSnap
    <2>2. /\ sd.old.queue = <<>> /\ sd.old # NoDev /\ sd.dev.state = "active"
          /\ sd.dev # NoDev
      BY <2>1 DEF ControlInv
    <2>3. /\ Queued(sd'.dev) = Queued(sd.dev) /\ Queued(sd.old) = {}
          /\ Clones(sd'.dev) = Clones(sd.dev)
      BY <1>0, <1>15, <2>2, WakeSnapEffect, QueuedSets DEF Clones
    <2>5. /\ sd'.dev # NoDev /\ sd'.dev.state = "active" /\ sd'.dev.thread = "running"
          /\ ep'.cur = ep.cur
      BY <1>15, <2>2, WakeSnapEffect
    <2>6. ep'.prev.file = "clean" => ep'.prev.changed \subseteq ep'.prev.failed
      <3>1. CASE ep.prev.cm = "freed"
        <4>1. ep' = ep /\ ep.prev.file # "clean"
          BY <1>15, <2>1, <3>1 DEF WakeSnap, ManagerInv
        <4>. QED  BY <4>1
      <3>2. CASE ep.prev.cm # "freed"
        <4>1. ep'.prev \in {HandedOver(ep.prev), NoEpoch}
          BY <1>15, <3>2, Shapes DEF WakeSnap
        <4>2. ep.prev.cm = "open"
          BY <2>1, <2>2, <3>2 DEF ManagerInv, EpochOf
        <4>3. ep.prev.changed \subseteq ep.prev.marks \cup ep.prev.lost \cup ep.prev.failed
          BY <2>1, <2>3, <4>2 DEF ChangesInv
        <4>4. /\ HandedOver(ep.prev).changed
                   = ep.prev.changed \ (ep.prev.marks \cup ep.prev.lost)
              /\ HandedOver(ep.prev).failed
                   = ep.prev.failed \ (ep.prev.marks \cup ep.prev.lost)
          BY DEF HandedOver, NoEpoch
        <4>. QED  BY <4>1, <4>3, <4>4, EmptyEpochs
      <3>. QED  BY <3>1, <3>2
    <2>. QED  BY <2>1, <2>2, <2>3, <2>5, <2>6 DEF ChangesInv, Recorded
  <1>16. CASE MountUnnoticed
    BY <1>16 DEF MountUnnoticed, ChangesInv, Recorded
  <1>17. ASSUME sd.dev \in Device, Reactivated(sd.dev, ep.cur, sd'.dev, ep'.cur),
                sd'.old = sd.old, ep'.prev = ep.prev, inflight' = inflight,
                sd.dev.state # "unverified", pc' = "idle",
                pc \notin {"to inc", "to snap"}
         PROVE  ChangesInv'
    <2>1. /\ Queued(sd'.dev) = Queued(sd.dev) /\ sd'.dev # NoDev
          /\ Clones(sd'.dev) = Clones(sd.dev) /\ sd.dev # NoDev
      <3>1. /\ sd'.dev \in Device /\ sd'.dev.queue = sd.dev.queue
            /\ sd'.dev.clones = sd.dev.clones
        BY <1>17 DEF Reactivated
      <3>. QED  BY <1>17, <3>1, QueuedSets DEF Clones
    <2>2. /\ sd'.dev.state # "unverified"
          /\ sd'.dev.thread = "running" \/ sd'.dev.thread = sd.dev.thread
      BY <1>17 DEF Reactivated
    <2>3. /\ ep'.cur.file = "clean" => ep.cur.file = "clean"
          /\ ep'.cur.cm \in {"open", "closed"} => ep.cur.cm \in {"open", "closed"}
          /\ SameSets(ep'.cur, ep.cur)
      BY <1>17 DEF Reactivated, OpenedFrom, SameSets
    <2>. QED
      BY <1>17, <2>1, <2>2, <2>3 DEF ChangesInv, Recorded, SameSets
  <1>18. CASE MountActivates
    <2>1. /\ pc = "idle" /\ pc' = "idle" /\ inflight' = inflight
      BY <1>18 DEF MountActivates
    <2>4. sd.dev \in Device /\ sd'.old = sd.old /\ ep'.prev = ep.prev
      BY <1>18, MountActivatesEffect
    <2>2. CASE /\ sd.dev.state = "dormant"
               /\ Reactivated(sd.dev, ep.cur, sd'.dev, ep'.cur)
      BY <1>17, <2>1, <2>2, <2>4
    <2>3. CASE /\ sd.dev.state = "unverified"
               /\ Verified(sd.dev, ep.cur, sd'.dev, ep'.cur)
      <3>1. ep.cur.cm = "none" /\ ep.cur.late = {} /\ sd.dev # NoDev
        BY <2>3, <2>4 DEF ManagerInv, ChangesInv
      <3>2. CASE sd'.dev.fail
        <4>1. ep'.cur.cm = "none" /\ ep'.cur.late = {}
          BY <2>3, <3>1, <3>2, EmptyEpochs DEF Verified, SameSets
        <4>2. /\ ep'.cur.file = "clean" => ep'.cur = ep.cur
              /\ Clones(sd'.dev) = Clones(sd.dev)
          BY <2>3, <3>1, <3>2, EmptyEpochs DEF Verified, Clones
        <4>. QED  BY <2>1, <2>4, <4>1, <4>2 DEF ChangesInv
      <3>3. CASE ~sd'.dev.fail
        <4>1. /\ sd'.dev \in Device /\ sd'.dev.state = "active" /\ sd'.dev.thread = "running"
              /\ ep.cur.file = "clean" /\ inflight = {}
              /\ ep'.cur.file = "dirty" /\ SameSets(ep'.cur, ep.cur)
          BY <2>3, <3>3 DEF Verified, OpenedFrom
        <4>2. ep.cur.changed \subseteq ep.cur.marks \cup ep.cur.lost \cup ep.cur.failed
          BY <3>1, <4>1 DEF ChangesInv
        <4>. QED  BY <2>1, <2>4, <3>1, <4>1, <4>2 DEF ChangesInv, Recorded, SameSets
      <3>. QED  BY <3>2, <3>3
    <2>. QED  BY <1>18, <2>2, <2>3, MountActivatesEffect
  <1>19. CASE CloseForDormant
    <2>1. /\ pc = "to dormant" /\ sd.dev.thread = "none" /\ inflight' = inflight
          /\ pc' \in {"umount dormant", "oops"}
      BY <1>19 DEF CloseForDormant
    <2>2. /\ sd.dev.state = "active" /\ sd.dev # NoDev
          /\ ep.cur.cm \in {"open", "freed"} /\ ep.cur.file # "clean"
      BY <2>1 DEF ControlInv, ManagerInv
    <2>3. /\ sd'.dev # NoDev /\ ep'.prev = ep.prev /\ sd'.old = sd.old
          /\ sd'.dev.thread = "none"
          /\ Queued(sd'.dev) = Queued(sd.dev) /\ Clones(sd'.dev) = Clones(sd.dev)
      <3>1. /\ sd.dev \in Device /\ sd'.dev \in Device /\ sd'.dev.queue = sd.dev.queue
            /\ sd'.dev.clones = sd.dev.clones /\ sd'.dev.thread = sd.dev.thread
            /\ ep'.prev = ep.prev /\ sd'.old = sd.old
        BY <1>19, CloseForDormantEffect
      <3>. QED  BY <2>1, <3>1, QueuedSets DEF Clones
    <2>4. CASE sd' = sd /\ ep' = ep
      BY <2>1, <2>2, <2>4 DEF ChangesInv, Recorded
    <2>5. CASE /\ ep.cur.cm # "freed" /\ sd'.dev.state = "dormant"
               /\ ep'.cur.cm = "closed" /\ ep'.cur.file = "clean"
               /\ SameSets(ep'.cur, ep.cur)
      <3>1. Queued(sd.dev) \subseteq ep.cur.late \cup ep.cur.marks
        BY <2>1, <2>2, <2>5 DEF ChangesInv
      <3>. QED  BY <2>1, <2>2, <2>3, <2>5, <3>1 DEF ChangesInv, Recorded, SameSets
    <2>6. CASE /\ sd'.dev.state = sd.dev.state
               /\ ep'.cur = Freed(ep.cur, "freed")
      <3>1. /\ Freed(ep.cur, "freed").cm = "freed"
            /\ Freed(ep.cur, "freed").file \in {"none", ep.cur.file}
        BY <1>0, FreedEffect
      <3>. QED  BY <2>1, <2>2, <2>3, <2>6, <3>1 DEF ChangesInv
    <2>. QED  BY <1>19, <2>4, <2>5, <2>6, CloseForDormantEffect
  <1>20. CASE UmountSucceeds
    BY <1>20 DEF UmountSucceeds, ChangesInv, Recorded
  <1>21. CASE UmountFails
    BY <1>21 DEF UmountFails, ChangesInv, Recorded
  <1>22. CASE UmountUndone
    <2>1. /\ pc = "umount dormant" /\ pc' = "idle" /\ inflight' = inflight
          /\ sd.dev.state # "unverified"
      BY <1>22 DEF UmountUndone, ControlInv
    <2>. QED  BY <1>17, <1>22, <2>1, UmountUndoneEffect
  <1>23. CASE Crash
    <2>1. /\ pc' = "idle" /\ inflight' = {} /\ sd'.dev = NoDev
          /\ ep'.cur = OnDisk(ep.cur) /\ ep'.prev = OnDisk(ep.prev)
      BY <1>23 DEF Crash
    <2>3. pc = "to snap" => ep.prev.file # "clean"
      BY DEF ManagerInv
    <2>4. /\ ep'.cur.file = ep.cur.file /\ ep'.cur.late = {} /\ ep'.cur.cm = "none"
          /\ ep.cur.file = "clean" =>
               /\ ep'.cur.marks = ep.cur.marks /\ ep'.cur.changed = ep.cur.changed
               /\ ep'.cur.lost = ep.cur.lost \cup ep.cur.late
               /\ ep'.cur.failed = ep.cur.failed
      BY <1>0, <2>1, OnDiskEffect
    <2>5. /\ ep'.prev.file = ep.prev.file
          /\ ep.prev.file = "clean" => /\ ep'.prev.changed = ep.prev.changed
                                       /\ ep'.prev.failed = ep.prev.failed
      BY <1>0, <2>1, OnDiskEffect
    <2>. QED  BY <2>1, <2>3, <2>4, <2>5 DEF ChangesInv
  <1>30. CASE UNCHANGED vars
    BY <1>30 DEF vars, ChangesInv, Recorded
  <1>. QED
    BY <1>1, <1>2, <1>3, <1>4, <1>5, <1>6, <1>7, <1>8, <1>9, <1>10, <1>11, <1>12,
       <1>13, <1>14, <1>15, <1>16, <1>18, <1>19, <1>20, <1>21, <1>22, <1>23, <1>24,
       <1>25, <1>26, <1>30
       DEF Next, Writer, User, Kernel

-----------------------------------------------------------------------------
(* The theorems.                                                           *)

\* The initial state satisfies every part of the invariant.
LEMMA InitInvs ==
  ASSUME Init
  PROVE  TypeOK /\ ControlInv /\ ManagerInv /\ ChangesInv
  <1>. USE DEF Init, dev, cur
  <1>1. TypeOK
    BY NoEpochType DEF TypeOK, Controls
  <1>2. ControlInv
    BY DEF ControlInv
  <1>3. ~Tracking
    BY DEF Tracking, Traced
  <1>4. ManagerInv
    BY <1>3, EmptyEpochs DEF ManagerInv
  <1>5. ChangesInv
    BY <1>3, EmptyEpochs DEF ChangesInv
  <1>. QED  BY <1>1, <1>2, <1>4, <1>5

\* The whole invariant holds, with errors at any time.
LEMMA InvsHold == Spec => [](TypeOK /\ ControlInv /\ ManagerInv /\ ChangesInv)
  <1>. DEFINE Inv == TypeOK /\ ControlInv /\ ManagerInv /\ ChangesInv
  <1>1. Init => Inv
    BY InitInvs
  <1>2. Inv /\ [Next]_vars => Inv'
    BY NextType, NextControl, NextManager, NextChanges
  <1>. QED  BY <1>1, <1>2, PTL DEF Spec

\* The type invariant holds in every reachable state: the ioctls, the mount
\* hooks, the COW threads and a machine that goes down leave the device and its
\* COW files well formed.
THEOREM TypeCorrect == Spec => []TypeOK
  BY InvsHold, PTL

\* No two COW threads use the same COW manager: tracer_active_snap_to_inc()
\* wakes the incremental's thread only after the snapshot's is gone.
THEOREM OneThread == Spec => []OneThreadPerManager
  <1>1. TypeOK /\ ControlInv => OneThreadPerManager
    BY DEF ControlInv, OneThreadPerManager, Awake, dev
  <1>. QED  BY <1>1, InvsHold, PTL

\* As long as the device has not failed every change since the snapshot is
\* recorded or queued, or it went past the tracer: both mode transitions,
\* umounts, remounts and restarts lose nothing.
THEOREM AllChangesTracked == Spec => []ChangesTracked
  <1>1. ManagerInv /\ ChangesInv => ChangesTracked
    BY DEF ManagerInv, ChangesInv, ChangesTracked
  <1>. QED  BY <1>1, InvsHold, PTL

\* A COW file that cow_reload() will accept has every change up to the umount,
\* but what joined the queue after the last look of snap_cow_thread() or
\* inc_sset_thread() at it, and what an error kept from it.
THEOREM CleanFilesComplete == Spec => []CleanFileComplete
  <1>1. ChangesInv => CleanFileComplete
    BY DEF ChangesInv, CleanFileComplete
  <1>. QED  BY <1>1, InvsHold, PTL

\* The COW file the incremental hands over has every change between its
\* snapshot and the one that follows, but those it failed to record:
\* tracer_active_inc_to_snap() lets no write fall between the two.
THEOREM HandedOverFilesComplete == Spec => []HandedOverComplete
  <1>1. ManagerInv /\ ChangesInv => HandedOverComplete
    BY DEF ChangesInv, ManagerInv, HandedOverComplete
  <1>. QED  BY <1>1, InvsHold, PTL
=============================================================================
