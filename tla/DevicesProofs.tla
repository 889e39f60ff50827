--------------------------- MODULE DevicesProofs ----------------------------
(***************************************************************************)
(* Proofs about Devices, for any number of minors, block devices, tasks    *)
(* and objects, and with every operation.                                  *)
(***************************************************************************)
EXTENDS Devices, FiniteSetTheorems, WellFoundedInduction, TLAPS

-----------------------------------------------------------------------------
(* The inductive invariant.                                                *)

\* Where a task works on the array, has the lock, or has the mutex.
Workers == {"body", "disk", "include", "publish", "undo", "untrace", "recalc",
            "base", "free", "out"}
LockPCs == Workers \cup {"next", "premutex", "mountmutex", "postmutex", "procread"}
MutexPCs == {"ioctl", "procopen", "procwait", "procread", "leaked"}

\* The lock and the mutex have the owner the tasks say they have.  A task that
\* died on an empty entry keeps the lock; the end of the module needs no mutex.
HasMutex(r) == r.pc \in MutexPCs \/ (r.pc \in Workers /\ r.op # "exit")

Holds(a, r, lk, mx) ==
  /\ r.pc \in LockPCs => lk = a
  /\ lk = a => r.pc \in LockPCs \cup {"dead"}
  /\ HasMutex(r) => mx = a
  /\ mx = a => HasMutex(r)

HoldInv == \A a \in Actors : Holds(a, actor[a], lock, mutex)

\* What a task does at which place, and in whose name.
OpOK(r) ==
  /\ r.pc \in {"ioctl", "body"} =>
       /\ r.op \in IoctlOps /\ r.minor \in Minors /\ r.new = None /\ r.old = None
       /\ r.op \in {"setup", "reload_snap", "reload_inc"} =>
            r.bdev \in Bdevs /\ r.place \in Places
       /\ r.op = "to_snap" => r.place \in Places
  /\ r.pc \in {"disk", "include", "publish", "undo"} =>
       /\ r.op \in (IoctlOps \ {"destroy", "query"}) \cup {"mount", "umount"}
       /\ r.minor \in Minors /\ r.new \in Objs
       /\ r.op \in {"to_inc", "to_snap"} <=> r.old # None
  /\ r.pc \in {"untrace", "recalc"} =>
       /\ r.op \in {"destroy", "mount", "umount", "exit"}
       /\ r.minor \in Minors /\ r.old \in Objs /\ r.new = None
  /\ r.pc = "base" =>
       r.op \in {"mount", "umount"} /\ r.minor \in Minors /\ r.old \in Objs
  /\ r.pc = "free" =>
       /\ r.op \in {"destroy", "to_inc", "to_snap", "exit"}
       /\ r.minor \in Minors /\ r.old \in Objs
       /\ r.op \in {"to_inc", "to_snap"} <=> r.new # None
  /\ r.pc \in {"premutex", "mountmutex", "postmutex", "pre", "call", "post"} =>
       r.op \in {"mount", "umount"} /\ r.minor \in Minors /\ r.new = None
  /\ r.pc = "mounted" => r.op = "mount" /\ r.new = None
  /\ r.pc \in {"next", "gone"} => r.op = "exit" /\ r.new = None
  /\ r.op = "exit" => r.pc \in {"next", "untrace", "recalc", "free", "gone"}

Absent(o) == \A m \in Minors : array[m] # o

\* The objects a task has in its hands: the new one is not in the array yet,
\* the one it replaces still is; a device that is destroyed is in the array
\* until the task has untraced it, and afterwards only if it was not frozen.
HandsOK(r) ==
  /\ r.pc \in {"disk", "include", "publish", "undo"} =>
       /\ obj[r.new].st = "live" /\ Absent(r.new)
       /\ array[r.minor] = r.old
       /\ obj[r.new].active \/ (obj[r.new].unver /\ r.pc # "disk")
  /\ r.pc \in {"untrace", "recalc", "base", "free"} =>
       /\ obj[r.old].st = "live"
       /\ \A m \in Minors : m # r.minor => array[m] # r.old
  /\ r.pc = "untrace" => array[r.minor] = r.old
  /\ (r.pc = "recalc" \/ (r.pc = "free" /\ r.new = None)) /\ array[r.minor] # None =>
       array[r.minor] = r.old /\ r.minor \in unfrozen
  /\ r.pc = "free" /\ r.new # None => r.new # r.old /\ array[r.minor] = r.new
  /\ r.pc \in {"untrace", "recalc", "base"} /\ r.op \in {"mount", "umount"} =>
       obj[r.old].unver
  /\ r.pc \in {"recalc", "base"} /\ r.op \in {"mount", "umount"} =>
       array[r.minor] = None
  /\ r.pc \in {"premutex", "mountmutex", "postmutex"} => array[r.minor] # None

\* Nobody has opened the disk of an object in such hands before they had it.
EarlyOK(r) ==
  r.pc \in {"disk", "include", "publish", "undo", "untrace", "recalc", "base", "free"}
  /\ r.op # "exit" =>
    /\ r.new # None => obj[r.new].early = 0
    /\ r.old # None => obj[r.old].early = 0

\* The block device of a verified object that will be put into the array is
\* not traced under another minor; the object has its thread.
TracerOK(r) ==
  /\ r.pc \in {"disk", "include", "publish"} /\ ~obj[r.new].unver =>
       \A m \in Minors :
         (m # r.minor /\ array[m] # None /\ ~obj[array[m]].unver) =>
           obj[array[m]].bdev # obj[r.new].bdev
  /\ r.pc = "publish" /\ ~obj[r.new].fail =>
       IF obj[r.new].active THEN obj[r.new].threads > 0 ELSE obj[r.new].threads # 1

\* The entries the end of the module has passed are empty, or not frozen.
ExitOK(r) ==
  r.op = "exit" =>
    /\ \A m \in Minors : (m < r.minor \/ r.pc = "gone") /\ array[m] # None => m \in unfrozen
    /\ r.pc = "next" /\ r.minor \in Minors /\ r.old # None /\ array[r.minor] = r.old =>
         r.minor \in unfrozen

Used(arr) == {m \in Minors : arr[m] # None}

\* What a reader of /proc has seen so far.
ProcOK(r) ==
  r.pc \in {"procopen", "procwait", "procread"} =>
    /\ r.pos <= range.highest + 2
    /\ r.shown = {m \in Minors : m + 1 < r.pos /\ array[m] # None}
    /\ r.footers = IF Used(array) = {}
                   THEN IF r.pos = 0 \/ MaxDevices = 1 THEN 0 ELSE 1
                   ELSE IF r.pos > range.highest + 1 THEN 1 ELSE 0

ActorOK(r) ==
  OpOK(r) /\ HandsOK(r) /\ EarlyOK(r) /\ TracerOK(r) /\ ExitOK(r) /\ ProcOK(r)

ActorsInv == \A a \in Actors : ActorOK(actor[a])

\* The end of the module is alone.
LoadInv ==
  \A a \in Actors : actor[a].op = "exit" =>
    ~loaded /\ \A b \in Actors : b # a => actor[b].pc = "idle"

\* No object is in the array twice, or before it has been allocated.
ArrayInv ==
  /\ \A m \in Minors : array[m] # None => obj[array[m]].st # "none"
  /\ \A m, n \in Minors : array[m] # None /\ array[m] = array[n] => m = n

ObjsInv ==
  \A o \in Objs :
    /\ obj[o].st = "live" => obj[o].bdev \in Bdevs
    /\ obj[o].st = "freed" => obj[o].bdev = None
    /\ obj[o].st = "freed" \/ obj[o].unver => obj[o].early = 0 /\ ~obj[o].disk
    /\ obj[o].unver => ~obj[o].active

\* The range is the one the array needs, but for a task between two steps.
Fits(rg, arr) ==
  /\ \A m \in Used(arr) : rg.lowest <= m /\ m <= rg.highest
  /\ Used(arr) # {} => rg.lowest \in Used(arr) /\ rg.highest \in Used(arr)
  /\ Used(arr) = {} => rg.lowest = MaxDevices - 1 /\ rg.highest = 0

RangeInv ==
  /\ (\A a \in Actors : actor[a].pc \notin {"publish", "recalc"}) => Fits(range, array)
  /\ \A a \in Actors :
       /\ actor[a].pc = "publish" =>
            Fits(range, [array EXCEPT ![actor[a].minor] = actor[a].new])
       /\ actor[a].pc = "recalc" =>
            Fits(range, [array EXCEPT ![actor[a].minor] = actor[a].old])

\* A walk has met what it has passed, and holds what it is at.
WalkInv ==
  /\ \A m \in walk.stay : array[m] # None
  /\ walk.st = "on" =>
       \A m \in walk.stay : (m < walk.i => m \in walk.met) /\ (m = walk.i => walk.d # None)
  /\ walk.st = "done" => walk.stay \subseteq walk.met

\* Every healthy active object has its COW file on a mount that exists, unless
\* a hook is about to take back what it made of an unverified one.
MountedInv ==
  \A o \in Objs :
    obj[o].st = "live" /\ obj[o].active /\ ~obj[o].fail =>
      \/ obj[o].place \in mnts[obj[o].bdev]
      \/ \E a \in Actors : actor[a].pc = "undo" /\ actor[a].new = o

ThreadsInv ==
  loaded =>
    \A m \in Minors : array[m] # None =>
      LET d == obj[array[m]]
      IN d.st = "live" /\ ~d.fail => IF d.active THEN d.threads > 0 ELSE d.threads # 1

StateInv ==
  /\ ArrayInv /\ ObjsInv /\ RangeInv /\ WalkInv /\ MountedInv /\ ThreadsInv
  /\ OneTracerPerBdev /\ FreedOnlyUnfrozen

Inv == TypeOK /\ HoldInv /\ ActorsInv /\ LoadInv /\ StateInv

-----------------------------------------------------------------------------
(* The range of minors.                                                    *)

LEMMA LeastExists ==
  ASSUME NEW S \in SUBSET Nat, S # {}
  PROVE  \E i \in S : \A j \in S : i <= j
<1>1. IsWellFoundedOn(OpToRel(<, Nat), Nat)
  BY NatLessThanWellFounded
<1>2. PICK i \in S : \A j \in S : ~ (<<j, i>> \in OpToRel(<, Nat))
  BY <1>1, WFMin
<1>3. \A j \in S : ~ (j < i)
  BY <1>2 DEF OpToRel
<1>. QED
  BY <1>3

LEMMA MinMaxFacts ==
  ASSUME NEW S \in SUBSET Minors, S # {}
  PROVE  /\ Min(S) \in S /\ \A j \in S : Min(S) <= j
         /\ Max(S) \in S /\ \A j \in S : j <= Max(S)
<1>0. MaxDevices \in Nat /\ S \in SUBSET Nat /\ \A j \in S : j <= MaxDevices
  BY DevicesAssumption DEF Minors
<1>1. \E i \in S : \A j \in S : i <= j
  BY <1>0, LeastExists
<1>2. \E i \in S : \A j \in S : i >= j
  <2>. DEFINE T == {n \in Nat : MaxDevices - n \in S}
  <2>1. PICK x \in S : TRUE
    OBVIOUS
  <2>2. MaxDevices - x \in Nat /\ MaxDevices - (MaxDevices - x) = x
    BY <1>0, <2>1
  <2>3. T \in SUBSET Nat /\ T # {}
    BY <2>1, <2>2
  <2>4. PICK n \in T : \A k \in T : n <= k
    BY <2>3, LeastExists
  <2>5. MaxDevices - n \in S /\ n \in Nat
    BY <2>4
  <2>6. ASSUME NEW j \in S PROVE MaxDevices - n >= j
    <3>1. MaxDevices - j \in Nat /\ MaxDevices - (MaxDevices - j) = j
      BY <1>0
    <3>2. MaxDevices - j \in T
      BY <3>1
    <3>3. n <= MaxDevices - j
      BY <2>4, <3>2
    <3>. QED
      BY <1>0, <2>5, <3>3
  <2>. QED
    BY <2>5, <2>6
<1>3. Min(S) \in S /\ \A j \in S : Min(S) <= j
  BY <1>1 DEF Min
<1>4. Max(S) \in S /\ \A j \in S : Max(S) >= j
  BY <1>2 DEF Max
<1>5. \A j \in S : j <= Max(S)
  BY <1>0, <1>4
<1>. QED
  BY <1>3, <1>4, <1>5

LEMMA RecalculatedFits ==
  ASSUME NEW arr \in [Minors -> Objs \cup {None}]
  PROVE  /\ Recalculated(arr) \in [lowest : Minors, highest : Minors]
         /\ Fits(Recalculated(arr), arr)
<1>1. MaxDevices \in Nat \ {0} /\ MaxDevices - 1 \in Minors /\ 0 \in Minors
  BY DevicesAssumption DEF Minors
<1>. DEFINE U == Used(arr)
<1>2. Recalculated(arr) = [lowest  |-> IF U = {} THEN MaxDevices - 1 ELSE Min(U),
                           highest |-> IF U = {} THEN 0 ELSE Max(U)]
  BY DEF Recalculated, Used
<1>3. U \in SUBSET Minors
  BY DEF Used
<1>4. CASE U = {}
  BY <1>1, <1>2, <1>4 DEF Fits
<1>5. CASE U # {}
  <2>1. /\ Min(U) \in U /\ \A j \in U : Min(U) <= j
        /\ Max(U) \in U /\ \A j \in U : j <= Max(U)
    BY <1>3, <1>5, MinMaxFacts
  <2>. HIDE DEF U
  <2>2. /\ Recalculated(arr) \in [lowest : Minors, highest : Minors]
        /\ Recalculated(arr).lowest = Min(U) /\ Recalculated(arr).highest = Max(U)
    BY <1>2, <1>3, <1>5, <2>1
  <2>. QED
    BY <1>5, <2>1, <2>2 DEF Fits, U
<1>. QED
  BY <1>4, <1>5

LEMMA IncludedFits ==
  ASSUME array \in [Minors -> Objs \cup {None}],
         range \in [lowest : Minors, highest : Minors], Fits(range, array),
         NEW m \in Minors, NEW o \in Objs
  PROVE  /\ Included(m) \in [lowest : Minors, highest : Minors]
         /\ Fits(Included(m), [array EXCEPT ![m] = o])
<1>. DEFINE arr == [array EXCEPT ![m] = o]
<1>1. MaxDevices \in Nat \ {0} /\ o # None /\ \A n \in Minors : n \in Nat /\ n < MaxDevices
  BY DevicesAssumption DEF Minors
<1>2. /\ m \in Used(arr)
      /\ \A n \in Minors : n # m => (n \in Used(arr) <=> n \in Used(array))
  BY <1>1 DEF Used
<1>. HIDE DEF arr
<1>3. range.lowest \in Minors /\ range.highest \in Minors
  OBVIOUS
<1>. DEFINE lo == IF m < range.lowest THEN m ELSE range.lowest
            hi == IF m > range.highest THEN m ELSE range.highest
<1>4. /\ Included(m) \in [lowest : Minors, highest : Minors]
      /\ Included(m).lowest = lo /\ Included(m).highest = hi
  BY <1>3 DEF Included
<1>5. Used(array) \in SUBSET Minors /\ Used(arr) \in SUBSET Minors
  BY DEF Used
<1>6. CASE Used(array) = {}
  <2>1. range.lowest = MaxDevices - 1 /\ range.highest = 0
    BY <1>6 DEF Fits
  <2>2. lo = m /\ hi = m
    BY <1>1, <2>1
  <2>3. Used(arr) = {m}
    BY <1>2, <1>5, <1>6
  <2>4. Included(m).lowest = m /\ Included(m).highest = m
    BY <1>4, <2>2
  <2>5. PICK r : r = Included(m)
    OBVIOUS
  <2>6. r.lowest = m /\ r.highest = m /\ m \in Nat
    BY <1>1, <2>4, <2>5
  <2>7. Fits(r, arr)
    BY <2>3, <2>6 DEF Fits
  <2>. QED
    BY <1>4, <2>5, <2>7 DEF arr
<1>7. CASE Used(array) # {}
  <2>1. /\ range.lowest \in Used(array) /\ range.highest \in Used(array)
        /\ \A n \in Used(array) : range.lowest <= n /\ n <= range.highest
    BY <1>7 DEF Fits
  <2>2. lo \in Used(arr) /\ hi \in Used(arr)
    BY <1>2, <1>3, <2>1
  <2>3. ASSUME NEW n \in Used(arr) PROVE lo <= n /\ n <= hi
    <3>1. n \in Minors
      BY <1>5
    <3>2. CASE n = m
      BY <1>1, <1>3, <3>2
    <3>3. CASE n # m
      <4>1. range.lowest <= n /\ n <= range.highest
        BY <1>2, <2>1, <3>1, <3>3
      <4>. QED
        BY <1>1, <1>3, <3>1, <4>1
    <3>. QED
      BY <3>2, <3>3
  <2>. HIDE DEF lo, hi
  <2>. QED
    BY <1>4, <2>2, <2>3 DEF Fits, arr
<1>. QED
  BY <1>6, <1>7

LEMMA RangeCovers ==
  ASSUME TypeOK, ActorsInv, RangeInv, NEW m \in Minors, array[m] # None
  PROVE  range.lowest <= m /\ m <= range.highest
<1>1. array \in [Minors -> Objs \cup {None}] /\ actor \in [Actors -> ActorType]
  BY DEF TypeOK
<1>2. CASE \A a \in Actors : actor[a].pc \notin {"publish", "recalc"}
  BY <1>2 DEF RangeInv, Fits, Used
<1>3. ASSUME NEW a \in Actors, actor[a].pc \in {"publish", "recalc"}
      PROVE  range.lowest <= m /\ m <= range.highest
  <2>. DEFINE o == IF actor[a].pc = "publish" THEN actor[a].new ELSE actor[a].old
  <2>1. o \in Objs /\ actor[a].minor \in Minors
    BY <1>3 DEF ActorsInv, ActorOK, OpOK
  <2>2. Fits(range, [array EXCEPT ![actor[a].minor] = o])
    BY <1>3 DEF RangeInv
  <2>3. o # None
    BY <2>1, DevicesAssumption
  <2>. HIDE DEF o
  <2>4. [array EXCEPT ![actor[a].minor] = o][m] # None
    BY <1>1, <2>1, <2>3
  <2>. QED
    BY <2>2, <2>4 DEF Fits, Used
<1>. QED
  BY <1>2, <1>3

-----------------------------------------------------------------------------
(* What a step of one task leaves to the others.                           *)

\* A mutex is taken by, given back by, or nothing to the task.
Moves(v, w, a) == w = v \/ (v = None /\ w = a) \/ (v = a /\ w = None)

\* The object may fail, and may be opened unless a task has it or its disk is
\* not there.
LightObj(p, q) ==
  /\ q.st = p.st /\ q.bdev = p.bdev /\ q.place = p.place /\ q.snap = p.snap
  /\ q.active = p.active /\ q.unver = p.unver /\ q.disk = p.disk
  /\ q.threads = p.threads
  /\ p.fail => q.fail

Light ==
  \A o \in Objs :
    /\ LightObj(obj[o], obj'[o])
    /\ obj[o].early = 0 /\ (~obj[o].disk \/ InHands(o)) => obj'[o].early = 0

AwayPCs == {"idle", "pre", "call", "post", "postuse", "mounted", "dead"}

LEMMA UnchangedIsLight ==
  ASSUME TypeOK, UNCHANGED obj
  PROVE  Light /\ obj' \in [Objs -> ObjType]
BY DEF Light, LightObj, TypeOK

LEMMA IdleOK == Idle \in ActorType
BY DevicesAssumption DEF Idle, ActorType, PCs, Minors

LEMMA GotoFacts ==
  ASSUME TypeOK, NEW a \in Actors, NEW l \in PCs, Goto(a, l)
  PROVE  \E x \in ActorType :
           /\ actor' = [actor EXCEPT ![a] = x]
           /\ x.pc = l /\ x.op = actor[a].op /\ x.minor = actor[a].minor
           /\ x.bdev = actor[a].bdev /\ x.place = actor[a].place
           /\ x.new = actor[a].new /\ x.old = actor[a].old
           /\ x.res = actor[a].res /\ x.pos = actor[a].pos
           /\ x.shown = actor[a].shown /\ x.footers = actor[a].footers
<1>. DEFINE x == [actor[a] EXCEPT !.pc = l]
<1>1. actor[a] \in ActorType
  BY DEF TypeOK
<1>2. actor' = [actor EXCEPT ![a] = x]
  BY DEF Goto, TypeOK
<1>3. x \in ActorType
  BY <1>1 DEF ActorType
<1>. WITNESS x \in ActorType
<1>. QED
  BY <1>1, <1>2 DEF ActorType

LEMMA HoldKeeps ==
  ASSUME TypeOK, HoldInv, NEW a \in Actors, NEW x \in ActorType,
         actor' = [actor EXCEPT ![a] = x],
         Moves(lock, lock', a), Moves(mutex, mutex', a),
         Holds(a, x, lock', mutex')
  PROVE  HoldInv'
<1>. SUFFICES ASSUME NEW b \in Actors
              PROVE  Holds(b, actor'[b], lock', mutex')
  BY DEF HoldInv
<1>1. actor \in [Actors -> ActorType]
  BY DEF TypeOK
<1>2. CASE b = a
  BY <1>1, <1>2
<1>3. CASE b # a
  <2>1. actor'[b] = actor[b] /\ b # None
    BY <1>1, <1>3, DevicesAssumption
  <2>2. (lock' = b <=> lock = b) /\ (mutex' = b <=> mutex = b)
    BY <1>3, <2>1 DEF Moves
  <2>3. Holds(b, actor[b], lock, mutex)
    BY DEF HoldInv
  <2>. QED
    BY <2>1, <2>2, <2>3 DEF Holds
<1>. QED
  BY <1>2, <1>3

LEMMA LoadKeeps ==
  ASSUME TypeOK, LoadInv, NEW a \in Actors, NEW x \in ActorType,
         actor' = [actor EXCEPT ![a] = x], UNCHANGED loaded,
         x.op = "exit" => actor[a].op = "exit",
         loaded \/ actor[a].pc # "idle"
  PROVE  LoadInv'
<1>. SUFFICES ASSUME NEW b \in Actors, actor'[b].op = "exit"
              PROVE  ~loaded /\ \A c \in Actors : c # b => actor'[c].pc = "idle"
  BY DEF LoadInv
<1>1. actor \in [Actors -> ActorType]
  BY DEF TypeOK
<1>2. CASE b = a
  BY <1>1, <1>2 DEF LoadInv
<1>3. CASE b # a
  BY <1>1, <1>3 DEF LoadInv
<1>. QED
  BY <1>2, <1>3

LEMMA RangeKeeps ==
  ASSUME TypeOK, RangeInv, NEW a \in Actors, NEW x \in ActorType,
         actor' = [actor EXCEPT ![a] = x], UNCHANGED <<array, range>>,
         actor[a].pc \notin {"publish", "recalc"}, x.pc \notin {"publish", "recalc"}
  PROVE  RangeInv'
<1>1. actor \in [Actors -> ActorType]
  BY DEF TypeOK
<1>2. actor'[a] = x /\ \A b \in Actors : b # a => actor'[b] = actor[b]
  BY <1>1
<1>3. ASSUME \A b \in Actors : actor'[b].pc \notin {"publish", "recalc"}
      PROVE  Fits(range', array')
  <2>1. \A b \in Actors : actor[b].pc \notin {"publish", "recalc"}
    BY <1>2, <1>3
  <2>. QED
    BY <2>1 DEF RangeInv
<1>4. ASSUME NEW b \in Actors, actor'[b].pc \in {"publish", "recalc"}
      PROVE  /\ actor'[b].pc = "publish" =>
                  Fits(range', [array' EXCEPT ![actor'[b].minor] = actor'[b].new])
             /\ actor'[b].pc = "recalc" =>
                  Fits(range', [array' EXCEPT ![actor'[b].minor] = actor'[b].old])
  <2>1. actor'[b] = actor[b]
    BY <1>2, <1>4
  <2>. QED
    BY <2>1 DEF RangeInv
<1>. QED
  BY <1>3, <1>4 DEF RangeInv

LEMMA ActorSame ==
  ASSUME NEW r, ActorOK(r), UNCHANGED <<array, range, obj, unfrozen>>
  PROVE  ActorOK(r)'
BY DEF ActorOK, OpOK, HandsOK, Absent, EarlyOK, TracerOK, ExitOK, ProcOK, Used

LEMMA ActorLight ==
  ASSUME TypeOK, ActorsInv, NEW b \in Actors, Light, UNCHANGED <<array, range, unfrozen>>
  PROVE  \A r : r = actor[b] => ActorOK(r)'
<1>. SUFFICES ASSUME NEW r, r = actor[b]
              PROVE  ActorOK(r)'
  OBVIOUS
<1>1. ActorOK(r) /\ r \in ActorType
  BY DEF ActorsInv, TypeOK
<1>2. /\ r.minor \in 0 .. MaxDevices
      /\ r.new \in Objs \cup {None} /\ r.old \in Objs \cup {None}
  BY <1>1 DEF ActorType
<1>3. \A m \in Minors : array[m] \in Objs \cup {None}
  BY DEF TypeOK
<1>4. \A o \in Objs : LightObj(obj[o], obj'[o])
  BY DEF Light
<1>5. OpOK(r)' /\ ExitOK(r)' /\ ProcOK(r)'
  BY <1>1 DEF ActorOK, OpOK, ExitOK, ProcOK, Used
<1>6. HandsOK(r)'
  BY <1>1, <1>2, <1>4 DEF ActorOK, OpOK, HandsOK, Absent, LightObj
<1>7. TracerOK(r)'
  <2>1. OpOK(r) /\ TracerOK(r)
    BY <1>1 DEF ActorOK
  <2>2. ASSUME r.pc \in {"disk", "include", "publish"} PROVE r.new \in Objs
    BY <2>1, <2>2 DEF OpOK
  <2>. QED
    BY <1>3, <1>4, <2>1, <2>2 DEF TracerOK, LightObj
<1>8. EarlyOK(r)'
  <2>1. ASSUME r.pc # "idle", NEW o \in {r.new, r.old}, o # None, obj[o].early = 0
        PROVE  obj'[o].early = 0
    <3>1. o \in Objs
      BY <1>2, <2>1
    <3>2. InHands(o)
      BY <2>1 DEF InHands
    <3>. QED
      BY <2>1, <3>1, <3>2 DEF Light
  <2>2. EarlyOK(r)
    BY <1>1 DEF ActorOK
  <2>. QED
    BY <2>1, <2>2 DEF EarlyOK
<1>. QED
  BY <1>5, <1>6, <1>7, <1>8 DEF ActorOK

LEMMA ActorAway ==
  ASSUME NEW r, OpOK(r), r.pc \in AwayPCs
  PROVE  ActorOK(r)'
BY DEF ActorOK, OpOK, HandsOK, EarlyOK, TracerOK, ExitOK, ProcOK, AwayPCs

LEMMA OthersAway ==
  ASSUME TypeOK, HoldInv, ActorsInv, LoadInv, NEW a \in Actors,
         actor[a].pc \in LockPCs, mutex \in {a, None},
         NEW b \in Actors, b # a
  PROVE  actor[b].pc \in AwayPCs
<1>1. lock = a /\ b # None
  BY DevicesAssumption DEF HoldInv, Holds
<1>2. Holds(b, actor[b], lock, mutex) /\ OpOK(actor[b]) /\ actor[b].pc \in PCs
  BY DEF HoldInv, ActorsInv, ActorOK, TypeOK, ActorType
<1>3. actor[b].pc \notin LockPCs \cup MutexPCs
  BY <1>1, <1>2 DEF Holds, HasMutex
<1>4. actor[b].pc # "gone"
  <2>1. actor[a].pc # "idle"
    BY DEF LockPCs, Workers
  <2>2. actor[b].op # "exit"
    BY <2>1 DEF LoadInv
  <2>. QED
    BY <1>2, <2>2 DEF OpOK
<1>. QED
  BY <1>2, <1>3, <1>4 DEF PCs, LockPCs, MutexPCs, Workers, AwayPCs

\* A step of a task that has the lock, and the mutex or nobody has it: the
\* others are where nothing of the array matters.
LEMMA AwayStep ==
  ASSUME TypeOK, HoldInv, ActorsInv, LoadInv, NEW a \in Actors, NEW x \in ActorType,
         actor[a].pc \in LockPCs, mutex \in {a, None},
         actor' = [actor EXCEPT ![a] = x], UNCHANGED loaded,
         Moves(lock, lock', a), Moves(mutex, mutex', a), Holds(a, x, lock', mutex'),
         x.op = "exit" => actor[a].op = "exit",
         ActorOK(x)'
  PROVE  HoldInv' /\ ActorsInv' /\ LoadInv'
<1>1. HoldInv'
  BY HoldKeeps
<1>2. actor[a].pc # "idle"
  BY DEF LockPCs, Workers
<1>3. LoadInv'
  BY <1>2, LoadKeeps
<1>4. ASSUME NEW b \in Actors PROVE ActorOK(actor[b])'
  <2>1. actor \in [Actors -> ActorType]
    BY DEF TypeOK
  <2>2. CASE b = a
    <3>1. actor'[b] = x
      BY <2>1, <2>2
    <3>. QED
      BY <3>1 DEF ActorOK, OpOK, HandsOK, Absent, EarlyOK, TracerOK, ExitOK, ProcOK
  <2>3. CASE b # a
    <3>1. PICK r : r = actor[b]
      OBVIOUS
    <3>2. actor'[b] = r
      BY <2>1, <2>3, <3>1
    <3>3. r.pc \in AwayPCs /\ OpOK(r)
      BY <2>3, <3>1, OthersAway DEF ActorsInv, ActorOK
    <3>4. ActorOK(r)'
      BY <3>3, ActorAway
    <3>. QED
      BY <3>2, <3>4 DEF ActorOK, OpOK, HandsOK, Absent, EarlyOK, TracerOK, ExitOK, ProcOK
  <2>. QED
    BY <2>2, <2>3
<1>5. ActorsInv'
  BY <1>4 DEF ActorsInv
<1>. QED
  BY <1>1, <1>3, <1>5

LEMMA LightState ==
  ASSUME TypeOK, StateInv, Light, obj' \in [Objs -> ObjType],
         UNCHANGED <<array, unfrozen, walk>>, loaded' => loaded
  PROVE  /\ ArrayInv' /\ ObjsInv' /\ WalkInv' /\ ThreadsInv'
         /\ OneTracerPerBdev' /\ FreedOnlyUnfrozen'
<1>1. \A m \in Minors : array[m] \in Objs \cup {None}
  BY DEF TypeOK
<1>2. \A o \in Objs : LightObj(obj[o], obj'[o])
  BY DEF Light
<1>3. ArrayInv'
  BY <1>1, <1>2 DEF StateInv, ArrayInv, LightObj
<1>4. ObjsInv'
  <2>. SUFFICES ASSUME NEW o \in Objs
                PROVE  /\ obj'[o].st = "live" => obj'[o].bdev \in Bdevs
                       /\ obj'[o].st = "freed" => obj'[o].bdev = None
                       /\ obj'[o].st = "freed" \/ obj'[o].unver =>
                            obj'[o].early = 0 /\ ~obj'[o].disk
                       /\ obj'[o].unver => ~obj'[o].active
    BY DEF ObjsInv
  <2>1. LightObj(obj[o], obj'[o]) /\ obj[o].disk \in BOOLEAN /\ obj[o].unver \in BOOLEAN
        /\ obj[o].active \in BOOLEAN
    BY DEF Light, TypeOK, ObjType
  <2>2. obj[o].early = 0 /\ ~obj[o].disk => obj'[o].early = 0
    BY DEF Light
  <2>. QED
    BY <2>1, <2>2 DEF StateInv, ObjsInv, LightObj
<1>5. WalkInv'
  BY DEF StateInv, WalkInv
<1>6. ThreadsInv'
  <2>. SUFFICES ASSUME loaded, NEW m \in Minors, array[m] # None,
                       obj'[array[m]].st = "live", ~obj'[array[m]].fail
                PROVE  IF obj'[array[m]].active THEN obj'[array[m]].threads > 0
                       ELSE obj'[array[m]].threads # 1
    BY DEF ThreadsInv
  <2>1. array[m] \in Objs /\ LightObj(obj[array[m]], obj'[array[m]])
    BY <1>1, <1>2
  <2>. QED
    BY <2>1 DEF StateInv, ThreadsInv, LightObj
<1>7. OneTracerPerBdev'
  BY <1>1, <1>2 DEF StateInv, OneTracerPerBdev, LightObj
<1>8. FreedOnlyUnfrozen'
  BY <1>1, <1>2 DEF StateInv, FreedOnlyUnfrozen, LightObj
<1>. QED
  BY <1>3, <1>4, <1>5, <1>6, <1>7, <1>8

LEMMA LightMounted ==
  ASSUME TypeOK, MountedInv, Light, UNCHANGED mnts,
         NEW a \in Actors, NEW x \in ActorType, actor' = [actor EXCEPT ![a] = x],
         actor[a].pc # "undo"
  PROVE  MountedInv'
<1>. SUFFICES ASSUME NEW o \in Objs, obj'[o].st = "live", obj'[o].active, ~obj'[o].fail
              PROVE  \/ obj'[o].place \in mnts[obj'[o].bdev]
                     \/ \E b \in Actors : actor'[b].pc = "undo" /\ actor'[b].new = o
  BY DEF MountedInv
<1>1. LightObj(obj[o], obj'[o])
  BY DEF Light
<1>2. \/ obj[o].place \in mnts[obj[o].bdev]
      \/ \E b \in Actors : actor[b].pc = "undo" /\ actor[b].new = o
  BY <1>1 DEF LightObj, MountedInv
<1>3. CASE obj[o].place \in mnts[obj[o].bdev]
  BY <1>1, <1>3 DEF LightObj
<1>4. ASSUME NEW b \in Actors, actor[b].pc = "undo", actor[b].new = o
      PROVE  actor'[b].pc = "undo" /\ actor'[b].new = o
  BY <1>4 DEF TypeOK
<1>. QED
  BY <1>2, <1>3, <1>4

\* A step of a task that leaves the array, the range and the mounts alone.
LEMMA LightStep ==
  ASSUME Inv, NEW a \in Actors, NEW x \in ActorType,
         actor' = [actor EXCEPT ![a] = x], Light, obj' \in [Objs -> ObjType],
         UNCHANGED <<array, range, walk, unfrozen, loaded>>,
         mnts' \in [Bdevs -> SUBSET Places], MountedInv',
         Moves(lock, lock', a), Moves(mutex, mutex', a), Holds(a, x, lock', mutex'),
         x.op = "exit" => actor[a].op = "exit",
         loaded \/ actor[a].pc # "idle",
         actor[a].pc \notin {"publish", "recalc"}, x.pc \notin {"publish", "recalc"},
         ActorOK(x)'
  PROVE  Inv'
<1>0. TypeOK /\ HoldInv /\ ActorsInv /\ LoadInv /\ StateInv /\ RangeInv
  BY DEF Inv, StateInv
<1>1. HoldInv'
  BY <1>0, HoldKeeps
<1>2. LoadInv'
  BY <1>0, LoadKeeps
<1>3. RangeInv'
  BY <1>0, RangeKeeps
<1>4. ArrayInv' /\ ObjsInv' /\ WalkInv' /\ ThreadsInv' /\ OneTracerPerBdev' /\ FreedOnlyUnfrozen'
  BY <1>0, LightState
<1>5. TypeOK'
  <2>1. lock' \in Actors \cup {None} /\ mutex' \in Actors \cup {None}
    BY <1>0 DEF Moves, TypeOK
  <2>2. actor' \in [Actors -> ActorType]
    BY <1>0 DEF TypeOK
  <2>. QED
    BY <1>0, <2>1, <2>2 DEF TypeOK
<1>6. ASSUME NEW b \in Actors PROVE ActorOK(actor[b])'
  <2>1. actor \in [Actors -> ActorType]
    BY <1>0 DEF TypeOK
  <2>2. CASE b = a
    <3>1. actor'[b] = x
      BY <2>1, <2>2
    <3>. QED
      BY <3>1 DEF ActorOK, OpOK, HandsOK, Absent, EarlyOK, TracerOK, ExitOK, ProcOK
  <2>3. CASE b # a
    <3>1. PICK r : r = actor[b]
      OBVIOUS
    <3>2. actor'[b] = r
      BY <2>1, <2>3, <3>1
    <3>3. \A s : s = actor[b] => ActorOK(s)'
      BY <1>0, ActorLight
    <3>4. ActorOK(r)'
      BY <3>1, <3>3
    <3>. QED
      BY <3>2, <3>4 DEF ActorOK, OpOK, HandsOK, Absent, EarlyOK, TracerOK, ExitOK, ProcOK
  <2>. QED
    BY <2>2, <2>3
<1>7. ActorsInv'
  BY <1>6 DEF ActorsInv
<1>. QED
  BY <1>1, <1>2, <1>3, <1>4, <1>5, <1>7 DEF Inv, StateInv

\* The same where the objects and the mounts stay as they are too.
LEMMA QuietStep ==
  ASSUME Inv, NEW a \in Actors, NEW x \in ActorType,
         actor' = [actor EXCEPT ![a] = x],
         UNCHANGED <<array, range, obj, mnts, walk, unfrozen, loaded>>,
         Moves(lock, lock', a), Moves(mutex, mutex', a), Holds(a, x, lock', mutex'),
         x.op = "exit" => actor[a].op = "exit",
         loaded \/ actor[a].pc # "idle",
         actor[a].pc \notin {"publish", "recalc", "undo"}, x.pc \notin {"publish", "recalc"},
         ActorOK(x)
  PROVE  Inv'
<1>1. TypeOK /\ MountedInv
  BY DEF Inv, StateInv
<1>2. Light /\ obj' \in [Objs -> ObjType]
  BY <1>1, UnchangedIsLight
<1>3. MountedInv'
  BY <1>1, <1>2, LightMounted
<1>4. ActorOK(x)'
  BY ActorSame
<1>5. mnts' \in [Bdevs -> SUBSET Places]
  BY <1>1 DEF TypeOK
<1>. QED
  BY <1>2, <1>3, <1>4, <1>5, LightStep

-----------------------------------------------------------------------------
(* The steps that leave the array alone: ioctls.                           *)

LEMMA PlainOK ==
  ASSUME NEW r, OpOK(r), r.pc \in AwayPCs \cup {"ioctl", "body", "out", "leaked"}
  PROVE  ActorOK(r)
BY DEF ActorOK, OpOK, HandsOK, EarlyOK, TracerOK, ExitOK, ProcOK, AwayPCs

LEMMA IdleFacts ==
  /\ Idle.pc = "idle" /\ Idle.op = None /\ Idle.new = None /\ Idle.old = None
  /\ Idle.minor = 0 /\ Idle.pos = 0 /\ Idle.shown = {} /\ Idle.footers = 0
BY DEF Idle

\* A task that is done has neither mutex.
LEMMA IdleHolds ==
  ASSUME NEW a \in Actors
  PROVE  Holds(a, Idle, None, None) /\ OpOK(Idle) /\ ActorOK(Idle)
<1>1. None # "exit"
  BY DevicesAssumption DEF OtherOps
<1>2. OpOK(Idle) /\ Idle.pc \in AwayPCs
  BY <1>1, IdleFacts DEF OpOK, AwayPCs
<1>3. ActorOK(Idle)
  BY <1>2, PlainOK
<1>4. None # a
  BY DevicesAssumption
<1>5. Holds(a, Idle, None, None)
  BY <1>4, IdleFacts DEF Holds, HasMutex, LockPCs, MutexPCs, Workers
<1>. QED
  BY <1>2, <1>3, <1>5

LEMMA IoctlEnterKeeps ==
  ASSUME Inv, NEW a \in Actors, IoctlEnter(a)
  PROVE  Inv'
<1>0. TypeOK /\ HoldInv
  BY DEF Inv
<1>1. PICK q \in Requests :
        actor' = [actor EXCEPT ![a] =
                    [Idle EXCEPT !.pc = "ioctl", !.op = q.op, !.minor = q.minor,
                                 !.bdev = q.bdev, !.place = q.place]]
  BY DEF IoctlEnter
<1>2. /\ q.op \in Ops /\ q.op \in IoctlOps /\ q.minor \in Minors
      /\ q.bdev \in Bdevs \cup {None} /\ q.place \in Places \cup {None}
      /\ q.op \in {"setup", "reload_snap", "reload_inc"} => q.bdev # None /\ q.place # None
      /\ q.op = "to_snap" => q.place # None
  BY DEF Requests
<1>3. PICK x : x = [Idle EXCEPT !.pc = "ioctl", !.op = q.op, !.minor = q.minor,
                                !.bdev = q.bdev, !.place = q.place]
  OBVIOUS
<1>4. /\ x.pc = "ioctl" /\ x.op = q.op /\ x.minor = q.minor /\ x.bdev = q.bdev
      /\ x.place = q.place /\ x.new = None /\ x.old = None
  BY <1>3 DEF Idle
<1>5. x \in ActorType
  <2>1. "ioctl" \in PCs /\ q.minor \in 0 .. MaxDevices
    BY <1>2, DevicesAssumption DEF PCs, Minors
  <2>. QED
    BY <1>2, <1>3, <2>1, IdleOK DEF ActorType
<1>6. q.op # "exit"
  BY <1>2 DEF IoctlOps
<1>7. OpOK(x)
  BY <1>2, <1>4, <1>6 DEF OpOK
<1>8. ActorOK(x)
  BY <1>4, <1>7, PlainOK
<1>9. actor[a].pc = "idle" /\ loaded /\ mutex = None /\ mutex' = a /\ lock' = lock
  BY DEF IoctlEnter
<1>10. Moves(lock, lock', a) /\ Moves(mutex, mutex', a)
  BY <1>9 DEF Moves
<1>11. lock # a
  BY <1>0, <1>9 DEF HoldInv, Holds, LockPCs, Workers
<1>12. Holds(a, x, lock', mutex')
  BY <1>4, <1>9, <1>11 DEF Holds, HasMutex, LockPCs, MutexPCs, Workers
<1>13. UNCHANGED <<array, range, obj, mnts, walk, unfrozen, loaded>>
  BY DEF IoctlEnter
<1>. QED
  BY <1>1, <1>3, <1>4, <1>5, <1>6, <1>8, <1>9, <1>10, <1>12, <1>13, QuietStep

LEMMA IoctlLockKeeps ==
  ASSUME Inv, NEW a \in Actors, IoctlLock(a)
  PROVE  Inv'
<1>0. TypeOK /\ HoldInv /\ ActorsInv
  BY DEF Inv
<1>1. actor[a].pc = "ioctl" /\ lock = None /\ lock' = a /\ mutex' = mutex
  BY DEF IoctlLock
<1>2. PICK x \in ActorType :
        /\ actor' = [actor EXCEPT ![a] = x]
        /\ x.pc = "body" /\ x.op = actor[a].op /\ x.minor = actor[a].minor
        /\ x.bdev = actor[a].bdev /\ x.place = actor[a].place
        /\ x.new = actor[a].new /\ x.old = actor[a].old
  BY <1>0, GotoFacts DEF IoctlLock, PCs
<1>3. OpOK(actor[a])
  BY <1>0 DEF ActorsInv, ActorOK
<1>4. OpOK(x) /\ x.op # "exit"
  BY <1>1, <1>2, <1>3 DEF OpOK
<1>5. ActorOK(x)
  BY <1>2, <1>4, PlainOK
<1>6. Moves(lock, lock', a) /\ Moves(mutex, mutex', a)
  BY <1>1 DEF Moves
<1>7. Holds(a, x, lock', mutex')
  BY <1>0, <1>1, <1>2, <1>4 DEF HoldInv, Holds, HasMutex, LockPCs, MutexPCs, Workers
<1>8. UNCHANGED <<array, range, obj, mnts, walk, unfrozen, loaded>>
  BY DEF IoctlLock
<1>. QED
  BY <1>1, <1>2, <1>4, <1>5, <1>6, <1>7, <1>8, QuietStep

\* What an entry of the array points to while no entry dangles.
LEMMA EntryLive ==
  ASSUME TypeOK, ArrayInv, ~Dangling, NEW m \in Minors, array[m] # None
  PROVE  /\ array[m] \in Objs /\ obj[array[m]].st = "live"
         /\ \A n \in Minors : n # m => array[n] # array[m]
<1>1. array[m] \in Objs
  BY DEF TypeOK
<1>2. obj[array[m]].st \in {"none", "live", "freed"}
  BY <1>1 DEF TypeOK, ObjType
<1>. QED
  BY <1>1, <1>2 DEF Dangling, ArrayInv

\* The task takes an object into its hands.
Take(a, l, o) == actor' = [actor EXCEPT ![a].pc = l, ![a].old = o]

LEMMA TakeFacts ==
  ASSUME TypeOK, NEW a \in Actors, NEW l \in PCs, NEW o \in Objs \cup {None}, Take(a, l, o)
  PROVE  \E x \in ActorType :
           /\ actor' = [actor EXCEPT ![a] = x]
           /\ x.pc = l /\ x.op = actor[a].op /\ x.minor = actor[a].minor
           /\ x.bdev = actor[a].bdev /\ x.place = actor[a].place
           /\ x.new = actor[a].new /\ x.old = o
<1>. DEFINE x == [actor[a] EXCEPT !.pc = l, !.old = o]
<1>1. actor[a] \in ActorType
  BY DEF TypeOK
<1>2. actor' = [actor EXCEPT ![a] = x]
  BY DEF TypeOK, Take
<1>3. x \in ActorType
  BY <1>1 DEF ActorType
<1>. WITNESS x \in ActorType
<1>. QED
  BY <1>1, <1>2 DEF ActorType

LEMMA FinishKeeps ==
  ASSUME Inv, NEW a \in Actors, Finish(a), actor[a].pc \notin {"idle", "publish", "recalc", "undo"},
         UNCHANGED <<array, range, obj, mnts, walk, unfrozen, loaded>>,
         lock' = (IF lock = a THEN None ELSE lock), mutex' = (IF mutex = a THEN None ELSE mutex)
  PROVE  Inv'
<1>1. actor' = [actor EXCEPT ![a] = Idle] /\ Idle \in ActorType
  BY IdleOK DEF Finish
<1>2. Moves(lock, lock', a) /\ Moves(mutex, mutex', a) /\ lock' # a /\ mutex' # a
  BY DevicesAssumption DEF Moves
<1>3. Holds(a, Idle, lock', mutex')
  BY <1>2, IdleFacts DEF Holds, HasMutex, LockPCs, MutexPCs, Workers
<1>4. ActorOK(Idle)
  BY IdleHolds
<1>5. Idle.op # "exit"
  BY IdleFacts, DevicesAssumption DEF OtherOps
<1>. QED
  BY <1>1, <1>2, <1>3, <1>4, <1>5, IdleFacts, QuietStep

LEMMA LeaveKeeps ==
  ASSUME Inv, NEW a \in Actors, Leave(a)
  PROVE  Inv'
<1>0. HoldInv /\ ActorsInv
  BY DEF Inv
<1>1. actor[a].pc = "out" /\ lock' = None /\ mutex' = None /\ Finish(a)
      /\ UNCHANGED <<array, range, obj, mnts, walk, unfrozen, loaded>>
  BY DEF Leave
<1>2. lock = a /\ mutex = a
  BY <1>0, <1>1 DEF HoldInv, Holds, HasMutex, LockPCs, Workers, ActorsInv, ActorOK, OpOK
<1>. QED
  BY <1>1, <1>2, FinishKeeps

LEMMA RefuseKeeps ==
  ASSUME Inv, NEW a \in Actors, actor[a].pc = "body", Refuse(a)
  PROVE  Inv'
<1>0. TypeOK /\ HoldInv /\ ActorsInv
  BY DEF Inv
<1>1. lock' = lock /\ mutex' = mutex
  BY DEF Refuse
<1>2. PICK x \in ActorType :
        /\ actor' = [actor EXCEPT ![a] = x]
        /\ x.pc = "out" /\ x.op = actor[a].op
  BY <1>0, GotoFacts DEF Refuse, PCs
<1>3. OpOK(actor[a])
  BY <1>0 DEF ActorsInv, ActorOK
<1>4. OpOK(x) /\ x.op # "exit"
  BY <1>2, <1>3 DEF OpOK
<1>5. ActorOK(x)
  BY <1>2, <1>4, PlainOK
<1>6. Moves(lock, lock', a) /\ Moves(mutex, mutex', a)
  BY <1>1 DEF Moves
<1>7. Holds(a, x, lock', mutex')
  BY <1>0, <1>1, <1>2, <1>4 DEF HoldInv, Holds, HasMutex, LockPCs, MutexPCs, Workers
<1>8. UNCHANGED <<array, range, obj, mnts, walk, unfrozen, loaded>>
  BY DEF Refuse
<1>. QED
  BY <1>2, <1>4, <1>5, <1>6, <1>7, <1>8, QuietStep

LEMMA DestroyKeeps ==
  ASSUME Inv, ~Dangling, NEW a \in Actors, Destroy(a)
  PROVE  Inv'
<1>0. TypeOK /\ HoldInv /\ ActorsInv /\ ArrayInv
  BY DEF Inv, StateInv
<1>1. actor[a].pc = "body" /\ actor[a].op = "destroy"
  BY DEF Destroy
<1>2. CASE Refuse(a)
  BY <1>1, <1>2, RefuseKeeps
<1>3. CASE /\ VerifyNotBusy(actor[a].minor)
           /\ actor' = [actor EXCEPT ![a].pc = "untrace", ![a].old = array[actor[a].minor]]
           /\ UNCHANGED <<array, range, obj, mnts, mutex, lock, walk, unfrozen, loaded>>
  <2>1. OpOK(actor[a])
    BY <1>0 DEF ActorsInv, ActorOK
  <2>2. PICK m \in Minors : m = actor[a].minor
    BY <1>1, <2>1 DEF OpOK
  <2>3. array[m] # None /\ obj[array[m]].early + obj[array[m]].late = 0
    BY <1>3, <2>2 DEF VerifyNotBusy
  <2>4. PICK o \in Objs : /\ o = array[m] /\ obj[o].st = "live"
                          /\ \A n \in Minors : n # m => array[n] # o
    BY <1>0, <2>3, EntryLive
  <2>5. obj[o].early = 0
    <3>1. obj[o].early \in 0 .. MaxOpen /\ obj[o].late \in 0 .. MaxOpen
      BY <1>0 DEF TypeOK, ObjType
    <3>. QED
      BY <2>3, <2>4, <3>1, DevicesAssumption
  <2>6. PICK x \in ActorType :
          /\ actor' = [actor EXCEPT ![a] = x]
          /\ x.pc = "untrace" /\ x.op = actor[a].op /\ x.minor = m
          /\ x.new = actor[a].new /\ x.old = o
    <3>1. "untrace" \in PCs /\ o \in Objs \cup {None}
      BY DEF PCs
    <3>2. Take(a, "untrace", o)
      BY <1>3, <2>2, <2>4 DEF Take
    <3>. QED
      BY <1>0, <2>2, <3>1, <3>2, TakeFacts
  <2>7. OpOK(x) /\ x.op = "destroy" /\ x.new = None
    BY <1>1, <2>1, <2>6 DEF OpOK
  <2>8. HandsOK(x)
    BY <2>4, <2>6, <2>7 DEF HandsOK
  <2>9. ActorOK(x)
    BY <2>5, <2>6, <2>7, <2>8 DEF ActorOK, EarlyOK, TracerOK, ExitOK, ProcOK
  <2>10. Holds(a, x, lock', mutex')
    BY <1>0, <1>1, <1>3, <2>6, <2>7 DEF HoldInv, Holds, HasMutex, LockPCs, MutexPCs, Workers
  <2>11. Moves(lock, lock', a) /\ Moves(mutex, mutex', a)
    BY <1>3 DEF Moves
  <2>. QED
    BY <1>1, <1>3, <2>6, <2>7, <2>9, <2>10, <2>11, QuietStep
<1>. QED
  BY <1>2, <1>3 DEF Destroy

LEMMA QueryKeeps ==
  ASSUME Inv, NEW a \in Actors, Query(a)
  PROVE  Inv'
BY RefuseKeeps DEF Query

-----------------------------------------------------------------------------
(* The hooks, as far as they leave the array alone.                        *)

LEMMA UmountEnterKeeps ==
  ASSUME Inv, NEW a \in Actors, UmountEnter(a)
  PROVE  Inv'
<1>0. TypeOK /\ HoldInv
  BY DEF Inv
<1>1. /\ loaded /\ actor[a].pc = "idle" /\ "umount" \in Ops
      /\ UNCHANGED <<array, range, obj, mnts, walk, unfrozen, loaded>>
      /\ lock' = lock /\ mutex' = mutex
  BY DEF UmountEnter
<1>2. PICK b \in Bdevs : \E p \in mnts[b] :
        actor' = [actor EXCEPT ![a] =
                    [Idle EXCEPT !.pc = "pre", !.op = "umount", !.bdev = b, !.place = p]]
  BY DEF UmountEnter
<1>2a. PICK p \in mnts[b] :
        actor' = [actor EXCEPT ![a] =
                    [Idle EXCEPT !.pc = "pre", !.op = "umount", !.bdev = b, !.place = p]]
  BY <1>2
<1>3. PICK x : x = [Idle EXCEPT !.pc = "pre", !.op = "umount", !.bdev = b, !.place = p]
  OBVIOUS
<1>4. p \in Places /\ "pre" \in PCs /\ 0 \in Minors
  BY <1>0, DevicesAssumption DEF TypeOK, PCs, Minors
<1>5. x \in ActorType
  BY <1>1, <1>3, <1>4, IdleOK DEF ActorType
<1>6. x.pc = "pre" /\ x.op = "umount" /\ x.minor = 0 /\ x.new = None
  BY <1>3 DEF Idle
<1>7. OpOK(x)
  BY <1>4, <1>6 DEF OpOK
<1>8. ActorOK(x)
  BY <1>6, <1>7, PlainOK DEF AwayPCs
<1>9. Moves(lock, lock', a) /\ Moves(mutex, mutex', a)
  BY <1>1 DEF Moves
<1>10. Holds(a, x, lock', mutex')
  BY <1>0, <1>1, <1>6 DEF HoldInv, Holds, HasMutex, LockPCs, MutexPCs, Workers
<1>. QED
  BY <1>1, <1>2a, <1>3, <1>5, <1>6, <1>8, <1>9, <1>10, QuietStep

\* The first minor of a set of entries that are there.
LEMMA FoundFacts ==
  ASSUME TypeOK, NEW found \in SUBSET Minors, found # {}, \A m \in found : array[m] # None
  PROVE  Min(found) \in Minors /\ array[Min(found)] # None
<1>1. Min(found) \in found
  BY MinMaxFacts
<1>. QED
  BY <1>1

Find(a, l, m) == actor' = [actor EXCEPT ![a].pc = l, ![a].minor = m]

LEMMA FoundRecord ==
  ASSUME TypeOK, NEW a \in Actors, NEW l \in PCs, NEW m \in Minors, Find(a, l, m)
  PROVE  \E x \in ActorType :
           /\ actor' = [actor EXCEPT ![a] = x]
           /\ x.pc = l /\ x.op = actor[a].op /\ x.minor = m /\ x.new = actor[a].new
<1>. DEFINE x == [actor[a] EXCEPT !.pc = l, !.minor = m]
<1>1. actor[a] \in ActorType /\ m \in 0 .. MaxDevices
  BY DevicesAssumption DEF TypeOK, Minors
<1>2. actor' = [actor EXCEPT ![a] = x]
  BY DEF TypeOK, Find
<1>3. x \in ActorType
  BY <1>1 DEF ActorType
<1>. WITNESS x \in ActorType
<1>. QED
  BY <1>1, <1>2 DEF ActorType

\* A hook that has found a device waits for the mutex with the lock.
LEMMA FoundKeeps ==
  ASSUME Inv, NEW a \in Actors, NEW l \in {"premutex", "mountmutex"}, NEW m \in Minors,
         array[m] # None, actor[a].pc \in {"pre", "mounted"},
         Find(a, l, m),
         lock = None, lock' = a, mutex' = mutex,
         UNCHANGED <<array, range, obj, mnts, walk, unfrozen, loaded>>
  PROVE  Inv'
<1>0. TypeOK /\ HoldInv /\ ActorsInv
  BY DEF Inv
<1>1. PICK x \in ActorType :
        /\ actor' = [actor EXCEPT ![a] = x]
        /\ x.pc = l /\ x.op = actor[a].op /\ x.minor = m /\ x.new = actor[a].new
  <2>1. l \in PCs
    BY DEF PCs
  <2>. QED
    BY <1>0, <2>1, FoundRecord
<1>2. OpOK(actor[a])
  BY <1>0 DEF ActorsInv, ActorOK
<1>3. x.op \in {"mount", "umount"} /\ OpOK(x)
  BY <1>1, <1>2 DEF OpOK
<1>4. ActorOK(x)
  BY <1>1, <1>3 DEF ActorOK, HandsOK, EarlyOK, TracerOK, ExitOK, ProcOK
<1>5. Moves(lock, lock', a) /\ Moves(mutex, mutex', a)
  BY DEF Moves
<1>6. Holds(a, x, lock', mutex')
  BY <1>0, <1>1 DEF HoldInv, Holds, HasMutex, LockPCs, MutexPCs, Workers
<1>. QED
  BY <1>1, <1>3, <1>4, <1>5, <1>6, QuietStep

LEMMA PreLockKeeps ==
  ASSUME Inv, NEW a \in Actors, PreLock(a)
  PROVE  Inv'
<1>0. TypeOK /\ HoldInv /\ ActorsInv
  BY DEF Inv
<1>. DEFINE found == MatchNowrite(actor[a].bdev, actor[a].place)
<1>1. /\ actor[a].pc = "pre" /\ lock = None /\ mutex' = mutex
      /\ UNCHANGED <<array, range, obj, mnts, walk, unfrozen, loaded>>
  BY DEF PreLock
<1>2. CASE found = {}
  <2>1. actor' = [actor EXCEPT ![a].pc = "call", ![a].res = FALSE] /\ lock' = lock
    BY <1>2 DEF PreLock
  <2>2. actor[a] \in ActorType
    BY <1>0 DEF TypeOK
  <2>3. PICK x : x = [actor[a] EXCEPT !.pc = "call", !.res = FALSE]
    OBVIOUS
  <2>4. actor' = [actor EXCEPT ![a] = x]
    BY <1>0, <2>1, <2>3 DEF TypeOK
  <2>5. /\ x \in ActorType /\ x.pc = "call" /\ x.op = actor[a].op /\ x.minor = actor[a].minor
        /\ x.new = actor[a].new
    BY <2>2, <2>3 DEF ActorType, PCs
  <2>6. OpOK(actor[a])
    BY <1>0 DEF ActorsInv, ActorOK
  <2>7. OpOK(x) /\ x.op # "exit"
    BY <1>1, <2>5, <2>6 DEF OpOK
  <2>8. ActorOK(x)
    BY <2>5, <2>7, PlainOK DEF AwayPCs
  <2>9. Moves(lock, lock', a) /\ Moves(mutex, mutex', a)
    BY <1>1, <2>1 DEF Moves
  <2>10. Holds(a, x, lock', mutex')
    BY <1>0, <1>1, <2>1, <2>5 DEF HoldInv, Holds, HasMutex, LockPCs, MutexPCs, Workers
  <2>. QED
    BY <1>1, <2>4, <2>5, <2>7, <2>8, <2>9, <2>10, QuietStep
<1>3. CASE found # {}
  <2>1. found \in SUBSET Minors /\ \A m \in found : array[m] # None
    BY DEF MatchNowrite
  <2>2. lock' = a /\ Find(a, "premutex", Min(found))
    BY <1>3 DEF Find, PreLock
  <2>. HIDE DEF found
  <2>3. Min(found) \in Minors /\ array[Min(found)] # None
    BY <1>0, <1>3, <2>1, FoundFacts
  <2>. QED
    BY <1>1, <2>2, <2>3, FoundKeeps
<1>. QED
  BY <1>2, <1>3

LEMMA MountLockKeeps ==
  ASSUME Inv, NEW a \in Actors, MountLock(a)
  PROVE  Inv'
<1>0. TypeOK /\ HoldInv
  BY DEF Inv
<1>. DEFINE found == MatchWritable(actor[a].bdev)
<1>1. /\ actor[a].pc = "mounted" /\ lock = None /\ mutex' = mutex
      /\ UNCHANGED <<array, range, obj, mnts, walk, unfrozen, loaded>>
  BY DEF MountLock
<1>2. CASE found = {}
  <2>1. Finish(a) /\ lock' = lock
    BY <1>2 DEF MountLock
  <2>2. lock # a /\ mutex # a
    BY <1>0, <1>1 DEF HoldInv, Holds, HasMutex, LockPCs, MutexPCs, Workers
  <2>. QED
    BY <1>1, <2>1, <2>2, FinishKeeps
<1>3. CASE found # {}
  <2>1. found \in SUBSET Minors /\ \A m \in found : array[m] # None
    BY DEF MatchWritable
  <2>2. lock' = a /\ Find(a, "mountmutex", Min(found))
    BY <1>3 DEF Find, MountLock
  <2>. HIDE DEF found
  <2>3. Min(found) \in Minors /\ array[Min(found)] # None
    BY <1>0, <1>3, <2>1, FoundFacts
  <2>. QED
    BY <1>1, <2>2, <2>3, FoundKeeps
<1>. QED
  BY <1>2, <1>3

\* An object fails, or has failed already.
SetFail(o, v) == obj' = [obj EXCEPT ![o].fail = v]

LEMMA FailIsLight ==
  ASSUME TypeOK, NEW o \in Objs, NEW v \in BOOLEAN, obj[o].fail => v, SetFail(o, v)
  PROVE  Light /\ obj' \in [Objs -> ObjType]
<1>1. obj \in [Objs -> ObjType] /\ obj[o] \in ObjType
  BY DEF TypeOK
<1>2. PICK y : y = [obj[o] EXCEPT !.fail = v]
  OBVIOUS
<1>3. obj' = [obj EXCEPT ![o] = y]
  BY <1>1, <1>2 DEF SetFail
<1>4. y \in ObjType /\ LightObj(obj[o], y) /\ y.early = obj[o].early
  BY <1>1, <1>2 DEF ObjType, LightObj
<1>5. obj' \in [Objs -> ObjType]
  BY <1>1, <1>3, <1>4
<1>6. ASSUME NEW p \in Objs PROVE LightObj(obj[p], obj'[p]) /\ obj'[p].early = obj[p].early
  <2>1. CASE p = o
    BY <1>1, <1>3, <1>4, <2>1
  <2>2. CASE p # o
    <3>1. obj'[p] = obj[p]
      BY <1>1, <1>3, <2>2
    <3>. QED
      BY <3>1 DEF LightObj
  <2>. QED
    BY <2>1, <2>2
<1>. QED
  BY <1>5, <1>6 DEF Light

LEMMA FinishLight ==
  ASSUME Inv, NEW a \in Actors, Finish(a), actor[a].pc \notin {"idle", "publish", "recalc", "undo"},
         UNCHANGED <<array, range, mnts, walk, unfrozen, loaded>>,
         Light, obj' \in [Objs -> ObjType],
         lock' = (IF lock = a THEN None ELSE lock), mutex' = (IF mutex = a THEN None ELSE mutex)
  PROVE  Inv'
<1>1. actor' = [actor EXCEPT ![a] = Idle] /\ Idle \in ActorType
  BY IdleOK DEF Finish
<1>2. Moves(lock, lock', a) /\ Moves(mutex, mutex', a) /\ lock' # a /\ mutex' # a
  BY DevicesAssumption DEF Moves
<1>3. Holds(a, Idle, lock', mutex')
  BY <1>2, IdleFacts DEF Holds, HasMutex, LockPCs, MutexPCs, Workers
<1>4. OpOK(Idle) /\ Idle.pc \in AwayPCs
  BY IdleHolds, IdleFacts DEF AwayPCs
<1>5. ActorOK(Idle)'
  BY <1>4, ActorAway
<1>6. Idle.op # "exit"
  BY IdleFacts, DevicesAssumption DEF OtherOps
<1>7. TypeOK /\ MountedInv /\ mnts' \in [Bdevs -> SUBSET Places]
  BY DEF Inv, StateInv, TypeOK
<1>8. MountedInv'
  BY <1>1, <1>7, LightMounted
<1>. QED
  BY <1>1, <1>2, <1>3, <1>5, <1>6, <1>7, <1>8, IdleFacts, LightStep

LEMMA PostFailedKeeps ==
  ASSUME Inv, NEW a \in Actors, PostFailed(a)
  PROVE  Inv'
<1>0. TypeOK /\ HoldInv /\ ActorsInv
  BY DEF Inv
<1>1. /\ actor[a].pc = "post" /\ lock = None /\ mutex' = mutex
      /\ UNCHANGED <<array, range, mnts, walk, unfrozen, loaded>>
  BY DEF PostFailed
<1>2. OpOK(actor[a])
  BY <1>0 DEF ActorsInv, ActorOK
<1>3. PICK m \in Minors : m = actor[a].minor
  BY <1>1, <1>2 DEF OpOK
<1>4. array[m] \in Objs \cup {None} /\ mutex # a
  BY <1>0, <1>1 DEF TypeOK, HoldInv, Holds, HasMutex, MutexPCs, Workers
<1>5. CASE array[m] # None /\ SetFail(array[m], TRUE) /\ Finish(a) /\ lock' = lock
  <2>1. Light /\ obj' \in [Objs -> ObjType]
    BY <1>0, <1>4, <1>5, FailIsLight
  <2>. QED
    BY <1>1, <1>4, <1>5, <2>1, FinishLight
<1>6. CASE /\ lock' = a /\ UNCHANGED obj
           /\ Goto(a, IF array[m] = None THEN "dead" ELSE "postmutex")
  <2>. DEFINE l == IF array[m] = None THEN "dead" ELSE "postmutex"
  <2>1. l \in PCs
    BY DEF PCs
  <2>2. PICK x \in ActorType :
          /\ actor' = [actor EXCEPT ![a] = x]
          /\ x.pc = l /\ x.op = actor[a].op /\ x.minor = m /\ x.new = actor[a].new
    BY <1>0, <1>3, <1>6, <2>1, GotoFacts
  <2>3. OpOK(x) /\ x.op # "exit"
    BY <1>1, <1>2, <1>3, <2>2 DEF OpOK
  <2>4. ActorOK(x)
    BY <2>2, <2>3 DEF ActorOK, HandsOK, EarlyOK, TracerOK, ExitOK, ProcOK
  <2>5. Moves(lock, lock', a) /\ Moves(mutex, mutex', a)
    BY <1>1, <1>6 DEF Moves
  <2>6. Holds(a, x, lock', mutex')
    BY <1>1, <1>4, <1>6, <2>2 DEF Holds, HasMutex, LockPCs, MutexPCs, Workers
  <2>. QED
    BY <1>1, <1>6, <2>2, <2>3, <2>4, <2>5, <2>6, QuietStep
<1>. QED
  BY <1>3, <1>5, <1>6 DEF PostFailed, SetFail

LEMMA PostReadKeeps ==
  ASSUME Inv, NEW a \in Actors, PostRead(a)
  PROVE  Inv'
<1>0. TypeOK /\ HoldInv /\ ActorsInv
  BY DEF Inv
<1>1. /\ actor[a].pc = "post" /\ lock' = lock /\ mutex' = mutex
      /\ UNCHANGED <<array, range, obj, mnts, walk, unfrozen, loaded>>
      /\ Take(a, "postuse", array[actor[a].minor])
  BY DEF PostRead, Take
<1>2. OpOK(actor[a])
  BY <1>0 DEF ActorsInv, ActorOK
<1>3. array[actor[a].minor] \in Objs \cup {None} /\ "postuse" \in PCs
  BY <1>0, <1>1, <1>2 DEF OpOK, TypeOK, PCs
<1>4. PICK x \in ActorType :
        actor' = [actor EXCEPT ![a] = x] /\ x.pc = "postuse" /\ x.op = actor[a].op
  BY <1>0, <1>1, <1>3, TakeFacts
<1>5. OpOK(x) /\ x.op # "exit"
  BY <1>1, <1>2, <1>4 DEF OpOK
<1>6. ActorOK(x)
  BY <1>4, <1>5, PlainOK DEF AwayPCs
<1>7. Moves(lock, lock', a) /\ Moves(mutex, mutex', a)
  BY <1>1 DEF Moves
<1>8. Holds(a, x, lock', mutex')
  BY <1>0, <1>1, <1>4 DEF HoldInv, Holds, HasMutex, LockPCs, MutexPCs, Workers
<1>. QED
  BY <1>1, <1>4, <1>5, <1>6, <1>7, <1>8, QuietStep

LEMMA PostUseKeeps ==
  ASSUME Inv, NEW a \in Actors, PostUse(a)
  PROVE  Inv'
<1>0. TypeOK /\ HoldInv /\ ActorsInv
  BY DEF Inv
<1>1. /\ actor[a].pc = "postuse" /\ lock' = lock /\ mutex' = mutex
      /\ UNCHANGED <<array, range, mnts, walk, unfrozen, loaded>>
  BY DEF PostUse
<1>2. lock # a /\ mutex # a
  BY <1>0, <1>1 DEF HoldInv, Holds, HasMutex, LockPCs, MutexPCs, Workers
<1>3. CASE Goto(a, "dead") /\ UNCHANGED obj
  <2>1. PICK x \in ActorType :
          actor' = [actor EXCEPT ![a] = x] /\ x.pc = "dead" /\ x.op = actor[a].op
    BY <1>0, <1>3, GotoFacts DEF PCs
  <2>2. OpOK(x) /\ x.op # "exit"
    BY <1>0, <1>1, <2>1 DEF ActorsInv, ActorOK, OpOK
  <2>3. ActorOK(x)
    BY <2>1, <2>2, PlainOK DEF AwayPCs
  <2>4. Moves(lock, lock', a) /\ Moves(mutex, mutex', a)
    BY <1>1 DEF Moves
  <2>5. Holds(a, x, lock', mutex')
    BY <1>1, <1>2, <2>1 DEF Holds, HasMutex, LockPCs, MutexPCs, Workers
  <2>. QED
    BY <1>1, <1>3, <2>1, <2>2, <2>3, <2>4, <2>5, QuietStep
<1>4. CASE Finish(a) /\ UNCHANGED obj
  BY <1>1, <1>2, <1>4, FinishKeeps
<1>5. ASSUME actor[a].old # None, Finish(a),
             SetFail(actor[a].old, obj[actor[a].old].fail \/ mnts[obj[actor[a].old].bdev] # {})
      PROVE  Inv'
  <2>1. PICK o \in Objs : o = actor[a].old
    BY <1>0, <1>5 DEF TypeOK, ActorType
  <2>2. PICK v \in BOOLEAN : v = (obj[o].fail \/ mnts[obj[o].bdev] # {})
    OBVIOUS
  <2>3. SetFail(o, v) /\ (obj[o].fail => v)
    BY <1>5, <2>1, <2>2
  <2>4. Light /\ obj' \in [Objs -> ObjType]
    BY <1>0, <2>3, FailIsLight
  <2>. QED
    BY <1>1, <1>2, <1>5, <2>4, FinishLight
<1>. QED
  BY <1>3, <1>4, <1>5 DEF PostUse, SetFail

LEMMA MountEnterKeeps ==
  ASSUME Inv, NEW a \in Actors, MountEnter(a)
  PROVE  Inv'
<1>0. TypeOK /\ HoldInv /\ MountedInv /\ ObjsInv
  BY DEF Inv, StateInv
<1>1. /\ loaded /\ actor[a].pc = "idle" /\ "mount" \in Ops
      /\ UNCHANGED <<array, range, obj, walk, unfrozen, loaded>>
      /\ lock' = lock /\ mutex' = mutex
  BY DEF MountEnter
<1>2. PICK b \in Bdevs : \E p \in Places \ mnts[b] :
        /\ mnts' = [mnts EXCEPT ![b] = @ \cup {p}]
        /\ actor' = [actor EXCEPT ![a] =
                       [Idle EXCEPT !.pc = "mounted", !.op = "mount", !.bdev = b, !.place = p]]
  BY DEF MountEnter
<1>3. PICK p \in Places \ mnts[b] :
        /\ mnts' = [mnts EXCEPT ![b] = @ \cup {p}]
        /\ actor' = [actor EXCEPT ![a] =
                       [Idle EXCEPT !.pc = "mounted", !.op = "mount", !.bdev = b, !.place = p]]
  BY <1>2
<1>4. PICK x : x = [Idle EXCEPT !.pc = "mounted", !.op = "mount", !.bdev = b, !.place = p]
  OBVIOUS
<1>5. x \in ActorType
  <2>1. "mounted" \in PCs
    BY DEF PCs
  <2>. QED
    BY <1>1, <1>4, <2>1, IdleOK DEF ActorType
<1>6. x.pc = "mounted" /\ x.op = "mount" /\ x.new = None
  BY <1>4 DEF Idle
<1>7. OpOK(x)
  BY <1>6 DEF OpOK
<1>8. ActorOK(x)'
  BY <1>6, <1>7, ActorAway DEF AwayPCs
<1>9. Moves(lock, lock', a) /\ Moves(mutex, mutex', a)
  BY <1>1 DEF Moves
<1>10. Holds(a, x, lock', mutex')
  BY <1>0, <1>1, <1>6 DEF HoldInv, Holds, HasMutex, LockPCs, MutexPCs, Workers
<1>11. actor' = [actor EXCEPT ![a] = x]
  BY <1>3, <1>4
<1>12. mnts \in [Bdevs -> SUBSET Places] /\ mnts' \in [Bdevs -> SUBSET Places]
  BY <1>0, <1>3 DEF TypeOK
<1>13. MountedInv'
  <2>. SUFFICES ASSUME NEW o \in Objs, obj[o].st = "live", obj[o].active, ~obj[o].fail
                PROVE  \/ obj[o].place \in mnts'[obj[o].bdev]
                       \/ \E c \in Actors : actor'[c].pc = "undo" /\ actor'[c].new = o
    BY <1>1 DEF MountedInv
  <2>1. \/ obj[o].place \in mnts[obj[o].bdev]
        \/ \E c \in Actors : actor[c].pc = "undo" /\ actor[c].new = o
    BY <1>0 DEF MountedInv
  <2>2. obj[o].bdev \in Bdevs
    BY <1>0 DEF ObjsInv
  <2>3. CASE obj[o].place \in mnts[obj[o].bdev]
    BY <1>3, <1>12, <2>2, <2>3
  <2>4. ASSUME NEW c \in Actors, actor[c].pc = "undo", actor[c].new = o
        PROVE  actor'[c].pc = "undo" /\ actor'[c].new = o
    BY <1>0, <1>1, <1>11, <2>4 DEF TypeOK
  <2>. QED
    BY <2>1, <2>3, <2>4
<1>14. Light /\ obj' \in [Objs -> ObjType]
  BY <1>0, <1>1, UnchangedIsLight
<1>. QED
  BY <1>1, <1>5, <1>6, <1>8, <1>9, <1>10, <1>11, <1>12, <1>13, <1>14, LightStep

\* The file of a healthy active device keeps its mount.
LEMMA UmountCallKeeps ==
  ASSUME Inv, NEW a \in Actors, UmountCall(a)
  PROVE  Inv'
<1>0. TypeOK /\ HoldInv /\ ActorsInv /\ MountedInv /\ ObjsInv
  BY DEF Inv, StateInv
<1>. DEFINE r == actor[a]
            after == IF r.res THEN [r EXCEPT !.pc = "post"] ELSE Idle
<1>1. /\ r.pc = "call" /\ lock' = lock /\ mutex' = mutex
      /\ UNCHANGED <<array, range, obj, walk, unfrozen, loaded>>
  BY DEF UmountCall
<1>2. r \in ActorType /\ OpOK(r)
  BY <1>0 DEF TypeOK, ActorsInv, ActorOK
<1>3. /\ after \in ActorType
      /\ \/ after.pc = "post" /\ after.op = r.op /\ after.minor = r.minor /\ after.new = r.new
         \/ after.pc = "idle" /\ after.op = None
  <2>1. "post" \in PCs
    BY DEF PCs
  <2>2. CASE r.res
    <3>1. PICK y : y = [r EXCEPT !.pc = "post"]
      OBVIOUS
    <3>2. y \in ActorType /\ y.pc = "post" /\ y.op = r.op /\ y.minor = r.minor
          /\ y.new = r.new
      BY <1>2, <2>1, <3>1 DEF ActorType
    <3>. QED
      BY <2>2, <3>1, <3>2
  <2>3. CASE ~r.res
    BY <2>3, IdleOK, IdleFacts
  <2>. QED
    BY <2>2, <2>3
<1>. HIDE DEF after
<1>4. PICK x \in ActorType :
        /\ actor' = [actor EXCEPT ![a] = x]
        /\ \/ x.pc = "post" /\ x.op = r.op /\ x.minor = r.minor /\ x.new = r.new
           \/ x.pc = "idle" /\ x.op = None
  <2>1. CASE actor' = [actor EXCEPT ![a] = after]
    BY <1>3, <2>1
  <2>2. CASE actor' = [actor EXCEPT ![a] = [after EXCEPT !.res = (after.pc = "idle")]]
    <3>1. PICK y : y = [after EXCEPT !.res = (after.pc = "idle")]
      OBVIOUS
    <3>2. y \in ActorType /\ y.pc = after.pc /\ y.op = after.op /\ y.minor = after.minor
          /\ y.new = after.new
      BY <1>3, <3>1 DEF ActorType
    <3>. QED
      BY <1>3, <2>2, <3>1, <3>2
  <2>. QED
    BY <2>1, <2>2 DEF UmountCall, after
<1>5. x.op # "exit" /\ x.pc \in {"post", "idle"}
  BY <1>1, <1>2, <1>4, DevicesAssumption DEF OpOK, OtherOps
<1>6. OpOK(x)
  BY <1>1, <1>2, <1>4, <1>5 DEF OpOK
<1>7. ActorOK(x)'
  BY <1>5, <1>6, ActorAway DEF AwayPCs
<1>8. Moves(lock, lock', a) /\ Moves(mutex, mutex', a)
  BY <1>1 DEF Moves
<1>9. Holds(a, x, lock', mutex')
  BY <1>0, <1>1, <1>5 DEF HoldInv, Holds, HasMutex, LockPCs, MutexPCs, Workers
<1>10. Light /\ obj' \in [Objs -> ObjType]
  BY <1>0, <1>1, UnchangedIsLight
<1>11. mnts \in [Bdevs -> SUBSET Places]
  BY <1>0 DEF TypeOK
<1>12. mnts' \in [Bdevs -> SUBSET Places] /\ MountedInv'
  <2>1. CASE UNCHANGED mnts
    BY <1>0, <1>1, <1>4, <1>10, <1>11, <2>1, LightMounted
  <2>2. CASE /\ ~FileOpen(r.bdev, r.place)
             /\ mnts' = [mnts EXCEPT ![r.bdev] = @ \ {r.place}]
    <3>1. mnts' \in [Bdevs -> SUBSET Places]
      BY <1>11, <2>2
    <3>2. ASSUME NEW o \in Objs, obj[o].st = "live", obj[o].active, ~obj[o].fail
          PROVE  \/ obj[o].place \in mnts'[obj[o].bdev]
                 \/ \E c \in Actors : actor'[c].pc = "undo" /\ actor'[c].new = o
      <4>1. \/ obj[o].place \in mnts[obj[o].bdev]
            \/ \E c \in Actors : actor[c].pc = "undo" /\ actor[c].new = o
        BY <1>0, <3>2 DEF MountedInv
      <4>2. obj[o].bdev \in Bdevs /\ ~(obj[o].bdev = r.bdev /\ obj[o].place = r.place)
        BY <1>0, <2>2, <3>2 DEF ObjsInv, FileOpen
      <4>3. CASE obj[o].place \in mnts[obj[o].bdev]
        BY <1>11, <2>2, <4>2, <4>3
      <4>4. ASSUME NEW c \in Actors, actor[c].pc = "undo", actor[c].new = o
            PROVE  actor'[c].pc = "undo" /\ actor'[c].new = o
        BY <1>0, <1>1, <1>4, <4>4 DEF TypeOK
      <4>. QED
        BY <4>1, <4>3, <4>4
    <3>. QED
      BY <1>1, <3>1, <3>2 DEF MountedInv
  <2>. QED
    BY <2>1, <2>2 DEF UmountCall
<1>. QED
  BY <1>1, <1>4, <1>5, <1>7, <1>8, <1>9, <1>10, <1>12, LightStep

-----------------------------------------------------------------------------
(* /proc/moocbt-info.                                                      *)

LEMMA ProcOnlyOK ==
  ASSUME NEW r, r.pc \in {"procopen", "procwait", "procread"}, r.op # "exit", ProcOK(r)
  PROVE  ActorOK(r)
BY DEF ActorOK, OpOK, HandsOK, EarlyOK, TracerOK, ExitOK

LEMMA ProcOpenKeeps ==
  ASSUME Inv, NEW a \in Actors, ProcOpen(a)
  PROVE  Inv'
<1>0. TypeOK /\ HoldInv
  BY DEF Inv
<1>1. /\ loaded /\ actor[a].pc = "idle" /\ "proc" \in Ops /\ mutex = None
      /\ mutex' = a /\ lock' = lock
      /\ UNCHANGED <<array, range, obj, mnts, walk, unfrozen, loaded>>
  BY DEF ProcOpen
<1>2. PICK l \in {"procopen", "leaked"} :
        actor' = [actor EXCEPT ![a] = [Idle EXCEPT !.pc = l, !.op = "proc"]]
  BY DEF ProcOpen
<1>3. PICK x : x = [Idle EXCEPT !.pc = l, !.op = "proc"]
  OBVIOUS
<1>4. x \in ActorType
  <2>1. l \in PCs
    BY DEF PCs
  <2>. QED
    BY <1>1, <1>3, <2>1, IdleOK DEF ActorType
<1>5. x.pc = l /\ x.op = "proc" /\ x.pos = 0 /\ x.shown = {} /\ x.footers = 0
  BY <1>3 DEF Idle
<1>6. range.highest \in Nat
  BY <1>0, DevicesAssumption DEF TypeOK, Minors
<1>7. ProcOK(x)
  BY <1>5, <1>6, DevicesAssumption DEF ProcOK, Minors
<1>8. ActorOK(x)
  <2>1. CASE l = "procopen"
    BY <1>5, <1>7, <2>1, ProcOnlyOK
  <2>2. CASE l = "leaked"
    BY <1>5, <2>2, PlainOK DEF OpOK
  <2>. QED
    BY <2>1, <2>2
<1>9. Moves(lock, lock', a) /\ Moves(mutex, mutex', a)
  BY <1>1 DEF Moves
<1>10. Holds(a, x, lock', mutex')
  BY <1>0, <1>1, <1>5 DEF HoldInv, Holds, HasMutex, LockPCs, MutexPCs, Workers
<1>11. actor' = [actor EXCEPT ![a] = x]
  BY <1>2, <1>3
<1>. QED
  BY <1>1, <1>4, <1>5, <1>8, <1>9, <1>10, <1>11, QuietStep

LEMMA ProcReadKeeps ==
  ASSUME Inv, NEW a \in Actors, ProcRead(a)
  PROVE  Inv'
<1>0. TypeOK /\ HoldInv /\ ActorsInv
  BY DEF Inv
<1>1. /\ actor[a].pc = "procopen" /\ lock' = lock /\ mutex' = mutex
      /\ UNCHANGED <<array, range, obj, mnts, walk, unfrozen, loaded>>
  BY DEF ProcRead
<1>2. PICK x \in ActorType :
        /\ actor' = [actor EXCEPT ![a] = x]
        /\ x.pc = "procwait" /\ x.op = actor[a].op /\ x.pos = actor[a].pos
        /\ x.shown = actor[a].shown /\ x.footers = actor[a].footers
  BY <1>0, GotoFacts DEF ProcRead, PCs
<1>3. OpOK(actor[a]) /\ ProcOK(actor[a])
  BY <1>0 DEF ActorsInv, ActorOK
<1>4. ProcOK(x) /\ x.op # "exit"
  BY <1>1, <1>2, <1>3 DEF OpOK, ProcOK
<1>5. ActorOK(x)
  BY <1>2, <1>4, ProcOnlyOK
<1>6. Moves(lock, lock', a) /\ Moves(mutex, mutex', a)
  BY <1>1 DEF Moves
<1>7. Holds(a, x, lock', mutex')
  BY <1>0, <1>1, <1>2 DEF HoldInv, Holds, HasMutex, LockPCs, MutexPCs, Workers
<1>. QED
  BY <1>1, <1>2, <1>4, <1>5, <1>6, <1>7, QuietStep

LEMMA ProcStartKeeps ==
  ASSUME Inv, NEW a \in Actors, ProcStart(a)
  PROVE  Inv'
<1>0. TypeOK /\ HoldInv /\ ActorsInv
  BY DEF Inv
<1>1. /\ actor[a].pc = "procwait" /\ lock = None /\ lock' = a /\ mutex' = mutex
      /\ UNCHANGED <<array, range, obj, mnts, walk, unfrozen, loaded>>
      /\ actor' = [actor EXCEPT ![a].pc = "procread", ![a].res = FALSE]
  BY DEF ProcStart
<1>2. actor[a] \in ActorType
  BY <1>0 DEF TypeOK
<1>3. PICK x : x = [actor[a] EXCEPT !.pc = "procread", !.res = FALSE]
  OBVIOUS
<1>4. actor' = [actor EXCEPT ![a] = x]
  BY <1>0, <1>1, <1>3 DEF TypeOK
<1>5. /\ x \in ActorType /\ x.pc = "procread" /\ x.op = actor[a].op /\ x.pos = actor[a].pos
      /\ x.shown = actor[a].shown /\ x.footers = actor[a].footers
  BY <1>2, <1>3 DEF ActorType, PCs
<1>6. OpOK(actor[a]) /\ ProcOK(actor[a])
  BY <1>0 DEF ActorsInv, ActorOK
<1>7. ProcOK(x) /\ x.op # "exit"
  BY <1>1, <1>5, <1>6 DEF OpOK, ProcOK
<1>8. ActorOK(x)
  BY <1>5, <1>7, ProcOnlyOK
<1>9. Moves(lock, lock', a) /\ Moves(mutex, mutex', a)
  BY <1>1 DEF Moves
<1>10. Holds(a, x, lock', mutex')
  BY <1>0, <1>1, <1>5 DEF HoldInv, Holds, HasMutex, LockPCs, MutexPCs, Workers
<1>. QED
  BY <1>1, <1>4, <1>5, <1>7, <1>8, <1>9, <1>10, QuietStep

\* With the lock and the mutex the range is that of the array.
LEMMA ReaderRange ==
  ASSUME Inv, NEW a \in Actors, actor[a].pc \in LockPCs \ {"publish", "recalc"},
         mutex \in {a, None}
  PROVE  Fits(range, array)
<1>0. TypeOK /\ HoldInv /\ ActorsInv /\ LoadInv /\ RangeInv
  BY DEF Inv, StateInv
<1>1. ASSUME NEW b \in Actors PROVE actor[b].pc \notin {"publish", "recalc"}
  <2>1. CASE b = a
    BY <2>1
  <2>2. CASE b # a
    BY <1>0, <2>2, OthersAway DEF AwayPCs
  <2>. QED
    BY <2>1, <2>2
<1>. QED
  BY <1>0, <1>1 DEF RangeInv

LEMMA ProcShowKeeps ==
  ASSUME Inv, NEW a \in Actors, ProcShow(a)
  PROVE  Inv'
<1>0. TypeOK /\ HoldInv /\ ActorsInv
  BY DEF Inv
<1>. DEFINE r == actor[a]
            m == r.pos - 1
            device == r.pos # 0 /\ array[m] # None
            footer == \/ r.pos = 0 /\ range.lowest > range.highest
                      \/ device /\ m = range.highest
            x == [r EXCEPT !.pos = @ + 1, !.res = TRUE,
                           !.shown = IF device THEN @ \cup {m} ELSE @,
                           !.footers = IF footer THEN @ + 1 ELSE @]
<1>1. /\ r.pc = "procread" /\ lock' = lock /\ mutex' = mutex
      /\ UNCHANGED <<array, range, obj, mnts, walk, unfrozen, loaded>>
  BY DEF ProcShow
<1>2. actor' = [actor EXCEPT ![a] = x]
  BY <1>0 DEF ProcShow, TypeOK
<1>3. /\ r \in ActorType /\ r.pos \in Nat /\ r.footers \in Nat /\ r.shown \in SUBSET Minors
      /\ range.lowest \in Minors /\ range.highest \in Minors
      /\ \A n \in Minors : n \in Nat /\ n < MaxDevices
      /\ MaxDevices \in Nat \ {0}
  BY <1>0, DevicesAssumption, SMTT(30) DEF TypeOK, ActorType, Minors
<1>4. r.pos <= range.highest + 1
  BY <1>3 DEF ProcShow, AtEnd
<1>5. OpOK(r) /\ ProcOK(r) /\ lock = a /\ mutex = a
  BY <1>0, <1>1 DEF ActorsInv, ActorOK, HoldInv, Holds, HasMutex, LockPCs, MutexPCs, Workers
<1>6. Fits(range, array)
  BY <1>1, <1>5, ReaderRange DEF LockPCs
<1>7. r.pos # 0 => m \in Minors
  BY <1>3, <1>4 DEF Minors
<1>8. /\ r.shown = {n \in Minors : n + 1 < r.pos /\ array[n] # None}
      /\ r.footers = IF Used(array) = {}
                     THEN IF r.pos = 0 \/ MaxDevices = 1 THEN 0 ELSE 1
                     ELSE IF r.pos > range.highest + 1 THEN 1 ELSE 0
  BY <1>1, <1>5 DEF ProcOK
<1>9. PICK s : s = IF device THEN r.shown \cup {m} ELSE r.shown
  OBVIOUS
<1>10. s = {n \in Minors : n + 1 < r.pos + 1 /\ array[n] # None}
  <2>1. CASE device
    <3>1. s = r.shown \cup {m} /\ m \in Minors /\ array[m] # None
      BY <1>7, <1>9, <2>1
    <3>2. ASSUME NEW n \in Minors
          PROVE  n + 1 < r.pos + 1 <=> (n + 1 < r.pos \/ n = m)
      BY <1>3, <3>1
    <3>. QED
      BY <1>8, <3>1, <3>2
  <2>2. CASE ~device
    <3>1. s = r.shown
      BY <1>9, <2>2
    <3>2. ASSUME NEW n \in Minors, array[n] # None
          PROVE  n + 1 < r.pos + 1 <=> n + 1 < r.pos
      BY <1>3, <2>2, <3>2
    <3>. QED
      BY <1>8, <3>1, <3>2
  <2>. QED
    BY <2>1, <2>2
<1>11. PICK f : f = IF footer THEN r.footers + 1 ELSE r.footers
  OBVIOUS
<1>12. f = IF Used(array) = {}
           THEN IF MaxDevices = 1 THEN 0 ELSE 1
           ELSE IF r.pos + 1 > range.highest + 1 THEN 1 ELSE 0
  <2>1. CASE Used(array) = {}
    <3>1. range.lowest = MaxDevices - 1 /\ range.highest = 0
      BY <1>6, <2>1 DEF Fits
    <3>2. ~device
      BY <1>7, <2>1 DEF Used
    <3>3. r.footers = IF r.pos = 0 \/ MaxDevices = 1 THEN 0 ELSE 1
      BY <1>8, <2>1
    <3>4. footer <=> r.pos = 0 /\ MaxDevices # 1
      BY <1>3, <3>1, <3>2
    <3>. HIDE DEF footer
    <3>. QED
      BY <1>11, <2>1, <3>3, <3>4
  <2>2. CASE Used(array) # {}
    <3>1. range.lowest \in Used(array) /\ range.highest \in Used(array)
      BY <1>6, <2>2 DEF Fits
    <3>2. range.lowest <= range.highest /\ array[range.highest] # None
      BY <1>6, <3>1 DEF Fits, Used
    <3>3. footer <=> r.pos = range.highest + 1
      <4>1. ASSUME r.pos = range.highest + 1 PROVE footer
        <5>1. m = range.highest /\ r.pos # 0
          BY <1>3, <4>1
        <5>. QED
          BY <3>2, <5>1
      <4>2. ASSUME footer PROVE r.pos = range.highest + 1
        <5>1. ~(range.lowest > range.highest)
          BY <1>3, <3>2
        <5>2. m = range.highest
          BY <4>2, <5>1
        <5>. QED
          BY <1>3, <5>2
      <4>. QED
        BY <4>1, <4>2
    <3>4. r.footers = 0
      BY <1>3, <1>4, <1>8, <2>2
    <3>. HIDE DEF footer
    <3>. QED
      BY <1>3, <1>4, <1>11, <2>2, <3>3, <3>4
  <2>. QED
    BY <2>1, <2>2
<1>13. PICK y : y = [r EXCEPT !.pos = @ + 1, !.res = TRUE, !.shown = s, !.footers = f]
  OBVIOUS
<1>14. actor' = [actor EXCEPT ![a] = y]
  BY <1>2, <1>9, <1>11, <1>13
<1>. HIDE DEF x, device, footer, m
<1>15. r.pos + 1 \in 0 .. MaxDevices + 1 /\ s \in SUBSET Minors /\ f \in 0 .. MaxDevices
  <2>1. r.pos + 1 \in 0 .. MaxDevices + 1
    BY <1>3, <1>4
  <2>2. f \in {0, 1}
    BY <1>12
  <2>. QED
    BY <1>3, <1>10, <2>1, <2>2
<1>16. /\ y \in ActorType /\ y.pc = "procread" /\ y.op = r.op /\ y.pos = r.pos + 1
       /\ y.shown = s /\ y.footers = f
  BY <1>1, <1>3, <1>13, <1>15 DEF ActorType
<1>17. ProcOK(y)
  BY <1>3, <1>4, <1>10, <1>12, <1>16 DEF ProcOK
<1>18. y.op # "exit"
  BY <1>1, <1>5, <1>16 DEF OpOK
<1>19. ActorOK(y)
  BY <1>16, <1>17, <1>18, ProcOnlyOK
<1>20. Moves(lock, lock', a) /\ Moves(mutex, mutex', a)
  BY <1>1 DEF Moves
<1>21. Holds(a, y, lock', mutex')
  BY <1>1, <1>5, <1>16 DEF Holds, HasMutex, LockPCs, MutexPCs, Workers
<1>. QED
  BY <1>1, <1>14, <1>16, <1>18, <1>19, <1>20, <1>21, QuietStep

LEMMA ProcStopKeeps ==
  ASSUME Inv, NEW a \in Actors, ProcStop(a)
  PROVE  Inv'
<1>0. TypeOK /\ HoldInv /\ ActorsInv
  BY DEF Inv
<1>1. /\ actor[a].pc = "procread" /\ lock' = None /\ mutex' = mutex
      /\ UNCHANGED <<array, range, obj, mnts, walk, unfrozen, loaded>>
  BY DEF ProcStop
<1>2. PICK x \in ActorType :
        /\ actor' = [actor EXCEPT ![a] = x]
        /\ x.pc = "procopen" /\ x.op = actor[a].op /\ x.pos = actor[a].pos
        /\ x.shown = actor[a].shown /\ x.footers = actor[a].footers
  BY <1>0, GotoFacts DEF ProcStop, PCs
<1>3. OpOK(actor[a]) /\ ProcOK(actor[a]) /\ lock = a
  BY <1>0, <1>1 DEF ActorsInv, ActorOK, HoldInv, Holds, LockPCs
<1>4. ProcOK(x) /\ x.op # "exit"
  BY <1>1, <1>2, <1>3 DEF OpOK, ProcOK
<1>5. ActorOK(x)
  BY <1>2, <1>4, ProcOnlyOK
<1>6. Moves(lock, lock', a) /\ Moves(mutex, mutex', a)
  BY <1>1, <1>3 DEF Moves
<1>7. Holds(a, x, lock', mutex')
  BY <1>0, <1>1, <1>2, DevicesAssumption DEF HoldInv, Holds, HasMutex, LockPCs, MutexPCs, Workers
<1>. QED
  BY <1>1, <1>2, <1>4, <1>5, <1>6, <1>7, QuietStep

LEMMA ProcReleaseKeeps ==
  ASSUME Inv, NEW a \in Actors, ProcRelease(a)
  PROVE  Inv'
<1>0. HoldInv
  BY DEF Inv
<1>1. /\ actor[a].pc = "procopen" /\ mutex' = None /\ lock' = lock /\ Finish(a)
      /\ UNCHANGED <<array, range, obj, mnts, walk, unfrozen, loaded>>
  BY DEF ProcRelease
<1>2. mutex = a /\ lock # a
  BY <1>0, <1>1 DEF HoldInv, Holds, HasMutex, LockPCs, MutexPCs, Workers
<1>. QED
  BY <1>1, <1>2, FinishKeeps

-----------------------------------------------------------------------------
(* Openers, bios, and the end of the module.                               *)

LEMMA LightOnly ==
  ASSUME Inv, Light, obj' \in [Objs -> ObjType],
         UNCHANGED <<array, range, mnts, mutex, lock, actor, walk, unfrozen, loaded>>
  PROVE  Inv'
<1>0. TypeOK /\ HoldInv /\ ActorsInv /\ LoadInv /\ StateInv /\ RangeInv /\ MountedInv
  BY DEF Inv, StateInv
<1>1. TypeOK' /\ HoldInv' /\ LoadInv' /\ RangeInv'
  BY <1>0 DEF TypeOK, HoldInv, LoadInv, RangeInv
<1>2. ArrayInv' /\ ObjsInv' /\ WalkInv' /\ ThreadsInv' /\ OneTracerPerBdev' /\ FreedOnlyUnfrozen'
  BY <1>0, LightState
<1>3. MountedInv'
  BY <1>0 DEF MountedInv, Light, LightObj
<1>4. ASSUME NEW b \in Actors PROVE ActorOK(actor[b])'
  <2>1. PICK r : r = actor[b]
    OBVIOUS
  <2>2. \A s : s = actor[b] => ActorOK(s)'
    BY <1>0, ActorLight
  <2>3. actor'[b] = r /\ ActorOK(r)'
    BY <2>1, <2>2
  <2>. QED
    BY <2>3 DEF ActorOK, OpOK, HandsOK, Absent, EarlyOK, TracerOK, ExitOK, ProcOK
<1>5. ActorsInv'
  BY <1>4 DEF ActorsInv
<1>. QED
  BY <1>1, <1>2, <1>3, <1>5 DEF Inv, StateInv

LEMMA FailKeeps ==
  ASSUME Inv, NEW o \in Objs, Fail(o)
  PROVE  Inv'
<1>1. TypeOK /\ SetFail(o, TRUE)
  BY DEF Inv, Fail, SetFail
<1>2. Light /\ obj' \in [Objs -> ObjType]
  BY <1>1, FailIsLight
<1>. QED
  BY <1>2, LightOnly DEF Fail

\* The references of the disk of an object change.
LEMMA RefsAreLight ==
  ASSUME TypeOK, NEW o \in Objs, NEW e \in 0 .. MaxOpen, NEW l \in 0 .. MaxOpen,
         obj' = [obj EXCEPT ![o] = [obj[o] EXCEPT !.early = e, !.late = l]],
         obj[o].early = 0 /\ (~obj[o].disk \/ InHands(o)) => e = 0
  PROVE  Light /\ obj' \in [Objs -> ObjType]
<1>1. obj \in [Objs -> ObjType] /\ obj[o] \in ObjType
  BY DEF TypeOK
<1>2. PICK y : y = [obj[o] EXCEPT !.early = e, !.late = l]
  OBVIOUS
<1>3. obj' = [obj EXCEPT ![o] = y]
  BY <1>2
<1>4. y \in ObjType /\ LightObj(obj[o], y) /\ y.early = e
  BY <1>1, <1>2 DEF ObjType, LightObj
<1>5. obj' \in [Objs -> ObjType]
  BY <1>1, <1>3, <1>4
<1>6. ASSUME NEW p \in Objs
      PROVE  /\ LightObj(obj[p], obj'[p])
             /\ obj[p].early = 0 /\ (~obj[p].disk \/ InHands(p)) => obj'[p].early = 0
  <2>1. CASE p = o
    BY <1>1, <1>3, <1>4, <2>1
  <2>2. CASE p # o
    <3>1. obj'[p] = obj[p]
      BY <1>1, <1>3, <2>2
    <3>. QED
      BY <3>1 DEF LightObj
  <2>. QED
    BY <2>1, <2>2
<1>. QED
  BY <1>5, <1>6 DEF Light

LEMMA OpenKeeps ==
  ASSUME Inv, NEW o \in Objs, Open(o)
  PROVE  Inv'
<1>0. TypeOK
  BY DEF Inv
<1>1. obj \in [Objs -> ObjType] /\ obj[o] \in ObjType /\ MaxOpen \in Nat
  BY <1>0, DevicesAssumption DEF TypeOK
<1>2. /\ obj[o].early \in 0 .. MaxOpen /\ obj[o].late \in 0 .. MaxOpen
      /\ obj[o].early + obj[o].late < MaxOpen /\ obj[o].disk
  BY <1>1 DEF Open, ObjType
<1>3. PICK e : e = IF InHands(o) THEN obj[o].early ELSE obj[o].early + 1
  OBVIOUS
<1>4. PICK l : l = IF InHands(o) THEN obj[o].late + 1 ELSE obj[o].late
  OBVIOUS
<1>5. e \in 0 .. MaxOpen /\ l \in 0 .. MaxOpen
  BY <1>1, <1>2, <1>3, <1>4
<1>6. obj' = [obj EXCEPT ![o] = [obj[o] EXCEPT !.early = e, !.late = l]]
  <2>1. obj' = [obj EXCEPT ![o].late = IF InHands(o) THEN obj[o].late + 1 ELSE obj[o].late,
                           ![o].early = IF InHands(o) THEN obj[o].early ELSE obj[o].early + 1]
    BY <1>1 DEF Open, ObjType
  <2>2. obj' = [obj EXCEPT ![o].late = l, ![o].early = e]
    BY <1>3, <1>4, <2>1
  <2>. QED
    BY <1>1, <2>2 DEF ObjType
<1>7. Light /\ obj' \in [Objs -> ObjType]
  BY <1>0, <1>2, <1>3, <1>5, <1>6, RefsAreLight
<1>. QED
  BY <1>7, LightOnly DEF Open

LEMMA ReleaseKeeps ==
  ASSUME Inv, NEW o \in Objs, Release(o)
  PROVE  Inv'
<1>0. TypeOK
  BY DEF Inv
<1>1. obj \in [Objs -> ObjType] /\ obj[o] \in ObjType /\ MaxOpen \in Nat
  BY <1>0, DevicesAssumption DEF TypeOK
<1>2. obj[o].early \in 0 .. MaxOpen /\ obj[o].late \in 0 .. MaxOpen
  BY <1>1 DEF ObjType
<1>3. PICK e \in 0 .. MaxOpen, l \in 0 .. MaxOpen :
        /\ obj' = [obj EXCEPT ![o] = [obj[o] EXCEPT !.early = e, !.late = l]]
        /\ obj[o].early = 0 => e = 0
  <2>1. CASE obj[o].early > 0 /\ obj' = [obj EXCEPT ![o].early = @ - 1]
    <3>1. PICK e : e = obj[o].early - 1
      OBVIOUS
    <3>2. e \in 0 .. MaxOpen /\ obj[o].early # 0
      BY <1>1, <1>2, <2>1, <3>1
    <3>3. obj' = [obj EXCEPT ![o] = [obj[o] EXCEPT !.early = e, !.late = obj[o].late]]
      BY <1>1, <2>1, <3>1 DEF ObjType
    <3>. QED
      BY <1>2, <3>2, <3>3
  <2>2. CASE obj[o].late > 0 /\ obj' = [obj EXCEPT ![o].late = @ - 1]
    <3>1. PICK l : l = obj[o].late - 1
      OBVIOUS
    <3>2. l \in 0 .. MaxOpen
      BY <1>1, <1>2, <2>2, <3>1
    <3>3. obj' = [obj EXCEPT ![o] = [obj[o] EXCEPT !.early = obj[o].early, !.late = l]]
      BY <1>1, <2>2, <3>1 DEF ObjType
    <3>. QED
      BY <1>2, <3>2, <3>3
  <2>. QED
    BY <2>1, <2>2 DEF Release
<1>4. Light /\ obj' \in [Objs -> ObjType]
  BY <1>0, <1>3, RefsAreLight
<1>. QED
  BY <1>4, LightOnly DEF Release

LEMMA WalkOnly ==
  ASSUME Inv, UNCHANGED <<array, range, obj, mnts, mutex, lock, actor, unfrozen, loaded>>,
         walk' \in [st : {"off", "on", "done"}, i : 0 .. MaxDevices,
                    d : Objs \cup {None}, met : SUBSET Minors, stay : SUBSET Minors],
         WalkInv'
  PROVE  Inv'
<1>1. TypeOK'
  BY DEF Inv, TypeOK
<1>2. HoldInv' /\ LoadInv'
  BY DEF Inv, HoldInv, LoadInv
<1>3. ActorsInv'
  <2>. SUFFICES ASSUME NEW b \in Actors PROVE ActorOK(actor[b])'
    BY DEF ActorsInv
  <2>1. ActorOK(actor[b])
    BY DEF Inv, ActorsInv
  <2>. QED
    BY <2>1 DEF ActorOK, OpOK, HandsOK, Absent, EarlyOK, TracerOK, ExitOK, ProcOK, Used
<1>4. ArrayInv' /\ ObjsInv' /\ RangeInv' /\ MountedInv' /\ ThreadsInv'
  BY DEF Inv, StateInv, ArrayInv, ObjsInv, RangeInv, MountedInv, ThreadsInv
<1>5. OneTracerPerBdev' /\ FreedOnlyUnfrozen'
  BY DEF Inv, StateInv, OneTracerPerBdev, FreedOnlyUnfrozen
<1>. QED
  BY <1>1, <1>2, <1>3, <1>4, <1>5 DEF Inv, StateInv

LEMMA WalkStartKeeps ==
  ASSUME Inv, WalkStart
  PROVE  Inv'
<1>0. TypeOK /\ ActorsInv /\ RangeInv
  BY DEF Inv, StateInv
<1>1. /\ UNCHANGED <<array, range, obj, mnts, mutex, lock, actor, unfrozen, loaded>>
      /\ walk' = [st |-> "on", i |-> range.lowest, d |-> array[range.lowest],
                  met |-> {}, stay |-> {m \in Minors : array[m] # None}]
  BY DEF WalkStart
<1>2. range.lowest \in Minors /\ range.lowest \in 0 .. MaxDevices
      /\ array[range.lowest] \in Objs \cup {None}
  BY <1>0, DevicesAssumption DEF TypeOK, Minors
<1>3. walk' \in [st : {"off", "on", "done"}, i : 0 .. MaxDevices,
                 d : Objs \cup {None}, met : SUBSET Minors, stay : SUBSET Minors]
  BY <1>1, <1>2
<1>4. \A m \in Minors : array[m] # None => ~(m < range.lowest)
  <2>. SUFFICES ASSUME NEW m \in Minors, array[m] # None
                PROVE  ~(m < range.lowest)
    OBVIOUS
  <2>1. range.lowest <= m
    BY <1>0, RangeCovers
  <2>. QED
    BY <1>2, <2>1, DevicesAssumption DEF Minors
<1>5. /\ walk'.st = "on" /\ walk'.i = range.lowest /\ walk'.d = array[range.lowest]
      /\ walk'.stay = {m \in Minors : array[m] # None}
  BY <1>1
<1>6. WalkInv'
  BY <1>1, <1>4, <1>5 DEF WalkInv
<1>. QED
  BY <1>1, <1>3, <1>6, WalkOnly

LEMMA WalkStepKeeps ==
  ASSUME Inv, WalkStep
  PROVE  Inv'
<1>0. TypeOK /\ ActorsInv /\ RangeInv /\ WalkInv
  BY DEF Inv, StateInv
<1>1. /\ UNCHANGED <<array, range, obj, mnts, mutex, lock, actor, unfrozen, loaded>>
      /\ walk.st = "on"
  BY DEF WalkStep
<1>. DEFINE WT == [st : {"off", "on", "done"}, i : 0 .. MaxDevices,
                   d : Objs \cup {None}, met : SUBSET Minors, stay : SUBSET Minors]
<1>2. walk \in WT /\ range.highest \in Minors
  BY <1>0 DEF TypeOK
<1>3. /\ walk.i \in 0 .. MaxDevices /\ walk.d \in Objs \cup {None}
      /\ walk.met \in SUBSET Minors /\ walk.stay \in SUBSET Minors
  BY <1>2
<1>4. MaxDevices \in Nat \ {0} /\ \A n \in Minors : n \in Nat /\ n < MaxDevices
  BY DevicesAssumption DEF Minors
<1>5. CASE walk.i <= range.highest
  <2>1. PICK d \in (IF walk.i + 1 \in Minors THEN {array[walk.i + 1]} ELSE Objs \cup {None}) :
          walk' = [walk EXCEPT !.i = @ + 1, !.d = d,
                               !.met = IF walk.d # None THEN @ \cup {walk.i} ELSE @]
    BY <1>5 DEF WalkStep
  <2>2. d \in Objs \cup {None} /\ (walk.i + 1 \in Minors => d = array[walk.i + 1])
    BY <1>0, <2>1 DEF TypeOK
  <2>3. walk.i \in Minors /\ walk.i + 1 \in 0 .. MaxDevices
    BY <1>2, <1>3, <1>4, <1>5 DEF Minors
  <2>4. PICK t : t = IF walk.d # None THEN walk.met \cup {walk.i} ELSE walk.met
    OBVIOUS
  <2>5. t \in SUBSET Minors
    BY <1>3, <2>3, <2>4
  <2>6. walk' = [walk EXCEPT !.i = walk.i + 1, !.d = d, !.met = t]
    BY <1>2, <2>1, <2>4
  <2>7. /\ walk' \in WT /\ walk'.st = "on" /\ walk'.i = walk.i + 1 /\ walk'.d = d
        /\ walk'.met = t /\ walk'.stay = walk.stay
    BY <1>1, <1>2, <2>2, <2>3, <2>5, <2>6
  <2>8. ASSUME NEW m \in walk.stay
        PROVE  /\ array[m] # None /\ (m < walk.i + 1 => m \in t)
               /\ m = walk.i + 1 => d # None
    <3>1. m \in Minors /\ array[m] # None
      BY <1>0, <1>3 DEF WalkInv
    <3>2. m = walk.i + 1 => d # None
      BY <2>2, <3>1
    <3>3. (m < walk.i => m \in walk.met) /\ (m = walk.i => walk.d # None)
      BY <1>0, <1>1 DEF WalkInv
    <3>4. m < walk.i + 1 => m < walk.i \/ m = walk.i
      BY <1>3, <1>4, <3>1
    <3>. QED
      BY <2>4, <3>1, <3>2, <3>3, <3>4
  <2>9. WalkInv'
    BY <1>1, <2>7, <2>8 DEF WalkInv
  <2>. QED
    BY <1>1, <2>7, <2>9, WalkOnly
<1>6. CASE ~(walk.i <= range.highest)
  <2>1. walk' = [walk EXCEPT !.st = "done", !.d = None]
    BY <1>6 DEF WalkStep
  <2>2. /\ walk' \in WT /\ walk'.st = "done"
        /\ walk'.met = walk.met /\ walk'.stay = walk.stay
    BY <1>2, <2>1
  <2>3. ASSUME NEW m \in walk.stay PROVE array[m] # None /\ m \in walk.met
    <3>1. m \in Minors /\ array[m] # None
      BY <1>0, <1>3 DEF WalkInv
    <3>2. m <= range.highest
      BY <1>0, <3>1, RangeCovers
    <3>3. m < walk.i
      BY <1>2, <1>3, <1>4, <1>6, <3>1, <3>2
    <3>. QED
      BY <1>0, <1>1, <3>1, <3>3 DEF WalkInv
  <2>4. WalkInv'
    BY <1>1, <2>2, <2>3 DEF WalkInv
  <2>. QED
    BY <1>1, <2>2, <2>4, WalkOnly
<1>. QED
  BY <1>5, <1>6

LEMMA WalkEndKeeps ==
  ASSUME Inv, WalkEnd
  PROVE  Inv'
<1>1. /\ UNCHANGED <<array, range, obj, mnts, mutex, lock, actor, unfrozen, loaded>>
      /\ walk' = NoWalk
  BY DEF WalkEnd
<1>2. walk' \in [st : {"off", "on", "done"}, i : 0 .. MaxDevices,
                 d : Objs \cup {None}, met : SUBSET Minors, stay : SUBSET Minors]
  BY <1>1, DevicesAssumption DEF NoWalk
<1>3. WalkInv'
  BY <1>1 DEF WalkInv, NoWalk
<1>. QED
  BY <1>1, <1>2, <1>3, WalkOnly

LEMMA ExitStartKeeps ==
  ASSUME Inv, NEW a \in Actors, ExitStart(a)
  PROVE  Inv'
<1>0. TypeOK /\ HoldInv /\ ActorsInv /\ LoadInv /\ StateInv /\ RangeInv /\ MountedInv
  BY DEF Inv, StateInv
<1>1. /\ "exit" \in Ops /\ lock = None /\ lock' = a /\ loaded' = FALSE
      /\ \A b \in Actors : actor[b].pc = "idle"
      /\ actor' = [actor EXCEPT ![a] = [Idle EXCEPT !.pc = "next", !.op = "exit",
                                                   !.minor = range.lowest]]
      /\ UNCHANGED <<array, range, obj, mnts, mutex, walk, unfrozen>>
  BY DEF ExitStart
<1>2. PICK x : x = [Idle EXCEPT !.pc = "next", !.op = "exit", !.minor = range.lowest]
  OBVIOUS
<1>3. actor' = [actor EXCEPT ![a] = x]
  BY <1>1, <1>2
<1>4. range.lowest \in Minors /\ range.lowest \in 0 .. MaxDevices
  BY <1>0, DevicesAssumption DEF TypeOK, Minors
<1>5. x \in ActorType
  <2>1. "next" \in PCs
    BY DEF PCs
  <2>. QED
    BY <1>1, <1>2, <1>4, <2>1, IdleOK DEF ActorType
<1>6. x.pc = "next" /\ x.op = "exit" /\ x.minor = range.lowest /\ x.new = None /\ x.old = None
  BY <1>2 DEF Idle
<1>7. ExitOK(x)
  <2>1. ASSUME NEW m \in Minors, m < range.lowest, array[m] # None PROVE FALSE
    <3>1. range.lowest <= m
      BY <1>0, <2>1, RangeCovers
    <3>. QED
      BY <1>4, <2>1, <3>1, DevicesAssumption DEF Minors
  <2>. QED
    BY <1>6, <2>1 DEF ExitOK
<1>8. ActorOK(x)
  BY <1>6, <1>7 DEF ActorOK, OpOK, HandsOK, EarlyOK, TracerOK, ProcOK
<1>9. ActorOK(x)'
  BY <1>1, <1>8, ActorSame
<1>10. Moves(lock, lock', a) /\ Moves(mutex, mutex', a)
  BY <1>1 DEF Moves
<1>11. Holds(a, x, lock', mutex')
  BY <1>0, <1>1, <1>6 DEF HoldInv, Holds, HasMutex, LockPCs, MutexPCs, Workers
<1>12. HoldInv'
  BY <1>0, <1>3, <1>5, <1>10, <1>11, HoldKeeps
<1>13. actor \in [Actors -> ActorType] /\ \A b \in Actors : b # a => actor'[b] = actor[b]
  BY <1>0, <1>3 DEF TypeOK
<1>14. actor'[a] = x /\ actor' \in [Actors -> ActorType]
  BY <1>3, <1>5, <1>13
<1>15. ASSUME NEW b \in Actors, b # a PROVE actor'[b].op # "exit" /\ actor'[b].pc = "idle"
  BY <1>0, <1>1, <1>13, <1>15 DEF ActorsInv, ActorOK, OpOK
<1>16. LoadInv'
  BY <1>1, <1>15 DEF LoadInv
<1>17. ASSUME NEW b \in Actors PROVE ActorOK(actor[b])'
  <2>1. CASE b = a
    BY <1>9, <1>14, <2>1 DEF ActorOK, OpOK, HandsOK, Absent, EarlyOK, TracerOK, ExitOK, ProcOK
  <2>2. CASE b # a
    <3>1. PICK r : r = actor[b]
      OBVIOUS
    <3>2. r.pc \in AwayPCs /\ OpOK(r)
      BY <1>0, <1>1, <3>1 DEF ActorsInv, ActorOK, AwayPCs
    <3>3. ActorOK(r)' /\ actor'[b] = r
      BY <1>13, <2>2, <3>1, <3>2, ActorAway
    <3>. QED
      BY <3>3 DEF ActorOK, OpOK, HandsOK, Absent, EarlyOK, TracerOK, ExitOK, ProcOK
  <2>. QED
    BY <2>1, <2>2
<1>18. ActorsInv'
  BY <1>17 DEF ActorsInv
<1>19. Light /\ obj' \in [Objs -> ObjType]
  BY <1>0, <1>1, UnchangedIsLight
<1>20. ArrayInv' /\ ObjsInv' /\ WalkInv' /\ ThreadsInv' /\ OneTracerPerBdev' /\ FreedOnlyUnfrozen'
  BY <1>0, <1>1, <1>19, LightState
<1>21. MountedInv'
  BY <1>0, <1>1, <1>3, <1>5, <1>19, LightMounted
<1>22. RangeInv'
  BY <1>0, <1>1, <1>3, <1>5, <1>6, RangeKeeps
<1>23. TypeOK'
  BY <1>0, <1>1, <1>14 DEF TypeOK
<1>. QED
  BY <1>12, <1>16, <1>18, <1>20, <1>21, <1>22, <1>23 DEF Inv, StateInv

LEMMA ExitNextKeeps ==
  ASSUME Inv, ~Dangling, NEW a \in Actors, ExitNext(a)
  PROVE  Inv'
<1>0. TypeOK /\ HoldInv /\ ActorsInv /\ RangeInv /\ ArrayInv
  BY DEF Inv, StateInv
<1>. DEFINE r == actor[a]
            o == array[r.minor]
<1>1. /\ r.pc = "next" /\ mutex' = mutex
      /\ UNCHANGED <<array, range, obj, mnts, walk, unfrozen, loaded>>
  BY DEF ExitNext
<1>2. r \in ActorType /\ OpOK(r) /\ ExitOK(r) /\ lock = a /\ mutex # a
  BY <1>0, <1>1 DEF TypeOK, ActorsInv, ActorOK, HoldInv, Holds, HasMutex, LockPCs,
                    MutexPCs, Workers, OpOK
<1>3. r.op = "exit" /\ r.new = None
  BY <1>1, <1>2 DEF OpOK
<1>4. /\ r.minor \in 0 .. MaxDevices /\ range.highest \in Minors /\ MaxDevices \in Nat
      /\ \A m \in Minors : m \in Nat /\ m < MaxDevices
  BY <1>0, <1>2, DevicesAssumption DEF TypeOK, ActorType, Minors
<1>5. \A m \in Minors : m < r.minor /\ array[m] # None => m \in unfrozen
  BY <1>2, <1>3 DEF ExitOK
<1>6. CASE r.minor > range.highest
  <2>1. actor' = [actor EXCEPT ![a].pc = "gone"] /\ lock' = None
    BY <1>6 DEF ExitNext
  <2>2. PICK x \in ActorType :
          /\ actor' = [actor EXCEPT ![a] = x]
          /\ x.pc = "gone" /\ x.op = "exit" /\ x.minor = r.minor /\ x.new = None
    <3>1. "gone" \in PCs /\ Goto(a, "gone")
      BY <2>1 DEF PCs, Goto
    <3>. QED
      BY <1>0, <1>3, <3>1, GotoFacts
  <2>3. ASSUME NEW m \in Minors, array[m] # None PROVE m \in unfrozen
    <3>1. m <= range.highest
      BY <1>0, <2>3, RangeCovers
    <3>2. m < r.minor
      BY <1>4, <1>6, <3>1
    <3>. QED
      BY <1>5, <2>3, <3>2
  <2>4. ActorOK(x)
    BY <2>2, <2>3 DEF ActorOK, OpOK, HandsOK, EarlyOK, TracerOK, ExitOK, ProcOK
  <2>5. Moves(lock, lock', a) /\ Moves(mutex, mutex', a)
    BY <1>1, <1>2, <2>1 DEF Moves
  <2>6. Holds(a, x, lock', mutex')
    BY <1>1, <1>2, <2>1, <2>2, DevicesAssumption DEF Holds, HasMutex, LockPCs, MutexPCs, Workers
  <2>. QED
    BY <1>1, <1>3, <2>2, <2>4, <2>5, <2>6, QuietStep
<1>7. CASE ~(r.minor > range.highest)
  <2>1. r.minor \in Minors /\ r.minor + 1 \in 0 .. MaxDevices /\ lock' = lock
    BY <1>4, <1>7 DEF ExitNext, Minors
  <2>2. Moves(lock, lock', a) /\ Moves(mutex, mutex', a)
    BY <1>1, <2>1 DEF Moves
  <2>3. CASE o # None /\ r.old # o
    <3>1. PICK x : x = [r EXCEPT !.pc = "untrace", !.old = o]
      OBVIOUS
    <3>2. actor' = [actor EXCEPT ![a] = x]
      BY <1>7, <2>3, <3>1 DEF ExitNext
    <3>3. /\ o \in Objs /\ obj[o].st = "live"
          /\ \A n \in Minors : n # r.minor => array[n] # o
      BY <1>0, <2>1, <2>3, EntryLive
    <3>4. /\ x \in ActorType /\ x.pc = "untrace" /\ x.op = "exit" /\ x.minor = r.minor
          /\ x.new = None /\ x.old = o
      <4>1. "untrace" \in PCs
        BY DEF PCs
      <4>. QED
        BY <1>2, <1>3, <3>1, <3>3, <4>1 DEF ActorType
    <3>. HIDE DEF o
    <3>5. OpOK(x) /\ EarlyOK(x) /\ TracerOK(x) /\ ProcOK(x)
      BY <2>1, <3>3, <3>4 DEF OpOK, EarlyOK, TracerOK, ProcOK
    <3>6. HandsOK(x)
      BY <3>3, <3>4 DEF HandsOK, o
    <3>7. ExitOK(x)
      BY <1>5, <3>4 DEF ExitOK
    <3>8. ActorOK(x)
      BY <3>5, <3>6, <3>7 DEF ActorOK
    <3>9. Holds(a, x, lock', mutex')
      BY <1>1, <1>2, <2>1, <3>4 DEF Holds, HasMutex, LockPCs, MutexPCs, Workers
    <3>. QED
      BY <1>1, <1>3, <2>2, <3>2, <3>4, <3>8, <3>9, QuietStep
  <2>4. CASE ~(o # None /\ r.old # o)
    <3>1. PICK x : x = [r EXCEPT !.minor = r.minor + 1, !.old = None]
      OBVIOUS
    <3>2. actor' = [actor EXCEPT ![a] = x]
      <4>1. actor' = [actor EXCEPT ![a] =
                        IF o # None /\ r.old # o
                        THEN [r EXCEPT !.pc = "untrace", !.old = o]
                        ELSE [r EXCEPT !.minor = r.minor + 1, !.old = None]]
        BY <1>7 DEF ExitNext
      <4>. QED
        BY <2>4, <3>1, <4>1
    <3>3. /\ x \in ActorType /\ x.pc = "next" /\ x.op = "exit" /\ x.minor = r.minor + 1
          /\ x.new = None /\ x.old = None
      BY <1>1, <1>2, <1>3, <2>1, <3>1 DEF ActorType
    <3>4. ASSUME NEW m \in Minors, m < r.minor + 1, array[m] # None PROVE m \in unfrozen
      <4>1. CASE m < r.minor
        BY <1>5, <3>4, <4>1
      <4>2. CASE m = r.minor
        BY <1>1, <1>2, <1>3, <2>1, <2>4, <3>4, <4>2 DEF ExitOK
      <4>. QED
        BY <1>4, <3>4, <4>1, <4>2
    <3>5. ActorOK(x)
      BY <3>3, <3>4 DEF ActorOK, OpOK, HandsOK, EarlyOK, TracerOK, ExitOK, ProcOK
    <3>6. Holds(a, x, lock', mutex')
      BY <1>1, <1>2, <2>1, <3>3 DEF Holds, HasMutex, LockPCs, MutexPCs, Workers
    <3>. QED
      BY <1>1, <1>3, <2>2, <3>2, <3>3, <3>5, <3>6, QuietStep
  <2>. QED
    BY <2>3, <2>4
<1>. QED
  BY <1>6, <1>7

-----------------------------------------------------------------------------
(* The steps of a task that works on the array.                            *)

LEMMA WorkerMutex ==
  ASSUME Inv, NEW a \in Actors, actor[a].pc \in Workers
  PROVE  /\ lock = a /\ mutex \in {a, None} /\ actor[a].pc \in LockPCs
         /\ actor[a].op # "exit" => mutex = a
<1>0. TypeOK /\ HoldInv /\ LoadInv
  BY DEF Inv
<1>1. actor[a].pc \in LockPCs /\ lock = a /\ (actor[a].op # "exit" => mutex = a)
  BY <1>0 DEF HoldInv, Holds, HasMutex, LockPCs
<1>2. ASSUME actor[a].op = "exit", mutex # None, mutex # a PROVE FALSE
  <2>1. PICK b \in Actors : b = mutex
    BY <1>0, <1>2 DEF TypeOK
  <2>2. actor[b].pc = "idle"
    BY <1>0, <1>2, <2>1 DEF LoadInv
  <2>3. HasMutex(actor[b])
    BY <1>0, <2>1 DEF HoldInv, Holds
  <2>. QED
    BY <2>2, <2>3 DEF HasMutex, MutexPCs, Workers
<1>. QED
  BY <1>1, <1>2

LEMMA RangeStep ==
  ASSUME TypeOK, HoldInv, ActorsInv, LoadInv, NEW a \in Actors, NEW x \in ActorType,
         actor[a].pc \in LockPCs, mutex \in {a, None},
         actor' = [actor EXCEPT ![a] = x],
         x.pc \notin {"publish", "recalc"} => Fits(range', array'),
         x.pc = "publish" => Fits(range', [array' EXCEPT ![x.minor] = x.new]),
         x.pc = "recalc" => Fits(range', [array' EXCEPT ![x.minor] = x.old])
  PROVE  RangeInv'
<1>1. actor'[a] = x /\ \A b \in Actors : b # a => actor'[b] = actor[b]
  BY DEF TypeOK
<1>2. \A b \in Actors : b # a => actor'[b].pc \notin {"publish", "recalc"}
  BY <1>1, OthersAway DEF AwayPCs
<1>. QED
  BY <1>1, <1>2 DEF RangeInv

\* Everything a step of a task that has the array to itself has to show.
LEMMA WorkStep ==
  ASSUME Inv, NEW a \in Actors, NEW x \in ActorType,
         actor[a].pc \in LockPCs, mutex \in {a, None},
         actor' = [actor EXCEPT ![a] = x], UNCHANGED <<mnts, loaded>>,
         array' \in [Minors -> Objs \cup {None}],
         range' \in [lowest : Minors, highest : Minors],
         obj' \in [Objs -> ObjType],
         walk' \in [st : {"off", "on", "done"}, i : 0 .. MaxDevices,
                    d : Objs \cup {None}, met : SUBSET Minors, stay : SUBSET Minors],
         unfrozen' \subseteq Minors,
         Moves(lock, lock', a), Moves(mutex, mutex', a), Holds(a, x, lock', mutex'),
         x.op = "exit" => actor[a].op = "exit",
         ActorOK(x)',
         x.pc \notin {"publish", "recalc"} => Fits(range', array'),
         x.pc = "publish" => Fits(range', [array' EXCEPT ![x.minor] = x.new]),
         x.pc = "recalc" => Fits(range', [array' EXCEPT ![x.minor] = x.old]),
         ArrayInv', ObjsInv', WalkInv', MountedInv', ThreadsInv',
         OneTracerPerBdev', FreedOnlyUnfrozen'
  PROVE  Inv'
<1>0. TypeOK /\ HoldInv /\ ActorsInv /\ LoadInv
  BY DEF Inv
<1>1. HoldInv' /\ ActorsInv' /\ LoadInv'
  BY <1>0, AwayStep
<1>2. RangeInv'
  BY <1>0, RangeStep
<1>3. lock' \in Actors \cup {None} /\ mutex' \in Actors \cup {None}
      /\ actor' \in [Actors -> ActorType]
  BY <1>0 DEF Moves, TypeOK
<1>4. TypeOK'
  BY <1>0, <1>3 DEF TypeOK
<1>. QED
  BY <1>1, <1>2, <1>4 DEF Inv, StateInv

\* What an object has to have in any case.
ObjOK(y) ==
  /\ y.st = "live" => y.bdev \in Bdevs
  /\ y.st = "freed" => y.bdev = None
  /\ y.st = "freed" \/ y.unver => y.early = 0 /\ ~y.disk
  /\ y.unver => ~y.active

\* An object that is not in the array changes.
LEMMA AbsentChange ==
  ASSUME TypeOK, StateInv, NEW o \in Objs, Absent(o), NEW y \in ObjType, ObjOK(y),
         obj' = [obj EXCEPT ![o] = y], UNCHANGED <<array, unfrozen, walk, loaded>>
  PROVE  /\ ArrayInv' /\ ObjsInv' /\ WalkInv' /\ ThreadsInv'
         /\ OneTracerPerBdev' /\ FreedOnlyUnfrozen'
<1>1. \A m \in Minors : array[m] # None => array[m] \in Objs /\ obj'[array[m]] = obj[array[m]]
  BY DEF TypeOK, Absent
<1>2. ArrayInv' /\ FreedOnlyUnfrozen'
  BY <1>1 DEF StateInv, ArrayInv, FreedOnlyUnfrozen
<1>3. ObjsInv'
  BY DEF StateInv, ObjsInv, ObjOK, TypeOK
<1>4. WalkInv'
  BY DEF StateInv, WalkInv
<1>5. ThreadsInv'
  BY <1>1 DEF StateInv, ThreadsInv
<1>6. OneTracerPerBdev'
  BY <1>1 DEF StateInv, OneTracerPerBdev
<1>. QED
  BY <1>2, <1>3, <1>4, <1>5, <1>6

LEMMA MountedChange ==
  ASSUME TypeOK, MountedInv, UNCHANGED mnts,
         NEW o \in Objs, NEW y \in ObjType, obj' = [obj EXCEPT ![o] = y],
         NEW a \in Actors, NEW x \in ActorType, actor' = [actor EXCEPT ![a] = x],
         actor[a].pc = "undo" => actor[a].new = o,
         y.st = "live" /\ y.active /\ ~y.fail =>
           y.place \in mnts[y.bdev] \/ (x.pc = "undo" /\ x.new = o)
  PROVE  MountedInv'
<1>. SUFFICES ASSUME NEW p \in Objs, obj'[p].st = "live", obj'[p].active, ~obj'[p].fail
              PROVE  \/ obj'[p].place \in mnts[obj'[p].bdev]
                     \/ \E b \in Actors : actor'[b].pc = "undo" /\ actor'[b].new = p
  BY DEF MountedInv
<1>1. obj \in [Objs -> ObjType] /\ actor \in [Actors -> ActorType]
  BY DEF TypeOK
<1>2. CASE p = o
  BY <1>1, <1>2
<1>3. CASE p # o
  <2>1. obj'[p] = obj[p]
    BY <1>1, <1>3
  <2>2. ASSUME NEW b \in Actors, actor[b].pc = "undo", actor[b].new = p
        PROVE  actor'[b].pc = "undo" /\ actor'[b].new = p
    BY <1>1, <1>3, <2>2
  <2>. QED
    BY <2>1, <2>2 DEF MountedInv
<1>. QED
  BY <1>2, <1>3

LEMMA AllocateKeeps ==
  ASSUME Inv, NEW a \in Actors, actor[a].pc = "body",
         NEW y \in ObjType, NEW old \in Objs \cup {None}, NEW l \in {"disk", "include"},
         Allocate(a, y, old, l),
         actor[a].op \notin {"destroy", "query"}, old = array[actor[a].minor],
         actor[a].op \in {"to_inc", "to_snap"} <=> old # None,
         old # None => obj[old].early = 0,
         y.st = "live", y.bdev \in Bdevs, y.early = 0, ~y.disk, ~y.fail,
         y.unver => ~y.active, y.active \/ (y.unver /\ l # "disk"),
         y.active => y.place \in mnts[y.bdev],
         ~y.unver => \A m \in Minors :
                       (m # actor[a].minor /\ array[m] # None /\ ~obj[array[m]].unver) =>
                         obj[array[m]].bdev # y.bdev
  PROVE  Inv'
<1>0. TypeOK /\ HoldInv /\ ActorsInv /\ StateInv /\ MountedInv /\ ArrayInv
  BY DEF Inv, StateInv
<1>1. PICK o \in Objs :
        /\ obj[o].st = "none" /\ obj' = [obj EXCEPT ![o] = y]
        /\ actor' = [actor EXCEPT ![a].new = o, ![a].old = old, ![a].pc = l]
        /\ UNCHANGED <<array, range, mnts, mutex, lock, walk, unfrozen, loaded>>
  BY DEF Allocate
<1>2. PICK r \in ActorType : r = actor[a]
  BY <1>0 DEF TypeOK
<1>3. PICK x : x = [r EXCEPT !.new = o, !.old = old, !.pc = l]
  OBVIOUS
<1>4. actor' = [actor EXCEPT ![a] = x]
  BY <1>0, <1>1, <1>2, <1>3 DEF TypeOK
<1>5. /\ x \in ActorType /\ x.pc = l /\ x.op = r.op /\ x.minor = r.minor
      /\ x.new = o /\ x.old = old
  <2>1. l \in PCs
    BY DEF PCs
  <2>. QED
    BY <1>2, <1>3, <2>1 DEF ActorType
<1>6. OpOK(r) /\ r.pc = "body" /\ r.op \in IoctlOps /\ r.minor \in Minors /\ r.op # "exit"
  BY <1>0, <1>2 DEF ActorsInv, ActorOK, OpOK
<1>7. Absent(o) /\ old # o /\ o # None
  <2>1. Absent(o)
    BY <1>0, <1>1, DevicesAssumption DEF ArrayInv, Absent
  <2>. QED
    BY <1>2, <1>6, <2>1, DevicesAssumption DEF Absent
<1>8. obj' \in [Objs -> ObjType] /\ obj'[o] = y /\ \A p \in Objs : p # o => obj'[p] = obj[p]
  BY <1>0, <1>1 DEF TypeOK
<1>9. ObjOK(y)
  BY DEF ObjOK
<1>10. ArrayInv' /\ ObjsInv' /\ WalkInv' /\ ThreadsInv' /\ OneTracerPerBdev' /\ FreedOnlyUnfrozen'
  BY <1>0, <1>1, <1>7, <1>9, AbsentChange
<1>11. MountedInv'
  <2>1. /\ actor[a].pc = "undo" => actor[a].new = o
        /\ y.st = "live" /\ y.active /\ ~y.fail =>
             y.place \in mnts[y.bdev] \/ (x.pc = "undo" /\ x.new = o)
        /\ UNCHANGED mnts /\ obj' = [obj EXCEPT ![o] = y]
    BY <1>1
  <2>. QED
    BY <1>0, <1>4, <1>5, <2>1, MountedChange
<1>12. OpOK(x)
  BY <1>2, <1>5, <1>6 DEF OpOK, IoctlOps
<1>13. HandsOK(x)'
  BY <1>1, <1>2, <1>5, <1>7, <1>8 DEF HandsOK, Absent
<1>14. EarlyOK(x)'
  BY <1>5, <1>7, <1>8 DEF EarlyOK
<1>15. TracerOK(x)'
  <2>1. ASSUME ~y.unver, NEW m \in Minors, m # r.minor, array[m] # None, ~obj'[array[m]].unver
        PROVE  obj'[array[m]].bdev # y.bdev
    <3>1. obj'[array[m]] = obj[array[m]]
      BY <1>0, <1>7, <1>8, <2>1 DEF TypeOK, Absent
    <3>. QED
      BY <1>2, <2>1, <3>1
  <2>. QED
    BY <1>1, <1>5, <1>8, <2>1 DEF TracerOK
<1>16. ActorOK(x)'
  <2>1. ExitOK(x)' /\ ProcOK(x)'
    BY <1>5, <1>6 DEF ExitOK, ProcOK
  <2>2. OpOK(x)'
    BY <1>12 DEF OpOK
  <2>. QED
    BY <1>13, <1>14, <1>15, <2>1, <2>2 DEF ActorOK
<1>17. actor[a].pc \in Workers
  BY DEF Workers
<1>18. /\ lock = a /\ mutex = a /\ mutex \in {a, None} /\ actor[a].pc \in LockPCs
  BY <1>2, <1>6, <1>17, WorkerMutex
<1>19. Moves(lock, lock', a) /\ Moves(mutex, mutex', a)
  BY <1>1 DEF Moves
<1>20. Holds(a, x, lock', mutex')
  BY <1>1, <1>5, <1>6, <1>18 DEF Holds, HasMutex, LockPCs, MutexPCs, Workers
<1>21. Fits(range', array')
  <2>1. actor[a].pc \in LockPCs \ {"publish", "recalc"}
    BY <1>18
  <2>2. Fits(range, array)
    BY <1>18, <2>1, ReaderRange
  <2>. QED
    BY <1>1, <2>2
<1>22. /\ array' \in [Minors -> Objs \cup {None}]
       /\ range' \in [lowest : Minors, highest : Minors]
       /\ walk' \in [st : {"off", "on", "done"}, i : 0 .. MaxDevices,
                     d : Objs \cup {None}, met : SUBSET Minors, stay : SUBSET Minors]
       /\ unfrozen' \subseteq Minors
  BY <1>0, <1>1 DEF TypeOK
<1>23. x.pc \notin {"publish", "recalc"} /\ x.op # "exit"
  BY <1>5, <1>6
<1>. QED
  BY <1>1, <1>4, <1>5, <1>8, <1>10, <1>11, <1>16, <1>18, <1>19, <1>20, <1>21, <1>22, <1>23,
     WorkStep

LEMMA NoObjOK == NoObj \in ObjType
BY DevicesAssumption DEF NoObj, ObjType

LEMMA NotTraced ==
  ASSUME TypeOK, ActorsInv, RangeInv, NEW b, SetupBaseDev(b),
         NEW m \in Minors, array[m] # None, ~obj[array[m]].unver
  PROVE  obj[array[m]].bdev # b
<1>1. InRange(m)
  BY RangeCovers DEF InRange
<1>. QED
  BY <1>1 DEF SetupBaseDev, AlreadyTraced

LEMMA SetupActiveKeeps ==
  ASSUME Inv, NEW a \in Actors, SetupActive(a)
  PROVE  Inv'
<1>0. TypeOK /\ ActorsInv /\ RangeInv
  BY DEF Inv, StateInv
<1>. DEFINE r == actor[a]
<1>1. r.pc = "body" /\ r.op = "setup"
  BY DEF SetupActive
<1>2. PICK y : y = [NoObj EXCEPT !.st = "live", !.bdev = r.bdev,
                      !.place = r.place, !.snap = TRUE, !.active = TRUE]
  OBVIOUS
<1>3. CASE Refuse(a)
  BY <1>1, <1>3, RefuseKeeps
<1>4. CASE /\ VerifyAvailable(r.minor) /\ SetupBaseDev(r.bdev)
           /\ FileIsOnBdev(r.place, r.bdev)
           /\ Allocate(a, y, None, "disk")
  <2>1. OpOK(r)
    BY <1>0 DEF ActorsInv, ActorOK
  <2>2. r.bdev \in Bdevs /\ r.place \in Places
    BY <1>1, <2>1 DEF OpOK
  <2>3. y \in ObjType
    BY <1>2, <2>2, NoObjOK DEF ObjType
  <2>4. /\ y.st = "live" /\ y.bdev = r.bdev /\ y.place = r.place /\ y.active /\ ~y.unver
        /\ ~y.fail /\ ~y.disk /\ y.early = 0
    BY <1>2 DEF NoObj
  <2>5. array[r.minor] = None /\ y.place \in mnts[y.bdev]
    BY <1>4, <2>4 DEF VerifyAvailable, FileIsOnBdev
  <2>6. \A m \in Minors : array[m] # None /\ ~obj[array[m]].unver => obj[array[m]].bdev # y.bdev
    BY <1>0, <1>4, <2>4, NotTraced
  <2>. QED
    BY <1>1, <1>4, <2>2, <2>3, <2>4, <2>5, <2>6, AllocateKeeps
<1>. QED
  BY <1>2, <1>3, <1>4 DEF SetupActive

LEMMA SetupUnverifiedKeeps ==
  ASSUME Inv, NEW a \in Actors, SetupUnverified(a)
  PROVE  Inv'
<1>0. TypeOK /\ ActorsInv
  BY DEF Inv
<1>. DEFINE r == actor[a]
<1>1. r.pc = "body" /\ r.op \in {"reload_snap", "reload_inc"}
  BY DEF SetupUnverified
<1>2. PICK y : y = [NoObj EXCEPT !.st = "live", !.bdev = r.bdev, !.place = r.place,
                      !.snap = (r.op = "reload_snap"), !.unver = TRUE]
  OBVIOUS
<1>3. CASE Refuse(a)
  BY <1>1, <1>3, RefuseKeeps
<1>4. CASE VerifyAvailable(r.minor) /\ Allocate(a, y, None, "include")
  <2>1. OpOK(r)
    BY <1>0 DEF ActorsInv, ActorOK
  <2>2. r.bdev \in Bdevs /\ r.place \in Places
    BY <1>1, <2>1 DEF OpOK
  <2>3. y \in ObjType
    BY <1>2, <2>2, NoObjOK DEF ObjType
  <2>4. /\ y.st = "live" /\ y.bdev = r.bdev /\ ~y.active /\ y.unver
        /\ ~y.fail /\ ~y.disk /\ y.early = 0
    BY <1>2 DEF NoObj
  <2>5. array[r.minor] = None
    BY <1>4 DEF VerifyAvailable
  <2>. QED
    BY <1>1, <1>4, <2>2, <2>3, <2>4, <2>5, AllocateKeeps
<1>. QED
  BY <1>2, <1>3, <1>4 DEF SetupUnverified

LEMMA TransitionKeeps ==
  ASSUME Inv, ~Dangling, NEW a \in Actors, Transition(a)
  PROVE  Inv'
<1>0. TypeOK /\ ActorsInv /\ LoadInv /\ HoldInv /\ ArrayInv /\ ObjsInv /\ MountedInv
      /\ OneTracerPerBdev
  BY DEF Inv, StateInv
<1>. DEFINE r == actor[a]
            d == obj[array[r.minor]]
            l == IF r.op = "to_snap" THEN "disk" ELSE "include"
<1>1. r.pc = "body" /\ r.op \in {"to_inc", "to_snap"}
  BY DEF Transition
<1>2. PICK y : y = [NoObj EXCEPT !.st = "live", !.bdev = d.bdev,
                      !.place = IF r.op = "to_inc" THEN d.place ELSE r.place,
                      !.snap = (r.op = "to_snap"), !.active = TRUE]
  OBVIOUS
<1>3. CASE Refuse(a)
  BY <1>1, <1>3, RefuseKeeps
<1>4. CASE /\ VerifyNotBusy(r.minor) /\ ~d.fail /\ d.active
           /\ r.op = "to_snap" => FileIsOnBdev(r.place, d.bdev)
           /\ Allocate(a, y, array[r.minor], l)
  <2>1. OpOK(r)
    BY <1>0 DEF ActorsInv, ActorOK
  <2>2. r.minor \in Minors /\ (r.op = "to_snap" => r.place \in Places)
    BY <1>1, <2>1 DEF OpOK
  <2>3. array[r.minor] # None /\ d.early + d.late = 0
    BY <1>4 DEF VerifyNotBusy
  <2>4. PICK o \in Objs : o = array[r.minor] /\ obj[o].st = "live"
    BY <1>0, <2>2, <2>3, EntryLive
  <2>5. d = obj[o] /\ d \in ObjType
    BY <1>0, <2>4 DEF TypeOK
  <2>6. d.early \in 0 .. MaxOpen /\ d.late \in 0 .. MaxOpen /\ d.place \in Places \cup {None}
    BY <2>5 DEF ObjType
  <2>7. d.early = 0
    BY <2>3, <2>6, DevicesAssumption
  <2>8. d.bdev \in Bdevs /\ ~d.unver /\ d.st = "live"
    BY <1>0, <1>4, <2>4, <2>5 DEF ObjsInv
  <2>9. PICK p : p = IF r.op = "to_inc" THEN d.place ELSE r.place
    OBVIOUS
  <2>10. p \in Places \cup {None} /\ (r.op = "to_snap" => p \in mnts[d.bdev])
    BY <1>1, <1>4, <2>2, <2>6, <2>9, SMTT(30) DEF FileIsOnBdev
  <2>11. y \in ObjType
    BY <1>2, <2>8, <2>9, <2>10, NoObjOK, ZenonT(60) DEF ObjType
  <2>12. /\ y.st = "live" /\ y.bdev = d.bdev /\ y.place = p /\ y.active /\ ~y.unver
         /\ ~y.fail /\ ~y.disk /\ y.early = 0
    BY <1>2, <2>9 DEF NoObj
  <2>13. y.place \in mnts[y.bdev]
    <3>1. CASE r.op = "to_snap"
      BY <2>10, <2>12, <3>1
    <3>2. CASE r.op = "to_inc"
      <4>1. ~ \E b \in Actors : actor[b].pc = "undo" /\ actor[b].new = o
        <5>. SUFFICES ASSUME NEW b \in Actors, actor[b].pc = "undo"
                      PROVE  FALSE
          OBVIOUS
        <5>1. actor[a].pc \in Workers /\ actor[b].pc \in Workers
          BY <1>1 DEF Workers
        <5>2. lock = a /\ lock = b
          BY <5>1, WorkerMutex
        <5>. QED
          BY <1>1, <5>2
      <4>2. d.place \in mnts[d.bdev]
        BY <1>0, <1>4, <2>5, <2>8, <4>1 DEF MountedInv
      <4>. QED
        BY <2>9, <2>12, <3>2, <4>2
    <3>. QED
      BY <1>1, <3>1, <3>2
  <2>14. ASSUME NEW m \in Minors, m # r.minor, array[m] # None, ~obj[array[m]].unver
         PROVE  obj[array[m]].bdev # y.bdev
    <3>1. obj[array[m]].st = "live"
      BY <1>0, <2>14, EntryLive
    <3>. QED
      BY <1>0, <2>2, <2>3, <2>4, <2>8, <2>12, <2>14, <3>1 DEF OneTracerPerBdev
  <2>15. array[r.minor] \in Objs \cup {None} /\ l \in {"disk", "include"}
    BY <2>4
  <2>. HIDE DEF l
  <2>. QED
    BY <1>1, <1>4, <2>3, <2>7, <2>8, <2>11, <2>12, <2>13, <2>14, <2>15, AllocateKeeps
<1>. QED
  BY <1>2, <1>3, <1>4 DEF Transition

\* A task changes the object in its hands, which is not in the array.
LEMMA HandStep ==
  ASSUME Inv, NEW a \in Actors, NEW x \in ActorType, NEW o \in Objs, NEW y \in ObjType,
         actor[a].pc \in {"disk", "include", "undo", "base"}, x.pc \in Workers \ {"recalc"},
         x.op = actor[a].op, actor' = [actor EXCEPT ![a] = x],
         Absent(o), ObjOK(y), obj' = [obj EXCEPT ![o] = y],
         actor[a].pc = "undo" => actor[a].new = o,
         y.st = "live" /\ y.active /\ ~y.fail =>
           y.place \in mnts[y.bdev] \/ (x.pc = "undo" /\ x.new = o),
         UNCHANGED <<array, mnts, mutex, lock, walk, unfrozen, loaded>>,
         range' \in [lowest : Minors, highest : Minors],
         x.pc # "publish" => Fits(range', array'),
         x.pc = "publish" => Fits(range', [array' EXCEPT ![x.minor] = x.new]),
         ActorOK(x)'
  PROVE  Inv'
<1>0. TypeOK /\ StateInv /\ MountedInv /\ ActorsInv
  BY DEF Inv, StateInv
<1>1. obj' \in [Objs -> ObjType]
  BY <1>0 DEF TypeOK
<1>2. ArrayInv' /\ ObjsInv' /\ WalkInv' /\ ThreadsInv' /\ OneTracerPerBdev' /\ FreedOnlyUnfrozen'
  BY <1>0, AbsentChange
<1>3. MountedInv'
  BY <1>0, MountedChange
<1>4. actor[a].pc \in Workers /\ actor[a].op # "exit"
  BY <1>0 DEF Workers, ActorsInv, ActorOK, OpOK
<1>5. lock = a /\ mutex = a /\ mutex \in {a, None} /\ actor[a].pc \in LockPCs
  BY <1>4, WorkerMutex
<1>6. Moves(lock, lock', a) /\ Moves(mutex, mutex', a)
  BY DEF Moves
<1>7. Holds(a, x, lock', mutex')
  BY <1>4, <1>5 DEF Holds, HasMutex, LockPCs, MutexPCs
<1>8. /\ array' \in [Minors -> Objs \cup {None}]
      /\ walk' \in [st : {"off", "on", "done"}, i : 0 .. MaxDevices,
                    d : Objs \cup {None}, met : SUBSET Minors, stay : SUBSET Minors]
      /\ unfrozen' \subseteq Minors
  BY <1>0 DEF TypeOK
<1>9. x.pc # "recalc" /\ x.op # "exit"
  BY <1>4
<1>. QED
  BY <1>1, <1>2, <1>3, <1>5, <1>6, <1>7, <1>8, <1>9, WorkStep

\* What a task with a new object in its hands knows.
LEMMA NewFacts ==
  ASSUME Inv, NEW a \in Actors, actor[a].pc \in {"disk", "include", "publish", "undo"}
  PROVE  /\ actor[a] \in ActorType /\ OpOK(actor[a]) /\ HandsOK(actor[a])
         /\ EarlyOK(actor[a]) /\ TracerOK(actor[a])
         /\ actor[a].new \in Objs /\ obj[actor[a].new] \in ObjType
         /\ actor[a].minor \in Minors /\ Absent(actor[a].new)
         /\ ObjOK(obj[actor[a].new]) /\ obj[actor[a].new].st = "live"
         /\ obj[actor[a].new].early = 0 /\ actor[a].op # "exit"
         /\ obj[actor[a].new].bdev \in Bdevs
         /\ actor[a].old # actor[a].new
         /\ actor[a].old \in Objs \cup {None}
         /\ actor[a].old # None => obj[actor[a].old].early = 0
<1>0. TypeOK /\ ActorsInv /\ ObjsInv
  BY DEF Inv, StateInv
<1>1. PICK r : r = actor[a]
  OBVIOUS
<1>2. r \in ActorType /\ OpOK(r) /\ HandsOK(r) /\ EarlyOK(r) /\ TracerOK(r)
  BY <1>0, <1>1 DEF TypeOK, ActorsInv, ActorOK
<1>3. r.new \in Objs /\ r.minor \in Minors /\ r.op # "exit" /\ r.old \in Objs \cup {None}
  BY <1>1, <1>2 DEF OpOK, ActorType, IoctlOps
<1>4. obj[r.new] \in ObjType /\ ObjOK(obj[r.new])
  BY <1>0, <1>3 DEF TypeOK, ObjsInv, ObjOK
<1>5. Absent(r.new) /\ obj[r.new].st = "live" /\ array[r.minor] = r.old
  BY <1>1, <1>2 DEF HandsOK
<1>6. r.old # r.new /\ r.new # None
  BY <1>3, <1>5, DevicesAssumption DEF Absent
<1>7. obj[r.new].early = 0 /\ (r.old # None => obj[r.old].early = 0)
  BY <1>1, <1>2, <1>3, <1>6 DEF EarlyOK
<1>8. obj[r.new].bdev \in Bdevs
  BY <1>4, <1>5 DEF ObjOK
<1>. QED
  BY <1>1, <1>2, <1>3, <1>4, <1>5, <1>6, <1>7, <1>8

\* A set-up that fails before it has the range.
LEMMA ToUndoKeeps ==
  ASSUME Inv, NEW a \in Actors, actor[a].pc \in {"disk", "include"}, Goto(a, "undo"),
         UNCHANGED <<array, range, obj, mnts, mutex, lock, walk, unfrozen, loaded>>
  PROVE  Inv'
<1>0. TypeOK /\ HoldInv
  BY DEF Inv
<1>1. PICK r : r = actor[a]
  OBVIOUS
<1>2. /\ r.pc \in {"disk", "include"} /\ OpOK(r) /\ HandsOK(r) /\ EarlyOK(r) /\ r.op # "exit"
  BY <1>1, NewFacts
<1>3. PICK x \in ActorType :
        /\ actor' = [actor EXCEPT ![a] = x]
        /\ x.pc = "undo" /\ x.op = r.op /\ x.minor = r.minor /\ x.new = r.new /\ x.old = r.old
  BY <1>0, <1>1, GotoFacts DEF PCs
<1>4. OpOK(x) /\ HandsOK(x) /\ EarlyOK(x)
  BY <1>2, <1>3 DEF OpOK, HandsOK, EarlyOK
<1>5. ActorOK(x)
  BY <1>2, <1>3, <1>4 DEF ActorOK, TracerOK, ExitOK, ProcOK
<1>6. Moves(lock, lock', a) /\ Moves(mutex, mutex', a)
  BY DEF Moves
<1>7. Holds(a, x, lock', mutex')
  BY <1>0, <1>1, <1>2, <1>3 DEF HoldInv, Holds, HasMutex, LockPCs, MutexPCs, Workers
<1>8. actor[a].pc \notin {"idle", "publish", "recalc", "undo"} /\ x.op # "exit"
  BY <1>2, <1>3
<1>. QED
  BY <1>3, <1>5, <1>6, <1>7, <1>8, QuietStep

LEMMA AddDiskKeeps ==
  ASSUME Inv, NEW a \in Actors, AddDisk(a)
  PROVE  Inv'
<1>0. TypeOK /\ MountedInv
  BY DEF Inv, StateInv
<1>1. PICK r : r = actor[a]
  OBVIOUS
<1>2. /\ r.pc = "disk"
      /\ UNCHANGED <<array, range, mnts, mutex, lock, walk, unfrozen, loaded>>
  BY <1>1 DEF AddDisk
<1>3. /\ r \in ActorType /\ OpOK(r) /\ HandsOK(r) /\ TracerOK(r) /\ r.new \in Objs
      /\ obj[r.new] \in ObjType /\ Absent(r.new) /\ ObjOK(obj[r.new]) /\ r.op # "exit"
      /\ obj[r.new].st = "live" /\ obj[r.new].early = 0 /\ r.minor \in Minors
      /\ r.old # r.new /\ (r.old # None => obj[r.old].early = 0)
      /\ r.old \in Objs \cup {None}
  BY <1>1, <1>2, NewFacts
<1>4. CASE Goto(a, "undo") /\ UNCHANGED obj
  BY <1>1, <1>2, <1>4, ToUndoKeeps
<1>5. CASE obj' = [obj EXCEPT ![r.new].disk = TRUE] /\ Goto(a, "include")
  <2>1. PICK o \in Objs : o = r.new
    BY <1>3
  <2>2. PICK y : y = [obj[o] EXCEPT !.disk = TRUE]
    OBVIOUS
  <2>3. obj' = [obj EXCEPT ![o] = y]
    BY <1>0, <1>5, <2>1, <2>2 DEF TypeOK
  <2>4. /\ y \in ObjType /\ y.st = "live" /\ y.bdev = obj[o].bdev /\ y.place = obj[o].place
        /\ y.active = obj[o].active /\ y.unver = obj[o].unver /\ y.fail = obj[o].fail
        /\ y.early = 0
    BY <1>3, <2>1, <2>2 DEF ObjType
  <2>5. obj[o].active /\ ~obj[o].unver
    BY <1>2, <1>3, <2>1 DEF HandsOK, ObjOK
  <2>6. ObjOK(y)
    BY <1>3, <2>1, <2>4, <2>5 DEF ObjOK
  <2>7. PICK x \in ActorType :
          /\ actor' = [actor EXCEPT ![a] = x]
          /\ x.pc = "include" /\ x.op = r.op /\ x.minor = r.minor /\ x.new = r.new
          /\ x.old = r.old
    BY <1>0, <1>1, <1>5, GotoFacts DEF PCs
  <2>8. /\ obj'[o] = y /\ \A p \in Objs : p # o => obj'[p] = obj[p]
    BY <1>0, <2>3, <2>4 DEF TypeOK
  <2>9. y.st = "live" /\ y.active /\ ~y.fail =>
          y.place \in mnts[y.bdev] \/ (x.pc = "undo" /\ x.new = o)
    <3>1. ASSUME NEW b \in Actors, actor[b].pc = "undo" PROVE FALSE
      <4>1. actor[a].pc \in Workers /\ actor[b].pc \in Workers /\ actor[a].pc = "disk"
        BY <1>1, <1>2, <3>1 DEF Workers
      <4>2. lock = a /\ lock = b
        BY <4>1, WorkerMutex
      <4>. QED
        BY <3>1, <4>1, <4>2
    <3>. QED
      BY <1>0, <1>3, <2>1, <2>4, <3>1 DEF MountedInv
  <2>10. OpOK(x)'
    BY <1>2, <1>3, <2>7 DEF OpOK
  <2>11. HandsOK(x)'
    BY <1>2, <1>3, <2>1, <2>4, <2>5, <2>7, <2>8, ZenonT(60) DEF HandsOK, Absent
  <2>12. EarlyOK(x)'
    BY <1>3, <2>1, <2>4, <2>7, <2>8 DEF EarlyOK
  <2>13. TracerOK(x)'
    <3>1. \A m \in Minors : array[m] # None => array[m] \in Objs /\ array[m] # o
      BY <1>0, <1>3, <2>1 DEF TypeOK, Absent
    <3>. QED
      BY <1>2, <1>3, <2>1, <2>4, <2>5, <2>7, <2>8, <3>1 DEF TracerOK
  <2>14. ActorOK(x)'
    BY <1>3, <2>7, <2>10, <2>11, <2>12, <2>13 DEF ActorOK, ExitOK, ProcOK
  <2>15. Fits(range', array') /\ range' \in [lowest : Minors, highest : Minors]
    <3>1. actor[a].pc \in Workers /\ actor[a].pc \notin {"publish", "recalc"}
      BY <1>1, <1>2 DEF Workers
    <3>2. actor[a].pc \in LockPCs \ {"publish", "recalc"} /\ mutex \in {a, None}
      BY <3>1, WorkerMutex
    <3>3. Fits(range, array)
      BY <3>2, ReaderRange
    <3>. QED
      BY <1>0, <1>2, <3>3 DEF TypeOK
  <2>16. /\ actor[a].pc \in {"disk", "include", "undo", "base"} /\ actor[a].pc # "undo"
         /\ x.pc \in Workers \ {"recalc"} /\ x.pc # "publish" /\ x.op = actor[a].op
    BY <1>1, <1>2, <2>7 DEF Workers
  <2>17. Absent(o)
    BY <1>3, <2>1
  <2>. QED
    BY <1>2, <2>3, <2>4, <2>6, <2>7, <2>9, <2>14, <2>15, <2>16, <2>17, HandStep
<1>. QED
  BY <1>1, <1>4, <1>5 DEF AddDisk

\* A device that works does so on a mount that exists, if its task is not about
\* to undo it.
LEMMA WorkerMounted ==
  ASSUME Inv, NEW a \in Actors, actor[a].pc \in Workers, actor[a].pc # "undo",
         NEW o \in Objs, obj[o].st = "live", obj[o].active, ~obj[o].fail
  PROVE  obj[o].place \in mnts[obj[o].bdev]
<1>1. ASSUME NEW b \in Actors, actor[b].pc = "undo" PROVE FALSE
  <2>1. actor[b].pc \in Workers
    BY <1>1 DEF Workers
  <2>2. lock = a /\ lock = b
    BY <2>1, WorkerMutex
  <2>. QED
    BY <1>1, <2>2
<1>. QED
  BY <1>1 DEF Inv, StateInv, MountedInv

LEMMA WorkerFits ==
  ASSUME Inv, NEW a \in Actors, actor[a].pc \in Workers,
         actor[a].pc \notin {"publish", "recalc"}
  PROVE  Fits(range, array)
<1>1. actor[a].pc \in LockPCs \ {"publish", "recalc"} /\ mutex \in {a, None}
  BY WorkerMutex
<1>. QED
  BY <1>1, ReaderRange

LEMMA IncludeKeeps ==
  ASSUME Inv, NEW a \in Actors, Include(a)
  PROVE  Inv'
<1>0. TypeOK /\ MountedInv
  BY DEF Inv, StateInv
<1>1. PICK r : r = actor[a]
  OBVIOUS
<1>2. /\ r.pc = "include"
      /\ UNCHANGED <<array, mnts, mutex, lock, walk, unfrozen, loaded>>
  BY <1>1 DEF Include
<1>3. /\ r \in ActorType /\ OpOK(r) /\ HandsOK(r) /\ TracerOK(r) /\ r.new \in Objs
      /\ obj[r.new] \in ObjType /\ Absent(r.new) /\ ObjOK(obj[r.new]) /\ r.op # "exit"
      /\ obj[r.new].st = "live" /\ obj[r.new].early = 0 /\ r.minor \in Minors
      /\ r.old # r.new /\ (r.old # None => obj[r.old].early = 0)
      /\ r.old \in Objs \cup {None}
  BY <1>1, <1>2, NewFacts
<1>4. CASE Goto(a, "undo") /\ UNCHANGED <<range, obj>>
  BY <1>1, <1>2, <1>4, ToUndoKeeps
<1>5. CASE /\ range' = Included(r.minor) /\ Goto(a, "publish")
           /\ obj' = [obj EXCEPT ![r.new].threads = IF obj[r.new].unver THEN 0 ELSE 1]
  <2>1. PICK o \in Objs : o = r.new
    BY <1>3
  <2>2. PICK y : y = [obj[o] EXCEPT !.threads = IF obj[o].unver THEN 0 ELSE 1]
    OBVIOUS
  <2>3. obj' = [obj EXCEPT ![o] = y]
    BY <1>0, <1>5, <2>1, <2>2 DEF TypeOK
  <2>4. /\ y \in ObjType /\ y.st = "live" /\ y.bdev = obj[o].bdev /\ y.place = obj[o].place
        /\ y.active = obj[o].active /\ y.unver = obj[o].unver /\ y.fail = obj[o].fail
        /\ y.early = 0 /\ y.disk = obj[o].disk
        /\ y.threads = IF obj[o].unver THEN 0 ELSE 1
    BY <1>3, <2>1, <2>2 DEF ObjType
  <2>5. /\ obj[o].active \/ obj[o].unver
        /\ obj[o].unver => ~obj[o].active
    BY <1>2, <1>3, <2>1 DEF HandsOK, ObjOK
  <2>6. ObjOK(y)
    BY <1>3, <2>1, <2>4 DEF ObjOK
  <2>7. PICK x \in ActorType :
          /\ actor' = [actor EXCEPT ![a] = x]
          /\ x.pc = "publish" /\ x.op = r.op /\ x.minor = r.minor /\ x.new = r.new
          /\ x.old = r.old
    BY <1>0, <1>1, <1>5, GotoFacts DEF PCs
  <2>8. /\ obj'[o] = y /\ \A p \in Objs : p # o => obj'[p] = obj[p]
    BY <1>0, <2>3, <2>4 DEF TypeOK
  <2>9. y.st = "live" /\ y.active /\ ~y.fail =>
          y.place \in mnts[y.bdev] \/ (x.pc = "undo" /\ x.new = o)
    <3>1. actor[a].pc \in Workers /\ actor[a].pc # "undo"
      BY <1>1, <1>2 DEF Workers
    <3>. QED
      BY <1>3, <2>1, <2>4, <3>1, WorkerMounted
  <2>10. OpOK(x)'
    BY <1>2, <1>3, <2>7 DEF OpOK
  <2>11. HandsOK(x)'
    BY <1>2, <1>3, <2>1, <2>4, <2>5, <2>7, <2>8 DEF HandsOK, Absent
  <2>12. EarlyOK(x)'
    BY <1>3, <2>1, <2>4, <2>7, <2>8 DEF EarlyOK
  <2>13. TracerOK(x)'
    <3>1. \A m \in Minors : array[m] # None => array[m] \in Objs /\ array[m] # o
      BY <1>0, <1>3, <2>1 DEF TypeOK, Absent
    <3>2. IF y.active THEN y.threads > 0 ELSE y.threads # 1
      BY <2>4, <2>5
    <3>3. ASSUME ~y.unver, NEW m \in Minors, m # r.minor, array[m] # None,
                 ~obj'[array[m]].unver
          PROVE  obj'[array[m]].bdev # y.bdev
      BY <1>2, <1>3, <2>1, <2>4, <2>8, <3>1, <3>3 DEF TracerOK
    <3>. QED
      BY <1>2, <2>1, <2>7, <2>8, <3>2, <3>3 DEF TracerOK
  <2>14. ActorOK(x)'
    BY <1>3, <2>7, <2>10, <2>11, <2>12, <2>13 DEF ActorOK, ExitOK, ProcOK
  <2>15. /\ Fits(range', [array' EXCEPT ![x.minor] = x.new])
         /\ range' \in [lowest : Minors, highest : Minors]
    <3>1. actor[a].pc \in Workers /\ actor[a].pc \notin {"publish", "recalc"}
      BY <1>1, <1>2 DEF Workers
    <3>2. Fits(range, array)
      BY <3>1, WorkerFits
    <3>3. /\ Included(r.minor) \in [lowest : Minors, highest : Minors]
          /\ Fits(Included(r.minor), [array EXCEPT ![r.minor] = r.new])
      BY <1>0, <1>3, <3>2, IncludedFits DEF TypeOK
    <3>. QED
      BY <1>2, <1>5, <2>7, <3>3
  <2>16. /\ actor[a].pc \in {"disk", "include", "undo", "base"} /\ actor[a].pc # "undo"
         /\ x.pc \in Workers \ {"recalc"} /\ x.pc = "publish" /\ x.op = actor[a].op
    BY <1>1, <1>2, <2>7 DEF Workers
  <2>17. Absent(o)
    BY <1>3, <2>1
  <2>. QED
    BY <1>2, <2>3, <2>4, <2>6, <2>7, <2>9, <2>14, <2>15, <2>16, <2>17, HandStep
<1>. QED
  BY <1>1, <1>4, <1>5 DEF Include

LEMMA TornOK ==
  ASSUME NEW o \in Objs, obj[o] \in ObjType, obj[o].early = 0
  PROVE  /\ Torn(o) \in ObjType /\ ObjOK(Torn(o)) /\ Torn(o).st = "freed"
         /\ Torn(o).early = 0 /\ ~Torn(o).active
<1>1. obj[o].early \in 0 .. MaxOpen /\ obj[o].late \in 0 .. MaxOpen
  BY DEF ObjType
<1>2. Torn(o) \in ObjType
  BY <1>1, NoObjOK DEF Torn, ObjType
<1>3. /\ Torn(o).st = "freed" /\ Torn(o).early = 0 /\ Torn(o).bdev = None
      /\ ~Torn(o).disk /\ ~Torn(o).unver /\ ~Torn(o).active
  BY DEF Torn, NoObj
<1>. QED
  BY <1>2, <1>3 DEF ObjOK

LEMMA UndoKeeps ==
  ASSUME Inv, NEW a \in Actors, Undo(a)
  PROVE  Inv'
<1>0. TypeOK
  BY DEF Inv
<1>1. PICK r : r = actor[a]
  OBVIOUS
<1>2. /\ r.pc = "undo" /\ range' = IF r.old = None THEN Recalculated(array) ELSE range
      /\ UNCHANGED <<array, mnts, mutex, lock, walk, unfrozen, loaded>>
  BY <1>1 DEF Undo
<1>3. /\ r \in ActorType /\ OpOK(r) /\ HandsOK(r) /\ r.new \in Objs
      /\ obj[r.new] \in ObjType /\ Absent(r.new) /\ ObjOK(obj[r.new]) /\ r.op # "exit"
      /\ obj[r.new].st = "live" /\ obj[r.new].early = 0 /\ r.minor \in Minors
      /\ r.old # r.new /\ (r.old # None => obj[r.old].early = 0)
      /\ r.old \in Objs \cup {None} /\ obj[r.new].bdev \in Bdevs
  BY <1>1, <1>2, NewFacts
<1>4. PICK o \in Objs : o = r.new
  BY <1>3
<1>5. Absent(o) /\ actor[a].pc = "undo" /\ actor[a].new = o
      /\ actor[a].pc \in {"disk", "include", "undo", "base"}
  BY <1>1, <1>2, <1>3, <1>4
<1>6. Fits(range', array') /\ range' \in [lowest : Minors, highest : Minors]
  <2>1. actor[a].pc \in Workers /\ actor[a].pc \notin {"publish", "recalc"}
    BY <1>1, <1>2 DEF Workers
  <2>2. Fits(range, array)
    BY <2>1, WorkerFits
  <2>3. array \in [Minors -> Objs \cup {None}] /\ range \in [lowest : Minors, highest : Minors]
    BY <1>0 DEF TypeOK
  <2>. QED
    BY <1>2, <2>2, <2>3, RecalculatedFits
<1>7. CASE /\ r.op \in {"mount", "umount"}
           /\ obj' = [obj EXCEPT ![r.new] =
                        [@ EXCEPT !.active = FALSE, !.unver = TRUE,
                                  !.fail = TRUE, !.disk = FALSE, !.threads = 0]]
           /\ Goto(a, "include")
  <2>1. PICK y : y = [obj[o] EXCEPT !.active = FALSE, !.unver = TRUE,
                                    !.fail = TRUE, !.disk = FALSE, !.threads = 0]
    OBVIOUS
  <2>2. obj' = [obj EXCEPT ![o] = y]
    BY <1>0, <1>4, <1>7, <2>1 DEF TypeOK
  <2>3. /\ y \in ObjType /\ y.st = "live" /\ y.bdev = obj[o].bdev /\ ~y.active /\ y.unver
        /\ y.fail /\ y.early = 0 /\ ~y.disk
    <3>1. PICK d \in ObjType : d = obj[o] /\ d.st = "live" /\ d.early = 0
      BY <1>3, <1>4
    <3>2. y = [d EXCEPT !.active = FALSE, !.unver = TRUE, !.fail = TRUE,
                        !.disk = FALSE, !.threads = 0]
      BY <2>1, <3>1
    <3>3. y \in ObjType
      <4>1. PICK n \in 0 .. 2 : n = 0
        OBVIOUS
      <4>2. y = [d EXCEPT !.active = FALSE, !.unver = TRUE, !.fail = TRUE,
                          !.disk = FALSE, !.threads = n]
        BY <3>2, <4>1
      <4>. QED
        BY <3>1, <4>2 DEF ObjType
    <3>4. /\ y.st = d.st /\ y.bdev = d.bdev /\ y.early = d.early /\ y.active = FALSE
          /\ y.unver = TRUE /\ y.fail = TRUE /\ y.disk = FALSE
      BY <3>1, <3>2 DEF ObjType
    <3>. QED
      BY <3>1, <3>3, <3>4
  <2>4. ObjOK(y)
    BY <1>3, <1>4, <2>3 DEF ObjOK
  <2>5. PICK x \in ActorType :
          /\ actor' = [actor EXCEPT ![a] = x]
          /\ x.pc = "include" /\ x.op = r.op /\ x.minor = r.minor /\ x.new = r.new
          /\ x.old = r.old
    BY <1>0, <1>1, <1>7, GotoFacts DEF PCs
  <2>6. /\ obj'[o] = y /\ \A p \in Objs : p # o => obj'[p] = obj[p]
    BY <1>0, <2>2, <2>3 DEF TypeOK
  <2>7. OpOK(x)'
    BY <1>2, <1>3, <2>5 DEF OpOK
  <2>8. HandsOK(x)'
    BY <1>2, <1>3, <1>4, <2>3, <2>5, <2>6 DEF HandsOK, Absent
  <2>9. EarlyOK(x)'
    BY <1>3, <1>4, <2>3, <2>5, <2>6 DEF EarlyOK
  <2>10. TracerOK(x)'
    BY <1>4, <2>3, <2>5, <2>6 DEF TracerOK
  <2>11. ActorOK(x)'
    BY <1>3, <2>5, <2>7, <2>8, <2>9, <2>10 DEF ActorOK, ExitOK, ProcOK
  <2>12. x.pc \in Workers \ {"recalc"} /\ x.pc # "publish" /\ x.op = actor[a].op
    BY <1>1, <2>5 DEF Workers
  <2>. QED
    BY <1>2, <1>5, <1>6, <2>2, <2>3, <2>4, <2>5, <2>11, <2>12, HandStep
<1>8. CASE obj' = [obj EXCEPT ![r.new] = Torn(r.new)] /\ Goto(a, "out")
  <2>1. PICK y : y = Torn(o)
    OBVIOUS
  <2>2. obj' = [obj EXCEPT ![o] = y]
    BY <1>4, <1>8, <2>1
  <2>3. y \in ObjType /\ ObjOK(y) /\ y.st = "freed"
    BY <1>3, <1>4, <2>1, TornOK
  <2>4. PICK x \in ActorType :
          /\ actor' = [actor EXCEPT ![a] = x]
          /\ x.pc = "out" /\ x.op = r.op /\ x.minor = r.minor /\ x.new = r.new
          /\ x.old = r.old
    BY <1>0, <1>1, <1>8, GotoFacts DEF PCs
  <2>5. ActorOK(x)'
    BY <1>3, <2>4 DEF ActorOK, OpOK, HandsOK, EarlyOK, TracerOK, ExitOK, ProcOK
  <2>6. x.pc \in Workers \ {"recalc"} /\ x.pc # "publish" /\ x.op = actor[a].op
    BY <1>1, <2>4 DEF Workers
  <2>. QED
    BY <1>2, <1>5, <1>6, <2>2, <2>3, <2>4, <2>5, <2>6, HandStep
<1>. QED
  BY <1>1, <1>7, <1>8 DEF Undo

-----------------------------------------------------------------------------
(* The steps that put a device into the array and take it out.             *)

LEMMA WalkChange ==
  ASSUME TypeOK, WalkInv, NEW m \in Minors, NEW o \in Objs \cup {None}, SetEntry(m, o)
  PROVE  /\ WalkInv'
         /\ array' \in [Minors -> Objs \cup {None}]
         /\ array'[m] = o /\ \A n \in Minors : n # m => array'[n] = array[n]
         /\ walk' \in [st : {"off", "on", "done"}, i : 0 .. MaxDevices,
                       d : Objs \cup {None}, met : SUBSET Minors, stay : SUBSET Minors]
<1>1. PICK w : w = walk
  OBVIOUS
<1>2. w \in [st : {"off", "on", "done"}, i : 0 .. MaxDevices,
             d : Objs \cup {None}, met : SUBSET Minors, stay : SUBSET Minors]
  BY <1>1 DEF TypeOK
<1>3. walk' = [w EXCEPT !.stay = w.stay \ {m}] /\ array' = [array EXCEPT ![m] = o]
  BY <1>1, <1>2 DEF SetEntry
<1>4. /\ walk'.st = w.st /\ walk'.i = w.i /\ walk'.d = w.d /\ walk'.met = w.met
      /\ walk'.stay = w.stay \ {m} /\ w.stay \subseteq Minors
  BY <1>2, <1>3
<1>5. walk' \in [st : {"off", "on", "done"}, i : 0 .. MaxDevices,
                 d : Objs \cup {None}, met : SUBSET Minors, stay : SUBSET Minors]
  BY <1>2, <1>3
<1>6. /\ array' \in [Minors -> Objs \cup {None}]
      /\ array'[m] = o /\ \A n \in Minors : n # m => array'[n] = array[n]
  BY <1>3 DEF TypeOK
<1>7. WalkInv'
  BY <1>1, <1>4, <1>6 DEF WalkInv
<1>. QED
  BY <1>5, <1>6, <1>7

LEMMA PublishFailKeeps ==
  ASSUME Inv, NEW a \in Actors, actor[a].pc = "publish",
         range' = Recalculated(array), Goto(a, "undo"),
         UNCHANGED <<array, obj, mnts, mutex, lock, walk, unfrozen, loaded>>
  PROVE  Inv'
<1>0. TypeOK /\ StateInv /\ MountedInv
  BY DEF Inv, StateInv
<1>1. PICK r : r = actor[a]
  OBVIOUS
<1>2. r.pc = "publish" /\ OpOK(r) /\ HandsOK(r) /\ EarlyOK(r) /\ r.op # "exit"
  BY <1>1, NewFacts
<1>3. PICK x \in ActorType :
        /\ actor' = [actor EXCEPT ![a] = x]
        /\ x.pc = "undo" /\ x.op = r.op /\ x.minor = r.minor /\ x.new = r.new /\ x.old = r.old
  BY <1>0, <1>1, GotoFacts DEF PCs
<1>4. OpOK(x)' /\ HandsOK(x)' /\ EarlyOK(x)'
  BY <1>2, <1>3 DEF OpOK, HandsOK, EarlyOK, Absent
<1>5. ActorOK(x)'
  BY <1>2, <1>3, <1>4 DEF ActorOK, TracerOK, ExitOK, ProcOK
<1>6. actor[a].pc \in Workers /\ actor[a].op # "exit"
  BY <1>1, <1>2 DEF Workers
<1>7. lock = a /\ mutex = a /\ mutex \in {a, None} /\ actor[a].pc \in LockPCs
  BY <1>6, WorkerMutex
<1>8. Moves(lock, lock', a) /\ Moves(mutex, mutex', a)
  BY DEF Moves
<1>9. Holds(a, x, lock', mutex')
  BY <1>2, <1>3, <1>7 DEF Holds, HasMutex, LockPCs, MutexPCs, Workers
<1>10. Light /\ obj' \in [Objs -> ObjType]
  BY <1>0, UnchangedIsLight
<1>11. ArrayInv' /\ ObjsInv' /\ WalkInv' /\ ThreadsInv' /\ OneTracerPerBdev' /\ FreedOnlyUnfrozen'
  BY <1>0, <1>10, LightState
<1>12. MountedInv'
  BY <1>0, <1>1, <1>2, <1>3, <1>10, LightMounted
<1>13. /\ array' \in [Minors -> Objs \cup {None}]
       /\ walk' \in [st : {"off", "on", "done"}, i : 0 .. MaxDevices,
                     d : Objs \cup {None}, met : SUBSET Minors, stay : SUBSET Minors]
       /\ unfrozen' \subseteq Minors
  BY <1>0 DEF TypeOK
<1>14. range' \in [lowest : Minors, highest : Minors] /\ Fits(range', array')
  <2>1. array \in [Minors -> Objs \cup {None}]
    BY <1>0 DEF TypeOK
  <2>. QED
    BY <2>1, RecalculatedFits
<1>15. x.pc \notin {"publish", "recalc"} /\ x.op # "exit"
  BY <1>2, <1>3
<1>. QED
  BY <1>3, <1>5, <1>7, <1>8, <1>9, <1>10, <1>11, <1>12, <1>13, <1>14, <1>15, WorkStep

LEMMA PublishKeeps ==
  ASSUME Inv, ~Dangling, NEW a \in Actors, Publish(a)
  PROVE  Inv'
<1>0. /\ TypeOK /\ StateInv /\ MountedInv /\ ArrayInv /\ WalkInv /\ RangeInv /\ ThreadsInv
      /\ OneTracerPerBdev /\ FreedOnlyUnfrozen
  BY DEF Inv, StateInv
<1>1. PICK r : r = actor[a]
  OBVIOUS
<1>2. r.pc = "publish" /\ UNCHANGED <<obj, mnts, mutex, lock, unfrozen, loaded>>
  BY <1>1 DEF Publish
<1>3. /\ r \in ActorType /\ OpOK(r) /\ HandsOK(r) /\ EarlyOK(r) /\ TracerOK(r)
      /\ r.new \in Objs /\ Absent(r.new) /\ r.op # "exit"
      /\ obj[r.new].st = "live" /\ r.minor \in Minors
      /\ r.old # r.new /\ r.old \in Objs \cup {None}
  BY <1>1, <1>2, NewFacts
<1>4. CASE range' = Recalculated(array) /\ Goto(a, "undo") /\ UNCHANGED <<array, walk>>
  BY <1>1, <1>2, <1>4, PublishFailKeeps
<1>5. CASE /\ SetEntry(r.minor, r.new) /\ UNCHANGED range
           /\ Goto(a, IF r.old # None THEN "free" ELSE "out")
  <2>1. PICK o \in Objs : o = r.new
    BY <1>3
  <2>2. PICK m \in Minors : m = r.minor
    BY <1>3
  <2>3. /\ WalkInv'
        /\ array' \in [Minors -> Objs \cup {None}]
        /\ array'[m] = o /\ \A n \in Minors : n # m => array'[n] = array[n]
        /\ walk' \in [st : {"off", "on", "done"}, i : 0 .. MaxDevices,
                      d : Objs \cup {None}, met : SUBSET Minors, stay : SUBSET Minors]
    BY <1>0, <1>5, <2>1, <2>2, WalkChange
  <2>4. PICK l \in {"free", "out"} : l = IF r.old # None THEN "free" ELSE "out"
    OBVIOUS
  <2>5. PICK x \in ActorType :
          /\ actor' = [actor EXCEPT ![a] = x]
          /\ x.pc = l /\ x.op = r.op /\ x.minor = m /\ x.new = o /\ x.old = r.old
    <3>1. l \in PCs /\ Goto(a, l)
      BY <1>5, <2>4 DEF PCs
    <3>. QED
      BY <1>0, <1>1, <2>1, <2>2, <3>1, GotoFacts
  <2>6. \A n \in Minors : array[n] # o
    BY <1>3, <2>1 DEF Absent
  <2>7. array[m] = r.old
    BY <1>2, <1>3, <2>2 DEF HandsOK
  <2>8. o # None /\ obj[o].st = "live"
    BY <1>3, <2>1, DevicesAssumption
  <2>9. ArrayInv'
    <3>1. \A n \in Minors : array'[n] # None => obj[array'[n]].st # "none"
      BY <1>0, <2>3, <2>8 DEF ArrayInv
    <3>2. \A n, k \in Minors : array'[n] # None /\ array'[n] = array'[k] => n = k
      BY <1>0, <2>3, <2>6 DEF ArrayInv
    <3>. QED
      BY <1>2, <3>1, <3>2 DEF ArrayInv
  <2>10. FreedOnlyUnfrozen'
    BY <1>0, <1>2, <2>3, <2>8 DEF FreedOnlyUnfrozen
  <2>11. ThreadsInv'
    <3>1. ~obj[o].fail => IF obj[o].active THEN obj[o].threads > 0 ELSE obj[o].threads # 1
      BY <1>2, <1>3, <2>1 DEF TracerOK
    <3>. QED
      BY <1>0, <1>2, <2>3, <3>1 DEF ThreadsInv
  <2>12. OneTracerPerBdev'
    <3>1. ASSUME ~obj[o].unver, NEW n \in Minors, n # m, array[n] # None, ~obj[array[n]].unver
          PROVE  obj[array[n]].bdev # obj[o].bdev
      BY <1>2, <1>3, <2>1, <2>2, <3>1 DEF TracerOK
    <3>2. ASSUME NEW n \in Minors, NEW k \in Minors, n # k, array'[n] # None, array'[k] # None,
                 ~obj[array'[n]].unver, ~obj[array'[k]].unver,
                 obj[array'[n]].st = "live", obj[array'[k]].st = "live"
          PROVE  obj[array'[n]].bdev # obj[array'[k]].bdev
      <4>1. CASE n = m
        BY <2>3, <3>1, <3>2, <4>1
      <4>2. CASE k = m
        BY <2>3, <3>1, <3>2, <4>2
      <4>3. CASE n # m /\ k # m
        BY <1>0, <2>3, <3>2, <4>3 DEF OneTracerPerBdev
      <4>. QED
        BY <4>1, <4>2, <4>3
    <3>. QED
      BY <1>2, <3>2 DEF OneTracerPerBdev
  <2>13. Light /\ obj' \in [Objs -> ObjType]
    BY <1>0, <1>2, UnchangedIsLight
  <2>14. MountedInv'
    BY <1>0, <1>1, <1>2, <2>5, <2>13, LightMounted
  <2>15. ObjsInv'
    BY <1>0, <1>2 DEF StateInv, ObjsInv
  <2>16. OpOK(x)'
    BY <1>2, <1>3, <2>2, <2>4, <2>5, <2>8 DEF OpOK
  <2>17. HandsOK(x)'
    <3>1. ASSUME r.old # None
          PROVE  obj[r.old].st = "live" /\ \A n \in Minors : n # m => array'[n] # r.old
      <4>1. obj[array[m]].st = "live" /\ \A n \in Minors : n # m => array[n] # array[m]
        BY <1>0, <2>7, <3>1, EntryLive
      <4>. QED
        BY <2>3, <2>7, <4>1
    <3>2. r.old # o
      BY <1>3, <2>1
    <3>. QED
      BY <1>2, <2>3, <2>4, <2>5, <2>8, <3>1, <3>2 DEF HandsOK
  <2>18. EarlyOK(x)'
    BY <1>2, <1>3, <2>1, <2>5 DEF EarlyOK
  <2>19. ActorOK(x)'
    BY <1>3, <2>4, <2>5, <2>16, <2>17, <2>18 DEF ActorOK, TracerOK, ExitOK, ProcOK
  <2>20. actor[a].pc \in Workers /\ actor[a].op # "exit"
    BY <1>1, <1>2, <1>3 DEF Workers
  <2>21. lock = a /\ mutex = a /\ mutex \in {a, None} /\ actor[a].pc \in LockPCs
    BY <2>20, WorkerMutex
  <2>22. Moves(lock, lock', a) /\ Moves(mutex, mutex', a)
    BY <1>2 DEF Moves
  <2>23. Holds(a, x, lock', mutex')
    BY <1>2, <1>3, <2>4, <2>5, <2>21 DEF Holds, HasMutex, LockPCs, MutexPCs, Workers
  <2>24. Fits(range', array')
    <3>1. Fits(range, [array EXCEPT ![r.minor] = r.new])
      BY <1>0, <1>1, <1>2 DEF RangeInv
    <3>. QED
      BY <1>5, <3>1 DEF SetEntry
  <2>25. range' \in [lowest : Minors, highest : Minors] /\ unfrozen' \subseteq Minors
    BY <1>0, <1>2, <1>5 DEF TypeOK
  <2>26. x.pc \notin {"publish", "recalc"} /\ x.op # "exit"
    BY <1>3, <2>4, <2>5
  <2>. QED
    BY <1>2, <2>3, <2>5, <2>9, <2>10, <2>11, <2>12, <2>13, <2>14, <2>15, <2>19, <2>21, <2>22,
       <2>23, <2>24, <2>25, <2>26, WorkStep
<1>. QED
  BY <1>1, <1>4, <1>5 DEF Publish

LEMMA UntraceKeeps ==
  ASSUME Inv, NEW a \in Actors, Untrace(a)
  PROVE  Inv'
<1>0. /\ TypeOK /\ StateInv /\ MountedInv /\ ArrayInv /\ WalkInv /\ ThreadsInv
      /\ OneTracerPerBdev /\ FreedOnlyUnfrozen /\ ActorsInv
  BY DEF Inv, StateInv
<1>1. PICK r : r = actor[a]
  OBVIOUS
<1>2. /\ r.pc = "untrace" /\ Goto(a, "recalc")
      /\ UNCHANGED <<range, obj, mnts, mutex, lock, loaded>>
  BY <1>1 DEF Untrace
<1>3. /\ r \in ActorType /\ OpOK(r) /\ HandsOK(r) /\ EarlyOK(r) /\ ExitOK(r)
  BY <1>0, <1>1 DEF TypeOK, ActorsInv, ActorOK
<1>4. /\ r.minor \in Minors /\ r.old \in Objs /\ r.new = None /\ r.pc # "idle"
      /\ r.op \in {"destroy", "mount", "umount", "exit"}
  BY <1>2, <1>3 DEF OpOK
<1>5. PICK m \in Minors : m = r.minor
  BY <1>4
<1>6. /\ array[m] = r.old /\ obj[r.old].st = "live" /\ r.old # None
      /\ \A n \in Minors : n # m => array[n] # r.old
      /\ r.op \in {"mount", "umount"} => obj[r.old].unver
  BY <1>2, <1>3, <1>4, <1>5, DevicesAssumption DEF HandsOK
<1>7. PICK x \in ActorType :
        /\ actor' = [actor EXCEPT ![a] = x]
        /\ x.pc = "recalc" /\ x.op = r.op /\ x.minor = m /\ x.new = r.new /\ x.old = r.old
  BY <1>0, <1>1, <1>2, <1>5, GotoFacts DEF PCs
<1>8. \/ SetEntry(m, None) /\ UNCHANGED unfrozen
      \/ /\ ~obj[r.old].unver /\ unfrozen' = unfrozen \cup {m}
         /\ UNCHANGED <<array, walk>>
  BY <1>1, <1>5 DEF Untrace
<1>9. /\ WalkInv'
      /\ array' \in [Minors -> Objs \cup {None}]
      /\ \A n \in Minors : n # m => array'[n] = array[n]
      /\ array'[m] # None => array'[m] = r.old /\ m \in unfrozen' /\ ~obj[r.old].unver
      /\ walk' \in [st : {"off", "on", "done"}, i : 0 .. MaxDevices,
                    d : Objs \cup {None}, met : SUBSET Minors, stay : SUBSET Minors]
      /\ unfrozen \subseteq unfrozen' /\ unfrozen' \subseteq Minors
  <2>1. unfrozen \subseteq Minors
    BY <1>0 DEF TypeOK
  <2>2. CASE SetEntry(m, None) /\ UNCHANGED unfrozen
    <3>1. /\ WalkInv' /\ array' \in [Minors -> Objs \cup {None}]
          /\ array'[m] = None /\ \A n \in Minors : n # m => array'[n] = array[n]
          /\ walk' \in [st : {"off", "on", "done"}, i : 0 .. MaxDevices,
                        d : Objs \cup {None}, met : SUBSET Minors, stay : SUBSET Minors]
      BY <1>0, <2>2, WalkChange
    <3>. QED
      BY <2>1, <2>2, <3>1
  <2>3. CASE /\ ~obj[r.old].unver /\ unfrozen' = unfrozen \cup {m}
             /\ UNCHANGED <<array, walk>>
    <3>1. WalkInv'
      BY <1>0, <2>3 DEF WalkInv
    <3>. QED
      BY <1>0, <1>6, <2>1, <2>3, <3>1 DEF TypeOK
  <2>. QED
    BY <1>8, <2>2, <2>3
<1>10. \A n \in Minors : array'[n] # None => array'[n] = array[n]
  BY <1>6, <1>9
<1>11. ArrayInv'
  BY <1>0, <1>2, <1>10 DEF ArrayInv
<1>12. FreedOnlyUnfrozen'
  BY <1>0, <1>2, <1>9, <1>10 DEF FreedOnlyUnfrozen
<1>13. ThreadsInv'
  BY <1>0, <1>2, <1>10 DEF ThreadsInv
<1>14. OneTracerPerBdev'
  BY <1>0, <1>2, <1>10 DEF OneTracerPerBdev
<1>15. Light /\ obj' \in [Objs -> ObjType]
  BY <1>0, <1>2, UnchangedIsLight
<1>16. MountedInv'
  BY <1>0, <1>1, <1>2, <1>7, <1>15, LightMounted
<1>17. ObjsInv'
  BY <1>0, <1>2 DEF StateInv, ObjsInv
<1>18. OpOK(x)'
  BY <1>4, <1>5, <1>7 DEF OpOK
<1>19. HandsOK(x)'
  BY <1>2, <1>6, <1>7, <1>9, <1>10 DEF HandsOK
<1>20. EarlyOK(x)'
  BY <1>2, <1>3, <1>7 DEF EarlyOK
<1>21. ExitOK(x)'
  BY <1>2, <1>3, <1>5, <1>7, <1>9, <1>10 DEF ExitOK
<1>22. ActorOK(x)'
  BY <1>7, <1>18, <1>19, <1>20, <1>21 DEF ActorOK, TracerOK, ProcOK
<1>23. actor[a].pc \in Workers
  BY <1>1, <1>2 DEF Workers
<1>24. /\ lock = a /\ mutex \in {a, None} /\ actor[a].pc \in LockPCs
       /\ r.op # "exit" => mutex = a
  BY <1>1, <1>23, WorkerMutex
<1>25. Moves(lock, lock', a) /\ Moves(mutex, mutex', a)
  BY <1>2 DEF Moves
<1>26. Holds(a, x, lock', mutex')
  BY <1>0, <1>1, <1>2, <1>7, <1>24 DEF Inv, HoldInv, Holds, HasMutex, LockPCs, MutexPCs, Workers
<1>27. Fits(range', [array' EXCEPT ![x.minor] = x.old])
  <2>1. actor[a].pc \notin {"publish", "recalc"}
    BY <1>1, <1>2
  <2>2. Fits(range, array)
    BY <1>23, <2>1, WorkerFits
  <2>3. array = [array' EXCEPT ![m] = r.old]
    BY <1>0, <1>6, <1>9 DEF TypeOK
  <2>. QED
    BY <1>2, <1>7, <2>2, <2>3
<1>28. range' \in [lowest : Minors, highest : Minors]
  BY <1>0, <1>2 DEF TypeOK
<1>29. x.pc = "recalc" /\ (x.op = "exit" => actor[a].op = "exit")
  BY <1>1, <1>7
<1>. QED
  BY <1>2, <1>7, <1>9, <1>11, <1>12, <1>13, <1>14, <1>15, <1>16, <1>17, <1>22, <1>24, <1>25,
     <1>26, <1>27, <1>28, <1>29, WorkStep

LEMMA RecalcKeeps ==
  ASSUME Inv, NEW a \in Actors, Recalc(a)
  PROVE  Inv'
<1>0. TypeOK /\ StateInv /\ MountedInv /\ ActorsInv /\ HoldInv
  BY DEF Inv, StateInv
<1>1. PICK r : r = actor[a]
  OBVIOUS
<1>2. PICK l \in {"base", "free"} : l = IF r.op \in {"mount", "umount"} THEN "base" ELSE "free"
  OBVIOUS
<1>3. /\ r.pc = "recalc" /\ range' = Recalculated(array) /\ Goto(a, l)
      /\ UNCHANGED <<array, obj, mnts, mutex, lock, walk, unfrozen, loaded>>
  BY <1>1, <1>2 DEF Recalc
<1>4. OpOK(r) /\ HandsOK(r) /\ EarlyOK(r) /\ ExitOK(r)
  BY <1>0, <1>1 DEF ActorsInv, ActorOK
<1>5. PICK x \in ActorType :
        /\ actor' = [actor EXCEPT ![a] = x]
        /\ x.pc = l /\ x.op = r.op /\ x.minor = r.minor /\ x.new = r.new /\ x.old = r.old
  <2>1. l \in PCs
    BY DEF PCs
  <2>. QED
    BY <1>0, <1>1, <1>3, <2>1, GotoFacts
<1>6. OpOK(x)'
  BY <1>2, <1>3, <1>4, <1>5 DEF OpOK
<1>7. HandsOK(x)'
  <2>1. r.new = None
    BY <1>3, <1>4 DEF OpOK
  <2>. QED
    BY <1>2, <1>3, <1>4, <1>5, <2>1 DEF HandsOK
<1>8. EarlyOK(x)' /\ ExitOK(x)'
  BY <1>2, <1>3, <1>4, <1>5 DEF EarlyOK, ExitOK
<1>9. ActorOK(x)'
  BY <1>5, <1>6, <1>7, <1>8 DEF ActorOK, TracerOK, ProcOK
<1>10. actor[a].pc \in Workers
  BY <1>1, <1>3 DEF Workers
<1>11. lock = a /\ mutex \in {a, None} /\ actor[a].pc \in LockPCs
  BY <1>10, WorkerMutex
<1>12. Moves(lock, lock', a) /\ Moves(mutex, mutex', a)
  BY <1>3 DEF Moves
<1>13. Holds(a, x, lock', mutex')
  BY <1>0, <1>1, <1>3, <1>5 DEF HoldInv, Holds, HasMutex, LockPCs, MutexPCs, Workers
<1>14. Light /\ obj' \in [Objs -> ObjType]
  BY <1>0, <1>3, UnchangedIsLight
<1>15. ArrayInv' /\ ObjsInv' /\ WalkInv' /\ ThreadsInv' /\ OneTracerPerBdev' /\ FreedOnlyUnfrozen'
  BY <1>0, <1>3, <1>14, LightState
<1>16. MountedInv'
  BY <1>0, <1>1, <1>3, <1>5, <1>14, LightMounted
<1>17. /\ array' \in [Minors -> Objs \cup {None}]
       /\ walk' \in [st : {"off", "on", "done"}, i : 0 .. MaxDevices,
                     d : Objs \cup {None}, met : SUBSET Minors, stay : SUBSET Minors]
       /\ unfrozen' \subseteq Minors
  BY <1>0, <1>3 DEF TypeOK
<1>18. range' \in [lowest : Minors, highest : Minors] /\ Fits(range', array')
  <2>1. array \in [Minors -> Objs \cup {None}]
    BY <1>0 DEF TypeOK
  <2>. QED
    BY <1>3, <2>1, RecalculatedFits
<1>19. x.pc \notin {"publish", "recalc"} /\ (x.op = "exit" => actor[a].op = "exit")
  BY <1>1, <1>5
<1>. QED
  BY <1>3, <1>5, <1>9, <1>11, <1>12, <1>13, <1>14, <1>15, <1>16, <1>17, <1>18, <1>19, WorkStep

LEMMA BaseKeeps ==
  ASSUME Inv, NEW a \in Actors, Base(a)
  PROVE  Inv'
<1>0. TypeOK /\ ActorsInv /\ ObjsInv /\ RangeInv
  BY DEF Inv, StateInv
<1>1. PICK r : r = actor[a]
  OBVIOUS
<1>2. /\ r.pc = "base" /\ UNCHANGED <<array, range, mnts, mutex, lock, walk, unfrozen, loaded>>
      /\ obj' = [obj EXCEPT ![r.old].active = TRUE, ![r.old].unver = FALSE]
  BY <1>1 DEF Base
<1>3. r \in ActorType /\ OpOK(r) /\ HandsOK(r)
  BY <1>0, <1>1 DEF TypeOK, ActorsInv, ActorOK
<1>4. r.op \in {"mount", "umount"} /\ r.minor \in Minors /\ r.old \in Objs
  BY <1>2, <1>3 DEF OpOK
<1>5. PICK o \in Objs : o = r.old
  BY <1>4
<1>6. /\ obj[o].st = "live" /\ obj[o].unver /\ array[r.minor] = None
      /\ \A m \in Minors : m # r.minor => array[m] # o
  BY <1>2, <1>3, <1>4, <1>5 DEF HandsOK
<1>7. Absent(o) /\ o # None
  BY <1>6, DevicesAssumption DEF Absent
<1>8. PICK y : y = [obj[o] EXCEPT !.active = TRUE, !.unver = FALSE]
  OBVIOUS
<1>9. obj[o] \in ObjType /\ obj[o].early = 0 /\ obj[o].bdev \in Bdevs
  BY <1>0, <1>6 DEF TypeOK, ObjsInv
<1>10. obj' = [obj EXCEPT ![o] = y]
  BY <1>0, <1>2, <1>5, <1>8 DEF TypeOK
<1>11. /\ y \in ObjType /\ y.st = "live" /\ y.bdev = obj[o].bdev /\ y.place = obj[o].place
       /\ y.active /\ ~y.unver /\ y.early = 0
  BY <1>6, <1>8, <1>9 DEF ObjType
<1>12. ObjOK(y)
  BY <1>9, <1>11 DEF ObjOK
<1>13. /\ obj'[o] = y /\ \A p \in Objs : p # o => obj'[p] = obj[p]
  BY <1>0, <1>10, <1>11, SMTT(30) DEF TypeOK
<1>14. PICK l \in {"disk", "include", "undo"} :
         /\ actor' = [actor EXCEPT ![a].new = o, ![a].old = None, ![a].pc = l]
         /\ l # "undo" => /\ SetupBaseDev(obj[o].bdev)
                          /\ obj[o].place \in mnts[obj[o].bdev]
  <2>1. CASE /\ SetupBaseDev(obj[o].bdev)
             /\ FileIsOnBdev(r.place, obj[o].bdev) /\ r.place = obj[o].place
             /\ actor' = [actor EXCEPT ![a].new = o, ![a].old = None,
                            ![a].pc = IF obj[o].snap THEN "disk" ELSE "include"]
    BY <2>1 DEF FileIsOnBdev
  <2>2. CASE actor' = [actor EXCEPT ![a].new = o, ![a].old = None, ![a].pc = "undo"]
    BY <2>2
  <2>. QED
    BY <1>1, <1>5, <2>1, <2>2 DEF Base
<1>15. PICK x : x = [r EXCEPT !.new = o, !.old = None, !.pc = l]
  OBVIOUS
<1>16. actor' = [actor EXCEPT ![a] = x]
  BY <1>0, <1>1, <1>14, <1>15 DEF TypeOK
<1>17. /\ x \in ActorType /\ x.pc = l /\ x.op = r.op /\ x.minor = r.minor
       /\ x.new = o /\ x.old = None
  <2>1. l \in PCs
    BY DEF PCs
  <2>. QED
    BY <1>3, <1>15, <2>1 DEF ActorType
<1>18. OpOK(x)'
  BY <1>4, <1>17 DEF OpOK
<1>19. HandsOK(x)'
  BY <1>2, <1>6, <1>7, <1>11, <1>13, <1>17 DEF HandsOK, Absent
<1>20. EarlyOK(x)'
  BY <1>11, <1>13, <1>17 DEF EarlyOK
<1>21. TracerOK(x)'
  <2>1. ASSUME l # "undo", NEW m \in Minors, m # r.minor, array[m] # None, ~obj'[array[m]].unver
        PROVE  obj'[array[m]].bdev # y.bdev
    <3>1. obj'[array[m]] = obj[array[m]]
      BY <1>0, <1>6, <1>13, <2>1 DEF TypeOK
    <3>2. obj[array[m]].bdev # obj[o].bdev
      BY <1>0, <1>14, <2>1, <3>1, NotTraced
    <3>. QED
      BY <1>11, <3>1, <3>2
  <2>. QED
    BY <1>2, <1>13, <1>17, <2>1 DEF TracerOK
<1>22. ActorOK(x)'
  BY <1>4, <1>17, <1>18, <1>19, <1>20, <1>21 DEF ActorOK, ExitOK, ProcOK
<1>23. Fits(range', array') /\ range' \in [lowest : Minors, highest : Minors]
  <2>1. actor[a].pc \in Workers /\ actor[a].pc \notin {"publish", "recalc"}
    BY <1>1, <1>2 DEF Workers
  <2>2. Fits(range, array)
    BY <2>1, WorkerFits
  <2>. QED
    BY <1>0, <1>2, <2>2 DEF TypeOK
<1>24. /\ actor[a].pc \in {"disk", "include", "undo", "base"} /\ actor[a].pc # "undo"
       /\ x.pc \in Workers \ {"recalc"} /\ x.pc # "publish" /\ x.op = actor[a].op
  BY <1>1, <1>2, <1>17 DEF Workers
<1>25. y.st = "live" /\ y.active /\ ~y.fail =>
         y.place \in mnts[y.bdev] \/ (x.pc = "undo" /\ x.new = o)
  BY <1>11, <1>14, <1>17
<1>. QED
  BY <1>2, <1>7, <1>10, <1>11, <1>12, <1>16, <1>17, <1>22, <1>23, <1>24, <1>25, HandStep

\* A device is torn down; the others may fail.
LEMMA TornState ==
  ASSUME TypeOK, StateInv, NEW o \in Objs, obj' \in [Objs -> ObjType],
         obj'[o].st = "freed", ObjOK(obj'[o]),
         \A p \in Objs : p # o => LightObj(obj[p], obj'[p]) /\ obj'[p].early = obj[p].early,
         \A m \in Minors : array[m] = o => m \in unfrozen,
         UNCHANGED <<array, unfrozen, walk, loaded>>
  PROVE  /\ ArrayInv' /\ ObjsInv' /\ WalkInv' /\ ThreadsInv'
         /\ OneTracerPerBdev' /\ FreedOnlyUnfrozen'
<1>0. /\ ArrayInv /\ ObjsInv /\ WalkInv /\ ThreadsInv /\ OneTracerPerBdev /\ FreedOnlyUnfrozen
  BY DEF StateInv
<1>1. \A m \in Minors : array[m] # None => array[m] \in Objs
  BY DEF TypeOK
<1>2. ArrayInv'
  BY <1>0, <1>1 DEF ArrayInv, LightObj
<1>3. ObjsInv'
  <2>. SUFFICES ASSUME NEW p \in Objs PROVE ObjOK(obj'[p])
    BY DEF ObjsInv, ObjOK
  <2>1. CASE p = o
    BY <2>1
  <2>2. CASE p # o
    BY <1>0, <2>2 DEF ObjsInv, ObjOK, LightObj
  <2>. QED
    BY <2>1, <2>2
<1>4. WalkInv'
  BY <1>0 DEF WalkInv
<1>5. ThreadsInv'
  BY <1>0, <1>1 DEF ThreadsInv, LightObj
<1>6. OneTracerPerBdev'
  BY <1>0, <1>1 DEF OneTracerPerBdev, LightObj
<1>7. FreedOnlyUnfrozen'
  BY <1>0, <1>1 DEF FreedOnlyUnfrozen, LightObj
<1>. QED
  BY <1>2, <1>3, <1>4, <1>5, <1>6, <1>7

\* What a task that is about to free a device knows.
LEMMA FreeFacts ==
  ASSUME Inv, NEW a \in Actors, actor[a].pc = "free"
  PROVE  /\ actor[a].minor \in Minors /\ actor[a].old \in Objs
         /\ obj[actor[a].old] \in ObjType /\ obj[actor[a].old].st = "live"
         /\ actor[a].op \in {"destroy", "to_inc", "to_snap", "exit"}
         /\ actor[a].op \in {"to_inc", "to_snap"} <=> actor[a].new # None
         /\ actor[a].new \in Objs \cup {None} /\ actor[a].new # actor[a].old
         /\ actor[a].op # "exit" => obj[actor[a].old].early = 0
         /\ \A m \in Minors : array[m] = actor[a].old => m = actor[a].minor /\ m \in unfrozen
<1>0. TypeOK /\ ActorsInv
  BY DEF Inv
<1>1. PICK r : r = actor[a]
  OBVIOUS
<1>2. r.pc = "free" /\ r \in ActorType /\ OpOK(r) /\ HandsOK(r) /\ EarlyOK(r)
  BY <1>0, <1>1 DEF TypeOK, ActorsInv, ActorOK
<1>3. /\ r.minor \in Minors /\ r.old \in Objs /\ r.new \in Objs \cup {None}
      /\ r.op \in {"destroy", "to_inc", "to_snap", "exit"}
      /\ r.op \in {"to_inc", "to_snap"} <=> r.new # None
  BY <1>2 DEF OpOK, ActorType
<1>4. r.old # None
  BY <1>3, DevicesAssumption
<1>5. /\ obj[r.old].st = "live" /\ r.new # r.old
      /\ \A m \in Minors : array[m] = r.old => m = r.minor /\ m \in unfrozen
  BY <1>2, <1>3, <1>4 DEF HandsOK
<1>6. r.op # "exit" => obj[r.old].early = 0
  BY <1>2, <1>4 DEF EarlyOK
<1>7. obj[r.old] \in ObjType
  BY <1>0, <1>3 DEF TypeOK
<1>. QED
  BY <1>1, <1>3, <1>5, <1>6, <1>7

LEMMA FreeKeeps ==
  ASSUME Inv, NEW a \in Actors, actor[a].pc = "free", actor[a].op # "exit",
         NEW o \in Objs, o = actor[a].old, obj' \in [Objs -> ObjType],
         obj'[o] = Torn(o),
         \A p \in Objs : p # o => LightObj(obj[p], obj'[p]) /\ obj'[p].early = obj[p].early,
         Goto(a, "out"), UNCHANGED <<array, range, mnts, mutex, lock, walk, unfrozen, loaded>>
  PROVE  Inv'
<1>0. TypeOK /\ StateInv /\ MountedInv
  BY DEF Inv, StateInv
<1>1. obj[o].early = 0 /\ obj[o] \in ObjType /\ \A m \in Minors : array[m] = o => m \in unfrozen
  BY FreeFacts
<1>2. obj'[o].st = "freed" /\ ObjOK(obj'[o])
  BY <1>1, TornOK
<1>3. ArrayInv' /\ ObjsInv' /\ WalkInv' /\ ThreadsInv' /\ OneTracerPerBdev' /\ FreedOnlyUnfrozen'
  BY <1>0, <1>1, <1>2, TornState
<1>4. PICK x \in ActorType :
        actor' = [actor EXCEPT ![a] = x] /\ x.pc = "out" /\ x.op = actor[a].op
  <2>1. "out" \in PCs
    BY DEF PCs
  <2>. QED
    BY <1>0, <2>1, GotoFacts
<1>5. MountedInv'
  <2>. SUFFICES ASSUME NEW p \in Objs, obj'[p].st = "live", obj'[p].active, ~obj'[p].fail
                PROVE  obj'[p].place \in mnts[obj'[p].bdev]
    BY DEF MountedInv
  <2>1. p # o
    BY <1>2
  <2>2. LightObj(obj[p], obj'[p]) /\ obj[p] \in ObjType /\ obj'[p] \in ObjType
    BY <1>0, <2>1 DEF TypeOK
  <2>3. obj[p].st = "live" /\ obj[p].active /\ ~obj[p].fail
    BY <2>2 DEF LightObj
  <2>4. actor[a].pc \in Workers /\ actor[a].pc # "undo"
    BY DEF Workers
  <2>5. obj[p].place \in mnts[obj[p].bdev]
    BY <2>3, <2>4, WorkerMounted
  <2>. QED
    BY <2>2, <2>5 DEF LightObj
<1>6. ActorOK(x)'
  BY <1>4 DEF ActorOK, OpOK, HandsOK, EarlyOK, TracerOK, ExitOK, ProcOK
<1>7. actor[a].pc \in Workers /\ actor[a].pc \notin {"publish", "recalc"}
  BY DEF Workers
<1>8. lock = a /\ mutex = a /\ mutex \in {a, None} /\ actor[a].pc \in LockPCs
  BY <1>7, WorkerMutex
<1>9. Moves(lock, lock', a) /\ Moves(mutex, mutex', a)
  BY DEF Moves
<1>10. Holds(a, x, lock', mutex')
  BY <1>4, <1>8 DEF Holds, HasMutex, LockPCs, MutexPCs, Workers
<1>11. Fits(range', array')
  BY <1>7, WorkerFits
<1>12. /\ array' \in [Minors -> Objs \cup {None}]
       /\ range' \in [lowest : Minors, highest : Minors]
       /\ walk' \in [st : {"off", "on", "done"}, i : 0 .. MaxDevices,
                     d : Objs \cup {None}, met : SUBSET Minors, stay : SUBSET Minors]
       /\ unfrozen' \subseteq Minors
  BY <1>0 DEF TypeOK
<1>13. x.pc \notin {"publish", "recalc"} /\ x.op # "exit"
  BY <1>4
<1>. QED
  BY <1>3, <1>4, <1>5, <1>6, <1>8, <1>9, <1>10, <1>11, <1>12, <1>13, WorkStep

\* A device changes where it is, and stays what it traces.
LEMMA PlaceChange ==
  ASSUME TypeOK, StateInv, NEW o \in Objs, NEW y \in ObjType, ObjOK(y),
         obj' = [obj EXCEPT ![o] = y], UNCHANGED <<array, unfrozen, walk, loaded>>,
         y.st = obj[o].st, y.bdev = obj[o].bdev, y.unver = obj[o].unver,
         loaded /\ ~y.fail => IF y.active THEN y.threads > 0 ELSE y.threads # 1
  PROVE  /\ ArrayInv' /\ ObjsInv' /\ WalkInv' /\ ThreadsInv'
         /\ OneTracerPerBdev' /\ FreedOnlyUnfrozen' /\ obj' \in [Objs -> ObjType]
<1>0. /\ ArrayInv /\ ObjsInv /\ WalkInv /\ ThreadsInv /\ OneTracerPerBdev /\ FreedOnlyUnfrozen
  BY DEF StateInv
<1>1. \A m \in Minors : array[m] # None => array[m] \in Objs
  BY DEF TypeOK
<1>2. /\ obj' \in [Objs -> ObjType] /\ obj'[o] = y
      /\ \A p \in Objs : p # o => obj'[p] = obj[p]
  BY DEF TypeOK
<1>3. \A p \in Objs : /\ obj'[p].st = obj[p].st /\ obj'[p].bdev = obj[p].bdev
                      /\ obj'[p].unver = obj[p].unver
  BY <1>2
<1>4. ArrayInv' /\ FreedOnlyUnfrozen' /\ WalkInv'
  BY <1>0, <1>1, <1>3 DEF ArrayInv, FreedOnlyUnfrozen, WalkInv
<1>5. ObjsInv'
  BY <1>0, <1>2 DEF ObjsInv, ObjOK
<1>6. OneTracerPerBdev'
  BY <1>0, <1>1, <1>3 DEF OneTracerPerBdev
<1>7. ThreadsInv'
  BY <1>0, <1>1, <1>2 DEF ThreadsInv
<1>. QED
  BY <1>2, <1>4, <1>5, <1>6, <1>7

LEMMA FreeExitKeeps ==
  ASSUME Inv, NEW a \in Actors, actor[a].pc = "free", actor[a].op = "exit",
         NEW o \in Objs, o = actor[a].old,
         NEW y, y = [obj[o] EXCEPT !.disk = FALSE, !.threads = 0],
         obj' = [obj EXCEPT ![o] = y],
         Goto(a, "next"), UNCHANGED <<array, range, mnts, mutex, lock, walk, unfrozen, loaded>>
  PROVE  Inv'
<1>0. TypeOK /\ StateInv /\ MountedInv /\ ObjsInv /\ HoldInv /\ LoadInv /\ ActorsInv
  BY DEF Inv, StateInv
<1>1. PICK r : r = actor[a]
  OBVIOUS
<1>2. /\ r.minor \in Minors /\ obj[o] \in ObjType /\ obj[o].st = "live" /\ r.new = None
      /\ \A m \in Minors : array[m] = o => m = r.minor /\ m \in unfrozen
  BY <1>1, FreeFacts
<1>3. PICK n \in 0 .. 2 : n = 0
  OBVIOUS
<1>4. y = [obj[o] EXCEPT !.disk = FALSE, !.threads = n]
  BY <1>3
<1>5. y \in ObjType
  BY <1>2, <1>4 DEF ObjType
<1>6. /\ y.st = obj[o].st /\ y.bdev = obj[o].bdev /\ y.unver = obj[o].unver
      /\ y.active = obj[o].active /\ y.fail = obj[o].fail /\ y.place = obj[o].place
      /\ y.early = obj[o].early /\ y.disk = FALSE
  BY <1>2, <1>4 DEF ObjType
<1>7. ObjOK(y)
  BY <1>0, <1>6 DEF ObjsInv, ObjOK
<1>8. ~loaded
  BY <1>0 DEF LoadInv
<1>9. /\ ArrayInv' /\ ObjsInv' /\ WalkInv' /\ ThreadsInv'
      /\ OneTracerPerBdev' /\ FreedOnlyUnfrozen' /\ obj' \in [Objs -> ObjType]
  BY <1>0, <1>5, <1>6, <1>7, <1>8, PlaceChange
<1>10. PICK x \in ActorType :
         /\ actor' = [actor EXCEPT ![a] = x]
         /\ x.pc = "next" /\ x.op = r.op /\ x.minor = r.minor /\ x.new = r.new /\ x.old = r.old
  <2>1. "next" \in PCs
    BY DEF PCs
  <2>. QED
    BY <1>0, <1>1, <2>1, GotoFacts
<1>11. actor[a].pc \in Workers /\ actor[a].pc \notin {"publish", "recalc", "undo"}
  BY DEF Workers
<1>12. MountedInv'
  <2>1. y.st = "live" /\ y.active /\ ~y.fail =>
          y.place \in mnts[y.bdev] \/ (x.pc = "undo" /\ x.new = o)
    BY <1>6, <1>11, WorkerMounted
  <2>2. actor[a].pc = "undo" => actor[a].new = o
    OBVIOUS
  <2>. QED
    BY <1>0, <1>5, <1>10, <2>1, <2>2, MountedChange
<1>13. ExitOK(r) /\ r.op = "exit"
  BY <1>0, <1>1 DEF ActorsInv, ActorOK
<1>14. ExitOK(x)'
  BY <1>1, <1>2, <1>10, <1>13 DEF ExitOK
<1>15. ActorOK(x)'
  BY <1>2, <1>10, <1>13, <1>14 DEF ActorOK, OpOK, HandsOK, EarlyOK, TracerOK, ProcOK
<1>16. lock = a /\ mutex \in {a, None} /\ actor[a].pc \in LockPCs
  BY <1>11, WorkerMutex
<1>17. Moves(lock, lock', a) /\ Moves(mutex, mutex', a)
  BY DEF Moves
<1>18. Holds(a, x, lock', mutex')
  BY <1>0, <1>10, <1>13, <1>16 DEF HoldInv, Holds, HasMutex, LockPCs, MutexPCs, Workers
<1>19. Fits(range', array')
  BY <1>11, WorkerFits
<1>20. /\ array' \in [Minors -> Objs \cup {None}]
       /\ range' \in [lowest : Minors, highest : Minors]
       /\ walk' \in [st : {"off", "on", "done"}, i : 0 .. MaxDevices,
                     d : Objs \cup {None}, met : SUBSET Minors, stay : SUBSET Minors]
       /\ unfrozen' \subseteq Minors
  BY <1>0 DEF TypeOK
<1>21. x.pc \notin {"publish", "recalc"}
  BY <1>10
<1>. QED
  BY <1>9, <1>10, <1>12, <1>15, <1>16, <1>17, <1>18, <1>19, <1>20, <1>21, WorkStep

LEMMA FreeOldKeeps ==
  ASSUME Inv, NEW a \in Actors, FreeOld(a)
  PROVE  Inv'
<1>0. TypeOK
  BY DEF Inv
<1>1. PICK r : r = actor[a]
  OBVIOUS
<1>2. /\ r.pc = "free" /\ Goto(a, IF r.op = "exit" THEN "next" ELSE "out")
      /\ UNCHANGED <<array, range, mnts, mutex, lock, walk, unfrozen, loaded>>
  BY <1>1 DEF FreeOld
<1>3. /\ r.old \in Objs /\ obj[r.old] \in ObjType /\ r.new # r.old
      /\ r.op \in {"to_inc", "to_snap"} => r.new \in Objs
      /\ r.op # "exit" => obj[r.old].early = 0
  BY <1>1, <1>2, FreeFacts
<1>4. PICK o \in Objs : o = r.old
  BY <1>3
<1>5. obj \in [Objs -> ObjType]
  BY <1>0 DEF TypeOK
<1>6. CASE r.op = "exit"
  <2>1. PICK y : y = [obj[o] EXCEPT !.disk = FALSE, !.threads = 0]
    OBVIOUS
  <2>2. obj' = [obj EXCEPT ![o] = y]
    <3>1. obj' = [obj EXCEPT ![r.old] =
                    IF r.op = "exit" THEN [@ EXCEPT !.disk = FALSE, !.threads = 0]
                    ELSE Torn(r.old)]
      BY <1>1, <1>6 DEF FreeOld
    <3>. QED
      BY <1>4, <1>5, <1>6, <2>1, <3>1
  <2>3. actor[a].pc = "free" /\ actor[a].op = "exit" /\ o = actor[a].old /\ Goto(a, "next")
    BY <1>1, <1>2, <1>4, <1>6
  <2>. QED
    BY <1>2, <2>1, <2>2, <2>3, FreeExitKeeps
<1>7. CASE r.op # "exit"
  <2>1. actor[a].pc = "free" /\ actor[a].op # "exit" /\ o = actor[a].old /\ Goto(a, "out")
    BY <1>1, <1>2, <1>4, <1>7
  <2>2. Torn(o) \in ObjType
    BY <1>3, <1>4, <1>7, TornOK
  <2>3. CASE obj' = [obj EXCEPT ![r.old] =
                       IF r.op = "exit" THEN [@ EXCEPT !.disk = FALSE, !.threads = 0]
                       ELSE Torn(r.old)]
    <3>1. obj' = [obj EXCEPT ![o] = Torn(o)]
      BY <1>4, <1>7, <2>3
    <3>2. /\ obj' \in [Objs -> ObjType] /\ obj'[o] = Torn(o)
          /\ \A p \in Objs : p # o => obj'[p] = obj[p]
      BY <1>5, <2>2, <3>1
    <3>3. \A p \in Objs : p # o => LightObj(obj[p], obj'[p]) /\ obj'[p].early = obj[p].early
      BY <3>2 DEF LightObj
    <3>. QED
      BY <1>2, <2>1, <3>2, <3>3, FreeKeeps
  <2>4. CASE r.op = "to_inc" /\ obj' = [obj EXCEPT ![r.old] = Torn(r.old), ![r.new].fail = TRUE]
    <3>1. PICK n \in Objs : n = r.new
      BY <1>3, <2>4
    <3>2. n # o
      BY <1>3, <1>4, <3>1
    <3>3. PICK y : y = [obj[n] EXCEPT !.fail = TRUE]
      OBVIOUS
    <3>4. obj[n] \in ObjType
      BY <1>5
    <3>5. /\ y \in ObjType /\ LightObj(obj[n], y) /\ y.early = obj[n].early
      BY <3>3, <3>4 DEF ObjType, LightObj
    <3>6. obj' = [obj EXCEPT ![o] = Torn(o), ![n].fail = TRUE]
      BY <1>4, <2>4, <3>1
    <3>7. PICK f : f = [obj EXCEPT ![o] = Torn(o)]
      OBVIOUS
    <3>8. f \in [Objs -> ObjType] /\ f[o] = Torn(o) /\ \A p \in Objs : p # o => f[p] = obj[p]
      BY <1>5, <2>2, <3>7
    <3>9. obj' = [f EXCEPT ![n].fail = TRUE]
      BY <3>6, <3>7
    <3>10. obj' = [f EXCEPT ![n] = y]
      BY <3>2, <3>3, <3>8, <3>9
    <3>11. /\ obj' \in [Objs -> ObjType] /\ obj'[o] = Torn(o) /\ obj'[n] = y
           /\ \A p \in Objs : p # o /\ p # n => obj'[p] = obj[p]
      BY <3>2, <3>5, <3>8, <3>10
    <3>12. \A p \in Objs : p # o => LightObj(obj[p], obj'[p]) /\ obj'[p].early = obj[p].early
      BY <3>5, <3>11 DEF LightObj
    <3>. QED
      BY <1>2, <2>1, <3>11, <3>12, FreeKeeps
  <2>. QED
    BY <1>1, <2>3, <2>4 DEF FreeOld
<1>. QED
  BY <1>6, <1>7

-----------------------------------------------------------------------------
(* The steps of a hook that has both mutexes for a moment.                 *)

LEMMA HookFacts ==
  ASSUME Inv, ~Dangling, NEW a \in Actors,
         actor[a].pc \in {"premutex", "mountmutex", "postmutex"}
  PROVE  /\ actor[a] \in ActorType /\ lock = a /\ mutex # a
         /\ actor[a].minor \in Minors /\ actor[a].op \in {"mount", "umount"}
         /\ actor[a].new = None
         /\ array[actor[a].minor] \in Objs /\ obj[array[actor[a].minor]].st = "live"
         /\ obj[array[actor[a].minor]] \in ObjType /\ ObjOK(obj[array[actor[a].minor]])
         /\ \A n \in Minors : n # actor[a].minor => array[n] # array[actor[a].minor]
<1>0. TypeOK /\ HoldInv /\ ActorsInv /\ ArrayInv /\ ObjsInv
  BY DEF Inv, StateInv
<1>1. PICK r : r = actor[a]
  OBVIOUS
<1>2. r \in ActorType /\ OpOK(r) /\ HandsOK(r) /\ Holds(a, r, lock, mutex)
  BY <1>0, <1>1 DEF TypeOK, ActorsInv, ActorOK, HoldInv
<1>3. /\ r.minor \in Minors /\ r.op \in {"mount", "umount"} /\ r.new = None
      /\ array[r.minor] # None
  BY <1>1, <1>2 DEF OpOK, HandsOK
<1>4. lock = a /\ mutex # a
  BY <1>1, <1>2 DEF Holds, HasMutex, LockPCs, MutexPCs, Workers
<1>5. PICK o : o = array[r.minor]
  OBVIOUS
<1>6. o \in Objs /\ obj[o].st = "live" /\ \A n \in Minors : n # r.minor => array[n] # o
  BY <1>0, <1>3, <1>5, EntryLive
<1>7. obj[o] \in ObjType /\ ObjOK(obj[o])
  BY <1>0, <1>6 DEF TypeOK, ObjsInv, ObjOK
<1>. QED
  BY <1>1, <1>2, <1>3, <1>4, <1>5, <1>6, <1>7

LEMMA HookChange ==
  ASSUME Inv, NEW a \in Actors, actor[a].pc \in {"premutex", "mountmutex", "postmutex"},
         mutex = None, NEW o \in Objs, NEW y \in ObjType, ObjOK(y),
         obj' = [obj EXCEPT ![o] = y],
         y.st = obj[o].st, y.bdev = obj[o].bdev, y.unver = obj[o].unver,
         ~y.fail => IF y.active THEN y.threads > 0 ELSE y.threads # 1,
         y.active /\ ~y.fail => y.place \in mnts[y.bdev],
         NEW x \in ActorType, actor' = [actor EXCEPT ![a] = x],
         x.pc \in {"call", "idle"}, x.op # "exit", OpOK(x),
         lock' = None, UNCHANGED <<array, range, mnts, mutex, walk, unfrozen, loaded>>
  PROVE  Inv'
<1>0. TypeOK /\ StateInv /\ MountedInv /\ HoldInv
  BY DEF Inv, StateInv
<1>1. actor[a].pc \in LockPCs /\ actor[a].pc \in LockPCs \ {"publish", "recalc"}
  BY DEF LockPCs
<1>2. lock = a
  BY <1>0, <1>1 DEF HoldInv, Holds
<1>3. /\ ArrayInv' /\ ObjsInv' /\ WalkInv' /\ ThreadsInv'
      /\ OneTracerPerBdev' /\ FreedOnlyUnfrozen' /\ obj' \in [Objs -> ObjType]
  BY <1>0, PlaceChange
<1>4. MountedInv'
  <2>1. actor[a].pc = "undo" => actor[a].new = o
    OBVIOUS
  <2>. QED
    BY <1>0, <2>1, MountedChange
<1>5. ActorOK(x)'
  <2>1. x.pc \in AwayPCs
    BY DEF AwayPCs
  <2>. QED
    BY <2>1, ActorAway
<1>6. Moves(lock, lock', a) /\ Moves(mutex, mutex', a)
  BY <1>2 DEF Moves
<1>7. Holds(a, x, lock', mutex')
  BY DevicesAssumption DEF Holds, HasMutex, LockPCs, MutexPCs, Workers
<1>8. Fits(range', array')
  <2>1. Fits(range, array)
    BY <1>1, ReaderRange
  <2>. QED
    BY <2>1
<1>9. /\ array' \in [Minors -> Objs \cup {None}]
      /\ range' \in [lowest : Minors, highest : Minors]
      /\ walk' \in [st : {"off", "on", "done"}, i : 0 .. MaxDevices,
                    d : Objs \cup {None}, met : SUBSET Minors, stay : SUBSET Minors]
      /\ unfrozen' \subseteq Minors
  BY <1>0 DEF TypeOK
<1>10. x.pc \notin {"publish", "recalc"} /\ mutex \in {a, None}
  OBVIOUS
<1>. QED
  BY <1>1, <1>3, <1>4, <1>5, <1>6, <1>7, <1>8, <1>9, <1>10, WorkStep

LEMMA ThreadFacts ==
  ASSUME NEW t \in 0 .. 2
  PROVE  /\ ThreadStopped(t) \in 0 .. 2 /\ ThreadStopped(t) # 1
         /\ ThreadStarted(t) \in 0 .. 2 /\ ThreadStarted(t) > 0
BY DEF ThreadStopped, ThreadStarted

LEMMA PreDormantKeeps ==
  ASSUME Inv, ~Dangling, NEW a \in Actors, PreDormant(a)
  PROVE  Inv'
<1>0. TypeOK /\ ActorsInv
  BY DEF Inv
<1>1. PICK r : r = actor[a]
  OBVIOUS
<1>2. /\ r.pc = "premutex" /\ mutex = None /\ lock' = None /\ Goto(a, "call")
      /\ UNCHANGED <<array, range, mnts, mutex, walk, unfrozen, loaded>>
  BY <1>1 DEF PreDormant
<1>3. /\ r.minor \in Minors /\ r.op \in {"mount", "umount"} /\ r.new = None
      /\ array[r.minor] \in Objs /\ obj[array[r.minor]] \in ObjType
      /\ obj[array[r.minor]].st = "live" /\ ObjOK(obj[array[r.minor]])
  BY <1>1, <1>2, HookFacts
<1>4. PICK o \in Objs : o = array[r.minor]
  BY <1>3
<1>5. PICK d \in ObjType : d = obj[o]
  BY <1>3, <1>4
<1>6. d.threads \in 0 .. 2
  BY DEF ObjType
<1>7. PICK t \in 0 .. 2 : t = ThreadStopped(d.threads) /\ t # 1
  BY <1>6, ThreadFacts
<1>8. obj \in [Objs -> ObjType]
  BY <1>0 DEF TypeOK
<1>9. PICK x \in ActorType :
        /\ actor' = [actor EXCEPT ![a] = x]
        /\ x.pc = "call" /\ x.op = r.op /\ x.minor = r.minor /\ x.new = r.new
  BY <1>0, <1>1, <1>2, GotoFacts DEF PCs
<1>10. x.op # "exit" /\ OpOK(x) /\ x.pc \in {"call", "idle"}
  BY <1>3, <1>9 DEF OpOK
<1>11. actor[a].pc \in {"premutex", "mountmutex", "postmutex"}
  BY <1>1, <1>2
<1>12. CASE obj' = [obj EXCEPT ![o].active = FALSE, ![o].threads = ThreadStopped(@)]
  <2>1. PICK y : y = [d EXCEPT !.active = FALSE, !.threads = t]
    OBVIOUS
  <2>2. obj' = [obj EXCEPT ![o] = y]
    BY <1>5, <1>7, <1>8, <1>12, <2>1
  <2>3. /\ y \in ObjType /\ y.st = d.st /\ y.bdev = d.bdev /\ y.unver = d.unver
        /\ y.early = d.early /\ y.disk = d.disk /\ y.active = FALSE /\ y.threads = t
    BY <2>1 DEF ObjType
  <2>4. ObjOK(y)
    BY <1>3, <1>4, <1>5, <2>3 DEF ObjOK
  <2>. QED
    BY <1>2, <1>5, <1>7, <1>9, <1>10, <1>11, <2>2, <2>3, <2>4, HookChange
<1>13. CASE obj' = [obj EXCEPT ![o].fail = TRUE, ![o].threads = ThreadStopped(@)]
  <2>1. PICK y : y = [d EXCEPT !.fail = TRUE, !.threads = t]
    OBVIOUS
  <2>2. obj' = [obj EXCEPT ![o] = y]
    BY <1>5, <1>7, <1>8, <1>13, <2>1
  <2>3. /\ y \in ObjType /\ y.st = d.st /\ y.bdev = d.bdev /\ y.unver = d.unver
        /\ y.early = d.early /\ y.disk = d.disk /\ y.active = d.active /\ y.fail = TRUE
    BY <2>1 DEF ObjType
  <2>4. ObjOK(y)
    BY <1>3, <1>4, <1>5, <2>3 DEF ObjOK
  <2>. QED
    BY <1>2, <1>5, <1>9, <1>10, <1>11, <2>2, <2>3, <2>4, HookChange
<1>. QED
  BY <1>1, <1>4, <1>12, <1>13 DEF PreDormant

LEMMA ActivateKeeps ==
  ASSUME Inv, ~Dangling, NEW a \in Actors, Activate(a)
  PROVE  Inv'
<1>0. TypeOK /\ ActorsInv
  BY DEF Inv
<1>1. PICK r : r = actor[a]
  OBVIOUS
<1>2. /\ r.pc \in {"mountmutex", "postmutex"} /\ mutex = None
      /\ UNCHANGED <<array, range, mnts, walk, unfrozen, loaded>>
  BY <1>1 DEF Activate
<1>3. /\ r \in ActorType /\ r.minor \in Minors /\ r.op \in {"mount", "umount"} /\ r.new = None
      /\ array[r.minor] \in Objs /\ obj[array[r.minor]] \in ObjType /\ lock = a
      /\ obj[array[r.minor]].st = "live" /\ ObjOK(obj[array[r.minor]])
      /\ \A n \in Minors : n # r.minor => array[n] # array[r.minor]
  BY <1>1, <1>2, HookFacts
<1>4. PICK o \in Objs : o = array[r.minor]
  BY <1>3
<1>5. PICK d \in ObjType : d = obj[o]
  BY <1>3, <1>4
<1>6. actor[a].pc \in {"premutex", "mountmutex", "postmutex"}
  BY <1>1, <1>2
<1>7. obj \in [Objs -> ObjType]
  BY <1>0 DEF TypeOK
<1>8. CASE /\ d.unver /\ mutex' = a /\ UNCHANGED <<obj, lock>>
           /\ Take(a, "untrace", o)
  <2>1. PICK x \in ActorType :
          /\ actor' = [actor EXCEPT ![a] = x]
          /\ x.pc = "untrace" /\ x.op = r.op /\ x.minor = r.minor
          /\ x.new = r.new /\ x.old = o
    <3>1. "untrace" \in PCs /\ o \in Objs \cup {None}
      BY DEF PCs
    <3>. QED
      BY <1>0, <1>1, <1>8, <3>1, TakeFacts
  <2>2. OpOK(x) /\ x.op # "exit"
    BY <1>3, <2>1 DEF OpOK
  <2>3. HandsOK(x) /\ EarlyOK(x)
    BY <1>3, <1>4, <1>5, <1>8, <2>1 DEF HandsOK, EarlyOK, ObjOK
  <2>4. ActorOK(x)
    BY <2>1, <2>2, <2>3 DEF ActorOK, TracerOK, ExitOK, ProcOK
  <2>5. Moves(lock, lock', a) /\ Moves(mutex, mutex', a)
    BY <1>2, <1>8 DEF Moves
  <2>6. Holds(a, x, lock', mutex')
    BY <1>3, <1>8, <2>1, <2>2 DEF Holds, HasMutex, LockPCs, MutexPCs, Workers
  <2>7. actor[a].pc \notin {"idle", "publish", "recalc", "undo"}
    BY <1>6
  <2>. QED
    BY <1>2, <1>8, <2>1, <2>2, <2>4, <2>5, <2>6, <2>7, QuietStep
<1>9. CASE ~d.unver /\ lock' = None /\ Finish(a) /\ mutex' = mutex
  <2>1. /\ actor' = [actor EXCEPT ![a] = Idle] /\ Idle \in ActorType /\ OpOK(Idle)
        /\ Idle.pc \in {"call", "idle"} /\ Idle.op # "exit"
    <3>1. None # "exit"
      BY DevicesAssumption DEF OtherOps
    <3>. QED
      BY <1>9, <3>1, IdleOK, IdleHolds, IdleFacts DEF Finish
  <2>. HIDE DEF Idle
  <2>2. CASE /\ FileIsOnBdev(r.place, d.bdev) /\ r.place = d.place
             /\ obj' = [obj EXCEPT ![o].active = TRUE, ![o].threads = ThreadStarted(@)]
    <3>1. d.threads \in 0 .. 2
      BY DEF ObjType
    <3>2. PICK t \in 0 .. 2 : t = ThreadStarted(d.threads) /\ t > 0
      BY <3>1, ThreadFacts
    <3>3. PICK y : y = [d EXCEPT !.active = TRUE, !.threads = t]
      OBVIOUS
    <3>4. obj' = [obj EXCEPT ![o] = y]
      BY <1>5, <1>7, <2>2, <3>2, <3>3
    <3>5. /\ y \in ObjType /\ y.st = d.st /\ y.bdev = d.bdev /\ y.unver = d.unver
          /\ y.early = d.early /\ y.disk = d.disk /\ y.active = TRUE /\ y.threads = t
          /\ y.place = d.place
      BY <3>3 DEF ObjType
    <3>6. ObjOK(y)
      BY <1>3, <1>4, <1>5, <1>9, <3>5 DEF ObjOK
    <3>7. y.place \in mnts[y.bdev]
      BY <2>2, <3>5 DEF FileIsOnBdev
    <3>. QED
      BY <1>2, <1>5, <1>6, <1>9, <2>1, <3>2, <3>4, <3>5, <3>6, <3>7, HookChange
  <2>3. CASE obj' = [obj EXCEPT ![o].fail = TRUE]
    <3>1. PICK y : y = [d EXCEPT !.fail = TRUE]
      OBVIOUS
    <3>2. obj' = [obj EXCEPT ![o] = y]
      BY <1>5, <1>7, <2>3, <3>1
    <3>3. /\ y \in ObjType /\ y.st = d.st /\ y.bdev = d.bdev /\ y.unver = d.unver
          /\ y.early = d.early /\ y.disk = d.disk /\ y.active = d.active /\ y.fail = TRUE
      BY <3>1 DEF ObjType
    <3>4. ObjOK(y)
      BY <1>3, <1>4, <1>5, <3>3 DEF ObjOK
    <3>. QED
      BY <1>2, <1>5, <1>6, <1>9, <2>1, <3>2, <3>3, <3>4, HookChange
  <2>. QED
    BY <1>1, <1>4, <1>5, <1>9, <2>2, <2>3 DEF Activate
<1>. QED
  BY <1>1, <1>4, <1>5, <1>8, <1>9 DEF Activate, Take

-----------------------------------------------------------------------------
(* The invariant.                                                          *)

LEMMA InitInv ==
  ASSUME Init
  PROVE  Inv
<1>1. /\ \A a \in Actors : actor[a] = Idle
      /\ \A o \in Objs : obj[o] = NoObj
      /\ \A m \in Minors : array[m] = None
      /\ mutex = None /\ lock = None /\ unfrozen = {} /\ loaded = TRUE /\ walk = NoWalk
  BY DEF Init
<1>2. MaxDevices \in Nat /\ MaxDevices - 1 \in Minors /\ 0 \in Minors /\ 0 \in 0 .. MaxDevices
  BY DevicesAssumption DEF Minors
<1>3. TypeOK
  <2>1. range \in [lowest : Minors, highest : Minors]
    BY <1>2 DEF Init
  <2>2. walk \in [st : {"off", "on", "done"}, i : 0 .. MaxDevices,
                  d : Objs \cup {None}, met : SUBSET Minors, stay : SUBSET Minors]
    BY <1>1, <1>2 DEF NoWalk
  <2>3. obj \in [Objs -> ObjType] /\ actor \in [Actors -> ActorType]
    BY NoObjOK, IdleOK DEF Init
  <2>. QED
    BY <2>1, <2>2, <2>3 DEF Init, TypeOK
<1>4. HoldInv
  BY <1>1, IdleHolds DEF HoldInv
<1>5. ActorsInv
  BY <1>1, IdleHolds DEF ActorsInv
<1>6. LoadInv
  BY <1>1, IdleFacts, DevicesAssumption DEF LoadInv, OtherOps
<1>7. ArrayInv /\ ThreadsInv /\ OneTracerPerBdev /\ FreedOnlyUnfrozen
  BY <1>1 DEF ArrayInv, ThreadsInv, OneTracerPerBdev, FreedOnlyUnfrozen
<1>8. ObjsInv /\ MountedInv
  BY <1>1 DEF ObjsInv, MountedInv, NoObj
<1>9. WalkInv
  BY <1>1 DEF WalkInv, NoWalk
<1>10. RangeInv
  <2>1. Used(array) = {}
    BY <1>1 DEF Used
  <2>2. range.lowest = MaxDevices - 1 /\ range.highest = 0
    BY DEF Init
  <2>3. Fits(range, array)
    BY <2>1, <2>2 DEF Fits
  <2>. QED
    BY <1>1, <2>3, IdleFacts DEF RangeInv
<1>. QED
  BY <1>3, <1>4, <1>5, <1>6, <1>7, <1>8, <1>9, <1>10 DEF Inv, StateInv

LEMMA InvStep ==
  ASSUME Inv, ~Dangling, NEW a \in Actors, Step(a)
  PROVE  Inv'
<1>1. CASE IoctlEnter(a)
  BY <1>1, IoctlEnterKeeps
<1>2. CASE IoctlLock(a)
  BY <1>2, IoctlLockKeeps
<1>3. CASE Leave(a)
  BY <1>3, LeaveKeeps
<1>4. CASE SetupActive(a)
  BY <1>4, SetupActiveKeeps
<1>5. CASE SetupUnverified(a)
  BY <1>5, SetupUnverifiedKeeps
<1>6. CASE Destroy(a)
  BY <1>6, DestroyKeeps
<1>7. CASE Transition(a)
  BY <1>7, TransitionKeeps
<1>8. CASE Query(a)
  BY <1>8, QueryKeeps
<1>9. CASE AddDisk(a)
  BY <1>9, AddDiskKeeps
<1>10. CASE Include(a)
  BY <1>10, IncludeKeeps
<1>11. CASE Publish(a)
  BY <1>11, PublishKeeps
<1>12. CASE Undo(a)
  BY <1>12, UndoKeeps
<1>13. CASE Untrace(a)
  BY <1>13, UntraceKeeps
<1>14. CASE Recalc(a)
  BY <1>14, RecalcKeeps
<1>15. CASE FreeOld(a)
  BY <1>15, FreeOldKeeps
<1>16. CASE Base(a)
  BY <1>16, BaseKeeps
<1>17. CASE UmountEnter(a)
  BY <1>17, UmountEnterKeeps
<1>18. CASE PreLock(a)
  BY <1>18, PreLockKeeps
<1>19. CASE PreDormant(a)
  BY <1>19, PreDormantKeeps
<1>20. CASE UmountCall(a)
  BY <1>20, UmountCallKeeps
<1>21. CASE PostFailed(a)
  BY <1>21, PostFailedKeeps
<1>22. CASE PostRead(a)
  BY <1>22, PostReadKeeps
<1>23. CASE PostUse(a)
  BY <1>23, PostUseKeeps
<1>24. CASE MountEnter(a)
  BY <1>24, MountEnterKeeps
<1>25. CASE MountLock(a)
  BY <1>25, MountLockKeeps
<1>26. CASE Activate(a)
  BY <1>26, ActivateKeeps
<1>27. CASE ProcOpen(a)
  BY <1>27, ProcOpenKeeps
<1>28. CASE ProcRead(a)
  BY <1>28, ProcReadKeeps
<1>29. CASE ProcStart(a)
  BY <1>29, ProcStartKeeps
<1>30. CASE ProcShow(a)
  BY <1>30, ProcShowKeeps
<1>31. CASE ProcStop(a)
  BY <1>31, ProcStopKeeps
<1>32. CASE ProcRelease(a)
  BY <1>32, ProcReleaseKeeps
<1>33. CASE ExitStart(a)
  BY <1>33, ExitStartKeeps
<1>34. CASE ExitNext(a)
  BY <1>34, ExitNextKeeps
<1>. QED
  BY <1>1, <1>2, <1>3, <1>4, <1>5, <1>6, <1>7, <1>8, <1>9, <1>10, <1>11, <1>12, <1>13, <1>14,
     <1>15, <1>16, <1>17, <1>18, <1>19, <1>20, <1>21, <1>22, <1>23, <1>24, <1>25, <1>26,
     <1>27, <1>28, <1>29, <1>30, <1>31, <1>32, <1>33, <1>34 DEF Step

LEMMA InvNext ==
  ASSUME Inv, [Next]_vars
  PROVE  Inv'
<1>1. CASE UNCHANGED vars
  <2>1. UNCHANGED <<array, range, obj, mnts, mutex, lock, actor, walk, unfrozen, loaded>>
    BY <1>1 DEF vars
  <2>2. Light /\ obj' \in [Objs -> ObjType]
    BY <2>1, UnchangedIsLight DEF Inv
  <2>. QED
    BY <2>1, <2>2, LightOnly
<1>2. CASE ~Dangling /\ \E a \in Actors : Step(a)
  BY <1>2, InvStep
<1>3. CASE \E o \in Objs : Open(o) \/ Release(o) \/ Fail(o)
  BY <1>3, OpenKeeps, ReleaseKeeps, FailKeeps
<1>4. CASE WalkStart \/ WalkStep \/ WalkEnd
  BY <1>4, WalkStartKeeps, WalkStepKeeps, WalkEndKeeps
<1>. QED
  BY <1>1, <1>2, <1>3, <1>4 DEF Next

\* What every task holds, has in its hands and has left behind, the range of
\* minors and the walk fit the array in every reachable state.
THEOREM InvIsInvariant == Spec => []Inv
<1>1. Init => Inv
  BY InitInv
<1>2. Inv /\ [Next]_vars => Inv'
  BY InvNext
<1>. QED
  BY <1>1, <1>2, PTL DEF Spec

-----------------------------------------------------------------------------
(* The properties.                                                         *)

\* Every variable stays in its type.
THEOREM TypeOKIsInvariant == Spec => []TypeOK
<1>1. Inv => TypeOK
  BY DEF Inv
<1>. QED
  BY <1>1, InvIsInvariant, PTL

\* However set-ups, reloads, mounts and transitions overlap, the test of
\* bdev_is_already_traced() and the two mutexes let no block device be traced
\* under two minors.
THEOREM OneTracerPerBdevIsInvariant == Spec => []OneTracerPerBdev
<1>1. Inv => OneTracerPerBdev
  BY DEF Inv, StateInv
<1>. QED
  BY <1>1, InvIsInvariant, PTL

\* tracer_for_each() without a lock meets every device that is in the array
\* from the start of the walk to its end, because the range is widened before
\* an entry is set and narrowed after it has been cleared.
THEOREM WalkMeetsDevicesIsInvariant == Spec => []WalkMeetsDevices
<1>1. Inv => WalkMeetsDevices
  BY DEF Inv, StateInv, WalkInv, WalkMeetsDevices
<1>. QED
  BY <1>1, InvIsInvariant, PTL

\* No device is freed with an open of its disk from before the task that frees
\* it had found it not busy.
THEOREM OpenDiskKeptIsInvariant == Spec => []OpenDiskKept
<1>1. Inv => OpenDiskKept
  BY DEF Inv, StateInv, ObjsInv, OpenDiskKept
<1>. QED
  BY <1>1, InvIsInvariant, PTL

\* An entry of the array points to a freed device only under a minor whose
\* block device could not be frozen when the device was destroyed.
THEOREM FreedOnlyUnfrozenIsInvariant == Spec => []FreedOnlyUnfrozen
<1>1. Inv => FreedOnlyUnfrozen
  BY DEF Inv, StateInv
<1>. QED
  BY <1>1, InvIsInvariant, PTL

\* While the module is loaded and nobody has the array, a healthy active device
\* has a COW thread and a dormant or unverified one has none but a lost one.
\* The end of the module stops the threads and clears no state.
THEOREM ThreadFollowsStateWhileLoaded == Spec => [](loaded => ThreadFollowsState)
<1>1. Inv => (loaded => ThreadFollowsState)
  BY DEF Inv, StateInv, ThreadsInv, ThreadFollowsState
<1>. QED
  BY <1>1, InvIsInvariant, PTL

\* When no hook is at work, a healthy active device has its COW file on a mount
\* that exists.
THEOREM ActiveIsMountedIsInvariant == Spec => []ActiveIsMounted
<1>1. ASSUME Inv PROVE ActiveIsMounted
  <2>. SUFFICES ASSUME NEW m \in Minors, array[m] # None,
                       obj[array[m]].st = "live", obj[array[m]].active, ~obj[array[m]].fail
                PROVE  obj[array[m]].place \in mnts[obj[array[m]].bdev]
    BY DEF ActiveIsMounted
  <2>1. array[m] \in Objs /\ MountedInv /\ ActorsInv
    BY <1>1 DEF Inv, StateInv, TypeOK
  <2>2. ~ \E a \in Actors : actor[a].pc = "undo" /\ actor[a].new = array[m]
    BY <2>1 DEF ActorsInv, ActorOK, HandsOK, Absent
  <2>. QED
    BY <2>1, <2>2 DEF MountedInv
<1>. QED
  BY <1>1, InvIsInvariant, PTL

\* A program that reads /proc/moocbt-info to its end, in as many reads as it
\* likes, sees every device once and one footer.
THEOREM ProcIsOneTableIsInvariant == Spec => []ProcIsOneTable
<1>1. ASSUME Inv PROVE ProcIsOneTable
  <2>. SUFFICES ASSUME NEW a \in Actors, actor[a].pc \in {"procopen", "procread"},
                       AtEnd(actor[a])
                PROVE  /\ actor[a].shown = {m \in Minors : array[m] # None}
                       /\ actor[a].footers = IF MaxDevices = 1 /\ array[0] = None THEN 0 ELSE 1
    BY DEF ProcIsOneTable
  <2>0. TypeOK /\ ActorsInv /\ RangeInv
    BY <1>1 DEF Inv, StateInv
  <2>1. PICK r \in ActorType : r = actor[a]
    BY <2>0 DEF TypeOK
  <2>2. /\ r.pos \in Nat /\ range.highest \in Nat /\ MaxDevices \in Nat
        /\ \A m \in Minors : m \in Nat
    BY <2>0, DevicesAssumption DEF TypeOK, ActorType, Minors
  <2>3. ProcOK(r) /\ r.pos > range.highest + 1
    BY <2>0, <2>1 DEF ActorsInv, ActorOK, AtEnd
  <2>4. /\ r.shown = {m \in Minors : m + 1 < r.pos /\ array[m] # None}
        /\ r.footers = IF Used(array) = {}
                       THEN IF r.pos = 0 \/ MaxDevices = 1 THEN 0 ELSE 1
                       ELSE IF r.pos > range.highest + 1 THEN 1 ELSE 0
    BY <2>1, <2>3 DEF ProcOK
  <2>5. ASSUME NEW m \in Minors, array[m] # None PROVE m + 1 < r.pos
    <3>1. m <= range.highest
      BY <2>0, <2>5, RangeCovers
    <3>. QED
      BY <2>2, <2>3, <3>1
  <2>6. r.shown = {m \in Minors : array[m] # None}
    BY <2>4, <2>5
  <2>7. r.pos # 0
    BY <2>2, <2>3
  <2>8. MaxDevices = 1 => (Used(array) = {} <=> array[0] = None)
    <3>1. MaxDevices = 1 => Minors = {0}
      BY DEF Minors
    <3>. QED
      BY <3>1 DEF Used
  <2>9. r.footers = IF MaxDevices = 1 /\ array[0] = None THEN 0 ELSE 1
    BY <2>3, <2>4, <2>7, <2>8
  <2>. QED
    BY <2>1, <2>6, <2>9
<1>. QED
  BY <1>1, InvIsInvariant, PTL

\* The loop of cleanup_snap_device_array() leaves no device behind, although
\* the range it runs over shrinks under it, but for one that could not be
\* frozen.
THEOREM ExitEmptiesArrayIsInvariant == Spec => []ExitEmptiesArray
<1>1. ASSUME Inv PROVE ExitEmptiesArray
  <2>. SUFFICES ASSUME NEW a \in Actors, actor[a].pc = "gone",
                       NEW m \in Minors \ unfrozen
                PROVE  array[m] = None
    BY DEF ExitEmptiesArray
  <2>1. OpOK(actor[a]) /\ ExitOK(actor[a])
    BY <1>1 DEF Inv, ActorsInv, ActorOK
  <2>2. actor[a].op = "exit"
    BY <2>1 DEF OpOK
  <2>. QED
    BY <2>1, <2>2 DEF ExitOK
<1>. QED
  BY <1>1, InvIsInvariant, PTL
=============================================================================
