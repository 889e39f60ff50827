-------------------------------- MODULE Hooks -------------------------------
(***************************************************************************)
(* How the driver gets between the kernel and its functions: the hooks on  *)
(* __submit_bio, path_mount, path_umount and move_mount that agent_init()  *)
(* installs and agent_exit() removes, and the calls of those functions     *)
(* that are under way when a hook wants to run something after the return. *)
(*                                                                         *)
(* One build replaces the return address of the hooked call by a           *)
(* trampoline and keeps the real one in a list of the task (a shadow       *)
(* stack); the other runs a wrapper that calls the original function.  The *)
(* frames of a task are the calls it is in, innermost last; the real       *)
(* return address of the frame at depth d is d.                            *)
(***************************************************************************)
EXTENDS Naturals, FiniteSets, Sequences

CONSTANTS
  Tasks,
  MaxDepth,  \* bound on the calls a task is in
  MaxNodes,  \* bound on the shadow stack of a task
  MaxLost    \* bound on the allocation failures that go unnoticed

Trampoline == 0

HookTable == <<"__submit_bio", "path_mount", "path_umount", "move_mount">>
Hooked == {HookTable[i] : i \in DOMAIN HookTable}
Functions == Hooked \ {"__submit_bio"}

\* Mutant: the devices are destroyed before the hooks are removed.
ExitOrderArrayFirst == <<"array">> \o HookTable \o <<"control", "proc", "blkdev">>

\* agent_init() and register_ftrace_hooks(), agent_exit() and
\* unregister_ftrace_hooks()
InitOrder == <<"blkdev", "array", "proc", "control">> \o HookTable
ExitOrder == HookTable \o <<"control", "proc", "array", "blkdev">>

ASSUME HooksAssumption == MaxDepth \in Nat /\ MaxNodes \in Nat /\ MaxLost \in Nat

VARIABLES
  direct,  \* the build: wrappers, or return hooks
  mod,     \* where agent_init() or agent_exit() is
  reg,     \* what is registered with the kernel
  dev,     \* a snap device: none, set up while the module was loading, or later
  stack,   \* the frames of each task
  shadow,  \* preempt_rh_task_node.llist of each task, newest last
  tnode,   \* the task has a preempt_rh_task_node
  owed,    \* devices the task made dormant and has to look at again
  lost,    \* ... whose return hook could not be set up and nobody noticed
  fate     \* what became of the task

vars == <<direct, mod, reg, dev, stack, shadow, tnode, owed, lost, fate>>
modVars == <<mod, reg, dev>>
taskVars == <<stack, shadow, tnode, owed, lost, fate>>

Kinds == {"ignored", "nowrite", "writable"}

Frame == [slot : 0 .. MaxDepth, st : {"run", "post", "fixup"},
          node : 0 .. MaxNodes, first : 0 .. MaxNodes, pend : Kinds \cup {"none"}]

\* struct preempt_rh_node
Node == [ret : 0 .. MaxDepth, frame : 1 .. MaxDepth, kind : Kinds, ran : BOOLEAN]

TypeOK ==
  /\ direct \in BOOLEAN
  /\ mod \in [st : {"off", "init", "unwind", "ready", "exit"}, i : 0 .. 8, rmmod : BOOLEAN]
  /\ reg \subseteq {InitOrder[i] : i \in DOMAIN InitOrder}
  /\ dev \in {"none", "early", "late"}
  /\ stack \in [Tasks -> Seq(Frame)]
  /\ shadow \in [Tasks -> Seq(Node)]
  /\ tnode \in [Tasks -> BOOLEAN]
  /\ owed \in [Tasks -> Nat]
  /\ lost \in [Tasks -> 0 .. MaxLost]
  /\ fate \in [Tasks -> {"alive", "bug", "gone"}]

Init ==
  /\ direct \in BOOLEAN
  /\ mod = [st |-> "off", i |-> 0, rmmod |-> FALSE]
  /\ reg = {}
  /\ dev = "none"
  /\ stack = [t \in Tasks |-> <<>>]
  /\ shadow = [t \in Tasks |-> <<>>]
  /\ tnode = [t \in Tasks |-> FALSE]
  /\ owed = [t \in Tasks |-> 0]
  /\ lost = [t \in Tasks |-> 0]
  /\ fate = [t \in Tasks |-> "alive"]

-----------------------------------------------------------------------------
(* Loading and unloading the module.                                       *)

\* The task will run code of the module before it has returned from all calls.
NeedsModule(t) == shadow[t] # <<>> \/ \E i \in DOMAIN stack[t] : stack[t][i].pend # "none"

\* insmod.  Where a task was left behind by an earlier unload there is no
\* telling what its trampoline is by now: the model does not load again.
Insmod ==
  /\ mod.st = "off" /\ \A t \in Tasks : ~NeedsModule(t)
  /\ mod' = [st |-> "init", i |-> 1, rmmod |-> FALSE]
  /\ UNCHANGED <<direct, reg, dev, taskVars>>

\* One step of agent_init(), or register_hook()
Register ==
  /\ mod.st = "init"
  /\ reg' = reg \cup {InitOrder[mod.i]}
  /\ mod' = IF mod.i = Len(InitOrder) THEN [mod EXCEPT !.st = "ready", !.i = 0]
            ELSE [mod EXCEPT !.i = @ + 1]
  /\ UNCHANGED <<direct, dev, taskVars>>

\* The step fails: register_ftrace_hooks() takes back the hooks it has set;
\* then, and at once for the others, agent_init() calls agent_exit()
RegisterFails ==
  /\ mod.st = "init"
  /\ mod' = IF InitOrder[mod.i] \in Hooked THEN [mod EXCEPT !.st = "unwind", !.i = @ - 1]
            ELSE [mod EXCEPT !.st = "exit", !.i = 1]
  /\ UNCHANGED <<direct, reg, dev, taskVars>>

Unwind ==
  /\ mod.st = "unwind"
  /\ IF InitOrder[mod.i] \in Hooked
     THEN reg' = reg \ {InitOrder[mod.i]} /\ mod' = [mod EXCEPT !.i = @ - 1]
     ELSE mod' = [mod EXCEPT !.st = "exit", !.i = 1] /\ UNCHANGED reg
  /\ UNCHANGED <<direct, dev, taskVars>>

\* rmmod: nothing of the kernel's counts says that a task is in a hooked call
Rmmod ==
  /\ mod.st = "ready"
  /\ mod' = [st |-> "exit", i |-> 1, rmmod |-> TRUE]
  /\ UNCHANGED <<direct, reg, dev, taskVars>>

\* Mutant: the hooks are not unregistered.
ExitStepKeepsHooks ==
  /\ mod.st = "exit"
  /\ reg' = IF ExitOrder[mod.i] \in Hooked THEN reg ELSE reg \ {ExitOrder[mod.i]}
  /\ dev' = IF ExitOrder[mod.i] = "array" THEN "none" ELSE dev
  /\ mod' = IF mod.i = Len(ExitOrder) THEN [mod EXCEPT !.st = "off", !.i = 0]
            ELSE [mod EXCEPT !.i = @ + 1]
  /\ UNCHANGED <<direct, taskVars>>

\* One step of agent_exit(): what was never registered, or is no longer, is
\* unregistered again, which the kernel refuses
ExitStep ==
  /\ mod.st = "exit"
  /\ reg' = reg \ {ExitOrder[mod.i]}
  /\ dev' = IF ExitOrder[mod.i] = "array" THEN "none" ELSE dev
  /\ mod' = IF mod.i = Len(ExitOrder) THEN [mod EXCEPT !.st = "off", !.i = 0]
            ELSE [mod EXCEPT !.i = @ + 1]
  /\ UNCHANGED <<direct, taskVars>>

\* ctrl_ioctl() sets up or destroys a device: the control device is there
\* before the hooks are, and also when loading fails later
Ioctl ==
  /\ "control" \in reg /\ ~mod.rmmod
  /\ dev' = IF dev # "none" THEN "none" ELSE IF mod.st = "ready" THEN "late" ELSE "early"
  /\ UNCHANGED <<direct, mod, reg, taskVars>>

-----------------------------------------------------------------------------
(* Hooked calls.                                                           *)

Depth(t) == Len(stack[t])
Top(t) == stack[t][Depth(t)]
Pop(t) == [stack EXCEPT ![t] = SubSeq(@, 1, Len(@) - 1)]
SetTop(t, f) == [stack EXCEPT ![t][Len(stack[t])] = f]

\* The code of the module that a hook calls is there.
Present == mod.st # "off"

\* What the hooks make of a call, by its flags.  Bind, shared, move and new
\* read-only mounts are ignored, a remount read-only is like an umount.
MountKinds == Kinds
UmountKinds == {"nowrite"}
MoveMountKinds == {"writable"}

KindsOf(f) ==
  CASE f = "path_mount"  -> MountKinds
    [] f = "path_umount" -> UmountKinds
    [] f = "move_mount"  -> MoveMountKinds

Plain(d) == [slot |-> d, st |-> "run", node |-> 0, first |-> 0, pend |-> "none"]

Owe(t, k, n) == [owed EXCEPT ![t] = IF k = "nowrite" THEN @ + n ELSE @]

\* Mutant: the address is read after the trampoline was put in its place.
PreparedLate(d, slot, k) == [ret |-> Trampoline, frame |-> d, kind |-> k, ran |-> FALSE]

\* preempt_rethook_prepare(): the real address is saved, the frame returns to
\* the trampoline
Prepared(d, slot, k) == [ret |-> slot, frame |-> d, kind |-> k, ran |-> FALSE]

\* Mutant: the device stays as the hook has left it.
NodeFailsSilently(t, k) == owed' = Owe(t, k, 1)

\* No node: path_mount and path_umount look at the device again at once
NodeFails(t, k) == UNCHANGED owed

\* The return hook of a call whose frame at depth d returns to slot: hooks with
\* a buffer do nothing without it; pre_handler_preempt_rethook() may find no
\* memory for the node, which it reports, or for the task's list, which it
\* does not.  stk is the stack with the frame.
HookReturn(t, f, k, d, stk) ==
  \/ /\ f # "move_mount" \/ k = "ignored"
     /\ stack' = stk
     /\ UNCHANGED <<shadow, tnode, owed, lost>>
  \/ /\ k # "ignored"
     /\ stack' = stk
     /\ NodeFails(t, k)
     /\ UNCHANGED <<shadow, tnode, lost>>
  \/ /\ k # "ignored" /\ ~tnode[t] /\ lost[t] < MaxLost
     /\ stack' = stk
     /\ owed' = Owe(t, k, 1)
     /\ lost' = [lost EXCEPT ![t] = IF k = "nowrite" THEN @ + 1 ELSE @]
     /\ UNCHANGED <<shadow, tnode>>
  \/ /\ k # "ignored" /\ Len(shadow[t]) < MaxNodes
     /\ shadow' = [shadow EXCEPT ![t] = Append(@, Prepared(d, stk[t][d].slot, k))]
     /\ stack' = [stk EXCEPT ![t][d].slot = Trampoline]
     /\ tnode' = [tnode EXCEPT ![t] = TRUE]
     /\ owed' = Owe(t, k, 1)
     /\ UNCHANGED lost

\* A task calls one of the functions, from the outside, from inside another
\* call, or from what a return hook runs: ftrace_callback_handler()
Call(t, f) ==
  LET d == Depth(t) + 1
      pushed == [stack EXCEPT ![t] = Append(@, Plain(d))]
  IN /\ fate[t] = "alive" /\ d <= MaxDepth
     /\ d > 1 => Top(t).st # "fixup"
     /\ \/ /\ f \notin reg
           /\ stack' = pushed
           /\ UNCHANGED <<shadow, tnode, owed, lost>>
        \/ /\ f \in reg /\ ~direct
           /\ \E k \in KindsOf(f) : HookReturn(t, f, k, d, pushed)
        \/ /\ f \in reg /\ direct
           /\ \E k \in KindsOf(f) :
                /\ stack' = [pushed EXCEPT ![t][d].pend = k]
                /\ owed' = Owe(t, k, 1)
           /\ UNCHANGED <<shadow, tnode, lost>>
     /\ UNCHANGED <<direct, modVars, fate>>

\* A hooked function ends in a jump to another one, which runs in its frame
TailCall(t, f) ==
  /\ fate[t] = "alive" /\ Depth(t) > 0 /\ Top(t).st = "run"
  /\ f \in reg /\ ~direct
  /\ \E k \in KindsOf(f) : HookReturn(t, f, k, Depth(t), stack)
  /\ UNCHANGED <<direct, modVars, fate>>

\* A return of a call that no hook waits for
Return(t) ==
  /\ fate[t] = "alive" /\ Depth(t) > 0
  /\ Top(t).st = "run" /\ Top(t).slot = Depth(t) /\ Top(t).pend = "none"
  /\ stack' = Pop(t)
  /\ UNCHANGED <<direct, modVars, shadow, tnode, owed, lost, fate>>

\* Mutant: post_umount_check() is called after any mount.
ReturnWrappedAlways(t) ==
  /\ fate[t] = "alive" /\ Depth(t) > 0 /\ Present
  /\ Top(t).pend # "none"
  /\ owed' = [owed EXCEPT ![t] = @ - 1]
  /\ stack' = Pop(t)
  /\ UNCHANGED <<direct, modVars, shadow, tnode, lost, fate>>

\* The rest of a wrapper: post_umount_check() or handle_bdev_mounted_writable()
ReturnWrapped(t) ==
  /\ fate[t] = "alive" /\ Depth(t) > 0 /\ Present
  /\ Top(t).pend # "none"
  /\ owed' = [owed EXCEPT ![t] = IF Top(t).pend = "nowrite" THEN @ - 1 ELSE @]
  /\ stack' = Pop(t)
  /\ UNCHANGED <<direct, modVars, shadow, tnode, lost, fate>>

\* Mutant: the first node is taken, whatever address it has.
FindRetAddrFirst(t) == IF tnode[t] THEN Len(shadow[t]) ELSE 0

\* preempt_rethook_find_ret_addr(): the newest node with a real address
FindRetAddr(t) ==
  LET real == {i \in DOMAIN shadow[t] : shadow[t][i].ret # Trampoline}
  IN IF ~tnode[t] \/ real = {} THEN 0
     ELSE CHOOSE i \in real : \A j \in real : j <= i

\* preempt_rethook_trampoline_callback(), and preempt_rethook_trampoline_handler()
\* up to its loop, which ends in BUG_ON() if nothing is found
HandlerEnter(t) ==
  /\ fate[t] = "alive" /\ Depth(t) > 0 /\ Present
  /\ Top(t).st = "run" /\ Top(t).slot = Trampoline
  /\ IF FindRetAddr(t) = 0
     THEN fate' = [fate EXCEPT ![t] = "bug"] /\ UNCHANGED stack
     ELSE /\ stack' = SetTop(t, [Top(t) EXCEPT !.st = "post", !.node = FindRetAddr(t),
                                               !.first = Len(shadow[t])])
          /\ UNCHANGED fate
  /\ UNCHANGED <<direct, modVars, shadow, tnode, owed, lost>>

\* Mutant: the loop ends before the hook of the last node has run.
PostHookEndsEarly(t) ==
  LET f == Top(t)
      n == shadow[t][f.first]
  IN /\ fate[t] = "alive" /\ Depth(t) > 0 /\ Present /\ f.st = "post"
     /\ IF f.first = f.node
        THEN stack' = SetTop(t, [f EXCEPT !.st = "fixup"]) /\ UNCHANGED <<shadow, owed>>
        ELSE /\ shadow' = [shadow EXCEPT ![t][f.first].ran = TRUE]
             /\ owed' = [owed EXCEPT ![t] = IF n.kind = "nowrite" THEN @ - 1 ELSE @]
             /\ stack' = SetTop(t, [f EXCEPT !.first = @ - 1])
     /\ UNCHANGED <<direct, modVars, tnode, lost, fate>>

\* One turn of the loop: a node of another frame is a WARN_ON(); the hook runs
\* with the node still in the list
PostHook(t) ==
  LET f == Top(t)
      n == shadow[t][f.first]
  IN /\ fate[t] = "alive" /\ Depth(t) > 0 /\ Present /\ f.st = "post"
     /\ IF n.frame # Depth(t)
        THEN fate' = [fate EXCEPT ![t] = "bug"] /\ UNCHANGED <<stack, shadow, owed>>
        ELSE /\ shadow' = [shadow EXCEPT ![t][f.first].ran = TRUE]
             /\ owed' = [owed EXCEPT ![t] = IF n.kind = "nowrite" THEN @ - 1 ELSE @]
             /\ stack' = SetTop(t, IF f.first = f.node THEN [f EXCEPT !.st = "fixup"]
                                   ELSE [f EXCEPT !.first = @ - 1])
             /\ UNCHANGED fate
     /\ UNCHANGED <<direct, modVars, tnode, lost>>

\* The task's list is freed when it is empty
TaskNodeAfter(t, rest) == rest # <<>>

\* The rest of the handler: the address is put back, the nodes up to the one
\* found are unlinked and recycled, the task returns
HandlerExit(t) ==
  LET f == Top(t)
      rest == SubSeq(shadow[t], 1, f.node - 1)
  IN /\ fate[t] = "alive" /\ Depth(t) > 0 /\ Present /\ f.st = "fixup"
     /\ shadow' = [shadow EXCEPT ![t] = rest]
     /\ tnode' = [tnode EXCEPT ![t] = TaskNodeAfter(t, rest)]
     /\ stack' = Pop(t)
     /\ fate' = [fate EXCEPT ![t] = IF shadow[t][f.node].ret = Depth(t) THEN @ ELSE "bug"]
     /\ UNCHANGED <<direct, modVars, owed, lost>>

\* The task comes back to code of a module that is no longer there
ReturnToNothing(t) ==
  /\ fate[t] = "alive" /\ Depth(t) > 0 /\ ~Present
  /\ Top(t).slot = Trampoline \/ Top(t).pend # "none"
  /\ fate' = [fate EXCEPT ![t] = "gone"]
  /\ UNCHANGED <<direct, modVars, stack, shadow, tnode, owed, lost>>

-----------------------------------------------------------------------------

Load == Insmod \/ Register \/ RegisterFails \/ Unwind \/ Rmmod \/ ExitStep \/ Ioctl

Task(t) ==
  \/ \E f \in Functions : Call(t, f) \/ TailCall(t, f)
  \/ Return(t) \/ ReturnWrapped(t)
  \/ HandlerEnter(t) \/ PostHook(t) \/ HandlerExit(t) \/ ReturnToNothing(t)

Next == Load \/ \E t \in Tasks : Task(t)

Spec == Init /\ [][Next]_vars

-----------------------------------------------------------------------------
(* Properties.                                                             *)

\* However hooked calls nest, jump to each other and come again out of the
\* hooks that run on their return, a task always returns to where it was
\* called from: the handler finds its list, the right nodes and the right
\* address, and never meets its BUG_ON() and WARN_ON().
TasksComeHome == \A t \in Tasks : fate[t] # "bug"

\* The shadow stack is the stack: a frame returns to the trampoline exactly if
\* it has nodes, the nodes are in the order of the frames, and of those of one
\* frame only the oldest has the real address.
ShadowMatchesStack ==
  \A t \in Tasks :
    LET s == shadow[t]
    IN /\ \A d \in DOMAIN stack[t] :
            (stack[t][d].slot = Trampoline) <=> (\E i \in DOMAIN s : s[i].frame = d)
       /\ \A i \in DOMAIN s :
            /\ s[i].frame <= Depth(t)
            /\ IF i > 1 /\ s[i].frame = s[i - 1].frame
               THEN s[i].ret = Trampoline ELSE s[i].ret = s[i].frame
            /\ i > 1 => s[i - 1].frame <= s[i].frame

\* Every hook that was armed runs once, before its node goes.
PostsRunOnce ==
  \A t \in Tasks : \A i \in DOMAIN shadow[t] :
    LET n == shadow[t][i]
        f == stack[t][n.frame]
    IN n.ran <=> (f.st = "fixup" \/ (f.st = "post" /\ i > f.first))

\* A device that a hook has made dormant is looked at again after the call:
\* what is owed is in the list or in a wrapper, but for what was lost when the
\* list of a task could not be allocated.
PrePostBalanced ==
  \A t \in Tasks :
    owed[t] = lost[t]
              + Cardinality({i \in DOMAIN shadow[t] :
                               shadow[t][i].kind = "nowrite" /\ ~shadow[t][i].ran})
              + Cardinality({d \in DOMAIN stack[t] : stack[t][d].pend = "nowrite"})

\* A hook that is installed finds the array of devices, also while loading
\* fails and is taken back.
HooksNeedArray == reg \cap Hooked # {} => "array" \in reg

\* A module that is not loaded, or whose loading has failed, leaves nothing
\* registered and no device.
NothingLeft == mod.st = "off" => reg = {} /\ dev = "none"

=============================================================================
