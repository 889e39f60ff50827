---------------------------- MODULE HooksProofs -----------------------------
(***************************************************************************)
(* Proofs about Hooks, for any set of tasks, any depth of calls and any    *)
(* number of nodes.                                                        *)
(***************************************************************************)
EXTENDS Hooks, FiniteSetTheorems, SequenceTheorems, NaturalsInduction, TLAPS

-----------------------------------------------------------------------------
(* The inductive invariant.                                                *)

\* The frames of a task and its shadow stack.  SlotsOK and NodesOK are
\* ShadowMatchesStack with the order of the nodes said for any two of them; a
\* frame whose handler is at work knows the oldest of its nodes, which has the
\* address.
SlotsOK(K, S) ==
  \A d \in DOMAIN K :
    /\ K[d].slot \in {Trampoline, d}
    /\ K[d].slot = Trampoline <=> \E i \in DOMAIN S : S[i].frame = d

NodesOK(K, S) ==
  /\ \A i \in DOMAIN S : S[i].frame <= Len(K)
  /\ \A i, j \in DOMAIN S : i <= j => S[i].frame <= S[j].frame
  /\ \A i \in DOMAIN S :
       S[i].ret = IF i > 1 /\ S[i].frame = S[i - 1].frame THEN Trampoline ELSE S[i].frame
  /\ \A i \in DOMAIN S :
       \E k \in 1 .. i : S[k].frame = S[i].frame /\ S[k].ret # Trampoline

HandlersOK(K, S) ==
  \A d \in DOMAIN K :
    /\ K[d].st # "run" =>
         K[d].node \in DOMAIN S /\ S[K[d].node].frame = d /\ S[K[d].node].ret = d
    /\ K[d].st = "post" =>
         K[d].first \in DOMAIN S /\ K[d].node <= K[d].first /\ S[K[d].first].frame = d
    /\ K[d].st = "fixup" => d = Len(K)

PostsOK(K, S) ==
  \A i \in DOMAIN S :
    S[i].ran <=> \/ K[S[i].frame].st = "fixup"
                 \/ K[S[i].frame].st = "post" /\ i > K[S[i].frame].first

Matches(K, S) ==
  /\ K \in Seq(Frame) /\ Len(K) <= MaxDepth
  /\ S \in Seq(Node) /\ Len(S) <= MaxNodes
  /\ SlotsOK(K, S)
  /\ NodesOK(K, S)
  /\ HandlersOK(K, S)
  /\ PostsOK(K, S)

\* What the calls of a task still owe.
OwedBy(S) == {i \in DOMAIN S : S[i].kind = "nowrite" /\ ~S[i].ran}
OwedIn(K) == {d \in DOMAIN K : K[d].pend = "nowrite"}

\* One task: dr is the build, tn whether it has a list, o and l what it owes
\* and what was lost.
TaskInv(dr, K, S, tn, o, l) ==
  /\ Matches(K, S)
  /\ tn <=> S # <<>>
  /\ dr => S = <<>>
  /\ ~dr => \A d \in DOMAIN K : K[d].pend = "none"
  /\ o = l + Cardinality(OwedBy(S)) + Cardinality(OwedIn(K))

TasksInv ==
  /\ direct \in BOOLEAN
  /\ stack \in [Tasks -> Seq(Frame)]
  /\ shadow \in [Tasks -> Seq(Node)]
  /\ tnode \in [Tasks -> BOOLEAN]
  /\ owed \in [Tasks -> Nat]
  /\ lost \in [Tasks -> 0 .. MaxLost]
  /\ fate \in [Tasks -> {"alive", "gone"}]
  /\ \A t \in Tasks :
       TaskInv(direct, stack[t], shadow[t], tnode[t], owed[t], lost[t])

\* What is registered at each step of loading and unloading.
ModInv ==
  /\ mod \in [st : {"off", "init", "unwind", "ready", "exit"}, i : 0 .. 8, rmmod : BOOLEAN]
  /\ reg \subseteq {InitOrder[i] : i \in DOMAIN InitOrder}
  /\ dev \in {"none", "early", "late"}
  /\ mod.st = "off" => reg = {} /\ dev = "none"
  /\ mod.st = "init" => mod.i > 0 /\ reg = {InitOrder[j] : j \in 1 .. mod.i - 1}
  /\ mod.st = "unwind" => mod.i \in 4 .. 7 /\ reg = {InitOrder[j] : j \in 1 .. mod.i}
  /\ mod.st = "ready" => reg = {InitOrder[j] : j \in 1 .. 8}
  /\ mod.st = "exit" =>
       /\ mod.i > 0
       /\ reg \cap {ExitOrder[j] : j \in 1 .. mod.i - 1} = {}
       /\ mod.i > 7 => dev = "none"
  /\ "control" \notin reg /\ mod.st # "exit" => dev = "none"
  /\ reg \cap Hooked # {} => "array" \in reg

Inv == TasksInv /\ ModInv

-----------------------------------------------------------------------------
(* The frames and nodes of one task.                                       *)

LEMMA PlainIsFrame ==
  ASSUME NEW d \in 1 .. MaxDepth
  PROVE  Plain(d) \in Frame
  BY HooksAssumption DEF Plain, Frame

LEMMA StackFacts ==
  ASSUME NEW K, NEW S, Matches(K, S)
  PROVE  /\ K \in Seq(Frame) /\ Len(K) \in Nat /\ DOMAIN K = 1 .. Len(K)
         /\ S \in Seq(Node) /\ Len(S) \in Nat /\ DOMAIN S = 1 .. Len(S)
         /\ Len(K) \in 0 .. MaxDepth /\ Len(S) \in 0 .. MaxNodes
         /\ K # <<>> => Len(K) \in 1 .. MaxDepth
         /\ \A d \in 1 .. Len(K) : K[d] \in Frame
         /\ \A i \in 1 .. Len(S) : S[i] \in Node /\ S[i].frame \in 1 .. Len(K)
<1>1. /\ K \in Seq(Frame) /\ Len(K) \in Nat /\ DOMAIN K = 1 .. Len(K)
      /\ S \in Seq(Node) /\ Len(S) \in Nat /\ DOMAIN S = 1 .. Len(S)
      /\ K # <<>> => Len(K) # 0
  BY LenProperties, EmptySeq DEF Matches
<1>2. Len(K) \in 0 .. MaxDepth /\ Len(S) \in 0 .. MaxNodes
  BY <1>1, HooksAssumption DEF Matches
<1>3. \A d \in 1 .. Len(K) : K[d] \in Frame
  BY <1>1, ElementOfSeq
<1>4. \A i \in 1 .. Len(S) : S[i] \in Node
  BY <1>1, ElementOfSeq
<1>5. \A i \in 1 .. Len(S) : S[i].frame \in 1 .. MaxDepth /\ S[i].frame <= Len(K)
  BY <1>1, <1>4 DEF Matches, NodesOK, Node
<1>. QED
  BY <1>1, <1>2, <1>3, <1>4, <1>5, HooksAssumption

\* A call that is not hooked.
LEMMA PushMatches ==
  ASSUME NEW K, NEW S, Matches(K, S), Len(K) < MaxDepth,
         K # <<>> => K[Len(K)].st # "fixup"
  PROVE  Matches(Append(K, Plain(Len(K) + 1)), S)
<1>. DEFINE P == Append(K, Plain(Len(K) + 1))
<1>1. /\ K \in Seq(Frame) /\ Len(K) \in Nat /\ DOMAIN K = 1 .. Len(K)
      /\ S \in Seq(Node) /\ Len(S) \in Nat /\ DOMAIN S = 1 .. Len(S)
  BY StackFacts
<1>2. Plain(Len(K) + 1) \in Frame
  BY <1>1, PlainIsFrame, HooksAssumption
<1>3. /\ P \in Seq(Frame) /\ Len(P) = Len(K) + 1 /\ DOMAIN P = 1 .. Len(K) + 1
      /\ \A d \in 1 .. Len(K) : P[d] = K[d]
      /\ P[Len(K) + 1] = Plain(Len(K) + 1)
  <2>1. P \in Seq(Frame) /\ Len(P) = Len(K) + 1
    BY <1>1, <1>2, AppendProperties
  <2>. QED
    BY <1>1, <1>2, <2>1, AppendProperties, LenProperties
<1>4. \A i \in DOMAIN S : S[i] \in Node /\ S[i].frame \in 1 .. Len(K)
  BY StackFacts
<1>5. SlotsOK(P, S)
  BY <1>1, <1>3, <1>4 DEF Matches, SlotsOK, Plain, Trampoline
<1>6. NodesOK(P, S)
  BY <1>1, <1>3, <1>4 DEF Matches, NodesOK
<1>7. HandlersOK(P, S)
  BY <1>1, <1>3, <1>4 DEF Matches, HandlersOK, Plain
<1>8. PostsOK(P, S)
  BY <1>1, <1>3, <1>4 DEF Matches, PostsOK
<1>. QED
  BY <1>1, <1>3, <1>5, <1>6, <1>7, <1>8, HooksAssumption DEF Matches

\* The return of a call that no hook waits for.
LEMMA PopMatches ==
  ASSUME NEW K, NEW S, Matches(K, S), K # <<>>, K[Len(K)].slot # Trampoline
  PROVE  Matches(SubSeq(K, 1, Len(K) - 1), S)
<1>. DEFINE P == SubSeq(K, 1, Len(K) - 1)
<1>1. /\ K \in Seq(Frame) /\ Len(K) \in Nat \ {0} /\ DOMAIN K = 1 .. Len(K)
      /\ S \in Seq(Node) /\ Len(S) \in Nat /\ DOMAIN S = 1 .. Len(S)
  BY StackFacts
<1>2. /\ P \in Seq(Frame) /\ Len(P) = Len(K) - 1 /\ DOMAIN P = 1 .. Len(K) - 1
      /\ \A d \in 1 .. Len(K) - 1 : P[d] = K[d]
  <2>1. \A d \in 1 .. Len(K) - 1 : K[d] \in Frame
    BY <1>1, ElementOfSeq
  <2>2. P \in Seq(Frame) /\ Len(P) = Len(K) - 1 /\ \A d \in 1 .. Len(K) - 1 : P[d] = K[d]
    BY <1>1, <2>1, SubSeqProperties
  <2>. QED
    BY <1>1, <2>2, LenProperties
<1>3. \A i \in DOMAIN S : S[i] \in Node /\ S[i].frame \in 1 .. Len(K) - 1
  <2>1. \A i \in DOMAIN S : S[i].frame # Len(K)
    BY <1>1 DEF Matches, SlotsOK
  <2>. QED
    BY <1>1, <2>1, StackFacts
<1>4. SlotsOK(P, S)
  BY <1>1, <1>2, <1>3 DEF Matches, SlotsOK
<1>5. NodesOK(P, S)
  BY <1>1, <1>2, <1>3 DEF Matches, NodesOK
<1>6. HandlersOK(P, S)
  BY <1>1, <1>2, <1>3 DEF Matches, HandlersOK
<1>7. PostsOK(P, S)
  BY <1>1, <1>2, <1>3 DEF Matches, PostsOK
<1>. QED
  BY <1>1, <1>2, <1>4, <1>5, <1>6, <1>7, HooksAssumption DEF Matches

\* preempt_rethook_prepare(): a node is added, its frame returns to the
\* trampoline.
LEMMA PrepareMatches ==
  ASSUME NEW K, NEW S, Matches(K, S), K # <<>>, K[Len(K)].st = "run",
         NEW k \in Kinds, Len(S) < MaxNodes
  PROVE  Matches([K EXCEPT ![Len(K)].slot = Trampoline],
                 Append(S, Prepared(Len(K), K[Len(K)].slot, k)))
<1>. DEFINE D == Len(K)
            n == Prepared(D, K[D].slot, k)
            P == [K EXCEPT ![D].slot = Trampoline]
            T == Append(S, n)
            m == Len(S) + 1
<1>1. /\ K \in Seq(Frame) /\ D \in Nat \ {0} /\ D <= MaxDepth /\ DOMAIN K = 1 .. D
      /\ S \in Seq(Node) /\ Len(S) \in Nat /\ DOMAIN S = 1 .. Len(S)
  BY StackFacts
<1>2. K[D] \in Frame /\ K[D].slot \in {Trampoline, D}
  BY <1>1, ElementOfSeq DEF Matches, SlotsOK
<1>3. n \in Node /\ n.frame = D /\ n.ret = K[D].slot /\ n.ran = FALSE
  BY <1>1, <1>2, HooksAssumption DEF Prepared, Node, Frame
<1>4. /\ P \in Seq(Frame) /\ Len(P) = D /\ DOMAIN P = 1 .. D
      /\ \A d \in 1 .. D : d # D => P[d] = K[d]
      /\ P[D].slot = Trampoline /\ P[D].st = "run"
  <2>1. [K[D] EXCEPT !.slot = Trampoline] \in Frame
    BY <1>2, HooksAssumption DEF Frame, Trampoline
  <2>2. P = [K EXCEPT ![D] = [K[D] EXCEPT !.slot = Trampoline]]
    BY <1>1
  <2>3. P \in Seq(Frame) /\ Len(P) = D
    BY <1>1, <2>1, <2>2, ExceptSeq
  <2>. QED
    BY <1>1, <1>2, <2>1, <2>3, LenProperties DEF Frame
<1>5. /\ T \in Seq(Node) /\ Len(T) = m /\ DOMAIN T = 1 .. m
      /\ \A i \in 1 .. Len(S) : T[i] = S[i]
      /\ T[m] = n
  <2>1. T \in Seq(Node) /\ Len(T) = m
    BY <1>1, <1>3, AppendProperties
  <2>. QED
    BY <1>1, <1>3, <2>1, AppendProperties, LenProperties
<1>6. \A i \in 1 .. Len(S) : S[i] \in Node /\ S[i].frame \in 1 .. D
  BY StackFacts
<1>0. m = Len(S) + 1 /\ m - 1 = Len(S) /\ m \in Nat /\ m > 0
  BY <1>1
<1>. HIDE DEF D, n, P, T, m
<1>7. SlotsOK(P, T)
  <2>. SUFFICES ASSUME NEW d \in 1 .. D
                PROVE  /\ P[d].slot \in {Trampoline, d}
                       /\ P[d].slot = Trampoline <=> \E i \in 1 .. m : T[i].frame = d
    BY <1>4, <1>5 DEF SlotsOK
  <2>0. /\ K[d].slot \in {Trampoline, d}
        /\ K[d].slot = Trampoline <=> \E i \in 1 .. Len(S) : S[i].frame = d
    BY <1>1 DEF Matches, SlotsOK
  <2>1. CASE d = D
    BY <1>0, <1>3, <1>4, <1>5, <2>1
  <2>2. CASE d # D
    <3>1. (\E i \in 1 .. m : T[i].frame = d) <=> \E i \in 1 .. Len(S) : S[i].frame = d
      <4>1. ASSUME NEW i \in 1 .. m, T[i].frame = d
            PROVE  \E j \in 1 .. Len(S) : S[j].frame = d
        <5>1. i # m
          BY <1>3, <1>5, <2>2, <4>1
        <5>2. i \in 1 .. Len(S)
          BY <1>0, <1>1, <5>1
        <5>. QED
          BY <1>5, <4>1, <5>2
      <4>2. ASSUME NEW i \in 1 .. Len(S), S[i].frame = d
            PROVE  \E j \in 1 .. m : T[j].frame = d
        <5>1. i \in 1 .. m
          BY <1>0, <1>1
        <5>. QED
          BY <1>5, <4>2, <5>1
      <4>. QED
        BY <4>1, <4>2
    <3>. QED
      BY <1>4, <2>0, <2>2, <3>1
  <2>. QED
    BY <2>1, <2>2
<1>8. NodesOK(P, T)
  <2>1. \A i \in DOMAIN T : T[i].frame <= Len(P)
    <3>. SUFFICES ASSUME NEW i \in 1 .. m PROVE T[i].frame <= D
      BY <1>4, <1>5
    <3>1. CASE i \in 1 .. Len(S)
      BY <1>1, <1>5, <1>6, <3>1
    <3>2. CASE i = m
      BY <1>1, <1>3, <1>5, <3>2
    <3>. QED
      BY <1>0, <1>1, <3>1, <3>2
  <2>2. \A i, j \in DOMAIN T : i <= j => T[i].frame <= T[j].frame
    BY <1>0, <1>1, <1>3, <1>5, <1>6 DEF Matches, NodesOK
  <2>3. n.ret = Trampoline <=> Len(S) > 0 /\ S[Len(S)].frame = D
    <3>1. n.ret = Trampoline <=> \E i \in 1 .. Len(S) : S[i].frame = D
      BY <1>1, <1>3 DEF Matches, SlotsOK
    <3>2. \A i \in 1 .. Len(S) : S[i].frame <= S[Len(S)].frame
      BY <1>1 DEF Matches, NodesOK
    <3>. QED
      BY <1>1, <1>6, <3>1, <3>2
  <2>4. \A i \in DOMAIN T :
          T[i].ret = IF i > 1 /\ T[i].frame = T[i - 1].frame THEN Trampoline ELSE T[i].frame
    <3>1. \A i \in 1 .. Len(S) :
            T[i].ret = IF i > 1 /\ T[i].frame = T[i - 1].frame THEN Trampoline ELSE T[i].frame
      BY <1>0, <1>1, <1>5 DEF Matches, NodesOK
    <3>2. T[m].ret = IF m > 1 /\ T[m].frame = T[m - 1].frame THEN Trampoline ELSE T[m].frame
      BY <1>0, <1>1, <1>2, <1>3, <1>5, <2>3 DEF Trampoline
    <3>. QED
      BY <1>0, <1>1, <1>5, <3>1, <3>2
  <2>5. \A i \in DOMAIN T :
          \E j \in 1 .. i : T[j].frame = T[i].frame /\ T[j].ret # Trampoline
    <3>1. ASSUME NEW i \in 1 .. Len(S)
          PROVE  \E j \in 1 .. i : T[j].frame = T[i].frame /\ T[j].ret # Trampoline
      <4>1. PICK j \in 1 .. i : S[j].frame = S[i].frame /\ S[j].ret # Trampoline
        BY <1>1, <3>1 DEF Matches, NodesOK
      <4>. QED
        BY <1>0, <1>1, <1>3, <1>5, <4>1
    <3>2. \E j \in 1 .. m : T[j].frame = T[m].frame /\ T[j].ret # Trampoline
      <4>1. CASE n.ret # Trampoline
        BY <1>0, <1>1, <1>3, <1>5, <4>1
      <4>2. CASE n.ret = Trampoline
        <5>1. PICK j \in 1 .. Len(S) :
                T[j].frame = T[Len(S)].frame /\ T[j].ret # Trampoline
          BY <1>1, <2>3, <3>1, <4>2
        <5>. QED
          BY <1>0, <1>1, <1>3, <1>5, <2>3, <4>2, <5>1
      <4>. QED
        BY <4>1, <4>2
    <3>. QED
      BY <1>0, <1>1, <1>5, <3>1, <3>2
  <2>. QED
    BY <2>1, <2>2, <2>4, <2>5 DEF NodesOK
<1>9. HandlersOK(P, T)
  BY <1>0, <1>1, <1>3, <1>4, <1>5, <1>6 DEF Matches, HandlersOK
<1>10. PostsOK(P, T)
  <2>. SUFFICES ASSUME NEW i \in 1 .. m
                PROVE  T[i].ran <=> \/ P[T[i].frame].st = "fixup"
                                    \/ P[T[i].frame].st = "post" /\ i > P[T[i].frame].first
    BY <1>5 DEF PostsOK
  <2>1. CASE i = m
    BY <1>3, <1>4, <1>5, <2>1
  <2>2. CASE i # m
    <3>0. i \in 1 .. Len(S)
      BY <1>0, <1>1, <2>2
    <3>1. i \in 1 .. Len(S) /\ T[i] = S[i] /\ S[i].frame \in 1 .. D
      BY <1>5, <1>6, <3>0
    <3>2. S[i].ran <=> \/ K[S[i].frame].st = "fixup"
                       \/ K[S[i].frame].st = "post" /\ i > K[S[i].frame].first
      BY <1>1, <3>1 DEF Matches, PostsOK
    <3>3. CASE S[i].frame = D
      BY <1>4, <3>1, <3>2, <3>3 DEF D
    <3>4. CASE S[i].frame # D
      BY <1>4, <3>1, <3>2, <3>4
    <3>. QED
      BY <3>3, <3>4
  <2>. QED
    BY <2>1, <2>2
<1>. QED
  BY <1>0, <1>1, <1>4, <1>5, <1>7, <1>8, <1>9, <1>10, HooksAssumption
     DEF Matches, D, n, P, T, m

\* The innermost frame is changed.
LEMMA TopFacts ==
  ASSUME NEW K, NEW S, Matches(K, S), K # <<>>, NEW f \in Frame,
         NEW P, P = [K EXCEPT ![Len(K)] = f]
  PROVE  /\ P \in Seq(Frame) /\ Len(P) = Len(K) /\ DOMAIN P = 1 .. Len(K)
         /\ \A d \in 1 .. Len(K) : d # Len(K) => P[d] = K[d]
         /\ P[Len(K)] = f
<1>1. K \in Seq(Frame) /\ Len(K) \in 1 .. Len(K) /\ DOMAIN K = 1 .. Len(K)
  BY StackFacts
<1>2. P \in Seq(Frame) /\ Len(P) = Len(K)
  BY <1>1, ExceptSeq
<1>. QED
  BY <1>1, <1>2, LenProperties

\* A wrapper calls the original function.
LEMMA PendMatches ==
  ASSUME NEW K, NEW S, Matches(K, S), K # <<>>, NEW k \in Kinds,
         NEW P, P = [K EXCEPT ![Len(K)].pend = k]
  PROVE  Matches(P, S)
<1>. DEFINE D == Len(K)
            f == [K[D] EXCEPT !.pend = k]
<1>1. /\ K \in Seq(Frame) /\ D \in 1 .. D /\ DOMAIN K = 1 .. D
      /\ S \in Seq(Node) /\ Len(S) \in Nat /\ DOMAIN S = 1 .. Len(S)
      /\ K[D] \in Frame
  BY StackFacts
<1>2. /\ f \in Frame /\ f.slot = K[D].slot /\ f.st = K[D].st
      /\ f.node = K[D].node /\ f.first = K[D].first
  BY <1>1 DEF Frame
<1>3. P = [K EXCEPT ![D] = f]
  BY <1>1
<1>4. \A i \in 1 .. Len(S) : S[i] \in Node /\ S[i].frame \in 1 .. D
  BY StackFacts
<1>. HIDE DEF D, f
<1>5. /\ P \in Seq(Frame) /\ Len(P) = D /\ DOMAIN P = 1 .. D
      /\ \A d \in 1 .. D : d # D => P[d] = K[d]
      /\ P[D] = f
  <2>1. P = [K EXCEPT ![Len(K)] = f] /\ f \in Frame
    BY <1>2, <1>3 DEF D
  <2>2. /\ P \in Seq(Frame) /\ Len(P) = Len(K) /\ DOMAIN P = 1 .. Len(K)
        /\ \A d \in 1 .. Len(K) : d # Len(K) => P[d] = K[d]
        /\ P[Len(K)] = f
    BY <2>1, TopFacts
  <2>. QED
    BY <2>2 DEF D
<1>6. \A d \in 1 .. D : /\ P[d].slot = K[d].slot /\ P[d].st = K[d].st
                        /\ P[d].node = K[d].node /\ P[d].first = K[d].first
  BY <1>1, <1>2, <1>5
<1>7. SlotsOK(P, S)
  BY <1>1, <1>5, <1>6 DEF Matches, SlotsOK
<1>8. NodesOK(P, S)
  BY <1>5 DEF Matches, NodesOK, D
<1>9. HandlersOK(P, S)
  BY <1>1, <1>5, <1>6 DEF Matches, HandlersOK, D
<1>10. PostsOK(P, S)
  BY <1>1, <1>4, <1>5, <1>6 DEF Matches, PostsOK
<1>. QED
  BY <1>1, <1>5, <1>7, <1>8, <1>9, <1>10 DEF Matches, D

\* Where a frame returns to the trampoline, the newest node with an address
\* is the oldest of that frame, and has its address.
LEMMA LastRealIsTop ==
  ASSUME NEW K, NEW S, Matches(K, S), K # <<>>, K[Len(K)].slot = Trampoline,
         NEW R, R = {i \in DOMAIN S : S[i].ret # Trampoline}
  PROVE  /\ R # {} /\ S # <<>>
         /\ \E i \in R : \A j \in R : j <= i
         /\ S[Len(S)].frame = Len(K)
         /\ \A i \in R : (\A j \in R : j <= i) => S[i].frame = Len(K) /\ S[i].ret = Len(K)
<1>. DEFINE D == Len(K)
<1>1. /\ D \in 1 .. D /\ DOMAIN K = 1 .. D
      /\ S \in Seq(Node) /\ Len(S) \in Nat /\ DOMAIN S = 1 .. Len(S)
      /\ \A i \in 1 .. Len(S) : S[i].frame \in 1 .. D
  BY StackFacts
<1>2. PICK i \in 1 .. Len(S) : S[i].frame = D
  BY <1>1 DEF Matches, SlotsOK
<1>3. \A a, b \in 1 .. Len(S) : a <= b => S[a].frame <= S[b].frame
  BY <1>1 DEF Matches, NodesOK
<1>4. Len(S) \in 1 .. Len(S) /\ S[Len(S)].frame = D
  BY <1>1, <1>2, <1>3
<1>5. PICK k \in 1 .. Len(S) : S[k].frame = D /\ S[k].ret # Trampoline
  <2>1. \E k \in 1 .. Len(S) : S[k].frame = S[Len(S)].frame /\ S[k].ret # Trampoline
    BY <1>1, <1>4 DEF Matches, NodesOK
  <2>. QED
    BY <1>4, <2>1
<1>6. k \in R /\ R \in SUBSET (1 .. Len(S))
  BY <1>1, <1>5
<1>7. \E a \in R : \A j \in R : j <= a
  <2>. SUFFICES ASSUME NEW j \in R, k < j
                PROVE  FALSE
    BY <1>6
  <2>1. j \in 1 .. Len(S) /\ j - 1 \in 1 .. Len(S) /\ S[j].ret # Trampoline
    BY <1>6
  <2>2. S[j].frame = D /\ S[j - 1].frame = D
    BY <1>1, <1>3, <1>5, <2>1
  <2>3. S[j].ret = IF j > 1 /\ S[j].frame = S[j - 1].frame THEN Trampoline ELSE S[j].frame
    BY <1>1, <2>1 DEF Matches, NodesOK
  <2>. QED
    BY <2>1, <2>2, <2>3
<1>8. ASSUME NEW a \in R, \A j \in R : j <= a
      PROVE  S[a].frame = D /\ S[a].ret = D
  <2>1. k <= a /\ a \in 1 .. Len(S) /\ S[a].ret # Trampoline
    BY <1>6, <1>8
  <2>2. S[a].frame = D
    BY <1>1, <1>3, <1>5, <2>1
  <2>3. S[a].ret = IF a > 1 /\ S[a].frame = S[a - 1].frame THEN Trampoline ELSE S[a].frame
    BY <1>1, <2>1 DEF Matches, NodesOK
  <2>. QED
    BY <2>1, <2>2, <2>3
<1>9. S # <<>>
  BY <1>1, <1>4
<1>. QED
  BY <1>4, <1>6, <1>7, <1>8, <1>9

\* preempt_rethook_trampoline_handler() begins.
LEMMA EnterMatches ==
  ASSUME NEW K, NEW S, Matches(K, S), K # <<>>,
         K[Len(K)].st = "run", K[Len(K)].slot = Trampoline,
         NEW a \in DOMAIN S, S[a].frame = Len(K), S[a].ret = Len(K),
         S[Len(S)].frame = Len(K),
         NEW f \in Frame, f.slot = Trampoline, f.st = "post", f.node = a, f.first = Len(S),
         NEW P, P = [K EXCEPT ![Len(K)] = f]
  PROVE  Matches(P, S)
<1>. DEFINE D == Len(K)
<1>1. /\ K \in Seq(Frame) /\ D \in 1 .. D /\ DOMAIN K = 1 .. D
      /\ S \in Seq(Node) /\ Len(S) \in Nat /\ DOMAIN S = 1 .. Len(S)
      /\ K[D] \in Frame /\ Len(S) <= MaxNodes
  BY StackFacts, HooksAssumption
<1>4. \A i \in 1 .. Len(S) : S[i] \in Node /\ S[i].frame \in 1 .. D
  BY StackFacts
<1>5. /\ P \in Seq(Frame) /\ Len(P) = D /\ DOMAIN P = 1 .. D
      /\ \A d \in 1 .. D : d # D => P[d] = K[d]
      /\ P[D] = f
  <2>1. P \in Seq(Frame) /\ Len(P) = D
    BY <1>1, ExceptSeq
  <2>. QED
    BY <1>1, <2>1, LenProperties
<1>. HIDE DEF D
<1>6. \A d \in 1 .. D : P[d].slot = K[d].slot
  BY <1>1, <1>5 DEF D
<1>7. SlotsOK(P, S)
  BY <1>1, <1>5, <1>6 DEF Matches, SlotsOK
<1>8. NodesOK(P, S)
  BY <1>5 DEF Matches, NodesOK, D
<1>9. HandlersOK(P, S)
  <2>. SUFFICES ASSUME NEW d \in 1 .. D
                PROVE /\ P[d].st # "run" => P[d].node \in DOMAIN S /\ S[P[d].node].frame = d
                                            /\ S[P[d].node].ret = d
                      /\ P[d].st = "post" => P[d].first \in DOMAIN S /\ P[d].node <= P[d].first
                                             /\ S[P[d].first].frame = d
                      /\ P[d].st = "fixup" => d = Len(P)
    BY <1>5 DEF HandlersOK
  <2>1. CASE d = D
    BY <1>1, <1>5, <2>1 DEF D
  <2>2. CASE d # D
    BY <1>1, <1>5, <2>2 DEF Matches, HandlersOK, D
  <2>. QED
    BY <2>1, <2>2
<1>10. PostsOK(P, S)
  <2>. SUFFICES ASSUME NEW i \in 1 .. Len(S)
                PROVE  S[i].ran <=> \/ P[S[i].frame].st = "fixup"
                                    \/ P[S[i].frame].st = "post" /\ i > P[S[i].frame].first
    BY <1>1 DEF PostsOK
  <2>0. S[i].ran <=> \/ K[S[i].frame].st = "fixup"
                     \/ K[S[i].frame].st = "post" /\ i > K[S[i].frame].first
    BY <1>1 DEF Matches, PostsOK
  <2>1. CASE S[i].frame = D
    <3>1. ~(i > P[D].first) /\ P[D].st = "post" /\ K[D].st = "run"
      BY <1>1, <1>5 DEF D
    <3>. QED
      BY <2>0, <2>1, <3>1
  <2>2. CASE S[i].frame # D
    BY <1>4, <1>5, <2>0, <2>2
  <2>. QED
    BY <2>1, <2>2
<1>. QED
  BY <1>1, <1>5, <1>7, <1>8, <1>9, <1>10 DEF Matches, D

\* The nodes of the frame whose handler is at work are those from node on.
LEMMA NodesOfTop ==
  ASSUME NEW K, NEW S, Matches(K, S), K # <<>>, K[Len(K)].st # "run"
  PROVE  /\ K[Len(K)].node \in 1 .. Len(S) /\ S[K[Len(K)].node].ret = Len(K)
         /\ \A i \in 1 .. Len(S) : S[i].frame = Len(K) <=> i >= K[Len(K)].node
<1>. DEFINE D == Len(K)
            m == K[D].node
<1>1. /\ D \in 1 .. D /\ DOMAIN K = 1 .. D
      /\ Len(S) \in Nat /\ DOMAIN S = 1 .. Len(S)
      /\ \A i \in 1 .. Len(S) : S[i].frame \in 1 .. D
  BY StackFacts
<1>2. m \in 1 .. Len(S) /\ S[m].frame = D /\ S[m].ret = D
  BY <1>1 DEF Matches, HandlersOK
<1>. HIDE DEF D, m
<1>3. \A a, b \in 1 .. Len(S) : a <= b => S[a].frame <= S[b].frame
  BY <1>1 DEF Matches, NodesOK
<1>4. S[m].ret = IF m > 1 /\ S[m].frame = S[m - 1].frame THEN Trampoline ELSE S[m].frame
  BY <1>1, <1>2 DEF Matches, NodesOK
<1>5. m > 1 => S[m - 1].frame # D
  BY <1>1, <1>2, <1>4 DEF Trampoline
<1>6. ASSUME NEW i \in 1 .. Len(S), i < m
      PROVE  S[i].frame # D
  <2>1. m - 1 \in 1 .. Len(S) /\ i <= m - 1 /\ m > 1
    BY <1>1, <1>2, <1>6
  <2>2. S[i].frame <= S[m - 1].frame /\ S[m - 1].frame <= D /\ S[m - 1].frame # D
    BY <1>1, <1>3, <1>5, <2>1
  <2>. QED
    BY <1>1, <2>1, <2>2
<1>7. ASSUME NEW i \in 1 .. Len(S), i >= m
      PROVE  S[i].frame = D
  BY <1>1, <1>2, <1>3, <1>7
<1>. QED
  BY <1>1, <1>2, <1>6, <1>7 DEF D, m

\* One turn of the handler's loop.
LEMMA PostMatches ==
  ASSUME NEW K, NEW S, Matches(K, S), K # <<>>, K[Len(K)].st = "post",
         NEW f \in Frame, f.slot = K[Len(K)].slot, f.node = K[Len(K)].node,
         \/ K[Len(K)].first = K[Len(K)].node /\ f.st = "fixup"
         \/ /\ K[Len(K)].first # K[Len(K)].node /\ f.st = "post"
            /\ f.first = K[Len(K)].first - 1,
         NEW P, P = [K EXCEPT ![Len(K)] = f],
         NEW T, T = [S EXCEPT ![K[Len(K)].first].ran = TRUE]
  PROVE  Matches(P, T)
<1>. DEFINE D == Len(K)
            c == K[D].first
            m == K[D].node
            n == [S[c] EXCEPT !.ran = TRUE]
<1>1. /\ K \in Seq(Frame) /\ D \in 1 .. D /\ DOMAIN K = 1 .. D
      /\ S \in Seq(Node) /\ Len(S) \in Nat /\ DOMAIN S = 1 .. Len(S)
      /\ K[D] \in Frame
  BY StackFacts
<1>2. c \in 1 .. Len(S) /\ m \in 1 .. Len(S) /\ m <= c /\ S[c].frame = D /\ S[c] \in Node
  <2>1. c \in 1 .. Len(S) /\ m \in 1 .. Len(S) /\ m <= c /\ S[c].frame = D
    BY <1>1 DEF Matches, HandlersOK
  <2>. QED
    BY <2>1, StackFacts
<1>3. n \in Node /\ n.ret = S[c].ret /\ n.frame = S[c].frame /\ n.kind = S[c].kind /\ n.ran = TRUE
  BY <1>2 DEF Node
<1>4. \A i \in 1 .. Len(S) : S[i] \in Node /\ S[i].frame \in 1 .. D
  BY StackFacts
<1>5. \A i \in 1 .. Len(S) : S[i].frame = D <=> i >= m
  BY NodesOfTop
<1>6. /\ P \in Seq(Frame) /\ Len(P) = D /\ DOMAIN P = 1 .. D
      /\ \A d \in 1 .. D : d # D => P[d] = K[d]
      /\ P[D] = f
  <2>1. P \in Seq(Frame) /\ Len(P) = D
    BY <1>1, ExceptSeq
  <2>. QED
    BY <1>1, <2>1, LenProperties
<1>7. /\ T \in Seq(Node) /\ Len(T) = Len(S) /\ DOMAIN T = 1 .. Len(S)
      /\ \A i \in 1 .. Len(S) : i # c => T[i] = S[i]
      /\ T[c] = n
  <2>1. T = [S EXCEPT ![c] = n]
    BY <1>1, <1>2
  <2>2. T \in Seq(Node) /\ Len(T) = Len(S)
    BY <1>1, <1>2, <1>3, <2>1, ExceptSeq
  <2>. QED
    BY <1>1, <1>2, <2>1, <2>2, LenProperties
<1>8. \A i \in 1 .. Len(S) : T[i].ret = S[i].ret /\ T[i].frame = S[i].frame
  BY <1>3, <1>7
<1>9. \/ c = m /\ f.st = "fixup"
      \/ c # m /\ f.st = "post" /\ f.first = c - 1
  OBVIOUS
<1>10. f.node = m /\ f.slot = K[D].slot /\ K[D].st = "post"
  OBVIOUS
<1>. HIDE DEF D, c, m, n
<1>11. SlotsOK(P, T)
  BY <1>1, <1>6, <1>7, <1>8, <1>10 DEF Matches, SlotsOK
<1>12. NodesOK(P, T)
  <2>1. /\ \A i \in 1 .. Len(S) : S[i].frame <= D
        /\ \A i, j \in 1 .. Len(S) : i <= j => S[i].frame <= S[j].frame
        /\ \A i \in 1 .. Len(S) :
             S[i].ret = IF i > 1 /\ S[i].frame = S[i - 1].frame THEN Trampoline ELSE S[i].frame
        /\ \A i \in 1 .. Len(S) :
             \E k \in 1 .. i : S[k].frame = S[i].frame /\ S[k].ret # Trampoline
    BY <1>1 DEF Matches, NodesOK, D
  <2>2. \A i \in 1 .. Len(S) :
          T[i].ret = IF i > 1 /\ T[i].frame = T[i - 1].frame THEN Trampoline ELSE T[i].frame
    <3>. TAKE i \in 1 .. Len(S)
    <3>1. i > 1 => i - 1 \in 1 .. Len(S)
      BY <1>1
    <3>. QED
      BY <1>8, <2>1, <3>1
  <2>3. \A i \in 1 .. Len(S) :
          \E k \in 1 .. i : T[k].frame = T[i].frame /\ T[k].ret # Trampoline
    <3>. TAKE i \in 1 .. Len(S)
    <3>1. PICK k \in 1 .. i : S[k].frame = S[i].frame /\ S[k].ret # Trampoline
      BY <2>1
    <3>2. k \in 1 .. Len(S)
      BY <1>1
    <3>. QED
      BY <1>8, <3>1, <3>2
  <2>. QED
    BY <1>6, <1>7, <1>8, <2>1, <2>2, <2>3 DEF NodesOK
<1>13. HandlersOK(P, T)
  <2>. SUFFICES ASSUME NEW d \in 1 .. D
                PROVE /\ P[d].st # "run" => P[d].node \in DOMAIN T /\ T[P[d].node].frame = d
                                            /\ T[P[d].node].ret = d
                      /\ P[d].st = "post" => P[d].first \in DOMAIN T /\ P[d].node <= P[d].first
                                             /\ T[P[d].first].frame = d
                      /\ P[d].st = "fixup" => d = Len(P)
    BY <1>6 DEF HandlersOK
  <2>0. /\ K[d].st # "run" => /\ K[d].node \in 1 .. Len(S)
                              /\ S[K[d].node].frame = d /\ S[K[d].node].ret = d
        /\ K[d].st = "post" => /\ K[d].first \in 1 .. Len(S)
                               /\ K[d].node <= K[d].first /\ S[K[d].first].frame = d
        /\ K[d].st = "fixup" => d = D
    BY <1>1 DEF Matches, HandlersOK, D
  <2>1. CASE d = D
    <3>1. S[m].frame = D /\ S[m].ret = D
      BY <1>10, <2>0, <2>1 DEF m
    <3>2. CASE c = m
      BY <1>2, <1>6, <1>7, <1>8, <1>9, <1>10, <2>1, <3>1, <3>2
    <3>3. CASE c # m
      <4>1. c - 1 \in 1 .. Len(S) /\ m <= c - 1
        BY <1>1, <1>2, <3>3
      <4>2. S[c - 1].frame = D
        BY <1>5, <4>1
      <4>. QED
        BY <1>2, <1>6, <1>7, <1>8, <1>9, <1>10, <2>1, <3>1, <3>3, <4>1, <4>2
    <3>. QED
      BY <3>2, <3>3
  <2>2. CASE d # D
    BY <1>6, <1>7, <1>8, <2>0, <2>2
  <2>. QED
    BY <2>1, <2>2
<1>14. PostsOK(P, T)
  <2>. SUFFICES ASSUME NEW i \in 1 .. Len(S)
                PROVE  T[i].ran <=> \/ P[S[i].frame].st = "fixup"
                                    \/ P[S[i].frame].st = "post" /\ i > P[S[i].frame].first
    BY <1>7, <1>8 DEF PostsOK
  <2>0. S[i].ran <=> \/ K[S[i].frame].st = "fixup"
                     \/ K[S[i].frame].st = "post" /\ i > K[S[i].frame].first
    BY <1>1 DEF Matches, PostsOK
  <2>1. CASE S[i].frame # D
    <3>1. i # c
      BY <1>2, <2>1
    <3>. QED
      BY <1>4, <1>6, <1>7, <2>0, <2>1, <3>1
  <2>2. CASE S[i].frame = D
    <3>1. S[i].ran <=> i > c
      BY <1>10, <2>0, <2>2 DEF c
    <3>2. i >= m
      BY <1>5, <2>2
    <3>3. CASE i = c
      <4>1. f.st = "fixup" \/ (f.st = "post" /\ i > f.first)
        BY <1>1, <1>2, <1>9, <3>3
      <4>. QED
        BY <1>3, <1>6, <1>7, <2>2, <3>3, <4>1
    <3>4. CASE i # c
      <4>1. i > c <=> f.st = "fixup" \/ (f.st = "post" /\ i > f.first)
        BY <1>1, <1>2, <1>9, <3>2, <3>4
      <4>. QED
        BY <1>6, <1>7, <2>2, <3>1, <3>4, <4>1
    <3>. QED
      BY <3>3, <3>4
  <2>. QED
    BY <2>1, <2>2
<1>. QED
  BY <1>1, <1>6, <1>7, <1>11, <1>12, <1>13, <1>14 DEF Matches, D

\* The handler ends: the nodes of the frame go with the frame.
LEMMA ExitMatches ==
  ASSUME NEW K, NEW S, Matches(K, S), K # <<>>, K[Len(K)].st = "fixup",
         NEW P, P = SubSeq(K, 1, Len(K) - 1),
         NEW T, T = SubSeq(S, 1, K[Len(K)].node - 1)
  PROVE  Matches(P, T) /\ OwedBy(T) = OwedBy(S)
<1>. DEFINE D == Len(K)
            m == K[D].node
<1>1. /\ K \in Seq(Frame) /\ D \in 1 .. D /\ DOMAIN K = 1 .. D
      /\ S \in Seq(Node) /\ Len(S) \in Nat /\ DOMAIN S = 1 .. Len(S)
      /\ Len(S) <= MaxNodes /\ D <= MaxDepth
  BY StackFacts DEF Matches
<1>2. /\ m \in 1 .. Len(S)
      /\ \A i \in 1 .. Len(S) : S[i].frame = D <=> i >= m
  BY NodesOfTop
<1>3. \A i \in 1 .. Len(S) : S[i] \in Node /\ S[i].frame \in 1 .. D
  BY StackFacts
<1>4. /\ P \in Seq(Frame) /\ Len(P) = D - 1 /\ DOMAIN P = 1 .. D - 1
      /\ \A d \in 1 .. D - 1 : P[d] = K[d]
  <2>1. \A d \in 1 .. D - 1 : K[d] \in Frame
    BY <1>1, ElementOfSeq
  <2>2. P \in Seq(Frame) /\ Len(P) = D - 1 /\ \A d \in 1 .. D - 1 : P[d] = K[d]
    BY <1>1, <2>1, SubSeqProperties
  <2>. QED
    BY <1>1, <2>2, LenProperties
<1>. HIDE DEF m
<1>5. /\ T \in Seq(Node) /\ Len(T) = m - 1 /\ DOMAIN T = 1 .. m - 1
      /\ \A i \in 1 .. m - 1 : T[i] = S[i]
  <2>0. T = SubSeq(S, 1, m - 1)
    BY DEF m
  <2>1. \A i \in 1 .. m - 1 : S[i] \in Node
    BY <1>1, <1>2, <1>3
  <2>2. T \in Seq(Node) /\ Len(T) = m - 1 /\ \A i \in 1 .. m - 1 : T[i] = S[i]
    <3>. DEFINE e == m - 1
    <3>1. e \in Nat /\ 1 \in Int /\ e \in Int
      BY <1>1, <1>2
    <3>. HIDE DEF e
    <3>2. /\ SubSeq(S, 1, e) \in Seq(Node)
          /\ Len(SubSeq(S, 1, e)) = IF 1 <= e THEN e - 1 + 1 ELSE 0
          /\ \A i \in 1 .. e - 1 + 1 : SubSeq(S, 1, e)[i] = S[1 + i - 1]
      BY <2>1, <3>1, SubSeqProperties DEF e
    <3>3. SubSeq(S, 1, e) \in Seq(Node) /\ Len(SubSeq(S, 1, e)) = e
          /\ \A i \in 1 .. e : SubSeq(S, 1, e)[i] = S[i]
      BY <3>1, <3>2
    <3>. QED
      BY <2>0, <3>3 DEF e
  <2>. QED
    BY <1>1, <2>2, LenProperties
<1>. HIDE DEF D
<1>6. \A i \in 1 .. m - 1 : i \in 1 .. Len(S) /\ S[i].frame \in 1 .. D - 1
  <2>. TAKE i \in 1 .. m - 1
  <2>1. i \in 1 .. Len(S) /\ ~(i >= m)
    BY <1>1, <1>2
  <2>. QED
    BY <1>1, <1>2, <1>3, <2>1
<1>7. SlotsOK(P, T)
  <2>. SUFFICES ASSUME NEW d \in 1 .. D - 1
                PROVE  /\ P[d].slot \in {Trampoline, d}
                       /\ P[d].slot = Trampoline <=> \E i \in 1 .. m - 1 : T[i].frame = d
    BY <1>4, <1>5 DEF SlotsOK
  <2>1. d \in 1 .. D /\ d # D
    BY <1>1
  <2>2. /\ K[d].slot \in {Trampoline, d}
        /\ K[d].slot = Trampoline <=> \E i \in 1 .. Len(S) : S[i].frame = d
    BY <1>1, <2>1 DEF Matches, SlotsOK
  <2>3. \A i \in 1 .. Len(S) : S[i].frame = d => i \in 1 .. m - 1
    BY <1>1, <1>2, <2>1
  <2>. QED
    BY <1>4, <1>5, <1>6, <2>2, <2>3
<1>8. NodesOK(P, T)
  <2>1. /\ \A i, j \in 1 .. Len(S) : i <= j => S[i].frame <= S[j].frame
        /\ \A i \in 1 .. Len(S) :
             S[i].ret = IF i > 1 /\ S[i].frame = S[i - 1].frame THEN Trampoline ELSE S[i].frame
        /\ \A i \in 1 .. Len(S) :
             \E k \in 1 .. i : S[k].frame = S[i].frame /\ S[k].ret # Trampoline
    BY <1>1 DEF Matches, NodesOK
  <2>2. \A i \in 1 .. m - 1 :
          T[i].ret = IF i > 1 /\ T[i].frame = T[i - 1].frame THEN Trampoline ELSE T[i].frame
    <3>. TAKE i \in 1 .. m - 1
    <3>1. i > 1 => i - 1 \in 1 .. m - 1
      BY <1>2
    <3>. QED
      BY <1>5, <1>6, <2>1, <3>1
  <2>3. \A i \in 1 .. m - 1 :
          \E k \in 1 .. i : T[k].frame = T[i].frame /\ T[k].ret # Trampoline
    <3>. TAKE i \in 1 .. m - 1
    <3>1. PICK k \in 1 .. i : S[k].frame = S[i].frame /\ S[k].ret # Trampoline
      BY <1>6, <2>1
    <3>2. k \in 1 .. m - 1
      BY <1>2
    <3>. QED
      BY <1>5, <3>1, <3>2
  <2>4. \A i \in 1 .. m - 1 : T[i].frame <= Len(P)
    BY <1>1, <1>4, <1>5, <1>6
  <2>5. \A i, j \in 1 .. m - 1 : i <= j => T[i].frame <= T[j].frame
    BY <1>5, <1>6, <2>1
  <2>. QED
    BY <1>5, <2>2, <2>3, <2>4, <2>5 DEF NodesOK
<1>9. HandlersOK(P, T)
  <2>. SUFFICES ASSUME NEW d \in 1 .. D - 1
                PROVE /\ P[d].st # "run" => P[d].node \in 1 .. m - 1 /\ T[P[d].node].frame = d
                                            /\ T[P[d].node].ret = d
                      /\ P[d].st = "post" => P[d].first \in 1 .. m - 1 /\ P[d].node <= P[d].first
                                             /\ T[P[d].first].frame = d
                      /\ P[d].st = "fixup" => d = Len(P)
    BY <1>4, <1>5 DEF HandlersOK
  <2>1. d \in 1 .. D /\ d # D
    BY <1>1
  <2>2. /\ K[d].st # "run" => /\ K[d].node \in 1 .. Len(S)
                              /\ S[K[d].node].frame = d /\ S[K[d].node].ret = d
        /\ K[d].st = "post" => /\ K[d].first \in 1 .. Len(S)
                               /\ K[d].node <= K[d].first /\ S[K[d].first].frame = d
        /\ K[d].st = "fixup" => d = D
    BY <1>1, <2>1 DEF Matches, HandlersOK, D
  <2>3. \A i \in 1 .. Len(S) : S[i].frame = d => i \in 1 .. m - 1
    BY <1>1, <1>2, <2>1
  <2>. QED
    BY <1>4, <1>5, <2>1, <2>2, <2>3
<1>10. PostsOK(P, T)
  <2>. SUFFICES ASSUME NEW i \in 1 .. m - 1
                PROVE  T[i].ran <=> \/ P[T[i].frame].st = "fixup"
                                    \/ P[T[i].frame].st = "post" /\ i > P[T[i].frame].first
    BY <1>5 DEF PostsOK
  <2>1. S[i].ran <=> \/ K[S[i].frame].st = "fixup"
                     \/ K[S[i].frame].st = "post" /\ i > K[S[i].frame].first
    BY <1>1, <1>6 DEF Matches, PostsOK
  <2>2. T[i] = S[i] /\ S[i].frame \in 1 .. D - 1
    BY <1>5, <1>6
  <2>3. P[S[i].frame] = K[S[i].frame]
    BY <1>4, <2>2
  <2>. QED
    BY <2>1, <2>2, <2>3
<1>11. Matches(P, T)
  <2>1. Len(P) <= MaxDepth /\ Len(T) <= MaxNodes
    BY <1>1, <1>2, <1>4, <1>5, HooksAssumption
  <2>. QED
    BY <1>4, <1>5, <1>7, <1>8, <1>9, <1>10, <2>1 DEF Matches
<1>12. \A i \in 1 .. Len(S) : i >= m => S[i].ran
  <2>. TAKE i \in 1 .. Len(S)
  <2>. HAVE i >= m
  <2>1. S[i].frame = D
    BY <1>2
  <2>. QED
    BY <1>1, <2>1 DEF Matches, PostsOK, D
<1>13. \A i \in 1 .. Len(S) : ~S[i].ran => i \in 1 .. m - 1
  BY <1>1, <1>2, <1>12
<1>14. ASSUME NEW i \in OwedBy(S)
       PROVE  i \in OwedBy(T)
  <2>1. i \in 1 .. Len(S) /\ S[i].kind = "nowrite" /\ ~S[i].ran
    BY <1>1, <1>14 DEF OwedBy
  <2>2. i \in 1 .. m - 1
    BY <1>13, <2>1
  <2>. QED
    BY <1>5, <2>1, <2>2 DEF OwedBy
<1>15. ASSUME NEW i \in OwedBy(T)
       PROVE  i \in OwedBy(S)
  <2>1. i \in 1 .. m - 1 /\ T[i].kind = "nowrite" /\ ~T[i].ran
    BY <1>5, <1>15 DEF OwedBy
  <2>. QED
    BY <1>1, <1>5, <1>6, <2>1 DEF OwedBy
<1>. QED
  BY <1>11, <1>14, <1>15

-----------------------------------------------------------------------------
(* What a task owes.                                                       *)

LEMMA OwedFacts ==
  ASSUME NEW K, NEW S, Matches(K, S)
  PROVE  /\ IsFiniteSet(OwedBy(S)) /\ Cardinality(OwedBy(S)) \in Nat
         /\ IsFiniteSet(OwedIn(K)) /\ Cardinality(OwedIn(K)) \in Nat
<1>1. /\ Len(K) \in Nat /\ DOMAIN K = 1 .. Len(K)
      /\ Len(S) \in Nat /\ DOMAIN S = 1 .. Len(S)
  BY StackFacts
<1>2. IsFiniteSet(1 .. Len(K)) /\ IsFiniteSet(1 .. Len(S))
  BY <1>1, FS_Interval
<1>3. OwedBy(S) \in SUBSET (1 .. Len(S)) /\ OwedIn(K) \in SUBSET (1 .. Len(K))
  BY <1>1 DEF OwedBy, OwedIn
<1>4. IsFiniteSet(OwedBy(S)) /\ IsFiniteSet(OwedIn(K))
  BY <1>2, <1>3, FS_Subset
<1>. QED
  BY <1>4, FS_CardinalityType

\* A new node.
LEMMA AppendOwed ==
  ASSUME NEW K, NEW S, Matches(K, S), NEW n \in Node, n.ran = FALSE
  PROVE  Cardinality(OwedBy(Append(S, n)))
           = IF n.kind = "nowrite" THEN Cardinality(OwedBy(S)) + 1 ELSE Cardinality(OwedBy(S))
<1>. DEFINE T == Append(S, n)
            m == Len(S) + 1
<1>1. /\ S \in Seq(Node) /\ Len(S) \in Nat /\ DOMAIN S = 1 .. Len(S)
  BY StackFacts
<1>2. /\ DOMAIN T = 1 .. m /\ T[m] = n
      /\ \A i \in 1 .. Len(S) : T[i] = S[i]
  <2>1. T \in Seq(Node) /\ Len(T) = m
    BY <1>1, AppendProperties
  <2>. QED
    BY <1>1, <2>1, AppendProperties, LenProperties
<1>3. m \notin DOMAIN S /\ 1 .. m = (1 .. Len(S)) \cup {m}
  BY <1>1
<1>4. m \notin OwedBy(S)
  BY <1>3 DEF OwedBy
<1>. HIDE DEF T, m
<1>5. CASE n.kind = "nowrite"
  <2>1. OwedBy(T) = OwedBy(S) \cup {m}
    BY <1>1, <1>2, <1>3, <1>5 DEF OwedBy
  <2>. QED
    BY <1>4, <1>5, <2>1, OwedFacts, FS_AddElement DEF T
<1>6. CASE n.kind # "nowrite"
  <2>1. OwedBy(T) = OwedBy(S)
    BY <1>1, <1>2, <1>3, <1>6 DEF OwedBy
  <2>. QED
    BY <1>6, <2>1 DEF T
<1>. QED
  BY <1>5, <1>6

\* The hook of a node has run.
LEMMA RanOwed ==
  ASSUME NEW K, NEW S, Matches(K, S), NEW c \in DOMAIN S, ~S[c].ran
  PROVE  /\ Cardinality(OwedBy([S EXCEPT ![c].ran = TRUE]))
              = IF S[c].kind = "nowrite" THEN Cardinality(OwedBy(S)) - 1
                ELSE Cardinality(OwedBy(S))
         /\ S[c].kind = "nowrite" => Cardinality(OwedBy(S)) > 0
<1>. DEFINE T == [S EXCEPT ![c].ran = TRUE]
<1>1. S[c] \in Node
  BY StackFacts
<1>2. /\ DOMAIN T = DOMAIN S
      /\ \A i \in DOMAIN S : i # c => T[i] = S[i]
      /\ T[c].ran = TRUE
  BY <1>1 DEF Node
<1>. HIDE DEF T
<1>3. OwedBy(T) = OwedBy(S) \ {c}
  BY <1>2 DEF OwedBy
<1>4. c \in OwedBy(S) <=> S[c].kind = "nowrite"
  BY DEF OwedBy
<1>5. IsFiniteSet(OwedBy(S)) /\ Cardinality(OwedBy(S)) \in Nat
  BY OwedFacts
<1>6. Cardinality(OwedBy(T)) = IF c \in OwedBy(S) THEN Cardinality(OwedBy(S)) - 1
                               ELSE Cardinality(OwedBy(S))
  BY <1>3, <1>5, FS_RemoveElement
<1>7. c \in OwedBy(S) => Cardinality(OwedBy(S)) # 0
  BY <1>5, FS_EmptySet
<1>. QED
  BY <1>4, <1>5, <1>6, <1>7 DEF T

\* A call begins.
LEMMA PushOwed ==
  ASSUME NEW K, NEW S, Matches(K, S), Len(K) < MaxDepth
  PROVE  OwedIn(Append(K, Plain(Len(K) + 1))) = OwedIn(K)
<1>. DEFINE P == Append(K, Plain(Len(K) + 1))
            m == Len(K) + 1
<1>1. /\ K \in Seq(Frame) /\ Len(K) \in Nat /\ DOMAIN K = 1 .. Len(K)
      /\ m \in 1 .. MaxDepth /\ Plain(m) \in Frame
  <2>1. K \in Seq(Frame) /\ Len(K) \in Nat /\ DOMAIN K = 1 .. Len(K)
    BY StackFacts
  <2>. QED
    BY <2>1, PlainIsFrame, HooksAssumption
<1>2. /\ DOMAIN P = 1 .. m /\ P[m] = Plain(m)
      /\ \A i \in 1 .. Len(K) : P[i] = K[i]
  <2>1. P \in Seq(Frame) /\ Len(P) = m
    BY <1>1, AppendProperties
  <2>. QED
    BY <1>1, <2>1, AppendProperties, LenProperties
<1>3. 1 .. m = (1 .. Len(K)) \cup {m}
  BY <1>1
<1>4. P[m].pend = "none"
  BY <1>2 DEF Plain
<1>. HIDE DEF P, m
<1>5. OwedIn(P) = OwedIn(K)
  BY <1>1, <1>2, <1>3, <1>4 DEF OwedIn
<1>. QED
  BY <1>5 DEF P, m

\* ... in a wrapper.
LEMMA PendOwed ==
  ASSUME NEW K, NEW S, Matches(K, S), K # <<>>, K[Len(K)].pend = "none", NEW k \in Kinds
  PROVE  Cardinality(OwedIn([K EXCEPT ![Len(K)].pend = k]))
           = IF k = "nowrite" THEN Cardinality(OwedIn(K)) + 1 ELSE Cardinality(OwedIn(K))
<1>. DEFINE D == Len(K)
            P == [K EXCEPT ![D].pend = k]
<1>1. D \in DOMAIN K /\ K[D] \in Frame
  BY StackFacts
<1>2. /\ DOMAIN P = DOMAIN K
      /\ \A d \in DOMAIN K : d # D => P[d] = K[d]
      /\ P[D].pend = k
  BY <1>1 DEF Frame
<1>3. D \notin OwedIn(K)
  BY DEF OwedIn
<1>. HIDE DEF D, P
<1>4. CASE k = "nowrite"
  <2>1. OwedIn(P) = OwedIn(K) \cup {D}
    BY <1>1, <1>2, <1>4 DEF OwedIn
  <2>. QED
    BY <1>3, <1>4, <2>1, OwedFacts, FS_AddElement DEF D, P
<1>5. CASE k # "nowrite"
  <2>1. OwedIn(P) = OwedIn(K)
    BY <1>1, <1>2, <1>3, <1>5 DEF OwedIn
  <2>. QED
    BY <1>5, <2>1 DEF D, P
<1>. QED
  BY <1>4, <1>5

\* A call returns.
LEMMA PopOwed ==
  ASSUME NEW K, NEW S, Matches(K, S), K # <<>>
  PROVE  /\ Cardinality(OwedIn(SubSeq(K, 1, Len(K) - 1)))
              = IF K[Len(K)].pend = "nowrite" THEN Cardinality(OwedIn(K)) - 1
                ELSE Cardinality(OwedIn(K))
         /\ K[Len(K)].pend = "nowrite" => Cardinality(OwedIn(K)) > 0
<1>. DEFINE D == Len(K)
            P == SubSeq(K, 1, D - 1)
<1>1. K \in Seq(Frame) /\ D \in Nat \ {0} /\ DOMAIN K = 1 .. D
  BY StackFacts
<1>2. DOMAIN P = 1 .. D - 1 /\ \A d \in 1 .. D - 1 : P[d] = K[d]
  <2>1. \A d \in 1 .. D - 1 : K[d] \in Frame
    BY <1>1, ElementOfSeq
  <2>2. P \in Seq(Frame) /\ Len(P) = D - 1 /\ \A d \in 1 .. D - 1 : P[d] = K[d]
    BY <1>1, <2>1, SubSeqProperties
  <2>. QED
    BY <1>1, <2>2, LenProperties
<1>3. 1 .. D - 1 = (1 .. D) \ {D} /\ D \in 1 .. D
  BY <1>1
<1>. HIDE DEF D, P
<1>4. OwedIn(P) = OwedIn(K) \ {D}
  BY <1>1, <1>2, <1>3 DEF OwedIn
<1>5. D \in OwedIn(K) <=> K[D].pend = "nowrite"
  BY <1>1, <1>3 DEF OwedIn
<1>6. IsFiniteSet(OwedIn(K)) /\ Cardinality(OwedIn(K)) \in Nat
  BY OwedFacts
<1>7. Cardinality(OwedIn(P)) = IF D \in OwedIn(K) THEN Cardinality(OwedIn(K)) - 1
                               ELSE Cardinality(OwedIn(K))
  BY <1>4, <1>6, FS_RemoveElement
<1>8. D \in OwedIn(K) => Cardinality(OwedIn(K)) # 0
  BY <1>6, FS_EmptySet
<1>. QED
  BY <1>5, <1>6, <1>7, <1>8 DEF D, P

\* Where no wrapper runs, no frame owes anything.
LEMMA NoPendOwed ==
  ASSUME NEW K, \A d \in DOMAIN K : K[d].pend = "none"
  PROVE  OwedIn(K) = {} /\ Cardinality(OwedIn(K)) = 0
<1>1. OwedIn(K) = {}
  BY DEF OwedIn
<1>. QED
  BY <1>1, FS_EmptySet

-----------------------------------------------------------------------------
(* One task.                                                               *)

LEMMA TaskPush ==
  ASSUME NEW dr \in BOOLEAN, NEW K, NEW S, NEW tn, NEW o, NEW l, TaskInv(dr, K, S, tn, o, l),
         Len(K) < MaxDepth, K # <<>> => K[Len(K)].st # "fixup"
  PROVE  /\ TaskInv(dr, Append(K, Plain(Len(K) + 1)), S, tn, o, l)
         /\ Append(K, Plain(Len(K) + 1)) # <<>>
         /\ Len(Append(K, Plain(Len(K) + 1))) = Len(K) + 1
         /\ Append(K, Plain(Len(K) + 1))[Len(K) + 1] = Plain(Len(K) + 1)
<1>. DEFINE P == Append(K, Plain(Len(K) + 1))
<1>0. Matches(K, S)
  BY DEF TaskInv
<1>1. K \in Seq(Frame) /\ Len(K) \in Nat /\ DOMAIN K = 1 .. Len(K)
  BY <1>0, StackFacts
<1>2. Plain(Len(K) + 1) \in Frame /\ Plain(Len(K) + 1).pend = "none"
  <2>1. Len(K) + 1 \in 1 .. MaxDepth
    BY <1>1, HooksAssumption
  <2>. QED
    BY <2>1, PlainIsFrame DEF Plain
<1>3. /\ P \in Seq(Frame) /\ Len(P) = Len(K) + 1
      /\ \A d \in 1 .. Len(K) : P[d] = K[d]
      /\ P[Len(K) + 1] = Plain(Len(K) + 1)
  BY <1>1, <1>2, AppendProperties
<1>4. DOMAIN P = 1 .. Len(K) + 1
  BY <1>3, LenProperties
<1>5. Matches(P, S) /\ OwedIn(P) = OwedIn(K)
  BY <1>0, PushMatches, PushOwed
<1>6. P # <<>>
  BY <1>1, <1>3, EmptySeq
<1>7. (\A d \in DOMAIN K : K[d].pend = "none") => \A d \in DOMAIN P : P[d].pend = "none"
  BY <1>1, <1>2, <1>3, <1>4
<1>8. TaskInv(dr, P, S, tn, o, l)
  <2>. HIDE DEF P
  <2>. QED
    BY <1>5, <1>7 DEF TaskInv
<1>. QED
  BY <1>3, <1>6, <1>8

LEMMA TaskPend ==
  ASSUME NEW K, NEW S, NEW tn, NEW o, NEW l \in Nat, TaskInv(TRUE, K, S, tn, o, l),
         K # <<>>, K[Len(K)].pend = "none", NEW k \in Kinds,
         NEW P, P = [K EXCEPT ![Len(K)].pend = k]
  PROVE  TaskInv(TRUE, P, S, tn, IF k = "nowrite" THEN o + 1 ELSE o, l)
<1>0. Matches(K, S)
  BY DEF TaskInv
<1>1. Matches(P, S)
  BY <1>0, PendMatches
<1>2. Cardinality(OwedIn(P)) = IF k = "nowrite" THEN Cardinality(OwedIn(K)) + 1
                               ELSE Cardinality(OwedIn(K))
  BY <1>0, PendOwed
<1>3. Cardinality(OwedIn(K)) \in Nat /\ Cardinality(OwedBy(S)) \in Nat
  BY <1>0, OwedFacts
<1>. QED
  BY <1>1, <1>2, <1>3 DEF TaskInv

LEMMA TaskPrepare ==
  ASSUME NEW K, NEW S, NEW tn, NEW o, NEW l \in Nat, TaskInv(FALSE, K, S, tn, o, l),
         K # <<>>, K[Len(K)].st = "run", NEW k \in Kinds, Len(S) < MaxNodes,
         NEW P, P = [K EXCEPT ![Len(K)].slot = Trampoline],
         NEW T, T = Append(S, Prepared(Len(K), K[Len(K)].slot, k))
  PROVE  TaskInv(FALSE, P, T, TRUE, IF k = "nowrite" THEN o + 1 ELSE o, l)
<1>. DEFINE n == Prepared(Len(K), K[Len(K)].slot, k)
<1>0. Matches(K, S)
  BY DEF TaskInv
<1>1. Matches(P, T)
  BY <1>0, PrepareMatches
<1>2. /\ S \in Seq(Node) /\ Len(S) \in Nat /\ DOMAIN K = 1 .. Len(K)
      /\ Len(K) \in 1 .. MaxDepth /\ K[Len(K)] \in Frame
  <2>1. S \in Seq(Node) /\ Len(S) \in Nat /\ DOMAIN K = 1 .. Len(K) /\ Len(K) \in 1 .. MaxDepth
    BY <1>0, StackFacts
  <2>2. \A d \in 1 .. Len(K) : K[d] \in Frame
    BY <1>0, StackFacts
  <2>. QED
    BY <2>1, <2>2, HooksAssumption
<1>3. n \in Node /\ n.ran = FALSE /\ n.kind = k
  BY <1>2 DEF Prepared, Node, Frame
<1>4. T # <<>>
  BY <1>2, <1>3, AppendProperties
<1>5. Cardinality(OwedBy(T)) = IF k = "nowrite" THEN Cardinality(OwedBy(S)) + 1
                               ELSE Cardinality(OwedBy(S))
  BY <1>0, <1>3, AppendOwed
<1>6. \A d \in DOMAIN P : P[d].pend = "none"
  BY <1>2 DEF TaskInv, Frame
<1>7. Cardinality(OwedIn(P)) = 0 /\ Cardinality(OwedIn(K)) = 0
  BY <1>6, NoPendOwed DEF TaskInv
<1>8. Cardinality(OwedBy(S)) \in Nat
  BY <1>0, OwedFacts
<1>. HIDE DEF n
<1>. QED
  BY <1>1, <1>4, <1>5, <1>6, <1>7, <1>8 DEF TaskInv

LEMMA TaskLost ==
  ASSUME NEW dr, NEW K, NEW S, NEW tn, NEW o, NEW l \in Nat, TaskInv(dr, K, S, tn, o, l)
  PROVE  TaskInv(dr, K, S, tn, o + 1, l + 1)
<1>1. Cardinality(OwedIn(K)) \in Nat /\ Cardinality(OwedBy(S)) \in Nat
  BY OwedFacts DEF TaskInv
<1>. QED
  BY <1>1 DEF TaskInv

LEMMA TaskReturns ==
  ASSUME NEW dr \in BOOLEAN, NEW K, NEW S, NEW tn, NEW o, NEW l \in Nat,
         TaskInv(dr, K, S, tn, o, l), K # <<>>, K[Len(K)].slot # Trampoline,
         NEW P, P = SubSeq(K, 1, Len(K) - 1)
  PROVE  TaskInv(dr, P, S, tn, IF K[Len(K)].pend = "nowrite" THEN o - 1 ELSE o, l)
<1>0. Matches(K, S)
  BY DEF TaskInv
<1>1. Matches(P, S)
  BY <1>0, PopMatches
<1>2. /\ Cardinality(OwedIn(P)) = IF K[Len(K)].pend = "nowrite" THEN Cardinality(OwedIn(K)) - 1
                                  ELSE Cardinality(OwedIn(K))
      /\ K[Len(K)].pend = "nowrite" => Cardinality(OwedIn(K)) > 0
  BY <1>0, PopOwed
<1>3. Cardinality(OwedIn(K)) \in Nat /\ Cardinality(OwedBy(S)) \in Nat
  BY <1>0, OwedFacts
<1>4. (\A d \in DOMAIN K : K[d].pend = "none") => \A d \in DOMAIN P : P[d].pend = "none"
  <2>1. K \in Seq(Frame) /\ Len(K) \in Nat \ {0} /\ DOMAIN K = 1 .. Len(K)
    BY <1>0, StackFacts
  <2>2. \A d \in 1 .. Len(K) - 1 : K[d] \in Frame
    BY <2>1, ElementOfSeq
  <2>3. P \in Seq(Frame) /\ Len(P) = Len(K) - 1 /\ \A d \in 1 .. Len(K) - 1 : P[d] = K[d]
    BY <2>1, <2>2, SubSeqProperties
  <2>4. DOMAIN P = 1 .. Len(K) - 1
    BY <2>3, LenProperties
  <2>. QED
    BY <2>1, <2>3, <2>4
<1>. QED
  BY <1>1, <1>2, <1>3, <1>4 DEF TaskInv

\* Only the innermost frame's handler is changed.
LEMMA TopPend ==
  ASSUME NEW K, NEW S, Matches(K, S), K # <<>>, NEW f, f.pend = K[Len(K)].pend,
         \A d \in DOMAIN K : K[d].pend = "none",
         NEW P, P = [K EXCEPT ![Len(K)] = f]
  PROVE  \A d \in DOMAIN P : P[d].pend = "none"
<1>1. Len(K) \in DOMAIN K
  BY StackFacts
<1>. QED
  BY <1>1

LEMMA TaskEnter ==
  ASSUME NEW K, NEW S, NEW tn, NEW o, NEW l \in Nat, TaskInv(FALSE, K, S, tn, o, l),
         K # <<>>, K[Len(K)].st = "run", K[Len(K)].slot = Trampoline,
         NEW a \in DOMAIN S, S[a].frame = Len(K), S[a].ret = Len(K), S[Len(S)].frame = Len(K),
         NEW f, f = [K[Len(K)] EXCEPT !.st = "post", !.node = a, !.first = Len(S)],
         NEW P, P = [K EXCEPT ![Len(K)] = f]
  PROVE  TaskInv(FALSE, P, S, tn, o, l)
<1>0. Matches(K, S)
  BY DEF TaskInv
<1>1. /\ Len(S) \in 0 .. MaxNodes /\ DOMAIN S = 1 .. Len(S) /\ K[Len(K)] \in Frame
      /\ a \in 0 .. MaxNodes
  <2>1. Len(S) \in 0 .. MaxNodes /\ DOMAIN S = 1 .. Len(S) /\ K[Len(K)] \in Frame
    BY <1>0, StackFacts
  <2>. QED
    BY <2>1, HooksAssumption
<1>2. /\ f \in Frame /\ f.slot = Trampoline /\ f.st = "post" /\ f.node = a /\ f.first = Len(S)
      /\ f.pend = K[Len(K)].pend
  BY <1>1 DEF Frame
<1>3. Matches(P, S)
  BY <1>0, <1>2, EnterMatches
<1>4. \A d \in DOMAIN P : P[d].pend = "none"
  BY <1>0, <1>2, TopPend DEF TaskInv
<1>5. Cardinality(OwedIn(P)) = 0 /\ Cardinality(OwedIn(K)) = 0
  BY <1>4, NoPendOwed DEF TaskInv
<1>. QED
  BY <1>3, <1>4, <1>5 DEF TaskInv

\* One turn of the loop, as PostHook has it.
Posted(K, S, P, T, o, q) ==
  LET f == K[Len(K)]
  IN /\ P = [K EXCEPT ![Len(K)] = IF f.first = f.node THEN [f EXCEPT !.st = "fixup"]
                                  ELSE [f EXCEPT !.first = f.first - 1]]
     /\ T = [S EXCEPT ![f.first].ran = TRUE]
     /\ q = IF S[f.first].kind = "nowrite" THEN o - 1 ELSE o

LEMMA TaskPost ==
  ASSUME NEW K, NEW S, NEW tn, NEW o, NEW l \in Nat, TaskInv(FALSE, K, S, tn, o, l),
         K # <<>>, K[Len(K)].st = "post",
         NEW P, NEW T, NEW q, Posted(K, S, P, T, o, q)
  PROVE  TaskInv(FALSE, P, T, tn, q, l) /\ S[K[Len(K)].first].frame = Len(K)
<1>. DEFINE c == K[Len(K)].first
            f == IF K[Len(K)].first = K[Len(K)].node
                 THEN [K[Len(K)] EXCEPT !.st = "fixup"]
                 ELSE [K[Len(K)] EXCEPT !.first = K[Len(K)].first - 1]
<1>10. /\ P = [K EXCEPT ![Len(K)] = f] /\ T = [S EXCEPT ![c].ran = TRUE]
      /\ q = IF S[c].kind = "nowrite" THEN o - 1 ELSE o
  BY DEF Posted
<1>0. Matches(K, S)
  BY DEF TaskInv
<1>1. /\ Len(S) \in Nat /\ DOMAIN S = 1 .. Len(S) /\ DOMAIN K = 1 .. Len(K)
      /\ Len(K) \in 1 .. Len(K) /\ K[Len(K)] \in Frame
  BY <1>0, StackFacts
<1>2. c \in 1 .. Len(S) /\ K[Len(K)].node <= c /\ S[c].frame = Len(K)
  BY <1>0, <1>1 DEF Matches, HandlersOK
<1>3. ~S[c].ran
  <2>1. S[c].ran <=> \/ K[S[c].frame].st = "fixup"
                     \/ K[S[c].frame].st = "post" /\ c > K[S[c].frame].first
    BY <1>0, <1>1, <1>2 DEF Matches, PostsOK
  <2>2. ~(c > c)
    BY <1>2
  <2>. QED
    BY <1>2, <2>1, <2>2
<1>4. /\ f \in Frame /\ f.slot = K[Len(K)].slot /\ f.node = K[Len(K)].node
      /\ f.pend = K[Len(K)].pend
      /\ \/ K[Len(K)].first = K[Len(K)].node /\ f.st = "fixup"
         \/ /\ K[Len(K)].first # K[Len(K)].node /\ f.st = "post"
            /\ f.first = K[Len(K)].first - 1
  <2>1. CASE c = K[Len(K)].node
    BY <1>1, <2>1 DEF Frame
  <2>2. CASE c # K[Len(K)].node
    <3>1. c - 1 \in 0 .. MaxNodes
      BY <1>1, <1>2, HooksAssumption DEF Frame
    <3>. QED
      BY <1>1, <2>2, <3>1 DEF Frame
  <2>. QED
    BY <2>1, <2>2
<1>. HIDE DEF f
<1>5. Matches(P, T)
  BY <1>0, <1>4, <1>10, PostMatches
<1>6. /\ Cardinality(OwedBy(T)) = IF S[c].kind = "nowrite" THEN Cardinality(OwedBy(S)) - 1
                                  ELSE Cardinality(OwedBy(S))
      /\ S[c].kind = "nowrite" => Cardinality(OwedBy(S)) > 0
      /\ Cardinality(OwedBy(S)) \in Nat
  BY <1>0, <1>1, <1>2, <1>3, <1>10, RanOwed, OwedFacts
<1>7. \A d \in DOMAIN P : P[d].pend = "none"
  BY <1>0, <1>4, <1>10, TopPend DEF TaskInv
<1>8. Cardinality(OwedIn(P)) = 0 /\ Cardinality(OwedIn(K)) = 0
  BY <1>7, NoPendOwed DEF TaskInv
<1>9. S # <<>> /\ T # <<>>
  <2>1. DOMAIN T = DOMAIN S /\ c \in DOMAIN S
    BY <1>1, <1>2, <1>10
  <2>. QED
    BY <2>1
<1>. QED
  BY <1>2, <1>5, <1>6, <1>7, <1>8, <1>9, <1>10 DEF TaskInv

\* The frame and its nodes go, as HandlerExit has it.
Exited(K, S, P, T) ==
  /\ P = SubSeq(K, 1, Len(K) - 1)
  /\ T = SubSeq(S, 1, K[Len(K)].node - 1)

LEMMA TaskExit ==
  ASSUME NEW K, NEW S, NEW tn, NEW o, NEW l \in Nat, TaskInv(FALSE, K, S, tn, o, l),
         K # <<>>, K[Len(K)].st = "fixup",
         NEW P, NEW T, Exited(K, S, P, T),
         NEW q, q <=> T # <<>>
  PROVE  TaskInv(FALSE, P, T, q, o, l) /\ S[K[Len(K)].node].ret = Len(K)
<1>0. Matches(K, S)
  BY DEF TaskInv
<1>5. P = SubSeq(K, 1, Len(K) - 1) /\ T = SubSeq(S, 1, K[Len(K)].node - 1)
  BY DEF Exited
<1>1. Matches(P, T) /\ OwedBy(T) = OwedBy(S)
  BY <1>0, <1>5, ExitMatches
<1>2. S[K[Len(K)].node].ret = Len(K)
  BY <1>0, NodesOfTop
<1>3. \A d \in DOMAIN P : P[d].pend = "none"
  <2>1. K \in Seq(Frame) /\ Len(K) \in Nat \ {0} /\ DOMAIN K = 1 .. Len(K)
    BY <1>0, StackFacts
  <2>2. \A d \in 1 .. Len(K) - 1 : K[d] \in Frame
    BY <2>1, ElementOfSeq
  <2>3. P \in Seq(Frame) /\ Len(P) = Len(K) - 1 /\ \A d \in 1 .. Len(K) - 1 : P[d] = K[d]
    BY <1>5, <2>1, <2>2, SubSeqProperties
  <2>4. DOMAIN P = 1 .. Len(K) - 1
    BY <2>3, LenProperties
  <2>. QED
    BY <2>1, <2>3, <2>4 DEF TaskInv
<1>4. Cardinality(OwedIn(P)) = 0 /\ Cardinality(OwedIn(K)) = 0
  BY <1>3, NoPendOwed DEF TaskInv
<1>. QED
  BY <1>1, <1>2, <1>3, <1>4 DEF TaskInv

-----------------------------------------------------------------------------
(* The steps of a task.                                                    *)

\* Only the task moves.
Moves(t) ==
  /\ stack' = [stack EXCEPT ![t] = stack'[t]] /\ shadow' = [shadow EXCEPT ![t] = shadow'[t]]
  /\ tnode' = [tnode EXCEPT ![t] = tnode'[t]] /\ owed' = [owed EXCEPT ![t] = owed'[t]]
  /\ lost' = [lost EXCEPT ![t] = lost'[t]]

LEMMA TaskStep ==
  ASSUME TasksInv, NEW t \in Tasks, direct' = direct, Moves(t),
         tnode'[t] \in BOOLEAN, lost'[t] \in 0 .. MaxLost,
         TaskInv(direct, stack'[t], shadow'[t], tnode'[t], owed'[t], lost'[t]),
         fate' \in [Tasks -> {"alive", "gone"}]
  PROVE  TasksInv'
<1>1. stack'[t] \in Seq(Frame) /\ shadow'[t] \in Seq(Node)
  BY DEF TaskInv, Matches
<1>2. owed'[t] \in Nat
  <2>1. Cardinality(OwedIn(stack'[t])) \in Nat /\ Cardinality(OwedBy(shadow'[t])) \in Nat
    BY OwedFacts DEF TaskInv
  <2>. QED
    BY <2>1, HooksAssumption DEF TaskInv
<1>3. /\ stack' \in [Tasks -> Seq(Frame)] /\ shadow' \in [Tasks -> Seq(Node)]
      /\ owed' \in [Tasks -> Nat] /\ lost' \in [Tasks -> 0 .. MaxLost]
  BY <1>1, <1>2 DEF TasksInv, Moves
<1>4. direct' \in BOOLEAN /\ tnode' \in [Tasks -> BOOLEAN]
  BY DEF TasksInv, Moves
<1>5. ASSUME NEW u \in Tasks
      PROVE  TaskInv(direct', stack'[u], shadow'[u], tnode'[u], owed'[u], lost'[u])
  <2>1. CASE u = t
    BY <2>1
  <2>2. CASE u # t
    <3>1. /\ stack'[u] = stack[u] /\ shadow'[u] = shadow[u] /\ tnode'[u] = tnode[u]
          /\ owed'[u] = owed[u] /\ lost'[u] = lost[u]
      BY <2>2 DEF TasksInv, Moves
    <3>2. TaskInv(direct, stack[u], shadow[u], tnode[u], owed[u], lost[u])
      BY DEF TasksInv
    <3>. QED
      BY <3>1, <3>2
  <2>. QED
    BY <2>1, <2>2
<1>. QED
  BY <1>3, <1>4, <1>5 DEF TasksInv

LEMMA TaskFacts ==
  ASSUME TasksInv, NEW t \in Tasks
  PROVE  /\ TaskInv(direct, stack[t], shadow[t], tnode[t], owed[t], lost[t])
         /\ tnode[t] \in BOOLEAN /\ lost[t] \in 0 .. MaxLost /\ lost[t] \in Nat
         /\ Len(stack[t]) \in Nat
         /\ Len(stack[t]) > 0 <=> stack[t] # <<>>
<1>1. TaskInv(direct, stack[t], shadow[t], tnode[t], owed[t], lost[t])
  BY DEF TasksInv
<1>2. tnode[t] \in BOOLEAN /\ lost[t] \in 0 .. MaxLost /\ lost[t] \in Nat
  BY HooksAssumption DEF TasksInv
<1>3. stack[t] \in Seq(Frame)
  BY DEF TasksInv
<1>4. Len(stack[t]) \in Nat /\ (Len(stack[t]) = 0 <=> stack[t] = <<>>)
  BY <1>3, EmptySeq, LenProperties
<1>. QED
  BY <1>1, <1>2, <1>4

LEMMA KindsAreKinds ==
  ASSUME NEW f \in Functions
  PROVE  KindsOf(f) \subseteq Kinds
<1>1. f \in {"path_mount", "path_umount", "move_mount"}
  <2>1. \A i \in DOMAIN HookTable : i \in 1 .. 4
    BY DEF HookTable
  <2>2. Hooked \subseteq {"__submit_bio", "path_mount", "path_umount", "move_mount"}
    BY <2>1 DEF Hooked, HookTable
  <2>. QED
    BY <2>2 DEF Functions
<1>. QED
  BY <1>1 DEF KindsOf, Kinds, MountKinds, UmountKinds, MoveMountKinds

\* pre_handler_preempt_rethook(), with the frame stk has for the task.
LEMMA HookReturnKeeps ==
  ASSUME TasksInv, NEW t \in Tasks, direct' = direct, fate' = fate, ~direct,
         NEW f, NEW k \in Kinds, NEW K, K # <<>>, K[Len(K)].st = "run",
         TaskInv(direct, K, shadow[t], tnode[t], owed[t], lost[t]),
         NEW stk, stk = [stack EXCEPT ![t] = K],
         HookReturn(t, f, k, Len(K), stk)
  PROVE  TasksInv'
<1>1. direct = FALSE /\ fate' \in [Tasks -> {"alive", "gone"}]
  BY DEF TasksInv
<1>2. tnode[t] \in BOOLEAN /\ lost[t] \in 0 .. MaxLost /\ lost[t] \in Nat
  BY TaskFacts
<1>3. CASE stack' = stk /\ UNCHANGED <<shadow, tnode, owed, lost>>
  <2>1. Moves(t) /\ stack'[t] = K
    BY <1>3 DEF TasksInv, Moves
  <2>. QED
    BY <1>1, <1>2, <1>3, <2>1, TaskStep
<1>4. CASE /\ k # "ignored" /\ ~tnode[t] /\ lost[t] < MaxLost
           /\ stack' = stk
           /\ owed' = Owe(t, k, 1)
           /\ lost' = [lost EXCEPT ![t] = IF k = "nowrite" THEN @ + 1 ELSE @]
           /\ UNCHANGED <<shadow, tnode>>
  <2>1. Moves(t) /\ stack'[t] = K
    BY <1>4 DEF TasksInv, Moves, Owe
  <2>2. CASE k = "nowrite"
    <3>1. owed'[t] = owed[t] + 1 /\ lost'[t] = lost[t] + 1
      BY <1>4, <2>2 DEF Owe, TasksInv
    <3>2. lost'[t] \in 0 .. MaxLost
      BY <1>2, <1>4, <3>1, HooksAssumption
    <3>3. TaskInv(direct, K, shadow[t], tnode[t], owed[t] + 1, lost[t] + 1)
      BY <1>2, TaskLost
    <3>. QED
      BY <1>1, <1>2, <1>4, <2>1, <3>1, <3>2, <3>3, TaskStep
  <2>3. CASE k # "nowrite"
    <3>1. owed'[t] = owed[t] /\ lost'[t] = lost[t]
      BY <1>4, <2>3 DEF Owe, TasksInv
    <3>. QED
      BY <1>1, <1>2, <1>4, <2>1, <3>1, TaskStep
  <2>. QED
    BY <2>2, <2>3
<1>5. CASE /\ k # "ignored" /\ Len(shadow[t]) < MaxNodes
           /\ shadow' = [shadow EXCEPT ![t] = Append(@, Prepared(Len(K), stk[t][Len(K)].slot, k))]
           /\ stack' = [stk EXCEPT ![t][Len(K)].slot = Trampoline]
           /\ tnode' = [tnode EXCEPT ![t] = TRUE]
           /\ owed' = Owe(t, k, 1)
           /\ UNCHANGED lost
  <2>. DEFINE P == [K EXCEPT ![Len(K)].slot = Trampoline]
              T == Append(shadow[t], Prepared(Len(K), K[Len(K)].slot, k))
              o == IF k = "nowrite" THEN owed[t] + 1 ELSE owed[t]
  <2>1. stk[t] = K
    BY DEF TasksInv
  <2>2. stack' = [stack EXCEPT ![t] = P]
    BY <1>5, <2>1 DEF TasksInv
  <2>3. shadow' = [shadow EXCEPT ![t] = T]
    BY <1>5, <2>1
  <2>4. owed' = [owed EXCEPT ![t] = o]
    BY <1>5 DEF Owe
  <2>5. TaskInv(FALSE, P, T, TRUE, o, lost[t])
    BY <1>1, <1>2, <1>5, TaskPrepare
  <2>. HIDE DEF P, T, o
  <2>6. /\ Moves(t) /\ stack'[t] = P /\ shadow'[t] = T /\ owed'[t] = o
        /\ tnode'[t] = TRUE /\ lost'[t] = lost[t]
    BY <1>5, <2>2, <2>3, <2>4 DEF TasksInv, Moves
  <2>. QED
    BY <1>1, <1>2, <2>5, <2>6, TaskStep
<1>. QED
  BY <1>3, <1>4, <1>5 DEF HookReturn, NodeFails

LEMMA CallKeeps ==
  ASSUME TasksInv, NEW t \in Tasks, NEW f \in Functions, Call(t, f)
  PROVE  TasksInv'
<1>. DEFINE d == Depth(t) + 1
            K == Append(stack[t], Plain(d))
            pushed == [stack EXCEPT ![t] = Append(@, Plain(d))]
<1>1. /\ TaskInv(direct, stack[t], shadow[t], tnode[t], owed[t], lost[t])
      /\ tnode[t] \in BOOLEAN /\ lost[t] \in 0 .. MaxLost /\ lost[t] \in Nat
      /\ Len(stack[t]) \in Nat /\ (Len(stack[t]) > 0 <=> stack[t] # <<>>)
  BY TaskFacts
<1>2. direct' = direct /\ fate' = fate /\ direct \in BOOLEAN
      /\ fate' \in [Tasks -> {"alive", "gone"}]
  BY DEF Call, TasksInv
<1>3. /\ Len(stack[t]) < MaxDepth /\ d = Len(stack[t]) + 1
      /\ stack[t] # <<>> => stack[t][Len(stack[t])].st # "fixup"
  BY <1>1, HooksAssumption DEF Call, Depth, Top
<1>4. /\ TaskInv(direct, K, shadow[t], tnode[t], owed[t], lost[t])
      /\ K # <<>> /\ Len(K) = d /\ K[Len(K)] = Plain(d)
  <2>1. K = Append(stack[t], Plain(Len(stack[t]) + 1))
    BY DEF Depth
  <2>. HIDE DEF K, d
  <2>2. TaskInv(direct, K, shadow[t], tnode[t], owed[t], lost[t])
    BY <1>1, <1>2, <1>3, <2>1, TaskPush
  <2>3. K # <<>> /\ Len(K) = Len(stack[t]) + 1
        /\ K[Len(stack[t]) + 1] = Plain(Len(stack[t]) + 1)
    BY <1>1, <1>2, <1>3, <2>1, TaskPush
  <2>. QED
    BY <1>3, <2>2, <2>3
<1>5. pushed = [stack EXCEPT ![t] = K] /\ pushed[t] = K
  BY DEF TasksInv
<1>6. K[Len(K)].st = "run" /\ K[Len(K)].pend = "none"
  BY <1>4 DEF Plain
<1>7. \/ stack' = pushed /\ UNCHANGED <<shadow, tnode, owed, lost>>
      \/ ~direct /\ \E k \in KindsOf(f) : HookReturn(t, f, k, d, pushed)
      \/ /\ direct
         /\ \E k \in KindsOf(f) :
              /\ stack' = [pushed EXCEPT ![t][d].pend = k]
              /\ owed' = Owe(t, k, 1)
         /\ UNCHANGED <<shadow, tnode, lost>>
  BY DEF Call
<1>. HIDE DEF d, K, pushed
<1>8. CASE stack' = pushed /\ UNCHANGED <<shadow, tnode, owed, lost>>
  <2>1. Moves(t) /\ stack'[t] = K
    BY <1>5, <1>8 DEF TasksInv, Moves
  <2>. QED
    BY <1>1, <1>2, <1>4, <1>8, <2>1, TaskStep
<1>9. CASE ~direct /\ \E k \in KindsOf(f) : HookReturn(t, f, k, d, pushed)
  <2>1. PICK k \in Kinds : HookReturn(t, f, k, Len(K), pushed)
    BY <1>4, <1>9, KindsAreKinds
  <2>. QED
    BY <1>2, <1>4, <1>5, <1>6, <1>9, <2>1, HookReturnKeeps
<1>10. CASE /\ direct
            /\ \E k \in KindsOf(f) :
                 /\ stack' = [pushed EXCEPT ![t][d].pend = k]
                 /\ owed' = Owe(t, k, 1)
            /\ UNCHANGED <<shadow, tnode, lost>>
  <2>1. PICK k \in Kinds : /\ stack' = [pushed EXCEPT ![t][d].pend = k]
                           /\ owed' = Owe(t, k, 1)
    BY <1>10, KindsAreKinds
  <2>. DEFINE P == [K EXCEPT ![Len(K)].pend = k]
              o == IF k = "nowrite" THEN owed[t] + 1 ELSE owed[t]
  <2>2. stack' = [stack EXCEPT ![t] = P]
    BY <1>4, <1>5, <2>1 DEF TasksInv
  <2>3. owed' = [owed EXCEPT ![t] = o]
    BY <2>1 DEF Owe
  <2>4. direct = TRUE
    BY <1>2, <1>10
  <2>5. TaskInv(TRUE, P, shadow[t], tnode[t], o, lost[t])
    BY <1>1, <1>4, <1>6, <2>4, TaskPend
  <2>. HIDE DEF P, o
  <2>6. Moves(t) /\ stack'[t] = P /\ owed'[t] = o
    BY <1>10, <2>2, <2>3 DEF TasksInv, Moves
  <2>. QED
    BY <1>1, <1>2, <1>10, <2>4, <2>5, <2>6, TaskStep
<1>. QED
  BY <1>7, <1>8, <1>9, <1>10

LEMMA TailCallKeeps ==
  ASSUME TasksInv, NEW t \in Tasks, NEW f \in Functions, TailCall(t, f)
  PROVE  TasksInv'
<1>1. /\ TaskInv(direct, stack[t], shadow[t], tnode[t], owed[t], lost[t])
      /\ Len(stack[t]) > 0 <=> stack[t] # <<>>
  BY TaskFacts
<1>2. stack = [stack EXCEPT ![t] = stack[t]]
  BY DEF TasksInv
<1>3. PICK k \in Kinds : HookReturn(t, f, k, Len(stack[t]), stack)
  BY KindsAreKinds DEF TailCall, Depth
<1>4. /\ stack[t] # <<>> /\ stack[t][Len(stack[t])].st = "run"
      /\ ~direct /\ direct' = direct /\ fate' = fate
  BY <1>1 DEF TailCall, Depth, Top
<1>. QED
  BY <1>1, <1>2, <1>3, <1>4, HookReturnKeeps

LEMMA ReturnKeeps ==
  ASSUME TasksInv, NEW t \in Tasks, Return(t)
  PROVE  TasksInv'
<1>. DEFINE P == SubSeq(stack[t], 1, Len(stack[t]) - 1)
<1>1. /\ TaskInv(direct, stack[t], shadow[t], tnode[t], owed[t], lost[t])
      /\ tnode[t] \in BOOLEAN /\ lost[t] \in 0 .. MaxLost /\ lost[t] \in Nat
      /\ Len(stack[t]) \in Nat /\ (Len(stack[t]) > 0 <=> stack[t] # <<>>)
  BY TaskFacts
<1>2. /\ direct' = direct /\ direct \in BOOLEAN
      /\ fate' \in [Tasks -> {"alive", "gone"}]
  BY DEF Return, TasksInv
<1>3. /\ stack[t] # <<>> /\ stack[t][Len(stack[t])].slot # Trampoline
      /\ stack[t][Len(stack[t])].pend # "nowrite"
  BY <1>1 DEF Return, Depth, Top, Trampoline
<1>4. TaskInv(direct, P, shadow[t], tnode[t], owed[t], lost[t])
  BY <1>1, <1>2, <1>3, TaskReturns
<1>5. stack' = [stack EXCEPT ![t] = P]
  BY DEF Return, Pop
<1>. HIDE DEF P
<1>6. /\ Moves(t) /\ stack'[t] = P
      /\ UNCHANGED <<shadow, tnode, owed, lost>>
  BY <1>5 DEF TasksInv, Moves, Return
<1>. QED
  BY <1>1, <1>2, <1>4, <1>6, TaskStep

LEMMA ReturnWrappedKeeps ==
  ASSUME TasksInv, NEW t \in Tasks, ReturnWrapped(t)
  PROVE  TasksInv'
<1>. DEFINE K == stack[t]
            P == SubSeq(K, 1, Len(K) - 1)
            o == IF K[Len(K)].pend = "nowrite" THEN owed[t] - 1 ELSE owed[t]
<1>1. /\ TaskInv(direct, K, shadow[t], tnode[t], owed[t], lost[t])
      /\ tnode[t] \in BOOLEAN /\ lost[t] \in 0 .. MaxLost /\ lost[t] \in Nat
      /\ Len(K) \in Nat /\ (Len(K) > 0 <=> K # <<>>)
  BY TaskFacts
<1>2. /\ direct' = direct /\ direct \in BOOLEAN
      /\ fate' \in [Tasks -> {"alive", "gone"}]
  BY DEF ReturnWrapped, TasksInv
<1>3. K # <<>> /\ K[Len(K)].pend # "none" /\ Len(K) \in DOMAIN K
  <2>1. K # <<>> /\ K[Len(K)].pend # "none"
    BY <1>1 DEF ReturnWrapped, Depth, Top
  <2>2. Matches(K, shadow[t])
    BY <1>1 DEF TaskInv
  <2>. QED
    BY <2>1, <2>2, StackFacts
<1>4. direct /\ shadow[t] = <<>>
  BY <1>1, <1>2, <1>3 DEF TaskInv
<1>5. K[Len(K)].slot # Trampoline
  <2>1. K[Len(K)].slot = Trampoline <=> \E i \in DOMAIN shadow[t] : shadow[t][i].frame = Len(K)
    BY <1>1, <1>3 DEF TaskInv, Matches, SlotsOK
  <2>2. DOMAIN shadow[t] = {}
    BY <1>4
  <2>. QED
    BY <2>1, <2>2
<1>6. TaskInv(direct, P, shadow[t], tnode[t], o, lost[t])
  BY <1>1, <1>2, <1>3, <1>5, TaskReturns
<1>7. stack' = [stack EXCEPT ![t] = P]
  BY DEF ReturnWrapped, Pop
<1>8. owed' = [owed EXCEPT ![t] = o]
  BY DEF ReturnWrapped, Top, Depth
<1>. HIDE DEF P, o, K
<1>9. /\ Moves(t) /\ stack'[t] = P /\ owed'[t] = o
      /\ UNCHANGED <<shadow, tnode, lost>>
  BY <1>7, <1>8 DEF TasksInv, Moves, ReturnWrapped
<1>. QED
  BY <1>1, <1>2, <1>6, <1>9, TaskStep

LEMMA HandlerEnterKeeps ==
  ASSUME TasksInv, NEW t \in Tasks, HandlerEnter(t)
  PROVE  TasksInv'
<1>. DEFINE K == stack[t]
            S == shadow[t]
            a == FindRetAddr(t)
            f == [K[Len(K)] EXCEPT !.st = "post", !.node = a, !.first = Len(S)]
            P == [K EXCEPT ![Len(K)] = f]
            R == {i \in DOMAIN S : S[i].ret # Trampoline}
<1>1. /\ TaskInv(direct, K, S, tnode[t], owed[t], lost[t])
      /\ tnode[t] \in BOOLEAN /\ lost[t] \in 0 .. MaxLost /\ lost[t] \in Nat
      /\ Len(K) \in Nat /\ (Len(K) > 0 <=> K # <<>>)
  BY TaskFacts
<1>2. K # <<>> /\ K[Len(K)].st = "run" /\ K[Len(K)].slot = Trampoline
  BY <1>1 DEF HandlerEnter, Depth, Top
<1>3. Matches(K, S)
  BY <1>1 DEF TaskInv
<1>4. /\ R # {} /\ S # <<>>
      /\ \E i \in R : \A j \in R : j <= i
      /\ S[Len(S)].frame = Len(K)
      /\ \A i \in R : (\A j \in R : j <= i) => S[i].frame = Len(K) /\ S[i].ret = Len(K)
  BY <1>2, <1>3, LastRealIsTop
<1>5. ~direct /\ tnode[t] /\ direct = FALSE
  BY <1>1, <1>4 DEF TaskInv, TasksInv
<1>6. a = CHOOSE i \in R : \A j \in R : j <= i
  BY <1>4, <1>5 DEF FindRetAddr
<1>7. a \in R /\ \A j \in R : j <= a
  BY <1>4, <1>6
<1>8. a \in DOMAIN S /\ S[a].frame = Len(K) /\ S[a].ret = Len(K)
  BY <1>4, <1>7
<1>9. a # 0
  <2>1. DOMAIN S = 1 .. Len(S) /\ Len(S) \in Nat
    BY <1>3, StackFacts
  <2>. QED
    BY <1>8, <2>1
<1>10. /\ stack' = [stack EXCEPT ![t] = P] /\ fate' = fate
       /\ direct' = direct /\ UNCHANGED <<shadow, tnode, owed, lost>>
  <2>1. FindRetAddr(t) # 0
    BY <1>9
  <2>2. stack' = SetTop(t, f) /\ UNCHANGED fate
    BY <2>1 DEF HandlerEnter, Top, Depth
  <2>3. SetTop(t, f) = [stack EXCEPT ![t] = P]
    BY DEF SetTop
  <2>4. direct' = direct /\ UNCHANGED <<shadow, tnode, owed, lost>>
    BY DEF HandlerEnter
  <2>. QED
    BY <2>2, <2>3, <2>4
<1>11. TaskInv(FALSE, P, S, tnode[t], owed[t], lost[t])
  <2>1. TaskInv(FALSE, K, S, tnode[t], owed[t], lost[t])
    BY <1>1, <1>5
  <2>2. /\ f = [K[Len(K)] EXCEPT !.st = "post", !.node = a, !.first = Len(S)]
        /\ P = [K EXCEPT ![Len(K)] = f]
    OBVIOUS
  <2>3. lost[t] \in Nat
    BY <1>1
  <2>. HIDE DEF K, S, a, f, P, R
  <2>. QED
    BY <1>2, <1>4, <1>8, <2>1, <2>2, <2>3, TaskEnter
<1>. HIDE DEF P
<1>12. Moves(t) /\ stack'[t] = P
  BY <1>10 DEF TasksInv, Moves
<1>13. fate' \in [Tasks -> {"alive", "gone"}]
  BY <1>10 DEF TasksInv
<1>. QED
  BY <1>1, <1>5, <1>10, <1>11, <1>12, <1>13, TaskStep

LEMMA PostHookKeeps ==
  ASSUME TasksInv, NEW t \in Tasks, PostHook(t)
  PROVE  TasksInv'
<1>. DEFINE K == stack[t]
            S == shadow[t]
            c == K[Len(K)].first
            f == IF c = K[Len(K)].node THEN [K[Len(K)] EXCEPT !.st = "fixup"]
                 ELSE [K[Len(K)] EXCEPT !.first = c - 1]
            P == [K EXCEPT ![Len(K)] = f]
            T == [S EXCEPT ![c].ran = TRUE]
            o == IF S[c].kind = "nowrite" THEN owed[t] - 1 ELSE owed[t]
<1>1. /\ TaskInv(direct, K, S, tnode[t], owed[t], lost[t])
      /\ tnode[t] \in BOOLEAN /\ lost[t] \in 0 .. MaxLost /\ lost[t] \in Nat
      /\ Len(K) \in Nat /\ (Len(K) > 0 <=> K # <<>>)
  BY TaskFacts
<1>2. K # <<>> /\ K[Len(K)].st = "post"
  BY <1>1 DEF PostHook, Depth, Top
<1>3. direct = FALSE
  <2>1. Matches(K, S)
    BY <1>1 DEF TaskInv
  <2>2. Len(K) \in DOMAIN K
    BY <1>2, <2>1, StackFacts
  <2>3. K[Len(K)].node \in DOMAIN S
    BY <1>2, <2>1, <2>2 DEF Matches, HandlersOK
  <2>4. S # <<>>
    BY <2>3
  <2>. QED
    BY <1>1, <2>4 DEF TaskInv, TasksInv
<1>4. TaskInv(FALSE, P, T, tnode[t], o, lost[t]) /\ S[c].frame = Len(K)
  <2>1. Posted(K, S, P, T, owed[t], o)
    BY DEF Posted
  <2>2. TaskInv(FALSE, K, S, tnode[t], owed[t], lost[t])
    BY <1>1, <1>3
  <2>. HIDE DEF K, S, P, T, o
  <2>. QED
    BY <1>1, <1>2, <2>1, <2>2, TaskPost
<1>5. /\ shadow' = [shadow EXCEPT ![t][c].ran = TRUE]
      /\ owed' = [owed EXCEPT ![t] = o]
      /\ stack' = SetTop(t, IF c = K[Len(K)].node THEN [K[Len(K)] EXCEPT !.st = "fixup"]
                            ELSE [K[Len(K)] EXCEPT !.first = @ - 1])
      /\ UNCHANGED fate /\ UNCHANGED <<tnode, lost>> /\ direct' = direct
  BY <1>4 DEF PostHook, Top, Depth
<1>6. stack' = [stack EXCEPT ![t] = P]
  BY <1>5 DEF SetTop
<1>7. shadow' = [shadow EXCEPT ![t] = T]
  <2>1. [shadow EXCEPT ![t][c].ran = TRUE] = [shadow EXCEPT ![t] = T]
    <3>. HIDE DEF c
    <3>. QED
      BY SMTT(30)
  <2>. QED
    BY <1>5, <2>1
<1>. HIDE DEF P, T, o
<1>8. Moves(t) /\ stack'[t] = P /\ shadow'[t] = T /\ owed'[t] = o
  <2>1. stack'[t] = P
    BY <1>6 DEF TasksInv
  <2>2. shadow'[t] = T
    BY <1>7 DEF TasksInv
  <2>3. owed'[t] = o
    BY <1>5 DEF TasksInv
  <2>4. tnode' = [tnode EXCEPT ![t] = tnode'[t]] /\ lost' = [lost EXCEPT ![t] = lost'[t]]
    BY <1>5 DEF TasksInv
  <2>. QED
    BY <1>5, <1>6, <1>7, <2>1, <2>2, <2>3, <2>4 DEF Moves
<1>9. fate' \in [Tasks -> {"alive", "gone"}]
  BY <1>5 DEF TasksInv
<1>. QED
  BY <1>1, <1>3, <1>4, <1>5, <1>8, <1>9, TaskStep

LEMMA HandlerExitKeeps ==
  ASSUME TasksInv, NEW t \in Tasks, HandlerExit(t)
  PROVE  TasksInv'
<1>. DEFINE K == stack[t]
            S == shadow[t]
            P == SubSeq(K, 1, Len(K) - 1)
            T == SubSeq(S, 1, K[Len(K)].node - 1)
<1>1. /\ TaskInv(direct, K, S, tnode[t], owed[t], lost[t])
      /\ tnode[t] \in BOOLEAN /\ lost[t] \in 0 .. MaxLost /\ lost[t] \in Nat
      /\ Len(K) \in Nat /\ (Len(K) > 0 <=> K # <<>>)
  BY TaskFacts
<1>2. K # <<>> /\ K[Len(K)].st = "fixup"
  BY <1>1 DEF HandlerExit, Depth, Top
<1>3. direct = FALSE
  <2>1. Matches(K, S)
    BY <1>1 DEF TaskInv
  <2>2. Len(K) \in DOMAIN K
    BY <1>2, <2>1, StackFacts
  <2>3. K[Len(K)].node \in DOMAIN S
    BY <1>2, <2>1, <2>2 DEF Matches, HandlersOK
  <2>4. S # <<>>
    BY <2>3
  <2>. QED
    BY <1>1, <2>4 DEF TaskInv, TasksInv
<1>4. /\ shadow' = [shadow EXCEPT ![t] = T] /\ tnode' = [tnode EXCEPT ![t] = T # <<>>]
      /\ stack' = [stack EXCEPT ![t] = P]
      /\ UNCHANGED <<owed, lost>> /\ direct' = direct
  BY DEF HandlerExit, Top, Depth, Pop, TaskNodeAfter
<1>5. fate' = [fate EXCEPT ![t] = IF S[K[Len(K)].node].ret = Len(K) THEN @ ELSE "bug"]
  BY DEF HandlerExit, Top, Depth
<1>6. TaskInv(FALSE, K, S, tnode[t], owed[t], lost[t])
  BY <1>1, <1>3
<1>7. Exited(K, S, P, T) /\ lost[t] \in Nat
  BY <1>1 DEF Exited
<1>. HIDE DEF K, S, P, T
<1>8. Moves(t) /\ stack'[t] = P /\ shadow'[t] = T /\ tnode'[t] = (T # <<>>)
  BY <1>4 DEF TasksInv, Moves
<1>9. tnode'[t] \in BOOLEAN /\ (tnode'[t] <=> T # <<>>)
  BY <1>8
<1>10. TaskInv(FALSE, P, T, tnode'[t], owed[t], lost[t]) /\ S[K[Len(K)].node].ret = Len(K)
  BY <1>2, <1>6, <1>7, <1>9, TaskExit
<1>11. fate' \in [Tasks -> {"alive", "gone"}]
  BY <1>5, <1>10 DEF TasksInv
<1>12. TaskInv(direct, stack'[t], shadow'[t], tnode'[t], owed'[t], lost'[t])
  BY <1>3, <1>4, <1>8, <1>10
<1>. QED
  BY <1>1, <1>4, <1>8, <1>9, <1>11, <1>12, TaskStep

LEMMA ReturnToNothingKeeps ==
  ASSUME TasksInv, NEW t \in Tasks, ReturnToNothing(t)
  PROVE  TasksInv'
<1>1. fate' \in [Tasks -> {"alive", "gone"}]
  BY DEF TasksInv, ReturnToNothing
<1>2. UNCHANGED <<direct, stack, shadow, tnode, owed, lost>>
  BY DEF ReturnToNothing
<1>. QED
  BY <1>1, <1>2 DEF TasksInv

LEMMA TaskKeeps ==
  ASSUME TasksInv, NEW t \in Tasks, Task(t)
  PROVE  TasksInv' /\ UNCHANGED modVars
<1>1. CASE \E f \in Functions : Call(t, f) \/ TailCall(t, f)
  BY <1>1, CallKeeps, TailCallKeeps DEF Call, TailCall
<1>2. CASE Return(t)
  BY <1>2, ReturnKeeps DEF Return
<1>3. CASE ReturnWrapped(t)
  BY <1>3, ReturnWrappedKeeps DEF ReturnWrapped
<1>4. CASE HandlerEnter(t)
  BY <1>4, HandlerEnterKeeps DEF HandlerEnter
<1>5. CASE PostHook(t)
  BY <1>5, PostHookKeeps DEF PostHook
<1>6. CASE HandlerExit(t)
  BY <1>6, HandlerExitKeeps DEF HandlerExit
<1>7. CASE ReturnToNothing(t)
  BY <1>7, ReturnToNothingKeeps DEF ReturnToNothing
<1>. QED
  BY <1>1, <1>2, <1>3, <1>4, <1>5, <1>6, <1>7 DEF Task

-----------------------------------------------------------------------------
(* Loading and unloading.                                                  *)

LEMMA Orders ==
  /\ Len(InitOrder) = 8 /\ DOMAIN InitOrder = 1 .. 8
  /\ InitOrder[1] = "blkdev" /\ InitOrder[2] = "array"
  /\ InitOrder[3] = "proc" /\ InitOrder[4] = "control"
  /\ InitOrder[5] = "__submit_bio" /\ InitOrder[6] = "path_mount"
  /\ InitOrder[7] = "path_umount" /\ InitOrder[8] = "move_mount"
  /\ Len(ExitOrder) = 8 /\ DOMAIN ExitOrder = 1 .. 8
  /\ ExitOrder[1] = "__submit_bio" /\ ExitOrder[2] = "path_mount"
  /\ ExitOrder[3] = "path_umount" /\ ExitOrder[4] = "move_mount"
  /\ ExitOrder[5] = "control" /\ ExitOrder[6] = "proc"
  /\ ExitOrder[7] = "array" /\ ExitOrder[8] = "blkdev"
  /\ Hooked = {"__submit_bio", "path_mount", "path_umount", "move_mount"}
<1>. DEFINE a == <<"blkdev", "array", "proc", "control">>
            e == <<"control", "proc", "array", "blkdev">>
            N == {"blkdev", "array", "proc", "control",
                  "__submit_bio", "path_mount", "path_umount", "move_mount"}
<1>1. HookTable \in Seq(N) /\ a \in Seq(N) /\ e \in Seq(N)
  BY DEF HookTable
<1>2. Len(HookTable) = 4 /\ Len(a) = 4 /\ Len(e) = 4
  BY DEF HookTable
<1>3. InitOrder = a \o HookTable /\ ExitOrder = HookTable \o e
  BY DEF InitOrder, ExitOrder
<1>. HIDE DEF a, e, N
<1>4. InitOrder \in Seq(N) /\ Len(InitOrder) = 8
      /\ \A i \in 1 .. 8 : InitOrder[i] = IF i <= 4 THEN a[i] ELSE HookTable[i - 4]
  <2>1. /\ a \o HookTable \in Seq(N)
        /\ Len(a \o HookTable) = Len(a) + Len(HookTable)
        /\ \A i \in 1 .. Len(a) + Len(HookTable) :
             (a \o HookTable)[i] = IF i <= Len(a) THEN a[i] ELSE HookTable[i - Len(a)]
    BY <1>1, ConcatProperties
  <2>. QED
    BY <1>2, <1>3, <2>1
<1>5. ExitOrder \in Seq(N) /\ Len(ExitOrder) = 8
      /\ \A i \in 1 .. 8 : ExitOrder[i] = IF i <= 4 THEN HookTable[i] ELSE e[i - 4]
  <2>1. /\ HookTable \o e \in Seq(N)
        /\ Len(HookTable \o e) = Len(HookTable) + Len(e)
        /\ \A i \in 1 .. Len(HookTable) + Len(e) :
             (HookTable \o e)[i] = IF i <= Len(HookTable) THEN HookTable[i]
                                   ELSE e[i - Len(HookTable)]
    BY <1>1, ConcatProperties
  <2>. QED
    BY <1>2, <1>3, <2>1
<1>6. DOMAIN InitOrder = 1 .. 8 /\ DOMAIN ExitOrder = 1 .. 8
  BY <1>4, <1>5, LenProperties
<1>7. HookTable[1] = "__submit_bio" /\ HookTable[2] = "path_mount"
      /\ HookTable[3] = "path_umount" /\ HookTable[4] = "move_mount"
      /\ DOMAIN HookTable = 1 .. 4
  BY DEF HookTable
<1>8. Hooked = {"__submit_bio", "path_mount", "path_umount", "move_mount"}
  BY <1>7 DEF Hooked
<1>9. /\ a[1] = "blkdev" /\ a[2] = "array" /\ a[3] = "proc" /\ a[4] = "control"
      /\ e[1] = "control" /\ e[2] = "proc" /\ e[3] = "array" /\ e[4] = "blkdev"
  BY DEF a, e
<1>. QED
  BY <1>4, <1>5, <1>6, <1>7, <1>8, <1>9

\* What the steps of agent_init() have registered.
LEMMA RegisteredUpTo ==
  ASSUME NEW n \in 0 .. 8
  PROVE  /\ {InitOrder[j] : j \in 1 .. n} \subseteq {InitOrder[j] : j \in DOMAIN InitOrder}
         /\ {InitOrder[j] : j \in 1 .. n} \cap Hooked # {} =>
              "array" \in {InitOrder[j] : j \in 1 .. n}
         /\ "control" \in {InitOrder[j] : j \in 1 .. n} <=> n >= 4
         /\ n > 0 => {InitOrder[j] : j \in 1 .. n}
                       = {InitOrder[j] : j \in 1 .. n - 1} \cup {InitOrder[n]}
         /\ n > 0 => {InitOrder[j] : j \in 1 .. n} \ {InitOrder[n]}
                       = {InitOrder[j] : j \in 1 .. n - 1}
         /\ n > 0 => (InitOrder[n] \in Hooked <=> n >= 5)
<1>1. \A i, j \in 1 .. 8 : InitOrder[i] = InitOrder[j] => i = j
  <2>1. \A i \in 1 .. 8 : i \in {1, 2, 3, 4, 5, 6, 7, 8}
    OBVIOUS
  <2>. QED
    BY <2>1, Orders
<1>2. \A i \in 1 .. 8 : InitOrder[i] \in Hooked <=> i >= 5
  <2>1. \A i \in 1 .. 8 : i \in {1, 2, 3, 4, 5, 6, 7, 8}
    OBVIOUS
  <2>. QED
    BY <2>1, Orders
<1>3. {InitOrder[j] : j \in 1 .. n} \subseteq {InitOrder[j] : j \in DOMAIN InitOrder}
  <2>1. \A j \in 1 .. n : j \in DOMAIN InitOrder
    BY Orders
  <2>. QED
    BY <2>1
<1>4. {InitOrder[j] : j \in 1 .. n} \cap Hooked # {} =>
              "array" \in {InitOrder[j] : j \in 1 .. n}
  <2>. HAVE {InitOrder[j] : j \in 1 .. n} \cap Hooked # {}
  <2>1. PICK j \in 1 .. n : InitOrder[j] \in Hooked
    OBVIOUS
  <2>2. j >= 5 /\ 2 \in 1 .. n
    BY <1>2, <2>1
  <2>. QED
    BY <2>2, Orders
<1>5. "control" \in {InitOrder[j] : j \in 1 .. n} <=> n >= 4
  <2>1. InitOrder[4] = "control"
    BY Orders
  <2>. QED
    BY <1>1, <2>1
<1>6. ASSUME n > 0
      PROVE  /\ {InitOrder[j] : j \in 1 .. n}
                  = {InitOrder[j] : j \in 1 .. n - 1} \cup {InitOrder[n]}
             /\ {InitOrder[j] : j \in 1 .. n} \ {InitOrder[n]}
                  = {InitOrder[j] : j \in 1 .. n - 1}
  <2>1. 1 .. n = (1 .. n - 1) \cup {n}
    BY <1>6
  <2>2. \A j \in 1 .. n - 1 : InitOrder[j] # InitOrder[n]
    BY <1>1, <1>6
  <2>. QED
    BY <2>1, <2>2
<1>. QED
  BY <1>2, <1>3, <1>4, <1>5, <1>6

ModStates == [st : {"off", "init", "unwind", "ready", "exit"}, i : 0 .. 8, rmmod : BOOLEAN]

LEMMA InsmodKeeps ==
  ASSUME ModInv, Insmod
  PROVE  ModInv'
<1>1. mod' = [st |-> "init", i |-> 1, rmmod |-> FALSE] /\ reg' = {} /\ dev' = "none"
  BY DEF Insmod, ModInv
<1>2. {InitOrder[j] : j \in 1 .. 0} = {}
  OBVIOUS
<1>. QED
  BY <1>1, <1>2 DEF ModInv

LEMMA RegisterKeeps ==
  ASSUME ModInv, Register
  PROVE  ModInv'
<1>. DEFINE n == mod.i
<1>0. mod \in ModStates
  BY DEF ModInv, ModStates
<1>1. /\ mod.st = "init" /\ n \in 1 .. 8 /\ reg = {InitOrder[j] : j \in 1 .. n - 1}
      /\ dev' = dev /\ dev \in {"none", "early", "late"}
      /\ mod \in ModStates
      /\ "control" \notin reg => dev = "none"
  BY DEF Register, ModInv, ModStates
<1>2. reg' = {InitOrder[j] : j \in 1 .. n}
  <2>1. reg' = reg \cup {InitOrder[n]}
    BY DEF Register
  <2>. QED
    BY <1>1, <2>1, RegisteredUpTo
<1>3. "control" \notin reg' => "control" \notin reg
  BY DEF Register
<1>4. /\ reg' \subseteq {InitOrder[j] : j \in DOMAIN InitOrder}
      /\ reg' \cap Hooked # {} => "array" \in reg'
  BY <1>1, <1>2, RegisteredUpTo
<1>5. CASE n = 8
  <2>1. mod' = [mod EXCEPT !.st = "ready", !.i = 0]
    BY <1>5, Orders DEF Register
  <2>2. /\ mod'.st = "ready" /\ mod'.i = 0
        /\ mod' \in ModStates
    <3>1. 0 \in 0 .. 8 /\ 1 \in 0 .. 8
      OBVIOUS
    <3>. QED
      BY <1>0, <2>1, <3>1 DEF ModStates
  <2>. QED
    BY <1>1, <1>2, <1>3, <1>4, <1>5, <2>2 DEF ModInv, ModStates
<1>6. CASE n # 8
  <2>1. mod' = [mod EXCEPT !.i = n + 1]
    BY <1>6, Orders DEF Register
  <2>2. /\ mod'.st = "init" /\ mod'.i = n + 1 /\ n + 1 - 1 = n
        /\ mod' \in ModStates
    BY <1>1, <1>6, <2>1 DEF ModStates
  <2>. QED
    BY <1>1, <1>2, <1>3, <1>4, <2>2 DEF ModInv, ModStates
<1>. QED
  BY <1>5, <1>6

LEMMA RegisterFailsKeeps ==
  ASSUME ModInv, RegisterFails
  PROVE  ModInv'
<1>. DEFINE n == mod.i
<1>0. mod \in ModStates
  BY DEF ModInv, ModStates
<1>1. /\ mod.st = "init" /\ n \in 1 .. 8 /\ reg = {InitOrder[j] : j \in 1 .. n - 1}
      /\ dev' = dev /\ reg' = reg
      /\ mod \in ModStates
  BY DEF RegisterFails, ModInv, ModStates
<1>2. InitOrder[n] \in Hooked <=> n >= 5
  BY <1>1, RegisteredUpTo
<1>3. CASE n >= 5
  <2>1. mod' = [mod EXCEPT !.st = "unwind", !.i = n - 1]
    BY <1>2, <1>3 DEF RegisterFails
  <2>2. /\ mod'.st = "unwind" /\ mod'.i = n - 1 /\ n - 1 \in 4 .. 7
        /\ mod' \in ModStates
    <3>1. n - 1 \in 4 .. 7 /\ n - 1 \in 0 .. 8
      BY <1>1, <1>3
    <3>. QED
      BY <1>0, <2>1, <3>1 DEF ModStates
  <2>. QED
    BY <1>1, <2>2 DEF ModInv, ModStates
<1>4. CASE ~(n >= 5)
  <2>1. mod' = [mod EXCEPT !.st = "exit", !.i = 1]
    BY <1>2, <1>4 DEF RegisterFails
  <2>2. /\ mod'.st = "exit" /\ mod'.i = 1
        /\ mod' \in ModStates
    <3>1. 0 \in 0 .. 8 /\ 1 \in 0 .. 8
      OBVIOUS
    <3>. QED
      BY <1>0, <2>1, <3>1 DEF ModStates
  <2>. QED
    BY <1>1, <2>2 DEF ModInv, ModStates
<1>. QED
  BY <1>3, <1>4

LEMMA UnwindKeeps ==
  ASSUME ModInv, Unwind
  PROVE  ModInv'
<1>. DEFINE n == mod.i
<1>0. mod \in ModStates
  BY DEF ModInv, ModStates
<1>1. /\ mod.st = "unwind" /\ n \in 4 .. 7 /\ reg = {InitOrder[j] : j \in 1 .. n}
      /\ dev' = dev
      /\ mod \in ModStates
  BY DEF Unwind, ModInv, ModStates
<1>2. InitOrder[n] \in Hooked <=> n >= 5
  BY <1>1, RegisteredUpTo
<1>3. CASE n >= 5
  <2>1. mod' = [mod EXCEPT !.i = n - 1] /\ reg' = reg \ {InitOrder[n]}
    BY <1>2, <1>3 DEF Unwind
  <2>2. /\ mod'.st = "unwind" /\ mod'.i = n - 1 /\ n - 1 \in 4 .. 7
        /\ mod' \in ModStates
    BY <1>1, <1>3, <2>1 DEF ModStates
  <2>3. reg' = {InitOrder[j] : j \in 1 .. n - 1}
    BY <1>1, <2>1, RegisteredUpTo
  <2>4. /\ reg' \subseteq {InitOrder[j] : j \in DOMAIN InitOrder}
        /\ reg' \cap Hooked # {} => "array" \in reg'
        /\ "control" \in reg'
    BY <2>2, <2>3, RegisteredUpTo
  <2>. QED
    BY <1>1, <2>2, <2>3, <2>4 DEF ModInv, ModStates
<1>4. CASE ~(n >= 5)
  <2>1. mod' = [mod EXCEPT !.st = "exit", !.i = 1] /\ reg' = reg
    BY <1>2, <1>4 DEF Unwind
  <2>2. /\ mod'.st = "exit" /\ mod'.i = 1
        /\ mod' \in ModStates
    <3>1. 0 \in 0 .. 8 /\ 1 \in 0 .. 8
      OBVIOUS
    <3>. QED
      BY <1>0, <2>1, <3>1 DEF ModStates
  <2>. QED
    BY <1>1, <2>1, <2>2 DEF ModInv, ModStates
<1>. QED
  BY <1>3, <1>4

LEMMA RmmodKeeps ==
  ASSUME ModInv, Rmmod
  PROVE  ModInv'
  BY DEF Rmmod, ModInv

LEMMA ExitStepKeeps ==
  ASSUME ModInv, ExitStep
  PROVE  ModInv'
<1>. DEFINE n == mod.i
<1>0. mod \in ModStates
  BY DEF ModInv, ModStates
<1>1. /\ mod.st = "exit" /\ n \in 1 .. 8
      /\ reg \subseteq {InitOrder[j] : j \in DOMAIN InitOrder}
      /\ dev \in {"none", "early", "late"}
      /\ reg \cap {ExitOrder[j] : j \in 1 .. n - 1} = {}
      /\ n > 7 => dev = "none"
      /\ mod \in ModStates
      /\ reg \cap Hooked # {} => "array" \in reg
  BY DEF ExitStep, ModInv, ModStates
<1>2. /\ reg' = reg \ {ExitOrder[n]}
      /\ dev' = IF ExitOrder[n] = "array" THEN "none" ELSE dev
  BY DEF ExitStep
<1>3. reg' \cap {ExitOrder[j] : j \in 1 .. n} = {}
  <2>1. 1 .. n = (1 .. n - 1) \cup {n}
    BY <1>1
  <2>. QED
    BY <1>1, <1>2, <2>1
<1>4. reg' \cap Hooked # {} => "array" \in reg'
  <2>1. CASE n = 7
    <3>1. \A j \in {1, 2, 3, 4} : j \in 1 .. n
      BY <2>1
    <3>2. \A x \in Hooked : \E j \in {1, 2, 3, 4} : x = ExitOrder[j]
      BY Orders
    <3>. QED
      BY <1>3, <3>1, <3>2
  <2>2. CASE n # 7
    <3>1. ExitOrder[n] # "array"
      <4>1. n \in {1, 2, 3, 4, 5, 6, 8}
        BY <1>1, <2>2
      <4>. QED
        BY <4>1, Orders
    <3>. QED
      BY <1>1, <1>2, <3>1
  <2>. QED
    BY <2>1, <2>2
<1>5. CASE n = 8
  <2>1. mod' = [mod EXCEPT !.st = "off", !.i = 0]
    BY <1>5, Orders DEF ExitStep
  <2>2. /\ mod'.st = "off" /\ mod'.i = 0
        /\ mod' \in ModStates
    <3>1. 0 \in 0 .. 8 /\ 1 \in 0 .. 8
      OBVIOUS
    <3>. QED
      BY <1>0, <2>1, <3>1 DEF ModStates
  <2>3. dev' = "none"
    BY <1>1, <1>2, <1>5
  <2>4. reg' = {}
    <3>1. \A i \in DOMAIN InitOrder : i \in {1, 2, 3, 4, 5, 6, 7, 8}
      BY Orders
    <3>2. \A x \in reg' : \E j \in {1, 2, 3, 4, 5, 6, 7, 8} : x = ExitOrder[j]
      BY <1>1, <1>2, <3>1, Orders
    <3>3. \A j \in {1, 2, 3, 4, 5, 6, 7, 8} : j \in 1 .. n
      BY <1>5
    <3>. QED
      BY <1>3, <3>2, <3>3
  <2>. QED
    BY <2>2, <2>3, <2>4 DEF ModInv, ModStates
<1>6. CASE n # 8
  <2>1. mod' = [mod EXCEPT !.i = n + 1]
    BY <1>6, Orders DEF ExitStep
  <2>2. /\ mod'.st = "exit" /\ mod'.i = n + 1 /\ n + 1 - 1 = n
        /\ mod' \in ModStates
    BY <1>1, <1>6, <2>1 DEF ModStates
  <2>3. n + 1 > 7 => dev' = "none"
    BY <1>1, <1>2, <1>6, Orders
  <2>. QED
    BY <1>1, <1>2, <1>3, <1>4, <2>2, <2>3 DEF ModInv, ModStates
<1>. QED
  BY <1>5, <1>6

LEMMA IoctlKeeps ==
  ASSUME ModInv, Ioctl
  PROVE  ModInv'
<1>1. /\ "control" \in reg /\ reg' = reg /\ mod' = mod
      /\ dev' \in {"none", "early", "late"}
  BY DEF Ioctl
<1>2. mod.st = "exit" => ~(mod.i > 7)
  <2>. SUFFICES ASSUME mod.st = "exit", mod.i > 7
                PROVE  FALSE
    OBVIOUS
  <2>1. 5 \in 1 .. mod.i - 1
    BY DEF ModInv
  <2>2. ExitOrder[5] = "control"
    BY Orders
  <2>3. reg \cap {ExitOrder[j] : j \in 1 .. mod.i - 1} = {}
    BY DEF ModInv
  <2>. QED
    BY <1>1, <2>1, <2>2, <2>3
<1>. QED
  BY <1>1, <1>2 DEF ModInv

LEMMA LoadKeeps ==
  ASSUME Inv, Load
  PROVE  Inv'
<1>1. ModInv'
  BY InsmodKeeps, RegisterKeeps, RegisterFailsKeeps, UnwindKeeps, RmmodKeeps, ExitStepKeeps,
     IoctlKeeps DEF Inv, Load
<1>2. direct' = direct /\ UNCHANGED taskVars
  BY DEF Load, Insmod, Register, RegisterFails, Unwind, Rmmod, ExitStep, Ioctl
<1>3. TasksInv'
  BY <1>2 DEF Inv, TasksInv, taskVars
<1>. QED
  BY <1>1, <1>3 DEF Inv

-----------------------------------------------------------------------------
(* The theorems.                                                           *)

\* A task that is in no hooked call.
LEMMA IdleTask ==
  ASSUME NEW dr \in BOOLEAN
  PROVE  TaskInv(dr, <<>>, <<>>, FALSE, 0, 0)
<1>. DEFINE E == <<>>
<1>1. E \in Seq(Frame) /\ E \in Seq(Node) /\ Len(E) = 0 /\ DOMAIN E = {}
  BY EmptySeq
<1>. HIDE DEF E
<1>2. SlotsOK(E, E) /\ NodesOK(E, E) /\ HandlersOK(E, E) /\ PostsOK(E, E)
  BY <1>1 DEF SlotsOK, NodesOK, HandlersOK, PostsOK
<1>3. Matches(E, E)
  BY <1>1, <1>2, HooksAssumption DEF Matches
<1>4. OwedBy(E) = {} /\ OwedIn(E) = {}
  BY <1>1 DEF OwedBy, OwedIn
<1>5. 0 = 0 + Cardinality(OwedBy(E)) + Cardinality(OwedIn(E))
  BY <1>4, FS_EmptySet
<1>. QED
  BY <1>1, <1>3, <1>5 DEF TaskInv, E

LEMMA InvInitially ==
  ASSUME Init
  PROVE  Inv
<1>1. ModInv
  BY DEF Init, ModInv
<1>2. /\ direct \in BOOLEAN
      /\ stack = [t \in Tasks |-> <<>>] /\ shadow = [t \in Tasks |-> <<>>]
      /\ tnode = [t \in Tasks |-> FALSE]
      /\ owed = [t \in Tasks |-> 0] /\ lost = [t \in Tasks |-> 0]
      /\ fate = [t \in Tasks |-> "alive"]
  BY DEF Init
<1>3. /\ stack \in [Tasks -> Seq(Frame)] /\ shadow \in [Tasks -> Seq(Node)]
  BY <1>2, EmptySeq
<1>4. owed \in [Tasks -> Nat] /\ lost \in [Tasks -> 0 .. MaxLost]
  BY <1>2, HooksAssumption
<1>5. tnode \in [Tasks -> BOOLEAN] /\ fate \in [Tasks -> {"alive", "gone"}]
  BY <1>2
<1>6. \A t \in Tasks : TaskInv(direct, stack[t], shadow[t], tnode[t], owed[t], lost[t])
  <2>. TAKE t \in Tasks
  <2>1. stack[t] = <<>> /\ shadow[t] = <<>> /\ tnode[t] = FALSE /\ owed[t] = 0 /\ lost[t] = 0
    BY <1>2
  <2>. QED
    BY <1>2, <2>1, IdleTask
<1>. QED
  BY <1>1, <1>2, <1>3, <1>4, <1>5, <1>6 DEF Inv, TasksInv

LEMMA InvInductive ==
  ASSUME Inv, [Next]_vars
  PROVE  Inv'
<1>1. CASE Load
  BY <1>1, LoadKeeps
<1>2. ASSUME NEW t \in Tasks, Task(t)
      PROVE  Inv'
  <2>1. TasksInv' /\ UNCHANGED modVars
    BY <1>2, TaskKeeps DEF Inv
  <2>2. ModInv'
    BY <2>1 DEF Inv, ModInv, modVars
  <2>. QED
    BY <2>1, <2>2 DEF Inv
<1>3. CASE UNCHANGED vars
  BY <1>3 DEF Inv, ModInv, TasksInv, vars
<1>. QED
  BY <1>1, <1>2, <1>3 DEF Next

\* The inductive invariant holds in every reachable state of the hooks.
THEOREM InvIsInvariant == Spec => []Inv
<1>1. Init => Inv
  BY InvInitially
<1>2. Inv /\ [Next]_vars => Inv'
  BY InvInductive
<1>. QED
  BY <1>1, <1>2, PTL DEF Spec

\* The variables of the hooks have their types in every reachable state.
THEOREM TypeOKIsInvariant == Spec => []TypeOK
<1>1. Inv => TypeOK
  <2>. SUFFICES ASSUME Inv
                PROVE  TypeOK
    OBVIOUS
  <2>1. fate \in [Tasks -> {"alive", "bug", "gone"}]
    BY DEF Inv, TasksInv
  <2>. QED
    BY <2>1 DEF Inv, TasksInv, ModInv, TypeOK
<1>. QED
  BY <1>1, InvIsInvariant, PTL

\* No task meets the BUG_ON() or the WARN_ON() of the return handler, or goes
\* back to another address than its own: for any number of tasks, however
\* deep the calls nest and however many nodes a task has.
THEOREM TasksComeHomeIsInvariant == Spec => []TasksComeHome
<1>1. Inv => TasksComeHome
  BY DEF Inv, TasksInv, TasksComeHome
<1>. QED
  BY <1>1, InvIsInvariant, PTL

\* The list of each task is its stack: trampolines, order and real addresses.
THEOREM ShadowMatchesStackIsInvariant == Spec => []ShadowMatchesStack
<1>1. Inv => ShadowMatchesStack
  <2>. SUFFICES ASSUME Inv, NEW t \in Tasks
                PROVE  /\ \A d \in DOMAIN stack[t] :
                            stack[t][d].slot = Trampoline
                              <=> \E i \in DOMAIN shadow[t] : shadow[t][i].frame = d
                       /\ \A i \in DOMAIN shadow[t] :
                            /\ shadow[t][i].frame <= Len(stack[t])
                            /\ IF i > 1 /\ shadow[t][i].frame = shadow[t][i - 1].frame
                               THEN shadow[t][i].ret = Trampoline
                               ELSE shadow[t][i].ret = shadow[t][i].frame
                            /\ i > 1 => shadow[t][i - 1].frame <= shadow[t][i].frame
    BY DEF ShadowMatchesStack, Depth
  <2>1. Matches(stack[t], shadow[t])
    BY DEF Inv, TasksInv, TaskInv
  <2>. DEFINE K == stack[t]
              S == shadow[t]
  <2>2. DOMAIN S = 1 .. Len(S) /\ Len(S) \in Nat
    BY <2>1, StackFacts
  <2>3. SlotsOK(K, S) /\ NodesOK(K, S)
    BY <2>1 DEF Matches
  <2>. HIDE DEF K, S
  <2>4. \A d \in DOMAIN K : K[d].slot = Trampoline <=> \E i \in DOMAIN S : S[i].frame = d
    BY <2>3 DEF SlotsOK
  <2>5. \A i \in DOMAIN S :
          /\ S[i].frame <= Len(K)
          /\ IF i > 1 /\ S[i].frame = S[i - 1].frame
             THEN S[i].ret = Trampoline ELSE S[i].ret = S[i].frame
    BY <2>3 DEF NodesOK
  <2>6. \A i \in DOMAIN S : i > 1 => S[i - 1].frame <= S[i].frame
    BY <2>2, <2>3 DEF NodesOK
  <2>. QED
    BY <2>4, <2>5, <2>6 DEF K, S
<1>. QED
  BY <1>1, InvIsInvariant, PTL

\* A hook has run exactly when its turn in the handler's loop is over.
THEOREM PostsRunOnceIsInvariant == Spec => []PostsRunOnce
<1>1. Inv => PostsRunOnce
  BY DEF Inv, TasksInv, TaskInv, Matches, PostsOK, PostsRunOnce
<1>. QED
  BY <1>1, InvIsInvariant, PTL

\* What the tasks owe is what their lists and wrappers hold, and what was lost.
THEOREM PrePostBalancedIsInvariant == Spec => []PrePostBalanced
<1>1. Inv => PrePostBalanced
  BY DEF Inv, TasksInv, TaskInv, OwedBy, OwedIn, PrePostBalanced
<1>. QED
  BY <1>1, InvIsInvariant, PTL

\* A registered hook finds the array of devices, at every step of agent_init(),
\* of its failure and of agent_exit().
THEOREM HooksNeedArrayIsInvariant == Spec => []HooksNeedArray
<1>1. Inv => HooksNeedArray
  BY DEF Inv, ModInv, HooksNeedArray
<1>. QED
  BY <1>1, InvIsInvariant, PTL

\* An unloaded module, or one whose loading has failed, has left nothing.
THEOREM NothingLeftIsInvariant == Spec => []NothingLeft
<1>1. Inv => NothingLeft
  BY DEF Inv, ModInv, NothingLeft
<1>. QED
  BY <1>1, InvIsInvariant, PTL

=============================================================================
