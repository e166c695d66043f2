---------------------------- MODULE SxQueueProofs ----------------------------
(***************************************************************************)
(* For any set of threads, addresses and data: the linked list of          *)
(* sx_queue.c is always well formed, never holds freed memory, counts its  *)
(* nodes, and behaves as the queue of module Fifo.                         *)
(***************************************************************************)
EXTENDS SxQueue, SequenceTheorems, TLAPS

IInv == TypeOK /\ Exclusion /\ Linked /\ NoDangling /\ Counted

LEMMA InvInit == Init => IInv
<1> SUFFICES ASSUME Init PROVE IInv
  OBVIOUS
<1> USE NullAssumption DEF Init
<1>1. TypeOK
  BY DEF TypeOK
<1>2. Exclusion
  BY DEF Exclusion, Holding
<1>3. Linked
  BY DEF Linked
<1>4. NoDangling
  BY DEF NoDangling, OwnsNode
<1>5. Counted
  BY DEF Counted
<1> QED
  BY <1>1, <1>2, <1>3, <1>4, <1>5 DEF IInv

LEMMA PushAllocInv ==
  ASSUME IInv, NEW t \in Threads, NEW d \in Data, PushAlloc(t, d)
  PROVE  IInv'
<1> PICK n \in Node \ allocated :
      /\ allocated' = allocated \cup {n}
      /\ data' = [data EXCEPT ![n] = d]
      /\ next' = [next EXCEPT ![n] = NULL]
      /\ node' = [node EXCEPT ![t] = n]
  BY DEF PushAlloc
<1> USE NullAssumption DEF IInv, PushAlloc, Goto, queueVars, TypeOK
<1>1. TypeOK'
  BY DEF Waiting, Holding
<1>2. Exclusion'
  BY DEF Exclusion, Holding
<1>3. \A i \in 1 .. Len(chain) : chain[i] \in Node /\ chain[i] # n
  BY ElementOfSeq DEF NoDangling
<1>4. Linked'
  <2>1. \A i \in 1 .. Len(chain) - 1 : next'[chain[i]] = chain[i + 1]
    BY <1>3 DEF Linked
  <2>2. chain # <<>> => 1 \in 1 .. Len(chain) /\ Len(chain) \in 1 .. Len(chain)
    BY EmptySeq
  <2>3. chain # <<>> => next'[tail] = NULL
    BY <1>3, <2>2 DEF Linked
  <2> QED
    BY <2>1, <2>3 DEF Linked
<1>5. NoDangling'
  <2>1. \A i \in 1 .. Len(chain) : chain[i] \in allocated' /\ data'[chain[i]] \in Data
    BY <1>3 DEF NoDangling
  <2>2. ASSUME NEW u \in Threads, OwnsNode(u)'
        PROVE  /\ node'[u] \in allocated'
               /\ next'[node'[u]] = NULL
               /\ data'[node'[u]] \in Data
               /\ \A i \in 1 .. Len(chain) : chain[i] # node'[u]
               /\ \A v \in Threads \ {u} : OwnsNode(v)' => node'[v] # node'[u]
    <3>1. CASE u = t
      BY <1>3, <2>2, <3>1 DEF NoDangling, OwnsNode
    <3>2. CASE u # t
      BY <1>3, <2>2, <3>2 DEF NoDangling, OwnsNode
    <3> QED
      BY <3>1, <3>2
  <2> QED
    BY <2>1, <2>2 DEF NoDangling
<1>6. Counted'
  BY DEF Counted, Exclusion, Holding
<1> QED
  BY <1>1, <1>2, <1>4, <1>5, <1>6

(* The actions that only move the program counter.                         *)
LEMMA BeginInv ==
  ASSUME IInv, NEW t \in Threads, PullBegin(t) \/ LenBegin(t) PROVE IInv'
<1> USE NullAssumption DEF IInv, PullBegin, LenBegin, Goto, queueVars, heapVars
<1>1. TypeOK'
  BY DEF TypeOK, Waiting
<1>2. Exclusion'
  BY DEF Exclusion, Holding, TypeOK
<1>3. Linked' /\ Counted'
  BY DEF Linked, Counted, Exclusion, Holding, TypeOK
<1>4. NoDangling'
  BY DEF NoDangling, OwnsNode, TypeOK
<1> QED
  BY <1>1, <1>2, <1>3, <1>4

LEMMA TakeLockInv ==
  ASSUME IInv, NEW t \in Threads, TakeLock(t) PROVE IInv'
<1> USE NullAssumption DEF IInv, TakeLock, PushLock, PullLock, LenLock, Lock,
        LockFree, Goto, queueVars, heapVars
<1>1. TypeOK'
  BY DEF TypeOK, Holding
<1>2. Exclusion'
  BY DEF Exclusion, Holding, TypeOK
<1>3. Linked' /\ Counted'
  BY DEF Linked, Counted, TypeOK
<1>4. NoDangling'
  BY DEF NoDangling, OwnsNode, TypeOK
<1> QED
  BY <1>1, <1>2, <1>3, <1>4

(* The two ways a push links its node.                                     *)
LEMMA PushLinkInv ==
  ASSUME IInv, NEW t \in Threads, PushLinkFirst(t) \/ PushLinkLast(t)
  PROVE  IInv'
<1> USE NullAssumption DEF IInv, Goto, heapVars
<1> DEFINE L == Len(chain)
<1>1. /\ node[t] \in allocated /\ node[t] \in Node
      /\ next[node[t]] = NULL
      /\ data[node[t]] \in Data
      /\ \A i \in 1 .. L : chain[i] # node[t]
      /\ \A u \in Threads \ {t} : OwnsNode(u) => node[u] # node[t]
  BY DEF PushLinkFirst, PushLinkLast, NoDangling, OwnsNode, TypeOK
<1>2. /\ chain' = Append(chain, node[t])
      /\ chain' \in Seq(Node) /\ Len(chain') = L + 1 /\ L \in Nat
      /\ chain'[L + 1] = node[t]
      /\ \A i \in 1 .. L : chain'[i] = chain[i] /\ chain[i] \in Node
  <2>1. chain' = Append(chain, node[t])
    BY DEF PushLinkFirst, PushLinkLast
  <2>2. chain \in Seq(Node)
    BY DEF TypeOK
  <2>3. \A i \in 1 .. L : chain[i] \in Node
    BY <2>2, ElementOfSeq
  <2> HIDE DEF IInv
  <2> QED
    BY <1>1, <2>1, <2>2, <2>3, AppendProperties, LenProperties
<1>3. pc[t] = "push_link" /\ pc' = [pc EXCEPT ![t] = "push_count"] /\ lock = t
  BY DEF PushLinkFirst, PushLinkLast, Exclusion, Holding
<1>4. TypeOK'
  BY <1>1, <1>2, ZenonT(60) DEF TypeOK, PushLinkFirst, PushLinkLast, Holding
<1>5. Exclusion'
  BY <1>3 DEF Exclusion, Holding, TypeOK, PushLinkFirst, PushLinkLast
<1>6. Counted'
  BY <1>2, <1>3 DEF Counted, TypeOK, PushLinkFirst, PushLinkLast
<1>7. \A i, j \in 1 .. L + 1 : chain'[i] = chain'[j] => i = j
  BY <1>1, <1>2 DEF Linked
<1>8. CASE PushLinkFirst(t)
  <2>1. chain = <<>> /\ L = 0
    <3>1. chain # <<>> => 1 \in 1 .. L
      BY EmptySeq, <1>2 DEF TypeOK
    <3> QED
      BY <1>8, <3>1, <1>2 DEF PushLinkFirst, Linked
  <2>2. Linked'
    BY <1>1, <1>2, <1>7, <1>8, <2>1 DEF PushLinkFirst, Linked
  <2>3. NoDangling'
    BY <1>1, <1>2, <1>3, <1>8, <2>1 DEF PushLinkFirst, NoDangling, OwnsNode, TypeOK
  <2> QED
    BY <1>4, <1>5, <1>6, <2>2, <2>3
<1>9. CASE PushLinkLast(t)
  <2>1. chain # <<>> /\ L \in 1 .. L /\ tail = chain[L] /\ tail \in Node
    BY <1>2, <1>9, EmptySeq DEF PushLinkLast, Linked, TypeOK
  <2>2. next' = [next EXCEPT ![tail] = node[t]] /\ tail' = node[t] /\ head' = head
    BY <1>9 DEF PushLinkLast
  <2>3. \A i \in 1 .. L : next'[chain'[i]] = chain'[i + 1]
    <3> SUFFICES ASSUME NEW i \in 1 .. L PROVE next'[chain'[i]] = chain'[i + 1]
      OBVIOUS
    <3>1. CASE i = L
      BY <1>2, <2>1, <2>2, <3>1 DEF TypeOK
    <3>2. CASE i # L
      <4>1. i \in 1 .. L - 1 /\ i + 1 \in 1 .. L /\ chain[i] # tail
        BY <1>2, <2>1, <3>2 DEF Linked
      <4> QED
        BY <1>2, <2>2, <4>1 DEF Linked, TypeOK
    <3> QED
      BY <3>1, <3>2
  <2>4. Linked'
    <3>1. node[t] # tail
      BY <1>1, <2>1
    <3>2. next'[tail'] = NULL
      BY <1>1, <2>2, <3>1 DEF TypeOK
    <3>3. chain' # <<>> /\ head' = chain'[1] /\ tail' = chain'[Len(chain')]
      BY <1>2, <2>1, <2>2, EmptySeq DEF Linked
    <3> QED
      BY <1>2, <1>7, <2>3, <3>2, <3>3 DEF Linked
  <2>5. NoDangling'
    <3>1. \A u \in Threads : OwnsNode(u)' => OwnsNode(u) /\ u # t
      BY <1>3 DEF OwnsNode, TypeOK
    <3>2. \A u \in Threads : OwnsNode(u) => node[u] # tail /\ node[u] \in Node
      BY <2>1 DEF NoDangling, TypeOK
    <3>3. allocated' = allocated /\ data' = data /\ node' = node
      BY <1>9 DEF PushLinkLast
    <3>4. \A i \in 1 .. Len(chain') : chain'[i] \in allocated' /\ data'[chain'[i]] \in Data
      BY <1>1, <1>2, <3>3 DEF NoDangling
    <3>5. ASSUME NEW u \in Threads, OwnsNode(u)'
          PROVE  /\ node'[u] \in allocated'
                 /\ next'[node'[u]] = NULL
                 /\ data'[node'[u]] \in Data
                 /\ \A i \in 1 .. Len(chain') : chain'[i] # node'[u]
                 /\ \A v \in Threads \ {u} : OwnsNode(v)' => node'[v] # node'[u]
      BY <1>1, <1>2, <2>2, <3>1, <3>2, <3>3, <3>5 DEF NoDangling, TypeOK
    <3> QED
      BY <3>4, <3>5 DEF NoDangling
  <2> QED
    BY <1>4, <1>5, <1>6, <2>4, <2>5
<1> QED
  BY <1>8, <1>9

(* The three ways a pull takes the head of the list.                       *)
LEMMA PullEmptyInv ==
  ASSUME IInv, NEW t \in Threads, PullEmpty(t) PROVE IInv'
<1> USE NullAssumption DEF IInv, PullEmpty, Goto, queueVars, heapVars
<1>1. TypeOK'
  BY DEF TypeOK, Holding
<1>2. Exclusion'
  BY DEF Exclusion, Holding, TypeOK
<1>3. Linked' /\ Counted'
  BY DEF Linked, Counted, TypeOK, Exclusion, Holding
<1>4. NoDangling'
  BY DEF NoDangling, OwnsNode, TypeOK
<1> QED
  BY <1>1, <1>2, <1>3, <1>4

LEMMA PullInv ==
  ASSUME IInv, NEW t \in Threads, PullOnly(t) \/ PullHead(t) PROVE IInv'
<1> USE NullAssumption DEF IInv, Goto
<1> DEFINE L == Len(chain)
<1>1. /\ pc[t] = "pull_unlink" /\ pc' = [pc EXCEPT ![t] = "pull_count"]
      /\ head # NULL /\ Free(head)
      /\ ret' = [ret EXCEPT ![t] = data[head]]
      /\ chain' = Tail(chain)
      /\ len' = len /\ lock' = lock /\ node' = node
  BY DEF PullOnly, PullHead
<1>2. lock = t
  BY <1>1 DEF Exclusion, Holding
<1>3. chain # <<>> /\ head = chain[1] /\ head \in Node
  BY <1>1 DEF Linked, TypeOK
<1>4. /\ chain' \in Seq(Node) /\ Len(chain') = L - 1 /\ L \in Nat \ {0}
      /\ \A i \in 1 .. L - 1 : chain'[i] = chain[i + 1]
      /\ \A i \in 1 .. L : chain[i] \in Node
  <2>1. chain \in Seq(Node)
    BY DEF TypeOK
  <2> HIDE DEF IInv
  <2> QED
    BY <1>1, <1>3, <2>1, HeadTailProperties, ElementOfSeq, LenProperties, EmptySeq
<1>5. data[head] \in Data /\ head \in allocated
  BY <1>3, <1>4 DEF NoDangling
<1>6. \A i \in 1 .. L - 1 : chain'[i] # head
  BY <1>3, <1>4 DEF Linked
<1>7. TypeOK'
  <2>1. head' \in Node \cup {NULL} /\ tail' \in Node \cup {NULL}
    BY <1>3 DEF PullOnly, PullHead, TypeOK
  <2> QED
    BY <1>1, <1>3, <1>4, <1>5, <2>1 DEF TypeOK, Free, Holding
<1>8. Exclusion'
  BY <1>1, <1>2 DEF Exclusion, Holding, TypeOK
<1>9. Counted'
  BY <1>1, <1>2, <1>4, <1>5 DEF Counted, TypeOK
<1>10. NoDangling'
  <2>1. \A u \in Threads : OwnsNode(u)' => OwnsNode(u) /\ u # t
    BY <1>1 DEF OwnsNode, TypeOK
  <2>2. \A u \in Threads : OwnsNode(u) => node[u] # head /\ node[u] \in Node
    BY <1>3, <1>4 DEF NoDangling, TypeOK
  <2>3. \A i \in 1 .. L - 1 : chain'[i] \in allocated' /\ data'[chain'[i]] \in Data
    BY <1>1, <1>4, <1>6 DEF NoDangling, Free, TypeOK
  <2>4. ASSUME NEW u \in Threads, OwnsNode(u)'
        PROVE  /\ node'[u] \in allocated'
               /\ next'[node'[u]] = NULL
               /\ data'[node'[u]] \in Data
               /\ \A i \in 1 .. L - 1 : chain'[i] # node'[u]
               /\ \A v \in Threads \ {u} : OwnsNode(v)' => node'[v] # node'[u]
    BY <1>1, <1>4, <2>1, <2>2, <2>4 DEF NoDangling, Free, TypeOK
  <2> QED
    BY <1>4, <2>3, <2>4 DEF NoDangling
<1>11. /\ \A i, j \in 1 .. L - 1 : chain'[i] = chain'[j] => i = j
       /\ \A i \in 1 .. L - 2 : next'[chain'[i]] = chain'[i + 1]
  <2>1. \A i, j \in 1 .. L - 1 : chain'[i] = chain'[j] => i = j
    BY <1>4 DEF Linked
  <2>2. ASSUME NEW i \in 1 .. L - 2 PROVE next'[chain'[i]] = chain'[i + 1]
    <3>1. i + 1 \in 1 .. L - 1 /\ i \in 1 .. L - 1
      BY <1>4
    <3>2. next[chain[i + 1]] = chain[i + 2]
      BY <3>1, <1>4 DEF Linked
    <3> QED
      BY <1>1, <1>4, <1>6, <3>1, <3>2 DEF Free, TypeOK
  <2> QED
    BY <2>1, <2>2
<1>12. CASE PullOnly(t)
  <2>1. L = 1
    <3>1. 1 \in 1 .. L /\ L \in 1 .. L /\ chain[1] = chain[L]
      BY <1>3, <1>4, <1>12 DEF PullOnly, Linked
    <3> QED
      BY <3>1 DEF Linked
  <2>2. chain' = <<>> /\ head' = NULL /\ tail' = NULL
    BY <1>4, <1>12, <2>1, EmptySeq DEF PullOnly
  <2>3. Linked'
    BY <1>4, <1>11, <2>1, <2>2 DEF Linked
  <2> QED
    BY <1>7, <1>8, <1>9, <1>10, <2>3
<1>13. CASE PullHead(t)
  <2>1. L > 1 /\ tail = chain[L] /\ tail # head
    BY <1>3, <1>4, <1>13 DEF PullHead, Linked
  <2>2. chain' # <<>> /\ head' = chain'[1] /\ tail' = chain'[L - 1]
    <3>1. next[chain[1]] = chain[2] /\ chain'[1] = chain[2]
      BY <1>4, <2>1 DEF Linked
    <3>2. chain'[L - 1] = chain[L] /\ Len(chain') # 0
      BY <1>4, <2>1
    <3>3. chain' # <<>>
      BY <3>2
    <3> QED
      BY <1>3, <1>13, <2>1, <3>1, <3>2, <3>3 DEF PullHead
  <2>3. next'[tail'] = NULL
    BY <1>1, <1>3, <1>4, <1>13, <2>1 DEF PullHead, Free, Linked, TypeOK
  <2>4. Linked'
    BY <1>4, <1>11, <2>1, <2>2, <2>3 DEF Linked
  <2> QED
    BY <1>7, <1>8, <1>9, <1>10, <2>4
<1> QED
  BY <1>12, <1>13

LEMMA UnlockInv ==
  ASSUME IInv, NEW t \in Threads, PushCount(t) \/ PullCount(t) \/ LenUnlock(t)
  PROVE  IInv'
<1> USE NullAssumption DEF IInv, PushCount, PullCount, LenUnlock, Unlock, Goto,
        queueVars, heapVars
<1>1. lock = t /\ lock' = NULL
  BY DEF Exclusion, Holding
<1>2. Len(chain) \in Nat
  BY DEF TypeOK
<1>3. len' \in Nat
  BY <1>1, <1>2 DEF Counted, TypeOK
<1>4. TypeOK'
  BY <1>3 DEF TypeOK
<1>5. Exclusion'
  BY <1>1 DEF Exclusion, Holding, TypeOK
<1>6. Counted'
  BY <1>1, <1>2 DEF Counted, TypeOK
<1>7. Linked'
  BY DEF Linked
<1>8. NoDangling'
  <2>1. \A u \in Threads : OwnsNode(u)' => OwnsNode(u) /\ node'[u] = node[u]
    BY DEF OwnsNode, TypeOK
  <2> QED
    BY <2>1 DEF NoDangling
<1> QED
  BY <1>4, <1>5, <1>6, <1>7, <1>8

LEMMA LenReadInv ==
  ASSUME IInv, NEW t \in Threads, LenRead(t) PROVE IInv'
<1> USE NullAssumption DEF IInv, LenRead, Goto, queueVars, heapVars
<1>1. TypeOK'
  BY DEF TypeOK, Holding
<1>2. Exclusion'
  BY DEF Exclusion, Holding, TypeOK
<1>3. Linked' /\ Counted'
  BY DEF Linked, Counted, TypeOK, Exclusion, Holding
<1>4. NoDangling'
  BY DEF NoDangling, OwnsNode, TypeOK
<1> QED
  BY <1>1, <1>2, <1>3, <1>4

LEMMA InvNext == IInv /\ [Next]_vars => IInv'
<1> SUFFICES ASSUME IInv, [Next]_vars PROVE IInv'
  OBVIOUS
<1>1. ASSUME NEW t \in Threads, Begin(t) PROVE IInv'
  BY <1>1, PushAllocInv, BeginInv DEF Begin
<1>2. ASSUME NEW t \in Threads, TakeLock(t) PROVE IInv'
  BY <1>2, TakeLockInv
<1>3. ASSUME NEW t \in Threads, Inside(t) PROVE IInv'
  BY <1>3, PushLinkInv, PullEmptyInv, PullInv, UnlockInv, LenReadInv DEF Inside
<1>4. CASE UNCHANGED vars
  BY <1>4 DEF vars, IInv, TypeOK, Exclusion, Linked, NoDangling, OwnsNode, Counted
<1> QED
  BY <1>1, <1>2, <1>3, <1>4 DEF Next

(* Along every behaviour the list of sx_queue.c is well formed, the lock   *)
(* has one owner, no reachable pointer dangles and the counter is exact.   *)
THEOREM ListInvariant == SafeSpec => []IInv
<1> QED
  BY InvInit, InvNext, PTL DEF SafeSpec

(* No pointer that sx_queue.c can follow leads to freed memory.            *)
THEOREM NoUseAfterFree == SafeSpec => []NoDangling
<1>1. IInv => NoDangling
  BY DEF IInv
<1> QED
  BY <1>1, ListInvariant, PTL

(* The three asserts of sx_queue_pull never fail.                          *)
THEOREM PullAssertsHold == SafeSpec => []PullAsserts
<1>1. IInv => PullAsserts
  <2> SUFFICES ASSUME IInv, NEW t \in Threads, pc[t] = "pull_unlink"
               PROVE  /\ head = NULL => tail = NULL
                      /\ head # NULL /\ head = tail =>
                           next[head] = NULL /\ next[tail] = NULL
    BY DEF PullAsserts
  <2>1. CASE chain = <<>>
    BY <2>1 DEF IInv, Linked
  <2>2. CASE chain # <<>>
    <3>1. head \in Node
      BY <2>2, ElementOfSeq, EmptySeq DEF IInv, Linked, TypeOK, NoDangling
    <3> QED
      BY <2>2, <3>1, NullAssumption DEF IInv, Linked
  <2> QED
    BY <2>1, <2>2
<1> QED
  BY <1>1, ListInvariant, PTL

(* No node is lost: the one a push built goes into the list, and the one a *)
(* pull takes out of the list is the one it frees.                         *)
LEMMA NoLeakNext ==
  ASSUME IInv, NoLeak, [Next]_vars PROVE NoLeak'
<1> DEFINE Listed(n) == \E i \in 1 .. Len(chain) : chain[i] = n
           Owned(n) == \E u \in Threads : OwnsNode(u) /\ node[u] = n
<1>1. CASE UNCHANGED vars
  BY <1>1 DEF vars, NoLeak, OwnsNode
<1>2. ASSUME NEW t \in Threads, NEW d \in Data, PushAlloc(t, d) PROVE NoLeak'
  <2>1. PICK n \in Node \ allocated :
          /\ allocated' = allocated \cup {n}
          /\ node' = [node EXCEPT ![t] = n]
    BY <1>2 DEF PushAlloc
  <2>2. pc[t] = "idle" /\ pc' = [pc EXCEPT ![t] = "push_lock"] /\ chain' = chain
    BY <1>2 DEF PushAlloc, Goto
  <2>3. OwnsNode(t)' /\ node'[t] = n
    BY <2>1, <2>2 DEF IInv, TypeOK, OwnsNode
  <2>4. \A u \in Threads : OwnsNode(u) => OwnsNode(u)' /\ node'[u] = node[u]
    BY <2>1, <2>2 DEF IInv, TypeOK, OwnsNode
  <2> QED
    BY <2>1, <2>2, <2>3, <2>4 DEF NoLeak
<1>3. ASSUME NEW t \in Threads, PullBegin(t) \/ LenBegin(t) \/ TakeLock(t)
                               \/ PullEmpty(t) \/ LenRead(t)
      PROVE  NoLeak'
  <2>1. allocated' = allocated /\ chain' = chain /\ node' = node
    BY <1>3 DEF PullBegin, LenBegin, TakeLock, PushLock, PullLock, LenLock, Lock,
                PullEmpty, LenRead, heapVars
  <2>2. \A u \in Threads : OwnsNode(u) => OwnsNode(u)'
    BY <1>3 DEF PullBegin, LenBegin, TakeLock, PushLock, PullLock, LenLock, Lock,
                PullEmpty, LenRead, Goto, OwnsNode, IInv, TypeOK
  <2> QED
    BY <2>1, <2>2 DEF NoLeak
<1>4. ASSUME NEW t \in Threads, PushCount(t) \/ PullCount(t) \/ LenUnlock(t)
      PROVE  NoLeak'
  <2>1. allocated' = allocated /\ chain' = chain
    BY <1>4 DEF PushCount, PullCount, LenUnlock, heapVars
  <2>2. \A u \in Threads : OwnsNode(u) => OwnsNode(u)' /\ node'[u] = node[u]
    BY <1>4 DEF PushCount, PullCount, LenUnlock, Unlock, Goto, OwnsNode, IInv, TypeOK
  <2> QED
    BY <2>1, <2>2 DEF NoLeak
<1>5. ASSUME NEW t \in Threads, PushLinkFirst(t) \/ PushLinkLast(t) PROVE NoLeak'
  <2>1. /\ chain' = Append(chain, node[t]) /\ allocated' = allocated /\ node' = node
        /\ pc' = [pc EXCEPT ![t] = "push_count"] /\ pc[t] = "push_link"
    BY <1>5 DEF PushLinkFirst, PushLinkLast, Goto, heapVars
  <2>2. chain \in Seq(Node) /\ node[t] \in Node
    BY <2>1 DEF IInv, TypeOK, NoDangling, OwnsNode
  <2>3. /\ Len(chain) \in Nat /\ Len(chain') = Len(chain) + 1
        /\ chain'[Len(chain) + 1] = node[t]
        /\ \A i \in 1 .. Len(chain) : chain'[i] = chain[i]
    BY <2>1, <2>2, AppendProperties, LenProperties
  <2>4. \A u \in Threads : OwnsNode(u) => OwnsNode(u)' \/ u = t
    BY <2>1 DEF OwnsNode, IInv, TypeOK
  <2> SUFFICES ASSUME NEW n \in allocated' PROVE (Listed(n) \/ Owned(n))'
    BY DEF NoLeak
  <2>5. CASE Listed(n)
    <3>1. PICK i \in 1 .. Len(chain) : chain[i] = n
      BY <2>5
    <3>2. i \in 1 .. Len(chain') /\ chain'[i] = n
      BY <2>3, <3>1
    <3> QED
      BY <3>2
  <2>6. CASE Owned(n)
    <3>1. PICK u \in Threads : OwnsNode(u) /\ node[u] = n
      BY <2>6
    <3>2. CASE u = t
      BY <2>3, <3>1, <3>2
    <3>3. CASE u # t
      BY <2>1, <2>4, <3>1, <3>3
    <3> QED
      BY <3>2, <3>3
  <2> QED
    BY <2>1, <2>5, <2>6 DEF NoLeak
<1>6. ASSUME NEW t \in Threads, PullOnly(t) \/ PullHead(t) PROVE NoLeak'
  <2>1. /\ chain' = Tail(chain) /\ allocated' = allocated \ {head} /\ node' = node
        /\ pc' = [pc EXCEPT ![t] = "pull_count"] /\ pc[t] = "pull_unlink" /\ head # NULL
    BY <1>6 DEF PullOnly, PullHead, Goto, Free
  <2>2. chain \in Seq(Node) /\ chain # <<>> /\ head = chain[1]
    BY <2>1 DEF IInv, TypeOK, Linked
  <2>3. /\ Len(chain) \in Nat \ {0} /\ Len(chain') = Len(chain) - 1
        /\ \A i \in 1 .. Len(chain') : chain'[i] = chain[i + 1]
    BY <2>1, <2>2, HeadTailProperties, EmptySeq
  <2>4. \A u \in Threads : OwnsNode(u) => OwnsNode(u)'
    BY <2>1 DEF OwnsNode, IInv, TypeOK
  <2> SUFFICES ASSUME NEW n \in allocated' PROVE (Listed(n) \/ Owned(n))'
    BY DEF NoLeak
  <2>5. n \in allocated /\ n # head
    BY <2>1
  <2>6. CASE Listed(n)
    <3>1. PICK i \in 1 .. Len(chain) : chain[i] = n
      BY <2>6
    <3>2. i - 1 \in 1 .. Len(chain') /\ chain'[i - 1] = n
      BY <2>2, <2>3, <2>5, <3>1
    <3> QED
      BY <3>2
  <2>7. CASE Owned(n)
    BY <2>1, <2>4, <2>7
  <2> QED
    BY <2>5, <2>6, <2>7 DEF NoLeak
<1> QED
  BY <1>1, <1>2, <1>3, <1>4, <1>5, <1>6 DEF Next, Begin, Inside

(* Nothing that sx_queue.c allocates is lost: at every step of every       *)
(* thread the list is well formed and no node is leaked.                   *)
THEOREM NothingLost == SafeSpec => []ListShape
<1>1. Init => NoLeak
  BY DEF Init, NoLeak
<1>2. IInv /\ NoLeak /\ [Next]_vars => NoLeak'
  BY NoLeakNext
<1>3. IInv /\ NoLeak => ListShape
  BY DEF IInv, ListShape
<1> QED
  BY <1>1, <1>2, <1>3, ListInvariant, PTL DEF SafeSpec

-----------------------------------------------------------------------------
(* The refinement: every step of the linked list is a step of the abstract *)
(* queue or leaves it alone.                                               *)
AbsQueueOK ==
  /\ absQueue \in Seq(Data)
  /\ Len(absQueue) = Len(chain)
  /\ \A i \in 1 .. Len(chain) : absQueue[i] = data[chain[i]]
  /\ chain = <<>> <=> absQueue = <<>>

LEMMA AbsQueue == IInv => AbsQueueOK
<1> SUFFICES ASSUME IInv PROVE AbsQueueOK
  OBVIOUS
<1>1. Len(chain) \in Nat /\ chain \in Seq(Node)
  BY DEF IInv, TypeOK
<1>2. \A i \in 1 .. Len(chain) : data[chain[i]] \in Data
  BY DEF IInv, NoDangling
<1>3. absQueue \in Seq(Data) /\ Len(absQueue) = Len(chain)
  BY <1>1, <1>2, IsASeq DEF absQueue, DataOf
<1>4. \A i \in 1 .. Len(chain) : absQueue[i] = data[chain[i]]
  BY DEF absQueue, DataOf
<1> QED
  BY <1>1, <1>3, <1>4, EmptySeq DEF AbsQueueOK

LEMMA RefInit == Init => F!Init
<1> SUFFICES ASSUME Init PROVE F!Init
  OBVIOUS
<1>1. absQueue = <<>>
  BY InvInit, AbsQueue DEF Init, AbsQueueOK
<1>2. absOp = [t \in Threads |-> F!NoCall]
  BY DEF Init, absOp, CallOf, Entry, F!NoCall, F!Entry
<1> QED
  BY <1>1, <1>2 DEF F!Init, absQueue, absOp

(* A step of t that leaves alone what the other threads' calls depend on   *)
(* changes t's call only.                                                  *)
OthersSame(t) ==
  \A u \in Threads \ {t} :
    /\ pc'[u] = pc[u] /\ ret'[u] = ret[u]
    /\ OwnsNode(u) => node'[u] = node[u] /\ data'[node[u]] = data[node[u]]

LEMMA RefOp ==
  ASSUME NEW t \in Threads, OthersSame(t)
  PROVE  absOp[t] = CallOf(t) /\ absOp' = [absOp EXCEPT ![t] = CallOf(t)']
<1>1. \A u \in Threads \ {t} : CallOf(u)' = CallOf(u)
  <2> SUFFICES ASSUME NEW u \in Threads \ {t} PROVE CallOf(u)' = CallOf(u)
    OBVIOUS
  <2>1. CASE OwnsNode(u)
    BY <2>1 DEF OthersSame, CallOf, OwnsNode, Entry
  <2>2. CASE ~ OwnsNode(u)
    BY <2>2 DEF OthersSame, CallOf, OwnsNode, Entry
  <2> QED
    BY <2>1, <2>2
<1> QED
  BY <1>1 DEF absOp

(* A step that does not change the list or its data.                       *)
LEMMA RefSameQueue ==
  ASSUME IInv, chain' = chain,
         \A i \in 1 .. Len(chain) : data'[chain[i]] = data[chain[i]]
  PROVE  absQueue' = absQueue
BY DEF absQueue, DataOf

LEMMA RefPushAlloc ==
  ASSUME IInv, NEW t \in Threads, NEW d \in Data, PushAlloc(t, d)
  PROVE  F!Call(t, "put", d)
<1>1. PICK n \in Node \ allocated :
        data' = [data EXCEPT ![n] = d] /\ node' = [node EXCEPT ![t] = n]
  BY DEF PushAlloc
<1>2. /\ pc[t] = "idle" /\ pc' = [pc EXCEPT ![t] = "push_lock"]
      /\ chain' = chain /\ ret' = ret
  BY DEF PushAlloc, Goto
<1>3. OthersSame(t)
  BY <1>1, <1>2 DEF OthersSame, IInv, NoDangling, TypeOK
<1>4. absQueue' = absQueue
  BY <1>1, <1>2, RefSameQueue DEF IInv, NoDangling, TypeOK
<1>5. CallOf(t) = F!NoCall /\ CallOf(t)' = F!Entry("put", d, FALSE, NULL)
  BY <1>1, <1>2 DEF CallOf, Entry, F!NoCall, F!Entry, IInv, TypeOK
<1> QED
  BY <1>3, <1>4, <1>5, RefOp DEF F!Call

LEMMA RefBegin ==
  ASSUME IInv, NEW t \in Threads, PullBegin(t) \/ LenBegin(t)
  PROVE  F!Call(t, "get", NULL) \/ F!Call(t, "len", NULL)
<1> USE DEF PullBegin, LenBegin, Goto, heapVars
<1>1. OthersSame(t) /\ absQueue' = absQueue
  BY RefSameQueue DEF OthersSame, IInv, TypeOK
<1>2. CallOf(t) = F!NoCall
  BY DEF CallOf, Entry, F!NoCall, F!Entry
<1>3. \/ CallOf(t)' = F!Entry("get", NULL, FALSE, NULL)
      \/ CallOf(t)' = F!Entry("len", NULL, FALSE, NULL)
  BY DEF CallOf, Entry, F!NoCall, F!Entry, IInv, TypeOK
<1> HIDE DEF PullBegin, LenBegin
<1> QED
  BY <1>1, <1>2, <1>3, RefOp DEF F!Call

LEMMA RefTakeLock ==
  ASSUME IInv, NEW t \in Threads, TakeLock(t)
  PROVE  UNCHANGED <<absQueue, absOp>>
<1> USE DEF TakeLock, PushLock, PullLock, LenLock, Lock, Goto, heapVars
<1>1. OthersSame(t) /\ absQueue' = absQueue
  BY RefSameQueue DEF OthersSame, IInv, TypeOK
<1>2. CallOf(t)' = CallOf(t)
  BY DEF CallOf, Entry, IInv, TypeOK
<1> QED
  BY <1>1, <1>2, RefOp DEF absOp

LEMMA RefPushLink ==
  ASSUME IInv, IInv', NEW t \in Threads, PushLinkFirst(t) \/ PushLinkLast(t)
  PROVE  F!Put(t)
<1>1. /\ pc[t] = "push_link" /\ pc' = [pc EXCEPT ![t] = "push_count"]
      /\ chain' = Append(chain, node[t])
      /\ data' = data /\ node' = node /\ ret' = ret
  BY DEF PushLinkFirst, PushLinkLast, Goto, heapVars
<1>2. OthersSame(t)
  BY <1>1 DEF OthersSame, IInv, TypeOK
<1>3. /\ CallOf(t) = Entry("put", data[node[t]], FALSE, NULL)
      /\ CallOf(t)' = Entry("put", NULL, TRUE, NULL)
  BY <1>1 DEF CallOf, Entry, IInv, TypeOK
<1>4. node[t] \in Node /\ data[node[t]] \in Data
  BY <1>1 DEF IInv, NoDangling, OwnsNode, TypeOK
<1>5. absQueue' = Append(absQueue, data[node[t]])
  <2>1. /\ Len(chain') = Len(chain) + 1 /\ Len(chain) \in Nat
        /\ chain'[Len(chain) + 1] = node[t]
        /\ \A i \in 1 .. Len(chain) : chain'[i] = chain[i]
    <3>1. chain \in Seq(Node)
      BY DEF IInv, TypeOK
    <3> QED
      BY <1>1, <1>4, <3>1, AppendProperties, LenProperties
  <2>2. /\ absQueue' \in Seq(Data)
        /\ Len(absQueue') = Len(chain')
        /\ \A i \in 1 .. Len(chain') : absQueue'[i] = data'[chain'[i]]
    <3>1. AbsQueueOK'
      BY AbsQueue, PTL
    <3> QED
      BY <3>1 DEF AbsQueueOK
  <2>3. /\ absQueue \in Seq(Data)
        /\ Len(absQueue) = Len(chain)
        /\ \A i \in 1 .. Len(chain) : absQueue[i] = data[chain[i]]
    BY AbsQueue DEF AbsQueueOK
  <2>4. /\ Append(absQueue, data[node[t]]) \in Seq(Data)
        /\ Len(Append(absQueue, data[node[t]])) = Len(chain) + 1
        /\ \A i \in 1 .. Len(chain) : Append(absQueue, data[node[t]])[i] = absQueue[i]
        /\ Append(absQueue, data[node[t]])[Len(chain) + 1] = data[node[t]]
    BY <1>4, <2>3, AppendProperties
  <2>5. ASSUME NEW i \in 1 .. Len(chain) + 1
        PROVE  absQueue'[i] = Append(absQueue, data[node[t]])[i]
    <3>1. absQueue'[i] = data[chain'[i]]
      BY <1>1, <2>1, <2>2
    <3>2. CASE i = Len(chain) + 1
      BY <2>1, <2>4, <3>1, <3>2
    <3>3. CASE i \in 1 .. Len(chain)
      BY <2>1, <2>3, <2>4, <3>1, <3>3
    <3>4. Len(chain) \in Nat
      BY <2>1
    <3>5. i = Len(chain) + 1 \/ i \in 1 .. Len(chain)
      BY <3>4
    <3> QED
      BY <3>2, <3>3, <3>5
  <2> QED
    BY <2>1, <2>2, <2>4, <2>5, SeqEqual
<1> QED
  BY <1>2, <1>3, <1>5, RefOp DEF F!Put, F!Pending, F!Answer, F!Entry, Entry

LEMMA RefPull ==
  ASSUME IInv, IInv', NEW t \in Threads, PullOnly(t) \/ PullHead(t)
  PROVE  F!Get(t)
<1>1. /\ pc[t] = "pull_unlink" /\ pc' = [pc EXCEPT ![t] = "pull_count"]
      /\ head # NULL /\ Free(head)
      /\ ret' = [ret EXCEPT ![t] = data[head]]
      /\ chain' = Tail(chain) /\ node' = node
  BY DEF PullOnly, PullHead, Goto
<1>2. chain # <<>> /\ head = chain[1] /\ head \in Node
  BY <1>1, NullAssumption DEF IInv, Linked, TypeOK
<1>3. /\ Len(chain') = Len(chain) - 1 /\ Len(chain) \in Nat \ {0}
      /\ \A i \in 1 .. Len(chain) - 1 : chain'[i] = chain[i + 1]
      /\ \A i \in 1 .. Len(chain) : chain[i] \in Node
  <2>1. chain \in Seq(Node)
    BY DEF IInv, TypeOK
  <2> QED
    BY <1>1, <1>2, <2>1, HeadTailProperties, ElementOfSeq, LenProperties, EmptySeq
<1>4. \A u \in Threads : OwnsNode(u) => node[u] # head /\ node[u] \in Node
  BY <1>2, <1>3 DEF IInv, NoDangling, TypeOK
<1>5. OthersSame(t)
  BY <1>1, <1>4 DEF OthersSame, Free, IInv, TypeOK
<1>6. /\ CallOf(t) = Entry("get", NULL, FALSE, NULL)
      /\ CallOf(t)' = Entry("get", NULL, TRUE, data[head])
  BY <1>1 DEF CallOf, Entry, IInv, TypeOK
<1>7. AbsQueueOK /\ AbsQueueOK'
  BY AbsQueue, PTL
<1>8. absQueue # <<>> /\ Head(absQueue) = data[head]
  BY <1>2, <1>3, <1>7, HeadTailProperties DEF AbsQueueOK
<1>9. absQueue' = Tail(absQueue)
  <2>1. /\ Tail(absQueue) \in Seq(Data)
        /\ Len(Tail(absQueue)) = Len(chain) - 1
        /\ \A i \in 1 .. Len(chain) - 1 : Tail(absQueue)[i] = absQueue[i + 1]
    BY <1>7, <1>8, HeadTailProperties DEF AbsQueueOK
  <2>2. /\ absQueue' \in Seq(Data)
        /\ Len(absQueue') = Len(chain) - 1
    BY <1>3, <1>7 DEF AbsQueueOK
  <2>3. ASSUME NEW i \in 1 .. Len(chain) - 1
        PROVE  absQueue'[i] = Tail(absQueue)[i]
    <3>1. i + 1 \in 1 .. Len(chain) /\ i \in 1 .. Len(chain')
      BY <1>3
    <3>2. absQueue'[i] = data'[chain[i + 1]]
      BY <1>3, <1>7, <3>1 DEF AbsQueueOK
    <3>3. chain[i + 1] # head
      BY <1>2, <1>3, <3>1 DEF IInv, Linked
    <3>4. data'[chain[i + 1]] = data[chain[i + 1]]
      BY <1>1, <1>3, <3>1, <3>3 DEF Free, IInv, TypeOK
    <3> QED
      BY <1>7, <2>1, <3>1, <3>2, <3>4 DEF AbsQueueOK
  <2> QED
    BY <2>1, <2>2, <2>3, SeqEqual
<1> QED
  BY <1>5, <1>6, <1>8, <1>9, RefOp DEF F!Get, F!Pending, F!Answer, F!Entry, Entry

LEMMA RefPullEmpty ==
  ASSUME IInv, NEW t \in Threads, PullEmpty(t) PROVE F!GetEmpty(t)
<1>1. /\ pc[t] = "pull_unlink" /\ pc' = [pc EXCEPT ![t] = "pull_count"]
      /\ head = NULL /\ ret' = [ret EXCEPT ![t] = NULL]
      /\ chain' = chain /\ data' = data /\ node' = node
  BY DEF PullEmpty, Goto, heapVars
<1>2. chain = <<>>
  <2> SUFFICES ASSUME chain # <<>> PROVE FALSE
    OBVIOUS
  <2>1. 1 \in 1 .. Len(chain)
    BY EmptySeq DEF IInv, TypeOK
  <2> QED
    BY <1>1, <2>1, NullAssumption DEF IInv, Linked, NoDangling, TypeOK
<1>3. absQueue = <<>> /\ absQueue' = absQueue
  BY <1>1, <1>2, AbsQueue, RefSameQueue DEF AbsQueueOK
<1>4. OthersSame(t)
  BY <1>1 DEF OthersSame, IInv, TypeOK
<1>5. /\ CallOf(t) = Entry("get", NULL, FALSE, NULL)
      /\ CallOf(t)' = Entry("get", NULL, TRUE, NULL)
  BY <1>1 DEF CallOf, Entry, IInv, TypeOK
<1> QED
  BY <1>3, <1>4, <1>5, RefOp DEF F!GetEmpty, F!Pending, F!Answer, F!Entry, Entry

LEMMA RefLenRead ==
  ASSUME IInv, NEW t \in Threads, LenRead(t) PROVE F!LenGet(t)
<1>1. /\ pc[t] = "len_read" /\ pc' = [pc EXCEPT ![t] = "len_unlock"]
      /\ ret' = [ret EXCEPT ![t] = len]
      /\ chain' = chain /\ data' = data /\ node' = node
  BY DEF LenRead, Goto, heapVars
<1>2. lock = t
  BY <1>1 DEF IInv, Exclusion, Holding
<1>3. len = Len(absQueue) /\ absQueue' = absQueue
  BY <1>1, <1>2, AbsQueue, RefSameQueue, NullAssumption DEF AbsQueueOK, IInv, Counted, TypeOK
<1>4. OthersSame(t)
  BY <1>1 DEF OthersSame, IInv, TypeOK
<1>5. /\ CallOf(t) = Entry("len", NULL, FALSE, NULL)
      /\ CallOf(t)' = Entry("len", NULL, TRUE, len)
  BY <1>1 DEF CallOf, Entry, IInv, TypeOK
<1> QED
  BY <1>3, <1>4, <1>5, RefOp DEF F!LenGet, F!Pending, F!Answer, F!Entry, Entry

LEMMA RefUnlock ==
  ASSUME IInv, NEW t \in Threads, PushCount(t) \/ PullCount(t) \/ LenUnlock(t)
  PROVE  F!Return(t)
<1>1. /\ pc[t] \in {"push_count", "pull_count", "len_unlock"}
      /\ pc' = [pc EXCEPT ![t] = "idle"]
      /\ ret' = [ret EXCEPT ![t] = NULL] /\ node' = [node EXCEPT ![t] = NULL]
      /\ chain' = chain /\ data' = data
  BY DEF PushCount, PullCount, LenUnlock, Unlock, Goto, heapVars
<1>2. OthersSame(t) /\ absQueue' = absQueue
  BY <1>1, RefSameQueue DEF OthersSame, IInv, TypeOK
<1>3. CallOf(t).done /\ CallOf(t)' = F!NoCall
  BY <1>1 DEF CallOf, Entry, F!NoCall, F!Entry, IInv, TypeOK
<1> QED
  BY <1>2, <1>3, RefOp DEF F!Return

LEMMA RefNext == IInv /\ IInv' /\ [Next]_vars => [F!Next]_(F!vars)
<1> SUFFICES ASSUME IInv, IInv', [Next]_vars PROVE F!Next \/ UNCHANGED F!vars
  OBVIOUS
<1>1. ASSUME NEW t \in Threads, Begin(t) PROVE F!Next
  BY <1>1, RefPushAlloc, RefBegin DEF Begin, F!Next
<1>2. ASSUME NEW t \in Threads, TakeLock(t) PROVE UNCHANGED F!vars
  BY <1>2, RefTakeLock DEF F!vars
<1>3. ASSUME NEW t \in Threads, Inside(t) PROVE F!Next
  BY <1>3, RefPushLink, RefPullEmpty, RefPull, RefLenRead, RefUnlock
     DEF Inside, F!Next, F!Effect
<1>4. CASE UNCHANGED vars
  BY <1>4 DEF vars, F!vars, absQueue, absOp, DataOf, CallOf
<1> QED
  BY <1>1, <1>2, <1>3, <1>4 DEF Next

(* The linked list of sx_queue.c implements the atomic queue of Fifo: the  *)
(* order of the pipes, the answer NULL exactly when a queue is empty, and  *)
(* the exact length, whatever the number of threads.                       *)
THEOREM Linearizable == SafeSpec => ImplementsFifo
<1> QED
  BY ListInvariant, RefInit, RefNext, PTL DEF SafeSpec, ImplementsFifo, F!SafeSpec
=============================================================================
