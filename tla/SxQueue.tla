------------------------------- MODULE SxQueue -------------------------------
(***************************************************************************)
(* common/src/sx_queue.c: the singly linked list behind every pipe, its    *)
(* mutex, and the threads that push, pull and ask for the length.          *)
(*                                                                         *)
(* A node is an address: malloc picks any address that is not allocated,   *)
(* so a freed node may come back while another thread is in an operation.  *)
(* `next' and `data' are the fields of the node at each address.  The      *)
(* length is an unsigned int that would need 2^32 nodes to wrap; Node is   *)
(* the bound on them here, so it is a natural number.                      *)
(***************************************************************************)
EXTENDS Naturals, Sequences

CONSTANTS
  Threads,  \* the threads that use the queue
  Node,     \* the addresses malloc can return for an sNODE
  Data,     \* what is pushed: pointers, never NULL (assert, line 104)
  NULL

ASSUME NullAssumption == NULL \notin Threads \cup Node \cup Data \cup Nat

VARIABLES
  head, tail, len, lock,   \* the fields of sQUEUE; lock: its owner, or NULL
  next, data, allocated,   \* the heap
  pc, node, ret,           \* per thread: where it is, its node, its result
  chain                    \* auxiliary: the linked nodes in list order

queueVars == <<head, tail, len>>
heapVars  == <<next, data, allocated>>
vars == <<head, tail, len, lock, next, data, allocated, pc, node, ret, chain>>

Holding == {"push_link", "push_count", "pull_unlink", "pull_count",
            "len_read", "len_unlock"}
Waiting == {"push_lock", "pull_lock", "len_lock"}

TypeOK ==
  /\ head \in Node \cup {NULL}
  /\ tail \in Node \cup {NULL}
  /\ len \in Nat
  /\ lock \in Threads \cup {NULL}
  /\ next \in [Node -> Node \cup {NULL}]
  /\ data \in [Node -> Data \cup {NULL}]
  /\ allocated \in SUBSET Node
  /\ pc \in [Threads -> {"idle"} \cup Waiting \cup Holding]
  /\ node \in [Threads -> Node \cup {NULL}]
  /\ ret \in [Threads -> Data \cup Nat \cup {NULL}]
  /\ chain \in Seq(Node)

(* sx_queue_create                                                         *)
Init ==
  /\ head = NULL /\ tail = NULL /\ len = 0 /\ lock = NULL
  /\ next = [n \in Node |-> NULL]
  /\ data = [n \in Node |-> NULL]
  /\ allocated = {}
  /\ pc = [t \in Threads |-> "idle"]
  /\ node = [t \in Threads |-> NULL]
  /\ ret = [t \in Threads |-> NULL]
  /\ chain = <<>>

-----------------------------------------------------------------------------
Goto(t, l) == pc' = [pc EXCEPT ![t] = l]

(* pthread_mutex_unlock and return: the locals go out of scope.            *)
Unlock(t) ==
  /\ lock' = NULL
  /\ Goto(t, "idle")
  /\ node' = [node EXCEPT ![t] = NULL]
  /\ ret' = [ret EXCEPT ![t] = NULL]

(* free: the node's contents are gone.                                     *)
Free(n) ==
  /\ allocated' = allocated \ {n}
  /\ next' = [next EXCEPT ![n] = NULL]
  /\ data' = [data EXCEPT ![n] = NULL]

(* Slips.  Each definition up to the next line is a plausible mistake in   *)
(* the operation it is named after; none of them is part of the            *)
(* specification.  Put in the place of that operation it breaks the        *)
(* property named in its comment.                                          *)

(* ListShape: the tail is not moved.                                       *)
PushLinkLast_KeepsTail(t) ==
  /\ pc[t] = "push_link" /\ head # NULL
  /\ next' = [next EXCEPT ![tail] = node[t]]
  /\ chain' = Append(chain, node[t])
  /\ Goto(t, "push_count")
  /\ UNCHANGED <<queueVars, lock, data, allocated, node, ret>>

(* PullAsserts: only the head is reset.                                    *)
PullOnly_KeepsTail(t) ==
  /\ pc[t] = "pull_unlink" /\ head # NULL /\ head = tail
  /\ ret' = [ret EXCEPT ![t] = data[head]]
  /\ Free(head)
  /\ head' = NULL
  /\ chain' = Tail(chain)
  /\ Goto(t, "pull_count")
  /\ UNCHANGED <<tail, len, lock, node>>

(* NoDangling: the head is advanced first, and then freed.                 *)
PullHead_FreesNext(t) ==
  /\ pc[t] = "pull_unlink" /\ head # NULL /\ head # tail
  /\ ret' = [ret EXCEPT ![t] = data[head]]
  /\ Free(next[head])
  /\ head' = next[head]
  /\ chain' = Tail(chain)
  /\ Goto(t, "pull_count")
  /\ UNCHANGED <<tail, len, lock, node>>

(* ImplementsFifo: the length is read without the lock.                    *)
LenLock_Skipped(t) ==
  /\ pc[t] = "len_lock"
  /\ Goto(t, "len_read")
  /\ UNCHANGED <<queueVars, lock, heapVars, node, ret, chain>>

(* ImplementsFifoLive: the lock is not released.                           *)
LenUnlock_Forgotten(t) ==
  /\ pc[t] = "len_unlock"
  /\ Goto(t, "idle")
  /\ ret' = [ret EXCEPT ![t] = NULL]
  /\ UNCHANGED <<queueVars, lock, heapVars, node, chain>>
-----------------------------------------------------------------------------
LockFree == lock = NULL

(* pthread_mutex_lock, then on to label l.                                 *)
Lock(t, from, l) ==
  /\ pc[t] = from
  /\ LockFree
  /\ lock' = t
  /\ Goto(t, l)
  /\ UNCHANGED <<queueVars, heapVars, node, ret, chain>>

(* The node is built before the lock is taken.                             *)
PushAlloc(t, d) ==
  /\ pc[t] = "idle"
  /\ \E n \in Node \ allocated :
       /\ allocated' = allocated \cup {n}
       /\ data' = [data EXCEPT ![n] = d]
       /\ next' = [next EXCEPT ![n] = NULL]
       /\ node' = [node EXCEPT ![t] = n]
  /\ Goto(t, "push_lock")
  /\ UNCHANGED <<queueVars, lock, ret, chain>>

PushLock(t) == Lock(t, "push_lock", "push_link")

PushLinkFirst(t) ==
  /\ pc[t] = "push_link"
  /\ head = NULL
  /\ head' = node[t]
  /\ tail' = node[t]
  /\ chain' = Append(chain, node[t])
  /\ Goto(t, "push_count")
  /\ UNCHANGED <<len, lock, heapVars, node, ret>>

PushLinkLast(t) ==
  /\ pc[t] = "push_link"
  /\ head # NULL
  /\ next' = [next EXCEPT ![tail] = node[t]]
  /\ tail' = node[t]
  /\ chain' = Append(chain, node[t])
  /\ Goto(t, "push_count")
  /\ UNCHANGED <<head, len, lock, data, allocated, node, ret>>

PushCount(t) ==
  /\ pc[t] = "push_count"
  /\ len' = len + 1
  /\ Unlock(t)
  /\ UNCHANGED <<head, tail, heapVars, chain>>

PullBegin(t) ==
  /\ pc[t] = "idle"
  /\ Goto(t, "pull_lock")
  /\ UNCHANGED <<queueVars, lock, heapVars, node, ret, chain>>

PullLock(t) == Lock(t, "pull_lock", "pull_unlink")

PullEmpty(t) ==
  /\ pc[t] = "pull_unlink"
  /\ head = NULL
  /\ ret' = [ret EXCEPT ![t] = NULL]
  /\ Goto(t, "pull_count")
  /\ UNCHANGED <<queueVars, lock, heapVars, node, chain>>

PullOnly(t) ==
  /\ pc[t] = "pull_unlink"
  /\ head # NULL /\ head = tail
  /\ ret' = [ret EXCEPT ![t] = data[head]]
  /\ Free(head)
  /\ head' = NULL
  /\ tail' = NULL
  /\ chain' = Tail(chain)
  /\ Goto(t, "pull_count")
  /\ UNCHANGED <<len, lock, node>>

PullHead(t) ==
  /\ pc[t] = "pull_unlink"
  /\ head # NULL /\ head # tail
  /\ ret' = [ret EXCEPT ![t] = data[head]]
  /\ Free(head)
  /\ head' = next[head]
  /\ chain' = Tail(chain)
  /\ Goto(t, "pull_count")
  /\ UNCHANGED <<tail, len, lock, node>>

PullCount(t) ==
  /\ pc[t] = "pull_count"
  /\ len' = IF ret[t] # NULL THEN len - 1 ELSE len
  /\ Unlock(t)
  /\ UNCHANGED <<head, tail, heapVars, chain>>

LenBegin(t) ==
  /\ pc[t] = "idle"
  /\ Goto(t, "len_lock")
  /\ UNCHANGED <<queueVars, lock, heapVars, node, ret, chain>>

LenLock(t) == Lock(t, "len_lock", "len_read")

LenRead(t) ==
  /\ pc[t] = "len_read"
  /\ ret' = [ret EXCEPT ![t] = len]
  /\ Goto(t, "len_unlock")
  /\ UNCHANGED <<queueVars, lock, heapVars, node, chain>>

LenUnlock(t) ==
  /\ pc[t] = "len_unlock"
  /\ Unlock(t)
  /\ UNCHANGED <<queueVars, heapVars, chain>>

-----------------------------------------------------------------------------
TakeLock(t) == PushLock(t) \/ PullLock(t) \/ LenLock(t)

Inside(t) ==
  \/ PushLinkFirst(t) \/ PushLinkLast(t) \/ PushCount(t)
  \/ PullEmpty(t) \/ PullOnly(t) \/ PullHead(t) \/ PullCount(t)
  \/ LenRead(t) \/ LenUnlock(t)

Begin(t) == (\E d \in Data : PushAlloc(t, d)) \/ PullBegin(t) \/ LenBegin(t)

Next == \E t \in Threads : Begin(t) \/ TakeLock(t) \/ Inside(t)

SafeSpec == Init /\ [][Next]_vars

(* A thread inside the critical section only computes, so it goes on.  The *)
(* lock is acquired under strong fairness: the owner runs a few statements *)
(* and every thread of the pipeline sleeps or blocks between two           *)
(* operations, so a waiter finds the lock free again and again.  Nothing   *)
(* obliges a thread to start an operation.                                 *)
Fairness ==
  \A t \in Threads : SF_vars(TakeLock(t)) /\ WF_vars(Inside(t))

Spec == SafeSpec /\ Fairness

-----------------------------------------------------------------------------
(* The queue as its callers see it.                                        *)
DataOf(c) == [i \in 1 .. Len(c) |-> data[c[i]]]

Entry(c, a, d, r) == [call |-> c, arg |-> a, done |-> d, ret |-> r]

CallOf(t) ==
  CASE pc[t] = "idle" -> Entry("none", NULL, FALSE, NULL)
    [] pc[t] \in {"push_lock", "push_link"} ->
         Entry("put", data[node[t]], FALSE, NULL)
    [] pc[t] = "push_count" -> Entry("put", NULL, TRUE, NULL)
    [] pc[t] \in {"pull_lock", "pull_unlink"} ->
         Entry("get", NULL, FALSE, NULL)
    [] pc[t] = "pull_count" -> Entry("get", NULL, TRUE, ret[t])
    [] pc[t] \in {"len_lock", "len_read"} ->
         Entry("len", NULL, FALSE, NULL)
    [] OTHER -> Entry("len", NULL, TRUE, ret[t])

absQueue == DataOf(chain)
absOp    == [t \in Threads |-> CallOf(t)]

F == INSTANCE Fifo WITH queue <- absQueue, op <- absOp

(* Every operation of the linked list takes effect atomically on a FIFO    *)
(* queue, and a length that is read is the queue's length at that moment.  *)
ImplementsFifo == F!SafeSpec

(* ... and every operation that is begun returns.                          *)
ImplementsFifoLive == F!Spec

(* Only the owner of the lock is between lock and unlock.                  *)
Exclusion == \A t \in Threads : pc[t] \in Holding <=> lock = t

(* The fields of the heap spell exactly `chain': it starts at head, ends   *)
(* at tail with a NULL link, and visits no node twice.                     *)
Linked ==
  /\ \A i, j \in 1 .. Len(chain) : chain[i] = chain[j] => i = j
  /\ \A i \in 1 .. Len(chain) - 1 : next[chain[i]] = chain[i + 1]
  /\ chain = <<>> => head = NULL /\ tail = NULL
  /\ chain # <<>> => /\ head = chain[1]
                     /\ tail = chain[Len(chain)]
                     /\ next[tail] = NULL

(* No pointer the code can follow leads to freed memory: nodes of the list *)
(* are allocated, and so is the node a pusher built before it got the      *)
(* lock; that node is private to it until it is linked.                    *)
OwnsNode(t) == pc[t] \in {"push_lock", "push_link"}

NoDangling ==
  /\ \A i \in 1 .. Len(chain) : chain[i] \in allocated /\ data[chain[i]] \in Data
  /\ \A t \in Threads : OwnsNode(t) =>
       /\ node[t] \in allocated
       /\ next[node[t]] = NULL
       /\ data[node[t]] \in Data
       /\ \A i \in 1 .. Len(chain) : chain[i] # node[t]
       /\ \A u \in Threads \ {t} : OwnsNode(u) => node[u] # node[t]

(* The counter lags the list only while its owner is between the link and  *)
(* the count of one operation.                                             *)
Counted ==
  LET linked   == IF lock # NULL /\ pc[lock] = "push_count" THEN 1 ELSE 0
      unlinked == IF lock # NULL /\ pc[lock] = "pull_count" /\ ret[lock] # NULL
                    THEN 1 ELSE 0
  IN  len + linked = Len(chain) + unlinked

(* The asserts of sx_queue_pull (lines 188, 198 and 199).                  *)
PullAsserts ==
  \A t \in Threads : pc[t] = "pull_unlink" =>
    /\ head = NULL => tail = NULL
    /\ head # NULL /\ head = tail => next[head] = NULL /\ next[tail] = NULL

(* No node is lost: what is allocated is in the list or in the hands of a  *)
(* pusher that has not linked it yet.                                      *)
NoLeak ==
  \A n \in allocated :
    \/ \E i \in 1 .. Len(chain) : chain[i] = n
    \/ \E t \in Threads : OwnsNode(t) /\ node[t] = n

(* The list is well formed at every step of every thread: its fields are   *)
(* changed by one thread at a time, the links spell one list from head to  *)
(* tail, the length lags it by one operation at most, nothing leaks.       *)
ListShape == TypeOK /\ Exclusion /\ Linked /\ Counted /\ NoLeak
=============================================================================
