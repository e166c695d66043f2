-------------------------------- MODULE Fifo --------------------------------
(***************************************************************************)
(* What sx_queue promises to its callers, and what every pipe of the       *)
(* pipeline relies on: a queue whose operations take effect one at a time, *)
(* at some moment between their call and their return.  A thread that      *)
(* calls get on an empty queue is answered NULL at once; nothing blocks    *)
(* and the queue has no bound.                                             *)
(***************************************************************************)
EXTENDS Sequences, Naturals

CONSTANTS Threads, Data, NULL

VARIABLES
  queue,  \* the data in the queue, oldest first
  op      \* op[t]: the call thread t is in, whether it took effect, its answer

vars == <<queue, op>>

Entry(c, a, d, r) == [call |-> c, arg |-> a, done |-> d, ret |-> r]

NoCall == Entry("none", NULL, FALSE, NULL)

Calls ==
  [call : {"none", "put", "get", "len"}, arg : Data \cup {NULL},
   done : BOOLEAN, ret : Data \cup Nat \cup {NULL}]

TypeOK ==
  /\ queue \in Seq(Data)
  /\ op \in [Threads -> Calls]

Init ==
  /\ queue = <<>>
  /\ op = [t \in Threads |-> NoCall]

Call(t, c, a) ==
  /\ op[t] = NoCall
  /\ op' = [op EXCEPT ![t] = Entry(c, a, FALSE, NULL)]
  /\ UNCHANGED queue

Pending(t, c) == op[t].call = c /\ ~ op[t].done

Answer(t, r) == op' = [op EXCEPT ![t] = Entry(op[t].call, NULL, TRUE, r)]

Put(t) ==
  /\ Pending(t, "put")
  /\ queue' = Append(queue, op[t].arg)
  /\ Answer(t, NULL)

Get(t) ==
  /\ Pending(t, "get")
  /\ queue # <<>>
  /\ queue' = Tail(queue)
  /\ Answer(t, Head(queue))

GetEmpty(t) ==
  /\ Pending(t, "get")
  /\ queue = <<>>
  /\ UNCHANGED queue
  /\ Answer(t, NULL)

LenGet(t) ==
  /\ Pending(t, "len")
  /\ UNCHANGED queue
  /\ Answer(t, Len(queue))

Return(t) ==
  /\ op[t].done
  /\ op' = [op EXCEPT ![t] = NoCall]
  /\ UNCHANGED queue

Effect(t) == Put(t) \/ Get(t) \/ GetEmpty(t) \/ LenGet(t)

Next ==
  \E t \in Threads :
    \/ \E d \in Data : Call(t, "put", d)
    \/ Call(t, "get", NULL)
    \/ Call(t, "len", NULL)
    \/ Effect(t)
    \/ Return(t)

(* Safety part: the queue is linearizable.                                 *)
SafeSpec == Init /\ [][Next]_vars

(* Every call returns.                                                     *)
Spec == SafeSpec /\ \A t \in Threads : WF_vars(Effect(t)) /\ WF_vars(Return(t))
=============================================================================
