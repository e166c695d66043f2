------------------------------- MODULE Router -------------------------------
(***************************************************************************)
(* What receiving and demultiplexing promise to the decoders and to the    *)
(* video clock, with no threads and no pipes between: three lines, on each *)
(* of which the things that arrive for it wait and are delivered, all of   *)
(* them and in the order of their arrival.                                 *)
(*                                                                         *)
(* A packet belongs to the line of its first video or audio cell; its      *)
(* first clock reference, if it has one, gives the time in milliseconds    *)
(* to the line of references, where the time 0 counts as no reference.     *)
(***************************************************************************)
EXTENDS Naturals, Sequences, SequencesExt

CONSTANT Packets   \* records with cells, their kinds, and ticks, when sent

VARIABLES
  arrived,    \* the packets that arrived, in this order
  delivered   \* delivered[r]: all that was delivered on line r

vars == <<arrived, delivered>>

Lines == {"video", "audio", "reference"}

TicksPerMs == 27000

(* The position of the first cell of p whose kind is in K.                 *)
FirstIs(p, i, K) ==
  /\ p.cells[i] \in K
  /\ \A j \in 1 .. i - 1 : p.cells[j] \notin K

(* The i-th cell of a packet leaves the source i - 1 ms after the packet.  *)
CellMs(p, i) == p.ticks \div TicksPerMs + (i - 1)

(* What packet p brings to line r: a sequence of at most one item.         *)
Owed(r, p) ==
  IF r = "reference"
  THEN IF \E i \in DOMAIN p.cells : FirstIs(p, i, {"pcr"}) /\ CellMs(p, i) > 0
       THEN LET i == CHOOSE i \in DOMAIN p.cells : FirstIs(p, i, {"pcr"})
            IN  <<CellMs(p, i)>>
       ELSE <<>>
  ELSE IF \E i \in DOMAIN p.cells :
            FirstIs(p, i, {"video", "audio"}) /\ p.cells[i] = r
       THEN <<p>>
       ELSE <<>>

(* All that belongs on line r, in order.                                   *)
Due(r) == FlattenSeq([i \in DOMAIN arrived |-> Owed(r, arrived[i])])

Init ==
  /\ arrived = <<>>
  /\ delivered = [r \in Lines |-> <<>>]

Arrive ==
  /\ \E p \in Packets : arrived' = Append(arrived, p)
  /\ UNCHANGED delivered

Deliver(r) ==
  /\ Len(delivered[r]) < Len(Due(r))
  /\ delivered' = [delivered EXCEPT ![r] = Append(@, Due(r)[Len(@) + 1])]
  /\ UNCHANGED arrived

Next == Arrive \/ \E r \in Lines : Deliver(r)

SafeSpec == Init /\ [][Next]_vars

(* Nothing waits for ever on any line.                                     *)
Spec == SafeSpec /\ \A r \in Lines : WF_vars(Deliver(r))
=============================================================================
