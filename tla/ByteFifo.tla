-------------------------------- MODULE ByteFifo --------------------------------
(***************************************************************************)
(* What skl's kfifo promises to one reader and one writer: a bounded       *)
(* sequence of bytes.  A put appends some of its bytes, a get takes bytes  *)
(* from the front and hands them over unchanged, each in one step.         *)
(***************************************************************************)
EXTENDS Naturals, Sequences

VARIABLES
  contents,   \* the bytes in the FIFO, oldest first
  capacity,   \* how many it can hold; 0 until it is allocated
  delivered   \* the bytes the last get handed over

vars == <<contents, capacity, delivered>>

Init == contents = <<>> /\ capacity = 0 /\ delivered = <<>>

Allocate ==
  /\ capacity = 0
  /\ capacity' \in Nat
  /\ UNCHANGED <<contents, delivered>>

Put ==
  /\ Len(contents') \in Len(contents)..capacity
  /\ SubSeq(contents', 1, Len(contents)) = contents
  /\ UNCHANGED <<capacity, delivered>>

Get ==
  /\ \E k \in 0..Len(contents) :
       /\ delivered' = SubSeq(contents, 1, k)
       /\ contents' = SubSeq(contents, k + 1, Len(contents))
  /\ UNCHANGED capacity

Reset == contents' = <<>> /\ UNCHANGED <<capacity, delivered>>

Next == Allocate \/ Put \/ Get \/ Reset

Spec == Init /\ [][Next]_vars
================================================================================
