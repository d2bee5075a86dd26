------------------------------- MODULE TaskQueue -------------------------------
(***************************************************************************)
(* What skl's WorkQueue and its worker thread promise to the threads that  *)
(* push work, without locks, events or program counters.  A task is known  *)
(* by the position at which the queue accepted it; fate[n] says what has   *)
(* become of the n-th accepted task.                                       *)
(*   "waiting"  it is in the queue                                         *)
(*   "taken"    the worker has taken it out to run it, or has run it       *)
(*   "dropped"  a clear() or an emptyEnque() removed it                    *)
(* A task is taken once at most, in the order of acceptance, and none is   *)
(* taken after detach() has returned.                                      *)
(***************************************************************************)
EXTENDS Naturals, Sequences

VARIABLES
  fate,     \* sequence over {"waiting", "taken", "dropped"}
  closed    \* detach() has returned to its caller

vars == <<fate, closed>>

Waiting == {n \in DOMAIN fate : fate[n] = "waiting"}

Init == fate = <<>> /\ closed = FALSE

Accept ==
  /\ fate' = Append(fate, "waiting")
  /\ UNCHANGED closed

\* Only the oldest waiting task can be taken.
Take ==
  /\ ~closed
  /\ \E n \in Waiting :
       /\ \A m \in Waiting : n <= m
       /\ fate' = [fate EXCEPT ![n] = "taken"]
  /\ UNCHANGED closed

\* clear() and emptyEnque() drop everything that waits, never a part of it.
Drop ==
  /\ fate' = [n \in DOMAIN fate |->
                IF n \in Waiting THEN "dropped" ELSE fate[n]]
  /\ UNCHANGED closed

Close == closed' = TRUE /\ UNCHANGED fate

Next == Accept \/ Take \/ Drop \/ Close

Spec == Init /\ [][Next]_vars
================================================================================
