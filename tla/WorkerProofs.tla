------------------------------ MODULE WorkerProofs ------------------------------
(***************************************************************************)
(* Proofs about WorkerLifecycle, for any set of clients and any number of  *)
(* tasks.                                                                  *)
(***************************************************************************)
EXTENDS WorkerLifecycle, TLAPS

\* The elements of a queue that grows at its end and shrinks at its head.
LEMMA QueueElements ==
  ASSUME NEW S, NEW s \in Seq(S)
  PROVE  /\ ToSet(<<>>) = {}
         /\ \A e \in S : ToSet(Append(s, e)) = ToSet(s) \cup {e} /\ Append(s, e) \in Seq(S)
         /\ s /= <<>> => Head(s) \in S /\ Tail(s) \in Seq(S)
                          /\ ToSet(s) = ToSet(Tail(s)) \cup {Head(s)}
         /\ ToSet(s) \subseteq S
<1>1. ToSet(<<>>) = {}
  BY DEF ToSet
<1>2. ASSUME NEW e \in S
      PROVE  ToSet(Append(s, e)) = ToSet(s) \cup {e} /\ Append(s, e) \in Seq(S)
  <2>1. DOMAIN Append(s, e) = DOMAIN s \cup {Len(s) + 1}
    OBVIOUS
  <2>2. \A i \in DOMAIN s : Append(s, e)[i] = s[i]
    OBVIOUS
  <2>3. Append(s, e)[Len(s) + 1] = e
    OBVIOUS
  <2>4. QED
    BY <2>1, <2>2, <2>3 DEF ToSet
<1>3. ASSUME s /= <<>>
      PROVE  /\ Head(s) \in S /\ Tail(s) \in Seq(S)
             /\ ToSet(s) = ToSet(Tail(s)) \cup {Head(s)}
  <2>1. Len(s) \in Nat \ {0} /\ DOMAIN s = 1..Len(s) /\ DOMAIN Tail(s) = 1..(Len(s) - 1)
    BY <1>3
  <2>2. \A i \in 1..(Len(s) - 1) : Tail(s)[i] = s[i + 1]
    BY <1>3
  <2>3. Head(s) = s[1] /\ Head(s) \in S /\ Tail(s) \in Seq(S)
    BY <1>3
  <2>4. \A i \in 1..Len(s) : i = 1 \/ (i - 1 \in 1..(Len(s) - 1) /\ s[i] = Tail(s)[i - 1])
    BY <2>1, <2>2
  <2>5. ASSUME NEW i \in 1..Len(s)
        PROVE  s[i] \in ToSet(Tail(s)) \cup {Head(s)}
    BY <2>1, <2>3, <2>4 DEF ToSet
  <2>6. ToSet(Tail(s)) \cup {Head(s)} \subseteq ToSet(s)
    BY <2>1, <2>2, <2>3 DEF ToSet
  <2>7. QED
    BY <2>1, <2>3, <2>5, <2>6 DEF ToSet
<1>4. ToSet(s) \subseteq S
  BY DEF ToSet
<1>5. QED
  BY <1>1, <1>2, <1>3, <1>4

LEMMA InitIInv == Init => IInv
<1> SUFFICES ASSUME Init
             PROVE  IInv
  OBVIOUS
<1> USE DEF Init
<1>1. Alive = {}
  <2>1. q \in Seq({})
    OBVIOUS
  <2>2. ToSet(q) = {}
    BY <2>1, QueueElements
  <2>3. QED
    BY <2>2 DEF Alive
<1>2. MakerTypes
  BY DEF MakerTypes
<1>3. TaskTypes
  <2>1. q \in Seq(1..MaxPushes) /\ 0 \in 0..MaxPushes
    BY MaxPushesAssumption
  <2>2. QED
    BY <2>1 DEF TaskTypes
<1>4. CountPart
  BY <1>1 DEF CountPart
<1>5. OwnPart /\ RefsPart /\ ThreadPart /\ DyingPart /\ DonePart
  BY DEF OwnPart, RefsPart, ThreadPart, DyingPart, DonePart, Making
<1>6. QED
  BY <1>2, <1>3, <1>4, <1>5 DEF IInv, TypeOK

\* What the tasks are does not change.
LEMMA AliveKept ==
  ASSUME UNCHANGED <<q, o>>
  PROVE  Alive' = Alive
BY DEF Alive

\* A thread that lets go of the worker leaves it alive if others hold it.
LEMMA LetGoStep ==
  ASSUME IInv, NEW t \in Clients \cup {Worker}, LetGo(t),
         wp' \subseteq wp, holds' = holds, Alive' \subseteq Alive
  PROVE  /\ worker' = "live" <=> wp' /= {} \/ holds' \cap Alive' /= {}
         /\ \/ UNCHANGED ending
            \/ worker = "live" /\ worker' = "dying" /\ dpc' = "stop" /\ dby' = t
<1>1. worker = "live" <=> wp /= {} \/ holds \cap Alive /= {}
  BY DEF IInv, CountPart
<1>2. QED
  BY <1>1 DEF LetGo, ending

LEMMA MakeWorkerStep ==
  ASSUME IInv, MakeWorker
  PROVE  IInv'
<1>1. Alive' = Alive
  BY AliveKept DEF MakeWorker, Creating, Free, tasks
<1>2. MakerTypes' /\ TaskTypes'
  BY ClientsAssumption, <1>1
     DEF MakeWorker, Creating, Free, tasks, IInv, TypeOK, MakerTypes, TaskTypes
<1>3. OwnPart' /\ RefsPart' /\ ThreadPart' /\ CountPart'
  BY ClientsAssumption, <1>1
     DEF MakeWorker, Creating, Free, tasks, IInv, TypeOK, OwnPart, Making,
         RefsPart, CountPart, MakerTypes, ThreadPart
<1>4. DyingPart' /\ DonePart'
  BY <1>1
     DEF MakeWorker, Creating, Free, tasks, IInv, TypeOK, DyingPart, OwnPart,
         Making, DonePart, ThreadPart, MakerTypes
<1>5. QED
  BY <1>2, <1>3, <1>4 DEF IInv, TypeOK

LEMMA MakeQueueStep ==
  ASSUME IInv, MakeQueue
  PROVE  IInv'
<1>1. Alive' = Alive
  BY AliveKept DEF MakeQueue, Creating, Free, tasks, ending
<1>2. MakerTypes'
  BY <1>1 DEF MakeQueue, Creating, Free, tasks, ending, IInv, TypeOK, MakerTypes
<1>3. TaskTypes'
  BY <1>1 DEF MakeQueue, Creating, Free, tasks, ending, IInv, TypeOK, TaskTypes
<1>4. OwnPart' /\ RefsPart' /\ ThreadPart'
  BY <1>1
     DEF MakeQueue, Creating, Free, tasks, ending, IInv, TypeOK, OwnPart,
         Making, RefsPart, CountPart, MakerTypes, ThreadPart
<1>5. CountPart'
  BY <1>1
     DEF MakeQueue, Creating, Free, tasks, ending, IInv, TypeOK, CountPart,
         OwnPart, RefsPart, ThreadPart, Making, MakerTypes
<1>6. DyingPart' /\ DonePart'
  BY <1>1
     DEF MakeQueue, Creating, Free, tasks, ending, IInv, TypeOK, DyingPart,
         OwnPart, Making, DonePart, ThreadPart, MakerTypes
<1>7. QED
  BY <1>2, <1>3, <1>4, <1>5, <1>6 DEF IInv, TypeOK

LEMMA MakeFnStep ==
  ASSUME IInv, MakeFn
  PROVE  IInv'
<1>1. Alive' = Alive
  BY AliveKept DEF MakeFn, Creating, Free, tasks, ending
<1>2. MakerTypes'
  BY <1>1 DEF MakeFn, Creating, Free, tasks, ending, IInv, TypeOK, MakerTypes
<1>3. TaskTypes'
  BY <1>1 DEF MakeFn, Creating, Free, tasks, ending, IInv, TypeOK, TaskTypes
<1>4. OwnPart' /\ RefsPart' /\ ThreadPart'
  BY <1>1
     DEF MakeFn, Creating, Free, tasks, ending, IInv, TypeOK, OwnPart, Making,
         RefsPart, CountPart, MakerTypes, ThreadPart
<1>5. CountPart'
  BY <1>1
     DEF MakeFn, Creating, Free, tasks, ending, IInv, TypeOK, CountPart,
         OwnPart, RefsPart, ThreadPart, Making, MakerTypes
<1>6. DyingPart' /\ DonePart'
  BY <1>1
     DEF MakeFn, Creating, Free, tasks, ending, IInv, TypeOK, DyingPart,
         OwnPart, Making, DonePart, ThreadPart, MakerTypes
<1>7. QED
  BY <1>2, <1>3, <1>4, <1>5, <1>6 DEF IInv, TypeOK

LEMMA MakeHolderStep ==
  ASSUME IInv, MakeHolder
  PROVE  IInv'
<1>1. Alive' = Alive
  BY AliveKept DEF MakeHolder, Creating, Free, tasks, ending
<1>2. MakerTypes'
  BY <1>1
     DEF MakeHolder, Creating, Free, tasks, ending, IInv, TypeOK, MakerTypes
<1>3. TaskTypes'
  BY <1>1 DEF MakeHolder, Creating, Free, tasks, ending, IInv, TypeOK, TaskTypes
<1>4. OwnPart' /\ RefsPart' /\ ThreadPart'
  BY <1>1
     DEF MakeHolder, Creating, Free, tasks, ending, IInv, TypeOK, OwnPart,
         Making, RefsPart, CountPart, MakerTypes, ThreadPart
<1>5. CountPart'
  BY <1>1
     DEF MakeHolder, Creating, Free, tasks, ending, IInv, TypeOK, CountPart,
         OwnPart, RefsPart, ThreadPart, Making, MakerTypes
<1>6. DyingPart' /\ DonePart'
  BY <1>1
     DEF MakeHolder, Creating, Free, tasks, ending, IInv, TypeOK, DyingPart,
         OwnPart, Making, DonePart, ThreadPart, MakerTypes
<1>7. QED
  BY <1>2, <1>3, <1>4, <1>5, <1>6 DEF IInv, TypeOK

LEMMA SpawnStep ==
  ASSUME IInv, Spawn
  PROVE  IInv'
<1>1. Alive' = Alive
  BY AliveKept DEF Spawn, Creating, Free, tasks, ending
<1>2. MakerTypes'
  BY <1>1 DEF Spawn, Creating, Free, tasks, ending, IInv, TypeOK, MakerTypes
<1>3. TaskTypes'
  BY <1>1 DEF Spawn, Creating, Free, tasks, ending, IInv, TypeOK, TaskTypes
<1>4. OwnPart' /\ RefsPart' /\ ThreadPart'
  BY <1>1
     DEF Spawn, Creating, Free, tasks, ending, IInv, TypeOK, OwnPart, Making,
         RefsPart, CountPart, MakerTypes, ThreadPart
<1>5. CountPart'
  BY <1>1
     DEF Spawn, Creating, Free, tasks, ending, IInv, TypeOK, CountPart, OwnPart,
         RefsPart, ThreadPart, Making, MakerTypes
<1>6. DyingPart' /\ DonePart'
  BY <1>1
     DEF Spawn, Creating, Free, tasks, ending, IInv, TypeOK, DyingPart, OwnPart,
         Making, DonePart, ThreadPart, MakerTypes
<1>7. QED
  BY <1>2, <1>3, <1>4, <1>5, <1>6 DEF IInv, TypeOK

LEMMA ReferenceStep ==
  ASSUME IInv, Reference
  PROVE  IInv'
<1>1. Alive' = Alive
  BY AliveKept DEF Reference, Creating, Free, tasks, ending
<1>2. MakerTypes' /\ TaskTypes'
  BY <1>1
     DEF Reference, Creating, Free, tasks, ending, IInv, TypeOK, MakerTypes,
         TaskTypes
<1>3. OwnPart' /\ RefsPart' /\ ThreadPart' /\ CountPart'
  BY <1>1
     DEF Reference, Creating, Free, tasks, ending, IInv, TypeOK, OwnPart,
         Making, RefsPart, CountPart, MakerTypes, ThreadPart
<1>4. DyingPart' /\ DonePart'
  BY <1>1
     DEF Reference, Creating, Free, tasks, ending, IInv, TypeOK, DyingPart,
         OwnPart, Making, DonePart, ThreadPart, MakerTypes
<1>5. QED
  BY <1>2, <1>3, <1>4 DEF IInv, TypeOK

LEMMA EndCtorStep ==
  ASSUME IInv, EndCtor
  PROVE  IInv'
<1>1. Alive' = Alive /\ q' = q
  <2>1. q' = q /\ o' = o
    BY DEF EndCtor, DropQueue, Creating, IInv, TypeOK, OwnPart, CountPart,
           RefsPart, TaskTypes
  <2>2. QED
    BY <2>1, AliveKept
<1>2. MakerTypes'
  BY <1>1
     DEF EndCtor, DropQueue, Creating, Free, ending, IInv, TypeOK, MakerTypes
<1>3. TaskTypes'
  BY <1>1
     DEF EndCtor, DropQueue, Creating, Free, ending, IInv, TypeOK, TaskTypes
<1>4. OwnPart' /\ RefsPart' /\ ThreadPart'
  BY <1>1
     DEF EndCtor, DropQueue, Creating, Free, ending, IInv, TypeOK, OwnPart,
         Making, RefsPart, CountPart, MakerTypes, ThreadPart
<1>5. CountPart'
  BY <1>1
     DEF EndCtor, DropQueue, Creating, Free, ending, IInv, TypeOK, CountPart,
         OwnPart, RefsPart, ThreadPart, Making, MakerTypes
<1>6. DyingPart' /\ DonePart'
  BY <1>1
     DEF EndCtor, DropQueue, Creating, Free, ending, IInv, TypeOK, DyingPart,
         OwnPart, Making, DonePart, ThreadPart, MakerTypes
<1>7. QED
  BY <1>2, <1>3, <1>4, <1>5, <1>6 DEF IInv, TypeOK

LEMMA AssignStep ==
  ASSUME IInv, Assign
  PROVE  IInv'
<1>1. Alive' = Alive
  BY AliveKept DEF Assign, Creating, Free, tasks, ending
<1>2. MakerTypes' /\ TaskTypes'
  BY <1>1
     DEF Assign, Creating, Free, tasks, ending, IInv, TypeOK, MakerTypes,
         TaskTypes
<1>3. OwnPart' /\ RefsPart' /\ ThreadPart' /\ CountPart'
  BY <1>1
     DEF Assign, Creating, Free, tasks, ending, IInv, TypeOK, OwnPart, Making,
         RefsPart, CountPart, MakerTypes, ThreadPart
<1>4. DyingPart' /\ DonePart'
  BY <1>1
     DEF Assign, Creating, Free, tasks, ending, IInv, TypeOK, DyingPart,
         OwnPart, Making, DonePart, ThreadPart, MakerTypes
<1>5. QED
  BY <1>2, <1>3, <1>4 DEF IInv, TypeOK

LEMMA CreateFailsStep ==
  ASSUME IInv, CreateFails
  PROVE  IInv'
<1>1. Alive' \subseteq Alive /\ holds' = holds /\ wp' \subseteq wp /\ q' \in Seq(1..MaxPushes)
  <2>1. q' \in {q, <<>>} /\ o' = o
    BY DEF CreateFails, DropQueue
  <2>2. q \in Seq(1..MaxPushes) /\ ToSet(<<>>) = {} /\ <<>> \in Seq(1..MaxPushes)
    BY QueueElements DEF IInv, TypeOK, TaskTypes
  <2>3. Alive' \subseteq Alive
    BY <2>1, <2>2 DEF Alive
  <2>4. QED
    BY <2>1, <2>2, <2>3 DEF CreateFails
<1>2. /\ worker' = "live" <=> wp' /= {} \/ holds' \cap Alive' /= {}
      /\ \/ UNCHANGED <<worker, dpc, dby>>
         \/ worker = "live" /\ worker' = "dying" /\ dpc' = "stop" /\ dby' = Owner
  BY <1>1, LetGoStep, ClientsAssumption DEF CreateFails, ending
<1>3. MakerTypes' /\ TaskTypes'
  BY <1>1, <1>2, ClientsAssumption
     DEF CreateFails, DropQueue, Creating, Free, making, IInv, TypeOK,
         MakerTypes, TaskTypes
<1>4. OwnPart' /\ RefsPart' /\ ThreadPart' /\ CountPart'
  BY <1>1, <1>2, ClientsAssumption
     DEF CreateFails, DropQueue, Creating, Free, making, IInv, TypeOK, OwnPart,
         Making, RefsPart, CountPart, MakerTypes, ThreadPart
<1>5. DyingPart' /\ DonePart'
  BY <1>1, <1>2, ClientsAssumption
     DEF CreateFails, DropQueue, Creating, Free, making, IInv, TypeOK,
         DyingPart, OwnPart, Making, DonePart, ThreadPart, MakerTypes
<1>6. QED
  BY <1>3, <1>4, <1>5 DEF IInv, TypeOK

\* Who can make a call of the worker finds it and its queue alive.
LEMMA CallerHolds ==
  ASSUME IInv, NEW t \in Clients \cup {Worker}, CanCall(t)
  PROVE  worker = "live" /\ "worker" \in qrefs
<1>1. wp /= {} \/ holds \cap Alive /= {}
  <2>1. o \in holds => o \in Alive
    BY DEF Alive, IInv, TypeOK, TaskTypes
  <2>2. QED
    BY <2>1 DEF CanCall
<1>2. worker = "live"
  BY <1>1 DEF IInv, CountPart
<1>3. QED
  BY <1>2 DEF CanCall, IInv, DonePart

\* One task more, with or without a pointer to the worker.
LEMMA PushStep ==
  ASSUME IInv, NEW t \in Clients \cup {Worker}, Push(t)
  PROVE  IInv'
<1>1. Alive' = Alive \cup {pushed'} /\ q' \in Seq(1..MaxPushes) /\ pushed' \in 1..MaxPushes
  <2>1. q \in Seq(1..MaxPushes) /\ pushed' \in 1..MaxPushes /\ q' = Append(q, pushed') /\ o' = o
    BY MaxPushesAssumption DEF Push, IInv, TypeOK, TaskTypes
  <2>2. \A e \in 1..MaxPushes :
          ToSet(Append(q, e)) = ToSet(q) \cup {e} /\ Append(q, e) \in Seq(1..MaxPushes)
    BY <2>1, QueueElements
  <2>3. ToSet(q') = ToSet(q) \cup {pushed'} /\ q' \in Seq(1..MaxPushes)
    BY <2>1, <2>2
  <2>4. QED
    BY <2>1, <2>3 DEF Alive
<1>2. MakerTypes' /\ TaskTypes'
  BY <1>1
     DEF Push, CanCall, Running, Free, making, tasks, ending, IInv, TypeOK,
         MakerTypes, TaskTypes
<1>3. OwnPart' /\ RefsPart' /\ ThreadPart' /\ CountPart'
  BY <1>1, CallerHolds
     DEF Push, CanCall, Running, Free, making, tasks, ending, IInv, TypeOK,
         OwnPart, Making, RefsPart, CountPart, MakerTypes, ThreadPart
<1>4. DyingPart' /\ DonePart'
  BY <1>1
     DEF Push, CanCall, Running, Free, making, tasks, ending, IInv, TypeOK,
         DyingPart, OwnPart, Making, DonePart, ThreadPart, MakerTypes
<1>5. QED
  BY <1>2, <1>3, <1>4 DEF IInv, TypeOK

LEMMA StopStep ==
  ASSUME IInv, NEW t \in Clients \cup {Worker}, Stop(t)
  PROVE  IInv'
<1>1. Alive' = Alive
  BY AliveKept DEF Stop, CanCall, Running, Free, making, tasks, ending
<1>2. MakerTypes' /\ TaskTypes'
  BY <1>1
     DEF Stop, CanCall, Running, Free, making, tasks, ending, IInv, TypeOK,
         MakerTypes, TaskTypes
<1>3. OwnPart' /\ RefsPart' /\ ThreadPart' /\ CountPart'
  BY <1>1
     DEF Stop, CanCall, Running, Free, making, tasks, ending, IInv, TypeOK,
         OwnPart, Making, RefsPart, CountPart, MakerTypes, ThreadPart
<1>4. DyingPart' /\ DonePart'
  BY <1>1
     DEF Stop, CanCall, Running, Free, making, tasks, ending, IInv, TypeOK,
         DyingPart, OwnPart, Making, DonePart, ThreadPart, MakerTypes
<1>5. QED
  BY <1>2, <1>3, <1>4 DEF IInv, TypeOK

LEMMA ClearStep ==
  ASSUME IInv, NEW t \in Clients \cup {Worker}, Clear(t)
  PROVE  IInv'
<1>1. Alive' \subseteq Alive /\ holds' = holds /\ wp' \subseteq wp /\ q' \in Seq(1..MaxPushes)
  <2>1. q' = <<>> /\ o' = o /\ ToSet(<<>>) = {} /\ q' \in Seq(1..MaxPushes)
    BY QueueElements DEF Clear, IInv, TypeOK, TaskTypes
  <2>2. QED
    BY <2>1 DEF Alive, Clear
<1>2. /\ worker' = "live" <=> wp' /= {} \/ holds' \cap Alive' /= {}
      /\ \/ UNCHANGED <<worker, dpc, dby>>
         \/ worker = "live" /\ worker' = "dying" /\ dpc' = "stop" /\ dby' = t
  BY <1>1, LetGoStep, ClientsAssumption DEF Clear, ending
<1>3. MakerTypes' /\ TaskTypes'
  BY <1>1, <1>2, ClientsAssumption
     DEF Clear, CanCall, Running, Free, making, IInv, TypeOK, MakerTypes,
         TaskTypes
<1>4. OwnPart' /\ RefsPart' /\ ThreadPart' /\ CountPart'
  BY <1>1, <1>2, ClientsAssumption
     DEF Clear, CanCall, Running, Free, making, IInv, TypeOK, OwnPart, Making,
         RefsPart, CountPart, MakerTypes, ThreadPart
<1>5. DyingPart' /\ DonePart'
  BY <1>1, <1>2, ClientsAssumption
     DEF Clear, CanCall, Running, Free, making, IInv, TypeOK, DyingPart,
         OwnPart, Making, DonePart, ThreadPart, MakerTypes
<1>6. QED
  BY <1>3, <1>4, <1>5 DEF IInv, TypeOK

LEMMA ShareStep ==
  ASSUME IInv, NEW t \in Clients \cup {Worker}, NEW c \in Clients, Share(t, c)
  PROVE  IInv'
<1>1. Alive' = Alive
  BY AliveKept DEF Share, CanCall, Running, Free, making, tasks, ending
<1>2. MakerTypes' /\ TaskTypes'
  BY <1>1
     DEF Share, CanCall, Running, Free, making, tasks, ending, IInv, TypeOK,
         MakerTypes, TaskTypes
<1>3. OwnPart' /\ RefsPart' /\ ThreadPart' /\ CountPart'
  BY <1>1, CallerHolds
     DEF Share, CanCall, Running, Free, making, tasks, ending, IInv, TypeOK,
         OwnPart, Making, RefsPart, CountPart, MakerTypes, ThreadPart
<1>4. DyingPart' /\ DonePart'
  BY <1>1
     DEF Share, CanCall, Running, Free, making, tasks, ending, IInv, TypeOK,
         DyingPart, OwnPart, Making, DonePart, ThreadPart, MakerTypes
<1>5. QED
  BY <1>2, <1>3, <1>4 DEF IInv, TypeOK

LEMMA DropStep ==
  ASSUME IInv, NEW t \in Clients \cup {Worker}, Drop(t)
  PROVE  IInv'
<1>1. Alive' \subseteq Alive /\ holds' = holds /\ wp' \subseteq wp /\ q' \in Seq(1..MaxPushes)
  BY AliveKept DEF Drop, tasks, IInv, TypeOK, TaskTypes
<1>2. /\ worker' = "live" <=> wp' /= {} \/ holds' \cap Alive' /= {}
      /\ \/ UNCHANGED <<worker, dpc, dby>>
         \/ worker = "live" /\ worker' = "dying" /\ dpc' = "stop" /\ dby' = t
  BY <1>1, LetGoStep, ClientsAssumption DEF Drop, ending
<1>3. MakerTypes' /\ TaskTypes'
  BY <1>1, <1>2, ClientsAssumption
     DEF Drop, CanCall, Running, Free, making, tasks, IInv, TypeOK, MakerTypes,
         TaskTypes
<1>4. OwnPart' /\ RefsPart' /\ ThreadPart' /\ CountPart'
  BY <1>1, <1>2, ClientsAssumption
     DEF Drop, CanCall, Running, Free, making, tasks, IInv, TypeOK, OwnPart,
         Making, RefsPart, CountPart, MakerTypes, ThreadPart
<1>5. DyingPart' /\ DonePart'
  BY <1>1, <1>2, ClientsAssumption
     DEF Drop, CanCall, Running, Free, making, tasks, IInv, TypeOK, DyingPart,
         OwnPart, Making, DonePart, ThreadPart, MakerTypes
<1>6. QED
  BY <1>3, <1>4, <1>5 DEF IInv, TypeOK

LEMMA DetachStep ==
  ASSUME IInv, Detach
  PROVE  IInv'
<1>1. Alive' = Alive
  BY AliveKept DEF Detach, CanCall, Running, Free, making, tasks, ending
<1>2. MakerTypes' /\ TaskTypes'
  BY <1>1
     DEF Detach, CanCall, Running, Free, making, tasks, ending, IInv, TypeOK,
         MakerTypes, TaskTypes
<1>3. OwnPart' /\ RefsPart' /\ ThreadPart' /\ CountPart'
  BY <1>1
     DEF Detach, CanCall, Running, Free, making, tasks, ending, IInv, TypeOK,
         OwnPart, Making, RefsPart, CountPart, MakerTypes, ThreadPart
<1>4. DyingPart' /\ DonePart'
  BY <1>1
     DEF Detach, CanCall, Running, Free, making, tasks, ending, IInv, TypeOK,
         DyingPart, OwnPart, Making, DonePart, ThreadPart, MakerTypes
<1>5. QED
  BY <1>2, <1>3, <1>4 DEF IInv, TypeOK

LEMMA JoinStep ==
  ASSUME IInv, Join
  PROVE  IInv'
<1>1. Alive' = Alive
  BY AliveKept DEF Join, tasks, ending
<1>2. MakerTypes'
  BY <1>1 DEF Join, tasks, ending, IInv, TypeOK, MakerTypes
<1>3. TaskTypes'
  BY <1>1 DEF Join, tasks, ending, IInv, TypeOK, TaskTypes
<1>4. OwnPart' /\ RefsPart' /\ ThreadPart'
  BY <1>1
     DEF Join, tasks, ending, IInv, TypeOK, OwnPart, Making, DyingPart,
         RefsPart, DonePart, CountPart, MakerTypes, ThreadPart
<1>5. CountPart'
  BY <1>1
     DEF Join, tasks, ending, IInv, TypeOK, CountPart, OwnPart, RefsPart,
         ThreadPart, Making, MakerTypes, DyingPart, DonePart
<1>6. DyingPart' /\ DonePart'
  BY <1>1
     DEF Join, tasks, ending, IInv, TypeOK, DyingPart, OwnPart, Making,
         RefsPart, DonePart, ThreadPart, MakerTypes
<1>7. QED
  BY <1>2, <1>3, <1>4, <1>5, <1>6 DEF IInv, TypeOK

LEMMA DestroyStopStep ==
  ASSUME IInv, DestroyStop
  PROVE  IInv'
<1>1. Alive' = Alive
  BY AliveKept DEF DestroyStop, making, tasks
<1>2. MakerTypes'
  BY <1>1 DEF DestroyStop, making, tasks, IInv, TypeOK, MakerTypes
<1>3. TaskTypes'
  BY <1>1 DEF DestroyStop, making, tasks, IInv, TypeOK, TaskTypes
<1>4. OwnPart' /\ RefsPart' /\ ThreadPart'
  BY <1>1
     DEF DestroyStop, making, tasks, IInv, TypeOK, OwnPart, Making, DyingPart,
         RefsPart, DonePart, CountPart, MakerTypes, ThreadPart
<1>5. CountPart'
  BY <1>1
     DEF DestroyStop, making, tasks, IInv, TypeOK, CountPart, OwnPart, RefsPart,
         ThreadPart, Making, MakerTypes, DyingPart, DonePart
<1>6. DyingPart' /\ DonePart'
  BY <1>1
     DEF DestroyStop, making, tasks, IInv, TypeOK, DyingPart, OwnPart, Making,
         RefsPart, DonePart, ThreadPart, MakerTypes
<1>7. QED
  BY <1>2, <1>3, <1>4, <1>5, <1>6 DEF IInv, TypeOK

LEMMA DestroyThreadStep ==
  ASSUME IInv, DestroyThread
  PROVE  IInv'
<1>1. Alive' = Alive
  BY AliveKept DEF DestroyThread, tasks
<1>2. MakerTypes' /\ TaskTypes'
  BY <1>1 DEF DestroyThread, tasks, IInv, TypeOK, MakerTypes, TaskTypes
<1>3. OwnPart' /\ RefsPart' /\ ThreadPart' /\ CountPart'
  BY <1>1
     DEF DestroyThread, tasks, IInv, TypeOK, OwnPart, Making, DyingPart,
         RefsPart, DonePart, CountPart, MakerTypes, ThreadPart
<1>4. DyingPart' /\ DonePart'
  BY <1>1
     DEF DestroyThread, tasks, IInv, TypeOK, DyingPart, OwnPart, Making,
         RefsPart, DonePart, ThreadPart, MakerTypes
<1>5. QED
  BY <1>2, <1>3, <1>4 DEF IInv, TypeOK

LEMMA DestroyQueueStep ==
  ASSUME IInv, DestroyQueue
  PROVE  IInv'
<1>1. Alive' \subseteq Alive /\ q' \in Seq(1..MaxPushes)
  <2>1. q' \in {q, <<>>} /\ o' = o
    BY DEF DestroyQueue, DropQueue
  <2>2. q \in Seq(1..MaxPushes) /\ ToSet(<<>>) = {} /\ <<>> \in Seq(1..MaxPushes)
    BY QueueElements DEF IInv, TypeOK, TaskTypes
  <2>3. QED
    BY <2>1, <2>2 DEF Alive
<1>2. MakerTypes' /\ TaskTypes'
  BY ClientsAssumption, <1>1
     DEF DestroyQueue, DropQueue, making, IInv, TypeOK, MakerTypes, TaskTypes
<1>3. OwnPart' /\ RefsPart' /\ ThreadPart' /\ CountPart'
  BY <1>1
     DEF DestroyQueue, DropQueue, making, IInv, TypeOK, OwnPart, Making,
         DyingPart, RefsPart, DonePart, CountPart, MakerTypes, ThreadPart
<1>4. DyingPart' /\ DonePart'
  BY <1>1
     DEF DestroyQueue, DropQueue, making, IInv, TypeOK, DyingPart, OwnPart,
         Making, RefsPart, DonePart, ThreadPart, MakerTypes
<1>5. QED
  BY <1>2, <1>3, <1>4 DEF IInv, TypeOK

LEMMA DequePopStep ==
  ASSUME IInv, DequePop
  PROVE  IInv'
<1>1. Alive' \subseteq Alive /\ holds' = holds /\ wp' \subseteq wp /\ q' \in Seq(1..MaxPushes) /\ o' \in 1..MaxPushes
  <2>1. q \in Seq(1..MaxPushes) /\ q /= <<>> /\ o' = Head(q) /\ q' = Tail(q)
    BY DEF DequePop, IInv, TypeOK, TaskTypes
  <2>2. ToSet(q) = ToSet(q') \cup {o'} /\ q' \in Seq(1..MaxPushes)
    BY <2>1, QueueElements
  <2>3. Head(q) \in 1..MaxPushes
    BY <2>1, QueueElements
  <2>4. QED
    BY <2>1, <2>2, <2>3 DEF Alive, DequePop
<1>2. /\ worker' = "live" <=> wp' /= {} \/ holds' \cap Alive' /= {}
      /\ \/ UNCHANGED <<worker, dpc, dby>>
         \/ worker = "live" /\ worker' = "dying" /\ dpc' = "stop" /\ dby' = Worker
  BY <1>1, LetGoStep, ClientsAssumption DEF DequePop, ending
<1>3. MakerTypes' /\ TaskTypes'
  BY <1>1, <1>2, ClientsAssumption
     DEF DequePop, At, Free, making, IInv, TypeOK, MakerTypes, TaskTypes
<1>4. OwnPart' /\ RefsPart' /\ ThreadPart' /\ CountPart'
  BY <1>1, <1>2, ClientsAssumption
     DEF DequePop, At, Free, making, IInv, TypeOK, OwnPart, Making, RefsPart,
         CountPart, MakerTypes, ThreadPart
<1>5. DyingPart' /\ DonePart'
  BY <1>1, <1>2, ClientsAssumption
     DEF DequePop, At, Free, making, IInv, TypeOK, DyingPart, OwnPart, Making,
         DonePart, ThreadPart, MakerTypes
<1>6. QED
  BY <1>3, <1>4, <1>5 DEF IInv, TypeOK

LEMMA DequeEmptyStep ==
  ASSUME IInv, DequeEmpty
  PROVE  IInv'
<1>1. Alive' = Alive
  BY AliveKept DEF DequeEmpty, At, Free, making, tasks, ending
<1>2. MakerTypes' /\ TaskTypes'
  BY <1>1
     DEF DequeEmpty, At, Free, making, tasks, ending, IInv, TypeOK, MakerTypes,
         TaskTypes
<1>3. OwnPart' /\ RefsPart' /\ ThreadPart' /\ CountPart'
  BY <1>1
     DEF DequeEmpty, At, Free, making, tasks, ending, IInv, TypeOK, OwnPart,
         Making, RefsPart, CountPart, MakerTypes, ThreadPart
<1>4. DyingPart' /\ DonePart'
  BY <1>1
     DEF DequeEmpty, At, Free, making, tasks, ending, IInv, TypeOK, DyingPart,
         OwnPart, Making, DonePart, ThreadPart, MakerTypes
<1>5. QED
  BY <1>2, <1>3, <1>4 DEF IInv, TypeOK

LEMMA WakeStep ==
  ASSUME IInv, Wake
  PROVE  IInv'
<1>1. Alive' = Alive
  BY AliveKept DEF Wake, At, Free, making, tasks, ending
<1>2. MakerTypes' /\ TaskTypes'
  BY <1>1
     DEF Wake, At, Free, making, tasks, ending, IInv, TypeOK, MakerTypes,
         TaskTypes
<1>3. OwnPart' /\ RefsPart' /\ ThreadPart' /\ CountPart'
  BY <1>1
     DEF Wake, At, Free, making, tasks, ending, IInv, TypeOK, OwnPart, Making,
         RefsPart, CountPart, MakerTypes, ThreadPart
<1>4. DyingPart' /\ DonePart'
  BY <1>1
     DEF Wake, At, Free, making, tasks, ending, IInv, TypeOK, DyingPart,
         OwnPart, Making, DonePart, ThreadPart, MakerTypes
<1>5. QED
  BY <1>2, <1>3, <1>4 DEF IInv, TypeOK

LEMMA LeaveStep ==
  ASSUME IInv, Leave
  PROVE  IInv'
<1>1. Alive' \subseteq Alive /\ holds' = holds /\ wp' \subseteq wp /\ q' \in Seq(1..MaxPushes)
  BY DEF Leave, Alive, IInv, TypeOK, TaskTypes
<1>2. /\ worker' = "live" <=> wp' /= {} \/ holds' \cap Alive' /= {}
      /\ \/ UNCHANGED <<worker, dpc, dby>>
         \/ worker = "live" /\ worker' = "dying" /\ dpc' = "stop" /\ dby' = Worker
  BY <1>1, LetGoStep, ClientsAssumption DEF Leave, ending
<1>3. MakerTypes' /\ TaskTypes'
  BY <1>1, <1>2, ClientsAssumption, MaxPushesAssumption
     DEF Leave, At, Free, making, IInv, TypeOK, MakerTypes, TaskTypes
<1>4. OwnPart' /\ RefsPart' /\ ThreadPart' /\ CountPart'
  BY <1>1, <1>2, ClientsAssumption, MaxPushesAssumption
     DEF Leave, At, Free, making, IInv, TypeOK, OwnPart, Making, RefsPart,
         CountPart, MakerTypes, ThreadPart
<1>5. DyingPart' /\ DonePart'
  BY <1>1, <1>2, ClientsAssumption, MaxPushesAssumption
     DEF Leave, At, Free, making, IInv, TypeOK, DyingPart, OwnPart, Making,
         DonePart, ThreadPart, MakerTypes
<1>6. QED
  BY <1>3, <1>4, <1>5 DEF IInv, TypeOK

LEMMA ReleaseStep ==
  ASSUME IInv, Release
  PROVE  IInv'
<1>1. Alive' \subseteq Alive /\ q' \in Seq(1..MaxPushes) /\ (Alive' = Alive \/ worker /= "live")
  <2>1. q' \in {q, <<>>} /\ o' = o /\ (q' = q \/ qrefs' = {})
    BY DEF Release, DropQueue
  <2>2. q \in Seq(1..MaxPushes) /\ ToSet(<<>>) = {} /\ <<>> \in Seq(1..MaxPushes)
    BY QueueElements DEF IInv, TypeOK, TaskTypes
  <2>3. worker = "live" => "worker" \in qrefs
    <3>1. wpc = "release"
      BY DEF Release, At
    <3>2. cpc = "done" \/ worker /= "live"
      BY <3>1 DEF IInv, TypeOK, MakerTypes, OwnPart, Making
    <3>3. QED
      BY <3>2 DEF IInv, DonePart
  <2>4. worker = "live" => qrefs' /= {}
    BY <2>3 DEF Release, DropQueue
  <2>5. ToSet(q') \subseteq ToSet(q)
    BY <2>1, <2>2
  <2>6. Alive' \subseteq Alive
    BY <2>1, <2>5 DEF Alive
  <2>7. q' \in Seq(1..MaxPushes)
    BY <2>1, <2>2
  <2>8. Alive' = Alive \/ worker /= "live"
    BY <2>1, <2>4 DEF Alive
  <2>9. QED
    BY <2>6, <2>7, <2>8
<1>2. MakerTypes'
  BY ClientsAssumption
     DEF Release, DropQueue, At, Free, ending, IInv, TypeOK, MakerTypes
<1>3. TaskTypes'
  BY <1>1 DEF Release, DropQueue, At, Free, ending, IInv, TypeOK, TaskTypes
<1>4. OwnPart' /\ RefsPart' /\ ThreadPart'
  BY <1>1
     DEF Release, DropQueue, At, Free, ending, IInv, TypeOK, OwnPart, Making,
         DyingPart, RefsPart, DonePart, CountPart, MakerTypes, ThreadPart
<1>5. CountPart'
  <2>1. worker' = "live" <=> wp' /= {} \/ holds' \cap Alive' /= {}
    BY <1>1 DEF Release, ending, IInv, CountPart
  <2>2. joining' => Owner \in wp'
    BY DEF Release, IInv, CountPart
  <2>3. "fn" \in qrefs' <=> fnrefs' /= {}
    BY DEF Release, DropQueue, IInv, CountPart
  <2>4. ~ (wpc' \in {"deque", "wait", "run", "leave", "release"}) /\ "holder" \notin fnrefs'
    BY DEF Release
  <2>5. qrefs' = {} => q' = <<>>
    BY DEF Release, DropQueue
  <2>6. o' = 0
    BY DEF Release, At, IInv, CountPart
  <2>7. QED
    BY <2>1, <2>2, <2>3, <2>4, <2>5, <2>6 DEF CountPart
<1>6. DyingPart' /\ DonePart'
  BY <1>1
     DEF Release, DropQueue, At, Free, ending, IInv, TypeOK, DyingPart, OwnPart,
         Making, RefsPart, DonePart, ThreadPart, MakerTypes
<1>7. QED
  BY <1>2, <1>3, <1>4, <1>5, <1>6 DEF IInv, TypeOK

LEMMA TaskReturnsStep ==
  ASSUME IInv, TaskReturns
  PROVE  IInv'
<1>1. Alive' = Alive
  BY AliveKept DEF TaskReturns, At, Free, making, tasks, ending
<1>2. MakerTypes' /\ TaskTypes'
  BY <1>1
     DEF TaskReturns, At, Free, making, tasks, ending, IInv, TypeOK, MakerTypes,
         TaskTypes
<1>3. OwnPart' /\ RefsPart' /\ ThreadPart' /\ CountPart'
  BY <1>1
     DEF TaskReturns, At, Free, making, tasks, ending, IInv, TypeOK, OwnPart,
         Making, RefsPart, CountPart, MakerTypes, ThreadPart
<1>4. DyingPart' /\ DonePart'
  BY <1>1
     DEF TaskReturns, At, Free, making, tasks, ending, IInv, TypeOK, DyingPart,
         OwnPart, Making, DonePart, ThreadPart, MakerTypes
<1>5. QED
  BY <1>2, <1>3, <1>4 DEF IInv, TypeOK

LEMMA StutterStep ==
  ASSUME IInv, UNCHANGED vars
  PROVE  IInv'
<1>1. Alive' = Alive
  BY AliveKept DEF vars
<1>2. TypeOK'
  BY DEF vars, IInv, TypeOK, MakerTypes, TaskTypes
<1>3. OwnPart' /\ RefsPart' /\ ThreadPart'
  BY DEF vars, IInv, OwnPart, RefsPart, ThreadPart
<1>4. CountPart'
  BY <1>1 DEF vars, IInv, CountPart
<1>5. DyingPart' /\ DonePart'
  BY DEF vars, IInv, DyingPart, DonePart
<1>6. QED
  BY <1>2, <1>3, <1>4, <1>5 DEF IInv

LEMMA StepIInv == IInv /\ [Next]_vars => IInv'
<1> SUFFICES ASSUME IInv, [Next]_vars
             PROVE  IInv'
  OBVIOUS
<1>1. CASE Create
  BY <1>1, MakeWorkerStep, MakeQueueStep, MakeFnStep, MakeHolderStep, SpawnStep,
     ReferenceStep, EndCtorStep, AssignStep, CreateFailsStep DEF Create
<1>2. CASE Calling
  <2>1. ASSUME NEW t \in Clients \cup {Worker}, Push(t) \/ Stop(t) \/ Clear(t)
        PROVE  IInv'
    BY <2>1, PushStep, StopStep, ClearStep
  <2>2. ASSUME NEW t \in Clients \cup {Worker}, NEW c \in Clients, Share(t, c)
        PROVE  IInv'
    BY <2>2, ShareStep
  <2>3. ASSUME NEW t \in Clients, Drop(t)
        PROVE  IInv'
    BY <2>3, DropStep
  <2>4. QED
    BY <1>2, <2>1, <2>2, <2>3, DetachStep DEF Calling
<1>3. CASE Join
  BY <1>3, JoinStep
<1>4. CASE Destroying
  BY <1>4, DestroyStopStep, DestroyThreadStep, DestroyQueueStep DEF Destroying
<1>5. CASE Working
  BY <1>5, DequePopStep, DequeEmptyStep, WakeStep, LeaveStep, ReleaseStep
     DEF Working
<1>6. CASE TaskReturns
  BY <1>6, TaskReturnsStep
<1>7. CASE UNCHANGED vars
  BY <1>7, StutterStep
<1>8. QED
  BY <1>1, <1>2, <1>3, <1>4, <1>5, <1>6, <1>7 DEF Next

\* Every reachable state of create(), the calls, the destructor and the thread,
\* in whatever order they come (work_queue.hpp, thread.hpp), satisfies IInv.
THEOREM Inductive == Spec => []IInv
<1>1. QED
  BY InitIInv, StepIInv, PTL DEF Spec

\* Whenever the worker is destroyed, the queue and the lambda outlive their use
\* by the thread ("no detach", work_queue.hpp:249), and by any caller.
THEOREM QueueOutlives == Spec => []QueueInUse
<1>1. IInv => QueueInUse
  <2> SUFFICES ASSUME IInv
               PROVE  QueueInUse
    OBVIOUS
  <2>1. ASSUME wpc \in {"deque", "wait", "run", "leave"}
        PROVE  fnrefs /= {} /\ qrefs /= {}
    BY <2>1 DEF IInv, CountPart
  <2>2. \A t \in Clients \cup {Worker} : CanCall(t) => "worker" \in qrefs
    BY CallerHolds
  <2>3. QED
    BY <2>1, <2>2 DEF QueueInUse
<1>2. QED
  BY <1>1, Inductive, PTL

\* A task that has captured a pointer to the worker runs with a worker that is
\* alive, even if its pointer is the last (deque's `o`, work_queue.hpp:223).
THEOREM TaskKeeps == Spec => []TaskKeepsWorker
<1>1. IInv => TaskKeepsWorker
  BY DEF IInv, TypeOK, TaskTypes, CountPart, TaskKeepsWorker, Alive
<1>2. QED
  BY <1>1, Inductive, PTL

\* With the worker freed and its thread ended, nothing of them is left: the
\* holder's release (thread.hpp:78) and ~simple_worker leak nothing.
THEOREM NothingStays == Spec => []NothingLeft
<1>1. IInv => NothingLeft
  <2> SUFFICES ASSUME IInv, worker = "freed", wpc = "terminated"
               PROVE  Alive = {} /\ qrefs = {} /\ fnrefs = {} /\ krefs = {}
    BY DEF NothingLeft
  <2>1. cpc = "done" /\ krefs = {} /\ "worker" \notin qrefs
    BY DEF IInv, DyingPart, DonePart
  <2>2. fnrefs = {}
    BY <2>1 DEF IInv, TypeOK, MakerTypes, RefsPart, CountPart
  <2>3. qrefs = {}
    BY <2>1, <2>2 DEF IInv, TypeOK, MakerTypes, RefsPart, CountPart
  <2>4. Alive = {}
    <3>1. q = <<>> /\ o = 0
      BY <2>3 DEF IInv, CountPart
    <3>2. q \in Seq({})
      BY <3>1
    <3>3. ToSet(q) = {}
      BY <3>2, QueueElements
    <3>4. QED
      BY <3>1, <3>3 DEF Alive
  <2>5. QED
    BY <2>1, <2>2, <2>3, <2>4
<1>2. QED
  BY <1>1, Inductive, PTL

\* A worker that nobody has a pointer to and whose thread goes on was told to
\* stop, or a task holds it (~simple_worker's stop, work_queue.hpp:247).
THEOREM Runaway == Spec => []RunawayOnlyByCapture
<1>1. IInv => RunawayOnlyByCapture
  BY DEF IInv, DonePart, CountPart, DyingPart, RunawayOnlyByCapture
<1>2. QED
  BY <1>1, Inductive, PTL
================================================================================
