---------------------------- MODULE ServiceAppProofs ----------------------------
(***************************************************************************)
(* Proofs about ServiceApp, for any number of consoles, messages, thread   *)
(* ids and stop controls.                                                  *)
(***************************************************************************)
EXTENDS ServiceApp, FiniteSetTheorems, TLAPS

\* Every step is one of the named actions or changes nothing.
LEMMA StepCases ==
  ASSUME [Next]_vars
  PROVE  \/ \E c \in Consoles :
              StartFails(c) \/ StartWorker(c) \/ PostMessageBySrv(c) \/ ConsoleEnds(c)
         \/ \E m \in Msgs : PosterUnregistered(m) \/ ReadTid(m) \/ Post(m) \/ PosterStops(m)
         \/ \E t \in Tids :
              WorkerUnregistered(t) \/ Running(t) \/ Publish(t) \/ Listen(t) \/ GetMessage(t)
                \/ Stop(t) \/ ProcessEnds(t)
         \/ UNCHANGED vars
BY DEF Next

LEMMA MsgsAreNumbers ==
  /\ MaxMsgs * Cardinality(Consoles) \in Nat
  /\ Msgs \subseteq Nat \ {0}
<1>1. Cardinality(Consoles) \in Nat
  BY ServiceAppAssumption, FS_CardinalityType
<1>2. QED
  BY <1>1, ServiceAppAssumption DEF Msgs

\* The head and the tail of a queue, and a queue with one message more.
LEMMA QueueFacts ==
  ASSUME NEW s \in Seq(Msgs)
  PROVE  /\ DOMAIN s = 1..Len(s) /\ Len(s) \in Nat
         /\ \A m \in Msgs :
              /\ Append(s, m) \in Seq(Msgs) /\ DOMAIN Append(s, m) = 1..(Len(s) + 1)
              /\ \A i \in 1..Len(s) : Append(s, m)[i] = s[i]
              /\ Append(s, m)[Len(s) + 1] = m
         /\ s # <<>> =>
              /\ Head(s) \in Msgs /\ Tail(s) \in Seq(Msgs)
              /\ Head(s) = s[1] /\ 1 \in DOMAIN s
              /\ DOMAIN Tail(s) = 1..(Len(s) - 1)
              /\ \A i \in 1..(Len(s) - 1) : i + 1 \in DOMAIN s /\ Tail(s)[i] = s[i + 1]
OBVIOUS

--------------------------------------------------------------------------------
(* Types.                                                                  *)

LEMMA UnloadType ==
  ASSUME TypeOK, NEW cs, NEW ms, NEW ts, Unload(cs, ms, ts)
  PROVE  gTID' \in Tids \cup {NULL}
BY DEF TypeOK, Unload

LEMMA TypeInit == Init => TypeOK
<1> SUFFICES ASSUME Init PROVE TypeOK
  OBVIOUS
<1>1. <<>> \in Seq(Msgs) /\ <<>> \in Seq(Tids \X Msgs)
  OBVIOUS
<1>2. /\ poster \in [Msgs -> {"none", "started", "unregistered", "posting", "posted", "done"}]
      /\ saw \in [Msgs -> Tids \cup {NULL}]
      /\ queue \in [Tids -> Seq(Msgs)]
  BY <1>1 DEF Init
<1>3. QED
  BY <1>1, <1>2 DEF Init, TypeOK

LEMMA TypeStep == TypeOK /\ [Next]_vars => TypeOK'
<1> SUFFICES ASSUME TypeOK, [Next]_vars PROVE TypeOK'
  OBVIOUS
<1> USE DEF TypeOK, posting, working, Reports, Steps
<1>1. ASSUME NEW c \in Consoles, StartFails(c) PROVE TypeOK'
  BY <1>1 DEF StartFails
<1>2. ASSUME NEW c \in Consoles, StartWorker(c) PROVE TypeOK'
  BY <1>2 DEF StartWorker
<1>3. ASSUME NEW c \in Consoles, PostMessageBySrv(c) PROVE TypeOK'
  <2>1. PICK n : poster' = [poster EXCEPT ![n] = "started"]
    BY <1>3 DEF PostMessageBySrv
  <2>2. poster' \in [Msgs -> {"none", "started", "unregistered", "posting", "posted", "done"}]
    BY <2>1
  <2>3. QED
    BY <1>3, <2>2 DEF PostMessageBySrv
<1>4. ASSUME NEW c \in Consoles, ConsoleEnds(c) PROVE TypeOK'
  BY <1>4, UnloadType DEF ConsoleEnds
<1>5. ASSUME NEW m \in Msgs, PosterUnregistered(m) \/ ReadTid(m) PROVE TypeOK'
  <2>1. poster' \in [Msgs -> {"none", "started", "unregistered", "posting", "posted", "done"}]
        /\ saw' \in [Msgs -> Tids \cup {NULL}] /\ lost' \subseteq Msgs
    BY <1>5 DEF PosterUnregistered, ReadTid
  <2>2. QED
    BY <1>5, <2>1 DEF PosterUnregistered, ReadTid
<1>6. ASSUME NEW m \in Msgs, Post(m) PROVE TypeOK'
  <2>1. queue' \in [Tids -> Seq(Msgs)]
    <3>1. ASSUME NEW t \in Tids PROVE Append(queue[t], m) \in Seq(Msgs)
      BY QueueFacts
    <3>2. queue' = queue \/ queue' = [queue EXCEPT ![saw[m]] = Append(queue[saw[m]], m)]
      BY <1>6 DEF Post
    <3>3. saw[m] = NULL \/ saw[m] \in Tids
      OBVIOUS
    <3>4. CASE saw[m] \in Tids
      BY <3>1, <3>2, <3>4
    <3>5. CASE saw[m] = NULL
      BY <1>6, <3>5 DEF Post
    <3>6. QED
      BY <3>3, <3>4, <3>5
  <2>2. lost' \subseteq Msgs
    BY <1>6 DEF Post
  <2>3. QED
    BY <1>6, <2>1, <2>2 DEF Post
<1>7. ASSUME NEW m \in Msgs, PosterStops(m) PROVE TypeOK'
  BY <1>7, UnloadType DEF PosterStops
<1>8. ASSUME NEW t \in Tids, WorkerUnregistered(t) \/ Running(t) PROVE TypeOK'
  BY <1>8 DEF WorkerUnregistered, Running
<1>9. ASSUME NEW t \in Tids, Publish(t) PROVE TypeOK'
  <2>1. late' \in BOOLEAN
    BY <1>9 DEF Publish
  <2>2. QED
    BY <1>9, <2>1 DEF Publish
<1>10. ASSUME NEW t \in Tids, Listen(t) PROVE TypeOK'
  BY <1>10 DEF Listen
<1>11. ASSUME NEW t \in Tids, GetMessage(t) PROVE TypeOK'
  <2>1. Head(queue[t]) \in Msgs /\ Tail(queue[t]) \in Seq(Msgs)
    BY <1>11, QueueFacts DEF GetMessage
  <2>2. handled' \in Seq(Tids \X Msgs)
    BY <1>11, <2>1 DEF GetMessage
  <2>3. QED
    BY <1>11, <2>1, <2>2 DEF GetMessage
<1>12. ASSUME NEW t \in Tids, Stop(t) PROVE TypeOK'
  BY <1>12 DEF Stop
<1>13. ASSUME NEW t \in Tids, ProcessEnds(t) PROVE TypeOK'
  <2>1. lost' \subseteq Msgs
    BY <1>13, QueueFacts DEF ProcessEnds, Range
  <2>2. late' \in BOOLEAN
    BY <1>13 DEF ProcessEnds
  <2>3. QED
    BY <1>13, <2>1, <2>2, UnloadType DEF ProcessEnds
<1>14. CASE UNCHANGED vars
  BY <1>14 DEF vars
<1>15. QED
  BY <1>1, <1>2, <1>3, <1>4, <1>5, <1>6, <1>7, <1>8, <1>9, <1>10, <1>11,
     <1>12, <1>13, <1>14, StepCases

--------------------------------------------------------------------------------
(* The posters.                                                            *)

\* Steps of the consoles and of the worker that leave the messages alone.
LEMMA MessageMoves ==
  ASSUME TypeOK, [Next]_vars
  PROVE  \/ \E c \in Consoles : PostMessageBySrv(c)
         \/ \E m \in Msgs : PosterUnregistered(m) \/ ReadTid(m) \/ Post(m) \/ PosterStops(m)
         \/ \E t \in Tids : GetMessage(t) \/ ProcessEnds(t)
         \/ /\ UNCHANGED <<poster, queue, handled>>
            /\ service'["poster"] = service["poster"]
<1> USE DEF posting, working, Reports, TypeOK
<1>1. ASSUME NEW c \in Consoles, StartFails(c) \/ StartWorker(c) \/ ConsoleEnds(c)
      PROVE  /\ UNCHANGED <<poster, queue, handled>>
             /\ service'["poster"] = service["poster"]
  BY <1>1 DEF StartFails, StartWorker, ConsoleEnds
<1>2. ASSUME NEW t \in Tids,
             WorkerUnregistered(t) \/ Running(t) \/ Publish(t) \/ Listen(t) \/ Stop(t)
      PROVE  /\ UNCHANGED <<poster, queue, handled>>
             /\ service'["poster"] = service["poster"]
  BY <1>2 DEF WorkerUnregistered, Running, Publish, Listen, Stop
<1>3. CASE UNCHANGED vars
  BY <1>3 DEF vars
<1>4. QED
  BY <1>1, <1>2, <1>3, StepCases

\* A poster that goes on was sent before and stays sent.
LEMMA SentKept ==
  ASSUME TypeOK, NEW m \in Msgs,
         PosterUnregistered(m) \/ ReadTid(m) \/ Post(m) \/ PosterStops(m)
  PROVE  /\ Sent' = Sent /\ poster[m] # "none" /\ poster'[m] # "none"
         /\ \A n \in Msgs \ {m} : poster'[n] = poster[n]
         /\ poster[m] \in {"started", "unregistered", "posting", "posted"}
BY DEF TypeOK, Sent, PosterUnregistered, ReadTid, Post, PosterStops

\* The next message is the one behind those that were sent.
LEMMA SentGrows ==
  ASSUME TypeOK, PostersInTurn, NEW c \in Consoles, PostMessageBySrv(c)
  PROVE  \E k \in Nat :
           /\ Sent = 1..k /\ poster' = [poster EXCEPT ![k + 1] = "started"]
           /\ k + 1 \in Msgs => Sent' = 1..(k + 1)
           /\ k + 1 \notin Msgs => poster' = poster
<1> DEFINE k == Cardinality(Sent)
<1>1. IsFiniteSet(Sent) /\ Sent \subseteq Msgs
  <2>1. Sent \subseteq Msgs
    BY DEF Sent
  <2>2. IsFiniteSet(Msgs)
    BY MsgsAreNumbers, FS_Interval DEF Msgs
  <2>3. QED
    BY <2>1, <2>2, FS_Subset
<1>2. k \in Nat /\ Sent = 1..k
  BY <1>1, FS_CardinalityType DEF PostersInTurn
<1>3. poster' = [poster EXCEPT ![k + 1] = "started"]
  BY DEF PostMessageBySrv
<1> HIDE DEF k
<1>4. k + 1 \in Msgs => Sent' = 1..(k + 1)
  <2>1. ASSUME k + 1 \in Msgs PROVE Sent' = Sent \cup {k + 1}
    BY <1>3, <2>1 DEF Sent, TypeOK
  <2>2. 1..k \cup {k + 1} = 1..(k + 1)
    BY <1>2
  <2>3. QED
    BY <1>2, <2>1, <2>2
<1>5. k + 1 \notin Msgs => poster' = poster
  BY <1>3 DEF TypeOK
<1>6. QED
  BY <1>2, <1>3, <1>4, <1>5

LEMMA PostersStep == TypeOK /\ PostersInTurn /\ [Next]_vars => PostersInTurn'
<1> SUFFICES ASSUME TypeOK, PostersInTurn, [Next]_vars PROVE PostersInTurn'
  OBVIOUS
<1>1. ASSUME NEW c \in Consoles, PostMessageBySrv(c) PROVE PostersInTurn'
  <2>1. PICK k \in Nat :
          /\ Sent = 1..k /\ poster' = [poster EXCEPT ![k + 1] = "started"]
          /\ k + 1 \in Msgs => Sent' = 1..(k + 1)
          /\ k + 1 \notin Msgs => poster' = poster
    BY <1>1, SentGrows
  <2>2. service["poster"] = "stopped" /\ service'["poster"] # "stopped"
    BY <1>1 DEF PostMessageBySrv, Reports, TypeOK
  <2>3. \A m \in Msgs : poster[m] \notin {"started", "unregistered", "posting", "posted"}
    BY <2>2 DEF PostersInTurn
  <2>4. CASE k + 1 \in Msgs
    <3>1. Sent' = 1..(k + 1) /\ Cardinality(Sent') = k + 1
      BY <2>1, <2>4, FS_Interval
    <3>2. \A m \in Msgs : m # k + 1 => poster'[m] = poster[m]
      BY <2>1 DEF TypeOK
    <3>3. QED
      BY <2>2, <2>3, <3>1, <3>2 DEF PostersInTurn
  <2>5. CASE k + 1 \notin Msgs
    <3>1. poster' = poster /\ Sent' = Sent
      BY <2>1, <2>5 DEF Sent
    <3>2. QED
      BY <2>2, <3>1 DEF PostersInTurn
  <2>6. QED
    BY <2>4, <2>5
<1>2. ASSUME NEW m \in Msgs, PosterUnregistered(m) \/ ReadTid(m) \/ Post(m)
      PROVE  PostersInTurn'
  <2>1. Sent' = Sent /\ \A n \in Msgs \ {m} : poster'[n] = poster[n]
    BY <1>2, SentKept
  <2>2. service' = service /\ poster[m] \in {"started", "unregistered", "posting", "posted"}
    BY <1>2 DEF PosterUnregistered, ReadTid, Post
  <2>3. QED
    BY <2>1, <2>2 DEF PostersInTurn
<1>3. ASSUME NEW m \in Msgs, PosterStops(m) PROVE PostersInTurn'
  <2>1. /\ Sent' = Sent /\ \A n \in Msgs \ {m} : poster'[n] = poster[n]
        /\ poster[m] \in {"started", "unregistered", "posting", "posted"} /\ m \in Sent
    BY <1>3, SentKept DEF Sent
  <2>2. poster'[m] = "done"
    BY <1>3 DEF PosterStops, TypeOK
  <2>3. ASSUME NEW n \in Msgs, poster'[n] \in {"started", "unregistered", "posting", "posted"}
        PROVE  FALSE
    <3>1. n # m /\ poster[n] \in {"started", "unregistered", "posting", "posted"} /\ n \in Sent
      BY <2>1, <2>2, <2>3 DEF Sent
    <3>2. n <= m /\ m <= n
      BY <2>1, <3>1 DEF PostersInTurn
    <3>3. n \in Nat /\ m \in Nat
      BY MsgsAreNumbers
    <3>4. QED
      BY <3>1, <3>2, <3>3
  <2>4. QED
    BY <2>1, <2>3 DEF PostersInTurn
<1>4. ASSUME NEW t \in Tids, GetMessage(t) \/ ProcessEnds(t) PROVE PostersInTurn'
  BY <1>4 DEF GetMessage, ProcessEnds, PostersInTurn, Sent
<1>5. CASE /\ UNCHANGED <<poster, queue, handled>>
           /\ service'["poster"] = service["poster"]
  BY <1>5 DEF PostersInTurn, Sent
<1>6. QED
  BY <1>1, <1>2, <1>3, <1>4, <1>5, MessageMoves

--------------------------------------------------------------------------------
(* The messages.                                                           *)

Posted(m) == poster[m] \in {"posted", "done"}

LEMMA PlacedKept ==
  ASSUME TypeOK, MessagesPlaced, InOrder, UNCHANGED <<queue, handled>>,
         \A m \in Msgs : Posted(m) => Posted(m)'
  PROVE  MessagesPlaced' /\ InOrder'
<1>1. \A j \in DOMAIN handled : handled[j][2] \in Msgs
  BY DEF TypeOK
<1>2. \A t \in Tids : \A i \in DOMAIN queue[t] : queue[t][i] \in Msgs
  BY DEF TypeOK
<1>3. InOrder'
  BY DEF InOrder
<1>4. MessagesPlaced'
  BY <1>1, <1>2 DEF MessagesPlaced, Posted
<1>5. QED
  BY <1>3, <1>4

\* A message that is posted is behind all that were posted before it.
LEMMA PlacedPost ==
  ASSUME TypeOK, PostersInTurn, MessagesPlaced, InOrder, NEW m \in Msgs, Post(m)
  PROVE  MessagesPlaced' /\ InOrder'
<1>1. /\ poster[m] = "posting" /\ poster'[m] = "posted"
      /\ \A n \in Msgs \ {m} : poster'[n] = poster[n]
      /\ handled' = handled
  BY DEF Post, TypeOK
<1>2. \A n \in Msgs : Posted(n) => Posted(n)' /\ n < m
  <2>1. ASSUME NEW n \in Msgs, Posted(n) PROVE n < m
    <3>1. n # m /\ n \in Sent
      BY <1>1, <2>1 DEF Posted, Sent
    <3>2. n <= m /\ n \in Nat /\ m \in Nat
      BY <1>1, <3>1, MsgsAreNumbers DEF PostersInTurn
    <3>3. QED
      BY <3>1, <3>2
  <2>2. QED
    BY <1>1, <2>1 DEF Posted
<1>3. CASE queue' = queue
  BY <1>1, <1>2, <1>3, PlacedKept
<1>4. CASE saw[m] \in Tids /\ queue' = [queue EXCEPT ![saw[m]] = Append(queue[saw[m]], m)]
  <2> DEFINE t == saw[m]
  <2>1. /\ queue[t] \in Seq(Msgs) /\ Len(queue[t]) \in Nat /\ t \in Tids
        /\ DOMAIN queue[t] = 1..Len(queue[t])
        /\ DOMAIN queue'[t] = 1..(Len(queue[t]) + 1)
        /\ \A i \in DOMAIN queue[t] : queue'[t][i] = queue[t][i]
        /\ queue'[t][Len(queue[t]) + 1] = m
        /\ \A u \in Tids \ {t} : queue'[u] = queue[u]
    BY <1>4, QueueFacts DEF TypeOK
  <2> HIDE DEF t
  <2>2. /\ \A j \in DOMAIN handled : handled[j][2] \in Msgs /\ Posted(handled[j][2])
        /\ \A u \in Tids : \A i \in DOMAIN queue[u] :
             queue[u][i] \in Msgs /\ Posted(queue[u][i])
    BY DEF TypeOK, MessagesPlaced, Posted
  <2>3. /\ \A j \in DOMAIN handled : handled[j][2] < m
        /\ \A u \in Tids : \A i \in DOMAIN queue[u] : queue[u][i] < m
    BY <1>2, <2>2
  <2>4. /\ m \in Nat
        /\ \A j \in DOMAIN handled : handled[j][2] \in Nat
        /\ \A u \in Tids : \A i \in DOMAIN queue[u] : queue[u][i] \in Nat
    BY <2>2, MsgsAreNumbers
  <2>5. ASSUME NEW u \in Tids, NEW i \in DOMAIN queue'[u]
        PROVE  \/ i \in DOMAIN queue[u] /\ queue'[u][i] = queue[u][i]
               \/ u = t /\ i = Len(queue[t]) + 1 /\ queue'[u][i] = m
    BY <2>1, <2>5
  <2>6. ASSUME NEW u \in Tids, NEW i \in DOMAIN queue'[u]
        PROVE  poster'[queue'[u][i]] \in {"posted", "done"}
    <3>1. CASE i \in DOMAIN queue[u] /\ queue'[u][i] = queue[u][i]
      BY <1>2, <2>2, <3>1 DEF Posted
    <3>2. CASE queue'[u][i] = m
      BY <1>1, <3>2
    <3>3. QED
      BY <2>5, <2>6, <3>1, <3>2
  <2>7. ASSUME NEW u \in Tids, NEW i \in DOMAIN queue'[u], NEW k \in DOMAIN queue'[u],
               i < k
        PROVE  queue'[u][i] < queue'[u][k]
    BY <2>1, <2>3, <2>5, <2>7 DEF MessagesPlaced
  <2>8. ASSUME NEW u \in Tids, NEW i \in DOMAIN queue'[u], NEW v \in Tids \ {u},
               NEW k \in DOMAIN queue'[v]
        PROVE  queue'[u][i] # queue'[v][k]
    <3>1. CASE i \in DOMAIN queue[u] /\ k \in DOMAIN queue[v]
               /\ queue'[u][i] = queue[u][i] /\ queue'[v][k] = queue[v][k]
      BY <3>1 DEF MessagesPlaced
    <3>2. CASE i \in DOMAIN queue[u] /\ queue'[u][i] = queue[u][i] /\ queue'[v][k] = m
      BY <2>3, <2>4, <3>2
    <3>3. CASE queue'[u][i] = m /\ k \in DOMAIN queue[v] /\ queue'[v][k] = queue[v][k]
      BY <2>3, <2>4, <3>3
    <3>4. QED
      BY <2>5, <2>8, <3>1, <3>2, <3>3
  <2>9. ASSUME NEW u \in Tids, NEW i \in DOMAIN queue'[u], NEW j \in DOMAIN handled
        PROVE  /\ handled[j][2] # queue'[u][i]
               /\ handled[j][1] = u => handled[j][2] < queue'[u][i]
    BY <2>3, <2>4, <2>5 DEF MessagesPlaced
  <2>10. InOrder'
    BY <1>1 DEF InOrder
  <2>11. \A j \in DOMAIN handled : poster'[handled[j][2]] \in {"posted", "done"}
    BY <1>2, <2>2 DEF Posted
  <2>12. QED
    BY <1>1, <2>6, <2>7, <2>8, <2>9, <2>10, <2>11 DEF MessagesPlaced
<1>5. QED
  BY <1>3, <1>4 DEF Post, TypeOK

\* The message that is taken is the first of its queue and later than all its
\* thread has taken.
LEMMA PlacedTake ==
  ASSUME TypeOK, MessagesPlaced, InOrder, NEW t \in Tids, GetMessage(t)
  PROVE  MessagesPlaced' /\ InOrder'
<1> DEFINE h == queue[t][1]
           n == Len(handled) + 1
<1>1. /\ poster' = poster /\ 1 \in DOMAIN queue[t] /\ h \in Msgs
      /\ Len(queue[t]) \in Nat /\ DOMAIN queue[t] = 1..Len(queue[t])
      /\ DOMAIN queue'[t] = 1..(Len(queue[t]) - 1)
      /\ \A i \in DOMAIN queue'[t] :
           i + 1 \in DOMAIN queue[t] /\ queue'[t][i] = queue[t][i + 1]
      /\ \A u \in Tids \ {t} : queue'[u] = queue[u]
  <2>1. /\ queue[t] \in Seq(Msgs) /\ queue[t] # <<>> /\ poster' = poster
        /\ queue' = [queue EXCEPT ![t] = Tail(queue[t])]
    BY DEF GetMessage, TypeOK
  <2>2. queue'[t] = Tail(queue[t]) /\ \A u \in Tids \ {t} : queue'[u] = queue[u]
    BY <2>1 DEF TypeOK
  <2>3. /\ DOMAIN queue[t] = 1..Len(queue[t]) /\ Len(queue[t]) \in Nat
        /\ Head(queue[t]) = h /\ h \in Msgs /\ 1 \in DOMAIN queue[t]
        /\ DOMAIN Tail(queue[t]) = 1..(Len(queue[t]) - 1)
        /\ \A i \in 1..(Len(queue[t]) - 1) :
             i + 1 \in DOMAIN queue[t] /\ Tail(queue[t])[i] = queue[t][i + 1]
    BY <2>1, QueueFacts
  <2>4. QED
    BY <2>1, <2>2, <2>3
<1>2. /\ DOMAIN handled' = DOMAIN handled \cup {n} /\ n \in Nat
      /\ \A j \in DOMAIN handled : j \in 1..(n - 1) /\ handled'[j] = handled[j]
      /\ handled'[n][1] = t /\ handled'[n][2] = h
  <2>1. handled \in Seq(Tids \X Msgs) /\ <<t, h>> \in Tids \X Msgs
    BY <1>1 DEF TypeOK
  <2>2. handled' = Append(handled, <<t, h>>)
    BY QueueFacts DEF GetMessage, TypeOK
  <2>3. QED
    BY <2>1, <2>2
<1> HIDE DEF h, n
<1>3. /\ \A j \in DOMAIN handled : handled[j][2] \in Nat
      /\ \A u \in Tids : \A i \in DOMAIN queue[u] : queue[u][i] \in Nat
  <2>1. /\ \A j \in DOMAIN handled : handled[j][2] \in Msgs
        /\ \A u \in Tids : \A i \in DOMAIN queue[u] : queue[u][i] \in Msgs
    BY DEF TypeOK
  <2>2. QED
    BY <2>1, MsgsAreNumbers
<1>4. /\ poster[h] \in {"posted", "done"} /\ h \in Nat
      /\ \A j \in DOMAIN handled :
           handled[j][2] # h /\ (handled[j][1] = t => handled[j][2] < h)
      /\ \A i \in DOMAIN queue'[t] : h < queue'[t][i]
      /\ \A u \in Tids \ {t} : \A i \in DOMAIN queue[u] : h # queue[u][i]
  <2>1. poster[h] \in {"posted", "done"} /\ h \in Nat
    BY <1>1, MsgsAreNumbers DEF MessagesPlaced, h
  <2>2. \A j \in DOMAIN handled :
          handled[j][2] # h /\ (handled[j][1] = t => handled[j][2] < h)
    BY <1>1 DEF MessagesPlaced, h
  <2>3. ASSUME NEW i \in DOMAIN queue'[t] PROVE h < queue'[t][i]
    <3>1. i + 1 \in DOMAIN queue[t] /\ queue'[t][i] = queue[t][i + 1] /\ 1 < i + 1
      BY <1>1, <2>3
    <3>2. QED
      BY <1>1, <3>1 DEF MessagesPlaced, h
  <2>4. \A u \in Tids \ {t} : \A i \in DOMAIN queue[u] : h # queue[u][i]
    BY <1>1 DEF MessagesPlaced, h
  <2>5. QED
    BY <2>1, <2>2, <2>3, <2>4
<1>5. InOrder'
  <2> SUFFICES ASSUME NEW j \in DOMAIN handled', NEW k \in DOMAIN handled', j < k
               PROVE  /\ handled'[j][2] # handled'[k][2]
                      /\ handled'[j][1] = handled'[k][1]
                           => handled'[j][2] < handled'[k][2]
    BY DEF InOrder
  <2>1. j \in DOMAIN handled
    BY <1>2
  <2>2. CASE k \in DOMAIN handled
    BY <1>2, <2>1, <2>2 DEF InOrder
  <2>3. CASE k = n
    BY <1>2, <1>4, <2>1, <2>3
  <2>4. QED
    BY <1>2, <2>2, <2>3
<1>6. \A j \in DOMAIN handled' : poster'[handled'[j][2]] \in {"posted", "done"}
  BY <1>1, <1>2, <1>4 DEF MessagesPlaced
<1>7. ASSUME NEW u \in Tids, NEW i \in DOMAIN queue'[u]
      PROVE  \E x \in DOMAIN queue[u] :
               /\ queue'[u][i] = queue[u][x]
               /\ x = IF u = t THEN i + 1 ELSE i
  BY <1>1, <1>7
<1>8. ASSUME NEW u \in Tids, NEW i \in DOMAIN queue'[u]
      PROVE  /\ poster'[queue'[u][i]] \in {"posted", "done"}
             /\ \A k \in DOMAIN queue'[u] : i < k => queue'[u][i] < queue'[u][k]
             /\ \A v \in Tids \ {u} : \A k \in DOMAIN queue'[v] :
                  queue'[u][i] # queue'[v][k]
             /\ \A j \in DOMAIN handled' :
                  /\ handled'[j][2] # queue'[u][i]
                  /\ handled'[j][1] = u => handled'[j][2] < queue'[u][i]
  <2>1. PICK x \in DOMAIN queue[u] :
          queue'[u][i] = queue[u][x] /\ x = IF u = t THEN i + 1 ELSE i
    BY <1>7, <1>8
  <2>2. poster'[queue'[u][i]] \in {"posted", "done"}
    BY <1>1, <2>1 DEF MessagesPlaced
  <2>3. ASSUME NEW k \in DOMAIN queue'[u], i < k
        PROVE  queue'[u][i] < queue'[u][k]
    <3>1. PICK y \in DOMAIN queue[u] :
            queue'[u][k] = queue[u][y] /\ y = IF u = t THEN k + 1 ELSE k
      BY <1>7, <2>3
    <3>2. i \in Nat /\ k \in Nat
      <4>1. DOMAIN queue[u] = 1..Len(queue[u])
        BY QueueFacts DEF TypeOK
      <4>2. CASE u = t
        BY <1>1, <1>8, <2>3, <4>2
      <4>3. CASE u # t
        BY <1>1, <1>8, <2>3, <4>1, <4>3
      <4>4. QED
        BY <4>2, <4>3
    <3>3. x < y
      BY <2>1, <2>3, <3>1, <3>2
    <3>4. QED
      BY <2>1, <3>1, <3>3 DEF MessagesPlaced
  <2>4. ASSUME NEW v \in Tids \ {u}, NEW k \in DOMAIN queue'[v]
        PROVE  queue'[u][i] # queue'[v][k]
    <3>1. PICK y \in DOMAIN queue[v] : queue'[v][k] = queue[v][y]
      BY <1>7, <2>4
    <3>2. QED
      BY <2>1, <3>1 DEF MessagesPlaced
  <2>5. ASSUME NEW j \in DOMAIN handled'
        PROVE  /\ handled'[j][2] # queue'[u][i]
               /\ handled'[j][1] = u => handled'[j][2] < queue'[u][i]
    <3>1. CASE j \in DOMAIN handled
      BY <1>2, <2>1, <3>1 DEF MessagesPlaced
    <3>2. CASE j = n
      <4>1. CASE u = t
        BY <1>2, <1>3, <1>4, <1>8, <2>1, <3>2, <4>1
      <4>2. CASE u # t
        BY <1>2, <1>4, <2>1, <3>2, <4>2
      <4>3. QED
        BY <4>1, <4>2
    <3>3. QED
      BY <1>2, <3>1, <3>2
  <2>6. QED
    BY <2>2, <2>3, <2>4, <2>5
<1>9. QED
  BY <1>5, <1>6, <1>8 DEF MessagesPlaced

\* The messages of a process that ends go with it.
LEMMA PlacedEnd ==
  ASSUME TypeOK, MessagesPlaced, InOrder, NEW t \in Tids, ProcessEnds(t)
  PROVE  MessagesPlaced' /\ InOrder'
<1>1. /\ poster' = poster /\ handled' = handled
      /\ DOMAIN queue'[t] = {}
      /\ \A u \in Tids \ {t} : queue'[u] = queue[u]
  BY DEF ProcessEnds, TypeOK
<1>2. InOrder'
  BY <1>1 DEF InOrder
<1>3. \A u \in Tids : \A i \in DOMAIN queue'[u] : u # t
  BY <1>1
<1>4. MessagesPlaced'
  BY <1>1, <1>3 DEF MessagesPlaced
<1>5. QED
  BY <1>2, <1>4

LEMMA PlacedStep ==
  TypeOK /\ PostersInTurn /\ MessagesPlaced /\ InOrder /\ [Next]_vars
    => MessagesPlaced' /\ InOrder'
<1> SUFFICES ASSUME TypeOK, PostersInTurn, MessagesPlaced, InOrder, [Next]_vars
             PROVE  MessagesPlaced' /\ InOrder'
  OBVIOUS
<1>1. ASSUME NEW c \in Consoles, PostMessageBySrv(c)
      PROVE  MessagesPlaced' /\ InOrder'
  <2>1. PICK k \in Nat :
          /\ Sent = 1..k /\ poster' = [poster EXCEPT ![k + 1] = "started"]
          /\ k + 1 \in Msgs => Sent' = 1..(k + 1)
          /\ k + 1 \notin Msgs => poster' = poster
    BY <1>1, SentGrows
  <2>2. ASSUME NEW m \in Msgs, Posted(m) PROVE Posted(m)'
    <3>1. m \in 1..k
      BY <2>1, <2>2 DEF Posted, Sent
    <3>2. m # k + 1
      BY <3>1
    <3>3. QED
      BY <2>1, <2>2, <3>2 DEF Posted, TypeOK
  <2>3. UNCHANGED <<queue, handled>>
    BY <1>1 DEF PostMessageBySrv, working
  <2>4. QED
    BY <2>2, <2>3, PlacedKept
<1>2. ASSUME NEW m \in Msgs, PosterUnregistered(m) \/ ReadTid(m) \/ PosterStops(m)
      PROVE  MessagesPlaced' /\ InOrder'
  <2>1. \A n \in Msgs : Posted(n) => Posted(n)'
    BY <1>2 DEF PosterUnregistered, ReadTid, PosterStops, Posted, TypeOK
  <2>2. UNCHANGED <<queue, handled>>
    BY <1>2 DEF PosterUnregistered, ReadTid, PosterStops, working
  <2>3. QED
    BY <2>1, <2>2, PlacedKept
<1>3. ASSUME NEW m \in Msgs, Post(m) PROVE MessagesPlaced' /\ InOrder'
  BY <1>3, PlacedPost
<1>4. ASSUME NEW t \in Tids, GetMessage(t) PROVE MessagesPlaced' /\ InOrder'
  BY <1>4, PlacedTake
<1>5. ASSUME NEW t \in Tids, ProcessEnds(t) PROVE MessagesPlaced' /\ InOrder'
  BY <1>5, PlacedEnd
<1>6. CASE UNCHANGED <<poster, queue, handled>>
  BY <1>6, PlacedKept DEF Posted
<1>7. QED
  BY <1>1, <1>2, <1>3, <1>4, <1>5, <1>6, MessageMoves

--------------------------------------------------------------------------------
(* The workers.                                                            *)

\* Steps that a worker's process, its service or the shared id do not see.
LEMMA WorkerMoves ==
  ASSUME TypeOK, [Next]_vars
  PROVE  \/ \E c \in Consoles : StartWorker(c)
         \/ \E t \in Tids :
              WorkerUnregistered(t) \/ Running(t) \/ Publish(t) \/ Listen(t) \/ Stop(t)
                \/ ProcessEnds(t)
         \/ /\ UNCHANGED <<worker, dying, late, stops>>
            /\ service'["worker"] = service["worker"]
            /\ gTID' = gTID \/ Unload({}, {}, {}) \/ (\E c : Unload({c}, {}, {}))
                 \/ (\E m : Unload({}, {m}, {}))
<1> USE DEF posting, working, Reports, TypeOK
<1>1. ASSUME NEW c \in Consoles, StartFails(c) \/ PostMessageBySrv(c) \/ ConsoleEnds(c)
      PROVE  /\ UNCHANGED <<worker, dying, late, stops>>
             /\ service'["worker"] = service["worker"]
             /\ gTID' = gTID \/ Unload({c}, {}, {})
  BY <1>1 DEF StartFails, PostMessageBySrv, ConsoleEnds
<1>2. ASSUME NEW m \in Msgs, PosterUnregistered(m) \/ ReadTid(m) \/ Post(m) \/ PosterStops(m)
      PROVE  /\ UNCHANGED <<worker, dying, late, stops>>
             /\ service'["worker"] = service["worker"]
             /\ gTID' = gTID \/ Unload({}, {m}, {})
  BY <1>2 DEF PosterUnregistered, ReadTid, Post, PosterStops
<1>3. ASSUME NEW t \in Tids, GetMessage(t)
      PROVE  UNCHANGED <<worker, dying, late, stops, service, gTID>>
  BY <1>3 DEF GetMessage
<1>4. CASE UNCHANGED vars
  BY <1>4 DEF vars
<1>5. QED
  BY <1>1, <1>2, <1>3, <1>4, StepCases

\* The manager starts a worker when its service is stopped, so when none is
\* left that has not been told to stop.
LEMMA OneWorkerStep == TypeOK /\ OneWorker /\ [Next]_vars => OneWorker'
<1> SUFFICES ASSUME TypeOK, OneWorker, [Next]_vars PROVE OneWorker'
  OBVIOUS
<1> USE DEF TypeOK, Reports, posting, working
<1>1. ASSUME NEW c \in Consoles, StartWorker(c) PROVE OneWorker'
  <2>1. PICK t \in Tids : worker[t] = "none" /\ worker' = [worker EXCEPT ![t] = "started"]
    BY <1>1 DEF StartWorker
  <2>2. \A u \in Tids : ~Alive(u)
    BY <1>1 DEF StartWorker, OneWorker
  <2>3. t \notin dying
    BY <2>1 DEF OneWorker
  <2>4. dying' = dying /\ service'["worker"] = "pending"
    BY <1>1 DEF StartWorker
  <2>5. \A u \in dying' : worker'[u] \in {"running", "published", "listening"}
    BY <2>1, <2>3, <2>4 DEF OneWorker
  <2>6. \A u \in Tids : Alive(u)' => u = t
    BY <2>1, <2>2, <2>4 DEF Alive
  <2>7. QED
    BY <2>4, <2>5, <2>6 DEF OneWorker
<1>2. ASSUME NEW t \in Tids, WorkerUnregistered(t) \/ Running(t) PROVE OneWorker'
  <2>1. worker[t] = "started" /\ dying' = dying /\ service'["worker"] # "stopped"
    <3>1. service["worker"] # "stopped"
      BY <1>2 DEF WorkerUnregistered, Running, OneWorker, Alive
    <3>2. QED
      BY <1>2, <3>1 DEF WorkerUnregistered, Running
  <2>2. worker' = [worker EXCEPT ![t] = "unregistered"] \/ worker' = [worker EXCEPT ![t] = "running"]
    BY <1>2 DEF WorkerUnregistered, Running
  <2>3. QED
    BY <2>1, <2>2 DEF OneWorker, Alive
<1>3. ASSUME NEW t \in Tids, Publish(t) PROVE OneWorker'
  BY <1>3 DEF Publish, OneWorker, Alive
<1>4. ASSUME NEW t \in Tids, Listen(t) PROVE OneWorker'
  BY <1>4 DEF Listen, OneWorker, Alive
<1>5. ASSUME NEW t \in Tids, Stop(t) PROVE OneWorker'
  BY <1>5 DEF Stop, OneWorker, Alive
<1>6. ASSUME NEW t \in Tids, ProcessEnds(t) PROVE OneWorker'
  BY <1>6 DEF ProcessEnds, OneWorker, Alive
<1>7. CASE UNCHANGED <<worker, dying>> /\ service'["worker"] = service["worker"]
  BY <1>7 DEF OneWorker, Alive
<1>8. QED
  BY <1>1, <1>2, <1>3, <1>4, <1>5, <1>6, <1>7, WorkerMoves

\* A worker that lives keeps dl loaded.
LEMMA UnloadKeeps ==
  ASSUME NEW cs, NEW ms, NEW ts, Unload(cs, ms, ts),
         NEW t \in Tids \ ts, worker[t] # "none"
  PROVE  gTID' = gTID
BY DEF Unload

\* Only another worker's Publish changes the id, and that one was told to stop.
LEMMA IdSharedStep == TypeOK /\ OneWorker /\ IdShared /\ [Next]_vars => IdShared'
<1> SUFFICES ASSUME TypeOK, OneWorker, IdShared, [Next]_vars,
                    NEW u \in Tids, Alive(u)', worker'[u] \in {"published", "listening"}, ~late'
             PROVE  gTID' = u
  BY DEF IdShared
<1> USE DEF TypeOK, Reports, posting, working
<1>1. ASSUME NEW c \in Consoles, StartWorker(c) PROVE gTID' = u
  <2>1. PICK t \in Tids : worker[t] = "none" /\ worker' = [worker EXCEPT ![t] = "started"]
    BY <1>1 DEF StartWorker
  <2>2. u # t /\ worker[u] = worker'[u] /\ dying' = dying
    BY <1>1, <2>1 DEF StartWorker
  <2>3. Alive(u)
    BY <2>2 DEF Alive
  <2>4. QED
    BY <1>1, <2>3 DEF StartWorker, OneWorker
<1>2. ASSUME NEW t \in Tids, WorkerUnregistered(t) \/ Running(t) PROVE gTID' = u
  <2>1. u # t /\ worker[u] = worker'[u] /\ Alive(u) /\ ~late /\ gTID' = gTID
    BY <1>2 DEF WorkerUnregistered, Running, Alive
  <2>2. QED
    BY <2>1 DEF IdShared
<1>3. ASSUME NEW t \in Tids, Publish(t) PROVE gTID' = u
  <2>1. CASE u = t
    BY <1>3, <2>1 DEF Publish
  <2>2. CASE u # t
    <3>1. Alive(u) /\ worker[u] \in {"published", "listening"} /\ u \in Tids \ dying
      BY <1>3, <2>2 DEF Publish, Alive
    <3>2. t \in dying
      BY <1>3, <2>2, <3>1 DEF Publish, Alive, OneWorker
    <3>3. QED
      BY <1>3, <3>1, <3>2 DEF Publish
  <2>3. QED
    BY <2>1, <2>2
<1>4. ASSUME NEW t \in Tids, Listen(t) PROVE gTID' = u
  <2>1. Alive(u) /\ worker[u] \in {"published", "listening"} /\ ~late /\ gTID' = gTID
    BY <1>4 DEF Listen, Alive
  <2>2. QED
    BY <2>1 DEF IdShared
<1>5. ASSUME NEW t \in Tids, Stop(t) PROVE gTID' = u
  <2>1. Alive(u) /\ worker[u] \in {"published", "listening"} /\ ~late /\ gTID' = gTID
    BY <1>5 DEF Stop, Alive
  <2>2. QED
    BY <2>1 DEF IdShared
<1>6. ASSUME NEW t \in Tids, ProcessEnds(t) PROVE gTID' = u
  <2>1. u # t /\ worker[u] = worker'[u] /\ Alive(u)
    BY <1>6 DEF ProcessEnds, Alive
  <2>2. worker[u] # "none" /\ ~late
    BY <1>6, <2>1 DEF ProcessEnds
  <2>3. gTID' = gTID
    BY <1>6, <2>1, <2>2, UnloadKeeps DEF ProcessEnds
  <2>4. QED
    BY <2>1, <2>2, <2>3 DEF IdShared
<1>7. CASE /\ UNCHANGED <<worker, dying, late>>
           /\ gTID' = gTID \/ Unload({}, {}, {}) \/ (\E c : Unload({c}, {}, {}))
                \/ (\E m : Unload({}, {m}, {}))
  <2>1. Alive(u) /\ worker[u] \in {"published", "listening"} /\ ~late
    BY <1>7 DEF Alive
  <2>2. ASSUME NEW cs, NEW ms, Unload(cs, ms, {}) PROVE gTID' = gTID
    <3>1. u \in Tids \ {} /\ worker[u] # "none"
      BY <2>1
    <3>2. QED
      BY <2>2, <3>1, UnloadKeeps
  <2>3. gTID' = gTID
    BY <1>7, <2>2
  <2>4. QED
    BY <2>1, <2>3 DEF IdShared
<1>8. QED
  BY <1>1, <1>2, <1>3, <1>4, <1>5, <1>6, <1>7, WorkerMoves

\* Nobody told a worker to stop: one that listens goes on listening.
LEMMA ListenersStay ==
  ASSUME TypeOK, [Next]_vars, stops' = 0, stops = 0 => dying = {} /\ ~late
  PROVE  /\ stops = 0 /\ dying = {} /\ dying' = {} /\ ~late'
         /\ \A t \in Tids : Listening(t) => Listening(t)'
         /\ ~\E t \in Tids : ProcessEnds(t)
<1> USE DEF TypeOK, Reports, posting, working
<1>1. stops = 0
  <2>1. ASSUME NEW t \in Tids, Stop(t) PROVE FALSE
    BY <2>1 DEF Stop
  <2>2. QED
    BY <2>1, WorkerMoves DEF StartWorker, WorkerUnregistered, Running, Publish, Listen, ProcessEnds
<1>2. dying = {} /\ ~late
  BY <1>1
<1>3. ~\E t \in Tids : ProcessEnds(t) \/ Stop(t)
  BY <1>1, <1>2 DEF ProcessEnds, Stop
<1>4. dying' = {} /\ ~late'
  BY <1>2, <1>3, WorkerMoves DEF StartWorker, WorkerUnregistered, Running, Publish, Listen
<1>5. ASSUME NEW t \in Tids, Listening(t) PROVE Listening(t)'
  <2>1. worker'[t] = "listening"
    <3>1. ASSUME NEW c \in Consoles, StartWorker(c) PROVE worker'[t] = "listening"
      BY <1>5, <3>1 DEF StartWorker, Listening
    <3>2. ASSUME NEW u \in Tids, WorkerUnregistered(u) \/ Running(u) \/ Publish(u) \/ Listen(u)
          PROVE  worker'[t] = "listening"
      BY <1>5, <3>2 DEF WorkerUnregistered, Running, Publish, Listen, Listening
    <3>3. QED
      BY <1>3, <1>5, <3>1, <3>2, WorkerMoves DEF Listening
  <2>2. QED
    BY <1>4, <2>1 DEF Listening
<1>6. QED
  BY <1>1, <1>2, <1>3, <1>4, <1>5

\* A poster that could not register its control handler stays where it is.
LEMMA UnheardKept ==
  ASSUME TypeOK, PostersInTurn, [Next]_vars
  PROVE  Unheard \subseteq Unheard'
<1> SUFFICES ASSUME NEW n \in Msgs, poster[n] = "unregistered" PROVE poster'[n] = "unregistered"
  BY DEF Unheard
<1>1. ASSUME NEW c \in Consoles, PostMessageBySrv(c) PROVE poster'[n] = "unregistered"
  <2>1. PICK k \in Nat : Sent = 1..k /\ poster' = [poster EXCEPT ![k + 1] = "started"]
    BY <1>1, SentGrows
  <2>2. n \in 1..k /\ n # k + 1
    BY <2>1 DEF Sent
  <2>3. QED
    BY <2>1, <2>2 DEF TypeOK
<1>2. ASSUME NEW m \in Msgs, PosterUnregistered(m) \/ ReadTid(m) \/ Post(m) \/ PosterStops(m)
      PROVE  poster'[n] = "unregistered"
  BY <1>2 DEF PosterUnregistered, ReadTid, Post, PosterStops, TypeOK
<1>3. ASSUME NEW t \in Tids, GetMessage(t) \/ ProcessEnds(t) PROVE poster'[n] = "unregistered"
  BY <1>3 DEF GetMessage, ProcessEnds
<1>4. QED
  BY <1>1, <1>2, <1>3, MessageMoves

LEMMA NothingMissedStep ==
  TypeOK /\ PostersInTurn /\ OneWorker /\ IdShared /\ NothingMissed /\ [Next]_vars => NothingMissed'
<1> SUFFICES ASSUME TypeOK, PostersInTurn, OneWorker, IdShared, NothingMissed, [Next]_vars, stops' = 0
             PROVE  /\ dying' = {} /\ ~late' /\ lost' \subseteq early' \cup Unheard'
                    /\ \A m \in Msgs \ early' :
                         /\ poster'[m] = "started" => \E t \in Tids : Listening(t)'
                         /\ poster'[m] = "posting" =>
                              \E t \in Tids : saw'[m] = t /\ Listening(t)'
  <2>1. ASSUME NEW m, \E t \in Tids : saw'[m] = t /\ Listening(t)'
        PROVE  saw'[m] \in Tids /\ Listening(saw[m])'
    BY <2>1 DEF Listening
  <2>2. QED
    BY <2>1 DEF NothingMissed
<1> USE DEF TypeOK, Reports, posting, working
<1>1. /\ stops = 0 /\ dying = {} /\ dying' = {} /\ ~late'
      /\ \A t \in Tids : Listening(t) => Listening(t)'
      /\ ~\E t \in Tids : ProcessEnds(t)
  BY ListenersStay DEF NothingMissed
<1>2. /\ ~late /\ lost \subseteq early \cup Unheard /\ Unheard \subseteq Unheard'
      /\ \A m \in Msgs \ early :
           /\ poster[m] = "started" => \E t \in Tids : Listening(t)
           /\ poster[m] = "posting" => saw[m] \in Tids /\ Listening(saw[m])
  BY <1>1, UnheardKept DEF NothingMissed
<1> DEFINE Found(m) ==
      /\ poster'[m] = "started" => \E t \in Tids : Listening(t)'
      /\ poster'[m] = "posting" => \E t \in Tids : saw'[m] = t /\ Listening(t)'
<1>3. ASSUME NEW m \in Msgs \ early, poster'[m] = poster[m], saw'[m] = saw[m]
      PROVE  Found(m)
  BY <1>1, <1>2, <1>3
<1>4. ASSUME NEW c \in Consoles, PostMessageBySrv(c)
      PROVE  lost' \subseteq early' \cup Unheard' /\ \A m \in Msgs \ early' : Found(m)
  <2> DEFINE n == Cardinality(Sent) + 1
  <2>1. /\ poster' = [poster EXCEPT ![n] = "started"] /\ saw' = saw /\ lost' = lost
        /\ early \subseteq early'
        /\ n \in early' \/ \E t \in Tids : Listening(t)
    BY <1>4 DEF PostMessageBySrv
  <2> HIDE DEF n
  <2>2. ASSUME NEW m \in Msgs \ early' PROVE Found(m)
    <3>1. CASE m = n
      BY <1>1, <2>1, <2>2, <3>1
    <3>2. CASE m # n
      <4>1. m \in Msgs \ early /\ poster'[m] = poster[m] /\ saw'[m] = saw[m]
        BY <2>1, <2>2, <3>2
      <4>2. QED
        BY <1>3, <4>1
    <3>3. QED
      BY <3>1, <3>2
  <2>3. QED
    BY <1>2, <2>1, <2>2
<1>5. ASSUME NEW m \in Msgs, ReadTid(m)
      PROVE  lost' \subseteq early' \cup Unheard' /\ \A n \in Msgs \ early' : Found(n)
  <2>1. /\ poster' = [poster EXCEPT ![m] = "posting"] /\ saw' = [saw EXCEPT ![m] = gTID]
        /\ lost' = lost /\ early' = early /\ poster[m] = "started"
    BY <1>5 DEF ReadTid
  <2>2. ASSUME m \notin early PROVE Found(m)
    <3>1. PICK t \in Tids : Listening(t)
      BY <1>2, <2>1, <2>2
    <3>2. gTID = t
      BY <1>2, <3>1 DEF IdShared, Listening, Alive
    <3>3. QED
      BY <1>1, <2>1, <3>1, <3>2
  <2>3. ASSUME NEW n \in Msgs \ early, n # m PROVE Found(n)
    BY <1>3, <2>1, <2>3
  <2>4. QED
    BY <1>2, <2>1, <2>2, <2>3
<1>6. ASSUME NEW m \in Msgs, Post(m)
      PROVE  lost' \subseteq early' \cup Unheard' /\ \A n \in Msgs \ early' : Found(n)
  <2>1. /\ poster' = [poster EXCEPT ![m] = "posted"] /\ saw' = saw /\ early' = early
        /\ poster[m] = "posting"
    BY <1>6 DEF Post
  <2>2. lost' \subseteq early \cup Unheard'
    <3>1. CASE m \in early
      BY <1>2, <1>6, <3>1 DEF Post
    <3>2. CASE m \notin early
      BY <1>2, <1>6, <2>1, <3>2, ServiceAppAssumption DEF Post, Listening
    <3>3. QED
      BY <3>1, <3>2
  <2>3. ASSUME NEW n \in Msgs \ early PROVE Found(n)
    BY <1>3, <2>1, <2>3
  <2>4. QED
    BY <2>1, <2>2, <2>3
<1>7. ASSUME NEW m \in Msgs, PosterStops(m)
      PROVE  lost' \subseteq early' \cup Unheard' /\ \A n \in Msgs \ early' : Found(n)
  <2>1. /\ poster' = [poster EXCEPT ![m] = "done"]
        /\ saw' = saw /\ early' = early /\ lost' = lost
    BY <1>7 DEF PosterStops
  <2>2. ASSUME NEW n \in Msgs \ early PROVE Found(n)
    BY <1>3, <2>1, <2>2
  <2>3. QED
    BY <1>2, <2>1, <2>2
<1>8. ASSUME NEW m \in Msgs, PosterUnregistered(m)
      PROVE  lost' \subseteq early' \cup Unheard' /\ \A n \in Msgs \ early' : Found(n)
  <2>1. /\ poster' = [poster EXCEPT ![m] = "unregistered"]
        /\ saw' = saw /\ early' = early /\ lost' = lost \cup {m}
    BY <1>8 DEF PosterUnregistered
  <2>2. m \in Unheard'
    BY <2>1 DEF Unheard
  <2>3. ASSUME NEW n \in Msgs \ early PROVE Found(n)
    BY <1>3, <2>1, <2>3
  <2>4. QED
    BY <1>2, <2>1, <2>2, <2>3
<1>9. ASSUME UNCHANGED <<poster, saw, lost, early>>
      PROVE  lost' \subseteq early' \cup Unheard' /\ \A n \in Msgs \ early' : Found(n)
  BY <1>2, <1>3, <1>9
<1>10. \/ \E c \in Consoles : PostMessageBySrv(c)
       \/ \E m \in Msgs : PosterUnregistered(m) \/ ReadTid(m) \/ Post(m) \/ PosterStops(m)
       \/ UNCHANGED <<poster, saw, lost, early>>
  <2>1. ASSUME NEW c \in Consoles, StartFails(c) \/ StartWorker(c) \/ ConsoleEnds(c)
        PROVE  UNCHANGED <<poster, saw, lost, early>>
    BY <2>1 DEF StartFails, StartWorker, ConsoleEnds
  <2>2. ASSUME NEW t \in Tids,
               \/ WorkerUnregistered(t) \/ Running(t) \/ Publish(t) \/ Listen(t)
               \/ GetMessage(t) \/ Stop(t)
        PROVE  UNCHANGED <<poster, saw, lost, early>>
    BY <2>2 DEF WorkerUnregistered, Running, Publish, Listen, GetMessage, Stop
  <2>3. CASE UNCHANGED vars
    BY <2>3 DEF vars
  <2>4. QED
    BY <1>1, <2>1, <2>2, <2>3, StepCases
<1>11. lost' \subseteq early' \cup Unheard' /\ \A m \in Msgs \ early' : Found(m)
  BY <1>4, <1>5, <1>6, <1>7, <1>8, <1>9, <1>10
<1>12. QED
  BY <1>1, <1>11

--------------------------------------------------------------------------------
(* The theorems.                                                           *)

LEMMA InvInit == Init => IInv
<1> SUFFICES ASSUME Init PROVE IInv
  OBVIOUS
<1>1. TypeOK
  BY TypeInit
<1>2. PostersInTurn
  <2>1. Sent = {}
    BY DEF Init, Sent
  <2>2. Cardinality({}) = 0 /\ 1..0 = {}
    BY FS_EmptySet
  <2>3. QED
    BY <2>1, <2>2 DEF PostersInTurn, Init
<1>3. DOMAIN handled = {} /\ \A t \in Tids : DOMAIN queue[t] = {}
  BY DEF Init
<1>4. MessagesPlaced /\ InOrder
  BY <1>3 DEF MessagesPlaced, InOrder
<1>5. OneWorker /\ IdShared /\ NothingMissed
  BY DEF Init, OneWorker, IdShared, NothingMissed, Alive
<1>6. QED
  BY <1>1, <1>2, <1>4, <1>5 DEF IInv

LEMMA InvStep == IInv /\ [Next]_vars => IInv'
BY TypeStep, PostersStep, PlacedStep, OneWorkerStep, IdSharedStep, NothingMissedStep DEF IInv

\* Whatever consoles, posters, workers and the service manager do, and in
\* whatever order, the parts of the invariant hold (AppService.cpp, dllmain.cpp).
THEOREM Inductive == Spec => []IInv
<1>1. QED
  BY InvInit, InvStep, PTL DEF Spec

\* The worker takes the messages in the order their services were started and
\* none of them twice (ServiceMain reports STOPPED last; PostMessageBySrv).
THEOREM InTurn == Spec => []InOrder
<1>1. IInv => InOrder
  BY DEF IInv
<1>2. QED
  BY <1>1, Inductive, PTL

\* The shared id is that of the worker that listens, and without a stop control
\* only messages sent before it listened, or by a poster that could not register
\* its control handler, are lost (STSetTID, PostMessageToWorkingThread, ServiceMain).
THEOREM Reaches == Spec => []ReachesListener
<1>1. IInv => ReachesListener
  <2> SUFFICES ASSUME IInv PROVE ReachesListener
    OBVIOUS
  <2>1. \A t \in Tids : Listening(t) /\ ~late => gTID = t
    BY DEF IInv, IdShared, Listening, Alive
  <2>2. stops = 0 => lost \subseteq early \cup Unheard
    BY DEF IInv, NothingMissed
  <2>3. QED
    BY <2>1, <2>2 DEF ReachesListener
<1>2. QED
  BY <1>1, Inductive, PTL

================================================================================
