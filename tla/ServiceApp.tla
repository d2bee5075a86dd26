------------------------------- MODULE ServiceApp -------------------------------
(***************************************************************************)
(* SrvTest (SrvTest/AppService.cpp, AbstractServiceApp.cpp) with the       *)
(* shared data of dl (dl/dllmain.cpp).  One program plays three parts.  A  *)
(* console starts the service of the worker, and sends each message by     *)
(* starting the service of the poster with the message as its arguments.   *)
(* The poster posts it to the thread whose id stands in dl's shared data,  *)
(* and stops.  The worker puts its id there and serves its message queue.  *)
(*                                                                         *)
(* The service manager is external: it starts a service only when it is    *)
(* stopped, each time as a new process, and takes a process's word for its *)
(* state.  A process whose service is stopped ends some time afterwards.   *)
(* One that could not register its control handler reports nothing: the    *)
(* manager believes that it is starting, for good.                         *)
(***************************************************************************)
EXTENDS Naturals, Sequences, FiniteSets, Functions

CONSTANTS
  Consoles,  \* console processes
  Tids,      \* ids that the worker's thread can get; they are used again
  MaxMsgs,   \* messages a console sends: 3 in the code
  MaxStops,  \* bound: stop controls that an administrator sends
  NULL

ASSUME ServiceAppAssumption ==
  MaxMsgs \in Nat /\ MaxStops \in Nat /\ NULL \notin Tids /\ IsFiniteSet(Consoles)

VARIABLES
  service,  \* the state of each service, as the manager knows it
  step,     \* how many calls of start() a console has made
  poster,   \* where the poster of each message is, a message being its place in sent
  saw,      \* the thread id a poster has read
  worker,   \* where the worker's thread with an id is
  dying,    \* workers whose service has been stopped
  gTID,     \* dl's shared id
  queue,    \* the message queue of each thread
  stops,    \* stop controls so far
  handled,  \* ghost: who has taken which message, in that order
  lost,     \* ghost: messages that nobody has taken over
  early,    \* ghost: messages whose console found no worker listening
  late      \* ghost: a stopped worker has published its id after its successor

vars == <<service, step, poster, saw, worker, dying, gTID, queue, stops, handled, lost, early, late>>
posting == <<poster, saw, handled, lost, early>>
working == <<worker, dying, queue, stops, late>>

Msgs == 1..MaxMsgs * Cardinality(Consoles)
Sent == {m \in Msgs : poster[m] # "none"}
Listening(t) == worker[t] = "listening" /\ t \notin dying

Init ==
  /\ service = [s \in {"poster", "worker"} |-> "stopped"]
  /\ step = [c \in Consoles |-> 0]
  /\ poster = [m \in Msgs |-> "none"] /\ saw = [m \in Msgs |-> NULL]
  /\ worker = [t \in Tids |-> "none"] /\ dying = {} /\ queue = [t \in Tids |-> <<>>]
  /\ gTID = NULL /\ stops = 0
  /\ handled = <<>> /\ lost = {} /\ early = {} /\ late = FALSE

Reports(s, state) == service' = [service EXCEPT ![s] = state]

\* The shared data goes with the last process that has dl loaded.
Unload(cs, ms, ts) ==
  gTID' = IF /\ \A c \in Consoles \ cs : step[c] \in {0, MaxMsgs + 2}
             /\ \A m \in Msgs \ ms : poster[m] \in {"none", "done"}
             /\ \A t \in Tids \ ts : worker[t] = "none"
          THEN NULL ELSE gTID

-----------------------------------------------------------------------------
(* Console: execute() with RT_CONSOLE                                      *)

Steps(c) == step' = [step EXCEPT ![c] = @ + 1]

\* start() has many ways to fail; execute() never looks at its answer.
StartFails(c) ==
  /\ step[c] <= MaxMsgs /\ Steps(c)
  /\ UNCHANGED <<service, gTID, posting, working>>

StartWorker(c) ==
  /\ step[c] = 0 /\ Steps(c)
  /\ service["worker"] = "stopped" /\ Reports("worker", "pending")
  /\ \E t \in Tids :
       /\ worker[t] = "none"
       /\ worker' = [worker EXCEPT ![t] = "started"]
  /\ UNCHANGED <<gTID, posting, dying, queue, stops, late>>

PostMessageBySrv(c) ==
  /\ step[c] \in 1..MaxMsgs /\ Steps(c)
  /\ service["poster"] = "stopped" /\ Reports("poster", "pending")
  /\ LET m == Cardinality(Sent) + 1 IN
     /\ poster' = [poster EXCEPT ![m] = "started"]
     /\ early' = IF \E t \in Tids : Listening(t) THEN early ELSE early \cup {m}
  /\ UNCHANGED <<gTID, saw, handled, lost, working>>

ConsoleEnds(c) ==
  /\ step[c] = MaxMsgs + 1 /\ Steps(c)
  /\ Unload({c}, {}, {})
  /\ UNCHANGED <<service, posting, working>>

-----------------------------------------------------------------------------
(* Poster: beforeRunning() without --worker, which never lets it run       *)

\* ServiceMain returns at once if RegisterServiceCtrlHandler fails.
PosterUnregistered(m) ==
  /\ poster[m] = "started"
  /\ poster' = [poster EXCEPT ![m] = "unregistered"]
  /\ lost' = lost \cup {m}
  /\ UNCHANGED <<service, step, gTID, saw, handled, early, working>>

\* The bug: STOPPED is reported before the message has been posted.
ReadTid_Bug(m) ==
  /\ poster[m] = "started"
  /\ poster' = [poster EXCEPT ![m] = "posting"]
  /\ saw' = [saw EXCEPT ![m] = gTID]
  /\ Reports("poster", "stopped")
  /\ UNCHANGED <<step, gTID, handled, lost, early, working>>
ReadTid(m) ==
  /\ poster[m] = "started"
  /\ poster' = [poster EXCEPT ![m] = "posting"]
  /\ saw' = [saw EXCEPT ![m] = gTID]
  /\ UNCHANGED <<service, step, gTID, handled, lost, early, working>>

\* The bug: the poster waits until the message can be taken.
Post_Bug(m) ==
  /\ poster[m] = "posting" /\ saw[m] # NULL /\ worker[saw[m]] = "listening"
  /\ poster' = [poster EXCEPT ![m] = "posted"]
  /\ queue' = [queue EXCEPT ![saw[m]] = Append(@, m)]
  /\ UNCHANGED <<service, step, gTID, saw, handled, lost, early, worker, dying, stops, late>>
\* PostThreadMessage fails for a thread that is gone or has no queue yet.
Post(m) ==
  /\ poster[m] = "posting"
  /\ poster' = [poster EXCEPT ![m] = "posted"]
  /\ IF saw[m] # NULL /\ worker[saw[m]] = "listening"
     THEN queue' = [queue EXCEPT ![saw[m]] = Append(@, m)] /\ UNCHANGED lost
     ELSE lost' = lost \cup {m} /\ UNCHANGED queue
  /\ UNCHANGED <<service, step, gTID, saw, handled, early, worker, dying, stops, late>>

PosterStops(m) ==
  /\ poster[m] = "posted"
  /\ poster' = [poster EXCEPT ![m] = "done"]
  /\ Reports("poster", "stopped")
  /\ Unload({}, {m}, {})
  /\ UNCHANGED <<step, saw, handled, lost, early, working>>

-----------------------------------------------------------------------------
(* Worker: ServiceMain and execute() with --worker                         *)

WorkerUnregistered(t) ==
  /\ worker[t] = "started"
  /\ worker' = [worker EXCEPT ![t] = "unregistered"]
  /\ UNCHANGED <<service, step, gTID, posting, dying, queue, stops, late>>

Running(t) ==
  /\ worker[t] = "started"
  /\ worker' = [worker EXCEPT ![t] = "running"]
  /\ Reports("worker", "running")
  /\ UNCHANGED <<step, gTID, posting, dying, queue, stops, late>>

Publish_Bug(t) ==
  /\ worker[t] = "running"
  /\ worker' = [worker EXCEPT ![t] = "published"]
  /\ gTID' = IF gTID = NULL THEN t ELSE gTID
  /\ UNCHANGED <<service, step, posting, dying, queue, stops, late>>
Publish(t) ==
  /\ worker[t] = "running"
  /\ worker' = [worker EXCEPT ![t] = "published"]
  /\ gTID' = t
  /\ late' = (late \/ (t \in dying
                         /\ \E o \in Tids \ dying : worker[o] \in {"published", "listening"}))
  /\ UNCHANGED <<service, step, posting, dying, queue, stops>>

\* SetTimer gives the thread its queue; then it waits in GetMessage.
Listen(t) ==
  /\ worker[t] = "published"
  /\ worker' = [worker EXCEPT ![t] = "listening"]
  /\ UNCHANGED <<service, step, gTID, posting, dying, queue, stops, late>>

\* The bug: a message hides those behind it.
GetMessage_Bug(t) ==
  /\ worker[t] = "listening" /\ queue[t] # <<>>
  /\ handled' = Append(handled, <<t, Head(queue[t])>>)
  /\ queue' = [queue EXCEPT ![t] = <<>>]
  /\ lost' = lost \cup Range(Tail(queue[t]))
  /\ UNCHANGED <<service, step, gTID, poster, saw, early, worker, dying, stops, late>>
GetMessage(t) ==
  /\ worker[t] = "listening" /\ queue[t] # <<>>
  /\ handled' = Append(handled, <<t, Head(queue[t])>>)
  /\ queue' = [queue EXCEPT ![t] = Tail(@)]
  /\ UNCHANGED <<service, step, gTID, poster, saw, lost, early, worker, dying, stops, late>>

\* ServiceCtrlHandler reports that the service has stopped, and nothing
\* tells its thread; the dispatcher returns, and main with it.
Stop(t) ==
  /\ stops < MaxStops /\ stops' = stops + 1
  /\ service["worker"] = "running" /\ t \notin dying
  /\ worker[t] \in {"running", "published", "listening"}
  /\ Reports("worker", "stopped")
  /\ dying' = dying \cup {t}
  /\ UNCHANGED <<step, gTID, posting, worker, queue, late>>

ProcessEnds(t) ==
  /\ t \in dying
  /\ dying' = dying \ {t}
  /\ worker' = [worker EXCEPT ![t] = "none"]
  /\ queue' = [queue EXCEPT ![t] = <<>>]
  /\ lost' = lost \cup Range(queue[t])
  /\ late' = (late /\ \E o \in Tids \ {t} : worker[o] # "none")
  /\ Unload({}, {}, {t})
  /\ UNCHANGED <<service, step, poster, saw, handled, early, stops>>

Next ==
  \/ \E c \in Consoles : StartFails(c) \/ StartWorker(c) \/ PostMessageBySrv(c) \/ ConsoleEnds(c)
  \/ \E m \in Msgs : PosterUnregistered(m) \/ ReadTid(m) \/ Post(m) \/ PosterStops(m)
  \/ \E t \in Tids :
       WorkerUnregistered(t) \/ Running(t) \/ Publish(t) \/ Listen(t) \/ GetMessage(t) \/ Stop(t) \/ ProcessEnds(t)

\* Processes go on; nobody has to start or stop a service.
Fairness ==
  /\ \A m \in Msgs : WF_vars(PosterUnregistered(m) \/ ReadTid(m) \/ Post(m) \/ PosterStops(m))
  /\ \A t \in Tids :
       /\ WF_vars(WorkerUnregistered(t) \/ Running(t) \/ Publish(t) \/ Listen(t) \/ GetMessage(t))
       /\ WF_vars(ProcessEnds(t))

Spec == Init /\ [][Next]_vars /\ Fairness

-----------------------------------------------------------------------------
(* Properties                                                              *)

\* A worker takes the messages of all consoles in the order their services
\* were started, and no message is taken twice: a poster has posted before the
\* next can start (ServiceMain reports STOPPED last; PostMessageBySrv).
InOrder ==
  \A j, k \in DOMAIN handled :
    j < k => /\ handled[j][2] # handled[k][2]
             /\ handled[j][1] = handled[k][1] => handled[j][2] < handled[k][2]

\* Messages whose poster could not register its control handler.
Unheard == {m \in Msgs : poster[m] = "unregistered"}

\* A worker that listens and has not been stopped is the one whose id is
\* shared, unless a stopped one was so late that it has overwritten it; and as
\* long as nobody stops a service, only messages that were sent before the
\* worker listened, or whose poster could not register, can be lost (execute:
\* STSetTID, GetMessage; PostMessageToWorkingThread; ServiceMain).
ReachesListener ==
  /\ \A t \in Tids : Listening(t) /\ ~late => gTID = t
  /\ stops = 0 => lost \subseteq early \cup Unheard

\* The parts of the inductive invariant of ServiceAppProofs.

TypeOK ==
  /\ service \in [{"poster", "worker"} -> {"stopped", "pending", "running"}]
  /\ step \in [Consoles -> Nat]
  /\ poster \in [Msgs -> {"none", "started", "unregistered", "posting", "posted", "done"}]
  /\ saw \in [Msgs -> Tids \cup {NULL}]
  /\ worker \in [Tids -> {"none", "started", "unregistered", "running", "published", "listening"}]
  /\ dying \subseteq Tids /\ gTID \in Tids \cup {NULL}
  /\ queue \in [Tids -> Seq(Msgs)]
  /\ stops \in Nat /\ handled \in Seq(Tids \X Msgs)
  /\ lost \subseteq Msgs /\ late \in BOOLEAN

\* The messages are sent one by one; the poster that is at work is the last, and
\* one that could not register is the last for good.
PostersInTurn ==
  /\ Sent = 1..Cardinality(Sent)
  /\ \A m \in Msgs : poster[m] \in {"started", "unregistered", "posting", "posted"} =>
       service["poster"] # "stopped" /\ \A n \in Sent : n <= m

\* A queue holds posted messages in the order they were sent, none of them in
\* two queues, and none of them or of a later one has been taken.
MessagesPlaced ==
  /\ \A j \in DOMAIN handled : poster[handled[j][2]] \in {"posted", "done"}
  /\ \A t \in Tids : \A i \in DOMAIN queue[t] :
       /\ poster[queue[t][i]] \in {"posted", "done"}
       /\ \A k \in DOMAIN queue[t] : i < k => queue[t][i] < queue[t][k]
       /\ \A u \in Tids \ {t} : \A k \in DOMAIN queue[u] : queue[t][i] # queue[u][k]
       /\ \A j \in DOMAIN handled :
            /\ handled[j][2] # queue[t][i]
            /\ handled[j][1] = t => handled[j][2] < queue[t][i]

\* One worker at most has not been told to stop, and while there is one the
\* manager does not start another.
Alive(t) == worker[t] # "none" /\ t \notin dying
OneWorker ==
  /\ \A t \in dying : worker[t] \in {"running", "published", "listening"}
  /\ \A t \in Tids : Alive(t) => service["worker"] # "stopped" /\ \A u \in Tids : Alive(u) => u = t

IdShared ==
  \A t \in Tids : Alive(t) /\ worker[t] \in {"published", "listening"} /\ ~late => gTID = t

\* Without a stop, a worker that listened when a message was sent still does.
NothingMissed ==
  stops = 0 =>
    /\ dying = {} /\ ~late /\ lost \subseteq early \cup Unheard
    /\ \A m \in Msgs \ early :
         /\ poster[m] = "started" => \E t \in Tids : Listening(t)
         /\ poster[m] = "posting" => saw[m] \in Tids /\ Listening(saw[m])

IInv ==
  TypeOK /\ PostersInTurn /\ MessagesPlaced /\ InOrder /\ OneWorker /\ IdShared /\ NothingMissed

\* Every message that a service was started for is handled or lost in the end,
\* and the poster reports that its service is free for the next, unless its
\* control handler could not be registered (ServiceMain).
SentSettles ==
  \A m \in Msgs :
    poster[m] = "started" ~>
      \/ poster[m] = "done" /\ m \in lost \cup {h[2] : h \in Range(handled)}
      \/ poster[m] = "unregistered" /\ m \in lost
================================================================================
