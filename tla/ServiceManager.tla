----------------------------- MODULE ServiceManager -----------------------------
(***************************************************************************)
(* Clients of the service control manager: processes that use              *)
(* ServiceOperater (sl/ServiceOperater.cpp), and the driver installer      *)
(* (InstallDriver/main.cpp).  Each request to the manager is a step; a     *)
(* call makes several, and other clients' requests fall in between.        *)
(*                                                                         *)
(* The manager is external.  A service that has been marked for deletion   *)
(* is gone once it has stopped and no handle to it is open; until then it  *)
(* can be opened but neither started nor created again.  Any request may   *)
(* fail for reasons of its own.                                            *)
(***************************************************************************)
EXTENDS Naturals, FiniteSets

CONSTANTS
  Names, Drivers,         \* services, and those of them that are drivers
  Operators, Installers,  \* client processes
  MaxCalls, MaxHandles    \* bounds: calls of a client, handles it has of a service

VARIABLES
  exists, marked, disabled,  \* sets of services
  state,    \* of each service: "stopped", "starting", "running", "stopping"
  call,     \* of each client: its call, its service, its next request, the answer so far
  handles,  \* open handles of each client to each service
  calls,    \* how many calls each client has made
  leaks,    \* ghost: handles that start() has left open
  ran,      \* ghost: clients whose service has run since their call began
  again     \* ghost: clients whose service was started since they had stopped it

vars == <<exists, marked, disabled, state, call, handles, calls, leaks, ran, again>>

Clients == Operators \cup Installers

\* What follows each request of a call, if it succeeds.  close also stands
\* for the end of a call that leaves its handle open.  First the operators'.
Create == [create |-> "close"]
Remove == [open |-> "delete", delete |-> "close"]
StopOf == [open |-> "control", control |-> "close"]
ControlOf == StopOf
Start ==
  [open |-> "config", config |-> "start", change |-> "start", start |-> "poll", poll |-> "return"]
StartArgs ==
  [open |-> "config", config |-> "start", change |-> "start", start |-> "return"]
QueryConfigInfo == [open |-> "config", config |-> "close"]
ChangeStartType == [open |-> "change", change |-> "close"]

\* The installers'.
LoadNTDriver == [create |-> "start", start |-> "poll", poll |-> "close"]
StartSvr == [open |-> "start", start |-> "close"]
StopSvr == [open |-> "query", query |-> "control", control |-> "wait", wait |-> "close"]
DelSvr == [open |-> "control", control |-> "delete", delete |-> "close"]

Flow == [
  create |-> Create, remove |-> Remove, stop |-> StopOf, control |-> ControlOf,
  start |-> Start, startArgs |-> StartArgs, info |-> QueryConfigInfo, change |-> ChangeStartType,
  load |-> LoadNTDriver, startSvr |-> StartSvr, stopSvr |-> StopSvr, delSvr |-> DelSvr]

\* main does not call StartSvr(); another installer may.
Installing == {"load", "startSvr", "stopSvr", "delSvr"}
Calls(c) == IF c \in Installers THEN Installing \ {"delSvr"} ELSE DOMAIN Flow \ Installing

Init ==
  /\ exists \in {{}, Names} /\ marked = {} /\ disabled = {}
  /\ state = [n \in Names |-> "stopped"]
  /\ call = [c \in Clients |-> [op |-> "none", name |-> "none", at |-> "idle", rt |-> FALSE]]
  /\ handles = [c \in Clients |-> [n \in Names |-> 0]]
  /\ leaks = [c \in Clients |-> [n \in Names |-> 0]]
  /\ calls = [c \in Clients |-> 0]
  /\ ran = {} /\ again = {}

-----------------------------------------------------------------------------
(* The manager                                                             *)

\* hs are the handles after a step, and mk the marked services: those that
\* are marked, stopped and not open are gone.
Collect(hs, mk, st) ==
  LET gone == {n \in mk : st[n] = "stopped" /\ \A c \in Clients : hs[c][n] = 0} IN
  /\ handles' = hs /\ state' = st
  /\ marked' = mk \ gone /\ exists' = exists \ gone

Same == exists' = exists /\ marked' = marked /\ state' = state /\ handles' = handles

\* n runs: the clients that wait for it, and those that have stopped it.
Notice(n) ==
  /\ ran' = ran \cup {c \in Clients : call[c].name = n}
  /\ again' = again \cup {c \in Clients : call[c].name = n}

At(c, at) == call[c].at = at
Following(c) == Flow[call[c].op][call[c].at]
Goes(c, at, rt) == call' = [call EXCEPT ![c].at = at, ![c].rt = rt]
On(c) == call[c].name
Opened(c) == [handles EXCEPT ![c][On(c)] = @ + 1]
Unseen == UNCHANGED <<calls, leaks, ran, again>>

-----------------------------------------------------------------------------
(* Requests of a call                                                      *)

\* An installer is given the name of a driver.
Begin(c, op, n) ==
  /\ c \in Installers => n \in Drivers
  /\ At(c, "idle") /\ calls[c] < MaxCalls /\ handles[c][n] < MaxHandles
  /\ calls' = [calls EXCEPT ![c] = @ + 1]
  /\ call' = [call EXCEPT ![c] = [op |-> op, name |-> n, rt |-> FALSE,
                                  at |-> IF op \in {"create", "load"} THEN "create" ELSE "open"]]
  /\ ran' = IF state[n] \in {"running", "stopping"} THEN ran \cup {c} ELSE ran \ {c}
  /\ again' = again \ {c}
  /\ UNCHANGED <<exists, marked, disabled, state, handles, leaks>>

OpenService(c) ==
  /\ At(c, "open")
  /\ \/ On(c) \in exists /\ Collect(Opened(c), marked, state) /\ Goes(c, Following(c), FALSE)
     \/ Same /\ Goes(c, "idle", FALSE)
  /\ UNCHANGED disabled /\ Unseen

\* create() has no handle to a service that is there already, and is content;
\* LoadNTDriver() opens it.  Both give up one that is marked.
CreateService(c) ==
  /\ At(c, "create")
  /\ \/ /\ On(c) \notin exists
        /\ exists' = exists \cup {On(c)} /\ handles' = Opened(c)
        /\ Goes(c, Following(c), call[c].op = "create") /\ UNCHANGED <<marked, state>>
     \/ /\ On(c) \in exists \ marked
        /\ IF call[c].op = "create" THEN Same /\ Goes(c, "idle", TRUE)
           ELSE Collect(Opened(c), marked, state) /\ Goes(c, Following(c), FALSE)
     \/ Same /\ Goes(c, "idle", FALSE)
  /\ UNCHANGED disabled /\ Unseen

\* A driver's configuration counts as none.  start() enables what is disabled,
\* and gives up where it cannot.
QueryConfig(c) ==
  /\ At(c, "config") /\ Same
  /\ \/ /\ On(c) \notin Drivers
        /\ IF On(c) \in disabled /\ call[c].op # "info"
           THEN Goes(c, "change", FALSE) ELSE Goes(c, Following(c), call[c].op = "info")
     \/ Goes(c, "close", FALSE)
  /\ UNCHANGED disabled /\ Unseen

\* changeStartType(), of which start() asks only to enable.
ChangeServiceConfig(c) ==
  /\ At(c, "change") /\ Same
  /\ \/ /\ disabled' \in {disabled \ {On(c)}} \cup
                        (IF call[c].op = "change" THEN {disabled \cup {On(c)}} ELSE {})
        /\ Goes(c, Following(c), call[c].op = "change")
     \/ UNCHANGED disabled /\ Goes(c, "close", FALSE)
  /\ Unseen

\* The bug: the installer waits after any failure as it does after a success.
StartService_Bug(c) ==
  LET op == call[c].op  n == On(c) IN
  /\ At(c, "start")
  /\ \/ /\ n \in exists \ (marked \cup disabled) /\ state[n] = "stopped"
        /\ Collect(handles, marked,
                   [state EXCEPT ![n] = IF n \in Drivers THEN "running" ELSE "starting"])
        /\ IF n \in Drivers THEN Notice(n) ELSE UNCHANGED <<ran, again>>
        /\ Goes(c, Following(c), op # "start")
     \/ /\ Same
        /\ Goes(c, IF op \in Installing THEN Following(c) ELSE "return", op = "start")
        /\ UNCHANGED <<ran, again>>
  /\ UNCHANGED <<disabled, calls, leaks>>
\* A driver has run its entry when the request returns.  Of the failures
\* start() takes a service that runs for one, and all others for success.
StartService(c) ==
  LET op == call[c].op  n == On(c) IN
  /\ At(c, "start")
  /\ \/ /\ n \in exists \ (marked \cup disabled) /\ state[n] = "stopped"
        /\ Collect(handles, marked,
                   [state EXCEPT ![n] = IF n \in Drivers THEN "running" ELSE "starting"])
        /\ IF n \in Drivers THEN Notice(n) ELSE UNCHANGED <<ran, again>>
        /\ Goes(c, Following(c), op # "start")
     \/ /\ state[n] # "stopped" /\ Same
        /\ Goes(c, IF op \in Installing THEN "close" ELSE "return", op \in Installing)
        /\ UNCHANGED <<ran, again>>
     \/ /\ Same
        /\ Goes(c, IF op \in Installing THEN "close" ELSE "return", op = "start")
        /\ UNCHANGED <<ran, again>>
  /\ UNCHANGED <<disabled, calls, leaks>>

\* start() waits until the service runs, a service gives no hint to wait, or
\* a query fails; LoadNTDriver() answers the same whatever it has seen.
Poll(c) ==
  /\ At(c, "poll") /\ Same
  /\ \/ state[On(c)] = "running" /\ Goes(c, Following(c), TRUE)
     \/ Goes(c, Following(c), call[c].op = "load")
  /\ UNCHANGED disabled /\ Unseen

QueryStatus(c) ==
  /\ At(c, "query") /\ Same
  /\ \/ state[On(c)] = "stopped" /\ Goes(c, "close", TRUE) /\ again' = again \ {c}
     \/ state[On(c)] # "stopped" /\ Goes(c, "control", FALSE) /\ UNCHANGED again
     \/ Goes(c, "close", FALSE) /\ UNCHANGED again
  /\ UNCHANGED <<disabled, calls, leaks, ran>>

\* A control, to stop or of the caller's choice: a service takes its time, a
\* driver may refuse to unload.  stop() and control() answer false whatever
\* comes; DelSvr() goes on whatever comes; StopSvr() need not wait for what
\* has stopped at once.
ControlService(c) ==
  LET stopSvr == call[c].op = "stopSvr" IN
  /\ At(c, "control")
  /\ \/ /\ state[On(c)] = "running"
        /\ \E s \in {"stopped", "stopping"} :
             /\ Collect(handles, marked, [state EXCEPT ![On(c)] = s])
             /\ IF stopSvr /\ s = "stopped"
                THEN Goes(c, "close", TRUE) ELSE Goes(c, Following(c), FALSE)
     \/ Same /\ Goes(c, IF stopSvr THEN "close" ELSE Following(c), FALSE)
  /\ again' = IF stopSvr THEN again \ {c} ELSE again
  /\ UNCHANGED <<disabled, calls, leaks, ran>>

\* The bug: the wait ends without a look at the state.
Wait_Bug(c) ==
  /\ At(c, "wait") /\ Same
  /\ Goes(c, "close", TRUE)
  /\ UNCHANGED <<disabled, calls, leaks, ran, again>>
Wait(c) ==
  /\ At(c, "wait") /\ Same
  /\ \/ state[On(c)] = "stopped" /\ Goes(c, "close", TRUE) /\ again' = again \ {c}
     \/ Goes(c, "close", FALSE) /\ UNCHANGED again
  /\ UNCHANGED <<disabled, calls, leaks, ran>>

DeleteService(c) ==
  /\ At(c, "delete")
  /\ \/ /\ On(c) \notin marked
        /\ Collect(handles, marked \cup {On(c)}, state)
        /\ Goes(c, "close", TRUE)
     \/ Same /\ Goes(c, "close", FALSE)
  /\ UNCHANGED disabled /\ Unseen

\* The call returns; after StopSvr() the installer goes on with DelSvr().
Ends(c) ==
  IF call[c].op = "stopSvr" /\ call[c].rt
  THEN call' = [call EXCEPT ![c] = [@ EXCEPT !.op = "delSvr", !.at = "open", !.rt = FALSE]]
  ELSE Goes(c, "idle", call[c].rt)

CloseHandle_Bug(c) ==
  /\ At(c, "close") /\ Ends(c)
  /\ IF call[c].op = "delSvr" /\ ~call[c].rt
     THEN Same
     ELSE Collect([handles EXCEPT ![c][On(c)] = @ - 1], marked, state)
  /\ UNCHANGED disabled /\ Unseen
CloseHandle(c) ==
  /\ At(c, "close") /\ Ends(c)
  /\ Collect([handles EXCEPT ![c][On(c)] = @ - 1], marked, state)
  /\ UNCHANGED disabled /\ Unseen

\* start() leaves its handle open, but for its early failures.
ReturnOnly(c) ==
  /\ At(c, "return") /\ Ends(c) /\ Same
  /\ leaks' = [leaks EXCEPT ![c][On(c)] = @ + 1]
  /\ UNCHANGED <<disabled, calls, ran, again>>

-----------------------------------------------------------------------------
(* Services and processes                                                  *)

\* A service comes up, and ends, of itself or because it was told to.
Comes(n) ==
  /\ state[n] = "starting" /\ Notice(n)
  /\ Collect(handles, marked, [state EXCEPT ![n] = "running"])
  /\ UNCHANGED <<disabled, call, calls, leaks>>
Falls(n) ==
  /\ state[n] = "stopping" \/ (state[n] # "stopped" /\ n \notin Drivers)
  /\ Collect(handles, marked, [state EXCEPT ![n] = "stopped"])
  /\ UNCHANGED <<disabled, call>> /\ Unseen

Disable(n) ==
  /\ n \in exists \ disabled /\ disabled' = disabled \cup {n}
  /\ Same /\ UNCHANGED call /\ Unseen

ProcessEnds(c) ==
  /\ At(c, "idle") /\ calls[c] > 0 /\ \E n \in Names : handles[c][n] > 0
  /\ Collect([handles EXCEPT ![c] = [n \in Names |-> 0]], marked, state)
  /\ leaks' = [leaks EXCEPT ![c] = [n \in Names |-> 0]]
  /\ UNCHANGED <<disabled, call, calls, ran, again>>

Next ==
  \/ \E c \in Clients :
       \/ \E op \in Calls(c), n \in Names : Begin(c, op, n)
       \/ OpenService(c) \/ CreateService(c) \/ QueryConfig(c) \/ ChangeServiceConfig(c)
       \/ StartService(c) \/ Poll(c) \/ QueryStatus(c) \/ ControlService(c) \/ Wait(c)
       \/ DeleteService(c) \/ CloseHandle(c) \/ ReturnOnly(c) \/ ProcessEnds(c)
  \/ \E n \in Names : Comes(n) \/ Falls(n) \/ Disable(n)

Spec == Init /\ [][Next]_vars

-----------------------------------------------------------------------------
(* Properties                                                              *)

Idle == \A c \in Clients : At(c, "idle")
Answered(c, op) == At(c, "idle") /\ call[c].op = op /\ call[c].rt

\* Every call closes what it has opened, but for start(): when all calls have
\* returned, a service that was removed and has stopped is gone, unless a
\* process that has called start() lives on (ServiceOperater, InstallDriver).
RemovedGoes ==
  /\ Idle => handles = leaks
  /\ Idle => \A n \in marked : state[n] = "stopped" => \E c \in Operators : leaks[c][n] > 0

\* The installer reports a driver installed or started only if it was loaded at
\* some time since the call began (StartSvr; LoadNTDriver, whose waiting loop
\* decides nothing).
InstalledRan ==
  \A c \in Installers : Answered(c, "load") \/ Answered(c, "startSvr") => c \in ran

\* When the installer reports a driver removed, the driver does not run, unless
\* somebody has started it since this call had seen it stopped (StopSvr, DelSvr).
UninstalledStopped ==
  \A c \in Installers :
    Answered(c, "delSvr") /\ c \notin again => state[On(c)] = "stopped"

\* The parts of the inductive invariant of ProgramsProofs.

Points == {"idle", "create", "open", "config", "change", "start", "poll", "query",
           "control", "wait", "delete", "close", "return"}

TypeOK ==
  /\ exists \subseteq Names /\ marked \subseteq Names /\ disabled \subseteq Names
  /\ state \in [Names -> {"stopped", "starting", "running", "stopping"}]
  /\ call \in [Clients -> [op : DOMAIN Flow \cup {"none"}, name : Names \cup {"none"},
                           at : Points, rt : BOOLEAN]]
  /\ handles \in [Clients -> [Names -> Nat]] /\ leaks \in [Clients -> [Names -> Nat]]
  /\ calls \in [Clients -> Nat] /\ ran \subseteq Clients /\ again \subseteq Clients

\* A call is at a request that its flow has, and an installer's is an installer's.
OnTheWay ==
  \A c \in Clients :
    /\ ~At(c, "idle") =>
         /\ call[c].op \in DOMAIN Flow /\ On(c) \in Names
         /\ call[c].at \in DOMAIN Flow[call[c].op] \cup {"close", "return"}
    /\ At(c, "return") => call[c].op \in {"start", "startArgs"}
    /\ c \in Installers /\ call[c].op # "none" => call[c].op \in Installing /\ On(c) \in Drivers

\* A call that has come past its first request holds one handle; the others of
\* its process are those that start() has left.
HandlesRight ==
  \A c \in Clients, n \in Names :
    /\ handles[c][n] = leaks[c][n] + (IF On(c) = n /\ call[c].at \notin {"idle", "open", "create"}
                                      THEN 1 ELSE 0)
    /\ leaks[c][n] > 0 => c \in Operators

MarkedHeld == \A n \in marked : state[n] = "stopped" => \E c \in Clients : handles[c][n] > 0

\* Whoever calls for a service that runs has seen it run, and a driver that was
\* stopped stays so unless somebody starts it.
StatesSeen ==
  /\ \A n \in Drivers : state[n] # "starting"
  /\ \A c \in Clients : On(c) \in Names /\ state[On(c)] \in {"running", "stopping"} => c \in ran
  /\ \A c \in Installers :
       /\ call[c].op \in {"load", "startSvr"}
            /\ (At(c, "poll") \/ (call[c].at \in {"close", "idle"} /\ call[c].rt)) => c \in ran
       /\ call[c].op = "delSvr" \/ (call[c].op = "stopSvr" /\ At(c, "close") /\ call[c].rt) =>
            c \in again \/ state[On(c)] = "stopped"

IInv == TypeOK /\ OnTheWay /\ HandlesRight /\ MarkedHeld /\ StatesSeen
================================================================================
