------------------------------ MODULE ProgramsProofs ------------------------------
(***************************************************************************)
(* Proofs about the programs around skl, each in its own unit of Programs: *)
(* for any services and clients, any objects on the registry, any rounds   *)
(* and any tasks.                                                          *)
(***************************************************************************)
EXTENDS Programs, FiniteSetTheorems, SequenceTheorems, WellFoundedInduction, TLAPS

--------------------------------------------------------------------------------
(* The drivers.                                                            *)

LEMMA DriverCases ==
  ASSUME [D!Next]_drivers
  PROVE  \/ D!RunTimeInit \/ D!RunTimeUnInit
         \/ D!FsEntry \/ D!FsUnregister \/ D!CallBack \/ D!CallBackEnds
         \/ D!UnloadBegins \/ D!Unload
         \/ D!Return \/ D!MainRound \/ D!ThreadRound
         \/ \E t \in D!Threads \ D!Workers : D!Create(t) \/ D!GoOn(t)
         \/ \E t \in D!Threads : D!Join(t) \/ D!ThreadProc(t) \/ D!ThreadEnds(t)
         \/ \E t \in D!Workers : D!MakeWorker(t) \/ D!Push(t) \/ D!ClearStop(t) \/ D!RunTask(t)
         \/ UNCHANGED drivers
BY DEF D!Next

LEMMA DriverInit == D!Init => D!IInv
<1> SUFFICES ASSUME D!Init PROVE D!IInv
  OBVIOUS
<1>1. D!TypeOK
  BY DEF D!Init, D!TypeOK, D!Stage, D!Points, D!Threads, D!Workers
<1>2. D!ImageLasts /\ D!CallsBack
  BY DEF D!Init, D!ImageLasts, D!CallsBack, D!LeftBehind, D!Stage, D!Threads
<1>3. D!ThreadsInTurn /\ D!OwnersRight /\ ~wild
  BY DEF D!Init, D!ThreadsInTurn, D!OwnersRight, D!Alive, D!Stage, D!Threads, D!Workers
<1>4. QED
  BY <1>1, <1>2, <1>3 DEF D!IInv

LEMMA DriverNames ==
  /\ {"a", "b", "c", "w", "i"} \subseteq D!Threads /\ D!Workers \subseteq D!Threads
  /\ {"w", "i"} \subseteq D!Workers
  /\ \A t \in D!Threads \cup {"entry", "fs", "none"}, p \in D!Points :
       D!Stage(t, p) \in (D!Threads \cup {"entry", "fs", "none"}) \X D!Points
  /\ {"create", "goOn", "lock", "push", "join", "init", "return", "uninit", "unregister", "none"}
       \subseteq D!Points
  /\ \A t \in D!Threads :
       D!After[t] \in (D!Threads \cup {"entry", "fs", "none"}) \X {"create", "return"}
BY DEF D!Threads, D!Workers, D!Points, D!Stage, D!After

LEMMA DriverTypeStep == D!TypeOK /\ [D!Next]_drivers => D!TypeOK'
<1> SUFFICES ASSUME D!TypeOK, [D!Next]_drivers PROVE D!TypeOK'
  OBVIOUS
<1> USE DriverNames DEF D!TypeOK, D!fs, D!workers, D!mutex, D!load, D!Goes, D!Leaves, D!Touch
<1>1. CASE D!RunTimeInit \/ D!RunTimeUnInit
  <2>1. /\ image' \in {"out", "entry", "loaded", "unloading", "crashed"}
        /\ runtime' \in {"null", "live", "freed"}
        /\ at' \in (D!Threads \cup {"entry", "fs", "none"}) \X D!Points
    BY <1>1 DEF D!RunTimeInit, D!RunTimeUnInit, D!DriverEntry, D!FsDriverEntry
  <2>2. UNCHANGED <<kind, thread, owners, queued, hand, stopped, lock, rounds,
                    instance, filtering, inflight, orphans, wild>>
    BY <1>1 DEF D!RunTimeInit, D!RunTimeUnInit
  <2>3. QED
    BY <2>1, <2>2
<1>2. CASE D!FsEntry \/ D!FsUnregister
  <2>1. instance' \in BOOLEAN /\ filtering' \in BOOLEAN
    BY <1>2 DEF D!FsEntry, D!FsUnregister
  <2>2. at' \in (D!Threads \cup {"entry", "fs", "none"}) \X D!Points
    BY <1>2 DEF D!FsEntry, D!FsUnregister
  <2>3. QED
    BY <1>2, <2>1, <2>2 DEF D!FsEntry, D!FsUnregister
<1>3. CASE D!CallBack \/ D!CallBackEnds
  <2>1. wild' \in BOOLEAN
    BY <1>3 DEF D!CallBack, D!CallBackEnds
  <2>2. QED
    BY <1>3, <2>1 DEF D!CallBack, D!CallBackEnds
<1>4. CASE D!UnloadBegins \/ D!Unload
  BY <1>4 DEF D!UnloadBegins, D!Unload
<1>5. CASE D!Return
  BY <1>5 DEF D!Return
<1>6. CASE D!MainRound
  BY <1>6 DEF D!MainRound, D!auto_locker, D!Lock, D!Unlock
<1>7. CASE D!ThreadRound
  BY <1>7 DEF D!ThreadRound, D!auto_locker, D!Lock, D!Unlock
<1>8. ASSUME NEW t \in D!Threads \ D!Workers, D!Create(t) PROVE D!TypeOK'
  <2>1. PICK made \in {"none", "thread", "orphan"}, who \in SUBSET {"main", "temp", "copy", "thread"} :
          /\ thread' = [thread EXCEPT ![t] = IF made = "none" THEN @ ELSE "ready"]
          /\ orphans' = IF made = "orphan" THEN orphans \cup {t} ELSE orphans
          /\ owners' = [owners EXCEPT ![t] = who]
    BY <1>8 DEF D!Create
  <2>2. QED
    BY <1>8, <2>1 DEF D!Create
<1>9. ASSUME NEW t \in D!Threads \ D!Workers, D!GoOn(t) PROVE D!TypeOK'
  BY <1>9 DEF D!GoOn
<1>10. ASSUME NEW t \in D!Threads, D!Join(t) PROVE D!TypeOK'
  BY <1>10 DEF D!Join
<1>11. ASSUME NEW t \in D!Threads, D!ThreadProc(t) PROVE D!TypeOK'
  BY <1>11 DEF D!ThreadProc
<1>12. ASSUME NEW t \in D!Threads, D!ThreadEnds(t) PROVE D!TypeOK'
  BY <1>12 DEF D!ThreadEnds
<1>13. ASSUME NEW t \in D!Workers, D!MakeWorker(t) PROVE D!TypeOK'
  <2>1. owners' \in [D!Threads -> SUBSET {"main", "temp", "copy", "thread"}]
    BY <1>13 DEF D!MakeWorker
  <2>2. thread' \in [D!Threads -> {"none", "ready", "running", "over"}]
    BY <1>13 DEF D!MakeWorker
  <2>3. image' \in {"out", "entry", "loaded", "unloading", "crashed"}
        /\ at' \in (D!Threads \cup {"entry", "fs", "none"}) \X D!Points
    BY <1>13 DEF D!MakeWorker
  <2>4. QED
    BY <1>13, <2>1, <2>2, <2>3 DEF D!MakeWorker
<1>14. ASSUME NEW t \in D!Workers, D!Push(t) PROVE D!TypeOK'
  BY <1>14 DEF D!Push
<1>15. ASSUME NEW t \in D!Workers, D!ClearStop(t) PROVE D!TypeOK'
  BY <1>15 DEF D!ClearStop
<1>16. ASSUME NEW t \in D!Workers, D!RunTask(t) PROVE D!TypeOK'
  BY <1>16 DEF D!RunTask
<1>17. CASE UNCHANGED drivers
  BY <1>17 DEF drivers
<1>18. QED
  BY <1>1, <1>2, <1>3, <1>4, <1>5, <1>6, <1>7, <1>8, <1>9, <1>10, <1>11, <1>12,
     <1>13, <1>14, <1>15, <1>16, <1>17, DriverCases

\* What the steps of main and of the threads do to the image: nothing, unless a
\* worker cannot be made; main goes on from stage to stage.
LEMMA DriverMoves ==
  ASSUME D!TypeOK, [D!Next]_drivers
  PROVE  \/ D!RunTimeInit \/ D!RunTimeUnInit
         \/ D!FsEntry \/ D!FsUnregister \/ D!CallBack \/ D!CallBackEnds
         \/ D!UnloadBegins \/ D!Unload
         \/ /\ UNCHANGED <<kind, left, runtime, instance, filtering, inflight>>
            /\ \/ at' = at /\ UNCHANGED image
               \/ /\ at[1] \in D!Threads /\ UNCHANGED image
                  /\ at'[1] \in D!Threads \/ at' = D!Stage("entry", "return")
               \/ at[1] \in D!Threads \cup {"entry"} /\ at[2] # "init" /\ UNCHANGED image
                    /\ at' = D!Stage("entry", "uninit")
               \/ at[1] \in D!Threads /\ at' = D!Stage("none", "none") /\ image' = "crashed"
<1> USE DEF D!fs, D!load, D!Goes, D!Stage
<1> DEFINE Same == UNCHANGED <<kind, left, runtime, instance, filtering, inflight>>
           Stays == at' = at /\ UNCHANGED image
           Goes == /\ at[1] \in D!Threads /\ UNCHANGED image
                   /\ at'[1] \in D!Threads \/ at' = D!Stage("entry", "return")
           Crashes == at[1] \in D!Threads /\ at' = D!Stage("none", "none") /\ image' = "crashed"
<1>1. \A t \in D!Threads :
        D!After[t] = D!Stage("entry", "return") \/ D!After[t][1] \in D!Threads
  BY DEF D!After, D!Threads
<1>2. CASE D!Return
  BY <1>2 DEF D!Return, D!Threads
<1>3. CASE D!MainRound
  <2>1. Same /\ UNCHANGED image
    BY <1>3 DEF D!MainRound
  <2>2. at' = at \/ (at[1] = "a" /\ at' = D!Stage("a", "join"))
    BY <1>3 DEF D!MainRound
  <2>3. QED
    BY <2>1, <2>2 DEF D!Threads
<1>4. ASSUME NEW t \in D!Threads \ D!Workers, D!Create(t) \/ D!GoOn(t) PROVE Same /\ Goes
  BY <1>4 DEF D!Create, D!GoOn
<1>5. ASSUME NEW t \in D!Threads, D!Join(t) PROVE Same /\ Goes
  <2>1. at[1] = t /\ at[2] = "join" /\ at' = D!After[t] /\ UNCHANGED image /\ Same
    BY <1>5 DEF D!Join
  <2>2. QED
    BY <1>1, <2>1
<1>6. ASSUME NEW t \in D!Threads, D!ThreadProc(t) \/ D!ThreadEnds(t) PROVE Same /\ Stays
  BY <1>6 DEF D!ThreadProc, D!ThreadEnds
<1>7. ASSUME NEW t \in D!Workers, D!MakeWorker(t) PROVE Same /\ (Goes \/ Crashes)
  <2>1. at[1] = t /\ at[2] = "create" /\ Same /\ t \in D!Threads
    BY <1>7 DEF D!MakeWorker, D!Workers, D!Threads
  <2>2. CASE at' = D!After[t] /\ UNCHANGED image
    BY <1>1, <2>1, <2>2
  <2>3. CASE at' = D!Stage("none", "none") /\ image' = "crashed"
    BY <2>1, <2>3
  <2>4. CASE at' = D!Stage(t, "push") /\ UNCHANGED image
    BY <2>1, <2>4
  <2>5. QED
    BY <1>7, <2>2, <2>3, <2>4 DEF D!MakeWorker
<1>8. ASSUME NEW t \in D!Workers, D!Push(t) \/ D!RunTask(t) PROVE Same /\ Stays
  BY <1>8 DEF D!Push, D!RunTask
<1>9. ASSUME NEW t \in D!Workers, D!ClearStop(t) PROVE Same /\ Goes
  BY <1>9 DEF D!ClearStop, D!Workers, D!Threads
<1>10. CASE D!ThreadRound
  BY <1>10 DEF D!ThreadRound
<1>11. CASE UNCHANGED drivers
  BY <1>11 DEF drivers
<1>12. QED
  BY <1>2, <1>3, <1>4, <1>5, <1>6, <1>7, <1>8, <1>9, <1>10, <1>11, DriverCases

LEMMA ImageStep ==
  D!TypeOK /\ D!ImageLasts /\ D!CallsBack /\ [D!Next]_drivers => D!ImageLasts' /\ D!CallsBack'
<1> SUFFICES ASSUME D!TypeOK, D!ImageLasts, D!CallsBack, [D!Next]_drivers
             PROVE  D!ImageLasts' /\ D!CallsBack'
  OBVIOUS
<1> USE DEF D!TypeOK, D!fs, D!load, D!Goes, D!Stage, D!Leaves,
            D!ImageLasts, D!CallsBack, D!LeftBehind, D!Threads
<1>1. CASE D!RunTimeInit
  BY <1>1 DEF D!RunTimeInit, D!DriverEntry, D!FsDriverEntry
<1>2. CASE D!RunTimeUnInit
  BY <1>2 DEF D!RunTimeUnInit
<1>3. CASE D!FsEntry
  BY <1>3 DEF D!FsEntry
<1>4. CASE D!FsUnregister
  BY <1>4 DEF D!FsUnregister
<1>5. CASE D!CallBack \/ D!CallBackEnds
  BY <1>5 DEF D!CallBack, D!CallBackEnds
<1>6. CASE D!UnloadBegins
  BY <1>6 DEF D!UnloadBegins
<1>7. CASE D!Unload
  BY <1>7 DEF D!Unload
<1>8. CASE UNCHANGED <<kind, left, runtime, instance, filtering, inflight, at, image>>
  BY <1>8
<1>9. CASE /\ UNCHANGED <<kind, left, runtime, instance, filtering, inflight, image>>
           /\ at[1] \in D!Threads
           /\ at'[1] \in D!Threads \/ at' = D!Stage("entry", "return")
  BY <1>9
<1>10. CASE /\ UNCHANGED <<kind, left, runtime, instance, filtering, inflight, image>>
            /\ at[1] \in D!Threads \cup {"entry"} /\ at[2] # "init"
            /\ at' = D!Stage("entry", "uninit")
  BY <1>10
<1>11. CASE /\ UNCHANGED <<kind, left, runtime, instance, filtering, inflight>>
            /\ at[1] \in D!Threads /\ at' = D!Stage("none", "none") /\ image' = "crashed"
  BY <1>11
<1>12. QED
  BY <1>1, <1>2, <1>3, <1>4, <1>5, <1>6, <1>7, <1>8, <1>9, <1>10, <1>11, DriverMoves

\* While no thread is an orphan, main waits for each before it goes on.
LEMMA DriverThreadsStep ==
  ASSUME D!TypeOK, D!ImageLasts, D!CallsBack, ~wild, D!ThreadsInTurn, D!OwnersRight,
         [D!Next]_drivers, orphans' = {}
  PROVE  ~wild' /\ D!ThreadsInTurn' /\ D!OwnersRight'
<1> USE DEF D!TypeOK, D!fs, D!load, D!workers, D!Goes, D!Stage, D!Leaves, D!Alive, D!Threads,
            D!Workers
<1> DEFINE Right == ~wild' /\ D!ThreadsInTurn' /\ D!OwnersRight'
<1>1. CASE /\ UNCHANGED <<thread, owners, queued, hand, wild>>
           /\ at[1] \notin D!Threads
           /\ at'[1] \notin D!Threads \/ at' = D!Stage("a", "create")
  BY <1>1 DEF D!ThreadsInTurn, D!OwnersRight
<1>2. CASE D!RunTimeInit \/ D!RunTimeUnInit \/ D!FsEntry \/ D!FsUnregister
  <2>1. /\ UNCHANGED <<thread, owners, queued, hand, wild>>
        /\ at[1] \notin D!Threads
        /\ at'[1] \notin D!Threads \/ at' = D!Stage("a", "create")
    BY <1>2 DEF D!RunTimeInit, D!DriverEntry, D!FsDriverEntry, D!RunTimeUnInit, D!FsEntry,
                D!FsUnregister
  <2>2. QED
    BY <1>1, <2>1
<1>3. CASE D!CallBack \/ D!CallBackEnds \/ D!UnloadBegins \/ D!Unload
  <2>1. UNCHANGED <<thread, owners, queued, hand, at>>
    BY <1>3 DEF D!CallBack, D!CallBackEnds, D!UnloadBegins, D!Unload
  <2>2. ~wild'
    <3>1. D!CallBackEnds => image # "out" /\ instance
      BY DEF D!CallBackEnds, D!CallsBack, D!ImageLasts
    <3>2. QED
      BY <1>3, <3>1 DEF D!CallBack, D!CallBackEnds, D!UnloadBegins, D!Unload
  <2>3. QED
    BY <2>1, <2>2 DEF D!ThreadsInTurn, D!OwnersRight
<1>4. CASE UNCHANGED <<thread, owners, queued, hand, at, wild>>
  BY <1>4 DEF D!ThreadsInTurn, D!OwnersRight
<1>5. CASE D!MainRound
  <2>1. UNCHANGED <<thread, owners, queued, hand, wild>>
    BY <1>5 DEF D!MainRound
  <2>2. at = D!Stage("a", "lock") /\ (at' = at \/ at' = D!Stage("a", "join"))
    BY <1>5 DEF D!MainRound
  <2>3. QED
    BY <2>1, <2>2 DEF D!ThreadsInTurn, D!OwnersRight
<1>6. CASE D!Return
  <2>1. /\ UNCHANGED <<thread, queued, hand, wild>> /\ at' = D!Stage("entry", "uninit")
        /\ owners' = [t \in D!Threads |-> owners[t] \ {"main", "copy"}]
        /\ at \in {D!Stage("a", "create"), D!Stage("entry", "return")}
    BY <1>6 DEF D!Return
  <2>2. D!Alive = {}
    BY <2>1 DEF D!ThreadsInTurn
  <2>3. QED
    BY <2>1, <2>2 DEF D!ThreadsInTurn, D!OwnersRight
<1>7. CASE D!ThreadRound
  <2>1. UNCHANGED <<thread, owners, queued, hand, at>> /\ (~wild' \/ runtime # "live")
    BY <1>7 DEF D!ThreadRound, D!Touch
  <2>2. runtime = "live"
    BY <1>7 DEF D!ThreadRound, D!ThreadsInTurn, D!ImageLasts
  <2>3. QED
    BY <2>1, <2>2 DEF D!ThreadsInTurn, D!OwnersRight
<1>8. ASSUME NEW t \in D!Threads \ D!Workers, D!Create(t) PROVE Right
  <2>1. D!Alive = {}
    BY <1>8 DEF D!Create, D!ThreadsInTurn
  <2>2. /\ at = D!Stage(t, "create") /\ at' = D!Stage(t, "goOn") /\ wild' = wild
        /\ UNCHANGED <<queued, hand>>
    BY <1>8 DEF D!Create
  <2>3. PICK made \in {"none", "thread"} :
          /\ thread' = [thread EXCEPT ![t] = IF made = "none" THEN @ ELSE "ready"]
          /\ owners' = [owners EXCEPT ![t] =
               CASE t = "a" -> {"main", "temp"} \cup (IF made = "none" THEN {} ELSE {"thread"})
                 [] t = "b" -> {"main", "copy"}
                 [] OTHER -> {"main"}]
    BY <1>8 DEF D!Create
  <2>4. D!ThreadsInTurn'
    BY <2>1, <2>2, <2>3 DEF D!ThreadsInTurn
  <2>5. hand = {} /\ queued["w"] = 0 /\ \A u \in D!Threads : "thread" \notin owners[u]
    BY <2>1, <2>2 DEF D!OwnersRight
  <2>6. D!OwnersRight'
    BY <2>1, <2>2, <2>3, <2>5 DEF D!OwnersRight
  <2>7. QED
    BY <2>2, <2>4, <2>6
<1>9. ASSUME NEW t \in D!Threads \ D!Workers, D!GoOn(t) PROVE Right
  BY <1>9 DEF D!GoOn, D!ThreadsInTurn, D!OwnersRight
<1>10. ASSUME NEW t \in D!Threads, D!Join(t) PROVE Right
  <2>1. /\ at = D!Stage(t, "join") /\ at' = D!After[t] /\ wild' = wild
        /\ UNCHANGED <<thread, queued, hand>> /\ thread[t] \in {"none", "over"}
        /\ owners' = IF t = "c" THEN [owners EXCEPT !["b"] = @ \ {"main", "copy"}] ELSE owners
    BY <1>10 DEF D!Join
  <2>2. D!Alive = {}
    BY <2>1 DEF D!ThreadsInTurn
  <2>3. queued["w"] = 0
    BY <2>1 DEF D!OwnersRight
  <2>4. D!ThreadsInTurn' /\ ~wild'
    BY <2>1, <2>2 DEF D!ThreadsInTurn
  <2>5. D!OwnersRight'
    BY <2>1, <2>2, <2>3 DEF D!OwnersRight, D!After
  <2>6. QED
    BY <2>4, <2>5
<1>11. ASSUME NEW t \in D!Threads, D!ThreadProc(t) PROVE Right
  <2>1. at[1] = t /\ at[2] # "create" /\ runtime = "live"
    BY <1>11 DEF D!ThreadProc, D!ThreadsInTurn, D!ImageLasts
  <2>2. t = "b" => "main" \in owners[t]
    BY <2>1 DEF D!OwnersRight
  <2>3. ~wild'
    BY <1>11, <2>1, <2>2 DEF D!ThreadProc, D!Touch
  <2>4. D!ThreadsInTurn' /\ D!OwnersRight'
    BY <1>11, <2>1 DEF D!ThreadProc, D!ThreadsInTurn, D!OwnersRight
  <2>5. QED
    BY <2>3, <2>4
<1>12. ASSUME NEW t \in D!Threads, D!ThreadEnds(t) PROVE Right
  <2>1. at[1] = t /\ at[2] # "create" /\ runtime = "live"
    BY <1>12 DEF D!ThreadEnds, D!ThreadsInTurn, D!ImageLasts
  <2>2. ~wild'
    BY <1>12, <2>1 DEF D!ThreadEnds, D!Touch
  <2>3. D!ThreadsInTurn' /\ D!OwnersRight'
    BY <1>12, <2>1 DEF D!ThreadEnds, D!ThreadsInTurn, D!OwnersRight
  <2>4. QED
    BY <2>2, <2>3
<1>13. ASSUME NEW t \in D!Workers, D!MakeWorker(t) PROVE Right
  <2>1. /\ at = D!Stage(t, "create") /\ wild' = wild /\ UNCHANGED <<queued, hand>>
        /\ owners' = [owners EXCEPT ![t] = {"main"}]
        /\ \/ (at' = D!After[t] \/ at' = D!Stage("none", "none")) /\ thread' = thread
           \/ at' = D!Stage(t, "push") /\ thread' = [thread EXCEPT ![t] = "ready"]
    BY <1>13 DEF D!MakeWorker
  <2>2. D!Alive = {}
    BY <2>1 DEF D!ThreadsInTurn
  <2>3. hand = {} /\ queued["w"] = 0 /\ \A u \in D!Threads : "thread" \notin owners[u]
    BY <2>1, <2>2 DEF D!OwnersRight
  <2>4. D!ThreadsInTurn' /\ ~wild'
    BY <2>1, <2>2 DEF D!ThreadsInTurn
  <2>5. D!OwnersRight'
    BY <2>1, <2>2, <2>3 DEF D!OwnersRight, D!After
  <2>6. QED
    BY <2>4, <2>5
<1>14. ASSUME NEW t \in D!Workers, D!Push(t) PROVE Right
  BY <1>14 DEF D!Push, D!ThreadsInTurn, D!OwnersRight
<1>15. ASSUME NEW t \in D!Workers, D!ClearStop(t) PROVE Right
  BY <1>15 DEF D!ClearStop, D!ThreadsInTurn, D!OwnersRight
<1>16. ASSUME NEW t \in D!Workers, D!RunTask(t) PROVE Right
  <2>1. runtime = "live"
    BY <1>16 DEF D!RunTask, D!ThreadsInTurn, D!ImageLasts
  <2>2. ~wild'
    BY <1>16, <2>1 DEF D!RunTask, D!Touch
  <2>3. D!ThreadsInTurn' /\ D!OwnersRight'
    BY <1>16 DEF D!RunTask, D!ThreadsInTurn, D!OwnersRight
  <2>4. QED
    BY <2>2, <2>3
<1>17. CASE UNCHANGED drivers
  BY <1>4, <1>17 DEF drivers
<1>18. QED
  BY <1>2, <1>3, <1>5, <1>6, <1>7, <1>8, <1>9, <1>10, <1>11, <1>12, <1>13, <1>14,
     <1>15, <1>16, <1>17, DriverCases

\* An orphan stays one.
LEMMA OrphansStay == D!TypeOK /\ [D!Next]_drivers => orphans \subseteq orphans'
<1> SUFFICES ASSUME [D!Next]_drivers PROVE orphans \subseteq orphans'
  OBVIOUS
<1>1. ASSUME NEW t \in D!Threads \ D!Workers, D!Create(t) PROVE orphans \subseteq orphans'
  BY <1>1 DEF D!Create
<1>2. ASSUME ~\E t \in D!Threads \ D!Workers : D!Create(t) PROVE orphans' = orphans
  BY <1>2, DriverCases DEF D!RunTimeInit, D!RunTimeUnInit, D!FsEntry, D!FsUnregister,
    D!CallBack, D!CallBackEnds, D!UnloadBegins, D!Unload, D!Return, D!MainRound,
    D!ThreadRound, D!GoOn, D!Join, D!ThreadProc, D!ThreadEnds, D!MakeWorker, D!Push,
    D!ClearStop, D!RunTask, drivers
<1>3. QED
  BY <1>1, <1>2

LEMMA DriverStep == D!IInv /\ [D!Next]_drivers => D!IInv'
<1> SUFFICES ASSUME D!IInv, [D!Next]_drivers PROVE D!IInv'
  OBVIOUS
<1>1. D!TypeOK /\ D!ImageLasts /\ D!CallsBack
  BY DEF D!IInv
<1>2. D!TypeOK' /\ D!ImageLasts' /\ D!CallsBack'
  BY <1>1, DriverTypeStep, ImageStep
<1>3. ASSUME orphans' = {} PROVE ~wild' /\ D!ThreadsInTurn' /\ D!OwnersRight'
  <2>1. orphans = {}
    BY <1>1, <1>3, OrphansStay
  <2>2. QED
    BY <1>1, <1>3, <2>1, DriverThreadsStep DEF D!IInv
<1>4. QED
  BY <1>2, <1>3 DEF D!IInv

\* A step of the programs is one of a unit, or leaves the unit alone.
LEMMA UnitSteps ==
  ASSUME [Next]_<<unit, services, registry, drivers>>
  PROVE  [S!Next]_services /\ [R!Next]_registry /\ [D!Next]_drivers /\ unit' = unit
BY DEF Next

LEMMA SmallCounts ==
  ASSUME NEW a, NEW b, a # b
  PROVE  Cardinality({a}) = 1 /\ Cardinality({a, b}) = 2
<1>1. IsFiniteSet({a}) /\ Cardinality({a}) = 1
  BY FS_Singleton
<1>2. Cardinality({a} \cup {b}) = 2
  BY <1>1, FS_AddElement
<1>3. {a} \cup {b} = {a, b}
  OBVIOUS
<1>4. QED
  BY <1>1, <1>2, <1>3

\* Without tasks the holders of an object are its owners.
LEMMA CountIs ==
  ASSUME NEW t, t \notin hand, t \in D!Workers => queued[t] = 0
  PROVE  Cardinality(owners[t]) \in Nat => D!Count(t) = Cardinality(owners[t])
<1>1. /\ (IF t \in D!Workers THEN queued[t] ELSE 0) = 0
      /\ (IF t \in hand THEN 1 ELSE 0) = 0
  OBVIOUS
<1>2. Cardinality(owners[t]) \in Nat => Cardinality(owners[t]) + 0 + 0 = Cardinality(owners[t])
  OBVIOUS
<1>3. QED
  BY <1>1, <1>2 DEF D!Count, D!Cardinality, Cardinality

LEMMA DriverCounts == D!IInv => D!NothingOutlives
<1> SUFFICES ASSUME D!IInv, orphans = {}
             PROVE  /\ ~wild
                    /\ image = "out" \/ runtime = "freed" => D!Alive = {} /\ inflight = 0
                    /\ at = D!Stage("b", "create") => D!Count("a") = 1
                    /\ at = D!Stage("c", "create") => D!Count("b") = 2
                    /\ at = D!Stage("i", "create") => D!Count("w") = 1
  BY DEF D!NothingOutlives
<1> USE DEF D!IInv, D!TypeOK, D!Stage, D!Threads, D!Workers
<1>1. ~wild
  OBVIOUS
<1>2. ASSUME image = "out" \/ runtime = "freed" PROVE D!Alive = {} /\ inflight = 0
  <2>1. at[1] \notin D!Threads
    BY <1>2 DEF D!ImageLasts
  <2>2. D!Alive = {}
    BY <2>1 DEF D!ThreadsInTurn, D!Alive
  <2>3. ~filtering
    BY <1>2 DEF D!CallsBack, D!ImageLasts
  <2>4. QED
    BY <2>2, <2>3 DEF D!CallsBack
<1>3. Cardinality({"main"}) = 1 /\ Cardinality({"main", "copy"}) = 2
  BY SmallCounts, "main" # "copy"
<1>4. ASSUME at = D!Stage("b", "create") PROVE D!Count("a") = 1
  <2>1. owners["a"] = {"main"} /\ "a" \notin hand
    BY <1>4 DEF D!OwnersRight
  <2>2. QED
    BY <1>3, <2>1, CountIs
<1>5. ASSUME at = D!Stage("c", "create") PROVE D!Count("b") = 2
  <2>1. owners["b"] = {"main", "copy"} /\ "b" \notin hand
    BY <1>5 DEF D!OwnersRight
  <2>2. QED
    BY <1>3, <2>1, CountIs
<1>6. ASSUME at = D!Stage("i", "create") PROVE D!Count("w") = 1
  <2>1. owners["w"] = {"main"} /\ queued["w"] = 0
    BY <1>6 DEF D!OwnersRight
  <2>2. "w" \notin hand
    BY <1>6 DEF D!OwnersRight, D!ThreadsInTurn, D!Alive
  <2>3. QED
    BY <1>3, <2>1, <2>2, CountIs
<1>7. QED
  BY <1>1, <1>2, <1>4, <1>5, <1>6

LEMMA DriverInv == Spec => []D!IInv
<1>1. Init => D!IInv
  BY DriverInit DEF Init
<1>2. D!IInv /\ [Next]_<<unit, services, registry, drivers>> => D!IInv'
  BY UnitSteps, DriverStep
<1>3. QED
  BY <1>1, <1>2, PTL DEF Spec

\* However DriverEntry, its threads and the filter manager's callbacks
\* interleave: what they use outlives them, main sees the counts it expects, and
\* only what is never freed stays (KMDF DriverEntryImp, Fs::Unload, RunTimeUnInit).
THEOREM DriversEndRight == Spec => []DriverRight
<1>1. D!IInv => DriverRight
  BY DriverCounts DEF D!IInv, D!ImageLasts, DriverRight
<1>2. QED
  BY <1>1, DriverInv, PTL

--------------------------------------------------------------------------------
(* The clients of the service manager.                                     *)

LEMMA ServiceCases ==
  ASSUME [S!Next]_services
  PROVE  \/ \E c \in S!Clients :
              \/ \E op \in S!Calls(c), n \in Services : S!Begin(c, op, n)
              \/ S!OpenService(c) \/ S!CreateService(c) \/ S!QueryConfig(c)
              \/ S!ChangeServiceConfig(c) \/ S!StartService(c) \/ S!Poll(c) \/ S!QueryStatus(c)
              \/ S!ControlService(c) \/ S!Wait(c) \/ S!DeleteService(c) \/ S!CloseHandle(c)
              \/ S!ReturnOnly(c) \/ S!ProcessEnds(c)
         \/ \E n \in Services : S!Comes(n) \/ S!Falls(n) \/ S!Disable(n)
         \/ UNCHANGED services
BY DEF S!Next

LEMMA FlowTable ==
  /\ DOMAIN S!Flow = {"create", "remove", "stop", "control", "start", "startArgs", "info",
                      "change", "load", "startSvr", "stopSvr", "delSvr"}
  /\ S!Flow["create"] = [create |-> "close"]
  /\ S!Flow["remove"] = [open |-> "delete", delete |-> "close"]
  /\ S!Flow["stop"] = [open |-> "control", control |-> "close"]
  /\ S!Flow["control"] = [open |-> "control", control |-> "close"]
  /\ S!Flow["start"] = [open |-> "config", config |-> "start", change |-> "start",
                        start |-> "poll", poll |-> "return"]
  /\ S!Flow["startArgs"] = [open |-> "config", config |-> "start", change |-> "start",
                            start |-> "return"]
  /\ S!Flow["info"] = [open |-> "config", config |-> "close"]
  /\ S!Flow["change"] = [open |-> "change", change |-> "close"]
  /\ S!Flow["load"] = [create |-> "start", start |-> "poll", poll |-> "close"]
  /\ S!Flow["startSvr"] = [open |-> "start", start |-> "close"]
  /\ S!Flow["stopSvr"] = [open |-> "query", query |-> "control", control |-> "wait",
                          wait |-> "close"]
  /\ S!Flow["delSvr"] = [open |-> "control", control |-> "delete", delete |-> "close"]
BY DEF S!Flow, S!Create, S!Remove, S!StopOf, S!ControlOf, S!Start, S!StartArgs,
       S!QueryConfigInfo, S!ChangeStartType, S!LoadNTDriver, S!StartSvr, S!StopSvr, S!DelSvr

\* A flow goes from each of its requests to another of them, or to its end.
LEMMA FlowFacts ==
  ASSUME NEW op \in DOMAIN S!Flow, NEW at0 \in DOMAIN S!Flow[op]
  PROVE  /\ S!Flow[op][at0] \in (DOMAIN S!Flow[op] \cup {"close", "return"})
                                \ {"idle", "open", "create"}
         /\ S!Flow[op][at0] = "return" => op \in {"start", "startArgs"}
         /\ at0 \in S!Points /\ S!Flow[op][at0] \in S!Points
<1> USE FlowTable DEF S!Points
<1>1. CASE op \in {"create", "remove", "stop", "control"}
  BY <1>1
<1>2. CASE op \in {"start", "startArgs", "info", "change"}
  BY <1>2
<1>3. CASE op \in {"load", "startSvr", "stopSvr", "delSvr"}
  BY <1>3
<1>4. QED
  BY <1>1, <1>2, <1>3

\* Which calls make which requests.
LEMMA FlowRequests ==
  ASSUME NEW op \in DOMAIN S!Flow
  PROVE  /\ "create" \in DOMAIN S!Flow[op] => op \in {"create", "load"}
         /\ "config" \in DOMAIN S!Flow[op] /\ op # "info" => "change" \in DOMAIN S!Flow[op]
         /\ "config" \in DOMAIN S!Flow[op] => op \in {"start", "startArgs", "info"}
         /\ "change" \in DOMAIN S!Flow[op] => op \in {"start", "startArgs", "change"}
         /\ "start" \in DOMAIN S!Flow[op] => op \in {"start", "startArgs", "load", "startSvr"}
         /\ "poll" \in DOMAIN S!Flow[op] => op \in {"start", "load"}
         /\ "query" \in DOMAIN S!Flow[op] => op = "stopSvr"
         /\ "control" \in DOMAIN S!Flow[op] => op \in {"stop", "control", "stopSvr", "delSvr"}
         /\ "wait" \in DOMAIN S!Flow[op] => op = "stopSvr"
         /\ "delete" \in DOMAIN S!Flow[op] => op \in {"remove", "delSvr"}
<1> USE FlowTable
<1>1. CASE op \in {"create", "remove", "stop", "control"}
  BY <1>1
<1>2. CASE op \in {"start", "startArgs", "info", "change"}
  BY <1>2
<1>3. CASE op \in {"load", "startSvr", "stopSvr", "delSvr"}
  BY <1>3
<1>4. QED
  BY <1>1, <1>2, <1>3

\* The types of a call, and a client's going on to point a of its call.
CallType == [op : DOMAIN S!Flow \cup {"none"}, name : Services \cup {"none"},
             at : S!Points, rt : BOOLEAN]
Moved(c, a) ==
  /\ request' \in [S!Clients -> CallType]
  /\ \A d \in S!Clients \ {c} : request'[d] = request[d]
  /\ request'[c].op = request[c].op /\ request'[c].name = request[c].name
  /\ request'[c].at = a

LEMMA GoesTo ==
  ASSUME S!TypeOK, NEW c \in S!Clients, NEW a \in S!Points, NEW r \in BOOLEAN, S!Goes(c, a, r)
  PROVE  Moved(c, a) /\ request'[c].rt = r
<1>1. request \in [S!Clients -> CallType]
  BY DEF S!TypeOK, CallType
<1>2. request' = [request EXCEPT ![c] = [request[c] EXCEPT !.at = a, !.rt = r]]
  BY <1>1 DEF S!Goes
<1>3. [request[c] EXCEPT !.at = a, !.rt = r] \in CallType
  BY <1>1 DEF CallType
<1>4. QED
  BY <1>1, <1>2, <1>3 DEF Moved, CallType

\* Where a request leads: to the next one, or to the end of the call.
Leads(c, a) ==
  /\ request[c].at # "idle" /\ Moved(c, a)
  /\ a \in DOMAIN S!Flow[request[c].op] \cup {"close", "return", "idle"}
  /\ a = "return" => request[c].op \in {"start", "startArgs"}

LEMMA RequestLeads ==
  ASSUME S!TypeOK, S!OnTheWay, NEW c \in S!Clients,
         \/ S!OpenService(c) \/ S!CreateService(c) \/ S!QueryConfig(c)
         \/ S!ChangeServiceConfig(c) \/ S!StartService(c) \/ S!Poll(c) \/ S!QueryStatus(c)
         \/ S!ControlService(c) \/ S!Wait(c) \/ S!DeleteService(c) \/ S!ReturnOnly(c)
  PROVE  \E a : Leads(c, a)
<1> DEFINE op == request[c].op
           next == S!Flow[op][request[c].at]
<1>1. ASSUME request[c].at \notin {"idle", "close", "return"}
      PROVE  /\ request[c].op \in DOMAIN S!Flow /\ request[c].at \in DOMAIN S!Flow[op]
             /\ next \in DOMAIN S!Flow[op] \cup {"close", "return"}
             /\ next = "return" => op \in {"start", "startArgs"}
             /\ next \in S!Points
  <2>1. request[c].op \in DOMAIN S!Flow /\ request[c].at \in DOMAIN S!Flow[op]
    BY <1>1 DEF S!OnTheWay, S!At
  <2>2. QED
    BY <2>1, FlowFacts
<1>2. {"idle", "close", "return", "change"} \subseteq S!Points
  BY DEF S!Points
<1> USE DEF S!At, S!Following, S!TypeOK
<1>3. ASSUME NEW a \in S!Points, NEW r \in BOOLEAN, S!Goes(c, a, r), request[c].at # "idle",
             a \in DOMAIN S!Flow[op] \cup {"close", "return", "idle"},
             a = "return" => op \in {"start", "startArgs"}
      PROVE  \E b : Leads(c, b)
  BY <1>3, GoesTo DEF Leads
<1>4. CASE S!OpenService(c)
  BY <1>1, <1>2, <1>3, <1>4 DEF S!OpenService
<1>5. CASE S!CreateService(c)
  BY <1>1, <1>2, <1>3, <1>5 DEF S!CreateService
<1>6. CASE S!QueryConfig(c)
  <2>1. op # "info" => "change" \in DOMAIN S!Flow[op]
    BY <1>1, <1>6, FlowRequests DEF S!QueryConfig
  <2>2. QED
    BY <1>1, <1>2, <1>3, <1>6, <2>1 DEF S!QueryConfig
<1>7. CASE S!ChangeServiceConfig(c)
  BY <1>1, <1>2, <1>3, <1>7 DEF S!ChangeServiceConfig
<1>8. CASE S!StartService(c)
  <2>1. op \notin S!Installing => op \in {"start", "startArgs"}
    BY <1>1, <1>8, FlowRequests DEF S!StartService, S!Installing
  <2> DEFINE last == IF op \in S!Installing THEN "close" ELSE "return"
  <2>2. PICK r \in BOOLEAN : S!Goes(c, next, r) \/ S!Goes(c, last, r)
    <3>1. \/ S!Goes(c, next, op # "start")
          \/ S!Goes(c, last, op \in S!Installing)
          \/ S!Goes(c, last, op = "start")
      BY <1>8 DEF S!StartService
    <3>2. {op # "start", op \in S!Installing, op = "start"} \subseteq BOOLEAN
      OBVIOUS
    <3>3. QED
      BY <3>1, <3>2, Zenon
  <2>3. request[c].at = "start"
    BY <1>8 DEF S!StartService
  <2>4. last \in S!Points /\ last \in {"close", "return"}
          /\ (last = "return" => op \in {"start", "startArgs"})
    BY <1>2, <2>1
  <2>5. QED
    BY <1>1, <1>3, <2>2, <2>3, <2>4
<1>9. CASE S!Poll(c)
  BY <1>1, <1>2, <1>3, <1>9 DEF S!Poll
<1>10. CASE S!QueryStatus(c)
  <2>1. op = "stopSvr"
    BY <1>1, <1>10, FlowRequests DEF S!QueryStatus
  <2>2. "control" \in DOMAIN S!Flow[op] /\ "control" \in S!Points
    BY <2>1, FlowTable DEF S!Points
  <2>3. QED
    BY <1>1, <1>2, <1>3, <1>10, <2>2 DEF S!QueryStatus
<1>11. CASE S!ControlService(c)
  BY <1>1, <1>2, <1>3, <1>11 DEF S!ControlService
<1>12. CASE S!Wait(c)
  BY <1>2, <1>3, <1>12 DEF S!Wait
<1>13. CASE S!DeleteService(c)
  BY <1>2, <1>3, <1>13 DEF S!DeleteService
<1>14. CASE S!ReturnOnly(c)
  <2>1. op # "stopSvr"
    BY <1>14 DEF S!ReturnOnly, S!OnTheWay
  <2>2. request[c].rt \in BOOLEAN
    OBVIOUS
  <2>3. S!Goes(c, "idle", request[c].rt) /\ request[c].at = "return"
    BY <1>14, <2>1 DEF S!ReturnOnly, S!Ends
  <2>4. QED
    BY <1>2, <1>3, <2>2, <2>3
<1>15. QED
  BY <1>4, <1>5, <1>6, <1>7, <1>8, <1>9, <1>10, <1>11, <1>12, <1>13, <1>14

LEMMA OnTheWayStep ==
  S!TypeOK /\ S!OnTheWay /\ [S!Next]_services
    => request' \in [S!Clients -> CallType] /\ S!OnTheWay'
<1> SUFFICES ASSUME S!TypeOK, S!OnTheWay, [S!Next]_services
             PROVE  request' \in [S!Clients -> CallType] /\ S!OnTheWay'
  OBVIOUS
<1> DEFINE Right == request' \in [S!Clients -> CallType] /\ S!OnTheWay'
<1>1. request \in [S!Clients -> CallType]
  BY DEF S!TypeOK, CallType
<1>2. ASSUME NEW c \in S!Clients, NEW op \in S!Calls(c), NEW n \in Services, S!Begin(c, op, n)
      PROVE  Right
  <2> DEFINE a == IF op \in {"create", "load"} THEN "create" ELSE "open"
  <2>1. request' = [request EXCEPT ![c] = [op |-> op, name |-> n, rt |-> FALSE, at |-> a]]
    BY <1>2 DEF S!Begin
  <2>2. /\ op \in DOMAIN S!Flow /\ a \in DOMAIN S!Flow[op] /\ a \in S!Points
        /\ c \in Installers => op \in S!Installing
    <3>1. op \in DOMAIN S!Flow /\ (c \in Installers => op \in S!Installing)
      BY FlowTable DEF S!Calls, S!Installing
    <3>2. a \in DOMAIN S!Flow[op]
      <4>1. CASE op \in {"create", "remove", "stop", "control", "start", "startArgs"}
        BY <4>1, FlowTable
      <4>2. CASE op \in {"info", "change", "load", "startSvr", "stopSvr", "delSvr"}
        BY <4>2, FlowTable
      <4>3. QED
        BY <3>1, <4>1, <4>2, FlowTable
    <3>3. QED
      BY <3>1, <3>2, FlowFacts
  <2>3. [op |-> op, name |-> n, rt |-> FALSE, at |-> a] \in CallType
    BY <2>2 DEF CallType
  <2>4. c \in Installers => n \in Devices
    BY <1>2 DEF S!Begin
  <2>5. a \notin {"idle", "return"}
    OBVIOUS
  <2>6. S!OnTheWay'
    BY <1>1, <2>1, <2>2, <2>4, <2>5 DEF S!OnTheWay, S!At, S!On
  <2>7. QED
    BY <1>1, <2>1, <2>3, <2>6
<1>3. ASSUME NEW c \in S!Clients, NEW a, Leads(c, a) PROVE Right
  BY <1>3 DEF Leads, Moved, S!OnTheWay, S!At, S!On
<1>4. ASSUME NEW c \in S!Clients, S!CloseHandle(c) PROVE Right
  <2>1. request[c].at = "close"
    BY <1>4 DEF S!CloseHandle, S!At
  <2>2. CASE S!Goes(c, "idle", request[c].rt)
    <3>1. Moved(c, "idle")
      BY <1>1, <2>2, GoesTo DEF CallType, S!Points
    <3>2. QED
      BY <3>1 DEF Moved, S!OnTheWay, S!At, S!On
  <2>3. CASE /\ request[c].op = "stopSvr"
             /\ request' = [request EXCEPT ![c] =
                              [@ EXCEPT !.op = "delSvr", !.at = "open", !.rt = FALSE]]
    <3>2. "open" \in DOMAIN S!Flow["delSvr"] /\ "delSvr" \in DOMAIN S!Flow
      BY FlowTable
    <3> "open" \in S!Points
      BY DEF S!Points
    <3>1. [request[c] EXCEPT !.op = "delSvr", !.at = "open", !.rt = FALSE] \in CallType
      BY <1>1, <3>2 DEF CallType
    <3>3. "delSvr" \in S!Installing
      BY DEF S!Installing
    <3>4. QED
      BY <1>1, <2>1, <2>3, <3>1, <3>2, <3>3 DEF S!OnTheWay, S!At, S!On, CallType
  <2>4. QED
    BY <1>4, <2>2, <2>3 DEF S!CloseHandle, S!Ends
<1>5. CASE request' = request
  BY <1>1, <1>5 DEF S!OnTheWay, S!At, S!On
<1>6. ASSUME NEW c \in S!Clients, S!ProcessEnds(c) PROVE request' = request
  BY <1>6 DEF S!ProcessEnds
<1>7. ASSUME NEW n \in Services, S!Comes(n) \/ S!Falls(n) \/ S!Disable(n)
      PROVE  request' = request
  BY <1>7 DEF S!Comes, S!Falls, S!Disable
<1>8. UNCHANGED services => request' = request
  BY DEF services
<1>9. QED
  BY <1>2, <1>3, <1>4, <1>5, <1>6, <1>7, <1>8, RequestLeads, ServiceCases

StatesType == [Services -> {"stopped", "starting", "running", "stopping"}]

\* What is marked, stopped and not open goes; the rest is as the step has it.
LEMMA CollectGives ==
  ASSUME S!TypeOK, NEW hs \in [S!Clients -> [Services -> Nat]], NEW mk \in SUBSET Services,
         NEW st \in StatesType, S!Collect(hs, mk, st)
  PROVE  /\ handles' = hs /\ state' = st
         /\ exists' \subseteq Services /\ marked' \subseteq mk
         /\ \A n \in marked' : st[n] = "stopped" => \E c \in S!Clients : hs[c][n] > 0
<1>1. handles' = hs /\ state' = st /\ exists' \subseteq exists /\ marked' \subseteq mk
  BY DEF S!Collect
<1>2. ASSUME NEW n \in marked', st[n] = "stopped" PROVE \E c \in S!Clients : hs[c][n] # 0
  BY <1>2 DEF S!Collect
<1>3. ASSUME NEW n \in marked', NEW c \in S!Clients, hs[c][n] # 0 PROVE hs[c][n] > 0
  <2>1. hs[c][n] \in Nat
    BY <1>1
  <2>2. QED
    BY <1>3, <2>1
<1>4. QED
  BY <1>1, <1>2, <1>3 DEF S!TypeOK

\* A handle more, and one less.
LEMMA HandleTypes ==
  ASSUME S!TypeOK, NEW c \in S!Clients, S!On(c) \in Services
  PROVE  /\ S!Opened(c) \in [S!Clients -> [Services -> Nat]]
         /\ handles[c][S!On(c)] > 0 =>
              [handles EXCEPT ![c][S!On(c)] = @ - 1] \in [S!Clients -> [Services -> Nat]]
         /\ [handles EXCEPT ![c] = [n \in Services |-> 0]] \in [S!Clients -> [Services -> Nat]]
<1>1. handles \in [S!Clients -> [Services -> Nat]] /\ handles[c][S!On(c)] \in Nat
  BY DEF S!TypeOK
<1>2. handles[c][S!On(c)] + 1 \in Nat
      /\ (handles[c][S!On(c)] > 0 => handles[c][S!On(c)] - 1 \in Nat)
  BY <1>1
<1>3. QED
  BY <1>1, <1>2 DEF S!Opened

\* The state of a service, once a step has changed it.
LEMMA StateTypes ==
  ASSUME S!TypeOK, NEW n, NEW s \in {"stopped", "starting", "running", "stopping"}
  PROVE  state \in StatesType /\ [state EXCEPT ![n] = s] \in StatesType
BY DEF S!TypeOK, StatesType

\* Every step leaves the manager's services alone, opens one that it creates, or
\* collects what is gone.
Collects ==
  \E hs \in [S!Clients -> [Services -> Nat]], mk \in SUBSET Services, st \in StatesType :
    S!Collect(hs, mk, st)
Opens ==
  /\ exists' \subseteq Services /\ marked' = marked /\ state' = state
  /\ handles' \in [S!Clients -> [Services -> Nat]]
  /\ \A d \in S!Clients, n \in Services : handles[d][n] <= handles'[d][n]

LEMMA WorldMoves ==
  S!TypeOK /\ S!OnTheWay /\ S!HandlesRight /\ [S!Next]_services => Opens \/ Collects
<1> SUFFICES ASSUME S!TypeOK, S!OnTheWay, S!HandlesRight, [S!Next]_services
             PROVE  Opens \/ Collects
  OBVIOUS
<1>1. S!Same => Opens
  BY DEF S!Same, Opens, S!TypeOK
<1>2. /\ handles \in [S!Clients -> [Services -> Nat]] /\ marked \in SUBSET Services
      /\ state \in StatesType
      /\ \A n, s : s \in {"stopped", "starting", "running", "stopping"}
                     => [state EXCEPT ![n] = s] \in StatesType
  BY StateTypes DEF S!TypeOK, StatesType
<1>3. ASSUME NEW c \in S!Clients, request[c].at # "idle"
      PROVE  S!On(c) \in Services /\ S!Opened(c) \in [S!Clients -> [Services -> Nat]]
  BY <1>3, HandleTypes DEF S!OnTheWay, S!At
<1>4. ASSUME NEW c \in S!Clients, S!OpenService(c) PROVE Opens \/ Collects
  <2>1. S!Collect(S!Opened(c), marked, state) \/ S!Same
    BY <1>4 DEF S!OpenService
  <2>2. S!Opened(c) \in [S!Clients -> [Services -> Nat]]
    BY <1>3, <1>4 DEF S!OpenService, S!At
  <2>3. QED
    BY <1>1, <1>2, <2>1, <2>2 DEF Collects
<1>5. ASSUME NEW c \in S!Clients, S!CreateService(c) PROVE Opens \/ Collects
  <2>1. S!On(c) \in Services /\ S!Opened(c) \in [S!Clients -> [Services -> Nat]]
    BY <1>3, <1>5 DEF S!CreateService, S!At
  <2>2. CASE /\ exists' = exists \cup {S!On(c)} /\ handles' = S!Opened(c)
             /\ UNCHANGED <<marked, state>>
    <3>1. \A d \in S!Clients, n \in Services : handles[d][n] <= handles'[d][n]
      BY <1>2, <2>2 DEF S!Opened
    <3>2. QED
      BY <2>1, <2>2, <3>1 DEF Opens, S!TypeOK
  <2>3. CASE S!Collect(S!Opened(c), marked, state)
    BY <1>2, <2>1, <2>3 DEF Collects
  <2>4. QED
    BY <1>1, <1>5, <2>2, <2>3 DEF S!CreateService
<1>6. ASSUME NEW c \in S!Clients,
             \/ S!QueryConfig(c) \/ S!ChangeServiceConfig(c) \/ S!Poll(c) \/ S!QueryStatus(c)
             \/ S!Wait(c) \/ S!ReturnOnly(c)
      PROVE  Opens
  BY <1>1, <1>6 DEF S!QueryConfig, S!ChangeServiceConfig, S!Poll, S!QueryStatus, S!Wait,
                    S!ReturnOnly
<1>7. ASSUME NEW c \in S!Clients, NEW op, NEW n, S!Begin(c, op, n) PROVE Opens
  BY <1>1, <1>7 DEF S!Begin, S!Same
<1>8. ASSUME NEW c \in S!Clients, S!StartService(c) PROVE Opens \/ Collects
  <2> DEFINE s == IF S!On(c) \in Devices THEN "running" ELSE "starting"
  <2>1. S!Same \/ S!Collect(handles, marked, [state EXCEPT ![S!On(c)] = s])
    BY <1>8 DEF S!StartService
  <2>2. s \in {"stopped", "starting", "running", "stopping"}
    OBVIOUS
  <2>3. QED
    BY <1>1, <1>2, <2>1, <2>2 DEF Collects
<1>9. ASSUME NEW c \in S!Clients, S!ControlService(c) PROVE Opens \/ Collects
  <2>1. \/ S!Same
        \/ \E s \in {"stopped", "stopping"} :
             S!Collect(handles, marked, [state EXCEPT ![S!On(c)] = s])
    BY <1>9 DEF S!ControlService
  <2>2. QED
    BY <1>1, <1>2, <2>1 DEF Collects
<1>10. ASSUME NEW c \in S!Clients, S!DeleteService(c) PROVE Opens \/ Collects
  <2>1. marked \cup {S!On(c)} \in SUBSET Services
    BY <1>2, <1>3, <1>10 DEF S!DeleteService, S!At
  <2>2. QED
    BY <1>1, <1>2, <1>10, <2>1 DEF S!DeleteService, Collects
<1>11. ASSUME NEW c \in S!Clients, S!CloseHandle(c) PROVE Collects
  <2>1. request[c].at = "close" /\ S!On(c) \in Services
    BY <1>3, <1>11 DEF S!CloseHandle, S!At
  <2>2. handles[c][S!On(c)] > 0
    <3>1. handles[c][S!On(c)] = leaks[c][S!On(c)] + 1
      BY <2>1 DEF S!HandlesRight
    <3>2. leaks[c][S!On(c)] \in Nat
      BY <2>1 DEF S!TypeOK
    <3>3. QED
      BY <3>1, <3>2
  <2>3. [handles EXCEPT ![c][S!On(c)] = @ - 1] \in [S!Clients -> [Services -> Nat]]
    BY <2>1, <2>2, HandleTypes
  <2>4. QED
    BY <1>2, <1>11, <2>3 DEF S!CloseHandle, Collects
<1>12. ASSUME NEW c \in S!Clients, S!ProcessEnds(c) PROVE Collects
  <2>1. [handles EXCEPT ![c] = [n \in Services |-> 0]] \in [S!Clients -> [Services -> Nat]]
    BY <1>2
  <2>2. QED
    BY <1>2, <1>12, <2>1 DEF S!ProcessEnds, Collects
<1>13. ASSUME NEW n \in Services, S!Comes(n) \/ S!Falls(n) PROVE Collects
  <2>1. \E s \in {"running", "stopped"} : S!Collect(handles, marked, [state EXCEPT ![n] = s])
    BY <1>13 DEF S!Comes, S!Falls
  <2>2. QED
    BY <1>2, <2>1 DEF Collects
<1>14. ASSUME NEW n \in Services, S!Disable(n) PROVE Opens
  BY <1>1, <1>14 DEF S!Disable
<1>15. CASE UNCHANGED services
  BY <1>1, <1>15 DEF services, S!Same
<1>16. QED
  BY <1>4, <1>5, <1>6, <1>7, <1>8, <1>9, <1>10, <1>11, <1>12, <1>13, <1>14, <1>15,
     ServiceCases

\* A service that is marked and has stopped is open somewhere.
LEMMA MarkedStep ==
  S!TypeOK /\ S!OnTheWay /\ S!HandlesRight /\ S!MarkedHeld /\ [S!Next]_services
    => /\ exists' \subseteq Services /\ marked' \subseteq Services /\ state' \in StatesType
       /\ handles' \in [S!Clients -> [Services -> Nat]]
       /\ S!MarkedHeld'
<1> SUFFICES ASSUME S!TypeOK, S!OnTheWay, S!HandlesRight, S!MarkedHeld, [S!Next]_services
             PROVE  /\ exists' \subseteq Services /\ marked' \subseteq Services
                    /\ state' \in StatesType
                    /\ handles' \in [S!Clients -> [Services -> Nat]]
                    /\ S!MarkedHeld'
  OBVIOUS
<1>1. CASE Collects
  <2>1. PICK hs \in [S!Clients -> [Services -> Nat]], mk \in SUBSET Services, st \in StatesType :
          S!Collect(hs, mk, st)
    BY <1>1 DEF Collects
  <2>2. QED
    BY <2>1, CollectGives DEF S!MarkedHeld
<1>2. CASE Opens
  <2>1. ASSUME NEW n \in marked', state'[n] = "stopped"
        PROVE  \E c \in S!Clients : handles'[c][n] > 0
    <3>1. n \in Services /\ n \in marked /\ state[n] = "stopped"
      BY <1>2, <2>1 DEF Opens, S!TypeOK
    <3>2. PICK c \in S!Clients : handles[c][n] > 0
      BY <3>1 DEF S!MarkedHeld
    <3>3. handles[c][n] \in Nat /\ handles'[c][n] \in Nat /\ handles[c][n] <= handles'[c][n]
      BY <1>2, <3>1 DEF Opens, S!TypeOK
    <3>4. QED
      BY <3>2, <3>3
  <2>2. QED
    BY <1>2, <2>1 DEF Opens, S!MarkedHeld, S!TypeOK, StatesType
<1>3. QED
  BY <1>1, <1>2, WorldMoves

First == {"idle", "open", "create"}
LEMMA FollowingIs ==
  ASSUME S!TypeOK, S!OnTheWay, NEW c \in S!Clients, request[c].at \notin {"idle", "close", "return"}
  PROVE  /\ request[c].op \in DOMAIN S!Flow /\ request[c].at \in DOMAIN S!Flow[request[c].op]
         /\ S!Following(c) \in S!Points \ First
         /\ {"idle", "change", "close", "return", "control", "wait"} \subseteq S!Points
<1>1. request[c].op \in DOMAIN S!Flow /\ request[c].at \in DOMAIN S!Flow[request[c].op]
  BY DEF S!OnTheWay, S!At
<1>2. QED
  BY <1>1, FlowFacts DEF S!Following, First, S!Points

\* A request that opens and closes nothing: the call is past its first one
\* before and after, or neither.
LEMMA HandlesStay ==
  ASSUME S!TypeOK, S!HandlesRight, NEW c \in S!Clients, NEW a, Moved(c, a),
         UNCHANGED <<handles, leaks>>, request[c].at \in First <=> a \in First
  PROVE  S!HandlesRight'
BY DEF S!HandlesRight, Moved, First, S!On

\* The same for requests that go on past the first one.
LEMMA HandlesPast ==
  ASSUME S!TypeOK, S!HandlesRight, NEW c \in S!Clients, NEW a \in S!Points, NEW r \in BOOLEAN,
         S!Goes(c, a, r), request[c].at \notin First, a \notin First,
         UNCHANGED <<handles, leaks>>
  PROVE  S!HandlesRight'
BY GoesTo, HandlesStay

LEMMA HandlesOpen ==
  ASSUME S!TypeOK, S!HandlesRight, NEW c \in S!Clients, NEW a, Moved(c, a),
         handles' = S!Opened(c), leaks' = leaks, request[c].at \in First, a \notin First
  PROVE  S!HandlesRight'
<1>1. ASSUME NEW d \in S!Clients, NEW n \in Services
      PROVE  /\ handles'[d][n] = leaks'[d][n]
                  + (IF request'[d].name = n /\ request'[d].at \notin First THEN 1 ELSE 0)
             /\ leaks'[d][n] > 0 => d \in Operators
  <2>1. /\ handles[d][n] = leaks[d][n]
             + (IF request[d].name = n /\ request[d].at \notin First THEN 1 ELSE 0)
        /\ leaks[d][n] > 0 => d \in Operators
        /\ handles[d][n] \in Nat /\ leaks[d][n] \in Nat
    BY DEF S!HandlesRight, First, S!On, S!TypeOK
  <2>2. handles'[d][n] = IF d = c /\ n = request[c].name THEN handles[d][n] + 1 ELSE handles[d][n]
    BY DEF S!Opened, S!On, S!TypeOK
  <2>3. d # c => request'[d] = request[d]
    BY DEF Moved
  <2>4. d = c => request'[d].name = request[d].name /\ request'[d].at = a
    BY DEF Moved
  <2>5. CASE d = c
    BY <2>1, <2>2, <2>4, <2>5
  <2>6. CASE d # c
    BY <2>1, <2>2, <2>3, <2>6
  <2>7. QED
    BY <2>5, <2>6
<1>2. QED
  BY <1>1 DEF S!HandlesRight, First, S!On

\* A call that closes its handle is over, unless the installer goes on.
LEMMA CloseLeads ==
  ASSUME S!TypeOK, NEW c \in S!Clients, S!Ends(c)
  PROVE  /\ \A d \in S!Clients \ {c} : request'[d] = request[d]
         /\ request'[c].name = request[c].name
         /\ \/ /\ request'[c].op = request[c].op /\ request'[c].at = "idle"
               /\ request'[c].rt = request[c].rt
            \/ /\ request[c].op = "stopSvr" /\ request[c].rt
               /\ request'[c].op = "delSvr" /\ request'[c].at = "open" /\ request'[c].rt = FALSE
<1>1. request \in [S!Clients -> CallType]
  BY DEF S!TypeOK, CallType
<1>2. CASE S!Goes(c, "idle", request[c].rt)
  <2>1. "idle" \in S!Points /\ request[c].rt \in BOOLEAN
    BY <1>1 DEF CallType, S!Points
  <2>2. QED
    BY <1>2, <2>1, GoesTo DEF Moved
<1>3. CASE /\ request[c].op = "stopSvr" /\ request[c].rt
           /\ request' = [request EXCEPT ![c] =
                            [@ EXCEPT !.op = "delSvr", !.at = "open", !.rt = FALSE]]
  <2>1. request'[c] = [[[request[c] EXCEPT !.op = "delSvr"] EXCEPT !.at = "open"] EXCEPT !.rt = FALSE]
    BY <1>1, <1>3
  <2>2. /\ request'[c].op = "delSvr" /\ request'[c].at = "open" /\ request'[c].rt = FALSE
        /\ request'[c].name = request[c].name
    BY <1>1, <2>1 DEF CallType
  <2>3. \A d \in S!Clients \ {c} : request'[d] = request[d]
    BY <1>1, <1>3
  <2>4. QED
    BY <1>3, <2>2, <2>3
<1>4. QED
  BY <1>2, <1>3 DEF S!Ends

LEMMA HandlesClose ==
  ASSUME S!TypeOK, S!OnTheWay, S!HandlesRight, NEW c \in S!Clients, S!CloseHandle(c)
  PROVE  S!HandlesRight'
<1>1. /\ request[c].at = "close" /\ leaks' = leaks
      /\ handles' = [handles EXCEPT ![c][request[c].name] = @ - 1]
  BY DEF S!CloseHandle, S!At, S!Collect, S!Unseen, S!On
<1>2. /\ request'[c].name = request[c].name /\ request'[c].at \in First
      /\ \A d \in S!Clients \ {c} : request'[d] = request[d]
  BY CloseLeads DEF S!CloseHandle, First
<1>3. ASSUME NEW d \in S!Clients, NEW n \in Services
      PROVE  /\ handles'[d][n] = leaks'[d][n]
                  + (IF request'[d].name = n /\ request'[d].at \notin First THEN 1 ELSE 0)
             /\ leaks'[d][n] > 0 => d \in Operators
  <2>1. /\ handles[d][n] = leaks[d][n]
             + (IF request[d].name = n /\ request[d].at \notin First THEN 1 ELSE 0)
        /\ leaks[d][n] > 0 => d \in Operators
        /\ handles[d][n] \in Nat /\ leaks[d][n] \in Nat
    BY DEF S!HandlesRight, First, S!On, S!TypeOK
  <2>2. handles'[d][n] = IF d = c /\ n = request[c].name THEN handles[d][n] - 1 ELSE handles[d][n]
    BY <1>1 DEF S!TypeOK
  <2>3. CASE d = c
    BY <1>1, <1>2, <2>1, <2>2, <2>3 DEF First
  <2>4. CASE d # c
    BY <1>1, <1>2, <2>1, <2>2, <2>4
  <2>5. QED
    BY <2>3, <2>4
<1>4. QED
  BY <1>3 DEF S!HandlesRight, First, S!On

LEMMA HandlesReturn ==
  ASSUME S!TypeOK, S!OnTheWay, S!HandlesRight, NEW c \in S!Clients, S!ReturnOnly(c)
  PROVE  S!HandlesRight' /\ leaks' \in [S!Clients -> [Services -> Nat]]
<1>1. /\ request[c].at = "return" /\ handles' = handles /\ request[c].name \in Services
      /\ leaks' = [leaks EXCEPT ![c][request[c].name] = @ + 1]
      /\ request[c].op \in {"start", "startArgs"}
  BY DEF S!ReturnOnly, S!At, S!Same, S!On, S!OnTheWay
<1>2. c \in Operators
  BY <1>1 DEF S!OnTheWay, S!Installing, S!Clients
<1>3. /\ request'[c].name = request[c].name /\ request'[c].at = "idle"
      /\ \A d \in S!Clients \ {c} : request'[d] = request[d]
  BY <1>1 DEF S!ReturnOnly, S!Ends, S!Goes, S!TypeOK
<1>4. ASSUME NEW d \in S!Clients, NEW n \in Services
      PROVE  /\ handles'[d][n] = leaks'[d][n]
                  + (IF request'[d].name = n /\ request'[d].at \notin First THEN 1 ELSE 0)
             /\ leaks'[d][n] > 0 => d \in Operators
  <2>1. /\ handles[d][n] = leaks[d][n]
             + (IF request[d].name = n /\ request[d].at \notin First THEN 1 ELSE 0)
        /\ leaks[d][n] > 0 => d \in Operators
        /\ handles[d][n] \in Nat /\ leaks[d][n] \in Nat
    BY DEF S!HandlesRight, First, S!On, S!TypeOK
  <2>2. leaks'[d][n] = IF d = c /\ n = request[c].name THEN leaks[d][n] + 1 ELSE leaks[d][n]
    BY <1>1 DEF S!TypeOK
  <2>3. CASE d = c
    BY <1>1, <1>2, <1>3, <2>1, <2>2, <2>3 DEF First
  <2>4. CASE d # c
    BY <1>1, <1>3, <2>1, <2>2, <2>4
  <2>5. QED
    BY <2>3, <2>4
<1>5. S!HandlesRight'
  BY <1>4 DEF S!HandlesRight, First, S!On
<1>6. leaks[c][request[c].name] + 1 \in Nat
  BY <1>1 DEF S!TypeOK
<1>7. QED
  BY <1>1, <1>5, <1>6 DEF S!TypeOK

LEMMA HandlesStep ==
  S!TypeOK /\ S!OnTheWay /\ S!HandlesRight /\ [S!Next]_services => S!HandlesRight'
<1> SUFFICES ASSUME S!TypeOK, S!OnTheWay, S!HandlesRight, [S!Next]_services
             PROVE  S!HandlesRight'
  OBVIOUS
<1>1. ASSUME NEW c \in S!Clients, NEW a \in S!Points \ First, request[c].at \notin First,
             S!Goes(c, a, TRUE) \/ S!Goes(c, a, FALSE), UNCHANGED <<handles, leaks>>
      PROVE  S!HandlesRight'
  <2>1. TRUE \in BOOLEAN /\ FALSE \in BOOLEAN
    OBVIOUS
  <2>2. CASE S!Goes(c, a, TRUE)
    BY <1>1, <2>1, <2>2, HandlesPast
  <2>3. CASE S!Goes(c, a, FALSE)
    BY <1>1, <2>1, <2>3, HandlesPast
  <2>4. QED
    BY <1>1, <2>2, <2>3
<1>2. ASSUME NEW c \in S!Clients, request[c].at \notin First \cup {"close", "return"}
      PROVE  /\ S!Following(c) \in S!Points \ First
             /\ {"change", "close", "return", "control", "wait"} \subseteq S!Points \ First
  BY <1>2, FollowingIs DEF First
<1>3. ASSUME NEW c \in S!Clients, S!OpenService(c) PROVE S!HandlesRight'
  <2>1. request[c].at = "open" /\ leaks' = leaks
    BY <1>3 DEF S!OpenService, S!At, S!Unseen
  <2>2. /\ S!Following(c) \in S!Points \ First /\ "idle" \in S!Points /\ FALSE \in BOOLEAN
    BY <2>1, FollowingIs
  <2>3. CASE S!Collect(S!Opened(c), marked, state) /\ S!Goes(c, S!Following(c), FALSE)
    <3>1. Moved(c, S!Following(c)) /\ handles' = S!Opened(c)
      BY <2>2, <2>3, GoesTo DEF S!Collect
    <3>2. QED
      BY <2>1, <2>2, <3>1, HandlesOpen DEF First
  <2>4. CASE S!Same /\ S!Goes(c, "idle", FALSE)
    <3>1. Moved(c, "idle") /\ handles' = handles
      BY <2>2, <2>4, GoesTo DEF S!Same
    <3>2. QED
      BY <2>1, <3>1, HandlesStay DEF First
  <2>5. QED
    BY <1>3, <2>3, <2>4 DEF S!OpenService
<1>4. ASSUME NEW c \in S!Clients, S!CreateService(c) PROVE S!HandlesRight'
  <2>1. request[c].at = "create" /\ leaks' = leaks
    BY <1>4 DEF S!CreateService, S!At, S!Unseen
  <2>2. S!Following(c) \in S!Points \ First /\ "idle" \in S!Points
    BY <2>1, FollowingIs
  <2>3. ASSUME NEW r \in BOOLEAN, handles' = S!Opened(c), S!Goes(c, S!Following(c), r)
        PROVE  S!HandlesRight'
    <3>1. Moved(c, S!Following(c))
      BY <2>2, <2>3, GoesTo
    <3>2. QED
      BY <2>1, <2>2, <2>3, <3>1, HandlesOpen DEF First
  <2>4. ASSUME NEW r \in BOOLEAN, S!Same, S!Goes(c, "idle", r) PROVE S!HandlesRight'
    <3>1. Moved(c, "idle") /\ handles' = handles
      BY <2>2, <2>4, GoesTo DEF S!Same
    <3>2. QED
      BY <2>1, <3>1, HandlesStay DEF First
  <2>5. \/ handles' = S!Opened(c) /\ S!Goes(c, S!Following(c), request[c].op = "create")
        \/ handles' = S!Opened(c) /\ S!Goes(c, S!Following(c), FALSE)
        \/ S!Same /\ (S!Goes(c, "idle", TRUE) \/ S!Goes(c, "idle", FALSE))
    BY <1>4 DEF S!CreateService, S!Collect
  <2>6. {TRUE, FALSE, request[c].op = "create"} \subseteq BOOLEAN
    OBVIOUS
  <2>7. QED
    BY <2>3, <2>4, <2>5, <2>6, Zenon
<1>5. ASSUME NEW c \in S!Clients, S!QueryConfig(c) PROVE S!HandlesRight'
  <2>1. request[c].at = "config" /\ UNCHANGED <<handles, leaks>>
    BY <1>5 DEF S!QueryConfig, S!At, S!Same, S!Unseen
  <2>2. \/ S!Goes(c, "change", FALSE) \/ S!Goes(c, "close", FALSE)
        \/ S!Goes(c, S!Following(c), request[c].op = "info")
    BY <1>5 DEF S!QueryConfig
  <2>3. (request[c].op = "info") \in BOOLEAN
    OBVIOUS
  <2>4. CASE S!Goes(c, S!Following(c), request[c].op = "info")
    <3>1. request[c].at \notin First /\ S!Following(c) \in S!Points \ First
      BY <1>2, <2>1 DEF First
    <3>2. QED
      BY <2>1, <2>3, <2>4, <3>1, HandlesPast
  <2>5. QED
    BY <1>1, <1>2, <2>1, <2>2, <2>4 DEF First
<1>6. ASSUME NEW c \in S!Clients, S!ChangeServiceConfig(c) PROVE S!HandlesRight'
  <2>1. request[c].at = "change" /\ UNCHANGED <<handles, leaks>>
    BY <1>6 DEF S!ChangeServiceConfig, S!At, S!Same, S!Unseen
  <2>2. S!Goes(c, "close", FALSE) \/ S!Goes(c, S!Following(c), request[c].op = "change")
    BY <1>6 DEF S!ChangeServiceConfig
  <2>3. (request[c].op = "change") \in BOOLEAN
    OBVIOUS
  <2>4. CASE S!Goes(c, S!Following(c), request[c].op = "change")
    <3>1. request[c].at \notin First /\ S!Following(c) \in S!Points \ First
      BY <1>2, <2>1 DEF First
    <3>2. QED
      BY <2>1, <2>3, <2>4, <3>1, HandlesPast
  <2>5. QED
    BY <1>1, <1>2, <2>1, <2>2, <2>4 DEF First
<1>7. ASSUME NEW c \in S!Clients, S!StartService(c) PROVE S!HandlesRight'
  <2>1. request[c].at = "start" /\ UNCHANGED <<handles, leaks>>
    BY <1>7 DEF S!StartService, S!At, S!Same, S!Collect
  <2> DEFINE last == IF request[c].op \in S!Installing THEN "close" ELSE "return"
  <2>2. \/ S!Goes(c, S!Following(c), request[c].op # "start")
        \/ S!Goes(c, last, request[c].op \in S!Installing)
        \/ S!Goes(c, last, request[c].op = "start")
    BY <1>7 DEF S!StartService
  <2>3. {request[c].op # "start", request[c].op \in S!Installing, request[c].op = "start"}
          \subseteq BOOLEAN
    OBVIOUS
  <2>4. /\ request[c].at \notin First /\ S!Following(c) \in S!Points \ First
        /\ last \in S!Points \ First
    BY <1>2, <2>1 DEF First
  <2>5. ASSUME NEW a \in S!Points \ First, NEW r \in BOOLEAN, S!Goes(c, a, r)
        PROVE  S!HandlesRight'
    BY <2>1, <2>4, <2>5, HandlesPast
  <2> HIDE DEF last
  <2>6. QED
    BY <2>2, <2>3, <2>4, <2>5, Zenon
<1>8. ASSUME NEW c \in S!Clients, S!Poll(c) PROVE S!HandlesRight'
  <2>1. request[c].at = "poll" /\ UNCHANGED <<handles, leaks>>
    BY <1>8 DEF S!Poll, S!At, S!Same, S!Unseen
  <2>2. S!Goes(c, S!Following(c), TRUE) \/ S!Goes(c, S!Following(c), request[c].op = "load")
    BY <1>8 DEF S!Poll
  <2>3. {TRUE, request[c].op = "load"} \subseteq BOOLEAN
    OBVIOUS
  <2>4. request[c].at \notin First /\ S!Following(c) \in S!Points \ First
    BY <1>2, <2>1 DEF First
  <2>5. ASSUME NEW r \in BOOLEAN, S!Goes(c, S!Following(c), r) PROVE S!HandlesRight'
    BY <2>1, <2>4, <2>5, HandlesPast
  <2>6. QED
    BY <2>2, <2>3, <2>5, Zenon
<1>9. ASSUME NEW c \in S!Clients, S!QueryStatus(c) \/ S!Wait(c) PROVE S!HandlesRight'
  <2>1. request[c].at \in {"query", "wait"} /\ UNCHANGED <<handles, leaks>>
    BY <1>9 DEF S!QueryStatus, S!Wait, S!At, S!Same
  <2>2. S!Goes(c, "close", TRUE) \/ S!Goes(c, "close", FALSE) \/ S!Goes(c, "control", FALSE)
    BY <1>9 DEF S!QueryStatus, S!Wait
  <2>3. QED
    BY <1>1, <1>2, <2>1, <2>2 DEF First
<1>10. ASSUME NEW c \in S!Clients, S!ControlService(c) PROVE S!HandlesRight'
  <2>1. request[c].at = "control" /\ UNCHANGED <<handles, leaks>>
    BY <1>10 DEF S!ControlService, S!At, S!Same, S!Collect
  <2>2. \/ S!Goes(c, "close", TRUE) \/ S!Goes(c, "close", FALSE)
        \/ S!Goes(c, S!Following(c), FALSE)
    BY <1>10 DEF S!ControlService
  <2>3. QED
    BY <1>1, <1>2, <2>1, <2>2 DEF First
<1>11. ASSUME NEW c \in S!Clients, S!DeleteService(c) PROVE S!HandlesRight'
  <2>1. request[c].at = "delete" /\ UNCHANGED <<handles, leaks>>
    BY <1>11 DEF S!DeleteService, S!At, S!Same, S!Collect, S!Unseen
  <2>2. S!Goes(c, "close", TRUE) \/ S!Goes(c, "close", FALSE)
    BY <1>11 DEF S!DeleteService
  <2>3. QED
    BY <1>1, <1>2, <2>1, <2>2 DEF First
<1>12. ASSUME NEW c \in S!Clients, NEW op, NEW n \in Services, S!Begin(c, op, n)
       PROVE  S!HandlesRight'
  <2>1. /\ request[c].at = "idle" /\ UNCHANGED <<handles, leaks>>
        /\ request' = [request EXCEPT ![c] =
             [op |-> op, name |-> n, rt |-> FALSE,
              at |-> IF op \in {"create", "load"} THEN "create" ELSE "open"]]
    BY <1>12 DEF S!Begin, S!At
  <2>2. request'[c].at \in First /\ \A d \in S!Clients \ {c} : request'[d] = request[d]
    BY <2>1 DEF S!TypeOK, First
  <2>3. QED
    BY <2>1, <2>2 DEF S!HandlesRight, First, S!On
<1>13. ASSUME NEW c \in S!Clients, S!ProcessEnds(c) PROVE S!HandlesRight'
  <2>1. /\ request[c].at = "idle" /\ request' = request
        /\ handles' = [handles EXCEPT ![c] = [n \in Services |-> 0]]
        /\ leaks' = [leaks EXCEPT ![c] = [n \in Services |-> 0]]
    BY <1>13 DEF S!ProcessEnds, S!At, S!Collect
  <2>2. /\ \A n \in Services : handles'[c][n] = 0 /\ leaks'[c][n] = 0
        /\ \A d \in S!Clients \ {c} : handles'[d] = handles[d] /\ leaks'[d] = leaks[d]
    BY <2>1 DEF S!TypeOK
  <2>3. QED
    BY <2>1, <2>2 DEF S!HandlesRight, S!On
<1>14. CASE UNCHANGED <<request, handles, leaks>>
  BY <1>14 DEF S!HandlesRight, S!On
<1>15. ASSUME NEW n \in Services, S!Comes(n) \/ S!Falls(n) \/ S!Disable(n)
       PROVE  UNCHANGED <<request, handles, leaks>>
  BY <1>15 DEF S!Comes, S!Falls, S!Disable, S!Collect, S!Same, S!Unseen
<1>16. UNCHANGED services => UNCHANGED <<request, handles, leaks>>
  BY DEF services
<1>17. QED
  BY <1>3, <1>4, <1>5, <1>6, <1>7, <1>8, <1>9, <1>10, <1>11, <1>12, <1>13, <1>14, <1>15,
     <1>16, HandlesClose, HandlesReturn, ServiceCases

LEMMA ServiceTypeStep ==
  S!TypeOK /\ S!OnTheWay /\ S!HandlesRight /\ S!MarkedHeld /\ [S!Next]_services => S!TypeOK'
<1> SUFFICES ASSUME S!TypeOK, S!OnTheWay, S!HandlesRight, S!MarkedHeld, [S!Next]_services
             PROVE  S!TypeOK'
  OBVIOUS
<1>1. /\ exists' \subseteq Services /\ marked' \subseteq Services /\ state' \in StatesType
      /\ handles' \in [S!Clients -> [Services -> Nat]]
      /\ request' \in [S!Clients -> CallType]
  BY MarkedStep, OnTheWayStep
<1>2. disabled' \subseteq Services
  <2>1. ASSUME NEW c \in S!Clients, S!ChangeServiceConfig(c) PROVE disabled' \subseteq Services
    <3>1. S!On(c) \in Services
      BY <2>1 DEF S!ChangeServiceConfig, S!OnTheWay, S!At
    <3>2. disabled' \subseteq disabled \cup {S!On(c)}
      BY <2>1 DEF S!ChangeServiceConfig
    <3>3. QED
      BY <3>1, <3>2 DEF S!TypeOK
  <2>2. ASSUME NEW n \in Services, S!Disable(n) PROVE disabled' \subseteq Services
    BY <2>2 DEF S!Disable, S!TypeOK
  <2>3. \/ \E c \in S!Clients : S!ChangeServiceConfig(c)
        \/ \E n \in Services : S!Disable(n)
        \/ disabled' = disabled
    BY ServiceCases DEF S!Begin, S!OpenService, S!CreateService, S!QueryConfig, S!StartService,
      S!Poll, S!QueryStatus, S!ControlService, S!Wait, S!DeleteService, S!CloseHandle,
      S!ReturnOnly, S!ProcessEnds, S!Comes, S!Falls, services
  <2>4. QED
    BY <2>1, <2>2, <2>3 DEF S!TypeOK
<1>3. leaks' \in [S!Clients -> [Services -> Nat]]
  <2>1. ASSUME NEW c \in S!Clients, S!ProcessEnds(c)
        PROVE  leaks' \in [S!Clients -> [Services -> Nat]]
    BY <2>1 DEF S!ProcessEnds, S!TypeOK
  <2>2. \/ \E c \in S!Clients : S!ReturnOnly(c) \/ S!ProcessEnds(c)
        \/ leaks' = leaks
    BY ServiceCases DEF S!Begin, S!OpenService, S!CreateService, S!QueryConfig, S!StartService,
      S!Poll, S!QueryStatus, S!ControlService, S!Wait, S!DeleteService, S!CloseHandle,
      S!ChangeServiceConfig, S!Comes, S!Falls, S!Disable, S!Unseen, services
  <2>3. QED
    BY <2>1, <2>2, HandlesReturn DEF S!TypeOK
<1>4. requests' \in [S!Clients -> Nat]
  <2>1. ASSUME NEW c \in S!Clients, NEW op, NEW n, S!Begin(c, op, n)
        PROVE  requests' \in [S!Clients -> Nat]
    BY <2>1 DEF S!Begin, S!TypeOK
  <2>2. \/ \E c \in S!Clients : \E op, n : S!Begin(c, op, n)
        \/ requests' = requests
    BY ServiceCases DEF S!OpenService, S!CreateService, S!QueryConfig, S!StartService,
      S!Poll, S!QueryStatus, S!ControlService, S!Wait, S!DeleteService, S!CloseHandle,
      S!ChangeServiceConfig, S!ReturnOnly, S!ProcessEnds, S!Comes, S!Falls, S!Disable,
      S!Unseen, services
  <2>3. QED
    BY <2>1, <2>2 DEF S!TypeOK
<1>5. ran' \subseteq S!Clients /\ again' \subseteq S!Clients
  <2> USE DEF S!TypeOK, S!Notice, S!Unseen
  <2>1. ASSUME NEW c \in S!Clients, NEW op, NEW n, S!Begin(c, op, n)
        PROVE  ran' \subseteq S!Clients /\ again' \subseteq S!Clients
    BY <2>1 DEF S!Begin
  <2>2. ASSUME NEW c \in S!Clients, S!StartService(c)
        PROVE  ran' \subseteq S!Clients /\ again' \subseteq S!Clients
    BY <2>2 DEF S!StartService
  <2>3. ASSUME NEW c \in S!Clients, S!QueryStatus(c) \/ S!Wait(c) \/ S!ControlService(c)
        PROVE  ran' \subseteq S!Clients /\ again' \subseteq S!Clients
    BY <2>3 DEF S!QueryStatus, S!Wait, S!ControlService
  <2>4. ASSUME NEW n \in Services, S!Comes(n)
        PROVE  ran' \subseteq S!Clients /\ again' \subseteq S!Clients
    BY <2>4 DEF S!Comes
  <2>5. \/ \E c \in S!Clients : \E op, n : S!Begin(c, op, n)
        \/ \E c \in S!Clients : S!StartService(c) \/ S!QueryStatus(c) \/ S!Wait(c)
                                  \/ S!ControlService(c)
        \/ \E n \in Services : S!Comes(n)
        \/ UNCHANGED <<ran, again>>
    BY ServiceCases DEF S!OpenService, S!CreateService, S!QueryConfig, S!Poll,
      S!DeleteService, S!CloseHandle, S!ChangeServiceConfig, S!ReturnOnly, S!ProcessEnds,
      S!Falls, S!Disable, services
  <2>6. QED
    BY <2>1, <2>2, <2>3, <2>4, <2>5
<1>6. QED
  BY <1>1, <1>2, <1>3, <1>4, <1>5 DEF S!TypeOK, CallType, StatesType

\* What a step does to the state of a service: whoever has called for one that
\* comes to run is told.
StateMoves(n) ==
  \/ state'[n] = state[n] \/ state'[n] = "stopped"
  \/ state'[n] = "stopping" /\ state[n] = "running"
  \/ state'[n] = "starting" /\ n \notin Devices
  \/ state'[n] = "running" /\ \A c \in S!Clients : request[c].name = n => c \in ran' /\ c \in again'

LEMMA StatesMove ==
  ASSUME S!TypeOK, [S!Next]_services, NEW n \in Services
  PROVE  StateMoves(n)
<1>1. state \in StatesType
  BY DEF S!TypeOK, StatesType
<1>2. ASSUME NEW c \in S!Clients, S!StartService(c) PROVE StateMoves(n)
  <2>1. \/ state' = state
        \/ /\ state' = [state EXCEPT ![S!On(c)] = IF S!On(c) \in Devices THEN "running" ELSE "starting"]
           /\ S!On(c) \in Devices => S!Notice(S!On(c))
    BY <1>2 DEF S!StartService, S!Same, S!Collect
  <2>2. QED
    BY <1>1, <2>1 DEF StateMoves, S!Notice, StatesType
<1>3. ASSUME NEW c \in S!Clients, S!ControlService(c) PROVE StateMoves(n)
  <2>1. \/ state' = state
        \/ /\ state[S!On(c)] = "running"
           /\ \E s \in {"stopped", "stopping"} : state' = [state EXCEPT ![S!On(c)] = s]
    BY <1>3 DEF S!ControlService, S!Same, S!Collect
  <2>2. QED
    BY <1>1, <2>1 DEF StateMoves, StatesType
<1>4. ASSUME NEW m \in Services, S!Comes(m) PROVE StateMoves(n)
  <2>1. state' = [state EXCEPT ![m] = "running"] /\ S!Notice(m)
    BY <1>4 DEF S!Comes, S!Collect
  <2>2. QED
    BY <1>1, <2>1 DEF StateMoves, S!Notice, StatesType
<1>5. ASSUME NEW m \in Services, S!Falls(m) PROVE StateMoves(n)
  <2>1. state' = [state EXCEPT ![m] = "stopped"]
    BY <1>5 DEF S!Falls, S!Collect
  <2>2. QED
    BY <1>1, <2>1 DEF StateMoves, StatesType
<1>6. \/ \E c \in S!Clients : S!StartService(c) \/ S!ControlService(c)
      \/ \E m \in Services : S!Comes(m) \/ S!Falls(m)
      \/ state' = state
  BY ServiceCases DEF S!Begin, S!OpenService, S!CreateService, S!QueryConfig, S!Poll,
    S!ChangeServiceConfig, S!QueryStatus, S!Wait, S!DeleteService, S!CloseHandle, S!ReturnOnly,
    S!ProcessEnds, S!Disable, S!Same, S!Collect, services
<1>7. QED
  BY <1>2, <1>3, <1>4, <1>5, <1>6 DEF StateMoves

\* The steps of a client's own call, after it has begun.
Own(c) ==
  \/ S!OpenService(c) \/ S!CreateService(c) \/ S!QueryConfig(c) \/ S!ChangeServiceConfig(c)
  \/ S!StartService(c) \/ S!Poll(c) \/ S!QueryStatus(c) \/ S!ControlService(c) \/ S!Wait(c)
  \/ S!DeleteService(c) \/ S!CloseHandle(c) \/ S!ReturnOnly(c)
Begins(c) == \E op \in S!Calls(c), n \in Services : S!Begin(c, op, n)

\* What is known of a client is not forgotten, but where its own steps say so.
LEMMA GhostsStay ==
  ASSUME S!TypeOK, S!OnTheWay, [S!Next]_services, NEW c \in S!Clients
  PROVE  /\ ~Begins(c) => ran \cap {c} \subseteq ran'
         /\ ~Begins(c) /\ ~Own(c) => request'[c] = request[c] /\ again \cap {c} \subseteq again'
<1>1. ASSUME NEW d \in S!Clients, Own(d), d # c
      PROVE  request'[c] = request[c] /\ again \cap {c} \subseteq again'
  <2>1. request'[c] = request[c]
    <3>1. CASE S!CloseHandle(d)
      BY <1>1, <3>1, CloseLeads DEF S!CloseHandle
    <3>2. CASE ~S!CloseHandle(d)
      BY <1>1, <3>2, RequestLeads DEF Own, Leads, Moved
    <3>3. QED
      BY <3>1, <3>2
  <2>2. again \cap {c} \subseteq again'
    BY <1>1 DEF Own, S!OpenService, S!CreateService, S!QueryConfig, S!Poll, S!StartService,
      S!ChangeServiceConfig, S!QueryStatus, S!Wait, S!ControlService, S!DeleteService,
      S!CloseHandle, S!ReturnOnly, S!Unseen, S!Notice
  <2>3. QED
    BY <2>1, <2>2
<1>2. ASSUME NEW d \in S!Clients, Own(d) PROVE ran \subseteq ran'
  BY <1>2 DEF Own, S!OpenService, S!CreateService, S!QueryConfig, S!Poll, S!StartService,
      S!ChangeServiceConfig, S!QueryStatus, S!Wait, S!ControlService, S!DeleteService,
      S!CloseHandle, S!ReturnOnly, S!Unseen, S!Notice
<1>3. ASSUME NEW d \in S!Clients, NEW op \in S!Calls(d), NEW n \in Services, S!Begin(d, op, n), d # c
      PROVE  request'[c] = request[c] /\ again \cap {c} \subseteq again' /\ ran \cap {c} \subseteq ran'
  BY <1>3 DEF S!Begin, S!TypeOK
<1>4. \/ \E d \in S!Clients : Own(d) \/ Begins(d)
      \/ ran \subseteq ran' /\ again \subseteq again' /\ request' = request
  BY ServiceCases DEF Own, Begins, S!ProcessEnds, S!Comes, S!Falls, S!Disable, S!Notice,
    S!Unseen, services
<1>5. QED
  BY <1>1, <1>2, <1>3, <1>4 DEF Begins

\* The parts of StatesSeen, for a client.
Saw(c) ==
  request[c].name \in Services /\ state[request[c].name] \in {"running", "stopping"} => c \in ran
Loaded(c) ==
  /\ request[c].op \in {"load", "startSvr"}
  /\ request[c].at = "poll" \/ (request[c].at \in {"close", "idle"} /\ request[c].rt)
  => c \in ran
Removing(c) ==
  \/ request[c].op = "delSvr"
  \/ request[c].op = "stopSvr" /\ request[c].at = "close" /\ request[c].rt
Stayed(c) == Removing(c) => c \in again \/ state[request[c].name] = "stopped"

LEMMA SeenParts ==
  S!StatesSeen <=> /\ \A n \in Devices : state[n] # "starting"
                   /\ \A c \in S!Clients : Saw(c)
                   /\ \A c \in Installers : Loaded(c) /\ Stayed(c)
BY DEF S!StatesSeen, Saw, Loaded, Stayed, Removing, S!On, S!At

\* Whoever's service comes to run is told, and nobody forgets it during a call.
LEMMA SawStep ==
  ASSUME S!TypeOK, S!OnTheWay, [S!Next]_services, NEW c \in S!Clients, Saw(c)
  PROVE  Saw(c)'
<1>1. ASSUME NEW op \in S!Calls(c), NEW n \in Services, S!Begin(c, op, n) PROVE Saw(c)'
  <2>1. /\ request'[c].name = n /\ state' = state
        /\ ran' = IF state[n] \in {"running", "stopping"} THEN ran \cup {c} ELSE ran \ {c}
    BY <1>1 DEF S!Begin, S!TypeOK
  <2>2. QED
    BY <2>1 DEF Saw
<1>2. CASE ~Begins(c)
  <2>1. request'[c].name = request[c].name
    <3>1. CASE S!CloseHandle(c)
      BY <3>1, CloseLeads DEF S!CloseHandle
    <3>2. CASE Own(c) /\ ~S!CloseHandle(c)
      BY <3>2, RequestLeads DEF Own, Leads, Moved
    <3>3. CASE ~Own(c)
      BY <1>2, <3>3, GhostsStay
    <3>4. QED
      BY <3>1, <3>2, <3>3
  <2>2. c \in ran => c \in ran'
    BY <1>2, GhostsStay
  <2>3. request[c].name \in Services => StateMoves(request[c].name)
    BY StatesMove
  <2>4. QED
    BY <2>1, <2>2, <2>3 DEF Saw, StateMoves
<1>3. QED
  BY <1>1, <1>2 DEF Begins

\* A driver that was stopped stays so, or is known to have been started.
LEMMA StaysStopped ==
  ASSUME S!TypeOK, S!OnTheWay, [S!Next]_services, NEW c \in Installers,
         request[c].op \in S!Installing, c \in again => c \in again',
         c \in again \/ state[request[c].name] = "stopped"
  PROVE  c \in again' \/ state'[request[c].name] = "stopped"
<1>1. c \in S!Clients
  BY DEF S!Clients
<1>2. request[c].name \in Devices
  BY <1>1 DEF S!OnTheWay, S!On, S!Installing
<1>3. StateMoves(request[c].name)
  BY <1>2, StatesMove, ServicesAssumption
<1>4. QED
  BY <1>1, <1>2, <1>3 DEF StateMoves

\* Which call a request belongs to, and what follows it.
LEMMA RequestsIn ==
  ASSUME S!TypeOK, S!OnTheWay, NEW c \in S!Clients, request[c].at \notin {"idle", "close", "return"}
  PROVE  LET op == request[c].op  at0 == request[c].at IN
         /\ at0 = "create" => op \in {"create", "load"}
         /\ at0 = "config" => op \in {"start", "startArgs", "info"}
         /\ at0 = "change" => op \in {"start", "startArgs", "change"}
         /\ at0 = "start" => op \in {"start", "startArgs", "load", "startSvr"}
         /\ at0 = "poll" => op \in {"start", "load"}
         /\ at0 = "query" => op = "stopSvr"
         /\ at0 = "control" => op \in {"stop", "control", "stopSvr", "delSvr"}
         /\ at0 = "wait" => op = "stopSvr"
         /\ at0 = "delete" => op \in {"remove", "delSvr"}
         /\ at0 = "open" /\ op = "startSvr" => S!Following(c) = "start"
         /\ at0 = "open" => op # "load"
         /\ at0 = "open" /\ op = "stopSvr" => S!Following(c) = "query"
         /\ at0 = "create" /\ op = "load" => S!Following(c) = "start"
         /\ at0 = "control" /\ op = "stopSvr" => S!Following(c) = "wait"
         /\ at0 = "start" /\ op = "startSvr" => S!Following(c) = "close"
         /\ at0 = "poll" /\ op = "load" => S!Following(c) = "close"
<1>1. request[c].op \in DOMAIN S!Flow /\ request[c].at \in DOMAIN S!Flow[request[c].op]
  BY FollowingIs
<1>2. QED
  BY <1>1, FlowRequests, FlowTable DEF S!Following

\* An installer that has the answer of a load or a start has seen the driver run.
LEMMA LoadedStep ==
  ASSUME S!TypeOK, S!OnTheWay, S!StatesSeen, [S!Next]_services, NEW c \in Installers
  PROVE  Loaded(c)'
<1>1. c \in S!Clients /\ Saw(c) /\ Loaded(c)
  BY SeenParts DEF S!Clients
<1> DEFINE op == request[c].op
<1>2. ~Begins(c) => (c \in ran => c \in ran')
  BY <1>1, GhostsStay
<1>3. ASSUME NEW a \in S!Points, NEW r \in BOOLEAN, S!Goes(c, a, r)
      PROVE  request'[c].op = op /\ request'[c].at = a /\ request'[c].rt = r
  BY <1>1, <1>3, GoesTo DEF Moved
<1>4. ASSUME request[c].at \notin {"idle", "close", "return"}
      PROVE  S!Following(c) \in S!Points \ First
             /\ {"idle", "change", "close", "return", "control", "wait"} \subseteq S!Points
  BY <1>1, <1>4, FollowingIs
<1>5. ASSUME NEW o \in S!Calls(c), NEW n \in Services, S!Begin(c, o, n) PROVE Loaded(c)'
  BY <1>1, <1>5 DEF S!Begin, S!TypeOK, Loaded
<1> USE DEF S!At
<1>6. CASE S!OpenService(c)
  <2>1. request[c].at = "open"
    BY <1>6 DEF S!OpenService
  <2>2. S!Goes(c, S!Following(c), FALSE) \/ S!Goes(c, "idle", FALSE)
    BY <1>6 DEF S!OpenService
  <2>3. /\ request'[c].op = op /\ request'[c].rt = FALSE
        /\ request'[c].at \in {"idle", S!Following(c)}
    BY <1>3, <1>4, <2>1, <2>2
  <2>4. op # "load" /\ (op = "startSvr" => S!Following(c) = "start")
    BY <1>1, <2>1, RequestsIn
  <2>5. QED
    BY <2>3, <2>4 DEF Loaded
<1>7. CASE S!CreateService(c) /\ op = "load"
  <2>1. request[c].at = "create"
    BY <1>7 DEF S!CreateService
  <2>2. S!Goes(c, S!Following(c), FALSE) \/ S!Goes(c, "idle", FALSE)
    BY <1>7 DEF S!CreateService
  <2>3. /\ request'[c].op = op /\ request'[c].rt = FALSE
        /\ request'[c].at \in {"idle", S!Following(c)}
    BY <1>3, <1>4, <2>1, <2>2
  <2>4. S!Following(c) = "start"
    BY <1>1, <1>7, <2>1, RequestsIn
  <2>5. QED
    BY <2>3, <2>4 DEF Loaded
<1>8. CASE S!StartService(c) /\ op \in {"load", "startSvr"}
  <2>1. request[c].at = "start" /\ S!On(c) \in Devices /\ S!On(c) \in Services
    <3>1. request[c].at = "start"
      BY <1>8 DEF S!StartService
    <3>2. QED
      BY <1>1, <1>8, <3>1 DEF S!OnTheWay
  <2>2. op \in S!Installing /\ op # "start"
    BY <1>8 DEF S!Installing
  <2>3. CASE S!Notice(S!On(c))
    BY <1>1, <2>3 DEF S!Notice, S!On, Loaded
  <2>4. CASE state[S!On(c)] # "stopped"
    <3>1. state[S!On(c)] # "starting"
      BY <2>1 DEF S!StatesSeen
    <3>2. state[S!On(c)] \in {"stopped", "starting", "running", "stopping"}
      BY <2>1 DEF S!TypeOK
    <3>3. c \in ran
      BY <1>1, <2>1, <2>4, <3>1, <3>2 DEF S!StatesSeen
    <3>4. c \in ran'
      BY <1>8, <3>3 DEF S!StartService, S!Notice
    <3>5. QED
      BY <3>4 DEF Loaded
  <2>5. CASE S!Goes(c, "close", FALSE)
    <3>1. request'[c].at = "close" /\ request'[c].rt = FALSE
      BY <1>3, <1>4, <2>1, <2>5
    <3>2. QED
      BY <3>1 DEF Loaded
  <2>6. S!Notice(S!On(c)) \/ state[S!On(c)] # "stopped" \/ S!Goes(c, "close", FALSE)
    <3>1. (op \in S!Installing) = TRUE /\ (op = "start") = FALSE
      BY <2>2
    <3>2. QED
      BY <1>8, <2>1, <3>1 DEF S!StartService
  <2>7. QED
    BY <2>3, <2>4, <2>5, <2>6
<1>9. CASE S!Poll(c) /\ op = "load"
  <2>1. c \in ran /\ ran' = ran
    BY <1>1, <1>9 DEF S!Poll, S!Unseen, Loaded
  <2>2. QED
    BY <2>1 DEF Loaded
<1>10. CASE S!CloseHandle(c)
  <2>1. request[c].at = "close" /\ ran' = ran /\ S!Ends(c)
    BY <1>10 DEF S!CloseHandle, S!Unseen
  <2>2. \/ /\ request'[c].op = op /\ request'[c].at = "idle" /\ request'[c].rt = request[c].rt
        \/ request'[c].op = "delSvr"
    BY <1>1, <2>1, CloseLeads
  <2>3. QED
    BY <1>1, <2>1, <2>2 DEF Loaded
<1>11. ASSUME ~Own(c), ~Begins(c) PROVE Loaded(c)'
  BY <1>1, <1>2, <1>11, GhostsStay DEF Loaded
<1>12. ASSUME Own(c), ~S!CloseHandle(c), op \notin {"load", "startSvr"} PROVE Loaded(c)'
  <2>1. request'[c].op = op
    BY <1>1, <1>12, RequestLeads DEF Own, Leads, Moved
  <2>2. QED
    BY <1>12, <2>1 DEF Loaded
<1>13. ASSUME op \in {"load", "startSvr"}, Own(c)
       PROVE  \/ S!OpenService(c) \/ S!StartService(c) \/ S!CloseHandle(c)
              \/ (S!CreateService(c) \/ S!Poll(c)) /\ op = "load"
  <2>1. request[c].at = "return" => op \in {"start", "startArgs"}
    BY <1>1 DEF S!OnTheWay
  <2>2. \/ S!OpenService(c) \/ S!CreateService(c) \/ S!StartService(c) \/ S!CloseHandle(c)
        \/ S!Poll(c) /\ request[c].at = "poll"
        \/ request[c].at \in {"config", "change", "query", "control", "wait", "delete", "return"}
    BY <1>13 DEF Own, S!QueryConfig, S!ChangeServiceConfig, S!Poll, S!QueryStatus,
      S!ControlService, S!Wait, S!DeleteService, S!ReturnOnly
  <2>3. S!CreateService(c) => request[c].at = "create"
    BY DEF S!CreateService
  <2>4. request[c].at \in {"create", "poll"} => op = "load"
    BY <1>1, <1>13, RequestsIn
  <2>5. request[c].at \notin {"config", "change", "query", "control", "wait", "delete", "return"}
    BY <1>1, <1>13, <2>1, RequestsIn
  <2>6. QED
    BY <2>2, <2>3, <2>4, <2>5
<1>14. CASE Begins(c)
  <2>1. PICK o \in S!Calls(c), n \in Services : S!Begin(c, o, n)
    BY <1>14 DEF Begins
  <2>2. QED
    BY <1>5, <2>1
<1>15. CASE Own(c)
  <2>1. CASE op \in {"load", "startSvr"}
    BY <1>6, <1>7, <1>8, <1>9, <1>10, <1>13, <1>15, <2>1
  <2>2. CASE op \notin {"load", "startSvr"}
    BY <1>10, <1>12, <1>15, <2>2
  <2>3. QED
    BY <2>1, <2>2
<1>16. QED
  BY <1>11, <1>14, <1>15

\* An installer that has the answer of a stop knows the driver stopped, and it
\* stays so while the installer goes on to delete it, unless somebody starts it.
LEMMA StayedStep ==
  ASSUME S!TypeOK, S!OnTheWay, S!StatesSeen, [S!Next]_services, NEW c \in Installers
  PROVE  Stayed(c)'
<1>1. c \in S!Clients /\ Stayed(c)
  BY SeenParts DEF S!Clients
<1> DEFINE op == request[c].op
<1>2. ASSUME NEW a \in S!Points, NEW r \in BOOLEAN, S!Goes(c, a, r)
      PROVE  /\ request'[c].op = op /\ request'[c].name = request[c].name
             /\ request'[c].at = a /\ request'[c].rt = r
  BY <1>1, <1>2, GoesTo DEF Moved
<1>3. ASSUME request[c].at \notin {"idle", "close", "return"}
      PROVE  S!Following(c) \in S!Points
             /\ {"idle", "change", "close", "return", "control", "wait"} \subseteq S!Points
  BY <1>1, <1>3, FollowingIs
<1> USE DEF S!At
<1>4. ASSUME NEW o \in S!Calls(c), NEW n \in Services, S!Begin(c, o, n) PROVE Stayed(c)'
  <2>1. o # "delSvr"
    BY DEF S!Calls, S!Installing
  <2>2. request'[c].op = o /\ request'[c].at \in {"create", "open"}
    BY <1>1, <1>4 DEF S!Begin, S!TypeOK
  <2>3. QED
    BY <2>1, <2>2 DEF Stayed, Removing
\* What is not deleted, or stopped with success, says nothing yet.
<1>5. ASSUME Own(c), ~S!CloseHandle(c), op \notin {"stopSvr", "delSvr"} PROVE Stayed(c)'
  <2>1. request'[c].op = op
    BY <1>1, <1>5, RequestLeads DEF Own, Leads, Moved
  <2>2. QED
    BY <1>5, <2>1 DEF Stayed, Removing
<1>6. ASSUME Own(c), ~S!CloseHandle(c), op = "delSvr" PROVE Stayed(c)'
  <2>1. request'[c].op = op /\ request'[c].name = request[c].name
    BY <1>1, <1>6, RequestLeads DEF Own, Leads, Moved
  <2>2. request[c].at \notin {"query", "wait"}
    <3>1. ASSUME request[c].at \in {"query", "wait"} PROVE op = "stopSvr"
      BY <1>1, <3>1, RequestsIn
    <3>2. QED
      BY <1>6, <3>1
  <2>3. c \in again => c \in again'
    BY <1>6, <2>2 DEF Own, S!OpenService, S!CreateService, S!QueryConfig, S!Poll,
      S!StartService, S!ChangeServiceConfig, S!QueryStatus, S!Wait, S!ControlService,
      S!DeleteService, S!ReturnOnly, S!Unseen, S!Notice
  <2>4. c \in again \/ state[request[c].name] = "stopped"
    BY <1>1, <1>6 DEF Stayed, Removing
  <2>5. op \in S!Installing
    BY <1>6 DEF S!Installing
  <2>6. c \in again' \/ state'[request[c].name] = "stopped"
    BY <2>3, <2>4, <2>5, StaysStopped
  <2>7. QED
    BY <2>1, <2>6 DEF Stayed
<1>7. ASSUME S!OpenService(c), op = "stopSvr" PROVE Stayed(c)'
  <2>1. request[c].at = "open"
    BY <1>7 DEF S!OpenService
  <2>2. S!Goes(c, S!Following(c), FALSE) \/ S!Goes(c, "idle", FALSE)
    BY <1>7 DEF S!OpenService
  <2>3. request'[c].op = op /\ request'[c].rt = FALSE
    BY <1>2, <1>3, <2>1, <2>2
  <2>4. QED
    BY <1>7, <2>3 DEF Stayed, Removing
<1>8. ASSUME S!QueryStatus(c) \/ S!Wait(c), op = "stopSvr" PROVE Stayed(c)'
  <2>1. request[c].at \in {"query", "wait"} /\ state' = state
    BY <1>8 DEF S!QueryStatus, S!Wait, S!Same
  <2>2. \/ state[request[c].name] = "stopped" /\ S!Goes(c, "close", TRUE)
        \/ S!Goes(c, "control", FALSE) \/ S!Goes(c, "close", FALSE)
    BY <1>8 DEF S!QueryStatus, S!Wait, S!On
  <2>3. /\ request'[c].op = op /\ request'[c].name = request[c].name
        /\ state[request[c].name] = "stopped" \/ request'[c].rt = FALSE
    BY <1>2, <1>3, <2>1, <2>2
  <2>4. QED
    BY <1>8, <2>1, <2>3 DEF Stayed, Removing
<1>9. ASSUME S!ControlService(c), op = "stopSvr" PROVE Stayed(c)'
  <2>1. request[c].at = "control" /\ request[c].name \in Services
    BY <1>1, <1>9 DEF S!ControlService, S!OnTheWay, S!On
  <2>2. \/ S!Goes(c, S!Following(c), FALSE) \/ S!Goes(c, "close", FALSE)
        \/ state' = [state EXCEPT ![request[c].name] = "stopped"] /\ S!Goes(c, "close", TRUE)
    BY <1>9 DEF S!ControlService, S!On, S!Collect
  <2>3. /\ request'[c].op = op /\ request'[c].name = request[c].name
        /\ state'[request[c].name] = "stopped" \/ request'[c].rt = FALSE
    <3>1. state' = [state EXCEPT ![request[c].name] = "stopped"]
            => state'[request[c].name] = "stopped"
      BY <2>1 DEF S!TypeOK
    <3>2. QED
      BY <1>2, <1>3, <2>1, <2>2, <3>1
  <2>4. QED
    BY <1>9, <2>3 DEF Stayed, Removing
<1>10. CASE S!CloseHandle(c)
  <2>1. request[c].at = "close" /\ again' = again /\ state' = state /\ S!Ends(c)
    BY <1>10 DEF S!CloseHandle, S!Unseen, S!Collect
  <2>2. /\ request'[c].name = request[c].name
        /\ \/ request'[c].op = op /\ request'[c].at = "idle"
           \/ op = "stopSvr" /\ request[c].rt
    BY <1>1, <2>1, CloseLeads
  <2>3. QED
    BY <1>1, <2>1, <2>2 DEF Stayed, Removing
<1>11. ASSUME ~Own(c), ~Begins(c) PROVE Stayed(c)'
  <2>1. request'[c] = request[c] /\ (c \in again => c \in again')
    BY <1>1, <1>11, GhostsStay
  <2>2. Removing(c) => op \in S!Installing
    BY DEF Removing, S!Installing
  <2>3. Removing(c) => c \in again' \/ state'[request[c].name] = "stopped"
    BY <1>1, <2>1, <2>2, StaysStopped DEF Stayed
  <2>4. QED
    BY <2>1, <2>3 DEF Stayed, Removing
<1>12. ASSUME op = "stopSvr", Own(c)
       PROVE  \/ S!OpenService(c) \/ S!QueryStatus(c) \/ S!Wait(c) \/ S!ControlService(c)
              \/ S!CloseHandle(c)
  <2>1. request[c].at \notin {"create", "config", "change", "start", "poll", "delete", "return"}
    BY <1>1, <1>12, RequestsIn DEF S!OnTheWay
  <2>2. QED
    BY <1>12, <2>1 DEF Own, S!CreateService, S!QueryConfig, S!ChangeServiceConfig,
      S!StartService, S!Poll, S!DeleteService, S!ReturnOnly
<1>13. CASE Begins(c)
  <2>1. PICK o \in S!Calls(c), n \in Services : S!Begin(c, o, n)
    BY <1>13 DEF Begins
  <2>2. QED
    BY <1>4, <2>1
<1>14. QED
  BY <1>5, <1>6, <1>7, <1>8, <1>9, <1>10, <1>11, <1>12, <1>13

LEMMA SeenStep ==
  S!TypeOK /\ S!OnTheWay /\ S!StatesSeen /\ [S!Next]_services => S!StatesSeen'
<1> SUFFICES ASSUME S!TypeOK, S!OnTheWay, S!StatesSeen, [S!Next]_services
             PROVE  S!StatesSeen'
  OBVIOUS
<1>1. ASSUME NEW n \in Devices PROVE state'[n] # "starting"
  <2>1. StateMoves(n) /\ state[n] # "starting"
    BY StatesMove, ServicesAssumption DEF S!StatesSeen
  <2>2. QED
    BY <2>1 DEF StateMoves
<1>2. ASSUME NEW c \in S!Clients PROVE Saw(c)'
  BY SawStep, SeenParts
<1>3. ASSUME NEW c \in Installers PROVE Loaded(c)' /\ Stayed(c)'
  BY LoadedStep, StayedStep
<1>4. QED
  BY <1>1, <1>2, <1>3 DEF S!StatesSeen, Saw, Loaded, Stayed, Removing, S!On, S!At

-----------------------------------------------------------------------------
LEMMA ServiceInit == S!Init => S!IInv
<1> SUFFICES ASSUME S!Init PROVE S!IInv
  OBVIOUS
<1>1. /\ request = [c \in S!Clients |-> [op |-> "none", name |-> "none", at |-> "idle", rt |-> FALSE]]
      /\ state = [n \in Services |-> "stopped"] /\ exists \in {{}, Services} /\ marked = {}
      /\ disabled = {} /\ ran = {} /\ again = {}
      /\ handles = [c \in S!Clients |-> [n \in Services |-> 0]] /\ leaks = handles
      /\ requests = [c \in S!Clients |-> 0]
  BY DEF S!Init
<1>2. "idle" \in S!Points /\ FALSE \in BOOLEAN
  BY DEF S!Points
<1>3. S!TypeOK
  BY <1>1, <1>2 DEF S!TypeOK
<1>4. S!OnTheWay
  BY <1>1 DEF S!OnTheWay, S!At, S!On, S!Clients
<1>5. S!HandlesRight
  BY <1>1 DEF S!HandlesRight, S!On
<1>6. S!MarkedHeld
  BY <1>1 DEF S!MarkedHeld
<1>7. S!StatesSeen
  BY <1>1, ServicesAssumption DEF S!StatesSeen, S!At, S!On, S!Clients
<1>8. QED
  BY <1>3, <1>4, <1>5, <1>6, <1>7 DEF S!IInv

LEMMA ServiceStep == S!IInv /\ [S!Next]_services => S!IInv'
BY OnTheWayStep, ServiceTypeStep, HandlesStep, MarkedStep, SeenStep DEF S!IInv

LEMMA ServiceInv == Spec => []S!IInv
<1>1. Init => S!IInv
  BY ServiceInit DEF Init
<1>2. S!IInv /\ [Next]_<<unit, services, registry, drivers>> => S!IInv'
  BY UnitSteps, ServiceStep
<1>3. QED
  BY <1>1, <1>2, PTL DEF Spec

\* Whatever requests of any number of clients fall between each other: once all
\* calls have returned, the open handles are those that start() has leaked, and a
\* service that was removed and has stopped is gone unless a process that leaked
\* one lives on (ServiceOperater, InstallDriver).
THEOREM RemovedServicesGo == Spec => []RemovedGoes
<1>1. ASSUME S!IInv, S!Idle PROVE handles = leaks
  <2>1. ASSUME NEW c \in S!Clients, NEW n \in Services PROVE handles[c][n] = leaks[c][n]
    <3>1. request[c].at = "idle"
      BY <1>1 DEF S!Idle, S!At
    <3>2. handles[c][n] = leaks[c][n] + 0 /\ leaks[c][n] \in Nat
      BY <1>1, <3>1 DEF S!IInv, S!HandlesRight, S!TypeOK
    <3>3. QED
      BY <3>2
  <2>2. /\ handles \in [S!Clients -> [Services -> Nat]]
        /\ leaks \in [S!Clients -> [Services -> Nat]]
    BY <1>1 DEF S!IInv, S!TypeOK
  <2>3. QED
    BY <2>1, <2>2
<1>2. ASSUME S!IInv, S!Idle, NEW n \in marked, state[n] = "stopped"
      PROVE  \E c \in Operators : leaks[c][n] > 0
  <2>1. PICK c \in S!Clients : handles[c][n] > 0
    BY <1>2 DEF S!IInv, S!MarkedHeld
  <2>2. leaks[c][n] > 0 /\ n \in Services
    BY <1>1, <1>2, <2>1 DEF S!IInv, S!TypeOK
  <2>3. c \in Operators
    BY <1>2, <2>2 DEF S!IInv, S!HandlesRight
  <2>4. QED
    BY <2>2, <2>3
<1>3. S!IInv => RemovedGoes
  BY <1>1, <1>2 DEF RemovedGoes, S!RemovedGoes
<1>4. QED
  BY <1>3, ServiceInv, PTL

\* What the installer reports is so: a driver it calls installed or started has
\* run since the call began, and one that it calls removed does not run, unless
\* another client has started it again (LoadNTDriver, StartSvr, StopSvr, DelSvr).
THEOREM InstallerReports == Spec => []InstallerRight
<1>1. S!IInv => S!InstalledRan /\ S!UninstalledStopped
  BY DEF S!IInv, S!StatesSeen, S!InstalledRan, S!UninstalledStopped, S!Answered, S!At
<1>2. S!IInv => InstallerRight
  BY <1>1 DEF InstallerRight
<1>3. QED
  BY <1>2, ServiceInv, PTL

--------------------------------------------------------------------------------
(***************************************************************************)
(* Objects on the registry (Registry, run by Programs): that remove()      *)
(* deletes only what its key names, that the end of an object spares what  *)
(* it has set itself, that values are read whole, and that what allKeys()  *)
(* lists is found, for any number of objects, calls, keys and values, all  *)
(* their requests interleaved.  The inductive invariant is R!IInv.         *)
(***************************************************************************)
(* Paths and prefixes                                                      *)

LEMMA PathsAre == R!Paths = {p \in Seq(Names) : Len(p) <= MaxDepth}
<1>1. ASSUME NEW p \in R!Paths PROVE p \in Seq(Names) /\ Len(p) <= MaxDepth
  <2>1. PICK m \in 0..MaxDepth : p \in [1..m -> Names]
    BY DEF R!Paths, R!SeqOf
  <2>2. m \in Nat /\ m <= MaxDepth
    BY RegistryAssumption
  <2>3. p \in Seq(Names) /\ Len(p) = m
    BY <2>1, <2>2
  <2>4. QED
    BY <2>2, <2>3
<1>2. ASSUME NEW p \in Seq(Names), Len(p) <= MaxDepth PROVE p \in R!Paths
  <2>1. Len(p) \in 0..MaxDepth /\ p \in [1..Len(p) -> Names]
    BY <1>2, LenProperties, RegistryAssumption
  <2>2. QED
    BY <2>1 DEF R!Paths, R!SeqOf
<1>3. QED
  BY <1>1, <1>2

LEMMA LocationsAre == Locations \subseteq R!Paths
BY PathsAre, RegistryAssumption

LEMMA PrefixIs ==
  ASSUME NEW Q, NEW s \in Seq(Q), NEW t \in Seq(Q)
  PROVE  R!IsPrefix(s, t) <=> Len(s) <= Len(t) /\ \A i \in 1..Len(s) : s[i] = t[i]
<1>1. SubSeq(s, 1, Len(s)) = s
  BY SubSeqFull
<1>2. Len(s) \in Nat /\ Len(t) \in Nat
  BY LenProperties
<1>3. ASSUME Len(s) <= Len(t)
      PROVE  /\ SubSeq(t, 1, Len(s)) \in Seq(Q) /\ Len(SubSeq(t, 1, Len(s))) = Len(s)
             /\ \A i \in 1..Len(s) : SubSeq(t, 1, Len(s))[i] = t[i]
  BY <1>2, <1>3, SubSeqProperties, LenProperties
<1>4. QED
  BY <1>1, <1>2, <1>3, SeqEqual DEF R!IsPrefix

LEMMA PrefixSelf ==
  ASSUME NEW Q, NEW s \in Seq(Q)
  PROVE  R!IsPrefix(s, s)
<1>1. Len(s) \in Nat
  BY LenProperties
<1>2. QED
  BY <1>1, PrefixIs

LEMMA PrefixAppend ==
  ASSUME NEW Q, NEW s \in Seq(Q), NEW t \in Seq(Q), NEW x \in Q, R!IsPrefix(s, t)
  PROVE  R!IsPrefix(s, Append(t, x))
<1>1. /\ Append(t, x) \in Seq(Q) /\ Len(Append(t, x)) = Len(t) + 1
      /\ \A i \in 1..Len(t) : Append(t, x)[i] = t[i]
  OBVIOUS
<1>2. Len(s) \in Nat /\ Len(t) \in Nat
  BY LenProperties
<1>3. Len(s) <= Len(t) /\ \A i \in 1..Len(s) : s[i] = t[i]
  BY PrefixIs
<1>4. Len(s) <= Len(Append(t, x)) /\ \A i \in 1..Len(s) : s[i] = Append(t, x)[i]
  BY <1>1, <1>2, <1>3
<1>5. QED
  BY <1>1, <1>4, PrefixIs

-----------------------------------------------------------------------------
(* Ids of new keys                                                         *)

\* A set that depends on the objects one by one is finite if there is one such
\* thing for each object.
LEMMA FiniteImage ==
  ASSUME NEW Q, IsFiniteSet(Q), NEW f, f = [x \in Q |-> f[x]]
  PROVE  IsFiniteSet({f[x] : x \in Q})
<1>1. f \in Surjection(Q, {f[x] : x \in Q})
  BY DEF Surjection
<1>2. QED
  BY <1>1, FS_Surjection

LEMMA HeldFinite ==
  ASSUME R!TypeOK
  PROVE  IsFiniteSet(R!Held)
<1> DEFINE hs == [u \in Users |-> handle[u]]
           ss == [u \in Users |-> call[u].sub]
           w(u) == call[u].walk
           of == [u \in Users |-> {w(u)[i].h : i \in DOMAIN w(u)}]
<1>1. IsFiniteSet(Users)
  BY RegistryAssumption
<1>2. IsFiniteSet({hs[u] : u \in Users}) /\ IsFiniteSet({ss[u] : u \in Users})
      /\ IsFiniteSet({of[u] : u \in Users})
  <2>1. hs = [u \in Users |-> hs[u]] /\ ss = [u \in Users |-> ss[u]] /\ of = [u \in Users |-> of[u]]
    OBVIOUS
  <2> HIDE DEF hs, ss, of
  <2>2. QED
    BY <1>1, <2>1, FiniteImage
<1>3. ASSUME NEW u \in Users PROVE IsFiniteSet(of[u])
  <2>1. w(u) \in Seq([h : R!Handles, left : SUBSET Names])
    BY DEF R!TypeOK, R!Calls
  <2>2. DOMAIN w(u) = 1..Len(w(u)) /\ Len(w(u)) \in Nat
    BY <2>1, LenProperties
  <2>3. IsFiniteSet(DOMAIN w(u))
    BY <2>2, FS_Interval
  <2> DEFINE g == [i \in DOMAIN w(u) |-> w(u)[i].h]
  <2>4. g = [i \in DOMAIN w(u) |-> g[i]] /\ of[u] = {g[i] : i \in DOMAIN w(u)}
    OBVIOUS
  <2> HIDE DEF g, of
  <2>5. QED
    BY <2>3, <2>4, FiniteImage
<1>4. IsFiniteSet(UNION {of[u] : u \in Users})
  <2> HIDE DEF of
  <2>1. QED
    BY <1>2, <1>3, FS_UNION
<1>5. R!Held = {hs[u] : u \in Users} \cup {ss[u] : u \in Users} \cup UNION {of[u] : u \in Users}
  <2>1. ASSUME NEW u \in Users PROVE {f.h : f \in R!ToSet(w(u))} = of[u]
    BY DEF R!ToSet
  <2>2. UNION {{f.h : f \in R!ToSet(w(u))} : u \in Users} = UNION {of[u] : u \in Users}
    <3> HIDE DEF of
    <3>1. QED
      BY <2>1
  <2>3. /\ {handle[u] : u \in Users} = {hs[u] : u \in Users}
        /\ {call[u].sub : u \in Users} = {ss[u] : u \in Users}
    OBVIOUS
  <2> HIDE DEF hs, ss, of
  <2>4. QED
    BY <2>2, <2>3 DEF R!Held
<1> HIDE DEF hs, ss, of
<1>6. QED
  BY <1>2, <1>4, <1>5, FS_Union

LEMMA FreshIs ==
  ASSUME R!TypeOK, NEW p
  PROVE  R!Fresh(p) \in Nat \ {0} /\ [path |-> p, id |-> R!Fresh(p)] \notin R!Held
<1> DEFINE n == Cardinality(R!Held)
           f == [i \in 1..(n + 1) |-> [path |-> p, id |-> i]]
<1>1. IsFiniteSet(R!Held) /\ n \in Nat
  BY HeldFinite, FS_CardinalityType
<1>2. \E i \in 1..(n + 1) : [path |-> p, id |-> i] \notin R!Held
  <2>1. SUFFICES ASSUME \A i \in 1..(n + 1) : [path |-> p, id |-> i] \in R!Held PROVE FALSE
    OBVIOUS
  <2>2. f \in [1..(n + 1) -> R!Held]
    BY <2>1
  <2>3. IsFiniteSet(1..(n + 1)) /\ Cardinality(1..(n + 1)) = n + 1
    <3>1. 1 \in Int /\ n + 1 \in Int /\ ~(1 > n + 1) /\ n + 1 - 1 + 1 = n + 1
      BY <1>1
    <3> HIDE DEF n
    <3>2. QED
      BY <3>1, FS_Interval
  <2>4. n < n + 1
    BY <1>1
  <2> HIDE DEF f, n
  <2>5. PICK x, y \in 1..(n + 1) : x # y /\ f[x] = f[y]
    BY <1>1, <2>2, <2>3, <2>4, FS_PigeonHole DEF n
  <2>6. [path |-> p, id |-> x].id = [path |-> p, id |-> y].id
    BY <2>5 DEF f
  <2>7. QED
    BY <2>5, <2>6
<1>3. R!Fresh(p) \in 1..(n + 1) /\ [path |-> p, id |-> R!Fresh(p)] \notin R!Held
  BY <1>2 DEF R!Fresh, R!Cardinality, Cardinality
<1>4. QED
  BY <1>1, <1>3

-----------------------------------------------------------------------------
(* Steps and types                                                         *)

LEMMA RegistryCases ==
  ASSUME [R!Next]_registry
  PROVE  \/ \E u \in Users :
              \/ \E k \in Texts :
                   \/ \E v \in Values : R!Begin(u, "set", k, v)
                   \/ R!Begin(u, "get", k, NONE) \/ R!Begin(u, "remove", k, NONE)
              \/ R!Begin(u, "list", <<>>, NONE) \/ R!List(u)
              \/ R!Handle(u) \/ R!CreatePath(u) \/ R!Write(u) \/ R!Query(u) \/ R!Read(u)
              \/ R!RemoveValue(u) \/ R!OpenTree(u) \/ R!Descend(u) \/ R!Ascend(u)
              \/ R!RemoveTop(u) \/ R!End(u) \/ R!DeleteSelf(u) \/ R!Close(u)
         \/ UNCHANGED registry
BY DEF R!Next

LEMMA CallFields ==
  ASSUME R!TypeOK, NEW u \in Users
  PROVE  /\ call[u] \in R!Calls
         /\ call[u].key \in Seq(R!Words) /\ call[u].raw \in Seq(R!Words)
         /\ call[u].walk \in Seq([h : R!Handles, left : SUBSET Names])
         /\ call[u].sub \in R!Handles \cup {NONE} /\ handle[u] \in R!Handles \cup {NONE}
         /\ call[u].value \in [type : STRING, size : Nat] \cup {NONE}
         /\ call[u].found \in SUBSET Seq(R!Words)
BY DEF R!TypeOK, R!Calls

\* A key ends in a name, or names the default value.
LEMMA KeyNameIs ==
  ASSUME NEW k \in Seq(R!Words)
  PROVE  R!keyName(k) \in R!ValueNames /\ (R!keyName(k) = "Default" => "Default" \notin Names)
<1>1. CASE k = <<>> \/ R!Last(k) \in {"Default", "."}
  BY <1>1, RegistryAssumption DEF R!keyName, R!ValueNames
<1>2. CASE k # <<>> /\ R!Last(k) \notin {"Default", "."}
  <2>1. Len(k) \in 1..Len(k)
    BY <1>2, EmptySeq
  <2>2. R!Last(k) \in R!Words
    BY <2>1, ElementOfSeq DEF R!Last
  <2>3. R!keyName(k) = R!Last(k)
    BY <1>2 DEF R!keyName
  <2>4. QED
    BY <1>2, <2>2, <2>3 DEF R!Words
<1>3. QED
  BY <1>1, <1>2

LEMMA LeastOf ==
  ASSUME NEW T \in SUBSET Nat, T # {}
  PROVE  \E x \in T : \A y \in T : x <= y
<1>1. PICK x \in T : \A y \in T : <<y, x>> \notin OpToRel(<, Nat)
  BY NatLessThanWellFounded, WFMin
<1>2. ASSUME NEW y \in T PROVE ~(y < x)
  BY <1>1, <1>2 DEF OpToRel
<1>3. QED
  BY <1>2

\* What normalizedKey() leaves of a key are words.
LEMMA NormalizedIs ==
  ASSUME NEW k \in Seq(R!Words)
  PROVE  R!normalizedKey(k) \in Seq(R!Words)
<1> DEFINE empty == {i \in 1..Len(k) : k[i] = R!Empty}
           first == CHOOSE i \in empty : \A j \in empty : i <= j
<1>1. CASE empty = {}
  BY <1>1 DEF R!normalizedKey
<1>2. CASE empty # {}
  <2>1. R!normalizedKey(k) = SubSeq(k, 1, first - 1)
    BY <1>2 DEF R!normalizedKey
  <2>2. empty \subseteq Nat
    OBVIOUS
  <2>3. PICK l \in empty : \A j \in empty : l <= j
    BY <1>2, <2>2, LeastOf
  <2>4. first \in empty
    BY <2>3
  <2> HIDE DEF first
  <2>5. first - 1 \in Int /\ \A i \in 1..(first - 1) : i \in 1..Len(k)
    BY <2>4, LenProperties
  <2>6. \A i \in 1..(first - 1) : k[i] \in R!Words
    BY <2>5, ElementOfSeq
  <2>7. QED
    BY <2>1, <2>5, <2>6, SubSeqProperties
<1>3. QED
  BY <1>1, <1>2

\* The key of a value: the handle's path and all names but the last.
LEMMA KeysAre ==
  ASSUME R!TypeOK, NEW u \in Users, handle[u] # NONE
  PROVE  /\ handle[u].path \in R!Paths /\ handle[u].path \in Seq(R!Words)
         /\ R!keyPath(call[u].key) \in Seq(R!Words)
         /\ R!Key(u) \in Seq(R!Words) /\ R!Target(u) \in Seq(R!Words)
         /\ call[u].key = <<>> => R!Key(u) = handle[u].path /\ R!Target(u) = handle[u].path
<1>1. handle[u].path \in R!Paths /\ handle[u].path \in Seq(R!Words)
  <2>1. handle[u] \in R!Handles
    BY CallFields
  <2>2. handle[u].path \in Seq(Names)
    BY <2>1, PathsAre DEF R!Handles
  <2>3. Names \subseteq R!Words
    BY DEF R!Words, R!ValueNames
  <2>4. QED
    BY <2>1, <2>2, <2>3, SeqMonotonic DEF R!Handles
<1>2. R!keyPath(call[u].key) \in Seq(R!Words)
  <2>1. CASE call[u].key = <<>>
    BY <2>1 DEF R!keyPath
  <2>2. CASE call[u].key # <<>>
    <3>1. call[u].key \in Seq(R!Words) /\ Len(call[u].key) \in Nat
      BY CallFields, LenProperties
    <3>2. SubSeq(call[u].key, 1, Len(call[u].key) - 1) \in Seq(R!Words)
      BY <3>1
    <3>3. QED
      BY <2>2, <3>2 DEF R!keyPath, R!Front
  <2>3. QED
    BY <2>1, <2>2
<1>3. call[u].key \in Seq(R!Words)
  BY CallFields
<1>4. QED
  BY <1>1, <1>2, <1>3, ConcatProperties, ConcatEmptySeq DEF R!Key, R!Target, R!keyPath

\* create() makes what is missing on the way to a key, and changes no other key.
LEMMA CreatedIs ==
  ASSUME R!TypeOK, NEW p \in R!Paths
  PROVE  /\ R!Created(p) \in [R!Paths -> Nat] /\ R!Created(p)[p] # 0
         /\ \A q \in R!Paths :
              \/ R!Created(p)[q] = keys[q]
              \/ keys[q] = 0 /\ [path |-> q, id |-> R!Created(p)[q]] \notin R!Held
<1>1. keys \in [R!Paths -> Nat]
  BY DEF R!TypeOK
<1>2. \A q : R!Fresh(q) \in Nat \ {0} /\ [path |-> q, id |-> R!Fresh(q)] \notin R!Held
  BY FreshIs
<1>3. R!IsPrefix(p, p)
  BY PathsAre, PrefixSelf
<1>4. QED
  BY <1>1, <1>2, <1>3 DEF R!Created

\* What a step does to keys and values.  A key changes by its deletion, or is
\* new, with an id that nobody holds; who reads a value that changes is marked.
DataType == [R!Paths -> [R!ValueNames -> Values \cup {NONE}]]
TreeMoves ==
  /\ keys' \in [R!Paths -> Nat] /\ data' \in DataType
  /\ \A p \in R!Paths :
       \/ keys'[p] = keys[p]
       \/ keys'[p] = 0 /\ \A n \in R!ValueNames : R!Readers(p, n) \subseteq moved'
       \/ keys[p] = 0 /\ [path |-> p, id |-> keys'[p]] \notin R!Held
  /\ \A p \in R!Paths, n \in R!ValueNames :
       data'[p][n] = data[p][n] \/ R!Readers(p, n) \subseteq moved'
Wipes == \A p \in R!Paths, n \in R!ValueNames : data'[p][n] \in {data[p][n], NONE}

LEMMA WorldStays ==
  ASSUME R!TypeOK, UNCHANGED <<keys, data>>
  PROVE  TreeMoves /\ Wipes
BY DEF R!TypeOK, TreeMoves, Wipes, DataType

LEMMA WorldCreates ==
  ASSUME R!TypeOK, NEW p \in R!Paths, keys' = R!Created(p), data' = data
  PROVE  TreeMoves /\ Wipes
<1>1. data \in DataType
  BY DEF R!TypeOK, DataType
<1>2. QED
  BY <1>1, CreatedIs DEF TreeMoves, Wipes

LEMMA WorldSets ==
  ASSUME R!TypeOK, NEW p \in R!Paths, NEW n \in R!ValueNames, NEW v \in Values \cup {NONE},
         R!SetValue(p, n, v), keys' = keys
  PROVE  /\ TreeMoves
         /\ \A q \in R!Paths, m \in R!ValueNames :
              data'[q][m] = IF q = p /\ m = n THEN v ELSE data[q][m]
<1>1. data \in DataType /\ keys \in [R!Paths -> Nat]
  BY DEF R!TypeOK, DataType
<1>2. data' = [data EXCEPT ![p][n] = v] /\ R!Readers(p, n) \subseteq moved'
  BY DEF R!SetValue
<1>3. data' \in DataType
  BY <1>1, <1>2 DEF DataType
<1>4. \A q \in R!Paths, m \in R!ValueNames :
        data'[q][m] = IF q = p /\ m = n THEN v ELSE data[q][m]
  BY <1>1, <1>2 DEF DataType
<1>5. QED
  BY <1>1, <1>2, <1>3, <1>4 DEF TreeMoves

LEMMA WorldDeletes ==
  ASSUME R!TypeOK, NEW p \in R!Paths, R!DeleteKey(p)
  PROVE  TreeMoves /\ Wipes /\ \A n \in R!ValueNames : data'[p][n] = NONE
<1>1. data \in DataType /\ keys \in [R!Paths -> Nat]
  BY DEF R!TypeOK, DataType
<1>2. /\ keys' = [keys EXCEPT ![p] = 0]
      /\ data' = [data EXCEPT ![p] = [n \in R!ValueNames |-> NONE]]
      /\ \A n \in R!ValueNames : R!Readers(p, n) \subseteq moved'
  BY DEF R!DeleteKey
<1>3. data' \in DataType
  BY <1>1, <1>2 DEF DataType
<1>4. \A q \in R!Paths, m \in R!ValueNames :
        data'[q][m] = IF q = p THEN NONE ELSE data[q][m]
  BY <1>1, <1>2 DEF DataType
<1>5. keys' \in [R!Paths -> Nat] /\ \A q \in R!Paths : keys'[q] = IF q = p THEN 0 ELSE keys[q]
  BY <1>1, <1>2
<1>6. QED
  BY <1>2, <1>3, <1>4, <1>5 DEF TreeMoves, Wipes

\* The last step of clear() deletes all values but the default one.
LEMMA WorldClears ==
  ASSUME R!TypeOK, NEW p \in R!Paths, keys' = keys,
         data' = [data EXCEPT ![p] = [n \in R!ValueNames |-> IF n = R!Empty THEN @[n] ELSE NONE]],
         moved' = moved \cup UNION {R!Readers(p, n) : n \in Names}
  PROVE  /\ TreeMoves /\ Wipes
         /\ \A n \in R!ValueNames : data'[p][n] = IF n = R!Empty THEN data[p][n] ELSE NONE
<1>1. data \in DataType /\ keys \in [R!Paths -> Nat]
  BY DEF R!TypeOK, DataType
<1>2. \A n \in R!ValueNames : n # R!Empty => R!Readers(p, n) \subseteq moved'
  BY DEF R!ValueNames
<1>3. [n \in R!ValueNames |-> IF n = R!Empty THEN data[p][n] ELSE NONE]
        \in [R!ValueNames -> Values \cup {NONE}]
  BY <1>1 DEF DataType
<1>4. data' = [data EXCEPT ![p] = [n \in R!ValueNames |-> IF n = R!Empty THEN data[p][n] ELSE NONE]]
  BY <1>1 DEF DataType
<1>5. data' \in DataType
  BY <1>1, <1>3, <1>4 DEF DataType
<1>6. \A q \in R!Paths, m \in R!ValueNames :
        data'[q][m] = IF q = p /\ m # R!Empty THEN NONE ELSE data[q][m]
  BY <1>1, <1>4 DEF DataType
<1>7. QED
  BY <1>1, <1>2, <1>5, <1>6 DEF TreeMoves, Wipes

-----------------------------------------------------------------------------
(* What a step does to the calls                                           *)

\* A step is one of an object's: the others' calls, handles and marks stay, and
\* what they have set is at most forgotten.
Turn(u) ==
  /\ call' \in [Users -> R!Calls] /\ handle' \in [Users -> R!Handles \cup {NONE}]
  /\ mine' \in [Users -> SUBSET (R!Paths \X R!ValueNames)]
  /\ loc' = loc /\ denied' = denied
  /\ \A v \in Users \ {u} :
       /\ call'[v] = call[v] /\ handle'[v] = handle[v] /\ (v \in exit' <=> v \in exit)
       /\ mine'[v] \subseteq mine[v] /\ (v \in moved => v \in moved')

LEMMA Put ==
  ASSUME R!TypeOK, NEW u \in Users, NEW c \in R!Calls, call' = [call EXCEPT ![u] = c]
  PROVE  /\ call' \in [Users -> R!Calls] /\ call'[u] = c
         /\ \A v \in Users \ {u} : call'[v] = call[v]
BY DEF R!TypeOK

LEMMA IdleIs == R!Idle \in R!Calls /\ R!normalizedKey(<<>>) = <<>>
<1>1. R!normalizedKey(<<>>) = <<>>
  BY DEF R!normalizedKey
<1>2. /\ <<>> \in Seq(R!Words) /\ {} \in SUBSET Seq(R!Words)
      /\ <<>> \in Seq([h : R!Handles, left : SUBSET Names])
  BY EmptySeq
<1>3. QED
  BY <1>1, <1>2 DEF R!Idle, R!Calls, R!First

\* A call goes on to its next request.
LEMMA PutAt ==
  ASSUME R!TypeOK, NEW u \in Users, NEW a, R!Goes(u, a),
         a \in {"idle", "handle", "path", "write", "query", "data", "list", "value", "tree",
                "walk", "last", "close", "dead"}
  PROVE  /\ call' \in [Users -> R!Calls] /\ call'[u] = [call[u] EXCEPT !.at = a]
         /\ \A v \in Users \ {u} : call'[v] = call[v]
<1>1. call[u] \in R!Calls
  BY CallFields
<1>2. [call[u] EXCEPT !.at = a] \in R!Calls
  BY <1>1 DEF R!Calls
<1>3. call' = [call EXCEPT ![u] = [call[u] EXCEPT !.at = a]]
  BY DEF R!Goes, R!TypeOK
<1>4. QED
  BY <1>2, <1>3, Put

LEMMA PutIdle ==
  ASSUME R!TypeOK, NEW u \in Users, R!Returns(u)
  PROVE  /\ call' \in [Users -> R!Calls] /\ call'[u] = R!Idle
         /\ \A v \in Users \ {u} : call'[v] = call[v]
BY IdleIs, Put DEF R!Returns

LEMMA IdleRight ==
  ASSUME R!TypeOK, NEW u \in Users, call'[u] = R!Idle
  PROVE  R!CallRight(u)'
BY IdleIs DEF R!CallRight, R!Idle

LEMMA TableIs ==
  /\ DOMAIN R!First = {"set", "get", "list", "remove", "end"}
  /\ DOMAIN R!Requests = {"set", "get", "list", "remove", "end"}
  /\ R!First["set"] = "path" /\ R!First["get"] = "query" /\ R!First["list"] = "list"
  /\ R!First["remove"] = "value" /\ R!First["end"] = "last"
  /\ R!Requests["set"] = {"path", "write"} /\ R!Requests["get"] = {"query", "data"}
  /\ R!Requests["list"] = {"list"} /\ R!Requests["remove"] = {"value", "tree", "walk"}
  /\ R!Requests["end"] = {"last"}
BY DEF R!First, R!Requests

LEMMA BeginTurn ==
  ASSUME R!TypeOK, R!CallsRight, NEW u \in Users,
         NEW op \in {"set", "get", "remove", "list"}, NEW k \in Seq(R!Words),
         NEW v \in Values \cup {NONE}, op = "set" => v \in Values, R!Begin(u, op, k, v)
  PROVE  Turn(u) /\ R!CallRight(u)' /\ call'[u].op = op /\ call'[u].at = "handle"
<1> DEFINE c == [R!Idle EXCEPT !.op = op, !.key = R!normalizedKey(k), !.raw = k, !.value = v,
                               !.at = "handle"]
<1>1. /\ c.op = op /\ c.at = "handle" /\ c.key = R!normalizedKey(k) /\ c.raw = k
      /\ c.value = v
  BY DEF R!Idle
<1>2. c \in R!Calls
  <2>1. v \in [type : STRING, size : Nat] \cup {NONE}
    BY RegistryAssumption
  <2>2. R!normalizedKey(k) \in Seq(R!Words)
    BY NormalizedIs
  <2>3. R!Idle \in R!Calls
    BY IdleIs
  <2>4. QED
    BY <2>1, <2>2, <2>3 DEF R!Calls, R!First
<1>3. call' = [call EXCEPT ![u] = c]
  BY DEF R!Begin
<1> HIDE DEF c
<1>4. /\ call' \in [Users -> R!Calls] /\ call'[u] = c
      /\ \A x \in Users \ {u} : call'[x] = call[x]
  BY <1>2, <1>3, Put
<1>5. Turn(u)
  BY <1>4 DEF R!Begin, Turn, R!TypeOK
<1>6. R!CallRight(u)'
  BY <1>1, <1>4, TableIs DEF R!CallRight
<1>7. QED
  BY <1>1, <1>4, <1>5, <1>6

LEMMA EndTurn ==
  ASSUME R!TypeOK, R!CallsRight, NEW u \in Users, R!End(u)
  PROVE  Turn(u) /\ R!CallRight(u)' /\ call'[u].op = "end" /\ call'[u].at \in {"handle", "close"}
<1> DEFINE c == [R!Idle EXCEPT !.op = "end", !.at = IF u \in exit THEN "handle" ELSE "close"]
<1>1. /\ c.op = "end" /\ c.at = (IF u \in exit THEN "handle" ELSE "close")
      /\ c.key = <<>> /\ c.raw = <<>>
  BY DEF R!Idle
<1>2. c \in R!Calls
  BY IdleIs DEF R!Calls, R!First
<1>3. call' = [call EXCEPT ![u] = c] /\ exit' = exit
  BY DEF R!End
<1> HIDE DEF c
<1>4. /\ call' \in [Users -> R!Calls] /\ call'[u] = c
      /\ \A x \in Users \ {u} : call'[x] = call[x]
  BY <1>2, <1>3, Put
<1>5. Turn(u)
  BY <1>4 DEF R!End, Turn, R!TypeOK
<1>6. R!CallRight(u)'
  BY <1>1, <1>3, <1>4, TableIs, IdleIs DEF R!CallRight
<1>7. QED
  BY <1>1, <1>4, <1>5, <1>6

LEMMA CloseTurn ==
  ASSUME R!TypeOK, R!CallsRight, NEW u \in Users, R!Close(u)
  PROVE  Turn(u) /\ R!CallRight(u)' /\ call'[u].at = "dead" /\ call'[u].op = "none"
<1> DEFINE c == [R!Idle EXCEPT !.at = "dead"]
<1>1. c.op = "none" /\ c.at = "dead" /\ c.key = <<>> /\ c.raw = <<>>
  BY DEF R!Idle
<1>2. c \in R!Calls
  BY IdleIs DEF R!Calls
<1>3. call' = [call EXCEPT ![u] = c]
  BY DEF R!Close
<1> HIDE DEF c
<1>4. /\ call' \in [Users -> R!Calls] /\ call'[u] = c
      /\ \A x \in Users \ {u} : call'[x] = call[x]
  BY <1>2, <1>3, Put
<1>5. Turn(u)
  BY <1>4 DEF R!Close, R!ghosts, Turn, R!TypeOK
<1>6. R!CallRight(u)'
  BY <1>1, <1>4, IdleIs DEF R!CallRight
<1>7. QED
  BY <1>1, <1>4, <1>5, <1>6

\* The world and the calls, when an object gets its handle.
LEMMA HandleTurn ==
  ASSUME R!TypeOK, R!CallsRight, NEW u \in Users, R!Handle(u)
  PROVE  /\ Turn(u) /\ R!CallRight(u)' /\ TreeMoves /\ Wipes
         /\ data' = data /\ mine' = mine /\ moved' = moved
         /\ handle[u] # NONE => handle'[u] = handle[u]
         /\ u \in exit' => u \in exit \/ handle'[u] = NONE \/ u \in denied
         /\ \/ call'[u] = R!Idle
            \/ call'[u] = [call[u] EXCEPT !.at = R!First[call[u].op]]
            \/ call'[u] = [call[u] EXCEPT !.at = "close"]
<1> DEFINE p == loc[u]
<1>1. /\ call[u].at = "handle" /\ call[u].op \in DOMAIN R!First /\ call[u] \in R!Calls
      /\ call[u].key = R!normalizedKey(call[u].raw)
      /\ call[u].op = "set" => call[u].value \in Values
      /\ call[u].op = "end" => u \in exit
  BY CallFields, TableIs DEF R!Handle, R!At, R!CallsRight, R!CallRight
<1>2. /\ data' = data /\ loc' = loc /\ denied' = denied /\ mine' = mine /\ moved' = moved
  BY DEF R!Handle, R!ghosts
<1>3. /\ TreeMoves /\ Wipes
      /\ handle' \in [Users -> R!Handles \cup {NONE}]
      /\ \A v \in Users \ {u} : handle'[v] = handle[v]
      /\ handle[u] # NONE => handle'[u] = handle[u]
  <2>1. CASE UNCHANGED <<keys, handle>>
    BY <1>2, <2>1, WorldStays DEF R!TypeOK
  <2>2. CASE /\ handle[u] = NONE /\ p # NONE /\ keys' = R!Created(p)
             /\ handle' = [handle EXCEPT ![u] = [path |-> p, id |-> keys'[p]]]
    <3>1. p \in R!Paths
      BY <2>2, LocationsAre DEF R!TypeOK
    <3>2. [path |-> p, id |-> keys'[p]] \in R!Handles
      BY <2>2, <3>1, CreatedIs DEF R!Handles
    <3>3. TreeMoves /\ Wipes
      BY <1>2, <2>2, <3>1, WorldCreates
    <3>4. QED
      BY <2>2, <3>2, <3>3 DEF R!TypeOK
  <2>3. QED
    BY <2>1, <2>2 DEF R!Handle
<1>4. R!First[call[u].op] \in {"path", "query", "list", "value", "last"}
      /\ R!First[call[u].op] \in R!Requests[call[u].op]
  BY <1>1, TableIs
<1>5. u \in exit' => u \in exit \/ handle'[u] = NONE \/ u \in denied
  <2>1. CASE call'[u].at # "idle"
    BY <2>1 DEF R!Handle
  <2>2. CASE R!Goes(u, R!First[call[u].op])
    <3>1. call'[u] = [call[u] EXCEPT !.at = R!First[call[u].op]]
      BY <1>4, <2>2, PutAt
    <3>2. call'[u].at # "idle"
      BY <1>1, <1>4, <3>1 DEF R!Calls
    <3>3. QED
      BY <2>1, <3>2
  <2>3. CASE ~(handle'[u] # NONE /\ (call[u].op \in {"set", "remove", "end"} => R!writeHandle(u)))
    BY <2>3 DEF R!writeHandle
  <2>4. QED
    BY <2>2, <2>3 DEF R!Handle
<1>6. CASE /\ handle'[u] # NONE /\ (call[u].op \in {"set", "remove", "end"} => R!writeHandle(u))
           /\ R!Goes(u, R!First[call[u].op])
  <2>1. /\ call' \in [Users -> R!Calls]
        /\ call'[u] = [call[u] EXCEPT !.at = R!First[call[u].op]]
        /\ \A v \in Users \ {u} : call'[v] = call[v]
    BY <1>4, <1>6, PutAt
  <2>2. exit' = exit
    BY <1>1, <1>4, <2>1 DEF R!Handle, R!Calls
  <2>3. Turn(u)
    BY <1>2, <1>3, <2>1, <2>2 DEF Turn, R!TypeOK
  <2>4. /\ call'[u].op = call[u].op /\ call'[u].at = R!First[call[u].op]
        /\ call'[u].key = call[u].key /\ call'[u].raw = call[u].raw
        /\ call'[u].value = call[u].value
    BY <1>1, <2>1 DEF R!Calls
  <2>5. R!CallRight(u)'
    BY <1>1, <1>2, <1>4, <1>6, <2>2, <2>4, TableIs DEF R!CallRight, R!writeHandle
  <2>6. QED
    BY <1>2, <1>3, <1>5, <2>1, <2>3, <2>5
<1>7. CASE call[u].op = "end" /\ R!Goes(u, "close")
  <2>1. /\ call' \in [Users -> R!Calls] /\ call'[u] = [call[u] EXCEPT !.at = "close"]
        /\ \A v \in Users \ {u} : call'[v] = call[v]
    BY <1>7, PutAt
  <2>2. exit' = exit
    BY <1>7 DEF R!Handle
  <2>3. Turn(u)
    BY <1>2, <1>3, <2>1, <2>2 DEF Turn, R!TypeOK
  <2>4. /\ call'[u].op = call[u].op /\ call'[u].at = "close"
        /\ call'[u].key = call[u].key /\ call'[u].raw = call[u].raw
    BY <1>1, <2>1 DEF R!Calls
  <2>5. R!CallRight(u)'
    BY <1>1, <1>7, <2>4 DEF R!CallRight
  <2>6. QED
    BY <1>2, <1>3, <1>5, <2>1, <2>3, <2>5
<1>8. CASE R!Returns(u)
  <2>1. /\ call' \in [Users -> R!Calls] /\ call'[u] = R!Idle
        /\ \A v \in Users \ {u} : call'[v] = call[v]
    BY <1>8, PutIdle
  <2>2. \A v \in Users \ {u} : v \in exit' <=> v \in exit
    BY DEF R!Handle
  <2>3. Turn(u)
    BY <1>2, <1>3, <2>1, <2>2 DEF Turn, R!TypeOK
  <2>4. QED
    BY <1>2, <1>3, <1>5, <2>1, <2>3, IdleRight
<1>9. QED
  BY <1>6, <1>7, <1>8 DEF R!Handle

\* What a call that is past handle() can count on.
LEMMA RequestIs ==
  ASSUME R!TypeOK, R!CallsRight, NEW u \in Users,
         call[u].at \notin {"idle", "handle", "close", "dead"}
  PROVE  /\ handle[u] \in R!Handles /\ handle[u] # NONE
         /\ call[u].key = R!normalizedKey(call[u].raw)
         /\ call[u].at \in {"path", "write"} => call[u].op = "set" /\ call[u].value \in Values
         /\ call[u].at \in {"query", "data"} => call[u].op = "get"
         /\ call[u].at = "data" => call[u].value \in Values
         /\ call[u].at \in {"value", "tree", "walk"} => call[u].op = "remove"
         /\ call[u].at = "list" => call[u].op = "list"
         /\ call[u].at = "last" => call[u].op = "end" /\ u \in exit
         /\ call[u].op \in {"set", "remove", "end"} => u \notin denied
         /\ call[u].at \in {"write", "data"} => call[u].sub \in R!Handles
<1>1. R!CallRight(u)
  BY DEF R!CallsRight
<1>2. QED
  BY <1>1, CallFields, TableIs DEF R!CallRight

\* A call that returns.
LEMMA ReturnTurn ==
  ASSUME R!TypeOK, NEW u \in Users, call'[u] = R!Idle,
         call' \in [Users -> R!Calls], \A v \in Users \ {u} : call'[v] = call[v],
         UNCHANGED <<loc, denied, handle>>, \A v \in Users \ {u} : v \in exit' <=> v \in exit,
         mine' \in [Users -> SUBSET (R!Paths \X R!ValueNames)],
         \A v \in Users \ {u} : mine'[v] \subseteq mine[v], moved \subseteq moved'
  PROVE  Turn(u) /\ R!CallRight(u)'
<1>1. R!CallRight(u)'
  BY IdleRight
<1>2. QED
  BY <1>1 DEF Turn, R!TypeOK

LEMMA CreatePathTurn ==
  ASSUME R!TypeOK, R!CallsRight, NEW u \in Users, R!CreatePath(u)
  PROVE  /\ Turn(u) /\ R!CallRight(u)' /\ TreeMoves /\ Wipes
         /\ UNCHANGED <<data, handle, mine, moved, exit>> /\ call'[u].at \in {"idle", "write"}
         /\ call'[u].op \in {"none", "set"}
<1>1. call[u].at = "path" /\ UNCHANGED <<data, loc, denied, handle, mine, moved, exit>>
  BY DEF R!CreatePath, R!At, R!ghosts
<1>2. CASE R!Returns(u) /\ UNCHANGED keys
  <2>1. TreeMoves /\ Wipes
    BY <1>1, <1>2, WorldStays
  <2>2. /\ call' \in [Users -> R!Calls] /\ call'[u] = R!Idle
        /\ \A v \in Users \ {u} : call'[v] = call[v]
    BY <1>2, PutIdle
  <2>3. Turn(u) /\ R!CallRight(u)'
    BY <1>1, <2>2, ReturnTurn DEF R!TypeOK
  <2>4. QED
    BY <1>1, <2>1, <2>2, <2>3 DEF R!Idle
<1>3. CASE /\ R!Key(u) \in R!Paths /\ keys' = R!Created(R!Key(u))
           /\ call' = [call EXCEPT ![u].at = "write",
                                   ![u].sub = [path |-> R!Key(u), id |-> keys'[R!Key(u)]]]
  <2> DEFINE h == [path |-> R!Key(u), id |-> keys'[R!Key(u)]]
             c == [call[u] EXCEPT !.at = "write", !.sub = h]
  <2>1. TreeMoves /\ Wipes
    BY <1>1, <1>3, WorldCreates
  <2>2. h \in R!Handles
    BY <1>3, CreatedIs DEF R!Handles
  <2>3. call[u] \in R!Calls
    BY CallFields
  <2>4. c \in R!Calls /\ c.at = "write" /\ c.sub = h /\ c.op = call[u].op /\ c.key = call[u].key
        /\ c.raw = call[u].raw /\ c.value = call[u].value
    BY <2>2, <2>3 DEF R!Calls
  <2>5. call' = [call EXCEPT ![u] = c]
    BY <1>3 DEF R!TypeOK
  <2> HIDE DEF c, h
  <2>6. /\ call' \in [Users -> R!Calls] /\ call'[u] = c
        /\ \A v \in Users \ {u} : call'[v] = call[v]
    BY <2>4, <2>5, Put
  <2>7. Turn(u)
    BY <1>1, <2>6 DEF Turn, R!TypeOK
  <2>8. R!CallRight(u)'
    BY <1>1, <2>2, <2>4, <2>6, RequestIs, TableIs DEF R!CallRight
  <2>9. call[u].op = "set"
    BY <1>1, RequestIs
  <2>10. QED
    BY <1>1, <2>1, <2>4, <2>6, <2>7, <2>8, <2>9
<1>4. QED
  BY <1>2, <1>3 DEF R!CreatePath

\* A value is set: it is u's now, and nobody else's.
Wrote(u, p, n, v) ==
  /\ p \in R!Paths /\ n \in R!ValueNames /\ v \in Values /\ keys' = keys
  /\ \A q \in R!Paths, m \in R!ValueNames :
       data'[q][m] = IF q = p /\ m = n THEN v ELSE data[q][m]
  /\ u \notin exit' /\ \A x \in Users \ {u} : <<p, n>> \notin mine'[x]
  /\ n = "Default" => "Default" \notin Names

LEMMA WriteTurn ==
  ASSUME R!TypeOK, R!CallsRight, NEW u \in Users, R!Write(u)
  PROVE  /\ Turn(u) /\ R!CallRight(u)' /\ TreeMoves
         /\ UNCHANGED handle /\ call'[u] = R!Idle
         /\ \/ Wipes /\ mine' = mine /\ exit' = exit
            \/ \E p, n, v : Wrote(u, p, n, v)
<1>1. call[u].at = "write" /\ UNCHANGED <<keys, loc, denied, handle>>
  BY DEF R!Write, R!At
<1>2. /\ call' \in [Users -> R!Calls] /\ call'[u] = R!Idle
      /\ \A v \in Users \ {u} : call'[v] = call[v]
  BY PutIdle DEF R!Write
<1>3. CASE UNCHANGED <<data, exit, mine, moved>>
  <2>1. TreeMoves /\ Wipes
    BY <1>1, <1>3, WorldStays
  <2>2. Turn(u) /\ R!CallRight(u)'
    BY <1>1, <1>2, <1>3, ReturnTurn DEF R!TypeOK
  <2>3. QED
    BY <1>1, <1>2, <1>3, <2>1, <2>2
<1> DEFINE p == call[u].sub.path
           n == R!keyName(call[u].key)
           v == call[u].value
<1>4. CASE /\ R!SetValue(p, n, v) /\ exit' = exit \ {u}
           /\ mine' = [x \in Users |-> IF x = u THEN mine[x] \cup {<<p, n>>}
                                                ELSE mine[x] \ {<<p, n>>}]
  <2>1. /\ p \in R!Paths /\ n \in R!ValueNames /\ v \in Values
        /\ n = "Default" => "Default" \notin Names
    <3>1. call[u].sub \in R!Handles /\ v \in Values
      BY <1>1, RequestIs
    <3>2. call[u].key \in Seq(R!Words)
      BY CallFields
    <3>3. QED
      BY <3>1, <3>2, KeyNameIs DEF R!Handles
  <2> HIDE DEF p, n, v
  <2>2. /\ TreeMoves
        /\ \A q \in R!Paths, m \in R!ValueNames :
             data'[q][m] = IF q = p /\ m = n THEN v ELSE data[q][m]
    BY <1>1, <1>4, <2>1, WorldSets
  <2>3. /\ mine' \in [Users -> SUBSET (R!Paths \X R!ValueNames)]
        /\ \A x \in Users \ {u} : mine'[x] \subseteq mine[x] /\ <<p, n>> \notin mine'[x]
    BY <1>4, <2>1 DEF R!TypeOK
  <2>4. moved \subseteq moved' /\ \A x \in Users \ {u} : x \in exit' <=> x \in exit
    BY <1>4 DEF R!SetValue
  <2>5. Turn(u) /\ R!CallRight(u)'
    BY <1>1, <1>2, <2>3, <2>4, ReturnTurn
  <2>6. Wrote(u, p, n, v)
    BY <1>1, <1>4, <2>1, <2>2, <2>3 DEF Wrote
  <2>7. QED
    BY <1>1, <1>2, <2>2, <2>5, <2>6
<1>5. QED
  BY <1>3, <1>4 DEF R!Write

\* get() and allKeys() change nothing but what they have read.
LEMMA QueryTurn ==
  ASSUME R!TypeOK, R!CallsRight, NEW u \in Users, R!Query(u)
  PROVE  /\ Turn(u) /\ R!CallRight(u)' /\ UNCHANGED <<keys, data, handle, mine, moved, exit>>
         /\ \/ call'[u] = R!Idle
            \/ /\ call'[u].op = "get" /\ call'[u].at = "data" /\ call'[u].value \in Values
               /\ call'[u].sub \in R!Handles /\ R!Valid(call'[u].sub)
               /\ call'[u].value = data[call'[u].sub.path][R!keyName(call'[u].key)]
<1>1. /\ call[u].at = "query"
      /\ UNCHANGED <<keys, data, loc, denied, handle, exit, mine, moved>>
  BY DEF R!Query, R!At, R!tree, R!ghosts
<1>2. CASE R!Returns(u)
  <2>1. /\ call' \in [Users -> R!Calls] /\ call'[u] = R!Idle
        /\ \A v \in Users \ {u} : call'[v] = call[v]
    BY <1>2, PutIdle
  <2>2. Turn(u) /\ R!CallRight(u)'
    BY <1>1, <2>1, ReturnTurn DEF R!TypeOK
  <2>3. QED
    BY <1>1, <2>1, <2>2
<1> DEFINE n == R!keyName(call[u].key)
<1>3. CASE /\ R!Valid(handle[u]) /\ R!Exists(R!Key(u)) /\ data[R!Key(u)][n] # NONE
           /\ call' = [call EXCEPT ![u].at = "data", ![u].sub = R!Open(R!Key(u)),
                                   ![u].value = data[R!Key(u)][n]]
  <2> DEFINE h == R!Open(R!Key(u))
             v == data[R!Key(u)][n]
             c == [call[u] EXCEPT !.at = "data", !.sub = h, !.value = v]
  <2>1. call[u] \in R!Calls /\ call[u].key \in Seq(R!Words)
    BY CallFields
  <2>2. /\ h \in R!Handles /\ h.path = R!Key(u) /\ h.id = keys[R!Key(u)]
        /\ h.path \in R!Paths /\ n \in R!ValueNames
    BY <1>3, <2>1, KeyNameIs DEF R!Open, R!Exists, R!Handles, R!TypeOK
  <2>3. v \in Values /\ v \in [type : STRING, size : Nat]
    <3>1. v \in Values
      BY <1>3, <2>2 DEF R!TypeOK
    <3>2. QED
      BY <3>1, RegistryAssumption
  <2>4. R!Valid(h)
    BY <2>2, RegistryAssumption DEF R!Valid
  <2>5. /\ c \in R!Calls /\ c.at = "data" /\ c.sub = h /\ c.value = v /\ c.op = call[u].op
        /\ c.key = call[u].key /\ c.raw = call[u].raw
    BY <2>1, <2>2, <2>3 DEF R!Calls
  <2>6. call' = [call EXCEPT ![u] = c]
    BY <1>3 DEF R!TypeOK
  <2>7. v = data[h.path][R!keyName(c.key)]
    BY <2>2, <2>5
  <2> HIDE DEF c, h, v
  <2>8. /\ call' \in [Users -> R!Calls] /\ call'[u] = c
        /\ \A x \in Users \ {u} : call'[x] = call[x]
    BY <2>5, <2>6, Put
  <2>9. Turn(u)
    BY <1>1, <2>8 DEF Turn, R!TypeOK
  <2>10. call[u].op = "get"
    BY <1>1, RequestIs
  <2>11. R!CallRight(u)'
    BY <1>1, <2>2, <2>3, <2>5, <2>8, <2>10, RequestIs, TableIs DEF R!CallRight
  <2>12. QED
    BY <1>1, <2>2, <2>3, <2>4, <2>5, <2>7, <2>8, <2>9, <2>10, <2>11
<1>4. QED
  BY <1>2, <1>3 DEF R!Query

\* An answer: an idle call but for its name and what was found.
Answers(u, op) ==
  /\ call'[u].op = op /\ call'[u].at = "idle" /\ call'[u].key = <<>> /\ call'[u].raw = <<>>

LEMMA AnswerTurn ==
  ASSUME R!TypeOK, NEW u \in Users, NEW op \in {"read", "list"}, NEW c \in R!Calls,
         c.op = op, c.at = "idle", c.key = <<>>, c.raw = <<>>, call' = [call EXCEPT ![u] = c],
         UNCHANGED <<loc, denied, handle, exit, mine, moved>>
  PROVE  Turn(u) /\ R!CallRight(u)' /\ Answers(u, op) /\ call'[u] = c
<1>1. /\ call' \in [Users -> R!Calls] /\ call'[u] = c
      /\ \A v \in Users \ {u} : call'[v] = call[v]
  BY Put
<1>2. Turn(u)
  BY <1>1 DEF Turn, R!TypeOK
<1>3. R!CallRight(u)'
  BY <1>1, IdleIs DEF R!CallRight
<1>4. QED
  BY <1>1, <1>2, <1>3 DEF Answers

LEMMA ReadTurn ==
  ASSUME R!TypeOK, R!CallsRight, NEW u \in Users, R!Read(u)
  PROVE  /\ Turn(u) /\ R!CallRight(u)' /\ UNCHANGED <<keys, data, handle, mine, moved, exit>>
         /\ Answers(u, "read") /\ call[u].at = "data"
         /\ LET v == data[call[u].sub.path][R!keyName(call[u].key)] IN
            R!Valid(call[u].sub) /\ v = call[u].value /\ v \in Values => call'[u].value \in Values
<1> DEFINE v == data[call[u].sub.path][R!keyName(call[u].key)]
           x == IF R!Valid(call[u].sub) /\ v # NONE /\ v.size <= call[u].value.size
                THEN [v EXCEPT !.type = call[u].value.type] ELSE NONE
           c == [R!Idle EXCEPT !.op = "read", !.value = x]
<1>1. /\ call[u].at = "data" /\ call' = [call EXCEPT ![u] = c]
      /\ UNCHANGED <<keys, data, loc, denied, handle, exit, mine, moved>>
  BY DEF R!Read, R!At, R!tree, R!ghosts
<1>2. v \in Values \cup {NONE} /\ call[u].value \in Values
  <2>1. call[u].sub.path \in R!Paths /\ R!keyName(call[u].key) \in R!ValueNames
    BY <1>1, RequestIs, CallFields, KeyNameIs DEF R!Handles
  <2>2. QED
    BY <1>1, <2>1, RequestIs DEF R!TypeOK
<1>3. Values \subseteq [type : STRING, size : Nat]
  BY RegistryAssumption
<1>4. x \in [type : STRING, size : Nat] \cup {NONE}
  BY <1>2, <1>3
<1>5. R!Valid(call[u].sub) /\ v = call[u].value /\ v \in Values => x = v
  <2>1. ASSUME NEW w \in [type : STRING, size : Nat]
        PROVE  [w EXCEPT !.type = w.type] = w /\ w.size <= w.size
    BY <2>1
  <2>2. NONE \notin Values
    BY RegistryAssumption
  <2>3. QED
    BY <1>3, <2>1, <2>2
<1> HIDE DEF x, v
<1>6. /\ c \in R!Calls /\ c.op = "read" /\ c.at = "idle" /\ c.key = <<>> /\ c.raw = <<>>
      /\ c.value = x
  BY <1>4, IdleIs DEF R!Idle, R!Calls
<1> HIDE DEF c
<1>7. Turn(u) /\ R!CallRight(u)' /\ Answers(u, "read") /\ call'[u] = c
  BY <1>1, <1>6, AnswerTurn
<1>8. QED
  BY <1>1, <1>5, <1>6, <1>7 DEF v

LEMMA ListTurn ==
  ASSUME R!TypeOK, R!CallsRight, NEW u \in Users, R!List(u)
  PROVE  /\ Turn(u) /\ R!CallRight(u)' /\ UNCHANGED <<keys, data, handle, mine, moved, exit>>
         /\ Answers(u, "list")
<1> DEFINE x == IF R!Valid(handle[u]) THEN R!allKeys(handle[u].path) ELSE {}
           c == [R!Idle EXCEPT !.op = "list", !.found = x]
<1>1. /\ call[u].at = "list" /\ call' = [call EXCEPT ![u] = c]
      /\ UNCHANGED <<keys, data, loc, denied, handle, exit, mine, moved>>
  BY DEF R!List, R!At, R!tree, R!ghosts
<1>2. ASSUME NEW p \in R!Paths, NEW q \in R!Paths, NEW n \in R!Words
      PROVE  Append(SubSeq(q, Len(p) + 1, Len(q)), n) \in Seq(R!Words)
  <2>1. Names \subseteq R!Words /\ q \in Seq(Names) /\ p \in Seq(Names)
    BY PathsAre DEF R!Words, R!ValueNames
  <2>2. q \in Seq(R!Words) /\ Len(p) + 1 \in Nat /\ Len(p) + 1 >= 1 /\ Len(q) \in Nat
    BY <2>1, SeqMonotonic, LenProperties
  <2>3. SubSeq(q, Len(p) + 1, Len(q)) \in Seq(R!Words)
    BY <2>2, SubSeqProperties, ElementOfSeq
  <2>4. QED
    BY <2>3
<1>3. x \subseteq Seq(R!Words)
  <2>1. CASE R!Valid(handle[u])
    <3>1. handle[u].path \in R!Paths
      BY <1>1, RequestIs DEF R!Handles
    <3>2. \A n \in R!ValueNames : (IF n = R!Empty THEN "." ELSE n) \in R!Words
      BY DEF R!Words
    <3>3. ASSUME NEW y \in R!allKeys(handle[u].path) PROVE y \in Seq(R!Words)
      <4>1. PICK q \in R!Paths, n \in R!ValueNames :
              y = Append(SubSeq(q, Len(handle[u].path) + 1, Len(q)), IF n = R!Empty THEN "." ELSE n)
        BY <3>3 DEF R!allKeys
      <4>2. QED
        BY <1>2, <3>1, <3>2, <4>1
    <3>4. QED
      BY <2>1, <3>3
  <2>2. QED
    BY <2>1
<1> HIDE DEF x
<1>4. c \in R!Calls /\ c.op = "list" /\ c.at = "idle" /\ c.key = <<>> /\ c.raw = <<>>
  BY <1>3, IdleIs DEF R!Idle, R!Calls, R!First
<1> HIDE DEF c
<1>5. QED
  BY <1>1, <1>4, AnswerTurn

\* What is deleted below the key of a call is what the caller meant, unless the
\* key was cut.
LEMMA HarmIs ==
  ASSUME R!RemovesOnlyNamed, NEW u \in Users, NEW p, R!IsPrefix(R!Target(u), p),
         call[u].key = R!normalizedKey(call[u].raw)
  PROVE  \A k \in R!Harms(u, p) : R!normalizedKey(k) # R!Clean(k)
<1>1. CASE R!normalizedKey(call[u].raw) = R!Clean(call[u].raw)
  BY <1>1 DEF R!Harms, R!Target, R!RemovesOnlyNamed
<1>2. CASE R!normalizedKey(call[u].raw) # R!Clean(call[u].raw)
  BY <1>2 DEF R!Harms, R!RemovesOnlyNamed
<1>3. QED
  BY <1>1, <1>2

LEMMA RemoveValueTurn ==
  ASSUME R!TypeOK, R!CallsRight, R!RemovesOnlyNamed, NEW u \in Users, R!RemoveValue(u)
  PROVE  /\ Turn(u) /\ R!CallRight(u)' /\ TreeMoves /\ Wipes
         /\ UNCHANGED <<keys, handle, mine, exit>> /\ call[u].at = "value"
         /\ call'[u].at = "tree" /\ call'[u].op = "remove"
         /\ call'[u].key = <<>> /\ R!Valid(handle[u]) => data'[handle[u].path][R!Empty] = NONE
         /\ R!RemovesOnlyNamed'
<1> DEFINE n == R!keyName(call[u].key)
<1>1. call[u].at = "value" /\ UNCHANGED <<keys, loc, denied, handle, mine, exit>>
  BY DEF R!RemoveValue, R!At
<1>2. /\ call' \in [Users -> R!Calls] /\ call'[u] = [call[u] EXCEPT !.at = "tree"]
      /\ \A v \in Users \ {u} : call'[v] = call[v]
  BY PutAt DEF R!RemoveValue
<1>3. /\ call[u] \in R!Calls /\ call[u].key \in Seq(R!Words)
      /\ call[u].op = "remove" /\ call[u].key = R!normalizedKey(call[u].raw)
      /\ handle[u] \in R!Handles /\ handle[u] # NONE /\ u \notin denied
  BY <1>1, RequestIs, CallFields
<1>4. /\ call'[u].op = "remove" /\ call'[u].at = "tree" /\ call'[u].key = call[u].key
      /\ call'[u].raw = call[u].raw
  BY <1>2, <1>3 DEF R!Calls
<1>5. n \in R!ValueNames /\ (call[u].key = <<>> => n = R!Empty)
  BY <1>3, KeyNameIs DEF R!keyName
<1>6. /\ TreeMoves /\ Wipes /\ moved \subseteq moved'
      /\ call[u].key = <<>> /\ R!Valid(handle[u]) => data'[handle[u].path][R!Empty] = NONE
  <2>1. CASE /\ R!Valid(handle[u]) /\ R!Exists(R!Key(u))
             /\ R!SetValue(R!Key(u), n, NONE)
    <3>1. R!Key(u) \in R!Paths
      BY <2>1 DEF R!Exists
    <3>2. /\ TreeMoves
          /\ \A q \in R!Paths, m \in R!ValueNames :
               data'[q][m] = IF q = R!Key(u) /\ m = n THEN NONE ELSE data[q][m]
      BY <1>1, <1>5, <2>1, <3>1, WorldSets
    <3>3. call[u].key = <<>> => R!Key(u) = handle[u].path
      BY <1>3, KeysAre
    <3>4. moved \subseteq moved'
      BY <2>1 DEF R!SetValue
    <3>5. QED
      BY <1>5, <3>1, <3>2, <3>3, <3>4 DEF Wipes
  <2>2. CASE ~(R!Valid(handle[u]) /\ R!Exists(R!Key(u))) /\ UNCHANGED <<data, moved>>
    <3>1. TreeMoves /\ Wipes
      BY <1>1, <2>2, WorldStays
    <3>2. call[u].key = <<>> => ~R!Valid(handle[u])
      BY <1>3, <2>2, KeysAre DEF R!Exists, R!Valid, R!Handles
    <3>3. QED
      BY <2>2, <3>1, <3>2
  <2>3. QED
    BY <2>1, <2>2 DEF R!RemoveValue
<1>7. Turn(u)
  BY <1>1, <1>2, <1>6 DEF Turn, R!TypeOK
<1>8. R!CallRight(u)'
  BY <1>1, <1>3, <1>4, TableIs DEF R!CallRight
<1>9. R!RemovesOnlyNamed'
  <2>1. R!IsPrefix(R!Target(u), R!Target(u))
    BY <1>3, KeysAre, PrefixSelf
  <2>2. \A k \in R!Harms(u, R!Target(u)) : R!normalizedKey(k) # R!Clean(k)
    BY <1>3, <2>1, HarmIs
  <2>3. harm' = harm \/ harm' = R!Harms(u, R!Target(u))
    BY DEF R!RemoveValue
  <2>4. QED
    BY <2>2, <2>3 DEF R!RemovesOnlyNamed
<1>10. QED
  BY <1>1, <1>4, <1>6, <1>7, <1>8, <1>9

\* A call deletes what lies below its key: it walks over keys at or below it.
WalkType == Seq([h : R!Handles, left : SUBSET Names])
Walk(u, w) ==
  /\ w \in WalkType /\ w # <<>>
  /\ \A i \in DOMAIN w : R!IsPrefix(R!Target(u), w[i].h.path)
  /\ call[u].key = <<>> => w[1].h = handle[u]

\* A remove() that goes on with its walk.
GoesOn(u, c, w) ==
  /\ c \in R!Calls /\ c.op = call[u].op /\ c.at = "walk" /\ c.key = call[u].key
  /\ c.raw = call[u].raw /\ c.walk = w

LEMMA GoesOnIs ==
  ASSUME NEW u \in Users, NEW w \in WalkType, call[u] \in R!Calls
  PROVE  GoesOn(u, [call[u] EXCEPT !.at = "walk", !.walk = w], w)
BY DEF GoesOn, WalkType, R!Calls

Walks(u, c, w) ==
  /\ call[u].at \in {"tree", "walk"} /\ Walk(u, w) /\ GoesOn(u, c, w)
  /\ call' = [call EXCEPT ![u] = c]
  /\ UNCHANGED <<loc, denied, handle, exit, mine>> /\ moved \subseteq moved'

LEMMA WalkTurn ==
  ASSUME R!TypeOK, R!CallsRight, NEW u \in Users, NEW c, NEW w, Walks(u, c, w)
  PROVE  /\ Turn(u) /\ R!CallRight(u)'
         /\ call'[u].op = "remove" /\ call'[u].at = "walk" /\ call'[u].key = call[u].key
<1>1. /\ call[u].op = "remove" /\ call[u].key = R!normalizedKey(call[u].raw)
      /\ handle[u] # NONE /\ u \notin denied
  BY RequestIs DEF Walks
<1>2. /\ c \in R!Calls /\ c.op = "remove" /\ c.at = "walk" /\ c.key = call[u].key
      /\ c.raw = call[u].raw /\ c.walk = w
  BY <1>1 DEF GoesOn, Walks
<1>3. /\ call' \in [Users -> R!Calls] /\ call'[u] = c
      /\ \A v \in Users \ {u} : call'[v] = call[v]
  BY <1>2, Put DEF Walks
<1>4. Turn(u)
  BY <1>3 DEF Walks, Turn, R!TypeOK
<1>5. R!Target(u)' = R!Target(u)
  BY <1>2, <1>3 DEF Walks, R!Target
<1>6. R!CallRight(u)'
  BY <1>1, <1>2, <1>3, <1>5, TableIs DEF R!CallRight, Walk, Walks
<1>7. QED
  BY <1>2, <1>3, <1>4, <1>6

LEMMA WalkIs ==
  ASSUME R!TypeOK, R!CallsRight, NEW u \in Users, call[u].at = "walk"
  PROVE  /\ Walk(u, call[u].walk) /\ Len(call[u].walk) \in Nat /\ Len(call[u].walk) >= 1
         /\ R!Top(u) = call[u].walk[Len(call[u].walk)]
         /\ R!Top(u) \in [h : R!Handles, left : SUBSET Names]
         /\ R!Top(u).h.path \in R!Paths /\ R!IsPrefix(R!Target(u), R!Top(u).h.path)
<1>1. Walk(u, call[u].walk)
  BY CallFields DEF R!CallsRight, R!CallRight, Walk, WalkType
<1>2. Len(call[u].walk) \in Nat /\ Len(call[u].walk) >= 1
  BY <1>1, LenProperties, EmptySeq DEF Walk, WalkType
<1>3. R!Top(u) = call[u].walk[Len(call[u].walk)]
  BY DEF R!Top, R!Last
<1>4. Len(call[u].walk) \in DOMAIN call[u].walk
  BY <1>1, <1>2, LenProperties DEF Walk, WalkType
<1>5. R!Top(u) \in [h : R!Handles, left : SUBSET Names]
  <2>1. call[u].walk \in Seq([h : R!Handles, left : SUBSET Names])
    BY CallFields
  <2>2. Len(call[u].walk) \in 1..Len(call[u].walk)
    BY <1>2
  <2> DEFINE T == [h : R!Handles, left : SUBSET Names]
             w == call[u].walk
  <2>3. w \in Seq(T) /\ Len(w) \in 1..Len(w)
    BY <2>1, <2>2
  <2> HIDE DEF T, w
  <2>4. w[Len(w)] \in T
    BY <2>3, ElementOfSeq
  <2>5. QED
    BY <1>3, <2>4 DEF T, w
<1>6. R!Top(u).h.path \in R!Paths
  BY <1>5 DEF R!Handles
<1>7. R!IsPrefix(R!Target(u), R!Top(u).h.path)
  BY <1>1, <1>3, <1>4 DEF Walk
<1>8. QED
  BY <1>1, <1>2, <1>3, <1>5, <1>6, <1>7

LEMMA EndsTurn ==
  ASSUME R!TypeOK, NEW u \in Users, R!Ends(u),
         UNCHANGED <<loc, denied, handle, mine>>, moved \subseteq moved'
  PROVE  /\ Turn(u) /\ R!CallRight(u)' /\ call'[u] = R!Idle
         /\ u \in exit' => u \in exit \/ call[u].key = <<>>
<1>1. /\ call' \in [Users -> R!Calls] /\ call'[u] = R!Idle
      /\ \A v \in Users \ {u} : call'[v] = call[v]
  BY PutIdle DEF R!Ends
<1>2. /\ \A v \in Users \ {u} : v \in exit' <=> v \in exit
      /\ u \in exit' => u \in exit \/ call[u].key = <<>>
  BY DEF R!Ends
<1>3. QED
  BY <1>1, <1>2, ReturnTurn DEF R!TypeOK

LEMMA OpenTreeTurn ==
  ASSUME R!TypeOK, R!CallsRight, NEW u \in Users, R!OpenTree(u)
  PROVE  /\ Turn(u) /\ R!CallRight(u)' /\ UNCHANGED <<keys, data, handle, mine, moved>>
         /\ call[u].at = "tree"
         /\ \/ call'[u] = R!Idle /\ (u \in exit' => u \in exit \/ ~R!Valid(handle[u]))
            \/ /\ call'[u].op = "remove" /\ call'[u].at = "walk" /\ call'[u].key = call[u].key
               /\ exit' = exit
<1>1. call[u].at = "tree" /\ UNCHANGED <<keys, data, loc, denied, handle, mine, moved>>
  BY DEF R!OpenTree, R!At, R!tree, R!ghosts
<1>2. /\ handle[u] \in R!Handles /\ handle[u] # NONE /\ call[u] \in R!Calls
      /\ call[u].key = <<>> => R!Target(u) = handle[u].path
  BY <1>1, RequestIs, CallFields, KeysAre
<1> DEFINE e == [h |-> R!Open(R!Target(u)), left |-> R!Children(R!Target(u))]
<1>3. CASE /\ R!Valid(handle[u]) /\ R!Exists(R!Target(u)) /\ UNCHANGED exit
           /\ call' = [call EXCEPT ![u].at = "walk", ![u].walk = <<e>>]
  <2>1. R!Open(R!Target(u)) \in R!Handles /\ R!Open(R!Target(u)).path = R!Target(u)
    BY <1>3 DEF R!Exists, R!Open, R!Handles, R!TypeOK
  <2>2. call[u].key = <<>> => R!Open(R!Target(u)) = handle[u]
    BY <1>2, <1>3 DEF R!Open, R!Valid, R!Handles
  <2>3. e \in [h : R!Handles, left : SUBSET Names] /\ e.h = R!Open(R!Target(u))
    BY <2>1 DEF R!Children
  <2>4. R!IsPrefix(R!Target(u), R!Target(u))
    BY <1>2, KeysAre, PrefixSelf
  <2> HIDE DEF e
  <2>5. Walk(u, <<e>>)
    BY <2>1, <2>2, <2>3, <2>4 DEF Walk, WalkType
  <2>6. call' = [call EXCEPT ![u] = [call[u] EXCEPT !.at = "walk", !.walk = <<e>>]]
    BY <1>3 DEF R!TypeOK
  <2> DEFINE w == <<e>>
             c == [call[u] EXCEPT !.at = "walk", !.walk = w]
  <2>7. Walk(u, w) /\ call' = [call EXCEPT ![u] = c]
    BY <2>5, <2>6
  <2>8. GoesOn(u, c, w)
    <3> HIDE DEF w
    <3>1. QED
      BY <1>2, <2>7, GoesOnIs DEF Walk
  <2> HIDE DEF c, w
  <2>9. /\ Turn(u) /\ R!CallRight(u)'
        /\ call'[u].op = "remove" /\ call'[u].at = "walk" /\ call'[u].key = call[u].key
    <3>1. Walks(u, c, w)
      BY <1>1, <1>3, <2>7, <2>8 DEF Walks
    <3>2. QED
      BY <3>1, WalkTurn
  <2>10. QED
    BY <1>1, <1>3, <2>9
<1>4. CASE ~(R!Valid(handle[u]) /\ R!Exists(R!Target(u))) /\ R!Ends(u)
  <2>1. /\ Turn(u) /\ R!CallRight(u)' /\ call'[u] = R!Idle
        /\ u \in exit' => u \in exit \/ call[u].key = <<>>
    BY <1>1, <1>4, EndsTurn
  <2>2. call[u].key = <<>> => ~R!Valid(handle[u])
    BY <1>2, <1>4 DEF R!Exists, R!Valid, R!Handles
  <2>3. QED
    BY <1>1, <2>1, <2>2
<1>5. QED
  BY <1>3, <1>4 DEF R!OpenTree

LEMMA ShrinkIs ==
  ASSUME NEW u \in Users, NEW w, NEW j \in DOMAIN w, NEW rest \in SUBSET Names, Walk(u, w)
  PROVE  /\ Walk(u, [w EXCEPT ![j].left = rest])
         /\ Len([w EXCEPT ![j].left = rest]) = Len(w)
<1> DEFINE r == [w EXCEPT ![j].left = rest]
           T == [h : R!Handles, left : SUBSET Names]
<1>1. w \in Seq(T) /\ DOMAIN w = 1..Len(w) /\ Len(w) \in Nat /\ Len(w) >= 1
  BY LenProperties, EmptySeq DEF Walk, WalkType
<1>2. \A i \in DOMAIN w : w[i] \in T
  BY <1>1, ElementOfSeq
<1>3. [w[j] EXCEPT !.left = rest] \in T /\ [w[j] EXCEPT !.left = rest].h = w[j].h
  BY <1>2
<1>4. DOMAIN r = DOMAIN w /\ \A i \in DOMAIN w : r[i] \in T /\ r[i].h = w[i].h
  BY <1>2, <1>3
<1>5. r \in Seq(T) /\ Len(r) = Len(w)
  BY <1>1, <1>4
<1>6. r # <<>> /\ 1 \in DOMAIN w
  BY <1>1, <1>5, EmptySeq
<1> HIDE DEF r
<1>7. Walk(u, r)
  BY <1>4, <1>5, <1>6 DEF Walk, WalkType
<1>8. QED
  BY <1>5, <1>7 DEF r

LEMMA DescendTurn ==
  ASSUME R!TypeOK, R!CallsRight, NEW u \in Users, R!Descend(u)
  PROVE  /\ Turn(u) /\ R!CallRight(u)' /\ UNCHANGED <<keys, data, handle, mine, moved, exit>>
         /\ call[u].at = "walk"
         /\ call'[u].op = "remove" /\ call'[u].at = "walk" /\ call'[u].key = call[u].key
<1>1. call[u].at = "walk" /\ UNCHANGED <<keys, data, loc, denied, handle, exit, mine, moved>>
  BY DEF R!Descend, R!At, R!tree, R!ghosts
<1> DEFINE w == call[u].walk
           p(n) == Append(R!Top(u).h.path, n)
           rest(n) == [w EXCEPT ![Len(w)].left = w[Len(w)].left \ {n}]
           e(n) == [h |-> R!Open(p(n)), left |-> R!Children(p(n))]
<1>2. PICK n \in R!Top(u).left :
        call' = [call EXCEPT ![u].walk =
                   IF R!Valid(R!Top(u).h) /\ R!Exists(p(n)) THEN Append(rest(n), e(n)) ELSE rest(n)]
  BY DEF R!Descend
<1>3. /\ Walk(u, w) /\ Len(w) \in DOMAIN w /\ w[Len(w)].left \in SUBSET Names /\ n \in Names
      /\ R!Top(u).h.path \in R!Paths /\ R!IsPrefix(R!Target(u), R!Top(u).h.path)
  <2>1. /\ Walk(u, w) /\ Len(w) \in Nat /\ Len(w) >= 1 /\ R!Top(u) = w[Len(w)]
        /\ R!Top(u) \in [h : R!Handles, left : SUBSET Names]
        /\ R!Top(u).h.path \in R!Paths /\ R!IsPrefix(R!Target(u), R!Top(u).h.path)
    BY <1>1, WalkIs
  <2>2. DOMAIN w = 1..Len(w)
    BY <2>1, LenProperties DEF Walk, WalkType
  <2> HIDE DEF w
  <2>3. QED
    BY <2>1, <2>2
<1>4. Walk(u, rest(n))
  BY <1>3, ShrinkIs
<1>5. ASSUME R!Exists(p(n)) PROVE Walk(u, Append(rest(n), e(n)))
  <2>1. p(n) \in R!Paths /\ keys[p(n)] # 0
    BY <1>5 DEF R!Exists
  <2>2. R!IsPrefix(R!Target(u), p(n))
    <3>1. R!Target(u) \in Seq(R!Words)
      BY <1>1, RequestIs, KeysAre
    <3>2. R!Top(u).h.path \in Seq(R!Words) /\ n \in R!Words
      BY <1>3, PathsAre, SeqMonotonic DEF R!Words, R!ValueNames
    <3>3. QED
      BY <1>3, <3>1, <3>2, PrefixAppend
  <2>3. /\ e(n) \in [h : R!Handles, left : SUBSET Names] /\ e(n).h.path = p(n)
    BY <2>1 DEF R!Open, R!Children, R!Handles, R!TypeOK
  <2> HIDE DEF e, p, rest
  <2>4. Walk(u, Append(rest(n), e(n)))
    <3> DEFINE r == rest(n)
               x == e(n)
               T == [h : R!Handles, left : SUBSET Names]
    <3>1. r \in Seq(T) /\ r # <<>> /\ x \in T /\ Len(r) \in Nat /\ Len(r) >= 1
      BY <1>4, <2>3, LenProperties, EmptySeq DEF Walk, WalkType
    <3> HIDE DEF T
    <3>2. /\ Append(r, x) \in Seq(T) /\ Len(Append(r, x)) = Len(r) + 1
          /\ \A i \in 1..Len(r) : Append(r, x)[i] = r[i]
          /\ Append(r, x)[Len(r) + 1] = x
      BY <3>1
    <3>3. DOMAIN Append(r, x) = 1..(Len(r) + 1) /\ DOMAIN r = 1..Len(r)
      BY <3>1, <3>2, LenProperties
    <3> HIDE DEF r, x
    <3>4. /\ \A i \in DOMAIN Append(r, x) :
               R!IsPrefix(R!Target(u), Append(r, x)[i].h.path)
          /\ call[u].key = <<>> => Append(r, x)[1].h = handle[u]
      BY <1>4, <2>2, <2>3, <3>1, <3>2, <3>3 DEF Walk, r, x
    <3>5. Append(r, x) # <<>>
      BY <3>1, <3>2, EmptySeq
    <3>6. Walk(u, Append(r, x))
      BY <3>2, <3>4, <3>5 DEF Walk, WalkType, T
    <3>7. QED
      BY <3>6 DEF r, x
  <2>5. QED
    BY <2>4
<1> DEFINE s == IF R!Valid(R!Top(u).h) /\ R!Exists(p(n)) THEN Append(rest(n), e(n)) ELSE rest(n)
<1>6. Walk(u, s)
  <2>1. CASE R!Valid(R!Top(u).h) /\ R!Exists(p(n))
    BY <1>5, <2>1
  <2>2. CASE ~(R!Valid(R!Top(u).h) /\ R!Exists(p(n)))
    BY <1>4, <2>2
  <2>3. QED
    BY <2>1, <2>2
<1>7. call' = [call EXCEPT ![u].walk = s]
  BY <1>2
<1> HIDE DEF s
<1> DEFINE c == [call[u] EXCEPT !.at = "walk", !.walk = s]
<1>8. call' = [call EXCEPT ![u] = c] /\ GoesOn(u, c, s)
  <2>1. call[u] \in R!Calls
    BY CallFields
  <2>2. [call[u] EXCEPT !.walk = s] = c
    BY <1>1, <2>1 DEF R!Calls
  <2>3. call' = [call EXCEPT ![u] = [call[u] EXCEPT !.walk = s]]
    BY <1>7 DEF R!TypeOK
  <2>4. QED
    BY <1>6, <2>1, <2>2, <2>3, GoesOnIs DEF Walk
<1> HIDE DEF c
<1>9. /\ Turn(u) /\ R!CallRight(u)'
      /\ call'[u].op = "remove" /\ call'[u].at = "walk" /\ call'[u].key = call[u].key
  <2>1. Walks(u, c, s)
    BY <1>1, <1>6, <1>8 DEF Walks
  <2>2. QED
    BY <2>1, WalkTurn
<1>10. QED
  BY <1>1, <1>9

LEMMA FrontWalk ==
  ASSUME NEW u \in Users, NEW w, Walk(u, w), Len(w) > 1
  PROVE  Walk(u, R!Front(w)) /\ Len(R!Front(w)) \in DOMAIN R!Front(w)
<1> DEFINE T == [h : R!Handles, left : SUBSET Names]
           f == SubSeq(w, 1, Len(w) - 1)
<1>1. w \in Seq(T) /\ DOMAIN w = 1..Len(w) /\ Len(w) \in Nat /\ Len(w) > 1
  BY LenProperties DEF Walk, WalkType
<1>2. f \in Seq(T) /\ Len(f) = Len(w) - 1 /\ \A i \in 1..(Len(w) - 1) : f[i] = w[i]
  <2> HIDE DEF T
  <2>1. QED
    BY <1>1
<1>3. DOMAIN f = 1..(Len(w) - 1)
  <2> HIDE DEF T, f
  <2>1. QED
    BY <1>1, <1>2, LenProperties
<1> HIDE DEF f
<1>4. Walk(u, f)
  <2>1. f # <<>>
    BY <1>1, <1>2, EmptySeq
  <2>2. 1 \in DOMAIN f /\ \A i \in DOMAIN f : i \in DOMAIN w /\ f[i] = w[i]
    <3>1. \A i \in 1..(Len(w) - 1) : i \in 1..Len(w)
      BY <1>1
    <3>2. 1 \in 1..(Len(w) - 1)
      BY <1>1
    <3> HIDE DEF T
    <3>3. QED
      BY <1>1, <1>2, <1>3, <3>1, <3>2
  <2>3. \A i \in DOMAIN f : R!IsPrefix(R!Target(u), f[i].h.path)
    BY <2>2 DEF Walk
  <2>4. call[u].key = <<>> => f[1].h = handle[u]
    BY <2>2 DEF Walk
  <2>5. QED
    BY <1>2, <2>1, <2>3, <2>4 DEF Walk, WalkType
<1>5. Len(f) \in DOMAIN f
  BY <1>1, <1>2, <1>3
<1>6. QED
  BY <1>4, <1>5 DEF R!Front, f

\* A call that goes on with its walk, and leaves the handles and marks alone.
LEMMA WalkOn ==
  ASSUME R!TypeOK, NEW u \in Users, NEW w, call[u].at = "walk",
         Walk(u, w), call' = [call EXCEPT ![u].walk = w],
         UNCHANGED <<loc, denied, handle, exit, mine>>, moved \subseteq moved'
  PROVE  Walks(u, [call[u] EXCEPT !.at = "walk", !.walk = w], w)
<1> DEFINE c == [call[u] EXCEPT !.at = "walk", !.walk = w]
<1>1. call[u] \in R!Calls /\ w \in WalkType
  BY CallFields DEF Walk
<1>2. GoesOn(u, c, w)
  BY <1>1, GoesOnIs
<1>3. [call[u] EXCEPT !.walk = w] = c
  BY <1>1 DEF R!Calls
<1>4. call' = [call EXCEPT ![u] = [call[u] EXCEPT !.walk = w]]
  BY DEF R!TypeOK
<1> HIDE DEF c
<1>5. Walks(u, c, w)
  BY <1>2, <1>3, <1>4 DEF Walks
<1>6. QED
  BY <1>5 DEF c

LEMMA AscendTurn ==
  ASSUME R!TypeOK, R!CallsRight, R!RemovesOnlyNamed, NEW u \in Users, R!Ascend(u)
  PROVE  /\ Turn(u) /\ R!CallRight(u)' /\ TreeMoves /\ Wipes /\ R!RemovesOnlyNamed'
         /\ UNCHANGED <<handle, mine, exit>> /\ call[u].at = "walk"
         /\ call'[u].op = "remove" /\ call'[u].at = "walk" /\ call'[u].key = call[u].key
<1> DEFINE w == call[u].walk
           p == R!Top(u).h.path
           rest == R!Front(w)
           short == [rest EXCEPT ![Len(rest)].left = {}]
<1>1. /\ call[u].at = "walk" /\ UNCHANGED <<loc, denied, handle, exit, mine>> /\ Len(w) > 1
      /\ \/ R!DeleteKey(p) /\ harm' = R!Harms(u, p) /\ call' = [call EXCEPT ![u].walk = rest]
         \/ call' = [call EXCEPT ![u].walk = short] /\ UNCHANGED <<keys, data, moved, harm>>
  BY DEF R!Ascend, R!At, R!tree
<1>2. /\ Walk(u, w) /\ p \in R!Paths /\ R!IsPrefix(R!Target(u), p)
      /\ call[u].key = R!normalizedKey(call[u].raw)
  BY <1>1, WalkIs, RequestIs
<1>3. Walk(u, rest) /\ Len(rest) \in DOMAIN rest
  BY <1>1, <1>2, FrontWalk
<1>4. Walk(u, short)
  BY <1>3, ShrinkIs
<1> HIDE DEF w, p, rest, short
<1>5. CASE R!DeleteKey(p) /\ harm' = R!Harms(u, p) /\ call' = [call EXCEPT ![u].walk = rest]
  <2>1. TreeMoves /\ Wipes
    BY <1>2, <1>5, WorldDeletes
  <2>2. moved \subseteq moved'
    BY <1>5 DEF R!DeleteKey
  <2>3. R!RemovesOnlyNamed'
    BY <1>2, <1>5, HarmIs DEF R!RemovesOnlyNamed
  <2>4. Walks(u, [call[u] EXCEPT !.at = "walk", !.walk = rest], rest)
    BY <1>1, <1>3, <1>5, <2>2, WalkOn
  <2>5. /\ Turn(u) /\ R!CallRight(u)'
        /\ call'[u].op = "remove" /\ call'[u].at = "walk" /\ call'[u].key = call[u].key
    BY <2>4, WalkTurn
  <2>6. QED
    BY <1>1, <2>1, <2>3, <2>5
<1>6. CASE call' = [call EXCEPT ![u].walk = short] /\ UNCHANGED <<keys, data, moved, harm>>
  <2>1. TreeMoves /\ Wipes
    BY <1>6, WorldStays
  <2>2. R!RemovesOnlyNamed'
    BY <1>6 DEF R!RemovesOnlyNamed
  <2>3. Walks(u, [call[u] EXCEPT !.at = "walk", !.walk = short], short)
    BY <1>1, <1>4, <1>6, WalkOn
  <2>4. /\ Turn(u) /\ R!CallRight(u)'
        /\ call'[u].op = "remove" /\ call'[u].at = "walk" /\ call'[u].key = call[u].key
    BY <2>3, WalkTurn
  <2>5. QED
    BY <1>1, <2>1, <2>2, <2>4
<1>7. QED
  BY <1>1, <1>5, <1>6

LEMMA RemoveTopTurn ==
  ASSUME R!TypeOK, R!CallsRight, R!RemovesOnlyNamed, NEW u \in Users, R!RemoveTop(u)
  PROVE  /\ Turn(u) /\ R!CallRight(u)' /\ TreeMoves /\ Wipes /\ R!RemovesOnlyNamed'
         /\ UNCHANGED <<handle, mine>> /\ call[u].at = "walk" /\ call'[u] = R!Idle
         /\ u \in exit' /\ u \notin exit =>
              /\ call[u].key = <<>>
              /\ R!Valid(handle[u]) =>
                   \A n \in R!ValueNames : n # R!Empty => data'[handle[u].path][n] = NONE
<1> DEFINE h == R!Top(u).h
<1>1. /\ call[u].at = "walk" /\ Len(call[u].walk) = 1 /\ R!Ends(u)
      /\ UNCHANGED <<loc, denied, handle, mine>>
  BY DEF R!RemoveTop, R!At
<1>2. /\ h.path \in R!Paths /\ R!IsPrefix(R!Target(u), h.path)
      /\ call[u].key = R!normalizedKey(call[u].raw)
      /\ call[u].key = <<>> => h = handle[u]
  BY <1>1, WalkIs, RequestIs DEF Walk
<1> HIDE DEF h
<1>3. /\ TreeMoves /\ Wipes /\ moved \subseteq moved'
      /\ call[u].key = <<>> /\ R!Valid(h) =>
           \A n \in R!ValueNames : n # R!Empty => data'[h.path][n] = NONE
  <2>1. CASE /\ call[u].key = <<>> /\ R!Valid(h) /\ keys' = keys
             /\ data' = [data EXCEPT ![h.path] =
                           [n \in R!ValueNames |-> IF n = R!Empty THEN @[n] ELSE NONE]]
             /\ moved' = moved \cup UNION {R!Readers(h.path, n) : n \in Names}
    BY <1>2, <2>1, WorldClears
  <2>2. CASE call[u].key # <<>> /\ R!DeleteKey(h.path)
    <3>1. TreeMoves /\ Wipes
      BY <1>2, <2>2, WorldDeletes
    <3>2. QED
      BY <2>2, <3>1 DEF R!DeleteKey
  <2>3. CASE ~(call[u].key = <<>> /\ R!Valid(h)) /\ UNCHANGED <<keys, data, moved>>
    BY <2>3, WorldStays
  <2>4. QED
    BY <2>1, <2>2, <2>3 DEF R!RemoveTop, R!tree, h
<1>4. /\ Turn(u) /\ R!CallRight(u)' /\ call'[u] = R!Idle
      /\ u \in exit' => u \in exit \/ call[u].key = <<>>
  BY <1>1, <1>3, EndsTurn
<1>5. R!RemovesOnlyNamed'
  <2>1. harm' = harm \/ harm' = R!Harms(u, h.path)
    BY DEF R!RemoveTop, h
  <2>2. QED
    BY <1>2, <2>1, HarmIs DEF R!RemovesOnlyNamed
<1>6. QED
  BY <1>1, <1>2, <1>3, <1>4, <1>5

\* An object that ends deletes none of the values that it has set itself.
LEMMA DeleteSelfTurn ==
  ASSUME R!TypeOK, R!CallsRight, R!OwnGone, R!EndSparesOwn, NEW u \in Users, R!DeleteSelf(u)
  PROVE  /\ Turn(u) /\ R!CallRight(u)' /\ TreeMoves /\ Wipes /\ R!EndSparesOwn'
         /\ UNCHANGED <<handle, mine, exit>> /\ call[u].at = "last"
         /\ call'[u].at = "close" /\ call'[u].op = "end"
<1> DEFINE p == handle[u].path
<1>1. call[u].at = "last" /\ UNCHANGED <<loc, denied, handle, exit, mine>>
  BY DEF R!DeleteSelf, R!At
<1>2. /\ handle[u] \in R!Handles /\ call[u].op = "end" /\ u \in exit /\ p \in R!Paths
      /\ call[u].key = R!normalizedKey(call[u].raw) /\ call[u] \in R!Calls
  BY <1>1, RequestIs, CallFields DEF R!Handles
<1>3. /\ call' \in [Users -> R!Calls] /\ call'[u] = [call[u] EXCEPT !.at = "close"]
      /\ \A v \in Users \ {u} : call'[v] = call[v]
  BY PutAt DEF R!DeleteSelf
<1>4. /\ call'[u].op = "end" /\ call'[u].at = "close" /\ call'[u].key = call[u].key
      /\ call'[u].raw = call[u].raw
  BY <1>2, <1>3 DEF R!Calls
<1>5. R!CallRight(u)'
  BY <1>2, <1>4 DEF R!CallRight
<1>6. TreeMoves /\ Wipes /\ moved \subseteq moved' /\ R!EndSparesOwn'
  <2>1. CASE /\ R!Valid(handle[u]) /\ R!DeleteKey(p)
             /\ wiped' = wiped \cup {<<u, x>> : x \in {y \in Users :
                           \E n \in R!ValueNames : data[p][n] # NONE /\ <<p, n>> \in mine[y]}}
    <3>1. TreeMoves /\ Wipes /\ moved \subseteq moved'
      BY <1>2, <2>1, WorldDeletes DEF R!DeleteKey
    <3>2. ~\E n \in R!ValueNames : data[p][n] # NONE /\ <<p, n>> \in mine[u]
      BY <1>2, <2>1 DEF R!OwnGone, R!OwnIsGone, R!Kept
    <3>3. R!EndSparesOwn'
      BY <2>1, <3>2 DEF R!EndSparesOwn
    <3>4. QED
      BY <3>1, <3>3
  <2>2. CASE UNCHANGED <<keys, data, moved, wiped>>
    BY <2>2, WorldStays DEF R!EndSparesOwn
  <2>3. QED
    BY <2>1, <2>2 DEF R!DeleteSelf, R!tree
<1>7. Turn(u)
  BY <1>1, <1>3, <1>6 DEF Turn, R!TypeOK
<1>8. QED
  BY <1>1, <1>4, <1>5, <1>6, <1>7

-----------------------------------------------------------------------------
(* The inductive invariant                                                 *)

\* A handle that is good after a step was good before it.
LEMMA ValidBefore ==
  ASSUME R!TypeOK, TreeMoves, NEW v \in Users, handle'[v] = handle[v], R!Valid(handle[v])'
  PROVE  R!Valid(handle[v])
<1>1. handle[v] # NONE /\ keys'[handle[v].path] = handle[v].id
  BY DEF R!Valid
<1>2. handle[v] \in R!Handles
  BY <1>1, CallFields
<1>3. /\ handle[v].path \in R!Paths /\ handle[v].id # 0
      /\ [path |-> handle[v].path, id |-> handle[v].id] = handle[v]
  BY <1>2 DEF R!Handles
<1>4. handle[v] \in R!Held
  BY DEF R!Held
<1>5. keys'[handle[v].path] = keys[handle[v].path]
  BY <1>1, <1>3, <1>4 DEF TreeMoves
<1>6. QED
  BY <1>1, <1>5 DEF R!Valid

\* What is kept after a step that sets nothing was kept before it.
LEMMA KeptBefore ==
  ASSUME R!TypeOK, Wipes, NEW v \in Users, NEW n \in R!ValueNames, handle[v] \in R!Handles,
         handle'[v] = handle[v], mine'[v] \subseteq mine[v], R!Kept(v, n)'
  PROVE  R!Kept(v, n)
<1>1. handle[v].path \in R!Paths
  BY DEF R!Handles
<1>2. QED
  BY <1>1 DEF R!Kept, Wipes

\* The invariant of those whose turn it is not.
LEMMA OthersKeep ==
  ASSUME R!TypeOK, R!CallsRight, R!OwnGone, R!Unmoved, R!ReadsWhole,
         NEW u \in Users, NEW v \in Users \ {u}, Turn(u), TreeMoves,
         Wipes \/ \E p, n, x : Wrote(u, p, n, x)
  PROVE  /\ R!CallRight(v)' /\ R!OwnIsGone(v)' /\ R!StillThere(v)'
         /\ call'[v].op = "read" /\ v \notin moved' => call'[v].value \in Values
<1>1. /\ call'[v] = call[v] /\ handle'[v] = handle[v] /\ (v \in exit' <=> v \in exit)
      /\ mine'[v] \subseteq mine[v] /\ (v \in moved => v \in moved') /\ denied' = denied
  BY DEF Turn
<1>2. R!CallRight(v)'
  <2>1. R!Target(v)' = R!Target(v)
    BY <1>1 DEF R!Target
  <2>2. R!CallRight(v)
    BY DEF R!CallsRight
  <2>3. QED
    BY <1>1, <2>1, <2>2 DEF R!CallRight
<1>3. ASSUME NEW n \in R!ValueNames, R!Valid(handle[v])', R!Kept(v, n)' PROVE R!Kept(v, n)
  <2>1. handle[v] \in R!Handles /\ handle[v].path \in R!Paths
    BY <1>1, <1>3, CallFields DEF R!Valid, R!Handles
  <2>2. CASE Wipes
    BY <1>1, <1>3, <2>1, <2>2, KeptBefore
  <2>3. ASSUME NEW p, NEW m, NEW x, Wrote(u, p, m, x) PROVE R!Kept(v, n)
    BY <1>1, <1>3, <2>1, <2>3 DEF Wrote, R!Kept
  <2>4. QED
    BY <2>2, <2>3
<1>4. R!OwnIsGone(v)'
  <2>1. R!OwnIsGone(v)
    BY DEF R!OwnGone
  <2>2. R!Valid(handle[v])' => R!Valid(handle[v])
    BY <1>1, ValidBefore
  <2>3. R!At(v, "dead")' <=> R!At(v, "dead")
    BY <1>1 DEF R!At
  <2>4. R!Empty \in R!ValueNames
    BY DEF R!ValueNames
  <2>5. QED
    BY <1>1, <1>3, <2>1, <2>2, <2>3, <2>4 DEF R!OwnIsGone
<1>5. R!StillThere(v)'
  <2>1. SUFFICES ASSUME call[v].at = "data", v \notin moved'
                 PROVE  /\ R!Valid(call[v].sub)' /\ call[v].value \in Values
                        /\ data'[call[v].sub.path][R!keyName(call[v].key)] = call[v].value
    BY <1>1 DEF R!StillThere, R!At
  <2>2. /\ R!Valid(call[v].sub) /\ call[v].value \in Values
        /\ data[call[v].sub.path][R!keyName(call[v].key)] = call[v].value
    BY <1>1, <2>1 DEF R!Unmoved, R!StillThere, R!At
  <2>3. /\ call[v].sub \in R!Handles /\ call[v].sub.path \in R!Paths /\ call[v].sub.id # 0
        /\ R!keyName(call[v].key) \in R!ValueNames
    BY <2>1, RequestIs, CallFields, KeyNameIs DEF R!Handles
  <2>4. v \in R!Readers(call[v].sub.path, R!keyName(call[v].key))
    BY <2>1 DEF R!Readers
  <2>5. keys'[call[v].sub.path] = keys[call[v].sub.path]
    BY <2>1, <2>2, <2>3, <2>4 DEF TreeMoves, R!Valid
  <2>6. data'[call[v].sub.path][R!keyName(call[v].key)]
          = data[call[v].sub.path][R!keyName(call[v].key)]
    BY <2>1, <2>3, <2>4 DEF TreeMoves
  <2>7. QED
    BY <1>1, <2>2, <2>5, <2>6 DEF R!Valid
<1>6. call'[v].op = "read" /\ v \notin moved' => call'[v].value \in Values
  BY <1>1 DEF R!ReadsWhole
<1>7. QED
  BY <1>2, <1>4, <1>5, <1>6

\* What a step is to show: what it does to the world, and the invariant of the
\* object whose turn it is.
Steps(u) ==
  /\ Turn(u) /\ TreeMoves /\ (Wipes \/ \E p, n, v : Wrote(u, p, n, v))
  /\ R!CallRight(u)' /\ R!OwnIsGone(u)' /\ R!StillThere(u)'
  /\ call'[u].op = "read" /\ u \notin moved' => call'[u].value \in Values
  /\ R!RemovesOnlyNamed' /\ R!EndSparesOwn' /\ calls' \in Nat

LEMMA StepKeeps ==
  ASSUME R!IInv, NEW u \in Users, Steps(u)
  PROVE  R!IInv'
<1> USE DEF R!IInv
<1>1. ASSUME NEW v \in Users
      PROVE  /\ R!CallRight(v)' /\ R!OwnIsGone(v)' /\ R!StillThere(v)'
             /\ call'[v].op = "read" /\ v \notin moved' => call'[v].value \in Values
  <2>1. CASE v = u
    BY <2>1 DEF Steps
  <2>2. CASE v # u
    BY <2>2, OthersKeep DEF Steps
  <2>3. QED
    BY <2>1, <2>2
<1>2. R!CallsRight' /\ R!OwnGone' /\ R!Unmoved' /\ R!ReadsWhole'
  BY <1>1 DEF R!CallsRight, R!OwnGone, R!Unmoved, R!ReadsWhole
<1>3. R!TypeOK'
  BY DEF Steps, Turn, TreeMoves, DataType, R!TypeOK
<1>4. R!DefaultFree'
  <2>1. CASE Wipes
    BY <2>1 DEF Wipes, R!DefaultFree, R!ValueNames
  <2>2. ASSUME NEW p, NEW n, NEW v, Wrote(u, p, n, v) PROVE R!DefaultFree'
    BY <2>2 DEF Wrote, R!DefaultFree, R!ValueNames
  <2>3. QED
    BY <2>1, <2>2 DEF Steps
<1>5. QED
  BY <1>2, <1>3, <1>4 DEF Steps

\* What an object has set is gone, when it was and nothing is added.
LEMMA OwnStays ==
  ASSUME R!TypeOK, R!OwnGone, NEW u \in Users, Turn(u), TreeMoves, Wipes,
         handle'[u] = handle[u], mine'[u] \subseteq mine[u], call[u].at # "dead",
         u \in exit' =>
           \/ u \in exit \/ ~R!Valid(handle[u])
           \/ \A n \in R!ValueNames : n # R!Empty => data'[handle[u].path][n] = NONE,
         u \in exit' /\ u \notin exit /\ R!Valid(handle[u]) =>
           call[u].at \in {"tree", "walk"} /\ call[u].key = <<>>,
         call'[u].at \in {"tree", "walk"} /\ call'[u].key = <<>> /\ R!Valid(handle[u]) =>
           \/ call[u].at \in {"tree", "walk"} /\ call[u].key = <<>>
           \/ data'[handle[u].path][R!Empty] = NONE
  PROVE  R!OwnIsGone(u)'
<1>1. R!OwnIsGone(u)
  BY DEF R!OwnGone
<1>2. R!Valid(handle[u])' => R!Valid(handle[u])
  BY ValidBefore
<1>3. ASSUME NEW n \in R!ValueNames, R!Valid(handle[u]), R!Kept(u, n)' PROVE R!Kept(u, n)
  <2>1. handle[u] \in R!Handles
    BY <1>3, CallFields DEF R!Valid
  <2>2. QED
    BY <1>3, <2>1, KeptBefore
<1>4. R!Empty \in R!ValueNames
  BY DEF R!ValueNames
<1>5. u \in denied' \/ (handle'[u] = NONE /\ ~R!At(u, "dead")') => mine'[u] = {}
  BY <1>1 DEF R!OwnIsGone, R!At, Turn
<1>6. ASSUME u \in exit', R!Valid(handle[u])', NEW n \in R!ValueNames
      PROVE  ~R!Kept(u, n)'
  <2>1. R!Valid(handle[u])
    BY <1>2, <1>6
  <2>2. CASE u \in exit
    BY <1>1, <1>3, <2>1, <2>2 DEF R!OwnIsGone
  <2>3. CASE u \notin exit /\ n # R!Empty
    BY <1>6, <2>1, <2>3 DEF R!Kept
  <2>4. CASE u \notin exit /\ n = R!Empty
    BY <1>1, <1>3, <1>6, <2>1, <2>4 DEF R!OwnIsGone
  <2>5. QED
    BY <2>2, <2>3, <2>4
<1>7. ASSUME call'[u].at \in {"tree", "walk"}, call'[u].key = <<>>, R!Valid(handle[u])'
      PROVE  ~R!Kept(u, R!Empty)'
  <2>1. R!Valid(handle[u])
    BY <1>2, <1>7
  <2>2. CASE call[u].at \in {"tree", "walk"} /\ call[u].key = <<>>
    BY <1>1, <1>3, <1>4, <2>1, <2>2 DEF R!OwnIsGone
  <2>3. CASE data'[handle[u].path][R!Empty] = NONE
    BY <2>3 DEF R!Kept
  <2>4. QED
    BY <1>7, <2>1, <2>2, <2>3
<1>8. QED
  BY <1>5, <1>6, <1>7 DEF R!OwnIsGone

\* Steps after which an object neither reads nor removes.
LEMMA QuietStep ==
  ASSUME R!IInv, NEW u \in Users, Turn(u), R!CallRight(u)', TreeMoves, Wipes,
         handle'[u] = handle[u], mine'[u] \subseteq mine[u], u \in exit' => u \in exit,
         call[u].at # "dead", call'[u].at \notin {"tree", "walk", "data"}, call'[u].op # "read",
         harm' = harm, wiped' = wiped, calls' \in Nat
  PROVE  Steps(u)
<1>1. R!OwnIsGone(u)'
  BY OwnStays DEF R!IInv
<1>2. R!StillThere(u)'
  BY DEF R!StillThere, R!At
<1>3. R!RemovesOnlyNamed' /\ R!EndSparesOwn'
  BY DEF R!IInv, R!RemovesOnlyNamed, R!EndSparesOwn
<1>4. QED
  BY <1>1, <1>2, <1>3 DEF Steps

LEMMA BeginStep ==
  ASSUME R!IInv, NEW u \in Users, NEW op \in {"set", "get", "remove", "list"},
         NEW k \in Seq(R!Words), NEW v \in Values \cup {NONE}, op = "set" => v \in Values,
         R!Begin(u, op, k, v)
  PROVE  Steps(u)
<1>1. R!TypeOK /\ R!CallsRight /\ calls \in Nat
  BY DEF R!IInv, R!TypeOK
<1>2. Turn(u) /\ R!CallRight(u)' /\ call'[u].op = op /\ call'[u].at = "handle"
  BY <1>1, BeginTurn
<1>3. /\ UNCHANGED <<keys, data, handle, exit, mine, harm, wiped>>
      /\ call[u].at = "idle" /\ calls' = calls + 1
  BY DEF R!Begin, R!tree, R!At
<1>4. TreeMoves /\ Wipes
  BY <1>1, <1>3, WorldStays
<1>5. QED
  BY <1>1, <1>2, <1>3, <1>4, QuietStep

LEMMA EndStep ==
  ASSUME R!IInv, NEW u \in Users, R!End(u)
  PROVE  Steps(u)
<1>1. R!TypeOK /\ R!CallsRight /\ calls \in Nat
  BY DEF R!IInv, R!TypeOK
<1>2. Turn(u) /\ R!CallRight(u)' /\ call'[u].op = "end" /\ call'[u].at \in {"handle", "close"}
  BY <1>1, EndTurn
<1>3. /\ UNCHANGED <<keys, data, handle, exit, mine, harm, wiped, calls>>
      /\ call[u].at = "idle"
  BY DEF R!End, R!tree, R!At
<1>4. TreeMoves /\ Wipes
  BY <1>1, <1>3, WorldStays
<1>5. QED
  BY <1>1, <1>2, <1>3, <1>4, QuietStep

LEMMA CloseStep ==
  ASSUME R!IInv, NEW u \in Users, R!Close(u)
  PROVE  Steps(u)
<1>1. R!TypeOK /\ R!CallsRight /\ calls \in Nat
  BY DEF R!IInv, R!TypeOK
<1>2. Turn(u) /\ R!CallRight(u)' /\ call'[u].at = "dead" /\ call'[u].op = "none"
  BY <1>1, CloseTurn
<1>3. /\ UNCHANGED <<keys, data, denied, exit, mine, harm, wiped, calls>> /\ handle'[u] = NONE
  BY <1>1 DEF R!Close, R!tree, R!ghosts, R!TypeOK
<1>4. TreeMoves /\ Wipes
  BY <1>1, <1>3, WorldStays
<1>5. R!OwnIsGone(u)'
  <2>1. u \in denied => mine[u] = {}
    BY DEF R!IInv, R!OwnGone, R!OwnIsGone
  <2>2. QED
    BY <1>2, <1>3, <2>1 DEF R!OwnIsGone, R!At, R!Valid
<1>6. R!StillThere(u)' /\ R!RemovesOnlyNamed' /\ R!EndSparesOwn'
  BY <1>2, <1>3 DEF R!IInv, R!StillThere, R!At, R!RemovesOnlyNamed, R!EndSparesOwn
<1>7. QED
  BY <1>1, <1>2, <1>3, <1>4, <1>5, <1>6 DEF Steps

LEMMA HandleStep ==
  ASSUME R!IInv, NEW u \in Users, R!Handle(u)
  PROVE  Steps(u)
<1>1. R!TypeOK /\ R!CallsRight /\ calls \in Nat /\ R!OwnIsGone(u) /\ call[u] \in R!Calls
  BY CallFields DEF R!IInv, R!TypeOK, R!OwnGone
<1>2. /\ Turn(u) /\ R!CallRight(u)' /\ TreeMoves /\ Wipes
      /\ data' = data /\ mine' = mine /\ moved' = moved
      /\ handle[u] # NONE => handle'[u] = handle[u]
      /\ u \in exit' => u \in exit \/ handle'[u] = NONE \/ u \in denied
      /\ \/ call'[u] = R!Idle
         \/ call'[u] = [call[u] EXCEPT !.at = R!First[call[u].op]]
         \/ call'[u] = [call[u] EXCEPT !.at = "close"]
  BY <1>1, HandleTurn
<1>3. /\ call[u].at = "handle" /\ UNCHANGED <<denied, harm, wiped, calls>>
  BY DEF R!Handle, R!At, R!ghosts
<1>4. call[u].op \in {"set", "get", "list", "remove", "end"}
  BY <1>1, <1>3, TableIs DEF R!CallsRight, R!CallRight
<1>5. /\ call'[u].at \in {"idle", "close", "path", "query", "list", "value", "last"}
      /\ call'[u].op # "read"
  <2>1. CASE call'[u] = R!Idle
    BY <2>1 DEF R!Idle
  <2>2. CASE call'[u] = [call[u] EXCEPT !.at = R!First[call[u].op]]
    BY <1>1, <1>4, <2>2, TableIs DEF R!Calls
  <2>3. CASE call'[u] = [call[u] EXCEPT !.at = "close"]
    BY <1>1, <1>4, <2>3 DEF R!Calls
  <2>4. QED
    BY <1>2, <2>1, <2>2, <2>3
<1>6. R!OwnIsGone(u)'
  <2>1. u \in denied \/ handle[u] = NONE => mine[u] = {}
    BY <1>1, <1>3 DEF R!OwnIsGone, R!At
  <2>2. ASSUME u \in exit', R!Valid(handle[u])', NEW n \in R!ValueNames PROVE ~R!Kept(u, n)'
    <3>1. CASE u \in denied \/ handle[u] = NONE
      BY <1>2, <2>1, <3>1 DEF R!Kept
    <3>2. CASE u \notin denied /\ handle[u] # NONE
      <4>1. handle'[u] = handle[u] /\ u \in exit /\ handle[u] \in R!Handles
        BY <1>1, <1>2, <2>2, <3>2, CallFields DEF R!Valid
      <4>2. R!Valid(handle[u])
        BY <1>1, <1>2, <2>2, <4>1, ValidBefore
      <4>3. ~R!Kept(u, n)
        BY <1>1, <4>1, <4>2 DEF R!OwnIsGone
      <4>4. QED
        BY <1>1, <1>2, <4>1, <4>3, KeptBefore
    <3>3. QED
      BY <3>1, <3>2
  <2>3. u \in denied' \/ handle'[u] = NONE => mine'[u] = {}
    BY <1>2, <1>3, <2>1
  <2>4. QED
    BY <1>5, <2>2, <2>3 DEF R!OwnIsGone
<1>7. R!StillThere(u)' /\ R!RemovesOnlyNamed' /\ R!EndSparesOwn'
  BY <1>3, <1>5 DEF R!IInv, R!StillThere, R!At, R!RemovesOnlyNamed, R!EndSparesOwn
<1>8. QED
  BY <1>1, <1>2, <1>3, <1>5, <1>6, <1>7 DEF Steps

LEMMA CreatePathStep ==
  ASSUME R!IInv, NEW u \in Users, R!CreatePath(u)
  PROVE  Steps(u)
<1>1. R!TypeOK /\ R!CallsRight /\ calls \in Nat
  BY DEF R!IInv, R!TypeOK
<1>2. /\ Turn(u) /\ R!CallRight(u)' /\ TreeMoves /\ Wipes
      /\ UNCHANGED <<data, handle, mine, moved, exit>> /\ call'[u].at \in {"idle", "write"}
      /\ call'[u].op \in {"none", "set"}
  BY <1>1, CreatePathTurn
<1>3. call[u].at = "path" /\ UNCHANGED <<harm, wiped, calls>>
  BY DEF R!CreatePath, R!At, R!ghosts
<1>4. QED
  BY <1>1, <1>2, <1>3, QuietStep

LEMMA WriteStep ==
  ASSUME R!IInv, NEW u \in Users, R!Write(u)
  PROVE  Steps(u)
<1>1. R!TypeOK /\ R!CallsRight /\ calls \in Nat
  BY DEF R!IInv, R!TypeOK
<1>2. /\ Turn(u) /\ R!CallRight(u)' /\ TreeMoves /\ UNCHANGED handle /\ call'[u] = R!Idle
      /\ \/ Wipes /\ mine' = mine /\ exit' = exit
         \/ \E p, n, v : Wrote(u, p, n, v)
  BY <1>1, WriteTurn
<1>3. call[u].at = "write" /\ UNCHANGED <<harm, wiped, calls, denied>>
  BY DEF R!Write, R!At
<1>4. call'[u].at = "idle" /\ call'[u].op = "none"
  BY <1>2 DEF R!Idle
<1>5. CASE Wipes /\ mine' = mine /\ exit' = exit
  BY <1>1, <1>2, <1>3, <1>4, <1>5, QuietStep
<1>6. CASE \E p, n, v : Wrote(u, p, n, v)
  <2>1. u \notin exit'
    BY <1>6 DEF Wrote
  <2>2. u \notin denied /\ handle[u] # NONE
    BY <1>1, <1>3, RequestIs
  <2>3. R!OwnIsGone(u)'
    BY <1>2, <1>3, <1>4, <2>1, <2>2 DEF R!OwnIsGone
  <2>4. R!StillThere(u)' /\ R!RemovesOnlyNamed' /\ R!EndSparesOwn'
    BY <1>3, <1>4 DEF R!IInv, R!StillThere, R!At, R!RemovesOnlyNamed, R!EndSparesOwn
  <2>5. QED
    BY <1>1, <1>2, <1>3, <1>4, <1>6, <2>3, <2>4 DEF Steps
<1>7. QED
  BY <1>2, <1>5, <1>6

LEMMA QueryStep ==
  ASSUME R!IInv, NEW u \in Users, R!Query(u)
  PROVE  Steps(u)
<1>1. R!TypeOK /\ R!CallsRight /\ R!OwnGone /\ calls \in Nat
  BY DEF R!IInv, R!TypeOK
<1>2. /\ Turn(u) /\ R!CallRight(u)' /\ UNCHANGED <<keys, data, handle, mine, moved, exit>>
      /\ \/ call'[u] = R!Idle
         \/ /\ call'[u].op = "get" /\ call'[u].at = "data" /\ call'[u].value \in Values
            /\ call'[u].sub \in R!Handles /\ R!Valid(call'[u].sub)
            /\ call'[u].value = data[call'[u].sub.path][R!keyName(call'[u].key)]
  BY <1>1, QueryTurn
<1>3. call[u].at = "query" /\ UNCHANGED <<harm, wiped, calls>>
  BY DEF R!Query, R!At, R!ghosts
<1>4. TreeMoves /\ Wipes
  BY <1>1, <1>2, WorldStays
<1>5. call'[u].at \in {"idle", "data"} /\ call'[u].op # "read"
  BY <1>2 DEF R!Idle
<1>6. R!OwnIsGone(u)'
  BY <1>1, <1>2, <1>3, <1>4, <1>5, OwnStays
<1>7. R!StillThere(u)'
  <2>1. CASE call'[u] = R!Idle
    BY <2>1 DEF R!Idle, R!StillThere, R!At
  <2>2. CASE R!Valid(call'[u].sub)
    BY <1>2, <2>2 DEF R!Idle, R!StillThere, R!At, R!Valid
  <2>3. QED
    BY <1>2, <2>1, <2>2
<1>8. R!RemovesOnlyNamed' /\ R!EndSparesOwn'
  BY <1>3 DEF R!IInv, R!RemovesOnlyNamed, R!EndSparesOwn
<1>9. QED
  BY <1>1, <1>2, <1>3, <1>4, <1>5, <1>6, <1>7, <1>8 DEF Steps

LEMMA ReadStep ==
  ASSUME R!IInv, NEW u \in Users, R!Read(u)
  PROVE  Steps(u)
<1> DEFINE v == data[call[u].sub.path][R!keyName(call[u].key)]
<1>1. R!TypeOK /\ R!CallsRight /\ R!OwnGone /\ calls \in Nat
  BY DEF R!IInv, R!TypeOK
<1>2. /\ Turn(u) /\ R!CallRight(u)' /\ UNCHANGED <<keys, data, handle, mine, moved, exit>>
      /\ Answers(u, "read") /\ call[u].at = "data"
      /\ R!Valid(call[u].sub) /\ v = call[u].value /\ v \in Values => call'[u].value \in Values
  BY <1>1, ReadTurn
<1>3. UNCHANGED <<harm, wiped, calls>>
  BY DEF R!Read, R!ghosts
<1>4. TreeMoves /\ Wipes
  BY <1>1, <1>2, WorldStays
<1>5. call'[u].at = "idle"
  BY <1>2 DEF Answers
<1>6. R!OwnIsGone(u)'
  BY <1>1, <1>2, <1>4, <1>5, OwnStays
<1>7. u \notin moved' => call'[u].value \in Values
  <2>1. ASSUME u \notin moved PROVE R!Valid(call[u].sub) /\ v = call[u].value /\ v \in Values
    BY <1>2, <2>1 DEF R!IInv, R!Unmoved, R!StillThere, R!At
  <2>2. QED
    BY <1>2, <2>1
<1>8. R!StillThere(u)' /\ R!RemovesOnlyNamed' /\ R!EndSparesOwn'
  BY <1>3, <1>5 DEF R!IInv, R!StillThere, R!At, R!RemovesOnlyNamed, R!EndSparesOwn
<1> HIDE DEF v
<1>9. QED
  BY <1>1, <1>2, <1>3, <1>4, <1>6, <1>7, <1>8 DEF Steps

LEMMA ListStep ==
  ASSUME R!IInv, NEW u \in Users, R!List(u)
  PROVE  Steps(u)
<1>1. R!TypeOK /\ R!CallsRight /\ calls \in Nat
  BY DEF R!IInv, R!TypeOK
<1>2. /\ Turn(u) /\ R!CallRight(u)' /\ UNCHANGED <<keys, data, handle, mine, moved, exit>>
      /\ Answers(u, "list")
  BY <1>1, ListTurn
<1>3. call[u].at = "list" /\ UNCHANGED <<harm, wiped, calls>>
  BY DEF R!List, R!At, R!ghosts
<1>4. TreeMoves /\ Wipes
  BY <1>1, <1>2, WorldStays
<1>5. call'[u].at = "idle" /\ call'[u].op = "list"
  BY <1>2 DEF Answers
<1>6. QED
  BY <1>1, <1>2, <1>3, <1>4, <1>5, QuietStep

LEMMA RemoveValueStep ==
  ASSUME R!IInv, NEW u \in Users, R!RemoveValue(u)
  PROVE  Steps(u)
<1>1. R!TypeOK /\ R!CallsRight /\ R!OwnGone /\ R!RemovesOnlyNamed /\ calls \in Nat
  BY DEF R!IInv, R!TypeOK
<1>2. /\ Turn(u) /\ R!CallRight(u)' /\ TreeMoves /\ Wipes
      /\ UNCHANGED <<keys, handle, mine, exit>> /\ call[u].at = "value"
      /\ call'[u].at = "tree" /\ call'[u].op = "remove"
      /\ call'[u].key = <<>> /\ R!Valid(handle[u]) => data'[handle[u].path][R!Empty] = NONE
      /\ R!RemovesOnlyNamed'
  BY <1>1, RemoveValueTurn
<1>3. UNCHANGED <<wiped, calls>>
  BY DEF R!RemoveValue
<1>4. R!OwnIsGone(u)'
  BY <1>1, <1>2, OwnStays
<1>5. R!StillThere(u)' /\ R!EndSparesOwn'
  BY <1>2, <1>3 DEF R!IInv, R!StillThere, R!At, R!EndSparesOwn
<1>6. QED
  BY <1>1, <1>2, <1>3, <1>4, <1>5 DEF Steps

LEMMA OpenTreeStep ==
  ASSUME R!IInv, NEW u \in Users, R!OpenTree(u)
  PROVE  Steps(u)
<1>1. R!TypeOK /\ R!CallsRight /\ R!OwnGone /\ calls \in Nat
  BY DEF R!IInv, R!TypeOK
<1>2. /\ Turn(u) /\ R!CallRight(u)' /\ UNCHANGED <<keys, data, handle, mine, moved>>
      /\ call[u].at = "tree"
      /\ \/ call'[u] = R!Idle /\ (u \in exit' => u \in exit \/ ~R!Valid(handle[u]))
         \/ /\ call'[u].op = "remove" /\ call'[u].at = "walk" /\ call'[u].key = call[u].key
            /\ exit' = exit
  BY <1>1, OpenTreeTurn
<1>3. UNCHANGED <<harm, wiped, calls>>
  BY DEF R!OpenTree, R!ghosts
<1>4. TreeMoves /\ Wipes
  BY <1>1, <1>2, WorldStays
<1>5. /\ call'[u].op # "read" /\ call'[u].at # "data"
      /\ u \in exit' => u \in exit \/ ~R!Valid(handle[u])
      /\ call'[u].at \in {"tree", "walk"} => call'[u].key = call[u].key
  BY <1>2 DEF R!Idle
<1>6. R!OwnIsGone(u)'
  BY <1>1, <1>2, <1>4, <1>5, OwnStays
<1>7. R!StillThere(u)' /\ R!RemovesOnlyNamed' /\ R!EndSparesOwn'
  BY <1>3, <1>5 DEF R!IInv, R!StillThere, R!At, R!RemovesOnlyNamed, R!EndSparesOwn
<1>8. QED
  BY <1>1, <1>2, <1>3, <1>4, <1>5, <1>6, <1>7 DEF Steps

LEMMA DescendStep ==
  ASSUME R!IInv, NEW u \in Users, R!Descend(u)
  PROVE  Steps(u)
<1>1. R!TypeOK /\ R!CallsRight /\ R!OwnGone /\ calls \in Nat
  BY DEF R!IInv, R!TypeOK
<1>2. /\ Turn(u) /\ R!CallRight(u)' /\ UNCHANGED <<keys, data, handle, mine, moved, exit>>
      /\ call[u].at = "walk"
      /\ call'[u].op = "remove" /\ call'[u].at = "walk" /\ call'[u].key = call[u].key
  BY <1>1, DescendTurn
<1>3. UNCHANGED <<harm, wiped, calls>>
  BY DEF R!Descend, R!ghosts
<1>4. TreeMoves /\ Wipes
  BY <1>1, <1>2, WorldStays
<1>5. R!OwnIsGone(u)'
  BY <1>1, <1>2, <1>4, OwnStays
<1>6. R!StillThere(u)' /\ R!RemovesOnlyNamed' /\ R!EndSparesOwn'
  BY <1>2, <1>3 DEF R!IInv, R!StillThere, R!At, R!RemovesOnlyNamed, R!EndSparesOwn
<1>7. QED
  BY <1>1, <1>2, <1>3, <1>4, <1>5, <1>6 DEF Steps

LEMMA AscendStep ==
  ASSUME R!IInv, NEW u \in Users, R!Ascend(u)
  PROVE  Steps(u)
<1>1. R!TypeOK /\ R!CallsRight /\ R!OwnGone /\ R!RemovesOnlyNamed /\ calls \in Nat
  BY DEF R!IInv, R!TypeOK
<1>2. /\ Turn(u) /\ R!CallRight(u)' /\ TreeMoves /\ Wipes /\ R!RemovesOnlyNamed'
      /\ UNCHANGED <<handle, mine, exit>> /\ call[u].at = "walk"
      /\ call'[u].op = "remove" /\ call'[u].at = "walk" /\ call'[u].key = call[u].key
  BY <1>1, AscendTurn
<1>3. UNCHANGED <<wiped, calls>>
  BY DEF R!Ascend
<1>4. R!OwnIsGone(u)'
  BY <1>1, <1>2, OwnStays
<1>5. R!StillThere(u)' /\ R!EndSparesOwn'
  BY <1>2, <1>3 DEF R!IInv, R!StillThere, R!At, R!EndSparesOwn
<1>6. QED
  BY <1>1, <1>2, <1>3, <1>4, <1>5 DEF Steps

LEMMA RemoveTopStep ==
  ASSUME R!IInv, NEW u \in Users, R!RemoveTop(u)
  PROVE  Steps(u)
<1>1. R!TypeOK /\ R!CallsRight /\ R!OwnGone /\ R!RemovesOnlyNamed /\ calls \in Nat
  BY DEF R!IInv, R!TypeOK
<1>2. /\ Turn(u) /\ R!CallRight(u)' /\ TreeMoves /\ Wipes /\ R!RemovesOnlyNamed'
      /\ UNCHANGED <<handle, mine>> /\ call[u].at = "walk" /\ call'[u] = R!Idle
      /\ u \in exit' /\ u \notin exit =>
           /\ call[u].key = <<>>
           /\ R!Valid(handle[u]) =>
                \A n \in R!ValueNames : n # R!Empty => data'[handle[u].path][n] = NONE
  BY <1>1, RemoveTopTurn
<1>3. UNCHANGED <<wiped, calls>>
  BY DEF R!RemoveTop
<1>4. call'[u].op = "none" /\ call'[u].at = "idle"
  BY <1>2 DEF R!Idle
<1>5. R!OwnIsGone(u)'
  BY <1>1, <1>2, <1>4, OwnStays
<1>6. R!StillThere(u)' /\ R!EndSparesOwn'
  BY <1>3, <1>4 DEF R!IInv, R!StillThere, R!At, R!EndSparesOwn
<1>7. QED
  BY <1>1, <1>2, <1>3, <1>4, <1>5, <1>6 DEF Steps

LEMMA DeleteSelfStep ==
  ASSUME R!IInv, NEW u \in Users, R!DeleteSelf(u)
  PROVE  Steps(u)
<1>1. R!TypeOK /\ R!CallsRight /\ R!OwnGone /\ R!EndSparesOwn /\ calls \in Nat
  BY DEF R!IInv, R!TypeOK
<1>2. /\ Turn(u) /\ R!CallRight(u)' /\ TreeMoves /\ Wipes /\ R!EndSparesOwn'
      /\ UNCHANGED <<handle, mine, exit>> /\ call[u].at = "last"
      /\ call'[u].at = "close" /\ call'[u].op = "end"
  BY <1>1, DeleteSelfTurn
<1>3. UNCHANGED <<harm, calls>>
  BY DEF R!DeleteSelf
<1>4. R!OwnIsGone(u)'
  BY <1>1, <1>2, OwnStays
<1>5. R!StillThere(u)' /\ R!RemovesOnlyNamed'
  BY <1>2, <1>3 DEF R!IInv, R!StillThere, R!At, R!RemovesOnlyNamed
<1>6. QED
  BY <1>1, <1>2, <1>3, <1>4, <1>5 DEF Steps

LEMMA RegistryInit == R!Init => R!IInv
<1> SUFFICES ASSUME R!Init PROVE R!IInv
  OBVIOUS
<1>1. /\ keys = [p \in R!Paths |-> IF p = <<>> THEN 1 ELSE 0]
      /\ data = [p \in R!Paths |-> [n \in R!ValueNames |-> NONE]]
      /\ loc \in [Users -> Locations \cup {NONE}]
      /\ handle = [u \in Users |-> NONE] /\ exit = {} /\ call = [u \in Users |-> R!Idle]
      /\ calls = 0 /\ mine = [u \in Users |-> {}] /\ harm = {} /\ wiped = {}
  BY DEF R!Init
<1>2. R!TypeOK
  BY <1>1, IdleIs DEF R!TypeOK
<1>3. R!CallsRight
  <2>1. \A u \in Users : call[u] = R!Idle
    BY <1>1
  <2>2. QED
    BY <2>1, IdleIs DEF R!CallsRight, R!CallRight, R!Idle
<1>4. R!OwnGone
  BY <1>1 DEF R!OwnGone, R!OwnIsGone, R!Kept
<1>5. R!Unmoved /\ R!ReadsWhole
  <2>1. \A u \in Users : call[u].at = "idle" /\ call[u].op = "none"
    BY <1>1 DEF R!Idle
  <2>2. QED
    BY <2>1 DEF R!Unmoved, R!StillThere, R!At, R!ReadsWhole
<1>6. R!DefaultFree /\ R!RemovesOnlyNamed /\ R!EndSparesOwn
  BY <1>1 DEF R!DefaultFree, R!RemovesOnlyNamed, R!EndSparesOwn, R!ValueNames
<1>7. QED
  BY <1>2, <1>3, <1>4, <1>5, <1>6 DEF R!IInv

LEMMA RegistryStep == R!IInv /\ [R!Next]_registry => R!IInv'
<1> SUFFICES ASSUME R!IInv, [R!Next]_registry PROVE R!IInv'
  OBVIOUS
<1>1. ASSUME NEW u \in Users, NEW k \in Texts,
             \/ \E v \in Values : R!Begin(u, "set", k, v)
             \/ R!Begin(u, "get", k, NONE) \/ R!Begin(u, "remove", k, NONE)
      PROVE  Steps(u)
  <2>1. k \in Seq(R!Words)
    BY RegistryAssumption
  <2>2. ASSUME NEW v \in Values, R!Begin(u, "set", k, v) PROVE Steps(u)
    BY <2>1, <2>2, BeginStep
  <2>3. CASE R!Begin(u, "get", k, NONE)
    BY <2>1, <2>3, BeginStep
  <2>4. CASE R!Begin(u, "remove", k, NONE)
    BY <2>1, <2>4, BeginStep
  <2>5. QED
    BY <1>1, <2>2, <2>3, <2>4
<1>2. ASSUME NEW u \in Users, R!Begin(u, "list", <<>>, NONE) PROVE Steps(u)
  BY <1>2, EmptySeq, BeginStep
<1>3. ASSUME NEW u \in Users,
             \/ R!List(u) \/ R!Handle(u) \/ R!CreatePath(u) \/ R!Write(u) \/ R!Query(u)
             \/ R!Read(u) \/ R!RemoveValue(u) \/ R!OpenTree(u) \/ R!Descend(u) \/ R!Ascend(u)
             \/ R!RemoveTop(u) \/ R!End(u) \/ R!DeleteSelf(u) \/ R!Close(u)
      PROVE  Steps(u)
  BY <1>3, ListStep, HandleStep, CreatePathStep, WriteStep, QueryStep, ReadStep,
     RemoveValueStep, OpenTreeStep, DescendStep, AscendStep, RemoveTopStep, EndStep,
     DeleteSelfStep, CloseStep
<1>4. CASE UNCHANGED registry
  BY <1>4 DEF registry, R!IInv, R!TypeOK, R!CallsRight, R!CallRight, R!OwnGone, R!OwnIsGone,
     R!Kept, R!Unmoved, R!StillThere, R!DefaultFree, R!RemovesOnlyNamed, R!EndSparesOwn,
     R!ReadsWhole, R!Valid, R!At, R!Target
<1>5. QED
  BY <1>1, <1>2, <1>3, <1>4, RegistryCases, StepKeeps

LEMMA RegistryInv == Spec => []R!IInv
<1>1. Init => R!IInv
  BY RegistryInit DEF Init
<1>2. R!IInv /\ [Next]_<<unit, services, registry, drivers>> => R!IInv'
  BY UnitSteps, RegistryStep
<1>3. QED
  BY <1>1, <1>2, PTL DEF Spec

\* However the requests of the objects interleave, remove() deletes nothing but
\* what its key names, unless normalizedKey() cut the key, and the end of an
\* object that was cleared deletes no value that it has set itself.
THEOREM OnlyMeantIsDeleted == Spec => []DeletesOnlyMeant
<1>1. R!IInv => DeletesOnlyMeant
  BY DEF R!IInv, DeletesOnlyMeant
<1>2. QED
  BY <1>1, RegistryInv, PTL

\* get() answers with a value that somebody set, type and size from the same
\* one, unless the value was changed between its two requests (readKey).
THEOREM ValuesAreWhole == Spec => []ReadsWhole
<1>1. R!IInv => ReadsWhole
  BY DEF R!IInv, ReadsWhole
<1>2. QED
  BY <1>1, RegistryInv, PTL

\* The values of the location itself that allKeys() lists are found under the
\* names that it lists, the default value under "." (childKeysOrGroups, keyName).
THEOREM ListedKeysAreFound == Spec => ListedIsFound
<1>1. ASSUME R!IInv, NEW u \in Users, R!List(u), NEW k \in call'[u].found, Len(k) = 1
      PROVE  R!keyName(k) \in R!ValueNames /\ data[handle[u].path][R!keyName(k)] # NONE
  <2> DEFINE p == handle[u].path
             x == IF R!Valid(handle[u]) THEN R!allKeys(p) ELSE {}
             c == [R!Idle EXCEPT !.op = "list", !.found = x]
  <2>1. R!TypeOK /\ call[u].at = "list" /\ call' = [call EXCEPT ![u] = c]
    BY <1>1 DEF R!List, R!At, R!IInv
  <2>2. c.found = x
    BY DEF R!Idle
  <2>3. k \in R!allKeys(p)
    <3> HIDE DEF c, x
    <3>1. call'[u] = c
      BY <2>1 DEF R!TypeOK
    <3>2. QED
      BY <1>1, <2>2, <3>1 DEF x
  <2>4. p \in R!Paths /\ p \in Seq(Names)
    BY <1>1, <2>1, RequestIs, PathsAre DEF R!IInv, R!Handles
  <2> HIDE DEF p, c, x
  <2>5. PICK q \in R!Paths, n \in R!ValueNames :
          /\ k = Append(SubSeq(q, Len(p) + 1, Len(q)), IF n = R!Empty THEN "." ELSE n)
          /\ R!IsPrefix(p, q) /\ data[q][n] # NONE
    BY <2>3 DEF R!allKeys
  <2>6. q \in Seq(Names)
    BY PathsAre
  <2> DEFINE s == SubSeq(q, Len(p) + 1, Len(q))
             y == IF n = R!Empty THEN "." ELSE n
  <2>7. s \in Seq(Names) /\ Len(s) = (IF Len(p) + 1 <= Len(q) THEN Len(q) - Len(p) ELSE 0)
    <3>1. Len(p) \in Nat /\ Len(q) \in Nat
      BY <2>4, <2>6, LenProperties
    <3>2. QED
      BY <2>6, <3>1, SubSeqProperties, ElementOfSeq
  <2>8. k = Append(s, y)
    BY <2>5
  <2> HIDE DEF s, y
  <2>9. Len(k) = Len(s) + 1 /\ k[Len(k)] = y /\ k # <<>>
    BY <2>7, <2>8
  <2>10. Len(q) <= Len(p)
    <3>1. Len(p) \in Nat /\ Len(q) \in Nat
      BY <2>4, <2>6, LenProperties
    <3>2. Len(s) = 0
      <4>1. Len(s) \in Nat /\ Len(k) = 1
        BY <1>1, <2>7, LenProperties
      <4>2. 1 = Len(s) + 1
        BY <2>9, <4>1
      <4>3. \A i \in Nat : 1 = i + 1 => i = 0
        OBVIOUS
      <4>4. QED
        BY <4>1, <4>2, <4>3
    <3>3. QED
      BY <2>7, <3>1, <3>2
  <2>11. q = p
    <3>1. Len(p) <= Len(q) /\ \A i \in 1..Len(p) : p[i] = q[i]
      BY <2>4, <2>5, <2>6, PrefixIs
    <3>2. Len(p) = Len(q)
      BY <2>4, <2>6, <2>10, <3>1, LenProperties
    <3>3. QED
      BY <2>4, <2>6, <3>1, <3>2, SeqEqual
  <2>12. R!Last(k) = y
    BY <2>9 DEF R!Last
  <2>13. R!keyName(k) = n
    <3>1. CASE n = R!Empty
      BY <2>12, <3>1 DEF R!keyName, y
    <3>2. CASE n \in Names /\ n # R!Empty
      <4>1. n # "Default" /\ n # "."
        BY <1>1, <2>5, <3>2, RegistryAssumption DEF R!IInv, R!DefaultFree
      <4>2. QED
        BY <2>9, <2>12, <3>2, <4>1 DEF R!keyName, y
    <3>3. QED
      BY <2>5, <3>1, <3>2 DEF R!ValueNames
  <2>14. QED
    BY <2>5, <2>11, <2>13 DEF p
<1>2. R!IInv => [unit = "registry" => R!ListsFound]_<<unit, registry>>
  BY <1>1 DEF R!ListsFound
<1>3. QED
  BY <1>2, RegistryInv, PTL DEF ListedIsFound

================================================================================
