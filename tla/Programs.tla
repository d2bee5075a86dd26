-------------------------------- MODULE Programs --------------------------------
(***************************************************************************)
(* The programs around skl, each checked on its own: unit says whether a   *)
(* behaviour is one of clients of the service manager, of objects on the   *)
(* registry, or of a driver.  They share no state; the module only puts    *)
(* their runs together.                                                    *)
(***************************************************************************)
EXTENDS Integers, Sequences, FiniteSets, TLC

CONSTANTS
  Services, Devices, Operators, Installers, MaxRequests, MaxHandles,  \* ServiceManager
  Users, Names, MaxDepth, Locations, Texts, Values, MaxCalls, NONE,   \* Registry
  Rounds, MaxTasks                                                    \* Drivers

\* Drivers are services, and a client is either an operator or an installer.
ASSUME ServicesAssumption ==
  Devices \subseteq Services /\ Operators \cap Installers = {} /\ MaxHandles \in Nat \ {0}
\* Main and thread go through their loops at least once.
ASSUME DriversAssumption == {Rounds, MaxTasks} \subseteq Nat \ {0}

VARIABLES
  unit,
  exists, marked, disabled, state, request, handles, requests, leaks, ran, again,
  keys, data, loc, denied, handle, exit, call, calls, mine, harm, wiped, moved,
  kind, image, runtime, at, thread, owners, queued, hand, stopped, lock, rounds,
  instance, filtering, inflight, orphans, wild, left

S == INSTANCE ServiceManager WITH
       Names <- Services, Drivers <- Devices, MaxCalls <- MaxRequests,
       call <- request, calls <- requests
R == INSTANCE Registry
D == INSTANCE Drivers

\* A location lies below its hive, the empty string and "." stand for the default
\* value, and a key is made of names, of these, and of what lies between slashes.
ASSUME RegistryAssumption ==
  /\ {R!Empty, "."} \cap Names = {} /\ IsFiniteSet(Users) /\ MaxDepth \in Nat
  /\ \A l \in Locations : l \in Seq(Names) \ {<<>>} /\ Len(l) <= MaxDepth
  /\ Texts \subseteq Seq(R!Words)
  /\ Values \subseteq [type : STRING, size : Nat] /\ NONE \notin Values \cup R!Handles

services == <<exists, marked, disabled, state, request, handles, requests, leaks, ran, again>>
registry == <<keys, data, loc, denied, handle, exit, call, calls, mine, harm, wiped, moved>>
drivers == <<kind, image, runtime, at, thread, owners, queued, hand, stopped, lock, rounds,
             instance, filtering, inflight, orphans, wild, left>>

\* A unit that is not exercised stands still in one of its initial states.
Init ==
  /\ unit \in {"services", "registry", "drivers"}
  /\ S!Init /\ R!Init /\ D!Init
  /\ unit # "services" => exists = {}
  /\ unit # "registry" => denied = {} /\ \A u \in Users : loc[u] = NONE
  /\ unit # "drivers" => kind = "Fs"

Next ==
  \/ unit = "services" /\ S!Next /\ UNCHANGED <<unit, registry, drivers>>
  \/ unit = "registry" /\ R!Next /\ UNCHANGED <<unit, services, drivers>>
  \/ unit = "drivers" /\ D!Next /\ UNCHANGED <<unit, services, registry>>

Spec == Init /\ [][Next]_<<unit, services, registry, drivers>>

\* A location and one below it; keys with slashes where they do not belong,
\* and the two names of a default value; values of two types and sizes.
SomeLocations == {<<"a">>, <<"a", "a">>}
SomeTexts == {<<>>, <<"", "a">>, <<"a", "", "Default">>, <<"a", "Default">>}
SomeValues == {[type |-> "dword", size |-> 1], [type |-> "sz", size |-> 2]}

\* Objects on the registry are interchangeable, and so are installers.
Symmetry == Permutations(Users) \cup Permutations(Installers)

-----------------------------------------------------------------------------
(* The properties of the programs, where they are explained                *)

\* A service that was removed goes, but for the handles that start() leaks
\* (ServiceOperater, InstallDriver).
RemovedGoes == unit = "services" => S!RemovedGoes
\* A driver that is reported installed has run since, and one that is reported
\* removed does not run unless somebody has started it since (LoadNTDriver, StopSvr, DelSvr).
InstallerRight == unit = "services" => S!InstalledRan /\ S!UninstalledStopped
\* remove() deletes what its key names, but for stray slashes, and the end of an
\* object that was cleared spares its own values (Registry::remove, ~RegistryPrivate).
DeletesOnlyMeant == unit = "registry" => R!RemovesOnlyNamed /\ R!EndSparesOwn
\* A value that nobody changes meanwhile is read whole (readKey).
ReadsWhole == unit = "registry" => R!ReadsWhole
\* What allKeys() lists of the location itself, value() finds, but not the names
\* it lists of keys below (childKeysOrGroups, keyName).
ListedIsFound == [][unit = "registry" => R!ListsFound]_<<unit, registry>>
\* Threads and callbacks of a driver end before what they use, main sees the
\* counts it expects, and an image leaves behind only what it never frees
\* (KMDF DriverEntryImp, Fs::Unload, RunTimeUnInit).
DriverRight == unit = "drivers" => D!NothingOutlives /\ D!LeftBehind
================================================================================
