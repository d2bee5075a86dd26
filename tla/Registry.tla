-------------------------------- MODULE Registry --------------------------------
(***************************************************************************)
(* sl/Registry.cpp: objects of several processes that read and change keys *)
(* and values under their locations in the registry.  Each request to the  *)
(* registry is a step, and a call makes several; the registry is external. *)
(*                                                                         *)
(* A key is a path, a sequence of names, and a value a key and a name, ""  *)
(* for the default value.  A key that is deleted and created again is      *)
(* another one, for which old handles are no good: id tells them apart.    *)
(* What a caller passes as a key is the sequence of the names between its  *)
(* slashes, "" where there is nothing between two, and <<>> for "".        *)
(***************************************************************************)
EXTENDS Integers, SequencesExt, FiniteSets

CONSTANTS
  Users,      \* Registry objects
  Names,      \* names of keys and values
  MaxDepth,   \* bound: names in a path
  Locations,  \* paths that objects are constructed with
  Texts,      \* keys that are passed to the calls
  Values,     \* [type, size] records
  MaxCalls,   \* bound: calls of all objects
  NONE

VARIABLES
  keys,    \* the id of each key, 0 where there is none
  data,    \* the value of each key and name
  loc,     \* where each object looks, NONE if its path begins with no known hive
  denied,  \* objects whose process may only read
  handle,  \* m_handle of each object
  exit,    \* objects with deleteWriteHandleOnExit
  call,    \* the call of each object, the request it is at, and what it answers
  calls,   \* calls so far
  mine,    \* ghost: values that each object has set
  harm,    \* ghost: keys whose removal has deleted what they do not name
  wiped,   \* ghost: values that objects deleted at their end, with who had set them
  moved    \* ghost: objects whose value was set or removed while they read it

tree == <<keys, data>>
ghosts == <<mine, harm, wiped, moved>>
vars == <<tree, loc, denied, handle, exit, call, calls, ghosts>>

\* What lies between two slashes, and the name of the default value.
Empty == ""

Paths == SeqOf(Names, MaxDepth)
ValueNames == Names \cup {Empty}

Idle == [op |-> "none", at |-> "idle", key |-> <<>>, raw |-> <<>>, value |-> NONE,
         found |-> {}, sub |-> NONE, walk |-> <<>>]

Init ==
  /\ keys = [p \in Paths |-> IF p = <<>> THEN 1 ELSE 0]
  /\ data = [p \in Paths |-> [n \in ValueNames |-> NONE]]
  /\ loc \in [Users -> Locations \cup {NONE}] /\ denied \in {{}} \cup {{u} : u \in Users}
  /\ handle = [u \in Users |-> NONE] /\ exit = {}
  /\ call = [u \in Users |-> Idle] /\ calls = 0
  /\ mine = [u \in Users |-> {}] /\ harm = {} /\ wiped = {} /\ moved = {}

-----------------------------------------------------------------------------
(* Keys                                                                    *)

\* erase(i) takes away everything from a slash that follows a slash, or that
\* begins the key, and what is left ends without one.
normalizedKey(k) ==
  LET empty == {i \in 1..Len(k) : k[i] = Empty} IN
  IF empty = {} THEN k ELSE SubSeq(k, 1, (CHOOSE i \in empty : \A j \in empty : i <= j) - 1)

keyPath(k) == IF k = <<>> THEN <<>> ELSE Front(k)
keyName_Bug(k) == IF k = <<>> THEN Empty ELSE Last(k)
keyName(k) == IF k = <<>> \/ Last(k) \in {"Default", "."} THEN Empty ELSE Last(k)

\* What a caller means.
Clean(k) == SelectSeq(k, LAMBDA n : n # Empty)

-----------------------------------------------------------------------------
(* The registry                                                            *)

Valid(h) == h # NONE /\ keys[h.path] = h.id
Open(p) == [path |-> p, id |-> keys[p]]
Exists(p) == p \in Paths /\ keys[p] # 0
Children(p) == {n \in Names : Len(p) < MaxDepth /\ keys[Append(p, n)] # 0}

\* A new key gets an id that no handle has.
Held == {handle[u] : u \in Users} \cup {call[u].sub : u \in Users}
        \cup UNION {{f.h : f \in ToSet(call[u].walk)} : u \in Users}
Fresh(p) == CHOOSE i \in 1..(Cardinality(Held) + 1) : [path |-> p, id |-> i] \notin Held
Created(p) == [q \in Paths |-> IF IsPrefix(q, p) /\ keys[q] = 0 THEN Fresh(q) ELSE keys[q]]

CanDelete(p) == keys[p] # 0 /\ p # <<>> /\ Children(p) = {}
Readers(p, n) ==
  {u \in Users : call[u].at = "data" /\ call[u].sub.path = p /\ keyName(call[u].key) = n}
SetValue(p, n, v) == data' = [data EXCEPT ![p][n] = v] /\ moved' = moved \cup Readers(p, n)
DeleteKey(p) ==
  /\ keys' = [keys EXCEPT ![p] = 0] /\ data' = [data EXCEPT ![p] = [n \in ValueNames |-> NONE]]
  /\ moved' = moved \cup UNION {Readers(p, n) : n \in ValueNames}

-----------------------------------------------------------------------------
(* Calls                                                                   *)

At(u, at) == call[u].at = at
Goes(u, at) == call' = [call EXCEPT ![u].at = at]
Returns(u) == call' = [call EXCEPT ![u] = Idle]
Target(u) == handle[u].path \o call[u].key
Key(u) == handle[u].path \o keyPath(call[u].key)

\* remove() of a key that comes out empty is clear().
Begin(u, op, k, v) ==
  /\ At(u, "idle") /\ calls < MaxCalls /\ calls' = calls + 1
  /\ call' = [call EXCEPT ![u] = [Idle EXCEPT
       !.op = op, !.key = normalizedKey(k), !.raw = k, !.value = v, !.at = "handle"]]
  /\ moved' = moved \ {u}
  /\ UNCHANGED <<tree, loc, denied, handle, exit, mine, harm, wiped>>

\* The first request of a call after handle().
First == [set |-> "path", remove |-> "value", get |-> "query", list |-> "list", end |-> "last"]

\* set(), remove() and the end go no further with a handle for reading only.
writeHandle(u) == handle'[u] # NONE /\ u \notin denied

\* handle() creates the location, for readers too, and keeps what it has opened.
Handle(u) ==
  LET p == loc[u]  writes == call[u].op \in {"set", "remove", "end"} IN
  /\ At(u, "handle")
  /\ IF handle[u] # NONE \/ p = NONE THEN UNCHANGED <<keys, handle>>
     ELSE IF keys[p] = 0 /\ u \in denied THEN UNCHANGED <<keys, handle>>
     ELSE keys' = Created(p) /\ handle' = [handle EXCEPT ![u] = [path |-> p, id |-> keys'[p]]]
  /\ IF handle'[u] # NONE /\ (writes => writeHandle(u)) THEN Goes(u, First[call[u].op])
     ELSE IF call[u].op = "end" THEN Goes(u, "close") ELSE Returns(u)
  /\ exit' = IF call[u].op = "remove" /\ call'[u].at = "idle" /\ call[u].key = <<>>
             THEN exit \cup {u} ELSE exit
  /\ UNCHANGED <<data, loc, denied, calls, ghosts>>

\* set(): open or create the key, then set the value.
CreatePath(u) ==
  /\ At(u, "path")
  /\ IF Valid(handle[u]) /\ Key(u) \in Paths
     THEN /\ keys' = Created(Key(u))
          /\ call' = [call EXCEPT ![u].at = "write",
                                  ![u].sub = [path |-> Key(u), id |-> keys'[Key(u)]]]
     ELSE Returns(u) /\ UNCHANGED keys
  /\ UNCHANGED <<data, loc, denied, handle, exit, calls, ghosts>>
Write_Bug(u) ==
  /\ At(u, "write") /\ Returns(u)
  /\ IF Valid(call[u].sub)
     THEN LET p == call[u].sub.path  n == keyName(call[u].key) IN
          /\ SetValue(p, n, call[u].value)
          /\ mine' = [x \in Users |->
                        IF x = u THEN mine[x] \cup {<<p, n>>} ELSE mine[x] \ {<<p, n>>}]
     ELSE UNCHANGED <<data, mine, moved>>
  /\ UNCHANGED <<keys, exit, loc, denied, handle, calls, harm, wiped>>
Write(u) ==
  /\ At(u, "write") /\ Returns(u)
  /\ IF Valid(call[u].sub)
     THEN LET p == call[u].sub.path  n == keyName(call[u].key) IN
          /\ SetValue(p, n, call[u].value) /\ exit' = exit \ {u}
          /\ mine' = [x \in Users |->
                        IF x = u THEN mine[x] \cup {<<p, n>>} ELSE mine[x] \ {<<p, n>>}]
     ELSE UNCHANGED <<data, exit, mine, moved>>
  /\ UNCHANGED <<keys, loc, denied, handle, calls, harm, wiped>>

\* get(): the type and the size of the value, then the value.
Query(u) ==
  /\ At(u, "query")
  /\ LET n == keyName(call[u].key) IN
     IF Valid(handle[u]) /\ Exists(Key(u)) /\ data[Key(u)][n] # NONE
     THEN call' = [call EXCEPT ![u].at = "data", ![u].sub = Open(Key(u)),
                               ![u].value = data[Key(u)][n]]
     ELSE Returns(u)
  /\ UNCHANGED <<tree, loc, denied, handle, exit, calls, ghosts>>
Read_Bug(u) ==
  /\ At(u, "data")
  /\ LET v == data[call[u].sub.path][keyName(call[u].key)] IN
     call' = [call EXCEPT ![u] = [Idle EXCEPT !.op = "read", !.value =
       IF v # NONE /\ v.size < call[u].value.size
       THEN [v EXCEPT !.type = call[u].value.type] ELSE NONE]]
  /\ UNCHANGED <<tree, loc, denied, handle, exit, calls, ghosts>>
Read(u) ==
  /\ At(u, "data")
  /\ LET v == data[call[u].sub.path][keyName(call[u].key)] IN
     call' = [call EXCEPT ![u] = [Idle EXCEPT !.op = "read", !.value =
       IF Valid(call[u].sub) /\ v # NONE /\ v.size <= call[u].value.size
       THEN [v EXCEPT !.type = call[u].value.type] ELSE NONE]]
  /\ UNCHANGED <<tree, loc, denied, handle, exit, calls, ghosts>>

\* allKeys(): the values of a key and of those below it.  A default value is
\* called ".", and so is found again.
allKeys(p) ==
  UNION {{Append(SubSeq(q, Len(p) + 1, Len(q)), IF n = Empty THEN "." ELSE n)
            : n \in {m \in ValueNames : data[q][m] # NONE}}
         : q \in {r \in Paths : Exists(r) /\ IsPrefix(p, r)}}
List(u) ==
  /\ At(u, "list")
  /\ call' = [call EXCEPT ![u] = [Idle EXCEPT !.op = "list",
       !.found = IF Valid(handle[u]) THEN allKeys(handle[u].path) ELSE {}]]
  /\ UNCHANGED <<tree, loc, denied, handle, exit, calls, ghosts>>

-----------------------------------------------------------------------------
(* remove() and clear()                                                    *)

\* The deletion of what lies at p, if the caller did not mean it.
Harms(u, p) ==
  IF IsPrefix(handle[u].path \o Clean(call[u].raw), p) THEN harm ELSE harm \cup {call[u].raw}

Ends(u) == /\ Returns(u)
           /\ exit' = IF call[u].key = <<>> THEN exit \cup {u} ELSE exit

RemoveValue(u) ==
  /\ At(u, "value") /\ Goes(u, "tree")
  /\ IF Valid(handle[u]) /\ Exists(Key(u))
     THEN SetValue(Key(u), keyName(call[u].key), NONE)
     ELSE UNCHANGED <<data, moved>>
  /\ harm' = IF data' # data THEN Harms(u, Target(u)) ELSE harm
  /\ UNCHANGED <<keys, loc, denied, handle, exit, calls, mine, wiped>>

OpenTree_Bug(u) ==
  /\ At(u, "tree")
  /\ IF Valid(handle[u]) /\ Exists(Key(u))
     THEN /\ call' = [call EXCEPT ![u].at = "walk",
                        ![u].walk = <<[h |-> Open(Key(u)), left |-> Children(Key(u))]>>]
          /\ UNCHANGED exit
     ELSE Ends(u)
  /\ UNCHANGED <<tree, loc, denied, handle, calls, ghosts>>
OpenTree(u) ==
  /\ At(u, "tree")
  /\ IF Valid(handle[u]) /\ Exists(Target(u))
     THEN /\ call' = [call EXCEPT ![u].at = "walk",
                        ![u].walk = <<[h |-> Open(Target(u)), left |-> Children(Target(u))]>>]
          /\ UNCHANGED exit
     ELSE Ends(u)
  /\ UNCHANGED <<tree, loc, denied, handle, calls, ghosts>>

\* deleteChildGroups(): the subkeys were listed when their key was opened; one
\* that cannot be opened is passed over.
Top(u) == Last(call[u].walk)
Descend(u) ==
  /\ At(u, "walk")
  /\ \E n \in Top(u).left :
       LET p == Append(Top(u).h.path, n)
           rest == [call[u].walk EXCEPT ![Len(call[u].walk)].left = @ \ {n}] IN
       call' = [call EXCEPT ![u].walk =
         IF Valid(Top(u).h) /\ Exists(p)
         THEN Append(rest, [h |-> Open(p), left |-> Children(p)]) ELSE rest]
  /\ UNCHANGED <<tree, loc, denied, handle, exit, calls, ghosts>>
\* One that cannot be deleted ends the loop of its parent.
Ascend(u) ==
  LET p == Top(u).h.path  rest == Front(call[u].walk) IN
  /\ At(u, "walk") /\ Top(u).left = {} /\ Len(call[u].walk) > 1
  /\ IF Valid(Last(rest).h) /\ CanDelete(p)
     THEN /\ DeleteKey(p) /\ harm' = Harms(u, p)
          /\ call' = [call EXCEPT ![u].walk = rest]
     ELSE /\ call' = [call EXCEPT ![u].walk = [rest EXCEPT ![Len(rest)].left = {}]]
          /\ UNCHANGED <<tree, moved, harm>>
  /\ UNCHANGED <<loc, denied, handle, exit, calls, mine, wiped>>
\* clear() asks for the values as they are listed, so that a default value set
\* since its first step stays.
RemoveTop(u) ==
  LET h == Top(u).h IN
  /\ At(u, "walk") /\ Top(u).left = {} /\ Len(call[u].walk) = 1
  /\ IF call[u].key = <<>> /\ Valid(h)
     THEN /\ data' = [data EXCEPT ![h.path] = [n \in ValueNames |-> IF n = Empty THEN @[n] ELSE NONE]]
          /\ moved' = moved \cup UNION {Readers(h.path, n) : n \in Names}
          /\ UNCHANGED keys
     ELSE IF call[u].key # <<>> /\ Valid(handle[u]) /\ CanDelete(h.path) THEN DeleteKey(h.path)
     ELSE UNCHANGED <<tree, moved>>
  /\ harm' = IF data' # data \/ keys' # keys THEN Harms(u, h.path) ELSE harm
  /\ Ends(u)
  /\ UNCHANGED <<loc, denied, handle, calls, mine, wiped>>

-----------------------------------------------------------------------------
(* The end of an object                                                    *)

End(u) ==
  /\ At(u, "idle") /\ loc[u] # NONE
  /\ call' = [call EXCEPT ![u] =
                [Idle EXCEPT !.op = "end", !.at = IF u \in exit THEN "handle" ELSE "close"]]
  /\ moved' = moved \ {u}
  /\ UNCHANGED <<tree, loc, denied, handle, exit, calls, mine, harm, wiped>>
DeleteSelf(u) ==
  /\ At(u, "last") /\ Goes(u, "close")
  /\ IF Valid(handle[u]) /\ CanDelete(handle[u].path)
     THEN LET p == handle[u].path IN
          /\ DeleteKey(p)
          /\ wiped' = wiped \cup {<<u, x>> : x \in {y \in Users : \E n \in ValueNames :
                                                    data[p][n] # NONE /\ <<p, n>> \in mine[y]}}
     ELSE UNCHANGED <<tree, moved, wiped>>
  /\ UNCHANGED <<loc, denied, handle, exit, calls, mine, harm>>
Close(u) ==
  /\ At(u, "close")
  /\ call' = [call EXCEPT ![u] = [Idle EXCEPT !.at = "dead"]]
  /\ handle' = [handle EXCEPT ![u] = NONE]
  /\ UNCHANGED <<tree, loc, denied, exit, calls, ghosts>>

Next ==
  \E u \in Users :
    \/ \E k \in Texts :
         \/ \E v \in Values : Begin(u, "set", k, v)
         \/ Begin(u, "get", k, NONE) \/ Begin(u, "remove", k, NONE)
    \/ Begin(u, "list", <<>>, NONE) \/ List(u)
    \/ Handle(u) \/ CreatePath(u) \/ Write(u) \/ Query(u) \/ Read(u)
    \/ RemoveValue(u) \/ OpenTree(u) \/ Descend(u) \/ Ascend(u) \/ RemoveTop(u)
    \/ End(u) \/ DeleteSelf(u) \/ Close(u)

Spec == Init /\ [][Next]_vars

-----------------------------------------------------------------------------
(* Properties                                                              *)

\* Whatever others do at the same time, remove() deletes nothing but what its
\* key names, unless the key begins with a slash or has two in a row, which
\* normalizedKey() cuts the key at (remove, deleteChildGroups).
RemovesOnlyNamed == \A k \in harm : normalizedKey(k) # Clean(k)

\* An object that was cleared deletes its location when it ends; the values
\* that go with it are never its own (clear, set, ~RegistryPrivate).
EndSparesOwn == \A w \in wiped : w[1] # w[2]

\* get() reads size and type first and the value then: an answer is a value
\* that somebody set, and a value is not missed, unless it was changed between
\* the two (readKey).
ReadsWhole == \A u \in Users : call[u].op = "read" /\ u \notin moved => call[u].value \in Values

\* What allKeys() lists of the location itself, value() finds (keyName, "."); a
\* name with a backslash it does not, for remove(), set() and value() take the
\* backslash for a part of the name.
ListsFound ==
  \A u \in Users : List(u) =>
    \A k \in call'[u].found :
      Len(k) = 1 => keyName(k) \in ValueNames /\ data[handle[u].path][keyName(k)] # NONE
ListedIsFound == [][ListsFound]_vars

\* The parts of the inductive invariant of RegistryProofs.

Words == ValueNames \cup {".", "Default"}
Handles == [path : Paths, id : Nat \ {0}]
Calls == [op : DOMAIN First \cup {"none", "read"},
          at : {"idle", "handle", "path", "write", "query", "data", "list", "value", "tree",
                "walk", "last", "close", "dead"},
          key : Seq(Words), raw : Seq(Words),
          value : [type : STRING, size : Nat] \cup {NONE},
          found : SUBSET Seq(Words), sub : Handles \cup {NONE},
          walk : Seq([h : Handles, left : SUBSET Names])]

TypeOK ==
  /\ keys \in [Paths -> Nat] /\ data \in [Paths -> [ValueNames -> Values \cup {NONE}]]
  /\ loc \in [Users -> Locations \cup {NONE}] /\ handle \in [Users -> Handles \cup {NONE}]
  /\ call \in [Users -> Calls] /\ mine \in [Users -> SUBSET (Paths \X ValueNames)]
  /\ calls \in Nat

\* The requests of a call, the handles that it has got before, and where the
\* keys lie that remove() is about to delete.
Requests == [
  set |-> {"path", "write"}, get |-> {"query", "data"}, list |-> {"list"},
  remove |-> {"value", "tree", "walk"}, end |-> {"last"}]
CallRight(u) ==
  LET c == call[u] IN
  /\ c.key = normalizedKey(c.raw)
  /\ c.at = "handle" => c.op \in DOMAIN Requests
  /\ c.at \notin {"idle", "handle", "close", "dead"} =>
       /\ c.op \in DOMAIN Requests /\ c.at \in Requests[c.op] /\ handle[u] # NONE
       /\ c.op \in {"set", "remove", "end"} => u \notin denied
  /\ c.op = "set" \/ c.at = "data" => c.value \in Values
  /\ c.at \in {"write", "data"} => c.sub \in Handles
  /\ c.at = "walk" =>
       /\ c.walk # <<>> /\ \A i \in DOMAIN c.walk : IsPrefix(Target(u), c.walk[i].h.path)
       /\ c.key = <<>> => c.walk[1].h = handle[u]
  /\ c.op = "end" /\ c.at \in {"handle", "last"} => u \in exit
CallsRight == \A u \in Users : CallRight(u)

\* What an object has set at its location is gone when it was cleared since:
\* the default value first, the others in the last step.  What it cannot write
\* to, it has not set.
Kept(u, n) == <<handle[u].path, n>> \in mine[u] /\ data[handle[u].path][n] # NONE
OwnIsGone(u) ==
  /\ u \in denied \/ (handle[u] = NONE /\ ~At(u, "dead")) => mine[u] = {}
  /\ u \in exit /\ Valid(handle[u]) => \A n \in ValueNames : ~Kept(u, n)
  /\ call[u].at \in {"tree", "walk"} /\ call[u].key = <<>> /\ Valid(handle[u]) => ~Kept(u, Empty)
OwnGone == \A u \in Users : OwnIsGone(u)

\* A value that nobody has changed since its type and size were read is there.
StillThere(u) ==
  At(u, "data") /\ u \notin moved =>
    /\ Valid(call[u].sub) /\ call[u].value \in Values
    /\ data[call[u].sub.path][keyName(call[u].key)] = call[u].value
Unmoved == \A u \in Users : StillThere(u)

\* A value called "Default" is nobody's: it stands for the default value.
DefaultFree == \A p \in Paths, n \in {"Default"} \cap Names : data[p][n] = NONE

IInv ==
  /\ TypeOK /\ CallsRight /\ OwnGone /\ Unmoved /\ DefaultFree
  /\ RemovesOnlyNamed /\ EndSparesOwn /\ ReadsWhole
================================================================================
