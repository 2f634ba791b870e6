----------------------------- MODULE DrvRegistry -----------------------------
(***************************************************************************)
(* The driver registry of wd_alg.c: a linked list with one node per driver *)
(* name and algorithm class, a mutex, and a node counter.  Algorithm front *)
(* ends open driver libraries (whose constructors register drivers), look  *)
(* for drivers by walking the list without the mutex, count their use,     *)
(* and close the libraries again (whose destructors unregister).           *)
(*                                                                         *)
(* A front end is initialised by init, which opens its own library, or by  *)
(* init2, which opens every library one after the other and has the loader *)
(* keep them for good (RTLD_NODELETE).  A static build has no loader: both *)
(* call the probe and remove functions of the front end's own driver.      *)
(*                                                                         *)
(* Every operation reads head->next before it takes the mutex; this read   *)
(* is a step of its own.  What is done under the mutex is one step.  A     *)
(* driver structure stands for the one algorithm it names.  A thread whose *)
(* pointer is to a freed node takes no further step.                       *)
(***************************************************************************)
EXTENDS Integers, Sequences, FiniteSets

CONSTANTS
  Users,     \* algorithm front ends (wd_cipher, ...), one thread each
  Drivers,   \* wd_alg_driver structures
  Name, Class, Lib,   \* of a driver: drv_name, algorithm class with the kind of
                      \* device (wd_alg_drv_type_match), shared library
  Wants,     \* the class a front end discovers drivers for
  Own,       \* the library its init opens
  Asks,      \* the driver name its init asks for; Null: it does not discover
  Programs,  \* each with a build, and how its front ends are initialised: "init",
             \* "init2" or "unused"; in a "dynamic" build libraries are counted and
             \* loaded under the loader's lock, in a "static" one hisi_*_probe and
             \* hisi_*_remove are called
  Switched,  \* drivers the application disables and enables
  Available, \* drivers wd_alg_check_available accepts on this system
  AlgCap,    \* MAX_DRV_ALG_NUM
  MaxNodes,  \* bound on the nodes that exist or are pointed to
  Null       \* a null pointer, a free lock

Libs == {Lib[d] : d \in Drivers}

ASSUME DriverAssumption ==
  /\ Name \in [Drivers -> STRING] /\ Class \in [Drivers -> STRING]
  /\ Lib \in [Drivers -> STRING]
  /\ Available \subseteq Drivers /\ Switched \subseteq Drivers
ASSUME UserAssumption ==
  /\ IsFiniteSet(Users) /\ Null \notin Users /\ Own \in [Users -> Libs]
  /\ Programs \subseteq [build : {"dynamic", "static"},
                          init_type : [Users -> {"init", "init2", "unused"}]]

VARIABLES
  build,    \* how the program was built
  init_type,  \* how each front end is initialised
  list,     \* the registry's nodes in list order
  node,     \* contents of each node
  drv_type_num,
  loads,    \* the loader's use count of each library
  pinned,   \* libraries the loader keeps for good
  held,     \* the libraries a front end has open (dlh_list or dlhandle)
  loader,   \* who holds the loader's lock
  pc,       \* what a front end is doing
  todo,     \* drivers it still has to register or unregister
  ptr,      \* its node pointer, read before the mutex is taken
  max, count, arr  \* wd_get_drv_array: max_driver_count, current_count and the
                   \* drivers found (a set; a driver with two nodes counts twice)

vars == <<build, init_type, list, node, drv_type_num, loads, pinned, held, loader,
          pc, todo, ptr, max, count, arr>>
regVars == <<list, node, drv_type_num>>
fixed == <<build, init_type>>
libVars == <<pinned, held>>

NodeIds == 1 .. MaxNodes

ASSUME NodeAssumption == MaxNodes \in Nat /\ Null \notin NodeIds

Live == {list[i] : i \in DOMAIN list}
Blank == [name |-> "", class |-> "", drv |-> Null, algs |-> {}, on |-> {},
          refcnt |-> 0]

Init == /\ \E p \in Programs : build = p.build /\ init_type = p.init_type
        /\ list = << >> /\ node = [n \in NodeIds |-> Blank]
        /\ drv_type_num = 0
        /\ loads = [l \in Libs |-> 0] /\ loader = Null
        /\ pinned = {} /\ held = [u \in Users |-> {}]
        /\ pc = [u \in Users |-> "closed"]
        /\ todo = [u \in Users |-> {}]
        /\ ptr = [u \in Users |-> Null]
        /\ max = [u \in Users |-> 0] /\ count = [u \in Users |-> 0]
        /\ arr = [u \in Users |-> {}]

-----------------------------------------------------------------------------
\* The list

First == IF list = << >> THEN Null ELSE Head(list)
Index(n) == CHOOSE i \in DOMAIN list : list[i] = n
Succ(n) == IF Index(n) = Len(list) THEN Null ELSE list[Index(n) + 1]

\* The nodes a walk from pointer p meets, and the first of them that holds
\* driver name and class of d.
From(p) == IF p = Null THEN {} ELSE {list[i] : i \in Index(p) .. Len(list)}
Holding(p, d) == {n \in From(p) : /\ node[n].name = Name[d]
                                   /\ node[n].class = Class[d]}
Earliest(S) == CHOOSE n \in S : \A m \in S : Index(n) <= Index(m)

Pointed == {ptr[u] : u \in Users}
Fresh == {n \in NodeIds : n \notin Live \cup Pointed}

Remove(n) == [i \in 1 .. Len(list) - 1 |-> list[IF i < Index(n) THEN i ELSE i + 1]]

-----------------------------------------------------------------------------
\* Opening libraries: wd_dlopen_drv or dlopen, or the probe functions of a static
\* build

V2(u) == init_type[u] = "init2"
V1(u) == init_type[u] = "init"
Opens(u) == {l \in Libs : V2(u) \/ (V1(u) /\ l = Own[u])}
DriversOf(l) == {d \in Drivers : Lib[d] = l}

\* Nobody has the library open and it is not kept: it is not in memory.
Unloaded(l) == loads[l] = 0 /\ l \notin pinned

\* The constructor of the next library runs if the library is not in memory.
OpenDynamic(u, l) ==
  /\ build = "dynamic" /\ pc[u] \in {"closed", "opening"} /\ loader = Null
  /\ l \in Opens(u) \ held[u]
  /\ loader' = u
  /\ loads' = [loads EXCEPT ![l] = @ + 1]
  /\ held' = [held EXCEPT ![u] = @ \cup {l}]
  /\ pinned' = IF V2(u) THEN pinned \cup {l} ELSE pinned
  /\ todo' = [todo EXCEPT ![u] = IF Unloaded(l) THEN DriversOf(l) ELSE {}]
  /\ pc' = [pc EXCEPT ![u] = "probe"]
  /\ UNCHANGED <<regVars, ptr, max, count, arr>>

OpenStatic(u) ==
  /\ build = "static" /\ pc[u] = "closed" /\ init_type[u] # "unused"
  /\ todo' = [todo EXCEPT ![u] = DriversOf(Own[u])]
  /\ pc' = [pc EXCEPT ![u] = "probe"]
  /\ UNCHANGED <<regVars, loads, loader, ptr, max, count, arr>>

\* wd_alg_driver_register reads head->next ...
RegisterEnter(u) == /\ pc[u] = "probe" /\ todo[u] # {}
                    /\ ptr' = [ptr EXCEPT ![u] = First]
                    /\ pc' = [pc EXCEPT ![u] = "register"]
                    /\ UNCHANGED <<regVars, loads, loader, todo, max, count, arr>>

RegisterDone(u, d) == /\ todo' = [todo EXCEPT ![u] = @ \ {d}]
                      /\ ptr' = [ptr EXCEPT ![u] = Null]
                      /\ pc' = [pc EXCEPT ![u] = "probe"]
                      /\ UNCHANGED <<loads, loader, max, count, arr>>

\* A library goes through its table of drivers in a fixed order.
Turn(u) == IF todo[u] = {} THEN {} ELSE {CHOOSE d \in todo[u] : TRUE}

InList(u) == ptr[u] = Null \/ ptr[u] \in Live

\* Mutant of RegisterNode: the list is not searched.
AlwaysNewNode(u, d) ==
  /\ pc[u] = "register" /\ d \in Turn(u) /\ d \in Available
  /\ \E n \in Fresh :
       /\ node' = [node EXCEPT ![n] = [name |-> Name[d], class |-> Class[d],
                                       drv |-> d, algs |-> {d}, on |-> {d},
                                       refcnt |-> 0]]
       /\ list' = Append(list, n)
  /\ drv_type_num' = drv_type_num + 1
  /\ RegisterDone(u, d)

\* ... and, under the mutex, adds a node for a new driver name and class,
RegisterNode(u, d) ==
  /\ pc[u] = "register" /\ d \in Turn(u) /\ InList(u)
  /\ d \in Available /\ Holding(ptr[u], d) = {}
  /\ \E n \in Fresh :
       /\ \A m \in Fresh : n <= m
       /\ node' = [node EXCEPT ![n] = [name |-> Name[d], class |-> Class[d],
                                       drv |-> d, algs |-> {d}, on |-> {d},
                                       refcnt |-> 0]]
       /\ list' = Append(list, n)
  /\ drv_type_num' = drv_type_num + 1
  /\ RegisterDone(u, d)

\* or adds the algorithm to the node it found,
RegisterAlg(u, d) ==
  /\ pc[u] = "register" /\ d \in Turn(u) /\ InList(u)
  /\ d \in Available /\ Holding(ptr[u], d) # {}
  /\ LET n == Earliest(Holding(ptr[u], d)) IN
       /\ d \notin node[n].algs /\ Cardinality(node[n].algs) < AlgCap
       /\ node' = [node EXCEPT ![n].algs = @ \cup {d}, ![n].on = @ \cup {d}]
  /\ UNCHANGED <<list, drv_type_num>>
  /\ RegisterDone(u, d)

\* or skips a duplicate, a full node, or a driver this system has no device for.
RegisterSkip(u, d) ==
  /\ pc[u] = "register" /\ d \in Turn(u) /\ InList(u)
  /\ \/ d \notin Available
     \/ /\ Holding(ptr[u], d) # {}
        /\ LET n == Earliest(Holding(ptr[u], d)) IN
             d \in node[n].algs \/ Cardinality(node[n].algs) = AlgCap
  /\ UNCHANGED regVars
  /\ RegisterDone(u, d)

OpenDone(u) == /\ pc[u] = "probe" /\ todo[u] = {}
               /\ loader' = IF loader = u THEN Null ELSE loader
               /\ pc' = [pc EXCEPT ![u] = IF build = "dynamic" /\ held[u] # Opens(u)
                                          THEN "opening" ELSE "open"]
               /\ UNCHANGED <<regVars, loads, todo, ptr, max, count, arr>>

-----------------------------------------------------------------------------
\* wd_get_drv_array: a walk without the mutex

DiscoverStart(u) == /\ pc[u] = "open" /\ drv_type_num > 0
                    /\ V2(u) \/ Asks[u] # Null
                    /\ max' = [max EXCEPT ![u] = drv_type_num]
                    /\ count' = [count EXCEPT ![u] = 0]
                    /\ ptr' = [ptr EXCEPT ![u] = First]
                    /\ pc' = [pc EXCEPT ![u] = "walk"]
                    /\ UNCHANGED <<regVars, loads, loader, todo, arr>>

ClassMatches(u) == node[ptr[u]].class = Wants[u]
NameMatches(u) == V2(u) \/ node[ptr[u]].name = Asks[u]

WalkNext(u) == /\ ptr' = [ptr EXCEPT ![u] = Succ(ptr[u])]
               /\ UNCHANGED <<regVars, loads, loader, pc, todo, max>>

DiscoverTake(u) == /\ pc[u] = "walk" /\ ptr[u] \in Live
                   /\ ClassMatches(u) /\ NameMatches(u)
                   /\ node[ptr[u]].on # {}
                   /\ count[u] < max[u]
                   /\ count' = [count EXCEPT ![u] = @ + 1]
                   /\ arr' = [arr EXCEPT ![u] = @ \cup {node[ptr[u]].drv}]
                   /\ WalkNext(u)

\* Mutant of DiscoverPass: the loop also stays at a driver without available
\* algorithms.
PassStays(u) == /\ pc[u] = "walk" /\ ptr[u] \in Live
                /\ \/ ~ClassMatches(u) /\ WalkNext(u) /\ UNCHANGED <<count, arr>>
                   \/ NameMatches(u) /\ node[ptr[u]].on = {} /\ UNCHANGED vars

\* A node whose name differs from the one asked for is not passed over: the
\* loop continues without going to the next node, so no step is left.
DiscoverPass(u) == /\ pc[u] = "walk" /\ ptr[u] \in Live
                   /\ \/ ~ClassMatches(u)
                      \/ NameMatches(u) /\ node[ptr[u]].on = {}
                   /\ WalkNext(u)
                   /\ UNCHANGED <<count, arr>>

DiscoverEnd(u, label) == /\ pc' = [pc EXCEPT ![u] = label]
                         /\ ptr' = [ptr EXCEPT ![u] = Null]
                         /\ max' = [max EXCEPT ![u] = 0]
                         /\ count' = [count EXCEPT ![u] = 0]
                         /\ UNCHANGED <<regVars, loads, loader, todo>>

\* The registry grew after drv_type_num was read.
DiscoverOverflow(u) == /\ pc[u] = "walk" /\ ptr[u] \in Live
                       /\ ClassMatches(u) /\ NameMatches(u)
                       /\ node[ptr[u]].on # {}
                       /\ count[u] >= max[u]
                       /\ DiscoverEnd(u, "open")
                       /\ arr' = [arr EXCEPT ![u] = {}]

\* The end of the list: the array is returned,
DiscoverOk(u) == /\ pc[u] = "walk" /\ ptr[u] = Null /\ arr[u] # {}
                 /\ DiscoverEnd(u, "found")
                 /\ UNCHANGED arr

\* or no driver was found.
DiscoverNone(u) == /\ pc[u] = "walk" /\ ptr[u] = Null /\ arr[u] = {}
                   /\ DiscoverEnd(u, "open")
                   /\ UNCHANGED arr

-----------------------------------------------------------------------------
\* wd_ctx_bind_drivers and wd_ctx_unbind_drivers: wd_alg_drv_ref_inc and _dec

\* Nothing but a message reads refcnt; it is followed in a dynamic build, where a
\* driver has one node.
Bumped(u, n, delta) ==
  IF /\ build = "dynamic" /\ n \in Live
     /\ node[n].drv \in arr[u] /\ node[n].refcnt + delta >= 0
  THEN [node[n] EXCEPT !.refcnt = @ + delta] ELSE node[n]

Bind(u) == /\ pc[u] = "found"
           /\ node' = [n \in NodeIds |-> Bumped(u, n, 1)]
           /\ pc' = [pc EXCEPT ![u] = "bound"]
           /\ UNCHANGED <<list, drv_type_num, loads, loader, todo, ptr, max,
                          count, arr>>

\* Mutant of Unbind: the references are kept.
UnbindKeepsRefs(u) == /\ pc[u] = "bound"
                      /\ arr' = [arr EXCEPT ![u] = {}]
                      /\ pc' = [pc EXCEPT ![u] = "open"]
                      /\ UNCHANGED <<regVars, loads, loader, todo, ptr, max, count>>

\* References are given back and the array is released (wd_put_drv_array).
Unbind(u) == /\ pc[u] = "bound"
             /\ node' = [n \in NodeIds |-> Bumped(u, n, -1)]
             /\ arr' = [arr EXCEPT ![u] = {}]
             /\ pc' = [pc EXCEPT ![u] = "open"]
             /\ UNCHANGED <<list, drv_type_num, loads, loader, todo, ptr,
                            max, count>>

\* wd_ctx_config_uninit releases an array that was not bound (a later step of
\* init2 failed, or the front end does not bind drivers).
Release(u) == /\ pc[u] = "found"
              /\ arr' = [arr EXCEPT ![u] = {}]
              /\ pc' = [pc EXCEPT ![u] = "open"]
              /\ UNCHANGED <<regVars, loads, loader, todo, ptr, max, count>>

-----------------------------------------------------------------------------
\* wd_disable_drv and wd_enable_drv, called by a front end that has its
\* libraries open; they change the first node that has the driver's name.

NamedAs(d) == {n \in Live : node[n].name = Name[d]}

Disable(u, d) == /\ pc[u] \in {"open", "bound"} /\ NamedAs(d) # {}
                 /\ LET n == Earliest(NamedAs(d)) IN
                      node' = [node EXCEPT ![n].on = {}]
                 /\ UNCHANGED <<list, drv_type_num, loads, loader, pc, todo,
                                ptr, max, count, arr>>

Enable(u, d) == /\ pc[u] \in {"open", "bound"} /\ NamedAs(d) # {}
                /\ LET n == Earliest(NamedAs(d)) IN
                     node' = [node EXCEPT ![n].on = node[n].algs]
                /\ UNCHANGED <<list, drv_type_num, loads, loader, pc, todo,
                               ptr, max, count, arr>>

-----------------------------------------------------------------------------
\* Closing libraries: wd_dlclose_drv or dlclose, or the remove functions

\* Mutant of CloseDynamic: the library is unloaded however many use it.
UnloadAlways(u, l) ==
  /\ build = "dynamic" /\ pc[u] \in {"open", "closing"} /\ loader = Null
  /\ l \in held[u]
  /\ loader' = u
  /\ loads' = [loads EXCEPT ![l] = @ - 1]
  /\ held' = [held EXCEPT ![u] = @ \ {l}]
  /\ todo' = [todo EXCEPT ![u] = DriversOf(l)]
  /\ pc' = [pc EXCEPT ![u] = "remove"]
  /\ UNCHANGED <<regVars, pinned, ptr, max, count, arr>>

\* The destructor of a library runs when the last user closes it, unless the
\* loader keeps the library.
CloseDynamic(u, l) ==
  /\ build = "dynamic" /\ pc[u] \in {"open", "closing"} /\ loader = Null
  /\ l \in held[u]
  /\ loader' = u
  /\ loads' = [loads EXCEPT ![l] = @ - 1]
  /\ held' = [held EXCEPT ![u] = @ \ {l}]
  /\ todo' = [todo EXCEPT ![u] = IF loads[l] = 1 /\ l \notin pinned
                                 THEN DriversOf(l) ELSE {}]
  /\ pc' = [pc EXCEPT ![u] = "remove"]
  /\ UNCHANGED <<regVars, pinned, ptr, max, count, arr>>

CloseStatic(u) ==
  /\ build = "static" /\ pc[u] = "open"
  /\ todo' = [todo EXCEPT ![u] = DriversOf(Own[u])]
  /\ pc' = [pc EXCEPT ![u] = "remove"]
  /\ UNCHANGED <<regVars, loads, loader, ptr, max, count, arr>>

UnregisterDone(u, d) == /\ todo' = [todo EXCEPT ![u] = @ \ {d}]
                        /\ ptr' = [ptr EXCEPT ![u] = Null]
                        /\ pc' = [pc EXCEPT ![u] = "remove"]
                        /\ UNCHANGED <<loads, loader, max, count, arr>>

UnregisterEnter(u) == /\ pc[u] = "remove" /\ todo[u] # {}
                      /\ ptr' = [ptr EXCEPT ![u] = First]
                      /\ pc' = [pc EXCEPT ![u] = "unregister"]
                      /\ UNCHANGED <<regVars, loads, loader, todo, max, count, arr>>

\* The driver has no node (or the list was seen empty before the mutex).
UnregisterSkip(u, d) ==
  /\ pc[u] = "unregister" /\ d \in Turn(u) /\ InList(u)
  /\ Holding(ptr[u], d) = {}
  /\ UNCHANGED regVars
  /\ UnregisterDone(u, d)

\* Mutant of UnregisterDrv: a node is removed with its first algorithm.
RemovesTooEarly(u, d) ==
  /\ pc[u] = "unregister" /\ d \in Turn(u) /\ InList(u)
  /\ Holding(ptr[u], d) # {}
  /\ LET n == Earliest(Holding(ptr[u], d)) IN
       /\ node' = [node EXCEPT ![n] = Blank]
       /\ list' = Remove(n)
       /\ drv_type_num' = drv_type_num
  /\ UnregisterDone(u, d)

\* The algorithm leaves its node; a node without algorithms leaves the list
\* and is freed, even when its refcnt is not 0.
UnregisterDrv(u, d) ==
  /\ pc[u] = "unregister" /\ d \in Turn(u) /\ InList(u)
  /\ Holding(ptr[u], d) # {}
  /\ LET n == Earliest(Holding(ptr[u], d))
         left == node[n].algs \ {d}
     IN IF left = {}
        THEN /\ node' = [node EXCEPT ![n] = Blank]
             /\ list' = Remove(n)
             /\ drv_type_num' = drv_type_num - 1
        ELSE /\ node' = [node EXCEPT ![n].algs = left, ![n].on = @ \ {d}]
             /\ UNCHANGED <<list, drv_type_num>>
  /\ UnregisterDone(u, d)

CloseDone(u) == /\ pc[u] = "remove" /\ todo[u] = {}
                /\ loader' = IF loader = u THEN Null ELSE loader
                /\ pc' = [pc EXCEPT ![u] = IF build = "dynamic" /\ held[u] # {}
                                           THEN "closing" ELSE "closed"]
                /\ UNCHANGED <<regVars, loads, todo, ptr, max, count, arr>>

-----------------------------------------------------------------------------
Walk(u) == \/ DiscoverTake(u) \/ DiscoverPass(u) \/ DiscoverOverflow(u)
           \/ DiscoverOk(u) \/ DiscoverNone(u)

Work(u) == /\ \/ RegisterEnter(u) \/ OpenDone(u) \/ UnregisterEnter(u)
              \/ CloseDone(u) \/ Walk(u)
              \/ \E d \in Drivers :
                   \/ RegisterNode(u, d) \/ RegisterAlg(u, d)
                   \/ RegisterSkip(u, d) \/ UnregisterSkip(u, d)
                   \/ UnregisterDrv(u, d)
           /\ UNCHANGED libVars

Next == /\ \E u \in Users :
             \/ Work(u)
             \/ \E l \in Libs : OpenDynamic(u, l) \/ CloseDynamic(u, l)
             \/ /\ \/ OpenStatic(u) \/ DiscoverStart(u) \/ Bind(u) \/ Unbind(u)
                   \/ Release(u) \/ CloseStatic(u)
                   \/ \E d \in Switched : Disable(u, d) \/ Enable(u, d)
                /\ UNCHANGED libVars
        /\ UNCHANGED fixed

Spec == Init /\ [][Next]_vars

\* A front end that is inside an operation goes on with it.
FairSpec == Spec /\ \A u \in Users : WF_vars(Work(u) /\ UNCHANGED fixed)

-----------------------------------------------------------------------------
\* A pointer a front end works with, in wd_get_drv_array's walk or read before
\* the mutex, is to a node that is still in the list, thanks to the use counts of
\* the libraries and to the loader keeping those of init2 (a static build has
\* neither).
NoStalePointer == build = "dynamic" =>
                    \A u \in Users : ptr[u] # Null => ptr[u] \in Live

\* drv_type_num, which sizes the array of wd_get_drv_array, counts the nodes
\* in any build, and a walk never writes past the array it sized.
CountExact ==
  /\ drv_type_num = Len(list)
  /\ \A u \in Users : pc[u] = "walk" => count[u] <= max[u]

\* "refcnt reflects the number of configs using the driver": as long as a
\* front end is bound to a driver its node is in the list, and the node counts
\* the front ends (with the use counts of a dynamic build).
BoundTo(d) == {u \in Users : pc[u] = "bound" /\ d \in arr[u]}
RefcntIsUsers ==
  build = "dynamic" => \A d \in Drivers :
    /\ BoundTo(d) # {} => \E n \in Live : node[n].drv = d
    /\ \A n \in Live : node[n].drv = d =>
                         node[n].refcnt = Cardinality(BoundTo(d))

\* "duplicate drivers will be skipped when it register to alg_list": a driver
\* name and class has one node, if the loader's lock keeps registrations apart.
NodesUnique ==
  build = "dynamic" => \A n, m \in Live : /\ node[n].name = node[m].name
                      /\ node[n].class = node[m].class
                      => n = m

\* The two together: the list and its counter agree, whatever was registered,
\* disabled or removed in between (wd_alg_driver_register, _unregister).
ListExact == CountExact /\ NodesUnique

\* "Traverses wd_drv_node list once": wd_get_drv_array returns.
DiscoveryEnds ==
  \A u \in Users : (build = "dynamic" /\ pc[u] = "walk") ~> (pc[u] # "walk")
=============================================================================
